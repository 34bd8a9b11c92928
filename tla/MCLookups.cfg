SPECIFICATION Spec
CONSTANTS
  a = a
  b = b
  Names = {a, b}
  IDs = {1, 2}
  NoInfo = NoInfo
  NoPreamble = NoPreamble
  NoAspect = NoAspect
  MaxObjects = 2
  MaxFields = 2
INVARIANTS
  FirstByName
  IDsAgree
  DialledAsAsked
