SPECIFICATION FairSpec
CONSTANTS
  n1 = n1
  n2 = n2
  Controllers = {n1, n2}
  Half = 2
  Skew <- Ahead
  Prompt = {n2}
INVARIANTS TypeOK LeaseKept NothingOverlooked
PROPERTIES OnlyExpiredDeleted LiveListed DeadForgotten
