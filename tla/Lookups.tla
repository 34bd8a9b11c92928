--------------------------------- MODULE Lookups -------------------------------
(***************************************************************************)
(* The pure functions of the SDK, one call at a time: the look-ups in a    *)
(* P4Info, and the destination of a target.  A call has its input in the   *)
(* variable "input" while it runs; the properties compare what the code    *)
(* computes from it with what it should.                                   *)
(***************************************************************************)
EXTENDS P4Info, Destination

CONSTANTS
  MaxObjects,    \* bound on the objects of a kind in a P4Info
  MaxFields      \* bound on the match fields of a table

ASSUME BoundAssumption == MaxObjects \in Nat /\ MaxFields \in Nat

VARIABLE input   \* of the call that is under way

-----------------------------------------------------------------------------
(* Inputs.                                                                 *)

Lists(S, max) == UNION {[1 .. n -> S] : n \in 0 .. max}

\* Match fields and externs have a name of their own, the others a preamble.
NamedObjects == [name : Names, id : IDs]
Objects      == [name : Names \cup {NoPreamble}, id : IDs]
Tables       == [name : Names \cup {NoPreamble}, id : IDs,
                 fields : Lists(NamedObjects, MaxFields)]

ListsOf(kind) ==
  Lists(CASE kind = "extern" -> NamedObjects
          [] kind = "table"  -> Tables
          [] OTHER           -> Objects, MaxObjects)

\* P4Infos with objects of one kind: no method looks at more than one.
Infos == {NoInfo} \cup
  UNION {{[k \in Kinds |-> IF k = kind THEN list ELSE <<>>] : list \in ListsOf(kind)} :
          kind \in Kinds}

NoCall == [of |-> "nothing"]

HelperInput == input.of = "helper"
TargetInput == input.of = "target"

-----------------------------------------------------------------------------

Init == input = NoCall

\* A method of Helper is called on a P4Info.
CallHelper(info) ==
  /\ input = NoCall
  /\ input' = [of |-> "helper", info |-> info]

\* Connect is called for a target that has no client.
CallConnect(t) ==
  /\ input = NoCall
  /\ input' = [of |-> "target", target |-> t]

\* The call returns.
Return ==
  /\ input # NoCall
  /\ input' = NoCall

Next ==
  \/ \E info \in Infos : CallHelper(info)
  \/ \E t \in TargetObjects : CallConnect(t)
  \/ Return

Spec == Init /\ [][Next]_input

-----------------------------------------------------------------------------
(* Properties.                                                             *)

\* utils.go:43-300: the method of a kind finds the first object of that kind that
\* has the name: it looks at its own list, also where one method was written
\* after another, and misses an object only when there is none or when one
\* without a preamble comes before.
FirstByName ==
  HelperInput =>
    \A kind \in Kinds, name \in Names :
      LET r == ObjectMethods(input.info, name)[kind] IN
      IF input.info = NoInfo THEN r = Invalid
      ELSE Answers(input.info[kind], name, r)

\* The ID a method returns is that of the object the other method of the kind
\* returns, and the error is the same one, whether it calls the other (with the
\* check of its own, or without: DirectMeterID, DirectCounterID) or has a loop of
\* its own (DigestID).
ObjectsAgree ==
  HelperInput =>
    \A kind \in Kinds, name \in Names :
      LET object == ObjectMethods(input.info, name)[kind]
          id     == IDMethods(input.info, name)[kind]
      IN IF object.status = "ok" THEN id = Ok(object.value.id) ELSE id = object

\* The ID of a match field belongs to the table Table returns for the name,
\* whatever other tables of that name and fields of that name there are.
FieldsAgree ==
  HelperInput =>
    \A name, field \in Names :
      LET table == Table(input.info, name)
          id    == MatchFieldID(input.info, name, field)
      IN IF table.status # "ok" THEN id = table
         ELSE \/ id = NotFound /\ \A i \in DOMAIN table.value.fields :
                                    table.value.fields[i].name # field
              \/ \E i \in DOMAIN table.value.fields :
                   /\ table.value.fields[i].name = field
                   /\ \A j \in 1 .. i - 1 : table.value.fields[j].name # field
                   /\ id = Ok(table.value.fields[i].id)

\* utils.go:55-313: every method that returns an ID agrees with the method that
\* returns the object the ID belongs to: those of the object's own kind, and that
\* of a match field with the table it is part of.
IDsAgree == ObjectsAgree /\ FieldsAgree

\* What is dialed: a file that an option names is used or nothing is, a default
\* never stands in for it, the default is taken only where no option is given, and
\* of an incomplete key pair nothing at all is used.  Certificates are verified
\* unless the options say otherwise or the key pair is incomplete.
OptionsAreUsed ==
  TargetInput =>
    LET d == Dialled(input.target)
        o == input.target.tls
        c == d.credentials
        complete == (o.cert = "none") = (o.key = "none")
    IN d.error = "none" =>
         /\ c.tls = ~ o.plain
         /\ c.tls => IF complete
                     THEN /\ c.roots = (IF o.ca = "none" THEN "default" ELSE "given")
                          /\ c.certs = (IF o.key = "none" THEN "default" ELSE "given")
                          /\ c.verify = ~ o.insecure
                     ELSE c.roots = "none" /\ c.certs = "none" /\ ~ c.verify

\* What is refused: a target that is no entity of a kind, lacks an aspect, or names
\* a file that would be needed and cannot be loaded, and no other.
RefusedForCause ==
  TargetInput =>
    LET t == input.target
        o == t.tls
        incomplete == (o.cert = "none") # (o.key = "none")
        unreadable == \/ o.ca = "bad"
                      \/ "bad" \in {o.cert, o.key} /\ ~ incomplete
    IN Dialled(t).error # "none" <=>
         \/ t.type # "entity" \/ t.kind = "none"
         \/ t.server = NoAspect \/ t.tls = NoAspect
         \/ ~ o.plain /\ unreadable

\* conn_manager.go:89-102, destination.go:35-114: each of the combinations of aspects
\* and options is either refused for a cause or dialed as the options ask; one
\* branch's error is not lost in another, and no branch undoes what another has
\* set.
DialledAsAsked == OptionsAreUsed /\ RefusedForCause
=============================================================================
