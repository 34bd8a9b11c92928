------------------------------ MODULE LookupsProofs ----------------------------
(***************************************************************************)
(* Theorems about Lookups: what a look-up answers on a list of any length, *)
(* and what Connect makes of any target object.                            *)
(*                                                                         *)
(* The loops are not proved by induction on the list: Search is the least  *)
(* hit, and a set of naturals that is not empty has a least element since  *)
(* "<" is well-founded on Nat.                                             *)
(***************************************************************************)
EXTENDS Lookups, WellFoundedInduction, TLAPS

-----------------------------------------------------------------------------
(* The least element of a set.                                             *)

\* A set of naturals that is not empty has a least element.
LEMMA LeastExists ==
  ASSUME NEW S \in SUBSET Nat, S # {}
  PROVE  \E x \in S : \A y \in S : x <= y
<1> DEFINE Less == {p \in Nat \X Nat : p[1] < p[2]}
<1>1. IsWellFoundedOn(Less, Nat)
  BY NatLessThanWellFounded DEF OpToRel
<1>2. PICK x \in S : \A y \in S : <<y, x>> \notin Less
  <2> HIDE DEF Less
  <2> QED BY <1>1, WFMin
<1>3. \A y \in S : <<y, x>> \in Nat \X Nat
  OBVIOUS
<1>4. \A y \in S : ~ (y < x)
  BY <1>2, <1>3
<1> QED BY <1>4

\* Min picks it.
LEMMA MinIsLeast ==
  ASSUME NEW S \in SUBSET Nat, S # {}
  PROVE  /\ Min(S) \in S
         /\ \A y \in S : Min(S) <= y
BY LeastExists DEF Min

-----------------------------------------------------------------------------
(* The loop.                                                               *)

\* A list is what a P4Info has of a kind: no more than its indices matter.
LEMMA ListIndices ==
  ASSUME NEW S, NEW max \in Nat, NEW list \in Lists(S, max)
  PROVE  DOMAIN list \in SUBSET Nat
BY DEF Lists

\* utils.go:43-300: the loop of every method answers with the first object of
\* that name, or with the panic of the first one without a preamble.
LEMMA SearchAnswers ==
  ASSUME NEW list, DOMAIN list \in SUBSET Nat, NEW name \in Names
  PROVE  Answers(list, name, Search(list, name))
<1> DEFINE hits == Hits(list, name)
           named == {i \in DOMAIN list : list[i].name = name}
           blank == {i \in DOMAIN list : list[i].name = NoPreamble}
           r == Search(list, name)
<1>1. hits = named \cup blank /\ hits \in SUBSET Nat
  BY DEF Hits
<1>2. CASE hits = {}
  <2>1. r = NotFound
    BY <1>2 DEF Search
  <2> QED BY <1>1, <1>2, <2>1 DEF Answers, NotFound
<1>3. CASE hits # {}
  <2> DEFINE i == Min(hits)
  <2>1. r = AnswerAt(list, i)
    BY <1>3 DEF Search
  <2>2. i \in hits /\ \A j \in hits : i <= j
    BY <1>1, <1>3, MinIsLeast
  <2> HIDE DEF i
  <2>3. CASE list[i].name = NoPreamble
    <3>1. r = Panics
      BY <2>1, <2>3 DEF AnswerAt
    <3>2. i \in blank
      BY <1>1, <2>2, <2>3 DEF Hits
    <3>3. \A j \in named : j # i
      BY <2>3, P4InfoNullAssumption
    <3>4. \A j \in named : i < j
      BY <1>1, <2>2, <3>3
    <3> QED BY <3>1, <3>2, <3>4 DEF Answers, Panics
  <2>4. CASE list[i].name # NoPreamble
    <3>1. r = Ok(list[i])
      BY <2>1, <2>4 DEF AnswerAt
    <3>2. i \in named
      BY <1>1, <2>2, <2>4
    <3> QED BY <1>1, <2>2, <3>1, <3>2 DEF Answers, Ok
  <2> QED BY <2>3, <2>4
<1> QED BY <1>2, <1>3

-----------------------------------------------------------------------------
(* The calls.                                                              *)

\* What the variable holds: no call, a P4Info, or a target object.
InputTypeOK ==
  input \in {NoCall} \cup [of : {"helper"}, info : Infos]
                    \cup [of : {"target"}, target : TargetObjects]

LEMMA InputTypeCorrect == Spec => []InputTypeOK
<1>1. Init => InputTypeOK
  BY DEF Init, InputTypeOK
<1>2. InputTypeOK /\ [Next]_input => InputTypeOK'
  <2> SUFFICES ASSUME InputTypeOK, [Next]_input
               PROVE  InputTypeOK'
    OBVIOUS
  <2>1. ASSUME NEW info \in Infos, CallHelper(info)
        PROVE  InputTypeOK'
    BY <2>1 DEF CallHelper, InputTypeOK
  <2>2. ASSUME NEW t \in TargetObjects, CallConnect(t)
        PROVE  InputTypeOK'
    BY <2>2 DEF CallConnect, InputTypeOK
  <2>3. CASE Return
    BY <2>3 DEF Return, InputTypeOK
  <2>4. CASE UNCHANGED input
    BY <2>4 DEF InputTypeOK
  <2> QED BY <2>1, <2>2, <2>3, <2>4 DEF Next
<1> QED BY <1>1, <1>2, PTL DEF Spec

\* A call of the Helper is on one of the P4Infos, a call of Connect on one of the
\* targets.
LEMMA CallInputs ==
  ASSUME InputTypeOK
  PROVE  /\ HelperInput => input.info \in Infos
         /\ TargetInput => input.target \in TargetObjects
BY DEF InputTypeOK, NoCall, HelperInput, TargetInput

\* The lists of a P4Info.
LEMMA InfoLists ==
  ASSUME NEW info \in Infos, info # NoInfo, NEW kind \in Kinds
  PROVE  info[kind] = <<>> \/ info[kind] \in ListsOf(kind)
BY DEF Infos

LEMMA InfoIndices ==
  ASSUME NEW info \in Infos, info # NoInfo, NEW kind \in Kinds
  PROVE  DOMAIN info[kind] \in SUBSET Nat
<1>1. CASE info[kind] = <<>>
  BY <1>1
<1>2. CASE info[kind] \in ListsOf(kind)
  <2>1. PICK S : info[kind] \in Lists(S, MaxObjects)
    BY <1>2 DEF ListsOf
  <2> QED BY <2>1, ListIndices, BoundAssumption
<1> QED BY <1>1, <1>2, InfoLists

-----------------------------------------------------------------------------
(* The methods of Helper.                                                  *)

\* The method of a kind looks at the list of that kind.
LEMMA MethodOfKind ==
  ASSUME NEW info, NEW name, NEW kind \in Kinds
  PROVE  ObjectMethods(info, name)[kind] = Object(info, kind, name)
BY DEF ObjectMethods, Kinds, Extern, ControllerPacketMetadata, ValueSet, Register,
       DirectMeter, DirectCounter, Counter, Digest, ActionProfile, Action, Table

\* The method for the ID has the same answer, with the ID in place of the object.
LEMMA IDMethodOfKind ==
  ASSUME NEW info, NEW name, NEW kind \in Kinds
  PROVE  IDMethods(info, name)[kind] = IDOf(Object(info, kind, name))
<1>1. CASE info = NoInfo
  <2>1. Object(info, kind, name) = Invalid
    BY <1>1 DEF Object
  <2>2. IDOf(Invalid) = Invalid
    BY DEF IDOf, IsOk, Invalid
  <2> QED BY <1>1, <2>1, <2>2
       DEF IDMethods, Kinds, ExternID, ControllerPacketMetadataID, ValueSetID, RegisterID,
           DirectMeterID, DirectCounterID, CounterID, DigestID, ActionProfileID,
           ActionID, TableID, DirectMeter, DirectCounter, Object
<1>2. CASE info # NoInfo
  BY <1>2
  DEF IDMethods, Kinds, ExternID, ControllerPacketMetadataID, ValueSetID, RegisterID,
      DirectMeterID, DirectCounterID, CounterID, DigestID, ActionProfileID,
      ActionID, TableID, Extern, ControllerPacketMetadata, ValueSet, Register,
      DirectMeter, DirectCounter, Counter, Digest, ActionProfile, Action, Table, Object
<1> QED BY <1>1, <1>2

\* utils.go:43-300: each method finds the first object of that name in the list
\* of its own kind, whatever the lists are and however long.
THEOREM FirstByNameHolds == Spec => []FirstByName
<1>1. InputTypeOK => FirstByName
  <2> SUFFICES ASSUME InputTypeOK, HelperInput,
                      NEW kind \in Kinds, NEW name \in Names
               PROVE  LET r == ObjectMethods(input.info, name)[kind] IN
                      IF input.info = NoInfo THEN r = Invalid
                      ELSE Answers(input.info[kind], name, r)
    BY DEF FirstByName
  <2> DEFINE info == input.info
             r == ObjectMethods(info, name)[kind]
  <2>1. info \in Infos
    BY CallInputs
  <2>2. r = Object(info, kind, name)
    BY MethodOfKind
  <2>3. CASE info = NoInfo
    BY <2>2, <2>3 DEF Object
  <2>4. CASE info # NoInfo
    <3>1. r = Search(info[kind], name)
      BY <2>2, <2>4 DEF Object
    <3>2. Answers(info[kind], name, Search(info[kind], name))
      BY <2>1, <2>4, InfoIndices, SearchAnswers
    <3> QED BY <2>4, <3>1, <3>2
  <2> QED BY <2>3, <2>4
<1> QED BY <1>1, InputTypeCorrect, PTL

\* utils.go:55-313: the ID of an object is the ID of the object found by the other
\* method of the kind, and the errors are the same.
LEMMA ObjectsDoAgree == ObjectsAgree
<1> SUFFICES ASSUME HelperInput, NEW kind \in Kinds, NEW name \in Names
             PROVE  LET object == ObjectMethods(input.info, name)[kind]
                        id     == IDMethods(input.info, name)[kind]
                    IN IF object.status = "ok" THEN id = Ok(object.value.id) ELSE id = object
  BY DEF ObjectsAgree
<1> QED BY MethodOfKind, IDMethodOfKind DEF IDOf, IsOk

-----------------------------------------------------------------------------
(* The match fields of a table.                                            *)

\* The table that is found is one of the P4Info, with a list of named fields.
LEMMA TableFound ==
  ASSUME NEW info \in Infos, NEW name \in Names, Table(info, name).status = "ok"
  PROVE  /\ info # NoInfo
         /\ Table(info, name).value.fields \in Lists(NamedObjects, MaxFields)
<1> DEFINE list == info["table"]
           table == Table(info, name)
<1>1. info # NoInfo
  BY DEF Table, Object, Invalid
<1>2. "table" \in Kinds
  BY DEF Kinds
<1>3. Answers(list, name, table)
  BY <1>1, <1>2, InfoIndices, SearchAnswers DEF Table, Object
<1>4. PICK i \in DOMAIN list : table.value = list[i]
  BY <1>3 DEF Answers
<1>5. list \in Lists(Tables, MaxObjects)
  BY <1>1, <1>2, <1>4, InfoLists DEF ListsOf
<1>6. list[i] \in Tables
  BY <1>4, <1>5 DEF Lists
<1> QED BY <1>1, <1>4, <1>6 DEF Tables

\* utils.go:250-264: the ID of a match field is that of the first field of that
\* name in the table Table returns, however many tables and fields there are.
LEMMA FieldsDoAgree ==
  ASSUME InputTypeOK
  PROVE  FieldsAgree
<1>1. FieldsAgree
  <2> SUFFICES ASSUME HelperInput, NEW name \in Names, NEW field \in Names
               PROVE  LET table == Table(input.info, name)
                          id    == MatchFieldID(input.info, name, field)
                      IN IF table.status # "ok" THEN id = table
                         ELSE \/ id = NotFound /\ \A i \in DOMAIN table.value.fields :
                                                    table.value.fields[i].name # field
                              \/ \E i \in DOMAIN table.value.fields :
                                   /\ table.value.fields[i].name = field
                                   /\ \A j \in 1 .. i - 1 : table.value.fields[j].name # field
                                   /\ id = Ok(table.value.fields[i].id)
    BY DEF FieldsAgree
  <2> DEFINE info  == input.info
             table == Table(info, name)
             id    == MatchFieldID(info, name, field)
             fields == table.value.fields
             found == Search(fields, field)
  <2>1. info \in Infos
    BY CallInputs
  <2>2. CASE table.status # "ok"
    <3>1. info = NoInfo => table = Invalid
      BY DEF Table, Object
    <3> QED BY <2>2, <3>1 DEF MatchFieldID, IsOk
  <2>3. CASE table.status = "ok"
    <3>1. info # NoInfo /\ fields \in Lists(NamedObjects, MaxFields)
      BY <2>1, <2>3, TableFound
    <3>2. id = IDOf(found)
      BY <2>3, <3>1 DEF MatchFieldID, IsOk
    <3>3. PICK n \in Nat : fields \in [1 .. n -> NamedObjects]
      BY <3>1, BoundAssumption DEF Lists
    <3> HIDE DEF fields
    <3>4. \A i \in DOMAIN fields : fields[i].name # NoPreamble
      BY <3>3, P4InfoNullAssumption DEF NamedObjects
    <3>5. Answers(fields, field, found)
      BY <3>3, SearchAnswers
    <3> HIDE DEF found
    <3>6. CASE found.status = "ok"
      <4>1. PICK i \in DOMAIN fields :
              /\ fields[i].name = field
              /\ found.value = fields[i]
              /\ \A j \in DOMAIN fields : fields[j].name = field => i <= j
        BY <3>5, <3>6 DEF Answers
      <4>2. \A j \in 1 .. i - 1 : fields[j].name # field
        BY <3>3, <4>1
      <4>3. id = Ok(fields[i].id)
        BY <3>2, <3>6, <4>1 DEF IDOf, IsOk
      <4> QED BY <2>3, <4>1, <4>2, <4>3 DEF fields
    <3>7. CASE found.status = "notFound"
      <4>1. \A i \in DOMAIN fields : fields[i].name # field
        BY <3>5, <3>7 DEF Answers
      <4>2. found = NotFound
        BY <3>7 DEF found, Search, AnswerAt, NotFound, Ok, Panics
      <4>3. id = NotFound
        BY <3>2, <4>2 DEF IDOf, IsOk, NotFound
      <4> QED BY <2>3, <4>1, <4>3 DEF fields
    <3>8. found.status \in {"ok", "notFound"}
      BY <3>4, <3>5 DEF Answers
    <3> QED BY <3>6, <3>7, <3>8
  <2> QED BY <2>2, <2>3
<1> QED BY <1>1

\* utils.go:55-313: every method that returns an ID agrees with the one that returns
\* the object, match fields and their tables included.
THEOREM IDsAgreeHolds == Spec => []IDsAgree
<1>1. InputTypeOK => IDsAgree
  BY ObjectsDoAgree, FieldsDoAgree DEF IDsAgree
<1> QED BY <1>1, InputTypeCorrect, PTL

-----------------------------------------------------------------------------
(* The destination of a target.                                            *)

\* A destination that is no error has the credentials of the TLS options.
LEMMA DestinationOf ==
  ASSUME NEW t \in TargetObjects
  PROVE  /\ Dialled(t).error = "none" =>
              /\ t.tls \in TLSOptions
              /\ Dialled(t).credentials = Credentials(t.tls)
              /\ Credentials(t.tls).error = "none"
         /\ Dialled(t).error # "none" <=>
              \/ t.type # "entity" \/ t.kind = "none"
              \/ t.server = NoAspect \/ t.tls = NoAspect
              \/ Credentials(t.tls).error # "none"
BY DEF Dialled, NewDestination, Fails, TargetObjects

\* The branches on the TLS options, one by one.
LEMMA PlaintextOnly ==
  ASSUME NEW o \in TLSOptions, o.plain
  PROVE  Credentials(o).tls = FALSE
BY DEF Credentials, Plaintext

LEMMA WithoutPair ==
  ASSUME NEW o \in TLSOptions, ~ o.plain, Credentials(o).error = "none", NeitherGiven(o)
  PROVE  Credentials(o) = TLS(~ o.insecure, Source(o.ca), "default")
<1>1. ~ BothGiven(o)
  BY DEF BothGiven, NeitherGiven
<1> QED BY <1>1 DEF Credentials, Fails

LEMMA WithPair ==
  ASSUME NEW o \in TLSOptions, ~ o.plain, Credentials(o).error = "none", BothGiven(o)
  PROVE  Credentials(o) = TLS(~ o.insecure, Source(o.ca), "given")
<1>1. ~ NeitherGiven(o)
  BY DEF BothGiven, NeitherGiven
<1> QED BY <1>1 DEF Credentials, Fails

LEMMA WithHalfPair ==
  ASSUME NEW o \in TLSOptions, ~ o.plain, Credentials(o).error = "none",
         ~ NeitherGiven(o), ~ BothGiven(o)
  PROVE  Credentials(o) = TLS(FALSE, "none", "none")
<1>1. o.ca # "bad"
  BY DEF Credentials, Fails
<1> QED BY <1>1 DEF Credentials

\* destination.go:62-106: no default stands in for a file an option names, and of
\* half a key pair nothing is used.
LEMMA OptionsAreUsedHolds == Spec => []OptionsAreUsed
<1>1. InputTypeOK => OptionsAreUsed
  <2> SUFFICES ASSUME InputTypeOK, TargetInput, Dialled(input.target).error = "none"
               PROVE  LET o == input.target.tls
                          c == Dialled(input.target).credentials
                          complete == (o.cert = "none") = (o.key = "none")
                      IN /\ c.tls = ~ o.plain
                         /\ c.tls => IF complete
                                     THEN /\ c.roots = (IF o.ca = "none" THEN "default" ELSE "given")
                                          /\ c.certs = (IF o.key = "none" THEN "default" ELSE "given")
                                          /\ c.verify = ~ o.insecure
                                     ELSE c.roots = "none" /\ c.certs = "none" /\ ~ c.verify
    BY DEF OptionsAreUsed
  <2> DEFINE o == input.target.tls
             c == Dialled(input.target).credentials
  <2>1. o \in TLSOptions /\ c = Credentials(o) /\ Credentials(o).error = "none"
    BY CallInputs, DestinationOf
  <2>2. o.plain \in BOOLEAN
    BY <2>1 DEF TLSOptions
  <2> HIDE DEF o, c
  <2>3. CASE o.plain
    <3>1. c.tls = FALSE
      BY <2>1, <2>3, PlaintextOnly
    <3> QED BY <2>3, <3>1 DEF o, c
  <2>4. CASE ~ o.plain
    <3>1. CASE NeitherGiven(o)
      <4>1. c = TLS(~ o.insecure, Source(o.ca), "default")
        BY <2>1, <2>4, <3>1, WithoutPair
      <4>2. /\ c.tls = TRUE
            /\ c.roots = Source(o.ca)
            /\ c.certs = "default"
            /\ c.verify = ~ o.insecure
        BY <4>1 DEF TLS
      <4>3. o.cert = "none" /\ o.key = "none"
        BY <3>1 DEF NeitherGiven
      <4> QED BY <2>4, <4>2, <4>3 DEF Source, o, c
    <3>2. CASE BothGiven(o)
      <4>1. c = TLS(~ o.insecure, Source(o.ca), "given")
        BY <2>1, <2>4, <3>2, WithPair
      <4>2. /\ c.tls = TRUE
            /\ c.roots = Source(o.ca)
            /\ c.certs = "given"
            /\ c.verify = ~ o.insecure
        BY <4>1 DEF TLS
      <4>3. o.cert # "none" /\ o.key # "none"
        BY <3>2 DEF BothGiven
      <4> QED BY <2>4, <4>2, <4>3 DEF Source, o, c
    <3>3. CASE ~ NeitherGiven(o) /\ ~ BothGiven(o)
      <4>1. c = TLS(FALSE, "none", "none")
        BY <2>1, <2>4, <3>3, WithHalfPair
      <4>2. /\ c.tls = TRUE
            /\ c.roots = "none" /\ c.certs = "none"
            /\ c.verify = FALSE
        BY <4>1 DEF TLS
      <4>3. ~ ((o.cert = "none") = (o.key = "none"))
        BY <3>3 DEF BothGiven, NeitherGiven
      <4> QED BY <2>4, <4>2, <4>3 DEF o, c
    <3> QED BY <3>1, <3>2, <3>3
  <2> QED BY <2>2, <2>3, <2>4
<1> QED BY <1>1, InputTypeCorrect, PTL

\* conn_manager.go:89-102, destination.go:35-114: Connect refuses a target for one
\* of the causes in the code, and for nothing else.
LEMMA RefusedForCauseHolds == Spec => []RefusedForCause
<1>1. InputTypeOK => RefusedForCause
  <2> SUFFICES ASSUME InputTypeOK, TargetInput
               PROVE  RefusedForCause
    BY DEF RefusedForCause
  <2> DEFINE t == input.target
             o == t.tls
  <2>1. t \in TargetObjects
    BY CallInputs
  <2>2. ASSUME o \in TLSOptions
        PROVE  Credentials(o).error # "none" <=>
                 /\ ~ o.plain
                 /\ \/ o.ca = "bad"
                    \/ "bad" \in {o.cert, o.key} /\ ~ ((o.cert = "none") # (o.key = "none"))
    BY <2>2 DEF Credentials, Plaintext, Fails, TLS, BothGiven, NeitherGiven,
                TLSOptions, File
  <2>3. o = NoAspect \/ o \in TLSOptions
    BY <2>1 DEF TargetObjects
  <2> QED BY <2>1, <2>2, <2>3, DestinationOf DEF RefusedForCause
<1> QED BY <1>1, InputTypeCorrect, PTL

\* conn_manager.go:89-102, destination.go:35-114: whatever aspects a target has and
\* whatever files its options name, it is refused for a cause or dialed as the
\* options ask.
THEOREM DialledAsAskedHolds == Spec => []DialledAsAsked
  BY OptionsAreUsedHolds, RefusedForCauseHolds, PTL DEF DialledAsAsked
=============================================================================
