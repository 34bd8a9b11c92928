--------------------------------- MODULE P4Info --------------------------------
(***************************************************************************)
(* The look-ups of pkg/utils/p4info: what a Helper finds in the P4Info of  *)
(* a pipeline.  The P4Info has one list of objects per kind; an object is  *)
(* known by the name in its preamble (an extern by its type name), and the *)
(* caller wants the object, its ID, or the ID of a match field of a table. *)
(*                                                                         *)
(* The methods are nearly the same and written out one by one; they are    *)
(* one by one here as well, so that each can go wrong by itself.           *)
(***************************************************************************)
EXTENDS Naturals, Sequences, FiniteSetsExt

CONSTANTS
  Names,         \* names of objects and of match fields
  IDs,           \* numbers of objects and of match fields
  NoInfo,        \* the helper of a nil P4Info
  NoPreamble     \* in place of a name: the object has no preamble

ASSUME P4InfoNullAssumption == NoPreamble \notin Names

\* The lists of a P4Info.
Kinds == {"extern", "packetMetadata", "valueSet", "register", "directMeter",
          "directCounter", "counter", "digest", "actionProfile", "action", "table"}

-----------------------------------------------------------------------------
(* Outcomes of a call.                                                     *)

Ok(value) == [status |-> "ok", value |-> value]
Invalid   == [status |-> "invalid"]    \* p4 info is not initialized
NotFound  == [status |-> "notFound"]
Panics    == [status |-> "panic"]      \* the preamble that is read is nil

IsOk(r) == r.status = "ok"

\* What a loop looks at: the objects of that name, and those whose name is read
\* from a preamble that is nil.
Hits(list, name) == {i \in DOMAIN list : list[i].name \in {name, NoPreamble}}

\* What the loop answers that has stopped at the i-th object.
AnswerAt(list, i) == IF list[i].name = NoPreamble THEN Panics ELSE Ok(list[i])

\* (mutant) The search goes on after the first match.
SearchLast(list, name) ==
  LET hits == Hits(list, name) IN
  IF hits = {} THEN NotFound ELSE AnswerAt(list, Max(hits))

\* The loop of every method: the first object of that name.
Search(list, name) ==
  LET hits == Hits(list, name) IN
  IF hits = {} THEN NotFound ELSE AnswerAt(list, Min(hits))

\* A look-up in the list of a kind, with the check every method begins with.
Object(info, kind, name) ==
  IF info = NoInfo THEN Invalid ELSE Search(info[kind], name)

\* The error of a look-up, or the ID of what it has found.
IDOf(found) == IF IsOk(found) THEN Ok(found.value.id) ELSE found

-----------------------------------------------------------------------------
(* The methods of Helper.                                                  *)

Extern(info, name)   == Object(info, "extern", name)
ExternID(info, name) == IF info = NoInfo THEN Invalid ELSE IDOf(Extern(info, name))

ControllerPacketMetadata(info, name) == Object(info, "packetMetadata", name)
ControllerPacketMetadataID(info, name) ==
  IF info = NoInfo THEN Invalid ELSE IDOf(ControllerPacketMetadata(info, name))

ValueSet(info, name)   == Object(info, "valueSet", name)
ValueSetID(info, name) == IF info = NoInfo THEN Invalid ELSE IDOf(ValueSet(info, name))

\* (mutant) The loop of another method, copied.
RegisterOfCounters(info, name) == Object(info, "counter", name)

Register(info, name)   == Object(info, "register", name)
RegisterID(info, name) == IF info = NoInfo THEN Invalid ELSE IDOf(Register(info, name))

DirectMeter(info, name)     == Object(info, "directMeter", name)
DirectMeterID(info, name)   == IDOf(DirectMeter(info, name))    \* no check of its own
DirectCounter(info, name)   == Object(info, "directCounter", name)
DirectCounterID(info, name) == IDOf(DirectCounter(info, name))  \* no check of its own

Counter(info, name)   == Object(info, "counter", name)
CounterID(info, name) == IF info = NoInfo THEN Invalid ELSE IDOf(Counter(info, name))

Digest(info, name) == Object(info, "digest", name)

\* (mutant) The loop does not stop at what it has found.
DigestIDLast(info, name) ==
  IF info = NoInfo THEN Invalid ELSE IDOf(SearchLast(info["digest"], name))

\* DigestID does not call Digest: it has the loop once more.
DigestID(info, name) ==
  IF info = NoInfo THEN Invalid ELSE IDOf(Search(info["digest"], name))

ActionProfile(info, name) == Object(info, "actionProfile", name)
ActionProfileID(info, name) ==
  IF info = NoInfo THEN Invalid ELSE IDOf(ActionProfile(info, name))

Action(info, name)   == Object(info, "action", name)
ActionID(info, name) == IF info = NoInfo THEN Invalid ELSE IDOf(Action(info, name))

Table(info, name)   == Object(info, "table", name)
TableID(info, name) == IF info = NoInfo THEN Invalid ELSE IDOf(Table(info, name))

\* (mutant) The field is looked for in all tables of that name.
MatchFieldIDAnywhere(info, name, field) ==
  IF info = NoInfo THEN Invalid
  ELSE LET tables == {i \in DOMAIN info["table"] : info["table"][i].name = name}
           found  == {Search(info["table"][i].fields, field) : i \in tables}
       IN IF \E r \in found : IsOk(r) THEN IDOf(CHOOSE r \in found : IsOk(r))
          ELSE NotFound

\* The first table of that name, and in it the first match field of that name.
MatchFieldID(info, name, field) ==
  IF info = NoInfo THEN Invalid
  ELSE LET table == Table(info, name) IN
       IF IsOk(table) THEN IDOf(Search(table.value.fields, field)) ELSE table

-----------------------------------------------------------------------------
(* All the methods, by the kind of what they look up.                      *)

ObjectMethods(info, name) ==
  [extern         |-> Extern(info, name),
   packetMetadata |-> ControllerPacketMetadata(info, name),
   valueSet       |-> ValueSet(info, name),
   register       |-> Register(info, name),
   directMeter    |-> DirectMeter(info, name),
   directCounter  |-> DirectCounter(info, name),
   counter        |-> Counter(info, name),
   digest         |-> Digest(info, name),
   actionProfile  |-> ActionProfile(info, name),
   action         |-> Action(info, name),
   table          |-> Table(info, name)]

IDMethods(info, name) ==
  [extern         |-> ExternID(info, name),
   packetMetadata |-> ControllerPacketMetadataID(info, name),
   valueSet       |-> ValueSetID(info, name),
   register       |-> RegisterID(info, name),
   directMeter    |-> DirectMeterID(info, name),
   directCounter  |-> DirectCounterID(info, name),
   counter        |-> CounterID(info, name),
   digest         |-> DigestID(info, name),
   actionProfile  |-> ActionProfileID(info, name),
   action         |-> ActionID(info, name),
   table          |-> TableID(info, name)]

-----------------------------------------------------------------------------
(* What a look-up has to answer, without a loop.                           *)

\* The right answers to a look-up of name in a list.
Answers(list, name, r) ==
  LET named == {i \in DOMAIN list : list[i].name = name}
      blank == {i \in DOMAIN list : list[i].name = NoPreamble}
  IN CASE r.status = "ok" ->
            \E i \in named : r.value = list[i] /\ \A j \in named \cup blank : i <= j
       [] r.status = "notFound" -> named \cup blank = {}
       [] r.status = "panic"    -> \E i \in blank : \A j \in named : i < j
       [] OTHER -> FALSE
=============================================================================
