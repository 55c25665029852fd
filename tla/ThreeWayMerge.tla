---------------------------- MODULE ThreeWayMerge ----------------------------
(* reconcileDocuments of src/src/reconciliation.mjs: what two revisions of a   *)
(* canonical record, made from one base, have in common, or that they conflict.*)
(*                                                                             *)
(* A document is an object: its fields hold values, or arrays of records; or it *)
(* is the array of the recorded events.  Two texts are equal in the code when  *)
(* their canonical forms are, whatever the order of their keys: here objects   *)
(* are functions.  Left out: where and why there is a conflict, objects within *)
(* objects, duplicates within a record, inactive assignments and members,      *)
(* invalidated evidence, and the order itself that merged arrays are brought   *)
(* into: it is some fixed one.                                                 *)
EXTENDS Naturals, Sequences, FiniteSets, SequencesExt

CONSTANTS
    Arrays,       \* the fields that hold an array
    Documents,    \* bound: sets of documents of one kind, to be merged with each other
    EventArrays,  \* bound: the event histories to be merged
    Missing,      \* no file, no field, no record, no key
    Conflict      \* the merge fails

Responsibilities == {"memberships", "workers", "claims", "assignments", "entries"}
Histories == {"events", "handoffs", "history", "rework_history"}
KeyFields == [memberships |-> {"position_id", "agent_id"}, sponsorships |-> {"agent_id"}, assignments |-> {"position_id"}]

\* recordKey: what identifies a record of an array across revisions.
Key(record, field) ==
    CASE "id" \in DOMAIN record -> Restrict(record, {"id"})
      [] "id" \notin DOMAIN record /\ field \in DOMAIN KeyFields -> Restrict(record, KeyFields[field])
      [] OTHER -> Missing
KeyOrSelf(record, field) == IF Key(record, field) = Missing THEN record ELSE Key(record, field)

Index(array, field) ==
    [key \in {KeyOrSelf(array[n], field) : n \in DOMAIN array} |->
        CHOOSE record \in ToSet(array) : KeyOrSelf(record, field) = key]
Get(index, key) == IF key \in DOMAIN index THEN index[key] ELSE Missing

Keyed(array, field) == \A n \in DOMAIN array : Key(array[n], field) # Missing

\* validateIds
Distinct(array, field) ==
    \A m, n \in DOMAIN array :
        m # n /\ Key(array[m], field) # Missing => Key(array[m], field) # Key(array[n], field)
Identified(document) ==
    document # Missing => \A field \in DOMAIN document \cap Arrays : Distinct(document[field], field)

(***************************************************************************)
(* The revisions there may be of one document.                             *)
(***************************************************************************)
Revised(documents) == documents \ {Missing}
Fields(documents) == UNION {DOMAIN document : document \in Revised(documents)}
Records(documents) ==
    UNION {UNION {ToSet(document[f]) : f \in DOMAIN document \cap Arrays} : document \in Revised(documents)}
\* What a field may hold once they are merged.
FieldContents(documents) ==
    Seq(Records(documents)) \cup UNION {{document[f] : f \in DOMAIN document} : document \in Revised(documents)}
Events == UNION {ToSet(events) : events \in EventArrays \ {Missing}}

\* The schema decides which documents have an id.  An array of records without keys is a value like any
\* other: the merge of two that both changed is a conflict.
Schematic(documents) ==
    /\ Conflict \notin documents
    /\ \A none \in {Missing, Conflict} :
          /\ none \notin FieldContents(documents) \cup Records(documents)
          /\ \A F \in SUBSET Fields(documents) : none \notin [F -> FieldContents(documents)]
    /\ \A document \in Revised(documents) :
          /\ "id" \in Fields(documents) => "id" \in DOMAIN document
          /\ \A field \in DOMAIN document \cap Arrays :
                document[field] \in Seq(Records(documents)) /\ Keyed(document[field], field)

ASSUME MergeAssumption ==
    /\ Missing # Conflict /\ Responsibilities \subseteq Arrays
    /\ \A documents \in Documents : Schematic(documents)
    /\ EventArrays \subseteq Seq(Events) \cup {Missing}
    /\ \A none \in {Missing, Conflict} : none \notin Events \cup Seq(Events)
    /\ \A event \in Events : "id" \in DOMAIN event => Key(event, "events") # Missing

(***************************************************************************)
(* merge: what one side left alone is as the other has it.                 *)
(***************************************************************************)
ThreeWay(base, local, incoming, MergeBoth(_, _, _)) ==
    CASE local = incoming \/ base = incoming -> local
      [] base = local -> incoming
      [] OTHER -> IF Missing \in {base, local, incoming} THEN Conflict ELSE MergeBoth(base, local, incoming)

\* mutant: a deletion gives way to the record as the other side has it
YieldDeletion(base, local, incoming) ==
    IF Missing \in {local, incoming} THEN CHOOSE side \in {local, incoming} : side = Missing => local = incoming
    ELSE ThreeWay(base, local, incoming, LAMBDA b, l, i : Conflict)
\* A record is indivisible.
MergeRecord(base, local, incoming) ==
    ThreeWay(base, local, incoming, LAMBDA b, l, i : Conflict)

MergeByKey(base, local, incoming) ==
    LET keys == DOMAIN base \cup DOMAIN local \cup DOMAIN incoming
        merged == [key \in keys |-> MergeRecord(Get(base, key), Get(local, key), Get(incoming, key))]
    IN IF \E key \in keys : merged[key] = Conflict THEN Conflict
       ELSE SetToSeq({merged[key] : key \in keys} \ {Missing})

\* Histories without stable ids are append-only; equal entries collapse.
MergeHistory(base, local, incoming) ==
    IF /\ \A key \in DOMAIN base : base[key] = Get(local, key) /\ base[key] = Get(incoming, key)
       /\ \A key \in DOMAIN local \cap DOMAIN incoming : local[key] = incoming[key]
    THEN SetToSeq({local[key] : key \in DOMAIN local} \cup {incoming[key] : key \in DOMAIN incoming})
    ELSE Conflict

MergeArray(field, base, local, incoming) ==
    LET b == Index(base, field)
        l == Index(local, field)
        i == Index(incoming, field)
    IN IF \A array \in {base, local, incoming} : Keyed(array, field) THEN MergeByKey(b, l, i)
       ELSE IF field \in Histories THEN MergeHistory(b, l, i) ELSE Conflict

MergeField(field, base, local, incoming) ==
    ThreeWay(base, local, incoming,
             LAMBDA b, l, i : IF field \in Arrays THEN MergeArray(field, b, l, i) ELSE Conflict)

\* An object with an id, such as a work item, is indivisible too.
MergeObject(base, local, incoming) ==
    LET fields == DOMAIN base \cup DOMAIN local \cup DOMAIN incoming
        merged == [field \in fields |-> MergeField(field, Get(base, field), Get(local, field), Get(incoming, field))]
    IN IF "id" \in fields \/ \E field \in fields : merged[field] = Conflict THEN Conflict
       ELSE Restrict(merged, {field \in fields : merged[field] # Missing})

(***************************************************************************)
(* validateResponsibilities: what no combination may bring about.          *)
(***************************************************************************)
Live(record, field) ==
    CASE field = "memberships" -> record.default
      [] field = "workers" -> record.status \in {"active", "waiting", "attention"}
      [] field = "claims" -> record.status = "active"
Scope(record, field) ==
    CASE field = "memberships" -> record.position_id
      [] field = "workers" -> <<record.work_item_id, record.position_id>>
      [] field = "claims" -> Missing
Responsible(document) ==
    /\ \A field \in DOMAIN document \cap {"memberships", "workers", "claims"} :
          \A m, n \in DOMAIN document[field] :
              LET first == document[field][m] second == document[field][n]
              IN m # n /\ Live(first, field) /\ Live(second, field) => Scope(first, field) # Scope(second, field)
    /\ "assignments" \in DOMAIN document =>
          \A first, second \in ToSet(document.assignments) :
              first.position_id = "developer" /\ second.position_id = "independent_qa" => first.agent_id # second.agent_id
    /\ "entries" \in DOMAIN document =>
          \A first, second \in ToSet(document.entries) :
              first.scope_revision = second.scope_revision /\ first.path = second.path => first.sha256 = second.sha256

(***************************************************************************)
(* reconcileDocuments                                                      *)
(***************************************************************************)
Reconciled(base, local, incoming) ==
    LET merged == ThreeWay(base, local, incoming, MergeObject)
    IN CASE \E document \in {base, local, incoming} : ~Identified(document) -> Conflict
         [] OTHER -> IF merged \notin {Missing, Conflict} /\ ~Responsible(merged) THEN Conflict ELSE merged

\* mutant: the sides are taken as they are
AnyHistory(base, side) == side # Missing
KeepsHistory(base, side) ==
    /\ side # Missing
    /\ base # Missing =>
          LET previous == Index(base, "events")
          IN \A key \in DOMAIN previous : Get(Index(side, "events"), key) = previous[key]

\* The events in their fixed order, each as often as it is there.
InOrder(events) ==
    CHOOSE order \in {[n \in DOMAIN events |-> events[f[n]]] : f \in Bijection(DOMAIN events, DOMAIN events)} : TRUE

MergeEvents(base, local, incoming) == MergeArray("events", base, local, incoming)
ReconciledEvents(base, local, incoming) ==
    LET merged == ThreeWay(base, local, incoming, MergeEvents)
    IN CASE \/ \E events \in {base, local, incoming} \ {Missing} : ~Distinct(events, "events")
            \/ ~KeepsHistory(base, local) \/ ~KeepsHistory(base, incoming) -> Conflict
         [] OTHER -> IF merged = Conflict THEN Conflict ELSE InOrder(merged)

(***************************************************************************)
(* Properties.                                                             *)
(***************************************************************************)
\* A document, place by place: its fields, the records of its arrays by their keys; or it is one place.
Places(document) ==
    IF document = Missing THEN {}
    ELSE IF "id" \in DOMAIN document THEN {<<>>}
    ELSE {<<field>> : field \in DOMAIN document \ Arrays}
         \cup UNION {{<<field, Key(record, field)>> : record \in ToSet(document[field])} : field \in DOMAIN document \cap Arrays}
Held(document, place) ==
    CASE place \notin Places(document) -> Missing
      [] place \in Places(document) /\ Len(place) = 0 -> document
      [] place \in Places(document) /\ Len(place) = 1 -> document[place[1]]
      [] OTHER -> CHOOSE record \in ToSet(document[place[1]]) : Key(record, place[1]) = place[2]

Changed(base, side, place) == Held(side, place) # Held(base, place)
Combined(base, local, incoming, place) ==
    IF Changed(base, local, place) THEN Held(local, place) ELSE Held(incoming, place)
Disputed(base, local, incoming, place) ==
    /\ Changed(base, local, place) /\ Changed(base, incoming, place)
    /\ Held(local, place) # Held(incoming, place)

\* A document or an array that one side made or deleted, and the other made or changed otherwise.
Divided(base, local, incoming) ==
    /\ Missing \in {base, local, incoming}
    /\ base # local /\ base # incoming /\ local # incoming

AllPlaces(documents) == UNION {Places(document) : document \in documents}
\* The records of an array, as the places of three revisions combine.
Together(base, local, incoming, field) ==
    {Combined(base, local, incoming, place) :
        place \in {place \in AllPlaces({base, local, incoming}) : Len(place) = 2 /\ place[1] = field}} \ {Missing}
\* What is combined does not keep the responsibilities apart: a document of one place, or the records of an array.
Irresponsible(base, local, incoming) ==
    \/ /\ <<>> \in AllPlaces({base, local, incoming})
       /\ ~Responsible(Combined(base, local, incoming, <<>>))
    \/ \E field \in Arrays : ~Responsible([f \in {field} |-> SetToSeq(Together(base, local, incoming, field))])

\* Where only one side made a change its change is taken, everywhere at once; where both did, differently, or
\* the combination breaks a responsibility, nothing is merged.
IsMerge(merged, base, local, incoming) ==
    LET revisions == {base, local, incoming}
        disputed == \E place \in AllPlaces(revisions) : Disputed(base, local, incoming, place)
    IN /\ merged # Conflict =>
             /\ ~disputed
             /\ \A place \in AllPlaces(revisions \cup {merged}) :
                   Held(merged, place) = Combined(base, local, incoming, place)
             /\ merged # Missing => Responsible(merged)
       /\ merged = Conflict =>
             \/ disputed
             \/ \E document \in revisions : ~Identified(document)
             \/ Divided(base, local, incoming)
             \/ /\ Missing \notin revisions
                /\ \E field \in Arrays : Divided(Get(base, field), Get(local, field), Get(incoming, field))
             \/ Irresponsible(base, local, incoming)

\* Any three revisions of a record are merged so, whosever side is whose (reconciliation.mjs:90-131, the
\* shortcuts for documents and arrays that are equal as a whole included).
RecordsMerge ==
    \A documents \in Documents : \A base, local, incoming \in documents :
        LET merged == Reconciled(base, local, incoming)
        IN merged = Reconciled(base, incoming, local) /\ IsMerge(merged, base, local, incoming)

\* A merge of two histories holds every event of either and nothing else, loses none of their common past,
\* does not depend on whose side is whose, and does not fail where both only appended (reconciliation.mjs:108-116, 138-148).
EventsSurvive ==
    \A base, local, incoming \in EventArrays :
        LET merged == ReconciledEvents(base, local, incoming)
        IN /\ merged = ReconciledEvents(base, incoming, local)
           /\ merged # Conflict =>
                 /\ ToSet(merged) = ToSet(local) \cup ToSet(incoming)
                 /\ base # Missing => ToSet(base) \subseteq ToSet(merged)
           /\ /\ Missing \notin {base, local, incoming}
              /\ IsPrefix(base, local) /\ IsPrefix(base, incoming)
              /\ Distinct(local, "events") /\ Distinct(incoming, "events")
              /\ \A first, second \in ToSet(local) \cup ToSet(incoming) :
                    Key(first, "events") = Missing \/ Key(first, "events") # Key(second, "events") \/ first = second
              => merged # Conflict
=============================================================================
