-------------------------- MODULE MCReconciliation --------------------------
(***************************************************************************)
(* Two records, each as it was, as the incoming revision has it, or as     *)
(* somebody else made it: one worker at work, done or waiting.  The merge  *)
(* is ThreeWayMerge's, which is checked by itself over small registries.   *)
(***************************************************************************)
EXTENDS ContractMerge, TLC

CONSTANTS p1, p2, p3, here, there, r1, r2, old, new, foreign, Ada, Bo, draft, ready, done

MCHostOf == p1 :> here @@ p2 :> here @@ p3 :> there

Worker(n, status) == [id |-> n, work_item_id |-> "WI-1", position_id |-> "developer", status |-> status]

Registry(status) == [workers |-> <<Worker(1, status)>>]
MCDocument ==
    [x \in Paths |-> old :> Registry("active") @@ new :> Registry("completed") @@ foreign :> Registry("waiting")]
MCBase == [x \in Paths |-> old]
MCIncoming == [x \in Paths |-> new]

MCMerge ==
    [c \in Contents |->
        IF \E x \in Paths : Merged(c, x) = Conflict THEN None
        ELSE [x \in Paths |-> CHOOSE body \in Bodies : Document[x][body] = Merged(c, x)]]

\* Two processes of one host, and the two records, may trade places.
Alike == {f @@ g : f \in Permutations({p1, p2}), g \in Permutations({r1, r2})}

\* Arrays of at most one record of either sort.
Pairs(first, second) == {one \o two : one \in {<<>>} \cup {<<r>> : r \in first}, two \in {<<>>} \cup {<<r>> : r \in second}}

Members(agent) == {[position_id |-> "developer", agent_id |-> agent, default |-> d] : d \in BOOLEAN}
Holders(position) == {[position_id |-> position, agent_id |-> agent] : agent \in {Ada, Bo}}
Workers(n) == {Worker(n, status) : status \in {"active", "completed"}}
Claims(n) == {[id |-> n, status |-> status] : status \in {"active", "released"}}
Entries(n) == {[id |-> n, scope_revision |-> "R", path |-> "log", sha256 |-> h] : h \in {Ada, Bo}}

MCArrays == {"memberships", "assignments", "workers", "claims", "entries"}
MCDocuments ==
    { {Registry(status) : status \in {"active", "completed", "waiting"}},
      {Missing} \cup {[memberships |-> m] : m \in Pairs(Members(Ada), Members(Bo))},
      {Missing} \cup {[assignments |-> s] : s \in Pairs(Holders("developer"), Holders("independent_qa"))},
      {Missing} \cup {[entries |-> e] : e \in Pairs(Entries(1), Entries(2))},
      {Missing} \cup {[workers |-> w, note |-> n] : w \in Pairs(Workers(1), Workers(2)) \cup Pairs(Workers(2), Workers(1)),
                                                    n \in {Ada, Bo}},
      {Missing} \cup {[claims |-> c] : c \in Pairs(Claims(1), Claims(2)) \cup Pairs(Claims(1), Claims(1))},
      {Missing} \cup {[id |-> 1, state |-> s] : s \in {draft, ready, done}} }

\* Events with an identity, one of them in two versions, and without.
MCEvents == {[id |-> 1, what |-> draft], [id |-> 1, what |-> done], [id |-> 2, what |-> draft], [what |-> draft], [what |-> ready]}
MCEventArrays == {Missing, <<>>} \cup {<<e>> : e \in MCEvents} \cup (MCEvents \X MCEvents)
=============================================================================
