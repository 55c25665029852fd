------------------------------ MODULE MCDispatch ------------------------------
(* Three beginnings: an item that is yet to be created, two items under way    *)
(* that overlap, one of which depends on a third, and an item that may be put  *)
(* aside.                                                                      *)
EXTENDS Dispatch, TLC

CONSTANTS a, b, c, d, e

MCItems == {a, b, c, d, e}
MCOrder == <<a, b, c, d, e>>
MCStages == {"intake", "build", "blocked", "test", "release_gate", "done", "concluded", "cancelled"}
Nothing == [i \in MCItems |-> "absent"]
MCStarts == {Nothing,
             [Nothing EXCEPT ![b] = "build", ![c] = "build", ![d] = "release_gate"],
             [Nothing EXCEPT ![d] = "done", ![e] = "build"]}
MCKinds == [i \in MCItems |-> IF i = a THEN {"internal-subagent", "user-task"}
                              ELSE IF i = e THEN {"internal-subagent"} ELSE {"user-task"}]

MCDeps == [i \in MCItems |-> IF i \in {b, e} THEN {d} ELSE {}]
\* c is part of d: the plan of the descendants of d is made without b.
MCAncestors == [i \in MCItems |-> IF i = c THEN {d} ELSE {}]
MCOverlapping == {{b, c}}
\* c names b from the start, b may come to name c.
MCNamed == [i \in MCItems |-> IF i = c THEN {b} ELSE {}]
MCAcks == [i \in MCItems |-> IF i = b THEN {{c}} ELSE {}]

\* One unit is needed for the building of a and of e.
MCUnits == [i \in MCItems |-> [s \in MCStages |-> IF i \in {a, e} /\ s = "build" THEN 1 ELSE 0]]
\* a goes from the intake to the tests; d is closed at its gate.
MCSuccessors == [i \in MCItems |-> [s \in MCStages |->
    IF i # a THEN {} ELSE IF s = "intake" THEN {"build"} ELSE IF s = "build" THEN {"test"} ELSE {}]]
MCEscapes == [i \in MCItems |-> IF i = e THEN {"blocked", "cancelled"} ELSE {}]
MCMaxClaims == [i \in MCItems |-> CASE i \in {a, e} -> 2 [] i = d -> 0 [] OTHER -> 1]
MCScopes == {None, d}
=============================================================================
