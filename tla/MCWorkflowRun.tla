---------------------------- MODULE MCWorkflowRun ----------------------------
(* Small workflows for the runner. *)
EXTENDS WorkflowRun

CONSTANTS alice, bob, carol, run, rival, draft, check, gate

Pair == {alice, bob}
Trio == {alice, bob, carol}
Alice == {alice}
Rivals == {run, rival}
Single == {run}
Draft == {draft}
DraftCheck == {draft, check}
Gate == {gate}
Nothing == {}

CompletedOrInterrupted == {"completed", "interrupted"}
AnyAnswer == {"completed", "retry", "interrupted"}
CompletedOrNotStarted == {"completed", "not-started"}

\* An approval, then check, with draft beside both.
Gated == [n \in {draft, check, gate} |-> IF n = check THEN {gate} ELSE {}]
Alone == [n \in {draft} |-> {}]
=============================================================================
