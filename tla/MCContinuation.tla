---------------------------- MODULE MCContinuation ----------------------------
(* A task whose run may be interrupted, and another one that wants its root.    *)
EXTENDS Continuation, TLC

CONSTANTS job, rival, builder, owner, page, original, successor, p, q

MCPolicies == {[agents |-> {[agent |-> builder, principal |-> owner]},
                approvers |-> {owner}, separation |-> "distinct-agent"]}
MCContracts ==
    [t \in {job, rival} |-> {[actor |-> [agent |-> builder, principal |-> owner], approvedBy |-> owner,
                              separation |-> "distinct-agent", roots |-> {page}, deps |-> {}]}]

MCDerived == {original, successor, None} \X (1 .. 5)
MCMaxByHand == [t \in {job, rival} |-> IF t = job THEN 3 ELSE 2]
MCSymmetry == Permutations({original, successor})
=============================================================================
