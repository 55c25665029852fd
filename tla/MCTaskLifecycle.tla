--------------------------- MODULE MCTaskLifecycle ---------------------------
(***************************************************************************)
(* One task, three agents, two policies: the whole life of a task with     *)
(* failed reviews, rework and fresh claims.                                *)
(***************************************************************************)
EXTENDS TaskLifecycle

CONSTANTS task, builder, peer, reviewer, crew, owner, product

MCTasks == {task}
MCRoots == {product}
MCAgents == {builder, peer, reviewer}
MCPrincipals == {crew, owner}

\* peer works for the same principal as builder, reviewer for the approver.
Team == {[agent |-> builder, principal |-> crew], [agent |-> peer, principal |-> crew],
         [agent |-> reviewer, principal |-> owner]}

MCPolicies == {[agents |-> Team, approvers |-> {owner}, separation |-> s] : s \in Separations}

MCContracts ==
    [t \in MCTasks |->
        {[actor |-> [agent |-> builder, principal |-> crew], approvedBy |-> owner,
          separation |-> s, roots |-> {product}, deps |-> {}] : s \in Separations}]

MCPerishable == {}
MCMayExpire == {}
=============================================================================
