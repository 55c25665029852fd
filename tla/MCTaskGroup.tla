----------------------------- MODULE MCTaskGroup -----------------------------
(***************************************************************************)
(* A task and one that depends on it, in a checkout where commits and      *)
(* branch switches happen between the operations, where Git tracks the      *)
(* task records as well, where the accepted task's evidence may change and *)
(* where its approval may expire.                                          *)
(***************************************************************************)
EXTENDS TaskLifecycle

CONSTANTS first, second, builder, reviewer, crew, owner, product

MCTasks == {first, second}
MCRoots == {product}
MCAgents == {builder, reviewer}
MCPrincipals == {crew, owner}
Builder == [agent |-> builder, principal |-> crew]

MCPolicies == {[agents |-> {Builder, [agent |-> reviewer, principal |-> owner]},
                approvers |-> {owner}, separation |-> "distinct-agent"]}

Approved(roots, deps) ==
    [actor |-> Builder, approvedBy |-> owner, separation |-> "distinct-agent",
     roots |-> roots, deps |-> deps]

\* second may write nothing, so whatever else is committed is out of its scope.
MCContracts ==
    [t \in MCTasks |-> IF t = first THEN {Approved({product}, {})}
                                    ELSE {Approved({}, {first})}]

MCPerishable == {<<first, "closeout">>}
MCMayExpire == {first}
=============================================================================
