--------------------------- MODULE AtomicCompletion ---------------------------
(* What the completion of a Lean stage promises: the stage moves on, the claim *)
(* ends, the handoff is written and the events are recorded at once and once,  *)
(* whatever is interrupted (docs/operations/lean-delivery.md,                  *)
(* docs/extensions/lean-completion.md).                                        *)
EXTENDS Sequences

CONSTANTS Items, Claims, Ops, ItemOf, StageOf, ClaimOf, FirstClaim, After, None

VARIABLES
    items,     \* item -> its stage, its active claim and the claims it ever had
    events,    \* the events recorded, each completion as one
    handoffs,  \* the completions that left a handoff
    completed  \* the completions with a receipt

vars == <<items, events, handoffs, completed>>

Init ==
    /\ items = [i \in Items |-> [stage |-> "build", claim |-> FirstClaim[i], claims |-> {FirstClaim[i]}]]
    /\ events = <<>>
    /\ handoffs = {}
    /\ completed = {}

Complete(o) ==
    /\ o \notin completed
    /\ items[ItemOf[o]].stage = StageOf[o] /\ items[ItemOf[o]].claim = ClaimOf[o]
    /\ items' = [items EXCEPT ![ItemOf[o]].stage = After[StageOf[o]], ![ItemOf[o]].claim = None]
    /\ events' = Append(events, o)
    /\ handoffs' = IF StageOf[o] = "build" THEN handoffs \cup {o} ELSE handoffs
    /\ completed' = completed \cup {o}

Claim(i, k) ==
    /\ items[i].claim = None /\ k \notin items[i].claims
    /\ items' = [items EXCEPT ![i].claim = k, ![i].claims = @ \cup {k}]
    /\ events' = Append(events, "other")
    /\ UNCHANGED <<handoffs, completed>>

Rework(i) ==
    /\ items[i].stage = "test" /\ items[i].claim # None
    /\ items' = [items EXCEPT ![i].stage = "build", ![i].claim = None]
    /\ events' = Append(events, "other")
    /\ UNCHANGED <<handoffs, completed>>

\* A command about something else.
Other ==
    /\ events' = Append(events, "other")
    /\ UNCHANGED <<items, handoffs, completed>>

Next ==
    \/ \E o \in Ops : Complete(o)
    \/ \E i \in Items, k \in Claims : Claim(i, k)
    \/ \E i \in Items : Rework(i)
    \/ Other

Spec == Init /\ [][Next]_vars
=============================================================================
