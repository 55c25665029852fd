------------------------ MODULE AtomicReconciliation ------------------------
(***************************************************************************)
(* What a reconciliation of canonical records promises: while a command is *)
(* inside, the only thing that can happen to the records is their merge,   *)
(* whole; while none is, the only thing is an edit of one of them.         *)
(***************************************************************************)
CONSTANTS
    Paths,   \* the selected canonical records
    Bodies,  \* what a record's file may contain
    Merge,   \* of each content of the records, its merge with the incoming revision
    None     \* of a content that conflicts with the incoming revision

VARIABLES
    content, \* the records
    inside   \* whether a command is at work

Init ==
    /\ content \in [Paths -> Bodies]
    /\ inside = FALSE

\* A command starts, ends or dies.
Pass ==
    /\ inside' = ~inside
    /\ UNCHANGED content

Reconcile ==
    /\ inside
    /\ Merge[content] # None
    /\ content' = Merge[content]
    /\ UNCHANGED inside

Edit ==
    /\ ~inside
    /\ \E x \in Paths, b \in Bodies : content' = [content EXCEPT ![x] = b]
    /\ UNCHANGED inside

Next == Pass \/ Reconcile \/ Edit

Spec == Init /\ [][Next]_<<content, inside>>
=============================================================================
