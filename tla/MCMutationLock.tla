--------------------------- MODULE MCMutationLock ---------------------------
(* Three processes; symmetry is not used, the runs check liveness as well. *)
EXTENDS MutationLock

CONSTANTS alice, bob, carol

MCProcesses == {alice, bob, carol}
=============================================================================
