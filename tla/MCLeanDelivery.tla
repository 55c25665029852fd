--------------------------- MODULE MCLeanDelivery ---------------------------
(* The build of a and its test are finished, unless a is reworked; the build *)
(* of b is delivered.                                                        *)
EXTENDS LeanDelivery, TLC

CONSTANTS a, b, build, test, second, k, l

MCItemOf == build :> a @@ test :> a @@ second :> b
MCStageOf == build :> "build" @@ test :> "test" @@ second :> "build"
MCClaimOf == build :> k @@ test :> l @@ second :> k
MCFirstClaim == [i \in {a, b} |-> k]
=============================================================================
