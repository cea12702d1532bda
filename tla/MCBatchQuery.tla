---------------------------- MODULE MCBatchQuery ----------------------------
EXTENDS BatchQuery, TLC

CONSTANTS r1, r2, k1, k2, k3, p1, p2

\* A large and a small batch; the small one for another path, or the same.
MCInputs == r1 :> {k1, k2, k3} @@ r2 :> {k1}
TwoPaths == r1 :> p1 @@ r2 :> p2
OnePath  == r1 :> p1 @@ r2 :> p1
=============================================================================
