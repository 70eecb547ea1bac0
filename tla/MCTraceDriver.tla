--------------------------- MODULE MCTraceDriver ---------------------------
(* TraceDriver on three keys of which two collide, and addresses for one   *)
(* value more than the table can hold, so that a put that replaces always  *)
(* has both values alive for a moment.                                     *)
EXTENDS TraceDriver, TLC

CONSTANTS k1, k2, k3, a1, a2, a3, a4

MCKeys == {k1, k2, k3}
MCHash == k1 :> 1 @@ k2 :> 3 @@ k3 :> 6
MCAddr == {a1, a2, a3, a4}
MCValues == MCAddr \cup {NULL}
MCSizes == 0 .. 3
MCSymmetry == Permutations(MCAddr)
=============================================================================
