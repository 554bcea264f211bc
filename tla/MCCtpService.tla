--------------------------- MODULE MCCtpService ---------------------------
(***************************************************************************)
(* Two threads and two users, one of whom sends nothing in window 1.       *)
(***************************************************************************)
EXTENDS CtpService

CONSTANTS c1, c2, u1, u2
MCSilent == {<<u2, "upload">>}
MCSymmetry == Permutations(Calls)
=============================================================================
