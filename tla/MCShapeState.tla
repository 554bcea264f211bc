---------------------------- MODULE MCShapeState ----------------------------
(***************************************************************************)
(* ShapeState for TLC.  Two requests can mix and the third repairs; each   *)
(* asks for a delay in the first namespace, so that the second shows what  *)
(* happens where none is asked for.  The requests are interchangeable.     *)
(***************************************************************************)
EXTENDS ShapeState, TLC

FirstOnly == [r \in Requests |-> {N + 1}]

Symmetry == Permutations(Requests)
=============================================================================
