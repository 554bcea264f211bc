----------------------------- MODULE MCAwsCloud -----------------------------
(***************************************************************************)
(* Two workflow threads and one command line.                              *)
(***************************************************************************)
EXTENDS AwsCloud, TLC

CONSTANTS t1, t2, cli
MCSymmetry == Permutations(Threads)
=============================================================================
