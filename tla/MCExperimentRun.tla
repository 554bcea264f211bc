--------------------------- MODULE MCExperimentRun ---------------------------
(***************************************************************************)
(* ExperimentRun for TLC.  The model has no unbounded variable: one run is *)
(* explored completely, for every setting of its environment.              *)
(***************************************************************************)
EXTENDS ExperimentRun
=============================================================================
