---------------------------- MODULE MCWorkerPool ----------------------------
(***************************************************************************)
(* WorkerPool for TLC: three specs, two at a time, so that a slot is       *)
(* reused while another dispatch is in flight, and fewer addresses than    *)
(* specs, so that one freed by a destroyed worker goes to the next spec    *)
(* while requests of the first may still be on their way.                  *)
(***************************************************************************)
EXTENDS WorkerPool
=============================================================================
