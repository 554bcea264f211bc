---------------------------- MODULE MCWorkerRuns ----------------------------
EXTENDS WorkerRuns

Run(a, exact, s, rated, rt, dl) ==
  [kind |-> "run", alg |-> a, exact |-> exact, scope |-> s, rated |-> rated,
   runtime |-> rt, deadline |-> dl]

Congestion(a, s) ==
  [kind |-> "congestion", alg |-> a, exact |-> TRUE, scope |-> s, rated |-> FALSE,
   runtime |-> "shell", deadline |-> FALSE]

\* A shell and a browser run of an algorithm that is not loaded at boot,
\* beside a run or a change of the default by somebody else.
MCMay ==
  [r1 |-> {Run("bbr", FALSE, "ns1", TRUE, "shell", TRUE),
           Run("bbr", TRUE, "all", FALSE, "browser", FALSE)},
   r2 |-> {Run("cubic", TRUE, "ns1", FALSE, "shell", FALSE),
           Congestion("vegas", "all"), Congestion("lp", "all"),
           Congestion("cubic", "other")}]

SoloMay ==
  [r1 |-> {Run("bbr", FALSE, "ns1", FALSE, "shell", FALSE)}, r2 |-> {Congestion("cubic", "ns1")}]
=============================================================================
