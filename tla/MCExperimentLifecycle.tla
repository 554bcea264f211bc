----------------------- MODULE MCExperimentLifecycle -----------------------
EXTENDS ExperimentLifecycle

\* A caller with two experiments and one without an id, beside a conversation
\* that registers the first of them too and then asks for one that cannot be
\* converted.
MCPlan ==
  [m |-> <<[id |-> "a", good |-> TRUE], [id |-> "b", good |-> TRUE],
           [id |-> Unknown, good |-> TRUE]>>,
   t |-> <<[id |-> "a", good |-> TRUE], [id |-> "c", good |-> FALSE]>>]
=============================================================================
