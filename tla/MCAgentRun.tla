----------------------------- MODULE MCAgentRun -----------------------------
\* Instances of AgentRun: a search that retrieves, a writer that acts, and a
\* tool the catalogue does not list.
EXTENDS AgentRun, TLC

CONSTANTS search, writer, ghost, kbA, kbB, written

Outputs == [t \in Tool |-> written]
Clean(r) == [record |-> r, poisoned |-> FALSE]
Poisoned(r) == [record |-> r, poisoned |-> TRUE]
SearchFindings ==
    {<<>>, <<Clean(kbA)>>, <<Poisoned(kbA)>>, <<Clean(kbA), Poisoned(kbA)>>,
     <<Clean(kbB)>>}
=============================================================================
