-------------------------- MODULE MCEvidenceStore --------------------------
\* An instance of EvidenceStore: two callers that hold a log of one run.
EXTENDS EvidenceStore, TLC

CONSTANTS run, first, second

Owners == [c \in Caller |-> run]
Entries == [event : {"step", "run-finished"}, at : 0 .. MaxTime]
Times == [e \in Entry |-> e.at]
Closings == {e \in Entry : e.event = "run-finished"}
EitherCaller == Permutations({first, second})
=============================================================================
