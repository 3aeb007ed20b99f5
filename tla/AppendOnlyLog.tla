--------------------------- MODULE AppendOnlyLog ---------------------------
(***************************************************************************)
(* What the evidence store promises of the history of each run: it only    *)
(* grows; the medium may lose its end, but nobody can rewrite it; and once *)
(* retention has disposed of it, it never comes back.                      *)
(***************************************************************************)
EXTENDS Sequences, SequencesExt

CONSTANTS Key, Gone

VARIABLE history

Init == history = [k \in Key |-> <<>>]

Grow(k) ==
    /\ history[k] # Gone /\ history'[k] # Gone
    /\ IsPrefix(history[k], history'[k])

LoseEnd(k) ==
    /\ history[k] # Gone /\ history'[k] # Gone
    /\ IsPrefix(history'[k], history[k])

Dispose(k) == history'[k] = Gone

\* One sweep may dispose of several runs.
Next == \A k \in Key : Grow(k) \/ LoseEnd(k) \/ Dispose(k)

Spec == Init /\ [][Next]_history
=============================================================================
