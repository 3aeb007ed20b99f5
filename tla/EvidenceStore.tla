--------------------------- MODULE EvidenceStore ---------------------------
(***************************************************************************)
(* The execution log store of the evidence component: callers extend a log *)
(* of their own and hand all of it over, again and again; a sweep disposes *)
(* of runs whose retention is over; rows decay underneath.  A Key is a run *)
(* within a namespace.  Several callers may hold a log of one run, as two  *)
(* executions of it do: the store must not merge what they say.            *)
(***************************************************************************)
EXTENDS RunLogStore, FiniteSets

CONSTANTS Key, Caller, KeyOf,
          At,                \* when an entry was made
          Closing,           \* the run-finished entries
          Retention,         \* the schedule of execution-log-metadata
          MaxTime,           \* bound: the clock stops here
          MaxLen,            \* bound: a log is no longer than this
          Gone               \* the history of a disposed run, to a reader

ASSUME StoreAssumption ==
    /\ KeyOf \in [Caller -> Key]
    /\ At \in [Entry -> Nat]
    /\ Closing \subseteq Entry
    /\ Retention \in Nat /\ MaxTime \in Nat /\ MaxLen \in Nat
    /\ Gone \notin Seq(Entry)

VARIABLES now,
          runs,       \* the entries table
          disposed,   \* the disposed_runs table
          logs        \* the log each caller holds

vars == <<now, runs, disposed, logs>>

Init ==
    /\ now = 0
    /\ runs = [k \in Key |-> <<>>]
    /\ disposed = {}
    /\ logs = [c \in Caller |-> <<>>]
-----------------------------------------------------------------------------
\* appendEntry: a finished run takes no more entries.
AppendEntry(c, e) ==
    /\ Len(logs[c]) < MaxLen
    /\ logs[c] # <<>> => logs[c][Len(logs[c])] \notin Closing
    /\ At[e] = now
    /\ logs' = [logs EXCEPT ![c] = Append(@, e)]
    /\ UNCHANGED <<now, runs, disposed>>

\* Fault: nothing remembers that the run was disposed of.
StoreForgetful(c) ==
    LET k == KeyOf[c] IN
    /\ logs[c] # <<>>
    /\ Continues(runs[k], logs[c])
    /\ runs' = [runs EXCEPT ![k] = Appended(@, logs[c])]
    /\ UNCHANGED <<now, disposed, logs>>

\* append: also a replay of what the store has, or had, already.
Store(c) ==
    LET k == KeyOf[c] IN
    /\ logs[c] # <<>>
    /\ k \notin disposed
    /\ Continues(runs[k], logs[c])
    /\ runs' = [runs EXCEPT ![k] = Appended(@, logs[c])]
    /\ UNCHANGED <<now, disposed, logs>>

\* Fault: the sweep trusts the last row alone.
DueByTail(k) ==
    /\ runs[k] # <<>>
    /\ runs[k][Len(runs[k])].body # Garbled
    /\ At[runs[k][Len(runs[k])].body] + Retention <= now

\* #verifiedLastAt and isDueForDisposal: the clock of a run is read from bytes
\* that verify.
Due(k) ==
    /\ runs[k] # <<>>
    /\ Verified(runs[k])
    /\ At[runs[k][Len(runs[k])].body] + Retention <= now

\* disposeExpiredRuns: one transaction over all the runs.
DisposeExpiredRuns ==
    /\ runs' = [k \in Key |-> IF Due(k) THEN <<>> ELSE runs[k]]
    /\ disposed' = disposed \cup {k \in Key : Due(k)}
    /\ UNCHANGED <<now, logs>>
-----------------------------------------------------------------------------
\* An entry is edited or decays in place.
AlterRow(k, i) ==
    /\ i \in 1 .. Len(runs[k])
    /\ runs[k][i] # LostRow
    /\ runs' = [runs EXCEPT ![k] = Altered(@, i)]
    /\ UNCHANGED <<now, disposed, logs>>

\* A row goes missing from the middle of a run.
LoseRow(k, i) ==
    /\ i \in 1 .. Len(runs[k]) - 1
    /\ runs' = [runs EXCEPT ![k] = Lost(@, i)]
    /\ UNCHANGED <<now, disposed, logs>>

\* The last rows go missing: the tail is then the last row that is left.
LoseTail(k, n) ==
    /\ n \in 0 .. Len(runs[k]) - 1
    /\ n > 0 => runs[k][n] # LostRow
    /\ runs' = [runs EXCEPT ![k] = Truncated(@, n)]
    /\ UNCHANGED <<now, disposed, logs>>

Tick ==
    /\ now < MaxTime
    /\ now' = now + 1
    /\ UNCHANGED <<runs, disposed, logs>>

Next ==
    \/ \E c \in Caller : (\E e \in Entry : AppendEntry(c, e)) \/ Store(c)
    \/ DisposeExpiredRuns
    \/ \E k \in Key, i \in 1 .. MaxLen : AlterRow(k, i) \/ LoseRow(k, i)
    \/ \E k \in Key, n \in 0 .. MaxLen : LoseTail(k, n)
    \/ Tick

Spec == Init /\ [][Next]_vars
-----------------------------------------------------------------------------
\* Types, and nothing more.
TypeOK ==
    /\ now \in Nat
    /\ runs \in [Key -> Seq(Row \cup {LostRow})]
    /\ disposed \subseteq Key
    /\ logs \in [Caller -> Seq(Entry)]

\* What read returns as data is the beginning of a log some caller wrote,
\* whatever was edited, lost or appended since.
ReadIsGenuine ==
    \A k \in Key :
        runs[k] # <<>> /\ Verified(runs[k]) =>
            \E c \in Caller :
                /\ KeyOf[c] = k
                /\ Len(runs[k]) <= Len(logs[c])
                /\ \A i \in 1 .. Len(runs[k]) :
                      runs[k][i] # LostRow /\ runs[k][i].body = logs[c][i]

\* The rows of a run all belong to one history: two callers that disagree are
\* never merged.
OneHistory ==
    \A k \in Key : \A i \in 1 .. Len(runs[k]) :
        runs[k][i] # LostRow => runs[k][i].hash = SubSeq(TailHash(runs[k]), 1, i)

\* A run that decayed is never disposed of: what is left of it is evidence.
DecayIsNotBuried ==
    [][\A k \in disposed' \ disposed :
          \A i \in 1 .. Len(runs[k]) :
              /\ runs[k][i] # LostRow
              /\ runs[k][i].body = TailHash(runs[k])[i]]_vars

\* The store implements the log that only grows: what the chain of a run
\* commits to is its history.
HistoryOf ==
    [k \in Key |->
        IF runs[k] = <<>> /\ k \in disposed THEN Gone ELSE TailHash(runs[k])]

Log == INSTANCE AppendOnlyLog WITH history <- HistoryOf
LogSpec == Log!Spec
=============================================================================
