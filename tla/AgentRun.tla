------------------------------ MODULE AgentRun ------------------------------
(***************************************************************************)
(* The ReAct loop of the agent component: evaluate the limits, serve a     *)
(* turn, parse the reply, ask for approval, run a tool, rail what it       *)
(* brought back, and hand the whole log to the store before the next turn. *)
(* One action per stretch between two awaits; the process may die at any   *)
(* of them, and only the store survives it.                                *)
(*                                                                         *)
(* The gateway, the approval gate and the store are used through what they *)
(* promise: see ServeCompletion, ReviewVerdict and EvidenceStore.          *)
(* world and reported are history variables: the effects that happened     *)
(* outside, and those a tool owned up to.                                  *)
(***************************************************************************)
EXTENDS Integers, SequencesExt, FiniteSets

CONSTANTS Record,          \* record ids
          Tool, NoTool,
          Offered,         \* the tools of the catalogue and the runtime
          Retrieving,      \* those that retrieve; the others act
          AutoApproved,    \* those whose lane lets an unanswered review pass
          OutputRecord,    \* the record id of an acting tool's output
          Findings,        \* what a retrieval may bring back
          LeavesEffects,   \* tools whose failure may leave an effect behind
          Cost,            \* what a served turn may cost
          Attempts,        \* calls the gateway may have needed for a turn
          MaxIterations, MaxStepsWithoutProgress, CostCeiling,
          None,
          Garbled, LostRow

Chunk == [record : Record, poisoned : BOOLEAN]

HaltOrder == <<"unverified-action", "cost-ceiling", "stagnating", "iteration-ceiling">>

HaltReason == {HaltOrder[i] : i \in 1 .. 4}

RunOutcome == {"succeeded", "failed", "halted", "refused"}

\* What a caller is told.
Copy == HaltReason \cup {"answered", "refused", "failed", "already-served"}

LogEntry ==
    [kind : {"run-started", "model-invoked"}]
        \cup [kind : {"usage-recorded"}, cost : Cost]
        \cup [kind : {"guardrail-evaluated"}, outcome : {"blocked", "allowed"}]
        \cup [kind : {"record-retrieved"}, record : Record]
        \cup [kind : {"tool-called"}, tool : Tool,
              status : {"succeeded", "failed", "denied"}, committed : SUBSET Nat]
        \cup [kind : {"run-finished"}, outcome : RunOutcome]

\* What a tool hands back: what it brought, and the effects of its receipt.
Result == [ok : BOOLEAN, found : Seq(Chunk), committed : SUBSET Nat]

INSTANCE RunLogStore WITH Entry <- LogEntry

ASSUME RunAssumption ==
    /\ Offered \subseteq Tool /\ Retrieving \subseteq Tool
    /\ AutoApproved \subseteq Tool /\ LeavesEffects \subseteq Tool \ Retrieving
    /\ NoTool \notin Tool
    /\ OutputRecord \in [Tool -> Record]
    /\ Findings \subseteq Seq(Chunk)
    /\ Cost \subseteq Nat
    /\ Attempts \subseteq Nat \ {0}
    /\ MaxIterations \in Nat /\ MaxStepsWithoutProgress \in Nat /\ CostCeiling \in Nat
    /\ None \notin Result /\ LostRow \notin Row

VARIABLES pc,
          log,          \* context.log
          state,        \* context.state
          seen,         \* context.seen
          shown,        \* the chunks whose text is among context.observations
          tool, cost,   \* the step in hand, and what its turn cost
          result,       \* what the tool in hand came back with
          rows,         \* the rows of this run in the log store
          claimed,      \* the turns of this run in the idempotency ledger
          storeFailed,  \* the store could not be reached
          world, reported,
          ending,       \* the outcome being written, and what to tell
          told          \* what the caller was told

vars == <<pc, log, state, seen, shown, tool, cost, result, rows, claimed,
          storeFailed, world, reported, ending, told>>

Init ==
    /\ pc = "start"
    /\ log = <<>> /\ rows = <<>>
    /\ state = [iteration |-> 0, idle |-> 0, cost |-> 0, verified |-> TRUE]
    /\ seen = {} /\ shown = {} /\ claimed = {}
    /\ tool = NoTool /\ cost = 0 /\ result = None
    /\ storeFailed = FALSE
    /\ world = {} /\ reported = {}
    /\ ending = None /\ told = None
-----------------------------------------------------------------------------
Started == [kind |-> "run-started"]
Invoked == [kind |-> "model-invoked"]
Usage(c) == [kind |-> "usage-recorded", cost |-> c]
Evaluated(outcome) == [kind |-> "guardrail-evaluated", outcome |-> outcome]
Retrieved(record) == [kind |-> "record-retrieved", record |-> record]
ToolCalled(t, status, committed) ==
    [kind |-> "tool-called", tool |-> t, status |-> status, committed |-> committed]
RunFinished(outcome) == [kind |-> "run-finished", outcome |-> outcome]

\* Where the entries of a kind stand.
At(entries, kind) == {i \in 1 .. Len(entries) : entries[i].kind = kind}

Closed(entries) == entries # <<>> /\ Last(entries).kind = "run-finished"

Stepped(effect, iteration, spent, verified) ==
    [iteration |-> iteration,
     idle |-> IF effect = "observed-new-evidence" THEN 0 ELSE state.idle + 1,
     cost |-> spent,
     verified |-> verified]

\* Fault: a turn that brought nothing costs nothing.
AdvancedFreely(effect) ==
    Stepped(effect, state.iteration + 1,
            IF effect = "observed-new-evidence" THEN state.cost + cost ELSE state.cost,
            effect # "tool-failed")

\* advance
Advanced(effect) ==
    Stepped(effect, state.iteration + 1, state.cost + cost, effect # "tool-failed")

\* evaluateLoop: the limits in the order it asks for them, and the first that is
\* reached.
Reached ==
    <<~state.verified,
      state.cost >= CostCeiling,
      state.idle >= MaxStepsWithoutProgress,
      state.iteration >= MaxIterations>>

Halting ==
    {HaltOrder[i] : i \in {j \in 1 .. 4 : Reached[j] /\ \A h \in 1 .. j - 1 : ~Reached[h]}}

\* finishRun and closeFailed: what is recorded of an end, and what is told of it.
Ending(outcome, copy) == [outcome |-> outcome, copy |-> copy]

Close(outcome, copy) ==
    /\ pc' = "closing"
    /\ ending' = Ending(outcome, copy)

Persist == pc' = "persisting" /\ UNCHANGED ending
-----------------------------------------------------------------------------
Start ==
    /\ pc = "start"
    /\ pc' = "turn"
    /\ UNCHANGED <<log, state, seen, shown, tool, cost, result, rows, claimed,
                   storeFailed, world, reported, ending, told>>

\* The prompt version or the catalogue cannot be resolved: nothing is recorded.
StartFails ==
    /\ pc = "start"
    /\ pc' = "ended" /\ told' = "failed"
    /\ UNCHANGED <<log, state, seen, shown, tool, cost, result, rows, claimed,
                   storeFailed, world, reported, ending>>

Halt ==
    /\ pc = "turn"
    /\ \E reason \in Halting : Close("halted", reason)
    /\ UNCHANGED <<log, state, seen, shown, tool, cost, result, rows, claimed,
                   storeFailed, world, reported, told>>

\* What the gateway adds to a log: one run-started per run, and an entry for
\* every call it made.
Opened == IF At(log, "run-started") = {} THEN Append(log, Started) ELSE log

InvokedTimes(n) == Opened \o [i \in 1 .. n |-> Invoked]

\* The turn hash covers the run and the iteration: it was claimed by no turn of
\* another run.
Serve ==
    /\ pc = "turn" /\ Halting = {}
    /\ state.iteration \notin claimed
    /\ claimed' = claimed \cup {state.iteration}
    /\ \E n \in Attempts, c \in Cost :
          /\ log' = Append(InvokedTimes(n), Usage(c))
          /\ cost' = c
    /\ pc' = "parsing"
    /\ UNCHANGED <<state, seen, shown, tool, result, rows, storeFailed, world,
                   reported, ending, told>>

\* A turn the ledger knows is not served; any other is refused or fails after some
\* calls, or fails before the run could be opened.
Failures ==
    IF state.iteration \in claimed THEN {"already-served"}
                                   ELSE {"refused", "failed", "unopened"}

ServeFails ==
    /\ pc = "turn" /\ Halting = {}
    /\ claimed' = claimed \cup {state.iteration}
    /\ \E kind \in Failures, n \in Attempts \cup {0} :
          /\ log' = IF kind \in {"refused", "failed"} THEN InvokedTimes(n) ELSE log
          /\ Close(IF kind = "refused" THEN "refused" ELSE "failed",
                   IF kind = "unopened" THEN "failed" ELSE kind)
    /\ UNCHANGED <<state, seen, shown, tool, cost, result, rows, storeFailed, world,
                   reported, told>>

Unparseable ==
    /\ pc = "parsing"
    /\ state' = Advanced("step-unparseable")
    /\ Persist
    /\ UNCHANGED <<log, seen, shown, tool, cost, result, rows, claimed, storeFailed,
                   world, reported, told>>

Answer ==
    /\ pc = "parsing"
    /\ Close("succeeded", "answered")
    /\ UNCHANGED <<log, state, seen, shown, tool, cost, result, rows, claimed,
                   storeFailed, world, reported, told>>

\* The catalogue does not define the tool, or the runtime does not hold it.
UseTool(t) ==
    /\ pc = "parsing"
    /\ tool' = t
    /\ pc' = IF t \in Offered THEN "approving" ELSE "denying"
    /\ UNCHANGED <<log, state, seen, shown, cost, result, rows, claimed, storeFailed,
                   world, reported, ending, told>>

\* seekApproval: an absent gate is nobody answering.
Approval(verdict) ==
    /\ pc = "approving"
    /\ pc' = IF verdict = "approved" \/ (verdict = "timed-out" /\ tool \in AutoApproved)
               THEN "executing"
               ELSE "denying"
    /\ UNCHANGED <<log, state, seen, shown, tool, cost, result, rows, claimed,
                   storeFailed, world, reported, ending, told>>

\* The arguments cannot be sealed: the tool does not run.
SealFails ==
    /\ pc \in {"denying", "executing"}
    /\ Close("failed", "failed")
    /\ UNCHANGED <<log, state, seen, shown, tool, cost, result, rows, claimed,
                   storeFailed, world, reported, told>>

\* recordDeniedTool
Denied ==
    /\ pc = "denying"
    /\ log' = Append(log, ToolCalled(tool, "denied", {}))
    /\ state' = Advanced("tool-failed")
    /\ Persist
    /\ UNCHANGED <<seen, shown, tool, cost, result, rows, claimed, storeFailed, world,
                   reported, told>>
-----------------------------------------------------------------------------
\* The next effect: effects are told apart by their order.
NewEffect == Cardinality(world) + 1

\* tool.execute up to its answer, by when what it does is done.
Executes(answer, effects) ==
    /\ pc = "executing"
    /\ result' = answer
    /\ world' = world \cup effects
    /\ reported' = reported \cup answer.committed
    /\ pc' = "returning"
    /\ UNCHANGED <<log, state, seen, shown, tool, cost, rows, claimed, storeFailed,
                   ending, told>>

Retrieves ==
    /\ tool \in Retrieving
    /\ \E found \in Findings :
          Executes([ok |-> TRUE, found |-> found, committed |-> {}], {})

\* A read commits nothing, a write says what it committed; the output is railed
\* like a retrieved record.
Acts ==
    /\ tool \notin Retrieving
    /\ \E poisoned \in BOOLEAN, effects \in {{}, {NewEffect}} :
          Executes([ok |-> TRUE, committed |-> effects,
                    found |-> <<[record |-> OutputRecord[tool], poisoned |-> poisoned]>>],
                   effects)

\* A failure does not say how far it got.
ExecutionFails ==
    \E effects \in {{}} \cup (IF tool \in LeavesEffects THEN {{NewEffect}} ELSE {}) :
        Executes([ok |-> FALSE, found |-> <<>>, committed |-> {}], effects)

ToolFailed ==
    /\ pc = "returning" /\ ~result.ok
    /\ log' = Append(log, ToolCalled(tool, "failed", {}))
    /\ state' = Advanced("tool-failed")
    /\ Persist
    /\ UNCHANGED <<seen, shown, tool, cost, result, rows, claimed, storeFailed, world,
                   reported, told>>

Blocking(chunks, c) == IF c.poisoned THEN Append(chunks, c) ELSE chunks

Blocked(found) == FoldLeft(Blocking, <<>>, found)

Admitting(chunks, c) == IF c.poisoned THEN chunks ELSE Append(chunks, c)

\* Fault: chunks are reconciled by record id, and a clean sibling vouches for a
\* blocked one.
AdmittedById(found) ==
    SelectSeq(found, LAMBDA c : \E i \in 1 .. Len(found) :
                                   /\ found[i].record = c.record
                                   /\ ~found[i].poisoned)

\* railRetrieved and admittedRecords
Admitted(found) == FoldLeft(Admitting, <<>>, found)

RecordsOf(chunks) == {chunks[i].record : i \in 1 .. Len(chunks)}

\* Fault: what was committed is left for later.
RetrievalEventsBlank(found, committed) ==
    [i \in 1 .. Len(Blocked(found)) |-> Evaluated("blocked")]
        \o [i \in 1 .. Len(Admitted(found)) |-> Evaluated("allowed")]
        \o [i \in 1 .. Len(Admitted(found)) |-> Retrieved(Admitted(found)[i].record)]
        \o <<ToolCalled(tool, "succeeded", {})>>

\* retrievalEvents
RetrievalEvents(found, committed) ==
    [i \in 1 .. Len(Blocked(found)) |-> Evaluated("blocked")]
        \o [i \in 1 .. Len(Admitted(found)) |-> Evaluated("allowed")]
        \o [i \in 1 .. Len(Admitted(found)) |-> Retrieved(Admitted(found)[i].record)]
        \o <<ToolCalled(tool, "succeeded", committed)>>

\* Records already seen are no progress, and retrieved ones are not shown again.
ToolSucceeded ==
    LET admitted == Admitted(result.found)
        isNew == ~(RecordsOf(admitted) \subseteq seen)
    IN
    /\ pc = "returning" /\ result.ok
    /\ log' = log \o RetrievalEvents(result.found, result.committed)
    /\ seen' = seen \cup RecordsOf(admitted)
    /\ shown' = IF isNew \/ tool \notin Retrieving
                  THEN shown \cup {admitted[i] : i \in 1 .. Len(admitted)}
                  ELSE shown
    /\ state' = Advanced(IF isNew THEN "observed-new-evidence" ELSE "observed-nothing-new")
    /\ Persist
    /\ UNCHANGED <<tool, cost, result, rows, claimed, storeFailed, world, reported, told>>
-----------------------------------------------------------------------------
\* Fault: a turn without a tool call is not worth a write.
PersistToolTurns ==
    /\ pc = "persisting"
    /\ pc' = "turn"
    /\ rows' = IF Last(log).kind = "tool-called" THEN Appended(rows, log) ELSE rows
    /\ tool' = NoTool /\ cost' = 0 /\ result' = None
    /\ UNCHANGED <<log, state, seen, shown, claimed, storeFailed, world, reported,
                   ending, told>>

\* persist, then the next turn with nothing of this one in hand.
PersistTurn ==
    /\ pc = "persisting"
    /\ Continues(rows, log)
    /\ rows' = Appended(rows, log)
    /\ pc' = "turn"
    /\ tool' = NoTool /\ cost' = 0 /\ result' = None
    /\ UNCHANGED <<log, state, seen, shown, claimed, storeFailed, world, reported,
                   ending, told>>

PersistFails ==
    /\ pc = "persisting"
    /\ storeFailed' = TRUE
    /\ pc' = "ended" /\ told' = "failed"
    /\ UNCHANGED <<log, state, seen, shown, tool, cost, result, rows, claimed, world,
                   reported, ending>>

\* finishRun: nothing is told before it is recorded.
Finish ==
    /\ pc = "closing"
    /\ log' = Append(log, RunFinished(ending.outcome))
    /\ Continues(rows, log')
    /\ rows' = Appended(rows, log')
    /\ pc' = "ended" /\ told' = ending.copy
    /\ UNCHANGED <<state, seen, shown, tool, cost, result, claimed, storeFailed, world,
                   reported, ending>>

\* Fault: the outcome is told although it could not be recorded.
FinishAnyway ==
    /\ pc = "closing"
    /\ log' = Append(log, RunFinished(ending.outcome))
    /\ storeFailed' = TRUE
    /\ pc' = "ended" /\ told' = ending.copy
    /\ UNCHANGED <<state, seen, shown, tool, cost, result, rows, claimed, world,
                   reported, ending>>

FinishFails ==
    /\ pc = "closing"
    /\ log' = Append(log, RunFinished(ending.outcome))
    /\ storeFailed' = TRUE
    /\ pc' = "ended" /\ told' = "failed"
    /\ UNCHANGED <<state, seen, shown, tool, cost, result, rows, claimed, world,
                   reported, ending>>

\* The process dies, or an adapter throws; what it held in memory is gone.
Crash ==
    /\ pc \notin {"start", "ended", "crashed"}
    /\ pc' = "crashed"
    /\ UNCHANGED <<log, state, seen, shown, tool, cost, result, rows, claimed,
                   storeFailed, world, reported, ending, told>>

Next ==
    \/ Start \/ StartFails
    \/ Halt \/ Serve \/ ServeFails
    \/ Unparseable \/ Answer \/ \E t \in Tool : UseTool(t)
    \/ \E verdict \in {"approved", "rejected", "timed-out"} : Approval(verdict)
    \/ SealFails \/ Denied
    \/ Retrieves \/ Acts \/ ExecutionFails
    \/ ToolFailed \/ ToolSucceeded
    \/ PersistTurn \/ PersistFails
    \/ Finish \/ FinishFails
    \/ Crash

Spec == Init /\ [][Next]_vars
-----------------------------------------------------------------------------
TypeOK ==
    /\ pc \in {"start", "turn", "parsing", "approving", "denying", "executing", "returning",
              "persisting", "closing", "ended", "crashed"}
    /\ log \in Seq(LogEntry) /\ rows \in Seq(Row)
    /\ state \in [iteration : Nat, idle : Nat, cost : Nat, verified : BOOLEAN]
    /\ seen \subseteq Record /\ shown \subseteq Chunk
    /\ tool \in Tool \cup {NoTool} /\ cost \in Nat
    /\ pc \in {"approving", "denying", "executing", "returning"} => tool \in Tool
    /\ result \in Result \cup {None} /\ (pc = "returning" => result \in Result)
    /\ claimed \subseteq Nat /\ storeFailed \in BOOLEAN
    /\ world \subseteq Nat /\ IsFiniteSet(world) /\ reported \subseteq world
    /\ ending \in [outcome : RunOutcome, copy : Copy] \cup {None}
    /\ pc = "closing" => ending \in [outcome : RunOutcome, copy : Copy]
    /\ told \in Copy \cup {None}

\* A crash leaves a log that verifies, that is the beginning of what happened and
\* that misses one turn at most.
CrashLosesOneTurn ==
    /\ Verified(rows)
    /\ Bodies(rows) = SubSeq(log, 1, Len(rows))
    /\ \A kind \in {"usage-recorded", "tool-called"} :
          \A i, j \in {k \in At(log, kind) : k > Len(rows)} : i = j

\* The outcome a caller is told and the outcome the durable record shows are the
\* same, unless the store was out of reach or the run never began.
Meaning(copy) ==
    CASE copy = "answered" -> "succeeded"
      [] copy \in HaltReason -> "halted"
      [] copy = "refused" -> "refused"
      [] OTHER -> "failed"

ToldIsRecorded ==
    told # None =>
        \/ Closed(Bodies(rows)) /\ Last(rows).body.outcome = Meaning(told)
        \/ /\ told = "failed"
           /\ ~Closed(Bodies(rows))
           /\ storeFailed \/ log = <<>>

\* The loop stops: no turn is served after the limit on turns, after what was
\* metered reached the ceiling, or after an action nobody verified.
Charging(total, e) == IF e.kind = "usage-recorded" THEN total + e.cost ELSE total

Metered(entries) == FoldLeft(Charging, 0, entries)

StopsAtItsLimits ==
    /\ Cardinality(At(log, "usage-recorded")) <= MaxIterations
    /\ \A i \in 1 .. Len(log) :
          log[i].kind = "model-invoked" =>
              LET before == SubSeq(log, 1, i - 1) IN
              /\ Metered(before) < CostCeiling
              /\ \A j \in 1 .. i - 1 :
                    log[j].kind = "tool-called" => log[j].status = "succeeded"

\* Text the rail withheld never reaches the model, and what does is on record.
RailHolds ==
    \A chunk \in shown :
        /\ ~chunk.poisoned
        /\ \E i \in 1 .. Len(log) : log[i] = Retrieved(chunk.record)

\* Every effect a tool owned up to is in the durable record before the next turn
\* is planned, and before the caller hears of anything but a lost store.
CommittedIn(entries) ==
    UNION {entries[i].committed : i \in At(entries, "tool-called")}

EffectsAreRecorded ==
    pc = "turn" \/ (told # None /\ ~storeFailed) =>
        reported \subseteq CommittedIn(Bodies(rows))
=============================================================================
