---------------------------- MODULE RunTimeline ----------------------------
(***************************************************************************)
(* What is read out of the log of one run: whether its chain holds, the    *)
(* states the run went through, what each model call cost, the events that *)
(* are metered and the telemetry spans.  All of it is computed from the    *)
(* log and from nothing else.                                              *)
(*                                                                         *)
(* Sealed content is known by its subject, a hash by everything it commits *)
(* to.  Token counts and prices are small numbers.                         *)
(***************************************************************************)
EXTENDS Integers, Sequences, SequencesExt, FiniteSets, FiniteSetsExt

CONSTANTS Subject,
          Model,       \* pinned model snapshots
          Usage,       \* what a completion may use: [input, output] tokens
          Price        \* the price table: model -> [input, output] micros a token

ASSUME TimelineAssumption ==
    /\ Usage \subseteq [input : Nat, output : Nat]
    /\ Price \in [Model -> [input : Nat, output : Nat]]

Event == [kind : {"run-started"}, subject : Subject]
    \cup [kind : {"model-invoked"}, snapshot : Model]
    \cup [kind : {"tool-called"}, subject : Subject,
          status : {"succeeded", "failed", "denied"}]
    \cup [kind : {"record-retrieved", "guardrail-evaluated", "human-intervened"}]
    \cup [kind : {"usage-recorded"}, invocationSeq : Nat, usage : Usage, costMicros : Nat]
    \cup [kind : {"run-finished"}, outcome : {"succeeded", "failed", "halted", "refused"}]

\* Where the entries of a kind stand in a log.
At(log, kind) == {i \in DOMAIN log : log[i].event.kind = kind}

Ended(log) == log # <<>> /\ Last(log).event.kind = "run-finished"
-----------------------------------------------------------------------------
\* The hash of an entry, which covers its link to the entry before it.
Genesis == <<>>

Hash(e) == <<e.seq, e.at, e.event, e.previousHash>>

HashBefore(log, i) == IF i = 1 THEN Genesis ELSE log[i - 1].hash

\* appendEntry; its guard is ~Ended(log).
Appended(log, event, at) ==
    LET unhashed == [seq |-> Len(log), at |-> at, event |-> event,
                     previousHash |-> HashBefore(log, Len(log) + 1)]
    IN  Append(log, [seq |-> unhashed.seq, at |-> at, event |-> event,
                     previousHash |-> unhashed.previousHash, hash |-> Hash(unhashed)])

Flaw(log, i) ==
    IF log[i].seq # i - 1 THEN "sequence-gap"
    ELSE IF log[i].previousHash # HashBefore(log, i) THEN "chain-broken"
    ELSE IF Hash(log[i]) # log[i].hash THEN "hash-mismatch"
    ELSE "none"

\* verifyRunLog: the first flaw, and the sequence number it is found at.
Integrity(log) ==
    LET flawed == {i \in DOMAIN log : Flaw(log, i) # "none"}
    IN  IF flawed = {} THEN [kind |-> "verified"]
        ELSE [kind |-> Flaw(log, Min(flawed)), seq |-> Min(flawed) - 1]
-----------------------------------------------------------------------------
\* The state an entry puts the run in; "none" for one that changes no state.
BaseState(e) ==
    CASE e.kind = "run-started" -> "queued"
      [] e.kind \in {"record-retrieved", "model-invoked"} -> "thinking"
      [] e.kind = "tool-called" -> "acting"
      [] e.kind = "human-intervened" -> "awaiting-approval"
      [] e.kind = "run-finished" /\ e.outcome = "failed" -> "failed"
      [] OTHER -> "none"

\* Fault: only a successful call ends the recovery.
RecoveringUntilSuccess(current, e) ==
    CASE e.kind = "tool-called" -> e.status = "failed" \/ (current /\ e.status = "denied")
      [] e.kind = "run-finished" -> FALSE
      [] OTHER -> current

NextRecovering(current, e) ==
    CASE e.kind = "tool-called" -> e.status = "failed"
      [] e.kind = "run-finished" -> FALSE
      [] OTHER -> current

\* An entry extends the open span of its state, or opens another.
Extended(spans, state, entry) ==
    IF spans # <<>> /\ Last(spans).state = state
      THEN [spans EXCEPT ![Len(spans)].toSeq = entry.seq]
      ELSE Append(spans, [state |-> state, at |-> entry.at,
                          fromSeq |-> entry.seq, toSeq |-> entry.seq])

Stepped(reading, entry) ==
    LET base  == BaseState(entry.event)
        state == IF reading.recovering /\ base \in {"thinking", "acting"}
                   THEN "recovering" ELSE base
    IN  [recovering |-> NextRecovering(reading.recovering, entry.event),
         spans |-> IF state = "none" THEN reading.spans
                   ELSE Extended(reading.spans, state, entry)]

States(log) ==
    FoldLeft(Stepped, [recovering |-> FALSE, spans |-> <<>>], log).spans

Outcome(log) == IF Ended(log) THEN Last(log).event.outcome ELSE "in-flight"

\* subjectsIn of every entry: whose data the run touched.
Subjects(log) ==
    {log[i].event.subject : i \in At(log, "run-started") \cup At(log, "tool-called")}
-----------------------------------------------------------------------------
\* priceCompletion, under a table that may not know the model.
Priced(usage, model, table) ==
    usage.input * table[model].input + usage.output * table[model].output

\* replayUsageLog: one record of an unpriced model fails the whole replay.
Replay(records, table) ==
    IF \E i \in DOMAIN records : records[i].model \notin DOMAIN table
      THEN [kind |-> "unpriced-model"]
      ELSE [kind |-> "priced",
            total |-> SumFunction([i \in DOMAIN records |->
                                     Priced(records[i].usage, records[i].model, table)])]

\* What some settlements add up to, by where they stand.
Micros(log, settlements) == SumFunction([i \in settlements |-> log[i].event.costMicros])

Tokens(log, settlements) ==
    [input  |-> SumFunction([i \in settlements |-> log[i].event.usage.input]),
     output |-> SumFunction([i \in settlements |-> log[i].event.usage.output])]

InvocationSeqs(log) == {log[i].seq : i \in At(log, "model-invoked")}

\* Fault: what names no invocation is charged to the one before it.
SettlementsNearby(log, invocationSeq) ==
    {i \in At(log, "usage-recorded") :
        LET earlier == {s \in InvocationSeqs(log) : s < log[i].seq}
        IN  earlier # {} /\ Max(earlier) = invocationSeq}

Settlements(log, invocationSeq) ==
    {i \in At(log, "usage-recorded") : log[i].event.invocationSeq = invocationSeq}

Unattributed(log) ==
    {i \in At(log, "usage-recorded") : log[i].event.invocationSeq \notin InvocationSeqs(log)}

\* costFrom: one row for every invocation, whether anything settled it or not.
Cost(log) ==
    LET row(e) == LET settled == Settlements(log, e.seq)
                  IN  [invocationSeq |-> e.seq, snapshot |-> e.event.snapshot,
                       settlements |-> Cardinality(settled), tokens |-> Tokens(log, settled),
                       costMicros |-> Micros(log, settled)]
    IN  [perInvocation |-> [i \in At(log, "model-invoked") |-> row(log[i])],
         totalMicros |-> Micros(log, At(log, "usage-recorded")),
         unattributedMicros |-> Micros(log, Unattributed(log)),
         unattributedSeqs |-> {log[i].seq : i \in Unattributed(log)}]

\* spansFromRun: one span for every invocation, with its tokens when settled.
Telemetry(log) ==
    LET span(e) == LET settled == Settlements(log, e.seq)
                   IN  [model |-> e.event.snapshot, at |-> e.at,
                        tokens |-> IF settled = {} THEN {} ELSE {Tokens(log, settled)}]
    IN  [i \in At(log, "model-invoked") |-> span(log[i])]

\* projectRunTimeline.
Timeline(log) ==
    [integrity |-> Integrity(log), subjects |-> Subjects(log), outcome |-> Outcome(log),
     states |-> States(log), steps |-> [i \in DOMAIN log |-> log[i].event.kind],
     cost |-> Cost(log)]
-----------------------------------------------------------------------------
\* meterEventsFrom, by where the events stand in the log.
MeterEvents(log) ==
    [i \in At(log, "usage-recorded") |->
       [at |-> log[i].at, usage |-> log[i].event.usage, costMicros |-> log[i].event.costMicros]]

\* sourceTotalFrom: the events of the half-open window.
Metered(events, start, end) ==
    SumFunction([i \in {j \in DOMAIN events : events[j].at >= start /\ events[j].at < end} |->
                   events[i].costMicros])
=============================================================================
