-------------------------- MODULE CostReconciliation --------------------------
(***************************************************************************)
(* A run is logged while its model calls are billed: by the provider, whose*)
(* invoice dates them, and by the internal ledger, which posts them.  What *)
(* the log meters of a period is reconciled with the other two.            *)
(*                                                                         *)
(* Invoice and ledger are outside this code, and one thing may go wrong:   *)
(* the causes of divergence that reconcile.ts lists.  The rows of the log  *)
(* may also be edited underneath; nothing is appended to such a log.       *)
(* `written' and `slip' are history variables.                             *)
(***************************************************************************)
EXTENDS RunTimeline

CONSTANTS Tolerance,   \* DEFAULT_TOLERANCE, in micros
          MaxTime,     \* bound: the last instant of the clock
          MaxLog,      \* bound: the length of a log
          Quiet,       \* the events a run may log besides its usage
          NoSlip

Source == {"provider-invoice", "meter-events", "internal-ledger"}

ASSUME ReconciliationAssumption ==
    /\ Tolerance \in Nat /\ MaxTime \in Nat /\ MaxLog \in Nat
    /\ \A event \in Quiet : event \in Event /\ event.kind # "usage-recorded"
    /\ NoSlip \notin [source : Source, at : SUBSET Nat]

VARIABLES now,       \* the clock
          log,       \* the log of the run, as it is read
          written,   \* history: the log as it was written
          invoice,   \* micros the provider billed, by the instant it dates them
          ledger,    \* micros the internal ledger posted, by instant
          slip       \* history: the source that went wrong, and the instants

vars == <<now, log, written, invoice, ledger, slip>>

Instant == 0 .. MaxTime

Slip == [source : Source, at : SUBSET Instant]

Init ==
    /\ now = 0
    /\ log = <<>> /\ written = <<>>
    /\ invoice = [t \in Instant |-> 0]
    /\ ledger = [t \in Instant |-> 0]
    /\ slip = NoSlip
-----------------------------------------------------------------------------
\* Fault: a run that has finished goes on.
WriteOn(event) ==
    /\ log = written /\ Len(log) < MaxLog
    /\ log' = Appended(log, event, now)
    /\ written' = log'

\* Appends to a log that is intact and whose run has not finished.
Write(event) ==
    /\ ~Ended(log) /\ log = written /\ Len(log) < MaxLog
    /\ log' = Appended(log, event, now)
    /\ written' = log'

Bill(cost, invoicedAt, postings) ==
    /\ invoice' = [invoice EXCEPT ![invoicedAt] = @ + cost]
    /\ ledger' = [ledger EXCEPT ![now] = @ + postings * cost]

Slips(source, at) == slip = NoSlip /\ slip' = [source |-> source, at |-> at]

\* An entry that costs nothing.  The first one opens the run.
Log(event) ==
    /\ log = <<>> <=> event.kind = "run-started"
    /\ Write(event)
    /\ UNCHANGED <<now, invoice, ledger, slip>>

UsageOf(invocationSeq, usage, costMicros) ==
    [kind |-> "usage-recorded", invocationSeq |-> invocationSeq,
     usage |-> usage, costMicros |-> costMicros]

CostOf(invocationSeq, usage) ==
    Priced(usage, log[invocationSeq + 1].event.snapshot, Price)

\* A call is answered, recorded, billed and posted.
Settle(seq, usage) ==
    /\ seq \in InvocationSeqs(log)
    /\ Write(UsageOf(seq, usage, CostOf(seq, usage)))
    /\ Bill(CostOf(seq, usage), now, 1)
    /\ UNCHANGED <<now, slip>>

\* The run ends between the answer and its record.
SettleUnrecorded(seq, usage) ==
    /\ seq \in InvocationSeqs(log) /\ log = written
    /\ Bill(CostOf(seq, usage), now, 1)
    /\ Slips("meter-events", {now})
    /\ UNCHANGED <<now, log, written>>

\* A settlement that names no invocation of this run.
SettleStray(seq, usage) ==
    /\ seq \in 0 .. Len(log) - 1 /\ seq \notin InvocationSeqs(log)
    /\ \E model \in Model : Write(UsageOf(seq, usage, Priced(usage, model, Price)))
    /\ Slips("meter-events", {now})
    /\ UNCHANGED <<now, invoice, ledger>>

\* A posting is lost, or retried without idempotency.
SettleMisposted(seq, usage) ==
    /\ seq \in InvocationSeqs(log)
    /\ Write(UsageOf(seq, usage, CostOf(seq, usage)))
    /\ \E postings \in {0, 2} : Bill(CostOf(seq, usage), now, postings)
    /\ Slips("internal-ledger", {now})
    /\ UNCHANGED now

\* The provider dates the call on the other side of a boundary.
SettleMisdated(seq, usage) ==
    /\ seq \in InvocationSeqs(log)
    /\ Write(UsageOf(seq, usage, CostOf(seq, usage)))
    /\ \E at \in Instant \ {now} :
          /\ Bill(CostOf(seq, usage), at, 1)
          /\ Slips("provider-invoice", {now, at})
    /\ UNCHANGED now

\* A row is edited, its own hash recomputed or not, or it is lost.
Damage(i) ==
    /\ log = written
    /\ LET edited == [log[i] EXCEPT !.event = [kind |-> "human-intervened"]]
       IN  log' \in {[log EXCEPT ![i] = edited],
                    [log EXCEPT ![i] = [edited EXCEPT !.hash = Hash(edited)]],
                    RemoveAt(log, i)}
    /\ UNCHANGED <<now, written, invoice, ledger, slip>>

Tick ==
    /\ now < MaxTime
    /\ now' = now + 1
    /\ UNCHANGED <<log, written, invoice, ledger, slip>>

Next ==
    \/ \E event \in Quiet : Log(event)
    \/ \E seq \in 0 .. MaxLog, usage \in Usage :
          \/ Settle(seq, usage) \/ SettleUnrecorded(seq, usage) \/ SettleStray(seq, usage)
          \/ SettleMisposted(seq, usage) \/ SettleMisdated(seq, usage)
    \/ \E i \in DOMAIN log : Damage(i)
    \/ Tick

Spec == Init /\ [][Next]_vars
-----------------------------------------------------------------------------
\* A total of a source over a period.  The bounds are strings: two spellings of
\* one instant are two bounds.
Total(source, start, end, spelling, micros) ==
    [source |-> source, start |-> <<start, spelling>>, end |-> <<end, spelling>>,
     totalMicros |-> micros]

Summed(byInstant, start, end) ==
    SumFunction([t \in {u \in Instant : start <= u /\ u < end} |-> byInstant[t]])

Difference(a, b) == IF a > b THEN a - b ELSE b - a

\* Fault: neighbours in the list are compared, and not every pair of it.
NeighboursOf(totals) == {<<i, i + 1>> : i \in 1 .. Len(totals) - 2}

PairsOf(totals) == {p \in (DOMAIN totals) \X (DOMAIN totals) : p[1] < p[2]}

\* reconcile: what is not comparable is not compared.
Reconcile(totals, tolerance) ==
    LET present == {totals[i].source : i \in DOMAIN totals}
        discrepancies ==
            {p \in PairsOf(totals) :
                Difference(totals[p[1]].totalMicros, totals[p[2]].totalMicros) > tolerance}
    IN  IF ~(Source \subseteq present)
          THEN [kind |-> "not-comparable", reason |-> "missing-source"]
        ELSE IF \E i \in DOMAIN totals :
                   totals[i].start # totals[1].start \/ totals[i].end # totals[1].end
          THEN [kind |-> "not-comparable", reason |-> "period-mismatch"]
        ELSE IF discrepancies # {}
          THEN [kind |-> "alert",
                discrepancies |-> {{totals[p[1]].source, totals[p[2]].source}
                                     : p \in discrepancies}]
        ELSE [kind |-> "reconciled", totalMicros |-> totals[1].totalMicros]

\* The three sources over a period, in any order.
Totals(start, end) ==
    SetToSeqs({Total("provider-invoice", start, end, "utc", Summed(invoice, start, end)),
               Total("meter-events", start, end, "utc", Metered(MeterEvents(log), start, end)),
               Total("internal-ledger", start, end, "utc", Summed(ledger, start, end))})
-----------------------------------------------------------------------------
\* The spans of project-run-timeline.ts name, for every entry, the state that
\* follows from the entry and the last tool call before it; each begins and ends
\* with an entry of its state, they are in order, and no two neighbours say the
\* same.
SpansTellTheStates ==
    LET spans    == States(log)
        calls(i) == {j \in 1 .. i - 1 : log[j].event.kind = "tool-called"}
        faulty(i) == calls(i) # {} /\ log[Max(calls(i))].event.status = "failed"
        state(i) == IF faulty(i) /\ BaseState(log[i].event) \in {"thinking", "acting"}
                      THEN "recovering" ELSE BaseState(log[i].event)
        within(i, k) == spans[k].fromSeq <= log[i].seq /\ log[i].seq <= spans[k].toSeq
    IN  /\ \A i \in DOMAIN log :
              state(i) # "none" => \E k \in DOMAIN spans : within(i, k) /\ spans[k].state = state(i)
        /\ \A k \in DOMAIN spans :
              /\ \E i \in DOMAIN log : log[i].seq = spans[k].fromSeq /\ state(i) = spans[k].state
              /\ \E i \in DOMAIN log : log[i].seq = spans[k].toSeq /\ state(i) = spans[k].state
        /\ \A k \in 1 .. Len(spans) - 1 :
              spans[k].toSeq < spans[k + 1].fromSeq /\ spans[k].state # spans[k + 1].state

\* No two readings of a log that verification passes disagree: the timeline's
\* total is what its rows and the unattributed settlements add up to
\* (run-timeline.ts:155), the meter's
\* total over any two adjacent windows, and what replaying the attributed usage
\* under the price table gives, which a table that lost a model refuses instead
\* of giving less; the telemetry spans carry the tokens of the rows.
ReadingsAgree ==
    Integrity(log).kind = "verified" =>
    LET cost      == Cost(log)
        rows      == cost.perInvocation
        meter     == MeterEvents(log)
        records   == [i \in At(log, "usage-recorded") \ Unattributed(log) |->
                         [usage |-> log[i].event.usage,
                          model |-> log[log[i].event.invocationSeq + 1].event.snapshot]]
        replayed(models) == Replay(records, [m \in models |-> Price[m]])
        total     == SumFunction([i \in DOMAIN rows |-> rows[i].costMicros])
    IN  /\ cost.totalMicros = total + cost.unattributedMicros
        /\ \A cut \in Instant :
              cost.totalMicros = Metered(meter, 0, cut) + Metered(meter, cut, MaxTime + 1)
        /\ \A models \in SUBSET Model :
              replayed(models).kind = "priced" => replayed(models).total = total
        /\ \A i \in DOMAIN rows :
              Telemetry(log)[i].tokens = IF rows[i].settlements = 0 THEN {} ELSE {rows[i].tokens}

\* Over every period, reconcile alerts exactly when something went wrong inside
\* it, and then names the source that did against both others; otherwise it
\* reconciles, whatever the order of the totals.  It compares nothing when a source
\* is missing, or when two of them spell the bounds differently (reconcile.ts:70-112).
ReconcileFindsTheSlip ==
    log = written =>
        \A start \in Instant, end \in 1 .. MaxTime + 1 :
            start < end =>
            LET inside == IF slip = NoSlip THEN {} ELSE slip.at \cap (start .. end - 1)
                expected ==
                    IF Cardinality(inside) = 1
                      THEN [kind |-> "alert",
                            discrepancies |-> {{slip.source, other} :
                                                 other \in Source \ {slip.source}}]
                      ELSE [kind |-> "reconciled", totalMicros |-> Summed(invoice, start, end)]
            IN  \A totals \in Totals(start, end) :
                  /\ Reconcile(totals, Tolerance) = expected
                  /\ \A other \in {Front(totals), [totals EXCEPT ![1].end = <<end, "offset">>]} :
                        Reconcile(other, Tolerance).kind = "not-comparable"

\* verifyRunLog passes what was written, and of anything else at most a log that
\* differs in its last entry or lacks it, which nothing follows, although its
\* comment calls every mutated payload and every deleted entry detectable
\* (verify-run-log.ts:13-16); otherwise the flaw
\* it reports is at the first entry that is not what was written, or at the one
\* after (verify-run-log.ts:17-38).
IntegrityLocatesTheDamage ==
    LET differing == {i \in DOMAIN written : i \notin DOMAIN log \/ log[i] # written[i]}
        flaw      == Integrity(log)
    IN  IF flaw.kind = "verified"
          THEN differing \subseteq {Len(written)}
          ELSE differing # {} /\ flaw.seq + 1 \in {Min(differing), Min(differing) + 1}

\* A log that verification passes is read consistently, be it damaged or not, and
\* a log that it does not pass it says the damage of; of a log whose last entry is
\* lost, or edited and hashed anew, the first is all there is (run-timeline.ts,
\* verify-run-log.ts:17-38).
ReadingIsSound == ReadingsAgree /\ IntegrityLocatesTheDamage

\* A reader of a run in flight is never contradicted by a later reading: closed
\* spans stay, the open one only grows, totals, subjects and settled rows only
\* grow, and an outcome once told is the outcome.
LaterReading(before, after) ==
    LET n == Len(before.states) IN
    /\ after.integrity = before.integrity
    /\ before.outcome # "in-flight" => after.outcome = before.outcome
    /\ before.subjects \subseteq after.subjects
    /\ IsPrefix(before.steps, after.steps)
    /\ n > 0 => /\ IsPrefix(Front(before.states), after.states)
                /\ after.states[n] = [before.states[n] EXCEPT !.toSeq = after.states[n].toSeq]
                /\ after.states[n].toSeq >= before.states[n].toSeq
    /\ after.cost.totalMicros >= before.cost.totalMicros
    /\ before.cost.unattributedSeqs \subseteq after.cost.unattributedSeqs
    /\ \A i \in DOMAIN before.cost.perInvocation :
          LET row == before.cost.perInvocation[i]  grown == after.cost.perInvocation[i]
          IN  /\ grown.invocationSeq = row.invocationSeq
              /\ grown.settlements >= row.settlements /\ grown.costMicros >= row.costMicros

\* What projectRunTimeline shows of a run holds of every later reading of it.
TimelineOnlyExtends ==
    [][log = written /\ log' = written' =>
          LaterReading(Timeline(log), Timeline(log'))]_vars
=============================================================================
