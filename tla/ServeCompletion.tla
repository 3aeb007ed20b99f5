-------------------------- MODULE ServeCompletion --------------------------
(***************************************************************************)
(* The gateway: a delivery of a request claims it, opens the run's log,    *)
(* walks the in-region providers until one answers, and closes the run.    *)
(*                                                                         *)
(* A step is what the code does between two awaits.  Several gateway       *)
(* processes share one durable ledger; each delivery's attempts and log    *)
(* live in the memory of the process that serves it and die with it.       *)
(* `holder' and `unsealed' are history variables, read by properties only. *)
(***************************************************************************)
EXTENDS IdempotencyLedger, SequencesExt, FiniteSets

CONSTANTS Delivery,         \* one call of serveCompletion each
          RequestOf,        \* the request a delivery carries
          Provider, Region,
          Candidates,       \* the router's candidate list, in order
          ProcessingRegion, StorageRegion,
          ZeroRetention,    \* providers under a zero-retention agreement
          Adapter,          \* providers with an adapter installed
          TenantRegion,     \* the region of a request's tenant
          NeedsZeroRetention,
          HealthViews,      \* the sets of healthy providers a request may name
          EarlierLogs,      \* the run's log before this call
          MaxAttempts,      \* DEFAULT_RETRY_POLICY.maxAttempts
          MaxTime,          \* bound: the clock stops here
          None

Entry == [kind : {"run-started", "run-finished"}]
           \cup [kind : {"model-invoked"}, provider : Provider]
           \cup [kind : {"usage-recorded"}, invocationSeq : Nat]

Rejection == [kind : {"refused"},
              reason : {"no-eligible-in-region-provider", "all-eligible-exhausted"}]
        \cup [kind : {"provider-failed"},
              reason : {"seal-failed", "run-already-finished", "not-transient",
                        "attempts-exhausted", "no-adapter-for-provider"}]

Answer == [kind : {"served"}, provider : Provider]
     \cup Rejection
     \cup [kind : {"in-flight"}]
     \cup [kind : {"already-served"}, outcome : Outcome]

ASSUME ServeAssumption ==
    /\ Execution = Delivery
    /\ RequestOf \in [Delivery -> Request]
    /\ Candidates \in Seq(Provider)
    /\ ProcessingRegion \in [Provider -> Region]
    /\ StorageRegion \in [Provider -> Region]
    /\ TenantRegion \in [Request -> Region]
    /\ ZeroRetention \subseteq Provider
    /\ NeedsZeroRetention \subseteq Request
    /\ Adapter \subseteq Provider
    /\ HealthViews \subseteq SUBSET Provider
    /\ EarlierLogs \subseteq Seq(Entry)
    /\ MaxAttempts \in Nat \ {0}
    /\ MaxTime \in Nat
    /\ None \notin Answer \cup Nat

VARIABLES now,         \* the clock every process reads
          ledger,      \* the claims table
          pc,          \* where each delivery is, between two awaits
          claimedAt,   \* the clock when the delivery asked for its claim
          healthy,     \* serve.candidates' health, a snapshot taken by the caller
          log,         \* AttemptState.log
          attempted,   \* AttemptState.attempted
          attempt,     \* the loop counter
          invocation,  \* seq of the model-invoked entry that was answered
          answer,      \* what the delivery returned, or is about to
          holder,      \* history: who wrote the claim row of a request
          unsealed     \* history: deliveries one of whose seals failed

runVars == <<claimedAt, healthy, log, attempted, attempt, invocation, answer>>
vars == <<now, ledger, pc, runVars, holder, unsealed>>

Location == {"idle", "opening", "routing", "calling", "closing", "failing",
             "answered", "died"}

Init ==
    /\ now = 0
    /\ ledger = EmptyLedger
    /\ pc = [d \in Delivery |-> "idle"]
    /\ claimedAt = [d \in Delivery |-> 0]
    /\ healthy = [d \in Delivery |-> {}]
    /\ log = [d \in Delivery |-> <<>>]
    /\ attempted = [d \in Delivery |-> <<>>]
    /\ attempt = [d \in Delivery |-> 1]
    /\ invocation = [d \in Delivery |-> None]
    /\ answer = [d \in Delivery |-> None]
    /\ holder = [r \in Request |-> None]
    /\ unsealed = {}
-----------------------------------------------------------------------------
Goto(d, location) == pc' = [pc EXCEPT ![d] = location]
Say(d, reply) == answer' = [answer EXCEPT ![d] = reply]

Has(entries, kind) == \E i \in DOMAIN entries : entries[i].kind = kind

\* appendEntry refuses a run whose last entry closed it.
Closed(entries) ==
    /\ entries # <<>>
    /\ entries[Len(entries)].kind = "run-finished"

IsEligible(p, d) ==
    /\ ProcessingRegion[p] = TenantRegion[RequestOf[d]]
    /\ StorageRegion[p] = TenantRegion[RequestOf[d]]
    /\ RequestOf[d] \in NeedsZeroRetention => p \in ZeroRetention
    /\ p \in healthy[d]

\* Positions in the candidate list: `eligible' and `remaining' of selectProvider.
Eligible(d) == {i \in DOMAIN Candidates : IsEligible(Candidates[i], d)}

Attempted(d) == {attempted[d][i] : i \in DOMAIN attempted[d]}

\* Fault: a failover that widens the candidate set when it runs dry.
RemainingAnywhere(d) ==
    LET fresh(S) == {i \in S : Candidates[i] \notin Attempted(d)}
    IN  IF fresh(Eligible(d)) # {} THEN fresh(Eligible(d)) ELSE fresh(DOMAIN Candidates)

Remaining(d) == {i \in Eligible(d) : Candidates[i] \notin Attempted(d)}

\* The first remaining candidate, when there is one.
Routes(d, p) ==
    \E i \in Remaining(d) :
        /\ \A j \in Remaining(d) : i <= j
        /\ p = Candidates[i]

RefusalReason(d) ==
    IF Eligible(d) = {} THEN "no-eligible-in-region-provider"
                        ELSE "all-eligible-exhausted"
-----------------------------------------------------------------------------
\* Faults: slips in the actions below, kept to show which property notices
\* each.  An exhausted failover that is not refused; a retried call that is not
\* logged; a success recorded before its body is sealed; a failure that leaves
\* its claim open.
RefuseUnroutable(d) ==
    /\ pc[d] = "routing"
    /\ Eligible(d) = {}
    /\ Goto(d, "failing")
    /\ Say(d, [kind |-> "refused", reason |-> RefusalReason(d)])
    /\ UNCHANGED <<now, ledger, claimedAt, healthy, log, attempted, attempt,
                   invocation, holder, unsealed>>

InvokeModelLoggingOnce(d) ==
    /\ pc[d] = "routing"
    /\ ~Closed(log[d])
    /\ \E p \in Provider :
          /\ Routes(d, p)
          /\ log' = IF attempt[d] > 1 THEN log
                    ELSE [log EXCEPT ![d] =
                             Append(@, [kind |-> "model-invoked", provider |-> p])]
          /\ attempted' = [attempted EXCEPT ![d] = Append(@, p)]
          /\ Goto(d, "calling")
    /\ UNCHANGED <<now, ledger, claimedAt, healthy, attempt, invocation, answer,
                   holder, unsealed>>

CompleteThenSeal(d) ==
    /\ pc[d] = "closing"
    /\ ledger' = Completed(ledger, RequestOf[d],
                           [status |-> "succeeded", by |-> d])
    /\ Goto(d, "answered")
    /\ Say(d, [kind |-> "provider-failed", reason |-> "seal-failed"])
    /\ unsealed' = unsealed \cup {d}
    /\ UNCHANGED <<now, claimedAt, healthy, log, attempted, attempt, invocation,
                   holder>>

FailRunAbandoning(d) ==
    /\ pc[d] = "failing"
    /\ Goto(d, "answered")
    /\ UNCHANGED <<now, ledger, runVars, holder, unsealed>>
-----------------------------------------------------------------------------
\* A redelivery meets a live claim: it is told so and does nothing.
ClaimRefused(d) ==
    LET r == RequestOf[d] IN
    /\ pc[d] = "idle"
    /\ Answers(ledger, r, now)
    /\ Goto(d, "answered")
    /\ claimedAt' = [claimedAt EXCEPT ![d] = now]
    /\ Say(d, IF ledger[r].outcome = NoOutcome
                THEN [kind |-> "in-flight"]
                ELSE [kind |-> "already-served", outcome |-> ledger[r].outcome])
    /\ UNCHANGED <<now, ledger, healthy, log, attempted, attempt, invocation,
                   holder, unsealed>>

\* The claim is written before any other work.  A log that already opened the
\* run (a later turn of an agent run) is not opened a second time.
ClaimGranted(d) ==
    LET r == RequestOf[d] IN
    /\ pc[d] = "idle"
    /\ ~Answers(ledger, r, now)
    /\ ledger' = Claimed(ledger, r, now)
    /\ holder' = [holder EXCEPT ![r] = d]
    /\ claimedAt' = [claimedAt EXCEPT ![d] = now]
    /\ \E entries \in EarlierLogs, up \in HealthViews :
          /\ log' = [log EXCEPT ![d] = entries]
          /\ healthy' = [healthy EXCEPT ![d] = up]
          /\ Goto(d, IF Has(entries, "run-started") THEN "routing" ELSE "opening")
    /\ UNCHANGED <<now, attempted, attempt, invocation, answer, unsealed>>

\* openRun: the input is sealed, then the attribution entry is appended.
OpenRun(d) ==
    /\ pc[d] = "opening"
    /\ IF Closed(log[d])
         THEN /\ Goto(d, "answered")
              /\ Say(d, [kind |-> "provider-failed", reason |-> "run-already-finished"])
              /\ UNCHANGED log
         ELSE /\ Goto(d, "routing")
              /\ log' = [log EXCEPT ![d] = Append(@, [kind |-> "run-started"])]
              /\ UNCHANGED answer
    /\ UNCHANGED <<now, ledger, claimedAt, healthy, attempted, attempt,
                   invocation, holder, unsealed>>

\* The run ends here without completing the claim.
OpenRunUnsealed(d) ==
    /\ pc[d] = "opening"
    /\ Goto(d, "answered")
    /\ Say(d, [kind |-> "provider-failed", reason |-> "seal-failed"])
    /\ unsealed' = unsealed \cup {d}
    /\ UNCHANGED <<now, ledger, claimedAt, healthy, log, attempted, attempt,
                   invocation, holder>>
-----------------------------------------------------------------------------
\* attemptOnce up to its await.  The invocation is logged before the adapter is
\* looked up, and counts as attempted only once the adapter is found.
RefuseRoute(d) ==
    /\ pc[d] = "routing"
    /\ Remaining(d) = {}
    /\ Goto(d, "failing")
    /\ Say(d, [kind |-> "refused", reason |-> RefusalReason(d)])
    /\ UNCHANGED <<now, ledger, claimedAt, healthy, log, attempted, attempt,
                   invocation, holder, unsealed>>

RefuseClosedLog(d) ==
    /\ pc[d] = "routing"
    /\ Remaining(d) # {}
    /\ Closed(log[d])
    /\ Goto(d, "failing")
    /\ Say(d, [kind |-> "provider-failed", reason |-> "run-already-finished"])
    /\ UNCHANGED <<now, ledger, claimedAt, healthy, log, attempted, attempt,
                   invocation, holder, unsealed>>

InvokeModel(d) ==
    /\ pc[d] = "routing"
    /\ ~Closed(log[d])
    /\ \E p \in Provider :
          /\ Routes(d, p)
          /\ log' = [log EXCEPT ![d] =
                        Append(@, [kind |-> "model-invoked", provider |-> p])]
          /\ IF p \in Adapter
               THEN /\ attempted' = [attempted EXCEPT ![d] = Append(@, p)]
                    /\ Goto(d, "calling")
                    /\ UNCHANGED answer
               ELSE /\ Goto(d, "failing")
                    /\ Say(d, [kind |-> "provider-failed",
                               reason |-> "no-adapter-for-provider"])
                    /\ UNCHANGED attempted
    /\ UNCHANGED <<now, ledger, claimedAt, healthy, attempt, invocation, holder,
                   unsealed>>

\* attemptOnce after its await.  invocationSeq counts from zero.
ProviderServes(d) ==
    /\ pc[d] = "calling"
    /\ Goto(d, "closing")
    /\ invocation' = [invocation EXCEPT ![d] = Len(log[d]) - 1]
    /\ UNCHANGED <<now, ledger, claimedAt, healthy, log, attempted, attempt,
                   answer, holder, unsealed>>

ProviderRefuses(d) ==
    /\ pc[d] = "calling"
    /\ Goto(d, "failing")
    /\ Say(d, [kind |-> "provider-failed", reason |-> "not-transient"])
    /\ UNCHANGED <<now, ledger, claimedAt, healthy, log, attempted, attempt,
                   invocation, holder, unsealed>>

\* A timeout, an outage or a rate limit: nextRetry retries until the attempts
\* are used up.  The computed delay is not awaited.
ProviderFailsTransiently(d) ==
    /\ pc[d] = "calling"
    /\ IF attempt[d] >= MaxAttempts
         THEN /\ Goto(d, "failing")
              /\ Say(d, [kind |-> "provider-failed", reason |-> "attempts-exhausted"])
              /\ UNCHANGED attempt
         ELSE /\ Goto(d, "routing")
              /\ attempt' = [attempt EXCEPT ![d] = @ + 1]
              /\ UNCHANGED answer
    /\ UNCHANGED <<now, ledger, claimedAt, healthy, log, attempted, invocation,
                   holder, unsealed>>
-----------------------------------------------------------------------------
\* The provider whose response the delivery holds.
LastCalled(d) == attempted[d][Len(attempted[d])]

\* closeRun and failRun ignore what complete() returns.
CloseRun(d) ==
    /\ pc[d] = "closing"
    /\ log' = [log EXCEPT ![d] =
                  Append(@, [kind |-> "usage-recorded",
                             invocationSeq |-> invocation[d]])]
    /\ ledger' = Completed(ledger, RequestOf[d],
                           [status |-> "succeeded", by |-> d])
    /\ Goto(d, "answered")
    /\ Say(d, [kind |-> "served", provider |-> LastCalled(d)])
    /\ UNCHANGED <<now, claimedAt, healthy, attempted, attempt, invocation,
                   holder, unsealed>>

\* No usage entry and no outcome, although the provider was paid.
CloseRunUnsealed(d) ==
    /\ pc[d] = "closing"
    /\ Goto(d, "answered")
    /\ Say(d, [kind |-> "provider-failed", reason |-> "seal-failed"])
    /\ unsealed' = unsealed \cup {d}
    /\ UNCHANGED <<now, ledger, claimedAt, healthy, log, attempted, attempt,
                   invocation, holder>>

FailRun(d) ==
    /\ pc[d] = "failing"
    /\ ledger' = Completed(ledger, RequestOf[d], [status |-> "failed", by |-> d])
    /\ Goto(d, "answered")
    /\ UNCHANGED <<now, runVars, holder, unsealed>>

FailRunUnsealed(d) ==
    /\ pc[d] = "failing"
    /\ Goto(d, "answered")
    /\ unsealed' = unsealed \cup {d}
    /\ UNCHANGED <<now, ledger, runVars, holder>>
-----------------------------------------------------------------------------
\* The process serving d stops, or an adapter throws: the claim stays behind.
Die(d) ==
    /\ pc[d] \notin {"idle", "answered", "died"}
    /\ Goto(d, "died")
    /\ UNCHANGED <<now, ledger, runVars, holder, unsealed>>

SweepExpired ==
    /\ ledger' = Swept(ledger, now)
    /\ UNCHANGED <<now, pc, runVars, holder, unsealed>>

Tick ==
    /\ now < MaxTime
    /\ now' = now + 1
    /\ UNCHANGED <<ledger, pc, runVars, holder, unsealed>>

\* The steps of a delivery once it was claimed: nothing but its own process,
\* the key service and a provider with a deadline stands in their way.
Advance(d) ==
    \/ OpenRun(d) \/ OpenRunUnsealed(d)
    \/ RefuseRoute(d) \/ RefuseClosedLog(d) \/ InvokeModel(d)
    \/ ProviderServes(d) \/ ProviderRefuses(d) \/ ProviderFailsTransiently(d)
    \/ CloseRun(d) \/ CloseRunUnsealed(d)
    \/ FailRun(d) \/ FailRunUnsealed(d)

Next ==
    \/ \E d \in Delivery : ClaimRefused(d) \/ ClaimGranted(d) \/ Advance(d) \/ Die(d)
    \/ SweepExpired
    \/ Tick

Spec == Init /\ [][Next]_vars

FairSpec == Spec /\ \A d \in Delivery : WF_vars(Advance(d))
-----------------------------------------------------------------------------
\* Types, and nothing more.
TypeOK ==
    /\ now \in Nat
    /\ ledger \in Ledger
    /\ pc \in [Delivery -> Location]
    /\ claimedAt \in [Delivery -> Nat]
    /\ healthy \in [Delivery -> SUBSET Provider]
    /\ log \in [Delivery -> Seq(Entry)]
    /\ attempted \in [Delivery -> Seq(Provider)]
    /\ attempt \in [Delivery -> 1..MaxAttempts]
    /\ invocation \in [Delivery -> Nat \cup {None}]
    /\ answer \in [Delivery -> Answer \cup {None}]
    /\ holder \in [Request -> Delivery \cup {None}]
    /\ unsealed \subseteq Delivery

\* The delivery won its claim: the work of the request is, or was, its to do.
Won(d) ==
    /\ pc[d] # "idle"
    /\ answer[d] # None => answer[d].kind \notin {"in-flight", "already-served"}

\* A provider answered, and will bill, this delivery.
Billed(d) == invocation[d] # None

\* However deliveries, crashes, sweeps and expiries interleave, two deliveries of
\* one request that were both answered by a provider, and so billed, made their
\* claims at least a claim's lifetime apart: one claim's window has one billed
\* holder (executeOnce's comment).  The claims, not the answers: an execution that
\* outlives its claim may be answered when its successor is.
OneBillPerWindow ==
    \A d, e \in Delivery :
        /\ d # e /\ RequestOf[d] = RequestOf[e]
        /\ Billed(d) /\ Billed(e)
        => \/ claimedAt[d] + ClaimTtl <= claimedAt[e]
           \/ claimedAt[e] + ClaimTtl <= claimedAt[d]

\* A provider outside the tenant's region, or without the retention terms the
\* request needs, is never called on any attempt, and none is called twice.
FailoverStaysInRegion ==
    \A d \in Delivery :
        /\ \A p \in Attempted(d) :
              /\ ProcessingRegion[p] = TenantRegion[RequestOf[d]]
              /\ StorageRegion[p] = TenantRegion[RequestOf[d]]
              /\ RequestOf[d] \in NeedsZeroRetention => p \in ZeroRetention
        /\ \A i, j \in DOMAIN attempted[d] :
              attempted[d][i] = attempted[d][j] => i = j

\* The providers a log names as called, in order.
Naming(providers, e) ==
    IF e.kind = "model-invoked" THEN Append(providers, e.provider) ELSE providers

Named(entries) == FoldLeft(Naming, <<>>, entries)

\* After the log it began with, the log of a delivery names every provider it
\* called, in order; an invocation logged without a call is the last one and ends
\* in the missing-adapter failure.
LogNamesEveryCall ==
    \A d \in Delivery : \E earlier \in {<<>>} \cup EarlierLogs :
        /\ IsPrefix(earlier, log[d])
        /\ \/ Named(log[d]) = Named(earlier) \o attempted[d]
           \/ /\ answer[d] = [kind |-> "provider-failed",
                              reason |-> "no-adapter-for-provider"]
              /\ \E p \in Provider \ Adapter :
                    Named(log[d]) = Append(Named(earlier) \o attempted[d], p)

\* A served run's log ends in a usage entry that points at the invocation of
\* the provider whose response is returned, whatever failed before it.
UsageNamesTheServingProvider ==
    \A d \in Delivery :
        answer[d] # None /\ answer[d].kind = "served" =>
            LET usage == log[d][Len(log[d])] IN
            /\ usage.kind = "usage-recorded"
            /\ log[d][usage.invocationSeq + 1] =
                   [kind |-> "model-invoked", provider |-> answer[d].provider]

\* The log tells what was called and whom the usage is owed to.
LogTellsTheCalls == LogNamesEveryCall /\ UsageNamesTheServingProvider

\* A recorded outcome is that of the execution holding the claim, unless an
\* execution outlived its own claim and completed its successor's row.
OutcomeOfHolderOrOverrun ==
    \A r \in Request :
        ledger[r] # NoClaim /\ ledger[r].outcome # NoOutcome =>
            LET by == ledger[r].outcome.by IN
            \/ by = holder[r]
            \/ claimedAt[by] + ClaimTtl <= ledger[r].claimedAt

\* A redelivery told "already-served" is told what an execution of that very
\* request ended with, after it ended.
AlreadyServedIsReal ==
    \A d \in Delivery :
        answer[d] # None /\ answer[d].kind = "already-served" =>
            LET e == answer[d].outcome.by IN
            /\ RequestOf[e] = RequestOf[d]
            /\ pc[e] = "answered"
            /\ answer[d].outcome.status = "succeeded" <=> answer[e].kind = "served"

Held(d) == ledger[RequestOf[d]] # NoClaim /\ holder[RequestOf[d]] = d

\* An opened run that ended without a crash or a failed seal has left its claim
\* answered: no redelivery waits out the TTL for a run that is over.
EndedRunSettlesItsClaim ==
    \A d \in Delivery :
        /\ pc[d] = "answered" /\ Won(d) /\ Held(d)
        /\ Has(log[d], "run-started")
        /\ d \notin unsealed
        => ledger[RequestOf[d]].outcome # NoOutcome

\* A step that changes the outcome of a live row replaces or leaves there that
\* of an execution which outlived its own claim.
ReplacesByOverrunOnly ==
    \A r \in Request :
        /\ Answers(ledger, r, now)
        /\ ledger[r].outcome # NoOutcome
        /\ ledger'[r] # ledger[r]
        => \E d \in {ledger[r].outcome.by, ledger'[r].outcome.by} :
              claimedAt[d] + ClaimTtl <= ledger[r].claimedAt

\* Inside a claim's window the first recorded outcome stands, unless one of the
\* two outcomes is that of an execution that outlived its own claim.
FirstOutcomeStands == [][ReplacesByOverrunOnly]_vars

\* Every delivery that started ends: with an answer, or with its process.
EveryDeliveryEnds ==
    \A d \in Delivery : pc[d] # "idle" ~> pc[d] \in {"answered", "died"}
=============================================================================
