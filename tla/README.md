# Custodian: a TLA+ verification project

Models, model-checking runs and machine-checked proofs for the parts of Custodian
whose correctness is a matter of order, failure and time: the gateway that serves a
completion once, the approval queue that lets an action through or not, the key custody
that makes erasure true, the evidence store that keeps a run's log and what is read out
of it, the agent loop that writes it, the tools it acts with, the vector index that
forgets what was erased, the retention schedule, and the channel on which a run is
watched. Paths below are relative to the repository.

- [The system](#the-system) — components, state, operations, hard behaviour
- [Modules](#modules) — what models what
- [Runs](#runs) — what TLC checks, within which bounds, under which fairness
- [Proofs](#proofs) — what TLAPS proves for every instance
- [Where code and documentation disagree](#where-code-and-documentation-disagree)
- [Not modelled](#not-modelled) and [the plan](#plan)

## The system

One Bun process serves `POST /runs`; several may share the SQLite files and the Vault.
All concurrency is between the awaits of one process, and between processes that share
a file. Each component is a directory of `src/`.

| Component | State | Operations | Interacts with | What is hard |
|---|---|---|---|---|
| `serving` | claims table (durable), per-call attempts and log (memory) | `claim`, `complete`, `sweepExpired`, `serveCompletion` = open, attempt up to four times, close or fail | `custody` to seal, `evidence` to append, model providers | redeliveries racing a claim, an execution outliving its claim, providers failing in any order, seals failing at each of three points, crashes |
| `governance` | `reviews` table (durable) | `request` (enqueue and poll), `open`, `approve`, `reject`, `queue`, `disposeExpired` | `agent` asks, consoles answer | decisions racing the expiry and each other, a hold re-opened between check and write, crashes that leave pending rows |
| `custody` | Vault keys (external), deletion registry (durable), `#ensured` (memory) | `seal`, `unseal`, `destroySubjectKey`, `expireBucket`, `runErasure` | every store seals through it | each operation is several remote calls, any of which may be lost, refused or falsely acknowledged |
| `evidence` | hash-chained run logs, disposed runs (durable) | `appendEntry`, `append`, `read`, `disposeExpiredRuns`, timeline, spans, metering, reconciliation, redaction by month | `serving` and `agent` append, invoices and a ledger to compare with | replays, forks, disposal against a run that comes back; readings that must not contradict each other; periods that are shorter than the bucket they destroy |
| `agent` | a run's log, loop counters, observations (memory); workspaces of files | `runAgent` = serve a turn, parse, approve, run a tool, persist; the tools `read_file`, `write_file`, `fetch_url`, `render_page`, `run_shell` | all of the above, hosts, a browser, docker | a log that is durable only at the end of a turn, a tool that acted before a failure, redirects and page requests, a program that ends in several ways at once |
| `knowledge` | vector index (durable), memory entries | `upsert`, `query` (drops what was erased), compaction, tenant claims, chunking | `custody` to unseal | a query awaits between reading rows and dropping them |
| `surfaces` | subscriptions, sequence numbers (memory) | upgrade, message, `announce`, the parsers of both sides | viewers | publication is fire-and-forget; gaps are the viewer's to notice; two tenants may have a run of the same id |
| `primitives` | none | branded identifiers, `Result`, the retention schedule | all | boundaries of retention periods |

### What makes each correct

- **serving**: of two billed deliveries of a request the claims are a claim's lifetime apart
  (an execution that outlives its claim may still be answered beside its successor); a
  redelivery is told only what an execution of its request really ended with; failover never
  leaves the tenant's region or retention terms; the log names every provider called and the
  usage entry the one that answered; every delivery ends, and a run that ended without a
  crash or a failed seal leaves its claim answered.
- **governance**: nothing outside the fast lane proceeds without a person's approval; an
  approval was in its holder's hands for the lane's floor, before the deadline; the
  requester acts on what the table says; a closed review stays closed; a hold is not stolen;
  every requester is answered.
- **custody**: a signed proof of destruction is true; an outage is never reported as an
  erasure; only an admitted erasure makes a subject's content unreadable; the first proof of
  a destruction is the one that is kept.
- **evidence**: what can be read as data is the beginning of what one caller wrote; two
  callers that disagree about a run are never merged; a sweep does not bury a run that
  decayed; a history only grows, loses its end, or is gone for good.
- **evidence, what is read**: the readings of a log agree with each other and with every
  later one as long as the log verifies; damage to any entry but the last, which nothing
  follows, is located; reconciliation alerts exactly when one of three sources slipped, and
  names it; redaction destroys a whole month, and none before its time.
- **agent**: a crash loses one turn at most; what the caller is told is what the record
  shows; the loop stops at its limits on turns, on cost and on tool calls that did not
  succeed; text the rail withheld does not reach the model and what does is on record; an
  effect a tool owned up to is durable before the next turn is planned.
- **tools**: no host is asked that the tenant is not allowed, however a call came to it; a
  path whose segments decode to one name each stays in the workspace of its tenant (of the
  others see [below](#where-code-and-documentation-disagree)); what a receipt or a failure
  reports is what happened.
- **surfaces**: a viewer sees runs of its own tenant that it asked for, as they were
  announced or not at all, and is in no doubt about what it watches.
- **knowledge**: after the next search an erased document is neither found nor kept; an
  outage of the custodian deletes nothing; a tenant is served its own text only.

## Modules

| Module | Models |
|---|---|
| `IdempotencyLedger` | `serving/infrastructure/sqlite-idempotency-store.ts`: the claims table as a function, each `BEGIN IMMEDIATE` transaction as one operator. The in-memory store has the same operations. |
| `ServeCompletion` | `serving/application/serve-completion.ts` with `select-provider.ts`, `retry-policy.ts` and `appendEntry`. One action per stretch between two awaits; `pc` says where a delivery is. Extends `IdempotencyLedger`. |
| `ReviewVerdict` | The abstract gate: a review gets at most one verdict and its requester is told what it means for its lane. |
| `ApprovalGate` | `governance/infrastructure/sqlite-approval-gate.ts` with `decision-lane.ts`. One action per SQL statement or per read-and-decide; implements `ReviewVerdict`. |
| `KeyCustody` | `custody/infrastructure/envelope-subject-key-store.ts`, `vault-transit-key-custodian.ts`, `sqlite-deletion-registry.ts`, `domain/erasure-workflow.ts`. One action per Vault call. |
| `RunLogStore` | The rows of one run and what one transaction of `evidence/infrastructure/sqlite-execution-log-store.ts` does with them, with `domain/append-entry.ts` and `domain/verify-run-log.ts`. Used by the next and by `AgentRun`. |
| `AppendOnlyLog` | The abstract history of a run: it grows, loses its end, or is gone for good. |
| `EvidenceStore` | Callers, their logs, the sweep and the decay of rows around `RunLogStore`; implements `AppendOnlyLog`. |
| `AgentRun` | `agent/application/run-agent.ts` with `tool-step.ts`, `run-log.ts`, `progress.ts`, `agent-run.ts`, `domain/loop-controls.ts`, `domain/retrieval-rail.ts`. One action per stretch between two awaits. |
| `VectorIndex` | `knowledge/infrastructure/sqlite-vector-index.ts` under `agent/infrastructure/kb-search-tool.ts`, with the seeding of `agent/main.ts`. |
| `RunTimeline` | What is read out of a log, as operators: `evidence/domain/run-timeline.ts`, `verify-run-log.ts`, `price-completion.ts`, `application/project-run-timeline.ts`, `meter-events-from-log.ts`, `spans-from-run.ts`. |
| `CostReconciliation` | A run logged, billed and posted, with one slip or one damaged row, and `evidence/domain/reconcile.ts` over it. Extends `RunTimeline`. |
| `Retention` | `primitives/domain/retention-schedule.ts`, `retention-bucket-for.ts`, `evidence/application/redact-expired-content.ts`, `serving/infrastructure/in-memory-response-cache.ts`. |
| `Toolbox` | `agent/infrastructure/file-tools.ts`, `web-fetch-tool.ts`, `egress-proxy.ts`, `docker-browser-tool.ts`, `docker-code-executor.ts`, `shell-tool.ts`, `agent-toolset.ts` with `domain/url-policy.ts`, `workspace-path.ts`. |
| `StateChannel` | `surfaces/infrastructure/agent-state-channel.ts` with `domain/state-frame.ts`, `parse-agent-state.ts`, `wire-value.ts`, `viewer-request.ts`, `state-topic.ts`. |
| `ServeCompletionProofs`, `ApprovalGateProofs`, `KeyCustodyProofs`, `EvidenceStoreProofs`, `VectorIndexProofs`, `RecordProofs`, `StateChannelProofs`, `AgentProofs` | Theorems and their proofs. `AgentProofs` is about `AgentRun` and `Toolbox`, `RecordProofs` about `CostReconciliation` and `Retention`; the second of each has a specification of another name (`ToolsSpec`, `RetentionSpec`) for that reason. |
| `MCServe`, `MCApprovalGate`, `MCKeyCustody`, `MCEvidenceStore`, `MCAgentRun`, `MCVectorIndex`, `MCCostReconciliation`, `MCRetention`, `MCToolbox`, `MCStateChannel` | Instances for TLC. |

**ServeCompletion.** `claim` is atomic, so `ClaimGranted`/`ClaimRefused` are single
steps; what follows runs in one process and dies with it (`Die`, which is also what an
adapter that throws does to a delivery). `OpenRun`, `CloseRun` and `FailRun` end in a
seal, which either succeeds or takes the matching `...Unsealed` action. `attemptOnce` is
cut at its only await, the provider's answer: `InvokeModel` before it, `ProviderServes`,
`ProviderRefuses` and `ProviderFailsTransiently` after it. The backoff that `nextRetry`
computes is not awaited by the code and so takes no step. A log is a sequence of entries
reduced to what the properties read. `holder` (who wrote a row) and `unsealed` (whose
seal failed) are history variables.

`complete()` is awaited but its failure is ignored, so closing is one step with the
ledger write: between the seal and the write only a crash could intervene, and that is
`Die` one step earlier.

**ApprovalGate.** SQLite serialises statements, not sequences of them. A console's
`approve` is therefore two actions: `ClickApprove` reads the row and the clock, and
`Decide` or `DecideTooLate` is the guarded UPDATE later; `PollOverdue` and
`ExpireAndReread` split the requester's loop in the same way. The second read of
`request` is in one action with the expiry because no statement changes a decided row
between them short of its disposal two years later. `queue()` and a gate constructed
after a crash both run `ExpireOverdue`. `RequestUnanswerable` is the absent gate and the
unreadable timestamp. `settled` is a history variable: the first terminal state.

**KeyCustody.** A Vault key has a generation, counted up each time its name is created
anew; a wrapped data key opens only under the generation that wrapped it. Every call has
the outcomes "not performed, no answer", "performed, no answer" and "performed,
answered"; DELETE may also be acknowledged without being performed, which the custodian's
own tests exercise (`tests/custody/vault-transit-key-custodian.test.ts:164`). DELETE of a
missing key may be acknowledged, as the repository's fake does. A wrapped key is what the
store wrote: that one which decayed there is refused by Vault with the 400 that a destroyed
key is refused with, and so read as an erasure, is outside the model. The registry's two-year
disposal happens at any time nobody is working on the key (`DisposeProof`).

**EvidenceStore.** A caller holds a log of its own, extends it (`AppendEntry`) and hands
over all of it (`Store`), as often as it likes: a replay of what is stored is accepted and
changes nothing, a rewind or a fork is refused, and both are stutters. A log as long as the
stored run is accepted without comparison, as `validateAppend` does. A hash is modelled as
the history it commits to, so that two hashes are equal exactly when what they commit to is;
collisions are assumed away. `AlterRow`, `LoseRow` and `LoseTail` are what the medium may
do: an edit changes a row's body and leaves its recorded hash; an edit of the hash, with the
body or alone, is not modelled here (`CostReconciliation` has the first); nor is JSON that
does not parse, which reads as an edited body does. The last row can go missing only as a
truncation, which is why the abstract history may lose its end. `DisposeExpiredRuns`
disposes in one transaction of every run that is due and verifies.

**AgentRun.** `pc` names the await a run is at; `log` is in memory, `rows` is what the
store holds, and `Crash` keeps only the latter. A served turn appends what
`ServeCompletion` shows a turn to append (one `model-invoked` per call, one usage entry);
the approval gate answers as `ReviewVerdict` lets it; the store is `RunLogStore`,
instantiated on the entries of a run. `world` and `reported` are history variables: the
effects that happened outside, and those a tool's receipt owned up to. The limit on steps without
progress is a guard of the model (`Halting`) and no part of `StopsAtItsLimits`: which steps made
progress cannot be told from the log. A tool that acts
may fail with or without a receipt. The rail's classifiers are the ones `main.ts`
composes, and a chunk is `poisoned` when they say so. `main.ts` composes no approval
gate, so in that composition a tool that acts is always denied; the model has the gate.

**VectorIndex.** The table is one file, shared by every process; the texts are a map in
each process's memory, filled at boot. `QueryReads` takes a snapshot, `Unseal` is one
await per row, `Drop` is one DELETE, by document id alone; the file may fail either
statement (`FileFails`). Between any two of them other processes boot, seal and upsert,
keys are destroyed and created again, rows decay, a tenant is dropped. A sealed row is
identified by the boot that sealed it and the generation of the key that wrapped it. The
order of scores is left open: any `TopK` of the rows that opened may be the best. `gone`
is a history variable: the rows nobody could open when the query read them.

**RunTimeline and CostReconciliation.** The readings are pure, so they are operators over a
log; `CostReconciliation` supplies every log of bounded length, one entry at a time, and
what is derived is checked in each state and from each state to the next. What the code
lists by its order in the log (rows, settlements, meter events) is indexed here by its place
in the log. While it is
written the run is billed: the provider's invoice dates a charge, the internal ledger
posts it, and one of the three sources may slip once (a run that ends unrecorded or a stray
settlement, a posting lost or doubled, a charge misdated: what `reconcile.ts` lists as
causes). A row may be edited or lost afterwards. Sealed content is
known by its subject, hashes as in `EvidenceStore`. Amounts are integers. Bounds of a period
are instants with a spelling, because `reconcile` compares them as strings.

**Retention.** Days are numbers and a month is `DaysInMonth` of them. The steps on keys are
atomic here, as those of the in-memory custodian are; how they interleave over Vault is
`KeyCustody`'s subject. Nothing in the repository calls the redaction or composes the
response cache, so the calls come in any order and with any day.

**Toolbox.** A call has a phase per await; two calls of any tenants interleave over one disk
and one composition, which is chosen at the start (isolation and development mode decide
which tools are offered at all). Hosts answer with any redirect, DNS with any address, a
page requests any URL, a program ends in any combination of the ways it can, the file system
fails where it may. A path is the segments it is split into, each the sequence of names it
holds once decoded, because `safePath` splits first, decodes after, and judges a segment as
a whole (`workspace-path.ts:58-71`); `Place` is what the file system then makes of the names
one by one, as the name sequence below the base directory. A path that leaves the base and
comes back into it by its own name is taken to have left it. Whether a place is a directory
or a file is decided by what was made there. A receipt of a write names the path as it was
given (`file-tools.ts:144`). That every request of a page goes through the proxy is assumed:
`egress-proxy.ts:9` says that the container has no other route, which the arguments of
`docker-browser-tool.ts:126` leave to the network docker is set up with. `requests`,
`reached`, `lookups`, `did` and `program` are history variables: what really happened,
against which the receipt is held.

**StateChannel.** The server object of Bun is external: a publication queues or drops a frame
for each subscriber by itself, since `announce` does not look at what became of it; a
connection delivers in order. A run announces any of a set of scripts, with states that are
well-formed, malformed and empty. What a viewer's program does with sequence numbers is what
`state-frame.ts` provides them for. `asked` and `rendered` are history variables.

Operators marked *Fault* in every module are slips kept beside the code they imitate, to
show which property notices them; no specification uses them.

## Runs

| Run | Instance | Shows |
|---|---|---|
| `serve` | 2 deliveries of one request, 5 providers (one abroad, one without zero retention, one without an adapter), several health snapshots and earlier logs, 2 attempts, TTL 2 ticks, clock to 3; fair | claims of billed deliveries a TTL apart, outcomes of holders or overruns, honest redeliveries, settled claims, residency of failover, what the log says, that a delivery ends |
| `approval` | 2 reviews in 2 lanes, 3 consoles of 2 reviewers, clock to 4; fair | fail-safe denial, considered approvals, requesters act on the row, holds kept, every requester is answered; the queue refines `ReviewVerdict` |
| `custody` | 1 sealer, 2 erasures and 1 bucket expiry under one identifier, 1 reader, 2 key generations | signed proofs are true, unsealing is truthful, only erasure erases, the first proof stands |
| `evidence_store` | 2 callers of one run, logs of 3, retention 2, clock to 3; callers symmetric | reads are genuine, forks are not merged, decay is not buried; the store refines `AppendOnlyLog` |
| `agent_run` | 3 turns, 3 tools (retrieving, acting, unlisted), idle limit 2, ceiling 4, costs and attempts 1 or 2 | what a crash loses, that the record is what is told, the limits, the rail, the effects |
| `vector_index` | 2 processes of 2 tenants with 2 documents of the same ids, 1 author, 3 boots, 2 key generations, 1 search | erasure reaches the index, outages cost nothing, texts stay with their tenant |
| `vector_stale_drop` | the same | a query deletes a row it never read (expected violation) |
| `run_costs` | logs of up to 5 entries over 2 instants, 2 models with different prices, every slip, every edited or lost row | spans tell the states, the readings of a log that verifies agree, damage to all but the last entry is located, reconciliation finds the slip, a timeline only extends |
| `retention` | 2-day months, a content period of 1 day and a cache period of 2, 5 days, 2 cached prompts | redaction keeps to the schedule, cached answers are current |
| `retention_early` | the same, 1 cached prompt | content is redacted before its own period is over (expected violation) |
| `state_channel` | 1 viewer of either of 2 tenants, 2 runs, 6 scripts with states of all seven kinds, 3 announcements, 2 messages | viewers see their own runs, frames arrive as announced, no request is dropped in silence |
| `toolbox` | 2 calls of 2 tenants (one without an egress entry), 3 hosts, 7 paths, 5 URLs, 2 redirects; calls symmetric | only allowed hosts are asked, reports are true, plain paths keep workspaces separate |

**Bounds.** *Serving.* Two deliveries are a holder and either a redelivery inside its window
or a successor that claims after the holder's TTL while the holder still runs; a clock to 3
holds a window of two and the beginning of the next. The log a delivery is given, and so its
`earlier` entries, is any of four, not one per delivery. The candidate list holds each
reason to be passed over, two providers that may be used, and one without an adapter; with
two attempts both "attempts exhausted" and "candidates exhausted" occur. A third delivery is
the proofs' matter. *Approval.* Two tabs of one reviewer are what re-opening between read
and write takes, and a colleague is what stealing a hold takes. SLA and floor leave an
instant before, at and after each boundary; `Slack` lets a write or a poll be late by a
tick. `Retention` exceeds twice the slack, as 730 days exceed a 50 ms poll and a 5 s busy
timeout: a row is not disposed of under a requester that polls. *Custody.* Two generations
are a key, its destruction and its re-creation; the subject and the bucket share an
identifier on purpose, so that only the name prefixes keep them apart. One process; several
are the proofs' matter. *Evidence.* Two callers are a fork; three entries are a first, a
middle and a last row, each of which can decay; the clock passes the retention of entries
made at two different times. *Agent.* Three turns let a second one follow an effect and a
third be refused; the ceiling can be met exactly and overshot; the idle limit is reached
before and after the tool acted. *Vector.* One search suffices, since a second one deletes
only what the first may; three boots are the seeding of two tenants and a re-seeding after
an erasure; with `TopK` 1 of two documents a match can be cut off. *Costs.* Five entries are
a start, two calls with their usage or one with two settlements, a failure and its recovery,
an end; two instants put a charge into or out of a period on either side. *Retention.* A
period shorter than the month, as 30 days are shorter than a month of 31, and a key created
again after a redaction. *Channel.* Two messages are a watch and an unwatch, or a request
and one that cannot be read; three announcements are a gap in the middle; the second tenant
has the same run id. *Tools.* A redirect chain longer than the limit; a path that climbs
out, into the other tenant's workspace, one that climbs only inside, and one of a single
segment that decodes to several names; two calls that write one file.

**Fairness.** *Serving:* weak fairness of a delivery's own steps. Nothing else stands in
their way: a provider call has a 60 s deadline (`xai-model-provider.ts`), a Vault call 10 s
(`main.ts`); a crash remains possible, and ends the delivery too. *Approval:* weak fairness
of the clock, of a live requester's loop (it wakes up every 50 ms) and of a console's
pending write; none of reviewers. *The other modules:* safety only. That the agent's loop
ends needs no fairness argument of its own: every turn is metered and `StopsAtItsLimits`
bounds the turns.

`CHECK_DEADLOCK FALSE` is set throughout: each instance stops when its clock, its
deliveries or its key generations are used up.

## Proofs

All theorems hold for every value of the constants that satisfies the module's named
assumption (`LedgerAssumption`, `ServeAssumption`, `GateAssumption`, `CustodyAssumption`,
`RowAssumption`, `StoreAssumption`, `IndexAssumption`, `RetentionAssumption`,
`ChannelAssumption`, `RunAssumption`, `ToolboxAssumption`, `TimelineAssumption`,
`ReconciliationAssumption`), and `SlipIsFound` for prices above the tolerance: any number of
deliveries, requests, providers, reviews, lanes, consoles, processes, subjects, runs,
callers, entries, searches, tenants, documents, keys, viewers, tools, turns, hosts, paths
and calls, any TTL, SLA, floor, limit, period and length of a month.

**ServeCompletionProofs.** `TypeCorrect`, `BilledOnce`, `Residency`, `RedeliveryTruth`,
`Overrun`, `FirstStands`, `NothingLeftOpen`, `UsageIsOwed`, `CallsAreTold`. The safety
properties are not inductive alone. The invariant `IInv` adds, to the types: `Phase` (what
each program location implies of the delivery's attempts, answer and invocation),
`RowIsLatest` (a row was written at its holder's claim time and every earlier winner's
window was over then), `WindowsDisjoint` (two winners of one request are a TTL apart: what
makes billing once follow from claiming once), `OutcomeIsReal` (a recorded outcome is that
of an execution that has ended with it). `FirstStands` is an action property proved from the
same invariant: an outcome changes only through `Completed`, whose caller has either the row
or an expired claim. `NothingLeftOpen` is inductive beside `IInv`: the step that ends an
opened run completes the row if its execution holds it, later steps of others only write
outcomes into it, and a new claim takes the hold away. `UsageIsOwed` rests on what `Phase`
says of a delivery about to close: its last entry is the invocation it is answered by.
`CallsAreTold` is about `Named`, a fold over a log of any length. The folds of the community
modules are a `CHOOSE` of a recursive function; `Reads` is what that function satisfies,
there is one by induction over the length (`ReadsExists`), and it reads a beginning of a log
as it reads the whole (`ReadsAgree`), from which `NamedFacts` says what one entry more adds.
The induction is `SetInduction`, over the set of the numbers a claim holds of, from the
well-foundedness of `<` on the naturals: the library's own induction takes the claim as an
operator.

**ApprovalGateProofs.** `TypeCorrect`, `FailsSafe`, `ConsiderationFloor`,
`ActsOnTheRow`, `ClosedForGood`, `HeldForGood`, and `Refinement`: the queue implements
`ReviewVerdict`. `IInv` says, per review: a closed row is settled as it reads, a told
requester was told the verdict's meaning, the row's times are ordered, an approval was
considered, a live requester's row cannot have been disposed of yet; and per console: a
pending click was taken from a presentation that is, or was, in the row. The timing part
is what the refinement needs, for a requester whose row vanished would tell itself
"timed out" about a review somebody decided; it rests on `EnqueueLag <= Slack` and
`2 * Slack < Retention`.

**KeyCustodyProofs.** `TypeCorrect`, `ProofsAreTrue`, `ReadersAreToldTheTruth`,
`ExpirySparesSubjects`, `FirstProof`. Keys only age: a name is created again under a new
generation, so a data key that cannot be opened never can be. `IInv` adds to the types that
content is written under generations its keys have had (`SealInv`), that a key in the hands
of a destroyer is that of an admitted subject (`AdmittedInv`), that the key of a subject
nobody was admitted to erase is the first of its name or is to be (`FirstKeyInv`, which is
what `ExpirySparesSubjects` needs and why the prefixes of names matter), that what a
destroyer saw gone is out of reach (`ProofInv`), and that the registry holds proofs of those
who signed them (`RegistryInv`). Any number of processes, each with its own `#ensured`.

**EvidenceStoreProofs.** `TypeCorrect`, `Genuine`, `NotMerged`, `NotBuried`, and
`AppendOnly`: the store implements `AppendOnlyLog`. `IInv` says, per run: a disposed run
has no rows; the rows are `Chained`, each was made from one history, which is the one the
tail row's hash commits to, however many of them were edited or lost since; and that
history is the beginning of the log of some caller. Genuineness needs all three: a reader
sees rows that verify, `Chained` turns them into a history, and the third part into
somebody's words. The lemmas say what an append, an edit, a loss and a truncation make of
a chained run.

**VectorIndexProofs.** `TypeCorrect`, `ErasureReachesIndex`, `OwnText`,
`OutageDropsNothing`. That a query's answer is free of dead rows is not inductive: between
its reading and its answer other processes write the same rows. `IInv` adds what rules a
return out. Everything sealed names a boot and a generation that have been (`Known`), and
generations only go up, so a row that is dead stays dead; a boot writes each of its rows
once, so what it has yet to write is neither in the table nor among the rows found dead
(`Fresh`); and the row in the place of a dead one is not that row undamaged
(`NotRestored`). `OwnText` rests on `TextsKeyed`, a text lies under its owner's tenant and
document, and on `TableInv`, a row lies under its writer's tenant; `OutageDropsNothing` on
the rows set aside being dead.

**RecordProofs, the schedule.** `TypeCorrect`, `OnSchedule`, `CacheIsCurrent`. `IInv` adds
that content was sealed in the past and under a generation its bucket's key has had, that a
live key has been created, and that a proof is not dated ahead of the clock (`PastInv`); and
that the cache holds current answers only (`CacheInv`). With it a key created again after a
redaction opens nothing sealed before.

**RecordProofs, the readings.** `DamageIsLocated`, `StatesAreTold`, `SlipIsFound`,
`ReadingsAreSound`, `LaterReadingsExtend`, for logs of any length, any events, models,
prices and periods. `LogInv`: what was written is `Chained`, and what is read is that or
differs by one edit or loss. A log that verifies is one that was written, but for its last
entry (`VerifiedIsKept`); `Kept` is what the cost lemmas need of it: numbers by place, and
settlements that name entries before them. *Damage:* a hash commits to the whole entry and
the entry after it to the hash, so an edit shows at the entry, or, its hash recomputed, at
the next; a lost row leaves a gap in the numbers; only the last entry has nobody behind it
to tell (`EditLocated`, `LossLocated`). *Spans:* an induction over the entries the fold has
read, with `Tells` as the claim: the recovery flag is what the last tool call says
(`RecoveryStep`), and the spans so far name the states so far (`ToldStep`); it needs rising
sequence numbers and an end that is last, which a damaged log still has (`LogIsReadable`).
*Reconciliation:* `BooksInv` compares the three sums over every period at once, `Balanced`:
equal, or one source further from the others than the tolerance, where the source is the one
that slipped at just one instant of the period. One instant more or fewer changes a sum by
one cost (`SumMore`, `MeteredMore`). `ReconcileTells` then goes through the pairs of the
three totals, in whatever order they come. The theorem assumes `CallsCost`, that every call
costs more than the tolerance: a call that is free, or within it, leaves no trace in any
sum, so nothing could be found. `DEFAULT_TOLERANCE` is 0, and the run's prices satisfy it.
*Costs:* `CallsInv` says what a log was written of: a settlement names an entry before it,
and when that one is a call it costs what the model of the call charges. The settlements
fall into those of each call and those of none (`RowFacts`), so the rows and the rest add up
to the total, two windows that meet to the meter's, and the replay to the rows (`RowsAddUp`,
`WindowsAddUp`, `ReplayAgrees`); none of it depends on prices or tolerance. *Later
readings:* an entry more leaves the closed spans alone and moves at most the end of the open
one (`SpansGrow`); what settled a call settles it still, and what names no call now names
none later, because it names an entry before it (`CostGrows`).

Sums over finite sets are a library of their own in that module. `SumFunction` is the
`CHOOSE` of a recursive function that takes the elements in an order nobody knows; `AddsPick`
shows, by induction over the size of the set, that any order gives the same sum, and from it
follow the sum over one element more (`SumFacts`), over two sets apart (`SumSplit`), over a
larger set (`SumGrows`) and over the parts of a set (`SumNested`).

**StateChannelProofs.** `TypeCorrect`, `OwnRuns`, `NoneDropped`, `AsAnnounced`. What a
connection listens to is not determined by its last request but by all of them, so the
invariant goes through the history of requests: those of an open connection are handled in
the order they were sent, and its subscriptions are what the last handled request for each
run says (`Heard`). What is on its way to a connection was announced under its tenant, and
for a run it asked for (`Queued`); what it rendered likewise (`Seen`); announcements carry
their place (`Numbered`). Nothing is assumed about which frames arrive. `AsAnnounced` adds
that what a viewer rendered is, frame by frame, what was announced under its number, read
back: what it needs of the wire is that parsing what was written gives the state that was
announced, for each of the seven kinds and each of their optional fields set or not, but for
a queue position that is not a number, which arrives as not set. It says nothing of the
order frames are rendered in. `ChannelAssumption` says that the scripts hold values of the
type `AgentState`, which is what the code's own type says of what `announce` is given.

**AgentProofs, the loop.** `TypeCorrect`, `OneTurnIsLost`, `WhatIsToldIsRecorded`,
`LoopStops`, `OnlyAdmittedIsShown`, `EffectsAreOnRecord`, from
`IInv == TypeOK /\ Stored /\ OneTurn /\ Ends /\ Limited /\ RailHolds /\ Owned`. `Stored`: the
rows say what the beginning of the log says, and between turns they say all of it, which is
what makes a loss one turn's. `OneTurn`: of what the store misses at most one entry is a
charge and at most one a tool call, and none is a tool call while a turn has yet to run its
tool; without that clause a turn could add a second one. `Ends`: a log has no end before
the run has one, and what a closing run is about to tell is what it is about to record.
`Limited`: the turns and the cost the loop counts are the charges in the log and their sum,
one further inside a turn, so that the guards of the loop are guards on the log. `Owned`:
what a tool owned up to is in the log, except between the tool's answer and its entry, where
it is in the answer. The cost of a log and what the rail admits of a retrieval are folds,
treated as in `ServeCompletionProofs`, with the fold as a parameter of `Reads`.

**AgentProofs, the tools.** `ToolsInductive`, `OnlyAllowedHosts`, `ReportsAreTrue`,
`WorkspacesStaySeparate`. Calls share only the disk, so the invariant is one of a single
call, `SoundCall`, for each of them, with what is read being there (`ReadsFiles`). `Within`
is what is asked, of the pending requests of a page too, since those may be forwarded when
the call is over; `Asking` holds a call that is about to ask to an allowed target; `Bounded`
and `Counted` tie the number of requests to the hop, and the last of them to the host the
receipt will name. `Underway` says what a call has done at each of its awaits, which is what
makes a failure at that await honest; `ReportsAreTrue` must also survive the proxy finding
more to refuse after the receipt was written, and does since a receipt counts at most what
was refused. `WorkspacesStaySeparate` is an action property: a write changes one place,
where its path leads, and the place of a plain path begins with the tenant's namespace
(`Housed`): resolving it leaves proper names only (`PlainResolve`), among which the file
system does not climb (`PlainStaysHome`), each by induction over the segments. Of the other
paths nothing of the kind holds, and nothing is claimed.

**Checked by TLC only.** `EveryDeliveryEnds` and `EveryRequestResolves`: liveness under
fairness is out of the prover's reach. Every other property of a passing run is a theorem.

## Where code and documentation disagree

Shown by a run:

1. A vector query deletes by document id after it awaited the unsealing of every row, so
   it may delete a row indexed meanwhile that can be opened (`vector_stale_drop`), though
   `sqlite-vector-index.ts:104` deletes because a row can never become readable again.
2. The redaction checks the period of the one day it is given and destroys the key of that
   day's month, so content of the rest of the month goes before its own period is over
   (`retention_early`), though `redact-expired-content.ts:19` says content is retained 30
   days and then redacted. Later redactions of such a month find a proof and destroy
   nothing.

Met while modelling, and part of the models as the code has it:

- `safePath` splits a path before it decodes its parts (`workspace-path.ts:58-59`) and takes a
  part that decodes to several names for one, so its answer may lie outside the root, though
  `workspace-path.ts:43` calls it a path that provably never rose above the root and
  `tests/agent/workspace-path.test.ts:11` says traversal is refused however it is spelled.
  `toolbox` has such a path in its bounds, and `WorkspacesAreSeparate` excepts it by name: with
  the premise `Plain` left out of that property TLC finds a call that leaves its
  tenant's workspace. Decoding the whole path before splitting it would make code and comment
  agree.
- A log that lost its last entry verifies, and so does one whose last entry was edited and
  hashed anew, though `verify-run-log.ts:15` calls a mutated payload and a deleted entry
  detectable and `tests/evidence/verify-run-log.test.ts:73` deletes a middle one;
  `sqlite-execution-log-store.ts:31` names the limit. `IntegrityLocatesTheDamage` excepts the
  last entry, and `ReadingIsSound` claims of such a log only that its readings agree.
- A failed seal leaves a claim in flight for its TTL, though `serve-completion.ts:231` says
  a terminal failure completes the claim. `EndedRunSettlesItsClaim` excepts it.
- A second erasure after the subject was sealed for again is answered with the first proof
  and destroys nothing, though `README.md:68` says destroying a subject key reaches every
  store at once. `SignedProofIsTrue` claims the signer's destruction only.
- A run that acted and then halts tells its user that nothing was changed on their behalf
  (`agent-run.ts:84`); `tool.ts:26` says such a message has to answer from the committed
  effects.
- A fetch that was redirected reports the answering host only, and one that fails after a
  hop reports none, although requests were sent (`web-fetch-tool.ts:107`).
- A viewer notices a gap by the next frame (`state-frame.ts:20`), so the loss of a run's last
  frame is never noticed.
- A queue position that is not a number arrives as not set, since JSON has no form for it.
- `spans-from-run.ts:6` says the two readings of a run cannot disagree; usage that points at
  no invocation is in the timeline's total and in no span.
- `reconcile` compares the bounds of periods as strings (`reconcile.ts:85`), the totals were
  cut by instants: the same instant spelled in two ways is not comparable.
- `main.ts` prices are fractions of a micro (`main.ts:132`), so sums made in different orders
  may differ in their last bit; the models use integers.
- `complete()` writes by key only, so an execution that outlives its 24 h claim writes into
  its successor's row: `OutcomeOfHolderOrOverrun` names the case.
- Of two overlapping erasures one returns a proof the registry does not keep;
  `FirstProofStands` and `SignedProofIsTrue` hold all the same.

## Not modelled

- *Interfaces and boot*: parsing of the environment, routing of requests and rendering in
  `agent/main.ts` and `agent/interface`. What `main.ts` composes is modelled where it matters
  (the sweep in `ServeCompletion`, the seeding in `VectorIndex`, the prices in
  `RunTimeline`).
- *Pure functions of one argument list*: the statistics of governance (`pass-caret`,
  `judge-calibration`, `rubber-stamp`), deployments, prompt snapshots and review briefs;
  compaction, chunking, recall and tenant claims of `knowledge`. Their unit tests reach every
  branch and nothing interleaves with them.
- *Parts nothing composes*: stream journal, signed events, agent cards, the budget, and
  `executeOnce`, whose protocol is that of `serveCompletion`.
- *Mathematics taken as given*: signatures, hashing, encryption and embedding.
- *Text*: the copy and the vocabulary of `surfaces`.
- `docker/`, `scripts/`, CI.

One of the hazards listed in `PROJECT.json` has no property: a process whose `#ensured`
names a key that another process destroyed, or that was created and never made deletable.
What it costs is the availability of sealing or of a later erasure, which would be a
liveness property of several processes and the Vault.

## Plan

What was planned is built. What would come next, in order:

1. `AgentRun` implements `AppendOnlyLog` with the rows of its run, step by step.
2. The availability of an erasure with several processes: a second host in `MCKeyCustody`,
   fairness of Vault's answers, and a property that relates `#ensured` to deletable keys.
3. `AgentRun` composed with `ApprovalGate` and `ServeCompletion` in place of their promises.
4. Compaction and recall as operators, checked against reference definitions.
