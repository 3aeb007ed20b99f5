----------------------- MODULE ServeCompletionProofs -----------------------
(***************************************************************************)
(* What the gateway keeps for every set of deliveries, requests and        *)
(* providers, every claim lifetime and every number of attempts.           *)
(*                                                                         *)
(* The inductive invariant has three parts besides the types: what each    *)
(* location says of the delivery there (Phase), what a claim row says of   *)
(* the executions of its request (RowIsLatest), and the disjointness of    *)
(* claim windows that follows from it (WindowsDisjoint).                   *)
(***************************************************************************)
EXTENDS ServeCompletion, WellFoundedInduction, TLAPS

LastInvocation(d) ==
    /\ log[d] # <<>> /\ attempted[d] # <<>>
    /\ log[d][Len(log[d])] = [kind |-> "model-invoked",
                              provider |-> attempted[d][Len(attempted[d])]]

PhaseOf(d) ==
    /\ pc[d] = "idle" => /\ invocation[d] = None
                         /\ attempted[d] = <<>>
                         /\ log[d] = <<>>
    /\ pc[d] \in {"idle", "opening", "routing", "calling", "closing"} => answer[d] = None
    /\ pc[d] = "opening" => ~Has(log[d], "run-started")
    /\ pc[d] = "failing" => answer[d] \in Rejection
    /\ pc[d] = "answered" => answer[d] # None
    /\ pc[d] = "calling" => LastInvocation(d)
    /\ pc[d] = "closing" => LastInvocation(d) /\ invocation[d] = Len(log[d]) - 1
    /\ Billed(d) => Won(d)

Phase == \A d \in Delivery : PhaseOf(d)

\* A row is the claim of the latest execution of its request, which is its
\* holder; every other execution's claim has run out.
RowIsLatest ==
    /\ \A d \in Delivery :
          Won(d) =>
            /\ claimedAt[d] <= now
            /\ \/ claimedAt[d] + ClaimTtl <= now
               \/ /\ ledger[RequestOf[d]] # NoClaim
                  /\ holder[RequestOf[d]] = d
    /\ \A r \in Request :
          ledger[r] # NoClaim =>
            /\ holder[r] \in Delivery
            /\ RequestOf[holder[r]] = r
            /\ Won(holder[r])
            /\ ledger[r].claimedAt = claimedAt[holder[r]]
            /\ ledger[r].expiresAt = ledger[r].claimedAt + ClaimTtl
            /\ \A d \in Delivery :
                  Won(d) /\ RequestOf[d] = r => claimedAt[d] <= ledger[r].claimedAt

WindowsDisjoint ==
    \A d, e \in Delivery :
        d # e /\ RequestOf[d] = RequestOf[e] /\ Won(d) /\ Won(e) =>
            \/ claimedAt[d] + ClaimTtl <= claimedAt[e]
            \/ claimedAt[e] + ClaimTtl <= claimedAt[d]

\* An outcome on a row is what an ended execution of the request answered.
OutcomeIsReal ==
    \A r \in Request :
        ledger[r] # NoClaim /\ ledger[r].outcome # NoOutcome =>
            LET by == ledger[r].outcome.by IN
            /\ Won(by)
            /\ RequestOf[by] = r
            /\ pc[by] = "answered"
            /\ ledger[r].outcome.status = "succeeded" <=> answer[by].kind = "served"

IInv ==
    /\ TypeOK /\ Phase
    /\ RowIsLatest /\ WindowsDisjoint
    /\ OutcomeIsReal /\ AlreadyServedIsReal
    /\ FailoverStaysInRegion
-----------------------------------------------------------------------------
(* The transactions of the ledger keep the table a table.                  *)

\* claim() writes a well-formed row with no outcome.
LEMMA ClaimedType ==
    ASSUME NEW table \in Ledger, NEW r \in Request, NEW at \in Nat
    PROVE  Claimed(table, r, at) \in Ledger
  BY LedgerAssumption DEF Claimed, Ledger, Row

\* complete() keeps a well-formed row well formed.
LEMMA CompletedType ==
    ASSUME NEW table \in Ledger, NEW r \in Request, NEW outcome \in Outcome
    PROVE  Completed(table, r, outcome) \in Ledger
  BY LedgerAssumption DEF Completed, Ledger, Row

\* The sweep only removes rows.
LEMMA SweptType ==
    ASSUME NEW table \in Ledger, NEW at \in Nat
    PROVE  Swept(table, at) \in Ledger
  BY LedgerAssumption DEF Swept, Ledger
-----------------------------------------------------------------------------
\* What the steps append to a log is an entry.
LEMMA EntryTypes ==
    /\ [kind |-> "run-started"] \in Entry
    /\ \A p \in Provider : [kind |-> "model-invoked", provider |-> p] \in Entry
    /\ \A n \in Nat : [kind |-> "usage-recorded", invocationSeq |-> n] \in Entry
  BY DEF Entry

\* What the steps end a run with is a rejection.
LEMMA RejectionTypes ==
    /\ \A d \in Delivery : [kind |-> "refused", reason |-> RefusalReason(d)] \in Rejection
    /\ \A why \in {"seal-failed", "run-already-finished", "not-transient",
                    "attempts-exhausted", "no-adapter-for-provider"} :
          [kind |-> "provider-failed", reason |-> why] \in Rejection
    /\ Rejection \subseteq Answer
  BY DEF Rejection, Answer, RefusalReason

\* A rejection is an answer, and not the answer of a redelivery.
LEMMA RejectionFacts ==
    /\ None \notin Answer /\ None \notin Nat
    /\ \A x \in Rejection : x # None /\ x.kind \in {"refused", "provider-failed"}
<1>1. None \notin Answer /\ None \notin Nat
  BY ServeAssumption
<1>2. \A x \in Rejection : x \in Answer /\ x.kind \in {"refused", "provider-failed"}
  BY DEF Rejection, Answer
<1> QED BY <1>1, <1>2

\* Appending keeps a sequence of the same elements, one longer.
LEMMA AppendFacts ==
    ASSUME NEW S, NEW s \in Seq(S), NEW e \in S
    PROVE  /\ Append(s, e) \in Seq(S)
           /\ Len(s) \in Nat
           /\ Len(Append(s, e)) = Len(s) + 1
           /\ Append(s, e) # <<>>
           /\ Append(s, e)[Len(s) + 1] = e
           /\ \A i \in 1..Len(s) : Append(s, e)[i] = s[i]
  OBVIOUS

\* What is appended is last.
LEMMA LastOfAppend ==
    \A S : \A s \in Seq(S), e \in S :
        LET t == Append(s, e) IN t # <<>> /\ t[Len(t)] = e
<1> SUFFICES ASSUME NEW S, NEW s \in Seq(S), NEW e \in S
             PROVE  LET t == Append(s, e) IN t # <<>> /\ t[Len(t)] = e
  OBVIOUS
<1> QED BY AppendFacts

\* What a redelivery is told is an answer.
LEMMA RedeliveryAnswer ==
    ASSUME TypeOK, NEW d \in Delivery, Answers(ledger, RequestOf[d], now)
    PROVE  (IF ledger[RequestOf[d]].outcome = NoOutcome
              THEN [kind |-> "in-flight"]
              ELSE [kind |-> "already-served",
                    outcome |-> ledger[RequestOf[d]].outcome]) \in Answer
<1>1. ledger[RequestOf[d]] \in Row
  BY ServeAssumption DEF Answers, Ledger, TypeOK
<1>2. ledger[RequestOf[d]].outcome # NoOutcome => ledger[RequestOf[d]].outcome \in Outcome
  BY <1>1 DEF Row
<1> QED BY <1>2 DEF Answer

\* No step of a delivery, the sweep or the clock leaves the types.
LEMMA TypeStep == TypeOK /\ Phase /\ [Next]_vars => TypeOK'
<1> SUFFICES ASSUME TypeOK, Phase, [Next]_vars PROVE TypeOK'
  OBVIOUS
<1> USE DEF TypeOK, Location, Goto, Say
<1>1. ASSUME NEW d \in Delivery, ClaimRefused(d) PROVE TypeOK'
  BY <1>1, RedeliveryAnswer DEF ClaimRefused
<1>2. ASSUME NEW d \in Delivery, ClaimGranted(d) PROVE TypeOK'
  <2>1. ledger' \in Ledger
    BY <1>2, ClaimedType, ServeAssumption DEF ClaimGranted
  <2>2. \E entries \in Seq(Entry), up \in SUBSET Provider :
           /\ log' = [log EXCEPT ![d] = entries]
           /\ healthy' = [healthy EXCEPT ![d] = up]
           /\ Goto(d, IF Has(entries, "run-started") THEN "routing" ELSE "opening")
    BY <1>2, ServeAssumption DEF ClaimGranted
  <2>3. log' \in [Delivery -> Seq(Entry)] /\ healthy' \in [Delivery -> SUBSET Provider]
    BY <2>2
  <2>4. pc' \in [Delivery -> Location]
    BY <2>2
  <2> QED BY <1>2, <2>1, <2>3, <2>4 DEF ClaimGranted
<1>3. ASSUME NEW d \in Delivery, OpenRun(d) PROVE TypeOK'
  <2>1. log' \in [Delivery -> Seq(Entry)]
    <3>1. Append(log[d], [kind |-> "run-started"]) \in Seq(Entry)
      BY EntryTypes
    <3> QED BY <1>3, <3>1 DEF OpenRun
  <2>2. answer' \in [Delivery -> Answer \cup {None}]
    BY <1>3, RejectionTypes DEF OpenRun
  <2> QED BY <1>3, <2>1, <2>2 DEF OpenRun
<1>4. ASSUME NEW d \in Delivery, OpenRunUnsealed(d) PROVE TypeOK'
  BY <1>4, RejectionTypes DEF OpenRunUnsealed
<1>5. ASSUME NEW d \in Delivery, RefuseRoute(d) PROVE TypeOK'
  BY <1>5, RejectionTypes DEF RefuseRoute
<1>6. ASSUME NEW d \in Delivery, RefuseClosedLog(d) PROVE TypeOK'
  BY <1>6, RejectionTypes DEF RefuseClosedLog
<1>7. ASSUME NEW d \in Delivery, InvokeModel(d) PROVE TypeOK'
  <2>1. PICK p \in Provider :
           /\ log' = [log EXCEPT ![d] = Append(@, [kind |-> "model-invoked", provider |-> p])]
           /\ \/ /\ attempted' = [attempted EXCEPT ![d] = Append(@, p)]
                 /\ Goto(d, "calling")
                 /\ UNCHANGED answer
              \/ /\ Goto(d, "failing")
                 /\ Say(d, [kind |-> "provider-failed", reason |-> "no-adapter-for-provider"])
                 /\ UNCHANGED attempted
    BY <1>7 DEF InvokeModel
  <2>2. log' \in [Delivery -> Seq(Entry)]
    BY <2>1, EntryTypes, AppendFacts
  <2>3. attempted' \in [Delivery -> Seq(Provider)]
    <3>1. Append(attempted[d], p) \in Seq(Provider)
      OBVIOUS
    <3> QED BY <2>1, <3>1
  <2>4. answer' \in [Delivery -> Answer \cup {None}]
    BY <2>1, RejectionTypes
  <2>5. pc' \in [Delivery -> Location]
    BY <2>1
  <2> QED BY <1>7, <2>2, <2>3, <2>4, <2>5 DEF InvokeModel
<1>8. ASSUME NEW d \in Delivery, ProviderServes(d) PROVE TypeOK'
  <2>1. log[d] \in Seq(Entry) /\ log[d] # <<>>
    BY <1>8 DEF ProviderServes, Phase, PhaseOf, LastInvocation
  <2>2. Len(log[d]) - 1 \in Nat
    BY <2>1
  <2> QED BY <1>8, <2>2 DEF ProviderServes
<1>9. ASSUME NEW d \in Delivery, ProviderRefuses(d) PROVE TypeOK'
  BY <1>9, RejectionTypes DEF ProviderRefuses
<1>10. ASSUME NEW d \in Delivery, ProviderFailsTransiently(d) PROVE TypeOK'
  <2>1. attempt' \in [Delivery -> 1..MaxAttempts]
    <3>1. attempt[d] \in 1..MaxAttempts /\ MaxAttempts \in Nat
      BY ServeAssumption
    <3>2. attempt[d] < MaxAttempts => attempt[d] + 1 \in 1..MaxAttempts
      BY <3>1
    <3>3. CASE attempt[d] >= MaxAttempts
      BY <1>10, <3>3 DEF ProviderFailsTransiently
    <3>4. CASE ~(attempt[d] >= MaxAttempts)
      <4>1. attempt' = [attempt EXCEPT ![d] = attempt[d] + 1]
        BY <1>10, <3>4 DEF ProviderFailsTransiently
      <4> QED BY <3>1, <3>2, <3>4, <4>1
    <3> QED BY <3>3, <3>4
  <2>2. answer' \in [Delivery -> Answer \cup {None}]
    BY <1>10, RejectionTypes DEF ProviderFailsTransiently
  <2> QED BY <1>10, <2>1, <2>2 DEF ProviderFailsTransiently
<1>11. ASSUME NEW d \in Delivery, CloseRun(d) PROVE TypeOK'
  <2>1. ledger' \in Ledger
    BY <1>11, CompletedType, ServeAssumption DEF CloseRun, Outcome
  <2>2. /\ attempted[d] \in Seq(Provider) /\ attempted[d] # <<>>
        /\ log[d] \in Seq(Entry) /\ log[d] # <<>>
        /\ invocation[d] = Len(log[d]) - 1
    BY <1>11 DEF CloseRun, Phase, PhaseOf, LastInvocation
  <2>3. LastCalled(d) \in Provider /\ invocation[d] \in Nat
    BY <2>2 DEF LastCalled
  <2>4. log' \in [Delivery -> Seq(Entry)]
    BY <1>11, <2>3, EntryTypes, AppendFacts DEF CloseRun
  <2>5. answer' \in [Delivery -> Answer \cup {None}]
    BY <1>11, <2>3 DEF CloseRun, Answer
  <2> QED BY <1>11, <2>1, <2>4, <2>5 DEF CloseRun
<1>12. ASSUME NEW d \in Delivery, CloseRunUnsealed(d) PROVE TypeOK'
  BY <1>12, RejectionTypes DEF CloseRunUnsealed
<1>13. ASSUME NEW d \in Delivery, FailRun(d) PROVE TypeOK'
  <2>1. ledger' \in Ledger
    BY <1>13, CompletedType, ServeAssumption DEF FailRun, Outcome
  <2> QED BY <1>13, <2>1 DEF FailRun, runVars
<1>14. ASSUME NEW d \in Delivery, FailRunUnsealed(d) PROVE TypeOK'
  BY <1>14 DEF FailRunUnsealed, runVars
<1>15. ASSUME NEW d \in Delivery, Die(d) PROVE TypeOK'
  BY <1>15 DEF Die, runVars
<1>16. ASSUME SweepExpired PROVE TypeOK'
  BY <1>16, SweptType DEF SweepExpired, runVars
<1>17. ASSUME Tick PROVE TypeOK'
  BY <1>17 DEF Tick, runVars
<1>18. ASSUME UNCHANGED vars PROVE TypeOK'
  BY <1>18 DEF vars, runVars
<1> QED
  BY <1>1, <1>2, <1>3, <1>4, <1>5, <1>6, <1>7, <1>8, <1>9, <1>10, <1>11, <1>12,
     <1>13, <1>14, <1>15, <1>16, <1>17, <1>18 DEF Next, Advance
-----------------------------------------------------------------------------
(* Phase is a conjunction over deliveries, and a step moves one of them.   *)

\* A step leaves every delivery but its own as it was.
LEMMA OthersUnmoved ==
    ASSUME TypeOK, NEW d \in Delivery, NEW e \in Delivery \ {d},
           ClaimRefused(d) \/ ClaimGranted(d) \/ Advance(d) \/ Die(d)
    PROVE  /\ pc'[e] = pc[e]
           /\ claimedAt'[e] = claimedAt[e]
           /\ healthy'[e] = healthy[e]
           /\ log'[e] = log[e]
           /\ attempted'[e] = attempted[e]
           /\ invocation'[e] = invocation[e]
           /\ answer'[e] = answer[e]
           /\ e \in unsealed' <=> e \in unsealed
<1> USE DEF TypeOK, Goto, Say
<1>1. CASE ClaimRefused(d)
  BY <1>1 DEF ClaimRefused
<1>2. CASE ClaimGranted(d)
  BY <1>2 DEF ClaimGranted
<1>3. CASE OpenRun(d)
  BY <1>3 DEF OpenRun
<1>4. CASE OpenRunUnsealed(d)
  BY <1>4 DEF OpenRunUnsealed
<1>5. CASE RefuseRoute(d)
  BY <1>5 DEF RefuseRoute
<1>6. CASE RefuseClosedLog(d)
  BY <1>6 DEF RefuseClosedLog
<1>7. CASE InvokeModel(d)
  BY <1>7 DEF InvokeModel
<1>8. CASE ProviderServes(d)
  BY <1>8 DEF ProviderServes
<1>9. CASE ProviderRefuses(d)
  BY <1>9 DEF ProviderRefuses
<1>10. CASE ProviderFailsTransiently(d)
  BY <1>10 DEF ProviderFailsTransiently
<1>11. CASE CloseRun(d)
  BY <1>11 DEF CloseRun
<1>12. CASE CloseRunUnsealed(d)
  BY <1>12 DEF CloseRunUnsealed
<1>13. CASE FailRun(d)
  BY <1>13 DEF FailRun, runVars
<1>14. CASE FailRunUnsealed(d)
  BY <1>14 DEF FailRunUnsealed, runVars
<1>15. CASE Die(d)
  BY <1>15 DEF Die, runVars
<1> QED
  BY <1>1, <1>2, <1>3, <1>4, <1>5, <1>6, <1>7, <1>8, <1>9, <1>10, <1>11, <1>12,
     <1>13, <1>14, <1>15 DEF Advance

\* Each location's facts hold whenever a delivery arrives there.
LEMMA PhaseStep == TypeOK /\ Phase /\ [Next]_vars => Phase'
<1> SUFFICES ASSUME TypeOK, Phase, [Next]_vars PROVE Phase'
  OBVIOUS
<1>0. ASSUME NEW d \in Delivery,
             ClaimRefused(d) \/ ClaimGranted(d) \/ Advance(d) \/ Die(d),
             PhaseOf(d)'
      PROVE  Phase'
  BY <1>0, OthersUnmoved DEF Phase, PhaseOf, LastInvocation, Billed, Won, Has
<1> USE DEF TypeOK, PhaseOf, Goto, Say, LastInvocation, Billed, Won
<1>1. ASSUME NEW d \in Delivery, ClaimRefused(d) PROVE PhaseOf(d)'
  <2>1. /\ pc[d] = "idle" /\ pc'[d] = "answered"
        /\ invocation'[d] = None
        /\ answer'[d] = IF ledger[RequestOf[d]].outcome = NoOutcome
                          THEN [kind |-> "in-flight"]
                          ELSE [kind |-> "already-served",
                                outcome |-> ledger[RequestOf[d]].outcome]
    BY <1>1 DEF ClaimRefused, Phase
  <2>2. answer'[d] # None
    <3>1. answer'[d] \in Answer
      BY <1>1, <2>1, RedeliveryAnswer DEF ClaimRefused
    <3> QED BY <3>1, RejectionFacts
  <2> QED BY <2>1, <2>2
<1>2. ASSUME NEW d \in Delivery, ClaimGranted(d) PROVE PhaseOf(d)'
  BY <1>2 DEF ClaimGranted, Phase, Has
<1>3. ASSUME NEW d \in Delivery, OpenRun(d) PROVE PhaseOf(d)'
  <2>1. CASE Closed(log[d])
    <3>1. pc'[d] = "answered" /\ answer'[d] \in Rejection /\ invocation'[d] = invocation[d]
      BY <1>3, <2>1, RejectionTypes DEF OpenRun
    <3> QED BY <3>1, RejectionFacts
  <2>2. CASE ~Closed(log[d])
    <3>1. pc[d] = "opening" /\ answer[d] = None
      BY <1>3 DEF OpenRun, Phase
    <3>2. pc'[d] = "routing" /\ answer'[d] = answer[d] /\ invocation'[d] = invocation[d]
      BY <1>3, <2>2 DEF OpenRun
    <3> QED BY <3>1, <3>2
  <2> QED BY <2>1, <2>2
<1>4. ASSUME NEW d \in Delivery, OpenRunUnsealed(d) PROVE PhaseOf(d)'
  <2>1. pc'[d] = "answered" /\ answer'[d] \in Rejection
    BY <1>4, RejectionTypes DEF OpenRunUnsealed
  <2> QED BY <2>1, RejectionFacts
<1>5. ASSUME NEW d \in Delivery, RefuseRoute(d) PROVE PhaseOf(d)'
  BY <1>5, RejectionTypes DEF RefuseRoute, Phase
<1>6. ASSUME NEW d \in Delivery, RefuseClosedLog(d) PROVE PhaseOf(d)'
  BY <1>6, RejectionTypes DEF RefuseClosedLog, Phase
<1>7. ASSUME NEW d \in Delivery, InvokeModel(d) PROVE PhaseOf(d)'
  <2>1. PICK p \in Provider :
           /\ log'[d] = Append(log[d], [kind |-> "model-invoked", provider |-> p])
           /\ \/ /\ attempted'[d] = Append(attempted[d], p)
                 /\ pc'[d] = "calling"
                 /\ answer'[d] = answer[d]
              \/ /\ pc'[d] = "failing"
                 /\ answer'[d] = [kind |-> "provider-failed",
                                  reason |-> "no-adapter-for-provider"]
    BY <1>7 DEF InvokeModel
  <2>2. answer[d] = None /\ invocation'[d] = invocation[d]
    BY <1>7 DEF InvokeModel, Phase
  <2>3. CASE pc'[d] = "calling"
    <3>1. attempted'[d] = Append(attempted[d], p)
      BY <2>1, <2>3
    <3>2. log[d] \in Seq(Entry) /\ attempted[d] \in Seq(Provider)
      OBVIOUS
    <3>3. LastInvocation(d)'
      <4>1. /\ log'[d] # <<>> /\ attempted'[d] # <<>>
            /\ log'[d][Len(log'[d])] = [kind |-> "model-invoked", provider |-> p]
            /\ attempted'[d][Len(attempted'[d])] = p
        <5> DEFINE e == [kind |-> "model-invoked", provider |-> p]
        <5>1. e \in Entry /\ log'[d] = Append(log[d], e)
          BY <2>1, EntryTypes
        <5> HIDE DEF e
        <5>2. log'[d] # <<>> /\ log'[d][Len(log'[d])] = e
          <6>1. Append(log[d], e) # <<>> /\ Append(log[d], e)[Len(Append(log[d], e))] = e
            <7>1. log[d] \in Seq(Entry) /\ e \in Entry
              BY <3>2, <5>1
            <7> QED BY <7>1, LastOfAppend
          <6> QED BY <5>1, <6>1
        <5>3. attempted'[d] # <<>> /\ attempted'[d][Len(attempted'[d])] = p
          <6>1. /\ Append(attempted[d], p) # <<>>
                /\ Append(attempted[d], p)[Len(Append(attempted[d], p))] = p
            BY <3>2, LastOfAppend
          <6> QED BY <3>1, <6>1
        <5> QED BY <5>2, <5>3 DEF e
      <4> QED BY <4>1
    <3> QED BY <2>1, <2>2, <2>3, <3>3
  <2>4. CASE pc'[d] = "failing"
    BY <2>1, <2>2, <2>4, RejectionTypes, RejectionFacts
  <2> QED BY <2>1, <2>3, <2>4
<1>8. ASSUME NEW d \in Delivery, ProviderServes(d) PROVE PhaseOf(d)'
  BY <1>8 DEF ProviderServes, Phase
<1>9. ASSUME NEW d \in Delivery, ProviderRefuses(d) PROVE PhaseOf(d)'
  BY <1>9, RejectionTypes DEF ProviderRefuses, Phase
<1>10. ASSUME NEW d \in Delivery, ProviderFailsTransiently(d) PROVE PhaseOf(d)'
  BY <1>10, RejectionTypes DEF ProviderFailsTransiently, Phase
<1>11. ASSUME NEW d \in Delivery, CloseRun(d) PROVE PhaseOf(d)'
  <2>1. /\ pc'[d] = "answered"
        /\ answer'[d] = [kind |-> "served", provider |-> LastCalled(d)]
    BY <1>11 DEF CloseRun
  <2>2. answer'[d] # None
    <3>1. attempted[d] \in Seq(Provider) /\ attempted[d] # <<>>
      BY <1>11 DEF CloseRun, Phase
    <3>2. LastCalled(d) \in Provider
      BY <3>1 DEF LastCalled
    <3>3. answer'[d] \in Answer
      BY <2>1, <3>2 DEF Answer
    <3> QED BY <3>3, RejectionFacts
  <2> QED BY <2>1, <2>2
<1>12. ASSUME NEW d \in Delivery, CloseRunUnsealed(d) PROVE PhaseOf(d)'
  <2>1. pc'[d] = "answered" /\ answer'[d] \in Rejection
    BY <1>12, RejectionTypes DEF CloseRunUnsealed
  <2> QED BY <2>1, RejectionFacts
<1>13. ASSUME NEW d \in Delivery, FailRun(d) PROVE PhaseOf(d)'
  <2>1. pc'[d] = "answered" /\ answer'[d] \in Rejection /\ invocation'[d] = invocation[d]
    BY <1>13 DEF FailRun, runVars, Phase
  <2> QED BY <2>1, RejectionFacts
<1>14. ASSUME NEW d \in Delivery, FailRunUnsealed(d) PROVE PhaseOf(d)'
  <2>1. pc'[d] = "answered" /\ answer'[d] \in Rejection /\ invocation'[d] = invocation[d]
    BY <1>14 DEF FailRunUnsealed, runVars, Phase
  <2> QED BY <2>1, RejectionFacts
<1>15. ASSUME NEW d \in Delivery, Die(d) PROVE PhaseOf(d)'
  BY <1>15 DEF Die, runVars, Phase
<1>16. CASE SweepExpired
  BY <1>16 DEF SweepExpired, runVars, Phase
<1>17. CASE Tick
  BY <1>17 DEF Tick, runVars, Phase
<1>18. CASE UNCHANGED vars
  BY <1>18 DEF vars, runVars, Phase
<1> QED
  BY <1>0, <1>1, <1>2, <1>3, <1>4, <1>5, <1>6, <1>7, <1>8, <1>9, <1>10, <1>11, <1>12,
     <1>13, <1>14, <1>15, <1>16, <1>17, <1>18 DEF Next, Advance

\* The first state is well formed.
LEMMA InitTypes == Init => TypeOK /\ Phase
<1> SUFFICES ASSUME Init PROVE TypeOK /\ Phase
  OBVIOUS
<1>1. ledger \in Ledger
  BY DEF Init, EmptyLedger, Ledger
<1>2. log \in [Delivery -> Seq(Entry)] /\ attempted \in [Delivery -> Seq(Provider)]
  BY DEF Init
<1>3. attempt \in [Delivery -> 1..MaxAttempts]
  BY ServeAssumption DEF Init
<1>4. TypeOK
  BY <1>1, <1>2, <1>3 DEF Init, TypeOK, Location
<1>5. Phase
  BY DEF Init, Phase, PhaseOf, Billed
<1> QED BY <1>4, <1>5

\* Types: whatever the interleaving, the table, the logs and the answers are
\* those the code can write.
THEOREM TypeCorrect == Spec => []TypeOK
<1>1. TypeOK /\ Phase /\ [Next]_vars => (TypeOK /\ Phase)'
  BY TypeStep, PhaseStep
<1> QED BY <1>1, InitTypes, PTL DEF Spec
-----------------------------------------------------------------------------
(* Claim windows.  A step of an execution leaves who won what as it was,   *)
(* and touches the table only by completing the row of its request.        *)

\* complete() changes the outcome of one row and nothing else.
LEMMA CompletedFacts ==
    ASSUME NEW table \in Ledger, NEW q \in Request, NEW o \in Outcome,
           NEW r \in Request
    PROVE  /\ Completed(table, q, o)[r] = NoClaim <=> table[r] = NoClaim
           /\ table[r] # NoClaim =>
                /\ Completed(table, q, o)[r].claimedAt = table[r].claimedAt
                /\ Completed(table, q, o)[r].expiresAt = table[r].expiresAt
                /\ Completed(table, q, o)[r].outcome =
                      IF r = q THEN o ELSE table[r].outcome
<1>1. CASE table[q] = NoClaim
  BY <1>1 DEF Completed
<1>2. CASE table[q] # NoClaim
  <2>1. table[q] \in Row /\ NoClaim \notin Row
    BY <1>2, LedgerAssumption DEF Ledger
  <2>2. [table[q] EXCEPT !.outcome = o] \in Row
    BY <2>1 DEF Row
  <2>3. Completed(table, q, o) = [table EXCEPT ![q] = [table[q] EXCEPT !.outcome = o]]
    BY <1>2 DEF Completed
  <2>4. /\ [table[q] EXCEPT !.outcome = o].claimedAt = table[q].claimedAt
        /\ [table[q] EXCEPT !.outcome = o].expiresAt = table[q].expiresAt
        /\ [table[q] EXCEPT !.outcome = o].outcome = o
    BY <2>1 DEF Row
  <2>5. CASE r = q
    BY <1>2, <2>1, <2>2, <2>3, <2>4, <2>5 DEF Ledger
  <2>6. CASE r # q
    BY <2>3, <2>6 DEF Ledger
  <2> QED BY <2>5, <2>6
<1> QED BY <1>1, <1>2

\* A delivery that moves after its claim had won it, and stays its winner.
LEMMA AdvanceKeepsWon ==
    ASSUME TypeOK, Phase, NEW d \in Delivery, Advance(d) \/ Die(d)
    PROVE  /\ Won(d) /\ pc[d] # "answered"
           /\ now' = now /\ claimedAt' = claimedAt /\ holder' = holder
           /\ \A e \in Delivery : Won(e)' <=> Won(e)
<1>1. pc[d] \notin {"idle", "answered", "died"}
  BY DEF Advance, OpenRun, OpenRunUnsealed, RefuseRoute, RefuseClosedLog, InvokeModel,
     ProviderServes, ProviderRefuses, ProviderFailsTransiently, CloseRun,
     CloseRunUnsealed, FailRun, FailRunUnsealed, Die
<1>2. answer[d] = None \/ answer[d] \in Rejection
  BY <1>1 DEF Phase, PhaseOf, TypeOK, Location
<1>3. Won(d)
  BY <1>1, <1>2, RejectionFacts DEF Won
<1>4. now' = now /\ claimedAt' = claimedAt /\ holder' = holder
  BY DEF Advance, OpenRun, OpenRunUnsealed, RefuseRoute, RefuseClosedLog, InvokeModel,
     ProviderServes, ProviderRefuses, ProviderFailsTransiently, CloseRun,
     CloseRunUnsealed, FailRun, FailRunUnsealed, Die, runVars
<1>5. pc'[d] # "idle"
  BY DEF Advance, OpenRun, OpenRunUnsealed, RefuseRoute, RefuseClosedLog, InvokeModel,
     ProviderServes, ProviderRefuses, ProviderFailsTransiently, CloseRun,
     CloseRunUnsealed, FailRun, FailRunUnsealed, Die, TypeOK, Goto
<1>6. \/ answer'[d] = answer[d] \/ answer'[d] \in Rejection
      \/ answer'[d] = [kind |-> "served", provider |-> LastCalled(d)]
  BY RejectionTypes DEF Advance, OpenRun, OpenRunUnsealed, RefuseRoute, RefuseClosedLog,
     InvokeModel, ProviderServes, ProviderRefuses, ProviderFailsTransiently, CloseRun,
     CloseRunUnsealed, FailRun, FailRunUnsealed, Die, runVars, TypeOK, Say
<1>7. Won(d)'
  BY <1>2, <1>5, <1>6, RejectionFacts DEF Won
<1>8. \A e \in Delivery \ {d} : pc'[e] = pc[e] /\ answer'[e] = answer[e]
  BY OthersUnmoved
<1>9. \A e \in Delivery \ {d} : Won(e)' <=> Won(e)
  BY <1>8 DEF Won
<1> QED BY <1>1, <1>3, <1>4, <1>7, <1>9

\* What an execution writes to the table is its own ending, on its request's row.
LEMMA AdvanceOnLedger ==
    ASSUME TypeOK, Phase, NEW d \in Delivery, Advance(d) \/ Die(d)
    PROVE  \/ ledger' = ledger
           \/ \E o \in Outcome :
                 /\ o.by = d
                 /\ ledger' = Completed(ledger, RequestOf[d], o)
                 /\ pc'[d] = "answered"
                 /\ o.status = "succeeded" <=> answer'[d].kind = "served"
<1>1. CASE CloseRun(d)
  <2> DEFINE o == [status |-> "succeeded", by |-> d]
  <2>1. o \in Outcome
    BY ServeAssumption DEF Outcome
  <2>2. /\ ledger' = Completed(ledger, RequestOf[d], o)
        /\ pc'[d] = "answered"
        /\ answer'[d].kind = "served"
    BY <1>1 DEF CloseRun, TypeOK, Goto, Say
  <2> QED BY <2>1, <2>2
<1>2. CASE FailRun(d)
  <2> DEFINE o == [status |-> "failed", by |-> d]
  <2>1. o \in Outcome
    BY ServeAssumption DEF Outcome
  <2>2. /\ ledger' = Completed(ledger, RequestOf[d], o)
        /\ pc'[d] = "answered"
        /\ answer'[d] \in Rejection
    BY <1>2 DEF FailRun, TypeOK, Goto, runVars, Phase, PhaseOf
  <2>3. answer'[d].kind # "served"
    BY <2>2, RejectionFacts
  <2> QED BY <2>1, <2>2, <2>3
<1>3. CASE ~CloseRun(d) /\ ~FailRun(d)
  BY <1>3 DEF Advance, OpenRun, OpenRunUnsealed, RefuseRoute, RefuseClosedLog, InvokeModel,
     ProviderServes, ProviderRefuses, ProviderFailsTransiently,
     CloseRunUnsealed, FailRunUnsealed, Die
<1> QED BY <1>1, <1>2, <1>3

\* A redelivery that is turned away has not won, and a granted claim has.
LEMMA ClaimChangesWon ==
    ASSUME TypeOK, Phase, NEW d \in Delivery
    PROVE  /\ ClaimRefused(d) => \A e \in Delivery : Won(e)' <=> Won(e)
           /\ ClaimRefused(d) => ~Won(d)
           /\ ClaimGranted(d) => /\ ~Won(d) /\ Won(d)'
                                 /\ \A e \in Delivery \ {d} : Won(e)' <=> Won(e)
<1>1. ASSUME ClaimRefused(d) \/ ClaimGranted(d), NEW e \in Delivery \ {d}
      PROVE  Won(e)' <=> Won(e)
  <2>1. pc'[e] = pc[e] /\ answer'[e] = answer[e]
    BY <1>1, OthersUnmoved
  <2> QED BY <2>1 DEF Won
<1>2. ASSUME ClaimRefused(d) PROVE ~Won(d) /\ ~Won(d)'
  <2>1. pc[d] = "idle"
    BY <1>2 DEF ClaimRefused
  <2>2. answer'[d] \in Answer
    BY <1>2, RedeliveryAnswer DEF ClaimRefused, TypeOK, Say
  <2>3. answer'[d].kind \in {"in-flight", "already-served"}
    BY <1>2 DEF ClaimRefused, TypeOK, Say
  <2> QED BY <2>1, <2>2, <2>3, RejectionFacts DEF Won
<1>3. ASSUME ClaimGranted(d) PROVE ~Won(d) /\ Won(d)'
  <2>1. pc[d] = "idle" /\ answer[d] = None /\ answer' = answer
    BY <1>3 DEF ClaimGranted, Phase, PhaseOf
  <2>2. pc'[d] \in {"opening", "routing"}
    BY <1>3 DEF ClaimGranted, TypeOK, Goto
  <2> QED BY <2>1, <2>2 DEF Won
<1> QED BY <1>1, <1>2, <1>3

\* A fresh claim's row starts its window now; a row that answers is not due.
LEMMA ClaimedFacts ==
    ASSUME NEW table \in Ledger, NEW q \in Request, NEW at \in Nat
    PROVE  /\ Claimed(table, q, at)[q] # NoClaim
           /\ Claimed(table, q, at)[q].claimedAt = at
           /\ Claimed(table, q, at)[q].expiresAt = at + ClaimTtl
           /\ Claimed(table, q, at)[q].outcome = NoOutcome
           /\ \A r \in Request \ {q} : Claimed(table, q, at)[r] = table[r]
<1> DEFINE row == [claimedAt |-> at, expiresAt |-> at + ClaimTtl, outcome |-> NoOutcome]
<1>1. row \in Row /\ NoClaim \notin Row
  BY LedgerAssumption DEF Row
<1>2. Claimed(table, q, at) = [table EXCEPT ![q] = row]
  BY DEF Claimed
<1> QED BY <1>1, <1>2 DEF Ledger

\* A row always belongs to the latest execution of its request.
LEMMA RowStep == TypeOK /\ Phase /\ RowIsLatest /\ [Next]_vars => RowIsLatest'
<1> SUFFICES ASSUME TypeOK, Phase, RowIsLatest, [Next]_vars PROVE RowIsLatest'
  OBVIOUS
<1>0. /\ ClaimTtl \in Nat /\ ClaimTtl > 0 /\ now \in Nat
      /\ claimedAt \in [Delivery -> Nat] /\ ledger \in Ledger
      /\ RequestOf \in [Delivery -> Request]
      /\ holder \in [Request -> Delivery \cup {None}]
      /\ \A r \in Request : ledger[r] # NoClaim =>
            ledger[r].claimedAt \in Nat /\ ledger[r].expiresAt \in Nat
  <2>1. \A r \in Request : ledger[r] # NoClaim => ledger[r] \in Row
    BY DEF TypeOK, Ledger
  <2> QED BY <2>1, LedgerAssumption, ServeAssumption DEF TypeOK, Row
<1>1. ASSUME NEW d \in Delivery, ClaimRefused(d) PROVE RowIsLatest'
  <2>1. /\ now' = now /\ ledger' = ledger /\ holder' = holder
        /\ \A e \in Delivery : e # d => claimedAt'[e] = claimedAt[e]
    BY <1>0, <1>1 DEF ClaimRefused
  <2>2. ~Won(d) /\ \A e \in Delivery : Won(e)' <=> Won(e)
    BY <1>1, ClaimChangesWon
  <2> QED BY <2>1, <2>2 DEF RowIsLatest
<1>2. ASSUME NEW d \in Delivery, ClaimGranted(d) PROVE RowIsLatest'
  <2> DEFINE q == RequestOf[d]
  <2>1. /\ now' = now /\ ledger' = Claimed(ledger, q, now)
        /\ holder' = [holder EXCEPT ![q] = d]
        /\ claimedAt' = [claimedAt EXCEPT ![d] = now]
        /\ ledger[q] = NoClaim \/ ledger[q].expiresAt <= now
    BY <1>0, <1>2 DEF ClaimGranted, Answers
  <2>2. ~Won(d) /\ Won(d)' /\ \A e \in Delivery \ {d} : Won(e)' <=> Won(e)
    BY <1>2, ClaimChangesWon
  <2>3. /\ ledger'[q] # NoClaim
        /\ ledger'[q].claimedAt = now /\ ledger'[q].expiresAt = now + ClaimTtl
        /\ \A r \in Request \ {q} : ledger'[r] = ledger[r] /\ holder'[r] = holder[r]
        /\ holder'[q] = d /\ claimedAt'[d] = now
        /\ \A e \in Delivery \ {d} : claimedAt'[e] = claimedAt[e]
    BY <1>0, <2>1, ClaimedFacts
  <2>4. \A e \in Delivery \ {d} :
           Won(e) /\ RequestOf[e] = q => claimedAt[e] + ClaimTtl <= now
    BY <1>0, <2>1, <2>2 DEF RowIsLatest
  <2>5. ASSUME NEW e \in Delivery, Won(e)'
        PROVE  /\ claimedAt'[e] <= now'
               /\ \/ claimedAt'[e] + ClaimTtl <= now'
                  \/ ledger'[RequestOf[e]] # NoClaim /\ holder'[RequestOf[e]] = e
    BY <1>0, <2>1, <2>2, <2>3, <2>4, <2>5 DEF RowIsLatest
  <2>6. ASSUME NEW r \in Request, ledger'[r] # NoClaim
        PROVE  /\ holder'[r] \in Delivery
               /\ RequestOf[holder'[r]] = r
               /\ Won(holder[r])'
               /\ ledger'[r].claimedAt = claimedAt'[holder'[r]]
               /\ ledger'[r].expiresAt = ledger'[r].claimedAt + ClaimTtl
               /\ \A e \in Delivery :
                     Won(e)' /\ RequestOf[e] = r => claimedAt'[e] <= ledger'[r].claimedAt
    <3>1. CASE r = q
      <4>1. Won(holder[r])'
        BY <2>2, <2>3, <3>1 DEF Won
      <4> QED BY <1>0, <2>1, <2>2, <2>3, <2>4, <3>1, <4>1
    <3>2. CASE r # q
      <4>1. /\ ledger'[r] = ledger[r] /\ holder'[r] = holder[r]
            /\ holder[r] \in Delivery \ {d} /\ Won(holder[r])
            /\ claimedAt'[holder[r]] = claimedAt[holder[r]]
        BY <2>2, <2>3, <2>6, <3>2 DEF RowIsLatest
      <4>2. Won(holder[r])'
        BY <2>2, <4>1 DEF Won
      <4> QED BY <1>0, <2>2, <2>3, <2>6, <3>2, <4>1, <4>2 DEF RowIsLatest
    <3> QED BY <3>1, <3>2
  <2> QED BY <2>5, <2>6 DEF RowIsLatest
<1>3. ASSUME NEW d \in Delivery, Advance(d) \/ Die(d) PROVE RowIsLatest'
  <2>1. /\ now' = now /\ claimedAt' = claimedAt /\ holder' = holder
        /\ \A e \in Delivery : Won(e)' <=> Won(e)
    BY <1>3, AdvanceKeepsWon
  <2>2. \A r \in Request :
           /\ ledger'[r] = NoClaim <=> ledger[r] = NoClaim
           /\ ledger[r] # NoClaim => /\ ledger'[r].claimedAt = ledger[r].claimedAt
                                     /\ ledger'[r].expiresAt = ledger[r].expiresAt
    BY <1>0, <1>3, AdvanceOnLedger, CompletedFacts
  <2>3. \A r \in Request : ledger[r] # NoClaim => (Won(holder[r])' <=> Won(holder[r]))
    BY <2>1 DEF RowIsLatest, Won
  <2> QED BY <1>0, <2>1, <2>2, <2>3 DEF RowIsLatest
<1>4. CASE SweepExpired
  <2>1. UNCHANGED <<now, pc, claimedAt, answer, holder>> /\ ledger' = Swept(ledger, now)
    BY <1>4 DEF SweepExpired, runVars
  <2>2. \A r \in Request :
           \/ ledger'[r] = ledger[r]
           \/ ledger'[r] = NoClaim /\ ledger[r].expiresAt <= now
    BY <2>1 DEF Swept
  <2>3. \A e \in Delivery : Won(e)' <=> Won(e)
    BY <2>1 DEF Won
  <2>4. \A r \in Request : Won(holder[r])' <=> Won(holder[r])
    BY <2>1 DEF Won
  <2> QED BY <1>0, <2>1, <2>2, <2>3, <2>4 DEF RowIsLatest
<1>5. CASE Tick
  <2>1. UNCHANGED <<ledger, pc, claimedAt, answer, holder>> /\ now' = now + 1
    BY <1>5 DEF Tick, runVars
  <2>2. \A e \in Delivery : Won(e)' <=> Won(e)
    BY <2>1 DEF Won
  <2>3. \A r \in Request : Won(holder[r])' <=> Won(holder[r])
    BY <2>1 DEF Won
  <2> QED BY <1>0, <2>1, <2>2, <2>3 DEF RowIsLatest
<1>6. CASE UNCHANGED vars
  BY <1>6 DEF vars, runVars, RowIsLatest, Won
<1> QED BY <1>1, <1>2, <1>3, <1>4, <1>5, <1>6 DEF Next

\* Two executions of one request hold claims a lifetime apart.
LEMMA WindowsStep ==
    TypeOK /\ Phase /\ RowIsLatest /\ WindowsDisjoint /\ [Next]_vars => WindowsDisjoint'
<1> SUFFICES ASSUME TypeOK, Phase, RowIsLatest, WindowsDisjoint, [Next]_vars
             PROVE  WindowsDisjoint'
  OBVIOUS
<1>0. /\ ClaimTtl \in Nat /\ now \in Nat /\ claimedAt \in [Delivery -> Nat]
      /\ RequestOf \in [Delivery -> Request] /\ ledger \in Ledger
  BY LedgerAssumption, ServeAssumption DEF TypeOK
<1>1. ASSUME NEW d \in Delivery, ClaimRefused(d) PROVE WindowsDisjoint'
  <2>1. \A e \in Delivery : e # d => claimedAt'[e] = claimedAt[e]
    BY <1>0, <1>1 DEF ClaimRefused
  <2>2. ~Won(d) /\ \A e \in Delivery : Won(e)' <=> Won(e)
    BY <1>1, ClaimChangesWon
  <2> QED BY <2>1, <2>2 DEF WindowsDisjoint
<1>2. ASSUME NEW d \in Delivery, ClaimGranted(d) PROVE WindowsDisjoint'
  <2> DEFINE q == RequestOf[d]
  <2>1. /\ ledger[q] = NoClaim \/ ~(now < ledger[q].expiresAt)
        /\ claimedAt' = [claimedAt EXCEPT ![d] = now]
    BY <1>2 DEF ClaimGranted, Answers
  <2>2. ~Won(d) /\ \A e \in Delivery \ {d} : Won(e)' <=> Won(e)
    BY <1>2, ClaimChangesWon
  <2>3. ASSUME NEW e \in Delivery \ {d}, Won(e), RequestOf[e] = q
        PROVE  claimedAt[e] + ClaimTtl <= now
    <3>1. \/ claimedAt[e] + ClaimTtl <= now
          \/ /\ ledger[q] # NoClaim /\ holder[q] = e
             /\ ledger[q].expiresAt = claimedAt[e] + ClaimTtl
      BY <1>0, <2>3 DEF RowIsLatest
    <3> QED BY <1>0, <2>1, <3>1
  <2>4. claimedAt'[d] = now /\ \A e \in Delivery \ {d} : claimedAt'[e] = claimedAt[e]
    BY <1>0, <2>1
  <2> QED BY <2>2, <2>3, <2>4 DEF WindowsDisjoint
<1>3. ASSUME NEW d \in Delivery, Advance(d) \/ Die(d) PROVE WindowsDisjoint'
  BY <1>3, AdvanceKeepsWon DEF WindowsDisjoint
<1>4. CASE SweepExpired \/ Tick \/ UNCHANGED vars
  <2>1. UNCHANGED <<pc, answer, claimedAt>>
    BY <1>4 DEF SweepExpired, Tick, vars, runVars
  <2> QED BY <2>1 DEF WindowsDisjoint, Won
<1> QED BY <1>1, <1>2, <1>3, <1>4 DEF Next

\* An outcome stays the ending of the execution that recorded it.
LEMMA OutcomeStep ==
    TypeOK /\ Phase /\ OutcomeIsReal /\ [Next]_vars => OutcomeIsReal'
<1> SUFFICES ASSUME TypeOK, Phase, OutcomeIsReal, [Next]_vars PROVE OutcomeIsReal'
  OBVIOUS
<1> DEFINE Real(o, r) == /\ o.by \in Delivery /\ Won(o.by) /\ RequestOf[o.by] = r
                         /\ pc[o.by] = "answered"
                         /\ o.status = "succeeded" <=> answer[o.by].kind = "served"
<1>0. /\ ledger \in Ledger /\ now \in Nat
      /\ RequestOf \in [Delivery -> Request] /\ Execution = Delivery
      /\ NoOutcome \notin Outcome
  BY ServeAssumption, LedgerAssumption DEF TypeOK
<1>1. ASSUME NEW r \in Request, ledger[r] # NoClaim, ledger[r].outcome # NoOutcome
      PROVE  Real(ledger[r].outcome, r)
  <2>1. ledger[r].outcome \in Outcome
    BY <1>0, <1>1 DEF Ledger, Row
  <2> QED BY <1>0, <1>1, <2>1 DEF OutcomeIsReal, Outcome
<1>2. ASSUME NEW d \in Delivery,
             ClaimRefused(d) \/ ClaimGranted(d) \/ Advance(d) \/ Die(d),
             NEW o, NEW r \in Request, Real(o, r)
      PROVE  Real(o, r)'
  <2>1. pc[d] # "answered"
    BY <1>2, AdvanceKeepsWon DEF ClaimRefused, ClaimGranted
  <2>2. o.by \in Delivery \ {d}
    BY <1>2, <2>1
  <2>3. pc'[o.by] = pc[o.by] /\ answer'[o.by] = answer[o.by]
    BY <1>2, <2>2, OthersUnmoved
  <2> QED BY <1>2, <2>3 DEF Won
<1>3. ASSUME NEW d \in Delivery, ClaimRefused(d) PROVE OutcomeIsReal'
  <2>1. ledger' = ledger
    BY <1>3 DEF ClaimRefused
  <2>2. ASSUME NEW r \in Request, ledger'[r] # NoClaim, ledger'[r].outcome # NoOutcome
        PROVE  Real(ledger[r].outcome, r)'
    BY <1>1, <1>2, <1>3, <2>1, <2>2
  <2> QED BY <2>1, <2>2 DEF OutcomeIsReal
<1>4. ASSUME NEW d \in Delivery, ClaimGranted(d) PROVE OutcomeIsReal'
  <2>1. /\ ledger'[RequestOf[d]].outcome = NoOutcome
        /\ \A r \in Request \ {RequestOf[d]} : ledger'[r] = ledger[r]
    BY <1>0, <1>4, ClaimedFacts DEF ClaimGranted
  <2>2. ASSUME NEW r \in Request, ledger'[r] # NoClaim, ledger'[r].outcome # NoOutcome
        PROVE  ledger'[r] = ledger[r] /\ Real(ledger[r].outcome, r)'
    BY <1>1, <1>2, <1>4, <2>1, <2>2
  <2> QED BY <2>2 DEF OutcomeIsReal
<1>5. ASSUME NEW d \in Delivery, Advance(d) \/ Die(d) PROVE OutcomeIsReal'
  <2>1. CASE ledger' = ledger
    <3>1. ASSUME NEW r \in Request, ledger'[r] # NoClaim, ledger'[r].outcome # NoOutcome
          PROVE  Real(ledger[r].outcome, r)'
      BY <1>1, <1>2, <1>5, <2>1, <3>1
    <3> QED BY <2>1, <3>1 DEF OutcomeIsReal
  <2>2. ASSUME NEW o \in Outcome, o.by = d,
               ledger' = Completed(ledger, RequestOf[d], o), pc'[d] = "answered",
               o.status = "succeeded" <=> answer'[d].kind = "served"
        PROVE  OutcomeIsReal'
    <3>1. Won(d)'
      BY <1>5, AdvanceKeepsWon
    <3>2. Real(o, RequestOf[d])'
      BY <1>0, <2>2, <3>1
    <3>3. \A r \in Request :
             /\ ledger'[r] # NoClaim => ledger[r] # NoClaim
             /\ ledger[r] # NoClaim =>
                   ledger'[r].outcome = IF r = RequestOf[d] THEN o ELSE ledger[r].outcome
      BY <1>0, <2>2, CompletedFacts
    <3>4. ASSUME NEW r \in Request, ledger'[r] # NoClaim, ledger'[r].outcome # NoOutcome
          PROVE  Real(ledger[r].outcome, r)'
      <4>1. CASE r = RequestOf[d]
        BY <3>2, <3>3, <3>4, <4>1
      <4>2. CASE r # RequestOf[d]
        <5>1. ledger[r] # NoClaim /\ ledger'[r].outcome = ledger[r].outcome
          BY <3>3, <3>4, <4>2
        <5> QED BY <1>1, <1>2, <1>5, <3>4, <5>1
      <4> QED BY <4>1, <4>2
    <3> QED BY <3>4 DEF OutcomeIsReal
  <2> QED BY <1>5, <2>1, <2>2, AdvanceOnLedger
<1>6. CASE SweepExpired
  <2>1. UNCHANGED <<pc, answer>> /\ ledger' = Swept(ledger, now)
    BY <1>6 DEF SweepExpired, runVars
  <2>2. \A r \in Request : ledger'[r] = NoClaim \/ ledger'[r] = ledger[r]
    BY <2>1 DEF Swept
  <2> QED BY <2>1, <2>2 DEF OutcomeIsReal, Won
<1>7. CASE Tick \/ UNCHANGED vars
  <2>1. UNCHANGED <<pc, answer, ledger>>
    BY <1>7 DEF Tick, vars, runVars
  <2> QED BY <2>1 DEF OutcomeIsReal, Won
<1> QED BY <1>3, <1>4, <1>5, <1>6, <1>7 DEF Next

\* A redelivery's answer was copied from a row, and nobody answers twice.
LEMMA AlreadyServedStep ==
    TypeOK /\ Phase /\ OutcomeIsReal /\ AlreadyServedIsReal /\ [Next]_vars
        => AlreadyServedIsReal'
<1> SUFFICES ASSUME TypeOK, Phase, OutcomeIsReal, AlreadyServedIsReal, [Next]_vars
             PROVE  AlreadyServedIsReal'
  OBVIOUS
<1> DEFINE Fits(o, d) == /\ o.by \in Delivery /\ RequestOf[o.by] = RequestOf[d]
                         /\ pc[o.by] = "answered"
                         /\ o.status = "succeeded" <=> answer[o.by].kind = "served"
<1>0. ASSUME NEW d \in Delivery, answer[d] # None, answer[d].kind = "already-served"
      PROVE  Fits(answer[d].outcome, d)
  <2>1. answer[d] \in Answer
    BY <1>0 DEF TypeOK
  <2>2. answer[d].outcome \in Outcome
    BY <1>0, <2>1 DEF Answer, Rejection
  <2> QED BY <1>0, <2>2, ServeAssumption DEF AlreadyServedIsReal, Outcome
<1>1. ASSUME NEW d \in Delivery,
             ClaimRefused(d) \/ ClaimGranted(d) \/ Advance(d) \/ Die(d),
             NEW o, NEW e \in Delivery, Fits(o, e)
      PROVE  Fits(o, e)'
  <2>1. pc[d] # "answered"
    BY <1>1, AdvanceKeepsWon DEF ClaimRefused, ClaimGranted
  <2>2. o.by \in Delivery \ {d}
    BY <1>1, <2>1
  <2>3. pc'[o.by] = pc[o.by] /\ answer'[o.by] = answer[o.by]
    BY <1>1, <2>2, OthersUnmoved
  <2> QED BY <1>1, <2>3
<1>2. ASSUME NEW d \in Delivery,
             ClaimRefused(d) \/ ClaimGranted(d) \/ Advance(d) \/ Die(d),
             NEW e \in Delivery \ {d}, answer'[e] # None, answer'[e].kind = "already-served"
      PROVE  Fits(answer[e].outcome, e)'
  <2>1. answer'[e] = answer[e]
    BY <1>2, OthersUnmoved
  <2> QED BY <1>0, <1>1, <1>2, <2>1
<1>3. ASSUME NEW d \in Delivery, ClaimRefused(d), answer'[d].kind = "already-served"
      PROVE  Fits(answer[d].outcome, d)'
  <2> DEFINE r == RequestOf[d]
  <2>1. /\ r \in Request /\ ledger[r] # NoClaim /\ ledger[r].outcome # NoOutcome
        /\ answer'[d].outcome = ledger[r].outcome
    BY <1>3, ServeAssumption DEF ClaimRefused, TypeOK, Say, Answers
  <2>2. ledger[r].outcome \in Outcome
    BY <2>1, LedgerAssumption DEF TypeOK, Ledger, Row
  <2>3. Fits(ledger[r].outcome, d)
    BY <2>1, <2>2, ServeAssumption DEF OutcomeIsReal, Outcome
  <2> DEFINE o == answer'[d].outcome
  <2>4. Fits(o, d)
    BY <2>1, <2>3
  <2>5. pc[d] = "idle" /\ o.by \in Delivery \ {d}
    BY <1>3, <2>4 DEF ClaimRefused
  <2>6. pc'[o.by] = pc[o.by] /\ answer'[o.by] = answer[o.by]
    BY <1>3, <2>5, OthersUnmoved
  <2> QED BY <2>4, <2>6
<1>4. ASSUME NEW d \in Delivery, ClaimGranted(d) \/ Advance(d) \/ Die(d)
      PROVE  answer'[d] # None => answer'[d].kind # "already-served"
  BY <1>4, ClaimChangesWon, AdvanceKeepsWon DEF Won
<1>5. ASSUME NEW d \in Delivery,
             ClaimRefused(d) \/ ClaimGranted(d) \/ Advance(d) \/ Die(d)
      PROVE  AlreadyServedIsReal'
  <2>1. ASSUME NEW e \in Delivery, answer'[e] # None, answer'[e].kind = "already-served"
        PROVE  Fits(answer[e].outcome, e)'
    <3>1. CASE e = d
      BY <1>3, <1>4, <1>5, <2>1, <3>1
    <3>2. CASE e # d
      BY <1>2, <1>5, <2>1, <3>2
    <3> QED BY <3>1, <3>2
  <2> QED BY <2>1 DEF AlreadyServedIsReal
<1>6. CASE SweepExpired \/ Tick \/ UNCHANGED vars
  <2>1. UNCHANGED <<pc, answer>>
    BY <1>6 DEF SweepExpired, Tick, vars, runVars
  <2> QED BY <2>1 DEF AlreadyServedIsReal
<1> QED BY <1>5, <1>6 DEF Next

\* Failover only ever adds an eligible provider that was not tried before.
LEMMA FailoverStep ==
    TypeOK /\ Phase /\ FailoverStaysInRegion /\ [Next]_vars => FailoverStaysInRegion'
<1> SUFFICES ASSUME TypeOK, Phase, FailoverStaysInRegion, [Next]_vars
             PROVE  FailoverStaysInRegion'
  OBVIOUS
<1> DEFINE InTerms(p, d) ==
             /\ ProcessingRegion[p] = TenantRegion[RequestOf[d]]
             /\ StorageRegion[p] = TenantRegion[RequestOf[d]]
             /\ RequestOf[d] \in NeedsZeroRetention => p \in ZeroRetention
<1> DEFINE Good(d) == /\ \A p \in Attempted(d) : InTerms(p, d)
                      /\ \A i, j \in DOMAIN attempted[d] :
                            attempted[d][i] = attempted[d][j] => i = j
<1>1. ASSUME NEW d \in Delivery, NEW e \in Delivery,
             attempted'[e] = attempted[e]
      PROVE  Good(e)'
  BY <1>1 DEF FailoverStaysInRegion, Attempted
<1>2. ASSUME NEW d \in Delivery,
             ClaimRefused(d) \/ ClaimGranted(d) \/ Advance(d) \/ Die(d),
             NEW e \in Delivery \ {d}
      PROVE  Good(e)'
  BY <1>1, <1>2, OthersUnmoved
<1>3. ASSUME NEW d \in Delivery, InvokeModel(d) PROVE Good(d)'
  <2>1. PICK p \in Provider : Routes(d, p) /\ (\/ attempted' = [attempted EXCEPT ![d] = Append(@, p)]
                                               \/ attempted' = attempted)
    BY <1>3 DEF InvokeModel
  <2>3. InTerms(p, d) /\ p \notin Attempted(d)
    BY <2>1 DEF Routes, Remaining, Eligible, IsEligible
  <2>4. CASE attempted' = attempted
    BY <1>1, <2>4
  <2>5. CASE attempted' = [attempted EXCEPT ![d] = Append(@, p)]
    <3>1. /\ attempted[d] \in Seq(Provider)
          /\ attempted'[d] = Append(attempted[d], p)
      BY <2>5 DEF TypeOK
    <3>2. /\ DOMAIN attempted'[d] = 1..(Len(attempted[d]) + 1)
          /\ DOMAIN attempted[d] = 1..Len(attempted[d]) /\ Len(attempted[d]) \in Nat
          /\ attempted'[d][Len(attempted[d]) + 1] = p
          /\ \A i \in 1..Len(attempted[d]) : attempted'[d][i] = attempted[d][i]
      BY <3>1
    <3>3. \A q \in Attempted(d)' : q = p \/ q \in Attempted(d)
      BY <3>2 DEF Attempted
    <3>5. \A q \in Attempted(d)' : InTerms(q, d)
      BY <2>3, <3>3 DEF FailoverStaysInRegion
    <3>6. \A i \in 1..Len(attempted[d]) : attempted'[d][i] # p
      BY <2>3, <3>2 DEF Attempted
    <3>7. \A i, j \in DOMAIN attempted'[d] : attempted'[d][i] = attempted'[d][j] => i = j
      BY <3>2, <3>6 DEF FailoverStaysInRegion
    <3> QED BY <3>5, <3>7
  <2> QED BY <2>1, <2>4, <2>5
<1>4. ASSUME NEW d \in Delivery, ClaimGranted(d) PROVE Good(d)'
  <2>1. attempted'[d] = <<>>
    BY <1>4 DEF ClaimGranted, Phase, PhaseOf
  <2> QED BY <2>1 DEF Attempted
<1>5. ASSUME NEW d \in Delivery,
             ClaimRefused(d) \/ ClaimGranted(d) \/ Advance(d) \/ Die(d)
      PROVE  FailoverStaysInRegion'
  <2>1. ~InvokeModel(d) /\ ~ClaimGranted(d) => UNCHANGED attempted
    BY <1>5 DEF ClaimRefused, Advance, OpenRun, OpenRunUnsealed, RefuseRoute,
       RefuseClosedLog, ProviderServes, ProviderRefuses, ProviderFailsTransiently,
       CloseRun, CloseRunUnsealed, FailRun, FailRunUnsealed, Die, runVars
  <2>2. Good(d)'
    BY <1>1, <1>3, <1>4, <2>1
  <2>3. \A e \in Delivery : Good(e)'
    BY <1>2, <1>5, <2>2
  <2> QED BY <2>3 DEF FailoverStaysInRegion
<1>6. CASE SweepExpired \/ Tick \/ UNCHANGED vars
  <2>1. UNCHANGED attempted
    BY <1>6 DEF SweepExpired, Tick, vars, runVars
  <2>2. \A e \in Delivery : Good(e)'
    BY <1>1, <2>1
  <2> QED BY <2>2 DEF FailoverStaysInRegion
<1> QED BY <1>5, <1>6 DEF Next
-----------------------------------------------------------------------------
\* The invariant holds at first and every step keeps it.
LEMMA Inductive == Spec => []IInv
<1>1. Init => IInv
  <2> SUFFICES ASSUME Init PROVE IInv
    OBVIOUS
  <2>1. \A d \in Delivery : pc[d] = "idle" /\ answer[d] = None /\ attempted[d] = <<>>
    BY DEF Init
  <2>2. \A r \in Request : ledger[r] = NoClaim
    BY DEF Init, EmptyLedger
  <2>3. RowIsLatest /\ WindowsDisjoint /\ OutcomeIsReal /\ AlreadyServedIsReal
    BY <2>1, <2>2 DEF RowIsLatest, WindowsDisjoint, OutcomeIsReal, AlreadyServedIsReal, Won
  <2>4. FailoverStaysInRegion
    BY <2>1 DEF FailoverStaysInRegion, Attempted
  <2>5. TypeOK /\ Phase
    BY InitTypes
  <2> QED BY <2>3, <2>4, <2>5 DEF IInv
<1>2. IInv /\ [Next]_vars => IInv'
  BY TypeStep, PhaseStep, RowStep, WindowsStep, OutcomeStep, AlreadyServedStep,
     FailoverStep DEF IInv
<1> QED BY <1>1, <1>2, PTL DEF Spec

\* Of two billed deliveries of a request the claims are a claim's lifetime apart,
\* whatever the number of deliveries, crashes, sweeps and expiries.
THEOREM BilledOnce == Spec => []OneBillPerWindow
<1>1. IInv => OneBillPerWindow
  BY DEF IInv, Phase, PhaseOf, WindowsDisjoint, OneBillPerWindow
<1> QED BY <1>1, Inductive, PTL

\* No attempt of any delivery leaves the tenant's region or its retention
\* terms, and no provider is called twice by one.
THEOREM Residency == Spec => []FailoverStaysInRegion
<1>1. IInv => FailoverStaysInRegion
  BY DEF IInv
<1> QED BY <1>1, Inductive, PTL

\* What a redelivery is told is how an execution of its request ended.
THEOREM RedeliveryTruth == Spec => []AlreadyServedIsReal
<1>1. IInv => AlreadyServedIsReal
  BY DEF IInv
<1> QED BY <1>1, Inductive, PTL

\* An execution that is not the holder of a row it may still complete has
\* outlived its own claim.
LEMMA NotHolderIsLate ==
    ASSUME IInv, NEW d \in Delivery, NEW r \in Request, ledger[r] # NoClaim,
           Won(d), RequestOf[d] = r, holder[r] # d
    PROVE  claimedAt[d] + ClaimTtl <= ledger[r].claimedAt
<1>1. /\ holder[r] \in Delivery /\ Won(holder[r]) /\ RequestOf[holder[r]] = r
      /\ ledger[r].claimedAt = claimedAt[holder[r]]
      /\ claimedAt[d] <= ledger[r].claimedAt
  BY DEF IInv, RowIsLatest
<1>2. \/ claimedAt[d] + ClaimTtl <= claimedAt[holder[r]]
      \/ claimedAt[holder[r]] + ClaimTtl <= claimedAt[d]
  BY <1>1 DEF IInv, WindowsDisjoint
<1>3. /\ claimedAt[d] \in Nat /\ claimedAt[holder[r]] \in Nat
      /\ ClaimTtl \in Nat /\ ClaimTtl > 0
  BY <1>1, LedgerAssumption DEF IInv, TypeOK
<1> QED BY <1>1, <1>2, <1>3

\* A row never carries the outcome of a stranger that is still in its window.
LEMMA OverrunOnly == IInv => OutcomeOfHolderOrOverrun
<1> SUFFICES ASSUME IInv, NEW r \in Request, ledger[r] # NoClaim,
                    ledger[r].outcome # NoOutcome,
                    ledger[r].outcome.by # holder[r]
             PROVE  claimedAt[ledger[r].outcome.by] + ClaimTtl <= ledger[r].claimedAt
  BY DEF OutcomeOfHolderOrOverrun
<1> DEFINE by == ledger[r].outcome.by
<1>1. ledger[r].outcome \in Outcome
  BY LedgerAssumption DEF IInv, TypeOK, Ledger, Row
<1>2. by \in Delivery /\ Won(by) /\ RequestOf[by] = r
  BY <1>1, ServeAssumption DEF IInv, OutcomeIsReal, Outcome
<1> QED BY <1>2, NotHolderIsLate

\* The mix-up complete() is open to needs an execution that outlives its claim.
THEOREM Overrun == Spec => []OutcomeOfHolderOrOverrun
<1> QED BY OverrunOnly, Inductive, PTL

\* Inside a window the first outcome stands unless an overrunning execution is
\* one of the two.
THEOREM FirstStands == Spec => FirstOutcomeStands
<1>1. IInv /\ [Next]_vars => [ReplacesByOverrunOnly]_vars
  <2> SUFFICES ASSUME IInv, [Next]_vars, NEW r \in Request,
                      Answers(ledger, r, now), ledger[r].outcome # NoOutcome,
                      ledger'[r] # ledger[r]
               PROVE  \E d \in {ledger[r].outcome.by, ledger'[r].outcome.by} :
                         claimedAt[d] + ClaimTtl <= ledger[r].claimedAt
    BY DEF ReplacesByOverrunOnly
  <2>0. /\ TypeOK /\ Phase /\ ledger \in Ledger /\ now \in Nat
        /\ RequestOf \in [Delivery -> Request]
        /\ ledger[r] # NoClaim /\ now < ledger[r].expiresAt
        /\ ledger[r].expiresAt \in Nat /\ ledger[r].outcome \in Outcome
    BY ServeAssumption, LedgerAssumption DEF IInv, TypeOK, Answers, Ledger, Row
  <2>1. PICK d \in Delivery : Advance(d) \/ Die(d)
    <3>1. ASSUME NEW d \in Delivery, ClaimGranted(d) PROVE FALSE
      BY <2>0, <3>1, ClaimedFacts DEF ClaimGranted
    <3>2. ASSUME NEW d \in Delivery, ClaimRefused(d) PROVE FALSE
      BY <3>2 DEF ClaimRefused
    <3>3. ~SweepExpired
      BY <2>0 DEF SweepExpired, Swept
    <3>4. ~Tick /\ ~UNCHANGED vars
      BY DEF Tick, vars
    <3> QED BY <3>1, <3>2, <3>3, <3>4 DEF Next
  <2>2. PICK o \in Outcome :
           o.by = d /\ ledger' = Completed(ledger, RequestOf[d], o)
    BY <2>0, <2>1, AdvanceOnLedger
  <2>3. r = RequestOf[d] /\ ledger'[r].outcome = o
    <3>1. r = RequestOf[d]
      BY <2>0, <2>2 DEF Completed, Ledger
    <3> QED BY <2>0, <2>2, <3>1, CompletedFacts
  <2>4. CASE holder[r] # d
    <3>1. Won(d)
      BY <2>0, <2>1, AdvanceKeepsWon
    <3>2. claimedAt[d] + ClaimTtl <= ledger[r].claimedAt
      BY <2>0, <2>3, <2>4, <3>1, NotHolderIsLate
    <3> QED BY <2>2, <2>3, <3>2
  <2>5. CASE holder[r] = d
    <3>1. ledger[r].outcome.by # d
      <4>1. pc[d] # "answered"
        BY <2>0, <2>1, AdvanceKeepsWon
      <4> QED BY <2>0, <4>1 DEF IInv, OutcomeIsReal
    <3> QED BY <2>0, <2>5, <3>1, OverrunOnly DEF OutcomeOfHolderOrOverrun
  <2> QED BY <2>4, <2>5
<1> QED BY <1>1, Inductive, PTL DEF Spec, FirstOutcomeStands
-----------------------------------------------------------------------------
\* The step of a delivery by which it ends settles the claim it holds, or a seal
\* failed, or the run was never opened.
LEMMA OwnEndSettles ==
    ASSUME TypeOK, Phase, NEW e \in Delivery, Advance(e) \/ Die(e),
           pc'[e] = "answered", Held(e)', Has(log'[e], "run-started"), e \notin unsealed'
    PROVE  ledger'[RequestOf[e]].outcome # NoOutcome
<1> DEFINE r == RequestOf[e]
<1>0. r \in Request /\ ledger \in Ledger /\ pc \in [Delivery -> Location] /\ log \in [Delivery -> Seq(Entry)]
  BY ServeAssumption DEF TypeOK
<1>1. CASE CloseRun(e) \/ FailRun(e)
  <2>1. PICK o \in Outcome : ledger' = Completed(ledger, r, o)
    <3>1. \A s \in {"succeeded", "failed"} : [status |-> s, by |-> e] \in Outcome
      BY ServeAssumption DEF Outcome
    <3> QED BY <1>1, <3>1 DEF CloseRun, FailRun
  <2>2. ledger'[r] # NoClaim
    BY DEF Held
  <2> QED BY <1>0, <2>1, <2>2, CompletedFacts, LedgerAssumption
<1>2. CASE OpenRun(e)
  BY <1>0, <1>2 DEF OpenRun, Goto, Phase, PhaseOf
<1>3. CASE OpenRunUnsealed(e) \/ CloseRunUnsealed(e) \/ FailRunUnsealed(e)
  BY <1>3 DEF OpenRunUnsealed, CloseRunUnsealed, FailRunUnsealed
<1>4. CASE RefuseRoute(e) \/ RefuseClosedLog(e) \/ ProviderServes(e) \/ ProviderRefuses(e)
  BY <1>0, <1>4 DEF RefuseRoute, RefuseClosedLog, ProviderServes, ProviderRefuses, Goto
<1>5. CASE InvokeModel(e)
  <2>1. pc' = [pc EXCEPT ![e] = "calling"] \/ pc' = [pc EXCEPT ![e] = "failing"]
    BY <1>5 DEF InvokeModel, Goto
  <2> QED BY <1>0, <2>1
<1>6. CASE ProviderFailsTransiently(e)
  BY <1>0, <1>6 DEF ProviderFailsTransiently, Goto
<1>7. CASE Die(e)
  BY <1>0, <1>7 DEF Die, Goto
<1> QED BY <1>1, <1>2, <1>3, <1>4, <1>5, <1>6, <1>7 DEF Advance

\* Every step leaves the ended runs with a settled claim.
LEMMA SettleStep == IInv /\ EndedRunSettlesItsClaim /\ [Next]_vars => EndedRunSettlesItsClaim'
<1> SUFFICES ASSUME IInv, EndedRunSettlesItsClaim, [Next]_vars, NEW e \in Delivery,
                    pc'[e] = "answered", Won(e)', Held(e)', Has(log'[e], "run-started"),
                    e \notin unsealed'
             PROVE  ledger'[RequestOf[e]].outcome # NoOutcome
  BY DEF EndedRunSettlesItsClaim
<1> DEFINE r == RequestOf[e]
<1>0. /\ TypeOK /\ Phase /\ r \in Request /\ ledger \in Ledger /\ now \in Nat
      /\ RequestOf \in [Delivery -> Request] /\ holder \in [Request -> Delivery \cup {None}]
      /\ ledger'[r] # NoClaim /\ holder'[r] = e
  BY ServeAssumption DEF IInv, TypeOK, Held
<1>1. ASSUME pc[e] = "answered", Won(e), Held(e), Has(log[e], "run-started"), e \notin unsealed
      PROVE  ledger[r].outcome # NoOutcome
  BY <1>1 DEF EndedRunSettlesItsClaim
<1>2. ASSUME NEW d \in Delivery, d # e, ClaimRefused(d) \/ ClaimGranted(d) \/ Advance(d) \/ Die(d)
      PROVE  pc[e] = "answered" /\ Won(e) /\ Has(log[e], "run-started") /\ e \notin unsealed
  <2>1. pc'[e] = pc[e] /\ log'[e] = log[e] /\ answer'[e] = answer[e] /\ (e \in unsealed' <=> e \in unsealed)
    BY <1>0, <1>2, OthersUnmoved
  <2> QED BY <2>1 DEF Won
<1>3. ASSUME NEW d \in Delivery, ClaimRefused(d) PROVE ledger'[r].outcome # NoOutcome
  <2>1. ledger' = ledger /\ holder' = holder
    BY <1>3 DEF ClaimRefused
  <2>2. d # e
    <3>1. SUFFICES ASSUME d = e PROVE FALSE
      OBVIOUS
    <3>2. answer'[e] \in {[kind |-> "in-flight"], [kind |-> "already-served", outcome |-> ledger[r].outcome]}
      BY <1>0, <1>3, <3>1 DEF ClaimRefused, Say, TypeOK
    <3>3. answer'[e] \in Answer
      BY <1>0, <1>3, <3>1, RedeliveryAnswer DEF ClaimRefused, Say, TypeOK
    <3>4. answer'[e] # None /\ answer'[e].kind \in {"in-flight", "already-served"}
      BY <3>2, <3>3, RejectionFacts
    <3> QED BY <3>4 DEF Won
  <2> QED BY <1>0, <1>1, <1>2, <1>3, <2>1, <2>2 DEF Held
<1>4. ASSUME NEW d \in Delivery, ClaimGranted(d) PROVE ledger'[r].outcome # NoOutcome
  <2>1. /\ ledger' = Claimed(ledger, RequestOf[d], now)
        /\ holder' = [holder EXCEPT ![RequestOf[d]] = d]
    BY <1>4 DEF ClaimGranted
  <2>2. d # e
    <3>1. pc'[d] = "routing" \/ pc'[d] = "opening"
      BY <1>0, <1>4 DEF ClaimGranted, Goto, TypeOK
    <3> QED BY <3>1
  <2>3. RequestOf[d] # r /\ holder[r] = e
    BY <1>0, <2>1, <2>2
  <2>4. ledger'[r] = ledger[r]
    BY <1>0, <2>1, <2>3, ClaimedFacts
  <2> QED BY <1>0, <1>1, <1>2, <1>4, <2>2, <2>3, <2>4 DEF Held
<1>5. ASSUME NEW d \in Delivery, Advance(d) \/ Die(d) PROVE ledger'[r].outcome # NoOutcome
  <2>1. CASE d = e
    BY <1>0, <1>5, <2>1, OwnEndSettles
  <2>2. CASE d # e
    <3>1. holder' = holder
      BY <1>0, <1>5, AdvanceKeepsWon
    <3>2. CASE ledger' = ledger
      BY <1>0, <1>1, <1>2, <1>5, <2>2, <3>1, <3>2 DEF Held
    <3>3. CASE ledger' # ledger
      <4>1. PICK o \in Outcome : ledger' = Completed(ledger, RequestOf[d], o)
        BY <1>0, <1>5, <3>3, AdvanceOnLedger
      <4>2. /\ ledger[r] # NoClaim
            /\ ledger'[r].outcome = IF r = RequestOf[d] THEN o ELSE ledger[r].outcome
        BY <1>0, <4>1, CompletedFacts
      <4>3. ledger[r].outcome # NoOutcome
        BY <1>0, <1>1, <1>2, <1>5, <2>2, <3>1, <4>2 DEF Held
      <4> QED BY <4>2, <4>3, LedgerAssumption
    <3> QED BY <3>2, <3>3
  <2> QED BY <2>1, <2>2
<1>6. ASSUME UNCHANGED <<pc, runVars, holder, unsealed>>, ledger'[r] = ledger[r]
      PROVE  ledger'[r].outcome # NoOutcome
  BY <1>0, <1>1, <1>6 DEF runVars, Won, Held
<1>7. CASE SweepExpired
  <2>1. ledger'[r] = ledger[r]
    BY <1>0, <1>7 DEF SweepExpired, Swept
  <2> QED BY <1>6, <1>7, <2>1 DEF SweepExpired
<1>8. CASE Tick
  BY <1>6, <1>8 DEF Tick
<1>9. CASE UNCHANGED vars
  BY <1>6, <1>9 DEF vars
<1> QED BY <1>3, <1>4, <1>5, <1>7, <1>8, <1>9 DEF Next

\* A run that was opened and ended without a crash or a failed seal never leaves
\* its own claim open: no redelivery has to wait out the lifetime of a claim
\* whose run is over.
THEOREM NothingLeftOpen == Spec => []EndedRunSettlesItsClaim
<1>1. Init => EndedRunSettlesItsClaim
  BY DEF Init, EndedRunSettlesItsClaim
<1> QED BY <1>1, SettleStep, Inductive, PTL DEF Spec

\* What one delivery's log says of the provider it served from.
UsageNamed(d) ==
    answer[d] # None /\ answer[d].kind = "served" =>
        LET usage == log[d][Len(log[d])] IN
        /\ usage.kind = "usage-recorded"
        /\ log[d][usage.invocationSeq + 1] =
               [kind |-> "model-invoked", provider |-> answer[d].provider]

\* Closing a run appends a usage entry that points at the last invocation.
LEMMA CloseNames ==
    ASSUME TypeOK, Phase, NEW d \in Delivery, CloseRun(d)
    PROVE  UsageNamed(d)'
<1> DEFINE usage == [kind |-> "usage-recorded", invocationSeq |-> invocation[d]]
           l == Len(log[d])
<1>1. /\ log \in [Delivery -> Seq(Entry)] /\ answer \in [Delivery -> Answer \cup {None}]
      /\ log[d] \in Seq(Entry) /\ log[d] # <<>>
      /\ log[d][l] = [kind |-> "model-invoked", provider |-> LastCalled(d)]
      /\ invocation[d] = l - 1
  BY DEF TypeOK, Phase, PhaseOf, LastInvocation, CloseRun, LastCalled
<1>2. l \in Nat /\ l >= 1 /\ l - 1 \in Nat /\ (l - 1) + 1 = l
  BY <1>1
<1>3. usage \in Entry
  BY <1>1, <1>2, EntryTypes
<1>4. /\ log'[d] = Append(log[d], usage)
      /\ answer'[d] = [kind |-> "served", provider |-> LastCalled(d)]
  BY <1>1 DEF CloseRun, Say
<1>5. Len(log'[d]) = l + 1 /\ log'[d][l + 1] = usage /\ log'[d][l] = log[d][l]
  BY <1>1, <1>2, <1>3, <1>4, AppendFacts
<1>6. log'[d][Len(log'[d])].kind = "usage-recorded"
      /\ log'[d][Len(log'[d])].invocationSeq + 1 = l
  BY <1>1, <1>2, <1>5
<1> QED BY <1>1, <1>4, <1>5, <1>6 DEF UsageNamed

\* Every step leaves the usage of what was served named.
LEMMA UsageStep == TypeOK /\ Phase /\ UsageNamesTheServingProvider /\ [Next]_vars
                      => UsageNamesTheServingProvider'
<1> SUFFICES ASSUME TypeOK, Phase, UsageNamesTheServingProvider, [Next]_vars,
                    NEW e \in Delivery
             PROVE  UsageNamed(e)'
  BY DEF UsageNamesTheServingProvider, UsageNamed
<1>0. UsageNamed(e)
  BY DEF UsageNamesTheServingProvider, UsageNamed
<1>1. ASSUME log'[e] = log[e], answer'[e] = answer[e] PROVE UsageNamed(e)'
  BY <1>0, <1>1 DEF UsageNamed
<1>2. ASSUME NEW d \in Delivery, d # e, ClaimRefused(d) \/ ClaimGranted(d) \/ Advance(d) \/ Die(d)
      PROVE  UsageNamed(e)'
  <2>1. log'[e] = log[e] /\ answer'[e] = answer[e]
    BY <1>2, OthersUnmoved
  <2> QED BY <1>1, <2>1
<1>3. ASSUME answer'[e] = None \/ answer'[e].kind # "served" PROVE UsageNamed(e)'
  BY <1>3 DEF UsageNamed
<1>4. ASSUME ClaimRefused(e) PROVE UsageNamed(e)'
  <2>1. answer'[e] \in {[kind |-> "in-flight"],
                        [kind |-> "already-served", outcome |-> ledger[RequestOf[e]].outcome]}
    BY <1>4 DEF ClaimRefused, Say, TypeOK
  <2> QED BY <1>3, <2>1
<1>5. ASSUME ClaimGranted(e) PROVE UsageNamed(e)'
  <2>1. answer'[e] = None
    BY <1>5 DEF ClaimGranted, Phase, PhaseOf
  <2> QED BY <1>3, <2>1
<1>6. ASSUME Advance(e) \/ Die(e), ~CloseRun(e) PROVE UsageNamed(e)'
  <2>0. answer \in [Delivery -> Answer \cup {None}]
    BY DEF TypeOK
  <2>1. CASE OpenRun(e) \/ RefuseRoute(e) \/ RefuseClosedLog(e) \/ InvokeModel(e)
             \/ ProviderRefuses(e) \/ ProviderFailsTransiently(e)
    <3>1. pc[e] \in {"opening", "routing", "calling"}
      BY <2>1 DEF OpenRun, RefuseRoute, RefuseClosedLog, InvokeModel, ProviderRefuses,
                  ProviderFailsTransiently
    <3>2. answer[e] = None
      BY <3>1 DEF Phase, PhaseOf
    <3>3. \/ answer' = answer
          \/ \E why : answer' = [answer EXCEPT ![e] = [kind |-> "provider-failed", reason |-> why]]
          \/ \E why : answer' = [answer EXCEPT ![e] = [kind |-> "refused", reason |-> why]]
      <4>1. CASE OpenRun(e)
        BY <4>1 DEF OpenRun, Say
      <4>2. CASE RefuseRoute(e)
        BY <4>2 DEF RefuseRoute, Say
      <4>3. CASE RefuseClosedLog(e)
        BY <4>3 DEF RefuseClosedLog, Say
      <4>4. CASE InvokeModel(e)
        BY <4>4 DEF InvokeModel, Say
      <4>5. CASE ProviderRefuses(e)
        BY <4>5 DEF ProviderRefuses, Say
      <4>6. CASE ProviderFailsTransiently(e)
        BY <4>6 DEF ProviderFailsTransiently, Say
      <4> QED BY <2>1, <4>1, <4>2, <4>3, <4>4, <4>5, <4>6
    <3>4. answer'[e] = answer[e] \/ answer'[e].kind \in {"refused", "provider-failed"}
      BY <2>0, <3>3
    <3> QED BY <1>3, <3>2, <3>4
  <2>2. CASE OpenRunUnsealed(e) \/ CloseRunUnsealed(e)
    <3>1. answer'[e].kind = "provider-failed"
      BY <2>0, <2>2 DEF OpenRunUnsealed, CloseRunUnsealed, Say
    <3> QED BY <1>3, <3>1
  <2>3. CASE ProviderServes(e) \/ FailRun(e) \/ FailRunUnsealed(e) \/ Die(e)
    BY <1>1, <2>3 DEF ProviderServes, FailRun, FailRunUnsealed, Die, runVars
  <2> QED BY <1>6, <2>1, <2>2, <2>3 DEF Advance
<1>7. CASE SweepExpired \/ Tick \/ UNCHANGED vars
  BY <1>1, <1>7 DEF SweepExpired, Tick, vars, runVars
<1> QED BY <1>2, <1>4, <1>5, <1>6, <1>7, CloseNames DEF Next, Advance

\* A usage entry is never owed to another provider than the one that answered,
\* however many failed before it.
THEOREM UsageIsOwed == Spec => []UsageNamesTheServingProvider
<1>1. Init => UsageNamesTheServingProvider
  BY DEF Init, UsageNamesTheServingProvider
<1>2. IInv => TypeOK /\ Phase
  BY DEF IInv
<1> QED BY <1>1, <1>2, UsageStep, Inductive, PTL DEF Spec
-----------------------------------------------------------------------------
(* What a fold over a log gives, entry by entry.  The library's induction   *)
(* theorems quantify over operators; a set of numbers does as well.         *)

\* Induction over the naturals, for the set of the numbers a claim holds of.
LEMMA SetInduction ==
    ASSUME NEW S, 0 \in S, \A n \in Nat : n \in S => n + 1 \in S
    PROVE  Nat \subseteq S
<1> SUFFICES ASSUME Nat \ S # {} PROVE FALSE
  OBVIOUS
<1> DEFINE R == OpToRel(<, Nat)
           U == Nat \ S
<1>1. IsWellFoundedOn(R, Nat)
  BY NatLessThanWellFounded
<1>2. \E x \in U : \A y \in U : <<y, x>> \notin R
  <2>1. U \subseteq Nat /\ U # {}
    OBVIOUS
  <2> HIDE DEF R, U
  <2> QED BY <1>1, <2>1, WFMin
<1>3. PICK x \in Nat \ S : \A y \in Nat \ S : ~(y < x)
  BY <1>2 DEF OpToRel
<1>4. x # 0 /\ x - 1 \in Nat /\ (x - 1) + 1 = x /\ x - 1 < x
  OBVIOUS
<1> QED BY <1>3, <1>4

\* The function by which the fold reads the entries of s at a set of positions.
Reads(g, n, s) ==
    g = [u \in SUBSET (1 .. n) |->
           IF u = {} THEN <<>> ELSE Naming(g[u \ {Max(u)}], s[Max(u)])]

\* The greatest position is the last.
LEMMA MaxIsLast ==
    ASSUME NEW n \in Nat, NEW u \in SUBSET (1 .. n + 1), n + 1 \in u
    PROVE  Max(u) = n + 1
<1>1. \A y \in u : n + 1 >= y
  OBVIOUS
<1>2. \A x \in u : (\A y \in u : x >= y) => x = n + 1
  <2> TAKE x \in u
  <2>1. x \in 1 .. n + 1
    OBVIOUS
  <2> QED BY <2>1
<1> QED BY <1>1, <1>2 DEF Max

\* There is such a function.
LEMMA ReadsExists == ASSUME NEW s, NEW m \in Nat PROVE \E g : Reads(g, m, s)
<1> DEFINE S == {n \in Nat : \E g : Reads(g, n, s)}
<1>1. 0 \in S
  <2> DEFINE g == [u \in SUBSET (1 .. 0) |-> <<>>]
  <2>1. \A u \in SUBSET (1 .. 0) : u = {}
    OBVIOUS
  <2>2. Reads(g, 0, s)
    BY <2>1 DEF Reads
  <2> QED BY <2>2
<1>2. ASSUME NEW n \in Nat, n \in S PROVE n + 1 \in S
  <2>1. PICK g : Reads(g, n, s)
    BY <1>2
  <2> DEFINE next(u) == IF n + 1 \in u THEN Naming(g[u \ {n + 1}], s[n + 1]) ELSE g[u]
             h == [u \in SUBSET (1 .. n + 1) |-> next(u)]
             read(u) == IF u = {} THEN <<>> ELSE Naming(h[u \ {Max(u)}], s[Max(u)])
  <2>2. \A u \in SUBSET (1 .. n) : u \in SUBSET (1 .. n + 1) /\ n + 1 \notin u /\ h[u] = g[u]
    OBVIOUS
  <2>3. ASSUME NEW u \in SUBSET (1 .. n + 1) PROVE next(u) = read(u)
    <3>1. CASE n + 1 \in u
      <4>1. Max(u) = n + 1 /\ u # {}
        BY <3>1, MaxIsLast
      <4>2. u \ {n + 1} \in SUBSET (1 .. n)
        OBVIOUS
      <4>3. h[u \ {n + 1}] = g[u \ {n + 1}]
        BY <2>2, <4>2
      <4> QED BY <3>1, <4>1, <4>3
    <3>2. CASE n + 1 \notin u
      <4>0. \A x \in u : x \in 1 .. n
        BY <3>2
      <4>1. u \in SUBSET (1 .. n) /\ u \ {Max(u)} \in SUBSET (1 .. n)
        BY <4>0
      <4>2. g[u] = IF u = {} THEN <<>> ELSE Naming(g[u \ {Max(u)}], s[Max(u)])
        BY <2>1, <4>1 DEF Reads
      <4>3. h[u \ {Max(u)}] = g[u \ {Max(u)}]
        BY <2>2, <4>1
      <4> QED BY <3>2, <4>2, <4>3
    <3> QED BY <3>1, <3>2
  <2>4. h = [u \in SUBSET (1 .. n + 1) |-> read(u)]
    BY <2>3
  <2>5. Reads(h, n + 1, s)
    BY <2>4 DEF Reads
  <2> QED BY <2>5
<1>3. Nat \subseteq S
  <2> HIDE DEF S
  <2> QED BY <1>1, <1>2, SetInduction
<1> QED BY <1>3

\* The last of some entries is read after the others.
LEMMA ReadsLast ==
    ASSUME NEW s, NEW m \in Nat, NEW g, Reads(g, m, s), NEW k \in Nat, k + 1 <= m
    PROVE  g[1 .. k + 1] = Naming(g[1 .. k], s[k + 1])
<1> DEFINE u == 1 .. k + 1
<1>1. u \in SUBSET (1 .. m) /\ k + 1 \in u /\ u # {} /\ u \ {k + 1} = 1 .. k
  OBVIOUS
<1>2. Max(u) = k + 1
  BY <1>1, MaxIsLast
<1> HIDE DEF u
<1>3. g[u] = IF u = {} THEN <<>> ELSE Naming(g[u \ {Max(u)}], s[Max(u)])
  BY <1>1 DEF Reads
<1>4. g[u] = Naming(g[1 .. k], s[k + 1])
  BY <1>1, <1>2, <1>3
<1> QED BY <1>4 DEF u

\* The entries up to a position are read the same way in a longer log.
LEMMA ReadsAgree ==
    ASSUME NEW s, NEW t, NEW n \in Nat, NEW m \in Nat, n <= m,
           \A i \in 1 .. n : s[i] = t[i],
           NEW g, Reads(g, n, s), NEW h, Reads(h, m, t)
    PROVE  \A k \in 0 .. n : g[1 .. k] = h[1 .. k]
<1> DEFINE S == {k \in Nat : k <= n => g[1 .. k] = h[1 .. k]}
<1>1. 0 \in S
  <2>1. 1 .. 0 = {} /\ {} \in SUBSET (1 .. n) /\ {} \in SUBSET (1 .. m)
    OBVIOUS
  <2>2. g[{}] = <<>> /\ h[{}] = <<>>
    BY <2>1 DEF Reads
  <2> QED BY <2>1, <2>2
<1>2. ASSUME NEW k \in Nat, k \in S PROVE k + 1 \in S
  <2> SUFFICES ASSUME k + 1 <= n PROVE g[1 .. k + 1] = h[1 .. k + 1]
    OBVIOUS
  <2>1. k + 1 <= m /\ k + 1 \in 1 .. n
    OBVIOUS
  <2>4. g[1 .. k + 1] = Naming(g[1 .. k], s[k + 1])
    <3>1. Reads(g, n, s) /\ k + 1 <= n
      OBVIOUS
    <3> HIDE DEF S
    <3> QED BY <3>1, ReadsLast
  <2>5. h[1 .. k + 1] = Naming(h[1 .. k], t[k + 1])
    <3>1. Reads(h, m, t) /\ k + 1 <= m
      BY <2>1
    <3> HIDE DEF S
    <3> QED BY <3>1, ReadsLast
  <2>6. g[1 .. k] = h[1 .. k] /\ s[k + 1] = t[k + 1]
    BY <1>2, <2>1
  <2> QED BY <2>4, <2>5, <2>6
<1>3. Nat \subseteq S
  <2> HIDE DEF S
  <2> QED BY <1>1, <1>2, SetInduction
<1> QED BY <1>3

\* What is named by a log is read by such a function.
LEMMA NamedIsRead ==
    ASSUME NEW s \in Seq(Entry)
    PROVE  \E g : Reads(g, Len(s), s) /\ Named(s) = g[1 .. Len(s)]
<1> DEFINE g == CHOOSE f : Reads(f, Len(s), s)
<1>1. Len(s) \in Nat /\ DOMAIN s = 1 .. Len(s)
  OBVIOUS
<1>2. Reads(g, Len(s), s)
  BY <1>1, ReadsExists
<1>3. Named(s) = g[1 .. Len(s)]
  BY <1>1 DEF Named, FoldLeft, MapThenFoldSet, Reads
<1> QED BY <1>2, <1>3

\* An empty log names nobody, and one entry more names one provider more, or
\* none more.
LEMMA NamedFacts ==
    /\ Named(<<>>) = <<>>
    /\ \A s \in Seq(Entry), e \in Entry : Named(Append(s, e)) = Naming(Named(s), e)
<1>1. Named(<<>>) = <<>>
  <2>1. PICK g : Reads(g, Len(<<>>), <<>>) /\ Named(<<>>) = g[1 .. Len(<<>>)]
    <3>1. <<>> \in Seq(Entry)
      OBVIOUS
    <3> QED BY <3>1, NamedIsRead
  <2>2. Len(<<>>) = 0 /\ 1 .. 0 = {}
    OBVIOUS
  <2>3. g[{}] = <<>>
    BY <2>1, <2>2 DEF Reads
  <2> QED BY <2>1, <2>2, <2>3
<1>2. ASSUME NEW s \in Seq(Entry), NEW e \in Entry
      PROVE  Named(Append(s, e)) = Naming(Named(s), e)
  <2> DEFINE n == Len(s)
             t == Append(s, e)
  <2>1. /\ n \in Nat /\ t \in Seq(Entry) /\ Len(t) = n + 1 /\ t[n + 1] = e
        /\ \A i \in 1 .. n : s[i] = t[i]
    BY AppendFacts
  <2> HIDE DEF n, t
  <2>2. PICK g : Reads(g, n, s) /\ Named(s) = g[1 .. n]
    BY NamedIsRead DEF n
  <2>3. PICK h : Reads(h, n + 1, t) /\ Named(t) = h[1 .. n + 1]
    BY <2>1, NamedIsRead
  <2>4. g[1 .. n] = h[1 .. n]
    <3>1. n <= n + 1 /\ n \in 0 .. n
      BY <2>1
    <3> QED BY <2>1, <2>2, <2>3, <3>1, ReadsAgree
  <2>5. h[1 .. n + 1] = Naming(h[1 .. n], t[n + 1])
    <3>1. n + 1 <= n + 1 /\ n + 1 \in Nat
      BY <2>1
    <3>2. Reads(h, n + 1, t)
      BY <2>3
    <3> QED BY <2>1, <3>1, <3>2, ReadsLast
  <2> QED BY <2>1, <2>2, <2>3, <2>4, <2>5 DEF t
<1> QED BY <1>1, <1>2
-----------------------------------------------------------------------------
\* What a log names are providers, whatever its length.
LEMMA NamedType == \A s \in Seq(Entry) : Named(s) \in Seq(Provider)
<1> DEFINE S == {n \in Nat : \A s \in Seq(Entry) : Len(s) = n => Named(s) \in Seq(Provider)}
<1>1. 0 \in S
  <2>1. \A s \in Seq(Entry) : Len(s) = 0 => s = <<>>
    OBVIOUS
  <2> QED BY <2>1, NamedFacts
<1>2. ASSUME NEW n \in Nat, n \in S PROVE n + 1 \in S
  <2> SUFFICES ASSUME NEW s \in Seq(Entry), Len(s) = n + 1
               PROVE  Named(s) \in Seq(Provider)
    OBVIOUS
  <2> DEFINE front == SubSeq(s, 1, n)
             e == s[n + 1]
  <2>1. front \in Seq(Entry) /\ Len(front) = n /\ e \in Entry /\ s = Append(front, e)
    OBVIOUS
  <2>2. Named(front) \in Seq(Provider)
    BY <1>2, <2>1
  <2>3. e.kind = "model-invoked" => e.provider \in Provider
    BY <2>1 DEF Entry
  <2>4. Named(s) = Naming(Named(front), e)
    BY <2>1, NamedFacts
  <2> HIDE DEF front, e
  <2> QED BY <2>2, <2>3, <2>4 DEF Naming
<1>3. Nat \subseteq S
  <2> HIDE DEF S
  <2> QED BY <1>1, <1>2, SetInduction
<1> QED BY <1>3

\* A beginning of a log stays one when the log grows.
LEMMA StillBegins ==
    ASSUME NEW earlier, NEW s \in Seq(Entry), NEW e \in Entry, IsPrefix(earlier, s),
           Len(earlier) \in Nat
    PROVE  IsPrefix(earlier, Append(s, e))
<1> DEFINE n == Len(earlier)
<1>1. Len(s) \in Nat /\ n <= Len(s) /\ Len(Append(s, e)) = Len(s) + 1
  BY AppendFacts DEF IsPrefix
<1>2. SubSeq(Append(s, e), 1, n) = SubSeq(s, 1, n)
  BY <1>1
<1> QED BY <1>1, <1>2 DEF IsPrefix

\* What one delivery's log names.
NamesCalls(d, earlier) ==
    /\ IsPrefix(earlier, log[d])
    /\ \/ Named(log[d]) = Named(earlier) \o attempted[d]
       \/ /\ answer[d] = [kind |-> "provider-failed", reason |-> "no-adapter-for-provider"]
          /\ \E p \in Provider \ Adapter :
                Named(log[d]) = Append(Named(earlier) \o attempted[d], p)

Beginnings == {<<>>} \cup EarlierLogs

\* Appending to the second of two sequences appends to their concatenation.
LEMMA AppendToConcat ==
    ASSUME NEW T, NEW s \in Seq(T), NEW t \in Seq(T), NEW x \in T
    PROVE  Append(s \o t, x) = s \o Append(t, x)
<1> DEFINE a == Append(s \o t, x)
           b == s \o Append(t, x)
<1>1. Append(t, x) \in Seq(T) /\ Len(Append(t, x)) = Len(t) + 1
  OBVIOUS
<1>2. s \o t \in Seq(T) /\ Len(s \o t) = Len(s) + Len(t)
  OBVIOUS
<1>3. a \in Seq(T) /\ Len(a) = Len(s) + Len(t) + 1
  BY <1>2
<1>4. b \in Seq(T) /\ Len(b) = Len(s) + Len(t) + 1
  BY <1>1
<1>5. Len(s) \in Nat /\ Len(t) \in Nat
  OBVIOUS
<1>6. ASSUME NEW i \in 1..(Len(s) + Len(t) + 1) PROVE a[i] = b[i]
  <2>1. CASE i <= Len(s)
    <3>1. a[i] = (s \o t)[i]
      BY <1>2, <1>5, <2>1
    <3> QED BY <1>1, <1>5, <2>1, <3>1
  <2>2. CASE i > Len(s) /\ i <= Len(s) + Len(t)
    <3>1. a[i] = (s \o t)[i]
      BY <1>2, <1>5, <2>2
    <3>2. b[i] = Append(t, x)[i - Len(s)]
      BY <1>1, <1>5, <2>2
    <3> QED BY <1>5, <2>2, <3>1, <3>2
  <2>3. CASE i = Len(s) + Len(t) + 1
    <3>1. a[i] = x
      BY <1>2, <1>5, <2>3
    <3>2. b[i] = Append(t, x)[Len(t) + 1]
      BY <1>1, <1>5, <2>3
    <3> QED BY <1>5, <3>1, <3>2
  <2> QED BY <1>5, <2>1, <2>2, <2>3
<1> HIDE DEF a, b
<1>7. a = b
  BY <1>3, <1>4, <1>5, <1>6
<1> QED BY <1>7 DEF a, b

\* The call of a provider is named, and a provider without an adapter is named
\* beside the failure it ends in.
LEMMA InvokeNames ==
    ASSUME TypeOK, Phase, NEW d \in Delivery, NEW earlier \in Beginnings,
           NamesCalls(d, earlier), InvokeModel(d)
    PROVE  NamesCalls(d, earlier)'
<1>1. /\ answer[d] = None /\ log[d] \in Seq(Entry) /\ attempted[d] \in Seq(Provider)
      /\ log \in [Delivery -> Seq(Entry)] /\ attempted \in [Delivery -> Seq(Provider)]
      /\ answer \in [Delivery -> Answer \cup {None}]
      /\ earlier \in Seq(Entry) /\ Len(earlier) \in Nat
  <2>1. /\ log \in [Delivery -> Seq(Entry)] /\ attempted \in [Delivery -> Seq(Provider)]
        /\ answer \in [Delivery -> Answer \cup {None}]
    BY DEF TypeOK
  <2>2. answer[d] = None
    BY DEF InvokeModel, Phase, PhaseOf
  <2>3. earlier \in Seq(Entry)
    <3>1. EarlierLogs \subseteq Seq(Entry) /\ <<>> \in Seq(Entry)
      BY ServeAssumption
    <3> QED BY <3>1 DEF Beginnings
  <2> QED BY <2>1, <2>2, <2>3
<1>2. Named(log[d]) = Named(earlier) \o attempted[d]
  <2>1. [kind |-> "provider-failed", reason |-> "no-adapter-for-provider"] \in Answer
    BY DEF Answer, Rejection
  <2> QED BY <1>1, <2>1, ServeAssumption DEF NamesCalls
<1>3. PICK p \in Provider :
        /\ log'[d] = Append(log[d], [kind |-> "model-invoked", provider |-> p])
        /\ \/ attempted'[d] = Append(attempted[d], p)
           \/ /\ p \notin Adapter /\ attempted'[d] = attempted[d]
              /\ answer'[d] = [kind |-> "provider-failed", reason |-> "no-adapter-for-provider"]
  BY <1>1 DEF InvokeModel, Say
<1> DEFINE call == [kind |-> "model-invoked", provider |-> p]
<1>4. call \in Entry /\ call.kind = "model-invoked" /\ call.provider = p
  BY DEF Entry
<1>5. IsPrefix(earlier, log'[d])
  BY <1>1, <1>3, <1>4, StillBegins DEF NamesCalls
<1>6. Named(log'[d]) = Append(Named(log[d]), p)
  BY <1>1, <1>3, <1>4, NamedFacts DEF Naming
<1>7. Named(earlier) \in Seq(Provider)
  BY <1>1, NamedType
<1>8. Append(Named(earlier) \o attempted[d], p) = Named(earlier) \o Append(attempted[d], p)
  <2>1. attempted[d] \in Seq(Provider) /\ p \in Provider
    BY <1>1
  <2>2. \A s, t \in Seq(Provider) : \A x \in Provider : Append(s \o t, x) = s \o Append(t, x)
    BY AppendToConcat
  <2> HIDE DEF call
  <2> QED BY <1>7, <2>1, <2>2
<1> QED BY <1>2, <1>3, <1>5, <1>6, <1>8 DEF NamesCalls

\* A claim starts with a log of its own and no attempt.
LEMMA ClaimNames ==
    ASSUME TypeOK, Phase, NEW d \in Delivery, ClaimGranted(d)
    PROVE  \E earlier \in Beginnings : NamesCalls(d, earlier)'
<1>1. log \in [Delivery -> Seq(Entry)] /\ attempted' = attempted /\ attempted[d] = <<>>
  BY DEF ClaimGranted, Phase, PhaseOf, TypeOK
<1>2. PICK earlier \in EarlierLogs : log'[d] = earlier
  BY <1>1 DEF ClaimGranted
<1>3. earlier \in Seq(Entry)
  BY ServeAssumption
<1>4. Named(earlier) \in Seq(Provider)
  BY <1>3, NamedType
<1>5. Named(earlier) \o <<>> = Named(earlier)
  BY <1>4
<1>6. IsPrefix(earlier, earlier)
  BY <1>3 DEF IsPrefix
<1> QED BY <1>1, <1>2, <1>5, <1>6 DEF NamesCalls, Beginnings

\* Every step of a delivery leaves what its log names true.
LEMMA NamesStep == TypeOK /\ Phase /\ LogNamesEveryCall /\ [Next]_vars => LogNamesEveryCall'
<1> SUFFICES ASSUME TypeOK, Phase, LogNamesEveryCall, [Next]_vars, NEW e \in Delivery
             PROVE  \E earlier \in Beginnings : NamesCalls(e, earlier)'
  BY DEF LogNamesEveryCall, NamesCalls, Beginnings
<1>0. PICK earlier \in Beginnings : NamesCalls(e, earlier)
  BY DEF LogNamesEveryCall, NamesCalls, Beginnings
<1>a. /\ log \in [Delivery -> Seq(Entry)] /\ answer \in [Delivery -> Answer \cup {None}]
      /\ log[e] \in Seq(Entry) /\ Len(earlier) \in Nat
  BY ServeAssumption DEF TypeOK, Beginnings
<1>1. ASSUME log'[e] = log[e], attempted'[e] = attempted[e],
             answer'[e] = answer[e] \/ answer[e] = None
      PROVE  NamesCalls(e, earlier)'
  <2>1. [kind |-> "provider-failed", reason |-> "no-adapter-for-provider"] # None
    <3>1. [kind |-> "provider-failed", reason |-> "no-adapter-for-provider"] \in Answer
      BY DEF Answer, Rejection
    <3> QED BY <3>1, ServeAssumption
  <2> QED BY <1>0, <1>1, <2>1 DEF NamesCalls
<1>2. ASSUME NEW entry \in Entry, entry.kind # "model-invoked",
             log'[e] = Append(log[e], entry), attempted'[e] = attempted[e],
             answer'[e] = answer[e] \/ answer[e] = None
      PROVE  NamesCalls(e, earlier)'
  <2>1. [kind |-> "provider-failed", reason |-> "no-adapter-for-provider"] # None
    <3>1. [kind |-> "provider-failed", reason |-> "no-adapter-for-provider"] \in Answer
      BY DEF Answer, Rejection
    <3> QED BY <3>1, ServeAssumption
  <2>2. Named(log'[e]) = Named(log[e])
    BY <1>a, <1>2, NamedFacts DEF Naming
  <2>3. IsPrefix(earlier, log'[e])
    BY <1>0, <1>a, <1>2, StillBegins DEF NamesCalls
  <2> QED BY <1>0, <1>2, <2>1, <2>2, <2>3 DEF NamesCalls
<1>3. ASSUME NEW d \in Delivery, d # e, ClaimRefused(d) \/ ClaimGranted(d) \/ Advance(d) \/ Die(d)
      PROVE  NamesCalls(e, earlier)'
  BY <1>1, <1>3, OthersUnmoved
<1>4. CASE ClaimGranted(e)
  BY <1>4, ClaimNames
<1>5. CASE InvokeModel(e)
  BY <1>0, <1>5, InvokeNames
<1>6. CASE OpenRun(e)
  <2>1. answer[e] = None /\ attempted'[e] = attempted[e]
    BY <1>6 DEF OpenRun, Phase, PhaseOf
  <2>2. \/ log'[e] = log[e]
        \/ log'[e] = Append(log[e], [kind |-> "run-started"])
    BY <1>6, <1>a DEF OpenRun
  <2>3. [kind |-> "run-started"] \in Entry
    BY DEF Entry
  <2> QED BY <1>1, <1>2, <2>1, <2>2, <2>3
<1>7. CASE CloseRun(e)
  <2>1. /\ answer[e] = None /\ attempted'[e] = attempted[e]
        /\ log'[e] = Append(log[e], [kind |-> "usage-recorded", invocationSeq |-> invocation[e]])
        /\ log[e] # <<>> /\ invocation[e] = Len(log[e]) - 1
    BY <1>7, <1>a DEF CloseRun, Phase, PhaseOf, LastInvocation
  <2>2. invocation[e] \in Nat
    BY <1>a, <2>1
  <2>3. [kind |-> "usage-recorded", invocationSeq |-> invocation[e]] \in Entry
    BY <2>2 DEF Entry
  <2> QED BY <1>2, <2>1, <2>3
<1>8. CASE \/ ClaimRefused(e) \/ OpenRunUnsealed(e) \/ RefuseRoute(e) \/ RefuseClosedLog(e)
           \/ ProviderServes(e) \/ ProviderRefuses(e) \/ ProviderFailsTransiently(e)
           \/ CloseRunUnsealed(e)
  <2>1. answer[e] = None
    BY <1>8 DEF ClaimRefused, OpenRunUnsealed, RefuseRoute, RefuseClosedLog, ProviderServes,
                ProviderRefuses, ProviderFailsTransiently, CloseRunUnsealed, Phase, PhaseOf
  <2>2. log' = log /\ attempted' = attempted
    BY <1>8 DEF ClaimRefused, OpenRunUnsealed, RefuseRoute, RefuseClosedLog, ProviderServes,
                ProviderRefuses, ProviderFailsTransiently, CloseRunUnsealed
  <2> QED BY <1>1, <2>1, <2>2
<1>9. CASE FailRun(e) \/ FailRunUnsealed(e) \/ Die(e) \/ SweepExpired \/ Tick \/ UNCHANGED vars
  BY <1>1, <1>9 DEF FailRun, FailRunUnsealed, Die, SweepExpired, Tick, vars, runVars
<1> QED BY <1>3, <1>4, <1>5, <1>6, <1>7, <1>8, <1>9 DEF Next, Advance

\* The log is the one place that says what was called and whom the usage is owed
\* to: it leaves no call out, and it invents none.
THEOREM CallsAreTold == Spec => []LogTellsTheCalls
<1>1. Init => LogNamesEveryCall
  <2> SUFFICES ASSUME Init, NEW d \in Delivery PROVE NamesCalls(d, <<>>)
    BY DEF LogNamesEveryCall, NamesCalls, Beginnings
  <2>1. log[d] = <<>> /\ attempted[d] = <<>> /\ <<>> \o <<>> = <<>>
    BY DEF Init
  <2>2. IsPrefix(<<>>, <<>>)
    BY DEF IsPrefix
  <2> QED BY <2>1, <2>2, NamedFacts DEF NamesCalls
<1>2. IInv => TypeOK /\ Phase
  BY DEF IInv
<1>3. LogNamesEveryCall /\ UsageNamesTheServingProvider => LogTellsTheCalls
  BY DEF LogTellsTheCalls
<1> QED BY <1>1, <1>2, <1>3, NamesStep, Inductive, UsageIsOwed, PTL DEF Spec
=============================================================================
