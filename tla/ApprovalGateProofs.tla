------------------------- MODULE ApprovalGateProofs -------------------------
(***************************************************************************)
(* Proofs about ApprovalGate, for every set of reviews, consoles and       *)
(* reviewers, every lane policy and every retention.  The inductive        *)
(* invariant relates, for each review, its row, its requester and its      *)
(* first verdict, and for each console the click it has not yet written.   *)
(***************************************************************************)
EXTENDS ApprovalGate, TLAPS

\* A queued row is the one whose verdict is remembered, and it says the same.
RowIsSettled(v) ==
    reviews[v] # NoRow =>
        settled[v] = IF reviews[v].state = "pending" THEN None ELSE reviews[v].state

\* Whoever has been told something was told what the verdict means.
ToldTheVerdict(v) ==
    told[v] # None => settled[v] # None /\ told[v] = Resolve(v, settled[v])

\* Where its requester is, a review is known to be.
Phase(v) ==
    /\ pc[v] = "idle" => reviews[v] = NoRow /\ settled[v] = None
    /\ pc[v] # "resolved" => told[v] = None
    /\ pc[v] \in {"waiting", "expiring"} =>
          reviews[v] # NoRow /\ now <= PollBy(reviews[v])

\* The times written in a row.
RowTimes(v) ==
    reviews[v] # NoRow =>
        /\ reviews[v].presentedAt <= now
        /\ reviews[v].state = "timed-out" => reviews[v].decidedAt = reviews[v].deadlineAt

Considered(v) ==
    reviews[v] # NoRow /\ reviews[v].state = "approved" =>
        /\ reviews[v].reviewer # None
        /\ reviews[v].reviewer = reviews[v].presentedTo
        /\ reviews[v].tookMs >= Floor[LaneOf[v]]
        /\ reviews[v].decidedAt = reviews[v].presentedAt + reviews[v].tookMs
        /\ reviews[v].decidedAt < reviews[v].deadlineAt

ReviewInv(v) ==
    RowIsSettled(v) /\ ToldTheVerdict(v) /\ Phase(v) /\ RowTimes(v) /\ Considered(v)

\* A click kept its distance from the presentation it was taken on.
ClickInv(c) ==
    click[c] # None =>
        /\ click[c].at <= now /\ now <= click[c].at + Slack
        /\ click[c].presentedAt <= click[c].at
        /\ click[c].state = "approved" =>
              click[c].at >= click[c].presentedAt + Floor[LaneOf[click[c].review]]

IInv ==
    /\ TypeOK
    /\ \A v \in Review : ReviewInv(v)
    /\ \A c \in Console : ClickInv(c)
-----------------------------------------------------------------------------
\* What the statements write.
LEMMA QueuedFacts ==
    ASSUME NEW d \in Nat
    PROVE  /\ Queued(d) \in Row
           /\ Queued(d).state = "pending" /\ Queued(d).deadlineAt = d
           /\ Queued(d).presentedAt = 0
BY SMT DEF Queued, Row, State

\* A row stays a row when one field is written.
LEMMA RowUpdates ==
    ASSUME NEW row \in Row
    PROVE  /\ \A s \in State : [row EXCEPT !.state = s] \in Row
           /\ \A who \in Reviewer : [row EXCEPT !.presentedTo = who] \in Row
           /\ \A who \in Reviewer : [row EXCEPT !.reviewer = who] \in Row
           /\ \A n \in Nat : [row EXCEPT !.presentedAt = n] \in Row
           /\ \A n \in Nat : [row EXCEPT !.decidedAt = n] \in Row
           /\ \A n \in Nat : [row EXCEPT !.tookMs = n] \in Row
<1>1. \A s \in State : [row EXCEPT !.state = s] \in Row  BY SMT DEF Row
<1>2. \A who \in Reviewer : [row EXCEPT !.presentedTo = who] \in Row  BY SMT DEF Row
<1>3. \A who \in Reviewer : [row EXCEPT !.reviewer = who] \in Row  BY SMT DEF Row
<1>4. \A n \in Nat : [row EXCEPT !.presentedAt = n] \in Row  BY SMT DEF Row
<1>5. \A n \in Nat : [row EXCEPT !.decidedAt = n] \in Row  BY SMT DEF Row
<1>6. \A n \in Nat : [row EXCEPT !.tookMs = n] \in Row  BY SMT DEF Row
<1> QED  BY <1>1, <1>2, <1>3, <1>4, <1>5, <1>6

\* A presentation changes who saw a review and when, and nothing else.
LEMMA PresentedFacts ==
    ASSUME NEW row \in Row, NEW who \in Reviewer, now \in Nat
    PROVE  /\ Presented(row, who) \in Row
           /\ Presented(row, who).state = row.state
           /\ Presented(row, who).deadlineAt = row.deadlineAt
           /\ Presented(row, who).presentedTo = who
           /\ Presented(row, who).presentedAt = now
<1> DEFINE shown == [row EXCEPT !.presentedTo = who]
<1>1. shown \in Row  BY RowUpdates
<1>2. [shown EXCEPT !.presentedAt = now] \in Row  BY <1>1, RowUpdates
<1>3. Presented(row, who) = [shown EXCEPT !.presentedAt = now]
  BY DEF Presented, Row
<1>4. Presented(row, who) \in Row  BY <1>2, <1>3
<1>5. /\ Presented(row, who).state = row.state
      /\ Presented(row, who).deadlineAt = row.deadlineAt
      /\ Presented(row, who).presentedTo = who
      /\ Presented(row, who).presentedAt = now
  BY SMT DEF Presented, Row
<1> QED  BY <1>4, <1>5

\* An answer fits the row it was given to, if it was given after the presentation.
LEMMA AnsweredFacts ==
    ASSUME NEW row \in Row, NEW k \in Click, NEW who \in Reviewer,
           k.presentedAt <= k.at
    PROVE  /\ Answered(row, k, who) \in Row
           /\ Answered(row, k, who).state = k.state
           /\ Answered(row, k, who).deadlineAt = row.deadlineAt
           /\ Answered(row, k, who).presentedTo = row.presentedTo
           /\ Answered(row, k, who).presentedAt = row.presentedAt
           /\ Answered(row, k, who).reviewer = who
           /\ Answered(row, k, who).decidedAt = k.at
           /\ Answered(row, k, who).tookMs = k.at - k.presentedAt
<1>1. /\ k.state \in State /\ k.at \in Nat /\ k.at - k.presentedAt \in Nat
  BY SMT DEF Click, State
<1> DEFINE r1 == [row EXCEPT !.state = k.state]
           r2 == [r1 EXCEPT !.reviewer = who]
           r3 == [r2 EXCEPT !.decidedAt = k.at]
           r4 == [r3 EXCEPT !.tookMs = k.at - k.presentedAt]
<1>2. r1 \in Row  BY <1>1, RowUpdates
<1>3. r2 \in Row  BY <1>2, RowUpdates
<1>4. r3 \in Row  BY <1>1, <1>3, RowUpdates
<1>5. r4 \in Row  BY <1>1, <1>4, RowUpdates
<1>6. Answered(row, k, who) = r4  BY DEF Answered, Row
<1>7. Answered(row, k, who) \in Row  BY <1>5, <1>6
<1>8. /\ Answered(row, k, who).state = k.state
      /\ Answered(row, k, who).deadlineAt = row.deadlineAt
      /\ Answered(row, k, who).presentedTo = row.presentedTo
      /\ Answered(row, k, who).presentedAt = row.presentedAt
      /\ Answered(row, k, who).reviewer = who
      /\ Answered(row, k, who).decidedAt = k.at
      /\ Answered(row, k, who).tookMs = k.at - k.presentedAt
  BY SMT DEF Answered, Row
<1> QED  BY <1>7, <1>8

\* A deadline that passed leaves a review decided at the deadline.
LEMMA TimedOutFacts ==
    ASSUME NEW row \in Row
    PROVE  /\ TimedOut(row) \in Row
           /\ TimedOut(row).state = "timed-out"
           /\ TimedOut(row).deadlineAt = row.deadlineAt
           /\ TimedOut(row).decidedAt = row.deadlineAt
           /\ TimedOut(row).presentedTo = row.presentedTo
           /\ TimedOut(row).presentedAt = row.presentedAt
<1>1. row.deadlineAt \in Nat /\ "timed-out" \in State  BY DEF Row, State
<1> DEFINE late == [row EXCEPT !.state = "timed-out"]
<1>2. late \in Row  BY <1>1, RowUpdates
<1>3. [late EXCEPT !.decidedAt = row.deadlineAt] \in Row  BY <1>1, <1>2, RowUpdates
<1>4. TimedOut(row) = [late EXCEPT !.decidedAt = row.deadlineAt]
  BY DEF TimedOut, Row
<1>5. TimedOut(row) \in Row  BY <1>3, <1>4
<1>6. /\ TimedOut(row).state = "timed-out"
      /\ TimedOut(row).deadlineAt = row.deadlineAt
      /\ TimedOut(row).decidedAt = row.deadlineAt
      /\ TimedOut(row).presentedTo = row.presentedTo
      /\ TimedOut(row).presentedAt = row.presentedAt
  BY SMT DEF TimedOut, Row
<1> QED  BY <1>5, <1>6

\* A click carries the presentation it was made under.
LEMMA ClickOnFacts ==
    ASSUME NEW v \in Review, NEW s \in {"approved", "rejected"},
           now \in Nat, reviews[v] \in Row
    PROVE  /\ ClickOn(v, s) \in Click
           /\ ClickOn(v, s).review = v /\ ClickOn(v, s).state = s
           /\ ClickOn(v, s).at = now
           /\ ClickOn(v, s).presentedAt = reviews[v].presentedAt
BY SMT DEF ClickOn, Click, Row

\* The types of the fields of a row and of a click.
LEMMA RowFields ==
    ASSUME NEW row \in Row
    PROVE  /\ row.deadlineAt \in Nat /\ row.presentedAt \in Nat
           /\ row.decidedAt \in Nat /\ row.tookMs \in Nat
           /\ row.state \in State
           /\ row.presentedTo \in Reviewer \cup {None}
BY SMT DEF Row

\* The fields of a click.
LEMMA ClickFields ==
    ASSUME NEW k \in Click
    PROVE  /\ k.review \in Review /\ k.state \in {"approved", "rejected"}
           /\ k.presentedAt \in Nat /\ k.at \in Nat
BY SMT DEF Click

\* Whatever the outcome, an operation proceeds or is denied.
LEMMA ResolveType ==
    ASSUME NEW v, NEW outcome
    PROVE  Resolve(v, outcome) \in {"proceed", "denied"}
BY DEF Resolve
-----------------------------------------------------------------------------
\* What no action touches keeps its invariant.
LEMMA ReviewFrame ==
    ASSUME NEW v \in Review, ReviewInv(v), now' = now,
           reviews'[v] = reviews[v], pc'[v] = pc[v],
           told'[v] = told[v], settled'[v] = settled[v]
    PROVE  ReviewInv(v)'
BY DEF ReviewInv, RowIsSettled, ToldTheVerdict, Phase, RowTimes, Considered, PollBy

\* A click that nobody touched stays sound while the clock stands still.
LEMMA ClickFrame ==
    ASSUME NEW c \in Console, ClickInv(c), now' = now, click'[c] = click[c]
    PROVE  ClickInv(c)'
BY DEF ClickInv

\* The invariant holds at first: no review was requested.
LEMMA InitIInv == GateAssumption /\ Init => IInv
<1> SUFFICES ASSUME GateAssumption, Init PROVE IInv
  OBVIOUS
<1>1. TypeOK
  BY DEF Init, TypeOK, Location
<1>2. \A v \in Review : ReviewInv(v)
  BY DEF Init, ReviewInv, RowIsSettled, ToldTheVerdict, Phase, RowTimes, Considered
<1>3. \A c \in Console : ClickInv(c)
  BY DEF Init, ClickInv
<1> QED  BY <1>1, <1>2, <1>3 DEF IInv

\* A new review is queued pending, and presented to nobody.
LEMMA RequestKeepsIInv ==
    ASSUME GateAssumption, IInv, NEW v \in Review, Request(v)
    PROVE  IInv'
<1>1. /\ pc[v] = "idle" /\ pc' = [pc EXCEPT ![v] = "waiting"]
      /\ now' = now /\ click' = click /\ told' = told /\ settled' = settled
  BY DEF Request
<1>2. PICK lag \in 0..EnqueueLag :
          /\ lag <= now
          /\ reviews' = [reviews EXCEPT ![v] = Queued(now - lag + Sla[LaneOf[v]])]
  BY DEF Request
<1> DEFINE deadline == now - lag + Sla[LaneOf[v]]
<1>3. /\ now \in Nat /\ Slack \in Nat /\ deadline \in Nat /\ now <= deadline + Slack
  <2>1. now \in Nat /\ EnqueueLag \in Nat /\ Slack \in Nat /\ EnqueueLag <= Slack
        /\ Sla[LaneOf[v]] \in Nat
    BY DEF IInv, TypeOK, GateAssumption
  <2> QED  BY <2>1, <1>2
<1>4. /\ Queued(deadline) \in Row
      /\ Queued(deadline).state = "pending" /\ Queued(deadline).deadlineAt = deadline
      /\ Queued(deadline).presentedAt = 0
  BY <1>3, QueuedFacts
<1> HIDE DEF deadline
<1>5. reviews' = [reviews EXCEPT ![v] = Queued(deadline)]
  BY <1>2 DEF deadline
<1>6. TypeOK'
  BY <1>1, <1>4, <1>5 DEF IInv, TypeOK, Location
<1>7. ASSUME NEW w \in Review PROVE ReviewInv(w)'
  <2>1. CASE w # v
    <3>1. reviews'[w] = reviews[w] /\ pc'[w] = pc[w]
      BY <1>1, <1>5, <2>1 DEF IInv, TypeOK
    <3> QED  BY <3>1, <1>1, ReviewFrame DEF IInv
  <2>2. CASE w = v
    <3>1. reviews'[v] = Queued(deadline) /\ pc'[v] = "waiting"
      BY <1>1, <1>5 DEF IInv, TypeOK
    <3>2. settled[v] = None /\ told[v] = None
      BY <1>1 DEF IInv, ReviewInv, Phase
    <3>3. RowIsSettled(v)' /\ ToldTheVerdict(v)'
      BY <1>1, <1>4, <3>1, <3>2 DEF RowIsSettled, ToldTheVerdict
    <3>4. Phase(v)' /\ RowTimes(v)' /\ Considered(v)'
      <4>1. NoRow \notin Row  BY DEF GateAssumption
      <4>2. /\ reviews'[v] # NoRow /\ reviews'[v].state = "pending"
            /\ reviews'[v].deadlineAt = deadline /\ reviews'[v].presentedAt = 0
        BY <1>4, <3>1, <4>1
      <4>3. PollBy(reviews[v])' = deadline + Slack
        BY <4>2 DEF PollBy
      <4> QED  BY <1>1, <1>3, <3>1, <3>2, <4>2, <4>3 DEF Phase, RowTimes, Considered
    <3> QED  BY <2>2, <3>3, <3>4 DEF ReviewInv
  <2> QED  BY <2>1, <2>2
<1>8. ASSUME NEW c \in Console PROVE ClickInv(c)'
  BY <1>1, ClickFrame DEF IInv
<1> QED  BY <1>6, <1>7, <1>8 DEF IInv
\* An undecided row has no verdict, and its requester has been told nothing.
LEMMA PendingFacts ==
    ASSUME GateAssumption, IInv, NEW v \in Review, Pending(v)
    PROVE  reviews[v] \in Row /\ settled[v] = None /\ told[v] = None
BY DEF Pending, IInv, TypeOK, ReviewInv, RowIsSettled, ToldTheVerdict

\* Expiry, by whoever writes it.
LEMMA TimedOutKeepsIt ==
    ASSUME GateAssumption, IInv, NEW v \in Review, Pending(v), now' = now,
           reviews'[v] = TimedOut(reviews[v]), settled'[v] = "timed-out",
           \/ pc'[v] = pc[v] /\ told'[v] = told[v]
           \/ pc'[v] = "resolved" /\ told'[v] = Resolve(v, "timed-out")
    PROVE  ReviewInv(v)'
<1>1. reviews[v] \in Row /\ settled[v] = None /\ told[v] = None
  BY PendingFacts
<1>2. /\ reviews'[v] \in Row
      /\ reviews'[v].state = "timed-out"
      /\ reviews'[v].deadlineAt = reviews[v].deadlineAt
      /\ reviews'[v].decidedAt = reviews[v].deadlineAt
      /\ reviews'[v].presentedAt = reviews[v].presentedAt
  BY <1>1, TimedOutFacts
<1>3. reviews[v] # NoRow /\ reviews'[v] # NoRow /\ "timed-out" # None
  BY <1>1, <1>2 DEF GateAssumption, State
<1>4. RowIsSettled(v)' /\ ToldTheVerdict(v)'
  BY <1>1, <1>2, <1>3 DEF RowIsSettled, ToldTheVerdict
<1>5. PollBy(reviews[v])' = PollBy(reviews[v])
  BY <1>2, <1>3 DEF PollBy, Pending
<1>6. Phase(v)'
  <2>1. Phase(v) /\ pc[v] # "idle"
    BY <1>3 DEF IInv, ReviewInv, Phase
  <2> QED  BY <1>1, <1>3, <1>5, <2>1 DEF Phase
<1>7. RowTimes(v)' /\ Considered(v)'
  <2>1. RowTimes(v)
    BY DEF IInv, ReviewInv
  <2> QED  BY <1>2, <1>3, <2>1 DEF RowTimes, Considered
<1> QED  BY <1>4, <1>6, <1>7 DEF ReviewInv

\* A request that nobody will answer leaves no row.
LEMMA UnanswerableKeepsIInv ==
    ASSUME GateAssumption, IInv, NEW v \in Review, RequestUnanswerable(v)
    PROVE  IInv'
<1>1. /\ pc[v] = "idle" /\ pc' = [pc EXCEPT ![v] = "resolved"]
      /\ told' = [told EXCEPT ![v] = Resolve(v, "timed-out")]
      /\ settled' = [w \in Review |-> IF w \in {v} THEN "timed-out" ELSE settled[w]]
      /\ now' = now /\ reviews' = reviews /\ click' = click
  BY DEF RequestUnanswerable, Conclude, Settle
<1>2. TypeOK'
  BY <1>1, ResolveType DEF IInv, TypeOK, Location
<1>3. ASSUME NEW w \in Review PROVE ReviewInv(w)'
  <2>1. CASE w # v
    BY <1>1, <2>1, ReviewFrame DEF IInv, TypeOK
  <2>2. CASE w = v
    <3>1. reviews'[v] = NoRow /\ settled'[v] = "timed-out" /\ "timed-out" # None
      BY <1>1 DEF IInv, ReviewInv, Phase, GateAssumption, State
    <3>2. pc'[v] = "resolved" /\ told'[v] = Resolve(v, "timed-out")
      BY <1>1 DEF IInv, TypeOK
    <3> QED
      BY <2>2, <3>1, <3>2
      DEF ReviewInv, RowIsSettled, ToldTheVerdict, Phase, RowTimes, Considered
  <2> QED  BY <2>1, <2>2
<1>4. ASSUME NEW c \in Console PROVE ClickInv(c)'
  BY <1>1, ClickFrame DEF IInv
<1> QED  BY <1>2, <1>3, <1>4 DEF IInv

\* The operation resumes on what the row says.
LEMMA PollDecidedKeepsIInv ==
    ASSUME GateAssumption, IInv, NEW v \in Review, PollDecided(v)
    PROVE  IInv'
<1>1. /\ Decided(v)
      /\ pc' = [pc EXCEPT ![v] = "resolved"]
      /\ told' = [told EXCEPT ![v] = Resolve(v, reviews[v].state)]
      /\ now' = now /\ reviews' = reviews /\ click' = click /\ settled' = settled
  BY DEF PollDecided, Conclude
<1>2. TypeOK'
  BY <1>1, ResolveType DEF IInv, TypeOK, Location
<1>3. ASSUME NEW w \in Review PROVE ReviewInv(w)'
  <2>1. CASE w # v
    BY <1>1, <2>1, ReviewFrame DEF IInv, TypeOK
  <2>2. CASE w = v
    <3>1. settled[v] = reviews[v].state /\ settled[v] # None
      BY <1>1 DEF Decided, IInv, ReviewInv, RowIsSettled, GateAssumption, State
    <3>2. pc'[v] = "resolved" /\ told'[v] = Resolve(v, reviews[v].state)
      BY <1>1 DEF IInv, TypeOK
    <3>3. ToldTheVerdict(v)' /\ Phase(v)'
      BY <1>1, <3>1, <3>2 DEF ToldTheVerdict, Phase
    <3>4. RowIsSettled(v)' /\ RowTimes(v)' /\ Considered(v)'
      BY <1>1 DEF IInv, ReviewInv, RowIsSettled, RowTimes, Considered
    <3> QED  BY <2>2, <3>3, <3>4 DEF ReviewInv
  <2> QED  BY <2>1, <2>2
<1>4. ASSUME NEW c \in Console PROVE ClickInv(c)'
  BY <1>1, ClickFrame DEF IInv
<1> QED  BY <1>2, <1>3, <1>4 DEF IInv

\* A poll past the deadline, or a crash, ends the wait and not the review.
LEMMA PollOverdueKeepsIInv ==
    ASSUME GateAssumption, IInv, NEW v \in Review, PollOverdue(v) \/ Crash(v)
    PROVE  IInv'
<1>1. PICK there \in {"expiring", "crashed"} :
          /\ pc[v] \in {"waiting", "expiring"}
          /\ pc' = [pc EXCEPT ![v] = there]
          /\ now' = now /\ reviews' = reviews /\ click' = click
          /\ told' = told /\ settled' = settled
  BY DEF PollOverdue, Crash
<1>2. TypeOK'
  BY <1>1 DEF IInv, TypeOK, Location
<1>3. ASSUME NEW w \in Review PROVE ReviewInv(w)'
  <2>1. CASE w # v
    BY <1>1, <2>1, ReviewFrame DEF IInv, TypeOK
  <2>2. CASE w = v
    <3>1. pc'[v] = there
      BY <1>1 DEF IInv, TypeOK
    <3>2. ReviewInv(v)
      BY DEF IInv
    <3>3. Phase(v)'
      BY <1>1, <3>1, <3>2 DEF ReviewInv, Phase, PollBy
    <3>4. RowIsSettled(v)' /\ ToldTheVerdict(v)' /\ RowTimes(v)' /\ Considered(v)'
      BY <1>1, <3>2 DEF ReviewInv, RowIsSettled, ToldTheVerdict, RowTimes, Considered
    <3> QED  BY <2>2, <3>3, <3>4 DEF ReviewInv
  <2> QED  BY <2>1, <2>2
<1>4. ASSUME NEW c \in Console PROVE ClickInv(c)'
  BY <1>1, ClickFrame DEF IInv
<1> QED  BY <1>2, <1>3, <1>4 DEF IInv
\* A requester that has stopped waiting found either its own expiry or the row's
\* verdict: its row is still there.
LEMMA ExpireKeepsIInv ==
    ASSUME GateAssumption, IInv, NEW v \in Review, ExpireAndReread(v)
    PROVE  IInv'
<1>1. /\ pc[v] = "expiring" /\ pc' = [pc EXCEPT ![v] = "resolved"]
      /\ told' = [told EXCEPT
                     ![v] = Resolve(v, IF Decided(v) THEN reviews[v].state ELSE "timed-out")]
      /\ now' = now /\ click' = click
  BY DEF ExpireAndReread, Conclude
<1>2. reviews[v] \in Row
  BY <1>1 DEF IInv, TypeOK, ReviewInv, Phase
<1>3. CASE Pending(v)
  <2>1. /\ reviews' = [reviews EXCEPT ![v] = TimedOut(reviews[v])]
        /\ settled' = [w \in Review |-> IF w \in {v} THEN "timed-out" ELSE settled[w]]
    BY <1>3 DEF ExpireAndReread, Settle
  <2>2. TimedOut(reviews[v]) \in Row
    BY <1>2, TimedOutFacts
  <2>3. TypeOK'
    BY <1>1, <2>1, <2>2, ResolveType DEF IInv, TypeOK, Location
  <2>4. ASSUME NEW w \in Review PROVE ReviewInv(w)'
    <3>1. CASE w # v
      BY <1>1, <2>1, <3>1, ReviewFrame DEF IInv, TypeOK
    <3>2. CASE w = v
      <4>1. ~Decided(v)
        BY <1>3 DEF Pending, Decided
      <4>2. /\ reviews'[v] = TimedOut(reviews[v]) /\ settled'[v] = "timed-out"
            /\ pc'[v] = "resolved" /\ told'[v] = Resolve(v, "timed-out")
        BY <1>1, <2>1, <4>1 DEF IInv, TypeOK
      <4> QED  BY <1>1, <1>3, <3>2, <4>2, TimedOutKeepsIt
    <3> QED  BY <3>1, <3>2
  <2>5. ASSUME NEW c \in Console PROVE ClickInv(c)'
    BY <1>1, ClickFrame DEF IInv
  <2> QED  BY <2>3, <2>4, <2>5 DEF IInv
<1>4. CASE ~Pending(v)
  <2>1. reviews' = reviews /\ settled' = settled
    BY <1>4 DEF ExpireAndReread
  <2>2. TypeOK'
    BY <1>1, <2>1, ResolveType DEF IInv, TypeOK, Location
  <2>3. ASSUME NEW w \in Review PROVE ReviewInv(w)'
    <3>1. CASE w # v
      BY <1>1, <2>1, <3>1, ReviewFrame DEF IInv, TypeOK
    <3>2. CASE w = v
      <4>1. reviews[v] # NoRow /\ reviews[v].state \in State \ {"pending"}
        BY <1>2, <1>4, RowFields DEF Pending, GateAssumption
      <4>2. settled[v] = reviews[v].state /\ settled[v] # None
        BY <4>1 DEF IInv, ReviewInv, RowIsSettled, GateAssumption
      <4>3. pc'[v] = "resolved" /\ told'[v] = Resolve(v, reviews[v].state)
        <5>1. (IF Decided(v) THEN reviews[v].state ELSE "timed-out") = reviews[v].state
          BY <4>1 DEF Decided, State
        <5> QED  BY <1>1, <5>1 DEF IInv, TypeOK
      <4>4. ToldTheVerdict(v)' /\ Phase(v)'
        BY <2>1, <4>2, <4>3 DEF ToldTheVerdict, Phase
      <4>5. RowIsSettled(v)' /\ RowTimes(v)' /\ Considered(v)'
        BY <1>1, <2>1 DEF IInv, ReviewInv, RowIsSettled, RowTimes, Considered
      <4> QED  BY <3>2, <4>4, <4>5 DEF ReviewInv
    <3> QED  BY <3>1, <3>2
  <2>4. ASSUME NEW c \in Console PROVE ClickInv(c)'
    BY <1>1, ClickFrame DEF IInv
  <2> QED  BY <2>2, <2>3, <2>4 DEF IInv
<1> QED  BY <1>3, <1>4

\* Opening a review presents it to a reviewer, and decides nothing.
LEMMA OpenKeepsIInv ==
    ASSUME GateAssumption, IInv, NEW c \in Console, NEW v \in Review, Open(c, v)
    PROVE  IInv'
<1>1. /\ Pending(v)
      /\ reviews' = [reviews EXCEPT ![v] = Presented(reviews[v], ReviewerOf[c])]
      /\ now' = now /\ click' = click /\ pc' = pc /\ told' = told /\ settled' = settled
  BY DEF Open
<1>2. reviews[v] \in Row /\ settled[v] = None /\ told[v] = None
  BY <1>1, PendingFacts
<1>3. ReviewerOf[c] \in Reviewer /\ now \in Nat
  BY DEF GateAssumption, IInv, TypeOK
<1> DEFINE shown == Presented(reviews[v], ReviewerOf[c])
<1>4. /\ shown \in Row /\ shown.state = reviews[v].state
      /\ shown.deadlineAt = reviews[v].deadlineAt /\ shown.presentedAt = now
  BY <1>2, <1>3, PresentedFacts
<1> HIDE DEF shown
<1>5. reviews' = [reviews EXCEPT ![v] = shown]
  BY <1>1 DEF shown
<1>6. TypeOK'
  BY <1>1, <1>4, <1>5 DEF IInv, TypeOK
<1>7. ASSUME NEW w \in Review PROVE ReviewInv(w)'
  <2>1. CASE w # v
    BY <1>1, <1>5, <2>1, ReviewFrame DEF IInv, TypeOK
  <2>2. CASE w = v
    <3>1. reviews'[v] = shown /\ shown # NoRow /\ shown.state = "pending"
      BY <1>1, <1>4, <1>5 DEF Pending, IInv, TypeOK, GateAssumption
    <3>2. RowIsSettled(v)' /\ ToldTheVerdict(v)' /\ RowTimes(v)' /\ Considered(v)'
      BY <1>1, <1>2, <1>3, <1>4, <3>1
      DEF RowIsSettled, ToldTheVerdict, RowTimes, Considered
    <3>3. Phase(v)'
      <4>1. Phase(v) /\ pc[v] # "idle"
        BY <1>1 DEF IInv, ReviewInv, Phase, Pending
      <4>2. PollBy(reviews[v])' = PollBy(reviews[v])
        BY <1>1, <1>4, <3>1 DEF PollBy, Pending
      <4> QED  BY <1>1, <3>1, <4>1, <4>2 DEF Phase
    <3> QED  BY <2>2, <3>2, <3>3 DEF ReviewInv
  <2> QED  BY <2>1, <2>2
<1>8. ASSUME NEW d \in Console PROVE ClickInv(d)'
  BY <1>1, ClickFrame DEF IInv
<1> QED  BY <1>6, <1>7, <1>8 DEF IInv

\* Approval and rejection: what the console remembers was true of the row.
LEMMA ClickKeepsIInv ==
    ASSUME GateAssumption, IInv, NEW c \in Console, NEW v \in Review,
           ClickApprove(c, v) \/ ClickReject(c, v)
    PROVE  IInv'
<1>1. PICK s \in {"approved", "rejected"} :
          /\ Held(c, v)
          /\ s = "approved" => now >= reviews[v].presentedAt + Floor[LaneOf[v]]
          /\ click' = [click EXCEPT ![c] = ClickOn(v, s)]
          /\ now' = now /\ reviews' = reviews /\ pc' = pc
          /\ told' = told /\ settled' = settled
  BY DEF ClickApprove, ClickReject
<1>2. reviews[v] \in Row /\ reviews[v] # NoRow
  BY <1>1, PendingFacts DEF Held, GateAssumption
<1>3. now \in Nat /\ Slack \in Nat /\ reviews[v].presentedAt <= now
  BY <1>2 DEF IInv, TypeOK, ReviewInv, RowTimes, GateAssumption
<1>4. /\ ClickOn(v, s) \in Click
      /\ ClickOn(v, s).review = v /\ ClickOn(v, s).state = s
      /\ ClickOn(v, s).at = now
      /\ ClickOn(v, s).presentedAt = reviews[v].presentedAt
  BY <1>1, <1>2, <1>3, ClickOnFacts
<1>5. TypeOK'
  BY <1>1, <1>4 DEF IInv, TypeOK
<1>6. ASSUME NEW w \in Review PROVE ReviewInv(w)'
  BY <1>1, ReviewFrame DEF IInv
<1>7. ASSUME NEW d \in Console PROVE ClickInv(d)'
  <2>1. CASE d # c
    BY <1>1, <2>1, ClickFrame DEF IInv, TypeOK
  <2>2. CASE d = c
    <3>1. click'[c] = ClickOn(v, s)
      BY <1>1 DEF IInv, TypeOK
    <3> QED  BY <1>1, <1>3, <1>4, <2>2, <3>1 DEF ClickInv
  <2> QED  BY <2>1, <2>2
<1> QED  BY <1>5, <1>6, <1>7 DEF IInv

\* A click that is too late or lost changes no row.
LEMMA DropClickKeepsIInv ==
    ASSUME GateAssumption, IInv, NEW c \in Console, DecideTooLate(c) \/ LoseClick(c)
    PROVE  IInv'
<1>1. /\ click' = [click EXCEPT ![c] = None]
      /\ now' = now /\ reviews' = reviews /\ pc' = pc /\ told' = told /\ settled' = settled
  BY DEF DecideTooLate, LoseClick
<1>2. TypeOK'
  BY <1>1 DEF IInv, TypeOK
<1>3. ASSUME NEW w \in Review PROVE ReviewInv(w)'
  BY <1>1, ReviewFrame DEF IInv
<1>4. ASSUME NEW d \in Console PROVE ClickInv(d)'
  <2>1. CASE d # c
    BY <1>1, <2>1, ClickFrame DEF IInv, TypeOK
  <2>2. CASE d = c
    BY <1>1, <2>2 DEF IInv, TypeOK, ClickInv
  <2> QED  BY <2>1, <2>2
<1> QED  BY <1>2, <1>3, <1>4 DEF IInv
\* The guarded UPDATE of a decision: the WHERE clause carries the click's facts
\* over to the row it writes.
LEMMA DecideKeepsIInv ==
    ASSUME GateAssumption, IInv, NEW c \in Console, Decide(c)
    PROVE  IInv'
<1>0. PICK k \in Click, v \in Review, who \in Reviewer :
          k = click[c] /\ v = click[c].review /\ who = ReviewerOf[c]
  <2>1. click[c] \in Click  BY DEF Decide, IInv, TypeOK
  <2>2. click[c].review \in Review  BY <2>1, ClickFields
  <2>3. ReviewerOf[c] \in Reviewer  BY DEF GateAssumption
  <2> QED  BY <2>1, <2>2, <2>3
<1>1. /\ k # None /\ Pending(v) /\ reviews[v].deadlineAt > k.at
      /\ reviews[v].presentedTo = who /\ reviews[v].presentedAt = k.presentedAt
      /\ reviews' = [reviews EXCEPT ![v] = Answered(reviews[v], k, who)]
      /\ settled' = [w \in Review |-> IF w \in {v} THEN k.state ELSE settled[w]]
      /\ click' = [click EXCEPT ![c] = None]
      /\ now' = now /\ pc' = pc /\ told' = told
  BY <1>0 DEF Decide, StillMine, Settle
<1>2. /\ k.state \in {"approved", "rejected"}
      /\ k.presentedAt \in Nat /\ k.at \in Nat
  BY ClickFields
<1>3. /\ k.at <= now /\ now <= k.at + Slack /\ k.presentedAt <= k.at
      /\ k.state = "approved" => k.at >= k.presentedAt + Floor[LaneOf[v]]
  BY <1>0, <1>1 DEF IInv, ClickInv
<1>4. reviews[v] \in Row /\ settled[v] = None /\ told[v] = None
  BY <1>1, PendingFacts
<1>5. who # None /\ now \in Nat /\ Slack \in Nat
      /\ Floor[LaneOf[v]] \in Nat
  BY <1>2 DEF GateAssumption, IInv, TypeOK
<1>6. PICK r : r = Answered(reviews[v], k, who)
  OBVIOUS
<1>7. /\ r \in Row /\ r.state = k.state
      /\ r.deadlineAt = reviews[v].deadlineAt /\ r.presentedTo = reviews[v].presentedTo
      /\ r.presentedAt = reviews[v].presentedAt
      /\ r.reviewer = who /\ r.decidedAt = k.at /\ r.tookMs = k.at - k.presentedAt
  BY <1>6, <1>3, <1>4, AnsweredFacts
<1>8. reviews' = [reviews EXCEPT ![v] = r]
  BY <1>1, <1>6
<1>9. TypeOK'
  BY <1>1, <1>2, <1>7, <1>8 DEF IInv, TypeOK
<1>10. ASSUME NEW w \in Review PROVE ReviewInv(w)'
  <2>1. CASE w # v
    BY <1>1, <1>8, <2>1, ReviewFrame DEF IInv, TypeOK
  <2>2. CASE w = v
    <3>1. reviews'[v] = r /\ settled'[v] = k.state
      BY <1>1, <1>2, <1>8 DEF IInv, TypeOK
    <3>2. r # NoRow /\ r.state # "pending" /\ r.state # "timed-out"
      BY <1>2, <1>7 DEF GateAssumption
    <3>3. RowIsSettled(v)' /\ ToldTheVerdict(v)'
      BY <1>1, <1>4, <1>7, <3>1, <3>2 DEF RowIsSettled, ToldTheVerdict
    <3>4. Phase(v)'
      <4>1. Phase(v) /\ pc[v] # "idle"
        BY <1>1 DEF IInv, ReviewInv, Phase, Pending
      <4>2. PollBy(reviews[v])' = k.at + 2 * Slack
        BY <1>2, <1>7, <3>1 DEF PollBy
      <4>3. now <= k.at + 2 * Slack
        BY <1>2, <1>3, <1>5
      <4> QED  BY <1>1, <3>1, <3>2, <4>1, <4>2, <4>3 DEF Phase
    <3>5. RowTimes(v)'
      BY <1>1, <1>2, <1>3, <1>5, <1>7, <3>1, <3>2 DEF RowTimes
    <3>6. Considered(v)'
      <4>1. ASSUME r.state = "approved"
            PROVE  /\ r.reviewer # None /\ r.reviewer = r.presentedTo
                   /\ r.tookMs >= Floor[LaneOf[v]]
                   /\ r.decidedAt = r.presentedAt + r.tookMs
                   /\ r.decidedAt < r.deadlineAt
        BY <4>1, <1>1, <1>2, <1>3, <1>5, <1>7
      <4> QED  BY <3>1, <4>1 DEF Considered
    <3> QED  BY <2>2, <3>3, <3>4, <3>5, <3>6 DEF ReviewInv
  <2> QED  BY <2>1, <2>2
<1>11. ASSUME NEW d \in Console PROVE ClickInv(d)'
  <2>1. CASE d # c
    BY <1>1, <2>1, ClickFrame DEF IInv, TypeOK
  <2>2. CASE d = c
    BY <1>1, <2>2 DEF IInv, TypeOK, ClickInv
  <2> QED  BY <2>1, <2>2
<1> QED  BY <1>9, <1>10, <1>11 DEF IInv

\* The sweep times out the reviews whose deadline has passed, and no other.
LEMMA ExpireOverdueKeepsIInv ==
    ASSUME GateAssumption, IInv, ExpireOverdue
    PROVE  IInv'
<1>1. /\ reviews' = [w \in Review |->
                        IF w \in Overdue THEN TimedOut(reviews[w]) ELSE reviews[w]]
      /\ settled' = [w \in Review |-> IF w \in Overdue THEN "timed-out" ELSE settled[w]]
      /\ now' = now /\ click' = click /\ pc' = pc /\ told' = told
  BY DEF ExpireOverdue, Settle
<1>2. \A w \in Overdue : w \in Review /\ Pending(w)
  BY DEF Overdue
<1>3. \A w \in Overdue : TimedOut(reviews[w]) \in Row
  BY <1>2, PendingFacts, TimedOutFacts
<1>4. TypeOK'
  BY <1>1, <1>3 DEF IInv, TypeOK
<1>5. ASSUME NEW w \in Review PROVE ReviewInv(w)'
  <2>1. CASE w \notin Overdue
    BY <1>1, <2>1, ReviewFrame DEF IInv
  <2>2. CASE w \in Overdue
    BY <1>1, <1>2, <2>2, TimedOutKeepsIt
  <2> QED  BY <2>1, <2>2
<1>6. ASSUME NEW c \in Console PROVE ClickInv(c)'
  BY <1>1, ClickFrame DEF IInv
<1> QED  BY <1>4, <1>5, <1>6 DEF IInv

\* Disposal takes a row no requester is still waiting for.
LEMMA DisposeKeepsIInv ==
    ASSUME GateAssumption, IInv, DisposeExpired
    PROVE  IInv'
<1>1. /\ reviews' = [v \in Review |->
            IF /\ reviews[v] # NoRow /\ reviews[v].state # "pending"
               /\ reviews[v].decidedAt + Retention <= now
              THEN NoRow
              ELSE reviews[v]]
      /\ now' = now /\ click' = click /\ pc' = pc /\ told' = told /\ settled' = settled
  BY DEF DisposeExpired
<1>2. TypeOK'
  BY <1>1 DEF IInv, TypeOK
<1>3. ASSUME NEW w \in Review PROVE ReviewInv(w)'
  <2>1. CASE reviews'[w] = reviews[w]
    BY <1>1, <2>1, ReviewFrame DEF IInv
  <2>2. CASE reviews'[w] # reviews[w]
    <3>1. /\ reviews[w] # NoRow /\ reviews[w].state # "pending"
          /\ reviews[w].decidedAt + Retention <= now /\ reviews'[w] = NoRow
      BY <1>1, <2>2
    <3>2. reviews[w] \in Row /\ ReviewInv(w)
      BY <3>1 DEF IInv, TypeOK
    <3>3. pc[w] \notin {"waiting", "expiring"}
      <4>1. /\ reviews[w].decidedAt \in Nat /\ reviews[w].deadlineAt \in Nat
            /\ reviews[w].state \in State /\ now \in Nat
            /\ Slack \in Nat /\ Retention \in Nat /\ 2 * Slack < Retention
        BY <3>2, RowFields DEF IInv, TypeOK, GateAssumption
      <4>2. CASE reviews[w].state = "timed-out"
        <5>1. reviews[w].decidedAt = reviews[w].deadlineAt
              /\ PollBy(reviews[w]) = reviews[w].deadlineAt + Slack
          BY <3>1, <3>2, <4>2 DEF ReviewInv, RowTimes, PollBy
        <5>2. ~(now <= PollBy(reviews[w]))
          BY <3>1, <4>1, <5>1
        <5> QED  BY <3>2, <5>2 DEF ReviewInv, Phase
      <4>3. CASE reviews[w].state \in {"approved", "rejected"}
        <5>1. PollBy(reviews[w]) = reviews[w].decidedAt + 2 * Slack
          BY <4>3 DEF PollBy
        <5>2. ~(now <= PollBy(reviews[w]))
          BY <3>1, <4>1, <5>1
        <5> QED  BY <3>2, <5>2 DEF ReviewInv, Phase
      <4> QED  BY <3>1, <4>1, <4>2, <4>3 DEF State
    <3>4. Phase(w)'
      BY <1>1, <3>1, <3>2, <3>3 DEF ReviewInv, Phase
    <3>5. RowIsSettled(w)' /\ ToldTheVerdict(w)' /\ RowTimes(w)' /\ Considered(w)'
      BY <1>1, <3>1, <3>2 DEF ReviewInv, RowIsSettled, ToldTheVerdict, RowTimes, Considered
    <3> QED  BY <3>4, <3>5 DEF ReviewInv
  <2> QED  BY <2>1, <2>2
<1>4. ASSUME NEW c \in Console PROVE ClickInv(c)'
  BY <1>1, ClickFrame DEF IInv
<1> QED  BY <1>2, <1>3, <1>4 DEF IInv

\* Time passes under what is already decided.
LEMMA TickKeepsIInv ==
    ASSUME GateAssumption, IInv, Tick
    PROVE  IInv'
<1>1. /\ now' = now + 1 /\ now \in Nat
      /\ reviews' = reviews /\ click' = click /\ pc' = pc
      /\ told' = told /\ settled' = settled
  BY DEF Tick, IInv, TypeOK
<1>2. TypeOK'
  BY <1>1 DEF IInv, TypeOK
<1>3. ASSUME NEW v \in Review PROVE ReviewInv(v)'
  <2>1. ReviewInv(v)
    BY DEF IInv
  <2>2. RowIsSettled(v)' /\ ToldTheVerdict(v)' /\ Considered(v)'
    BY <1>1, <2>1 DEF ReviewInv, RowIsSettled, ToldTheVerdict, Considered
  <2>3. CASE reviews[v] = NoRow
    BY <1>1, <2>1, <2>2, <2>3 DEF ReviewInv, Phase, RowTimes
  <2>4. CASE reviews[v] # NoRow
    <3>1. reviews[v] \in Row
      BY <2>4 DEF IInv, TypeOK
    <3>2. reviews[v].presentedAt \in Nat /\ PollBy(reviews[v]) \in Nat
      BY <3>1, RowFields DEF PollBy, GateAssumption
    <3>3. RowTimes(v)'
      BY <1>1, <2>1, <3>2 DEF ReviewInv, RowTimes
    <3>4. pc[v] \in {"waiting", "expiring"} => now + 1 <= PollBy(reviews[v])
      <4>1. pc[v] \in {"waiting", "expiring"} => now < PollBy(reviews[v])
        BY <2>4 DEF Tick
      <4> QED  BY <1>1, <3>2, <4>1
    <3>5. Phase(v)'
      BY <1>1, <2>1, <2>4, <3>4 DEF ReviewInv, Phase, PollBy
    <3> QED  BY <2>2, <3>3, <3>5 DEF ReviewInv
  <2> QED  BY <2>3, <2>4
<1>4. ASSUME NEW c \in Console PROVE ClickInv(c)'
  <2>1. CASE click[c] = None
    BY <1>1, <2>1 DEF ClickInv
  <2>2. CASE click[c] # None
    <3>1. click[c] \in Click /\ ClickInv(c)
      BY <2>2 DEF IInv, TypeOK
    <3>2. click[c].at \in Nat /\ Slack \in Nat
      BY <3>1, ClickFields DEF GateAssumption
    <3>3. now + 1 <= click[c].at + Slack
      <4>1. now < click[c].at + Slack
        BY <2>2 DEF Tick
      <4> QED  BY <1>1, <3>2, <4>1
    <3>4. click[c].at <= now + 1
      BY <1>1, <2>2, <3>1, <3>2 DEF ClickInv
    <3> QED  BY <1>1, <2>2, <3>1, <3>3, <3>4 DEF ClickInv
  <2> QED  BY <2>1, <2>2
<1> QED  BY <1>2, <1>3, <1>4 DEF IInv
-----------------------------------------------------------------------------
\* Every step keeps the invariant.
LEMMA NextKeepsIInv ==
    ASSUME GateAssumption, IInv, [Next]_vars
    PROVE  IInv'
<1>1. CASE UNCHANGED vars
  <2>1. TypeOK'
    BY <1>1 DEF vars, IInv, TypeOK
  <2>2. \A v \in Review : ReviewInv(v)'
    BY <1>1, ReviewFrame DEF vars, IInv
  <2>3. \A c \in Console : ClickInv(c)'
    BY <1>1, ClickFrame DEF vars, IInv
  <2> QED  BY <2>1, <2>2, <2>3 DEF IInv
<1>2. CASE \E v \in Review : Request(v) \/ RequestUnanswerable(v) \/ Poll(v) \/ Crash(v)
  BY <1>2, RequestKeepsIInv, UnanswerableKeepsIInv, PollDecidedKeepsIInv,
     PollOverdueKeepsIInv, ExpireKeepsIInv DEF Poll
<1>3. CASE \E c \in Console, v \in Review :
              Open(c, v) \/ ClickApprove(c, v) \/ ClickReject(c, v)
  BY <1>3, OpenKeepsIInv, ClickKeepsIInv
<1>4. CASE \E c \in Console : Decide(c) \/ DecideTooLate(c) \/ LoseClick(c)
  BY <1>4, DecideKeepsIInv, DropClickKeepsIInv
<1>5. CASE ExpireOverdue \/ DisposeExpired \/ Tick
  BY <1>5, ExpireOverdueKeepsIInv, DisposeKeepsIInv, TickKeepsIInv
<1> QED  BY <1>1, <1>2, <1>3, <1>4, <1>5 DEF Next

\* The inductive invariant: rows, clicks and waiting operations agree on when a
\* review was presented, answered or timed out, in every reachable state.
THEOREM Inductive == Spec => []IInv
<1>1. Init => IInv
  BY InitIInv, GateAssumption
<1>2. IInv /\ [Next]_vars => IInv'
  BY NextKeepsIInv, GateAssumption
<1> QED  BY <1>1, <1>2, PTL DEF Spec

\* The gate's variables keep their types, whatever the processes do.
THEOREM TypeCorrect == Spec => []TypeOK
<1>1. IInv => TypeOK  BY DEF IInv
<1> QED  BY <1>1, Inductive, PTL

\* Silence never lets an action of a denying lane through (resolveReview and the
\* guarded writes it relies on).
THEOREM FailsSafe == Spec => []DenyLaneNeedsApproval
<1>1. IInv => DenyLaneNeedsApproval
  <2> SUFFICES ASSUME IInv, NEW v \in Review,
                      told[v] = "proceed", LaneOf[v] \notin AutoApproves
               PROVE  settled[v] = "approved"
    BY DEF DenyLaneNeedsApproval
  <2>1. told[v] # None
    BY GateAssumption DEF GateAssumption
  <2>2. told[v] = Resolve(v, settled[v])
    BY <2>1 DEF IInv, ReviewInv, ToldTheVerdict
  <2> QED  BY <2>2 DEF Resolve
<1> QED  BY <1>1, Inductive, PTL

\* No approval is written that nobody had time to consider (approve, #decide).
THEOREM ConsiderationFloor == Spec => []ApprovalWasConsidered
<1>1. IInv => ApprovalWasConsidered
  BY DEF IInv, ReviewInv, Considered, ApprovalWasConsidered
<1> QED  BY <1>1, Inductive, PTL

\* What a requester acts on is what the table says (the re-read after #expire).
THEOREM ActsOnTheRow == Spec => []RequesterActsOnTheRow
<1>1. IInv => RequesterActsOnTheRow
  <2> SUFFICES ASSUME IInv, NEW v \in Review, told[v] # None, reviews[v] # NoRow
               PROVE  told[v] = Resolve(v, reviews[v].state)
    BY DEF RequesterActsOnTheRow
  <2>1. settled[v] # None /\ told[v] = Resolve(v, settled[v])
    BY DEF IInv, ReviewInv, ToldTheVerdict
  <2>2. settled[v] = reviews[v].state
    BY <2>1 DEF IInv, ReviewInv, RowIsSettled
  <2> QED  BY <2>1, <2>2
<1> QED  BY <1>1, Inductive, PTL
-----------------------------------------------------------------------------
\* Everything a step can do to a queued row.
LEMMA RowStep ==
    ASSUME GateAssumption, IInv, Next, NEW v \in Review, reviews[v] # NoRow
    PROVE  \/ reviews'[v] \in {reviews[v], NoRow}
           \/ /\ Pending(v)
              /\ \E who \in Reviewer :
                    /\ reviews[v].presentedTo \in {None, who}
                    /\ reviews'[v] = Presented(reviews[v], who)
           \/ Pending(v) /\ reviews'[v] = TimedOut(reviews[v])
           \/ /\ Pending(v)
              /\ \E k \in Click, who \in Reviewer :
                    /\ k.presentedAt <= k.at
                    /\ reviews'[v] = Answered(reviews[v], k, who)
<1> USE DEF Settle, Conclude
<1>0. reviews \in [Review -> Row \cup {NoRow}]
  BY DEF IInv, TypeOK
<1>1. ASSUME NEW w \in Review, Request(w)
      PROVE  reviews'[v] = reviews[v]
  <2>1. w # v
    BY <1>1 DEF Request, IInv, ReviewInv, Phase
  <2> QED  BY <1>0, <1>1, <2>1 DEF Request
<1>2. ASSUME NEW w \in Review,
             RequestUnanswerable(w) \/ PollDecided(w) \/ PollOverdue(w) \/ Crash(w)
      PROVE  reviews'[v] = reviews[v]
  BY <1>2 DEF RequestUnanswerable, PollDecided, PollOverdue, Crash
<1>3. ASSUME NEW w \in Review, ExpireAndReread(w)
      PROVE  reviews'[v] = reviews[v] \/ (Pending(v) /\ reviews'[v] = TimedOut(reviews[v]))
  BY <1>0, <1>3 DEF ExpireAndReread
<1>4. ASSUME NEW c \in Console, NEW w \in Review, Open(c, w)
      PROVE  \/ reviews'[v] = reviews[v]
             \/ /\ Pending(v)
                /\ \E who \in Reviewer :
                      /\ reviews[v].presentedTo \in {None, who}
                      /\ reviews'[v] = Presented(reviews[v], who)
  <2>1. ReviewerOf[c] \in Reviewer
    BY DEF GateAssumption
  <2> QED  BY <1>0, <1>4, <2>1 DEF Open
<1>5. ASSUME NEW c \in Console, NEW w \in Review, ClickApprove(c, w) \/ ClickReject(c, w)
      PROVE  reviews'[v] = reviews[v]
  BY <1>5 DEF ClickApprove, ClickReject
<1>6. ASSUME NEW c \in Console, Decide(c)
      PROVE  \/ reviews'[v] = reviews[v]
             \/ /\ Pending(v)
                /\ \E k \in Click, who \in Reviewer :
                      /\ k.presentedAt <= k.at
                      /\ reviews'[v] = Answered(reviews[v], k, who)
  <2>1. /\ click[c] \in Click /\ ReviewerOf[c] \in Reviewer
        /\ click[c].presentedAt <= click[c].at
    BY <1>6 DEF Decide, IInv, TypeOK, ClickInv, GateAssumption
  <2>2. \/ reviews'[v] = reviews[v]
        \/ Pending(v) /\ reviews'[v] = Answered(reviews[v], click[c], ReviewerOf[c])
    BY <1>0, <1>6 DEF Decide, StillMine
  <2> QED  BY <2>1, <2>2
<1>7. ASSUME NEW c \in Console, DecideTooLate(c) \/ LoseClick(c)
      PROVE  reviews'[v] = reviews[v]
  BY <1>7 DEF DecideTooLate, LoseClick
<1>8. ExpireOverdue =>
          reviews'[v] = reviews[v] \/ (Pending(v) /\ reviews'[v] = TimedOut(reviews[v]))
  BY DEF ExpireOverdue, Overdue
<1>9. DisposeExpired \/ Tick => reviews'[v] \in {reviews[v], NoRow}
  BY DEF DisposeExpired, Tick
<1> QED  BY <1>1, <1>2, <1>3, <1>4, <1>5, <1>6, <1>7, <1>8, <1>9 DEF Next, Poll

\* The guard of every write to a decided row (state = 'pending').
THEOREM ClosedForGood == Spec => DecidedOnce
<1> DEFINE Once ==
      \A v \in Review :
          reviews[v] # NoRow /\ reviews[v].state # "pending" =>
              reviews'[v] \in {reviews[v], NoRow}
<1>1. IInv /\ [Next]_vars => [Once]_vars
  <2> SUFFICES ASSUME IInv, Next, NEW v \in Review,
                      reviews[v] # NoRow, reviews[v].state # "pending"
               PROVE  reviews'[v] \in {reviews[v], NoRow}
    OBVIOUS
  <2> QED  BY RowStep, GateAssumption DEF Pending
<1> HIDE DEF Once
<1>2. Spec => [][Once]_vars
  BY <1>1, Inductive, PTL DEF Spec
<1> QED  BY <1>2 DEF Once, DecidedOnce

\* No write puts a held review into a colleague's hands (open's WHERE clause).
THEOREM HeldForGood == Spec => HoldIsNotStolen
<1> DEFINE Kept ==
      \A v \in Review :
          reviews[v] # NoRow /\ reviews'[v] # NoRow /\ reviews[v].presentedTo # None =>
              reviews'[v].presentedTo = reviews[v].presentedTo
<1>1. IInv /\ [Next]_vars => [Kept]_vars
  <2> SUFFICES ASSUME IInv, Next, NEW v \in Review,
                      reviews[v] # NoRow, reviews'[v] # NoRow, reviews[v].presentedTo # None
               PROVE  reviews'[v].presentedTo = reviews[v].presentedTo
    OBVIOUS
  <2>1. reviews[v] \in Row /\ now \in Nat
    BY DEF IInv, TypeOK
  <2>2. CASE reviews'[v] \in {reviews[v], NoRow}
    BY <2>2
  <2>3. CASE \E who \in Reviewer :
                /\ reviews[v].presentedTo \in {None, who}
                /\ reviews'[v] = Presented(reviews[v], who)
    BY <2>1, <2>3, PresentedFacts
  <2>4. CASE reviews'[v] = TimedOut(reviews[v])
    BY <2>1, <2>4, TimedOutFacts
  <2>5. CASE \E k \in Click, who \in Reviewer :
                /\ k.presentedAt <= k.at
                /\ reviews'[v] = Answered(reviews[v], k, who)
    BY <2>1, <2>5, AnsweredFacts
  <2> QED  BY <2>2, <2>3, <2>4, <2>5, RowStep, GateAssumption
<1> HIDE DEF Kept
<1>2. Spec => [][Kept]_vars
  BY <1>1, Inductive, PTL DEF Spec
<1> QED  BY <1>2 DEF Kept, HoldIsNotStolen
-----------------------------------------------------------------------------
\* Every step of the queue is a step of the one-verdict gate, or a stutter.
LEMMA StepRefines ==
    ASSUME GateAssumption, IInv, [Next]_vars
    PROVE  [Verdict!Next]_(Verdict!vars)
<1>1. settled \in [Review -> {"approved", "rejected", "timed-out", None}]
      /\ told \in [Review -> {"proceed", "denied", None}]
  BY DEF IInv, TypeOK
<1>2. \A v, outcome : Verdict!Resolve(v, outcome) = Resolve(v, outcome)
  BY DEF Verdict!Resolve, Resolve
<1>3. ASSUME settled' = settled, told' = told
      PROVE  UNCHANGED Verdict!vars
  BY <1>3 DEF Verdict!vars
<1>4. CASE \/ \E v \in Review : Request(v) \/ PollOverdue(v) \/ Crash(v)
           \/ \E c \in Console, v \in Review :
                  Open(c, v) \/ ClickApprove(c, v) \/ ClickReject(c, v)
           \/ \E c \in Console : DecideTooLate(c) \/ LoseClick(c)
           \/ DisposeExpired \/ Tick \/ UNCHANGED vars
  <2>1. settled' = settled /\ told' = told
    BY <1>4
    DEF Request, PollOverdue, Crash, Open, ClickApprove, ClickReject,
        DecideTooLate, LoseClick, DisposeExpired, Tick, vars
  <2> QED  BY <1>3, <2>1
<1>5. ASSUME NEW v \in Review, settled[v] = None, told[v] = None,
             told' = [told EXCEPT ![v] = Resolve(v, "timed-out")],
             settled' = [w \in Review |-> IF w \in {v} THEN "timed-out" ELSE settled[w]]
      PROVE  Verdict!TimeOut(v)
  <2>1. settled' = [settled EXCEPT ![v] = "timed-out"]
    BY <1>1, <1>5
  <2> QED  BY <1>2, <1>5, <2>1 DEF Verdict!TimeOut
<1>6. ASSUME NEW v \in Review, told[v] = None, settled[v] # None, settled' = settled,
             told' = [told EXCEPT ![v] = Resolve(v, settled[v])]
      PROVE  Verdict!Tell(v)
  BY <1>2, <1>6 DEF Verdict!Tell
<1>7. ASSUME NEW S \in SUBSET Review, NEW outcome \in Verdict!Verdict, told' = told,
             \A v \in S : settled[v] = None,
             settled' = [w \in Review |-> IF w \in S THEN outcome ELSE settled[w]]
      PROVE  Verdict!Decide(S, outcome)
  BY <1>7 DEF Verdict!Decide
<1>8. ASSUME NEW v \in Review, RequestUnanswerable(v)
      PROVE  Verdict!TimeOut(v)
  <2>1. settled[v] = None /\ told[v] = None
    BY <1>8 DEF RequestUnanswerable, IInv, ReviewInv, Phase
  <2> QED  BY <1>5, <1>8, <2>1 DEF RequestUnanswerable, Conclude, Settle
<1>9. ASSUME NEW v \in Review, PollDecided(v)
      PROVE  Verdict!Tell(v)
  <2>1. told[v] = None
    BY <1>9 DEF PollDecided, IInv, ReviewInv, Phase
  <2>2. settled[v] = reviews[v].state /\ settled[v] # None
    BY <1>9 DEF PollDecided, Decided, IInv, ReviewInv, RowIsSettled, GateAssumption, State
  <2> QED  BY <1>6, <1>9, <2>1, <2>2 DEF PollDecided, Conclude
<1>10. ASSUME NEW v \in Review, ExpireAndReread(v)
       PROVE  Verdict!TimeOut(v) \/ Verdict!Tell(v)
  <2>1. told[v] = None /\ reviews[v] \in Row /\ reviews[v] # NoRow
    BY <1>10 DEF ExpireAndReread, IInv, TypeOK, ReviewInv, Phase
  <2>2. CASE Pending(v)
    <3>1. settled[v] = None /\ ~Decided(v)
      BY <2>2, PendingFacts DEF Pending, Decided
    <3> QED  BY <1>5, <1>10, <2>1, <2>2, <3>1 DEF ExpireAndReread, Conclude, Settle
  <2>3. CASE ~Pending(v)
    <3>1. reviews[v].state \in State \ {"pending"}
      BY <2>1, <2>3, RowFields DEF Pending
    <3>2. settled[v] = reviews[v].state /\ settled[v] # None
      BY <2>1, <3>1 DEF IInv, ReviewInv, RowIsSettled, GateAssumption
    <3>3. (IF Decided(v) THEN reviews[v].state ELSE "timed-out") = settled[v]
      BY <2>1, <3>1, <3>2 DEF Decided, State
    <3> QED  BY <1>6, <1>10, <2>1, <2>3, <3>2, <3>3 DEF ExpireAndReread, Conclude
  <2> QED  BY <2>2, <2>3
<1>11. ASSUME NEW c \in Console, Decide(c)
       PROVE  \E S \in SUBSET Review, outcome \in Verdict!Verdict : Verdict!Decide(S, outcome)
  <2>1. click[c] \in Click
    BY <1>11 DEF Decide, IInv, TypeOK
  <2>2. /\ {click[c].review} \in SUBSET Review
        /\ click[c].state \in Verdict!Verdict
    BY <2>1, ClickFields DEF Verdict!Verdict
  <2>3. settled[click[c].review] = None
    BY <1>11, <2>2, PendingFacts DEF Decide, StillMine
  <2>4. Verdict!Decide({click[c].review}, click[c].state)
    BY <1>7, <1>11, <2>2, <2>3 DEF Decide, Settle
  <2> QED  BY <2>2, <2>4
<1>12. ASSUME ExpireOverdue
       PROVE  \E S \in SUBSET Review, outcome \in Verdict!Verdict : Verdict!Decide(S, outcome)
  <2>1. Overdue \in SUBSET Review /\ "timed-out" \in Verdict!Verdict
    BY DEF Overdue, Verdict!Verdict
  <2>2. \A v \in Overdue : settled[v] = None
    BY PendingFacts DEF Overdue
  <2>3. Verdict!Decide(Overdue, "timed-out")
    BY <1>7, <1>12, <2>1, <2>2 DEF ExpireOverdue, Settle
  <2> QED  BY <2>1, <2>3
<1> QED
  BY <1>3, <1>4, <1>8, <1>9, <1>10, <1>11, <1>12 DEF Next, Poll, Verdict!Next

\* The durable queue keeps the promise of the interface it implements.
THEOREM Refinement == Spec => VerdictSpec
<1>1. Init => Verdict!Init
  BY DEF Init, Verdict!Init
<1>2. IInv /\ [Next]_vars => [Verdict!Next]_(Verdict!vars)
  BY StepRefines, GateAssumption
<1> QED  BY <1>1, <1>2, Inductive, PTL DEF Spec, VerdictSpec, Verdict!Spec
=============================================================================
