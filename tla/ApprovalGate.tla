---------------------------- MODULE ApprovalGate ----------------------------
(***************************************************************************)
(* The durable approval queue of the governance component.  An agent asks  *)
(* and polls; reviewers at consoles take a review in hand, consider it and *)
(* decide it.  Agents and consoles are processes that share one table and  *)
(* one clock, and every SQL statement is atomic by itself only: a console  *)
(* reads the row and the clock, and its guarded UPDATE runs later.         *)
(* `settled' is a history variable: the first terminal state of a row.     *)
(***************************************************************************)
EXTENDS Integers

CONSTANTS Review, Lane, LaneOf,
          Sla, Floor,     \* slaMs and minConsiderationMs of each lane
          AutoApproves,   \* lanes whose onTimeout is "auto-approve"
          Console,        \* a tab or process a reviewer clicks in
          ReviewerOf, Reviewer,
          Retention,      \* the schedule of execution-log metadata
          EnqueueLag,     \* bound: a request is queued at most this late
          Slack,          \* bound: a poll or a write runs at most this late
          MaxTime,        \* bound: the clock stops here
          NoRow, None

State == {"pending", "approved", "rejected", "timed-out"}

Row == [deadlineAt : Nat, state : State,
        presentedTo : Reviewer \cup {None}, presentedAt : Nat,
        reviewer : Reviewer \cup {None}, decidedAt : Nat, tookMs : Nat]

\* A decision a console is about to write.
Click == [review : Review, state : {"approved", "rejected"},
          presentedAt : Nat, at : Nat]

ASSUME GateAssumption ==
    /\ LaneOf \in [Review -> Lane]
    /\ Sla \in [Lane -> Nat] /\ Floor \in [Lane -> Nat]
    /\ AutoApproves \subseteq Lane
    /\ ReviewerOf \in [Console -> Reviewer]
    /\ Retention \in Nat /\ EnqueueLag \in Nat /\ Slack \in Nat /\ MaxTime \in Nat
    /\ EnqueueLag <= Slack
    /\ 2 * Slack < Retention
    /\ NoRow \notin Row
    /\ None \notin Click \cup Reviewer \cup State \cup {"proceed", "denied"}

VARIABLES now,
          reviews,   \* the reviews table
          click,     \* what each console has read and not yet written
          pc,        \* of the requester of each review
          told,      \* the resolution its requester acts on
          settled    \* history: how the row was first closed

vars == <<now, reviews, click, pc, told, settled>>

Location == {"idle", "waiting", "expiring", "resolved", "crashed"}

Init ==
    /\ now = 0
    /\ reviews = [v \in Review |-> NoRow]
    /\ click = [c \in Console |-> None]
    /\ pc = [v \in Review |-> "idle"]
    /\ told = [v \in Review |-> None]
    /\ settled = [v \in Review |-> None]
-----------------------------------------------------------------------------
Pending(v) == reviews[v] # NoRow /\ reviews[v].state = "pending"

\* #decision: a person's answer, if there is one yet.
Decided(v) == reviews[v] # NoRow /\ reviews[v].state \in {"approved", "rejected"}

\* Fault: every lane fails open.
ResolveFailingOpen(v, outcome) ==
    IF outcome \in {"approved", "timed-out"} THEN "proceed" ELSE "denied"

\* resolveReview
Resolve(v, outcome) ==
    IF outcome = "approved" \/ (outcome = "timed-out" /\ LaneOf[v] \in AutoApproves)
      THEN "proceed"
      ELSE "denied"

Conclude(v, outcome) ==
    /\ pc' = [pc EXCEPT ![v] = "resolved"]
    /\ told' = [told EXCEPT ![v] = Resolve(v, outcome)]

\* What the three UPDATE statements write into a row.
Presented(row, who) == [row EXCEPT !.presentedTo = who, !.presentedAt = now]

Answered(row, k, who) ==
    [row EXCEPT !.state = k.state, !.reviewer = who,
                !.decidedAt = k.at, !.tookMs = k.at - k.presentedAt]

TimedOut(row) == [row EXCEPT !.state = "timed-out", !.decidedAt = row.deadlineAt]

Settle(S, outcome) ==
    settled' = [v \in Review |-> IF v \in S THEN outcome ELSE settled[v]]

\* #expireOverdue: run when a gate is constructed and before a queue is read.
Overdue == {v \in Review : Pending(v) /\ reviews[v].deadlineAt <= now}
-----------------------------------------------------------------------------
Queued(deadline) ==
    [deadlineAt |-> deadline, state |-> "pending",
     presentedTo |-> None, presentedAt |-> 0,
     reviewer |-> None, decidedAt |-> 0, tookMs |-> 0]

\* The SLA runs from the request's own timestamp, taken up to EnqueueLag ago.
Request(v) ==
    /\ pc[v] = "idle"
    /\ \E lag \in 0..EnqueueLag :
          /\ lag <= now
          /\ now - lag + Sla[LaneOf[v]] <= MaxTime
          /\ reviews' = [reviews EXCEPT ![v] = Queued(now - lag + Sla[LaneOf[v]])]
    /\ pc' = [pc EXCEPT ![v] = "waiting"]
    /\ UNCHANGED <<now, click, told, settled>>

\* No gate is wired up, or the request's timestamp cannot be read: nobody will
\* answer, and nothing is queued.
RequestUnanswerable(v) ==
    /\ pc[v] = "idle"
    /\ Conclude(v, "timed-out")
    /\ Settle({v}, "timed-out")
    /\ UNCHANGED <<now, reviews, click>>

PollDecided(v) ==
    /\ pc[v] = "waiting"
    /\ Decided(v)
    /\ Conclude(v, reviews[v].state)
    /\ UNCHANGED <<now, reviews, click, settled>>

\* Fault: a row somebody else expired is not noticed.
PollOverdueIfPending(v) ==
    /\ pc[v] = "waiting"
    /\ Pending(v)
    /\ reviews[v].deadlineAt <= now
    /\ pc' = [pc EXCEPT ![v] = "expiring"]
    /\ UNCHANGED <<now, reviews, click, told, settled>>

\* The poll read no decision and the deadline is here; others may still write.
PollOverdue(v) ==
    /\ pc[v] = "waiting"
    /\ ~Decided(v)
    /\ reviews[v] # NoRow => reviews[v].deadlineAt <= now
    /\ pc' = [pc EXCEPT ![v] = "expiring"]
    /\ UNCHANGED <<now, reviews, click, told, settled>>

\* Fault: the expiry is assumed, not read back.
ExpireAssumingIt(v) ==
    /\ pc[v] = "expiring"
    /\ IF Pending(v)
         THEN /\ reviews' = [reviews EXCEPT ![v] = TimedOut(@)]
              /\ Settle({v}, "timed-out")
         ELSE UNCHANGED <<reviews, settled>>
    /\ Conclude(v, "timed-out")
    /\ UNCHANGED <<now, click>>

\* Fault: #expire writes whatever state the row is in.
ExpireUnguarded(v) ==
    /\ pc[v] = "expiring"
    /\ reviews[v] # NoRow
    /\ reviews' = [reviews EXCEPT ![v] = TimedOut(@)]
    /\ Settle({v}, "timed-out")
    /\ Conclude(v, "timed-out")
    /\ UNCHANGED <<now, click>>

\* #expire, whose only guard is that the row is pending, and the second read:
\* no statement changes a decided row in between.
ExpireAndReread(v) ==
    /\ pc[v] = "expiring"
    /\ IF Pending(v)
         THEN /\ reviews' = [reviews EXCEPT ![v] = TimedOut(@)]
              /\ Settle({v}, "timed-out")
         ELSE UNCHANGED <<reviews, settled>>
    /\ Conclude(v, IF Decided(v) THEN reviews[v].state ELSE "timed-out")
    /\ UNCHANGED <<now, click>>

\* The agent's process dies: its row stays, with nobody to read it.
Crash(v) ==
    /\ pc[v] \in {"waiting", "expiring"}
    /\ pc' = [pc EXCEPT ![v] = "crashed"]
    /\ UNCHANGED <<now, reviews, click, told, settled>>
-----------------------------------------------------------------------------
\* Fault: whoever clicks last holds the review.
OpenStealing(c, v) ==
    /\ click[c] = None
    /\ Pending(v)
    /\ reviews[v].deadlineAt > now
    /\ reviews' = [reviews EXCEPT ![v] = Presented(@, ReviewerOf[c])]
    /\ UNCHANGED <<now, click, pc, told, settled>>

\* One guarded UPDATE.  Re-opening by the holder restarts its consideration.
Open(c, v) ==
    /\ click[c] = None
    /\ Pending(v)
    /\ reviews[v].deadlineAt > now
    /\ reviews[v].presentedTo \in {None, ReviewerOf[c]}
    /\ reviews' = [reviews EXCEPT ![v] = Presented(@, ReviewerOf[c])]
    /\ UNCHANGED <<now, click, pc, told, settled>>

\* #held
Held(c, v) ==
    /\ Pending(v)
    /\ reviews[v].deadlineAt > now
    /\ reviews[v].presentedTo = ReviewerOf[c]

\* approve and reject up to their UPDATE: an approval before the lane's floor is
\* refused as "too-soon"; a rejection has no floor.
ClickOn(v, state) ==
    [review |-> v, state |-> state, presentedAt |-> reviews[v].presentedAt, at |-> now]

ClickApprove(c, v) ==
    /\ click[c] = None
    /\ Held(c, v)
    /\ now >= reviews[v].presentedAt + Floor[LaneOf[v]]
    /\ click' = [click EXCEPT ![c] = ClickOn(v, "approved")]
    /\ UNCHANGED <<now, reviews, pc, told, settled>>

ClickReject(c, v) ==
    /\ click[c] = None
    /\ Held(c, v)
    /\ click' = [click EXCEPT ![c] = ClickOn(v, "rejected")]
    /\ UNCHANGED <<now, reviews, pc, told, settled>>

\* Fault: the presentation a decision was taken on is not compared.
StillMineAnyPresentation(c) ==
    LET v == click[c].review IN
    /\ Pending(v)
    /\ reviews[v].deadlineAt > click[c].at
    /\ reviews[v].presentedTo = ReviewerOf[c]

\* The WHERE clause of #decide.
StillMine(c) ==
    LET v == click[c].review IN
    /\ Pending(v)
    /\ reviews[v].deadlineAt > click[c].at
    /\ reviews[v].presentedTo = ReviewerOf[c]
    /\ reviews[v].presentedAt = click[c].presentedAt

Decide(c) ==
    /\ click[c] # None
    /\ StillMine(c)
    /\ reviews' = [reviews EXCEPT ![click[c].review] =
                                   Answered(@, click[c], ReviewerOf[c])]
    /\ Settle({click[c].review}, click[c].state)
    /\ click' = [click EXCEPT ![c] = None]
    /\ UNCHANGED <<now, pc, told>>

DecideTooLate(c) ==
    /\ click[c] # None
    /\ ~StillMine(c)
    /\ click' = [click EXCEPT ![c] = None]
    /\ UNCHANGED <<now, reviews, pc, told, settled>>

\* The console dies, or its write finds the table locked for too long.
LoseClick(c) ==
    /\ click[c] # None
    /\ click' = [click EXCEPT ![c] = None]
    /\ UNCHANGED <<now, reviews, pc, told, settled>>

\* queue(), or a gate constructed anew after a crash.
ExpireOverdue ==
    /\ reviews' = [v \in Review |->
                      IF v \in Overdue THEN TimedOut(reviews[v]) ELSE reviews[v]]
    /\ Settle(Overdue, "timed-out")
    /\ UNCHANGED <<now, click, pc, told>>

DisposeExpired ==
    /\ reviews' = [v \in Review |->
          IF /\ reviews[v] # NoRow /\ reviews[v].state # "pending"
             /\ reviews[v].decidedAt + Retention <= now
            THEN NoRow
            ELSE reviews[v]]
    /\ UNCHANGED <<now, click, pc, told, settled>>

\* A requester wakes up every 50 ms and a write waits 5 s for the lock: time does
\* not run more than Slack past a write, or past what a poll has to notice.
PollBy(row) ==
    IF row.state \in {"approved", "rejected"}
      THEN row.decidedAt + 2 * Slack
      ELSE row.deadlineAt + Slack

Tick ==
    /\ now < MaxTime
    /\ \A v \in Review :
          pc[v] \in {"waiting", "expiring"} /\ reviews[v] # NoRow => now < PollBy(reviews[v])
    /\ \A c \in Console : click[c] # None => now < click[c].at + Slack
    /\ now' = now + 1
    /\ UNCHANGED <<reviews, click, pc, told, settled>>

Poll(v) == PollDecided(v) \/ PollOverdue(v) \/ ExpireAndReread(v)

Next ==
    \/ \E v \in Review : Request(v) \/ RequestUnanswerable(v) \/ Poll(v) \/ Crash(v)
    \/ \E c \in Console, v \in Review :
          Open(c, v) \/ ClickApprove(c, v) \/ ClickReject(c, v)
    \/ \E c \in Console : Decide(c) \/ DecideTooLate(c) \/ LoseClick(c)
    \/ ExpireOverdue
    \/ DisposeExpired
    \/ Tick

Spec == Init /\ [][Next]_vars

\* The clock runs; a live requester's loop and a console's write come to an end.
FairSpec ==
    /\ Spec
    /\ WF_vars(Tick)
    /\ \A v \in Review : WF_vars(Poll(v))
    /\ \A c \in Console : WF_vars(Decide(c) \/ DecideTooLate(c))
-----------------------------------------------------------------------------
\* Types, and nothing more.
TypeOK ==
    /\ now \in Nat
    /\ reviews \in [Review -> Row \cup {NoRow}]
    /\ click \in [Console -> Click \cup {None}]
    /\ pc \in [Review -> Location]
    /\ told \in [Review -> {"proceed", "denied", None}]
    /\ settled \in [Review -> {"approved", "rejected", "timed-out", None}]

\* An action outside the auto-approving lanes never proceeds unless a person
\* approved its review, whatever crashed, expired or raced.
DenyLaneNeedsApproval ==
    \A v \in Review :
        told[v] = "proceed" /\ LaneOf[v] \notin AutoApproves => settled[v] = "approved"

\* An approved row was in the hands of the reviewer named on it, without a break
\* and for at least the lane's floor, before its deadline.
ApprovalWasConsidered ==
    \A v \in Review :
        reviews[v] # NoRow /\ reviews[v].state = "approved" =>
            /\ reviews[v].reviewer # None
            /\ reviews[v].reviewer = reviews[v].presentedTo
            /\ reviews[v].tookMs >= Floor[LaneOf[v]]
            /\ reviews[v].decidedAt = reviews[v].presentedAt + reviews[v].tookMs
            /\ reviews[v].decidedAt < reviews[v].deadlineAt

\* The requester acts on what the table says, not on what it assumed.
RequesterActsOnTheRow ==
    \A v \in Review :
        told[v] # None /\ reviews[v] # NoRow =>
            told[v] = Resolve(v, reviews[v].state)

\* A closed review is never decided again, re-opened or re-presented.
DecidedOnce ==
    [][\A v \in Review :
          reviews[v] # NoRow /\ reviews[v].state # "pending" =>
              reviews'[v] \in {reviews[v], NoRow}]_vars

\* A hold is released by the deadline, never by a colleague.
HoldIsNotStolen ==
    [][\A v \in Review :
          reviews[v] # NoRow /\ reviews'[v] # NoRow /\ reviews[v].presentedTo # None =>
              reviews'[v].presentedTo = reviews[v].presentedTo]_vars

\* Every waiting requester is answered, reviewers or no reviewers.
EveryRequestResolves ==
    \A v \in Review : pc[v] = "waiting" ~> pc[v] \in {"resolved", "crashed"}

\* The queue is an implementation of the one-verdict gate.
Verdict == INSTANCE ReviewVerdict WITH verdict <- settled, Unasked <- None
VerdictSpec == Verdict!Spec
=============================================================================
