--------------------------- MODULE ReviewVerdict ---------------------------
(***************************************************************************)
(* What an approval gate promises the agent that asks it: a review gets at *)
(* most one verdict, and the agent is told what that verdict means for its *)
(* lane, or, if its review was never queued, what silence means for it.    *)
(***************************************************************************)
CONSTANTS Review, Lane, LaneOf,
          AutoApproves,   \* the lanes a timeout lets through
          Unasked         \* no verdict, and nothing told

VARIABLES verdict,  \* of each review
          told      \* what its requester was told

vars == <<verdict, told>>

Verdict == {"approved", "rejected", "timed-out"}

\* resolveReview
Resolve(v, outcome) ==
    IF outcome = "approved" \/ (outcome = "timed-out" /\ LaneOf[v] \in AutoApproves)
      THEN "proceed"
      ELSE "denied"

Init ==
    /\ verdict = [v \in Review |-> Unasked]
    /\ told = [v \in Review |-> Unasked]

\* One write may close many reviews, but none twice.
Decide(S, outcome) ==
    /\ \A v \in S : verdict[v] = Unasked
    /\ verdict' = [v \in Review |-> IF v \in S THEN outcome ELSE verdict[v]]
    /\ UNCHANGED told

Tell(v) ==
    /\ told[v] = Unasked
    /\ verdict[v] # Unasked
    /\ told' = [told EXCEPT ![v] = Resolve(v, verdict[v])]
    /\ UNCHANGED verdict

\* The requester gives up on an undecided review, which is thereby decided.
TimeOut(v) ==
    /\ told[v] = Unasked
    /\ verdict[v] = Unasked
    /\ verdict' = [verdict EXCEPT ![v] = "timed-out"]
    /\ told' = [told EXCEPT ![v] = Resolve(v, "timed-out")]

Next ==
    \/ \E S \in SUBSET Review, outcome \in Verdict : Decide(S, outcome)
    \/ \E v \in Review : Tell(v) \/ TimeOut(v)

Spec == Init /\ [][Next]_vars
=============================================================================
