--------------------------- MODULE MCApprovalGate ---------------------------
\* Instances of ApprovalGate: a review of the auto-approving lane and one of a
\* denying lane; a reviewer with two tabs open and a colleague.
EXTENDS ApprovalGate

CONSTANTS fastReview, highReview, tabA1, tabA2, tabB, ana, bo

Lanes == [v \in Review |-> IF v = fastReview THEN "fast" ELSE "high"]
Slas == [l \in Lane |-> IF l = "fast" THEN 2 ELSE 3]
Floors == [l \in Lane |-> IF l = "fast" THEN 0 ELSE 1]
Hands == [c \in Console |-> IF c = tabB THEN bo ELSE ana]
=============================================================================
