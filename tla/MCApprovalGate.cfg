\* A review of the auto-approving lane and one of a denying lane, their requesters, a
\* reviewer with two tabs and a colleague, under fairness.
CONSTANTS
    fastReview = fastReview  highReview = highReview
    tabA1 = tabA1  tabA2 = tabA2  tabB = tabB
    ana = ana  bo = bo
    NoRow = NoRow  None = None
    Review = {fastReview, highReview}
    Lane = {"fast", "high"}
    LaneOf <- Lanes
    Sla <- Slas
    Floor <- Floors
    AutoApproves = {"fast"}
    Console = {tabA1, tabA2, tabB}
    ReviewerOf <- Hands
    Reviewer = {ana, bo}
    Retention = 3
    EnqueueLag = 0
    Slack = 1
    MaxTime = 4
SPECIFICATION FairSpec
INVARIANTS
    DenyLaneNeedsApproval
    ApprovalWasConsidered
    RequesterActsOnTheRow
PROPERTIES
    HoldIsNotStolen
    EveryRequestResolves
    VerdictSpec
CHECK_DEADLOCK FALSE
