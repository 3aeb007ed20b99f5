\* Three months: seals, redactions, disposal of proofs, and a tenant's two cached answers.
CONSTANTS
    acme = acme  question = question  remark = remark
    None = None
    Days <- Schedule
    DaysInMonth = 2
    Namespace = {acme}
    Prompt = {question, remark}
    LastDay = 4
    MaxGen = 2
SPECIFICATION RetentionSpec
INVARIANT RedactionKeepsToTheSchedule
PROPERTY CachedAnswerIsCurrent
CHECK_DEADLOCK FALSE
