\* A month's bucket is redacted by its first day, and holds the content of its last.
CONSTANTS
    acme = acme  question = question  remark = remark
    None = None
    Days <- Schedule
    DaysInMonth = 2
    Namespace = {acme}
    Prompt = {question}
    LastDay = 4
    MaxGen = 2
SPECIFICATION RetentionSpec
INVARIANT ContentIsKeptForItsPeriod
CHECK_DEADLOCK FALSE
