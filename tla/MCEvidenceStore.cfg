\* Two callers of one run, three entries, a retention of two ticks.
CONSTANTS
    run = run  first = first  second = second
    Garbled = Garbled  LostRow = LostRow  Gone = Gone
    Entry <- Entries
    At <- Times
    Closing <- Closings
    Key = {run}
    Caller = {first, second}
    KeyOf <- Owners
    Retention = 2
    MaxTime = 3
    MaxLen = 3
SPECIFICATION Spec
SYMMETRY EitherCaller
INVARIANT ReadIsGenuine
PROPERTIES
    DecayIsNotBuried
    LogSpec
CHECK_DEADLOCK FALSE
