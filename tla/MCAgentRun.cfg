\* Three turns, three tools, and a limit of each kind within reach.
CONSTANTS
    search = search  writer = writer  ghost = ghost
    kbA = kbA  kbB = kbB  written = written
    Garbled = Garbled  LostRow = LostRow  NoTool = NoTool  None = None
    Record = {kbA, kbB, written}
    Tool = {search, writer, ghost}
    Offered = {search, writer}
    Retrieving = {search}
    AutoApproved = {search}
    OutputRecord <- Outputs
    Findings <- SearchFindings
    LeavesEffects = {writer}
    Cost = {1, 2}
    Attempts = {1, 2}
    MaxIterations = 3
    MaxStepsWithoutProgress = 2
    CostCeiling = 4
SPECIFICATION Spec
INVARIANTS
    CrashLosesOneTurn
    ToldIsRecorded
    StopsAtItsLimits
    RailHolds
    EffectsAreRecorded
CHECK_DEADLOCK FALSE
