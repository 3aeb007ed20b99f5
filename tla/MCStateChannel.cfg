\* A viewer of either tenant, a run id both tenants have, and states of every kind.
CONSTANTS
    v1 = v1  acme = acme  globex = globex  r1 = r1  r2 = r2
    None = None  Rejected = Rejected
    Viewer = {v1}
    Namespace = {acme, globex}
    RunId = {r1, r2}
    Scripts <- MCScripts
    Message <- MCMessages
    MaxTotal = 3
    MaxSent = 2
SPECIFICATION Spec
INVARIANTS
    ViewersSeeTheirOwnRuns
    FramesArriveAsAnnounced
    NoRequestIsDroppedInSilence
CHECK_DEADLOCK FALSE
