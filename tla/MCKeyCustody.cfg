\* One process seals, reads, erases a subject twice and expires a bucket of the same
\* identifier; every Vault call may fail either way, and the process may crash.
CONSTANTS
    x = x  h1 = h1  s1 = s1  s2 = s2  e1 = e1  e2 = e2  b1 = b1  r1 = r1
    NoProof = NoProof  None = None
    Subject = {x}
    Bucket = {x}
    Host = {h1}
    Sealer = {s1}
    Destroyer = {e1, e2, b1}
    Reader = {r1}
    HostOf <- OnOneHost
    SubjectOf <- AllForX
    BucketOf <- AllForX
    TargetOf <- Targets
    ContentOf <- FirstContent
    Requests <- Every
    MaxGen = 2
SPECIFICATION Spec
INVARIANTS
    SignedProofIsTrue
    UnsealIsTruthful
    OnlyErasureErases
PROPERTY FirstProofStands
CHECK_DEADLOCK FALSE
