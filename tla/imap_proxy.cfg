SPECIFICATION ProxySpec
CONSTANTS
    A = A  B = B  u = u  v = v
    Folders = {A, B}
    UidSets = {u, v}
    MaxCommands = 4
    MaxEager = 3
    Faults = TRUE
    MaxUnits = 3
    MaxChunk = 6
    MaxUid = 4
    MaxScript = 2
INVARIANTS
    SyncedInItsFolder StagedOnce StreamsAreFaithful SetsAreRead
PROPERTIES
    CopyIsKept AllIsAnswered
CHECK_DEADLOCK FALSE
