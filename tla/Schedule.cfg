\* Two mutations, so that one can keep a batch from being idle until the cap is
\* reached, and any two events; safety and liveness.
SPECIFICATION FairSpec
CONSTANTS
    Remotes = {r1, r2}
    None = None
    Installed = {None, r1}
    IdleAge = 2
    CapAge = 3
    PullAge = 3
    SetBack = 1
    MaxTicks = 1
    MaxMarks = 2
    MaxEvents = 2
    Faults = {"network", "reply", "kill", "disk", "config"}
INVARIANTS
    TypeOK
    SavedIsTried
    OverdueIsReported
PROPERTIES
    PendingKeepsItsRemote
    MarkersAreSettled
    ContentArrives
