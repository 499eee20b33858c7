\* Two faults of any kind, two names put in the way, two moves of the remote.
SPECIFICATION FairSpec
CONSTANTS
    Snapshots <- MCSnapshots
    None = None
    MaxMoves = 2
    MaxFaults = 2
    MaxPuts = 2
    Faults = {"network", "export", "rename", "git", "remove", "disk", "kill"}
INVARIANTS
    TypeOK
    WholeOrUnborn
    FailureLeavesEmpty
PROPERTIES
    UserDataSurvives
    EmptyRootInitializes
\* Once the branch is born, the cycles of SyncScheduler take over.
CHECK_DEADLOCK FALSE
