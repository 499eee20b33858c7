\* Requests and publication, on the service's one thread and by a command beside
\* it, with two faults of any kind.
SPECIFICATION Spec
CONSTANTS
    Entries = {e1, e2}
    None = None
    Deployments = {"service", "command"}
    MaxEdits = 1
    MaxFaults = 2
    Faults = {"write", "mark", "network", "crash"}
SYMMETRY EntrySymmetry
INVARIANTS
    TypeOK
    NoTemporaryPublished
    QuietStateValidates
    SyncedIsPublished
