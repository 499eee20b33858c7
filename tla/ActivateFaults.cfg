\* The service alone: any two failures and crashes, at any rename, and an
\* operator who runs recover-local when a lock is stale.
SPECIFICATION FairSpec
CONSTANTS
    Procs = {service}
    Service = service
    Tips <- Three
    Files <- ThreeTrees
    Valid <- Three
    None = None
    Busy = Busy
    MaxName = 2
    MaxFaults = 2
    Faults <- RolledBackFaults
INVARIANTS
    TypeOK
    Recoverable
    
    
PROPERTIES
    
    LockIsReleased
