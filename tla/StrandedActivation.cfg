\* A rename out of the live tree fails.
SPECIFICATION Spec
CONSTANTS
    Procs = {service}
    Service = service
    Tips <- Three
    Files <- ThreeTrees
    Valid <- Three
    None = None
    Busy = Busy
    MaxName = 2
    MaxFaults = 1
    Faults = {"moveOut"}
INVARIANTS
    FailureKeepsSnapshot
