\* The service and the one-shot command at once, one of them killed or leaving its
\* backup behind, which then blocks the renames of a later activation.
SPECIFICATION Spec
CONSTANTS
    Procs = {service, command}
    Service = service
    Tips <- Three
    Files <- ThreeTrees
    Valid <- TwoValid
    None = None
    Busy = Busy
    MaxName = 2
    MaxFaults = 1
    Faults = {"crash", "cleanup"}
INVARIANTS
    OneHolder
PROPERTIES
    ImplementsSwitch
