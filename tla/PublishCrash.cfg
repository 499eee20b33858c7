\* Crashes, lost replies and failed operations, two of them at any step, while
\* the producer pushes as often as publication is attempted and the one entry is
\* written three times: before, during and after a push.
SPECIFICATION Spec
CONSTANTS
    Entries = {e1}
    None = None
    Mixed = Mixed
    MaxAttempts = 2
    MaxVersion = 3
    MaxMoves = 2
    MaxFaults = 2
    Beside = TRUE
    Commands = {"tick", "force"}
    ProducerMoves = {"content"}
    Faults <- FaultsAtOnce
INVARIANTS
    NoLostMutation
    TrustedTreeMatches
    LandedPushTracked
    
    QuietConflictsAreRaces
PROPERTIES
    ImplementsOutbox
    FastForwardOnly
