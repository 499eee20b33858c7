\* The reply to a push is lost and the next cycle is a pull.
SPECIFICATION Spec
CONSTANTS
    Entries = {e1}
    None = None
    Mixed = Mixed
    MaxAttempts = 2
    MaxVersion = 2
    MaxMoves = 0
    MaxFaults = 1
    Beside = FALSE
    Commands = {"tick", "force"}
    ProducerMoves = {"content"}
    Faults = {"push"}
INVARIANTS
    StateConflictIsForeign
