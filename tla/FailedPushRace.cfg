\* A push fails without landing and the producer pushes content before the retry.
SPECIFICATION Spec
CONSTANTS
    Entries = {e1}
    None = None
    Mixed = Mixed
    MaxAttempts = 2
    MaxVersion = 2
    MaxMoves = 1
    MaxFaults = 1
    Beside = FALSE
    Commands = {"force"}
    ProducerMoves = {"content"}
    Faults = {"push"}
INVARIANTS
    UnconfirmedIsGenuine
