\* Everything others can do to the branch, resets and foreign state included,
\* with one fault of any kind, push requests that land after the client gave up
\* among them; and under fairness every marker is settled.
SPECIFICATION FairSpec
CONSTANTS
    Entries = {e1}
    None = None
    Mixed = Mixed
    MaxAttempts = 2
    MaxVersion = 2
    MaxMoves = 2
    MaxFaults = 1
    Beside = TRUE
    Commands = {"tick", "force"}
    ProducerMoves <- AllMoves
    Faults <- AllFaults
INVARIANTS
    TypeOK
    ForeignStateRejected
    LocalTipOnMain
    DivergenceIsGenuine
PROPERTIES
    DirtyIsSettled
