\* The marker of a read fails, and the read is asked for again.
SPECIFICATION Spec
CONSTANTS
    Entries = {e1, e2}
    None = None
    Deployments = {"service"}
    MaxEdits = 1
    MaxFaults = 1
    Faults = {"mark"}
SYMMETRY EntrySymmetry
INVARIANTS
    SuccessIsMarked
