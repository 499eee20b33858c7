\* Three actions of the reader, one lost request, one activation.
SPECIFICATION FairSpec
CONSTANTS
    Snapshots <- MCSnapshots
    Installed <- MCInstalled
    Typed <- MCTyped
    None = None
    MaxId = 3
    MaxActions = 3
    MaxFaults = 1
    MaxActivations = 1
INVARIANTS
    TypeOK
    PagesAnswer
    TabsReachTheirEntries
    NothingShownUnsaved
PROPERTIES
    OpenEntryGetsRead
\* The reader may stop using the tab.
CHECK_DEADLOCK FALSE
