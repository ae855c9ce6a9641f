CONSTANTS
    none = none
    None = none
    RestartLimit = 1
    BindLimit = 2
    MaxCommands = 3
    MaxCrashes = 2
SPECIFICATION FairSpec
INVARIANTS TypeOK PublishedIsCurrent
PROPERTIES CommandsReturn
CHECK_DEADLOCK FALSE
