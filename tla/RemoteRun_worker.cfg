SPECIFICATION FairSpec
CONSTANTS
    MaxRuns = 6
    MaxVersion = 3
    Kinds = {"ok", "hang", "deaf"}
    Users <- MCUsers
INVARIANTS
    TypeOK
    NoStrayInterrupt
PROPERTIES
    BoxesSpec
    KillsEnd
    
CHECK_DEADLOCK FALSE
