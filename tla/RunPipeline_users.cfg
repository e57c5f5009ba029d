SPECIFICATION FairSpec
CONSTANTS
    MaxUpdates = 3
    MaxVersion = 3
    TurnCalls = 1
    Kinds = {"ok", "error", "silent", "hang"}
    Users = {{"switch"}, {"synthesize", "exit"}}
INVARIANTS
    TypeOK
    
    
    
    ErrorsAreNewer
    
PROPERTIES
    BoxesSpec
    
CHECK_DEADLOCK FALSE
