SPECIFICATION FairSpec
CONSTANTS
    MaxRequests = 5
    MaxTyped = 3
    Users <- MCUsers
INVARIANTS
    TypeOK
    PanelFollowsState
    OneSuggestion
    ShownIsWhole
    OneCompletion
PROPERTIES
    
    LoadingEnds
CHECK_DEADLOCK FALSE
