SPECIFICATION Spec
CONSTANTS
    MaxStarts = 2
    MaxRequests = 2
    MaxEdits = 3
    MaxHandlers = 2
INVARIANTS
    TypeOK
    BoxesReturn
    TableIsWhole
    
PROPERTIES
    LastRequestAnswers
    QuietWhenOver
CHECK_DEADLOCK FALSE
