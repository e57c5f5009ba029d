SPECIFICATION Spec
CONSTANTS
    MaxRequests = 3
    MaxTyped = 1
    Users <- MCEscapers
INVARIANT EscapeCancels
CHECK_DEADLOCK FALSE
