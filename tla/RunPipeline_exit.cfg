SPECIFICATION Spec
CONSTANTS
    MaxUpdates = 2
    MaxVersion = 2
    TurnCalls = 1
    Kinds = {"ok", "silent"}
    Users = {{"exit"}}
INVARIANT SettledShowsExitedProgram
CHECK_DEADLOCK FALSE
