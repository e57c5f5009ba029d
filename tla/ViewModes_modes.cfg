SPECIFICATION FairSpec
CONSTANTS
    Editors = {"first", "second"}
    First = "first"
    MaxChanges = 3
    Users <- MCUsers
INVARIANTS
    TypeOK
    ModeHolds
 
CHECK_DEADLOCK FALSE
