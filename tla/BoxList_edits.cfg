SPECIFICATION Spec
CONSTANTS
    MaxLines = 4
    MaxAdded = 1
    Carets = 2
    Boxes <- MCBoxes
    Sessions = {{"one", "adds"}, {"model"}}
INVARIANTS
    TypeOK
    OneBoxPerLine
    LineKeepsBox
    OrphansShowNothing
