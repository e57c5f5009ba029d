SPECIFICATION Spec
CONSTANTS
    x = x
    y = y
    Vars <- MCVars
    Boxes = {b1, b2}
    Sees <- MCSees
    Users = {{"one"}, {"all", "every", "modified"}}
SYMMETRY Symmetry
INVARIANTS
    TypeOK
    ChoiceKept
    DefaultShown
