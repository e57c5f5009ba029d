SPECIFICATION Spec
CONSTANTS
    N = 2
    Values = {"a", "b", "bad"}
    Bad = {"bad"}
    Undefined = Undefined
PROPERTY ExamplesAreSent
CHECK_DEADLOCK FALSE
