SPECIFICATION Spec
CONSTANTS
    Programs <- MCPrograms
    Limit = 11
    FunctionLines = {3}
    ModuleLines = {3}
    FunctionDoes = {"plain", "loop", "if", "break", "raise", "return", "call", "library"}
    ModuleDoes = {"plain", "loop", "call", "break"}
INVARIANTS
    TypeOK
    
    
    ThrownIsThrown
CHECK_DEADLOCK FALSE
