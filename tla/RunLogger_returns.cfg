SPECIFICATION Spec
CONSTANTS
    Programs <- MCPrograms
    Limit = 11
    FunctionLines = {3}
    ModuleLines = {2}
    FunctionDoes = {"plain", "loop", "return"}
    ModuleDoes = {"plain", "loop", "call"}
CHECK_DEADLOCK FALSE
PROPERTIES OwnLoopsEnd
