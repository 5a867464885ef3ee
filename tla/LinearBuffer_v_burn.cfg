SPECIFICATION Spec
CONSTANTS
    MaxSize = 4
    MaxCap = 5
    Prefix = 1
INVARIANTS BurnWipesAll
