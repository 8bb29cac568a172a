SPECIFICATION Spec
CONSTANTS
    Blocks <- MCBlocks
    Depth = 12
    Locals = 3
INVARIANTS
    BlockCorrect
    HeadsAgree
CHECK_DEADLOCK FALSE
