SPECIFICATION Spec
CONSTANTS
    Calls <- TwoStakes
    Grid = 32
INVARIANT
    AtLeastOneWithSuccessProbability
CHECK_DEADLOCK FALSE
