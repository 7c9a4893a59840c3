SPECIFICATION Spec
CONSTANTS
    Calls <- MCCalls
    Grid = 32
INVARIANTS
    TypeOK
    ConfirmationIsLeast
    ForkIsGreatest
    TicketsAreQuantile
PROPERTIES
    Terminates
    EveryPassIsCloser
CHECK_DEADLOCK FALSE
