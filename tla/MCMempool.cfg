SPECIFICATION Spec
CONSTANTS
    t1 = t1
    t2 = t2
    t3 = t3
    t4 = t4
    t5 = t5
    Transactions <- Five
    Value <- MCValue
    Size <- MCSize
    BlockSize = 3
    Limit = 2
    Stake = 2
INVARIANTS
    TypeOK
    NoTransactionTwice
    ChosenAreHandedOut
    EndsOnlyWhenDry
CHECK_DEADLOCK FALSE
