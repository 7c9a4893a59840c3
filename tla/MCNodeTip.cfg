SPECIFICATION Spec
CONSTANTS
    Alice = Alice
    Bob = Bob
    Carol = Carol
    NoOne = NoOne
    EmptyTx = EmptyTx
    Nodes <- Trio
    Transactions <- EmptyTx
    NoTx <- EmptyTx
    NoOwner <- NoOne
    Blocks <- MCBlocks
    ProofHash <- MCProofHash
    Winning <- MCWinning
    ConfirmationThreshold <- MCConfirmation
    ForkThreshold <- MCFork
    Lottery <- Everyone
    Depth = 3
    Confirmation = 1
    Fork = 1
    Tolerance = 1
    Period = 1
    StartRound = 0
    TotalRounds = 9
    HidesCreated = {}
    HidesReceived = {}
    Forgetful = {}
    Starved = {}
    MaxSkew = 2
    MaxRound = 3
INVARIANT
    TipConfirmedOnlyAtGenesis
CHECK_DEADLOCK FALSE
