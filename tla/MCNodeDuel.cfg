SPECIFICATION Spec
CONSTANTS
    Alice = Alice
    Bob = Bob
    Carol = Carol
    NoOne = NoOne
    EmptyTx = EmptyTx
    Nodes <- Pair
    Transactions <- EmptyTx
    NoTx <- EmptyTx
    NoOwner <- NoOne
    Blocks <- MCBlocks
    ProofHash <- MCProofHash
    Winning <- MCWinning
    ConfirmationThreshold <- MCConfirmation
    ForkThreshold <- MCFork
    Lottery <- LateDuel
    Depth = 4
    Confirmation = 1
    Fork = 1
    Tolerance = 1
    Period = 2
    StartRound = 1
    TotalRounds = 5
    HidesCreated = {}
    HidesReceived = {}
    Forgetful = {}
    Starved <- Pair
    MaxSkew = 1
    MaxRound = 6
INVARIANTS
    OneConversation
PROPERTY
    ResyncEnds
CHECK_DEADLOCK FALSE
