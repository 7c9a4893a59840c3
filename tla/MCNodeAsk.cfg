SPECIFICATION Spec
CONSTANTS
    Alice = Alice
    Bob = Bob
    Carol = Carol
    NoOne = NoOne
    EmptyTx = EmptyTx
    Nodes <- Trio
    Transactions <- EmptyTx
    NoTx <- EmptyTx
    NoOwner <- NoOne
    Blocks <- MCBlocks
    ProofHash <- MCProofHash
    Winning <- MCWinning
    ConfirmationThreshold <- MCConfirmation
    ForkThreshold <- MCFork
    Lottery <- LongLead
    Depth = 4
    Confirmation = 1
    Fork = 1
    Tolerance = 1
    Period = 1
    StartRound = 1
    TotalRounds = 9
    HidesCreated = {}
    HidesReceived = {}
    Forgetful <- AliceForgets
    Starved = {}
    MaxSkew = 1
    MaxRound = 3
INVARIANT
    AnotherPeerIsAsked
CHECK_DEADLOCK FALSE
