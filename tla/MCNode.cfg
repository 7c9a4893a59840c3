SPECIFICATION Spec
CONSTANTS
    Alice = Alice
    Bob = Bob
    Carol = Carol
    NoOne = NoOne
    EmptyTx = EmptyTx
    Nodes <- Trio
    Transactions <- EmptyTx
    NoTx <- EmptyTx
    NoOwner <- NoOne
    Blocks <- MCBlocks
    ProofHash <- MCProofHash
    Winning <- MCWinning
    ConfirmationThreshold <- MCConfirmation
    ForkThreshold <- MCFork
    Lottery <- LongLeadOfThree
    Depth = 4
    Confirmation = 1
    Fork = 1
    Tolerance = 0
    Period = 1
    StartRound = 1
    TotalRounds = 9
    HidesCreated = {Carol}
    HidesReceived = {Alice}
    Forgetful = {}
    Starved = {}
    MaxSkew = 1
    MaxRound = 3
INVARIANTS
    TypeOK
    MissedBlocksAreMissing
    ResyncsUntilResolved
    OneConversation
    RequestsInReach
PROPERTY
    NodesFollowForkChoice
CHECK_DEADLOCK FALSE
