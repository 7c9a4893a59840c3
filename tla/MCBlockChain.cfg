SPECIFICATION Spec
CONSTANTS
    Alice = Alice
    Bob = Bob
    Carol = Carol
    NoOne = NoOne
    EmptyTx = EmptyTx
    Payload <- EmptyTx
    NoTx <- EmptyTx
    NoOwner <- NoOne
    Blocks <- MCBlocks
    Forks <- MCForks
    ProofHash <- MCProofHash
    Winning <- MCWinning
    ConfirmationThreshold <- MCConfirmation
    ForkThreshold <- MCFork
    Lottery <- SixWins
    Confirmation = 1
    Fork = 1
    Tolerance = 1
    MaxRound = 5
    MaxSupport = 4
INVARIANTS
    TypeOK
    ChainWellFormed
    ConfirmedPrefix
    TipUnconfirmed
    SupportCounted
    SiblingsCommute
PROPERTY
    ImplementsForkChoice
CHECK_DEADLOCK FALSE
