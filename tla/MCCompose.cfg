SPECIFICATION Spec
CONSTANTS
    Alice = Alice
    Bob = Bob
    Carol = Carol
    NoOne = NoOne
    EmptyTx = EmptyTx
    Payload = MockTx
    NoTx <- EmptyTx
    NoOwner <- NoOne
    Blocks <- MCBlocks
    Forks <- MCForks
    ProofHash <- MCProofHash
    Winning <- MCWinning
    ConfirmationThreshold <- MCConfirmation
    ForkThreshold <- MCFork
    Lottery <- FourWins
    Confirmation = 1
    Fork = 1
    Tolerance = 1
    MaxRound = 5
    MaxSupport = 4
INVARIANT
    ComposedBlockIsStoredBlock
CHECK_DEADLOCK FALSE
