----------------------------- MODULE BlockChain -----------------------------
(***************************************************************************)
(* The local chain of one node (class BlockChain, cpos/core/blockchain.py) *)
(* as its node drives it (cpos/node.py): the round changes, a block is     *)
(* offered to insert, a foreign subchain is offered to merge, a resync is  *)
(* given up.  Every method runs to completion in the single thread of the  *)
(* node, so one action is one call.                                        *)
(***************************************************************************)
EXTENDS LocalChain

CONSTANTS
    Forks,       \* the foreign subchains merge may be called with
    Tolerance,   \* parameters.tolerance, in rounds
    MaxRound,    \* bound: the last round
    MaxSupport   \* bound: the largest numSuc

ASSUME BoundsAssumption ==
    /\ Tolerance \in Nat
    /\ MaxRound \in Nat
    /\ MaxSupport \in Nat

ASSUME ThresholdsAssumption ==
    \A delta_r \in 1 .. MaxRound : /\ ConfirmationThreshold(delta_r) \in Nat \ {0}
                                   /\ ForkThreshold(delta_r) \in Nat

ASSUME ForksAssumption ==
    \A f \in Forks : f \in Seq(Blocks) /\ f # << >>

VARIABLES
    localChains,    \* the rows of the table
    current_round,
    fork_detected,
    raised          \* an exception has left update_round: the node is dead

vars == <<localChains, current_round, fork_detected, raised>>

-----------------------------------------------------------------------------
\* The constructor inserts the genesis block, already confirmed.
Init ==
    /\ localChains = {GenesisRow}
    /\ current_round = 0
    /\ fork_detected = FALSE
    /\ raised = FALSE

Bounded(c) == \A r \in c : r.numSuc <= MaxSupport

\* update_round, once the clock is in another round.  Rounds can be skipped:
\* the node only looks at the clock between two messages.  The loop ends with
\* an exception when it has confirmed the tip, because there is then no oldest
\* unconfirmed block to fetch.
UpdateRound ==
    \E round \in current_round + 1 .. MaxRound :
        /\ ~raised
        /\ current_round' = round
        /\ IF TipConfirmed(localChains)
             THEN UNCHANGED <<localChains, fork_detected, raised>>
             ELSE LET new  == NewlyConfirmed(localChains, round)
                      next == Confirm(localChains, new)
                  IN  /\ localChains' = next
                      /\ raised' = (new = Unconfirmed(localChains))
                      /\ fork_detected' = (fork_detected \/ ForkSuspected(next, round))

\* insert, for a block of a round that handle_new_block tolerates, or for the
\* block the node has just built (its round is the current one).
InsertBlock(b) ==
    /\ ~raised
    /\ b.round \in current_round .. current_round + Tolerance
    /\ Bounded(Insert(localChains, b).chain)
    /\ localChains' = Insert(localChains, b).chain
    /\ UNCHANGED <<current_round, fork_detected, raised>>

\* merge, while the node resyncs: it does so only after a fork was detected,
\* and a merge that succeeds ends the resync and clears the flag.
MergeFork(f) ==
    /\ ~raised
    /\ fork_detected
    /\ Bounded(Merge(localChains, f).chain)
    /\ localChains' = Merge(localChains, f).chain
    /\ fork_detected' = ~Merge(localChains, f).ok
    /\ UNCHANGED <<current_round, raised>>

\* The peer had no more blocks and no other missed block is left to ask about.
GiveUpResync ==
    /\ ~raised
    /\ fork_detected
    /\ fork_detected' = FALSE
    /\ UNCHANGED <<localChains, current_round, raised>>

Next ==
    \/ UpdateRound
    \/ \E b \in Blocks : InsertBlock(b)
    \/ \E f \in Forks : MergeFork(f)
    \/ GiveUpResync

Spec == Init /\ [][Next]_vars

-----------------------------------------------------------------------------
(* Properties *)

\* The types of the columns and of the attributes of BlockChain.
TypeOK ==
    /\ localChains \subseteq Rows
    /\ IsFiniteSet(localChains)
    /\ current_round \in Nat
    /\ fork_detected \in BOOLEAN
    /\ raised \in BOOLEAN

\* The rows form one chain: no two rows share an index and no index below the
\* highest is missing; the genesis block is at the bottom; every other row
\* names the hash of the row below it as its parent and is of a later round.
\* insert and merge rely on it when they fetch "the" row of an index
\* (blockchain.py:346, 394, 401) and when they take the count of the rows for
\* the next index (blockchain.py:207); the table itself enforces none of it.
ChainWellFormed == Linked(localChains) /\ Contiguous(localChains)

\* Blocks are confirmed in order: below a confirmed row every row is confirmed,
\* whatever was replaced, merged or put back since (blockchain.py:106-131).
ConfirmedPrefix ==
    \A r, q \in localChains :
        r.confirmed /\ q.block.index <= r.block.index => q.confirmed

\* While the node lives, the tip of a chain that is longer than the genesis
\* block is not confirmed, so update_round always finds an unconfirmed row to
\* start from (blockchain.py:107).
TipUnconfirmed ==
    ~raised => \/ localChains = {GenesisRow}
               \/ ~TipConfirmed(localChains)

\* No support is lost: an unconfirmed block was counted at least once for
\* every block that now stands above it, also after blocks were replaced and
\* after a merge has rebuilt the suffix of the chain (blockchain.py:219-237).
Above(r) == {q \in localChains : q.block.index > r.block.index}

SupportCounted ==
    \A r \in localChains : ~r.confirmed => r.numSuc >= Cardinality(Above(r))

\* The local chain implements the abstract fork choice: read as a path of
\* blocks, it only ever grows at the end, is cut only in favour of a smaller
\* proof hash at the place of the cut, and adopts a foreign subchain only while
\* a fork is suspected.  A merge that fails leaves the path as it was, and no
\* round change touches it (blockchain.py:197-270).
Choice == INSTANCE ForkChoice
              WITH path <- Path(localChains), resyncing <- fork_detected, offered <- Forks

ImplementsForkChoice == Choice!FCSpec

\* Two blocks built on the same parent may arrive in either order: the path
\* that insert leaves is the same (blockchain.py:222-237).  Nothing waits for
\* the other block of a round, so agreement between nodes rests on it.
Siblings(b) == {s \in Blocks : s.parent = b.parent /\ s.index = b.index}

SiblingsCommute ==
    \A a \in {b \in Blocks : Acceptable(localChains, b)} : \A b \in Siblings(a) :
        Acceptable(localChains, b) =>
            Path(Insert(Insert(localChains, a).chain, b).chain)
              = Path(Insert(Insert(localChains, b).chain, a).chain)

-----------------------------------------------------------------------------
(* What a comment of the code says, and the code does not do *)

\* blockchain.py:308, of compose_block: "Receives a line from the database
\* containing block info and returns a block with that info".
ComposedBlockIsStoredBlock ==
    \A r \in localChains \ {GenesisRow} : Hash(ComposeBlock(r)) = Hash(r.block)
=============================================================================
