----------------------------- MODULE LocalChain -----------------------------
(***************************************************************************)
(* The SQL table localChains and the methods of BlockChain that read and   *)
(* write it (cpos/core/blockchain.py), as operators from a table to a      *)
(* table.                                                                  *)
(*                                                                         *)
(* The table is a SET of rows [block, confirmed, numSuc]: nothing in the   *)
(* database keeps block_index unique or contiguous, nor the parent links,  *)
(* so that the rows form a chain is a property of the code, not of this    *)
(* model.  A method that changes the table and returns a Boolean returns   *)
(* the record [ok, chain].                                                 *)
(***************************************************************************)
EXTENDS Block, FiniteSets

CONSTANTS
    ConfirmationThreshold(_),  \* confirmation_threshold(..., delta_r, 1e-6)
    ForkThreshold(_)           \* fork_threshold(..., delta_r, 0.95)

\* Faulty variant: every block enters the table confirmed.
RowConfirmed(b, confirmed) == [block |-> b, confirmed |-> TRUE, numSuc |-> 0]

Row(b, confirmed) == [block |-> b, confirmed |-> confirmed, numSuc |-> 0]

GenesisRow == Row(GenesisBlock, TRUE)

BlockInBlockchain(c, b) == \E r \in c : Hash(r.block) = Hash(b)

NumberOfBlocks(c) == Cardinality(c)

\* The row the queries "... WHERE block_index = i" fetch.
RowAt(c, i) == CHOOSE r \in c : r.block.index = i

HasCorrectParent(c, b) ==
    \E r \in c : r.block.index = b.index - 1 /\ Hash(r.block) = b.parent

\* Faulty variant: only the row of the index is deleted.
DeleteBlockAt(c, i) == {r \in c : r.block.index # i}

DeleteBlocksSince(c, i) == {r \in c : r.block.index < i}

BlocksSinceIndex(c, i) == {r \in c : r.block.index >= i}

\* Faulty variant: the tickets are subtracted.
SubtractSortition(c, i, tickets) ==
    {IF r.block.index < i /\ ~r.confirmed
       THEN [r EXCEPT !.numSuc = @ - tickets]
       ELSE r : r \in c}

\* Faulty variant: the parent of the block is not counted.
CountBelowParent(c, i, tickets) ==
    {IF r.block.index < i - 1 /\ ~r.confirmed
       THEN [r EXCEPT !.numSuc = @ + tickets]
       ELSE r : r \in c}

\* UPDATE ... SET numSuc = numSuc + tickets
\*            WHERE block_index < i AND confirmed = 0
UpdateSuccessfulSortition(c, i, tickets) ==
    {IF r.block.index < i /\ ~r.confirmed
       THEN [r EXCEPT !.numSuc = @ + tickets]
       ELSE r : r \in c}

-----------------------------------------------------------------------------
(* insert *)

\* The tests insert makes before it counts the block's tickets.
Acceptable(c, b) ==
    /\ ~BlockInBlockchain(c, b)
    /\ b.index # 0
    /\ b.index <= NumberOfBlocks(c)
    /\ HasCorrectParent(c, b)
    /\ ValidateBlock(b) > 0

\* Faulty variant: the last block to arrive wins, whatever its proof hash.
PreferLatest(c, b) == b.round > RowAt(c, b.index - 1).block.round

\* Faulty variant: the block is compared with the tip, not with the block in
\* its place.
PreferToTip(c, b) ==
    /\ NumberOfBlocks(c) > b.index =>
         ProofHash(b) < ProofHash(RowAt(c, NumberOfBlocks(c) - 1).block)
    /\ b.round > RowAt(c, b.index - 1).block.round

\* The tests made after the tickets were counted: the block beats the one in
\* its place, if there is one, and is of a later round than its parent.
Preferred(c, b) ==
    /\ NumberOfBlocks(c) > b.index =>
         ProofHash(b) < ProofHash(RowAt(c, b.index).block)
    /\ b.round > RowAt(c, b.index - 1).block.round

Counted(c, b) == UpdateSuccessfulSortition(c, b.index, ValidateBlock(b))

Insert(c, b) ==
    IF ~Acceptable(c, b) THEN [ok |-> FALSE, chain |-> c]
    ELSE IF ~Preferred(Counted(c, b), b) THEN [ok |-> FALSE, chain |-> Counted(c, b)]
    ELSE [ok    |-> TRUE,
          chain |-> DeleteBlocksSince(Counted(c, b), b.index) \cup {Row(b, FALSE)}]

-----------------------------------------------------------------------------
(* merge *)

\* The loop of merge over the blocks after the first: it stops at the first
\* block that insert refuses, and keeps what that call has counted.
InsertLoop(c, f) ==
    LET loop[k \in 0 .. Len(f)] ==
          IF k = 0 THEN [ok |-> TRUE, chain |-> c]
          ELSE IF loop[k - 1].ok THEN Insert(loop[k - 1].chain, f[k])
          ELSE loop[k - 1]
    IN  loop

InsertAll(c, f) == InsertLoop(c, f)[Len(f)].chain

\* Faulty variant: a fork at the genesis block is not found.
AncestorsAboveGenesis(c, f) ==
    {r \in c : Hash(r.block) = Head(f).parent /\ r.block.index > 0}

Ancestors(c, f) == {r \in c : Hash(r.block) = Head(f).parent}

\* block_of_hash(first_foreign_block.parent_hash): the lowest such row.
CommonAncestor(c, f) ==
    CHOOSE r \in Ancestors(c, f) :
        \A q \in Ancestors(c, f) : r.block.index <= q.block.index

\* The first foreign block is inserted on top of its parent, after every row
\* above that parent was removed; those rows come back only if it is refused.
MergeAt(c, f, idx) ==
    LET head == Insert(DeleteBlocksSince(c, idx + 1), Head(f))
    IN  IF head.ok
          THEN [ok |-> TRUE, chain |-> InsertAll(head.chain, Tail(f))]
          ELSE [ok |-> FALSE, chain |-> head.chain \cup BlocksSinceIndex(c, idx + 1)]

Merge(c, f) ==
    IF Ancestors(c, f) = {} THEN [ok |-> FALSE, chain |-> c]
    ELSE MergeAt(c, f, CommonAncestor(c, f).block.index)

\* merge pops the block it tries first off its caller's list.
MergeRest(c, f) == IF Ancestors(c, f) = {} THEN f ELSE Tail(f)

-----------------------------------------------------------------------------
(* The confirmation of blocks and the detection of forks, at a new round *)

Unconfirmed(c) == {r \in c : ~r.confirmed}

DeltaR(r, round) == round - r.block.round - 1

\* numSuc / delta_r > confirmation threshold
Confirmable(r, round) ==
    /\ DeltaR(r, round) > 0
    /\ r.block.index > 0
    /\ r.numSuc > ConfirmationThreshold(DeltaR(r, round)) * DeltaR(r, round)

\* Faulty variant: a row is confirmed although one below it cannot be.
ConfirmAny(c, round) == {r \in Unconfirmed(c) : Confirmable(r, round)}

\* The rows the loop of update_round confirms: from the oldest unconfirmed
\* one up, until the first that cannot be confirmed.
NewlyConfirmed(c, round) ==
    {r \in Unconfirmed(c) :
        \A q \in Unconfirmed(c) :
            q.block.index <= r.block.index => Confirmable(q, round)}

Confirm(c, rows) == (c \ rows) \cup {[r EXCEPT !.confirmed = TRUE] : r \in rows}

\* last_confirmed_block_info()[1] = last_block_id(): the tip is confirmed.
TipConfirmed(c) ==
    \E r \in c : r.confirmed /\ \A q \in c : q.block.index <= r.block.index

\* numSuc / delta_r < fork threshold, for the oldest row left unconfirmed
ForkSuspected(c, round) ==
    \E r \in Unconfirmed(c) :
        /\ \A q \in Unconfirmed(c) : r.block.index <= q.block.index
        /\ DeltaR(r, round) > 0
        /\ r.block.index > 0
        /\ r.numSuc < ForkThreshold(DeltaR(r, round)) * DeltaR(r, round)

-----------------------------------------------------------------------------
(* Blocks read back from the table *)

\* compose_block: the transactions come back from the row, their hash does
\* not (TransactionList.set_transactions leaves transactions_hash empty).
ComposeBlock(r) == [r.block EXCEPT !.tx = NoTx]

\* block_by_index: negative indexes count from the end of the chain.
BlockByIndex(c, i) ==
    ComposeBlock(RowAt(c, IF i < 0 THEN NumberOfBlocks(c) + i ELSE i))

-----------------------------------------------------------------------------
(* The shape of a chain *)

Rows == [block : Blocks \cup {GenesisBlock}, confirmed : BOOLEAN, numSuc : Nat]

Linked(c) ==
    /\ GenesisBlock \in {r.block : r \in c}
    /\ \A r, q \in c : r.block.index = q.block.index => r = q
    /\ \A r \in c : r.block # GenesisBlock =>
          \E p \in c : /\ p.block.index = r.block.index - 1
                       /\ r.block.parent = Hash(p.block)
                       /\ p.block.round < r.block.round

Contiguous(c) == {r.block.index : r \in c} = 0 .. NumberOfBlocks(c) - 1

\* The blocks above the genesis block, the lowest first.
Path(c) == [k \in 1 .. NumberOfBlocks(c) - 1 |-> RowAt(c, k).block]
=============================================================================
