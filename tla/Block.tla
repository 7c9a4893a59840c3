------------------------------- MODULE Block -------------------------------
(***************************************************************************)
(* Blocks (cpos/core/block.py) and the validation of one block             *)
(* (BlockChain.validate_block, cpos/core/blockchain.py).                   *)
(*                                                                         *)
(* SHA-256 is modelled as a collision-free function: the hash of a block   *)
(* is the sequence of the values it commits to, the hash of the parent     *)
(* (itself such a sequence) followed by one record of the block's own      *)
(* fields.  A hash is therefore the path from the genesis block, and two   *)
(* hashes are equal exactly when the digests of the code would be.         *)
(***************************************************************************)
EXTENDS Integers, Sequences

CONSTANTS
    Blocks,           \* the blocks a node may build or receive
    NoTx,             \* transaction_hash of an empty transaction list, b""
    NoOwner,          \* owner_pubkey of the genesis block
    ProofHash(_),     \* rank of the digest computed by calculate_proof_hash
    Winning(_)        \* run_sortition over the block's signed node hash;
                      \* 0 also stands for a bad key or a bad signature

GenesisHash == << >>

GenesisBlock ==
    [parent |-> << >>, owner |-> NoOwner, round |-> 0, index |-> 0,
     ticket |-> 0, tx |-> NoTx]

\* What a block's proof hash commits to.  The signature is a function of the
\* node hash <<owner, round, parent>> and of the owner's key.
Proof(b) == [owner |-> b.owner, round |-> b.round, ticket |-> b.ticket]

\* sha256(proof_hash + parent_hash + transaction_hash).  The index is not
\* part of any hash.
Hash(b) ==
    IF b.index = 0 THEN GenesisHash
                   ELSE Append(b.parent, [proof |-> Proof(b), tx |-> b.tx])

\* BlockChain.validate_block: the winning tickets of the block, 0 for None.
ValidateBlock(b) == IF Winning(b) < b.ticket THEN 0 ELSE Winning(b)

\* Fields as Block.__init__ stores them: round and index are unsigned.
IsBlock(b) ==
    /\ b.round \in Nat
    /\ b.index \in Nat
    /\ b.ticket \in Nat

ASSUME BlocksAssumption ==
    \A b \in Blocks : IsBlock(b) /\ ProofHash(b) \in Nat /\ Winning(b) \in Nat
=============================================================================
