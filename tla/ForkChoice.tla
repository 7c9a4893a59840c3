----------------------------- MODULE ForkChoice -----------------------------
(***************************************************************************)
(* What a local chain promises, without rows, counters or confirmations:   *)
(* a path of blocks above the genesis block that grows at its end, that a  *)
(* block can cut only in favour of a smaller proof hash at the place of    *)
(* the cut, and that is otherwise replaced only by blocks of the one       *)
(* foreign subchain a resync adopts.                                       *)
(***************************************************************************)
EXTENDS Block

VARIABLES
    path,       \* the blocks above the genesis block, the lowest first
    resyncing,  \* a fork is suspected: a foreign subchain may be adopted
    offered     \* the foreign subchains there are to adopt, chosen by others

fcvars == <<path, resyncing>>

\* The block at height k, the genesis block being at height 0.
BlockAt(k) == IF k = 0 THEN GenesisBlock ELSE path[k]

Follows(b, k) ==
    /\ b.parent = Hash(BlockAt(k))
    /\ b.round > BlockAt(k).round

FCInit == path = << >> /\ resyncing = FALSE

\* One block is put on top of the first k, and nothing on top of it.
PutOn(k) ==
    /\ path' \in Seq(Blocks)
    /\ Len(path') = k + 1
    /\ \A i \in 1 .. k : path'[i] = path[i]
    /\ Follows(path'[k + 1], k)

Extend == PutOn(Len(path)) /\ UNCHANGED resyncing

\* The better block takes the place of the one at height k; what stood above
\* is gone.
Reorganise ==
    /\ UNCHANGED resyncing
    /\ \E k \in 1 .. Len(path) :
          /\ PutOn(k - 1)
          /\ ProofHash(path'[k]) < ProofHash(path[k])

\* The blocks have the indexes of one chain.  What a peer has sent block by
\* block, while its own chain has changed, may hold a block twice or siblings.
Climbs(f) == \A k \in DOMAIN f : f[k].index = f[1].index + k - 1

\* The first n blocks of a foreign subchain f replace everything above height k.
Adopt ==
    /\ resyncing
    /\ resyncing' = FALSE
    /\ \E f \in offered, k \in 0 .. Len(path) :
          /\ Climbs(f)
          /\ Follows(f[1], k)
          /\ \E n \in 1 .. Len(f) : path' = SubSeq(path, 1, k) \o SubSeq(f, 1, n)

\* Of blocks that are no subchain, some replace everything above height k.
AdoptSome ==
    /\ resyncing
    /\ resyncing' = FALSE
    /\ path' \in Seq(Blocks)
    /\ \E k \in 0 .. Len(path) :
          /\ k < Len(path')
          /\ \A i \in 1 .. k : path'[i] = path[i]
          /\ \E f \in offered : /\ ~Climbs(f)
                              /\ \A i \in k + 1 .. Len(path') : \E m \in DOMAIN f : path'[i] = f[m]

SuspectFork == resyncing' = TRUE /\ UNCHANGED path

Dismiss == resyncing /\ resyncing' = FALSE /\ UNCHANGED path

FCNext == SuspectFork \/ Dismiss \/ Extend \/ Reorganise \/ Adopt \/ AdoptSome

FCSpec == FCInit /\ [][FCNext]_fcvars
=============================================================================
