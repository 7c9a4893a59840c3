-------------------------- MODULE BlockChainProofs --------------------------
(***************************************************************************)
(* The invariants of one local chain hold for every universe of blocks and *)
(* foreign subchains, every proof hash, lottery, threshold, tolerance and  *)
(* bound; and so do its implementation of the fork choice of ForkChoice,   *)
(* and the choice between siblings whatever their order.                   *)
(***************************************************************************)
EXTENDS BlockChain, LocalChainProofs

(***************************************************************************)
(* The inductive invariant.  That the tip is unconfirmed is needed for a   *)
(* node that lives: a round change that confirms the tip kills it.         *)
(***************************************************************************)
IInv ==
    /\ TypeOK
    /\ \E n \in Nat : /\ Sound(localChains, n)
                      /\ ~raised => Open(localChains, n)

LEMMA InitIInv == Init => IInv
<1> SUFFICES ASSUME Init PROVE IInv
  OBVIOUS
<1> DEFINE c == {GenesisRow}
<1>1. GenesisRow \in Rows /\ GenesisRow.confirmed /\ GenesisRow.block = GenesisBlock
  BY DEF GenesisRow, Row, Rows
<1>2. GenesisBlock.index = 0
  BY DEF GenesisBlock
<1>3. Shape(c, 0)
  <2>1. {r.block.index : r \in c} = 0 .. 0
    BY <1>1, <1>2
  <2>2. Linked(c)
    BY <1>1 DEF Linked
  <2> QED
    BY <1>1, <2>1, <2>2 DEF Shape
<1>4. Sound(c, 0)
  BY <1>1, <1>3 DEF Sound
<1>5. Open(c, 0)
  BY <1>4 DEF Open
<1>6. IsFiniteSet(c)
  BY FS_Singleton
<1>7. TypeOK
  BY <1>1, <1>6 DEF Init, TypeOK
<1> QED
  BY <1>4, <1>5, <1>7 DEF Init, IInv

LEMMA NextIInv == IInv /\ [Next]_vars => IInv'
<1> SUFFICES ASSUME IInv, [Next]_vars PROVE IInv'
  OBVIOUS
<1>1. PICK n \in Nat : Sound(localChains, n) /\ (~raised => Open(localChains, n))
  BY DEF IInv
<1>2. TypeOK
  BY DEF IInv
<1>3. ASSUME NEW c, NEW m \in Nat, Sound(c, m)
      PROVE  c \subseteq Rows /\ IsFiniteSet(c)
  BY <1>3, ShapeCount DEF Sound, Shape
<1>4. CASE UpdateRound
  <2>1. PICK round \in current_round + 1 .. MaxRound :
           /\ ~raised
           /\ current_round' = round
           /\ IF TipConfirmed(localChains)
                THEN UNCHANGED <<localChains, fork_detected, raised>>
                ELSE LET new  == NewlyConfirmed(localChains, round)
                         next == Confirm(localChains, new)
                     IN  /\ localChains' = next
                         /\ raised' = (new = Unconfirmed(localChains))
                         /\ fork_detected' = (fork_detected \/ ForkSuspected(next, round))
    BY <1>4 DEF UpdateRound
  <2>2. current_round' \in Nat
    BY <1>2, <2>1, BoundsAssumption DEF TypeOK
  <2>3. CASE TipConfirmed(localChains)
    BY <1>1, <1>2, <2>1, <2>2, <2>3 DEF IInv, TypeOK
  <2>4. CASE ~TipConfirmed(localChains)
    <3> DEFINE new == NewlyConfirmed(localChains, round)
    <3>1. /\ localChains' = Confirm(localChains, new)
          /\ raised' = (new = Unconfirmed(localChains))
          /\ fork_detected' = (fork_detected \/ ForkSuspected(Confirm(localChains, new), round))
      BY <2>1, <2>4
    <3>2. /\ Sound(Confirm(localChains, new), n)
          /\ Open(localChains, n) /\ new # Unconfirmed(localChains)
               => Open(Confirm(localChains, new), n)
      BY <1>1, ConfirmSound
    <3> HIDE DEF new
    <3>3. Sound(localChains', n) /\ (~raised' => Open(localChains', n))
      BY <1>1, <2>1, <3>1, <3>2
    <3>4. raised' \in BOOLEAN /\ fork_detected' \in BOOLEAN
      <4>1. fork_detected \in BOOLEAN
        BY <1>2 DEF TypeOK
      <4>2. ForkSuspected(Confirm(localChains, new), round) \in BOOLEAN
        BY Zenon DEF ForkSuspected
      <4> QED
        BY <3>1, <4>1, <4>2
    <3> QED
      BY <1>3, <2>2, <3>3, <3>4 DEF IInv, TypeOK
  <2> QED
    BY <2>3, <2>4
<1>5. ASSUME NEW b \in Blocks, InsertBlock(b) PROVE IInv'
  <2>1. ~raised /\ localChains' = Insert(localChains, b).chain
        /\ UNCHANGED <<current_round, fork_detected, raised>>
    BY <1>5 DEF InsertBlock
  <2>2. \E m \in Nat : Open(localChains', m)
    <3>1. b.index \in Nat
      BY BlocksAssumption DEF IsBlock
    <3> QED
      BY <1>1, <2>1, <3>1, InsertSound
  <2> QED
    BY <1>2, <1>3, <2>1, <2>2 DEF IInv, TypeOK, Open
<1>6. ASSUME NEW f \in Forks, MergeFork(f) PROVE IInv'
  <2>1. /\ ~raised
        /\ localChains' = Merge(localChains, f).chain
        /\ fork_detected' = ~Merge(localChains, f).ok
        /\ UNCHANGED <<current_round, raised>>
    BY <1>6 DEF MergeFork
  <2>2. f \in Seq(Blocks) /\ f # << >>
    BY ForksAssumption
  <2>3. \E m \in Nat : Open(localChains', m)
    BY <1>1, <2>1, <2>2, MergeSound
  <2> QED
    BY <1>2, <1>3, <2>1, <2>3 DEF IInv, TypeOK, Open
<1>7. CASE GiveUpResync
  BY <1>1, <1>2, <1>7 DEF GiveUpResync, IInv, TypeOK
<1>8. CASE UNCHANGED vars
  BY <1>1, <1>2, <1>8 DEF vars, IInv, TypeOK
<1> QED
  BY <1>4, <1>5, <1>6, <1>7, <1>8 DEF Next

LEMMA Invariance == Spec => []IInv
BY InitIInv, NextIInv, PTL DEF Spec

-----------------------------------------------------------------------------
\* The columns of the table and the attributes keep their types under every
\* sequence of round changes, insertions, merges and abandoned resyncs.
THEOREM TypeCorrect == Spec => []TypeOK
<1>1. IInv => TypeOK
  BY DEF IInv
<1> QED
  BY <1>1, Invariance, PTL

\* insert and merge, which read the table as if its rows were one chain, leave
\* it one chain (blockchain.py:197-270).
THEOREM AlwaysAChain == Spec => []ChainWellFormed
<1>1. IInv => ChainWellFormed
  BY ShapeIsGood DEF IInv, Sound, GoodChain, ChainWellFormed
<1> QED
  BY <1>1, Invariance, PTL

\* The confirmed rows are the lowest ones, whatever was replaced, merged or
\* reintroduced (blockchain.py:106-131, 447-453).
THEOREM ConfirmedInOrder == Spec => []ConfirmedPrefix
<1>1. IInv => ConfirmedPrefix
  BY DEF IInv, Sound, ConfirmedPrefix
<1> QED
  BY <1>1, Invariance, PTL

\* While the node lives its tip is unconfirmed or the genesis block, so
\* update_round finds an unconfirmed row to start from (blockchain.py:107).
THEOREM TipStaysUnconfirmed == Spec => []TipUnconfirmed
<1>1. IInv => TipUnconfirmed
  BY OpenTip DEF IInv, TipUnconfirmed
<1> QED
  BY <1>1, Invariance, PTL

\* An unconfirmed block has at least one ticket for every block that stands
\* above it, also after replacements and merges (blockchain.py:219-237).
THEOREM SupportIsNeverLost == Spec => []SupportCounted
<1>1. IInv => SupportCounted
  <2> SUFFICES ASSUME IInv, NEW r \in localChains, ~r.confirmed
               PROVE  r.numSuc >= Cardinality(Above(r))
    BY DEF SupportCounted
  <2>1. PICK n \in Nat : Sound(localChains, n)
    BY DEF IInv
  <2>2. Cardinality(Above(r)) = n - r.block.index
    BY <2>1, AboveCount DEF Above, Sound
  <2> QED
    BY <2>1, <2>2 DEF Sound
<1> QED
  BY <1>1, Invariance, PTL

-----------------------------------------------------------------------------
(* Every step is a step of the fork choice, or none *)

\* ForkChoice speaks of the same blocks.
LEMMA SameBlocks ==
    /\ Choice!GenesisBlock = GenesisBlock
    /\ \A b : Choice!Hash(b) = Hash(b)
BY DEF Choice!GenesisBlock, GenesisBlock, Choice!Hash, Hash, Choice!GenesisHash, GenesisHash,
       Choice!Proof, Proof

LEMMA FollowsIs ==
    ASSUME NEW k, NEW b
    PROVE  Choice!Follows(b, k) <=> FollowsOn(Path(localChains), b, k)
BY SameBlocks DEF Choice!Follows, Choice!BlockAt, FollowsOn

LEMMA PutOnIs ==
    ASSUME NEW k
    PROVE  Choice!PutOn(k) <=> Topped(Path(localChains), Path(localChains'), k)
<1>1. Path(localChains)' = Path(localChains')
  BY DEF Path
<1> QED
  BY <1>1, FollowsIs DEF Choice!PutOn, Topped

LEMMA InitChoice == Init => Choice!FCInit
<1> SUFFICES ASSUME Init PROVE Path({GenesisRow}) = << >>
  BY DEF Init, Choice!FCInit
<1>1. IInv /\ localChains = {GenesisRow}
  BY InitIInv DEF Init
<1>2. PICK n \in Nat : Shape({GenesisRow}, n)
  BY <1>1 DEF IInv, Sound
<1>3. n = 0
  <2>1. n \in 0 .. n /\ {r.block.index : r \in {GenesisRow}} = 0 .. n
    BY <1>2 DEF Shape
  <2>2. GenesisRow.block.index = 0
    BY DEF GenesisRow, Row, GenesisBlock
  <2>3. n \in {GenesisRow.block.index}
    BY <2>1
  <2> QED
    BY <2>2, <2>3
<1>4. Path({GenesisRow}) \in Seq(Blocks) /\ Len(Path({GenesisRow})) = 0
  BY <1>2, <1>3, PathOK
<1> QED
  BY <1>4, EmptySeq

LEMMA NextChoice ==
    ASSUME IInv, IInv', [Next]_vars
    PROVE  [Choice!FCNext]_(Choice!fcvars)
<1> DEFINE c == localChains
<1>1. PICK n \in Nat : Sound(c, n)
  BY DEF IInv
<1>2. Shape(c, n)
  BY <1>1 DEF Sound
<1>4. CASE UNCHANGED vars
  BY <1>4 DEF vars, Choice!fcvars, Path
<1>5. CASE UpdateRound
  <2>1. PICK round \in current_round + 1 .. MaxRound :
           IF TipConfirmed(c)
             THEN UNCHANGED <<localChains, fork_detected, raised>>
             ELSE LET new  == NewlyConfirmed(c, round)
                      next == Confirm(c, new)
                  IN  /\ localChains' = next
                      /\ raised' = (new = Unconfirmed(c))
                      /\ fork_detected' = (fork_detected \/ ForkSuspected(next, round))
    BY <1>5 DEF UpdateRound
  <2>2. CASE TipConfirmed(c)
    BY <2>1, <2>2 DEF Choice!fcvars, Path
  <2>3. CASE ~TipConfirmed(c)
    <3> DEFINE new == NewlyConfirmed(c, round)
               next == Confirm(c, new)
    <3>1. localChains' = next
          /\ fork_detected' = (fork_detected \/ ForkSuspected(next, round))
      BY <2>1, <2>3
    <3>2. new \in SUBSET c
      BY DEF NewlyConfirmed, Unconfirmed
    <3>3. Path(next) = Path(c)
      <4> HIDE DEF c, new
      <4> QED
        BY <1>2, <3>2, ConfirmPath
    <3>4. Path(localChains') = Path(localChains)
      BY <3>1, <3>3
    <3>5. fork_detected' = TRUE \/ fork_detected' = fork_detected
      <4>1. fork_detected \in BOOLEAN /\ fork_detected' \in BOOLEAN
        BY DEF IInv, TypeOK
      <4>2. fork_detected => fork_detected'
        BY <3>1
      <4> QED
        BY <4>1, <4>2
    <3> QED
      BY <3>4, <3>5 DEF Choice!fcvars, Choice!FCNext, Choice!SuspectFork, Path
  <2> QED
    BY <2>2, <2>3
<1>6. ASSUME NEW b \in Blocks, InsertBlock(b) PROVE [Choice!FCNext]_(Choice!fcvars)
  <2>1. localChains' = Insert(c, b).chain /\ fork_detected' = fork_detected
    BY <1>6 DEF InsertBlock
  <2> DEFINE p == Path(localChains)
             q == Path(localChains')
  <2>2. \/ q = p
        \/ Topped(p, q, Len(p))
        \/ \E k \in 1 .. Len(p) : Topped(p, q, k - 1) /\ ProofHash(q[k]) < ProofHash(p[k])
    BY <1>2, <2>1, InsertChoice
  <2>3. CASE q = p
    BY <2>1, <2>3 DEF Choice!fcvars, Path
  <2>4. CASE Topped(p, q, Len(p))
    BY <2>1, <2>4, PutOnIs DEF Choice!FCNext, Choice!Extend
  <2>5. ASSUME NEW k \in 1 .. Len(p), Topped(p, q, k - 1), ProofHash(q[k]) < ProofHash(p[k])
        PROVE  Choice!Reorganise
    BY <2>1, <2>5, PutOnIs DEF Choice!Reorganise, Path
  <2> QED
    BY <2>2, <2>3, <2>4, <2>5 DEF Choice!FCNext
<1>7. ASSUME NEW f \in Forks, MergeFork(f) PROVE [Choice!FCNext]_(Choice!fcvars)
  <2>1. /\ fork_detected
        /\ localChains' = Merge(c, f).chain
        /\ fork_detected' = ~Merge(c, f).ok
    BY <1>7 DEF MergeFork
  <2>2. f \in Seq(Blocks) /\ f # << >>
    BY ForksAssumption
  <2>3. Choice!Climbs(f) <=> Climbs(f)
    BY DEF Choice!Climbs, Climbs
  <2>4. CASE Merge(c, f).ok /\ Climbs(f)
    <3>1. PICK k \in 0 .. Len(Path(c)) :
              /\ FollowsOn(Path(c), f[1], k)
              /\ \E j \in 1 .. Len(f) :
                    Path(Merge(c, f).chain) = SubSeq(Path(c), 1, k) \o SubSeq(f, 1, j)
      BY <1>2, <2>2, <2>4, MergeChoice
    <3>2. Choice!Follows(f[1], k)
      BY <3>1, FollowsIs
    <3>3. Choice!Adopt
      BY <2>1, <2>3, <2>4, <3>1, <3>2 DEF Choice!Adopt, Path
    <3> QED
      BY <3>3 DEF Choice!FCNext
  <2>5. CASE Merge(c, f).ok /\ ~Climbs(f)
    <3> DEFINE d == Merge(c, f).chain
    <3>1. PICK k \in 0 .. Len(Path(c)) :
              /\ k < Len(Path(d))
              /\ \A i \in 1 .. k : Path(d)[i] = Path(c)[i]
              /\ \A i \in k + 1 .. Len(Path(d)) : \E m \in DOMAIN f : Path(d)[i] = f[m]
      BY <1>2, <2>2, <2>5, MergeMixed DEF Mixed
    <3>2. Path(d) \in Seq(Blocks)
      <4>1. PICK m \in Nat : Shape(localChains', m)
        BY DEF IInv, Sound
      <4>2. Path(localChains') = Path(d)
        BY <2>1
      <4> QED
        BY <4>1, <4>2, PathOK
    <3>3. Path(localChains)' = Path(d)
      BY <2>1 DEF Path
    <3>4. fork_detected /\ fork_detected' = FALSE
      BY <2>1, <2>5
    <3> HIDE DEF c, d
    <3>5. Choice!AdoptSome
      BY <2>3, <2>5, <3>1, <3>2, <3>3, <3>4 DEF Choice!AdoptSome, c
    <3> QED
      BY <3>5 DEF Choice!FCNext
  <2>6. CASE ~Merge(c, f).ok
    <3>1. Path(Merge(c, f).chain) = Path(c)
      BY <1>1, <2>2, <2>6, MergeRefusedPath
    <3>2. fork_detected' = fork_detected
      BY <2>1, <2>6 DEF IInv, TypeOK
    <3> QED
      BY <2>1, <3>1, <3>2 DEF Choice!fcvars, Path
  <2> QED
    BY <2>4, <2>5, <2>6
<1>8. CASE GiveUpResync
  BY <1>8 DEF GiveUpResync, Choice!FCNext, Choice!Dismiss, Path
<1> QED
  BY <1>4, <1>5, <1>6, <1>7, <1>8 DEF Next

\* The local chain implements the fork choice, also for what a peer sends whose
\* chain changes between two requests (blockchain.py:197-270).
THEOREM Refinement == Spec => ImplementsForkChoice
<1>1. IInv /\ IInv' /\ [Next]_vars => [Choice!FCNext]_(Choice!fcvars)
  BY NextChoice
<1> QED
  BY <1>1, InitChoice, Invariance, PTL DEF Spec, ImplementsForkChoice, Choice!FCSpec

-----------------------------------------------------------------------------
(* Siblings *)

\* The block is of a later round than the one below it and beats the one in its place.
Beats(c, n, b) ==
    /\ b.index <= n => ProofHash(b) < ProofHash(Path(c)[b.index])
    /\ b.round > BlockAtHeight(c, b.index - 1).round

\* insert takes an acceptable block exactly if it beats the path.
LEMMA InsertIffBeats ==
    ASSUME NEW c, NEW n \in Nat, Shape(c, n), NEW b \in Blocks, Acceptable(c, b)
    PROVE  /\ b.index \in 1 .. n + 1
           /\ Insert(c, b).ok <=> Beats(c, n, b)
<1> DEFINE i == b.index
           e == Counted(c, b)
<1>1. i \in 1 .. n + 1
  <2>1. i \in Nat /\ i # 0 /\ i <= NumberOfBlocks(c)
    BY BlocksAssumption DEF IsBlock, Acceptable
  <2>2. NumberOfBlocks(c) = n + 1
    BY ShapeCount
  <2> QED
    BY <2>1, <2>2
<1>2. Insert(c, b).ok => Beats(c, n, b)
  BY InsertPath DEF Beats
<1>3. ASSUME Beats(c, n, b) PROVE Insert(c, b).ok
  <2>1. Shape(e, n) /\ {r.block : r \in e} = {r.block : r \in c}
    BY CountShape, CountBlocks, ValidateType DEF Counted, Shape
  <2>2. Path(e) = Path(c)
    <3>1. \A r \in e : \E q \in c : q.block = r.block
      BY <2>1
    <3> HIDE DEF e
    <3> QED
      BY <2>1, <3>1, SameHeightPath
  <2>3. NumberOfBlocks(e) = n + 1
    <3> HIDE DEF e
    <3> QED
      BY <2>1, ShapeCount
  <2>4. i - 1 \in 0 .. n
    BY <1>1
  <2>5. RowAt(e, i - 1) \in e /\ RowAt(e, i - 1).block.index = i - 1
    <3> HIDE DEF e, i
    <3> QED
      BY <2>1, <2>4, RowAtOK
  <2>6. BlockAtHeight(e, i - 1) = RowAt(e, i - 1).block
    <3> HIDE DEF e
    <3> QED
      BY <2>1, <2>5, RowOnPath
  <2>7. b.round > RowAt(e, i - 1).block.round
    BY <1>3, <2>2, <2>6 DEF Beats, BlockAtHeight
  <2>8. ASSUME NumberOfBlocks(e) > i PROVE ProofHash(b) < ProofHash(RowAt(e, i).block)
    <3>1. i \in 1 .. n /\ i <= n
      BY <1>1, <2>3, <2>8
    <3>2. Path(e)[i] = RowAt(e, i).block
      <4> HIDE DEF e, i
      <4> QED
        BY <2>1, <3>1, PathOK
    <3> QED
      BY <1>3, <2>2, <3>1, <3>2 DEF Beats
  <2>9. Preferred(e, b)
    BY <2>7, <2>8 DEF Preferred
  <2> QED
    BY <2>9 DEF Insert
<1> QED
  BY <1>1, <1>2, <1>3

\* A block is still acceptable once its sibling was inserted.
LEMMA SiblingAcceptable ==
    ASSUME NEW c, NEW n \in Nat, Shape(c, n), NEW a \in Blocks, NEW b \in Blocks,
           Acceptable(c, a), Acceptable(c, b), a.parent = b.parent, a.index = b.index,
           Hash(a) # Hash(b)
    PROVE  Acceptable(Insert(c, a).chain, b)
<1> DEFINE d == Insert(c, a).chain
           i == b.index
<1>1. i \in 1 .. n + 1 /\ i - 1 \in 0 .. n /\ i - 1 \in 0 .. i /\ i \in Nat
  <2>1. i \in 1 .. n + 1
    BY InsertIffBeats
  <2> QED
    BY <2>1
<1>2. PICK m \in Nat : Shape(d, m) /\ i - 1 \in 0 .. m /\ i <= m + 1
  <2>1. CASE Insert(c, a).ok
    <3>1. Shape(d, a.index)
      BY <2>1, InsertPath
    <3>2. i <= i + 1 /\ Shape(d, i)
      BY <1>1, <3>1
    <3> QED
      BY <1>1, <3>2
  <2>2. CASE ~Insert(c, a).ok
    <3>1. Shape(d, n)
      BY <2>2, InsertRefused
    <3> QED
      BY <1>1, <3>1
  <2> QED
    BY <2>1, <2>2
<1>3. \A r \in d : r.block = a \/ \E q \in c : q.block = r.block
  BY InsertBlocks
<1>4. ~BlockInBlockchain(d, b)
  BY <1>3 DEF Acceptable, BlockInBlockchain
<1>5. NumberOfBlocks(d) = m + 1
  <2> HIDE DEF d
  <2> QED
    BY <1>2, ShapeCount
<1>6. HasCorrectParent(d, b)
  <2>1. PICK p \in c : p.block.index = i - 1 /\ Hash(p.block) = b.parent
    BY DEF Acceptable, HasCorrectParent
  <2>2. RowAt(d, i - 1) \in d /\ RowAt(d, i - 1).block.index = i - 1
    <3> HIDE DEF d, i
    <3> QED
      BY <1>2, RowAtOK
  <2>3. RowAt(d, i - 1).block # a
    <3>1. i # i - 1
      BY <1>1
    <3> QED
      BY <2>2, <3>1
  <2>4. PICK q \in c : q.block = RowAt(d, i - 1).block
    BY <1>3, <2>2, <2>3
  <2>5. q = p
    BY <2>1, <2>2, <2>4 DEF Shape, Linked
  <2> QED
    BY <2>1, <2>2, <2>4, <2>5 DEF HasCorrectParent
<1>7. b.index <= NumberOfBlocks(d)
  BY <1>2, <1>5
<1> QED
  BY <1>4, <1>6, <1>7 DEF Acceptable

\* The path after both.
LEMMA TwoInserts ==
    ASSUME NEW c, NEW n \in Nat, Shape(c, n), NEW a \in Blocks, NEW b \in Blocks,
           Acceptable(c, a), Acceptable(c, b), a.parent = b.parent, a.index = b.index,
           Hash(a) # Hash(b),
           NEW p, p = SubSeq(Path(c), 1, b.index - 1)
    PROVE  Path(Insert(Insert(c, a).chain, b).chain) =
              IF Beats(c, n, a)
                THEN IF ProofHash(b) < ProofHash(a) /\ b.round > BlockAtHeight(c, b.index - 1).round
                       THEN Append(p, b) ELSE Append(p, a)
                ELSE IF Beats(c, n, b) THEN Append(p, b) ELSE Path(c)
<1> DEFINE d == Insert(c, a).chain
           e == Insert(d, b).chain
           i == b.index
<1>1. i \in 1 .. n + 1 /\ i - 1 \in 0 .. n /\ i \in Nat /\ i - 1 \in Nat
  <2>1. i \in 1 .. n + 1
    BY InsertIffBeats
  <2> QED
    BY <2>1
<1>2. Acceptable(d, b)
  BY SiblingAcceptable
<1>3. Path(c) \in Seq(Blocks) /\ Len(Path(c)) = n
  BY PathOK
<1>4. p \in Seq(Blocks) /\ Len(p) = i - 1 /\ \A k \in 1 .. i - 1 : p[k] = Path(c)[k]
  <2>1. i - 1 \in 0 .. Len(Path(c))
    BY <1>1, <1>3
  <2> HIDE DEF i
  <2> QED
    BY <1>3, <2>1, PrefixOK DEF i
<1>5. ASSUME NEW m \in Nat, Shape(d, m), ~Insert(d, b).ok PROVE Path(e) = Path(d)
  <2> HIDE DEF d
  <2>1. Shape(e, m) /\ {r.block : r \in e} = {r.block : r \in d}
    BY <1>5, InsertRefused
  <2>2. \A r \in e : \E q \in d : q.block = r.block
    BY <2>1
  <2> HIDE DEF e
  <2> QED
    BY <1>5, <2>1, <2>2, SameHeightPath
<1>6. CASE Beats(c, n, a)
  <2>1. Insert(c, a).ok
    BY <1>6, InsertIffBeats
  <2>2. Shape(d, i) /\ Path(d) = Append(p, a)
    <3>1. Shape(d, a.index) /\ Path(d) = Append(SubSeq(Path(c), 1, a.index - 1), a)
      BY <2>1, InsertPath
    <3> QED
      BY <3>1
  <2>3. Len(Append(p, a)) = i /\ Append(p, a)[i] = a /\ Append(p, a) \in Seq(Blocks)
        /\ \A k \in 1 .. i - 1 : Append(p, a)[k] = p[k]
    <3>1. /\ Append(p, a) \in Seq(Blocks) /\ Len(Append(p, a)) = Len(p) + 1
          /\ Append(p, a)[Len(p) + 1] = a
          /\ \A k \in 1 .. Len(p) : Append(p, a)[k] = p[k]
      BY <1>4, AppendProperties
    <3>2. Len(p) = i - 1 /\ Len(p) + 1 = i
      BY <1>1, <1>4
    <3> QED
      BY <3>1, <3>2
  <2>4. BlockAtHeight(d, i - 1) = BlockAtHeight(c, i - 1)
    <3>1. i - 1 # 0 => i - 1 \in 1 .. i - 1
      BY <1>1
    <3> QED
      BY <1>4, <2>2, <2>3, <3>1 DEF BlockAtHeight
  <2>5. Insert(d, b).ok <=> ProofHash(b) < ProofHash(a) /\ b.round > BlockAtHeight(c, i - 1).round
    <3>1. Insert(d, b).ok <=> Beats(d, i, b)
      <4> HIDE DEF d, i
      <4> QED
        BY <1>1, <1>2, <2>2, InsertIffBeats
    <3>2. i <= i
      BY <1>1
    <3> QED
      BY <2>2, <2>3, <2>4, <3>1, <3>2 DEF Beats
  <2>6. CASE Insert(d, b).ok
    <3>1. Path(e) = Append(SubSeq(Path(d), 1, i - 1), b)
      <4>1. i \in Nat /\ Shape(d, i)
        BY <1>1, <2>2
      <4> HIDE DEF d
      <4> QED
        BY <2>6, <4>1, InsertPath
    <3>2. SubSeq(Append(p, a), 1, i - 1) = p
      <4> DEFINE j == i - 1
                 t == Append(p, a)
      <4>1. j \in 0 .. Len(t) /\ t \in Seq(Blocks) /\ Len(p) = j /\ \A k \in 1 .. j : t[k] = p[k]
        BY <1>1, <1>4, <2>3
      <4> DEFINE s == SubSeq(t, 1, j)
      <4> HIDE DEF t, j
      <4>2. s \in Seq(Blocks) /\ Len(s) = j /\ \A k \in 1 .. j : s[k] = t[k]
        BY <4>1, PrefixOK
      <4> HIDE DEF s
      <4>3. s = p
        BY <1>4, <4>1, <4>2, SeqEqual
      <4> QED
        BY <4>3 DEF s, t, j
    <3> QED
      BY <1>6, <2>2, <2>5, <2>6, <3>1, <3>2
  <2>7. CASE ~Insert(d, b).ok
    <3>1. Path(e) = Path(d)
      BY <1>1, <1>5, <2>2, <2>7
    <3> QED
      BY <1>6, <2>2, <2>5, <2>7, <3>1
  <2> QED
    BY <2>6, <2>7
<1>7. CASE ~Beats(c, n, a)
  <2>1. ~Insert(c, a).ok
    BY <1>7, InsertIffBeats
  <2>2. Shape(d, n) /\ Path(d) = Path(c)
    <3>1. Shape(d, n) /\ {r.block : r \in d} = {r.block : r \in c}
      BY <2>1, InsertRefused
    <3>2. \A r \in d : \E q \in c : q.block = r.block
      BY <3>1
    <3> HIDE DEF d
    <3> QED
      BY <3>1, <3>2, SameHeightPath
  <2>3. Beats(d, n, b) <=> Beats(c, n, b)
    BY <2>2 DEF Beats, BlockAtHeight
  <2>4. Insert(d, b).ok <=> Beats(c, n, b)
    <3> HIDE DEF d
    <3> QED
      BY <1>2, <2>2, <2>3, InsertIffBeats
  <2>5. CASE Insert(d, b).ok
    <3>1. Path(e) = Append(SubSeq(Path(d), 1, i - 1), b)
      <4> HIDE DEF d
      <4> QED
        BY <2>2, <2>5, InsertPath
    <3> QED
      BY <1>7, <2>2, <2>4, <2>5, <3>1
  <2>6. CASE ~Insert(d, b).ok
    <3>1. Path(e) = Path(d)
      BY <1>5, <2>2, <2>6
    <3> QED
      BY <1>7, <2>2, <2>4, <2>6, <3>1
  <2> QED
    BY <2>5, <2>6
<1> QED
  BY <1>6, <1>7

\* Valid siblings with one digest in common are the same block: no owner
\* builds two blocks with the ticket of one round on one parent.
DigestsDiffer ==
    \A a, b \in Blocks :
        /\ a.parent = b.parent /\ a.index = b.index
        /\ ValidateBlock(a) > 0 /\ ValidateBlock(b) > 0
        /\ ProofHash(a) = ProofHash(b) \/ Hash(a) = Hash(b)
        => a = b

LEMMA EitherOrder ==
    ASSUME DigestsDiffer, NEW c, NEW n \in Nat, Shape(c, n), NEW a \in Blocks, NEW b \in Blocks,
           Acceptable(c, a), Acceptable(c, b), a.parent = b.parent, a.index = b.index
    PROVE  Path(Insert(Insert(c, a).chain, b).chain) = Path(Insert(Insert(c, b).chain, a).chain)
<1>1. CASE a = b
  BY <1>1
<1>2. CASE a # b
  <2>1. Hash(a) # Hash(b) /\ ProofHash(a) # ProofHash(b)
    BY <1>2 DEF DigestsDiffer, Acceptable
  <2> DEFINE i == b.index
             p == SubSeq(Path(c), 1, i - 1)
             ab == Path(Insert(Insert(c, a).chain, b).chain)
             ba == Path(Insert(Insert(c, b).chain, a).chain)
             parent == BlockAtHeight(c, i - 1)
  <2>2. ab = IF Beats(c, n, a)
               THEN IF ProofHash(b) < ProofHash(a) /\ b.round > parent.round
                      THEN Append(p, b) ELSE Append(p, a)
               ELSE IF Beats(c, n, b) THEN Append(p, b) ELSE Path(c)
    BY <2>1, TwoInserts
  <2>3. ba = IF Beats(c, n, b)
               THEN IF ProofHash(a) < ProofHash(b) /\ a.round > parent.round
                      THEN Append(p, a) ELSE Append(p, b)
               ELSE IF Beats(c, n, a) THEN Append(p, a) ELSE Path(c)
    <3> DEFINE q == SubSeq(Path(c), 1, a.index - 1)
    <3>1. ba = IF Beats(c, n, b)
                 THEN IF ProofHash(a) < ProofHash(b)
                         /\ a.round > BlockAtHeight(c, a.index - 1).round
                        THEN Append(q, a) ELSE Append(q, b)
                 ELSE IF Beats(c, n, a) THEN Append(q, a) ELSE Path(c)
      BY <2>1, TwoInserts
    <3> QED
      BY <3>1
  <2>4. ProofHash(a) \in Nat /\ ProofHash(b) \in Nat
    BY BlocksAssumption
  <2>5. i <= n => ProofHash(Path(c)[i]) \in Nat
    <3>1. i \in 1 .. n + 1
      BY InsertIffBeats
    <3>2. Path(c) \in Seq(Blocks) /\ Len(Path(c)) = n
      BY PathOK
    <3>3. i <= n => Path(c)[i] \in Blocks
      BY <3>1, <3>2
    <3> QED
      BY <3>3, BlocksAssumption
  <2> DEFINE x == ProofHash(a)
             y == ProofHash(b)
             z == ProofHash(Path(c)[i])
             later(q) == q.round > parent.round
  <2>6. /\ Beats(c, n, a) <=> (i <= n => x < z) /\ later(a)
        /\ Beats(c, n, b) <=> (i <= n => y < z) /\ later(b)
    BY DEF Beats
  <2>7. x \in Nat /\ y \in Nat /\ x # y /\ (i <= n => z \in Nat)
    BY <2>1, <2>4, <2>5
  <2>8. /\ ab = IF Beats(c, n, a)
                  THEN IF y < x /\ later(b) THEN Append(p, b) ELSE Append(p, a)
                  ELSE IF Beats(c, n, b) THEN Append(p, b) ELSE Path(c)
        /\ ba = IF Beats(c, n, b)
                  THEN IF x < y /\ later(a) THEN Append(p, a) ELSE Append(p, b)
                  ELSE IF Beats(c, n, a) THEN Append(p, a) ELSE Path(c)
    BY <2>2, <2>3
  <2> HIDE DEF x, y, z, ab, ba, p, later
  <2>9. (x < y \/ y < x) /\ ~(x < y /\ y < x)
        /\ (i <= n /\ y < x /\ x < z => y < z) /\ (i <= n /\ x < y /\ y < z => x < z)
    BY <2>7
  <2>10. ab = ba
    BY <2>6, <2>8, <2>9
  <2> QED
    BY <2>10 DEF ab, ba
<1> QED
  BY <1>1, <1>2

\* Two blocks built on the same parent may arrive in either order (blockchain.py:222-237).
THEOREM SiblingsInAnyOrder ==
    ASSUME DigestsDiffer
    PROVE  Spec => []SiblingsCommute
<1>1. ASSUME IInv PROVE SiblingsCommute
  <2>1. PICK n \in Nat : Shape(localChains, n)
    BY <1>1 DEF IInv, Sound
  <2> QED
    BY <2>1, EitherOrder DEF SiblingsCommute, Siblings
<1> QED
  BY <1>1, Invariance, PTL
=============================================================================
