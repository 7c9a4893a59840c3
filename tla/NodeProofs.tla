----------------------------- MODULE NodeProofs -----------------------------
(***************************************************************************)
(* In a network of any size the chain of every node stays a chain, what a  *)
(* node has missed is missing from its chain, nothing of a resync is left  *)
(* for the next one, a resync is one conversation with one peer, it asks   *)
(* for no more blocks than there have been rounds, and every node follows  *)
(* the fork choice of the module ForkChoice.                               *)
(***************************************************************************)
EXTENDS Node, LocalChainProofs

Messages ==
    [type : {"BlockBroadcast"}, block : Blocks]
        \cup [type : {"ResyncRequest"}, block_index : {i \in Int : i < 0}]
        \cup [type : {"ResyncResponse"}, block_received : Blocks \cup {None}]

SocketsOK(sockets) ==
    /\ sockets \in [Nodes \X Nodes -> Seq(Messages)]
    /\ \A n \in Nodes : sockets[<<n, n>>] = << >>

Attributes ==
    /\ localChains \in [Nodes -> SUBSET Rows]
    /\ current_round \in [Nodes -> StartRound .. MaxRound]
    /\ fork_detected \in [Nodes -> BOOLEAN]
    /\ node_on_consensus \in [Nodes -> BOOLEAN]
    /\ state \in [Nodes -> {"LISTENING", "RESYNCING"}]
    /\ missed_blocks \in [Nodes -> SUBSET (Blocks \X Nodes)]
    /\ received_resync_blocks \in [Nodes -> Seq(Blocks)]
    /\ request \in [Nodes -> [block_index : {i \in Int : i <= 0}, peer : Nodes]]
    /\ pc \in [Nodes -> {"resync", "loop", "generate", "read", "blocked", "dead"}]

\* The chain of a node is sound, at some height.
SoundChain(c) == \E k \in Nat : Sound(c, k)

ChainsSound == \A n \in Nodes : SoundChain(localChains[n])

\* What a node has missed is a block of another node, from another node, and
\* not in its chain.
MissedByNode(n) ==
    \A s \in missed_blocks[n] :
        /\ s[2] # n
        /\ s[1].owner # n
        /\ ~BlockInBlockchain(localChains[n], s[1])

\* Whoever resyncs has detected a fork and asked another node; blocks are
\* collected, and a resync is started, only meanwhile and before.
ResyncByNode(n) ==
    /\ pc[n] = "resync" => fork_detected[n] /\ state[n] = "LISTENING"
    /\ state[n] = "RESYNCING" => fork_detected[n] /\ request[n].peer # n
    /\ received_resync_blocks[n] # << >> => state[n] = "RESYNCING"

IInv ==
    /\ Attributes
    /\ SocketsOK(net)
    /\ ChainsSound
    /\ \A n \in Nodes : MissedByNode(n) /\ ResyncByNode(n)

-----------------------------------------------------------------------------
(* Blocks *)

\* A request from the end of the chain is answered with a block.
LEMMA AnsweredBlock ==
    ASSUME NEW c, NEW n \in Nat, Shape(c, n), NEW i \in Int, i < 0, NumberOfBlocks(c) > -i
    PROVE  BlockByIndex(c, i) \in Blocks
<1>1. NumberOfBlocks(c) = n + 1
  BY ShapeCount
<1>2. NumberOfBlocks(c) + i \in 1 .. n
  BY <1>1
<1> DEFINE r == RowAt(c, NumberOfBlocks(c) + i)
<1>3. r \in c /\ r.block.index # 0
  <2> DEFINE k == NumberOfBlocks(c) + i
  <2>1. k \in 0 .. n /\ k # 0
    BY <1>2
  <2> HIDE DEF k
  <2>2. RowAt(c, k) \in c /\ RowAt(c, k).block.index = k
    BY <2>1, RowAtOK
  <2> QED
    BY <2>1, <2>2 DEF k
<1>4. r.block \in Blocks
  BY <1>3 DEF Shape, Rows, GenesisBlock
<1>5. BlockByIndex(c, i) = ComposeBlock(r)
  BY DEF BlockByIndex
<1> HIDE DEF r
<1> QED
  BY <1>4, <1>5, NodesAssumption DEF ComposeBlock

\* Blocks with the same hash are of the same owner.
LEMMA SameHashSameOwner ==
    ASSUME NEW b, NEW d,
           b.parent \in Hashes, [proof |-> Proof(b), tx |-> b.tx] \in Links, b.index # 0,
           d.parent \in Hashes, [proof |-> Proof(d), tx |-> d.tx] \in Links, d.index # 0,
           Hash(b) = Hash(d)
    PROVE  b.owner = d.owner
<1> DEFINE last(x) == [proof |-> Proof(x), tx |-> x.tx]
<1>1. Append(b.parent, last(b)) = Append(d.parent, last(d))
  BY DEF Hash
<1>2. last(b) \in Links /\ last(d) \in Links
  OBVIOUS
<1>3. b.parent \in Seq(Links) /\ d.parent \in Seq(Links)
  BY DEF Hashes
<1>4. last(b) = last(d)
  <2> HIDE DEF last
  <2> QED
    BY <1>1, <1>2, <1>3, AppendProperties
<1> QED
  BY <1>4 DEF Proof

-----------------------------------------------------------------------------
(* Sockets *)

LEMMA BroadcastOK ==
    ASSUME NEW sockets, SocketsOK(sockets), NEW n \in Nodes, NEW peers, n \notin peers,
           NEW msg \in Messages
    PROVE  SocketsOK(Broadcast(sockets, n, peers, msg))
<1>1. ASSUME NEW ch \in Nodes \X Nodes
      PROVE  sockets[ch] \in Seq(Messages) /\ Append(sockets[ch], msg) \in Seq(Messages)
  BY AppendProperties DEF SocketsOK
<1>2. Broadcast(sockets, n, peers, msg) \in [Nodes \X Nodes -> Seq(Messages)]
  BY <1>1 DEF Broadcast
<1>3. ASSUME NEW k \in Nodes PROVE Broadcast(sockets, n, peers, msg)[<<k, k>>] = << >>
  BY DEF Broadcast, SocketsOK
<1> QED
  BY <1>2, <1>3 DEF SocketsOK

LEMMA SendOK ==
    ASSUME NEW sockets, SocketsOK(sockets), NEW n \in Nodes, NEW m \in Nodes, m # n,
           NEW msg \in Messages
    PROVE  /\ SocketsOK(Send(sockets, n, m, msg))
           /\ \A left \in TrySend(sockets, n, m, msg) : SocketsOK(left)
<1>1. SocketsOK(Send(sockets, n, m, msg))
  BY BroadcastOK DEF Send
<1> QED
  BY <1>1 DEF TrySend

\* Nobody sends to itself.
LEMMA ReceivedOK ==
    ASSUME SocketsOK(net), NEW n \in Nodes, NEW m \in Nodes, net[<<m, n>>] # << >>
    PROVE  /\ SocketsOK(Received(n, m))
           /\ Head(net[<<m, n>>]) \in Messages
           /\ m # n
<1>1. net[<<m, n>>] \in Seq(Messages)
  BY DEF SocketsOK
<1>2. Tail(net[<<m, n>>]) \in Seq(Messages) /\ Head(net[<<m, n>>]) \in Messages
  BY <1>1, HeadTailProperties
<1>3. m # n
  BY DEF SocketsOK
<1>4. Received(n, m) = [net EXCEPT ![<<m, n>>] = Tail(net[<<m, n>>])]
  BY DEF Received
<1>5. Received(n, m) \in [Nodes \X Nodes -> Seq(Messages)]
  BY <1>2, <1>4 DEF SocketsOK
<1>6. ASSUME NEW k \in Nodes PROVE Received(n, m)[<<k, k>>] = << >>
  BY <1>3, <1>4 DEF SocketsOK
<1> QED
  BY <1>2, <1>3, <1>5, <1>6 DEF SocketsOK

LEMMA MessageKinds ==
    ASSUME NEW x \in Messages
    PROVE  /\ x.type \in {"BlockBroadcast", "ResyncRequest", "ResyncResponse"}
           /\ x.type = "BlockBroadcast" => x.block \in Blocks
           /\ x.type = "ResyncRequest" => x.block_index \in Int /\ x.block_index < 0
           /\ x.type = "ResyncResponse" => x.block_received \in Blocks \cup {None}
BY DEF Messages

LEMMA MessageTypes ==
    /\ \A b \in Blocks : BlockBroadcast(b) \in Messages
    /\ \A i \in Int : i < 0 => ResyncRequest(i) \in Messages
    /\ \A b \in Blocks \cup {None} : ResyncResponse(b) \in Messages
BY DEF Messages, BlockBroadcast, ResyncRequest, ResyncResponse

-----------------------------------------------------------------------------
(* Steps *)

\* What a table without new blocks lacks.
LEMMA StillMissing ==
    ASSUME NEW c, NEW d, \A r \in d : \E q \in c : q.block = r.block,
           NEW b, ~BlockInBlockchain(c, b)
    PROVE  ~BlockInBlockchain(d, b)
BY DEF BlockInBlockchain

LEMMA ChainStep ==
    ASSUME Attributes, ChainsSound, NEW n \in Nodes, NEW d, SoundChain(d),
           localChains' = [localChains EXCEPT ![n] = d]
    PROVE  /\ localChains' \in [Nodes -> SUBSET Rows]
           /\ ChainsSound'
           /\ localChains'[n] = d
<1>1. d \in SUBSET Rows
  BY DEF SoundChain, Sound, Shape
<1> QED
  BY <1>1 DEF Attributes, ChainsSound

\* How a pass of the loop may end.
LEMMA PassEnds ==
    ASSUME Attributes, NEW n \in Nodes, ControlNumberOfPeers(n)
    PROVE  /\ pc' \in [Nodes -> {"resync", "loop", "generate", "read", "blocked", "dead"}]
           /\ pc'[n] = "resync" => fork_detected'[n] /\ state'[n] = "LISTENING"
           /\ \A k \in Nodes \ {n} : pc'[k] = pc[k]
<1>1. CASE Top(n)
  BY <1>1 DEF Attributes, Top
<1>2. CASE ~Top(n)
  BY <1>2 DEF Attributes, ControlNumberOfPeers
<1> QED
  BY <1>1, <1>2

\* A step that touches only the attributes of n, and them as it should.
LEMMA OthersStay ==
    ASSUME IInv, NEW n \in Nodes, Attributes', SocketsOK(net'), ChainsSound',
           \A k \in Nodes \ {n} :
              /\ localChains'[k] = localChains[k]
              /\ fork_detected'[k] = fork_detected[k]
              /\ state'[k] = state[k]
              /\ missed_blocks'[k] = missed_blocks[k]
              /\ received_resync_blocks'[k] = received_resync_blocks[k]
              /\ request'[k] = request[k]
              /\ pc'[k] = pc[k],
           MissedByNode(n)', ResyncByNode(n)'
    PROVE  IInv'
<1>1. ASSUME NEW k \in Nodes \ {n} PROVE MissedByNode(k)' /\ ResyncByNode(k)'
  BY <1>1 DEF IInv, MissedByNode, ResyncByNode
<1> QED
  BY <1>1 DEF IInv

\* Steps without a message, and those that only answer or drop one.
LEMMA IdleStep ==
    ASSUME IInv, NEW n \in Nodes, SocketsOK(net'), ControlNumberOfPeers(n),
           UNCHANGED <<chainVars, resyncVars, node_on_consensus, missed_blocks>>
    PROVE  IInv'
<1>1. Attributes' /\ ChainsSound'
  BY PassEnds DEF IInv, Attributes, ChainsSound, chainVars, resyncVars
<1>2. MissedByNode(n)'
  BY DEF IInv, MissedByNode, chainVars
<1>3. ResyncByNode(n)'
  BY PassEnds DEF IInv, ResyncByNode, chainVars, resyncVars
<1>4. \A k \in Nodes \ {n} : pc'[k] = pc[k]
  BY PassEnds DEF IInv
<1> QED
  BY <1>1, <1>2, <1>3, <1>4, OthersStay DEF chainVars, resyncVars

LEMMA NewRoundChain ==
    ASSUME NEW c, SoundChain(c), NEW round,
           NEW new, new = IF TipConfirmed(c) THEN {} ELSE NewlyConfirmed(c, round)
    PROVE  /\ SoundChain(Confirm(c, new))
           /\ \A r \in Confirm(c, new) : \E q \in c : q.block = r.block
<1>1. PICK k \in Nat : Sound(c, k)
  BY DEF SoundChain
<1>2. CASE TipConfirmed(c)
  <2>1. Confirm(c, new) = c
    BY <1>2 DEF Confirm
  <2> QED
    BY <2>1
<1>3. CASE ~TipConfirmed(c)
  <2>1. new = NewlyConfirmed(c, round) /\ new \in SUBSET c
    BY <1>3 DEF NewlyConfirmed, Unconfirmed
  <2>2. Sound(Confirm(c, new), k)
    BY <1>1, <2>1, ConfirmSound
  <2>3. c \subseteq Rows
    BY <1>1 DEF Sound, Shape
  <2> QED
    BY <2>1, <2>2, <2>3, ConfirmBlocks DEF SoundChain
<1> QED
  BY <1>2, <1>3

LEMMA UpdateRoundIInv ==
    ASSUME IInv, NEW n \in Nodes, UpdateRound(n)
    PROVE  IInv'
<1> DEFINE c == localChains[n]
<1>1. PICK round \in current_round[n] + 1 .. MaxRound :
         /\ current_round' = [current_round EXCEPT ![n] = round]
         /\ LET new  == IF TipConfirmed(c) THEN {} ELSE NewlyConfirmed(c, round)
                next == Confirm(c, new)
            IN  /\ localChains' = [localChains EXCEPT ![n] = next]
                /\ fork_detected' = [fork_detected EXCEPT ![n] =
                      @ \/ (~TipConfirmed(c) /\ ForkSuspected(next, round))]
                /\ pc' = [pc EXCEPT ![n] =
                      IF ~TipConfirmed(c) /\ new = Unconfirmed(c) THEN "dead" ELSE "generate"]
         /\ UNCHANGED <<resyncVars, node_on_consensus, missed_blocks, net>>
  BY DEF UpdateRound
<1> DEFINE new == IF TipConfirmed(c) THEN {} ELSE NewlyConfirmed(c, round)
           next == Confirm(c, new)
<1>2. SoundChain(c)
  BY DEF IInv, ChainsSound
<1>3. SoundChain(next) /\ \A r \in next : \E q \in c : q.block = r.block
  <2> HIDE DEF c
  <2> QED
    BY <1>2, NewRoundChain
<1>4. localChains' = [localChains EXCEPT ![n] = next]
  BY <1>1
<1>5. localChains' \in [Nodes -> SUBSET Rows] /\ ChainsSound' /\ localChains'[n] = next
  <2> HIDE DEF next
  <2> QED
    BY <1>3, <1>4, ChainStep DEF IInv
<1>6. fork_detected' \in [Nodes -> BOOLEAN] /\ (fork_detected[n] => fork_detected'[n])
      /\ \A k \in Nodes \ {n} : fork_detected'[k] = fork_detected[k]
  BY <1>1 DEF IInv, Attributes
<1>7. /\ pc' \in [Nodes -> {"resync", "loop", "generate", "read", "blocked", "dead"}]
      /\ pc'[n] # "resync"
      /\ \A k \in Nodes \ {n} : pc'[k] = pc[k]
  BY <1>1 DEF IInv, Attributes
<1>8. current_round' \in [Nodes -> StartRound .. MaxRound]
  <2>1. current_round[n] \in StartRound .. MaxRound
    BY DEF IInv, Attributes
  <2>2. round \in StartRound .. MaxRound
    BY <2>1, RoundsAssumption
  <2> QED
    BY <1>1, <2>2 DEF IInv, Attributes
<1>9. Attributes'
  BY <1>1, <1>5, <1>6, <1>7, <1>8 DEF IInv, Attributes, resyncVars
<1>10. MissedByNode(n)'
  <2> SUFFICES ASSUME NEW s \in missed_blocks[n]
               PROVE  s[2] # n /\ s[1].owner # n /\ ~BlockInBlockchain(next, s[1])
    BY <1>1, <1>5 DEF MissedByNode
  <2>1. s[2] # n /\ s[1].owner # n /\ ~BlockInBlockchain(c, s[1])
    BY DEF IInv, MissedByNode
  <2> HIDE DEF c, next
  <2> QED
    BY <1>3, <2>1, StillMissing
<1>11. ResyncByNode(n)'
  BY <1>1, <1>6, <1>7 DEF IInv, ResyncByNode, resyncVars
<1>12. \A k \in Nodes \ {n} : localChains'[k] = localChains[k]
  BY <1>4 DEF IInv, Attributes
<1>13. SocketsOK(net')
  BY <1>1 DEF IInv
<1> QED
  BY <1>1, <1>5, <1>6, <1>7, <1>9, <1>10, <1>11, <1>12, <1>13, OthersStay DEF resyncVars

\* A block that is won stands on the tip, and has the hash of no other node's
\* block that the chain lacks.
LEMMA CandidateOK ==
    ASSUME IInv, NEW n \in Nodes, ValidateBlock(Candidate(n)) > 0
    PROVE  /\ Candidate(n) \in Blocks
           /\ \A b \in Blocks :
                 b.owner # n /\ ~BlockInBlockchain(localChains[n], b) => Hash(b) # Hash(Candidate(n))
<1> DEFINE c == localChains[n]
<1>1. PICK k \in Nat : Sound(c, k)
  BY DEF IInv, ChainsSound, SoundChain
<1>2. Shape(c, k) /\ GenesisRow \in c
  BY <1>1 DEF Sound
<1>3. NumberOfBlocks(c) = k + 1 /\ NumberOfBlocks(c) - 1 = k
  <2>1. NumberOfBlocks(c) = k + 1
    <3> HIDE DEF c
    <3> QED
      BY <1>2, ShapeCount
  <2> QED
    BY <2>1
<1> DEFINE r == RowAt(c, k)
           b0 == NewBlock(r.block, r.block.index + 1, n, current_round[n])
<1>4. r \in c /\ r.block.index = k
  <2>1. k \in 0 .. k
    OBVIOUS
  <2> HIDE DEF c
  <2> QED
    BY <1>2, <2>1, RowAtOK
<1>5. Candidate(n) = b0
  BY <1>3, <1>4 DEF Candidate
<1>6. r.block \in Blocks \cup {GenesisBlock} /\ r.block.index \in Nat /\ r.block.round \in Nat
  BY <1>2, <1>4, RowTypes DEF Shape
<1>7. r.block.index <= r.block.round
  <2> HIDE DEF c, r
  <2> QED
    BY <1>2, <1>4, IndexWithinRound
<1>8. current_round[n] \in StartRound .. MaxRound
  BY DEF IInv, Attributes
<1>9. b0 \in Blocks
  <2>1. ValidateBlock(b0) > 0
    BY <1>5
  <2> HIDE DEF r
  <2> QED
    BY <1>6, <1>7, <1>8, <2>1, NodesAssumption
<1>10. b0.owner = n /\ b0.index # 0
  <2>1. b0.owner = n /\ b0.index = r.block.index + 1
    BY DEF NewBlock
  <2> HIDE DEF b0, r
  <2> QED
    BY <1>6, <2>1
<1>11. ASSUME NEW b \in Blocks, b.owner # n, ~BlockInBlockchain(c, b), Hash(b) = Hash(b0)
       PROVE  FALSE
  <2>1. b.index # 0
    BY <1>2, <1>11 DEF BlockInBlockchain, Hash, GenesisRow, Row, GenesisBlock
  <2>2. /\ b.parent \in Hashes /\ [proof |-> Proof(b), tx |-> b.tx] \in Links
        /\ b0.parent \in Hashes /\ [proof |-> Proof(b0), tx |-> b0.tx] \in Links
    <3> HIDE DEF b0
    <3> QED
      BY <1>9, NodesAssumption
  <2> HIDE DEF b0
  <2>3. b.owner = b0.owner
    BY <1>10, <1>11, <2>1, <2>2, SameHashSameOwner
  <2> QED
    BY <1>10, <1>11, <2>3
<1> HIDE DEF b0
<1> QED
  BY <1>5, <1>9, <1>11

\* The chain after insert, and what it still lacks.
LEMMA InsertStep ==
    ASSUME NEW c, SoundChain(c), NEW b \in Blocks
    PROVE  /\ SoundChain(Insert(c, b).chain)
           /\ \A d : ~BlockInBlockchain(c, d) /\ (Insert(c, b).ok => Hash(d) # Hash(b))
                       => ~BlockInBlockchain(Insert(c, b).chain, d)
<1>1. PICK k \in Nat : Sound(c, k)
  BY DEF SoundChain
<1>2. SoundChain(Insert(c, b).chain)
  <2>1. CASE Insert(c, b).ok
    <3>1. b.index \in 1 .. k + 1 /\ Open(Insert(c, b).chain, b.index)
      BY <1>1, <2>1, InsertSound
    <3> QED
      BY <3>1 DEF Open, SoundChain
  <2>2. CASE ~Insert(c, b).ok
    BY <1>1, <2>2, InsertSound DEF SoundChain
  <2> QED
    BY <2>1, <2>2
<1>3. ASSUME NEW d, ~BlockInBlockchain(c, d), Insert(c, b).ok => Hash(d) # Hash(b)
      PROVE  ~BlockInBlockchain(Insert(c, b).chain, d)
  <2>1. Shape(c, k)
    BY <1>1 DEF Sound
  <2>2. ASSUME NEW r \in Insert(c, b).chain PROVE Hash(r.block) # Hash(d)
    <3>1. (\E q \in c : q.block = r.block) \/ (Insert(c, b).ok /\ r.block = b)
      BY <2>1, InsertBlocks
    <3> QED
      BY <1>3, <3>1 DEF BlockInBlockchain
  <2> QED
    BY <2>2 DEF BlockInBlockchain
<1> QED
  BY <1>2, <1>3

LEMMA GenerateBlockIInv ==
    ASSUME IInv, NEW n \in Nodes, GenerateBlock(n)
    PROVE  IInv'
<1> DEFINE c == localChains[n]
           b == Candidate(n)
<1>1. /\ node_on_consensus' \in [Nodes -> BOOLEAN]
      /\ pc' \in [Nodes -> {"resync", "loop", "generate", "read", "blocked", "dead"}]
      /\ pc'[n] = "read"
      /\ \A k \in Nodes \ {n} : pc'[k] = pc[k]
  BY DEF GenerateBlock, IInv, Attributes
<1>2. UNCHANGED <<current_round, fork_detected, resyncVars, missed_blocks>>
  BY DEF GenerateBlock
<1>3. ResyncByNode(n)'
  BY <1>1, <1>2 DEF IInv, ResyncByNode, resyncVars
<1>4. CASE ValidateBlock(b) > 0 /\ n \notin HidesCreated
  <2>1. /\ b \in Blocks
        /\ \A d \in Blocks : d.owner # n /\ ~BlockInBlockchain(c, d) => Hash(d) # Hash(b)
    BY <1>4, CandidateOK
  <2>2. localChains' = [localChains EXCEPT ![n] = Insert(c, b).chain]
    BY <1>4 DEF GenerateBlock
  <2>3. SoundChain(c)
    BY DEF IInv, ChainsSound
  <2>4. localChains' \in [Nodes -> SUBSET Rows] /\ ChainsSound'
        /\ localChains'[n] = Insert(c, b).chain
    <3>1. SoundChain(Insert(c, b).chain)
      <4> HIDE DEF c, b
      <4> QED
        BY <2>1, <2>3, InsertStep
    <3> HIDE DEF c, b
    <3> QED
      BY <2>2, <3>1, ChainStep DEF IInv
  <2>5. SocketsOK(net')
    <3>1. PICK forgotten \in SUBSET Forgettable(n) :
             net' = Broadcast(net, n, Nodes \ ({n} \cup forgotten), BlockBroadcast(b))
      BY <1>4 DEF GenerateBlock
    <3>2. BlockBroadcast(b) \in Messages
      BY <2>1, MessageTypes
    <3> HIDE DEF b
    <3> QED
      BY <3>1, <3>2, BroadcastOK DEF IInv
  <2>6. MissedByNode(n)'
    <3> SUFFICES ASSUME NEW s \in missed_blocks[n]
                 PROVE  s[2] # n /\ s[1].owner # n /\ ~BlockInBlockchain(Insert(c, b).chain, s[1])
      BY <1>2, <2>4 DEF MissedByNode
    <3>1. s[1] \in Blocks /\ s[2] # n /\ s[1].owner # n /\ ~BlockInBlockchain(c, s[1])
      BY DEF IInv, MissedByNode, Attributes
    <3> HIDE DEF c, b
    <3> QED
      BY <2>1, <2>3, <3>1, InsertStep
  <2>7. Attributes'
    BY <1>1, <1>2, <2>4 DEF IInv, Attributes, resyncVars
  <2>8. \A k \in Nodes \ {n} : localChains'[k] = localChains[k]
    BY <2>2 DEF IInv, Attributes
  <2> QED
    BY <1>1, <1>2, <1>3, <2>4, <2>5, <2>6, <2>7, <2>8, OthersStay DEF resyncVars
<1>5. CASE ~(ValidateBlock(b) > 0 /\ n \notin HidesCreated)
  <2>1. UNCHANGED <<localChains, net>>
    BY <1>5 DEF GenerateBlock
  <2>2. Attributes' /\ ChainsSound' /\ SocketsOK(net') /\ MissedByNode(n)'
    BY <1>1, <1>2, <2>1 DEF IInv, Attributes, ChainsSound, MissedByNode, resyncVars
  <2> QED
    BY <1>1, <1>2, <1>3, <2>1, <2>2, OthersStay DEF resyncVars
<1> QED
  BY <1>4, <1>5

LEMMA HandleNewBlockIInv ==
    ASSUME IInv, NEW n \in Nodes, NEW m \in Nodes, HandleNewBlock(n, m)
    PROVE  IInv'
<1> DEFINE c == localChains[n]
           b == Head(net[<<m, n>>]).block
<1>1. /\ net[<<m, n>>] # << >> /\ Head(net[<<m, n>>]).type = "BlockBroadcast"
      /\ ControlNumberOfPeers(n)
      /\ UNCHANGED <<current_round, fork_detected, resyncVars, node_on_consensus>>
  BY DEF HandleNewBlock, Reads
<1>2. SocketsOK(Received(n, m)) /\ Head(net[<<m, n>>]) \in Messages /\ m # n
  BY <1>1, ReceivedOK DEF IInv
<1>3. b \in Blocks
  BY <1>1, <1>2, MessageKinds
<1>4. CASE ~Welcome(n, b)
  <2>1. net' = Received(n, m) /\ UNCHANGED <<localChains, missed_blocks>>
    BY <1>4 DEF HandleNewBlock
  <2> HIDE DEF b
  <2> QED
    BY <1>1, <1>2, <2>1, IdleStep DEF chainVars
<1>5. CASE Welcome(n, b)
  <2>1. /\ localChains' = [localChains EXCEPT ![n] = Insert(c, b).chain]
        /\ missed_blocks' = [missed_blocks EXCEPT ![n] =
                                IF Insert(c, b).ok THEN @ ELSE @ \cup {<<b, m>>}]
        /\ \E forgotten \in SUBSET Forgettable(n) :
              net' = Broadcast(Received(n, m), n, Audience(n, m, b.owner) \ forgotten,
                               BlockBroadcast(b))
    BY <1>5 DEF HandleNewBlock
  <2>2. b.owner # n /\ ~BlockInBlockchain(c, b)
        /\ \A s \in missed_blocks[n] : Hash(s[1]) # Hash(b)
    BY <1>5 DEF Welcome, InMissedBlocks
  <2>3. SocketsOK(net')
    <3>1. PICK forgotten \in SUBSET Forgettable(n) :
             net' = Broadcast(Received(n, m), n, Audience(n, m, b.owner) \ forgotten,
                              BlockBroadcast(b))
      BY <2>1
    <3>2. BlockBroadcast(b) \in Messages
      BY <1>3, MessageTypes
    <3>3. n \notin Audience(n, m, b.owner) \ forgotten
      BY DEF Audience
    <3> HIDE DEF b
    <3> QED
      BY <1>2, <3>1, <3>2, <3>3, BroadcastOK
  <2> HIDE DEF b
  <2>4. SoundChain(c)
    BY DEF IInv, ChainsSound
  <2>5. localChains' \in [Nodes -> SUBSET Rows] /\ ChainsSound'
        /\ localChains'[n] = Insert(c, b).chain
    <3>1. SoundChain(Insert(c, b).chain)
      <4> HIDE DEF c
      <4> QED
        BY <1>3, <2>4, InsertStep
    <3> HIDE DEF c
    <3> QED
      BY <2>1, <3>1, ChainStep DEF IInv
  <2>6. /\ missed_blocks' \in [Nodes -> SUBSET (Blocks \X Nodes)]
        /\ missed_blocks'[n] = IF Insert(c, b).ok THEN missed_blocks[n]
                               ELSE missed_blocks[n] \cup {<<b, m>>}
        /\ \A k \in Nodes \ {n} : missed_blocks'[k] = missed_blocks[k]
    BY <1>3, <2>1 DEF IInv, Attributes
  <2>7. MissedByNode(n)'
    <3> SUFFICES ASSUME NEW s \in missed_blocks'[n]
                 PROVE  s[2] # n /\ s[1].owner # n /\ ~BlockInBlockchain(Insert(c, b).chain, s[1])
      BY <2>5 DEF MissedByNode
    <3>1. CASE s \in missed_blocks[n]
      <4>1. s[2] # n /\ s[1].owner # n /\ ~BlockInBlockchain(c, s[1]) /\ Hash(s[1]) # Hash(b)
        BY <2>2, <3>1 DEF IInv, MissedByNode
      <4> HIDE DEF c
      <4> QED
        BY <1>3, <2>4, <4>1, InsertStep
    <3>2. CASE s = <<b, m>> /\ ~Insert(c, b).ok
      <4>1. s[1] = b /\ s[2] = m
        BY <3>2
      <4> HIDE DEF c
      <4> QED
        BY <1>2, <1>3, <2>2, <2>4, <3>2, <4>1, InsertStep DEF c
    <3> QED
      BY <2>6, <3>1, <3>2
  <2>8. Attributes' /\ ResyncByNode(n)' /\ \A k \in Nodes \ {n} : pc'[k] = pc[k]
    BY <1>1, <2>5, <2>6, PassEnds DEF IInv, Attributes, ResyncByNode, resyncVars
  <2>9. \A k \in Nodes \ {n} : localChains'[k] = localChains[k]
    BY <2>1 DEF IInv, Attributes
  <2> QED
    BY <1>1, <2>3, <2>5, <2>6, <2>7, <2>8, <2>9, OthersStay DEF resyncVars
<1> QED
  BY <1>4, <1>5

\* Whoever is asked is another node.
LEMMA StartResyncIInv ==
    ASSUME IInv, NEW n \in Nodes, StartResync(n)
    PROVE  IInv'
<1>1. PICK s \in missed_blocks[n] :
         /\ pc[n] = "resync"
         /\ missed_blocks' = [missed_blocks EXCEPT ![n] = @ \ {s}]
         /\ \/ /\ state' = [state EXCEPT ![n] = "RESYNCING"]
               /\ request' = [request EXCEPT ![n] = [block_index |-> -1, peer |-> s[2]]]
               /\ net' = Send(net, n, s[2], ResyncRequest(-1))
               /\ pc' = [pc EXCEPT ![n] = "loop"]
            \/ /\ pc' = [pc EXCEPT ![n] = IF missed_blocks'[n] = {} THEN "loop" ELSE "resync"]
               /\ UNCHANGED <<state, request, net>>
         /\ UNCHANGED <<chainVars, node_on_consensus, received_resync_blocks>>
  BY DEF StartResync
<1>2. s \in Blocks \X Nodes /\ s[2] \in Nodes /\ s[2] # n
  BY DEF IInv, Attributes, MissedByNode
<1>3. /\ missed_blocks' \in [Nodes -> SUBSET (Blocks \X Nodes)]
      /\ missed_blocks'[n] = missed_blocks[n] \ {s}
      /\ \A k \in Nodes \ {n} : missed_blocks'[k] = missed_blocks[k]
  BY <1>1 DEF IInv, Attributes
<1>4. MissedByNode(n)'
  BY <1>1, <1>3 DEF IInv, MissedByNode, chainVars
<1>5. fork_detected[n] /\ state[n] = "LISTENING" /\ received_resync_blocks[n] = << >>
  BY <1>1 DEF IInv, ResyncByNode
<1>6. SocketsOK(net')
  <2>1. ResyncRequest(-1) \in Messages
    BY MessageTypes
  <2>2. SocketsOK(Send(net, n, s[2], ResyncRequest(-1)))
    BY <1>2, <2>1, SendOK DEF IInv
  <2> QED
    BY <1>1, <2>2 DEF IInv
<1>7. CASE /\ state' = [state EXCEPT ![n] = "RESYNCING"]
           /\ request' = [request EXCEPT ![n] = [block_index |-> -1, peer |-> s[2]]]
           /\ pc' = [pc EXCEPT ![n] = "loop"]
  <2>1. /\ request' \in [Nodes -> [block_index : {i \in Int : i <= 0}, peer : Nodes]]
        /\ request'[n].peer = s[2]
        /\ \A k \in Nodes \ {n} : request'[k] = request[k]
    BY <1>2, <1>7 DEF IInv, Attributes
  <2>2. /\ state' \in [Nodes -> {"LISTENING", "RESYNCING"}] /\ state'[n] = "RESYNCING"
        /\ pc' \in [Nodes -> {"resync", "loop", "generate", "read", "blocked", "dead"}]
        /\ pc'[n] # "resync"
        /\ \A k \in Nodes \ {n} : state'[k] = state[k] /\ pc'[k] = pc[k]
    BY <1>7 DEF IInv, Attributes
  <2>3. Attributes' /\ ChainsSound'
    BY <1>1, <1>3, <2>1, <2>2 DEF IInv, Attributes, ChainsSound, chainVars
  <2>4. ResyncByNode(n)'
    BY <1>1, <1>2, <1>5, <2>1, <2>2 DEF ResyncByNode, chainVars
  <2> QED
    BY <1>1, <1>3, <1>4, <1>6, <2>1, <2>2, <2>3, <2>4, OthersStay DEF chainVars
<1>8. CASE /\ pc' = [pc EXCEPT ![n] = IF missed_blocks'[n] = {} THEN "loop" ELSE "resync"]
           /\ UNCHANGED <<state, request, net>>
  <2>1. Attributes' /\ ChainsSound'
    BY <1>1, <1>3, <1>8 DEF IInv, Attributes, ChainsSound, chainVars
  <2>2. ResyncByNode(n)'
    BY <1>1, <1>5, <1>8 DEF IInv, Attributes, ResyncByNode, chainVars
  <2>3. \A k \in Nodes \ {n} : pc'[k] = pc[k]
    BY <1>8 DEF IInv, Attributes
  <2> QED
    BY <1>1, <1>3, <1>4, <1>6, <1>8, <2>1, <2>2, <2>3, OthersStay DEF chainVars
<1> QED
  BY <1>1, <1>7, <1>8

LEMMA AnswerOK ==
    ASSUME IInv, NEW n \in Nodes, NEW m \in Nodes, HandleResyncRequest(n, m)
    PROVE  Answer(n, Head(net[<<m, n>>]).block_index) \in Messages
<1> DEFINE c == localChains[n]
           i == Head(net[<<m, n>>]).block_index
<1>1. net[<<m, n>>] # << >> /\ Head(net[<<m, n>>]).type = "ResyncRequest"
  BY DEF HandleResyncRequest, Reads
<1>2. i \in Int /\ i < 0
  BY <1>1, ReceivedOK, MessageKinds DEF IInv
<1> HIDE DEF i
<1>3. PICK k \in Nat : Shape(c, k)
  BY DEF IInv, ChainsSound, SoundChain, Sound
<1>4. NumberOfBlocks(c) > -i => BlockByIndex(c, i) \in Blocks
  <2> HIDE DEF c
  <2> QED
    BY <1>2, <1>3, AnsweredBlock
<1>5. Answer(n, i) \in Messages
  BY <1>4, MessageTypes DEF Answer
<1> QED
  BY <1>5 DEF i

LEMMA HandleResyncRequestIInv ==
    ASSUME IInv, NEW n \in Nodes, NEW m \in Nodes, HandleResyncRequest(n, m)
    PROVE  IInv'
<1> DEFINE msg == Answer(n, Head(net[<<m, n>>]).block_index)
<1>1. /\ net[<<m, n>>] # << >>
      /\ net' = Send(Received(n, m), n, m, msg)
      /\ ControlNumberOfPeers(n)
      /\ UNCHANGED <<chainVars, resyncVars, node_on_consensus, missed_blocks>>
  BY DEF HandleResyncRequest, Reads
<1>2. SocketsOK(Received(n, m)) /\ m # n
  BY <1>1, ReceivedOK DEF IInv
<1>3. msg \in Messages
  BY AnswerOK
<1> HIDE DEF msg
<1>4. SocketsOK(net')
  BY <1>1, <1>2, <1>3, SendOK
<1> QED
  BY <1>1, <1>4, IdleStep

LEMMA HandleNoBlockIInv ==
    ASSUME IInv, NEW n \in Nodes, NEW m \in Nodes, HandleNoBlock(n, m)
    PROVE  IInv'
<1>1. /\ net[<<m, n>>] # << >> /\ state[n] = "RESYNCING"
      /\ received_resync_blocks' = [received_resync_blocks EXCEPT ![n] = << >>]
      /\ UNCHANGED <<localChains, current_round, node_on_consensus>>
      /\ ControlNumberOfPeers(n)
  BY DEF HandleNoBlock, ReadsResponse, Reads
<1>2. SocketsOK(Received(n, m))
  BY <1>1, ReceivedOK DEF IInv
<1>3. /\ received_resync_blocks' \in [Nodes -> Seq(Blocks)]
      /\ received_resync_blocks'[n] = << >>
      /\ \A k \in Nodes \ {n} : received_resync_blocks'[k] = received_resync_blocks[k]
  BY <1>1 DEF IInv, Attributes
<1>4. /\ pc' \in [Nodes -> {"resync", "loop", "generate", "read", "blocked", "dead"}]
      /\ pc'[n] = "resync" => fork_detected'[n] /\ state'[n] = "LISTENING"
      /\ \A k \in Nodes \ {n} : pc'[k] = pc[k]
  BY <1>1, PassEnds DEF IInv
<1>5. CASE \E s \in missed_blocks[n] :
             /\ missed_blocks' = [missed_blocks EXCEPT ![n] = @ \ {s}]
             /\ request' = [request EXCEPT ![n] = [block_index |-> -1, peer |-> s[2]]]
             /\ net' \in TrySend(Received(n, m), n, s[2], ResyncRequest(-1))
             /\ UNCHANGED <<state, fork_detected>>
  <2>1. PICK s \in missed_blocks[n] :
             /\ missed_blocks' = [missed_blocks EXCEPT ![n] = @ \ {s}]
             /\ request' = [request EXCEPT ![n] = [block_index |-> -1, peer |-> s[2]]]
             /\ net' \in TrySend(Received(n, m), n, s[2], ResyncRequest(-1))
             /\ UNCHANGED <<state, fork_detected>>
    BY <1>5
  <2>2. s[2] \in Nodes /\ s[2] # n
    BY DEF IInv, Attributes, MissedByNode
  <2>3. ResyncRequest(-1) \in Messages
    BY MessageTypes
  <2>4. SocketsOK(net')
    BY <1>2, <2>1, <2>2, <2>3, SendOK
  <2>5. /\ missed_blocks' \in [Nodes -> SUBSET (Blocks \X Nodes)]
        /\ missed_blocks'[n] = missed_blocks[n] \ {s}
        /\ \A k \in Nodes \ {n} : missed_blocks'[k] = missed_blocks[k]
    BY <2>1 DEF IInv, Attributes
  <2>6. /\ request' \in [Nodes -> [block_index : {i \in Int : i <= 0}, peer : Nodes]]
        /\ request'[n].peer = s[2]
        /\ \A k \in Nodes \ {n} : request'[k] = request[k]
    BY <2>1, <2>2 DEF IInv, Attributes
  <2>7. Attributes' /\ ChainsSound'
    BY <1>1, <1>3, <1>4, <2>1, <2>5, <2>6 DEF IInv, Attributes, ChainsSound
  <2>8. MissedByNode(n)'
    BY <1>1, <2>5 DEF IInv, MissedByNode
  <2>9. ResyncByNode(n)'
    BY <1>3, <1>4, <2>1, <2>2, <2>6 DEF IInv, ResyncByNode
  <2> QED
    BY <1>1, <1>3, <1>4, <2>1, <2>4, <2>5, <2>6, <2>7, <2>8, <2>9, OthersStay
<1>6. CASE /\ missed_blocks[n] = {}
           /\ state' = [state EXCEPT ![n] = "LISTENING"]
           /\ fork_detected' = [fork_detected EXCEPT ![n] = FALSE]
           /\ net' = Received(n, m)
           /\ UNCHANGED <<missed_blocks, request>>
  <2>1. /\ state' \in [Nodes -> {"LISTENING", "RESYNCING"}] /\ state'[n] = "LISTENING"
        /\ fork_detected' \in [Nodes -> BOOLEAN]
        /\ \A k \in Nodes \ {n} : state'[k] = state[k] /\ fork_detected'[k] = fork_detected[k]
    BY <1>6 DEF IInv, Attributes
  <2>2. Attributes' /\ ChainsSound' /\ SocketsOK(net')
    BY <1>1, <1>2, <1>3, <1>4, <1>6, <2>1 DEF IInv, Attributes, ChainsSound
  <2>3. MissedByNode(n)' /\ ResyncByNode(n)'
    BY <1>3, <1>4, <1>6, <2>1 DEF MissedByNode, ResyncByNode
  <2> QED
    BY <1>1, <1>3, <1>4, <1>6, <2>1, <2>2, <2>3, OthersStay
<1> QED
  BY <1>5, <1>6 DEF HandleNoBlock

\* The blocks a response makes complete, and those it leaves for the next one.
LEMMA ForeignOK ==
    ASSUME IInv, NEW n \in Nodes, NEW m \in Nodes, ReadsResponse(n, m), Response(n, m) # None
    PROVE  /\ Foreign(n, m) \in Seq(Blocks) /\ Foreign(n, m) # << >>
           /\ MergeRest(localChains[n], Foreign(n, m)) \in Seq(Blocks)
           /\ SocketsOK(Received(n, m))
<1>1. net[<<m, n>>] # << >> /\ Head(net[<<m, n>>]).type = "ResyncResponse"
  BY DEF ReadsResponse, Reads
<1>2. SocketsOK(Received(n, m)) /\ Head(net[<<m, n>>]) \in Messages
  BY <1>1, ReceivedOK DEF IInv
<1>3. Response(n, m) \in Blocks
  BY <1>1, <1>2, MessageKinds DEF Response
<1>4. received_resync_blocks[n] \in Seq(Blocks)
  BY DEF IInv, Attributes
<1> DEFINE f == Foreign(n, m)
<1>5. f \in Seq(Blocks) /\ f # << >>
  BY <1>3, <1>4 DEF Foreign
<1> HIDE DEF f
<1>6. Tail(f) \in Seq(Blocks)
  BY <1>5, HeadTailProperties
<1>7. MergeRest(localChains[n], f) \in Seq(Blocks)
  BY <1>5, <1>6 DEF MergeRest
<1> QED
  BY <1>2, <1>5, <1>7 DEF f

LEMMA HandleMergedIInv ==
    ASSUME IInv, NEW n \in Nodes, NEW m \in Nodes, HandleMerged(n, m)
    PROVE  IInv'
<1> DEFINE c == localChains[n]
           f == Foreign(n, m)
           d == Merge(c, f).chain
<1>1. /\ ReadsResponse(n, m) /\ Response(n, m) # None /\ Merge(c, f).ok
      /\ localChains' = [localChains EXCEPT ![n] = d]
      /\ state' = [state EXCEPT ![n] = "LISTENING"]
      /\ received_resync_blocks' = [received_resync_blocks EXCEPT ![n] = << >>]
      /\ fork_detected' = [fork_detected EXCEPT ![n] = FALSE]
      /\ missed_blocks' = [missed_blocks EXCEPT ![n] = {}]
      /\ net' = Received(n, m)
      /\ UNCHANGED <<current_round, node_on_consensus, request>>
      /\ ControlNumberOfPeers(n)
  BY DEF HandleMerged
<1>2. f \in Seq(Blocks) /\ f # << >> /\ SocketsOK(net')
  BY <1>1, ForeignOK
<1>3. SoundChain(d)
  <2>1. PICK k \in Nat : Sound(c, k)
    BY DEF IInv, ChainsSound, SoundChain
  <2> HIDE DEF c, f
  <2>2. \E k1 \in Nat : Open(Merge(c, f).chain, k1)
    BY <1>1, <1>2, <2>1, MergeSound
  <2> QED
    BY <2>2 DEF Open, SoundChain
<1>4. localChains' \in [Nodes -> SUBSET Rows] /\ ChainsSound'
  <2> HIDE DEF d
  <2> QED
    BY <1>1, <1>3, ChainStep DEF IInv
<1>5. /\ state' \in [Nodes -> {"LISTENING", "RESYNCING"}] /\ state'[n] = "LISTENING"
      /\ received_resync_blocks' \in [Nodes -> Seq(Blocks)]
      /\ received_resync_blocks'[n] = << >>
      /\ fork_detected' \in [Nodes -> BOOLEAN]
      /\ missed_blocks' \in [Nodes -> SUBSET (Blocks \X Nodes)]
      /\ missed_blocks'[n] = {}
  BY <1>1 DEF IInv, Attributes
<1>6. \A k \in Nodes \ {n} :
         /\ localChains'[k] = localChains[k] /\ state'[k] = state[k]
         /\ received_resync_blocks'[k] = received_resync_blocks[k]
         /\ fork_detected'[k] = fork_detected[k] /\ missed_blocks'[k] = missed_blocks[k]
  BY <1>1 DEF IInv, Attributes
<1>7. /\ pc' \in [Nodes -> {"resync", "loop", "generate", "read", "blocked", "dead"}]
      /\ pc'[n] = "resync" => fork_detected'[n] /\ state'[n] = "LISTENING"
      /\ \A k \in Nodes \ {n} : pc'[k] = pc[k]
  BY <1>1, PassEnds DEF IInv
<1>8. Attributes'
  BY <1>1, <1>4, <1>5, <1>7 DEF IInv, Attributes
<1>9. MissedByNode(n)' /\ ResyncByNode(n)'
  BY <1>5, <1>7 DEF MissedByNode, ResyncByNode
<1> QED
  BY <1>1, <1>2, <1>4, <1>6, <1>7, <1>8, <1>9, OthersStay

LEMMA HandleUnmergedIInv ==
    ASSUME IInv, NEW n \in Nodes, NEW m \in Nodes, HandleUnmerged(n, m)
    PROVE  IInv'
<1> DEFINE c == localChains[n]
           f == Foreign(n, m)
           d == Merge(c, f).chain
           i == request[n].block_index
<1>1. /\ ReadsResponse(n, m) /\ Response(n, m) # None /\ ~Merge(c, f).ok
      /\ state[n] = "RESYNCING"
      /\ localChains' = [localChains EXCEPT ![n] = d]
      /\ received_resync_blocks' = [received_resync_blocks EXCEPT ![n] = MergeRest(c, f)]
      /\ request' = [request EXCEPT ![n].block_index = @ - 1]
      /\ net' \in TrySend(Received(n, m), n, request[n].peer, ResyncRequest(i - 1))
      /\ UNCHANGED <<current_round, fork_detected, node_on_consensus, state, missed_blocks>>
      /\ ControlNumberOfPeers(n)
  BY DEF HandleUnmerged, ReadsResponse
<1>2. f \in Seq(Blocks) /\ f # << >> /\ MergeRest(c, f) \in Seq(Blocks)
      /\ SocketsOK(Received(n, m))
  BY <1>1, ForeignOK
<1>3. SoundChain(d) /\ \A r \in d : \E q \in c : q.block = r.block
  <2>1. PICK k \in Nat : Sound(c, k)
    BY DEF IInv, ChainsSound, SoundChain
  <2> HIDE DEF c, f
  <2>2. Sound(Merge(c, f).chain, k)
    BY <1>1, <1>2, <2>1, MergeSound
  <2>3. \A r \in Merge(c, f).chain : \E q \in c : q.block = r.block
    BY <1>1, <1>2, <2>1, MergeRefusedBlocks DEF Sound
  <2> QED
    BY <2>2, <2>3 DEF SoundChain
<1>4. localChains' \in [Nodes -> SUBSET Rows] /\ ChainsSound' /\ localChains'[n] = d
  <2> HIDE DEF d
  <2> QED
    BY <1>1, <1>3, ChainStep DEF IInv
<1>5. i \in Int /\ i <= 0 /\ request[n].peer \in Nodes /\ request[n].peer # n
  BY <1>1 DEF IInv, Attributes, ResyncByNode
<1>6. SocketsOK(net')
  <2>1. i - 1 \in Int /\ i - 1 < 0
    BY <1>5
  <2>2. ResyncRequest(i - 1) \in Messages
    BY <2>1, MessageTypes
  <2> HIDE DEF i
  <2> QED
    BY <1>1, <1>2, <1>5, <2>2, SendOK
<1>7. /\ request' \in [Nodes -> [block_index : {j \in Int : j <= 0}, peer : Nodes]]
      /\ request'[n].peer = request[n].peer
      /\ \A k \in Nodes \ {n} : request'[k] = request[k]
  <2> DEFINE j == i - 1
             next == [block_index |-> j, peer |-> request[n].peer]
  <2>1. j \in {x \in Int : x <= 0}
    BY <1>5
  <2>2. request \in [Nodes -> [block_index : {x \in Int : x <= 0}, peer : Nodes]]
    BY DEF IInv, Attributes
  <2>3. request' = [request EXCEPT ![n] = [request[n] EXCEPT !.block_index = j]]
    BY <1>1
  <2>4. [request[n] EXCEPT !.block_index = j] = next
    <3> HIDE DEF j
    <3> QED
      BY <2>2
  <2> HIDE DEF j
  <2>5. next \in [block_index : {x \in Int : x <= 0}, peer : Nodes]
    BY <1>5, <2>1
  <2>6. request' = [request EXCEPT ![n] = next]
    BY <2>3, <2>4
  <2>7. next.peer = request[n].peer
    OBVIOUS
  <2> HIDE DEF next
  <2> QED
    BY <2>2, <2>5, <2>6, <2>7
<1>8. /\ received_resync_blocks' \in [Nodes -> Seq(Blocks)]
      /\ \A k \in Nodes \ {n} : /\ received_resync_blocks'[k] = received_resync_blocks[k]
                                  /\ localChains'[k] = localChains[k]
  BY <1>1, <1>2 DEF IInv, Attributes
<1>9. /\ pc' \in [Nodes -> {"resync", "loop", "generate", "read", "blocked", "dead"}]
      /\ pc'[n] = "resync" => fork_detected'[n] /\ state'[n] = "LISTENING"
      /\ \A k \in Nodes \ {n} : pc'[k] = pc[k]
  BY <1>1, PassEnds DEF IInv
<1>10. Attributes'
  BY <1>1, <1>4, <1>7, <1>8, <1>9 DEF IInv, Attributes
<1>11. MissedByNode(n)'
  <2> SUFFICES ASSUME NEW s \in missed_blocks[n]
               PROVE  s[2] # n /\ s[1].owner # n /\ ~BlockInBlockchain(d, s[1])
    BY <1>1, <1>4 DEF MissedByNode
  <2>1. s[2] # n /\ s[1].owner # n /\ ~BlockInBlockchain(c, s[1])
    BY DEF IInv, MissedByNode
  <2> HIDE DEF c, d
  <2> QED
    BY <1>3, <2>1, StillMissing
<1>12. ResyncByNode(n)'
  BY <1>1, <1>5, <1>7, <1>9 DEF IInv, ResyncByNode
<1> QED
  BY <1>1, <1>4, <1>6, <1>7, <1>8, <1>9, <1>10, <1>11, <1>12, OthersStay

-----------------------------------------------------------------------------
LEMMA HandleIInv ==
    ASSUME IInv, NEW n \in Nodes, NEW m \in Nodes, Handle(n, m)
    PROVE  IInv'
<1>1. CASE IgnoreMessage(n, m)
  <2>1. /\ net[<<m, n>>] # << >> /\ net' = Received(n, m) /\ ControlNumberOfPeers(n)
        /\ UNCHANGED <<chainVars, resyncVars, node_on_consensus, missed_blocks>>
    BY <1>1 DEF IgnoreMessage, Reads
  <2>2. SocketsOK(net')
    BY <2>1, ReceivedOK DEF IInv
  <2> QED
    BY <2>1, <2>2, IdleStep
<1> QED
  BY <1>1, HandleNewBlockIInv, HandleResyncRequestIInv, HandleNoBlockIInv, HandleMergedIInv,
     HandleUnmergedIInv
  DEF Handle

LEMMA InitIInv == Init => IInv
<1> SUFFICES ASSUME Init PROVE IInv
    OBVIOUS
<1>1. GenesisRow \in Rows /\ GenesisRow.block = GenesisBlock /\ GenesisRow.confirmed = TRUE
  BY DEF GenesisRow, Row, Rows
<1>2. Sound({GenesisRow}, 0)
  <2>1. {r.block.index : r \in {GenesisRow}} = 0 .. 0
    BY <1>1 DEF GenesisBlock
  <2>2. Linked({GenesisRow})
    BY <1>1 DEF Linked
  <2> QED
    BY <1>1, <2>1, <2>2 DEF Sound, Shape
<1>3. ChainsSound
  BY <1>2 DEF Init, ChainsSound, SoundChain
<1>4. Attributes
  BY <1>1, RoundsAssumption DEF Init, Attributes
<1>5. SocketsOK(net)
  BY DEF Init, SocketsOK
<1>6. \A n \in Nodes : MissedByNode(n) /\ ResyncByNode(n)
  BY DEF Init, MissedByNode, ResyncByNode
<1> QED
  BY <1>3, <1>4, <1>5, <1>6 DEF IInv

LEMMA NextIInv == IInv /\ [Next]_vars => IInv'
<1> SUFFICES ASSUME IInv, [Next]_vars PROVE IInv'
    OBVIOUS
<1>1. CASE UNCHANGED vars
  BY <1>1
  DEF vars, chainVars, resyncVars, IInv, Attributes, ChainsSound, MissedByNode, ResyncByNode
<1>2. ASSUME NEW n \in Nodes, NotOnConsensus(n) \/ ReadTimeout(n) PROVE IInv'
  <2>1. /\ UNCHANGED <<chainVars, resyncVars, node_on_consensus, missed_blocks, net>>
        /\ ControlNumberOfPeers(n)
    BY <1>2 DEF NotOnConsensus, ReadTimeout, ControlNumberOfPeers
  <2> QED
    BY <2>1, IdleStep DEF IInv
<1> QED
  BY <1>1, <1>2, UpdateRoundIInv, GenerateBlockIInv, StartResyncIInv, HandleIInv DEF Next

LEMMA Invariance == Spec => []IInv
<1> QED
  BY InitIInv, NextIInv, PTL DEF Spec

-----------------------------------------------------------------------------
(* Conversations *)

\* The message is a request of n, or a response to it.
Concerns(msg, ch, n) ==
    \/ ch[1] = n /\ msg.type = "ResyncRequest"
    \/ ch[2] = n /\ msg.type = "ResyncResponse"

AtMostOne(S) == \A p, q \in S : p = q

\* What n waits for is carried on: nothing is added to it, nor is it lost,
\* though it may have turned into an answer.
Carries(before, after, n) ==
    /\ AtMostOne(Underway(before, n)) => AtMostOne(Underway(after, n))
    /\ Underway(after, n) = {} <=> Underway(before, n) = {}
    /\ \A p \in Underway(after, n) : \E q \in Underway(before, n) :
          p[1] = q[1] \/ p[1] = <<q[1][2], q[1][1]>>

Waits(n) ==
    /\ AtMostOne(Pending(n))
    /\ \A p \in Pending(n) : p[1] \in {<<n, request[n].peer>>, <<request[n].peer, n>>}
    /\ Alive(n) /\ state[n] = "LISTENING" => Pending(n) = {}
    /\ Alive(n) /\ state[n] = "RESYNCING" /\ Unreachable(n) = {} => Pending(n) # {}

Conversations == \A n \in Nodes : Waits(n)

LEMMA UnderwayPlaces ==
    ASSUME NEW sockets, SocketsOK(sockets), NEW n
    PROVE  /\ \A ch \in Nodes \X Nodes, k \in Nat :
                 <<ch, k>> \in Underway(sockets, n)
                   <=> k \in 1 .. Len(sockets[ch]) /\ Concerns(sockets[ch][k], ch, n)
           /\ \A p \in Underway(sockets, n) :
                 \E ch \in Nodes \X Nodes, k \in Nat : p = <<ch, k>>
<1>1. ASSUME NEW ch \in Nodes \X Nodes
      PROVE  DOMAIN sockets[ch] = 1 .. Len(sockets[ch]) /\ Len(sockets[ch]) \in Nat
  BY DEF SocketsOK
<1>2. ASSUME NEW ch \in Nodes \X Nodes, NEW k \in Nat
      PROVE  <<ch, k>> \in Underway(sockets, n)
                   <=> k \in 1 .. Len(sockets[ch]) /\ Concerns(sockets[ch][k], ch, n)
  BY <1>1 DEF Underway, Concerns
<1>3. ASSUME NEW p \in Underway(sockets, n)
      PROVE  \E ch \in Nodes \X Nodes, k \in Nat : p = <<ch, k>>
  <2>1. PICK ch \in Nodes \X Nodes : p \in {ch} \X DOMAIN sockets[ch]
    BY DEF Underway
  <2>2. DOMAIN sockets[ch] \subseteq Nat
    BY <1>1
  <2> QED
    BY <2>1, <2>2
<1> QED
  BY <1>2, <1>3

\* Reading the first message of m: the places after it move down by one.
LEMMA ReceivedPlaces ==
    ASSUME SocketsOK(net), NEW n \in Nodes, NEW m \in Nodes, net[<<m, n>>] # << >>,
           NEW k \in Nodes
    PROVE  /\ \A ch \in Nodes \X Nodes, i \in Nat :
                 <<ch, i>> \in Underway(Received(n, m), k)
                   <=> <<ch, IF ch = <<m, n>> THEN i + 1 ELSE i>> \in Underway(net, k) /\ i # 0
           /\ <<<<m, n>>, 1>> \in Underway(net, k)
                 <=> Concerns(Head(net[<<m, n>>]), <<m, n>>, k)
<1> DEFINE r == Received(n, m)
           s == net[<<m, n>>]
<1>1. SocketsOK(r)
  BY ReceivedOK
<1>2. s \in Seq(Messages) /\ s # << >>
  BY DEF SocketsOK
<1>3. /\ Len(s) \in Nat /\ Len(s) > 0 /\ Head(s) = s[1] /\ Len(Tail(s)) = Len(s) - 1
      /\ \A i \in 1 .. Len(s) - 1 : Tail(s)[i] = s[i + 1]
  <2> HIDE DEF s
  <2> QED
    BY <1>2
<1>4. r[<<m, n>>] = Tail(s) /\ \A ch \in Nodes \X Nodes : ch # <<m, n>> => r[ch] = net[ch]
  BY DEF Received, SocketsOK
<1>5. ASSUME NEW ch \in Nodes \X Nodes, NEW i \in Nat
      PROVE  <<ch, i>> \in Underway(r, k)
               <=> <<ch, IF ch = <<m, n>> THEN i + 1 ELSE i>> \in Underway(net, k) /\ i # 0
  <2>1. <<ch, i>> \in Underway(r, k) <=> i \in 1 .. Len(r[ch]) /\ Concerns(r[ch][i], ch, k)
    BY <1>1, UnderwayPlaces
  <2>2. \A j \in Nat : <<ch, j>> \in Underway(net, k)
                         <=> j \in 1 .. Len(net[ch]) /\ Concerns(net[ch][j], ch, k)
    BY UnderwayPlaces
  <2>3. CASE ch = <<m, n>>
    <3>1. i + 1 \in Nat /\ (i \in 1 .. Len(s) - 1 <=> i + 1 \in 1 .. Len(s) /\ i # 0)
      BY <1>3
    <3>2. <<ch, i + 1>> \in Underway(net, k)
            <=> i + 1 \in 1 .. Len(s) /\ Concerns(s[i + 1], ch, k)
      BY <2>2, <2>3, <3>1
    <3>3. <<ch, i>> \in Underway(r, k)
            <=> i \in 1 .. Len(s) - 1 /\ Concerns(Tail(s)[i], ch, k)
      BY <1>3, <1>4, <2>1, <2>3
    <3> HIDE DEF r, s
    <3> QED
      BY <1>3, <2>3, <3>1, <3>2, <3>3
  <2>4. CASE ch # <<m, n>>
    <3>1. 0 \notin 1 .. Len(net[ch])
      OBVIOUS
    <3> QED
      BY <1>4, <2>1, <2>2, <2>4, <3>1
  <2> QED
    BY <2>3, <2>4
<1>6. <<<<m, n>>, 1>> \in Underway(net, k) <=> Concerns(Head(s), <<m, n>>, k)
  <2>1. <<<<m, n>>, 1>> \in Underway(net, k)
          <=> 1 \in 1 .. Len(s) /\ Concerns(s[1], <<m, n>>, k)
    BY UnderwayPlaces
  <2> QED
    BY <1>3, <2>1
<1> QED
  BY <1>5, <1>6

\* A message that is no part of k's conversation leaves it as it is, and the
\* only one that is ends it.
LEMMA ReceivedCarries ==
    ASSUME SocketsOK(net), NEW n \in Nodes, NEW m \in Nodes, net[<<m, n>>] # << >>,
           NEW k \in Nodes
    PROVE  IF Concerns(Head(net[<<m, n>>]), <<m, n>>, k)
             THEN /\ AtMostOne(Underway(net, k)) => Underway(Received(n, m), k) = {}
                  /\ <<<<m, n>>, 1>> \in Underway(net, k)
             ELSE Carries(net, Received(n, m), k)
<1> DEFINE r == Received(n, m)
           up(ch, i) == IF ch = <<m, n>> THEN i + 1 ELSE i
<1>1. SocketsOK(r)
  BY ReceivedOK
<1>2. \A p \in Underway(r, k) : \E ch \in Nodes \X Nodes, i \in Nat : p = <<ch, i>>
  BY <1>1, UnderwayPlaces
<1>3. \A p \in Underway(net, k) : \E ch \in Nodes \X Nodes, i \in Nat : p = <<ch, i>>
  BY UnderwayPlaces
<1>4. \A ch \in Nodes \X Nodes, i \in Nat :
         <<ch, i>> \in Underway(r, k) <=> <<ch, up(ch, i)>> \in Underway(net, k) /\ i # 0
  BY ReceivedPlaces
<1>5. <<<<m, n>>, 1>> \in Underway(net, k) <=> Concerns(Head(net[<<m, n>>]), <<m, n>>, k)
  BY ReceivedPlaces
<1>6. CASE Concerns(Head(net[<<m, n>>]), <<m, n>>, k)
  <2>1. ASSUME AtMostOne(Underway(net, k)), NEW p \in Underway(r, k) PROVE FALSE
    <3>1. PICK ch \in Nodes \X Nodes, i \in Nat : p = <<ch, i>>
      BY <1>2, <2>1
    <3>2. <<ch, up(ch, i)>> \in Underway(net, k) /\ i # 0
      BY <1>4, <2>1, <3>1
    <3>3. <<ch, up(ch, i)>> = <<<<m, n>>, 1>>
      BY <1>5, <1>6, <2>1, <3>2 DEF AtMostOne
    <3>4. ch = <<m, n>> /\ up(ch, i) = 1
      BY <3>3
    <3> QED
      BY <3>2, <3>4
  <2> HIDE DEF r
  <2> QED
    BY <1>5, <1>6, <2>1 DEF r
<1>7. CASE ~Concerns(Head(net[<<m, n>>]), <<m, n>>, k)
  <2>1. ASSUME NEW p \in Underway(r, k)
        PROVE  \E ch \in Nodes \X Nodes, i \in Nat :
                  /\ p = <<ch, i>>
                  /\ <<ch, up(ch, i)>> \in Underway(net, k)
    BY <1>2, <1>4, <2>1
  <2>2. ASSUME NEW p \in Underway(net, k) PROVE Underway(r, k) # {}
    <3>1. PICK ch \in Nodes \X Nodes, j \in Nat : p = <<ch, j>>
      BY <1>3, <2>2
    <3>2. j # 0
      BY <2>2, <3>1, UnderwayPlaces
    <3>3. CASE ch = <<m, n>>
      <4>1. j # 1
        BY <1>5, <1>7, <2>2, <3>1, <3>3
      <4>2. j - 1 \in Nat /\ j - 1 # 0 /\ up(ch, j - 1) = j
        BY <3>2, <3>3, <4>1
      <4>3. <<ch, j - 1>> \in Underway(r, k)
        BY <1>4, <2>2, <3>1, <4>2
      <4> QED
        BY <4>3
    <3>4. CASE ch # <<m, n>>
      <4>1. <<ch, j>> \in Underway(r, k)
        BY <1>4, <2>2, <3>1, <3>2, <3>4
      <4> QED
        BY <4>1
    <3> QED
      BY <3>3, <3>4
  <2>3. ASSUME AtMostOne(Underway(net, k)), NEW p \in Underway(r, k), NEW q \in Underway(r, k)
        PROVE  p = q
    <3>1. PICK ch \in Nodes \X Nodes, i \in Nat :
             p = <<ch, i>> /\ <<ch, up(ch, i)>> \in Underway(net, k)
      BY <2>1
    <3>2. PICK dh \in Nodes \X Nodes, j \in Nat :
             q = <<dh, j>> /\ <<dh, up(dh, j)>> \in Underway(net, k)
      BY <2>1
    <3>3. <<ch, up(ch, i)>> = <<dh, up(dh, j)>>
      BY <2>3, <3>1, <3>2 DEF AtMostOne
    <3>4. ch = dh /\ up(ch, i) = up(dh, j)
      BY <3>3
    <3>5. i = j
      BY <3>4
    <3> QED
      BY <3>1, <3>2, <3>4, <3>5
  <2>4. ASSUME NEW p \in Underway(r, k) PROVE \E q \in Underway(net, k) : p[1] = q[1]
    <3>1. PICK ch \in Nodes \X Nodes, i \in Nat :
             p = <<ch, i>> /\ <<ch, up(ch, i)>> \in Underway(net, k)
      BY <2>1
    <3>2. <<ch, up(ch, i)>>[1] = ch /\ p[1] = ch
      BY <3>1
    <3> QED
      BY <3>1, <3>2
  <2>5. AtMostOne(Underway(net, k)) => AtMostOne(Underway(r, k))
    BY <2>3 DEF AtMostOne
  <2>6. Underway(r, k) = {} <=> Underway(net, k) = {}
    BY <2>2, <2>4
  <2> HIDE DEF r
  <2> QED
    BY <1>7, <2>4, <2>5, <2>6 DEF Carries, r
<1> QED
  BY <1>6, <1>7

LEMMA BroadcastPlaces ==
    ASSUME NEW sockets, SocketsOK(sockets), NEW n \in Nodes, NEW peers, n \notin peers,
           NEW msg \in Messages, NEW k \in Nodes, NEW ch \in Nodes \X Nodes, NEW i \in Nat
    PROVE  <<ch, i>> \in Underway(Broadcast(sockets, n, peers, msg), k)
             <=> \/ <<ch, i>> \in Underway(sockets, k)
                 \/ /\ ch[1] = n /\ ch[2] \in peers /\ Concerns(msg, ch, k)
                    /\ i = Len(sockets[ch]) + 1
<1> DEFINE b == Broadcast(sockets, n, peers, msg)
           s == sockets[ch]
<1>1. SocketsOK(b)
  BY BroadcastOK
<1>2. s \in Seq(Messages)
  BY DEF SocketsOK
<1>3. <<ch, i>> \in Underway(b, k) <=> i \in 1 .. Len(b[ch]) /\ Concerns(b[ch][i], ch, k)
  BY <1>1, UnderwayPlaces
<1>4. <<ch, i>> \in Underway(sockets, k) <=> i \in 1 .. Len(s) /\ Concerns(s[i], ch, k)
  BY UnderwayPlaces
<1>5. b[ch] = IF ch[1] = n /\ ch[2] \in peers THEN Append(s, msg) ELSE s
  BY DEF Broadcast
<1>6. /\ Len(s) \in Nat /\ Len(Append(s, msg)) = Len(s) + 1
      /\ \A j \in 1 .. Len(s) : Append(s, msg)[j] = s[j]
      /\ Append(s, msg)[Len(s) + 1] = msg
  <2> HIDE DEF s
  <2> QED
    BY <1>2, AppendProperties
<1> HIDE DEF b, s
<1>7. CASE ch[1] = n /\ ch[2] \in peers
  <2>1. b[ch] = Append(s, msg)
    BY <1>5, <1>7
  <2>2. i \in 1 .. Len(s) + 1 <=> i \in 1 .. Len(s) \/ i = Len(s) + 1
    BY <1>6
  <2>3. CASE i = Len(s) + 1
    <3>1. i \notin 1 .. Len(s)
      BY <1>6, <2>3
    <3> QED
      BY <1>3, <1>4, <1>6, <1>7, <2>1, <2>2, <2>3, <3>1 DEF b, s
  <2>4. CASE i # Len(s) + 1
    BY <1>3, <1>4, <1>6, <2>1, <2>2, <2>4 DEF b, s
  <2> QED
    BY <2>3, <2>4
<1>8. CASE ~(ch[1] = n /\ ch[2] \in peers)
  BY <1>3, <1>4, <1>5, <1>8 DEF b
<1> QED
  BY <1>7, <1>8

\* A message that is no part of k's conversation leaves it as it is.
LEMMA BroadcastCarries ==
    ASSUME NEW sockets, SocketsOK(sockets), NEW n \in Nodes, NEW peers, n \notin peers,
           NEW msg \in Messages, NEW k \in Nodes,
           \A m \in Nodes \cap peers : ~Concerns(msg, <<n, m>>, k)
    PROVE  Underway(Broadcast(sockets, n, peers, msg), k) = Underway(sockets, k)
<1> DEFINE b == Broadcast(sockets, n, peers, msg)
<1>1. SocketsOK(b)
  BY BroadcastOK
<1>2. ASSUME NEW ch \in Nodes \X Nodes, NEW i \in Nat
      PROVE  <<ch, i>> \in Underway(b, k) <=> <<ch, i>> \in Underway(sockets, k)
  <2>1. ch[1] = n => ch = <<n, ch[2]>> /\ ch[2] \in Nodes
    OBVIOUS
  <2>2. ch[1] = n /\ ch[2] \in peers => ~Concerns(msg, ch, k)
    BY <2>1
  <2> QED
    BY <2>2, BroadcastPlaces
<1> HIDE DEF b
<1>3. \A p \in Underway(b, k) : \E ch \in Nodes \X Nodes, i \in Nat : p = <<ch, i>>
  BY <1>1, UnderwayPlaces
<1>4. \A p \in Underway(sockets, k) : \E ch \in Nodes \X Nodes, i \in Nat : p = <<ch, i>>
  BY UnderwayPlaces
<1>5. \A p : p \in Underway(b, k) <=> p \in Underway(sockets, k)
  BY <1>2, <1>3, <1>4
<1> QED
  BY <1>5 DEF b

\* A message begins the conversation of a node that waits for nothing.
LEMMA SendBegins ==
    ASSUME NEW sockets, SocketsOK(sockets), NEW n \in Nodes, NEW m \in Nodes, m # n,
           NEW msg \in Messages, NEW k \in Nodes, Concerns(msg, <<n, m>>, k),
           Underway(sockets, k) = {}
    PROVE  \E p : Underway(Send(sockets, n, m, msg), k) = {p} /\ p[1] = <<n, m>>
<1> DEFINE b == Broadcast(sockets, n, {m}, msg)
           l == Len(sockets[<<n, m>>]) + 1
           p == <<<<n, m>>, l>>
<1>1. SocketsOK(b)
  BY BroadcastOK
<1>2. ASSUME NEW ch \in Nodes \X Nodes, NEW i \in Nat
      PROVE  <<ch, i>> \in Underway(b, k) <=> ch = <<n, m>> /\ i = l
  <2>1. ch[1] = n /\ ch[2] \in {m} <=> ch = <<n, m>>
    OBVIOUS
  <2>2. <<ch, i>> \in Underway(b, k)
          <=> /\ ch[1] = n /\ ch[2] \in {m} /\ Concerns(msg, ch, k)
              /\ i = Len(sockets[ch]) + 1
    <3> DEFINE peers == {m}
    <3>1. n \notin peers
      OBVIOUS
    <3> HIDE DEF peers
    <3>2. <<ch, i>> \in Underway(Broadcast(sockets, n, peers, msg), k)
            <=> \/ <<ch, i>> \in Underway(sockets, k)
                \/ /\ ch[1] = n /\ ch[2] \in peers /\ Concerns(msg, ch, k)
                   /\ i = Len(sockets[ch]) + 1
      BY <3>1, BroadcastPlaces
    <3> QED
      BY <3>2 DEF peers
  <2> QED
    BY <2>1, <2>2
<1>3. l \in Nat
  BY DEF SocketsOK
<1>4. \A q \in Underway(b, k) : \E ch \in Nodes \X Nodes, i \in Nat : q = <<ch, i>>
  BY <1>1, UnderwayPlaces
<1>5. Underway(b, k) = {p}
  <2> HIDE DEF b, l
  <2> QED
    BY <1>2, <1>3, <1>4
<1>6. p[1] = <<n, m>>
  OBVIOUS
<1> QED
  BY <1>5, <1>6 DEF Send

LEMMA CarriesOn ==
    ASSUME NEW a, NEW b, NEW c, NEW n, Carries(a, b, n), Underway(c, n) = Underway(b, n)
    PROVE  Carries(a, c, n)
BY DEF Carries

-----------------------------------------------------------------------------
\* In a step of n whoever else waits goes on waiting, and the dead stay dead.
LEMMA OthersWait ==
    ASSUME IInv, Conversations, NEW n \in Nodes, Alive(n), NEW k \in Nodes \ {n},
           \A j \in Nodes \ {n} : pc'[j] = pc[j],
           state'[k] = state[k], request'[k] = request[k], Carries(net, net', k)
    PROVE  Waits(k)'
<1>1. \A j \in Nodes : Alive(j)' => Alive(j)
  BY DEF Alive
<1>2. Unreachable(k)' = {} => Unreachable(k) = {}
  BY <1>1 DEF Unreachable, Forgettable
<1>3. Waits(k) /\ Alive(k)' = Alive(k)
  BY DEF Conversations, Alive
<1>4. Pending(k) = Underway(net, k) /\ Pending(k)' = Underway(net', k)
  BY DEF Pending
<1>5. \A p \in Pending(k)' : p[1] \in {<<k, request[k].peer>>, <<request[k].peer, k>>}
  <2> SUFFICES ASSUME NEW p \in Pending(k)'
               PROVE  p[1] \in {<<k, request[k].peer>>, <<request[k].peer, k>>}
    OBVIOUS
  <2>1. PICK q \in Pending(k) : p[1] = q[1] \/ p[1] = <<q[1][2], q[1][1]>>
    BY <1>4 DEF Carries
  <2>2. q[1] \in {<<k, request[k].peer>>, <<request[k].peer, k>>}
    BY <1>3 DEF Waits
  <2> QED
    BY <2>1, <2>2
<1> QED
  BY <1>2, <1>3, <1>4, <1>5 DEF Waits, Carries

\* A step of n that touches no conversation.
LEMMA QuietStep ==
    ASSUME IInv, Conversations, NEW n \in Nodes, Alive(n),
           \A j \in Nodes \ {n} : pc'[j] = pc[j],
           UNCHANGED <<state, request>>,
           \A k \in Nodes : Carries(net, net', k)
    PROVE  Conversations'
<1>1. ASSUME NEW k \in Nodes \ {n} PROVE Waits(k)'
  BY OthersWait
<1>2. Waits(n)'
  <2>1. \A j \in Nodes : Alive(j)' => Alive(j)
    BY DEF Alive
  <2>2. Unreachable(n)' = {} => Unreachable(n) = {}
    BY <2>1 DEF Unreachable, Forgettable
  <2>3. Waits(n)
    BY DEF Conversations
  <2>4. Pending(n) = Underway(net, n) /\ Pending(n)' = Underway(net', n)
    BY DEF Pending
  <2>5. ASSUME NEW p \in Pending(n)'
        PROVE  p[1] \in {<<n, request[n].peer>>, <<request[n].peer, n>>}
    <3>1. PICK q \in Pending(n) : p[1] = q[1] \/ p[1] = <<q[1][2], q[1][1]>>
      BY <2>4, <2>5 DEF Carries
    <3>2. q[1] \in {<<n, request[n].peer>>, <<request[n].peer, n>>}
      BY <2>3 DEF Waits
    <3> QED
      BY <3>1, <3>2
  <2> QED
    BY <2>1, <2>2, <2>3, <2>4, <2>5 DEF Waits, Carries
<1> QED
  BY <1>1, <1>2 DEF Conversations

\* n waits for nothing, and asks a peer.
LEMMA AskStep ==
    ASSUME IInv, Conversations, NEW n \in Nodes, Alive(n),
           NEW left, SocketsOK(left), Underway(left, n) = {},
           \A k \in Nodes \ {n} : Carries(net, left, k),
           NEW peer \in Nodes, peer # n, NEW i \in Int, i < 0,
           net' \in TrySend(left, n, peer, ResyncRequest(i)),
           state'[n] = "RESYNCING", request'[n].peer = peer,
           \A k \in Nodes \ {n} :
              pc'[k] = pc[k] /\ state'[k] = state[k] /\ request'[k] = request[k]
    PROVE  Conversations'
<1> DEFINE msg == ResyncRequest(i)
<1>1. msg \in Messages /\ msg.type = "ResyncRequest"
  BY MessageTypes DEF ResyncRequest
<1> HIDE DEF msg
<1>2. net' = Send(left, n, peer, msg) \/ (net' = left /\ peer \in Unreachable(n))
  BY DEF TrySend, msg
<1>3. ASSUME NEW k \in Nodes \ {n} PROVE Waits(k)'
  <2>1. \A m \in Nodes : ~Concerns(msg, <<n, m>>, k)
    BY <1>1 DEF Concerns
  <2> DEFINE peers == {peer}
  <2>2. n \notin peers
    OBVIOUS
  <2> HIDE DEF peers
  <2>3. Underway(Broadcast(left, n, peers, msg), k) = Underway(left, k)
    BY <1>1, <2>1, <2>2, BroadcastCarries
  <2>4. Carries(net, net', k)
    BY <1>2, <2>3, CarriesOn DEF Send, peers
  <2> QED
    BY <2>4, OthersWait
<1>4. Pending(n)' = Underway(net', n)
  BY DEF Pending
<1>5. CASE net' = Send(left, n, peer, msg)
  <2>1. Concerns(msg, <<n, peer>>, n)
    BY <1>1 DEF Concerns
  <2>2. \E p : Underway(Send(left, n, peer, msg), n) = {p} /\ p[1] = <<n, peer>>
    BY <1>1, <2>1, SendBegins
  <2>3. PICK p : Underway(net', n) = {p} /\ p[1] = <<n, peer>>
    BY <1>5, <2>2
  <2>4. Waits(n)'
    BY <1>4, <2>3 DEF Waits, AtMostOne
  <2> QED
    BY <1>3, <2>4 DEF Conversations
<1>6. CASE net' = left /\ peer \in Unreachable(n)
  <2>1. Unreachable(n)' # {} \/ ~Alive(n)'
    BY <1>6 DEF Unreachable, Forgettable, Alive
  <2>2. Waits(n)'
    BY <1>4, <1>6, <2>1 DEF Waits, AtMostOne
  <2> QED
    BY <1>3, <2>2 DEF Conversations
<1> QED
  BY <1>2, <1>5, <1>6

\* n has read what it waited for, and waits no longer.
LEMMA EndStep ==
    ASSUME IInv, Conversations, NEW n \in Nodes, Alive(n),
           Underway(net', n) = {}, state'[n] = "LISTENING",
           \A k \in Nodes \ {n} :
              /\ pc'[k] = pc[k] /\ state'[k] = state[k] /\ request'[k] = request[k]
              /\ Carries(net, net', k)
    PROVE  Conversations'
<1>1. ASSUME NEW k \in Nodes \ {n} PROVE Waits(k)'
  BY OthersWait
<1>2. Pending(n)' = {}
  BY DEF Pending
<1>3. Waits(n)'
  BY <1>2 DEF Waits, AtMostOne
<1> QED
  BY <1>1, <1>3 DEF Conversations

\* A message of n's conversation is part of no other.
LEMMA OneConcerned ==
    ASSUME NEW msg, NEW ch, NEW n \in Nodes, Concerns(msg, ch, n), NEW k \in Nodes \ {n}
    PROVE  ~Concerns(msg, ch, k)
BY DEF Concerns

\* n reads a response: what it waited for has come, and nothing else changes.
LEMMA ResponseRead ==
    ASSUME IInv, Conversations, NEW n \in Nodes, NEW m \in Nodes, Reads(n, m, "ResyncResponse")
    PROVE  /\ Alive(n) /\ Pending(n) # {}
           /\ SocketsOK(Received(n, m)) /\ Underway(Received(n, m), n) = {}
           /\ \A k \in Nodes \ {n} : Carries(net, Received(n, m), k)
<1> DEFINE msg == Head(net[<<m, n>>])
<1>1. net[<<m, n>>] # << >> /\ Concerns(msg, <<m, n>>, n)
  BY DEF Reads, Concerns
<1> HIDE DEF msg
<1>2. SocketsOK(net) /\ AtMostOne(Underway(net, n))
  BY DEF IInv, Conversations, Waits, Pending
<1>3. Underway(Received(n, m), n) = {} /\ Underway(net, n) # {}
  BY <1>1, <1>2, ReceivedCarries DEF msg
<1>4. ASSUME NEW k \in Nodes \ {n} PROVE Carries(net, Received(n, m), k)
  <2>1. ~Concerns(msg, <<m, n>>, k)
    BY <1>1, OneConcerned
  <2> QED
    BY <1>1, <1>2, <2>1, ReceivedCarries DEF msg
<1>5. SocketsOK(Received(n, m))
  BY <1>1, <1>2, ReceivedOK
<1>6. Alive(n)
  BY DEF Reads, Alive
<1> QED
  BY <1>3, <1>4, <1>5, <1>6 DEF Pending

\* n reads a block: nobody's conversation is touched.
LEMMA BlockRead ==
    ASSUME IInv, NEW n \in Nodes, NEW m \in Nodes, Reads(n, m, "BlockBroadcast"), NEW k \in Nodes
    PROVE  Alive(n) /\ Carries(net, Received(n, m), k)
<1>1. net[<<m, n>>] # << >> /\ ~Concerns(Head(net[<<m, n>>]), <<m, n>>, k)
  BY DEF Reads, Concerns
<1> QED
  BY <1>1, ReceivedCarries DEF IInv, Reads, Alive

LEMMA OwnStepsWait ==
    ASSUME IInv, Conversations, NEW n \in Nodes,
           UpdateRound(n) \/ NotOnConsensus(n) \/ ReadTimeout(n)
    PROVE  Conversations'
<1>1. /\ Alive(n) /\ UNCHANGED <<state, request, net>>
      /\ \A j \in Nodes \ {n} : pc'[j] = pc[j]
  <2>1. CASE UpdateRound(n)
    BY <2>1 DEF UpdateRound, Alive, resyncVars, IInv, Attributes
  <2>2. CASE NotOnConsensus(n) \/ ReadTimeout(n)
    <3>1. Alive(n) /\ ControlNumberOfPeers(n) /\ UNCHANGED <<state, request, net>>
      BY <2>2 DEF NotOnConsensus, ReadTimeout, ControlNumberOfPeers, Alive, resyncVars
    <3> QED
      BY <3>1, PassEnds DEF IInv
  <2> QED
    BY <2>1, <2>2
<1>2. \A k \in Nodes : Carries(net, net', k)
  BY <1>1 DEF Carries
<1> QED
  BY <1>1, <1>2, QuietStep

LEMMA GenerateBlockWaits ==
    ASSUME IInv, Conversations, NEW n \in Nodes, GenerateBlock(n)
    PROVE  Conversations'
<1>1. /\ Alive(n) /\ UNCHANGED <<state, request>>
      /\ \A j \in Nodes \ {n} : pc'[j] = pc[j]
  BY DEF GenerateBlock, Alive, resyncVars, IInv, Attributes
<1>2. CASE net' = net
  <2>1. \A k \in Nodes : Carries(net, net', k)
    BY <1>2 DEF Carries
  <2> QED
    BY <1>1, <2>1, QuietStep
<1>3. CASE ValidateBlock(Candidate(n)) > 0 /\ n \notin HidesCreated
  <2> DEFINE msg == BlockBroadcast(Candidate(n))
  <2>1. PICK forgotten \in SUBSET Forgettable(n) :
           net' = Broadcast(net, n, Nodes \ ({n} \cup forgotten), msg)
    BY <1>3 DEF GenerateBlock
  <2>2. msg \in Messages /\ msg.type = "BlockBroadcast"
    BY <1>3, CandidateOK, MessageTypes DEF BlockBroadcast
  <2> DEFINE peers == Nodes \ ({n} \cup forgotten)
  <2>3. n \notin peers
    OBVIOUS
  <2> HIDE DEF msg, peers
  <2>4. ASSUME NEW k \in Nodes PROVE Carries(net, net', k)
    <3>1. \A m \in Nodes : ~Concerns(msg, <<n, m>>, k)
      BY <2>2 DEF Concerns
    <3>2. Underway(Broadcast(net, n, peers, msg), k) = Underway(net, k)
      BY <2>2, <2>3, <3>1, BroadcastCarries DEF IInv
    <3> QED
      BY <2>1, <3>2 DEF Carries, peers
  <2> QED
    BY <1>1, <2>4, QuietStep
<1> QED
  BY <1>2, <1>3 DEF GenerateBlock

LEMMA HandleNewBlockWaits ==
    ASSUME IInv, Conversations, NEW n \in Nodes, NEW m \in Nodes, HandleNewBlock(n, m)
    PROVE  Conversations'
<1> DEFINE b == Head(net[<<m, n>>]).block
           msg == BlockBroadcast(b)
<1>1. Reads(n, m, "BlockBroadcast") /\ ControlNumberOfPeers(n) /\ UNCHANGED <<state, request>>
  BY DEF HandleNewBlock, resyncVars
<1>2. /\ Alive(n) /\ net[<<m, n>>] # << >> /\ SocketsOK(Received(n, m))
      /\ \A k \in Nodes : Carries(net, Received(n, m), k)
  BY <1>1, BlockRead, ReceivedOK DEF Reads, IInv, Alive
<1>3. msg \in Messages /\ msg.type = "BlockBroadcast"
  <2>1. b \in Blocks
    BY <1>1, ReceivedOK, MessageKinds DEF Reads, IInv
  <2> QED
    BY <2>1, MessageTypes DEF BlockBroadcast
<1>4. \/ net' = Received(n, m)
      \/ \E forgotten \in SUBSET Forgettable(n) :
            net' = Broadcast(Received(n, m), n, Audience(n, m, b.owner) \ forgotten, msg)
  BY DEF HandleNewBlock
<1> HIDE DEF msg
<1>5. ASSUME NEW k \in Nodes PROVE Carries(net, net', k)
  <2>1. CASE net' = Received(n, m)
    BY <1>2, <2>1
  <2>2. CASE \E forgotten \in SUBSET Forgettable(n) :
               net' = Broadcast(Received(n, m), n, Audience(n, m, b.owner) \ forgotten, msg)
    <3>1. PICK forgotten \in SUBSET Forgettable(n) :
             net' = Broadcast(Received(n, m), n, Audience(n, m, b.owner) \ forgotten, msg)
      BY <2>2
    <3> DEFINE peers == Audience(n, m, b.owner) \ forgotten
               left  == Received(n, m)
    <3>2. n \notin peers
      BY DEF Audience
    <3>3. \A j \in Nodes : ~Concerns(msg, <<n, j>>, k)
      BY <1>3 DEF Concerns
    <3>4. net' = Broadcast(left, n, peers, msg) /\ SocketsOK(left) /\ Carries(net, left, k)
      BY <1>2, <3>1
    <3> HIDE DEF peers, left
    <3>5. Underway(Broadcast(left, n, peers, msg), k) = Underway(left, k)
      BY <1>3, <3>2, <3>3, <3>4, BroadcastCarries
    <3> QED
      BY <3>4, <3>5, CarriesOn
  <2> QED
    BY <1>4, <2>1, <2>2
<1>6. \A j \in Nodes \ {n} : pc'[j] = pc[j]
  BY <1>1, PassEnds DEF IInv
<1> QED
  BY <1>1, <1>2, <1>5, <1>6, QuietStep

\* A listening node is sent no response, so it ignores blocks only.
LEMMA IgnoreMessageWaits ==
    ASSUME IInv, Conversations, NEW n \in Nodes, NEW m \in Nodes, IgnoreMessage(n, m)
    PROVE  Conversations'
<1>1. ~(Reads(n, m, "ResyncResponse") /\ state[n] = "LISTENING")
  BY ResponseRead DEF Conversations, Waits
<1>2. /\ Reads(n, m, "BlockBroadcast") /\ net' = Received(n, m) /\ ControlNumberOfPeers(n)
      /\ UNCHANGED <<state, request>>
  BY <1>1 DEF IgnoreMessage, resyncVars
<1>3. \A k \in Nodes : Alive(n) /\ Carries(net, net', k)
  BY <1>2, BlockRead
<1>4. \A j \in Nodes \ {n} : pc'[j] = pc[j]
  BY <1>2, PassEnds DEF IInv
<1> QED
  BY <1>2, <1>3, <1>4, QuietStep

\* The request of m becomes a response to m.
LEMMA HandleResyncRequestWaits ==
    ASSUME IInv, Conversations, NEW n \in Nodes, NEW m \in Nodes, HandleResyncRequest(n, m)
    PROVE  Conversations'
<1> DEFINE head == Head(net[<<m, n>>])
           msg  == Answer(n, head.block_index)
           left == Received(n, m)
<1>1. /\ pc[n] \in {"loop", "read"} /\ net[<<m, n>>] # << >> /\ head.type = "ResyncRequest"
      /\ net' = Send(left, n, m, msg) /\ ControlNumberOfPeers(n) /\ UNCHANGED <<state, request>>
  BY DEF HandleResyncRequest, Reads, resyncVars
<1>2. SocketsOK(net) /\ SocketsOK(left) /\ m # n
  BY <1>1, ReceivedOK DEF IInv
<1>3. msg \in Messages /\ msg.type = "ResyncResponse"
  <2>1. msg \in Messages
    BY AnswerOK
  <2> QED
    BY <2>1 DEF Answer, ResyncResponse
<1>4. Concerns(head, <<m, n>>, m) /\ Concerns(msg, <<n, m>>, m)
  BY <1>1, <1>3 DEF Concerns
<1> HIDE DEF head, msg
<1>5. ASSUME NEW k \in Nodes \ {m} PROVE Carries(net, net', k)
  <2>1. ~Concerns(head, <<m, n>>, k)
    BY <1>4, OneConcerned
  <2>2. Carries(net, left, k)
    BY <1>1, <1>2, <2>1, ReceivedCarries DEF head
  <2> DEFINE peers == {m}
  <2>3. \A j \in Nodes \cap peers : ~Concerns(msg, <<n, j>>, k)
    BY <1>4, OneConcerned
  <2>4. n \notin peers /\ net' = Broadcast(left, n, peers, msg)
    BY <1>1, <1>2 DEF Send
  <2>5. SocketsOK(left)
    BY <1>2
  <2> HIDE DEF left, peers
  <2>6. Underway(Broadcast(left, n, peers, msg), k) = Underway(left, k)
    BY <1>3, <2>3, <2>4, <2>5, BroadcastCarries
  <2> QED
    BY <2>2, <2>4, <2>6, CarriesOn DEF left
<1>6. Carries(net, net', m)
  <2>1. AtMostOne(Underway(net, m))
    BY DEF Conversations, Waits, Pending
  <2>2. Underway(left, m) = {} /\ <<<<m, n>>, 1>> \in Underway(net, m)
    BY <1>1, <1>2, <1>4, <2>1, ReceivedCarries DEF head
  <2> HIDE DEF left
  <2>3. \E p : Underway(Send(left, n, m, msg), m) = {p} /\ p[1] = <<n, m>>
    BY <1>2, <1>3, <1>4, <2>2, SendBegins
  <2>4. PICK p : Underway(net', m) = {p} /\ p[1] = <<n, m>>
    BY <1>1, <2>3 DEF left
  <2>5. <<<<m, n>>, 1>>[1] = <<m, n>> /\ <<<<m, n>>[2], <<m, n>>[1]>> = <<n, m>>
    OBVIOUS
  <2> QED
    BY <2>2, <2>4, <2>5 DEF Carries, AtMostOne
<1>7. \A j \in Nodes \ {n} : pc'[j] = pc[j]
  BY <1>1, PassEnds DEF IInv
<1> QED
  BY <1>1, <1>5, <1>6, <1>7, QuietStep DEF Alive

LEMMA StartResyncWaits ==
    ASSUME IInv, Conversations, NEW n \in Nodes, StartResync(n)
    PROVE  Conversations'
<1>1. PICK s \in missed_blocks[n] :
         /\ pc[n] = "resync"
         /\ \/ /\ state' = [state EXCEPT ![n] = "RESYNCING"]
               /\ request' = [request EXCEPT ![n] = [block_index |-> -1, peer |-> s[2]]]
               /\ net' = Send(net, n, s[2], ResyncRequest(-1))
               /\ pc' = [pc EXCEPT ![n] = "loop"]
            \/ /\ pc' = [pc EXCEPT ![n] = IF missed_blocks'[n] = {} THEN "loop" ELSE "resync"]
               /\ UNCHANGED <<state, request, net>>
  BY DEF StartResync
<1>2. s[2] \in Nodes /\ s[2] # n
  BY DEF IInv, Attributes, MissedByNode
<1>3. Alive(n) /\ state[n] = "LISTENING"
  BY <1>1 DEF Alive, IInv, ResyncByNode
<1>4. SocketsOK(net) /\ \A k \in Nodes : Carries(net, net, k)
  BY DEF IInv, Carries
<1>5. \A k \in Nodes \ {n} : pc'[k] = pc[k]
  BY <1>1 DEF IInv, Attributes
<1>6. CASE /\ state' = [state EXCEPT ![n] = "RESYNCING"]
           /\ request' = [request EXCEPT ![n] = [block_index |-> -1, peer |-> s[2]]]
           /\ net' = Send(net, n, s[2], ResyncRequest(-1))
  <2>1. Underway(net, n) = {}
    BY <1>3 DEF Conversations, Waits, Pending
  <2>2. /\ state'[n] = "RESYNCING" /\ request'[n].peer = s[2]
        /\ \A k \in Nodes \ {n} : state'[k] = state[k] /\ request'[k] = request[k]
    BY <1>6 DEF IInv, Attributes
  <2>3. net' \in TrySend(net, n, s[2], ResyncRequest(-1)) /\ -1 \in Int /\ -1 < 0
    BY <1>6 DEF TrySend
  <2> QED
    BY <1>2, <1>3, <1>4, <1>5, <2>1, <2>2, <2>3, AskStep
<1>7. CASE UNCHANGED <<state, request, net>>
  BY <1>3, <1>4, <1>5, <1>7, QuietStep
<1> QED
  BY <1>1, <1>6, <1>7

LEMMA HandleNoBlockWaits ==
    ASSUME IInv, Conversations, NEW n \in Nodes, NEW m \in Nodes, HandleNoBlock(n, m)
    PROVE  Conversations'
<1>1. Reads(n, m, "ResyncResponse") /\ state[n] = "RESYNCING" /\ ControlNumberOfPeers(n)
  BY DEF HandleNoBlock, ReadsResponse
<1> DEFINE left == Received(n, m)
<1>2. /\ Alive(n) /\ SocketsOK(left) /\ Underway(left, n) = {}
      /\ \A k \in Nodes \ {n} : Carries(net, left, k)
  BY <1>1, ResponseRead
<1>3. \A k \in Nodes \ {n} : pc'[k] = pc[k]
  BY <1>1, PassEnds DEF IInv
<1>4. CASE \E s \in missed_blocks[n] :
             /\ request' = [request EXCEPT ![n] = [block_index |-> -1, peer |-> s[2]]]
             /\ net' \in TrySend(left, n, s[2], ResyncRequest(-1))
             /\ UNCHANGED state
  <2>1. PICK s \in missed_blocks[n] :
             /\ request' = [request EXCEPT ![n] = [block_index |-> -1, peer |-> s[2]]]
             /\ net' \in TrySend(left, n, s[2], ResyncRequest(-1))
             /\ UNCHANGED state
    BY <1>4
  <2>2. s[2] \in Nodes /\ s[2] # n
    BY DEF IInv, Attributes, MissedByNode
  <2>3. /\ state'[n] = "RESYNCING" /\ request'[n].peer = s[2]
        /\ \A k \in Nodes \ {n} : state'[k] = state[k] /\ request'[k] = request[k]
    BY <1>1, <2>1 DEF IInv, Attributes
  <2>4. -1 \in Int /\ -1 < 0
    OBVIOUS
  <2> HIDE DEF left
  <2> QED
    BY <1>2, <1>3, <2>1, <2>2, <2>3, <2>4, AskStep
<1>5. CASE /\ state' = [state EXCEPT ![n] = "LISTENING"]
           /\ net' = left
           /\ UNCHANGED request
  <2>1. /\ state'[n] = "LISTENING"
        /\ \A k \in Nodes \ {n} : state'[k] = state[k] /\ request'[k] = request[k]
    BY <1>5 DEF IInv, Attributes
  <2> HIDE DEF left
  <2> QED
    BY <1>2, <1>3, <1>5, <2>1, EndStep
<1> QED
  BY <1>4, <1>5 DEF HandleNoBlock

LEMMA HandleMergedWaits ==
    ASSUME IInv, Conversations, NEW n \in Nodes, NEW m \in Nodes, HandleMerged(n, m)
    PROVE  Conversations'
<1>1. /\ Reads(n, m, "ResyncResponse") /\ ControlNumberOfPeers(n)
      /\ state' = [state EXCEPT ![n] = "LISTENING"] /\ net' = Received(n, m)
      /\ UNCHANGED request
  BY DEF HandleMerged, ReadsResponse
<1>2. /\ Alive(n) /\ Underway(net', n) = {}
      /\ \A k \in Nodes \ {n} : Carries(net, net', k)
  BY <1>1, ResponseRead
<1>3. \A k \in Nodes \ {n} : pc'[k] = pc[k]
  BY <1>1, PassEnds DEF IInv
<1>4. state'[n] = "LISTENING" /\ \A k \in Nodes \ {n} : state'[k] = state[k]
  BY <1>1 DEF IInv, Attributes
<1> QED
  BY <1>1, <1>2, <1>3, <1>4, EndStep

LEMMA HandleUnmergedWaits ==
    ASSUME IInv, Conversations, NEW n \in Nodes, NEW m \in Nodes, HandleUnmerged(n, m)
    PROVE  Conversations'
<1> DEFINE i    == request[n].block_index - 1
           peer == request[n].peer
           left == Received(n, m)
<1>1. /\ Reads(n, m, "ResyncResponse") /\ state[n] = "RESYNCING" /\ ControlNumberOfPeers(n)
      /\ request' = [request EXCEPT ![n].block_index = @ - 1]
      /\ net' \in TrySend(left, n, peer, ResyncRequest(i)) /\ UNCHANGED state
  BY DEF HandleUnmerged, ReadsResponse
<1>2. /\ Alive(n) /\ SocketsOK(left) /\ Underway(left, n) = {}
      /\ \A k \in Nodes \ {n} : Carries(net, left, k)
  BY <1>1, ResponseRead
<1>3. \A k \in Nodes \ {n} : pc'[k] = pc[k]
  BY <1>1, PassEnds DEF IInv
<1>4. /\ peer \in Nodes /\ peer # n /\ i \in Int /\ i < 0
      /\ request'[n].peer = peer /\ \A k \in Nodes \ {n} : request'[k] = request[k]
  BY <1>1 DEF IInv, Attributes, ResyncByNode
<1>5. state'[n] = "RESYNCING" /\ \A k \in Nodes \ {n} : state'[k] = state[k]
  BY <1>1
<1> HIDE DEF i, peer, left
<1> QED
  BY <1>1, <1>2, <1>3, <1>4, <1>5, AskStep

LEMMA NextWaits == IInv /\ Conversations /\ [Next]_vars => Conversations'
<1> SUFFICES ASSUME IInv, Conversations, [Next]_vars PROVE Conversations'
    OBVIOUS
<1>1. CASE UNCHANGED vars
  BY <1>1
  DEF vars, resyncVars, Conversations, Waits, Pending, Unreachable, Forgettable, Alive
<1>2. ASSUME NEW n \in Nodes, NEW m \in Nodes, Handle(n, m) PROVE Conversations'
  BY <1>2, HandleNewBlockWaits, IgnoreMessageWaits, HandleResyncRequestWaits,
     HandleNoBlockWaits, HandleMergedWaits, HandleUnmergedWaits
  DEF Handle
<1> QED
  BY <1>1, <1>2, OwnStepsWait, GenerateBlockWaits, StartResyncWaits DEF Next

LEMMA InitWaits == Init => Conversations
<1> SUFFICES ASSUME Init, NEW n \in Nodes PROVE Waits(n)
    BY DEF Conversations
<1>1. Pending(n) = {}
  BY DEF Init, Pending, Underway
<1> QED
  BY <1>1 DEF Init, Waits, AtMostOne

-----------------------------------------------------------------------------
\* The attributes of the nodes and the messages between them keep their types.
THEOREM TypeCorrect == Spec => []TypeOK
<1>1. ASSUME IInv, NEW n \in Nodes, NEW r \in localChains[n]
      PROVE  IsBlock(r.block) /\ r.confirmed \in BOOLEAN /\ r.numSuc \in Nat
  <2>1. r \in Rows
    BY <1>1 DEF IInv, Attributes
  <2> QED
    BY <2>1, BlocksAssumption DEF Rows, IsBlock, GenesisBlock
<1>2. ASSUME IInv, NEW n \in Nodes, NEW s \in missed_blocks[n]
      PROVE  IsBlock(s[1]) /\ s[2] \in Nodes \ {n}
  <2>1. s \in Blocks \X Nodes /\ s[2] # n
    BY <1>2 DEF IInv, Attributes, MissedByNode
  <2> QED
    BY <2>1, BlocksAssumption
<1>3. ASSUME IInv, NEW n \in Nodes, NEW k \in DOMAIN received_resync_blocks[n]
      PROVE  IsBlock(received_resync_blocks[n][k])
  <2>1. received_resync_blocks[n] \in Seq(Blocks)
    BY <1>3 DEF IInv, Attributes
  <2>2. received_resync_blocks[n][k] \in Blocks
    BY <1>3, <2>1
  <2> QED
    BY <2>2, BlocksAssumption
<1>4. ASSUME IInv, NEW ch \in Nodes \X Nodes, NEW k \in DOMAIN net[ch]
      PROVE  net[ch][k].type \in {"BlockBroadcast", "ResyncRequest", "ResyncResponse"}
  <2>1. net[ch] \in Seq(Messages)
    BY <1>4 DEF IInv, SocketsOK
  <2>2. net[ch][k] \in Messages
    BY <1>4, <2>1
  <2> QED
    BY <2>2, MessageKinds
<1>5. ASSUME IInv, NEW n \in Nodes
      PROVE  /\ current_round[n] \in StartRound .. MaxRound
             /\ fork_detected[n] \in BOOLEAN
             /\ node_on_consensus[n] \in BOOLEAN
             /\ state[n] \in {"LISTENING", "RESYNCING"}
             /\ request[n].block_index \in Int /\ request[n].peer \in Nodes
             /\ pc[n] \in {"resync", "loop", "generate", "read", "blocked", "dead"}
  BY <1>5 DEF IInv, Attributes
<1>6. IInv => TypeOK
  BY <1>1, <1>2, <1>3, <1>4, <1>5 DEF TypeOK
<1> QED
  BY <1>6, Invariance, PTL

\* In the network, too, the table of every node is one chain, with the confirmed
\* rows below the others and every row supported by those above it: whatever
\* blocks and answers arrive, in whatever order (blockchain.py).
THEOREM ChainsStaySound == Spec => []ChainsSound
<1>1. IInv => ChainsSound
  BY DEF IInv
<1> QED
  BY <1>1, Invariance, PTL

\* No block a node has missed is in its chain (node.py:229-250).
THEOREM MissedStayMissing == Spec => []MissedBlocksAreMissing
<1>1. IInv => MissedBlocksAreMissing
  BY DEF IInv, MissedByNode, MissedBlocksAreMissing
<1> QED
  BY <1>1, Invariance, PTL

\* Nothing of a resync is left for the next one (node.py:360-391).
THEOREM NothingLeftOver == Spec => []ResyncsUntilResolved
<1>1. IInv => ResyncsUntilResolved
  BY DEF IInv, ResyncByNode, ResyncsUntilResolved
<1> QED
  BY <1>1, Invariance, PTL

\* Nobody waits for two messages, or for one of a peer it has not asked; who
\* listens waits for none, and who resyncs waits for one while all peers can be
\* reached (node.py:285-302, 346-404): in a network of any size, with any peers
\* forgotten or halted.
THEOREM OneConversationAtATime == Spec => []OneConversation
<1>1. ASSUME NEW S, AtMostOne(S) PROVE Cardinality(S) <= 1
  <2>1. CASE S = {}
    BY <2>1, FS_EmptySet
  <2>2. CASE S # {}
    <3>1. PICK p : S = {p}
      BY <1>1, <2>2 DEF AtMostOne
    <3>2. Cardinality(S) = 1
      BY <3>1, FS_Singleton
    <3> QED
      BY <3>2
  <2> QED
    BY <2>1, <2>2
<1>2. Conversations => OneConversation
  BY <1>1 DEF Conversations, Waits, OneConversation
<1>3. Spec => []Conversations
  BY InitWaits, NextWaits, Invariance, PTL DEF Spec
<1> QED
  BY <1>2, <1>3, PTL

-----------------------------------------------------------------------------
(* Requests stay within the rounds there have been *)

Elapsed == {i \in Nat : \E k \in Nodes : i <= current_round[k]}

\* A block that was won in a round there has been, of those in E.
Known(b, E) == b.round \in E /\ ValidateBlock(b) > 0

KnownChain(c, E) == \A r \in c : r.block = GenesisBlock \/ Known(r.block, E)

\* A message between two nodes with these requests.  A response tells how high
\* the chain was it comes from: by the index of its block and the places the
\* request has counted from the end.
Fits(msg, ch, req, E) ==
    /\ msg.type = "BlockBroadcast" => Known(msg.block, E)
    /\ msg.type = "ResyncRequest" => msg.block_index = req[ch[1]].block_index
    /\ msg.type = "ResyncResponse" /\ msg.block_received # None =>
          LET b == msg.block_received
          IN  /\ Known(b, E)
              /\ b.index # 0
              /\ b.index - 1 - req[ch[2]].block_index \in E
              /\ b.index = 1 => b.parent = GenesisHash /\ b.round > 0

SocketsFit(channels, req, E) ==
    \A ch \in Nodes \X Nodes : \A k \in 1 .. Len(channels[ch]) :
        Fits(channels[ch][k], ch, req, E)

ReachedByNode(n) ==
    /\ KnownChain(localChains[n], Elapsed)
    /\ \A k \in DOMAIN received_resync_blocks[n] : Known(received_resync_blocks[n][k], Elapsed)
    /\ fork_detected[n] => 1 \in Elapsed
    /\ state[n] = "RESYNCING" => -request[n].block_index \in Elapsed

Reached ==
    /\ \A n \in Nodes : ReachedByNode(n)
    /\ SocketsFit(net, request, Elapsed)

LEMMA ElapsedBelow ==
    ASSUME NEW i \in Elapsed, NEW j \in Nat, j <= i, Attributes
    PROVE  j \in Elapsed
<1>1. PICK k \in Nodes : i <= current_round[k]
  BY DEF Elapsed
<1>2. i \in Nat /\ current_round[k] \in Int
  BY DEF Elapsed, Attributes
<1>3. j <= current_round[k]
  BY <1>1, <1>2
<1> QED
  BY <1>3 DEF Elapsed

\* What fitted goes on fitting when a message is read,
LEMMA ReceivedFit ==
    ASSUME SocketsOK(net), NEW n \in Nodes, NEW m \in Nodes, net[<<m, n>>] # << >>,
           NEW req, NEW E, SocketsFit(net, req, E)
    PROVE  /\ SocketsFit(Received(n, m), req, E)
           /\ Fits(Head(net[<<m, n>>]), <<m, n>>, req, E)
<1> DEFINE s == net[<<m, n>>]
<1>1. s \in Seq(Messages) /\ <<m, n>> \in Nodes \X Nodes
  BY DEF SocketsOK
<1>2. /\ Head(s) = s[1] /\ 1 \in 1 .. Len(s)
      /\ Len(Tail(s)) = Len(s) - 1 /\ Len(s) \in Nat
      /\ \A k \in 1 .. Len(Tail(s)) : Tail(s)[k] = s[k + 1] /\ k + 1 \in 1 .. Len(s)
  <2> HIDE DEF s
  <2>1. s # << >>
    BY DEF s
  <2> QED
    BY <1>1, <2>1, HeadTailProperties
<1>3. Received(n, m) = [net EXCEPT ![<<m, n>>] = Tail(s)]
  BY DEF Received
<1>4. ASSUME NEW ch \in Nodes \X Nodes, NEW k \in 1 .. Len(Received(n, m)[ch])
      PROVE  Fits(Received(n, m)[ch][k], ch, req, E)
  <2>1. CASE ch = <<m, n>>
    <3>1. Received(n, m)[ch] = Tail(s)
      BY <1>3, <2>1 DEF SocketsOK
    <3>2. Received(n, m)[ch][k] = s[k + 1] /\ k + 1 \in 1 .. Len(s)
      BY <1>2, <1>4, <3>1
    <3> HIDE DEF Fits
    <3> QED
      BY <2>1, <3>2 DEF SocketsFit
  <2>2. CASE ch # <<m, n>>
    BY <1>3, <1>4, <2>2 DEF SocketsOK, SocketsFit
  <2> QED
    BY <2>1, <2>2
<1>5. Fits(s[1], <<m, n>>, req, E)
  BY <1>1, <1>2 DEF SocketsFit
<1> QED
  BY <1>2, <1>4, <1>5 DEF SocketsFit

\* when one is sent that fits,
LEMMA BroadcastFit ==
    ASSUME NEW sockets, SocketsOK(sockets), NEW n \in Nodes, NEW peers, NEW msg \in Messages,
           NEW req, NEW E, SocketsFit(sockets, req, E),
           \A m \in Nodes \cap peers : Fits(msg, <<n, m>>, req, E)
    PROVE  SocketsFit(Broadcast(sockets, n, peers, msg), req, E)
<1> DEFINE b == Broadcast(sockets, n, peers, msg)
<1> SUFFICES ASSUME NEW ch \in Nodes \X Nodes, NEW k \in 1 .. Len(b[ch])
             PROVE  Fits(b[ch][k], ch, req, E)
  BY DEF SocketsFit
<1>1. b[ch] = IF ch[1] = n /\ ch[2] \in peers THEN Append(sockets[ch], msg) ELSE sockets[ch]
  BY DEF Broadcast
<1>2. sockets[ch] \in Seq(Messages)
  BY DEF SocketsOK
<1> HIDE DEF b
<1>3. \A j \in 1 .. Len(sockets[ch]) : Fits(sockets[ch][j], ch, req, E)
  BY DEF SocketsFit
<1>4. CASE ch[1] = n /\ ch[2] \in peers
  <2>1. ch = <<n, ch[2]>> /\ ch[2] \in Nodes
    BY <1>4
  <2>2. Fits(msg, ch, req, E)
    BY <1>4, <2>1
  <2>3. /\ Len(b[ch]) = Len(sockets[ch]) + 1
        /\ b[ch][Len(sockets[ch]) + 1] = msg
        /\ \A j \in 1 .. Len(sockets[ch]) : b[ch][j] = sockets[ch][j]
    BY <1>1, <1>2, <1>4, AppendProperties
  <2>4. k \in 1 .. Len(sockets[ch]) \/ k = Len(sockets[ch]) + 1
    BY <1>2, <2>3
  <2> QED
    BY <1>3, <2>2, <2>3, <2>4
<1>5. CASE ~(ch[1] = n /\ ch[2] \in peers)
  BY <1>1, <1>3, <1>5
<1> QED
  BY <1>4, <1>5

LEMMA SendFit ==
    ASSUME NEW sockets, SocketsOK(sockets), NEW n \in Nodes, NEW m \in Nodes,
           NEW msg \in Messages, NEW req, NEW E, SocketsFit(sockets, req, E),
           Fits(msg, <<n, m>>, req, E)
    PROVE  SocketsFit(Send(sockets, n, m, msg), req, E)
<1> DEFINE peers == {m}
<1>1. \A j \in Nodes \cap peers : Fits(msg, <<n, j>>, req, E)
  OBVIOUS
<1> HIDE DEF peers
<1>2. SocketsFit(Broadcast(sockets, n, peers, msg), req, E)
  BY <1>1, BroadcastFit
<1> QED
  BY <1>2 DEF Send, peers

\* when rounds elapse,
LEMMA LaterFit ==
    ASSUME NEW channels, NEW req, NEW E, NEW F, E \subseteq F, SocketsFit(channels, req, E)
    PROVE  SocketsFit(channels, req, F)
<1>1. ASSUME NEW msg, NEW ch, Fits(msg, ch, req, E) PROVE Fits(msg, ch, req, F)
  BY <1>1 DEF Fits, Known
<1> QED
  BY <1>1 DEF SocketsFit

\* and when a node that waits for nothing makes its next request.
LEMMA NextRequestFit ==
    ASSUME NEW sockets, SocketsOK(sockets), NEW n \in Nodes, Underway(sockets, n) = {},
           NEW req, NEW new, \A k \in Nodes \ {n} : new[k] = req[k],
           NEW E, SocketsFit(sockets, req, E)
    PROVE  SocketsFit(sockets, new, E)
<1> SUFFICES ASSUME NEW ch \in Nodes \X Nodes, NEW k \in 1 .. Len(sockets[ch])
             PROVE  Fits(sockets[ch][k], ch, new, E)
  BY DEF SocketsFit
<1>1. ~Concerns(sockets[ch][k], ch, n)
  <2>1. k \in Nat
    OBVIOUS
  <2> QED
    BY <2>1, UnderwayPlaces
<1>2. Fits(sockets[ch][k], ch, req, E)
  BY DEF SocketsFit
<1>3. ch[1] \in Nodes /\ ch[2] \in Nodes
  OBVIOUS
<1> QED
  BY <1>1, <1>2, <1>3 DEF Fits, Concerns

\* A step of n in which no round changes.
LEMMA ReachStep ==
    ASSUME Reached, NEW n \in Nodes, UNCHANGED current_round,
           KnownChain(localChains'[n], Elapsed),
           \A k \in DOMAIN received_resync_blocks'[n] :
               Known(received_resync_blocks'[n][k], Elapsed),
           fork_detected'[n] => 1 \in Elapsed,
           state'[n] = "RESYNCING" => -request'[n].block_index \in Elapsed,
           \A k \in Nodes \ {n} :
              /\ localChains'[k] = localChains[k]
              /\ received_resync_blocks'[k] = received_resync_blocks[k]
              /\ fork_detected'[k] = fork_detected[k]
              /\ state'[k] = state[k]
              /\ request'[k] = request[k],
           SocketsFit(net', request', Elapsed)
    PROVE  Reached'
<1>1. Elapsed' = Elapsed
  BY DEF Elapsed
<1>2. ReachedByNode(n)'
  BY <1>1 DEF ReachedByNode, Known, KnownChain
<1>3. ASSUME NEW k \in Nodes \ {n} PROVE ReachedByNode(k)'
  BY <1>1 DEF Reached, ReachedByNode, Known, KnownChain
<1>4. SocketsFit(net, request, Elapsed)'
  BY <1>1 DEF SocketsFit, Fits, Known
<1> QED
  BY <1>2, <1>3, <1>4 DEF Reached

\* A step of n that changes nothing but what is in the sockets.
LEMMA SocketsReach ==
    ASSUME Reached, NEW n \in Nodes, UNCHANGED <<chainVars, resyncVars>>,
           SocketsFit(net', request, Elapsed)
    PROVE  Reached'
<1>1. ReachedByNode(n)
  BY DEF Reached
<1>2. SocketsFit(net', request', Elapsed)
  BY DEF resyncVars
<1> QED
  BY <1>1, <1>2, ReachStep DEF ReachedByNode, chainVars, resyncVars

LEMMA UpdateRoundReach ==
    ASSUME IInv, Reached, NEW n \in Nodes, UpdateRound(n)
    PROVE  Reached'
<1> DEFINE c == localChains[n]
<1>1. PICK round \in current_round[n] + 1 .. MaxRound :
         /\ current_round' = [current_round EXCEPT ![n] = round]
         /\ LET new  == IF TipConfirmed(c) THEN {} ELSE NewlyConfirmed(c, round)
                next == Confirm(c, new)
            IN  /\ localChains' = [localChains EXCEPT ![n] = next]
                /\ fork_detected' = [fork_detected EXCEPT ![n] =
                      @ \/ (~TipConfirmed(c) /\ ForkSuspected(next, round))]
         /\ UNCHANGED <<resyncVars, net>>
  BY DEF UpdateRound
<1> DEFINE new == IF TipConfirmed(c) THEN {} ELSE NewlyConfirmed(c, round)
           next == Confirm(c, new)
<1>2. \A r \in next : \E q \in c : q.block = r.block
  <2>1. SoundChain(c)
    BY DEF IInv, ChainsSound
  <2> HIDE DEF c
  <2> QED
    BY <2>1, NewRoundChain
<1> HIDE DEF next
<1>3. /\ current_round'[n] = round /\ current_round[n] \in Nat /\ round >= current_round[n]
      /\ round \in Nat /\ round >= 1
      /\ \A k \in Nodes \ {n} : current_round'[k] = current_round[k]
  BY <1>1, RoundsAssumption DEF IInv, Attributes
<1>4. /\ localChains'[n] = next
      /\ \A k \in Nodes \ {n} : localChains'[k] = localChains[k]
                                /\ fork_detected'[k] = fork_detected[k]
  BY <1>1 DEF IInv, Attributes, next
<1>5. Elapsed \subseteq Elapsed' /\ 1 \in Elapsed'
  <2>1. ASSUME NEW i \in Nat, NEW k \in Nodes, i <= current_round[k]
        PROVE  i <= current_round'[k]
    <3>1. CASE k = n
      BY <1>3, <2>1, <3>1
    <3>2. CASE k # n
      BY <1>3, <2>1, <3>2
    <3> QED
      BY <3>1, <3>2
  <2>2. 1 <= current_round'[n]
    BY <1>3
  <2> QED
    BY <2>1, <2>2 DEF Elapsed
<1>6. \A b : Known(b, Elapsed) => Known(b, Elapsed')
  BY <1>5 DEF Known
<1>7. ASSUME NEW k \in Nodes PROVE ReachedByNode(k)'
  <2>1. ReachedByNode(k)
    BY DEF Reached
  <2>2. KnownChain(localChains'[k], Elapsed')
    <3>1. CASE k = n
      BY <1>2, <1>4, <1>6, <2>1, <3>1 DEF KnownChain, ReachedByNode
    <3>2. CASE k # n
      BY <1>4, <1>6, <2>1, <3>2 DEF KnownChain, ReachedByNode
    <3> QED
      BY <3>1, <3>2
  <2> QED
    BY <1>1, <1>5, <1>6, <2>1, <2>2 DEF ReachedByNode, resyncVars
<1>8. SocketsFit(net', request', Elapsed')
  BY <1>1, <1>5, LaterFit DEF Reached, resyncVars
<1> QED
  BY <1>7, <1>8 DEF Reached

\* The chain after insert.
LEMMA InsertKnown ==
    ASSUME NEW c, SoundChain(c), NEW E, KnownChain(c, E), NEW b \in Blocks, Known(b, E)
    PROVE  KnownChain(Insert(c, b).chain, E)
<1>1. PICK k \in Nat : Shape(c, k)
  BY DEF SoundChain, Sound
<1> QED
  BY <1>1, InsertBlocks DEF KnownChain

LEMMA GenerateBlockReach ==
    ASSUME IInv, Reached, NEW n \in Nodes, GenerateBlock(n)
    PROVE  Reached'
<1> DEFINE c == localChains[n]
           b == Candidate(n)
           msg == BlockBroadcast(b)
<1>1. UNCHANGED <<current_round, fork_detected, resyncVars>>
  BY DEF GenerateBlock
<1>2. CASE ValidateBlock(b) > 0 /\ n \notin HidesCreated
  <2>1. PICK forgotten \in SUBSET Forgettable(n) :
           /\ localChains' = [localChains EXCEPT ![n] = Insert(c, b).chain]
           /\ net' = Broadcast(net, n, Nodes \ ({n} \cup forgotten), msg)
    BY <1>2 DEF GenerateBlock
  <2>2. b \in Blocks
    BY <1>2, CandidateOK
  <2>3. Known(b, Elapsed)
    <3>1. b.round = current_round[n]
      BY DEF Candidate, NewBlock
    <3>2. current_round[n] \in Elapsed
      BY RoundsAssumption DEF IInv, Attributes, Elapsed
    <3> QED
      BY <1>2, <3>1, <3>2 DEF Known
  <2> HIDE DEF b
  <2>4. KnownChain(localChains'[n], Elapsed)
    <3>1. localChains'[n] = Insert(c, b).chain
      BY <2>1 DEF IInv, Attributes
    <3>2. SoundChain(c) /\ KnownChain(c, Elapsed)
      BY DEF IInv, ChainsSound, Reached, ReachedByNode
    <3> HIDE DEF c
    <3> QED
      BY <2>2, <2>3, <3>1, <3>2, InsertKnown
  <2>5. msg \in Messages /\ \A ch : Fits(msg, ch, request, Elapsed)
    BY <2>2, <2>3, MessageTypes DEF Fits, BlockBroadcast
  <2> HIDE DEF msg
  <2>6. SocketsFit(net', request, Elapsed)
    BY <2>1, <2>5, BroadcastFit DEF IInv, Reached
  <2>7. \A k \in Nodes \ {n} : localChains'[k] = localChains[k]
    BY <2>1 DEF IInv, Attributes
  <2>8. ReachedByNode(n)
    BY DEF Reached
  <2> QED
    BY <1>1, <2>4, <2>6, <2>7, <2>8, ReachStep DEF ReachedByNode, resyncVars
<1>3. CASE ~(ValidateBlock(b) > 0 /\ n \notin HidesCreated)
  <2>1. UNCHANGED <<chainVars, resyncVars, net>>
    BY <1>1, <1>3 DEF GenerateBlock, chainVars
  <2> QED
    BY <2>1, SocketsReach DEF Reached
<1> QED
  BY <1>2, <1>3

LEMMA HandleNewBlockReach ==
    ASSUME IInv, Reached, NEW n \in Nodes, NEW m \in Nodes, HandleNewBlock(n, m)
    PROVE  Reached'
<1> DEFINE c == localChains[n]
           b == Head(net[<<m, n>>]).block
           msg == BlockBroadcast(b)
<1>1. /\ net[<<m, n>>] # << >> /\ Head(net[<<m, n>>]).type = "BlockBroadcast"
      /\ UNCHANGED <<current_round, fork_detected, resyncVars>>
  BY DEF HandleNewBlock, Reads
<1>2. SocketsOK(Received(n, m)) /\ Head(net[<<m, n>>]) \in Messages
  BY <1>1, ReceivedOK DEF IInv
<1>3. /\ SocketsFit(Received(n, m), request, Elapsed)
      /\ Fits(Head(net[<<m, n>>]), <<m, n>>, request, Elapsed)
  BY <1>1, ReceivedFit DEF IInv, Reached
<1>4. b \in Blocks /\ Known(b, Elapsed)
  BY <1>1, <1>2, <1>3, MessageKinds DEF Fits
<1>5. CASE ~Welcome(n, b)
  <2>1. net' = Received(n, m) /\ UNCHANGED localChains
    BY <1>5 DEF HandleNewBlock
  <2> QED
    BY <1>1, <1>3, <2>1, SocketsReach DEF chainVars
<1>6. CASE Welcome(n, b)
  <2>1. PICK forgotten \in SUBSET Forgettable(n) :
           /\ localChains' = [localChains EXCEPT ![n] = Insert(c, b).chain]
           /\ net' = Broadcast(Received(n, m), n, Audience(n, m, b.owner) \ forgotten, msg)
    BY <1>6 DEF HandleNewBlock
  <2> HIDE DEF b
  <2>2. KnownChain(localChains'[n], Elapsed)
    <3>1. localChains'[n] = Insert(c, b).chain
      BY <2>1 DEF IInv, Attributes
    <3>2. SoundChain(c) /\ KnownChain(c, Elapsed)
      BY DEF IInv, ChainsSound, Reached, ReachedByNode
    <3> HIDE DEF c
    <3> QED
      BY <1>4, <3>1, <3>2, InsertKnown
  <2>3. msg \in Messages /\ \A ch : Fits(msg, ch, request, Elapsed)
    BY <1>4, MessageTypes DEF Fits, BlockBroadcast
  <2> HIDE DEF msg
  <2>4. SocketsFit(net', request, Elapsed)
    BY <1>2, <1>3, <2>1, <2>3, BroadcastFit
  <2>5. \A k \in Nodes \ {n} : localChains'[k] = localChains[k]
    BY <2>1 DEF IInv, Attributes
  <2>6. ReachedByNode(n)
    BY DEF Reached
  <2> QED
    BY <1>1, <2>2, <2>4, <2>5, <2>6, ReachStep DEF ReachedByNode, resyncVars
<1> QED
  BY <1>5, <1>6

LEMMA IgnoreMessageReach ==
    ASSUME IInv, Reached, NEW n \in Nodes, NEW m \in Nodes, IgnoreMessage(n, m)
    PROVE  Reached'
<1>1. net[<<m, n>>] # << >> /\ net' = Received(n, m) /\ UNCHANGED <<chainVars, resyncVars>>
  BY DEF IgnoreMessage, Reads
<1> QED
  BY <1>1, ReceivedFit, SocketsReach DEF IInv, Reached

\* A block of the chain, counted from its end: below it are the blocks that are
\* left, and the first one stands on the genesis block.
LEMMA AnswerFacts ==
    ASSUME NEW c, SoundChain(c), NEW E, KnownChain(c, E), NEW i \in Int, i < 0,
           NumberOfBlocks(c) > -i, Attributes, E = Elapsed
    PROVE  LET b == BlockByIndex(c, i)
           IN  /\ b \in Blocks /\ Known(b, E)
               /\ b.index # 0
               /\ b.index - 1 - i \in E
               /\ b.index = 1 => b.parent = GenesisHash /\ b.round > 0
<1>1. PICK h \in Nat : Shape(c, h)
  BY DEF SoundChain, Sound
<1>2. NumberOfBlocks(c) = h + 1 /\ h + 1 + i \in 1 .. h
  <2>1. NumberOfBlocks(c) = h + 1
    BY <1>1, ShapeCount
  <2> QED
    BY <2>1
<1> DEFINE k == h + 1 + i
           r == RowAt(c, k)
           b == BlockByIndex(c, i)
<1>3. k \in 0 .. h /\ k \in 1 .. h
  BY <1>2
<1>4. b = ComposeBlock(r) /\ b \in Blocks
  <2>1. b \in Blocks
    BY <1>1, AnsweredBlock
  <2> QED
    BY <1>2, <2>1 DEF BlockByIndex
<1>5. r \in c /\ r.block.index = k
  <2> HIDE DEF k
  <2> QED
    BY <1>1, <1>3, RowAtOK
<1>6. r.block # GenesisBlock
  BY <1>3, <1>5 DEF GenesisBlock
<1>7. r.block \in Blocks /\ Known(r.block, E)
  BY <1>1, <1>5, <1>6 DEF Shape, Rows, KnownChain
<1>8. /\ b.index = k /\ b.round = r.block.round /\ b.parent = r.block.parent
      /\ b.ticket = r.block.ticket /\ Winning(b) = Winning(r.block)
  <2>1. b = [r.block EXCEPT !.tx = NoTx]
    BY <1>4 DEF ComposeBlock
  <2> HIDE DEF b, r
  <2>2. Winning(b) = Winning(r.block)
    BY <1>7, <2>1, SortitionAssumption
  <2> QED
    BY <1>5, <2>1, <2>2
<1>9. Known(b, E)
  BY <1>7, <1>8 DEF Known, ValidateBlock
<1>10. h \in E
  <2>1. h \in 0 .. h /\ h # 0
    BY <1>2
  <2> DEFINE t == RowAt(c, h)
  <2>2. t \in c /\ t.block.index = h
    BY <1>1, <2>1, RowAtOK
  <2>3. t.block # GenesisBlock
    BY <2>1, <2>2 DEF GenesisBlock
  <2>4. t.block.round \in Elapsed /\ h <= t.block.round
    BY <1>1, <2>2, <2>3, IndexWithinRound DEF KnownChain, Known
  <2> HIDE DEF t
  <2> QED
    BY <2>4, ElapsedBelow
<1>11. ASSUME k = 1 PROVE b.parent = GenesisHash /\ b.round > 0
  <2>1. PICK p \in c : /\ p.block.index = r.block.index - 1
                       /\ r.block.parent = Hash(p.block)
                       /\ p.block.round < r.block.round
    BY <1>1, <1>5, <1>6 DEF Shape, Linked
  <2>2. p.block.index = 0
    BY <1>5, <1>11, <2>1
  <2>3. p.block.round \in Nat /\ r.block.round \in Nat
    BY <1>1, <1>5, <2>1, RowTypes DEF Shape
  <2>4. r.block.round > 0
    BY <2>1, <2>3
  <2>5. r.block.parent = GenesisHash
    BY <2>1, <2>2 DEF Hash
  <2> HIDE DEF b, r
  <2> QED
    BY <1>8, <2>4, <2>5
<1>12. b.index - 1 - i \in E
  <2>1. k - 1 - i = h
    BY <1>2
  <2> QED
    BY <1>8, <1>10, <2>1
<1>13. b.index # 0
  BY <1>3, <1>8
<1> QED
  BY <1>4, <1>8, <1>9, <1>11, <1>12, <1>13

LEMMA HandleResyncRequestReach ==
    ASSUME IInv, Reached, NEW n \in Nodes, NEW m \in Nodes, HandleResyncRequest(n, m)
    PROVE  Reached'
<1> DEFINE c == localChains[n]
           i == Head(net[<<m, n>>]).block_index
           msg == Answer(n, i)
<1>1. /\ net[<<m, n>>] # << >> /\ Head(net[<<m, n>>]).type = "ResyncRequest"
      /\ net' = Send(Received(n, m), n, m, msg)
      /\ UNCHANGED <<chainVars, resyncVars>>
  BY DEF HandleResyncRequest, Reads
<1>2. SocketsOK(Received(n, m)) /\ Head(net[<<m, n>>]) \in Messages
  BY <1>1, ReceivedOK DEF IInv
<1>3. /\ SocketsFit(Received(n, m), request, Elapsed)
      /\ Fits(Head(net[<<m, n>>]), <<m, n>>, request, Elapsed)
  BY <1>1, ReceivedFit DEF IInv, Reached
<1>4. i = request[m].block_index /\ i \in Int /\ i < 0
  BY <1>1, <1>2, <1>3, MessageKinds DEF Fits
<1>5. msg \in Messages
  BY AnswerOK
<1>6. msg.type = "ResyncResponse"
      /\ msg.block_received = IF NumberOfBlocks(c) > -i THEN BlockByIndex(c, i) ELSE None
  BY DEF Answer, ResyncResponse
<1> HIDE DEF i, msg
<1>7. Fits(msg, <<n, m>>, request, Elapsed)
  <2>1. CASE NumberOfBlocks(c) > -i
    <3>1. SoundChain(c) /\ KnownChain(c, Elapsed) /\ Attributes
      BY DEF IInv, ChainsSound, Reached, ReachedByNode
    <3> HIDE DEF c
    <3> DEFINE b == BlockByIndex(c, i)
    <3>2. /\ Known(b, Elapsed) /\ b.index # 0
          /\ b.index - 1 - i \in Elapsed
          /\ b.index = 1 => b.parent = GenesisHash /\ b.round > 0
      BY <1>4, <2>1, <3>1, AnswerFacts
    <3> HIDE DEF b
    <3> QED
      BY <1>4, <1>6, <2>1, <3>2 DEF Fits, b
  <2>2. CASE ~(NumberOfBlocks(c) > -i)
    BY <1>6, <2>2 DEF Fits
  <2> QED
    BY <2>1, <2>2
<1>8. SocketsFit(net', request, Elapsed)
  BY <1>1, <1>2, <1>3, <1>5, <1>7, SendFit
<1> QED
  BY <1>1, <1>8, SocketsReach

\* n asks a peer for the block it counts to next.
LEMMA AskReach ==
    ASSUME IInv, Reached, NEW n \in Nodes, NEW left, SocketsOK(left), Underway(left, n) = {},
           SocketsFit(left, request, Elapsed), NEW peer \in Nodes, NEW i \in Int, i < 0,
           net' \in TrySend(left, n, peer, ResyncRequest(i)),
           request'[n].block_index = i,
           \A k \in Nodes \ {n} : request'[k] = request[k]
    PROVE  SocketsFit(net', request', Elapsed)
<1> DEFINE msg == ResyncRequest(i)
<1>1. msg \in Messages /\ msg.type = "ResyncRequest" /\ msg.block_index = i
  BY MessageTypes DEF ResyncRequest
<1> HIDE DEF msg
<1>2. SocketsFit(left, request', Elapsed)
  BY NextRequestFit
<1>3. Fits(msg, <<n, peer>>, request', Elapsed)
  BY <1>1 DEF Fits
<1>4. SocketsFit(Send(left, n, peer, msg), request', Elapsed)
  BY <1>1, <1>2, <1>3, SendFit
<1> QED
  BY <1>2, <1>4 DEF TrySend, msg

LEMMA StartResyncReach ==
    ASSUME IInv, Conversations, Reached, NEW n \in Nodes, StartResync(n)
    PROVE  Reached'
<1>1. PICK s \in missed_blocks[n] :
         /\ pc[n] = "resync"
         /\ \/ /\ state' = [state EXCEPT ![n] = "RESYNCING"]
               /\ request' = [request EXCEPT ![n] = [block_index |-> -1, peer |-> s[2]]]
               /\ net' = Send(net, n, s[2], ResyncRequest(-1))
            \/ UNCHANGED <<state, request, net>>
         /\ UNCHANGED <<chainVars, node_on_consensus, received_resync_blocks>>
  BY DEF StartResync
<1>2. s[2] \in Nodes
  BY DEF IInv, Attributes
<1>3. ReachedByNode(n) /\ fork_detected[n]
  BY <1>1 DEF Reached, IInv, ResyncByNode
<1>4. CASE /\ state' = [state EXCEPT ![n] = "RESYNCING"]
           /\ request' = [request EXCEPT ![n] = [block_index |-> -1, peer |-> s[2]]]
           /\ net' = Send(net, n, s[2], ResyncRequest(-1))
  <2>1. Underway(net, n) = {}
    <3>1. Alive(n) /\ state[n] = "LISTENING"
      BY <1>1 DEF Alive, IInv, ResyncByNode
    <3> QED
      BY <3>1 DEF Conversations, Waits, Pending
  <2>2. /\ request'[n].block_index = -1
        /\ \A k \in Nodes \ {n} : request'[k] = request[k] /\ state'[k] = state[k]
    BY <1>4 DEF IInv, Attributes
  <2>3. net' \in TrySend(net, n, s[2], ResyncRequest(-1)) /\ -1 \in Int /\ -1 < 0
    BY <1>4 DEF TrySend
  <2>4. SocketsFit(net', request', Elapsed)
    BY <1>2, <2>1, <2>2, <2>3, AskReach DEF IInv, Reached
  <2>5. -request'[n].block_index \in Elapsed
    <3>1. request'[n].block_index \in Int /\ request'[n].block_index + 1 = 0
      BY <2>2
    <3>2. -request'[n].block_index = 1
      BY <3>1
    <3> QED
      BY <1>3, <3>2 DEF ReachedByNode
  <2> QED
    BY <1>1, <1>3, <2>2, <2>4, <2>5, ReachStep DEF ReachedByNode, chainVars
<1>5. CASE UNCHANGED <<state, request, net>>
  BY <1>1, <1>5, SocketsReach DEF Reached, chainVars, resyncVars
<1> QED
  BY <1>1, <1>4, <1>5

LEMMA HandleNoBlockReach ==
    ASSUME IInv, Conversations, Reached, NEW n \in Nodes, NEW m \in Nodes, HandleNoBlock(n, m)
    PROVE  Reached'
<1> DEFINE left == Received(n, m)
<1>1. /\ Reads(n, m, "ResyncResponse") /\ net[<<m, n>>] # << >> /\ state[n] = "RESYNCING"
      /\ received_resync_blocks' = [received_resync_blocks EXCEPT ![n] = << >>]
      /\ UNCHANGED <<localChains, current_round>>
  BY DEF HandleNoBlock, ReadsResponse, Reads
<1>2. SocketsOK(left) /\ Underway(left, n) = {}
  BY <1>1, ResponseRead
<1>3. SocketsFit(left, request, Elapsed)
  BY <1>1, ReceivedFit DEF IInv, Reached
<1>4. ReachedByNode(n) /\ 1 \in Elapsed
  BY <1>1 DEF Reached, ReachedByNode, IInv, ResyncByNode
<1> HIDE DEF left
<1>5. /\ DOMAIN received_resync_blocks'[n] = {}
      /\ \A k \in Nodes \ {n} : received_resync_blocks'[k] = received_resync_blocks[k]
  BY <1>1 DEF IInv, Attributes
<1>6. CASE \E s \in missed_blocks[n] :
              /\ request' = [request EXCEPT ![n] = [block_index |-> -1, peer |-> s[2]]]
              /\ net' \in TrySend(Received(n, m), n, s[2], ResyncRequest(-1))
              /\ UNCHANGED <<state, fork_detected>>
  <2>1. PICK s \in missed_blocks[n] :
           /\ request' = [request EXCEPT ![n] = [block_index |-> -1, peer |-> s[2]]]
           /\ net' \in TrySend(left, n, s[2], ResyncRequest(-1))
           /\ UNCHANGED <<state, fork_detected>>
    BY <1>6 DEF left
  <2>2. /\ request'[n].block_index = -1 /\ s[2] \in Nodes /\ -1 \in Int /\ -1 < 0
        /\ \A k \in Nodes \ {n} : request'[k] = request[k]
    BY <2>1 DEF IInv, Attributes
  <2>3. SocketsFit(net', request', Elapsed)
    BY <1>2, <1>3, <2>1, <2>2, AskReach
  <2>4. -request'[n].block_index \in Elapsed
    <3>1. request'[n].block_index \in Int /\ request'[n].block_index + 1 = 0
      BY <2>2
    <3>2. -request'[n].block_index = 1
      BY <3>1
    <3> QED
      BY <1>4, <3>2
  <2> QED
    BY <1>1, <1>4, <1>5, <2>1, <2>2, <2>3, <2>4, ReachStep DEF ReachedByNode
<1>7. CASE /\ state' = [state EXCEPT ![n] = "LISTENING"]
           /\ fork_detected' = [fork_detected EXCEPT ![n] = FALSE]
           /\ net' = Received(n, m)
           /\ UNCHANGED request
  <2>1. /\ state'[n] = "LISTENING" /\ fork_detected'[n] = FALSE
        /\ \A k \in Nodes \ {n} : state'[k] = state[k] /\ fork_detected'[k] = fork_detected[k]
    BY <1>7 DEF IInv, Attributes
  <2> QED
    BY <1>1, <1>3, <1>4, <1>5, <1>7, <2>1, ReachStep DEF ReachedByNode, left
<1> QED
  BY <1>6, <1>7 DEF HandleNoBlock

\* The blocks a response makes complete are known, and it stands first.
LEMMA ForeignKnown ==
    ASSUME IInv, Reached, NEW n \in Nodes, NEW m \in Nodes, ReadsResponse(n, m),
           Response(n, m) # None
    PROVE  LET f == Foreign(n, m)
               b == Response(n, m)
           IN  /\ \A k \in DOMAIN f : Known(f[k], Elapsed)
               /\ f[1] = b /\ b \in Blocks /\ Known(b, Elapsed) /\ b.index # 0
               /\ b.index - 1 - request[n].block_index \in Elapsed
               /\ b.index = 1 => b.parent = GenesisHash /\ b.round > 0
<1> DEFINE f == Foreign(n, m)
           b == Response(n, m)
           old == received_resync_blocks[n]
<1>1. net[<<m, n>>] # << >> /\ Head(net[<<m, n>>]).type = "ResyncResponse"
  BY DEF ReadsResponse, Reads
<1>2. /\ Head(net[<<m, n>>]) \in Messages
      /\ Fits(Head(net[<<m, n>>]), <<m, n>>, request, Elapsed)
  BY <1>1, ReceivedOK, ReceivedFit DEF IInv, Reached
<1>3. b \in Blocks
  BY <1>1, <1>2, MessageKinds DEF Response
<1>4. /\ Known(b, Elapsed) /\ b.index # 0
      /\ b.index - 1 - request[n].block_index \in Elapsed
      /\ b.index = 1 => b.parent = GenesisHash /\ b.round > 0
  BY <1>1, <1>2 DEF Fits, Response
<1>5. old \in Seq(Blocks) /\ \A k \in 1 .. Len(old) : Known(old[k], Elapsed)
  <2>1. old \in Seq(Blocks)
    BY DEF IInv, Attributes
  <2>2. \A k \in DOMAIN old : Known(old[k], Elapsed)
    BY DEF Reached, ReachedByNode
  <2> HIDE DEF old
  <2> QED
    BY <2>1, <2>2
<1>6. f = <<b>> \o old
  BY DEF Foreign
<1> HIDE DEF b, old, f
<1>7. /\ f \in Seq(Blocks) /\ Len(f) = 1 + Len(old) /\ f[1] = b
      /\ \A k \in 2 .. Len(f) : f[k] = old[k - 1]
  BY <1>3, <1>5, <1>6
<1>8. ASSUME NEW k \in DOMAIN f PROVE Known(f[k], Elapsed)
  <2>1. k = 1 \/ (k \in 2 .. Len(f) /\ k - 1 \in 1 .. Len(old))
    BY <1>5, <1>7
  <2> QED
    BY <1>4, <1>5, <1>7, <2>1
<1> QED
  BY <1>3, <1>4, <1>7, <1>8 DEF f, b

LEMMA HandleMergedReach ==
    ASSUME IInv, Reached, NEW n \in Nodes, NEW m \in Nodes, HandleMerged(n, m)
    PROVE  Reached'
<1> DEFINE c == localChains[n]
           f == Foreign(n, m)
<1>1. /\ ReadsResponse(n, m) /\ Response(n, m) # None /\ net[<<m, n>>] # << >>
      /\ Merge(c, f).ok
      /\ localChains' = [localChains EXCEPT ![n] = Merge(c, f).chain]
      /\ state' = [state EXCEPT ![n] = "LISTENING"]
      /\ received_resync_blocks' = [received_resync_blocks EXCEPT ![n] = << >>]
      /\ fork_detected' = [fork_detected EXCEPT ![n] = FALSE]
      /\ net' = Received(n, m)
      /\ UNCHANGED <<current_round, request>>
  BY DEF HandleMerged, ReadsResponse, Reads
<1>2. f \in Seq(Blocks) /\ f # << >> /\ \A k \in DOMAIN f : Known(f[k], Elapsed)
  BY <1>1, ForeignOK, ForeignKnown
<1>3. SoundChain(c) /\ KnownChain(c, Elapsed)
  BY DEF IInv, ChainsSound, Reached, ReachedByNode
<1>4. localChains'[n] = Merge(c, f).chain
  BY <1>1 DEF IInv, Attributes
<1>5. SocketsFit(net', request', Elapsed)
  BY <1>1, ReceivedFit DEF IInv, Reached
<1>6. /\ state'[n] = "LISTENING" /\ fork_detected'[n] = FALSE
      /\ DOMAIN received_resync_blocks'[n] = {}
      /\ \A k \in Nodes \ {n} :
            /\ localChains'[k] = localChains[k] /\ state'[k] = state[k]
            /\ received_resync_blocks'[k] = received_resync_blocks[k]
            /\ fork_detected'[k] = fork_detected[k]
  BY <1>1 DEF IInv, Attributes
<1> HIDE DEF c, f
<1>7. KnownChain(localChains'[n], Elapsed)
  <2>1. PICK k \in Nat : Sound(c, k)
    BY <1>3 DEF SoundChain
  <2>2. PICK h \in Nat : Open(Merge(c, f).chain, h)
    BY <1>1, <1>2, <2>1, MergeSound
  <2>3. Shape(c, k) /\ Shape(Merge(c, f).chain, h)
    BY <2>1, <2>2 DEF Open, Sound
  <2>4. ASSUME NEW r \in Merge(c, f).chain
        PROVE  \/ r.block = GenesisBlock
               \/ \E q \in c : q.block = r.block
               \/ \E j \in DOMAIN f : r.block = f[j]
    BY <1>1, <1>2, <2>3, MergeBlocks
  <2> QED
    BY <1>2, <1>3, <1>4, <2>4 DEF KnownChain
<1> QED
  BY <1>1, <1>5, <1>6, <1>7, ReachStep

\* The block that was refused is not the first above the genesis block: there is
\* another one below it to ask for.
LEMMA HandleUnmergedReach ==
    ASSUME IInv, Conversations, Reached, NEW n \in Nodes, NEW m \in Nodes, HandleUnmerged(n, m)
    PROVE  Reached'
<1> DEFINE c == localChains[n]
           f == Foreign(n, m)
           b == Response(n, m)
           i == request[n].block_index
           left == Received(n, m)
<1>1. /\ ReadsResponse(n, m) /\ Response(n, m) # None
      /\ Reads(n, m, "ResyncResponse") /\ net[<<m, n>>] # << >>
      /\ ~Merge(c, f).ok
      /\ localChains' = [localChains EXCEPT ![n] = Merge(c, f).chain]
      /\ received_resync_blocks' = [received_resync_blocks EXCEPT ![n] = MergeRest(c, f)]
      /\ request' = [request EXCEPT ![n].block_index = @ - 1]
      /\ net' \in TrySend(left, n, request[n].peer, ResyncRequest(i - 1))
      /\ UNCHANGED <<current_round, fork_detected, state>>
  BY DEF HandleUnmerged, ReadsResponse, Reads
<1>2. /\ f \in Seq(Blocks) /\ f # << >> /\ \A k \in DOMAIN f : Known(f[k], Elapsed)
      /\ f[1] = b /\ b \in Blocks /\ Known(b, Elapsed) /\ b.index # 0
      /\ b.index - 1 - i \in Elapsed
      /\ b.index = 1 => b.parent = GenesisHash /\ b.round > 0
  BY <1>1, ForeignOK, ForeignKnown
<1>3. PICK h \in Nat : Sound(c, h)
  BY DEF IInv, ChainsSound, SoundChain
<1>4. KnownChain(c, Elapsed) /\ ReachedByNode(n)
  BY DEF Reached, ReachedByNode
<1>5. SocketsOK(left) /\ Underway(left, n) = {} /\ SocketsFit(left, request, Elapsed)
  BY <1>1, ResponseRead, ReceivedFit DEF IInv, Reached
<1>6. /\ i \in Int /\ i <= 0 /\ i - 1 \in Int /\ i - 1 < 0 /\ request[n].peer \in Nodes
      /\ request'[n].block_index = i - 1
      /\ localChains'[n] = Merge(c, f).chain
      /\ received_resync_blocks'[n] = MergeRest(c, f)
      /\ \A k \in Nodes \ {n} :
            /\ localChains'[k] = localChains[k] /\ request'[k] = request[k]
            /\ received_resync_blocks'[k] = received_resync_blocks[k]
  BY <1>1 DEF IInv, Attributes
<1>7. Attributes
  BY DEF IInv
<1> HIDE DEF c, f, b, i, left
<1>8. -(i - 1) \in Elapsed
  <2>1. b.index \in Nat
    BY <1>2, BlocksAssumption DEF IsBlock
  <2>2. b.index # 1
    <3> SUFFICES ASSUME b.index = 1 PROVE FALSE
      OBVIOUS
    <3>1. ValidateBlock(f[1]) > 0
      BY <1>2 DEF Known
    <3>2. Merge(c, f).ok
      BY <1>2, <1>3, <3>1, MergeAtGenesis
    <3> QED
      BY <1>1, <3>2
  <2>3. -(i - 1) \in Nat /\ -(i - 1) <= b.index - 1 - i
    BY <1>2, <1>6, <2>1, <2>2
  <2> QED
    BY <1>2, <1>7, <2>3, ElapsedBelow
<1>9. SocketsFit(net', request', Elapsed)
  BY <1>1, <1>5, <1>6, AskReach
<1>10. KnownChain(localChains'[n], Elapsed)
  <2>1. Shape(c, h)
    BY <1>3 DEF Sound
  <2>2. ASSUME NEW r \in Merge(c, f).chain PROVE \E q \in c : q.block = r.block
    BY <1>1, <1>2, <2>1, MergeRefusedBlocks
  <2> QED
    BY <1>4, <1>6, <2>2 DEF KnownChain
<1>11. ASSUME NEW k \in DOMAIN MergeRest(c, f) PROVE Known(MergeRest(c, f)[k], Elapsed)
  <2>1. /\ Tail(f) \in Seq(Blocks) /\ Len(Tail(f)) = Len(f) - 1
        /\ \A j \in 1 .. Len(Tail(f)) : Tail(f)[j] = f[j + 1]
    BY <1>2, HeadTailProperties
  <2>2. CASE MergeRest(c, f) = f
    BY <1>2, <1>11, <2>2
  <2>3. CASE MergeRest(c, f) = Tail(f)
    <3>1. k \in 1 .. Len(Tail(f)) /\ k + 1 \in DOMAIN f
      BY <1>2, <1>11, <2>1, <2>3
    <3> QED
      BY <1>2, <2>1, <2>3, <3>1
  <2> QED
    BY <2>2, <2>3 DEF MergeRest
<1>12. -request'[n].block_index \in Elapsed
  BY <1>6, <1>8
<1> QED
  BY <1>1, <1>4, <1>6, <1>9, <1>10, <1>11, <1>12, ReachStep DEF ReachedByNode

LEMMA NextReach == IInv /\ Conversations /\ Reached /\ [Next]_vars => Reached'
<1> SUFFICES ASSUME IInv, Conversations, Reached, [Next]_vars PROVE Reached'
    OBVIOUS
<1>1. CASE UNCHANGED vars
  BY <1>1
  DEF vars, chainVars, resyncVars, Reached, ReachedByNode, SocketsFit, Fits, KnownChain, Known,
      Elapsed
<1>2. ASSUME NEW n \in Nodes, NotOnConsensus(n) \/ ReadTimeout(n) PROVE Reached'
  BY <1>2, SocketsReach DEF NotOnConsensus, ReadTimeout, Reached
<1>3. ASSUME NEW n \in Nodes, NEW m \in Nodes, Handle(n, m) PROVE Reached'
  BY <1>3, HandleNewBlockReach, IgnoreMessageReach, HandleResyncRequestReach,
     HandleNoBlockReach, HandleMergedReach, HandleUnmergedReach
  DEF Handle
<1> QED
  BY <1>1, <1>2, <1>3, UpdateRoundReach, GenerateBlockReach, StartResyncReach DEF Next

LEMMA InitReach == Init => Reached
<1> SUFFICES ASSUME Init PROVE Reached
    OBVIOUS
<1>1. ASSUME NEW n \in Nodes PROVE ReachedByNode(n)
  <2>1. localChains[n] = {GenesisRow} /\ GenesisRow.block = GenesisBlock
    BY DEF Init, GenesisRow, Row
  <2>2. received_resync_blocks[n] = << >> /\ fork_detected[n] = FALSE /\ state[n] = "LISTENING"
    BY DEF Init
  <2> QED
    BY <2>1, <2>2 DEF ReachedByNode, KnownChain
<1>2. SocketsFit(net, request, Elapsed)
  BY DEF Init, SocketsFit
<1> QED
  BY <1>1, <1>2 DEF Reached

\* A resync makes at most as many requests of one peer, one block further down
\* each, as there have been rounds (node.py:346-355, 378-391):
\* the answer at the first block above the genesis block always ends it, whatever
\* chains the peers have taken over meanwhile.
THEOREM ResyncsAreBounded == Spec => []RequestsInReach
<1>1. Reached => RequestsInReach
  BY DEF Reached, ReachedByNode, RequestsInReach, Elapsed
<1>2. Spec => []Reached
  BY InitWaits, NextWaits, InitReach, NextReach, Invariance, PTL DEF Spec
<1> QED
  BY <1>1, <1>2, PTL

-----------------------------------------------------------------------------
(* Every node follows the fork choice *)

\* What NodesFollowForkChoice says of a step of the network and one node.
Chooses(n) ==
    \/ UNCHANGED <<localChains[n], fork_detected[n]>>
    \/ [Choice(n)!FCNext]_(Choice(n)!fcvars)

LEMMA SameGenesis ==
    ASSUME NEW n, NEW b
    PROVE  Choice(n)!GenesisBlock = GenesisBlock /\ Choice(n)!Hash(b) = Hash(b)
BY DEF Choice!GenesisBlock, GenesisBlock, Choice!Hash, Hash, Choice!GenesisHash, GenesisHash,
       Choice!Proof, Proof

LEMMA NextPath == ASSUME NEW n PROVE Path(localChains[n])' = Path(localChains'[n])
BY DEF Path

LEMMA FollowsIs ==
    ASSUME NEW n, NEW k, NEW b
    PROVE  Choice(n)!Follows(b, k) <=> FollowsOn(Path(localChains[n]), b, k)
BY SameGenesis DEF Choice!Follows, Choice!BlockAt, FollowsOn

LEMMA PutOnIs ==
    ASSUME NEW n, NEW k
    PROVE  Choice(n)!PutOn(k) <=> Topped(Path(localChains[n]), Path(localChains'[n]), k)
BY NextPath, FollowsIs DEF Choice!PutOn, Topped

\* A step that leaves the path and the suspicion, or begins to suspect a fork.
LEMMA PathStays ==
    ASSUME NEW n, Path(localChains'[n]) = Path(localChains[n]),
           fork_detected'[n] = TRUE \/ fork_detected'[n] = fork_detected[n]
    PROVE  Chooses(n)
BY NextPath DEF Chooses, Choice!fcvars, Choice!FCNext, Choice!SuspectFork

LEMMA InsertChooses ==
    ASSUME IInv, NEW n \in Nodes, NEW b \in Blocks,
           localChains'[n] = Insert(localChains[n], b).chain,
           fork_detected'[n] = fork_detected[n]
    PROVE  Chooses(n)
<1> DEFINE p == Path(localChains[n])
           q == Path(localChains'[n])
<1>1. PICK h \in Nat : Shape(localChains[n], h)
  BY DEF IInv, ChainsSound, SoundChain, Sound
<1>2. \/ q = p
      \/ Topped(p, q, Len(p))
      \/ \E k \in 1 .. Len(p) : Topped(p, q, k - 1) /\ ProofHash(q[k]) < ProofHash(p[k])
  BY <1>1, InsertChoice
<1>3. CASE q = p
  BY <1>3, PathStays
<1>4. CASE Topped(p, q, Len(p))
  BY <1>4, PutOnIs DEF Chooses, Choice!FCNext, Choice!Extend
<1>5. ASSUME NEW k \in 1 .. Len(p), Topped(p, q, k - 1), ProofHash(q[k]) < ProofHash(p[k])
      PROVE  Choice(n)!Reorganise
  BY <1>5, PutOnIs, NextPath DEF Choice!Reorganise
<1> QED
  BY <1>2, <1>3, <1>4, <1>5 DEF Chooses, Choice!FCNext

LEMMA UpdateRoundChooses ==
    ASSUME IInv, NEW n \in Nodes, UpdateRound(n)
    PROVE  Chooses(n)
<1> DEFINE c == localChains[n]
<1>1. PICK round \in current_round[n] + 1 .. MaxRound :
         LET new  == IF TipConfirmed(c) THEN {} ELSE NewlyConfirmed(c, round)
             next == Confirm(c, new)
         IN  /\ localChains' = [localChains EXCEPT ![n] = next]
             /\ fork_detected' = [fork_detected EXCEPT ![n] =
                   @ \/ (~TipConfirmed(c) /\ ForkSuspected(next, round))]
  BY DEF UpdateRound
<1> DEFINE new  == IF TipConfirmed(c) THEN {} ELSE NewlyConfirmed(c, round)
           next == Confirm(c, new)
<1>2. PICK h \in Nat : Shape(c, h)
  BY DEF IInv, ChainsSound, SoundChain, Sound
<1>3. new \in SUBSET c
  BY DEF NewlyConfirmed, Unconfirmed
<1>4. Path(next) = Path(c)
  <2> HIDE DEF c, new
  <2> QED
    BY <1>2, <1>3, ConfirmPath
<1>5. localChains'[n] = next
      /\ fork_detected'[n] = (fork_detected[n] \/ (~TipConfirmed(c) /\ ForkSuspected(next, round)))
  BY <1>1 DEF IInv, Attributes
<1>6. fork_detected'[n] = TRUE \/ fork_detected'[n] = fork_detected[n]
  <2>1. fork_detected[n] \in BOOLEAN
    BY DEF IInv, Attributes
  <2>2. ForkSuspected(next, round) \in BOOLEAN
    BY Zenon DEF ForkSuspected
  <2> QED
    BY <1>5, <2>1, <2>2
<1> QED
  BY <1>4, <1>5, <1>6, PathStays

LEMMA GenerateBlockChooses ==
    ASSUME IInv, NEW n \in Nodes, GenerateBlock(n)
    PROVE  Chooses(n)
<1>1. UNCHANGED fork_detected
  BY DEF GenerateBlock
<1>2. CASE ValidateBlock(Candidate(n)) > 0 /\ n \notin HidesCreated
  <2>1. localChains'[n] = Insert(localChains[n], Candidate(n)).chain
    BY <1>2 DEF GenerateBlock, IInv, Attributes
  <2>2. Candidate(n) \in Blocks
    BY <1>2, CandidateOK
  <2> QED
    BY <1>1, <2>1, <2>2, InsertChooses
<1>3. CASE ~(ValidateBlock(Candidate(n)) > 0 /\ n \notin HidesCreated)
  BY <1>1, <1>3 DEF GenerateBlock, Chooses
<1> QED
  BY <1>2, <1>3

LEMMA HandleNewBlockChooses ==
    ASSUME IInv, NEW n \in Nodes, NEW m \in Nodes, HandleNewBlock(n, m)
    PROVE  Chooses(n)
<1> DEFINE b == Head(net[<<m, n>>]).block
<1>1. /\ net[<<m, n>>] # << >> /\ Head(net[<<m, n>>]).type = "BlockBroadcast"
      /\ UNCHANGED fork_detected
  BY DEF HandleNewBlock, Reads
<1>2. b \in Blocks
  BY <1>1, ReceivedOK, MessageKinds DEF IInv
<1>3. CASE Welcome(n, b)
  <2>1. localChains'[n] = Insert(localChains[n], b).chain
    BY <1>3 DEF HandleNewBlock, IInv, Attributes
  <2> QED
    BY <1>1, <1>2, <2>1, InsertChooses
<1>4. CASE ~Welcome(n, b)
  BY <1>1, <1>4 DEF HandleNewBlock, Chooses
<1> QED
  BY <1>3, <1>4

\* A resync that ends without a merge: the fork was suspected until now.
LEMMA HandleNoBlockChooses ==
    ASSUME IInv, NEW n \in Nodes, NEW m \in Nodes, HandleNoBlock(n, m)
    PROVE  Chooses(n)
<1>1. localChains' = localChains /\ state[n] = "RESYNCING"
  BY DEF HandleNoBlock, ReadsResponse
<1>2. CASE UNCHANGED fork_detected
  BY <1>1, <1>2 DEF Chooses
<1>3. CASE fork_detected' = [fork_detected EXCEPT ![n] = FALSE]
  <2>1. fork_detected[n] /\ fork_detected'[n] = FALSE
    BY <1>1, <1>3 DEF IInv, ResyncByNode, Attributes
  <2>2. Path(localChains[n])' = Path(localChains[n])
    BY <1>1, NextPath
  <2> QED
    BY <2>1, <2>2 DEF Chooses, Choice!FCNext, Choice!Dismiss
<1> QED
  BY <1>2, <1>3 DEF HandleNoBlock

\* What a resyncing node reads comes from the peer it has asked.
LEMMA ReadsOffer ==
    ASSUME IInv, Conversations, NEW n \in Nodes, NEW m \in Nodes,
           ReadsResponse(n, m), Response(n, m) # None
    PROVE  Offered(n) = {Foreign(n, m)}
<1>1. Reads(n, m, "ResyncResponse")
  BY DEF ReadsResponse
<1>2. net[<<m, n>>] # << >> /\ net[<<m, n>>] \in Seq(Messages)
  BY <1>1 DEF Reads, IInv, SocketsOK
<1>3. <<<<m, n>>, 1>> \in Pending(n)
  <2>1. 1 \in 1 .. Len(net[<<m, n>>]) /\ Head(net[<<m, n>>]) = net[<<m, n>>][1]
    BY <1>2
  <2>2. Concerns(net[<<m, n>>][1], <<m, n>>, n)
    BY <1>1, <2>1 DEF Reads, Concerns
  <2>3. <<m, n>> \in Nodes \X Nodes
    OBVIOUS
  <2> QED
    BY <2>1, <2>2, <2>3, UnderwayPlaces DEF Pending, IInv
<1>4. <<m, n>> \in {<<n, request[n].peer>>, <<request[n].peer, n>>}
  BY <1>3 DEF Conversations, Waits
<1>5. m # n
  BY <1>2, ReceivedOK DEF IInv
<1>6. m = request[n].peer
  BY <1>4, <1>5
<1> QED
  BY <1>6 DEF Offered

LEMMA HandleMergedChooses ==
    ASSUME IInv, IInv', Conversations, NEW n \in Nodes, NEW m \in Nodes, HandleMerged(n, m)
    PROVE  Chooses(n)
<1> DEFINE c == localChains[n]
           f == Foreign(n, m)
           d == Merge(c, f).chain
<1>1. /\ ReadsResponse(n, m) /\ Response(n, m) # None /\ Merge(c, f).ok
      /\ localChains' = [localChains EXCEPT ![n] = d]
      /\ fork_detected' = [fork_detected EXCEPT ![n] = FALSE]
  BY DEF HandleMerged
<1>2. f \in Seq(Blocks) /\ f # << >>
  BY <1>1, ForeignOK
<1>3. fork_detected[n] /\ fork_detected'[n] = FALSE
  BY <1>1 DEF IInv, ResyncByNode, Attributes, ReadsResponse
<1>4. f \in Offered(n)
  BY <1>1, ReadsOffer
<1>5. PICK h \in Nat : Shape(c, h)
  BY DEF IInv, ChainsSound, SoundChain, Sound
<1>6. localChains'[n] = d
  BY <1>1 DEF IInv, Attributes
<1>7. Path(localChains[n])' = Path(d)
  BY <1>6, NextPath
<1>8. Choice(n)!Climbs(f) <=> Climbs(f)
  BY DEF Choice!Climbs, Climbs
<1>9. CASE Climbs(f)
  <2>1. PICK k \in 0 .. Len(Path(c)) :
            /\ FollowsOn(Path(c), f[1], k)
            /\ \E j \in 1 .. Len(f) : Path(d) = SubSeq(Path(c), 1, k) \o SubSeq(f, 1, j)
    <3> HIDE DEF c, f
    <3> QED
      BY <1>1, <1>2, <1>5, <1>9, MergeChoice
  <2>2. Choice(n)!Follows(f[1], k)
    BY <2>1, FollowsIs
  <2> HIDE DEF f, d
  <2>3. Choice(n)!Adopt
    BY <1>3, <1>4, <1>7, <1>8, <1>9, <2>1, <2>2 DEF Choice!Adopt
  <2> QED
    BY <2>3 DEF Chooses, Choice!FCNext
<1>10. CASE ~Climbs(f)
  <2>1. PICK k \in 0 .. Len(Path(c)) :
            /\ k < Len(Path(d))
            /\ \A i \in 1 .. k : Path(d)[i] = Path(c)[i]
            /\ \A i \in k + 1 .. Len(Path(d)) : \E j \in DOMAIN f : Path(d)[i] = f[j]
    <3> HIDE DEF c, f
    <3> QED
      BY <1>1, <1>2, <1>5, <1>10, MergeMixed DEF Mixed
  <2>2. Path(d) \in Seq(Blocks)
    <3>1. PICK h1 \in Nat : Shape(localChains'[n], h1)
      BY DEF IInv, ChainsSound, SoundChain, Sound
    <3> HIDE DEF d
    <3> QED
      BY <1>6, <3>1, PathOK
  <2> HIDE DEF f, d
  <2>3. Choice(n)!AdoptSome
    BY <1>3, <1>4, <1>7, <1>8, <1>10, <2>1, <2>2 DEF Choice!AdoptSome
  <2> QED
    BY <2>3 DEF Chooses, Choice!FCNext
<1> QED
  BY <1>9, <1>10

LEMMA HandleUnmergedChooses ==
    ASSUME IInv, NEW n \in Nodes, NEW m \in Nodes, HandleUnmerged(n, m)
    PROVE  Chooses(n)
<1> DEFINE c == localChains[n]
           f == Foreign(n, m)
<1>1. /\ ReadsResponse(n, m) /\ Response(n, m) # None /\ ~Merge(c, f).ok
      /\ localChains' = [localChains EXCEPT ![n] = Merge(c, f).chain]
      /\ UNCHANGED fork_detected
  BY DEF HandleUnmerged
<1>2. f \in Seq(Blocks) /\ f # << >>
  BY <1>1, ForeignOK
<1>3. PICK h \in Nat : Sound(c, h)
  BY DEF IInv, ChainsSound, SoundChain
<1>4. Path(Merge(c, f).chain) = Path(c)
  <2> HIDE DEF c, f
  <2> QED
    BY <1>1, <1>2, <1>3, MergeRefusedPath
<1>5. localChains'[n] = Merge(c, f).chain
  BY <1>1 DEF IInv, Attributes
<1> QED
  BY <1>1, <1>4, <1>5, PathStays

\* A step of n is a choice of n, and none of another node.
LEMMA OthersChoose ==
    ASSUME NEW n \in Nodes, Chooses(n),
           \A k \in Nodes \ {n} : /\ localChains'[k] = localChains[k]
                                  /\ fork_detected'[k] = fork_detected[k]
    PROVE  \A k \in Nodes : Chooses(k)
<1>1. ASSUME NEW k \in Nodes \ {n} PROVE Chooses(k)
  BY DEF Chooses
<1> QED
  BY <1>1

LEMMA HandleChooses ==
    ASSUME IInv, IInv', Conversations, NEW n \in Nodes, NEW m \in Nodes, Handle(n, m)
    PROVE  \A k \in Nodes : Chooses(k)
<1>1. Chooses(n)
  <2>1. CASE IgnoreMessage(n, m) \/ HandleResyncRequest(n, m)
    BY <2>1 DEF IgnoreMessage, HandleResyncRequest, chainVars, Chooses
  <2> QED
    BY <2>1, HandleNewBlockChooses, HandleNoBlockChooses, HandleMergedChooses,
       HandleUnmergedChooses
    DEF Handle
<1>2. ASSUME NEW k \in Nodes \ {n}
      PROVE  localChains'[k] = localChains[k] /\ fork_detected'[k] = fork_detected[k]
  <2>1. CASE IgnoreMessage(n, m) \/ HandleResyncRequest(n, m)
    BY <2>1 DEF IgnoreMessage, HandleResyncRequest, chainVars
  <2>2. CASE HandleNewBlock(n, m)
    BY <2>2 DEF HandleNewBlock, IInv, Attributes
  <2>3. CASE HandleNoBlock(n, m)
    BY <2>3 DEF HandleNoBlock, IInv, Attributes
  <2>4. CASE HandleMerged(n, m)
    BY <2>4 DEF HandleMerged, IInv, Attributes
  <2>5. CASE HandleUnmerged(n, m)
    BY <2>5 DEF HandleUnmerged, IInv, Attributes
  <2> QED
    BY <2>1, <2>2, <2>3, <2>4, <2>5 DEF Handle
<1> QED
  BY <1>1, <1>2, OthersChoose

LEMMA NextChooses ==
    ASSUME IInv, IInv', Conversations, [Next]_vars
    PROVE  \A k \in Nodes : Chooses(k)
<1>1. CASE UNCHANGED vars
  BY <1>1 DEF vars, chainVars, Chooses
<1>2. ASSUME NEW n \in Nodes, UpdateRound(n) PROVE \A k \in Nodes : Chooses(k)
  <2>1. \A k \in Nodes \ {n} : /\ localChains'[k] = localChains[k]
                               /\ fork_detected'[k] = fork_detected[k]
    BY <1>2 DEF UpdateRound, IInv, Attributes
  <2> QED
    BY <1>2, <2>1, UpdateRoundChooses, OthersChoose
<1>3. ASSUME NEW n \in Nodes, GenerateBlock(n) PROVE \A k \in Nodes : Chooses(k)
  <2>1. \A k \in Nodes \ {n} : /\ localChains'[k] = localChains[k]
                               /\ fork_detected'[k] = fork_detected[k]
    BY <1>3 DEF GenerateBlock, IInv, Attributes
  <2> QED
    BY <1>3, <2>1, GenerateBlockChooses, OthersChoose
<1>4. ASSUME NEW n \in Nodes, NotOnConsensus(n) \/ ReadTimeout(n) \/ StartResync(n)
      PROVE  \A k \in Nodes : Chooses(k)
  BY <1>4 DEF NotOnConsensus, ReadTimeout, StartResync, chainVars, Chooses
<1> QED
  BY <1>1, <1>2, <1>3, <1>4, HandleChooses DEF Next

LEMMA InitChoice ==
    ASSUME Init, NEW n \in Nodes
    PROVE  Choice(n)!FCInit
<1>1. IInv /\ localChains[n] = {GenesisRow} /\ fork_detected[n] = FALSE
  BY InitIInv DEF Init
<1>2. PICK h \in Nat : Shape({GenesisRow}, h)
  BY <1>1 DEF IInv, ChainsSound, SoundChain, Sound
<1>3. h = 0
  <2>1. h \in {r.block.index : r \in {GenesisRow}}
    BY <1>2 DEF Shape
  <2>2. GenesisRow.block.index = 0
    BY DEF GenesisRow, Row, GenesisBlock
  <2> QED
    BY <2>1, <2>2
<1>4. Path({GenesisRow}) \in Seq(Blocks) /\ Len(Path({GenesisRow})) = 0
  BY <1>2, <1>3, PathOK
<1> QED
  BY <1>1, <1>4, EmptySeq DEF Choice!FCInit

\* In a network of any size every node follows the fork choice of one chain: no
\* message, resync or round change, in whatever order they come, makes its path
\* of blocks do anything else (node.py:209-404, blockchain.py:197-270).
THEOREM EveryNodeFollows == Spec => NodesFollowForkChoice
<1>1. Init => \A n \in Nodes : Choice(n)!FCInit
  BY InitChoice
<1>2. IInv /\ IInv' /\ Conversations /\ [Next]_vars
        => [\A n \in Nodes : \/ UNCHANGED <<localChains[n], fork_detected[n]>>
                             \/ [Choice(n)!FCNext]_(Choice(n)!fcvars)]_vars
  BY NextChooses DEF Chooses
<1>3. Spec => []Conversations
  BY InitWaits, NextWaits, Invariance, PTL DEF Spec
<1> QED
  BY <1>1, <1>2, <1>3, Invariance, PTL DEF Spec, NodesFollowForkChoice

\* So each node alone implements the module ForkChoice.
THEOREM EveryNodeImplements == Spec => \A n \in Nodes : Choice(n)!FCSpec
<1> SUFFICES ASSUME NEW n \in Nodes PROVE Spec => Choice(n)!FCSpec
  OBVIOUS
<1>1. Init => Choice(n)!FCInit
  BY InitChoice
<1>2. IInv /\ IInv' /\ Conversations /\ [Next]_vars => [Choice(n)!FCNext]_(Choice(n)!fcvars)
  <2> SUFFICES ASSUME IInv, IInv', Conversations, [Next]_vars
               PROVE  [Choice(n)!FCNext]_(Choice(n)!fcvars)
    OBVIOUS
  <2>1. Chooses(n)
    BY NextChooses
  <2>2. CASE UNCHANGED <<localChains[n], fork_detected[n]>>
    BY <2>2, NextPath DEF Choice!fcvars
  <2> QED
    BY <2>1, <2>2 DEF Chooses
<1>3. Spec => []Conversations
  BY InitWaits, NextWaits, Invariance, PTL DEF Spec
<1> QED
  BY <1>1, <1>2, <1>3, Invariance, PTL DEF Spec, Choice!FCSpec
=============================================================================
