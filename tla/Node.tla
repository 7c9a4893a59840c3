-------------------------------- MODULE Node --------------------------------
(***************************************************************************)
(* The nodes of a CPoS network (class Node, cpos/node.py) and the messages *)
(* between them.  Every node runs one thread, the method loop; pc is where *)
(* the thread stands between two of its steps:                             *)
(*                                                                         *)
(*   "resync"    at the top, about to start a resync                       *)
(*   "loop"      about to look at the clock and to read a message          *)
(*   "generate"  in a new round, about to run its sortition                *)
(*   "read"      about to read a message, the round being over             *)
(*   "blocked"   has handled a message and waits for the beacon, in a recv *)
(*               whose datagram is lost: there is no timeout               *)
(*   "dead"      halted, or ended by an exception                          *)
(*                                                                         *)
(* The steps of a thread touch nothing of the other nodes but the messages *)
(* in the sockets.  A socket keeps the order of the messages of one peer   *)
(* and loses none; what is sent to a dead or blocked node stays unread,    *)
(* and what is sent to a peer that was forgotten is not sent at all.  How  *)
(* peers come to be forgotten, and why a node asks the beacon for more, is *)
(* in the module Peers; here each node may forget, and learn of, certain   *)
(* others at any time, and certain nodes may get short of peers.           *)
(***************************************************************************)
EXTENDS LocalChain, FiniteSetsExt

CONSTANTS
    Nodes,
    Tolerance,    \* parameters.tolerance, in rounds
    Transactions, \* transaction_hash of the list a node puts in its blocks
    Period,       \* config.period: a node takes part in the consensus from the
                  \* first round on that is a multiple of it
    StartRound,   \* initial_round: the round in which the nodes start
    TotalRounds,  \* config.total_rounds: a node halts after as many rounds
    HidesCreated,  \* the nodes with broadcast_created_block unset
    HidesReceived, \* the nodes with broadcast_received_block unset
    Forgetful,    \* the <<n, m>> such that n may not know m as a peer
    Starved,      \* the nodes that may have fewer peers than minimum_num_peers
    MaxSkew,      \* bound: how far a clock may be ahead of another, in rounds
    MaxRound      \* bound: the last round

VARIABLES
    localChains, current_round, fork_detected,   \* the BlockChain of each node
    node_on_consensus,
    state,                    \* State.LISTENING or State.RESYNCING
    missed_blocks,            \* {<<block, peer the block came from>>}
    received_resync_blocks,   \* what the peer has sent, the latest first
    request,                  \* the locals request_index and missed[1] of loop
    pc,
    net                       \* net[<<n, m>>]: what n has sent and m not read

chainVars == <<localChains, current_round, fork_detected>>
resyncVars == <<state, received_resync_blocks, request>>
vars == <<chainVars, resyncVars, node_on_consensus, missed_blocks, pc, net>>

ASSUME RoundsAssumption ==
    StartRound \in Nat /\ MaxRound \in Nat /\ StartRound <= MaxRound

\* The block of an owner's first ticket, on top of p.
NewBlock(p, i, owner, round) ==
    [parent |-> Hash(p), owner |-> owner, round |-> round, index |-> i,
     ticket |-> 0, tx |-> Transactions]

\* The hashes of blocks, as paths of what each block adds to its parent's.
Links == [proof : [owner : Nodes, round : Nat, ticket : Nat],
          tx    : {Transactions, NoTx}]

Hashes == Seq(Links)

\* Blocks has all blocks that nodes win in these rounds, on top of each other,
\* and these with an empty list of transactions.
ASSUME NodesAssumption ==
    /\ \A b \in Blocks : b.parent \in Hashes /\ [proof |-> Proof(b), tx |-> b.tx] \in Links
    /\ \A b \in Blocks : [b EXCEPT !.tx = NoTx] \in Blocks
    /\ \A p \in Blocks \cup {GenesisBlock}, n \in Nodes, round \in StartRound .. MaxRound :
          LET b == NewBlock(p, p.index + 1, n, round)
          IN  p.index <= p.round /\ ValidateBlock(b) > 0 => b \in Blocks

\* A sortition is run over the signed node hash of a block, which does not depend
\* on its transactions.
ASSUME SortitionAssumption ==
    \A b \in Blocks : Winning([b EXCEPT !.tx = NoTx]) = Winning(b)

None == [none |-> TRUE]   \* ResyncResponse(None)

BlockBroadcast(b) == [type |-> "BlockBroadcast", block |-> b]
ResyncRequest(i) == [type |-> "ResyncRequest", block_index |-> i]
ResyncResponse(b) == [type |-> "ResyncResponse", block_received |-> b]

Alive(n) == pc[n] # "dead"
Blocked(n) == pc[n] = "blocked"

\* The first pass of the loop counts as a change of the round.
Init ==
    /\ localChains = [n \in Nodes |-> {GenesisRow}]
    /\ current_round = [n \in Nodes |-> StartRound]
    /\ fork_detected = [n \in Nodes |-> FALSE]
    /\ node_on_consensus = [n \in Nodes |-> FALSE]
    /\ state = [n \in Nodes |-> "LISTENING"]
    /\ missed_blocks = [n \in Nodes |-> {}]
    /\ received_resync_blocks = [n \in Nodes |-> << >>]
    /\ request = [n \in Nodes |-> [block_index |-> 0, peer |-> n]]
    /\ pc = [n \in Nodes |-> "generate"]
    /\ net = [ch \in Nodes \X Nodes |-> << >>]

-----------------------------------------------------------------------------
(* The sockets *)

Broadcast(channels, n, peers, msg) ==
    [ch \in Nodes \X Nodes |->
        IF ch[1] = n /\ ch[2] \in peers THEN Append(channels[ch], msg) ELSE channels[ch]]

Send(channels, n, m, msg) == Broadcast(channels, n, {m}, msg)

\* The peers that n may not know, and those to which a send of n may fail.
Forgettable(n) == {m \in Nodes : <<n, m>> \in Forgetful}

Unreachable(n) == Forgettable(n) \cup {m \in Nodes : ~Alive(m)}

\* send, when nobody looks at its result.
TrySend(channels, n, m, msg) ==
    {Send(channels, n, m, msg)} \cup (IF m \in Unreachable(n) THEN {channels} ELSE {})

\* What is left when n has read the first message of m.
Received(n, m) == [net EXCEPT ![<<m, n>>] = Tail(@)]

\* n is about to read a message of m, and the message is of this type.
Reads(n, m, type) ==
    /\ pc[n] \in {"loop", "read"}
    /\ net[<<m, n>>] # << >>
    /\ Head(net[<<m, n>>]).type = type

\* Faulty variant: a resync is started although another one goes on.
TopWhileResyncing(n) ==
    pc' = [pc EXCEPT ![n] =
              IF current_round[n] >= StartRound + TotalRounds THEN "dead"
              ELSE IF fork_detected'[n] /\ missed_blocks'[n] # {} THEN "resync" ELSE "loop"]

\* The top of the loop: the thread halts, or starts a resync if a fork was
\* detected and a missed block tells whom to ask, or goes on.
Top(n) ==
    pc' = [pc EXCEPT ![n] =
              IF current_round[n] >= StartRound + TotalRounds THEN "dead"
              ELSE IF state'[n] = "LISTENING" /\ fork_detected'[n] /\ missed_blocks'[n] # {}
                     THEN "resync" ELSE "loop"]

\* What follows a handled message: control_number_of_peers, in which a node
\* that has too few peers asks the beacon for more and may wait for ever, and
\* then the top.
ControlNumberOfPeers(n) ==
    \/ Top(n)
    \/ n \in Starved /\ pc' = [pc EXCEPT ![n] = "blocked"]

-----------------------------------------------------------------------------
(* A new round *)

\* bc.update_round, when the clock of the node is in another round.
UpdateRound(n) ==
    \E round \in current_round[n] + 1 .. MaxRound :
        /\ pc[n] = "loop"
        /\ \A m \in Nodes :
              Alive(m) /\ ~Blocked(m) => round <= current_round[m] + MaxSkew
        /\ current_round' = [current_round EXCEPT ![n] = round]
        /\ LET c    == localChains[n]
               new  == IF TipConfirmed(c) THEN {} ELSE NewlyConfirmed(c, round)
               next == Confirm(c, new)
               dies == ~TipConfirmed(c) /\ new = Unconfirmed(c)
           IN  /\ localChains' = [localChains EXCEPT ![n] = next]
               /\ fork_detected' = [fork_detected EXCEPT ![n] =
                     @ \/ (~TipConfirmed(c) /\ ForkSuspected(next, round))]
               /\ pc' = [pc EXCEPT ![n] = IF dies THEN "dead" ELSE "generate"]
        /\ UNCHANGED <<resyncVars, node_on_consensus, missed_blocks, net>>

\* The block of the node's own ticket, on top of its chain.
Candidate(n) ==
    LET tip == RowAt(localChains[n], NumberOfBlocks(localChains[n]) - 1).block
    IN  NewBlock(tip, NumberOfBlocks(localChains[n]), n, current_round[n])

\* generate_block and the lines of loop after it: the block goes to every
\* peer, also when the node's own insert has refused it.  A dishonest node
\* neither inserts nor broadcasts it.
GenerateBlock(n) ==
    /\ pc[n] = "generate"
    /\ node_on_consensus[n] \/ current_round[n] % Period = 0
    /\ node_on_consensus' = [node_on_consensus EXCEPT ![n] = TRUE]
    /\ IF ValidateBlock(Candidate(n)) > 0 /\ n \notin HidesCreated
         THEN /\ localChains' = [localChains EXCEPT ![n] = Insert(@, Candidate(n)).chain]
              /\ \E forgotten \in SUBSET Forgettable(n) :
                    net' = Broadcast(net, n, Nodes \ ({n} \cup forgotten),
                                     BlockBroadcast(Candidate(n)))
         ELSE UNCHANGED <<localChains, net>>
    /\ pc' = [pc EXCEPT ![n] = "read"]
    /\ UNCHANGED <<current_round, fork_detected, resyncVars, missed_blocks>>

\* The node has not started the consensus.
NotOnConsensus(n) ==
    /\ pc[n] = "generate"
    /\ ~node_on_consensus[n] /\ current_round[n] % Period # 0
    /\ UNCHANGED <<chainVars, resyncVars, node_on_consensus, missed_blocks, net>>
    /\ Top(n)

\* network.read has returned nothing.
ReadTimeout(n) ==
    /\ pc[n] = "read"
    /\ UNCHANGED <<chainVars, resyncVars, node_on_consensus, missed_blocks, net>>
    /\ Top(n)

-----------------------------------------------------------------------------
(* Blocks *)

InMissedBlocks(n, b) == \E s \in missed_blocks[n] : Hash(s[1]) = Hash(b)

\* Faulty variant: a block that is already in the chain is handled again.
WelcomeKnown(n, b) ==
    /\ b.round \in current_round[n] .. current_round[n] + Tolerance
    /\ b.owner # n
    /\ ~InMissedBlocks(n, b)

\* The tests of handle_new_block before it passes the block on.
Welcome(n, b) ==
    /\ b.round \in current_round[n] .. current_round[n] + Tolerance
    /\ b.owner # n
    /\ ~BlockInBlockchain(localChains[n], b)
    /\ ~InMissedBlocks(n, b)

\* The peers a block of owner that came from m is passed on to: all but these
\* two, and none by a dishonest node.
Audience(n, m, owner) ==
    IF n \in HidesReceived THEN {} ELSE Nodes \ {n, m, owner}

\* handle_new_block: the block is passed on before it is inserted.
HandleNewBlock(n, m) ==
    /\ Reads(n, m, "BlockBroadcast")
    /\ state[n] = "LISTENING"
    /\ LET b      == Head(net[<<m, n>>]).block
           result == Insert(localChains[n], b)
       IN  IF Welcome(n, b)
             THEN /\ \E forgotten \in SUBSET Forgettable(n) :
                        net' = Broadcast(Received(n, m), n, Audience(n, m, b.owner) \ forgotten,
                                         BlockBroadcast(b))
                  /\ localChains' = [localChains EXCEPT ![n] = result.chain]
                  /\ missed_blocks' = [missed_blocks EXCEPT ![n] =
                                          IF result.ok THEN @ ELSE @ \cup {<<b, m>>}]
             ELSE /\ net' = Received(n, m)
                  /\ UNCHANGED <<localChains, missed_blocks>>
    /\ UNCHANGED <<current_round, fork_detected, resyncVars, node_on_consensus>>
    /\ ControlNumberOfPeers(n)

\* A message that the state of the node has no handler for.
IgnoreMessage(n, m) ==
    /\ \/ Reads(n, m, "BlockBroadcast") /\ state[n] = "RESYNCING"
       \/ Reads(n, m, "ResyncResponse") /\ state[n] = "LISTENING"
    /\ net' = Received(n, m)
    /\ UNCHANGED <<chainVars, resyncVars, node_on_consensus, missed_blocks>>
    /\ ControlNumberOfPeers(n)

-----------------------------------------------------------------------------
(* The resync *)

\* The node asks the peer of a random missed block for its last block.  If the
\* send fails, another missed block is tried.
StartResync(n) ==
    \E s \in missed_blocks[n] :
        /\ pc[n] = "resync"
        /\ missed_blocks' = [missed_blocks EXCEPT ![n] = @ \ {s}]
        /\ \/ /\ state' = [state EXCEPT ![n] = "RESYNCING"]
              /\ request' = [request EXCEPT ![n] = [block_index |-> -1, peer |-> s[2]]]
              /\ net' = Send(net, n, s[2], ResyncRequest(-1))
              /\ pc' = [pc EXCEPT ![n] = "loop"]
           \/ /\ s[2] \in Unreachable(n)
              /\ pc' = [pc EXCEPT ![n] = IF missed_blocks'[n] = {} THEN "loop" ELSE "resync"]
              /\ UNCHANGED <<state, request, net>>
        /\ UNCHANGED <<chainVars, node_on_consensus, received_resync_blocks>>

\* The answer to a request, the same in both states.
Answer(n, i) ==
    ResyncResponse(IF NumberOfBlocks(localChains[n]) > -i
                     THEN BlockByIndex(localChains[n], i) ELSE None)

\* Faulty variant: a node that resyncs answers no requests.
AnswerWhenListening(n, m) ==
    /\ Reads(n, m, "ResyncRequest")
    /\ net' = IF state[n] = "LISTENING"
                THEN Send(Received(n, m), n, m, Answer(n, Head(net[<<m, n>>]).block_index))
                ELSE Received(n, m)
    /\ UNCHANGED <<chainVars, resyncVars, node_on_consensus, missed_blocks>>
    /\ ControlNumberOfPeers(n)

HandleResyncRequest(n, m) ==
    /\ Reads(n, m, "ResyncRequest")
    /\ net' = Send(Received(n, m), n, m, Answer(n, Head(net[<<m, n>>]).block_index))
    /\ UNCHANGED <<chainVars, resyncVars, node_on_consensus, missed_blocks>>
    /\ ControlNumberOfPeers(n)

ReadsResponse(n, m) == Reads(n, m, "ResyncResponse") /\ state[n] = "RESYNCING"

Response(n, m) == Head(net[<<m, n>>]).block_received

Foreign(n, m) == <<Response(n, m)>> \o received_resync_blocks[n]

\* Faulty variant: the peer of the next request stays the one asked before.
HandleNoBlockSamePeer(n, m) ==
    /\ ReadsResponse(n, m)
    /\ Response(n, m) = None
    /\ received_resync_blocks' = [received_resync_blocks EXCEPT ![n] = << >>]
    /\ \/ \E s \in missed_blocks[n] :
             /\ missed_blocks' = [missed_blocks EXCEPT ![n] = @ \ {s}]
             /\ request' = [request EXCEPT ![n].block_index = -1]
             /\ net' \in TrySend(Received(n, m), n, s[2], ResyncRequest(-1))
             /\ UNCHANGED <<state, fork_detected>>
       \/ /\ missed_blocks[n] = {}
          /\ state' = [state EXCEPT ![n] = "LISTENING"]
          /\ fork_detected' = [fork_detected EXCEPT ![n] = FALSE]
          /\ net' = Received(n, m)
          /\ UNCHANGED <<missed_blocks, request>>
    /\ UNCHANGED <<localChains, current_round, node_on_consensus>>
    /\ ControlNumberOfPeers(n)

\* The peer has no block the node could merge: ask the peer of another missed
\* block, whether or not the request can be sent, or give up.
HandleNoBlock(n, m) ==
    /\ ReadsResponse(n, m)
    /\ Response(n, m) = None
    /\ received_resync_blocks' = [received_resync_blocks EXCEPT ![n] = << >>]
    /\ \/ \E s \in missed_blocks[n] :
             /\ missed_blocks' = [missed_blocks EXCEPT ![n] = @ \ {s}]
             /\ request' = [request EXCEPT ![n] = [block_index |-> -1, peer |-> s[2]]]
             /\ net' \in TrySend(Received(n, m), n, s[2], ResyncRequest(-1))
             /\ UNCHANGED <<state, fork_detected>>
       \/ /\ missed_blocks[n] = {}
          /\ state' = [state EXCEPT ![n] = "LISTENING"]
          /\ fork_detected' = [fork_detected EXCEPT ![n] = FALSE]
          /\ net' = Received(n, m)
          /\ UNCHANGED <<missed_blocks, request>>
    /\ UNCHANGED <<localChains, current_round, node_on_consensus>>
    /\ ControlNumberOfPeers(n)

\* Faulty variant: the blocks of the peer are kept after the resync.
HandleMergedKeeping(n, m) ==
    /\ ReadsResponse(n, m)
    /\ Response(n, m) # None
    /\ Merge(localChains[n], Foreign(n, m)).ok
    /\ localChains' = [localChains EXCEPT ![n] = Merge(@, Foreign(n, m)).chain]
    /\ state' = [state EXCEPT ![n] = "LISTENING"]
    /\ received_resync_blocks' = [received_resync_blocks EXCEPT ![n] = Foreign(n, m)]
    /\ fork_detected' = [fork_detected EXCEPT ![n] = FALSE]
    /\ missed_blocks' = [missed_blocks EXCEPT ![n] = {}]
    /\ net' = Received(n, m)
    /\ UNCHANGED <<current_round, node_on_consensus, request>>
    /\ ControlNumberOfPeers(n)

\* Faulty variant: the fork stays detected after the resync.
HandleMergedForked(n, m) ==
    /\ ReadsResponse(n, m)
    /\ Response(n, m) # None
    /\ Merge(localChains[n], Foreign(n, m)).ok
    /\ localChains' = [localChains EXCEPT ![n] = Merge(@, Foreign(n, m)).chain]
    /\ state' = [state EXCEPT ![n] = "LISTENING"]
    /\ received_resync_blocks' = [received_resync_blocks EXCEPT ![n] = << >>]
    /\ missed_blocks' = [missed_blocks EXCEPT ![n] = {}]
    /\ net' = Received(n, m)
    /\ UNCHANGED <<current_round, node_on_consensus, request, fork_detected>>
    /\ ControlNumberOfPeers(n)

\* merge takes what was received so far, and the resync is over.
HandleMerged(n, m) ==
    /\ ReadsResponse(n, m)
    /\ Response(n, m) # None
    /\ Merge(localChains[n], Foreign(n, m)).ok
    /\ localChains' = [localChains EXCEPT ![n] = Merge(@, Foreign(n, m)).chain]
    /\ state' = [state EXCEPT ![n] = "LISTENING"]
    /\ received_resync_blocks' = [received_resync_blocks EXCEPT ![n] = << >>]
    /\ fork_detected' = [fork_detected EXCEPT ![n] = FALSE]
    /\ missed_blocks' = [missed_blocks EXCEPT ![n] = {}]
    /\ net' = Received(n, m)
    /\ UNCHANGED <<current_round, node_on_consensus, request>>
    /\ ControlNumberOfPeers(n)

\* merge has found no place for the blocks: ask for the one before them.
HandleUnmerged(n, m) ==
    /\ ReadsResponse(n, m)
    /\ Response(n, m) # None
    /\ ~Merge(localChains[n], Foreign(n, m)).ok
    /\ localChains' = [localChains EXCEPT ![n] = Merge(@, Foreign(n, m)).chain]
    /\ received_resync_blocks' = [received_resync_blocks EXCEPT ![n] =
                                     MergeRest(localChains[n], Foreign(n, m))]
    /\ request' = [request EXCEPT ![n].block_index = @ - 1]
    /\ net' \in TrySend(Received(n, m), n, request[n].peer,
                        ResyncRequest(request[n].block_index - 1))
    /\ UNCHANGED <<current_round, fork_detected, node_on_consensus, state, missed_blocks>>
    /\ ControlNumberOfPeers(n)

-----------------------------------------------------------------------------
\* The node reads one message of m.
Handle(n, m) ==
    \/ HandleNewBlock(n, m)
    \/ IgnoreMessage(n, m)
    \/ HandleResyncRequest(n, m)
    \/ HandleNoBlock(n, m)
    \/ HandleMerged(n, m)
    \/ HandleUnmerged(n, m)

Next ==
    \E n \in Nodes :
        \/ UpdateRound(n)
        \/ GenerateBlock(n)
        \/ NotOnConsensus(n)
        \/ ReadTimeout(n)
        \/ StartResync(n)
        \/ \E m \in Nodes : Handle(n, m)

\* A thread that is neither dead nor blocked goes on, and the socket takes its
\* turn with every peer.  Of the others none of these actions is enabled.
Fairness ==
    \A n \in Nodes :
        /\ WF_vars(GenerateBlock(n) \/ NotOnConsensus(n))
        /\ WF_vars(ReadTimeout(n))
        /\ WF_vars(StartResync(n))
        /\ \A m \in Nodes : SF_vars(Handle(n, m))

Spec == Init /\ [][Next]_vars /\ Fairness

-----------------------------------------------------------------------------
(* Properties *)

\* The attributes of the nodes and the messages in the sockets.
TypeOK ==
    /\ \A n \in Nodes :
          /\ \A r \in localChains[n] :
                IsBlock(r.block) /\ r.confirmed \in BOOLEAN /\ r.numSuc \in Nat
          /\ current_round[n] \in StartRound .. MaxRound
          /\ fork_detected[n] \in BOOLEAN
          /\ node_on_consensus[n] \in BOOLEAN
          /\ state[n] \in {"LISTENING", "RESYNCING"}
          /\ \A s \in missed_blocks[n] : IsBlock(s[1]) /\ s[2] \in Nodes \ {n}
          /\ \A k \in DOMAIN received_resync_blocks[n] :
                IsBlock(received_resync_blocks[n][k])
          /\ request[n].block_index \in Int /\ request[n].peer \in Nodes
          /\ pc[n] \in {"resync", "loop", "generate", "read", "blocked", "dead"}
    /\ \A ch \in Nodes \X Nodes : \A k \in DOMAIN net[ch] :
          net[ch][k].type \in {"BlockBroadcast", "ResyncRequest", "ResyncResponse"}

\* missed_blocks holds what the chain lacks: no block in it is in the chain,
\* whatever was inserted and merged since it was missed.  A fork is resolved by
\* asking the peer of such a block, so a stale one would start a resync over a
\* block the node already has (node.py:286-302).
MissedBlocksAreMissing ==
    \A n \in Nodes : \A s \in missed_blocks[n] : ~BlockInBlockchain(localChains[n], s[1])

\* A node resyncs only while its fork is unresolved, and has collected blocks
\* only while it resyncs: nothing of one resync is left over for the next, in
\* which merge would take it for a part of the new peer's chain (node.py:360-390).
ResyncsUntilResolved ==
    \A n \in Nodes :
        /\ state[n] = "RESYNCING" => fork_detected[n]
        /\ received_resync_blocks[n] # << >> => state[n] = "RESYNCING"

\* The places in the sockets of the requests of n and of the responses to it.
Underway(channels, n) ==
    {place \in UNION {{ch} \X DOMAIN channels[ch] : ch \in Nodes \X Nodes} :
        LET ch   == place[1]
            type == channels[ch][place[2]].type
        IN  \/ ch[1] = n /\ type = "ResyncRequest"
            \/ ch[2] = n /\ type = "ResyncResponse"}

Pending(n) == Underway(net, n)

\* A resync is one conversation with one peer: while a node resyncs, and all
\* peers can be reached, exactly one request of its or one response to it is
\* under way, between the node and the peer it has asked; a listening node waits
\* for nothing.  So no response can be taken for the answer to a later request,
\* or to that of another peer, although responses carry no number and loop does
\* not look at their sender (node.py:360-404).
OneConversation ==
    \A n \in Nodes :
        /\ Cardinality(Pending(n)) <= 1
        /\ \A place \in Pending(n) :
              place[1] \in {<<n, request[n].peer>>, <<request[n].peer, n>>}
        /\ Alive(n) /\ state[n] = "LISTENING" => Pending(n) = {}
        /\ Alive(n) /\ state[n] = "RESYNCING" /\ Unreachable(n) = {} => Pending(n) # {}

\* A resync asks for no more blocks than there have been rounds: however the
\* chains of the peers grow, are cut and replaced between two requests, whose
\* indexes are counted from an end that moves, and whatever merge refuses, an
\* index never counts further down than that; so a peer is asked at most as often
\* as there have been rounds (node.py:346-355, 378-391).
RequestsInReach ==
    \A n \in Nodes :
        state[n] = "RESYNCING" =>
            \E k \in Nodes : -request[n].block_index <= current_round[k]

\* The nodes from which n can expect no step or no message any more.
Lost(n) == Unreachable(n) \cup {m \in Nodes : Blocked(m)}

\* Nobody is left waiting: a resync comes to an end, also when two nodes resync
\* with each other at the same time (node.py:393: "we need to reply to
\* ResyncRequest in order to avoid a distributed deadlock"), unless the node or the
\* very peer it has asked halts, is cut off or is blocked in its wait for the beacon
\* (node.py:406, client.py:87).
ResyncEnds ==
    \A n \in Nodes :
        state[n] = "RESYNCING" ~>
            state[n] = "LISTENING" \/ {n, request[n].peer} \cap Lost(n) # {}

\* What node n may adopt: the blocks it has collected in this resync, below the
\* one that it is about to read from the peer it has asked.
Offered(n) ==
    {Foreign(n, m) : m \in {p \in {request[n].peer} :
                               ReadsResponse(n, p) /\ Response(n, p) # None}}

\* Every node of the network follows the fork choice of one chain, whatever the
\* others send and whenever: its path of blocks grows at the end, is cut only in
\* favour of a smaller proof hash at the place of the cut, and takes over what is
\* above a block only from the one peer it has asked, while its fork is
\* unresolved; that the resync is over and that the fork is resolved is one step
\* (node.py:359-404).
Choice(n) == INSTANCE ForkChoice
                 WITH path <- Path(localChains[n]), resyncing <- fork_detected[n],
                      offered <- Offered(n)

NodesFollowForkChoice ==
    /\ \A n \in Nodes : Choice(n)!FCInit
    /\ [][\A n \in Nodes :
            \/ UNCHANGED <<localChains[n], fork_detected[n]>>
            \/ [Choice(n)!FCNext]_(Choice(n)!fcvars)]_vars

-----------------------------------------------------------------------------
\* What comments of the code say, and the code does not do

\* blockchain.py:98, of last_confirmed_block_id == last_block_id(): "should
\* only happen if the chain only has the genesis block".
TipConfirmedOnlyAtGenesis ==
    \A n \in Nodes : TipConfirmed(localChains[n]) => localChains[n] = {GenesisRow}

\* node.py:365, of a response without a block: "If the peer doesn't have useful
\* blocks, ask to another random peer".  So a node that resyncs and starts at
\* the last block of a peer (block_index -1) has asked one.
AnotherPeerIsAsked ==
    \A n \in Nodes :
        Alive(n) /\ state[n] = "RESYNCING" /\ request[n].block_index = -1 => Pending(n) # {}
=============================================================================
