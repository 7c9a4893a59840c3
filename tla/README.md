# CPoS: specification, model checking and proofs

This directory holds a TLA+ description of CPoS, a proof-of-stake blockchain
whose blocks are proposed by lottery and confirmed by counting how many
lotteries were won on top of them. TLC checks the modules on small instances;
TLAPS checks the theorems about the local chain and its fork choice, the network
of nodes, their lists of peers, the mempool, the sortition and the beacon for all
values of the constants. Paths in this file are relative to `src/`.

## The system

| Component | Code | State | Operations | Model |
|---|---|---|---|---|
| Blocks | `cpos/core/block.py` | none | hashes, `validate_block` | `Block` |
| Local chain | `cpos/core/blockchain.py`, `cpos/db/localBlockchain.sql` | table `localChains`; `current_round`, `fork_detected` | `update_round`, `insert`, `merge`, queries | `LocalChain`, `BlockChain`, `ForkChoice` |
| Node | `cpos/node.py`, `cpos/p2p/network.py`, `cpos/protocol/messages.py` | `state`, `missed_blocks`, `received_resync_blocks`, `node_on_consensus`, locals of `loop` | one pass of `loop`: clock, own block, one message | `Node` |
| Peer management | `cpos/p2p/network.py`, `cpos/node.py:134-168, 258-272` | `known_peers`, `peer_failed_msg_count` | `connect`, `send`, `read`, `forget_peer`, `greet_peers`, `broadcast_message`, `control_number_of_peers` | `Peers` |
| Discovery client | `cpos/p2p/discovery/client.py` | a socket | `get_peerlist`, `get_additional_peers`, `notify_beacon` | `Peers`, `Beacon` (partly) |
| Beacon | `cpos/p2p/discovery/beacon.py` | `peers`, `peers_still_alive_flags`, `current_round`, `reply_queue` | `listen`, `update_round`, `manage_peer_forgetting` | `Beacon` (partly) |
| Transactions, mempool | `cpos/core/transactions.py`, `cpos/db/mempool.sql`, `demo/populate_mempool.py` | table `transactions` | insert transactions; choose those of a block | `Mempool` |
| Sortition | `cpos/core/sortition.py` | none | three search loops over a binomial distribution | `Sortition` |
| Merkle tree | `cpos/util/merkle.py` | its chunks | `merkle_root`; only tests use it | no: nothing calls it |
| Serialization, RPC | `cpos/protocol/*.py` | none | `pickle`; `rpc.py` is unused | no: input and output |
| Demonstration | `demo/*.py` | files | start-up, log transfer, statistics | no: input and output |

How they interact. A node runs one thread, `Node.loop`. A pass of the loop
decides whether to start a resync, looks at the clock (`bc.update_round`, which
runs the two thresholds and may confirm blocks or detect a fork), builds and
broadcasts a block if the round is new and the sortition is won, and handles at
most one message. Building a block takes a list of transactions out of the
mempool, which a second thread fills. `handle_new_block` passes a block on to the
other peers and offers it to `bc.insert`; a block that is refused goes to
`missed_blocks`. A node that has detected a fork asks the peer of a missed block
for its last block, then for the one before it, and so on, until `bc.merge`
accepts what was collected or the peer has no more. After a message the node
controls its number of peers: it asks the beacon for more or forgets some. A
peer is also forgotten when three sends to it in a row fail, and becomes known
again when it writes. The wait for the beacon's answer has no timeout. The beacon is a separate process; nodes introduce
themselves to it, ask it for peers and notify it once a round, all over UDP.

What is hard about it:

* nodes see blocks in different orders, and each decides at once what its
  chain is, so agreement rests on `insert` not depending on the order;
* the table is cut, refilled and put back (`merge`), with counters and
  confirmations in the rows, and the table's constraints protect none of it;
* a resync is a conversation over many passes of the loop, without request
  numbers and without a timeout, while both chains go on changing;
* rounds are found by looking at a clock between messages, so they can be
  skipped, and the clocks of two nodes differ;
* a list of peers is shortened by the loop that walks over it, and a dictionary
  beside it must keep in step;
* two threads use the table of transactions between each other's statements;
* datagrams to the beacon are lost, repeated and late, and clients vanish;
* the thresholds are searched for by loops without a bound.

What makes each component correct:

* Local chain: the rows form one chain; confirmed rows are its prefix; support is
  not lost; the tip is not confirmed; siblings may come in either order; the
  whole is a fork choice over paths of blocks.
* Node: what is missed is missing; nothing of a resync is left for the next
  one; one request or response at a time; every resync ends if both its nodes go on.
* Peers: the counts are those of the listed peers; the list exceeds its maximum only
  while it must, and by a known number; a broadcast
  misses as little as a list that shrinks under it allows; peers that are gone
  are dropped.
* Mempool: no transaction is handed out twice or marked without being handed out;
  only an empty table ends the node.
* Sortition: the loops end, with the least or greatest value that satisfies the
  bound they search for.
* Beacon: silent nodes are forgotten in time, and running nodes are not.

`PROJECT.json` lists the hazards one by one, with their lines, the properties
that cover them, or the reason why none does.

## The modules

**`Block`**. A block is a record `[parent, owner, round, index, ticket, tx]`. A
hash is the path of the values it commits to (parent's hash, then the block's
proof and transactions), so two hashes are equal exactly when the blocks agree
on all of them; SHA-256 collisions are excluded. The index is in no hash, as in
the code. `Winning(b)` is the result of `run_sortition` for the block, and
`ProofHash(b)` the rank of its proof hash: both are constants, fixed by a
"lottery" in the MC modules, because signatures are deterministic and a node
can do nothing about what it wins.

**`LocalChain`**. The table is a *set* of rows `[block, confirmed, numSuc]`, and
each method of `BlockChain` an operator from a table to a table. That the rows
form a chain is not built in; it is what `ChainWellFormed` says. `merge` is
modelled with its quirks: the lowest row with the parent's hash, the cut of
everything above it, the rows put back only if the *first* foreign block is
refused, a silent stop at the first later block that is refused, and the first
block popped off the caller's list (`MergeRest`).

**`BlockChain`**. One local chain as its node drives it; every method runs to
its end in one thread, so an action is a call: `UpdateRound`, `InsertBlock`,
`MergeFork`, `GiveUpResync`. `raised` says that an exception has left
`update_round`, which ends the node.

**`ForkChoice`**. The abstract specification: a path of blocks that grows at its
end (`Extend`), is cut by a better block (`Reorganise`) or replaced by a
subchain while a fork is suspected (`Adopt`). A node asks for blocks by their
distance from the end of the peer's chain, one message at a time; if that chain
changes in between, what it collects may hold a block twice or two siblings, and a
merge leaves some of it above some height (`AdoptSome`). What there is to adopt
(`offered`) is up to others. `BlockChain` implements `ForkChoice`, with `Path` as the
refinement mapping and `Forks` on offer; so does every node `n` of the network, where
`Choice(n)` offers nothing but what `n` has collected from the one peer it has asked
(`Offered`).

**`Node`**. Several nodes, each with a local chain of `LocalChain`, and the
sockets `net[<<n, m>>]` between them. `pc` is where a thread stands in `loop`;
what lies between two of its values touches no other node, so it is one step:

| Action | Code |
|---|---|
| `UpdateRound` | `bc.update_round()` with a changed clock, `node.py:304`, `blockchain.py:80-142` |
| `GenerateBlock`, `NotOnConsensus` | the lines for a new round, `node.py:306-328` |
| `ReadTimeout` | `network.read` returns nothing, `node.py:331` |
| `StartResync` | `node.py:285-302` |
| `HandleNewBlock` | `handle_new_block`, `node.py:214-256` |
| `HandleResyncRequest` | `node.py:346-355` and `395-404`, the same in both states |
| `HandleNoBlock`, `HandleMerged`, `HandleUnmerged` | the three branches of a response, `node.py:360-391` |
| `IgnoreMessage` | a message that the state has no branch for |

`Top` is the head of the loop: halt, start a resync, or go on. Every handled message
ends with `ControlNumberOfPeers` (`node.py:406`): a node of `Starved`, which may have
fewer peers than `minimum_num_peers`, may then stay for good in its wait for the beacon
(`"blocked"`; `client.py:87`); otherwise the thread goes on to the top. A blocked node still
takes part in the network's queues: what is sent to it succeeds and is never read.
Passes without a message (`ReadTimeout`, `NotOnConsensus`) leave the call out, as the
code's `continue` does. Sockets are ZeroMQ
over TCP: in order per peer, lossless while the peer lives; a message to a dead
node stays unread and a send to it may fail. `HidesCreated` and `HidesReceived`
are the dishonest nodes, with `broadcast_created_block` or
`broadcast_received_block` unset. `Forgetful` says which nodes may not know which
others as peers: a send to such a peer may be refused, and a broadcast may leave
it out, at any time. What a node has collected (`Foreign`) is handed to `Merge` as
it came, also when the peer's chain has changed between two responses.

**`Peers`**. One node's `known_peers` and `peer_failed_msg_count`, with the other
nodes and the beacon as its environment: anyone may write at any time, any send
may fail, a peer may end (`gone`), and the beacon answers with any sample of peers,
with an error, or never (`LoseDatagram`: the client's `recv` has no timeout).
`controlled` is a history variable: whether `control_number_of_peers` has come to its
end before, since nothing else keeps the list within the maximum.
A loop over `known_peers` is taken position by position (`Visit`), as Python does
it, so a peer that is forgotten on the way shifts the rest.

| Action | Code |
|---|---|
| `InitNetwork`, `GreetPeers` | `_init_network`, `greet_peers`, `main.py` and `start` |
| `Visit`, `EndWalk` | the loops of `greet_peers` and `broadcast_message`, with `network.send` |
| `StartResync`, `BroadcastOwnBlock`, `Read`, `ReadTimeout`, `Halt` | `loop`, as far as it touches peers |
| `HandleBlock`, `HandleResync`, `HandleForgetRequest`, `HandleNothing` | the kinds of messages |
| `Control`, `AddPeers`, `TrimPeer` | `control_number_of_peers`, `node.py:258-272` |

**`Mempool`**. The table of transactions, the populating thread (`Populate`) and
the node, whose SELECT (`Retrieve`) and UPDATE (`Patch`) are two steps. `Selection`
says what the loop over the result can collect: the most valued rows, up to the
first that does not fit, up to `Limit`. An empty list makes a query that is a
syntax error, and the node ends (`PatchNothing`). `WinTicket`, `LoseTicket` and
`Publish` are the rest of `generate_block`. The histories `published` and `wasted`
say where a list has gone.

**`Sortition`**. One step is one pass of one of the three loops. Chances are
counted in outcomes out of `total_stake^draws`, so the comparison with 10^-6,
with 95% and with the hash are exact integer comparisons. The properties count
the outcomes a second way, draw by draw (`Outcomes`), without binomial
coefficients. `PassesLeft` bounds the passes a loop still makes.

**`Beacon`**. One pass of `listen` is a look at the clock or a datagram. Any
client's datagram may arrive at any time or never, which covers loss,
repetition, delay and reordering. `vouched` is a history variable: the last
round in which the beacon heard of a client in a way that sets its flag.

**`MCBlockChain`, `MCNode`, `MCSortition`, `MCMempool`** instantiate them. `Beacon`
and `Peers` need no MC module. The modules named `...Proofs` hold the theorems and
their proofs, and `Induction` the facts about least elements, recursive functions
and sums that they share.

Operators commented "Faulty variant" are deliberate mistakes (a count that
starts one row too low, flags that are not reset, a known block handled again).
No specification uses them. Each stands before the operator it would replace,
and replacing it must break the property `PROJECT.json` pairs it with under
`mutants`; this shows that the property can fail.

## The runs

| Run | Config | What it shows | Distinct states |
|---|---|---|---|
| `local_chain` | `MCBlockChain.cfg` | `TypeOK`, `ChainWellFormed`, `ConfirmedPrefix`, `TipUnconfirmed`, `SupportCounted`, `SiblingsCommute`, `ImplementsForkChoice` | 2 052 |
| `resync` | `MCNode.cfg` | `TypeOK`, `MissedBlocksAreMissing`, `ResyncsUntilResolved`, `OneConversation`, `RequestsInReach`, `NodesFollowForkChoice` | 542 849 |
| `resync_ends` | `MCNodeDuel.cfg` | `OneConversation`, `ResyncEnds` | 21 764 |
| `peers` | `MCPeers.cfg` | `TypeOK`, `BoundedPeers`, `SkipsOnlyBehindForgotten`, `GoneAreForgotten` | 1 152 560 |
| `mempool` | `MCMempool.cfg` | `TypeOK`, `NoTransactionTwice`, `ChosenAreHandedOut`, `EndsOnlyWhenDry` | 82 862 |
| `sortition` | `MCSortition.cfg` | `TypeOK`, `ConfirmationIsLeast`, `ForkIsGreatest`, `TicketsAreQuantile`, `Terminates`, `EveryPassIsCloser` | 4 493 |
| `beacon` | `MCBeacon.cfg` | `TypeOK`, `ListedRecently`, `NotifiedAreListed` | 360 380 |
| `compose` | `MCCompose.cfg` | violation of `ComposedBlockIsStoredBlock` | |
| `tip_confirmed` | `MCNodeTip.cfg` | violation of `TipConfirmedOnlyAtGenesis` | |
| `ask_another` | `MCNodeAsk.cfg` | violation of `AnotherPeerIsAsked` | |
| `success_probability` | `MCSuccess.cfg` | violation of `AtLeastOneWithSuccessProbability` | |
| `reply_queue` | `MCQueue.cfg` | violation of `QueueHoldsRequests` | |

To repeat one: `tlc -workers 2 -config MCNode.cfg MCNode`; each config belongs to
the module `PROJECT.json` names.

Deadlock is not checked anywhere, because every instance ends: the rounds are
bounded, a loop returns, a node halts or is blocked.

### Bounds

* `local_chain`: six won sortitions of three owners over four rounds
  (`SixWins`), which give every block they can build on each other up to height
  three, a block of a lost sortition and a block with a wrong index; every
  subchain of them up to three blocks, and some blocks twice or with a sibling,
  are offered to `merge` (`MCForks`). Five rounds (`MaxRound`) let a block of round 1
  be confirmed, replaced and merged over; `MaxSupport` 4 bounds `numSuc`, which
  repeated refusals could otherwise drive up for ever. Thresholds are 1: with the
  values `Sortition` computes for larger stakes nothing is ever confirmed within
  so few rounds. `compose` uses four wins.
* `resync`: three nodes; one (`LongLeadOfThree`) builds three blocks before another
  has built its first, so refused blocks, forks, requests beyond the end of a short
  chain (`HandleNoBlock`) and a second, different peer to ask occur. Carol hides the
  blocks she builds and Alice those she receives. Every action of `ForkChoice` is taken
  by some node, `AdoptSome` too: chains do change in the middle of a resync. Bob's
  chain has a block of every round, so the bound of `RequestsInReach` is reached.
* `resync_ends`: two nodes that win in the same rounds, the later one's block being
  the better, so they fork in both directions and resync at the same time. It
  also has a late start of the consensus (`Period` 2), nodes that halt after
  `TotalRounds`, sends that fail, and both nodes may be blocked after any message
  (`Starved`): without that excuse TLC finds `ResyncEnds` violated. In the other runs
  of `Node` nobody is short of peers. With two nodes every other node is the peer that
  was asked; that a blocked third node is no excuse is stated, and not exercised here.
* `Depth` is the longest chain of blocks the lottery is unrolled to. It is large
  enough that no chain a node can build leaves `Blocks`: `NodesAssumption`, which
  TLC evaluates in every run of `Node`, says so.
* `MaxSkew` bounds how far two clocks are apart; `MaxRound` bounds the rounds.
* `peers`: four other nodes, a minimum and a maximum of two, and answers of three, in
  the order of `docker-compose-local.yml:11, 71`. So the list is too short, right and
  too long; all bounds of `BoundedPeers` are reached, two peers over the maximum while
  peers are forgotten among them, and three peers before the first message; and one to
  three entries fail during one walk.
* `mempool`: five transactions, two of one value and one that fills a block by
  itself; two tickets a round, so that a second list is made while the first is
  kept as a candidate. (`lookup_node_stake` is a stub that returns 1; the loop of
  `generate_block` is written for any stake.)
* `sortition`: `total_stake^draws` stays below 2^31, TLC's integers: stakes up to
  9, up to 10 rounds for stakes of 1 and 2. The hash has 32 values (`Grid`).
  At these sizes a chance of at most 10^-6 is often zero, and with two stakes
  and ten rounds (2^20 outcomes) exactly one outcome still counts.
* `beacon`: three clients, replies of at most two peers, 13 rounds: more than two
  periods of six, and the clock's rounds count modulo three only.

### Fairness

`Node`, `Peers` and `Sortition` have liveness properties.

* `Node`: a thread that is neither dead nor blocked goes on: weak fairness of `GenerateBlock \/ NotOnConsensus`,
  `ReadTimeout` and `StartResync`. The socket takes its turn with every peer
  (ZeroMQ's ROUTER socket fair-queues), so each `Handle(n, m)` is strongly fair:
  between two reads the thread is elsewhere, and the action is not continuously
  enabled. The clock is not assumed to advance. A pass of the loop does
  not always end: after a message it may block in `client.py:87`, and then none of these
  actions is enabled, so nothing is assumed of it. `ResyncEnds` excuses a node that has
  halted or is blocked itself, or whose asked peer has halted, is blocked or cannot be
  reached: it then stays in RESYNCING for ever, since nothing times out.
* `Peers`: a thread goes on, and a node that stays in its loop wins a sortition again
  and again (strong fairness of `BroadcastOwnBlock`): a failed send is all that
  tells it of a peer that has ended, and a node that never sends notices nothing.
  That datagrams arrive, that sends succeed or that the beacon answers is
  not assumed; `GoneAreForgotten` excuses the node that is blocked or has halted.
* `Sortition`: the loop of a function that is called goes on.

### What the violations show

* `tip_confirmed`: a comment says that the last confirmed block is the last block
  only on a chain of one block (`blockchain.py:98`). `insert` counts the tickets
  of a block before it refuses it as a block "of the same round as the parent";
  with `total_stake = tau = 1`, as in the repository's `test_merge`, a node that
  wins every round, sees its peers' blocks and skips a round confirms its tip,
  and `update_round` then raises at `blockchain.py:377`.
* `compose`: a block read from the table has no transaction hash
  (`transactions.py:11, 20-21`), so its hash is not the stored one. A resync
  therefore hands over other blocks than those of the chain. It needs
  transactions (`Payload = MockTx`); with empty lists the hashes agree, which
  is why the other chain runs use empty lists.
* `ask_another`: a comment says that a node whose peer has no useful block asks
  another random peer (`node.py:365`). It takes one other missed block, and
  the result of the send is not looked at (`node.py:372`), unlike at the start of
  a resync (`node.py:288-297`). If that peer was forgotten, nothing is sent, and
  the node stays in RESYNCING, where it ignores blocks.
* `success_probability`: the docstring's "chance of having at least one selected
  ticket" is the chance of *each* stake; the two agree for one stake, which is
  what `lookup_node_stake` returns.
* `reply_queue`: what is queued for a later reply are the senders of
  notifications, which want none.

## The proofs

The theorems hold for every value of the constants that satisfies the named
assumptions of the modules, which TLC evaluates in the runs.

**The local chain** (`LocalChainProofs`, `BlockChainProofs`). `LocalChainProofs`
proves, operator by operator, what `insert`, `merge` and the confirmation do to a
table and to its path. `BlockChainProofs` concludes, for every set of blocks, every lottery and
every thresholds:

| Theorem | Statement |
|---|---|
| `TypeCorrect` | `Spec => []TypeOK` |
| `AlwaysAChain` | `Spec => []ChainWellFormed` |
| `ConfirmedInOrder` | `Spec => []ConfirmedPrefix` |
| `TipStaysUnconfirmed` | `Spec => []TipUnconfirmed` |
| `SupportIsNeverLost` | `Spec => []SupportCounted` |

They share one inductive invariant, `IInv`: the rows form a chain of some height
`n` (`Shape`), the genesis row is untouched, the confirmed rows are the lowest,
every unconfirmed row has a ticket for each row above it (`Sound`), and the tip is
unconfirmed while the node lives (`Open`). No part is inductive alone: `RowAt` is a
choice among rows, so nothing can be said of a replacement until indexes are
known to be unique and without gaps; a block that is put on top is unconfirmed
and keeps the confirmed rows a prefix only because nothing stands above it; and
support is counted by index. `Shape` counts no rows, so that cardinality enters the
proofs in one lemma only. `merge` iterates over the foreign blocks
(`InsertLoop`, a recursive function); that the function exists (`IteratesExists`)
and that every iteration keeps the invariant are shown by taking the least
prefix for which they fail.

The assumptions: `BlocksAssumption` (rounds, indexes and tickets are natural
numbers, as the unsigned fields are), `BoundsAssumption`, `ThresholdsAssumption`
(the confirmation threshold is positive, as `ConfirmationThresholdIsLeast` proves
of the code's loop) and `ForksAssumption` (a subchain is not empty).

**The fork choice** (`LocalChainProofs`, `BlockChainProofs`). On a chain of some height
every operator is a function of the path: `insert` extends it, or replaces its end by
one better block, or leaves it (`InsertChoice`); `merge` puts blocks of the subchain
above some height (`MergeChoice`, `MergeMixed`) or leaves it (`MergeRefusedPath`); the
confirmation leaves it (`ConfirmPath`). So every step maps to a step of `ForkChoice` or
a stutter:

* `Refinement`: `Spec => ImplementsForkChoice`. If the subchain climbs, what stands
  above the parent of its first block is a prefix of it (`InsertAllPath`, by the
  least prefix for which it fails); if it does not, each block that `insert` takes
  cuts or extends what the blocks before it have left (`Mixed`).
* `SiblingsInAnyOrder`: `Spec => []SiblingsCommute`, *if* two valid siblings with the
  same hash or proof hash are the same block (`DigestsDiffer`, a hypothesis stated
  in the theorem), that is, if no owner makes two blocks with one ticket on one
  parent. Of such a pair `insert` keeps the one that came first. The lottery of
  the run gives every win its own rank.

**The nodes** (`NodeProofs`). For any number of nodes, any lottery, tolerance,
transactions, dishonest nodes and forgotten peers:

| Theorem | Statement |
|---|---|
| `TypeCorrect` | `Spec => []TypeOK` |
| `ChainsStaySound` | `Spec => []ChainsSound`: the chain invariant for the table of every node |
| `MissedStayMissing` | `Spec => []MissedBlocksAreMissing` |
| `NothingLeftOver` | `Spec => []ResyncsUntilResolved` |
| `OneConversationAtATime` | `Spec => []OneConversation` |
| `ResyncsAreBounded` | `Spec => []RequestsInReach` |
| `EveryNodeFollows` | `Spec => NodesFollowForkChoice` |
| `EveryNodeImplements` | `Spec => \A n \in Nodes : Choice(n)!FCSpec` |

The invariant says what is in the sockets (`SocketsOK`: blocks of `Blocks`, requests
with negative indexes, nothing from a node to itself), that every chain is `Sound`,
that what a node has missed is of another owner and from another node
(`MissedByNode`), and where a resync may stand (`ResyncByNode`). Each part is
needed: the answer to a request is a block because the chain has the shape of
one and the index is negative; a missed block stays missing because `insert` only
adds the block it is given, a welcome block is not among the missed, the node's own
blocks are of its own, and a merge that adds more also clears the list; and
`HandleUnmerged` may keep what it has collected because a refused merge leaves the
blocks of the chain as they were (`MergeRefusedBlocks`).
`NodesAssumption` says that `Blocks` is closed under what the nodes build, and
`SortitionAssumption` that the tickets of a block do not depend on its transactions:
`validate_block` runs the sortition over the signed node hash (`blockchain.py:171`),
and neither it nor the stake has the transactions in it.

`OneConversationAtATime` has an invariant of its own, `Conversations`. What is
under way for a node are the *places* of its requests, and of the responses to
them, in the sockets (`Pending`). `Waits` says that a node that listens has none,
that one that resyncs has at most one, which lies between it and the peer it
asked last, and exactly one as long as every peer can be reached. A step moves
places: a broadcast adds none (`BroadcastPlaces`), a read takes one away and
shifts those behind it (`ReceivedPlaces`), a send adds the last (`SendBegins`). So
a request can only become its response (`AskStep`, `EndStep`), and a step of two
nodes leaves the conversations of the others alone (`OthersWait`). Requests have no
numbers in the code, so this is all that keeps a late response from being taken
for the answer to a later request.

`ResyncsAreBounded` rests on `Conversations` and on an invariant of its own, `Reached`:
every block in a chain, in a socket or collected in a resync was won in a round that
some node has seen (`Known`), and a response that is under way (`Fits`) says how high
the chain it comes from was, by the index of its block and the index of the request,
which is still the last one of the node it goes to, because there is no other. A chain
is no higher than the round of its tip (`IndexWithinRound`). The bound would be missed
by one if the response with the first block above the genesis block could be refused.
It cannot: `merge` cuts the chain before it inserts, so nothing stands in the way of
that block (`MergeAtGenesis`), although `insert` alone might prefer the node's own.
That the peer is still at the height it had is not assumed: whatever it has taken
over meanwhile, the next response tells of the new height. The bound is absolute, in
rounds since the genesis block; deployed nodes start many rounds after it
(`StartRound`), and for them it is loose.

The last two theorems say the same, step by step for all nodes and as a refinement of
each. They put the three invariants together: a chain that is sound has a path, on
which `insert` and `merge` do what they do in `BlockChain`; a node that resyncs has an
unresolved fork (`ResyncByNode`), so that its merge, and its giving up, is a step the
fork choice allows; and by `Conversations` the response it reads is from the peer it
has asked (`ReadsOffer`), so that what it adopts was on offer. Unlike in `Refinement`
the subchains are not any that the constants name, but those the messages bring.

**Peers** (`PeersProofs`): `TypeCorrect`, `PeersBounded` and `BroadcastComplete` (the
three invariants of the run) for any nodes and limits. `WalkOK` carries the
argument for the broadcast: what is still ahead of the loop are the entries of
the list it began with, in their order, and a gap of one is left only where an
entry was removed under the position of the loop. `Bounds` carries the one for the
length of the list: the beacon is asked only by a node below the minimum, and whatever
was read or added, `control_number_of_peers` does not end above the maximum
(`TrimOrEndStep`). `PeersAssumption` says only that the three limits are natural
numbers; no order between them is assumed, since the deployments have several. With
`demo/run_experiments.sh:38-39` (answers of 10, a minimum of 9, a maximum of 12) the
list may have 18 peers while peers are forgotten; a comment of the code asks whether to
limit that (`node.py:263`). With `docker-compose-local.yml:11, 71` (answers of 5, a
maximum of 4) a node may have 5 peers until it has handled its first message.

**Mempool** (`MempoolProofs`): `TypeCorrect`, `NeverHandedOutTwice`, `NoneIsLost` and
`NoEmptyListButOfNone` (the four invariants of the run) for any transactions, sizes
and number of tickets. `Phase` says what the position of the thread implies for
the list in the making: not marked before `Patch`, marked after it. The last
theorem needs `FitAssumption`: every transaction fits into a block, as the
generated ones do.

**Sortition** (`SortitionProofs`), for all stakes, `tau`, numbers of rounds and hashes:

| Theorem | Statement |
|---|---|
| `CumulativeCounts` | `CumulativeBinomDist(w, tau, n, k)` is the number of outcomes of `n` draws with at most `k` successes |
| `TypeCorrect` | `Spec => []TypeOK` |
| `ConfirmationThresholdIsLeast` | `Spec => []ConfirmationIsLeast` |
| `ForkThresholdIsGreatest` | `Spec => []ForkIsGreatest` |
| `TicketsAreTheQuantile` | `Spec => []TicketsAreQuantile` |
| `LoopsAreBounded` | `Spec => EveryPassIsCloser` |

The first is the bridge between the two ways of counting. That the division in
`binomial` leaves no remainder (`Exact`) and that the coefficients follow Pascal's
rule (`PascalStep`) carry each other from one row of the triangle to the next.
With Pascal's rule the products that the code adds satisfy the recursion of the
draws (`CountsAreTerms`), and the outcomes of `n` draws are `w^n` in all
(`CountsTotal`), so one minus the cumulative chance is the chance of the rest
(`ChanceOfAtLeast`), also where the code clips `k` at the number of draws. The
invariant `Searching` says that a loop has rejected every value it passed; that
the fork threshold stops at zero (`ZeroIsUsual`), the confirmation threshold at
half the stake (`HalfIsSafe`) and the tickets at the stake (`TicketTest`) bounds
the loops. `CallsAssumption` is that `tau` is between 1 and `total_stake` and that a
hash is below `Grid`. Every induction is by the least counterexample (`LeastNat`).

**The beacon** (`BeaconProofs`): `TypeCorrect`, `SilenceIsForgotten` and
`NobodyForgottenEarly` (the three properties of the run) for any number of
clients and rounds. The invariant `FlagsKeepTime` relates a flag to thirds of the
clock (`round \div 3`): a set flag was set in this third, a cleared one in the third
before, and who is not listed was last heard of earlier still. The two bounds,
three and six rounds, follow from that by arithmetic.

Only model-checked: the liveness properties (`ResyncEnds`, `GoneAreForgotten`,
`Terminates`), which are out of the prover's reach. Of `Terminates` and `ResyncEnds`
the part that is not about fairness is proved: `LoopsAreBounded`, and for the requests
to one peer `ResyncsAreBounded`.

## What is not modelled

* Bytes: serialization, signatures and their verification, SQL errors of the local
  chain, logs, statistics (`dump_data`, delays, counters of messages).
* `lookup_node_stake` is a stub that returns 1, so a node draws one ticket a round;
  `Node` models `generate_block` for that stake, `Mempool` for any.
* The content of transactions in `Node`: every node uses one payload, so what
  `compose` shows does not disturb the other runs.
* How a node comes to know or forget another, or gets short of peers, in `Node`:
  `Forgetful` and `Starved` leave that open, `Peers` is about it, for one node. That two lists of peers agree is not
  claimed anywhere, and the code does not make them agree.
* The discovery client composed with `Beacon`: `Peers` takes any sample of peers
  that are not gone for an answer, which includes every list the beacon may have.
  Identities that the beacon lists although their nodes have ended only add
  failed sends.
* The length of the beacon's reply queue, its two broadcasts, which nothing calls,
  and `halt`.
* The Merkle tree: only its own tests call it.
* `demo/`: start-up, log transfer, and statistics over log files, without a
  protocol of their own. Only the populating thread of the mempool is part of the
  running system, and `Mempool` has it.
* Restarts: the constructor inserts the genesis block into whatever database it
  finds, and a second time the primary key refuses it; the deployments
  create every database anew.
* Floats: rounding, and the overflow that a comment in `sortition.py` names.
* Dead code: `set_genesis_block`, `contains_in_db`, `broadcast_peerlist`,
  `broadcast_random_peers`, `rpc.py`.

## Plan

Done, in this order because everything else rests on the chain: `Block`,
`LocalChain`, `BlockChain`, `ForkChoice` with its refinement, `Node`, `Sortition`,
`Beacon`, `Peers`, `Mempool`; the proofs for the chain, the beacon, the peers, the
mempool, the nodes, the fork choice, the conversations of the nodes and the
sortition, that every node of the network implements the fork choice, and that its
requests are bounded.

Next:

1. The rest of the safety part of `ResyncEnds`: that every response without a block uses
   up a missed block, of which none is added during a resync, as an action property.
2. The safety part of `GoneAreForgotten`: that no failed send to a peer is without effect
   on the count that leads to its removal.
