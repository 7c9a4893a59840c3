-------------------------------- MODULE Peers --------------------------------
(***************************************************************************)
(* The peers of one node: known_peers and peer_failed_msg_count of class   *)
(* Network (cpos/p2p/network.py), the discovery client                     *)
(* (cpos/p2p/discovery/client.py), and the methods of class Node           *)
(* (cpos/node.py) that use them.  A node is one thread; pc is where it is: *)
(*                                                                         *)
(*   "hello"    in the constructor, waiting for the beacon's first answer  *)
(*   "greet"    in main, about to greet its peers                          *)
(*   "start"    about to greet them again, in start                        *)
(*   "walk"     in a loop that sends one message to each known peer        *)
(*   "loop"     at the top of loop                                         *)
(*   "read"     about to read a message                                    *)
(*   "handle"   has read a message, of the peer in sender                  *)
(*   "control"  about to call control_number_of_peers                      *)
(*   "asking"   in it, waiting for the beacon's answer                     *)
(*   "trim"     in it, with more peers than the maximum                    *)
(*   "blocked"  in a recv whose datagram is lost: there is no timeout      *)
(*   "halted"                                                              *)
(*                                                                         *)
(* The other nodes and the beacon are the environment: any peer may send   *)
(* any message at any time, and any send may fail, as it does while the    *)
(* connection is not up or a queue is full.                                *)
(***************************************************************************)
EXTENDS Integers, SequencesExt

CONSTANTS
    Identities,    \* the identities of the other nodes
    NumPeersSend,  \* num_peers_send of the beacon
    MinPeers,      \* minimum_num_peers
    MaxPeers       \* maximum_num_peers

ASSUME PeersAssumption ==
    /\ NumPeersSend \in Nat
    /\ MinPeers \in Nat
    /\ MaxPeers \in Nat

VARIABLES
    known_peers,            \* a list
    peer_failed_msg_count,  \* a dictionary
    pc,
    walk,    \* the loop over known_peers under way: the position it has
             \* reached, the peers it leaves out, where the thread goes on
             \* after it, and two history fields: the list when the loop
             \* began, and the peers it has come to
    sender,  \* {the peer whose message is about to be handled}, or {}
    gone,    \* the peers that have ended and of which nothing is left: no
             \* connection, no message and no entry in a list of the beacon
    controlled  \* history: control_number_of_peers has come to its end before

vars == <<known_peers, peer_failed_msg_count, pc, walk, sender, gone, controlled>>

Failures == 3   \* the failed sends in a row after which a peer is forgotten

Known == Range(known_peers)

\* What the beacon may answer, the node's own identity left out: a random
\* sample of its list, in any order.
PeerLists ==
    UNION {{s \in [1 .. k -> Identities \ gone] : IsInjective(s)} : k \in 0 .. NumPeersSend}

NoWalk == [at |-> 1, without |-> {}, then |-> "loop", list |-> << >>, reached |-> {}]

Init ==
    /\ known_peers = << >>
    /\ peer_failed_msg_count = [p \in {} |-> 0]
    /\ pc = "hello"
    /\ walk = NoWalk
    /\ sender = {}
    /\ gone = {}
    /\ controlled = FALSE

-----------------------------------------------------------------------------
(* class Network *)

\* The dictionary with the counts of these peers set to zero.
Zeroed(peers) ==
    [q \in DOMAIN peer_failed_msg_count \cup peers |->
        IF q \in peers THEN 0 ELSE peer_failed_msg_count[q]]

\* connect, for each peer of a list in turn.
Connect(list) ==
    /\ known_peers' = known_peers \o list
    /\ peer_failed_msg_count' = Zeroed(Range(list))

\* Faulty variant: the peer is taken from the list only.
ForgetInList(p) ==
    /\ known_peers' = SelectSeq(known_peers, LAMBDA q : q # p)
    /\ UNCHANGED peer_failed_msg_count

ForgetPeer(p) ==
    IF p \in Known
      THEN /\ known_peers' = RemoveFirst(known_peers, p)
           /\ peer_failed_msg_count' =
                [q \in DOMAIN peer_failed_msg_count \ {p} |-> peer_failed_msg_count[q]]
      ELSE UNCHANGED <<known_peers, peer_failed_msg_count>>

\* send, to a known peer: a success starts the count of failures anew.
SendSucceeds(p) ==
    /\ p \notin gone
    /\ peer_failed_msg_count' = [peer_failed_msg_count EXCEPT ![p] = 0]
    /\ UNCHANGED known_peers

\* Faulty variant: a failure is logged and not counted.
SendFailsUncounted(p) == UNCHANGED <<known_peers, peer_failed_msg_count>>

\* A failure: the third in a row is the last.
SendFails(p) ==
    IF peer_failed_msg_count[p] + 1 < Failures
      THEN /\ peer_failed_msg_count' = [peer_failed_msg_count EXCEPT ![p] = @ + 1]
           /\ UNCHANGED known_peers
      ELSE ForgetPeer(p)

\* send, which refuses a peer that is not known.
Send(p) ==
    IF p \in Known THEN SendSucceeds(p) \/ SendFails(p)
    ELSE UNCHANGED <<known_peers, peer_failed_msg_count>>

-----------------------------------------------------------------------------
(* greet_peers and broadcast_message *)

StartWalk(without, then) ==
    /\ pc' = "walk"
    /\ walk' = [at |-> 1, without |-> without, then |-> then,
                list |-> known_peers, reached |-> {}]

\* Faulty variant: the loop also passes over the peer after one it leaves out.
VisitEveryOther ==
    /\ pc = "walk"
    /\ walk.at <= Len(known_peers)
    /\ LET p == known_peers[walk.at] IN
         /\ IF p \in walk.without
              THEN /\ walk' = [walk EXCEPT !.at = @ + 2, !.reached = @ \cup {p}]
                   /\ UNCHANGED <<known_peers, peer_failed_msg_count>>
              ELSE /\ walk' = [walk EXCEPT !.at = @ + 1, !.reached = @ \cup {p}]
                   /\ Send(p)
    /\ UNCHANGED <<pc, sender, gone, controlled>>

\* One pass of the loop: Python goes by position, so when the peer at this
\* position is forgotten, the next one takes its place and is passed over.
Visit ==
    /\ pc = "walk"
    /\ walk.at <= Len(known_peers)
    /\ LET p == known_peers[walk.at] IN
         /\ IF p \in walk.without
              THEN UNCHANGED <<known_peers, peer_failed_msg_count>>
              ELSE Send(p)
         /\ walk' = [walk EXCEPT !.at = @ + 1, !.reached = @ \cup {p}]
    /\ UNCHANGED <<pc, sender, gone, controlled>>

EndWalk ==
    /\ pc = "walk"
    /\ walk.at > Len(known_peers)
    /\ pc' = walk.then
    /\ walk' = NoWalk
    /\ UNCHANGED <<known_peers, peer_failed_msg_count, sender, gone, controlled>>

-----------------------------------------------------------------------------
(* The start of a node *)

\* _init_network: the beacon could not be reached, or it has answered.
InitNetwork ==
    /\ pc = "hello"
    /\ \/ UNCHANGED <<known_peers, peer_failed_msg_count>>
       \/ \E list \in PeerLists : Connect(list)
    /\ pc' = "greet"
    /\ UNCHANGED <<walk, sender, gone, controlled>>

\* The request or the answer is lost.
LoseDatagram ==
    /\ pc \in {"hello", "asking"}
    /\ pc' = "blocked"
    /\ UNCHANGED <<known_peers, peer_failed_msg_count, walk, sender, gone, controlled>>

\* main greets the peers, and then start does.
GreetPeers ==
    /\ pc \in {"greet", "start"}
    /\ StartWalk({}, IF pc = "greet" THEN "start" ELSE "loop")
    /\ UNCHANGED <<known_peers, peer_failed_msg_count, sender, gone, controlled>>

-----------------------------------------------------------------------------
(* One pass of loop *)

Halt ==
    /\ pc = "loop"
    /\ pc' = "halted"
    /\ UNCHANGED <<known_peers, peer_failed_msg_count, walk, sender, gone, controlled>>

\* A resync is started with the peer of a missed block, which may be forgotten
\* by now.
StartResync ==
    /\ pc = "loop"
    /\ \E p \in Identities : Send(p)
    /\ UNCHANGED <<pc, walk, sender, gone, controlled>>

\* A new round in which the node has won the sortition.
BroadcastOwnBlock ==
    /\ pc = "loop"
    /\ StartWalk({}, "read")
    /\ UNCHANGED <<known_peers, peer_failed_msg_count, sender, gone, controlled>>

\* read: a peer that writes is known from then on.
Read ==
    /\ pc \in {"loop", "read"}
    /\ \E p \in Identities \ gone :
         /\ sender' = {p}
         /\ IF p \in Known THEN UNCHANGED <<known_peers, peer_failed_msg_count>>
            ELSE Connect(<<p>>)
    /\ pc' = "handle"
    /\ UNCHANGED <<walk, gone, controlled>>

\* The loop starts over, and control_number_of_peers is not called.
ReadTimeout ==
    /\ pc = "read"
    /\ pc' = "loop"
    /\ UNCHANGED <<known_peers, peer_failed_msg_count, walk, sender, gone, controlled>>

\* handle_new_block passes a block on, or not, to all but its sender and its
\* owner.
HandleBlock ==
    /\ pc = "handle"
    /\ \E owner \in Identities : StartWalk(sender \cup {owner}, "control")
    /\ sender' = {}
    /\ UNCHANGED <<known_peers, peer_failed_msg_count, gone, controlled>>

\* The requests and responses of a resync are answered to their sender or go
\* on with the peer of a missed block.
HandleResync ==
    /\ pc = "handle"
    /\ \E p \in Identities : Send(p)
    /\ pc' = "control"
    /\ sender' = {}
    /\ UNCHANGED <<walk, gone, controlled>>

\* A PeerForgetRequest, which only a listening node obeys.
HandleForgetRequest ==
    /\ pc = "handle"
    /\ \E p \in sender : ForgetPeer(p)
    /\ pc' = "control"
    /\ sender' = {}
    /\ UNCHANGED <<walk, gone, controlled>>

\* Any other message, and any that the state of the node has no branch for.
HandleNothing ==
    /\ pc = "handle"
    /\ pc' = "control"
    /\ sender' = {}
    /\ UNCHANGED <<known_peers, peer_failed_msg_count, walk, gone, controlled>>

-----------------------------------------------------------------------------
(* control_number_of_peers *)

\* Faulty variant: one peer more than the maximum is kept.
TrimLeavingOne(list) == IF Len(list) > MaxPeers + 1 THEN "trim" ELSE "loop"

\* Where the thread is when the known peers are these.
TrimOrLoop(list) == IF Len(list) > MaxPeers THEN "trim" ELSE "loop"

\* The loop that forgets peers goes on, or control_number_of_peers ends.
TrimOrEnd(list) ==
    /\ pc' = TrimOrLoop(list)
    /\ controlled' = (controlled \/ TrimOrLoop(list) = "loop")

Control ==
    /\ pc = "control"
    /\ IF Len(known_peers) < MinPeers THEN pc' = "asking" /\ UNCHANGED controlled
       ELSE TrimOrEnd(known_peers)
    /\ UNCHANGED <<known_peers, peer_failed_msg_count, walk, sender, gone>>

\* The beacon could not be reached, or the peers of its answer are connected
\* to, but those that are known.
AddPeers ==
    /\ pc = "asking"
    /\ \/ UNCHANGED <<known_peers, peer_failed_msg_count>>
       \/ \E list \in PeerLists : Range(list) \cap Known = {} /\ Connect(list)
    /\ TrimOrEnd(known_peers')
    /\ UNCHANGED <<walk, sender, gone>>

\* A random peer is asked to forget the node, and forgotten whether or not
\* the request could be sent.
TrimPeer ==
    /\ pc = "trim"
    /\ \E p \in Known : ForgetPeer(p)
    /\ TrimOrEnd(known_peers')
    /\ UNCHANGED <<walk, sender, gone>>

-----------------------------------------------------------------------------
\* A peer has ended, and the last of it is gone.
PeerGone ==
    /\ \E p \in Identities \ gone : gone' = gone \cup {p}
    /\ UNCHANGED <<known_peers, peer_failed_msg_count, pc, walk, sender, controlled>>

Next ==
    \/ InitNetwork \/ LoseDatagram \/ GreetPeers
    \/ Visit \/ EndWalk
    \/ Halt \/ StartResync \/ BroadcastOwnBlock \/ Read \/ ReadTimeout
    \/ HandleBlock \/ HandleResync \/ HandleForgetRequest \/ HandleNothing
    \/ Control \/ AddPeers \/ TrimPeer
    \/ PeerGone

\* A thread goes on, and the node goes on winning sortitions.
Fairness ==
    /\ WF_vars(InitNetwork \/ LoseDatagram) /\ WF_vars(GreetPeers)
    /\ WF_vars(Visit) /\ WF_vars(EndWalk)
    /\ WF_vars(HandleBlock \/ HandleResync \/ HandleForgetRequest \/ HandleNothing)
    /\ WF_vars(Control) /\ WF_vars(AddPeers \/ LoseDatagram) /\ WF_vars(TrimPeer)
    /\ WF_vars(ReadTimeout)
    /\ SF_vars(BroadcastOwnBlock)

Spec == Init /\ [][Next]_vars /\ Fairness
-----------------------------------------------------------------------------
(* Properties *)

\* The attributes.  The list holds no peer twice, and the counts are those of
\* the listed peers: a listed peer without a count would end the node with a
\* KeyError at the first send that fails (network.py:62), whatever order of
\* connecting, reading, failing and forgetting has led there.
TypeOK ==
    /\ known_peers \in Seq(Identities)
    /\ IsInjective(known_peers)
    /\ peer_failed_msg_count \in [Known -> 0 .. Failures - 1]
    /\ pc \in {"hello", "greet", "start", "walk", "loop", "read", "handle",
              "control", "asking", "trim", "blocked", "halted"}
    /\ walk \in [at : Nat \ {0}, without : SUBSET Identities,
                 then : {"start", "loop", "read", "control"},
                 list : Seq(Identities), reached : SUBSET Identities]
    /\ sender \subseteq Identities
    /\ gone \subseteq Identities
    /\ controlled \in BOOLEAN

\* What the list is allowed to hold between two messages: the maximum, or all
\* peers of the beacon's first answer as long as control_number_of_peers, which
\* alone knows of the maximum, has never come to its end.
Limit == IF ~controlled /\ NumPeersSend > MaxPeers THEN NumPeersSend ELSE MaxPeers

\* How far the list gets over the maximum, although control_number_of_peers runs
\* only after a handled message and connects to a whole answer of the beacon
\* before it forgets anybody (node.py:261-268, 330-333, 406): by no peer between
\* two messages, by one while a message is handled, and while peers are forgotten
\* up to what one peer fewer than the minimum and an answer make together.  With
\* the settings of demo/run_experiments.sh:38-39 for ten peers that is 18, the
\* maximum being 12.  Before the first message is done with, the limit may be
\* passed by the first answer alone, as docker-compose-local.yml:11, 71 has it.
BoundedPeers ==
    /\ pc \in {"hello", "greet", "start", "loop", "read", "halted"} =>
          Len(known_peers) <= Limit
    /\ pc \in {"walk", "handle", "control", "asking", "blocked"} =>
          Len(known_peers) <= Limit + 1
    /\ pc = "trim" =>
          Len(known_peers) <= Limit + 1 \/ Len(known_peers) < MinPeers + NumPeersSend

\* A broadcast goes over a list that its own failed sends shorten (node.py:164).
\* It comes to every peer of the list but one that stood right behind a peer
\* it has forgotten: so it never misses two peers in a row, and none at all
\* when no send fails for the third time.
SkipsOnlyBehindForgotten ==
    pc = "walk" => \A i \in DOMAIN walk.list :
        \/ walk.list[i] \in walk.reached
        \/ \E j \in walk.at .. Len(known_peers) : known_peers[j] = walk.list[i]
        \/ i > 1 /\ walk.list[i - 1] \in walk.reached \ Known

\* A peer that is gone is dropped for good by a node that goes on, although
\* every broadcast may pass over it (TODO.md:6: "drop peers from the local node
\* peerlist after too many "host unreachable" errors").
GoneAreForgotten ==
    \A p \in Identities :
        <>[](p \in gone => p \notin Known \/ pc \in {"blocked", "halted"})
=============================================================================
