-------------------------------- MODULE Beacon --------------------------------
(***************************************************************************)
(* The beacon through which nodes find each other (class Beacon,           *)
(* cpos/p2p/discovery/beacon.py).  It is one thread: it looks at the clock *)
(* and then handles one datagram.                                          *)
(*                                                                         *)
(* Its clients talk to it over UDP, which loses, repeats, delays and       *)
(* reorders datagrams, and clients stop without a word: so any message of  *)
(* any client may arrive at any time, or never.                            *)
(***************************************************************************)
EXTENDS Integers, FiniteSets

CONSTANTS
    Clients,       \* the identities of the nodes
    NumPeersSend,  \* num_peers_send
    MaxRound       \* bound: the last round

ASSUME BeaconAssumption ==
    /\ IsFiniteSet(Clients)
    /\ NumPeersSend \in Nat
    /\ MaxRound \in Nat

VARIABLES
    peers,          \* the identities in the list peers, which are distinct
    peers_still_alive_flags,
    current_round,
    reply,          \* the PeerList sent last
    reply_queue,    \* the messages whose senders are queued
    vouched         \* history: the last round in which a peer was registered
                    \* or has notified the beacon

vars == <<peers, peers_still_alive_flags, current_round, reply, reply_queue, vouched>>

Messages == [type : {"Hello", "PeerListRequest", "NotifyBeacon"}, id : Clients]

Long == 6   \* rounds

Init ==
    /\ peers = {}
    /\ peers_still_alive_flags = [p \in {} |-> 0]
    /\ current_round = 0
    /\ reply = {}
    /\ reply_queue = {}
    /\ vouched = [p \in Clients |-> -Long]

-----------------------------------------------------------------------------
\* manage_peer_forgetting: who has not been heard of since the last time goes.
Remembered == {p \in peers : peers_still_alive_flags[p] # 0}

\* Faulty variant: the flags are not reset.
RememberForever ==
    /\ peers' = Remembered
    /\ peers_still_alive_flags' = [p \in Remembered |-> 1]

\* Faulty variant: the flag of a peer that goes is kept.
KeepFlags ==
    /\ peers' = Remembered
    /\ peers_still_alive_flags' = [p \in DOMAIN peers_still_alive_flags |-> 0]

ManagePeerForgetting ==
    /\ peers' = Remembered
    /\ peers_still_alive_flags' = [p \in Remembered |-> 0]

\* update_round: the loop looks at the clock at least once a second, so no
\* round is skipped.
UpdateRound ==
    /\ current_round < MaxRound
    /\ current_round' = current_round + 1
    /\ IF current_round' % 3 = 0
         THEN ManagePeerForgetting
         ELSE UNCHANGED <<peers, peers_still_alive_flags>>
    /\ UNCHANGED <<reply, reply_queue, vouched>>

\* The peer is in the list and its flag is set.
Register(p) ==
    /\ peers' = peers \cup {p}
    /\ peers_still_alive_flags' =
         [q \in peers \cup {p} |-> IF q = p THEN 1 ELSE peers_still_alive_flags[q]]
    /\ vouched' = [vouched EXCEPT ![p] = current_round]

\* A random sample of the list is sent to whoever asks.
SendPeerList ==
    \E sample \in SUBSET peers' :
        /\ IF NumPeersSend < Cardinality(peers')
             THEN Cardinality(sample) = NumPeersSend
             ELSE sample = peers'
        /\ reply' = sample

\* The Hello of a client in the list leaves its flag alone.
Hello(p) ==
    /\ IF p \in peers
         THEN UNCHANGED <<peers, peers_still_alive_flags, vouched>>
         ELSE Register(p)
    /\ SendPeerList
    /\ UNCHANGED <<current_round, reply_queue>>

PeerListRequest(p) ==
    /\ UNCHANGED <<peers, peers_still_alive_flags, vouched>>
    /\ SendPeerList
    /\ UNCHANGED <<current_round, reply_queue>>

\* Faulty variant: a notification from a listed peer leaves its flag alone.
NotifyUnflagged(p) ==
    /\ IF p \in peers
         THEN /\ vouched' = [vouched EXCEPT ![p] = current_round]
              /\ UNCHANGED <<peers, peers_still_alive_flags>>
         ELSE Register(p)
    /\ reply_queue' = reply_queue \cup {[type |-> "NotifyBeacon", id |-> p]}
    /\ UNCHANGED <<current_round, reply>>

\* A client that asks for nothing enters the reply queue.
NotifyBeacon(p) ==
    /\ Register(p)
    /\ reply_queue' = reply_queue \cup {[type |-> "NotifyBeacon", id |-> p]}
    /\ UNCHANGED <<current_round, reply>>

Next ==
    \/ UpdateRound
    \/ \E p \in Clients : Hello(p) \/ PeerListRequest(p) \/ NotifyBeacon(p)

Spec == Init /\ [][Next]_vars

-----------------------------------------------------------------------------
(* Properties *)

\* The attributes of the beacon.  The flags are those of the listed peers: a
\* listed peer without one would end the thread with a KeyError at the next
\* forgetting (beacon.py:149), and one that is kept would never be deleted.
TypeOK ==
    /\ peers \subseteq Clients
    /\ peers_still_alive_flags \in [peers -> {0, 1}]
    /\ current_round \in Nat
    /\ reply \subseteq Clients
    /\ reply_queue \subseteq Messages
    /\ vouched \in [Clients -> Int]

\* Whoever is listed was registered or has notified the beacon within the last
\* six rounds.  README.md:102 has an operator rely on it: "wait for a period
\* equivalent to six times the round time" for the list to empty.
ListedRecently == \A p \in peers : current_round - vouched[p] < Long

\* Nobody is forgotten too early: whoever was registered or has notified the
\* beacon within the last three rounds is listed, so one lost notification, or
\* two, do not hide a running node (beacon.py:109-114, 145-156).
NotifiedAreListed == \A p \in Clients : current_round - vouched[p] <= 3 => p \in peers

-----------------------------------------------------------------------------
\* beacon.py:117, of reply_queue: "flush the reply queue, i.e., reply to all
\* received requests".  So the queue holds the senders of requests.
QueueHoldsRequests == \A m \in reply_queue : m.type # "NotifyBeacon"
=============================================================================
