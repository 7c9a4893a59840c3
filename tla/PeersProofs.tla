---------------------------- MODULE PeersProofs ----------------------------
(***************************************************************************)
(* The list of peers keeps within its bounds and every broadcast reaches   *)
(* all but those behind a forgotten peer, for any number of nodes, any     *)
(* limits and any failures of sends.                                       *)
(***************************************************************************)
EXTENDS Peers, SequenceTheorems, TLAPS

-----------------------------------------------------------------------------
(* Lists without repetition *)

List == {s \in Seq(Identities) : IsInjective(s)}

LEMMA InRange ==
    ASSUME NEW s \in Seq(Identities)
    PROVE  \A p : p \in Range(s) <=> \E j \in 1 .. Len(s) : s[j] = p
<1> QED
  BY DEF Range

\* What remove leaves: the peers behind p move up by one.
LEMMA RemovedList ==
    ASSUME NEW s \in List, NEW i \in 1 .. Len(s)
    PROVE  /\ RemoveFirst(s, s[i]) \in Seq(Identities)
           /\ Len(RemoveFirst(s, s[i])) = Len(s) - 1
           /\ \A j \in 1 .. Len(s) - 1 :
                 RemoveFirst(s, s[i])[j] = IF j < i THEN s[j] ELSE s[j + 1]
<1> DEFINE I == {j \in 1 .. Len(s) : s[j] = s[i]}
           front == SubSeq(s, 1, i - 1)
           back == SubSeq(s, i + 1, Len(s))
<1>1. s \in Seq(Identities) /\ Len(s) \in Nat /\ I = {i}
  BY DEF List, IsInjective
<1>2. Min(I) = i
  BY <1>1 DEF Min
<1>3. RemoveFirst(s, s[i]) = front \o back
  BY <1>1, <1>2 DEF RemoveFirst, RemoveAt, SelectInSeq
<1>4. /\ front \in Seq(Identities)
      /\ Len(front) = i - 1
      /\ \A j \in 1 .. i - 1 : front[j] = s[j]
  BY <1>1, SubSeqProperties
<1>5. /\ back \in Seq(Identities)
      /\ Len(back) = Len(s) - i
      /\ \A j \in 1 .. Len(s) - i : back[j] = s[i + j]
  BY <1>1, SubSeqProperties
<1>6. /\ front \o back \in Seq(Identities)
      /\ Len(front \o back) = Len(s) - 1
      /\ \A j \in 1 .. Len(s) - 1 :
            (front \o back)[j] = IF j <= i - 1 THEN front[j] ELSE back[j - (i - 1)]
  <2> HIDE DEF front, back
  <2>1. /\ front \o back \in Seq(Identities)
        /\ Len(front \o back) = Len(front) + Len(back)
        /\ \A j \in 1 .. Len(front) + Len(back) :
              (front \o back)[j] = IF j <= Len(front) THEN front[j] ELSE back[j - Len(front)]
    BY <1>4, <1>5, ConcatProperties
  <2>2. Len(front) + Len(back) = Len(s) - 1
    BY <1>1, <1>4, <1>5
  <2> QED
    BY <1>4, <2>1, <2>2
<1>7. \A j \in 1 .. Len(s) - 1 : (front \o back)[j] = IF j < i THEN s[j] ELSE s[j + 1]
  <2> HIDE DEF front, back
  <2> TAKE j \in 1 .. Len(s) - 1
  <2>1. CASE j < i
    BY <2>1, <1>1, <1>4, <1>6
  <2>2. CASE ~(j < i)
    <3>1. j - (i - 1) \in 1 .. Len(s) - i /\ i + (j - (i - 1)) = j + 1
      BY <2>2, <1>1
    <3> QED
      BY <2>2, <3>1, <1>1, <1>5, <1>6
  <2> QED
    BY <2>1, <2>2
<1> QED
  BY <1>3, <1>6, <1>7

\* The list without p holds everybody else, and nobody twice.
LEMMA RemovedPeer ==
    ASSUME NEW s \in List, NEW p \in Range(s)
    PROVE  /\ RemoveFirst(s, p) \in List
           /\ Len(RemoveFirst(s, p)) = Len(s) - 1
           /\ Range(RemoveFirst(s, p)) = Range(s) \ {p}
<1> DEFINE t == RemoveFirst(s, p)
<1>1. PICK i \in 1 .. Len(s) : s[i] = p
  BY DEF Range, List
<1>2. s \in Seq(Identities) /\ Len(s) \in Nat
      /\ \A j, k \in 1 .. Len(s) : s[j] = s[k] => j = k
  BY DEF List, IsInjective
<1>3. /\ t \in Seq(Identities)
      /\ Len(t) = Len(s) - 1
      /\ \A j \in 1 .. Len(s) - 1 : t[j] = IF j < i THEN s[j] ELSE s[j + 1]
  BY <1>1, RemovedList
<1> HIDE DEF t
<1>4. IsInjective(t)
  <2>1. \A j, k \in 1 .. Len(s) - 1 : t[j] = t[k] => j = k
    BY <1>2, <1>3
  <2> QED
    BY <2>1, <1>3 DEF IsInjective
<1>5. Range(t) \subseteq Range(s) \ {p}
  <2> SUFFICES ASSUME NEW j \in 1 .. Len(s) - 1 PROVE t[j] \in Range(s) /\ t[j] # p
      BY <1>3 DEF Range
  <2>1. PICK k \in 1 .. Len(s) : t[j] = s[k] /\ k # i
    BY <1>2, <1>3
  <2> QED
    BY <2>1, <1>1, <1>2 DEF Range
<1>6. Range(s) \ {p} \subseteq Range(t)
  <2> SUFFICES ASSUME NEW q \in Range(s) \ {p} PROVE \E j \in 1 .. Len(t) : t[j] = q
      BY <1>3, InRange
  <2>0. PICK k \in 1 .. Len(s) : q = s[k] /\ s[k] # p
    BY <1>2, InRange
  <2>1. CASE k < i
    BY <2>1, <2>0, <1>2, <1>3
  <2>2. CASE k > i
    <3>1. k - 1 \in 1 .. Len(s) - 1 /\ ~(k - 1 < i) /\ (k - 1) + 1 = k
      BY <2>2, <1>2
    <3> QED
      BY <3>1, <2>0, <1>3
  <2> QED
    BY <2>0, <2>1, <2>2, <1>1, <1>2
<1> QED
  BY <1>3, <1>4, <1>5, <1>6 DEF t, List

\* Two lists with nobody in common make one.
LEMMA JoinedLists ==
    ASSUME NEW s \in List, NEW t \in List, Range(s) \cap Range(t) = {}
    PROVE  /\ s \o t \in List
           /\ Len(s \o t) = Len(s) + Len(t)
           /\ Range(s \o t) = Range(s) \cup Range(t)
<1> DEFINE u == s \o t
<1>1. /\ s \in Seq(Identities) /\ t \in Seq(Identities) /\ Len(s) \in Nat /\ Len(t) \in Nat
      /\ \A j, k \in 1 .. Len(s) : s[j] = s[k] => j = k
      /\ \A j, k \in 1 .. Len(t) : t[j] = t[k] => j = k
  BY DEF List, IsInjective
<1>2. /\ u \in Seq(Identities)
      /\ Len(u) = Len(s) + Len(t)
      /\ \A j \in 1 .. Len(s) + Len(t) : u[j] = IF j <= Len(s) THEN s[j] ELSE t[j - Len(s)]
  BY <1>1, ConcatProperties
<1> HIDE DEF u
<1>3. \A j \in 1 .. Len(s), k \in 1 .. Len(t) : s[j] # t[k]
  BY <1>1 DEF Range
<1>4. \A j \in 1 .. Len(s) + Len(t) :
         \/ j \in 1 .. Len(s) /\ u[j] = s[j]
         \/ j - Len(s) \in 1 .. Len(t) /\ u[j] = t[j - Len(s)] /\ j > Len(s)
  BY <1>1, <1>2
<1>5. IsInjective(u)
  <2>1. ASSUME NEW j \in 1 .. Len(s) + Len(t), NEW k \in 1 .. Len(s) + Len(t), u[j] = u[k]
        PROVE  j = k
    <3>1. CASE j \in 1 .. Len(s)
      BY <2>1, <3>1, <1>1, <1>3, <1>4
    <3>2. CASE j \notin 1 .. Len(s)
      <4>1. j - Len(s) \in 1 .. Len(t) /\ u[j] = t[j - Len(s)]
        BY <3>2, <1>4
      <4>2. k - Len(s) \in 1 .. Len(t) /\ u[k] = t[k - Len(s)]
        BY <2>1, <4>1, <1>3, <1>4
      <4>3. j - Len(s) = k - Len(s)
        BY <2>1, <4>1, <4>2, <1>1
      <4> QED
        BY <4>3, <1>1
    <3> QED
      BY <3>1, <3>2
  <2> QED
    BY <2>1, <1>2 DEF IsInjective
<1>6. Range(u) \subseteq Range(s) \cup Range(t)
  BY <1>1, <1>2, <1>4 DEF Range
<1>7. Range(s) \subseteq Range(u)
  BY <1>1, <1>2 DEF Range
<1>8. Range(t) \subseteq Range(u)
  <2> SUFFICES ASSUME NEW q \in Range(t) PROVE \E j \in 1 .. Len(u) : u[j] = q
      BY <1>2, InRange
  <2>2. PICK k \in 1 .. Len(t) : t[k] = q
    BY <1>1, InRange
  <2>1. /\ Len(s) + k \in 1 .. Len(s) + Len(t) /\ ~(Len(s) + k <= Len(s))
        /\ (Len(s) + k) - Len(s) = k
    BY <1>1
  <2> QED
    BY <2>1, <2>2, <1>2
<1> QED
  BY <1>2, <1>5, <1>6, <1>7, <1>8 DEF u, List

-----------------------------------------------------------------------------
(* class Network *)

\* The part of TypeOK about the two attributes of Network.
NetworkOK ==
    /\ known_peers \in List
    /\ peer_failed_msg_count \in [Known -> 0 .. Failures - 1]

LEMMA PeerListsAreLists ==
    ASSUME NEW list \in PeerLists
    PROVE  list \in List /\ Len(list) <= NumPeersSend
<1>1. PICK k \in 0 .. NumPeersSend : list \in [1 .. k -> Identities \ gone] /\ IsInjective(list)
  BY DEF PeerLists
<1>2. k \in Nat /\ k <= NumPeersSend
  BY PeersAssumption
<1>3. list \in Seq(Identities) /\ Len(list) = k
  BY <1>1, <1>2
<1> QED
  BY <1>1, <1>2, <1>3 DEF List

LEMMA ConnectOK ==
    ASSUME NetworkOK, NEW list \in List, Range(list) \cap Known = {}, Connect(list)
    PROVE  NetworkOK' /\ Len(known_peers') = Len(known_peers) + Len(list)
<1>1. /\ known_peers' \in List
      /\ Len(known_peers') = Len(known_peers) + Len(list)
      /\ Range(known_peers') = Known \cup Range(list)
  BY JoinedLists DEF NetworkOK, Connect, Known
<1>2. peer_failed_msg_count' = Zeroed(Range(list)) /\ DOMAIN peer_failed_msg_count = Known
  BY DEF Connect, NetworkOK
<1>3. Zeroed(Range(list)) \in [Known \cup Range(list) -> 0 .. Failures - 1]
  BY <1>2 DEF Zeroed, NetworkOK, Failures
<1> QED
  BY <1>1, <1>2, <1>3 DEF NetworkOK, Known

\* What happens to the list when a peer is forgotten.
Removed(p) ==
    /\ p \in Known
    /\ known_peers' = RemoveFirst(known_peers, p)
    /\ Len(known_peers') = Len(known_peers) - 1
    /\ Known' = Known \ {p}

LEMMA ForgetPeerOK ==
    ASSUME NetworkOK, NEW p \in Identities, ForgetPeer(p)
    PROVE  NetworkOK' /\ (UNCHANGED known_peers \/ Removed(p))
<1>1. CASE p \in Known
  <2>1. known_peers' \in List /\ Removed(p)
    BY <1>1, RemovedPeer DEF ForgetPeer, NetworkOK, Known, Removed
  <2>2. peer_failed_msg_count' \in [Known \ {p} -> 0 .. Failures - 1]
    BY <1>1 DEF ForgetPeer, NetworkOK
  <2> QED
    BY <2>1, <2>2 DEF NetworkOK, Removed
<1>2. CASE p \notin Known
  BY <1>2 DEF ForgetPeer, NetworkOK, Known
<1> QED
  BY <1>1, <1>2

LEMMA SendOK ==
    ASSUME NetworkOK, NEW p \in Identities, Send(p)
    PROVE  NetworkOK' /\ (UNCHANGED known_peers \/ Removed(p))
<1>1. CASE p \notin Known
  BY <1>1 DEF Send, NetworkOK, Known
<1>2. CASE p \in Known /\ SendSucceeds(p)
  <2>1. peer_failed_msg_count' \in [Known -> 0 .. Failures - 1] /\ UNCHANGED known_peers
    BY <1>2 DEF SendSucceeds, NetworkOK, Failures
  <2> QED
    BY <2>1 DEF NetworkOK, Known
<1>3. CASE p \in Known /\ SendFails(p)
  <2>1. CASE peer_failed_msg_count[p] + 1 < Failures
    <3>1. UNCHANGED known_peers
      BY <1>3, <2>1 DEF SendFails
    <3>2. peer_failed_msg_count[p] \in 0 .. Failures - 1
      BY <1>3 DEF NetworkOK
    <3>3. peer_failed_msg_count[p] + 1 \in 0 .. Failures - 1
      BY <2>1, <3>2 DEF Failures
    <3>4. peer_failed_msg_count' \in [Known -> 0 .. Failures - 1]
      BY <1>3, <2>1, <3>3 DEF SendFails, NetworkOK
    <3> QED
      BY <3>1, <3>4 DEF NetworkOK, Known
  <2>2. CASE ~(peer_failed_msg_count[p] + 1 < Failures)
    BY <1>3, <2>2, ForgetPeerOK DEF SendFails
  <2> QED
    BY <2>1, <2>2
<1> QED
  BY <1>1, <1>2, <1>3 DEF Send

-----------------------------------------------------------------------------
(* The inductive invariant *)

\* The rest of TypeOK.
ThreadOK ==
    /\ pc \in {"hello", "greet", "start", "walk", "loop", "read", "handle",
              "control", "asking", "trim", "blocked", "halted"}
    /\ walk \in [at : Nat \ {0}, without : SUBSET Identities,
                 then : {"start", "loop", "read", "control"},
                 list : Seq(Identities), reached : SUBSET Identities]
    /\ sender \subseteq Identities
    /\ gone \subseteq Identities
    /\ controlled \in BOOLEAN

\* A loop over the peers has as many of them as the place it goes on to allows,
\* and the beacon is asked only by a node that has too few.
Bounds ==
    /\ pc = "hello" => known_peers = << >> /\ ~controlled
    /\ pc = "walk" /\ walk.then # "control" => Len(known_peers) <= Limit
    /\ pc = "asking" => Len(known_peers) < MinPeers
    /\ BoundedPeers

\* While a loop goes on, what is left of the list is its old tail, moved up by
\* the number of the peers forgotten; before it, each peer was reached or was
\* the one behind a forgotten peer.
Dropped == Len(walk.list) - Len(known_peers)

Reached(i) ==
    \/ walk.list[i] \in walk.reached
    \/ i > 1 /\ walk.list[i - 1] \in walk.reached \ Known

WalkOK ==
    pc = "walk" =>
        /\ Dropped >= 0
        /\ \A j \in 1 .. Len(known_peers) :
              j >= walk.at => known_peers[j] = walk.list[j + Dropped]
        /\ \A i \in 1 .. Len(walk.list) : i < walk.at + Dropped => Reached(i)

IInv == NetworkOK /\ ThreadOK /\ Bounds /\ WalkOK

LEMMA LimitBounds == Limit \in Nat /\ MaxPeers <= Limit
<1> QED
  BY PeersAssumption DEF Limit

LEMMA InitIInv == Init => IInv
<1> SUFFICES ASSUME Init PROVE IInv
    OBVIOUS
<1>1. known_peers \in List /\ Known = {} /\ Len(known_peers) = 0
  BY DEF Init, List, IsInjective, Known, Range
<1>2. NetworkOK
  BY <1>1 DEF Init, NetworkOK
<1>3. ThreadOK
  <2>1. controlled \in BOOLEAN
    BY DEF Init
  <2>2. pc = "hello" /\ walk = NoWalk /\ sender = {} /\ gone = {}
    BY DEF Init
  <2> QED
    BY <2>1, <2>2 DEF ThreadOK, NoWalk
<1>4. Bounds /\ WalkOK
  BY <1>1, LimitBounds DEF Init, Bounds, BoundedPeers, WalkOK
<1> QED
  BY <1>2, <1>3, <1>4 DEF IInv

-----------------------------------------------------------------------------
(* The loops *)

LEMMA StartWalkIInv ==
    ASSUME IInv, NEW without \in SUBSET Identities,
           NEW then \in {"start", "loop", "read", "control"},
           then # "control" => Len(known_peers) <= Limit,
           Len(known_peers) <= Limit + 1,
           StartWalk(without, then),
           UNCHANGED <<known_peers, peer_failed_msg_count, gone, controlled>>,
           sender' \in {sender, {}}
    PROVE  IInv'
<1>1. known_peers \in Seq(Identities) /\ Len(known_peers) \in Nat
  BY DEF IInv, NetworkOK, List
<1>2. NetworkOK'
  BY DEF IInv, NetworkOK, Known
<1>3. ThreadOK'
  BY <1>1 DEF IInv, ThreadOK, StartWalk
<1>4. Bounds'
  BY DEF Bounds, BoundedPeers, Limit, StartWalk
<1>5. WalkOK'
  <2>1. /\ walk'.list = known_peers /\ walk'.at = 1 /\ Dropped' = 0
    BY <1>1 DEF StartWalk, Dropped
  <2> QED
    BY <1>1, <2>1 DEF WalkOK
<1> QED
  BY <1>2, <1>3, <1>4, <1>5 DEF IInv

\* One pass of the loop: at most one more peer is reached, and at most that
\* one is forgotten.
LEMMA VisitIInv ==
    ASSUME IInv, Visit
    PROVE  IInv'
<1> DEFINE p == known_peers[walk.at]
           n == Len(known_peers)
           m == Len(walk.list)
<1>1. /\ known_peers \in Seq(Identities) /\ n \in Nat /\ m \in Nat
      /\ walk.at \in Nat \ {0} /\ walk.at <= n /\ walk.list \in Seq(Identities)
      /\ \A j, k \in 1 .. n : known_peers[j] = known_peers[k] => j = k
  BY DEF IInv, ThreadOK, NetworkOK, List, IsInjective, Visit
<1>2. p \in Identities /\ p \in Known
  BY <1>1, InRange DEF Known
<1>3. NetworkOK' /\ (UNCHANGED known_peers \/ Removed(p))
  <2>1. CASE p \in walk.without
    BY <2>1 DEF Visit, IInv, NetworkOK, Known
  <2>2. CASE p \notin walk.without
    BY <1>2, <2>2, SendOK DEF Visit, IInv
  <2> QED
    BY <2>1, <2>2
<1>4. /\ walk'.at = walk.at + 1
      /\ walk'.reached = walk.reached \cup {p}
      /\ walk'.list = walk.list /\ walk'.then = walk.then /\ walk'.without = walk.without
      /\ pc = "walk" /\ pc' = "walk" /\ UNCHANGED <<sender, gone, controlled>>
      /\ walk' = [walk EXCEPT !.at = @ + 1, !.reached = @ \cup {p}]
  BY DEF Visit, IInv, ThreadOK
<1>5. ThreadOK'
  <2>1. walk.at + 1 \in Nat \ {0} /\ walk.reached \cup {p} \subseteq Identities
    BY <1>1, <1>2 DEF IInv, ThreadOK
  <2> HIDE DEF p
  <2> QED
    BY <2>1, <1>4 DEF IInv, ThreadOK
<1>6. Len(known_peers') \in Nat /\ Len(known_peers') <= n
  BY <1>1, <1>3 DEF Removed, NetworkOK, List
<1>7. Bounds'
  <2>1. Limit' = Limit
    BY <1>4 DEF Limit
  <2> QED
    BY <1>1, <1>4, <1>6, <2>1, LimitBounds DEF IInv, Bounds, BoundedPeers
<1>8. /\ Dropped = m - n /\ Dropped \in Nat
      /\ \A j \in 1 .. n : j >= walk.at => known_peers[j] = walk.list[j + Dropped]
      /\ \A i \in 1 .. m : i < walk.at + Dropped => Reached(i)
  BY <1>1, <1>4 DEF IInv, WalkOK, Dropped
<1>0. n \in Nat /\ m \in Nat /\ walk.at \in Nat /\ walk.at > 0 /\ Dropped \in Nat
  BY <1>1, <1>8
<1>9. walk.list[walk.at + Dropped] = p
  <2>1. walk.at \in 1 .. n /\ walk.at >= walk.at
    BY <1>1
  <2> QED
    BY <2>1, <1>8
<1>10. Known' \subseteq Known
  BY <1>3 DEF Removed, Known
<1>11. \A i \in 1 .. m : Reached(i) => Reached(i)'
  BY <1>4, <1>10 DEF Reached
<1>12. \A i \in 1 .. m : i < walk.at + Dropped + 1 => Reached(i)'
  <2> SUFFICES ASSUME NEW i \in 1 .. m, i < walk.at + Dropped + 1 PROVE Reached(i)'
      OBVIOUS
  <2>1. CASE i < walk.at + Dropped
    BY <2>1, <1>8, <1>11
  <2>2. CASE i = walk.at + Dropped
    BY <2>2, <1>4, <1>9 DEF Reached
  <2> QED
    BY <2>1, <2>2, <1>0
<1>13. CASE UNCHANGED known_peers
  <2>1. Dropped' = Dropped
    BY <1>4, <1>13 DEF Dropped
  <2>2. WalkOK'
    BY <1>1, <1>4, <1>8, <1>12, <1>13, <2>1 DEF WalkOK
  <2> QED
    BY <1>3, <1>5, <1>7, <2>2 DEF IInv
<1>14. CASE Removed(p)
  <2>1. Dropped' = Dropped + 1 /\ Len(known_peers') = n - 1
    BY <1>1, <1>4, <1>14 DEF Dropped, Removed
  <2>2. \A j \in 1 .. n - 1 : j >= walk.at => known_peers'[j] = known_peers[j + 1]
    <3>1. /\ known_peers \in List /\ walk.at \in 1 .. n
          /\ known_peers' = RemoveFirst(known_peers, known_peers[walk.at])
      BY <1>1, <1>14 DEF Removed, IInv, NetworkOK
    <3>2. \A j \in 1 .. n - 1 :
             known_peers'[j] = IF j < walk.at THEN known_peers[j] ELSE known_peers[j + 1]
      BY <3>1, RemovedList
    <3> QED
      BY <1>1, <3>2
  <2>3. \A j \in 1 .. n - 1 : j >= walk.at + 1 => known_peers'[j] = walk.list[j + Dropped']
    <3> SUFFICES ASSUME NEW j \in 1 .. n - 1, j >= walk.at + 1
                 PROVE  known_peers'[j] = walk.list[j + Dropped']
        OBVIOUS
    <3>1. j + 1 \in 1 .. n /\ j + 1 >= walk.at /\ j >= walk.at
          /\ (j + 1) + Dropped = j + Dropped'
      BY <1>0, <2>1
    <3> QED
      BY <3>1, <1>8, <2>2
  <2>4. \A i \in 1 .. m : i < walk.at + 1 + Dropped' => Reached(i)'
    <3> SUFFICES ASSUME NEW i \in 1 .. m, i < walk.at + 1 + Dropped' PROVE Reached(i)'
        OBVIOUS
    <3>1. CASE i < walk.at + Dropped + 1
      BY <3>1, <1>12
    <3>2. CASE i = walk.at + Dropped + 1
      <4>1. i > 1 /\ i - 1 = walk.at + Dropped
        BY <3>2, <1>0
      <4> QED
        BY <4>1, <1>4, <1>9, <1>14 DEF Reached, Removed
    <3> QED
      BY <3>1, <3>2, <2>1, <1>0
  <2>5. WalkOK'
    BY <1>4, <1>8, <1>1, <2>1, <2>3, <2>4 DEF WalkOK
  <2> QED
    BY <1>3, <1>5, <1>7, <2>5 DEF IInv
<1> QED
  BY <1>3, <1>13, <1>14

LEMMA EndWalkIInv ==
    ASSUME IInv, EndWalk
    PROVE  IInv'
<1>1. Len(known_peers) \in Nat /\ Limit \in Nat /\ (EndWalk => Limit' = Limit)
  BY LimitBounds DEF IInv, NetworkOK, List, EndWalk, Limit
<1>2. NetworkOK'
  BY DEF EndWalk, IInv, NetworkOK, Known
<1>3. ThreadOK' /\ pc' \in {"start", "loop", "read", "control"}
  BY DEF EndWalk, NoWalk, IInv, ThreadOK
<1>4. Bounds' /\ WalkOK'
  BY <1>1, <1>3 DEF EndWalk, IInv, ThreadOK, Bounds, BoundedPeers, WalkOK
<1> QED
  BY <1>2, <1>3, <1>4 DEF IInv

\* A step outside the loops that leaves the list within its bounds.
LEMMA PlainStep ==
    ASSUME IInv, NetworkOK', UNCHANGED walk,
           sender' \subseteq Identities, gone' \subseteq Identities, controlled' \in BOOLEAN,
           pc' \in {"greet", "start", "loop", "read", "handle", "control", "asking", "trim",
                   "blocked", "halted"},
           pc' \in {"greet", "start", "loop", "read", "halted"} => Len(known_peers') <= Limit',
           pc' \in {"handle", "control", "asking", "blocked"} => Len(known_peers') <= Limit' + 1,
           pc' = "asking" => Len(known_peers') < MinPeers,
           pc' = "trim" => \/ Len(known_peers') <= Limit' + 1
                          \/ Len(known_peers') < MinPeers + NumPeersSend
    PROVE  IInv'
<1>1. ThreadOK'
  BY DEF IInv, ThreadOK
<1>2. Bounds' /\ WalkOK'
  BY DEF Bounds, BoundedPeers, WalkOK
<1> QED
  BY <1>1, <1>2 DEF IInv

-----------------------------------------------------------------------------
(* The steps *)

LEMMA StartIInv ==
    ASSUME IInv, InitNetwork \/ LoseDatagram \/ GreetPeers
    PROVE  IInv'
<1>0. /\ Len(known_peers) \in Nat /\ Limit \in Nat
      /\ (InitNetwork \/ LoseDatagram \/ GreetPeers => UNCHANGED controlled /\ Limit' = Limit)
  BY LimitBounds DEF IInv, NetworkOK, List, Limit, InitNetwork, LoseDatagram, GreetPeers
<1>1. CASE InitNetwork
  <2>1. known_peers = << >> /\ known_peers \in List /\ Len(known_peers) = 0 /\ Known = {}
    BY <1>1 DEF InitNetwork, IInv, Bounds, NetworkOK, Known, Range
  <2>2. CASE UNCHANGED <<known_peers, peer_failed_msg_count>>
    <3>1. NetworkOK' /\ Len(known_peers') <= Limit
      BY <2>1, <2>2, LimitBounds DEF IInv, NetworkOK, Known
    <3> QED
      BY <1>0, <1>1, <3>1, PlainStep DEF InitNetwork, IInv, ThreadOK
  <2>3. ASSUME NEW list \in PeerLists, Connect(list) PROVE IInv'
    <3>1. NetworkOK' /\ Len(known_peers') = Len(list) /\ Len(list) \in Nat
          /\ Len(list) <= NumPeersSend
      BY <2>1, <2>3, PeerListsAreLists, ConnectOK DEF IInv, List
    <3>2. Len(known_peers') <= Limit
      BY <1>1, <3>1, PeersAssumption DEF InitNetwork, Limit, IInv, Bounds
    <3> QED
      BY <1>0, <1>1, <3>1, <3>2, PlainStep DEF InitNetwork, IInv, ThreadOK
  <2> QED
    BY <1>1, <2>2, <2>3 DEF InitNetwork
<1>2. CASE LoseDatagram
  <2>1. NetworkOK' /\ Len(known_peers') <= Limit + 1
    BY <1>0, <1>2 DEF LoseDatagram, IInv, NetworkOK, Known, Bounds, BoundedPeers
  <2> QED
    BY <1>0, <1>2, <2>1, PlainStep DEF LoseDatagram, IInv, ThreadOK
<1>3. CASE GreetPeers
  <2>1. Len(known_peers) <= Limit
    BY <1>3 DEF GreetPeers, IInv, Bounds, BoundedPeers
  <2>2. Len(known_peers) <= Limit + 1
    BY <1>0, <2>1
  <2>3. PICK then \in {"start", "loop"} : StartWalk({}, then)
    BY <1>3 DEF GreetPeers
  <2> QED
    BY <1>3, <2>1, <2>2, <2>3, StartWalkIInv DEF GreetPeers
<1> QED
  BY <1>1, <1>2, <1>3

LEMMA LoopIInv ==
    ASSUME IInv, Halt \/ StartResync \/ BroadcastOwnBlock \/ Read \/ ReadTimeout
    PROVE  IInv'
<1>1. /\ Len(known_peers) \in Nat /\ Limit \in Nat /\ Len(known_peers) <= Limit
      /\ Len(known_peers) <= Limit + 1 /\ UNCHANGED controlled /\ Limit' = Limit
  <2>1. /\ Len(known_peers) \in Nat /\ Limit \in Nat /\ Len(known_peers) <= Limit
        /\ UNCHANGED controlled
    BY LimitBounds
    DEF Halt, StartResync, BroadcastOwnBlock, Read, ReadTimeout,
        IInv, NetworkOK, List, Bounds, BoundedPeers
  <2> QED
    BY <2>1 DEF Limit
<1>2. CASE Halt \/ ReadTimeout
  <2>1. NetworkOK' /\ Len(known_peers') <= Limit
    BY <1>1, <1>2 DEF Halt, ReadTimeout, IInv, NetworkOK, Known
  <2> QED
    BY <1>1, <1>2, <2>1, PlainStep DEF Halt, ReadTimeout, IInv, ThreadOK
<1>3. CASE StartResync
  <2>1. PICK p \in Identities : Send(p)
    BY <1>3 DEF StartResync
  <2>2. NetworkOK' /\ (UNCHANGED known_peers \/ Removed(p))
    BY <2>1, SendOK DEF IInv
  <2>3. Len(known_peers') <= Limit
    BY <1>1, <2>2 DEF Removed
  <2> QED
    BY <1>1, <1>3, <2>2, <2>3, PlainStep DEF StartResync, IInv, ThreadOK
<1>4. CASE BroadcastOwnBlock
  BY <1>1, <1>4, StartWalkIInv DEF BroadcastOwnBlock
<1>5. CASE Read
  <2>1. PICK p \in Identities \ gone :
           /\ sender' = {p}
           /\ IF p \in Known THEN UNCHANGED <<known_peers, peer_failed_msg_count>>
              ELSE Connect(<<p>>)
    BY <1>5 DEF Read
  <2>2. NetworkOK' /\ Len(known_peers') <= Limit + 1
    <3>1. CASE p \in Known
      BY <1>1, <2>1, <3>1 DEF IInv, NetworkOK, Known
    <3>2. CASE p \notin Known
      <4>1. <<p>> \in List /\ Len(<<p>>) = 1 /\ Range(<<p>>) = {p}
        BY DEF List, IsInjective, Range
      <4>2. Range(<<p>>) \cap Known = {}
        BY <3>2, <4>1
      <4>3. NetworkOK' /\ Len(known_peers') = Len(known_peers) + Len(<<p>>)
        BY <2>1, <3>2, <4>1, <4>2, ConnectOK DEF IInv
      <4> QED
        BY <1>1, <4>1, <4>3
    <3> QED
      BY <3>1, <3>2
  <2> QED
    BY <1>1, <1>5, <2>1, <2>2, PlainStep DEF Read, IInv, ThreadOK
<1> QED
  BY <1>2, <1>3, <1>4, <1>5

LEMMA HandleIInv ==
    ASSUME IInv, HandleBlock \/ HandleResync \/ HandleForgetRequest \/ HandleNothing
    PROVE  IInv'
<1>1. /\ Len(known_peers) \in Nat /\ Limit \in Nat /\ Len(known_peers) <= Limit + 1
      /\ UNCHANGED controlled /\ Limit' = Limit
  BY LimitBounds
  DEF HandleBlock, HandleResync, HandleForgetRequest, HandleNothing,
      IInv, NetworkOK, List, Bounds, BoundedPeers, Limit
<1>2. CASE HandleBlock
  <2>1. PICK owner \in Identities : StartWalk(sender \cup {owner}, "control")
    BY <1>2 DEF HandleBlock
  <2>2. sender \cup {owner} \in SUBSET Identities
    BY DEF IInv, ThreadOK
  <2> QED
    BY <1>1, <1>2, <2>1, <2>2, StartWalkIInv DEF HandleBlock
<1>3. CASE HandleResync \/ HandleForgetRequest
  <2>1. PICK p \in Identities : Send(p) \/ ForgetPeer(p)
    BY <1>3 DEF HandleResync, HandleForgetRequest, IInv, ThreadOK
  <2>2. NetworkOK' /\ (UNCHANGED known_peers \/ Removed(p))
    BY <2>1, SendOK, ForgetPeerOK DEF IInv
  <2>3. Len(known_peers') <= Limit + 1
    BY <1>1, <2>2 DEF Removed
  <2> QED
    BY <1>1, <1>3, <2>2, <2>3, PlainStep DEF HandleResync, HandleForgetRequest, IInv, ThreadOK
<1>4. CASE HandleNothing
  <2>1. NetworkOK' /\ Len(known_peers') <= Limit + 1
    BY <1>1, <1>4 DEF HandleNothing, IInv, NetworkOK, Known
  <2> QED
    BY <1>1, <1>4, <2>1, PlainStep DEF HandleNothing, IInv, ThreadOK
<1> QED
  BY <1>2, <1>3, <1>4

\* The loop that forgets peers, or what comes after it.
LEMMA TrimOrEndStep ==
    ASSUME IInv, NetworkOK', UNCHANGED <<walk, sender, gone>>, TrimOrEnd(known_peers'),
           \/ Len(known_peers') <= Limit + 1
           \/ Len(known_peers') < MinPeers + NumPeersSend
    PROVE  IInv'
<1>1. Len(known_peers') \in Nat /\ MaxPeers \in Nat
  BY PeersAssumption DEF NetworkOK, List
<1>2. CASE Len(known_peers') > MaxPeers
  <2>1. pc' = "trim" /\ UNCHANGED controlled
    BY <1>2 DEF TrimOrEnd, TrimOrLoop, IInv, ThreadOK
  <2>2. Limit' = Limit
    BY <2>1 DEF Limit
  <2> QED
    BY <2>1, <2>2, PlainStep DEF IInv, ThreadOK
<1>3. CASE ~(Len(known_peers') > MaxPeers)
  <2>1. pc' = "loop" /\ controlled'
    BY <1>3 DEF TrimOrEnd, TrimOrLoop
  <2>2. Len(known_peers') <= Limit'
    BY <1>1, <1>3, <2>1 DEF Limit
  <2>3. controlled' \in BOOLEAN
    BY <2>1 DEF TrimOrEnd, TrimOrLoop
  <2> QED
    BY <2>1, <2>2, <2>3, PlainStep DEF IInv, ThreadOK
<1> QED
  BY <1>2, <1>3

LEMMA ControlIInv ==
    ASSUME IInv, Control \/ AddPeers \/ TrimPeer
    PROVE  IInv'
<1>0. Len(known_peers) \in Nat /\ Limit \in Nat /\ MinPeers \in Nat /\ NumPeersSend \in Nat
  BY LimitBounds, PeersAssumption DEF IInv, NetworkOK, List
<1>1. CASE Control
  <2>1. NetworkOK' /\ known_peers' = known_peers /\ Len(known_peers) <= Limit + 1
    BY <1>1 DEF Control, IInv, NetworkOK, Known, Bounds, BoundedPeers
  <2>2. CASE Len(known_peers) < MinPeers
    <3>1. pc' = "asking" /\ UNCHANGED controlled
      BY <1>1, <2>2 DEF Control
    <3>2. Limit' = Limit
      BY <3>1 DEF Limit
    <3> QED
      BY <1>1, <2>1, <2>2, <3>1, <3>2, PlainStep DEF Control, IInv, ThreadOK
  <2>3. CASE ~(Len(known_peers) < MinPeers)
    BY <1>1, <2>1, <2>3, TrimOrEndStep DEF Control
  <2> QED
    BY <2>2, <2>3
<1>2. CASE AddPeers
  <2>1. Len(known_peers) < MinPeers
    BY <1>2 DEF AddPeers, IInv, Bounds
  <2>2. NetworkOK' /\ Len(known_peers') < MinPeers + NumPeersSend
    <3>1. CASE UNCHANGED <<known_peers, peer_failed_msg_count>>
      BY <1>0, <2>1, <3>1 DEF IInv, NetworkOK, Known
    <3>2. ASSUME NEW list \in PeerLists, Range(list) \cap Known = {}, Connect(list)
          PROVE  NetworkOK' /\ Len(known_peers') < MinPeers + NumPeersSend
      <4>1. list \in List /\ Len(list) <= NumPeersSend /\ Len(list) \in Nat
        BY PeerListsAreLists DEF List
      <4>2. NetworkOK' /\ Len(known_peers') = Len(known_peers) + Len(list)
        BY <3>2, <4>1, ConnectOK DEF IInv
      <4> QED
        BY <1>0, <2>1, <4>1, <4>2
    <3> QED
      BY <1>2, <3>1, <3>2 DEF AddPeers
  <2> QED
    BY <1>2, <2>2, TrimOrEndStep DEF AddPeers
<1>3. CASE TrimPeer
  <2>1. \/ Len(known_peers) <= Limit + 1
        \/ Len(known_peers) < MinPeers + NumPeersSend
    BY <1>3 DEF TrimPeer, IInv, Bounds, BoundedPeers
  <2>2. PICK p \in Known : ForgetPeer(p)
    BY <1>3 DEF TrimPeer
  <2>3. p \in Identities
    BY InRange, ElementOfSeq DEF IInv, NetworkOK, List, Known
  <2>4. NetworkOK' /\ (UNCHANGED known_peers \/ Removed(p))
    BY <2>2, <2>3, ForgetPeerOK DEF IInv
  <2>5. \/ Len(known_peers') <= Limit + 1
        \/ Len(known_peers') < MinPeers + NumPeersSend
    BY <1>0, <2>1, <2>4 DEF Removed
  <2> QED
    BY <1>3, <2>4, <2>5, TrimOrEndStep DEF TrimPeer
<1> QED
  BY <1>1, <1>2, <1>3

LEMMA PeerGoneIInv ==
    ASSUME IInv, PeerGone
    PROVE  IInv'
<1>1. gone' \subseteq Identities
      /\ UNCHANGED <<known_peers, peer_failed_msg_count, pc, walk, sender, controlled>>
  BY DEF PeerGone, IInv, ThreadOK
<1> QED
  BY <1>1
  DEF IInv, NetworkOK, ThreadOK, Known, Bounds, BoundedPeers, Limit, WalkOK, Dropped, Reached

LEMMA NextIInv == IInv /\ [Next]_vars => IInv'
<1> SUFFICES ASSUME IInv, [Next]_vars PROVE IInv'
    OBVIOUS
<1>1. CASE UNCHANGED vars
  BY <1>1
  DEF vars, IInv, NetworkOK, ThreadOK, Known, Bounds, BoundedPeers, Limit, WalkOK, Dropped, Reached
<1> QED
  BY <1>1, StartIInv, VisitIInv, EndWalkIInv, LoopIInv, HandleIInv, ControlIInv, PeerGoneIInv
  DEF Next

LEMMA Invariance == Spec => []IInv
<1> QED
  BY InitIInv, NextIInv, PTL DEF Spec

-----------------------------------------------------------------------------
\* The list holds nobody twice, and the counts are those of the listed peers, so
\* that no failed send ends the node with a KeyError (network.py:62).
THEOREM TypeCorrect == Spec => []TypeOK
<1>1. IInv => TypeOK
  BY DEF IInv, NetworkOK, ThreadOK, List, TypeOK
<1> QED
  BY <1>1, Invariance, PTL

\* The list exceeds its limit by no peer between two messages, by one while a
\* message is handled, and while peers are forgotten by no more than an answer of
\* the beacon to a node below the minimum can bring (node.py:261-268).
THEOREM PeersBounded == Spec => []BoundedPeers
<1>1. IInv => BoundedPeers
  BY DEF IInv, Bounds
<1> QED
  BY <1>1, Invariance, PTL

\* A broadcast misses nobody but a peer right behind a forgotten one (node.py:164).
THEOREM BroadcastComplete == Spec => []SkipsOnlyBehindForgotten
<1>1. IInv => SkipsOnlyBehindForgotten
  <2> SUFFICES ASSUME IInv, pc = "walk", NEW i \in 1 .. Len(walk.list), ~Reached(i)
               PROVE  \E j \in walk.at .. Len(known_peers) : known_peers[j] = walk.list[i]
      BY DEF SkipsOnlyBehindForgotten, Reached, IInv, ThreadOK
  <2>1. Len(known_peers) \in Nat /\ Len(walk.list) \in Nat /\ walk.at \in Nat \ {0}
    BY DEF IInv, NetworkOK, List, ThreadOK
  <2>2. Dropped = Len(walk.list) - Len(known_peers)
    BY DEF Dropped
  <2>3. Dropped \in Nat
    BY <2>1 DEF IInv, WalkOK, Dropped
  <2>4. ~(i < walk.at + Dropped)
    BY DEF IInv, WalkOK
  <2>5. \A j \in 1 .. Len(known_peers) : j >= walk.at => known_peers[j] = walk.list[j + Dropped]
    BY DEF IInv, WalkOK
  <2>6. i - Dropped >= walk.at
    BY <2>1, <2>3, <2>4
  <2>7. i - Dropped <= Len(known_peers)
    BY <2>1, <2>2, <2>3
  <2>8. i - Dropped \in Int /\ (i - Dropped) + Dropped = i
    BY <2>1, <2>3
  <2>9. i - Dropped \in walk.at .. Len(known_peers)
    BY <2>1, <2>6, <2>7, <2>8
  <2> QED
    BY <2>1, <2>5, <2>8, <2>9
<1> QED
  BY <1>1, Invariance, PTL
=============================================================================
