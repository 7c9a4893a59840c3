----------------------------- MODULE BeaconProofs -----------------------------
(***************************************************************************)
(* The list of the beacon is neither too old nor too young, for any set of *)
(* clients, any number of rounds and any loss of messages.                 *)
(***************************************************************************)
EXTENDS Beacon, TLAPS

\* The list is emptied in two steps, the flags of the third rounds are what
\* relates them: a set flag stands for a peer vouched for in this third of the
\* clock or later, a reset one for a peer of the third before.
Third(r) == r \div 3

FlagsKeepTime ==
    /\ \A p \in Clients : vouched[p] >= -Long /\ vouched[p] <= current_round
    /\ \A p \in peers :
          Third(current_round) = Third(vouched[p]) + 1 - peers_still_alive_flags[p]
    /\ \A p \in Clients \ peers : Third(current_round) >= Third(vouched[p]) + 2

IInv == TypeOK /\ FlagsKeepTime

-----------------------------------------------------------------------------
\* Within one third of the clock the quotient stays, and grows by one at its
\* end.
LEMMA ThirdSteps ==
    ASSUME NEW r \in Nat
    PROVE  Third(r + 1) = IF (r + 1) % 3 = 0 THEN Third(r) + 1 ELSE Third(r)
BY DEF Third

LEMMA InitIInv == Init => IInv
<1> SUFFICES ASSUME Init PROVE IInv
    OBVIOUS
<1>1. TypeOK
  BY DEF Init, TypeOK, Long
<1>2. FlagsKeepTime
  BY DEF Init, FlagsKeepTime, Third, Long
<1> QED
  BY <1>1, <1>2 DEF IInv

\* Setting a flag vouches for the peer in the current round.
LEMMA RegisterIInv ==
    ASSUME IInv, NEW p \in Clients, Register(p), UNCHANGED current_round
    PROVE  /\ peers' \subseteq Clients
           /\ peers_still_alive_flags' \in [peers' -> {0, 1}]
           /\ vouched' \in [Clients -> Int]
           /\ FlagsKeepTime'
<1>1. peers' = peers \cup {p} /\ current_round' = current_round
  BY DEF Register
<1>2. /\ vouched' \in [Clients -> Int]
      /\ vouched'[p] = current_round
      /\ \A q \in Clients \ {p} : vouched'[q] = vouched[q]
  BY DEF Register, IInv, TypeOK
<1>3. /\ peers_still_alive_flags' \in [peers' -> {0, 1}]
      /\ peers_still_alive_flags'[p] = 1
      /\ \A q \in peers \ {p} : peers_still_alive_flags'[q] = peers_still_alive_flags[q]
  BY <1>1 DEF Register, IInv, TypeOK
<1>4. FlagsKeepTime'
  <2>1. \A q \in Clients : vouched'[q] >= -Long /\ vouched'[q] <= current_round
    BY <1>2 DEF IInv, FlagsKeepTime, TypeOK, Long
  <2>2. \A q \in peers \cup {p} :
           Third(current_round) = Third(vouched'[q]) + 1 - peers_still_alive_flags'[q]
    <3> TAKE q \in peers \cup {p}
    <3>1. CASE q = p
      BY <3>1, <1>2, <1>3 DEF Third, IInv, TypeOK
    <3>2. CASE q # p
      BY <3>2, <1>2, <1>3 DEF IInv, FlagsKeepTime, TypeOK
    <3> QED
      BY <3>1, <3>2
  <2>3. \A q \in Clients \ (peers \cup {p}) : Third(current_round) >= Third(vouched'[q]) + 2
    BY <1>2 DEF IInv, FlagsKeepTime
  <2> QED
    BY <1>1, <2>1, <2>2, <2>3 DEF FlagsKeepTime
<1> QED
  BY <1>1, <1>2, <1>3, <1>4 DEF IInv, TypeOK

\* A forgetting starts a new third of the clock: the flags that were set are
\* reset, the others go with their peers.
LEMMA ForgettingIInv ==
    ASSUME IInv, ManagePeerForgetting, UNCHANGED vouched,
           current_round' = current_round + 1, current_round' % 3 = 0
    PROVE  /\ peers' \subseteq Clients
           /\ peers_still_alive_flags' \in [peers' -> {0, 1}]
           /\ FlagsKeepTime'
<1>1. current_round \in Nat /\ Third(current_round') = Third(current_round) + 1
  BY ThirdSteps DEF IInv, TypeOK
<1>2. /\ peers' = Remembered
      /\ peers_still_alive_flags' = [p \in peers' |-> 0]
      /\ Remembered \subseteq peers
  BY DEF ManagePeerForgetting, Remembered
<1>3. Third(current_round) \in Int /\ \A p \in Clients : Third(vouched[p]) \in Int
  BY DEF Third, IInv, TypeOK
<1>4. \A p \in peers' :
         Third(current_round') = Third(vouched'[p]) + 1 - peers_still_alive_flags'[p]
  <2> TAKE p \in peers'
  <2>1. peers_still_alive_flags[p] = 1 /\ p \in peers
    BY <1>2 DEF Remembered, IInv, TypeOK
  <2>2. Third(current_round) = Third(vouched[p])
    BY <2>1, <1>3 DEF IInv, FlagsKeepTime, TypeOK
  <2> QED
    BY <2>1, <2>2, <1>1, <1>2, <1>3 DEF IInv, TypeOK
<1>5. \A p \in Clients \ peers' : Third(current_round') >= Third(vouched'[p]) + 2
  <2> TAKE p \in Clients \ peers'
  <2>1. CASE p \in peers
    <3>1. peers_still_alive_flags[p] = 0
      BY <2>1, <1>2 DEF Remembered, IInv, TypeOK
    <3> QED
      BY <2>1, <3>1, <1>1, <1>3 DEF IInv, FlagsKeepTime
  <2>2. CASE p \notin peers
    BY <2>2, <1>1, <1>3 DEF IInv, FlagsKeepTime
  <2> QED
    BY <2>1, <2>2
<1>6. \A p \in Clients : vouched'[p] >= -Long /\ vouched'[p] <= current_round'
  BY <1>1 DEF IInv, FlagsKeepTime, TypeOK, Long
<1> QED
  BY <1>2, <1>4, <1>5, <1>6 DEF FlagsKeepTime, IInv, TypeOK

LEMMA NextIInv == IInv /\ [Next]_vars => IInv'
<1> SUFFICES ASSUME IInv, [Next]_vars PROVE IInv'
    OBVIOUS
<1>1. CASE UpdateRound
  <2>1. CASE current_round' % 3 = 0
    BY <1>1, <2>1, ForgettingIInv DEF UpdateRound, IInv, TypeOK
  <2>2. CASE current_round' % 3 # 0
    <3>1. current_round \in Nat /\ Third(current_round') = Third(current_round)
      BY <1>1, <2>2, ThirdSteps DEF UpdateRound, IInv, TypeOK
    <3>2. FlagsKeepTime'
      BY <1>1, <2>2, <3>1 DEF UpdateRound, IInv, TypeOK, FlagsKeepTime, Long
    <3> QED
      BY <1>1, <2>2, <3>2 DEF UpdateRound, IInv, TypeOK
  <2> QED
    BY <2>1, <2>2
<1>2. ASSUME NEW p \in Clients, Hello(p) PROVE IInv'
  <2>1. reply' \subseteq peers'
    BY <1>2 DEF Hello, SendPeerList
  <2>2. CASE p \in peers
    BY <1>2, <2>1, <2>2 DEF Hello, IInv, TypeOK, FlagsKeepTime
  <2>3. CASE p \notin peers
    BY <1>2, <2>1, <2>3, RegisterIInv DEF Hello, IInv, TypeOK
  <2> QED
    BY <2>2, <2>3
<1>3. ASSUME NEW p \in Clients, PeerListRequest(p) PROVE IInv'
  BY <1>3 DEF PeerListRequest, SendPeerList, IInv, TypeOK, FlagsKeepTime
<1>4. ASSUME NEW p \in Clients, NotifyBeacon(p) PROVE IInv'
  <2>1. reply_queue' \subseteq Messages
    BY <1>4 DEF NotifyBeacon, Messages, IInv, TypeOK
  <2> QED
    BY <1>4, <2>1, RegisterIInv DEF NotifyBeacon, IInv, TypeOK
<1>5. CASE UNCHANGED vars
  BY <1>5 DEF vars, IInv, TypeOK, FlagsKeepTime
<1> QED
  BY <1>1, <1>2, <1>3, <1>4, <1>5 DEF Next

LEMMA Invariance == Spec => []IInv
<1> QED
  BY InitIInv, NextIInv, PTL DEF Spec

-----------------------------------------------------------------------------
\* The flags are those of the listed peers, so that no forgetting can fail.
THEOREM TypeCorrect == Spec => []TypeOK
<1>1. IInv => TypeOK
  BY DEF IInv
<1> QED
  BY <1>1, Invariance, PTL

\* Six rounds of silence empty the list, as README.md:102 expects.
THEOREM SilenceIsForgotten == Spec => []ListedRecently
<1>1. IInv => ListedRecently
  <2> SUFFICES ASSUME IInv, NEW p \in peers PROVE current_round - vouched[p] < Long
      BY DEF ListedRecently
  <2>1. /\ current_round \in Nat
        /\ vouched[p] \in Int
        /\ peers_still_alive_flags[p] \in {0, 1}
        /\ Third(current_round) = Third(vouched[p]) + 1 - peers_still_alive_flags[p]
    BY DEF IInv, TypeOK, FlagsKeepTime
  <2> QED
    BY <2>1 DEF Third, Long
<1> QED
  BY <1>1, Invariance, PTL

\* A node that has notified the beacon stays listed for three more rounds,
\* whatever else arrives or is lost.
THEOREM NobodyForgottenEarly == Spec => []NotifiedAreListed
<1>1. IInv => NotifiedAreListed
  <2> SUFFICES ASSUME IInv, NEW p \in Clients, p \notin peers
               PROVE  ~(current_round - vouched[p] <= 3)
      BY DEF NotifiedAreListed
  <2>1. /\ current_round \in Nat
        /\ vouched[p] \in Int
        /\ Third(current_round) >= Third(vouched[p]) + 2
    BY DEF IInv, TypeOK, FlagsKeepTime
  <2> QED
    BY <2>1 DEF Third
<1> QED
  BY <1>1, Invariance, PTL
=============================================================================
