--------------------------- MODULE MempoolProofs ---------------------------
(***************************************************************************)
(* No transaction is handed out twice or lost, and the node never asks for *)
(* an empty list but of an empty table, for any set of transactions, any   *)
(* sizes and limits and any number of tickets.                             *)
(***************************************************************************)
EXTENDS Mempool, FiniteSetTheorems, TLAPS

\* What the position of the thread says of the list in the making: it is new
\* until it is patched, marked from then on, and gone outside the two; that the
\* thread is inside a round says that a ticket is left, and
\* that it stands anywhere that nothing has ended it.
Phase ==
    /\ pc \in {"loop", "select", "publish"} => list = {}
    /\ pc = "loop" => candidate = {}
    /\ pc = "patch" => list \cap chosen = {}
    /\ pc = "patch" /\ list = {} => snapshot = {}
    /\ pc = "draw" => list \subseteq chosen
    /\ pc \in {"select", "patch", "draw"} => ticket < Stake
    /\ pc # "dead" => failure = "none"

IInv == TypeOK /\ NoTransactionTwice /\ ChosenAreHandedOut /\ EndsOnlyWhenDry /\ Phase

-----------------------------------------------------------------------------
(* The sum over one transaction *)

LEMMA TotalOfOne ==
    ASSUME NEW u \in Transactions
    PROVE  TotalSize({u}) = Size[u]
<1> DEFINE F(g) == [s \in SUBSET {u} |->
                      IF s = {} THEN 0
                      ELSE Size[CHOOSE x \in s : TRUE] + g[s \ {CHOOSE x \in s : TRUE}]]
           sum == [s \in SUBSET {u} |-> IF s = {} THEN 0 ELSE Size[u]]
           iter == CHOOSE g : g = F(g)
<1>1. SUBSET {u} = {{}, {u}} /\ {u} # {} /\ (CHOOSE x \in {u} : TRUE) = u /\ {u} \ {u} = {}
  OBVIOUS
<1>2. Size[u] \in Nat
  BY MempoolAssumption
<1>3. sum = F(sum)
  <2>1. sum[{}] = 0
    BY <1>1
  <2>2. Size[u] + sum[{}] = Size[u]
    BY <1>2, <2>1
  <2>3. \A s \in SUBSET {u} : sum[s] = F(sum)[s]
    BY <1>1, <2>2
  <2> QED
    BY <2>3
<1>4. iter = F(iter)
  BY <1>3
<1>5. iter[{}] = 0
  BY <1>1, <1>4
<1>6. iter[{u}] = Size[u]
  <2>1. iter[{u}] = F(iter)[{u}]
    BY <1>4
  <2>2. F(iter)[{u}] = Size[CHOOSE x \in {u} : TRUE] + iter[{u} \ {CHOOSE x \in {u} : TRUE}]
    BY <1>1
  <2>3. F(iter)[{u}] = Size[u] + iter[{}]
    BY <2>2, <1>1, Zenon
  <2> HIDE DEF iter
  <2> QED
    BY <2>1, <2>3, <1>2, <1>5
<1>7. TotalSize({u}) = iter[{u}]
  BY DEF TotalSize, MapThenSumSet, MapThenFoldSet
<1> QED
  BY <1>6, <1>7

\* Since every transaction fits a block, only an empty table gives an empty list.
LEMMA NothingOfNothing ==
    ASSUME NEW T \in SUBSET Transactions, Selection({}, T)
    PROVE  T = {}
<1>1. Cardinality({}) # Limit
  BY FS_EmptySet, MempoolAssumption
<1>2. ASSUME NEW u \in T PROVE ~(TotalSize({} \cup {u}) > BlockSize)
  <2>1. TotalSize({u}) = Size[u] /\ {} \cup {u} = {u}
    BY TotalOfOne
  <2>2. Size[u] \in Nat /\ BlockSize \in Nat /\ Size[u] <= BlockSize
    BY MempoolAssumption, FitAssumption
  <2> QED
    BY <2>1, <2>2
<1> QED
  BY <1>1, <1>2 DEF Selection

-----------------------------------------------------------------------------
(* The inductive invariant *)

LEMMA InitIInv == Init => IInv
<1> QED
  BY MempoolAssumption
  DEF Init, IInv, TypeOK, NoTransactionTwice, ChosenAreHandedOut, EndsOnlyWhenDry, Phase

LEMMA RetrieveIInv ==
    ASSUME IInv, Retrieve
    PROVE  IInv'
<1>1. PICK S \in SUBSET Waiting : Selection(S, Waiting) /\ list' = S
  BY DEF Retrieve
<1>2. Waiting \subseteq rows /\ Waiting \cap chosen = {} /\ Waiting \in SUBSET Transactions
  BY DEF Waiting, IInv, TypeOK
<1>3. TypeOK'
  BY <1>1, <1>2 DEF Retrieve, tableVars, IInv, TypeOK
<1>4. list = {} /\ candidate \cup published \cup wasted = chosen
  BY DEF Retrieve, IInv, Phase, ChosenAreHandedOut
<1>5. NoTransactionTwice' /\ ChosenAreHandedOut'
  BY <1>1, <1>2, <1>4
  DEF Retrieve, tableVars, IInv, NoTransactionTwice, ChosenAreHandedOut
<1>6. list' = {} => snapshot' = {}
  BY <1>1, <1>2, NothingOfNothing DEF Retrieve
<1>7. EndsOnlyWhenDry'
  BY DEF Retrieve, IInv, EndsOnlyWhenDry, Phase
<1>8. Phase'
  BY <1>1, <1>2, <1>6 DEF Retrieve, tableVars, IInv, Phase
<1> QED
  BY <1>3, <1>5, <1>7, <1>8 DEF IInv

LEMMA NextTicketPhase ==
    ASSUME IInv, pc = "draw", NextTicket
    PROVE  /\ ticket' \in 0 .. Stake
           /\ list' = {}
           /\ pc' \in {"select", "publish"}
           /\ pc' = "select" => ticket' < Stake
<1>1. ticket \in Nat /\ ticket < Stake /\ Stake \in Nat
  BY MempoolAssumption DEF IInv, TypeOK, Phase
<1> QED
  BY <1>1 DEF NextTicket

LEMMA DrawIInv ==
    ASSUME IInv, WinTicket \/ LoseTicket
    PROVE  IInv'
<1>1. pc = "draw" /\ NextTicket /\ list \subseteq chosen
  BY DEF WinTicket, LoseTicket, IInv, Phase
<1>2. list' = {} /\ ticket' \in 0 .. Stake /\ pc' \in {"select", "publish"}
      /\ (pc' = "select" => ticket' < Stake)
  BY <1>1, NextTicketPhase
<1>3. CASE WinTicket
  <2>1. /\ candidate' = list /\ wasted' = wasted \cup candidate
        /\ UNCHANGED <<rows, chosen, populating, snapshot, broadcast_created_block,
                       published, failure>>
    BY <1>3 DEF WinTicket, tableVars
  <2> QED
    BY <1>1, <1>2, <2>1
    DEF IInv, TypeOK, NoTransactionTwice, ChosenAreHandedOut, EndsOnlyWhenDry, Phase
<1>4. CASE LoseTicket
  <2>1. /\ wasted' = wasted \cup list
        /\ UNCHANGED <<rows, chosen, populating, snapshot, candidate,
                       broadcast_created_block, published, failure>>
    BY <1>4 DEF LoseTicket, tableVars
  <2> QED
    BY <1>1, <1>2, <2>1
    DEF IInv, TypeOK, NoTransactionTwice, ChosenAreHandedOut, EndsOnlyWhenDry, Phase
<1> QED
  BY <1>3, <1>4

LEMMA NextIInv == IInv /\ [Next]_vars => IInv'
<1> SUFFICES ASSUME IInv, [Next]_vars PROVE IInv'
    OBVIOUS
<1> USE DEF IInv, TypeOK, NoTransactionTwice, ChosenAreHandedOut, EndsOnlyWhenDry, Phase,
            tableVars, roundVars
<1>1. CASE Populate
  BY <1>1 DEF Populate
<1>2. CASE PopulateFails
  BY <1>2 DEF PopulateFails
<1>3. CASE NewRound
  BY <1>3, MempoolAssumption DEF NewRound
<1>4. CASE Retrieve
  BY <1>4, RetrieveIInv
<1>5. CASE Patch
  BY <1>5 DEF Patch
<1>6. CASE PatchNothing
  BY <1>6 DEF PatchNothing
<1>7. CASE SQLError
  BY <1>7 DEF SQLError
<1>8. CASE WinTicket \/ LoseTicket
  BY <1>8, DrawIInv
<1>9. CASE Publish
  BY <1>9 DEF Publish
<1>10. CASE UNCHANGED vars
  BY <1>10 DEF vars
<1> QED
  BY <1>1, <1>2, <1>3, <1>4, <1>5, <1>6, <1>7, <1>8, <1>9, <1>10 DEF Next

LEMMA Invariance == Spec => []IInv
<1> QED
  BY InitIInv, NextIInv, PTL DEF Spec

-----------------------------------------------------------------------------
\* The columns and attributes have their types; only rows are chosen.
THEOREM TypeCorrect == Spec => []TypeOK
<1>1. IInv => TypeOK
  BY DEF IInv
<1> QED
  BY <1>1, Invariance, PTL

\* No two lists of transactions have one in common (transactions.py:46-64).
THEOREM NeverHandedOutTwice == Spec => []NoTransactionTwice
<1>1. IInv => NoTransactionTwice
  BY DEF IInv
<1> QED
  BY <1>1, Invariance, PTL

\* The marked transactions are exactly those handed out (transactions.py:61-64).
THEOREM NoneIsLost == Spec => []ChosenAreHandedOut
<1>1. IInv => ChosenAreHandedOut
  BY DEF IInv
<1> QED
  BY <1>1, Invariance, PTL

\* Only an empty table ends the node (transactions.py:54-63), for transactions
\* that each fit a block.
THEOREM NoEmptyListButOfNone == Spec => []EndsOnlyWhenDry
<1>1. IInv => EndsOnlyWhenDry
  BY DEF IInv
<1> QED
  BY <1>1, Invariance, PTL
=============================================================================
