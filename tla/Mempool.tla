------------------------------- MODULE Mempool -------------------------------
(***************************************************************************)
(* The mempool of one node: the SQL table transactions, the thread that    *)
(* fills it (demo/populate_mempool.py), and the thread of the node, which  *)
(* takes a list of transactions from it for every ticket it draws          *)
(* (MockTransactionList, cpos/core/transactions.py; generate_block,        *)
(* cpos/node.py).  The two threads have a connection each, so rows may be  *)
(* inserted between the node's SELECT and its UPDATE.                      *)
(*                                                                         *)
(* pc is where the thread of the node stands: "loop" outside               *)
(* generate_block, "select" about to make a list, "patch" between SELECT   *)
(* and UPDATE, "draw" about to validate the block with the list, "publish" *)
(* with the best block of the round, "dead" ended by an exception.         *)
(***************************************************************************)
EXTENDS Integers, FiniteSetsExt

CONSTANTS
    Transactions,  \* the rows that can be inserted
    Value,         \* their column value, as the table rounds it
    Size,          \* their size in bytes
    BlockSize,     \* BLOCK_SIZE
    Limit,         \* the LIMIT of RETRIEVE_QUERY
    Stake          \* lookup_node_stake: the tickets of a round

ASSUME MempoolAssumption ==
    /\ Value \in [Transactions -> Int]
    /\ Size \in [Transactions -> Nat]
    /\ BlockSize \in Nat
    /\ Limit \in Nat \ {0}
    /\ Stake \in Nat \ {0}

\* The generated transactions are far smaller than a block.
ASSUME FitAssumption == \A t \in Transactions : Size[t] <= BlockSize

VARIABLES
    rows,       \* the table
    chosen,     \* the rows with chosen = 1
    populating, \* the populating thread runs
    broadcast_created_block,
    pc,
    ticket,     \* the tickets drawn in this round
    snapshot,   \* history: the rows the last SELECT could have returned
    list,       \* transactions_list of the ticket being drawn
    candidate,  \* the list of the best block of this round, {} for None
    published,  \* history: the transactions of the blocks that were broadcast
    wasted,     \* history: those of all other blocks that were built
    failure     \* history: what has ended the node

tableVars == <<rows, chosen, populating>>
roundVars == <<ticket, snapshot, list, candidate, broadcast_created_block>>
vars == <<tableVars, roundVars, pc, published, wasted, failure>>

Init ==
    /\ rows = {} /\ chosen = {} /\ populating = TRUE
    /\ broadcast_created_block \in BOOLEAN
    /\ pc = "loop"
    /\ ticket = 0 /\ snapshot = {} /\ list = {} /\ candidate = {}
    /\ published = {} /\ wasted = {}
    /\ failure = "none"

-----------------------------------------------------------------------------
(* The populating thread *)

Populate ==
    /\ populating
    /\ \E t \in Transactions \ rows : rows' = rows \cup {t}
    /\ UNCHANGED <<chosen, populating, roundVars, pc, published, wasted, failure>>

\* An SQL error ends the thread, and only it.
PopulateFails ==
    /\ populating
    /\ populating' = FALSE
    /\ UNCHANGED <<rows, chosen, roundVars, pc, published, wasted, failure>>

-----------------------------------------------------------------------------
(* MockTransactionList *)

\* Faulty variant: chosen rows are returned as well.
WaitingOrChosen == rows

\* The rows of RETRIEVE_QUERY.  Nothing ever sets committed.
Waiting == rows \ chosen

TotalSize(S) == MapThenSumSet(LAMBDA t : Size[t], S)

\* Faulty variant: a list that fills the block is cut as well.
SelectionBelow(S, T) ==
    /\ S \subseteq T
    /\ \A t \in S, u \in T \ S : Value[t] >= Value[u]
    /\ Cardinality(S) <= Limit /\ (S # {} => TotalSize(S) < BlockSize)
    /\ \/ S = T
       \/ Cardinality(S) = Limit
       \/ \E u \in T \ S : /\ \A v \in T \ S : Value[u] >= Value[v]
                           /\ TotalSize(S \cup {u}) >= BlockSize

\* S is what the loop over the rows T, ordered by value, can collect: it ends
\* at the first row that does not fit.  The order of equal values is open.
Selection(S, T) ==
    /\ S \subseteq T
    /\ \A t \in S, u \in T \ S : Value[t] >= Value[u]
    /\ Cardinality(S) <= Limit /\ TotalSize(S) <= BlockSize
    /\ \/ S = T
       \/ Cardinality(S) = Limit
       \/ \E u \in T \ S : /\ \A v \in T \ S : Value[u] >= Value[v]
                           /\ TotalSize(S \cup {u}) > BlockSize

Retrieve ==
    /\ pc = "select"
    /\ \E S \in SUBSET Waiting : Selection(S, Waiting) /\ list' = S
    /\ snapshot' = Waiting
    /\ pc' = "patch"
    /\ UNCHANGED <<tableVars, ticket, candidate, broadcast_created_block,
                   published, wasted, failure>>

\* Faulty variant: the rows to mark are looked for again.
PatchWaiting ==
    /\ pc = "patch"
    /\ list # {}
    /\ chosen' = chosen \cup Waiting
    /\ pc' = "draw"
    /\ UNCHANGED <<rows, populating, roundVars, published, wasted, failure>>

\* PATCH_QUERY marks the rows of the list by their identities.
Patch ==
    /\ pc = "patch"
    /\ list # {}
    /\ chosen' = chosen \cup list
    /\ pc' = "draw"
    /\ UNCHANGED <<rows, populating, roundVars, published, wasted, failure>>

\* The query for an empty list ends in "IN ()", which is a syntax error.  The
\* exception is caught, but the list is left without the attribute
\* transactions, and the constructor of Block raises.
PatchNothing ==
    /\ pc = "patch"
    /\ list = {}
    /\ pc' = "dead"
    /\ failure' = "nothing"
    /\ UNCHANGED <<tableVars, roundVars, published, wasted>>

\* Any other SQL error has the same end; the update may have been committed.
SQLError ==
    /\ pc \in {"select", "patch"}
    /\ pc' = "dead"
    /\ failure' = "database"
    /\ \/ UNCHANGED chosen
       \/ pc = "patch" /\ chosen' = chosen \cup list
    /\ UNCHANGED <<rows, populating, roundVars, published, wasted>>

-----------------------------------------------------------------------------
(* generate_block *)

NewRound ==
    /\ pc = "loop"
    /\ pc' = "select"
    /\ ticket' = 0 /\ list' = {} /\ candidate' = {}
    /\ UNCHANGED <<tableVars, snapshot, broadcast_created_block, published, wasted, failure>>

\* Faulty variant: one ticket more is drawn.
NextTicketInclusive ==
    /\ ticket' = ticket + 1
    /\ list' = {}
    /\ pc' = IF ticket < Stake THEN "select" ELSE "publish"

NextTicket ==
    /\ ticket' = ticket + 1
    /\ list' = {}
    /\ pc' = IF ticket + 1 < Stake THEN "select" ELSE "publish"

\* The block wins and is the first or has the smaller proof hash.
WinTicket ==
    /\ pc = "draw"
    /\ candidate' = list
    /\ wasted' = wasted \cup candidate
    /\ NextTicket
    /\ UNCHANGED <<tableVars, snapshot, broadcast_created_block, published, failure>>

\* The sortition is lost, or an earlier ticket of the round is better.
LoseTicket ==
    /\ pc = "draw"
    /\ wasted' = wasted \cup list
    /\ NextTicket
    /\ UNCHANGED <<tableVars, snapshot, candidate, broadcast_created_block, published, failure>>

\* A dishonest node broadcasts none of its blocks.
Publish ==
    /\ pc = "publish"
    /\ pc' = "loop"
    /\ candidate' = {}
    /\ IF broadcast_created_block
         THEN published' = published \cup candidate /\ UNCHANGED wasted
         ELSE wasted' = wasted \cup candidate /\ UNCHANGED published
    /\ UNCHANGED <<tableVars, ticket, snapshot, list, broadcast_created_block, failure>>

Next ==
    \/ Populate \/ PopulateFails
    \/ NewRound \/ Retrieve \/ Patch \/ PatchNothing \/ SQLError
    \/ WinTicket \/ LoseTicket \/ Publish

Spec == Init /\ [][Next]_vars

-----------------------------------------------------------------------------
(* Properties *)

\* The columns and attributes; only rows of the table are chosen.
TypeOK ==
    /\ rows \subseteq Transactions
    /\ chosen \subseteq rows
    /\ populating \in BOOLEAN
    /\ broadcast_created_block \in BOOLEAN
    /\ pc \in {"loop", "select", "patch", "draw", "publish", "dead"}
    /\ ticket \in 0 .. Stake
    /\ snapshot \subseteq rows
    /\ list \subseteq rows
    /\ candidate \subseteq rows
    /\ published \subseteq rows
    /\ wasted \subseteq rows
    /\ failure \in {"none", "nothing", "database"}

\* No transaction is handed out twice: the list of the ticket being drawn, the
\* candidate of the round, the blocks that were broadcast and those that were
\* not have no transaction in common, whenever rows are inserted between the
\* SELECT and the UPDATE of a list (transactions.py:46-64).
NoTransactionTwice ==
    /\ list \cap candidate = {}
    /\ (list \cup candidate) \cap (published \cup wasted) = {}
    /\ published \cap wasted = {}

\* No transaction is marked without being handed out, nor handed out without
\* being marked: outside the list in the making, the chosen rows are exactly
\* those of the blocks that were built (transactions.py:61-64).
ChosenAreHandedOut == chosen \ list = candidate \cup published \cup wasted

\* The query for an empty list ends the node; it is asked only when the table
\* has run dry, never because the first row did not fit (transactions.py:54-63).
EndsOnlyWhenDry == failure = "nothing" => snapshot = {}
=============================================================================
