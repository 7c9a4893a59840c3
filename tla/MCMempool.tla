------------------------------ MODULE MCMempool ------------------------------
(***************************************************************************)
(* Five transactions: two of one value, one that fills a block.            *)
(***************************************************************************)
EXTENDS Mempool, TLC

CONSTANTS t1, t2, t3, t4, t5

Five == {t1, t2, t3, t4, t5}
MCValue == t1 :> 3 @@ t2 :> 2 @@ t3 :> 2 @@ t4 :> 1 @@ t5 :> 0
MCSize == t1 :> 2 @@ t2 :> 1 @@ t3 :> 2 @@ t4 :> 3 @@ t5 :> 1
=============================================================================
