--------------------------- MODULE MCDistributeCache ---------------------------
(* Small instances of DistributeCache: whose thread is whose, and regions  *)
(* of one row, of both in one message, of both row by row.                 *)
EXTENDS DistributeCache, TLC

CONSTANTS c1, c2, t1, t2

OneCache == [t \in Threads |-> c1]
TwoCaches == (t1 :> c1) @@ (t2 :> c2)

Row == [first |-> 2, last |-> 2, whole |-> TRUE]
Whole == [first |-> 1, last |-> 2, whole |-> TRUE]
RowByRow == [first |-> 1, last |-> 2, whole |-> FALSE]
BothRegions == {Whole, RowByRow}
RowOnly == {Row}

Symmetric == Permutations(Threads)
=============================================================================
