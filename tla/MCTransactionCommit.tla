------------------------ MODULE MCTransactionCommit ------------------------
(* The instances of TransactionCommit that TLC checks. *)
EXTENDS TransactionCommit, TLC

CONSTANTS c, p, q

TwoShards == {c, p}
ThreeShards == {c, p, q}
Symmetric == Permutations({p, q})
=============================================================================
