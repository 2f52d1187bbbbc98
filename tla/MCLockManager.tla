---- MODULE MCLockManager ----
(* LockManager for TLC: three lockers, two of them on one partition. *)
EXTENDS LockManager
CONSTANTS l1, l2, l3, p1, p2
MCPartitionOf == [l \in {l1, l2, l3} |-> IF l = l3 THEN p2 ELSE p1]
AllUpgrades == Modes \X Modes
\* The two lockers of one partition are interchangeable.
SamePartition == Permutations({l1, l2})
====
