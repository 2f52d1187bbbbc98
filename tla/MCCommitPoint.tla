---- MODULE MCCommitPoint ----
(* CommitPoint for TLC: three members, or five. *)
EXTENDS CommitPoint, TLC
CONSTANTS n1, n2, n3, n4, n5

\* Two former primaries each have an entry that nobody else has.
Diverged(a, b) ==
    [n \in Nodes |-> CASE n = a -> <<1, 1>> [] n = b -> <<1, 2>> [] OTHER -> <<1>>]
MCInitialLogs ==
    {Diverged(p[1], p[2]) : p \in {q \in Nodes \X Nodes : q[1] # q[2]}}
MCSymmetry == Permutations(Nodes)

\* The last former primary, n5, has an entry of its own, and the others have one of the
\* primary before it.
MCLateLogs == {[n \in Nodes |-> IF n = n5 THEN <<1, 3>> ELSE <<1, 2>>]}
MCLateSymmetry == Permutations({n2, n3})

\* The behaviours of Spec in which n1 is the only one to lead and to get reports, and n4 and
\* n5 keep their oplogs.
MCLateStep ==
    /\ UNCHANGED <<log[n4], log[n5]>>
    /\ \A n \in Nodes \ {n1} : UNCHANGED role[n] /\ report'[n].to \in {"none", n1}
MCLateSpec == Init /\ [][Next /\ MCLateStep]_vars
====
