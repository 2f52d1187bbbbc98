----------------------------- MODULE MCElection -----------------------------
(* The instance of Election that TLC checks: voters are interchangeable. *)
EXTENDS Election, TLC

NodeSymmetry == Permutations(Node)
=============================================================================
