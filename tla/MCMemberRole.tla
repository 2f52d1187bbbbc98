---------------------------- MODULE MCMemberRole ----------------------------
(* The instance of MemberRole that TLC checks. *)
EXTENDS MemberRole, TLC

CommandSymmetry == Permutations(Command)
=============================================================================
