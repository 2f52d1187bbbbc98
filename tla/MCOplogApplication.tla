------------------------- MODULE MCOplogApplication -------------------------
(* The instance of OplogApplication that TLC checks. *)
EXTENDS OplogApplication
=============================================================================
