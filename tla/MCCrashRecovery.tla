---- MODULE MCCrashRecovery ----
(* CrashRecovery for TLC: the constants have their values in the cfg files. *)
EXTENDS CrashRecovery
====
