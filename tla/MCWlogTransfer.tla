---------------------------- MODULE MCWlogTransfer ----------------------------
(* Instances of WlogTransfer for TLC; the constants are set in the .cfg files. *)
EXTENDS WlogTransfer
=============================================================================
