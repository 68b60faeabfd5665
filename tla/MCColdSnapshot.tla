--------------------------- MODULE MCColdSnapshot ---------------------------
(* Instances of ColdSnapshot.                                              *)
EXTENDS ColdSnapshot
=============================================================================
