------------------------------ MODULE MCServer1 ------------------------------
(* Instances of Server1 for TLC.                                            *)
EXTENDS Server1
=============================================================================
