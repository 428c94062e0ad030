------------------------------- MODULE MCRdb -------------------------------
(* Rdb for model checking: the constants are given in the configurations. *)
EXTENDS Rdb
=============================================================================
