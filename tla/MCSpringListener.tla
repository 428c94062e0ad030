-------------------------- MODULE MCSpringListener --------------------------
(* SpringListener for model checking. *)
EXTENDS SpringListener
=============================================================================
