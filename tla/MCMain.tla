------------------------------- MODULE MCMain -------------------------------
(* Main on a small instance; the configuration gives all the constants. *)
EXTENDS Main
=============================================================================
