------------------------------ MODULE MCServer ------------------------------
(* Server on small instances; the configurations give all the constants. *)
EXTENDS Server
=============================================================================
