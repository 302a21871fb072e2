---------------------------- MODULE MCBlockList ----------------------------
(* BlockList with two sources of one host: the first serves w and then v,   *)
(* the second a pattern that matches v.                                     *)
EXTENDS BlockList

CONSTANTS v, w, p, bad, h

OneHost    == [i \in 1..N |-> h]
Versions   == [i \in 1..N |-> IF i = 1 THEN {{w}, {v}} ELSE {{p}}]
MCMatches  == [k \in {p, bad} |-> IF k = p THEN {p, v} ELSE {}]
=============================================================================
