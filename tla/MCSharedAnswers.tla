-------------------------- MODULE MCSharedAnswers --------------------------
(* SharedAnswers on a small instance: a lookup brings a response that fills *)
(* its array, or one that leaves a slot; following brings an address, or a  *)
(* CNAME that is there already, one that is not and an address.             *)
EXTENDS SharedAnswers, TLC

CONSTANTS c1, c2, c3, c4, a1  \* CNAMEs and an address

MCRecords   == {c1, c2, c3, c4, a1}
MCAddresses == {a1}
MCAnswers   == {<<c1>>, <<c1, c2, c3>>}
MCFollowed  == {<<a1>>, <<c1, c4, a1>>}

Symmetry == Permutations(Reqs)
=============================================================================
