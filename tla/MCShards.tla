------------------------------ MODULE MCShards ------------------------------
(* Instances of Shards for TLC: from two shards to one, to the default of three, *)
(* or back, with two Recursos that share a queue only when there is one.         *)
EXTENDS Shards

MCHash == [r \in Resources |-> r]
=============================================================================
