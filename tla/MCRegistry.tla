----------------------------- MODULE MCRegistry -----------------------------
(* Instances of Registry for TLC: the seed and another server, on two hosts. *)
EXTENDS Registry
=============================================================================
