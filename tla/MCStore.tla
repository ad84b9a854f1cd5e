------------------------------- MODULE MCStore -------------------------------
(* Instances of Store for TLC: both services and an operator.                   *)
EXTENDS Store
=============================================================================
