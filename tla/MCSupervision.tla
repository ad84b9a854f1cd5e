--------------------------- MODULE MCSupervision ----------------------------
(* Instances of Supervision for TLC: two servers, so that one may end while  *)
(* the other goes on.                                                        *)
EXTENDS Supervision
=============================================================================
