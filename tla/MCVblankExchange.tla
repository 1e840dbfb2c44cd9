-------------------------- MODULE MCVblankExchange --------------------------
(* Two pipes of one secondary. Their threads are interchangeable, but the  *)
(* liveness properties are checked with them, so that no symmetry is used. *)
EXTENDS VblankExchange

=============================================================================
