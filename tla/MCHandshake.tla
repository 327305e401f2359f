---------------------------- MODULE MCHandshake ----------------------------
(* Small instances of Handshake for TLC. *)
EXTENDS Handshake, TLC

CONSTANTS d1, d2, t1

(* The one transfer goes from d1 to d2; a retry is its second session.     *)
OneFrom == t1 :> d1
OneTo == t1 :> d2
=============================================================================
