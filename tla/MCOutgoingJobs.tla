--------------------------- MODULE MCOutgoingJobs ---------------------------
(* Small instances of OutgoingJobs for TLC. *)
EXTENDS OutgoingJobs, TLC

(* The transfers of a device are interchangeable; only for runs without    *)
(* liveness properties.                                                    *)
Symmetry == Permutations(Transfers)
=============================================================================
