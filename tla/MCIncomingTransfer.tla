------------------------- MODULE MCIncomingTransfer -------------------------
(* Small instances of IncomingTransfer for TLC. *)
EXTENDS IncomingTransfer, TLC

(* Files, chunks and channels are interchangeable; only for runs without   *)
(* temporal properties.                                                    *)
Symmetry == Permutations(Files) \cup Permutations(Chunks) \cup Permutations(Channels)
=============================================================================
