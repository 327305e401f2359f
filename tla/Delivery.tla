------------------------------ MODULE Delivery ------------------------------
(***************************************************************************)
(* What the data plane of one transfer promises, without its channels,     *)
(* queues and tasks: chunks only ever arrive, an attempt may break at any  *)
(* time and be followed by another, and the transfer is whole only when    *)
(* nothing is missing.  DataPlane implements it.                           *)
(***************************************************************************)
CONSTANT Chunks

VARIABLES
    missing,    \* chunks the receiver does not hold
    phase       \* "moving", "broken" between two attempts, "whole" at the end

vars == <<missing, phase>>

TypeOK == missing \subseteq Chunks /\ phase \in {"moving", "broken", "whole"}

Init == missing \subseteq Chunks /\ phase = "moving"

(* Late data of a broken attempt still arrives. *)
Arrive(k) ==
    /\ k \in missing
    /\ missing' = missing \ {k}
    /\ UNCHANGED phase

Break == phase = "moving" /\ phase' = "broken" /\ UNCHANGED missing

(* A target that cannot be continued is received from the beginning. *)
Again ==
    /\ phase = "broken" /\ phase' = "moving"
    /\ missing' \in {missing, Chunks}

Finish == phase = "moving" /\ missing = {} /\ phase' = "whole" /\ UNCHANGED missing

Next == (\E k \in Chunks : Arrive(k)) \/ Break \/ Again \/ Finish

Spec == Init /\ [][Next]_vars
=============================================================================
