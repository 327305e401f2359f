---------------------------- MODULE MCDataPlane -----------------------------
(* Small instances of DataPlane for TLC. *)
EXTENDS DataPlane

AnyKind == {{}, {"target"}, {"source"}}
=============================================================================
