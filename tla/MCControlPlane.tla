--------------------------- MODULE MCControlPlane ---------------------------
(***************************************************************************)
(* Model checking of ControlPlane: commands and settings are only compared *)
(* for equality, so permuting them changes nothing a safety property sees. *)
(***************************************************************************)
EXTENDS ControlPlane, TLC

Symmetry == Permutations(Commands) \cup Permutations(Settings)
=============================================================================
