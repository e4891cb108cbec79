------------------------- MODULE MCFontManagerAddon --------------------------
(* Instances of FontManagerAddon for TLC. *)
EXTENDS FontManagerAddon, TLC

Symmetry == Permutations(Observer) \cup Permutations(Thread)
=============================================================================
