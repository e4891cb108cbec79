--------------------------- MODULE MCAtomicCalls ----------------------------
(* Instances of AtomicCalls for TLC. *)
EXTENDS AtomicCalls, MCFontManager
=============================================================================
