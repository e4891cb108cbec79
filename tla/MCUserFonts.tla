---------------------------- MODULE MCUserFonts -----------------------------
(* Instances of UserFonts for TLC. *)
EXTENDS UserFonts, MCFontManager
=============================================================================
