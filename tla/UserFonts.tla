------------------------------ MODULE UserFonts ------------------------------
(***************************************************************************)
(* FontManager implements FontStore, for calls at user level: the copies   *)
(* that hold a place are those with a record, and of them the ones whose   *)
(* file is gone are leaving.                                               *)
(***************************************************************************)
EXTENDS FontManager

Fonts == [p \in {r.path : r \in Records} |->
            (CHOOSE r \in Records : r.path = p).names]

Leaving == DOMAIN Fonts \ DOMAIN files

(* A call has its answer once the insertion has been refused, although the *)
(* copy is still to be removed.                                            *)
CallOf(t) ==
    [op     |-> IF pc[t] = "undo" THEN "none" ELSE loc[t].op,
     font   |-> IF pc[t] = "undo" THEN NoFont ELSE loc[t].font,
     target |-> IF pc[t] \in {"probe", "heal", "remove", "delete"}
                THEN loc[t].path ELSE NoPath,
     ret    |-> loc[t].ret]

Store == INSTANCE FontStore WITH
    Copy <- Path, NoCopy <- NoPath, Limit <- MaxInstallNum,
    Names <- [f \in Font |-> NamesOf(f)],
    fonts <- Fonts, leaving <- Leaving, call <- [t \in Thread |-> CallOf(t)]

(* User-level calls that overlap in any way answer as the abstract store   *)
(* does: a font is refused as installed only while it is, and as too many  *)
(* only while every place is held; a copy with ERR_OK is there until an    *)
(* uninstallation takes it away, and of the calls that do only one reports *)
(* success (InstallFont, UninstallFont).                                   *)
ImplementsFontStore == Store!Spec
=============================================================================
