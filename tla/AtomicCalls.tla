----------------------------- MODULE AtomicCalls -----------------------------
(***************************************************************************)
(* FontManager implements AtomicStore where calls do not overlap: with one *)
(* thread, no failing writes or removals, no crash, and a store that is    *)
(* not of an older release.                                                *)
(***************************************************************************)
EXTENDS FontManager

(* A cleanup takes effect at its beginning: what it is still to delete is  *)
(* installed no longer.                                                    *)
Leaving == UNION {Snapshot(loc[t].op, loc[t].id) :
                    t \in {t \in Thread : pc[t] \in {"clean", "deleteClean"}}}

FontOf(r) == [names |-> r.names, url |-> r.srcPath, owner |-> r.appId]
Fonts == {FontOf(r) : r \in Records \ Leaving}

(* The font that a call is to install, or has found.                       *)
Subject(t) ==
    IF pc[t] \in {"remove", "delete", "removeScope", "deleteScope"}
    THEN FontOf(CHOOSE r \in Records : r.path = loc[t].path)
    ELSE IF loc[t].font # NoFont
    THEN [names |-> NamesOf(loc[t].font), url |-> loc[t].url, owner |-> loc[t].id]
    ELSE [names |-> {}, url |-> NoUrl, owner |-> Root]

CallOf(t) == [op |-> loc[t].op, font |-> Subject(t), ret |-> loc[t].ret]

(* The failures that a caller is told of.                                  *)
Errors ==
    (IF "copy" \in Fault THEN {"ERR_COPY_FAIL"} ELSE {})
        \cup (IF "dir" \in Fault THEN {"ERR_FILE_NOT_EXISTS", "ERR_SYSTEM_ERROR"} ELSE {})

Caller == CHOOSE t \in Thread : TRUE

Store == INSTANCE AtomicStore WITH
    Limit <- MaxInstallNum, Names <- [f \in Font |-> NamesOf(f)],
    fonts <- Fonts, call <- CallOf(Caller)

(* A call that does not overlap another takes effect at one instant, and   *)
(* its answer is the one that the fonts installed then ask for.  An        *)
(* installation is refused exactly if its names or its srcPath are taken   *)
(* or no place is free, and is otherwise in place when it answers ERR_OK;  *)
(* an uninstallation takes one font of its caller, a cleanup all fonts of  *)
(* its kind, and neither takes any other (all operations of                *)
(* font_manager.cpp that change the store).                                *)
ImplementsAtomicStore == Store!Spec
=============================================================================
