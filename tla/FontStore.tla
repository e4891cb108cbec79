------------------------------ MODULE FontStore ------------------------------
(***************************************************************************)
(* What the store promises to user-level calls (InstallFont and            *)
(* UninstallFont of frameworks/fontmgr/src/font_manager.cpp), whatever     *)
(* other threads do meanwhile: an abstract specification, without a        *)
(* configuration file, directories or the order of single accesses.        *)
(* Module UserFonts shows that FontManager implements it.                  *)
(*                                                                         *)
(* The store is a set of copies of font files.  A copy is installed until  *)
(* an uninstallation takes it away; it then holds its place until one      *)
(* call, and one only, forgets it.                                         *)
(***************************************************************************)
EXTENDS Naturals, FiniteSets

CONSTANTS Thread, Font, Name, Copy, NoFont, NoCopy, Limit,
    Names     \* the set of full names that each font declares

VARIABLES
    fonts,    \* the full names of every copy that holds a place
    leaving,  \* those of them that are installed no longer
    call      \* the call each thread serves, or the answer to its last one

storeVars == <<fonts, leaving, call>>

(* target is the copy that a call has come upon by one of its names.       *)
Answered(ret) == [op |-> "none", font |-> NoFont, target |-> NoCopy, ret |-> ret]
Serving(op, f, c) == [op |-> op, font |-> f, target |-> c, ret |-> "none"]

Init ==
    /\ fonts = << >>
    /\ leaving = {}
    /\ call = [t \in Thread |-> Answered("none")]

Copies == DOMAIN fonts
Forget(c) ==
    /\ fonts' = [d \in Copies \ {c} |-> fonts[d]]
    /\ leaving' = leaving \ {c}

Become(t, state) == call' = [call EXCEPT ![t] = state]
Answer(t, ret) == Become(t, Answered(ret))
Serves(t, op) == call[t].op = op

(***************************************************************************)
(* An installation is refused as full only when all places are held, and   *)
(* as installed only when a copy with one of the font's names is.          *)
(***************************************************************************)
InstallFont(t, f) ==
    /\ Serves(t, "none")
    /\ Become(t, Serving("InstallFont", f, NoCopy))
    /\ UNCHANGED <<fonts, leaving>>

ComeUpon(t, c) ==
    /\ Serves(t, "InstallFont") /\ call[t].target = NoCopy
    /\ fonts[c] \cap Names[call[t].font] # {}
    /\ Become(t, Serving("InstallFont", call[t].font, c))
    /\ UNCHANGED <<fonts, leaving>>

Refuse(t) ==
    /\ Serves(t, "InstallFont")
    /\ \/ call[t].target \in Copies \ leaving /\ Answer(t, "ERR_INSTALLED_ALRADY")
       \/ /\ call[t].target # NoCopy /\ call[t].target \notin Copies
          /\ Answer(t, "ERR_INSTALL_FAIL")
       \/ /\ call[t].target = NoCopy /\ Cardinality(Copies) >= Limit
          /\ Answer(t, "ERR_MAX_FILE_COUNT")
       \/ Names[call[t].font] = {} /\ Answer(t, "ERR_FILE_VERIFY_FAIL")
       \/ call[t].target = NoCopy /\ Answer(t, "ERR_COPY_FAIL")
    /\ UNCHANGED <<fonts, leaving>>

(* A copy that is leaving stands in the way: it is forgotten.              *)
MakeWay(t) ==
    /\ Serves(t, "InstallFont") /\ call[t].target \in leaving
    /\ Forget(call[t].target)
    /\ Become(t, Serving("InstallFont", call[t].font, NoCopy))

Accept(t, c) ==
    /\ Serves(t, "InstallFont") /\ call[t].target = NoCopy
    /\ Cardinality(Copies) < Limit
    /\ c \notin Copies
    /\ fonts' = [d \in Copies \cup {c} |->
                    IF d = c THEN Names[call[t].font] ELSE fonts[d]]
    /\ Answer(t, "ERR_OK")
    /\ UNCHANGED leaving

(***************************************************************************)
(* Of the calls that take one copy away, the one that forgets it reports   *)
(* success.                                                                *)
(***************************************************************************)
UninstallFont(t, n) ==
    /\ Serves(t, "none")
    /\ \/ /\ \A c \in Copies : n \notin fonts[c]
          /\ Answer(t, "ERR_UNINSTALL_FILE_NOT_EXISTS")
       \/ \E c \in Copies : /\ n \in fonts[c]
                            /\ Become(t, Serving("UninstallFont", NoFont, c))
    /\ UNCHANGED <<fonts, leaving>>

Remove(t) ==
    /\ Serves(t, "UninstallFont") /\ call[t].target \in Copies
    /\ leaving' = leaving \cup {call[t].target}
    /\ UNCHANGED <<fonts, call>>

Uninstalled(t) ==
    /\ Serves(t, "UninstallFont")
    /\ \/ /\ call[t].target \in leaving
          /\ Forget(call[t].target)
          /\ Answer(t, "ERR_OK")
       \/ /\ call[t].target \notin Copies
          /\ Answer(t, "ERR_UNINSTALL_FAIL")
          /\ UNCHANGED <<fonts, leaving>>

Next == \E t \in Thread :
    \/ \E f \in Font : InstallFont(t, f)
    \/ \E c \in Copies : ComeUpon(t, c)
    \/ Refuse(t) \/ MakeWay(t)
    \/ \E c \in Copy : Accept(t, c)
    \/ \E n \in Name : UninstallFont(t, n)
    \/ Remove(t) \/ Uninstalled(t)

Spec == Init /\ [][Next]_storeVars
=============================================================================
