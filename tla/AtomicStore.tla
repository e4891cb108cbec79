----------------------------- MODULE AtomicStore -----------------------------
(***************************************************************************)
(* What the store promises to calls that do not overlap                    *)
(* (frameworks/fontmgr/src/font_manager.cpp): an abstract specification in *)
(* which the installed fonts are a set, without paths, files or a          *)
(* configuration.  Each call takes effect in one step and, unless the      *)
(* environment fails, the installed fonts decide its answer.               *)
(* Module AtomicCalls shows that FontManager implements it.                *)
(***************************************************************************)
EXTENDS Naturals, FiniteSets

CONSTANTS Font, Name, Url, Token, Client, Op, Limit,
    Names,        \* the set of full names that each font declares
    NoUrl, Root,  \* srcPath and owner of what is installed for the user
    Errors        \* the answers that the environment may bring about

VARIABLES
    fonts,        \* the installed fonts: their names, srcPath and owner
    call          \* the call that is served, or the answer to the last one

storeVars == <<fonts, call>>

NewFont(names, u, owner) == [names |-> names, url |-> u, owner |-> owner]
NullFont == NewFont({}, NoUrl, Root)

Serving(op, x) == [op |-> op, font |-> x, ret |-> "none"]
Answered(ret) == [op |-> "none", font |-> NullFont, ret |-> ret]

Init == fonts = {} /\ call = Answered("none")

Serves(op) == call.op = op
Begin(op, x) == op \in Op /\ Serves("none") /\ call' = Serving(op, x)
Answer(ret) == call' = Answered(ret)
Refuse(ret) == Answer(ret) /\ UNCHANGED fonts

(***************************************************************************)
(* Installations.  A font is admitted when its names are new, and for a    *)
(* scope its srcPath too, and when there is a place for it.                *)
(***************************************************************************)
Full == Cardinality(fonts) >= Limit
Taken(x) == \E y \in fonts : x.names \cap y.names # {}
Known(x) == \E y \in fonts : y.url = x.url

InstallFont(f) ==
    Begin("InstallFont", NewFont(Names[f], NoUrl, Root)) /\ UNCHANGED fonts

InstallScopeFont(f, u, owner) ==
    Begin("InstallScopeFont", NewFont(Names[f], u, owner)) /\ UNCHANGED fonts

(* The environment fails before a call has begun, or after all its checks. *)
Fail == \E error \in Errors : Refuse(error)

Admit(x) ==
    \/ fonts' = fonts \cup {x} /\ Answer("ERR_OK")
    \/ Fail

Installed ==
    LET x == call.font IN
    /\ Serves("InstallFont")
    /\ \/ x.names = {} /\ Refuse("ERR_FILE_VERIFY_FAIL")
       \/ Taken(x) /\ Refuse("ERR_INSTALLED_ALRADY")
       \/ x.names # {} /\ ~Taken(x) /\ Full /\ Refuse("ERR_MAX_FILE_COUNT")
       \/ x.names # {} /\ ~Taken(x) /\ ~Full /\ Admit(x)

ScopeInstalled ==
    LET x == call.font IN
    /\ Serves("InstallScopeFont")
    /\ \/ Known(x) /\ Refuse("ERR_INSTALLED_ALRADY")
       \/ ~Known(x) /\ Full /\ Refuse("ERR_MAX_FILE_COUNT")
       \/ ~Known(x) /\ ~Full /\ x.names = {} /\ Refuse("ERR_FILE_VERIFY_FAIL")
       \/ ~Known(x) /\ ~Full /\ Taken(x) /\ Refuse("ERR_INSTALLED_ALRADY")
       \/ ~Known(x) /\ ~Full /\ x.names # {} /\ ~Taken(x) /\ Admit(x)

(***************************************************************************)
(* Uninstallations.  Each takes away the one font it is about, which must  *)
(* be a font of the whole user or one of the caller's.                     *)
(***************************************************************************)
Uninstall(op, found, error) ==
    /\ UNCHANGED fonts
    /\ \/ \E x \in found : Begin(op, x)
       \/ found = {} /\ op \in Op /\ Serves("none") /\ Answer(error)

UninstallFont(n) ==
    Uninstall("UninstallFont", {x \in fonts : n \in x.names /\ x.owner = Root},
              "ERR_UNINSTALL_FILE_NOT_EXISTS")

UninstallScopeFont(u, token) ==
    Uninstall("UninstallScopeFont", {x \in fonts : x.url = u /\ x.owner.token = token},
              "ERR_SCOPE_FONT_NOT_FOUND")

Uninstalled ==
    /\ Serves("UninstallFont") \/ Serves("UninstallScopeFont")
    /\ call.font \in fonts
    /\ fonts' = fonts \ {call.font}
    /\ Answer("ERR_OK")

(***************************************************************************)
(* Cleanups: what each takes is gone at once, before it answers.           *)
(***************************************************************************)
Takes(op, token, x) ==
    CASE op = "CleanupAppScopeFonts"        -> x.owner = [scope |-> "app", token |-> token]
      [] op = "CleanupAppScopeFontsOnStart" -> x.owner.scope = "app"
      [] OTHER                              -> x.owner # Root

UserCleanup == {"CleanupUserScopeFonts", "CleanupAllScopeFontsOnBoot",
    "CleanupAppScopeFontsOnStart"}
Cleanups == UserCleanup \cup {"CleanupAppScopeFonts"}

Cleanup(op, token) ==
    /\ Begin(op, NullFont)
    /\ fonts' = {x \in fonts : ~Takes(op, token, x)}

CleanedUp == call.op \in Cleanups /\ Refuse("ERR_OK")

CleanupScopeFontDirs ==
    "CleanupScopeFontDirs" \in Op /\ Serves("none") /\ Refuse("ERR_OK")

Next ==
    \/ \E f \in Font : InstallFont(f)
    \/ \E f \in Font, u \in Url, owner \in Client : InstallScopeFont(f, u, owner)
    \/ Serves("none") /\ Fail
    \/ Installed \/ ScopeInstalled
    \/ \E n \in Name : UninstallFont(n)
    \/ \E u \in Url, token \in Token : UninstallScopeFont(u, token)
    \/ Uninstalled
    \/ \E token \in Token : Cleanup("CleanupAppScopeFonts", token)
    \/ \E op \in UserCleanup : Cleanup(op, Root.token)
    \/ CleanedUp \/ CleanupScopeFontDirs

Spec == Init /\ [][Next]_storeVars
=============================================================================
