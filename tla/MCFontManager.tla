--------------------------- MODULE MCFontManager ----------------------------
(***************************************************************************)
(* Instances of FontManager for TLC.  Fonts: "single" and "other" declare  *)
(* one full name each, the collection "ttc" declares both, "bad" none.     *)
(***************************************************************************)
EXTENDS FontManager

MCFullNames == [f \in Font |->
    CASE f = "single" -> <<"N1">>
      [] f = "other"  -> <<"N2">>
      [] f = "ttc"    -> <<"N1", "N2">>
      [] f = "bad"    -> <<>>]

DistinctNames == [f \in Font |-> f]     \* every source file has its own name
SameName == [f \in Font |-> "font.ttf"] \* same file name in other directories

\* one application with application scope, another with session scope
TwoClients == {MakeAppIdentifier("app", "a"), MakeAppIdentifier("session", "b")}
OneClient == {MakeAppIdentifier("app", "a")}
AllClients == AppId

UserOps == {"InstallFont", "UninstallFont"}
ScopeOps == {"InstallScopeFont", "UninstallScopeFont"}
CallerOps == UserOps \cup ScopeOps
InstallFontOnly == {"InstallFont"}

(* The bound of the runs: no behaviour goes on from a state with more      *)
(* files, which only orphans can make (operations in flight included, the  *)
(* installed fonts and one copy per thread fit in).                        *)
FewFiles == Cardinality(DOMAIN files) <= MaxInstallNum + 2

ThreadSymmetry == Permutations(Thread)
=============================================================================
