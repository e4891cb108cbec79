------------------------- MODULE AtomicCalls_proofs -------------------------
(***************************************************************************)
(* Proof that FontManager implements AtomicStore for any fonts, callers    *)
(* and limit, with every operation, where calls do not overlap and only    *)
(* copies and the creation of directories fail.                            *)
(***************************************************************************)
EXTENDS AtomicCalls, FontRecords_proofs

-----------------------------------------------------------------------------
(* The inductive invariant, beside those of FontRecords_proofs.            *)

Installing == UserLabel \cup ScopeLabel \cup {"create", "fill"}
Searching == {"find", "probe", "names"}
Checked == {"copy", "insert", "names", "mkdir", "copyScope", "insertScope"}
Removing == {"remove", "delete"}
ScopeRemoving == {"removeScope", "deleteScope"}
Cleaning == {"clean", "deleteClean"}

(* What a call carries along from its beginning.                           *)
Served(label, l) ==
    /\ label \notin {"heal", "undo"}
    /\ label = "idle" => l.op = "none"
    /\ label # "idle" => l.ret = "none"
    /\ label \notin Installing => l.font = NoFont
    /\ l.op = "InstallFont" => l.url = NoUrl
    /\ label \in UserLabel => l.op = "InstallFont"
    /\ label \in ScopeLabel => l.op = "InstallScopeFont"
    /\ label \in Removing => l.op = "UninstallFont"
    /\ label \in ScopeRemoving => l.op = "UninstallScopeFont"

(* What the checks have shown still holds when the call acts on it, and    *)
(* what it has looked up is still there.                                   *)
Passed(t) ==
    /\ pc[t] \in Checked => Len(fontlist) < MaxInstallNum
    /\ pc[t] \in Checked \cup {"probe", "count"} => FullNames[loc[t].font] # <<>>
    /\ pc[t] \in Searching /\ FullNames[loc[t].font] # <<>> =>
        loc[t].i \in DOMAIN FullNames[loc[t].font]
    /\ pc[t] \in {"copyScope", "insertScope"} => loc[t].id \in dirs
    /\ pc[t] = "probe" =>
        \E r \in Records : r.path = loc[t].path /\ FullName(t) \in r.names
    /\ pc[t] \in Removing =>
        \E r \in Records : r.path = loc[t].path /\ r.appId = Root
    /\ pc[t] \in ScopeRemoving =>
        \E r \in Records : r.path = loc[t].path /\ r.srcPath = loc[t].url

AtomicInv ==
    /\ \A t \in Thread : Served(pc[t], loc[t]) /\ Passed(t)
    /\ \A t \in Thread : configFile = "broken" <=> pc[t] = "fill"
    /\ \A r \in Records : r.names # {}

(* Everything that is known of a state.                                    *)
StoreInv ==
    /\ TypeInv /\ SiteInv /\ CallInv /\ UrlInv /\ OwnerInv /\ TodoInv
    /\ FreshInv /\ NameInv
    /\ DiskInv /\ DiskAgrees
    /\ AtomicInv

(* The store and its calls that the theorem is about.                      *)
Sequential ==
    /\ OneThread /\ ~RepeatTag /\ Reliable
    /\ "old" \notin InitialFile

-----------------------------------------------------------------------------
(* The one caller, and the moves of its call.                              *)

LEMMA OneCaller ==
    ASSUME OneThread, NEW t \in Thread
    PROVE  t = Caller /\ \A s \in Thread : s = t
BY DEF OneThread, Caller

Stays(t, label) ==
    /\ pc'[t] = label /\ loc'[t].ret = loc[t].ret
    /\ loc'[t].op = loc[t].op /\ loc'[t].font = loc[t].font
    /\ loc'[t].url = loc[t].url /\ loc'[t].id = loc[t].id

(* A move that keeps the arguments of the call.                            *)
LEMMA Staying ==
    ASSUME TypeInv, NEW t \in Thread, NEW label
    PROVE  /\ Continue(t, label) => Stays(t, label) /\ loc'[t] = loc[t]
           /\ \A p : Move(t, label, [loc[t] EXCEPT !.path = p]) =>
                Stays(t, label) /\ loc'[t].path = p /\ loc'[t].i = loc[t].i
           /\ \A again : NextName(t, again, label) =>
                \/ Stays(t, again) /\ ~LastName(t) /\ loc'[t].i = loc[t].i + 1
                \/ Stays(t, label) /\ LastName(t)
<1>1. ControlOK /\ loc[t] \in Local
    BY DEF TypeInv, ControlOK
<1>2. ASSUME NEW x, NEW l, Move(t, x, l) PROVE pc'[t] = x /\ loc'[t] = l
    BY <1>1, <1>2, Moves
<1>3. ASSUME Continue(t, label) PROVE Stays(t, label) /\ loc'[t] = loc[t]
    BY <1>2, <1>3 DEF Continue, Stays
<1>4. ASSUME NEW x, NEW p, Move(t, x, [loc[t] EXCEPT !.path = p])
      PROVE  Stays(t, x) /\ loc'[t].path = p /\ loc'[t].i = loc[t].i
    BY <1>1, <1>2, <1>4 DEF Stays, Local
<1>5. ASSUME NEW x, Move(t, x, [loc[t] EXCEPT !.i = @ + 1, !.path = NoPath])
      PROVE  Stays(t, x) /\ loc'[t].i = loc[t].i + 1
    <2>1. pc'[t] = x /\ loc'[t] = [loc[t] EXCEPT !.i = @ + 1, !.path = NoPath]
        BY <1>2, <1>5
    <2> QED
        BY <1>1, <2>1 DEF Stays, Local
<1>6. ASSUME NEW again, NextName(t, again, label)
      PROVE  \/ Stays(t, again) /\ ~LastName(t) /\ loc'[t].i = loc[t].i + 1
             \/ Stays(t, label) /\ LastName(t)
    BY <1>4, <1>5, <1>6 DEF NextName
<1> QED
    BY <1>3, <1>4, <1>6

(* A call that returns, and one that begins.                               *)
LEMMA Returning ==
    ASSUME TypeInv, NEW t \in Thread, NEW code, Return(t, code)
    PROVE  pc'[t] = "idle" /\ loc'[t] = [Idle EXCEPT !.ret = code]
BY Moves DEF Return, TypeInv

LEMMA Opening ==
    ASSUME TypeInv, NEW t \in Thread, NEW label, NEW op, NEW f, NEW u, NEW id
    PROVE  /\ Move(t, label, Begin(op, f, u, id)) =>
                pc'[t] = label /\ loc'[t] = Begin(op, f, u, id)
           /\ \A p : Move(t, label, [Begin(op, f, u, id) EXCEPT !.path = p]) =>
                pc'[t] = label /\ loc'[t] = [Begin(op, f, u, id) EXCEPT !.path = p]
           /\ \A todo : Move(t, label, [Begin(op, f, u, id) EXCEPT !.todo = todo]) =>
                pc'[t] = label /\ loc'[t] = [Begin(op, f, u, id) EXCEPT !.todo = todo]
<1>1. ASSUME NEW l, Move(t, label, l) PROVE pc'[t] = label /\ loc'[t] = l
    BY <1>1, Moves DEF TypeInv
<1> QED
    BY <1>1

(* The invariant need only be shown of the one thread.                     *)
LEMMA AtomicOfOne ==
    ASSUME OneThread, NEW t \in Thread, Served(pc'[t], loc'[t]), Passed(t)',
           configFile' = "broken" <=> pc'[t] = "fill", \A r \in Records' : r.names # {}
    PROVE  AtomicInv'
<1>1. \A s \in Thread : s = t
    BY OneCaller
<1> QED
    BY <1>1 DEF AtomicInv

-----------------------------------------------------------------------------
(* What the moves are to the abstract store.                               *)

(* A call that only reads leaves the records as they are.                  *)
LEMMA SameRecords ==
    ASSUME UNCHANGED configVars
    PROVE  Records' = Records /\ fontlist' = fontlist /\ configFile' = configFile
BY DEF Records, configVars

(* Only a cleanup has fonts that are leaving.                              *)
LEMMA NoneLeaving ==
    ASSUME OneThread, NEW t \in Thread
    PROVE  /\ pc[t] \notin Cleaning => Leaving = {} /\ Fonts = {FontOf(r) : r \in Records}
           /\ pc'[t] \notin Cleaning => Leaving' = {} /\ Fonts' = {FontOf(r) : r \in Records'}
<1>1. \A s \in Thread : s = t
    BY OneCaller
<1>2. pc[t] \notin Cleaning => Leaving = {}
    BY <1>1 DEF Leaving, Cleaning
<1>3. pc'[t] \notin Cleaning => Leaving' = {}
    BY <1>1 DEF Leaving, Cleaning
<1> QED
    BY <1>2, <1>3 DEF Fonts

(* The answer of a call that returns.                                      *)
LEMMA Answering ==
    ASSUME TypeInv, AtomicInv, OneThread, NEW t \in Thread, NEW code, Return(t, code)
    PROVE  /\ CallOf(Caller)' = Store!Answered(code)
           /\ Fonts' = {FontOf(r) : r \in Records'}
           /\ configFile' # "broken" /\ (\A r \in Records' : r.names # {}) => AtomicInv'
<1>1. pc'[t] = "idle" /\ loc'[t] = [Idle EXCEPT !.ret = code]
    BY Returning
<1>2. /\ loc'[t].op = "none" /\ loc'[t].font = NoFont /\ loc'[t].ret = code
    BY <1>1 DEF Idle
<1>3. CallOf(t)' = Store!Answered(code)
    BY <1>1, <1>2 DEF CallOf, Subject, Store!Answered, Store!NullFont, Store!NewFont
<1>4. Fonts' = {FontOf(r) : r \in Records'}
    BY <1>1, NoneLeaving DEF Cleaning
<1>5. Served(pc'[t], loc'[t]) /\ Passed(t)'
    BY <1>1, <1>2 DEF Served, Passed, Installing, UserLabel, ScopeLabel, PastUpdate, Searching,
       Checked, Removing, ScopeRemoving
<1> QED
    BY <1>1, <1>3, <1>4, <1>5, OneCaller, AtomicOfOne

(* The same, of a call that has changed nothing.                           *)
LEMMA Refusing ==
    ASSUME TypeInv, AtomicInv, OneThread, NEW t \in Thread, NEW code, Return(t, code),
           UNCHANGED configVars, pc[t] # "fill", pc[t] \notin Cleaning
    PROVE  Store!Refuse(code) /\ AtomicInv'
<1>1. Records' = Records /\ configFile' = configFile
    BY SameRecords
<1>2. configFile' # "broken" /\ \A r \in Records' : r.names # {}
    BY <1>1 DEF AtomicInv
<1>3. Fonts' = Fonts
    BY <1>1, NoneLeaving, Answering
<1> QED
    BY <1>2, <1>3, Answering DEF Store!Refuse, Store!Answer

(* The font that an installation is about.                                 *)
LEMMA FontToInstall ==
    ASSUME TypeInv, NEW t \in Thread, pc[t] \in Installing
    PROVE  /\ loc[t].font \in Font /\ loc[t].font # NoFont
           /\ Subject(t) = [names |-> NamesOf(loc[t].font), url |-> loc[t].url,
                            owner |-> loc[t].id]
<1>1. loc[t].font \in Font
    BY LocalType DEF Ready, Installing, UserLabel, ScopeLabel, PastUpdate
<1>2. loc[t].font # NoFont
    BY <1>1, FontManagerAssumption
<1> QED
    BY <1>1, <1>2 DEF Subject, Installing, UserLabel, ScopeLabel, PastUpdate

(* An installation that goes on is served as before.                       *)
LEMMA InstallGoesOn ==
    ASSUME TypeInv, AtomicInv, OneThread, NEW t \in Thread, NEW label \in Installing,
           pc[t] \in Installing, Stays(t, label), label \notin {"heal", "undo"},
           label \in UserLabel => loc[t].op = "InstallFont",
           label \in ScopeLabel => loc[t].op = "InstallScopeFont",
           Records' = Records
    PROVE  UNCHANGED Store!storeVars /\ Served(pc'[t], loc'[t])
<1> USE DEF Installing, UserLabel, ScopeLabel, PastUpdate
<1>1. Fonts' = Fonts
    BY NoneLeaving DEF Stays, Cleaning
<1>2. Subject(t)' = Subject(t)
    BY FontToInstall DEF Subject, Stays
<1>3. CallOf(t)' = CallOf(t)
    BY <1>2 DEF CallOf, Stays
<1>4. Served(pc'[t], loc'[t])
    <2>1. Served(pc[t], loc[t])
        BY DEF AtomicInv
    <2> QED
        BY <2>1 DEF Served, Stays, Removing, ScopeRemoving
<1> QED
    BY <1>1, <1>3, <1>4, OneCaller DEF Store!storeVars

-----------------------------------------------------------------------------
(* What the abstract store sees of the records.                            *)

StoreStep == [Store!Next]_(Store!storeVars)

(* No two records are the same font.                                       *)
LEMMA DistinctFonts ==
    ASSUME UniqueNames, \A r \in Records : r.names # {}
    PROVE  /\ \A i, j \in DOMAIN fontlist :
                FontOf(fontlist[i]) = FontOf(fontlist[j]) => i = j
           /\ \A r, s \in Records : FontOf(r) = FontOf(s) => r = s
<1>1. \A r, s : FontOf(r) = FontOf(s) => r.names = s.names
    BY DEF FontOf
<1>2. ASSUME NEW i \in DOMAIN fontlist, NEW j \in DOMAIN fontlist,
             FontOf(fontlist[i]) = FontOf(fontlist[j])
      PROVE  i = j
    <2>1. fontlist[i].names # {} /\ fontlist[i].names = fontlist[j].names
        BY <1>1, <1>2 DEF Records
    <2> QED
        BY <2>1 DEF UniqueNames
<1> QED
    BY <1>2 DEF Records

(* There are as many fonts as records.                                     *)
LEMMA FontsAreCounted ==
    ASSUME ConfigTypeOK, UniqueNames, \A r \in Records : r.names # {}
    PROVE  Store!Cardinality({FontOf(r) : r \in Records}) = Len(fontlist)
<1> DEFINE n == Len(fontlist)
           F == {FontOf(r) : r \in Records}
           g == [i \in 1 .. n |-> FontOf(fontlist[i])]
<1>1. n \in Nat /\ DOMAIN fontlist = 1 .. n
    BY DEF ConfigTypeOK
<1>2. F = {g[i] : i \in 1 .. n} /\ \A i \in 1 .. n : g[i] \in F
    BY <1>1 DEF Records
<1>3. \A i, j \in 1 .. n : g[i] = g[j] => i = j
    BY <1>1, DistinctFonts
<1>4. g \in Bijection(1 .. n, F)
    BY <1>2, <1>3 DEF Bijection, Injection, Surjection, IsInjective
<1> HIDE DEF n, F, g
<1>5. ExistsBijection(1 .. n, F)
    BY <1>4 DEF ExistsBijection
<1>6. Cardinality(F) = n
    BY <1>1, <1>5, FS_CountingElements
<1>7. Store!Cardinality(F) = Cardinality(F)
    BY DEF Store!Cardinality, Cardinality
<1> QED
    BY <1>6, <1>7 DEF n, F

(* What decides about an installation is the same in both.                 *)
LEMMA Observed ==
    ASSUME StoreInv, OneThread, NEW t \in Thread, pc[t] \notin Cleaning, NEW x
    PROVE  /\ Fonts = {FontOf(r) : r \in Records}
           /\ Store!Full <=> Len(fontlist) >= MaxInstallNum
           /\ Store!Taken(x) <=> \E r \in Records : x.names \cap r.names # {}
           /\ Store!Known(x) <=> HasUrl(x.url)
<1>1. ConfigTypeOK /\ UniqueNames /\ \A r \in Records : r.names # {}
    BY DEF StoreInv, TypeInv, NameInv, AtomicInv
<1>2. Fonts = {FontOf(r) : r \in Records}
    BY NoneLeaving
<1>3. Store!Full <=> Len(fontlist) >= MaxInstallNum
    BY <1>1, <1>2, FontsAreCounted DEF Store!Full
<1>4. \A r : FontOf(r).names = r.names /\ FontOf(r).url = r.srcPath
    BY DEF FontOf
<1>5. Store!Taken(x) <=> \E r \in Records : x.names \cap r.names # {}
    BY <1>2, <1>4 DEF Store!Taken
<1>6. Store!Known(x) <=> HasUrl(x.url)
    BY <1>2, <1>4 DEF Store!Known, HasUrl, WithUrl, Records
<1> QED
    BY <1>2, <1>3, <1>5, <1>6

(* The names that a font file declares.                                    *)
LEMMA DeclaredNames ==
    ASSUME NEW f \in Font
    PROVE  /\ FullNames[f] \in Seq(Name) /\ NamesOf(f) \in SUBSET Name
           /\ NamesOf(f) = {} <=> FullNames[f] = <<>>
<1>1. FullNames[f] \in Seq(Name)
    BY FontConfigAssumption
<1>2. NamesOf(f) \in SUBSET Name
    BY <1>1 DEF NamesOf
<1>3. FullNames[f] # <<>> => 1 \in DOMAIN FullNames[f]
    BY <1>1
<1>4. FullNames[f] = <<>> => DOMAIN FullNames[f] = {}
    BY <1>1
<1> QED
    BY <1>1, <1>2, <1>3, <1>4 DEF NamesOf

(* The names that an installation has been through are not taken.          *)
Claimant(f) == \E r \in Records : NamesOf(f) \cap r.names # {}

LEMMA NamesAreFree ==
    ASSUME NameInv, NEW t \in Thread, pc[t] \in AllSeen
    PROVE  ~Claimant(loc[t].font)
BY DEF NameInv, NameOK, Untaken, NamesOf, Claimant

LEMMA NameIsTaken ==
    ASSUME NEW t \in Thread, loc[t].i \in DOMAIN FullNames[loc[t].font],
           HasName(FullName(t))
    PROVE  Claimant(loc[t].font)
<1>1. FullName(t) \in NamesOf(loc[t].font)
    BY DEF FullName, NamesOf
<1> QED
    BY <1>1, Named DEF Claimant

(* The call that the abstract store sees.                                  *)
LEMMA CallSeen ==
    ASSUME TypeInv, AtomicInv, OneThread, NEW t \in Thread, pc[t] \in Installing
    PROVE  /\ pc[t] \in UserLabel => CallOf(Caller).op = "InstallFont"
           /\ pc[t] \in ScopeLabel => CallOf(Caller).op = "InstallScopeFont"
           /\ CallOf(Caller).font = [names |-> NamesOf(loc[t].font), url |-> loc[t].url,
                                     owner |-> loc[t].id]
<1>1. Served(pc[t], loc[t])
    BY DEF AtomicInv
<1>2. CallOf(Caller).op = loc[t].op /\ CallOf(Caller).font = Subject(t)
    BY OneCaller DEF CallOf
<1> QED
    BY <1>1, <1>2, FontToInstall DEF Served

(* An installation that is refused, by InstallFont and by                  *)
(* InstallScopeFont, or fails.                                             *)
LEMMA InstallRefused ==
    ASSUME StoreInv, OneThread, NEW t \in Thread, pc[t] \in UserLabel, NEW code,
           Return(t, code), UNCHANGED configVars,
           \/ FullNames[loc[t].font] = <<>> /\ code = "ERR_FILE_VERIFY_FAIL"
           \/ Claimant(loc[t].font) /\ code = "ERR_INSTALLED_ALRADY"
           \/ /\ FullNames[loc[t].font] # <<>> /\ ~Claimant(loc[t].font)
              /\ \/ Len(fontlist) >= MaxInstallNum /\ code = "ERR_MAX_FILE_COUNT"
                 \/ ~(Len(fontlist) >= MaxInstallNum) /\ code \in Errors
    PROVE  StoreStep /\ AtomicInv'
<1> DEFINE x == CallOf(Caller).font
<1>1. TypeInv /\ AtomicInv /\ pc[t] \in Installing /\ pc[t] # "fill" /\ pc[t] \notin Cleaning
    BY DEF StoreInv, Installing, UserLabel, Cleaning
<1>2. Store!Refuse(code) /\ AtomicInv'
    BY <1>1, Refusing
<1>3. CallOf(Caller).op = "InstallFont" /\ x.names = NamesOf(loc[t].font)
    <2>1. CallOf(Caller).op = "InstallFont"
        BY <1>1, CallSeen
    <2>2. x = [names |-> NamesOf(loc[t].font), url |-> loc[t].url, owner |-> loc[t].id]
        BY <1>1, CallSeen
    <2> QED
        BY <2>1, <2>2
<1> HIDE DEF x
<1>4. x.names = {} <=> FullNames[loc[t].font] = <<>>
    BY <1>1, <1>3, FontToInstall, DeclaredNames
<1>5. /\ Store!Taken(x) <=> Claimant(loc[t].font)
      /\ Store!Full <=> Len(fontlist) >= MaxInstallNum
    BY <1>1, <1>3, Observed DEF Claimant
<1>6. code \in Errors /\ Store!Refuse(code) => Store!Admit(x)
    BY DEF Store!Admit, Store!Fail
<1>7. Store!Installed
    BY <1>2, <1>3, <1>4, <1>5, <1>6 DEF Store!Installed, Store!Serves, x
<1> QED
    BY <1>2, <1>7 DEF StoreStep, Store!Next

LEMMA ScopeInstallRefused ==
    ASSUME StoreInv, OneThread, NEW t \in Thread, pc[t] \in PastUpdate, NEW code,
           Return(t, code), UNCHANGED configVars,
           \/ HasUrl(loc[t].url) /\ code = "ERR_INSTALLED_ALRADY"
           \/ /\ ~HasUrl(loc[t].url)
              /\ \/ Len(fontlist) >= MaxInstallNum /\ code = "ERR_MAX_FILE_COUNT"
                 \/ /\ ~(Len(fontlist) >= MaxInstallNum)
                    /\ \/ FullNames[loc[t].font] = <<>> /\ code = "ERR_FILE_VERIFY_FAIL"
                       \/ Claimant(loc[t].font) /\ code = "ERR_INSTALLED_ALRADY"
                       \/ /\ FullNames[loc[t].font] # <<>> /\ ~Claimant(loc[t].font)
                          /\ code \in Errors
    PROVE  StoreStep /\ AtomicInv'
<1> DEFINE x == CallOf(Caller).font
<1>1. TypeInv /\ AtomicInv /\ pc[t] \in Installing /\ pc[t] # "fill" /\ pc[t] \notin Cleaning
    BY DEF StoreInv, Installing, ScopeLabel, PastUpdate, Cleaning
<1>2. Store!Refuse(code) /\ AtomicInv'
    BY <1>1, Refusing
<1>3. /\ CallOf(Caller).op = "InstallScopeFont" /\ x.names = NamesOf(loc[t].font)
      /\ x.url = loc[t].url
    <2>1. CallOf(Caller).op = "InstallScopeFont"
        BY <1>1, CallSeen DEF ScopeLabel
    <2>2. x = [names |-> NamesOf(loc[t].font), url |-> loc[t].url, owner |-> loc[t].id]
        BY <1>1, CallSeen
    <2> QED
        BY <2>1, <2>2
<1> HIDE DEF x
<1>4. x.names = {} <=> FullNames[loc[t].font] = <<>>
    BY <1>1, <1>3, FontToInstall, DeclaredNames
<1>5. /\ Store!Taken(x) <=> Claimant(loc[t].font)
      /\ Store!Full <=> Len(fontlist) >= MaxInstallNum
      /\ Store!Known(x) <=> HasUrl(loc[t].url)
    BY <1>1, <1>3, Observed DEF Claimant
<1>6. code \in Errors /\ Store!Refuse(code) => Store!Admit(x)
    BY DEF Store!Admit, Store!Fail
<1>7. Store!ScopeInstalled
    BY <1>2, <1>3, <1>4, <1>5, <1>6 DEF Store!ScopeInstalled, Store!Serves, x
<1> QED
    BY <1>2, <1>7 DEF StoreStep, Store!Next

(* An installation that goes on after a look at the configuration.         *)
LEMMA InstallProceeds ==
    ASSUME StoreInv, OneThread, NEW t \in Thread, NEW label, Stays(t, label),
           \/ pc[t] \in UserLabel /\ label \in UserLabel \ {"heal"}
           \/ pc[t] \in ScopeLabel /\ label \in ScopeLabel,
           UNCHANGED configVars, Passed(t)'
    PROVE  StoreStep /\ AtomicInv'
<1>1. TypeInv /\ AtomicInv /\ Served(pc[t], loc[t]) /\ label \in Installing
      /\ pc[t] \in Installing /\ pc[t] # "fill" /\ label \notin {"fill", "heal", "undo"}
    BY DEF StoreInv, AtomicInv, Installing, UserLabel, ScopeLabel, PastUpdate
<1>2. Records' = Records /\ configFile' = configFile
    BY SameRecords
<1>3. /\ label \in UserLabel => loc[t].op = "InstallFont"
      /\ label \in ScopeLabel => loc[t].op = "InstallScopeFont"
    BY <1>1 DEF Served, UserLabel, ScopeLabel, PastUpdate
<1>4. UNCHANGED Store!storeVars /\ Served(pc'[t], loc'[t])
    BY <1>1, <1>2, <1>3, InstallGoesOn
<1>5. AtomicInv'
    BY <1>1, <1>2, <1>4, AtomicOfOne DEF AtomicInv, Stays
<1> QED
    BY <1>4, <1>5 DEF StoreStep

-----------------------------------------------------------------------------
(* The installation of a configuration file.                               *)

LEMMA CreateConfigStep ==
    ASSUME StoreInv, Sequential, NEW t \in Thread, CreateConfig(t)
    PROVE  StoreStep /\ AtomicInv'
<1>1. TypeInv /\ AtomicInv /\ OneThread /\ pc[t] = "create" /\ Served(pc[t], loc[t])
    BY DEF StoreInv, AtomicInv, Sequential, CreateConfig, At
<1>2. Records = {}
    BY <1>1 DEF StoreInv, DiskInv, DiskOK, TypeInv, ConfigTypeOK, Records
<1>3. configFile' = "broken" /\ Records' = {} /\ Stays(t, "fill")
    BY <1>1, Staying DEF CreateConfig, CreateFontConfig, Truncated, Records
<1>4. UNCHANGED Store!storeVars /\ Served(pc'[t], loc'[t])
    BY <1>1, <1>2, <1>3, InstallGoesOn DEF Installing, UserLabel, ScopeLabel, PastUpdate
<1>5. Passed(t)'
    BY <1>3 DEF Passed, Stays, Checked, Searching, Removing, ScopeRemoving
<1>6. AtomicInv'
    BY <1>1, <1>3, <1>4, <1>5, AtomicOfOne DEF Stays
<1> QED
    BY <1>4, <1>6 DEF StoreStep

LEMMA FillConfigStep ==
    ASSUME StoreInv, Sequential, NEW t \in Thread, FillConfig(t)
    PROVE  StoreStep /\ AtomicInv'
<1> DEFINE label == AfterInit(loc[t].op)
<1>1. TypeInv /\ AtomicInv /\ OneThread /\ pc[t] = "fill" /\ Served(pc[t], loc[t])
    BY DEF StoreInv, AtomicInv, Sequential, FillConfig, At
<1>2. Records = {}
    BY <1>1 DEF AtomicInv, TypeInv, ConfigTypeOK, Records
<1>3. /\ configFile' = "valid" /\ Records' = {} /\ Stays(t, label) /\ loc'[t] = loc[t]
    BY <1>1, Staying DEF FillConfig, FillFontConfig, Sequential, Reliable, Records
<1>4. \/ loc[t].op = "InstallFont" /\ label = "find"
      \/ loc[t].op = "InstallScopeFont" /\ label = "update"
    BY <1>1 DEF StoreInv, SiteInv, Sited, AfterInit
<1> HIDE DEF label
<1>5. UNCHANGED Store!storeVars /\ Served(pc'[t], loc'[t])
    BY <1>1, <1>2, <1>3, <1>4, InstallGoesOn DEF Installing, UserLabel, ScopeLabel, PastUpdate
<1>6. Passed(t)'
    <2>1. loc[t].i = 1 /\ FullNames[loc[t].font] \in Seq(Name)
        BY <1>1, FontToInstall, DeclaredNames DEF StoreInv, NameInv, NameOK, Installing
    <2>2. FullNames[loc[t].font] # <<>> => loc[t].i \in DOMAIN FullNames[loc[t].font]
        BY <2>1
    <2> QED
        BY <1>3, <1>4, <2>2 DEF Passed, Stays, Checked, Searching, Removing, ScopeRemoving
<1>7. AtomicInv'
    BY <1>1, <1>3, <1>4, <1>5, <1>6, AtomicOfOne DEF Stays
<1> QED
    BY <1>5, <1>7 DEF StoreStep

-----------------------------------------------------------------------------
(* InstallFont.                                                            *)

(* The next name is one of the font, too.                                  *)
LEMMA NextIsName ==
    ASSUME TypeInv, NEW t \in Thread, loc[t].font \in Font, ~LastName(t)
    PROVE  loc[t].i + 1 \in DOMAIN FullNames[loc[t].font]
<1>1. loc[t].i \in Nat /\ FullNames[loc[t].font] \in Seq(Name)
    BY DeclaredNames DEF TypeInv, ControlOK, Local
<1> QED
    BY <1>1 DEF LastName

LEMMA FindInstalledStep ==
    ASSUME StoreInv, Sequential, NEW t \in Thread, FindInstalled(t)
    PROVE  StoreStep /\ AtomicInv'
<1> DEFINE F == FullNames[loc[t].font]
<1>1. /\ TypeInv /\ ConfigTypeOK /\ AtomicInv /\ OneThread /\ Passed(t)
      /\ pc[t] = "find" /\ pc[t] \in UserLabel /\ UNCHANGED configVars
    BY DEF StoreInv, TypeInv, AtomicInv, Sequential, FindInstalled, At, UserLabel
<1>2. loc[t].font \in Font
    BY <1>1, FontToInstall DEF Installing
<1>3. CASE F = <<>> /\ Return(t, "ERR_FILE_VERIFY_FAIL")
    BY <1>1, <1>3, InstallRefused
<1>4. CASE F # <<>> /\ NextName(t, "find", "count")
    <2>1. \/ Stays(t, "find") /\ ~LastName(t) /\ loc'[t].i = loc[t].i + 1
          \/ Stays(t, "count")
        BY <1>1, <1>4, Staying
    <2>2. Passed(t)'
        BY <1>1, <1>2, <1>4, <2>1, NextIsName
           DEF Passed, Stays, Checked, Searching, Removing, ScopeRemoving
    <2> QED
        BY <1>1, <2>1, <2>2, InstallProceeds DEF UserLabel
<1>5. CASE F # <<>> /\ HasName(FullName(t))
           /\ Move(t, "probe", [loc[t] EXCEPT !.path = GetFontFileByName(FullName(t))])
    <2> DEFINE n == FullName(t)
    <2>1. Stays(t, "probe") /\ loc'[t].path = GetFontFileByName(n) /\ loc'[t].i = loc[t].i
        BY <1>1, <1>5, Staying
    <2>2. GetFontRecordByName(n) \in Records' /\ n \in GetFontRecordByName(n).names
        BY <1>1, <1>5, FoundByName, SameRecords
    <2>3. FullName(t)' = n /\ loc[t].i \in DOMAIN F
        BY <1>1, <1>5, <2>1 DEF FullName, Stays, Passed, Searching
    <2> HIDE DEF n
    <2>4. Passed(t)'
        BY <1>5, <2>1, <2>2, <2>3
           DEF Passed, Stays, Checked, Searching, Removing, ScopeRemoving, GetFontFileByName
    <2> QED
        BY <1>1, <2>1, <2>4, InstallProceeds DEF UserLabel
<1> QED
    BY <1>3, <1>4, <1>5 DEF FindInstalled

(* A record that is found has its file, so that it is never deleted here.  *)
LEMMA ProbeInstalledStep ==
    ASSUME StoreInv, Sequential, NEW t \in Thread, ProbeInstalled(t)
    PROVE  StoreStep /\ AtomicInv'
<1>1. /\ TypeInv /\ AtomicInv /\ OneThread /\ Passed(t)
      /\ pc[t] = "probe" /\ pc[t] \in UserLabel /\ UNCHANGED configVars
    BY DEF StoreInv, AtomicInv, Sequential, ProbeInstalled, At, UserLabel
<1>2. PICK r \in Records : r.path = loc[t].path /\ FullName(t) \in r.names
    BY <1>1 DEF Passed
<1>3. FullName(t) \in NamesOf(loc[t].font)
    BY <1>1 DEF Passed, Searching, FullName, NamesOf
<1>4. Claimant(loc[t].font)
    BY <1>2, <1>3 DEF Claimant
<1>5. loc[t].path \in DOMAIN files
    <2>1. NoDanglingRecord /\ \A s \in Thread : s = t
        BY <1>1, OneCaller DEF StoreInv, DiskAgrees
    <2> QED
        BY <1>1, <1>2, <2>1 DEF NoDanglingRecord
<1>6. Return(t, "ERR_INSTALLED_ALRADY")
    BY <1>5 DEF ProbeInstalled
<1> QED
    BY <1>1, <1>4, <1>6, InstallRefused

LEMMA CheckInstalledNumStep ==
    ASSUME StoreInv, Sequential, NEW t \in Thread, CheckInstalledNum(t)
    PROVE  StoreStep /\ AtomicInv'
<1>1. /\ TypeInv /\ AtomicInv /\ OneThread /\ Passed(t)
      /\ pc[t] = "count" /\ pc[t] \in UserLabel /\ UNCHANGED configVars
    BY DEF StoreInv, AtomicInv, Sequential, CheckInstalledNum, At, UserLabel
<1>2. FullNames[loc[t].font] # <<>> /\ ~Claimant(loc[t].font)
    BY <1>1, NamesAreFree DEF Passed, StoreInv, AllSeen
<1>3. CASE Len(fontlist) >= MaxInstallNum /\ Return(t, "ERR_MAX_FILE_COUNT")
    BY <1>1, <1>2, <1>3, InstallRefused
<1>4. CASE Len(fontlist) < MaxInstallNum /\ Continue(t, "copy")
    <2>1. Stays(t, "copy") /\ loc'[t] = loc[t]
        BY <1>1, <1>4, Staying
    <2>2. Passed(t)'
        BY <1>1, <1>2, <1>4, <2>1, SameRecords
           DEF Passed, Stays, Checked, Searching, Removing, ScopeRemoving
    <2> QED
        BY <1>1, <2>1, <2>2, InstallProceeds DEF UserLabel
<1> QED
    BY <1>3, <1>4 DEF CheckInstalledNum, GetInstalledFontsNum

(* There is a place as long as the call has found one.                     *)
LEMMA HasPlace ==
    ASSUME StoreInv, NEW t \in Thread, pc[t] \in Checked
    PROVE  /\ Len(fontlist) < MaxInstallNum /\ ~(Len(fontlist) >= MaxInstallNum)
           /\ FullNames[loc[t].font] # <<>>
<1>1. Passed(t) /\ Len(fontlist) \in Nat /\ MaxInstallNum \in Nat
    BY FontConfigAssumption DEF StoreInv, AtomicInv, TypeInv, ConfigTypeOK
<1> QED
    BY <1>1 DEF Passed

LEMMA CopyFontStep ==
    ASSUME StoreInv, Sequential, NEW t \in Thread, CopyFont(t)
    PROVE  StoreStep /\ AtomicInv'
<1>1. /\ TypeInv /\ AtomicInv /\ OneThread /\ Passed(t) /\ loc[t].id = Root
      /\ pc[t] = "copy" /\ pc[t] \in UserLabel /\ CopyFileForInstall(t, "insert")
    BY DEF StoreInv, AtomicInv, SiteInv, Sited, Sequential, CopyFont, At, UserLabel
<1>2. FullNames[loc[t].font] # <<>> /\ ~Claimant(loc[t].font)
      /\ Len(fontlist) < MaxInstallNum /\ ~(Len(fontlist) >= MaxInstallNum)
    BY <1>1, NamesAreFree, HasPlace DEF StoreInv, AllSeen, Checked
<1>3. ASSUME NEW p, Move(t, "insert", [loc[t] EXCEPT !.path = p]), UNCHANGED configVars
      PROVE  StoreStep /\ AtomicInv'
    <2>1. Stays(t, "insert")
        BY <1>1, <1>3, Staying
    <2>2. Passed(t)'
        BY <1>1, <1>2, <1>3, <2>1, SameRecords
           DEF Passed, Stays, Checked, Searching, Removing, ScopeRemoving
    <2> QED
        BY <1>1, <1>3, <2>1, <2>2, InstallProceeds DEF UserLabel
<1>4. CASE "copy" \in Fault /\ Return(t, "ERR_COPY_FAIL") /\ UNCHANGED configVars
    BY <1>1, <1>2, <1>4, InstallRefused DEF Errors
<1> QED
    BY <1>1, <1>3, <1>4 DEF CopyFileForInstall

(* Past the creation of the configuration, it is there to be read.         *)
LEMMA IsReadable ==
    ASSUME StoreInv, NEW t \in Thread,
           pc[t] \notin {"idle", "create", "fill", "clean", "deleteClean"}
    PROVE  configFile = "valid"
BY DEF StoreInv, DiskInv, DiskOK, AtomicInv, TypeInv, ConfigTypeOK

(* An insertion puts the font of the call in place.                        *)
LEMMA Admitted ==
    ASSUME StoreInv, OneThread, NEW t \in Thread, pc[t] \in {"insert", "insertScope"}, NEW r,
           Gains(r), Return(t, "ERR_OK"), r.names = NamesOf(loc[t].font),
           r.srcPath = loc[t].url, r.appId = loc[t].id
    PROVE  /\ Store!Admit(CallOf(Caller).font)
           /\ AtomicInv'
<1> DEFINE x == CallOf(Caller).font
<1>1. TypeInv /\ ConfigTypeOK /\ AtomicInv /\ pc[t] \in Installing \cap Checked
    BY DEF StoreInv, TypeInv, Installing, Checked, UserLabel, ScopeLabel, PastUpdate
<1>2. x = FontOf(r)
    BY <1>1, CallSeen DEF FontOf
<1> HIDE DEF x
<1>3. Records' = Records \cup {r} /\ configFile' = "valid"
    BY <1>1, Gained DEF Gains, Rewrites
<1>4. Fonts' = Fonts \cup {x}
    BY <1>1, <1>2, <1>3, Answering, NoneLeaving DEF Installing, UserLabel, ScopeLabel,
       PastUpdate, Cleaning
<1>5. r.names # {}
    BY <1>1, HasPlace, FontToInstall, DeclaredNames
<1>6. AtomicInv' /\ CallOf(Caller)' = Store!Answered("ERR_OK")
    BY <1>1, <1>3, <1>5, Answering DEF AtomicInv
<1> QED
    BY <1>4, <1>6 DEF Store!Admit, Store!Answer, x

LEMMA InsertFontStep ==
    ASSUME StoreInv, Sequential, NEW t \in Thread, InsertFont(t)
    PROVE  StoreStep /\ AtomicInv'
<1> DEFINE p == loc[t].path
           names == NamesOf(loc[t].font)
           r == UserRecord(p, names)
           x == CallOf(Caller).font
<1>1. /\ TypeInv /\ AtomicInv /\ OneThread /\ Served(pc[t], loc[t]) /\ "write" \notin Fault
      /\ pc[t] = "insert" /\ pc[t] \in UserLabel /\ loc[t].id = Root
    BY DEF StoreInv, AtomicInv, SiteInv, Sited, Sequential, InsertFont, At, UserLabel, Reliable
<1>2. ~Claimant(loc[t].font) /\ FullNames[loc[t].font] # <<>>
      /\ Len(fontlist) < MaxInstallNum /\ ~(Len(fontlist) >= MaxInstallNum)
    BY <1>1, NamesAreFree, HasPlace DEF StoreInv, AllSeen, Checked
<1>3. Parses /\ WithPath(p) = {}
    BY <1>1, IsReadable DEF Parses, StoreInv, FreshInv, Copied, Listed, Records, WithPath
<1>4. PICK ret \in Code : InsertFontRecordIfUnderLimit(p, names, ret)
                          /\ (ret = "ERR_OK" => Return(t, ret))
    BY DEF InsertFont
<1>5. ret = "ERR_OK" /\ Gains(r)
    BY <1>1, <1>2, <1>3, <1>4
       DEF InsertFontRecordIfUnderLimit, WriteToFile, Gains, Rewrites, Parses
<1>6. r.names = names /\ r.srcPath = loc[t].url /\ r.appId = loc[t].id
    BY <1>1 DEF UserRecord, Served
<1>7. Store!Admit(x) /\ AtomicInv'
    BY <1>1, <1>4, <1>5, <1>6, Admitted
<1>8. CallOf(Caller).op = "InstallFont" /\ x.names = names
    <2>1. x = [names |-> names, url |-> loc[t].url, owner |-> loc[t].id]
        BY <1>1, CallSeen DEF Installing
    <2> QED
        BY <1>1, <2>1, CallSeen DEF Installing
<1> HIDE DEF x, names
<1>9. x.names # {} /\ ~Store!Taken(x) /\ ~Store!Full
    <2>1. names # {}
        BY <1>1, <1>2, FontToInstall, DeclaredNames DEF Installing, names
    <2> QED
        BY <1>1, <1>2, <1>8, <2>1, Observed DEF Claimant, Cleaning, names
<1>10. Store!Installed
    BY <1>7, <1>8, <1>9 DEF Store!Installed, Store!Serves, x
<1> QED
    BY <1>7, <1>10 DEF StoreStep, Store!Next

(* No installation comes to delete a record or its own copy.               *)
LEMMA NeverUndone ==
    ASSUME StoreInv, NEW t \in Thread
    PROVE  ~HealRecord(t) /\ ~UndoCopy(t)
BY DEF StoreInv, AtomicInv, Served, HealRecord, UndoCopy, At

-----------------------------------------------------------------------------
(* InstallScopeFont.                                                       *)

(* The file is of the current version, and is not changed.                 *)
LEMMA UpdateConfigStep ==
    ASSUME StoreInv, Sequential, NEW t \in Thread, UpdateConfig(t)
    PROVE  StoreStep /\ AtomicInv'
<1>1. /\ TypeInv /\ AtomicInv /\ OneThread /\ pc[t] = "update" /\ pc[t] \in ScopeLabel
    BY DEF StoreInv, AtomicInv, Sequential, UpdateConfig, At, ScopeLabel
<1>2. Parses /\ version = "7.0"
    BY <1>1, IsReadable DEF Parses, StoreInv, NameInv, Upgraded
<1>3. UNCHANGED configVars /\ Continue(t, "url")
    BY <1>2 DEF UpdateConfig, CheckAndUpdateFontRecord
<1>4. Stays(t, "url")
    BY <1>1, <1>3, Staying
<1>5. Passed(t)'
    BY <1>4 DEF Passed, Stays, Checked, Searching, Removing, ScopeRemoving
<1> QED
    BY <1>1, <1>3, <1>4, <1>5, InstallProceeds DEF ScopeLabel, PastUpdate

LEMMA CheckUrlStep ==
    ASSUME StoreInv, Sequential, NEW t \in Thread, CheckUrl(t)
    PROVE  StoreStep /\ AtomicInv'
<1>1. /\ TypeInv /\ AtomicInv /\ OneThread /\ pc[t] = "url" /\ pc[t] \in PastUpdate
      /\ UNCHANGED configVars
    BY DEF StoreInv, AtomicInv, Sequential, CheckUrl, At, PastUpdate
<1>2. CASE HasUrl(loc[t].url) /\ Return(t, "ERR_INSTALLED_ALRADY")
    BY <1>1, <1>2, ScopeInstallRefused
<1>3. CASE Continue(t, "total")
    <2>1. Stays(t, "total")
        BY <1>1, <1>3, Staying
    <2>2. Passed(t)'
        BY <2>1 DEF Passed, Stays, Checked, Searching, Removing, ScopeRemoving
    <2> QED
        BY <1>1, <2>1, <2>2, InstallProceeds DEF ScopeLabel, PastUpdate
<1> QED
    BY <1>2, <1>3 DEF CheckUrl

LEMMA CheckTotalStep ==
    ASSUME StoreInv, Sequential, NEW t \in Thread, CheckTotal(t)
    PROVE  StoreStep /\ AtomicInv'
<1>1. /\ TypeInv /\ ConfigTypeOK /\ AtomicInv /\ OneThread
      /\ pc[t] = "total" /\ pc[t] \in PastUpdate
      /\ ~HasUrl(loc[t].url) /\ UNCHANGED configVars
    BY DEF StoreInv, TypeInv, AtomicInv, UrlInv, NewUrl, Sequential, CheckTotal, At, PastUpdate
<1>2. Len(fontlist) < MaxInstallNum <=> ~(Len(fontlist) >= MaxInstallNum)
    BY <1>1, FontConfigAssumption DEF ConfigTypeOK
<1>3. CASE Len(fontlist) >= MaxInstallNum /\ Return(t, "ERR_MAX_FILE_COUNT")
    BY <1>1, <1>3, ScopeInstallRefused
<1>4. CASE /\ Len(fontlist) < MaxInstallNum /\ FullNames[loc[t].font] = <<>>
           /\ Return(t, "ERR_FILE_VERIFY_FAIL")
    BY <1>1, <1>2, <1>4, ScopeInstallRefused
<1>5. CASE /\ Len(fontlist) < MaxInstallNum /\ FullNames[loc[t].font] # <<>>
           /\ Continue(t, "names")
    <2>1. Stays(t, "names") /\ loc'[t] = loc[t]
        BY <1>1, <1>5, Staying
    <2>2. loc[t].i = 1 /\ FullNames[loc[t].font] \in Seq(Name)
        BY <1>1, FontToInstall, DeclaredNames
           DEF StoreInv, NameInv, NameOK, Installing, ScopeLabel, PastUpdate
    <2>3. loc[t].i \in DOMAIN FullNames[loc[t].font]
        BY <1>5, <2>2
    <2>4. Passed(t)'
        BY <1>1, <1>5, <2>1, <2>3, SameRecords
           DEF Passed, Stays, Checked, Searching, Removing, ScopeRemoving
    <2> QED
        BY <1>1, <2>1, <2>4, InstallProceeds DEF ScopeLabel, PastUpdate
<1> QED
    BY <1>3, <1>4, <1>5 DEF CheckTotal, GetTotalInstalledFontsNum

LEMMA CheckNamesStep ==
    ASSUME StoreInv, Sequential, NEW t \in Thread, CheckNames(t)
    PROVE  StoreStep /\ AtomicInv'
<1>1. /\ TypeInv /\ AtomicInv /\ OneThread /\ Passed(t)
      /\ pc[t] = "names" /\ pc[t] \in PastUpdate
      /\ ~HasUrl(loc[t].url) /\ UNCHANGED configVars
    BY DEF StoreInv, AtomicInv, UrlInv, NewUrl, Sequential, CheckNames, At, PastUpdate
<1>2. /\ Len(fontlist) < MaxInstallNum /\ ~(Len(fontlist) >= MaxInstallNum)
      /\ FullNames[loc[t].font] # <<>> /\ loc[t].font \in Font
    BY <1>1, HasPlace, FontToInstall DEF Checked, Installing, ScopeLabel
<1>3. CASE HasName(FullName(t)) /\ Return(t, "ERR_INSTALLED_ALRADY")
    <2>1. Claimant(loc[t].font)
        BY <1>1, <1>2, <1>3, NameIsTaken DEF Passed, Searching
    <2> QED
        BY <1>1, <1>2, <1>3, <2>1, ScopeInstallRefused
<1>4. CASE NextName(t, "names", "mkdir")
    <2>1. \/ Stays(t, "names") /\ ~LastName(t) /\ loc'[t].i = loc[t].i + 1
          \/ Stays(t, "mkdir")
        BY <1>1, <1>4, Staying
    <2>2. Passed(t)'
        BY <1>1, <1>2, <2>1, NextIsName, SameRecords
           DEF Passed, Stays, Checked, Searching, Removing, ScopeRemoving
    <2> QED
        BY <1>1, <2>1, <2>2, InstallProceeds DEF ScopeLabel, PastUpdate
<1> QED
    BY <1>3, <1>4 DEF CheckNames

(* What is known once all the checks are passed.                           *)
LEMMA AllChecked ==
    ASSUME StoreInv, NEW t \in Thread, pc[t] \in {"mkdir", "copyScope", "insertScope"}
    PROVE  /\ FullNames[loc[t].font] # <<>> /\ ~Claimant(loc[t].font)
           /\ Len(fontlist) < MaxInstallNum /\ ~(Len(fontlist) >= MaxInstallNum)
           /\ ~HasUrl(loc[t].url) /\ loc[t].id \in AppId
<1>1. ~Claimant(loc[t].font)
    BY NamesAreFree DEF StoreInv, AllSeen
<1>2. ~HasUrl(loc[t].url) /\ loc[t].id \in AppId
    BY DEF StoreInv, UrlInv, NewUrl, SiteInv, Sited, ScopeLabel, PastUpdate
<1> QED
    BY <1>1, <1>2, HasPlace DEF Checked

LEMMA InitScopeDirStep ==
    ASSUME StoreInv, Sequential, NEW t \in Thread, InitScopeDir(t)
    PROVE  StoreStep /\ AtomicInv'
<1>1. /\ TypeInv /\ AtomicInv /\ OneThread /\ pc[t] = "mkdir" /\ pc[t] \in PastUpdate
      /\ UNCHANGED configVars
    BY DEF StoreInv, AtomicInv, Sequential, InitScopeDir, At, PastUpdate
<1>2. CASE dirs' = dirs \cup {loc[t].id} /\ Continue(t, "copyScope")
    <2>1. Stays(t, "copyScope") /\ loc'[t] = loc[t]
        BY <1>1, <1>2, Staying
    <2>2. Passed(t)'
        BY <1>1, <1>2, <2>1, AllChecked, SameRecords
           DEF Passed, Stays, Checked, Searching, Removing, ScopeRemoving
    <2> QED
        BY <1>1, <2>1, <2>2, InstallProceeds DEF ScopeLabel, PastUpdate
<1>3. CASE "dir" \in Fault /\ Return(t, "ERR_SYSTEM_ERROR")
    BY <1>1, <1>3, AllChecked, ScopeInstallRefused DEF Errors
<1> QED
    BY <1>2, <1>3 DEF InitScopeDir

LEMMA CopyScopeFontStep ==
    ASSUME StoreInv, Sequential, NEW t \in Thread, CopyScopeFont(t)
    PROVE  StoreStep /\ AtomicInv'
<1>1. /\ TypeInv /\ AtomicInv /\ OneThread /\ Passed(t) /\ loc[t].id \in dirs
      /\ pc[t] = "copyScope" /\ pc[t] \in PastUpdate
      /\ CopyFileForInstall(t, "insertScope")
    BY DEF StoreInv, AtomicInv, Passed, Sequential, CopyScopeFont, At, PastUpdate
<1>2. ASSUME NEW p, Move(t, "insertScope", [loc[t] EXCEPT !.path = p]),
             UNCHANGED <<configVars, dirs>>
      PROVE  StoreStep /\ AtomicInv'
    <2>1. Stays(t, "insertScope")
        BY <1>1, <1>2, Staying
    <2>2. Passed(t)'
        BY <1>1, <1>2, <2>1, AllChecked, SameRecords
           DEF Passed, Stays, Checked, Searching, Removing, ScopeRemoving
    <2> QED
        BY <1>1, <1>2, <2>1, <2>2, InstallProceeds DEF ScopeLabel, PastUpdate
<1>3. CASE "copy" \in Fault /\ Return(t, "ERR_COPY_FAIL") /\ UNCHANGED configVars
    BY <1>1, <1>3, AllChecked, ScopeInstallRefused DEF Errors
<1> QED
    BY <1>1, <1>2, <1>3 DEF CopyFileForInstall

LEMMA InsertScopeFontStep ==
    ASSUME StoreInv, Sequential, NEW t \in Thread, InsertScopeFont(t)
    PROVE  StoreStep /\ AtomicInv'
<1> DEFINE names == NamesOf(loc[t].font)
           r == ScopeRecord(t)
           x == CallOf(Caller).font
<1>1. /\ TypeInv /\ AtomicInv /\ OneThread /\ "write" \notin Fault
      /\ pc[t] = "insertScope" /\ pc[t] \in ScopeLabel
    BY DEF StoreInv, AtomicInv, Sequential, InsertScopeFont, At, ScopeLabel, PastUpdate, Reliable
<1>2. Parses
    BY <1>1, IsReadable DEF Parses
<1>3. Gains(r) /\ Return(t, "ERR_OK")
    BY <1>1, <1>2 DEF InsertScopeFont, InsertScopeFontRecord, WriteToFile, Gains, Rewrites, Parses
<1>4. r.names = names /\ r.srcPath = loc[t].url /\ r.appId = loc[t].id
    BY DEF ScopeRecord
<1>5. Store!Admit(x) /\ AtomicInv'
    BY <1>1, <1>3, <1>4, Admitted
<1>6. x = [names |-> names, url |-> loc[t].url, owner |-> loc[t].id]
    BY <1>1, CallSeen DEF Installing
<1>7. CallOf(Caller).op = "InstallScopeFont" /\ x.names = names /\ x.url = loc[t].url
    BY <1>1, <1>6, CallSeen DEF Installing
<1> HIDE DEF x, names
<1>8. x.names # {} /\ ~Store!Taken(x) /\ ~Store!Full /\ ~Store!Known(x)
    <2>1. names # {}
        BY <1>1, AllChecked, FontToInstall, DeclaredNames DEF Installing, names
    <2> QED
        BY <1>1, <1>7, <2>1, AllChecked, Observed DEF Claimant, Cleaning, names
<1>9. Store!ScopeInstalled
    BY <1>5, <1>7, <1>8 DEF Store!ScopeInstalled, Store!Serves, x
<1> QED
    BY <1>5, <1>9 DEF StoreStep, Store!Next

-----------------------------------------------------------------------------
(* The beginning of the calls.                                             *)

(* What the abstract store sees before and after.                          *)
LEMMA IdleCall ==
    ASSUME StoreInv, OneThread, NEW t \in Thread, pc[t] = "idle"
    PROVE  /\ Store!Serves("none") /\ configFile # "broken"
           /\ Fonts = {FontOf(r) : r \in Records}
<1>1. Served(pc[t], loc[t]) /\ configFile # "broken"
    BY DEF StoreInv, AtomicInv
<1>2. CallOf(Caller).op = "none"
    BY <1>1, OneCaller DEF Served, CallOf
<1> QED
    BY <1>1, <1>2, NoneLeaving DEF Store!Serves, Cleaning

LEMMA InstallBegins ==
    ASSUME StoreInv, OneThread, NEW t \in Thread, NEW op, NEW f \in Font, NEW u, NEW id,
           \/ op = "InstallFont" /\ u = NoUrl /\ id = Root
           \/ op = "InstallScopeFont" /\ u \in Url /\ id \in AppId,
           StartInstall(t, op, f, u, id)
    PROVE  /\ AtomicInv'
           /\ \/ Store!Begin(op, Store!NewFont(NamesOf(f), u, id)) /\ UNCHANGED Fonts
              \/ Store!Serves("none") /\ Store!Fail
<1>1. /\ TypeInv /\ AtomicInv /\ pc[t] = "idle" /\ op \in Op /\ UNCHANGED configVars
    BY DEF StoreInv, StartInstall, Start, At
<1>2. Store!Serves("none") /\ configFile # "broken" /\ Fonts = {FontOf(r) : r \in Records}
    BY <1>1, IdleCall
<1>3. Records' = Records /\ configFile' = configFile
    BY <1>1, SameRecords
<1>4. ASSUME NEW label \in {"create", AfterInit(op)}, Move(t, label, Begin(op, f, u, id))
      PROVE  AtomicInv' /\ Store!Begin(op, Store!NewFont(NamesOf(f), u, id)) /\ UNCHANGED Fonts
    <2>1. pc'[t] = label /\ loc'[t] = Begin(op, f, u, id)
        BY <1>1, <1>4, Opening
    <2>2. /\ loc'[t].op = op /\ loc'[t].font = f /\ loc'[t].url = u /\ loc'[t].id = id
          /\ loc'[t].ret = "none" /\ loc'[t].i = 1
        BY <2>1 DEF Begin, Idle
    <2>3. \/ label = "create"
          \/ label = "find" /\ op = "InstallFont"
          \/ label = "update" /\ op = "InstallScopeFont"
        BY <1>4 DEF AfterInit
    <2>4. Served(pc'[t], loc'[t])
        BY <2>1, <2>2, <2>3 DEF Served, Installing, UserLabel, ScopeLabel, PastUpdate,
           Removing, ScopeRemoving
    <2>5. Passed(t)'
        <3>1. FullNames[f] # <<>> => 1 \in DOMAIN FullNames[f]
            BY DeclaredNames
        <3> QED
            BY <2>1, <2>2, <2>3, <3>1
               DEF Passed, Checked, Searching, Removing, ScopeRemoving
    <2>6. AtomicInv'
        BY <1>1, <1>2, <1>3, <2>1, <2>3, <2>4, <2>5, AtomicOfOne DEF AtomicInv
    <2>7. Fonts' = Fonts
        BY <1>2, <1>3, <2>1, <2>3, NoneLeaving DEF Cleaning
    <2>8. f # NoFont
        BY FontManagerAssumption
    <2>9. CallOf(t)' = Store!Serving(op, Store!NewFont(NamesOf(f), u, id))
        BY <2>1, <2>2, <2>3, <2>8 DEF CallOf, Subject, Store!Serving, Store!NewFont
    <2> QED
        BY <1>1, <1>2, <2>6, <2>7, <2>9, OneCaller DEF Store!Begin
<1>5. ASSUME NEW code \in Errors, Return(t, code)
      PROVE  AtomicInv' /\ Store!Fail
    BY <1>1, <1>5, Refusing DEF Store!Fail, Cleaning
<1>6. \/ Move(t, "create", Begin(op, f, u, id)) \/ Move(t, AfterInit(op), Begin(op, f, u, id))
      \/ \E code \in Errors : Return(t, code)
    BY DEF StartInstall, Start, Errors, InitError
<1> QED
    BY <1>2, <1>4, <1>5, <1>6

LEMMA InstallFontStep ==
    ASSUME StoreInv, Sequential, NEW t \in Thread, NEW f \in Font, InstallFont(t, f)
    PROVE  StoreStep /\ AtomicInv'
<1>1. /\ AtomicInv'
      /\ \/ Store!Begin("InstallFont", Store!NewFont(NamesOf(f), NoUrl, Root)) /\ UNCHANGED Fonts
         \/ Store!Serves("none") /\ Store!Fail
    BY InstallBegins DEF InstallFont, Sequential
<1>2. [g \in Font |-> NamesOf(g)][f] = NamesOf(f)
    OBVIOUS
<1>3. Store!InstallFont(f) \/ (Store!Serves("none") /\ Store!Fail)
    BY <1>1, <1>2 DEF Store!InstallFont
<1> QED
    BY <1>1, <1>3 DEF StoreStep, Store!Next

LEMMA InstallScopeFontStep ==
    ASSUME StoreInv, Sequential, NEW t \in Thread, NEW f \in Font, NEW u \in Url,
           NEW id \in Client, InstallScopeFont(t, f, u, id)
    PROVE  StoreStep /\ AtomicInv'
<1>1. id \in AppId
    BY FontManagerAssumption
<1>2. /\ AtomicInv'
      /\ \/ Store!Begin("InstallScopeFont", Store!NewFont(NamesOf(f), u, id)) /\ UNCHANGED Fonts
         \/ Store!Serves("none") /\ Store!Fail
    BY <1>1, InstallBegins DEF InstallScopeFont, Sequential
<1>3. [g \in Font |-> NamesOf(g)][f] = NamesOf(f)
    OBVIOUS
<1>4. Store!InstallScopeFont(f, u, id) \/ (Store!Serves("none") /\ Store!Fail)
    BY <1>2, <1>3 DEF Store!InstallScopeFont
<1> QED
    BY <1>2, <1>4 DEF StoreStep, Store!Next

(* A call that has found the record it is to delete.                       *)
LEMMA UninstallBegins ==
    ASSUME StoreInv, OneThread, NEW t \in Thread, NEW r \in Records,
           NEW op, NEW u, NEW id, NEW label,
           Move(t, label, [Begin(op, NoFont, u, id) EXCEPT !.path = r.path]),
           \/ op = "UninstallFont" /\ label = "remove" /\ r.appId = Root
           \/ op = "UninstallScopeFont" /\ label = "removeScope" /\ r.srcPath = u,
           op \in Op, pc[t] = "idle", UNCHANGED configVars
    PROVE  /\ FontOf(r) \in Fonts
           /\ Store!Begin(op, FontOf(r)) /\ UNCHANGED Fonts
           /\ AtomicInv'
<1>1. TypeInv /\ AtomicInv /\ UniquePaths
    BY DEF StoreInv, FreshInv
<1>2. Store!Serves("none") /\ configFile # "broken" /\ Fonts = {FontOf(s) : s \in Records}
    BY IdleCall
<1>3. Records' = Records /\ configFile' = configFile
    BY SameRecords
<1>4. pc'[t] = label /\ loc'[t] = [Begin(op, NoFont, u, id) EXCEPT !.path = r.path]
    BY <1>1, Opening
<1>5. /\ loc'[t].op = op /\ loc'[t].font = NoFont /\ loc'[t].url = u
      /\ loc'[t].path = r.path /\ loc'[t].ret = "none"
    BY <1>4 DEF Begin, Idle
<1>6. Served(pc'[t], loc'[t])
    BY <1>4, <1>5 DEF Served, Installing, UserLabel, ScopeLabel, PastUpdate, Removing,
       ScopeRemoving
<1>7. Passed(t)'
    BY <1>3, <1>4, <1>5 DEF Passed, Checked, Searching, Removing, ScopeRemoving
<1>8. AtomicInv'
    BY <1>1, <1>2, <1>3, <1>4, <1>6, <1>7, AtomicOfOne DEF AtomicInv
<1>9. Fonts' = Fonts
    BY <1>2, <1>3, <1>4, NoneLeaving DEF Cleaning
<1>10. (CHOOSE s \in Records : s.path = r.path) = r
    BY <1>1, OneRecord
<1>11. CallOf(t)' = Store!Serving(op, FontOf(r))
    <2>1. pc'[t] \in {"remove", "delete", "removeScope", "deleteScope"}
        BY <1>4
    <2>2. (CHOOSE s \in Records' : s.path = loc'[t].path) = r
        BY <1>3, <1>5, <1>10
    <2>3. Subject(t)' = FontOf(r)
        BY <2>1, <2>2 DEF Subject, FontOf
    <2> QED
        BY <1>5, <2>3 DEF CallOf, Store!Serving
<1> QED
    BY <1>2, <1>8, <1>9, <1>11, OneCaller DEF Store!Begin

LEMMA UninstallFontStep ==
    ASSUME StoreInv, Sequential, NEW t \in Thread, NEW n \in Name, UninstallFont(t, n)
    PROVE  StoreStep /\ AtomicInv'
<1> DEFINE r == GetFontRecordByName(n)
           found == {x \in Fonts : n \in x.names /\ x.owner = Root}
           error == "ERR_UNINSTALL_FILE_NOT_EXISTS"
<1>1. /\ TypeInv /\ ConfigTypeOK /\ AtomicInv /\ OneThread /\ UniqueNames
      /\ \A s \in Records : RecordOK(s)
      /\ pc[t] = "idle" /\ "UninstallFont" \in Op /\ UNCHANGED configVars
    BY DEF StoreInv, TypeInv, NameInv, SiteInv, Sequential, UninstallFont, At
<1>2. Store!Serves("none") /\ Fonts = {FontOf(s) : s \in Records}
    BY <1>1, IdleCall
<1>3. HasName(n) => /\ r \in Records /\ n \in r.names
                    /\ \A s \in Records : n \in s.names => s = r
    <2>1. HasName(n) => r \in Records /\ n \in r.names
        BY <1>1, FoundByName
    <2> HIDE DEF r
    <2> QED
        BY <1>1, <2>1 DEF UniqueNames, Records
<1>4. ~HasName(n) => \A s \in Records : n \notin s.names
    BY Named
<1> HIDE DEF r
<1>5. ASSUME HasName(n), r.scope = "none",
             Move(t, "remove", [Begin("UninstallFont", NoFont, NoUrl, Root) EXCEPT !.path = r.path])
      PROVE  Store!UninstallFont(n) /\ AtomicInv'
    <2>1. r.appId = Root
        BY <1>1, <1>3, <1>5, RecordTypes, Sites DEF RecordOK
    <2>2. /\ FontOf(r) \in Fonts /\ AtomicInv'
          /\ Store!Begin("UninstallFont", FontOf(r)) /\ UNCHANGED Fonts
        BY <1>1, <1>3, <1>5, <2>1, UninstallBegins
    <2>3. FontOf(r) \in found
        BY <1>3, <1>5, <2>1, <2>2 DEF FontOf
    <2> QED
        BY <2>2, <2>3 DEF Store!UninstallFont, Store!Uninstall
<1>6. ASSUME ~HasName(n) \/ r.scope # "none", Return(t, error)
      PROVE  Store!UninstallFont(n) /\ AtomicInv'
    <2>1. Store!Refuse(error) /\ AtomicInv'
        BY <1>1, <1>6, Refusing DEF Cleaning
    <2>2. \A s \in Records : n \in s.names => s.appId # Root
        BY <1>1, <1>3, <1>4, <1>6, Sites DEF RecordOK
    <2>3. found = {}
        BY <1>2, <2>2 DEF FontOf
    <2> QED
        BY <1>1, <1>2, <2>1, <2>3 DEF Store!UninstallFont, Store!Uninstall, Store!Refuse
<1>7. Store!UninstallFont(n) /\ AtomicInv'
    BY <1>5, <1>6 DEF UninstallFont, r
<1> QED
    BY <1>7 DEF StoreStep, Store!Next

LEMMA UninstallScopeFontStep ==
    ASSUME StoreInv, Sequential, NEW t \in Thread, NEW u \in Url, NEW token \in Token,
           UninstallScopeFont(t, u, token)
    PROVE  StoreStep /\ AtomicInv'
<1> DEFINE r == GetFontRecordByUrl(u)
           found == {x \in Fonts : x.url = u /\ x.owner.token = token}
           error == "ERR_SCOPE_FONT_NOT_FOUND"
<1>1. /\ TypeInv /\ ConfigTypeOK /\ AtomicInv /\ OneThread /\ UniqueUrls
      /\ \A s \in Records : RecordOK(s)
      /\ pc[t] = "idle" /\ "UninstallScopeFont" \in Op /\ UNCHANGED configVars
    BY DEF StoreInv, TypeInv, UrlInv, SiteInv, Sequential, UninstallScopeFont, At
<1>2. Store!Serves("none") /\ Fonts = {FontOf(s) : s \in Records}
    BY <1>1, IdleCall
<1>3. HasUrl(u) => /\ r \in Records /\ r.srcPath = u
                   /\ \A s \in Records : s.srcPath = u => s = r
    <2>1. HasUrl(u) => r \in Records /\ r.srcPath = u
        BY <1>1, FoundByUrl
    <2> HIDE DEF r
    <2> QED
        BY <1>1, <2>1, OneUrl, Sites
<1>4. ~HasUrl(u) => \A s \in Records : s.srcPath # u
    BY DEF HasUrl, WithUrl, Records
<1> HIDE DEF r
<1>5. ASSUME HasUrl(u), Owns(token, r),
             Move(t, "removeScope",
                  [Begin("UninstallScopeFont", NoFont, u, MakeAppIdentifier(r.scope, token))
                    EXCEPT !.path = r.path])
      PROVE  Store!UninstallScopeFont(u, token) /\ AtomicInv'
    <2>1. /\ FontOf(r) \in Fonts /\ AtomicInv'
          /\ Store!Begin("UninstallScopeFont", FontOf(r)) /\ UNCHANGED Fonts
        BY <1>1, <1>3, <1>5, UninstallBegins
    <2>2. FontOf(r) \in found
        BY <1>3, <1>5, <2>1 DEF FontOf, Owns, MakeAppIdentifier
    <2> QED
        BY <2>1, <2>2 DEF Store!UninstallScopeFont, Store!Uninstall
<1>6. ASSUME ~HasUrl(u) \/ ~Owns(token, r), Return(t, error)
      PROVE  Store!UninstallScopeFont(u, token) /\ AtomicInv'
    <2>1. Store!Refuse(error) /\ AtomicInv'
        BY <1>1, <1>6, Refusing DEF Cleaning
    <2>2. ASSUME NEW s \in Records, s.srcPath = u PROVE s.appId.token # token
        <3>1. HasUrl(u) /\ s = r
            BY <1>3, <1>4, <2>2
        <3>2. s.appId \in Dir /\ s.scope = s.appId.scope
            BY <1>1, <2>2, RecordTypes DEF RecordOK
        <3>3. s.appId = MakeAppIdentifier(s.appId.scope, s.appId.token)
            BY <3>2 DEF Dir, AppId, Root, MakeAppIdentifier
        <3> QED
            BY <1>6, <3>1, <3>2, <3>3 DEF Owns
    <2>3. found = {}
        BY <1>2, <2>2 DEF FontOf
    <2> QED
        BY <1>1, <1>2, <2>1, <2>3 DEF Store!UninstallScopeFont, Store!Uninstall, Store!Refuse
<1>7. Store!UninstallScopeFont(u, token) /\ AtomicInv'
    BY <1>5, <1>6 DEF UninstallScopeFont, r
<1> QED
    BY <1>7 DEF StoreStep, Store!Next

-----------------------------------------------------------------------------
(* The uninstallation of a font.                                           *)

(* The removal of the file is not seen yet.                                *)
LEMMA UninstallGoesOn ==
    ASSUME StoreInv, Sequential, NEW t \in Thread, NEW label,
           \/ pc[t] = "remove" /\ label = "delete"
           \/ pc[t] = "removeScope" /\ label = "deleteScope",
           RemoveThen(t, label)
    PROVE  StoreStep /\ AtomicInv'
<1>1. TypeInv /\ AtomicInv /\ OneThread /\ Served(pc[t], loc[t]) /\ Passed(t)
    BY DEF StoreInv, AtomicInv, Sequential
<1>2. Continue(t, label) /\ UNCHANGED configVars
    BY DEF RemoveThen, RemoveFile, Sequential, Reliable
<1>3. pc'[t] = label /\ loc'[t] = loc[t]
    BY <1>1, <1>2, Staying DEF Stays
<1>4. Records' = Records /\ configFile' = configFile
    BY <1>2, SameRecords
<1>5. Fonts' = Fonts
    BY <1>1, <1>3, <1>4, NoneLeaving DEF Cleaning
<1>6. Subject(t)' = Subject(t)
    BY <1>3, <1>4 DEF Subject, FontOf
<1>7. CallOf(t)' = CallOf(t)
    BY <1>3, <1>6 DEF CallOf
<1>8. UNCHANGED Store!storeVars
    BY <1>1, <1>5, <1>7, OneCaller DEF Store!storeVars
<1>9. Served(pc'[t], loc'[t])
    BY <1>1, <1>3 DEF Served, Installing, UserLabel, ScopeLabel, PastUpdate, Removing,
       ScopeRemoving
<1>10. Passed(t)'
    BY <1>1, <1>3, <1>4 DEF Passed, Checked, Searching, Removing, ScopeRemoving
<1>11. AtomicInv'
    BY <1>1, <1>3, <1>4, <1>9, <1>10, AtomicOfOne DEF AtomicInv
<1> QED
    BY <1>8, <1>11 DEF StoreStep

LEMMA RemoveFontStep ==
    ASSUME StoreInv, Sequential, NEW t \in Thread, RemoveFont(t)
    PROVE  StoreStep /\ AtomicInv'
BY UninstallGoesOn DEF RemoveFont, At

LEMMA RemoveScopeFontStep ==
    ASSUME StoreInv, Sequential, NEW t \in Thread, RemoveScopeFont(t)
    PROVE  StoreStep /\ AtomicInv'
BY UninstallGoesOn DEF RemoveScopeFont, At

(* The font is gone with its record.                                       *)
LEMMA UninstallEnds ==
    ASSUME StoreInv, OneThread, NEW t \in Thread, NEW r \in Records,
           pc[t] \in Removing \cup ScopeRemoving, r.path = loc[t].path,
           Records' = Records \ {r}, configFile' = "valid", Return(t, "ERR_OK")
    PROVE  StoreStep /\ AtomicInv'
<1>1. TypeInv /\ AtomicInv /\ UniquePaths /\ UniqueNames /\ Served(pc[t], loc[t])
    BY DEF StoreInv, FreshInv, NameInv, AtomicInv
<1>2. \A s \in Records : s.names # {}
    BY <1>1 DEF AtomicInv
<1>3. (CHOOSE s \in Records : s.path = loc[t].path) = r
    BY <1>1, OneRecord
<1>4. Subject(t) = FontOf(r)
    BY <1>3 DEF Subject, Removing, ScopeRemoving
<1>5. /\ CallOf(Caller).op \in {"UninstallFont", "UninstallScopeFont"}
      /\ CallOf(Caller).font = FontOf(r)
    BY <1>1, <1>4, OneCaller DEF CallOf, Served
<1>6. /\ CallOf(Caller)' = Store!Answered("ERR_OK")
      /\ Fonts' = {FontOf(s) : s \in Records'}
      /\ AtomicInv'
    BY <1>1, <1>2, Answering
<1>7. Fonts = {FontOf(s) : s \in Records}
    BY NoneLeaving DEF Cleaning, Removing, ScopeRemoving
<1>8. \A s \in Records : FontOf(s) = FontOf(r) => s = r
    BY <1>1, <1>2, DistinctFonts
<1>9. FontOf(r) \in Fonts /\ Fonts' = Fonts \ {FontOf(r)}
    BY <1>6, <1>7, <1>8
<1>10. Store!Uninstalled
    BY <1>5, <1>6, <1>9 DEF Store!Uninstalled, Store!Serves, Store!Answer
<1> QED
    BY <1>6, <1>10 DEF StoreStep, Store!Next

LEMMA DeleteFontStep ==
    ASSUME StoreInv, Sequential, NEW t \in Thread, DeleteFont(t)
    PROVE  StoreStep /\ AtomicInv'
<1>1. /\ ConfigTypeOK /\ UniquePaths /\ OneThread /\ Passed(t) /\ pc[t] = "delete"
      /\ "write" \notin Fault
    BY DEF StoreInv, TypeInv, FreshInv, AtomicInv, Sequential, Reliable, DeleteFont, At
<1>2. PICK ok \in BOOLEAN : /\ DeleteFontRecord(loc[t].path, ok)
                            /\ Return(t, IF ok THEN "ERR_OK" ELSE "ERR_UNINSTALL_FAIL")
    BY DEF DeleteFont
<1>3. PICK r \in Records : r.path = loc[t].path
    BY <1>1 DEF Passed, Removing
<1>4. WithPath(loc[t].path) # {}
    BY <1>3 DEF WithPath, Records
<1>5. PICK i \in WithPath(loc[t].path) : ok /\ Drops(i)
    BY <1>1, <1>2, <1>4, PathDeletion
<1>6. Records' = {s \in Records : s.path # loc[t].path}
    BY <1>1, <1>5, PathDrop
<1>7. Records' = Records \ {r}
    BY <1>1, <1>3, <1>6, OneRecord
<1>8. configFile' = "valid" /\ Return(t, "ERR_OK")
    BY <1>2, <1>5 DEF Drops, Rewrites
<1> QED
    BY <1>1, <1>3, <1>7, <1>8, UninstallEnds DEF Removing

LEMMA DeleteScopeFontStep ==
    ASSUME StoreInv, Sequential, NEW t \in Thread, DeleteScopeFont(t)
    PROVE  StoreStep /\ AtomicInv'
<1> DEFINE u == loc[t].url
<1>1. /\ ConfigTypeOK /\ UniqueUrls /\ OneThread /\ Passed(t) /\ pc[t] = "deleteScope"
      /\ u \in Url /\ "write" \notin Fault
    BY DEF StoreInv, TypeInv, UrlInv, SiteInv, Sited, AtomicInv, Sequential, Reliable,
       DeleteScopeFont, At
<1>2. PICK ok \in BOOLEAN : /\ DeleteScopeFontRecordByUrl(u, ok)
                            /\ Return(t, IF ok THEN "ERR_OK" ELSE "ERR_SYSTEM_ERROR")
    BY DEF DeleteScopeFont
<1>3. PICK r \in Records : r.path = loc[t].path /\ r.srcPath = u
    BY <1>1 DEF Passed, ScopeRemoving
<1> HIDE DEF u
<1>4. WithUrl(u) # {}
    BY <1>3 DEF WithUrl, Records
<1>5. PICK i \in WithUrl(u) : ok /\ Drops(i)
    BY <1>1, <1>2, <1>4, UrlDeletion
<1>6. Records' = {s \in Records : s.srcPath # u}
    BY <1>1, <1>5, UrlDrop
<1>7. Records' = Records \ {r}
    BY <1>1, <1>3, <1>6, OneUrl, Sites
<1>8. configFile' = "valid" /\ Return(t, "ERR_OK")
    BY <1>2, <1>5 DEF Drops, Rewrites
<1> QED
    BY <1>1, <1>3, <1>7, <1>8, UninstallEnds DEF ScopeRemoving

-----------------------------------------------------------------------------
(* The cleanups.                                                           *)

(* What is installed while a cleanup goes on.                              *)
LEMMA FontsLeft ==
    ASSUME OneThread, NEW t \in Thread
    PROVE  /\ pc[t] \in Cleaning /\ loc[t].op \in Cleanups =>
                Fonts = {FontOf(r) : r \in {s \in Records : ~Selected(loc[t].op, loc[t].id, s)}}
           /\ pc'[t] \in Cleaning /\ loc'[t].op \in Cleanups =>
                Fonts' = {FontOf(r) : r \in {s \in Records' :
                                                ~Selected(loc'[t].op, loc'[t].id, s)}}
<1>1. \A s \in Thread : s = t
    BY OneCaller
<1>2. ASSUME pc[t] \in Cleaning, loc[t].op \in Cleanups
      PROVE  Leaving = {r \in Records : Selected(loc[t].op, loc[t].id, r)}
    <2>1. Leaving = Snapshot(loc[t].op, loc[t].id)
        BY <1>1, <1>2 DEF Leaving, Cleaning
    <2> QED
        BY <1>2, <2>1, SnapshotOf
<1>3. ASSUME pc'[t] \in Cleaning, loc'[t].op \in Cleanups
      PROVE  Leaving' = {r \in Records' : Selected(loc'[t].op, loc'[t].id, r)}
    <2>1. Leaving' = Snapshot(loc[t].op, loc[t].id)'
        BY <1>1, <1>3 DEF Leaving, Cleaning
    <2> QED
        BY <1>3, <2>1
           DEF Snapshot, Selected, Cleanups, UserCleanup, GetFontRecordsByAppId,
               GetScopeFontRecords, GetAppScopeFontRecords
<1> QED
    BY <1>2, <1>3 DEF Fonts

(* A cleanup takes the fonts of the records that it selects.               *)
LEMMA SelectedIsTaken ==
    ASSUME NEW op \in Cleanups, NEW id, NEW token,
           op = "CleanupAppScopeFonts" => id = MakeAppIdentifier("app", token),
           NEW r, RecordOK(r), r.appId \in Dir
    PROVE  Selected(op, id, r) <=> Store!Takes(op, token, FontOf(r))
<1>1. FontOf(r).owner = r.appId
    BY DEF FontOf
<1>2. r.scope # "none" <=> r.appId # Root
    BY Sites DEF RecordOK
<1>3. CASE op = "CleanupAppScopeFonts"
    BY <1>1, <1>2, <1>3, Sites DEF Selected, Store!Takes, MakeAppIdentifier, Root, RecordOK
<1>4. CASE op = "CleanupAppScopeFontsOnStart"
    BY <1>1, <1>2, <1>4 DEF Selected, Store!Takes, RecordOK
<1>5. CASE op \notin {"CleanupAppScopeFonts", "CleanupAppScopeFontsOnStart"}
    BY <1>1, <1>2, <1>5 DEF Selected, Store!Takes
<1> QED
    BY <1>3, <1>4, <1>5

LEMMA CleanupBegins ==
    ASSUME StoreInv, Sequential, NEW t \in Thread, NEW op \in Cleanups, NEW id, NEW token,
           op = "CleanupAppScopeFonts" => id = MakeAppIdentifier("app", token),
           Cleanup(t, op, id)
    PROVE  Store!Cleanup(op, token) /\ AtomicInv'
<1>1. /\ TypeInv /\ ConfigTypeOK /\ AtomicInv /\ OneThread /\ \A r \in Records : RecordOK(r)
      /\ op \in Op /\ pc[t] = "idle" /\ UNCHANGED configVars
    BY DEF StoreInv, TypeInv, SiteInv, Sequential, Cleanup, At
<1>2. Store!Serves("none") /\ configFile # "broken" /\ Fonts = {FontOf(r) : r \in Records}
    BY <1>1, IdleCall
<1>3. Records' = Records /\ configFile' = configFile
    BY <1>1, SameRecords
<1>4. /\ pc'[t] = "clean"
      /\ loc'[t] = [Begin(op, NoFont, NoUrl, id) EXCEPT !.todo = Snapshot(op, id)]
    BY <1>1, Opening DEF Cleanup
<1>5. /\ loc'[t].op = op /\ loc'[t].font = NoFont /\ loc'[t].url = NoUrl
      /\ loc'[t].id = id /\ loc'[t].ret = "none"
    BY <1>4 DEF Begin, Idle
<1>6. Served(pc'[t], loc'[t]) /\ Passed(t)'
    BY <1>4, <1>5 DEF Served, Passed, Installing, UserLabel, ScopeLabel, PastUpdate, Removing,
       ScopeRemoving, Checked, Searching
<1>7. AtomicInv'
    BY <1>1, <1>2, <1>3, <1>4, <1>6, AtomicOfOne DEF AtomicInv
<1>8. Fonts' = {FontOf(r) : r \in {s \in Records : ~Selected(op, id, s)}}
    <2>1. Fonts' = {FontOf(r) : r \in {s \in Records' : ~Selected(loc'[t].op, loc'[t].id, s)}}
        BY <1>1, <1>4, <1>5, FontsLeft DEF Cleaning
    <2> QED
        BY <1>3, <1>5, <2>1
<1>9. \A r \in Records : Selected(op, id, r) <=> Store!Takes(op, token, FontOf(r))
    BY <1>1, RecordTypes, SelectedIsTaken
<1>10. Fonts' = {x \in Fonts : ~Store!Takes(op, token, x)}
    BY <1>2, <1>8, <1>9
<1>11. CallOf(t)' = Store!Serving(op, Store!NullFont)
    BY <1>4, <1>5 DEF CallOf, Subject, Store!Serving, Store!NullFont, Store!NewFont
<1> QED
    BY <1>1, <1>2, <1>7, <1>10, <1>11, OneCaller DEF Store!Cleanup, Store!Begin

LEMMA AppCleanupStep ==
    ASSUME StoreInv, Sequential, NEW t \in Thread, NEW token \in Token,
           Cleanup(t, "CleanupAppScopeFonts", MakeAppIdentifier("app", token))
    PROVE  StoreStep /\ AtomicInv'
<1>1. Store!Cleanup("CleanupAppScopeFonts", token) /\ AtomicInv'
    BY CleanupBegins DEF Cleanups
<1> QED
    BY <1>1 DEF StoreStep, Store!Next

LEMMA UserCleanupStep ==
    ASSUME StoreInv, Sequential, NEW t \in Thread, NEW op \in UserCleanup, Cleanup(t, op, Root)
    PROVE  StoreStep /\ AtomicInv'
<1>1. op \in Cleanups /\ op # "CleanupAppScopeFonts" /\ op \in Store!UserCleanup
    BY DEF Cleanups, UserCleanup, Store!UserCleanup
<1>2. Store!Cleanup(op, Root.token) /\ AtomicInv'
    BY <1>1, CleanupBegins
<1> QED
    BY <1>1, <1>2 DEF StoreStep, Store!Next

LEMMA CleanupScopeFontDirsStep ==
    ASSUME StoreInv, Sequential, NEW t \in Thread, CleanupScopeFontDirs(t)
    PROVE  StoreStep /\ AtomicInv'
<1>1. /\ TypeInv /\ AtomicInv /\ OneThread /\ pc[t] = "idle"
      /\ Return(t, "ERR_OK") /\ UNCHANGED configVars /\ "CleanupScopeFontDirs" \in Op
    BY DEF StoreInv, Sequential, CleanupScopeFontDirs, At
<1>2. Store!Refuse("ERR_OK") /\ AtomicInv'
    BY <1>1, Refusing DEF Cleaning
<1>3. Store!CleanupScopeFontDirs
    BY <1>1, <1>2, IdleCall DEF Store!CleanupScopeFontDirs
<1> QED
    BY <1>2, <1>3 DEF StoreStep, Store!Next

(* A cleanup that goes on serves the same call.                            *)
LEMMA CleanupGoesOn ==
    ASSUME StoreInv, OneThread, NEW t \in Thread, pc[t] \in Cleaning, pc'[t] \in Cleaning,
           loc'[t].op = loc[t].op, loc'[t].id = loc[t].id,
           loc'[t].font = loc[t].font, loc'[t].ret = loc[t].ret,
           {r \in Records' : ~Selected(loc[t].op, loc[t].id, r)}
                = {r \in Records : ~Selected(loc[t].op, loc[t].id, r)},
           Records' \subseteq Records, configFile' # "broken"
    PROVE  StoreStep /\ AtomicInv'
<1>1. Served(pc[t], loc[t]) /\ \A r \in Records : r.names # {}
    BY DEF StoreInv, AtomicInv
<1>2. loc[t].op \in Cleanups
    BY DEF StoreInv, CallInv, Called, Cleaning
<1>3. loc[t].op # "InstallFont"
    BY <1>2 DEF Cleanups, UserCleanup
<1>4. Fonts = {FontOf(r) : r \in {s \in Records : ~Selected(loc[t].op, loc[t].id, s)}}
    BY <1>2, FontsLeft
<1>5. Fonts' = {FontOf(r) : r \in {s \in Records' : ~Selected(loc'[t].op, loc'[t].id, s)}}
    BY <1>2, FontsLeft
<1>6. Fonts' = Fonts
    BY <1>4, <1>5
<1>7. loc[t].font = NoFont
    BY <1>1 DEF Served, Cleaning, Installing, UserLabel, ScopeLabel, PastUpdate
<1>8. CallOf(t)' = CallOf(t)
    BY <1>7 DEF CallOf, Subject, Cleaning
<1>9. UNCHANGED Store!storeVars
    BY <1>6, <1>8, OneCaller DEF Store!storeVars
<1>10. Served(pc'[t], loc'[t]) /\ Passed(t)'
    BY <1>1, <1>3, <1>7 DEF Served, Passed, Cleaning, Installing, UserLabel, ScopeLabel,
       PastUpdate, Removing, ScopeRemoving, Checked, Searching
<1>11. AtomicInv'
    BY <1>1, <1>10, AtomicOfOne DEF Cleaning
<1> QED
    BY <1>9, <1>11 DEF StoreStep

LEMMA CleanFileStep ==
    ASSUME StoreInv, Sequential, NEW t \in Thread, CleanFile(t)
    PROVE  StoreStep /\ AtomicInv'
<1>1. /\ TypeInv /\ ControlOK /\ OneThread /\ pc[t] = "clean" /\ loc[t] \in Local
      /\ configFile # "broken" /\ UNCHANGED configVars
    BY DEF StoreInv, TypeInv, ControlOK, AtomicInv, Sequential, CleanFile, At
<1>2. PICK r \in loc[t].todo :
        Move(t, "deleteClean", [loc[t] EXCEPT !.todo = @ \ {r}, !.path = r.path, !.url = r.srcPath])
    BY DEF CleanFile
<1>3. /\ pc'[t] = "deleteClean"
      /\ loc'[t] = [loc[t] EXCEPT !.todo = @ \ {r}, !.path = r.path, !.url = r.srcPath]
    BY <1>1, <1>2, Moves
<1>4. /\ loc'[t].op = loc[t].op /\ loc'[t].id = loc[t].id
      /\ loc'[t].font = loc[t].font /\ loc'[t].ret = loc[t].ret
    BY <1>1, <1>3 DEF Local
<1>5. Records' = Records /\ configFile' = configFile
    BY <1>1, SameRecords
<1> QED
    BY <1>1, <1>3, <1>4, <1>5, CleanupGoesOn DEF Cleaning

(* The records that go have gone for the abstract store before.            *)
LEMMA CleanRecordStep ==
    ASSUME StoreInv, Sequential, NEW t \in Thread, CleanRecord(t)
    PROVE  StoreStep /\ AtomicInv'
<1> DEFINE l == loc[t]
<1>1. /\ TypeInv /\ ConfigTypeOK /\ UniqueUrls /\ TodoOK(t) /\ OneThread
      /\ pc[t] = "deleteClean" /\ configFile # "broken" /\ l.url \in Url
      /\ "write" \notin Fault
    BY DEF StoreInv, TypeInv, UrlInv, TodoInv, SiteInv, Sited, AtomicInv, Sequential, Reliable,
       CleanRecord, At
<1>2. PICK ok \in BOOLEAN : DeleteScopeFontRecordByUrl(l.url, ok)
    BY DEF CleanRecord
<1>3. pc'[t] = "clean" /\ loc'[t] = l
    BY <1>1, Staying DEF CleanRecord, Stays
<1> HIDE DEF l
<1>4. CASE UNCHANGED configVars
    <2>1. Records' = Records /\ configFile' = configFile
        BY <1>4, SameRecords
    <2> QED
        BY <1>1, <1>3, <2>1, CleanupGoesOn DEF Cleaning, l
<1>5. ASSUME NEW i \in WithUrl(l.url), Drops(i) PROVE StoreStep /\ AtomicInv'
    <2>1. Records' = {r \in Records : r.srcPath # l.url}
        BY <1>1, <1>5, UrlDrop
    <2>2. configFile = "valid" /\ configFile' = "valid"
        BY <1>5 DEF Drops, Rewrites
    <2>3. \A r \in Records : r.srcPath = l.url => Selected(l.op, l.id, r)
        BY <1>1, <2>2 DEF TodoOK, Doing, l
    <2>4. {r \in Records' : ~Selected(l.op, l.id, r)} = {r \in Records : ~Selected(l.op, l.id, r)}
        BY <2>1, <2>3
    <2> QED
        BY <1>1, <1>3, <2>1, <2>2, <2>4, CleanupGoesOn DEF Cleaning, l
<1> QED
    BY <1>1, <1>2, <1>4, <1>5, UrlDeletion

(* When a cleanup answers, its fonts are gone indeed.                      *)
LEMMA CleanDirsStep ==
    ASSUME StoreInv, Sequential, NEW t \in Thread, CleanDirs(t)
    PROVE  StoreStep /\ AtomicInv'
<1>1. /\ TypeInv /\ AtomicInv /\ TodoOK(t) /\ OneThread /\ pc[t] = "clean" /\ loc[t].todo = {}
      /\ configFile # "broken" /\ Return(t, "ERR_OK") /\ UNCHANGED configVars
      /\ "write" \notin Fault /\ loc[t].op \in Cleanups
    BY DEF StoreInv, TodoInv, CallInv, Called, AtomicInv, Sequential, Reliable, CleanDirs, At
<1>2. Records' = Records /\ configFile' = configFile
    BY <1>1, SameRecords
<1>3. \A r \in Records : ~Selected(loc[t].op, loc[t].id, r)
    BY <1>1 DEF TodoOK, Doing
<1>4. Fonts = {FontOf(r) : r \in {s \in Records : ~Selected(loc[t].op, loc[t].id, s)}}
    BY <1>1, FontsLeft DEF Cleaning
<1>5. /\ CallOf(Caller)' = Store!Answered("ERR_OK")
      /\ Fonts' = {FontOf(r) : r \in Records'}
      /\ configFile' # "broken" /\ (\A r \in Records' : r.names # {}) => AtomicInv'
    BY <1>1, Answering
<1>6. AtomicInv'
    BY <1>1, <1>2, <1>5 DEF AtomicInv
<1>7. Fonts' = Fonts
    BY <1>2, <1>3, <1>4, <1>5
<1>8. CallOf(Caller).op \in Store!Cleanups
    BY <1>1, OneCaller DEF CallOf, Cleanups, UserCleanup, Store!Cleanups, Store!UserCleanup
<1>9. Store!CleanedUp
    BY <1>5, <1>7, <1>8 DEF Store!CleanedUp, Store!Refuse, Store!Answer
<1> QED
    BY <1>6, <1>9 DEF StoreStep, Store!Next

-----------------------------------------------------------------------------
(* The refinement.                                                         *)

LEMMA CallAtomic ==
    ASSUME StoreInv, Sequential, NEW t \in Thread, Call(t)
    PROVE  StoreStep /\ AtomicInv'
BY InstallFontStep, UninstallFontStep, InstallScopeFontStep, UninstallScopeFontStep,
   AppCleanupStep, UserCleanupStep, CleanupScopeFontDirsStep DEF Call

LEMMA StepAtomic ==
    ASSUME StoreInv, Sequential, NEW t \in Thread, Step(t)
    PROVE  StoreStep /\ AtomicInv'
<1>1. CASE CreateConfig(t) \/ FillConfig(t)
    BY <1>1, CreateConfigStep, FillConfigStep
<1>2. CASE \/ FindInstalled(t) \/ ProbeInstalled(t) \/ HealRecord(t)
           \/ CheckInstalledNum(t) \/ CopyFont(t) \/ InsertFont(t) \/ UndoCopy(t)
    BY <1>2, FindInstalledStep, ProbeInstalledStep, CheckInstalledNumStep, CopyFontStep,
       InsertFontStep, NeverUndone
<1>3. CASE RemoveFont(t) \/ DeleteFont(t) \/ RemoveScopeFont(t) \/ DeleteScopeFont(t)
    BY <1>3, RemoveFontStep, DeleteFontStep, RemoveScopeFontStep, DeleteScopeFontStep
<1>4. CASE \/ UpdateConfig(t) \/ CheckUrl(t) \/ CheckTotal(t) \/ CheckNames(t)
           \/ InitScopeDir(t) \/ CopyScopeFont(t) \/ InsertScopeFont(t)
    BY <1>4, UpdateConfigStep, CheckUrlStep, CheckTotalStep, CheckNamesStep, InitScopeDirStep,
       CopyScopeFontStep, InsertScopeFontStep
<1>5. CASE CleanFile(t) \/ CleanRecord(t) \/ CleanDirs(t)
    BY <1>5, CleanFileStep, CleanRecordStep, CleanDirsStep
<1> QED
    BY <1>1, <1>2, <1>3, <1>4, <1>5 DEF Step

LEMMA NextAtomic ==
    ASSUME StoreInv, Sequential, [Next]_vars
    PROVE  StoreStep /\ AtomicInv'
<1>1. CASE UNCHANGED vars
    <2>1. UNCHANGED <<configVars, pc, loc, dirs>>
        BY <1>1 DEF vars, storage, control
    <2>2. Records' = Records
        BY <2>1, SameRecords
    <2>3. Leaving' = Leaving
        BY <2>1, <2>2 DEF Leaving, Snapshot, GetFontRecordsByAppId, GetScopeFontRecords,
           GetAppScopeFontRecords
    <2>4. Fonts' = Fonts
        BY <2>2, <2>3 DEF Fonts
    <2>5. CallOf(Caller)' = CallOf(Caller)
        BY <2>1, <2>2 DEF CallOf, Subject
    <2>6. AtomicInv'
        BY <2>1, <2>2 DEF StoreInv, AtomicInv, Passed, FullName, configVars
    <2> QED
        BY <2>4, <2>5, <2>6 DEF StoreStep, Store!storeVars
<1>2. CASE Next
    <2>1. ~Crash
        BY DEF Crash, Sequential, Reliable
    <2> QED
        BY <1>2, <2>1, CallAtomic, StepAtomic DEF Next
<1> QED
    BY <1>1, <1>2

LEMMA InitAtomic ==
    ASSUME Init, Sequential
    PROVE  AtomicInv /\ Store!Init
<1>1. \A t \in Thread : pc[t] = "idle" /\ loc[t] = Idle
    BY InitRecords
<1>2. Records = {} /\ configFile # "broken"
    BY InitRecords DEF Init, InitStore, Sequential, Records
<1>3. Caller \in Thread
    BY FontConfigAssumption DEF Caller
<1>4. AtomicInv
    BY <1>1, <1>2 DEF AtomicInv, Served, Passed, Idle, Installing, UserLabel, ScopeLabel,
       PastUpdate, Removing, ScopeRemoving, Checked, Searching
<1>5. Fonts = {}
    BY <1>2 DEF Fonts
<1>6. CallOf(Caller) = Store!Answered("none")
    BY <1>1, <1>3 DEF CallOf, Subject, Idle, Store!Answered, Store!NullFont, Store!NewFont
<1> QED
    BY <1>4, <1>5, <1>6 DEF Store!Init

(* FontManager implements AtomicStore: a call takes effect at one instant  *)
(* and gives the answer that the fonts installed then ask for, although    *)
(* it is made of reads, copies, insertions and deletions of which each     *)
(* sees only the configuration or the disk.  An installation of InstallFont*)
(* or InstallScopeFont is refused exactly if a name or its srcPath is      *)
(* taken or no place is free; an uninstallation takes the one font that    *)
(* its caller may take; a cleanup takes all fonts of its kind and no other.*)
(* For any fonts, applications and limit, in calls that do not overlap and *)
(* where only copies and the creation of directories fail.                 *)
THEOREM CallsAreAtomic ==
    OneThread /\ ~RepeatTag /\ Fault \cap {"write", "remove", "crash"} = {}
    /\ "old" \notin InitialFile
    => (Spec => ImplementsAtomicStore)
<1> SUFFICES ASSUME Sequential PROVE Spec => ImplementsAtomicStore
    BY DEF Sequential, Reliable
<1>1. Spec => [](/\ TypeInv /\ SiteInv /\ CallInv /\ UrlInv /\ OwnerInv /\ TodoInv
                 /\ DiskInv /\ DiskAgrees)
    BY DiskInvariant DEF Sequential
<1>2. Spec => [](TypeInv /\ FreshInv /\ NameInv)
    BY NameInvariant DEF Sequential
<1>3. Init => AtomicInv /\ Store!Init
    BY InitAtomic
<1>4. /\ TypeInv /\ SiteInv /\ CallInv /\ UrlInv /\ OwnerInv /\ TodoInv
      /\ DiskInv /\ DiskAgrees /\ FreshInv /\ NameInv /\ AtomicInv /\ [Next]_vars
      => AtomicInv' /\ [Store!Next]_(Store!storeVars)
    BY NextAtomic DEF StoreInv, StoreStep
<1> QED
    BY <1>1, <1>2, <1>3, <1>4, PTL DEF Spec, ImplementsAtomicStore, Store!Spec
=============================================================================
