------------------------- MODULE FontRecords_proofs -------------------------
(***************************************************************************)
(* Proofs about the records of FontManager: which records there can be,    *)
(* which of them a step adds, deletes or rewrites, and how they keep to    *)
(* the font files, for any threads, fonts and applications.  First the     *)
(* steps in terms of what they do to thread, files and records (NextMoves, *)
(* RecordSteps); then what holds of overlapping calls; then what holds of  *)
(* calls that do not overlap (OneThread).                                  *)
(***************************************************************************)
EXTENDS FontManager_proofs

-----------------------------------------------------------------------------
(* What a step does to its thread.                                         *)

Goes(t, label) ==
    pc'[t] = label /\ \A s \in Thread \ {t} : pc'[s] = pc[s] /\ loc'[s] = loc[s]
SameCall(t) ==
    /\ loc'[t].op = loc[t].op /\ loc'[t].font = loc[t].font /\ loc'[t].url = loc[t].url
    /\ loc'[t].id = loc[t].id /\ loc'[t].todo = loc[t].todo

(* The call returns, goes on as it is, turns to another path, or starts.   *)
Ends(t) == Goes(t, "idle") /\ loc'[t].path = NoPath /\ loc'[t].todo = {}
GoesOn(t, label) == Goes(t, label) /\ loc'[t] = loc[t]
Targets(t, label, p) ==
    Goes(t, label) /\ SameCall(t) /\ loc'[t].path = p /\ loc'[t].i = loc[t].i
Starts(t, label, op, f, u, id, p, todo) ==
    /\ pc[t] = "idle" /\ op \in Op /\ Goes(t, label)
    /\ loc'[t].op = op /\ loc'[t].font = f /\ loc'[t].url = u /\ loc'[t].id = id
    /\ loc'[t].path = p /\ loc'[t].todo = todo /\ loc'[t].i = 1

(* The moves of FontManager in these terms.                                *)
LEMMA Ending ==
    ASSUME ControlOK, NEW t \in Thread, NEW code, Return(t, code)
    PROVE  Ends(t) /\ loc'[t].ret = code
<1>1. Goes(t, "idle") /\ loc'[t] = [Idle EXCEPT !.ret = code]
    BY Moves DEF Return, Goes
<1> QED
    BY <1>1 DEF Ends, Idle

(* Continue goes on with the same call.                                    *)
LEMMA GoingOn ==
    ASSUME ControlOK, NEW t \in Thread, NEW label, Continue(t, label)
    PROVE  GoesOn(t, label)
BY Moves DEF Continue, GoesOn, Goes

(* A move that sets the path only turns the call to another path.          *)
LEMMA Targeting ==
    ASSUME ControlOK, NEW t \in Thread, NEW label, NEW p,
           Move(t, label, [loc[t] EXCEPT !.path = p])
    PROVE  Targets(t, label, p)
<1>1. Goes(t, label) /\ loc'[t] = [loc[t] EXCEPT !.path = p]
    BY Moves DEF Goes
<1>2. loc[t] \in Local
    BY DEF ControlOK
<1> QED
    BY <1>1, <1>2 DEF Targets, SameCall, Local

(* The next name, or the end of the names.                                 *)
LEMMA TakingName ==
    ASSUME ControlOK, NEW t \in Thread, NEW again, NEW done, NextName(t, again, done)
    PROVE  \/ /\ ~LastName(t) /\ Goes(t, again) /\ SameCall(t)
              /\ loc'[t].path = NoPath /\ loc'[t].i = loc[t].i + 1
           \/ LastName(t) /\ Targets(t, done, NoPath)
<1>1. loc[t] \in Local
    BY DEF ControlOK
<1>2. CASE Move(t, again, [loc[t] EXCEPT !.i = @ + 1, !.path = NoPath]) /\ ~LastName(t)
    <2>1. Goes(t, again) /\ loc'[t] = [loc[t] EXCEPT !.i = @ + 1, !.path = NoPath]
        BY <1>2, Moves DEF Goes
    <2> QED
        BY <1>1, <1>2, <2>1 DEF SameCall, Local
<1> QED
    BY <1>2, Targeting DEF NextName

(* A failed insertion goes to the removal of the copy.                     *)
LEMMA Undoing ==
    ASSUME ControlOK, NEW t \in Thread, NEW ret,
           Move(t, "undo", [loc[t] EXCEPT !.ret = ret])
    PROVE  Targets(t, "undo", loc[t].path)
<1>1. Goes(t, "undo") /\ loc'[t] = [loc[t] EXCEPT !.ret = ret]
    BY Moves DEF Goes
<1>2. loc[t] \in Local
    BY DEF ControlOK
<1> QED
    BY <1>1, <1>2 DEF Targets, SameCall, Local

(* The beginning of the calls.                                             *)
LEMMA Beginning ==
    ASSUME ControlOK, NEW t \in Thread, NEW label, NEW op \in Op, NEW f, NEW u, NEW id,
           pc[t] = "idle"
    PROVE  /\ Move(t, label, Begin(op, f, u, id))
              => Starts(t, label, op, f, u, id, NoPath, {})
           /\ \A p : Move(t, label, [Begin(op, f, u, id) EXCEPT !.path = p])
                => Starts(t, label, op, f, u, id, p, {})
           /\ \A todo : Move(t, label, [Begin(op, f, u, id) EXCEPT !.todo = todo])
                => Starts(t, label, op, f, u, id, NoPath, todo)
<1>1. ASSUME NEW l, Move(t, label, l) PROVE Goes(t, label) /\ loc'[t] = l
    BY <1>1, Moves DEF Goes
<1>2. ASSUME Move(t, label, Begin(op, f, u, id))
      PROVE  Starts(t, label, op, f, u, id, NoPath, {})
    <2>1. Goes(t, label) /\ loc'[t] = Begin(op, f, u, id)
        BY <1>1, <1>2
    <2> QED
        BY <2>1 DEF Starts, Begin, Idle
<1>3. ASSUME NEW p, Move(t, label, [Begin(op, f, u, id) EXCEPT !.path = p])
      PROVE  Starts(t, label, op, f, u, id, p, {})
    <2>1. Goes(t, label) /\ loc'[t] = [Begin(op, f, u, id) EXCEPT !.path = p]
        BY <1>1, <1>3
    <2> QED
        BY <2>1 DEF Starts, Begin, Idle
<1>4. ASSUME NEW todo, Move(t, label, [Begin(op, f, u, id) EXCEPT !.todo = todo])
      PROVE  Starts(t, label, op, f, u, id, NoPath, todo)
    <2>1. Goes(t, label) /\ loc'[t] = [Begin(op, f, u, id) EXCEPT !.todo = todo]
        BY <1>1, <1>4
    <2> QED
        BY <2>1 DEF Starts, Begin, Idle
<1> QED
    BY <1>2, <1>3, <1>4

-----------------------------------------------------------------------------
(* The steps of FontManager in these terms: the calls and other reads,     *)
(* the accesses to font files, and the writes of the configuration.        *)

Takes(t, again, done) ==
    \/ /\ ~LastName(t) /\ Goes(t, again) /\ SameCall(t)
       /\ loc'[t].path = NoPath /\ loc'[t].i = loc[t].i + 1
    \/ LastName(t) /\ Targets(t, done, NoPath)

StartsInstall(t) ==
    \E label \in {"create", "find", "update"}, f \in Font, u \in SrcPath, id \in Dir :
      /\ label = "create" <=> configFile = "missing"
      /\ \/ /\ label # "update" /\ u = NoUrl /\ id = Root
            /\ Starts(t, label, "InstallFont", f, u, id, NoPath, {})
         \/ /\ label # "find" /\ u \in Url /\ id \in AppId
            /\ Starts(t, label, "InstallScopeFont", f, u, id, NoPath, {})

StartsUninstall(t) ==
    \E n \in Name : LET r == GetFontRecordByName(n) IN
        /\ HasName(n) /\ r.scope = "none"
        /\ Starts(t, "remove", "UninstallFont", NoFont, NoUrl, Root, r.path, {})

StartsScopeUninstall(t) ==
    \E u \in Url, token \in Token : LET r == GetFontRecordByUrl(u) IN
        /\ HasUrl(u) /\ r.appId.token = token /\ r.appId.scope = r.scope
        /\ Starts(t, "removeScope", "UninstallScopeFont", NoFont, u, r.appId, r.path, {})

StartsCleanup(t) ==
    \E op \in UserCleanup \cup {"CleanupAppScopeFonts"}, id \in Dir :
        /\ op = "CleanupAppScopeFonts" => id.scope = "app"
        /\ op \in UserCleanup => id = Root
        /\ Starts(t, "clean", op, NoFont, NoUrl, id, NoPath, Snapshot(op, id))

CallMoves(t) ==
    /\ pc[t] = "idle" /\ UNCHANGED <<configVars, files>>
    /\ \/ Ends(t) /\ loc'[t].ret # "ERR_INSTALLED_ALRADY"
       \/ StartsInstall(t) \/ StartsUninstall(t)
       \/ StartsScopeUninstall(t) \/ StartsCleanup(t)

Onward(t) ==
    \/ pc[t] = "count" /\ GoesOn(t, "copy")
    \/ pc[t] = "url" /\ GoesOn(t, "total") /\ ~HasUrl(loc[t].url)
    \/ pc[t] = "total" /\ GoesOn(t, "names")
    \/ pc[t] = "mkdir" /\ GoesOn(t, "copyScope")

ReadMoves(t) ==
    /\ UNCHANGED <<configVars, files>>
    /\ \/ /\ pc[t] \in {"find", "count", "copy", "url", "total", "names", "mkdir",
                        "copyScope", "remove", "removeScope"}
          /\ Ends(t) /\ loc'[t].ret # "ERR_OK"
       \/ pc[t] = "find" /\ ~HasName(FullName(t)) /\ Takes(t, "find", "count")
       \/ /\ pc[t] = "find" /\ HasName(FullName(t)) /\ FullNames[loc[t].font] # <<>>
          /\ Targets(t, "probe", GetFontFileByName(FullName(t)))
       \/ pc[t] = "probe" /\ loc[t].path \in DOMAIN files /\ Ends(t)
       \/ pc[t] = "probe" /\ loc[t].path \notin DOMAIN files /\ GoesOn(t, "heal")
       \/ Onward(t)
       \/ pc[t] = "names" /\ ~HasName(FullName(t)) /\ Takes(t, "names", "mkdir")

FileMoves(t) ==
    /\ UNCHANGED configVars
    /\ \/ /\ \/ pc[t] = "copy" /\ pc'[t] = "insert"
             \/ pc[t] = "copyScope" /\ pc'[t] = "insertScope"
          /\ \E k \in Tag : /\ TimeTag(t, k) /\ Targets(t, pc'[t], DestPath(t, k))
                            /\ files' = WithFile(DestPath(t, k), loc[t].font)
       \/ /\ pc[t] = "undo" /\ Ends(t) /\ \E ok \in BOOLEAN : RemoveFile(loc[t].path, ok)
       \/ /\ \/ pc[t] = "remove" /\ GoesOn(t, "delete")
             \/ pc[t] = "removeScope" /\ GoesOn(t, "deleteScope")
          /\ files' = Without({loc[t].path})
       \/ /\ pc[t] = "clean"
          /\ \E r \in loc[t].todo :
                /\ Goes(t, "deleteClean")
                /\ loc'[t].path = r.path /\ loc'[t].url = r.srcPath
                /\ loc'[t].todo = loc[t].todo \ {r}
                /\ loc'[t].op = loc[t].op /\ loc'[t].id = loc[t].id
                /\ \E ok \in BOOLEAN : RemoveFile(r.path, ok)
       \/ /\ pc[t] = "clean" /\ loc[t].todo = {} /\ Ends(t)
          /\ DeleteDirs(DirsAfter(loc[t].op, loc[t].id))

ConfigMoves(t) ==
    /\ UNCHANGED files
    /\ \/ pc[t] = "create" /\ CreateFontConfig /\ GoesOn(t, "fill")
       \/ /\ pc[t] = "fill" /\ FillFontConfig
          /\ GoesOn(t, AfterInit(loc[t].op)) \/ ("write" \in Fault /\ Ends(t))
       \/ /\ pc[t] = "heal"
          /\ \/ DeleteFontRecord(loc[t].path, TRUE) /\ Takes(t, "find", "count")
             \/ DeleteFontRecord(loc[t].path, FALSE) /\ Ends(t)
       \/ /\ pc[t] = "insert"
          /\ \E ret \in Code :
                /\ InsertFontRecordIfUnderLimit(loc[t].path, NamesOf(loc[t].font), ret)
                /\ \/ ret = "ERR_OK" /\ Ends(t)
                   \/ ret # "ERR_OK" /\ Targets(t, "undo", loc[t].path)
       \/ /\ pc[t] = "delete" /\ Ends(t)
          /\ \E ok \in BOOLEAN : DeleteFontRecord(loc[t].path, ok)
       \/ /\ pc[t] = "update"
          /\ \/ CheckAndUpdateFontRecord(files, TRUE) /\ GoesOn(t, "url")
             \/ CheckAndUpdateFontRecord(files, FALSE) /\ Ends(t)
       \/ /\ pc[t] = "insertScope"
          /\ \/ InsertScopeFontRecord(ScopeRecord(t), TRUE) /\ Ends(t)
             \/ /\ InsertScopeFontRecord(ScopeRecord(t), FALSE)
                /\ Targets(t, "undo", loc[t].path)
       \/ /\ pc[t] = "deleteScope" /\ Ends(t)
          /\ \E ok \in BOOLEAN : DeleteScopeFontRecordByUrl(loc[t].url, ok)
       \/ /\ pc[t] = "deleteClean" /\ GoesOn(t, "clean")
          /\ \E ok \in BOOLEAN : DeleteScopeFontRecordByUrl(loc[t].url, ok)

(* A call that begins an installation.                                     *)
LEMMA StartInstallMoves ==
    ASSUME ControlOK, NEW t \in Thread, NEW op, NEW f \in Font, NEW u, NEW id,
           \/ op = "InstallFont" /\ u = NoUrl /\ id = Root
           \/ op = "InstallScopeFont" /\ u \in Url /\ id \in AppId,
           StartInstall(t, op, f, u, id)
    PROVE  CallMoves(t)
<1>1. pc[t] = "idle" /\ op \in Op /\ UNCHANGED <<configVars, files>>
    BY DEF StartInstall, Start, At, storage
<1>2. CASE \E code \in {"ERR_FILE_NOT_EXISTS", "ERR_SYSTEM_ERROR"} : Return(t, code)
    BY <1>1, <1>2, Ending DEF CallMoves
<1>3. CASE Move(t, IF configFile = "missing" THEN "create" ELSE AfterInit(op),
                Begin(op, f, u, id))
    <2> DEFINE label == IF configFile = "missing" THEN "create" ELSE AfterInit(op)
    <2>1. /\ label \in {"create", IF op = "InstallFont" THEN "find" ELSE "update"}
          /\ label = "create" <=> configFile = "missing"
        BY DEF AfterInit
    <2>2. Move(t, label, Begin(op, f, u, id))
        BY <1>3
    <2> HIDE DEF label
    <2>3. Starts(t, label, op, f, u, id, NoPath, {})
        BY <1>1, <2>2, Beginning
    <2>4. u \in SrcPath /\ id \in Dir
        BY DEF SrcPath, Dir
    <2>5. StartsInstall(t)
        BY <2>1, <2>3, <2>4 DEF StartsInstall
    <2> QED
        BY <1>1, <2>5 DEF CallMoves
<1> QED
    BY <1>2, <1>3 DEF StartInstall, Start, InitError

(* Every call.                                                             *)
LEMMA CallMove ==
    ASSUME TypeInv, NEW t \in Thread, Call(t)
    PROVE  CallMoves(t)
<1>1. ControlOK /\ ConfigTypeOK
    BY DEF TypeInv
<1>2. ASSUME NEW f \in Font, InstallFont(t, f) PROVE CallMoves(t)
    BY <1>1, <1>2, StartInstallMoves DEF InstallFont
<1>3. ASSUME NEW f \in Font, NEW u \in Url, NEW id \in Client, InstallScopeFont(t, f, u, id)
      PROVE  CallMoves(t)
    <2>1. id \in AppId
        BY FontManagerAssumption
    <2> QED
        BY <1>1, <1>3, <2>1, StartInstallMoves DEF InstallScopeFont
<1>4. ASSUME NEW n \in Name, UninstallFont(t, n) PROVE CallMoves(t)
    <2> DEFINE r == GetFontRecordByName(n)
    <2>1. pc[t] = "idle" /\ UNCHANGED <<configVars, files>> /\ "UninstallFont" \in Op
        BY <1>4 DEF UninstallFont, At, storage
    <2>2. CASE Return(t, "ERR_UNINSTALL_FILE_NOT_EXISTS")
        BY <1>1, <2>1, <2>2, Ending DEF CallMoves
    <2>3. CASE /\ HasName(n) /\ r.scope = "none"
               /\ Move(t, "remove", [Begin("UninstallFont", NoFont, NoUrl, Root)
                                       EXCEPT !.path = r.path])
        <3>1. Starts(t, "remove", "UninstallFont", NoFont, NoUrl, Root, r.path, {})
            BY <1>1, <2>1, <2>3, Beginning
        <3> QED
            BY <2>1, <2>3, <3>1 DEF CallMoves, StartsUninstall
    <2> QED
        BY <1>4, <2>2, <2>3 DEF UninstallFont
<1>5. ASSUME NEW u \in Url, NEW token \in Token, UninstallScopeFont(t, u, token)
      PROVE  CallMoves(t)
    <2> DEFINE r == GetFontRecordByUrl(u)
    <2>1. pc[t] = "idle" /\ UNCHANGED <<configVars, files>> /\ "UninstallScopeFont" \in Op
        BY <1>5 DEF UninstallScopeFont, At, storage
    <2>2. CASE Return(t, "ERR_SCOPE_FONT_NOT_FOUND")
        BY <1>1, <2>1, <2>2, Ending DEF CallMoves
    <2>3. CASE /\ HasUrl(u) /\ Owns(token, r)
               /\ Move(t, "removeScope",
                       [Begin("UninstallScopeFont", NoFont, u,
                              MakeAppIdentifier(r.scope, token)) EXCEPT !.path = r.path])
        <3>1. r.appId = MakeAppIdentifier(r.scope, token)
            BY <2>3 DEF Owns
        <3>2. r.appId.token = token /\ r.appId.scope = r.scope
            BY <3>1 DEF MakeAppIdentifier
        <3>3. Starts(t, "removeScope", "UninstallScopeFont", NoFont, u, r.appId, r.path, {})
            BY <1>1, <2>1, <2>3, <3>1, Beginning
        <3> QED
            BY <2>1, <2>3, <3>2, <3>3 DEF CallMoves, StartsScopeUninstall
    <2> QED
        BY <1>5, <2>2, <2>3 DEF UninstallScopeFont
<1>6. ASSUME NEW op \in UserCleanup \cup {"CleanupAppScopeFonts"}, NEW id \in Dir,
             op = "CleanupAppScopeFonts" => id.scope = "app",
             op \in UserCleanup => id = Root, Cleanup(t, op, id)
      PROVE  CallMoves(t)
    <2>1. /\ pc[t] = "idle" /\ UNCHANGED <<configVars, files>> /\ op \in Op
          /\ Move(t, "clean", [Begin(op, NoFont, NoUrl, id) EXCEPT !.todo = Snapshot(op, id)])
        BY <1>6 DEF Cleanup, At, storage
    <2>2. Starts(t, "clean", op, NoFont, NoUrl, id, NoPath, Snapshot(op, id))
        BY <1>1, <2>1, Beginning
    <2> QED
        BY <1>6, <2>1, <2>2 DEF CallMoves, StartsCleanup
<1>7. ASSUME NEW token \in Token,
             Cleanup(t, "CleanupAppScopeFonts", MakeAppIdentifier("app", token))
      PROVE  CallMoves(t)
    <2>1. MakeAppIdentifier("app", token) \in Dir
          /\ MakeAppIdentifier("app", token).scope = "app"
        BY DEF MakeAppIdentifier, Dir, AppId
    <2> QED
        BY <1>6, <1>7, <2>1 DEF UserCleanup
<1>8. ASSUME NEW op \in UserCleanup, Cleanup(t, op, Root) PROVE CallMoves(t)
    BY <1>6, <1>8 DEF UserCleanup, Dir
<1>9. CASE CleanupScopeFontDirs(t)
    BY <1>1, <1>9, Ending DEF CleanupScopeFontDirs, CallMoves, At
<1> QED
    BY <1>2, <1>3, <1>4, <1>5, <1>7, <1>8, <1>9 DEF Call

(* Every step that reads.                                                  *)
LEMMA ReadMove ==
    ASSUME ControlOK, NEW t \in Thread,
           \/ FindInstalled(t) \/ ProbeInstalled(t) \/ CheckInstalledNum(t)
           \/ CheckUrl(t) \/ CheckTotal(t) \/ CheckNames(t) \/ InitScopeDir(t)
    PROVE  ReadMoves(t)
<1> USE DEF At
<1>1. UNCHANGED <<configVars, files>>
    BY DEF FindInstalled, ProbeInstalled, CheckInstalledNum, CheckUrl, CheckTotal, CheckNames,
           InitScopeDir, storage
<1>2. ASSUME NEW code, Return(t, code) PROVE Ends(t) /\ loc'[t].ret = code
    BY <1>2, Ending
<1>3. CASE FindInstalled(t)
    <2>1. CASE Move(t, "probe", [loc[t] EXCEPT !.path = GetFontFileByName(FullName(t))])
               /\ HasName(FullName(t)) /\ FullNames[loc[t].font] # <<>>
        <3>1. Targets(t, "probe", GetFontFileByName(FullName(t)))
            BY <2>1, Targeting
        <3> QED
            BY <1>1, <1>3, <2>1, <3>1 DEF FindInstalled, ReadMoves
    <2>2. CASE NextName(t, "find", "count") /\ ~HasName(FullName(t))
        <3>1. Takes(t, "find", "count")
            BY <2>2, TakingName DEF Takes
        <3> QED
            BY <1>1, <1>3, <2>2, <3>1 DEF FindInstalled, ReadMoves
    <2>3. CASE Return(t, "ERR_FILE_VERIFY_FAIL")
        BY <1>1, <1>2, <1>3, <2>3 DEF FindInstalled, ReadMoves
    <2> QED
        BY <1>3, <2>1, <2>2, <2>3 DEF FindInstalled
<1>4. CASE ProbeInstalled(t)
    BY <1>1, <1>2, <1>4, GoingOn DEF ProbeInstalled, ReadMoves
<1>5. CASE CheckInstalledNum(t)
    <2>1. CASE Return(t, "ERR_MAX_FILE_COUNT")
        BY <1>1, <1>2, <1>5, <2>1 DEF CheckInstalledNum, ReadMoves
    <2>2. CASE Continue(t, "copy")
        BY <1>1, <1>5, <2>2, GoingOn DEF CheckInstalledNum, ReadMoves, Onward
    <2> QED
        BY <1>5, <2>1, <2>2 DEF CheckInstalledNum
<1>6. CASE CheckUrl(t)
    <2>1. CASE Return(t, "ERR_INSTALLED_ALRADY")
        BY <1>1, <1>2, <1>6, <2>1 DEF CheckUrl, ReadMoves
    <2>2. CASE Continue(t, "total") /\ ~HasUrl(loc[t].url)
        BY <1>1, <1>6, <2>2, GoingOn DEF CheckUrl, ReadMoves, Onward
    <2> QED
        BY <1>6, <2>1, <2>2 DEF CheckUrl
<1>7. CASE CheckTotal(t)
    <2>1. CASE Return(t, "ERR_MAX_FILE_COUNT") \/ Return(t, "ERR_FILE_VERIFY_FAIL")
        BY <1>1, <1>2, <1>7, <2>1 DEF CheckTotal, ReadMoves
    <2>2. CASE Continue(t, "names")
        BY <1>1, <1>7, <2>2, GoingOn DEF CheckTotal, ReadMoves, Onward
    <2> QED
        BY <1>7, <2>1, <2>2 DEF CheckTotal
<1>8. CASE CheckNames(t)
    <2>1. CASE Return(t, "ERR_INSTALLED_ALRADY")
        BY <1>1, <1>2, <1>8, <2>1 DEF CheckNames, ReadMoves
    <2>2. CASE NextName(t, "names", "mkdir") /\ ~HasName(FullName(t))
        <3>1. Takes(t, "names", "mkdir")
            BY <2>2, TakingName DEF Takes
        <3> QED
            BY <1>1, <1>8, <2>2, <3>1 DEF CheckNames, ReadMoves
    <2> QED
        BY <1>8, <2>1, <2>2 DEF CheckNames
<1>9. CASE InitScopeDir(t)
    <2>1. CASE Return(t, "ERR_SYSTEM_ERROR")
        BY <1>1, <1>2, <1>9, <2>1 DEF InitScopeDir, ReadMoves
    <2>2. CASE Continue(t, "copyScope")
        BY <1>1, <1>9, <2>2, GoingOn DEF InitScopeDir, ReadMoves, Onward
    <2> QED
        BY <1>9, <2>1, <2>2 DEF InitScopeDir
<1> QED
    BY <1>3, <1>4, <1>5, <1>6, <1>7, <1>8, <1>9

(* Every step that makes or removes a file, or fails to.                   *)
LEMMA FileMove ==
    ASSUME ControlOK, NEW t \in Thread,
           \/ CopyFont(t) \/ CopyScopeFont(t) \/ UndoCopy(t)
           \/ RemoveFont(t) \/ RemoveScopeFont(t) \/ CleanFile(t) \/ CleanDirs(t)
    PROVE  FileMoves(t) \/ ReadMoves(t)
<1> USE DEF At
<1>1. UNCHANGED configVars
    BY DEF CopyFont, CopyScopeFont, CopyFileForInstall, UndoCopy, RemoveFont, RemoveScopeFont,
           RemoveThen, CleanFile, CleanDirs
<1>2. ASSUME NEW code, Return(t, code) PROVE Ends(t) /\ loc'[t].ret = code
    BY <1>2, Ending
<1>3. ASSUME NEW label \in {"copy", "copyScope"}, pc[t] = label,
             NEW next, next = IF label = "copy" THEN "insert" ELSE "insertScope",
             CopyFileForInstall(t, next)
      PROVE  FileMoves(t) \/ ReadMoves(t)
    <2>1. CASE Return(t, "ERR_COPY_FAIL") /\ UNCHANGED <<configVars, storage>>
        BY <1>2, <1>3, <2>1 DEF ReadMoves, storage
    <2>2. ASSUME NEW k \in Tag, TimeTag(t, k), files' = WithFile(DestPath(t, k), loc[t].font),
                 Move(t, next, [loc[t] EXCEPT !.path = DestPath(t, k)])
          PROVE  FileMoves(t)
        <3>1. Targets(t, next, DestPath(t, k))
            BY <2>2, Targeting
        <3>2. pc'[t] = next
            BY <3>1 DEF Targets, Goes
        <3> QED
            BY <1>1, <1>3, <2>2, <3>1, <3>2 DEF FileMoves
    <2> QED
        BY <1>3, <2>1, <2>2 DEF CopyFileForInstall
<1>4. CASE CopyFont(t) \/ CopyScopeFont(t)
    BY <1>3, <1>4 DEF CopyFont, CopyScopeFont
<1>5. CASE UndoCopy(t)
    BY <1>1, <1>2, <1>5 DEF UndoCopy, FileMoves
<1>6. ASSUME NEW label \in {"remove", "removeScope"}, pc[t] = label,
             RemoveThen(t, IF label = "remove" THEN "delete" ELSE "deleteScope")
      PROVE  FileMoves(t) \/ ReadMoves(t)
    <2>1. CASE RemoveFile(loc[t].path, FALSE) /\ Return(t, "ERR_UNINSTALL_REMOVE_FAIL")
        BY <1>1, <1>2, <1>6, <2>1 DEF RemoveFile, ReadMoves
    <2>2. CASE /\ RemoveFile(loc[t].path, TRUE)
               /\ Continue(t, IF label = "remove" THEN "delete" ELSE "deleteScope")
        BY <1>1, <1>6, <2>2, GoingOn DEF RemoveFile, FileMoves
    <2> QED
        BY <1>6, <2>1, <2>2 DEF RemoveThen
<1>7. CASE RemoveFont(t) \/ RemoveScopeFont(t)
    BY <1>6, <1>7 DEF RemoveFont, RemoveScopeFont
<1>8. CASE CleanFile(t)
    <2>1. PICK r \in loc[t].todo :
            /\ \E ok \in BOOLEAN : RemoveFile(r.path, ok)
            /\ Move(t, "deleteClean", [loc[t] EXCEPT !.todo = @ \ {r},
                                            !.path = r.path, !.url = r.srcPath])
        BY <1>8 DEF CleanFile
    <2>2. /\ Goes(t, "deleteClean")
          /\ loc'[t] = [loc[t] EXCEPT !.todo = @ \ {r}, !.path = r.path, !.url = r.srcPath]
        BY <2>1, Moves DEF Goes
    <2>3. loc[t] \in Local
        BY DEF ControlOK
    <2>4. /\ loc'[t].path = r.path /\ loc'[t].url = r.srcPath
          /\ loc'[t].todo = loc[t].todo \ {r}
          /\ loc'[t].op = loc[t].op /\ loc'[t].id = loc[t].id
        BY <2>2, <2>3 DEF Local
    <2> QED
        BY <1>1, <1>8, <2>1, <2>2, <2>4 DEF CleanFile, FileMoves
<1>9. CASE CleanDirs(t)
    BY <1>1, <1>2, <1>9 DEF CleanDirs, FileMoves
<1> QED
    BY <1>4, <1>5, <1>7, <1>8, <1>9

(* Every step that writes the configuration, or fails to.                  *)
LEMMA ConfigMove ==
    ASSUME ControlOK, NEW t \in Thread,
           \/ CreateConfig(t) \/ FillConfig(t) \/ HealRecord(t) \/ InsertFont(t)
           \/ DeleteFont(t) \/ UpdateConfig(t) \/ InsertScopeFont(t) \/ DeleteScopeFont(t)
           \/ CleanRecord(t)
    PROVE  ConfigMoves(t)
<1> USE DEF At
<1>1. UNCHANGED files
    BY DEF CreateConfig, FillConfig, HealRecord, InsertFont, DeleteFont, UpdateConfig,
           InsertScopeFont, DeleteScopeFont, CleanRecord, storage
<1>2. ASSUME NEW code, Return(t, code) PROVE Ends(t) /\ loc'[t].ret = code
    BY <1>2, Ending
<1>3. CASE CreateConfig(t) \/ FillConfig(t)
    BY <1>1, <1>2, <1>3, GoingOn DEF CreateConfig, FillConfig, ConfigMoves
<1>4. CASE HealRecord(t)
    <2>1. CASE DeleteFontRecord(loc[t].path, TRUE) /\ NextName(t, "find", "count")
        <3>1. Takes(t, "find", "count")
            BY <2>1, TakingName DEF Takes
        <3> QED
            BY <1>1, <1>4, <2>1, <3>1 DEF HealRecord, ConfigMoves
    <2>2. CASE DeleteFontRecord(loc[t].path, FALSE) /\ Return(t, "ERR_INSTALL_FAIL")
        BY <1>1, <1>2, <1>4, <2>2 DEF HealRecord, ConfigMoves
    <2> QED
        BY <1>4, <2>1, <2>2 DEF HealRecord
<1>5. CASE InsertFont(t)
    <2>1. PICK ret \in Code :
            /\ InsertFontRecordIfUnderLimit(loc[t].path, NamesOf(loc[t].font), ret)
            /\ \/ ret = "ERR_OK" /\ Return(t, ret)
               \/ ret # "ERR_OK" /\ Move(t, "undo", [loc[t] EXCEPT !.ret = ret])
        BY <1>5 DEF InsertFont
    <2>2. \/ ret = "ERR_OK" /\ Ends(t)
          \/ ret # "ERR_OK" /\ Targets(t, "undo", loc[t].path)
        BY <1>2, <2>1, Undoing
    <2> QED
        BY <1>1, <1>5, <2>1, <2>2 DEF InsertFont, ConfigMoves
<1>6. CASE DeleteFont(t)
    BY <1>1, <1>2, <1>6 DEF DeleteFont, ConfigMoves
<1>7. CASE UpdateConfig(t)
    <2>1. CASE CheckAndUpdateFontRecord(files, TRUE) /\ Continue(t, "url")
        BY <1>1, <1>7, <2>1, GoingOn DEF UpdateConfig, ConfigMoves
    <2>2. CASE CheckAndUpdateFontRecord(files, FALSE) /\ Return(t, "ERR_SYSTEM_ERROR")
        BY <1>1, <1>2, <1>7, <2>2 DEF UpdateConfig, ConfigMoves
    <2> QED
        BY <1>7, <2>1, <2>2 DEF UpdateConfig
<1>8. CASE InsertScopeFont(t)
    <2>1. CASE InsertScopeFontRecord(ScopeRecord(t), TRUE) /\ Return(t, "ERR_OK")
        BY <1>1, <1>2, <1>8, <2>1 DEF InsertScopeFont, ConfigMoves
    <2>2. CASE /\ InsertScopeFontRecord(ScopeRecord(t), FALSE)
               /\ Move(t, "undo", [loc[t] EXCEPT !.ret = "ERR_SYSTEM_ERROR"])
        BY <1>1, <1>8, <2>2, Undoing DEF InsertScopeFont, ConfigMoves
    <2> QED
        BY <1>8, <2>1, <2>2 DEF InsertScopeFont
<1>9. CASE DeleteScopeFont(t)
    BY <1>1, <1>2, <1>9 DEF DeleteScopeFont, ConfigMoves
<1>10. CASE CleanRecord(t)
    BY <1>1, <1>10, GoingOn DEF CleanRecord, ConfigMoves
<1> QED
    BY <1>3, <1>4, <1>5, <1>6, <1>7, <1>8, <1>9, <1>10

Moving(t) == CallMoves(t) \/ ReadMoves(t) \/ FileMoves(t) \/ ConfigMoves(t)

(* Every step of the store but a crash is such a move of one thread.       *)
LEMMA NextMoves ==
    ASSUME TypeInv, Next
    PROVE  Crash \/ \E t \in Thread : Moving(t)
<1>1. ControlOK
    BY DEF TypeInv
<1>2. ASSUME NEW t \in Thread, Call(t) \/ Step(t) PROVE Moving(t)
    BY <1>1, <1>2, CallMove, ReadMove, FileMove, ConfigMove DEF Step, Moving
<1> QED
    BY <1>2 DEF Next

(* Of the directories to delete some files go, and all where no removal    *)
(* fails.                                                                  *)
LEMMA DirsGo ==
    ASSUME NEW D, DeleteDirs(D)
    PROVE  \E gone \in SUBSET FilesIn(D) :
                /\ files' = Without(gone)
                /\ "remove" \notin Fault => gone = FilesIn(D)
<1>1. PICK stay \in Undeletable(D) : \E kept \in SUBSET FilesIn(stay) :
            files' = Without(FilesIn(D) \ kept)
    BY DEF DeleteDirs
<1>2. PICK kept \in SUBSET FilesIn(stay) : files' = Without(FilesIn(D) \ kept)
    BY <1>1
<1>3. FilesIn(D) \ kept \in SUBSET FilesIn(D)
    OBVIOUS
<1>4. "remove" \notin Fault => kept = {}
    BY DEF Undeletable, FilesIn
<1> QED
    BY <1>2, <1>3, <1>4

-----------------------------------------------------------------------------
(* What the writes of the configuration do to the records.                 *)

Loses == fontlist' = <<>> /\ (configFile' # "valid" \/ version' = "7.0")
Rewrites(list, ver) ==
    configFile = "valid" /\ configFile' = "valid" /\ version' = ver /\ fontlist' = list
Gains(r) == Rewrites(Append(fontlist, r), version)
Drops(i) == i \in DOMAIN fontlist /\ Rewrites(RemoveAt(fontlist, i), version)
Refreshes ==
    /\ version # "7.0"
    /\ \E read \in Readable(files) : Rewrites(RefreshFullNames(read), "7.0")

(* A deletion takes the first match, if there is one and nothing fails.    *)
LEMMA DeletionOf ==
    ASSUME ConfigTypeOK, NEW I \in SUBSET DOMAIN fontlist, NEW ok \in BOOLEAN,
           DeleteFirst(I, ok)
    PROVE  \/ ~ok /\ UNCHANGED configVars /\ (I = {} \/ "write" \in Fault)
           \/ Truncated /\ "write" \in Fault
           \/ ok /\ I # {} /\ Min(I) \in I /\ Drops(Min(I))
<1>1. CASE I = {}
    BY <1>1 DEF DeleteFirst, Refuse
<1>2. CASE I # {}
    <2>1. DOMAIN fontlist \subseteq Nat
        BY DEF ConfigTypeOK
    <2>2. Min(I) \in I
        BY <1>2, <2>1, MinOfMatches
    <2>3. configFile = "valid"
        BY <1>2 DEF ConfigTypeOK
    <2>4. WriteToFile(RemoveAt(fontlist, Min(I)), version, ok)
        BY <1>2 DEF DeleteFirst
    <2> QED
        BY <1>2, <2>2, <2>3, <2>4 DEF WriteToFile, Drops, Rewrites
<1> QED
    BY <1>1, <1>2

(* The deletions by path and by srcPath.                                   *)
LEMMA PathDeletion ==
    ASSUME ConfigTypeOK, NEW p, NEW ok \in BOOLEAN, DeleteFontRecord(p, ok)
    PROVE  \/ ~ok /\ UNCHANGED configVars /\ (WithPath(p) = {} \/ "write" \in Fault)
           \/ Truncated /\ "write" \in Fault
           \/ \E i \in WithPath(p) : ok /\ i = Min(WithPath(p)) /\ Drops(i)
<1>1. WithPath(p) \in SUBSET DOMAIN fontlist
    BY DEF WithPath
<1> QED
    BY <1>1, DeletionOf DEF DeleteFontRecord

(* The deletion by srcPath drops the first record that has it.             *)
LEMMA UrlDeletion ==
    ASSUME ConfigTypeOK, NEW u, NEW ok \in BOOLEAN, DeleteScopeFontRecordByUrl(u, ok)
    PROVE  \/ ~ok /\ UNCHANGED configVars /\ (WithUrl(u) = {} \/ "write" \in Fault)
           \/ Truncated /\ "write" \in Fault
           \/ \E i \in WithUrl(u) : ok /\ i = Min(WithUrl(u)) /\ Drops(i)
<1>1. WithUrl(u) \in SUBSET DOMAIN fontlist
    BY DEF WithUrl
<1> QED
    BY <1>1, DeletionOf DEF DeleteScopeFontRecordByUrl

(* The insertions of user-level and of scope records.                      *)
LEMMA UserInsertion ==
    ASSUME NEW p, NEW names, NEW ret, InsertFontRecordIfUnderLimit(p, names, ret)
    PROVE  \/ UNCHANGED configVars /\ (ret = "ERR_OK" => WithPath(p) # {})
           \/ Truncated /\ "write" \in Fault
           \/ ret = "ERR_OK" /\ WithPath(p) = {} /\ Gains(UserRecord(p, names))
<1>1. CASE UNCHANGED configVars /\ (ret = "ERR_OK" => WithPath(p) # {})
    BY <1>1
<1>2. ASSUME Parses, WithPath(p) = {}, NEW ok \in BOOLEAN,
             WriteToFile(Append(fontlist, UserRecord(p, names)), version, ok),
             ret = IF ok THEN "ERR_OK" ELSE "ERR_INSTALL_FAIL"
      PROVE  \/ UNCHANGED configVars /\ (ret = "ERR_OK" => WithPath(p) # {})
             \/ Truncated /\ "write" \in Fault
             \/ ret = "ERR_OK" /\ WithPath(p) = {} /\ Gains(UserRecord(p, names))
    BY <1>2 DEF WriteToFile, Gains, Rewrites, Parses
<1> QED
    BY <1>1, <1>2 DEF InsertFontRecordIfUnderLimit

(* The insertion of a scope record checks nothing.                         *)
LEMMA ScopeInsertion ==
    ASSUME NEW r, NEW ok \in BOOLEAN, InsertScopeFontRecord(r, ok)
    PROVE  \/ ~ok /\ UNCHANGED configVars
           \/ Truncated /\ "write" \in Fault
           \/ ok /\ Gains(r)
BY DEF InsertScopeFontRecord, Refuse, WriteToFile, Gains, Rewrites, Parses

(* The update from an older version.                                       *)
Upgraded == configFile # "valid" \/ version = "7.0"
LEMMA UpdateOf ==
    ASSUME NEW ok \in BOOLEAN, CheckAndUpdateFontRecord(files, ok)
    PROVE  \/ UNCHANGED configVars /\ (ok => Upgraded)
           \/ Truncated /\ "write" \in Fault
           \/ ok /\ Refreshes
BY DEF CheckAndUpdateFontRecord, Refuse, WriteToFile, Refreshes, Rewrites, Parses, Upgraded

(* All that a step can do to the records, and who does it.                 *)
LEMMA RecordMove ==
    ASSUME TypeInv, NEW t \in Thread, Moving(t)
    PROVE  \/ UNCHANGED configVars
           \/ Loses /\ (configFile' = "valid" => pc[t] = "fill")
           \/ /\ pc[t] = "insert" /\ pc'[t] = "idle" /\ WithPath(loc[t].path) = {}
              /\ Gains(UserRecord(loc[t].path, NamesOf(loc[t].font)))
           \/ pc[t] = "insertScope" /\ pc'[t] = "idle" /\ Gains(ScopeRecord(t))
           \/ pc[t] \in {"heal", "delete"} /\ \E i \in WithPath(loc[t].path) : Drops(i)
           \/ pc[t] \in {"deleteScope", "deleteClean"} /\ \E i \in WithUrl(loc[t].url) : Drops(i)
           \/ pc[t] = "update" /\ Refreshes
<1>1. ConfigTypeOK
    BY DEF TypeInv
<1>3. CASE pc[t] \in {"heal", "delete"} /\ \E ok \in BOOLEAN : DeleteFontRecord(loc[t].path, ok)
    BY <1>1, <1>3, PathDeletion DEF Truncated, Loses
<1>4. CASE /\ pc[t] \in {"deleteScope", "deleteClean"}
           /\ \E ok \in BOOLEAN : DeleteScopeFontRecordByUrl(loc[t].url, ok)
    BY <1>1, <1>4, UrlDeletion DEF Truncated, Loses
<1>5. CASE pc[t] = "insert" /\ \E ret \in Code :
            /\ InsertFontRecordIfUnderLimit(loc[t].path, NamesOf(loc[t].font), ret)
            /\ ret = "ERR_OK" => pc'[t] = "idle"
    BY <1>5, UserInsertion DEF Truncated, Loses
<1>6. CASE pc[t] = "insertScope" /\ \E ok \in BOOLEAN :
            InsertScopeFontRecord(ScopeRecord(t), ok) /\ (ok => pc'[t] = "idle")
    BY <1>6, ScopeInsertion DEF Truncated, Loses
<1>7. CASE pc[t] = "update" /\ \E ok \in BOOLEAN : CheckAndUpdateFontRecord(files, ok)
    BY <1>7, UpdateOf DEF Truncated, Loses
<1>8. CASE ConfigMoves(t)
    <2>1. CASE pc[t] \in {"create", "fill"}
        <3>1. CreateFontConfig \/ (pc[t] = "fill" /\ FillFontConfig)
            BY <1>8, <2>1 DEF ConfigMoves
        <3> QED
            BY <3>1 DEF CreateFontConfig, FillFontConfig, Truncated, Loses
    <2>4. CASE pc[t] = "update"
        BY <1>7, <1>8, <2>4 DEF ConfigMoves
    <2>2. CASE pc[t] \in {"heal", "delete", "deleteScope", "deleteClean"}
        BY <1>3, <1>4, <1>8, <2>2 DEF ConfigMoves
    <2>3. CASE pc[t] \in {"insert", "insertScope"}
        BY <1>5, <1>6, <1>8, <2>3 DEF ConfigMoves, Ends, Goes
    <2> QED
        BY <1>8, <2>1, <2>2, <2>3, <2>4 DEF ConfigMoves
<1>9. CASE CallMoves(t) \/ ReadMoves(t) \/ FileMoves(t)
    BY <1>9 DEF CallMoves, ReadMoves, FileMoves
<1> QED
    BY <1>8, <1>9 DEF Moving

LEMMA RecordSteps ==
    ASSUME TypeInv, [Next]_vars
    PROVE  \/ UNCHANGED configVars
           \/ Loses
           \/ \E t \in Thread : /\ pc[t] = "insert" /\ WithPath(loc[t].path) = {}
                                /\ Gains(UserRecord(loc[t].path, NamesOf(loc[t].font)))
           \/ \E t \in Thread : pc[t] = "insertScope" /\ Gains(ScopeRecord(t))
           \/ \E t \in Thread : /\ pc[t] \in {"heal", "delete"}
                                /\ \E i \in WithPath(loc[t].path) : Drops(i)
           \/ \E t \in Thread : /\ pc[t] \in {"deleteScope", "deleteClean"}
                                /\ \E i \in WithUrl(loc[t].url) : Drops(i)
           \/ \E t \in Thread : pc[t] = "update" /\ Refreshes
<1>1. CASE UNCHANGED vars
    BY <1>1 DEF vars
<1>2. CASE Crash
    BY <1>2 DEF Crash, Truncated, Loses
<1>3. CASE \E t \in Thread : Moving(t)
    BY <1>3, RecordMove
<1> QED
    BY <1>1, <1>2, <1>3, NextMoves

(* The place that a record had before the deletion of the record at i.     *)
Old(i, j) == IF j < i THEN j ELSE j + 1

(* An insertion adds its record at the end.                                *)
LEMMA Gained ==
    ASSUME ConfigTypeOK, NEW r, Gains(r)
    PROVE  /\ \A j \in DOMAIN fontlist :
                j \in DOMAIN fontlist' /\ fontlist'[j] = fontlist[j] /\ j < Len(fontlist')
           /\ fontlist'[Len(fontlist')] = r /\ Len(fontlist') \in DOMAIN fontlist'
           /\ \A j \in DOMAIN fontlist' : j \in DOMAIN fontlist \/ j = Len(fontlist')
           /\ Records' = Records \cup {r}
<1> DEFINE n == Len(fontlist)
<1>1. fontlist \in Seq(FontRecordInfo) /\ n \in Nat /\ DOMAIN fontlist = 1 .. n
    BY DEF ConfigTypeOK
<1>2. /\ DOMAIN fontlist' = 1 .. n + 1 /\ Len(fontlist') = n + 1
      /\ \A i \in 1 .. n : fontlist'[i] = fontlist[i]
      /\ fontlist'[n + 1] = r
    BY <1>1 DEF Gains, Rewrites
<1> HIDE DEF n
<1>3. \A i \in 1 .. n + 1 : i \in 1 .. n \/ i = n + 1
    BY <1>1
<1>4. \A i \in 1 .. n : i \in 1 .. n + 1 /\ i < n + 1
    BY <1>1
<1>5. n + 1 \in 1 .. n + 1
    BY <1>1
<1> QED
    BY <1>1, <1>2, <1>3, <1>4, <1>5 DEF Records

(* A deletion keeps the other records in their order.                      *)
LEMMA Lost ==
    ASSUME ConfigTypeOK, NEW i, Drops(i)
    PROVE  /\ i \in Nat /\ DOMAIN fontlist \subseteq Nat /\ DOMAIN fontlist' \subseteq Nat
           /\ \A j \in DOMAIN fontlist' : /\ Old(i, j) \in DOMAIN fontlist \ {i}
                                          /\ fontlist'[j] = fontlist[Old(i, j)]
           /\ \A k \in DOMAIN fontlist \ {i} : \E j \in DOMAIN fontlist' : Old(i, j) = k
           /\ \A j, k \in DOMAIN fontlist' : /\ Old(i, j) = Old(i, k) => j = k
                                             /\ Old(i, j) <= Old(i, k) => j <= k
           /\ Records' \subseteq Records /\ fontlist[i] \in Records
           /\ Records \subseteq Records' \cup {fontlist[i]}
<1> DEFINE n == Len(fontlist)
<1>1. /\ fontlist \in Seq(FontRecordInfo) /\ n \in Nat /\ DOMAIN fontlist = 1 .. n
      /\ i \in 1 .. n /\ fontlist' = RemoveAt(fontlist, i)
    BY DEF ConfigTypeOK, Drops, Rewrites
<1>2. fontlist' \in Seq(FontRecordInfo) /\ Len(fontlist') = n - 1
    BY <1>1, RemoveAtType
<1>3. DOMAIN fontlist' = 1 .. n - 1
    BY <1>2
<1>4. \A j \in 1 .. n - 1 : fontlist'[j] = IF j < i THEN fontlist[j] ELSE fontlist[j + 1]
    BY <1>1, RemoveAtElements
<1> HIDE DEF n
<1>5. \A j \in 1 .. n - 1 : /\ Old(i, j) \in 1 .. n /\ Old(i, j) # i
                             /\ fontlist'[j] = fontlist[Old(i, j)]
    BY <1>1, <1>4 DEF Old
<1>6. \A k \in 1 .. n : k # i => \E j \in 1 .. n - 1 : Old(i, j) = k
    <2> SUFFICES ASSUME NEW k \in 1 .. n, k # i PROVE \E j \in 1 .. n - 1 : Old(i, j) = k
        OBVIOUS
    <2>1. CASE k < i
        <3>1. k \in 1 .. n - 1 /\ Old(i, k) = k
            BY <1>1, <2>1 DEF Old
        <3> QED
            BY <3>1
    <2>2. CASE ~ (k < i)
        <3>1. k - 1 \in 1 .. n - 1 /\ Old(i, k - 1) = k
            BY <1>1, <2>2 DEF Old
        <3> QED
            BY <3>1
    <2> QED
        BY <2>1, <2>2
<1>7. \A j, k \in 1 .. n - 1 : /\ Old(i, j) = Old(i, k) => j = k
                               /\ Old(i, j) <= Old(i, k) => j <= k
    BY <1>1 DEF Old
<1>8. \A r \in Records' : r \in Records
    BY <1>1, <1>3, <1>5 DEF Records
<1>9. \A r \in Records : r # fontlist[i] => r \in Records'
    <2> SUFFICES ASSUME NEW k \in 1 .. n, fontlist[k] # fontlist[i]
                 PROVE  fontlist[k] \in Records'
        BY <1>1 DEF Records
    <2>1. PICK j \in 1 .. n - 1 : Old(i, j) = k
        BY <1>6
    <2> QED
        BY <1>3, <1>5, <2>1 DEF Records
<1>10. fontlist[i] \in Records /\ 1 .. n \subseteq Nat /\ 1 .. n - 1 \subseteq Nat
    BY <1>1 DEF Records
<1> QED
    BY <1>1, <1>3, <1>5, <1>6, <1>7, <1>8, <1>9, <1>10

(* A refresh changes nothing of a record but its names.                    *)
LEMMA Refreshed ==
    ASSUME ConfigTypeOK, Refreshes
    PROVE  /\ DOMAIN fontlist' = DOMAIN fontlist
           /\ \A i \in DOMAIN fontlist :
                /\ fontlist'[i].path = fontlist[i].path /\ fontlist'[i].scope = fontlist[i].scope
                /\ fontlist'[i].srcPath = fontlist[i].srcPath
                /\ fontlist'[i].appId = fontlist[i].appId
                /\ LET real == SandBoxPathToRealPath(fontlist[i].path) IN
                   real \in DOMAIN files =>
                        \/ fontlist'[i].names = NamesOf(files[real])
                        \/ "read" \in Fault /\ fontlist'[i].names = {}
<1>1. \A i \in DOMAIN fontlist : fontlist[i] \in FontRecordInfo
    BY DEF ConfigTypeOK
<1>2. PICK read \in Readable(files) : fontlist' = RefreshFullNames(read)
    BY DEF Refreshes, Rewrites
<1>3. DOMAIN fontlist' = DOMAIN fontlist
    BY <1>2 DEF RefreshFullNames
<1>4. ASSUME NEW i \in DOMAIN fontlist
      PROVE  /\ fontlist'[i].path = fontlist[i].path /\ fontlist'[i].scope = fontlist[i].scope
             /\ fontlist'[i].srcPath = fontlist[i].srcPath
             /\ fontlist'[i].appId = fontlist[i].appId
             /\ LET real == SandBoxPathToRealPath(fontlist[i].path) IN
                real \in DOMAIN files =>
                    \/ fontlist'[i].names = NamesOf(files[real])
                    \/ "read" \in Fault /\ fontlist'[i].names = {}
    <2> DEFINE real == SandBoxPathToRealPath(fontlist[i].path)
               names == IF real \in DOMAIN read THEN NamesOf(read[real]) ELSE {}
    <2>1. fontlist'[i] = [fontlist[i] EXCEPT !.names = names]
        BY <1>2, <1>4 DEF RefreshFullNames
    <2>2. real \in DOMAIN files =>
            names = NamesOf(files[real]) \/ ("read" \in Fault /\ names = {})
        BY DEF Readable
    <2> HIDE DEF names
    <2>3. /\ fontlist'[i].path = fontlist[i].path /\ fontlist'[i].scope = fontlist[i].scope
          /\ fontlist'[i].srcPath = fontlist[i].srcPath
          /\ fontlist'[i].appId = fontlist[i].appId /\ fontlist'[i].names = names
        BY <1>1, <2>1 DEF FontRecordInfo
    <2> QED
        BY <2>2, <2>3
<1> QED
    BY <1>3, <1>4

-----------------------------------------------------------------------------
(* Scope records need a file of version "7.0".                             *)

(* What a step does to the other threads.                                  *)
LEMMA OthersStay ==
    ASSUME NEW t \in Thread, Moving(t), NEW s \in Thread \ {t}
    PROVE  pc'[s] = pc[s] /\ loc'[s] = loc[s]
BY DEF Moving, CallMoves, ReadMoves, FileMoves, ConfigMoves, StartsInstall, StartsUninstall,
       StartsScopeUninstall, StartsCleanup, Starts, Ends, Takes, Onward, GoesOn, Targets, Goes

(* A step moves one thread, or crashes all of them.                        *)
LEMMA StepOf ==
    ASSUME TypeInv, [Next]_vars, NEW t \in Thread
    PROVE  \/ pc'[t] = pc[t] /\ loc'[t] = loc[t]
           \/ Moving(t)
           \/ Crash /\ pc'[t] = "idle" /\ loc'[t] = Idle
<1>1. CASE UNCHANGED vars
    BY <1>1 DEF vars, control
<1>2. CASE Crash
    BY <1>2 DEF Crash
<1>3. ASSUME NEW s \in Thread, Moving(s), s # t
      PROVE  pc'[t] = pc[t] /\ loc'[t] = loc[t]
    BY <1>3, OthersStay
<1> QED
    BY <1>1, <1>2, <1>3, NextMoves

PastUpdate == {"url", "total", "names", "mkdir", "copyScope", "insertScope"}
VersionInv ==
    /\ ScopeOnlyInV7
    /\ \A t \in Thread : pc[t] \in PastUpdate => Upgraded

(* A file that is not of an older version does not become so again.        *)
LEMMA StaysUpgraded ==
    ASSUME TypeInv, [Next]_vars, Upgraded
    PROVE  Upgraded'
BY RecordSteps DEF Upgraded, Loses, Gains, Drops, Refreshes, Rewrites, configVars

(* The update comes before everything else of a scope installation.        *)
LEMMA PastUpdateStep ==
    ASSUME TypeInv, NEW t \in Thread, Moving(t), pc'[t] \in PastUpdate
    PROVE  \/ pc[t] \in PastUpdate
           \/ pc[t] = "update" /\ CheckAndUpdateFontRecord(files, TRUE)
<1> USE DEF PastUpdate
<1>1. CASE CallMoves(t)
    BY <1>1 DEF CallMoves, StartsInstall, StartsUninstall, StartsScopeUninstall,
       StartsCleanup, Starts, Ends, Goes
<1>2. CASE ReadMoves(t)
    BY <1>2 DEF ReadMoves, Onward, Ends, Takes, GoesOn, Targets, Goes
<1>3. CASE FileMoves(t)
    BY <1>3 DEF FileMoves, Ends, GoesOn, Targets, Goes
<1>4. CASE ConfigMoves(t)
    BY <1>4 DEF ConfigMoves, Ends, Takes, GoesOn, Targets, Goes, AfterInit
<1> QED
    BY <1>1, <1>2, <1>3, <1>4 DEF Moving

(* No scope record gets in before the version is 7.0: an installation      *)
(* inserts past its update only.                                           *)
LEMMA NextVersion ==
    ASSUME TypeInv, VersionInv, [Next]_vars
    PROVE  VersionInv'
<1>1. ASSUME NEW t \in Thread, pc'[t] \in PastUpdate PROVE Upgraded'
    <2>1. CASE pc[t] \in PastUpdate
        BY <2>1, StaysUpgraded DEF VersionInv
    <2>2. CASE pc[t] = "update" /\ CheckAndUpdateFontRecord(files, TRUE)
        BY <2>2, UpdateOf DEF Upgraded, Truncated, Refreshes, Rewrites, configVars
    <2>3. "idle" \notin PastUpdate
        BY DEF PastUpdate
    <2> QED
        BY <1>1, <2>1, <2>2, <2>3, StepOf, PastUpdateStep
<1>2. ConfigTypeOK
    BY DEF TypeInv
<1>3. ScopeOnlyInV7'
    <2>1. CASE UNCHANGED configVars
        BY <2>1 DEF VersionInv, ScopeOnlyInV7, GetScopeFontRecords, Records, configVars
    <2>2. CASE Loses
        BY <2>2 DEF Loses, ScopeOnlyInV7, GetScopeFontRecords, Records
    <2>3. CASE \E p, names : Gains(UserRecord(p, names))
        <3>1. PICK p, names : Gains(UserRecord(p, names))
            BY <2>3
        <3>2. Records' = Records \cup {UserRecord(p, names)} /\ version' = version
            BY <1>2, <3>1, Gained DEF Gains, Rewrites
        <3>3. UserRecord(p, names).scope = "none"
            BY DEF UserRecord
        <3> QED
            BY <3>2, <3>3 DEF VersionInv, ScopeOnlyInV7, GetScopeFontRecords
    <2>4. CASE \E t \in Thread : pc[t] = "insertScope" /\ Gains(ScopeRecord(t))
        <3>1. Upgraded
            BY <2>4 DEF VersionInv, PastUpdate
        <3> QED
            BY <2>4, <3>1 DEF Upgraded, Gains, Rewrites, ScopeOnlyInV7
    <2>5. CASE \E i : Drops(i)
        <3>1. Records' \subseteq Records /\ version' = version
            BY <1>2, <2>5, Lost DEF Drops, Rewrites
        <3> QED
            BY <3>1 DEF VersionInv, ScopeOnlyInV7, GetScopeFontRecords
    <2>6. CASE Refreshes
        BY <2>6 DEF Refreshes, Rewrites, ScopeOnlyInV7
    <2> QED
        BY <2>1, <2>2, <2>3, <2>4, <2>5, <2>6, RecordSteps
<1> QED
    BY <1>1, <1>3 DEF VersionInv

OldRecord(r) ==
    \E f \in Font : \E names \in SUBSET NamesOf(f) :
        r = UserRecord(OldPath(f), names) /\ files = [p \in {OldPath(f)} |-> f]

(* What is there at a start: at most the user-level font of an old store.  *)
LEMMA InitRecords ==
    ASSUME Init
    PROVE  /\ \A t \in Thread : pc[t] = "idle" /\ loc[t] = Idle
           /\ DOMAIN fontlist \subseteq {1}
           /\ \A i \in DOMAIN fontlist : "old" \in InitialFile /\ OldRecord(fontlist[i])
<1>1. \A t \in Thread : pc[t] = "idle" /\ loc[t] = Idle
    BY DEF Init
<1>2. CASE fontlist = <<>>
    BY <1>1, <1>2
<1>3. ASSUME "old" \in InitialFile, NEW f \in Font, NEW names \in SUBSET NamesOf(f),
             fontlist = <<UserRecord(OldPath(f), names)>>, files = [p \in {OldPath(f)} |-> f]
      PROVE  /\ DOMAIN fontlist \subseteq {1}
             /\ \A i \in DOMAIN fontlist : OldRecord(fontlist[i])
    <2>1. DOMAIN fontlist = {1} /\ fontlist[1] = UserRecord(OldPath(f), names)
        BY <1>3
    <2>2. OldRecord(UserRecord(OldPath(f), names))
        BY <1>3 DEF OldRecord
    <2> QED
        BY <2>1, <2>2
<1> QED
    BY <1>1, <1>2, <1>3 DEF Init, InitStore

(* At first there is no scope record and no call.                          *)
LEMMA InitVersion ==
    ASSUME Init
    PROVE  VersionInv
<1>1. \A r \in Records : r.scope = "none"
    <2>1. ASSUME NEW i \in DOMAIN fontlist PROVE fontlist[i].scope = "none"
        <3>1. OldRecord(fontlist[i])
            BY InitRecords
        <3>2. PICK f \in Font : \E names \in SUBSET NamesOf(f) :
                fontlist[i] = UserRecord(OldPath(f), names)
            BY <3>1 DEF OldRecord
        <3> QED
            BY <3>2 DEF UserRecord
    <2> QED
        BY <2>1 DEF Records
<1> QED
    BY <1>1, InitRecords DEF VersionInv, ScopeOnlyInV7, GetScopeFontRecords, PastUpdate

LEMMA VersionInvariant == Spec => [](TypeInv /\ VersionInv)
BY TypeInvariant, InitVersion, NextVersion, PTL DEF Spec

(* Whatever the interleaving, the faults and the crashes, the refresh of a *)
(* file of an older version (CheckAndUpdateFontRecord), which looks for    *)
(* every file directly under the install path, never meets a scope record. *)
THEOREM ScopeRecordsAreNew == Spec => []ScopeOnlyInV7
<1>1. VersionInv => ScopeOnlyInV7
    BY DEF VersionInv
<1> QED
    BY <1>1, VersionInvariant, PTL

-----------------------------------------------------------------------------
(* Where the fonts are: a record has the directory, the scope and the kind *)
(* of srcPath that go with its application, and so has every operation.    *)

RecordOK(r) ==
    /\ r.appId = r.path.dir /\ r.scope = r.appId.scope
    /\ (r.srcPath = NoUrl <=> r.appId = Root)

UserLabel == {"find", "probe", "heal", "count", "copy", "insert"}
ScopeLabel == PastUpdate \cup {"update"}

Sited(label, l) ==
    /\ label \in UserLabel => l.id = Root
    /\ label \in ScopeLabel => l.id \in AppId /\ l.url \in Url
    /\ label \in {"create", "fill"} =>
        \/ l.op = "InstallFont" /\ l.id = Root
        \/ l.op = "InstallScopeFont" /\ l.id \in AppId /\ l.url \in Url
    /\ label \in {"insert", "insertScope"} => l.path.dir = l.id
    /\ label \in {"remove", "delete"} => l.path.dir = Root
    /\ label \in {"removeScope", "deleteScope"} =>
        l.path.dir = l.id /\ l.id \in AppId /\ l.url \in Url
    /\ label \in {"clean", "deleteClean"} => \A r \in l.todo : RecordOK(r) /\ r.appId \in AppId
    /\ label = "deleteClean" => l.path.dir \in AppId /\ l.url \in Url

SiteInv ==
    /\ \A r \in Records : RecordOK(r)
    /\ \A t \in Thread : Sited(pc[t], loc[t])

(* The install path itself is of no application.                           *)
LEMMA Sites ==
    /\ Root \notin AppId /\ Root.scope = "none"
    /\ \A id \in AppId : id \in Dir /\ id.scope \in {"app", "session"}
    /\ \A id \in Dir : id \in AppId \/ id = Root
    /\ NoUrl \notin Url
BY FontConfigAssumption DEF Root, MakeAppIdentifier, AppId, Dir

(* What the getters find matches.                                          *)
LEMMA FoundByName ==
    ASSUME ConfigTypeOK, NEW n, HasName(n)
    PROVE  GetFontRecordByName(n) \in Records /\ GetFontRecordByName(n) \in FontRecordInfo
           /\ n \in GetFontRecordByName(n).names
<1>1. WithName(n) \subseteq DOMAIN fontlist /\ WithName(n) # {} /\ DOMAIN fontlist \subseteq Nat
    BY DEF WithName, HasName, ConfigTypeOK
<1>2. Min(WithName(n)) \in WithName(n)
    BY <1>1, MinOfMatches
<1>3. GetFontRecordByName(n) \in Records /\ GetFontRecordByName(n) \in FontRecordInfo
    BY <1>1, FirstIsRecord DEF GetFontRecordByName
<1> QED
    BY <1>2, <1>3 DEF WithName, GetFontRecordByName, First

(* The same of the getter by srcPath.                                      *)
LEMMA FoundByUrl ==
    ASSUME ConfigTypeOK, NEW u, HasUrl(u)
    PROVE  GetFontRecordByUrl(u) \in Records /\ GetFontRecordByUrl(u) \in FontRecordInfo
           /\ GetFontRecordByUrl(u).srcPath = u
<1>1. WithUrl(u) \subseteq DOMAIN fontlist /\ WithUrl(u) # {} /\ DOMAIN fontlist \subseteq Nat
    BY DEF WithUrl, HasUrl, ConfigTypeOK
<1>2. Min(WithUrl(u)) \in WithUrl(u)
    BY <1>1, MinOfMatches
<1>3. GetFontRecordByUrl(u) \in Records /\ GetFontRecordByUrl(u) \in FontRecordInfo
    BY <1>1, FirstIsRecord DEF GetFontRecordByUrl
<1> QED
    BY <1>2, <1>3 DEF WithUrl, GetFontRecordByUrl, First

(* The snapshot of a cleanup holds scope records only.                     *)
LEMMA ScopeSnapshot ==
    ASSUME NEW op \in UserCleanup \cup {"CleanupAppScopeFonts"}, NEW id
    PROVE  Snapshot(op, id) \subseteq {r \in Records : r.scope # "none"}
BY DEF Snapshot, UserCleanup, GetFontRecordsByAppId, GetScopeFontRecords, GetAppScopeFontRecords

(* The fields of a record have their types.                                *)
LEMMA RecordTypes ==
    ASSUME ConfigTypeOK
    PROVE  \A r \in Records : /\ r \in FontRecordInfo /\ r.appId \in Dir /\ r.path \in Path
                              /\ r.srcPath \in SrcPath /\ r.scope \in Scope
                              /\ r.names \in SUBSET Name
BY FoundRecords DEF FontRecordInfo

(* What a call takes from its arguments and from the records is sited.     *)
LEMMA SitedCall ==
    ASSUME TypeInv, SiteInv, NEW t \in Thread, CallMoves(t)
    PROVE  Sited(pc'[t], loc'[t])
<1> USE DEF Sited, UserLabel, ScopeLabel, PastUpdate
<1>1. ConfigTypeOK
    BY DEF TypeInv
<1>2. CASE Ends(t)
    BY <1>2 DEF Ends, Goes
<1>3. CASE StartsInstall(t)
    BY <1>3, Sites DEF StartsInstall, Starts, Goes
<1>4. CASE StartsUninstall(t)
    <2>1. PICK n \in Name : LET r == GetFontRecordByName(n) IN
            /\ HasName(n) /\ r.scope = "none"
            /\ Starts(t, "remove", "UninstallFont", NoFont, NoUrl, Root, r.path, {})
        BY <1>4 DEF StartsUninstall
    <2> DEFINE r == GetFontRecordByName(n)
    <2>2. r \in Records
        BY <1>1, <2>1, FoundByName
    <2> HIDE DEF r
    <2>3. r.path.dir = Root
        BY <1>1, <2>1, <2>2, RecordTypes, Sites DEF SiteInv, RecordOK, r
    <2> QED
        BY <2>1, <2>3 DEF Starts, Goes, r
<1>5. CASE StartsScopeUninstall(t)
    <2>1. PICK u \in Url, token \in Token : LET r == GetFontRecordByUrl(u) IN
            /\ HasUrl(u) /\ r.appId.token = token /\ r.appId.scope = r.scope
            /\ Starts(t, "removeScope", "UninstallScopeFont", NoFont, u, r.appId, r.path, {})
        BY <1>5 DEF StartsScopeUninstall
    <2> DEFINE r == GetFontRecordByUrl(u)
    <2>2. r \in Records /\ r.srcPath = u
        BY <1>1, <2>1, FoundByUrl
    <2> HIDE DEF r
    <2>3. r.path.dir = r.appId /\ r.appId \in AppId
        BY <1>1, <2>2, RecordTypes, Sites DEF SiteInv, RecordOK
    <2> QED
        BY <2>1, <2>3 DEF Starts, Goes, r
<1>6. CASE StartsCleanup(t)
    <2>1. PICK op \in UserCleanup \cup {"CleanupAppScopeFonts"}, id \in Dir :
            Starts(t, "clean", op, NoFont, NoUrl, id, NoPath, Snapshot(op, id))
        BY <1>6 DEF StartsCleanup
    <2>2. pc'[t] = "clean" /\ loc'[t].todo = Snapshot(op, id)
        BY <2>1 DEF Starts, Goes
    <2>3. \A r \in Snapshot(op, id) : RecordOK(r) /\ r.appId \in AppId
        BY <1>1, ScopeSnapshot, RecordTypes, Sites DEF SiteInv, RecordOK
    <2> QED
        BY <2>2, <2>3
<1> QED
    BY <1>2, <1>3, <1>4, <1>5, <1>6 DEF CallMoves

(* It stays so as the call goes on, since it turns to paths of records     *)
(* or to new copies only.                                                  *)
LEMMA SitedMove ==
    ASSUME TypeInv, SiteInv, NEW t \in Thread, Moving(t)
    PROVE  Sited(pc'[t], loc'[t])
<1> USE DEF Sited, UserLabel, ScopeLabel, PastUpdate
<1>1. Sited(pc[t], loc[t])
    BY DEF SiteInv
<1>2. CASE ReadMoves(t)
    BY <1>1, <1>2 DEF ReadMoves, Onward, Ends, Takes, GoesOn, Targets, SameCall, Goes
<1>3. CASE ConfigMoves(t)
    BY <1>1, <1>3, Sites DEF ConfigMoves, Ends, Takes, GoesOn, Targets, SameCall, Goes, AfterInit
<1>4. CASE FileMoves(t)
    <2>1. CASE pc'[t] \in {"insert", "insertScope"}
        <3>1. \A k : DestPath(t, k).dir = loc[t].id
            BY DEF DestPath
        <3> QED
            BY <1>1, <1>4, <2>1, <3>1 DEF FileMoves, Ends, GoesOn, Targets, SameCall, Goes
    <2>2. CASE pc'[t] = "deleteClean"
        <3>1. loc[t].todo \subseteq FontRecordInfo
            BY LocalType
        <3>2. pc[t] = "clean" /\ \E r \in loc[t].todo :
                /\ loc'[t].path = r.path /\ loc'[t].url = r.srcPath
                /\ loc'[t].todo = loc[t].todo \ {r}
            BY <1>4, <2>2 DEF FileMoves, Ends, GoesOn, Targets, Goes
        <3>3. \A r \in FontRecordInfo : r.srcPath \in SrcPath
            BY DEF FontRecordInfo
        <3> QED
            BY <1>1, <2>2, <3>1, <3>2, <3>3, Sites DEF RecordOK, SrcPath
    <2>3. CASE pc'[t] \notin {"insert", "insertScope", "deleteClean"}
        BY <1>1, <1>4, <2>3 DEF FileMoves, Ends, GoesOn, Targets, SameCall, Goes
    <2> QED
        BY <2>1, <2>2, <2>3
<1> QED
    BY <1>2, <1>3, <1>4, SitedCall DEF Moving

(* The records inserted are sited, and the refresh changes names only.     *)
LEMMA SitedRecords ==
    ASSUME TypeInv, SiteInv, [Next]_vars
    PROVE  \A r \in Records' : RecordOK(r)
<1>1. ConfigTypeOK /\ \A r \in Records : RecordOK(r)
    BY DEF TypeInv, SiteInv
<1>2. CASE UNCHANGED configVars \/ Loses
    BY <1>1, <1>2 DEF Loses, Records, configVars
<1>3. ASSUME NEW r, Gains(r), RecordOK(r) PROVE \A s \in Records' : RecordOK(s)
    BY <1>1, <1>3, Gained
<1>4. ASSUME NEW t \in Thread, pc[t] = "insert", NEW names,
             Gains(UserRecord(loc[t].path, names))
      PROVE  \A r \in Records' : RecordOK(r)
    <2>1. loc[t].path.dir = Root
        BY <1>4 DEF SiteInv, Sited, UserLabel
    <2>2. RecordOK(UserRecord(loc[t].path, names))
        BY <2>1, Sites DEF RecordOK, UserRecord
    <2> QED
        BY <1>3, <1>4, <2>2
<1>5. ASSUME NEW t \in Thread, pc[t] = "insertScope", Gains(ScopeRecord(t))
      PROVE  \A r \in Records' : RecordOK(r)
    <2>1. loc[t].path.dir = loc[t].id /\ loc[t].id \in AppId /\ loc[t].url \in Url
        BY <1>5 DEF SiteInv, Sited, ScopeLabel, PastUpdate
    <2>2. RecordOK(ScopeRecord(t))
        BY <2>1, Sites DEF RecordOK, ScopeRecord
    <2> QED
        BY <1>3, <1>5, <2>2
<1>6. CASE \E i : Drops(i)
    BY <1>1, <1>6, Lost
<1>7. CASE Refreshes
    BY <1>1, <1>7, Refreshed DEF RecordOK, Records
<1> QED
    BY <1>2, <1>4, <1>5, <1>6, <1>7, RecordSteps

(* SiteInv is inductive.                                                   *)
LEMMA NextSites ==
    ASSUME TypeInv, SiteInv, [Next]_vars
    PROVE  SiteInv'
<1>1. ASSUME NEW t \in Thread PROVE Sited(pc'[t], loc'[t])
    <2>1. Sited("idle", Idle) /\ Sited(pc[t], loc[t])
        BY DEF Sited, UserLabel, ScopeLabel, PastUpdate, SiteInv
    <2> QED
        BY <2>1, StepOf, SitedMove
<1> QED
    BY <1>1, SitedRecords DEF SiteInv, Sited, RecordOK

(* At first the only record can be one of an older release, at user        *)
(* level.                                                                  *)
LEMMA InitSites ==
    ASSUME Init
    PROVE  SiteInv
<1>1. ASSUME NEW i \in DOMAIN fontlist PROVE RecordOK(fontlist[i])
    <2>1. OldRecord(fontlist[i])
        BY InitRecords
    <2>2. PICK f \in Font : \E names \in SUBSET NamesOf(f) :
            fontlist[i] = UserRecord(OldPath(f), names)
        BY <2>1 DEF OldRecord
    <2>3. OldPath(f).dir = Root
        BY DEF OldPath
    <2> QED
        BY <2>2, <2>3, Sites DEF UserRecord, RecordOK
<1>2. \A t \in Thread : Sited(pc[t], loc[t])
    BY InitRecords DEF Sited, UserLabel, ScopeLabel, PastUpdate
<1> QED
    BY <1>1, <1>2 DEF SiteInv, Records

LEMMA SiteInvariant == Spec => [](TypeInv /\ SiteInv)
BY TypeInvariant, InitSites, NextSites, PTL DEF Spec

(* An insertion at user level checks that its path is new; scope records   *)
(* lie in other directories.                                               *)
LEMMA NextUserPaths ==
    ASSUME TypeInv, SiteInv, UniqueUserPaths, [Next]_vars
    PROVE  UniqueUserPaths'
<1>1. ConfigTypeOK
    BY DEF TypeInv
<1>2. CASE UNCHANGED configVars \/ Loses
    BY <1>2 DEF Loses, UniqueUserPaths, configVars
<1>3. ASSUME NEW r, Gains(r),
             \A i \in DOMAIN fontlist : fontlist[i].path = r.path
                => fontlist[i].scope # "none" /\ r.scope # "none"
      PROVE  UniqueUserPaths'
    BY <1>1, <1>3, Gained DEF UniqueUserPaths
<1>4. ASSUME NEW t \in Thread, WithPath(loc[t].path) = {}, NEW names,
             Gains(UserRecord(loc[t].path, names))
      PROVE  UniqueUserPaths'
    <2>1. UserRecord(loc[t].path, names).path = loc[t].path
        BY DEF UserRecord
    <2>2. \A i \in DOMAIN fontlist : fontlist[i].path # loc[t].path
        BY <1>4 DEF WithPath
    <2> QED
        BY <1>3, <1>4, <2>1, <2>2
<1>5. ASSUME NEW t \in Thread, pc[t] = "insertScope", Gains(ScopeRecord(t))
      PROVE  UniqueUserPaths'
    <2>1. loc[t].path.dir = loc[t].id /\ loc[t].id \in AppId
        BY <1>5 DEF SiteInv, Sited, ScopeLabel, PastUpdate
    <2>2. ScopeRecord(t).path = loc[t].path /\ ScopeRecord(t).scope = loc[t].id.scope
        BY DEF ScopeRecord
    <2>3. \A i \in DOMAIN fontlist : fontlist[i] \in Records
        BY DEF Records
    <2>4. \A i \in DOMAIN fontlist : fontlist[i].path = loc[t].path => fontlist[i].scope # "none"
        BY <2>1, <2>3, Sites DEF SiteInv, RecordOK
    <2> QED
        BY <1>3, <1>5, <2>1, <2>2, <2>4, Sites
<1>6. CASE \E i : Drops(i)
    <2>1. PICK i : Drops(i)
        BY <1>6
    <2> QED
        BY <1>1, <2>1, Lost DEF UniqueUserPaths
<1>7. CASE Refreshes
    BY <1>1, <1>7, Refreshed DEF UniqueUserPaths
<1> QED
    BY <1>2, <1>4, <1>5, <1>6, <1>7, RecordSteps

(* Two threads may give one path to two copies made within one second, and *)
(* yet no two user-level records ever name one file: the check under the   *)
(* lock of InsertFontRecordIfUnderLimit, and the directories of the scope  *)
(* fonts, see to it in every interleaving and after every fault.           *)
THEOREM UserPathsAreUnique == Spec => []UniqueUserPaths
<1>1. ASSUME Init PROVE UniqueUserPaths
    BY <1>1, InitRecords DEF UniqueUserPaths
<1> QED
    BY <1>1, NextUserPaths, SiteInvariant, PTL DEF Spec

(* UninstallFont never takes a scope font away, although scope fonts share *)
(* the configuration and may have the name that it is given:               *)
(* between the lookup of the name and the deletion of the record anything  *)
(* may happen, but the path that UninstallFont remembers stays one of a    *)
(* user-level font.                                                        *)
THEOREM ScopeRecordsSurvive == Spec => UserUninstallKeepsScope
<1> DEFINE A == \A t \in Thread :
        pc[t] = "delete" /\ pc'[t] # pc[t] /\ configFile' = "valid"
        => GetScopeFontRecords' = GetScopeFontRecords
<1>1. ASSUME TypeInv, SiteInv, Next PROVE A
    <2> SUFFICES ASSUME NEW t \in Thread, pc[t] = "delete", pc'[t] # pc[t],
                        configFile' = "valid"
                 PROVE  GetScopeFontRecords' = GetScopeFontRecords
        OBVIOUS
    <2>1. ConfigTypeOK
        BY <1>1 DEF TypeInv
    <2>2. CASE UNCHANGED configVars
        BY <2>2 DEF GetScopeFontRecords, Records, configVars
    <2>3. CASE Crash
        BY <2>2, <2>3 DEF Crash, Truncated
    <2>4. CASE Moving(t)
        <3>1. PICK ok \in BOOLEAN : DeleteFontRecord(loc[t].path, ok)
            BY <2>4 DEF Moving, CallMoves, ReadMoves, FileMoves, ConfigMoves, Onward
        <3>2. UNCHANGED configVars \/ Truncated \/ \E i \in WithPath(loc[t].path) : Drops(i)
            BY <2>1, <3>1, PathDeletion
        <3>3. ASSUME NEW i \in WithPath(loc[t].path), Drops(i)
              PROVE  GetScopeFontRecords' = GetScopeFontRecords
            <4>1. Records' \subseteq Records /\ fontlist[i] \in Records
                  /\ Records \subseteq Records' \cup {fontlist[i]}
                BY <2>1, <3>3, Lost
            <4>2. fontlist[i].path.dir = Root
                BY <1>1 DEF SiteInv, Sited, WithPath
            <4>3. fontlist[i].scope = "none"
                BY <1>1, <4>1, <4>2, Sites DEF SiteInv, RecordOK
            <4> QED
                BY <4>1, <4>3 DEF GetScopeFontRecords
        <3> QED
            BY <2>2, <3>2, <3>3 DEF Truncated
    <2> QED
        BY <1>1, <2>3, <2>4, StepOf
<1>2. ASSUME TypeInv, SiteInv, [Next]_vars PROVE [A]_vars
    BY <1>1, <1>2
<1>3. Spec => [][A]_vars
    BY <1>2, SiteInvariant, PTL DEF Spec
<1> QED
    BY <1>3 DEF UserUninstallKeepsScope

-----------------------------------------------------------------------------
(* A path and a srcPath stand for one record, even where two copies of one *)
(* thread take one path.                                                   *)

(* From the check of its srcPath to its insertion a font stays new.        *)
NewUrl == {"total", "names", "mkdir", "copyScope", "insertScope"}

(* Between check and insertion the call leaves the configuration alone.    *)
LEMMA NewUrlMove ==
    ASSUME NEW t \in Thread, Moving(t), pc'[t] \in NewUrl
    PROVE  /\ UNCHANGED configVars /\ loc'[t].url = loc[t].url
           /\ pc[t] \in NewUrl \/ ~HasUrl(loc[t].url)
<1> USE DEF NewUrl
<1>1. CASE CallMoves(t)
    BY <1>1 DEF CallMoves, StartsInstall, StartsUninstall, StartsScopeUninstall,
       StartsCleanup, Starts, Ends, Goes
<1>2. CASE ReadMoves(t)
    BY <1>2 DEF ReadMoves, Onward, Ends, Takes, GoesOn, Targets, SameCall, Goes
<1>3. CASE FileMoves(t)
    BY <1>3 DEF FileMoves, Ends, GoesOn, Targets, SameCall, Goes
<1>4. CASE ConfigMoves(t)
    BY <1>4 DEF ConfigMoves, Ends, Takes, GoesOn, Targets, Goes, AfterInit
<1> QED
    BY <1>1, <1>2, <1>3, <1>4 DEF Moving

UniqueKeys ==
    \A i, j \in DOMAIN fontlist :
        fontlist[i].path = fontlist[j].path /\ fontlist[i].srcPath = fontlist[j].srcPath => i = j

(* A thread inserts its own copies, and checks the srcPath against them.   *)
KeyInv ==
    /\ UniqueKeys
    /\ \A t \in Thread :
        /\ pc[t] \in {"insert", "insertScope"} => loc[t].path.thread = t
        /\ pc[t] \in NewUrl => \A r \in Records : r.srcPath = loc[t].url => r.path.thread # t

LEMMA OneKey ==
    ASSUME UniqueKeys, NEW r \in Records, NEW s \in Records,
           r.path = s.path, r.srcPath = s.srcPath
    PROVE  r = s
BY DEF UniqueKeys, Records

(* The copy that is inserted has its thread in its path.                   *)
LEMMA CopiesMove ==
    ASSUME NEW t \in Thread, Moving(t), pc'[t] \in {"insert", "insertScope"}
    PROVE  loc'[t].path.thread = t
<1>1. CASE FileMoves(t)
    <2>1. PICK k : loc'[t].path = DestPath(t, k)
        BY <1>1 DEF FileMoves, Ends, GoesOn, Targets, Goes
    <2> QED
        BY <2>1 DEF DestPath
<1>2. ~CallMoves(t)
    BY DEF CallMoves, StartsInstall, StartsUninstall, StartsScopeUninstall, StartsCleanup,
           Starts, Ends, Goes
<1>3. ~ReadMoves(t)
    BY DEF ReadMoves, Onward, Ends, Takes, GoesOn, Targets, Goes
<1>4. ~ConfigMoves(t)
    BY DEF ConfigMoves, Ends, Takes, GoesOn, Targets, Goes, AfterInit
<1> QED
    BY <1>1, <1>2, <1>3, <1>4 DEF Moving

(* What is inserted has a new key.                                         *)
LEMMA NewKey ==
    ASSUME KeyInv, NEW t \in Thread, NEW r
    PROVE  /\ pc[t] = "insert" /\ WithPath(loc[t].path) = {}
              /\ r = UserRecord(loc[t].path, NamesOf(loc[t].font))
              => r.path.thread = t /\ \A q \in Records : q.path # r.path
           /\ pc[t] = "insertScope" /\ r = ScopeRecord(t)
              => r.path.thread = t /\ \A q \in Records :
                                          q.srcPath = r.srcPath => q.path # r.path
BY DEF KeyInv, NewUrl, WithPath, Records, UserRecord, ScopeRecord

(* A step keeps the keys of the records, but for what it inserts.          *)
LEMMA KeysMove ==
    ASSUME TypeInv, KeyInv, NEW t \in Thread, Moving(t)
    PROVE  /\ UniqueKeys'
           /\ \A r \in Records' :
                \/ \E q \in Records : q.path = r.path /\ q.srcPath = r.srcPath
                \/ r.path.thread = t
<1>1. ConfigTypeOK /\ UniqueKeys
    BY DEF TypeInv, KeyInv
<1>2. CASE UNCHANGED configVars \/ Loses
    BY <1>1, <1>2 DEF Loses, UniqueKeys, Records, configVars
<1>3. CASE \E i : Drops(i)
    BY <1>1, <1>3, Lost DEF UniqueKeys
<1>4. CASE Refreshes
    BY <1>1, <1>4, Refreshed DEF UniqueKeys, Records
<1>5. ASSUME NEW r, Gains(r), r.path.thread = t,
             \A q \in Records : q.srcPath = r.srcPath => q.path # r.path
      PROVE  /\ UniqueKeys'
             /\ \A s \in Records' : s \in Records \/ s.path.thread = t
    BY <1>1, <1>5, Gained DEF UniqueKeys, Records
<1> QED
    BY <1>2, <1>3, <1>4, <1>5, NewKey, RecordMove

(* KeyInv is inductive.                                                    *)
LEMMA NextKeys ==
    ASSUME TypeInv, KeyInv, [Next]_vars
    PROVE  KeyInv'
<1>1. CASE UNCHANGED vars
    BY <1>1 DEF vars, configVars, control, KeyInv, UniqueKeys, Records
<1>2. CASE Crash
    BY <1>2 DEF Crash, Truncated, KeyInv, UniqueKeys, NewUrl, configVars
<1>3. ASSUME NEW t \in Thread, Moving(t) PROVE KeyInv'
    <2>1. pc'[t] \in NewUrl => \A r \in Records' : r.srcPath = loc'[t].url => r.path.thread # t
        BY <1>3, NewUrlMove DEF KeyInv, HasUrl, WithUrl, Records, configVars
    <2>2. ASSUME NEW s \in Thread \ {t}, pc'[s] \in NewUrl,
                 NEW r \in Records', r.srcPath = loc'[s].url
          PROVE  r.path.thread # s
        BY <1>3, <2>2, KeysMove, OthersStay DEF KeyInv
    <2>3. ASSUME NEW s \in Thread, pc'[s] \in {"insert", "insertScope"}
          PROVE  loc'[s].path.thread = s
        BY <1>3, <2>3, CopiesMove, OthersStay DEF KeyInv
    <2> QED
        BY <1>3, <2>1, <2>2, <2>3, KeysMove DEF KeyInv
<1> QED
    BY <1>1, <1>2, <1>3, NextMoves

(* The refresh finds the file of every record, which is a user-level one.  *)
LEMMA RefreshedNames ==
    ASSUME TypeInv, SiteInv, VersionInv, Refreshes, NEW i \in DOMAIN fontlist
    PROVE  /\ i \in DOMAIN fontlist' /\ fontlist'[i].path = fontlist[i].path
           /\ fontlist'[i].srcPath = fontlist[i].srcPath
           /\ fontlist[i].scope = "none"
           /\ fontlist[i].path \in DOMAIN files =>
                \/ fontlist'[i].names = NamesOf(files[fontlist[i].path])
                \/ "read" \in Fault /\ fontlist'[i].names = {}
<1>1. ConfigTypeOK /\ fontlist[i] \in Records
    BY DEF TypeInv, Records
<1>2. fontlist[i].scope = "none"
    BY <1>1 DEF VersionInv, ScopeOnlyInV7, GetScopeFontRecords, Refreshes
<1>3. fontlist[i].path \in Path /\ fontlist[i].path.dir = Root
    BY <1>1, <1>2, RecordTypes, Sites DEF SiteInv, RecordOK
<1>4. SandBoxPathToRealPath(fontlist[i].path) = fontlist[i].path
    BY <1>3 DEF SandBoxPathToRealPath, Path
<1> QED
    BY <1>1, <1>2, <1>4, Refreshed

(* The refresh of an older store gives every record whose file is there    *)
(* the names of that file, or no name to a user-level record whose file    *)
(* cannot be read, and nothing else ever changes names, whatever runs,     *)
(* fails or crashes at the same time and even when copies take the paths   *)
(* of others.                                                              *)
THEOREM RefreshIsHarmless == Spec => RefreshKeepsNames
<1> DEFINE A == \A r \in Records, s \in Records' :
        /\ r.path = s.path /\ r.srcPath = s.srcPath
        /\ r.names # s.names /\ r.path \in DOMAIN files
        => \/ s.names = NamesOf(files[r.path])
           \/ "read" \in Fault /\ r.scope = "none" /\ s.names = {}
<1>1. ASSUME TypeInv, KeyInv, VersionInv, SiteInv, Next PROVE A
    <2> SUFFICES ASSUME NEW r \in Records, NEW s \in Records', r.path = s.path,
                        r.srcPath = s.srcPath, r.names # s.names, r.path \in DOMAIN files
                 PROVE  \/ s.names = NamesOf(files[r.path])
                        \/ "read" \in Fault /\ r.scope = "none" /\ s.names = {}
        OBVIOUS
    <2>1. ConfigTypeOK
        BY <1>1 DEF TypeInv
    <2>2. s \notin Records
        BY <1>1, OneKey DEF KeyInv
    <2>3. ~Crash
        BY <2>2 DEF Crash, Truncated, Records, configVars
    <2>4. PICK t \in Thread : Moving(t)
        BY <1>1, <2>3, NextMoves
    <2>5. CASE UNCHANGED configVars \/ Loses
        BY <2>2, <2>5 DEF Loses, Records, configVars
    <2>6. CASE \E i : Drops(i)
        BY <2>1, <2>2, <2>6, Lost
    <2>7. ASSUME NEW n, Gains(n), \A q \in Records : q.srcPath = n.srcPath => q.path # n.path
          PROVE  FALSE
        BY <2>1, <2>2, <2>7, Gained
    <2>8. CASE Refreshes
        <3>1. PICK i \in DOMAIN fontlist : /\ s = fontlist'[i] /\ fontlist[i].path = s.path
                                           /\ fontlist[i].srcPath = s.srcPath
            BY <2>1, <2>8, Refreshed DEF Records
        <3>2. fontlist[i] = r
            BY <1>1, <3>1, OneKey DEF KeyInv, Records
        <3> QED
            BY <1>1, <2>8, <3>1, <3>2, RefreshedNames
    <2> QED
        BY <1>1, <2>4, <2>5, <2>6, <2>7, <2>8, NewKey, RecordMove
<1>2. ASSUME TypeInv, KeyInv, VersionInv, SiteInv, [Next]_vars PROVE [A]_vars
    BY <1>1, <1>2
<1>3. Init => KeyInv
    BY InitRecords DEF KeyInv, UniqueKeys, NewUrl
<1>4. TypeInv /\ KeyInv /\ [Next]_vars => KeyInv'
    BY NextKeys
<1>5. Spec => [][A]_vars
    BY <1>2, <1>3, <1>4, SiteInvariant, VersionInvariant, PTL DEF Spec
<1> QED
    BY <1>5, PTL DEF RefreshKeepsNames

-----------------------------------------------------------------------------
(* Where no second comes back, a copy gets a path that nobody uses.        *)

UniquePaths ==
    \A i, j \in DOMAIN fontlist : fontlist[i].path = fontlist[j].path => i = j

Copied == {"insert", "insertScope", "undo"}
Claimed(t) == {r.path : r \in loc[t].todo} \cup {loc[t].path}

(* The path of a copy is of no record and of no other operation.           *)
FreshInv ==
    /\ UniquePaths
    /\ \A t \in Thread : pc[t] \in Copied =>
        /\ ~Listed(loc[t].path) /\ loc[t].path # NoPath
        /\ \A s \in Thread \ {t} : loc[t].path \notin Claimed(s)

(* Where tags do not come back, a new copy takes a path that nothing       *)
(* mentions.                                                               *)
LEMMA NewPath ==
    ASSUME ~RepeatTag, NEW t \in Thread, NEW k, TimeTag(t, k)
    PROVE  /\ DestPath(t, k) \notin DOMAIN files /\ ~Listed(DestPath(t, k))
           /\ \A s \in Thread : DestPath(t, k) \notin Claimed(s)
BY DEF TimeTag, Mentioned, Listed, Claimed

(* An operation turns to the paths of records and of its own new copies.   *)
LEMMA ClaimsMove ==
    ASSUME TypeInv, ~RepeatTag, NEW t \in Thread, Moving(t)
    PROVE  \A p \in Claimed(t)' :
            \/ p \in Claimed(t) \/ p = NoPath \/ Listed(p)
            \/ \A s \in Thread : p \notin Claimed(s)
<1>1. ConfigTypeOK
    BY DEF TypeInv
<1>2. CASE loc'[t].path \in Claimed(t) \cup {NoPath} /\ loc'[t].todo \subseteq loc[t].todo
    BY <1>2 DEF Claimed
<1>3. CASE loc'[t].todo = {} /\ \E r \in Records : loc'[t].path = r.path
    BY <1>3 DEF Claimed, Listed
<1>4. CASE loc'[t].todo \subseteq Records /\ loc'[t].path = NoPath
    BY <1>4 DEF Claimed, Listed
<1>5. CASE CallMoves(t)
    <2>1. CASE Ends(t) \/ StartsInstall(t)
        BY <1>2, <2>1 DEF Ends, StartsInstall, Starts
    <2>2. CASE StartsUninstall(t) \/ StartsScopeUninstall(t)
        BY <1>1, <1>3, <2>2, FoundByName, FoundByUrl
           DEF StartsUninstall, StartsScopeUninstall, Starts
    <2>3. CASE StartsCleanup(t)
        BY <1>4, <2>3, ScopeSnapshot DEF StartsCleanup, Starts
    <2> QED
        BY <1>5, <2>1, <2>2, <2>3 DEF CallMoves
<1>6. CASE ReadMoves(t)
    <2>1. CASE Targets(t, "probe", GetFontFileByName(FullName(t))) /\ HasName(FullName(t))
        <3>1. loc'[t].todo = loc[t].todo /\ Listed(loc'[t].path)
            BY <1>1, <2>1, FoundByName DEF Targets, SameCall, GetFontFileByName, Listed
        <3> QED
            BY <3>1 DEF Claimed
    <2>2. CASE ~ (Targets(t, "probe", GetFontFileByName(FullName(t))) /\ HasName(FullName(t)))
        BY <1>2, <1>6, <2>2
           DEF ReadMoves, Onward, Ends, Takes, GoesOn, Targets, SameCall, Claimed
    <2> QED
        BY <2>1, <2>2
<1>7. CASE FileMoves(t)
    <2>1. ASSUME NEW k \in Tag, TimeTag(t, k), Targets(t, pc'[t], DestPath(t, k))
          PROVE  \A p \in Claimed(t)' :
                    p \in Claimed(t) \/ \A s \in Thread : p \notin Claimed(s)
        BY <2>1, NewPath DEF Targets, SameCall, Claimed
    <2>2. CASE \E r \in loc[t].todo : loc'[t].path = r.path /\ loc'[t].todo = loc[t].todo \ {r}
        BY <1>2, <2>2 DEF Claimed
    <2>3. CASE Ends(t) \/ \E label : GoesOn(t, label)
        BY <1>2, <2>3 DEF Ends, GoesOn, Claimed
    <2> QED
        BY <1>7, <2>1, <2>2, <2>3 DEF FileMoves
<1>8. CASE ConfigMoves(t)
    BY <1>2, <1>8 DEF ConfigMoves, Ends, Takes, GoesOn, Targets, SameCall, Claimed
<1> QED
    BY <1>5, <1>6, <1>7, <1>8 DEF Moving

(* How a thread comes to a copy of its own.                                *)
LEMMA CopiedMove ==
    ASSUME TypeInv, NEW t \in Thread, Moving(t), pc'[t] \in Copied
    PROVE  \/ /\ pc[t] \in {"copy", "copyScope"} /\ UNCHANGED configVars
              /\ loc'[t].font = loc[t].font
              /\ \E k \in Tag : /\ TimeTag(t, k) /\ loc'[t].path = DestPath(t, k)
                                /\ files' = WithFile(DestPath(t, k), loc[t].font)
           \/ /\ pc[t] \in {"insert", "insertScope"} /\ pc'[t] = "undo"
              /\ loc'[t].path = loc[t].path /\ UNCHANGED files
              /\ UNCHANGED configVars \/ Truncated
<1> USE DEF Copied
<1>1. CASE CallMoves(t)
    BY <1>1 DEF CallMoves, StartsInstall, StartsUninstall, StartsScopeUninstall,
       StartsCleanup, Starts, Ends, Goes
<1>2. CASE ReadMoves(t)
    BY <1>2 DEF ReadMoves, Onward, Ends, Takes, GoesOn, Targets, Goes
<1>3. CASE FileMoves(t)
    BY <1>3 DEF FileMoves, Ends, GoesOn, Targets, SameCall, Goes
<1>4. CASE ConfigMoves(t)
    <2>1. CASE /\ pc[t] = "insert" /\ Targets(t, "undo", loc[t].path)
               /\ \E ret : /\ ret # "ERR_OK"
                           /\ InsertFontRecordIfUnderLimit(loc[t].path, NamesOf(loc[t].font), ret)
        BY <1>4, <2>1, UserInsertion DEF ConfigMoves, Targets, Goes
    <2>2. CASE /\ pc[t] = "insertScope" /\ Targets(t, "undo", loc[t].path)
               /\ InsertScopeFontRecord(ScopeRecord(t), FALSE)
        BY <1>4, <2>2, ScopeInsertion DEF ConfigMoves, Targets, Goes
    <2> QED
        BY <1>4, <2>1, <2>2 DEF ConfigMoves, Ends, Takes, GoesOn, Targets, Goes, AfterInit
<1> QED
    BY <1>1, <1>2, <1>3, <1>4 DEF Moving

(* The path of a copy is a path.                                           *)
LEMMA NewCopyPath ==
    ASSUME TypeInv, NEW t \in Thread, pc[t] \in {"copy", "copyScope"}, NEW k \in Tag
    PROVE  DestPath(t, k) \in Path
<1>1. loc[t].font \in Font /\ loc[t].id \in Dir
    BY LocalType DEF Ready
<1> QED
    BY <1>1 DEF DestPath, Path

(* A step lists no path but that of the font it inserts.                   *)
LEMMA ListedMove ==
    ASSUME TypeInv, NEW t \in Thread, Moving(t), NEW p, Listed(p)'
    PROVE  \/ Listed(p)
           \/ pc[t] \in {"insert", "insertScope"} /\ pc'[t] = "idle" /\ p = loc[t].path
<1>1. ConfigTypeOK
    BY DEF TypeInv
<1>2. CASE UNCHANGED configVars \/ Loses
    BY <1>2 DEF Loses, Listed, Records, configVars
<1>3. CASE \E i : Drops(i)
    BY <1>1, <1>3, Lost DEF Listed
<1>4. CASE Refreshes
    BY <1>1, <1>4, Refreshed DEF Listed, Records
<1>5. CASE /\ pc[t] \in {"insert", "insertScope"} /\ pc'[t] = "idle"
           /\ \E r : r.path = loc[t].path /\ Gains(r)
    BY <1>1, <1>5, Gained DEF Listed
<1>6. /\ \A names : UserRecord(loc[t].path, names).path = loc[t].path
      /\ ScopeRecord(t).path = loc[t].path
    BY DEF UserRecord, ScopeRecord
<1> QED
    BY <1>2, <1>3, <1>4, <1>5, <1>6, RecordMove

(* What an insertion adds has the path of its own new copy.                *)
LEMMA UniquePathsMove ==
    ASSUME TypeInv, FreshInv, NEW t \in Thread, Moving(t)
    PROVE  UniquePaths'
<1>1. ConfigTypeOK /\ UniquePaths
    BY DEF TypeInv, FreshInv
<1>2. CASE UNCHANGED configVars \/ Loses
    BY <1>1, <1>2 DEF Loses, UniquePaths, configVars
<1>3. ASSUME NEW i, Drops(i) PROVE UniquePaths'
    BY <1>1, <1>3, Lost DEF UniquePaths
<1>4. CASE Refreshes
    BY <1>1, <1>4, Refreshed DEF UniquePaths
<1>5. ASSUME NEW r, r.path = loc[t].path, Gains(r), pc[t] \in {"insert", "insertScope"}
      PROVE  UniquePaths'
    <2>1. \A i \in DOMAIN fontlist : fontlist[i].path # r.path
        BY <1>5 DEF FreshInv, Copied, Listed, Records
    <2> QED
        BY <1>1, <1>5, <2>1, Gained DEF UniquePaths
<1>6. /\ \A names : UserRecord(loc[t].path, names).path = loc[t].path
      /\ ScopeRecord(t).path = loc[t].path
    BY DEF UserRecord, ScopeRecord
<1> QED
    BY <1>2, <1>3, <1>4, <1>5, <1>6, RecordMove

(* FreshInv is inductive: no other operation can turn to the path of a     *)
(* copy, since no record has it.                                           *)
LEMMA NextFresh ==
    ASSUME TypeInv, FreshInv, ~RepeatTag, [Next]_vars
    PROVE  FreshInv'
<1>1. CASE UNCHANGED vars
    BY <1>1 DEF vars, configVars, control, FreshInv, UniquePaths, Listed, Records, Claimed
<1>2. CASE Crash
    BY <1>2 DEF Crash, Truncated, FreshInv, UniquePaths, Copied, configVars
<1>3. ASSUME NEW t \in Thread, Moving(t) PROVE FreshInv'
    <2>1. ASSUME NEW s \in Thread, pc'[s] \in Copied
          PROVE  /\ ~Listed(loc[s].path)' /\ loc'[s].path # NoPath
                 /\ \A u \in Thread \ {s} : loc'[s].path \notin Claimed(u)'
        <3>1. CASE s # t
            <4>1. pc'[s] = pc[s] /\ loc'[s] = loc[s]
                BY <1>3, <3>1, OthersStay
            <4>2. /\ ~Listed(loc[s].path) /\ loc[s].path # NoPath
                  /\ \A u \in Thread \ {s} : loc[s].path \notin Claimed(u)
                BY <2>1, <4>1 DEF FreshInv
            <4>3. loc[s].path # loc[t].path /\ loc[s].path \in Claimed(s)
                BY <3>1, <4>2 DEF Claimed
            <4>4. ~Listed(loc[s].path)'
                BY <1>3, <4>1, <4>2, <4>3, ListedMove
            <4>5. loc[s].path \notin Claimed(t)'
                BY <1>3, <3>1, <4>2, <4>3, ClaimsMove
            <4>6. \A u \in Thread \ {t} : Claimed(u)' = Claimed(u)
                BY <1>3, OthersStay DEF Claimed
            <4> QED
                BY <4>1, <4>2, <4>4, <4>5, <4>6
        <3>2. CASE s = t
            <4>1. \A u \in Thread \ {t} : Claimed(u)' = Claimed(u)
                BY <1>3, OthersStay DEF Claimed
            <4>2. CASE /\ pc[t] \in {"copy", "copyScope"} /\ UNCHANGED configVars
                       /\ \E k \in Tag : TimeTag(t, k) /\ loc'[t].path = DestPath(t, k)
                <5>1. PICK k \in Tag : TimeTag(t, k) /\ loc'[t].path = DestPath(t, k)
                    BY <4>2
                <5>2. ~Listed(loc[t].path)'
                    BY <4>2, <5>1, NewPath DEF Listed, Records, configVars
                <5>3. \A u \in Thread \ {t} : loc'[t].path \notin Claimed(u)
                    BY <5>1, NewPath
                <5>4. DestPath(t, k) \in Path
                    BY <4>2, NewCopyPath
                <5> QED
                    BY <3>2, <4>1, <5>1, <5>2, <5>3, <5>4, FontManagerAssumption
            <4>3. CASE /\ pc[t] \in Copied /\ loc'[t].path = loc[t].path
                       /\ UNCHANGED configVars \/ Truncated
                <5>1. ~Listed(loc[t].path)'
                    BY <4>3 DEF FreshInv, Listed, Records, Truncated, configVars
                <5> QED
                    BY <3>2, <4>1, <4>3, <5>1 DEF FreshInv
            <4> QED
                BY <1>3, <2>1, <3>2, <4>2, <4>3, CopiedMove DEF Copied
        <3> QED
            BY <3>1, <3>2
    <2> QED
        BY <1>3, <2>1, UniquePathsMove DEF FreshInv
<1> QED
    BY <1>1, <1>2, <1>3, NextMoves

LEMMA InitFresh ==
    ASSUME Init
    PROVE  FreshInv
BY InitRecords DEF FreshInv, UniquePaths, Copied

LEMMA FreshInvariant == ~RepeatTag => (Spec => [](TypeInv /\ FreshInv))
<1> SUFFICES ASSUME ~RepeatTag PROVE Spec => [](TypeInv /\ FreshInv)
    OBVIOUS
<1>1. Init => FreshInv
    BY InitFresh
<1>2. TypeInv /\ FreshInv /\ [Next]_vars => FreshInv'
    BY NextFresh
<1> QED
    BY <1>1, <1>2, TypeInvariant, PTL DEF Spec

(* A path stands for one record.                                           *)
LEMMA OneRecord ==
    ASSUME UniquePaths, NEW r \in Records, NEW s \in Records, r.path = s.path
    PROVE  r = s
BY DEF UniquePaths, Records

-----------------------------------------------------------------------------
(* Which operation a thread serves.                                        *)

Cleanups == UserCleanup \cup {"CleanupAppScopeFonts"}

Called(label, l) ==
    /\ label \in UserLabel => "InstallFont" \in Op
    /\ label \in ScopeLabel => "InstallScopeFont" \in Op
    /\ label \in {"create", "fill"} => l.op \in Op
    /\ label \in {"remove", "delete"} => "UninstallFont" \in Op
    /\ label \in {"removeScope", "deleteScope"} => "UninstallScopeFont" \in Op
    /\ label \in {"clean", "deleteClean"} =>
        /\ l.op \in Op /\ l.op \in Cleanups
        /\ l.op = "CleanupAppScopeFonts" => l.id \in AppId /\ l.id.scope = "app"

CallInv == \A t \in Thread : Called(pc[t], loc[t])

(* Each label keeps to the operations that reach it.                       *)
LEMMA CalledMove ==
    ASSUME SiteInv, CallInv, NEW t \in Thread, Moving(t)
    PROVE  Called(pc'[t], loc'[t])
<1> USE DEF Called, UserLabel, ScopeLabel, PastUpdate
<1>1. Called(pc[t], loc[t])
    BY DEF CallInv
<1>2. CASE CallMoves(t)
    <2>1. CASE Ends(t) \/ StartsInstall(t) \/ StartsUninstall(t) \/ StartsScopeUninstall(t)
        BY <2>1 DEF StartsInstall, StartsUninstall, StartsScopeUninstall, Starts, Ends, Goes
    <2>2. CASE StartsCleanup(t)
        BY <2>2, Sites DEF StartsCleanup, Starts, Goes, Cleanups
    <2> QED
        BY <1>2, <2>1, <2>2 DEF CallMoves
<1>3. CASE ReadMoves(t)
    BY <1>1, <1>3 DEF ReadMoves, Onward, Ends, Takes, GoesOn, Targets, SameCall, Goes
<1>4. CASE FileMoves(t)
    BY <1>1, <1>4 DEF FileMoves, Ends, GoesOn, Targets, SameCall, Goes
<1>5. CASE ConfigMoves(t)
    <2>1. pc[t] = "fill" => loc[t].op \in {"InstallFont", "InstallScopeFont"}
        BY DEF SiteInv, Sited
    <2> QED
        BY <1>1, <1>5, <2>1
           DEF ConfigMoves, Ends, Takes, GoesOn, Targets, SameCall, Goes, AfterInit
<1> QED
    BY <1>2, <1>3, <1>4, <1>5 DEF Moving

(* CallInv is inductive.                                                   *)
LEMMA NextCalls ==
    ASSUME TypeInv, SiteInv, CallInv, [Next]_vars
    PROVE  CallInv'
<1>1. ASSUME NEW t \in Thread PROVE Called(pc'[t], loc'[t])
    <2>1. Called("idle", Idle) /\ Called(pc[t], loc[t])
        BY DEF Called, UserLabel, ScopeLabel, PastUpdate, CallInv
    <2> QED
        BY <2>1, StepOf, CalledMove
<1> QED
    BY <1>1 DEF CallInv, Called

LEMMA CallInvariant == Spec => [](TypeInv /\ SiteInv /\ CallInv)
<1>1. ASSUME Init PROVE CallInv
    BY <1>1, InitRecords DEF CallInv, Called, UserLabel, ScopeLabel, PastUpdate
<1> QED
    BY <1>1, SiteInvariant, NextCalls, PTL DEF Spec

-----------------------------------------------------------------------------
(* Where only those cleanups run that delete no directories, a copy stays  *)
(* where it is until its record is inserted.                               *)

SparesDirs ==
    Op \cap {"CleanupAppScopeFonts", "CleanupAllScopeFontsOnBoot",
             "CleanupAppScopeFontsOnStart"} = {}

Held(t) == loc[t].path \in DOMAIN files /\ files[loc[t].path] = loc[t].font
HeldInv == \A t \in Thread : pc[t] \in {"insert", "insertScope"} => Held(t)

(* A step touches the files of its own operation only.                     *)
LEMMA FilesMove ==
    ASSUME CallInv, SparesDirs, ~RepeatTag, NEW t \in Thread, Moving(t),
           NEW p \in DOMAIN files, p # loc[t].path, pc[t] = "clean" => p \notin Claimed(t)
    PROVE  p \in DOMAIN files' /\ files'[p] = files[p]
<1>1. ASSUME NEW P, p \notin P, files' = Without(P)
      PROVE  p \in DOMAIN files' /\ files'[p] = files[p]
    BY <1>1 DEF Without
<1>2. ASSUME NEW q, q # p, NEW ok, RemoveFile(q, ok)
      PROVE  p \in DOMAIN files' /\ files'[p] = files[p]
    BY <1>1, <1>2 DEF RemoveFile
<1>3. CASE FileMoves(t)
    <2>1. ASSUME NEW k, TimeTag(t, k), files' = WithFile(DestPath(t, k), loc[t].font)
          PROVE  p \in DOMAIN files' /\ files'[p] = files[p]
        <3>1. DestPath(t, k) # p
            BY <2>1, NewPath
        <3> QED
            BY <2>1, <3>1 DEF WithFile
    <2>2. CASE \/ \E ok \in BOOLEAN : RemoveFile(loc[t].path, ok)
               \/ /\ pc[t] = "clean"
                  /\ \E r \in loc[t].todo : \E ok \in BOOLEAN : RemoveFile(r.path, ok)
        BY <1>2, <2>2 DEF Claimed
    <2>3. CASE files' = Without({loc[t].path})
        BY <1>1, <2>3
    <2>4. CASE pc[t] = "clean" /\ DeleteDirs(DirsAfter(loc[t].op, loc[t].id))
        <3>1. loc[t].op = "CleanupUserScopeFonts"
            BY <2>4 DEF CallInv, Called, SparesDirs, Cleanups, UserCleanup
        <3>2. p \notin FilesIn(DirsAfter(loc[t].op, loc[t].id))
            BY <3>1 DEF FilesIn, DirsAfter
        <3> QED
            BY <1>1, <2>4, <3>2, DirsGo
    <2> QED
        BY <1>3, <2>1, <2>2, <2>3, <2>4 DEF FileMoves
<1>4. CASE UNCHANGED files
    BY <1>4
<1> QED
    BY <1>3, <1>4 DEF Moving, CallMoves, ReadMoves, ConfigMoves

(* A copy stays where it is until its record is inserted.                  *)
LEMMA NextHeld ==
    ASSUME TypeInv, FreshInv, CallInv, HeldInv, SparesDirs, ~RepeatTag, [Next]_vars
    PROVE  HeldInv'
<1>1. CASE UNCHANGED vars
    BY <1>1 DEF vars, storage, control, HeldInv, Held
<1>2. CASE Crash
    BY <1>2 DEF Crash, HeldInv
<1>3. ASSUME NEW t \in Thread, Moving(t) PROVE HeldInv'
    <2>1. ASSUME NEW s \in Thread \ {t}, pc'[s] \in {"insert", "insertScope"}
          PROVE  Held(s)'
        <3>1. pc'[s] = pc[s] /\ loc'[s] = loc[s]
            BY <1>3, OthersStay
        <3>2. loc[s].path \notin Claimed(t) /\ loc[s].path # loc[t].path /\ Held(s)
            BY <2>1, <3>1 DEF FreshInv, Copied, Claimed, HeldInv
        <3> QED
            BY <1>3, <3>1, <3>2, FilesMove DEF Held
    <2>2. ASSUME pc'[t] \in {"insert", "insertScope"} PROVE Held(t)'
        <3>1. PICK k \in Tag : /\ loc'[t].path = DestPath(t, k) /\ loc'[t].font = loc[t].font
                               /\ files' = WithFile(DestPath(t, k), loc[t].font)
            BY <1>3, <2>2, CopiedMove DEF Copied
        <3> QED
            BY <3>1 DEF Held, WithFile
    <2> QED
        BY <2>1, <2>2 DEF HeldInv
<1> QED
    BY <1>1, <1>2, <1>3, NextMoves

(* An installation that reports ERR_OK has its font on disk and its record *)
(* in the file, whatever uninstallations, other installations, cleanups at *)
(* the stop of a user, failing removals and crashes go on besides: where   *)
(* no write of the configuration fails, no second comes back for a thread, *)
(* and nothing deletes whole directories.                                  *)
THEOREM OkMeansInstalled ==
    ~RepeatTag /\ SparesDirs /\ "write" \notin Fault => (Spec => InstallOkIsInstalled)
<1> SUFFICES ASSUME ~RepeatTag, SparesDirs, "write" \notin Fault
             PROVE  Spec => InstallOkIsInstalled
    OBVIOUS
<1> DEFINE A == \A t \in Thread :
        /\ pc[t] \in {"insert", "insertScope"}
        /\ pc'[t] = "idle" /\ loc'[t].ret = "ERR_OK"
        => /\ loc[t].path \in DOMAIN files
           /\ files[loc[t].path] = loc[t].font
           /\ \E r \in Records' : /\ r.path = loc[t].path
                                  /\ r.names = NamesOf(loc[t].font)
<1>1. ASSUME TypeInv, FreshInv, HeldInv, Next PROVE A
    <2> SUFFICES ASSUME NEW t \in Thread, pc[t] \in {"insert", "insertScope"},
                        pc'[t] = "idle", loc'[t].ret = "ERR_OK"
                 PROVE  Held(t) /\ \E r \in Records' : /\ r.path = loc[t].path
                                                       /\ r.names = NamesOf(loc[t].font)
        BY DEF Held
    <2>1. ConfigTypeOK
        BY <1>1 DEF TypeInv
    <2>2. Held(t)
        BY <1>1 DEF HeldInv
    <2>3. Moving(t)
        BY <1>1, StepOf DEF Idle
    <2>4. WithPath(loc[t].path) = {}
        BY <1>1 DEF FreshInv, Copied, WithPath, Listed, Records
    <2>5. CASE pc[t] = "insert" /\ InsertFontRecordIfUnderLimit(loc[t].path,
                                        NamesOf(loc[t].font), "ERR_OK")
        <3>1. Gains(UserRecord(loc[t].path, NamesOf(loc[t].font)))
            BY <2>4, <2>5 DEF InsertFontRecordIfUnderLimit, WriteToFile, Parses, Gains, Rewrites
        <3> QED
            BY <2>1, <2>2, <3>1, Gained DEF UserRecord
    <2>6. CASE InsertScopeFontRecord(ScopeRecord(t), TRUE)
        <3>1. Gains(ScopeRecord(t))
            BY <2>6, ScopeInsertion
        <3> QED
            BY <2>1, <2>2, <3>1, Gained DEF ScopeRecord
    <2> QED
        BY <2>3, <2>5, <2>6 DEF Moving, CallMoves, ReadMoves, FileMoves, ConfigMoves,
           Onward, Targets, Goes
<1>2. ASSUME TypeInv, FreshInv, HeldInv, [Next]_vars PROVE [A]_vars
    BY <1>1, <1>2
<1>3. Init => HeldInv
    BY InitRecords DEF HeldInv
<1>4. TypeInv /\ FreshInv /\ CallInv /\ HeldInv /\ [Next]_vars => HeldInv'
    BY NextHeld
<1>5. Spec => [](TypeInv /\ FreshInv)
    BY FreshInvariant
<1>6. Spec => [][A]_vars
    BY <1>2, <1>3, <1>4, <1>5, CallInvariant, PTL DEF Spec
<1> QED
    BY <1>6 DEF InstallOkIsInstalled

-----------------------------------------------------------------------------
(* Without cleanups, an uninstallation deletes the record whose file it    *)
(* has removed.                                                            *)

NoCleanups == Op \cap Cleanups = {}

(* The record of the font that a scope uninstallation looked up stays the  *)
(* first one with its srcPath.                                             *)
FirstHit(p, u) ==
    \A i \in DOMAIN fontlist : fontlist[i].path = p =>
        /\ fontlist[i].srcPath = u
        /\ \A j \in DOMAIN fontlist : fontlist[j].srcPath = u => i <= j
FirstHitInv ==
    \A t \in Thread : pc[t] \in {"removeScope", "deleteScope"} => FirstHit(loc[t].path, loc[t].url)

(* A step keeps a record the first one with its srcPath, but for an        *)
(* insertion with its path.                                                *)
LEMMA FirstHitKept ==
    ASSUME TypeInv, NEW t \in Thread, Moving(t), NEW p, NEW u, FirstHit(p, u),
           pc[t] \in {"insert", "insertScope"} => loc[t].path # p
    PROVE  FirstHit(p, u)'
<1>1. ConfigTypeOK
    BY DEF TypeInv
<1>2. CASE UNCHANGED configVars \/ Loses
    BY <1>2 DEF Loses, FirstHit, configVars
<1>3. ASSUME NEW i, Drops(i) PROVE FirstHit(p, u)'
    <2>1. \A j \in DOMAIN fontlist' : /\ Old(i, j) \in DOMAIN fontlist
                                      /\ fontlist'[j] = fontlist[Old(i, j)]
        BY <1>1, <1>3, Lost
    <2>2. \A j, k \in DOMAIN fontlist' : Old(i, j) <= Old(i, k) => j <= k
        BY <1>1, <1>3, Lost
    <2> QED
        BY <2>1, <2>2 DEF FirstHit
<1>4. CASE Refreshes
    BY <1>1, <1>4, Refreshed DEF FirstHit
<1>5. ASSUME NEW r, Gains(r), r.path # p PROVE FirstHit(p, u)'
    <2>1. \A j \in DOMAIN fontlist' : j \in DOMAIN fontlist \/ j = Len(fontlist')
        BY <1>1, <1>5, Gained
    <2>2. \A j \in DOMAIN fontlist : fontlist'[j] = fontlist[j] /\ j < Len(fontlist')
        BY <1>1, <1>5, Gained
    <2>3. fontlist'[Len(fontlist')].path # p
        BY <1>1, <1>5, Gained
    <2>4. \A j \in DOMAIN fontlist : j \in Nat /\ Len(fontlist') \in Nat
        BY <1>1, <1>5 DEF ConfigTypeOK, Gains, Rewrites
    <2> QED
        BY <2>1, <2>2, <2>3, <2>4 DEF FirstHit
<1>6. /\ \A names : UserRecord(loc[t].path, names).path = loc[t].path
      /\ ScopeRecord(t).path = loc[t].path
    BY DEF UserRecord, ScopeRecord
<1> QED
    BY <1>2, <1>3, <1>4, <1>5, <1>6, RecordMove

(* The first match of a search is not after any other.                     *)
LEMMA FirstUrl ==
    ASSUME ConfigTypeOK, NEW u, HasUrl(u)
    PROVE  /\ Min(WithUrl(u)) \in WithUrl(u)
           /\ \A j \in WithUrl(u) : Min(WithUrl(u)) <= j
           /\ GetFontRecordByUrl(u) = fontlist[Min(WithUrl(u))]
<1>1. WithUrl(u) \subseteq Nat /\ WithUrl(u) # {}
    BY DEF WithUrl, HasUrl, ConfigTypeOK
<1> QED
    BY <1>1, MinOfMatches DEF GetFontRecordByUrl, First

(* Looking up the font to uninstall.                                       *)
LEMMA FirstHitStart ==
    ASSUME TypeInv, UniquePaths, NEW t \in Thread, Moving(t),
           pc'[t] \in {"removeScope", "deleteScope"}
    PROVE  \/ /\ UNCHANGED configVars /\ FirstHit(loc'[t].path, loc'[t].url)
           \/ /\ pc[t] = "removeScope" /\ UNCHANGED configVars
              /\ loc'[t].path = loc[t].path /\ loc'[t].url = loc[t].url
<1>1. ConfigTypeOK
    BY DEF TypeInv
<1>2. CASE CallMoves(t)
    <2>1. StartsScopeUninstall(t)
        BY <1>2 DEF CallMoves, StartsInstall, StartsUninstall, StartsCleanup, Starts, Ends, Goes
    <2>2. PICK u : HasUrl(u) /\ loc'[t].path = GetFontRecordByUrl(u).path /\ loc'[t].url = u
        BY <2>1 DEF StartsScopeUninstall, Starts
    <2>3. FirstHit(GetFontRecordByUrl(u).path, u)
        <3>1. PICK m \in WithUrl(u) : /\ GetFontRecordByUrl(u) = fontlist[m]
                                      /\ \A j \in WithUrl(u) : m <= j
            BY <1>1, <2>2, FirstUrl
        <3> QED
            BY <3>1 DEF FirstHit, UniquePaths, WithUrl
    <2> QED
        BY <1>2, <2>2, <2>3 DEF CallMoves
<1>3. CASE ReadMoves(t)
    BY <1>3 DEF ReadMoves, Onward, Ends, Takes, GoesOn, Targets, Goes
<1>4. CASE FileMoves(t)
    BY <1>4 DEF FileMoves, Ends, GoesOn, Targets, Goes
<1>5. CASE ConfigMoves(t)
    BY <1>5 DEF ConfigMoves, Ends, Takes, GoesOn, Targets, Goes, AfterInit
<1> QED
    BY <1>2, <1>3, <1>4, <1>5 DEF Moving

(* The record that UninstallScopeFont deletes stays the first of its url.  *)
LEMMA NextFirstHit ==
    ASSUME TypeInv, FreshInv, FirstHitInv, [Next]_vars
    PROVE  FirstHitInv'
<1>1. CASE UNCHANGED vars
    BY <1>1 DEF vars, configVars, control, FirstHitInv, FirstHit
<1>2. CASE Crash
    BY <1>2 DEF Crash, FirstHitInv
<1>3. ASSUME NEW t \in Thread, Moving(t) PROVE FirstHitInv'
    <2>1. ASSUME NEW s \in Thread \ {t}, pc'[s] \in {"removeScope", "deleteScope"}
          PROVE  FirstHit(loc[s].path, loc[s].url)'
        <3>1. pc'[s] = pc[s] /\ loc'[s] = loc[s]
            BY <1>3, OthersStay
        <3>2. pc[t] \in {"insert", "insertScope"} => loc[t].path # loc[s].path
            BY <2>1 DEF FreshInv, Copied, Claimed
        <3>3. FirstHit(loc[s].path, loc[s].url)
            BY <2>1, <3>1 DEF FirstHitInv
        <3>4. PICK p, u : p = loc[s].path /\ u = loc[s].url
            OBVIOUS
        <3>5. FirstHit(p, u)'
            BY <1>3, <3>2, <3>3, <3>4, FirstHitKept
        <3> QED
            BY <3>1, <3>4, <3>5 DEF FirstHit
    <2>2. ASSUME pc'[t] \in {"removeScope", "deleteScope"}
          PROVE  FirstHit(loc[t].path, loc[t].url)'
        BY <1>3, <2>2, FirstHitStart DEF FreshInv, FirstHitInv, FirstHit, configVars
    <2> QED
        BY <2>1, <2>2 DEF FirstHitInv
<1> QED
    BY <1>1, <1>2, <1>3, NextMoves

Deleting == {"heal", "delete", "deleteScope", "deleteClean"}
Backed(p) == p \in DOMAIN files \/ \E t \in Thread : pc[t] \in Deleting /\ loc[t].path = p

(* A listed file that goes is that of an operation which deletes its       *)
(* record next.                                                            *)
LEMMA FileGoes ==
    ASSUME FreshInv, CallInv, NoCleanups, ~RepeatTag, NEW t \in Thread, Moving(t),
           NEW p \in DOMAIN files, Listed(p)
    PROVE  Backed(p)'
<1>1. SparesDirs
    BY DEF NoCleanups, SparesDirs, Cleanups, UserCleanup
<1>2. pc[t] # "clean"
    BY DEF CallInv, Called, NoCleanups
<1>3. CASE p # loc[t].path
    BY <1>1, <1>2, <1>3, FilesMove DEF Backed
<1>4. CASE p = loc[t].path /\ FileMoves(t)
    <2>1. pc[t] # "undo"
        BY <1>4 DEF FreshInv, Copied
    <2>2. CASE pc'[t] \in {"delete", "deleteScope"} /\ loc'[t] = loc[t]
        BY <1>4, <2>2 DEF Backed, Deleting
    <2>3. CASE \E q, f : files' = WithFile(q, f)
        BY <2>3 DEF Backed, WithFile
    <2> QED
        BY <1>2, <1>4, <2>1, <2>2, <2>3 DEF FileMoves, GoesOn, Goes
<1>5. CASE UNCHANGED files
    BY <1>5 DEF Backed
<1> QED
    BY <1>3, <1>4, <1>5 DEF Moving, CallMoves, ReadMoves, ConfigMoves

(* An operation that leaves its deletion leaves no record with its path.   *)
LEMMA DeletionEnds ==
    ASSUME TypeInv, UniquePaths, FirstHitInv, CallInv, NoCleanups, "write" \notin Fault,
           NEW t \in Thread, Moving(t), pc[t] \in Deleting, NEW p, p = loc[t].path
    PROVE  ~Listed(p)'
<1>1. ConfigTypeOK /\ pc[t] # "deleteClean"
    BY DEF TypeInv, CallInv, Called, NoCleanups
<1>2. p = loc[t].path
    OBVIOUS
<1>3. ASSUME NEW i \in DOMAIN fontlist, fontlist[i].path = p, Drops(i)
      PROVE  \A j \in DOMAIN fontlist' : fontlist'[j].path # p
    BY <1>1, <1>3, Lost DEF UniquePaths
<1>4. CASE pc[t] \in {"heal", "delete"}
    <2>1. PICK ok \in BOOLEAN : DeleteFontRecord(p, ok)
        BY <1>2, <1>4 DEF Moving, CallMoves, ReadMoves, FileMoves, ConfigMoves, Onward
    <2>2. \/ UNCHANGED configVars /\ WithPath(p) = {}
          \/ \E i \in WithPath(p) : Drops(i)
        BY <1>1, <2>1, PathDeletion
    <2> QED
        BY <1>3, <2>2 DEF WithPath, Listed, Records, configVars
<1>5. CASE pc[t] = "deleteScope"
    <2> DEFINE u == loc[t].url
    <2>1. PICK ok \in BOOLEAN : DeleteScopeFontRecordByUrl(u, ok)
        BY <1>5 DEF Moving, CallMoves, ReadMoves, FileMoves, ConfigMoves, Onward
    <2>2. \/ UNCHANGED configVars /\ WithUrl(u) = {}
          \/ \E i \in WithUrl(u) : i = Min(WithUrl(u)) /\ Drops(i)
        BY <1>1, <2>1, UrlDeletion
    <2>3. FirstHit(p, u)
        BY <1>2, <1>5 DEF FirstHitInv
    <2>4. CASE \A i \in DOMAIN fontlist : fontlist[i].path # p
        <3>1. \A j \in DOMAIN fontlist' : fontlist'[j].path # p
            BY <1>1, <2>2, <2>4, Lost DEF configVars
        <3> QED
            BY <1>2, <3>1 DEF Listed, Records
    <2>5. ASSUME NEW i \in DOMAIN fontlist, fontlist[i].path = p
          PROVE  \A j \in DOMAIN fontlist' : fontlist'[j].path # p
        <3>1. i \in WithUrl(u) /\ \A j \in WithUrl(u) : i <= j
            BY <2>3, <2>5 DEF FirstHit, WithUrl
        <3>2. HasUrl(u)
            BY <3>1 DEF HasUrl
        <3>3. Min(WithUrl(u)) \in WithUrl(u) /\ Min(WithUrl(u)) <= i
            BY <1>1, <3>1, <3>2, FirstUrl
        <3>4. WithUrl(u) \subseteq Nat
            BY <1>1 DEF WithUrl, ConfigTypeOK
        <3>5. Min(WithUrl(u)) = i
            BY <3>1, <3>3, <3>4
        <3> QED
            BY <1>3, <2>2, <2>5, <3>1, <3>5
    <2> QED
        BY <1>2, <2>4, <2>5 DEF Listed, Records
<1> QED
    BY <1>1, <1>4, <1>5 DEF Deleting

(* A file goes only when its record is about to go, and no record comes    *)
(* without its file.                                                       *)
LEMMA NextBacked ==
    ASSUME TypeInv, FreshInv, CallInv, HeldInv, FirstHitInv, NoDanglingRecord, NoCleanups,
           ~RepeatTag, "write" \notin Fault, "crash" \notin Fault, [Next]_vars
    PROVE  NoDanglingRecord'
<1>1. CASE UNCHANGED vars
    BY <1>1 DEF vars, storage, control, configVars, NoDanglingRecord, Records
<1>2. ASSUME NEW t \in Thread, Moving(t), NEW p, Listed(p)' PROVE Backed(p)'
    <2>1. CASE pc[t] \in {"insert", "insertScope"} /\ pc'[t] = "idle" /\ p = loc[t].path
        <3>1. UNCHANGED files
            BY <1>2, <2>1 DEF Moving, CallMoves, ReadMoves, FileMoves, ConfigMoves, Onward,
               Targets, GoesOn, Goes
        <3> QED
            BY <2>1, <3>1 DEF HeldInv, Held, Backed
    <2>2. CASE Listed(p) /\ p \in DOMAIN files
        BY <1>2, <2>2, FileGoes
    <2>3. ASSUME NEW s \in Thread, pc[s] \in Deleting, loc[s].path = p, Listed(p)
          PROVE  Backed(p)'
        <3>1. CASE s # t
            BY <1>2, <2>3, <3>1, OthersStay DEF Backed
        <3>2. CASE s = t
            BY <1>2, <2>3, <3>2, DeletionEnds DEF FreshInv, Listed, Records, configVars
        <3> QED
            BY <3>1, <3>2
    <2>4. Listed(p) => Backed(p)
        BY DEF NoDanglingRecord, Listed, Backed, Deleting
    <2> QED
        BY <1>2, <2>1, <2>2, <2>3, <2>4, ListedMove DEF Backed
<1>3. ASSUME NEW t \in Thread, Moving(t) PROVE NoDanglingRecord'
    <2>1. \A r \in Records' : Backed(r.path)'
        BY <1>2, <1>3 DEF Listed, Backed
    <2> QED
        BY <2>1 DEF NoDanglingRecord, Backed, Deleting
<1> QED
    BY <1>1, <1>3, NextMoves DEF Crash

(* Where no cleanup runs and no write of the configuration fails, a record *)
(* without its file always belongs to an operation that is about to delete *)
(* it, with user-level and scope calls by any number of threads at once:   *)
(* no two copies share a path, and UninstallScopeFont, which deletes by    *)
(* srcPath, still finds the record whose file it has removed.              *)
THEOREM RecordsKeepFiles ==
    /\ ~RepeatTag /\ Op \cap Cleanups = {} /\ "write" \notin Fault /\ "crash" \notin Fault
    => (Spec => []NoDanglingRecord)
<1> SUFFICES ASSUME ~RepeatTag, NoCleanups, "write" \notin Fault, "crash" \notin Fault
             PROVE  Spec => []NoDanglingRecord
    BY DEF NoCleanups
<1>1. SparesDirs
    BY DEF NoCleanups, SparesDirs, Cleanups, UserCleanup
<1>2. ASSUME Init PROVE HeldInv /\ FirstHitInv /\ NoDanglingRecord
    <2>1. HeldInv /\ FirstHitInv
        BY <1>2, InitRecords DEF HeldInv, FirstHitInv
    <2>2. ASSUME NEW i \in DOMAIN fontlist PROVE fontlist[i].path \in DOMAIN files
        <3>1. OldRecord(fontlist[i])
            BY <1>2, InitRecords
        <3>2. PICK f \in Font : /\ files = [p \in {OldPath(f)} |-> f]
                                /\ \E names : fontlist[i] = UserRecord(OldPath(f), names)
            BY <3>1 DEF OldRecord
        <3> QED
            BY <3>2 DEF UserRecord
    <2> QED
        BY <2>1, <2>2 DEF NoDanglingRecord, Records
<1>3. TypeInv /\ FreshInv /\ CallInv /\ HeldInv /\ [Next]_vars => HeldInv'
    BY <1>1, NextHeld
<1>4. TypeInv /\ FreshInv /\ FirstHitInv /\ [Next]_vars => FirstHitInv'
    BY NextFirstHit
<1>5. /\ TypeInv /\ FreshInv /\ CallInv /\ HeldInv /\ FirstHitInv /\ NoDanglingRecord
      /\ [Next]_vars
      => NoDanglingRecord'
    BY NextBacked
<1>6. Spec => [](TypeInv /\ FreshInv)
    BY FreshInvariant
<1> QED
    BY <1>2, <1>3, <1>4, <1>5, <1>6, CallInvariant, PTL DEF Spec

-----------------------------------------------------------------------------
(* Where the configuration exists and fonts go by UninstallFont only, no   *)
(* record goes before its file.                                            *)

OnlyUserRemovals == Op \cap (Cleanups \cup {"UninstallScopeFont"}) = {}

PresentInv == configFile # "missing" /\ \A t \in Thread : pc[t] \notin {"create", "fill"}
GoneInv == \A t \in Thread : pc[t] \in {"heal", "delete"} => loc[t].path \notin DOMAIN files

(* The configuration never becomes missing.                                *)
LEMMA NextPresent ==
    ASSUME TypeInv, PresentInv, [Next]_vars
    PROVE  PresentInv'
<1>1. CASE UNCHANGED vars
    BY <1>1 DEF vars, configVars, control, PresentInv
<1>2. CASE Crash
    BY <1>2 DEF Crash, Truncated, configVars, PresentInv
<1>3. ASSUME NEW t \in Thread, Moving(t) PROVE PresentInv'
    <2>1. pc[t] \notin {"create", "fill"} /\ configFile # "missing"
        BY DEF PresentInv
    <2>2. pc'[t] \notin {"create", "fill"}
        <3>1. CASE CallMoves(t)
            BY <2>1, <3>1 DEF CallMoves, StartsInstall, StartsUninstall, StartsScopeUninstall,
               StartsCleanup, Starts, Ends, Goes
        <3>2. CASE ReadMoves(t)
            BY <3>2 DEF ReadMoves, Onward, Ends, Takes, GoesOn, Targets, Goes
        <3>3. CASE FileMoves(t)
            BY <3>3 DEF FileMoves, Ends, GoesOn, Targets, Goes
        <3>4. CASE ConfigMoves(t)
            BY <2>1, <3>4 DEF ConfigMoves, Ends, Takes, GoesOn, Targets, Goes
        <3> QED
            BY <1>3, <3>1, <3>2, <3>3, <3>4 DEF Moving
    <2>3. configFile' # "missing"
        <3>1. CASE UNCHANGED configVars
            BY <2>1, <3>1 DEF configVars
        <3>2. CASE ConfigMoves(t)
            BY <2>1, <3>2 DEF ConfigMoves, DeleteFontRecord, DeleteScopeFontRecordByUrl,
               DeleteFirst, Refuse, InsertFontRecordIfUnderLimit, InsertScopeFontRecord,
               CheckAndUpdateFontRecord, WriteToFile, Truncated, configVars
        <3> QED
            BY <1>3, <3>1, <3>2 DEF Moving, CallMoves, ReadMoves, FileMoves
    <2>4. \A s \in Thread \ {t} : pc'[s] = pc[s]
        BY <1>3, OthersStay
    <2> QED
        BY <2>2, <2>3, <2>4 DEF PresentInv
<1> QED
    BY <1>1, <1>2, <1>3, NextMoves

(* A new file is of a path that nobody has.                                *)
LEMMA NewFile ==
    ASSUME ~RepeatTag, NEW t \in Thread, Moving(t), NEW p \in DOMAIN files', p \notin DOMAIN files
    PROVE  \A s \in Thread : p \notin Claimed(s)
<1>1. FileMoves(t)
    BY DEF Moving, CallMoves, ReadMoves, ConfigMoves
<1>2. CASE (\E P : files' = Without(P)) \/ \E D : DeleteDirs(D)
    BY <1>2, DirsGo DEF Without
<1>3. CASE UNCHANGED files
    BY <1>3
<1>4. ASSUME NEW k, TimeTag(t, k), files' = WithFile(DestPath(t, k), loc[t].font)
      PROVE  \A s \in Thread : p \notin Claimed(s)
    <2>1. p = DestPath(t, k)
        BY <1>4 DEF WithFile
    <2> QED
        BY <1>4, <2>1, NewPath
<1> QED
    BY <1>1, <1>2, <1>3, <1>4 DEF FileMoves, RemoveFile

(* The file of a record about to be deleted does not come back.            *)
LEMMA NextGone ==
    ASSUME TypeInv, GoneInv, ~RepeatTag, [Next]_vars
    PROVE  GoneInv'
<1>1. CASE UNCHANGED vars
    BY <1>1 DEF vars, storage, control, GoneInv
<1>2. CASE Crash
    BY <1>2 DEF Crash, GoneInv
<1>3. ASSUME NEW t \in Thread, Moving(t) PROVE GoneInv'
    <2>1. ASSUME NEW s \in Thread \ {t}, pc'[s] \in {"heal", "delete"}
          PROVE  loc'[s].path \notin DOMAIN files'
        <3>1. pc'[s] = pc[s] /\ loc'[s] = loc[s]
            BY <1>3, OthersStay
        <3>2. loc[s].path \in Claimed(s)
            BY DEF Claimed
        <3> QED
            BY <1>3, <2>1, <3>1, <3>2, NewFile DEF GoneInv
    <2>2. ASSUME pc'[t] \in {"heal", "delete"} PROVE loc'[t].path \notin DOMAIN files'
        <3>1. CASE CallMoves(t)
            BY <2>2, <3>1 DEF CallMoves, StartsInstall, StartsUninstall, StartsScopeUninstall,
               StartsCleanup, Starts, Ends, Goes
        <3>2. CASE ReadMoves(t)
            BY <2>2, <3>2 DEF ReadMoves, Onward, Ends, Takes, GoesOn, Targets, Goes
        <3>3. CASE FileMoves(t)
            <4>1. files' = Without({loc[t].path}) /\ loc'[t] = loc[t]
                BY <2>2, <3>3 DEF FileMoves, Ends, GoesOn, Targets, Goes
            <4> QED
                BY <4>1 DEF Without
        <3>4. CASE ConfigMoves(t)
            BY <2>2, <3>4 DEF ConfigMoves, Ends, Takes, GoesOn, Targets, Goes, AfterInit
        <3> QED
            BY <1>3, <3>1, <3>2, <3>3, <3>4 DEF Moving
    <2> QED
        BY <2>1, <2>2 DEF GoneInv
<1> QED
    BY <1>1, <1>2, <1>3, NextMoves

(* The records of which the paths go.                                      *)
LEMMA DroppedMove ==
    ASSUME TypeInv, PresentInv, GoneInv, CallInv, OnlyUserRemovals, NEW t \in Thread, Moving(t),
           configFile' = "valid"
    PROVE  /\ configFile = "valid"
           /\ \A r \in Records : \/ r \in Records'
                                 \/ r.path \notin DOMAIN files
                                 \/ pc[t] = "update" /\ Refreshes /\ Listed(r.path)'
<1>1. ConfigTypeOK /\ pc[t] \notin {"fill", "deleteScope", "deleteClean"}
    BY DEF TypeInv, PresentInv, CallInv, Called, OnlyUserRemovals
<1>2. CASE UNCHANGED configVars
    BY <1>2 DEF configVars, Records
<1>3. CASE \E r : Gains(r)
    BY <1>1, <1>3, Gained DEF Gains, Rewrites
<1>4. ASSUME pc[t] \in {"heal", "delete"}, NEW i \in WithPath(loc[t].path), Drops(i)
      PROVE  /\ configFile = "valid"
             /\ \A r \in Records : r \in Records' \/ r.path \notin DOMAIN files
    <2>1. fontlist[i].path \notin DOMAIN files
        BY <1>4 DEF WithPath, GoneInv
    <2>2. Records \subseteq Records' \cup {fontlist[i]}
        BY <1>1, <1>4, Lost
    <2> QED
        BY <1>4, <2>1, <2>2 DEF Drops, Rewrites
<1>5. CASE pc[t] = "update" /\ Refreshes
    BY <1>1, <1>5, Refreshed DEF Refreshes, Rewrites, Listed, Records
<1> QED
    BY <1>1, <1>2, <1>3, <1>4, <1>5, RecordMove

(* The configuration stays and the deletions know their files gone.        *)
LEMMA GoneInvariant ==
    ~RepeatTag /\ "missing" \notin InitialFile
    => (Spec => [](TypeInv /\ SiteInv /\ CallInv /\ PresentInv /\ GoneInv))
<1> SUFFICES ASSUME ~RepeatTag, "missing" \notin InitialFile
             PROVE  Spec => [](TypeInv /\ SiteInv /\ CallInv /\ PresentInv /\ GoneInv)
    OBVIOUS
<1>1. Init => PresentInv /\ GoneInv
    BY InitRecords DEF Init, InitStore, PresentInv, GoneInv
<1>2. TypeInv /\ PresentInv /\ GoneInv /\ [Next]_vars => PresentInv' /\ GoneInv'
    BY NextPresent, NextGone
<1> QED
    BY <1>1, <1>2, CallInvariant, PTL DEF Spec

(* Whatever fails and whenever the service crashes, no record is deleted   *)
(* before its file: neither by UninstallFont nor by the loop of            *)
(* InstallFont, which deletes a record only after it has found the file    *)
(* missing, with other threads between the two.  For a configuration file  *)
(* that exists at start, and with no scope uninstallations or cleanups,    *)
(* which go by the srcPath.                                                *)
THEOREM FilesGoFirst ==
    /\ ~RepeatTag /\ "missing" \notin InitialFile
    /\ Op \cap (Cleanups \cup {"UninstallScopeFont"}) = {}
    => (Spec => FileGoesFirst)
<1> SUFFICES ASSUME ~RepeatTag, "missing" \notin InitialFile, OnlyUserRemovals
             PROVE  Spec => FileGoesFirst
    BY DEF OnlyUserRemovals
<1> DEFINE A == configFile' = "valid" => \A r \in Dropped : r.path \notin DOMAIN files
<1>1. ASSUME TypeInv, CallInv, PresentInv, GoneInv, Next PROVE A
    <2> SUFFICES ASSUME configFile' = "valid", NEW r \in Dropped PROVE r.path \notin DOMAIN files
        OBVIOUS
    <2>1. r \in Records /\ ~ \E s \in Records' : s.path = r.path
        BY DEF Dropped
    <2>2. CASE Crash
        BY <2>1, <2>2 DEF Crash, Truncated, Records, configVars
    <2>3. ASSUME NEW t \in Thread, Moving(t) PROVE r.path \notin DOMAIN files
        BY <1>1, <2>1, <2>3, DroppedMove DEF Listed
    <2> QED
        BY <1>1, <2>2, <2>3, NextMoves
<1>2. ASSUME TypeInv, CallInv, PresentInv, GoneInv, [Next]_vars PROVE [A]_vars
    BY <1>1, <1>2
<1>3. Spec => [](TypeInv /\ SiteInv /\ CallInv /\ PresentInv /\ GoneInv)
    BY GoneInvariant
<1>4. Spec => [][A]_vars
    BY <1>2, <1>3, PTL DEF Spec
<1> QED
    BY <1>4 DEF FileGoesFirst

-----------------------------------------------------------------------------
(* A refused font is there.                                                *)

(* The loop over the full names stays within them.                         *)
IndexInv ==
    \A t \in Thread : pc[t] \in {"create", "fill", "find", "probe", "heal"} =>
        loc[t].i = 1 \/ loc[t].i \in 2 .. Len(FullNames[loc[t].font])

(* Between the lookup of a name and that of the file, the record with the  *)
(* name can only go when the file does.                                    *)
Refusable(t) ==
    \E r \in Records : r.path = loc[t].path /\ r.names \cap NamesOf(loc[t].font) # {}
ProbeInv ==
    \A t \in Thread :
        pc[t] = "probe" /\ configFile = "valid" /\ loc[t].path \in DOMAIN files => Refusable(t)

(* IndexInv is inductive.                                                  *)
LEMMA NextIndex ==
    ASSUME TypeInv, IndexInv, [Next]_vars
    PROVE  IndexInv'
<1> DEFINE L == {"create", "fill", "find", "probe", "heal"}
           Within(l) == l.i = 1 \/ l.i \in 2 .. Len(FullNames[l.font])
<1>1. ASSUME NEW t \in Thread, Moving(t), pc'[t] \in L PROVE Within(loc'[t])
    <2>1. loc[t].i \in Nat
        BY DEF TypeInv, ControlOK, Local
    <2>2. pc[t] \in L => loc[t].font \in Font /\ Within(loc[t])
        BY LocalType DEF Ready, IndexInv
    <2>3. pc[t] \in L => Len(FullNames[loc[t].font]) \in Nat
        BY <2>2, FontConfigAssumption
    <2>4. CASE loc'[t].i = 1
        BY <2>4
    <2>5. CASE pc[t] \in L /\ loc'[t].i = loc[t].i /\ loc'[t].font = loc[t].font
        BY <2>2, <2>5
    <2>6. CASE pc[t] \in L /\ Takes(t, "find", "count")
        BY <1>1, <2>1, <2>2, <2>3, <2>6 DEF Takes, Targets, SameCall, Goes, LastName
    <2>7. CASE CallMoves(t)
        BY <1>1, <2>4, <2>7 DEF CallMoves, StartsInstall, StartsUninstall,
           StartsScopeUninstall, StartsCleanup, Starts, Ends, Goes
    <2>8. CASE ReadMoves(t)
        BY <1>1, <2>5, <2>6, <2>8
           DEF ReadMoves, Onward, Ends, Takes, GoesOn, Targets, SameCall, Goes
    <2>9. CASE FileMoves(t)
        BY <1>1, <2>9 DEF FileMoves, Ends, GoesOn, Targets, Goes
    <2>10. CASE ConfigMoves(t)
        BY <1>1, <2>5, <2>6, <2>10 DEF ConfigMoves, Ends, GoesOn, Targets, Goes
    <2> QED
        BY <1>1, <2>7, <2>8, <2>9, <2>10 DEF Moving
<1>2. ASSUME NEW t \in Thread, pc'[t] \in L PROVE Within(loc'[t])
    BY <1>1, <1>2, StepOf DEF IndexInv
<1> QED
    BY <1>2 DEF IndexInv

(* A name that the loop asks for is one of the font.                       *)
LEMMA NameOfFont ==
    ASSUME TypeInv, IndexInv, NEW t \in Thread, pc[t] = "find", FullNames[loc[t].font] # <<>>
    PROVE  FullName(t) \in NamesOf(loc[t].font)
<1>1. FullNames[loc[t].font] \in Seq(Name)
    BY LocalType, FontConfigAssumption DEF Ready
<1>2. loc[t].i \in 1 .. Len(FullNames[loc[t].font])
    BY <1>1 DEF IndexInv
<1> QED
    BY <1>1, <1>2 DEF FullName, NamesOf

(* A file, while it is there, has the names of its record.                 *)
NamesInv ==
    /\ \A r \in Records : r.path \in DOMAIN files => r.names \subseteq NamesOf(files[r.path])
    /\ \A t \in Thread :
            pc[t] \in {"insert", "insertScope"} /\ loc[t].path \in DOMAIN files
            => files[loc[t].path] = loc[t].font

(* No file is replaced, and none comes at the path of a record or a call.  *)
LEMMA ContentKept ==
    ASSUME ~RepeatTag, NEW t \in Thread, Moving(t), NEW p \in DOMAIN files',
           Listed(p) \/ \E s \in Thread : p \in Claimed(s)
    PROVE  p \in DOMAIN files /\ files'[p] = files[p]
<1>1. CASE FileMoves(t)
    <2>1. CASE (\E P : files' = Without(P)) \/ \E D : DeleteDirs(D)
        BY <2>1, DirsGo DEF Without
    <2>2. CASE UNCHANGED files
        BY <2>2
    <2>3. ASSUME NEW k, TimeTag(t, k), files' = WithFile(DestPath(t, k), loc[t].font)
          PROVE  p \in DOMAIN files /\ files'[p] = files[p]
        <3>1. DestPath(t, k) # p
            BY <2>3, NewPath
        <3> QED
            BY <2>3, <3>1 DEF WithFile
    <2> QED
        BY <1>1, <2>1, <2>2, <2>3 DEF FileMoves, RemoveFile
<1>2. CASE UNCHANGED files
    BY <1>2
<1> QED
    BY <1>1, <1>2 DEF Moving, CallMoves, ReadMoves, ConfigMoves

(* NamesInv is inductive: records get the names of their files, and keep   *)
(* them.                                                                   *)
LEMMA NextNamesInv ==
    ASSUME TypeInv, SiteInv, VersionInv, NamesInv, ~RepeatTag, [Next]_vars
    PROVE  NamesInv'
<1>1. CASE UNCHANGED vars
    BY <1>1 DEF vars, storage, control, configVars, NamesInv, Records
<1>2. CASE Crash
    BY <1>2 DEF Crash, Truncated, NamesInv, Records, configVars, storage
<1>3. ASSUME NEW t \in Thread, Moving(t) PROVE NamesInv'
    <2>1. ASSUME NEW r \in Records', r.path \in DOMAIN files'
          PROVE  r.names \subseteq NamesOf(files'[r.path])
        <3>1. ConfigTypeOK
            BY DEF TypeInv
        <3>2. CASE r \in Records
            BY <1>3, <2>1, <3>2, ContentKept DEF NamesInv, Listed, Records
        <3>3. ASSUME pc[t] \in {"insert", "insertScope"},
                     \/ r = UserRecord(loc[t].path, NamesOf(loc[t].font))
                     \/ r = ScopeRecord(t)
              PROVE  r.names \subseteq NamesOf(files'[r.path])
            <4>1. r.path = loc[t].path /\ r.names = NamesOf(loc[t].font)
                BY <3>3 DEF UserRecord, ScopeRecord
            <4>2. loc[t].path \in Claimed(t)
                BY DEF Claimed
            <4> QED
                BY <1>3, <2>1, <3>3, <4>1, <4>2, ContentKept DEF NamesInv
        <3>4. CASE pc[t] = "update" /\ Refreshes
            <4>1. UNCHANGED files
                BY <1>3, <3>4 DEF Moving, CallMoves, ReadMoves, FileMoves, ConfigMoves,
                   StartsInstall, StartsUninstall, StartsScopeUninstall, StartsCleanup,
                   Starts, Onward
            <4>2. PICK i \in DOMAIN fontlist : r = fontlist'[i]
                BY <3>1, <3>4, Refreshed DEF Records
            <4> QED
                BY <2>1, <3>4, <4>1, <4>2, RefreshedNames
        <3>5. CASE UNCHANGED configVars \/ Loses \/ \E i : Drops(i)
            BY <3>1, <3>2, <3>5, Lost DEF Loses, Records, configVars
        <3> QED
            BY <1>3, <3>1, <3>2, <3>3, <3>4, <3>5, Gained, RecordMove
    <2>2. ASSUME NEW s \in Thread, pc'[s] \in {"insert", "insertScope"},
                 loc'[s].path \in DOMAIN files'
          PROVE  files'[loc'[s].path] = loc'[s].font
        <3>1. CASE s # t
            <4>1. pc'[s] = pc[s] /\ loc'[s] = loc[s] /\ loc[s].path \in Claimed(s)
                BY <1>3, <3>1, OthersStay DEF Claimed
            <4> QED
                BY <1>3, <2>2, <4>1, ContentKept DEF NamesInv
        <3>2. CASE s = t
            <4>1. FileMoves(t)
                BY <1>3, <2>2, <3>2 DEF Moving, CallMoves, ReadMoves, ConfigMoves, AfterInit,
                   StartsInstall, StartsUninstall, StartsScopeUninstall, StartsCleanup,
                   Starts, Onward, Ends, Takes, GoesOn, Targets, Goes
            <4>2. PICK k : /\ loc'[t].path = DestPath(t, k) /\ loc'[t].font = loc[t].font
                           /\ files' = WithFile(DestPath(t, k), loc[t].font)
                BY <2>2, <3>2, <4>1 DEF FileMoves, Ends, GoesOn, Targets, SameCall, Goes
            <4> QED
                BY <3>2, <4>2 DEF WithFile
        <3> QED
            BY <3>1, <3>2
    <2> QED
        BY <2>1, <2>2 DEF NamesInv
<1> QED
    BY <1>1, <1>2, <1>3, NextMoves

(* Another thread that deletes the record has removed its file first.      *)
LEMMA ProbeKept ==
    ASSUME TypeInv, PresentInv, GoneInv, CallInv, IndexInv, ProbeInv, OnlyUserRemovals,
           SiteInv, VersionInv, NamesInv, ~RepeatTag, "read" \notin Fault,
           NEW t \in Thread, Moving(t), NEW s \in Thread \ {t},
           pc[s] = "probe", configFile' = "valid", loc[s].path \in DOMAIN files'
    PROVE  \E r \in Records' : /\ r.path = loc[s].path
                               /\ r.names \cap NamesOf(loc[s].font) # {}
<1>1. loc[s].path \in DOMAIN files
    <2>1. loc[s].path \in Claimed(s)
        BY DEF Claimed
    <2> QED
        BY <2>1, NewFile
<1>2. PICK r \in Records : r.path = loc[s].path /\ r.names \cap NamesOf(loc[s].font) # {}
    BY <1>1, DroppedMove DEF ProbeInv, Refusable
<1>3. CASE Refreshes
    <2>1. PICK i \in DOMAIN fontlist : r = fontlist[i]
        BY DEF Records
    <2>2. /\ fontlist'[i] \in Records' /\ fontlist'[i].path = r.path
          /\ r.names \subseteq fontlist'[i].names
        BY <1>1, <1>2, <1>3, <2>1, RefreshedNames DEF NamesInv, Records
    <2> QED
        BY <1>2, <2>2
<1> QED
    BY <1>1, <1>2, <1>3, DroppedMove

(* ProbeInv is inductive.                                                  *)
LEMMA NextProbe ==
    ASSUME TypeInv, PresentInv, GoneInv, CallInv, IndexInv, ProbeInv, OnlyUserRemovals,
           SiteInv, VersionInv, NamesInv, ~RepeatTag, "read" \notin Fault, [Next]_vars
    PROVE  ProbeInv'
<1>1. CASE UNCHANGED vars
    BY <1>1 DEF vars, storage, control, configVars, ProbeInv, Refusable, Records
<1>2. CASE Crash
    BY <1>2 DEF Crash, ProbeInv
<1>3. ASSUME NEW t \in Thread, Moving(t) PROVE ProbeInv'
    <2>1. ASSUME NEW s \in Thread \ {t}, pc'[s] = "probe", configFile' = "valid",
                 loc'[s].path \in DOMAIN files'
          PROVE  Refusable(s)'
        <3>1. pc'[s] = pc[s] /\ loc'[s] = loc[s]
            BY <1>3, OthersStay
        <3> QED
            BY <1>3, <2>1, <3>1, ProbeKept DEF Refusable
    <2>2. ASSUME pc'[t] = "probe" PROVE Refusable(t)'
        <3> DEFINE r == GetFontRecordByName(FullName(t))
        <3>1. /\ pc[t] = "find" /\ HasName(FullName(t)) /\ FullNames[loc[t].font] # <<>>
              /\ loc'[t].path = r.path /\ loc'[t].font = loc[t].font /\ UNCHANGED configVars
            <4>1. CASE CallMoves(t)
                BY <2>2, <4>1 DEF CallMoves, StartsInstall, StartsUninstall,
                   StartsScopeUninstall, StartsCleanup, Starts, Ends, Goes
            <4>2. CASE ReadMoves(t)
                BY <2>2, <4>2 DEF ReadMoves, Onward, Ends, Takes, GoesOn, Targets, SameCall,
                   Goes, GetFontFileByName
            <4>3. CASE FileMoves(t)
                BY <2>2, <4>3 DEF FileMoves, Ends, GoesOn, Targets, Goes
            <4>4. CASE ConfigMoves(t)
                BY <2>2, <4>4 DEF ConfigMoves, Ends, Takes, GoesOn, Targets, Goes, AfterInit
            <4> QED
                BY <1>3, <4>1, <4>2, <4>3, <4>4 DEF Moving
        <3>2. r \in Records /\ FullName(t) \in r.names
            BY <3>1, FoundByName DEF TypeInv
        <3>3. FullName(t) \in NamesOf(loc[t].font)
            BY <3>1, NameOfFont
        <3> HIDE DEF r
        <3>4. r \in Records' /\ r.names \cap NamesOf(loc'[t].font) # {}
            BY <3>1, <3>2, <3>3 DEF Records, configVars
        <3> QED
            BY <3>1, <3>4 DEF Refusable
    <2> QED
        BY <2>1, <2>2 DEF ProbeInv
<1> QED
    BY <1>1, <1>2, <1>3, NextMoves

(* InstallFont never refuses a font for the sake of a record without its   *)
(* file, although it reads the record and looks for the file in two steps: *)
(* every failure, crash and interleaving of user-level calls leaves the    *)
(* font installable, and so does a refresh of an older file that can read  *)
(* the fonts.  Otherwise under the conditions of FilesGoFirst.             *)
THEOREM RefusedIsInstalled ==
    /\ ~RepeatTag /\ "read" \notin Fault /\ "missing" \notin InitialFile
    /\ Op \cap (Cleanups \cup {"UninstallScopeFont"}) = {}
    => (Spec => RefusedOnlyIfInstalled)
<1> SUFFICES ASSUME ~RepeatTag, "read" \notin Fault, "missing" \notin InitialFile,
                    OnlyUserRemovals
             PROVE  Spec => RefusedOnlyIfInstalled
    BY DEF OnlyUserRemovals
<1> DEFINE A == \A t \in Thread :
        /\ pc[t] = "probe"
        /\ pc'[t] = "idle" /\ loc'[t].ret = "ERR_INSTALLED_ALRADY"
        /\ configFile = "valid"
        => \E r \in Records : /\ r.path \in DOMAIN files
                              /\ r.names \cap NamesOf(loc[t].font) # {}
<1>1. ASSUME TypeInv, ProbeInv, Next PROVE A
    <2> SUFFICES ASSUME NEW t \in Thread, pc[t] = "probe", pc'[t] = "idle",
                        loc'[t].ret = "ERR_INSTALLED_ALRADY", configFile = "valid"
                 PROVE  loc[t].path \in DOMAIN files /\ Refusable(t)
        BY DEF Refusable
    <2>1. Moving(t)
        BY <1>1, StepOf DEF Idle
    <2>2. loc[t].path \in DOMAIN files
        BY <2>1 DEF Moving, CallMoves, ReadMoves, FileMoves, ConfigMoves, Onward, GoesOn, Goes
    <2> QED
        BY <1>1, <2>2 DEF ProbeInv
<1>2. ASSUME TypeInv, ProbeInv, [Next]_vars PROVE [A]_vars
    BY <1>1, <1>2
<1>3. ASSUME Init PROVE IndexInv /\ ProbeInv /\ NamesInv
    <2>1. ASSUME NEW r \in Records, r.path \in DOMAIN files
          PROVE  r.names \subseteq NamesOf(files[r.path])
        <3>1. OldRecord(r)
            BY <1>3, InitRecords DEF Records
        <3>2. PICK f \in Font : \E names \in SUBSET NamesOf(f) :
                r = UserRecord(OldPath(f), names) /\ files = [p \in {OldPath(f)} |-> f]
            BY <3>1 DEF OldRecord
        <3>3. r.path = OldPath(f) /\ r.names \subseteq NamesOf(f)
            BY <3>2 DEF UserRecord
        <3> QED
            BY <3>2, <3>3
    <2> QED
        BY <1>3, <2>1, InitRecords DEF IndexInv, ProbeInv, NamesInv
<1>4. TypeInv /\ IndexInv /\ [Next]_vars => IndexInv'
    BY NextIndex
<1>5. TypeInv /\ SiteInv /\ VersionInv /\ NamesInv /\ [Next]_vars => NamesInv'
    BY NextNamesInv
<1>6. /\ TypeInv /\ PresentInv /\ GoneInv /\ CallInv /\ IndexInv /\ ProbeInv
      /\ SiteInv /\ VersionInv /\ NamesInv /\ [Next]_vars
      => ProbeInv'
    BY NextProbe
<1>7. Spec => [](TypeInv /\ SiteInv /\ CallInv /\ PresentInv /\ GoneInv)
    BY GoneInvariant
<1>8. Spec => [][A]_vars
    <2> HIDE DEF A
    <2> QED
        BY <1>2, <1>3, <1>4, <1>5, <1>6, <1>7, VersionInvariant, PTL DEF Spec
<1> QED
    BY <1>8 DEF RefusedOnlyIfInstalled

-----------------------------------------------------------------------------
(* Calls that do not overlap: where one thread serves them all, what it    *)
(* has looked up is still there when it acts on it.                        *)

OneThread == \A s, t \in Thread : s = t

(* Every step is one of the thread.                                        *)
LEMMA SoloStep ==
    ASSUME TypeInv, OneThread, [Next]_vars, NEW t \in Thread
    PROVE  UNCHANGED vars \/ Crash \/ Moving(t)
<1>1. \A s \in Thread : s = t
    BY DEF OneThread
<1> QED
    BY <1>1, NextMoves

(* A srcPath has one record, and that of a new font has none.              *)
UrlInv ==
    /\ UniqueUrls
    /\ \A t \in Thread : pc[t] \in NewUrl => ~HasUrl(loc[t].url)

(* The srcPath inserted is new, or the empty one of a user-level font.     *)
LEMMA UniqueUrlsMove ==
    ASSUME TypeInv, UrlInv, NEW t \in Thread, Moving(t)
    PROVE  UniqueUrls'
<1>1. ConfigTypeOK /\ UniqueUrls
    BY DEF TypeInv, UrlInv
<1>2. CASE UNCHANGED configVars \/ Loses
    BY <1>1, <1>2 DEF Loses, UniqueUrls, configVars
<1>3. ASSUME NEW i, Drops(i) PROVE UniqueUrls'
    BY <1>1, <1>3, Lost DEF UniqueUrls
<1>4. CASE Refreshes
    BY <1>1, <1>4, Refreshed DEF UniqueUrls
<1>5. ASSUME NEW r, Gains(r), r.srcPath = NoUrl \/ ~HasUrl(r.srcPath)
      PROVE  UniqueUrls'
    <2>1. r.srcPath # NoUrl => \A i \in DOMAIN fontlist : fontlist[i].srcPath # r.srcPath
        BY <1>5 DEF HasUrl, WithUrl
    <2> QED
        BY <1>1, <1>5, <2>1, Gained DEF UniqueUrls
<1>6. \A p, names : UserRecord(p, names).srcPath = NoUrl
    BY DEF UserRecord
<1>7. pc[t] = "insertScope" => ~HasUrl(ScopeRecord(t).srcPath)
    BY DEF ScopeRecord, UrlInv, NewUrl
<1> QED
    BY <1>2, <1>3, <1>4, <1>5, <1>6, <1>7, RecordMove

(* UrlInv is inductive.                                                    *)
LEMMA NextUrls ==
    ASSUME TypeInv, UrlInv, OneThread, [Next]_vars
    PROVE  UrlInv'
<1>1. ASSUME NEW t \in Thread, Moving(t) PROVE UrlInv'
    <2>1. pc'[t] \in NewUrl => ~HasUrl(loc[t].url)'
        BY <1>1, NewUrlMove DEF UrlInv, HasUrl, WithUrl, configVars
    <2>2. \A s \in Thread : s = t
        BY DEF OneThread
    <2> QED
        BY <1>1, <2>1, <2>2, UniqueUrlsMove DEF UrlInv, HasUrl, WithUrl
<1>2. CASE UNCHANGED vars
    BY <1>2 DEF vars, configVars, control, UrlInv, UniqueUrls, HasUrl, WithUrl
<1>3. CASE Crash
    BY <1>3 DEF Crash, Truncated, UrlInv, UniqueUrls, NewUrl, configVars
<1> QED
    BY <1>1, <1>2, <1>3, NextMoves

(* At first no record has a srcPath.                                       *)
LEMMA InitUrls ==
    ASSUME Init
    PROVE  UrlInv
<1>1. ASSUME NEW i \in DOMAIN fontlist PROVE fontlist[i].srcPath = NoUrl
    <2>1. OldRecord(fontlist[i])
        BY InitRecords
    <2>2. PICK p, names : fontlist[i] = UserRecord(p, names)
        BY <2>1 DEF OldRecord
    <2> QED
        BY <2>2 DEF UserRecord
<1> QED
    BY <1>1, InitRecords DEF UrlInv, UniqueUrls, NewUrl

LEMMA UrlInvariant == OneThread => (Spec => [](TypeInv /\ SiteInv /\ CallInv /\ UrlInv))
<1> SUFFICES ASSUME OneThread PROVE Spec => [](TypeInv /\ SiteInv /\ CallInv /\ UrlInv)
    OBVIOUS
<1>1. Init => UrlInv
    BY InitUrls
<1>2. TypeInv /\ UrlInv /\ [Next]_vars => UrlInv'
    BY NextUrls
<1> QED
    BY <1>1, <1>2, CallInvariant, PTL DEF Spec

(* A srcPath stands for one record.                                        *)
LEMMA OneUrl ==
    ASSUME UniqueUrls, NEW r \in Records, NEW s \in Records,
           r.srcPath = s.srcPath, r.srcPath # NoUrl
    PROVE  r = s
BY DEF UniqueUrls, Records

(* A deletion by srcPath takes the record with that srcPath.               *)
LEMMA UrlDrop ==
    ASSUME ConfigTypeOK, UniqueUrls, NEW u \in Url, NEW i \in WithUrl(u), Drops(i)
    PROVE  Records' = {r \in Records : r.srcPath # u}
<1>1. u # NoUrl /\ i \in DOMAIN fontlist /\ fontlist[i].srcPath = u
    BY Sites DEF WithUrl
<1>2. \A j \in DOMAIN fontlist : j # i => fontlist[j].srcPath # u
    BY <1>1 DEF UniqueUrls
<1>3. \A r \in Records' : r.srcPath # u
    BY <1>2, Lost DEF Records
<1>4. Records' \subseteq Records /\ Records \subseteq Records' \cup {fontlist[i]}
    BY Lost
<1> QED
    BY <1>1, <1>3, <1>4

(* What a deletion drops is the record it takes.                           *)
LEMMA DroppedRecord ==
    ASSUME ConfigTypeOK, NEW i, Drops(i)
    PROVE  \A r \in Dropped : r = fontlist[i]
<1>1. Records \subseteq Records' \cup {fontlist[i]}
    BY Lost
<1> QED
    BY <1>1 DEF Dropped

(* No record goes without a change of the configuration.                   *)
LEMMA NoneDropped ==
    ASSUME UNCHANGED configVars
    PROVE  Dropped = {}
BY DEF Dropped, Records, configVars

(* The record that UninstallScopeFont has looked up is still the only one  *)
(* with its srcPath when it deletes by srcPath.                            *)
OwnerInv ==
    \A t \in Thread : pc[t] \in {"removeScope", "deleteScope"} =>
        /\ loc[t].op = "UninstallScopeFont"
        /\ \A r \in Records :
                r.srcPath = loc[t].url => r.appId = loc[t].id /\ r.path = loc[t].path

(* How a call comes to the removal of a scope font.                        *)
LEMMA LookupMove ==
    ASSUME TypeInv, NEW t \in Thread, Moving(t), pc'[t] \in {"removeScope", "deleteScope"}
    PROVE  /\ UNCHANGED configVars
           /\ \/ /\ pc[t] = "removeScope" /\ loc'[t] = loc[t]
              \/ /\ loc'[t].op = "UninstallScopeFont" /\ loc'[t].url \in Url
                 /\ \E r \in Records : /\ r.srcPath = loc'[t].url /\ r.appId = loc'[t].id
                                       /\ r.path = loc'[t].path
<1>1. ConfigTypeOK
    BY DEF TypeInv
<1>2. CASE CallMoves(t)
    <2>1. StartsScopeUninstall(t)
        BY <1>2 DEF CallMoves, StartsInstall, StartsUninstall, StartsCleanup, Starts, Ends, Goes
    <2>2. PICK u \in Url : LET r == GetFontRecordByUrl(u) IN
            /\ HasUrl(u) /\ loc'[t].op = "UninstallScopeFont" /\ loc'[t].url = u
            /\ loc'[t].path = r.path /\ loc'[t].id = r.appId
        BY <2>1 DEF StartsScopeUninstall, Starts
    <2> QED
        BY <1>1, <1>2, <2>2, FoundByUrl DEF CallMoves
<1>3. CASE ReadMoves(t)
    BY <1>3 DEF ReadMoves, Onward, Ends, Takes, GoesOn, Targets, Goes
<1>4. CASE FileMoves(t)
    BY <1>4 DEF FileMoves, Ends, GoesOn, Targets, Goes
<1>5. CASE ConfigMoves(t)
    BY <1>5 DEF ConfigMoves, Ends, Takes, GoesOn, Targets, Goes, AfterInit
<1> QED
    BY <1>2, <1>3, <1>4, <1>5 DEF Moving

(* OwnerInv is inductive: a srcPath has one record.                        *)
LEMMA NextOwner ==
    ASSUME TypeInv, UrlInv, OwnerInv, OneThread, [Next]_vars
    PROVE  OwnerInv'
<1>1. ASSUME NEW t \in Thread, Moving(t), pc'[t] \in {"removeScope", "deleteScope"}
      PROVE  /\ loc'[t].op = "UninstallScopeFont"
             /\ \A r \in Records' : r.srcPath = loc'[t].url =>
                    r.appId = loc'[t].id /\ r.path = loc'[t].path
    <2>1. Records' = Records
        BY <1>1, LookupMove DEF Records, configVars
    <2>2. loc'[t].url \in Url => loc'[t].url # NoUrl
        BY Sites
    <2> QED
        BY <1>1, <2>1, <2>2, LookupMove, OneUrl DEF OwnerInv, UrlInv
<1>2. CASE UNCHANGED vars
    BY <1>2 DEF vars, configVars, control, OwnerInv, Records
<1>3. CASE Crash
    BY <1>3 DEF Crash, OwnerInv
<1>4. ASSUME NEW t \in Thread, Moving(t) PROVE OwnerInv'
    <2>1. \A s \in Thread : s = t
        BY DEF OneThread
    <2> QED
        BY <1>1, <1>4, <2>1 DEF OwnerInv
<1> QED
    BY <1>2, <1>3, <1>4, NextMoves

LEMMA OwnerInvariant ==
    OneThread => (Spec => [](TypeInv /\ SiteInv /\ CallInv /\ UrlInv /\ OwnerInv))
<1> SUFFICES ASSUME OneThread
             PROVE  Spec => [](TypeInv /\ SiteInv /\ CallInv /\ UrlInv /\ OwnerInv)
    OBVIOUS
<1>1. ASSUME Init PROVE OwnerInv
    BY <1>1, InitRecords DEF OwnerInv
<1>2. TypeInv /\ UrlInv /\ OwnerInv /\ [Next]_vars => OwnerInv'
    BY NextOwner
<1>3. Spec => [](TypeInv /\ SiteInv /\ CallInv /\ UrlInv)
    BY UrlInvariant
<1> QED
    BY <1>1, <1>2, <1>3, PTL DEF Spec

(* The record taken by a deletion by srcPath has that srcPath.             *)
LEMMA DroppedByUrl ==
    ASSUME ConfigTypeOK, NEW u, NEW ok \in BOOLEAN, DeleteScopeFontRecordByUrl(u, ok),
           configFile' = "valid"
    PROVE  \A r \in Dropped : r \in Records /\ r.srcPath = u
<1>1. CASE UNCHANGED configVars
    BY <1>1, NoneDropped
<1>2. ASSUME NEW i \in WithUrl(u), Drops(i)
      PROVE  \A r \in Dropped : r \in Records /\ r.srcPath = u
    BY <1>2, DroppedRecord DEF WithUrl, Records
<1> QED
    BY <1>1, <1>2, UrlDeletion DEF Truncated

(* UninstallScopeFont never takes a font of another application, although  *)
(* it checks the owner of one record and then deletes whatever record has  *)
(* the srcPath: in calls that do not overlap, with any faults and crashes. *)
THEOREM OwnersUninstall == OneThread => (Spec => OnlyOwnerUninstalls)
<1> SUFFICES ASSUME OneThread PROVE Spec => OnlyOwnerUninstalls
    OBVIOUS
<1> DEFINE A == \A t \in Thread :
        pc[t] = "deleteScope" /\ pc'[t] = "idle" /\ configFile' = "valid"
        => \A r \in Dropped : r.appId = loc[t].id
<1>1. ASSUME TypeInv, OwnerInv, Next PROVE A
    <2> SUFFICES ASSUME NEW t \in Thread, pc[t] = "deleteScope", pc'[t] = "idle",
                        configFile' = "valid"
                 PROVE  \A r \in Dropped : r.appId = loc[t].id
        OBVIOUS
    <2>1. CASE Crash
        BY <2>1, NoneDropped DEF Crash, Truncated
    <2>2. CASE Moving(t)
        <3>1. PICK ok \in BOOLEAN : DeleteScopeFontRecordByUrl(loc[t].url, ok)
            BY <2>2 DEF Moving, CallMoves, ReadMoves, FileMoves, ConfigMoves, Onward
        <3> QED
            BY <1>1, <3>1, DroppedByUrl DEF TypeInv, OwnerInv
    <2> QED
        BY <1>1, <2>1, <2>2, StepOf
<1>2. ASSUME TypeInv, OwnerInv, [Next]_vars PROVE [A]_vars
    BY <1>1, <1>2
<1>3. Spec => [](TypeInv /\ SiteInv /\ CallInv /\ UrlInv /\ OwnerInv)
    BY OwnerInvariant
<1>4. Spec => [][A]_vars
    BY <1>2, <1>3, PTL DEF Spec
<1> QED
    BY <1>4 DEF OnlyOwnerUninstalls

-----------------------------------------------------------------------------
(* The cleanups, in calls that do not overlap.                             *)

(* What a cleanup takes.                                                   *)
Selected(op, id, r) ==
    /\ r.scope # "none"
    /\ op = "CleanupAppScopeFonts" => r.appId = id
    /\ op = "CleanupAppScopeFontsOnStart" => r.scope = "app"

(* The snapshot of a cleanup is what it selects.                           *)
LEMMA SnapshotOf ==
    ASSUME NEW op \in Cleanups, NEW id
    PROVE  Snapshot(op, id) = {r \in Records : Selected(op, id, r)}
BY DEF Snapshot, Selected, Cleanups, UserCleanup, GetFontRecordsByAppId, GetScopeFontRecords,
       GetAppScopeFontRecords

(* The record whose file the cleanup has just removed, and what is left:   *)
(* the records to remove are exactly those that it began with and has not  *)
(* come to, unless a failing write has kept one.                           *)
Doing(t) == {r \in Records : pc[t] = "deleteClean" /\ r.srcPath = loc[t].url}
TodoOK(t) ==
    pc[t] \in {"clean", "deleteClean"} =>
        /\ \A r \in Doing(t) : r \notin loc[t].todo /\ r.path = loc[t].path
        /\ configFile = "valid" =>
            \A r \in loc[t].todo \cup Doing(t) :
                r \in Records /\ Selected(loc[t].op, loc[t].id, r)
        /\ "write" \notin Fault =>
            \A r \in Records :
                Selected(loc[t].op, loc[t].id, r) => r \in loc[t].todo \cup Doing(t)
TodoInv == \A t \in Thread : TodoOK(t)

(* How a cleanup goes through its snapshot.                                *)
LEMMA CleanMove ==
    ASSUME NEW t \in Thread, Moving(t), pc'[t] \in {"clean", "deleteClean"}
    PROVE  \/ StartsCleanup(t) /\ UNCHANGED configVars
           \/ /\ pc[t] = "clean" /\ pc'[t] = "deleteClean" /\ UNCHANGED configVars
              /\ loc'[t].op = loc[t].op /\ loc'[t].id = loc[t].id
              /\ \E r \in loc[t].todo :
                    /\ loc'[t].path = r.path /\ loc'[t].url = r.srcPath
                    /\ loc'[t].todo = loc[t].todo \ {r}
           \/ /\ pc[t] = "deleteClean" /\ pc'[t] = "clean" /\ loc'[t] = loc[t]
              /\ \E ok \in BOOLEAN : DeleteScopeFontRecordByUrl(loc[t].url, ok)
<1>1. CASE CallMoves(t)
    BY <1>1 DEF CallMoves, StartsInstall, StartsUninstall, StartsScopeUninstall, Starts,
       Ends, Goes
<1>2. CASE ReadMoves(t)
    BY <1>2 DEF ReadMoves, Onward, Ends, Takes, GoesOn, Targets, Goes
<1>3. CASE FileMoves(t)
    BY <1>3 DEF FileMoves, Ends, GoesOn, Targets, Goes
<1>4. CASE ConfigMoves(t)
    BY <1>4 DEF ConfigMoves, Ends, Takes, GoesOn, Targets, Goes, AfterInit
<1> QED
    BY <1>1, <1>2, <1>3, <1>4 DEF Moving

(* Each round takes one record off the snapshot and off the                *)
(* configuration.                                                          *)
LEMMA TodoMove ==
    ASSUME TypeInv, SiteInv, CallInv, UrlInv, TodoInv, NEW t \in Thread, Moving(t)
    PROVE  TodoOK(t)'
<1> SUFFICES ASSUME pc'[t] \in {"clean", "deleteClean"} PROVE TodoOK(t)'
    BY DEF TodoOK
<1>1. ConfigTypeOK /\ UniqueUrls /\ TodoOK(t)
    BY DEF TypeInv, UrlInv, TodoInv
<1>2. CASE StartsCleanup(t) /\ UNCHANGED configVars
    <2>1. PICK op \in Cleanups, id \in Dir :
            Starts(t, "clean", op, NoFont, NoUrl, id, NoPath, Snapshot(op, id))
        BY <1>2 DEF StartsCleanup, Cleanups
    <2>2. loc'[t].op = op /\ loc'[t].id = id /\ pc'[t] = "clean"
          /\ loc'[t].todo = {r \in Records : Selected(op, id, r)}
        BY <2>1, SnapshotOf DEF Starts, Goes
    <2>3. Records' = Records
        BY <1>2 DEF Records, configVars
    <2> QED
        BY <2>2, <2>3 DEF TodoOK, Doing
<1>3. ASSUME pc[t] = "clean", pc'[t] = "deleteClean", UNCHANGED configVars,
             loc'[t].op = loc[t].op, loc'[t].id = loc[t].id, NEW r \in loc[t].todo,
             loc'[t].path = r.path, loc'[t].url = r.srcPath, loc'[t].todo = loc[t].todo \ {r}
      PROVE  TodoOK(t)'
    <2>1. Records' = Records /\ configFile' = configFile
        BY <1>3 DEF Records, configVars
    <2>2. r.srcPath # NoUrl
        BY <1>3, Sites DEF SiteInv, Sited, RecordOK
    <2>3. Doing(t) = {}
        BY <1>3 DEF Doing
    <2>4. configFile = "valid" => /\ r \in Records
                                  /\ \A s \in Records : s.srcPath = r.srcPath => s = r
        BY <1>1, <1>3, <2>2, OneUrl DEF TodoOK
    <2>5. configFile # "valid" => Records = {}
        BY <1>1 DEF ConfigTypeOK, Records
    <2>6. \A s \in Doing(t)' : s = r /\ s \in Records
        BY <1>3, <2>1, <2>4, <2>5 DEF Doing
    <2>7. r \in Records => r \in Doing(t)'
        BY <1>3, <2>1 DEF Doing
    <2> QED
        BY <1>1, <1>3, <2>1, <2>3, <2>6, <2>7 DEF TodoOK
<1>4. ASSUME pc[t] = "deleteClean", pc'[t] = "clean", loc'[t] = loc[t], NEW ok \in BOOLEAN,
             DeleteScopeFontRecordByUrl(loc[t].url, ok)
      PROVE  TodoOK(t)'
    <2>1. Doing(t)' = {}
        BY <1>4 DEF Doing
    <2>2. loc[t].url \in Url
        BY <1>4 DEF SiteInv, Sited
    <2>3. CASE UNCHANGED configVars /\ (WithUrl(loc[t].url) = {} \/ "write" \in Fault)
        <3>1. Records' = Records /\ configFile' = configFile
            BY <2>3 DEF Records, configVars
        <3>2. "write" \notin Fault => Doing(t) = {}
            BY <2>3 DEF Doing, WithUrl, Records
        <3> QED
            BY <1>1, <1>4, <2>1, <3>1, <3>2 DEF TodoOK
    <2>4. CASE Truncated /\ "write" \in Fault
        BY <1>4, <2>1, <2>4 DEF TodoOK, Truncated
    <2>5. ASSUME NEW i \in WithUrl(loc[t].url), Drops(i) PROVE TodoOK(t)'
        <3>1. Records' = {r \in Records : r.srcPath # loc[t].url}
            BY <1>1, <2>2, <2>5, UrlDrop
        <3>2. Records' = Records \ Doing(t) /\ configFile = "valid"
            BY <1>4, <2>5, <3>1 DEF Doing, Drops, Rewrites
        <3> QED
            BY <1>1, <1>4, <2>1, <3>2 DEF TodoOK
    <2> QED
        BY <1>1, <1>4, <2>3, <2>4, <2>5, UrlDeletion
<1> QED
    BY <1>2, <1>3, <1>4, CleanMove

(* TodoInv is inductive.                                                   *)
LEMMA NextTodo ==
    ASSUME TypeInv, SiteInv, CallInv, UrlInv, TodoInv, OneThread, [Next]_vars
    PROVE  TodoInv'
<1>1. CASE UNCHANGED vars
    BY <1>1 DEF vars, configVars, control, TodoInv, TodoOK, Doing, Records
<1>2. CASE Crash
    BY <1>2 DEF Crash, TodoInv, TodoOK
<1>3. ASSUME NEW t \in Thread, Moving(t) PROVE TodoInv'
    <2>1. \A s \in Thread : s = t
        BY DEF OneThread
    <2>2. TodoOK(t)'
        BY <1>3, TodoMove
    <2> QED
        BY <2>1, <2>2 DEF TodoInv
<1> QED
    BY <1>1, <1>2, <1>3, NextMoves

LEMMA TodoInvariant ==
    OneThread => (Spec => [](TypeInv /\ SiteInv /\ CallInv /\ UrlInv /\ OwnerInv /\ TodoInv))
<1> SUFFICES ASSUME OneThread
             PROVE  Spec => [](TypeInv /\ SiteInv /\ CallInv /\ UrlInv /\ OwnerInv /\ TodoInv)
    OBVIOUS
<1>1. ASSUME Init PROVE TodoInv
    BY <1>1, InitRecords DEF TodoInv, TodoOK
<1>2. TypeInv /\ SiteInv /\ CallInv /\ UrlInv /\ TodoInv /\ [Next]_vars => TodoInv'
    BY NextTodo
<1>3. Spec => [](TypeInv /\ SiteInv /\ CallInv /\ UrlInv /\ OwnerInv)
    BY OwnerInvariant
<1> QED
    BY <1>1, <1>2, <1>3, PTL DEF Spec

(* A cleanup deletes no directory but those of applications.               *)
LEMMA AppDirs ==
    ASSUME TypeInv, CallInv, NEW t \in Thread, pc[t] = "clean"
    PROVE  Root \notin DirsAfter(loc[t].op, loc[t].id)
<1>1. loc[t].op \in Cleanups /\ (loc[t].op = "CleanupAppScopeFonts" => loc[t].id \in AppId)
    BY DEF CallInv, Called
<1>2. dirs \subseteq AppId
    BY DEF TypeInv, StorageOK
<1> QED
    BY <1>1, <1>2, Sites DEF DirsAfter, Cleanups, UserCleanup

(* The files that go in a cleanup or a scope uninstallation are those of   *)
(* applications.                                                           *)
LEMMA AppFilesGo ==
    ASSUME TypeInv, SiteInv, CallInv, NEW t \in Thread, Moving(t),
           pc[t] \in {"clean", "deleteClean", "removeScope", "deleteScope"},
           NEW p \in DOMAIN files \ DOMAIN files'
    PROVE  p.dir # Root
<1>1. Root \notin AppId /\ Sited(pc[t], loc[t])
    BY Sites DEF SiteInv
<1>2. ASSUME NEW P, files' = Without(P) PROVE p \in P
    BY <1>2 DEF Without
<1>3. CASE pc[t] = "clean" /\ DeleteDirs(DirsAfter(loc[t].op, loc[t].id))
    BY <1>2, <1>3, AppDirs, DirsGo DEF FilesIn
<1>4. ASSUME pc[t] = "clean", NEW r \in loc[t].todo, NEW ok, RemoveFile(r.path, ok)
      PROVE  p.dir # Root
    BY <1>1, <1>2, <1>4 DEF RemoveFile, Sited, RecordOK
<1>5. CASE pc[t] = "removeScope" /\ files' = Without({loc[t].path})
    BY <1>1, <1>2, <1>5 DEF Sited
<1>6. files' # files
    OBVIOUS
<1>7. FileMoves(t)
    BY <1>6 DEF Moving, CallMoves, ReadMoves, ConfigMoves
<1> QED
    BY <1>3, <1>4, <1>5, <1>7 DEF FileMoves

(* A cleanup or scope uninstallation drops the record it is about.         *)
LEMMA AppRecordsGo ==
    ASSUME TypeInv, SiteInv, OwnerInv, TodoInv, NEW t \in Thread, Moving(t),
           pc[t] \in {"clean", "deleteClean", "removeScope", "deleteScope"},
           configFile' = "valid", NEW r \in Dropped
    PROVE  /\ r.scope \in {"app", "session"}
           /\ loc[t].op \in {"CleanupAppScopeFonts", "CleanupAppScopeFontsOnStart"}
                => pc[t] = "deleteClean" /\ Selected(loc[t].op, loc[t].id, r)
<1>1. ConfigTypeOK
    BY DEF TypeInv
<1>2. CASE pc[t] \in {"clean", "removeScope"}
    <2>1. UNCHANGED configVars
        BY <1>2 DEF Moving, CallMoves, ReadMoves, FileMoves, ConfigMoves
    <2> QED
        BY <2>1, NoneDropped
<1>3. CASE pc[t] \in {"deleteClean", "deleteScope"}
    <2>1. PICK ok \in BOOLEAN : DeleteScopeFontRecordByUrl(loc[t].url, ok)
        BY <1>3 DEF Moving, CallMoves, ReadMoves, FileMoves, ConfigMoves, Onward
    <2>2. r \in Records /\ r.srcPath = loc[t].url
        BY <1>1, <2>1, DroppedByUrl
    <2>3. loc[t].url \in Url /\ RecordOK(r) /\ r.appId \in Dir
        BY <1>1, <1>3, <2>2, RecordTypes DEF SiteInv, Sited
    <2>4. r.scope \in {"app", "session"}
        BY <2>2, <2>3, Sites DEF RecordOK
    <2>5. CASE pc[t] = "deleteScope"
        BY <2>4, <2>5 DEF OwnerInv
    <2>6. CASE pc[t] = "deleteClean"
        <3>1. configFile = "valid" /\ r \in Doing(t)
            BY <1>1, <2>2, <2>6 DEF ConfigTypeOK, Records, Doing
        <3> QED
            BY <2>4, <2>6, <3>1 DEF TodoInv, TodoOK
    <2> QED
        BY <1>3, <2>5, <2>6
<1> QED
    BY <1>2, <1>3

(* Cleanups and scope uninstallations spare what is not theirs: those of   *)
(* application scope every session font, all of them every font of the     *)
(* whole user, its record and its file alike.  In calls that do not        *)
(* overlap, with any faults and crashes, for any number of applications.   *)
THEOREM CleanupsSpareOthers == OneThread => (Spec => CleanupSparesOthers)
<1> SUFFICES ASSUME OneThread PROVE Spec => CleanupSparesOthers
    OBVIOUS
<1> DEFINE A == \A t \in Thread :
        pc[t] \in {"clean", "deleteClean", "removeScope", "deleteScope"} /\ pc'[t] # pc[t]
        => /\ configFile' = "valid" =>
                \A r \in Dropped :
                    r.scope \in IF loc[t].op \in {"CleanupAppScopeFonts",
                                                 "CleanupAppScopeFontsOnStart"}
                                THEN {"app"} ELSE {"app", "session"}
           /\ \A p \in DOMAIN files \ DOMAIN files' : p.dir # Root
<1>1. ASSUME TypeInv, SiteInv, CallInv, OwnerInv, TodoInv, Next PROVE A
    <2> SUFFICES ASSUME NEW t \in Thread, pc'[t] # pc[t],
                        pc[t] \in {"clean", "deleteClean", "removeScope", "deleteScope"}
                 PROVE  /\ configFile' = "valid" =>
                            \A r \in Dropped :
                                r.scope \in IF loc[t].op \in {"CleanupAppScopeFonts",
                                                             "CleanupAppScopeFontsOnStart"}
                                            THEN {"app"} ELSE {"app", "session"}
                        /\ \A p \in DOMAIN files \ DOMAIN files' : p.dir # Root
        OBVIOUS
    <2>1. CASE Crash
        BY <2>1, NoneDropped DEF Crash, Truncated, storage
    <2>2. CASE Moving(t)
        <3>1. ASSUME configFile' = "valid", NEW r \in Dropped,
                     loc[t].op \in {"CleanupAppScopeFonts", "CleanupAppScopeFontsOnStart"}
              PROVE  r.scope = "app"
            <4>1. pc[t] = "deleteClean" /\ Selected(loc[t].op, loc[t].id, r)
                BY <1>1, <2>2, <3>1, AppRecordsGo
            <4>2. CASE loc[t].op = "CleanupAppScopeFonts"
                <5>1. r.appId.scope = "app"
                    BY <1>1, <4>1, <4>2 DEF CallInv, Called, Selected
                <5> QED
                    BY <1>1, <5>1 DEF SiteInv, RecordOK, Dropped
            <4> QED
                BY <3>1, <4>1, <4>2 DEF Selected
        <3> QED
            BY <1>1, <2>2, <3>1, AppRecordsGo, AppFilesGo
    <2> QED
        BY <1>1, <2>1, <2>2, StepOf
<1>2. ASSUME TypeInv, SiteInv, CallInv, OwnerInv, TodoInv, [Next]_vars PROVE [A]_vars
    BY <1>1, <1>2
<1>3. Spec => [](TypeInv /\ SiteInv /\ CallInv /\ UrlInv /\ OwnerInv /\ TodoInv)
    BY TodoInvariant
<1>4. Spec => [][A]_vars
    BY <1>2, <1>3, PTL DEF Spec
<1> QED
    BY <1>4 DEF CleanupSparesOthers

(* A cleanup of an application leaves no record of it, although it works   *)
(* through a snapshot and removals of files may fail meanwhile, and where  *)
(* none fails no file either: in calls that do not overlap, where no write *)
(* of the configuration fails.                                             *)
THEOREM AppCleanupLeavesNothing ==
    OneThread /\ "write" \notin Fault => (Spec => AppCleanupIsComplete)
<1> SUFFICES ASSUME OneThread, "write" \notin Fault PROVE Spec => AppCleanupIsComplete
    OBVIOUS
<1> DEFINE A == \A t \in Thread :
        /\ pc[t] = "clean" /\ pc'[t] = "idle" /\ loc'[t].ret = "ERR_OK"
        /\ loc[t].op = "CleanupAppScopeFonts"
        => /\ {r \in Records' : r.appId = loc[t].id} = {}
           /\ "remove" \notin Fault => {p \in DOMAIN files' : p.dir = loc[t].id} = {}
<1>1. ASSUME TypeInv, SiteInv, CallInv, TodoInv, Next PROVE A
    <2> SUFFICES ASSUME NEW t \in Thread, pc[t] = "clean", pc'[t] = "idle",
                        loc'[t].ret = "ERR_OK", loc[t].op = "CleanupAppScopeFonts"
                 PROVE  /\ {r \in Records' : r.appId = loc[t].id} = {}
                        /\ "remove" \notin Fault => {p \in DOMAIN files' : p.dir = loc[t].id} = {}
        OBVIOUS
    <2>1. Moving(t)
        BY <1>1, StepOf DEF Idle
    <2>2. /\ UNCHANGED configVars /\ loc[t].todo = {}
          /\ DeleteDirs(DirsAfter(loc[t].op, loc[t].id))
        BY <2>1 DEF Moving, CallMoves, ReadMoves, FileMoves, ConfigMoves, Onward, Goes
    <2>3. ASSUME NEW r \in Records, r.appId = loc[t].id PROVE FALSE
        <3>1. r.scope = "app"
            BY <1>1, <2>3 DEF CallInv, Called, SiteInv, RecordOK
        <3>2. Selected(loc[t].op, loc[t].id, r)
            BY <2>3, <3>1 DEF Selected
        <3> QED
            BY <1>1, <2>2, <3>2 DEF TodoInv, TodoOK, Doing
    <2>4. Records' = Records
        BY <2>2 DEF Records, configVars
    <2>5. DirsAfter(loc[t].op, loc[t].id) = {loc[t].id}
        BY DEF DirsAfter
    <2>6. "remove" \notin Fault => files' = Without(FilesIn({loc[t].id}))
        BY <2>2, <2>5, DirsGo
    <2> QED
        BY <2>3, <2>4, <2>6 DEF Without, FilesIn
<1>2. ASSUME TypeInv, SiteInv, CallInv, TodoInv, [Next]_vars PROVE [A]_vars
    BY <1>1, <1>2
<1>3. Spec => [](TypeInv /\ SiteInv /\ CallInv /\ UrlInv /\ OwnerInv /\ TodoInv)
    BY TodoInvariant
<1>4. Spec => [][A]_vars
    BY <1>2, <1>3, PTL DEF Spec
<1> QED
    BY <1>4, PTL DEF AppCleanupIsComplete

-----------------------------------------------------------------------------
(* Installations, in calls that do not overlap.                            *)

(* A new srcPath is found again where it was put.                          *)
LEMMA FoundAgain ==
    ASSUME ConfigTypeOK, NEW r, Gains(r), NEW u, r.srcPath = u, ~HasUrl(u)
    PROVE  HasUrl(u)' /\ GetFontRecordByUrl(u)' = r
<1> DEFINE n == Len(fontlist')
<1>1. \A j \in DOMAIN fontlist : fontlist[j].srcPath # u
    BY DEF HasUrl, WithUrl
<1>2. /\ \A j \in DOMAIN fontlist : fontlist'[j] = fontlist[j]
      /\ fontlist'[n] = r /\ n \in DOMAIN fontlist'
      /\ \A j \in DOMAIN fontlist' : j \in DOMAIN fontlist \/ j = n
    BY Gained
<1>3. WithUrl(u)' = {n}
    BY <1>1, <1>2 DEF WithUrl
<1>4. n \in Nat
    BY DEF ConfigTypeOK, Gains, Rewrites
<1> HIDE DEF n
<1>5. Min({n}) = n
    BY <1>4, MinOfMatches
<1> QED
    BY <1>2, <1>3, <1>5 DEF HasUrl, GetFontRecordByUrl, First

(* An application sees the font that it has installed, in the scope that   *)
(* it asked for: no older record with the srcPath hides it.  In calls that *)
(* do not overlap, where no write of the configuration fails.              *)
THEOREM InstalledIsVisible ==
    OneThread /\ "write" \notin Fault => (Spec => InstallOkIsVisible)
<1> SUFFICES ASSUME OneThread, "write" \notin Fault PROVE Spec => InstallOkIsVisible
    OBVIOUS
<1> DEFINE A == \A t \in Thread : \A u \in Url, token \in Token :
        /\ pc[t] = "insertScope"
        /\ pc'[t] = "idle" /\ loc'[t].ret = "ERR_OK"
        /\ loc[t].url = u /\ loc[t].id.token = token
        => GetFontScope(u, token)' = loc[t].id.scope
<1>1. ASSUME TypeInv, SiteInv, UrlInv, Next PROVE A
    <2> SUFFICES ASSUME NEW t \in Thread, NEW u \in Url, NEW token \in Token,
                        pc[t] = "insertScope", pc'[t] = "idle", loc'[t].ret = "ERR_OK",
                        loc[t].url = u, loc[t].id.token = token
                 PROVE  GetFontScope(u, token)' = loc[t].id.scope
        OBVIOUS
    <2>1. Moving(t)
        BY <1>1, StepOf DEF Idle
    <2>2. InsertScopeFontRecord(ScopeRecord(t), TRUE)
        BY <2>1 DEF Moving, CallMoves, ReadMoves, FileMoves, ConfigMoves, Onward, Targets, Goes
    <2>3. Gains(ScopeRecord(t))
        BY <2>2, ScopeInsertion
    <2>4. ~HasUrl(u) /\ loc[t].id \in AppId
        BY <1>1 DEF UrlInv, NewUrl, SiteInv, Sited, ScopeLabel, PastUpdate
    <2>5. PICK r : r = ScopeRecord(t)
        OBVIOUS
    <2>6. r.srcPath = u /\ r.appId = loc[t].id /\ r.scope = loc[t].id.scope
        BY <2>5 DEF ScopeRecord
    <2>7. HasUrl(u)' /\ GetFontRecordByUrl(u)' = r
        BY <1>1, <2>3, <2>4, <2>5, <2>6, FoundAgain DEF TypeInv
    <2>8. r.appId = MakeAppIdentifier(r.scope, token)
        BY <2>4, <2>6 DEF AppId, MakeAppIdentifier
    <2> QED
        BY <2>6, <2>7, <2>8 DEF GetFontScope, Owns
<1>2. ASSUME TypeInv, SiteInv, UrlInv, [Next]_vars PROVE [A]_vars
    BY <1>1, <1>2
<1>3. Spec => [](TypeInv /\ SiteInv /\ CallInv /\ UrlInv)
    BY UrlInvariant
<1>4. Spec => [][A]_vars
    BY <1>2, <1>3, PTL DEF Spec
<1> QED
    BY <1>4, PTL DEF InstallOkIsVisible

(* A name that some record has.                                            *)
LEMMA Named ==
    ASSUME NEW n
    PROVE  HasName(n) <=> \E r \in Records : n \in r.names
BY DEF HasName, WithName, Records

(* The names that an installation has been through are new: so are those   *)
(* of the records it deletes on the way, as soon as they are gone.         *)
Untaken(R, n) == \A r \in R : n \notin r.names
Naming == {"find", "probe", "heal", "names"}
AllSeen == {"count", "copy", "insert", "mkdir", "copyScope", "insertScope"}
NameOK(t) ==
    /\ pc[t] \in Naming \cup AllSeen =>
        \A k \in DOMAIN FullNames[loc[t].font] :
            pc[t] \in AllSeen \/ k < loc[t].i => Untaken(Records, FullNames[loc[t].font][k])
    /\ pc[t] \in {"probe", "heal"} =>
        \A r \in Records : FullName(t) \in r.names => r.path = loc[t].path
    /\ pc[t] \in {"create", "fill", "update", "url", "total"} => loc[t].i = 1
NameInv ==
    /\ UniqueNames /\ Upgraded
    /\ \A t \in Thread : NameOK(t)

(* How an installation goes through the names.                             *)
LEMMA NameMoves ==
    ASSUME NEW t \in Thread, Moving(t), pc'[t] \in Naming \cup AllSeen
    PROVE  \/ pc[t] = "idle" /\ pc'[t] = "find" /\ loc'[t].i = 1 /\ UNCHANGED configVars
           \/ pc[t] = "fill" /\ pc'[t] = "find" /\ loc'[t] = loc[t]
           \/ pc[t] = "total" /\ pc'[t] = "names" /\ loc'[t] = loc[t] /\ UNCHANGED configVars
           \/ /\ pc[t] \in {"find", "names"} /\ UNCHANGED configVars /\ ~HasName(FullName(t))
              /\ Takes(t, "find", "count") \/ Takes(t, "names", "mkdir")
           \/ /\ pc[t] = "find" /\ pc'[t] = "probe" /\ UNCHANGED configVars
              /\ HasName(FullName(t)) /\ Targets(t, "probe", GetFontFileByName(FullName(t)))
           \/ pc[t] = "probe" /\ pc'[t] = "heal" /\ loc'[t] = loc[t] /\ UNCHANGED configVars
           \/ /\ pc[t] = "heal" /\ DeleteFontRecord(loc[t].path, TRUE)
              /\ Takes(t, "find", "count")
           \/ /\ pc[t] \in AllSeen /\ pc'[t] \in AllSeen /\ UNCHANGED configVars
              /\ loc'[t].font = loc[t].font
<1> USE DEF Naming, AllSeen
<1>1. CASE CallMoves(t)
    BY <1>1 DEF CallMoves, StartsInstall, StartsUninstall, StartsScopeUninstall,
       StartsCleanup, Starts, Ends, Goes
<1>2. CASE ReadMoves(t)
    BY <1>2 DEF ReadMoves, Onward, Ends, GoesOn, Targets, Goes
<1>3. CASE FileMoves(t)
    BY <1>3 DEF FileMoves, Ends, GoesOn, Targets, SameCall, Goes
<1>4. CASE ConfigMoves(t)
    BY <1>4 DEF ConfigMoves, Ends, GoesOn, Targets, Goes, AfterInit
<1> QED
    BY <1>1, <1>2, <1>3, <1>4 DEF Moving

(* A deletion by path takes the record with that path.                     *)
LEMMA PathDrop ==
    ASSUME ConfigTypeOK, UniquePaths, NEW p, NEW i \in WithPath(p), Drops(i)
    PROVE  Records' = {r \in Records : r.path # p}
<1>1. i \in DOMAIN fontlist /\ fontlist[i].path = p
    BY DEF WithPath
<1>2. \A j \in DOMAIN fontlist : j # i => fontlist[j].path # p
    BY <1>1 DEF UniquePaths
<1>3. \A r \in Records' : r.path # p
    BY <1>2, Lost DEF Records
<1>4. Records' \subseteq Records /\ Records \subseteq Records' \cup {fontlist[i]}
    BY Lost
<1> QED
    BY <1>1, <1>3, <1>4

(* The next name is taken when no record has the last one.                 *)
LEMMA NameTaken ==
    ASSUME TypeInv, NEW t \in Thread, NameOK(t), pc[t] \in Naming,
           Takes(t, "find", "count") \/ Takes(t, "names", "mkdir"),
           Records' \subseteq Records, Untaken(Records', FullName(t))
    PROVE  NameOK(t)'
<1> DEFINE F == FullNames[loc[t].font]
<1>1. loc[t].i \in Nat /\ loc[t].font \in Font
    BY LocalType DEF Ready, Local, Naming
<1>2. F \in Seq(Name) /\ DOMAIN F = 1 .. Len(F) /\ Len(F) \in Nat
    BY <1>1, FontConfigAssumption
<1>3. loc'[t].font = loc[t].font
    BY DEF Takes, Targets, SameCall
<1>4. \A k \in DOMAIN F : k < loc[t].i => Untaken(Records', F[k])
    BY DEF NameOK, Untaken
<1>5. Untaken(Records', F[loc[t].i])
    BY DEF FullName
<1> HIDE DEF F
<1>6. CASE /\ pc'[t] \in {"find", "names"} /\ loc'[t].i = loc[t].i + 1
    <2>1. \A k \in DOMAIN F : k < loc'[t].i => Untaken(Records', F[k])
        BY <1>1, <1>2, <1>4, <1>5, <1>6
    <2> QED
        BY <1>3, <1>6, <2>1 DEF NameOK, Naming, AllSeen, F
<1>7. CASE LastName(t) /\ pc'[t] \in {"count", "mkdir"}
    <2>1. loc[t].i >= Len(F)
        BY <1>7 DEF LastName, F
    <2>2. \A k \in DOMAIN F : Untaken(Records', F[k])
        BY <1>1, <1>2, <1>4, <1>5, <2>1
    <2> QED
        BY <1>3, <1>7, <2>2 DEF NameOK, Naming, AllSeen, F
<1> QED
    BY <1>6, <1>7 DEF Takes, Targets, Goes

(* The names seen so far stay free, or are those of the record about to    *)
(* go.                                                                     *)
LEMMA NameMove ==
    ASSUME TypeInv, FreshInv, NameInv, NEW t \in Thread, Moving(t), TypeInv'
    PROVE  NameOK(t)'
<1>1. ConfigTypeOK /\ UniquePaths /\ UniqueNames /\ NameOK(t)
    BY DEF TypeInv, FreshInv, NameInv
<1>2. ASSUME pc'[t] \in {"create", "fill", "update", "url", "total"} PROVE loc'[t].i = 1
    <2>1. CASE CallMoves(t)
        BY <1>2, <2>1 DEF CallMoves, StartsInstall, StartsUninstall, StartsScopeUninstall,
           StartsCleanup, Starts, Ends, Goes
    <2>2. CASE ReadMoves(t)
        BY <1>1, <1>2, <2>2 DEF ReadMoves, Onward, Ends, Takes, GoesOn, Targets, Goes, NameOK
    <2>3. CASE FileMoves(t)
        BY <1>2, <2>3 DEF FileMoves, Ends, GoesOn, Targets, Goes
    <2>4. CASE ConfigMoves(t)
        BY <1>1, <1>2, <2>4 DEF ConfigMoves, Ends, Takes, GoesOn, Targets, Goes, NameOK,
           AfterInit
    <2> QED
        BY <2>1, <2>2, <2>3, <2>4 DEF Moving
<1>3. CASE pc'[t] \in Naming \cup AllSeen
    <2>1. UNCHANGED configVars => Records' = Records
        BY DEF Records, configVars
    <2>2. CASE pc'[t] \in {"find", "names"} /\ loc'[t].i = 1
        <3>1. loc'[t].font \in Font
            BY <2>2 DEF TypeInv, ControlOK, Ready
        <3>2. \A k \in DOMAIN FullNames[loc'[t].font] : ~(k < 1)
            BY <3>1, FontConfigAssumption
        <3> QED
            BY <2>2, <3>2 DEF NameOK, Naming, AllSeen
    <2>3. CASE pc[t] = "fill" /\ pc'[t] = "find" /\ loc'[t] = loc[t]
        BY <1>1, <2>2, <2>3 DEF NameOK
    <2>4. CASE /\ pc[t] \in {"find", "names"} /\ UNCHANGED configVars /\ ~HasName(FullName(t))
               /\ Takes(t, "find", "count") \/ Takes(t, "names", "mkdir")
        <3>1. Untaken(Records', FullName(t))
            BY <2>1, <2>4, Named DEF Untaken
        <3> QED
            BY <1>1, <2>1, <2>4, <3>1, NameTaken DEF Naming
    <2>5. CASE /\ pc[t] = "find" /\ pc'[t] = "probe" /\ UNCHANGED configVars
               /\ HasName(FullName(t)) /\ Targets(t, "probe", GetFontFileByName(FullName(t)))
        <3> DEFINE n == FullName(t)
        <3>1. GetFontRecordByName(n) \in Records /\ n \in GetFontRecordByName(n).names
            BY <1>1, <2>5, FoundByName
        <3>2. \A r \in Records : n \in r.names => r = GetFontRecordByName(n)
            BY <1>1, <3>1 DEF UniqueNames, Records
        <3>3. \A r \in Records : n \in r.names => r.path = loc'[t].path
            BY <2>5, <3>2 DEF Targets, GetFontFileByName
        <3>4. loc'[t].font = loc[t].font /\ loc'[t].i = loc[t].i
            BY <2>5 DEF Targets, SameCall
        <3>5. FullName(t)' = n
            BY <3>4 DEF FullName
        <3> HIDE DEF n
        <3> QED
            BY <1>1, <2>1, <2>5, <3>3, <3>4, <3>5 DEF NameOK, Naming, AllSeen
    <2>6. CASE /\ pc[t] \in {"probe", "total"} /\ loc'[t] = loc[t] /\ UNCHANGED configVars
               /\ pc'[t] = IF pc[t] = "probe" THEN "heal" ELSE "names"
        <3>1. CASE pc[t] = "total"
            BY <1>1, <2>2, <2>6, <3>1 DEF NameOK
        <3>2. CASE pc[t] = "probe"
            BY <1>1, <2>1, <2>6, <3>2 DEF NameOK, Naming, AllSeen, FullName
        <3> QED
            BY <2>6, <3>1, <3>2
    <2>7. CASE /\ pc[t] = "heal" /\ DeleteFontRecord(loc[t].path, TRUE)
               /\ Takes(t, "find", "count")
        <3>1. \/ Records' = {}
              \/ Records' = {r \in Records : r.path # loc[t].path}
            <4>1. ASSUME NEW i \in WithPath(loc[t].path), Drops(i)
                  PROVE  Records' = {r \in Records : r.path # loc[t].path}
                BY <1>1, <4>1, PathDrop
            <4>2. Truncated => Records' = {}
                BY DEF Truncated, Records
            <4> QED
                BY <1>1, <2>7, <4>1, <4>2, PathDeletion
        <3>2. Untaken(Records', FullName(t))
            BY <1>1, <2>7, <3>1 DEF Untaken, NameOK
        <3> QED
            BY <1>1, <2>7, <3>1, <3>2, NameTaken DEF Naming
    <2>8. CASE /\ pc[t] \in AllSeen /\ pc'[t] \in AllSeen /\ UNCHANGED configVars
               /\ loc'[t].font = loc[t].font
        BY <1>1, <2>1, <2>8 DEF NameOK, Naming, AllSeen
    <2> QED
        BY <1>3, <2>2, <2>3, <2>4, <2>5, <2>6, <2>7, <2>8, NameMoves
<1> QED
    BY <1>2, <1>3 DEF NameOK, Naming, AllSeen

(* A record inserted has names that no other record has.                   *)
LEMMA UniqueNamesMove ==
    ASSUME TypeInv, NameInv, NEW t \in Thread, Moving(t)
    PROVE  UniqueNames'
<1>1. ConfigTypeOK /\ UniqueNames /\ Upgraded /\ NameOK(t)
    BY DEF TypeInv, NameInv
<1>2. CASE UNCHANGED configVars \/ Loses
    BY <1>1, <1>2 DEF Loses, UniqueNames, configVars
<1>3. ASSUME NEW i, Drops(i) PROVE UniqueNames'
    BY <1>1, <1>3, Lost DEF UniqueNames
<1>4. CASE Refreshes
    BY <1>1, <1>4 DEF Refreshes, Rewrites, Upgraded
<1>5. ASSUME NEW r, Gains(r), r.names = NamesOf(loc[t].font),
             pc[t] \in {"insert", "insertScope"}
      PROVE  UniqueNames'
    <2>1. \A n \in r.names : Untaken(Records, n)
        BY <1>1, <1>5 DEF NameOK, AllSeen, NamesOf
    <2>2. \A j \in DOMAIN fontlist : fontlist[j].names \cap r.names = {}
        BY <2>1 DEF Untaken, Records
    <2> QED
        BY <1>1, <1>5, <2>2, Gained DEF UniqueNames
<1>6. /\ \A p, names : UserRecord(p, names).names = names
      /\ ScopeRecord(t).names = NamesOf(loc[t].font)
    BY DEF UserRecord, ScopeRecord
<1> QED
    BY <1>2, <1>3, <1>4, <1>5, <1>6, RecordMove

(* NameInv is inductive.                                                   *)
LEMMA NextNames ==
    ASSUME TypeInv, FreshInv, NameInv, OneThread, [Next]_vars
    PROVE  NameInv'
<1>1. TypeInv' /\ Upgraded'
    BY NextType, StaysUpgraded DEF NameInv
<1>2. CASE UNCHANGED vars
    BY <1>1, <1>2 DEF vars, configVars, control, NameInv, UniqueNames, NameOK, Records, FullName
<1>3. CASE Crash
    <2>1. UniqueNames'
        BY <1>3 DEF Crash, Truncated, NameInv, UniqueNames, configVars
    <2>2. \A t \in Thread : NameOK(t)'
        BY <1>3 DEF Crash, NameOK, Naming, AllSeen
    <2> QED
        BY <1>1, <2>1, <2>2 DEF NameInv
<1>4. ASSUME NEW t \in Thread, Moving(t) PROVE NameInv'
    <2>1. \A s \in Thread : s = t
        BY DEF OneThread
    <2>2. NameOK(t)'
        BY <1>1, <1>4, NameMove
    <2>3. UniqueNames'
        BY <1>4, UniqueNamesMove
    <2> QED
        BY <1>1, <2>1, <2>2, <2>3 DEF NameInv
<1> QED
    BY <1>2, <1>3, <1>4, NextMoves

LEMMA NameInvariant ==
    OneThread /\ ~RepeatTag /\ "old" \notin InitialFile
    => (Spec => [](TypeInv /\ FreshInv /\ NameInv))
<1> SUFFICES ASSUME OneThread, ~RepeatTag, "old" \notin InitialFile
             PROVE  Spec => [](TypeInv /\ FreshInv /\ NameInv)
    OBVIOUS
<1>1. ASSUME Init PROVE NameInv
    <2>1. Upgraded /\ DOMAIN fontlist = {}
        BY <1>1, InitRecords DEF Init, InitStore, Upgraded
    <2> QED
        BY <1>1, <2>1, InitRecords DEF NameInv, NameOK, UniqueNames, Naming, AllSeen
<1>2. TypeInv /\ FreshInv /\ NameInv /\ [Next]_vars => NameInv'
    BY NextNames
<1>3. Spec => [](TypeInv /\ FreshInv)
    BY FreshInvariant
<1> QED
    BY <1>1, <1>2, <1>3, PTL DEF Spec

(* No two installed fonts claim the same full name or the same srcPath,    *)
(* although InstallFont goes through the names one by one and deletes      *)
(* records on the way, and nothing is checked again when the record is     *)
(* inserted: in calls that do not overlap, with any faults and crashes, in *)
(* a store that is not of an older release.                                *)
THEOREM NothingTwice ==
    OneThread /\ ~RepeatTag /\ "old" \notin InitialFile => (Spec => []NoDoubleRecord)
<1> SUFFICES ASSUME OneThread, ~RepeatTag, "old" \notin InitialFile
             PROVE  Spec => []NoDoubleRecord
    OBVIOUS
<1>1. Spec => [](TypeInv /\ FreshInv /\ NameInv)
    BY NameInvariant
<1>2. Spec => [](TypeInv /\ SiteInv /\ CallInv /\ UrlInv)
    BY UrlInvariant
<1>3. NameInv /\ UrlInv => NoDoubleRecord
    BY DEF NameInv, UrlInv, NoDoubleRecord
<1> QED
    BY <1>1, <1>2, <1>3, PTL

-----------------------------------------------------------------------------
(* The configuration and the disk, in calls that do not overlap.           *)

Reliable == Fault \cap {"write", "remove", "crash"} = {}

(* An operation leaves a file without a record, or a record without its    *)
(* file, only for its own next step to mend: it deletes the record whose   *)
(* file is gone, it inserts the record of the copy it has made, and it     *)
(* creates the configuration file where nothing is installed.              *)
DiskOK(t) ==
    /\ configFile = "missing" => pc[t] \in {"idle", "create", "clean", "deleteClean"}
    /\ pc[t] = "create" => configFile = "missing"
    /\ pc[t] = "fill" => DOMAIN files = {}
    /\ pc[t] \in {"insert", "insertScope"} => Held(t)
    /\ pc[t] \in Deleting => loc[t].path \notin DOMAIN files
    /\ pc[t] = "deleteClean" =>
        \A r \in Records : r.path = loc[t].path => r.srcPath = loc[t].url
DiskInv ==
    /\ configFile = "missing" => DOMAIN files = {}
    /\ \A t \in Thread : DiskOK(t)

(* The configuration is lost by its creation only.                         *)
LEMMA StaysValid ==
    ASSUME "write" \notin Fault, NEW t \in Thread, Moving(t)
    PROVE  \/ UNCHANGED configVars \/ configFile' = "valid"
           \/ pc[t] = "create" /\ configFile' = "broken"
<1>1. CASE ConfigMoves(t)
    BY <1>1 DEF ConfigMoves, DeleteFontRecord, DeleteScopeFontRecordByUrl, DeleteFirst, Refuse,
       InsertFontRecordIfUnderLimit, InsertScopeFontRecord, CheckAndUpdateFontRecord,
       WriteToFile, CreateFontConfig, FillFontConfig, Truncated
<1> QED
    BY <1>1 DEF Moving, CallMoves, ReadMoves, FileMoves

(* Where the configuration is missing there is nothing to install or to    *)
(* uninstall yet.                                                          *)
LEMMA MissingMove ==
    ASSUME TypeInv, DiskInv, "write" \notin Fault, NEW t \in Thread, Moving(t),
           configFile' = "missing"
    PROVE  pc'[t] \in {"idle", "create", "clean", "deleteClean"} /\ DOMAIN files' = {}
<1>1. UNCHANGED configVars /\ configFile = "missing"
    BY StaysValid DEF configVars
<1>2. DOMAIN files = {} /\ pc[t] \in {"idle", "create", "clean", "deleteClean"}
    BY <1>1 DEF DiskInv, DiskOK
<1>3. fontlist = <<>>
    BY <1>1 DEF TypeInv, ConfigTypeOK
<1>4. (\A n : ~HasName(n)) /\ (\A u : ~HasUrl(u))
    BY <1>3 DEF HasName, WithName, HasUrl, WithUrl
<1>5. CASE CallMoves(t)
    BY <1>1, <1>2, <1>4, <1>5 DEF CallMoves, StartsInstall, StartsUninstall,
       StartsScopeUninstall, StartsCleanup, Starts, Ends, Goes
<1>6. CASE ReadMoves(t)
    BY <1>2, <1>6 DEF ReadMoves, Onward
<1>7. CASE FileMoves(t)
    <2>1. /\ pc[t] = "clean" /\ pc'[t] \in {"idle", "deleteClean"}
          /\ UNCHANGED files \/ \E P : files' = Without(P)
        BY <1>2, <1>7, DirsGo DEF FileMoves, RemoveFile, Ends, Goes
    <2> QED
        BY <1>2, <2>1 DEF Without
<1>8. CASE ConfigMoves(t)
    BY <1>1, <1>2, <1>8 DEF ConfigMoves, GoesOn, Goes, CreateFontConfig, Truncated
<1> QED
    BY <1>5, <1>6, <1>7, <1>8 DEF Moving

(* The file of a record to delete is gone.                                 *)
LEMMA DeletingMove ==
    ASSUME Reliable, NEW t \in Thread, Moving(t), pc'[t] \in Deleting
    PROVE  loc'[t].path \notin DOMAIN files'
<1> USE DEF Deleting
<1>1. CASE CallMoves(t)
    BY <1>1 DEF CallMoves, StartsInstall, StartsUninstall, StartsScopeUninstall,
       StartsCleanup, Starts, Ends, Goes
<1>2. CASE ReadMoves(t)
    BY <1>2 DEF ReadMoves, Onward, Ends, Takes, GoesOn, Targets, Goes
<1>3. CASE FileMoves(t)
    <2>1. files' = Without({loc'[t].path})
        BY <1>3 DEF FileMoves, Ends, GoesOn, Targets, Goes, RemoveFile, Reliable
    <2> QED
        BY <2>1 DEF Without
<1>4. CASE ConfigMoves(t)
    BY <1>4 DEF ConfigMoves, Ends, Takes, GoesOn, Targets, Goes, AfterInit
<1> QED
    BY <1>1, <1>2, <1>3, <1>4 DEF Moving

(* How a configuration file comes to be created.                           *)
LEMMA CreatingMove ==
    ASSUME NEW t \in Thread, Moving(t)
    PROVE  /\ pc'[t] = "create" => configFile' = "missing"
           /\ pc'[t] = "fill" => pc[t] = "create" /\ UNCHANGED files
<1>1. CASE CallMoves(t)
    BY <1>1 DEF CallMoves, StartsInstall, StartsUninstall, StartsScopeUninstall,
       StartsCleanup, Starts, Ends, Goes, configVars
<1>2. CASE ReadMoves(t)
    BY <1>2 DEF ReadMoves, Onward, Ends, Takes, GoesOn, Targets, Goes
<1>3. CASE FileMoves(t)
    BY <1>3 DEF FileMoves, Ends, GoesOn, Targets, Goes
<1>4. CASE ConfigMoves(t)
    BY <1>4 DEF ConfigMoves, Ends, Takes, GoesOn, Targets, Goes, AfterInit
<1> QED
    BY <1>1, <1>2, <1>3, <1>4 DEF Moving

(* What each label says of the disk, after a step.                         *)
LEMMA DiskMove ==
    ASSUME TypeInv, FreshInv, TodoInv, DiskInv, Reliable, NEW t \in Thread, Moving(t)
    PROVE  DiskOK(t)'
<1>1. configFile' = "missing" => pc'[t] \in {"idle", "create", "clean", "deleteClean"}
    BY MissingMove DEF Reliable
<1>2. pc'[t] = "create" => configFile' = "missing"
    BY CreatingMove
<1>3. pc'[t] = "fill" => DOMAIN files' = {}
    BY CreatingMove DEF DiskInv, DiskOK
<1>4. ASSUME pc'[t] \in {"insert", "insertScope"} PROVE Held(t)'
    <2>1. PICK k \in Tag : /\ loc'[t].path = DestPath(t, k) /\ loc'[t].font = loc[t].font
                           /\ files' = WithFile(DestPath(t, k), loc[t].font)
        BY <1>4, CopiedMove DEF Copied
    <2> QED
        BY <2>1 DEF Held, WithFile
<1>5. pc'[t] \in Deleting => loc'[t].path \notin DOMAIN files'
    BY DeletingMove
<1>6. ASSUME pc'[t] = "deleteClean", NEW s \in Records', s.path = loc'[t].path
      PROVE  s.srcPath = loc'[t].url
    <2>1. UNCHANGED configVars /\ pc[t] = "clean"
          /\ \E r \in loc[t].todo : loc'[t].path = r.path /\ loc'[t].url = r.srcPath
        BY <1>6, CleanMove DEF StartsCleanup, Starts, Goes
    <2>2. s \in Records /\ configFile = "valid"
        BY <1>6, <2>1 DEF Records, configVars, TypeInv, ConfigTypeOK
    <2>3. PICK r \in loc[t].todo : loc'[t].path = r.path /\ loc'[t].url = r.srcPath
        BY <2>1
    <2>4. r \in Records
        BY <2>1, <2>2, <2>3 DEF TodoInv, TodoOK
    <2> QED
        BY <1>6, <2>2, <2>3, <2>4, OneRecord DEF FreshInv
<1> QED
    BY <1>1, <1>2, <1>3, <1>4, <1>5, <1>6 DEF DiskOK

(* DiskInv is inductive.                                                   *)
LEMMA NextDisk ==
    ASSUME TypeInv, FreshInv, TodoInv, DiskInv, Reliable, OneThread, [Next]_vars
    PROVE  DiskInv'
<1>1. CASE UNCHANGED vars
    BY <1>1 DEF vars, storage, configVars, control, DiskInv, DiskOK, Held, Records
<1>2. ASSUME NEW t \in Thread, Moving(t) PROVE DiskInv'
    <2>1. \A s \in Thread : s = t
        BY DEF OneThread
    <2>2. DiskOK(t)'
        BY <1>2, DiskMove
    <2>3. configFile' = "missing" => DOMAIN files' = {}
        BY <1>2, MissingMove DEF Reliable
    <2> QED
        BY <2>1, <2>2, <2>3 DEF DiskInv
<1> QED
    BY <1>1, <1>2, NextMoves DEF Crash, Reliable

(* A listed file that goes is that of an operation which deletes its       *)
(* record next: the directories that a cleanup deletes are of no record.   *)
LEMMA ListedFileGoes ==
    ASSUME TypeInv, SiteInv, FreshInv, CallInv, TodoInv, "write" \notin Fault,
           NEW t \in Thread, Moving(t), NEW p \in DOMAIN files, Listed(p), p \notin DOMAIN files'
    PROVE  pc'[t] \in Deleting /\ loc'[t].path = p
<1>1. FileMoves(t)
    BY DEF Moving, CallMoves, ReadMoves, ConfigMoves
<1>2. ASSUME NEW P, files' = Without(P) PROVE p \in P
    BY <1>2 DEF Without
<1>3. CASE pc[t] = "undo" /\ \E ok \in BOOLEAN : RemoveFile(loc[t].path, ok)
    BY <1>2, <1>3 DEF RemoveFile, FreshInv, Copied
<1>4. CASE /\ pc'[t] \in {"delete", "deleteScope"} /\ loc'[t] = loc[t]
           /\ files' = Without({loc[t].path})
    BY <1>2, <1>4 DEF Deleting
<1>5. ASSUME NEW r \in loc[t].todo, pc'[t] = "deleteClean", loc'[t].path = r.path,
             NEW ok, RemoveFile(r.path, ok)
      PROVE  pc'[t] \in Deleting /\ loc'[t].path = p
    BY <1>2, <1>5 DEF RemoveFile, Deleting
<1>6. CASE /\ pc[t] = "clean" /\ loc[t].todo = {}
           /\ DeleteDirs(DirsAfter(loc[t].op, loc[t].id))
    <2>1. PICK r \in Records : r.path = p
        BY DEF Listed
    <2>2. r.appId \in DirsAfter(loc[t].op, loc[t].id)
        BY <1>2, <1>6, <2>1, DirsGo DEF FilesIn, SiteInv, RecordOK
    <2>3. loc[t].op \in Cleanups /\ (loc[t].op = "CleanupAppScopeFonts" => loc[t].id \in AppId)
        BY <1>6 DEF CallInv, Called
    <2>4. dirs \subseteq AppId
        BY DEF TypeInv, StorageOK
    <2>5. /\ r.appId \in AppId
          /\ loc[t].op = "CleanupAppScopeFonts" => r.appId = loc[t].id
          /\ loc[t].op = "CleanupAppScopeFontsOnStart" => r.appId.scope = "app"
        BY <2>2, <2>3, <2>4 DEF DirsAfter, Cleanups, UserCleanup
    <2>6. Selected(loc[t].op, loc[t].id, r)
        BY <2>5, Sites DEF Selected, SiteInv, RecordOK
    <2>7. FALSE
        BY <1>6, <2>6 DEF TodoInv, TodoOK, Doing
    <2> QED
        BY <2>7
<1>7. ASSUME NEW q, NEW f, files' = WithFile(q, f) PROVE FALSE
    BY <1>7 DEF WithFile
<1> QED
    BY <1>1, <1>3, <1>4, <1>5, <1>6, <1>7 DEF FileMoves, GoesOn, Goes

(* An operation that leaves its deletion leaves no record with its path.   *)
LEMMA RecordGoes ==
    ASSUME TypeInv, SiteInv, FreshInv, UrlInv, FirstHitInv, DiskInv, "write" \notin Fault,
           NEW t \in Thread, Moving(t), pc[t] \in Deleting, NEW p, p = loc[t].path
    PROVE  ~Listed(p)'
<1>1. ConfigTypeOK /\ UniquePaths /\ UniqueUrls
    BY DEF TypeInv, FreshInv, UrlInv
<1>2. p = loc[t].path
    OBVIOUS
<1>3. UNCHANGED configVars => Records' = Records
    BY DEF Records, configVars
<1>4. CASE pc[t] \in {"heal", "delete"}
    <2>1. PICK ok \in BOOLEAN : DeleteFontRecord(p, ok)
        BY <1>2, <1>4 DEF Moving, CallMoves, ReadMoves, FileMoves, ConfigMoves, Onward
    <2>2. CASE UNCHANGED configVars /\ WithPath(p) = {}
        BY <1>3, <2>2 DEF WithPath, Listed, Records
    <2>3. ASSUME NEW i \in WithPath(p), Drops(i) PROVE ~Listed(p)'
        <3>1. Records' = {r \in Records : r.path # p}
            BY <1>1, <2>3, PathDrop
        <3> QED
            BY <3>1 DEF Listed
    <2> QED
        BY <1>1, <2>1, <2>2, <2>3, PathDeletion
<1>5. CASE pc[t] \in {"deleteScope", "deleteClean"}
    <2> DEFINE u == loc[t].url
    <2>1. PICK ok \in BOOLEAN : DeleteScopeFontRecordByUrl(u, ok)
        BY <1>5 DEF Moving, CallMoves, ReadMoves, FileMoves, ConfigMoves, Onward
    <2>2. u \in Url
        BY <1>5, <2>1 DEF SiteInv, Sited
    <2>3. \A r \in Records : r.path = p => r.srcPath = u
        BY <1>2, <1>5, <2>1 DEF FirstHitInv, FirstHit, DiskInv, DiskOK, Records
    <2>4. CASE UNCHANGED configVars /\ WithUrl(u) = {}
        BY <1>3, <2>3, <2>4 DEF WithUrl, Listed, Records
    <2>5. ASSUME NEW i \in WithUrl(u), Drops(i) PROVE ~Listed(p)'
        <3>1. Records' = {r \in Records : r.srcPath # u}
            BY <1>1, <2>2, <2>5, UrlDrop
        <3> QED
            BY <2>3, <3>1 DEF Listed
    <2> QED
        BY <1>1, <2>1, <2>4, <2>5, UrlDeletion
<1> QED
    BY <1>4, <1>5 DEF Deleting

(* A record loses its file only to a call that is about to delete it.      *)
LEMMA NextDangling ==
    ASSUME TypeInv, SiteInv, FreshInv, CallInv, UrlInv, TodoInv, FirstHitInv, DiskInv,
           NoDanglingRecord, Reliable, OneThread, NEW t \in Thread, Moving(t)
    PROVE  NoDanglingRecord'
<1>1. "write" \notin Fault /\ \A s \in Thread : s = t
    BY DEF Reliable, OneThread
<1>2. ASSUME NEW p, Listed(p)' PROVE Backed(p)'
    <2>1. CASE pc[t] \in {"insert", "insertScope"} /\ pc'[t] = "idle" /\ p = loc[t].path
        <3>1. UNCHANGED files
            BY <2>1 DEF Moving, CallMoves, ReadMoves, FileMoves, ConfigMoves, Onward,
               Targets, GoesOn, Goes
        <3> QED
            BY <2>1, <3>1 DEF DiskInv, DiskOK, Held, Backed
    <2>2. CASE Listed(p) /\ p \in DOMAIN files
        BY <1>1, <2>2, ListedFileGoes DEF Backed
    <2>3. CASE Listed(p) /\ p \notin DOMAIN files
        <3>1. pc[t] \in Deleting /\ loc[t].path = p
            BY <1>1, <2>3 DEF NoDanglingRecord, Listed, Deleting
        <3> QED
            BY <1>1, <1>2, <3>1, RecordGoes
    <2> QED
        BY <1>2, <2>1, <2>2, <2>3, ListedMove
<1>3. \A r \in Records' : Backed(r.path)'
    BY <1>2 DEF Listed, Backed
<1> QED
    BY <1>3 DEF NoDanglingRecord, Backed, Deleting

(* A record that goes leaves no file.                                      *)
LEMMA UnlistedIsGone ==
    ASSUME TypeInv, SiteInv, OwnerInv, TodoInv, DiskInv, "write" \notin Fault,
           NEW t \in Thread, Moving(t), NEW p, Listed(p), ~Listed(p)'
    PROVE  p \notin DOMAIN files
<1>1. ConfigTypeOK
    BY DEF TypeInv
<1>2. PICK r \in Records : r.path = p
    BY DEF Listed
<1>3. CASE Loses /\ (configFile' = "valid" => pc[t] = "fill")
    <2>1. pc[t] # "create"
        BY <1>1, <1>2 DEF DiskInv, DiskOK, ConfigTypeOK, Records
    <2>2. CASE pc[t] = "fill"
        BY <2>2 DEF DiskInv, DiskOK
    <2>3. CASE UNCHANGED configVars
        BY <2>3 DEF Listed, Records, configVars
    <2> QED
        BY <1>3, <2>1, <2>2, <2>3, StaysValid
<1>4. ASSUME NEW i \in DOMAIN fontlist, Drops(i) PROVE p = fontlist[i].path
    BY <1>1, <1>2, <1>4, Lost DEF Listed
<1>5. ASSUME pc[t] \in {"heal", "delete"}, NEW i \in WithPath(loc[t].path), Drops(i)
      PROVE  p \notin DOMAIN files
    BY <1>4, <1>5 DEF WithPath, DiskInv, DiskOK, Deleting
<1>6. ASSUME pc[t] \in {"deleteScope", "deleteClean"}, NEW i \in WithUrl(loc[t].url), Drops(i)
      PROVE  p \notin DOMAIN files
    <2>1. i \in DOMAIN fontlist /\ fontlist[i] \in Records /\ fontlist[i].srcPath = loc[t].url
        BY DEF WithUrl, Records
    <2>2. fontlist[i].path = loc[t].path
        BY <1>6, <2>1 DEF OwnerInv, TodoInv, TodoOK, Doing
    <2> QED
        BY <1>4, <1>6, <2>1, <2>2 DEF DiskInv, DiskOK, Deleting
<1>7. CASE UNCHANGED configVars
    BY <1>7 DEF Listed, Records, configVars
<1>8. CASE \E s : Gains(s)
    BY <1>1, <1>8, Gained DEF Listed
<1>9. CASE Refreshes
    BY <1>1, <1>9, Refreshed DEF Listed, Records
<1> QED
    BY <1>3, <1>5, <1>6, <1>7, <1>8, <1>9, RecordMove

(* A copy is listed, or goes, before its installation returns.             *)
LEMMA CopyIsSettled ==
    ASSUME ConfigTypeOK, Reliable, NEW t \in Thread, Moving(t), pc[t] \in Copied,
           NEW p \in DOMAIN files', p = loc[t].path
    PROVE  Listed(p)' \/ (pc'[t] \in Copied /\ loc'[t].path = p)
<1>1. "write" \notin Fault /\ "remove" \notin Fault
    BY DEF Reliable
<1>2. CASE pc[t] = "undo"
    <2>1. files' = Without({loc[t].path})
        BY <1>1, <1>2 DEF Moving, CallMoves, ReadMoves, FileMoves, ConfigMoves, Onward,
           RemoveFile
    <2> QED
        BY <2>1 DEF Without
<1>3. CASE pc[t] = "insert"
    <2>1. PICK ret \in Code :
            /\ InsertFontRecordIfUnderLimit(loc[t].path, NamesOf(loc[t].font), ret)
            /\ \/ ret = "ERR_OK" /\ Ends(t)
               \/ ret # "ERR_OK" /\ Targets(t, "undo", loc[t].path)
        BY <1>3 DEF Moving, CallMoves, ReadMoves, FileMoves, ConfigMoves, Onward
    <2>2. CASE ret # "ERR_OK"
        BY <2>1, <2>2 DEF Targets, Goes, Copied
    <2>3. CASE UNCHANGED configVars /\ WithPath(loc[t].path) # {}
        BY <2>3 DEF WithPath, Listed, Records, configVars
    <2>4. CASE Gains(UserRecord(loc[t].path, NamesOf(loc[t].font)))
        BY <2>4, Gained DEF UserRecord, Listed
    <2> QED
        BY <1>1, <2>1, <2>2, <2>3, <2>4, UserInsertion
<1>4. CASE pc[t] = "insertScope"
    <2>1. \/ InsertScopeFontRecord(ScopeRecord(t), TRUE) /\ Ends(t)
          \/ Targets(t, "undo", loc[t].path)
        BY <1>4 DEF Moving, CallMoves, ReadMoves, FileMoves, ConfigMoves, Onward
    <2>2. CASE Targets(t, "undo", loc[t].path)
        BY <2>2 DEF Targets, Goes, Copied
    <2>3. CASE Gains(ScopeRecord(t))
        BY <2>3, Gained DEF ScopeRecord, Listed
    <2> QED
        BY <1>1, <2>1, <2>2, <2>3, ScopeInsertion
<1> QED
    BY <1>2, <1>3, <1>4 DEF Copied

(* A file comes with a call that is about to insert its record, and goes   *)
(* before its record does.                                                 *)
LEMMA NextOrphan ==
    ASSUME TypeInv, SiteInv, OwnerInv, TodoInv, DiskInv, NoOrphanFile,
           Reliable, OneThread, NEW t \in Thread, Moving(t)
    PROVE  NoOrphanFile'
<1>1. "write" \notin Fault /\ ConfigTypeOK /\ \A s \in Thread : s = t
    BY DEF Reliable, TypeInv, OneThread
<1>2. ASSUME NEW p \in DOMAIN files'
      PROVE  Listed(p)' \/ (pc'[t] \in Copied /\ loc'[t].path = p)
    <2>1. CASE p \notin DOMAIN files
        <3>1. FileMoves(t) /\ \A P : files' # Without(P)
            BY <2>1 DEF Moving, CallMoves, ReadMoves, ConfigMoves, Without
        <3>2. /\ pc'[t] \in {"insert", "insertScope"}
              /\ \E k : loc'[t].path = DestPath(t, k)
                        /\ files' = WithFile(DestPath(t, k), loc[t].font)
            BY <2>1, <3>1, DirsGo DEF FileMoves, RemoveFile, Targets
        <3> QED
            BY <2>1, <3>2 DEF WithFile, Copied
    <2>2. CASE p \in DOMAIN files /\ Listed(p)
        BY <1>1, <2>2, UnlistedIsGone
    <2>3. CASE pc[t] \in Copied /\ loc[t].path = p
        BY <1>1, <1>2, <2>3, CopyIsSettled
    <2> QED
        BY <1>1, <2>1, <2>2, <2>3 DEF NoOrphanFile, Copied
<1> QED
    BY <1>1, <1>2 DEF NoOrphanFile, Copied, Listed

(* The same as one invariant, for use in other proofs.                     *)
LEMMA DiskInvariant ==
    OneThread /\ ~RepeatTag /\ Reliable
    => (Spec => [](/\ TypeInv /\ SiteInv /\ CallInv /\ UrlInv /\ OwnerInv /\ TodoInv
                   /\ DiskInv /\ DiskAgrees))
<1> SUFFICES ASSUME OneThread, ~RepeatTag, Reliable
             PROVE  Spec => [](/\ TypeInv /\ SiteInv /\ CallInv /\ UrlInv /\ OwnerInv /\ TodoInv
                               /\ DiskInv /\ DiskAgrees)
    OBVIOUS
<1>1. ASSUME Init PROVE FirstHitInv /\ DiskInv /\ NoOrphanFile /\ NoDanglingRecord
    <2>1. FirstHitInv
        BY <1>1, InitRecords DEF FirstHitInv
    <2>2. configFile = "missing" => DOMAIN files = {}
        BY <1>1 DEF Init, InitStore
    <2>3. DiskInv
        BY <1>1, <2>2, InitRecords DEF DiskInv, DiskOK, Deleting
    <2>4. ASSUME fontlist = <<>>, DOMAIN files = {}
          PROVE  NoOrphanFile /\ NoDanglingRecord
        <3>1. Records = {}
            BY <2>4 DEF Records
        <3> QED
            BY <2>4, <3>1 DEF NoOrphanFile, NoDanglingRecord
    <2>5. ASSUME NEW f \in Font, NEW names, fontlist = <<UserRecord(OldPath(f), names)>>,
                 files = [p \in {OldPath(f)} |-> f]
          PROVE  NoOrphanFile /\ NoDanglingRecord
        <3>1. DOMAIN files = {OldPath(f)} /\ Records = {UserRecord(OldPath(f), names)}
            BY <2>5 DEF Records
        <3>2. UserRecord(OldPath(f), names).path = OldPath(f)
            BY DEF UserRecord
        <3> QED
            BY <3>1, <3>2 DEF NoOrphanFile, NoDanglingRecord, Listed
    <2>6. CASE fontlist = <<>> /\ files = << >>
        BY <2>1, <2>3, <2>4, <2>6
    <2>7. CASE \E f \in Font : \E names \in SUBSET NamesOf(f) :
                 /\ fontlist = <<UserRecord(OldPath(f), names)>>
                 /\ files = [p \in {OldPath(f)} |-> f]
        BY <2>1, <2>3, <2>5, <2>7
    <2> QED
        BY <1>1, <2>6, <2>7 DEF Init, InitStore
<1>2. /\ TypeInv /\ SiteInv /\ FreshInv /\ CallInv /\ UrlInv /\ OwnerInv /\ TodoInv
      /\ FirstHitInv /\ DiskInv /\ NoOrphanFile /\ NoDanglingRecord /\ [Next]_vars
      => FirstHitInv' /\ DiskInv' /\ NoOrphanFile' /\ NoDanglingRecord'
    <2> SUFFICES ASSUME TypeInv, SiteInv, FreshInv, CallInv, UrlInv, OwnerInv, TodoInv,
                        FirstHitInv, DiskInv, NoOrphanFile, NoDanglingRecord, [Next]_vars
                 PROVE  FirstHitInv' /\ DiskInv' /\ NoOrphanFile' /\ NoDanglingRecord'
        OBVIOUS
    <2>1. FirstHitInv' /\ DiskInv'
        BY NextFirstHit, NextDisk
    <2>2. CASE UNCHANGED vars
        BY <2>1, <2>2
           DEF vars, storage, configVars, control, NoOrphanFile, NoDanglingRecord, Listed, Records
    <2>3. CASE \E t \in Thread : Moving(t)
        BY <2>1, <2>3, NextOrphan, NextDangling
    <2> QED
        BY <2>2, <2>3, NextMoves DEF Crash, Reliable
<1>3. Spec => [](TypeInv /\ FreshInv)
    BY FreshInvariant
<1>4. Spec => [](TypeInv /\ SiteInv /\ CallInv /\ UrlInv /\ OwnerInv /\ TodoInv)
    BY TodoInvariant
<1>5. NoOrphanFile /\ NoDanglingRecord => DiskAgrees
    BY DEF DiskAgrees
<1> QED
    BY <1>1, <1>2, <1>3, <1>4, <1>5, PTL DEF Spec

(* The configuration and the disk agree but for the operation under way:   *)
(* every font file has its record or is about to get it, and every record  *)
(* has its file or is about to go.  In calls that do not overlap, cleanups *)
(* and their directories included, where no write of the configuration and *)
(* no removal of a file fails, the service does not crash, and no second   *)
(* comes back; for a store of any origin.                                  *)
THEOREM StoreAgrees ==
    OneThread /\ ~RepeatTag /\ Fault \cap {"write", "remove", "crash"} = {}
    => (Spec => []DiskAgrees)
<1> SUFFICES ASSUME OneThread, ~RepeatTag, Reliable PROVE Spec => []DiskAgrees
    BY DEF Reliable
<1> QED
    BY DiskInvariant, PTL
=============================================================================
