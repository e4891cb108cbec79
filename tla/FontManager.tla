---------------------------- MODULE FontManager -----------------------------
(***************************************************************************)
(* The font store of one user: class FontManager                           *)
(* (frameworks/fontmgr/src/font_manager.cpp) over the configuration file   *)
(* of module FontConfig and the font files on disk.                        *)
(*                                                                         *)
(* FontManager is a singleton without a lock of its own.  IPC threads, the *)
(* event handler and death recipients all run its operations at the same   *)
(* time, and only each single FontConfig call is atomic.  An operation is  *)
(* therefore a sequence of actions, one per access to shared state         *)
(* (configuration call, file-system call), at which pc[t] stands.          *)
(***************************************************************************)
EXTENDS FontConfig

CONSTANTS
    Op,          \* the operations that callers issue in this instance
    Client,      \* the scopes and tokens for which scope fonts are installed
    RepeatTag,   \* may one thread copy two files within the same second?
    InitialFile, \* states of the configuration file at start
    NoFont, NoPath

UserCleanup == {"CleanupUserScopeFonts", "CleanupAllScopeFontsOnBoot",
    "CleanupAppScopeFontsOnStart"}
Operation == UserCleanup \cup {"InstallFont", "UninstallFont",
    "InstallScopeFont", "UninstallScopeFont", "CleanupAppScopeFonts",
    "CleanupScopeFontDirs"}

ASSUME FontManagerAssumption ==
    /\ Op \subseteq Operation
    /\ Client \subseteq AppId
    /\ Fault \subseteq {"write", "read", "copy", "remove", "dir", "crash"}
    /\ RepeatTag \in BOOLEAN
    /\ InitialFile \subseteq {"missing", "valid", "old"}
    /\ NoPath \notin Path /\ NoFont \notin Font

VARIABLES
    files,   \* the font file at each path that exists
    dirs,    \* the application directories that exist
    pc,      \* where the operation of each thread stands
    loc      \* the arguments and local variables of that operation

control == <<pc, loc>>
storage == <<files, dirs>>
vars == <<configVars, storage, control>>

(* ret is the result of the last operation of the thread.                  *)
Idle == [op |-> "none", font |-> NoFont, url |-> NoUrl, id |-> Root, i |-> 1,
         path |-> NoPath, todo |-> {}, ret |-> "none"]

Code == {"none", "ERR_OK", "ERR_FILE_NOT_EXISTS", "ERR_FILE_VERIFY_FAIL",
    "ERR_COPY_FAIL", "ERR_INSTALLED_ALRADY", "ERR_MAX_FILE_COUNT",
    "ERR_INSTALL_FAIL", "ERR_UNINSTALL_FILE_NOT_EXISTS",
    "ERR_UNINSTALL_REMOVE_FAIL", "ERR_UNINSTALL_FAIL", "ERR_SYSTEM_ERROR",
    "ERR_SCOPE_FONT_NOT_FOUND"}

Label == {"idle", "create", "fill", "find", "probe", "heal", "count", "copy",
    "insert", "undo", "remove", "delete", "update", "url", "total", "names",
    "mkdir", "copyScope", "insertScope", "removeScope", "deleteScope",
    "clean", "deleteClean"}

Local == [op : Operation \cup {"none"}, font : Font \cup {NoFont}, url : SrcPath,
          id : Dir, i : Nat, path : Path \cup {NoPath}, todo : SUBSET FontRecordInfo,
          ret : Code]

TypeOK ==
    /\ ConfigTypeOK
    /\ DOMAIN files \subseteq Path /\ files \in [DOMAIN files -> Font]
    /\ dirs \subseteq AppId
    /\ pc \in [Thread -> Label]
    /\ loc \in [Thread -> Local]

(***************************************************************************)
(* Control.                                                                *)
(***************************************************************************)
At(t, label) == pc[t] = label
Move(t, label, l) ==
    /\ pc' = [pc EXCEPT ![t] = label]
    /\ loc' = [loc EXCEPT ![t] = l]
Continue(t, label) == Move(t, label, loc[t])
Return(t, code) == Move(t, "idle", [Idle EXCEPT !.ret = code])

Begin(op, f, u, id) == [Idle EXCEPT !.op = op, !.font = f, !.url = u, !.id = id]
Start(t, op, f, u, id, label) ==
    At(t, "idle") /\ op \in Op /\ Move(t, label, Begin(op, f, u, id))

(***************************************************************************)
(* Font files.  The path of a copy is made of the directory, the second in *)
(* which it is made, the thread and the name of the source file.           *)
(***************************************************************************)
WithFile(p, f) ==
    [q \in DOMAIN files \cup {p} |-> IF q = p THEN f ELSE files[q]]
Without(P) == [q \in DOMAIN files \ P |-> files[q]]
FilesIn(D) == {p \in DOMAIN files : p.dir \in D}

Mentioned ==
    DOMAIN files \cup {r.path : r \in Records} \cup {loc[t].path : t \in Thread}
        \cup {r.path : r \in UNION {loc[t].todo : t \in Thread}}

DestPath(t, k) == [dir |-> loc[t].id, tag |-> k, thread |-> t,
                   file |-> BaseName[loc[t].font]]

(* A second never comes back: a copy takes the first time tag that gives a *)
(* path not in use.  With RepeatTag any tag will do, the current one too.  *)
TimeTag(t, k) ==
    RepeatTag \/ /\ DestPath(t, k) \notin Mentioned
                 /\ \A j \in Tag : j < k => DestPath(t, j) \in Mentioned

(* Mutant: the path of the copy is lost. *)
CopyFileOnly(t, next) ==
    /\ loc[t].id = Root \/ loc[t].id \in dirs
    /\ \E k \in Tag :
        /\ TimeTag(t, k)
        /\ files' = WithFile(DestPath(t, k), loc[t].font)
    /\ Continue(t, next)
    /\ UNCHANGED <<configVars, dirs>>

(* Copy to the temporary directory and rename.  The operation fails when   *)
(* the directory has been deleted meanwhile.                               *)
CopyFileForInstall(t, next) ==
    \/ /\ loc[t].id = Root \/ loc[t].id \in dirs
       /\ \E k \in Tag :
            /\ TimeTag(t, k)
            /\ files' = WithFile(DestPath(t, k), loc[t].font)
            /\ Move(t, next, [loc[t] EXCEPT !.path = DestPath(t, k)])
       /\ UNCHANGED <<configVars, dirs>>
    \/ /\ loc[t].id \notin dirs \cup {Root} \/ "copy" \in Fault
       /\ Return(t, "ERR_COPY_FAIL")
       /\ UNCHANGED <<configVars, storage>>

(* RemoveFile, which succeeds on a file that is already gone.              *)
RemoveFile(p, ok) ==
    \/ ok /\ files' = Without({p})
    \/ ~ok /\ "remove" \in Fault /\ p \in DOMAIN files /\ UNCHANGED files

(* DeleteDir, whose result nobody looks at: where a removal fails, the     *)
(* directory stays, with any of its files.                                 *)
Undeletable(D) == IF "remove" \in Fault THEN SUBSET D ELSE {{}}

DeleteDirs(D) ==
    \E stay \in Undeletable(D) : \E kept \in SUBSET FilesIn(stay) :
        /\ files' = Without(FilesIn(D) \ kept)
        /\ dirs' = dirs \ (D \ stay)

(***************************************************************************)
(* CheckAndInitInstallPath: a configuration file that does not exist is    *)
(* created first.  A directory or a file that cannot be created, or does   *)
(* not get its permissions, is an error of the call.                       *)
(***************************************************************************)
AfterInit(op) == IF op = "InstallFont" THEN "find" ELSE "update"
InitError(op) ==
    IF op = "InstallFont" THEN "ERR_FILE_NOT_EXISTS" ELSE "ERR_SYSTEM_ERROR"

StartInstall(t, op, f, u, id) ==
    /\ \/ Start(t, op, f, u, id,
                IF configFile = "missing" THEN "create" ELSE AfterInit(op))
       \/ /\ "dir" \in Fault /\ op \in Op /\ At(t, "idle")
          /\ Return(t, InitError(op))
    /\ UNCHANGED <<configVars, storage>>

CreateConfig(t) ==
    /\ At(t, "create")
    /\ CreateFontConfig
    /\ Continue(t, "fill")
    /\ UNCHANGED storage

FillConfig(t) ==
    /\ At(t, "fill")
    /\ FillFontConfig
    /\ \/ Continue(t, AfterInit(loc[t].op))
       \/ "write" \in Fault /\ Return(t, InitError(loc[t].op))
    /\ UNCHANGED storage

(***************************************************************************)
(* InstallFont.                                                            *)
(***************************************************************************)
InstallFont(t, f) == StartInstall(t, "InstallFont", f, NoUrl, Root)

FullName(t) == FullNames[loc[t].font][loc[t].i]
LastName(t) == loc[t].i >= Len(FullNames[loc[t].font])

NextName(t, again, done) ==
    \/ /\ ~LastName(t)
       /\ Move(t, again, [loc[t] EXCEPT !.i = @ + 1, !.path = NoPath])
    \/ /\ LastName(t)
       /\ Move(t, done, [loc[t] EXCEPT !.path = NoPath])

(* The loop over the full names: a name that some record already has is an *)
(* error when the file of that record exists, otherwise the record is      *)
(* deleted.                                                                *)
FindInstalled(t) ==
    /\ At(t, "find")
    /\ \/ /\ FullNames[loc[t].font] = <<>>
          /\ Return(t, "ERR_FILE_VERIFY_FAIL")
       \/ /\ FullNames[loc[t].font] # <<>>
          /\ ~HasName(FullName(t))
          /\ NextName(t, "find", "count")
       \/ /\ FullNames[loc[t].font] # <<>>
          /\ HasName(FullName(t))
          /\ Move(t, "probe",
                  [loc[t] EXCEPT !.path = GetFontFileByName(FullName(t))])
    /\ UNCHANGED <<configVars, storage>>

(* Mutant: takes a record for an installed font. *)
TrustRecord(t) ==
    /\ At(t, "probe")
    /\ Return(t, "ERR_INSTALLED_ALRADY")
    /\ UNCHANGED <<configVars, storage>>

ProbeInstalled(t) ==
    /\ At(t, "probe")
    /\ \/ loc[t].path \in DOMAIN files /\ Return(t, "ERR_INSTALLED_ALRADY")
       \/ loc[t].path \notin DOMAIN files /\ Continue(t, "heal")
    /\ UNCHANGED <<configVars, storage>>

HealRecord(t) ==
    /\ At(t, "heal")
    /\ \E ok \in BOOLEAN :
        /\ DeleteFontRecord(loc[t].path, ok)
        /\ \/ ok /\ NextName(t, "find", "count")
           \/ ~ok /\ Return(t, "ERR_INSTALL_FAIL")
    /\ UNCHANGED storage

(* Mutant: leaves the last place free. *)
RefuseLastPlace(t) ==
    /\ At(t, "count")
    /\ \/ GetInstalledFontsNum + 1 >= MaxInstallNum /\ Return(t, "ERR_MAX_FILE_COUNT")
       \/ GetInstalledFontsNum + 1 < MaxInstallNum /\ Continue(t, "copy")
    /\ UNCHANGED <<configVars, storage>>

CheckInstalledNum(t) ==
    /\ At(t, "count")
    /\ \/ GetInstalledFontsNum >= MaxInstallNum /\ Return(t, "ERR_MAX_FILE_COUNT")
       \/ GetInstalledFontsNum < MaxInstallNum /\ Continue(t, "copy")
    /\ UNCHANGED <<configVars, storage>>

CopyFont(t) == At(t, "copy") /\ CopyFileForInstall(t, "insert")

InsertFont(t) ==
    /\ At(t, "insert")
    /\ \E ret \in Code :
        /\ InsertFontRecordIfUnderLimit(loc[t].path, NamesOf(loc[t].font), ret)
        /\ \/ ret = "ERR_OK" /\ Return(t, ret)
           \/ ret # "ERR_OK" /\ Move(t, "undo", [loc[t] EXCEPT !.ret = ret])
    /\ UNCHANGED storage

(* Mutant: leaves the copy behind. *)
UndoNothing(t) ==
    /\ At(t, "undo")
    /\ Return(t, loc[t].ret)
    /\ UNCHANGED <<configVars, storage>>

(* DeleteDir(destPath) after a failed insertion; its own failure is        *)
(* ignored.                                                                *)
UndoCopy(t) ==
    /\ At(t, "undo")
    /\ \E ok \in BOOLEAN : RemoveFile(loc[t].path, ok)
    /\ Return(t, loc[t].ret)
    /\ UNCHANGED <<configVars, dirs>>

(***************************************************************************)
(* UninstallFont, by full name.                                            *)
(***************************************************************************)
(* Mutant: does not look at the scope of the record. *)
UninstallAnyFont(t, n) ==
    /\ "UninstallFont" \in Op
    /\ At(t, "idle")
    /\ HasName(n)
    /\ Move(t, "remove", [Begin("UninstallFont", NoFont, NoUrl, Root)
                            EXCEPT !.path = GetFontFileByName(n)])
    /\ UNCHANGED <<configVars, storage>>

UninstallFont(t, n) ==
    /\ "UninstallFont" \in Op
    /\ At(t, "idle")
    /\ LET r == GetFontRecordByName(n) IN
       \/ /\ ~HasName(n)
          /\ Return(t, "ERR_UNINSTALL_FILE_NOT_EXISTS")
       \/ /\ HasName(n)
          /\ r.scope # "none"
          /\ Return(t, "ERR_UNINSTALL_FILE_NOT_EXISTS")
       \/ /\ HasName(n)
          /\ r.scope = "none"
          /\ Move(t, "remove", [Begin("UninstallFont", NoFont, NoUrl, Root)
                                  EXCEPT !.path = r.path])
    /\ UNCHANGED <<configVars, storage>>

(* Mutant: goes on to the record without removing the file. *)
KeepThen(t, next) == Continue(t, next) /\ UNCHANGED <<configVars, storage>>

(* Mutant: goes on although the file could not be removed. *)
TryRemoveThen(t, next) ==
    /\ \E ok \in BOOLEAN : RemoveFile(loc[t].path, ok)
    /\ Continue(t, next)
    /\ UNCHANGED <<configVars, dirs>>

RemoveThen(t, next) ==
    /\ \/ RemoveFile(loc[t].path, TRUE) /\ Continue(t, next)
       \/ RemoveFile(loc[t].path, FALSE) /\ Return(t, "ERR_UNINSTALL_REMOVE_FAIL")
    /\ UNCHANGED <<configVars, dirs>>

RemoveFont(t) == At(t, "remove") /\ RemoveThen(t, "delete")

(* Mutant: leaves the record. *)
DeleteNothing(t) ==
    /\ At(t, "delete")
    /\ Return(t, "ERR_OK")
    /\ UNCHANGED <<configVars, storage>>

DeleteFont(t) ==
    /\ At(t, "delete")
    /\ \E ok \in BOOLEAN :
        /\ DeleteFontRecord(loc[t].path, ok)
        /\ Return(t, IF ok THEN "ERR_OK" ELSE "ERR_UNINSTALL_FAIL")
    /\ UNCHANGED storage

(***************************************************************************)
(* InstallScopeFont: the checks of ValidateScopeFontForInstall are         *)
(* separate reads, and nothing repeats them at the insertion.              *)
(***************************************************************************)
InstallScopeFont(t, f, u, id) == StartInstall(t, "InstallScopeFont", f, u, id)

(* Mutant: leaves the file in its old version. *)
SkipUpdate(t) ==
    /\ At(t, "update")
    /\ Continue(t, "url")
    /\ UNCHANGED <<configVars, storage>>

UpdateConfig(t) ==
    /\ At(t, "update")
    /\ \E ok \in BOOLEAN :
        /\ CheckAndUpdateFontRecord(files, ok)
        /\ \/ ok /\ Continue(t, "url")
           \/ ~ok /\ Return(t, "ERR_SYSTEM_ERROR")
    /\ UNCHANGED storage

(* Mutant: accepts a srcPath that is installed. *)
SkipUrl(t) ==
    /\ At(t, "url")
    /\ Continue(t, "total")
    /\ UNCHANGED <<configVars, storage>>

CheckUrl(t) ==
    /\ At(t, "url")
    /\ \/ HasUrl(loc[t].url) /\ Return(t, "ERR_INSTALLED_ALRADY")
       \/ ~HasUrl(loc[t].url) /\ Continue(t, "total")
    /\ UNCHANGED <<configVars, storage>>

(* Mutant: lets in one font too many. *)
CheckTotalOffByOne(t) ==
    /\ At(t, "total")
    /\ \/ /\ GetTotalInstalledFontsNum > MaxInstallNum
          /\ Return(t, "ERR_MAX_FILE_COUNT")
       \/ /\ GetTotalInstalledFontsNum <= MaxInstallNum
          /\ FullNames[loc[t].font] # <<>>
          /\ Continue(t, "names")
    /\ UNCHANGED <<configVars, storage>>

CheckTotal(t) ==
    /\ At(t, "total")
    /\ \/ /\ GetTotalInstalledFontsNum >= MaxInstallNum
          /\ Return(t, "ERR_MAX_FILE_COUNT")
       \/ /\ GetTotalInstalledFontsNum < MaxInstallNum
          /\ FullNames[loc[t].font] = <<>>
          /\ Return(t, "ERR_FILE_VERIFY_FAIL")
       \/ /\ GetTotalInstalledFontsNum < MaxInstallNum
          /\ FullNames[loc[t].font] # <<>>
          /\ Continue(t, "names")
    /\ UNCHANGED <<configVars, storage>>

(* Mutant: looks only at the first full name. *)
CheckFirstName(t) ==
    /\ At(t, "names")
    /\ \/ HasName(FullName(t)) /\ Return(t, "ERR_INSTALLED_ALRADY")
       \/ ~HasName(FullName(t)) /\ Continue(t, "mkdir")
    /\ UNCHANGED <<configVars, storage>>

CheckNames(t) ==
    /\ At(t, "names")
    /\ \/ HasName(FullName(t)) /\ Return(t, "ERR_INSTALLED_ALRADY")
       \/ ~HasName(FullName(t)) /\ NextName(t, "names", "mkdir")
    /\ UNCHANGED <<configVars, storage>>

InitScopeDir(t) ==
    /\ At(t, "mkdir")
    /\ \/ dirs' = dirs \cup {loc[t].id} /\ Continue(t, "copyScope")
       \/ "dir" \in Fault /\ UNCHANGED dirs /\ Return(t, "ERR_SYSTEM_ERROR")
    /\ UNCHANGED <<configVars, files>>

CopyScopeFont(t) == At(t, "copyScope") /\ CopyFileForInstall(t, "insertScope")

(* Mutant: every scope is recorded as that of the application. *)
AppRecord(t) ==
    [path |-> loc[t].path, names |-> NamesOf(loc[t].font), scope |-> "app",
     srcPath |-> loc[t].url, appId |-> loc[t].id]

ScopeRecord(t) ==
    [path |-> loc[t].path, names |-> NamesOf(loc[t].font),
     scope |-> loc[t].id.scope, srcPath |-> loc[t].url, appId |-> loc[t].id]

InsertScopeFont(t) ==
    /\ At(t, "insertScope")
    /\ \E ok \in BOOLEAN :
        /\ InsertScopeFontRecord(ScopeRecord(t), ok)
        /\ \/ ok /\ Return(t, "ERR_OK")
           \/ ~ok /\ Move(t, "undo", [loc[t] EXCEPT !.ret = "ERR_SYSTEM_ERROR"])
    /\ UNCHANGED storage

(***************************************************************************)
(* UninstallScopeFont and GetFontScope, by srcPath.  A token has one       *)
(* bundle name, so the comparison of bundle names, which gives the same    *)
(* error, is part of the comparison of identifiers.                        *)
(***************************************************************************)
(* Mutant: any caller will do. *)
OwnsAny(token, r) == r.scope # "none"

Owns(token, r) == r.appId = MakeAppIdentifier(r.scope, token)

GetFontScope(u, token) ==
    IF HasUrl(u) /\ Owns(token, GetFontRecordByUrl(u))
    THEN GetFontRecordByUrl(u).scope ELSE "ERR_SCOPE_FONT_NOT_FOUND"

UninstallScopeFont(t, u, token) ==
    /\ "UninstallScopeFont" \in Op
    /\ At(t, "idle")
    /\ LET r == GetFontRecordByUrl(u) IN
       \/ /\ ~HasUrl(u)
          /\ Return(t, "ERR_SCOPE_FONT_NOT_FOUND")
       \/ /\ HasUrl(u)
          /\ ~Owns(token, r)
          /\ Return(t, "ERR_SCOPE_FONT_NOT_FOUND")
       \/ /\ HasUrl(u)
          /\ Owns(token, r)
          /\ Move(t, "removeScope",
                  [Begin("UninstallScopeFont", NoFont, u,
                         MakeAppIdentifier(r.scope, token))
                    EXCEPT !.path = r.path])
    /\ UNCHANGED <<configVars, storage>>

RemoveScopeFont(t) == At(t, "removeScope") /\ RemoveThen(t, "deleteScope")

DeleteScopeFont(t) ==
    /\ At(t, "deleteScope")
    /\ \E ok \in BOOLEAN :
        /\ DeleteScopeFontRecordByUrl(loc[t].url, ok)
        /\ Return(t, IF ok THEN "ERR_OK" ELSE "ERR_SYSTEM_ERROR")
    /\ UNCHANGED storage

(***************************************************************************)
(* The cleanups.  Each one works through a snapshot of the records it is   *)
(* to remove (in any order: the order is that of the file and nothing      *)
(* depends on it), and then deletes directories: its own application's,    *)
(* none when a user stops, all of them at boot, those of application scope *)
(* at a start for another reason (the last two are done by                 *)
(* font_manager_server.cpp).                                               *)
(***************************************************************************)
Snapshot(op, id) ==
    CASE op = "CleanupAppScopeFonts"        -> GetFontRecordsByAppId(id)
      [] op = "CleanupUserScopeFonts"       -> GetScopeFontRecords
      [] op = "CleanupAllScopeFontsOnBoot"  -> GetScopeFontRecords
      [] op = "CleanupAppScopeFontsOnStart" -> GetAppScopeFontRecords

(* Mutant: does not look at the prefix of the directory names. *)
EveryDir(op, id) ==
    CASE op = "CleanupAppScopeFonts"        -> {id}
      [] op = "CleanupUserScopeFonts"       -> {}
      [] op = "CleanupAllScopeFontsOnBoot"  -> dirs \cup {Root}
      [] op = "CleanupAppScopeFontsOnStart" -> dirs \cup {Root}

DirsAfter(op, id) ==
    CASE op = "CleanupAppScopeFonts"        -> {id}
      [] op = "CleanupUserScopeFonts"       -> {}
      [] op = "CleanupAllScopeFontsOnBoot"  -> dirs
      [] op = "CleanupAppScopeFontsOnStart" -> {d \in dirs : d.scope = "app"}

Cleanup(t, op, id) ==
    /\ op \in Op
    /\ At(t, "idle")
    /\ Move(t, "clean",
            [Begin(op, NoFont, NoUrl, id) EXCEPT !.todo = Snapshot(op, id)])
    /\ UNCHANGED <<configVars, storage>>

(* Mutant: deletes only the records. *)
CleanNoFile(t) ==
    /\ At(t, "clean")
    /\ \E r \in loc[t].todo :
        Move(t, "deleteClean", [loc[t] EXCEPT !.todo = @ \ {r},
                                    !.path = r.path, !.url = r.srcPath])
    /\ UNCHANGED <<configVars, storage>>

CleanFile(t) ==
    /\ At(t, "clean")
    /\ \E r \in loc[t].todo :
        /\ \E ok \in BOOLEAN : RemoveFile(r.path, ok)
        /\ Move(t, "deleteClean", [loc[t] EXCEPT !.todo = @ \ {r},
                                        !.path = r.path, !.url = r.srcPath])
    /\ UNCHANGED <<configVars, dirs>>

(* Mutant: removes only the files. *)
CleanNoRecord(t) ==
    /\ At(t, "deleteClean")
    /\ Continue(t, "clean")
    /\ UNCHANGED <<configVars, storage>>

CleanRecord(t) ==
    /\ At(t, "deleteClean")
    /\ \E ok \in BOOLEAN : DeleteScopeFontRecordByUrl(loc[t].url, ok)
    /\ Continue(t, "clean")
    /\ UNCHANGED storage

CleanDirs(t) ==
    /\ At(t, "clean")
    /\ loc[t].todo = {}
    /\ DeleteDirs(DirsAfter(loc[t].op, loc[t].id))
    /\ Return(t, "ERR_OK")
    /\ UNCHANGED configVars

(* The task that unloads the service deletes the application directories   *)
(* without a font.  It also empties their temporary directories, which a   *)
(* copy under way sees as a failing system call.                           *)
CleanupScopeFontDirs(t) ==
    /\ "CleanupScopeFontDirs" \in Op
    /\ At(t, "idle")
    /\ LET empty == {d \in dirs : FilesIn({d}) = {}} IN
        \E stay \in Undeletable(empty) : dirs' = dirs \ (empty \ stay)
    /\ Return(t, "ERR_OK")
    /\ UNCHANGED <<configVars, files>>

(***************************************************************************)
(* A crash of the service.  The files stay; a configuration file that is   *)
(* being rewritten may be found truncated.                                 *)
(***************************************************************************)
Rewriting(t) ==
    /\ configFile = "valid"
    /\ \/ pc[t] \in {"heal", "delete"} /\ WithPath(loc[t].path) # {}
       \/ pc[t] \in {"deleteScope", "deleteClean"} /\ HasUrl(loc[t].url)
       \/ pc[t] = "insert" /\ Len(fontlist) < MaxInstallNum
       \/ pc[t] = "update" /\ version # "7.0"
       \/ pc[t] = "insertScope"

Crash ==
    /\ "crash" \in Fault
    /\ \E t \in Thread : pc[t] # "idle"
    /\ pc' = [t \in Thread |-> "idle"]
    /\ loc' = [t \in Thread |-> Idle]
    /\ \/ UNCHANGED configVars
       \/ (\E t \in Thread : Rewriting(t)) /\ Truncated
    /\ UNCHANGED storage

(***************************************************************************)
(* The specification.  A store of an older release holds user-level fonts  *)
(* with some of the names they really have.                                *)
(***************************************************************************)
OldPath(f) == [dir |-> Root, tag |-> CHOOSE k \in Tag : TRUE,
               thread |-> CHOOSE t \in Thread : TRUE, file |-> BaseName[f]]

InitStore ==
    \/ /\ "missing" \in InitialFile
       /\ configFile = "missing" /\ fontlist = <<>> /\ version = "none"
       /\ files = << >>
    \/ /\ "valid" \in InitialFile
       /\ configFile = "valid" /\ fontlist = <<>> /\ version = "7.0"
       /\ files = << >>
    \/ /\ "old" \in InitialFile
       /\ \E f \in Font : \E names \in SUBSET NamesOf(f) :
            /\ configFile = "valid" /\ version = "1"
            /\ fontlist = <<UserRecord(OldPath(f), names)>>
            /\ files = [p \in {OldPath(f)} |-> f]

Init ==
    /\ InitStore
    /\ dirs = {}
    /\ pc = [t \in Thread |-> "idle"]
    /\ loc = [t \in Thread |-> Idle]

Call(t) ==
    \/ \E f \in Font : InstallFont(t, f)
    \/ \E n \in Name : UninstallFont(t, n)
    \/ \E f \in Font, u \in Url, id \in Client : InstallScopeFont(t, f, u, id)
    \/ \E u \in Url, token \in Token : UninstallScopeFont(t, u, token)
    \/ \E token \in Token :
        Cleanup(t, "CleanupAppScopeFonts", MakeAppIdentifier("app", token))
    \/ \E op \in UserCleanup : Cleanup(t, op, Root)
    \/ CleanupScopeFontDirs(t)

Step(t) ==
    \/ CreateConfig(t) \/ FillConfig(t)
    \/ FindInstalled(t) \/ ProbeInstalled(t) \/ HealRecord(t)
    \/ CheckInstalledNum(t) \/ CopyFont(t) \/ InsertFont(t) \/ UndoCopy(t)
    \/ RemoveFont(t) \/ DeleteFont(t)
    \/ UpdateConfig(t) \/ CheckUrl(t) \/ CheckTotal(t) \/ CheckNames(t)
    \/ InitScopeDir(t) \/ CopyScopeFont(t) \/ InsertScopeFont(t)
    \/ RemoveScopeFont(t) \/ DeleteScopeFont(t)
    \/ CleanFile(t) \/ CleanRecord(t) \/ CleanDirs(t)

Next == (\E t \in Thread : Call(t) \/ Step(t)) \/ Crash

Spec == Init /\ [][Next]_vars

-----------------------------------------------------------------------------
(***************************************************************************)
(* Limits.                                                                 *)
(***************************************************************************)

(* The number of installed fonts never exceeds the limit, user-level and   *)
(* scope fonts together (GetMaxInstallNum, ERR_MAX_FILE_COUNT).  True of   *)
(* user-level installs, which check again under the lock.                  *)
WithinLimit == Len(fontlist) <= MaxInstallNum

(* Scope installs, which count first and insert later without a check, go  *)
(* over the limit by one font for every thread but one at most.            *)
LimitOvershoot == Len(fontlist) <= MaxInstallNum + Cardinality(Thread) - 1

(***************************************************************************)
(* The configuration and the disk.                                         *)
(***************************************************************************)
Listed(p) == \E r \in Records : r.path = p

(* A font file that no record names belongs to an installation that has    *)
(* copied it and not yet inserted the record, or is about to delete it     *)
(* (DeleteDir(destPath) after a failed insertion).  True where nothing     *)
(* fails and scope calls do not overlap.                                   *)
NoOrphanFile ==
    \A p \in DOMAIN files :
        \/ Listed(p)
        \/ \E t \in Thread : /\ pc[t] \in {"insert", "insertScope", "undo"}
                             /\ loc[t].path = p

(* A record without its file belongs to an operation that has removed the  *)
(* file, or found it missing, and is about to delete the record.           *)
NoDanglingRecord ==
    \A r \in Records :
        \/ r.path \in DOMAIN files
        \/ \E t \in Thread : /\ pc[t] \in {"heal", "delete", "deleteScope", "deleteClean"}
                             /\ loc[t].path = r.path

(* Together, the configuration and the disk agree but for the operations   *)
(* that are under way.                                                     *)
DiskAgrees == NoOrphanFile /\ NoDanglingRecord

(* No two user-level records name the same file, even when two files of    *)
(* one name are copied within the same second by one thread: the check of  *)
(* InsertFontRecordIfUnderLimit for a record with that path sees to it.    *)
UniqueUserPaths ==
    \A i, j \in DOMAIN fontlist :
        /\ fontlist[i].scope = "none"
        /\ fontlist[i].path = fontlist[j].path
        => i = j

(* Two records never claim the same full name, nor the same srcPath        *)
(* (ERR_INSTALLED_ALRADY): true of calls that do not overlap, by the loop  *)
(* of InstallFont and the checks of ValidateScopeFontForInstall, which     *)
(* nothing repeats at the insertion.                                       *)
UniqueNames ==
    \A i, j \in DOMAIN fontlist :
        fontlist[i].names \cap fontlist[j].names # {} => i = j
UniqueUrls ==
    \A i, j \in DOMAIN fontlist :
        /\ fontlist[i].srcPath # NoUrl
        /\ fontlist[i].srcPath = fontlist[j].srcPath
        => i = j

(* No font is installed twice, by either identity.                         *)
NoDoubleRecord == UniqueNames /\ UniqueUrls

(* Scope records exist only in a file of version "7.0": CheckAndUpdate-    *)
(* FontRecord, whose refresh looks for every file directly under the       *)
(* install path, runs before the first one is inserted.                    *)
ScopeOnlyInV7 == GetScopeFontRecords # {} => version = "7.0"

(***************************************************************************)
(* What a step may never do.                                               *)
(***************************************************************************)
Dropped == Records \ {r \in Records : \E s \in Records' : s.path = r.path}

(* A record is deleted only when its font file is gone: removing first     *)
(* the file and then the record leaves nothing on disk that nothing names. *)
FileGoesFirst ==
    [][configFile' = "valid" => \A r \in Dropped : r.path \notin DOMAIN files]_vars

(* An installation that reports ERR_OK has put the font on disk and a      *)
(* record with all its full names into the configuration.                  *)
InstallOkIsInstalled ==
    [][\A t \in Thread :
        /\ pc[t] \in {"insert", "insertScope"}
        /\ pc'[t] = "idle" /\ loc'[t].ret = "ERR_OK"
        => /\ loc[t].path \in DOMAIN files
           /\ files[loc[t].path] = loc[t].font
           /\ \E r \in Records' : /\ r.path = loc[t].path
                                  /\ r.names = NamesOf(loc[t].font)]_vars

(* InstallFont refuses a font as installed only while a record with one of *)
(* its names has its file, although it read the record before it looked    *)
(* for the file: what a crash left of a font never keeps that font out.    *)
RefusedOnlyIfInstalled ==
    [][\A t \in Thread :
        /\ pc[t] = "probe"
        /\ pc'[t] = "idle" /\ loc'[t].ret = "ERR_INSTALLED_ALRADY"
        /\ configFile = "valid"
        => \E r \in Records : /\ r.path \in DOMAIN files
                              /\ r.names \cap NamesOf(loc[t].font) # {}]_vars

(* After InstallScopeFont has reported ERR_OK its caller's GetFontScope    *)
(* answers with the scope of the installation.                             *)
InstallOkIsVisible ==
    [][\A t \in Thread : \A u \in Url, token \in Token :
        /\ pc[t] = "insertScope"
        /\ pc'[t] = "idle" /\ loc'[t].ret = "ERR_OK"
        /\ loc[t].url = u /\ loc[t].id.token = token
        => GetFontScope(u, token)' = loc[t].id.scope]_vars

(* UninstallFont never deletes the record of a scope font, whatever        *)
(* happened since it looked the name up.                                   *)
UserUninstallKeepsScope ==
    [][\A t \in Thread :
        pc[t] = "delete" /\ pc'[t] # pc[t] /\ configFile' = "valid"
        => GetScopeFontRecords' = GetScopeFontRecords]_vars

(* UninstallScopeFont deletes only a record of the calling application     *)
(* (the bundleName and appIdentifier checks).  The deletion goes by the    *)
(* srcPath alone: this is true of calls that do not overlap.               *)
OnlyOwnerUninstalls ==
    [][\A t \in Thread :
        pc[t] = "deleteScope" /\ pc'[t] = "idle" /\ configFile' = "valid"
        => \A r \in Dropped : r.appId = loc[t].id]_vars

(* When CleanupAppScopeFonts returns, the application has no record left,  *)
(* and no file either unless removals fail: the failure of RemoveFile and  *)
(* of DeleteDir is not an error of the call.                               *)
AppCleanupIsComplete ==
    [][\A t \in Thread :
        /\ pc[t] = "clean" /\ pc'[t] = "idle" /\ loc'[t].ret = "ERR_OK"
        /\ loc[t].op = "CleanupAppScopeFonts"
        => /\ {r \in Records' : r.appId = loc[t].id} = {}
           /\ "remove" \notin Fault => {p \in DOMAIN files' : p.dir = loc[t].id} = {}]_vars

(* Cleanups and scope uninstalls spare what is not theirs, in calls that   *)
(* do not overlap: the cleanups of application scope delete no record of a *)
(* session font (CleanupAppScopeFonts, CleanupAppScopeFontsByUser), and    *)
(* none of these takes a font installed for the whole user.                *)
CleanupSparesOthers ==
    [][\A t \in Thread :
        pc[t] \in {"clean", "deleteClean", "removeScope", "deleteScope"} /\ pc'[t] # pc[t]
        => /\ configFile' = "valid" =>
                \A r \in Dropped :
                    r.scope \in IF loc[t].op \in {"CleanupAppScopeFonts",
                                                 "CleanupAppScopeFontsOnStart"}
                                THEN {"app"} ELSE {"app", "session"}
           /\ \A p \in DOMAIN files \ DOMAIN files' : p.dir # Root]_vars

(* The refresh at an upgrade never takes the names of an installed font    *)
(* away from its record, and nothing else changes them; a path and a       *)
(* srcPath tell which record it is (CheckAndUpdateFontRecord).  Only a     *)
(* user-level font whose file cannot be read loses its names.              *)
RefreshKeepsNames ==
    [][\A r \in Records, s \in Records' :
        /\ r.path = s.path /\ r.srcPath = s.srcPath
        /\ r.names # s.names /\ r.path \in DOMAIN files
        => \/ s.names = NamesOf(files[r.path])
           \/ "read" \in Fault /\ r.scope = "none" /\ s.names = {}]_vars

=============================================================================
