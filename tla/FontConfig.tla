----------------------------- MODULE FontConfig -----------------------------
(***************************************************************************)
(* The per-user configuration file install_fontconfig.json and the         *)
(* operations of class FontConfig                                          *)
(* (frameworks/fontmgr/src/font_config.cpp).                               *)
(*                                                                         *)
(* Every operation of FontConfig holds configLock_ while it reads, parses, *)
(* changes and rewrites the whole file, so each one is a single atomic     *)
(* operator here.  What the module keeps of the file is whether it exists  *)
(* and parses, its "fontlist" and its "version".  Users have separate      *)
(* directories, files and FontConfig objects: one user is modelled.        *)
(***************************************************************************)
EXTENDS Naturals, Sequences, FiniteSets, SequencesExt

CONSTANTS
    Font,           \* contents of the font files to install
    Url,            \* srcPaths, by which scope fonts are known
    Name,           \* full names a font file can declare
    FullNames,      \* FontToolSet::GetFontFullName: the names of each font
    BaseName,       \* last component of the path each font is read from
    NoUrl,          \* srcPath of what is installed for the whole user
    Token,          \* access token ids of the calling applications
    NoToken,        \* owner of what is installed for the whole user
    Thread,         \* threads that serve calls and run cleanups
    Tag,            \* values of the time tag put in front of a file name
    MaxInstallNum,  \* FontManager::GetMaxInstallNum
    Fault           \* the failing system calls the environment may produce

ASSUME FontConfigAssumption ==
    /\ FullNames \in [Font -> Seq(Name)]
    /\ NoToken \notin Token /\ NoUrl \notin Url
    /\ MaxInstallNum \in Nat \ {0}
    /\ Tag \subseteq Nat /\ Tag # {}
    /\ IsFiniteSet(Thread) /\ Thread # {}

(***************************************************************************)
(* Values.  A scope with the token it belongs to is an "appIdentifier"     *)
(* ("app_<token>" or "session_<token>") and the name of a directory under  *)
(* the install path; Root is the install path itself.                      *)
(***************************************************************************)
Scope == {"none", "app", "session"}
MakeAppIdentifier(scope, token) == [scope |-> scope, token |-> token]
AppId == [scope : {"app", "session"}, token : Token]
Root == MakeAppIdentifier("none", NoToken)
Dir == AppId \cup {Root}

Path == [dir : Dir, tag : Tag, thread : Thread, file : {BaseName[f] : f \in Font}]

SrcPath == Url \cup {NoUrl}

FontRecordInfo ==
    [path : Path, names : SUBSET Name, scope : Scope, srcPath : SrcPath,
     appId : Dir]

NamesOf(f) == {FullNames[f][i] : i \in DOMAIN FullNames[f]}

VARIABLES
    configFile,   \* "missing", "valid", or "broken": cannot be parsed
    fontlist,     \* the array "fontlist", empty unless the file is valid
    version       \* "7.0", "1" of older releases, "none" unless valid

configVars == <<configFile, fontlist, version>>

ConfigTypeOK ==
    /\ configFile \in {"missing", "valid", "broken"}
    /\ fontlist \in Seq(FontRecordInfo)
    /\ version \in {"none", "1", "7.0"}
    /\ configFile # "valid" => fontlist = <<>> /\ version = "none"

(***************************************************************************)
(* Reads.  A file that is missing or does not parse reads as one without   *)
(* records: the getters return 0, "" or nullopt.                           *)
(***************************************************************************)
Parses == configFile = "valid"

WithPath(p) == {i \in DOMAIN fontlist : fontlist[i].path = p}
WithName(n) == {i \in DOMAIN fontlist : n \in fontlist[i].names}
WithUrl(u)  == {i \in DOMAIN fontlist : fontlist[i].srcPath = u}

First(I) == fontlist[Min(I)]       \* every search stops at the first match

GetInstalledFontsNum == Len(fontlist)
GetTotalInstalledFontsNum == Len(fontlist)

HasName(n) == WithName(n) # {}
GetFontRecordByName(n) == First(WithName(n))
GetFontFileByName(n) == GetFontRecordByName(n).path

HasUrl(u) == WithUrl(u) # {}
GetFontRecordByUrl(u) == First(WithUrl(u))

Records == {fontlist[i] : i \in DOMAIN fontlist}
(* Mutant: stops at the first record of the application. *)
OneFontRecordByAppId(id) ==
    LET I == {i \in DOMAIN fontlist : fontlist[i].appId = id} IN
    IF I = {} THEN {} ELSE {First(I)}
GetFontRecordsByAppId(id) == {r \in Records : r.scope # "none" /\ r.appId = id}
GetScopeFontRecords == {r \in Records : r.scope # "none"}
(* Mutant: takes the records of session scope as well. *)
EveryScopeFontRecord == {r \in Records : r.scope # "none"}
GetAppScopeFontRecords == {r \in Records : r.scope = "app"}

(***************************************************************************)
(* Writes.  WriteToFile opens with "w", which truncates, and then writes   *)
(* through a stdio buffer whose flush in fclose is not checked: a full     *)
(* disk can leave the old file (fopen fails) or an unreadable one, and the *)
(* unreadable one is reported as a failure or as a success.                *)
(***************************************************************************)
Truncated ==
    /\ configFile' = "broken"
    /\ fontlist' = <<>>
    /\ version' = "none"

WriteToFile(list, ver, ok) ==
    \/ /\ ok
       /\ configFile' = "valid"
       /\ fontlist' = list
       /\ version' = ver
    \/ /\ "write" \in Fault
       /\ \/ ~ok /\ UNCHANGED configVars
          \/ Truncated

Refuse(ok) == ~ok /\ UNCHANGED configVars

(* Mutant: writes only one of the full names of a collection. *)
UserRecordWithOneName(path, names) ==
    [path |-> path, names |-> {CHOOSE n \in names : TRUE}, scope |-> "none",
     srcPath |-> NoUrl, appId |-> Root]
UserRecord(path, names) ==
    [path |-> path, names |-> names, scope |-> "none", srcPath |-> NoUrl,
     appId |-> Root]

(* Mutant: does not count again under the lock. *)
InsertFontRecordAtAnyNumber(path, names, ret) ==
    \/ ~Parses /\ ret = "ERR_INSTALL_FAIL" /\ UNCHANGED configVars
    \/ /\ Parses
       /\ ret = "ERR_OK"
       /\ WriteToFile(Append(fontlist, UserRecord(path, names)), version, TRUE)

(* Mutant: does not look for a record with the same path. *)
InsertFontRecordAtAnyPath(path, names, ret) ==
    \/ /\ Len(fontlist) >= MaxInstallNum
       /\ ret = "ERR_MAX_FILE_COUNT"
       /\ UNCHANGED configVars
    \/ /\ Len(fontlist) < MaxInstallNum
       /\ ret = "ERR_OK"
       /\ WriteToFile(Append(fontlist, UserRecord(path, names)), version, TRUE)

(* The insertion of a user-level record, with the limit checked again      *)
(* under the lock.  A record with the same path is taken for success.      *)
InsertFontRecordIfUnderLimit(path, names, ret) ==
    \/ /\ ~Parses
       /\ ret = "ERR_INSTALL_FAIL"
       /\ UNCHANGED configVars
    \/ /\ Parses
       /\ WithPath(path) # {}
       /\ ret = "ERR_OK"
       /\ UNCHANGED configVars
    \/ /\ Parses
       /\ WithPath(path) = {}
       /\ Len(fontlist) >= MaxInstallNum
       /\ ret = "ERR_MAX_FILE_COUNT"
       /\ UNCHANGED configVars
    \/ /\ Parses
       /\ WithPath(path) = {}
       /\ Len(fontlist) < MaxInstallNum
       /\ \E ok \in BOOLEAN :
            /\ WriteToFile(Append(fontlist, UserRecord(path, names)), version, ok)
            /\ ret = IF ok THEN "ERR_OK" ELSE "ERR_INSTALL_FAIL"

(* Mutant: a srcPath that is there already is taken for success. *)
InsertScopeFontRecordIfNew(record, ok) ==
    \/ ~Parses /\ Refuse(ok)
    \/ /\ Parses
       /\ \/ HasUrl(record.srcPath) /\ ok /\ UNCHANGED configVars
          \/ ~HasUrl(record.srcPath)
             /\ WriteToFile(Append(fontlist, record), version, ok)

(* The insertion of a scope record: no limit and no duplicate check here.  *)
InsertScopeFontRecord(record, ok) ==
    \/ ~Parses /\ Refuse(ok)
    \/ Parses /\ WriteToFile(Append(fontlist, record), version, ok)

(* Mutant: searches on to the last match. *)
DeleteLast(I, ok) ==
    \/ I = {} /\ Refuse(ok)
    \/ I # {} /\ WriteToFile(RemoveAt(fontlist, Max(I)), version, ok)

DeleteFirst(I, ok) ==
    \/ I = {} /\ Refuse(ok)
    \/ I # {} /\ WriteToFile(RemoveAt(fontlist, Min(I)), version, ok)

DeleteFontRecord(path, ok) == DeleteFirst(WithPath(path), ok)
DeleteScopeFontRecordByUrl(url, ok) == DeleteFirst(WithUrl(url), ok)

(* RefreshFullNames re-reads the names of every record from the file with  *)
(* the record's file name directly under the install path; a file that is  *)
(* not there, or that cannot be read, yields no names.                     *)
SandBoxPathToRealPath(path) == [path EXCEPT !.dir = Root]

RefreshFullNames(files) ==
    [i \in DOMAIN fontlist |->
        LET real == SandBoxPathToRealPath(fontlist[i].path) IN
        [fontlist[i] EXCEPT !.names =
            IF real \in DOMAIN files THEN NamesOf(files[real]) ELSE {}]]

Readable(files) ==
    IF "read" \in Fault THEN {[p \in P |-> files[p]] : P \in SUBSET DOMAIN files}
                        ELSE {files}

(* Mutant: refreshes whatever the version. *)
RefreshFontRecord(files, ok) ==
    \/ ~Parses /\ Refuse(ok)
    \/ Parses /\ WriteToFile(RefreshFullNames(files), "7.0", ok)

(* A file of version "7.0" is left alone, any other is refreshed once.     *)
CheckAndUpdateFontRecord(files, ok) ==
    \/ ~Parses /\ Refuse(ok)
    \/ Parses /\ version = "7.0" /\ ok /\ UNCHANGED configVars
    \/ /\ Parses /\ version # "7.0"
       /\ \E read \in Readable(files) :
            WriteToFile(RefreshFullNames(read), "7.0", ok)

(***************************************************************************)
(* CheckFontConfigPath, which runs without configLock_: a missing file is  *)
(* created empty and then filled with an empty "fontlist".  Whether that   *)
(* is written nobody checks.                                               *)
(***************************************************************************)
CreateFontConfig == Truncated
FillFontConfig ==
    \/ /\ configFile' = "valid"
       /\ fontlist' = <<>>
       /\ version' = "7.0"
    \/ "write" \in Fault /\ UNCHANGED configVars
=============================================================================
