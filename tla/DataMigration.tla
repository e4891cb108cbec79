---------------------------- MODULE DataMigration ----------------------------
(***************************************************************************)
(* The migration of the fonts of older releases: class                     *)
(* DataMigrationManager (frameworks/fontmgr/src/data_migration_manager.cpp)*)
(*                                                                         *)
(* Older releases kept the fonts of all users, and one configuration file, *)
(* under INSTALL_PATH_APP.  A migration copies each file to every user and *)
(* then removes it; at the end it upgrades every user's configuration, and *)
(* it reports a result.  A second thread sends heartbeats meanwhile.  The  *)
(* service goes on serving calls, which change the users' directories and  *)
(* configurations under another lock than the migration's.                 *)
(*                                                                         *)
(* The migration runs on the event handler's thread, one at a time: the    *)
(* step "migrate" of FontManagerServer.  callback_ is set from             *)
(* StartDataMigration to JoinHeartBeat, that is while pc is not "idle".    *)
(***************************************************************************)
EXTENDS Naturals, Sequences, FiniteSets

CONSTANTS
    UserIds,   \* the users, in the order of GetAllCreatedUserIds
    Font,      \* font files of older releases
    Config,    \* install_fontconfig.json
    Method,    \* the calls that are served meanwhile
    Fault      \* the failures the environment may produce

File == Font \cup {Config}
User == {UserIds[i] : i \in DOMAIN UserIds}

ASSUME DataMigrationAssumption ==
    /\ UserIds \in Seq(User) /\ Len(UserIds) > 0
    /\ Config \notin Font
    /\ Method \subseteq {"InstallFont", "UninstallFont", "UpdateConfig"}
    /\ Fault \subseteq {"users", "dir", "copy", "remove", "write", "crash"}

VARIABLES
    app,      \* the files under INSTALL_PATH_APP
    files,    \* the files in the directory of each user
    config,   \* what the configuration file of each user says
    pc, userIds, paths, file, at, ret, seen,  \* the migration and its locals
    isDataMigrationing,
    heartBeat,  \* place of the heartbeat thread, "none" when there is no thread
    result,     \* history: the result sent for the last migration
    late,       \* history: the heartbeats sent after it
    uninstalled, touched,  \* history: fonts uninstalled, and users with calls
    spoiled     \* history: a migration failed or a configuration was spoiled

disk == <<app, files, config>>
locals == <<userIds, paths, file, at, ret, seen>>
events == <<result, late>>
history == <<uninstalled, touched, spoiled>>
vars == <<disk, pc, locals, isDataMigrationing, heartBeat, events, history>>

(* A configuration: its version, the fonts it has records of, and those    *)
(* whose record has the full names of the font.                            *)
ConfigOf(version, records, named) ==
    [version |-> version, records |-> records, named |-> named]
NoConfig == ConfigOf("none", {}, {})    \* missing or unreadable
Legacy == ConfigOf("1", Font, Font)
Empty == ConfigOf("7.0", {}, {})

Refreshed(u) == ConfigOf("7.0", config[u].records, config[u].records \cap files[u])

Go(label) == pc' = label /\ UNCHANGED locals
Return ==
    /\ pc' = "idle" /\ userIds' = <<>> /\ paths' = {} /\ file' = Config /\ at' = 1
    /\ ret' = "ERR_OK" /\ seen' = NoConfig
Current == userIds[at]

LateBound == 2   \* heartbeats after the result are counted up to this

(***************************************************************************)
(* The migration.                                                          *)
(***************************************************************************)
(* An attempt that fails goes on with the upgrade of the configurations.   *)
Upgrade(code) ==
    /\ pc' = "read" /\ at' = 1 /\ paths' = {} /\ file' = Config
    /\ ret' = code
    /\ spoiled' = (spoiled \/ code = "failed")

(* InitDataMigrationEnv: there may be no users, nothing to migrate, or a   *)
(* directory that is missing and cannot be created.                        *)
StartDataMigration ==
    /\ pc = "idle" /\ ~isDataMigrationing
    /\ isDataMigrationing' = TRUE
    /\ result' = "none" /\ late' = 0
    /\ \/ /\ \/ "users" \in Fault /\ userIds' = <<>>
             \/ (app = {} \/ "dir" \in Fault) /\ userIds' = UserIds
          /\ Upgrade("failed")
          /\ UNCHANGED heartBeat
       \/ /\ userIds' = UserIds
          /\ app # {}
          /\ heartBeat' = "check"
          /\ paths' = app
          /\ pc' = "next"
          /\ UNCHANGED <<file, at, ret, spoiled>>
    /\ UNCHANGED <<disk, seen, uninstalled, touched>>

(* Each path in turn, in the order GetDirFiles happened to find them.      *)
NextFile ==
    /\ pc = "next"
    /\ \/ /\ paths = {}
          /\ Upgrade("ERR_OK")
       \/ \E f \in paths :
          /\ file' = f /\ paths' = paths \ {f}
          /\ at' = 1
          /\ pc' = "check"
          /\ UNCHANGED <<ret, spoiled>>
    /\ UNCHANGED <<disk, userIds, seen, isDataMigrationing, heartBeat, events, uninstalled, touched>>

(* A file the user has already is left alone.                              *)
CheckDestination ==
    /\ pc = "check" /\ at <= Len(userIds)
    /\ \/ /\ file \in files[Current]
          /\ at' = at + 1
          /\ UNCHANGED pc
       \/ /\ file \notin files[Current]
          /\ pc' = "copy"
          /\ UNCHANGED at
    /\ UNCHANGED <<disk, userIds, paths, file, ret, seen, isDataMigrationing, heartBeat, events, history>>

(* Mutant: upgrades the configuration as soon as it is copied. *)
CopyAndUpgrade ==
    /\ pc = "copy"
    /\ files' = [files EXCEPT ![Current] = @ \cup {file}]
    /\ config' = [config EXCEPT ![Current] =
            IF file = Config THEN ConfigOf("7.0", Font, Font \cap files[Current]) ELSE @]
    /\ pc' = "check" /\ at' = at + 1
    /\ UNCHANGED <<app, userIds, paths, file, ret, seen, isDataMigrationing, heartBeat, events, history>>

(* The copy is written under the temporary directory and renamed: it       *)
(* appears as a whole, and it replaces a file made since the check.        *)
CopyFileForDataMigration ==
    /\ pc = "copy"
    /\ \/ /\ files' = [files EXCEPT ![Current] = @ \cup {file}]
          /\ config' = IF file = Config THEN [config EXCEPT ![Current] = Legacy] ELSE config
          /\ pc' = "check" /\ at' = at + 1
          /\ UNCHANGED <<paths, file, ret, spoiled>>
       \/ "copy" \in Fault /\ Upgrade("failed") /\ UNCHANGED <<files, config>>
    /\ UNCHANGED <<app, userIds, seen, isDataMigrationing, heartBeat, events, uninstalled, touched>>

(* Mutant: does not wait for the last user. *)
RemoveBeforeLastUser ==
    /\ pc = "check" /\ at >= Len(userIds)
    /\ app' = app \ {file} /\ pc' = "next"
    /\ UNCHANGED <<files, config, locals, isDataMigrationing, heartBeat, events, history>>

RemoveSourceFile ==
    /\ pc = "check" /\ at > Len(userIds)
    /\ \/ app' = app \ {file} /\ pc' = "next" /\ UNCHANGED <<paths, file, ret, at, spoiled>>
       \/ "remove" \in Fault /\ Upgrade("failed") /\ UNCHANGED app
    /\ UNCHANGED <<files, config, userIds, seen, isDataMigrationing, heartBeat, events,
                   uninstalled, touched>>

(***************************************************************************)
(* CheckAndUpdateAllFontRecord, with FontConfig objects of its own: their  *)
(* lock does not keep out the calls.  A call that writes at the same time  *)
(* can make the file unreadable for this reader.                           *)
(***************************************************************************)
ReadConfig ==
    /\ pc = "read"
    /\ \/ at > Len(userIds) /\ pc' = "reset" /\ UNCHANGED <<at, seen>>
       \/ /\ at <= Len(userIds)
          /\ \/ /\ config[Current].version = "1"
                /\ seen' = Refreshed(Current)
                /\ pc' = "write"
                /\ UNCHANGED at
             \/ /\ config[Current].version # "1" \/ (Method # {} /\ Current \in touched)
                /\ at' = at + 1
                /\ UNCHANGED <<seen, pc>>
    /\ UNCHANGED <<disk, userIds, paths, file, ret, isDataMigrationing, heartBeat, events, history>>

WriteConfig ==
    /\ pc = "write"
    /\ \/ config' = [config EXCEPT ![Current] = seen] /\ UNCHANGED spoiled
       \/ /\ "write" \in Fault
          /\ config' \in {config, [config EXCEPT ![Current] = NoConfig]}
          /\ spoiled' = TRUE
    /\ pc' = "read" /\ at' = at + 1 /\ seen' = NoConfig
    /\ UNCHANGED <<app, files, userIds, paths, file, ret, isDataMigrationing, heartBeat, events,
                   uninstalled, touched>>

(***************************************************************************)
(* The end: the flag is reset, the result is sent, and the heartbeat       *)
(* thread is joined.                                                       *)
(***************************************************************************)
(* Mutant: leaves the flag to the server. *)
KeepFlag ==
    /\ pc = "reset"
    /\ Go("result")
    /\ UNCHANGED <<disk, isDataMigrationing, heartBeat, events, history>>

ResetFlag ==
    /\ pc = "reset"
    /\ isDataMigrationing' = FALSE
    /\ Go("result")
    /\ UNCHANGED <<disk, heartBeat, events, history>>

EventDataResult ==
    /\ pc = "result"
    /\ result' = ret
    /\ Go("join")
    /\ UNCHANGED <<disk, isDataMigrationing, heartBeat, late, history>>

(* Mutant: lets the thread run on. *)
DetachHeartBeat ==
    /\ pc = "join"
    /\ Return
    /\ UNCHANGED <<disk, isDataMigrationing, heartBeat, events, history>>

JoinHeartBeat ==
    /\ pc = "join" /\ heartBeat \in {"none", "ended"}
    /\ heartBeat' = "none"
    /\ Return
    /\ UNCHANGED <<disk, isDataMigrationing, events, history>>

(***************************************************************************)
(* The heartbeat thread.  It sleeps for a minute, or until the flag is     *)
(* reset.                                                                  *)
(***************************************************************************)
CheckFlag ==
    /\ heartBeat = "check"
    /\ heartBeat' = IF isDataMigrationing THEN "send" ELSE "ended"
    /\ UNCHANGED <<disk, pc, locals, isDataMigrationing, events, history>>

EventDataHeartBeat ==
    /\ heartBeat = "send"
    /\ late' = IF result = "none" \/ late = LateBound THEN late ELSE late + 1
    /\ heartBeat' = "sleep"
    /\ UNCHANGED <<disk, pc, locals, isDataMigrationing, result, history>>

EndSleep ==
    /\ heartBeat = "sleep"
    /\ heartBeat' = "check"
    /\ UNCHANGED <<disk, pc, locals, isDataMigrationing, events, history>>

(***************************************************************************)
(* The calls of the users, each in one step; FontManager has them in full. *)
(***************************************************************************)
(* The first installation of a user makes a configuration.                 *)
InstallFont(u) ==
    /\ "InstallFont" \in Method
    /\ Config \notin files[u]
    /\ config' = [config EXCEPT ![u] = Empty]
    /\ files' = [files EXCEPT ![u] = @ \cup {Config}]
    /\ touched' = touched \cup {u}
    /\ UNCHANGED <<app, pc, locals, isDataMigrationing, heartBeat, events, uninstalled, spoiled>>

UninstallFont(u, f) ==
    /\ "UninstallFont" \in Method
    /\ f \in config[u].named
    /\ config' = [config EXCEPT ![u].records = @ \ {f}, ![u].named = @ \ {f}]
    /\ files' = [files EXCEPT ![u] = @ \ {f}]
    /\ uninstalled' = [uninstalled EXCEPT ![u] = @ \cup {f}]
    /\ touched' = touched \cup {u}
    /\ UNCHANGED <<app, pc, locals, isDataMigrationing, heartBeat, events, spoiled>>

(* Installations by scope upgrade the configuration first.                 *)
UpdateConfig(u) ==
    /\ "UpdateConfig" \in Method
    /\ config[u].version = "1"
    /\ config' = [config EXCEPT ![u] = Refreshed(u)]
    /\ touched' = touched \cup {u}
    /\ UNCHANGED <<app, files, pc, locals, isDataMigrationing, heartBeat, events, uninstalled, spoiled>>

(* The process ends; a configuration that is being written is truncated.   *)
Crash ==
    /\ "crash" \in Fault
    /\ \/ UNCHANGED <<config, spoiled>>
       \/ /\ pc = "write"
          /\ config' = [config EXCEPT ![Current] = NoConfig]
          /\ spoiled' = TRUE
    /\ Return
    /\ isDataMigrationing' = FALSE /\ heartBeat' = "none"
    /\ result' = "none" /\ late' = 0
    /\ UNCHANGED <<app, files, uninstalled, touched>>

(* Some users may have installed fonts before the first migration.         *)
Init ==
    /\ app = File
    /\ touched \in SUBSET User
    /\ files = [u \in User |-> IF u \in touched THEN {Config} ELSE {}]
    /\ config = [u \in User |-> IF u \in touched THEN Empty ELSE NoConfig]
    /\ pc = "idle" /\ userIds = <<>> /\ paths = {} /\ file = Config /\ at = 1
    /\ ret = "ERR_OK" /\ seen = NoConfig
    /\ isDataMigrationing = FALSE /\ heartBeat = "none"
    /\ result = "none" /\ late = 0
    /\ uninstalled = [u \in User |-> {}] /\ spoiled = FALSE

Migrate ==
    \/ NextFile \/ CheckDestination \/ CopyFileForDataMigration \/ RemoveSourceFile
    \/ ReadConfig \/ WriteConfig
    \/ ResetFlag \/ EventDataResult \/ JoinHeartBeat

HeartBeat == CheckFlag \/ EventDataHeartBeat \/ EndSleep

Next ==
    \/ StartDataMigration \/ Migrate \/ HeartBeat
    \/ \E u \in User :
        \/ InstallFont(u) \/ UpdateConfig(u)
        \/ \E f \in Font : UninstallFont(u, f)
    \/ Crash

Spec == Init /\ [][Next]_vars

(* Both threads run on, and a sleep ends.  No migration is ever asked for. *)
FairSpec == Spec /\ WF_vars(Migrate) /\ WF_vars(HeartBeat)

-----------------------------------------------------------------------------
(* No font of older releases is lost by a failed copy, a crash or a second *)
(* attempt: it is in the old place until every user has got it.            *)
NoFontLost ==
    \A f \in Font : f \notin app =>
        \A u \in User : f \in files[u] \/ f \in uninstalled[u]

(* A user that no call has touched finds the fonts after a migration that  *)
(* succeeded: each has its record, and its names were read from a file     *)
(* that was there.  Crashes between the steps of earlier attempts do no    *)
(* harm; an attempt that failed, or a crash in the writing, does.          *)
MigratedFontsAreNamed ==
    result = "ERR_OK" /\ ~spoiled =>
        \A u \in User \ touched : config[u] = ConfigOf("7.0", Font, Font)

(* The heartbeats keep to their migration: the thread is gone when the     *)
(* migration is over, and its caller gets one heartbeat after the result   *)
(* at most.                                                                *)
HeartBeatsEnd == (heartBeat # "none" => pc # "idle") /\ late <= 1

(* Every migration comes to its end, though it waits for the heartbeat     *)
(* thread, which waits for the flag.                                       *)
MigrationEnds == (pc # "idle") ~> (pc = "idle")
=============================================================================
