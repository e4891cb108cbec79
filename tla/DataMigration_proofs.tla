------------------------ MODULE DataMigration_proofs ------------------------
(***************************************************************************)
(* Theorems about DataMigration, for any fonts, users, calls and failures: *)
(* no font is lost, the heartbeats keep to their migration, and a          *)
(* migration that succeeds leaves every user the records of all fonts.     *)
(***************************************************************************)
EXTENDS DataMigration, TLAPS

(* The user has the font, or has uninstalled it. *)
Settled(f, u) == f \in files[u] \/ f \in uninstalled[u]

TypeInv ==
    /\ files \in [User -> SUBSET File]
    /\ uninstalled \in [User -> SUBSET File]
    /\ app \subseteq File /\ paths \subseteq File /\ file \in File
    /\ at \in Nat \ {0}

(* While a file is copied the users before the current one are settled.    *)
CopyInv ==
    /\ pc \in {"next", "check", "copy"} => userIds = UserIds
    /\ pc \in {"check", "copy"} /\ file \in Font =>
            \A j \in 1..Len(UserIds) : j < at => Settled(file, UserIds[j])
    /\ pc = "copy" => at \in 1..Len(UserIds)

LossInv == TypeInv /\ CopyInv /\ NoFontLost

(* What happens to the directories: copies come, and go by UninstallFont.  *)
Kept ==
    /\ files' \in [User -> SUBSET File] /\ uninstalled' \in [User -> SUBSET File]
    /\ \A f \in Font, u \in User : Settled(f, u) => Settled(f, u)'

(* UserIds names the users and nobody else (GetAllCreatedUserIds).         *)
LEMMA Users ==
    /\ \A i \in 1..Len(UserIds) : UserIds[i] \in User
    /\ \A u \in User : \E i \in 1..Len(UserIds) : u = UserIds[i]
  BY DataMigrationAssumption DEF User

(* No call undoes a copy but by uninstalling the font.                     *)
LEMMA CallsKeep ==
  ASSUME TypeInv, NEW u \in User,
         InstallFont(u) \/ UpdateConfig(u) \/ \E f \in Font : UninstallFont(u, f)
  PROVE  Kept /\ UNCHANGED <<app, pc, userIds, paths, file, at>>
<1>1. CASE InstallFont(u)
  BY <1>1 DEF InstallFont, TypeInv, Kept, Settled, File, locals
<1>2. CASE UpdateConfig(u)
  BY <1>2 DEF UpdateConfig, TypeInv, Kept, Settled, locals
<1>3. ASSUME NEW f \in Font, UninstallFont(u, f)
      PROVE  Kept /\ UNCHANGED <<app, pc, userIds, paths, file, at>>
  BY <1>3 DEF UninstallFont, TypeInv, Kept, Settled, File, locals
<1> QED BY <1>1, <1>2, <1>3

(* At first nothing has been copied.                                       *)
LEMMA InitLossInv == Init => LossInv
  BY DEF Init, LossInv, TypeInv, CopyInv, NoFontLost, File

(* Every step of the migration, the calls and a crash keep LossInv.        *)
LEMMA NextLossInv == LossInv /\ [Next]_vars => LossInv'
<1> SUFFICES ASSUME LossInv, [Next]_vars PROVE LossInv'
  OBVIOUS
<1> USE DEF LossInv
(* A step that leaves copies and sources alone and is outside the copying. *)
<1>0. ASSUME Kept, app' = app, paths' \subseteq File, file' \in File, at' \in Nat \ {0},
             pc' \notin {"check", "copy"}, pc' = "next" => userIds' = UserIds
      PROVE  LossInv'
  BY <1>0 DEF Kept, TypeInv, CopyInv, NoFontLost, Settled
<1>1. CASE StartDataMigration
  <2>1. Kept
    BY <1>1 DEF StartDataMigration, disk, TypeInv, Kept, Settled
  <2> QED BY <1>0, <1>1, <2>1 DEF StartDataMigration, Upgrade, disk, TypeInv, File
<1>2. CASE NextFile
  BY <1>2, Users DEF NextFile, Upgrade, disk, File, TypeInv, CopyInv, NoFontLost, Settled
<1>3. CASE CheckDestination
  <2>1. /\ UNCHANGED <<app, files, uninstalled, userIds, paths, file>>
        /\ userIds = UserIds /\ at \in 1..Len(UserIds)
    BY <1>3 DEF CheckDestination, disk, history, TypeInv, CopyInv
  <2>2. TypeInv' /\ NoFontLost'
    BY <1>3, <2>1 DEF CheckDestination, TypeInv, NoFontLost
  <2>3. CASE pc' = "check"
    <3>1. at' = at + 1 /\ file \in files[UserIds[at]]
      BY <1>3, <2>1, <2>3 DEF CheckDestination, Current
    <3> QED BY <1>3, <2>1, <2>2, <2>3, <3>1, Users DEF CheckDestination, CopyInv, Settled
  <2>4. CASE pc' = "copy"
    BY <1>3, <2>1, <2>2, <2>4 DEF CheckDestination, CopyInv, Settled
  <2> QED BY <1>3, <2>3, <2>4 DEF CheckDestination
<1>4. CASE CopyFileForDataMigration
  <2>1. Kept /\ app' = app
    BY <1>4, Users DEF CopyFileForDataMigration, Current, TypeInv, CopyInv, Kept, Settled
  <2>2. CASE pc' = "read"
    BY <1>0, <1>4, <2>1, <2>2 DEF CopyFileForDataMigration, Upgrade, File
  <2>3. CASE pc' = "check"
    <3>1. /\ file' = file /\ paths' = paths /\ userIds' = userIds /\ at' = at + 1
          /\ files' = [files EXCEPT ![Current] = @ \cup {file}]
      BY <1>4, <2>3 DEF CopyFileForDataMigration, Upgrade
    <3>2. file \in files'[UserIds[at]]
      BY <1>4, <3>1, Users DEF CopyFileForDataMigration, Current, TypeInv, CopyInv
    <3>3. ASSUME file \in Font, NEW j \in 1..Len(UserIds), j < at'
          PROVE  Settled(file, UserIds[j])'
      <4>1. CASE j = at
        BY <3>1, <3>2, <4>1 DEF Settled
      <4>2. CASE j < at
        BY <1>4, <2>1, <3>1, <3>3, <4>2, Users DEF CopyFileForDataMigration, CopyInv, Kept
      <4> QED BY <3>1, <3>3, <4>1, <4>2 DEF TypeInv
    <3>4. TypeInv'
      BY <1>4, <2>1, <3>1 DEF CopyFileForDataMigration, Kept, TypeInv
    <3>5. NoFontLost'
      BY <2>1 DEF Kept, NoFontLost, Settled
    <3>6. CopyInv'
      BY <1>4, <2>3, <3>1, <3>3 DEF CopyFileForDataMigration, CopyInv
    <3> QED
      BY <3>4, <3>5, <3>6
  <2> QED BY <1>4, <2>2, <2>3 DEF CopyFileForDataMigration, Upgrade
<1>5. CASE RemoveSourceFile
  BY <1>5, Users DEF RemoveSourceFile, Upgrade, File, TypeInv, CopyInv, NoFontLost, Settled
<1>6. CASE ReadConfig \/ WriteConfig \/ ResetFlag \/ EventDataResult \/ JoinHeartBeat \/ Crash
  <2>1. Kept
    BY <1>6 DEF ReadConfig, WriteConfig, ResetFlag, EventDataResult, JoinHeartBeat, Crash,
                disk, history, TypeInv, Kept, Settled
  <2>2. /\ app' = app /\ paths' \subseteq File /\ file' \in File /\ at' \in Nat \ {0}
          /\ pc' \notin {"check", "copy", "next"}
    BY <1>6 DEF ReadConfig, WriteConfig, ResetFlag, EventDataResult, JoinHeartBeat, Crash,
                Go, Return, disk, locals, TypeInv, File
  <2> QED BY <1>0, <2>1, <2>2
<1>7. CASE HeartBeat \/ UNCHANGED vars
  BY <1>7 DEF HeartBeat, CheckFlag, EventDataHeartBeat, EndSleep, vars, disk, locals, history,
              TypeInv, CopyInv, NoFontLost, Settled
<1>8. ASSUME NEW u \in User,
             InstallFont(u) \/ UpdateConfig(u) \/ \E f \in Font : UninstallFont(u, f)
      PROVE  LossInv'
  <2>1. Kept /\ UNCHANGED <<app, pc, userIds, paths, file, at>>
    BY <1>8, CallsKeep
  <2> QED BY <2>1, Users DEF Kept, TypeInv, CopyInv, NoFontLost, Settled
<1> QED BY <1>1, <1>2, <1>3, <1>4, <1>5, <1>6, <1>7, <1>8 DEF Next, Migrate

(* No font of older releases is lost, whatever fails: a file leaves the    *)
(* old place (StartOneFileCopyTask) only when each user has it.            *)
THEOREM FontsAreKept == Spec => []NoFontLost
  BY InitLossInv, NextLossInv, PTL DEF Spec, LossInv

-----------------------------------------------------------------------------
(* After the result the flag is FALSE until the heartbeat thread is joined: *)
(* the thread sends the heartbeat it was about to send, and no other.      *)
HeartBeatInv ==
    /\ HeartBeatsEnd
    /\ pc \in {"result", "join"} => ~isDataMigrationing
    /\ result # "none" => pc \in {"join", "idle"}
    /\ late = 0 \/ (late = 1 /\ result # "none" /\ heartBeat # "send")

(* At first there is no heartbeat thread.                                  *)
LEMMA InitHeartBeatInv == Init => HeartBeatInv
  BY DEF Init, HeartBeatInv, HeartBeatsEnd

(* Every step keeps HeartBeatInv; EventDataHeartBeat is the one that counts. *)
LEMMA NextHeartBeatInv == HeartBeatInv /\ [Next]_vars => HeartBeatInv'
<1> SUFFICES ASSUME HeartBeatInv, [Next]_vars PROVE HeartBeatInv'
  OBVIOUS
<1> USE DEF HeartBeatInv, HeartBeatsEnd
<1>1. CASE StartDataMigration
  BY <1>1 DEF StartDataMigration, Upgrade
<1>2. CASE NextFile
  BY <1>2 DEF NextFile, Upgrade, events
<1>3. CASE CheckDestination
  BY <1>3 DEF CheckDestination, events
<1>4. CASE CopyFileForDataMigration
  BY <1>4 DEF CopyFileForDataMigration, Upgrade, events
<1>5. CASE RemoveSourceFile
  BY <1>5 DEF RemoveSourceFile, Upgrade, events
<1>6. CASE ReadConfig \/ WriteConfig
  BY <1>6 DEF ReadConfig, WriteConfig, events
<1>7. CASE ResetFlag
  BY <1>7 DEF ResetFlag, Go, events
<1>8. CASE EventDataResult
  BY <1>8 DEF EventDataResult, Go
<1>9. CASE JoinHeartBeat
  BY <1>9 DEF JoinHeartBeat, Return, events
<1>10. CASE CheckFlag \/ EndSleep
  BY <1>10 DEF CheckFlag, EndSleep, events
<1>11. CASE EventDataHeartBeat
  BY <1>11 DEF EventDataHeartBeat, LateBound
<1>12. CASE Crash
  BY <1>12 DEF Crash, Return
<1>13. CASE UNCHANGED vars
  BY <1>13 DEF vars, events
<1>14. ASSUME NEW u \in User,
             InstallFont(u) \/ UpdateConfig(u) \/ \E f \in Font : UninstallFont(u, f)
       PROVE  HeartBeatInv'
  <2>1. UNCHANGED <<pc, isDataMigrationing, heartBeat, result, late>>
    BY <1>14 DEF InstallFont, UpdateConfig, UninstallFont, events
  <2> QED BY <2>1
<1> QED BY <1>1, <1>2, <1>3, <1>4, <1>5, <1>6, <1>7, <1>8, <1>9, <1>10, <1>11, <1>12, <1>13, <1>14
        DEF Next, Migrate, HeartBeat

(* The heartbeat thread (StartHeartBeatTask) is gone when the migration is *)
(* over, and at most one heartbeat follows the result.                     *)
THEOREM HeartBeatsStop == Spec => []HeartBeatsEnd
  BY InitHeartBeatInv, NextHeartBeatInv, PTL DEF Spec, HeartBeatInv
-----------------------------------------------------------------------------
(* A configuration whose every font has its record and its names.          *)
Named == ConfigOf("7.0", Font, Font)

(* What the migration has done for a user that no call has touched.  The   *)
(* configuration of older releases is there when its file is, and it is    *)
(* read only when every file has been copied: the upgrade finds the names  *)
(* of all fonts.                                                           *)
Untouched == User \ touched
Upgrading == {"read", "write", "reset", "result", "join"}

NamedTypes ==
    /\ config = [u \in User |-> config[u]]
    /\ \A u \in User : uninstalled[u] # {} => u \in touched

SourcesInv ==
    /\ pc = "next" => app \subseteq paths
    /\ pc \in {"check", "copy"} => app \subseteq paths \cup {file}
    /\ pc \in {"check", "copy"} /\ file = Config =>
            \A j \in 1..Len(UserIds) : j < at => Config \in files[UserIds[j]]
    /\ Config \notin app => \A u \in User : Config \in files[u]
    /\ pc \in Upgrading => app = {} /\ userIds = UserIds

ConfigsInv ==
    /\ \A u \in Untouched :
        /\ config[u] \in {NoConfig, Legacy, Named}
        /\ Config \in files[u] => config[u] # NoConfig
    /\ pc \in {"read", "write"} =>
        \A j \in 1..Len(UserIds) :
            j < at /\ UserIds[j] \in Untouched => config[UserIds[j]] = Named
    /\ pc = "write" => at \in 1..Len(UserIds) /\ (Current \in Untouched => seen = Named)
    /\ pc \in {"reset", "result", "join"} \/ (pc = "idle" /\ result = "ERR_OK") =>
        \A u \in Untouched : config[u] = Named

NamedInv == NamedTypes /\ (~spoiled => SourcesInv /\ ConfigsInv)

(* At first no user has a file of the old releases.                        *)
LEMMA InitNamed == Init => NamedInv
<1> SUFFICES ASSUME Init PROVE NamedInv
  OBVIOUS
<1>1. NamedTypes
  BY DEF Init, NamedTypes
<1>2. SourcesInv
  BY DEF Init, SourcesInv, File, Upgrading
<1>3. ConfigsInv
  BY DEF Init, ConfigsInv, Untouched
<1> QED BY <1>1, <1>2, <1>3 DEF NamedInv

(* The values a configuration goes through are different.                  *)
LEMMA Versions ==
  /\ NoConfig.version = "none" /\ Legacy.version = "1" /\ Named.version = "7.0"
  /\ Legacy.records = Font /\ NoConfig # Legacy /\ NoConfig # Named
BY DEF NoConfig, Legacy, Named, ConfigOf

(* When every source is gone a user that no call has touched has every     *)
(* file.                                                                   *)
LEMMA AllCopied ==
  ASSUME LossInv, NamedTypes, SourcesInv, app = {}, NEW u \in Untouched
  PROVE  u \in User /\ files[u] = File
<1>1. u \in User /\ files[u] \subseteq File /\ uninstalled[u] = {}
  BY DEF Untouched, LossInv, TypeInv, NamedTypes
<1>2. Font \subseteq files[u]
  BY <1>1 DEF LossInv, NoFontLost
<1>3. Config \in files[u]
  BY <1>1 DEF SourcesInv
<1> QED BY <1>1, <1>2, <1>3 DEF File

(* The refresh of such a user's configuration finds every name.            *)
LEMMA RefreshNames ==
  ASSUME LossInv, NamedTypes, SourcesInv, app = {}, NEW u \in Untouched,
         config[u] = Legacy
  PROVE  Refreshed(u) = Named
<1>1. files[u] = File
  BY AllCopied
<1>2. Font \cap File = Font
  BY DEF File
<1> QED BY <1>1, <1>2, Versions DEF Refreshed, Named

(* A call touches its user, and leaves the other users and the migration   *)
(* alone.                                                                  *)
LEMMA CallTouches ==
  ASSUME TypeInv, NamedTypes, NEW u \in User,
         InstallFont(u) \/ UpdateConfig(u) \/ \E f \in Font : UninstallFont(u, f)
  PROVE  /\ NamedTypes'
         /\ Untouched' \subseteq Untouched \ {u}
         /\ \A v \in User : v # u => config'[v] = config[v] /\ files'[v] = files[v]
         /\ \A v \in User : Config \in files[v] => Config \in files'[v]
         /\ UNCHANGED <<app, pc, locals, result, spoiled>>
<1>1. CASE InstallFont(u)
  BY <1>1 DEF InstallFont, TypeInv, NamedTypes, Untouched, events
<1>2. CASE UpdateConfig(u)
  BY <1>2 DEF UpdateConfig, TypeInv, NamedTypes, Untouched, events
<1>3. ASSUME NEW f \in Font, UninstallFont(u, f)
      PROVE  /\ NamedTypes'
             /\ Untouched' \subseteq Untouched \ {u}
             /\ \A v \in User : v # u => config'[v] = config[v] /\ files'[v] = files[v]
             /\ \A v \in User : Config \in files[v] => Config \in files'[v]
             /\ UNCHANGED <<app, pc, locals, result, spoiled>>
  BY <1>3, DataMigrationAssumption DEF UninstallFont, TypeInv, NamedTypes, Untouched, events
<1> QED BY <1>1, <1>2, <1>3

(* A call keeps what is said of the users no call has touched.             *)
LEMMA CallNamed ==
  ASSUME LossInv, NamedInv, NEW u \in User,
         InstallFont(u) \/ UpdateConfig(u) \/ \E f \in Font : UninstallFont(u, f)
  PROVE  NamedInv'
<1>1. /\ NamedTypes'
      /\ Untouched' \subseteq Untouched \ {u}
      /\ \A v \in User : v # u => config'[v] = config[v] /\ files'[v] = files[v]
      /\ \A v \in User : Config \in files[v] => Config \in files'[v]
      /\ UNCHANGED <<app, pc, locals, result, spoiled>>
  BY CallTouches DEF LossInv, NamedInv
<1>2. /\ UNCHANGED <<app, pc, userIds, paths, file, at, seen, result, spoiled>>
      /\ Current' = Current
  BY <1>1 DEF locals, Current
<1>3. \A v \in Untouched' : v \in Untouched /\ v \in User /\ config'[v] = config[v]
                            /\ files'[v] = files[v]
  BY <1>1 DEF Untouched
<1>4. ASSUME SourcesInv PROVE SourcesInv'
  BY <1>1, <1>2, <1>4, Users DEF SourcesInv
<1>5. ASSUME ConfigsInv PROVE ConfigsInv'
  BY <1>2, <1>3, <1>5 DEF ConfigsInv
<1> QED BY <1>1, <1>2, <1>4, <1>5 DEF NamedInv

(* Steps of the migration that change neither a configuration nor a copy.  *)
LEMMA SameConfigs ==
  ASSUME NamedInv, UNCHANGED <<config, files, uninstalled, touched>>,
         ~spoiled' => ~spoiled /\ (SourcesInv /\ ConfigsInv => SourcesInv' /\ ConfigsInv')
  PROVE  NamedInv'
<1>1. NamedTypes'
  BY DEF NamedInv, NamedTypes
<1> QED BY <1>1 DEF NamedInv

(* The start of a migration, the choice of files and the check for a copy. *)
LEMMA CopyingNamed ==
  ASSUME LossInv, HeartBeatInv, NamedInv,
         StartDataMigration \/ NextFile \/ CheckDestination
  PROVE  NamedInv'
<1>1. UNCHANGED <<config, files, uninstalled, touched, app>> /\ Untouched' = Untouched
  BY DEF StartDataMigration, NextFile, CheckDestination, disk, history, Untouched
<1>2. CASE StartDataMigration
  <2>1. CASE spoiled'
    BY <1>1, <2>1, SameConfigs
  <2>2. CASE ~spoiled'
    <3>1. pc' = "next" /\ paths' = app /\ spoiled' = spoiled /\ result' = "none"
      BY <1>2, <2>2 DEF StartDataMigration, Upgrade
    <3>2. SourcesInv => SourcesInv'
      BY <1>1, <3>1 DEF SourcesInv, Upgrading
    <3>3. ConfigsInv => ConfigsInv'
      BY <1>1, <3>1 DEF ConfigsInv
    <3> QED BY <1>1, <3>1, <3>2, <3>3, SameConfigs
  <2> QED BY <2>1, <2>2
<1>3. CASE NextFile
  <2>0. ~spoiled' => ~spoiled
    BY <1>3, Zenon DEF NextFile, Upgrade
  <2>1. userIds' = userIds /\ userIds = UserIds /\ result' = result /\ pc = "next"
    BY <1>3 DEF NextFile, Upgrade, LossInv, CopyInv, events
  <2>2. CASE pc' = "read" /\ paths = {} /\ at' = 1
    <3>1. SourcesInv => SourcesInv'
      BY <1>1, <2>1, <2>2 DEF SourcesInv, Upgrading
    <3>2. ConfigsInv => ConfigsInv'
      BY <1>1, <2>1, <2>2 DEF ConfigsInv
    <3> QED BY <1>1, <2>0, <3>1, <3>2, SameConfigs
  <2>3. CASE pc' = "check" /\ at' = 1 /\ file' \in paths /\ paths' = paths \ {file'}
    <3>1. SourcesInv => SourcesInv'
      BY <1>1, <2>1, <2>3 DEF SourcesInv, Upgrading
    <3>2. ConfigsInv => ConfigsInv'
      BY <1>1, <2>1, <2>3 DEF ConfigsInv
    <3> QED BY <1>1, <2>0, <3>1, <3>2, SameConfigs
  <2> QED BY <1>3, <2>2, <2>3 DEF NextFile, Upgrade
<1>4. CASE CheckDestination
  <2>1. /\ spoiled' = spoiled /\ userIds = UserIds /\ result' = result
        /\ UNCHANGED <<paths, file>> /\ pc = "check" /\ pc' \in {"check", "copy"}
        /\ at \in Nat \ {0}
    BY <1>4 DEF CheckDestination, LossInv, CopyInv, TypeInv, events, history
  <2>2. \A j \in 1..Len(UserIds) :
            j < at' => j < at \/ (j = at /\ file \in files[UserIds[j]])
    BY <1>4, <2>1 DEF CheckDestination, Current
  <2>3. SourcesInv => SourcesInv'
    BY <1>1, <2>1, <2>2 DEF SourcesInv, Upgrading
  <2>4. ConfigsInv => ConfigsInv'
    BY <1>1, <2>1 DEF ConfigsInv
  <2> QED BY <1>1, <2>1, <2>3, <2>4, SameConfigs
<1> QED BY <1>2, <1>3, <1>4

(* The copy of the configuration brings the user the one of older          *)
(* releases.                                                               *)
LEMMA CopyNamed ==
  ASSUME LossInv, NamedInv, CopyFileForDataMigration
  PROVE  NamedInv'
<1>1. /\ UNCHANGED <<app, userIds, uninstalled, touched, result>> /\ Untouched' = Untouched
      /\ userIds = UserIds /\ pc = "copy" /\ at \in 1..Len(UserIds) /\ Current \in User
      /\ NamedTypes
  BY Users DEF CopyFileForDataMigration, LossInv, CopyInv, Current, events, NamedInv, Untouched
<1>2. CASE spoiled' /\ UNCHANGED <<files, config>>
  BY <1>1, <1>2, SameConfigs
<1>3. CASE /\ files' = [files EXCEPT ![Current] = @ \cup {file}]
           /\ config' = IF file = Config THEN [config EXCEPT ![Current] = Legacy] ELSE config
           /\ pc' = "check" /\ at' = at + 1
           /\ UNCHANGED <<paths, file, ret, spoiled>>
  <2>1. NamedTypes'
    BY <1>1, <1>3 DEF NamedTypes
  <2>2. /\ files' \in [User -> SUBSET File]
        /\ \A u \in User : /\ u # Current => files'[u] = files[u] /\ config'[u] = config[u]
                           /\ files[u] \subseteq files'[u]
        /\ files'[Current] = files[Current] \cup {file}
        /\ config'[Current] = IF file = Config THEN Legacy ELSE config[Current]
    BY <1>1, <1>3 DEF LossInv, TypeInv, NamedTypes, File
  <2>3. ASSUME SourcesInv PROVE SourcesInv'
    <3>1. ASSUME file = Config, NEW j \in 1..Len(UserIds), j < at'
          PROVE  Config \in files'[UserIds[j]]
      <4>1. CASE j = at
        BY <1>1, <2>2, <3>1, <4>1 DEF Current
      <4>2. CASE j < at
        BY <1>1, <2>2, <2>3, <3>1, <4>2, Users DEF SourcesInv
      <4> QED BY <1>1, <1>3, <3>1, <4>1, <4>2
    <3> QED BY <1>1, <1>3, <2>2, <2>3, <3>1 DEF SourcesInv, Upgrading
  <2>4. ASSUME ConfigsInv PROVE ConfigsInv'
    <3>1. ASSUME NEW u \in Untouched
          PROVE  /\ config'[u] \in {NoConfig, Legacy, Named}
                 /\ Config \in files'[u] => config'[u] # NoConfig
      <4>1. CASE u # Current
        BY <2>2, <2>4, <4>1 DEF ConfigsInv, Untouched
      <4>2. CASE u = Current
        BY <2>2, <2>4, <3>1, <4>2, Versions DEF ConfigsInv
      <4> QED BY <4>1, <4>2
    <3> QED BY <1>1, <1>3, <3>1 DEF ConfigsInv
  <2> QED BY <1>3, <2>1, <2>3, <2>4 DEF NamedInv
<1> QED BY <1>2, <1>3 DEF CopyFileForDataMigration, Upgrade

(* A source is removed when every user has the copy.                       *)
LEMMA RemoveNamed ==
  ASSUME LossInv, NamedInv, RemoveSourceFile
  PROVE  NamedInv'
<1>1. /\ UNCHANGED <<files, config, userIds, uninstalled, touched, result>>
      /\ Untouched' = Untouched /\ pc = "check" /\ at > Len(UserIds) /\ userIds = UserIds
  BY DEF RemoveSourceFile, LossInv, CopyInv, events, Untouched
<1>2. CASE spoiled'
  BY <1>1, <1>2, SameConfigs
<1>3. CASE ~spoiled'
  <2>1. app' = app \ {file} /\ pc' = "next" /\ UNCHANGED <<paths, spoiled>>
    BY <1>3 DEF RemoveSourceFile, Upgrade
  <2>2. ASSUME SourcesInv, file = Config, NEW u \in User PROVE Config \in files[u]
    <3>1. PICK j \in 1..Len(UserIds) : u = UserIds[j]
      BY Users
    <3>2. j < at /\ at \in Nat
      BY <1>1, DataMigrationAssumption DEF LossInv, TypeInv
    <3> QED BY <1>1, <2>2, <3>1, <3>2 DEF SourcesInv
  <2>3. SourcesInv => SourcesInv'
    BY <1>1, <2>1, <2>2 DEF SourcesInv, Upgrading
  <2>4. ConfigsInv => ConfigsInv'
    BY <1>1, <2>1 DEF ConfigsInv
  <2> QED BY <1>1, <2>1, <2>3, <2>4, SameConfigs
<1> QED BY <1>2, <1>3

(* The upgrade reads the configuration and the names of the copies.        *)
LEMMA ReadNamed ==
  ASSUME LossInv, NamedInv, ReadConfig
  PROVE  NamedInv'
<1>1. /\ UNCHANGED <<app, files, config, userIds, uninstalled, touched, result, spoiled>>
      /\ Untouched' = Untouched /\ pc = "read" /\ at \in Nat \ {0}
  BY DEF ReadConfig, disk, history, events, Untouched, LossInv, TypeInv
<1>2. SourcesInv => SourcesInv'
  BY <1>1 DEF ReadConfig, SourcesInv, Upgrading
<1>3. ASSUME SourcesInv, ConfigsInv PROVE ConfigsInv'
  <2>1. app = {} /\ userIds = UserIds
    BY <1>1, <1>3 DEF SourcesInv, Upgrading
  <2>2. \A u \in Untouched : config[u] \in {Legacy, Named}
    <3>1. \A u \in Untouched : Config \in files[u]
      BY <1>3, <2>1, AllCopied DEF File, NamedInv
    <3> QED BY <1>3, <3>1 DEF ConfigsInv
  <2>3. CASE at > Len(userIds) /\ pc' = "reset"
    <3>1. \A u \in Untouched : config[u] = Named
      <4> SUFFICES ASSUME NEW u \in Untouched PROVE config[u] = Named
        OBVIOUS
      <4>1. PICK j \in 1..Len(UserIds) : u = UserIds[j]
        BY Users DEF Untouched
      <4>2. j < at
        BY <1>1, <2>1, <2>3, DataMigrationAssumption
      <4> QED BY <1>1, <1>3, <4>1, <4>2 DEF ConfigsInv
    <3> QED BY <1>1, <1>3, <2>3, <3>1 DEF ConfigsInv
  <2>4. CASE at <= Len(userIds) /\ seen' = Refreshed(Current) /\ pc' = "write" /\ at' = at
             /\ config[Current].version = "1"
    <3>1. Current \in Untouched => Refreshed(Current) = Named
      BY <1>3, <2>1, <2>2, <2>4, RefreshNames, Versions DEF NamedInv
    <3>2. Current' = Current /\ at \in 1..Len(UserIds)
      BY <1>1, <2>1, <2>4, DataMigrationAssumption DEF Current
    <3> QED BY <1>1, <1>3, <2>4, <3>1, <3>2 DEF ConfigsInv
  <2>5. CASE /\ at <= Len(userIds) /\ at' = at + 1 /\ pc' = pc
             /\ config[Current].version # "1" \/ (Method # {} /\ Current \in touched)
    <3>1. Current \in Untouched => config[Current] = Named
      BY <2>2, <2>5, Versions DEF Untouched
    <3>2. \A j \in 1..Len(UserIds) : j < at' => j < at \/ UserIds[j] = Current
      BY <1>1, <2>1, <2>5 DEF Current
    <3> QED BY <1>1, <1>3, <2>5, <3>1, <3>2 DEF ConfigsInv
  <2> QED BY <2>3, <2>4, <2>5 DEF ReadConfig
<1> QED BY <1>1, <1>2, <1>3, SameConfigs

(* It writes what it has read, unless a call has touched the user since.   *)
LEMMA WriteNamed ==
  ASSUME LossInv, NamedInv, WriteConfig
  PROVE  NamedInv'
<1>1. /\ UNCHANGED <<app, files, userIds, uninstalled, touched, result>>
      /\ Untouched' = Untouched /\ pc = "write" /\ pc' = "read" /\ at' = at + 1
      /\ at \in Nat \ {0} /\ NamedTypes
  BY DEF WriteConfig, events, Untouched, LossInv, TypeInv, NamedInv
<1>2. NamedTypes'
  BY <1>1 DEF WriteConfig, NamedTypes
<1>3. CASE spoiled'
  BY <1>2, <1>3 DEF NamedInv
<1>4. CASE ~spoiled'
  <2>1. config' = [config EXCEPT ![Current] = seen] /\ ~spoiled
    BY <1>4 DEF WriteConfig
  <2>2. SourcesInv /\ ConfigsInv /\ userIds = UserIds
    BY <1>1, <2>1 DEF NamedInv, SourcesInv, Upgrading
  <2>3. SourcesInv'
    BY <1>1, <2>2 DEF SourcesInv, Upgrading
  <2>4. Current \in User /\ (Current \in Untouched => seen = Named)
    BY <1>1, <2>2, Users DEF ConfigsInv, Current
  <2>5. \A u \in User : config'[u] = IF u = Current THEN seen ELSE config[u]
    BY <1>1, <2>1 DEF NamedTypes
  <2>6. \A u \in Untouched : u \in User
    BY DEF Untouched
  <2>7. \A j \in 1..Len(UserIds) : j < at' => j < at \/ UserIds[j] = Current
    BY <1>1, <2>2 DEF Current
  <2>8. ConfigsInv'
    BY <1>1, <2>2, <2>4, <2>5, <2>6, <2>7, Versions DEF ConfigsInv
  <2> QED BY <1>2, <2>3, <2>8 DEF NamedInv
<1> QED BY <1>3, <1>4

(* The end of the migration, the heartbeats and a crash.                   *)
LEMMA EndNamed ==
  ASSUME HeartBeatInv, NamedInv,
         ResetFlag \/ EventDataResult \/ JoinHeartBeat \/ HeartBeat \/ Crash \/ UNCHANGED vars
  PROVE  NamedInv'
<1>1. UNCHANGED <<app, files, uninstalled, touched>> /\ Untouched' = Untouched
  BY DEF ResetFlag, EventDataResult, JoinHeartBeat, HeartBeat, CheckFlag, EventDataHeartBeat,
         EndSleep, Crash, vars, disk, history, Untouched
<1>2. CASE Crash /\ spoiled'
  <2>1. NamedTypes'
    BY <1>1, <1>2 DEF Crash, NamedInv, NamedTypes
  <2> QED BY <1>2, <2>1 DEF NamedInv
<1>3. CASE ~(Crash /\ spoiled')
  <2>1. UNCHANGED <<config, spoiled>>
    BY <1>3 DEF ResetFlag, EventDataResult, JoinHeartBeat, HeartBeat, CheckFlag,
       EventDataHeartBeat, EndSleep, Crash, vars, disk, history
  <2>2. \/ UNCHANGED <<pc, locals, result>>
        \/ pc = "reset" /\ pc' = "result" /\ userIds' = userIds /\ result' = result
        \/ pc = "result" /\ pc' = "join" /\ userIds' = userIds
        \/ pc = "join" /\ pc' = "idle"
        \/ pc' = "idle" /\ result' = "none"
    BY DEF ResetFlag, EventDataResult, JoinHeartBeat, HeartBeat, CheckFlag, Go, Return,
       EventDataHeartBeat, EndSleep, Crash, vars, events, locals
  <2>3. SourcesInv => SourcesInv'
    BY <1>1, <2>2 DEF SourcesInv, Upgrading, locals
  <2>4. ConfigsInv => ConfigsInv'
    BY <1>1, <2>1, <2>2 DEF ConfigsInv, locals, Current
  <2> QED BY <1>1, <2>1, <2>3, <2>4, SameConfigs
<1> QED BY <1>2, <1>3

(* A migration that succeeded has left every user that no call has touched *)
(* the records of all fonts, with names read from files that were there:   *)
(* DoDataMigration upgrades the configurations when every file is copied,  *)
(* and crashes between its steps lose nothing of that.                     *)
THEOREM MigratedAreNamed == Spec => []MigratedFontsAreNamed
<1>1. Init => LossInv /\ HeartBeatInv /\ NamedInv
  BY InitLossInv, InitHeartBeatInv, InitNamed
<1>2. LossInv /\ HeartBeatInv /\ NamedInv /\ [Next]_vars => NamedInv'
  BY CallNamed, CopyingNamed, CopyNamed, RemoveNamed, ReadNamed, WriteNamed, EndNamed
     DEF Next, Migrate
<1>3. HeartBeatInv /\ NamedInv => MigratedFontsAreNamed
  BY DEF HeartBeatInv, NamedInv, ConfigsInv, Untouched, Named, MigratedFontsAreNamed
<1> QED BY <1>1, <1>2, <1>3, NextLossInv, NextHeartBeatInv, PTL DEF Spec
=============================================================================
