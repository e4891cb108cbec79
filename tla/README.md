# Formal model of the OpenHarmony font manager

The font manager installs fonts for a whole user (`InstallFont`, `UninstallFont`) and, since configuration
version 7.0, for one application or one session (`InstallScopeFont`, `UninstallScopeFont`, `GetFontScope`).
This directory holds TLA+ modules of its core, the TLC configurations that check them, and theorems about
them that TLAPS proves. Paths below are relative to `src/`.

## 1. The system

| Part | State it keeps | Operations | Modelled |
|---|---|---|---|
| `FontConfig` (`frameworks/fontmgr/src/font_config.cpp`) | `install_fontconfig.json` of one user, under `configLock_` | insert, delete, search, refresh of records | `FontConfig.tla` |
| `FontManager` (`font_manager.cpp`) and `FontManagerUtils` | font files and application directories; the arguments of running calls | install, uninstall, scope queries, cleanups | `FontManager.tla` |
| `FontClientRegistry` (`font_client_registry.cpp`) | registered applications per user, death recipients | register, unregister, client died | `ClientRegistry.tla` |
| `FontManagerServer` (`service/server`) | calling count, unload task, migration flag | IPC entry points, start, stop, boot cleanup, unloading | `FontManagerServer.tla` |
| `DataMigrationManager` (`data_migration_manager.cpp`) | progress of a migration | copy the fonts of all users, heartbeat, result | `DataMigration.tla` |
| `FontServiceLoadManager` (`service/client`) | `loadMutex_`, the status all load attempts share | find the service, have it loaded, wait for the callback | `FontServiceLoadManager.tla` |
| `FontManagerClient` (`service/client`) | the binder and the death recipient of the process, under `observerLock_` | observe the service, forward calls | `FontManagerClient.tla` |
| JS binding (`interfaces/js/kits/src/font_manager_addon.cpp`) | per observer a counted thread-safe function, a context, a cleanup hook | the observer calls, the end of an environment | `FontManagerAddon.tla`; its promise calls not |
| ANI binding, inner API, command line tool | argument conversion | one call each | no |
| adapters (`hisysevent`, `storage_manager`, `font_event_publish`) | none | report events and sizes | no: nothing reads what they write |

How they interact. Client processes call the server by IPC; its threads enter `FontManager`, a singleton
without a lock, at the same time. Each operation of `FontManager` is a sequence of `FontConfig` calls, atomic
one by one under `configLock_`, and of file-system calls that nothing protects. Applications that install fonts
register an observer with `FontClientRegistry`; when they unregister or die, the thread that hears of it runs
`CleanupAppScopeFonts`. A migration runs on the server's event handler with `FontConfig` objects, and so locks, of
its own, while calls change the same files. At a start the server's event handler cleans up what earlier sessions left, and when
nothing is going on it unloads the service. In a client process all threads, and all JS environments, share one
loader, one client object and one death recipient; the service may go away, or die, between any two of their steps.

What is hard: calls that overlap between two accesses to shared state; a snapshot or check that is stale when
it is used; crashes between the file and its record and inside the rewriting of the configuration; failing
system calls; death notices and callbacks that come late; copies within one second; objects that several holders
let go of in any order. `PROJECT.json` lists each such hazard at
its line, with the properties that cover it.

What makes the parts correct:
- store: number of fonts within the limit; records and files agree, and an operation in flight accounts for
  every difference; names, srcPaths and paths are unique; nobody removes another application's fonts; `ERR_OK`
  means what it says; damage by a crash can be repaired;
- registry: its two maps agree; a user's limit holds; a dead client is noticed and removed;
- migration: a font leaves the old place only when every user has it; the configurations it leaves name the fonts;
  it ends and takes its heartbeat thread along, and a later attempt goes on where one failed;
- loader: a load fails for a reason of its own, and no thread waits for ever; client: whoever is registered is told
  of the service's death, by one recipient; binding: an observer's function lives as long as somebody may use it;
- server: one migration at a time and the flag set exactly as long as one is accepted; no unloading under a call,
  a migration or a client; an unused service unloads; an application's fonts go with its registration.

## 2. The modules

| Module | Content |
|---|---|
| `FontConfig` | the configuration file, and one operator per operation of the class |
| `FontManager` | extends it by files, directories and one program counter per thread; its properties |
| `FontStore` | what user-level calls promise: an abstract store of atomic steps |
| `UserFonts`, `MCUserFonts` | the refinement mapping from `FontManager` to `FontStore`, and its instance |
| `AtomicStore` | what all operations promise to calls that do not overlap: a set of fonts and one step for each effect |
| `AtomicCalls`, `MCAtomicCalls` | the refinement mapping from `FontManager` to `AtomicStore`, and its instance |
| `MCFontManager` | fonts, names, clients, sets of operations, the bound and the symmetry for TLC |
| `ClientRegistry`, `MCClientRegistry` | the registry and its instance |
| `FontManagerServer`, `MCFontManagerServer` | the life of the service, composed with an instance of the registry |
| `DataMigration`, `MCDataMigration` | the migration of fonts of older releases, its heartbeat thread, and the calls that interfere |
| `FontServiceLoadManager` | finding and loading the service in a client process |
| `FontManagerClient` | extends it by the calls of the process and its death recipient |
| `FontManagerAddon`, `MCFontManagerAddon` | extends that by the JS environments, their observers and functions |
| `FontManager_proofs`, `UserFonts_proofs`, `ClientRegistry_proofs`, `FontManagerServer_proofs`, `DataMigration_proofs`, `FontManagerAddon_proofs` | lemmas and theorems |
| `FontRecords_proofs` | extends `FontManager_proofs`, which begins with the lemmas on `FontConfig`: the theorems about records and files |
| `AtomicCalls_proofs` | extends `AtomicCalls` and `FontRecords_proofs`: the refinement of `AtomicStore` |

**FontConfig.** The file is `configFile` (missing, valid, broken), `fontlist` and `version`. Every operation of
the class locks, reads, parses and rewrites the whole file, so it is one atomic operator. `WriteToFile` opens
with truncation and writes through a buffer: with `"write" \in Fault` it fails leaving the old file, or leaves
an unreadable one, reported as a failure or - `fclose` is not checked - as a success. An unreadable file reads
as one without records, and it stays: `CheckFontConfigPath` creates a file only if none exists.

**FontManager.** An action is one access to shared state; `pc[t]` is the place of thread `t` in the code and
`loc[t]` the arguments and locals it carries. The labels and the code:

| Labels | Code in `font_manager.cpp` |
|---|---|
| create, fill | `CheckFontConfigPath`: the file is created and then filled, without `configLock_` |
| find, probe, heal | the loop of `InstallFont` over the full names (66-78) |
| count, copy, insert, undo | the rest of `InstallFont` (79-97) |
| remove, delete | `UninstallFont` (160-170) |
| update, url, total, names, mkdir, copyScope, insertScope, undo | `InstallScopeFont` and its helpers (229-313) |
| removeScope, deleteScope | `UninstallScopeFont` (338-348) |
| clean, deleteClean | the three cleanups (378-465), whose directories `font_manager_server.cpp` (530-559) deletes |

`CleanupScopeFontDirs` of the unload task (`font_manager_utils.cpp:85`) deletes application directories that are
empty; it has no record to remove and is one action of an idle thread. `DeleteDir` and `RemoveAll`, whose results no
caller looks at, leave any part of a directory behind with `"remove" \in Fault` (`DeleteDirs`).

The destination of a copy is the directory, time tag, thread and base name. A time tag never comes back, so by
default a copy takes the first tag that gives a path not in use; with `RepeatTag` it takes any, the current
second included. The environment may refuse to copy, remove, write or create directories (`Fault`), a font file
that is there may be unreadable to the refresh (`"read"`), and the service may crash at any point, inside a rewrite
too. `ClearAllTempFileDir` deletes the temporary directory
under a copy: for the store this is the failing copy that `"copy" \in Fault` allows. One user is modelled:
users share no directory, no file and no `FontConfig` object.

Abstracted: contents of font files (a font is a value with its sequence of full names), the text of paths and
of the JSON, permissions, and `ValidateAndResolveRealPath`, which accepts every path the program writes.
Comparison of bundle names is part of that of identifiers, since a token has one bundle name.

**FontStore and UserFonts.** `FontStore` knows neither files nor configuration: `fonts` maps each copy that holds a
place to its full names, `leaving` are the copies that an uninstallation has taken away and nobody has forgotten
yet, and `call` says what each thread serves or has answered. It says which answers are allowed when: "installed
already" only if a copy with one of the names is there, "too many fonts" only while every place is held, `ERR_OK`
only for a copy that is then installed, and one `ERR_OK` for each copy taken away. In the mapping the copies are
the paths that have a record (`CHOOSE` finds the one record of a path); `leaving` are those whose file is gone; a
call has come upon its copy from `probe` or `remove` on; and one that only has its own copy to undo has answered.
The step that changes the abstract store is the one that inserts or deletes the record, or that removes the file.

**AtomicStore and AtomicCalls.** Where calls do not overlap more can be promised: not only which answers are allowed but
which one is given, and for scope fonts and cleanups too. In `AtomicStore` a font is its names, its srcPath and its owner,
`fonts` is the set of those installed, and `call` is the call that is served or the last answer. A call begins, takes
effect in one step, and answers; `fonts` and its arguments decide the answer, but for the failures in `Errors`, which
come before a call has begun or after all its checks. The order of the checks shows in the answers: `InstallFont`
looks at the names before the limit, `InstallScopeFont` at the srcPath, the limit, the file and then the names. In the mapping a
record is a font, but one that a running cleanup has in its snapshot is gone already (`Leaving`): a cleanup takes effect
at its beginning, an installation or uninstallation when its record is inserted or deleted.

**ClientRegistry.** `clients` and `userClients` are the maps; a binder belongs to one run of an application.
`recipients` counts the death recipients on a binder, `notices` the notices under way. `UnregisterClient` and
`OnClientDied` change the maps under `mutex_` and leave a `task` for what they do after its release, the
cleanup (skipped for user -1) and the callback. `Die` is the IPC framework's part and external to the code.

**FontManagerServer.** The variables of the registry are joined by `service`, `callingCount`,
`isDataMigrationing`, the handler's `queue` and the number of delayed `unloads`. Each thread, and the handler,
has a `pc`; `call` is the call a thread serves and `reads` what it, or an unload task, has still to look at.
Nothing locks these variables together, so each access is an action:

| Labels | Code in `font_manager_server.cpp` and `.h` |
|---|---|
| remove, in, out | `CallingCountGuard`: removes the unload task, counts, counts back (`.h` 84-98) |
| add | the reads of `AddUnloadFontServiceTask` (183-188) before it posts the task (202); `GuardReads` and `DiedReads` add those that the guard and the died callback make first |
| unload | the same reads in the task (190-193) before it unloads |
| body, post, insert | the calls: the flag and the post of a migration, the registration, the record of a scope font |
| ending | the client has been erased and the thread still cleans up and notifies |
| remove, migrate, reset | the migration on the handler (174-181) |

Delayed tasks may become due before or after any other task of the queue. `appFonts` are the applications that may
have fonts of their scope, all that the lifecycle needs of the store: a call that finds the application registered
inserts (411-451), the end of the registration removes, and so does the cleanup at a start for the users its reason
names, if it could be posted: `OnStart` and the USER_STOPPING event ignore the result of the post (233, 237, 240,
277), and `PostCleanup` loses the task with `"cleanup" \in Fault`. `NoEffect` is any call that is refused or that
changes the store alone. `Stop` ends the process and with it what is in memory, calls included; `crash` stops it at
any time. `fresh` is a history variable: a call was counted in since the unload task read the calling count.

**DataMigration.** `app`, `files` and `config` are the old directory, the users' directories and what their
configurations say: the version, the fonts with a record, and those whose record has the full names. `pc` is
the place of the migration in `data_migration_manager.cpp`, `heartBeat` that of the thread it starts:

| Labels | Code |
|---|---|
| idle to next | the flag, `InitDataMigrationEnv`, the start of the heartbeat thread (53-59, 84-113) |
| next, check, copy | `StartDataMigration` and `StartOneFileCopyTask`: a file, a user, whether it is there, the copy; the source's removal ends the round (115-194) |
| read, write | `CheckAndUpdateAllFontRecord`: each configuration is read, refreshed and rewritten (132-142) |
| reset, result, join | the end of `DataMigration` (70-79); `callback_` is set until the join |
| check, send, sleep, ended | the loop of the heartbeat thread (202-209), which sleeps until the flag falls or a minute is over |

`read` and `write` are two steps because nothing keeps calls out in between; a `read` may also skip a
configuration that a call is rewriting at that moment. The calls are one step each here: the first
installation of a user, which makes a configuration; an uninstallation; the upgrade before a scope
installation. The rest of what they do is in `FontManager`. `uninstalled` and `touched` are history variables,
and so is `spoiled`: an attempt has failed, or the rewriting of a configuration has. The order of the files is
any order. Progress events, whose arithmetic depends on sizes and counts alone, are left out.

**FontServiceLoadManager.** `load[t]` is the place of thread `t` in `GetFontServiceAbility`, `service[t]` what it
returned:

| Labels | Code in `font_service_load_manager.cpp` (30-114) |
|---|---|
| check | the first `CheckSystemAbility` |
| lock | `loadMutex_`, and the second look under it |
| load | `InitStatus` and `LoadSystemAbility`, which may be refused |
| wait | `wait_for` on `loadSaStatus_`: a result, or the time is over |
| get | `GetSystemAbility` after a success |

The system ability manager is external: `running` says whether it knows the service, `pending` that the callback
of the attempt under way is to come, `late` counts the callbacks of attempts given up, each of which may still come
and set the status that another attempt waits for. A reference is `"live"` until the service stops, then `"dead"`.
`cause` is a history variable: since `InitStatus` the service has stopped, or a failure or a late callback has come.

**FontManagerClient.** `pc[t]` is the call of a thread: `on`, `register`, `undo`, `ok` and `failed` in
`OnFontObserver` (170-198 of `font_manager_client.cpp`), `off`, `clear` and `offDone` in `OffFontObserver` (200-217),
`request` in every other call. Each block under `observerLock_` is one step, and so is each call to the service. A
recipient is named by its observer: `saDeathRecipient` is the one the client remembers, `attached` those on the
binder of the live service, `notices` those that are about to be called. Between the death of the service and its
notice a recipient may still be added or removed, with either outcome. Of the service the module keeps the observer it has
`registered` for the process; `ClientRegistry` is the service's view. A live service may refuse or fail each observer
call, before or after it has done what was asked: for the caller's permission, which it tests before anything else
(`font_manager_server.cpp` 386, 405), for the number of registrations, or because the IPC fails (`Fails`, `TooMany`,
`Repeated`). `overlapped` and `refusal` are history variables: two observer calls have overlapped since the service
started; a live service has refused a repetition, or failed a call, since the registration.

**FontManagerAddon.** A thread is the JS thread of one environment. `hooks` are the cleanup hooks of each environment,
`contexts` the `FontObserverTsfnCtx` objects that exist, `tsfn` the references to each observer's thread-safe function
(`font_manager_addon.cpp` 409-524). The context goes in the step in which its last holder does: the running call, the
client's recipient, a recipient on a binder or in a notice, the service, the hook (`Held`, `Hooked`). `OnServiceDied`
is the recipient's call of the agent, which calls its function (487-494); N-API is external, and a call of an aborted
function gives up the caller's reference and answers `napi_closing`. `CountTsfn` counts every reference given back: by
an abort, by such a call, by the destructor of the context. `Finalizer` and the hooks are the end of an environment,
after which its thread may serve another. The migration listener and the calls that return promises keep no state that
the properties tell apart.

## 3. Runs

| Run | Instance | Shows |
|---|---|---|
| `user_level` | 2 threads, 4 fonts (one holds the names of two others, one has none), limit 2, failing copies | `WithinLimit`, `DiskAgrees`: limit, records and files; `ImplementsFontStore`: every answer of user-level calls is one of the abstract store |
| `scope_calls` | 2 threads, user-level and scope calls, 2 fonts, 2 srcPaths, limit 1 | overrun of the limit, no record without file, user uninstalls spare scope fonts |
| `sequential` | 1 thread, every operation, 4 fonts, 2 srcPaths, both scopes, limit 2, no configuration or an empty one, failing copies and directories | what every operation promises to calls that do not overlap: `ImplementsAtomicStore`, every effect and every answer; `DiskAgrees`, `NoDoubleRecord`, `CleanupSparesOthers`, ... |
| `crash` | 2 threads, user-level calls, crashes, failing writes, copies and removals | files go before records, what is left of a font never keeps it out |
| `upgrade` | 1 thread, an old or a missing configuration, crashes, failing writes and directories, unreadable fonts, copies of one base name within one second | version 7.0 before scope records, the names of readable fonts survive, no two user-level records of one file |
| `registry` | 3 applications, one runs twice, one of an invalid user; 2 threads; limit 1 | consistency and liveness of the registry |
| `lifecycle` | 2 threads, an application that runs once, migrations, cleanups that cannot be posted | what the unload task decides, the migration flag; an unused service unloads |
| `one_thread` | 1 thread, 2 applications of 2 users, one runs twice, crashes, failing unloads and failing posts of all tasks but cleanups | the migration flag is not left behind by a failing post; no font of an application outlives it but until the next start |
| `migration` | 2 users, a font and the old configuration, every failure, crashes, retries, calls | no font is lost, usable configurations, the migration and its heartbeats end |
| `client` | 2 environments, 2 observers, one late callback, refused loads, refused and failed observer calls, a service that dies and comes back | who is told of the service's death, why a load fails, no function is leaked and which step alone can free one early, no call is stuck |
| `late_notice` | 1 environment, 2 observers, the same failures | violation: a notice after the abort gives up the agent's reference, and the context releases it again |
| `path_collision` | 1 thread, 2 fonts of one base name in one second | violation: `ERR_OK` for a font that has no record |

Bounds. A limit of 1 or 2 lets threads meet at it; two threads are enough for each race, since every one is
between a check and a use by one call and a change by another. `Tag` bounds the copies of a behaviour whose paths
are in use at once, not the copies in total: a path that nothing mentions any more is free again. `FewFiles`
stops a behaviour at more than `MaxInstallNum + 2` files, which only orphans reach. `crash` needs more tags than
the others for its orphans. Symmetry permutes threads in runs without liveness. `registry` ends when every
process has died, hence `CHECK_DEADLOCK FALSE`. In the server's runs one registration per user is the limit;
`QueueBound` bounds only the USER_STOPPING events that wait, one in both runs, beside one migration and the
cleanup of the start. In `migration` the font and the configuration are copied in either order, which is what the
properties turn on, and of two users one can have been served when the other's copy fails; `LateBound` caps the
count of late heartbeats at one more than the property allows. In `client` two threads can meet in the loader and
around the recipient, and while one observer is registered the other is refused; `MaxLate` is one, since a second
late callback could only set the status that the first has set; `Observer` bounds the observers that exist at a time,
not those of a behaviour: one whose context is gone may be used again.

Fairness. The store has no liveness property: its one loop, that of `InstallFont`, runs over a local list of names
(`font_manager.cpp:66`), and `configLock_` is held for one step. In the registry, what a thread has begun is weakly
fair; the delivery of each application's notices is strongly fair, because the threads that take them may be busy in
between and the framework keeps a notice until one takes it. In the server, what a thread or the handler has begun is
weakly fair, and so is the end of a process that has been asked to unload. The handler's loop takes tasks in turn, so
each of its two sources, the queue and the due delays, is strongly fair: it is disabled while the handler works.
`lifecycle` has no failing post of an unload task and no failing unload, because neither is tried again: the service
then stays until the next call. Its cleanups may fail to be posted. In the migration both threads are weakly fair;
that includes the end of the heartbeat thread's sleep, and it is all the join needs. That a migration is asked for is
never assumed. The modules of the client state no fairness: what they say of waiting is the safety property
`NeverStuck`, that every call can go on or waits for the lock of one that can, and the time limit of `LoadSa` bounds
the wait itself.

### Findings

1. *Same name, same second, same thread* (`path_collision`). The second copy replaces the first file, the
   insertion takes the first record for its own, and `InstallFont` returns `ERR_OK`.
2. *A notice after the abort* (`late_notice`). A comment (`font_manager_addon.cpp:409`) says that the context's destructor
   gives back the agent's reference, so that a function is freed only after hook and agent have let go of it. When the
   environment has aborted the function first - its end, or a refused registration (529) - and then the service dies,
   the agent's call (490) takes that reference with its answer `napi_closing`, and the destructor (417) releases again:
   the function is freed under the agent, and released once too often. One thread is enough: a repeated registration is
   refused, its recipient stays, the service dies. `FreedByLateNotice` shows that there is no other way.

### What overlapping calls break

The properties of `sequential` are those a caller relies on, and several are false of overlapping calls.
TLC shows each of these when the run is given two threads:

- `WithinLimit`, which is not in that run: `ValidateScopeFontForInstall` counts (269) and `InsertScopeFontRecord` inserts
  without counting again, so that two scope installs exceed the limit that `ERR_MAX_FILE_COUNT` stands for
  (`tools/ohos-fontManager/docs/README.md:47`). `LimitOvershoot` and `OvershootIsBounded` say by how much at most;
- `NoDoubleRecord`, `InstallOkIsVisible`: two installs pass the checks together (263, 66, 277);
- `OnlyOwnerUninstalls`, `CleanupSparesOthers`, `DiskAgrees`: deletion by srcPath hits a record that
  was installed after the check or the snapshot (345, 391, 451);
- `AppCleanupIsComplete`, `NoDanglingRecord`: an install finishes after the snapshot of the cleanup, whose
  deletion of the directory takes its file (403);
- `FileGoesFirst`: two first installations both find no configuration (`font_manager_utils.cpp:178`), and the one
  that creates it later takes the record that the other has inserted (`InitialFile = {"missing"}`).
- `AppFontsOwned`: the registration ends between the check and the insertion of a scope font
  (`font_manager_server.cpp:434`); nothing removes the font until the application has registered and ended again
  or the service starts again.

`AppFontsOwned` also fails with `StartsFor <- AllStarts`: a start for the USER_STOPPING of one user leaves what a
crash left of another's (`font_manager_server.cpp:234`), and with `"cleanup" \in Fault`: nobody looks at the result of
the posts in `OnStart` (233, 237, 240), and what a crash has left then stays without an owner. What no property
forbids: the cleanup that `OnStart` posts (241) may run after a first client has registered and installed, and takes
its fonts.

`MigratedFontsAreNamed` leaves two cases out, and TLC finds a counterexample in each when it does not:

- a failed attempt: `CheckAndUpdateAllFontRecord` runs after a failure too (`data_migration_manager.cpp:63`). Where the
  configuration has been copied and a font has not, its record loses the names and the version becomes 7.0; the
  attempt that copies the font finds version 7.0 and refreshes nothing;
- users who have installed a font: their configuration exists, so the old one is not copied (165), and it is
  removed with its records (153). The files of its fonts are there, and no record has them.

In the client `RegisteredIsWatched` and `OkIsWatched` are false once two observer calls of a process have overlapped: an
`OnFontObserver` that fails clears the recipient that another thread has set meanwhile
(`font_manager_client.cpp:189-196`), and `OffFontObserver` drops the recipient of a registration made after its own call
to the service (207-214). The process is then registered and nobody is told of the service's death. `OneRecipient`
holds whatever overlaps. The same comes of a single call that a live service refuses or fails: `OffFontObserver` drops
the recipient whatever the answer, and `OnFontObserver` for every answer but the repetition, for the permission, which
is tested before it, too (189), while the registration stays. Hence the condition `refusal` of `RegisteredIsWatched`. What
no property forbids, but the model contains:

- a repeated registration is refused after the recipient has been replaced (179), and the JS binding then aborts the
  function of the refused observer: the death of the service reaches an aborted function, and the first observer is
  not told;
- the `Finalizer` of one environment (`font_manager_addon.cpp:95`) unregisters the observer of the process, which may be
  another environment's;
- an observer that has been taken off keeps its hook, and so its context and function, until its environment ends;
- the callback of a load that timed out can end the next one (`font_service_load_manager.cpp:105`), with a success
  or a failure of that time. `NullHasCause` counts it as a cause.

Outside the model: `GetResult` (`font_manager_addon.cpp:178-186`) returns a promise that nothing will ever settle when its
work cannot be created or queued.

In the store, some failures of the system are not reported, and no property forbids what they leave:

- a cleanup ignores whether files and directories could be removed (`font_manager.cpp:387`, 403): it deletes the record and
  returns `ERR_OK`, and a file may stay. `AppCleanupIsComplete` promises files only where removals do not fail;
- the refresh of an older configuration takes the names of a user-level font whose file cannot be opened at that moment
  (`font_manager_utils.cpp:470`), as it does for a missing file. `RefreshKeepsNames` allows that, and
  `RefusedIsInstalled` is proved for files that can be read;
- a configuration that has been created may stay empty (`font_manager_utils.cpp:223`): whether `"fontlist"` was written
  is not tested.

`InstallOkIsInstalled` also fails if the flush of the configuration fails (`font_config.cpp:335`).
When a crash before an upgrade leaves a record without a file, the refresh takes its names
(`font_config.cpp:86`): no install finds that record again, and it holds a place for good.

## 4. Proofs

Every safety property of the passing runs but one is the statement of a theorem. Liveness (`DeadAreDropped`,
`IdleServiceStops`, `MigrationEnds`) and `NeverStuck`, which uses `ENABLED`, are out of this prover's reach and only
model-checked.

Assumptions: those named in the modules - finitely many threads and at least one, a positive limit, a nonempty
set of time tags, full names in `Name`, sentinels outside the sets they stand beside; in the registry, a finite set of
tokens and total maps from binders to tokens to users; in the server, finitely many threads, a handler that is
none of them and a limit that is a number; in the migration, a nonempty sequence of users; in the client, sentinels.

A theorem without a hypothesis holds with every failure and crash of its module and any number of threads. The code
promises less of some: each hypothesis below excludes a case in which TLC finds a counterexample, but for `UserCalls`,
which is narrower for the sake of the mapping.

| Theorem | Property | Hypothesis |
|---|---|---|
| `UserLevelLimit` | `WithinLimit` | no scope installs (*What overlapping calls break*) |
| `UserFilesAgree`, `UserCallsImplementStore` | `DiskAgrees`, `ImplementsFontStore` | `UserCalls`: operations at user level, only copies fail, no tag comes back, a valid configuration |
| `OkMeansInstalled` | `InstallOkIsInstalled` | no tag comes back (finding 1), no write of the configuration fails, no operation that deletes directories |
| `RecordsKeepFiles` | `NoDanglingRecord` | no tag comes back, no cleanups, neither failing writes nor crashes |
| `FilesGoFirst` | `FileGoesFirst` | no tag comes back, the configuration exists, no cleanups or scope uninstalls, which go by the srcPath |
| `RefusedIsInstalled` | `RefusedOnlyIfInstalled` | those of `FilesGoFirst`, and the refresh can read every file |
| `OwnersUninstall`, `CleanupsSpareOthers` | `OnlyOwnerUninstalls`, `CleanupSparesOthers` | one thread |
| `AppCleanupLeavesNothing` | `AppCleanupIsComplete` | one thread, no write fails; of files it speaks where removals do not fail |
| `InstalledIsVisible` | `InstallOkIsVisible` | one thread, no write fails |
| `NothingTwice` | `NoDoubleRecord` | one thread, no tag comes back, not a store of an older release |
| `StoreAgrees` | `DiskAgrees` | one thread, no tag comes back, only copies and directories fail |
| `CallsAreAtomic` | `ImplementsAtomicStore` | as `NothingTwice` and `StoreAgrees` together |
| `FontsAreOwned` | `AppFontsOwned` | `OneAtATime`: one thread, each start cleans up all users and can post the cleanup, no caller of an invalid user |

*What overlapping calls break* gives the counterexamples that one thread excludes, and those of failing writes. "No tag
comes back" (`~RepeatTag`) says that a thread does not copy two files within a second, or that their names differ:
`InsertScopeFontRecord` does not compare paths, so two scope records can otherwise share a file, which goes with the
first of them, and after a crash the loop of `InstallFont` deletes one record for the other.

- **`TypeCorrect`** (store). `TypeOK` is not inductive: a copy needs a font and a directory in the locals, a
  deletion a path. `TypeInv` adds `Ready(label, locals)`, what the locals hold at each label. One lemma per
  group of actions; the lemmas on `FontConfig` say what each operation does to type and length of `fontlist`.
- **`OvershootIsBounded`** (`LimitOvershoot`). A scope install between its count and its insertion holds a
  place. `PlacesInv`: records plus places held are at most the limit plus the number of threads less one. The
  count admits a thread only below the limit, when at most all other threads hold places; an insertion turns a
  place into a record; every other step gives places back or leaves them.
- **`UserLevelLimit`** (`WithinLimit`). If `InstallScopeFont` is not among the operations, no thread reaches
  its labels and the second count of `InsertFontRecordIfUnderLimit` keeps the limit.
- **`UserFilesAgree`** (`DiskAgrees`) and **`UserCallsImplementStore`** (`ImplementsFontStore`), under `UserCalls`: the
  operations are those at user level, of the failures only copies fail, tags do not come back, the configuration is
  valid at first. `DiskAgrees` is not inductive, nor is the mapping a function without an invariant. `UserInv`:
  each path has one record at most (`OneRecordPerPath`), so that `CHOOSE` means it; the locals hold what the labels say
  (`UserControl`); a copy without a record belongs to one thread (`OwnCopy`), the file of a record about to be deleted
  is gone (`FileGone`), a file about to be looked at or removed has a record (`FileListed`). Lemmas say what an
  insertion and a deletion do to the set of records and so to `Fonts`; then each action keeps `UserInv` and is a
  step of `FontStore` or leaves it alone.

The theorems of `FontRecords_proofs` do not go through the actions one by one. `NextMoves` puts every step in terms of
what it does to its thread, the files and the configuration (`CallMoves`, `ReadMoves`, `FileMoves`, `ConfigMoves`), and
`RecordSteps` says all that can become of the records: one is added (`Gains`), one is dropped (`Drops`), all are refreshed
(`Refreshes`) or lost with an unreadable file (`Loses`). Each invariant is then proved over these few cases.

- **`ScopeRecordsAreNew`** (`ScopeOnlyInV7`). `VersionInv`: past its update an installation finds version 7.0, and
  no step takes a file back to an older one.
- **`UserPathsAreUnique`, `ScopeRecordsSurvive`** (`UniqueUserPaths`, `UserUninstallKeepsScope`). `SiteInv`: user-level
  records have paths in the install directory, scope records in their application's, and so has what the locals of a
  call hold. An insertion at user level tests its path under the lock, and a path that `UninstallFont` remembers can
  never be that of a scope font.
- **`RefreshIsHarmless`** (`RefreshKeepsNames`). `KeyInv`: a path and a srcPath have one record. A thread inserts its own
  copies, whose paths carry its id, and has compared the srcPath with the records of all earlier ones; so a change of
  names is a change of one record, and only the refresh makes one.
- **`OkMeansInstalled`** (`InstallOkIsInstalled`). `FreshInv`: no two records share a path, and the path of a copy
  without a record is no other operation's; `CallInv` ties each label to its operations; `HeldInv`: a copy is
  still there, with its font, when its record is inserted.
- **`RecordsKeepFiles`** (`NoDanglingRecord`). `FirstHitInv`: the record whose file `UninstallScopeFont` removes is
  the first with its srcPath, so the deletion by srcPath meets it and no other.
- **`FilesGoFirst`, `RefusedIsInstalled`** (`FileGoesFirst`, `RefusedOnlyIfInstalled`). `PresentInv`: the configuration
  exists; `GoneInv`: the file of a record about to be deleted is gone. `IndexInv` and `ProbeInv`: between the lookup of
  a name and the test of the file, the record can only go when the file does; `NamesInv`: nor can a refresh take the
  name from it, since a record's names are those of its file while that is there.
- With one thread: **`OwnersUninstall`** rests on `UrlInv` (no srcPath twice, and that of an installation is new from
  its check on) and `OwnerInv` (a lookup is still true at the deletion); **`CleanupsSpareOthers`** and
  **`AppCleanupLeavesNothing`** on `TodoInv` (the snapshot of a cleanup is what it has left to delete, and in the
  configuration); **`InstalledIsVisible`** on `UrlInv`; **`NothingTwice`** on `NameInv` (the names an installation has gone
  through are free, and the records it deletes on the way are those with its names); **`StoreAgrees`** on all of these
  and `DiskInv`: what each label knows of the file at its path, and that without a configuration there are no files.
- **`CallsAreAtomic`** (`ImplementsAtomicStore`), with one thread: `FontManager` implements `AtomicStore`, all operations
  included. The invariant `StoreInv` joins those above with `AtomicInv`, which says what the locals mean to the abstract call
  (`Served`: which operation a label serves and which font it is about) and that what a call has found out is still true when
  it acts on it (`Passed`: a place is free until the insertion, the record to delete is there, the directory to copy to
  exists), and that every record has a name. That makes the mapping injective: `DistinctFonts`, no two records are the same font,
  so that the fonts count as the list does and a deletion takes one font away. The records that a cleanup deletes one by
  one are those `TodoInv` says it has left, all of which left the abstract store when it began; `DiskAgrees` shows that a
  record that `InstallFont` comes upon has its file, so that the loop deletes none and a refused call changes nothing.
  Then each action is a step of `AtomicStore` or leaves it alone.

- **`TypeCorrect`, `NoDeadClientUnnoticed`** (registry). `NoticeInv` adds that each application's entry holds a
  binder of its own, so that no removal takes away another's recipient.
- **`RegistryAgrees`, `UserLimitHolds`**. Together inductive: the limit is tested on `userClients`, and the maps
  agree because `Erase` takes the client out of both. `WithinUserLimit` speaks of one map and is proved only.

- **`NeverCutsOff`** (`NothingCutOff`). The unload task reads three variables one after another, so the invariant
  says what stays true after each read. `CountInv`: `callingCount` is the number of threads between `CountIn` and
  `CountOut`, with the end of a client inside `OffFontObserver` included. `UnloadInv`: once the task has read
  0 and until a call is counted in, no call is in progress; without one no action sets the flag or registers
  a client, so the two later reads stay true until the service unloads. Faults and crashes included.
- **`OneMigration`** (`MigrationSlot`). `SlotInv`: the places of a migration - a call that posts it, the queue, the
  handler - hold one at most, and the flag is set as long as one does; `StoppedInv`: a stopped service has nothing
  left to do, so that no start loses a migration. The positions in the queue move with each task taken.
- **`RegistryIsKept`**: `DeadIsNoticed`, `MapsAgree` and `WithinUserLimit` in the composed system. Each action of the
  server is a step of `ClientRegistry` or leaves its variables alone, but for the end of the process, which empties them.
- **`ServerTypesCorrect`** (`TypeOK`) joins these invariants with the types of the remaining variables.
- **`FontsAreOwned`** (`AppFontsOwned`). `OwnedInv` adds that the check of `InstallScopeFontInner` is still true at the
  insertion; an application that ends leaves its cleanup in the task of the thread that took the notice, a service
  that ends leaves it to the next start.

- **`FontsAreKept`** (`NoFontLost`). `CopyInv`: while a file is copied, each user before the current one has it or
  has uninstalled it; so all users are settled when the loop is over and the source goes. A crash or a failure
  leaves the loop, and a new attempt begins it anew.
- **`HeartBeatsStop`** (`HeartBeatsEnd`). From the result to the join the flag is FALSE, so the heartbeat the thread was
  about to send is the last (`HeartBeatInv`).
- **`MigratedAreNamed`** (`MigratedFontsAreNamed`). `SourcesInv`: the old configuration goes only
  when every user has it, and the upgrade begins when the old place is empty; `ConfigsInv`: a user
  that no call has touched has the old records or the new ones, and those upgraded so far have names.

- **`RecipientIsOne`, `RegisteredAreWatched`, `AcceptedAreWatched`** (`OneRecipient`, `RegisteredIsWatched`, `OkIsWatched`).
  `RegisteredIsWatched` speaks of quiet states, so the invariant `Watched` says what holds inside a call that does not
  overlap another: before it drops the recipient the registration is gone or a live service has failed the call, one that
  holds a dead service finds no registration, one that registers with a live service has its recipient there.
  `OneRecipient` is inductive.
- **`NullsHaveCauses`** (`NullHasCause`). One thread at a time is between `InitStatus` and the result, the one that has
  `loadMutex_` (`LockInv`), so that a status other than `WAIT_RESULT` has been set since (`CauseInv`).
- **`TsfnsNotLeaked`, `FreedByLateNotices`, `ClientTypesCorrect`** (`TsfnNotLeaked`, `FreedByLateNotice`, `TypeOK`). A context
  with a hook has both references; one without has the agent's, or has lost it to a notice; without a context none is
  left, and at most one has been given back too often. That a function is aborted once needs that an observer has one
  hook at most and a failing registration still has its own. The client's `TypeOK` is proved and in no run.

## 5. Plan

Done: the store, its configuration, both abstract stores and the refinements, the registry, the server's lifecycle,
the migration, the client with its loader and the observers of the JS binding, the proofs of all their safety
properties but `NeverStuck`. What could follow, most important first:

1. An abstract store for scope calls that overlap, weak enough to allow what *What overlapping calls break* lists.
2. The migration's progress arithmetic as operators (`data_migration_manager.cpp` 214-242).

### Not modelled

- ANI binding, inner API, the promise calls of the JS binding, the command line tool: they convert arguments and results and make
  one call, and keep nothing between calls.
- `HisyseventAdapter`, `StorageManagerAdapter`, `FontEventPublish`: output that nothing in the program reads.
- In `FontManagerUtils` and `FontManager`: the parsing of font files, permissions, the checks of real paths.
- In `FontManagerClient`: the opening of the font file before an installation is requested, which keeps no state, and the migration
  listener, which forwards events.
