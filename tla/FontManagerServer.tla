------------------------- MODULE FontManagerServer --------------------------
(***************************************************************************)
(* The life of the service: class FontManagerServer                        *)
(* (service/server/src/font_manager_server.cpp) with the registry of       *)
(* module ClientRegistry.                                                  *)
(*                                                                         *)
(* The service is loaded on demand and unloads itself when no call is in   *)
(* progress, no migration runs and no client is registered.  It learns of  *)
(* that by a delayed task on its event handler, which every call removes   *)
(* at its start and posts again at its end.  The calling count, the flag   *)
(* isDataMigrationing_, the registry and the handler's queue are read and  *)
(* written one at a time, without a common lock, by the IPC threads and    *)
(* the handler's thread: each access is an action here.                    *)
(*                                                                         *)
(* The fonts are those of module FontManager; all that is kept of them is  *)
(* which applications have fonts of application scope.                     *)
(***************************************************************************)
EXTENDS Naturals, Sequences, FiniteSets

CONSTANTS
    Token, NoToken, User, InvalidUser, Binder, TokenOf, UserOf, Thread,
    MaxScopeFontAppNum,  \* as in ClientRegistry
    Handler,    \* the thread of the event handler
    NoBinder,
    Method,     \* the methods that callers call in this instance
    StartsFor,  \* the sets of users that a start may clean up
    Fault,      \* failures of the environment: "post" of any task but a
                \* cleanup, "cleanup" of the post of a cleanup
    QueueBound  \* bound on the tasks waiting when another user stops

(* The guard of a call for scope fonts looks at the clients when it ends.  *)
UserMethod == {"InstallFont", "UninstallFont", "DataMigration"}
ScopeMethod == {"OnFontObserver", "OffFontObserver", "InstallScopeFont",
    "UninstallScopeFont", "GetFontScope"}

ASSUME ServerAssumption ==
    /\ TokenOf \in [Binder -> Token] /\ UserOf \in [Token -> User]
    /\ IsFiniteSet(Token) /\ IsFiniteSet(Thread) /\ MaxScopeFontAppNum \in Nat
    /\ Handler \notin Thread /\ NoBinder \notin Binder
    /\ Method \subseteq UserMethod \cup ScopeMethod
    /\ StartsFor \subseteq SUBSET User
    /\ Fault \subseteq {"crash", "post", "unload", "cleanup"}

VARIABLES
    clients, userClients, alive, recipients, notices, task,  \* ClientRegistry
    service,            \* "stopped", "running", or "unloading": asked to stop
    callingCount,
    isDataMigrationing,
    queue,              \* tasks posted to the handler, to be run in this order
    unloads,            \* delayed unload tasks posted to the handler
    pc, call, reads,    \* what each thread does, for which call, and reads yet
    appFonts,           \* the applications that may have fonts of their scope
    fresh               \* history: a call was counted in since the unload task
                        \* read the calling count

Registry == INSTANCE ClientRegistry
registryVars == <<clients, userClients, alive, recipients, notices, task>>
flags == <<callingCount, isDataMigrationing>>
handler == <<queue, unloads>>
control == <<pc, call, reads>>
vars == <<registryVars, service, flags, handler, control, appFonts, fresh>>

Actor == Thread \cup {Handler}
NoCall == [method |-> "none", binder |-> NoBinder]

(* Tasks of the handler: a migration, or the cleanup of some users.        *)
Migration == [type |-> "migration", users |-> {}]
Cleanup(users) == [type |-> "cleanup", users |-> users]

(* What is read before an unload task is posted, at the end of a call and  *)
(* after a client has died; "add" reads and posts, "unload" reads and      *)
(* unloads.                                                                *)
AddReads == <<"count", "migrating", "clients">>
GuardReads(method) ==
    (IF method \in ScopeMethod THEN <<"count", "clients">> ELSE <<"count">>) \o AddReads
DiedReads == AddReads \o AddReads
(* Mutant: the unload task looks at the count last. *)
LateUnloadReads == <<"migrating", "clients", "count">>
UnloadReads == AddReads

Label == {"idle", "remove", "in", "body", "post", "insert", "ending", "out", "migrate",
          "reset", "add", "unload"}
Reading == Seq({"count", "migrating", "clients"})

TypeOK ==
    /\ Registry!TypeOK
    /\ service \in {"stopped", "running", "unloading"}
    /\ callingCount \in Nat
    /\ isDataMigrationing \in BOOLEAN
    /\ queue \in Seq([type : {"migration", "cleanup"}, users : SUBSET User])
    /\ unloads \in Nat
    /\ pc \in [Actor -> Label]
    /\ call \in [Thread -> [method : Method, binder : Binder] \cup {NoCall}]
    /\ reads \in [Actor -> Reading]
    /\ appFonts \subseteq Token
    /\ fresh \in BOOLEAN

(***************************************************************************)
(* Control.                                                                *)
(***************************************************************************)
At(a, label) == pc[a] = label
Go(a, label) == pc' = [pc EXCEPT ![a] = label] /\ UNCHANGED <<call, reads>>
GoRead(a, label, what) ==
    /\ pc' = [pc EXCEPT ![a] = label]
    /\ reads' = [reads EXCEPT ![a] = what]

Calling(t, method) == At(t, "body") /\ call[t].method = method
Caller(t) == TokenOf[call[t].binder]

(***************************************************************************)
(* CallingCountGuard around every call.                                    *)
(***************************************************************************)
Call(t, method, b) ==
    /\ service # "stopped"
    /\ At(t, "idle")
    /\ b \in alive
    /\ pc' = [pc EXCEPT ![t] = "remove"]
    /\ call' = [call EXCEPT ![t] = [method |-> method, binder |-> b]]
    /\ UNCHANGED <<registryVars, service, flags, handler, reads, appFonts, fresh>>

RemoveUnloadFontServiceTask(a) ==
    /\ At(a, "remove")
    /\ unloads' = 0
    /\ Go(a, IF a = Handler THEN "migrate" ELSE "in")
    /\ UNCHANGED <<registryVars, service, flags, queue, appFonts, fresh>>

CountIn(t) ==
    /\ At(t, "in")
    /\ callingCount' = callingCount + 1
    /\ fresh' = TRUE
    /\ Go(t, "body")
    /\ UNCHANGED <<registryVars, service, isDataMigrationing, handler, appFonts>>

CountOut(t) ==
    /\ At(t, "out")
    /\ callingCount' = callingCount - 1
    /\ call' = [call EXCEPT ![t] = NoCall]
    /\ GoRead(t, "add", GuardReads(call[t].method))
    /\ UNCHANGED <<registryVars, service, isDataMigrationing, handler, appFonts, fresh>>

(***************************************************************************)
(* AddUnloadFontServiceTask, and the same reads in the task itself: the    *)
(* first one that finds the service in use ends them.                      *)
(***************************************************************************)
Unused(what) ==
    CASE what = "count"     -> callingCount = 0
      [] what = "migrating" -> ~isDataMigrationing
      [] what = "clients"   -> Registry!GetClientCount = 0

(* UnregisterClient calls the died callback inside OffFontObserver.        *)
Done(a) == IF a \in Thread /\ call[a] # NoCall THEN "out" ELSE "idle"

ReadNext(a) ==
    /\ pc[a] \in {"add", "unload"} /\ reads[a] # <<>>
    /\ \/ /\ Unused(Head(reads[a]))
          /\ GoRead(a, pc[a], Tail(reads[a]))
          /\ fresh' = (fresh /\ ~(At(a, "unload") /\ Head(reads[a]) = "count"))
       \/ /\ ~Unused(Head(reads[a]))
          /\ GoRead(a, Done(a), <<>>)
          /\ UNCHANGED fresh
    /\ UNCHANGED <<registryVars, service, flags, handler, call, appFonts>>

PostUnloadTask(a) ==
    /\ At(a, "add") /\ reads[a] = <<>>
    /\ unloads' = unloads + 1 \/ ("post" \in Fault /\ UNCHANGED unloads)
    /\ Go(a, Done(a))
    /\ UNCHANGED <<registryVars, service, flags, queue, appFonts, fresh>>

(***************************************************************************)
(* The calls.  Any of them may be refused for the permission, the user or  *)
(* the scope; user-level and session fonts, modelled in FontManager, change*)
(* nothing here.                                                           *)
(***************************************************************************)
NoEffect(t) ==
    /\ At(t, "body")
    /\ Go(t, "out")
    /\ UNCHANGED <<registryVars, service, flags, handler, appFonts, fresh>>

Refused(b) ==
    \/ Registry!IsClientRegistered(TokenOf[b])
    \/ Cardinality(userClients[UserOf[TokenOf[b]]]) >= MaxScopeFontAppNum
    \/ b \notin alive

OnFontObserver(t) ==
    /\ Calling(t, "OnFontObserver")
    /\ \/ Registry!RegisterClient(call[t].binder)
       \/ Refused(call[t].binder) /\ UNCHANGED registryVars
    /\ Go(t, "out")
    /\ UNCHANGED <<service, flags, handler, appFonts, fresh>>

OffFontObserver(t) ==
    /\ Calling(t, "OffFontObserver")
    /\ \/ Registry!UnregisterClient(t, Caller(t)) /\ Go(t, "ending")
       \/ /\ ~Registry!IsClientRegistered(Caller(t))
          /\ UNCHANGED registryVars
          /\ Go(t, "out")
    /\ UNCHANGED <<service, flags, handler, appFonts, fresh>>

InstallScopeFont(t) ==
    /\ Calling(t, "InstallScopeFont")
    /\ Go(t, IF Registry!IsClientRegistered(Caller(t)) THEN "insert" ELSE "out")
    /\ UNCHANGED <<registryVars, service, flags, handler, appFonts, fresh>>

InsertAppFont(t) ==
    /\ At(t, "insert")
    /\ appFonts' = appFonts \cup {Caller(t)}
    /\ Go(t, "out")
    /\ UNCHANGED <<registryVars, service, flags, handler, fresh>>

DataMigration(t) ==
    /\ Calling(t, "DataMigration")
    /\ isDataMigrationing' = TRUE
    /\ Go(t, IF isDataMigrationing THEN "out" ELSE "post")
    /\ UNCHANGED <<registryVars, service, callingCount, handler, appFonts, fresh>>

(* Mutant: keeps the flag when the task cannot be posted. *)
PostOrForget(t) ==
    /\ At(t, "post")
    /\ queue' = Append(queue, Migration) \/ ("post" \in Fault /\ UNCHANGED queue)
    /\ Go(t, "out")
    /\ UNCHANGED <<registryVars, service, flags, unloads, appFonts, fresh>>

PostMigration(t) ==
    /\ At(t, "post")
    /\ \/ queue' = Append(queue, Migration) /\ UNCHANGED isDataMigrationing
       \/ "post" \in Fault /\ isDataMigrationing' = FALSE /\ UNCHANGED queue
    /\ Go(t, "out")
    /\ UNCHANGED <<registryVars, service, callingCount, unloads, appFonts, fresh>>

(***************************************************************************)
(* The end of a client, in a call of its own or by a death notice.         *)
(***************************************************************************)
OnClientDied(t, token) ==
    /\ service # "stopped"
    /\ At(t, "idle")
    /\ Registry!OnClientDied(t, token)
    /\ Go(t, IF Registry!IsClientRegistered(token) THEN "ending" ELSE "idle")
    /\ UNCHANGED <<service, flags, handler, appFonts, fresh>>

CleanupAppScopeFonts(t) ==
    /\ Registry!CleanupAppScopeFonts(t)
    /\ appFonts' = appFonts \ {task[t].token}
    /\ UNCHANGED <<service, flags, handler, control, fresh>>

(* Mutant: the server is not told. *)
NotifyNobody(t) ==
    /\ Registry!NotifyClientDied(t)
    /\ GoRead(t, Done(t), <<>>)
    /\ UNCHANGED <<service, flags, handler, call, appFonts, fresh>>

NotifyClientDied(t) ==
    /\ Registry!NotifyClientDied(t)
    /\ GoRead(t, "add", DiedReads)
    /\ UNCHANGED <<service, flags, handler, call, appFonts, fresh>>

(***************************************************************************)
(* The handler.  Delayed unload tasks may become due before or after any   *)
(* other task.                                                             *)
(***************************************************************************)
TakeTask ==
    /\ At(Handler, "idle") /\ queue # <<>>
    /\ queue' = Tail(queue)
    /\ \/ Head(queue).type = "migration" /\ Go(Handler, "remove") /\ UNCHANGED appFonts
       \/ /\ Head(queue).type = "cleanup"
          /\ appFonts' = {token \in appFonts : UserOf[token] \notin Head(queue).users}
          /\ UNCHANGED control
    /\ UNCHANGED <<registryVars, service, flags, unloads, fresh>>

(* Mutant: resets the flag before the migration. *)
MigrateAndReset ==
    /\ At(Handler, "migrate")
    /\ isDataMigrationing' = FALSE
    /\ Go(Handler, "reset")
    /\ UNCHANGED <<registryVars, service, callingCount, handler, appFonts, fresh>>

Migrate ==
    /\ At(Handler, "migrate")
    /\ Go(Handler, "reset")
    /\ UNCHANGED <<registryVars, service, flags, handler, appFonts, fresh>>

FinishMigration ==
    /\ At(Handler, "reset")
    /\ isDataMigrationing' = FALSE
    /\ GoRead(Handler, "add", AddReads)
    /\ UNCHANGED <<registryVars, service, callingCount, handler, call, appFonts, fresh>>

TakeUnloadTask ==
    /\ At(Handler, "idle") /\ unloads > 0
    /\ unloads' = unloads - 1
    /\ GoRead(Handler, "unload", UnloadReads)
    /\ UNCHANGED <<registryVars, service, flags, queue, call, appFonts, fresh>>

UnloadFontService ==
    /\ At(Handler, "unload") /\ reads[Handler] = <<>>
    /\ service' = "unloading" \/ ("unload" \in Fault /\ UNCHANGED service)
    /\ Go(Handler, "idle")
    /\ UNCHANGED <<registryVars, flags, handler, appFonts, fresh>>

(***************************************************************************)
(* Starts and stops.  A stop ends the process: what is in memory is lost,  *)
(* calls in progress included; the fonts stay.                             *)
(***************************************************************************)
PostCleanup(users) ==
    queue' = Append(queue, Cleanup(users)) \/ ("cleanup" \in Fault /\ UNCHANGED queue)

(* Mutant: nothing is cleaned up. *)
StartOnly(users) ==
    /\ service = "stopped"
    /\ service' = "running"
    /\ unloads' = 1 \/ ("post" \in Fault /\ UNCHANGED unloads)
    /\ UNCHANGED <<registryVars, flags, queue, control, appFonts, fresh>>

(* The results of the posts are ignored.                                   *)
OnStart(users) ==
    /\ service = "stopped"
    /\ service' = "running"
    /\ PostCleanup(users)
    /\ unloads' = 1 \/ ("post" \in Fault /\ UNCHANGED unloads)
    /\ UNCHANGED <<registryVars, flags, control, appFonts, fresh>>

(* The common event USER_STOPPING while the service runs.                  *)
OnUserStopping(user) ==
    /\ service # "stopped"
    /\ Len(queue) < QueueBound
    /\ PostCleanup({user})
    /\ UNCHANGED <<registryVars, service, flags, unloads, control, appFonts, fresh>>

Stop ==
    /\ service = "unloading" \/ (service = "running" /\ "crash" \in Fault)
    /\ service' = "stopped"
    /\ clients' = << >>
    /\ userClients' = [u \in User |-> {}]
    /\ recipients' = [b \in Binder |-> 0]
    /\ notices' = [token \in Token |-> 0]
    /\ task' = [t \in Thread |-> Registry!Idle]
    /\ callingCount' = 0 /\ isDataMigrationing' = FALSE
    /\ queue' = <<>> /\ unloads' = 0
    /\ pc' = [a \in Actor |-> "idle"]
    /\ call' = [t \in Thread |-> NoCall]
    /\ reads' = [a \in Actor |-> <<>>]
    /\ fresh' = FALSE
    /\ UNCHANGED <<alive, appFonts>>

Die(b) ==
    /\ Registry!Die(b)
    /\ UNCHANGED <<service, flags, handler, control, appFonts, fresh>>

Init ==
    /\ Registry!Init
    /\ service = "stopped"
    /\ callingCount = 0 /\ isDataMigrationing = FALSE
    /\ queue = <<>> /\ unloads = 0
    /\ pc = [a \in Actor |-> "idle"]
    /\ call = [t \in Thread |-> NoCall]
    /\ reads = [a \in Actor |-> <<>>]
    /\ appFonts = {}
    /\ fresh = FALSE

ThreadStep(t) ==
    \/ CountIn(t) \/ CountOut(t)
    \/ NoEffect(t) \/ OnFontObserver(t) \/ OffFontObserver(t)
    \/ InstallScopeFont(t) \/ InsertAppFont(t) \/ DataMigration(t) \/ PostMigration(t)
    \/ CleanupAppScopeFonts(t) \/ NotifyClientDied(t)

Step(a) == RemoveUnloadFontServiceTask(a) \/ ReadNext(a) \/ PostUnloadTask(a)

HandlerStep == Step(Handler) \/ Migrate \/ FinishMigration \/ UnloadFontService

Next ==
    \/ \E t \in Thread :
        \/ \E method \in Method, b \in Binder : Call(t, method, b)
        \/ \E token \in Token : OnClientDied(t, token)
        \/ Step(t) \/ ThreadStep(t)
    \/ HandlerStep \/ TakeTask \/ TakeUnloadTask
    \/ \E users \in StartsFor : OnStart(users)
    \/ \E user \in User : OnUserStopping(user)
    \/ \E b \in Binder : Die(b)
    \/ Stop

Spec == Init /\ [][Next]_vars

(* Threads that have something to do are scheduled, the handler reaches    *)
(* every task, delays end, death notices are delivered, and the process    *)
(* ends when it has been asked to.                                         *)
FairSpec ==
    /\ Spec
    /\ \A t \in Thread : WF_vars(Step(t) \/ ThreadStep(t))
    /\ WF_vars(HandlerStep) /\ SF_vars(TakeTask) /\ SF_vars(TakeUnloadTask)
    /\ \A token \in Token : SF_vars(\E t \in Thread : OnClientDied(t, token))
    /\ WF_vars(service = "unloading" /\ Stop)

-----------------------------------------------------------------------------
(* At most one migration is on its way, and isDataMigrationing_ is set as  *)
(* long as it is, from the call that is accepted to the end of the task:   *)
(* it neither lets a second one in nor keeps later ones out for ever.      *)
Migrating ==
    {<<"call", t>> : t \in {t \in Thread : At(t, "post")}}
        \cup {<<"queue", i>> : i \in {i \in DOMAIN queue : queue[i] = Migration}}
        \cup {<<"handler", 0>> : l \in {"remove", "migrate", "reset"} \cap {pc[Handler]}}
MigrationSlot == Cardinality(Migrating) = IF isDataMigrationing THEN 1 ELSE 0

(* The service never unloads with a call in progress, a migration accepted *)
(* or a client registered, but for calls that were counted in after the    *)
(* task read the calling count.                                            *)
NothingCutOff ==
    At(Handler, "unload") /\ reads[Handler] = <<>> /\ ~fresh
    => /\ \A t \in Thread : pc[t] \notin {"body", "post", "insert", "out"}
       /\ ~isDataMigrationing
       /\ DOMAIN clients = {}

(* Fonts of application scope belong to a registered application, or are   *)
(* about to be cleaned up: by the thread that ends the registration, or by *)
(* the next start.  True when installations and death notices do not       *)
(* overlap, every start cleans up all users, and no post of a cleanup      *)
(* fails: OnStart ignores its result, and leftovers would be nobody's.     *)
AppFontsOwned ==
    \A token \in appFonts :
        \/ Registry!IsClientRegistered(token)
        \/ \E t \in Thread : task[t] = [step |-> "cleanup", token |-> token]
        \/ service = "stopped"
        \/ \E i \in DOMAIN queue : UserOf[token] \in queue[i].users

(* A service without a call and without a client that still runs does not  *)
(* stay: no unload task is lost between the reads of one thread and the    *)
(* changes of another.                                                     *)
InUse ==
    \/ \E t \in Thread : call[t] # NoCall
    \/ \E token \in DOMAIN clients : clients[token] \in alive
IdleServiceStops == []<>(InUse \/ service = "stopped")
=============================================================================
