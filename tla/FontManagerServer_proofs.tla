---------------------- MODULE FontManagerServer_proofs ----------------------
(***************************************************************************)
(* Theorems about FontManagerServer, for any number of threads,            *)
(* applications and users: the service never unloads under a call or a     *)
(* client that was there when the unload task began to look                *)
(* (NothingCutOff), it has one migration at most (MigrationSlot), its      *)
(* registry keeps what ClientRegistry promises, and fonts of application   *)
(* scope have their application (AppFontsOwned).                           *)
(***************************************************************************)
EXTENDS FontManagerServer, FiniteSetTheorems, TLAPS

(* A call counts from CountIn to CountOut: while the client ends it and    *)
(* while the died callback reads, it is still a call.                      *)
Counting(label, c) ==
    \/ label \in {"body", "post", "insert", "out"}
    \/ label \in {"ending", "add"} /\ c # NoCall
Counted == {t \in Thread : Counting(pc[t], call[t])}

CallType == [method : Method, binder : Binder] \cup {NoCall}
TaskType == [step : {"idle", "cleanup", "notify"}, token : Token \cup {NoToken}]

Types ==
    /\ callingCount \in Nat
    /\ isDataMigrationing \in BOOLEAN
    /\ fresh \in BOOLEAN
    /\ pc \in [Actor -> Label]
    /\ call \in [Thread -> CallType]
    /\ reads \in [Actor -> Reading]
    /\ DOMAIN clients \subseteq Token
    /\ task \in [Thread -> TaskType]

(* Where the threads and the handler can be.                               *)
Places ==
    /\ pc[Handler] \in {"idle", "remove", "migrate", "reset", "add", "unload"}
    /\ \A t \in Thread :
        /\ pc[t] \notin {"migrate", "reset", "unload"}
        /\ pc[t] = "idle" <=> call[t] = NoCall /\ pc[t] \notin {"ending", "add"}
        /\ task[t].step # "idle" => pc[t] = "ending"

CountInv == callingCount = Cardinality(Counted)

(* What the unload task knows after each of its reads, unless a call has   *)
(* been counted in meanwhile.                                              *)
UnloadInv ==
    At(Handler, "unload") =>
        /\ reads[Handler] \in {AddReads, <<"migrating", "clients">>, <<"clients">>, <<>>}
        /\ ~fresh =>
            /\ reads[Handler] # AddReads => Counted = {}
            /\ reads[Handler] \in {<<"clients">>, <<>>} => ~isDataMigrationing
            /\ reads[Handler] = <<>> => DOMAIN clients = {}

Inv == Types /\ Places /\ CountInv /\ UnloadInv

(* A step of one thread leaves the others counted as they were.            *)
LEMMA OthersCounted ==
    ASSUME Types, NEW t \in Thread, NEW label, NEW c,
           pc' = [pc EXCEPT ![t] = label], call' = [call EXCEPT ![t] = c]
    PROVE  /\ Counting(label, c) => Counted' = Counted \cup {t}
           /\ ~Counting(label, c) => Counted' = Counted \ {t}
<1>1. \A s \in Thread : s # t => pc'[s] = pc[s] /\ call'[s] = call[s]
    BY DEF Types, Actor
<1>2. pc'[t] = label /\ call'[t] = c
    BY DEF Types, Actor
<1> QED
    BY <1>1, <1>2 DEF Counted, Counting

(* The calls that are counted can be counted: the threads are finitely     *)
(* many.                                                                   *)
LEMMA CountedFinite == IsFiniteSet(Counted) /\ Counted \subseteq Thread
<1>1. Counted \subseteq Thread
    BY DEF Counted
<1> QED
    BY <1>1, FS_Subset, ServerAssumption

(* A step that does not change what is counted keeps what the unload task  *)
(* knows, when without a call in progress it brings neither a migration    *)
(* nor a client.                                                           *)
LEMMA Calm ==
    ASSUME UnloadInv, Counted' = Counted, fresh' = fresh,
           pc'[Handler] = pc[Handler], reads'[Handler] = reads[Handler],
           Counted = {} => /\ isDataMigrationing' => isDataMigrationing
                           /\ DOMAIN clients = {} => DOMAIN clients' = {}
    PROVE  UnloadInv'
BY DEF UnloadInv, At, AddReads

(* What a step of thread t does to the places and to the types of control. *)
LEMMA ThreadMoves ==
    ASSUME Types, Places, NEW t \in Thread,
           NEW label \in Label \ {"migrate", "reset", "unload"}, NEW c \in CallType,
           pc' = [pc EXCEPT ![t] = label], call' = [call EXCEPT ![t] = c],
           label = "idle" <=> c = NoCall /\ label \notin {"ending", "add"},
           \A s \in Thread : s # t => task'[s] = task[s],
           task'[t].step # "idle" => label = "ending"
    PROVE  /\ Places'
           /\ pc' \in [Actor -> Label] /\ call' \in [Thread -> CallType]
           /\ pc'[Handler] = pc[Handler]
<1>1. \A s \in Thread : s # t => pc'[s] = pc[s] /\ call'[s] = call[s]
    BY DEF Types, Actor
<1>2. pc'[t] = label /\ call'[t] = c
    BY DEF Types, Actor
<1>3. pc'[Handler] = pc[Handler]
    BY ServerAssumption DEF Types, Actor
<1>4. pc' \in [Actor -> Label] /\ call' \in [Thread -> CallType]
    BY DEF Types, CallType
<1> QED
    BY <1>1, <1>2, <1>3, <1>4 DEF Places

(* A step that neither counts a call in or out nor registers a client.     *)
LEMMA QuietStep ==
    ASSUME Inv, NEW t \in Thread,
           NEW label \in Label \ {"migrate", "reset", "unload"}, NEW c \in CallType,
           pc' = [pc EXCEPT ![t] = label], call' = [call EXCEPT ![t] = c],
           label = "idle" <=> c = NoCall /\ label \notin {"ending", "add"},
           Counting(label, c) <=> Counting(pc[t], call[t]),
           task' \in [Thread -> TaskType],
           \A s \in Thread : s # t => task'[s] = task[s],
           task'[t].step # "idle" => label = "ending",
           reads' \in [Actor -> Reading], reads'[Handler] = reads[Handler],
           isDataMigrationing' \in BOOLEAN, DOMAIN clients' \subseteq Token,
           \/ Counting(pc[t], call[t])
           \/ /\ isDataMigrationing' = isDataMigrationing
              /\ DOMAIN clients' \subseteq DOMAIN clients,
           UNCHANGED <<callingCount, fresh>>
    PROVE  Inv'
<1>1. Types /\ Places /\ CountInv /\ UnloadInv
    BY DEF Inv
<1>2. /\ Places' /\ pc'[Handler] = pc[Handler]
      /\ pc' \in [Actor -> Label] /\ call' \in [Thread -> CallType]
    BY <1>1, ThreadMoves
<1>3. Types'
    BY <1>1, <1>2 DEF Types, CallType, TaskType
<1>4. Counted' = Counted
    <2>1. /\ Counting(label, c) => Counted' = Counted \cup {t}
          /\ ~Counting(label, c) => Counted' = Counted \ {t}
        BY <1>1, OthersCounted
    <2>2. Counting(pc[t], call[t]) <=> t \in Counted
        BY DEF Counted
    <2> QED
        BY <2>1, <2>2
<1>5. CountInv'
    BY <1>1, <1>4 DEF CountInv
<1>6. Counting(pc[t], call[t]) => Counted # {}
    BY DEF Counted
<1>7. UnloadInv'
    BY <1>1, <1>2, <1>4, <1>6, Calm
<1> QED
    BY <1>2, <1>3, <1>5, <1>7 DEF Inv

(* What is left to read is a sequence of reads.                            *)
LEMMA ReadsType ==
    /\ AddReads \in Reading /\ DiedReads \in Reading
    /\ \A method : GuardReads(method) \in Reading
    /\ <<>> \in Reading /\ \A what \in Reading : what # <<>> => Tail(what) \in Reading
<1>1. AddReads \in Reading /\ <<"count">> \in Reading /\ <<"count", "clients">> \in Reading
      /\ <<>> \in Reading
    BY DEF AddReads, Reading
<1>2. \A u, v \in Reading : u \o v \in Reading
    BY DEF Reading
<1>3. \A what \in Reading : what # <<>> => Tail(what) \in Reading
    BY DEF Reading
<1> QED
    BY <1>1, <1>2, <1>3 DEF DiedReads, GuardReads

(* The steps of a thread, one by one.                                      *)
LEMMA CountInStep ==
    ASSUME Inv, NEW t \in Thread, CountIn(t)
    PROVE  Inv'
<1>1. Types /\ Places /\ CountInv /\ UnloadInv
    BY DEF Inv
<1>2. call' = [call EXCEPT ![t] = call[t]] /\ call[t] \in CallType
    BY <1>1 DEF CountIn, Go, Types, CallType
<1>3. pc' = [pc EXCEPT ![t] = "body"] /\ pc[t] = "in" /\ call[t] # NoCall
    BY <1>1 DEF CountIn, Go, At, Places
<1>4. Places' /\ pc'[Handler] = pc[Handler] /\ pc' \in [Actor -> Label]
      /\ call' \in [Thread -> CallType]
    <2>1. task' = task /\ task[t].step = "idle"
        BY <1>1, <1>3 DEF CountIn, registryVars, Places
    <2> QED
        BY <1>1, <1>2, <1>3, <2>1, ThreadMoves DEF Label
<1>5. Counted' = Counted \cup {t} /\ t \notin Counted
    BY <1>1, <1>2, <1>3, OthersCounted DEF Counting, Counted
<1>6. CountInv'
    BY <1>1, <1>5, CountedFinite, FS_AddElement DEF CountIn, CountInv
<1>7. Types'
    BY <1>1, <1>4 DEF Types, CountIn, Go, registryVars, CallType
<1>8. UnloadInv'
    BY <1>1, <1>4 DEF UnloadInv, CountIn, Go, At
<1> QED
    BY <1>4, <1>6, <1>7, <1>8 DEF Inv

(* The destructor of CallingCountGuard takes the call out of the count.    *)
LEMMA CountOutStep ==
    ASSUME Inv, NEW t \in Thread, CountOut(t)
    PROVE  Inv'
<1>1. Types /\ Places /\ CountInv /\ UnloadInv
    BY DEF Inv
<1>2. call' = [call EXCEPT ![t] = NoCall] /\ NoCall \in CallType
    BY <1>1 DEF CountOut, NoCall, CallType
<1>3. pc' = [pc EXCEPT ![t] = "add"] /\ pc[t] = "out"
    BY <1>1 DEF CountOut, GoRead, At
<1>4. Places' /\ pc'[Handler] = pc[Handler] /\ pc' \in [Actor -> Label]
      /\ call' \in [Thread -> CallType]
    <2>1. task' = task /\ task[t].step = "idle"
        BY <1>1, <1>3 DEF CountOut, registryVars, Places
    <2> QED
        BY <1>1, <1>2, <1>3, <2>1, ThreadMoves DEF Label
<1>5. Counted' = Counted \ {t} /\ t \in Counted
    BY <1>1, <1>2, <1>3, OthersCounted DEF Counting, Counted
<1>6. CountInv' /\ callingCount' \in Nat
    <2>1. Cardinality(Counted') = Cardinality(Counted) - 1
        BY <1>5, CountedFinite, FS_RemoveElement
    <2>2. Cardinality(Counted') \in Nat
        BY <1>5, CountedFinite, FS_RemoveElement, FS_CardinalityType
    <2> QED
        BY <1>1, <2>1, <2>2 DEF CountOut, CountInv
<1>7. Types' /\ reads'[Handler] = reads[Handler]
    <2>1. reads' \in [Actor -> Reading] /\ reads'[Handler] = reads[Handler]
        BY <1>1, ReadsType, ServerAssumption DEF CountOut, GoRead, Types, Actor
    <2> QED
        BY <1>1, <1>4, <1>6, <2>1 DEF Types, CountOut, registryVars, CallType
<1>8. UnloadInv'
    BY <1>1, <1>4, <1>5, <1>7 DEF UnloadInv, CountOut, At, registryVars
<1> QED
    BY <1>4, <1>6, <1>7, <1>8 DEF Inv

(* A step that moves thread t and touches nothing the invariant is about.  *)
LEMMA PlainStep ==
    ASSUME Inv, NEW t \in Thread,
           NEW label \in Label \ {"idle", "migrate", "reset", "unload"},
           Go(t, label),
           Counting(label, call[t]) <=> Counting(pc[t], call[t]),
           pc[t] # "idle", call[t] # NoCall,
           label = "ending" \/ task[t].step = "idle",
           UNCHANGED <<registryVars, callingCount, isDataMigrationing, fresh>>
    PROVE  Inv'
<1>1. Types /\ Places
    BY DEF Inv
<1>2. call' = [call EXCEPT ![t] = call[t]] /\ call[t] \in CallType
    BY <1>1 DEF Go, Types, CallType
<1>3. reads' = reads /\ pc' = [pc EXCEPT ![t] = label]
    BY DEF Go
<1>4. task' = task /\ clients' = clients /\ task \in [Thread -> TaskType]
    BY <1>1 DEF registryVars, Types, TaskType
<1>5. task'[t].step # "idle" => label = "ending"
    BY <1>4
<1>6. reads \in [Actor -> Reading] /\ isDataMigrationing \in BOOLEAN /\ DOMAIN clients \subseteq Token
    BY <1>1 DEF Types
<1> QED
    BY <1>2, <1>3, <1>4, <1>5, <1>6, QuietStep

(* Steps of a call that change neither the count nor the registry.         *)
LEMMA PlainThreadSteps ==
    ASSUME Inv, NEW t \in Thread,
           \/ RemoveUnloadFontServiceTask(t) \/ NoEffect(t)
           \/ InstallScopeFont(t) \/ InsertAppFont(t)
    PROVE  Inv'
<1>1. /\ t # Handler
      /\ \A label \in {"remove", "body", "insert"} : pc[t] = label =>
            /\ call[t] # NoCall /\ task[t].step = "idle"
            /\ pc[t] # "idle"
    BY ServerAssumption DEF Inv, Places
<1>2. CASE RemoveUnloadFontServiceTask(t)
    <2>1. Go(t, "in") /\ pc[t] = "remove"
        BY <1>1, <1>2 DEF RemoveUnloadFontServiceTask, At
    <2> QED
        BY <1>1, <1>2, <2>1, PlainStep DEF RemoveUnloadFontServiceTask, Label, Counting, flags
<1>3. CASE NoEffect(t)
    BY <1>1, <1>3, PlainStep DEF NoEffect, At, Label, Counting, flags
<1>4. CASE InstallScopeFont(t)
    <2>1. PICK label \in {"insert", "out"} : Go(t, label)
        BY <1>4 DEF InstallScopeFont
    <2> QED
        BY <1>1, <1>4, <2>1, PlainStep DEF InstallScopeFont, Calling, At, Label, Counting, flags
<1>5. CASE InsertAppFont(t)
    BY <1>1, <1>5, PlainStep DEF InsertAppFont, At, Label, Counting, flags
<1> QED
    BY <1>2, <1>3, <1>4, <1>5

(* A call that arrives is not counted yet.                                 *)
LEMMA CallStep ==
    ASSUME Inv, NEW t \in Thread, NEW method \in Method, NEW b \in Binder, Call(t, method, b)
    PROVE  Inv'
<1> DEFINE c == [method |-> method, binder |-> b]
<1>1. Types /\ Places
    BY DEF Inv
<1>2. c \in CallType /\ c # NoCall
    BY ServerAssumption DEF CallType, NoCall
<1>3. call' = [call EXCEPT ![t] = c] /\ pc' = [pc EXCEPT ![t] = "remove"] /\ pc[t] = "idle"
    BY DEF Call, At
<1>4. call[t] = NoCall /\ task[t].step = "idle"
    BY <1>1, <1>3 DEF Places
<1> HIDE DEF c
<1>5. UNCHANGED <<reads, callingCount, isDataMigrationing, fresh, clients, task>>
    BY DEF Call, flags, registryVars
<1>6. Counting("remove", c) <=> Counting(pc[t], call[t])
    BY <1>3 DEF Counting
<1> QED
    BY <1>1, <1>2, <1>3, <1>4, <1>5, <1>6, QuietStep DEF Types, TaskType, Label

(* The steps of the migration's call.                                      *)
LEMMA MigrationCalls ==
    ASSUME Inv, NEW t \in Thread, DataMigration(t) \/ PostMigration(t)
    PROVE  Inv'
<1>1. Types /\ Places
    BY DEF Inv
<1>2. PICK label \in {"post", "out"} : Go(t, label)
    BY DEF DataMigration, PostMigration
<1>3. pc[t] \in {"body", "post"}
    BY DEF DataMigration, PostMigration, Calling, At
<1>4. call[t] # NoCall /\ task[t].step = "idle" /\ call[t] \in CallType
    BY <1>1, <1>3 DEF Places, Types, CallType
<1>5. /\ reads' = reads /\ pc' = [pc EXCEPT ![t] = label]
      /\ call' = [call EXCEPT ![t] = call[t]]
    BY <1>1, <1>2 DEF Go, Types
<1>6. UNCHANGED <<callingCount, fresh, clients, task>> /\ isDataMigrationing' \in BOOLEAN
    BY <1>1 DEF DataMigration, PostMigration, registryVars, Types
<1>7. Counting(label, call[t]) /\ Counting(pc[t], call[t])
    BY <1>3 DEF Counting
<1> QED
    BY <1>1, <1>4, <1>5, <1>6, <1>7, QuietStep DEF Types, TaskType, Label

(* What the registry does to the variables the invariant reads: when a     *)
(* registration ends, no client comes and only thread t gets a task.       *)
Ends(t) ==
    /\ task[t].step = "idle" /\ DOMAIN clients' \subseteq DOMAIN clients
    /\ task' \in [Thread -> TaskType]
    /\ \A s \in Thread : s # t => task'[s] = task[s]

(* A registration leaves the threads' tasks alone.                         *)
LEMMA RegisterStep ==
    ASSUME Types, NEW b \in Binder, Registry!RegisterClient(b)
    PROVE  task' = task /\ DOMAIN clients' \subseteq Token
<1>1. TokenOf[b] \in Token
    BY ServerAssumption
<1> QED
    BY <1>1 DEF Registry!RegisterClient, Types

(* A registration that ends leaves a task to the thread that ends it.      *)
LEMMA CleanUpStep ==
    ASSUME Types, NEW t \in Thread, NEW token \in Token, Registry!CleanUpAfter(t, token)
    PROVE  /\ task' \in [Thread -> TaskType]
           /\ \A s \in Thread : s # t => task'[s] = task[s]
BY DEF Registry!CleanUpAfter, TaskType, Types

(* UnregisterClient removes a client, at most.                             *)
LEMMA UnregisterStep ==
    ASSUME Types, NEW t \in Thread, NEW token \in Token, Registry!UnregisterClient(t, token)
    PROVE  Ends(t)
<1>1. task[t].step = "idle"
    BY DEF Registry!UnregisterClient, Registry!Idle
<1>2. DOMAIN clients' \subseteq DOMAIN clients
    BY DEF Registry!UnregisterClient, Registry!Erase
<1> QED
    BY <1>1, <1>2, CleanUpStep DEF Registry!UnregisterClient, Ends

(* So does a death notice; of an application that is not registered it     *)
(* changes nothing.                                                        *)
LEMMA DiedStep ==
    ASSUME Types, NEW t \in Thread, NEW token \in Token, Registry!OnClientDied(t, token)
    PROVE  Ends(t) /\ (~Registry!IsClientRegistered(token) => task' = task)
<1>1. task[t].step = "idle"
    BY DEF Registry!OnClientDied, Registry!Idle
<1>2. DOMAIN clients' \subseteq DOMAIN clients
    BY DEF Registry!OnClientDied, Registry!Erase, Registry!maps
<1>3. CASE Registry!CleanUpAfter(t, token) /\ Registry!IsClientRegistered(token)
    BY <1>1, <1>2, <1>3, CleanUpStep DEF Ends
<1>4. CASE task' = task
    BY <1>1, <1>2, <1>4 DEF Ends, Types
<1> QED
    BY <1>3, <1>4 DEF Registry!OnClientDied

(* The tasks left after the release of mutex_ do not change the clients.   *)
LEMMA TaskStep ==
    ASSUME Types, NEW t \in Thread,
           Registry!CleanupAppScopeFonts(t) \/ Registry!NotifyClientDied(t)
    PROVE  /\ task[t].step # "idle" /\ clients' = clients
           /\ task' \in [Thread -> TaskType]
           /\ \A s \in Thread : s # t => task'[s] = task[s]
           /\ Registry!NotifyClientDied(t) => task'[t].step = "idle"
BY DEF Registry!CleanupAppScopeFonts, Registry!NotifyClientDied, Registry!maps,
       Registry!Idle, TaskType, Types

(* A client comes or goes within a call.                                   *)
LEMMA ObserverCalls ==
    ASSUME Inv, NEW t \in Thread, OnFontObserver(t) \/ OffFontObserver(t)
    PROVE  Inv'
<1>1. Types /\ Places
    BY DEF Inv
<1>2. PICK label \in {"ending", "out"} : Go(t, label)
    BY DEF OnFontObserver, OffFontObserver
<1>3. pc[t] = "body" /\ t # Handler
    BY ServerAssumption DEF OnFontObserver, OffFontObserver, Calling, At
<1>4. call[t] # NoCall /\ task[t].step = "idle" /\ call[t] \in CallType
    BY <1>1, <1>3 DEF Places, Types, CallType
<1>5. /\ reads' = reads /\ pc' = [pc EXCEPT ![t] = label]
      /\ call' = [call EXCEPT ![t] = call[t]]
    BY <1>1, <1>2 DEF Go, Types
<1>6. UNCHANGED <<callingCount, fresh, isDataMigrationing>>
    BY DEF OnFontObserver, OffFontObserver, flags
<1>7. call[t].binder \in Binder
    BY <1>4 DEF CallType
<1>8. /\ task' \in [Thread -> TaskType] /\ \A s \in Thread : s # t => task'[s] = task[s]
      /\ task'[t].step # "idle" => label = "ending"
      /\ DOMAIN clients' \subseteq Token
    <2>1. /\ UNCHANGED registryVars => task' = task /\ clients' = clients
          /\ task \in [Thread -> TaskType] /\ DOMAIN clients \subseteq Token
        BY <1>1 DEF registryVars, Types
    <2>2. CASE OnFontObserver(t)
        BY <1>1, <1>4, <1>7, <2>1, <2>2, RegisterStep DEF OnFontObserver
    <2>3. CASE OffFontObserver(t) /\ Registry!UnregisterClient(t, Caller(t)) /\ Go(t, "ending")
        <3>1. Caller(t) \in Token
            BY <1>7, ServerAssumption DEF Caller
        <3>2. "ending" = label
            BY <1>1, <1>2, <2>3 DEF Go, Types, Actor
        <3> QED
            BY <1>1, <2>1, <2>3, <3>1, <3>2, UnregisterStep DEF Ends
    <2>4. CASE OffFontObserver(t) /\ UNCHANGED registryVars
        BY <1>4, <2>1, <2>4
    <2> QED
        BY <2>2, <2>3, <2>4 DEF OffFontObserver
<1>9. Counting(label, call[t]) /\ Counting(pc[t], call[t])
    BY <1>3, <1>4 DEF Counting
<1> QED
    BY <1>1, <1>4, <1>5, <1>6, <1>8, <1>9, QuietStep DEF Types, TaskType, Label

(* A client is ended by its death notice.                                  *)
LEMMA DeathNotice ==
    ASSUME Inv, NEW t \in Thread, NEW token \in Token, OnClientDied(t, token)
    PROVE  Inv'
<1>1. Types /\ Places
    BY DEF Inv
<1>3. PICK label \in {"ending", "idle"} :
        /\ Go(t, label)
        /\ label = IF Registry!IsClientRegistered(token) THEN "ending" ELSE "idle"
    BY DEF OnClientDied
<1>4. pc[t] = "idle" /\ call[t] = NoCall /\ NoCall \in CallType
    BY <1>1 DEF OnClientDied, At, Places, CallType
<1>5. /\ reads' = reads /\ pc' = [pc EXCEPT ![t] = label]
      /\ call' = [call EXCEPT ![t] = NoCall]
    BY <1>1, <1>3, <1>4 DEF Go, Types
<1>6. UNCHANGED <<callingCount, fresh, isDataMigrationing>>
    BY DEF OnClientDied, flags
<1>7. /\ task[t].step = "idle" /\ DOMAIN clients' \subseteq DOMAIN clients
      /\ task' \in [Thread -> TaskType] /\ \A s \in Thread : s # t => task'[s] = task[s]
      /\ ~Registry!IsClientRegistered(token) => task' = task
    BY <1>1, DiedStep DEF OnClientDied, Ends
<1>8. task'[t].step # "idle" => label = "ending"
    BY <1>3, <1>7
<1>9. ~Counting(label, NoCall) /\ ~Counting(pc[t], call[t])
    BY <1>4 DEF Counting
<1> QED
    BY <1>1, <1>4, <1>5, <1>6, <1>7, <1>8, <1>9, QuietStep DEF Types, Label

(* What a thread has left to do after a client has ended.                  *)
LEMMA RegistryTasks ==
    ASSUME Inv, NEW t \in Thread, CleanupAppScopeFonts(t) \/ NotifyClientDied(t)
    PROVE  Inv'
<1>1. Types /\ Places
    BY DEF Inv
<1>2. /\ task[t].step # "idle" /\ clients' = clients
      /\ task' \in [Thread -> TaskType] /\ \A s \in Thread : s # t => task'[s] = task[s]
      /\ NotifyClientDied(t) => task'[t].step = "idle"
    BY <1>1, TaskStep DEF CleanupAppScopeFonts, NotifyClientDied
<1>3. pc[t] = "ending" /\ call[t] \in CallType /\ t # Handler
    BY <1>1, <1>2, ServerAssumption DEF Places, Types
<1>4. PICK label \in {"ending", "add"} :
        /\ pc' = [pc EXCEPT ![t] = label]
        /\ CleanupAppScopeFonts(t) => label = "ending"
        /\ NotifyClientDied(t) => label = "add"
    <2>1. CASE CleanupAppScopeFonts(t) /\ ~NotifyClientDied(t)
        BY <1>1, <1>3, <2>1 DEF CleanupAppScopeFonts, control, Types
    <2>2. CASE NotifyClientDied(t) /\ ~CleanupAppScopeFonts(t)
        BY <2>2 DEF NotifyClientDied, GoRead
    <2>3. ~(CleanupAppScopeFonts(t) /\ NotifyClientDied(t))
        BY DEF CleanupAppScopeFonts, NotifyClientDied, Registry!CleanupAppScopeFonts,
               Registry!NotifyClientDied
    <2> QED
        BY <2>1, <2>2, <2>3
<1>5. call' = [call EXCEPT ![t] = call[t]]
    BY <1>1 DEF CleanupAppScopeFonts, NotifyClientDied, control, Types
<1>6. UNCHANGED <<callingCount, fresh, isDataMigrationing>>
    BY DEF CleanupAppScopeFonts, NotifyClientDied, flags
<1>7. reads' \in [Actor -> Reading] /\ reads'[Handler] = reads[Handler]
    BY <1>1, <1>3, ReadsType
       DEF CleanupAppScopeFonts, NotifyClientDied, GoRead, control, Types, Actor
<1>8. Counting(label, call[t]) <=> Counting(pc[t], call[t])
    BY <1>3 DEF Counting
<1>9. task'[t].step # "idle" => label = "ending"
    BY <1>2, <1>4
<1> QED
    BY <1>1, <1>2, <1>3, <1>4, <1>5, <1>6, <1>7, <1>8, <1>9, QuietStep DEF Types, Label

(* The reads of a thread, and its post of an unload task.                  *)
LEMMA ThreadReads ==
    ASSUME Inv, NEW t \in Thread, ReadNext(t) \/ PostUnloadTask(t)
    PROVE  Inv'
<1>1. Types /\ Places
    BY DEF Inv
<1>2. /\ pc[t] = "add" /\ t # Handler /\ call[t] \in CallType
      /\ reads[t] \in Reading /\ task[t].step = "idle"
    BY <1>1, ServerAssumption DEF Places, Types, ReadNext, PostUnloadTask, At, Actor
<1>3. Done(t) = IF call[t] # NoCall THEN "out" ELSE "idle"
    BY DEF Done
<1>4. PICK label \in {"add", Done(t)} : pc' = [pc EXCEPT ![t] = label]
    BY <1>2 DEF ReadNext, PostUnloadTask, GoRead, Go, At
<1>5. call' = [call EXCEPT ![t] = call[t]]
    BY <1>1 DEF ReadNext, PostUnloadTask, Go, Types
<1>6. UNCHANGED <<callingCount, fresh, isDataMigrationing, clients, task>>
    BY <1>1, <1>2 DEF ReadNext, PostUnloadTask, At, flags, registryVars, Types
<1>7. reads' \in [Actor -> Reading] /\ reads'[Handler] = reads[Handler]
    BY <1>1, <1>2, ReadsType DEF ReadNext, PostUnloadTask, Go, GoRead, Types, Actor
<1>8. Counting(label, call[t]) <=> Counting(pc[t], call[t])
    BY <1>2, <1>3, <1>4 DEF Counting
<1>9. /\ label \in Label \ {"migrate", "reset", "unload"}
      /\ label = "idle" <=> call[t] = NoCall /\ label \notin {"ending", "add"}
    BY <1>3, <1>4 DEF Label
<1> QED
    BY <1>1, <1>2, <1>4, <1>5, <1>6, <1>7, <1>8, <1>9, QuietStep DEF Types

(* A step of the handler counts no call in or out.                         *)
LEMMA HandlerMoves ==
    ASSUME Inv, NEW label \in {"idle", "remove", "migrate", "reset", "add", "unload"},
           pc' = [pc EXCEPT ![Handler] = label],
           reads' \in [Actor -> Reading],
           isDataMigrationing' \in BOOLEAN, fresh' \in BOOLEAN,
           UNCHANGED <<callingCount, call, task, clients>>
    PROVE  /\ Types' /\ Places' /\ CountInv' /\ Counted' = Counted
           /\ label # "unload" => Inv'
<1>1. Types /\ Places /\ CountInv
    BY DEF Inv
<1>2. \A t \in Thread : pc'[t] = pc[t]
    BY <1>1, ServerAssumption DEF Types, Actor
<1>3. pc'[Handler] = label
    BY <1>1 DEF Types, Actor
<1>4. Counted' = Counted
    BY <1>2 DEF Counted, Counting
<1>5. CountInv'
    BY <1>1, <1>4 DEF CountInv
<1>6. Places'
    BY <1>1, <1>2, <1>3 DEF Places
<1>7. Types'
    BY <1>1 DEF Types, Label
<1>8. label # "unload" => UnloadInv'
    BY <1>3 DEF UnloadInv, At
<1> QED
    BY <1>4, <1>5, <1>6, <1>7, <1>8 DEF Inv

(* The steps of the handler that end outside an unload task.               *)
LEMMA HandlerCalm ==
    ASSUME Inv,
           \/ RemoveUnloadFontServiceTask(Handler) \/ PostUnloadTask(Handler)
           \/ Migrate \/ FinishMigration \/ UnloadFontService \/ TakeTask
    PROVE  Inv'
<1>1. Types /\ reads \in [Actor -> Reading] /\ AddReads \in Reading
    BY ReadsType DEF Inv, Types
<1>2. Done(Handler) = "idle"
    BY ServerAssumption DEF Done
<1>3. PICK label \in {"idle", "remove", "migrate", "reset", "add"} :
        pc' = [pc EXCEPT ![Handler] = label]
    <2>1. CASE TakeTask
        BY <1>1, <2>1 DEF TakeTask, Go, control, At, Types, Actor
    <2>2. CASE ~TakeTask
        BY <1>2, <2>2 DEF RemoveUnloadFontServiceTask, PostUnloadTask, Migrate, FinishMigration,
              UnloadFontService, Go, GoRead
    <2> QED
        BY <2>1, <2>2
<1>4. UNCHANGED <<callingCount, call, task, clients, fresh>>
    BY DEF RemoveUnloadFontServiceTask, PostUnloadTask, Migrate, FinishMigration,
           UnloadFontService, TakeTask, Go, control, flags, registryVars
<1>5. isDataMigrationing' \in BOOLEAN /\ fresh' \in BOOLEAN
    BY <1>1, <1>4 DEF RemoveUnloadFontServiceTask, PostUnloadTask, Migrate, FinishMigration,
           UnloadFontService, TakeTask, flags, Types
<1>6. reads' \in [Actor -> Reading]
    BY <1>1 DEF RemoveUnloadFontServiceTask, PostUnloadTask, Migrate, FinishMigration,
           UnloadFontService, TakeTask, Go, GoRead, control
<1> QED
    BY <1>3, <1>4, <1>5, <1>6, HandlerMoves

(* An unload task begins with nothing known.                               *)
LEMMA TakeUnloadStep ==
    ASSUME Inv, TakeUnloadTask
    PROVE  Inv'
<1>1. Types
    BY DEF Inv
<1>2. pc' = [pc EXCEPT ![Handler] = "unload"] /\ reads' = [reads EXCEPT ![Handler] = AddReads]
    BY DEF TakeUnloadTask, GoRead, UnloadReads
<1>3. /\ reads' \in [Actor -> Reading] /\ reads'[Handler] = AddReads
      /\ isDataMigrationing' \in BOOLEAN /\ fresh' \in BOOLEAN
      /\ UNCHANGED <<callingCount, call, task, clients>>
    BY <1>1, <1>2, ReadsType DEF Types, Actor, TakeUnloadTask, flags, registryVars
<1>4. Types' /\ Places' /\ CountInv'
    BY <1>2, <1>3, HandlerMoves
<1>5. UnloadInv'
    BY <1>3 DEF UnloadInv, AddReads
<1> QED
    BY <1>4, <1>5 DEF Inv

(* Each read of the unload task adds to what it knows; the later reads     *)
(* cannot undo what the earlier ones have shown.                           *)
LEMMA UnloadRead ==
    ASSUME Inv, ReadNext(Handler)
    PROVE  Inv'
<1>1. Types /\ CountInv /\ UnloadInv /\ Done(Handler) = "idle" /\ reads[Handler] \in Reading
    BY ServerAssumption DEF Inv, Done, Types, Actor
<1>2. /\ UNCHANGED <<callingCount, isDataMigrationing, call, task, clients>>
      /\ reads[Handler] # <<>> /\ pc[Handler] \in {"add", "unload"}
    BY DEF ReadNext, flags, registryVars
<1>3. PICK label \in {"idle", "add", "unload"} :
        /\ pc' = [pc EXCEPT ![Handler] = label]
        /\ label \in {"idle", pc[Handler]}
    BY <1>1, <1>2 DEF ReadNext, GoRead
<1>4. reads' \in [Actor -> Reading]
    BY <1>1, <1>2, ReadsType DEF ReadNext, GoRead, Types
<1>5. isDataMigrationing' \in BOOLEAN /\ fresh' \in BOOLEAN
    BY <1>1 DEF ReadNext, flags, Types, At
<1>6. CASE label # "unload"
    BY <1>2, <1>3, <1>4, <1>5, <1>6, HandlerMoves
<1>7. CASE label = "unload"
    <2>1. /\ pc'[Handler] = "unload" /\ pc[Handler] = "unload"
          /\ Types' /\ Places' /\ CountInv' /\ Counted' = Counted
        BY <1>1, <1>2, <1>3, <1>4, <1>5, <1>7, HandlerMoves DEF Types, Actor
    <2>2. /\ Unused(Head(reads[Handler])) /\ reads'[Handler] = Tail(reads[Handler])
          /\ fresh' = (fresh /\ ~(Head(reads[Handler]) = "count"))
        BY <1>1, <2>1 DEF ReadNext, GoRead, Types, Actor, At
    <2>3. Head(reads[Handler]) = "count" => Counted = {}
        BY <1>1, <2>2, CountedFinite, FS_EmptySet DEF Unused, CountInv
    <2>4. Head(reads[Handler]) = "migrating" => ~isDataMigrationing
        BY <2>2 DEF Unused
    <2>5. Head(reads[Handler]) = "clients" => DOMAIN clients = {}
        <3>1. IsFiniteSet(DOMAIN clients)
            BY <1>1, FS_Subset, ServerAssumption DEF Types
        <3>2. Registry!GetClientCount = Cardinality(DOMAIN clients)
            BY DEF Registry!GetClientCount, Registry!Cardinality, Cardinality
        <3> QED
            BY <2>2, <3>1, <3>2, FS_EmptySet DEF Unused
    <2>6. UnloadInv'
        <3>1. reads[Handler] \in {AddReads, <<"migrating", "clients">>, <<"clients">>}
            BY <1>1, <1>2, <2>1 DEF UnloadInv, At
        <3>2. CASE reads[Handler] = AddReads
            <4>1. Head(AddReads) = "count" /\ Tail(AddReads) = <<"migrating", "clients">>
                BY DEF AddReads
            <4>2. reads'[Handler] = <<"migrating", "clients">> /\ Counted = {}
                BY <2>2, <2>3, <3>2, <4>1
            <4> QED
                BY <2>1, <4>2 DEF UnloadInv
        <3>3. CASE reads[Handler] = <<"migrating", "clients">>
            <4>1. /\ Head(<<"migrating", "clients">>) = "migrating"
                  /\ Tail(<<"migrating", "clients">>) = <<"clients">>
                OBVIOUS
            <4>2. reads'[Handler] = <<"clients">> /\ ~isDataMigrationing /\ fresh' = fresh
                BY <1>1, <2>2, <2>4, <3>3, <4>1 DEF Types
            <4>3. ~fresh => Counted = {}
                BY <1>1, <2>1, <3>3 DEF UnloadInv, At, AddReads
            <4> QED
                BY <1>2, <2>1, <4>2, <4>3 DEF UnloadInv
        <3>4. CASE reads[Handler] = <<"clients">>
            <4>1. Head(<<"clients">>) = "clients" /\ Tail(<<"clients">>) = <<>>
                OBVIOUS
            <4>2. reads'[Handler] = <<>> /\ DOMAIN clients = {} /\ fresh' = fresh
                BY <1>1, <2>2, <2>5, <3>4, <4>1 DEF Types
            <4>3. ~fresh => Counted = {} /\ ~isDataMigrationing
                BY <1>1, <2>1, <3>4 DEF UnloadInv, At, AddReads
            <4> QED
                BY <1>2, <2>1, <4>2, <4>3 DEF UnloadInv
        <3> QED
            BY <3>1, <3>2, <3>3, <3>4
    <2> QED
        BY <2>1, <2>6 DEF Inv
<1> QED
    BY <1>6, <1>7

(* What neither a thread nor the handler does, and stuttering.             *)
LEMMA OtherSteps ==
    ASSUME Inv,
           \/ \E users \in StartsFor : OnStart(users)
           \/ \E user \in User : OnUserStopping(user)
           \/ \E b \in Binder : Die(b)
           \/ UNCHANGED vars
    PROVE  Inv'
<1>1. UNCHANGED <<callingCount, isDataMigrationing, fresh, pc, call, reads, clients, task>>
    BY DEF OnStart, OnUserStopping, Die, Registry!Die, Registry!maps, vars, registryVars,
           flags, control
<1>2. Counted' = Counted
    BY <1>1 DEF Counted, Counting
<1>3. Types' /\ Places' /\ CountInv' /\ UnloadInv'
    BY <1>1, <1>2 DEF Inv, Types, Places, CountInv, UnloadInv, At
<1> QED
    BY <1>3 DEF Inv

(* A service that is not loaded counts nothing.                            *)
Rest ==
    /\ callingCount = 0 /\ isDataMigrationing = FALSE /\ fresh = FALSE
    /\ DOMAIN clients = {} /\ task = [t \in Thread |-> Registry!Idle]
    /\ pc = [a \in Actor |-> "idle"] /\ call = [t \in Thread |-> NoCall]
    /\ reads = [a \in Actor |-> <<>>]

(* At rest the invariant holds.                                            *)
LEMMA AtRest == Rest => Inv
<1> SUFFICES ASSUME Rest PROVE Inv
    OBVIOUS
<1>1. Types
    BY ReadsType DEF Rest, Types, Label, CallType, TaskType, Registry!Idle
<1>2. Places
    BY DEF Rest, Places, Registry!Idle, Actor
<1>3. Counted = {}
    BY DEF Rest, Counted, Counting, Actor
<1>4. CountInv
    BY <1>3, FS_EmptySet DEF Rest, CountInv
<1>5. UnloadInv
    BY DEF Rest, UnloadInv, At, Actor
<1> QED
    BY <1>1, <1>2, <1>4, <1>5 DEF Inv

(* The end of the process brings the service back to rest.                 *)
LEMMA StopStep == Stop => Inv'
<1>1. Stop => Rest'
    BY DEF Stop, Rest, Actor, NoCall, Registry!Idle
<1> QED
    BY <1>1, AtRest, PTL

(* The service begins at rest.                                             *)
LEMMA InvInit == Init => Inv
<1>1. Init => Rest
    BY DEF Init, Registry!Init, Rest
<1> QED
    BY <1>1, AtRest

(* Every step keeps the invariant.                                         *)
LEMMA InvNext == Inv /\ [Next]_vars => Inv'
<1> SUFFICES ASSUME Inv, [Next]_vars PROVE Inv'
    OBVIOUS
<1>1. ASSUME NEW t \in Thread, Step(t) \/ ThreadStep(t)
      PROVE  Inv'
    BY <1>1, PlainThreadSteps, ThreadReads, CountInStep, CountOutStep, ObserverCalls,
       MigrationCalls, RegistryTasks DEF Step, ThreadStep
<1>2. CASE HandlerStep \/ TakeTask \/ TakeUnloadTask
    BY <1>2, HandlerCalm, UnloadRead, TakeUnloadStep DEF HandlerStep, Step
<1> QED
    BY <1>1, <1>2, CallStep, DeathNotice, StopStep, OtherSteps DEF Next

(* The service never unloads with a call in progress, a migration accepted *)
(* or a client registered, but for calls that were counted in after the    *)
(* task read the calling count: CallingCountGuard covers every call from   *)
(* end to end, and without a call neither isDataMigrationing_ is set nor a *)
(* client registered, so that what the task has read stays true.           *)
THEOREM NeverCutsOff == Spec => []NothingCutOff
<1>1. Inv => NothingCutOff
    BY DEF Inv, UnloadInv, NothingCutOff, AddReads, At, Counted, Counting
<1> QED
    BY <1>1, InvInit, InvNext, PTL DEF Spec
-----------------------------------------------------------------------------
(* The slot of the migration.  What is posted to the handler is a          *)
(* migration or the cleanup of some users.                                 *)
Posted == {Migration} \cup {Cleanup(users) : users \in SUBSET User}
MigrationLabel == {"remove", "migrate", "reset"}

(* A service that is stopped does nothing and has nothing to do, so that a *)
(* start loses no migration with the queue.                                *)
StoppedInv ==
    service = "stopped" =>
        /\ queue = <<>> /\ unloads = 0 /\ ~isDataMigrationing
        /\ \A a \in Actor : pc[a] = "idle"

(* MigrationSlot without cardinalities, and with the type of the queue,    *)
(* whose positions move when a task is taken.                              *)
SlotInv ==
    /\ queue \in Seq(Posted)
    /\ \A x, y \in Migrating : x = y
    /\ isDataMigrationing <=> Migrating # {}

(* The three places of a migration.                                        *)
LEMMA InMigrating ==
    /\ \A t \in Thread : <<"call", t>> \in Migrating <=> pc[t] = "post"
    /\ \A i \in DOMAIN queue : <<"queue", i>> \in Migrating <=> queue[i] = Migration
    /\ <<"handler", 0>> \in Migrating <=> pc[Handler] \in MigrationLabel
    /\ \A x \in Migrating :
        \/ \E t \in Thread : x = <<"call", t>> /\ pc[t] = "post"
        \/ \E i \in DOMAIN queue : x = <<"queue", i>> /\ queue[i] = Migration
        \/ x = <<"handler", 0>> /\ pc[Handler] \in MigrationLabel
BY DEF Migrating, At, MigrationLabel

(* A cleanup is not a migration.                                           *)
LEMMA PostedTypes ==
    /\ Migration \in Posted /\ Migration.type = "migration"
    /\ \A users \in SUBSET User :
        Cleanup(users) \in Posted /\ Cleanup(users) # Migration
    /\ \A x \in Posted : /\ x.type \in {"migration", "cleanup"} /\ x.users \subseteq User
                         /\ x.type = "migration" <=> x = Migration
<1>1. /\ Migration.type = "migration" /\ Migration.users = {}
      /\ \A users : Cleanup(users).type = "cleanup" /\ Cleanup(users).users = users
    BY DEF Migration, Cleanup
<1> QED
    BY <1>1 DEF Posted

(* A step that moves no migration.                                         *)
LEMMA SameSlot ==
    ASSUME SlotInv, UNCHANGED <<queue, isDataMigrationing>>,
           \A t \in Thread : pc'[t] = "post" <=> pc[t] = "post",
           pc'[Handler] \in MigrationLabel <=> pc[Handler] \in MigrationLabel
    PROVE  SlotInv'
<1>1. Migrating' = Migrating
    BY DEF Migrating, At, MigrationLabel
<1> QED
    BY <1>1 DEF SlotInv

(* An actor that moves without a migration.                                *)
LEMMA SlotMove ==
    ASSUME Types, SlotInv, NEW a \in Actor, NEW label, pc' = [pc EXCEPT ![a] = label],
           a \in Thread => label # "post" /\ pc[a] # "post",
           a = Handler => (label \in MigrationLabel <=> pc[a] \in MigrationLabel),
           UNCHANGED <<queue, isDataMigrationing>>
    PROVE  SlotInv'
<1>1. pc'[a] = label /\ \A b \in Actor : b # a => pc'[b] = pc[b]
    BY DEF Types
<1>2. Thread \subseteq Actor /\ Handler \in Actor /\ Handler \notin Thread
    BY ServerAssumption DEF Actor
<1> QED
    BY <1>1, <1>2, SameSlot DEF Actor

(* The thread that sets the flag takes the slot.                           *)
LEMMA SlotTaken ==
    ASSUME Types, SlotInv, NEW t \in Thread, DataMigration(t)
    PROVE  SlotInv'
<1> DEFINE label == IF isDataMigrationing THEN "out" ELSE "post"
<1>1. /\ pc' = [pc EXCEPT ![t] = label] /\ pc[t] = "body" /\ t \in Actor
      /\ isDataMigrationing' = TRUE /\ queue' = queue
    BY DEF DataMigration, Go, Calling, At, handler, Actor
<1>2. CASE isDataMigrationing
    BY <1>1, <1>2, SlotMove, ServerAssumption DEF Types
<1>3. CASE ~isDataMigrationing
    <2>1. Migrating = {}
        BY <1>3 DEF SlotInv
    <2>2. /\ pc'[t] = "post" /\ pc'[Handler] = pc[Handler]
          /\ \A s \in Thread : s # t => pc'[s] = pc[s]
        BY <1>1, <1>3, ServerAssumption DEF Types, Actor
    <2>3. Migrating' = {<<"call", t>>}
        BY <1>1, <2>1, <2>2 DEF Migrating, At
    <2> QED
        BY <1>1, <2>3 DEF SlotInv
<1> QED
    BY <1>2, <1>3

(* It gives the slot to the queue, or up when the task cannot be posted.   *)
LEMMA SlotPosted ==
    ASSUME Types, SlotInv, NEW t \in Thread, PostMigration(t)
    PROVE  SlotInv'
<1>1. pc' = [pc EXCEPT ![t] = "out"] /\ pc[t] = "post"
    BY DEF PostMigration, Go, At
<1>2. /\ pc'[t] = "out" /\ pc'[Handler] = pc[Handler]
      /\ \A s \in Thread : s # t => pc'[s] = pc[s]
    BY <1>1, ServerAssumption DEF Types, Actor
<1>3. <<"call", t>> \in Migrating
    BY <1>1, InMigrating
<1>4. /\ \A s \in Thread : pc[s] = "post" => s = t
      /\ \A i \in DOMAIN queue : queue[i] # Migration
      /\ pc[Handler] \notin MigrationLabel /\ isDataMigrationing
    BY <1>3, InMigrating DEF SlotInv
<1>5. CASE queue' = Append(queue, Migration) /\ UNCHANGED isDataMigrationing
    <2>1. /\ queue \in Seq(Posted) /\ queue' \in Seq(Posted)
          /\ DOMAIN queue' = DOMAIN queue \cup {Len(queue) + 1}
          /\ Len(queue) + 1 \notin DOMAIN queue
          /\ queue'[Len(queue) + 1] = Migration
          /\ \A i \in DOMAIN queue : queue'[i] = queue[i]
        BY <1>5, PostedTypes DEF SlotInv
    <2>2. Migrating' = {<<"queue", Len(queue) + 1>>}
        BY <1>2, <1>4, <2>1 DEF Migrating, At, MigrationLabel
    <2> QED
        BY <1>4, <1>5, <2>1, <2>2 DEF SlotInv
<1>6. CASE isDataMigrationing' = FALSE /\ UNCHANGED queue
    <2>1. Migrating' = {}
        BY <1>2, <1>4, <1>6 DEF Migrating, At, MigrationLabel
    <2> QED
        BY <1>6, <2>1 DEF SlotInv
<1> QED
    BY <1>5, <1>6 DEF PostMigration

(* The handler takes the slot with the task; a cleanup in front of it      *)
(* moves it up.                                                            *)
LEMMA SlotTask ==
    ASSUME Types, SlotInv, TakeTask
    PROVE  SlotInv'
<1>1. /\ pc[Handler] = "idle" /\ queue' = Tail(queue) /\ queue # <<>>
      /\ isDataMigrationing' = isDataMigrationing
    BY DEF TakeTask, At, flags
<1>2. /\ queue' \in Seq(Posted) /\ 1 \in DOMAIN queue /\ queue[1] = Head(queue)
      /\ \A i \in DOMAIN queue' : i + 1 \in DOMAIN queue /\ queue'[i] = queue[i + 1]
      /\ \A i \in DOMAIN queue : i # 1 => i - 1 \in DOMAIN queue' /\ queue'[i - 1] = queue[i]
      /\ Head(queue) \in Posted /\ DOMAIN queue \subseteq Nat /\ DOMAIN queue' \subseteq Nat
    BY <1>1 DEF SlotInv
<1>3. CASE Head(queue).type = "migration" /\ Go(Handler, "remove")
    <2>1. /\ pc'[Handler] = "remove" /\ \A t \in Thread : pc'[t] = pc[t]
        BY <1>3, ServerAssumption DEF Go, Types, Actor
    <2>2. <<"queue", 1>> \in Migrating
        BY <1>2, <1>3, PostedTypes, InMigrating
    <2>3. /\ \A t \in Thread : pc[t] # "post"
          /\ \A i \in DOMAIN queue : queue[i] = Migration => i = 1
          /\ isDataMigrationing
        BY <2>2, InMigrating DEF SlotInv
    <2>4. \A i \in DOMAIN queue' : i + 1 # 1 /\ queue'[i] # Migration
        BY <1>2, <2>3
    <2>5. Migrating' = {<<"handler", 0>>}
        BY <2>1, <2>3, <2>4 DEF Migrating, At
    <2> QED
        BY <1>1, <1>2, <2>3, <2>5 DEF SlotInv
<1>4. CASE Head(queue).type = "cleanup" /\ UNCHANGED control
    <2>1. pc' = pc
        BY <1>4 DEF control
    <2>2. queue[1] # Migration
        BY <1>2, <1>4, PostedTypes
    <2> DEFINE Back(x) == IF x[1] = "queue" THEN <<"queue", x[2] + 1>> ELSE x
    <2>3. ASSUME NEW x \in Migrating' PROVE Back(x) \in Migrating
        <3>1. CASE \E t \in Thread : x = <<"call", t>> /\ pc[t] = "post"
            BY <3>1, InMigrating
        <3>2. CASE \E i \in DOMAIN queue' : x = <<"queue", i>> /\ queue'[i] = Migration
            BY <1>2, <3>2, InMigrating
        <3>3. CASE x = <<"handler", 0>> /\ pc[Handler] \in MigrationLabel
            BY <3>3, InMigrating
        <3> QED
            BY <2>1, <3>1, <3>2, <3>3 DEF Migrating, At, MigrationLabel
    <2>4. ASSUME NEW x \in Migrating', NEW y \in Migrating', Back(x) = Back(y) PROVE x = y
        <3>1. \A z \in Migrating' :
                \/ z[1] # "queue"
                \/ z[1] = "queue" /\ z = <<"queue", z[2]>> /\ z[2] \in Nat
            BY <1>2 DEF Migrating
        <3>2. CASE x[1] = "queue" /\ y[1] = "queue"
            <4>1. x[2] + 1 = y[2] + 1
                BY <2>4, <3>2
            <4> QED
                BY <3>1, <3>2, <4>1
        <3>3. CASE x[1] # "queue" \/ y[1] # "queue"
            BY <2>4, <3>3
        <3> QED
            BY <3>2, <3>3
    <2>5. ASSUME NEW x \in Migrating PROVE Migrating' # {}
        <3>1. CASE \E t \in Thread : x = <<"call", t>> /\ pc[t] = "post"
            BY <2>1, <3>1 DEF Migrating, At
        <3>2. CASE \E i \in DOMAIN queue : x = <<"queue", i>> /\ queue[i] = Migration
            <4>1. PICK i \in DOMAIN queue : queue[i] = Migration
                BY <3>2
            <4>2. i - 1 \in DOMAIN queue' /\ queue'[i - 1] = Migration
                BY <1>2, <2>2, <4>1
            <4>3. <<"queue", i - 1>> \in Migrating'
                BY <4>2 DEF Migrating
            <4> QED
                BY <4>3
        <3>3. CASE x = <<"handler", 0>> /\ pc[Handler] \in MigrationLabel
            BY <2>1, <3>3 DEF Migrating, MigrationLabel
        <3> QED
            BY <3>1, <3>2, <3>3, InMigrating
    <2> HIDE DEF Back
    <2>6. /\ \A x, y \in Migrating' : x = y
          /\ Migrating' # {} => Migrating # {}
        BY <2>3, <2>4 DEF SlotInv
    <2> QED
        BY <1>1, <1>2, <2>5, <2>6 DEF SlotInv
<1> QED
    BY <1>3, <1>4 DEF TakeTask

(* The end of the migration gives the slot back.                           *)
LEMMA SlotFreed ==
    ASSUME Types, SlotInv, FinishMigration
    PROVE  SlotInv'
<1>1. /\ pc[Handler] = "reset" /\ pc' = [pc EXCEPT ![Handler] = "add"]
      /\ isDataMigrationing' = FALSE /\ queue' = queue
    BY DEF FinishMigration, At, GoRead, handler
<1>2. pc'[Handler] = "add" /\ \A t \in Thread : pc'[t] = pc[t]
    BY <1>1, ServerAssumption DEF Types, Actor
<1>3. <<"handler", 0>> \in Migrating
    BY <1>1, InMigrating DEF MigrationLabel
<1>4. /\ \A s \in Thread : pc[s] # "post"
      /\ \A i \in DOMAIN queue : queue[i] # Migration
    BY <1>3, InMigrating DEF SlotInv
<1>5. Migrating' = {}
    BY <1>1, <1>2, <1>4 DEF Migrating, At
<1> QED
    BY <1>1, <1>5 DEF SlotInv

(* A cleanup is posted behind what waits.                                  *)
LEMMA SlotCleanup ==
    ASSUME SlotInv, NEW users \in SUBSET User, queue' = Append(queue, Cleanup(users)),
           UNCHANGED <<pc, isDataMigrationing>>
    PROVE  SlotInv'
<1>1. /\ queue \in Seq(Posted) /\ queue' \in Seq(Posted)
      /\ DOMAIN queue' = DOMAIN queue \cup {Len(queue) + 1}
      /\ queue'[Len(queue) + 1] # Migration
      /\ \A i \in DOMAIN queue : queue'[i] = queue[i]
    BY PostedTypes DEF SlotInv
<1>2. {i \in DOMAIN queue' : queue'[i] = Migration}
        = {i \in DOMAIN queue : queue[i] = Migration}
    BY <1>1
<1>3. Migrating' = Migrating
    BY <1>2 DEF Migrating, At
<1> QED
    BY <1>1, <1>3 DEF SlotInv

(* The post may fail.                                                      *)
LEMMA CleanupPosted ==
    ASSUME SlotInv, NEW users \in SUBSET User, PostCleanup(users),
           UNCHANGED <<pc, isDataMigrationing>>
    PROVE  SlotInv'
<1>1. CASE UNCHANGED queue
    BY <1>1, SameSlot
<1>2. CASE queue' = Append(queue, Cleanup(users))
    BY <1>2, SlotCleanup
<1> QED
    BY <1>1, <1>2 DEF PostCleanup

(* An empty slot: nothing is posted but a cleanup, no thread migrates.     *)
LEMMA EmptySlot ==
    ASSUME queue \in Seq(Posted), \A i \in DOMAIN queue : queue[i] # Migration,
           ~isDataMigrationing, \A a \in Actor : pc[a] = "idle"
    PROVE  SlotInv
<1>1. Migrating = {}
    BY DEF Migrating, At, Actor
<1> QED
    BY <1>1 DEF SlotInv

(* Steps of threads and of the handler that move no migration.             *)
LEMMA SlotSteps ==
    ASSUME Inv, SlotInv, NEW t \in Thread,
           \/ Step(t) \/ (ThreadStep(t) /\ ~DataMigration(t) /\ ~PostMigration(t))
           \/ \E token \in Token : OnClientDied(t, token)
           \/ \E method \in Method, b \in Binder : Call(t, method, b)
    PROVE  SlotInv'
<1>1. t \in Actor /\ t # Handler /\ Types /\ Places
    BY ServerAssumption DEF Actor, Inv
<1>2. Done(t) \in {"out", "idle"}
    BY DEF Done
<1>3. UNCHANGED <<queue, isDataMigrationing>>
    BY DEF Step, RemoveUnloadFontServiceTask, ReadNext, PostUnloadTask, ThreadStep,
           CountIn, CountOut, NoEffect, OnFontObserver, OffFontObserver,
           InstallScopeFont, InsertAppFont, CleanupAppScopeFonts, NotifyClientDied,
           OnClientDied, Call, flags, handler
<1>4. CASE UNCHANGED pc
    BY <1>3, <1>4, SameSlot
<1>5. CASE ~UNCHANGED pc
    <2>1. \/ Step(t) /\ pc[t] \in {"remove", "add", "unload"}
          \/ pc[t] \in {"in", "out", "body", "insert", "idle"}
          \/ NotifyClientDied(t) /\ pc[t] = "ending"
        BY <1>1, <1>5 DEF Step, RemoveUnloadFontServiceTask, ReadNext, PostUnloadTask,
           ThreadStep, CountIn, CountOut, NoEffect, OnFontObserver, OffFontObserver,
           InstallScopeFont, InsertAppFont, CleanupAppScopeFonts, NotifyClientDied,
           Registry!NotifyClientDied, OnClientDied, Call, Calling, At, control, Places
    <2>2. PICK label \in {"in", "body", "add", "out", "ending", "insert", "idle", "remove",
                          "unload"} : pc' = [pc EXCEPT ![t] = label]
        BY <1>1, <1>2, <1>5, <2>1 DEF Step, RemoveUnloadFontServiceTask, ReadNext, PostUnloadTask,
           ThreadStep, CountIn, CountOut, NoEffect, OnFontObserver, OffFontObserver,
           InstallScopeFont, InsertAppFont, CleanupAppScopeFonts, NotifyClientDied,
           OnClientDied, Call, Go, GoRead, control
    <2>3. pc[t] # "post"
        BY <2>1
    <2> QED
        BY <1>1, <1>3, <2>2, <2>3, SlotMove
<1> QED
    BY <1>4, <1>5

(* Steps of the handler that move no migration.                            *)
LEMMA SlotHandler ==
    ASSUME Types, SlotInv,
           \/ Step(Handler) \/ Migrate \/ UnloadFontService \/ TakeUnloadTask
    PROVE  SlotInv'
<1>1. Handler \in Actor /\ Handler \notin Thread /\ Done(Handler) = "idle"
    BY ServerAssumption DEF Actor, Done
<1>2. UNCHANGED <<queue, isDataMigrationing>>
    BY DEF Step, RemoveUnloadFontServiceTask, ReadNext, PostUnloadTask, Migrate,
           UnloadFontService, TakeUnloadTask, flags, handler
<1>3. PICK label : /\ pc' = [pc EXCEPT ![Handler] = label]
                   /\ label \in MigrationLabel <=> pc[Handler] \in MigrationLabel
    BY <1>1 DEF Step, RemoveUnloadFontServiceTask, ReadNext, PostUnloadTask, Migrate,
           UnloadFontService, TakeUnloadTask, Go, GoRead, At, MigrationLabel
<1> QED
    BY <1>1, <1>2, <1>3, SlotMove

(* Starts, stops and the events of users and processes.                    *)
LEMMA SlotOther ==
    ASSUME StoppedInv, SlotInv,
           \/ \E users \in StartsFor : OnStart(users)
           \/ \E user \in User : OnUserStopping(user)
           \/ \E b \in Binder : Die(b)
           \/ Stop \/ UNCHANGED vars
    PROVE  SlotInv'
<1>1. ASSUME NEW user \in User, OnUserStopping(user) PROVE SlotInv'
    <2>1. UNCHANGED <<pc, isDataMigrationing>> /\ PostCleanup({user})
        BY <1>1 DEF OnUserStopping, flags, control
    <2> QED
        BY <2>1, CleanupPosted
<1>2. CASE (\E b \in Binder : Die(b)) \/ UNCHANGED vars
    BY <1>2, SameSlot DEF Die, vars, flags, handler, control
<1>3. CASE Stop
    <2>1. queue' = <<>> /\ ~isDataMigrationing' /\ \A a \in Actor : pc'[a] = "idle"
        BY <1>3 DEF Stop
    <2>2. queue' \in Seq(Posted) /\ \A i \in DOMAIN queue' : queue'[i] # Migration
        BY <2>1
    <2>3. Migrating' = {}
        BY <2>1, <2>2 DEF Migrating, At, Actor
    <2> QED
        BY <2>1, <2>2, <2>3 DEF SlotInv
<1>4. ASSUME NEW users \in StartsFor, OnStart(users) PROVE SlotInv'
    <2>1. UNCHANGED <<pc, isDataMigrationing>> /\ PostCleanup(users)
        BY <1>4 DEF OnStart, flags, control
    <2> QED
        BY <2>1, CleanupPosted, ServerAssumption
<1> QED
    BY <1>1, <1>2, <1>3, <1>4

(* A service that is stopped is not woken by its threads.                  *)
LEMMA StoppedNext ==
    ASSUME Inv, StoppedInv, [Next]_vars
    PROVE  StoppedInv'
<1>1. SUFFICES ASSUME service' = "stopped" PROVE StoppedInv'
    BY DEF StoppedInv
<1>2. CASE Stop
    BY <1>2 DEF Stop, StoppedInv
<1>3. CASE ~Stop
    <2>1. service = "stopped" \/ UnloadFontService
        BY <1>1, <1>3 DEF Next, Step, ThreadStep, HandlerStep, vars,
           RemoveUnloadFontServiceTask, ReadNext, PostUnloadTask, Migrate, FinishMigration,
           TakeTask, TakeUnloadTask, OnStart, OnUserStopping, Die,
           CountIn, CountOut, NoEffect, OnFontObserver, OffFontObserver,
           InstallScopeFont, InsertAppFont, DataMigration, PostMigration,
           CleanupAppScopeFonts, NotifyClientDied, OnClientDied, Call
    <2>2. service = "stopped"
        BY <1>1, <2>1 DEF UnloadFontService
    <2>3. /\ queue = <<>> /\ unloads = 0 /\ ~isDataMigrationing
          /\ \A a \in Actor : pc[a] = "idle"
        BY <2>2 DEF StoppedInv
    <2>4. \A t \in Thread : task[t].step = "idle" /\ t \in Actor
        BY <2>3 DEF Inv, Places, Actor
    <2>5. \A t \in Thread : ~Step(t) /\ ~ThreadStep(t)
        BY <2>3, <2>4 DEF Step, ThreadStep, RemoveUnloadFontServiceTask, ReadNext, PostUnloadTask,
           CountIn, CountOut, NoEffect, OnFontObserver, OffFontObserver,
           InstallScopeFont, InsertAppFont, DataMigration, PostMigration, Calling, At,
           CleanupAppScopeFonts, NotifyClientDied, Registry!CleanupAppScopeFonts,
           Registry!NotifyClientDied
    <2>6. ~HandlerStep /\ ~TakeTask /\ ~TakeUnloadTask
        BY <2>3 DEF HandlerStep, Step, RemoveUnloadFontServiceTask, ReadNext, PostUnloadTask,
           Migrate, FinishMigration, UnloadFontService, TakeTask, TakeUnloadTask, At, Actor
    <2>7. \/ \E b \in Binder : Die(b)
          \/ UNCHANGED vars
        BY <1>1, <1>3, <2>2, <2>5, <2>6 DEF Next, Call, OnClientDied, OnStart, OnUserStopping
    <2>8. UNCHANGED <<queue, unloads, isDataMigrationing, pc>>
        BY <2>7 DEF Die, vars, flags, handler, control
    <2> QED
        BY <2>3, <2>8 DEF StoppedInv
<1> QED
    BY <1>2, <1>3

(* Every step keeps the slot.                                              *)
LEMMA SlotNext == Inv /\ StoppedInv /\ SlotInv /\ [Next]_vars => SlotInv'
<1> SUFFICES ASSUME Inv, StoppedInv, SlotInv, [Next]_vars PROVE SlotInv'
    OBVIOUS
<1>1. Types
    BY DEF Inv
<1>2. ASSUME NEW t \in Thread,
             \/ Step(t) \/ ThreadStep(t)
             \/ \E token \in Token : OnClientDied(t, token)
             \/ \E method \in Method, b \in Binder : Call(t, method, b)
      PROVE  SlotInv'
    BY <1>1, <1>2, SlotSteps, SlotTaken, SlotPosted
<1>3. CASE HandlerStep \/ TakeTask \/ TakeUnloadTask
    BY <1>1, <1>3, SlotHandler, SlotTask, SlotFreed DEF HandlerStep
<1> QED
    BY <1>2, <1>3, SlotOther DEF Next

(* The service begins stopped, with the slot empty.                        *)
LEMMA SlotInit == Init => StoppedInv /\ SlotInv
<1> SUFFICES ASSUME Init PROVE StoppedInv /\ SlotInv
    OBVIOUS
<1>1. queue = <<>> /\ ~isDataMigrationing /\ \A a \in Actor : pc[a] = "idle"
    BY DEF Init
<1>2. queue \in Seq(Posted) /\ \A i \in DOMAIN queue : queue[i] # Migration
    BY <1>1
<1> QED
    BY <1>1, <1>2, EmptySlot DEF Init, StoppedInv

(* What holds the slot is counted.                                         *)
LEMMA SlotCounts == SlotInv => MigrationSlot
<1> SUFFICES ASSUME SlotInv PROVE MigrationSlot
    OBVIOUS
<1>1. CASE isDataMigrationing
    <2>1. PICK x : Migrating = {x}
        BY <1>1 DEF SlotInv
    <2>2. Cardinality({x}) = 1
        BY FS_Singleton
    <2> QED
        BY <1>1, <2>1, <2>2 DEF MigrationSlot
<1>2. CASE ~isDataMigrationing
    <2>1. Migrating = {}
        BY <1>2 DEF SlotInv
    <2> QED
        BY <1>2, <2>1, FS_EmptySet DEF MigrationSlot
<1> QED
    BY <1>1, <1>2

(* The state in which the service's life can be reasoned about.            *)
LEMMA ServerInvariant == Spec => [](Inv /\ StoppedInv /\ SlotInv)
<1>1. Init => Inv /\ StoppedInv /\ SlotInv
    BY InvInit, SlotInit
<1>2. (Inv /\ StoppedInv /\ SlotInv) /\ [Next]_vars => (Inv /\ StoppedInv /\ SlotInv)'
    BY InvNext, StoppedNext, SlotNext
<1> QED
    BY <1>1, <1>2, PTL DEF Spec

(* At most one migration is on its way, and isDataMigrationing_ is set     *)
(* exactly as long as it is: the exchange in DataMigration admits one      *)
(* caller, a failing post gives the flag back, and the task resets it at   *)
(* its end; no start, stop, or cleanup of users loses or doubles it.       *)
THEOREM OneMigration == Spec => []MigrationSlot
<1>1. Inv /\ StoppedInv /\ SlotInv => MigrationSlot
    BY SlotCounts
<1> QED
    BY <1>1, ServerInvariant, PTL

-----------------------------------------------------------------------------
(* The registry inside the service.  Every step of the server is a step of *)
(* ClientRegistry or leaves it alone, until the process ends.              *)
Clients == INSTANCE ClientRegistry_proofs

RegistryInv == Clients!NoticeInv /\ Clients!MapsAgree /\ Clients!WithinUserLimit

(* The actions of the two instances are the same.                          *)
LEMMA SameRegistry ==
    /\ \A b : Registry!RegisterClient(b) => Clients!RegisterClient(b)
    /\ \A b : Registry!Die(b) => Clients!Die(b)
    /\ \A t, token : Registry!UnregisterClient(t, token) => Clients!UnregisterClient(t, token)
    /\ \A t, token : Registry!OnClientDied(t, token) => Clients!OnClientDied(t, token)
    /\ \A t : Registry!CleanupAppScopeFonts(t) => Clients!CleanupAppScopeFonts(t)
    /\ \A t : Registry!NotifyClientDied(t) => Clients!NotifyClientDied(t)
<1> USE DEF Registry!IsClientRegistered, Clients!IsClientRegistered, Registry!Idle, Clients!Idle,
        Registry!maps, Clients!maps, Registry!Erase, Clients!Erase,
        Registry!CleanUpAfter, Clients!CleanUpAfter
<1>1. \A b : Registry!RegisterClient(b) => Clients!RegisterClient(b)
    BY DEF Registry!RegisterClient, Clients!RegisterClient, Registry!Cardinality,
           Clients!Cardinality, Cardinality
<1>2. \A b : Registry!Die(b) => Clients!Die(b)
    BY DEF Registry!Die, Clients!Die
<1>3. \A t, token : Registry!UnregisterClient(t, token) => Clients!UnregisterClient(t, token)
    BY DEF Registry!UnregisterClient, Clients!UnregisterClient
<1>4. \A t, token : Registry!OnClientDied(t, token) => Clients!OnClientDied(t, token)
    BY DEF Registry!OnClientDied, Clients!OnClientDied
<1>5. \A t : Registry!CleanupAppScopeFonts(t) => Clients!CleanupAppScopeFonts(t)
    BY DEF Registry!CleanupAppScopeFonts, Clients!CleanupAppScopeFonts
<1>6. \A t : Registry!NotifyClientDied(t) => Clients!NotifyClientDied(t)
    BY DEF Registry!NotifyClientDied, Clients!NotifyClientDied
<1> QED
    BY <1>1, <1>2, <1>3, <1>4, <1>5, <1>6

(* The caller of a call in progress is an application.                     *)
LEMMA CallerIsToken ==
    ASSUME Inv, NEW t \in Thread, pc[t] \in {"body", "insert"}
    PROVE  call[t].binder \in Binder /\ Caller(t) \in Token
<1>1. call[t] \in CallType /\ call[t] # NoCall
    BY DEF Inv, Types, Places
<1> QED
    BY <1>1, ServerAssumption DEF CallType, Caller

(* A step of the server is one of the registry.                            *)
LEMMA RegistryStep ==
    ASSUME Inv, [Next]_vars, ~Stop
    PROVE  [Clients!Next]_(Clients!vars)
<1> USE DEF Clients!vars, Clients!maps, registryVars
<1>1. ASSUME NEW t \in Thread, OnFontObserver(t) \/ OffFontObserver(t)
      PROVE  [Clients!Next]_(Clients!vars)
    <2>1. pc[t] = "body"
        BY <1>1 DEF OnFontObserver, OffFontObserver, Calling, At
    <2>2. call[t].binder \in Binder /\ Caller(t) \in Token
        BY <2>1, CallerIsToken
    <2>3. CASE UNCHANGED registryVars
        BY <2>3
    <2>4. CASE Registry!RegisterClient(call[t].binder)
        BY <2>2, <2>4, SameRegistry DEF Clients!Next
    <2>5. CASE Registry!UnregisterClient(t, Caller(t))
        BY <2>2, <2>5, SameRegistry DEF Clients!Next
    <2> QED
        BY <1>1, <2>3, <2>4, <2>5 DEF OnFontObserver, OffFontObserver
<1>2. ASSUME NEW t \in Thread, NEW token \in Token, OnClientDied(t, token)
      PROVE  [Clients!Next]_(Clients!vars)
    BY <1>2, SameRegistry DEF OnClientDied, Clients!Next
<1>3. ASSUME NEW t \in Thread, CleanupAppScopeFonts(t) \/ NotifyClientDied(t)
      PROVE  [Clients!Next]_(Clients!vars)
    BY <1>3, SameRegistry DEF CleanupAppScopeFonts, NotifyClientDied, Clients!Next
<1>4. ASSUME NEW b \in Binder, Die(b)
      PROVE  [Clients!Next]_(Clients!vars)
    BY <1>4, SameRegistry DEF Die, Clients!Next
<1>5. ASSUME NEW t \in Thread,
             \/ Step(t) \/ CountIn(t) \/ CountOut(t) \/ NoEffect(t)
             \/ InstallScopeFont(t) \/ InsertAppFont(t) \/ DataMigration(t) \/ PostMigration(t)
             \/ \E method \in Method, b \in Binder : Call(t, method, b)
      PROVE  UNCHANGED registryVars
    BY <1>5 DEF Step, RemoveUnloadFontServiceTask, ReadNext, PostUnloadTask, CountIn, CountOut,
       NoEffect, InstallScopeFont, InsertAppFont, DataMigration, PostMigration, Call
<1>6. ASSUME \/ HandlerStep \/ TakeTask \/ TakeUnloadTask
             \/ \E users \in StartsFor : OnStart(users)
             \/ \E user \in User : OnUserStopping(user)
             \/ UNCHANGED vars
      PROVE  UNCHANGED registryVars
    BY <1>6 DEF HandlerStep, Step, RemoveUnloadFontServiceTask, ReadNext, PostUnloadTask, Migrate,
       FinishMigration, UnloadFontService, TakeTask, TakeUnloadTask, OnStart, OnUserStopping, vars
<1> HIDE DEF registryVars, Clients!vars
<1>7. UNCHANGED registryVars => UNCHANGED Clients!vars
    BY DEF registryVars, Clients!vars
<1> QED
    BY <1>1, <1>2, <1>3, <1>4, <1>5, <1>6, <1>7 DEF Next, ThreadStep

(* The registry as the process that starts finds it.                       *)
NoClients ==
    /\ clients = << >> /\ userClients = [u \in User |-> {}]
    /\ recipients = [b \in Binder |-> 0] /\ notices = [token \in Token |-> 0]
    /\ task = [t \in Thread |-> Registry!Idle] /\ alive \subseteq Binder

(* An empty registry keeps all that a registry promises.                   *)
LEMMA EmptyRegistry == NoClients => RegistryInv
<1> SUFFICES ASSUME NoClients PROVE RegistryInv
    OBVIOUS
<1> USE DEF NoClients
<1>1. DOMAIN clients = {} /\ clients \in [DOMAIN clients -> Binder]
    OBVIOUS
<1>2. Clients!NoticeInv
    BY <1>1 DEF Clients!NoticeInv, Clients!TypeOK, Clients!OwnBinder, Clients!DeadIsNoticed,
           Registry!Idle
<1>3. Clients!MapsAgree
    BY <1>1 DEF Clients!MapsAgree
<1>4. Clients!WithinUserLimit
    <2>1. \A user \in User : userClients[user] = {}
        OBVIOUS
    <2>2. 0 <= MaxScopeFontAppNum
        BY ServerAssumption
    <2> QED
        BY <2>1, <2>2, FS_EmptySet DEF Clients!WithinUserLimit, Clients!Cardinality, Cardinality
<1> QED
    BY <1>2, <1>3, <1>4 DEF RegistryInv

(* The end of the process empties the registry.                            *)
LEMMA StopRegistry == Stop /\ alive \subseteq Binder => RegistryInv'
<1>1. Stop /\ alive \subseteq Binder => NoClients'
    BY DEF Stop, NoClients, Registry!Idle
<1> QED
    BY <1>1, EmptyRegistry, PTL

(* Every step of the server keeps what the registry promises.              *)
LEMMA RegistryNext == Inv /\ RegistryInv /\ [Next]_vars => RegistryInv'
<1> SUFFICES ASSUME Inv, RegistryInv, [Next]_vars PROVE RegistryInv'
    OBVIOUS
<1> USE ServerAssumption DEF Clients!IsFiniteSet, IsFiniteSet
<1>1. CASE Stop
    <2>1. alive \subseteq Binder
        BY DEF RegistryInv, Clients!NoticeInv, Clients!TypeOK
    <2> QED
        BY <1>1, <2>1, StopRegistry
<1>2. CASE ~Stop
    <2>1. [Clients!Next]_(Clients!vars)
        BY <1>2, RegistryStep
    <2>2. Clients!NoticeInv'
        BY <2>1, Clients!NextNotice DEF RegistryInv
    <2>3. Clients!LimitInv
        BY DEF RegistryInv, Clients!NoticeInv, Clients!LimitInv
    <2>4. Clients!MapsAgree' /\ Clients!WithinUserLimit'
        BY <2>1, <2>3, Clients!NextLimit
    <2> QED
        BY <2>2, <2>4 DEF RegistryInv
<1> QED
    BY <1>1, <1>2

(* The registry begins empty.                                              *)
LEMMA RegistryInit == Init => RegistryInv
<1>1. Init => NoClients
    BY DEF Init, Registry!Init, NoClients
<1> QED
    BY <1>1, EmptyRegistry

(* The server keeps it in every state.                                     *)
LEMMA RegistryInvariant == Spec => []RegistryInv
BY ServerInvariant, RegistryInit, RegistryNext, PTL DEF Spec

(* What the registry promises it keeps inside the service, across stops    *)
(* and crashes that lose its maps and recipients: a registered client is   *)
(* watched or its notice on its way, the maps agree, no user is over its   *)
(* limit (ClientRegistry as the server's calls, its death notices and its  *)
(* tasks drive it).                                                        *)
THEOREM RegistryIsKept ==
    Spec => [](Registry!DeadIsNoticed /\ Registry!MapsAgree /\ Registry!WithinUserLimit)
<1>1. RegistryInv
        => Registry!DeadIsNoticed /\ Registry!MapsAgree /\ Registry!WithinUserLimit
    BY DEF RegistryInv, Clients!NoticeInv, Clients!DeadIsNoticed, Registry!DeadIsNoticed,
           Clients!MapsAgree, Registry!MapsAgree, Clients!WithinUserLimit,
           Registry!WithinUserLimit, Registry!Cardinality, Clients!Cardinality
<1> QED
    BY <1>1, RegistryInvariant, PTL

-----------------------------------------------------------------------------
(* The types of the server: what the invariants above leave of TypeOK.     *)
RestTypes ==
    /\ unloads \in Nat /\ appFonts \subseteq Token
    /\ service \in {"stopped", "running", "unloading"}

(* No unload task is taken that was not posted, and fonts of application   *)
(* scope are those of applications.                                        *)
LEMMA RestTypesNext == Inv /\ RestTypes /\ [Next]_vars => RestTypes'
<1> SUFFICES ASSUME Inv, RestTypes, [Next]_vars PROVE RestTypes'
    OBVIOUS
<1>1. ASSUME NEW t \in Thread, InsertAppFont(t) PROVE RestTypes'
    <2>1. Caller(t) \in Token
        BY <1>1, CallerIsToken DEF InsertAppFont, At
    <2> QED
        BY <1>1, <2>1 DEF InsertAppFont, handler, RestTypes
<1>2. ASSUME NEW a, Step(a) PROVE RestTypes'
    BY <1>2 DEF Step, RemoveUnloadFontServiceTask, ReadNext, PostUnloadTask, handler, RestTypes
<1>3. ASSUME NEW t \in Thread, ThreadStep(t), ~InsertAppFont(t) PROVE RestTypes'
    BY <1>3 DEF ThreadStep, CountIn, CountOut, NoEffect, OnFontObserver, OffFontObserver,
       InstallScopeFont, DataMigration, PostMigration, CleanupAppScopeFonts, NotifyClientDied,
       handler, RestTypes
<1>4. ASSUME NEW t \in Thread,
             \/ \E method \in Method, b \in Binder : Call(t, method, b)
             \/ \E token \in Token : OnClientDied(t, token)
      PROVE  RestTypes'
    BY <1>4 DEF Call, OnClientDied, handler, RestTypes
<1>5. CASE HandlerStep \/ TakeTask \/ TakeUnloadTask
    BY <1>2, <1>5 DEF HandlerStep, Migrate, FinishMigration, UnloadFontService, TakeTask,
       TakeUnloadTask, handler, RestTypes
<1>6. ASSUME NEW users, OnStart(users) PROVE RestTypes'
    BY <1>6 DEF OnStart, RestTypes
<1>7. ASSUME NEW user, OnUserStopping(user) PROVE RestTypes'
    BY <1>7 DEF OnUserStopping, RestTypes
<1>8. CASE (\E b \in Binder : Die(b)) \/ UNCHANGED vars
    BY <1>8 DEF Die, vars, handler, RestTypes
<1>9. CASE Stop
    BY <1>9 DEF Stop, RestTypes
<1> QED
    BY <1>1, <1>2, <1>3, <1>4, <1>5, <1>6, <1>7, <1>8, <1>9 DEF Next

(* They hold in every state.                                               *)
LEMMA RestTypesHold == Spec => []RestTypes
<1>1. Init => RestTypes
    BY DEF Init, RestTypes
<1> QED
    BY <1>1, ServerInvariant, RestTypesNext, PTL DEF Spec

(* The variables of the server and of the registry inside it keep their    *)
(* types, whatever posts and unloads fail and whenever the process ends:   *)
(* callingCount_ never goes below zero (CallingCountGuard), and no         *)
(* recipient is taken from a binder that has none.                         *)
THEOREM ServerTypesCorrect == Spec => []TypeOK
<1>1. Inv /\ SlotInv /\ RegistryInv /\ RestTypes => TypeOK
    <2> SUFFICES ASSUME Inv, SlotInv, RegistryInv, RestTypes PROVE TypeOK
        OBVIOUS
    <2>1. Registry!TypeOK
        BY DEF RegistryInv, Clients!NoticeInv, Clients!TypeOK, Registry!TypeOK
    <2>2. queue \in Seq([type : {"migration", "cleanup"}, users : SUBSET User])
        <3>1. Posted \subseteq [type : {"migration", "cleanup"}, users : SUBSET User]
            BY DEF Posted, Migration, Cleanup
        <3>2. ASSUME NEW S, NEW T, S \subseteq T, NEW s \in Seq(S) PROVE s \in Seq(T)
            BY <3>2
        <3> QED
            BY <3>1, <3>2 DEF SlotInv
    <2>3. /\ callingCount \in Nat /\ isDataMigrationing \in BOOLEAN /\ fresh \in BOOLEAN
          /\ pc \in [Actor -> Label] /\ reads \in [Actor -> Reading]
          /\ call \in [Thread -> [method : Method, binder : Binder] \cup {NoCall}]
        BY DEF Inv, Types, CallType
    <2> QED
        BY <2>1, <2>2, <2>3 DEF RestTypes, TypeOK
<1> QED
    BY <1>1, RestTypesHold, ServerInvariant, RegistryInvariant, PTL
-----------------------------------------------------------------------------
(* The fonts of application scope.  Calls and death notices are served one *)
(* at a time, every start cleans up all users and can post the cleanup,    *)
(* and the user of a caller is always known.                               *)
OneAtATime ==
    /\ \A s, t \in Thread : s = t
    /\ StartsFor \subseteq {User} /\ "cleanup" \notin Fault
    /\ InvalidUser \notin User

(* Who answers for the fonts of an application.                            *)
Owned(token) ==
    \/ Registry!IsClientRegistered(token)
    \/ \E t \in Thread : task[t] = [step |-> "cleanup", token |-> token]
    \/ service = "stopped"
    \/ \E i \in DOMAIN queue : UserOf[token] \in queue[i].users

(* The check of InstallScopeFontInner still holds when the record is       *)
(* inserted.                                                               *)
OwnedInv ==
    /\ \A token \in appFonts : Owned(token)
    /\ \A t \in Thread : pc[t] = "insert" => Registry!IsClientRegistered(Caller(t))

(* A step that ends no registration, and takes no task.                    *)
LEMMA OwnedSame ==
    ASSUME OwnedInv, appFonts' \subseteq appFonts, DOMAIN clients \subseteq DOMAIN clients',
           UNCHANGED <<task, service, queue>>,
           \A t \in Thread : pc'[t] = "insert" =>
                \/ Registry!IsClientRegistered(Caller(t))'
                \/ pc[t] = "insert" /\ call'[t] = call[t]
    PROVE  OwnedInv'
<1>1. \A token \in appFonts' : Owned(token)'
    BY DEF OwnedInv, Owned, Registry!IsClientRegistered
<1>2. \A t \in Thread : pc'[t] = "insert" => Registry!IsClientRegistered(Caller(t))'
    BY DEF OwnedInv, Caller, Registry!IsClientRegistered
<1> QED
    BY <1>1, <1>2 DEF OwnedInv

(* The steps of the thread that neither insert a font nor end a client.    *)
LEMMA OwnedCalls ==
    ASSUME Inv, OwnedInv, NEW t \in Thread,
           \/ Step(t) \/ CountIn(t) \/ CountOut(t) \/ NoEffect(t)
           \/ InstallScopeFont(t) \/ OnFontObserver(t)
           \/ DataMigration(t) \/ (PostMigration(t) /\ UNCHANGED queue)
           \/ \E method \in Method, b \in Binder : Call(t, method, b)
    PROVE  OwnedInv'
<1>1. /\ Types /\ t \in Actor /\ Thread \subseteq Actor /\ Done(t) # "insert" /\ t # Handler
    BY ServerAssumption DEF Inv, Actor, Done
<1>2. UNCHANGED <<appFonts, service, queue>>
    BY DEF Step, RemoveUnloadFontServiceTask, ReadNext, PostUnloadTask, CountIn, CountOut,
       NoEffect, InstallScopeFont, OnFontObserver, DataMigration, PostMigration, Call, handler
<1>3. DOMAIN clients \subseteq DOMAIN clients' /\ task' = task
    <2>1. CASE OnFontObserver(t)
        BY <2>1 DEF OnFontObserver, Registry!RegisterClient, registryVars
    <2>2. CASE ~OnFontObserver(t)
        BY <2>2 DEF Step, RemoveUnloadFontServiceTask, ReadNext, PostUnloadTask, CountIn, CountOut,
           NoEffect, InstallScopeFont, DataMigration, PostMigration, Call, registryVars
    <2> QED
        BY <2>1, <2>2
<1>4. CASE InstallScopeFont(t)
    <2>1. call' = call /\ clients' = clients
        BY <1>4 DEF InstallScopeFont, Go, registryVars
    <2>2. pc'[t] = "insert" => Registry!IsClientRegistered(Caller(t))
        BY <1>1, <1>4 DEF InstallScopeFont, Go, Types
    <2>3. \A s \in Thread : s # t => pc'[s] = pc[s]
        BY <1>1, <1>4 DEF InstallScopeFont, Go, Types
    <2> QED
        BY <1>2, <1>3, <2>1, <2>2, <2>3, OwnedSame DEF Caller, Registry!IsClientRegistered
<1>5. CASE ~InstallScopeFont(t)
    <2>1. PICK label, c : /\ pc' = [pc EXCEPT ![t] = label]
                          /\ call' = [call EXCEPT ![t] = c]
                          /\ label # "insert"
        <3>1. call = [call EXCEPT ![t] = call[t]]
            BY <1>1 DEF Types
        <3> QED
            BY <1>1, <1>5, <3>1 DEF Step, RemoveUnloadFontServiceTask, ReadNext, PostUnloadTask,
               CountIn, CountOut, NoEffect, OnFontObserver, DataMigration, PostMigration, Call,
               Go, GoRead, At
    <2>2. \A s \in Thread : pc'[s] = "insert" => pc[s] = "insert" /\ call'[s] = call[s]
        BY <1>1, <2>1 DEF Types
    <2> QED
        BY <1>2, <1>3, <2>2, OwnedSame
<1> QED
    BY <1>4, <1>5

(* A new task in the queue takes no other one's place.                     *)
LEMMA OwnedPosted ==
    ASSUME SlotInv, OwnedInv, NEW x, queue' = Append(queue, x),
           UNCHANGED <<registryVars, service, appFonts, call>>,
           \A t \in Thread : pc'[t] = "insert" => pc[t] = "insert"
    PROVE  OwnedInv'
<1>1. /\ \A i \in DOMAIN queue : i \in DOMAIN queue' /\ queue'[i] = queue[i]
    BY DEF SlotInv
<1>2. UNCHANGED <<clients, task>>
    BY DEF registryVars
<1>3. \A token \in appFonts' : Owned(token)'
    BY <1>1, <1>2 DEF OwnedInv, Owned, Registry!IsClientRegistered
<1> QED
    BY <1>2, <1>3 DEF OwnedInv, Caller, Registry!IsClientRegistered

(* A registration that ends leaves its fonts to the thread that ends it.   *)
LEMMA OwnedErased ==
    ASSUME OneAtATime, Inv, OwnedInv, appFonts \subseteq Token, NEW t \in Thread,
           NEW token \in Token,
           task[t] = Registry!Idle, Registry!Erase(token), Registry!CleanUpAfter(t, token),
           UNCHANGED <<service, queue, appFonts>>, pc'[t] # "insert"
    PROVE  OwnedInv'
<1>1. \A s \in Thread : s = t
    BY DEF OneAtATime
<1>2. UserOf[token] # InvalidUser
    BY ServerAssumption DEF OneAtATime
<1>3. task'[t] = [step |-> "cleanup", token |-> token]
    BY <1>2 DEF Registry!CleanUpAfter, Inv, Types
<1>4. DOMAIN clients' = DOMAIN clients \ {token}
    BY DEF Registry!Erase
<1>5. ASSUME NEW other \in appFonts' PROVE Owned(other)'
    <2>1. CASE other = token
        BY <1>3, <2>1 DEF Owned
    <2>2. CASE other # token
        <3>1. task[t] # [step |-> "cleanup", token |-> other]
            BY DEF Registry!Idle
        <3>2. \/ Registry!IsClientRegistered(other) \/ service = "stopped"
              \/ \E i \in DOMAIN queue : UserOf[other] \in queue[i].users
            BY <1>1, <3>1 DEF OwnedInv, Owned
        <3> QED
            BY <1>4, <2>2, <3>2 DEF Owned, Registry!IsClientRegistered
    <2> QED
        BY <2>1, <2>2
<1> QED
    BY <1>1, <1>5 DEF OwnedInv

(* The end of a client, in its call or by its death notice.                *)
LEMMA OwnedEnds ==
    ASSUME OneAtATime, Inv, OwnedInv, appFonts \subseteq Token, NEW t \in Thread,
           OffFontObserver(t) \/ (\E token \in Token : OnClientDied(t, token))
    PROVE  OwnedInv'
<1>1. Types /\ t \in Actor /\ \A s \in Thread : s = t
    BY DEF Inv, Actor, OneAtATime
<1>2. UNCHANGED <<service, queue, appFonts>>
    BY DEF OffFontObserver, OnClientDied, handler
<1>3. pc'[t] # "insert"
    BY <1>1 DEF OffFontObserver, OnClientDied, Go, Types
<1>4. CASE UNCHANGED <<clients, task>>
    BY <1>1, <1>2, <1>3, <1>4, OwnedSame
<1>5. CASE OffFontObserver(t) /\ ~UNCHANGED <<clients, task>>
    <2>1. Registry!UnregisterClient(t, Caller(t)) /\ pc[t] = "body"
        BY <1>5 DEF OffFontObserver, Calling, At, registryVars
    <2>2. Caller(t) \in Token
        BY <2>1, CallerIsToken
    <2> QED
        BY <1>2, <1>3, <2>1, <2>2, OwnedErased DEF Registry!UnregisterClient
<1>6. ASSUME NEW token \in Token, OnClientDied(t, token), ~UNCHANGED <<clients, task>>
      PROVE  OwnedInv'
    <2>1. task[t] = Registry!Idle /\ Registry!Erase(token) /\ Registry!CleanUpAfter(t, token)
        BY <1>6 DEF OnClientDied, Registry!OnClientDied, Registry!maps
    <2> QED
        BY <1>2, <1>3, <2>1, OwnedErased
<1> QED
    BY <1>4, <1>5, <1>6

(* The thread that ended a client removes its fonts before it goes on.     *)
LEMMA OwnedTasks ==
    ASSUME OneAtATime, Inv, OwnedInv, NEW t \in Thread,
           CleanupAppScopeFonts(t) \/ NotifyClientDied(t)
    PROVE  OwnedInv'
<1>1. Types /\ Places /\ t \in Actor /\ \A s \in Thread : s = t
    BY DEF Inv, Actor, OneAtATime
<1>2. UNCHANGED <<service, queue, clients>>
    BY DEF CleanupAppScopeFonts, NotifyClientDied, handler, Registry!CleanupAppScopeFonts,
           Registry!NotifyClientDied, Registry!maps
<1>3. pc'[t] # "insert"
    <2>1. pc[t] = "ending"
        BY <1>1 DEF CleanupAppScopeFonts, NotifyClientDied, Registry!CleanupAppScopeFonts,
           Registry!NotifyClientDied, Places
    <2> QED
        BY <1>1, <2>1 DEF CleanupAppScopeFonts, NotifyClientDied, GoRead, control, Types
<1>4. \A token \in appFonts' :
        token \in appFonts /\ task[t] # [step |-> "cleanup", token |-> token]
    BY DEF CleanupAppScopeFonts, NotifyClientDied, Registry!NotifyClientDied
<1>5. \A token \in appFonts' : Owned(token)'
    BY <1>1, <1>2, <1>4 DEF OwnedInv, Owned, Registry!IsClientRegistered
<1> QED
    BY <1>1, <1>3, <1>5 DEF OwnedInv

(* A font is inserted for an application that is registered.               *)
LEMMA OwnedInsert ==
    ASSUME Inv, OwnedInv, NEW t \in Thread, InsertAppFont(t)
    PROVE  OwnedInv'
<1>1. Registry!IsClientRegistered(Caller(t)) /\ t \in Actor /\ Types
    BY DEF OwnedInv, InsertAppFont, At, Actor, Inv
<1>2. /\ UNCHANGED <<clients, task, service, queue, call>>
      /\ appFonts' = appFonts \cup {Caller(t)} /\ pc' = [pc EXCEPT ![t] = "out"]
    BY DEF InsertAppFont, Go, handler, registryVars
<1>3. \A token \in appFonts' : Owned(token)'
    BY <1>1, <1>2 DEF OwnedInv, Owned, Registry!IsClientRegistered
<1>4. \A s \in Thread : pc'[s] = "insert" => pc[s] = "insert"
    BY <1>1, <1>2 DEF Types, Actor
<1> QED
    BY <1>2, <1>3, <1>4 DEF OwnedInv, Caller, Registry!IsClientRegistered

(* The handler removes the fonts of the users whose cleanup it takes.      *)
LEMMA OwnedHandler ==
    ASSUME Inv, StoppedInv, SlotInv, OwnedInv, HandlerStep \/ TakeTask \/ TakeUnloadTask
    PROVE  OwnedInv'
<1>1. Types /\ Handler \notin Thread /\ Thread \subseteq Actor
    BY ServerAssumption DEF Inv, Actor
<1>2. \A t \in Thread : pc'[t] = pc[t] /\ call'[t] = call[t]
    BY <1>1 DEF HandlerStep, TakeTask, TakeUnloadTask, Step, RemoveUnloadFontServiceTask,
       ReadNext, PostUnloadTask, Migrate, FinishMigration, UnloadFontService, Go, GoRead,
       control, Types
<1>3. UNCHANGED <<clients, task>>
    BY DEF HandlerStep, TakeTask, TakeUnloadTask, Step, RemoveUnloadFontServiceTask,
       ReadNext, PostUnloadTask, Migrate, FinishMigration, UnloadFontService, registryVars
<1>4. CASE TakeTask
    <2>1. queue # <<>> /\ queue' = Tail(queue) /\ service' = service /\ appFonts' \subseteq appFonts
        BY <1>4 DEF TakeTask
    <2>2. /\ \A i \in DOMAIN queue : i # 1 => i - 1 \in DOMAIN queue' /\ queue'[i - 1] = queue[i]
          /\ queue[1] = Head(queue) /\ Head(queue) \in Posted
        BY <2>1 DEF SlotInv
    <2>3. \A token \in appFonts' : UserOf[token] \notin queue[1].users
        <3>1. Head(queue).type = "migration" => Head(queue).users = {}
            BY <2>2, PostedTypes DEF Migration
        <3> QED
            BY <1>4, <2>2, <3>1 DEF TakeTask
    <2>4. \A token \in appFonts' : Owned(token)'
        <3> SUFFICES ASSUME NEW token \in appFonts' PROVE Owned(token)'
            OBVIOUS
        <3>1. CASE \E i \in DOMAIN queue : UserOf[token] \in queue[i].users
            <4>1. PICK i \in DOMAIN queue : UserOf[token] \in queue[i].users
                BY <3>1
            <4>2. i # 1
                BY <2>3, <4>1
            <4> QED
                BY <2>2, <4>1, <4>2 DEF Owned
        <3>2. CASE ~\E i \in DOMAIN queue : UserOf[token] \in queue[i].users
            BY <1>3, <2>1, <3>2 DEF OwnedInv, Owned, Registry!IsClientRegistered
        <3> QED
            BY <3>1, <3>2
    <2> QED
        BY <1>2, <1>3, <2>4 DEF OwnedInv, Caller, Registry!IsClientRegistered
<1>5. CASE ~TakeTask
    <2>1. UNCHANGED <<queue, appFonts>>
        BY <1>5 DEF HandlerStep, TakeUnloadTask, Step, RemoveUnloadFontServiceTask,
           ReadNext, PostUnloadTask, Migrate, FinishMigration, UnloadFontService, handler
    <2>2. service = "stopped" => service' = "stopped"
        BY <1>5 DEF HandlerStep, TakeUnloadTask, Step, RemoveUnloadFontServiceTask,
           ReadNext, PostUnloadTask, Migrate, FinishMigration, UnloadFontService, At,
           StoppedInv, Actor
    <2>3. \A token \in appFonts' : Owned(token)'
        BY <1>3, <2>1, <2>2 DEF OwnedInv, Owned, Registry!IsClientRegistered
    <2> QED
        BY <1>2, <1>3, <2>3 DEF OwnedInv, Caller, Registry!IsClientRegistered
<1> QED
    BY <1>4, <1>5

(* Starts, stops and the events of users and processes.                    *)
LEMMA OwnedOther ==
    ASSUME OneAtATime, StoppedInv, SlotInv, OwnedInv, appFonts \subseteq Token,
           \/ \E users \in StartsFor : OnStart(users)
           \/ \E user \in User : OnUserStopping(user)
           \/ \E b \in Binder : Die(b)
           \/ Stop \/ UNCHANGED vars
    PROVE  OwnedInv'
<1>1. ASSUME NEW users \in StartsFor, OnStart(users) PROVE OwnedInv'
    <2>1. \A t \in Thread : pc'[t] = "idle"
        BY <1>1 DEF OnStart, StoppedInv, control, Actor
    <2>2. queue' = <<Cleanup(User)>> /\ appFonts' = appFonts
        BY <1>1 DEF OnStart, PostCleanup, OneAtATime, StoppedInv
    <2>3. \A token \in appFonts' : 1 \in DOMAIN queue' /\ UserOf[token] \in queue'[1].users
        BY <2>2, ServerAssumption DEF Cleanup
    <2> QED
        BY <2>1, <2>3 DEF OwnedInv, Owned
<1>2. ASSUME NEW user \in User, OnUserStopping(user) PROVE OwnedInv'
    BY <1>2, OwnedPosted DEF OnUserStopping, PostCleanup, OneAtATime, control
<1>3. CASE (\E b \in Binder : Die(b)) \/ UNCHANGED vars
    <2>1. UNCHANGED <<clients, task, service, queue, appFonts, pc, call>>
        BY <1>3 DEF Die, Registry!Die, Registry!maps, vars, registryVars, handler, control
    <2> QED
        BY <2>1, OwnedSame
<1>4. CASE Stop
    <2>1. service' = "stopped" /\ \A t \in Thread : pc'[t] = "idle"
        BY <1>4 DEF Stop, Actor
    <2> QED
        BY <2>1 DEF OwnedInv, Owned
<1> QED
    BY <1>1, <1>2, <1>3, <1>4

(* Every step leaves the fonts of application scope owned.                 *)
LEMMA OwnedNext ==
    ASSUME OneAtATime, Inv, StoppedInv, SlotInv, RestTypes, OwnedInv, [Next]_vars
    PROVE  OwnedInv'
<1>1. appFonts \subseteq Token
    BY DEF RestTypes
<1>2. ASSUME NEW t \in Thread, PostMigration(t) PROVE OwnedInv'
    <2>1. CASE UNCHANGED queue
        BY <1>2, <2>1, OwnedCalls
    <2>2. CASE queue' = Append(queue, Migration)
        <3>1. \A s \in Thread : pc'[s] = "insert" => pc[s] = "insert"
            BY <1>2 DEF PostMigration, Go, Inv, Types, Actor
        <3> QED
            BY <1>2, <2>2, <3>1, OwnedPosted DEF PostMigration, Go
    <2> QED
        BY <1>2, <2>1, <2>2 DEF PostMigration
<1>3. ASSUME NEW t \in Thread,
             \/ Step(t) \/ ThreadStep(t)
             \/ \E token \in Token : OnClientDied(t, token)
             \/ \E method \in Method, b \in Binder : Call(t, method, b)
      PROVE  OwnedInv'
    BY <1>1, <1>2, <1>3, OwnedCalls, OwnedEnds, OwnedTasks, OwnedInsert DEF ThreadStep
<1>4. CASE HandlerStep \/ TakeTask \/ TakeUnloadTask
    BY <1>4, OwnedHandler
<1> QED
    BY <1>1, <1>3, <1>4, OwnedOther DEF Next

(* Where calls and death notices do not overlap and every start posts the  *)
(* cleanup of all users, no font of application scope outlives its         *)
(* registration but until the cleanup that is on its way                   *)
(* (InstallScopeFontInner's check, CleanupAppScopeFonts before the died    *)
(* callback, OnStart): with crashes, and with failing posts of unload      *)
(* tasks and migrations and failing unloads.                               *)
THEOREM FontsAreOwned == OneAtATime => (Spec => []AppFontsOwned)
<1> SUFFICES ASSUME OneAtATime PROVE Spec => []AppFontsOwned
    OBVIOUS
<1>1. Init => OwnedInv
    BY DEF Init, OwnedInv, Actor
<1>2. (Inv /\ StoppedInv /\ SlotInv) /\ RestTypes /\ OwnedInv /\ [Next]_vars => OwnedInv'
    BY OwnedNext
<1>3. OwnedInv => AppFontsOwned
    BY DEF OwnedInv, Owned, AppFontsOwned
<1> QED
    BY <1>1, <1>2, <1>3, ServerInvariant, RestTypesHold, PTL DEF Spec
=============================================================================
