----------------------- MODULE FontManagerAddon_proofs -----------------------
(***************************************************************************)
(* Proofs about FontManagerAddon and the modules below it, for any number  *)
(* of environments, observers and late callbacks: the recipient of the     *)
(* process, the causes of failed loads, and the lives of the thread-safe   *)
(* functions.                                                              *)
(***************************************************************************)
EXTENDS FontManagerAddon, TLAPS

-----------------------------------------------------------------------------
(* The actions that change the state of the loader, of the client and of   *)
(* the binding.                                                            *)
Begins(t) ==
    /\ pc[t] = "idle" /\ BeginLoad(t)
    /\ UNCHANGED <<registration, attached, notices, watch>>
    /\ \/ \E o \in Observer : BeginObserving(t, "on", o)
       \/ BeginObserving(t, "off", NoObserver)
       \/ Begin(t, "request", NoObserver) /\ UNCHANGED overlapped

Ends(t) ==
    /\ pc[t] \in {"ok", "failed", "offDone", "request"} /\ load[t] = "idle"
    /\ End(t)
    /\ UNCHANGED <<loaderVars, registration, attached, notices, watch>>

Null(t) ==
    /\ pc[t] \in {"on", "off"} /\ load[t] = "idle"
    /\ Goto(t, IF pc[t] = "on" THEN "failed" ELSE "offDone")
    /\ UNCHANGED <<loaderVars, registration, attached, notices, watch>>

(* A call is past the loader once it has left its first label.             *)
LoadedFirst == \A t \in Thread : pc[t] \notin {"on", "off", "request"} => load[t] = "idle"

(* The answers of the service to OnFontObserver.                           *)
LEMMA RegisterAnswers ==
    ASSUME NEW t \in Thread, RegisterObserver(t)
    PROVE  /\ pc[t] = "register"
           /\ UNCHANGED <<loaderVars, attached, notices, watch, observer, overlapped>>
           /\ \/ /\ pc' = [pc EXCEPT ![t] = "ok"] /\ service[t] = "live"
                 /\ registered = NoObserver /\ registered' = observer[t]
                 /\ refusal' = refusal
              \/ /\ pc' = [pc EXCEPT ![t] = "failed"]
                 /\ registered # NoObserver /\ registered' = registered
                 /\ refusal' = IF refusal = "none" THEN "repeated" ELSE refusal
              \/ /\ pc' = [pc EXCEPT ![t] = "undo"] /\ service[t] = "live"
                 /\ registered' \in {registered, observer[t]}
                 /\ refusal' = IF registered' = NoObserver THEN "none" ELSE "failed"
              \/ /\ pc' = [pc EXCEPT ![t] = "undo"]
                 /\ registered = NoObserver \/ service[t] = "dead"
                 /\ UNCHANGED <<registered, refusal>>
BY DEF RegisterObserver, Registered, NotRegistered, Registers, Repeated, TooMany, Fails,
    FailedCall, Goto, registration

(* Every step as one of the client, whatever the binding does beside it.   *)
LEMMA ClientCases ==
    ASSUME LoadedFirst, Next
    PROVE  \/ \E t \in Thread :
                \/ Begins(t) \/ Ends(t) \/ Null(t)
                \/ WatchService(t) \/ RegisterObserver(t) \/ UndoWatch(t)
                \/ UnregisterObserver(t) \/ ClearWatch(t)
                \/ (LoadStep(t) \/ LockLoad(t)) /\ UNCHANGED clientVars
           \/ SamgrStep /\ UNCHANGED clientVars
           \/ Die
           \/ \E o \in Observer : OnRemoteDied(o)
<1>1. ASSUME NEW t \in Thread, OnFontObserver(t) \/ OffFontObserver(t) \/ Finalizer(t)
      PROVE  Begins(t)
    BY <1>1 DEF OnFontObserver, OffFontObserver, Finalizer, BeginObserving, Begin, Begins
<1>2. ASSUME NEW t \in Thread, Request(t) PROVE Begins(t)
    BY <1>2 DEF Request, Begin, Begins
<1>3. ASSUME NEW t \in Thread,
             OnSucceeded(t) \/ OnFailed(t) \/ OffReturned(t) \/ FontObserverEnvCleanup(t)
      PROVE  Ends(t)
    BY <1>3 DEF OnSucceeded, OnFailed, OffReturned, FontObserverEnvCleanup, Ends, LoadedFirst
<1>4. ASSUME NEW t \in Thread, ClientStep(t)
      PROVE  \/ Ends(t) \/ Null(t)
             \/ WatchService(t) \/ RegisterObserver(t) \/ UndoWatch(t)
             \/ UnregisterObserver(t) \/ ClearWatch(t)
             \/ LoadStep(t) /\ UNCHANGED clientVars
    BY <1>4 DEF ClientStep, NullService, FinishRequest, Ends, Null
<1> QED
    BY <1>1, <1>2, <1>3, <1>4 DEF Next, Step, Lock, OnServiceDied

-----------------------------------------------------------------------------
(* Types, and the place of a call that is being loaded.                    *)
OnLabel == {"on", "register", "undo", "ok", "failed"}
OnHasObserver == \A t \in Thread : pc[t] \in OnLabel => observer[t] \in Observer
RegisterHasService == \A t \in Thread : pc[t] = "register" => service[t] # "none"

CallInv == ClientTypeOK /\ LoadedFirst /\ OnHasObserver /\ RegisterHasService

LEMMA LoadTypes ==
    ASSUME CallInv, NEW t \in Thread, LoadStep(t) \/ LockLoad(t), UNCHANGED clientVars
    PROVE  CallInv'
<1> USE DEF CallInv, ClientTypeOK, LoaderTypeOK, Reference, LoadedFirst, OnHasObserver,
        OnLabel, RegisterHasService, GoOn, Answer, Unlock,
        samgr, loader, clientVars, registration, watch
<1>1. CASE CheckSystemAbility(t)
    BY <1>1 DEF CheckSystemAbility
<1>2. CASE LoadSystemAbility(t)
    BY <1>2 DEF LoadSystemAbility, InitStatus
<1>3. ASSUME WaitResult(t) \/ Timeout(t) PROVE CallInv'
    <2>1. GiveUp
        BY <1>3 DEF WaitResult, Timeout
    <2>2. late' \in 0..MaxLate
        BY <2>1, LoaderAssumption DEF GiveUp
    <2>3. CASE WaitResult(t)
        BY <2>1, <2>2, <2>3 DEF WaitResult, GiveUp
    <2>4. CASE Timeout(t)
        BY <2>1, <2>2, <2>4 DEF Timeout, GiveUp
    <2> QED
        BY <1>3, <2>3, <2>4
<1>4. CASE GetSystemAbility(t)
    BY <1>4 DEF GetSystemAbility
<1>5. CASE LockLoad(t)
    BY <1>5 DEF LockLoad
<1> QED
    BY <1>1, <1>2, <1>3, <1>4, <1>5 DEF LoadStep

LEMMA ClientTypes ==
    ASSUME CallInv, Next
    PROVE  CallInv'
<1> USE DEF CallInv, ClientTypeOK, LoaderTypeOK, Reference, LoadedFirst, OnHasObserver,
        OnLabel, RegisterHasService, NoneOr,
        loaderVars, samgr, loader, clientVars, registration, watch
<1>1. ASSUME NEW t \in Thread, Begins(t) PROVE CallInv'
    <2>1. /\ UNCHANGED <<running, pending, late, loadMutex, loadSaStatus, cause>>
          /\ UNCHANGED <<registration, attached, notices, watch>>
          /\ load' = [load EXCEPT ![t] = "check"] /\ service' = [service EXCEPT ![t] = "none"]
        BY <1>1 DEF Begins, BeginLoad
    <2>2. /\ overlapped' \in BOOLEAN
          /\ \E label \in {"on", "off", "request"}, o \in NoneOr(Observer) :
                /\ label = "on" => o \in Observer
                /\ pc' = [pc EXCEPT ![t] = label] /\ observer' = [observer EXCEPT ![t] = o]
        BY <1>1 DEF Begins, BeginObserving, Begin
    <2> QED
        BY <2>1, <2>2
<1>2. ASSUME NEW t \in Thread, Ends(t) PROVE CallInv'
    BY <1>2 DEF Ends, End
<1>3. ASSUME NEW t \in Thread, Null(t) PROVE CallInv'
    BY <1>3 DEF Null, Goto
<1>4. ASSUME NEW t \in Thread, WatchService(t) PROVE CallInv'
    <2>1. attached' \subseteq Observer /\ notices' \subseteq Observer
        BY <1>4 DEF WatchService, HasService, StillAttached, StillNoticed
    <2> QED
        BY <1>4, <2>1 DEF WatchService, Goto, HasService
<1>5. ASSUME NEW t \in Thread, RegisterObserver(t) PROVE CallInv'
    BY <1>5, RegisterAnswers
<1>6. ASSUME NEW t \in Thread, UndoWatch(t) \/ ClearWatch(t) PROVE CallInv'
    BY <1>6 DEF UndoWatch, ClearWatch, UnwatchService, Goto, StillAttached, StillNoticed
<1>7. ASSUME NEW t \in Thread, UnregisterObserver(t) PROVE CallInv'
    BY <1>7 DEF UnregisterObserver, FailedCall, Goto, HasService
<1>8. CASE SamgrStep /\ UNCHANGED clientVars
    <2>1. late' \in 0..MaxLate
        BY <1>8, LoaderAssumption DEF SamgrStep, Callback, LateCallback, StartService
    <2>2. CASE Callback
        BY <1>8, <2>1, <2>2
        DEF Callback, OnLoadSystemAbilitySuccess, OnLoadSystemAbilityFail
    <2>3. CASE LateCallback
        BY <1>8, <2>1, <2>3
        DEF LateCallback, OnLoadSystemAbilitySuccess, OnLoadSystemAbilityFail
    <2>4. CASE StartService
        BY <1>8, <2>1, <2>4 DEF StartService
    <2> QED
        BY <1>8, <2>2, <2>3, <2>4 DEF SamgrStep
<1>9. CASE Die
    BY <1>9 DEF Die, StopService, Dead
<1>10. ASSUME NEW o \in Observer, OnRemoteDied(o) PROVE CallInv'
    BY <1>10 DEF OnRemoteDied
<1>11. LoadedFirst
    OBVIOUS
<1> QED
    BY <1>1, <1>2, <1>3, <1>4, <1>5, <1>6, <1>7, <1>8, <1>9, <1>10, <1>11, LoadTypes,
       ClientCases

-----------------------------------------------------------------------------
(* The recipient of the process.                                           *)

(* As long as no two observer calls have overlapped: a registration is     *)
(* watched, unless a live service has failed a call since; a call that     *)
(* drops the recipient finds no registration or is such a call; one that   *)
(* holds a service which has died finds none; and one that registers with  *)
(* a live service has its recipient there.                                 *)
Watched ==
    /\ \A s, t \in Observing : s = t
    /\ registered # NoObserver /\ refusal # "failed" => attached # {}
    /\ registered # NoObserver /\ refusal = "none" /\ (\A t \in Thread : pc[t] # "register")
       => registered \in attached
    /\ \A t \in Thread :
        /\ pc[t] \in {"undo", "clear"} => registered = NoObserver \/ refusal = "failed"
        /\ pc[t] \in {"on", "register", "off"} /\ service[t] = "dead"
           => registered = NoObserver
        /\ pc[t] = "register" /\ service[t] = "live" => observer[t] \in attached

WatchInv == OneRecipient /\ (~overlapped => Watched)

(* The recipient is exchanged or dropped together with saDeathRecipient_.  *)
LEMMA OneRecipientStep ==
    ASSUME CallInv, OneRecipient, Next
    PROVE  OneRecipient'
<1> USE DEF OneRecipient, clientVars, registration, watch
<1>1. ASSUME NEW t \in Thread, Begins(t) \/ Ends(t) \/ Null(t) PROVE OneRecipient'
    BY <1>1 DEF Begins, Ends, Null
<1>2. ASSUME NEW t \in Thread, WatchService(t) PROVE OneRecipient'
    BY <1>2 DEF WatchService, StillAttached
<1>3. ASSUME NEW t \in Thread, UndoWatch(t) \/ ClearWatch(t) PROVE OneRecipient'
    BY <1>3 DEF UndoWatch, ClearWatch, UnwatchService, StillAttached
<1>4. ASSUME NEW t \in Thread, RegisterObserver(t) \/ UnregisterObserver(t)
      PROVE  OneRecipient'
    BY <1>4, RegisterAnswers DEF UnregisterObserver
<1>5. CASE Die
    BY <1>5 DEF Die
<1>6. ASSUME NEW o \in Observer, OnRemoteDied(o) PROVE OneRecipient'
    BY <1>6 DEF OnRemoteDied
<1>7. CASE UNCHANGED clientVars
    BY <1>7
<1> QED
    BY <1>1, <1>2, <1>3, <1>4, <1>5, <1>6, <1>7, ClientCases DEF CallInv

(* A step of the loader gives a call no dead service.                      *)
LEMMA LoadWatched ==
    ASSUME CallInv, Watched, NEW t \in Thread, LoadStep(t) \/ LockLoad(t),
           UNCHANGED clientVars
    PROVE  Watched'
<1>1. load[t] # "idle"
    BY DEF LoadStep, CheckSystemAbility, LoadSystemAbility, WaitResult, Timeout,
        GetSystemAbility, LockLoad
<1>2. /\ \A s \in Thread \ {t} : service'[s] = service[s]
      /\ service'[t] \in {service[t], "none", "live"}
    BY DEF LoadStep, CheckSystemAbility, LoadSystemAbility, WaitResult, Timeout,
        GetSystemAbility, LockLoad, Unlock, Answer, GoOn, CallInv, ClientTypeOK, LoaderTypeOK
<1>3. pc[t] # "register"
    BY <1>1 DEF CallInv, LoadedFirst
<1> QED
    BY <1>2, <1>3 DEF Watched, Observing, clientVars, registration, watch

(* Every step keeps registrations watched.                                 *)
LEMMA WatchedStep ==
    ASSUME CallInv, OneRecipient, ~overlapped => Watched, Next, ~overlapped'
    PROVE  Watched'
<1> USE DEF CallInv, ClientTypeOK, LoaderTypeOK, RegisterHasService, Watched, Observing,
        loaderVars, samgr, loader, clientVars, registration, watch
<1>1. ASSUME NEW t \in Thread, Begins(t) PROVE Watched'
    <2>1. ~overlapped
        BY <1>1 DEF Begins, BeginObserving
    <2>2. /\ UNCHANGED <<registered, refusal, attached>>
          /\ service' = [service EXCEPT ![t] = "none"]
        BY <1>1 DEF Begins, BeginLoad
    <2>3. PICK label \in {"on", "off", "request"} :
            /\ pc[t] = "idle" /\ pc' = [pc EXCEPT ![t] = label]
            /\ \A s \in Thread \ {t} : observer'[s] = observer[s]
            /\ label # "request" => Observing = {}
        BY <1>1, <2>1 DEF Begins, BeginObserving, Begin
    <2>4. \A s, r \in Observing' : s = r
        BY <2>1, <2>3
    <2>5. (\A s \in Thread : pc'[s] # "register") => \A s \in Thread : pc[s] # "register"
        BY <2>3
    <2>6. \A s \in Thread : pc'[s] \in {"undo", "clear", "register"} => s # t /\ pc'[s] = pc[s]
        BY <2>3
    <2>7. \A s \in Thread : service'[s] = "dead" => s # t /\ service[s] = "dead" /\ pc'[s] = pc[s]
        BY <2>2, <2>3
    <2> QED
        BY <2>1, <2>2, <2>3, <2>4, <2>5, <2>6, <2>7
<1>2. ASSUME NEW t \in Thread, Ends(t) PROVE Watched'
    BY <1>2 DEF Ends, End
<1>3. ASSUME NEW t \in Thread, Null(t) PROVE Watched'
    BY <1>3 DEF Null, Goto
<1>4. ASSUME NEW t \in Thread, WatchService(t) PROVE Watched'
    BY <1>4 DEF WatchService, Goto, HasService, StillAttached, OneRecipient, Reference
<1>5. ASSUME NEW t \in Thread, RegisterObserver(t) PROVE Watched'
    BY <1>5, RegisterAnswers DEF Reference
<1>6. ASSUME NEW t \in Thread, UndoWatch(t) \/ ClearWatch(t) PROVE Watched'
    BY <1>6 DEF UndoWatch, ClearWatch, UnwatchService, Goto, StillAttached
<1>7. ASSUME NEW t \in Thread, UnregisterObserver(t) PROVE Watched'
    BY <1>7 DEF UnregisterObserver, FailedCall, Goto, HasService, Reference
<1>8. CASE SamgrStep /\ UNCHANGED clientVars
    <2>1. UNCHANGED service
        BY <1>8 DEF SamgrStep, Callback, LateCallback, StartService
    <2> QED
        BY <1>8, <2>1
<1>9. CASE Die
    BY <1>9 DEF Die, StopService, Dead, Reference
<1>10. ASSUME NEW o \in Observer, OnRemoteDied(o) PROVE Watched'
    BY <1>10 DEF OnRemoteDied
<1>11. ASSUME NEW t \in Thread, LoadStep(t) \/ LockLoad(t), UNCHANGED clientVars
       PROVE  Watched'
    BY <1>11, LoadWatched
<1> QED
    BY <1>1, <1>2, <1>3, <1>4, <1>5, <1>6, <1>7, <1>8, <1>9, <1>10, <1>11, ClientCases

-----------------------------------------------------------------------------
(* The loader.                                                             *)

(* One thread at a time waits for the service: the one that has loadMutex_ *)
(* since before InitStatus.                                                *)
LockInv == \A t \in Thread : load[t] \in {"load", "wait", "get"} <=> loadMutex = t

(* A result of the attempt under way is a failure with a cause, or is due  *)
(* to a service that runs or has stopped since.                            *)
CauseInv ==
    \A t \in Thread :
        /\ load[t] = "wait" /\ loadSaStatus = "FAIL" => cause
        /\ load[t] = "wait" /\ loadSaStatus = "SUCCESS" => running \/ cause
        /\ load[t] = "get" => running \/ cause

LoadInv == LockInv /\ CauseInv

(* The action of NullHasCause. *)
FailsWithCause ==
    \A t \in Thread :
        /\ load[t] \in {"wait", "get"}
        /\ load'[t] = "idle" /\ service'[t] = "none"
        => cause \/ loadSaStatus = "WAIT_RESULT"

(* Every step keeps this, and a load that fails has one of the causes.     *)
LEMMA LoadCauses ==
    ASSUME CallInv, LoadInv, Next
    PROVE  LoadInv' /\ FailsWithCause
<1> USE LoaderAssumption
    DEF FailsWithCause, LoadInv, LockInv, CauseInv, CallInv, ClientTypeOK, LoaderTypeOK, Reference,
        LoadedFirst, loaderVars, samgr, loader, Unlock, Answer, GoOn
<1>1. ASSUME NEW t \in Thread, Begins(t) PROVE LoadInv' /\ FailsWithCause
    BY <1>1 DEF Begins, BeginLoad
<1>2. ASSUME NEW t \in Thread, CheckSystemAbility(t) PROVE LoadInv' /\ FailsWithCause
    BY <1>2 DEF CheckSystemAbility
<1>3. ASSUME NEW t \in Thread, LockLoad(t) PROVE LoadInv' /\ FailsWithCause
    BY <1>3 DEF LockLoad
<1>4. ASSUME NEW t \in Thread, LoadSystemAbility(t) PROVE LoadInv' /\ FailsWithCause
    BY <1>4 DEF LoadSystemAbility, InitStatus
<1>5. ASSUME NEW t \in Thread, WaitResult(t) PROVE LoadInv' /\ FailsWithCause
    BY <1>5 DEF WaitResult
<1>6. ASSUME NEW t \in Thread, Timeout(t) PROVE LoadInv' /\ FailsWithCause
    BY <1>6 DEF Timeout
<1>7. ASSUME NEW t \in Thread, GetSystemAbility(t) PROVE LoadInv' /\ FailsWithCause
    BY <1>7 DEF GetSystemAbility
<1>8. CASE Callback
    BY <1>8 DEF Callback, OnLoadSystemAbilitySuccess, OnLoadSystemAbilityFail
<1>9. CASE LateCallback
    BY <1>9 DEF LateCallback
<1>10. CASE StartService
    BY <1>10 DEF StartService
<1>11. CASE Die
    BY <1>11 DEF Die, StopService
<1>12. CASE UNCHANGED loaderVars
    BY <1>12
<1>13. LoadedFirst
    OBVIOUS
<1>14. ASSUME NEW t \in Thread, \/ Ends(t) \/ Null(t)
                \/ WatchService(t) \/ RegisterObserver(t) \/ UndoWatch(t)
                \/ UnregisterObserver(t) \/ ClearWatch(t)
       PROVE  UNCHANGED loaderVars
    BY <1>14 DEF Ends, Null, WatchService, RegisterObserver, UndoWatch, UnregisterObserver,
        ClearWatch
<1>15. ASSUME NEW o \in Observer, OnRemoteDied(o) PROVE UNCHANGED loaderVars
    BY <1>15 DEF OnRemoteDied
<1> HIDE DEF FailsWithCause, LoadInv, LockInv, CauseInv, CallInv, ClientTypeOK, LoaderTypeOK, Reference,
        LoadedFirst, loaderVars, samgr, loader, Unlock, Answer, GoOn
<1>16. \/ \E t \in Thread :
            \/ Begins(t) \/ Ends(t) \/ Null(t)
            \/ WatchService(t) \/ RegisterObserver(t) \/ UndoWatch(t)
            \/ UnregisterObserver(t) \/ ClearWatch(t)
            \/ (LoadStep(t) \/ LockLoad(t)) /\ UNCHANGED clientVars
       \/ SamgrStep /\ UNCHANGED clientVars
       \/ Die
       \/ \E o \in Observer : OnRemoteDied(o)
    BY <1>13, ClientCases
<1>17. ASSUME NEW t \in Thread, LoadStep(t) PROVE LoadInv' /\ FailsWithCause
    BY <1>2, <1>4, <1>5, <1>6, <1>7, <1>17 DEF LoadStep
<1>18. CASE SamgrStep
    BY <1>8, <1>9, <1>10, <1>18 DEF SamgrStep
<1>19. LoadInv' /\ FailsWithCause
    <2>1. ASSUME NEW t \in Thread, \/ Ends(t) \/ Null(t)
                \/ WatchService(t) \/ RegisterObserver(t) \/ UndoWatch(t)
                \/ UnregisterObserver(t) \/ ClearWatch(t)
          PROVE  LoadInv' /\ FailsWithCause
        BY <1>12, <1>14, <2>1
    <2>2. ASSUME NEW o \in Observer, OnRemoteDied(o) PROVE LoadInv' /\ FailsWithCause
        BY <1>12, <1>15, <2>2
    <2> QED
        BY <1>1, <1>3, <1>11, <1>16, <1>17, <1>18, <2>1, <2>2
<1> QED
    BY <1>19

-----------------------------------------------------------------------------
(* The thread-safe functions.                                              *)

(* A function has both references while it has its hook, at most the       *)
(* agent's after that, and none when nobody holds the context: the late    *)
(* notice of a death may have taken the agent's before.  An observer has   *)
(* one hook at most, and a call that registers it has not lost it yet.     *)
References(o) ==
    /\ Hooked(o) => tsfn[o] = 2
    /\ o \in contexts /\ ~Hooked(o) => tsfn[o] \in {0, 1}
    /\ o \notin contexts => tsfn[o] \in {-1, 0}

CountInv ==
    /\ hooks \in [Thread -> SUBSET Observer] /\ ending \subseteq Thread
    /\ contexts = {o \in Observer : Held(o) \/ Hooked(o)}
    /\ tsfn \in [Observer -> -1..2]
    /\ \A o \in Observer : References(o)
    /\ \A s, t \in Thread : s # t => hooks[s] \cap hooks[t] = {}
    /\ \A t \in Thread : pc[t] \in OnLabel => observer[t] \in hooks[t]

(* What CountTsfn does, if a new observer has a hook, the functions        *)
(* aborted are those that lose their hook, and those called when they are  *)
(* closing have lost it before.                                            *)
LEMMA Counted ==
    ASSUME CountInv, NEW aborted, NEW closing, CountTsfn(aborted, closing),
           \A o \in Observer : Held(o)' => o \in contexts \/ Hooked(o)',
           \A o \in Observer : Hooked(o)' <=>
                (Hooked(o) /\ o \notin aborted) \/ o \in contexts' \ contexts,
           \A o \in aborted : Hooked(o),
           \A o \in closing : ~Hooked(o) /\ tsfn[o] > 0
    PROVE  /\ contexts' = {o \in Observer : (Held(o) \/ Hooked(o))'}
           /\ tsfn' \in [Observer -> -1..2]
           /\ \A o \in Observer : References(o)'
<1>1. /\ contexts' = {o \in Observer : (Held(o) \/ Hooked(o))'}
      /\ tsfn' = [o \in Observer |->
            IF o \in contexts' \ contexts THEN 2
            ELSE tsfn[o] - One(o \in aborted) - One(o \in closing)
                         - One(o \in contexts \ contexts')]
    BY DEF CountTsfn, Contexts
<1>2. ASSUME NEW o \in Observer
      PROVE  tsfn'[o] \in -1..2 /\ References(o)'
    <2>1. tsfn[o] \in -1..2 /\ References(o)
        BY DEF CountInv
    <2>2. Hooked(o) => o \in contexts
        BY DEF CountInv
    <2>3. Hooked(o)' => o \in contexts'
        BY <1>1
    <2>4. o \in aborted => Hooked(o) /\ ~Hooked(o)'
        BY <2>2
    <2>5. CASE o \in contexts' \ contexts
        BY <1>1, <2>3, <2>5 DEF References
    <2>6. CASE o \notin contexts' \ contexts
        <3>1. tsfn'[o] = tsfn[o] - One(o \in aborted) - One(o \in closing)
                                 - One(o \in contexts \ contexts')
            BY <1>1, <2>6
        <3> QED
            BY <2>1, <2>2, <2>3, <2>4, <2>6, <3>1 DEF References, One
    <2> QED
        BY <2>5, <2>6
<1>3. tsfn' \in [Observer -> -1..2]
    BY <1>1, <1>2
<1> QED
    BY <1>1, <1>2, <1>3

(* Nothing but OnFontObserver gives a hook to an observer, or an agent to  *)
(* anybody who does not hold it already.                                   *)
LEMMA HeldBefore ==
    ASSUME CallInv, NEW o \in Observer, Held(o)',
           \/ \E t \in Thread :
                \/ Ends(t) \/ Null(t)
                \/ WatchService(t) \/ RegisterObserver(t) \/ UndoWatch(t)
                \/ UnregisterObserver(t) \/ ClearWatch(t)
           \/ UNCHANGED clientVars
           \/ Die
           \/ \E q \in Observer : OnRemoteDied(q)
    PROVE  Held(o)
<1> USE ObserverAssumption DEF CallInv, ClientTypeOK, Held, clientVars, registration, watch
<1>1. ASSUME NEW t \in Thread, Ends(t) PROVE Held(o)
    BY <1>1 DEF Ends, End
<1>2. ASSUME NEW t \in Thread, Null(t) PROVE Held(o)
    BY <1>2 DEF Null, Goto
<1>3. ASSUME NEW t \in Thread, WatchService(t) PROVE Held(o)
    BY <1>3 DEF WatchService, Goto, StillAttached, StillNoticed
<1>4. ASSUME NEW t \in Thread, RegisterObserver(t) PROVE Held(o)
    BY <1>4, RegisterAnswers
<1>5. ASSUME NEW t \in Thread, UndoWatch(t) \/ ClearWatch(t) PROVE Held(o)
    BY <1>5 DEF UndoWatch, ClearWatch, UnwatchService, Goto, StillAttached, StillNoticed
<1>6. ASSUME NEW t \in Thread, UnregisterObserver(t) PROVE Held(o)
    BY <1>6 DEF UnregisterObserver, Goto
<1>7. CASE Die
    BY <1>7 DEF Die
<1>8. ASSUME NEW q \in Observer, OnRemoteDied(q) PROVE Held(o)
    BY <1>8 DEF OnRemoteDied
<1>9. CASE UNCHANGED clientVars
    BY <1>9
<1> QED
    BY <1>1, <1>2, <1>3, <1>4, <1>5, <1>6, <1>7, <1>8, <1>9

(* A step that keeps the hooks keeps the count.                            *)
LEMMA KeepHooksCounts ==
    ASSUME CountInv, KeepHooks,
           \A o \in Observer : Held(o)' => Held(o),
           \A t \in Thread : pc'[t] \in OnLabel => pc[t] \in OnLabel /\ observer'[t] = observer[t]
    PROVE  CountInv'
<1>1. UNCHANGED <<hooks, ending>> /\ CountTsfn({}, {})
    BY DEF KeepHooks
<1>2. \A o \in Observer : Hooked(o)' <=> Hooked(o)
    BY <1>1 DEF Hooked
<1>3. contexts' \ contexts = {}
    BY <1>1, <1>2 DEF CountTsfn, Contexts, CountInv
<1>4. \A o \in Observer : Held(o)' => o \in contexts
    BY DEF CountInv
<1>5. /\ contexts' = {o \in Observer : (Held(o) \/ Hooked(o))'}
      /\ tsfn' \in [Observer -> -1..2] /\ \A o \in Observer : References(o)'
    BY <1>1, <1>2, <1>3, <1>4, Counted
<1> QED
    BY <1>1, <1>5 DEF CountInv

(* A call on an observer begins: the observer gets its function, counted   *)
(* for the hook and for the agent.                                         *)
LEMMA OnCounts ==
    ASSUME CallInv, CountInv, NEW t \in Thread, OnFontObserver(t)
    PROVE  CountInv'
<1>1. PICK o \in Observer \ contexts :
        /\ pc' = [pc EXCEPT ![t] = "on"]
        /\ observer' = [observer EXCEPT ![t] = o]
        /\ UNCHANGED <<registration, attached, notices, watch>>
        /\ hooks' = [hooks EXCEPT ![t] = @ \cup {o}]
    BY DEF OnFontObserver, BeginObserving, Begin
<1>2. CountTsfn({}, {}) /\ ending' = ending
    BY DEF OnFontObserver
<1>3. \A s \in Thread : o \notin hooks[s]
    BY <1>1 DEF CountInv, Hooked
<1>4. hooks' \in [Thread -> SUBSET Observer]
    BY <1>1 DEF CountInv
<1>5. \A p \in Observer : Hooked(p)' <=> Hooked(p) \/ p = o
    BY <1>1, <1>4 DEF Hooked, CountInv
<1>6. \A p \in Observer : Held(p)' => Held(p) \/ p = o
    BY <1>1 DEF Held, registration, watch, CallInv, ClientTypeOK
<1>7. contexts' \ contexts = {o}
    BY <1>1, <1>2, <1>5, <1>6 DEF CountTsfn, Contexts, CountInv
<1>8. \A p \in Observer : Held(p)' => p \in contexts \/ Hooked(p)'
    BY <1>5, <1>6 DEF CountInv
<1>9. /\ contexts' = {p \in Observer : (Held(p) \/ Hooked(p))'}
      /\ tsfn' \in [Observer -> -1..2] /\ \A p \in Observer : References(p)'
    BY <1>2, <1>5, <1>7, <1>8, Counted
<1>10. \A r, s \in Thread : r # s => hooks'[r] \cap hooks'[s] = {}
    BY <1>1, <1>3, <1>4 DEF CountInv
<1>11. \A s \in Thread : pc'[s] \in OnLabel => observer'[s] \in hooks'[s]
    BY <1>1, <1>4 DEF CountInv, CallInv, ClientTypeOK
<1> QED
    BY <1>2, <1>4, <1>9, <1>10, <1>11 DEF CountInv

(* The functions that are aborted lose their hook.                         *)
LEMMA AbortCounts ==
    ASSUME CallInv, CountInv, NEW t \in Thread, NEW aborted \in SUBSET hooks[t],
           hooks' = [hooks EXCEPT ![t] = @ \ aborted],
           End(t), UNCHANGED <<registration, attached, notices, watch>>,
           ending' \subseteq Thread, CountTsfn(aborted, {})
    PROVE  CountInv'
<1>1. /\ hooks' \in [Thread -> SUBSET Observer]
      /\ hooks'[t] = hooks[t] \ aborted
      /\ \A s \in Thread \ {t} : hooks'[s] = hooks[s]
    BY DEF CountInv
<1>2. \A s \in Thread \ {t} : hooks[s] \cap aborted = {}
    BY DEF CountInv
<1>3. \A o \in Observer : Hooked(o)' <=> Hooked(o) /\ o \notin aborted
    BY <1>1, <1>2 DEF Hooked
<1>4. \A o \in Observer : Held(o)' => Held(o)
    BY ObserverAssumption DEF Held, End, registration, watch, CallInv, ClientTypeOK
<1>5. contexts' \ contexts = {}
    BY <1>3, <1>4 DEF CountTsfn, Contexts, CountInv
<1>6. \A o \in aborted : Hooked(o)
    BY DEF Hooked
<1>7. \A o \in Observer : Held(o)' => o \in contexts
    BY <1>4 DEF CountInv
<1>8. /\ contexts' = {o \in Observer : (Held(o) \/ Hooked(o))'}
      /\ tsfn' \in [Observer -> -1..2] /\ \A o \in Observer : References(o)'
    BY <1>3, <1>5, <1>6, <1>7, Counted
<1>9. \A r, s \in Thread : r # s => hooks'[r] \cap hooks'[s] = {}
    BY <1>1 DEF CountInv
<1>10. \A s \in Thread : pc'[s] \in OnLabel => s # t /\ pc[s] \in OnLabel /\ observer'[s] = observer[s]
    BY DEF End, OnLabel, CallInv, ClientTypeOK
<1>11. \A s \in Thread : pc'[s] \in OnLabel => observer'[s] \in hooks'[s]
    BY <1>1, <1>10 DEF CountInv
<1> QED
    BY <1>1, <1>8, <1>9, <1>11 DEF CountInv

(* A call without an observer begins.                                      *)
LEMMA OffCounts ==
    ASSUME CallInv, CountInv, NEW t \in Thread, NEW label \in {"off", "request"},
           Begin(t, label, NoObserver), UNCHANGED <<registration, attached, notices, watch>>,
           hooks' = hooks, ending' \subseteq Thread, CountTsfn({}, {})
    PROVE  CountInv'
<1>1. \A o \in Observer : Hooked(o)' <=> Hooked(o)
    BY DEF Hooked
<1>2. \A o \in Observer : Held(o)' => Held(o)
    BY ObserverAssumption DEF Begin, Held, registration, watch, CallInv, ClientTypeOK
<1>3. contexts' \ contexts = {}
    BY <1>1, <1>2 DEF CountTsfn, Contexts, CountInv
<1>4. \A o \in Observer : Held(o)' => o \in contexts
    BY <1>2 DEF CountInv
<1>5. /\ contexts' = {o \in Observer : (Held(o) \/ Hooked(o))'}
      /\ tsfn' \in [Observer -> -1..2] /\ \A o \in Observer : References(o)'
    BY <1>1, <1>3, <1>4, Counted
<1>6. \A s \in Thread : pc'[s] \in OnLabel => pc[s] \in OnLabel /\ observer'[s] = observer[s]
    BY DEF Begin, OnLabel, CallInv, ClientTypeOK
<1> QED
    BY <1>5, <1>6 DEF CountInv

(* The notice of a death reaches the agent.                                *)
LEMMA DiedCounts ==
    ASSUME CallInv, CountInv, NEW q \in Observer, OnServiceDied(q)
    PROVE  CountInv'
<1> DEFINE closing == {p \in {q} : ~Hooked(q) /\ tsfn[q] > 0}
<1>1. /\ OnRemoteDied(q) /\ UNCHANGED <<hooks, ending>>
      /\ CountTsfn({}, closing)
    BY DEF OnServiceDied
<1>2. \A o \in Observer : Hooked(o)' <=> Hooked(o)
    BY <1>1 DEF Hooked
<1>3. \A o \in Observer : Held(o)' => Held(o)
    BY <1>1, HeldBefore
<1>4. \A o \in Observer : Held(o)' => o \in contexts
    BY <1>3 DEF CountInv
<1>5. contexts' \ contexts = {}
    BY <1>1, <1>2, <1>3 DEF CountTsfn, Contexts, CountInv
<1>6. \A o \in closing : ~Hooked(o) /\ tsfn[o] > 0
    OBVIOUS
<1> HIDE DEF closing
<1>7. /\ contexts' = {o \in Observer : (Held(o) \/ Hooked(o))'}
      /\ tsfn' \in [Observer -> -1..2] /\ \A o \in Observer : References(o)'
    BY <1>1, <1>2, <1>4, <1>5, <1>6, Counted
<1>8. UNCHANGED <<hooks, ending, pc, observer>>
    BY <1>1 DEF OnRemoteDied
<1> QED
    BY <1>7, <1>8 DEF CountInv

LEMMA CountStep ==
    ASSUME CallInv, CountInv, Next
    PROVE  CountInv'
<1>1. ASSUME NEW t \in Thread, OffFontObserver(t) PROVE CountInv'
    BY <1>1, OffCounts DEF OffFontObserver, BeginObserving, KeepHooks, CountInv
<1>2. ASSUME NEW t \in Thread, Finalizer(t) PROVE CountInv'
    BY <1>2, OffCounts DEF Finalizer, BeginObserving, CountInv
<1>3. ASSUME NEW t \in Thread, Request(t), KeepHooks PROVE CountInv'
    BY <1>3, OffCounts DEF Request, KeepHooks, CountInv
<1>4. ASSUME NEW t \in Thread, OnSucceeded(t) \/ OffReturned(t) PROVE CountInv'
    <2>1. Ends(t) /\ KeepHooks
        BY <1>4 DEF OnSucceeded, OffReturned, Ends, CallInv, LoadedFirst
    <2>2. \A o \in Observer : Held(o)' => Held(o)
        BY <2>1, HeldBefore
    <2>3. \A s \in Thread : pc'[s] \in OnLabel
            => pc[s] \in OnLabel /\ observer'[s] = observer[s]
        BY <2>1 DEF Ends, End, OnLabel, CallInv, ClientTypeOK
    <2> QED
        BY <2>1, <2>2, <2>3, KeepHooksCounts
<1>5. ASSUME NEW t \in Thread, OnFailed(t) PROVE CountInv'
    <2>1. observer[t] \in hooks[t]
        BY <1>5 DEF OnFailed, CountInv, OnLabel
    <2>2. ending' \subseteq Thread
        BY <1>5 DEF OnFailed, CountInv
    <2> QED
        BY <1>5, <2>1, <2>2, AbortCounts DEF OnFailed
<1>6. ASSUME NEW t \in Thread, FontObserverEnvCleanup(t) PROVE CountInv'
    <2>1. hooks' = [hooks EXCEPT ![t] = @ \ hooks[t]]
        BY <1>6 DEF FontObserverEnvCleanup, CountInv
    <2>2. ending' \subseteq Thread
        BY <1>6 DEF FontObserverEnvCleanup, CountInv
    <2> QED
        BY <1>6, <2>1, <2>2, AbortCounts DEF FontObserverEnvCleanup
<1>7. ASSUME NEW t \in Thread, ClientStep(t), KeepHooks PROVE CountInv'
    <2>1. \/ Ends(t) \/ Null(t)
          \/ WatchService(t) \/ RegisterObserver(t) \/ UndoWatch(t)
          \/ UnregisterObserver(t) \/ ClearWatch(t)
          \/ UNCHANGED clientVars
        BY <1>7 DEF ClientStep, NullService, FinishRequest, Ends, Null
    <2>2. \A o \in Observer : Held(o)' => Held(o)
        BY <2>1, HeldBefore
    <2>3. \A s \in Thread : pc'[s] \in OnLabel
            => pc[s] \in OnLabel /\ observer'[s] = observer[s]
        BY <1>7, RegisterAnswers
        DEF ClientStep, NullService, FinishRequest, Goto, End, WatchService, HasService,
            UndoWatch, UnregisterObserver, ClearWatch, OnLabel, clientVars,
            CallInv, ClientTypeOK
    <2> QED
        BY <1>7, <2>2, <2>3, KeepHooksCounts
<1>8. ASSUME UNCHANGED clientVars, KeepHooks PROVE CountInv'
    <2>1. \A o \in Observer : Held(o)' => Held(o)
        BY <1>8, HeldBefore
    <2> QED
        BY <1>8, <2>1, KeepHooksCounts DEF clientVars
<1>9. ASSUME Die, KeepHooks PROVE CountInv'
    <2>1. \A o \in Observer : Held(o)' => Held(o)
        BY <1>9, HeldBefore
    <2> QED
        BY <1>9, <2>1, KeepHooksCounts DEF Die
<1>10. ASSUME NEW q \in Observer, OnServiceDied(q) PROVE CountInv'
    BY <1>10, DiedCounts
<1> QED
    BY <1>1, <1>2, <1>3, <1>4, <1>5, <1>6, <1>7, <1>8, <1>9, <1>10, OnCounts
    DEF Next, Step, Lock

(* Only a notice of the service's death gives back a reference that is not *)
(* the abort's or the context's.                                           *)
LEMMA NextCounts ==
    ASSUME CallInv, CountInv, Next
    PROVE  \/ \E aborted \in SUBSET Observer :
                (\A o \in aborted : Hooked(o)) /\ CountTsfn(aborted, {})
           \/ \E o \in Observer : OnServiceDied(o)
<1>1. ASSUME KeepHooks PROVE \E aborted \in SUBSET Observer :
                (\A o \in aborted : Hooked(o)) /\ CountTsfn(aborted, {})
    BY <1>1 DEF KeepHooks
<1>2. ASSUME NEW t \in Thread, OnFontObserver(t) \/ Finalizer(t)
      PROVE  CountTsfn({}, {})
    BY <1>2 DEF OnFontObserver, Finalizer
<1>3. ASSUME NEW t \in Thread, OnFailed(t)
      PROVE  CountTsfn({observer[t]}, {}) /\ Hooked(observer[t]) /\ observer[t] \in Observer
    BY <1>3 DEF OnFailed, CountInv, OnLabel, Hooked
<1>4. ASSUME NEW t \in Thread, FontObserverEnvCleanup(t)
      PROVE  CountTsfn(hooks[t], {}) /\ \A o \in hooks[t] : o \in Observer /\ Hooked(o)
    BY <1>4 DEF FontObserverEnvCleanup, CountInv, Hooked
<1>5. \/ KeepHooks
      \/ \E t \in Thread : \/ OnFontObserver(t) \/ Finalizer(t)
                            \/ OnFailed(t) \/ FontObserverEnvCleanup(t)
      \/ \E o \in Observer : OnServiceDied(o)
    BY DEF Next, Step, Lock, OffFontObserver, OnSucceeded, OffReturned
<1>6. ASSUME NEW aborted, \A o \in aborted : o \in Observer /\ Hooked(o), CountTsfn(aborted, {})
      PROVE  \E a \in SUBSET Observer : (\A o \in a : Hooked(o)) /\ CountTsfn(a, {})
    <2>1. aborted \in SUBSET Observer
        BY <1>6
    <2> QED
        BY <1>6, <2>1
<1>7. ASSUME NEW t \in Thread,
             \/ OnFontObserver(t) \/ Finalizer(t) \/ OnFailed(t) \/ FontObserverEnvCleanup(t)
      PROVE  \E a \in SUBSET Observer : (\A o \in a : Hooked(o)) /\ CountTsfn(a, {})
    BY <1>2, <1>3, <1>4, <1>6, <1>7
<1> QED
    BY <1>1, <1>5, <1>7

-----------------------------------------------------------------------------
(* The four invariants together hold of every reachable state.             *)
AddonInv == CallInv /\ WatchInv /\ LoadInv /\ CountInv

LEMMA InitInv ==
    ASSUME Init
    PROVE  AddonInv
<1> USE ObserverAssumption, LoaderAssumption DEF Init, ClientInit, LoaderInit
<1>1. CallInv
    <2>1. LoaderTypeOK
        <3>1. late \in 0..MaxLate
            OBVIOUS
        <3>2. running \in BOOLEAN /\ pending \in BOOLEAN /\ cause \in BOOLEAN
            OBVIOUS
        <3>3. /\ load \in [Thread -> {"idle", "check", "lock", "load", "wait", "get"}]
              /\ service \in [Thread -> Reference]
            BY DEF Reference
        <3> QED
            BY <3>1, <3>2, <3>3 DEF LoaderTypeOK
    <2>2. ClientTypeOK
        BY <2>1 DEF ClientTypeOK, Reference, NoneOr
    <2>3. \A t \in Thread : pc[t] = "idle" /\ load[t] = "idle"
        OBVIOUS
    <2> QED
        BY <2>2, <2>3 DEF CallInv, LoadedFirst, OnHasObserver, OnLabel, RegisterHasService
<1>2. WatchInv
    BY DEF WatchInv, OneRecipient, Watched, Observing
<1>3. LoadInv
    BY DEF LoadInv, LockInv, CauseInv
<1>4. \A o \in Observer : ~Held(o) /\ ~Hooked(o)
    BY DEF Held, Hooked
<1>5. CountInv
    <2>1. contexts = {o \in Observer : Held(o) \/ Hooked(o)}
        BY <1>4
    <2>2. tsfn \in [Observer -> -1..2] /\ \A o \in Observer : References(o)
        BY <1>4, <2>1 DEF References
    <2> QED
        BY <2>1, <2>2 DEF CountInv, OnLabel
<1> QED
    BY <1>1, <1>2, <1>3, <1>5 DEF AddonInv

LEMMA StutterInv ==
    ASSUME AddonInv, UNCHANGED vars
    PROVE  AddonInv'
<1> USE DEF vars, loaderVars, samgr, loader, clientVars, registration, watch, addonVars
<1>1. CallInv'
    BY DEF AddonInv, CallInv, ClientTypeOK, LoaderTypeOK, LoadedFirst, OnHasObserver,
        RegisterHasService
<1>2. WatchInv'
    BY DEF AddonInv, WatchInv, OneRecipient, Watched, Observing
<1>3. LoadInv'
    BY DEF AddonInv, LoadInv, LockInv, CauseInv
<1>4. \A o \in Observer : (Held(o)' <=> Held(o)) /\ (Hooked(o)' <=> Hooked(o))
    BY DEF Held, Hooked
<1>5. CountInv'
    <2>1. contexts' = {o \in Observer : (Held(o) \/ Hooked(o))'}
        BY <1>4 DEF AddonInv, CountInv
    <2>2. tsfn' \in [Observer -> -1..2] /\ \A o \in Observer : References(o)'
        BY <1>4 DEF AddonInv, CountInv, References
    <2> QED
        BY <2>1, <2>2 DEF AddonInv, CountInv
<1> QED
    BY <1>1, <1>2, <1>3, <1>5 DEF AddonInv

LEMMA NextInv ==
    ASSUME AddonInv, [Next]_vars
    PROVE  AddonInv'
<1>1. CASE Next
    BY <1>1, ClientTypes, OneRecipientStep, WatchedStep, LoadCauses, CountStep
    DEF AddonInv, WatchInv
<1> QED
    BY <1>1, StutterInv

LEMMA AlwaysInv == Spec => []AddonInv
    BY InitInv, NextInv, PTL DEF Spec

(* Every state of the process has its type: a thread-safe function never   *)
(* has more references than its hook's and its agent's, and never loses    *)
(* more than one too many (napi_release_threadsafe_function of the hook    *)
(* and of the context, and a call that answers napi_closing).              *)
THEOREM ClientTypesCorrect == Spec => []TypeOK
<1>1. AddonInv => TypeOK
    BY DEF AddonInv, CallInv, CountInv, TypeOK
<1> QED
    BY <1>1, AlwaysInv, PTL

(* No recipient but the one in saDeathRecipient_ is on the live service,   *)
(* however the calls of the threads overlap: OnFontObserver and            *)
(* OffFontObserver exchange both under observerLock_.                      *)
THEOREM RecipientIsOne == Spec => []OneRecipient
<1>1. AddonInv => OneRecipient
    BY DEF AddonInv, WatchInv
<1> QED
    BY <1>1, AlwaysInv, PTL

(* The observer that a process has registered would be told of the         *)
(* service's death, or another one of the process after refused repeated   *)
(* registrations (OnFontObserver), through any number of deaths, restarts  *)
(* and failed loads of the service, as long as its calls do not overlap    *)
(* and no live service has failed one of them since the registration       *)
(* (font_manager_client.cpp:189 and :207-214 drop the recipient then).     *)
THEOREM RegisteredAreWatched == Spec => []RegisteredIsWatched
<1>1. AddonInv => RegisteredIsWatched
    BY DEF AddonInv, WatchInv, Watched, RegisteredIsWatched, Observing, CallInv, ClientTypeOK
<1> QED
    BY <1>1, AlwaysInv, PTL

(* OnFontObserver has its recipient on the service before the service      *)
(* accepts its observer, if no other observer call overlaps.               *)
THEOREM AcceptedAreWatched == Spec => OkIsWatched
<1> DEFINE A == \A t \in Thread :
        pc[t] = "register" /\ pc'[t] = "ok" /\ ~overlapped => observer[t] \in attached'
<1>1. ASSUME AddonInv, [Next]_vars PROVE [A]_clientVars
    <2>1. SUFFICES ASSUME Next, NEW t \in Thread,
                          pc[t] = "register", pc'[t] = "ok", ~overlapped
                   PROVE  observer[t] \in attached'
        BY <1>1 DEF vars
    <2>2. CallInv /\ LoadedFirst /\ Watched
        BY <1>1, <2>1 DEF AddonInv, WatchInv, CallInv
    <2>3. RegisterObserver(t)
        BY <2>1, <2>2, ClientCases, RegisterAnswers DEF Begins, BeginObserving, Begin, Ends, End, Null, Goto,
            WatchService, UndoWatch, UnregisterObserver, ClearWatch,
            HasService, Die, OnRemoteDied, clientVars, CallInv, ClientTypeOK
    <2>4. service[t] = "live" /\ attached' = attached
        BY <2>1, <2>2, <2>3, RegisterAnswers DEF CallInv, ClientTypeOK
    <2> QED
        BY <2>1, <2>2, <2>4 DEF Watched
<1> QED
    BY <1>1, AlwaysInv, PTL DEF Spec, OkIsWatched

(* GetFontServiceAbility fails for a reason of this attempt: never for the *)
(* status that an earlier one has left, as InitStatus resets it under      *)
(* loadMutex_ before LoadSystemAbility.                                    *)
THEOREM NullsHaveCauses == Spec => NullHasCause
<1>1. ASSUME AddonInv, [Next]_vars PROVE [FailsWithCause]_loaderVars
    BY <1>1, LoadCauses DEF AddonInv, vars
<1> QED
    BY <1>1, AlwaysInv, PTL DEF Spec, NullHasCause, FailsWithCause

(* A function keeps both references until its environment aborts it, and   *)
(* keeps none when the last holder of its agent has gone, whatever the     *)
(* service and other environments do: no leak, and no function freed under *)
(* a live environment (FontObserverEnvCleanup, ~FontObserverTsfnCtx).      *)
THEOREM TsfnsNotLeaked == Spec => []TsfnNotLeaked
<1>1. ASSUME AddonInv, NEW o \in Observer
      PROVE  (Hooked(o) => tsfn[o] = 2) /\ (o \notin contexts => tsfn[o] <= 0)
    BY <1>1 DEF AddonInv, CountInv, References
<1>2. AddonInv => TsfnNotLeaked
    BY <1>1 DEF TsfnNotLeaked
<1> QED
    BY <1>2, AlwaysInv, PTL

(* While an agent has a holder, only the notice of a death that reaches it *)
(* after its environment has aborted the function takes the last reference *)
(* (the call in CreateFontObserverAgent).                                  *)
THEOREM FreedByLateNotices == Spec => FreedByLateNotice
<1> DEFINE A == \A o \in contexts \cap contexts' :
                    tsfn[o] > 0 /\ tsfn'[o] <= 0 => o \in notices \ notices' /\ ~Hooked(o)
<1>1. ASSUME AddonInv, [Next]_vars PROVE [A]_vars
    <2>1. SUFFICES ASSUME Next, NEW o \in contexts \cap contexts',
                          tsfn[o] > 0, tsfn'[o] <= 0
                   PROVE  o \in notices \ notices' /\ ~Hooked(o)
        BY <1>1
    <2>2. o \in Observer /\ tsfn[o] \in -1..2 /\ References(o) /\ notices \subseteq Observer
        BY <1>1 DEF AddonInv, CountInv, CallInv, ClientTypeOK
    <2>3. ASSUME NEW aborted, \A p \in aborted : Hooked(p), CountTsfn(aborted, {})
          PROVE  FALSE
        <3>1. tsfn'[o] = tsfn[o] - One(o \in aborted)
            BY <2>1, <2>2, <2>3 DEF CountTsfn, One
        <3> QED
            BY <2>1, <2>2, <2>3, <3>1 DEF References, One
    <2>4. PICK q \in Observer : OnServiceDied(q)
        BY <1>1, <2>1, <2>3, NextCounts DEF AddonInv
    <2>5. /\ q \in notices /\ notices' = notices \ {q}
          /\ CountTsfn({}, {p \in {q} : ~Hooked(q) /\ tsfn[q] > 0})
        BY <2>4 DEF OnServiceDied, OnRemoteDied
    <2>6. o \in {p \in {q} : ~Hooked(q) /\ tsfn[q] > 0}
        <3>1. tsfn'[o] = tsfn[o] - One(o \in {p \in {q} : ~Hooked(q) /\ tsfn[q] > 0})
            BY <2>1, <2>2, <2>5 DEF CountTsfn, One
        <3> QED
            BY <2>1, <2>2, <3>1 DEF One
    <2> QED
        BY <2>5, <2>6
<1> QED
    BY <1>1, AlwaysInv, PTL DEF Spec, FreedByLateNotice
=============================================================================
