-------------------------- MODULE FontManagerClient --------------------------
(***************************************************************************)
(* The calls of one client process: class FontManagerClient                *)
(* (service/client/src/font_manager_client.cpp), a singleton over the      *)
(* loader of module FontServiceLoadManager.                                *)
(*                                                                         *)
(* A process that observes the service registers an observer with it and   *)
(* attaches a death recipient to its binder, to be told when the service   *)
(* dies.  The client keeps one recipient for the whole process.  The       *)
(* recipient is exchanged and dropped under observerLock_, the call to the *)
(* service is made outside of it, and the service may die between any two  *)
(* steps.                                                                  *)
(*                                                                         *)
(* Of the service, this module keeps the one observer that it has          *)
(* registered for the process (module ClientRegistry has the others).      *)
(***************************************************************************)
EXTENDS FontServiceLoadManager

CONSTANTS
    Observer,    \* bound: the observer objects that may exist at a time
    NoObserver

ASSUME ObserverAssumption == NoObserver \notin Observer

VARIABLES
    registered,         \* the observer that the service has registered
    refusal,            \* history: what a live service has done to calls
                        \* since then: "repeated" refused a second observer,
                        \* "failed" refused or lost a call otherwise
    attached,           \* the observers whose recipient is on the live service
    notices,            \* those whose recipient is about to be called
    saBinder,           \* the service that the recipient was attached to
    saDeathRecipient,   \* the observer of the recipient the client remembers
    pc, observer,       \* the call of each thread and its argument
    overlapped          \* history: two observer calls have overlapped since
                        \* the service started

registration == <<registered, refusal>>
watch == <<saBinder, saDeathRecipient>>
clientVars == <<registration, attached, notices, watch, pc, observer, overlapped>>

NoneOr(S) == S \cup {NoObserver}

ClientTypeOK ==
    /\ LoaderTypeOK
    /\ registered \in NoneOr(Observer)
    /\ refusal \in {"none", "repeated", "failed"}
    /\ attached \subseteq Observer /\ notices \subseteq Observer
    /\ saBinder \in Reference
    /\ saDeathRecipient \in NoneOr(Observer)
    /\ pc \in [Thread -> {"idle", "on", "register", "undo", "ok", "failed",
                          "off", "clear", "offDone", "request"}]
    /\ observer \in [Thread -> NoneOr(Observer)]
    /\ overlapped \in BOOLEAN

ClientInit ==
    /\ LoaderInit
    /\ registered = NoObserver /\ refusal = "none"
    /\ attached = {} /\ notices = {}
    /\ saBinder = "none" /\ saDeathRecipient = NoObserver
    /\ pc = [t \in Thread |-> "idle"]
    /\ observer = [t \in Thread |-> NoObserver]
    /\ overlapped = FALSE

(***************************************************************************)
(* Control.  Every call finds the service first.                           *)
(***************************************************************************)
Goto(t, label) == pc' = [pc EXCEPT ![t] = label] /\ UNCHANGED <<observer, overlapped>>
Observing == {t \in Thread : pc[t] \notin {"idle", "request"}}

Begin(t, label, o) ==
    /\ pc[t] = "idle"
    /\ pc' = [pc EXCEPT ![t] = label]
    /\ observer' = [observer EXCEPT ![t] = o]
    /\ BeginLoad(t)

BeginObserving(t, label, o) ==
    /\ Begin(t, label, o)
    /\ overlapped' = (overlapped \/ Observing # {})
    /\ UNCHANGED <<registration, attached, notices, watch>>

End(t) ==
    /\ pc' = [pc EXCEPT ![t] = "idle"]
    /\ observer' = [observer EXCEPT ![t] = NoObserver]
    /\ UNCHANGED overlapped

HasService(t, label) == pc[t] = label /\ load[t] = "idle" /\ service[t] # "none"
NullService(t, label, next) ==
    /\ pc[t] = label /\ load[t] = "idle" /\ service[t] = "none"
    /\ Goto(t, next)
    /\ UNCHANGED <<loaderVars, registration, attached, notices, watch>>

(***************************************************************************)
(* The death recipients of the service's binder.  While the process has    *)
(* not noticed yet that the service is dead, a recipient can still be      *)
(* taken away, and one can still be added and will be called.              *)
(***************************************************************************)
(* RemoveDeathRecipient(saDeathRecipient_), if there is one. *)
StillAttached == IF saBinder = "live" THEN attached \ {saDeathRecipient} ELSE attached
StillNoticed ==
    {notices} \cup IF saBinder = "dead" THEN {notices \ {saDeathRecipient}} ELSE {}

(* Mutant: adds the recipient and forgets the last one. *)
WatchToo(t) ==
    /\ HasService(t, "on")
    /\ saBinder' = service[t] /\ saDeathRecipient' = observer[t]
    /\ attached' = attached \cup IF service[t] = "live" THEN {observer[t]} ELSE {}
    /\ Goto(t, "register")
    /\ UNCHANGED <<loaderVars, registration, notices>>

(* Mutant: attaches a recipient only when there is none yet. *)
WatchOnce(t) ==
    /\ HasService(t, "on")
    /\ \/ saBinder # "none" /\ UNCHANGED <<attached, watch>>
       \/ /\ saBinder = "none"
          /\ saBinder' = service[t] /\ saDeathRecipient' = observer[t]
          /\ attached' = attached \cup IF service[t] = "live" THEN {observer[t]} ELSE {}
    /\ Goto(t, "register")
    /\ UNCHANGED <<loaderVars, registration, notices>>

(* OnFontObserver exchanges the recipient before it calls the service.     *)
WatchService(t) ==
    /\ HasService(t, "on")
    /\ saBinder' = service[t]
    /\ saDeathRecipient' = observer[t]
    /\ \/ /\ service[t] = "live"
          /\ attached' = StillAttached \cup {observer[t]}
          /\ notices' \in StillNoticed
       \/ /\ service[t] = "dead"
          /\ attached' = StillAttached
          /\ \E added \in {{}, {observer[t]}} :
                notices' \in {n \cup added : n \in StillNoticed}
    /\ Goto(t, "register")
    /\ UNCHANGED <<loaderVars, registration>>

UnwatchService ==
    /\ saBinder' = "none"
    /\ saDeathRecipient' = NoObserver
    /\ attached' = StillAttached
    /\ notices' \in StillNoticed

(* FontServiceDeathRecipient::OnRemoteDied, which calls the observer.      *)
OnRemoteDied(o) ==
    /\ o \in notices
    /\ notices' = notices \ {o}
    /\ UNCHANGED <<loaderVars, registration, attached, watch, pc, observer, overlapped>>

(***************************************************************************)
(* OnFontObserver.  The service refuses an observer for the permission of  *)
(* the caller, when it has registered one of this process                  *)
(* (ERR_SCOPE_FONT_REPEATED_REGISTER), or too many others.  A call may     *)
(* also fail on its way to a live service or back; a dead service answers  *)
(* nothing.  All but the repeated registration take the recipient away     *)
(* again, the one of an observer that stays registered as well.            *)
(***************************************************************************)
Registers(t) == registered = NoObserver /\ registered' = observer[t]
Fails(t) == service[t] = "live" /\ "call" \in Fault
FailedCall == refusal' = IF registered' = NoObserver THEN "none" ELSE "failed"

Registered(t) ==
    /\ service[t] = "live" /\ Registers(t)
    /\ Goto(t, "ok") /\ UNCHANGED refusal

Repeated(t) == service[t] = "live" /\ registered # NoObserver
TooMany(t) == service[t] = "live" /\ registered = NoObserver /\ "limit" \in Fault

NotRegistered(t) ==
    /\ \/ Fails(t) /\ (UNCHANGED registered \/ Registers(t)) /\ FailedCall
       \/ (TooMany(t) \/ service[t] = "dead") /\ UNCHANGED registration
    /\ Goto(t, "undo")

(* Mutant: takes a repeated registration for any other failure. *)
RegisterOrUndo(t) ==
    /\ pc[t] = "register"
    /\ \/ Registered(t) \/ NotRegistered(t)
       \/ Repeated(t) /\ Goto(t, "undo") /\ UNCHANGED registration
    /\ UNCHANGED <<loaderVars, attached, notices, watch>>

RegisterObserver(t) ==
    /\ pc[t] = "register"
    /\ \/ Registered(t) \/ NotRegistered(t)
       \/ /\ Repeated(t)
          /\ refusal' = IF refusal = "none" THEN "repeated" ELSE refusal
          /\ Goto(t, "failed") /\ UNCHANGED registered
    /\ UNCHANGED <<loaderVars, attached, notices, watch>>

UndoWatch(t) ==
    /\ pc[t] = "undo"
    /\ UnwatchService
    /\ Goto(t, "failed")
    /\ UNCHANGED <<loaderVars, registration>>

(***************************************************************************)
(* OffFontObserver, which drops the recipient whatever the service says.   *)
(***************************************************************************)
UnregisterObserver(t) ==
    /\ HasService(t, "off")
    /\ \/ service[t] = "live" /\ registered' = NoObserver /\ refusal' = "none"
       \/ Fails(t) /\ UNCHANGED registered /\ FailedCall
       \/ service[t] = "dead" /\ UNCHANGED registration
    /\ Goto(t, "clear")
    /\ UNCHANGED <<loaderVars, attached, notices, watch>>

ClearWatch(t) ==
    /\ pc[t] = "clear"
    /\ UnwatchService
    /\ Goto(t, "offDone")
    /\ UNCHANGED <<loaderVars, registration>>

(***************************************************************************)
(* The other calls (InstallFont, UninstallFont, DataMigration, ...) find   *)
(* the service and make one call to it.                                    *)
(***************************************************************************)
Request(t) ==
    /\ Begin(t, "request", NoObserver)
    /\ UNCHANGED <<registration, attached, notices, watch, overlapped>>

FinishRequest(t) ==
    /\ pc[t] = "request" /\ load[t] = "idle"
    /\ End(t)
    /\ UNCHANGED <<loaderVars, registration, attached, notices, watch>>

(***************************************************************************)
(* The service dies: its registrations are gone, and the recipients on its *)
(* binder are about to be called.                                          *)
(***************************************************************************)
Die ==
    /\ StopService
    /\ registered' = NoObserver /\ refusal' = "none"
    /\ notices' = notices \cup attached
    /\ attached' = {}
    /\ saBinder' = Dead(saBinder)
    /\ overlapped' = (\E s, t \in Observing : s # t)
    /\ UNCHANGED <<saDeathRecipient, pc, observer>>

ClientStep(t) ==
    \/ NullService(t, "on", "failed") \/ WatchService(t) \/ RegisterObserver(t)
    \/ UndoWatch(t)
    \/ NullService(t, "off", "offDone") \/ UnregisterObserver(t) \/ ClearWatch(t)
    \/ FinishRequest(t)
    \/ LoadStep(t) /\ UNCHANGED clientVars

-----------------------------------------------------------------------------
(* No recipient stays on the live service but the one that the client      *)
(* remembers, whatever calls overlap: one that it has forgotten would keep *)
(* its observer and tell it of a death nobody waits for (hence the         *)
(* RemoveDeathRecipient before every change of saDeathRecipient_).         *)
OneRecipient ==
    /\ attached \subseteq {saDeathRecipient}
    /\ attached # {} => saBinder = "live"

(* While the process has an observer registered with the service and no    *)
(* observer call is on its way, that observer would be told of the         *)
(* service's death, and after refused repeated registrations another one   *)
(* of the process, through restarts of the service and failures to reach   *)
(* it.  Not when a live service has failed a call of the process since     *)
(* then (the permission, the IPC): the client drops the recipient for such *)
(* a call, and the registration stays.  And true only when no two observer *)
(* calls have overlapped.                                                  *)
RegisteredIsWatched ==
    ~overlapped /\ Observing = {} /\ registered # NoObserver
    => /\ refusal = "none" => registered \in attached
       /\ refusal = "repeated" => attached # {}

(* An observer whose registration the service accepts has a recipient on   *)
(* that service already (AddDeathRecipient before the call): no death of   *)
(* the service after it goes unnoticed.  True of calls that do not         *)
(* overlap.                                                                *)
OkIsWatched ==
    [][\A t \in Thread :
        pc[t] = "register" /\ pc'[t] = "ok" /\ ~overlapped
        => observer[t] \in attached']_clientVars
=============================================================================
