-------------------------- MODULE FontManagerAddon ---------------------------
(***************************************************************************)
(* The observer calls of the JS binding                                    *)
(* (interfaces/js/kits/src/font_manager_addon.cpp) over the client of      *)
(* module FontManagerClient.                                               *)
(*                                                                         *)
(* Each thread is the JS thread of one environment; all environments of    *)
(* the process share the client.  An observer is an agent whose callback   *)
(* calls a thread-safe function of its environment.  The agent may be used *)
(* on any thread, long after the environment has ended, so the function is *)
(* counted: one reference for the environment, given back by a cleanup     *)
(* hook that aborts it, and one for the agent, given back when the last    *)
(* holder of the context (the agent, the hook's data) lets go of it.       *)
(* N-API is external: a call of a function that has been aborted answers   *)
(* napi_closing and takes the caller's reference.                          *)
(***************************************************************************)
EXTENDS FontManagerClient, Integers

VARIABLES
    hooks,      \* the observers for which each environment has a cleanup hook
    contexts,   \* the observers whose FontObserverTsfnCtx exists
    tsfn,       \* the references to the thread-safe function of each
                \* observer: those acquired less those given back
    ending      \* the environments that are being finalized

addonVars == <<hooks, contexts, tsfn, ending>>
vars == <<loaderVars, clientVars, addonVars>>

TypeOK ==
    /\ ClientTypeOK
    /\ hooks \in [Thread -> SUBSET Observer]
    /\ contexts \subseteq Observer
    /\ tsfn \in [Observer -> -1..2]
    /\ ending \subseteq Thread

Init ==
    /\ ClientInit
    /\ hooks = [t \in Thread |-> {}]
    /\ contexts = {}
    /\ tsfn = [o \in Observer |-> 0]
    /\ ending = {}

(***************************************************************************)
(* An agent is held by the call it was created for, by the recipient that  *)
(* the client remembers, by recipients on a binder or about to be called,  *)
(* and by the service.  ~FontObserverTsfnCtx releases the function in the  *)
(* step in which the last holder goes.                                     *)
(***************************************************************************)
Held(o) ==
    \/ \E t \in Thread : observer[t] = o
    \/ o \in {registered, saDeathRecipient} \cup attached \cup notices
Hooked(o) == \E t \in Thread : o \in hooks[t]

Contexts == contexts' = {o \in Observer : (Held(o) \/ Hooked(o))'}
One(b) == IF b THEN 1 ELSE 0

(* Mutant: the function is created without a reference for the agent. *)
TsfnOfEnvOnly(aborted, closing) ==
    /\ Contexts
    /\ tsfn' = [o \in Observer |->
        IF o \in contexts' \ contexts THEN 1
        ELSE tsfn[o] - One(o \in aborted \cup closing \cup (contexts \ contexts'))]

(* Mutant: the context does not release the function. *)
NoRelease(aborted, closing) ==
    /\ Contexts
    /\ tsfn' = [o \in Observer |->
        IF o \in contexts' \ contexts THEN 2
        ELSE tsfn[o] - One(o \in aborted) - One(o \in closing)]

CountTsfn(aborted, closing) ==
    /\ Contexts
    /\ tsfn' = [o \in Observer |->
        IF o \in contexts' \ contexts THEN 2
        ELSE tsfn[o] - One(o \in aborted) - One(o \in closing)
                     - One(o \in contexts \ contexts')]

KeepHooks == UNCHANGED <<hooks, ending>> /\ CountTsfn({}, {})

(***************************************************************************)
(* OnFontObserver.  A function or a hook that cannot be created leaves     *)
(* nothing behind.                                                         *)
(***************************************************************************)
OnFontObserver(t) ==
    /\ \E o \in Observer \ contexts :
        /\ BeginObserving(t, "on", o)
        /\ hooks' = [hooks EXCEPT ![t] = @ \cup {o}]
    /\ CountTsfn({}, {})
    /\ UNCHANGED ending

OnSucceeded(t) ==
    /\ pc[t] = "ok"
    /\ End(t)
    /\ UNCHANGED <<loaderVars, registration, attached, notices, watch>>
    /\ KeepHooks

(* Any other result than ERR_OK, a repeated registration as well, aborts   *)
(* the function.                                                           *)
OnFailed(t) ==
    /\ pc[t] = "failed"
    /\ hooks' = [hooks EXCEPT ![t] = @ \ {observer[t]}]
    /\ End(t)
    /\ UNCHANGED <<loaderVars, registration, attached, notices, watch, ending>>
    /\ CountTsfn({observer[t]}, {})

OffFontObserver(t) == BeginObserving(t, "off", NoObserver) /\ KeepHooks

OffReturned(t) ==
    /\ pc[t] = "offDone" /\ t \notin ending
    /\ End(t)
    /\ UNCHANGED <<loaderVars, registration, attached, notices, watch>>
    /\ KeepHooks

(***************************************************************************)
(* The end of an environment: Finalizer unregisters the observer of the    *)
(* process, whichever environment it belongs to, and the cleanup hooks     *)
(* abort the functions of this environment.  The thread may then serve a   *)
(* new environment.                                                        *)
(***************************************************************************)
Finalizer(t) ==
    /\ BeginObserving(t, "off", NoObserver)
    /\ ending' = ending \cup {t}
    /\ UNCHANGED hooks
    /\ CountTsfn({}, {})

FontObserverEnvCleanup(t) ==
    /\ pc[t] = "offDone" /\ t \in ending
    /\ hooks' = [hooks EXCEPT ![t] = {}]
    /\ ending' = ending \ {t}
    /\ End(t)
    /\ UNCHANGED <<loaderVars, registration, attached, notices, watch>>
    /\ CountTsfn(hooks[t], {})

(***************************************************************************)
(* The recipient's call reaches the agent, which calls its function.  The  *)
(* hook's abort may have come first.                                       *)
(***************************************************************************)
OnServiceDied(o) ==
    /\ OnRemoteDied(o)
    /\ UNCHANGED <<hooks, ending>>
    /\ CountTsfn({}, {p \in {o} : ~Hooked(o) /\ tsfn[o] > 0})

Step(t) ==
    \/ ClientStep(t) /\ KeepHooks
    \/ OnSucceeded(t) \/ OnFailed(t) \/ OffReturned(t) \/ FontObserverEnvCleanup(t)

Lock(t) == LockLoad(t) /\ UNCHANGED clientVars /\ KeepHooks

Next ==
    \/ \E t \in Thread :
        \/ OnFontObserver(t) \/ OffFontObserver(t) \/ Finalizer(t)
        \/ Request(t) /\ KeepHooks
        \/ Step(t) \/ Lock(t)
    \/ SamgrStep /\ UNCHANGED clientVars /\ KeepHooks
    \/ Die /\ KeepHooks
    \/ \E o \in Observer : OnServiceDied(o)

Spec == Init /\ [][Next]_vars

-----------------------------------------------------------------------------
(* The thread-safe function of an observer lives exactly as long as the    *)
(* environment or the agent can still use it: "freed only after both the   *)
(* env cleanup hook and the agent release it"                              *)
(* (font_manager_addon.cpp:411), and freed then.  Not so in the code.      *)
TsfnFreedAtLast == \A o \in Observer : tsfn[o] > 0 <=> o \in contexts

(* A function that its environment has not aborted has both references,    *)
(* whatever the service and other environments do, and none is left when   *)
(* the last holder of the agent has gone (no leak).                        *)
TsfnNotLeaked ==
    \A o \in Observer :
        /\ Hooked(o) => tsfn[o] = 2
        /\ o \notin contexts => tsfn[o] <= 0

(* As long as the agent has a holder, its function loses its last          *)
(* reference only to a notice of the service's death that comes after the  *)
(* environment has aborted it: never to the end of the environment, a      *)
(* refused registration or another observer's call.                        *)
FreedByLateNotice ==
    [][\A o \in contexts \cap contexts' :
        tsfn[o] > 0 /\ tsfn'[o] <= 0
        => o \in notices \ notices' /\ ~Hooked(o)]_vars

(* No call is ever stuck: each one can go on by itself, or waits for the   *)
(* lock of another that can, whatever becomes of the service while it is   *)
(* being loaded (the time limit of LoadSa, and loadMutex_, which           *)
(* GetFontServiceAbility holds while it waits).                            *)
CanGoOn(t) == ENABLED (Step(t) \/ Lock(t))
NeverStuck ==
    \A t \in Thread :
        pc[t] # "idle" => CanGoOn(t) \/ (loadMutex # NoThread /\ CanGoOn(loadMutex))
=============================================================================
