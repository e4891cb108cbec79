----------------------- MODULE FontServiceLoadManager ------------------------
(***************************************************************************)
(* How a client process finds the service, and has it loaded when it is    *)
(* not there: class FontServiceLoadManager                                 *)
(* (service/client/src/font_service_load_manager.cpp).                     *)
(*                                                                         *)
(* Loading is asynchronous.  The thread that asks for it waits for at most *)
(* five seconds on one status that all attempts share, and the callback    *)
(* that sets the status (FontSALoadCallback) does not say which attempt it *)
(* answers: the callback of an attempt that has timed out may arrive while *)
(* the next one waits.                                                     *)
(*                                                                         *)
(* The system ability manager and the life of the service process are      *)
(* external: the service may come and go between any two steps.            *)
(***************************************************************************)
EXTENDS Naturals

CONSTANTS
    Thread,     \* the threads of the client process that make calls
    NoThread,
    MaxLate,    \* bound: the callbacks of earlier attempts that may still come
    Fault       \* failures of the environment

ASSUME LoaderAssumption ==
    /\ NoThread \notin Thread
    /\ MaxLate \in Nat
    /\ Fault \subseteq {"samgr", "refuse", "limit", "call"}

VARIABLES
    running,        \* the service is known to the system ability manager
    pending,        \* the callback of the attempt waited for is to come
    late,           \* number of callbacks to come of attempts given up
    loadMutex,      \* the thread that holds loadMutex_
    loadSaStatus,   \* loadSaStatus_
    load,           \* where GetFontServiceAbility of each thread stands
    service,        \* what it returned: nothing, or a service that is
                    \* "live" or has died since
    cause           \* history: since the last InitStatus the service has
                    \* stopped, or a failure or a late callback has come

samgr == <<running, pending, late>>
loader == <<loadMutex, loadSaStatus, load, service, cause>>
loaderVars == <<samgr, loader>>

Reference == {"none", "live", "dead"}

LoaderTypeOK ==
    /\ running \in BOOLEAN /\ pending \in BOOLEAN /\ cause \in BOOLEAN
    /\ late \in 0..MaxLate
    /\ loadMutex \in Thread \cup {NoThread}
    /\ loadSaStatus \in {"WAIT_RESULT", "SUCCESS", "FAIL"}
    /\ load \in [Thread -> {"idle", "check", "lock", "load", "wait", "get"}]
    /\ service \in [Thread -> Reference]

LoaderInit ==
    /\ running = FALSE /\ pending = FALSE /\ late = 0
    /\ loadMutex = NoThread
    /\ loadSaStatus = "WAIT_RESULT"
    /\ load = [t \in Thread |-> "idle"]
    /\ service = [t \in Thread |-> "none"]
    /\ cause = FALSE

(***************************************************************************)
(* GetFontServiceAbility.  A callback that comes between InitStatus and    *)
(* LoadSystemAbility might as well come after them.                        *)
(***************************************************************************)
GoOn(t, label) == load' = [load EXCEPT ![t] = label] /\ UNCHANGED service
Answer(t, ref) ==
    /\ load' = [load EXCEPT ![t] = "idle"]
    /\ service' = [service EXCEPT ![t] = ref]
Unlock(t, ref) == Answer(t, ref) /\ loadMutex' = NoThread

BeginLoad(t) ==
    /\ load' = [load EXCEPT ![t] = "check"]
    /\ service' = [service EXCEPT ![t] = "none"]
    /\ UNCHANGED <<samgr, loadMutex, loadSaStatus, cause>>

CheckSystemAbility(t) ==
    /\ load[t] = "check"
    /\ \/ "samgr" \in Fault /\ Answer(t, "none")
       \/ running /\ Answer(t, "live")
       \/ ~running /\ GoOn(t, "lock")
    /\ UNCHANGED <<samgr, loadMutex, loadSaStatus, cause>>

(* The thread that gets loadMutex_ checks again first. *)
LockLoad(t) ==
    /\ load[t] = "lock"
    /\ loadMutex = NoThread
    /\ \/ running /\ Answer(t, "live") /\ UNCHANGED loadMutex
       \/ ~running /\ GoOn(t, "load") /\ loadMutex' = t
    /\ UNCHANGED <<samgr, loadSaStatus, cause>>

(* Mutant: leaves the status of the last attempt. *)
KeepStatus == cause' = FALSE /\ UNCHANGED loadSaStatus

InitStatus == cause' = FALSE /\ loadSaStatus' = "WAIT_RESULT"

LoadSystemAbility(t) ==
    /\ load[t] = "load"
    /\ InitStatus
    /\ \/ /\ Fault \cap {"samgr", "refuse"} # {}
          /\ Unlock(t, "none")
          /\ UNCHANGED pending
       \/ /\ pending' = TRUE
          /\ GoOn(t, "wait")
          /\ UNCHANGED loadMutex
    /\ UNCHANGED <<running, late>>

(* The attempt is over.  Its callback may still come, late, if it has not. *)
(* The bound: of more than MaxLate such callbacks the others never come.   *)
GiveUp ==
    /\ pending' = FALSE
    /\ late' = IF pending /\ late < MaxLate THEN late + 1 ELSE late

WaitResult(t) ==
    /\ load[t] = "wait"
    /\ \/ /\ loadSaStatus = "SUCCESS"
          /\ GoOn(t, "get") /\ UNCHANGED loadMutex
       \/ /\ loadSaStatus = "FAIL"
          /\ Unlock(t, "none")
    /\ GiveUp
    /\ UNCHANGED <<running, loadSaStatus, cause>>

(* Mutant: waits without a time limit. *)
NoTimeout(t) == FALSE /\ UNCHANGED loaderVars

(* wait_for looks at the status once more when the time is over.           *)
Timeout(t) ==
    /\ load[t] = "wait"
    /\ loadSaStatus = "WAIT_RESULT"
    /\ Unlock(t, "none")
    /\ GiveUp
    /\ UNCHANGED <<running, loadSaStatus, cause>>

GetSystemAbility(t) ==
    /\ load[t] = "get"
    /\ Unlock(t, IF running THEN "live" ELSE "none")
    /\ UNCHANGED <<samgr, loadSaStatus, cause>>

(***************************************************************************)
(* The callbacks, on a thread of their own, under serviceLock_.            *)
(***************************************************************************)
OnLoadSystemAbilitySuccess == loadSaStatus' = "SUCCESS"
OnLoadSystemAbilityFail == loadSaStatus' = "FAIL"

(* The callback of the attempt that is waited for. *)
Callback ==
    /\ pending
    /\ pending' = FALSE
    /\ \/ running /\ OnLoadSystemAbilitySuccess /\ UNCHANGED cause
       \/ ~running /\ OnLoadSystemAbilityFail /\ cause' = TRUE
    /\ UNCHANGED <<running, late, loadMutex, load, service>>

(* The callback of an earlier attempt, with the result of that time. *)
LateCallback ==
    /\ late > 0
    /\ late' = late - 1
    /\ OnLoadSystemAbilitySuccess \/ OnLoadSystemAbilityFail
    /\ cause' = TRUE
    /\ UNCHANGED <<running, pending, loadMutex, load, service>>

(***************************************************************************)
(* The service starts, for this client or for another one; the service     *)
(* unloads itself or dies.                                                 *)
(***************************************************************************)
StartService ==
    /\ ~running
    /\ running' = TRUE
    /\ UNCHANGED <<pending, late, loader>>

Dead(ref) == IF ref = "live" THEN "dead" ELSE ref
StopService ==
    /\ running
    /\ running' = FALSE
    /\ cause' = TRUE
    /\ service' = [t \in Thread |-> Dead(service[t])]
    /\ UNCHANGED <<pending, late, loadMutex, loadSaStatus, load>>

LoadStep(t) ==
    \/ CheckSystemAbility(t) \/ LoadSystemAbility(t)
    \/ WaitResult(t) \/ Timeout(t) \/ GetSystemAbility(t)

SamgrStep == Callback \/ LateCallback \/ StartService

-----------------------------------------------------------------------------
(* An attempt to load the service fails for a reason of its own: the load  *)
(* was refused, its time was over, the service stopped, or a failure or a  *)
(* late callback of another attempt came while it ran.  The result that an *)
(* earlier attempt left in loadSaStatus_ never answers it (InitStatus).    *)
NullHasCause ==
    [][\A t \in Thread :
        /\ load[t] \in {"wait", "get"}
        /\ load'[t] = "idle" /\ service'[t] = "none"
        => cause \/ loadSaStatus = "WAIT_RESULT"]_loaderVars
=============================================================================
