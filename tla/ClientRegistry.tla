--------------------------- MODULE ClientRegistry ---------------------------
(***************************************************************************)
(* The applications that may install fonts of application scope: class     *)
(* FontClientRegistry (frameworks/fontmgr/src/font_client_registry.cpp).   *)
(*                                                                         *)
(* A client registers a binder, the registry attaches a death recipient to *)
(* it, and a registration ends by UnregisterClient or by the notice of the *)
(* recipient.  Both hold mutex_ while they change the maps and release it  *)
(* before they clean up the fonts of the application.                      *)
(*                                                                         *)
(* Calls that are refused change nothing and are not actions.              *)
(***************************************************************************)
EXTENDS Naturals, FiniteSets

CONSTANTS
    Token,              \* access token ids of the applications
    NoToken,
    User,               \* user ids
    InvalidUser,        \* -1, what GetCallingUserId returns when it fails
    Binder,             \* observer binders, one per run of an application
    TokenOf,            \* the application that holds a binder
    UserOf,             \* the user an application runs for
    Thread,             \* threads that serve calls and death notices
    MaxScopeFontAppNum  \* MAX_SCOPE_FONT_APP_NUM

ASSUME ClientRegistryAssumption ==
    /\ TokenOf \in [Binder -> Token]
    /\ UserOf \in [Token -> User]
    /\ IsFiniteSet(Token)
    /\ MaxScopeFontAppNum \in Nat

VARIABLES
    clients,      \* clients_: the binder of each registered application
    userClients,  \* userClients_: the registered applications of each user
    alive,        \* the binders whose process runs
    recipients,   \* how many death recipients are attached to a binder
    notices,      \* death notices sent for an application, not yet handled
    task          \* what each thread has left to do after it released mutex_

maps == <<clients, userClients>>
vars == <<maps, alive, recipients, notices, task>>

Idle == [step |-> "idle", token |-> NoToken]

IsClientRegistered(token) == token \in DOMAIN clients
GetClientCount == Cardinality(DOMAIN clients)

TypeOK ==
    /\ DOMAIN clients \subseteq Token
    /\ clients \in [DOMAIN clients -> Binder]
    /\ userClients \in [User -> SUBSET Token]
    /\ alive \subseteq Binder
    /\ recipients \in [Binder -> Nat]
    /\ notices \in [Token -> Nat]
    /\ task \in [Thread -> [step : {"idle", "cleanup", "notify"},
                            token : Token \cup {NoToken}]]

Init ==
    /\ clients = << >>
    /\ userClients = [u \in User |-> {}]
    /\ alive = Binder
    /\ recipients = [b \in Binder |-> 0]
    /\ notices = [token \in Token |-> 0]
    /\ task = [t \in Thread |-> Idle]

(* Mutant: a binder that is dead already is registered all the same. *)
RegisterDead(b) ==
    LET token == TokenOf[b]
        user == UserOf[token] IN
    /\ ~IsClientRegistered(token)
    /\ Cardinality(userClients[user]) < MaxScopeFontAppNum
    /\ recipients' = [recipients EXCEPT ![b] = IF b \in alive THEN @ + 1 ELSE @]
    /\ clients' = [k \in DOMAIN clients \cup {token} |->
                     IF k = token THEN b ELSE clients[k]]
    /\ userClients' = [userClients EXCEPT ![user] = @ \cup {token}]
    /\ UNCHANGED <<alive, notices, task>>

(* RegisterClient.  AddDeathRecipient fails on a binder that is dead.      *)
RegisterClient(b) ==
    LET token == TokenOf[b]
        user == UserOf[token] IN
    /\ ~IsClientRegistered(token)
    /\ Cardinality(userClients[user]) < MaxScopeFontAppNum
    /\ b \in alive
    /\ recipients' = [recipients EXCEPT ![b] = @ + 1]
    /\ clients' = [k \in DOMAIN clients \cup {token} |->
                     IF k = token THEN b ELSE clients[k]]
    /\ userClients' = [userClients EXCEPT ![user] = @ \cup {token}]
    /\ UNCHANGED <<alive, notices, task>>

(* Mutant: the application stays in the set of its user. *)
ForgetClient(token) ==
    /\ clients' = [k \in DOMAIN clients \ {token} |-> clients[k]]
    /\ UNCHANGED userClients

Erase(token) ==
    /\ clients' = [k \in DOMAIN clients \ {token} |-> clients[k]]
    /\ userClients' = [userClients EXCEPT ![UserOf[token]] = @ \ {token}]

(* What follows when mutex_ has been released: the cleanup unless the user *)
(* is invalid, then the callback of the server.                            *)
CleanUpAfter(t, token) ==
    task' = [task EXCEPT ![t] =
        [step |-> IF UserOf[token] = InvalidUser THEN "notify" ELSE "cleanup",
         token |-> token]]

(* Mutant: takes a recipient from a binder that has lost them already.     *)
UnregisterDead(t, token) ==
    /\ task[t] = Idle
    /\ IsClientRegistered(token)
    /\ recipients' = [recipients EXCEPT ![clients[token]] = @ - 1]
    /\ Erase(token)
    /\ CleanUpAfter(t, token)
    /\ UNCHANGED <<alive, notices>>

UnregisterClient(t, token) ==
    /\ task[t] = Idle
    /\ IsClientRegistered(token)
    /\ recipients' = [recipients EXCEPT
            ![clients[token]] = IF clients[token] \in alive THEN @ - 1 ELSE @]
    /\ Erase(token)
    /\ CleanUpAfter(t, token)
    /\ UNCHANGED <<alive, notices>>

(* The process that holds a binder ends: every recipient gets its notice.  *)
Die(b) ==
    /\ b \in alive
    /\ alive' = alive \ {b}
    /\ notices' = [notices EXCEPT ![TokenOf[b]] = @ + recipients[b]]
    /\ recipients' = [recipients EXCEPT ![b] = 0]
    /\ UNCHANGED <<maps, task>>

(* OnRemoteDied and OnClientDied.  The notice carries the application, not *)
(* the binder: it ends whatever registration the application has now.      *)
OnClientDied(t, token) ==
    /\ task[t] = Idle
    /\ notices[token] > 0
    /\ notices' = [notices EXCEPT ![token] = @ - 1]
    /\ \/ /\ IsClientRegistered(token)
          /\ Erase(token)
          /\ CleanUpAfter(t, token)
       \/ /\ ~IsClientRegistered(token)
          /\ UNCHANGED <<maps, task>>
    /\ UNCHANGED <<alive, recipients>>

CleanupAppScopeFonts(t) ==
    /\ task[t].step = "cleanup"
    /\ task' = [task EXCEPT ![t] = [step |-> "notify", token |-> task[t].token]]
    /\ UNCHANGED <<maps, alive, recipients, notices>>

NotifyClientDied(t) ==
    /\ task[t].step = "notify"
    /\ task' = [task EXCEPT ![t] = Idle]
    /\ UNCHANGED <<maps, alive, recipients, notices>>

Next ==
    \/ \E b \in Binder : RegisterClient(b) \/ Die(b)
    \/ \E t \in Thread :
        \/ \E token \in Token : UnregisterClient(t, token) \/ OnClientDied(t, token)
        \/ CleanupAppScopeFonts(t) \/ NotifyClientDied(t)

Spec == Init /\ [][Next]_vars

(* The threads run what they have begun, and the IPC framework delivers    *)
(* every notice to one of them.                                            *)
FairSpec ==
    /\ Spec
    /\ \A t \in Thread : WF_vars(CleanupAppScopeFonts(t) \/ NotifyClientDied(t))
    /\ \A token \in Token : SF_vars(\E t \in Thread : OnClientDied(t, token))

-----------------------------------------------------------------------------
(* The two maps of the registry agree: an application is in the set of its *)
(* user exactly while it is registered, so that a place taken is given     *)
(* back by either way a registration ends.                                 *)
MapsAgree ==
    \A user \in User :
        userClients[user] = {token \in DOMAIN clients : UserOf[token] = user}

(* No user has more than MAX_SCOPE_FONT_APP_NUM registered applications.   *)
WithinUserLimit ==
    \A user \in User : Cardinality(userClients[user]) <= MaxScopeFontAppNum

(* A registration cannot outlive its process unnoticed: while the process  *)
(* runs a recipient is attached to its binder, and once it has ended a     *)
(* notice for the application is on its way.                               *)
DeadIsNoticed ==
    \A token \in DOMAIN clients :
        IF clients[token] \in alive THEN recipients[clients[token]] > 0
                                    ELSE notices[token] > 0

(* The registration of a process that has ended is removed at last.        *)
DeadAreDropped ==
    \A token \in Token :
        (IsClientRegistered(token) /\ clients[token] \notin alive)
            ~> (~IsClientRegistered(token) \/ clients[token] \in alive)
=============================================================================
