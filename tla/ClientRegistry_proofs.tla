----------------------- MODULE ClientRegistry_proofs ------------------------
(***************************************************************************)
(* Proofs about ClientRegistry: its type invariant, the agreement of its   *)
(* two maps, the limit per user, and that no dead client goes unnoticed.   *)
(***************************************************************************)
EXTENDS ClientRegistry, FiniteSetTheorems, TLAPS

(* No registration holds the binder of another application.                *)
OwnBinder == \A token \in DOMAIN clients : TokenOf[clients[token]] = token

(* The types alone are not inductive: that UnregisterClient takes a        *)
(* recipient from a binder that has one is part of DeadIsNoticed, which in *)
(* turn needs OwnBinder, so that the death of one application does not     *)
(* take the recipient of another.                                          *)
NoticeInv == TypeOK /\ OwnBinder /\ DeadIsNoticed

(* A registry without clients has nobody to watch.                         *)
LEMMA InitNotice == Init => NoticeInv
<1> SUFFICES ASSUME Init PROVE NoticeInv
    OBVIOUS
<1>1. DOMAIN clients = {} /\ clients \in [DOMAIN clients -> Binder]
    BY DEF Init
<1> QED
    BY <1>1 DEF Init, NoticeInv, TypeOK, OwnBinder, DeadIsNoticed, Idle

(* No registration, unregistration, death or notice leaves a client        *)
(* unwatched.                                                              *)
LEMMA NextNotice == NoticeInv /\ [Next]_vars => NoticeInv'
<1> SUFFICES ASSUME NoticeInv, [Next]_vars PROVE NoticeInv'
    OBVIOUS
<1> USE ClientRegistryAssumption DEF NoticeInv, IsClientRegistered
<1>1. ASSUME NEW b \in Binder, RegisterClient(b) PROVE NoticeInv'
    <2>1. TypeOK'
        BY <1>1 DEF RegisterClient, TypeOK
    <2>2. OwnBinder'
        BY <1>1 DEF RegisterClient, TypeOK, OwnBinder
    <2>3. DeadIsNoticed'
        BY <1>1 DEF RegisterClient, TypeOK, DeadIsNoticed
    <2> QED
        BY <2>1, <2>2, <2>3
<1>2. ASSUME NEW b \in Binder, Die(b) PROVE NoticeInv'
    <2>1. TypeOK' /\ OwnBinder'
        BY <1>2 DEF Die, TypeOK, OwnBinder, maps
    <2>2. DeadIsNoticed'
        BY <1>2 DEF Die, TypeOK, OwnBinder, DeadIsNoticed, maps
    <2> QED
        BY <2>1, <2>2
<1>3. ASSUME NEW t \in Thread, NEW token \in Token, UnregisterClient(t, token)
      PROVE NoticeInv'
    <2>1. recipients' \in [Binder -> Nat]
        BY <1>3 DEF UnregisterClient, TypeOK, DeadIsNoticed
    <2>2. TypeOK'
        BY <1>3, <2>1 DEF UnregisterClient, Erase, CleanUpAfter, TypeOK
    <2>3. OwnBinder' /\ DeadIsNoticed'
        BY <1>3 DEF UnregisterClient, Erase, TypeOK, OwnBinder, DeadIsNoticed
    <2> QED
        BY <2>2, <2>3
<1>4. ASSUME NEW t \in Thread, NEW token \in Token, OnClientDied(t, token)
      PROVE NoticeInv'
    <2>1. TypeOK'
        BY <1>4 DEF OnClientDied, Erase, CleanUpAfter, TypeOK, maps
    <2>2. OwnBinder' /\ DeadIsNoticed'
        BY <1>4 DEF OnClientDied, Erase, TypeOK, OwnBinder, DeadIsNoticed, maps
    <2> QED
        BY <2>1, <2>2
<1>5. ASSUME NEW t \in Thread, CleanupAppScopeFonts(t) \/ NotifyClientDied(t)
      PROVE NoticeInv'
    BY <1>5 DEF CleanupAppScopeFonts, NotifyClientDied, maps, Idle, TypeOK,
                OwnBinder, DeadIsNoticed
<1>6. CASE UNCHANGED vars
    BY <1>6 DEF vars, maps, TypeOK, OwnBinder, DeadIsNoticed
<1> QED
    BY <1>1, <1>2, <1>3, <1>4, <1>5, <1>6 DEF Next

(* The strengthened invariant of OnRemoteDied holds in every state.        *)
THEOREM NoticeInvariant == Spec => []NoticeInv
BY InitNotice, NextNotice, PTL DEF Spec

(* The variables of the registry keep their types; in particular no binder *)
(* ever loses more recipients than RegisterClient attached to it.          *)
THEOREM TypeCorrect == Spec => []TypeOK
<1>1. NoticeInv => TypeOK
    BY DEF NoticeInv
<1> QED
    BY <1>1, NoticeInvariant, PTL

(* A registration is watched while its process runs, and its end is on its *)
(* way when the process has ended (AddDeathRecipient before the insertion  *)
(* into clients_, OnRemoteDied).                                           *)
THEOREM NoDeadClientUnnoticed == Spec => []DeadIsNoticed
<1>1. NoticeInv => DeadIsNoticed
    BY DEF NoticeInv
<1> QED
    BY <1>1, NoticeInvariant, PTL
-----------------------------------------------------------------------------
(* RegisterClient fills both maps and Erase, the common part of            *)
(* UnregisterClient and OnClientDied, empties both, under mutex_.          *)
LimitInv == TypeOK /\ MapsAgree /\ WithinUserLimit

(* UnregisterClient and OnClientDied take the client out of both maps.     *)
LEMMA EraseAgrees ==
    ASSUME TypeOK, MapsAgree, WithinUserLimit, NEW token \in Token, Erase(token)
    PROVE  MapsAgree' /\ WithinUserLimit'
<1> USE ClientRegistryAssumption DEF TypeOK, Erase
<1>1. MapsAgree'
    BY DEF MapsAgree
<1>2. ASSUME NEW user \in User
      PROVE  Cardinality(userClients'[user]) <= MaxScopeFontAppNum
    <2>1. IsFiniteSet(userClients[user])
        BY FS_Subset
    <2>2. userClients'[user] \subseteq userClients[user]
        OBVIOUS
    <2>3. /\ IsFiniteSet(userClients'[user])
          /\ Cardinality(userClients'[user]) <= Cardinality(userClients[user])
        BY <2>1, <2>2, FS_Subset
    <2>4. Cardinality(userClients[user]) \in Nat /\ Cardinality(userClients'[user]) \in Nat
        BY <2>1, <2>3, FS_CardinalityType
    <2> QED
        BY <2>3, <2>4 DEF WithinUserLimit
<1> QED
    BY <1>1, <1>2 DEF WithinUserLimit

(* RegisterClient puts the client into both maps, below the limit of its   *)
(* user.                                                                   *)
LEMMA RegisterAgrees ==
    ASSUME TypeOK, MapsAgree, WithinUserLimit, NEW b \in Binder, RegisterClient(b)
    PROVE  MapsAgree' /\ WithinUserLimit'
<1> USE ClientRegistryAssumption DEF TypeOK, RegisterClient, IsClientRegistered
<1>1. MapsAgree'
    BY DEF MapsAgree
<1>2. ASSUME NEW user \in User
      PROVE  Cardinality(userClients'[user]) <= MaxScopeFontAppNum
    <2>1. IsFiniteSet(userClients[user]) /\ Cardinality(userClients[user]) \in Nat
        BY FS_Subset, FS_CardinalityType
    <2>2. CASE user = UserOf[TokenOf[b]]
        <3>1. userClients'[user] = userClients[user] \cup {TokenOf[b]}
            BY <2>2
        <3>2. Cardinality(userClients'[user]) <= Cardinality(userClients[user]) + 1
            <4> DEFINE S == userClients[user]  x == TokenOf[b]
            <4>1. Cardinality(S \cup {x}) = IF x \in S THEN Cardinality(S)
                                                      ELSE Cardinality(S) + 1
                BY <2>1, FS_AddElement
            <4> HIDE DEF S, x
            <4>2. Cardinality(S) \in Nat
                BY <2>1 DEF S
            <4>3. Cardinality(S \cup {x}) <= Cardinality(S) + 1
                BY <4>1, <4>2
            <4> QED
                BY <3>1, <4>3 DEF S, x
        <3>3. Cardinality(userClients[user]) < MaxScopeFontAppNum
            BY <2>2
        <3>4. IsFiniteSet(userClients'[user])
            BY <2>1, <3>1, FS_AddElement
        <3>5. Cardinality(userClients'[user]) \in Nat
            BY <3>4, FS_CardinalityType
        <3> QED
            BY <2>1, <3>2, <3>3, <3>5
    <2>3. CASE user # UserOf[TokenOf[b]]
        BY <2>3 DEF WithinUserLimit
    <2> QED
        BY <2>2, <2>3
<1> QED
    BY <1>1, <1>2 DEF WithinUserLimit

(* Every step keeps the maps in agreement and each user within its limit.  *)
LEMMA NextLimit == LimitInv /\ [Next]_vars => MapsAgree' /\ WithinUserLimit'
<1> SUFFICES ASSUME LimitInv, [Next]_vars PROVE MapsAgree' /\ WithinUserLimit'
    OBVIOUS
<1> USE DEF LimitInv
<1>1. ASSUME NEW b \in Binder, RegisterClient(b)
      PROVE  MapsAgree' /\ WithinUserLimit'
    BY <1>1, RegisterAgrees
<1>2. ASSUME NEW token \in Token, Erase(token) PROVE MapsAgree' /\ WithinUserLimit'
    BY <1>2, EraseAgrees
<1>3. CASE UNCHANGED maps
    BY <1>3 DEF maps, MapsAgree, WithinUserLimit
<1>4. CASE UNCHANGED vars
    BY <1>3, <1>4 DEF vars
<1>5. ASSUME NEW b \in Binder, Die(b) PROVE UNCHANGED maps
    BY <1>5 DEF Die
<1>6. ASSUME NEW t \in Thread, CleanupAppScopeFonts(t) \/ NotifyClientDied(t)
      PROVE  UNCHANGED maps
    BY <1>6 DEF CleanupAppScopeFonts, NotifyClientDied
<1>7. ASSUME NEW t \in Thread, NEW token \in Token,
             UnregisterClient(t, token) \/ OnClientDied(t, token)
      PROVE  Erase(token) \/ UNCHANGED maps
    BY <1>7 DEF UnregisterClient, OnClientDied
<1> QED
    BY <1>1, <1>2, <1>3, <1>4, <1>5, <1>6, <1>7 DEF Next

(* The empty maps agree.                                                   *)
LEMMA InitLimit == Init => MapsAgree /\ WithinUserLimit
<1> SUFFICES ASSUME Init PROVE MapsAgree /\ WithinUserLimit
    OBVIOUS
<1>1. DOMAIN clients = {}
    BY DEF Init
<1> QED
    BY <1>1, FS_EmptySet, ClientRegistryAssumption
       DEF Init, MapsAgree, WithinUserLimit

(* The maps agree and no user is over its limit, in every state.           *)
THEOREM LimitInvariant == Spec => [](MapsAgree /\ WithinUserLimit)
<1>1. TypeOK /\ (MapsAgree /\ WithinUserLimit) /\ [Next]_vars
        => (MapsAgree /\ WithinUserLimit)'
    BY NextLimit DEF LimitInv
<1> QED
    BY <1>1, InitLimit, TypeCorrect, PTL DEF Spec

(* An application counts for its user exactly while it is registered.      *)
THEOREM RegistryAgrees == Spec => []MapsAgree
BY LimitInvariant, PTL

(* RegisterClient keeps every user within MAX_SCOPE_FONT_APP_NUM clients.  *)
THEOREM UserLimitHolds == Spec => []WithinUserLimit
BY LimitInvariant, PTL
=============================================================================
