------------------------ MODULE UserDocument_proofs ------------------------
(***************************************************************************)
(* Proofs about UserDocument, for every set of statuses.  What goes wrong  *)
(* in this class goes wrong between two of its handlers, yet most handlers *)
(* end in reconnectIfPossibleWithStatus:.  So the proofs are about that    *)
(* method: ReconnectKeeps says what it establishes, whatever the document  *)
(* believed when it was called, and each handler only has to be shown to   *)
(* call it properly.                                                       *)
(***************************************************************************)
EXTENDS UserDocument, TLAPS

ConnectionOK ==
    /\ Client!SessionTypeOK
    /\ clientStatus \in Statuses /\ current \in Statuses
    /\ ui \in UI
    /\ available \in BOOLEAN
    /\ DownMeansDisconnected
    /\ RetryMeansDown
    /\ OfflineIsShown

AimOK ==
    /\ target \in Statuses
    /\ selected \in Statuses \cup {"nil"}
    /\ selected = "nil" => target = "Offline"
    /\ TargetIsSelected

FlagsOK == {fromFile, unchecked, sleeping, reachable, notified, idle, asleep} \subseteq BOOLEAN

IInv == ConnectionOK /\ AimOK /\ FlagsOK

-----------------------------------------------------------------------------
(* Lemmas about the helpers.                                               *)

\* No status is called nil, and the three named ones are statuses.
LEMMA Names ==
    /\ {"Offline", "Available", "Away"} \subseteq Statuses
    /\ "nil" \notin Statuses
BY StatusAssumption DEF Statuses, Selectable

\* After endSheet: no offer to retry is left.
LEMMA EndedSheet ==
    ASSUME NEW u \in UI, NEW v \in SheetEnded(u)
    PROVE  v \in UI /\ v.sheet # "network"
BY DEF SheetEnded, UI

\* Complaining adds the offer to retry at most.
LEMMA ComplainedSheet ==
    ASSUME NEW u \in UI
    PROVE  Complained(u) \in UI
BY DEF Complained, UI

\* setStatus: leaves a connection with the status, or none.
LEMMA ClientKeeps ==
    ASSUME ConnectionOK, NEW st \in Statuses, ClientTakes(st) \/ ClientRefuses(st)
    PROVE  /\ Client!SessionTypeOK'
           /\ clientStatus' \in Statuses /\ current' \in Statuses
           /\ OfflineIsShown'
           /\ phase' # "offline" => clientStatus' = st /\ st # "Offline"
BY Names DEF ConnectionOK, ClientTakes, ClientRefuses, OfflineIsShown,
      Client!SessionTypeOK, Client!Drop, Client!Begin, Client!Refuse,
      Client!Signal, Client!Reason

\* setStatus: Offline leaves no connection; a refused one is none.
LEMMA ClientOff ==
    ASSUME ConnectionOK, NEW st \in Statuses,
           (ClientTakes(st) /\ st = "Offline") \/ ClientRefuses(st)
    PROVE  phase' = "offline"
BY DEF ConnectionOK, ClientTakes, ClientRefuses, Client!SessionTypeOK,
      Client!Drop, Client!Begin, Client!Refuse

\* What reconnectIfPossibleWithStatus: establishes, provided that the caller
\* believes in the network whenever there is a connection, and does not show
\* the offer to retry while he believes in it.
LEMMA ReconnectKeeps ==
    ASSUME ConnectionOK,
           NEW st \in Statuses, NEW av \in BOOLEAN, NEW u \in UI,
           ~av => phase = "offline",
           u.sheet = "network" => ~av,
           Reconnect(st, av, u)
    PROVE  ConnectionOK'
<1>1. CASE UNCHANGED client /\ available' = av /\ ui' = u
  BY <1>1 DEF ConnectionOK, client, DownMeansDisconnected, RetryMeansDown,
              OfflineIsShown, Client!SessionTypeOK
<1>2. ASSUME NEW ended \in SheetEnded(u),
             ClientTakes(st), available' = TRUE, ui' = ended
      PROVE  ConnectionOK'
  BY <1>2, ClientKeeps, EndedSheet
     DEF ConnectionOK, DownMeansDisconnected, RetryMeansDown
<1>3. ASSUME NEW ended \in SheetEnded(u),
             ClientRefuses(st), available' = FALSE, ui' = Complained(ended)
      PROVE  ConnectionOK'
  <2>1. Complained(ended) \in UI
    BY EndedSheet, ComplainedSheet
  <2> QED
    BY <1>3, <2>1, ClientKeeps, ClientOff
       DEF ConnectionOK, DownMeansDisconnected, RetryMeansDown
<1>4. CASE /\ ClientTakes("Offline") /\ available' = FALSE
           /\ ui' = IF av THEN Complained(u) ELSE u
  <2>1. ui' \in UI
    BY <1>4, ComplainedSheet
  <2> QED
    BY <1>4, <2>1, Names, ClientKeeps, ClientOff
       DEF ConnectionOK, DownMeansDisconnected, RetryMeansDown
<1> QED
  BY <1>1, <1>2, <1>3, <1>4 DEF Reconnect

\* A handler that only changes what the document aims for keeps the rest.
LEMMA ConnectionUnchanged ==
    ASSUME ConnectionOK, UNCHANGED <<client, available, ui>>
    PROVE  ConnectionOK'
BY DEF ConnectionOK, client, DownMeansDisconnected, RetryMeansDown,
       OfflineIsShown, Client!SessionTypeOK

\* ReconnectKeeps for the handlers that call it with the document as it is.
LEMMA ReconnectAsIs ==
    ASSUME ConnectionOK, NEW st \in Statuses,
           Reconnect(st, available, ui)
    PROVE  ConnectionOK'
BY ReconnectKeeps DEF ConnectionOK, DownMeansDisconnected, RetryMeansDown

\* Retarget keeps the connection's invariants.
LEMMA RetargetKeeps ==
    ASSUME ConnectionOK, NEW st \in Statuses, Retarget(st)
    PROVE  ConnectionOK'
<1>1. CASE available
  BY <1>1, ReconnectAsIs DEF Retarget, ConnectionOK
<1>2. CASE ~available
  BY <1>2, ConnectionUnchanged DEF Retarget
<1> QED
  BY <1>1, <1>2

-----------------------------------------------------------------------------
(* The invariant is inductive.                                             *)

\* Every document starts in the invariant.
LEMMA InitOK == Init => IInv
BY Names DEF Init, IInv, ConnectionOK, AimOK, FlagsOK, TargetIsSelected, UI,
      DownMeansDisconnected, RetryMeansDown, OfflineIsShown,
      Client!SessionInit, Client!SessionTypeOK, Client!Signal

\* Every step keeps what concerns the connection.
LEMMA ConnectionStep == IInv /\ [Next]_vars => ConnectionOK'
<1> SUFFICES ASSUME IInv, [Next]_vars PROVE ConnectionOK'
  OBVIOUS
<1> USE DEF IInv
<1>1. ASSUME NEW st \in Statuses, Open(st) \/ UserDidRequestStatus(st)
      PROVE  ConnectionOK'
  BY <1>1, ReconnectAsIs DEF Open, UserDidRequestStatus
<1>2. CASE RetryNow
  <2>1. PICK u \in SheetEnded(ui) : Reconnect(target, TRUE, u)
    BY <1>2 DEF RetryNow
  <2>2. u \in UI /\ u.sheet # "network"
    BY EndedSheet DEF ConnectionOK
  <2> QED
    BY <2>1, <2>2, ReconnectKeeps DEF AimOK
<1>3. CASE DismissSheet
  <2>1. ui' \in UI /\ ui'.sheet # "network"
    BY <1>3, EndedSheet DEF DismissSheet, ConnectionOK, UI
  <2> QED
    BY <1>3, <2>1
       DEF DismissSheet, ConnectionOK, client, DownMeansDisconnected,
           RetryMeansDown, OfflineIsShown, Client!SessionTypeOK
<1>4. CASE EnterPassword
  <2> DEFINE u == [ui EXCEPT !.sheet = "none"]
  <2>1. u \in UI /\ u.sheet = "none"
    BY DEF ConnectionOK, UI
  <2>2. Reconnect(target, available, u)
    BY <1>4 DEF EnterPassword
  <2>3. ~available => phase = "offline"
    BY DEF ConnectionOK, DownMeansDisconnected
  <2>4. target \in Statuses /\ available \in BOOLEAN
    BY DEF AimOK, ConnectionOK
  <2> HIDE DEF u
  <2> QED
    BY <2>1, <2>2, <2>3, <2>4, ReconnectKeeps
<1>5. CASE LoggedIn
  BY <1>5 DEF LoggedIn, ConnectionOK, DownMeansDisconnected, RetryMeansDown,
      OfflineIsShown, Client!LogIn, Client!SessionTypeOK, Client!Signal
<1>6. CASE StatusEcho
  BY <1>6 DEF StatusEcho, ConnectionOK, DownMeansDisconnected, RetryMeansDown,
      OfflineIsShown, Client!SessionTypeOK
<1>7. ASSUME NEW r \in Client!Reason, Disconnected(r)
      PROVE  ConnectionOK'
  <2>1. ui' \in UI /\ (ui'.sheet = "network" => ~available')
    BY <1>7, ComplainedSheet
       DEF Disconnected, ConnectionOK, UI, RetryMeansDown
  <2> QED
    BY <1>7, <2>1, Names
       DEF Disconnected, ConnectionOK, DownMeansDisconnected, RetryMeansDown,
           OfflineIsShown, Client!Drop, Client!SessionTypeOK, Client!Signal
<1>8. CASE NetworkConfigurationChanged
  BY <1>8, ReconnectAsIs, ConnectionUnchanged DEF NetworkConfigurationChanged, AimOK
<1>9. CASE SystemWillSleep
  <2>1. CASE available
    BY <1>9, <2>1, Names, ClientKeeps, ClientOff
       DEF SystemWillSleep, ConnectionOK, DownMeansDisconnected, RetryMeansDown
  <2>2. CASE ~available
    BY <1>9, <2>2, ConnectionUnchanged DEF SystemWillSleep
  <2> QED
    BY <2>1, <2>2
<1>10. CASE SystemDidWakeUp
  BY <1>10, ReconnectAsIs, ConnectionUnchanged DEF SystemDidWakeUp, AimOK
<1>11. CASE InactivityTimeout
  BY <1>11, Names, RetargetKeeps, ConnectionUnchanged DEF InactivityTimeout
<1>12. CASE ActivityResumed
  <2>1. CASE selected # target /\ target # "Offline"
    BY <1>12, <2>1, RetargetKeeps DEF ActivityResumed, AimOK
  <2>2. CASE ~(selected # target /\ target # "Offline")
    BY <1>12, <2>2, ConnectionUnchanged DEF ActivityResumed
  <2> QED
    BY <2>1, <2>2
<1>13. CASE NetworkChanges \/ InputChanges \/ UNCHANGED vars
  BY <1>13, ConnectionUnchanged DEF NetworkChanges, InputChanges, vars
<1> QED
  BY <1>1, <1>2, <1>3, <1>4, <1>5, <1>6, <1>7, <1>8, <1>9, <1>10, <1>11, <1>12, <1>13
     DEF Next

\* Every attempt knows whether its check was answered.
LEMMA ReconnectChecks ==
    ASSUME NEW st, NEW av, NEW u, Reconnect(st, av, u)
    PROVE  unchecked' \in BOOLEAN
BY DEF Reconnect

\* Every step keeps what the document aims for in step with the selection.
LEMMA AimStep == IInv /\ [Next]_vars => AimOK' /\ FlagsOK'
<1> SUFFICES ASSUME IInv, [Next]_vars PROVE AimOK' /\ FlagsOK'
  OBVIOUS
<1> USE Names, ReconnectChecks DEF IInv, AimOK, FlagsOK, TargetIsSelected
<1>1. ASSUME NEW st \in Statuses, Open(st) \/ UserDidRequestStatus(st)
      PROVE  AimOK' /\ FlagsOK'
  BY <1>1 DEF Open, UserDidRequestStatus, system
<1>2. CASE RetryNow \/ DismissSheet \/ EnterPassword \/ LoggedIn \/ StatusEcho
  BY <1>2 DEF RetryNow, DismissSheet, EnterPassword, LoggedIn, StatusEcho, system
<1>3. ASSUME NEW r \in Client!Reason, Disconnected(r)
      PROVE  AimOK' /\ FlagsOK'
  BY <1>3 DEF Disconnected, system
<1>4. CASE NetworkConfigurationChanged
  BY <1>4 DEF NetworkConfigurationChanged
<1>5. CASE SystemWillSleep \/ SystemDidWakeUp
  BY <1>5 DEF SystemWillSleep, SystemDidWakeUp
<1>6. CASE InactivityTimeout
  BY <1>6 DEF InactivityTimeout, Retarget, system
<1>7. CASE ActivityResumed
  BY <1>7 DEF ActivityResumed, Retarget, system
<1>8. CASE NetworkChanges \/ InputChanges
  BY <1>8 DEF NetworkChanges, InputChanges
<1>9. CASE UNCHANGED vars
  BY <1>9 DEF vars, system
<1> QED
  BY <1>1, <1>2, <1>3, <1>4, <1>5, <1>6, <1>7, <1>8, <1>9 DEF Next

\* IInv holds in every reachable state.
THEOREM Invariance == Spec => []IInv
<1>1. IInv /\ [Next]_vars => IInv'
  BY ConnectionStep, AimStep DEF IInv
<1> QED
  BY <1>1, InitOK, PTL DEF Spec

-----------------------------------------------------------------------------
(* The invariants the runs check.                                          *)

\* Every variable keeps its type.
THEOREM TypeCorrect == Spec => []TypeOK
<1>1. IInv => TypeOK
  BY DEF IInv, ConnectionOK, AimOK, FlagsOK, TypeOK
<1> QED
  BY <1>1, Invariance, PTL

\* A document that believes the network is down holds no connection.
THEOREM NetworkSafety == Spec => []DownMeansDisconnected
<1>1. IInv => DownMeansDisconnected
  BY DEF IInv, ConnectionOK
<1> QED
  BY <1>1, Invariance, PTL

\* It offers to retry only while it believes the network is down.
THEOREM RetrySafety == Spec => []RetryMeansDown
<1>1. IInv => RetryMeansDown
  BY DEF IInv, ConnectionOK
<1> QED
  BY <1>1, Invariance, PTL

\* The target is the selection but for auto-away and disconnections.
THEOREM TargetSafety == Spec => []TargetIsSelected
<1>1. IInv => TargetIsSelected
  BY DEF IInv, AimOK
<1> QED
  BY <1>1, Invariance, PTL

\* No online status is shown without a connection.
THEOREM ShownSafety == Spec => []OfflineIsShown
<1>1. IInv => OfflineIsShown
  BY DEF IInv, ConnectionOK
<1> QED
  BY <1>1, Invariance, PTL

-----------------------------------------------------------------------------
(* What may connect, and with what.                                        *)

\* reconnectIfPossibleWithStatus: opens no connection without being given an
\* online status, and an answered check leaves none with another status.
LEMMA ReconnectAsked ==
    ASSUME ConnectionOK, NEW st \in Statuses, NEW av, NEW u, Reconnect(st, av, u)
    PROVE  /\ phase = "offline" /\ phase' # "offline" => st # "Offline"
           /\ ~unchecked' /\ phase' # "offline" => clientStatus' = st
<1>1. CASE unchecked' /\ UNCHANGED client
  BY <1>1 DEF client
<1>2. CASE ClientTakes(st) \/ ClientRefuses(st)
  BY <1>2, ClientKeeps
<1>3. CASE ClientTakes("Offline")
  BY <1>3, Names, ClientOff
<1> QED
  BY <1>1, <1>2, <1>3 DEF Reconnect

\* The two actions that change the target and not the selection.
LEMMA RetargetAsked ==
    ASSUME ConnectionOK, NEW st \in Statuses, Retarget(st)
    PROVE  /\ phase = "offline" /\ phase' # "offline" => target' # "Offline"
           /\ ~unchecked' /\ phase' # "offline" => clientStatus' = target'
<1>1. CASE available
  BY <1>1, ReconnectAsked DEF Retarget
<1>2. CASE ~available
  BY <1>2 DEF Retarget, client, ConnectionOK, DownMeansDisconnected
<1> QED
  BY <1>1, <1>2 DEF ConnectionOK

\* Every step connects with the target, and only if that is an online status.
LEMMA Asked ==
    ASSUME IInv, [Next]_vars
    PROVE  /\ phase = "offline" /\ phase' # "offline" => target' # "Offline"
           /\ ClientFollowsTarget => ClientFollowsTarget'
<1> USE DEF IInv, ClientFollowsTarget
<1>1. ASSUME NEW st \in Statuses, Open(st) \/ UserDidRequestStatus(st)
      PROVE  /\ phase = "offline" /\ phase' # "offline" => target' # "Offline"
             /\ ~unchecked' /\ phase' # "offline" => clientStatus' = target'
  BY <1>1, ReconnectAsked DEF Open, UserDidRequestStatus
<1>2. CASE RetryNow
  BY <1>2, ReconnectAsked DEF RetryNow, AimOK
<1>3. CASE DismissSheet
  BY <1>3 DEF DismissSheet, client
<1>4. CASE EnterPassword
  BY <1>4, ReconnectAsked DEF EnterPassword, AimOK
<1>5. CASE LoggedIn \/ StatusEcho
  BY <1>5 DEF LoggedIn, StatusEcho, Client!LogIn
<1>6. ASSUME NEW r \in Client!Reason, Disconnected(r)
      PROVE  phase' = "offline"
  BY <1>6 DEF Disconnected, Client!Drop
<1>7. CASE NetworkConfigurationChanged
  BY <1>7, ReconnectAsked DEF NetworkConfigurationChanged, AimOK, client
<1>8. CASE SystemWillSleep
  <2>1. CASE available
    BY <1>8, <2>1, Names, ClientOff DEF SystemWillSleep
  <2>2. CASE ~available
    BY <1>8, <2>2 DEF SystemWillSleep, client, ConnectionOK, DownMeansDisconnected
  <2> QED
    BY <2>1, <2>2
<1>9. CASE SystemDidWakeUp
  BY <1>9, ReconnectAsked DEF SystemDidWakeUp, AimOK, client
<1>10. CASE InactivityTimeout
  BY <1>10, Names, RetargetAsked DEF InactivityTimeout, client
<1>11. CASE ActivityResumed
  <2>1. CASE selected # target /\ target # "Offline"
    BY <1>11, <2>1, RetargetAsked DEF ActivityResumed, AimOK
  <2>2. CASE ~(selected # target /\ target # "Offline")
    BY <1>11, <2>2 DEF ActivityResumed, client
  <2> QED
    BY <2>1, <2>2
<1>12. CASE NetworkChanges \/ InputChanges \/ UNCHANGED vars
  BY <1>12 DEF NetworkChanges, InputChanges, vars, client
<1> QED
  BY <1>1, <1>2, <1>3, <1>4, <1>5, <1>6, <1>7, <1>8, <1>9, <1>10, <1>11, <1>12 DEF Next

\* Unless a failed reachability check dropped it, the connection was asked for
\* the target status, whoever set it last.
THEOREM FollowsTarget == Spec => []ClientFollowsTarget
<1>1. Init => ClientFollowsTarget
  BY DEF Init, ClientFollowsTarget, Client!SessionInit
<1>2. IInv /\ [Next]_vars /\ ClientFollowsTarget => ClientFollowsTarget'
  BY Asked
<1> QED
  BY <1>1, <1>2, Invariance, PTL DEF Spec

\* No connection is opened for a user who is to be offline.
THEOREM ConnectionIsAsked == Spec => NoUnaskedConnection
<1>1. IInv /\ [Next]_vars =>
        [phase = "offline" /\ phase' # "offline" => target' # "Offline"]_vars
  BY Asked
<1> QED
  BY <1>1, Invariance, PTL DEF Spec, NoUnaskedConnection

\* Nobody but the user ends being offline.
THEOREM ComebackIsAsked == Spec => OnlyUserComesBack
<1> DEFINE A == \E st \in Statuses : Open(st) \/ UserDidRequestStatus(st)
<1>1. IInv /\ [Next]_vars => [target = "Offline" /\ target' # "Offline" => A]_vars
  BY DEF Next, vars, RetryNow, DismissSheet, EnterPassword, LoggedIn, StatusEcho,
         Disconnected, NetworkConfigurationChanged, SystemWillSleep,
         SystemDidWakeUp, InactivityTimeout, ActivityResumed, NetworkChanges,
         InputChanges, IInv, AimOK
<1> QED
  BY <1>1, Invariance, PTL DEF Spec, OnlyUserComesBack

\* What the document believes of the network is true of its connection.
THEOREM NetworkIsKnownAlways == Spec => []NetworkIsKnown
<1>1. DownMeansDisconnected /\ RetryMeansDown => NetworkIsKnown
  BY DEF NetworkIsKnown
<1> QED
  BY <1>1, NetworkSafety, RetrySafety, PTL

\* Selection, target, connection and what is shown follow each other.
THEOREM TargetIsFollowedAlways == Spec => []TargetIsFollowed
<1>1. TargetIsSelected /\ OfflineIsShown /\ ClientFollowsTarget => TargetIsFollowed
  BY DEF TargetIsFollowed
<1> QED
  BY <1>1, TargetSafety, ShownSafety, FollowsTarget, PTL

\* Only the user has a connection opened, and ends being offline.
THEOREM OnlyUserConnectsEver == Spec => OnlyUserConnects
BY ConnectionIsAsked, ComebackIsAsked DEF OnlyUserConnects
=============================================================================
