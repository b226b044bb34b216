---------------------------- MODULE UserDocument ----------------------------
(***************************************************************************)
(* ICQUserDocument as the supervisor of one connection: the status the     *)
(* user selected, the status the document aims for (auto-away, a login     *)
(* elsewhere and errors change it), whether it believes in the network,    *)
(* and how selections, disconnections, idleness, sleep and network changes *)
(* turn into ICQConnection setStatus:.  The connection is the contract of  *)
(* SessionSpec, which Session implements.                                  *)
(*                                                                         *)
(* The operating system is external: reachability, its change              *)
(* notifications, input idleness, sleep.                                   *)
(***************************************************************************)
EXTENDS Naturals

CONSTANT
    OtherStatuses   \* the statuses besides Offline, Available and Away

ASSUME StatusAssumption ==
    {"Offline", "Available", "Away", "nil"} \cap OtherStatuses = {}

Selectable == {"Available", "Away"} \cup OtherStatuses
Statuses == Selectable \cup {"Offline"}

VARIABLES
    phase, told,    \* the connection, see SessionSpec
    clientStatus,   \* Client::m_status_wanted
    current,        \* _currentStatus: what we were last told we are
    target,         \* _targetStatus: what we would like to be
    selected,       \* _lastSelectedStatus: what the user selected
    fromFile,       \* ... which is a string read from the document's file, not
                    \* the one the status menu's item represents
    available,      \* _networkAvailable
    unchecked,      \* the last SCNetworkCheckReachabilityByName failed, so that
                    \* what it was asked for was dropped
    ui,             \* the sheet on the document's window, and the setting
                    \* ICJDisplayNetworkAlerts
    sleeping,       \* the activity monitor holds us in sleepingClients
    reachable, notified, idle, asleep   \* the operating system

client == <<phase, told, clientStatus, current>>
system == <<reachable, notified, idle, asleep>>
vars == <<client, target, selected, fromFile, available, unchecked, ui, sleeping, system>>

Client == INSTANCE SessionSpec

UI == [sheet : {"none", "network", "alert", "password"}, alerts : BOOLEAN]

Init ==
    /\ Client!SessionInit
    /\ clientStatus = "Offline" /\ current = "Offline"
    /\ target = "Offline" /\ selected = "nil" /\ fromFile = FALSE
    /\ available = TRUE /\ unchecked = FALSE
    /\ ui \in [sheet : {"none"}, alerts : BOOLEAN]
    /\ sleeping = FALSE
    /\ reachable \in BOOLEAN /\ notified = FALSE /\ idle = FALSE /\ asleep = FALSE

-----------------------------------------------------------------------------
(* The connection.                                                         *)

\* Client::setStatus, when it goes well.
ClientTakes(st) ==
    /\ clientStatus' = st
    /\ CASE st = "Offline" /\ phase # "offline" ->
              Client!Drop("REQUESTED") /\ current' = "Offline"
         [] st # "Offline" /\ phase = "offline" ->
              Client!Begin /\ UNCHANGED current
         [] OTHER -> UNCHANGED <<phase, told, current>>

\* Client::setStatus, when connecting fails at once.
ClientRefuses(st) ==
    /\ st # "Offline"
    /\ Client!Refuse
    /\ clientStatus' = st
    /\ UNCHANGED current

-----------------------------------------------------------------------------
(* Reacting to the network.                                                *)

\* The window after endSheet: on the disconnected sheet, whose end saves the
\* check box of the network problem alert.
SheetEnded(u) ==
    CASE u.sheet = "network" -> [sheet : {"none"}, alerts : BOOLEAN]
      [] u.sheet = "alert"   -> {[u EXCEPT !.sheet = "none"]}
      [] OTHER               -> {u}

\* The window after disconnected: with a low-level reason.  With another sheet
\* attached a panel is run instead, which has no "Retry Now".
Complained(u) ==
    IF u.alerts /\ u.sheet = "none" THEN [u EXCEPT !.sheet = "network"] ELSE u

\* Mutant: a lost network is noted but the connection kept.
ReconnectKeepsConnection(st, av, u) ==
    \/ /\ reachable /\ unchecked' = FALSE
       /\ \E ended \in SheetEnded(u) :
             \/ ClientTakes(st) /\ available' = TRUE /\ ui' = ended
             \/ ClientRefuses(st) /\ available' = FALSE /\ ui' = Complained(ended)
    \/ /\ ~reachable /\ unchecked' = FALSE
       /\ UNCHANGED client
       /\ available' = FALSE
       /\ ui' = IF av THEN Complained(u) ELSE u

\* reconnectIfPossibleWithStatus: in a document that believes av of the
\* network and shows u.
Reconnect(st, av, u) ==
    \/ /\ unchecked' = TRUE
       /\ available' = av /\ ui' = u
       /\ UNCHANGED client
    \/ /\ reachable /\ unchecked' = FALSE
       /\ \E ended \in SheetEnded(u) :
             \/ ClientTakes(st) /\ available' = TRUE /\ ui' = ended
             \/ ClientRefuses(st) /\ available' = FALSE /\ ui' = Complained(ended)
    \/ /\ ~reachable /\ unchecked' = FALSE
       /\ ClientTakes("Offline")
       /\ available' = FALSE
       /\ ui' = IF av THEN Complained(u) ELSE u

-----------------------------------------------------------------------------
(* What the user does.                                                     *)

\* readFromFile:ofType: and newUin:password: end with the initial status; with
\* Shift held it is Offline.
Open(st) ==
    /\ selected = "nil"
    /\ selected' = st /\ target' = st
    /\ fromFile' \in BOOLEAN
    /\ Reconnect(st, available, ui)
    /\ UNCHANGED <<sleeping, system>>

\* Selecting what is selected does nothing unless the network is down or we
\* aim for Offline; the strings are compared by their addresses.
Ignored(st) ==
    st # "Offline" /\ available /\ target # "Offline" /\ selected = st /\ ~fromFile

\* changeStatus: in the status menu
UserDidRequestStatus(st) ==
    /\ selected # "nil"
    /\ ~Ignored(st)
    /\ selected' = st /\ target' = st /\ fromFile' = FALSE
    /\ Reconnect(st, available, ui)
    /\ UNCHANGED <<sleeping, system>>

\* "Retry Now" in the network problem alert
RetryNow ==
    /\ ui.sheet = "network"
    /\ \E u \in SheetEnded(ui) : Reconnect(target, TRUE, u)
    /\ UNCHANGED <<target, selected, fromFile, sleeping, system>>

\* Any other end of a sheet; the password sheet may be cancelled too.
DismissSheet ==
    /\ ui.sheet # "none"
    /\ ui' \in IF ui.sheet = "password" THEN {[ui EXCEPT !.sheet = "none"]} ELSE SheetEnded(ui)
    /\ UNCHANGED <<client, target, selected, fromFile, available, unchecked, sleeping, system>>

\* setUserPassword: from the password sheet
EnterPassword ==
    /\ ui.sheet = "password"
    /\ Reconnect(target, available, [ui EXCEPT !.sheet = "none"])
    /\ UNCHANGED <<target, selected, fromFile, sleeping, system>>

-----------------------------------------------------------------------------
(* What the connection reports.                                            *)

LoggedIn ==
    /\ Client!LogIn
    /\ UNCHANGED <<clientStatus, current, target, selected, fromFile, available, unchecked, ui, sleeping, system>>

\* userStatusChangedTo:, when the server has echoed our status
StatusEcho ==
    /\ phase = "online"
    /\ current # clientStatus
    /\ current' = clientStatus
    /\ UNCHANGED <<phase, told, clientStatus, target, selected, fromFile, available, unchecked, ui, sleeping, system>>

\* disconnected: with a reason the document did not cause
Disconnected(r) ==
    /\ r # "REQUESTED"
    /\ Client!Drop(r)
    /\ current' = "Offline"
    /\ CASE r = "FAILED_BADPASSWORD" ->
              /\ ui' = IF ui.sheet = "none" THEN [ui EXCEPT !.sheet = "password"] ELSE ui
              /\ UNCHANGED <<target, available>>
         [] r = "FAILED_LOWLEVEL" ->
              /\ available' = FALSE
              /\ ui' = Complained(ui)
              /\ UNCHANGED target
         [] OTHER ->
              /\ target' = "Offline"
              /\ ui' = IF ui.sheet = "none" THEN [ui EXCEPT !.sheet = "alert"] ELSE ui
              /\ UNCHANGED available
    /\ UNCHANGED <<clientStatus, selected, fromFile, unchecked, sleeping, system>>

-----------------------------------------------------------------------------
(* What the operating system reports.                                      *)

NetworkConfigurationChanged ==
    /\ notified
    /\ notified' = FALSE
    /\ IF available \/ target # "Offline"
       THEN Reconnect(target, available, ui)
       ELSE UNCHANGED <<client, available, unchecked, ui>>
    /\ UNCHANGED <<target, selected, fromFile, sleeping, reachable, idle, asleep>>

SystemWillSleep ==
    /\ ~asleep /\ asleep' = TRUE
    /\ IF available THEN ClientTakes("Offline") ELSE UNCHANGED client
    /\ UNCHANGED <<target, selected, fromFile, available, unchecked, ui, sleeping, reachable, notified, idle>>

\* Mutant: waking up returns to the selection, not to the target.
SystemDidWakeUpToSelection ==
    /\ asleep /\ asleep' = FALSE
    /\ selected # "nil"
    /\ Reconnect(selected, available, ui)
    /\ UNCHANGED <<target, selected, fromFile, sleeping, reachable, notified, idle>>

SystemDidWakeUp ==
    /\ asleep /\ asleep' = FALSE
    /\ IF target # "Offline"
       THEN Reconnect(target, available, ui)
       ELSE UNCHANGED <<client, available, unchecked, ui>>
    /\ UNCHANGED <<target, selected, fromFile, sleeping, reachable, notified, idle>>

\* Mutant: the new target waits for the next reason to connect.
RetargetOnly(st) == target' = st /\ UNCHANGED <<client, available, unchecked, ui>>

\* userInactivityTimeoutOccured and userActivityResumed set the target to st.
Retarget(st) ==
    /\ target' = st
    /\ IF available THEN Reconnect(st, TRUE, ui) ELSE UNCHANGED <<client, available, unchecked, ui>>

\* checkIdleTime:, once we are idle for long enough
InactivityTimeout ==
    /\ idle /\ ~sleeping
    /\ sleeping' = TRUE
    /\ IF selected = "Available" /\ target # "Offline"
       THEN Retarget("Away")
       ELSE UNCHANGED <<client, target, available, unchecked, ui>>
    /\ UNCHANGED <<selected, fromFile, system>>

\* Mutant: being offline is not looked at.
ActivityResumedFromOffline ==
    /\ ~idle /\ sleeping
    /\ sleeping' = FALSE
    /\ IF selected # target THEN Retarget(selected) ELSE UNCHANGED <<client, target, available, unchecked, ui>>
    /\ UNCHANGED <<selected, fromFile, system>>

\* Mutant: without a network the return of the user is forgotten.
ActivityResumedIfAvailable ==
    /\ ~idle /\ sleeping
    /\ sleeping' = FALSE
    /\ IF available /\ selected # target /\ target # "Offline"
       THEN Retarget(selected)
       ELSE UNCHANGED <<client, target, available, unchecked, ui>>
    /\ UNCHANGED <<selected, fromFile, system>>

\* checkIdleTime: after activity, and unregister: when the settings change
ActivityResumed ==
    /\ ~idle /\ sleeping
    /\ sleeping' = FALSE
    /\ IF selected # target /\ target # "Offline"
       THEN Retarget(selected)
       ELSE UNCHANGED <<client, target, available, unchecked, ui>>
    /\ UNCHANGED <<selected, fromFile, system>>

\* The system itself (external): the configuration changes, with or without an
\* effect on us; input stops or resumes.
NetworkChanges ==
    /\ reachable' \in BOOLEAN
    /\ notified' = TRUE
    /\ UNCHANGED <<client, target, selected, fromFile, available, unchecked, ui, sleeping, idle, asleep>>

InputChanges ==
    /\ idle' = ~idle
    /\ UNCHANGED <<client, target, selected, fromFile, available, unchecked, ui, sleeping, reachable, notified, asleep>>

-----------------------------------------------------------------------------
Next ==
    \/ \E st \in Statuses : Open(st) \/ UserDidRequestStatus(st)
    \/ RetryNow \/ DismissSheet \/ EnterPassword
    \/ LoggedIn \/ StatusEcho \/ \E r \in Client!Reason : Disconnected(r)
    \/ NetworkConfigurationChanged \/ SystemWillSleep \/ SystemDidWakeUp
    \/ InactivityTimeout \/ ActivityResumed
    \/ NetworkChanges \/ InputChanges

Spec == Init /\ [][Next]_vars

\* Notifications are delivered, the idle timer fires every five seconds, the
\* server echoes a status it was sent.  Nothing is assumed of the user, of
\* the network or of the end of a login.
FairSpec ==
    /\ Spec
    /\ WF_vars(NetworkConfigurationChanged)
    /\ WF_vars(InactivityTimeout) /\ WF_vars(ActivityResumed)
    /\ WF_vars(StatusEcho)

-----------------------------------------------------------------------------
(* Properties.                                                             *)

TypeOK ==
    /\ Client!SessionTypeOK
    /\ clientStatus \in Statuses /\ current \in Statuses /\ target \in Statuses
    /\ selected \in Statuses \cup {"nil"}
    /\ ui \in UI
    /\ {fromFile, available, unchecked, sleeping, reachable, notified, idle, asleep} \subseteq BOOLEAN

\* A document that believes the network is down holds no connection, so the
\* connection it opens when the network is back is the only one.
DownMeansDisconnected == ~available => phase = "offline"

\* The offer to retry is on screen only while the network is believed down:
\* whatever brings us back online takes the sheet away.
RetryMeansDown == ui.sheet = "network" => ~available

\* The target is what the user selected, unless auto-away or a disconnection
\* that must not be repaired has changed it.
TargetIsSelected ==
    \/ target \in {"Offline", selected}
    \/ target = "Away" /\ selected = "Available"

\* While there is a connection it was asked for the target status, whichever
\* of the user, the idle timer, a wake-up and the network asked last, unless
\* the reachability check failed and the change was dropped.
ClientFollowsTarget == phase # "offline" /\ ~unchecked => clientStatus = target

\* The status shown as current is never an online one without a connection.
OfflineIsShown == phase # "online" => current = "Offline"

\* No connection is opened for a user who is to be offline: not after he chose
\* so, and not after a login elsewhere threw us out.
NoUnaskedConnection ==
    [][phase = "offline" /\ phase' # "offline" => target' # "Offline"]_vars

\* Only the user ends being offline; no timer and no notification does.
OnlyUserComesBack ==
    [][target = "Offline" /\ target' # "Offline" =>
          \E st \in Statuses : Open(st) \/ UserDidRequestStatus(st)]_vars

\* A user who is disconnected and awake can select any online status: it is
\* only ignored when there is something it would not change.
SelectionConnects ==
    \A st \in Selectable : Ignored(st) /\ ~asleep /\ ~unchecked => phase # "offline"

\* Auto-away ends when the user is back.
AwayEnds ==
    (selected = "Available" /\ target = "Away" /\ ~idle)
       ~> (target # "Away" \/ selected # "Available" \/ idle)

\* What the document aims for while connected becomes what it shows, unless a
\* check that failed dropped it.
TargetIsShown ==
    \A st \in Selectable :
       (phase = "online" /\ target = st) ~> (current = st \/ phase # "online" \/ target # st \/ unchecked)

\* What the document believes of the network: no connection and an offer to
\* retry only where it is down.
NetworkIsKnown == DownMeansDisconnected /\ RetryMeansDown

\* From the selection to the target, from the target to what the connection is
\* asked for, and back to what is shown.
TargetIsFollowed == TargetIsSelected /\ OfflineIsShown /\ ClientFollowsTarget

\* A connection is opened, and being offline ended, for the user alone.
OnlyUserConnects == NoUnaskedConnection /\ OnlyUserComesBack
=============================================================================
