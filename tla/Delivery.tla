------------------------------ MODULE Delivery ------------------------------
(***************************************************************************)
(* What becomes of a message between the window it is written in and the   *)
(* report that it was delivered or not.  The application keeps each        *)
(* message under the event it gave the library, in messagesPendingAck; the *)
(* library keeps the event under the cookie of its packet, in              *)
(* m_cookiecache, when the contact's client can acknowledge it, and        *)
(* otherwise reports it at once.  The acknowledgement competes with the    *)
(* expiry of the cookie, with the connection and with the user.            *)
(*                                                                         *)
(* Events are numbered in the order of their cookies' expiry, which is     *)
(* that of their creation.  Sending over a connection is taken to succeed: *)
(* Session models how it fails.                                            *)
(***************************************************************************)
EXTENDS Naturals, FiniteSets

CONSTANTS
    Contacts,
    Windows,        \* outgoing message windows
    AuthWindows,    \* those that ask for authorization
    Recipients,     \* whom each window writes to
    MaxEvents       \* events that wait for an acknowledgement, a bound

ASSUME DeliveryAssumption ==
    /\ AuthWindows \subseteq Windows
    /\ Recipients \in [Windows -> SUBSET Contacts \ {{}}]
    /\ \A w \in Windows : IsFiniteSet(Recipients[w])
    /\ {"away", "nobody"} \cap Windows = {} /\ "nobody" \notin Contacts
    /\ MaxEvents \in Nat

Events == 1 .. MaxEvents

VARIABLES
    loggedIn,
    capable,    \* contacts for which get_accept_adv_msgs() holds
    next,       \* the number of the next event
    to, from,   \* an event's contact, and its window or "away", a request
                \* for the contact's status message; at first "nobody"
    heap,       \* events created and not deleted
    cookies,    \* events in m_cookiecache
    noticed,    \* events the server said are for an offline user
    pending,    \* events in messagesPendingAck
    wire,       \* events whose packets may still be acknowledged
    window,     \* "editing", "sending", "rejected" (the sheet) or "closed"
    history,    \* copies of a window's message in each recipient's history
    outcome,    \* what the application was told of each event in the end
    replied,    \* events whose contact's client acknowledged them in time
    unsent      \* windows whose last message was refused by sendMessage:

library == <<capable, next, to, from, heap, cookies, noticed>>
ghosts == <<replied, unsent>>
application == <<pending, window, history, outcome>>
vars == <<loggedIn, library, wire, application, ghosts>>

Init ==
    /\ loggedIn = FALSE
    /\ capable = {}
    /\ next = 1
    /\ to = [e \in Events |-> "nobody"] /\ from = [e \in Events |-> "nobody"]
    /\ heap = {} /\ cookies = {} /\ noticed = {} /\ pending = {} /\ wire = {}
    /\ window = [w \in Windows |-> "editing"]
    /\ history = [w \in Windows |-> 0]
    /\ outcome = [e \in Events |-> "none"]
    /\ replied = {} /\ unsent = {}

-----------------------------------------------------------------------------
(* The connection and the contacts' presence.                              *)

LogIn ==
    /\ ~loggedIn /\ loggedIn' = TRUE
    /\ UNCHANGED <<library, wire, application, ghosts>>

\* All contacts return to Offline; cookies and pending messages stay.
LogOut ==
    /\ loggedIn /\ loggedIn' = FALSE
    /\ capable' = {}
    /\ UNCHANGED <<next, to, from, heap, cookies, noticed, wire, application, ghosts>>

\* A contact comes online with a client that acknowledges, comes online with
\* another one, or goes offline.
PresenceChanges(c) ==
    /\ loggedIn
    /\ capable' \in {capable \cup {c}, capable \ {c}}
    /\ UNCHANGED <<loggedIn, next, to, from, heap, cookies, noticed, wire, application, ghosts>>

-----------------------------------------------------------------------------
(* Sending.                                                                *)

\* The single recipient whose client can be asked to acknowledge.
Acknowledges(w, c) ==
    w \notin AuthWindows /\ Recipients[w] = {c} /\ c \in capable

\* SendViaServerAdvanced: a new event for c waits for its acknowledgement.
SendAdvanced(c, origin) ==
    /\ next \in Events
    /\ next' = next + 1
    /\ to' = [to EXCEPT ![next] = c] /\ from' = [from EXCEPT ![next] = origin]
    /\ heap' = heap \cup {next}
    /\ cookies' = cookies \cup {next}
    /\ pending' = pending \cup {next}
    /\ wire' = wire \cup {next}
    /\ UNCHANGED <<loggedIn, capable, noticed, history, outcome, replied>>

\* SendViaServerNormal for every recipient: each event is reported delivered
\* and deleted before the next is created.  The document appends the message
\* to the history of all its owners at each report; the first closes the
\* window.
SendNormal(w) ==
    /\ window' = [window EXCEPT ![w] = "closed"]
    /\ history' = [history EXCEPT ![w] = @ + Cardinality(Recipients[w])]
    /\ unsent' = unsent \ {w}
    /\ UNCHANGED <<loggedIn, library, wire, pending, outcome, replied>>

\* sendMessage: returns at once when not logged in.
SendRefused(w) ==
    /\ ~loggedIn
    /\ window' = [window EXCEPT ![w] = "sending"]
    /\ unsent' = unsent \cup {w}
    /\ UNCHANGED <<loggedIn, library, wire, pending, history, outcome, replied>>

SendMessage(w) ==
    \/ SendRefused(w)
    \/ /\ loggedIn
       /\ \E c \in Contacts : Acknowledges(w, c) /\ SendAdvanced(c, w)
       /\ window' = [window EXCEPT ![w] = "sending"]
       /\ unsent' = unsent \ {w}
    \/ /\ loggedIn
       /\ \A c \in Contacts : ~Acknowledges(w, c)
       /\ SendNormal(w)

\* defaultButtonAction: and the menu, guarded by canSend
Send(w) ==
    /\ loggedIn /\ window[w] = "editing"
    /\ SendMessage(w)

\* rejectResendClicked: as urgent or to the contact list, without canSend
Resend(w) ==
    /\ window[w] = "rejected"
    /\ SendMessage(w)

CancelReject(w) ==
    /\ window[w] = "rejected"
    /\ window' = [window EXCEPT ![w] = "editing"]
    /\ UNCHANGED <<loggedIn, library, wire, pending, history, outcome, ghosts>>

CloseWindow(w) ==
    /\ window[w] \in {"editing", "sending"}
    /\ window' = [window EXCEPT ![w] = "closed"]
    /\ UNCHANGED <<loggedIn, library, wire, pending, history, outcome, ghosts>>

\* readStatusMessageForContact: without the connection it does nothing, and
\* for a client that does not acknowledge the request is reported as failed
\* and deleted at once.
ReadStatusMessage(c) ==
    /\ loggedIn /\ c \in capable
    /\ SendAdvanced(c, "away")
    /\ UNCHANGED <<window, unsent>>

-----------------------------------------------------------------------------
(* Reports.                                                                *)

\* Mutant: the window is made inactive, not closed, as a dialog window is.
AfterReportInactive(r) ==
    CASE r = "delivered" -> "inactive"
      [] r = "occupied" -> "rejected"
      [] OTHER -> "editing"

\* Mutant: setSending:NO is left out when nothing else is to be done.
AfterReportStillSending(r) ==
    CASE r = "delivered" -> "closed"
      [] r = "occupied" -> "rejected"
      [] OTHER -> "sending"

\* messageDelivered: and messageNotDelivered: of the window
AfterReport(r) ==
    CASE r = "delivered" -> "closed"
      [] r = "occupied" -> "rejected"
      [] OTHER -> "editing"

\* messageAcknowledged: of the connection, the document and the window, for
\* finished events with result r.  Each has one owner.  Away requests leave
\* no message in the history.
MessageAcknowledged(done, r) ==
    LET known == done \cap pending
        Reported(w) == {e \in known : from[e] = w}
    IN  /\ pending' = pending \ done
        /\ outcome' = [e \in Events |->
              IF e \notin known THEN outcome[e]
              ELSE IF r = "delivered" THEN "delivered" ELSE "failed"]
        /\ history' = [w \in Windows |->
              history[w] + IF r = "delivered" THEN Cardinality(Reported(w)) ELSE 0]
        /\ window' = [w \in Windows |->
              IF window[w] = "sending" /\ Reported(w) # {} THEN AfterReport(r) ELSE window[w]]

\* removeItem of the cookie cache deletes the event, too.
Forget(done) ==
    heap' = heap \ done /\ cookies' = cookies \ done

\* What handleIncomingACK makes of an accept status.  For one it does not
\* know the event keeps what it had, which is not initialized unless the
\* server said that the user is offline.  A request for the status message
\* counts as delivered whatever the status.
Verdicts(e, status) ==
    IF from[e] = "away" \/ status \in {"online", "away", "na", "occ_accept"}
    THEN {"delivered"}
    ELSE CASE status \in {"occupied", "dnd"} -> {"occupied"}
           [] status = "denied" -> {"failed"}
           [] OTHER -> {"failed", "occupied"} \cup IF e \in noticed THEN {} ELSE {"delivered"}

Statuses == {"online", "away", "na", "occ_accept", "occupied", "dnd", "denied", "unknown"}

\* SignalMessageACK: ignores a cookie that is not in the cache.
ReceiveAck(e) ==
    /\ loggedIn
    /\ e \in wire /\ wire' = wire \ {e}
    /\ IF e \in cookies
       THEN /\ \E status \in Statuses : \E r \in Verdicts(e, status) : MessageAcknowledged({e}, r)
            /\ Forget({e})
            /\ replied' = replied \cup {e}
       ELSE UNCHANGED <<cookies, heap, application, replied>>
    /\ UNCHANGED <<loggedIn, capable, next, to, from, noticed, unsent>>

\* The packet or its acknowledgement is lost.
Lose(e) ==
    /\ e \in wire /\ wire' = wire \ {e}
    /\ UNCHANGED <<loggedIn, library, application, ghosts>>

\* Mutant: the notice counts as the report.
OfflineNoticeFinishes(e) ==
    /\ loggedIn
    /\ e \in wire
    /\ e \in cookies /\ noticed' = noticed \cup {e}
    /\ MessageAcknowledged({e}, "failed")
    /\ UNCHANGED <<loggedIn, capable, next, to, from, heap, cookies, wire, ghosts>>

\* SignalMessageOfflineUser: signals an unfinished report, on which the
\* application keeps waiting.
ReceiveOfflineNotice(e) ==
    /\ loggedIn
    /\ e \in wire
    /\ e \in cookies /\ noticed' = noticed \cup {e}
    /\ UNCHANGED <<loggedIn, capable, next, to, from, heap, cookies, wire, application, ghosts>>

\* Mutant: the last cookie is kept.
ExpiredBefore(k) == {e \in cookies : e < k}

\* The cookies up to k, the oldest.
Expired(k) == {e \in cookies : e <= k}

\* Poll clears out the expired cookies: each event is sent again without
\* asking for an acknowledgement, reported delivered and deleted, and its
\* contact is not asked to acknowledge any more.
Poll(k) ==
    /\ loggedIn
    /\ Expired(k) # {}
    /\ MessageAcknowledged(Expired(k), "delivered")
    /\ capable' = capable \ {to[e] : e \in Expired(k)}
    /\ Forget(Expired(k))
    /\ UNCHANGED <<loggedIn, next, to, from, noticed, wire, ghosts>>

-----------------------------------------------------------------------------
Next ==
    \/ LogIn \/ LogOut
    \/ \E c \in Contacts : PresenceChanges(c) \/ ReadStatusMessage(c)
    \/ \E w \in Windows : Send(w) \/ Resend(w) \/ CancelReject(w) \/ CloseWindow(w)
    \/ \E e \in Events : ReceiveAck(e) \/ Lose(e) \/ ReceiveOfflineNotice(e) \/ Poll(e)

Spec == Init /\ [][Next]_vars

\* routineTask: polls while logged in.
FairSpec == Spec /\ WF_vars(\E k \in Events : Poll(k))

-----------------------------------------------------------------------------
(* Properties.                                                             *)

TypeOK ==
    /\ loggedIn \in BOOLEAN
    /\ capable \subseteq Contacts
    /\ next \in 1 .. MaxEvents + 1
    /\ to \in [Events -> Contacts \cup {"nobody"}]
    /\ from \in [Events -> Windows \cup {"away", "nobody"}]
    /\ {heap, cookies, noticed, pending, wire, replied} \subseteq SUBSET Events
    /\ window \in [Windows -> {"editing", "sending", "rejected", "closed"}]
    /\ history \in [Windows -> Nat]
    /\ outcome \in [Events -> {"none", "delivered", "failed"}]
    /\ unsent \subseteq Windows

\* The addresses of events are the keys of messagesPendingAck: a key that
\* outlived its event would give the next event at that address a wrong
\* message, and an event that outlived its key could not be reported.
KeysAreLive == pending = heap /\ heap = cookies

\* The events that will bring window w its report.
Waiting(w) == {e \in pending : from[e] = w}

\* A window that waits for a report has exactly one event that will bring it,
\* except when sendMessage: refused the message, and then it has none.
SendingIsPending ==
    \A w \in Windows :
       window[w] = "sending" =>
          Cardinality(Waiting(w)) = IF w \in unsent THEN 0 ELSE 1

\* The message to one contact is recorded at most once in the history, and
\* once it is there it can be neither sent again nor reported again, however
\* the acknowledgement, the timeout and a resend follow each other.
RecordedOnce ==
    \A w \in Windows :
       Cardinality(Recipients[w]) = 1 /\ history[w] > 0 =>
          history[w] = 1 /\ window[w] = "closed" /\ Waiting(w) = {}

\* The events keep the contract of SendEvent.
Contract == INSTANCE MessageSpec WITH live <- heap
ImplementsContract == Contract!MessageBehaviour

\* Every message waiting for a report gets one, as long as the connection
\* lasts, although acknowledgements may be lost.
PendingIsAnswered == \A e \in Events : e \in pending ~> e \notin pending \/ ~loggedIn

\* Client.cpp 2155: without a client that answers there is no way of getting
\* the status message, so the request is reported as not delivered.
AwayNeedsReply ==
    \A e \in Events :
       from[e] = "away" /\ outcome[e] = "delivered" => e \in replied

\* A window that waits has its report coming, by keys that name living events,
\* and a message is recorded once.
ReportsAreDue == KeysAreLive /\ SendingIsPending /\ RecordedOnce
=============================================================================
