-------------------------- MODULE Delivery_proofs --------------------------
(***************************************************************************)
(* Proofs about Delivery, for any contacts, windows, recipients and number *)
(* of events.  Three tables in two languages must agree on which events    *)
(* are alive; Alive states that they do and that an event that is alive    *)
(* has not been reported.  WindowOK states, of each window, how many live  *)
(* events it has in each of its states, which is what keeps a message from *)
(* being recorded twice.                                                   *)
(***************************************************************************)
EXTENDS Delivery, FiniteSetTheorems, TLAPS

Alive ==
    /\ KeysAreLive
    /\ \A e \in Events : e \in heap => e < next /\ outcome[e] = "none"
    /\ \A e \in Events : e >= next => outcome[e] = "none"

OneWaits(w) == \E e \in Events : Waiting(w) = {e}

WindowOK(w) ==
    /\ window[w] = "sending" => IF w \in unsent THEN Waiting(w) = {} ELSE OneWaits(w)
    /\ window[w] \in {"editing", "rejected"} => Waiting(w) = {}
    /\ Waiting(w) = {} \/ OneWaits(w)
    /\ Cardinality(Recipients[w]) = 1 /\ history[w] > 0 =>
          history[w] = 1 /\ window[w] = "closed" /\ Waiting(w) = {}

WindowsOK == \A w \in Windows : WindowOK(w)

IInv == TypeOK /\ Alive /\ WindowsOK

-----------------------------------------------------------------------------
(* Lemmas about the helpers.                                               *)

\* Sets of events are finite, so that their cardinalities are numbers.
LEMMA EventsFinite ==
    ASSUME NEW S \in SUBSET Events
    PROVE  IsFiniteSet(S) /\ Cardinality(S) \in Nat
<1>1. IsFiniteSet(Events)
  BY FS_Interval, DeliveryAssumption DEF Events
<1> QED
  BY <1>1, FS_Subset, FS_CardinalityType

\* A report leaves the application's tables well-typed.
LEMMA AcknowledgedTypes ==
    ASSUME TypeOK, NEW done \in SUBSET Events, NEW r, MessageAcknowledged(done, r)
    PROVE  /\ pending' \in SUBSET Events
           /\ window' \in [Windows -> {"editing", "sending", "rejected", "closed"}]
           /\ history' \in [Windows -> Nat]
           /\ outcome' \in [Events -> {"none", "delivered", "failed"}]
<1>1. ASSUME NEW w \in Windows
      PROVE  Cardinality({e \in done \cap pending : from[e] = w}) \in Nat
  BY EventsFinite
<1>2. history' \in [Windows -> Nat]
  BY <1>1 DEF TypeOK, MessageAcknowledged
<1>3. window' \in [Windows -> {"editing", "sending", "rejected", "closed"}]
  BY DEF TypeOK, MessageAcknowledged, AfterReport
<1> QED
  BY <1>2, <1>3 DEF TypeOK, MessageAcknowledged

\* Sending a message keeps the types, whichever way it goes.
LEMMA SendTypes ==
    ASSUME TypeOK, NEW w \in Windows, SendMessage(w)
    PROVE  TypeOK'
<1>1. CASE SendRefused(w)
  BY <1>1 DEF TypeOK, SendRefused, library
<1>2. ASSUME NEW c \in Contacts, SendAdvanced(c, w),
             window' = [window EXCEPT ![w] = "sending"], unsent' = unsent \ {w}
      PROVE  TypeOK'
  BY <1>2, DeliveryAssumption DEF TypeOK, SendAdvanced, Events
<1>3. CASE SendNormal(w)
  <2>1. Cardinality(Recipients[w]) \in Nat
    BY FS_CardinalityType, DeliveryAssumption
  <2> QED
    BY <1>3, <2>1 DEF TypeOK, SendNormal, library
<1> QED
  BY <1>1, <1>2, <1>3 DEF SendMessage

\* Every step keeps every variable's type.
LEMMA TypesKept ==
    ASSUME TypeOK, Next
    PROVE  TypeOK'
<1>1. CASE LogIn \/ LogOut
  BY <1>1 DEF TypeOK, LogIn, LogOut, library, application, ghosts
<1>2. ASSUME NEW c \in Contacts, PresenceChanges(c) \/ ReadStatusMessage(c)
      PROVE  TypeOK'
  BY <1>2, DeliveryAssumption
     DEF TypeOK, PresenceChanges, ReadStatusMessage, SendAdvanced, Events,
         application, ghosts
<1>3. ASSUME NEW w \in Windows, Send(w) \/ Resend(w)
      PROVE  TypeOK'
  BY <1>3, SendTypes DEF Send, Resend
<1>4. ASSUME NEW w \in Windows, CancelReject(w) \/ CloseWindow(w)
      PROVE  TypeOK'
  BY <1>4 DEF TypeOK, CancelReject, CloseWindow, library, ghosts
<1>5. ASSUME NEW e \in Events, ReceiveAck(e)
      PROVE  TypeOK'
  <2>1. CASE e \in cookies
    <3>1. PICK r : MessageAcknowledged({e}, r)
      BY <1>5, <2>1 DEF ReceiveAck
    <3> QED
      BY <1>5, <2>1, <3>1, AcknowledgedTypes DEF ReceiveAck, Forget, TypeOK
  <2>2. CASE e \notin cookies
    BY <1>5, <2>2 DEF ReceiveAck, TypeOK, application
  <2> QED
    BY <2>1, <2>2
<1>6. ASSUME NEW e \in Events, Lose(e) \/ ReceiveOfflineNotice(e)
      PROVE  TypeOK'
  BY <1>6 DEF TypeOK, Lose, ReceiveOfflineNotice, library, application, ghosts
<1>7. ASSUME NEW k \in Events, Poll(k)
      PROVE  TypeOK'
  <2>1. Expired(k) \in SUBSET Events
    BY DEF Expired, TypeOK
  <2> QED
    BY <1>7, <2>1, AcknowledgedTypes DEF Poll, Forget, TypeOK, ghosts
<1> QED
  BY <1>1, <1>2, <1>3, <1>4, <1>5, <1>6, <1>7 DEF Next

-----------------------------------------------------------------------------
(* Which events are alive.                                                 *)

\* A new event is alive in every table, and was alive in none.
LEMMA AdvancedAlive ==
    ASSUME TypeOK, Alive, NEW c, NEW origin, SendAdvanced(c, origin)
    PROVE  Alive' /\ next \notin heap /\ outcome[next] = "none"
BY DeliveryAssumption DEF TypeOK, Alive, KeysAreLive, SendAdvanced, Events

\* A report on live events that is followed by forgetting them leaves no
\* table with an event the others lack.
LEMMA AcknowledgedAlive ==
    ASSUME TypeOK, Alive, NEW done \in SUBSET Events, NEW r,
           done \subseteq cookies,
           MessageAcknowledged(done, r), Forget(done), next' = next
    PROVE  Alive'
<1>1. KeysAreLive'
  BY DEF Alive, KeysAreLive, MessageAcknowledged, Forget
<1>2. \A e \in Events : e \notin done => outcome'[e] = outcome[e]
  BY DEF MessageAcknowledged
<1>3. \A e \in Events : e \in heap' => e \in heap /\ e \notin done
  BY DEF Forget
<1>4. \A e \in Events : e \in done => e < next
  BY DEF Alive, KeysAreLive
<1>5. \A e \in Events : e >= next => e \notin done
  BY <1>4, DeliveryAssumption DEF TypeOK, Events
<1> QED
  BY <1>1, <1>2, <1>3, <1>5 DEF Alive

\* Every step keeps the tables in agreement.
LEMMA AliveKept ==
    ASSUME TypeOK, Alive, Next
    PROVE  Alive'
<1>1. CASE LogIn \/ LogOut
  BY <1>1 DEF Alive, KeysAreLive, LogIn, LogOut, library, application
<1>2. ASSUME NEW c \in Contacts, PresenceChanges(c) \/ ReadStatusMessage(c)
      PROVE  Alive'
  BY <1>2, AdvancedAlive
     DEF Alive, KeysAreLive, PresenceChanges, ReadStatusMessage, application
<1>3. ASSUME NEW w \in Windows, SendMessage(w)
      PROVE  Alive'
  BY <1>3, AdvancedAlive
     DEF Alive, KeysAreLive, SendMessage, SendRefused, SendNormal, library
<1>4. ASSUME NEW w \in Windows, CancelReject(w) \/ CloseWindow(w)
      PROVE  Alive'
  BY <1>4 DEF Alive, KeysAreLive, CancelReject, CloseWindow, library
<1>5. ASSUME NEW e \in Events, ReceiveAck(e)
      PROVE  Alive'
  <2>1. CASE e \in cookies
    BY <1>5, <2>1, AcknowledgedAlive DEF ReceiveAck
  <2>2. CASE e \notin cookies
    BY <1>5, <2>2 DEF Alive, KeysAreLive, ReceiveAck, application
  <2> QED
    BY <2>1, <2>2
<1>6. ASSUME NEW e \in Events, Lose(e) \/ ReceiveOfflineNotice(e)
      PROVE  Alive'
  BY <1>6 DEF Alive, KeysAreLive, Lose, ReceiveOfflineNotice, library, application
<1>7. ASSUME NEW k \in Events, Poll(k)
      PROVE  Alive'
  BY <1>7, AcknowledgedAlive DEF Poll, Expired, TypeOK
<1> QED
  BY <1>1, <1>2, <1>3, <1>4, <1>5, <1>6, <1>7 DEF Next, Send, Resend

-----------------------------------------------------------------------------
(* What each window waits for.                                             *)

\* A report on live events leaves each window as it should be.
LEMMA AcknowledgedWindows ==
    ASSUME IInv, NEW done \in SUBSET Events, NEW r,
           MessageAcknowledged(done, r), from' = from, unsent' = unsent
    PROVE  WindowsOK'
<1> SUFFICES ASSUME NEW w \in Windows PROVE WindowOK(w)'
  BY DEF WindowsOK
<1> DEFINE reported == {e \in done \cap pending : from[e] = w}
<1>1. WindowOK(w) /\ window[w] \in {"editing", "sending", "rejected", "closed"}
      /\ history[w] \in Nat
  BY DEF IInv, WindowsOK, TypeOK
<1>2. Waiting(w)' = Waiting(w) \ done
  BY DEF Waiting, MessageAcknowledged
<1>3. reported = Waiting(w) \cap done
  BY DEF Waiting
<1>4. /\ history'[w] = history[w] + (IF r = "delivered" THEN Cardinality(reported) ELSE 0)
      /\ window'[w] = IF window[w] = "sending" /\ reported # {} THEN AfterReport(r) ELSE window[w]
  BY DEF MessageAcknowledged
<1> HIDE DEF reported
<1>5. CASE reported = {}
  <2>1. Waiting(w)' = Waiting(w)
    BY <1>2, <1>3, <1>5
  <2>2. history'[w] = history[w] /\ window'[w] = window[w]
    BY <1>1, <1>4, <1>5, FS_EmptySet
  <2> QED
    BY <1>1, <2>1, <2>2 DEF WindowOK, OneWaits
<1>6. CASE reported # {}
  <2>1. PICK e \in Events : Waiting(w) = {e}
    BY <1>1, <1>3, <1>6 DEF WindowOK, OneWaits
  <2>2. Waiting(w)' = {} /\ reported = {e}
    BY <1>2, <1>3, <1>6, <2>1
  <2>3. Cardinality(reported) = 1
    BY <2>2, FS_Singleton
  <2>4. window[w] \in {"sending", "closed"}
    BY <1>1, <2>1 DEF WindowOK
  <2>5. window'[w] \in {"closed", "rejected", "editing"}
    BY <1>4, <1>6, <2>4 DEF AfterReport
  <2>6. Cardinality(Recipients[w]) = 1 => history[w] = 0
    BY <1>1, <2>1 DEF WindowOK
  <2>7. r = "delivered" => window'[w] = "closed"
    BY <1>4, <1>6, <2>4 DEF AfterReport
  <2> QED
    BY <1>1, <1>4, <2>2, <2>3, <2>5, <2>6, <2>7 DEF WindowOK
<1> QED
  BY <1>5, <1>6

\* A window whose state, event and history a step leaves alone stays as it
\* should be.
LEMMA WindowUntouched ==
    ASSUME NEW w \in Windows, WindowOK(w),
           window'[w] = window[w], history'[w] = history[w],
           w \in unsent' <=> w \in unsent,
           Waiting(w)' = Waiting(w)
    PROVE  WindowOK(w)'
BY DEF WindowOK, OneWaits

\* A new event is awaited by the window it is from and by no other.
LEMMA AdvancedWaiting ==
    ASSUME TypeOK, Alive, NEW c, NEW origin \in Windows \cup {"away"},
           SendAdvanced(c, origin), NEW v \in Windows
    PROVE  Waiting(v)' = IF v = origin THEN Waiting(v) \cup {next} ELSE Waiting(v)
<1>1. next \notin pending /\ next \in Events /\ pending \in SUBSET Events
  BY DEF TypeOK, Alive, KeysAreLive, SendAdvanced, Events
<1>2. from' = [from EXCEPT ![next] = origin] /\ pending' = pending \cup {next}
  BY DEF SendAdvanced
<1>3. from'[next] = origin /\ \A e \in pending : from'[e] = from[e]
  BY <1>1, <1>2 DEF TypeOK
<1> QED
  BY <1>1, <1>2, <1>3 DEF Waiting

\* Sending from a window that is being edited, or whose message was rejected,
\* leaves every window as it should be.
LEMMA SendWindows ==
    ASSUME IInv, NEW w \in Windows, window[w] \in {"editing", "rejected"}, SendMessage(w)
    PROVE  WindowsOK'
<1> SUFFICES ASSUME NEW v \in Windows PROVE WindowOK(v)'
  BY DEF WindowsOK
<1> USE DEF IInv
<1>1. WindowOK(v) /\ WindowOK(w)
  BY DEF WindowsOK
<1>2. Waiting(w) = {} /\ (Cardinality(Recipients[w]) = 1 => history[w] = 0)
  BY <1>1 DEF WindowOK, TypeOK
<1>3. CASE SendRefused(w)
  <2>1. Waiting(v)' = Waiting(v)
    BY <1>3 DEF SendRefused, Waiting, library
  <2>2. CASE v = w
    BY <1>2, <1>3, <2>1, <2>2 DEF SendRefused, WindowOK, TypeOK
  <2>3. CASE v # w
    BY <1>1, <1>3, <2>1, <2>3, WindowUntouched DEF SendRefused, TypeOK
  <2> QED
    BY <2>2, <2>3
<1>4. ASSUME NEW c \in Contacts, SendAdvanced(c, w),
             window' = [window EXCEPT ![w] = "sending"], unsent' = unsent \ {w}
      PROVE  WindowOK(v)'
  <2>1. Waiting(v)' = (IF v = w THEN Waiting(v) \cup {next} ELSE Waiting(v)) /\ next \in Events
    BY <1>4, AdvancedWaiting DEF SendAdvanced
  <2>2. history' = history
    BY <1>4 DEF SendAdvanced
  <2>3. CASE v = w
    <3>1. Waiting(w)' = {next} /\ window'[w] = "sending" /\ w \notin unsent'
      BY <1>2, <1>4, <2>1, <2>3 DEF TypeOK
    <3>2. OneWaits(w)'
      BY <2>1, <3>1 DEF OneWaits
    <3>3. ~(Cardinality(Recipients[w]) = 1 /\ history'[w] > 0)
      BY <1>2, <2>2
    <3> QED
      BY <2>3, <3>1, <3>2, <3>3 DEF WindowOK
  <2>4. CASE v # w
    BY <1>1, <1>4, <2>1, <2>2, <2>4, WindowUntouched DEF TypeOK
  <2> QED
    BY <2>3, <2>4
<1>5. CASE SendNormal(w)
  <2>1. Waiting(v)' = Waiting(v)
    BY <1>5 DEF SendNormal, Waiting, library
  <2>2. CASE v = w
    <3>1. window'[w] = "closed" /\ history'[w] = history[w] + Cardinality(Recipients[w])
      BY <1>5 DEF SendNormal, TypeOK
    <3> QED
      BY <1>2, <2>1, <2>2, <3>1 DEF WindowOK
  <2>3. CASE v # w
    BY <1>1, <1>5, <2>1, <2>3, WindowUntouched DEF SendNormal, TypeOK
  <2> QED
    BY <2>2, <2>3
<1> QED
  BY <1>3, <1>4, <1>5 DEF SendMessage

\* Every step leaves every window as it should be.
LEMMA WindowsKept ==
    ASSUME IInv, Next
    PROVE  WindowsOK'
<1> USE DEF IInv
<1>1. CASE LogIn \/ LogOut
  BY <1>1 DEF WindowsOK, WindowOK, OneWaits, Waiting, LogIn, LogOut, library, application, ghosts
<1>2. ASSUME NEW c \in Contacts, PresenceChanges(c)
      PROVE  WindowsOK'
  BY <1>2 DEF WindowsOK, WindowOK, OneWaits, Waiting, PresenceChanges, application, ghosts
<1>3. ASSUME NEW c \in Contacts, ReadStatusMessage(c)
      PROVE  WindowsOK'
  <2>1. UNCHANGED <<window, history, unsent>> /\ \A v \in Windows : Waiting(v)' = Waiting(v)
    BY <1>3, AdvancedWaiting, DeliveryAssumption DEF ReadStatusMessage, SendAdvanced
  <2> QED
    BY <2>1, WindowUntouched DEF WindowsOK
<1>4. ASSUME NEW w \in Windows, Send(w) \/ Resend(w)
      PROVE  WindowsOK'
  BY <1>4, SendWindows DEF Send, Resend
<1>5. ASSUME NEW w \in Windows, CancelReject(w) \/ CloseWindow(w)
      PROVE  WindowsOK'
  <2> SUFFICES ASSUME NEW v \in Windows PROVE WindowOK(v)'
    BY DEF WindowsOK
  <2>1. WindowOK(v) /\ Waiting(v)' = Waiting(v) /\ UNCHANGED <<history, unsent>>
    BY <1>5 DEF WindowsOK, Waiting, CancelReject, CloseWindow, library, ghosts
  <2>2. CASE v = w
    BY <1>5, <2>1, <2>2 DEF TypeOK, CancelReject, CloseWindow, WindowOK, OneWaits
  <2>3. CASE v # w
    BY <1>5, <2>1, <2>3, WindowUntouched DEF TypeOK, CancelReject, CloseWindow
  <2> QED
    BY <2>2, <2>3
<1>6. ASSUME NEW e \in Events, ReceiveAck(e)
      PROVE  WindowsOK'
  <2>1. CASE e \in cookies
    BY <1>6, <2>1, AcknowledgedWindows DEF ReceiveAck
  <2>2. CASE e \notin cookies
    BY <1>6, <2>2 DEF WindowsOK, WindowOK, OneWaits, Waiting, ReceiveAck, application
  <2> QED
    BY <2>1, <2>2
<1>7. ASSUME NEW e \in Events, Lose(e) \/ ReceiveOfflineNotice(e)
      PROVE  WindowsOK'
  BY <1>7 DEF WindowsOK, WindowOK, OneWaits, Waiting, Lose, ReceiveOfflineNotice,
              library, application, ghosts
<1>8. ASSUME NEW k \in Events, Poll(k)
      PROVE  WindowsOK'
  BY <1>8, AcknowledgedWindows DEF Poll, Expired, TypeOK, ghosts
<1> QED
  BY <1>1, <1>2, <1>3, <1>4, <1>5, <1>6, <1>7, <1>8 DEF Next

-----------------------------------------------------------------------------
(* Theorems.                                                               *)

\* The invariant is inductive.
LEMMA Invariance == Spec => []IInv
<1>1. Init => IInv
  <2> SUFFICES ASSUME Init PROVE IInv
    OBVIOUS
  <2>1. TypeOK
    <3>1. 1 \in 1 .. MaxEvents + 1
      BY DeliveryAssumption
    <3> QED
      BY <3>1 DEF Init, TypeOK
  <2>2. Alive
    BY DEF Init, Alive, KeysAreLive
  <2>3. WindowsOK
    BY DEF Init, WindowsOK, WindowOK, Waiting
  <2> QED
    BY <2>1, <2>2, <2>3 DEF IInv
<1>2. IInv /\ [Next]_vars => IInv'
  <2> SUFFICES ASSUME IInv, [Next]_vars PROVE IInv'
    OBVIOUS
  <2>1. CASE Next
    BY <2>1, TypesKept, AliveKept, WindowsKept DEF IInv
  <2>2. CASE UNCHANGED vars
    BY <2>2 DEF vars, library, application, ghosts, IInv, TypeOK, Alive, KeysAreLive,
                WindowsOK, WindowOK, OneWaits, Waiting
  <2> QED
    BY <2>1, <2>2
<1> QED
  BY <1>1, <1>2, PTL DEF Spec

\* Every variable has its type in every reachable state.
THEOREM TypeCorrect == Spec => []TypeOK
<1>1. IInv => TypeOK
  BY DEF IInv
<1> QED
  BY <1>1, Invariance, PTL

\* The application's keys, the library's cookies and the events that are not
\* deleted are always the same events.
THEOREM KeysStayLive == Spec => []KeysAreLive
<1>1. IInv => KeysAreLive
  BY DEF IInv, Alive
<1> QED
  BY <1>1, Invariance, PTL

\* A window that is sending waits for exactly one event, unless its message
\* was refused.
THEOREM SendingWaits == Spec => []SendingIsPending
<1>1. IInv => SendingIsPending
  <2> SUFFICES ASSUME IInv, NEW w \in Windows, window[w] = "sending"
               PROVE  Cardinality(Waiting(w)) = IF w \in unsent THEN 0 ELSE 1
    BY DEF SendingIsPending
  <2>1. IF w \in unsent THEN Waiting(w) = {} ELSE OneWaits(w)
    BY DEF IInv, WindowsOK, WindowOK
  <2> QED
    BY <2>1, FS_EmptySet, FS_Singleton DEF OneWaits
<1> QED
  BY <1>1, Invariance, PTL

\* The message to one contact is recorded at most once, and after that it is
\* neither sent nor reported again.
THEOREM RecordedOnceAlways == Spec => []RecordedOnce
<1>1. IInv => RecordedOnce
  BY DEF IInv, WindowsOK, WindowOK, RecordedOnce
<1> QED
  BY <1>1, Invariance, PTL

\* A report on live events is a step of the contract.
LEMMA AcknowledgedFinishes ==
    ASSUME IInv, NEW done \in SUBSET Events, done # {}, NEW r,
           done \subseteq cookies,
           MessageAcknowledged(done, r), Forget(done)
    PROVE  Contract!MessageNext
<1>1. done \cap pending = done
  BY DEF IInv, Alive, KeysAreLive
<1> DEFINE o == IF r = "delivered" THEN "delivered" ELSE "failed"
<1>2. outcome' = [e \in Events |-> IF e \in done THEN o ELSE outcome[e]]
  BY <1>1 DEF MessageAcknowledged
<1>3. Contract!Finish(done, o)
  BY <1>2 DEF Contract!Finish, Forget, IInv, Alive, KeysAreLive
<1> QED
  BY <1>3 DEF Contract!MessageNext

\* A new event is submitted once.
LEMMA AdvancedSubmits ==
    ASSUME IInv, NEW c, NEW origin, SendAdvanced(c, origin)
    PROVE  Contract!MessageNext
BY AdvancedAlive DEF IInv, SendAdvanced, Contract!MessageNext, Contract!Submit

\* The events keep the contract of SendEvent: each is reported once and is
\* then gone.
THEOREM Implementation == Spec => ImplementsContract
<1>1. Init => Contract!MessageInit
  BY DEF Init, Contract!MessageInit
<1>2. IInv /\ [Next]_vars => [Contract!MessageNext]_(Contract!messageVars)
  <2> SUFFICES ASSUME IInv, [Next]_vars
               PROVE  Contract!MessageNext \/ UNCHANGED <<heap, outcome>>
    BY DEF Contract!messageVars
  <2>1. CASE LogIn \/ LogOut
    BY <2>1 DEF LogIn, LogOut, library, application
  <2>2. ASSUME NEW c \in Contacts, PresenceChanges(c) \/ ReadStatusMessage(c)
        PROVE  Contract!MessageNext \/ UNCHANGED <<heap, outcome>>
    BY <2>2, AdvancedSubmits DEF PresenceChanges, ReadStatusMessage, application
  <2>3. ASSUME NEW w \in Windows, SendMessage(w)
        PROVE  Contract!MessageNext \/ UNCHANGED <<heap, outcome>>
    BY <2>3, AdvancedSubmits DEF SendMessage, SendRefused, SendNormal, library
  <2>4. ASSUME NEW w \in Windows, CancelReject(w) \/ CloseWindow(w)
        PROVE  UNCHANGED <<heap, outcome>>
    BY <2>4 DEF CancelReject, CloseWindow, library
  <2>5. ASSUME NEW e \in Events, ReceiveAck(e)
        PROVE  Contract!MessageNext \/ UNCHANGED <<heap, outcome>>
    BY <2>5, AcknowledgedFinishes DEF ReceiveAck, application
  <2>6. ASSUME NEW e \in Events, Lose(e) \/ ReceiveOfflineNotice(e)
        PROVE  UNCHANGED <<heap, outcome>>
    BY <2>6 DEF Lose, ReceiveOfflineNotice, library, application
  <2>7. ASSUME NEW k \in Events, Poll(k)
        PROVE  Contract!MessageNext
    BY <2>7, AcknowledgedFinishes DEF Poll, Expired, IInv, TypeOK
  <2>8. CASE UNCHANGED vars
    BY <2>8 DEF vars, library, application
  <2> QED
    BY <2>1, <2>2, <2>3, <2>4, <2>5, <2>6, <2>7, <2>8 DEF Next, Send, Resend
<1> QED
  BY <1>1, <1>2, Invariance, PTL
     DEF Spec, ImplementsContract, Contract!MessageBehaviour

\* A waiting window has its report coming, by keys that name living events,
\* and a message to one contact is recorded once.
THEOREM ReportsStayDue == Spec => []ReportsAreDue
<1>1. KeysAreLive /\ SendingIsPending /\ RecordedOnce => ReportsAreDue
  BY DEF ReportsAreDue
<1> QED
  BY <1>1, KeysStayLive, SendingWaits, RecordedOnceAlways, PTL
=============================================================================
