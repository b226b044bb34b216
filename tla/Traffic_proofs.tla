--------------------------- MODULE Traffic_proofs ---------------------------
(***************************************************************************)
(* Proofs about messages and requests, for all texts, aliases, statuses    *)
(* and contacts and any bounds: what the sender of a message is told of it *)
(* is what became of it (VerdictIsKnown), and answers reach who asked      *)
(* (RequestsAgree).  Each has its inductive invariant, MessageInv and      *)
(* RequestsInv, with one lemma per action.                                 *)
(*                                                                         *)
(* RequestsInv says of everything that is under way whose it is.  An id    *)
(* only goes round once, so what is under way in this login has an id that *)
(* is not given out again (Age); entries of earlier logins may have it,    *)
(* but never one of a later search.  Of the user's own details it says     *)
(* what the server will have when it has taken everything (Will), which is *)
(* what the library and the document have already.                         *)
(***************************************************************************)
EXTENDS MCTraffic, SequenceTheorems, FiniteSetTheorems, WellFoundedInduction, TLAPS

-----------------------------------------------------------------------------
(* Messages.                                                               *)

\* What the receiver may make of a message
Verdicts == {"accepted", "refused", "ignored"}

\* Before anything is written nothing is under way; then it is of some kind.
LetterOK ==
    \/ /\ letter = Nothing /\ ~waiting /\ told = "nothing"
       /\ wire = {} /\ acks = {} /\ arrived = {} /\ history = <<>>
    \/ letter.kind \in Kinds

\* The packets are of the letter's kind; the one that is advanced has its
\* priority, is the only one of it, and has not arrived yet.
WireOK ==
    /\ \A p \in wire : /\ p.advanced \in BOOLEAN /\ p.kind = letter.kind
                       /\ p.advanced => /\ letter.kind \in {"Normal", "URL", "Contacts", "Away"}
                                        /\ p.priority = Priority(letter)
                                        /\ \A v : <<TRUE, v>> \notin arrived
    /\ \A p, q \in wire : p.advanced /\ q.advanced => p = q

\* Verdicts on the letter: one on the advanced packet; and whom they may hit.
ArrivedOK ==
    /\ arrived \subseteq BOOLEAN \X Verdicts
    /\ \A v, w : <<TRUE, v>> \in arrived /\ <<TRUE, w>> \in arrived => v = w
    /\ letter.kind \in {"AuthAcc", "AuthRej"} \/ ~HasMessage(letter.kind) =>
          \A a \in arrived : a[2] = "accepted"
    /\ <<FALSE, "refused">> \in arrived => ~IsICQMessage(letter.kind)
    /\ <<TRUE, "refused">> \in arrived => ~letter.urgent /\ ~letter.toContactList

\* An acknowledgement says what became of the advanced packet.
AcksOK == acks \subseteq {"accepted", "refused"} /\ \A a \in acks : <<TRUE, a>> \in arrived

\* The history has something once a packet was accepted.
HistoryOK ==
    /\ history \in Seq(Range(history))
    /\ history # <<>> <=> HasMessage(letter.kind) /\ \E a \in arrived : a[2] = "accepted"

\* No plain packet has been sent.
NoPlain == (\A p \in wire : p.advanced) /\ \A v : <<FALSE, v>> \notin arrived

\* The sender waits only before any plain packet; what the application was told
\* follows from what is on the wire and what has arrived.
SenderOK ==
    /\ waiting => /\ event.kind = letter.kind /\ IsICQMessage(letter.kind)
                  /\ told = "nothing" /\ NoPlain
    /\ told \in {"nothing", "sent", "accepted", "refused"}
    /\ told = "sent" =>
          /\ IsICQMessage(letter.kind)
          /\ \/ letter.kind \in {"Away", "Contacts"}
             \/ \E p \in wire : ~p.advanced
             \/ \E v : <<FALSE, v>> \in arrived
    /\ told = "accepted" => wire = {} /\ <<TRUE, "accepted">> \in arrived
    /\ told = "refused" => /\ wire = {} /\ NoPlain
                           /\ letter.kind = "Away" \/ <<TRUE, "refused">> \in arrived

\* The inductive invariant of messages
MessageInv == LetterOK /\ WireOK /\ ArrivedOK /\ AcksOK /\ HistoryOK /\ SenderOK

\* A sequence of its own elements stays one when something is appended.
LEMMA AppendSeq ==
  ASSUME NEW s, s \in Seq(Range(s)), NEW m
  PROVE  Append(s, m) \in Seq(Range(Append(s, m))) /\ Append(s, m) # <<>>
<1>1. PICK T : T = Range(s) \cup {m}
  OBVIOUS
<1>2. s \in Seq(T) /\ m \in T
  <2>1. s \in [1..Len(s) -> Range(s)] /\ Len(s) \in Nat
    BY LenProperties
  <2>2. s \in [1..Len(s) -> T]
    BY <1>1, <2>1
  <2> QED BY <1>1, <2>1, <2>2, SeqDef
<1>3. Append(s, m) \in Seq(T) /\ Append(s, m) # <<>>
  BY <1>2, AppendProperties
<1>4. Append(s, m) \in [1..Len(Append(s, m)) -> T] /\ Len(Append(s, m)) \in Nat
  BY <1>3, LenProperties
<1>5. Append(s, m) \in [1..Len(Append(s, m)) -> Range(Append(s, m))]
  BY <1>4 DEF Range
<1>6. PICK t : t = Append(s, m)
  OBVIOUS
<1>7. Len(t) \in Nat /\ t \in [1..Len(t) -> Range(t)]
  BY <1>4, <1>5, <1>6
<1>8. t \in Seq(Range(t))
  BY <1>7, SeqDef
<1> QED BY <1>3, <1>6, <1>8

\* The first state satisfies the invariant.
LEMMA MessageInit == ASSUME Init PROVE MessageInv
<1>1. history \in Seq(Range(history))
  BY EmptySeq DEF Init
<1> QED BY <1>1 DEF Init, MessageInv, LetterOK, WireOK, ArrivedOK, AcksOK, HistoryOK, SenderOK, NoPlain,
                    Nothing, HasMessage, IsICQMessage

\* The kinds that the user can write
LEMMA LetterKinds ==
  ASSUME NEW l \in Letters
  PROVE  l.kind \in {"Normal", "URL", "AuthReq", "AuthAcc", "AuthRej", "UserAdd", "Away", "Contacts"}
BY DEF Letters

\* The event has the kind and the priority of what was written.
LEMMA EventFields ==
  ASSUME NEW l, NEW utf8 \in BOOLEAN
  PROVE  /\ Event(l, utf8).kind = l.kind
         /\ Priority(Event(l, utf8)) = Priority(l)
BY DEF Event, Priority

\* The packets have the kind of their event; the advanced one has its priority.
LEMMA PacketFields ==
  ASSUME NEW ev
  PROVE  /\ AdvancedPacket(ev).advanced = TRUE /\ AdvancedPacket(ev).kind = ev.kind
         /\ AdvancedPacket(ev).priority = Priority(ev)
         /\ PlainPacket(ev).advanced = FALSE /\ PlainPacket(ev).kind = ev.kind
BY DEF AdvancedPacket, PlainPacket

\* Sending (SendViaServer, advanced, plain or refused at once) keeps the invariant.
LEMMA SendOK ==
  ASSUME MessageInv, NEW l \in Letters, NEW relay \in BOOLEAN, NEW utf8 \in BOOLEAN,
         Send(l, relay, utf8)
  PROVE  MessageInv'
<1> DEFINE ev == Event(l, utf8)
<1>1. /\ letter' = l /\ UNCHANGED <<order, acks, status, listed, ignored, strangers, history, arrived>>
      /\ SendViaServer(ev, relay)
      /\ ~waiting /\ told = "nothing" /\ wire = {} /\ acks = {} /\ arrived = {} /\ history = <<>>
  BY DEF Send, receiver, MessageInv, LetterOK, Kinds, Nothing
<1>2. /\ ev.kind = l.kind /\ Priority(ev) = Priority(l)
      /\ l.kind \in Kinds /\ IsICQMessage(l.kind)
  BY LetterKinds, EventFields DEF Kinds, IsICQMessage
<1>3. LetterOK' /\ ArrivedOK' /\ AcksOK'
  BY <1>1, <1>2 DEF LetterOK, ArrivedOK, AcksOK
<1>4. HistoryOK'
  BY <1>1, EmptySeq DEF HistoryOK
<1> HIDE DEF ev
<1>5. CASE SendAdvanced(ev) /\ l.kind \in {"Normal", "URL", "Contacts", "Away"}
  <2>1. wire' = {AdvancedPacket(ev)} /\ event' = ev /\ told' = "nothing"
    BY <1>1, <1>5 DEF SendAdvanced
  <2>2. WireOK' /\ SenderOK'
    <3>1. PICK p : p = AdvancedPacket(ev)
      OBVIOUS
    <3>2. p.advanced = TRUE /\ p.kind = l.kind /\ p.priority = Priority(l) /\ wire' = {p}
      BY <1>2, <2>1, <3>1, PacketFields
    <3> QED BY <1>1, <1>2, <1>5, <2>1, <3>2 DEF WireOK, SenderOK, NoPlain, Priority
  <2> QED BY <1>3, <1>4, <2>2 DEF MessageInv
<1>6. CASE SendNormal(ev)
  <2>1. /\ wire' = IF ev.kind \in {"Away", "Contacts"} THEN {} ELSE {PlainPacket(ev)}
        /\ told' = "sent" /\ waiting' = FALSE
    BY <1>1, <1>6 DEF SendNormal
  <2>2. WireOK' /\ SenderOK'
    <3>1. PICK p : p = PlainPacket(ev)
      OBVIOUS
    <3>2. p.advanced = FALSE /\ p.kind = l.kind
      BY <1>2, <2>1, <3>1, PacketFields
    <3> QED BY <1>1, <1>2, <2>1, <3>1, <3>2 DEF WireOK, SenderOK, NoPlain
  <2> QED BY <1>3, <1>4, <2>2 DEF MessageInv
<1>7. CASE l.kind = "Away" /\ told' = "refused" /\ UNCHANGED <<event, waiting, wire>>
  <2>1. WireOK' /\ SenderOK'
    BY <1>1, <1>7 DEF WireOK, SenderOK, NoPlain
  <2> QED BY <1>3, <1>4, <2>1 DEF MessageInv
<1> QED BY <1>1, <1>2, <1>5, <1>6, <1>7 DEF SendViaServer

\* A message that the server makes keeps the invariant.
LEMMA ServerSendsOK ==
  ASSUME MessageInv, NEW kind \in {"SMS", "EmailEx", "WebPager"}, NEW text, ServerSends(kind, text)
  PROVE  MessageInv'
<1>1. /\ letter'.kind = kind
      /\ UNCHANGED <<event, waiting, told, acks, history, arrived>>
      /\ ~waiting /\ told = "nothing" /\ acks = {} /\ arrived = {} /\ history = <<>>
  BY DEF ServerSends, receiver, MessageInv, LetterOK, Kinds, Nothing
<1>2. \A p \in wire' : p.advanced = FALSE /\ p.kind = kind
  BY DEF ServerSends
<1>3. LetterOK' /\ ArrivedOK' /\ AcksOK' /\ WireOK' /\ SenderOK'
  BY <1>1, <1>2 DEF LetterOK, ArrivedOK, AcksOK, WireOK, SenderOK, NoPlain, Kinds
<1>4. HistoryOK'
  BY <1>1, EmptySeq DEF HistoryOK
<1> QED BY <1>3, <1>4 DEF MessageInv

\* The expiry of the cookie, and sending again, keep the invariant.
LEMMA ExpireOK ==
  ASSUME MessageInv, Expire
  PROVE  MessageInv'
<1>1. /\ wire' = IF event.kind \in {"Away", "Contacts"} THEN wire ELSE wire \cup {PlainPacket(event)}
      /\ told' = "sent" /\ waiting' = FALSE /\ waiting
      /\ UNCHANGED <<letter, acks, history, arrived>>
  BY DEF Expire, SendNormal, receiver
<1>2. event.kind = letter.kind /\ IsICQMessage(letter.kind) /\ letter.kind \in Kinds
  BY <1>1 DEF MessageInv, SenderOK, LetterOK
<1>3. LetterOK' /\ ArrivedOK' /\ AcksOK' /\ HistoryOK'
  BY <1>1, <1>2 DEF MessageInv, LetterOK, ArrivedOK, AcksOK, HistoryOK
<1>4. WireOK' /\ SenderOK'
  <2>1. PICK p : p = PlainPacket(event)
    OBVIOUS
  <2>2. p.advanced = FALSE /\ p.kind = letter.kind
    BY <1>2, <2>1, PacketFields
  <2>3. WireOK'
    BY <1>1, <2>1, <2>2 DEF WireOK, MessageInv, Priority
  <2> QED BY <1>1, <1>2, <2>1, <2>2, <2>3 DEF SenderOK
<1> QED BY <1>3, <1>4 DEF MessageInv

\* An acknowledgement (handleIncomingACK) keeps the invariant.
LEMMA ReceiveAckOK ==
  ASSUME MessageInv, NEW a \in acks, ReceiveAck(a)
  PROVE  MessageInv'
<1>1. acks' = acks \ {a} /\ UNCHANGED <<letter, wire, history, arrived>>
  BY DEF ReceiveAck, receiver
<1>2. a \in {"accepted", "refused"} /\ <<TRUE, a>> \in arrived
  BY DEF MessageInv, AcksOK
<1>3. LetterOK'
  <2>1. letter.kind \in Kinds
    BY DEF MessageInv, LetterOK
  <2> QED BY <1>1, <2>1 DEF LetterOK
<1>4. WireOK' /\ ArrivedOK' /\ AcksOK' /\ HistoryOK'
  BY <1>1 DEF MessageInv, WireOK, ArrivedOK, AcksOK, HistoryOK, Priority
<1>5. SenderOK'
  <2>1. CASE waiting /\ event.kind # "Contacts"
    <3>1. told' = (IF event.kind = "Away" THEN "accepted" ELSE a) /\ waiting' = FALSE
      BY <2>1 DEF ReceiveAck
    <3>2. event.kind = letter.kind /\ NoPlain
      BY <2>1 DEF MessageInv, SenderOK
    <3>3. wire = {}
      BY <1>2, <3>2 DEF MessageInv, WireOK, NoPlain
    <3>4. event.kind = "Away" => a = "accepted"
      BY <1>2, <3>2 DEF MessageInv, ArrivedOK, HasMessage
    <3> QED BY <1>1, <1>2, <3>1, <3>2, <3>3, <3>4 DEF SenderOK, NoPlain
  <2>2. CASE ~(waiting /\ event.kind # "Contacts")
    <3>1. UNCHANGED <<told, waiting, event>>
      BY <2>2 DEF ReceiveAck
    <3> QED BY <1>1, <3>1 DEF MessageInv, SenderOK, NoPlain
  <2> QED BY <2>1, <2>2
<1> QED BY <1>3, <1>4, <1>5 DEF MessageInv

\* A loss keeps the invariant: plain packets are not lost.
LEMMA LoseOK ==
  ASSUME MessageInv, Lose
  PROVE  MessageInv'
<1>1. /\ wire' \subseteq wire /\ acks' \subseteq acks /\ UNCHANGED <<letter, event, waiting, told, history, arrived>>
      /\ \A p \in wire : ~p.advanced => p \in wire'
  BY DEF Lose, sender, receiver
<1>2. LetterOK' /\ WireOK' /\ ArrivedOK' /\ AcksOK' /\ HistoryOK'
  BY <1>1 DEF MessageInv, LetterOK, WireOK, ArrivedOK, AcksOK, HistoryOK, Priority
<1>3. SenderOK'
  BY <1>1 DEF MessageInv, SenderOK, NoPlain
<1> QED BY <1>2, <1>3 DEF MessageInv

\* What receivedMessage: decides, and that only an accepted message is added
LEMMA Verdict ==
  ASSUME MessageInv, NEW p \in wire, NEW verdict \in Verdicts,
         \/ HasMessage(p.kind) /\ ReceivedMessage(Incoming(p), verdict)
         \/ ~HasMessage(p.kind) /\ verdict = "accepted" /\ UNCHANGED receiver
  PROVE  /\ p.kind \in {"AuthAcc", "AuthRej"} \/ ~HasMessage(p.kind) => verdict # "ignored"
         /\ verdict = "refused" => HasMessage(p.kind) /\ Blocks(Incoming(p))
         /\ HasMessage(p.kind) /\ verdict = "accepted" => history' = Append(history, Incoming(p))
         /\ ~(HasMessage(p.kind) /\ verdict = "accepted") => history' = history
<1>1. Incoming(p).kind = p.kind
  BY DEF Incoming
<1> QED BY <1>1 DEF ReceivedMessage, Accepts, receiver, Verdicts

\* A message is turned down only if it has no flag; a plain one has been given one.
LEMMA Blocked ==
  ASSUME NEW p, p.advanced \in BOOLEAN, Blocks(Incoming(p))
  PROVE  /\ p.priority \notin {"urgent", "to_contact_list"}
         /\ ~p.advanced => ~IsICQMessage(p.kind)
<1>1. /\ Incoming(p).urgent = (p.priority = "urgent")
      /\ Incoming(p).toContactList = (p.priority = "to_contact_list"
                                        \/ (~p.advanced /\ IsICQMessage(p.kind) /\ Busy))
  BY DEF Incoming
<1> QED BY <1>1 DEF Blocks

\* Receiving a packet keeps the invariant.
LEMMA ReceiveOK ==
  ASSUME MessageInv, NEW p \in wire, Receive(p)
  PROVE  MessageInv'
<1>1. PICK verdict \in Verdicts :
         /\ \/ HasMessage(p.kind) /\ ReceivedMessage(Incoming(p), verdict)
            \/ ~HasMessage(p.kind) /\ verdict = "accepted" /\ UNCHANGED receiver
         /\ acks' = IF p.advanced /\ verdict # "ignored" THEN acks \cup {verdict} ELSE acks
         /\ arrived' = arrived \cup {<<p.advanced, verdict>>}
  BY DEF Receive, Verdicts
<1>2. wire' = wire \ {p} /\ UNCHANGED <<letter, event, waiting, told>>
  BY DEF Receive, sender
<1>3. p.advanced \in BOOLEAN /\ p.kind = letter.kind /\ letter.kind \in Kinds
  BY DEF MessageInv, WireOK, LetterOK
<1>4. /\ p.kind \in {"AuthAcc", "AuthRej"} \/ ~HasMessage(p.kind) => verdict # "ignored"
      /\ verdict = "refused" => HasMessage(p.kind) /\ Blocks(Incoming(p))
      /\ HasMessage(p.kind) /\ verdict = "accepted" => history' = Append(history, Incoming(p))
      /\ ~(HasMessage(p.kind) /\ verdict = "accepted") => history' = history
  BY <1>1, Verdict
<1>5. p.advanced => p.priority = Priority(letter) /\ \A v : <<TRUE, v>> \notin arrived
  BY DEF MessageInv, WireOK
<1>6. LetterOK' /\ WireOK'
  <2>1. \A q \in wire' : q.advanced => \A v : <<TRUE, v>> \notin arrived'
    BY <1>1, <1>2, <1>3 DEF MessageInv, WireOK
  <2> QED BY <1>2, <1>3, <2>1 DEF MessageInv, LetterOK, WireOK, Priority
<1>7. ArrivedOK'
  <2>1. arrived' \subseteq BOOLEAN \X Verdicts
    BY <1>1, <1>3 DEF MessageInv, ArrivedOK
  <2>2. ASSUME NEW v, NEW w, <<TRUE, v>> \in arrived', <<TRUE, w>> \in arrived' PROVE v = w
    BY <1>1, <1>3, <1>5, <2>2 DEF MessageInv, ArrivedOK
  <2>3. ASSUME letter.kind \in {"AuthAcc", "AuthRej"} \/ ~HasMessage(letter.kind)
        PROVE  verdict = "accepted"
    <3>1. verdict # "ignored" /\ (HasMessage(p.kind) => ~p.advanced /\ IsICQMessage(p.kind))
      BY <1>3, <1>4, <2>3 DEF MessageInv, WireOK, IsICQMessage
    <3>2. verdict # "refused"
      BY <1>3, <1>4, <3>1, Blocked
    <3> QED BY <3>1, <3>2 DEF Verdicts
  <2>4. ASSUME verdict = "refused", p.advanced PROVE ~letter.urgent /\ ~letter.toContactList
    <3>1. Blocks(Incoming(p))
      BY <1>4, <2>4
    <3>2. p.priority \notin {"urgent", "to_contact_list"}
      BY <1>3, <3>1, Blocked
    <3> QED BY <1>5, <2>4, <3>2 DEF Priority
  <2>5. ASSUME verdict = "refused", ~p.advanced PROVE ~IsICQMessage(letter.kind)
    <3>1. Blocks(Incoming(p))
      BY <1>4, <2>5
    <3> QED BY <1>3, <2>5, <3>1, Blocked
  <2>6. letter.kind \in {"AuthAcc", "AuthRej"} \/ ~HasMessage(letter.kind) =>
           \A a \in arrived' : a[2] = "accepted"
    BY <1>1, <2>3 DEF MessageInv, ArrivedOK
  <2>7. <<FALSE, "refused">> \in arrived' => ~IsICQMessage(letter.kind)
    BY <1>1, <2>5 DEF MessageInv, ArrivedOK
  <2>8. <<TRUE, "refused">> \in arrived' => ~letter.urgent /\ ~letter.toContactList
    BY <1>1, <2>4 DEF MessageInv, ArrivedOK
  <2> QED BY <1>2, <2>1, <2>2, <2>6, <2>7, <2>8 DEF ArrivedOK
<1>8. AcksOK'
  BY <1>1, <1>3 DEF MessageInv, AcksOK, Verdicts
<1>9. HistoryOK'
  <2>1. CASE HasMessage(p.kind) /\ verdict = "accepted"
    <3>1. history' = Append(history, Incoming(p))
      BY <1>4, <2>1
    <3>2. history' \in Seq(Range(history')) /\ history' # <<>>
      BY <3>1, AppendSeq DEF MessageInv, HistoryOK
    <3>3. \E a \in arrived' : a[2] = "accepted"
      <4>1. PICK a : a = <<p.advanced, verdict>>
        OBVIOUS
      <4> QED BY <1>1, <2>1, <4>1
    <3> QED BY <1>2, <1>3, <2>1, <3>2, <3>3 DEF HistoryOK
  <2>2. CASE ~(HasMessage(p.kind) /\ verdict = "accepted")
    BY <1>1, <1>2, <1>3, <1>4, <2>2 DEF MessageInv, HistoryOK
  <2> QED BY <2>1, <2>2
<1>10. SenderOK'
  BY <1>1, <1>2, <1>3 DEF MessageInv, SenderOK, NoPlain
<1> QED BY <1>6, <1>7, <1>8, <1>9, <1>10 DEF MessageInv

\* Every step keeps the invariant.
LEMMA MessageNext == ASSUME MessageInv, [Next]_vars PROVE MessageInv'
<1>1. CASE StatusChanges \/ UserEdits \/ UNCHANGED vars
  <2>1. UNCHANGED <<letter, event, waiting, told, wire, acks, history, arrived>>
    BY <1>1 DEF StatusChanges, UserEdits, vars, sender, receiver
  <2> QED BY <2>1 DEF MessageInv, LetterOK, WireOK, ArrivedOK, AcksOK, HistoryOK, SenderOK, NoPlain, Priority
<1> QED BY <1>1, SendOK, ServerSendsOK, ExpireOK, ReceiveAckOK, LoseOK, ReceiveOK DEF Next

\* The invariant implies the property.
LEMMA VerdictsFollow == ASSUME MessageInv PROVE VerdictIsKnown
<1>1. DeliveredIsShown
  <2>1. ASSUME told = "sent", wire = {}, HasMessage(letter.kind)
        PROVE  \E a \in arrived : a[2] \in Verdicts /\ a[2] # "refused"
    <3>1. PICK v : <<FALSE, v>> \in arrived
      BY <2>1 DEF MessageInv, SenderOK, HasMessage
    <3>2. v \in Verdicts /\ v # "refused"
      BY <2>1, <3>1 DEF MessageInv, SenderOK, ArrivedOK
    <3> QED BY <3>1, <3>2
  <2>2. ASSUME told = "accepted" PROVE \E a \in arrived : a[2] = "accepted"
    BY <2>2 DEF MessageInv, SenderOK
  <2>3. ASSUME NEW a \in arrived, a[2] = "ignored"
        PROVE  letter.kind \notin {"AuthAcc", "AuthRej"}
    BY <2>3 DEF MessageInv, ArrivedOK
  <2> QED BY <2>1, <2>2, <2>3 DEF MessageInv, HistoryOK, DeliveredIsShown, Verdicts
<1>2. RefusedIsNotShown
  <2>1. ASSUME told = "refused" PROVE history = <<>>
    <3>1. CASE letter.kind = "Away"
      BY <3>1 DEF MessageInv, HistoryOK, HasMessage
    <3>2. CASE <<TRUE, "refused">> \in arrived
      <4>1. ASSUME NEW a \in arrived PROVE a[2] = "refused"
        <5>1. PICK b \in BOOLEAN, v \in Verdicts : a = <<b, v>>
          BY DEF MessageInv, ArrivedOK
        <5>2. b = TRUE
          BY <2>1, <5>1 DEF MessageInv, SenderOK, NoPlain
        <5> QED BY <3>2, <5>1, <5>2 DEF MessageInv, ArrivedOK
      <4> QED BY <4>1 DEF MessageInv, HistoryOK
    <3> QED BY <2>1, <3>1, <3>2 DEF MessageInv, SenderOK
  <2> QED BY <2>1 DEF RefusedIsNotShown, MessageInv, SenderOK
<1>3. PriorityGetsThrough
  BY DEF PriorityGetsThrough, MessageInv, SenderOK, ArrivedOK
<1>4. IgnoredHearNothing
  <2>1. ASSUME <<TRUE, "ignored">> \in arrived
        PROVE  <<TRUE, "accepted">> \notin arrived /\ <<TRUE, "refused">> \notin arrived
    BY <2>1 DEF MessageInv, ArrivedOK
  <2>2. ASSUME <<TRUE, "ignored">> \in arrived PROVE letter.kind # "Away"
    BY <2>2 DEF MessageInv, ArrivedOK, HasMessage
  <2> QED BY <2>1, <2>2 DEF IgnoredHearNothing, MessageInv, SenderOK, AcksOK
<1> QED BY <1>1, <1>2, <1>3, <1>4 DEF VerdictIsKnown

\* A message that was reported delivered, and of which nothing is under way, is in
\* the receiver's history or was ignored; one that was refused is not in it; a
\* flag gets through to a busy receiver; and those who are ignored hear nothing.
THEOREM VerdictKnown == Spec => []VerdictIsKnown
<1>1. Init => MessageInv
  BY MessageInit
<1>2. MessageInv /\ [Next]_vars => MessageInv'
  BY MessageNext
<1>3. MessageInv => VerdictIsKnown
  BY VerdictsFollow
<1> QED BY <1>1, <1>2, <1>3, PTL DEF Spec

-----------------------------------------------------------------------------
(* Requests.                                                               *)

\* The ids of requests, and the values of details
Ids == 0 .. IdSpace - 1
Known == Values \cup {NoValue}

\* Entries of the cache, packets and answers
Entry == [id : Ids, kind : {"Search"}, search : 1 .. MaxSearches]
         \cup [id : Ids, kind : {"UserInfo"}, contact : Contacts]
Packet == [id : Ids, kind : {"Search"}, how : {"number", "names"}, search : 1 .. MaxSearches,
           sent : Nat]
          \cup [id : Ids, kind : {"UserInfo"}, contact : Contacts, left : SUBSET Parts]
          \cup [kind : {"Update"}, part : Parts, values : [AllFields -> Known]]
Answer == [kind : {"Info"}, id : Ids, of : Contacts,
           values : UNION {[FieldsOf(p) -> Known] : p \in Parts}]
          \cup [kind : {"Result"}, id : Ids, how : {"number", "names"}, search : 1 .. MaxSearches,
                found : SUBSET Found, last : BOOLEAN]

\* The types of the variables
LinkType == connected \in BOOLEAN /\ open \in BOOLEAN
TrafficType ==
    /\ requestid \in Ids /\ made \in 0 .. MaxRequests /\ collided \in BOOLEAN
    /\ cache \in Seq(Entry) /\ asked \in Seq(Packet) /\ answers \in Seq(Answer)
DetailsType ==
    /\ srv \in [Contacts -> [AllFields -> Known]] /\ lib \in [Contacts -> [AllFields -> Known]]
    /\ doc \in [Contacts -> [Parts -> Known]] /\ window \in Window
    /\ edition \in 0 .. MaxSaves
    /\ careless \subseteq {"partial", "stale", "unread"} /\ crossed \in BOOLEAN
TypeInv == LinkType /\ TrafficType /\ panel \in Panel /\ DetailsType

\* What is under way, the uploads among it, and the details
UnderWay == Range(asked) \cup Range(answers)
Updates == {q \in Range(asked) : q.kind = "Update"}
Infos == {a \in Range(answers) : a.kind = "Info"}

\* How many ids ago this one was given out, if in this login
Age(id) == IF id <= requestid THEN requestid - id ELSE requestid - id + IdSpace

\* The answer to q, or the answer q, is for the entry e of the cache.
Matches(e, q) ==
    IF e.kind = "Search" THEN q.kind \in {"Search", "Result"} /\ q.search = e.search
    ELSE \/ q.kind = "UserInfo" /\ q.contact = e.contact
         \/ q.kind = "Info" /\ q.of = e.contact

\* What is under way has an id of this login.  The entry of its id may be of
\* an earlier login, but never of a later search; and unless ids have
\* collided, it is its own.
UnderWayOK(q) ==
    q.kind # "Update" =>
       /\ Age(q.id) < made
       /\ q.kind \in {"Search", "Result"} =>
             /\ q.search <= panel.current
             /\ \A e \in Range(cache) : e.kind = "Search" /\ e.id = q.id => e.search <= q.search
       /\ ~collided => \A e \in Range(cache) : e.id = q.id => Matches(e, q)

\* Nothing is under way without a connection, what is has its entry, and unless
\* ids have collided an id is in the cache once.
TrafficOK ==
    /\ ~connected => asked = <<>> /\ answers = <<>>
    /\ \A q \in UnderWay : UnderWayOK(q)
    /\ ~collided => \A i, j \in DOMAIN cache : cache[i].id = cache[j].id => i = j

\* The panel shows the search it runs, and every search has one entry.
SearchesOK ==
    /\ PendingIsCached /\ ResultsAreCurrent
    /\ \A e \in Range(cache) : e.kind = "Search" => e.search <= panel.current
    /\ \A i, j \in DOMAIN cache :
          cache[i].kind = "Search" /\ cache[j].kind = "Search" /\ cache[i].search = cache[j].search
             => i = j

\* Values of c's own
Own(v, c) == v = NoValue \/ v.of = c
\* Unless ids have collided, details are of whom they are kept, shown, uploaded
\* or sent for.
OwnersOK ==
    ~collided =>
       /\ \A c \in Contacts : \A f \in AllFields : Own(lib[c][f], c) /\ Own(srv[c][f], c)
       /\ \A p \in Parts : Own(doc[Self][p], Self) /\ Own(window.form[p], Self)
       /\ \A q \in Updates : \A f \in AllFields : Own(q.values[f], Self)
       /\ \A a \in Infos : \A f \in DOMAIN a.values : Own(a.values[f], a.of)

\* A field that an upload or the server may only lack if the user was careless
Excused(f) ==
    IF f = "timezone" THEN "unread" \in careless ELSE careless \cap {"partial", "stale"} # {}
\* Only a careless save uploads less than the server has.  A window that shows
\* what the document has lacks a part only while the library has another.
ErasuresOK ==
    /\ \A c \in Others : \A f \in AllFields : srv[c][f] # NoValue
    /\ \A f \in AllFields : srv[Self][f] = NoValue => Excused(f)
    /\ \A q \in Updates : \A f \in AllFields : q.values[f] = NoValue => Excused(f)
    /\ \A a \in Infos : \A f \in DOMAIN a.values : a.values[f] = NoValue => Excused(f)
    /\ \A p \in Parts : doc[Self][p] = NoValue =>
          Excused(p) \/ (lib[Self][p] = NoValue /\ \E r \in Parts : lib[Self][r] # NoValue)
    /\ ~window.noticed => window.form = doc[Self]

\* The server, which has details, will have v as the part p once it has taken
\* all of requests.
UpdateOf(q, p) == q.kind = "Update" /\ q.part = p
Will(requests, has, p, v) ==
    \/ /\ has[p] = v
       /\ \A i \in DOMAIN requests : ~UpdateOf(requests[i], p)
    \/ \E i \in DOMAIN requests :
          /\ UpdateOf(requests[i], p) /\ requests[i].values[p] = v
          /\ \A j \in DOMAIN requests : j > i => ~UpdateOf(requests[j], p)

OwnAsked(q) == q.kind = "UserInfo" /\ q.contact = Self
\* No update comes after a request for the user's own details.
InOrder(requests) ==
    \A i, j \in DOMAIN requests : i < j /\ OwnAsked(requests[i]) => requests[j].kind # "Update"

\* The library and the document have of the user's own details what the server
\* will have.  Answers with the user's details are of before any upload, or after
\* all.
OwnDetailsOK ==
    ~crossed /\ ~collided =>
       /\ \A p \in Parts :
             /\ lib[Self][p] = NoValue \/ Will(asked, srv[Self], p, lib[Self][p])
             /\ edition > 0 => /\ doc[Self][p] = lib[Self][p]
                               /\ Will(asked, srv[Self], p, doc[Self][p])
       /\ InOrder(asked)
       /\ \A a \in Infos : a.of = Self =>
             /\ Updates = {}
             /\ \A p \in Parts \cap DOMAIN a.values : a.values[p] = srv[Self][p]

\* The inductive invariant of requests
RequestsInv == TypeInv /\ TrafficOK /\ SearchesOK /\ OwnersOK /\ ErasuresOK /\ OwnDetailsOK

-----------------------------------------------------------------------------
(* Sequences.                                                              *)

\* The elements of a sequence
LEMMA RangeIn == ASSUME NEW S, NEW s \in Seq(S) PROVE Range(s) \subseteq S
BY DEF Range

\* The elements of a tail
LEMMA RangeTail ==
  ASSUME NEW S, NEW s \in Seq(S), s # <<>>
  PROVE  Range(Tail(s)) \subseteq Range(s) /\ Head(s) \in Range(s)
BY DEF Range

\* The elements when one is appended
LEMMA RangeAppend ==
  ASSUME NEW S, NEW s \in Seq(S), NEW x \in S
  PROVE  Range(Append(s, x)) = Range(s) \cup {x}
<1>1. ASSUME NEW y \in Range(Append(s, x)) PROVE y \in Range(s) \cup {x}
  BY DEF Range
<1>2. ASSUME NEW y \in Range(s) PROVE y \in Range(Append(s, x))
  BY DEF Range
<1>3. x \in Range(Append(s, x))
  <2>1. Append(s, x)[Len(s) + 1] = x /\ Len(s) + 1 \in DOMAIN Append(s, x)
    OBVIOUS
  <2> QED BY <2>1 DEF Range
<1> QED BY <1>1, <1>2, <1>3

\* The elements of two sequences in one
LEMMA RangeConcat ==
  ASSUME NEW S, NEW s \in Seq(S), NEW t \in Seq(S)
  PROVE  Range(s \o t) \subseteq Range(s) \cup Range(t)
<1>1. ASSUME NEW i \in DOMAIN (s \o t) PROVE (s \o t)[i] \in Range(s) \cup Range(t)
  <2>1. CASE i \in 1..Len(s)
    BY <2>1, ConcatProperties DEF Range
  <2>2. CASE i \notin 1..Len(s)
    <3>1. (s \o t)[i] = t[i - Len(s)] /\ i - Len(s) \in 1..Len(t)
      BY <2>2, ConcatProperties
    <3> QED BY <3>1 DEF Range
  <2> QED BY <2>1, <2>2
<1> QED BY <1>1 DEF Range

\* The elements when the head is replaced
LEMMA RangeReplaced ==
  ASSUME NEW S, NEW s \in Seq(S), s # <<>>, NEW x \in S
  PROVE  /\ <<x>> \o Tail(s) \in Seq(S) /\ Len(<<x>> \o Tail(s)) = Len(s)
         /\ \A i \in 1..Len(s) : (<<x>> \o Tail(s))[i] = IF i = 1 THEN x ELSE s[i]
         /\ Range(<<x>> \o Tail(s)) \subseteq Range(s) \cup {x}
<1>1. /\ <<x>> \o Tail(s) \in Seq(S) /\ Len(<<x>> \o Tail(s)) = Len(s)
      /\ \A i \in 1..Len(s) : (<<x>> \o Tail(s))[i] = IF i = 1 THEN x ELSE s[i]
  OBVIOUS
<1> QED BY <1>1 DEF Range

\* The sequence without its i-th element
Dropped(s, t, i) ==
    /\ Len(t) = Len(s) - 1
    /\ \A j \in 1..Len(t) : t[j] = IF j < i THEN s[j] ELSE s[j + 1]

\* The tail is the sequence without its first element.
LEMMA TailDrops ==
  ASSUME NEW S, NEW s \in Seq(S), s # <<>>
  PROVE  Tail(s) \in Seq(S) /\ Dropped(s, Tail(s), 1)
BY DEF Dropped

\* RemoveAt does what it says.
LEMMA RemoveDrops ==
  ASSUME NEW S, NEW s \in Seq(S), NEW i \in 1..Len(s)
  PROVE  RemoveAt(s, i) \in Seq(S) /\ Dropped(s, RemoveAt(s, i), i)
<1>1. PICK a : a = SubSeq(s, 1, i - 1)
  OBVIOUS
<1>2. PICK b : b = SubSeq(s, i + 1, Len(s))
  OBVIOUS
<1>3. RemoveAt(s, i) = a \o b
  BY <1>1, <1>2 DEF RemoveAt
<1>4. a \in Seq(S) /\ Len(a) = i - 1 /\ \A j \in 1..i - 1 : a[j] = s[j]
  <2>1. \A j \in 1..i - 1 : s[j] \in S
    OBVIOUS
  <2>2. \A j \in 1..(i - 1) - 1 + 1 : SubSeq(s, 1, i - 1)[j] = s[1 + j - 1]
    BY <2>1, SubSeqProperties
  <2>3. SubSeq(s, 1, i - 1) \in Seq(S) /\ Len(SubSeq(s, 1, i - 1)) = i - 1
    BY <2>1, SubSeqProperties
  <2>4. ASSUME NEW j \in 1..i - 1 PROVE a[j] = s[j]
    BY <1>1, <2>2
  <2> QED BY <1>1, <2>3, <2>4
<1>5. b \in Seq(S) /\ Len(b) = Len(s) - i /\ \A j \in 1..Len(s) - i : b[j] = s[i + j]
  <2>1. \A j \in i + 1..Len(s) : s[j] \in S
    OBVIOUS
  <2>2. \A j \in 1..Len(s) - (i + 1) + 1 : SubSeq(s, i + 1, Len(s))[j] = s[(i + 1) + j - 1]
    BY <2>1, SubSeqProperties
  <2>3. SubSeq(s, i + 1, Len(s)) \in Seq(S) /\ Len(SubSeq(s, i + 1, Len(s))) = Len(s) - i
    BY <2>1, SubSeqProperties
  <2>4. ASSUME NEW j \in 1..Len(s) - i PROVE b[j] = s[i + j]
    BY <1>2, <2>2
  <2> QED BY <1>2, <2>3, <2>4
<1>6. a \o b \in Seq(S) /\ Len(a \o b) = Len(s) - 1
  <2>1. a \o b \in Seq(S) /\ Len(a \o b) = Len(a) + Len(b)
    BY <1>4, <1>5, ConcatProperties
  <2> QED BY <1>4, <1>5, <2>1
<1>7. ASSUME NEW j \in 1..Len(s) - 1 PROVE (a \o b)[j] = IF j < i THEN s[j] ELSE s[j + 1]
  <2>1. CASE j < i
    BY <1>4, <1>5, <2>1
  <2>2. CASE ~(j < i)
    <3>1. PICK k : k = j - (i - 1) /\ k \in 1..Len(s) - i /\ i + k = j + 1
      BY <2>2
    <3>2. (a \o b)[j] = b[k]
      BY <1>4, <1>5, <2>2, <3>1
    <3> QED BY <1>5, <2>2, <3>1, <3>2
  <2> QED BY <2>1, <2>2
<1> QED BY <1>3, <1>6, <1>7 DEF Dropped

\* The elements that are left are the others.
LEMMA DropRange ==
  ASSUME NEW S, NEW s \in Seq(S), NEW t \in Seq(S), NEW i \in 1..Len(s), Dropped(s, t, i)
  PROVE  /\ Range(t) \subseteq Range(s) /\ s[i] \in Range(s)
         /\ \A j \in 1..Len(s) : j # i => s[j] \in Range(t)
         /\ \A j \in 1..Len(t) : \E k \in 1..Len(s) : k # i /\ t[j] = s[k]
<1>1. ASSUME NEW j \in 1..Len(t) PROVE \E k \in 1..Len(s) : k # i /\ t[j] = s[k]
  BY DEF Dropped
<1>2. ASSUME NEW j \in 1..Len(s), j # i PROVE s[j] \in Range(t)
  <2>1. PICK k \in 1..Len(t) : t[k] = s[j]
    <3>1. CASE j < i
      BY <3>1 DEF Dropped
    <3>2. CASE j > i
      <4>1. j - 1 \in 1..Len(t) /\ t[j - 1] = s[j]
        BY <3>2 DEF Dropped
      <4> QED BY <4>1
    <3> QED BY <1>2, <3>1, <3>2
  <2> QED BY <2>1 DEF Range
<1>3. Range(t) \subseteq Range(s)
  BY <1>1 DEF Range
<1> QED BY <1>1, <1>2, <1>3 DEF Range

\* A set of naturals has a least element.  (The library's theorem about the order
\* of the naturals takes an operator; that of the subsets of a finite set does not.)
LEMMA Least ==
  ASSUME NEW N \in Nat, NEW T \in SUBSET (0..N), T # {}
  PROVE  \E n \in T : \A k \in T : n <= k
<1> DEFINE R == StrictSubsetOrdering(0..N)
           S == FiniteSubsetsOf(0..N)
           Below == {0..(n - 1) : n \in T}
<1>1. IsWellFoundedOn(R, S)
  BY FS_StrictSubsetOrderingWellFounded
<1>2. Below \subseteq S /\ Below # {}
  <2>1. ASSUME NEW n \in T PROVE 0..(n - 1) \in S
    <3>1. n - 1 \in Int /\ 0..(n - 1) \subseteq 0..N
      OBVIOUS
    <3>2. IsFiniteSet(0..(n - 1))
      BY <3>1, FS_Interval
    <3> QED BY <3>1, <3>2 DEF FiniteSubsetsOf
  <2> QED BY <2>1
<1>3. PICK B \in Below : \A C \in Below : <<C, B>> \notin R
  <2> HIDE DEF R, S, Below
  <2> QED BY <1>1, <1>2, WFMin
<1>4. PICK n \in T : B = 0..(n - 1)
  OBVIOUS
<1>5. ASSUME NEW k \in T, k < n PROVE FALSE
  <2>1. 0..(k - 1) \in Below /\ B \in Below
    OBVIOUS
  <2>2. 0..(k - 1) \subseteq 0..N /\ B \subseteq 0..N
    BY <1>4
  <2>3. 0..(k - 1) \subseteq B /\ 0..(k - 1) # B
    <3>1. k \in B /\ k \notin 0..(k - 1)
      BY <1>4, <1>5
    <3>2. 0..(k - 1) \subseteq B
      BY <1>4, <1>5
    <3> QED BY <3>1, <3>2
  <2>4. <<0..(k - 1), B>> \in R
    BY <2>2, <2>3 DEF StrictSubsetOrdering
  <2> QED BY <1>3, <2>1, <2>4
<1> QED BY <1>5

-----------------------------------------------------------------------------
(* The cache.                                                              *)

\* What Lookup and Without speak of is one entry with the id.
LEMMA LookupFinds ==
  ASSUME cache \in Seq(Entry), NEW id, Exists(id)
  PROVE  \E i \in 1..Len(cache) :
            cache[i].id = id /\ Lookup(id) = cache[i] /\ Without(id) = RemoveAt(cache, i)
<1> DEFINE I == {i \in 1..Len(cache) : cache[i].id = id}
<1>1. I # {} /\ I \subseteq 0..Len(cache) /\ Len(cache) \in Nat
  BY DEF Exists
<1>2. \E n \in I : \A k \in I : n <= k
  <2> HIDE DEF I
  <2> QED BY <1>1, Least
<1>3. PICK i \in I : Min(I) = i
  <2> HIDE DEF I
  <2>1. Min(I) \in I
    BY <1>2 DEF Min
  <2> QED BY <2>1
<1>4. SelectInSeq(cache, LAMBDA e : e.id = id) = i
  BY <1>1, <1>3 DEF SelectInSeq
<1> QED BY <1>3, <1>4 DEF Lookup, Without

-----------------------------------------------------------------------------
(* What the server will have.                                              *)

\* Taking the head, an upload or not, changes nothing of what the server will have.
LEMMA WillTail ==
  ASSUME NEW s \in Seq(Packet), s # <<>>, NEW has, NEW p, NEW v, Will(s, has, p, v),
         NEW has2, IF UpdateOf(Head(s), p) THEN has2[p] = Head(s).values[p] ELSE has2[p] = has[p]
  PROVE  Will(Tail(s), has2, p, v)
<1>1. \A i \in 1..Len(s) - 1 : Tail(s)[i] = s[i + 1]
  OBVIOUS
<1>2. CASE has[p] = v /\ \A i \in DOMAIN s : ~UpdateOf(s[i], p)
  BY <1>1, <1>2 DEF Will
<1>3. ASSUME NEW i \in 1..Len(s), UpdateOf(s[i], p), s[i].values[p] = v,
             \A j \in 1..Len(s) : j > i => ~UpdateOf(s[j], p)
      PROVE  Will(Tail(s), has2, p, v)
  <2>1. CASE i = 1
    <3>1. has2[p] = v
      BY <1>3, <2>1
    <3>2. \A j \in DOMAIN Tail(s) : ~UpdateOf(Tail(s)[j], p)
      BY <1>1, <1>3, <2>1
    <3> QED BY <3>1, <3>2 DEF Will
  <2>2. CASE i # 1
    <3>1. i - 1 \in DOMAIN Tail(s) /\ Tail(s)[i - 1] = s[i]
      BY <1>1, <2>2
    <3>2. ASSUME NEW j \in DOMAIN Tail(s), j > i - 1 PROVE ~UpdateOf(Tail(s)[j], p)
      <4>1. j \in 1..Len(s) - 1 /\ j + 1 \in 1..Len(s) /\ j + 1 > i
        BY <3>2
      <4> QED BY <1>1, <1>3, <4>1
    <3> QED BY <1>3, <3>1, <3>2 DEF Will
  <2> QED BY <2>1, <2>2
<1> QED BY <1>2, <1>3 DEF Will

\* Nor does asking for something more.
LEMMA WillAppend ==
  ASSUME NEW s \in Seq(Packet), NEW q \in Packet, q.kind # "Update",
         NEW has, NEW p, NEW v, Will(s, has, p, v)
  PROVE  Will(Append(s, q), has, p, v)
<1>1. /\ DOMAIN Append(s, q) = 1..Len(s) + 1 /\ DOMAIN s = 1..Len(s) /\ Append(s, q)[Len(s) + 1] = q
      /\ \A i \in 1..Len(s) : Append(s, q)[i] = s[i]
  OBVIOUS
<1>2. CASE has[p] = v /\ \A i \in DOMAIN s : ~UpdateOf(s[i], p)
  BY <1>1, <1>2 DEF Will, UpdateOf
<1>3. ASSUME NEW i \in 1..Len(s), UpdateOf(s[i], p), s[i].values[p] = v,
             \A j \in 1..Len(s) : j > i => ~UpdateOf(s[j], p)
      PROVE  Will(Append(s, q), has, p, v)
  BY <1>1, <1>3 DEF Will, UpdateOf
<1> QED BY <1>1, <1>2, <1>3 DEF Will

\* Nor does answering a request in part.
LEMMA WillReplaced ==
  ASSUME NEW s \in Seq(Packet), s # <<>>, NEW q \in Packet, q.kind # "Update", Head(s).kind # "Update",
         NEW has, NEW p, NEW v, Will(s, has, p, v)
  PROVE  Will(<<q>> \o Tail(s), has, p, v)
<1>1. PICK t : t = <<q>> \o Tail(s)
  OBVIOUS
<1>2. t \in Seq(Packet) /\ Len(t) = Len(s) /\ \A i \in 1..Len(s) : t[i] = IF i = 1 THEN q ELSE s[i]
  BY <1>1, RangeReplaced
<1>3. DOMAIN t = DOMAIN s /\ DOMAIN s = 1..Len(s) /\ s[1].kind # "Update"
  BY <1>2
<1>4. \A i \in DOMAIN s : (UpdateOf(t[i], p) <=> UpdateOf(s[i], p)) /\ (UpdateOf(s[i], p) => t[i] = s[i])
  BY <1>2, <1>3 DEF UpdateOf
<1>5. Will(t, has, p, v)
  BY <1>3, <1>4 DEF Will
<1> QED BY <1>1, <1>5

\* An upload is two packets with the same values.
LEMMA UploadType ==
  ASSUME NEW values \in [AllFields -> Known]
  PROVE  /\ UploadPackets(values) \in Seq(Packet) /\ Len(UploadPackets(values)) = 2
         /\ \A q \in Range(UploadPackets(values)) : q.kind = "Update" /\ q.values = values
<1> DEFINE Update_(part_) == [kind |-> "Update", part |-> part_, values |-> values]
<1>1. \A p \in Parts : Update_(p) \in Packet
  BY DEF Packet
<1>2. Update_("main") \in Packet /\ Update_("about") \in Packet
  BY <1>1 DEF Parts
<1>3. UploadPackets(values) = <<Update_("main"), Update_("about")>>
  BY DEF UploadPackets
<1>4. \A p \in Parts : Update_(p).kind = "Update" /\ Update_(p).values = values
  OBVIOUS
<1>5. PICK m \in Packet, a \in Packet :
         /\ UploadPackets(values) = <<m, a>>
         /\ m.kind = "Update" /\ m.values = values /\ a.kind = "Update" /\ a.values = values
  BY <1>2, <1>3
<1>6. Range(<<m, a>>) \subseteq {m, a} /\ Len(<<m, a>>) = 2 /\ <<m, a>> \in Seq(Packet)
  BY DEF Range
<1> QED BY <1>5, <1>6

\* After an upload the server will have what was uploaded.
LEMMA WillSave ==
  ASSUME NEW s \in Seq(Packet), NEW values \in [AllFields -> Known], NEW has, NEW p \in Parts
  PROVE  Will(s \o UploadPackets(values), has, p, values[p])
<1>1. PICK u \in Seq(Packet) : /\ u = UploadPackets(values) /\ Len(u) = 2
                               /\ UpdateOf(u[1], "main") /\ UpdateOf(u[2], "about")
                               /\ u[1].values = values /\ u[2].values = values
                               /\ ~UpdateOf(u[2], "main")
  BY UploadType DEF UploadPackets, UpdateOf
<1>2. PICK t : t = s \o u
  OBVIOUS
<1>3. t \in Seq(Packet) /\ Len(t) = Len(s) + 2 /\ t[Len(s) + 1] = u[1] /\ t[Len(s) + 2] = u[2]
  <2>1. t \in Seq(Packet) /\ Len(t) = Len(s) + Len(u)
    BY <1>2, ConcatProperties
  <2> QED BY <1>1, <1>2, <2>1, ConcatProperties
<1>4. Will(t, has, p, values[p])
  <2>1. CASE p = "main"
    <3>1. Len(s) + 1 \in DOMAIN t /\ UpdateOf(t[Len(s) + 1], p) /\ t[Len(s) + 1].values[p] = values[p]
      BY <1>1, <1>3, <2>1
    <3>2. \A j \in DOMAIN t : j > Len(s) + 1 => ~UpdateOf(t[j], p)
      BY <1>1, <1>3, <2>1
    <3> QED BY <3>1, <3>2 DEF Will
  <2>2. CASE p = "about"
    <3>1. Len(s) + 2 \in DOMAIN t /\ UpdateOf(t[Len(s) + 2], p) /\ t[Len(s) + 2].values[p] = values[p]
      BY <1>1, <1>3, <2>2
    <3>2. \A j \in DOMAIN t : ~(j > Len(s) + 2)
      BY <1>3
    <3> QED BY <3>1, <3>2 DEF Will
  <2> QED BY <2>1, <2>2 DEF Parts
<1> QED BY <1>1, <1>2, <1>4

\* With no upload under way the server will have what it has.
LEMMA NothingWill ==
  ASSUME NEW s \in Seq(Packet), \A q \in Range(s) : q.kind # "Update", NEW has, NEW p, NEW v
  PROVE  Will(s, has, p, v) <=> has[p] = v
<1>1. \A i \in DOMAIN s : ~UpdateOf(s[i], p)
  BY DEF UpdateOf, Range
<1> QED BY <1>1 DEF Will

-----------------------------------------------------------------------------
(* The types.                                                              *)

\* What is assumed of the constants, as the proofs use it
LEMMA Constants ==
  /\ IdSpace \in Nat \ {0} /\ MaxSearches \in Nat /\ MaxSaves \in Nat /\ MaxRequests \in 0..IdSpace
  /\ Self \in Contacts /\ Self \notin Others /\ Others \subseteq Contacts
  /\ Parts \subseteq AllFields /\ "timezone" \in AllFields /\ "timezone" \notin Parts
BY RequestsAssumption DEF Self, Contacts, Parts, AllFields

\* The next id is one of the ids; those of this login so far are older by one.
LEMMA NextId ==
  ASSUME requestid \in Ids
  PROVE  NextRequestID \in Ids /\ NextRequestID = IF requestid + 1 = IdSpace THEN 0 ELSE requestid + 1
BY Constants DEF NextRequestID, Ids

\* A request makes those before it older by one, and none has its id.
LEMMA NextAge ==
  ASSUME requestid \in Ids, made \in 0..MaxRequests, made < MaxRequests, requestid' = NextRequestID
  PROVE  /\ \A id \in Ids : Age(id) < made => id # NextRequestID /\ Age(id)' < made + 1
         /\ requestid' \in Ids /\ Age(requestid)' < made + 1
<1>1. PICK n \in Nat : n = IdSpace /\ made < n /\ n > 0
  BY Constants
<1>2. PICK r \in 0..n - 1 : r = requestid
  BY <1>1 DEF Ids
<1>3. PICK s \in 0..n - 1 : s = requestid' /\ s = NextRequestID /\ s = IF r + 1 = n THEN 0 ELSE r + 1
  BY <1>1, <1>2, NextId
<1>4. ASSUME NEW id \in 0..n - 1, Age(id) < made PROVE id # s /\ Age(id)' < made + 1
  <2>1. Age(id) = IF id <= r THEN r - id ELSE r - id + n
    BY <1>1, <1>2 DEF Age
  <2>2. Age(id)' = IF id <= s THEN s - id ELSE s - id + n
    BY <1>1, <1>3 DEF Age
  <2> QED BY <1>1, <1>3, <1>4, <2>1, <2>2
<1>5. Age(requestid)' = 0
  BY <1>3 DEF Age
<1> QED BY <1>1, <1>3, <1>4, <1>5 DEF Ids

\* Replacing some details by values gives details.
LEMMA ReplacingType ==
  ASSUME NEW known \in [AllFields -> Known], NEW values, \A f \in DOMAIN values : values[f] \in Known
  PROVE  Replacing(known, values) \in [AllFields -> Known]
BY DEF Replacing

\* A request keeps the types.
LEMMA RequestType ==
  ASSUME TrafficType, NEW entry \in Entry, NEW packet \in Packet, Request(entry, packet)
  PROVE  TrafficType'
BY Constants, NextId DEF Request, TrafficType

\* Details that come keep the types.
LEMMA SetInfoType ==
  ASSUME DetailsType, NEW c \in Contacts, NEW values, \A f \in DOMAIN values : values[f] \in Known,
         SetInfo(c, values)
  PROVE  /\ lib' \in [Contacts -> [AllFields -> Known]]
         /\ doc' \in [Contacts -> [Parts -> Known]]
         /\ window' \in Window
<1>1. PICK known \in [AllFields -> Known] : known = Replacing(lib[c], values)
  BY ReplacingType DEF DetailsType
<1>2. lib' = [lib EXCEPT ![c] = known] /\ doc' = Emitted(c, known)
  BY <1>1 DEF SetInfo
<1>3. [p \in Parts |-> known[p]] \in [Parts -> Known]
  BY Constants
<1>4. window' \in Window
  BY DEF SetInfo, DetailsType, Window
<1> QED BY <1>2, <1>3, <1>4 DEF DetailsType, Emitted

\* The first state has the types.
LEMMA RequestsInitType == ASSUME RequestsInit PROVE TypeInv
<1>1. \A c \in Contacts : Original(c) \in Known
  BY Constants DEF Original, Known, Values
<1>2. window \in Window
  BY <1>1, Constants DEF RequestsInit, Window, Known
<1>3. panel \in Panel
  BY Constants DEF RequestsInit, Panel
<1>4. LinkType /\ TrafficType
  <2>1. 0 \in Ids /\ 0 \in 0..MaxRequests
    BY Constants DEF Ids
  <2> QED BY <2>1, EmptySeq DEF RequestsInit, LinkType, TrafficType
<1>5. DetailsType
  <2>1. srv \in [Contacts -> [AllFields -> Known]] /\ doc \in [Contacts -> [Parts -> Known]]
    BY <1>1 DEF RequestsInit
  <2>2. NoValue \in Known /\ lib \in [Contacts -> [AllFields -> Known]]
    BY DEF RequestsInit, Known
  <2>3. edition = 0 /\ careless = {} /\ crossed = FALSE /\ 0 \in 0..MaxSaves
    BY Constants DEF RequestsInit
  <2> QED BY <1>2, <2>1, <2>2, <2>3 DEF DetailsType
<1> QED BY <1>3, <1>4, <1>5 DEF TypeInv

\* What an answer with details has
LEMMA AnswerFields ==
  ASSUME NEW a \in Answer, a.kind = "Info"
  PROVE  /\ a.id \in Ids /\ a.of \in Contacts /\ a.values \in [DOMAIN a.values -> Known]
         /\ \E p \in Parts : DOMAIN a.values = FieldsOf(p)
<1>1. a.id \in Ids /\ a.of \in Contacts /\ a.values \in UNION {[FieldsOf(p) -> Known] : p \in Parts}
  BY DEF Answer
<1> QED BY <1>1

\* A packet has one part of the details; the time zone comes with the main one.
LEMMA FieldsOfParts ==
  ASSUME NEW p \in Parts
  PROVE  /\ FieldsOf(p) \subseteq AllFields /\ FieldsOf(p) \cap Parts = {p}
         /\ "timezone" \in FieldsOf(p) <=> p = "main"
BY DEF FieldsOf, Parts, AllFields

-----------------------------------------------------------------------------
(* What a step that does not disturb a part of the invariant keeps.        *)

\* Of what is under way
LEMMA TrafficSame ==
  ASSUME TrafficOK, UNCHANGED <<requestid, made, cache, collided>>, panel'.current = panel.current,
         UnderWay' \subseteq UnderWay, ~connected' => asked' = <<>> /\ answers' = <<>>
  PROVE  TrafficOK'
<1>1. ASSUME NEW q \in UnderWay' PROVE UnderWayOK(q)'
  <2>1. UnderWayOK(q)
    BY <1>1 DEF TrafficOK
  <2> QED BY <2>1 DEF UnderWayOK, Age
<1> QED BY <1>1 DEF TrafficOK

\* Of searches
LEMMA SearchesSame ==
  ASSUME SearchesOK, UNCHANGED <<cache, pending>>, panel'.current = panel.current,
         panel'.results \subseteq panel.results
  PROVE  SearchesOK'
<1>1. PendingIsCached'
  BY DEF SearchesOK, PendingIsCached
<1> QED BY <1>1 DEF SearchesOK, ResultsAreCurrent

\* Of whose details they are
LEMMA OwnersSame ==
  ASSUME OwnersOK, collided => collided', UNCHANGED <<lib, srv, doc>>, window'.form = window.form,
         Updates' \subseteq Updates, Infos' \subseteq Infos
  PROVE  OwnersOK'
BY DEF OwnersOK

\* Of what may be lacking
LEMMA ErasuresSame ==
  ASSUME ErasuresOK, UNCHANGED <<lib, srv, doc, careless>>, window'.form = window.form,
         window'.noticed = window.noticed, Updates' \subseteq Updates, Infos' \subseteq Infos
  PROVE  ErasuresOK'
BY DEF ErasuresOK, Excused

\* Of the user's own details
LEMMA DetailsSame ==
  ASSUME OwnDetailsOK, crossed => crossed', collided => collided',
         UNCHANGED <<lib, srv, doc, edition, asked>>, Infos' \subseteq Infos
  PROVE  OwnDetailsOK'
BY DEF OwnDetailsOK, Updates

-----------------------------------------------------------------------------
(* Requests.                                                               *)

\* The entry and the packet of a search, or of a request for details
Goes(entry, packet) ==
    /\ entry \in Entry /\ packet \in Packet
    /\ entry.id = NextRequestID /\ packet.id = NextRequestID
    /\ \/ entry.kind = "Search" /\ packet.kind = "Search" /\ packet.search = entry.search
          /\ entry.search = panel.current + 1 /\ panel'.current = panel.current + 1
       \/ entry.kind = "UserInfo" /\ packet.kind = "UserInfo" /\ packet.contact = entry.contact
          /\ panel'.current = panel.current

\* What a request adds
LEMMA RequestRanges ==
  ASSUME TrafficType, NEW entry \in Entry, NEW packet \in Packet, packet.kind # "Update",
         Request(entry, packet)
  PROVE  /\ Range(cache') = Range(cache) \cup {entry} /\ UnderWay' = UnderWay \cup {packet}
         /\ Updates' = Updates /\ Infos' = Infos
BY RangeAppend DEF TrafficType, Request, UnderWay, Updates, Infos

\* A request keeps what is under way in order: its id is new among those of this
\* login, and if an entry of an earlier one has it, ids have collided.
LEMMA RequestTrafficOK ==
  ASSUME TypeInv, TrafficOK, SearchesOK, NEW entry, NEW packet, Goes(entry, packet), Request(entry, packet),
         UNCHANGED connected
  PROVE  TrafficOK'
<1>1. /\ entry \in Entry /\ packet \in Packet /\ packet.kind # "Update" /\ TrafficType
      /\ panel.current \in Nat /\ panel'.current \in Nat /\ panel.current <= panel'.current
      /\ made \in 0..MaxRequests /\ made < MaxRequests /\ made' = made + 1
      /\ requestid \in Ids /\ requestid' = NextRequestID /\ connected
      /\ collided' = (collided \/ Exists(NextRequestID))
  BY Constants DEF Goes, Request, TypeInv, TrafficType, Panel
<1>2. /\ Range(cache') = Range(cache) \cup {entry} /\ UnderWay' = UnderWay \cup {packet}
  BY <1>1, RequestRanges
<1>3. /\ \A id \in Ids : Age(id) < made => id # NextRequestID /\ Age(id)' < made + 1
      /\ Age(requestid)' < made + 1
  BY <1>1, NextAge
<1>4. ASSUME NEW q \in UnderWay, q.kind # "Update" PROVE q.id \in Ids /\ UnderWayOK(q)
  <2>1. q \in Packet \cup Answer
    BY <1>1, <1>4, RangeIn DEF UnderWay, TrafficType
  <2> QED BY <1>4, <2>1 DEF Packet, Answer, TrafficOK
<1>5. ASSUME NEW q \in UnderWay PROVE UnderWayOK(q)'
  <2>1. CASE q.kind # "Update"
    <3>1. /\ q.id \in Ids /\ Age(q.id) < made /\ q.id # entry.id /\ Age(q.id)' < made'
      BY <1>1, <1>3, <1>4, <2>1 DEF UnderWayOK, Goes
    <3>2. ASSUME q.kind \in {"Search", "Result"}
          PROVE  /\ q.search <= panel'.current
                 /\ \A e \in Range(cache') : e.kind = "Search" /\ e.id = q.id => e.search <= q.search
      <4>1. q.search \in Nat /\ q.search <= panel.current
        <5>1. q \in Packet \cup Answer
          BY <1>1, RangeIn DEF UnderWay, TrafficType
        <5> QED BY <1>4, <2>1, <3>2, <5>1 DEF Packet, Answer, UnderWayOK
      <4> QED BY <1>1, <1>2, <1>4, <2>1, <3>1, <3>2, <4>1 DEF UnderWayOK
    <3>3. ~collided' => \A e \in Range(cache') : e.id = q.id => Matches(e, q)
      BY <1>1, <1>2, <1>4, <2>1, <3>1 DEF UnderWayOK
    <3> QED BY <3>1, <3>2, <3>3 DEF UnderWayOK
  <2> QED BY <2>1 DEF UnderWayOK
<1>6. UnderWayOK(packet)'
  <2>1. Age(packet.id)' < made'
    BY <1>1, <1>3 DEF Goes
  <2>2. ASSUME packet.kind = "Search"
        PROVE  /\ packet.search <= panel'.current
               /\ \A e \in Range(cache') : e.kind = "Search" /\ e.id = packet.id => e.search <= packet.search
    <3>1. packet.search = panel.current + 1 /\ panel'.current = panel.current + 1 /\ entry.search = packet.search
      BY <2>2 DEF Goes
    <3>2. \A e \in Range(cache) : e.kind = "Search" => e.search <= panel.current /\ e.search \in Nat
      <4>1. Range(cache) \subseteq Entry
        BY <1>1, RangeIn DEF TrafficType
      <4> QED BY <4>1 DEF SearchesOK, Entry
    <3> QED BY <1>1, <1>2, <3>1, <3>2
  <2>3. ~collided' => \A e \in Range(cache') : e.id = packet.id => Matches(e, packet)
    <3>1. ~collided' => \A e \in Range(cache) : e.id # packet.id
      BY <1>1 DEF Goes, Exists, Range
    <3>2. Matches(entry, packet)
      BY DEF Goes, Matches
    <3> QED BY <1>2, <3>1, <3>2
  <2>4. packet.kind # "Result"
    BY DEF Goes
  <2> QED BY <2>1, <2>2, <2>3, <2>4 DEF UnderWayOK
<1>7. ~collided' => \A i, j \in DOMAIN cache' : cache'[i].id = cache'[j].id => i = j
  <2>1. /\ DOMAIN cache' = 1..Len(cache) + 1 /\ DOMAIN cache = 1..Len(cache) /\ Len(cache) \in Nat
        /\ cache'[Len(cache) + 1] = entry /\ \A i \in 1..Len(cache) : cache'[i] = cache[i]
    BY <1>1 DEF Request, TrafficType
  <2>2. ~collided' => \A i \in DOMAIN cache : cache[i].id # entry.id
    BY <1>1 DEF Goes, Exists
  <2>3. ~collided' => \A i, j \in DOMAIN cache : cache[i].id = cache[j].id => i = j
    BY <1>1 DEF TrafficOK
  <2>4. ASSUME ~collided', NEW i \in DOMAIN cache', NEW j \in DOMAIN cache', cache'[i].id = cache'[j].id
        PROVE  i = j
    <3>1. CASE i \in 1..Len(cache) /\ j \in 1..Len(cache)
      BY <2>1, <2>3, <2>4, <3>1
    <3>2. CASE i = Len(cache) + 1 \/ j = Len(cache) + 1
      BY <2>1, <2>2, <2>4, <3>2
    <3> QED BY <2>1, <3>1, <3>2
  <2> QED BY <2>4
<1> QED BY <1>1, <1>2, <1>5, <1>6, <1>7 DEF TrafficOK

\* A request disturbs no details.
LEMMA RequestDetailsOK ==
  ASSUME TypeInv, OwnersOK, ErasuresOK, OwnDetailsOK, NEW entry, NEW packet, Goes(entry, packet),
         Request(entry, packet), UNCHANGED <<srv, lib, doc, edition, careless, crossed>>,
         window'.form = window.form, window'.noticed = window.noticed
  PROVE  OwnersOK' /\ ErasuresOK' /\ OwnDetailsOK'
<1>1. /\ entry \in Entry /\ packet \in Packet /\ packet.kind # "Update"
      /\ asked \in Seq(Packet) /\ asked' = Append(asked, packet) /\ (collided => collided')
  BY DEF Goes, Request, TypeInv, TrafficType
<1>2. Updates' = Updates /\ Infos' = Infos
  BY <1>1, RequestRanges DEF TypeInv
<1>3. OwnersOK' /\ ErasuresOK'
  BY <1>1, <1>2, OwnersSame, ErasuresSame
<1>4. ASSUME NEW p \in Parts, NEW v, Will(asked, srv[Self], p, v) PROVE Will(asked', srv[Self], p, v)
  BY <1>1, <1>4, WillAppend
<1>5. InOrder(asked) => InOrder(asked')
  <2>1. /\ DOMAIN asked' = 1..Len(asked) + 1 /\ DOMAIN asked = 1..Len(asked) /\ Len(asked) \in Nat
        /\ asked'[Len(asked) + 1] = packet /\ \A i \in 1..Len(asked) : asked'[i] = asked[i]
    BY <1>1
  <2> QED BY <1>1, <2>1 DEF InOrder
<1>6. OwnDetailsOK'
  <2>1. ASSUME ~crossed', ~collided' PROVE ~crossed /\ ~collided
    BY <1>1, <2>1
  <2> QED BY <1>2, <1>4, <1>5, <2>1 DEF OwnDetailsOK
<1> QED BY <1>3, <1>6

\* startFind: keeps the invariant.
LEMMA StartFindOK ==
  ASSUME RequestsInv, NEW how \in {"number", "names"}, StartFind(how)
  PROVE  RequestsInv'
<1>1. PICK n : n = panel.current + 1
  OBVIOUS
<1>2. PICK entry, packet :
         /\ entry = [id |-> NextRequestID, kind |-> "Search", search |-> n]
         /\ packet = [id |-> NextRequestID, kind |-> "Search", how |-> how, search |-> n, sent |-> 0]
  OBVIOUS
<1>3. /\ panel.current \in 0..MaxSearches /\ panel.current < MaxSearches
      /\ panel' = [searching |-> TRUE, current |-> n, results |-> {}]
      /\ pending' = pending \cup {n} /\ Request(entry, packet)
      /\ UNCHANGED <<connected, open, srv, lib, doc, window, edition, careless, crossed>>
  BY <1>1, <1>2 DEF StartFind, link, details, RequestsInv, TypeInv, Panel
<1>4. n \in 1..MaxSearches /\ n > panel.current
  BY <1>1, <1>3, Constants
<1>5. entry \in Entry /\ packet \in Packet
  <2>1. NextRequestID \in Ids
    BY NextId DEF RequestsInv, TypeInv, TrafficType
  <2> QED BY <1>2, <1>4, <2>1 DEF Entry, Packet
<1>6. Goes(entry, packet)
  BY <1>1, <1>2, <1>3, <1>5 DEF Goes
<1>7. TypeInv'
  <2>1. TrafficType'
    BY <1>3, <1>5, RequestType DEF RequestsInv, TypeInv
  <2>2. panel' \in Panel
    BY <1>3, <1>4, Constants DEF Panel
  <2> QED BY <1>3, <2>1, <2>2 DEF RequestsInv, TypeInv, LinkType, DetailsType
<1>8. TrafficOK' /\ OwnersOK' /\ ErasuresOK' /\ OwnDetailsOK'
  BY <1>3, <1>6, RequestTrafficOK, RequestDetailsOK DEF RequestsInv
<1>9. SearchesOK'
  <2>1. /\ cache \in Seq(Entry) /\ cache' = Append(cache, entry)
        /\ entry.kind = "Search" /\ entry.search = n
        /\ Range(cache') = Range(cache) \cup {entry}
    BY <1>2, <1>3, <1>5, RangeAppend DEF Request, RequestsInv, TypeInv, TrafficType
  <2>2. \A e \in Range(cache) : e.kind = "Search" => e.search <= panel.current /\ e.search \in Nat
    <3>1. Range(cache) \subseteq Entry
      BY <2>1, RangeIn
    <3> QED BY <3>1 DEF RequestsInv, SearchesOK, Entry
  <2>3. PendingIsCached'
    BY <1>3, <2>1 DEF RequestsInv, SearchesOK, PendingIsCached
  <2>4. ResultsAreCurrent'
    BY <1>3 DEF ResultsAreCurrent
  <2>5. \A e \in Range(cache') : e.kind = "Search" => e.search <= panel'.current
    BY <1>3, <1>4, <2>1, <2>2
  <2>6. ASSUME NEW i \in DOMAIN cache', NEW j \in DOMAIN cache', cache'[i].kind = "Search",
               cache'[j].kind = "Search", cache'[i].search = cache'[j].search
        PROVE  i = j
    <3>1. /\ DOMAIN cache' = 1..Len(cache) + 1 /\ DOMAIN cache = 1..Len(cache) /\ Len(cache) \in Nat
          /\ cache'[Len(cache) + 1] = entry /\ \A k \in 1..Len(cache) : cache'[k] = cache[k]
      BY <1>5, <2>1
    <3>2. \A k \in 1..Len(cache) : cache[k].kind = "Search" => cache[k].search # n
      BY <1>1, <1>3, <2>2, <3>1 DEF Range
    <3>3. CASE i \in 1..Len(cache) /\ j \in 1..Len(cache)
      BY <2>6, <3>1, <3>3 DEF RequestsInv, SearchesOK
    <3>4. CASE i = Len(cache) + 1 \/ j = Len(cache) + 1
      BY <2>1, <2>6, <3>1, <3>2, <3>4
    <3> QED BY <3>1, <3>3, <3>4
  <2> QED BY <2>3, <2>4, <2>5, <2>6 DEF SearchesOK
<1> QED BY <1>7, <1>8, <1>9 DEF RequestsInv

\* A request for details keeps the invariant.
LEMMA RefreshInfoOK ==
  ASSUME RequestsInv, NEW c \in Contacts, RefreshInfo(c), window' \in Window,
         window'.form = window.form, window'.noticed = window.noticed,
         UNCHANGED <<srv, lib, doc, edition, careless, crossed>>
  PROVE  RequestsInv'
<1>1. PICK entry, packet :
         /\ entry = [id |-> NextRequestID, kind |-> "UserInfo", contact |-> c]
         /\ packet = [id |-> NextRequestID, kind |-> "UserInfo", contact |-> c, left |-> Parts]
  OBVIOUS
<1>2. Request(entry, packet) /\ UNCHANGED <<connected, open, pending, panel>>
  BY <1>1 DEF RefreshInfo, link
<1>3. entry \in Entry /\ packet \in Packet
  <2>1. NextRequestID \in Ids
    BY NextId DEF RequestsInv, TypeInv, TrafficType
  <2> QED BY <1>1, <2>1 DEF Entry, Packet
<1>4. Goes(entry, packet)
  BY <1>1, <1>2, <1>3 DEF Goes
<1>5. TypeInv'
  <2>1. TrafficType'
    BY <1>2, <1>3, RequestType DEF RequestsInv, TypeInv
  <2> QED BY <1>2, <2>1 DEF RequestsInv, TypeInv, LinkType, DetailsType
<1>6. TrafficOK' /\ OwnersOK' /\ ErasuresOK' /\ OwnDetailsOK'
  BY <1>2, <1>4, RequestTrafficOK, RequestDetailsOK DEF RequestsInv
<1>7. SearchesOK'
  <2>1. /\ cache \in Seq(Entry) /\ cache' = Append(cache, entry) /\ entry.kind = "UserInfo"
        /\ Range(cache') = Range(cache) \cup {entry}
    BY <1>1, <1>2, <1>3, RangeAppend DEF Request, RequestsInv, TypeInv, TrafficType
  <2>2. PendingIsCached' /\ ResultsAreCurrent'
    BY <1>2, <2>1 DEF RequestsInv, SearchesOK, PendingIsCached, ResultsAreCurrent
  <2>3. \A e \in Range(cache') : e.kind = "Search" => e.search <= panel'.current
    BY <1>2, <2>1 DEF RequestsInv, SearchesOK
  <2>4. ASSUME NEW i \in DOMAIN cache', NEW j \in DOMAIN cache', cache'[i].kind = "Search",
               cache'[j].kind = "Search", cache'[i].search = cache'[j].search
        PROVE  i = j
    <3>1. /\ DOMAIN cache' = 1..Len(cache) + 1 /\ DOMAIN cache = 1..Len(cache) /\ Len(cache) \in Nat
          /\ cache'[Len(cache) + 1] = entry /\ \A k \in 1..Len(cache) : cache'[k] = cache[k]
      BY <1>3, <2>1
    <3>2. i \in 1..Len(cache) /\ j \in 1..Len(cache)
      BY <2>1, <2>4, <3>1
    <3> QED BY <2>4, <3>1, <3>2 DEF RequestsInv, SearchesOK
  <2> QED BY <2>2, <2>3, <2>4 DEF SearchesOK
<1> QED BY <1>5, <1>6, <1>7 DEF RequestsInv

\* doRetrieve: keeps the invariant.
LEMMA DoRetrieveOK == ASSUME RequestsInv, DoRetrieve PROVE RequestsInv'
<1>1. window \in Window /\ Self \in Contacts
  BY Constants DEF RequestsInv, TypeInv, DetailsType
<1>2. window' \in Window /\ window'.form = window.form /\ window'.noticed = window.noticed
  BY <1>1 DEF DoRetrieve, Window
<1> QED BY <1>1, <1>2, RefreshInfoOK DEF DoRetrieve

\* refreshInfoForContact: keeps the invariant.
LEMMA RefreshInfoForContactOK ==
  ASSUME RequestsInv, NEW c \in Others, RefreshInfoForContact(c)
  PROVE  RequestsInv'
<1>1. window \in Window /\ c \in Contacts
  BY Constants DEF RequestsInv, TypeInv, DetailsType
<1> QED BY <1>1, RefreshInfoOK DEF RefreshInfoForContact, details

-----------------------------------------------------------------------------
(* The panel, the window and the connection.                               *)

\* Starting or ending to listen is of no consequence to the rest.
LEMMA PanelOK ==
  ASSUME RequestsInv, UNCHANGED <<link, traffic, pending, details>>,
         NEW going \in BOOLEAN, panel' = [panel EXCEPT !.searching = going]
  PROVE  RequestsInv'
<1>1. panel' \in Panel /\ panel'.current = panel.current /\ panel'.results = panel.results
  BY DEF RequestsInv, TypeInv, Panel
<1>2. UNCHANGED <<connected, open, requestid, cache, asked, answers, made, collided, pending>>
      /\ UNCHANGED <<srv, lib, doc, window, edition, careless, crossed>>
  BY DEF link, traffic, details
<1>3. TypeInv'
  BY <1>1, <1>2 DEF RequestsInv, TypeInv, LinkType, TrafficType, DetailsType
<1>4. UnderWay' = UnderWay /\ Updates' = Updates /\ Infos' = Infos
  BY <1>2 DEF UnderWay, Updates, Infos
<1>5. TrafficOK'
  <2>1. ~connected' => asked' = <<>> /\ answers' = <<>>
    BY <1>2 DEF RequestsInv, TrafficOK
  <2> QED BY <1>1, <1>2, <1>4, <2>1, TrafficSame DEF RequestsInv
<1> QED BY <1>1, <1>2, <1>3, <1>4, <1>5, SearchesSame, OwnersSame, ErasuresSame, DetailsSame DEF RequestsInv

\* stopFind: keeps the invariant.
LEMMA StopFindOK == ASSUME RequestsInv, StopFind PROVE RequestsInv'
BY PanelOK DEF StopFind

\* So does the logout of another document.
LEMMA OtherLogsOutOK == ASSUME RequestsInv, OtherLogsOut PROVE RequestsInv'
<1>1. panel.searching \in BOOLEAN
  BY DEF RequestsInv, TypeInv, Panel
<1>2. panel' = [panel EXCEPT !.searching = FALSE]
  BY <1>1 DEF OtherLogsOut, LoginStatusChanged
<1> QED BY <1>2, PanelOK DEF OtherLogsOut

\* The update of the window keeps the invariant.
LEMMA UserInfoChangedOK == ASSUME RequestsInv, UserInfoChanged PROVE RequestsInv'
<1>1. /\ UNCHANGED <<connected, open, requestid, cache, asked, answers, made, collided, pending, panel>>
      /\ UNCHANGED <<srv, lib, doc, edition, careless, crossed>>
      /\ window' = [form |-> doc[Self], inProgress |-> FALSE, noticed |-> FALSE]
  BY DEF UserInfoChanged, link, traffic
<1>2. window' \in Window /\ window'.form = doc[Self]
  BY <1>1, Constants DEF RequestsInv, TypeInv, DetailsType, Window, Known
<1>3. TypeInv'
  BY <1>1, <1>2 DEF RequestsInv, TypeInv, LinkType, TrafficType, DetailsType
<1>4. UnderWay' = UnderWay /\ Updates' = Updates /\ Infos' = Infos
  BY <1>1 DEF UnderWay, Updates, Infos
<1>5. TrafficOK'
  <2>1. ~connected' => asked' = <<>> /\ answers' = <<>>
    BY <1>1 DEF RequestsInv, TrafficOK
  <2> QED BY <1>1, <1>4, <2>1, TrafficSame DEF RequestsInv
<1>6. OwnersOK' /\ ErasuresOK'
  BY <1>1, <1>2, <1>4 DEF RequestsInv, OwnersOK, ErasuresOK, Excused
<1> QED BY <1>1, <1>3, <1>4, <1>5, <1>6, SearchesSame, DetailsSame DEF RequestsInv

\* A login, with ids that begin anywhere, keeps the invariant.
LEMMA ConnectOK == ASSUME RequestsInv, Connect PROVE RequestsInv'
<1>1. /\ UNCHANGED <<open, cache, asked, answers, made, collided, pending, panel>>
      /\ UNCHANGED <<srv, lib, doc, edition, careless, crossed>>
      /\ connected' = TRUE /\ requestid' \in Ids
      /\ window' = [window EXCEPT !.inProgress = FALSE]
      /\ asked = <<>> /\ answers = <<>>
  BY DEF Connect, RequestsInv, TrafficOK, Ids
<1>2. window' \in Window /\ window'.form = window.form /\ window'.noticed = window.noticed
  BY <1>1 DEF RequestsInv, TypeInv, DetailsType, Window
<1>3. TypeInv'
  BY <1>1, <1>2 DEF RequestsInv, TypeInv, LinkType, TrafficType, DetailsType
<1>4. UnderWay' = {} /\ Updates' = Updates /\ Infos' = Infos
  BY <1>1 DEF UnderWay, Updates, Infos, Range
<1>5. TrafficOK'
  BY <1>1, <1>4 DEF RequestsInv, TrafficOK
<1> QED BY <1>1, <1>2, <1>3, <1>4, <1>5, SearchesSame, OwnersSame, ErasuresSame, DetailsSame DEF RequestsInv

\* The connection ends.  Its document may close with it.
LEMMA LoggedOutOK ==
  ASSUME RequestsInv, LoggedOut, open' \in BOOLEAN,
         \/ UNCHANGED <<cache, pending>>
         \/ cache' = <<>> /\ pending' = {}
  PROVE  RequestsInv'
<1>1. /\ UNCHANGED <<requestid, made, collided, srv, lib, doc, edition, careless>>
      /\ connected' = FALSE /\ asked' = <<>> /\ answers' = <<>>
      /\ window' = [window EXCEPT !.inProgress = FALSE]
      /\ crossed' = (crossed \/ \E i \in DOMAIN asked : asked[i].kind = "Update")
  BY DEF LoggedOut
<1>2. window' \in Window /\ window'.form = window.form /\ window'.noticed = window.noticed
  BY <1>1 DEF RequestsInv, TypeInv, DetailsType, Window
<1>3. panel' \in Panel /\ panel'.current = panel.current /\ panel'.results = panel.results
  <2>1. PICK other \in BOOLEAN : panel' = [panel EXCEPT !.searching = @ /\ other]
    BY DEF LoggedOut, LoginStatusChanged
  <2> QED BY <2>1 DEF RequestsInv, TypeInv, Panel
<1>4. crossed' \in BOOLEAN /\ (~crossed' => ~crossed /\ \A q \in Range(asked) : q.kind # "Update")
  BY <1>1 DEF Range
<1>5. cache' = cache \/ cache' = <<>>
  OBVIOUS
<1>6. TypeInv'
  BY <1>1, <1>2, <1>3, <1>4, <1>5, EmptySeq DEF RequestsInv, TypeInv, LinkType, TrafficType, DetailsType
<1>7. UnderWay' = {} /\ Updates' = {} /\ Infos' = {}
  BY <1>1 DEF UnderWay, Updates, Infos, Range
<1>8. TrafficOK'
  BY <1>1, <1>5, <1>7 DEF RequestsInv, TrafficOK
<1>9. SearchesOK'
  <2>1. CASE UNCHANGED <<cache, pending>>
    BY <1>3, <2>1, SearchesSame DEF RequestsInv
  <2>2. CASE cache' = <<>> /\ pending' = {}
    <3>1. Range(cache') = {} /\ DOMAIN cache' = {}
      BY <2>2 DEF Range
    <3>2. PendingIsCached'
      BY <2>2, <3>1 DEF PendingIsCached
    <3> QED BY <1>3, <3>1, <3>2 DEF RequestsInv, SearchesOK, ResultsAreCurrent
  <2> QED BY <2>1, <2>2
<1>10. OwnersOK' /\ ErasuresOK'
  BY <1>1, <1>2, <1>7, OwnersSame, ErasuresSame DEF RequestsInv
<1>11. OwnDetailsOK'
  <2>1. ASSUME ~crossed', ~collided', NEW p \in Parts, NEW v, Will(asked, srv[Self], p, v)
        PROVE  Will(asked', srv'[Self], p, v)
    <3>1. asked \in Seq(Packet) /\ \A q \in Range(asked) : q.kind # "Update"
      BY <1>4, <2>1 DEF RequestsInv, TypeInv, TrafficType
    <3>2. srv[Self][p] = v
      BY <2>1, <3>1, NothingWill
    <3>3. asked' \in Seq(Packet) /\ \A q \in Range(asked') : q.kind # "Update"
      BY <1>1, EmptySeq DEF Range
    <3>4. Will(asked', srv[Self], p, v)
      BY <3>2, <3>3, NothingWill
    <3> QED BY <1>1, <3>4
  <2>2. InOrder(asked')
    BY <1>1 DEF InOrder
  <2> QED BY <1>1, <1>4, <1>7, <2>1, <2>2 DEF RequestsInv, OwnDetailsOK
<1> QED BY <1>6, <1>8, <1>9, <1>10, <1>11 DEF RequestsInv

\* A logout keeps the invariant.
LEMMA DisconnectOK == ASSUME RequestsInv, Disconnect PROVE RequestsInv'
<1>1. open' \in BOOLEAN
  BY DEF Disconnect, RequestsInv, TypeInv, LinkType
<1> QED BY <1>1, LoggedOutOK DEF Disconnect

\* Closing the document, connected or not, keeps the invariant.
LEMMA CloseOK == ASSUME RequestsInv, Close PROVE RequestsInv'
<1>1. CASE LoggedOut
  BY <1>1, LoggedOutOK DEF Close
<1>2. CASE /\ ~connected
           /\ UNCHANGED <<connected, connects, requestid, asked, answers, made, collided, panel, details>>
  <2>1. /\ open' = FALSE /\ cache' = <<>> /\ pending' = {}
        /\ UNCHANGED <<connected, requestid, asked, answers, made, collided, panel>>
        /\ UNCHANGED <<srv, lib, doc, window, edition, careless, crossed>>
        /\ asked = <<>> /\ answers = <<>>
    BY <1>2 DEF Close, details, RequestsInv, TrafficOK
  <2>2. TypeInv'
    BY <2>1, EmptySeq DEF RequestsInv, TypeInv, LinkType, TrafficType, DetailsType
  <2>3. UnderWay' = {} /\ Updates' = Updates /\ Infos' = Infos /\ Range(cache') = {} /\ DOMAIN cache' = {}
    BY <2>1 DEF UnderWay, Updates, Infos, Range
  <2>4. TrafficOK'
    BY <2>1, <2>3 DEF TrafficOK
  <2>5. PendingIsCached'
    BY <2>1, <2>3 DEF PendingIsCached
  <2>6. SearchesOK'
    BY <2>1, <2>3, <2>5 DEF RequestsInv, SearchesOK, ResultsAreCurrent
  <2> QED BY <2>1, <2>2, <2>3, <2>4, <2>6, OwnersSame, ErasuresSame, DetailsSame DEF RequestsInv
<1> QED BY <1>1, <1>2 DEF Close

-----------------------------------------------------------------------------
(* The server.                                                             *)

\* A packet or an answer with q's id and for the same as q
Follows(r, q) ==
    /\ r.id = q.id
    /\ q.kind = "Search" => r.kind \in {"Search", "Result"} /\ r.search = q.search
    /\ q.kind = "UserInfo" => \/ r.kind = "UserInfo" /\ r.contact = q.contact
                              \/ r.kind = "Info" /\ r.of = q.contact

\* What follows from what is under way is in order as well.
LEMMA FollowsOK ==
  ASSUME NEW q \in Packet, NEW r, q.kind # "Update", UnderWayOK(q), Follows(r, q)
  PROVE  UnderWayOK(r)
<1>1. q.kind \in {"Search", "UserInfo"}
  BY DEF Packet
<1>2. \A e \in Range(cache) : Matches(e, q) => Matches(e, r)
  BY <1>1 DEF Matches, Follows
<1> QED BY <1>1, <1>2 DEF UnderWayOK, Follows

\* The order is kept when the head is taken.
LEMMA InOrderTail ==
  ASSUME NEW s \in Seq(Packet), s # <<>>, InOrder(s)
  PROVE  InOrder(Tail(s))
<1>1. /\ \A i \in 1..Len(s) - 1 : Tail(s)[i] = s[i + 1]
      /\ DOMAIN Tail(s) = 1..Len(s) - 1 /\ DOMAIN s = 1..Len(s) /\ Len(s) \in Nat
  OBVIOUS
<1>2. ASSUME NEW i \in 1..Len(s) - 1, NEW j \in 1..Len(s) - 1, i < j, OwnAsked(s[i + 1])
      PROVE  s[j + 1].kind # "Update"
  <2>1. i + 1 \in 1..Len(s) /\ j + 1 \in 1..Len(s) /\ i + 1 < j + 1
    BY <1>1, <1>2
  <2> QED BY <1>1, <1>2, <2>1 DEF InOrder
<1> QED BY <1>1, <1>2 DEF InOrder

\* The head of what is asked is taken, or stays in part, and may be answered.
LEMMA TakenOK ==
  ASSUME RequestsInv, asked # <<>>, connected,
         NEW q, q = Head(asked), q.kind # "Update",
         \/ asked' = Tail(asked)
         \/ \E r \in Packet : Follows(r, q) /\ r.kind = q.kind /\ asked' = <<r>> \o Tail(asked),
         \/ answers' = answers
         \/ \E a \in Answer :
               /\ Follows(a, q) /\ answers' = Append(answers, a)
               /\ a.kind = "Info" => \A f \in DOMAIN a.values : f \in AllFields /\ a.values[f] = srv[a.of][f],
         UNCHANGED <<link, requestid, cache, made, collided, pending, panel, details>>
  PROVE  RequestsInv'
<1>1. /\ UNCHANGED <<connected, open, requestid, cache, made, collided, pending, panel>>
      /\ UNCHANGED <<srv, lib, doc, window, edition, careless, crossed>>
  BY DEF link, details
<1>2. asked \in Seq(Packet) /\ answers \in Seq(Answer) /\ q \in Packet /\ q \in Range(asked)
  <2>1. asked \in Seq(Packet) /\ answers \in Seq(Answer)
    BY DEF RequestsInv, TypeInv, TrafficType
  <2> QED BY <2>1, RangeTail, RangeIn
<1>3. UnderWayOK(q)
  BY <1>2 DEF RequestsInv, TrafficOK, UnderWay
<1>4. /\ asked' \in Seq(Packet)
      /\ \A r \in Range(asked') : r \in Range(asked) \/ (r \in Packet /\ Follows(r, q) /\ r.kind = q.kind)
  <2>1. CASE asked' = Tail(asked)
    BY <1>2, <2>1, RangeTail
  <2>2. ASSUME NEW r \in Packet, Follows(r, q), r.kind = q.kind, asked' = <<r>> \o Tail(asked)
        PROVE  asked' \in Seq(Packet) /\ Range(asked') \subseteq Range(asked) \cup {r}
    BY <1>2, <2>2, RangeReplaced
  <2> QED BY <2>1, <2>2
<1>5. /\ answers' \in Seq(Answer)
      /\ \A a \in Range(answers') :
            \/ a \in Range(answers)
            \/ /\ a \in Answer /\ Follows(a, q)
               /\ a.kind = "Info" => \A f \in DOMAIN a.values : f \in AllFields /\ a.values[f] = srv[a.of][f]
  <2>1. CASE answers' = answers
    BY <1>2, <2>1
  <2>2. ASSUME NEW a \in Answer, answers' = Append(answers, a)
        PROVE  answers' \in Seq(Answer) /\ Range(answers') = Range(answers) \cup {a}
    BY <1>2, <2>2, RangeAppend
  <2> QED BY <2>1, <2>2
<1>6. TypeInv'
  BY <1>1, <1>4, <1>5 DEF RequestsInv, TypeInv, LinkType, TrafficType, DetailsType
<1>7. Updates' \subseteq Updates
  BY <1>4 DEF Updates
<1>8. ASSUME NEW a \in Infos' PROVE
        \/ a \in Infos
        \/ /\ a \in Answer /\ Follows(a, q) /\ a.kind = "Info" /\ a.of \in Contacts
           /\ \A f \in DOMAIN a.values : f \in AllFields /\ a.values[f] = srv[a.of][f]
  BY <1>5, AnswerFields DEF Infos
<1>9. TrafficOK'
  <2>1. ASSUME NEW r \in UnderWay' PROVE UnderWayOK(r)
    <3>1. r \in UnderWay \/ Follows(r, q)
      BY <1>4, <1>5 DEF UnderWay
    <3> QED BY <1>2, <1>3, <3>1, FollowsOK DEF RequestsInv, TrafficOK
  <2>2. \A r \in UnderWay' : UnderWayOK(r)'
    BY <1>1, <2>1 DEF UnderWayOK, Age
  <2> QED BY <1>1, <2>2 DEF RequestsInv, TrafficOK
<1>10. OwnersOK'
  <2>1. ASSUME ~collided, NEW a \in Infos' PROVE \A f \in DOMAIN a.values : Own(a.values[f], a.of)
    BY <1>8, <2>1 DEF RequestsInv, OwnersOK
  <2> QED BY <1>1, <1>7, <2>1 DEF RequestsInv, OwnersOK
<1>11. ErasuresOK'
  <2>1. ASSUME NEW a \in Infos' PROVE \A f \in DOMAIN a.values : a.values[f] = NoValue => Excused(f)
    BY <1>8, <2>1 DEF RequestsInv, ErasuresOK, Contacts
  <2>2. \A f : Excused(f)' = Excused(f)
    BY <1>1 DEF Excused
  <2> QED BY <1>1, <1>7, <2>1, <2>2 DEF RequestsInv, ErasuresOK
<1>12. OwnDetailsOK'
  <2>1. ASSUME NEW p \in Parts, NEW v, Will(asked, srv[Self], p, v) PROVE Will(asked', srv[Self], p, v)
    <3>1. CASE asked' = Tail(asked)
      <4>1. ~UpdateOf(Head(asked), p)
        BY DEF UpdateOf
      <4> QED BY <1>2, <2>1, <3>1, <4>1, WillTail
    <3>2. ASSUME NEW r \in Packet, r.kind = q.kind, asked' = <<r>> \o Tail(asked)
          PROVE  Will(asked', srv[Self], p, v)
      BY <1>2, <2>1, <3>2, WillReplaced
    <3> QED BY <3>1, <3>2
  <2>2. ASSUME InOrder(asked) PROVE InOrder(asked')
    <3>1. CASE asked' = Tail(asked)
      BY <1>2, <2>2, <3>1, InOrderTail
    <3>2. ASSUME NEW r \in Packet, Follows(r, q), r.kind = q.kind, asked' = <<r>> \o Tail(asked)
          PROVE  InOrder(asked')
      <4>1. /\ asked' \in Seq(Packet) /\ Len(asked') = Len(asked)
            /\ \A i \in 1..Len(asked) : asked'[i] = IF i = 1 THEN r ELSE asked[i]
        BY <1>2, <3>2, RangeReplaced
      <4>2. asked[1] = q /\ (OwnAsked(r) => OwnAsked(q))
        BY <1>2, <3>2 DEF Follows, OwnAsked
      <4>3. DOMAIN asked' = DOMAIN asked /\ DOMAIN asked = 1..Len(asked)
        BY <1>2, <4>1
      <4>4. ASSUME NEW i \in DOMAIN asked, NEW j \in DOMAIN asked, i < j, OwnAsked(asked'[i])
            PROVE  asked'[j].kind # "Update"
        <5>1. asked'[j] = asked[j] /\ OwnAsked(asked[i])
          <6>1. i \in 1..Len(asked) /\ j \in 1..Len(asked) /\ j # 1
            <7>1. Len(asked) \in Nat
              BY <1>2
            <7>2. i \in 1..Len(asked) /\ j \in 1..Len(asked)
              BY <4>3
            <7>3. i < j
              BY <4>4
            <7> QED BY <7>1, <7>2, <7>3
          <6>2. asked'[j] = asked[j] /\ (i # 1 => asked'[i] = asked[i]) /\ (i = 1 => asked'[i] = r)
            BY <4>1, <6>1
          <6> QED BY <4>2, <4>4, <6>1, <6>2
        <5> QED BY <2>2, <4>4, <5>1 DEF InOrder
      <4> QED BY <4>3, <4>4 DEF InOrder
    <3> QED BY <3>1, <3>2
  <2>3. ASSUME InOrder(asked), OwnAsked(q) PROVE Updates = {}
    <3>1. \A j \in DOMAIN asked : asked[j].kind # "Update"
      <4>1. asked[1] = q /\ DOMAIN asked = 1..Len(asked) /\ 1 \in DOMAIN asked
        BY <1>2
      <4> QED BY <2>3, <4>1 DEF InOrder
    <3> QED BY <3>1 DEF Updates, Range
  <2>4. ASSUME ~crossed, ~collided, NEW a \in Infos', a.of = Self
        PROVE  /\ Updates' = {}
               /\ \A p \in Parts \cap DOMAIN a.values : a.values[p] = srv[Self][p]
    <3>1. CASE a \in Infos
      BY <1>7, <2>4, <3>1 DEF RequestsInv, OwnDetailsOK
    <3>2. CASE a \notin Infos
      <4>1. Follows(a, q) /\ a.kind = "Info" /\ q.kind \in {"Search", "UserInfo"}
        BY <1>2, <1>8, <3>2 DEF Packet
      <4>2. OwnAsked(q)
        BY <2>4, <4>1 DEF Follows, OwnAsked
      <4>3. Updates' = {}
        BY <1>7, <2>3, <2>4, <4>2 DEF RequestsInv, OwnDetailsOK
      <4> QED BY <1>8, <2>4, <3>2, <4>3
    <3> QED BY <3>1, <3>2
  <2> QED BY <1>1, <2>1, <2>2, <2>4 DEF RequestsInv, OwnDetailsOK
<1> QED BY <1>1, <1>6, <1>9, <1>10, <1>11, <1>12, SearchesSame DEF RequestsInv

\* The server's answer to a details request keeps the invariant.
LEMMA SendInfoOK ==
  ASSUME RequestsInv, connected, asked # <<>>, Head(asked).kind = "UserInfo",
         NEW part_ \in Parts, SendInfo(part_),
         UNCHANGED <<link, requestid, cache, made, collided, pending, panel, details>>
  PROVE  RequestsInv'
<1>1. PICK q : q = Head(asked)
  OBVIOUS
<1>2. q \in [id : Ids, kind : {"UserInfo"}, contact : Contacts, left : SUBSET Parts]
  <2>1. q \in Packet
    BY <1>1, RangeTail, RangeIn DEF RequestsInv, TypeInv, TrafficType
  <2> QED BY <1>1, <2>1 DEF Packet
<1>3. PICK values : values = [f \in FieldsOf(part_) |-> srv[q.contact][f]]
  OBVIOUS
<1>4. PICK a : a = [kind |-> "Info", id |-> q.id, of |-> q.contact, values |-> values]
  OBVIOUS
<1>5. PICK r : r = [q EXCEPT !.left = @ \ {part_}]
  OBVIOUS
<1>6. a \in Answer /\ Follows(a, q) /\ a.kind = "Info"
      /\ \A f \in DOMAIN a.values : f \in AllFields /\ a.values[f] = srv[a.of][f]
  <2>1. FieldsOf(part_) \subseteq AllFields /\ srv[q.contact] \in [AllFields -> Known]
    BY <1>2, FieldsOfParts DEF RequestsInv, TypeInv, DetailsType
  <2>2. values \in [FieldsOf(part_) -> Known]
    BY <1>3, <2>1
  <2>3. values \in UNION {[FieldsOf(p) -> Known] : p \in Parts}
    BY <2>2
  <2>4. a \in [kind : {"Info"}, id : Ids, of : Contacts,
               values : UNION {[FieldsOf(p) -> Known] : p \in Parts}]
    BY <1>2, <1>4, <2>3
  <2> QED BY <1>2, <1>3, <1>4, <2>1, <2>4 DEF Answer, Follows
<1>7. r \in Packet /\ Follows(r, q) /\ r.kind = q.kind
  <2>1. r \in [id : Ids, kind : {"UserInfo"}, contact : Contacts, left : SUBSET Parts]
    BY <1>2, <1>5
  <2> QED BY <1>2, <1>5, <2>1 DEF Packet, Follows
<1>8. asked' = Tail(asked) \/ asked' = <<r>> \o Tail(asked)
  BY <1>1, <1>5 DEF SendInfo
<1>9. answers' = Append(answers, a)
  BY <1>1, <1>3, <1>4 DEF SendInfo
<1>10. q.kind # "Update"
  BY <1>2
<1> QED BY <1>1, <1>6, <1>7, <1>8, <1>9, <1>10, TakenOK

\* The server's answer to a search keeps the invariant.
LEMMA SendResultOK ==
  ASSUME RequestsInv, connected, asked # <<>>, Head(asked).kind = "Search",
         NEW found \in SUBSET Found, NEW last \in BOOLEAN, SendResult(found, last),
         UNCHANGED <<link, requestid, cache, made, collided, pending, panel, details>>
  PROVE  RequestsInv'
<1>1. PICK q : q = Head(asked)
  OBVIOUS
<1>2. q \in [id : Ids, kind : {"Search"}, how : {"number", "names"}, search : 1 .. MaxSearches,
             sent : Nat]
  <2>1. q \in Packet
    BY <1>1, RangeTail, RangeIn DEF RequestsInv, TypeInv, TrafficType
  <2> QED BY <1>1, <2>1 DEF Packet
<1>3. PICK a : a = [kind |-> "Result", id |-> q.id, how |-> q.how, search |-> q.search,
                    found |-> found, last |-> last]
  OBVIOUS
<1>4. PICK r : r = [q EXCEPT !.sent = @ + 1]
  OBVIOUS
<1>5. a \in Answer /\ Follows(a, q) /\ a.kind = "Result"
  BY <1>2, <1>3 DEF Answer, Follows
<1>6. r \in Packet /\ Follows(r, q) /\ r.kind = q.kind
  <2>1. r \in [id : Ids, kind : {"Search"}, how : {"number", "names"}, search : 1 .. MaxSearches,
               sent : Nat]
    BY <1>2, <1>4
  <2> QED BY <1>2, <1>4, <2>1 DEF Packet, Follows
<1>7. asked' = Tail(asked) \/ asked' = <<r>> \o Tail(asked)
  BY <1>1, <1>4 DEF SendResult
<1>8. answers' = Append(answers, a)
  BY <1>1, <1>3 DEF SendResult
<1>9. q.kind # "Update"
  BY <1>2
<1> QED BY <1>1, <1>5, <1>6, <1>7, <1>8, <1>9, TakenOK

\* A request that is not answered keeps the invariant.
LEMMA ServerIgnoresOK == ASSUME RequestsInv, ServerIgnores PROVE RequestsInv'
BY TakenOK DEF ServerIgnores

\* An upload that the server takes keeps the invariant.
LEMMA UpdateOK ==
  ASSUME RequestsInv, connected, asked # <<>>, Head(asked).kind = "Update", Update,
         UNCHANGED <<link, requestid, cache, made, collided, pending, panel, lib, doc, window, edition,
                     careless, crossed>>
  PROVE  RequestsInv'
<1>1. PICK q : q = Head(asked)
  OBVIOUS
<1>2. asked \in Seq(Packet) /\ q \in Range(asked) /\ q \in Packet
  <2>1. asked \in Seq(Packet)
    BY DEF RequestsInv, TypeInv, TrafficType
  <2> QED BY <1>1, <2>1, RangeTail, RangeIn
<1>3. q \in [kind : {"Update"}, part : Parts, values : [AllFields -> Known]] /\ q \in Updates
  BY <1>1, <1>2 DEF Packet, Updates
<1>4. /\ UNCHANGED <<connected, open, requestid, cache, answers, made, collided, pending, panel>>
      /\ UNCHANGED <<lib, doc, window, edition, careless, crossed>>
      /\ asked' = Tail(asked)
  BY DEF Update, link
<1>5. srv \in [Contacts -> [AllFields -> Known]]
  BY DEF RequestsInv, TypeInv, DetailsType
<1>6. PICK new : new = Replacing(srv[Self], [f \in FieldsOf(q.part) |-> q.values[f]])
  OBVIOUS
<1>7. /\ new \in [AllFields -> Known]
      /\ \A f \in AllFields : new[f] = IF f \in FieldsOf(q.part) THEN q.values[f] ELSE srv[Self][f]
  <2>1. FieldsOf(q.part) \subseteq AllFields
    BY <1>3, FieldsOfParts
  <2>2. \A f \in AllFields : new[f] = IF f \in FieldsOf(q.part) THEN q.values[f] ELSE srv[Self][f]
    BY <1>6, <2>1 DEF Replacing
  <2>3. new = [f \in AllFields |-> new[f]]
    BY <1>6 DEF Replacing
  <2>4. \A f \in AllFields : new[f] \in Known
    BY <1>3, <1>5, <2>2, Constants
  <2> QED BY <2>2, <2>3, <2>4
<1>8. srv' = [srv EXCEPT ![Self] = new] /\ srv' \in [Contacts -> [AllFields -> Known]]
  <2>1. srv' = [srv EXCEPT ![Self] = new]
    BY <1>1, <1>6 DEF Update
  <2> QED BY <1>5, <1>7, <2>1
<1>9. /\ srv'[Self] = new /\ \A c \in Others : srv'[c] = srv[c]
      /\ \A c \in Contacts : c = Self \/ c \in Others
  BY <1>5, <1>8, Constants DEF Contacts
<1>10. asked' \in Seq(Packet) /\ Range(asked') \subseteq Range(asked)
  BY <1>2, <1>4, RangeTail
<1>11. Updates' \subseteq Updates /\ Infos' = Infos /\ UnderWay' \subseteq UnderWay
  BY <1>4, <1>10 DEF Updates, Infos, UnderWay
<1>12. TypeInv'
  BY <1>4, <1>8, <1>10 DEF RequestsInv, TypeInv, LinkType, TrafficType, DetailsType
<1>13. TrafficOK'
  <2>1. connected'
    BY <1>4
  <2> QED BY <1>4, <1>11, <2>1, TrafficSame DEF RequestsInv
<1>14. OwnersOK'
  <2>1. ASSUME ~collided, NEW c \in Contacts, NEW f \in AllFields PROVE Own(srv'[c][f], c)
    BY <1>3, <1>7, <1>9, <2>1 DEF RequestsInv, OwnersOK
  <2> QED BY <1>4, <1>11, <2>1 DEF RequestsInv, OwnersOK
<1>15. ErasuresOK'
  <2>1. ASSUME NEW f \in AllFields, srv'[Self][f] = NoValue PROVE Excused(f)
    BY <1>3, <1>7, <1>9, <2>1 DEF RequestsInv, ErasuresOK
  <2>2. \A f : Excused(f)' = Excused(f)
    BY <1>4 DEF Excused
  <2> QED BY <1>4, <1>9, <1>11, <2>1, <2>2 DEF RequestsInv, ErasuresOK
<1>16. OwnDetailsOK'
  <2>1. ASSUME NEW p \in Parts, NEW v, Will(asked, srv[Self], p, v) PROVE Will(asked', srv'[Self], p, v)
    <3>1. IF UpdateOf(Head(asked), p) THEN new[p] = Head(asked).values[p] ELSE new[p] = srv[Self][p]
      <4>1. p \in AllFields /\ (p \in FieldsOf(q.part) <=> p = q.part)
        BY <1>3, FieldsOfParts, Constants
      <4>2. UpdateOf(q, p) <=> p = q.part
        BY <1>3 DEF UpdateOf
      <4> QED BY <1>1, <1>7, <4>1, <4>2
    <3>2. Will(Tail(asked), new, p, v)
      BY <1>2, <2>1, <3>1, WillTail
    <3> QED BY <1>4, <1>9, <3>2
  <2>2. InOrder(asked) => InOrder(asked')
    BY <1>2, <1>4, InOrderTail
  <2> QED BY <1>3, <1>4, <1>11, <2>1, <2>2 DEF RequestsInv, OwnDetailsOK
<1>17. SearchesOK'
  BY <1>4, SearchesSame DEF RequestsInv
<1> QED BY <1>12, <1>13, <1>14, <1>15, <1>16, <1>17 DEF RequestsInv

\* Whatever the server takes, it keeps the invariant.
LEMMA ServerTakesOK == ASSUME RequestsInv, ServerTakes PROVE RequestsInv'
<1>1. /\ connected /\ asked # <<>>
      /\ UNCHANGED <<link, requestid, cache, made, collided, pending, panel>>
      /\ UNCHANGED <<lib, doc, window, edition, careless, crossed>>
  BY DEF ServerTakes
<1>2. Head(asked).kind \in {"Search", "UserInfo", "Update"}
  <2>1. Head(asked) \in Packet
    BY <1>1, RangeTail, RangeIn DEF RequestsInv, TypeInv, TrafficType
  <2> QED BY <2>1 DEF Packet
<1>3. CASE Head(asked).kind = "UserInfo"
  <2>1. UNCHANGED srv /\ \E part_ \in Parts : SendInfo(part_)
    BY <1>3 DEF ServerTakes
  <2>2. UNCHANGED details
    BY <1>1, <2>1 DEF details
  <2> QED BY <1>1, <1>3, <2>1, <2>2, SendInfoOK
<1>4. CASE Head(asked).kind = "Search"
  <2>1. UNCHANGED srv /\ \E found \in {{}} \cup {{c} : c \in Found}, last \in BOOLEAN : SendResult(found, last)
    BY <1>4 DEF ServerTakes
  <2>2. PICK found \in SUBSET Found, last \in BOOLEAN : SendResult(found, last)
    BY <2>1
  <2>3. UNCHANGED details
    BY <1>1, <2>1 DEF details
  <2> QED BY <1>1, <1>4, <2>2, <2>3, SendResultOK
<1>5. CASE Head(asked).kind = "Update"
  <2>1. Update
    BY <1>5 DEF ServerTakes
  <2> QED BY <1>1, <1>5, <2>1, UpdateOK
<1> QED BY <1>2, <1>3, <1>4, <1>5

-----------------------------------------------------------------------------
(* An entry leaves the cache.                                              *)

\* Two elements that are left were two elements.
LEMMA DropTwo ==
  ASSUME NEW S, NEW s \in Seq(S), NEW t \in Seq(S), NEW i \in 1..Len(s), Dropped(s, t, i)
  PROVE  \A j, k \in 1..Len(t) :
            \E m, n \in 1..Len(s) : t[j] = s[m] /\ t[k] = s[n] /\ (m = n => j = k)
<1>1. TAKE j, k \in 1..Len(t)
<1> DEFINE from(n) == IF n < i THEN n ELSE n + 1
<1>2. from(j) \in 1..Len(s) /\ from(k) \in 1..Len(s) /\ (from(j) = from(k) => j = k)
  BY DEF Dropped
<1>3. t[j] = s[from(j)] /\ t[k] = s[from(k)]
  BY DEF Dropped
<1> HIDE DEF from
<1> QED BY <1>2, <1>3

\* The same of the cache
LEMMA CacheTwo ==
  ASSUME cache \in Seq(Entry), cache' \in Seq(Entry), NEW i \in 1..Len(cache), Dropped(cache, cache', i)
  PROVE  \A x, y \in 1..Len(cache') :
            \E m, n \in 1..Len(cache) : cache'[x] = cache[m] /\ cache'[y] = cache[n] /\ (m = n => x = y)
BY DropTwo

\* What is under way stays in order without the entry.
LEMMA DropTrafficOK ==
  ASSUME TypeInv, TrafficOK, cache' \in Seq(Entry), NEW i \in 1..Len(cache), Dropped(cache, cache', i),
         UNCHANGED <<requestid, made, collided>>, panel'.current = panel.current,
         UnderWay' \subseteq UnderWay, connected'
  PROVE  TrafficOK'
<1>1. cache \in Seq(Entry)
  BY DEF TypeInv, TrafficType
<1>2. Range(cache') \subseteq Range(cache)
  BY <1>1, DropRange
<1>3. ASSUME NEW q \in UnderWay' PROVE UnderWayOK(q)'
  <2>1. UnderWayOK(q)
    BY <1>3 DEF TrafficOK
  <2> QED BY <1>2, <2>1 DEF UnderWayOK, Age
<1>4. ASSUME ~collided, NEW j \in DOMAIN cache', NEW k \in DOMAIN cache', cache'[j].id = cache'[k].id
      PROVE  j = k
  <2>1. j \in 1..Len(cache') /\ k \in 1..Len(cache') /\ DOMAIN cache = 1..Len(cache)
    BY <1>1
  <2>2. PICK m, n \in 1..Len(cache) : cache'[j] = cache[m] /\ cache'[k] = cache[n] /\ (m = n => j = k)
    BY <1>1, <2>1, DropTwo
  <2> QED BY <1>4, <2>1, <2>2 DEF TrafficOK
<1> QED BY <1>3, <1>4 DEF TrafficOK

\* The end of a search takes its entry and what was pending of it.
LEMMA DropSearchesOK ==
  ASSUME TypeInv, SearchesOK, cache' \in Seq(Entry), NEW i \in 1..Len(cache), Dropped(cache, cache', i),
         pending' = IF cache[i].kind = "Search" THEN pending \ {cache[i].search} ELSE pending,
         panel'.current = panel.current, panel'.results \subseteq {panel.current}
  PROVE  SearchesOK'
<1>1. cache \in Seq(Entry) /\ DOMAIN cache = 1..Len(cache) /\ DOMAIN cache' = 1..Len(cache')
  BY DEF TypeInv, TrafficType
<1>2. /\ Range(cache') \subseteq Range(cache)
      /\ \A j \in 1..Len(cache) : j # i => cache[j] \in Range(cache')
      /\ \A j \in 1..Len(cache') : \E k \in 1..Len(cache) : k # i /\ cache'[j] = cache[k]
  BY <1>1, DropRange
<1>3. PendingIsCached'
  <2>1. ASSUME NEW n \in pending' PROVE \E e \in Range(cache') : e.kind = "Search" /\ e.search = n
    <3>1. n \in pending /\ (cache[i].kind = "Search" => n # cache[i].search)
      BY <2>1
    <3>2. PICK j \in 1..Len(cache) : cache[j].kind = "Search" /\ cache[j].search = n
      BY <1>1, <3>1 DEF SearchesOK, PendingIsCached, Range
    <3>3. j # i
      BY <3>1, <3>2
    <3> QED BY <1>2, <3>2, <3>3
  <2>2. ASSUME NEW e \in Range(cache'), e.kind = "Search" PROVE e.search \in pending'
    <3>1. PICK j \in 1..Len(cache') : cache'[j] = e
      BY <1>1, <2>2 DEF Range
    <3>2. PICK k \in 1..Len(cache) : k # i /\ e = cache[k]
      BY <1>2, <3>1
    <3>3. e.search \in pending
      BY <1>2, <2>2 DEF SearchesOK, PendingIsCached
    <3>4. cache[i].kind = "Search" => cache[i].search # e.search
      BY <1>1, <2>2, <3>2 DEF SearchesOK
    <3> QED BY <3>3, <3>4
  <2>3. pending' = {e.search : e \in {e \in Range(cache') : e.kind = "Search"}}
    BY <2>1, <2>2
  <2> QED BY <2>3 DEF PendingIsCached
<1>4. ASSUME NEW j \in DOMAIN cache', NEW k \in DOMAIN cache', cache'[j].kind = "Search",
             cache'[k].kind = "Search", cache'[j].search = cache'[k].search
      PROVE  j = k
  <2>1. \A x, y \in 1..Len(cache') :
           \E m, n \in 1..Len(cache) : cache'[x] = cache[m] /\ cache'[y] = cache[n] /\ (m = n => x = y)
    BY <1>1, CacheTwo
  <2>2. PICK m, n \in 1..Len(cache) : cache'[j] = cache[m] /\ cache'[k] = cache[n] /\ (m = n => j = k)
    BY <1>1, <2>1
  <2> QED BY <1>1, <1>4, <2>2 DEF SearchesOK
<1>5. ResultsAreCurrent' /\ \A e \in Range(cache') : e.kind = "Search" => e.search <= panel'.current
  BY <1>2 DEF SearchesOK, ResultsAreCurrent
<1> QED BY <1>3, <1>4, <1>5 DEF SearchesOK

\* The expiry of an entry keeps the invariant.
LEMMA ExpireEntryOK == ASSUME RequestsInv, ExpireEntry PROVE RequestsInv'
<1>1. /\ connected /\ cache # <<>> /\ cache' = Tail(cache)
      /\ UNCHANGED <<connected, open, requestid, asked, answers, made, collided>>
      /\ UNCHANGED <<srv, lib, doc, window, edition, careless, crossed>>
  BY DEF ExpireEntry, link, details
<1>2. cache \in Seq(Entry) /\ panel \in Panel /\ 1 \in 1..Len(cache) /\ Head(cache) = cache[1]
  BY <1>1 DEF RequestsInv, TypeInv, TrafficType
<1>3. cache' \in Seq(Entry) /\ Dropped(cache, cache', 1)
  BY <1>1, <1>2, TailDrops
<1>4. /\ panel' \in Panel /\ panel'.current = panel.current /\ panel'.results \subseteq {panel.current}
      /\ pending' = IF cache[1].kind = "Search" THEN pending \ {cache[1].search} ELSE pending
  <2>1. panel.results \subseteq {panel.current}
    BY DEF RequestsInv, SearchesOK, ResultsAreCurrent
  <2>2. CASE cache[1].kind = "Search"
    <3>1. SearchResult(cache[1].search, {}, TRUE)
      BY <1>2, <2>2 DEF ExpireEntry
    <3>2. pending' = pending \ {cache[1].search}
      BY <3>1 DEF SearchResult
    <3>3. panel' = [searching |-> panel'.searching, current |-> panel.current, results |-> panel.results]
          /\ panel'.searching \in BOOLEAN
      BY <1>2, <3>1 DEF SearchResult, Panel
    <3> QED BY <1>2, <2>1, <2>2, <3>2, <3>3 DEF Panel
  <2>3. CASE cache[1].kind # "Search"
    BY <1>2, <2>1, <2>3 DEF ExpireEntry
  <2> QED BY <2>2, <2>3
<1>5. TypeInv'
  BY <1>1, <1>3, <1>4 DEF RequestsInv, TypeInv, LinkType, TrafficType, DetailsType
<1>6. UnderWay' = UnderWay /\ Updates' = Updates /\ Infos' = Infos
  BY <1>1 DEF UnderWay, Updates, Infos
<1>7. TrafficOK'
  BY <1>1, <1>2, <1>3, <1>4, <1>6, DropTrafficOK DEF RequestsInv
<1>8. SearchesOK'
  BY <1>2, <1>3, <1>4, DropSearchesOK DEF RequestsInv
<1> QED BY <1>1, <1>5, <1>6, <1>7, <1>8, OwnersSame, ErasuresSame, DetailsSame DEF RequestsInv

-----------------------------------------------------------------------------
(* Answers.                                                                *)

\* What SetInfo does, contact by contact
LEMMA SetInfoGives ==
  ASSUME TypeInv, NEW c \in Contacts, NEW values, DOMAIN values \subseteq AllFields,
         \A f \in DOMAIN values : values[f] \in Known, SetInfo(c, values)
  PROVE  /\ lib' \in [Contacts -> [AllFields -> Known]]
         /\ doc' \in [Contacts -> [Parts -> Known]]
         /\ window' \in Window /\ window'.form = window.form
         /\ \A f \in AllFields : lib'[c][f] = IF f \in DOMAIN values THEN values[f] ELSE lib[c][f]
         /\ \A p \in Parts : doc'[c][p] = lib'[c][p]
         /\ \A d \in Contacts \ {c} : lib'[d] = lib[d] /\ doc'[d] = doc[d]
         /\ IF c = Self THEN window'.noticed ELSE window' = window
<1>1. /\ lib \in [Contacts -> [AllFields -> Known]] /\ doc \in [Contacts -> [Parts -> Known]]
      /\ window \in Window /\ DetailsType
  BY DEF TypeInv, DetailsType
<1>2. PICK known \in [AllFields -> Known] : known = Replacing(lib[c], values)
  BY <1>1, ReplacingType
<1>3. \A f \in AllFields : known[f] = IF f \in DOMAIN values THEN values[f] ELSE lib[c][f]
  BY <1>2 DEF Replacing
<1>4. /\ lib' = [lib EXCEPT ![c] = known] /\ doc' = [doc EXCEPT ![c] = [p \in Parts |-> known[p]]]
      /\ window' = IF c = Self THEN [window EXCEPT !.noticed = TRUE] ELSE window
  BY <1>2 DEF SetInfo, Emitted
<1>5. window' \in Window /\ window'.form = window.form /\ IF c = Self THEN window'.noticed ELSE window' = window
  BY <1>1, <1>4 DEF Window
<1>6. /\ lib'[c] = known /\ doc'[c] = [p \in Parts |-> known[p]]
      /\ \A d \in Contacts \ {c} : lib'[d] = lib[d] /\ doc'[d] = doc[d]
  BY <1>1, <1>4
<1>7. lib' \in [Contacts -> [AllFields -> Known]] /\ doc' \in [Contacts -> [Parts -> Known]]
  BY <1>1, SetInfoType
<1> QED BY <1>3, <1>5, <1>6, <1>7

\* Details come for a contact: its own unless ids have collided; and the user's
\* are what the server has and will have.
LEMMA SetInfoOK ==
  ASSUME RequestsInv, connected,
         NEW c \in Contacts, NEW values, DOMAIN values \subseteq AllFields,
         \A f \in DOMAIN values : values[f] \in Known, SetInfo(c, values),
         ~collided => \A f \in DOMAIN values : Own(values[f], c),
         c = Self => /\ \A f \in DOMAIN values : values[f] = NoValue => Excused(f)
                     /\ \E r \in Parts : r \in DOMAIN values
                     /\ ~crossed /\ ~collided =>
                           Updates = {} /\ \A p \in Parts \cap DOMAIN values : values[p] = srv[Self][p],
         answers' \in Seq(Answer), Range(answers') \subseteq Range(answers),
         UNCHANGED <<connected, open, requestid, cache, asked, made, collided, pending, panel>>,
         UNCHANGED <<srv, edition, careless, crossed>>
  PROVE  RequestsInv'
<1>1. /\ lib' \in [Contacts -> [AllFields -> Known]]
      /\ doc' \in [Contacts -> [Parts -> Known]]
      /\ window' \in Window /\ window'.form = window.form
      /\ \A f \in AllFields : lib'[c][f] = IF f \in DOMAIN values THEN values[f] ELSE lib[c][f]
      /\ \A p \in Parts : doc'[c][p] = lib'[c][p]
      /\ \A d \in Contacts \ {c} : lib'[d] = lib[d] /\ doc'[d] = doc[d]
      /\ IF c = Self THEN window'.noticed ELSE window' = window
  BY SetInfoGives DEF RequestsInv
<1>2. UnderWay' \subseteq UnderWay /\ Updates' = Updates /\ Infos' \subseteq Infos
  BY DEF UnderWay, Updates, Infos
<1>3. TypeInv'
  BY <1>1 DEF RequestsInv, TypeInv, LinkType, TrafficType, DetailsType
<1>4. TrafficOK' /\ SearchesOK'
  BY <1>2, TrafficSame, SearchesSame DEF RequestsInv
<1>5. OwnersOK'
  <2>1. ASSUME ~collided, NEW d \in Contacts, NEW f \in AllFields PROVE Own(lib'[d][f], d)
    BY <1>1, <2>1 DEF RequestsInv, OwnersOK
  <2>2. ASSUME ~collided, NEW p \in Parts PROVE Own(doc'[Self][p], Self)
    <3>1. CASE c = Self
      BY <1>1, <2>1, <2>2, <3>1, Constants
    <3>2. CASE c # Self
      BY <1>1, <2>2, <3>2, Constants DEF RequestsInv, OwnersOK
    <3> QED BY <3>1, <3>2
  <2> QED BY <1>1, <1>2, <2>1, <2>2 DEF RequestsInv, OwnersOK
<1>6. ErasuresOK'
  <2>1. \A f : Excused(f)' = Excused(f)
    BY DEF Excused
  <2>2. ASSUME NEW p \in Parts, doc'[Self][p] = NoValue
        PROVE  Excused(p) \/ (lib'[Self][p] = NoValue /\ \E r \in Parts : lib'[Self][r] # NoValue)
    <3>1. CASE c = Self
      <4>1. PICK r \in Parts : r \in DOMAIN values
        BY <3>1
      <4>2. lib'[Self][r] = values[r] /\ lib'[Self][p] = NoValue
        BY <1>1, <2>2, <3>1, <4>1, Constants
      <4>3. Excused(r) = Excused(p)
        BY Constants DEF Excused
      <4> QED BY <3>1, <4>1, <4>2, <4>3
    <3>2. CASE c # Self
      BY <1>1, <2>2, <3>2, Constants DEF RequestsInv, ErasuresOK
    <3> QED BY <3>1, <3>2
  <2>3. ~window'.noticed => window'.form = doc'[Self]
    BY <1>1, Constants DEF RequestsInv, ErasuresOK
  <2> QED BY <1>2, <2>1, <2>2, <2>3 DEF RequestsInv, ErasuresOK
<1>7. OwnDetailsOK'
  <2>1. ASSUME ~crossed, ~collided, NEW p \in Parts
        PROVE  /\ lib'[Self][p] = NoValue \/ Will(asked, srv[Self], p, lib'[Self][p])
               /\ edition > 0 => /\ doc'[Self][p] = lib'[Self][p]
                                 /\ Will(asked, srv[Self], p, doc'[Self][p])
    <3>1. /\ lib[Self][p] = NoValue \/ Will(asked, srv[Self], p, lib[Self][p])
          /\ edition > 0 => /\ doc[Self][p] = lib[Self][p]
                            /\ Will(asked, srv[Self], p, doc[Self][p])
      BY <2>1 DEF RequestsInv, OwnDetailsOK
    <3>2. CASE c # Self
      BY <1>1, <3>1, <3>2, Constants
    <3>3. CASE c = Self /\ p \in DOMAIN values
      <4>1. lib'[Self][p] = srv[Self][p] /\ doc'[Self][p] = srv[Self][p]
        BY <1>1, <2>1, <3>3, Constants
      <4>2. Will(asked, srv[Self], p, srv[Self][p])
        <5>1. asked \in Seq(Packet) /\ \A q \in Range(asked) : q.kind # "Update"
          BY <2>1, <3>3 DEF RequestsInv, TypeInv, TrafficType, Updates
        <5> QED BY <5>1, NothingWill
      <4> QED BY <4>1, <4>2
    <3>4. CASE c = Self /\ p \notin DOMAIN values
      <4>1. lib'[Self][p] = lib[Self][p] /\ doc'[Self][p] = lib[Self][p]
        BY <1>1, <3>4, Constants
      <4> QED BY <3>1, <4>1
    <3> QED BY <3>2, <3>3, <3>4
  <2> QED BY <1>2, <2>1 DEF RequestsInv, OwnDetailsOK
<1> QED BY <1>3, <1>4, <1>5, <1>6, <1>7 DEF RequestsInv

\* The answer that is taken, and those that are left
LEMMA AnswerTaken ==
  ASSUME RequestsInv, answers # <<>>, answers' = Tail(answers), NEW a, a = Head(answers)
  PROVE  /\ a \in Answer /\ a \in Range(answers) /\ UnderWayOK(a)
         /\ answers' \in Seq(Answer) /\ Range(answers') \subseteq Range(answers)
<1>1. answers \in Seq(Answer)
  BY DEF RequestsInv, TypeInv, TrafficType
<1>2. a \in Answer /\ a \in Range(answers)
  BY <1>1, RangeTail, RangeIn
<1>3. answers' \in Seq(Answer) /\ Range(answers') \subseteq Range(answers)
  BY <1>1, RangeTail
<1> QED BY <1>2, <1>3 DEF RequestsInv, TrafficOK, UnderWay

\* An answer that is only logged keeps the invariant.
LEMMA AnswerIgnoredOK ==
  ASSUME RequestsInv, connected, answers # <<>>, answers' = Tail(answers),
         UNCHANGED <<link, requestid, asked, made, collided, srv, edition, careless, crossed>>,
         UNCHANGED <<cache, pending, panel, lib, doc, window>>
  PROVE  RequestsInv'
<1>1. answers' \in Seq(Answer) /\ Range(answers') \subseteq Range(answers)
  BY AnswerTaken
<1>2. UNCHANGED <<connected, open>>
  BY DEF link
<1>3. TypeInv'
  BY <1>1, <1>2 DEF RequestsInv, TypeInv, LinkType, TrafficType, DetailsType
<1>4. UnderWay' \subseteq UnderWay /\ Updates' = Updates /\ Infos' \subseteq Infos
  BY <1>1 DEF UnderWay, Updates, Infos
<1> QED BY <1>2, <1>3, <1>4, TrafficSame, SearchesSame, OwnersSame, ErasuresSame, DetailsSame
        DEF RequestsInv

\* Details that come keep the invariant: unless ids have collided, the entry is of
\* the contact they are of.
LEMMA ReceiveInfoOK ==
  ASSUME RequestsInv, connected, answers # <<>>, answers' = Tail(answers),
         NEW a, a = Head(answers), a.kind = "Info", ReceiveInfo(a),
         UNCHANGED <<link, requestid, asked, made, collided, srv, edition, careless, crossed>>
  PROVE  RequestsInv'
<1>1. /\ UNCHANGED <<connected, open, requestid, cache, asked, made, collided, pending, panel>>
      /\ UNCHANGED <<srv, edition, careless, crossed>>
  BY DEF ReceiveInfo, link
<1>2. /\ a \in Answer /\ a \in Infos /\ UnderWayOK(a)
      /\ answers' \in Seq(Answer) /\ Range(answers') \subseteq Range(answers)
  BY AnswerTaken DEF Infos
<1>3. /\ a.of \in Contacts /\ \A f \in DOMAIN a.values : a.values[f] \in Known
      /\ \E p \in Parts : DOMAIN a.values = FieldsOf(p)
  BY <1>2, AnswerFields
<1>4. DOMAIN a.values \subseteq AllFields /\ \E r \in Parts : r \in DOMAIN a.values
  BY <1>3, FieldsOfParts
<1>5. CASE Exists(a.id) /\ Lookup(a.id).kind = "UserInfo"
  <2>1. PICK i \in 1..Len(cache) : cache[i].id = a.id /\ Lookup(a.id) = cache[i]
    BY <1>5, LookupFinds DEF RequestsInv, TypeInv, TrafficType
  <2>2. PICK e : e = cache[i]
    OBVIOUS
  <2>3. e \in Range(cache) /\ e \in Entry /\ e.kind = "UserInfo" /\ e.id = a.id
    BY <1>5, <2>1, <2>2, RangeIn DEF RequestsInv, TypeInv, TrafficType, Range
  <2>4. e.contact \in Contacts
    BY <2>3 DEF Entry
  <2>5. SetInfo(e.contact, a.values)
    BY <1>5, <2>1, <2>2 DEF ReceiveInfo
  <2>6. ~collided => a.of = e.contact
    BY <1>2, <2>3 DEF UnderWayOK, Matches
  <2>7. ~collided => \A f \in DOMAIN a.values : Own(a.values[f], e.contact)
    BY <1>2, <2>6 DEF RequestsInv, OwnersOK
  <2>8. \A f \in DOMAIN a.values : a.values[f] = NoValue => Excused(f)
    BY <1>2 DEF RequestsInv, ErasuresOK
  <2>9. ASSUME e.contact = Self, ~crossed, ~collided
        PROVE  Updates = {} /\ \A p \in Parts \cap DOMAIN a.values : a.values[p] = srv[Self][p]
    BY <1>2, <2>6, <2>9 DEF RequestsInv, OwnDetailsOK
  <2> QED BY <1>1, <1>2, <1>3, <1>4, <2>4, <2>5, <2>7, <2>8, <2>9, SetInfoOK
<1>6. CASE ~(Exists(a.id) /\ Lookup(a.id).kind = "UserInfo")
  BY <1>1, <1>6, AnswerIgnoredOK DEF ReceiveInfo
<1> QED BY <1>5, <1>6

\* A result keeps the invariant: its entry is of no later search, so that when
\* the panel hears of it the result is of the search it runs.
LEMMA SearchAnsweredOK ==
  ASSUME RequestsInv, connected, answers # <<>>, answers' = Tail(answers),
         NEW a, a = Head(answers), a.kind = "Result", Exists(a.id), Lookup(a.id).kind = "Search",
         SearchResult(Lookup(a.id).search, {a.search : c \in a.found}, a.last),
         cache' = IF a.last THEN Without(a.id) ELSE cache,
         UNCHANGED <<lib, doc, window>>,
         UNCHANGED <<link, requestid, asked, made, collided, srv, edition, careless, crossed>>
  PROVE  RequestsInv'
<1>1. /\ UNCHANGED <<connected, open, requestid, asked, made, collided>>
      /\ UNCHANGED <<srv, lib, doc, window, edition, careless, crossed>>
  BY DEF link
<1>2. /\ a \in Answer /\ UnderWayOK(a)
      /\ answers' \in Seq(Answer) /\ Range(answers') \subseteq Range(answers)
  BY AnswerTaken
<1>3. cache \in Seq(Entry) /\ panel \in Panel
  BY DEF RequestsInv, TypeInv, TrafficType
<1>4. PICK i \in 1..Len(cache) :
         cache[i].id = a.id /\ Lookup(a.id) = cache[i] /\ Without(a.id) = RemoveAt(cache, i)
  BY <1>3, LookupFinds
<1>5. PICK e : e = cache[i]
  OBVIOUS
<1>6. e \in Range(cache) /\ e \in Entry /\ e.kind = "Search" /\ e.id = a.id
  BY <1>3, <1>4, <1>5, RangeIn DEF Range
<1>7. e.search <= a.search /\ a.search <= panel.current /\ a.last \in BOOLEAN
      /\ e.search \in Nat /\ a.search \in Nat /\ panel.current \in Nat
  BY <1>2, <1>3, <1>6 DEF UnderWayOK, Answer, Entry, Panel
<1>8. panel.results \subseteq {panel.current}
  BY DEF RequestsInv, SearchesOK, ResultsAreCurrent
<1>9. PICK heard \in BOOLEAN : heard = (panel.searching /\ e.search \in pending /\ e.search = panel.current)
  BY <1>3 DEF Panel
<1>10. /\ pending' = IF a.last THEN pending \ {e.search} ELSE pending
       /\ panel' = [panel EXCEPT !.results = IF heard THEN @ \cup {a.search : c \in a.found} ELSE @,
                                 !.searching = @ /\ ~(heard /\ a.last)]
  BY <1>4, <1>5, <1>9 DEF SearchResult
<1>11. panel' \in Panel /\ panel'.current = panel.current /\ panel'.results \subseteq {panel.current}
  <2>1. heard => a.search = panel.current
    <3>1. heard => e.search = panel.current
      BY <1>9, Zenon
    <3> QED BY <1>7, <3>1
  <2>2. PICK results : results = IF heard THEN panel.results \cup {a.search : c \in a.found}
                                          ELSE panel.results
    OBVIOUS
  <2>3. results \subseteq {panel.current}
    BY <1>8, <2>1, <2>2
  <2>4. results \subseteq 1..MaxSearches
    BY <1>2, <1>3, <2>2 DEF Panel, Answer
  <2>5. PICK searching \in BOOLEAN : searching = (panel.searching /\ ~(heard /\ a.last))
    BY <1>3 DEF Panel
  <2>6. panel' = [panel EXCEPT !.results = results, !.searching = searching]
    BY <1>10, <2>2, <2>5
  <2> QED BY <1>3, <2>3, <2>4, <2>6 DEF Panel
<1>12. UnderWay' \subseteq UnderWay /\ Updates' = Updates /\ Infos' \subseteq Infos
  BY <1>1, <1>2 DEF UnderWay, Updates, Infos
<1>13. cache' \in Seq(Entry) /\ TrafficOK' /\ SearchesOK'
  <2>1. CASE a.last
    <3>1. cache' \in Seq(Entry) /\ Dropped(cache, cache', i)
      BY <1>3, <1>4, <2>1, RemoveDrops
    <3>2. pending' = IF cache[i].kind = "Search" THEN pending \ {cache[i].search} ELSE pending
      BY <1>5, <1>6, <1>10, <2>1
    <3>3. connected'
      BY <1>1
    <3>4. TrafficOK'
      BY <1>1, <1>11, <1>12, <3>1, <3>3, DropTrafficOK DEF RequestsInv
    <3>5. SearchesOK'
      BY <1>11, <3>1, <3>2, DropSearchesOK DEF RequestsInv
    <3> QED BY <3>1, <3>4, <3>5
  <2>2. CASE ~a.last
    <3>1. UNCHANGED <<cache, pending>>
      BY <1>10, <2>2
    <3>2. TrafficOK'
      BY <1>1, <1>11, <1>12, <3>1, TrafficSame DEF RequestsInv
    <3>3. PendingIsCached' /\ ResultsAreCurrent'
      BY <1>11, <3>1 DEF RequestsInv, SearchesOK, PendingIsCached, ResultsAreCurrent
    <3> QED BY <1>3, <1>11, <3>1, <3>2, <3>3 DEF RequestsInv, SearchesOK
  <2> QED BY <2>1, <2>2
<1>14. TypeInv'
  BY <1>1, <1>2, <1>11, <1>13 DEF RequestsInv, TypeInv, LinkType, TrafficType, DetailsType
<1> QED BY <1>1, <1>12, <1>13, <1>14, OwnersSame, ErasuresSame, DetailsSame DEF RequestsInv

\* Simple information without an entry changes no details of the user's own.
LEMMA LateSimpleInfoOK ==
  ASSUME RequestsInv, connected, answers # <<>>, answers' = Tail(answers),
         NEW a, a = Head(answers), LateSimpleInfo(a), UNCHANGED <<cache, pending, panel>>,
         UNCHANGED <<link, requestid, asked, made, collided, srv, edition, careless, crossed>>
  PROVE  RequestsInv'
<1>1. /\ UNCHANGED <<connected, open, requestid, cache, asked, made, collided, pending, panel>>
      /\ UNCHANGED <<srv, edition, careless, crossed>>
  BY DEF link
<1>2. answers' \in Seq(Answer) /\ Range(answers') \subseteq Range(answers)
  BY AnswerTaken
<1>3. ASSUME NEW c \in Others, NEW v \in {NoValue, Original(c)}, SetInfo(c, [main |-> v])
      PROVE  RequestsInv'
  <2>1. PICK values : values = [main |-> v]
    OBVIOUS
  <2>2. c \in Contacts /\ c # Self
    BY Constants
  <2>3. v \in Known /\ Own(v, c)
    BY <2>2, Constants DEF Known, Values, NoValue, Original, Own
  <2>4. DOMAIN values = {"main"} /\ values["main"] = v
    BY <2>1
  <2>5. DOMAIN values \subseteq AllFields /\ \A f \in DOMAIN values : values[f] \in Known /\ Own(values[f], c)
    BY <2>3, <2>4 DEF AllFields, Parts
  <2>6. SetInfo(c, values)
    BY <1>3, <2>1
  <2> QED BY <1>1, <1>2, <2>2, <2>5, <2>6, SetInfoOK
<1>4. CASE UNCHANGED <<lib, doc, window>>
  BY <1>1, <1>4, AnswerIgnoredOK
<1>5. \/ \E c \in Others : SetInfo(c, [main |-> Original(c)]) \/ SetInfo(c, [main |-> NoValue])
      \/ UNCHANGED <<lib, doc, window>>
  BY DEF LateSimpleInfo
<1> QED BY <1>3, <1>4, <1>5

\* Whatever answer comes, the invariant is kept.
LEMMA ReceiveAnswerOK == ASSUME RequestsInv, ReceiveAnswer PROVE RequestsInv'
<1>1. PICK a : a = Head(answers)
  OBVIOUS
<1>2. /\ connected /\ answers # <<>> /\ answers' = Tail(answers)
      /\ UNCHANGED <<link, requestid, asked, made, collided, srv, edition, careless, crossed>>
      /\ IF a.kind = "Info" THEN ReceiveInfo(a) ELSE ReceiveResult(a)
  BY <1>1 DEF ReceiveAnswer
<1>3. CASE a.kind = "Info"
  BY <1>1, <1>2, <1>3, ReceiveInfoOK
<1>4. CASE a.kind # "Info"
  <2>1. ReceiveResult(a)
    BY <1>2, <1>4
  <2>2. a.kind = "Result"
    <3>1. a \in Answer
      BY <1>1, <1>2, AnswerTaken
    <3> QED BY <1>4, <3>1 DEF Answer
  <2>3. CASE /\ Exists(a.id) /\ Lookup(a.id).kind = "Search"
             /\ SearchResult(Lookup(a.id).search, {a.search : c \in a.found}, a.last)
             /\ cache' = IF a.last THEN Without(a.id) ELSE cache
             /\ UNCHANGED <<lib, doc, window>>
    BY <1>1, <1>2, <2>2, <2>3, SearchAnsweredOK
  <2>4. CASE LateSimpleInfo(a) /\ UNCHANGED <<cache, pending, panel>>
    BY <1>1, <1>2, <2>4, LateSimpleInfoOK
  <2>5. CASE UNCHANGED <<cache, pending, panel, lib, doc, window>>
    BY <1>2, <2>5, AnswerIgnoredOK
  <2> QED BY <2>1, <2>3, <2>4, <2>5 DEF ReceiveResult
<1> QED BY <1>3, <1>4

-----------------------------------------------------------------------------
(* A save.                                                                 *)

\* What the user saves lacks nothing that the window did not lack.
LEMMA SavedForm ==
  ASSUME TypeInv, NEW part_ \in Parts, edition < MaxSaves,
         NEW saved, saved = [window.form EXCEPT ![part_] = [of |-> Self, edition |-> edition + 1]]
  PROVE  /\ saved \in [Parts -> Known]
         /\ \A p \in Parts : p # part_ => saved[p] = window.form[p]
         /\ saved[part_] # NoValue /\ saved[part_].of = Self
<1>1. PICK v : v = [of |-> Self, edition |-> edition + 1]
  OBVIOUS
<1>2. v \in Values
  BY <1>1, Constants DEF TypeInv, DetailsType, Values
<1>3. v # NoValue /\ v.of = Self
  BY <1>1 DEF NoValue, Self
<1>4. window.form \in [Parts -> Known]
  BY DEF TypeInv, DetailsType, Window, Known
<1>5. saved = [window.form EXCEPT ![part_] = v]
  BY <1>1
<1>6. saved \in [Parts -> Known]
  BY <1>2, <1>4, <1>5 DEF Known
<1> QED BY <1>3, <1>4, <1>5, <1>6

\* The upload has what was saved, and the time zone that the library has.
LEMMA SavedUpload ==
  ASSUME TypeInv, NEW saved \in [Parts -> Known]
  PROVE  /\ Uploaded(saved) \in [AllFields -> Known]
         /\ \A p \in Parts : Uploaded(saved)[p] = saved[p]
         /\ Uploaded(saved)["timezone"] = lib[Self]["timezone"]
<1>1. lib[Self] \in [AllFields -> Known]
  BY Constants DEF TypeInv, DetailsType
<1>2. Replacing(lib[Self], saved) \in [AllFields -> Known]
  BY <1>1, ReplacingType
<1> QED BY <1>2, Constants DEF Uploaded, Replacing

\* A save, connected or not, keeps the invariant.
LEMMA SaveOK == ASSUME RequestsInv, NEW part_ \in Parts, Save(part_) PROVE RequestsInv'
<1>1. PICK saved : saved = [window.form EXCEPT ![part_] = [of |-> Self, edition |-> edition + 1]]
  OBVIOUS
<1>2. PICK up : up = Uploaded(saved)
  OBVIOUS
<1>3. /\ edition < MaxSaves /\ edition' = edition + 1
      /\ UNCHANGED <<connected, open, requestid, cache, answers, made, collided, pending, panel, srv>>
  BY DEF Save, link
<1>4. IF connected
      THEN /\ asked' = asked \o UploadPackets(up)
           /\ lib' = [lib EXCEPT ![Self] = up]
           /\ doc' = Emitted(Self, up)
           /\ window' = [window EXCEPT !.form = saved, !.noticed = TRUE]
      ELSE /\ doc' = [doc EXCEPT ![Self] = saved]
           /\ window' = [window EXCEPT !.form = saved]
           /\ UNCHANGED <<asked, lib>>
  BY <1>1, <1>2 DEF Save
<1>5. careless' = careless
         \cup (IF (lib[Self].main = NoValue) # (lib[Self].about = NoValue) THEN {"partial"} ELSE {})
         \cup (IF window.noticed THEN {"stale"} ELSE {})
         \cup (IF lib[Self].timezone = NoValue THEN {"unread"} ELSE {})
  BY DEF Save
<1>6. crossed' = (crossed \/ ~connected \/ OwnDetailsComing)
  BY DEF Save
<1>7. /\ lib \in [Contacts -> [AllFields -> Known]] /\ doc \in [Contacts -> [Parts -> Known]]
      /\ window \in Window /\ edition \in 0..MaxSaves /\ asked \in Seq(Packet)
      /\ careless \subseteq {"partial", "stale", "unread"} /\ TypeInv
  BY DEF RequestsInv, TypeInv, TrafficType, DetailsType
<1>8. /\ saved \in [Parts -> Known]
      /\ \A p \in Parts : p # part_ => saved[p] = window.form[p]
      /\ saved[part_] # NoValue /\ saved[part_].of = Self
  BY <1>1, <1>3, <1>7, SavedForm
<1>9. /\ up \in [AllFields -> Known] /\ \A p \in Parts : up[p] = saved[p]
      /\ up["timezone"] = lib[Self]["timezone"]
  BY <1>2, <1>7, <1>8, SavedUpload
<1>10. /\ asked' \in Seq(Packet)
       /\ \A q \in Range(asked') : q \in Range(asked) \/ (q.kind = "Update" /\ q.values = up)
  <2>1. CASE connected
    <3>1. PICK u \in Seq(Packet) : u = UploadPackets(up) /\ \A q \in Range(u) : q.kind = "Update" /\ q.values = up
      BY <1>9, UploadType
    <3>2. asked' = asked \o u
      BY <1>4, <2>1, <3>1
    <3>3. Range(asked') \subseteq Range(asked) \cup Range(u)
      BY <1>7, <3>2, RangeConcat
    <3>4. asked' \in Seq(Packet)
      BY <1>7, <3>2, ConcatProperties
    <3> QED BY <3>1, <3>3, <3>4
  <2>2. CASE ~connected
    BY <1>4, <1>7, <2>2
  <2> QED BY <2>1, <2>2
<1>11. /\ doc' \in [Contacts -> [Parts -> Known]]
       /\ doc'[Self] = saved
       /\ \A c \in Others : doc'[c] = doc[c]
  <2>1. doc' = [doc EXCEPT ![Self] = saved]
    <3>1. [p \in Parts |-> up[p]] = saved
      BY <1>8, <1>9
    <3> QED BY <1>4, <3>1 DEF Emitted
  <2> QED BY <1>7, <1>8, <2>1, Constants
<1>12. /\ window' \in Window /\ window'.form = saved
       /\ IF connected THEN window'.noticed ELSE window'.noticed = window.noticed
  <2>1. saved \in [Parts -> Values \cup {NoValue}]
    BY <1>8 DEF Known
  <2> QED BY <1>4, <1>7, <2>1 DEF Window
<1>13. /\ lib' \in [Contacts -> [AllFields -> Known]]
       /\ lib'[Self] = IF connected THEN up ELSE lib[Self]
       /\ \A c \in Others : lib'[c] = lib[c]
  BY <1>4, <1>7, <1>9, Constants
<1>14. careless' \subseteq {"partial", "stale", "unread"} /\ careless \subseteq careless'
  BY <1>5, <1>7
<1>15. crossed' \in BOOLEAN /\ (~crossed' => ~crossed /\ connected /\ ~OwnDetailsComing)
  BY <1>6
<1>16. TypeInv'
  <2>1. edition' \in 0..MaxSaves
    BY <1>3, <1>7, Constants
  <2> QED BY <1>3, <1>10, <1>11, <1>12, <1>13, <1>14, <1>15, <2>1
          DEF RequestsInv, TypeInv, LinkType, TrafficType, DetailsType
<1>17. Infos' = Infos /\ \A q \in Updates' : q \in Updates \/ q.values = up
  BY <1>3, <1>10 DEF Infos, Updates
<1>18. TrafficOK'
  <2>1. ASSUME NEW q \in UnderWay' PROVE UnderWayOK(q)'
    <3>1. UnderWayOK(q)
      BY <1>3, <1>10 DEF UnderWay, RequestsInv, TrafficOK, UnderWayOK
    <3> QED BY <1>3, <3>1 DEF UnderWayOK, Age
  <2>2. ~connected' => asked' = <<>> /\ answers' = <<>>
    BY <1>3, <1>4 DEF RequestsInv, TrafficOK
  <2> QED BY <1>3, <2>1, <2>2 DEF RequestsInv, TrafficOK
<1>19. SearchesOK'
  BY <1>3, SearchesSame DEF RequestsInv
<1>20. OwnersOK'
  <2>1. ASSUME ~collided
        PROVE  /\ \A p \in Parts : Own(saved[p], Self)
               /\ \A f \in AllFields : Own(up[f], Self)
    <3>1. \A p \in Parts : Own(saved[p], Self)
      BY <1>8, <2>1 DEF RequestsInv, OwnersOK, Own
    <3>2. Own(lib[Self]["timezone"], Self)
      BY <2>1, Constants DEF RequestsInv, OwnersOK
    <3> QED BY <1>9, <3>1, <3>2 DEF AllFields
  <2>2. ASSUME ~collided, NEW c \in Contacts, NEW f \in AllFields PROVE Own(lib'[c][f], c)
    <3>1. CASE c = Self
      BY <1>13, <2>1, <2>2, <3>1 DEF RequestsInv, OwnersOK
    <3>2. CASE c \in Others
      BY <1>13, <2>2, <3>2 DEF RequestsInv, OwnersOK
    <3> QED BY <3>1, <3>2 DEF Contacts
  <2> QED BY <1>3, <1>11, <1>12, <1>17, <2>1, <2>2 DEF RequestsInv, OwnersOK
<1>21. ErasuresOK'
  <2>1. \A f : Excused(f) => Excused(f)'
    BY <1>14 DEF Excused
  <2>2. ASSUME NEW p \in Parts, saved[p] = NoValue PROVE Excused(p)'
    <3>1. p # part_ /\ window.form[p] = NoValue
      BY <1>8, <2>2
    <3>2. CASE window.noticed
      BY <1>5, <3>2, Constants DEF Excused
    <3>3. CASE ~window.noticed /\ Excused(p)
      BY <2>1, <3>3
    <3>4. CASE ~window.noticed /\ ~Excused(p)
      <4>1. lib[Self][p] = NoValue /\ \E r \in Parts : lib[Self][r] # NoValue
        BY <3>1, <3>4 DEF RequestsInv, ErasuresOK
      <4>2. (lib[Self].main = NoValue) # (lib[Self].about = NoValue)
        BY <4>1 DEF Parts
      <4>3. "partial" \in careless'
        BY <1>5, <4>2
      <4> QED BY <4>3, Constants DEF Excused
    <3> QED BY <3>2, <3>3, <3>4
  <2>3. ASSUME NEW f \in AllFields, up[f] = NoValue PROVE Excused(f)'
    <3>1. CASE f \in Parts
      BY <1>9, <2>2, <2>3, <3>1
    <3>2. CASE f = "timezone"
      BY <1>5, <1>9, <2>3, <3>2 DEF Excused
    <3> QED BY <3>1, <3>2 DEF AllFields
  <2>4. ~window'.noticed => window'.form = doc'[Self]
    BY <1>11, <1>12
  <2> QED BY <1>3, <1>11, <1>17, <2>1, <2>2, <2>3, <2>4 DEF RequestsInv, ErasuresOK
<1>22. OwnDetailsOK'
  <2>1. ASSUME ~crossed', ~collided', NEW p \in Parts
        PROVE  /\ Will(asked', srv'[Self], p, lib'[Self][p])
               /\ doc'[Self][p] = lib'[Self][p]
    <3>1. /\ asked' = asked \o UploadPackets(up) /\ srv' = srv
          /\ lib'[Self][p] = up[p] /\ doc'[Self][p] = up[p]
      BY <1>3, <1>4, <1>9, <1>11, <1>13, <1>15, <2>1
    <3>2. Will(asked \o UploadPackets(up), srv[Self], p, up[p])
      BY <1>7, <1>9, WillSave
    <3> QED BY <3>1, <3>2
  <2>2. ASSUME ~crossed' PROVE InOrder(asked') /\ \A a \in Infos' : a.of # Self
    <3>1. ~OwnDetailsComing
      BY <1>15, <2>2
    <3>2. \A a \in Infos' : a.of # Self
      BY <1>17, <3>1 DEF OwnDetailsComing, Infos, Range
    <3>3. \A q \in Range(asked) : ~OwnAsked(q)
      BY <3>1 DEF OwnDetailsComing, OwnAsked, Range
    <3>4. \A q \in Range(asked') : ~OwnAsked(q)
      BY <1>10, <3>3 DEF OwnAsked
    <3> QED BY <3>2, <3>4 DEF InOrder, Range
  <2> QED BY <2>1, <2>2 DEF OwnDetailsOK
<1> QED BY <1>16, <1>18, <1>19, <1>20, <1>21, <1>22 DEF RequestsInv

-----------------------------------------------------------------------------
(* The theorems.                                                           *)

\* The first state satisfies the invariant.
LEMMA RequestsInvInit == ASSUME RequestsInit PROVE RequestsInv
<1>1. TypeInv
  BY RequestsInitType
<1>2. Range(cache) = {} /\ Range(asked) = {} /\ Range(answers) = {} /\ DOMAIN cache = {} /\ DOMAIN asked = {}
  BY DEF RequestsInit, Range
<1>3. UnderWay = {} /\ Updates = {} /\ Infos = {}
  BY <1>2 DEF UnderWay, Updates, Infos
<1>4. TrafficOK
  BY <1>2, <1>3 DEF RequestsInit, TrafficOK
<1>5. SearchesOK
  <2>1. PendingIsCached
    BY <1>2 DEF RequestsInit, PendingIsCached
  <2> QED BY <1>2, <2>1 DEF RequestsInit, SearchesOK, ResultsAreCurrent
<1>6. ASSUME NEW c \in Contacts PROVE Original(c).of = c /\ Original(c) # NoValue
  BY <1>6, RequestsAssumption DEF Original, NoValue, Contacts, Self
<1>7. /\ \A c \in Contacts : \A f \in AllFields : srv[c][f] = Original(c) /\ lib[c][f] = NoValue
      /\ \A p \in Parts : doc[Self][p] = Original(Self)
      /\ window.form = doc[Self] /\ edition = 0
  BY Constants DEF RequestsInit
<1>8. OwnersOK
  BY <1>3, <1>6, <1>7, Constants DEF OwnersOK, Own
<1>9. ErasuresOK
  BY <1>3, <1>6, <1>7, Constants DEF ErasuresOK
<1>10. OwnDetailsOK
  <2>1. InOrder(asked)
    BY <1>2 DEF InOrder
  <2> QED BY <1>3, <1>7, <2>1, Constants DEF OwnDetailsOK
<1> QED BY <1>1, <1>4, <1>5, <1>8, <1>9, <1>10 DEF RequestsInv

\* Every step keeps the invariant.
LEMMA RequestsInvNext == ASSUME RequestsInv, [RequestsNext]_requestVars PROVE RequestsInv'
<1>1. CASE RequestsNext
  BY <1>1, StartFindOK, StopFindOK, RefreshInfoForContactOK, DoRetrieveOK, UserInfoChangedOK, SaveOK,
     ServerTakesOK, ServerIgnoresOK, ReceiveAnswerOK, ExpireEntryOK, ConnectOK, DisconnectOK, CloseOK,
     OtherLogsOutOK
     DEF RequestsNext
<1>2. CASE UNCHANGED requestVars
  <2>1. UNCHANGED <<link, traffic, pending, details>> /\ panel' = panel
    BY <1>2 DEF requestVars
  <2>2. panel.searching \in BOOLEAN /\ panel' = [panel EXCEPT !.searching = panel.searching]
    BY <2>1 DEF RequestsInv, TypeInv, Panel
  <2> QED BY <2>1, <2>2, PanelOK
<1> QED BY <1>1, <1>2

\* The invariant implies the property.
LEMMA AgreementFollows == ASSUME RequestsInv PROVE RequestsAgree
<1>1. PendingIsCached /\ ResultsAreCurrent
  BY DEF RequestsInv, SearchesOK
<1>2. DetailsAreTheirOwn
  BY DEF RequestsInv, OwnersOK, Own, DetailsAreTheirOwn
<1>3. NothingErased
  <2>1. ASSUME NEW p \in Parts, srv[Self][p] = NoValue PROVE careless \cap {"partial", "stale"} # {}
    BY <2>1, Constants DEF RequestsInv, ErasuresOK, Excused
  <2>2. ASSUME srv[Self]["timezone"] = NoValue PROVE "unread" \in careless
    BY <2>2, Constants DEF RequestsInv, ErasuresOK, Excused
  <2> QED BY <2>1, <2>2 DEF NothingErased
<1>4. OwnDetailsAgree
  <2>1. ASSUME asked = <<>>, ~crossed, ~collided, NEW p \in Parts
        PROVE  /\ lib[Self][p] \in {NoValue, srv[Self][p]}
               /\ edition > 0 => doc[Self][p] = srv[Self][p]
    <3>1. \A v : Will(asked, srv[Self], p, v) => srv[Self][p] = v
      BY <2>1 DEF Will
    <3> QED BY <2>1, <3>1 DEF RequestsInv, OwnDetailsOK
  <2> QED BY <2>1 DEF OwnDetailsAgree
<1> QED BY <1>1, <1>2, <1>3, <1>4 DEF RequestsAgree

\* The invariant implies the types.
LEMMA RequestsTypeFollows == ASSUME RequestsInv PROVE RequestsTypeOK
<1>1. TypeInv
  BY DEF RequestsInv
<1>2. {connected, open, collided, crossed} \subseteq BOOLEAN /\ requestid \in 0..IdSpace - 1
  BY <1>1 DEF TypeInv, LinkType, TrafficType, DetailsType, Ids
<1>3. \A i \in DOMAIN cache : cache[i].kind \in {"Search", "UserInfo"}
  <2>1. \A i \in DOMAIN cache : cache[i] \in Entry
    BY <1>1 DEF TypeInv, TrafficType
  <2> QED BY <2>1 DEF Entry
<1>4. \A c \in Contacts : \A f \in AllFields : {srv[c][f], lib[c][f]} \subseteq Values \cup {NoValue}
  BY <1>1 DEF TypeInv, DetailsType, Known
<1>5. \A c \in Contacts : \A p \in Parts : doc[c][p] \in Values \cup {NoValue}
  BY <1>1 DEF TypeInv, DetailsType, Known
<1> QED BY <1>1, <1>2, <1>3, <1>4, <1>5 DEF RequestsTypeOK, TypeInv, DetailsType

\* Answers reach who asked and about whom they asked, searches are remembered
\* exactly as long as they may be answered, the panel shows its own results only,
\* and the user's own details are the same in the library, the document and the
\* server, whatever order answers, expiries, saves and connections come in.
THEOREM RequestsAgreement == RequestsSpec => []RequestsAgree
<1>1. RequestsInit => RequestsInv
  BY RequestsInvInit
<1>2. RequestsInv /\ [RequestsNext]_requestVars => RequestsInv'
  BY RequestsInvNext
<1>3. RequestsInv => RequestsAgree
  BY AgreementFollows
<1> QED BY <1>1, <1>2, <1>3, PTL DEF RequestsSpec

\* The variables keep their types.
THEOREM RequestsTypeCorrect == RequestsSpec => []RequestsTypeOK
<1>1. RequestsInit => RequestsInv
  BY RequestsInvInit
<1>2. RequestsInv /\ [RequestsNext]_requestVars => RequestsInv'
  BY RequestsInvNext
<1>3. RequestsInv => RequestsTypeOK
  BY RequestsTypeFollows
<1> QED BY <1>1, <1>2, <1>3, PTL DEF RequestsSpec

\* A behaviour of the composed specification is one of each part.
THEOREM TrafficImplements == TrafficSpec => Spec /\ RequestsSpec
<1>1. TrafficInit => Init /\ RequestsInit
  BY DEF TrafficInit
<1>2. [TrafficNext]_<<vars, requestVars, part>> => [Next]_vars /\ [RequestsNext]_requestVars
  BY DEF TrafficNext
<1> QED BY <1>1, <1>2, PTL DEF TrafficSpec, Spec, RequestsSpec

\* Both properties hold of the specification that the run checks.
THEOREM TrafficAgrees == TrafficSpec => [](VerdictIsKnown /\ RequestsAgree)
BY TrafficImplements, VerdictKnown, RequestsAgreement, PTL
=============================================================================
