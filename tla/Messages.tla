------------------------------ MODULE Messages ------------------------------
(***************************************************************************)
(* A message from the window it is written in to the history it is shown   *)
(* in, and the acknowledgement on its way back: the text as the sender's   *)
(* application, the translator and the packet convert it, the parsing and  *)
(* the conversions at the other end, and what the receiver's library and   *)
(* application decide to do with it.  Sender and receiver run this         *)
(* program; the server hands over what only other programs send.           *)
(*                                                                         *)
(* One message is followed.  The receiver's status, contact list and       *)
(* settings change freely while it is under way, as other messages would   *)
(* change them.  A text is a sequence of code points; what is under way is *)
(* a sequence of bytes.                                                    *)
(***************************************************************************)
EXTENDS Integers, SequencesExt

CONSTANTS
    Texts,      \* what users write, sequences of code points
    Aliases,    \* the sender's alias, as the server returned its bytes
    CodePage    \* the 8-bit encoding both users chose: bytes of code points

ASSUME MessagesAssumption ==
    /\ \A t \in Texts : \A i \in DOMAIN t : t[i] \in 1 .. 1114111
    /\ \A c \in DOMAIN CodePage : c > 127 /\ CodePage[c] \in 128 .. 255
    /\ IsInjective(CodePage)

Statuses == {"Online", "Away", "Occupied", "DND"}    \* those the code tells apart, and one
Kinds == {"Normal", "URL", "AuthReq", "AuthAcc", "AuthRej", "UserAdd", "Away", "Contacts",
          "SMS", "EmailEx", "WebPager"}
Nothing == [kind |-> "Nothing"]

VARIABLES
    order,      \* which operand of | the build evaluates first, "left" or "right"
    letter,     \* what the sender's user wrote, at first Nothing
    event,      \* the sender's event, Nothing when it was deleted
    waiting,    \* the event is in m_cookiecache
    told,       \* what the sender's application was told of it
    wire, acks, \* packets and acknowledgements under way
    status,     \* the receiver's own status, at both library and document
    listed, ignored,  \* the sender is on the receiver's list, and to be ignored
    strangers,  \* ICJIgnoreIfNotOnListSettingName is off
    history,    \* messages added to the sender's entry and its history
    arrived     \* the packets that arrived: <<advanced, verdict>>

sender == <<letter, event, waiting, told>>
receiver == <<listed, ignored, strangers, history>>
vars == <<order, sender, wire, acks, status, receiver, arrived>>

-----------------------------------------------------------------------------
(* Text.                                                                   *)

LF == 10
CR == 13
Separator == 254    \* 0xfe, a letter in some code pages

\* cStringWithEncoding: and stringWithCString:encoding:
ToBytes(text) ==
    [i \in DOMAIN text |-> IF text[i] < 128 THEN text[i]
                           ELSE IF text[i] \in DOMAIN CodePage THEN CodePage[text[i]]
                           ELSE 63]
FromBytes(bytes) ==
    [i \in DOMAIN bytes |-> IF bytes[i] < 128 THEN bytes[i]
                            ELSE IF bytes[i] \in Range(CodePage) THEN Inverse(CodePage, DOMAIN CodePage, Range(CodePage))[bytes[i]]
                            ELSE 65533]

\* UTF8String and stringWithUTF8String:
ToUTF8(text) ==
    LET More(c, n) == [k \in 1 .. n |-> 128 + ((c \div 64 ^ (n - k)) % 64)]
        Char(c) == CASE c < 128   -> <<c>>
                     [] c \in 128 .. 2047 -> <<192 + c \div 64>> \o More(c, 1)
                     [] c \in 2048 .. 65535 -> <<224 + c \div 4096>> \o More(c, 2)
                     [] OTHER     -> <<240 + c \div 262144>> \o More(c, 3)
    IN  FlattenSeq([i \in DOMAIN text |-> Char(text[i])])
FromUTF8(bytes) ==
    LET Add(text, b) ==
            IF b \in 128 .. 191 THEN [text EXCEPT ![Len(text)] = @ * 64 + (b % 64)]
            ELSE Append(text, CASE b < 128 -> b [] b \in 192 .. 223 -> b % 32
                                [] b \in 224 .. 239 -> b % 16 [] OTHER -> b % 8)
    IN  FoldLeft(Add, <<>>, bytes)

\* CRLFTranslator, on bytes of whatever encoding
ClientToServer(s) ==
    FlattenSeq([i \in DOMAIN s |-> IF s[i] = LF THEN <<CR, LF>> ELSE <<s[i]>>])
ServerToClient(s) ==
    LET Dropped(i) == s[i] = CR /\ i < Len(s) /\ s[i + 1] = LF
    IN  FlattenSeq([i \in DOMAIN s |-> IF Dropped(i) THEN <<>> ELSE <<s[i]>>])

\* The loop that turns the UTF-8 of a message into UCS-2.  It takes any byte
\* from 0xe0 on for the first of three.  Its operands advance the index and
\* are not sequenced; evaluated from the right, the last byte gets the index
\* first.  A byte past the end reads as the terminating NUL.
UTF8ToUCS2(s) ==
    LET At(i) == IF i <= Len(s) THEN s[i] ELSE 0
        Low(i, j) == IF order = "left" THEN At(i) ELSE At(j)
        Two(i) == (Low(i, i + 1) % 32) * 64 + (Low(i + 1, i) % 64)
        Three(i) == (Low(i, i + 2) % 16) * 4096 + (At(i + 1) % 64) * 64 + (Low(i + 2, i) % 64)
        units[i \in 1 .. Len(s) + 3] ==
            CASE i > Len(s) -> <<>>
              [] At(i) < 128 -> <<At(i)>> \o units[i + 1]
              [] At(i) \in 128 .. 223 -> <<Two(i)>> \o units[i + 2]
              [] OTHER -> <<Three(i)>> \o units[i + 3]
    IN  units[1]
UCS2Bytes(units) ==
    FlattenSeq([i \in DOMAIN units |-> <<units[i] \div 256, units[i] % 256>>])
FromUCS2(bytes) ==
    [i \in 1 .. Len(bytes) \div 2 |-> bytes[2 * i - 1] * 256 + bytes[2 * i]]

-----------------------------------------------------------------------------
(* The bodies of the packets.                                              *)

Join(fields) ==
    FlattenSeq([i \in DOMAIN fields |->
        IF i < Len(fields) THEN Append(fields[i], Separator) ELSE fields[i]])

\* string_split: the fields between separators, none after a last separator,
\* and blank ones up to count
StringSplit(s, count) ==
    LET Add(fields, b) == IF b = Separator THEN Append(fields, <<>>)
                          ELSE [fields EXCEPT ![Len(fields)] = Append(@, b)]
        all == FoldLeft(Add, <<<<>>>>, s)
        fields == IF Last(all) = <<>> THEN Front(all) ELSE all
    IN  fields \o [k \in 1 .. Max({0, count - Len(fields)}) |-> <<>>]

Blank == <<>>
URL == <<97>>
ContactList == <<<<49>>, <<50>>, <<97>>, Blank>>   \* one contact
Details(ev) == <<ev.alias, Blank, Blank, Blank, <<49>>>>

\* The events sendMessage: makes of what was written
Event(l, utf8) ==
    LET Encoded(text, encoding) ==
            [kind |-> l.kind, text |-> text, encoding |-> encoding, alias |-> l.alias,
             urgent |-> l.urgent, toContactList |-> l.toContactList]
    IN  IF l.kind = "Normal" /\ utf8 THEN Encoded(ToUTF8(l.text), "UTF8")
        ELSE Encoded(ToBytes(l.text), "unspecified")

\* EventToUINICQSubType and the OutputBodyUIN of each type
Fields(ev) ==
    LET text == ClientToServer(ev.text)
    IN  CASE ev.kind \in {"Normal", "AuthRej"} -> <<text>>
          [] ev.kind = "URL" -> <<text, URL>>
          [] ev.kind = "AuthReq" -> Append(Details(ev), text)
          [] ev.kind = "UserAdd" -> Append(Details(ev), Blank)
          [] ev.kind = "Contacts" -> ContactList
          [] OTHER -> <<Blank>>

\* UINICQSubType: the priority of an advanced message
Priority(ev) ==
    IF ev.toContactList THEN "to_contact_list" ELSE IF ev.urgent THEN "urgent" ELSE "normal"

AdvancedPacket(ev) ==
    [advanced |-> TRUE, kind |-> ev.kind, priority |-> Priority(ev),
     encoding |-> ev.encoding, body |-> Join(Fields(ev))]

\* A plain packet has no priority.  UTF-8 goes as UCS-2, for nothing else has
\* a place to say what it is.
PlainPacket(ev) ==
    LET body == Join(Fields(ev))
        ucs2 == ev.encoding = "UTF8"
    IN  [advanced |-> FALSE, kind |-> ev.kind, priority |-> "none",
         encoding |-> IF ucs2 THEN "UCS2" ELSE "unspecified",
         body |-> IF ucs2 THEN UCS2Bytes(UTF8ToUCS2(body)) ELSE body]

\* ParseBodyUIN of each type, and ParseBody of those without a UIN: the bytes
\* of the text and of the URL
URLFields(p) ==
    LET l == SelectInSeq(p.body, LAMBDA b : b = Separator)
    IN  IF l = 0 THEN <<p.body, Blank>>
        ELSE <<SubSeq(p.body, 1, l - 1), SubSeq(p.body, l + 1, Len(p.body))>>
ParsedText(p) ==
    CASE p.kind \in {"Normal", "AuthRej", "SMS"} -> p.body
      [] p.kind = "URL" -> URLFields(p)[1]
      [] p.kind \in {"AuthReq", "EmailEx", "WebPager"} -> StringSplit(p.body, 6)[6]
      [] OTHER -> Blank

\* Mutant: no translator at the receiving end.
DecodedUntranslated(p) ==
    CASE p.encoding = "UCS2" -> FromUCS2(ParsedText(p))
      [] p.encoding = "UTF8" -> FromUTF8(ParsedText(p))
      [] OTHER -> FromBytes(ParsedText(p))

\* message_cb: the text as the application decodes it
Decoded(p) ==
    LET s == IF p.kind = "SMS" THEN ParsedText(p) ELSE ServerToClient(ParsedText(p))
    IN  CASE p.encoding = "UCS2" -> FromUCS2(s)
          [] p.encoding = "UTF8" -> FromUTF8(s)
          [] OTHER -> FromBytes(s)

-----------------------------------------------------------------------------
(* The sender.                                                             *)

Init ==
    /\ order \in {"left", "right"}
    /\ letter = Nothing /\ event = Nothing /\ waiting = FALSE /\ told = "nothing"
    /\ wire = {} /\ acks = {}
    /\ status \in Statuses
    /\ listed \in BOOLEAN /\ ignored \in BOOLEAN /\ strangers \in BOOLEAN
    /\ history = <<>> /\ arrived = {}

\* SendViaServerNormal: reported delivered as soon as it is sent.  For a kind
\* that has no plain form the packet has neither channel nor body, and no one
\* understands it.
SendNormal(ev) ==
    /\ wire' = IF ev.kind \in {"Away", "Contacts"} THEN wire ELSE wire \cup {PlainPacket(ev)}
    /\ told' = "sent"
    /\ event' = Nothing /\ waiting' = FALSE

SendAdvanced(ev) ==
    /\ wire' = wire \cup {AdvancedPacket(ev)}
    /\ event' = ev /\ waiting' = TRUE
    /\ UNCHANGED told

\* SendViaServer.  relay: the contact accepts advanced messages and the
\* message has no other recipient; utf8: it has the UTF-8 capability.
SendViaServer(ev, relay) ==
    \/ /\ relay /\ ev.kind \in {"Normal", "URL", "Contacts", "Away"}
       /\ SendAdvanced(ev)
    \/ /\ ~relay /\ ev.kind = "Away"
       /\ told' = "refused"
       /\ UNCHANGED <<event, waiting, wire>>
    \/ /\ ~(relay /\ ev.kind \in {"Normal", "URL", "Contacts"}) /\ ev.kind # "Away"
       /\ SendNormal(ev)

\* Only ordinary messages carry text and the user's flags.
Letters ==
    [kind : {"Normal"}, text : Texts, urgent : BOOLEAN, toContactList : BOOLEAN, alias : {Blank}]
    \cup [kind : {"URL"}, text : Texts, urgent : {FALSE}, toContactList : {FALSE}, alias : {Blank}]
    \cup [kind : {"AuthReq"}, text : Texts, urgent : {FALSE}, toContactList : {FALSE}, alias : Aliases]
    \cup [kind : {"UserAdd"}, text : {Blank}, urgent : {FALSE}, toContactList : {FALSE}, alias : Aliases]
    \cup [kind : {"AuthAcc", "AuthRej", "Away", "Contacts"}, text : {Blank},
          urgent : {FALSE}, toContactList : {FALSE}, alias : {Blank}]

Send(l, relay, utf8) ==
    /\ letter = Nothing /\ letter' = l
    /\ SendViaServer(Event(l, utf8), relay)
    /\ UNCHANGED <<order, acks, status, receiver, arrived>>

\* What the server makes of a mail, a page or an SMS: plain, in its own
\* name; no application of ours is told of it.
ServerSends(kind, text) ==
    /\ letter = Nothing
    /\ letter' = [kind |-> kind, text |-> text, urgent |-> FALSE, toContactList |-> FALSE, alias |-> Blank]
    /\ wire' = {[advanced |-> FALSE, kind |-> kind, priority |-> "none", encoding |-> "unspecified",
                 body |-> IF kind = "SMS" THEN ToBytes(text)
                          ELSE Join(<<Blank, Blank, Blank, Blank, Blank, ToBytes(text)>>)]}
    /\ UNCHANGED <<order, event, waiting, told, acks, status, receiver, arrived>>

\* The cookie expires: the event is sent again, plain.
Expire ==
    /\ waiting
    /\ SendNormal(event)
    /\ UNCHANGED <<order, letter, acks, status, receiver, arrived>>

\* Mutant: the event is deleted and its cookie kept.
ReceiveAckKeepingCookie(a) ==
    /\ a \in acks /\ acks' = acks \ {a}
    /\ told' = (IF waiting THEN a ELSE told) /\ event' = Nothing
    /\ UNCHANGED <<order, letter, waiting, wire, status, receiver, arrived>>

\* handleIncomingACK, for the types SignalMessageACK knows
ReceiveAck(a) ==
    /\ a \in acks /\ acks' = acks \ {a}
    /\ IF waiting /\ event.kind # "Contacts"
       THEN /\ told' = IF event.kind = "Away" THEN "accepted" ELSE a
            /\ waiting' = FALSE /\ event' = Nothing
       ELSE UNCHANGED <<told, waiting, event>>
    /\ UNCHANGED <<order, letter, wire, status, receiver, arrived>>

\* An advanced message or an acknowledgement that goes down with a
\* connection, or was for a user who has left.  The server stores plain ones.
Lose ==
    /\ \/ \E p \in wire : p.advanced /\ wire' = wire \ {p} /\ UNCHANGED acks
       \/ \E a \in acks : acks' = acks \ {a} /\ UNCHANGED wire
    /\ UNCHANGED <<order, sender, status, receiver, arrived>>

-----------------------------------------------------------------------------
(* The receiver.                                                           *)

Busy == status \in {"Occupied", "DND"}
IsICQMessage(kind) == kind \notin {"SMS", "EmailEx", "WebPager"}

\* handleIncoming: plain messages are marked so that they are not turned down.
Incoming(p) ==
    [kind |-> p.kind, advanced |-> p.advanced, encoding |-> p.encoding, text |-> Decoded(p),
     url |-> IF p.kind = "URL" THEN FromBytes(ServerToClient(URLFields(p)[2])) ELSE Blank,
     urgent |-> p.priority = "urgent",
     toContactList |-> \/ p.priority = "to_contact_list"
                       \/ ~p.advanced /\ IsICQMessage(p.kind) /\ Busy]

\* message_cb makes no message of the other kinds; a request for the status
\* message does not come to it.
HasMessage(kind) == kind \notin {"Away", "Contacts", "EmailEx", "WebPager"}

\* acceptsMessagesFromContact:
Accepts(m) ==
    \/ m.kind \in {"AuthAcc", "AuthRej"}
    \/ IF listed THEN ~ignored ELSE strangers

Blocks(m) == Busy /\ ~m.urgent /\ ~m.toContactList

\* Mutant: the message is added before it is turned down.
ReceivedMessageAddingFirst(m, verdict) ==
    /\ \/ verdict = "ignored" /\ ~Accepts(m) /\ UNCHANGED <<listed, history>>
       \/ /\ Accepts(m) /\ verdict = IF Blocks(m) THEN "refused" ELSE "accepted"
          /\ listed' = TRUE /\ history' = Append(history, m)
    /\ UNCHANGED <<ignored, strangers>>

\* receivedMessage: sets the verdict
ReceivedMessage(m, verdict) ==
    \/ /\ verdict = "ignored" /\ ~Accepts(m)
       /\ UNCHANGED receiver
    \/ /\ verdict = "refused" /\ Accepts(m) /\ Blocks(m)
       /\ UNCHANGED receiver
    \/ /\ verdict = "accepted" /\ Accepts(m) /\ ~Blocks(m)
       /\ listed' = TRUE /\ history' = Append(history, m)
       /\ UNCHANGED <<ignored, strangers>>

\* The verdict on a message that the application makes nothing of stays
\* delivered.  Only an advanced message that was not ignored is acknowledged.
Receive(p) ==
    /\ p \in wire /\ wire' = wire \ {p}
    /\ \E verdict \in {"accepted", "refused", "ignored"} :
          /\ \/ HasMessage(p.kind) /\ ReceivedMessage(Incoming(p), verdict)
             \/ ~HasMessage(p.kind) /\ verdict = "accepted" /\ UNCHANGED receiver
          /\ acks' = IF p.advanced /\ verdict # "ignored" THEN acks \cup {verdict} ELSE acks
          /\ arrived' = arrived \cup {<<p.advanced, verdict>>}
    /\ UNCHANGED <<order, sender, status>>

\* The server confirms another status, or the connection ends.
StatusChanges ==
    /\ status' \in Statuses \ {status}
    /\ UNCHANGED <<order, sender, wire, acks, receiver, arrived>>

\* The user adds or deletes the sender, ignores them, or changes the setting.
UserEdits ==
    /\ \/ listed' = ~listed /\ UNCHANGED <<ignored, strangers>>
       \/ ignored' = ~ignored /\ UNCHANGED <<listed, strangers>>
       \/ strangers' = ~strangers /\ UNCHANGED <<listed, ignored>>
    /\ UNCHANGED <<order, sender, wire, acks, status, history, arrived>>

Next ==
    \/ \E l \in Letters, relay, utf8 \in BOOLEAN : Send(l, relay, utf8)
    \/ \E kind \in {"SMS", "EmailEx", "WebPager"}, text \in Texts : ServerSends(kind, text)
    \/ Expire
    \/ \E a \in acks : ReceiveAck(a)
    \/ Lose
    \/ \E p \in wire : Receive(p)
    \/ StatusChanges
    \/ UserEdits

Spec == Init /\ [][Next]_vars

-----------------------------------------------------------------------------
(* Properties.                                                             *)

TypeOK ==
    /\ letter = Nothing \/ letter.kind \in Kinds
    /\ waiting <=> event # Nothing
    /\ told \in {"nothing", "sent", "accepted", "refused"}
    /\ acks \subseteq {"accepted", "refused"}
    /\ \A p \in wire : p.kind = letter.kind /\ \A i \in DOMAIN p.body : p.body[i] \in 0 .. 255
    /\ status \in Statuses /\ {listed, ignored, strangers} \subseteq BOOLEAN
    /\ arrived \subseteq BOOLEAN \X {"accepted", "refused", "ignored"}
    /\ Len(history) <= 2

\* A text that comes out as it went in.  What an 8-bit encoding lacks becomes
\* a question mark; the separator of the fields is a letter in some code
\* pages; UCS-2 has no place for a surrogate pair and is only right if the
\* build evaluates from the left, and the translator drops the first of two
\* bytes that happen to be those of CR LF.
EightBit(text) == \A i \in DOMAIN text : text[i] < 128 \/ text[i] \in DOMAIN CodePage
HasSeparator(bytes) == \E i \in DOMAIN bytes : bytes[i] = Separator
Survives(l, m) ==
    \/ /\ EightBit(l.text)
       /\ l.kind = "SMS" => \A i \in DOMAIN l.text : l.text[i] < 128
       /\ l.kind \in {"URL", "AuthReq"} => ~HasSeparator(ToBytes(l.text)) /\ ~HasSeparator(l.alias)
       /\ l.kind # "Normal" \/ m.encoding = "unspecified"
    \/ m.encoding = "UTF8"
    \/ /\ m.encoding = "UCS2" /\ order = "left"
       /\ \A i \in DOMAIN l.text : l.text[i] < 65536
       /\ LET s == UCS2Bytes(l.text)
          IN  \A i \in 1 .. Len(s) - 1 : ~(s[i] = CR /\ s[i + 1] = LF)

\* UCS-2 keeps the CR that the sender's translator added.
Expected(l, m) == IF m.encoding = "UCS2" THEN ClientToServer(l.text) ELSE l.text

\* What the receiver's history shows is what the sender wrote: the kind of
\* the message, its text, and, of an advanced message, the flags, of which
\* the packet holds one.
ShownAsWritten ==
    \A i \in DOMAIN history :
        LET m == history[i] IN
        /\ m.kind = letter.kind
        /\ Survives(letter, m) => m.text = Expected(letter, m)
        /\ Survives(letter, m) /\ m.kind = "URL" => m.url = URL
        /\ m.advanced => /\ m.toContactList = letter.toContactList
                         /\ m.urgent = (letter.urgent /\ ~letter.toContactList)

\* A message that the sender was told was delivered, and of which nothing is
\* under way, is in the receiver's history, unless the receiver ignores the
\* sender or the application makes nothing of it.  Plain messages cannot be
\* turned down (MessageHandler.cpp:69-71); an authorization is not ignored.
DeliveredIsShown ==
    told \in {"sent", "accepted"} /\ wire = {} /\ HasMessage(letter.kind) =>
        \/ history # <<>>
        \/ letter.kind \notin {"AuthAcc", "AuthRej"} /\ \E a \in arrived : a[2] = "ignored"

\* A message that the sender was told was turned down, and is offered to send
\* again as urgent, has not been shown and will not be.
RefusedIsNotShown == told = "refused" => history = <<>> /\ wire = {}

\* What is urgent or goes to the contact list is not turned down.
PriorityGetsThrough ==
    told = "refused" /\ letter.kind = "Normal" => ~letter.urgent /\ ~letter.toContactList

\* An ignored sender is not told so, nor that the message was read: only the
\* expiry of the cookie answers.
IgnoredHearNothing ==
    <<TRUE, "ignored">> \in arrived => acks = {} /\ told \in {"nothing", "sent"}

\* What the sender is told of a message is what has become of it.
VerdictIsKnown ==
    DeliveredIsShown /\ RefusedIsNotShown /\ PriorityGetsThrough /\ IgnoredHearNothing
=============================================================================
