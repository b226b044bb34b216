------------------------------ MODULE Exchange -------------------------------
(***************************************************************************)
(* Two clients, a and b, and the bytes that reach them: the login of a,    *)
(* and what a sends to b once both are logged in.  The server is external: *)
(* it is known from what the clients write and expect.  A socket gives any *)
(* part of the bytes that are on their way.                                *)
(***************************************************************************)
EXTENDS Responses, Bitwise

CONSTANTS
    Letters,    \* messages, records of the fields their packets hold
    Texts,      \* SMS messages that b sends, records that SrvSend takes
    SMSReports, \* what the server tells of an SMS: responses, receipts, messages
    Statuses,   \* records that SetStatus takes
    Lists,      \* server's lists, sequences of entries
    Verdicts,   \* how b answers a message: AcceptStatus and status message
    Portions,   \* the bytes a socket may give when it does not give all
    MaxPackets, \* bound on what a sends
    MaxCuts     \* bound on the reads that do not get all

Users == {"a", "b"}
Others == {"server", "phone"}
UIN == [a |-> 12, b |-> 305]
Password == <<105, 99, 121>>
XORtable == <<243, 38, 129, 196, 57, 134, 219, 146, 113, 163, 185, 230, 83, 122, 149, 124>>
AuthorizerPort == 5190

\* What the servers may answer to a login: where to go with a cookie, or an
\* error.
Replies == {[host |-> <<104>>, port |-> 0, cookie |-> <<7, 0, 9>>],
            [host |-> <<104, 46>>, port |-> 5191, cookie |-> <<>>],
            [error |-> 5], [error |-> 24], [error |-> 99]}
Reason == (1 :> "bad user name") @@ (2 :> "turboing") @@ (3 :> "bad password")
          @@ (5 :> "mismatched password") @@ (24 :> "turboing")

VARIABLES
    phase,      \* of a: m_state
    reply,      \* what the server answered to the login
    login,      \* what the server has learnt of a: uin, password, cookie
    result,     \* of the login: m_bosHostname and m_bosPort, or a reason
    stream,     \* what is on its way to each user
    recv,       \* m_recv of each
    sent,       \* what each is to hear
    heard,      \* what each has heard
    server,     \* what the server has of a: types that it passes on
    announced,  \* the last status of a; of it the last with a LAN address; and
                \* whether its capabilities are told
    contact,    \* b's entry of a
    left,       \* some frame was not eaten to its end
    posted,     \* how many packets a has sent
    cuts        \* how many reads did not get all

xvars == <<phase, reply, login, result, stream, recv, sent, heard, server, announced, contact,
           left, posted, cuts>>

None == [none |-> TRUE]
Nobody == [status |-> "Offline", invisible |-> FALSE, lanip |-> 0, lanport |-> 0, capabilities |-> {}]

ExchangeInit ==
    /\ phase \in {"AUTH_AWAITING_CONN_ACK", "BOS_LOGGED_IN"}
    /\ reply = None /\ result = None /\ login = None
    /\ stream = [u \in Users |-> <<>>] /\ recv = stream
    /\ sent = [u \in Users \cup Others |-> <<>>] /\ heard = sent
    /\ server = [status |-> <<>>, lan |-> <<>>, caps |-> <<>>]
    /\ announced = [status |-> None, lan |-> None, caps |-> FALSE]
    /\ contact = Nobody
    /\ left = FALSE /\ posted = 0 /\ cuts = 0

\* The server's bytes for u, and what u is to hear by them.
Tell(u, bytes, what) ==
    /\ stream' = [stream EXCEPT ![u] = @ \o bytes]
    /\ sent' = [sent EXCEPT ![u] = @ \o what]
FromServer(family, subtype, body) == FLAP(2, 0, SNAC(family, subtype, 0, body))

-----------------------------------------------------------------------------
(* The server.                                                             *)

UserInfo(record) ==
    PackByteString(UINtoString(UIN.a)) \o Zeros(2)
    \o Short(2 + Cardinality({f \in DOMAIN record : record[f] # <<>>}), FALSE)
    \o Short(1, FALSE) \o Short(2, FALSE) \o Short(80, FALSE)
    \o record.status \o record.lan \o record.caps
    \o Short(10, FALSE) \o Short(4, FALSE) \o Long(77, FALSE)
\* A packet for another user begins with ten bytes and a name, whose place
\* the sender's takes.
Relay(body, sender) == SubSeq(body, 1, 10) \o sender \o SubSeq(body, 12 + body[11], Len(body))

Connected(conn) ==
    /\ phase = conn
    /\ stream["a"] = <<>> /\ recv["a"] = <<>>
    /\ stream' = [stream EXCEPT !["a"] = FLAP(1, 0, Long(1, FALSE))]
    /\ UNCHANGED <<phase, reply, login, result, recv, sent, heard, server, announced, contact,
                   left, posted, cuts>>

\* The host and its port, if it says one, or an error
TLVof(type, bytes) == Short(type, FALSE) \o PackString(bytes, FALSE)
ReplyTo(r) ==
    /\ phase = "AUTH_AWAITING_AUTH_REPLY" /\ reply = None
    /\ LET place == IF r.port = 0 THEN r.host ELSE r.host \o <<58>> \o UINtoString(r.port)
       IN  stream' = [stream EXCEPT !["a"] = @ \o FLAP(4, 0, TLVof(1, UINtoString(UIN.a)) \o
               IF "error" \in DOMAIN r THEN TLVof(8, Short(r.error, FALSE))
               ELSE TLVof(5, place) \o TLVof(6, r.cookie))]
    /\ reply' = r
    /\ UNCHANGED <<phase, login, result, recv, sent, heard, server, announced, contact, left, posted,
                   cuts>>

TellList(list) ==
    LET groups(n) == {list[i].group : i \in {j \in 1 .. n : list[j].uin = 0}}
        inOrder == \A i \in DOMAIN list : list[i].uin > 0 => list[i].group \in groups(i)
        tree == {<<e.uin, e.alias, e.group>> : e \in {x \in ToSet(list) : x.uin > 0}}
    IN  /\ phase = "BOS_LOGGED_IN" /\ posted < MaxPackets
        /\ Tell("b", FromServer(19, 6, <<0>> \o Short(Len(list), FALSE)
                        \o FlattenSeq([i \in DOMAIN list |-> AddEntry(list[i])]) \o Zeros(4)),
                IF inOrder THEN <<[tree |-> tree]>> ELSE <<>>)
        /\ posted' = posted + 1
        /\ UNCHANGED <<phase, reply, login, result, recv, heard, server, announced, contact, left, cuts>>

-----------------------------------------------------------------------------
(* What a sends.                                                           *)

\* SendViaServerAdvanced and SendViaServerNormal.  Who is offline is named to
\* the sender of an advanced message.
Send(m, adv, offline) ==
    LET n == posted + 1
        letter == [to |-> UIN.b, from |-> UIN.a, cookie |-> <<n, 7 * n>>, seqnum |-> n] @@ m
        body == IF adv THEN AdvancedMessage(letter) ELSE PlainMessage(letter)
    IN  /\ phase = "BOS_LOGGED_IN" /\ posted < MaxPackets
        /\ posted' = n
        /\ IF offline
           THEN Tell("a", FromServer(4, 12, SubSeq(body, 1, 10) \o PackByteString(UINtoString(UIN.b))),
                     <<>>)
           ELSE Tell("b", FromServer(4, 7, Relay(body, UserInfo(server))),
                     <<IF adv THEN [cookie |-> letter.cookie, seqnum |-> n] @@ m ELSE m>>)
        /\ UNCHANGED <<phase, reply, login, result, recv, heard, server, announced, contact, left, cuts>>
SendAdvanced == \E m \in Letters, offline \in BOOLEAN : m.adv /\ Send(m, TRUE, offline)
SendNormal == \E m \in Letters : ~m.adv /\ Send(m, FALSE, FALSE)

\* The application sends no notices of typing; other clients do.
SendTyping(flags) ==
    /\ phase = "BOS_LOGGED_IN" /\ posted < MaxPackets
    /\ posted' = posted + 1
    /\ Tell("b", FromServer(4, 20, Relay(TypingIndicator(UIN.b, flags), PackByteString(UINtoString(UIN.a)))),
            <<[typing |-> flags]>>)
    /\ UNCHANGED <<phase, reply, login, result, recv, heard, server, announced, contact, left, cuts>>

\* setStatus and SendLogin: the server keeps the status and the address
SendStatus(s) ==
    LET body == SetStatus(s)
        record == [server EXCEPT !.status = SubSeq(body, 1, 8),
                                 !.lan = IF s.extra THEN SubSeq(body, 15, Len(body)) ELSE @]
    IN  /\ phase = "BOS_LOGGED_IN" /\ posted < MaxPackets
        /\ posted' = posted + 1
        /\ server' = record
        /\ announced' = [announced EXCEPT !.status = s, !.lan = IF s.extra THEN s ELSE @]
        /\ Tell("b", FromServer(3, 11, UserInfo(record)), <<>>)
        /\ UNCHANGED <<phase, reply, login, result, recv, heard, contact, left, cuts>>
SendSetUserInfo ==
    LET record == [server EXCEPT !.caps = Short(13, FALSE) \o SubSeq(SetUserInfo, 3, Len(SetUserInfo))]
    IN  /\ phase = "BOS_LOGGED_IN" /\ posted < MaxPackets
        /\ posted' = posted + 1
        /\ server' = record
        /\ announced' = [announced EXCEPT !.caps = TRUE]
        /\ IF announced.status = None THEN UNCHANGED <<stream, sent>>
           ELSE Tell("b", FromServer(3, 11, UserInfo(record)), <<>>)
        /\ UNCHANGED <<phase, reply, login, result, recv, heard, contact, left, cuts>>

-----------------------------------------------------------------------------
(* What b and the server's extensions tell each other.                     *)

\* The server's side of a request
RequestLayout ==
    <<<<"advance", 4>>, <<"little endian", TRUE>>, <<"short", "size">>, <<"long", "uin">>,
      <<"short", "command">>, <<"short", "id">>>>
Reads(bytes) ==
    LET r == Read(Reader(bytes), RequestLayout)
        s == Read(Advance(r, 24), <<<<"little endian", FALSE>>, <<"text", "xml">>>>)
        top == Parse(s.v["xml"], 1).node
        SMS == Leaves(top, {"destination", "text", "senders_name"})
                 @@ [receipt |-> Leaves(top, {"delivery_receipt"}) = [delivery_receipt |-> Yes]]
    IN  (IF r.v["command"] = 2000 /\ ~BeforeEnd(s) THEN SMS ELSE <<>>)
        @@ [f \in {"uin", "command", "id"} |-> r.v[f]] @@ [whole |-> r.v["size"] + 6 = Len(bytes)]
Requested(what, command, id) ==
    [uin |-> UIN.b, command |-> command, id |-> id, whole |-> TRUE] @@ what
Answer(id, command, body) ==
    FLAP(2, 0, SNAC(21, 3, id, Short(1, FALSE)
        \o Sized(FALSE, Sized(TRUE, Long(UIN.b, TRUE) \o Short(command, TRUE) \o Short(id, TRUE) \o body))))

\* SendViaServer, with an SMS; a telephone gets it
SendSMS(m) ==
    LET id == posted + 1
    IN  /\ phase = "BOS_LOGGED_IN" /\ posted < MaxPackets
        /\ posted' = id
        /\ sent' = [sent EXCEPT !["phone"] = Append(@, Requested(m, 2000, id))]
        /\ heard' = [heard EXCEPT !["phone"] = Append(@, Reads(SrvSend(m @@ [uin |-> UIN.b], id)))]
        /\ UNCHANGED <<phase, reply, login, result, stream, recv, server, announced, contact, left, cuts>>

\* A report m of an SMS: its text, and the fields that are to be heard
Element(tag, names, m) ==
    Branch(Tag[tag], [i \in DOMAIN names |-> Leaf(Tag[names[i]], m[names[i]])])
Flagged(b) == IF b THEN Yes ELSE No
ResponseXml(m) ==
    LET given == Element("sms_response", SetToSeq(DOMAIN m \cap {"network", "message_id", "from", "to"}), m)
        failure == Branch(Tag["error"],
                       <<Leaf(Tag["id"], UINtoString(m.error)),
                         Branch(Tag["params"], <<Leaf(Tag["param"], m.param)>>)>>)
        word == IF m.smtp THEN SMTP ELSE Flagged(m.deliverable)
    IN  [given EXCEPT !.children =
            <<Leaf(Tag["deliverable"], word)>> \o @ \o IF "error" \in DOMAIN m THEN <<failure>> ELSE <<>>]
ReportXml(m) ==
    IF "delivered" \in DOMAIN m
    THEN Element("sms_delivery_receipt", <<"message_id", "text", "delivered">>,
                 [m EXCEPT !.delivered = Flagged(@)] @@ [text |-> m.message])
    ELSE Element("sms_message", <<"source", "sender", "text">>, m @@ [text |-> m.message])

\* The answer to an SMS
Respond(m) ==
    \E i \in DOMAIN sent["phone"] :
       LET id == sent["phone"][i].id
       IN  /\ phase = "BOS_LOGGED_IN" /\ posted < MaxPackets /\ "deliverable" \in DOMAIN m
           /\ posted' = posted + 1
           /\ Tell("b", Answer(id, 2010, Short(150, TRUE) \o Zeros(7) \o PackString(<<0>>, FALSE)
                                         \o PackString(Written(ResponseXml(m), 0), FALSE)),
                   <<[requestID |-> id] @@ m>>)
           /\ UNCHANGED <<phase, reply, login, result, recv, heard, server, announced, contact, left,
                          cuts>>
\* A message from a telephone, or what became of one sent to it
Report(m) ==
    LET xml == Written(ReportXml(m), 0)
        body == <<Code.SMS, 0>> \o Zeros(21) \o Short(IF "delivered" \in DOMAIN m THEN 2 ELSE 0, TRUE)
                \o Long(Len(ICQSMS), TRUE) \o ICQSMS \o Zeros(3)
                \o Long(Len(xml) + 4, TRUE) \o Long(Len(xml), TRUE) \o xml
    IN  /\ phase = "BOS_LOGGED_IN" /\ posted < MaxPackets /\ "message" \in DOMAIN m
        /\ posted' = posted + 1
        /\ Tell("b", FromServer(4, 7, Zeros(8) \o Short(4, FALSE) \o UserInfo(server)
                                      \o Short(5, FALSE) \o Sized(FALSE, Long(1002, TRUE) \o body)),
                <<m>>)
        /\ UNCHANGED <<phase, reply, login, result, recv, heard, server, announced, contact, left, cuts>>

\* SendOfflineMessagesRequest: the server passes on a message it has kept,
\* and says that there are no more.  The date is of no matter.
TellOffline(m) ==
    LET id == posted + 1
        message == Long(UIN.a, TRUE) \o Zeros(6) \o OutputSubType(m, FALSE, FALSE) \o Zeros(2)
    IN  /\ phase = "BOS_LOGGED_IN" /\ posted < MaxPackets
        /\ posted' = id
        /\ stream' = [stream EXCEPT !["b"] = @ \o Answer(id, 65, message) \o Answer(id, 66, Zeros(1))]
        /\ sent' = [sent EXCEPT !["b"] = @ \o <<m, [complete |-> TRUE]>>,
                                !["server"] = @ \o <<Requested(<<>>, 60, id), Requested(<<>>, 62, 0)>>]
        /\ heard' = [heard EXCEPT !["server"] = Append(@, Reads(RequestOffline(UIN.b, id)))]
        /\ UNCHANGED <<phase, reply, login, result, recv, server, announced, contact, left, cuts>>

-----------------------------------------------------------------------------
(* The login, as the client goes through it frame by frame.                *)

Crypt(s) == [i \in DOMAIN s |-> s[i] ^^ XORtable[((i - 1) % 16) + 1]]
\* SendAuthReq: what the server reads are the screen name and the password
SendAuthReq == Long(1, FALSE) \o TLVof(1, UINtoString(UIN.a)) \o TLVof(2, Crypt(Password))
SendCookie(cookie) == Long(1, FALSE) \o TLVof(6, cookie)
\* The server's side of both
Channel01 == (1 :> "screenname") @@ (2 :> "password") @@ (6 :> "cookie")
ServerReads(bytes) ==
    LET Typed(r) == LET s == Read(r, <<<<"short", "tlv">>>>)
                    IN  Read(s, <<<<"string", Channel01[s.v["tlv"]]>>>>)
        r == FoldLeft(LAMBDA s, i : IF BeforeEnd(s) THEN Typed(s) ELSE s,
                      Advance(Reader(bytes), 4), <<1, 2>>)
    IN  [f \in DOMAIN r.v \ {"tlv", "l"} |-> IF f = "password" THEN Crypt(r.v[f]) ELSE r.v[f]]

\* ParseCh1 and ParseCh4, on c, what the client has of the login
Ch1Answer(c) ==
    CASE c.phase = "AUTH_AWAITING_CONN_ACK" -> [phase |-> "AUTH_AWAITING_AUTH_REPLY", bytes |-> SendAuthReq]
      [] c.phase = "BOS_AWAITING_CONN_ACK" ->
           [phase |-> "BOS_AWAITING_LOGIN_REPLY", bytes |-> SendCookie(c.result.cookie)]
ParseCh1(c, r) ==
    IF c.phase \in {"AUTH_AWAITING_CONN_ACK", "BOS_AWAITING_CONN_ACK"} /\ Len(r.data) - r.pos = 4
    THEN [c EXCEPT !.phase = Ch1Answer(c).phase, !.login = ServerReads(Ch1Answer(c).bytes) @@ @]
    ELSE [c EXCEPT !.left = TRUE]
\* RedirectTLV: what follows a colon is the port; none is the authorizer's
Place(place) ==
    LET colon == SelectInSeq(place, LAMBDA b : b = 58)
        port == StringtoUIN(SubSeq(place, colon + 1, Len(place)))
    IN  IF colon = 0 THEN [host |-> place, port |-> AuthorizerPort]
        ELSE [host |-> SubSeq(place, 1, colon - 1), port |-> IF port = 0 THEN AuthorizerPort ELSE port]
Redirected(c, rest, v) ==
    LET reason == IF "error" \in DOMAIN v /\ v["error"] \in DOMAIN Reason
                  THEN Reason[v["error"]] ELSE "unknown"
    IN  IF c.phase # "AUTH_AWAITING_AUTH_REPLY" THEN [c EXCEPT !.left = TRUE]
        ELSE IF {"cookie", "redirect"} \subseteq DOMAIN v
        THEN [c EXCEPT !.phase = "BOS_AWAITING_CONN_ACK", !.left = @ \/ rest,
                       !.result = [cookie |-> v["cookie"]] @@ Place(v["redirect"])]
        ELSE [c EXCEPT !.phase = "NOT_CONNECTED", !.left = @ \/ rest, !.result = [reason |-> reason]]
Ch4Read(c, r) == Redirected(c, BeforeEnd(r), r.v)
ParseCh4(c, r) == Ch4Read(c, TLVs(r, "Channel04", 65535))
\* Recv and Parse: all that is on its way to u, or its first n bytes
Received(u, n) == Frames(recv[u] \o SubSeq(stream[u], 1, n), <<>>)
Takes(u, n) ==
    /\ stream[u] # <<>>
    /\ \/ n = Len(stream[u]) /\ UNCHANGED cuts
       \/ n \in Portions /\ n < Len(stream[u]) /\ cuts < MaxCuts /\ cuts' = cuts + 1
ParseLogin(c, r) == IF r.v["flap"] = 1 THEN ParseCh1(c, r) ELSE ParseCh4(c, r)
LoginRead(c) == phase' = c.phase /\ result' = c.result /\ login' = c.login /\ left' = c.left
ReadLogin(n) ==
    /\ phase # "BOS_LOGGED_IN" /\ Takes("a", n)
    /\ stream' = [stream EXCEPT !["a"] = SubSeq(@, n + 1, Len(@))]
    /\ recv' = [recv EXCEPT !["a"] = Received("a", n).recv]
    /\ LoginRead(FoldLeft(ParseLogin, [phase |-> phase, login |-> login, result |-> result, left |-> left],
                          Received("a", n).frames))
    /\ UNCHANGED <<reply, sent, heard, server, announced, contact, posted>>

-----------------------------------------------------------------------------
(* What the users hear.                                                    *)

\* What the handlers take from a packet
Contents ==
    {"kind", "message", "url", "alias", "firstname", "lastname", "email", "auth", "contacts",
     "description", "size", "port", "revport", "utf8", "ucs2", "priority", "seqnum", "away",
     "status", "typing", "tree", "complete", "deliverable", "smtp", "network", "message_id",
     "from", "to", "error", "param", "source", "sender", "delivered"}
Taking(v) == [f \in DOMAIN v \cap Contents |-> v[f]]
                 @@ (IF "seqnum" \in DOMAIN v \/ v["subtype"] = 12 THEN [cookie |-> <<v["c1"], v["c2"]>>]
                     ELSE IF "deliverable" \in DOMAIN v THEN [requestID |-> v["requestID"]]
                     ELSE <<>>)

\* SignalUserOnline: an address of zero, and capabilities that are not told,
\* leave those of before
HearOnline(entry, v) ==
    [entry EXCEPT !.status = MapICQStatusToStatus(v["icqstatus"]),
                  !.invisible = Bit(v["icqstatus"], InvisibleFlag),
                  !.lanip = IF v["lanip"] = 0 THEN @ ELSE v["lanip"],
                  !.lanport = IF v["lanport"] = 0 THEN @ ELSE v["lanport"],
                  !.capabilities = IF "capabilities" \in DOMAIN v THEN v["capabilities"] ELSE @]

\* SendAdvancedACK: what was parsed goes back, with b's status message.  An
\* offer of files waits for the user, whose answer FileOffer models.
Acknowledged(v, verdict) ==
    [to |-> StringtoUIN(v["screenname"]), cookie |-> <<v["c1"], v["c2"]>>] @@ verdict @@ v
\* ParseCh2: what cannot be parsed is nothing heard
Parsed(frames) ==
    SelectSeq([i \in DOMAIN frames |-> ParseSNAC(frames[i])], LAMBDA r : ~r.failed)
Is(r, subtype) == <<r.v["family"], r.v["subtype"]>> = subtype
Acks(parsed, verdict) ==
    LET advanced == SelectSeq(parsed, LAMBDA r : /\ Is(r, <<4, 7>>) /\ "seqnum" \in DOMAIN r.v
                                                 /\ r.v["kind"] # "FT")
    IN  [i \in DOMAIN advanced |-> Acknowledged(advanced[i].v, verdict)]

\* What u does with the packets it has parsed, and what the server passes on
HearPackets(u, n, parsed, verdict) ==
    LET online == SelectSeq(parsed, LAMBDA r : Is(r, <<3, 11>>))
        others == SelectSeq(parsed, LAMBDA r : ~Is(r, <<3, 11>>))
        ends == SelectSeq(parsed, LAMBDA r : "complete" \in DOMAIN r.v)
        acks == Acks(parsed, verdict)
    IN  /\ verdict = None <=> acks = <<>>
        /\ stream' = [u1 \in Users |->
               IF u1 = u THEN SubSeq(stream[u], n + 1, Len(stream[u]))
               ELSE stream[u1] \o FlattenSeq([i \in DOMAIN acks |->
                        FromServer(4, 11, Relay(Acknowledgement(acks[i]),
                                                PackByteString(UINtoString(UIN.b))))])]
        /\ heard' = [heard EXCEPT ![u] = @ \o [i \in DOMAIN others |-> Taking(others[i].v)],
                                  !["server"] = @ \o [i \in DOMAIN ends |-> Reads(AckOffline(UIN.b, 0))]]
        /\ sent' = IF u = "a" THEN sent
                    ELSE [sent EXCEPT !["a"] = @ \o [i \in DOMAIN acks |->
                            [cookie |-> acks[i].cookie] @@ verdict]]
        /\ contact' = IF u = "a" THEN contact
                       ELSE FoldLeft(LAMBDA entry, r : HearOnline(entry, r.v), contact, online)
        /\ left' = (left \/ \E i \in DOMAIN parsed : BeforeEnd(parsed[i]))
Hear(u, n, verdict) ==
    /\ phase = "BOS_LOGGED_IN" /\ Takes(u, n)
    /\ HearPackets(u, n, Parsed(Received(u, n).frames), verdict)
    /\ recv' = [recv EXCEPT ![u] = Received(u, n).recv]
    /\ UNCHANGED <<phase, reply, login, result, server, announced, posted>>

ExchangeNext ==
    \/ \E conn \in {"AUTH_AWAITING_CONN_ACK", "BOS_AWAITING_CONN_ACK"} : Connected(conn)
    \/ \E r \in Replies : ReplyTo(r)
    \/ \E list \in Lists : TellList(list)
    \/ SendAdvanced \/ SendNormal \/ SendSetUserInfo
    \/ \E m \in Texts : SendSMS(m)
    \/ \E m \in SMSReports : Respond(m) \/ Report(m)
    \/ \E m \in Letters : ~m.adv /\ m.kind # "Normal" /\ TellOffline(m)
    \/ \E flags \in 0 .. 2 : SendTyping(flags)
    \/ \E s \in Statuses : SendStatus(s)
    \/ \E n \in Portions \cup {Len(stream["a"])} : ReadLogin(n)
    \/ \E u \in Users, verdict \in Verdicts \cup {None} :
           \E n \in Portions \cup {Len(stream[u])} : Hear(u, n, verdict)

-----------------------------------------------------------------------------
Prefix(u) == Len(heard[u]) <= Len(sent[u])
Quiet == \A u \in Users : stream[u] = <<>> /\ recv[u] = <<>>
Same(whole, part) == \A f \in DOMAIN whole \ {"adv"} : f \in DOMAIN part /\ part[f] = whole[f]

\* The values the variables take.
ExchangeTypeOK ==
    /\ phase \in {"AUTH_AWAITING_CONN_ACK", "AUTH_AWAITING_AUTH_REPLY", "BOS_AWAITING_CONN_ACK",
                  "BOS_AWAITING_LOGIN_REPLY", "NOT_CONNECTED", "BOS_LOGGED_IN"}
    /\ \A u \in Users : stream[u] \in Seq(0 .. 255) /\ recv[u] \in Seq(0 .. 255)
    /\ contact.status \in DOMAIN ICQStatus \cup {"Offline"}
    /\ contact.capabilities \subseteq DOMAIN Caps
    /\ left \in BOOLEAN /\ posted \in 0 .. MaxPackets

\* The receiver hears every message, notice and list that the sender wrote,
\* in order, with every field as it was written, however the socket divides
\* the bytes, and nothing else; so does a telephone, and the server hears the
\* request for the messages it has kept and that they have come.
ReceivedAsSent ==
    /\ \A u \in Others : Prefix(u) /\ (Quiet => Len(heard[u]) = Len(sent[u]))
                          /\ \A i \in DOMAIN heard[u] : \E j \in DOMAIN sent[u] : heard[u][i] = sent[u][j]
    /\ Prefix("b") /\ (Quiet => Len(heard["b"]) = Len(sent["b"]))
    /\ \A i \in DOMAIN heard["b"] : Same(sent["b"][i], heard["b"][i])

\* What the sender hears of its message names that message by its cookie, and
\* an acknowledgement brings the receiver's verdict on it and its number.
AckNamesMessage ==
    LET acks == SelectSeq(heard["a"], LAMBDA h : "seqnum" \in DOMAIN h)
    IN  /\ \A i \in DOMAIN heard["a"] : heard["a"][i].cookie \in {<<n, 7 * n>> : n \in 1 .. posted}
        /\ Len(acks) <= Len(sent["a"]) /\ (Quiet => Len(acks) = Len(sent["a"]))
        /\ \A i \in DOMAIN acks :
               /\ Same(sent["a"][i], acks[i])
               /\ \E j \in DOMAIN sent["b"] :
                     /\ "cookie" \in DOMAIN sent["b"][j]
                     /\ \A f \in {"cookie", "seqnum", "kind"} : sent["b"][j][f] = acks[i][f]

\* Every frame is eaten to its end, as the comment of Client::Parse asserts,
\* and no whole frame waits.
NothingLeftBehind ==
    /\ ~left
    /\ \A u \in Users : Frames(recv[u], <<>>).frames = <<>> /\ (stream[u] = <<>> => recv[u] = <<>>)

\* When all is read, the entry of the sender is as it announced itself.
ContactAsAnnounced ==
    Quiet /\ announced.status # None =>
        /\ contact.status = announced.status.status /\ contact.invisible = announced.status.invisible
        /\ announced.lan # None => contact.lanip = announced.lan.ip /\ contact.lanport = announced.lan.port
        /\ contact.capabilities = IF announced.caps THEN DefaultCapabilities ELSE {}

\* The login reaches the host and the port that the server named with the
\* cookie it gave, or ends with the reason it gave.
LoginAsTold ==
    /\ phase \notin {"AUTH_AWAITING_CONN_ACK", "BOS_LOGGED_IN"} =>
           login["screenname"] = UINtoString(UIN.a) /\ login["password"] = Password
    /\ result # None /\ "cookie" \in DOMAIN reply =>
           /\ result.host = reply.host
           /\ result.port = IF reply.port = 0 THEN AuthorizerPort ELSE reply.port
    /\ result # None /\ "error" \in DOMAIN reply =>
           result = [reason |-> IF reply.error \in DOMAIN Reason THEN Reason[reply.error] ELSE "unknown"]
    /\ phase = "BOS_AWAITING_LOGIN_REPLY" => login["cookie"] = reply.cookie

\* What one end wrote the other end has read, packet by packet, however the
\* bytes were divided.
PacketsArrive ==
    ReceivedAsSent /\ AckNamesMessage /\ NothingLeftBehind /\ ContactAsAnnounced /\ LoginAsTold
=============================================================================
