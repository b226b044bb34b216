------------------------------- MODULE Packets -------------------------------
(***************************************************************************)
(* The packets of the library as sequences of bytes: what Output writes    *)
(* and what Parse makes of it.                                             *)
(***************************************************************************)
EXTENDS Buffer, Xml

-----------------------------------------------------------------------------
(* Capabilities.                                                           *)

\* Twelve of the twenty differ in one byte.  MacICQ and Empty stand for the
\* others.
CLSID(n) == <<9, 70, 19, n, 76, 127, 17, 209, 130, 34, 68, 69, 83, 84, 0, 0>>
Caps ==
    [Voice |-> CLSID(65), SendFile |-> CLSID(67), ICQ |-> CLSID(68), IMImage |-> CLSID(69),
     BuddyIcon |-> CLSID(70), SaveStocks |-> CLSID(71), GetFile |-> CLSID(72),
     ICQServerRelay |-> CLSID(73), Games |-> CLSID(74), SendBuddyList |-> CLSID(75),
     AIMInteroperate |-> CLSID(77), ICQUTF8 |-> CLSID(78), Empty |-> Zeros(16),
     MacICQ |-> <<221, 22, 242, 2, 132, 230, 17, 212, 144, 219, 0, 16, 75, 155, 75, 125>>]
DefaultCapabilities == {"ICQ", "ICQServerRelay", "ICQUTF8"}

Known(blocks) == {flag \in DOMAIN Caps : Caps[flag] \in blocks}
OutputCapabilities(flags) == FlattenSeq(SetToSeq({Caps[flag] : flag \in flags}))
\* Capabilities::Parse: whole blocks; a remainder is skipped
ParseCapabilities(r, len) ==
    LET s == Unpack(r, "blocks", (len \div 16) * 16)
        Block(i) == SubSeq(s.v["blocks"], (16 * i) + 1, (16 * i) + 16)
    IN  Advance(With(s, "capabilities", Known({Block(i) : i \in 0 .. (len \div 16) - 1})), len % 16)

\* Capabilities::OutputString, a CLSID between braces, and ParseString,
\* which takes the hexadecimal digits in pairs and ignores what is no digit
Digit(n) == IF n < 10 THEN 48 + n ELSE 55 + n
IsDigit(c) == c \in (48 .. 57) \cup (65 .. 70) \cup (97 .. 102)
Value(c) == IF c >= 97 THEN c - 87 ELSE IF c >= 65 THEN c - 55 ELSE c - 48
OutputString(flag) ==
    LET Hex(i) == (IF i \in {5, 7, 9, 11} THEN <<45>> ELSE <<>>)
                  \o <<Digit(Caps[flag][i] \div 16), Digit(Caps[flag][i] % 16)>>
    IN  <<123>> \o FlattenSeq([i \in 1 .. 16 |-> Hex(i)]) \o <<125>>
ParseString(s) ==
    LET Outside == [inside |-> FALSE, cap |-> <<>>, high |-> 0]
        Scan(p, i) ==
            LET c == s[i]
            IN  CASE p.high > 0 -> [p EXCEPT !.high = 0,
                                    !.cap = IF IsDigit(c) THEN Append(@, (Value(p.high) * 16) + Value(c)) ELSE @]
                  [] p.high = 0 /\ c = 123 -> [p EXCEPT !.inside = TRUE, !.cap = <<>>]
                  [] p.high = 0 /\ c = 125 /\ p.inside ->
                        [p EXCEPT !.inside = FALSE, !.flags = @ \cup Known({p.cap})]
                  [] p.high = 0 /\ p.inside /\ IsDigit(c) /\ i < Len(s) ->
                        IF Len(p.cap) = 16 THEN [p EXCEPT !.inside = FALSE] ELSE [p EXCEPT !.high = c]
                  [] OTHER -> p
    IN  FoldLeft(Scan, [flags |-> {}] @@ Outside, [i \in DOMAIN s |-> i]).flags

-----------------------------------------------------------------------------
(* The bodies of messages, ICQSubType.  The byte order is little there.    *)

Code ==
    [Normal |-> 1, FT |-> 3, URL |-> 4, AuthReq |-> 6, AuthRej |-> 7, AuthAcc |-> 8,
     UserAdd |-> 12, WebPager |-> 13, EmailEx |-> 14, Contacts |-> 19, SMS |-> 26, Away |-> 232]
Separator == 254
Priorities == [normal |-> 1, urgent |-> 2, toContactList |-> 4]

Join(fields) ==
    FlattenSeq([i \in DOMAIN fields |->
        IF i < Len(fields) THEN Append(fields[i], Separator) ELSE fields[i]])
\* string_split: the fields between separators, none after a last separator,
\* and blank ones up to count
StringSplit(s, count) ==
    LET Add(fields, b) == IF b = Separator THEN Append(fields, <<>>)
                          ELSE [fields EXCEPT ![Len(fields)] = Append(@, b)]
        all == FoldLeft(Add, <<<<>>>>, s)
        fields == IF Last(all) = <<>> THEN Front(all) ELSE all
    IN  fields \o [k \in 1 .. count - Len(fields) |-> <<>>]

Flag(b) == IF b THEN <<49>> ELSE <<48>>
Details(m) == <<m.alias, m.firstname, m.lastname, m.email, Flag(m.auth)>>
DetailNames == <<"alias", "firstname", "lastname", "email">>

\* OutputBodyUIN of each type
OutputBodyUIN(m, adv) ==
    LET text == PackUint16StringNull(m.message)
    IN  CASE m.kind = "Normal" ->
               text \o (IF adv THEN Zeros(4) \o Long(16777215, TRUE) ELSE <<>>)
                    \o (IF adv /\ m.utf8 THEN Long(38, TRUE) \o OutputString("ICQUTF8") ELSE <<>>)
          [] m.kind = "URL" -> PackUint16StringNull(Join(<<m.message, m.url>>))
          [] m.kind = "AuthReq" -> PackUint16StringNull(Join(Append(Details(m), m.message)))
          [] m.kind = "UserAdd" -> PackUint16StringNull(Join(Append(Details(m), <<>>)))
          [] m.kind = "Contacts" ->
               PackUint16StringNull(
                   Join(<<UINtoString(Len(m.contacts))>>
                        \o FlattenSeq([i \in DOMAIN m.contacts |->
                               <<UINtoString(m.contacts[i][1]), m.contacts[i][2]>>])
                        \o <<<<>>>>))
          [] m.kind = "FT" ->
               text \o Short(m.revport, FALSE) \o Zeros(2) \o PackUint16StringNull(m.description)
               \o Long(m.size, TRUE) \o Short(m.port, TRUE) \o Zeros(2)
          [] m.kind = "AuthRej" -> text
          [] OTHER -> PackUint16StringNull(<<>>)

\* OutputBodyUINACK: the status message, and two longs for an ordinary message.
\* The answers to offers of files are not modelled here.
OutputBodyUINACK(m) ==
    PackUint16StringNull(m.away)
    \o (IF m.kind = "Normal" THEN Zeros(4) \o <<255, 255, 255, 255>> ELSE <<>>)

OutputSubType(m, adv, ack) ==
    <<Code[m.kind], IF m.kind = "Away" THEN 3 ELSE 0>>
    \o (IF ~adv THEN <<>>
        ELSE Short(m.status, TRUE) \o Short(IF ack THEN 0 ELSE Priorities[m.priority], TRUE))
    \o (IF ack THEN OutputBodyUINACK(m) ELSE OutputBodyUIN(m, adv))

\* The fields of a text, by name
Named(r, names, count) ==
    LET fields == StringSplit(r.v["text"], count)
        Add(s, i) == With(s, names[i], fields[i])
    IN  FoldLeft(Add, r, [i \in DOMAIN names |-> i])
ParseURL(r) ==
    LET text == r.v["text"]
        l == SelectInSeq(text, LAMBDA c : c = Separator)
    IN  IF l = 0 THEN With(With(r, "message", text), "url", <<>>)
        ELSE With(With(r, "message", SubSeq(text, 1, l - 1)), "url", SubSeq(text, l + 1, Len(text)))
ParseContacts(r) ==
    LET l == SelectInSeq(r.v["text"], LAMBDA c : c = Separator)
        fields == StringSplit(SubSeq(r.v["text"], l + 1, Len(r.v["text"])),
                              2 * StringtoUIN(SubSeq(r.v["text"], 1, l - 1)))
    IN  With(r, "contacts", IF l = 0 THEN <<>>
             ELSE [i \in 1 .. Len(fields) \div 2 |-> <<StringtoUIN(fields[(2 * i) - 1]), fields[2 * i]>>])
\* Mutant: the reverse port is read in the order of the rest.
FTLayoutInOneOrder ==
    <<<<"text", "message">>, <<"short", "revport">>, <<"advance", 2>>, <<"text", "description">>,
      <<"long", "size">>, <<"short", "port">>, <<"advance", 2>>>>

FTLayout ==
    <<<<"text", "message">>, <<"little endian", FALSE>>, <<"short", "revport">>,
      <<"little endian", TRUE>>, <<"advance", 2>>, <<"text", "description">>,
      <<"long", "size">>, <<"short", "port">>, <<"advance", 2>>>>

\* ParseBodyUIN.  Where a plain message has a text, a size of capabilities is
\* read, whether there are any or not.
UTF8Known(r) == With(r, "utf8", "ICQUTF8" \in ParseString(r.v["caps"]))
ParseCaps(r) == UTF8Known(Unpack(r, "caps", r.v["capslen"] % 65536))
ParseColours(r) ==
    IF r.v["message"] = <<>> THEN r ELSE ParseCaps(Read(r, <<<<"long", "capslen">>>>))
ParseNormal(r, adv) ==
    LET s == With(r, "utf8", FALSE)
    IN  IF adv
        THEN ParseColours(Read(s, <<<<"text", "message">>, <<"long", "foreground">>, <<"long", "background">>>>))
        ELSE Read(s, <<<<"text", "message">>>>)
ParseBodyUIN(r, kind, adv) ==
    LET text == Read(r, <<<<"text", "text">>>>)
    IN  CASE kind = "Normal" -> ParseNormal(r, adv)
          [] kind = "URL" -> ParseURL(text)
          [] kind = "AuthReq" ->
               LET s == Named(text, DetailNames \o <<"flag", "message">>, 6)
               IN  With(s, "auth", s.v["flag"] = <<49>>)
          [] kind = "UserAdd" ->
               LET s == Named(text, DetailNames \o <<"flag">>, 5)
               IN  With(s, "auth", s.v["flag"] = <<49>>)
          [] kind \in {"EmailEx", "WebPager"} ->
               Named(text, <<"sender", "?", "?", "email", "?", "message">>, 6)
          [] kind = "Contacts" -> ParseContacts(text)
          [] kind = "FT" -> Read(r, FTLayout)
          [] kind = "AuthRej" -> Read(r, <<<<"text", "message">>>>)
          [] OTHER -> text
ParseBodyUINACK(r, kind) ==
    Read(r, <<<<"text", "away">>, <<"advance", IF kind = "Normal" THEN 8 ELSE 0>>>>)

\* SMSICQSubType::ParseBody: a message from a telephone, or what became of one
SMSFields ==
    [SMS |-> [tag |-> "sms_message", leaves |-> {"source", "sender", "senders_network", "time"}],
     Receipt |-> [tag |-> "sms_delivery_receipt",
                  leaves |-> {"message_id", "destination", "submition_time", "delivery_time"}]]
ICQSMS == <<73, 67, 81, 83, 77, 83, 0>>
SMSLayout ==
    <<<<"advance", 21>>, <<"short", "del_stat">>, <<"long string", "tagstr">>, <<"advance", 3>>,
      <<"long", "?">>, <<"long string", "xmlstr">>>>
SMSRead(r, type, top) ==
    LET text == Leaves(top, {"text"})
        message == IF text = <<>> THEN <<>> ELSE [message |-> text["text"]]
        delivered == [delivered |-> Leaves(top, {"delivered"}) = [delivered |-> Yes]]
    IN  IF \/ r.v["del_stat"] \notin {0, 2, 3} \/ r.v["tagstr"] # ICQSMS
           \/ ~IsBranch(top) \/ (IsBranch(top) /\ top.tag # Tag[SMSFields[type].tag])
           \/ type = "SMS" /\ message = <<>>
        THEN Fail(r)
        ELSE [r EXCEPT !.v = Leaves(top, SMSFields[type].leaves) @@ message
                             @@ (IF type = "SMS" THEN <<>> ELSE delivered) @@ @]
SMSParsed(r) ==
    SMSRead(r, IF r.v["del_stat"] = 0 THEN "SMS" ELSE "Receipt", Parse(r.v["xmlstr"], 1).node)
ParseSMS(r) == SMSParsed(Read(r, SMSLayout))

PriorityRead(n) ==
    CASE (n \div 2) % 2 = 1 -> "urgent"
      [] n \in {0, Priorities.normal} -> "normal"
      [] OTHER -> "toContactList"

\* ParseICQSubType.  A request for the status message may be any of five.
Kinds(type) == {k \in DOMAIN Code : Code[k] = IF type \in 232 .. 236 THEN 232 ELSE type}
Prioritized(r) == With(r, "priority", PriorityRead(r.v["p"]))
ParseBody(r, kind, adv, ack) ==
    IF ack THEN ParseBodyUINACK(r, kind) ELSE ParseBodyUIN(r, kind, adv)
ParseKind(r, kind, adv, ack) ==
    IF kind = "SMS" THEN ParseSMS(r)
    ELSE ParseBody(IF adv /\ kind \notin {"EmailEx", "WebPager"}
                   THEN Prioritized(Read(r, <<<<"short", "status">>, <<"short", "p">>>>)) ELSE r,
                   kind, adv, ack)
ParseTyped(r, kinds, adv, ack) ==
    LET kind == CHOOSE k \in kinds : TRUE
    IN  IF kinds = {} THEN Fail(r) ELSE ParseKind(With(r, "kind", kind), kind, adv, ack)
ParseTypeRead(r, adv, ack) == ParseTyped(r, Kinds(r.v["type"]), adv, ack)
ParseSubType(r, adv, ack) == ParseTypeRead(Read(r, <<<<"byte", "type">>, <<"byte", "flags">>>>), adv, ack)

-----------------------------------------------------------------------------
(* Types with a length and a value.                                        *)

Valued(op, name) == <<<<"short", "l">>, <<op, name>>>>
Skipped == <<<<"short", "l">>, <<"advance by", "l">>>>
\* InTLV::ParseTLV: what is known where, of the types that are not lists
Layouts ==
    [Channel02 |-> (1 :> Valued("short", "userClass")) @@ (2 :> Valued("long", "signup"))
            @@ (3 :> Valued("long", "signon")) @@ (4 :> Valued("short", "extport"))
            @@ (6 :> Valued("byte", "allowDirect")
                     \o <<<<"byte", "webAware">>, <<"short", "icqstatus">>>>)
            @@ (8 :> Valued("short", "?")) @@ (10 :> Valued("long", "extip"))
            @@ (11 :> <<<<"string", "?">>>>) @@ (15 :> Valued("long", "timeOnline")),
     Channel04 |-> (1 :> <<<<"string", "screenname">>>>) @@ (4 :> <<<<"string", "url">>>>)
            @@ (5 :> <<<<"string", "redirect">>>>) @@ (6 :> <<<<"string", "cookie">>>>)
            @@ (8 :> Valued("short", "error")) @@ (9 :> Valued("short", "reason"))
            @@ (11 :> <<<<"string", "?">>>>),
     InMessageData |-> (1281 :> <<<<"string", "caps">>>>)
            @@ (257 :> Valued("short", "flag1") \o <<<<"short", "flag2">>, <<"chars", "message">>>>),
     SBL |-> (202 :> Valued("byte", "?")) @@ (205 :> <<<<"string", "?">>>>)
            @@ (212 :> Valued("long", "?")) @@ (305 :> <<<<"string", "nick">>>>)
            @@ (314 :> <<<<"string", "sms">>>>)]

\* LANDetailsTLV.  What the timestamps say does not matter.
OutputLAN(ip, port) ==
    Short(12, FALSE) \o Short(37, FALSE) \o Long(ip, FALSE) \o Long(port, FALSE)
    \o Short(1024, FALSE) \o <<7>> \o Zeros(4) \o Long(80, FALSE) \o Zeros(2)
    \o Short(3, FALSE) \o Zeros(14)
LANAddress(r) ==
    IF r.v["l"] = 37 THEN Read(r, <<<<"long", "lanip">>, <<"advance", 2>>, <<"short", "lanport">>>>) ELSE r
LANTimes(r) ==
    Advance(r, (4 * (IF r.v["unknown"] = 0 THEN 3 ELSE Min({r.v["n"], 100}))) + 2)
ParseLAN(r) ==
    LANTimes(Read(LANAddress(Read(r, <<<<"short", "l">>>>)),
                  <<<<"short", "firewall">>, <<"byte", "tcp">>, <<"long", "dccookie">>,
                    <<"long", "unknown">>, <<"advance", 2>>, <<"short", "n">>>>))

\* AdvMsgBodyTLV: the message of a query is parsed and thrown away
AdvMsgBodyRead(r, second) ==
    CASE second = 14 -> r
      [] second = 18 -> [r EXCEPT !.v = [f \in DOMAIN @ \ {"kind"} |-> @[f]]]
      [] OTHER -> Fail(r)
AdvMsgBody(r) == AdvMsgBodyRead(ParseSubType(r, TRUE, FALSE), r.v["second"])
ParseAdvMsgBody(r) ==
    AdvMsgBody(Read(r,
        <<<<"short", "l">>, <<"advance", 27>>, <<"little endian", TRUE>>, <<"short", "?">>,
          <<"short", "second">>, <<"short", "seqnum">>, <<"advance", 12>>>>))

\* A list without some type that is asked for is an exception.
Needs(r, name) == IF name \in DOMAIN r.v THEN r ELSE Fail(r)

RECURSIVE TLVs(_, _, _)
\* ParseTLV, where the type has been read.  One that holds a list holds it to
\* the end of the buffer, whatever its length says.
Single(r, mode) ==
    LET known == mode \in DOMAIN Layouts /\ r.v["tlv"] \in DOMAIN Layouts[mode]
    IN  Read(r, IF known THEN Layouts[mode][r.v["tlv"]] ELSE Skipped)
CapabilitiesTLV(r) == ParseCapabilities(r, r.v["l"])
Holding(r, type) ==
    CASE type = <<"Channel02", 12>> -> ParseLAN(r)
      [] type = <<"Channel02", 13>> -> CapabilitiesTLV(Read(r, <<<<"short", "l">>>>))
      [] type = <<"MessageBlock", 2>> ->
           TLVs(With(Read(r, <<<<"short", "l">>>>), "caps", <<>>), "InMessageData", 65535)
      [] type = <<"MessageBlock", 5>> ->
           ParseSubType(Read(r, <<<<"short", "l">>, <<"little endian", TRUE>>, <<"long", "?">>>>),
                        FALSE, FALSE)
      [] type = <<"AdvMsgBlock", 5>> ->
           Needs(TLVs(Read(r, Valued("short", "?") \o <<<<"advance", 24>>>>), "InAdvMsgData", 65535),
                 "seqnum")
      [] type = <<"InAdvMsgData", 10001>> -> ParseAdvMsgBody(r)
      [] OTHER -> Single(r, type[1])
TypeLayout == <<<<"short", "tlv">>>>
TypeRead(r, mode) == Holding(r, <<mode, r.v["tlv"]>>)
\* TLVList::Parse; an exception ends it
TLVs(r, mode, count) ==
    IF count = 0 \/ ~BeforeEnd(r) \/ r.failed THEN r
    ELSE TLVs(TypeRead(Read(r, TypeLayout), mode), mode, count - 1)
RECURSIVE TLVsTo(_, _, _)
\* TLVList::ParseByLength, where no type holds a list
TLVsTo(r, mode, end) ==
    IF r.pos >= end \/ r.failed THEN r ELSE TLVsTo(Single(Read(r, TypeLayout), mode), mode, end)

UserInfoLayout == <<<<"byte string", "screenname">>, <<"short", "warning">>, <<"short", "n">>>>
\* What a type that is missing leaves
Absent == [icqstatus |-> 0, webAware |-> 0, lanip |-> 0, lanport |-> 0, extip |-> 0, tcp |-> 0]
UserInfoTLVs(r) == TLVs([r EXCEPT !.v = Absent @@ @], "Channel02", r.v["n"])
ParseUserInfo(r) == UserInfoTLVs(Read(r, UserInfoLayout))

-----------------------------------------------------------------------------
(* The SNACs of messages.                                                  *)

Cookie(c) == Long(c[1], FALSE) \o Long(c[2], FALSE)
CookieLayout == <<<<"little endian", FALSE>>, <<"long", "c1">>, <<"long", "c2">>>>
Sections(seqnum) ==
    Sized(TRUE, Short(7, TRUE) \o Zeros(18) \o Long(3, TRUE) \o Zeros(1) \o Short(seqnum, TRUE))
    \o Sized(TRUE, Short(seqnum, TRUE) \o Zeros(12))

AdvancedMessage(m) ==
    Cookie(m.cookie) \o Short(2, FALSE) \o PackByteString(UINtoString(m.to))
    \o Short(5, FALSE)
    \o Sized(FALSE, Zeros(2) \o Cookie(m.cookie) \o Caps.ICQServerRelay
                    \o Short(10, FALSE) \o Short(2, FALSE) \o Short(1, FALSE)
                    \o Short(15, FALSE) \o Zeros(2) \o Short(10001, FALSE)
                    \o Sized(FALSE, Sections(m.seqnum) \o OutputSubType(m, TRUE, FALSE)))
    \o Short(3, FALSE) \o Zeros(2)

\* No cookie is set.  What a text becomes in UCS-2 is in Messages.
PlainMessage(m) ==
    LET to == PackByteString(UINtoString(m.to))
        caps == IF m.ucs2 THEN Short(2, FALSE) \o <<1, 6>> ELSE Short(1, FALSE) \o <<1>>
        text == Short(257, FALSE)
                \o Sized(FALSE, Short(IF m.ucs2 THEN 2 ELSE 0, FALSE) \o Zeros(2) \o m.message)
    IN  Zeros(8)
        \o (IF m.kind = "Normal"
            THEN Short(1, FALSE) \o to \o Short(2, FALSE)
                 \o Sized(FALSE, Short(1281, FALSE) \o caps \o text)
            ELSE IF m.kind \in {"URL", "AuthReq", "AuthAcc", "AuthRej", "UserAdd"}
            THEN Short(4, FALSE) \o to \o Short(5, FALSE)
                 \o Sized(FALSE, Long(m.from, TRUE) \o OutputSubType(m, FALSE, FALSE))
            ELSE <<>>)
        \o Short(6, FALSE) \o Zeros(2)

\* MessageSNAC::ParseBody
Plain(r) ==
    With(With(r, "kind", "Normal"), "ucs2",
         r.v["flag1"] = 2 /\ \E i \in DOMAIN r.v["caps"] : r.v["caps"][i] = 6)
MessageRead(r) ==
    CASE r.v["channel"] = 1 -> IF "caps" \in DOMAIN r.v THEN Plain(r) ELSE Fail(r)
      [] r.v["channel"] = 2 -> Needs(r, "seqnum")
      [] r.v["channel"] = 4 -> Needs(r, "kind")
      [] OTHER -> Fail(r)
MessageBlock(r) ==
    TLVs(r, IF r.v["channel"] = 2 THEN "AdvMsgBlock" ELSE "MessageBlock", 65535)
ParseMessage(r) ==
    MessageRead(MessageBlock(ParseUserInfo(Read(r, CookieLayout \o <<<<"short", "channel">>>>))))

\* MessageACKSNAC
Acknowledgement(m) ==
    Cookie(m.cookie) \o Short(2, FALSE) \o PackByteString(UINtoString(m.to)) \o Short(3, FALSE)
    \o Sections(m.seqnum) \o OutputSubType(m, TRUE, TRUE)

Remainder(r) ==
    IF BeforeEnd(r) /\ ~r.failed THEN Read(r, <<<<"long", "l">>, <<"advance by", "l">>>>) ELSE r
ParseAcknowledgement(r) ==
    LET s == Read(r, CookieLayout \o
                <<<<"short", "channel">>, <<"byte string", "screenname">>, <<"advance", 2>>,
                  <<"little endian", TRUE>>, <<"short", "l">>, <<"advance by", "l">>,
                  <<"short", "l">>, <<"short", "seqnum">>>>)
    IN  Remainder(ParseSubType(Advance(s, s.v["l"] - 2), TRUE, TRUE))

TypingIndicator(to, flags) ==
    Zeros(8) \o Short(1, FALSE) \o PackByteString(UINtoString(to)) \o Short(flags, FALSE)
TypingLayout == <<<<"advance", 10>>, <<"byte string", "screenname">>, <<"short", "typing">>>>
OfflineLayout ==
    CookieLayout \o <<<<"short", "channel">>, <<"byte string", "screenname">>>>

-----------------------------------------------------------------------------
(* Status, the server's list, and the frames.                              *)

\* Contact::MapStatusToICQStatus and back
ICQStatus ==
    [Online |-> 0, Away |-> 1, NA |-> 5, Occupied |-> 17, DND |-> 19, FreeForChat |-> 32]
InvisibleFlag == 256
Bit(n, b) == (n \div b) % 2 = 1

MapICQStatusToStatus(n) ==
    CASE Bit(n, 2) -> "DND"
      [] ~Bit(n, 2) /\ Bit(n, 4) -> "NA"
      [] ~Bit(n, 2) /\ ~Bit(n, 4) /\ Bit(n, 16) -> "Occupied"
      [] ~Bit(n, 2) /\ ~Bit(n, 4) /\ ~Bit(n, 16) /\ Bit(n, 32) -> "FreeForChat"
      [] \A b \in {2, 4, 16, 32} : ~Bit(n, b) -> IF Bit(n, 1) THEN "Away" ELSE "Online"

\* SetStatusSNAC; extra is what only the first of a session has
StatusTLV(s) ==
    Short(6, FALSE) \o Short(4, FALSE) \o <<0, IF s.webAware THEN 3 ELSE 2>>
    \o Short(ICQStatus[s.status] + (IF s.invisible THEN InvisibleFlag ELSE 0), FALSE)
SetStatus(s) ==
    StatusTLV(s)
    \o (IF s.extra THEN Short(8, FALSE) \o Short(2, FALSE) \o Zeros(2) \o OutputLAN(s.ip, s.port)
        ELSE <<>>)
SetUserInfo == Short(5, FALSE) \o Sized(FALSE, OutputCapabilities(DefaultCapabilities))

\* SBLAddEntrySNAC: a group is an entry without TLVs
AddEntry(e) ==
    IF e.uin = 0
    THEN PackString(e.alias, FALSE) \o Short(e.group, FALSE) \o Zeros(2) \o Short(1, FALSE) \o Zeros(2)
    ELSE PackString(UINtoString(e.uin), FALSE) \o Short(e.group, FALSE) \o Short(e.id, FALSE) \o Zeros(2)
         \o Sized(FALSE, Short(305, FALSE) \o PackString(e.alias, FALSE)
                         \o (IF e.await THEN Short(102, FALSE) \o Zeros(2) ELSE <<>>))
EntryLayout ==
    <<<<"string", "name">>, <<"short", "group">>, <<"short", "id">>, <<"short", "type">>,
      <<"short", "len">>>>
\* SBLListSNAC::ParseBody: a contact whose group has not come is an exception
Entered(r, v) ==
    CASE v["type"] = 0 /\ v["group"] \in v["groups"] ->
           With(r, "tree", v["tree"] \cup {<<StringtoUIN(v["name"]), v["nick"], v["group"]>>})
      [] v["type"] = 0 /\ v["group"] \notin v["groups"] -> Fail(r)
      [] v["type"] = 1 /\ v["group"] > 0 -> With(r, "groups", v["groups"] \cup {v["group"]})
      [] OTHER -> r
EntryRead(r) == Entered(r, r.v)
Entry(r) == EntryRead(TLVsTo(With(r, "nick", r.v["name"]), "SBL", r.v["len"] + r.pos))
EntryAfter(r) == IF r.failed THEN r ELSE Entry(Read(r, EntryLayout))
Entries(r) ==
    FoldLeft(LAMBDA s, i : EntryAfter(s), [r EXCEPT !.v = [groups |-> {}, tree |-> {}] @@ @],
             [i \in 1 .. r.v["size"] |-> i])
ParseList(r) == Advance(Entries(Read(r, <<<<"advance", 1>>, <<"short", "size">>>>)), 4)
=============================================================================
