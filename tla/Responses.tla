------------------------------ MODULE Responses -------------------------------
(***************************************************************************)
(* What is asked of the server's extensions and what they answer (SNACs of *)
(* the family 0x15), the header of every SNAC, and the frames they come in. *)
(***************************************************************************)
EXTENDS Packets

-----------------------------------------------------------------------------
(* Requests: a type and two lengths, the second in the other byte order.   *)

Asking(uin, command, id, body) ==
    Short(1, FALSE)
    \o Sized(FALSE, Sized(TRUE, Long(uin, TRUE) \o Short(command, TRUE) \o Short(id % 65536, TRUE)
                                \o body))
\* SrvRequestOfflineSNAC and SrvAckOfflineSNAC
RequestOffline(uin, id) == Asking(uin, 60, id, <<>>)
AckOffline(uin, id) == Asking(uin, 62, id, <<>>)

\* SrvSendSNAC: an SMS.  What the time says is left out.
SrvSend(m, id) ==
    LET leaf(name) == Leaf(Tag[name], m[name])
        xml == Written(Branch(Tag["icq_sms_message"],
                   <<leaf("destination"), leaf("text"), Leaf(Tag["codepage"], <<49, 50, 53, 50>>),
                     Leaf(Tag["senders_UIN"], UINtoString(m.uin)), leaf("senders_name"),
                     Leaf(Tag["delivery_receipt"], IF m.receipt THEN Yes ELSE No),
                     Leaf(Tag["time"], <<>>)>>), 0)
    IN  Short(1, FALSE) \o Short(Len(xml) + 37, FALSE) \o Short(Len(xml) + 35, TRUE)
        \o Long(m.uin, TRUE) \o Short(2000, TRUE) \o Short(id % 65536, TRUE)
        \o <<130, 20, 0, 1, 0, 22>> \o Zeros(18) \o Short(Len(xml) + 1, FALSE) \o xml \o <<0>>

-----------------------------------------------------------------------------
(* Responses.                                                              *)

\* ParseOfflineMessage: as a message that is not advanced.  What the date
\* becomes is not modelled.
OfflineMessageLayout ==
    <<<<"long", "sender_UIN">>, <<"short", "year">>, <<"byte", "month">>, <<"byte", "day">>,
      <<"byte", "hour">>, <<"byte", "minute">>>>
ParseOfflineMessage(r) ==
    Advance(ParseSubType(Read(r, OfflineMessageLayout), FALSE, FALSE), 2)

\* ParseSMSResponse: whether the SMS went out, by whom, or why not
SMSFailure(error) ==
    LET id == Leaves(error, {"id"})
    IN  (IF id = <<>> THEN <<>> ELSE [error |-> StringtoUIN(id["id"])])
        @@ Leaves(GetBranch(error, "params"), {"param"})
SMSResponseRead(r, top, answer) ==
    LET Is(word) == answer = [deliverable |-> word]
        told == CASE Is(Yes) -> Leaves(top, {"network", "message_id", "messages_left"})
                  [] Is(SMTP) -> Leaves(top, {"from", "to", "subject"})
                  [] OTHER -> SMSFailure(GetBranch(top, "error"))
    IN  [r EXCEPT !.v = told @@ Leaves(top, {"source"})
                        @@ [deliverable |-> Is(Yes), smtp |-> Is(SMTP)] @@ @]
SMSResponse(r, top) ==
    IF ~IsBranch(top) \/ (IsBranch(top) /\ top.tag # Tag["sms_response"]) THEN Fail(r)
    ELSE SMSResponseRead(r, top, Leaves(top, {"deliverable"}))
SMSResponseParsed(r) == SMSResponse(r, Parse(r.v["xmlstr"], 1).node)
ParseSMSResponse(r) ==
    SMSResponseParsed(Read(r, <<<<"advance", 7>>, <<"little endian", FALSE>>, <<"string", "?">>,
                                <<"string", "xmlstr">>>>))

\* SrvResponseSNAC::ParseBody and ParseICQResponse.  What the responses to
\* searches and to requests for details hold is in Requests.
ParseResponse(r) ==
    LET s == Read(r, <<<<"short", "?">>, <<"short", "?">>, <<"little endian", TRUE>>, <<"short", "?">>,
                       <<"long", "uin">>, <<"short", "command_type">>, <<"short", "?">>>>)
        t == Read(s, <<<<"short", "response">>>>)
    IN  CASE s.v["command_type"] = 65 -> ParseOfflineMessage(s)
          [] s.v["command_type"] = 66 -> Read(With(s, "complete", TRUE), <<<<"byte", "?">>>>)
          [] s.v["command_type"] = 2010 ->
                 CASE t.v["response"] = 1 -> With(t, "error", TRUE)
                   [] t.v["response"] = 150 -> ParseSMSResponse(t)
                   [] OTHER -> Fail(t)
          [] OTHER -> Fail(s)

-----------------------------------------------------------------------------
(* SNACs and frames.                                                       *)

\* OutSNAC::Output and InSNAC::Parse
SNAC(family, subtype, id, body) ==
    Short(family, FALSE) \o Short(subtype, FALSE) \o Zeros(2) \o Long(id, FALSE) \o body
ParseSNAC(r) ==
    LET s == Read(r, <<<<"short", "family">>, <<"short", "subtype">>, <<"short", "?">>, <<"long", "requestID">>>>)
        body == <<s.v["family"], s.v["subtype"]>>
    IN  CASE body = <<4, 7>> -> ParseMessage(s)
          [] body = <<4, 11>> -> ParseAcknowledgement(s)
          [] body = <<4, 12>> -> Read(s, OfflineLayout)
          [] body = <<4, 20>> -> Read(s, TypingLayout)
          [] body \in {<<3, 11>>, <<3, 12>>} -> ParseUserInfo(s)
          [] body = <<21, 3>> -> ParseResponse(s)
          [] body = <<19, 6>> -> ParseList(s)
          [] OTHER -> Advance(s, Len(s.data))

FLAP(channel, seqnum, body) ==
    <<42, channel>> \o Short(seqnum, FALSE) \o Sized(FALSE, body)

\* Client::Parse: the frames that are there, and what waits for the rest of
\* its frame.  Without a start byte all is thrown away.
RECURSIVE Frames(_, _)
Frames(recv, frames) ==
    LET s == Read(Reader(recv), <<<<"byte", "start">>, <<"byte", "channel">>, <<"short", "?">>,
                                  <<"short", "len">>>>)
        size == s.v["len"] + 6
    IN  IF recv = <<>> THEN [recv |-> recv, frames |-> frames]
        ELSE IF s.v["start"] # 42 THEN [recv |-> <<>>, frames |-> frames]
        ELSE IF Len(recv) < 6 \/ Len(recv) < size THEN [recv |-> recv, frames |-> frames]
        ELSE Frames(SubSeq(recv, size + 1, Len(recv)),
                    Append(frames, With(Advance(Reader(SubSeq(recv, 1, size)), 6),
                                        "flap", s.v["channel"])))
=============================================================================
