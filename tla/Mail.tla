-------------------------------- MODULE Mail --------------------------------
(***************************************************************************)
(* SMTPClient, which sends e-mail and those SMS messages that the SMS      *)
(* server says to send by mail, and the part of Client about them: the     *)
(* cache of the SMS requests and the callbacks of the socket.              *)
(*                                                                         *)
(* One action is one callback of the run loop, or one turn of the loop in  *)
(* Recv.  A reply of the SMTP server is its code.  A line may arrive in    *)
(* two halves, the code in the first ("late") or divided itself ("early"). *)
(* A request of the SMS cache is named by its event.  What touches an      *)
(* event that was deleted crashes the program or finds it as it was.       *)
(***************************************************************************)
EXTENDS Naturals, SequencesExt

CONSTANTS
    Email, SMS,      \* the events that the user may send
    MaxFaults        \* bound: divided lines, failures of the connection and of
                     \* the server, time that passes in spite of an answer, and
                     \* what the SMS server says

Event == Email \cup SMS
Null == "NULL"

\* No e-mail is an SMS message, and an event is no null pointer.
ASSUME MailAssumption == Email \cap SMS = {} /\ Null \notin Event /\ MaxFaults \in Nat

VARIABLES
    state,      \* SMTPClient::m_state
    socket,     \* TCPSocket::m_state
    selected,   \* what the program waits for on the socket
    msgqueue, recv,
    idle,       \* m_timeout has passed since m_last_operation
    life,       \* of each event: "unsent", "live" or "deleted"
    requests,   \* the events of m_reqidcache
    told,       \* the acknowledgements
    crashed,
    server,     \* external: where the SMTP server is, whose envelope it has,
                \* and what it took: envelope and text
    lines,      \* external: its replies on their way
    faults, responses, divided

client == <<state, socket, selected, idle>>
world == <<server, lines, faults, divided>>
mail == <<client, msgqueue, recv, life, requests, told, crashed, world, responses>>

Line(code, how) ==
    IF how = "whole" THEN <<[code |-> code, half |-> "whole"]>>
    ELSE <<[code |-> code, half |-> how], [code |-> code, half |-> "back"]>>
\* The lines of these replies, the first of them as "how" says
Reply(codes, how) ==
    IF codes = <<>> THEN <<>>
    ELSE Line(codes[1], how)
         \o [i \in 1 .. Len(codes) - 1 |-> [code |-> codes[i + 1], half |-> "whole"]]

MailInit ==
    /\ state = "NOT_CONNECTED" /\ socket = "NOT_CONNECTED" /\ selected = "none"
    /\ msgqueue = <<>> /\ recv = <<>> /\ idle = FALSE
    /\ life = [e \in Event |-> "unsent"] /\ requests = {} /\ told = <<>> /\ crashed = FALSE
    /\ server = [at |-> "closed", from |-> Null, to |-> Null, taken |-> {}] /\ lines = <<>>
    /\ faults = 0 /\ responses = 0 /\ divided = FALSE

-----------------------------------------------------------------------------
(* The SMTP server.                                                        *)

Fault(n) == (n = 0 \/ faults + responses + n <= MaxFaults) /\ faults' = faults + n
Says(s, code) == [server |-> s, codes |-> <<code>>, faults |-> 0]
Hush(s) == [server |-> s, codes |-> <<>>, faults |-> 0]
Costly(answer) == [answer EXCEPT !.faults = 1]

\* What it may answer to a command about e.  Text that it did not ask for is
\* two bad commands; a command among text is text.
Understood(s, command, e) ==
    CASE command = "HELO" -> {Says([s EXCEPT !.at = "ready"], 250), Costly(Says(s, 500))}
      [] command = "MAIL" -> {Says([s EXCEPT !.at = "mail", !.from = e], 250), Says(s, 500)}
      [] command = "RCPT" /\ s.at \in {"mail", "rcpt"} ->
            {Says([s EXCEPT !.at = "rcpt", !.to = e], 250), Says(s, 500)}
      [] command = "DATA" /\ s.at = "rcpt" -> {Says([s EXCEPT !.at = "data"], 354), Says(s, 500)}
      [] command = "TEXT" /\ s.at = "data" ->
            {Says([s EXCEPT !.at = "ready", !.taken = @ \cup {<<s.from, s.to, e>>}], 250),
             Says([s EXCEPT !.at = "ready"], 500)}
      [] command = "TEXT" /\ s.at # "data" -> {[Says(s, 500) EXCEPT !.codes = <<500, 500>>]}
      [] command = "QUIT" -> {Says([s EXCEPT !.at = "closed"], 221)}
      [] OTHER -> {Says(s, 500)}
Answers(s, command, e) ==
    IF s.at \in {"closed", "silent"} \/ (s.at = "data" /\ command # "TEXT") THEN {Hush(s)}
    ELSE Understood(s, command, e)
         \cup {Costly(Hush([s EXCEPT !.at = at])) : at \in {"closed", "silent"}}
Greetings(s) ==
    {Says([s EXCEPT !.at = "greeted"], 220), Costly(Says([s EXCEPT !.at = "greeted"], 500)),
     Costly(Hush([s EXCEPT !.at = "silent"]))}

\* One of the answers is on its way, whole or with its first line divided
Answered(answers, before) ==
    \E a \in answers, how \in {"whole", "early", "late"} :
        /\ how # "whole" => a.codes # <<>>
        /\ Fault(a.faults + IF how = "whole" THEN 0 ELSE 1)
        /\ server' = a.server /\ lines' = before \o Reply(a.codes, how)
        /\ divided' = (divided \/ how # "whole")
HangUp(n) ==
    /\ server' = [server EXCEPT !.at = "closed"] /\ lines' = <<>> /\ Fault(n) /\ UNCHANGED divided

-----------------------------------------------------------------------------
(* Connections.                                                            *)

\* SMTPClient::Disconnect, which DisconnectDirectConn follows up
Disconnect ==
    /\ socket' = "NOT_CONNECTED" /\ state' = "NOT_CONNECTED" /\ selected' = "none"
    /\ UNCHANGED idle

\* TCPSocket::Connect: under way or done at once; or an exception, because it
\* is open already or cannot be opened.
SocketConnects ==
    /\ socket = "NOT_CONNECTED"
    /\ \/ socket' = "NONBLOCKING_CONNECT" /\ HangUp(0)
       \/ socket' = "CONNECTED" /\ Answered(Greetings(server), <<>>)
SocketThrows == HangUp(IF socket = "NOT_CONNECTED" THEN 1 ELSE 0)

\* SMTPClient::Connect
Connect ==
    \/ SocketThrows /\ Disconnect
    \/ SocketConnects /\ state' = "WAITING_FOR_CONNECT" /\ selected' = "WRITE" /\ idle' = FALSE

\* SMTPClient::SendEvent
QueueEvent(q) ==
    /\ msgqueue' = q
    /\ IF state = "NOT_CONNECTED" THEN Connect ELSE UNCHANGED <<client, world>>

SendEmail(e) ==
    /\ e \in Email /\ life[e] = "unsent" /\ ~crashed
    /\ life' = [life EXCEPT ![e] = "live"] /\ QueueEvent(Append(msgqueue, e))
    /\ UNCHANGED <<recv, requests, told, crashed, responses>>

\* Mutant: nothing times out.
PollConnects ==
    /\ msgqueue # <<>> /\ ~crashed /\ state = "NOT_CONNECTED" /\ Connect
    /\ UNCHANGED <<msgqueue, recv, life, requests, told, crashed, responses>>

\* clearoutMessagesPoll and check_timeout
Poll ==
    /\ msgqueue # <<>> /\ ~crashed
    /\ \/ state = "NOT_CONNECTED" /\ Connect
       \/ state # "NOT_CONNECTED" /\ idle /\ Disconnect /\ HangUp(0)
    /\ UNCHANGED <<msgqueue, recv, life, requests, told, crashed, responses>>

\* Time passes: nothing is under way, or it takes too long.
TimePasses ==
    /\ state # "NOT_CONNECTED" /\ ~idle /\ ~crashed /\ idle' = TRUE
    /\ Fault(IF lines = <<>> /\ socket # "NONBLOCKING_CONNECT" THEN 0 ELSE 1)
    /\ UNCHANGED <<state, socket, selected, msgqueue, recv, life, requests, told, crashed,
                   server, lines, divided, responses>>

\* socket_cb when the connection is established or has failed
FinishNonBlockingConnect ==
    /\ selected = "WRITE" /\ socket = "NONBLOCKING_CONNECT" /\ ~crashed
    /\ \/ /\ socket' = "NOT_CONNECTED" /\ selected' = "none" /\ HangUp(1) /\ UNCHANGED state
       \/ /\ socket' = "CONNECTED" /\ selected' = "READ" /\ state' = "WAITING_FOR_INVITATION"
          /\ Answered(Greetings(server), <<>>)
    /\ UNCHANGED <<idle, msgqueue, recv, life, requests, told, crashed, responses>>

-----------------------------------------------------------------------------
(* The dialogue.                                                           *)

Expected ==
    [WAITING_FOR_INVITATION |-> 220, WAITING_FOR_HELO_ACK |-> 250, WAITING_FOR_MAIL_ACK |-> 250,
     WAITING_FOR_RCPT_ACK |-> 250, WAITING_FOR_DATA_ACK |-> 354, WAITING_FOR_TEXT_ACK |-> 250]
Command ==
    [WAITING_FOR_INVITATION |-> "HELO", WAITING_FOR_HELO_ACK |-> "MAIL",
     WAITING_FOR_MAIL_ACK |-> "RCPT", WAITING_FOR_RCPT_ACK |-> "DATA",
     WAITING_FOR_DATA_ACK |-> "TEXT"]
After ==
    [HELO |-> "WAITING_FOR_HELO_ACK", MAIL |-> "WAITING_FOR_MAIL_ACK",
     RCPT |-> "WAITING_FOR_RCPT_ACK", DATA |-> "WAITING_FOR_DATA_ACK",
     TEXT |-> "WAITING_FOR_TEXT_ACK", QUIT |-> "DISCONNECTING"]
OfEvent == {"WAITING_FOR_MAIL_ACK", "WAITING_FOR_RCPT_ACK", "WAITING_FOR_DATA_ACK",
            "WAITING_FOR_TEXT_ACK"}

\* TCPSocket::Send closes the socket.
SendFails ==
    /\ socket' = "NOT_CONNECTED" /\ state' = "NOT_CONNECTED" /\ selected' = "none" /\ HangUp(1)

\* SayHello, SayFrom, SayTo, SayData, SendText, SayQuit and Send; rest is
\* what has not been read yet.
Say(command, q, rest) ==
    LET ofEvent == command \in {"MAIL", "RCPT", "TEXT"}
        e == IF q = <<>> THEN Null ELSE Head(q)
    IN  /\ msgqueue' = q
        /\ \/ /\ ofEvent /\ (IF e = Null THEN TRUE ELSE life'[e] = "deleted")
              /\ crashed' = TRUE /\ UNCHANGED <<state, socket, selected, world>>
           \/ /\ (ofEvent => e # Null) /\ UNCHANGED crashed
              /\ \/ /\ state' = After[command] /\ UNCHANGED <<socket, selected>>
                    /\ Answered(Answers(server, command, e), rest)
                 \/ SendFails

Acknowledge(e, delivered) == told' = Append(told, [event |-> e, delivered |-> delivered])

\* UnpackCRLFString: the bytes to the end of the line, none without an end
LineEnd(r) == SelectInSeq(r, LAMBDA p : p.half \in {"whole", "back"})
Code(r) ==
    IF LineEnd(r) = 0 \/ (r[1].half = "early" /\ r[2].half # "back") THEN 0 ELSE r[1].code

\* A DisconnectedException without a Disconnect: the socket stays open.
GiveUp(rest) ==
    /\ state' = "NOT_CONNECTED" /\ selected' = "none" /\ lines' = rest
    /\ UNCHANGED <<socket, crashed, server, faults, divided>>

\* The event that is refused is forgotten, and its successor is sent on the
\* same connection.
Refused(rest) ==
    /\ Acknowledge(Head(msgqueue), FALSE)
    /\ life' = [life EXCEPT ![Head(msgqueue)] = "deleted"]
    /\ IF Tail(msgqueue) # <<>> THEN Say("MAIL", Tail(msgqueue), rest)
       ELSE msgqueue' = <<>> /\ GiveUp(rest)

\* Mutant: the event that was taken stays in front.
AcceptedNotPopped(rest) ==
    /\ Acknowledge(Head(msgqueue), TRUE) /\ UNCHANGED life
    /\ Say(IF Tail(msgqueue) = <<>> THEN "QUIT" ELSE "MAIL", msgqueue, rest)

Accepted(rest) ==
    /\ Acknowledge(Head(msgqueue), TRUE) /\ UNCHANGED life
    /\ Say(IF Tail(msgqueue) = <<>> THEN "QUIT" ELSE "MAIL", Tail(msgqueue), rest)

\* Parse, and what Recv and socket_cb make of its exceptions
ParseReply(code, rest) ==
    \/ /\ state \in DOMAIN Command /\ code = Expected[state]
       /\ UNCHANGED <<life, told>> /\ Say(Command[state], msgqueue, rest)
    \/ state = "WAITING_FOR_TEXT_ACK" /\ code = Expected[state] /\ Accepted(rest)
    \/ state \in OfEvent /\ code # Expected[state] /\ Refused(rest)
    \/ /\ state \in DOMAIN Expected \ OfEvent /\ code # Expected[state]
       /\ GiveUp(rest) /\ UNCHANGED <<msgqueue, life, told>>
    \/ /\ state = "DISCONNECTING" /\ lines' = rest
       /\ UNCHANGED <<state, socket, selected, msgqueue, life, told, crashed, server, faults, divided>>

\* One turn of the loop in Recv: what has arrived, and one line of it parsed
ReadLine(n) ==
    LET r == recv \o SubSeq(lines, 1, n)
    IN  /\ selected = "READ" /\ socket = "CONNECTED" /\ ~crashed
        /\ recv' = SubSeq(r, LineEnd(r) + 1, Len(r)) /\ idle' = FALSE
        /\ ParseReply(Code(r), SubSeq(lines, n + 1, Len(lines)))
        /\ UNCHANGED <<requests, responses>>

\* The answer to an event that was deleted crashes the program.
AnswerDeleted ==
    /\ selected = "READ" /\ lines # <<>> /\ state \in OfEvent /\ ~crashed
    /\ life[Head(msgqueue)] = "deleted" /\ crashed' = TRUE
    /\ UNCHANGED <<client, msgqueue, recv, life, requests, told, world, responses>>

OtherEndCloses ==
    /\ selected # "none" /\ socket = "CONNECTED" /\ lines = <<>> /\ server.at = "closed"
    /\ ~crashed /\ Disconnect /\ HangUp(0)
    /\ UNCHANGED <<msgqueue, recv, life, requests, told, crashed, responses>>

\* socket_cb when the socket was connected at once: it still is selected for
\* writing, what has arrived is ignored line by line, and SendEvent(NULL)
\* queues no event (once here, again and again in the code).
WriteConnected(n) ==
    LET r == recv \o SubSeq(lines, 1, n)
    IN  /\ selected = "WRITE" /\ socket = "CONNECTED" /\ ~crashed
        /\ lines # <<>> \/ server.at # "closed"
        /\ n > 0 \/ Null \notin ToSet(msgqueue)
        /\ recv' = SubSeq(r, LineEnd(r) + 1, Len(r)) /\ lines' = SubSeq(lines, n + 1, Len(lines))
        /\ idle' = (idle /\ n = 0)
        /\ msgqueue' = IF Null \in ToSet(msgqueue) THEN msgqueue ELSE Append(msgqueue, Null)
        /\ UNCHANGED <<state, socket, selected, life, requests, told, crashed, server, faults,
                       divided, responses>>

-----------------------------------------------------------------------------
(* SMS.                                                                    *)

SendSMS(e) ==
    /\ e \in SMS /\ life[e] = "unsent" /\ ~crashed
    /\ life' = [life EXCEPT ![e] = "live"] /\ requests' = requests \cup {e}
    /\ UNCHANGED <<client, msgqueue, recv, told, crashed, world, responses>>

\* RequestIDCache::removeItem deletes the event, a second time perhaps.
RemoveRequest(e) ==
    /\ requests' = requests \ {e} /\ life' = [life EXCEPT ![e] = "deleted"]
    /\ crashed' \in {FALSE, life[e] = "deleted"}

\* SignalSrvResponse: what is deliverable by mail stays in the cache and goes
\* into the queue as well; a "DUPLEX RESPONSE" is ignored.
SMSResponse(e, deliverable) ==
    /\ e \in requests /\ faults + responses < MaxFaults /\ responses' = responses + 1 /\ ~crashed
    /\ \/ /\ deliverable \in {"Yes", "No"} /\ RemoveRequest(e)
          /\ Acknowledge(e, deliverable = "Yes")
          /\ UNCHANGED <<client, msgqueue, world>>
       \/ /\ deliverable = "SMTP" /\ QueueEvent(Append(msgqueue, e))
          /\ crashed' \in {FALSE, life[e] = "deleted"} /\ UNCHANGED <<life, requests, told>>
    /\ UNCHANGED recv

\* After a minute the request expires: its event is deleted, and nobody is
\* told.
ExpireSMS(e) ==
    /\ e \in requests /\ ~crashed /\ RemoveRequest(e)
    /\ UNCHANGED <<client, msgqueue, recv, told, world, responses>>

-----------------------------------------------------------------------------
MailNext ==
    \/ \E e \in Email : SendEmail(e)
    \/ Poll \/ TimePasses \/ FinishNonBlockingConnect \/ AnswerDeleted \/ OtherEndCloses
    \/ \E n \in 1 .. Len(lines) : ReadLine(n)
    \/ \E n \in 0 .. Len(lines) : WriteConnected(n)
    \/ \E e \in SMS : SendSMS(e) \/ ExpireSMS(e)
    \/ \E e \in SMS, deliverable \in {"Yes", "No", "SMTP"} : SMSResponse(e, deliverable)

Callback ==
    \/ FinishNonBlockingConnect \/ AnswerDeleted \/ OtherEndCloses
    \/ \E n \in 1 .. Len(lines) : ReadLine(n)
    \/ \E n \in 0 .. Len(lines) : WriteConnected(n)
MailSpec == MailInit /\ [][MailNext]_mail
MailFairness == WF_mail(Poll) /\ WF_mail(TimePasses) /\ WF_mail(Callback)

-----------------------------------------------------------------------------
\* The values the variables take.
MailTypeOK ==
    /\ state \in DOMAIN Expected \cup {"NOT_CONNECTED", "WAITING_FOR_CONNECT", "DISCONNECTING"}
    /\ socket \in {"NOT_CONNECTED", "NONBLOCKING_CONNECT", "CONNECTED"}
    /\ selected \in {"none", "WRITE", "READ"} /\ {idle, crashed, divided} \subseteq BOOLEAN
    /\ msgqueue \in Seq(Event \cup {Null})
    /\ life \in [Event -> {"unsent", "live", "deleted"}] /\ requests \subseteq SMS
    /\ told \in Seq([event : Event, delivered : BOOLEAN])
    /\ server.taken \subseteq [1 .. 3 -> Event \cup {Null}]
    /\ faults \in 0 .. MaxFaults /\ responses \in 0 .. MaxFaults

IsAnswered(e) == \E i \in DOMAIN told : told[i].event = e

\* An e-mail that is told delivered was taken by the server, with its own
\* sender, recipient and text, however connections fail.  (A divided line puts
\* the dialogue out of step, and three of them let a text be taken with the
\* sender and the recipient of another e-mail.)
DeliveredIsTaken ==
    ~divided =>
        \A i \in DOMAIN told :
            told[i].delivered /\ told[i].event \in Email =>
                <<told[i].event, told[i].event, told[i].event>> \in server.taken

\* Where an event is in the queue, and among what was told
QueuedAt(e) == {i \in DOMAIN msgqueue : msgqueue[i] = e}
ToldAt(e) == {i \in DOMAIN told : told[i].event = e}

\* An e-mail waits in the queue or has been answered, once and not both.
NeitherLostNorRepeated ==
    \A e \in Email : life[e] # "unsent" =>
        \/ ToldAt(e) = {} /\ \E i \in DOMAIN msgqueue : QueuedAt(e) = {i}
        \/ QueuedAt(e) = {} /\ \E i \in DOMAIN told : ToldAt(e) = {i}

\* The program waits only for sockets that are open, and in the dialogue for
\* something to read; a dialogue has an event to speak of.
DialogueGoesOn ==
    /\ selected # "none" => socket # "NOT_CONNECTED"
    /\ state \in DOMAIN Expected => selected = "READ" /\ socket = "CONNECTED" /\ msgqueue # <<>>

\* Without SMS messages and connections that come about at once no event is
\* used after it was deleted.
EmailCannotCrash ==
    crashed => Null \in ToSet(msgqueue) \/ \E e \in SMS : life[e] = "deleted"

\* Every e-mail is answered in the end, unless a line was divided or a
\* connection came about at once.
EmailEnds ==
    \A e \in Email :
        (life[e] = "live") ~> (IsAnswered(e) \/ divided \/ Null \in ToSet(msgqueue) \/ crashed)

\* Each e-mail is in the queue or has been answered once, truly, and the
\* dialogue about it goes on without touching what was deleted.
MailIsDelivered ==
    DeliveredIsTaken /\ NeitherLostNorRepeated /\ DialogueGoesOn /\ EmailCannotCrash
=============================================================================
