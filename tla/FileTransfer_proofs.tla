------------------------ MODULE FileTransfer_proofs ------------------------
(***************************************************************************)
(* Proofs about FileTransfer, and about MCFileTransfer, which adds Mail.   *)
(*                                                                         *)
(* What the two ends agree on is TransferInv.  SenderOK and ReceiverOK say *)
(* of each end alone which file it is at, how far, and what its flags and  *)
(* stream mean; ToSender and ToReceiver what may be on its way to it; Pair *)
(* how the two fit: InStep while both are connected (the greeting, the     *)
(* same file, or the sender one name ahead), Finishing once the sender is  *)
(* complete, and Stuck for a sender whose receiver has given up.           *)
(*                                                                         *)
(* A callback reads many packets before anything is written back.  So the  *)
(* parts of the invariant are restated for the middle of a callback, for   *)
(* the end as it is after some packets and the packets that are left       *)
(* (SenderMid, JointMid and StuckMid; ReceiverMid, BothMid and FinishMid): *)
(* one lemma for each kind of packet, SenderRecv and ReceiverRecv by the   *)
(* least number of packets read that would break them, and lemmas on what  *)
(* a failed send, a DisconnectedException and Settle make of the end.      *)
(*                                                                         *)
(* Mail comes first, for all sets of e-mails and SMS messages and every    *)
(* number of faults.  Of the four parts of MailIsDelivered, what is told   *)
(* delivered needs most: the server's reply must be the one the client     *)
(* waits for, so StepOK follows the envelope that the server has through   *)
(* the states of the dialogue.  FlowOK says which states, sockets and      *)
(* selections go together, and QueueOK where each e-mail is.               *)
(***************************************************************************)
EXTENDS MCFileTransfer, SequenceTheorems, FiniteSetTheorems, WellFoundedInduction, TLAPS

-----------------------------------------------------------------------------
(* Mail: the SMTP server and what is on its way from it.                   *)

ReplyLine == [code : Nat, half : {"whole", "early", "late", "back"}]
Server ==
    [at : {"closed", "silent", "greeted", "ready", "mail", "rcpt", "data"},
     from : Event \cup {Null}, to : Event \cup {Null},
     taken : SUBSET [1 .. 3 -> Event \cup {Null}]]

\* The values the world's variables take
WorldOK ==
    /\ server \in Server /\ lines \in Seq(ReplyLine) /\ divided \in BOOLEAN
    /\ faults \in 0 .. MaxFaults /\ responses \in 0 .. MaxFaults

\* What the server may do: where it is then, and its replies
Answer == [server : Server, codes : Seq(Nat), faults : {0, 1}]

\* At most one reply is on its way, and whole.
OneReply == lines = <<>> \/ \E c \in Nat : lines = <<[code |-> c, half |-> "whole"]>>
Heard(c) == lines = <<[code |-> c, half |-> "whole"]>>

-----------------------------------------------------------------------------
(* Mail: the inductive invariant.                                          *)

\* The variables have their types.
MailTypes == MailTypeOK /\ WorldOK /\ recv \in Seq(ReplyLine)

\* Which states of the client, its socket and its selection go together, and
\* that the dialogue about an event has one.
FlowOK ==
    /\ DialogueGoesOn
    /\ selected = "READ" =>
          socket = "CONNECTED" /\ state \in DOMAIN Expected \cup {"DISCONNECTING"}
    /\ selected = "WRITE" => state = "WAITING_FOR_CONNECT"
    /\ state = "NOT_CONNECTED" => selected = "none"
    /\ state = "WAITING_FOR_CONNECT" => msgqueue # <<>>
    /\ state \in OfEvent /\ ~crashed => Head(msgqueue) # Null

\* Each e-mail is where it should be, and a deleted one in no queue.
QueueOK ==
    /\ NeitherLostNorRepeated
    /\ \A e \in Email :
          /\ life[e] = "unsent" => QueuedAt(e) = {} /\ ToldAt(e) = {}
          /\ life[e] = "deleted" => QueuedAt(e) = {}
    /\ EmailCannotCrash

\* The server has the envelope of the e-mail in front as far as the dialogue
\* has come, and the reply on its way says of it what the client will think.
EnvelopeOK(h) ==
    /\ state # "WAITING_FOR_MAIL_ACK" \/ Heard(250) => server.from = h
    /\ (\/ state \in {"WAITING_FOR_DATA_ACK", "WAITING_FOR_TEXT_ACK"}
        \/ state = "WAITING_FOR_RCPT_ACK" /\ Heard(250)) => server.to = h
    /\ state = "WAITING_FOR_DATA_ACK" /\ Heard(354) => server.at = "data"
    /\ state = "WAITING_FOR_TEXT_ACK" /\ Heard(250) => <<h, h, h>> \in server.taken

\* As long as no line is divided, replies come one by one.
WireOK == ~divided => recv = <<>> /\ OneReply
StepOK == ~divided /\ ~crashed /\ state \in OfEvent => EnvelopeOK(Head(msgqueue))

MailInv == MailTypes /\ FlowOK /\ QueueOK /\ WireOK /\ StepOK /\ DeliveredIsTaken

-----------------------------------------------------------------------------
(* Mail: lemmas about the server and the connection to it.                 *)

\* An event that is sent for, and the server's word for nobody, are names.
LEMMA Envelope ==
  ASSUME NEW s \in Server, NEW e \in Event \cup {Null}
  PROVE  <<s.from, s.to, e>> \in [1 .. 3 -> Event \cup {Null}]
BY DEF Server

\* The lines of a reply
LEMMA ReplyType ==
  ASSUME NEW codes \in Seq(Nat), NEW how \in {"whole", "early", "late"}
  PROVE  Reply(codes, how) \in Seq(ReplyLine)
<1>1. CASE codes = <<>>
  BY <1>1 DEF Reply
<1>2. CASE codes # <<>>
  <2>1. Len(codes) \in Nat /\ Len(codes) >= 1 /\ \A i \in 1 .. Len(codes) : codes[i] \in Nat
    BY <1>2
  <2>2. Line(codes[1], how) \in Seq(ReplyLine)
    <3>1. \A h \in {"whole", "early", "late", "back"} : [code |-> codes[1], half |-> h] \in ReplyLine
      BY <2>1 DEF ReplyLine
    <3>2. CASE how = "whole"
      BY <3>1, <3>2 DEF Line
    <3>3. CASE how # "whole"
      BY <3>1, <3>3 DEF Line
    <3> QED BY <3>2, <3>3
  <2>3. [i \in 1 .. Len(codes) - 1 |-> [code |-> codes[i + 1], half |-> "whole"]] \in Seq(ReplyLine)
    <3>1. Len(codes) - 1 \in Nat
      BY <2>1
    <3>2. \A i \in 1 .. Len(codes) - 1 : [code |-> codes[i + 1], half |-> "whole"] \in ReplyLine
      BY <2>1 DEF ReplyLine
    <3> QED BY <3>1, <3>2
  <2> QED BY <1>2, <2>2, <2>3, ConcatProperties DEF Reply
<1> QED BY <1>1, <1>2

\* A single whole reply is one whole line.
LEMMA ReplyWhole ==
  ASSUME NEW c \in Nat
  PROVE  Reply(<<c>>, "whole") = <<[code |-> c, half |-> "whole"]>>
<1>1. [i \in 1 .. Len(<<c>>) - 1 |-> [code |-> <<c>>[i + 1], half |-> "whole"]] = <<>>
  OBVIOUS
<1>2. Line(<<c>>[1], "whole") = <<[code |-> c, half |-> "whole"]>>
  BY DEF Line
<1>3. <<[code |-> c, half |-> "whole"]>> \in Seq(ReplyLine)
  BY DEF ReplyLine
<1>4. Reply(<<c>>, "whole") = <<[code |-> c, half |-> "whole"]>> \o <<>>
  BY <1>1, <1>2 DEF Reply
<1> QED BY <1>3, <1>4, ConcatEmptySeq

\* An answer, and one that costs a fault
LEMMA AnswerType ==
  ASSUME NEW s \in Server, NEW c \in Nat
  PROVE  /\ Says(s, c) \in Answer /\ Says(s, c).server = s /\ Says(s, c).codes = <<c>>
         /\ Hush(s) \in Answer /\ Hush(s).server = s /\ Hush(s).codes = <<>>
BY DEF Says, Hush, Answer

LEMMA CostlyType ==
  ASSUME NEW a \in Answer
  PROVE  Costly(a) \in Answer /\ Costly(a).server = a.server /\ Costly(a).codes = a.codes
BY DEF Costly, Answer

\* Where the server is may change without its envelope.
LEMMA ServerMoves ==
  ASSUME NEW s \in Server,
         NEW at \in {"closed", "silent", "greeted", "ready", "mail", "rcpt", "data"}
  PROVE  LET t == [s EXCEPT !.at = at]
         IN  t \in Server /\ t.at = at /\ t.from = s.from /\ t.to = s.to /\ t.taken = s.taken
BY DEF Server

\* What the server says of its greeting
LEMMA GreetingsKnown ==
  ASSUME NEW s \in Server, NEW a \in Greetings(s)
  PROVE  /\ a \in Answer /\ a.server.taken = s.taken
         /\ a.codes = <<>> \/ \E c \in Nat : a.codes = <<c>>
<1> DEFINE greeted == [s EXCEPT !.at = "greeted"]
           silent == [s EXCEPT !.at = "silent"]
<1>1. greeted \in Server /\ silent \in Server /\ greeted.taken = s.taken /\ silent.taken = s.taken
  BY ServerMoves
<1>2. a \in {Says(greeted, 220), Costly(Says(greeted, 500)), Costly(Hush(silent))}
  BY DEF Greetings
<1> HIDE DEF greeted, silent
<1>3. CASE a = Says(greeted, 220)
  BY <1>1, <1>3, AnswerType
<1>4. CASE a = Costly(Says(greeted, 500))
  <2>1. Says(greeted, 500) \in Answer /\ Says(greeted, 500).server = greeted /\ Says(greeted, 500).codes = <<500>>
    BY <1>1, AnswerType
  <2> QED BY <1>1, <1>4, <2>1, CostlyType
<1>5. CASE a = Costly(Hush(silent))
  <2>1. Hush(silent) \in Answer /\ Hush(silent).server = silent /\ Hush(silent).codes = <<>>
    BY <1>1, AnswerType
  <2> QED BY <1>1, <1>5, <2>1, CostlyType
<1> QED BY <1>2, <1>3, <1>4, <1>5

\* What the answer to a command says of the envelope: only MAIL and RCPT
\* change it, and only when they are accepted is it sure to be theirs.
Envelops(s, command, e, a) ==
    /\ command # "MAIL" => a.server.from = s.from
    /\ command # "RCPT" => a.server.to = s.to
    /\ s.taken \subseteq a.server.taken
    /\ command = "MAIL" /\ a.codes = <<250>> => a.server.from = e
    /\ command = "RCPT" /\ a.codes = <<250>> => a.server.to = e
    /\ command = "DATA" /\ a.codes = <<354>> => a.server.at = "data"
    /\ command = "TEXT" /\ a.codes = <<250>> => <<s.from, s.to, e>> \in a.server.taken
    /\ command = "TEXT" => s.at # "data" \/ a.codes = <<>> \/ \E c \in Nat : a.codes = <<c>>
    /\ command # "TEXT" => a.codes = <<>> \/ \E c \in Nat : a.codes = <<c>>

Commands == {"HELO", "MAIL", "RCPT", "DATA", "TEXT", "QUIT"}

\* An answer may have other codes.
LEMMA OtherCodes ==
  ASSUME NEW r \in Answer, NEW codes \in Seq(Nat)
  PROVE  /\ [r EXCEPT !.codes = codes] \in Answer
         /\ [r EXCEPT !.codes = codes].server = r.server /\ [r EXCEPT !.codes = codes].codes = codes
<1>1. r \in [server : Server, codes : Seq(Nat), faults : {0, 1}]
  BY DEF Answer
<1> QED BY <1>1 DEF Answer

\* What the server makes of a command
LEMMA UnderstoodKnown ==
  ASSUME NEW s \in Server, NEW command \in Commands, NEW e \in Event \cup {Null},
         NEW a \in Understood(s, command, e)
  PROVE  a \in Answer /\ Envelops(s, command, e, a)
<1> DEFINE no == Says(s, 500)
<1>1. no \in Answer /\ no.server = s /\ no.codes = <<500>>
  BY AnswerType
<1>2. CASE a = no
  <2> HIDE DEF no
  <2>1. <<500>> # <<250>> /\ <<500>> # <<354>>
    OBVIOUS
  <2> QED BY <1>1, <1>2, <2>1 DEF Envelops
<1>3. CASE command = "HELO"
  <2> DEFINE t == [s EXCEPT !.at = "ready"]
  <2>1. t \in Server /\ t.from = s.from /\ t.to = s.to /\ t.taken = s.taken
    BY ServerMoves
  <2>2. a = Says(t, 250) \/ a = Costly(no)
    BY <1>3 DEF Understood
  <2> HIDE DEF t, no
  <2>3. CASE a = Says(t, 250)
    BY <1>3, <2>1, <2>3, AnswerType DEF Envelops
  <2>4. CASE a = Costly(no)
    BY <1>1, <1>3, <2>4, CostlyType DEF Envelops
  <2> QED BY <2>2, <2>3, <2>4
<1>4. CASE command = "MAIL" /\ a # no
  <2> DEFINE t == [s EXCEPT !.at = "mail", !.from = e]
  <2>1. t \in Server /\ t.from = e /\ t.to = s.to /\ t.taken = s.taken
    BY DEF Server
  <2>2. a = Says(t, 250)
    BY <1>4 DEF Understood
  <2> HIDE DEF t, no
  <2> QED BY <1>4, <2>1, <2>2, AnswerType DEF Envelops
<1>5. CASE command = "RCPT" /\ a # no
  <2> DEFINE t == [s EXCEPT !.at = "rcpt", !.to = e]
  <2>1. t \in Server /\ t.to = e /\ t.from = s.from /\ t.taken = s.taken
    BY DEF Server
  <2>2. a = Says(t, 250)
    BY <1>5 DEF Understood
  <2> HIDE DEF t, no
  <2> QED BY <1>5, <2>1, <2>2, AnswerType DEF Envelops
<1>6. CASE command = "DATA" /\ a # no
  <2> DEFINE t == [s EXCEPT !.at = "data"]
  <2>1. t \in Server /\ t.at = "data" /\ t.from = s.from /\ t.to = s.to /\ t.taken = s.taken
    BY ServerMoves
  <2>2. a = Says(t, 354)
    BY <1>6 DEF Understood
  <2> HIDE DEF t, no
  <2> QED BY <1>6, <2>1, <2>2, AnswerType DEF Envelops
<1>7. CASE command = "TEXT" /\ s.at = "data"
  <2> DEFINE t == [s EXCEPT !.at = "ready", !.taken = @ \cup {<<s.from, s.to, e>>}]
             u == [s EXCEPT !.at = "ready"]
  <2>1. t \in Server /\ t.from = s.from /\ t.to = s.to
        /\ t.taken = s.taken \cup {<<s.from, s.to, e>>}
    BY Envelope DEF Server
  <2>2. u \in Server /\ u.from = s.from /\ u.to = s.to /\ u.taken = s.taken
    BY ServerMoves
  <2>3. a = Says(t, 250) \/ a = Says(u, 500)
    BY <1>7 DEF Understood
  <2> HIDE DEF t, u, no
  <2>4. CASE a = Says(t, 250)
    BY <1>7, <2>1, <2>4, AnswerType DEF Envelops
  <2>5. CASE a = Says(u, 500)
    <3>1. <<500>> # <<250>>
      OBVIOUS
    <3> QED BY <1>7, <2>2, <2>5, <3>1, AnswerType DEF Envelops
  <2> QED BY <2>3, <2>4, <2>5
<1>8. CASE command = "TEXT" /\ s.at # "data" /\ a # no
  <2>1. a = [no EXCEPT !.codes = <<500, 500>>]
    BY <1>8 DEF Understood
  <2> HIDE DEF no
  <2>2. a \in Answer /\ a.server = s /\ a.codes = <<500, 500>>
    <3>1. PICK codes : codes = <<500, 500>>
      OBVIOUS
    <3>2. codes \in Seq(Nat)
      BY <3>1
    <3>3. no \in Answer /\ no.server = s
      BY <1>1
    <3>4. a = [no EXCEPT !.codes = codes]
      BY <2>1, <3>1
    <3>5. a \in Answer /\ a.server = s /\ a.codes = codes
      BY <3>2, <3>3, <3>4, OtherCodes, Zenon
    <3> QED BY <3>1, <3>5
  <2>3. <<500, 500>> # <<250>>
    OBVIOUS
  <2> QED BY <1>8, <2>2, <2>3 DEF Envelops
<1>9. CASE command = "QUIT"
  <2> DEFINE t == [s EXCEPT !.at = "closed"]
  <2>1. t \in Server /\ t.from = s.from /\ t.to = s.to /\ t.taken = s.taken
    BY ServerMoves
  <2>2. a = Says(t, 221)
    BY <1>9 DEF Understood
  <2> HIDE DEF t, no
  <2> QED BY <1>9, <2>1, <2>2, AnswerType DEF Envelops
<1> QED BY <1>2, <1>3, <1>4, <1>5, <1>6, <1>7, <1>8, <1>9 DEF Commands

\* What the server answers, or does instead
LEMMA AnswersKnown ==
  ASSUME NEW s \in Server, NEW command \in Commands, NEW e \in Event \cup {Null},
         NEW a \in Answers(s, command, e)
  PROVE  a \in Answer /\ Envelops(s, command, e, a)
<1>1. CASE a = Hush(s)
  <2>1. <<>> # <<250>> /\ <<>> # <<354>>
    OBVIOUS
  <2> QED BY <1>1, <2>1, AnswerType DEF Envelops
<1>2. CASE \E at \in {"closed", "silent"} : a = Costly(Hush([s EXCEPT !.at = at]))
  <2>1. PICK at \in {"closed", "silent"} : a = Costly(Hush([s EXCEPT !.at = at]))
    BY <1>2
  <2> DEFINE t == [s EXCEPT !.at = at]
  <2>2. t \in Server /\ t.from = s.from /\ t.to = s.to /\ t.taken = s.taken
    <3>1. at \in {"closed", "silent", "greeted", "ready", "mail", "rcpt", "data"}
      BY <2>1
    <3> QED BY <3>1, ServerMoves
  <2> HIDE DEF t
  <2>3. a = Costly(Hush(t))
    BY <2>1 DEF t
  <2>4. Hush(t) \in Answer /\ Hush(t).server = t /\ Hush(t).codes = <<>>
    BY <2>2, AnswerType
  <2>5. a \in Answer /\ a.server = t /\ a.codes = <<>>
    BY <2>3, <2>4, CostlyType
  <2>6. <<>> # <<250>> /\ <<>> # <<354>>
    OBVIOUS
  <2> QED BY <2>2, <2>5, <2>6 DEF Envelops
<1>3. CASE a \in Understood(s, command, e)
  BY <1>3, UnderstoodKnown
<1> QED BY <1>1, <1>2, <1>3 DEF Answers

\* A fault counts.
LEMMA FaultOK ==
  ASSUME WorldOK, NEW n \in Nat, Fault(n)
  PROVE  faults' \in 0 .. MaxFaults
BY MailAssumption DEF WorldOK, Fault

\* The other end hangs up.
LEMMA HangUpOK ==
  ASSUME WorldOK, NEW n \in Nat, HangUp(n)
  PROVE  /\ server' \in Server /\ lines' = <<>> /\ lines' \in Seq(ReplyLine) /\ divided' = divided
         /\ faults' \in 0 .. MaxFaults /\ server'.taken = server.taken
<1>1. faults' \in 0 .. MaxFaults
  BY FaultOK DEF HangUp
<1>2. server' \in Server /\ server'.taken = server.taken
  BY ServerMoves DEF HangUp, WorldOK
<1> QED BY <1>1, <1>2 DEF HangUp

\* One of the answers comes.
LEMMA AnsweredOK ==
  ASSUME WorldOK, NEW A, A \subseteq Answer, NEW before \in Seq(ReplyLine), Answered(A, before)
  PROVE  /\ lines' \in Seq(ReplyLine) /\ faults' \in 0 .. MaxFaults
         /\ divided' \in BOOLEAN /\ (divided => divided')
         /\ \E a \in A : server' = a.server /\ (~divided' => lines' = before \o Reply(a.codes, "whole"))
<1>1. PICK a \in A, how \in {"whole", "early", "late"} :
         /\ Fault(a.faults + IF how = "whole" THEN 0 ELSE 1)
         /\ server' = a.server /\ lines' = before \o Reply(a.codes, how)
         /\ divided' = (divided \/ how # "whole")
  BY DEF Answered
<1>2. a.codes \in Seq(Nat) /\ a.faults \in {0, 1}
  BY DEF Answer
<1>3. Reply(a.codes, how) \in Seq(ReplyLine)
  BY <1>2, ReplyType
<1>4. lines' \in Seq(ReplyLine)
  BY <1>1, <1>3, ConcatProperties
<1>5. faults' \in 0 .. MaxFaults
  <2>1. (a.faults + IF how = "whole" THEN 0 ELSE 1) \in Nat
    BY <1>2
  <2> QED BY <1>1, <2>1, FaultOK
<1>6. divided' \in BOOLEAN /\ (divided => divided')
  BY <1>1 DEF WorldOK
<1>7. ~divided' => lines' = before \o Reply(a.codes, "whole")
  BY <1>1
<1> QED BY <1>1, <1>4, <1>5, <1>6, <1>7

\* A reply of at most one code is at most one line.
LEMMA OneCode ==
  ASSUME NEW codes, codes = <<>> \/ \E c \in Nat : codes = <<c>>
  PROVE  LET r == <<>> \o Reply(codes, "whole")
         IN  \/ codes = <<>> /\ r = <<>>
             \/ \E c \in Nat : codes = <<c>> /\ r = <<[code |-> c, half |-> "whole"]>>
<1>1. CASE codes = <<>>
  <2>1. Reply(codes, "whole") = <<>>
    BY <1>1 DEF Reply
  <2>2. <<>> \o <<>> = <<>>
    OBVIOUS
  <2> QED BY <1>1, <2>1, <2>2
<1>2. ASSUME NEW c \in Nat, codes = <<c>>
      PROVE  <<>> \o Reply(codes, "whole") = <<[code |-> c, half |-> "whole"]>>
  <2>1. Reply(codes, "whole") = <<[code |-> c, half |-> "whole"]>>
    BY <1>2, ReplyWhole
  <2>2. <<[code |-> c, half |-> "whole"]>> \in Seq(ReplyLine)
    BY DEF ReplyLine
  <2> QED BY <2>1, <2>2, ConcatEmptySeq
<1> QED BY <1>1, <1>2

\* A greeting comes.
LEMMA GreetedOK ==
  ASSUME WorldOK, Answered(Greetings(server), <<>>)
  PROVE  /\ server' \in Server /\ lines' \in Seq(ReplyLine) /\ faults' \in 0 .. MaxFaults
         /\ divided' \in BOOLEAN /\ (divided => divided') /\ server'.taken = server.taken
         /\ ~divided' => OneReply'
<1>1. server \in Server /\ <<>> \in Seq(ReplyLine)
  BY DEF WorldOK
<1>2. Greetings(server) \subseteq Answer
  BY <1>1, GreetingsKnown
<1>3. /\ lines' \in Seq(ReplyLine) /\ faults' \in 0 .. MaxFaults
      /\ divided' \in BOOLEAN /\ (divided => divided')
  BY <1>1, <1>2, AnsweredOK
<1>4. PICK a \in Greetings(server) :
         server' = a.server /\ (~divided' => lines' = <<>> \o Reply(a.codes, "whole"))
  BY <1>1, <1>2, AnsweredOK
<1>5. /\ a \in Answer /\ a.server.taken = server.taken
      /\ a.codes = <<>> \/ \E c \in Nat : a.codes = <<c>>
  BY <1>1, GreetingsKnown
<1>6. ~divided' => OneReply'
  BY <1>4, <1>5, OneCode DEF OneReply
<1> QED BY <1>3, <1>4, <1>5, <1>6 DEF Answer

\* What a command comes to: the event in front is gone, or the command is
\* sent and may be answered, or the sending fails.
Crashes(command, q) ==
    /\ command \in {"MAIL", "RCPT", "TEXT"}
    /\ q = <<>> \/ Head(q) = Null \/ life'[Head(q)] = "deleted"
    /\ crashed' = TRUE /\ UNCHANGED <<state, socket, selected, world>>
Spoken(command, q, rest) ==
    /\ command \in {"MAIL", "RCPT", "TEXT"} => q # <<>> /\ Head(q) # Null
    /\ UNCHANGED <<crashed, socket, selected>> /\ state' = After[command]
    /\ \E a \in Answer, e \in Event \cup {Null} :
          /\ q # <<>> => e = Head(q)
          /\ Envelops(server, command, e, a) /\ server' = a.server
          /\ ~divided' => lines' = rest \o Reply(a.codes, "whole")
Fails ==
    /\ UNCHANGED <<crashed, divided>> /\ lines' = <<>> /\ server'.taken = server.taken
    /\ state' = "NOT_CONNECTED" /\ socket' = "NOT_CONNECTED" /\ selected' = "none"

\* Say does one of these.
LEMMA SayOK ==
  ASSUME WorldOK, NEW command \in Commands, NEW q \in Seq(Event \cup {Null}),
         NEW rest \in Seq(ReplyLine), Say(command, q, rest)
  PROVE  /\ msgqueue' = q
         /\ server' \in Server /\ lines' \in Seq(ReplyLine) /\ divided' \in BOOLEAN
         /\ faults' \in 0 .. MaxFaults /\ server.taken \subseteq server'.taken
         /\ (divided => divided')
         /\ Crashes(command, q) \/ Spoken(command, q, rest) \/ Fails
<1> DEFINE e == IF q = <<>> THEN Null ELSE Head(q)
           ofEvent == command \in {"MAIL", "RCPT", "TEXT"}
<1>1. e \in Event \cup {Null} /\ (q # <<>> => e = Head(q))
  BY HeadTailProperties
<1>2. msgqueue' = q
  BY DEF Say
<1>3. CASE /\ ofEvent /\ (IF e = Null THEN TRUE ELSE life'[e] = "deleted")
           /\ crashed' = TRUE /\ UNCHANGED <<state, socket, selected, world>>
  BY <1>2, <1>3 DEF Crashes, world, WorldOK
<1>4. CASE /\ (ofEvent => e # Null) /\ UNCHANGED crashed
           /\ state' = After[command] /\ UNCHANGED <<socket, selected>>
           /\ Answered(Answers(server, command, e), rest)
  <2> HIDE DEF e
  <2>1. server \in Server
    BY DEF WorldOK
  <2>2. Answers(server, command, e) \subseteq Answer
    BY <1>1, <2>1, AnswersKnown
  <2>3. /\ lines' \in Seq(ReplyLine) /\ faults' \in 0 .. MaxFaults
        /\ divided' \in BOOLEAN /\ (divided => divided')
    BY <1>4, <2>2, AnsweredOK
  <2>4. PICK a \in Answers(server, command, e) :
          server' = a.server /\ (~divided' => lines' = rest \o Reply(a.codes, "whole"))
    BY <1>4, <2>2, AnsweredOK
  <2>5. a \in Answer /\ Envelops(server, command, e, a)
    BY <1>1, <2>1, AnswersKnown
  <2>6. server' \in Server /\ server.taken \subseteq server'.taken
    BY <2>4, <2>5 DEF Answer, Envelops
  <2>7. ofEvent => q # <<>> /\ Head(q) # Null
    BY <1>1, <1>4 DEF e
  <2>8. Spoken(command, q, rest)
    BY <1>1, <1>4, <2>4, <2>5, <2>7 DEF Spoken
  <2> QED BY <1>2, <2>3, <2>6, <2>8
<1>5. CASE UNCHANGED crashed /\ SendFails
  <2>1. HangUp(1)
    BY <1>5 DEF SendFails
  <2>2. /\ server' \in Server /\ lines' = <<>> /\ lines' \in Seq(ReplyLine) /\ divided' = divided
        /\ faults' \in 0 .. MaxFaults /\ server'.taken = server.taken
    BY <2>1, HangUpOK
  <2>3. Fails
    BY <1>5, <2>2 DEF Fails, SendFails
  <2> QED BY <1>2, <2>2, <2>3 DEF WorldOK
<1> QED BY <1>3, <1>4, <1>5 DEF Say

-----------------------------------------------------------------------------
(* Mail: lemmas about the queue and what was told.                         *)

\* A set of naturals has a least element.  (The library's theorem about the order
\* of the naturals takes an operator; that of the subsets of a finite set does not.)
LEMMA Least ==
  ASSUME NEW N \in Nat, NEW T \in SUBSET (0..N), T # {}
  PROVE  \E n \in T : \A k \in T : n <= k
<1> DEFINE R == StrictSubsetOrdering(0..N)
           S == FiniteSubsetsOf(0..N)
           Below == {0..(n - 1) : n \in T}
<1>1. IsWellFoundedOn(R, S)
  BY FS_StrictSubsetOrderingWellFounded
<1>2. Below \subseteq S /\ Below # {}
  <2>1. ASSUME NEW n \in T PROVE 0..(n - 1) \in S
    <3>1. n - 1 \in Int /\ 0..(n - 1) \subseteq 0..N
      OBVIOUS
    <3>2. IsFiniteSet(0..(n - 1))
      BY <3>1, FS_Interval
    <3> QED BY <3>1, <3>2 DEF FiniteSubsetsOf
  <2> QED BY <2>1
<1>3. PICK B \in Below : \A C \in Below : <<C, B>> \notin R
  <2> HIDE DEF R, S, Below
  <2> QED BY <1>1, <1>2, WFMin
<1>4. PICK n \in T : B = 0..(n - 1)
  OBVIOUS
<1>5. ASSUME NEW k \in T, k < n PROVE FALSE
  <2>1. 0..(k - 1) \in Below /\ B \in Below
    OBVIOUS
  <2>2. 0..(k - 1) \subseteq 0..N /\ B \subseteq 0..N
    BY <1>4
  <2>3. 0..(k - 1) \subseteq B /\ 0..(k - 1) # B
    <3>1. k \in B /\ k \notin 0..(k - 1)
      BY <1>4, <1>5
    <3>2. 0..(k - 1) \subseteq B
      BY <1>4, <1>5
    <3> QED BY <3>1, <3>2
  <2>4. <<0..(k - 1), B>> \in R
    BY <2>2, <2>3 DEF StrictSubsetOrdering
  <2> QED BY <1>3, <2>1, <2>4
<1> QED BY <1>5

\* Where a line ends is a place in what was read, or 0.
LEMMA LineEndType ==
  ASSUME NEW r \in Seq(ReplyLine)
  PROVE  LineEnd(r) \in Nat
<1> DEFINE I == {i \in 1 .. Len(r) : r[i].half \in {"whole", "back"}}
<1>1. LineEnd(r) = IF I # {} THEN Min(I) ELSE 0
  BY DEF LineEnd, SelectInSeq
<1>2. I \subseteq 0 .. Len(r) /\ I \subseteq Nat /\ Len(r) \in Nat
  OBVIOUS
<1> HIDE DEF I
<1>3. CASE I # {}
  <2>1. \E n \in I : \A k \in I : n <= k
    BY <1>2, <1>3, Least
  <2>2. Min(I) \in I
    BY <2>1 DEF Min
  <2> QED BY <1>1, <1>2, <1>3, <2>2
<1> QED BY <1>1, <1>3

\* A whole line is read to its end.
LEMMA WholeLine ==
  ASSUME NEW c \in Nat
  PROVE  LET r == <<[code |-> c, half |-> "whole"]>>
         IN  LineEnd(r) = 1 /\ Code(r) = c
<1> DEFINE r == <<[code |-> c, half |-> "whole"]>>
           I == {i \in 1 .. Len(r) : r[i].half \in {"whole", "back"}}
<1>1. r[1].half = "whole" /\ r[1].code = c /\ Len(r) = 1
  OBVIOUS
<1>2. I = {1}
  BY <1>1
<1>3. LineEnd(r) = Min(I)
  BY <1>2 DEF LineEnd, SelectInSeq
<1>4. LineEnd(r) = 1
  BY <1>2, <1>3 DEF Min
<1>5. Code(r) = c
  <2> HIDE DEF r
  <2> QED BY <1>1, <1>4 DEF Code
<1> QED BY <1>4, <1>5

\* Where an element is in a sequence
At(s, e) == {i \in DOMAIN s : s[i] = e}

\* Another element at the end moves none.
LEMMA AppendOther ==
  ASSUME NEW S, NEW s \in Seq(S), NEW x \in S, NEW e, x # e
  PROVE  At(Append(s, x), e) = At(s, e)
BY AppendProperties DEF At

\* An element at the end is there.
LEMMA AppendIt ==
  ASSUME NEW S, NEW s \in Seq(S), NEW e \in S, At(s, e) = {}
  PROVE  \E i \in DOMAIN Append(s, e) : At(Append(s, e), e) = {i}
<1>1. /\ DOMAIN Append(s, e) = 1 .. Len(s) + 1 /\ Len(s) \in Nat
      /\ \A i \in 1 .. Len(s) : Append(s, e)[i] = s[i]
      /\ Append(s, e)[Len(s) + 1] = e
  BY AppendProperties
<1>2. \A i \in 1 .. Len(s) : s[i] # e
  BY DEF At
<1> DEFINE t == Append(s, e)
<1>3. PICK n : n = Len(s) + 1
  OBVIOUS
<1>4. n \in DOMAIN t /\ \A i \in DOMAIN t : t[i] = e <=> i = n
  BY <1>1, <1>2, <1>3
<1> HIDE DEF t
<1>5. At(t, e) = {n}
  BY <1>4 DEF At
<1> QED BY <1>4, <1>5 DEF t

\* Without its first element a sequence has the others one place before.
LEMMA TailOther ==
  ASSUME NEW S, NEW s \in Seq(S), s # <<>>, NEW e, Head(s) # e
  PROVE  /\ At(s, e) = {} => At(Tail(s), e) = {}
         /\ (\E i \in DOMAIN s : At(s, e) = {i}) => \E i \in DOMAIN Tail(s) : At(Tail(s), e) = {i}
<1>1. /\ DOMAIN s = 1 .. Len(s) /\ Len(s) \in Nat /\ Len(s) >= 1 /\ Head(s) = s[1]
      /\ DOMAIN Tail(s) = 1 .. Len(s) - 1
      /\ \A i \in 1 .. Len(s) - 1 : Tail(s)[i] = s[i + 1]
  BY HeadTailProperties
<1>2. At(s, e) = {} => At(Tail(s), e) = {}
  BY <1>1 DEF At
<1>3. ASSUME NEW i \in DOMAIN s, At(s, e) = {i}
      PROVE  \E j \in DOMAIN Tail(s) : At(Tail(s), e) = {j}
  <2>1. s[i] = e /\ \A j \in 1 .. Len(s) : s[j] = e => j = i
    BY <1>1, <1>3 DEF At
  <2>2. i # 1
    BY <1>1, <2>1
  <2>3. i - 1 \in 1 .. Len(s) - 1
    BY <1>1, <2>2
  <2>4. Tail(s)[i - 1] = e
    BY <1>1, <2>1, <2>3
  <2>5. \A j \in 1 .. Len(s) - 1 : Tail(s)[j] = e => j = i - 1
    BY <1>1, <2>1
  <2>6. At(Tail(s), e) = {i - 1}
    BY <1>1, <2>3, <2>4, <2>5 DEF At
  <2> QED BY <1>1, <2>3, <2>6
<1> QED BY <1>2, <1>3

\* What was first, and only there, is gone.
LEMMA TailIt ==
  ASSUME NEW S, NEW s \in Seq(S), s # <<>>, NEW i \in DOMAIN s, At(s, Head(s)) = {i}
  PROVE  At(Tail(s), Head(s)) = {}
<1>1. /\ DOMAIN s = 1 .. Len(s) /\ Len(s) \in Nat /\ Len(s) >= 1 /\ Head(s) = s[1]
      /\ DOMAIN Tail(s) = 1 .. Len(s) - 1
      /\ \A j \in 1 .. Len(s) - 1 : Tail(s)[j] = s[j + 1]
  BY HeadTailProperties
<1>2. \A j \in 1 .. Len(s) : s[j] = Head(s) => j = i
  BY <1>1 DEF At
<1>3. i = 1
  BY <1>1, <1>2
<1> QED BY <1>1, <1>2, <1>3 DEF At

\* The first element stays first when others come.
LEMMA HeadStays ==
  ASSUME NEW S, NEW s \in Seq(S), NEW x \in S
  PROVE  /\ Append(s, x) \in Seq(S) /\ Append(s, x) # <<>>
         /\ s # <<>> => Head(Append(s, x)) = Head(s)
         /\ ToSet(s) \subseteq ToSet(Append(s, x)) /\ x \in ToSet(Append(s, x))
<1>1. /\ Append(s, x) \in Seq(S) /\ Append(s, x) # <<>> /\ Len(Append(s, x)) = Len(s) + 1
      /\ \A i \in 1 .. Len(s) : Append(s, x)[i] = s[i]
      /\ Append(s, x)[Len(s) + 1] = x /\ Len(s) \in Nat
  BY AppendProperties
<1>2. s # <<>> => Head(Append(s, x)) = Head(s)
  BY HeadTailAppend
<1>3. ToSet(s) \subseteq ToSet(Append(s, x)) /\ x \in ToSet(Append(s, x))
  <2>1. DOMAIN s = 1 .. Len(s) /\ DOMAIN Append(s, x) = 1 .. Len(s) + 1
    BY <1>1
  <2> QED BY <1>1, <2>1 DEF ToSet
<1> QED BY <1>1, <1>2, <1>3

\* One more thing is told.
LEMMA Told ==
  ASSUME told \in Seq([event : Event, delivered : BOOLEAN]),
         NEW x \in Event, NEW ok \in BOOLEAN, Acknowledge(x, ok)
  PROVE  /\ told' \in Seq([event : Event, delivered : BOOLEAN])
         /\ \A e \in Event \ {x} : ToldAt(e)' = ToldAt(e)
         /\ ToldAt(x) = {} => \E i \in DOMAIN told' : ToldAt(x)' = {i}
         /\ \A e \in Event \ {x} : (\E i \in DOMAIN told : ToldAt(e) = {i})
                => \E i \in DOMAIN told' : ToldAt(e)' = {i}
         /\ \A i \in DOMAIN told' : \/ i \in DOMAIN told /\ told'[i] = told[i]
                                   \/ told'[i] = [event |-> x, delivered |-> ok]
<1> DEFINE t == [event |-> x, delivered |-> ok]
<1>1. t \in [event : Event, delivered : BOOLEAN] /\ t.event = x
  OBVIOUS
<1>2. told' = Append(told, t)
  BY DEF Acknowledge
<1> HIDE DEF t
<1>3. /\ told' \in Seq([event : Event, delivered : BOOLEAN])
      /\ DOMAIN told' = 1 .. Len(told) + 1 /\ DOMAIN told = 1 .. Len(told) /\ Len(told) \in Nat
      /\ \A i \in 1 .. Len(told) : told'[i] = told[i]
      /\ told'[Len(told) + 1] = t
  BY <1>1, <1>2, AppendProperties
<1>4. \A e \in Event \ {x} : ToldAt(e)' = ToldAt(e)
  BY <1>1, <1>3 DEF ToldAt
<1>5. ASSUME ToldAt(x) = {} PROVE \E i \in DOMAIN told' : ToldAt(x)' = {i}
  <2>1. \A i \in 1 .. Len(told) : told[i].event # x
    BY <1>3, <1>5 DEF ToldAt
  <2>2. ToldAt(x)' = {Len(told) + 1}
    BY <1>1, <1>3, <2>1 DEF ToldAt
  <2> QED BY <1>3, <2>2
<1>6. \A i \in DOMAIN told' : (i \in DOMAIN told /\ told'[i] = told[i]) \/ told'[i] = t
  BY <1>3
<1>7. DOMAIN told \subseteq DOMAIN told'
  BY <1>3
<1> QED BY <1>3, <1>4, <1>5, <1>6, <1>7 DEF t

-----------------------------------------------------------------------------
(* Mail: what steps have in common.                                        *)

\* The client's variables and the world's have their types, and the server
\* has not forgotten what it took, nor the connection that it was divided.
GoesOn ==
    /\ state' \in DOMAIN Expected \cup {"NOT_CONNECTED", "WAITING_FOR_CONNECT", "DISCONNECTING"}
    /\ socket' \in {"NOT_CONNECTED", "NONBLOCKING_CONNECT", "CONNECTED"}
    /\ selected' \in {"none", "WRITE", "READ"} /\ idle' \in BOOLEAN
    /\ server' \in Server /\ lines' \in Seq(ReplyLine) /\ divided' \in BOOLEAN
    /\ faults' \in 0 .. MaxFaults
    /\ server.taken \subseteq server'.taken /\ (divided => divided')

\* The types of all else
LEMMA TypeStep ==
  ASSUME MailTypes, GoesOn, recv' \in Seq(ReplyLine), crashed' \in BOOLEAN,
         msgqueue' \in Seq(Event \cup {Null}),
         life' \in [Event -> {"unsent", "live", "deleted"}], requests' \subseteq SMS,
         told' \in Seq([event : Event, delivered : BOOLEAN]), responses' \in 0 .. MaxFaults
  PROVE  MailTypes'
<1>1. server'.taken \subseteq [1 .. 3 -> Event \cup {Null}]
  BY DEF GoesOn, Server
<1> QED BY <1>1 DEF MailTypes, MailTypeOK, WorldOK, GoesOn

\* What was told delivered stays true.
LEMMA TakenStep ==
  ASSUME DeliveredIsTaken, GoesOn, UNCHANGED told
  PROVE  DeliveredIsTaken'
BY DEF DeliveredIsTaken, GoesOn

\* E-mails are where they were.
LEMMA QueueSame ==
  ASSUME QueueOK, UNCHANGED <<msgqueue, told>>, \A e \in Email : life'[e] = life[e],
         EmailCannotCrash'
  PROVE  QueueOK'
<1>1. \A e \in Email : QueuedAt(e)' = QueuedAt(e) /\ ToldAt(e)' = ToldAt(e)
  BY DEF QueuedAt, ToldAt
<1> QED BY <1>1 DEF QueueOK, NeitherLostNorRepeated

\* What is no e-mail joins the queue.
LEMMA QueueJoined ==
  ASSUME QueueOK, MailTypes, UNCHANGED told, NEW x \in (Event \cup {Null}) \ Email,
         msgqueue' = Append(msgqueue, x), \A e \in Email : life'[e] = life[e], EmailCannotCrash'
  PROVE  QueueOK'
<1>1. msgqueue \in Seq(Event \cup {Null})
  BY DEF MailTypes, MailTypeOK
<1>2. ASSUME NEW e \in Email PROVE QueuedAt(e)' = QueuedAt(e) /\ ToldAt(e)' = ToldAt(e)
  <2>1. At(Append(msgqueue, x), e) = At(msgqueue, e)
    BY <1>1, AppendOther
  <2> QED BY <2>1 DEF QueuedAt, ToldAt, At
<1>3. DOMAIN msgqueue \subseteq DOMAIN msgqueue'
  BY <1>1, AppendProperties
<1> QED BY <1>2, <1>3 DEF QueueOK, NeitherLostNorRepeated

\* A dialogue goes on when nothing about it changes but the end of the queue.
LEMMA StepSame ==
  ASSUME StepOK, UNCHANGED <<state, lines, server, divided, crashed>>,
         state \in OfEvent => Head(msgqueue') = Head(msgqueue)
  PROVE  StepOK'
BY DEF StepOK, EnvelopeOK, Heard, OfEvent

\* In a state of an event there is one in front.
LEMMA InFront ==
  ASSUME MailTypes, FlowOK, state \in OfEvent
  PROVE  /\ msgqueue # <<>> /\ Head(msgqueue) \in Event \cup {Null}
         /\ Tail(msgqueue) \in Seq(Event \cup {Null})
         /\ ~crashed => Head(msgqueue) \in Event
<1>1. msgqueue # <<>>
  BY DEF FlowOK, DialogueGoesOn, OfEvent, Expected
<1>2. msgqueue \in Seq(Event \cup {Null})
  BY DEF MailTypes, MailTypeOK
<1> QED BY <1>1, <1>2, HeadTailProperties DEF FlowOK

\* SMTPClient::Connect
LEMMA ConnectOK ==
  ASSUME MailTypes, Connect
  PROVE  /\ GoesOn /\ (~divided' => OneReply')
         /\ \/ state' = "NOT_CONNECTED" /\ selected' = "none"
            \/ state' = "WAITING_FOR_CONNECT" /\ selected' = "WRITE" /\ socket' # "NOT_CONNECTED"
<1>1. WorldOK /\ idle \in BOOLEAN
  BY DEF MailTypes, MailTypeOK
<1>2. CASE SocketThrows /\ Disconnect
  <2>1. HangUp(1) \/ HangUp(0)
    BY <1>2 DEF SocketThrows
  <2>2. /\ server' \in Server /\ lines' = <<>> /\ lines' \in Seq(ReplyLine) /\ divided' = divided
        /\ faults' \in 0 .. MaxFaults /\ server'.taken = server.taken
    BY <1>1, <2>1, HangUpOK
  <2> QED BY <1>1, <1>2, <2>2 DEF Disconnect, GoesOn, OneReply, WorldOK
<1>3. CASE SocketConnects /\ state' = "WAITING_FOR_CONNECT" /\ selected' = "WRITE" /\ idle' = FALSE
  <2>1. CASE socket' = "NONBLOCKING_CONNECT" /\ HangUp(0)
    <3>1. /\ server' \in Server /\ lines' = <<>> /\ lines' \in Seq(ReplyLine) /\ divided' = divided
          /\ faults' \in 0 .. MaxFaults /\ server'.taken = server.taken
      BY <1>1, <2>1, HangUpOK
    <3> QED BY <1>1, <1>3, <2>1, <3>1 DEF GoesOn, OneReply, WorldOK
  <2>2. CASE socket' = "CONNECTED" /\ Answered(Greetings(server), <<>>)
    <3>1. /\ server' \in Server /\ lines' \in Seq(ReplyLine) /\ faults' \in 0 .. MaxFaults
          /\ divided' \in BOOLEAN /\ (divided => divided') /\ server'.taken = server.taken
          /\ ~divided' => OneReply'
      BY <1>1, <2>2, GreetedOK
    <3> QED BY <1>1, <1>3, <2>2, <3>1 DEF GoesOn
  <2> QED BY <1>3, <2>1, <2>2 DEF SocketConnects
<1> QED BY <1>2, <1>3 DEF Connect

\* The client connects for a queue that is not empty.
LEMMA ConnectFlow ==
  ASSUME MailTypes, WireOK, Connect, UNCHANGED recv, msgqueue' # <<>>
  PROVE  FlowOK' /\ WireOK' /\ StepOK'
<1>1. /\ GoesOn /\ (~divided' => OneReply')
      /\ \/ state' = "NOT_CONNECTED" /\ selected' = "none"
         \/ state' = "WAITING_FOR_CONNECT" /\ selected' = "WRITE" /\ socket' # "NOT_CONNECTED"
  BY ConnectOK
<1>2. WireOK'
  BY <1>1 DEF WireOK, GoesOn
<1>3. FlowOK' /\ StepOK'
  BY <1>1 DEF FlowOK, DialogueGoesOn, Expected, OfEvent, StepOK
<1> QED BY <1>2, <1>3

\* SMTPClient::SendEvent, when nothing crashes
LEMMA QueueEventOK ==
  ASSUME MailTypes, FlowOK, WireOK, StepOK, NEW x \in Event, ~crashed, UNCHANGED recv,
         QueueEvent(Append(msgqueue, x)), crashed' \in BOOLEAN
  PROVE  GoesOn /\ FlowOK' /\ WireOK' /\ StepOK'
<1> DEFINE q == Append(msgqueue, x)
<1>1. msgqueue \in Seq(Event \cup {Null}) /\ WorldOK
  BY DEF MailTypes, MailTypeOK
<1>2. /\ q \in Seq(Event \cup {Null}) /\ q # <<>>
      /\ msgqueue # <<>> => Head(q) = Head(msgqueue)
  BY <1>1, HeadStays
<1>3. msgqueue' = q
  BY DEF QueueEvent
<1> HIDE DEF q
<1>4. CASE state = "NOT_CONNECTED"
  <2>1. Connect
    BY <1>4 DEF QueueEvent
  <2> QED BY <1>2, <1>3, <2>1, ConnectOK, ConnectFlow
<1>5. CASE state # "NOT_CONNECTED"
  <2>1. UNCHANGED <<client, world>>
    BY <1>5 DEF QueueEvent
  <2>2. GoesOn
    BY <1>1, <2>1 DEF GoesOn, MailTypes, MailTypeOK, WorldOK, client, world
  <2>3. state \in OfEvent => Head(msgqueue') = Head(msgqueue)
    BY <1>2, <1>3, InFront
  <2>4. FlowOK'
    BY <1>2, <1>3, <2>1, <2>3 DEF FlowOK, DialogueGoesOn, client
  <2>5. WireOK'
    BY <2>1 DEF WireOK, OneReply, world
  <2>6. StepOK'
    BY <2>1, <2>3 DEF StepOK, EnvelopeOK, Heard, client, world
  <2> QED BY <2>2, <2>4, <2>5, <2>6
<1> QED BY <1>4, <1>5

-----------------------------------------------------------------------------
(* Mail: the actions that parse no reply.                                  *)

\* The user sends an e-mail.
LEMMA SendEmailOK == ASSUME MailInv, NEW e \in Email, SendEmail(e) PROVE MailInv'
<1>1. MailTypes /\ FlowOK /\ QueueOK /\ WireOK /\ StepOK /\ DeliveredIsTaken
  BY DEF MailInv
<1>2. /\ life[e] = "unsent" /\ life' = [life EXCEPT ![e] = "live"] /\ QueueEvent(Append(msgqueue, e))
      /\ ~crashed /\ UNCHANGED <<recv, requests, told, crashed, responses>> /\ e \in Event
      /\ msgqueue' = Append(msgqueue, e)
  BY DEF SendEmail, Event, QueueEvent
<1>3. /\ msgqueue \in Seq(Event \cup {Null}) /\ life \in [Event -> {"unsent", "live", "deleted"}]
      /\ crashed \in BOOLEAN /\ Email \subseteq Event
  BY <1>1 DEF MailTypes, MailTypeOK, Event
<1>4. GoesOn /\ FlowOK' /\ WireOK' /\ StepOK'
  BY <1>1, <1>2, <1>3, QueueEventOK
<1>5. msgqueue' \in Seq(Event \cup {Null}) /\ life' \in [Event -> {"unsent", "live", "deleted"}]
  BY <1>2, <1>3, HeadStays
<1>6. MailTypes'
  BY <1>1, <1>2, <1>4, <1>5, TypeStep DEF MailTypes, MailTypeOK
<1>7. QueueOK'
  <2>1. ASSUME NEW d \in Email, d # e
        PROVE  QueuedAt(d)' = QueuedAt(d) /\ ToldAt(d)' = ToldAt(d) /\ life'[d] = life[d]
    <3>1. At(Append(msgqueue, e), d) = At(msgqueue, d)
      BY <1>2, <1>3, <2>1, AppendOther
    <3> QED BY <1>2, <1>3, <2>1, <3>1 DEF QueuedAt, ToldAt, At
  <2>2. life'[e] = "live" /\ ToldAt(e)' = {} /\ \E i \in DOMAIN msgqueue' : QueuedAt(e)' = {i}
    <3>1. QueuedAt(e) = {} /\ ToldAt(e) = {}
      BY <1>1, <1>2 DEF QueueOK
    <3>2. \E i \in DOMAIN Append(msgqueue, e) : At(Append(msgqueue, e), e) = {i}
      BY <1>2, <1>3, <3>1, AppendIt DEF QueuedAt, At
    <3>3. ToldAt(e)' = {}
      BY <1>2, <3>1 DEF ToldAt
    <3> QED BY <1>2, <1>3, <3>2, <3>3 DEF QueuedAt, At
  <2>3. DOMAIN msgqueue \subseteq DOMAIN msgqueue'
    BY <1>2, <1>3, AppendProperties
  <2>4. NeitherLostNorRepeated'
    BY <1>1, <1>2, <2>1, <2>2, <2>3 DEF QueueOK, NeitherLostNorRepeated
  <2>5. EmailCannotCrash'
    BY <1>2 DEF EmailCannotCrash
  <2> QED BY <1>1, <2>1, <2>2, <2>4, <2>5 DEF QueueOK
<1>8. DeliveredIsTaken'
  BY <1>1, <1>2, <1>4, TakenStep
<1> QED BY <1>4, <1>6, <1>7, <1>8 DEF MailInv

\* A step that leaves the e-mails alone keeps what it does not touch.
LEMMA ElsewhereOK ==
  ASSUME MailInv, GoesOn, UNCHANGED <<msgqueue, recv, life, requests, told, crashed, responses>>
  PROVE  MailTypes' /\ QueueOK' /\ DeliveredIsTaken'
<1>1. MailTypes /\ QueueOK /\ DeliveredIsTaken
  BY DEF MailInv
<1>2. MailTypes'
  BY <1>1, TypeStep DEF MailTypes, MailTypeOK
<1>3. EmailCannotCrash'
  BY <1>1 DEF QueueOK, EmailCannotCrash
<1> QED BY <1>1, <1>2, <1>3, QueueSame, TakenStep

\* The poll connects, or ends what took too long.
LEMMA PollOK == ASSUME MailInv, Poll PROVE MailInv'
<1>1. MailTypes /\ FlowOK /\ WireOK /\ StepOK /\ WorldOK
  BY DEF MailInv, MailTypes
<1>2. msgqueue' # <<>> /\ UNCHANGED <<msgqueue, recv, life, requests, told, crashed, responses>>
  BY DEF Poll
<1>3. CASE Connect
  <2>1. GoesOn /\ FlowOK' /\ WireOK' /\ StepOK'
    BY <1>1, <1>2, <1>3, ConnectOK, ConnectFlow
  <2> QED BY <1>2, <2>1, ElsewhereOK DEF MailInv
<1>4. CASE Disconnect /\ HangUp(0)
  <2>1. /\ server' \in Server /\ lines' = <<>> /\ lines' \in Seq(ReplyLine) /\ divided' = divided
        /\ faults' \in 0 .. MaxFaults /\ server'.taken = server.taken
    BY <1>1, <1>4, HangUpOK
  <2>2. GoesOn
    BY <1>1, <1>4, <2>1 DEF GoesOn, Disconnect, MailTypes, MailTypeOK
  <2>3. FlowOK' /\ StepOK'
    BY <1>4 DEF Disconnect, FlowOK, DialogueGoesOn, Expected, OfEvent, StepOK
  <2>4. WireOK'
    BY <1>1, <1>2, <2>1 DEF WireOK, OneReply
  <2> QED BY <1>2, <2>2, <2>3, <2>4, ElsewhereOK DEF MailInv
<1> QED BY <1>3, <1>4 DEF Poll

\* The other end closes the connection.
LEMMA OtherEndClosesOK == ASSUME MailInv, OtherEndCloses PROVE MailInv'
<1>1. MailTypes /\ WireOK /\ WorldOK
  BY DEF MailInv, MailTypes
<1>2. UNCHANGED <<msgqueue, recv, life, requests, told, crashed, responses>> /\ Disconnect /\ HangUp(0)
  BY DEF OtherEndCloses
<1>3. /\ server' \in Server /\ lines' = <<>> /\ lines' \in Seq(ReplyLine) /\ divided' = divided
      /\ faults' \in 0 .. MaxFaults /\ server'.taken = server.taken
  BY <1>1, <1>2, HangUpOK
<1>4. GoesOn
  BY <1>1, <1>2, <1>3 DEF GoesOn, Disconnect, MailTypes, MailTypeOK, WorldOK
<1>5. FlowOK' /\ StepOK'
  BY <1>2 DEF Disconnect, FlowOK, DialogueGoesOn, Expected, OfEvent, StepOK
<1>6. WireOK'
  BY <1>1, <1>2, <1>3 DEF WireOK, OneReply
<1> QED BY <1>2, <1>4, <1>5, <1>6, ElsewhereOK DEF MailInv

\* Time passes.
LEMMA TimePassesOK == ASSUME MailInv, TimePasses PROVE MailInv'
<1>1. MailTypes /\ FlowOK /\ WireOK /\ StepOK /\ WorldOK
  BY DEF MailInv, MailTypes
<1>2. /\ UNCHANGED <<state, socket, selected, msgqueue, recv, life, requests, told, crashed,
                     server, lines, divided, responses>>
      /\ idle' = TRUE
  BY DEF TimePasses
<1>3. faults' \in 0 .. MaxFaults
  BY <1>1, FaultOK DEF TimePasses
<1>4. GoesOn
  BY <1>1, <1>2, <1>3 DEF GoesOn, MailTypes, MailTypeOK, WorldOK
<1>5. FlowOK' /\ WireOK'
  BY <1>1, <1>2 DEF FlowOK, DialogueGoesOn, WireOK, OneReply
<1>6. StepOK'
  BY <1>1, <1>2, StepSame
<1> QED BY <1>2, <1>4, <1>5, <1>6, ElsewhereOK DEF MailInv

\* The connection is established, or has failed.
LEMMA FinishOK == ASSUME MailInv, FinishNonBlockingConnect PROVE MailInv'
<1>1. MailTypes /\ FlowOK /\ WireOK /\ StepOK /\ WorldOK
  BY DEF MailInv, MailTypes
<1>2. /\ UNCHANGED <<idle, msgqueue, recv, life, requests, told, crashed, responses>>
      /\ selected = "WRITE"
  BY DEF FinishNonBlockingConnect
<1>3. state = "WAITING_FOR_CONNECT" /\ msgqueue # <<>>
  BY <1>1, <1>2 DEF FlowOK
<1>4. CASE socket' = "NOT_CONNECTED" /\ selected' = "none" /\ HangUp(1) /\ UNCHANGED state
  <2>1. /\ server' \in Server /\ lines' = <<>> /\ lines' \in Seq(ReplyLine) /\ divided' = divided
        /\ faults' \in 0 .. MaxFaults /\ server'.taken = server.taken
    BY <1>1, <1>4, HangUpOK
  <2>2. GoesOn
    BY <1>1, <1>2, <1>4, <2>1 DEF GoesOn, MailTypes, MailTypeOK, WorldOK
  <2>3. FlowOK' /\ StepOK'
    BY <1>2, <1>3, <1>4 DEF FlowOK, DialogueGoesOn, Expected, OfEvent, StepOK
  <2>4. WireOK'
    BY <1>1, <1>2, <2>1 DEF WireOK, OneReply
  <2> QED BY <1>2, <2>2, <2>3, <2>4, ElsewhereOK DEF MailInv
<1>5. CASE /\ socket' = "CONNECTED" /\ selected' = "READ" /\ state' = "WAITING_FOR_INVITATION"
           /\ Answered(Greetings(server), <<>>)
  <2>1. /\ server' \in Server /\ lines' \in Seq(ReplyLine) /\ faults' \in 0 .. MaxFaults
        /\ divided' \in BOOLEAN /\ (divided => divided') /\ server'.taken = server.taken
        /\ ~divided' => OneReply'
    BY <1>1, <1>5, GreetedOK
  <2>2. GoesOn
    BY <1>1, <1>2, <1>5, <2>1 DEF GoesOn, MailTypes, MailTypeOK, Expected
  <2>3. FlowOK' /\ StepOK'
    BY <1>2, <1>3, <1>5 DEF FlowOK, DialogueGoesOn, Expected, OfEvent, StepOK
  <2>4. WireOK'
    BY <1>1, <1>2, <2>1 DEF WireOK
  <2> QED BY <1>2, <2>2, <2>3, <2>4, ElsewhereOK DEF MailInv
<1> QED BY <1>4, <1>5 DEF FinishNonBlockingConnect

\* The answer to a deleted event crashes, and that event is an SMS message.
LEMMA AnswerDeletedOK == ASSUME MailInv, AnswerDeleted PROVE MailInv'
<1>1. MailTypes /\ FlowOK /\ QueueOK /\ WireOK /\ StepOK /\ DeliveredIsTaken
  BY DEF MailInv
<1>2. /\ UNCHANGED <<client, msgqueue, recv, life, requests, told, world, responses>>
      /\ state \in OfEvent /\ ~crashed /\ life[Head(msgqueue)] = "deleted" /\ crashed' = TRUE
  BY DEF AnswerDeleted
<1>3. Head(msgqueue) \in SMS
  <2>1. msgqueue # <<>> /\ Head(msgqueue) \in Event /\ msgqueue \in Seq(Event \cup {Null})
    BY <1>1, <1>2, InFront DEF MailTypes, MailTypeOK
  <2>2. 1 \in QueuedAt(Head(msgqueue))
    BY <2>1, HeadTailProperties DEF QueuedAt
  <2>3. Head(msgqueue) \notin Email
    BY <1>1, <1>2, <2>2 DEF QueueOK
  <2> QED BY <2>1, <2>3 DEF Event
<1>4. GoesOn
  BY <1>1, <1>2 DEF GoesOn, MailTypes, MailTypeOK, WorldOK, client, world
<1>5. MailTypes'
  BY <1>1, <1>2, <1>4, TypeStep DEF MailTypes, MailTypeOK
<1>6. QueueOK'
  <2>1. EmailCannotCrash'
    BY <1>2, <1>3 DEF EmailCannotCrash
  <2> QED BY <1>1, <1>2, <2>1, QueueSame
<1>7. FlowOK' /\ WireOK' /\ StepOK'
  BY <1>1, <1>2 DEF FlowOK, DialogueGoesOn, WireOK, OneReply, StepOK, client, world
<1> QED BY <1>1, <1>2, <1>4, <1>5, <1>6, <1>7, TakenStep DEF MailInv

\* What is read and what is left of it are lines.
LEMMA ReadType ==
  ASSUME MailTypes, NEW n \in 0 .. Len(lines)
  PROVE  LET r == recv \o SubSeq(lines, 1, n)
         IN  /\ r \in Seq(ReplyLine) /\ SubSeq(r, LineEnd(r) + 1, Len(r)) \in Seq(ReplyLine)
             /\ SubSeq(lines, n + 1, Len(lines)) \in Seq(ReplyLine)
<1> DEFINE r == recv \o SubSeq(lines, 1, n)
<1>1. recv \in Seq(ReplyLine) /\ lines \in Seq(ReplyLine) /\ Len(lines) \in Nat
  BY DEF MailTypes, WorldOK
<1>2. SubSeq(lines, 1, n) \in Seq(ReplyLine) /\ SubSeq(lines, n + 1, Len(lines)) \in Seq(ReplyLine)
  BY <1>1, SubSeqProperties
<1>3. r \in Seq(ReplyLine)
  BY <1>1, <1>2, ConcatProperties
<1> HIDE DEF r
<1>4. LineEnd(r) \in Nat /\ Len(r) \in Nat
  BY <1>3, LineEndType
<1>5. SubSeq(r, LineEnd(r) + 1, Len(r)) \in Seq(ReplyLine)
  BY <1>3, <1>4, SubSeqProperties
<1> QED BY <1>2, <1>3, <1>5 DEF r

\* As long as no line is divided, what is read is one reply or none.
LEMMA ReadWhole ==
  ASSUME MailTypes, WireOK, ~divided, NEW n \in 0 .. Len(lines)
  PROVE  LET r == recv \o SubSeq(lines, 1, n)
             rest == SubSeq(lines, n + 1, Len(lines))
         IN  /\ SubSeq(r, LineEnd(r) + 1, Len(r)) = <<>>
             /\ n = 0 => rest = lines
             /\ n # 0 => rest = <<>> /\ \E c \in Nat : Heard(c) /\ Code(r) = c
<1> DEFINE r == recv \o SubSeq(lines, 1, n)
           rest == SubSeq(lines, n + 1, Len(lines))
<1>1. recv = <<>> /\ OneReply /\ lines \in Seq(ReplyLine)
  BY DEF MailTypes, WorldOK, WireOK
<1>2. \A t \in Seq(ReplyLine) : <<>> \o t = t
  BY ConcatEmptySeq
<1>3. CASE n = 0
  <2>1. SubSeq(lines, 1, n) = <<>> /\ <<>> \in Seq(ReplyLine)
    BY <1>1, <1>3, SubSeqProperties
  <2>2. r = <<>>
    BY <1>1, <1>2, <2>1
  <2>3. rest = lines
    <3>1. Len(lines) \in Nat /\ \A i \in 1 .. Len(lines) : lines[i] \in ReplyLine
      BY <1>1
    <3> QED BY <1>1, <1>3, <3>1
  <2> HIDE DEF r
  <2>4. LineEnd(r) \in Nat
    BY <2>1, <2>2, LineEndType
  <2>5. SubSeq(r, LineEnd(r) + 1, Len(r)) = <<>>
    <3>1. Len(r) = 0 /\ LineEnd(r) + 1 > 0 /\ r \in Seq(ReplyLine)
      BY <2>1, <2>2, <2>4
    <3> QED BY <2>4, <3>1, SubSeqProperties
  <2> QED BY <1>3, <2>3, <2>5 DEF r
<1>4. CASE n # 0
  <2>1. PICK c \in Nat : lines = <<[code |-> c, half |-> "whole"]>>
    BY <1>1, <1>4 DEF OneReply
  <2>2. Len(lines) = 1 /\ n = 1
    BY <1>4, <2>1
  <2>3. SubSeq(lines, 1, n) = lines /\ rest = <<>>
    <3> DEFINE front == SubSeq(lines, 1, n)
    <3>1. \A i \in 1 .. n : lines[i] \in ReplyLine
      BY <1>1
    <3>2. front \in Seq(ReplyLine) /\ Len(front) = 1 /\ front[1] = lines[1]
      BY <2>2, <3>1, SubSeqProperties
    <3> HIDE DEF front
    <3>3. front = lines
      BY <1>1, <2>2, <3>2
    <3>4. rest = <<>>
      BY <2>2, SubSeqEmpty
    <3> QED BY <3>3, <3>4 DEF front
  <2>4. r = lines
    BY <1>1, <1>2, <2>3
  <2>5. LineEnd(r) = 1 /\ Code(r) = c
    BY <2>1, <2>4, WholeLine
  <2>6. SubSeq(r, LineEnd(r) + 1, Len(r)) = <<>>
    <3>1. Len(r) = 1 /\ LineEnd(r) = 1
      BY <2>2, <2>4, <2>5
    <3> HIDE DEF r
    <3> QED BY <3>1, SubSeqEmpty
  <2> QED BY <1>4, <2>1, <2>3, <2>5, <2>6 DEF Heard
<1> QED BY <1>3, <1>4

\* The socket that was connected at once is taken to be writable.
LEMMA WriteConnectedOK == ASSUME MailInv, NEW n \in 0 .. Len(lines), WriteConnected(n) PROVE MailInv'
<1> DEFINE r == recv \o SubSeq(lines, 1, n)
           rest == SubSeq(lines, n + 1, Len(lines))
<1>1. MailTypes /\ FlowOK /\ QueueOK /\ WireOK /\ StepOK /\ DeliveredIsTaken
  BY DEF MailInv
<1>2. /\ UNCHANGED <<state, socket, selected, life, requests, told, crashed, server, faults,
                     divided, responses>>
      /\ selected = "WRITE" /\ idle' = (idle /\ n = 0)
      /\ recv' = SubSeq(r, LineEnd(r) + 1, Len(r)) /\ lines' = rest
      /\ msgqueue' = IF Null \in ToSet(msgqueue) THEN msgqueue ELSE Append(msgqueue, Null)
  BY DEF WriteConnected
<1>3. state = "WAITING_FOR_CONNECT" /\ msgqueue # <<>> /\ msgqueue \in Seq(Event \cup {Null})
  BY <1>1, <1>2 DEF FlowOK, MailTypes, MailTypeOK
<1>4. recv' \in Seq(ReplyLine) /\ lines' \in Seq(ReplyLine)
  BY <1>1, <1>2, ReadType
<1>5. idle' \in BOOLEAN
  BY <1>2
<1>6. GoesOn
  BY <1>1, <1>2, <1>4, <1>5 DEF GoesOn, MailTypes, MailTypeOK, WorldOK
<1>7. msgqueue' \in Seq(Event \cup {Null}) /\ msgqueue' # <<>>
  BY <1>2, <1>3, HeadStays
<1>8. MailTypes'
  BY <1>1, <1>2, <1>4, <1>6, <1>7, TypeStep DEF MailTypes, MailTypeOK
<1>9. QueueOK'
  <2>1. EmailCannotCrash'
    <3>1. crashed => Null \in ToSet(msgqueue) \/ \E e \in SMS : life[e] = "deleted"
      BY <1>1 DEF QueueOK, EmailCannotCrash
    <3>2. ToSet(msgqueue) \subseteq ToSet(msgqueue')
      BY <1>2, <1>3, HeadStays
    <3> QED BY <1>2, <3>1, <3>2 DEF EmailCannotCrash
  <2>2. CASE Null \in ToSet(msgqueue)
    BY <1>1, <1>2, <2>1, <2>2, QueueSame
  <2>3. CASE Null \notin ToSet(msgqueue)
    <3>1. Null \in (Event \cup {Null}) \ Email
      BY MailAssumption DEF Event
    <3> QED BY <1>1, <1>2, <2>1, <2>3, <3>1, QueueJoined
  <2> QED BY <2>2, <2>3
<1>10. FlowOK' /\ StepOK'
  BY <1>1, <1>2, <1>3, <1>7 DEF FlowOK, DialogueGoesOn, Expected, OfEvent, StepOK
<1>11. WireOK'
  <2> SUFFICES ASSUME ~divided' PROVE recv' = <<>> /\ OneReply'
    BY DEF WireOK
  <2>1. ~divided /\ OneReply
    BY <1>1, <1>2 DEF WireOK
  <2>2. recv' = <<>> /\ (lines' = lines \/ lines' = <<>>)
    BY <1>1, <1>2, <2>1, ReadWhole
  <2> QED BY <2>1, <2>2 DEF OneReply
<1> QED BY <1>1, <1>2, <1>6, <1>8, <1>9, <1>10, <1>11, TakenStep DEF MailInv

-----------------------------------------------------------------------------
(* Mail: SMS messages.                                                     *)

\* The user sends an SMS message.
LEMMA SendSMSOK == ASSUME MailInv, NEW e \in SMS, SendSMS(e) PROVE MailInv'
<1>1. MailTypes /\ FlowOK /\ QueueOK /\ WireOK /\ StepOK /\ DeliveredIsTaken
  BY DEF MailInv
<1>2. /\ life' = [life EXCEPT ![e] = "live"] /\ requests' = requests \cup {e} /\ ~crashed
      /\ UNCHANGED <<client, msgqueue, recv, told, crashed, world, responses>>
  BY DEF SendSMS
<1>3. /\ life' \in [Event -> {"unsent", "live", "deleted"}] /\ requests' \subseteq SMS
      /\ \A d \in Email : life'[d] = life[d]
  BY <1>1, <1>2, MailAssumption DEF MailTypes, MailTypeOK, Event
<1>4. GoesOn
  BY <1>1, <1>2 DEF GoesOn, MailTypes, MailTypeOK, WorldOK, client, world
<1>5. MailTypes'
  BY <1>1, <1>2, <1>3, <1>4, TypeStep DEF MailTypes, MailTypeOK
<1>6. QueueOK'
  BY <1>1, <1>2, <1>3, QueueSame DEF EmailCannotCrash
<1>7. FlowOK' /\ WireOK'
  BY <1>1, <1>2 DEF FlowOK, DialogueGoesOn, WireOK, OneReply, client, world
<1>8. StepOK'
  BY <1>1, <1>2, StepSame DEF client, world
<1> QED BY <1>1, <1>2, <1>4, <1>5, <1>6, <1>7, <1>8, TakenStep DEF MailInv

\* The request of an SMS message is removed, with its event.
LEMMA RemovedOK ==
  ASSUME MailInv, NEW e \in SMS, ~crashed, RemoveRequest(e), UNCHANGED <<client, msgqueue, recv, world>>,
         told' \in Seq([event : Event, delivered : BOOLEAN]), responses' \in 0 .. MaxFaults
  PROVE  /\ MailTypes' /\ FlowOK' /\ WireOK' /\ StepOK' /\ GoesOn /\ EmailCannotCrash'
         /\ \A d \in Email : life'[d] = life[d]
<1>1. MailTypes /\ FlowOK /\ WireOK /\ StepOK
  BY DEF MailInv
<1>2. /\ requests' = requests \ {e} /\ life' = [life EXCEPT ![e] = "deleted"]
      /\ crashed' \in {FALSE, life[e] = "deleted"} /\ crashed' \in BOOLEAN
  BY DEF RemoveRequest
<1>3. /\ life' \in [Event -> {"unsent", "live", "deleted"}] /\ requests' \subseteq SMS
      /\ life'[e] = "deleted" /\ \A d \in Email : life'[d] = life[d]
  BY <1>1, <1>2, MailAssumption DEF MailTypes, MailTypeOK, Event
<1>4. GoesOn
  BY <1>1 DEF GoesOn, MailTypes, MailTypeOK, WorldOK, client, world
<1>5. MailTypes'
  BY <1>1, <1>2, <1>3, <1>4, TypeStep DEF MailTypes, MailTypeOK
<1>6. FlowOK' /\ WireOK' /\ StepOK'
  <2>1. FlowOK' /\ WireOK'
    BY <1>1 DEF FlowOK, DialogueGoesOn, WireOK, OneReply, client, world
  <2>2. StepOK'
    BY <1>1 DEF StepOK, EnvelopeOK, Heard, client, world
  <2> QED BY <2>1, <2>2
<1> QED BY <1>3, <1>4, <1>5, <1>6 DEF EmailCannotCrash

\* The request of an SMS message expires.
LEMMA ExpireSMSOK == ASSUME MailInv, NEW e \in SMS, ExpireSMS(e) PROVE MailInv'
<1>1. /\ RemoveRequest(e) /\ ~crashed
      /\ UNCHANGED <<client, msgqueue, recv, told, world, responses>>
  BY DEF ExpireSMS
<1>2. /\ MailTypes' /\ FlowOK' /\ WireOK' /\ StepOK' /\ GoesOn /\ EmailCannotCrash'
      /\ \A d \in Email : life'[d] = life[d]
  BY <1>1, RemovedOK DEF MailInv, MailTypes, MailTypeOK
<1> QED BY <1>1, <1>2, QueueSame, TakenStep DEF MailInv

\* The SMS server answers.
LEMMA SMSResponseOK ==
  ASSUME MailInv, NEW e \in SMS, NEW deliverable \in {"Yes", "No", "SMTP"},
         SMSResponse(e, deliverable)
  PROVE  MailInv'
<1>1. MailTypes /\ FlowOK /\ QueueOK /\ WireOK /\ StepOK /\ DeliveredIsTaken
  BY DEF MailInv
<1>2. /\ ~crashed /\ UNCHANGED recv /\ responses' = responses + 1
      /\ faults + responses < MaxFaults
  BY DEF SMSResponse
<1>3. responses' \in 0 .. MaxFaults
  BY <1>1, <1>2, MailAssumption DEF MailTypes, MailTypeOK
<1>4. e \in Event /\ e \notin Email /\ e \in (Event \cup {Null}) \ Email
  BY MailAssumption DEF Event
<1>5. CASE RemoveRequest(e) /\ Acknowledge(e, deliverable = "Yes") /\ UNCHANGED <<client, msgqueue, world>>
  <2>1. PICK ok \in BOOLEAN : Acknowledge(e, ok)
    BY <1>5
  <2>2. /\ told' \in Seq([event : Event, delivered : BOOLEAN])
        /\ \A d \in Event \ {e} : ToldAt(d)' = ToldAt(d)
        /\ \A d \in Event \ {e} : (\E i \in DOMAIN told : ToldAt(d) = {i})
               => \E i \in DOMAIN told' : ToldAt(d)' = {i}
        /\ \A i \in DOMAIN told' : \/ i \in DOMAIN told /\ told'[i] = told[i]
                                  \/ told'[i] = [event |-> e, delivered |-> ok]
    BY <1>1, <1>4, <2>1, Told DEF MailTypes, MailTypeOK
  <2>3. /\ MailTypes' /\ FlowOK' /\ WireOK' /\ StepOK' /\ GoesOn /\ EmailCannotCrash'
        /\ \A d \in Email : life'[d] = life[d]
    BY <1>2, <1>3, <1>5, <2>2, RemovedOK
  <2>4. QueueOK'
    <3>1. \A d \in Email : QueuedAt(d)' = QueuedAt(d) /\ d \in Event \ {e}
      BY <1>4, <1>5 DEF QueuedAt, Event
    <3>2. NeitherLostNorRepeated'
      BY <1>1, <1>5, <2>2, <2>3, <3>1 DEF QueueOK, NeitherLostNorRepeated
    <3> QED BY <1>1, <2>2, <2>3, <3>1, <3>2 DEF QueueOK
  <2>5. DeliveredIsTaken'
    BY <1>1, <1>4, <2>2, <2>3 DEF DeliveredIsTaken, GoesOn
  <2> QED BY <2>3, <2>4, <2>5 DEF MailInv
<1>6. CASE /\ QueueEvent(Append(msgqueue, e)) /\ crashed' \in {FALSE, life[e] = "deleted"}
           /\ UNCHANGED <<life, requests, told>>
  <2>1. crashed' \in BOOLEAN /\ msgqueue' = Append(msgqueue, e)
    BY <1>6 DEF QueueEvent
  <2>2. GoesOn /\ FlowOK' /\ WireOK' /\ StepOK'
    BY <1>1, <1>2, <1>4, <1>6, <2>1, QueueEventOK
  <2>3. msgqueue' \in Seq(Event \cup {Null})
    BY <1>1, <1>4, <2>1, HeadStays DEF MailTypes, MailTypeOK
  <2>4. MailTypes'
    BY <1>1, <1>2, <1>3, <1>6, <2>1, <2>2, <2>3, TypeStep DEF MailTypes, MailTypeOK
  <2>5. EmailCannotCrash'
    BY <1>6 DEF EmailCannotCrash
  <2>6. QueueOK'
    BY <1>1, <1>4, <1>6, <2>1, <2>5, QueueJoined
  <2> QED BY <1>1, <1>6, <2>2, <2>4, <2>6, TakenStep DEF MailInv
<1> QED BY <1>5, <1>6 DEF SMSResponse

-----------------------------------------------------------------------------
(* Mail: the dialogue.                                                     *)

\* The envelope that a command about h goes on from
Prepared(command, h) ==
    /\ command \in {"RCPT", "DATA", "TEXT"} => server.from = h
    /\ command \in {"DATA", "TEXT"} => server.to = h
    /\ command = "TEXT" => server.at = "data"

\* A command that is sent keeps the dialogue in order.
LEMMA SpokenOK ==
  ASSUME NEW command \in Commands, NEW q \in Seq(Event \cup {Null}), Spoken(command, q, <<>>),
         msgqueue' = q, q # <<>> \/ command = "QUIT", Prepared(command, Head(q)), ~divided'
  PROVE  OneReply' /\ (state' \in OfEvent => EnvelopeOK(Head(msgqueue))')
<1>1. PICK a \in Answer, e \in Event \cup {Null} :
         /\ q # <<>> => e = Head(q)
         /\ Envelops(server, command, e, a) /\ server' = a.server
         /\ lines' = <<>> \o Reply(a.codes, "whole")
  BY DEF Spoken
<1>2. a.codes = <<>> \/ \E c \in Nat : a.codes = <<c>>
  BY <1>1 DEF Envelops, Prepared
<1>3. \/ a.codes = <<>> /\ lines' = <<>>
      \/ \E c \in Nat : a.codes = <<c>> /\ lines' = <<[code |-> c, half |-> "whole"]>>
  BY <1>1, <1>2, OneCode
<1>4. OneReply'
  BY <1>3 DEF OneReply
<1>5. ASSUME NEW n, Heard(n)' PROVE a.codes = <<n>>
  <2>1. lines' = <<[code |-> n, half |-> "whole"]>>
    BY <1>5 DEF Heard
  <2>2. lines' # <<>> /\ lines'[1].code = n
    BY <2>1
  <2>3. PICK c \in Nat : a.codes = <<c>> /\ lines' = <<[code |-> c, half |-> "whole"]>>
    BY <1>3, <2>2
  <2>4. lines'[1].code = c
    BY <2>3
  <2> QED BY <2>2, <2>3, <2>4
<1>6. ASSUME state' \in OfEvent PROVE EnvelopeOK(Head(msgqueue))'
  <2>1. state' = After[command]
    BY DEF Spoken
  <2>2. command \in {"MAIL", "RCPT", "DATA", "TEXT"} /\ e = Head(q)
    BY <1>1, <1>6, <2>1 DEF After, OfEvent, Commands
  <2>3. /\ Heard(250)' => a.codes = <<250>>
        /\ Heard(354)' => a.codes = <<354>>
    BY <1>5
  <2>4. CASE command = "MAIL"
    BY <1>1, <2>1, <2>2, <2>3, <2>4 DEF Envelops, EnvelopeOK, After
  <2>5. CASE command = "RCPT"
    BY <1>1, <2>1, <2>2, <2>3, <2>5 DEF Envelops, EnvelopeOK, After, Prepared
  <2>6. CASE command = "DATA"
    BY <1>1, <2>1, <2>2, <2>3, <2>6 DEF Envelops, EnvelopeOK, After, Prepared
  <2>7. CASE command = "TEXT"
    BY <1>1, <2>1, <2>2, <2>3, <2>7 DEF Envelops, EnvelopeOK, After, Prepared
  <2> QED BY <2>2, <2>4, <2>5, <2>6, <2>7
<1> QED BY <1>4, <1>6

\* What Say does to the client and the server when a reply was read
LEMMA SayStep ==
  ASSUME MailInv, selected = "READ", socket = "CONNECTED", ~crashed,
         NEW command \in Commands, NEW q \in Seq(Event \cup {Null}), q # <<>> \/ command = "QUIT",
         NEW rest \in Seq(ReplyLine), Say(command, q, rest), idle' = FALSE,
         command = "DATA" => Head(q) # Null,
         ~divided => recv' = <<>> /\ rest = <<>> /\ Prepared(command, Head(q))
  PROVE  /\ GoesOn /\ FlowOK' /\ WireOK' /\ StepOK' /\ msgqueue' = q /\ crashed' \in BOOLEAN
         /\ crashed' => q # <<>> /\ (Head(q) = Null \/ life'[Head(q)] = "deleted")
<1>1. MailTypes /\ FlowOK /\ WireOK /\ StepOK /\ WorldOK
  BY DEF MailInv, MailTypes
<1>2. /\ msgqueue' = q
      /\ server' \in Server /\ lines' \in Seq(ReplyLine) /\ divided' \in BOOLEAN
      /\ faults' \in 0 .. MaxFaults /\ server.taken \subseteq server'.taken
      /\ (divided => divided')
      /\ Crashes(command, q) \/ Spoken(command, q, rest) \/ Fails
  BY <1>1, SayOK
<1>3. CASE Crashes(command, q)
  <2>1. /\ q # <<>> /\ (Head(q) = Null \/ life'[Head(q)] = "deleted")
        /\ crashed' = TRUE /\ UNCHANGED <<state, socket, selected, world>>
    BY <1>3 DEF Crashes
  <2>2. GoesOn
    BY <1>1, <1>2, <2>1 DEF GoesOn, MailTypes, MailTypeOK
  <2>3. FlowOK' /\ StepOK'
    BY <1>1, <1>2, <2>1 DEF FlowOK, DialogueGoesOn, StepOK
  <2>4. WireOK'
    BY <1>1, <2>1 DEF WireOK, OneReply, world
  <2> QED BY <1>2, <2>1, <2>2, <2>3, <2>4
<1>4. CASE Spoken(command, q, rest)
  <2>1. /\ state' = After[command] /\ UNCHANGED <<crashed, socket, selected>>
        /\ command \in {"MAIL", "RCPT", "TEXT"} => Head(q) # Null
    BY <1>4 DEF Spoken
  <2>2. state' \in DOMAIN Expected \cup {"DISCONNECTING"} /\ (state' \in DOMAIN Expected => command # "QUIT")
    BY <2>1 DEF Commands, After, Expected
  <2>3. GoesOn
    BY <1>1, <1>2, <2>1, <2>2 DEF GoesOn, MailTypes, MailTypeOK
  <2>4. state' \in OfEvent => Head(q) # Null
    BY <2>1 DEF Commands, After, OfEvent
  <2>5. FlowOK'
    <3>1. state' # "NOT_CONNECTED" /\ state' # "WAITING_FOR_CONNECT"
      BY <2>2 DEF Expected
    <3> QED BY <1>2, <2>1, <2>2, <2>4, <3>1 DEF FlowOK, DialogueGoesOn
  <2>6. WireOK' /\ StepOK'
    <3>1. ASSUME ~divided' PROVE OneReply' /\ (state' \in OfEvent => EnvelopeOK(Head(msgqueue))') /\ recv' = <<>>
      <4>1. ~divided
        BY <1>2, <3>1
      <4>2. Spoken(command, q, <<>>)
        BY <1>4, <4>1
      <4> QED BY <1>2, <3>1, <4>1, <4>2, SpokenOK
    <3>2. WireOK'
      BY <3>1 DEF WireOK
    <3>3. ASSUME ~divided', ~crashed', state' \in OfEvent PROVE EnvelopeOK(Head(msgqueue))'
      BY <3>1, <3>3
    <3>4. StepOK'
      BY <3>3 DEF StepOK, OfEvent
    <3> QED BY <3>2, <3>4
  <2> QED BY <1>1, <1>2, <2>1, <2>3, <2>5, <2>6 DEF MailTypes, MailTypeOK
<1>5. CASE Fails
  <2>1. /\ UNCHANGED <<crashed, divided>> /\ lines' = <<>>
        /\ state' = "NOT_CONNECTED" /\ socket' = "NOT_CONNECTED" /\ selected' = "none"
    BY <1>5 DEF Fails
  <2>2. GoesOn
    BY <1>1, <1>2, <2>1 DEF GoesOn
  <2>3. FlowOK' /\ StepOK'
    BY <2>1 DEF FlowOK, DialogueGoesOn, Expected, OfEvent, StepOK
  <2>4. WireOK'
    BY <2>1 DEF WireOK, OneReply
  <2> QED BY <1>1, <1>2, <2>1, <2>2, <2>3, <2>4 DEF MailTypes, MailTypeOK
<1> QED BY <1>2, <1>3, <1>4, <1>5

\* The parser gives up: the client is not connected any more.
LEMMA GiveUpOK ==
  ASSUME MailInv, NEW rest \in Seq(ReplyLine), GiveUp(rest), idle' = FALSE,
         ~divided => recv' = <<>> /\ rest = <<>>
  PROVE  GoesOn /\ FlowOK' /\ WireOK' /\ StepOK'
<1>1. MailTypes /\ WorldOK
  BY DEF MailInv, MailTypes
<1>2. /\ state' = "NOT_CONNECTED" /\ selected' = "none" /\ lines' = rest
      /\ UNCHANGED <<socket, crashed, server, faults, divided>>
  BY DEF GiveUp
<1>3. GoesOn
  BY <1>1, <1>2 DEF GoesOn, MailTypes, MailTypeOK, WorldOK
<1>4. FlowOK' /\ StepOK'
  BY <1>2 DEF FlowOK, DialogueGoesOn, Expected, OfEvent, StepOK
<1>5. WireOK'
  BY <1>2 DEF WireOK, OneReply
<1> QED BY <1>3, <1>4, <1>5

\* Where e-mails are, without the word about crashes
PlacesOK ==
    /\ NeitherLostNorRepeated
    /\ \A e \in Email :
          /\ life[e] = "unsent" => QueuedAt(e) = {} /\ ToldAt(e) = {}
          /\ life[e] = "deleted" => QueuedAt(e) = {}

\* A crash over what is in front is over an SMS message or none.
LEMMA CrashIsKnown ==
  ASSUME PlacesOK', msgqueue' \in Seq(Event \cup {Null}),
         crashed' => msgqueue' # <<>> /\ (Head(msgqueue') = Null \/ life'[Head(msgqueue')] = "deleted")
  PROVE  QueueOK'
<1>1. ASSUME crashed' PROVE Null \in ToSet(msgqueue') \/ \E e \in SMS : life'[e] = "deleted"
  <2>1. PICK h \in Event \cup {Null} : h = Head(msgqueue') /\ h = msgqueue'[1] /\ 1 \in DOMAIN msgqueue'
    BY <1>1, HeadTailProperties
  <2>2. CASE h = Null
    BY <2>1, <2>2 DEF ToSet
  <2>3. CASE h # Null
    <3>1. life'[h] = "deleted" /\ h \in Event
      BY <1>1, <2>1, <2>3
    <3>2. 1 \in QueuedAt(h)'
      BY <2>1 DEF QueuedAt
    <3>3. h \notin Email
      BY <3>1, <3>2 DEF PlacesOK
    <3> QED BY <3>1, <3>3 DEF Event
  <2> QED BY <2>2, <2>3
<1>2. EmailCannotCrash'
  BY <1>1 DEF EmailCannotCrash
<1> QED BY <1>2 DEF PlacesOK, QueueOK

\* The event in front is told of and leaves the queue.
LEMMA HeadLeaves ==
  ASSUME MailInv, state \in OfEvent, ~crashed, NEW ok \in BOOLEAN, Acknowledge(Head(msgqueue), ok),
         msgqueue' = Tail(msgqueue),
         \/ UNCHANGED life
         \/ life' = [life EXCEPT ![Head(msgqueue)] = "deleted"]
  PROVE  /\ PlacesOK' /\ told' \in Seq([event : Event, delivered : BOOLEAN])
         /\ life' \in [Event -> {"unsent", "live", "deleted"}]
         /\ msgqueue' \in Seq(Event \cup {Null})
         /\ \A i \in DOMAIN told' :
               \/ i \in DOMAIN told /\ told'[i] = told[i]
               \/ told'[i] = [event |-> Head(msgqueue), delivered |-> ok]
<1>1. MailTypes /\ FlowOK /\ QueueOK /\ MailTypeOK
  BY DEF MailInv, MailTypes
<1>2. PICK h \in Event : h = Head(msgqueue)
  BY <1>1, InFront
<1>3. msgqueue # <<>> /\ Tail(msgqueue) \in Seq(Event \cup {Null}) /\ msgqueue \in Seq(Event \cup {Null})
  BY <1>1, InFront DEF MailTypeOK
<1>4. /\ told' \in Seq([event : Event, delivered : BOOLEAN])
      /\ \A e \in Event \ {h} : ToldAt(e)' = ToldAt(e)
      /\ ToldAt(h) = {} => \E i \in DOMAIN told' : ToldAt(h)' = {i}
      /\ \A e \in Event \ {h} : (\E i \in DOMAIN told : ToldAt(e) = {i})
             => \E i \in DOMAIN told' : ToldAt(e)' = {i}
      /\ \A i \in DOMAIN told' : \/ i \in DOMAIN told /\ told'[i] = told[i]
                                \/ told'[i] = [event |-> h, delivered |-> ok]
  BY <1>1, <1>2, Told DEF MailTypeOK
<1>5. /\ life' \in [Event -> {"unsent", "live", "deleted"}]
      /\ \A e \in Event \ {h} : life'[e] = life[e]
      /\ life'[h] \in {life[h], "deleted"}
  BY <1>1, <1>2 DEF MailTypeOK
<1>6. ASSUME NEW e \in Email, e # h
      PROVE  /\ QueuedAt(e) = {} => QueuedAt(e)' = {}
             /\ (\E i \in DOMAIN msgqueue : QueuedAt(e) = {i})
                   => \E i \in DOMAIN msgqueue' : QueuedAt(e)' = {i}
  <2>1. Head(msgqueue) # e
    BY <1>2, <1>6
  <2>2. /\ At(msgqueue, e) = {} => At(Tail(msgqueue), e) = {}
        /\ (\E i \in DOMAIN msgqueue : At(msgqueue, e) = {i})
              => \E i \in DOMAIN Tail(msgqueue) : At(Tail(msgqueue), e) = {i}
    BY <1>3, <2>1, TailOther
  <2>3. At(msgqueue, e) = QueuedAt(e) /\ At(Tail(msgqueue), e) = QueuedAt(e)'
    BY DEF QueuedAt, At
  <2> QED BY <2>2, <2>3
<1>7. ASSUME h \in Email
      PROVE  QueuedAt(h)' = {} /\ life[h] # "unsent" /\ \E i \in DOMAIN told' : ToldAt(h)' = {i}
  <2>1. 1 \in QueuedAt(h)
    BY <1>2, <1>3, HeadTailProperties DEF QueuedAt
  <2>2. life[h] # "unsent" /\ ToldAt(h) = {} /\ \E i \in DOMAIN msgqueue : QueuedAt(h) = {i}
    BY <1>1, <1>7, <2>1 DEF QueueOK, NeitherLostNorRepeated
  <2>3. At(Tail(msgqueue), Head(msgqueue)) = {}
    BY <1>2, <1>3, <2>2, TailIt DEF QueuedAt, At
  <2> QED BY <1>2, <1>4, <2>2, <2>3 DEF QueuedAt, At
<1>8. ASSUME NEW e \in Email
      PROVE  /\ life'[e] # "unsent" =>
                    \/ ToldAt(e)' = {} /\ \E i \in DOMAIN msgqueue' : QueuedAt(e)' = {i}
                    \/ QueuedAt(e)' = {} /\ \E i \in DOMAIN told' : ToldAt(e)' = {i}
             /\ life'[e] = "unsent" => QueuedAt(e)' = {} /\ ToldAt(e)' = {}
             /\ life'[e] = "deleted" => QueuedAt(e)' = {}
  <2>1. CASE e = h
    BY <1>5, <1>7, <1>8, <2>1
  <2>2. CASE e # h
    <3>1. e \in Event \ {h}
      BY <2>2 DEF Event
    <3> QED BY <1>1, <1>4, <1>5, <1>6, <2>2, <3>1 DEF QueueOK, NeitherLostNorRepeated
  <2> QED BY <2>1, <2>2
<1>9. PlacesOK'
  BY <1>8 DEF PlacesOK, NeitherLostNorRepeated
<1> QED BY <1>2, <1>3, <1>4, <1>5, <1>9

\* One turn of the loop in Recv: one step per branch of Parse.
LEMMA ReadLineOK == ASSUME MailInv, NEW n \in 1 .. Len(lines), ReadLine(n) PROVE MailInv'
<1> DEFINE r == recv \o SubSeq(lines, 1, n)
           rest == SubSeq(lines, n + 1, Len(lines))
           h == Head(msgqueue)
<1>1. MailTypes /\ FlowOK /\ QueueOK /\ WireOK /\ StepOK /\ DeliveredIsTaken /\ MailTypeOK
  BY DEF MailInv, MailTypes
<1>2. /\ selected = "READ" /\ socket = "CONNECTED" /\ ~crashed
      /\ recv' = SubSeq(r, LineEnd(r) + 1, Len(r)) /\ idle' = FALSE
      /\ ParseReply(Code(r), rest) /\ UNCHANGED <<requests, responses>>
  BY DEF ReadLine
<1>3. n \in 0 .. Len(lines) /\ n # 0
  OBVIOUS
<1>4. recv' \in Seq(ReplyLine) /\ rest \in Seq(ReplyLine)
  BY <1>1, <1>2, <1>3, ReadType
<1>5. ~divided => recv' = <<>> /\ rest = <<>> /\ \E c \in Nat : Heard(c) /\ Code(r) = c
  BY <1>1, <1>2, <1>3, ReadWhole
<1> PICK code : code = Code(r)
  OBVIOUS
<1>6. ~divided => recv' = <<>> /\ rest = <<>> /\ Heard(code)
  BY <1>5
<1>7. ParseReply(code, rest)
  BY <1>2
<1> HIDE DEF r, rest, h
<1>8. msgqueue \in Seq(Event \cup {Null}) /\ life \in [Event -> {"unsent", "live", "deleted"}]
      /\ told \in Seq([event : Event, delivered : BOOLEAN]) /\ crashed \in BOOLEAN
  BY <1>1 DEF MailTypeOK
<1>9. PlacesOK
  BY <1>1 DEF QueueOK, PlacesOK
\* The expected reply is followed by the next command.
<1>10. CASE /\ state \in DOMAIN Command /\ code = Expected[state]
            /\ UNCHANGED <<life, told>> /\ Say(Command[state], msgqueue, rest)
  <2>1. Command[state] \in Commands /\ state \in DOMAIN Expected
    BY <1>10 DEF Command, Commands, Expected
  <2>2. msgqueue # <<>>
    BY <1>1, <2>1 DEF FlowOK, DialogueGoesOn
  <2>3. Command[state] = "DATA" => h # Null
    BY <1>1, <1>2, <1>10 DEF Command, FlowOK, OfEvent, h
  <2>4. ASSUME ~divided PROVE Prepared(Command[state], h)
    <3>1. Heard(Expected[state])
      BY <1>6, <1>10, <2>4
    <3>2. state \in OfEvent => EnvelopeOK(h)
      BY <1>1, <1>2, <2>4 DEF StepOK, h
    <3>3. CASE state = "WAITING_FOR_MAIL_ACK"
      BY <3>1, <3>2, <3>3 DEF Command, Expected, OfEvent, EnvelopeOK, Prepared
    <3>4. CASE state = "WAITING_FOR_RCPT_ACK"
      BY <3>1, <3>2, <3>4 DEF Command, Expected, OfEvent, EnvelopeOK, Prepared
    <3>5. CASE state = "WAITING_FOR_DATA_ACK"
      BY <3>1, <3>2, <3>5 DEF Command, Expected, OfEvent, EnvelopeOK, Prepared
    <3>6. CASE state \in {"WAITING_FOR_INVITATION", "WAITING_FOR_HELO_ACK"}
      BY <3>6 DEF Command, Prepared
    <3> QED BY <1>10, <3>3, <3>4, <3>5, <3>6 DEF Command
  <2>5. /\ GoesOn /\ FlowOK' /\ WireOK' /\ StepOK' /\ msgqueue' = msgqueue /\ crashed' \in BOOLEAN
        /\ crashed' => msgqueue # <<>> /\ (h = Null \/ life'[h] = "deleted")
    BY <1>2, <1>4, <1>6, <1>8, <1>10, <2>1, <2>2, <2>3, <2>4, SayStep DEF h
  <2>6. MailTypes'
    BY <1>1, <1>2, <1>4, <1>8, <1>10, <2>5, TypeStep DEF MailTypeOK
  <2>7. QueueOK'
    <3>1. PlacesOK'
      BY <1>9, <1>10, <2>5 DEF PlacesOK, NeitherLostNorRepeated, QueuedAt, ToldAt
    <3> QED BY <1>8, <2>5, <3>1, CrashIsKnown DEF h
  <2> QED BY <1>1, <1>10, <2>5, <2>6, <2>7, TakenStep DEF MailInv
\* The text was accepted: the next event, or the end.
<1>11. CASE state = "WAITING_FOR_TEXT_ACK" /\ code = Expected[state] /\ Accepted(rest)
  <2> DEFINE command == IF Tail(msgqueue) = <<>> THEN "QUIT" ELSE "MAIL"
  <2>1. /\ Acknowledge(h, TRUE) /\ UNCHANGED life /\ Say(command, Tail(msgqueue), rest)
        /\ state \in OfEvent
    BY <1>11 DEF Accepted, OfEvent, h
  <2>2. command \in Commands /\ (Tail(msgqueue) # <<>> \/ command = "QUIT") /\ command # "DATA"
        /\ command \notin {"RCPT", "DATA", "TEXT"} /\ Tail(msgqueue) \in Seq(Event \cup {Null})
    BY <1>1, <2>1, InFront DEF Commands
  <2>3. Prepared(command, Head(Tail(msgqueue)))
    BY <2>2 DEF Prepared
  <2> HIDE DEF command
  <2>4. /\ GoesOn /\ FlowOK' /\ WireOK' /\ StepOK' /\ msgqueue' = Tail(msgqueue)
        /\ crashed' \in BOOLEAN
        /\ crashed' => Tail(msgqueue) # <<>>
              /\ (Head(Tail(msgqueue)) = Null \/ life'[Head(Tail(msgqueue))] = "deleted")
    BY <1>2, <1>4, <1>6, <2>1, <2>2, <2>3, SayStep
  <2>5. /\ PlacesOK' /\ told' \in Seq([event : Event, delivered : BOOLEAN])
        /\ life' \in [Event -> {"unsent", "live", "deleted"}]
        /\ msgqueue' \in Seq(Event \cup {Null})
        /\ \A i \in DOMAIN told' : \/ i \in DOMAIN told /\ told'[i] = told[i]
                                  \/ told'[i] = [event |-> h, delivered |-> TRUE]
    BY <1>2, <2>1, <2>4, HeadLeaves DEF h
  <2>6. MailTypes'
    BY <1>1, <1>2, <1>4, <2>4, <2>5, TypeStep DEF MailTypeOK
  <2>7. QueueOK'
    BY <2>4, <2>5, CrashIsKnown
  <2>8. DeliveredIsTaken'
    <3> SUFFICES ASSUME ~divided', NEW i \in DOMAIN told', told'[i].delivered, told'[i].event \in Email
                 PROVE  <<told'[i].event, told'[i].event, told'[i].event>> \in server'.taken
      BY DEF DeliveredIsTaken
    <3>1. ~divided /\ server.taken \subseteq server'.taken
      BY <2>4 DEF GoesOn
    <3>2. <<h, h, h>> \in server.taken
      <4>1. EnvelopeOK(h) /\ Heard(250)
        BY <1>1, <1>2, <1>6, <1>11, <2>1, <3>1 DEF StepOK, h, Expected
      <4> QED BY <1>11, <4>1 DEF EnvelopeOK
    <3>3. CASE i \in DOMAIN told /\ told'[i] = told[i]
      BY <1>1, <3>1, <3>3 DEF DeliveredIsTaken
    <3>4. CASE told'[i] = [event |-> h, delivered |-> TRUE]
      BY <3>1, <3>2, <3>4
    <3> QED BY <2>5, <3>3, <3>4
  <2> QED BY <2>4, <2>6, <2>7, <2>8 DEF MailInv
\* The event was refused: the next one, or the end.
<1>12. CASE state \in OfEvent /\ code # Expected[state] /\ Refused(rest)
  <2>1. /\ Acknowledge(h, FALSE) /\ life' = [life EXCEPT ![h] = "deleted"]
        /\ IF Tail(msgqueue) # <<>> THEN Say("MAIL", Tail(msgqueue), rest)
           ELSE msgqueue' = <<>> /\ GiveUp(rest)
    BY <1>12 DEF Refused, h
  <2>2. Tail(msgqueue) \in Seq(Event \cup {Null})
    BY <1>1, <1>12, InFront
  <2>3. /\ GoesOn /\ FlowOK' /\ WireOK' /\ StepOK' /\ msgqueue' = Tail(msgqueue)
        /\ crashed' \in BOOLEAN
        /\ crashed' => Tail(msgqueue) # <<>>
              /\ (Head(Tail(msgqueue)) = Null \/ life'[Head(Tail(msgqueue))] = "deleted")
    <3>1. CASE Tail(msgqueue) # <<>>
      <4>1. Say("MAIL", Tail(msgqueue), rest) /\ "MAIL" \in Commands
        BY <2>1, <3>1 DEF Commands
      <4>2. Prepared("MAIL", Head(Tail(msgqueue)))
        BY DEF Prepared
      <4> QED BY <1>2, <1>4, <1>6, <2>2, <3>1, <4>1, <4>2, SayStep
    <3>2. CASE Tail(msgqueue) = <<>>
      <4>1. msgqueue' = <<>> /\ GiveUp(rest)
        BY <2>1, <3>2
      <4>2. GoesOn /\ FlowOK' /\ WireOK' /\ StepOK'
        BY <1>2, <1>4, <1>6, <4>1, GiveUpOK
      <4>3. UNCHANGED crashed
        BY <4>1 DEF GiveUp
      <4> QED BY <1>2, <1>8, <3>2, <4>1, <4>2, <4>3
    <3> QED BY <3>1, <3>2
  <2>4. /\ PlacesOK' /\ told' \in Seq([event : Event, delivered : BOOLEAN])
        /\ life' \in [Event -> {"unsent", "live", "deleted"}]
        /\ msgqueue' \in Seq(Event \cup {Null})
        /\ \A i \in DOMAIN told' : \/ i \in DOMAIN told /\ told'[i] = told[i]
                                  \/ told'[i] = [event |-> h, delivered |-> FALSE]
    BY <1>2, <1>12, <2>1, <2>3, HeadLeaves DEF h
  <2>5. MailTypes'
    BY <1>1, <1>2, <1>4, <2>3, <2>4, TypeStep DEF MailTypeOK
  <2>6. QueueOK'
    BY <2>3, <2>4, CrashIsKnown
  <2>7. DeliveredIsTaken'
    <3>1. \A i \in DOMAIN told' : told'[i].delivered => i \in DOMAIN told /\ told'[i] = told[i]
      BY <2>4
    <3> QED BY <1>1, <2>3, <3>1 DEF DeliveredIsTaken, GoesOn
  <2> QED BY <2>3, <2>5, <2>6, <2>7 DEF MailInv
\* The server did not let the client in, or it has said goodbye.
<1>13. CASE /\ state \in DOMAIN Expected \ OfEvent /\ code # Expected[state]
            /\ GiveUp(rest) /\ UNCHANGED <<msgqueue, life, told>>
  <2>1. GoesOn /\ FlowOK' /\ WireOK' /\ StepOK' /\ UNCHANGED crashed
    BY <1>2, <1>4, <1>6, <1>13, GiveUpOK DEF GiveUp
  <2>2. MailTypes'
    BY <1>1, <1>2, <1>4, <1>8, <1>13, <2>1, TypeStep DEF MailTypeOK
  <2>3. QueueOK'
    BY <1>1, <1>2, <1>13, <2>1, QueueSame DEF EmailCannotCrash
  <2> QED BY <1>1, <1>13, <2>1, <2>2, <2>3, TakenStep DEF MailInv
<1>14. CASE /\ state = "DISCONNECTING" /\ lines' = rest
            /\ UNCHANGED <<state, socket, selected, msgqueue, life, told, crashed, server, faults, divided>>
  <2>1. GoesOn
    BY <1>1, <1>2, <1>4, <1>14 DEF GoesOn, MailTypes, MailTypeOK, WorldOK
  <2>2. FlowOK' /\ StepOK'
    BY <1>1, <1>14 DEF FlowOK, DialogueGoesOn, StepOK, OfEvent
  <2>3. WireOK'
    BY <1>6, <1>14 DEF WireOK, OneReply
  <2>4. MailTypes'
    BY <1>1, <1>2, <1>4, <1>8, <1>14, <2>1, TypeStep DEF MailTypeOK
  <2>5. QueueOK'
    BY <1>1, <1>2, <1>14, QueueSame DEF EmailCannotCrash
  <2> QED BY <1>1, <1>14, <2>1, <2>2, <2>3, <2>4, <2>5, TakenStep DEF MailInv
<1> QED BY <1>7, <1>10, <1>11, <1>12, <1>13, <1>14 DEF ParseReply

-----------------------------------------------------------------------------
(* Mail: the theorems.                                                     *)

\* Nothing is queued, told or connected at first.
LEMMA InitOK == ASSUME MailInit PROVE MailInv
<1>1. MailTypes
  <2>1. <<>> \in Seq(ReplyLine) /\ <<>> \in Seq(Event \cup {Null})
        /\ <<>> \in Seq([event : Event, delivered : BOOLEAN]) /\ 0 \in 0 .. MaxFaults
    BY MailAssumption
  <2>2. server \in Server
    BY DEF MailInit, Server
  <2> QED BY <2>1, <2>2 DEF MailInit, MailTypes, MailTypeOK, WorldOK
<1>2. FlowOK /\ WireOK /\ StepOK
  BY DEF MailInit, FlowOK, DialogueGoesOn, Expected, WireOK, OneReply, StepOK, OfEvent
<1>3. DOMAIN <<>> = {}
  OBVIOUS
<1>4. \A e \in Email : life[e] = "unsent" /\ QueuedAt(e) = {} /\ ToldAt(e) = {}
  BY <1>3 DEF MailInit, Event, QueuedAt, ToldAt
<1>5. QueueOK
  BY <1>4 DEF MailInit, QueueOK, NeitherLostNorRepeated, EmailCannotCrash
<1>6. DeliveredIsTaken
  BY <1>3 DEF MailInit, DeliveredIsTaken
<1> QED BY <1>1, <1>2, <1>5, <1>6 DEF MailInv

\* Every step keeps the invariant: one step per action.
LEMMA NextOK == ASSUME MailInv, [MailNext]_mail PROVE MailInv'
<1>1. CASE UNCHANGED mail
  <2>1. MailTypes /\ FlowOK /\ QueueOK /\ WireOK /\ StepOK /\ DeliveredIsTaken
    BY DEF MailInv
  <2>2. MailTypes'
    BY <1>1, <2>1 DEF MailTypes, MailTypeOK, WorldOK, mail, client, world
  <2>3. FlowOK' /\ WireOK' /\ DeliveredIsTaken'
    BY <1>1, <2>1 DEF FlowOK, DialogueGoesOn, WireOK, OneReply, DeliveredIsTaken, mail, client, world
  <2>4. QueueOK'
    <3>1. EmailCannotCrash'
      BY <1>1, <2>1 DEF QueueOK, EmailCannotCrash, mail
    <3> QED BY <1>1, <2>1, <3>1, QueueSame DEF mail
  <2>5. StepOK'
    BY <1>1, <2>1, StepSame DEF mail, client, world
  <2> QED BY <2>2, <2>3, <2>4, <2>5 DEF MailInv
<1>2. CASE MailNext
  BY <1>2, SendEmailOK, PollOK, TimePassesOK, FinishOK, AnswerDeletedOK, OtherEndClosesOK,
     ReadLineOK, WriteConnectedOK, SendSMSOK, ExpireSMSOK, SMSResponseOK DEF MailNext
<1> QED BY <1>1, <1>2

\* The invariant holds in every behaviour of the client, the SMTP server and
\* the SMS server.
THEOREM MailInvariant == MailSpec => []MailInv
<1>1. MailInit => MailInv
  BY InitOK
<1>2. MailInv /\ [MailNext]_mail => MailInv'
  BY NextOK
<1> QED BY <1>1, <1>2, PTL DEF MailSpec

\* The variables of SMTPClient, of its callers and of the servers keep their
\* types.
THEOREM MailTypeCorrect == MailSpec => []MailTypeOK
<1>1. MailInv => MailTypeOK
  BY DEF MailInv, MailTypes
<1> QED BY <1>1, MailInvariant, PTL

\* However often the connection, the server or the sending fails: an e-mail
\* waits or was answered once; one told delivered was taken with its own
\* envelope unless a line was divided; the dialogue has a socket and an event
\* to go on with; and e-mail alone touches no deleted event (SMTPClient::Recv,
\* Parse, and Client::socket_cb).
THEOREM MailDelivered == MailSpec => []MailIsDelivered
<1>1. MailInv => MailIsDelivered
  BY DEF MailInv, MailIsDelivered, QueueOK, FlowOK
<1> QED BY <1>1, MailInvariant, PTL

-----------------------------------------------------------------------------
(* The transfer: the offer, whose operators have it as a parameter here:   *)
(* o is "offer" in this state and in the next.                             *)

Number(o) == Len(o.sizes)
Sum(o, n) ==
    LET sum[i \in 0..Len(o.sizes)] == IF i = 0 THEN 0 ELSE sum[i - 1] + o.sizes[i]
    IN  sum[n]
Total(o) == Sum(o, Number(o))
OfferOK(o) ==
    /\ o.sizes \in Seq(Nat) /\ Number(o) \in Nat \ {0}
    /\ o.garbage \in Nat /\ o.known \in BOOLEAN

\* The first chunks of a file
Chunks(f, n) == [i \in 1..n |-> [file |-> f, at |-> i]]

-----------------------------------------------------------------------------
(* The values of an end, in the middle of a callback too.                  *)

Disks == UNION {[D -> Seq(Chunk)] : D \in SUBSET Nat}
End ==
    [ev : EventStates, shown : EventStates, client : {"none", "listening", "connecting", "connected"},
     incoming : BOOLEAN,
     state : {"NOT_CONNECTED", "WAITING_FOR_INIT", "WAITING_FOR_INIT_ACK", "CONNECTED"},
     total : Nat, totalSize : Nat, currFile : Nat, size : Nat, pos : Nat, totalPos : Nat, name : Nat,
     more : BOOLEAN, continue : BOOLEAN, wanting : BOOLEAN, queued : BOOLEAN, stream : Nat,
     disk : Disks, skipped : SUBSET Nat, sheet : {"none", "conflict"},
     window : BOOLEAN, crashed : BOOLEAN, thrown : BOOLEAN, out : Seq(Packet)]

-----------------------------------------------------------------------------
(* The sender.                                                             *)

\* The file it is at, and its position there: it has the file's name and size
\* unless it had timed out before it was connected.
AtFile(o, s) ==
    /\ s.currFile \in 0..Number(o) /\ s.name \in {NoFile, s.currFile} /\ s.pos <= s.size
    /\ s.currFile = 0 => s.totalPos = 0
    /\ s.name = NoFile => s.size = o.garbage /\ s.pos = 0
    /\ s.name # NoFile => /\ s.size = o.sizes[s.currFile]
                          /\ s.totalPos = Sum(o, s.currFile - 1) + s.pos + o.garbage

\* Its flags between two packets; what it sends next is in Reads.
SenderGoes(o, s) ==
    /\ s.ev \in {"SEND", "TIMEOUT"}
    /\ s.currFile > 0 => (s.name = NoFile <=> s.ev = "TIMEOUT")
    /\ s.state # "NOT_CONNECTED"
    /\ s.client = "connecting" => s.state = "WAITING_FOR_INIT_ACK"
    /\ s.queued <=> s.state # "CONNECTED"
    /\ s.stream \in {NoFile, s.name}
    /\ s.continue => s.currFile > 0
    /\ ~s.continue => ~s.more /\ s.pos = 0
    /\ s.continue /\ ~s.more => s.currFile < Number(o)
Reads(s) == s.more => s.pos < s.size /\ s.stream # NoFile

SenderOK(o, s) ==
    /\ s \in End /\ ~s.incoming /\ s.total = Number(o) /\ s.totalSize = Total(o)
    /\ s.client \in {"none", "connecting", "connected"}
    /\ s.ev = "WAIT_RESPONS" =>
          /\ s.client = "none" /\ s.shown = "WAIT_RESPONS" /\ s.state = "NOT_CONNECTED"
          /\ ~s.more /\ ~s.continue /\ s.stream = NoFile
    /\ s.state # "CONNECTED" => s.currFile = 0
    /\ AtFile(o, s)
    /\ s.client # "none" /\ ~s.thrown => SenderGoes(o, s)

-----------------------------------------------------------------------------
(* The receiver.                                                           *)

\* A file is on the disk, whole.
Stored(o, r, f) == f \in DOMAIN r.disk /\ Len(r.disk[f]) = o.sizes[f]

FilesBefore(o, r) == \A f \in 1 .. r.currFile - 1 : f \in r.skipped \/ Stored(o, r, f)

DiskOK(o, r) ==
    \A f \in DOMAIN r.disk : Len(r.disk[f]) <= o.sizes[f] /\ r.disk[f] = Chunks(f, Len(r.disk[f]))

\* The file it is at: as for the sender
AtFileReceived(o, r) ==
    /\ r.currFile \in 0..Number(o) /\ r.name \in {NoFile, r.currFile}
    /\ r.total \in {0, Number(o)} /\ r.totalSize = Total(o)
    /\ r.total = 0 => r.currFile = 0
    /\ r.currFile = 0 =>
          /\ r.pos = 0 /\ r.totalPos = 0 /\ r.stream = NoFile /\ ~r.wanting /\ r.sheet = "none"
          /\ r.total # 0 => r.size = 0
    /\ r.name # NoFile => /\ r.size = o.sizes[r.currFile] /\ r.pos <= r.size
                          /\ r.totalPos = Sum(o, r.currFile - 1) + r.pos
    /\ r.skipped \subseteq 1 .. r.currFile /\ DOMAIN r.disk \subseteq 1 .. r.currFile
    /\ FilesBefore(o, r) /\ DiskOK(o, r)

\* The stream of a client that is left: open on the current file once it was
\* asked for, and not before it waits for the user or has been skipped.
StreamOK(r) ==
    /\ r.stream \in 0 .. r.currFile
    /\ r.sheet = "conflict" => r.wanting
    /\ r.wanting => r.currFile \notin r.skipped
    /\ r.currFile > 0 /\ r.stream = r.currFile =>
          /\ r.name = r.currFile /\ ~r.wanting
          /\ r.currFile \in DOMAIN r.disk /\ Len(r.disk[r.currFile]) = r.pos
    /\ r.currFile > 0 /\ r.stream # r.currFile =>
          /\ r.pos = 0 /\ r.currFile \notin DOMAIN r.disk
          /\ r.wanting \/ r.currFile \in r.skipped

\* All that is offered is on the disk.
AllStored(o, r) ==
    \A f \in 1..Number(o) : f \in r.skipped \/ Sum(o, f - 1) = Total(o) \/ Stored(o, r, f)

ReceiverOK(o, r) ==
    /\ r \in End /\ r.incoming /\ ~r.continue /\ ~r.more /\ ~r.queued
    /\ r.client \in {"none", "listening", "connected"}
    /\ r.ev \in {"RECEIVE", "TIMEOUT", "COMPLETE", "NOT_CONNECTED", "CANCELLED"}
    /\ r.ev = "CANCELLED" => r.client = "none"
    /\ r.ev = "NOT_CONNECTED" => ~r.window
    /\ r.client # "none" => (r.client = "listening" <=> r.state = "NOT_CONNECTED")
    /\ r.state # "CONNECTED" => r.total = 0
    /\ AtFileReceived(o, r)
    /\ r.client # "none" => StreamOK(r)
    /\ Number(o) \in r.skipped /\ r.window => r.ev = "COMPLETE"
    /\ r.ev = "COMPLETE" => AllStored(o, r)
    /\ r.ev = "COMPLETE" /\ r.client # "none" /\ ~r.thrown => Number(o) \in r.skipped

-----------------------------------------------------------------------------
(* What is on its way.                                                     *)

Hello(o) == [type |-> "00", total |-> Number(o), totalSize |-> Total(o)]

\* To the sender: what it may be told next.  An answer about a file comes once,
\* and not after it has been told to skip the file.
Asked(o, s, ts) ==
    \A j \in DOMAIN ts :
       /\ ts[j].type \in {"03", "04"}
       /\ ts[j].type = "03" =>
             /\ ~s.continue
             /\ ts[j].file = s.currFile \/ (ts[j].file = Number(o) + 1 /\ s.currFile < Number(o))
             /\ \A i \in 1 .. j - 1 : ts[i].type = "04" /\ ts[i].file < s.currFile
ToSender(o, s, ts) ==
    /\ s.state = "WAITING_FOR_INIT_ACK" =>
          ts \in {<<>>, <<Simple("ACK")>>, <<Simple("ACK"), Simple("INIT")>>}
    /\ s.state = "WAITING_FOR_INIT" => ts \in {<<>>, <<Simple("INIT")>>}
    /\ s.state = "CONNECTED" /\ s.currFile = 0 =>
          ts \in {<<>>, <<Simple("05")>>, <<Simple("05"), Simple("01")>>, <<Simple("01")>>}
    /\ s.state = "CONNECTED" /\ s.currFile > 0 => Asked(o, s, ts)

\* To the receiver: data that continues the current file, and the name of the next.
Data(r, i) ==
    [type |-> "06", data |-> IF r.size = 0 THEN <<>> ELSE <<[file |-> r.currFile, at |-> r.pos + i]>>]
Name(name, size) == [type |-> "02", name |-> name, size |-> size]

NextName(o, r, p) ==
    \/ p = Name(r.currFile + 1, o.sizes[r.currFile + 1]) /\ (r.currFile = 0 \/ r.name # NoFile)
    \/ p = Name(NoFile, o.garbage) /\ r.name = NoFile

\* The current file is over when n more chunks of it have come.
FileOver(r, n) ==
    \/ r.currFile = 0 \/ r.currFile \in r.skipped
    \/ r.stream = r.currFile /\ (r.size = 0 \/ r.pos + n = r.size)

Continues(o, r, tr) ==
    \A i \in DOMAIN tr :
       \/ /\ tr[i] = Data(r, i) /\ r.currFile > 0 /\ r.stream = r.currFile
          /\ r.size = 0 \/ r.pos + i <= r.size
       \/ i = Len(tr) /\ r.currFile < Number(o) /\ NextName(o, r, tr[i]) /\ FileOver(r, i - 1)

ToReceiver(o, r, tr) ==
    /\ r.state \in {"NOT_CONNECTED", "WAITING_FOR_INIT"} => tr \in {<<>>, <<Simple("INIT")>>}
    /\ r.state = "WAITING_FOR_INIT_ACK" => tr \in {<<>>, <<Simple("ACK")>>, <<Simple("ACK"), Hello(o)>>}
    /\ r.state = "CONNECTED" /\ r.total = 0 => tr \in {<<>>, <<Hello(o)>>}
    /\ r.state = "CONNECTED" /\ r.total # 0 => Continues(o, r, tr)

-----------------------------------------------------------------------------
(* Both, while they are connected.                                         *)

\* Both are at the same file: the sender is ahead by the data on its way, and
\* what the receiver asks for or skips is what its window says.
SameFile(s, r, ts, tr) ==
    /\ s.currFile = r.currFile /\ r.currFile > 0
    /\ s.name = r.name
    /\ \A i \in DOMAIN tr : tr[i].type = "06"
    /\ s.size > 0 => r.pos + Len(tr) = s.pos
    /\ ~s.continue => tr = <<>>
    /\ s.more => r.stream = r.currFile
    /\ s.continue /\ ~s.more => r.currFile \in r.skipped \/ (r.stream = r.currFile /\ s.pos = s.size)
    /\ r.wanting => ~s.continue
    /\ \A i \in DOMAIN ts :
          /\ ts[i].type = "04" => ts[i].file <= r.currFile
          /\ ts[i].file = r.currFile => ~r.wanting
          /\ ts[i].type = "03" => ~r.wanting
          /\ ts[i].type = "03" /\ ts[i].file = r.currFile => r.stream = r.currFile
          /\ ts[i].type = "03" /\ ts[i].file # r.currFile => r.currFile \in r.skipped
          /\ ts[i].type = "04" /\ ts[i].file = r.currFile => r.currFile \in r.skipped

\* The sender has named the next file.
Ahead(s, r, ts, tr) ==
    /\ s.currFile = r.currFile + 1
    /\ ~s.continue /\ ~r.wanting
    /\ tr # <<>> /\ tr[Len(tr)] = Name(s.name, s.size)
    /\ \A i \in DOMAIN ts : ts[i].type = "04" /\ ts[i].file <= r.currFile

Greeting(o, s, r, ts, tr) ==
    \/ /\ s.state = "WAITING_FOR_INIT_ACK" /\ r.state \in {"NOT_CONNECTED", "WAITING_FOR_INIT"}
       /\ tr = <<Simple("INIT")>> /\ ts = <<>>
    \/ /\ s.state = "WAITING_FOR_INIT_ACK" /\ r.state = "WAITING_FOR_INIT_ACK"
       /\ tr = <<>> /\ ts = <<Simple("ACK"), Simple("INIT")>>
    \/ /\ s.state = "WAITING_FOR_INIT" /\ r.state = "WAITING_FOR_INIT_ACK"
       /\ tr = <<>> /\ ts = <<Simple("INIT")>>
    \/ /\ s.state = "CONNECTED" /\ s.currFile = 0 /\ r.state = "WAITING_FOR_INIT_ACK"
       /\ tr = <<Simple("ACK"), Hello(o)>> /\ ts = <<>>
    \/ /\ s.state = "CONNECTED" /\ s.currFile = 0 /\ r.state = "CONNECTED" /\ r.total = 0
       /\ tr = <<Hello(o)>> /\ ts = <<>>
    \/ /\ s.state = "CONNECTED" /\ s.currFile = 0 /\ r.state = "CONNECTED" /\ r.total # 0 /\ r.currFile = 0
       /\ tr = <<>> /\ ts \in {<<Simple("05"), Simple("01")>>, <<Simple("01")>>}

InStep(o, s, r, ts, tr) ==
    \/ Greeting(o, s, r, ts, tr)
    \/ /\ s.state = "CONNECTED" /\ r.state = "CONNECTED" /\ r.total # 0
       /\ SameFile(s, r, ts, tr) \/ Ahead(s, r, ts, tr)

\* The receiver has read, or will read, what makes the transfer complete.
Finishing(o, r, tr) ==
    \/ r.ev = "COMPLETE"
    \/ /\ r.state = "CONNECTED" /\ r.total # 0 /\ r.currFile = Number(o) /\ r.stream = Number(o)
       /\ tr # <<>> /\ \A i \in DOMAIN tr : tr[i].type = "06"
       /\ r.size > 0 => r.pos + Len(tr) = r.size

\* The sender will not complete.
Stuck(o, s, ts) ==
    /\ s.currFile < Number(o) \/ ~s.continue
    /\ \A i \in DOMAIN ts : ts[i].type \in {"03", "04"} => ts[i].file # Number(o)

-----------------------------------------------------------------------------
(* The inductive invariant.                                                *)

Pair(o, up, s, r, ts, tr) ==
    /\ s.client = "connected" => ToSender(o, s, ts)
    /\ s.client = "connecting" \/ s.ev = "WAIT_RESPONS" => ts = <<>> /\ tr = <<>> /\ r.client # "connected"
    /\ r.client # "none" => ToReceiver(o, r, tr)
    /\ up /\ s.client = "connected" /\ r.client # "none" => InStep(o, s, r, ts, tr)
    /\ up /\ s.ev = "COMPLETE" /\ r.client # "none" /\ r.window => Finishing(o, r, tr)
    /\ up /\ r.window /\ r.ev = "CANCELLED" =>
          s.ev # "COMPLETE" /\ (s.client = "connected" => Stuck(o, s, ts))
    /\ ~up => ts = <<>> /\ tr = <<>>

TransferInv ==
    /\ OfferOK(offer) /\ network \in {"up", "broken"} /\ troubles \in 0 .. MaxTroubles
    /\ ~snd.thrown /\ snd.out = <<>> /\ ~rcv.thrown /\ rcv.out = <<>>
    /\ toSnd \in Seq(Packet) /\ toRcv \in Seq(Packet)
    /\ SenderOK(offer, snd) /\ (snd.client # "none" => Reads(snd)) /\ ReceiverOK(offer, rcv)
    /\ Pair(offer, network = "up", snd, rcv, toSnd, toRcv)

-----------------------------------------------------------------------------
(* The sums of the sizes.                                                  *)

\* The sum of the first n sizes exists, and is one size more than that of n - 1.
LEMMA SumStep ==
  ASSUME NEW o, OfferOK(o)
  PROVE  /\ Sum(o, 0) = 0
         /\ \A n \in 1..Number(o) : Sum(o, n) = Sum(o, n - 1) + o.sizes[n]
<1> DEFINE N == Number(o)
           Body(g, n) == [i \in 0..n |-> IF i = 0 THEN 0 ELSE g[i - 1] + o.sizes[i]]
           Good(g, n) == g = Body(g, n)
           Bad == {n \in 0..N : ~\E g : Good(g, n)}
<1>0. N \in Nat /\ N = Len(o.sizes)
  BY DEF OfferOK, Number
<1>1. \E g : Good(g, 0)
  <2> WITNESS [i \in 0..0 |-> 0]
  <2> QED OBVIOUS
<1>2. ASSUME NEW n \in 0..N, n + 1 \in 0..N, NEW g, Good(g, n) PROVE \E h : Good(h, n + 1)
  <2> DEFINE h == [i \in 0..n+1 |-> IF i = n + 1 THEN g[n] + o.sizes[n + 1] ELSE g[i]]
  <2>2. \A i \in 0..n : g[i] = IF i = 0 THEN 0 ELSE g[i - 1] + o.sizes[i]
    BY <1>2
  <2>3. ASSUME NEW i \in 0..n+1 PROVE h[i] = IF i = 0 THEN 0 ELSE h[i - 1] + o.sizes[i]
    <3>1. CASE i = n + 1
      BY <3>1
    <3>2. CASE i # n + 1
      <4>1. i \in 0..n /\ (i # 0 => i - 1 \in 0..n)
        BY <3>2
      <4> QED BY <2>2, <4>1
    <3> QED BY <3>1, <3>2
  <2>4. h = [i \in 0..n+1 |-> h[i]]
    OBVIOUS
  <2> HIDE DEF h
  <2>5. Good(h, n + 1)
    BY <2>3, <2>4
  <2> QED BY <2>5
<1>3. Bad = {}
  <2>1. SUFFICES ASSUME Bad # {} PROVE FALSE
    OBVIOUS
  <2>2. PICK k \in Bad : \A j \in Bad : k <= j
    <3>1. Bad \in SUBSET (0..N)
      OBVIOUS
    <3> HIDE DEF Bad, N
    <3> QED BY <1>0, <2>1, <3>1, Least
  <2>3. k # 0
    BY <1>1
  <2>4. k - 1 \in 0..N /\ k - 1 \notin Bad /\ (k - 1) + 1 = k
    <3>1. k \in 0..N
      OBVIOUS
    <3> HIDE DEF Bad, N
    <3> QED BY <1>0, <2>2, <2>3, <3>1
  <2>5. PICK g : Good(g, k - 1)
    BY <2>4
  <2>6. \E h : Good(h, k)
    <3> HIDE DEF Good
    <3> QED BY <1>2, <2>4, <2>5
  <2> QED BY <2>6
<1>4. PICK g : Good(g, N)
  BY <1>0, <1>3
<1> DEFINE sum == CHOOSE h : Good(h, N)
<1>5. Good(sum, N)
  BY <1>4
<1>6. \A n : Sum(o, n) = sum[n]
  BY <1>0 DEF Sum
<1> HIDE DEF sum
<1>7. \A i \in 0..N : sum[i] = IF i = 0 THEN 0 ELSE sum[i - 1] + o.sizes[i]
  BY <1>5
<1>8. Sum(o, 0) = 0
  BY <1>0, <1>6, <1>7
<1>9. ASSUME NEW n \in 1..N PROVE Sum(o, n) = Sum(o, n - 1) + o.sizes[n]
  <2>1. n \in 0..N /\ n # 0
    BY <1>0
  <2> QED BY <1>6, <1>7, <2>1
<1> QED BY <1>8, <1>9

\* Each is a natural number, and they grow.
LEMMA SumGrows ==
  ASSUME NEW o, OfferOK(o)
  PROVE  /\ \A n \in 0..Number(o) : Sum(o, n) \in Nat
         /\ \A n \in 0..Number(o), k \in 0..Number(o) : n <= k => Sum(o, n) <= Sum(o, k)
<1> DEFINE N == Number(o)
           Grows(k) == Sum(o, k) \in Nat /\ \A n \in 0..k : Sum(o, n) \in Nat /\ Sum(o, n) <= Sum(o, k)
           Bad == {k \in 0..N : ~Grows(k)}
<1>1. N \in Nat /\ \A n \in 1..N : o.sizes[n] \in Nat
  BY DEF OfferOK, Number
<1>2. Sum(o, 0) = 0 /\ \A n \in 1..N : Sum(o, n) = Sum(o, n - 1) + o.sizes[n]
  BY SumStep
<1> HIDE DEF N
<1>3. Bad = {}
  <2>1. SUFFICES ASSUME Bad # {} PROVE FALSE
    OBVIOUS
  <2>2. PICK k \in Bad : \A j \in Bad : k <= j
    <3>1. Bad \in SUBSET (0..N)
      OBVIOUS
    <3> HIDE DEF Bad
    <3> QED BY <1>1, <2>1, <3>1, Least
  <2>3. k # 0
    BY <1>2
  <2>4. k - 1 \in 0..N /\ k - 1 \notin Bad /\ k \in 1..N
    BY <1>1, <2>2, <2>3
  <2>5. Grows(k - 1)
    BY <2>4
  <2>6. Sum(o, k) = Sum(o, k - 1) + o.sizes[k] /\ o.sizes[k] \in Nat
    BY <1>1, <1>2, <2>4
  <2>7. \A n \in 0..k : n = k \/ n \in 0..(k - 1)
    BY <2>4
  <2> QED BY <2>5, <2>6, <2>7
<1>4. \A k \in 0..N : Grows(k)
  BY <1>3
<1> QED BY <1>1, <1>4 DEF N

LEMMA SumIs ==
  ASSUME NEW n
  PROVE  /\ SizeOfFirst(n) = Sum(offer, n)
         /\ TotalSize = Total(offer)
<1>1. \A k : SizeOfFirst(k) = Sum(offer, k)
  BY DEF SizeOfFirst, Sum
<1> QED BY <1>1 DEF TotalSize, Total, Number

-----------------------------------------------------------------------------
(* The loop that reads packets.                                            *)

LEMMA Turn ==
  ASSUME NEW e, NEW p
  PROVE  ParseEagerly(e, p) = Parse(e, p)
BY DEF ParseEagerly

\* The ends that the loop goes through
Goes(g, e, ps) == g = [i \in 0..Len(ps) |-> IF i = 0 THEN e ELSE ParseEagerly(g[i - 1], ps[i])]

LEMMA LoopExists ==
  ASSUME NEW e, NEW ps, Len(ps) \in Nat
  PROVE  \E g : Goes(g, e, ps)
<1> DEFINE Good(g, n) == g = [i \in 0..n |-> IF i = 0 THEN e ELSE ParseEagerly(g[i - 1], ps[i])]
           Bad == {n \in 0..Len(ps) : ~\E g : Good(g, n)}
<1>1. \E g : Good(g, 0)
  <2> WITNESS [i \in 0..0 |-> e]
  <2> QED OBVIOUS
<1>2. ASSUME NEW n \in 0..Len(ps), n + 1 \in 0..Len(ps), NEW g, Good(g, n) PROVE \E h : Good(h, n + 1)
  <2> DEFINE h == [i \in 0..n+1 |-> IF i = n + 1 THEN ParseEagerly(g[n], ps[n + 1]) ELSE g[i]]
  <2>2. \A i \in 0..n : g[i] = IF i = 0 THEN e ELSE ParseEagerly(g[i - 1], ps[i])
    BY <1>2
  <2>3. ASSUME NEW i \in 0..n+1 PROVE h[i] = IF i = 0 THEN e ELSE ParseEagerly(h[i - 1], ps[i])
    <3>1. CASE i = n + 1
      BY <3>1
    <3>2. CASE i # n + 1
      <4>1. i \in 0..n /\ (i # 0 => i - 1 \in 0..n)
        BY <3>2
      <4> QED BY <2>2, <4>1
    <3> QED BY <3>1, <3>2
  <2>4. h = [i \in 0..n+1 |-> h[i]]
    OBVIOUS
  <2> HIDE DEF h
  <2>5. Good(h, n + 1)
    BY <2>3, <2>4
  <2> QED BY <2>5
<1>3. Bad = {}
  <2>1. SUFFICES ASSUME Bad # {} PROVE FALSE
    OBVIOUS
  <2>2. PICK k \in Bad : \A j \in Bad : k <= j
    <3>1. Bad \in SUBSET (0..Len(ps))
      OBVIOUS
    <3> HIDE DEF Bad
    <3> QED BY <2>1, <3>1, Least
  <2>3. k # 0
    BY <1>1
  <2>4. k - 1 \in 0..Len(ps) /\ k - 1 \notin Bad /\ (k - 1) + 1 = k
    BY <2>2, <2>3
  <2>5. PICK g : Good(g, k - 1)
    BY <2>4
  <2>6. \E h : Good(h, k)
    <3> HIDE DEF Good
    <3> QED BY <1>2, <2>4, <2>5
  <2> QED BY <2>6
<1> QED
  <2>1. Len(ps) \notin Bad
    BY <1>3
  <2> QED BY <2>1 DEF Goes

\* A loop whose turns lead from one set of ends to the next ends in the last.
LEMMA RecvStays ==
  ASSUME NEW e, NEW ps, Len(ps) \in Nat, NEW S, e \in S[0],
         \A i \in 1..Len(ps) : \A f \in S[i - 1] : Parse(f, ps[i]) \in S[i]
  PROVE  Recv(e, ps) \in S[Len(ps)]
<1>0. PICK g : Goes(g, e, ps)
  BY LoopExists
<1> DEFINE Body(h) == [i \in 0..Len(ps) |-> IF i = 0 THEN e ELSE ParseEagerly(h[i - 1], ps[i])]
           after == CHOOSE h : h = Body(h)
<1>1. after = Body(after)
  BY <1>0 DEF Goes
<1>2. Recv(e, ps) = after[Len(ps)]
  BY DEF Recv
<1> HIDE DEF after
<1>3. \A i \in 0..Len(ps) : after[i] = IF i = 0 THEN e ELSE Parse(after[i - 1], ps[i])
  BY <1>1, Turn
<1> DEFINE Bad == {n \in 0..Len(ps) : after[n] \notin S[n]}
<1>4. SUFFICES ASSUME Bad # {} PROVE FALSE
  BY <1>2
<1>5. PICK k \in Bad : \A j \in Bad : k <= j
  <2>1. Bad \in SUBSET (0..Len(ps))
    OBVIOUS
  <2> HIDE DEF Bad
  <2> QED BY <1>4, <2>1, Least
<1>6. k # 0
  BY <1>3
<1>7. k - 1 \in 0..Len(ps) /\ k - 1 \notin Bad /\ k \in 1..Len(ps)
  BY <1>5, <1>6
<1>8. after[k - 1] \in S[k - 1]
  BY <1>7
<1>9. after[k] \in S[k]
  BY <1>3, <1>7, <1>8
<1> QED BY <1>5, <1>9

-----------------------------------------------------------------------------
(* What the handlers change in an end.                                     *)

SamePlace(g, e) ==
    /\ g.currFile = e.currFile /\ g.size = e.size /\ g.pos = e.pos /\ g.totalPos = e.totalPos
    /\ g.name = e.name /\ g.stream = e.stream
SameFlags(g, e) ==
    g.more = e.more /\ g.continue = e.continue /\ g.wanting = e.wanting /\ g.queued = e.queued
SamePeer(g, e) ==
    /\ g.client = e.client /\ g.incoming = e.incoming /\ g.state = e.state
    /\ g.total = e.total /\ g.totalSize = e.totalSize
SameWindow(g, e) ==
    /\ g.disk = e.disk /\ g.skipped = e.skipped /\ g.sheet = e.sheet
    /\ g.window = e.window /\ g.crashed = e.crashed
SameEvent(g, e) == g.ev = e.ev /\ g.shown = e.shown

LEMMA SendIs ==
  ASSUME NEW e \in End, NEW p \in Packet
  PROVE  LET g == Send(e, p) IN
         /\ g \in End /\ g.out = Append(e.out, p) /\ g.thrown = e.thrown
         /\ SamePlace(g, e) /\ SameFlags(g, e) /\ SamePeer(g, e) /\ SameWindow(g, e) /\ SameEvent(g, e)
<1>1. PICK out : out = Append(e.out, p)
  OBVIOUS
<1>2. out \in Seq(Packet)
  BY <1>1 DEF End
<1>3. Send(e, p) = [e EXCEPT !.out = out]
  BY <1>1 DEF Send
<1> QED BY <1>1, <1>2, <1>3 DEF End, SamePlace, SameFlags, SamePeer, SameWindow, SameEvent

LEMMA ThrowIs ==
  ASSUME NEW e \in End
  PROVE  LET g == Throw(e) IN
         /\ g \in End /\ g.out = e.out /\ g.thrown = TRUE
         /\ SamePlace(g, e) /\ SameFlags(g, e) /\ SamePeer(g, e) /\ SameWindow(g, e) /\ SameEvent(g, e)
BY DEF End, Throw, SamePlace, SameFlags, SamePeer, SameWindow, SameEvent

LEMMA EndsWith ==
  ASSUME NEW e \in End, NEW ev \in EventStates
  PROVE  LET g == Throw([e EXCEPT !.ev = ev]) IN
         /\ g \in End /\ g.out = e.out /\ g.thrown = TRUE /\ g.ev = ev /\ g.shown = e.shown
         /\ SamePlace(g, e) /\ SameFlags(g, e) /\ SamePeer(g, e) /\ SameWindow(g, e)
<1>1. PICK h : h = [e EXCEPT !.ev = ev]
  OBVIOUS
<1>2. /\ h \in End /\ h.out = e.out /\ h.thrown = e.thrown /\ h.ev = ev /\ h.shown = e.shown
      /\ SamePlace(h, e) /\ SameFlags(h, e) /\ SamePeer(h, e) /\ SameWindow(h, e)
  BY <1>1 DEF End, SamePlace, SameFlags, SamePeer, SameWindow
<1> QED BY <1>1, <1>2, ThrowIs DEF SamePlace, SameFlags, SamePeer, SameWindow, SameEvent

LEMMA UpdateIs ==
  ASSUME NEW e \in End
  PROVE  LET g == Update(e) IN
         /\ g \in End /\ g.out = e.out /\ g.thrown = e.thrown /\ g.ev = e.ev /\ g.shown = e.ev
         /\ SamePlace(g, e) /\ SameFlags(g, e) /\ SamePeer(g, e) /\ SameWindow(g, e)
BY DEF End, Update, SamePlace, SameFlags, SamePeer, SameWindow

\* The next chunk of a file that is open
LEMMA ChunkIs ==
  ASSUME NEW e \in End, e.pos <= e.size
  PROVE  LET g == SendChunk(e)
             n == IF e.pos < e.size THEN 1 ELSE 0
         IN  /\ g \in End /\ g.thrown = e.thrown
             /\ g.out = Append(e.out, [type |-> "06", data |-> IF n = 1 THEN <<[file |-> e.stream, at |-> e.pos + 1]>> ELSE <<>>])
             /\ g.pos = e.pos + n /\ g.totalPos = e.totalPos + n /\ g.more = (e.pos + n < e.size)
             /\ g.currFile = e.currFile /\ g.size = e.size /\ g.name = e.name /\ g.stream = e.stream
             /\ g.continue = e.continue /\ g.wanting = e.wanting /\ g.queued = e.queued
             /\ SamePeer(g, e) /\ SameWindow(g, e) /\ SameEvent(g, e)
<1> DEFINE n == IF e.pos < e.size THEN 1 ELSE 0
<1>1. PICK data : data = IF e.pos < e.size THEN <<[file |-> e.stream, at |-> e.pos + 1]>> ELSE <<>>
  OBVIOUS
<1>2. n \in Nat /\ e.pos \in Nat /\ e.totalPos \in Nat /\ e.stream \in Nat
  BY DEF End
<1>3. Len(data) = n /\ data \in Seq(Chunk)
  <2>1. CASE e.pos < e.size
    <3>1. data = <<[file |-> e.stream, at |-> e.pos + 1]>> /\ n = 1
      BY <1>1, <2>1
    <3>2. [file |-> e.stream, at |-> e.pos + 1] \in Chunk
      BY <1>2 DEF Chunk
    <3> QED BY <3>1, <3>2
  <2>2. CASE ~(e.pos < e.size)
    BY <1>1, <2>2
  <2> QED BY <2>1, <2>2
<1>4. PICK p : p = [type |-> "06", data |-> data]
  OBVIOUS
<1>5. p \in Packet
  BY <1>3, <1>4 DEF Packet
<1>6. PICK more \in BOOLEAN : more = (e.pos + n < e.size)
  <2>1. (e.pos + n < e.size) \in BOOLEAN
    OBVIOUS
  <2> QED BY <2>1, Zenon
<1>7. PICK h : h = [e EXCEPT !.pos = e.pos + n, !.totalPos = e.totalPos + n, !.more = more]
  OBVIOUS
<1> HIDE DEF n
<1>8. SendChunk(e) = Send(h, p)
  BY <1>1, <1>3, <1>4, <1>6, <1>7 DEF SendChunk, End
<1>9. /\ h \in End /\ h.thrown = e.thrown /\ h.out = e.out
      /\ h.pos = e.pos + n /\ h.totalPos = e.totalPos + n /\ h.more = more
      /\ h.currFile = e.currFile /\ h.size = e.size /\ h.name = e.name /\ h.stream = e.stream
      /\ h.continue = e.continue /\ h.wanting = e.wanting /\ h.queued = e.queued
      /\ SamePeer(h, e) /\ SameWindow(h, e) /\ SameEvent(h, e)
  <2>1. e.pos + n \in Nat /\ e.totalPos + n \in Nat
    BY <1>2
  <2>2. h \in End /\ h.pos = e.pos + n /\ h.totalPos = e.totalPos + n /\ h.more = more
    BY <1>6, <1>7, <2>1 DEF End
  <2> QED BY <1>7, <2>2 DEF End, SamePeer, SameWindow, SameEvent
<1>10. PICK g : g = SendChunk(e)
  OBVIOUS
<1>11. /\ g \in End /\ g.out = Append(h.out, p) /\ g.thrown = h.thrown
       /\ SamePlace(g, h) /\ SameFlags(g, h) /\ SamePeer(g, h) /\ SameWindow(g, h) /\ SameEvent(g, h)
  BY <1>5, <1>8, <1>9, <1>10, SendIs
<1>12. p = [type |-> "06", data |-> IF n = 1 THEN <<[file |-> e.stream, at |-> e.pos + 1]>> ELSE <<>>]
  BY <1>1, <1>4 DEF n
<1> QED BY <1>6, <1>9, <1>10, <1>11, <1>12 DEF n, SamePlace, SameFlags, SamePeer, SameWindow, SameEvent

\* The name of the next file
LEMMA NameIs ==
  ASSUME NEW e \in End, e.pos <= e.size, offer.sizes[e.currFile + 1] \in Nat
  PROVE  LET g == SendPacket0x02(e) IN
         /\ g \in End /\ g.thrown = e.thrown /\ g.out = Append(e.out, Name(g.name, g.size))
         /\ g.currFile = e.currFile + 1 /\ g.pos = 0 /\ g.totalPos = (e.totalPos + e.size) - e.pos
         /\ e.ev = "SEND" => /\ g.size = offer.sizes[e.currFile + 1] /\ g.name = e.currFile + 1
                             /\ g.stream \in {NoFile, g.name}
         /\ e.ev # "SEND" => g.size = e.size /\ g.name = e.name /\ g.stream = e.stream
         /\ SameFlags(g, e) /\ SamePeer(g, e) /\ SameWindow(g, e) /\ SameEvent(g, e)
<1>1. PICK h1 : h1 = [e EXCEPT !.currFile = @ + 1]
  OBVIOUS
<1>2. /\ h1 \in End /\ h1.thrown = e.thrown /\ h1.out = e.out /\ h1.currFile = e.currFile + 1
      /\ h1.size = e.size /\ h1.pos = e.pos /\ h1.totalPos = e.totalPos
      /\ h1.name = e.name /\ h1.stream = e.stream
      /\ SameFlags(h1, e) /\ SamePeer(h1, e) /\ SameWindow(h1, e) /\ SameEvent(h1, e)
  <2>1. PICK cf \in Nat : cf = e.currFile + 1
    BY DEF End
  <2>2. h1 = [e EXCEPT !.currFile = cf]
    BY <1>1, <2>1 DEF End
  <2>3. h1 \in End
    BY <2>1, <2>2 DEF End
  <2>4. /\ h1.thrown = e.thrown /\ h1.out = e.out /\ h1.currFile = cf
        /\ h1.size = e.size /\ h1.pos = e.pos /\ h1.totalPos = e.totalPos
        /\ h1.name = e.name /\ h1.stream = e.stream
    BY <2>2, <2>3 DEF End
  <2>5. SameFlags(h1, e) /\ SamePeer(h1, e) /\ SameWindow(h1, e) /\ SameEvent(h1, e)
    BY <2>2, <2>3 DEF End, SameFlags, SamePeer, SameWindow, SameEvent
  <2> QED BY <2>1, <2>3, <2>4, <2>5
<1>3. PICK t \in Nat : t = (e.totalPos + e.size) - e.pos
  BY DEF End
<1>4. PICK h2 : h2 = CountFile(h1)
  OBVIOUS
<1>5. h2 = [h1 EXCEPT !.totalPos = t, !.pos = 0]
  BY <1>2, <1>3, <1>4 DEF CountFile, End
<1>6. /\ h2 \in End /\ h2.thrown = e.thrown /\ h2.out = e.out /\ h2.currFile = e.currFile + 1
      /\ h2.size = e.size /\ h2.pos = 0 /\ h2.totalPos = t
      /\ h2.name = e.name /\ h2.stream = e.stream
  BY <1>2, <1>3, <1>5 DEF End
<1>7. SameFlags(h2, e) /\ SamePeer(h2, e) /\ SameWindow(h2, e) /\ SameEvent(h2, e)
  BY <1>2, <1>5 DEF End, SameFlags, SamePeer, SameWindow, SameEvent
<1>8. PICK h3 : h3 = WantFileToSend(h2)
  OBVIOUS
<1>9. /\ h3 \in End /\ h3.thrown = e.thrown /\ h3.out = e.out /\ h3.currFile = e.currFile + 1
      /\ h3.pos = 0 /\ h3.totalPos = t
      /\ e.ev = "SEND" => /\ h3.size = offer.sizes[e.currFile + 1] /\ h3.name = e.currFile + 1
                          /\ h3.stream \in {NoFile, h3.name}
      /\ e.ev # "SEND" => h3.size = e.size /\ h3.name = e.name /\ h3.stream = e.stream
      /\ SameFlags(h3, e) /\ SamePeer(h3, e) /\ SameWindow(h3, e) /\ SameEvent(h3, e)
  <2>1. CASE e.ev # "SEND"
    <3>1. h3 = h2
      BY <1>7, <1>8, <2>1 DEF WantFileToSend, SameEvent
    <3> QED BY <1>6, <1>7, <2>1, <3>1
  <2>2. CASE e.ev = "SEND"
    <3>1. PICK cf \in Nat : cf = e.currFile + 1
      BY DEF End
    <3>2. PICK st \in Nat : st \in {NoFile, cf} /\ st = IF cf \in offer.missing THEN NoFile ELSE cf
      BY <3>1 DEF NoFile
    <3>0. PICK sz \in Nat : sz = offer.sizes[cf]
      BY <3>1
    <3>3. h3 = [h2 EXCEPT !.size = sz, !.name = cf, !.stream = st]
      BY <1>6, <1>7, <1>8, <2>2, <3>0, <3>1, <3>2 DEF WantFileToSend, SameEvent, End
    <3>4. /\ h3 \in End /\ h3.thrown = e.thrown /\ h3.out = e.out /\ h3.currFile = cf
          /\ h3.pos = 0 /\ h3.totalPos = t /\ h3.size = offer.sizes[cf] /\ h3.name = cf /\ h3.stream = st
      <4>1. h3 \in End
        <5>1. h2 \in End /\ sz \in Nat /\ cf \in Nat /\ st \in Nat
          BY <1>6, <3>0, <3>1, <3>2
        <5> QED BY <3>3, <5>1 DEF End
      <4> QED BY <1>6, <3>0, <3>1, <3>2, <3>3, <4>1 DEF End
    <3>5. SameFlags(h3, e) /\ SamePeer(h3, e) /\ SameWindow(h3, e) /\ SameEvent(h3, e)
      BY <1>6, <1>7, <3>3 DEF End, SameFlags, SamePeer, SameWindow, SameEvent
    <3> QED BY <2>2, <3>1, <3>2, <3>4, <3>5
  <2> QED BY <2>1, <2>2
<1>10. PICK p : p = Name(h3.name, h3.size)
  OBVIOUS
<1>11. p \in Packet
  <2>1. h3.name \in Nat /\ h3.size \in Nat
    BY <1>9 DEF End
  <2> QED BY <1>10, <2>1 DEF Packet, Name
<1>12. SendPacket0x02(e) = Send(h3, p)
  BY <1>1, <1>4, <1>8, <1>10 DEF SendPacket0x02, Name
<1>13. PICK g : g = SendPacket0x02(e)
  OBVIOUS
<1>14. /\ g \in End /\ g.out = Append(h3.out, p) /\ g.thrown = h3.thrown
       /\ SamePlace(g, h3) /\ SameFlags(g, h3) /\ SamePeer(g, h3) /\ SameWindow(g, h3) /\ SameEvent(g, h3)
  BY <1>9, <1>11, <1>12, <1>13, SendIs
<1> QED BY <1>3, <1>9, <1>10, <1>13, <1>14 DEF SamePlace, SameFlags, SamePeer, SameWindow, SameEvent

LEMMA NextFileIs ==
  ASSUME NEW e \in End, e.pos <= e.size, offer.sizes[e.currFile + 1] \in Nat
  PROVE  LET g == NextFile(e) IN
         /\ g \in End /\ g.thrown = e.thrown /\ g.out = Append(e.out, Name(g.name, g.size))
         /\ g.currFile = e.currFile + 1 /\ g.pos = 0 /\ g.totalPos = (e.totalPos + e.size) - e.pos
         /\ e.ev = "SEND" => /\ g.size = offer.sizes[e.currFile + 1] /\ g.name = e.currFile + 1
                             /\ g.stream \in {NoFile, g.name}
         /\ e.ev # "SEND" => g.size = e.size /\ g.name = e.name /\ g.stream = e.stream
         /\ g.continue = FALSE /\ g.more = FALSE /\ g.wanting = e.wanting /\ g.queued = e.queued
         /\ SamePeer(g, e) /\ SameWindow(g, e) /\ SameEvent(g, e)
<1>1. PICK h : h = SendPacket0x02(e)
  OBVIOUS
<1>2. h \in End
  BY <1>1, NameIs
<1>3. PICK g : g = NextFile(e)
  OBVIOUS
<1>4. g = [h EXCEPT !.continue = FALSE, !.more = FALSE]
  BY <1>1, <1>3 DEF NextFile
<1>5. /\ g \in End /\ g.thrown = h.thrown /\ g.out = h.out /\ SamePlace(g, h)
      /\ g.continue = FALSE /\ g.more = FALSE /\ g.wanting = h.wanting /\ g.queued = h.queued
      /\ SamePeer(g, h) /\ SameWindow(g, h) /\ SameEvent(g, h)
  BY <1>2, <1>4 DEF End, SamePlace, SamePeer, SameWindow, SameEvent
<1>6. /\ h.thrown = e.thrown /\ h.out = Append(e.out, Name(h.name, h.size))
      /\ h.currFile = e.currFile + 1 /\ h.pos = 0 /\ h.totalPos = (e.totalPos + e.size) - e.pos
      /\ e.ev = "SEND" => /\ h.size = offer.sizes[e.currFile + 1] /\ h.name = e.currFile + 1
                          /\ h.stream \in {NoFile, h.name}
      /\ e.ev # "SEND" => h.size = e.size /\ h.name = e.name /\ h.stream = e.stream
      /\ SameFlags(h, e) /\ SamePeer(h, e) /\ SameWindow(h, e) /\ SameEvent(h, e)
  BY <1>1, NameIs
<1> QED BY <1>3, <1>5, <1>6 DEF SamePlace, SameFlags, SamePeer, SameWindow, SameEvent

-----------------------------------------------------------------------------
(* SendFile, case by case.                                                 *)

LEMMA SendFileIdle ==
  ASSUME NEW e \in End, ~e.queued, ~e.continue, ~e.thrown
  PROVE  LET g == SendFile(e) IN
         /\ g \in End /\ g.out = e.out /\ g.thrown = e.thrown /\ g.ev = e.ev /\ g.shown = e.ev
         /\ SamePlace(g, e) /\ SameFlags(g, e) /\ SamePeer(g, e) /\ SameWindow(g, e)
<1>1. SendFile(e) = Update(e)
  BY DEF SendFile
<1> QED BY <1>1, UpdateIs, Zenon

LEMMA SendFileError ==
  ASSUME NEW e \in End, ~e.queued, e.continue, e.more, e.stream = NoFile
  PROVE  LET g == SendFile(e) IN
         /\ g \in End /\ g.out = e.out /\ g.thrown /\ g.ev = "ERROR" /\ g.shown = e.shown
         /\ SamePlace(g, e) /\ SameFlags(g, e) /\ SamePeer(g, e) /\ SameWindow(g, e)
<1>1. PICK h : h = Throw([e EXCEPT !.ev = "ERROR"])
  OBVIOUS
<1>2. /\ h \in End /\ h.out = e.out /\ h.thrown = TRUE /\ h.ev = "ERROR" /\ h.shown = e.shown
      /\ SamePlace(h, e) /\ SameFlags(h, e) /\ SamePeer(h, e) /\ SameWindow(h, e)
  <2>1. "ERROR" \in EventStates
    BY DEF EventStates
  <2> QED BY <1>1, <2>1, EndsWith
<1>3. SendPacket0x06(e) = h
  BY <1>1 DEF SendPacket0x06
<1>4. SendFile(e) = h
  BY <1>2, <1>3 DEF SendFile
<1> QED BY <1>2, <1>4

LEMMA SendFileChunk ==
  ASSUME NEW e \in End, ~e.queued, e.continue, e.more, e.stream # NoFile, ~e.thrown, e.pos <= e.size
  PROVE  LET g == SendFile(e)
             n == IF e.pos < e.size THEN 1 ELSE 0
         IN  /\ g \in End
             /\ g.thrown <=> (~g.more /\ e.currFile = e.total)
             /\ g.ev = (IF g.thrown THEN "COMPLETE" ELSE e.ev)
             /\ g.shown \in {e.shown, e.ev} /\ (~g.thrown => g.shown = e.ev)
             /\ g.out = Append(e.out, [type |-> "06", data |-> IF n = 1 THEN <<[file |-> e.stream, at |-> e.pos + 1]>> ELSE <<>>])
             /\ g.pos = e.pos + n /\ g.totalPos = e.totalPos + n /\ g.more = (e.pos + n < e.size)
             /\ g.currFile = e.currFile /\ g.size = e.size /\ g.name = e.name /\ g.stream = e.stream
             /\ g.continue = e.continue /\ g.wanting = e.wanting /\ g.queued = e.queued
             /\ SamePeer(g, e) /\ SameWindow(g, e)
<1> DEFINE n == IF e.pos < e.size THEN 1 ELSE 0
<1>1. PICK c : c = SendChunk(e)
  OBVIOUS
<1>2. /\ c \in End /\ c.thrown = e.thrown
      /\ c.out = Append(e.out, [type |-> "06", data |-> IF n = 1 THEN <<[file |-> e.stream, at |-> e.pos + 1]>> ELSE <<>>])
      /\ c.pos = e.pos + n /\ c.totalPos = e.totalPos + n /\ c.more = (e.pos + n < e.size)
      /\ c.currFile = e.currFile /\ c.size = e.size /\ c.name = e.name /\ c.stream = e.stream
      /\ c.continue = e.continue /\ c.wanting = e.wanting /\ c.queued = e.queued
      /\ SamePeer(c, e) /\ SameWindow(c, e) /\ SameEvent(c, e)
  BY <1>1, ChunkIs
<1> HIDE DEF n
<1>3. PICK g : g = SendFile(e)
  OBVIOUS
<1>4. CASE ~c.more /\ e.currFile = e.total
  <2>1. SendPacket0x06(e) = Complete(c)
    BY <1>1, <1>4 DEF SendPacket0x06
  <2>2. PICK h : h = Complete(c)
    OBVIOUS
  <2>3. /\ h \in End /\ h.out = c.out /\ h.thrown = TRUE /\ h.ev = "COMPLETE" /\ h.shown = c.shown
        /\ SamePlace(h, c) /\ SameFlags(h, c) /\ SamePeer(h, c) /\ SameWindow(h, c)
    <3>1. "COMPLETE" \in EventStates
      BY DEF EventStates
    <3> QED BY <1>2, <2>2, <3>1, EndsWith DEF Complete
  <2>4. g = h
    BY <1>3, <2>1, <2>2, <2>3 DEF SendFile
  <2> QED BY <1>2, <1>3, <1>4, <2>3, <2>4 DEF n, SamePlace, SameFlags, SamePeer, SameWindow, SameEvent
<1>5. CASE ~(~c.more /\ e.currFile = e.total)
  <2>1. SendPacket0x06(e) = c
    BY <1>1, <1>5 DEF SendPacket0x06
  <2>2. g = Update(c)
    BY <1>2, <1>3, <2>1 DEF SendFile
  <2>3. /\ g \in End /\ g.out = c.out /\ g.thrown = c.thrown /\ g.ev = c.ev /\ g.shown = c.ev
        /\ SamePlace(g, c) /\ SameFlags(g, c) /\ SamePeer(g, c) /\ SameWindow(g, c)
    BY <1>2, <2>2, UpdateIs
  <2> QED BY <1>2, <1>3, <1>5, <2>3 DEF n, SamePlace, SameFlags, SamePeer, SameWindow, SameEvent
<1> QED BY <1>4, <1>5

LEMMA SendFileNext ==
  ASSUME NEW e \in End, ~e.queued, e.continue, ~e.more, e.currFile < e.total, ~e.thrown,
         e.pos <= e.size, offer.sizes[e.currFile + 1] \in Nat
  PROVE  LET g == SendFile(e) IN
         /\ g \in End /\ ~g.thrown /\ g.out = Append(e.out, Name(g.name, g.size))
         /\ g.currFile = e.currFile + 1 /\ g.pos = 0 /\ g.totalPos = (e.totalPos + e.size) - e.pos
         /\ e.ev = "SEND" => /\ g.size = offer.sizes[e.currFile + 1] /\ g.name = e.currFile + 1
                             /\ g.stream \in {NoFile, g.name}
         /\ e.ev # "SEND" => g.size = e.size /\ g.name = e.name /\ g.stream = e.stream
         /\ g.continue = FALSE /\ g.more = FALSE /\ g.wanting = e.wanting /\ g.queued = e.queued
         /\ g.ev = e.ev /\ g.shown = e.ev
         /\ SamePeer(g, e) /\ SameWindow(g, e)
<1>1. PICK h : h = NextFile(e)
  OBVIOUS
<1>2. /\ h \in End /\ h.thrown = e.thrown /\ h.out = Append(e.out, Name(h.name, h.size))
      /\ h.currFile = e.currFile + 1 /\ h.pos = 0 /\ h.totalPos = (e.totalPos + e.size) - e.pos
      /\ e.ev = "SEND" => /\ h.size = offer.sizes[e.currFile + 1] /\ h.name = e.currFile + 1
                          /\ h.stream \in {NoFile, h.name}
      /\ e.ev # "SEND" => h.size = e.size /\ h.name = e.name /\ h.stream = e.stream
      /\ h.continue = FALSE /\ h.more = FALSE /\ h.wanting = e.wanting /\ h.queued = e.queued
      /\ SamePeer(h, e) /\ SameWindow(h, e) /\ SameEvent(h, e)
  BY <1>1, NextFileIs
<1>3. PICK g : g = SendFile(e)
  OBVIOUS
<1>4. g = Update(h)
  BY <1>1, <1>2, <1>3 DEF SendFile
<1>5. /\ g \in End /\ g.out = h.out /\ g.thrown = h.thrown /\ g.ev = h.ev /\ g.shown = h.ev
      /\ SamePlace(g, h) /\ SameFlags(g, h) /\ SamePeer(g, h) /\ SameWindow(g, h)
  BY <1>2, <1>4, UpdateIs
<1> QED BY <1>2, <1>3, <1>5 DEF SamePlace, SameFlags, SamePeer, SameWindow, SameEvent

-----------------------------------------------------------------------------
(* The sender's callback.  Between two packets its end is as SenderMid     *)
(* says; with a receiver that is there and a network that is up also as    *)
(* JointMid, where t was on the way to the receiver when the callback      *)
(* began; and with a receiver that gave up as StuckMid.                    *)

SenderMid(o, s, ts) ==
    /\ SenderOK(o, s) /\ s.client = "connected"
    /\ ~s.thrown => Reads(s) /\ ToSender(o, s, ts)
JointMid(o, s, r, ts, t) ==
    /\ ToReceiver(o, r, t \o s.out)
    /\ ~s.thrown => InStep(o, s, r, ts, t \o s.out)
    /\ s.ev = "COMPLETE" /\ r.window => Finishing(o, r, t \o s.out)
StuckMid(o, s, ts) == s.ev # "COMPLETE" /\ (~s.thrown => Stuck(o, s, ts))

\* A sender that is asked to send: of a file that is empty or missing too.
Ready(o, s, ts) ==
    /\ OfferOK(o) /\ SenderOK(o, s) /\ s.client = "connected" /\ ~s.thrown /\ s.state = "CONNECTED"
    /\ s.more => s.pos < s.size \/ s.size = 0
    /\ ToSender(o, s, ts)

\* What is sent is behind what was on the way.
LEMMA Behind ==
  ASSUME NEW t \in Seq(Packet), NEW out \in Seq(Packet), NEW p \in Packet
  PROVE  t \o Append(out, p) = Append(t \o out, p)
OBVIOUS

LEMMA NotNamed == ASSUME NEW o, NEW r, NEW p, p.type # "02" PROVE ~NextName(o, r, p)
BY DEF NextName, Name

LEMMA ChunkSender ==
  ASSUME NEW s, NEW ts, Ready(offer, s, ts), s.continue, s.more, s.stream # NoFile
  PROVE  SenderMid(offer, SendFile(s), ts)
<1>1. /\ s \in End /\ ~s.queued /\ s.pos <= s.size /\ s.total = Number(offer) /\ s.pos \in Nat /\ s.size \in Nat
      /\ s.ev # "WAIT_RESPONS"
  BY DEF Ready, SenderOK, SenderGoes, AtFile, End
<1>2. PICK g : g = SendFile(s)
  OBVIOUS
<1> DEFINE n == IF s.pos < s.size THEN 1 ELSE 0
<1>3. /\ g \in End
      /\ g.thrown <=> (~g.more /\ s.currFile = s.total)
      /\ g.ev = (IF g.thrown THEN "COMPLETE" ELSE s.ev)
      /\ g.pos = s.pos + n /\ g.totalPos = s.totalPos + n /\ g.more = (s.pos + n < s.size)
      /\ g.currFile = s.currFile /\ g.size = s.size /\ g.name = s.name /\ g.stream = s.stream
      /\ g.continue = s.continue /\ g.wanting = s.wanting /\ g.queued = s.queued
      /\ SamePeer(g, s) /\ SameWindow(g, s)
  BY <1>1, <1>2, SendFileChunk DEF Ready
<1>9. n \in {0, 1} /\ (n = 1 <=> s.pos < s.size) /\ (n = 0 <=> s.pos = s.size)
  BY <1>1
<1> HIDE DEF n
<1>4. AtFile(offer, g)
  <2>1. AtFile(offer, s) /\ s.currFile \in Nat /\ s.totalPos \in Nat /\ s.name \in Nat /\ s.stream \in {NoFile, s.name}
    BY <1>1 DEF Ready, SenderOK, SenderGoes, End
  <2>2. s.name # NoFile
    BY <2>1
  <2>3. Sum(offer, s.currFile - 1) \in Nat /\ offer.garbage \in Nat
    <3>1. s.currFile \in 1..Number(offer)
      BY <2>1, <2>2 DEF AtFile, Ready, OfferOK, NoFile
    <3>2. s.currFile - 1 \in 0..Number(offer)
      BY <3>1 DEF Ready, OfferOK
    <3> QED BY <3>2, SumGrows DEF Ready, OfferOK
  <2>4. g.totalPos = Sum(offer, s.currFile - 1) + g.pos + offer.garbage
    BY <1>1, <1>3, <1>9, <2>1, <2>2, <2>3 DEF AtFile
  <2>5. g.pos <= g.size /\ s.currFile # 0
    BY <1>1, <1>3, <1>9, <2>1, <2>2 DEF AtFile, NoFile
  <2> QED BY <1>3, <2>1, <2>2, <2>4, <2>5 DEF AtFile
<1>5. SenderOK(offer, g)
  <2>1. SenderOK(offer, s) /\ SenderGoes(offer, s)
    BY DEF Ready, SenderOK
  <2>2. ~g.thrown => SenderGoes(offer, g)
    <3>1. ~g.thrown /\ g.currFile <= Number(offer) => g.more \/ g.currFile < Number(offer)
      BY <1>1, <1>3, <1>4 DEF AtFile, Ready, OfferOK
    <3> QED BY <1>3, <1>4, <2>1, <3>1 DEF SenderGoes, SamePeer, AtFile, Ready, OfferOK
  <2> QED BY <1>1, <1>3, <1>4, <2>1, <2>2 DEF SenderOK, SamePeer
<1>6. ~g.thrown => Reads(g)
  BY <1>3 DEF Reads
<1>7. ToSender(offer, g, ts)
  BY <1>3 DEF Ready, ToSender, Asked, SamePeer
<1> QED BY <1>2, <1>3, <1>5, <1>6, <1>7 DEF Ready, SenderMid, SamePeer

LEMMA ChunkJoint ==
  ASSUME NEW s, NEW r, NEW ts, Ready(offer, s, ts), s.continue, s.more, s.stream # NoFile,
         NEW t \in Seq(Packet), ReceiverOK(offer, r), r.client # "none", JointMid(offer, s, r, ts, t)
  PROVE  JointMid(offer, SendFile(s), r, ts, t)
<1>1. /\ s \in End /\ ~s.queued /\ s.pos <= s.size /\ s.total = Number(offer) /\ s.pos \in Nat /\ s.size \in Nat
      /\ s.currFile > 0 /\ s.stream \in Nat /\ s.out \in Seq(Packet) /\ s.stream = s.name /\ s.name = s.currFile
      /\ s.size = offer.sizes[s.currFile]
  BY DEF Ready, SenderOK, SenderGoes, AtFile, End
<1>2. PICK g : g = SendFile(s)
  OBVIOUS
<1> DEFINE n == IF s.pos < s.size THEN 1 ELSE 0
<1>3. PICK p : p = [type |-> "06", data |-> IF n = 1 THEN <<[file |-> s.stream, at |-> s.pos + 1]>> ELSE <<>>]
  OBVIOUS
<1>4. /\ g.thrown <=> (~g.more /\ s.currFile = s.total)
      /\ g.ev = (IF g.thrown THEN "COMPLETE" ELSE s.ev)
      /\ g.pos = s.pos + n /\ (g.more <=> s.pos + n < s.size) /\ g.out = Append(s.out, p)
      /\ g.currFile = s.currFile /\ g.size = s.size /\ g.name = s.name /\ g.stream = s.stream
      /\ g.continue = s.continue
      /\ SamePeer(g, s)
  BY <1>1, <1>2, <1>3, SendFileChunk DEF Ready
<1>21. n \in {0, 1} /\ (n = 1 <=> s.pos < s.size) /\ (n = 0 <=> s.pos = s.size)
  BY <1>1
<1> HIDE DEF n
<1>5. p \in Packet /\ p.type = "06"
  <2>1. CASE n = 1
    <3>1. [file |-> s.stream, at |-> s.pos + 1] \in Chunk
      BY <1>1 DEF Chunk
    <3> QED BY <1>3, <2>1, <3>1 DEF Packet
  <2>2. CASE n # 1
    BY <1>3, <2>2 DEF Packet
  <2> QED BY <2>1, <2>2
<1>6. PICK tr \in Seq(Packet) : tr = t \o s.out
  BY <1>1, ConcatProperties
<1>7. PICK tq : tq = t \o g.out
  OBVIOUS
<1>8. /\ tq = Append(tr, p) /\ tq \in Seq(Packet) /\ Len(tq) = Len(tr) + 1 /\ Len(tr) \in Nat /\ tq[Len(tr) + 1] = p
      /\ \A i \in 1..Len(tr) : tq[i] = tr[i]
      /\ DOMAIN tq = 1 .. Len(tr) + 1 /\ DOMAIN tr = 1 .. Len(tr)
  <2>1. t \o Append(s.out, p) = Append(t \o s.out, p)
    BY <1>1, <1>5, Behind
  <2>2. tq = Append(tr, p)
    BY <1>4, <1>6, <1>7, <2>1
  <2> QED BY <1>5, <1>6, <2>2, AppendProperties
<1>23. s.pos \in Nat /\ s.size \in Nat /\ s.pos <= s.size /\ (s.size > 0 => s.pos < s.size)
  BY <1>1 DEF Ready
<1>24. g.pos = s.pos + n /\ (g.more <=> s.pos + n < s.size)
  BY <1>4
<1>22. PICK m \in Nat : m = Len(tr) /\ Len(tq) = m + 1
  BY <1>8
<1>9. InStep(offer, s, r, ts, tr) /\ ToReceiver(offer, r, tr)
  BY <1>6 DEF JointMid, Ready
<1>10. SameFile(s, r, ts, tr) /\ r.state = "CONNECTED" /\ r.total # 0 /\ Continues(offer, r, tr)
  BY <1>1, <1>9 DEF InStep, Greeting, Ahead, Ready, ToReceiver
<1>11. r.stream = r.currFile /\ r.currFile = s.currFile /\ r.name = s.name /\ r.size = s.size
       /\ (s.size > 0 => r.pos + m = s.pos) /\ r.pos \in Nat
  BY <1>1, <1>10, <1>22 DEF SameFile, ReceiverOK, AtFileReceived, End, NoFile
<1>12. p = Data(r, m + 1) /\ (r.size = 0 \/ r.pos + (m + 1) <= r.size)
  <2>1. CASE n = 1
    <3>1. r.size > 0 /\ s.pos + 1 <= s.size /\ s.pos + 1 = r.pos + (m + 1)
      BY <1>21, <1>22, <1>23, <1>11, <2>1
    <3>2. Data(r, m + 1) = [type |-> "06", data |-> <<[file |-> s.stream, at |-> s.pos + 1]>>]
      BY <1>1, <1>11, <3>1 DEF Data
    <3> QED BY <1>3, <2>1, <3>1, <3>2, <1>11, <1>1
  <2>2. CASE n # 1
    <3>1. r.size = 0
      BY <1>1, <1>21, <1>11, <2>2 DEF Ready
    <3> QED BY <1>3, <2>2, <3>1 DEF Data
  <2> QED BY <2>1, <2>2
<1>13. Continues(offer, r, tq)
  <2>1. ASSUME NEW i \in 1..Len(tr)
        PROVE  /\ tq[i] = Data(r, i) /\ r.currFile > 0 /\ r.stream = r.currFile
               /\ r.size = 0 \/ r.pos + i <= r.size
    <3>1. tr[i].type # "02"
      BY <1>8, <1>10 DEF SameFile
    <3>2. ~NextName(offer, r, tr[i])
      BY <3>1, NotNamed
    <3> QED BY <1>8, <1>10, <3>2 DEF Continues
  <2>2. ASSUME NEW i \in 1..(Len(tr) + 1)
        PROVE  /\ tq[i] = Data(r, i) /\ r.currFile > 0 /\ r.stream = r.currFile
               /\ r.size = 0 \/ r.pos + i <= r.size
    <3>1. i \in 1..Len(tr) \/ i = Len(tr) + 1
      BY <1>8
    <3> QED BY <1>1, <1>8, <1>11, <1>12, <1>22, <2>1, <3>1
  <2> QED BY <1>8, <2>2 DEF Continues
<1>14. ToReceiver(offer, r, tq)
  BY <1>10, <1>13 DEF ToReceiver
<1>15. \A i \in DOMAIN tq : tq[i].type = "06"
  <2>1. \A i \in 1..Len(tr) : tq[i].type = "06"
    BY <1>8, <1>10 DEF SameFile
  <2> QED BY <1>5, <1>8, <2>1
<1>16. s.size > 0 => r.pos + Len(tq) = g.pos
  <2> SUFFICES ASSUME s.size > 0 PROVE r.pos + Len(tq) = g.pos
    OBVIOUS
  <2>1. n = 1
    BY <1>21, <1>23
  <2>2. PICK a \in Nat : a = r.pos /\ a + m = s.pos
    BY <1>11
  <2>3. g.pos = (a + m) + 1
    BY <1>24, <2>1, <2>2
  <2>4. (a + m) + 1 = a + (m + 1)
    BY <1>22, <2>2
  <2>5. Len(tq) = m + 1 /\ r.pos = a
    BY <1>22, <2>2
  <2>6. r.pos + Len(tq) = a + (m + 1)
    BY <2>5, Zenon
  <2> QED BY <2>3, <2>4, <2>6, Zenon
<1>17. SameFile(g, r, ts, tq)
  <2>1. g.continue /\ ~g.more => r.stream = r.currFile /\ g.pos = g.size
    BY <1>1, <1>21, <1>4, <1>11
  <2>2. r.wanting => ~g.continue
    BY <1>4, <1>10 DEF SameFile
  <2>3. g.continue
    BY <1>4
  <2>4. /\ r.currFile > 0
        /\ \A i \in DOMAIN ts :
             /\ ts[i].type = "04" => ts[i].file <= r.currFile
             /\ ts[i].file = r.currFile => ~r.wanting
             /\ ts[i].type = "03" => ~r.wanting
             /\ ts[i].type = "03" /\ ts[i].file = r.currFile => r.stream = r.currFile
             /\ ts[i].type = "03" /\ ts[i].file # r.currFile => r.currFile \in r.skipped
             /\ ts[i].type = "04" /\ ts[i].file = r.currFile => r.currFile \in r.skipped
    BY <1>10 DEF SameFile
  <2>5. g.currFile = r.currFile /\ g.name = r.name /\ g.size = s.size
    BY <1>4, <1>11
  <2> QED BY <1>11, <1>15, <1>16, <2>1, <2>2, <2>3, <2>4, <2>5 DEF SameFile
<1>18. InStep(offer, g, r, ts, tq)
  BY <1>4, <1>10, <1>17 DEF InStep, Ready, SamePeer
<1>19. g.thrown => Finishing(offer, r, tq)
  <2>1. tq # <<>>
    BY <1>8
  <2>2. g.thrown => s.currFile = Number(offer) /\ (s.size > 0 => g.pos = s.size)
    <3>1. g.thrown => ~g.more /\ s.currFile = Number(offer)
      BY <1>1, <1>4
    <3>2. ~g.more /\ s.size > 0 => g.pos = s.size
      BY <1>21, <1>23, <1>24
    <3> QED BY <3>1, <3>2
  <2> QED BY <1>10, <1>11, <1>15, <1>16, <2>1, <2>2 DEF Finishing
<1>20. s.ev # "COMPLETE"
  BY DEF Ready, SenderOK, SenderGoes
<1> QED BY <1>2, <1>4, <1>7, <1>14, <1>18, <1>19, <1>20 DEF JointMid

LEMMA ChunkStuck ==
  ASSUME NEW s, NEW ts, Ready(offer, s, ts), s.continue, s.more, s.stream # NoFile,
         StuckMid(offer, s, ts)
  PROVE  StuckMid(offer, SendFile(s), ts)
<1>1. /\ s \in End /\ ~s.queued /\ s.pos <= s.size /\ s.total = Number(offer)
      /\ s.currFile < Number(offer) /\ Stuck(offer, s, ts) /\ s.currFile \in Nat /\ Number(offer) \in Nat
  BY DEF Ready, SenderOK, SenderGoes, AtFile, End, StuckMid, Stuck, OfferOK
<1>2. PICK g : g = SendFile(s)
  OBVIOUS
<1>3. /\ g.thrown <=> (~g.more /\ s.currFile = s.total)
      /\ g.ev = (IF g.thrown THEN "COMPLETE" ELSE s.ev) /\ g.currFile = s.currFile
  BY <1>1, <1>2, SendFileChunk DEF Ready
<1>4. ~g.thrown
  BY <1>1, <1>3
<1> QED BY <1>1, <1>2, <1>3, <1>4 DEF StuckMid, Stuck

\* The sender has named the next file, and has nothing more to send.
Named(g, s) ==
    /\ g \in End /\ ~g.thrown /\ g.out = Append(s.out, Name(g.name, g.size))
    /\ g.currFile = s.currFile + 1 /\ g.pos = 0 /\ g.totalPos = (s.totalPos + s.size) - s.pos
    /\ s.ev = "SEND" => /\ g.size = offer.sizes[s.currFile + 1] /\ g.name = s.currFile + 1
                        /\ g.stream \in {NoFile, g.name}
    /\ s.ev # "SEND" => g.size = s.size /\ g.name = s.name /\ g.stream = s.stream
    /\ ~g.continue /\ ~g.more /\ g.queued = s.queued /\ g.ev = s.ev
    /\ SamePeer(g, s)

LEMMA SizeNat == ASSUME NEW o, OfferOK(o), NEW f \in 1..Number(o) PROVE o.sizes[f] \in Nat
BY DEF OfferOK, Number

LEMMA NameSender ==
  ASSUME NEW s, NEW g, NEW ts, NEW rest, Ready(offer, s, ts), s.currFile < Number(offer), Named(g, s),
         \A j \in DOMAIN rest : rest[j].type = "04"
  PROVE  SenderMid(offer, g, rest)
<1>1. /\ s \in End /\ ~s.queued /\ s.total = Number(offer) /\ s.ev \in {"SEND", "TIMEOUT"}
      /\ s.currFile \in Nat /\ s.pos \in Nat /\ s.size \in Nat /\ s.totalPos \in Nat /\ s.name \in Nat
      /\ Number(offer) \in Nat /\ offer.garbage \in Nat
  BY DEF Ready, SenderOK, SenderGoes, AtFile, End, OfferOK
<1>2. /\ s.name \in {NoFile, s.currFile} /\ s.pos <= s.size
      /\ s.currFile = 0 => s.totalPos = 0
      /\ s.name = NoFile => s.size = offer.garbage /\ s.pos = 0
      /\ s.name # NoFile => /\ s.size = offer.sizes[s.currFile]
                            /\ s.totalPos = Sum(offer, s.currFile - 1) + s.pos + offer.garbage
      /\ s.currFile > 0 => (s.name = NoFile <=> s.ev = "TIMEOUT")
      /\ s.stream \in {NoFile, s.name}
  BY DEF Ready, SenderOK, SenderGoes, AtFile
<1>3. s.currFile + 1 \in 0..Number(offer) /\ s.currFile \in 0..Number(offer) /\ s.currFile + 1 # 0
      /\ (s.currFile + 1) - 1 = s.currFile
  BY <1>1
<1>4. s.ev = "SEND" => (s.totalPos + s.size) - s.pos = Sum(offer, s.currFile) + offer.garbage
  <2>1. CASE s.currFile = 0
    <3>1. s.name = NoFile /\ Sum(offer, 0) = 0
      BY <1>2, <2>1, SumStep DEF Ready, NoFile
    <3> QED BY <1>1, <1>2, <2>1, <3>1
  <2>2. CASE s.currFile # 0
    <3>1. s.currFile \in 1..Number(offer) /\ s.currFile - 1 \in 0..Number(offer)
      BY <1>1, <2>2
    <3>2. /\ Sum(offer, s.currFile) = Sum(offer, s.currFile - 1) + offer.sizes[s.currFile]
          /\ Sum(offer, s.currFile - 1) \in Nat /\ offer.sizes[s.currFile] \in Nat
      BY <3>1, SumStep, SumGrows, SizeNat DEF Ready
    <3> QED BY <1>1, <1>2, <2>2, <3>2
  <2> QED BY <2>1, <2>2
<1>5. AtFile(offer, g)
  <2>1. CASE s.ev = "SEND"
    <3>1. /\ g.currFile = s.currFile + 1 /\ g.name = s.currFile + 1 /\ g.pos = 0
          /\ g.size = offer.sizes[s.currFile + 1]
          /\ g.totalPos = Sum(offer, s.currFile) + offer.garbage
      BY <1>4, <2>1 DEF Named
    <3>2. g.size \in Nat /\ Sum(offer, s.currFile) \in Nat
      BY <1>3, SumGrows DEF Ready, Named, End
    <3> QED BY <1>1, <1>3, <3>1, <3>2 DEF AtFile, NoFile
  <2>2. CASE s.ev # "SEND"
    <3>1. s.name = NoFile
      BY <1>1, <1>2, <2>2 DEF NoFile
    <3>2. g.currFile = s.currFile + 1 /\ g.name = NoFile /\ g.pos = 0 /\ g.size = offer.garbage
      BY <1>2, <2>2, <3>1 DEF Named
    <3> QED BY <1>1, <1>3, <3>2 DEF AtFile
  <2> QED BY <2>1, <2>2
<1>6. SenderGoes(offer, g)
  <2>1. g.currFile > 0 => (g.name = NoFile <=> g.ev = "TIMEOUT")
    BY <1>1, <1>2 DEF Named, NoFile
  <2>2. g.stream \in {NoFile, g.name}
    BY <1>1, <1>2 DEF Named
  <2> QED BY <1>1, <2>1, <2>2 DEF SenderGoes, Named, Ready, SamePeer
<1>7. SenderOK(offer, g)
  <2>1. SenderOK(offer, s) /\ s.client = "connected" /\ s.state = "CONNECTED"
    BY DEF Ready
  <2> QED BY <1>1, <1>5, <1>6, <2>1 DEF SenderOK, Named, SamePeer
<1>8. ToSender(offer, g, rest)
  <2>1. Asked(offer, g, rest) /\ g.state = "CONNECTED" /\ g.currFile > 0
    BY <1>1 DEF Asked, Named, Ready, SamePeer
  <2> QED BY <2>1 DEF ToSender
<1>9. Reads(g) /\ g.client = "connected"
  BY DEF Reads, Named, Ready, SamePeer
<1> QED BY <1>7, <1>8, <1>9 DEF SenderMid

\* The receiver is at the file that is over, and has nothing to ask about it.
AtItsEnd(o, s, r, rest, tr) ==
    /\ r.state = "CONNECTED" /\ r.total # 0 /\ r.currFile = s.currFile /\ r.name = s.name /\ ~r.wanting
    /\ \A j \in DOMAIN rest : rest[j].type = "04" /\ rest[j].file <= r.currFile
    /\ FileOver(r, Len(tr)) /\ Continues(o, r, tr) /\ \A i \in DOMAIN tr : tr[i].type = "06"

LEMMA NameJoint ==
  ASSUME NEW s, NEW g, NEW r, NEW ts, NEW rest, Ready(offer, s, ts), s.currFile < Number(offer), Named(g, s),
         NEW t \in Seq(Packet), AtItsEnd(offer, s, r, rest, t \o s.out)
  PROVE  JointMid(offer, g, r, rest, t)
<1>0. PICK tr : tr = t \o s.out
  OBVIOUS
<1>20. /\ r.state = "CONNECTED" /\ r.total # 0 /\ r.currFile = s.currFile /\ r.name = s.name /\ ~r.wanting
       /\ \A j \in DOMAIN rest : rest[j].type = "04" /\ rest[j].file <= r.currFile
       /\ FileOver(r, Len(tr)) /\ Continues(offer, r, tr) /\ \A i \in DOMAIN tr : tr[i].type = "06"
  BY <1>0 DEF AtItsEnd
<1>1. /\ s.out \in Seq(Packet) /\ s.ev \in {"SEND", "TIMEOUT"} /\ s.currFile \in Nat
      /\ s.currFile > 0 => (s.name = NoFile <=> s.ev = "TIMEOUT")
      /\ s.name \in {NoFile, s.currFile}
      /\ s.name = NoFile => s.size = offer.garbage
  BY DEF Ready, SenderOK, SenderGoes, AtFile, End
<1>2. PICK p : p = Name(g.name, g.size)
  OBVIOUS
<1>3. p \in Packet
  BY <1>2 DEF Named, End, Packet, Name
<1>4. PICK tq : tq = t \o g.out
  OBVIOUS
<1>5. tr \in Seq(Packet)
  BY <1>0, <1>1, ConcatProperties
<1>6. tq = Append(tr, p)
  <2>1. t \o Append(s.out, p) = Append(t \o s.out, p)
    BY <1>1, <1>3, Behind
  <2> QED BY <1>0, <1>2, <1>4, <2>1 DEF Named
<1>7. PICK m \in Nat : m = Len(tr) /\ Len(tq) = m + 1
  BY <1>3, <1>5, <1>6, AppendProperties
<1>8. /\ tq[m + 1] = p /\ \A i \in 1..m : tq[i] = tr[i]
      /\ DOMAIN tq = 1 .. m + 1 /\ DOMAIN tr = 1..m
  BY <1>3, <1>5, <1>6, <1>7, AppendProperties
<1>9. NextName(offer, r, p)
  <2>1. CASE s.ev = "SEND"
    <3>1. p = Name(s.currFile + 1, offer.sizes[s.currFile + 1])
      BY <1>2, <2>1 DEF Named
    <3>2. s.currFile = 0 \/ s.name # NoFile
      BY <1>1, <2>1
    <3> QED BY <1>20, <3>1, <3>2 DEF NextName
  <2>2. CASE s.ev # "SEND"
    <3>1. s.name = NoFile
      BY <1>1, <2>2 DEF NoFile
    <3>2. p = Name(NoFile, offer.garbage)
      BY <1>1, <1>2, <2>2, <3>1 DEF Named
    <3> QED BY <1>20, <3>1, <3>2 DEF NextName
  <2> QED BY <2>1, <2>2
<1>10. Continues(offer, r, tq)
  <2>1. ASSUME NEW i \in 1..m
        PROVE  /\ tq[i] = Data(r, i) /\ r.currFile > 0 /\ r.stream = r.currFile
               /\ r.size = 0 \/ r.pos + i <= r.size
    <3>1. tr[i].type # "02"
      BY <1>8, <1>20
    <3>2. ~NextName(offer, r, tr[i])
      BY <3>1, NotNamed
    <3> QED BY <1>8, <1>20, <3>2 DEF Continues
  <2>2. ASSUME NEW i \in 1..(m + 1)
        PROVE  \/ /\ tq[i] = Data(r, i) /\ r.currFile > 0 /\ r.stream = r.currFile
                  /\ r.size = 0 \/ r.pos + i <= r.size
               \/ i = Len(tq) /\ r.currFile < Number(offer) /\ NextName(offer, r, tq[i]) /\ FileOver(r, i - 1)
    <3>1. CASE i = m + 1
      <4>1. i - 1 = m /\ i = Len(tq) /\ tq[i] = p
        BY <1>7, <1>8, <3>1
      <4> QED BY <1>7, <1>9, <1>20, <4>1
    <3>2. CASE i # m + 1
      <4>1. i \in 1..m
        BY <1>7, <3>2
      <4> QED BY <2>1, <4>1
    <3> QED BY <3>1, <3>2
  <2> QED BY <1>8, <2>2 DEF Continues
<1>11. ToReceiver(offer, r, tq)
  BY <1>10, <1>20 DEF ToReceiver
<1>12. Ahead(g, r, rest, tq)
  <2>1. tq # <<>> /\ tq[Len(tq)] = p
    BY <1>3, <1>5, <1>7, <1>8, <1>6
  <2> QED BY <1>2, <1>20, <2>1 DEF Ahead, Named
<1>13. InStep(offer, g, r, rest, tq)
  BY <1>12, <1>20 DEF InStep, Named, Ready, SamePeer
<1>14. g.ev # "COMPLETE"
  BY <1>1 DEF Named
<1> QED BY <1>4, <1>11, <1>13, <1>14 DEF JointMid

LEMMA NextNamed ==
  ASSUME NEW s, NEW ts, Ready(offer, s, ts), s.continue, ~s.more
  PROVE  s.currFile < Number(offer) /\ Named(SendFile(s), s)
<1>1. /\ s \in End /\ ~s.queued /\ s.pos <= s.size /\ s.total = Number(offer) /\ ~s.thrown
      /\ s.currFile < Number(offer) /\ s.currFile \in Nat
  BY DEF Ready, SenderOK, SenderGoes, AtFile, End
<1>2. s.currFile + 1 \in 1..Number(offer)
  BY <1>1 DEF Ready, OfferOK
<1>3. offer.sizes[s.currFile + 1] \in Nat
  BY <1>2, SizeNat DEF Ready
<1> QED BY <1>1, <1>3, SendFileNext DEF Named

LEMMA NextSender ==
  ASSUME NEW s, NEW ts, Ready(offer, s, ts), s.continue, ~s.more
  PROVE  SenderMid(offer, SendFile(s), ts)
<1>1. s.currFile < Number(offer) /\ Named(SendFile(s), s)
  BY NextNamed
<1>2. \A j \in DOMAIN ts : ts[j].type = "04"
  BY DEF Ready, ToSender, Asked, SenderOK, SenderGoes
<1> QED BY <1>1, <1>2, NameSender

LEMMA NextJoint ==
  ASSUME NEW s, NEW r, NEW ts, Ready(offer, s, ts), s.continue, ~s.more,
         NEW t \in Seq(Packet), ReceiverOK(offer, r), r.client # "none", JointMid(offer, s, r, ts, t)
  PROVE  JointMid(offer, SendFile(s), r, ts, t)
<1>1. s.currFile < Number(offer) /\ Named(SendFile(s), s)
  BY NextNamed
<1>2. \A j \in DOMAIN ts : ts[j].type = "04"
  BY DEF Ready, ToSender, Asked, SenderOK, SenderGoes
<1>3. PICK tr : tr = t \o s.out
  OBVIOUS
<1>4. s.currFile > 0 /\ s.out \in Seq(Packet) /\ s.size \in Nat /\ s.pos \in Nat
  BY DEF Ready, SenderOK, SenderGoes, End
<1>5. InStep(offer, s, r, ts, tr) /\ ToReceiver(offer, r, tr)
  BY <1>3 DEF JointMid, Ready
<1>6. SameFile(s, r, ts, tr) /\ r.state = "CONNECTED" /\ r.total # 0 /\ Continues(offer, r, tr)
  BY <1>4, <1>5 DEF InStep, Greeting, Ahead, Ready, ToReceiver
<1>7. FileOver(r, Len(tr))
  <2>1. CASE r.currFile \in r.skipped
    BY <2>1 DEF FileOver
  <2>2. CASE r.currFile \notin r.skipped
    <3>1. r.stream = r.currFile /\ s.pos = s.size /\ r.currFile = s.currFile /\ r.name = s.name /\ r.currFile > 0
          /\ (s.size > 0 => r.pos + Len(tr) = s.pos)
      BY <1>6, <2>2 DEF SameFile
    <3>2. r.name = r.currFile /\ r.name # NoFile
      BY <3>1 DEF ReceiverOK, StreamOK, NoFile
    <3>3. r.size = offer.sizes[r.currFile] /\ s.size = offer.sizes[r.currFile]
      BY <3>1, <3>2 DEF ReceiverOK, AtFileReceived, Ready, SenderOK, AtFile
    <3> QED BY <1>4, <3>1, <3>3 DEF FileOver
  <2> QED BY <2>1, <2>2
<1>8. /\ r.currFile = s.currFile /\ r.name = s.name /\ ~r.wanting
      /\ \A i \in DOMAIN tr : tr[i].type = "06"
      /\ \A j \in DOMAIN ts : ts[j].type = "04" /\ ts[j].file <= r.currFile
  BY <1>2, <1>6 DEF SameFile
<1>9. PICK g : g = SendFile(s)
  OBVIOUS
<1>10. Named(g, s) /\ s.currFile < Number(offer)
  BY <1>1, <1>9
<1>11. AtItsEnd(offer, s, r, ts, t \o s.out)
  <2>1. AtItsEnd(offer, s, r, ts, tr)
    BY <1>6, <1>7, <1>8 DEF AtItsEnd
  <2> QED BY <1>3, <2>1
<1>12. JointMid(offer, g, r, ts, t)
  BY <1>10, <1>11, NameJoint
<1> QED BY <1>9, <1>12

LEMMA NextStuck ==
  ASSUME NEW s, NEW ts, Ready(offer, s, ts), s.continue, ~s.more, StuckMid(offer, s, ts)
  PROVE  StuckMid(offer, SendFile(s), ts)
<1>1. Named(SendFile(s), s)
  BY NextNamed
<1> QED BY <1>1 DEF Named, StuckMid, Stuck, Ready

-----------------------------------------------------------------------------
(* What SendFile keeps, whatever it does.                                  *)

\* An end that differs in nothing that counts for the sender
SameSender(g, s) ==
    /\ g \in End /\ g.ev = s.ev /\ g.thrown = s.thrown /\ g.out = s.out
    /\ SamePlace(g, s) /\ SameFlags(g, s) /\ SamePeer(g, s)

LEMMA SameSenderKeeps ==
  ASSUME NEW o, NEW s, NEW g, NEW ts, SenderMid(o, s, ts), SameSender(g, s)
  PROVE  /\ SenderMid(o, g, ts)
         /\ \A r, t : JointMid(o, s, r, ts, t) => JointMid(o, g, r, ts, t)
         /\ StuckMid(o, s, ts) => StuckMid(o, g, ts)
<1>1. SenderOK(o, g)
  <2>1. SenderOK(o, s) /\ s.client = "connected"
    BY DEF SenderMid
  <2>2. AtFile(o, g)
    BY <2>1 DEF SenderOK, SameSender, SamePlace, AtFile
  <2>3. ~g.thrown => SenderGoes(o, g)
    BY <2>1 DEF SenderOK, SenderGoes, SameSender, SamePlace, SameFlags, SamePeer
  <2> QED BY <2>1, <2>2, <2>3 DEF SenderOK, SameSender, SamePlace, SamePeer
<1>2. SenderMid(o, g, ts)
  <2>1. ~g.thrown => Reads(g)
    BY DEF SenderMid, Reads, SameSender, SamePlace, SameFlags
  <2>2. ~g.thrown => ToSender(o, g, ts)
    BY DEF SenderMid, ToSender, Asked, SameSender, SamePlace, SamePeer, SameFlags
  <2>3. g.client = "connected"
    BY DEF SenderMid, SameSender, SamePeer
  <2> QED BY <1>1, <2>1, <2>2, <2>3 DEF SenderMid
<1>3. ASSUME NEW r, NEW t, JointMid(o, s, r, ts, t) PROVE JointMid(o, g, r, ts, t)
  <2>1. PICK tr : tr = t \o s.out /\ tr = t \o g.out
    BY DEF SameSender
  <2>2. ~g.thrown => InStep(o, s, r, ts, tr)
    BY <1>3, <2>1 DEF JointMid, SameSender
  <2>3. ~g.thrown => InStep(o, g, r, ts, tr)
    <3>1. Greeting(o, s, r, ts, tr) => Greeting(o, g, r, ts, tr)
      BY DEF Greeting, SameSender, SamePlace, SamePeer
    <3>2. SameFile(s, r, ts, tr) => SameFile(g, r, ts, tr)
      BY DEF SameFile, SameSender, SamePlace, SameFlags
    <3>3. Ahead(s, r, ts, tr) => Ahead(g, r, ts, tr)
      BY DEF Ahead, SameSender, SamePlace, SameFlags
    <3> QED BY <2>2, <3>1, <3>2, <3>3 DEF InStep, SameSender, SamePeer
  <2> QED BY <1>3, <2>1, <2>3 DEF JointMid, SameSender
<1>4. StuckMid(o, s, ts) => StuckMid(o, g, ts)
  BY DEF StuckMid, Stuck, SameSender, SamePlace, SameFlags
<1> QED BY <1>2, <1>3, <1>4

LEMMA SendFileSender ==
  ASSUME NEW s, NEW ts, Ready(offer, s, ts)
  PROVE  SenderMid(offer, SendFile(s), ts)
<1>1. s \in End /\ ~s.queued /\ ~s.thrown /\ (~s.continue => ~s.more)
  BY DEF Ready, SenderOK, SenderGoes
<1>2. CASE ~s.continue
  <2>1. SenderMid(offer, s, ts)
    BY <1>1, <1>2 DEF SenderMid, Ready, Reads
  <2>2. SameSender(SendFile(s), s)
    BY <1>1, <1>2, SendFileIdle DEF SameSender
  <2> QED BY <2>1, <2>2, SameSenderKeeps
<1>3. CASE s.continue /\ s.more /\ s.stream = NoFile
  <2>1. PICK g : g = SendFile(s)
    OBVIOUS
  <2>2. /\ g \in End /\ g.out = s.out /\ g.thrown /\ g.ev = "ERROR" /\ g.shown = s.shown
        /\ SamePlace(g, s) /\ SamePeer(g, s)
    BY <1>1, <1>3, <2>1, SendFileError
  <2>3. SenderOK(offer, g)
    <3>1. AtFile(offer, g)
      BY <2>2 DEF Ready, SenderOK, AtFile, SamePlace
    <3> QED BY <2>2, <3>1 DEF Ready, SenderOK, SamePlace, SamePeer
  <2> QED BY <2>1, <2>2, <2>3 DEF SenderMid, Ready, SamePeer
<1> QED BY <1>2, <1>3, ChunkSender, NextSender

LEMMA SendFileJoint ==
  ASSUME NEW s, NEW r, NEW ts, Ready(offer, s, ts),
         NEW t \in Seq(Packet), ReceiverOK(offer, r), r.client # "none", JointMid(offer, s, r, ts, t)
  PROVE  JointMid(offer, SendFile(s), r, ts, t)
<1>1. s \in End /\ ~s.queued /\ ~s.thrown /\ (~s.continue => ~s.more)
  BY DEF Ready, SenderOK, SenderGoes
<1>2. CASE ~s.continue
  <2>1. SenderMid(offer, s, ts)
    BY <1>1, <1>2 DEF SenderMid, Ready, Reads
  <2>2. SameSender(SendFile(s), s)
    BY <1>1, <1>2, SendFileIdle DEF SameSender
  <2> QED BY <2>1, <2>2, SameSenderKeeps
<1>3. CASE s.continue /\ s.more /\ s.stream = NoFile
  <2>1. PICK g : g = SendFile(s)
    OBVIOUS
  <2>2. g.out = s.out /\ g.thrown /\ g.ev = "ERROR"
    BY <1>1, <1>3, <2>1, SendFileError
  <2> QED BY <2>1, <2>2 DEF JointMid
<1> QED BY <1>2, <1>3, ChunkJoint, NextJoint

LEMMA SendFileStuck ==
  ASSUME NEW s, NEW ts, Ready(offer, s, ts), StuckMid(offer, s, ts)
  PROVE  StuckMid(offer, SendFile(s), ts)
<1>1. s \in End /\ ~s.queued /\ ~s.thrown /\ (~s.continue => ~s.more)
  BY DEF Ready, SenderOK, SenderGoes
<1>2. CASE ~s.continue
  <2>1. SenderMid(offer, s, ts)
    BY <1>1, <1>2 DEF SenderMid, Ready, Reads
  <2>2. SameSender(SendFile(s), s)
    BY <1>1, <1>2, SendFileIdle DEF SameSender
  <2> QED BY <2>1, <2>2, SameSenderKeeps
<1>3. CASE s.continue /\ s.more /\ s.stream = NoFile
  BY <1>1, <1>3, SendFileError DEF StuckMid
<1> QED BY <1>2, <1>3, ChunkStuck, NextStuck

-----------------------------------------------------------------------------
(* What the sender reads.                                                  *)

LEMMA PacketIs ==
  ASSUME NEW p \in Packet
  PROVE  /\ p.type = "02" => p.name \in Nat /\ p.size \in Nat
         /\ p.type = "03" => p.pos = 0 /\ p.file \in Nat
         /\ p.type = "04" => p.file \in Nat
         /\ p.type = "06" => p.data \in Seq(Chunk)
BY DEF Packet

LEMMA FirstIs ==
  ASSUME NEW ts \in Seq(Packet), ts # <<>>
  PROVE  /\ Head(ts) \in Packet /\ Tail(ts) \in Seq(Packet) /\ Head(ts) = ts[1] /\ 1 \in DOMAIN ts
         /\ \A j \in DOMAIN Tail(ts) : j + 1 \in DOMAIN ts /\ Tail(ts)[j] = ts[j + 1] /\ j \in Nat \ {0}
         /\ Len(Tail(ts)) = Len(ts) - 1
OBVIOUS

LEMMA One ==
  ASSUME NEW a
  PROVE  \A j \in DOMAIN <<a>> : j = 1 /\ <<a>>[j] = a
OBVIOUS

LEMMA OneTwo ==
  ASSUME NEW a, NEW b
  PROVE  /\ Head(<<a>>) = a /\ Tail(<<a>>) = <<>> /\ <<a>>[1] = a /\ DOMAIN <<a>> = {1} /\ <<a>> # <<>>
         /\ Head(<<a, b>>) = a /\ Tail(<<a, b>>) = <<b>> /\ <<a, b>>[1] = a /\ <<a, b>>[2] = b
         /\ DOMAIN <<a, b>> = {1, 2} /\ <<a, b>> # <<>> /\ <<a, b>> # <<a>>
         /\ Len(<<a>>) = 1 /\ Len(<<a, b>>) = 2
         /\ \A j \in DOMAIN <<>> : FALSE
<1>1. Tail(<<a>>) = <<>> /\ Head(<<a>>) = a
  OBVIOUS
<1>2. Tail(<<a, b>>) = <<b>> /\ Head(<<a, b>>) = a
  OBVIOUS
<1>3. <<a>>[1] = a /\ DOMAIN <<a>> = {1} /\ Len(<<a>>) = 1 /\ <<a>> # <<>>
  OBVIOUS
<1>4. <<a, b>>[1] = a /\ <<a, b>>[2] = b /\ DOMAIN <<a, b>> = {1, 2} /\ Len(<<a, b>>) = 2
      /\ <<a, b>> # <<>> /\ <<a, b>> # <<a>>
  OBVIOUS
<1>5. \A j \in DOMAIN <<>> : FALSE
  OBVIOUS
<1> QED BY <1>1, <1>2, <1>3, <1>4, <1>5

LEMMA TwoAppended ==
  ASSUME NEW a, NEW b
  PROVE  Append(Append(<<>>, a), b) = <<a, b>>
<1>1. Append(<<>>, a) = <<a>>
  OBVIOUS
<1> DEFINE S == {a, b}
           x == Append(<<a>>, b)
           y == <<a, b>>
<1>2. <<a>> \in Seq(S) /\ y \in Seq(S) /\ b \in S
  OBVIOUS
<1>3. Len(x) = 2 /\ x \in Seq(S)
  BY <1>2, AppendProperties
<1>4. x[1] = a /\ x[2] = b
  OBVIOUS
<1>5. y[1] = a /\ y[2] = b /\ Len(y) = 2
  OBVIOUS
<1> HIDE DEF S, x, y
<1>6. x = y
  <2>1. \A i \in 1..Len(x) : x[i] = y[i]
    BY <1>3, <1>4, <1>5
  <2> QED BY <1>2, <1>3, <1>5, <2>1, SeqEqual
<1> QED BY <1>1, <1>6 DEF x, y

\* A packet without effect is left out.
LEMMA Ignored ==
  ASSUME NEW o, NEW s, NEW ts \in Seq(Packet), ts # <<>>, SenderMid(o, s, ts), ~s.thrown,
         \/ ts[1].type = "05"
         \/ s.currFile > 0 /\ ts[1].type = "04" /\ ts[1].file # s.currFile
  PROVE  /\ SenderMid(o, s, Tail(ts))
         /\ \A r, t : JointMid(o, s, r, ts, t) => JointMid(o, s, r, Tail(ts), t)
         /\ StuckMid(o, s, ts) => StuckMid(o, s, Tail(ts))
<1>1. PICK rest : rest = Tail(ts)
  OBVIOUS
<1>2. /\ \A j \in DOMAIN rest : j + 1 \in DOMAIN ts /\ rest[j] = ts[j + 1] /\ j \in Nat \ {0}
      /\ 1 \in DOMAIN ts
  BY <1>1, FirstIs
<1>3. ToSender(o, s, ts) /\ s \in End
  BY DEF SenderMid, SenderOK
<1>4. CASE s.currFile > 0 /\ ts[1].type = "04"
  <2>1. s.state = "CONNECTED" /\ s.currFile # 0
    BY <1>4 DEF SenderMid, SenderOK, End
  <2>2. Asked(o, s, ts)
    BY <1>3, <1>4, <2>1 DEF ToSender
  <2>3. Asked(o, s, rest)
    <3>1. ASSUME NEW j \in DOMAIN rest
          PROVE  /\ rest[j].type \in {"03", "04"}
                 /\ rest[j].type = "03" =>
                       /\ ~s.continue
                       /\ rest[j].file = s.currFile \/ (rest[j].file = Number(o) + 1 /\ s.currFile < Number(o))
      BY <1>2, <2>2 DEF Asked
    <3>2. ASSUME NEW j \in DOMAIN rest, rest[j].type = "03", NEW i \in 1 .. j - 1
          PROVE  rest[i].type = "04" /\ rest[i].file < s.currFile
      <4>1. j + 1 \in DOMAIN ts /\ ts[j + 1].type = "03" /\ i + 1 \in 1 .. (j + 1) - 1 /\ i + 1 \in DOMAIN ts
            /\ i \in DOMAIN rest
        <5>1. DOMAIN rest = 1 .. Len(rest) /\ Len(rest) \in Nat
          BY <1>1, FirstIs
        <5>2. i \in DOMAIN rest
          BY <3>2, <5>1
        <5> QED BY <1>2, <3>2, <5>1, <5>2
      <4>2. ts[i + 1].type = "04" /\ ts[i + 1].file < s.currFile
        BY <2>2, <4>1 DEF Asked
      <4> QED BY <1>2, <4>1, <4>2
    <3> QED BY <3>1, <3>2 DEF Asked
  <2>4. SenderMid(o, s, rest)
    BY <2>1, <2>3 DEF SenderMid, ToSender
  <2>5. ASSUME NEW r, NEW t, JointMid(o, s, r, ts, t) PROVE JointMid(o, s, r, rest, t)
    <3>1. PICK tr : tr = t \o s.out
      OBVIOUS
    <3>2. InStep(o, s, r, ts, tr)
      BY <2>5, <3>1 DEF JointMid
    <3>3. r.state = "CONNECTED" /\ r.total # 0 /\ (SameFile(s, r, ts, tr) \/ Ahead(s, r, ts, tr))
      BY <1>4, <3>2, <2>1 DEF InStep, Greeting, SenderMid, SenderOK
    <3>4. SameFile(s, r, ts, tr) => SameFile(s, r, rest, tr)
      BY <1>2 DEF SameFile
    <3>5. Ahead(s, r, ts, tr) => Ahead(s, r, rest, tr)
      BY <1>2 DEF Ahead
    <3>6. InStep(o, s, r, rest, tr)
      BY <2>1, <3>3, <3>4, <3>5 DEF InStep
    <3> QED BY <2>5, <3>1, <3>6 DEF JointMid
  <2>6. StuckMid(o, s, ts) => StuckMid(o, s, rest)
    BY <1>2 DEF StuckMid, Stuck
  <2> QED BY <1>1, <2>4, <2>5, <2>6
<1>5. CASE ts[1].type = "05"
  <2>1. ts \in {<<Simple("05")>>, <<Simple("05"), Simple("01")>>} /\ s.currFile = 0 /\ s.state = "CONNECTED"
    <3>1. s.state # "WAITING_FOR_INIT_ACK" /\ s.state # "WAITING_FOR_INIT"
      BY <1>3, <1>5, OneTwo DEF ToSender, Simple
    <3>2. s.state = "CONNECTED"
      BY <3>1 DEF SenderMid, SenderOK, SenderGoes, End
    <3>3. s.currFile = 0
      BY <1>2, <1>3, <1>5, <3>2 DEF ToSender, Asked, End
    <3>4. ts # <<Simple("01")>> /\ ts # <<Simple("01"), Simple("05")>>
      BY <1>5, OneTwo DEF Simple
    <3> QED BY <1>3, <3>2, <3>3, <3>4 DEF ToSender
  <2>2. rest \in {<<>>, <<Simple("01")>>} /\ (ts = <<Simple("05"), Simple("01")>> => rest = <<Simple("01")>>)
    <3>1. CASE ts = <<Simple("05")>>
      BY <1>1, <3>1, OneTwo
    <3>2. CASE ts = <<Simple("05"), Simple("01")>>
      BY <1>1, <3>2, OneTwo
    <3> QED BY <2>1, <3>1, <3>2
  <2>3. SenderMid(o, s, rest)
    BY <2>1, <2>2 DEF SenderMid, ToSender
  <2>4. ASSUME NEW r, NEW t, JointMid(o, s, r, ts, t) PROVE JointMid(o, s, r, rest, t)
    <3>1. PICK tr : tr = t \o s.out
      OBVIOUS
    <3>2. InStep(o, s, r, ts, tr)
      BY <2>4, <3>1 DEF JointMid
    <3>3. r.state = "CONNECTED" /\ r.total # 0 /\ r.currFile = 0 /\ tr = <<>> /\ ts = <<Simple("05"), Simple("01")>>
      <4>1. ts # <<>> /\ ts # <<Simple("INIT")>> /\ ts # <<Simple("ACK"), Simple("INIT")>> /\ ts # <<Simple("01")>>
        BY <2>1, <1>5 DEF Simple
      <4>2. ~SameFile(s, r, ts, tr)
        BY <2>1 DEF SameFile
      <4>3. ~Ahead(s, r, ts, tr)
        BY <1>2, <1>5 DEF Ahead
      <4> QED BY <3>2, <4>1, <4>2, <4>3 DEF InStep, Greeting
    <3>4. InStep(o, s, r, rest, tr)
      BY <2>1, <2>2, <3>3 DEF InStep, Greeting
    <3> QED BY <2>4, <3>1, <3>4 DEF JointMid
  <2>5. StuckMid(o, s, ts) => StuckMid(o, s, rest)
    BY <1>2 DEF StuckMid, Stuck
  <2> QED BY <1>1, <2>3, <2>4, <2>5
<1> QED BY <1>4, <1>5

\* The first acknowledgement
LEMMA AckRead ==
  ASSUME OfferOK(offer), NEW s, NEW ts \in Seq(Packet), ts # <<>>, SenderMid(offer, s, ts), ~s.thrown,
         s.state = "WAITING_FOR_INIT_ACK"
  PROVE  LET g == Parse(s, Head(ts)) IN
         /\ SenderMid(offer, g, Tail(ts))
         /\ \A r, t : JointMid(offer, s, r, ts, t) => JointMid(offer, g, r, Tail(ts), t)
         /\ StuckMid(offer, s, ts) => StuckMid(offer, g, Tail(ts))
<1>1. /\ s \in End /\ ~s.incoming /\ s.client = "connected" /\ SenderOK(offer, s) /\ SenderGoes(offer, s)
      /\ s.currFile = 0 /\ ToSender(offer, s, ts) /\ ~s.continue
  BY DEF SenderMid, SenderOK, SenderGoes
<1>2. ts \in {<<Simple("ACK")>>, <<Simple("ACK"), Simple("INIT")>>}
  BY <1>1 DEF ToSender
<1>3. Head(ts) = Simple("ACK") /\ Tail(ts) \in {<<>>, <<Simple("INIT")>>}
      /\ (ts = <<Simple("ACK"), Simple("INIT")>> => Tail(ts) = <<Simple("INIT")>>)
  <2>1. CASE ts = <<Simple("ACK")>>
    BY <2>1, OneTwo
  <2>2. CASE ts = <<Simple("ACK"), Simple("INIT")>>
    BY <2>2, OneTwo
  <2> QED BY <1>2, <2>1, <2>2
<1>4. PICK g : g = Parse(s, Head(ts))
  OBVIOUS
<1>5. g = [s EXCEPT !.state = "WAITING_FOR_INIT"]
  BY <1>1, <1>3, <1>4 DEF Parse, Handshake, Simple
<1>6. /\ g \in End /\ g.state = "WAITING_FOR_INIT" /\ g.client = s.client /\ g.incoming = s.incoming
      /\ g.total = s.total /\ g.totalSize = s.totalSize
      /\ g.ev = s.ev /\ g.shown = s.shown /\ g.thrown = s.thrown /\ g.out = s.out
      /\ SamePlace(g, s) /\ SameFlags(g, s)
  <2>1. g \in End
    BY <1>1, <1>5 DEF End
  <2> QED BY <1>1, <1>5, <2>1 DEF End, SamePlace, SameFlags
<1>7. SenderMid(offer, g, Tail(ts))
  <2>1. AtFile(offer, g)
    BY <1>1, <1>6 DEF SenderOK, AtFile, SamePlace
  <2>2. SenderGoes(offer, g)
    BY <1>1, <1>6 DEF SenderGoes, SamePlace, SameFlags
  <2>3. SenderOK(offer, g)
    BY <1>1, <1>6, <2>1, <2>2 DEF SenderOK, SamePlace
  <2>4. Reads(g) /\ ToSender(offer, g, Tail(ts))
    BY <1>1, <1>3, <1>6 DEF SenderGoes, Reads, ToSender, SameFlags
  <2> QED BY <1>1, <1>6, <2>3, <2>4 DEF SenderMid
<1>8. ASSUME NEW r, NEW t, JointMid(offer, s, r, ts, t) PROVE JointMid(offer, g, r, Tail(ts), t)
  <2>1. PICK tr : tr = t \o s.out
    OBVIOUS
  <2>2. InStep(offer, s, r, ts, tr)
    BY <1>8, <2>1 DEF JointMid
  <2>3. ts = <<Simple("ACK"), Simple("INIT")>> /\ tr = <<>> /\ r.state = "WAITING_FOR_INIT_ACK"
    BY <2>2 DEF InStep, Greeting
  <2>4. InStep(offer, g, r, Tail(ts), tr)
    BY <1>3, <1>6, <2>3 DEF InStep, Greeting
  <2> QED BY <1>1, <1>6, <1>8, <2>1, <2>4 DEF JointMid
<1>9. StuckMid(offer, s, ts) => StuckMid(offer, g, Tail(ts))
  <2>1. \A j \in DOMAIN Tail(ts) : Tail(ts)[j].type = "INIT"
    <3>1. CASE Tail(ts) = <<>>
      BY <3>1, OneTwo
    <3>2. CASE Tail(ts) = <<Simple("INIT")>>
      <4>1. \A j \in DOMAIN Tail(ts) : Tail(ts)[j] = Simple("INIT")
        BY <3>2, One, Zenon
      <4> QED BY <4>1 DEF Simple
    <3> QED BY <1>3, <3>1, <3>2
  <2> QED BY <1>1, <1>6, <2>1 DEF StuckMid, Stuck, SamePlace, SameFlags
<1> QED BY <1>4, <1>7, <1>8, <1>9

\* The receiver's greeting: the sender is connected, and sends its own.
LEMMA InitRead ==
  ASSUME OfferOK(offer), NEW s, NEW ts \in Seq(Packet), ts # <<>>, SenderMid(offer, s, ts), ~s.thrown,
         s.state = "WAITING_FOR_INIT"
  PROVE  LET g == Parse(s, Head(ts)) IN
         /\ SenderMid(offer, g, Tail(ts))
         /\ \A r : \A t \in Seq(Packet) :
               JointMid(offer, s, r, ts, t) => JointMid(offer, g, r, Tail(ts), t)
         /\ StuckMid(offer, s, ts) => StuckMid(offer, g, Tail(ts))
<1>1. /\ s \in End /\ ~s.incoming /\ s.client = "connected" /\ SenderOK(offer, s) /\ SenderGoes(offer, s)
      /\ s.currFile = 0 /\ ToSender(offer, s, ts) /\ ~s.continue /\ s.queued
      /\ s.total = Number(offer) /\ s.totalSize = Total(offer)
  BY DEF SenderMid, SenderOK, SenderGoes
<1>2. ts = <<Simple("INIT")>>
  BY <1>1 DEF ToSender
<1>3. Head(ts) = Simple("INIT") /\ Tail(ts) = <<>>
  BY <1>2, OneTwo
<1>4. PICK a : a = SendInitAck(s)
  OBVIOUS
<1>5. /\ a \in End /\ a.out = Append(s.out, Simple("ACK")) /\ a.thrown = s.thrown
      /\ SamePlace(a, s) /\ SameFlags(a, s) /\ SamePeer(a, s) /\ SameEvent(a, s)
  <2>1. Simple("ACK") \in Packet
    BY DEF Simple, Packet
  <2> QED BY <1>1, <1>4, <2>1, SendIs DEF SendInitAck
<1>6. PICK b : b = [a EXCEPT !.state = "CONNECTED"]
  OBVIOUS
<1>7. /\ b \in End /\ b.state = "CONNECTED" /\ b.client = a.client /\ b.incoming = a.incoming
      /\ b.total = a.total /\ b.totalSize = a.totalSize
      /\ b.thrown = a.thrown /\ b.out = a.out /\ SamePlace(b, a) /\ SameFlags(b, a) /\ SameEvent(b, a)
  <2>1. b \in End
    BY <1>5, <1>6 DEF End
  <2> QED BY <1>5, <1>6, <2>1 DEF End, SamePlace, SameFlags, SameEvent
<1>8. PICK c : c = [b EXCEPT !.queued = FALSE]
  OBVIOUS
<1>9. /\ c \in End /\ c.queued = FALSE /\ c.more = b.more /\ c.continue = b.continue /\ c.wanting = b.wanting
      /\ c.thrown = b.thrown /\ c.out = b.out /\ SamePlace(c, b) /\ SamePeer(c, b) /\ SameEvent(c, b)
  <2>1. c \in End
    BY <1>7, <1>8 DEF End
  <2> QED BY <1>7, <1>8, <2>1 DEF End, SamePlace, SamePeer, SameEvent
<1>10. Hello(offer) \in Packet
  <2>1. Number(offer) \in Nat /\ Total(offer) \in Nat
    BY <1>1 DEF OfferOK, End
  <2> QED BY <2>1 DEF Hello, Packet
<1>11. PICK d : d = Send(c, Hello(offer))
  OBVIOUS
<1>12. /\ d \in End /\ d.out = Append(c.out, Hello(offer)) /\ d.thrown = c.thrown
       /\ SamePlace(d, c) /\ SameFlags(d, c) /\ SamePeer(d, c) /\ SameEvent(d, c)
  BY <1>9, <1>10, <1>11, SendIs
<1>13. PICK g : g = Parse(s, Head(ts))
  OBVIOUS
<1>14. g = FlushQueue(b)
  BY <1>1, <1>3, <1>4, <1>6, <1>13 DEF Parse, Handshake, Simple
<1>15. g = Update(d)
  <2>1. b.queued /\ b.total = Number(offer) /\ b.totalSize = Total(offer)
    BY <1>1, <1>5, <1>7 DEF SameFlags, SamePeer
  <2>2. g = SendFile(b)
    BY <1>14, <2>1 DEF FlushQueue
  <2>3. d = Send([b EXCEPT !.queued = FALSE], [type |-> "00", total |-> b.total, totalSize |-> b.totalSize])
    BY <1>8, <1>11, <2>1 DEF Hello
  <2>4. ~d.thrown
    BY <1>5, <1>7, <1>9, <1>12
  <2> QED BY <1>7, <2>1, <2>2, <2>3, <2>4 DEF SendFile
<1>16. /\ g \in End /\ g.out = d.out /\ g.thrown = d.thrown /\ g.ev = d.ev /\ g.shown = d.ev
       /\ SamePlace(g, d) /\ SameFlags(g, d) /\ SamePeer(g, d)
  BY <1>12, <1>15, UpdateIs
<1>17. /\ g.out = Append(Append(s.out, Simple("ACK")), Hello(offer)) /\ ~g.thrown /\ g.ev = s.ev
       /\ g.state = "CONNECTED" /\ g.client = "connected" /\ ~g.incoming
       /\ g.total = Number(offer) /\ g.totalSize = Total(offer)
       /\ SamePlace(g, s) /\ g.more = s.more /\ g.continue = s.continue /\ ~g.queued
  <2>1. g.out = Append(Append(s.out, Simple("ACK")), Hello(offer)) /\ ~g.thrown /\ g.ev = s.ev
    BY <1>5, <1>7, <1>9, <1>12, <1>16 DEF SameEvent
  <2>2. /\ g.state = "CONNECTED" /\ g.client = "connected" /\ ~g.incoming
        /\ g.total = Number(offer) /\ g.totalSize = Total(offer)
    BY <1>1, <1>5, <1>7, <1>9, <1>12, <1>16 DEF SamePeer
  <2>3. SamePlace(g, s)
    BY <1>5, <1>7, <1>9, <1>12, <1>16 DEF SamePlace
  <2>4. g.more = s.more /\ g.continue = s.continue /\ ~g.queued
    BY <1>5, <1>7, <1>9, <1>12, <1>16 DEF SameFlags
  <2> QED BY <2>1, <2>2, <2>3, <2>4
<1>18. SenderMid(offer, g, Tail(ts))
  <2>1. AtFile(offer, g)
    BY <1>1, <1>17 DEF SenderOK, AtFile, SamePlace
  <2>2. SenderGoes(offer, g)
    BY <1>1, <1>17 DEF SenderGoes, SamePlace
  <2>3. SenderOK(offer, g)
    BY <1>1, <1>16, <1>17, <2>1, <2>2 DEF SenderOK, SamePlace, SenderGoes
  <2>4. Reads(g) /\ ToSender(offer, g, Tail(ts))
    BY <1>1, <1>3, <1>17 DEF SenderGoes, Reads, ToSender, SamePlace
  <2> QED BY <1>17, <2>3, <2>4 DEF SenderMid
<1>19. ASSUME NEW r, NEW t \in Seq(Packet), JointMid(offer, s, r, ts, t) PROVE JointMid(offer, g, r, Tail(ts), t)
  <2>1. PICK tr : tr = t \o s.out
    OBVIOUS
  <2>2. InStep(offer, s, r, ts, tr)
    BY <1>19, <2>1 DEF JointMid
  <2>3. tr = <<>> /\ r.state = "WAITING_FOR_INIT_ACK"
    BY <1>1, <2>2 DEF InStep, Greeting
  <2>4. t \o g.out = <<Simple("ACK"), Hello(offer)>>
    <3>1. s.out \in Seq(Packet) /\ Simple("ACK") \in Packet
      BY <1>1 DEF End, Simple, Packet
    <3>2. Append(s.out, Simple("ACK")) \in Seq(Packet) /\ t \o Append(s.out, Simple("ACK")) = Append(tr, Simple("ACK"))
      BY <1>19, <2>1, <3>1, Behind
    <3>3. t \o g.out = Append(t \o Append(s.out, Simple("ACK")), Hello(offer))
      BY <1>10, <1>17, <1>19, <3>2, Behind
    <3> QED BY <2>3, <3>2, <3>3, TwoAppended
  <2>5. InStep(offer, g, r, Tail(ts), t \o g.out)
    BY <1>1, <1>3, <1>17, <2>3, <2>4 DEF InStep, Greeting, SamePlace
  <2>6. ToReceiver(offer, r, t \o g.out)
    BY <2>3, <2>4 DEF ToReceiver
  <2>7. g.ev # "COMPLETE"
    BY <1>1, <1>17 DEF SenderGoes
  <2> QED BY <2>5, <2>6, <2>7 DEF JointMid
<1>20. StuckMid(offer, s, ts) => StuckMid(offer, g, Tail(ts))
  BY <1>1, <1>3, <1>17, OneTwo DEF StuckMid, Stuck, SamePlace
<1> QED BY <1>13, <1>18, <1>19, <1>20

\* The receiver asks for the name of the first file.
LEMMA StartRead ==
  ASSUME OfferOK(offer), NEW s, NEW ts \in Seq(Packet), ts # <<>>, SenderMid(offer, s, ts), ~s.thrown,
         s.state = "CONNECTED", ts[1].type = "01"
  PROVE  LET g == Parse(s, Head(ts)) IN
         /\ SenderMid(offer, g, Tail(ts))
         /\ \A r : \A t \in Seq(Packet) :
               ReceiverOK(offer, r) /\ JointMid(offer, s, r, ts, t) => JointMid(offer, g, r, Tail(ts), t)
         /\ StuckMid(offer, s, ts) => StuckMid(offer, g, Tail(ts))
<1>1. /\ s \in End /\ s.client = "connected" /\ SenderOK(offer, s) /\ SenderGoes(offer, s)
      /\ ToSender(offer, s, ts) /\ s.pos <= s.size /\ s.currFile \in Nat /\ Reads(s)
  BY DEF SenderMid, SenderOK, SenderGoes, AtFile, End
<1>2. Head(ts) = ts[1] /\ 1 \in DOMAIN ts
  BY FirstIs
<1>3. s.currFile = 0
  BY <1>1, <1>2 DEF ToSender, Asked
<1>4. ts = <<Simple("01")>>
  <2>1. ts # <<Simple("05")>> /\ ts # <<Simple("05"), Simple("01")>>
    BY OneTwo DEF Simple
  <2> QED BY <1>1, <1>3, <2>1 DEF ToSender
<1>5. Tail(ts) = <<>>
  BY <1>4, OneTwo
<1>6. PICK g : g = Parse(s, Head(ts))
  OBVIOUS
<1>7. g = SendPacket0x02(s)
  BY <1>2, <1>6 DEF Parse, ParsePacket
<1>8. Ready(offer, s, ts) /\ s.currFile < Number(offer)
  BY <1>1, <1>3 DEF Ready, Reads, OfferOK
<1>9. Named(g, s)
  <2>1. offer.sizes[s.currFile + 1] \in Nat
    <3>1. s.currFile + 1 \in 1..Number(offer)
      BY <1>1, <1>8 DEF OfferOK
    <3> QED BY <3>1, SizeNat
  <2>2. ~s.continue /\ ~s.more
    BY <1>1, <1>3 DEF SenderGoes
  <2> QED BY <1>1, <1>7, <2>1, <2>2, NameIs DEF Named, SameFlags, SameEvent
<1>10. SenderMid(offer, g, Tail(ts))
  BY <1>5, <1>8, <1>9, OneTwo, NameSender
<1>11. ASSUME NEW r, NEW t \in Seq(Packet), ReceiverOK(offer, r), JointMid(offer, s, r, ts, t)
       PROVE  JointMid(offer, g, r, Tail(ts), t)
  <2>1. PICK tr : tr = t \o s.out
    OBVIOUS
  <2>2. InStep(offer, s, r, ts, tr)
    BY <1>11, <2>1 DEF JointMid
  <2>3. r.state = "CONNECTED" /\ r.total # 0 /\ r.currFile = 0 /\ tr = <<>>
    <3>1. ts # <<>> /\ ts # <<Simple("INIT")>> /\ ts # <<Simple("ACK"), Simple("INIT")>>
      BY <1>4, OneTwo DEF Simple
    <3>2. ~SameFile(s, r, ts, tr)
      BY <1>3 DEF SameFile
    <3>3. ~Ahead(s, r, ts, tr)
      BY <1>2 DEF Ahead
    <3> QED BY <2>2, <3>1, <3>2, <3>3 DEF InStep, Greeting
  <2>4. r.name = NoFile /\ s.name = NoFile /\ ~r.wanting
    BY <1>1, <1>3, <1>11, <2>3 DEF ReceiverOK, AtFileReceived, SenderOK, AtFile, NoFile
  <2>5. AtItsEnd(offer, s, r, Tail(ts), tr)
    BY <1>3, <1>5, <2>3, <2>4, OneTwo DEF AtItsEnd, FileOver, Continues
  <2> QED BY <1>8, <1>9, <1>11, <2>1, <2>5, NameJoint
<1>12. StuckMid(offer, s, ts) => StuckMid(offer, g, Tail(ts))
  BY <1>5, <1>9, OneTwo DEF Named, StuckMid, Stuck
<1> QED BY <1>6, <1>10, <1>11, <1>12

\* The sender goes on: it has been told to send the file it is at, or to skip it.
Resumed(h, s) ==
    /\ h \in End /\ h.ev = s.ev /\ h.shown = s.shown /\ h.thrown = s.thrown /\ h.out = s.out
    /\ h.continue /\ h.queued = s.queued
    /\ SamePlace(h, s) /\ SamePeer(h, s)

\* The answer about the current file, read by a sender that is connected
AnswerRead(o, s, ts) ==
    /\ OfferOK(o) /\ ts \in Seq(Packet) /\ ts # <<>> /\ SenderMid(o, s, ts) /\ ~s.thrown
    /\ s.state = "CONNECTED" /\ s.currFile > 0
    /\ ts[1].type = "03" \/ (ts[1].type = "04" /\ ts[1].file = s.currFile)

\* What it says: there is no other answer behind it, and the receiver is at
\* that file, which it has opened or skipped.
LEMMA AnswerSays ==
  ASSUME NEW o, NEW s, NEW ts, AnswerRead(o, s, ts)
  PROVE  /\ ts[1].type = "03" => /\ ~s.continue /\ ~s.more /\ s.pos = 0
                                 /\ ts[1].file = s.currFile \/ (ts[1].file = Number(o) + 1 /\ s.currFile < Number(o))
         /\ \A j \in DOMAIN Tail(ts) : Tail(ts)[j].type = "04"
         /\ \A r, t : ReceiverOK(o, r) /\ JointMid(o, s, r, ts, t) =>
               /\ SameFile(s, r, ts, t \o s.out) /\ ~r.wanting /\ r.state = "CONNECTED" /\ r.total # 0
               /\ ts[1].type = "03" /\ ts[1].file = s.currFile => r.stream = r.currFile
               /\ ts[1].type = "04" \/ ts[1].file # s.currFile => r.currFile \in r.skipped
         /\ StuckMid(o, s, ts) => (ts[1].file = s.currFile => s.currFile # Number(o))
<1>1. /\ s \in End /\ SenderOK(o, s) /\ s.client = "connected" /\ SenderGoes(o, s) /\ ToSender(o, s, ts)
      /\ s.currFile \in Nat /\ s.currFile # 0 /\ ts \in Seq(Packet) /\ ts # <<>>
  BY DEF AnswerRead, SenderMid, SenderOK, End
<1>2. Asked(o, s, ts) /\ s.state = "CONNECTED"
  BY <1>1 DEF AnswerRead, ToSender
<1>3. /\ 1 \in DOMAIN ts
      /\ \A j \in DOMAIN Tail(ts) : j + 1 \in DOMAIN ts /\ Tail(ts)[j] = ts[j + 1] /\ j \in Nat \ {0}
  BY <1>1, FirstIs
<1>4. ts[1].type = "03" => /\ ~s.continue /\ ~s.more /\ s.pos = 0
                           /\ ts[1].file = s.currFile \/ (ts[1].file = Number(o) + 1 /\ s.currFile < Number(o))
  BY <1>1, <1>2, <1>3 DEF Asked, SenderGoes
<1>5. ASSUME NEW j \in DOMAIN Tail(ts) PROVE Tail(ts)[j].type = "04"
  <2>1. j + 1 \in DOMAIN ts /\ Tail(ts)[j] = ts[j + 1] /\ 1 \in 1 .. (j + 1) - 1
    BY <1>3
  <2>2. ts[j + 1].type # "03"
    <3>1. ts[j + 1].type = "03" => ts[1].type = "04" /\ ts[1].file < s.currFile
      BY <1>2, <2>1 DEF Asked
    <3> QED BY <1>1, <3>1 DEF AnswerRead
  <2> QED BY <1>2, <2>1, <2>2 DEF Asked
<1>6. ASSUME NEW r, NEW t, ReceiverOK(o, r), JointMid(o, s, r, ts, t)
      PROVE  /\ SameFile(s, r, ts, t \o s.out) /\ ~r.wanting /\ r.state = "CONNECTED" /\ r.total # 0
             /\ ts[1].type = "03" /\ ts[1].file = s.currFile => r.stream = r.currFile
             /\ ts[1].type = "04" \/ ts[1].file # s.currFile => r.currFile \in r.skipped
  <2>1. PICK tr : tr = t \o s.out
    OBVIOUS
  <2>2. InStep(o, s, r, ts, tr)
    BY <1>6, <2>1 DEF JointMid, AnswerRead
  <2>3. ~Greeting(o, s, r, ts, tr)
    BY <1>1, <1>2 DEF Greeting
  <2>4. ~Ahead(s, r, ts, tr)
    <3>1. Ahead(s, r, ts, tr) => ts[1].type = "04" /\ ts[1].file <= r.currFile /\ s.currFile = r.currFile + 1
      BY <1>3 DEF Ahead
    <3>2. r.currFile \in Nat
      BY <1>6 DEF ReceiverOK, End
    <3> QED BY <3>1, <3>2 DEF AnswerRead
  <2>5. SameFile(s, r, ts, tr) /\ r.state = "CONNECTED" /\ r.total # 0
    BY <2>2, <2>3, <2>4 DEF InStep
  <2>6. /\ s.currFile = r.currFile
        /\ ts[1].file = r.currFile => ~r.wanting
        /\ ts[1].type = "03" => ~r.wanting
        /\ ts[1].type = "03" /\ ts[1].file = r.currFile => r.stream = r.currFile
        /\ ts[1].type = "03" /\ ts[1].file # r.currFile => r.currFile \in r.skipped
        /\ ts[1].type = "04" /\ ts[1].file = r.currFile => r.currFile \in r.skipped
    BY <1>3, <2>5 DEF SameFile
  <2> QED BY <2>1, <2>5, <2>6 DEF AnswerRead
<1>7. StuckMid(o, s, ts) => (ts[1].file = s.currFile => s.currFile # Number(o))
  BY <1>3 DEF StuckMid, Stuck, AnswerRead
<1> QED BY <1>4, <1>5, <1>6, <1>7

LEMMA ResumedReady ==
  ASSUME NEW o, NEW s, NEW ts, AnswerRead(o, s, ts), NEW h, Resumed(h, s),
         h.more => ts[1].type = "03" /\ ts[1].file = s.currFile,
         ~h.more => /\ s.currFile < Number(o)
                    /\ ts[1].type = "04" \/ ts[1].file # s.currFile
  PROVE  /\ Ready(o, h, Tail(ts))
         /\ \A r, t : ReceiverOK(o, r) /\ JointMid(o, s, r, ts, t) => JointMid(o, h, r, Tail(ts), t)
         /\ StuckMid(o, s, ts) => StuckMid(o, h, Tail(ts))
<1>1. /\ s \in End /\ SenderOK(o, s) /\ s.client = "connected" /\ SenderGoes(o, s)
      /\ s.currFile \in Nat /\ s.currFile # 0 /\ ts \in Seq(Packet) /\ ts # <<>> /\ s.state = "CONNECTED" /\ ~s.thrown
      /\ s.size \in Nat
  BY DEF AnswerRead, SenderMid, SenderOK, End
<1>2. PICK rest : rest = Tail(ts)
  OBVIOUS
<1>3. /\ \A j \in DOMAIN rest : rest[j].type = "04"
      /\ \A j \in DOMAIN rest : j + 1 \in DOMAIN ts /\ rest[j] = ts[j + 1]
  BY <1>1, <1>2, AnswerSays, FirstIs
<1>4. SenderOK(o, h)
  <2>1. AtFile(o, h)
    BY <1>1 DEF SenderOK, AtFile, Resumed, SamePlace
  <2>2. SenderGoes(o, h)
    BY <1>1 DEF SenderGoes, Resumed, SamePlace, SamePeer
  <2> QED BY <1>1, <2>1, <2>2 DEF SenderOK, Resumed, SamePlace, SamePeer
<1>5. Ready(o, h, rest)
  <2>1. h.more => h.pos < h.size \/ h.size = 0
    <3>1. h.more => s.pos = 0
      BY AnswerSays
    <3> QED BY <1>1, <3>1 DEF Resumed, SamePlace
  <2>2. Asked(o, h, rest)
    BY <1>3 DEF Asked
  <2>3. ToSender(o, h, rest)
    BY <1>1, <2>2 DEF ToSender, Resumed, SamePlace, SamePeer
  <2>4. OfferOK(o) /\ h.client = "connected" /\ ~h.thrown /\ h.state = "CONNECTED"
    BY <1>1 DEF AnswerRead, Resumed, SamePeer
  <2> QED BY <1>4, <2>1, <2>3, <2>4 DEF Ready
<1>6. ASSUME NEW r, NEW t, ReceiverOK(o, r), JointMid(o, s, r, ts, t) PROVE JointMid(o, h, r, rest, t)
  <2>1. PICK tr : tr = t \o s.out
    OBVIOUS
  <2>2. /\ SameFile(s, r, ts, tr) /\ ~r.wanting /\ r.state = "CONNECTED" /\ r.total # 0
        /\ ts[1].type = "03" /\ ts[1].file = s.currFile => r.stream = r.currFile
        /\ ts[1].type = "04" \/ ts[1].file # s.currFile => r.currFile \in r.skipped
    BY <1>6, <2>1, AnswerSays
  <2>3. h.more => r.stream = r.currFile
    BY <2>2
  <2>4. ~h.more => r.currFile \in r.skipped
    BY <2>2
  <2>5. h.currFile = s.currFile /\ h.name = s.name /\ h.size = s.size /\ h.pos = s.pos /\ h.continue
    BY DEF Resumed, SamePlace
  <2>6. SameFile(h, r, rest, tr)
    BY <1>3, <2>2, <2>3, <2>4, <2>5 DEF SameFile
  <2>7. InStep(o, h, r, rest, tr)
    BY <1>1, <2>2, <2>6 DEF InStep, Resumed, SamePeer
  <2>8. ToReceiver(o, r, tr) /\ h.out = s.out /\ h.ev # "COMPLETE"
    BY <1>1, <1>6, <2>1 DEF JointMid, Resumed, SenderGoes
  <2> QED BY <2>1, <2>7, <2>8 DEF JointMid
<1>7. StuckMid(o, s, ts) => StuckMid(o, h, rest)
  <2>1. SUFFICES ASSUME StuckMid(o, s, ts) PROVE StuckMid(o, h, rest)
    OBVIOUS
  <2>2. s.ev # "COMPLETE" /\ \A i \in DOMAIN rest : rest[i].type \in {"03", "04"} => rest[i].file # Number(o)
    BY <1>1, <1>3, <2>1 DEF StuckMid, Stuck
  <2>3. h.currFile < Number(o)
    <3>1. s.currFile \in 0..Number(o) /\ Number(o) \in Nat
      BY <1>1 DEF SenderOK, AtFile, AnswerRead, OfferOK
    <3>2. h.more => s.currFile # Number(o)
      BY <2>1, AnswerSays
    <3>3. s.currFile < Number(o)
      BY <3>1, <3>2
    <3> QED BY <3>3 DEF Resumed, SamePlace
  <2> QED BY <2>2, <2>3 DEF StuckMid, Stuck, Resumed
<1> QED BY <1>2, <1>5, <1>6, <1>7

LEMMA ResumedIs ==
  ASSUME NEW e \in End, NEW more \in BOOLEAN
  PROVE  LET g == [e EXCEPT !.more = more, !.continue = TRUE] IN Resumed(g, e) /\ (g.more <=> more)
<1>1. PICK g : g = [e EXCEPT !.more = more, !.continue = TRUE]
  OBVIOUS
<1>2. g \in End
  BY <1>1 DEF End
<1> QED BY <1>1, <1>2 DEF End, Resumed, SamePlace, SamePeer

\* The receiver asks for the current file, or, for the Mac, to skip it.
LEMMA AskRead ==
  ASSUME NEW s, NEW ts, AnswerRead(offer, s, ts), ts[1].type = "03"
  PROVE  LET g == Parse(s, Head(ts)) IN
         /\ SenderMid(offer, g, Tail(ts))
         /\ \A r : \A t \in Seq(Packet) :
               ReceiverOK(offer, r) /\ r.client # "none" /\ JointMid(offer, s, r, ts, t)
                  => JointMid(offer, g, r, Tail(ts), t)
         /\ StuckMid(offer, s, ts) => StuckMid(offer, g, Tail(ts))
<1>1. /\ s \in End /\ s.total = Number(offer) /\ s.currFile \in 0..Number(offer) /\ Number(offer) \in Nat
      /\ s.state = "CONNECTED" /\ ~s.thrown /\ s.totalPos \in Nat /\ s.size \in Nat /\ s.currFile \in Nat
  BY DEF AnswerRead, SenderMid, SenderOK, AtFile, OfferOK, End
<1>2. ~s.continue /\ ~s.more /\ s.pos = 0
  BY AnswerSays
<1>3. PICK p \in Packet : p = ts[1] /\ p = Head(ts) /\ p.type = "03" /\ p.pos = 0
  <2>1. ts \in Seq(Packet) /\ ts # <<>>
    BY DEF AnswerRead
  <2> QED BY <2>1, FirstIs, PacketIs
<1>4. p.file = s.currFile \/ (p.file = Number(offer) + 1 /\ s.currFile < Number(offer))
  BY <1>3, AnswerSays
<1>5. PICK g : g = Parse(s, Head(ts))
  OBVIOUS
<1>6. g = ParsePacket0x03(s, p)
  BY <1>1, <1>3, <1>5 DEF Parse, ParsePacket
<1>7. [s EXCEPT !.pos = p.pos, !.totalPos = @ + p.pos] = s
  <2>1. PICK total \in Nat : total = s.totalPos + p.pos /\ total = s.totalPos
    BY <1>1, <1>3
  <2>2. [s EXCEPT !.pos = p.pos, !.totalPos = @ + p.pos] = [s EXCEPT !.pos = s.pos, !.totalPos = s.totalPos]
    BY <1>2, <1>3, <2>1
  <2> QED BY <1>1, <2>2 DEF End
<1>8. PICK h : Ready(offer, h, Tail(ts)) /\ g = SendFile(h)
               /\ (\A r, t : ReceiverOK(offer, r) /\ JointMid(offer, s, r, ts, t) => JointMid(offer, h, r, Tail(ts), t))
               /\ (StuckMid(offer, s, ts) => StuckMid(offer, h, Tail(ts)))
  <2>1. CASE p.file = s.currFile
    <3>1. PICK h : h = [s EXCEPT !.more = TRUE, !.continue = TRUE]
      OBVIOUS
    <3>2. Resumed(h, s) /\ h.more
      BY <1>1, <3>1, ResumedIs
    <3>3. [s EXCEPT !.currFile = p.file, !.more = TRUE, !.continue = TRUE] = h
      BY <1>1, <2>1, <3>1 DEF End
    <3>4. ~(p.file > s.total) /\ p.file <= s.total /\ ~(p.pos > s.size)
      BY <1>1, <1>3, <2>1
    <3>5. g = SendFile(h)
      BY <1>6, <1>7, <3>3, <3>4 DEF ParsePacket0x03
    <3> QED BY <1>3, <2>1, <3>2, <3>5, ResumedReady
  <2>2. CASE p.file # s.currFile
    <3>1. PICK h : h = [s EXCEPT !.more = FALSE, !.continue = TRUE]
      OBVIOUS
    <3>2. Resumed(h, s) /\ ~h.more
      BY <1>1, <3>1, ResumedIs
    <3>3. p.file > s.total /\ s.currFile # s.total /\ s.currFile < Number(offer)
      BY <1>1, <1>4, <2>2
    <3>4. SkipRequested(s) = h
      BY <3>1, <3>3 DEF SkipRequested
    <3>5. ~SkipRequested(s).thrown
      BY <1>1, <3>2, <3>4 DEF Resumed
    <3>6. PICK at : at = [s EXCEPT !.pos = p.pos, !.totalPos = @ + p.pos] /\ at = s
      BY <1>7
    <3>7. ParsePacket0x03(s, p) = SendFile(SkipRequested(at))
      <4>1. p.file > s.total /\ ~(p.file <= s.total) /\ ~SkipRequested(at).thrown
        <5>1. p.file > s.total /\ ~(p.file <= s.total)
          BY <1>1, <1>4, <2>2
        <5> QED BY <3>5, <3>6, <5>1
      <4> QED BY <3>6, <4>1, Zenon DEF ParsePacket0x03
    <3>8. g = SendFile(h)
      BY <1>6, <3>4, <3>6, <3>7
    <3> QED BY <1>3, <2>2, <3>2, <3>3, <3>8, ResumedReady
  <2> QED BY <2>1, <2>2
<1>9. SenderMid(offer, g, Tail(ts))
  BY <1>8, SendFileSender
<1>10. ASSUME NEW r, NEW t \in Seq(Packet), ReceiverOK(offer, r), r.client # "none", JointMid(offer, s, r, ts, t)
       PROVE  JointMid(offer, g, r, Tail(ts), t)
  BY <1>8, <1>10, SendFileJoint
<1>11. StuckMid(offer, s, ts) => StuckMid(offer, g, Tail(ts))
  BY <1>8, SendFileStuck
<1> QED BY <1>5, <1>9, <1>10, <1>11

\* The receiver skips the current file.
LEMMA SkipRead ==
  ASSUME NEW s, NEW ts, AnswerRead(offer, s, ts), ts[1].type = "04"
  PROVE  LET g == Parse(s, Head(ts)) IN
         /\ SenderMid(offer, g, Tail(ts))
         /\ \A r : \A t \in Seq(Packet) :
               ReceiverOK(offer, r) /\ r.client # "none" /\ JointMid(offer, s, r, ts, t)
                  => JointMid(offer, g, r, Tail(ts), t)
         /\ StuckMid(offer, s, ts) => StuckMid(offer, g, Tail(ts))
<1>1. /\ s \in End /\ s.total = Number(offer) /\ s.currFile \in 0..Number(offer) /\ Number(offer) \in Nat
      /\ s.state = "CONNECTED" /\ ~s.thrown /\ s.currFile \in Nat /\ s.client = "connected" /\ SenderOK(offer, s)
  BY DEF AnswerRead, SenderMid, SenderOK, AtFile, OfferOK, End
<1>2. PICK p \in Packet : p = ts[1] /\ p = Head(ts) /\ p.type = "04" /\ p.file = s.currFile
  <2>1. ts \in Seq(Packet) /\ ts # <<>> /\ ts[1].file = s.currFile
    BY DEF AnswerRead
  <2> QED BY <2>1, FirstIs
<1>3. PICK g : g = Parse(s, Head(ts))
  OBVIOUS
<1>4. g = SkipRequested(s)
  BY <1>1, <1>2, <1>3 DEF Parse, ParsePacket, ParsePacket0x04
<1>5. PICK h : h = [s EXCEPT !.more = FALSE, !.continue = TRUE]
  OBVIOUS
<1>6. Resumed(h, s) /\ ~h.more
  BY <1>1, <1>5, ResumedIs
<1>7. CASE s.currFile # Number(offer)
  <2>1. g = h /\ s.currFile < Number(offer)
    BY <1>1, <1>4, <1>5, <1>7 DEF SkipRequested
  <2>2. /\ Ready(offer, h, Tail(ts))
        /\ \A r, t : ReceiverOK(offer, r) /\ JointMid(offer, s, r, ts, t) => JointMid(offer, h, r, Tail(ts), t)
        /\ StuckMid(offer, s, ts) => StuckMid(offer, h, Tail(ts))
    BY <1>6, <2>1, ResumedReady
  <2>3. SenderMid(offer, h, Tail(ts))
    BY <1>6, <2>2 DEF Ready, SenderMid, Reads
  <2> QED BY <1>3, <2>1, <2>2, <2>3
<1>8. CASE s.currFile = Number(offer)
  <2>1. g = Complete(h)
    BY <1>1, <1>4, <1>5, <1>8 DEF SkipRequested
  <2>2. /\ g \in End /\ g.out = h.out /\ g.thrown = TRUE /\ g.ev = "COMPLETE"
        /\ SamePlace(g, h) /\ SamePeer(g, h)
    <3>1. "COMPLETE" \in EventStates /\ h \in End
      BY <1>6 DEF EventStates, Resumed
    <3> QED BY <2>1, <3>1, EndsWith DEF Complete
  <2>3. SenderMid(offer, g, Tail(ts))
    <3>1. SamePlace(g, s) /\ SamePeer(g, s)
      BY <1>6, <2>2 DEF Resumed, SamePlace, SamePeer
    <3>2. AtFile(offer, g)
      BY <1>1, <3>1 DEF SenderOK, AtFile, SamePlace
    <3>3. SenderOK(offer, g)
      BY <1>1, <2>2, <3>1, <3>2 DEF SenderOK, SamePlace, SamePeer
    <3> QED BY <1>1, <2>2, <3>1, <3>3 DEF SenderMid, SamePeer
  <2>4. ASSUME NEW r, NEW t, ReceiverOK(offer, r), JointMid(offer, s, r, ts, t)
        PROVE  JointMid(offer, g, r, Tail(ts), t)
    <3>1. SameFile(s, r, ts, t \o s.out) /\ r.currFile \in r.skipped
      BY <2>4, <1>2, AnswerSays
    <3>2. r.currFile = Number(offer)
      BY <1>8, <3>1 DEF SameFile
    <3>3. r.window => r.ev = "COMPLETE"
      BY <2>4, <3>1, <3>2 DEF ReceiverOK
    <3>4. g.out = s.out
      BY <1>6, <2>2 DEF Resumed
    <3> QED BY <2>2, <2>4, <3>3, <3>4 DEF JointMid, Finishing
  <2>5. ~StuckMid(offer, s, ts)
    BY <1>2, <1>8, AnswerSays
  <2> QED BY <1>3, <2>3, <2>4, <2>5
<1> QED BY <1>7, <1>8

\* Whatever the sender reads
LEMMA SenderParses ==
  ASSUME OfferOK(offer), NEW s, NEW ts \in Seq(Packet), ts # <<>>, SenderMid(offer, s, ts)
  PROVE  LET g == Parse(s, Head(ts)) IN
         /\ SenderMid(offer, g, Tail(ts))
         /\ \A r : \A t \in Seq(Packet) :
               ReceiverOK(offer, r) /\ r.client # "none" /\ JointMid(offer, s, r, ts, t)
                  => JointMid(offer, g, r, Tail(ts), t)
         /\ StuckMid(offer, s, ts) => StuckMid(offer, g, Tail(ts))
<1>1. CASE s.thrown
  <2>1. Parse(s, Head(ts)) = s
    BY <1>1 DEF Parse
  <2>2. SenderMid(offer, s, Tail(ts))
    BY <1>1 DEF SenderMid
  <2>3. \A r, t : JointMid(offer, s, r, ts, t) => JointMid(offer, s, r, Tail(ts), t)
    BY <1>1 DEF JointMid
  <2>4. StuckMid(offer, s, ts) => StuckMid(offer, s, Tail(ts))
    BY <1>1 DEF StuckMid
  <2> QED BY <2>1, <2>2, <2>3, <2>4
<1>2. CASE ~s.thrown
  <2>1. /\ s \in End /\ s.state \in {"WAITING_FOR_INIT", "WAITING_FOR_INIT_ACK", "CONNECTED"}
        /\ ToSender(offer, s, ts) /\ s.currFile \in Nat
    BY <1>2 DEF SenderMid, SenderOK, SenderGoes, End
  <2>2. Head(ts) = ts[1] /\ 1 \in DOMAIN ts
    BY FirstIs
  <2>3. CASE s.state = "WAITING_FOR_INIT_ACK"
    BY <1>2, <2>3, AckRead
  <2>4. CASE s.state = "WAITING_FOR_INIT"
    BY <1>2, <2>4, InitRead
  <2>5. CASE s.state = "CONNECTED" /\ s.currFile = 0
    <3>1. ts[1].type = "05" \/ ts[1].type = "01"
      BY <2>1, <2>5, OneTwo DEF ToSender, Simple
    <3>2. CASE ts[1].type = "05"
      <4>1. Parse(s, Head(ts)) = s
        BY <1>2, <2>2, <2>5, <3>2 DEF Parse, ParsePacket
      <4> QED BY <1>2, <3>2, <4>1, Ignored
    <3>3. CASE ts[1].type = "01"
      BY <1>2, <2>5, <3>3, StartRead
    <3> QED BY <3>1, <3>2, <3>3
  <2>6. CASE s.state = "CONNECTED" /\ s.currFile > 0
    <3>1. ts[1].type \in {"03", "04"}
      BY <2>1, <2>2, <2>6 DEF ToSender, Asked
    <3>2. CASE ts[1].type = "04" /\ ts[1].file # s.currFile
      <4>1. Parse(s, Head(ts)) = s
        BY <1>2, <2>2, <2>6, <3>2 DEF Parse, ParsePacket, ParsePacket0x04
      <4> QED BY <1>2, <2>6, <3>2, <4>1, Ignored
    <3>3. CASE ~(ts[1].type = "04" /\ ts[1].file # s.currFile)
      <4>1. AnswerRead(offer, s, ts)
        BY <1>2, <2>6, <3>1, <3>3 DEF AnswerRead
      <4> QED BY <3>1, <4>1, AskRead, SkipRead
    <3> QED BY <3>2, <3>3
  <2> QED BY <2>1, <2>3, <2>4, <2>5, <2>6
<1> QED BY <1>1, <1>2

-----------------------------------------------------------------------------
(* What is left of a queue.                                                *)

LEMMA RestIs ==
  ASSUME NEW ts \in Seq(Packet)
  PROVE  /\ SubSeq(ts, 1, Len(ts)) = ts
         /\ \A n \in 0..Len(ts) :
               LET rest == SubSeq(ts, n + 1, Len(ts)) IN
               /\ rest \in Seq(Packet) /\ Len(rest) = Len(ts) - n
               /\ \A j \in 1..Len(rest) : n + j \in 1..Len(ts) /\ rest[j] = ts[n + j]
<1>1. SubSeq(ts, 1, Len(ts)) = ts
  BY SubSeqFull
<1>2. ASSUME NEW n \in 0..Len(ts)
      PROVE  LET rest == SubSeq(ts, n + 1, Len(ts)) IN
             /\ rest \in Seq(Packet) /\ Len(rest) = Len(ts) - n
             /\ \A j \in 1..Len(rest) : n + j \in 1..Len(ts) /\ rest[j] = ts[n + j]
  <2>1. CASE n = Len(ts)
    BY <2>1, SubSeqEmpty
  <2>2. CASE n # Len(ts)
    <3>1. n + 1 \in 1..Len(ts) /\ Len(ts) \in 1..Len(ts) /\ Len(ts) \in Nat
      BY <2>2
    <3> QED BY <3>1, SubSeqProperties
  <2> QED BY <2>1, <2>2
<1> QED BY <1>1, <1>2

LEMMA FrontIs ==
  ASSUME NEW ts \in Seq(Packet), NEW n \in 0..Len(ts)
  PROVE  LET front == SubSeq(ts, 1, n) IN
         Len(front) = n /\ front \in Seq(Packet) /\ \A j \in 1..n : j \in 1..Len(ts) /\ front[j] = ts[j]
<1>1. CASE n = 0
  BY <1>1, SubSeqEmpty
<1>2. CASE n # 0
  <2>1. 1 \in 1..Len(ts) /\ n \in 1..Len(ts)
    BY <1>2
  <2> QED BY <1>2, <2>1, SubSeqProperties
<1> QED BY <1>1, <1>2

LEMMA RestStep ==
  ASSUME NEW ts \in Seq(Packet), NEW i \in 1..Len(ts)
  PROVE  LET rest == SubSeq(ts, (i - 1) + 1, Len(ts)) IN
         /\ rest \in Seq(Packet) /\ rest # <<>> /\ Head(rest) = ts[i] /\ Tail(rest) = SubSeq(ts, i + 1, Len(ts))
<1>1. PICK rest : rest = SubSeq(ts, (i - 1) + 1, Len(ts))
  OBVIOUS
<1>2. i - 1 \in 0..Len(ts) /\ i \in 0..Len(ts)
  OBVIOUS
<1>3. /\ rest \in Seq(Packet) /\ Len(rest) = Len(ts) - (i - 1)
      /\ \A j \in 1..Len(rest) : rest[j] = ts[(i - 1) + j]
  BY <1>1, <1>2, RestIs
<1>4. rest # <<>> /\ Head(rest) = ts[i]
  <2>1. Len(rest) > 0 /\ 1 \in 1..Len(rest) /\ (i - 1) + 1 = i
    BY <1>3
  <2> QED BY <1>3, <2>1
<1>5. PICK next : next = SubSeq(ts, i + 1, Len(ts))
  OBVIOUS
<1>6. /\ next \in Seq(Packet) /\ Len(next) = Len(ts) - i
      /\ \A j \in 1..Len(next) : next[j] = ts[i + j]
  BY <1>2, <1>5, RestIs
<1>7. Tail(rest) = next
  <2>1. /\ Tail(rest) \in Seq(Packet) /\ Len(Tail(rest)) = Len(next)
        /\ \A j \in 1..Len(Tail(rest)) : Tail(rest)[j] = rest[j + 1]
    <3>1. Tail(rest) \in Seq(Packet) /\ Len(Tail(rest)) = Len(rest) - 1
      BY <1>3, <1>4, FirstIs
    <3>2. DOMAIN Tail(rest) = 1..Len(Tail(rest))
      BY <3>1
    <3>3. \A j \in 1..Len(Tail(rest)) : Tail(rest)[j] = rest[j + 1]
      BY <1>3, <1>4, <3>2, FirstIs
    <3>4. Len(Tail(rest)) = Len(next)
      <4>1. Len(ts) \in Nat /\ i \in Nat /\ Len(rest) = Len(ts) - (i - 1) /\ Len(next) = Len(ts) - i
        BY <1>3, <1>6
      <4>2. Len(Tail(rest)) = Len(rest) - 1
        BY <3>1
      <4> QED BY <4>1, <4>2
    <3> QED BY <3>1, <3>3, <3>4
  <2>2. ASSUME NEW j \in 1..Len(Tail(rest)) PROVE Tail(rest)[j] = next[j]
    <3>1. j \in 1..Len(next) /\ j + 1 \in 1..Len(rest) /\ (i - 1) + (j + 1) = i + j
      BY <1>3, <1>6, <2>1
    <3>2. next[j] = ts[i + j] /\ rest[j + 1] = ts[i + j]
      BY <1>3, <1>6, <3>1
    <3> QED BY <2>1, <3>2
  <2> QED BY <1>6, <2>1, <2>2, SeqEqual
<1> QED BY <1>1, <1>3, <1>4, <1>5, <1>7

\* A sender that has read some of what came is as SenderMid says of the rest.
LEMMA SenderRecv ==
  ASSUME OfferOK(offer), NEW s, NEW ts \in Seq(Packet), SenderMid(offer, s, ts), NEW n \in 0..Len(ts),
         NEW r, NEW t \in Seq(Packet)
  PROVE  LET g == Recv(s, SubSeq(ts, 1, n))
             rest == SubSeq(ts, n + 1, Len(ts))
         IN  /\ SenderMid(offer, g, rest)
             /\ ReceiverOK(offer, r) /\ r.client # "none" /\ JointMid(offer, s, r, ts, t)
                   => JointMid(offer, g, r, rest, t)
             /\ StuckMid(offer, s, ts) => StuckMid(offer, g, rest)
<1> DEFINE Unread(i) == SubSeq(ts, i + 1, Len(ts))
           joint == ReceiverOK(offer, r) /\ r.client # "none" /\ JointMid(offer, s, r, ts, t)
           stuck == StuckMid(offer, s, ts)
           Good(f, i) == /\ SenderMid(offer, f, Unread(i))
                         /\ joint => JointMid(offer, f, r, Unread(i), t)
                         /\ stuck => StuckMid(offer, f, Unread(i))
           S == [i \in 0..n |-> {f \in End : Good(f, i)}]
           ps == SubSeq(ts, 1, n)
<1>1. Len(ps) = n /\ n \in Nat /\ \A i \in 1..n : i \in 1..Len(ts) /\ ps[i] = ts[i]
  BY FrontIs
<1>2. s \in S[0]
  <2>1. Unread(0) = ts
    BY RestIs
  <2>2. s \in End
    BY DEF SenderMid, SenderOK
  <2>3. Good(s, 0)
    BY <2>1
  <2> QED BY <1>1, <2>2, <2>3
<1>3. ASSUME NEW i \in 1..n, NEW f \in S[i - 1] PROVE Parse(f, ps[i]) \in S[i]
  <2>1. f \in End /\ Good(f, i - 1) /\ i - 1 \in 0..n /\ i \in 0..n
    BY <1>3
  <2>2. PICK before : before = Unread(i - 1)
    OBVIOUS
  <2>3. before \in Seq(Packet) /\ before # <<>> /\ Head(before) = ps[i] /\ Tail(before) = Unread(i)
    <3>1. i \in 1..Len(ts) /\ ps[i] = ts[i]
      BY <1>1, <1>3
    <3> QED BY <2>2, <3>1, RestStep
  <2>4. PICK g : g = Parse(f, ps[i])
    OBVIOUS
  <2>5. SenderMid(offer, f, before) /\ (joint => JointMid(offer, f, r, before, t)) /\ (stuck => StuckMid(offer, f, before))
    BY <2>1, <2>2
  <2> HIDE DEF Unread, ps, S
  <2>6. SenderMid(offer, g, Unread(i)) /\ (joint => JointMid(offer, g, r, Unread(i), t)) /\ (stuck => StuckMid(offer, g, Unread(i)))
    BY <2>3, <2>4, <2>5, SenderParses
  <2>7. g \in End
    BY <2>6 DEF SenderMid, SenderOK
  <2> QED BY <2>1, <2>4, <2>6, <2>7 DEF S
<1>4. Recv(s, ps) \in S[n]
  <2> HIDE DEF S, ps
  <2> QED BY <1>1, <1>2, <1>3, RecvStays
<1>5. Good(Recv(s, ps), n)
  BY <1>1, <1>4
<1> QED BY <1>5

-----------------------------------------------------------------------------
(* The end of the sender's callback.                                       *)

\* What a callback of the sender leaves when rest has not been read: here t was
\* on the way to the receiver r when it began.
SenderDone(up, s, r, rest, t) ==
    /\ SenderMid(offer, s, rest)
    /\ up /\ r.client # "none" => JointMid(offer, s, r, rest, t)
    /\ up /\ r.window /\ r.ev = "CANCELLED" => StuckMid(offer, s, rest)

LEMMA ServeDone ==
  ASSUME OfferOK(offer), NEW up, NEW s, NEW r, ReceiverOK(offer, r), NEW rest \in Seq(Packet), NEW t \in Seq(Packet),
         SenderDone(up, s, r, rest, t), ~s.thrown
  PROVE  SenderDone(up, SendEvent(s), r, rest, t)
<1>1. SenderMid(offer, s, rest) /\ s \in End /\ SenderGoes(offer, s)
  BY DEF SenderDone, SenderMid, SenderOK
<1>2. PICK g : g = SendEvent(s)
  OBVIOUS
<1>3. CASE s.state # "CONNECTED"
  <2>1. g = [s EXCEPT !.queued = TRUE]
    BY <1>2, <1>3 DEF SendEvent
  <2>2. s.queued = TRUE
    BY <1>1, <1>3 DEF SenderGoes, End
  <2>3. SameSender(g, s)
    <3>1. g \in End
      BY <1>1, <2>1 DEF End
    <3> QED BY <1>1, <2>1, <2>2, <3>1 DEF End, SameSender, SamePlace, SameFlags, SamePeer
  <2> QED BY <1>1, <1>2, <2>3, SameSenderKeeps DEF SenderDone
<1>4. CASE s.state = "CONNECTED"
  <2>1. g = SendFile(s)
    BY <1>2, <1>4 DEF SendEvent
  <2>2. Ready(offer, s, rest)
    BY <1>1, <1>4 DEF SenderMid, Ready, Reads
  <2> QED BY <1>2, <2>1, <2>2, SendFileSender, SendFileJoint, SendFileStuck DEF SenderDone
<1> QED BY <1>3, <1>4

\* A socket that is closed
LEMMA ThrowDone ==
  ASSUME NEW up, NEW s, NEW r, NEW rest, NEW t, SenderDone(up, s, r, rest, t)
  PROVE  SenderDone(up, Throw(s), r, rest, t)
<1>1. SenderMid(offer, s, rest) /\ s \in End /\ SenderOK(offer, s) /\ s.client = "connected"
  BY DEF SenderDone, SenderMid, SenderOK
<1>2. PICK g : g = Throw(s)
  OBVIOUS
<1>3. /\ g \in End /\ g.out = s.out /\ g.thrown = TRUE /\ g.ev = s.ev /\ g.shown = s.shown
      /\ SamePlace(g, s) /\ SamePeer(g, s)
  BY <1>1, <1>2, ThrowIs DEF SameEvent
<1>4. SenderMid(offer, g, rest)
  <2>1. AtFile(offer, g)
    BY <1>1, <1>3 DEF SenderOK, AtFile, SamePlace
  <2>2. SenderOK(offer, g)
    BY <1>1, <1>3, <2>1 DEF SenderOK, SamePlace, SamePeer
  <2> QED BY <1>1, <1>3, <2>2 DEF SenderMid, SamePeer
<1>5. JointMid(offer, s, r, rest, t) => JointMid(offer, g, r, rest, t)
  BY <1>3 DEF JointMid
<1>6. StuckMid(offer, s, rest) => StuckMid(offer, g, rest)
  BY <1>3 DEF StuckMid
<1> QED BY <1>2, <1>4, <1>5, <1>6 DEF SenderDone

\* The front of what the receiver can be told
LEMMA ToldLess ==
  ASSUME NEW o, NEW r, NEW tr \in Seq(Packet), NEW p \in Packet, ToReceiver(o, r, Append(tr, p))
  PROVE  ToReceiver(o, r, tr)
<1>1. PICK tq : tq = Append(tr, p)
  OBVIOUS
<1>2. /\ tq \in Seq(Packet) /\ Len(tq) = Len(tr) + 1 /\ Len(tr) \in Nat
      /\ \A i \in 1..Len(tr) : i \in 1..Len(tq) /\ tq[i] = tr[i]
      /\ DOMAIN tq = 1 .. Len(tq) /\ DOMAIN tr = 1 .. Len(tr)
  BY <1>1, AppendProperties
<1>3. ASSUME NEW a, tq = <<a>> PROVE tr = <<>>
  <2>1. Len(tq) = 1
    BY <1>3, OneTwo
  <2> QED BY <1>2, <2>1
<1>4. ASSUME NEW a, NEW b, tq = <<a, b>> PROVE tr = <<a>>
  <2>1. Len(tq) = 2 /\ tq[1] = a
    BY <1>4, OneTwo
  <2>2. Len(tr) = 1 /\ tr[1] = a
    BY <1>2, <2>1
  <2> QED BY <2>2
<1>5. tq # <<>>
  BY <1>2
<1>6. ToReceiver(o, r, tq)
  BY <1>1
<1>7. Continues(o, r, tq) => Continues(o, r, tr)
  <2>1. SUFFICES ASSUME Continues(o, r, tq), NEW i \in 1..Len(tr)
                 PROVE  /\ tr[i] = Data(r, i) /\ r.currFile > 0 /\ r.stream = r.currFile
                        /\ r.size = 0 \/ r.pos + i <= r.size
    BY <1>2 DEF Continues
  <2>2. i # Len(tq) /\ i \in DOMAIN tq /\ tq[i] = tr[i]
    BY <1>2
  <2> QED BY <2>1, <2>2 DEF Continues
<1> QED BY <1>3, <1>4, <1>5, <1>6, <1>7 DEF ToReceiver

LEMMA FailIs ==
  ASSUME NEW b \in End, NEW e \in End, e.out # <<>>
  PROVE  LET g == FailedSend(b, e) IN
         /\ g \in End /\ g.thrown = TRUE /\ g.ev = b.ev /\ g.out = Front(e.out) /\ g.shown = e.shown
         /\ Front(e.out) \in Seq(Packet) /\ e.out = Append(Front(e.out), e.out[Len(e.out)])
         /\ e.out[Len(e.out)] \in Packet /\ Len(Front(e.out)) = Len(e.out) - 1
         /\ \A i \in 1..Len(Front(e.out)) : i \in 1..Len(e.out) /\ Front(e.out)[i] = e.out[i]
         /\ SamePlace(g, e) /\ SameFlags(g, e) /\ SamePeer(g, e) /\ SameWindow(g, e)
<1>1. PICK out \in Seq(Packet) : out = e.out
  BY DEF End
<1>2. out # <<>> /\ Len(out) \in Nat \ {0}
  BY <1>1
<1>3. PICK front : front = Front(out)
  OBVIOUS
<1>4. /\ front \in Seq(Packet) /\ Len(front) = Len(out) - 1
      /\ \A i \in 1..Len(front) : i \in 1..Len(out) /\ front[i] = out[i]
  <2>1. PICK k \in 0..Len(out) : k = Len(out) - 1
    BY <1>2
  <2>2. front = SubSeq(out, 1, k)
    BY <1>3, <2>1 DEF Front
  <2>3. Len(front) = k /\ front \in Seq(Packet) /\ \A j \in 1..k : j \in 1..Len(out) /\ front[j] = out[j]
    BY <2>2, FrontIs
  <2> QED BY <2>1, <2>3
<1>5. PICK last \in Packet : last = out[Len(out)]
  BY <1>2
<1>6. out = Append(front, last)
  <2>1. PICK again : again = Append(front, last)
    OBVIOUS
  <2>2. /\ again \in Seq(Packet) /\ Len(again) = Len(front) + 1 /\ again[Len(front) + 1] = last
        /\ \A i \in 1..Len(front) : again[i] = front[i]
    BY <1>4, <1>5, <2>1, AppendProperties
  <2>3. Len(again) = Len(out) /\ Len(front) + 1 = Len(out)
    BY <1>2, <1>4, <2>2
  <2>4. ASSUME NEW i \in 1..Len(out) PROVE again[i] = out[i]
    <3>1. CASE i = Len(out)
      BY <1>5, <2>2, <2>3, <3>1
    <3>2. CASE i # Len(out)
      <4>1. i \in 1..Len(front)
        BY <1>2, <1>4, <3>2
      <4> QED BY <1>4, <2>2, <4>1
    <3> QED BY <3>1, <3>2
  <2> QED BY <2>1, <2>2, <2>3, <2>4, SeqEqual
<1>7. PICK g : g = FailedSend(b, e)
  OBVIOUS
<1>8. PICK ev \in EventStates : ev = b.ev
  BY DEF End
<1>9. g = [e EXCEPT !.thrown = TRUE, !.out = front, !.ev = ev]
  BY <1>1, <1>3, <1>7, <1>8 DEF FailedSend
<1>10. g \in End /\ g.thrown = TRUE /\ g.ev = ev /\ g.out = front
  BY <1>4, <1>9 DEF End
<1>11. g.shown = e.shown /\ SamePlace(g, e) /\ SameFlags(g, e) /\ SamePeer(g, e) /\ SameWindow(g, e)
  BY <1>9, <1>10 DEF End, SamePlace, SameFlags, SamePeer, SameWindow
<1> QED BY <1>1, <1>3, <1>4, <1>5, <1>6, <1>7, <1>8, <1>10, <1>11

\* The last send of the callback fails.
LEMMA FailDone ==
  ASSUME NEW up, NEW b \in End, b.ev \in {"SEND", "TIMEOUT"},
         NEW s, NEW r, NEW rest, NEW t \in Seq(Packet), SenderDone(up, s, r, rest, t), s.out # <<>>
  PROVE  SenderDone(up, FailedSend(b, s), r, rest, t)
<1>1. SenderMid(offer, s, rest) /\ s \in End /\ SenderOK(offer, s) /\ s.client = "connected"
  BY DEF SenderDone, SenderMid, SenderOK
<1>2. PICK g : g = FailedSend(b, s)
  OBVIOUS
<1>3. /\ g \in End /\ g.thrown = TRUE /\ g.ev = b.ev /\ g.out = Front(s.out) /\ g.shown = s.shown
      /\ SamePlace(g, s) /\ SamePeer(g, s)
  BY <1>1, <1>2, FailIs
<1>4. SenderMid(offer, g, rest)
  <2>1. AtFile(offer, g)
    BY <1>1, <1>3 DEF SenderOK, AtFile, SamePlace
  <2>2. SenderOK(offer, g)
    BY <1>1, <1>3, <2>1 DEF SenderOK, SamePlace, SamePeer
  <2> QED BY <1>1, <1>3, <2>2 DEF SenderMid, SamePeer
<1>5. JointMid(offer, s, r, rest, t) => JointMid(offer, g, r, rest, t)
  <2>1. SUFFICES ASSUME JointMid(offer, s, r, rest, t) PROVE JointMid(offer, g, r, rest, t)
    OBVIOUS
  <2>2. PICK last \in Packet : s.out = Append(g.out, last) /\ g.out \in Seq(Packet)
    <3>1. /\ Front(s.out) \in Seq(Packet) /\ s.out = Append(Front(s.out), s.out[Len(s.out)])
          /\ s.out[Len(s.out)] \in Packet
      BY <1>1, FailIs
    <3> QED BY <1>3, <3>1
  <2>3. t \o s.out = Append(t \o g.out, last) /\ t \o g.out \in Seq(Packet)
    BY <2>2, Behind, ConcatProperties
  <2>4. ToReceiver(offer, r, t \o g.out)
    BY <2>1, <2>2, <2>3, ToldLess DEF JointMid
  <2> QED BY <1>3, <2>4 DEF JointMid
<1>6. StuckMid(offer, s, rest) => StuckMid(offer, g, rest)
  BY <1>3 DEF StuckMid
<1> QED BY <1>2, <1>4, <1>5, <1>6 DEF SenderDone

\* The client is gone: what it was at stays in the event.
Closed(g, e) ==
    /\ g.client = "none" /\ g.stream = NoFile /\ ~g.thrown
    /\ g.ev = (IF e.ev \in {"COMPLETE", "ERROR"} THEN e.ev ELSE "CANCELLED") /\ g.shown = g.ev
    /\ g.incoming = e.incoming /\ g.state = e.state /\ g.total = e.total /\ g.totalSize = e.totalSize
    /\ g.currFile = e.currFile /\ g.size = e.size /\ g.pos = e.pos /\ g.totalPos = e.totalPos /\ g.name = e.name
    /\ SameFlags(g, e)
    /\ g.disk = e.disk /\ g.skipped = e.skipped /\ g.window = e.window /\ g.crashed = e.crashed
    /\ g.sheet = (IF g.ev \in {"CANCELLED", "ERROR"} THEN "none" ELSE e.sheet)

LEMMA DisconnectIs ==
  ASSUME NEW e \in End
  PROVE  LET g == DisconnectDirectConn(e) IN g \in End /\ Closed(g, e) /\ g.out = e.out
<1>1. PICK ev \in EventStates : ev = (IF e.ev \in {"COMPLETE", "ERROR"} THEN e.ev ELSE "CANCELLED")
  BY DEF EventStates
<1>2. PICK a : a = [e EXCEPT !.client = "none", !.stream = NoFile, !.thrown = FALSE, !.ev = ev]
  OBVIOUS
<1>3. a \in End
  <2>1. ev \in EventStates /\ e \in End
    BY <1>1
  <2> QED BY <1>2, <2>1 DEF End, NoFile
<1>4. /\ a.client = "none" /\ a.stream = NoFile /\ a.thrown = FALSE /\ a.ev = ev /\ a.out = e.out
      /\ a.incoming = e.incoming /\ a.state = e.state
      /\ a.total = e.total /\ a.totalSize = e.totalSize /\ a.currFile = e.currFile /\ a.size = e.size
      /\ a.pos = e.pos /\ a.totalPos = e.totalPos /\ a.name = e.name
  BY <1>2, <1>3 DEF End
<1>5. SameFlags(a, e) /\ SameWindow(a, e)
  BY <1>2, <1>3 DEF End, SameFlags, SameWindow
<1>6. PICK b : b = Update(a)
  OBVIOUS
<1>7. /\ b \in End /\ b.out = a.out /\ b.thrown = a.thrown /\ b.ev = a.ev /\ b.shown = a.ev
      /\ SamePlace(b, a) /\ SameFlags(b, a) /\ SamePeer(b, a) /\ SameWindow(b, a)
  BY <1>3, <1>6, UpdateIs
<1>8. PICK sheet \in {"none", "conflict"} : sheet = (IF b.shown \in {"CANCELLED", "ERROR"} THEN "none" ELSE b.sheet)
  <2>1. b.sheet \in {"none", "conflict"}
    BY <1>7 DEF End
  <2> QED BY <2>1
<1>9. PICK g : g = CloseSheet(b)
  OBVIOUS
<1>10. g = [b EXCEPT !.sheet = sheet]
  BY <1>8, <1>9 DEF CloseSheet
<1>11. g = DisconnectDirectConn(e)
  <2>1. a = [e EXCEPT !.client = "none", !.stream = NoFile, !.thrown = FALSE,
                      !.ev = IF @ \in {"COMPLETE", "ERROR"} THEN @ ELSE "CANCELLED"]
    BY <1>1, <1>2
  <2> QED BY <1>6, <1>9, <2>1 DEF DisconnectDirectConn
<1>12. g \in End
  BY <1>7, <1>8, <1>10 DEF End
<1>13. /\ g.out = b.out /\ g.thrown = b.thrown /\ g.ev = b.ev /\ g.shown = b.shown /\ g.sheet = sheet
       /\ g.disk = b.disk /\ g.skipped = b.skipped /\ g.window = b.window /\ g.crashed = b.crashed
  BY <1>7, <1>10, <1>12 DEF End
<1>14. SamePlace(g, b) /\ SameFlags(g, b) /\ SamePeer(g, b)
  BY <1>7, <1>10, <1>12 DEF End, SamePlace, SameFlags, SamePeer
<1>15. /\ g.client = "none" /\ g.stream = NoFile /\ ~g.thrown
       /\ g.ev = (IF e.ev \in {"COMPLETE", "ERROR"} THEN e.ev ELSE "CANCELLED") /\ g.shown = g.ev /\ g.out = e.out
       /\ g.incoming = e.incoming /\ g.state = e.state /\ g.total = e.total /\ g.totalSize = e.totalSize
       /\ g.currFile = e.currFile /\ g.size = e.size /\ g.pos = e.pos /\ g.totalPos = e.totalPos /\ g.name = e.name
  BY <1>1, <1>4, <1>7, <1>13, <1>14 DEF SamePlace, SamePeer
<1>16. SameFlags(g, e)
  BY <1>5, <1>7, <1>14 DEF SameFlags
<1>17. /\ g.disk = e.disk /\ g.skipped = e.skipped /\ g.window = e.window /\ g.crashed = e.crashed
       /\ g.sheet = (IF g.ev \in {"CANCELLED", "ERROR"} THEN "none" ELSE e.sheet)
  BY <1>5, <1>7, <1>8, <1>13 DEF SameWindow
<1> QED BY <1>11, <1>12, <1>15, <1>16, <1>17 DEF Closed

LEMMA SettleIs ==
  ASSUME NEW e \in End
  PROVE  LET g == Settle(e) IN
         /\ g \in End /\ g.out = <<>> /\ ~g.thrown
         /\ ~e.thrown => SameEvent(g, e) /\ SamePlace(g, e) /\ SameFlags(g, e) /\ SamePeer(g, e) /\ SameWindow(g, e)
         /\ e.thrown => Closed(g, e)
<1>1. PICK g : g = Settle(e)
  OBVIOUS
<1>2. PICK nothing \in Seq(Packet) : nothing = <<>>
  <2>1. <<>> \in Seq(Packet)
    OBVIOUS
  <2> QED BY <2>1, Zenon
<1>3. CASE ~e.thrown
  <2>1. g = [e EXCEPT !.out = nothing]
    BY <1>1, <1>2, <1>3 DEF Settle
  <2>2. g \in End
    BY <2>1 DEF End
  <2>3. g.out = <<>> /\ ~g.thrown
    BY <1>2, <1>3, <2>1, <2>2 DEF End
  <2>4. SameEvent(g, e) /\ SamePlace(g, e) /\ SameFlags(g, e) /\ SamePeer(g, e) /\ SameWindow(g, e)
    BY <2>1, <2>2 DEF End, SamePlace, SameFlags, SamePeer, SameWindow, SameEvent
  <2> QED BY <1>1, <1>3, <2>2, <2>3, <2>4
<1>4. CASE e.thrown
  <2>1. PICK d : d = DisconnectDirectConn(e)
    OBVIOUS
  <2>2. d \in End /\ Closed(d, e)
    BY <2>1, DisconnectIs
  <2>3. g = [d EXCEPT !.out = nothing]
    BY <1>1, <1>2, <1>4, <2>1 DEF Settle
  <2>4. g \in End
    BY <2>2, <2>3 DEF End
  <2>5. g.out = <<>> /\ g.thrown = d.thrown /\ g.ev = d.ev /\ g.shown = d.shown /\ g.sheet = d.sheet
    BY <1>2, <2>2, <2>3, <2>4 DEF End
  <2>6. SamePlace(g, d) /\ SameFlags(g, d) /\ SamePeer(g, d) /\ SameWindow(g, d)
    BY <2>2, <2>3, <2>4 DEF End, SamePlace, SameFlags, SamePeer, SameWindow
  <2>7. Closed(g, e)
    BY <2>2, <2>5, <2>6 DEF Closed, SamePlace, SameFlags, SamePeer, SameWindow
  <2>8. ~g.thrown
    BY <2>7 DEF Closed
  <2> QED BY <1>1, <1>4, <2>4, <2>5, <2>7, <2>8
<1> QED BY <1>3, <1>4

\* What the callback leaves of the sender: a client that was thrown out is gone.
LEMMA SettleSender ==
  ASSUME NEW s, NEW rest, SenderMid(offer, s, rest)
  PROVE  LET g == Settle(s) IN
         /\ SenderOK(offer, g) /\ ~g.thrown /\ g.out = <<>> /\ g.ev # "WAIT_RESPONS" /\ g.client \in {"none", "connected"}
         /\ g.client = "connected" => ~s.thrown /\ Reads(g) /\ ToSender(offer, g, rest)
         /\ g.ev = "COMPLETE" <=> s.ev = "COMPLETE"
         /\ SenderGoes(offer, s) \/ s.thrown
         /\ g.client = "connected" =>
               /\ \A r, ts, tr : InStep(offer, s, r, ts, tr) => InStep(offer, g, r, ts, tr)
               /\ \A ts : Stuck(offer, s, ts) => Stuck(offer, g, ts)
<1>1. SenderOK(offer, s) /\ s \in End /\ s.client = "connected" /\ s.ev # "WAIT_RESPONS"
  BY DEF SenderMid, SenderOK
<1>2. PICK g : g = Settle(s)
  OBVIOUS
<1>5. /\ g \in End /\ g.out = <<>> /\ ~g.thrown
      /\ ~s.thrown => SameEvent(g, s) /\ SamePlace(g, s) /\ SameFlags(g, s) /\ SamePeer(g, s) /\ SameWindow(g, s)
      /\ s.thrown => Closed(g, s)
  BY <1>1, <1>2, SettleIs
<1>3. CASE ~s.thrown
  <2>1. g \in End /\ g.out = <<>>
    BY <1>5
  <2>3. /\ g.out = <<>> /\ g.ev = s.ev /\ g.shown = s.shown /\ g.thrown = s.thrown
        /\ SamePlace(g, s) /\ SameFlags(g, s) /\ SamePeer(g, s)
    BY <1>1, <1>3, <1>5 DEF SameEvent, End
  <2>4. SenderMid(offer, g, rest)
    <3>1. AtFile(offer, g)
      BY <1>1, <2>3 DEF SenderOK, AtFile, SamePlace
    <3>2. SenderGoes(offer, g)
      BY <1>1, <1>3, <2>3 DEF SenderOK, SenderGoes, SamePlace, SameFlags, SamePeer
    <3>3. SenderOK(offer, g)
      BY <1>1, <2>1, <2>3, <3>1, <3>2 DEF SenderOK, SamePlace, SamePeer
    <3>4. Reads(g)
      BY <1>3, <2>3 DEF SenderMid, Reads, SamePlace, SameFlags
    <3>5. ToSender(offer, g, rest)
      BY <1>3, <2>3 DEF SenderMid, ToSender, Asked, SamePlace, SameFlags, SamePeer
    <3> QED BY <1>1, <2>3, <3>3, <3>4, <3>5 DEF SenderMid, SamePeer
  <2>5. ASSUME NEW r, NEW ts, NEW tr, InStep(offer, s, r, ts, tr) PROVE InStep(offer, g, r, ts, tr)
    <3>1. Greeting(offer, s, r, ts, tr) => Greeting(offer, g, r, ts, tr)
      BY <2>3 DEF Greeting, SamePlace, SamePeer
    <3>2. SameFile(s, r, ts, tr) => SameFile(g, r, ts, tr)
      BY <2>3 DEF SameFile, SamePlace, SameFlags
    <3>3. Ahead(s, r, ts, tr) => Ahead(g, r, ts, tr)
      BY <2>3 DEF Ahead, SamePlace, SameFlags
    <3> QED BY <2>3, <2>5, <3>1, <3>2, <3>3 DEF InStep, SamePeer
  <2>6. \A ts : Stuck(offer, s, ts) => Stuck(offer, g, ts)
    BY <2>3 DEF Stuck, SamePlace, SameFlags
  <2>7. SenderGoes(offer, s) /\ g.client = "connected" /\ g.ev = s.ev /\ ~g.thrown /\ g.ev # "WAIT_RESPONS"
    BY <1>1, <1>3, <2>3 DEF SenderOK, SamePeer
  <2> QED BY <1>2, <1>3, <2>3, <2>4, <2>5, <2>6, <2>7 DEF SenderMid
<1>4. CASE s.thrown
  <2>1. Closed(g, s) /\ g \in End /\ g.out = <<>> /\ ~g.thrown
    BY <1>4, <1>5
  <2>2. AtFile(offer, g)
    BY <1>1, <2>1 DEF SenderOK, AtFile, Closed
  <2>3. SenderOK(offer, g) /\ g.client = "none" /\ g.ev # "WAIT_RESPONS" /\ (g.ev = "COMPLETE" <=> s.ev = "COMPLETE")
    BY <1>1, <2>1, <2>2 DEF SenderOK, Closed
  <2> QED BY <1>2, <1>4, <2>1, <2>3
<1> QED BY <1>3, <1>4

LEMMA SenderReactsKeeps ==
  ASSUME TransferInv, NEW g, NEW rest \in Seq(Packet), NEW up \in BOOLEAN, up <=> network = "up",
         SenderDone(up, g, rcv, rest, toRcv), ~up => rest = <<>>,
         SenderReacts(g), toSnd' = rest, offer' = offer, rcv' = rcv, network' = network, troubles' \in 0..MaxTroubles
  PROVE  TransferInv'
<1>1. SenderMid(offer, g, rest) /\ g \in End /\ g.out \in Seq(Packet) /\ toRcv \in Seq(Packet)
  BY DEF SenderDone, SenderMid, SenderOK, TransferInv, End
<1>2. PICK h : h = Settle(g) /\ snd' = h
  BY DEF SenderReacts
<1>3. /\ SenderOK(offer, h) /\ ~h.thrown /\ h.out = <<>> /\ h.ev # "WAIT_RESPONS" /\ h.client \in {"none", "connected"}
      /\ h.client = "connected" => ~g.thrown /\ Reads(h) /\ ToSender(offer, h, rest)
      /\ h.ev = "COMPLETE" <=> g.ev = "COMPLETE"
      /\ h.client = "connected" =>
            /\ \A r, ts, tr : InStep(offer, g, r, ts, tr) => InStep(offer, h, r, ts, tr)
            /\ \A ts : Stuck(offer, g, ts) => Stuck(offer, h, ts)
  BY <1>1, <1>2, SettleSender
<1>4. PICK tr : tr = toRcv' /\ tr = toRcv \o Delivered(g.out, rcv)
  BY DEF SenderReacts
<1>5. CASE up /\ rcv.client # "none"
  <2>1. tr = toRcv \o g.out /\ tr \in Seq(Packet)
    BY <1>1, <1>4, <1>5, ConcatProperties DEF Delivered
  <2>2. JointMid(offer, g, rcv, rest, toRcv)
    BY <1>5 DEF SenderDone
  <2>3. ToReceiver(offer, rcv, tr) /\ (g.ev = "COMPLETE" /\ rcv.window => Finishing(offer, rcv, tr))
    BY <2>1, <2>2 DEF JointMid
  <2>4. h.client = "connected" => InStep(offer, h, rcv, rest, tr)
    BY <1>3, <2>1, <2>2 DEF JointMid
  <2>5. rcv.ev # "CANCELLED"
    BY <1>5 DEF TransferInv, ReceiverOK
  <2>6. Pair(offer, network = "up", h, rcv, rest, tr)
    BY <1>3, <1>5, <2>3, <2>4, <2>5 DEF Pair
  <2> QED BY <1>2, <1>3, <1>4, <2>1, <2>6 DEF TransferInv
<1>6. CASE ~(up /\ rcv.client # "none")
  <2>1. tr = toRcv
    <3>1. Delivered(g.out, rcv) = <<>>
      BY <1>6 DEF Delivered
    <3> QED BY <1>1, <1>4, <3>1, ConcatEmptySeq
  <2>2. ~up => tr = <<>>
    BY <2>1 DEF TransferInv, Pair
  <2>3. rcv.client # "none" => ToReceiver(offer, rcv, tr)
    BY <2>1 DEF TransferInv, Pair
  <2>4. up /\ rcv.window /\ rcv.ev = "CANCELLED" => StuckMid(offer, g, rest)
    BY DEF SenderDone
  <2>5. up /\ rcv.window /\ rcv.ev = "CANCELLED" => h.ev # "COMPLETE" /\ (h.client = "connected" => Stuck(offer, h, rest))
    BY <1>3, <2>4 DEF StuckMid
  <2>6. Pair(offer, network = "up", h, rcv, rest, tr)
    BY <1>3, <1>6, <2>2, <2>3, <2>5 DEF Pair
  <2> QED BY <1>1, <1>2, <1>3, <1>4, <2>1, <2>6 DEF TransferInv
<1> QED BY <1>5, <1>6

LEMMA SenderCallbackKeeps ==
  ASSUME TransferInv, snd.client = "connected",
         NEW g, NEW rest \in Seq(Packet), NEW up \in BOOLEAN, up <=> network = "up",
         SenderDone(up, g, rcv, rest, toRcv), ~up => rest = <<>>,
         SenderCallback(g), toSnd' = rest, offer' = offer, rcv' = rcv, network' = network
  PROVE  TransferInv'
<1>1. troubles \in 0..MaxTroubles /\ MaxTroubles \in Nat
  BY BoundAssumption DEF TransferInv
<1>2. CASE SenderReacts(g) /\ NoTrouble
  <2>1. troubles' \in 0..MaxTroubles
    BY <1>1, <1>2 DEF NoTrouble
  <2> QED BY <1>2, <2>1, SenderReactsKeeps
<1>3. CASE g.out # <<>> /\ SenderReacts(FailedSend(snd, g)) /\ Trouble
  <2>1. troubles' \in 0..MaxTroubles
    BY <1>1, <1>3 DEF Trouble
  <2>2. PICK f : f = FailedSend(snd, g)
    OBVIOUS
  <2>3. snd \in End /\ snd.ev \in {"SEND", "TIMEOUT"} /\ toRcv \in Seq(Packet)
    BY DEF TransferInv, SenderOK, SenderGoes
  <2>4. SenderDone(up, f, rcv, rest, toRcv)
    BY <1>3, <2>2, <2>3, FailDone
  <2> QED BY <1>3, <2>1, <2>2, <2>4, SenderReactsKeeps
<1> QED BY <1>2, <1>3 DEF SenderCallback

LEMMA SenderWritableKeeps ==
  ASSUME TransferInv, SenderWritable
  PROVE  TransferInv'
<1>1. PICK n \in 0..Len(toSnd) :
        /\ toSnd' = SubSeq(toSnd, n + 1, Len(toSnd))
        /\ \E read \in {Recv(snd, SubSeq(toSnd, 1, n))} :
             \/ \E served \in {IF read.thrown THEN read ELSE SendEvent(read)} :
                   SenderCallback(served)
             \/ AtEnd(rcv) /\ n = Len(toSnd) /\ SenderCallback(Throw(read))
  BY DEF SenderWritable
<1>2. snd.client = "connected" /\ offer' = offer /\ rcv' = rcv /\ network' = network
  BY DEF SenderWritable
<1>3. PICK read : read = Recv(snd, SubSeq(toSnd, 1, n))
  OBVIOUS
<1>4. PICK rest : rest = SubSeq(toSnd, n + 1, Len(toSnd))
  OBVIOUS
<1>5. PICK up \in BOOLEAN : up <=> network = "up"
  <2>1. (network = "up") \in BOOLEAN
    OBVIOUS
  <2> QED BY <2>1, Zenon
<1>6. OfferOK(offer) /\ toSnd \in Seq(Packet) /\ toRcv \in Seq(Packet) /\ ReceiverOK(offer, rcv)
  BY DEF TransferInv
<1>7. rest \in Seq(Packet) /\ (~up => rest = <<>>)
  <2>1. rest \in Seq(Packet) /\ Len(rest) = Len(toSnd) - n /\ Len(toSnd) \in Nat
    BY <1>4, <1>6, RestIs
  <2>2. ~up => toSnd = <<>>
    BY <1>5 DEF TransferInv, Pair
  <2>3. toSnd = <<>> => rest = <<>>
    <3>1. SUFFICES ASSUME toSnd = <<>> PROVE rest = <<>>
      OBVIOUS
    <3>2. n = 0
      <4>1. n \in 0..0
        BY <1>1, <3>1
      <4> QED BY <4>1
    <3>3. Len(rest) = 0
      BY <2>1, <3>1, <3>2
    <3> QED BY <2>1, <3>3
  <2> QED BY <2>1, <2>2, <2>3, Zenon
<1>8. SenderMid(offer, snd, toSnd)
  BY <1>2 DEF TransferInv, Pair, SenderMid
<1>9. up /\ rcv.client # "none" => JointMid(offer, snd, rcv, toSnd, toRcv)
  <2>1. snd.out = <<>> /\ toRcv \o snd.out = toRcv
    BY <1>6, ConcatEmptySeq DEF TransferInv
  <2>2. SenderGoes(offer, snd)
    BY <1>2 DEF TransferInv, SenderOK
  <2>3. snd.ev # "COMPLETE"
    BY <2>2 DEF SenderGoes
  <2> QED BY <1>2, <1>5, <2>1, <2>3 DEF TransferInv, Pair, JointMid
<1>10. up /\ rcv.window /\ rcv.ev = "CANCELLED" => StuckMid(offer, snd, toSnd)
  BY <1>2, <1>5 DEF TransferInv, Pair, StuckMid
<1>11. SenderDone(up, read, rcv, rest, toRcv)
  BY <1>3, <1>4, <1>6, <1>8, <1>9, <1>10, SenderRecv DEF SenderDone
<1>12. CASE SenderCallback(IF read.thrown THEN read ELSE SendEvent(read))
  <2>1. PICK g : g = IF read.thrown THEN read ELSE SendEvent(read)
    OBVIOUS
  <2>2. SenderDone(up, g, rcv, rest, toRcv)
    BY <1>6, <1>7, <1>11, <2>1, ServeDone
  <2>3. SenderCallback(g)
    BY <1>12, <2>1
  <2> QED BY <1>1, <1>2, <1>4, <1>5, <1>7, <2>2, <2>3, SenderCallbackKeeps
<1>13. CASE SenderCallback(Throw(read))
  <2>1. PICK g : g = Throw(read)
    OBVIOUS
  <2>2. SenderDone(up, g, rcv, rest, toRcv)
    BY <1>11, <2>1, ThrowDone
  <2>3. SenderCallback(g)
    BY <1>13, <2>1
  <2> QED BY <1>1, <1>2, <1>4, <1>5, <1>7, <2>2, <2>3, SenderCallbackKeeps
<1> QED BY <1>1, <1>3, <1>12, <1>13, Zenon

-----------------------------------------------------------------------------
(* The other actions of the sender.                                        *)

LEMMA TroublesOK ==
  ASSUME TransferInv, NoTrouble \/ Trouble
  PROVE  troubles' \in 0..MaxTroubles
<1>1. troubles \in 0..MaxTroubles /\ MaxTroubles \in Nat
  BY BoundAssumption DEF TransferInv
<1> QED BY <1>1 DEF NoTrouble, Trouble

LEMMA SenderGoneKeeps ==
  ASSUME TransferInv, NEW h, snd' = h, SenderOK(offer, h), ~h.thrown, h.out = <<>>, h.client = "none",
         h.ev # "WAIT_RESPONS", h.ev = "COMPLETE" => snd.ev = "COMPLETE",
         UNCHANGED <<offer, rcv, toSnd, toRcv, network>>, troubles' \in 0..MaxTroubles
  PROVE  TransferInv'
<1>1. Pair(offer, network = "up", h, rcv, toSnd, toRcv)
  BY DEF TransferInv, Pair
<1> QED BY <1>1 DEF TransferInv

\* What the user's stop makes of either end
LEMMA CancelledIs ==
  ASSUME NEW e \in End
  PROVE  LET g == Cancelled(e) IN
         /\ g \in End /\ g.out = e.out /\ g.ev = "NOT_CONNECTED" /\ g.shown = "NOT_CONNECTED"
         /\ g.incoming = e.incoming /\ g.state = e.state /\ g.total = e.total /\ g.totalSize = e.totalSize
         /\ g.currFile = e.currFile /\ g.size = e.size /\ g.pos = e.pos /\ g.totalPos = e.totalPos /\ g.name = e.name
         /\ SameFlags(g, e)
         /\ g.disk = e.disk /\ g.skipped = e.skipped /\ g.window = e.window /\ g.crashed = e.crashed
         /\ IF e.ev \notin Ended /\ e.client \in {"connecting", "connected"}
            THEN g.client = "none" /\ g.stream = NoFile /\ ~g.thrown
            ELSE g.client = e.client /\ g.stream = e.stream /\ g.thrown = e.thrown
<1>1. PICK c : c = IF e.ev \notin Ended /\ e.client \in {"connecting", "connected"}
                   THEN DisconnectDirectConn(e) ELSE e
  OBVIOUS
<1>2. /\ c \in End /\ c.out = e.out
      /\ c.incoming = e.incoming /\ c.state = e.state /\ c.total = e.total /\ c.totalSize = e.totalSize
      /\ c.currFile = e.currFile /\ c.size = e.size /\ c.pos = e.pos /\ c.totalPos = e.totalPos /\ c.name = e.name
      /\ SameFlags(c, e)
      /\ c.disk = e.disk /\ c.skipped = e.skipped /\ c.window = e.window /\ c.crashed = e.crashed
      /\ IF e.ev \notin Ended /\ e.client \in {"connecting", "connected"}
         THEN c.client = "none" /\ c.stream = NoFile /\ ~c.thrown
         ELSE c.client = e.client /\ c.stream = e.stream /\ c.thrown = e.thrown
  <2>1. CASE e.ev \notin Ended /\ e.client \in {"connecting", "connected"}
    <3>1. c = DisconnectDirectConn(e)
      BY <1>1, <2>1
    <3>2. c \in End /\ Closed(c, e) /\ c.out = e.out
      BY <3>1, DisconnectIs
    <3> QED BY <2>1, <3>2 DEF Closed
  <2>2. CASE ~(e.ev \notin Ended /\ e.client \in {"connecting", "connected"})
    <3>1. c = e
      BY <1>1, <2>2
    <3> QED BY <2>2, <3>1 DEF SameFlags
  <2> QED BY <2>1, <2>2
<1>3. PICK ev \in EventStates : ev = "NOT_CONNECTED"
  BY DEF EventStates
<1>4. PICK d : d = [c EXCEPT !.ev = ev]
  OBVIOUS
<1>5. d \in End /\ d.ev = ev /\ d.out = c.out /\ d.thrown = c.thrown
  BY <1>2, <1>3, <1>4 DEF End
<1>6. SamePlace(d, c) /\ SameFlags(d, c) /\ SamePeer(d, c) /\ SameWindow(d, c)
  BY <1>2, <1>4, <1>5 DEF End, SamePlace, SameFlags, SamePeer, SameWindow
<1>7. PICK g : g = Update(d)
  OBVIOUS
<1>8. /\ g \in End /\ g.out = d.out /\ g.thrown = d.thrown /\ g.ev = d.ev /\ g.shown = d.ev
      /\ SamePlace(g, d) /\ SameFlags(g, d) /\ SamePeer(g, d) /\ SameWindow(g, d)
  BY <1>5, <1>7, UpdateIs
<1>9. g = Cancelled(e)
  BY <1>1, <1>3, <1>4, <1>7 DEF Cancelled
<1>10. /\ g.incoming = e.incoming /\ g.state = e.state /\ g.total = e.total /\ g.totalSize = e.totalSize
       /\ g.client = c.client
  BY <1>2, <1>6, <1>8 DEF SamePeer
<1>11. /\ g.currFile = e.currFile /\ g.size = e.size /\ g.pos = e.pos /\ g.totalPos = e.totalPos /\ g.name = e.name
       /\ g.stream = c.stream
  BY <1>2, <1>6, <1>8 DEF SamePlace
<1>12. SameFlags(g, e)
  BY <1>2, <1>6, <1>8 DEF SameFlags
<1>13. g.disk = e.disk /\ g.skipped = e.skipped /\ g.window = e.window /\ g.crashed = e.crashed
  BY <1>2, <1>6, <1>8 DEF SameWindow
<1>14. g \in End /\ g.out = e.out /\ g.ev = "NOT_CONNECTED" /\ g.shown = "NOT_CONNECTED" /\ g.thrown = c.thrown
  BY <1>2, <1>3, <1>5, <1>8
<1>15. IF e.ev \notin Ended /\ e.client \in {"connecting", "connected"}
       THEN c.client = "none" /\ c.stream = NoFile /\ ~c.thrown
       ELSE c.client = e.client /\ c.stream = e.stream /\ c.thrown = e.thrown
  BY <1>2
<1> QED BY <1>9, <1>10, <1>11, <1>12, <1>13, <1>14, <1>15

LEMMA SenderCancelsKeeps ==
  ASSUME TransferInv, SenderCancels
  PROVE  TransferInv'
<1>1. /\ SenderOK(offer, snd) /\ snd \in End /\ ~snd.thrown /\ snd.out = <<>>
      /\ snd.client \in {"none", "connecting", "connected"}
  BY DEF TransferInv, SenderOK
<1>2. PICK h : h = Cancelled(snd) /\ snd' = h
  BY DEF SenderCancels
<1>3. /\ h \in End /\ h.out = snd.out /\ h.ev = "NOT_CONNECTED"
      /\ h.incoming = snd.incoming /\ h.state = snd.state /\ h.total = snd.total /\ h.totalSize = snd.totalSize
      /\ h.currFile = snd.currFile /\ h.size = snd.size /\ h.pos = snd.pos /\ h.totalPos = snd.totalPos /\ h.name = snd.name
      /\ IF snd.ev \notin Ended /\ snd.client \in {"connecting", "connected"}
         THEN h.client = "none" /\ ~h.thrown
         ELSE h.client = snd.client /\ h.thrown = snd.thrown
  BY <1>1, <1>2, CancelledIs
<1>4. h.client = "none" /\ ~h.thrown
  <2>1. snd.client # "none" => snd.ev \notin Ended
    BY <1>1 DEF SenderOK, SenderGoes, Ended
  <2> QED BY <1>1, <1>3, <2>1
<1>5. AtFile(offer, h)
  BY <1>1, <1>3 DEF SenderOK, AtFile
<1>6. SenderOK(offer, h)
  BY <1>1, <1>3, <1>4, <1>5 DEF SenderOK
<1>7. troubles' \in 0..MaxTroubles
  BY TroublesOK DEF SenderCancels
<1> QED BY <1>1, <1>2, <1>3, <1>4, <1>6, <1>7, SenderGoneKeeps DEF SenderCancels

\* The end that a timeout makes of a sender that is not connected
LEMMA SenderTimesOutKeeps ==
  ASSUME TransferInv, SenderTimesOut
  PROVE  TransferInv'
<1>1. /\ SenderOK(offer, snd) /\ snd \in End /\ ~snd.thrown /\ snd.out = <<>> /\ snd.client # "none"
      /\ SenderGoes(offer, snd) /\ snd.state # "CONNECTED" /\ snd.currFile = 0 /\ Reads(snd)
  BY DEF TransferInv, SenderOK, SenderTimesOut
<1>2. PICK ev \in EventStates : ev = "TIMEOUT"
  BY DEF EventStates
<1>3. PICK h : h = [snd EXCEPT !.ev = ev] /\ snd' = h
  BY <1>2 DEF SenderTimesOut
<1>4. h \in End
  BY <1>1, <1>2, <1>3 DEF End
<1>5. /\ h.ev = "TIMEOUT" /\ h.thrown = snd.thrown /\ h.out = snd.out
      /\ SamePlace(h, snd) /\ SameFlags(h, snd) /\ SamePeer(h, snd)
  BY <1>1, <1>2, <1>3, <1>4 DEF End, SamePlace, SameFlags, SamePeer
<1>6. SenderOK(offer, h)
  <2>1. AtFile(offer, h)
    BY <1>1, <1>5 DEF SenderOK, AtFile, SamePlace
  <2>2. SenderGoes(offer, h)
    BY <1>1, <1>5 DEF SenderGoes, SamePlace, SameFlags, SamePeer
  <2> QED BY <1>1, <1>4, <1>5, <2>1, <2>2 DEF SenderOK, SamePlace, SamePeer
<1>7. Reads(h)
  BY <1>1, <1>5 DEF Reads, SamePlace, SameFlags
<1>8. Pair(offer, network = "up", h, rcv, toSnd, toRcv)
  <2>1. ToSender(offer, snd, toSnd) => ToSender(offer, h, toSnd)
    BY <1>1, <1>5 DEF ToSender, SamePlace, SamePeer
  <2>2. InStep(offer, snd, rcv, toSnd, toRcv) => InStep(offer, h, rcv, toSnd, toRcv)
    BY <1>1, <1>5 DEF InStep, Greeting, SamePlace, SamePeer
  <2>3. Stuck(offer, snd, toSnd) => Stuck(offer, h, toSnd)
    BY <1>5 DEF Stuck, SamePlace, SameFlags
  <2>4. h.client = snd.client
    BY <1>5 DEF SamePeer
  <2> QED BY <1>5, <2>1, <2>2, <2>3, <2>4 DEF TransferInv, Pair
<1>9. troubles' \in 0..MaxTroubles
  BY TroublesOK DEF SenderTimesOut
<1> QED BY <1>1, <1>3, <1>5, <1>6, <1>7, <1>8, <1>9 DEF TransferInv, SenderTimesOut

LEMMA StartSendingKeeps ==
  ASSUME TransferInv, StartSending
  PROVE  TransferInv'
<1>1. /\ SenderOK(offer, snd) /\ snd \in End /\ ~snd.thrown /\ snd.out = <<>>
      /\ snd.ev = "WAIT_RESPONS" /\ snd.client = "none" /\ snd.state = "NOT_CONNECTED"
      /\ ~snd.more /\ ~snd.continue /\ snd.stream = NoFile /\ snd.currFile = 0
      /\ AtFile(offer, snd) /\ snd.name = NoFile /\ snd.pos = 0
  BY DEF TransferInv, SenderOK, StartSending, AtFile, NoFile
<1>2. toSnd = <<>> /\ toRcv = <<>>
  BY <1>1 DEF TransferInv, Pair
<1>3. troubles' \in 0..MaxTroubles
  BY TroublesOK DEF StartSending
<1>4. "SEND" \in EventStates /\ "ERROR" \in EventStates
  BY DEF EventStates
<1>5. CASE snd' = Update([snd EXCEPT !.ev = "ERROR"])
  <2>1. PICK d : d = [snd EXCEPT !.ev = "ERROR"]
    OBVIOUS
  <2>2. d \in End
    BY <1>1, <1>4, <2>1 DEF End
  <2>3. /\ d.ev = "ERROR" /\ d.thrown = snd.thrown /\ d.out = snd.out
        /\ SamePlace(d, snd) /\ SamePeer(d, snd)
    BY <1>1, <2>1, <2>2 DEF End, SamePlace, SamePeer
  <2>4. PICK h : h = Update(d) /\ snd' = h
    BY <1>5, <2>1
  <2>5. /\ h \in End /\ h.out = d.out /\ h.thrown = d.thrown /\ h.ev = d.ev
        /\ SamePlace(h, d) /\ SamePeer(h, d)
    BY <2>2, <2>4, UpdateIs
  <2>6. SamePlace(h, snd) /\ SamePeer(h, snd)
    BY <2>3, <2>5 DEF SamePlace, SamePeer
  <2>7. AtFile(offer, h)
    BY <1>1, <2>6 DEF AtFile, SamePlace
  <2>8. SenderOK(offer, h)
    BY <1>1, <2>3, <2>5, <2>6, <2>7 DEF SenderOK, SamePlace, SamePeer
  <2>9. h.client = "none" /\ ~h.thrown /\ h.out = <<>> /\ h.ev = "ERROR"
    BY <1>1, <2>3, <2>5, <2>6 DEF SamePeer
  <2> QED BY <1>3, <2>4, <2>8, <2>9, SenderGoneKeeps DEF StartSending
<1>6. CASE snd' = Update([snd EXCEPT !.client = "connecting", !.queued = TRUE, !.ev = "SEND",
                                     !.state = "WAITING_FOR_INIT_ACK"])
  <2>1. PICK d : d = [snd EXCEPT !.client = "connecting", !.queued = TRUE, !.ev = "SEND",
                                 !.state = "WAITING_FOR_INIT_ACK"]
    OBVIOUS
  <2>2. d \in End
    BY <1>1, <1>4, <2>1 DEF End
  <2>3. /\ d.ev = "SEND" /\ d.thrown = snd.thrown /\ d.out = snd.out /\ SamePlace(d, snd)
        /\ d.client = "connecting" /\ d.state = "WAITING_FOR_INIT_ACK" /\ d.incoming = snd.incoming
        /\ d.total = snd.total /\ d.totalSize = snd.totalSize
        /\ d.more = snd.more /\ d.continue = snd.continue /\ d.queued = TRUE
    BY <1>1, <2>1, <2>2 DEF End, SamePlace
  <2>4. PICK h : h = Update(d) /\ snd' = h
    BY <1>6, <2>1
  <2>5. /\ h \in End /\ h.out = d.out /\ h.thrown = d.thrown /\ h.ev = d.ev
        /\ SamePlace(h, d) /\ SameFlags(h, d) /\ SamePeer(h, d)
    BY <2>2, <2>4, UpdateIs
  <2>6. /\ h.ev = "SEND" /\ ~h.thrown /\ h.out = <<>> /\ SamePlace(h, snd)
        /\ h.client = "connecting" /\ h.state = "WAITING_FOR_INIT_ACK" /\ h.incoming = snd.incoming
        /\ h.total = snd.total /\ h.totalSize = snd.totalSize
        /\ ~h.more /\ ~h.continue /\ h.queued
    BY <1>1, <2>3, <2>5 DEF SamePlace, SameFlags, SamePeer
  <2>7. AtFile(offer, h)
    BY <1>1, <2>6 DEF AtFile, SamePlace
  <2>8. SenderGoes(offer, h)
    BY <1>1, <2>6 DEF SenderGoes, SamePlace
  <2>9. SenderOK(offer, h)
    BY <1>1, <2>5, <2>6, <2>7, <2>8 DEF SenderOK, SamePlace
  <2>10. Pair(offer, network = "up", h, rcv, toSnd, toRcv)
    <3>1. snd.ev # "COMPLETE"
      BY <1>1
    <3> QED BY <1>1, <1>2, <2>6 DEF TransferInv, Pair
  <2> QED BY <1>3, <2>4, <2>6, <2>9, <2>10 DEF TransferInv, StartSending, Reads
<1> QED BY <1>5, <1>6 DEF StartSending

LEMMA FinishConnectKeeps ==
  ASSUME TransferInv, FinishConnect
  PROVE  TransferInv'
<1>1. /\ SenderOK(offer, snd) /\ snd \in End /\ ~snd.thrown /\ snd.out = <<>> /\ snd.client = "connecting"
      /\ SenderGoes(offer, snd) /\ AtFile(offer, snd) /\ snd.state = "WAITING_FOR_INIT_ACK" /\ snd.currFile = 0
      /\ ~snd.more /\ ~snd.continue /\ snd.ev \in {"SEND", "TIMEOUT"}
  BY DEF TransferInv, SenderOK, SenderGoes, FinishConnect
<1>2. toSnd = <<>> /\ toRcv = <<>> /\ OfferOK(offer)
  BY <1>1 DEF TransferInv, Pair
<1>3. troubles' \in 0..MaxTroubles
  BY TroublesOK DEF FinishConnect
<1>4. Simple("INIT") \in Packet
  BY DEF Simple, Packet
<1>5. CASE /\ rcv.client = "listening" /\ network = "up"
           /\ LET up == SendInitPacket([snd EXCEPT !.client = "connected"]) IN
              snd' = Settle(up) /\ toRcv' = up.out
  <2>1. PICK d : d = [snd EXCEPT !.client = "connected"]
    OBVIOUS
  <2>2. d \in End
    BY <1>1, <2>1 DEF End
  <2>3. /\ d.ev = snd.ev /\ d.thrown = snd.thrown /\ d.out = snd.out /\ SamePlace(d, snd) /\ SameFlags(d, snd)
        /\ d.client = "connected" /\ d.state = snd.state /\ d.incoming = snd.incoming
        /\ d.total = snd.total /\ d.totalSize = snd.totalSize
    BY <1>1, <2>1, <2>2 DEF End, SamePlace, SameFlags
  <2>4. PICK g : g = Send(d, Simple("INIT"))
    OBVIOUS
  <2>5. snd' = Settle(g) /\ toRcv' = g.out
    BY <1>5, <2>1, <2>4 DEF SendInitPacket
  <2>6. /\ g \in End /\ g.out = Append(d.out, Simple("INIT")) /\ g.thrown = d.thrown
        /\ SamePlace(g, d) /\ SameFlags(g, d) /\ SamePeer(g, d) /\ SameEvent(g, d)
    BY <1>4, <2>2, <2>4, SendIs
  <2>7. /\ g.ev = snd.ev /\ ~g.thrown /\ SamePlace(g, snd) /\ SameFlags(g, snd)
        /\ g.client = "connected" /\ g.state = "WAITING_FOR_INIT_ACK" /\ g.incoming = snd.incoming
        /\ g.total = snd.total /\ g.totalSize = snd.totalSize
    BY <1>1, <2>3, <2>6 DEF SamePlace, SameFlags, SamePeer, SameEvent
  <2>8. g.out = <<Simple("INIT")>> /\ g.out \in Seq(Packet)
    <3>1. Append(<<>>, Simple("INIT")) = <<Simple("INIT")>>
      OBVIOUS
    <3>2. g.out = Append(<<>>, Simple("INIT"))
      BY <1>1, <2>3, <2>6
    <3>3. g.out \in Seq(Packet)
      BY <2>6 DEF End
    <3> QED BY <3>1, <3>2, <3>3
  <2>9. SenderMid(offer, g, toSnd)
    <3>1. AtFile(offer, g)
      BY <1>1, <2>7 DEF AtFile, SamePlace
    <3>2. SenderGoes(offer, g)
      BY <1>1, <2>7 DEF SenderGoes, SamePlace, SameFlags
    <3>3. SenderOK(offer, g)
      BY <1>1, <2>6, <2>7, <3>1, <3>2 DEF SenderOK, SamePlace, SameFlags
    <3>4. Reads(g) /\ ToSender(offer, g, toSnd)
      BY <1>1, <1>2, <2>7 DEF Reads, ToSender, SameFlags
    <3> QED BY <2>7, <3>3, <3>4 DEF SenderMid
  <2>10. rcv.state = "NOT_CONNECTED" /\ rcv.ev # "CANCELLED" /\ rcv.client # "none"
    BY <1>5 DEF TransferInv, ReceiverOK
  <2>11. toRcv \o g.out = g.out
    BY <1>2, <2>8, ConcatEmptySeq
  <2>12. JointMid(offer, g, rcv, toSnd, toRcv)
    <3>1. ToReceiver(offer, rcv, g.out)
      BY <2>8, <2>10 DEF ToReceiver
    <3>2. InStep(offer, g, rcv, toSnd, g.out)
      BY <1>2, <2>7, <2>8, <2>10 DEF InStep, Greeting
    <3> QED BY <1>1, <2>7, <2>11, <3>1, <3>2 DEF JointMid
  <2>13. PICK up \in BOOLEAN : up <=> network = "up"
    <3>1. (network = "up") \in BOOLEAN
      OBVIOUS
    <3> QED BY <3>1, Zenon
  <2>14. SenderDone(up, g, rcv, toSnd, toRcv)
    BY <2>9, <2>10, <2>12 DEF SenderDone
  <2>15. SenderReacts(g)
    <3>1. Delivered(g.out, rcv) = g.out
      BY <1>5 DEF Delivered
    <3> QED BY <2>5, <2>11, <3>1 DEF SenderReacts
  <2>16. toSnd \in Seq(Packet) /\ toSnd' = toSnd
    BY DEF TransferInv, FinishConnect
  <2> QED BY <1>2, <1>3, <2>13, <2>14, <2>15, <2>16, SenderReactsKeeps DEF FinishConnect
<1>6. CASE snd' = Settle(Throw(snd)) /\ UNCHANGED toRcv
  <2>1. PICK d : d = Throw(snd)
    OBVIOUS
  <2>2. /\ d \in End /\ d.out = snd.out /\ d.thrown = TRUE
        /\ SamePlace(d, snd) /\ SameFlags(d, snd) /\ SamePeer(d, snd) /\ SameEvent(d, snd)
    BY <1>1, <2>1, ThrowIs
  <2>3. PICK h : h = Settle(d) /\ snd' = h
    BY <1>6, <2>1
  <2>4. h \in End /\ h.out = <<>> /\ ~h.thrown /\ Closed(h, d)
    BY <2>2, <2>3, SettleIs
  <2>5. /\ h.client = "none" /\ h.ev = "CANCELLED" /\ h.incoming = snd.incoming /\ h.state = snd.state
        /\ h.total = snd.total /\ h.totalSize = snd.totalSize
        /\ h.currFile = snd.currFile /\ h.size = snd.size /\ h.pos = snd.pos /\ h.totalPos = snd.totalPos /\ h.name = snd.name
    BY <1>1, <2>2, <2>4 DEF Closed, SamePlace, SamePeer, SameEvent
  <2>6. AtFile(offer, h)
    BY <1>1, <2>5 DEF AtFile
  <2>7. SenderOK(offer, h)
    BY <1>1, <2>4, <2>5, <2>6 DEF SenderOK
  <2> QED BY <1>3, <1>6, <2>3, <2>4, <2>5, <2>7, SenderGoneKeeps DEF FinishConnect
<1> QED BY <1>5, <1>6 DEF FinishConnect

\* A client that is removed without a word
LEMMA RemovedIs ==
  ASSUME NEW e \in End
  PROVE  LET g == DirectConnsRemoved(e) IN
         /\ g \in End /\ g.out = e.out /\ g.thrown = e.thrown /\ SameEvent(g, e)
         /\ g.client = "none" /\ g.stream = NoFile
         /\ g.incoming = e.incoming /\ g.state = e.state /\ g.total = e.total /\ g.totalSize = e.totalSize
         /\ g.currFile = e.currFile /\ g.size = e.size /\ g.pos = e.pos /\ g.totalPos = e.totalPos /\ g.name = e.name
         /\ SameFlags(g, e) /\ g.disk = e.disk /\ g.skipped = e.skipped /\ g.window = e.window /\ g.sheet = e.sheet
<1>1. PICK listened \in BOOLEAN : listened = (e.client = "listening")
  <2>1. (e.client = "listening") \in BOOLEAN
    OBVIOUS
  <2> QED BY <2>1, Zenon
<1>2. PICK g : g = [e EXCEPT !.client = "none", !.stream = NoFile, !.crashed = listened]
  OBVIOUS
<1>3. g = DirectConnsRemoved(e)
  BY <1>1, <1>2 DEF DirectConnsRemoved
<1>4. g \in End
  BY <1>1, <1>2 DEF End, NoFile
<1>5. /\ g.out = e.out /\ g.thrown = e.thrown /\ SameEvent(g, e) /\ g.client = "none" /\ g.stream = NoFile
      /\ SameFlags(g, e) /\ g.disk = e.disk /\ g.skipped = e.skipped /\ g.window = e.window /\ g.sheet = e.sheet
  BY <1>2, <1>4 DEF End, SameEvent, SameFlags
<1>6. /\ g.incoming = e.incoming /\ g.state = e.state /\ g.total = e.total /\ g.totalSize = e.totalSize
      /\ g.currFile = e.currFile /\ g.size = e.size /\ g.pos = e.pos /\ g.totalPos = e.totalPos /\ g.name = e.name
  BY <1>2, <1>4 DEF End
<1> QED BY <1>3, <1>4, <1>5, <1>6

LEMMA SenderSessionEndsKeeps ==
  ASSUME TransferInv, snd.client # "none", snd' = DirectConnsRemoved(snd),
         UNCHANGED <<offer, rcv, toSnd, toRcv, network>>, Trouble
  PROVE  TransferInv'
<1>1. /\ SenderOK(offer, snd) /\ snd \in End /\ ~snd.thrown /\ snd.out = <<>>
      /\ AtFile(offer, snd) /\ snd.ev \in {"SEND", "TIMEOUT"}
  BY DEF TransferInv, SenderOK, SenderGoes
<1>2. PICK h : h = DirectConnsRemoved(snd) /\ snd' = h
  OBVIOUS
<1>3. /\ h \in End /\ h.out = snd.out /\ h.thrown = snd.thrown /\ h.ev = snd.ev /\ h.client = "none"
      /\ h.incoming = snd.incoming /\ h.state = snd.state /\ h.total = snd.total /\ h.totalSize = snd.totalSize
      /\ h.currFile = snd.currFile /\ h.size = snd.size /\ h.pos = snd.pos /\ h.totalPos = snd.totalPos /\ h.name = snd.name
  BY <1>1, <1>2, RemovedIs DEF SameEvent
<1>4. AtFile(offer, h)
  BY <1>1, <1>3 DEF AtFile
<1>5. SenderOK(offer, h)
  BY <1>1, <1>3, <1>4 DEF SenderOK
<1>6. troubles' \in 0..MaxTroubles
  BY TroublesOK
<1> QED BY <1>1, <1>2, <1>3, <1>5, <1>6, SenderGoneKeeps

\* Nothing on the way is what any end may be told.
LEMMA NetworkBreaksKeeps ==
  ASSUME TransferInv, NetworkBreaks
  PROVE  TransferInv'
<1>1. troubles' \in 0..MaxTroubles
  BY TroublesOK DEF NetworkBreaks
<1>2. PICK none \in Seq(Packet) : none = <<>>
  <2>1. <<>> \in Seq(Packet)
    OBVIOUS
  <2> QED BY <2>1, Zenon
<1>3. DOMAIN none = {}
  BY <1>2
<1>4. ToSender(offer, snd, none)
  BY <1>2, <1>3 DEF ToSender, Asked
<1>5. ToReceiver(offer, rcv, none)
  BY <1>2, <1>3 DEF ToReceiver, Continues
<1>6. toSnd' = none /\ toRcv' = none /\ network' = "broken" /\ snd' = snd /\ rcv' = rcv /\ offer' = offer
  BY <1>2 DEF NetworkBreaks
<1>7. snd.client = "connecting" \/ snd.ev = "WAIT_RESPONS" => rcv.client # "connected"
  BY DEF TransferInv, Pair
<1>8. Pair(offer, network' = "up", snd, rcv, none, none)
  BY <1>2, <1>4, <1>5, <1>6, <1>7 DEF Pair
<1> QED BY <1>1, <1>6, <1>8 DEF TransferInv

-----------------------------------------------------------------------------
(* The receiver: the actions without a packet.                             *)

\* A receiver whose client is gone
LEMMA ReceiverGoneKeeps ==
  ASSUME TransferInv, NEW h, rcv' = h, ReceiverOK(offer, h), ~h.thrown, h.out = <<>>, h.client = "none",
         network = "up" /\ h.window /\ h.ev = "CANCELLED" =>
            snd.ev # "COMPLETE" /\ (snd.client = "connected" => Stuck(offer, snd, toSnd)),
         UNCHANGED <<offer, snd, toSnd, toRcv, network>>, troubles' \in 0..MaxTroubles
  PROVE  TransferInv'
<1>1. Pair(offer, network = "up", snd, h, toSnd, toRcv)
  BY DEF TransferInv, Pair
<1> QED BY <1>1 DEF TransferInv

\* What ReceiverOK says depends on nothing else.
SameReceiver(g, e) ==
    /\ g \in End /\ SamePlace(g, e) /\ SameFlags(g, e) /\ SamePeer(g, e)
    /\ g.disk = e.disk /\ g.skipped = e.skipped /\ g.window = e.window
    /\ g.ev = e.ev /\ (g.sheet = e.sheet \/ g.sheet = "none")

LEMMA SameReceiverKeeps ==
  ASSUME NEW o, NEW e, NEW g, ReceiverOK(o, e), SameReceiver(g, e), e.thrown => g.thrown
  PROVE  /\ ReceiverOK(o, g)
         /\ \A tr : ToReceiver(o, e, tr) => ToReceiver(o, g, tr)
         /\ \A s, ts, tr : InStep(o, s, e, ts, tr) => InStep(o, s, g, ts, tr)
         /\ \A tr : Finishing(o, e, tr) => Finishing(o, g, tr)
<1>1. AtFileReceived(o, g)
  <2>1. AtFileReceived(o, e)
    BY DEF ReceiverOK
  <2>2. FilesBefore(o, g) /\ DiskOK(o, g)
    BY <2>1 DEF AtFileReceived, FilesBefore, DiskOK, Stored, SameReceiver, SamePlace
  <2>3. /\ g.currFile = e.currFile /\ g.size = e.size /\ g.pos = e.pos /\ g.totalPos = e.totalPos
        /\ g.name = e.name /\ g.stream = e.stream /\ g.wanting = e.wanting /\ g.total = e.total /\ g.totalSize = e.totalSize
        /\ g.disk = e.disk /\ g.skipped = e.skipped /\ (g.sheet = e.sheet \/ g.sheet = "none")
    BY DEF SameReceiver, SamePlace, SameFlags, SamePeer
  <2> QED BY <2>1, <2>2, <2>3 DEF AtFileReceived
<1>2. StreamOK(e) => StreamOK(g)
  BY DEF StreamOK, SameReceiver, SamePlace, SameFlags
<1>3. AllStored(o, e) => AllStored(o, g)
  BY DEF AllStored, Stored, SameReceiver
<1>4. ReceiverOK(o, g)
  BY <1>1, <1>2, <1>3 DEF ReceiverOK, SameReceiver, SameFlags, SamePeer
<1>5. ASSUME NEW tr, ToReceiver(o, e, tr) PROVE ToReceiver(o, g, tr)
  <2>1. Continues(o, e, tr) => Continues(o, g, tr)
    BY DEF Continues, Data, NextName, FileOver, SameReceiver, SamePlace
  <2> QED BY <1>5, <2>1 DEF ToReceiver, SameReceiver, SamePeer
<1>6. ASSUME NEW s, NEW ts, NEW tr, InStep(o, s, e, ts, tr) PROVE InStep(o, s, g, ts, tr)
  <2>1. Greeting(o, s, e, ts, tr) => Greeting(o, s, g, ts, tr)
    BY DEF Greeting, SameReceiver, SamePlace, SamePeer
  <2>2. SameFile(s, e, ts, tr) => SameFile(s, g, ts, tr)
    BY DEF SameFile, SameReceiver, SamePlace, SameFlags
  <2>3. Ahead(s, e, ts, tr) => Ahead(s, g, ts, tr)
    BY DEF Ahead, SameReceiver, SamePlace, SameFlags
  <2> QED BY <1>6, <2>1, <2>2, <2>3 DEF InStep, SameReceiver, SamePeer
<1>7. \A tr : Finishing(o, e, tr) => Finishing(o, g, tr)
  BY DEF Finishing, SameReceiver, SamePlace, SamePeer
<1> QED BY <1>4, <1>5, <1>6, <1>7

LEMMA ReceiverSessionEndsKeeps ==
  ASSUME TransferInv, rcv.client # "none", rcv' = DirectConnsRemoved(rcv),
         UNCHANGED <<offer, snd, toSnd, toRcv, network>>, Trouble
  PROVE  TransferInv'
<1>1. ReceiverOK(offer, rcv) /\ rcv \in End /\ ~rcv.thrown /\ rcv.out = <<>> /\ rcv.ev # "CANCELLED"
  BY DEF TransferInv, ReceiverOK
<1>2. PICK h : h = DirectConnsRemoved(rcv) /\ rcv' = h
  OBVIOUS
<1>3. /\ h \in End /\ h.out = rcv.out /\ h.thrown = rcv.thrown /\ SameEvent(h, rcv)
      /\ h.client = "none" /\ h.stream = NoFile
      /\ h.incoming = rcv.incoming /\ h.state = rcv.state /\ h.total = rcv.total /\ h.totalSize = rcv.totalSize
      /\ h.currFile = rcv.currFile /\ h.size = rcv.size /\ h.pos = rcv.pos /\ h.totalPos = rcv.totalPos /\ h.name = rcv.name
      /\ SameFlags(h, rcv) /\ h.disk = rcv.disk /\ h.skipped = rcv.skipped /\ h.window = rcv.window /\ h.sheet = rcv.sheet
  BY <1>1, <1>2, RemovedIs
<1>4. ReceiverOK(offer, h)
  <2>1. AtFileReceived(offer, h)
    <3>1. FilesBefore(offer, h) /\ DiskOK(offer, h)
      BY <1>1, <1>3 DEF ReceiverOK, AtFileReceived, FilesBefore, DiskOK, Stored
    <3> QED BY <1>1, <1>3, <3>1 DEF ReceiverOK, AtFileReceived, SameFlags
  <2>2. AllStored(offer, rcv) => AllStored(offer, h)
    BY <1>3 DEF AllStored, Stored
  <2> QED BY <1>1, <1>3, <2>1, <2>2 DEF ReceiverOK, SameFlags, SameEvent
<1>5. troubles' \in 0..MaxTroubles
  BY TroublesOK
<1> QED BY <1>1, <1>2, <1>3, <1>4, <1>5, ReceiverGoneKeeps DEF SameEvent

LEMMA AcceptConnectionKeeps ==
  ASSUME TransferInv, AcceptConnection
  PROVE  TransferInv'
<1>1. /\ ReceiverOK(offer, rcv) /\ rcv \in End /\ ~rcv.thrown /\ rcv.out = <<>> /\ rcv.client = "listening"
      /\ rcv.state = "NOT_CONNECTED" /\ rcv.ev # "CANCELLED" /\ rcv.total = 0 /\ StreamOK(rcv)
      /\ AtFileReceived(offer, rcv)
  BY DEF TransferInv, ReceiverOK, AcceptConnection
<1>2. PICK h : h = [rcv EXCEPT !.client = "connected", !.state = "WAITING_FOR_INIT"] /\ rcv' = h
  BY DEF AcceptConnection
<1>3. h \in End
  BY <1>1, <1>2 DEF End
<1>4. /\ h.client = "connected" /\ h.state = "WAITING_FOR_INIT" /\ h.incoming = rcv.incoming
      /\ h.total = rcv.total /\ h.totalSize = rcv.totalSize /\ h.out = rcv.out /\ h.thrown = rcv.thrown
      /\ SamePlace(h, rcv) /\ SameFlags(h, rcv) /\ SameWindow(h, rcv) /\ SameEvent(h, rcv)
  BY <1>1, <1>2, <1>3 DEF End, SamePlace, SameFlags, SameWindow, SameEvent
<1>5. ReceiverOK(offer, h)
  <2>1. AtFileReceived(offer, h)
    <3>1. FilesBefore(offer, h) /\ DiskOK(offer, h)
      BY <1>1, <1>4 DEF AtFileReceived, FilesBefore, DiskOK, Stored, SamePlace, SameWindow
    <3> QED BY <1>1, <1>4, <3>1 DEF AtFileReceived, SamePlace, SameFlags, SameWindow
  <2>2. StreamOK(h)
    BY <1>1, <1>4 DEF StreamOK, SamePlace, SameFlags, SameWindow
  <2>3. AllStored(offer, rcv) => AllStored(offer, h)
    BY <1>4 DEF AllStored, Stored, SameWindow
  <2> QED BY <1>1, <1>3, <1>4, <2>1, <2>2, <2>3 DEF ReceiverOK, SameFlags, SameEvent, SameWindow
<1>6. Pair(offer, network = "up", snd, h, toSnd, toRcv)
  <2>1. ToReceiver(offer, rcv, toRcv) => ToReceiver(offer, h, toRcv)
    BY <1>1, <1>4 DEF ToReceiver
  <2>2. InStep(offer, snd, rcv, toSnd, toRcv) => InStep(offer, snd, h, toSnd, toRcv)
    BY <1>1, <1>4 DEF InStep, Greeting
  <2>3. Finishing(offer, rcv, toRcv) => Finishing(offer, h, toRcv)
    BY <1>1, <1>4 DEF Finishing, SameEvent
  <2>4. toRcv # <<>> /\ h.client # "none" /\ h.ev # "CANCELLED" /\ h.window = rcv.window
    BY <1>1, <1>4 DEF AcceptConnection, SameEvent, SameWindow
  <2> QED BY <1>1, <2>1, <2>2, <2>3, <2>4 DEF TransferInv, Pair
<1>7. troubles' \in 0..MaxTroubles
  BY TroublesOK DEF AcceptConnection
<1> QED BY <1>1, <1>2, <1>4, <1>5, <1>6, <1>7 DEF TransferInv, AcceptConnection

LEMMA ReceiverTimesOutKeeps ==
  ASSUME TransferInv, ReceiverTimesOut
  PROVE  TransferInv'
<1>1. /\ ReceiverOK(offer, rcv) /\ rcv \in End /\ ~rcv.thrown /\ rcv.out = <<>> /\ rcv.client # "none"
      /\ rcv.state # "CONNECTED" /\ rcv.ev # "CANCELLED" /\ rcv.total = 0 /\ AtFileReceived(offer, rcv)
      /\ OfferOK(offer)
  BY DEF TransferInv, ReceiverOK, ReceiverTimesOut
<1>2. Number(offer) \notin rcv.skipped /\ rcv.ev # "COMPLETE"
  <2>1. rcv.currFile = 0 /\ rcv.skipped \subseteq 1 .. rcv.currFile /\ Number(offer) \in Nat \ {0}
    BY <1>1 DEF AtFileReceived, OfferOK
  <2>2. Number(offer) \notin rcv.skipped
    BY <2>1
  <2> QED BY <1>1, <2>2 DEF ReceiverOK
<1>3. PICK ev \in EventStates : ev = "TIMEOUT"
  BY DEF EventStates
<1>4. PICK d : d = [rcv EXCEPT !.ev = ev]
  OBVIOUS
<1>5. d \in End
  BY <1>1, <1>3, <1>4 DEF End
<1>6. /\ d.ev = "TIMEOUT" /\ d.thrown = rcv.thrown /\ d.out = rcv.out
      /\ SamePlace(d, rcv) /\ SameFlags(d, rcv) /\ SamePeer(d, rcv) /\ SameWindow(d, rcv)
  BY <1>1, <1>3, <1>4, <1>5 DEF End, SamePlace, SameFlags, SamePeer, SameWindow
<1>7. PICK h : h = (IF rcv.client = "connected" THEN Update(d) ELSE d) /\ rcv' = h
  BY <1>3, <1>4 DEF ReceiverTimesOut
<1>8. /\ h \in End /\ h.ev = "TIMEOUT" /\ h.thrown = rcv.thrown /\ h.out = rcv.out
      /\ SamePlace(h, rcv) /\ SameFlags(h, rcv) /\ SamePeer(h, rcv) /\ SameWindow(h, rcv)
  <2>1. CASE h = d
    BY <1>5, <1>6, <2>1
  <2>2. CASE h = Update(d)
    <3>1. /\ h \in End /\ h.out = d.out /\ h.thrown = d.thrown /\ h.ev = d.ev
          /\ SamePlace(h, d) /\ SameFlags(h, d) /\ SamePeer(h, d) /\ SameWindow(h, d)
      BY <1>5, <2>2, UpdateIs
    <3> QED BY <1>6, <3>1 DEF SamePlace, SameFlags, SamePeer, SameWindow
  <2> QED BY <1>7, <2>1, <2>2
<1>9. ReceiverOK(offer, h)
  <2>1. AtFileReceived(offer, h)
    <3>1. FilesBefore(offer, h) /\ DiskOK(offer, h)
      BY <1>1, <1>8 DEF AtFileReceived, FilesBefore, DiskOK, Stored, SamePlace, SameWindow
    <3> QED BY <1>1, <1>8, <3>1 DEF AtFileReceived, SamePlace, SameFlags, SamePeer, SameWindow
  <2>2. StreamOK(h)
    BY <1>1, <1>8 DEF ReceiverOK, StreamOK, SamePlace, SameFlags, SameWindow
  <2> QED BY <1>1, <1>2, <1>8, <2>1, <2>2 DEF ReceiverOK, SameFlags, SamePeer, SameWindow
<1>10. Pair(offer, network = "up", snd, h, toSnd, toRcv)
  <2>1. ToReceiver(offer, rcv, toRcv) => ToReceiver(offer, h, toRcv)
    BY <1>1, <1>8 DEF ToReceiver, SamePeer
  <2>2. InStep(offer, snd, rcv, toSnd, toRcv) => InStep(offer, snd, h, toSnd, toRcv)
    BY <1>1, <1>8 DEF InStep, Greeting, SamePeer, SamePlace
  <2>3. ~Finishing(offer, rcv, toRcv)
    BY <1>1, <1>2 DEF Finishing
  <2>4. h.client = rcv.client /\ h.ev # "CANCELLED" /\ h.window = rcv.window
    BY <1>8 DEF SamePeer, SameWindow
  <2> QED BY <1>1, <2>1, <2>2, <2>3, <2>4 DEF TransferInv, Pair
<1>11. troubles' \in 0..MaxTroubles
  BY TroublesOK DEF ReceiverTimesOut
<1> QED BY <1>1, <1>7, <1>8, <1>9, <1>10, <1>11 DEF TransferInv, ReceiverTimesOut

\* What AtFileReceived and AllStored say depends on nothing else.
SameFiles(g, e) ==
    /\ g.currFile = e.currFile /\ g.size = e.size /\ g.pos = e.pos /\ g.totalPos = e.totalPos /\ g.name = e.name
    /\ g.total = e.total /\ g.totalSize = e.totalSize /\ g.wanting = e.wanting
    /\ g.disk = e.disk /\ g.skipped = e.skipped
    /\ g.stream = e.stream \/ g.stream = NoFile
    /\ g.sheet = e.sheet \/ g.sheet = "none"

LEMMA SameFilesKeeps ==
  ASSUME NEW o, NEW e, NEW g, SameFiles(g, e)
  PROVE  /\ AtFileReceived(o, e) => AtFileReceived(o, g)
         /\ AllStored(o, e) => AllStored(o, g)
<1>1. FilesBefore(o, e) => FilesBefore(o, g)
  BY DEF FilesBefore, Stored, SameFiles
<1>2. DiskOK(o, e) => DiskOK(o, g)
  BY DEF DiskOK, SameFiles
<1>3. AllStored(o, e) => AllStored(o, g)
  BY DEF AllStored, Stored, SameFiles
<1> QED BY <1>1, <1>2, <1>3 DEF AtFileReceived, SameFiles

LEMMA SameToPeer ==
  ASSUME NEW o, NEW e, NEW g, SamePlace(g, e), SameFlags(g, e), SamePeer(g, e), g.skipped = e.skipped
  PROVE  /\ \A tr : ToReceiver(o, e, tr) => ToReceiver(o, g, tr)
         /\ \A s, ts, tr : InStep(o, s, e, ts, tr) => InStep(o, s, g, ts, tr)
<1>1. ASSUME NEW tr, ToReceiver(o, e, tr) PROVE ToReceiver(o, g, tr)
  <2>1. Continues(o, e, tr) => Continues(o, g, tr)
    BY DEF Continues, Data, NextName, FileOver, SamePlace
  <2> QED BY <1>1, <2>1 DEF ToReceiver, SamePeer
<1>2. ASSUME NEW s, NEW ts, NEW tr, InStep(o, s, e, ts, tr) PROVE InStep(o, s, g, ts, tr)
  <2>1. Greeting(o, s, e, ts, tr) => Greeting(o, s, g, ts, tr)
    BY DEF Greeting, SamePlace, SamePeer
  <2>2. SameFile(s, e, ts, tr) => SameFile(s, g, ts, tr)
    BY DEF SameFile, SamePlace, SameFlags
  <2>3. Ahead(s, e, ts, tr) => Ahead(s, g, ts, tr)
    BY DEF Ahead, SamePlace, SameFlags
  <2> QED BY <1>2, <2>1, <2>2, <2>3 DEF InStep, SamePeer
<1> QED BY <1>1, <1>2

LEMMA ReceiverCancelsKeeps ==
  ASSUME TransferInv, ReceiverCancels
  PROVE  TransferInv'
<1>1. /\ ReceiverOK(offer, rcv) /\ rcv \in End /\ ~rcv.thrown /\ rcv.out = <<>> /\ AtFileReceived(offer, rcv)
      /\ rcv.client \in {"none", "listening", "connected"}
      /\ rcv.client # "none" => StreamOK(rcv)
  BY DEF TransferInv, ReceiverOK
<1>2. PICK c : c = Cancelled(rcv)
  OBVIOUS
<1>3. /\ c \in End /\ c.out = rcv.out /\ c.ev = "NOT_CONNECTED"
      /\ c.incoming = rcv.incoming /\ c.state = rcv.state /\ c.total = rcv.total /\ c.totalSize = rcv.totalSize
      /\ c.currFile = rcv.currFile /\ c.size = rcv.size /\ c.pos = rcv.pos /\ c.totalPos = rcv.totalPos /\ c.name = rcv.name
      /\ SameFlags(c, rcv) /\ c.disk = rcv.disk /\ c.skipped = rcv.skipped
      /\ IF rcv.ev \notin Ended /\ rcv.client \in {"connecting", "connected"}
         THEN c.client = "none" /\ c.stream = NoFile /\ ~c.thrown
         ELSE c.client = rcv.client /\ c.stream = rcv.stream /\ c.thrown = rcv.thrown
  BY <1>1, <1>2, CancelledIs
<1>4. PICK h : h = [c EXCEPT !.window = FALSE, !.sheet = "none"] /\ rcv' = h
  BY <1>2 DEF ReceiverCancels
<1>5. h \in End
  BY <1>3, <1>4 DEF End
<1>6. /\ h.ev = "NOT_CONNECTED" /\ ~h.window /\ h.sheet = "none" /\ h.out = <<>> /\ h.thrown = c.thrown
      /\ h.disk = rcv.disk /\ h.skipped = rcv.skipped
      /\ SamePlace(h, c) /\ SameFlags(h, c) /\ SamePeer(h, c)
  BY <1>1, <1>3, <1>4, <1>5 DEF End, SamePlace, SameFlags, SamePeer
<1>7. SameFiles(h, rcv) /\ ~h.thrown /\ h.client \in {"none", rcv.client} /\ h.state = rcv.state /\ h.incoming = rcv.incoming
  BY <1>1, <1>3, <1>6 DEF SameFiles, SamePlace, SameFlags, SamePeer
<1>8. h.client # "none" => SamePlace(h, rcv) /\ SameFlags(h, rcv) /\ SamePeer(h, rcv)
  BY <1>1, <1>3, <1>6 DEF SamePlace, SameFlags, SamePeer
<1>9. ReceiverOK(offer, h)
  <2>1. AtFileReceived(offer, h)
    BY <1>1, <1>7, SameFilesKeeps
  <2>2. h.client # "none" => StreamOK(h)
    BY <1>1, <1>6, <1>7, <1>8 DEF StreamOK, SamePlace, SameFlags
  <2>3. ~h.continue /\ ~h.more /\ ~h.queued
    BY <1>1, <1>3, <1>6 DEF ReceiverOK, SameFlags
  <2> QED BY <1>1, <1>5, <1>6, <1>7, <2>1, <2>2, <2>3 DEF ReceiverOK, SameFiles
<1>10. Pair(offer, network = "up", snd, h, toSnd, toRcv)
  <2>1. h.client # "none" =>
           /\ \A tr : ToReceiver(offer, rcv, tr) => ToReceiver(offer, h, tr)
           /\ \A s, ts, tr : InStep(offer, s, rcv, ts, tr) => InStep(offer, s, h, ts, tr)
    BY <1>6, <1>8, SameToPeer
  <2>2. h.client = "connected" => rcv.client = "connected"
    BY <1>7
  <2>3. h.client # "none" => rcv.client # "none"
    BY <1>7
  <2> QED BY <1>6, <2>1, <2>2, <2>3 DEF TransferInv, Pair
<1>11. troubles' \in 0..MaxTroubles
  BY TroublesOK DEF ReceiverCancels
<1> QED BY <1>4, <1>6, <1>7, <1>9, <1>10, <1>11 DEF TransferInv, ReceiverCancels

-----------------------------------------------------------------------------
(* What the receiver says of its current file.                             *)

\* p is an answer of the receiver r, which it makes h.
AnswerOK(o, r, h, p) ==
    \/ /\ p.type = "03" /\ r.wanting
       /\ \/ p.file = r.currFile /\ h.stream = r.currFile
          \/ p.file = Number(o) + 1 /\ r.currFile < Number(o) /\ r.currFile \in h.skipped
    \/ p.type = "04" /\ p.file = r.currFile /\ r.currFile \in h.skipped

AnswerSent(h, r) ==
    /\ h.currFile = r.currFile /\ h.size = r.size /\ h.pos = r.pos /\ h.totalPos = r.totalPos /\ h.name = r.name
    /\ h.state = r.state /\ h.total = r.total
    /\ ~h.wanting /\ r.skipped \subseteq h.skipped /\ h.stream \in {r.stream, r.currFile}

LEMMA Added ==
  ASSUME NEW ts \in Seq(Packet), NEW p \in Packet
  PROVE  LET tq == Append(ts, p) IN
         /\ tq \in Seq(Packet) /\ ts \o <<p>> = tq /\ Len(tq) = Len(ts) + 1
         /\ \A j \in DOMAIN tq : j \in Nat /\ j <= Len(ts) + 1
                                 /\ ((j = Len(ts) + 1 /\ tq[j] = p) \/ (j \in DOMAIN ts /\ tq[j] = ts[j]))
<1>1. PICK tq : tq = Append(ts, p)
  OBVIOUS
<1>2. /\ tq \in Seq(Packet) /\ Len(tq) = Len(ts) + 1 /\ Len(ts) \in Nat
      /\ \A i \in 1..Len(ts) : tq[i] = ts[i]
      /\ tq[Len(ts) + 1] = p
      /\ DOMAIN tq = 1 .. Len(tq) /\ DOMAIN ts = 1 .. Len(ts)
  BY <1>1, AppendProperties
<1>3. ts \o <<p>> = tq
  <2>1. Append(<<>>, p) = <<p>>
    OBVIOUS
  <2>2. ts \o Append(<<>>, p) = Append(ts \o <<>>, p)
    <3>1. <<>> \in Seq(Packet)
      OBVIOUS
    <3> QED BY <3>1, Behind
  <2>3. ts \o <<>> = ts
    BY ConcatEmptySeq
  <2> QED BY <1>1, <2>1, <2>2, <2>3, Zenon
<1>4. ASSUME NEW j \in DOMAIN tq
      PROVE  j \in Nat /\ j <= Len(ts) + 1 /\ ((j = Len(ts) + 1 /\ tq[j] = p) \/ (j \in DOMAIN ts /\ tq[j] = ts[j]))
  <2>1. j \in 1 .. Len(ts) + 1 /\ j \in Nat /\ j <= Len(ts) + 1
    BY <1>2
  <2>2. CASE j = Len(ts) + 1
    <3>1. tq[j] = p
      BY <1>2, <2>2
    <3> QED BY <2>1, <2>2, <3>1
  <2>3. CASE j # Len(ts) + 1
    <3>1. j \in 1 .. Len(ts)
      BY <1>2, <2>1, <2>3
    <3> QED BY <1>2, <2>1, <3>1
  <2> QED BY <2>2, <2>3
<1> QED BY <1>1, <1>2, <1>3, <1>4

LEMMA AnswerAsked ==
  ASSUME NEW o, NEW s, NEW r, NEW h, NEW ts \in Seq(Packet), NEW p \in Packet, NEW tr,
         SenderGoes(o, s), Asked(o, s, ts), AnswerOK(o, r, h, p), r.currFile \in Nat,
         SameFile(s, r, ts, tr) \/ (Ahead(s, r, ts, tr) /\ p.type = "04")
  PROVE  Asked(o, s, Append(ts, p))
<1>1. PICK tq : tq = Append(ts, p)
  OBVIOUS
<1>2. /\ Len(ts) \in Nat
      /\ \A j \in DOMAIN tq : j \in Nat /\ j <= Len(ts) + 1
                              /\ ((j = Len(ts) + 1 /\ tq[j] = p) \/ (j \in DOMAIN ts /\ tq[j] = ts[j]))
      /\ \A i \in 1..Len(ts) : tq[i] = ts[i] /\ ts[i] \in Packet
      /\ DOMAIN ts = 1 .. Len(ts)
  BY <1>1, Added
<1>3. SUFFICES ASSUME NEW j \in DOMAIN tq
               PROVE  /\ tq[j].type \in {"03", "04"}
                      /\ tq[j].type = "03" =>
                            /\ ~s.continue
                            /\ tq[j].file = s.currFile \/ (tq[j].file = Number(o) + 1 /\ s.currFile < Number(o))
                            /\ \A i \in 1 .. j - 1 : tq[i].type = "04" /\ tq[i].file < s.currFile
  BY <1>1 DEF Asked
<1>4. CASE j \in DOMAIN ts /\ tq[j] = ts[j]
  <2>1. \A i \in 1 .. j - 1 : tq[i] = ts[i]
    BY <1>2, <1>4
  <2> QED BY <1>4, <2>1 DEF Asked
<1>5. CASE j = Len(ts) + 1 /\ tq[j] = p /\ p.type = "04"
  BY <1>5
<1>6. CASE j = Len(ts) + 1 /\ tq[j] = p /\ p.type = "03"
  <2>1. SameFile(s, r, ts, tr) /\ r.wanting
    BY <1>6 DEF AnswerOK
  <2>2. ~s.continue /\ s.currFile = r.currFile
    BY <2>1 DEF SameFile
  <2>3. p.file = s.currFile \/ (p.file = Number(o) + 1 /\ s.currFile < Number(o))
    BY <1>6, <2>2 DEF AnswerOK
  <2>4. ASSUME NEW i \in 1 .. j - 1 PROVE tq[i].type = "04" /\ tq[i].file < s.currFile
    <3>1. i \in DOMAIN ts /\ tq[i] = ts[i] /\ ts[i] \in Packet
      BY <1>2, <1>6
    <3>2. ts[i].type = "04"
      BY <2>1, <3>1 DEF Asked, SameFile
    <3>3. ts[i].file <= r.currFile /\ ts[i].file # r.currFile /\ ts[i].file \in Nat
      BY <2>1, <3>1, <3>2, PacketIs DEF SameFile
    <3> QED BY <2>2, <3>1, <3>2, <3>3
  <2> QED BY <1>6, <2>2, <2>3, <2>4
<1> QED BY <1>2, <1>4, <1>5, <1>6 DEF AnswerOK

LEMMA AnswerSame ==
  ASSUME NEW o, NEW s, NEW r, NEW h, NEW ts \in Seq(Packet), NEW p \in Packet, NEW tr,
         OfferOK(o), r.currFile \in 1..Number(o),
         AnswerOK(o, r, h, p), AnswerSent(h, r), SameFile(s, r, ts, tr)
  PROVE  SameFile(s, h, Append(ts, p), tr)
<1>1. PICK tq : tq = Append(ts, p)
  OBVIOUS
<1>2. \A j \in DOMAIN tq : tq[j] = p \/ (j \in DOMAIN ts /\ tq[j] = ts[j])
  BY <1>1, Added
<1>3. /\ s.currFile = h.currFile /\ h.currFile > 0
      /\ s.name = h.name
      /\ \A i \in DOMAIN tr : tr[i].type = "06"
      /\ s.size > 0 => h.pos + Len(tr) = s.pos
      /\ ~s.continue => tr = <<>>
      /\ s.more => h.stream = h.currFile
      /\ s.continue /\ ~s.more => h.currFile \in h.skipped \/ (h.stream = h.currFile /\ s.pos = s.size)
      /\ ~h.wanting
  BY DEF SameFile, AnswerSent
<1>4. ASSUME NEW i \in DOMAIN tq
      PROVE  /\ tq[i].type = "04" => tq[i].file <= h.currFile
             /\ tq[i].type = "03" /\ tq[i].file = h.currFile => h.stream = h.currFile
             /\ tq[i].type = "03" /\ tq[i].file # h.currFile => h.currFile \in h.skipped
             /\ tq[i].type = "04" /\ tq[i].file = h.currFile => h.currFile \in h.skipped
  <2>1. CASE i \in DOMAIN ts /\ tq[i] = ts[i]
    <3>1. /\ ts[i].type = "04" => ts[i].file <= r.currFile
          /\ ts[i].type = "03" /\ ts[i].file = r.currFile => r.stream = r.currFile
          /\ ts[i].type = "03" /\ ts[i].file # r.currFile => r.currFile \in r.skipped
          /\ ts[i].type = "04" /\ ts[i].file = r.currFile => r.currFile \in r.skipped
      BY <2>1 DEF SameFile
    <3> QED BY <2>1, <3>1 DEF AnswerSent
  <2>2. CASE tq[i] = p
    <3>1. Number(o) \in Nat /\ Number(o) + 1 # r.currFile
      BY DEF OfferOK
    <3>2. CASE p.type = "03"
      BY <2>2, <3>1, <3>2 DEF AnswerOK, AnswerSent
    <3>3. CASE p.type = "04"
      BY <2>2, <3>3 DEF AnswerOK, AnswerSent
    <3> QED BY <2>2, <3>2, <3>3 DEF AnswerOK
  <2> QED BY <1>2, <2>1, <2>2
<1> QED BY <1>1, <1>3, <1>4 DEF SameFile

LEMMA AnswerAhead ==
  ASSUME NEW o, NEW s, NEW r, NEW h, NEW ts \in Seq(Packet), NEW p \in Packet, NEW tr,
         r.currFile \in Nat, AnswerOK(o, r, h, p), AnswerSent(h, r), Ahead(s, r, ts, tr), p.type = "04"
  PROVE  Ahead(s, h, Append(ts, p), tr)
<1>1. PICK tq : tq = Append(ts, p)
  OBVIOUS
<1>2. \A j \in DOMAIN tq : tq[j] = p \/ (j \in DOMAIN ts /\ tq[j] = ts[j])
  BY <1>1, Added
<1>3. p.file = r.currFile
  BY DEF AnswerOK
<1>4. \A i \in DOMAIN tq : tq[i].type = "04" /\ tq[i].file <= h.currFile
  BY <1>2, <1>3 DEF Ahead, AnswerSent
<1> QED BY <1>1, <1>4 DEF Ahead, AnswerSent

\* What is on the way to the receiver stays what it can be told.
LEMMA AnsweredToReceiver ==
  ASSUME NEW o, NEW r, NEW h, AnswerSent(h, r), r.currFile > 0
  PROVE  /\ \A tr : ToReceiver(o, r, tr) => ToReceiver(o, h, tr)
         /\ \A tr : Finishing(o, r, tr) /\ r.ev # "COMPLETE" => Finishing(o, h, tr)
<1>1. /\ h.currFile = r.currFile /\ h.size = r.size /\ h.pos = r.pos /\ h.name = r.name
      /\ h.state = r.state /\ h.total = r.total
      /\ r.skipped \subseteq h.skipped /\ h.stream \in {r.stream, r.currFile}
  BY DEF AnswerSent
<1>2. ASSUME NEW tr, Continues(o, r, tr) PROVE Continues(o, h, tr)
  <2>1. ASSUME NEW i \in DOMAIN tr
        PROVE  \/ /\ tr[i] = Data(h, i) /\ h.currFile > 0 /\ h.stream = h.currFile
                  /\ h.size = 0 \/ h.pos + i <= h.size
               \/ i = Len(tr) /\ h.currFile < Number(o) /\ NextName(o, h, tr[i]) /\ FileOver(h, i - 1)
    <3>1. CASE /\ tr[i] = Data(r, i) /\ r.currFile > 0 /\ r.stream = r.currFile
               /\ r.size = 0 \/ r.pos + i <= r.size
      <4>1. h.stream = h.currFile
        BY <1>1, <3>1
      <4>2. Data(h, i) = Data(r, i)
        BY <1>1 DEF Data
      <4> QED BY <1>1, <3>1, <4>1, <4>2
    <3>2. CASE i = Len(tr) /\ r.currFile < Number(o) /\ NextName(o, r, tr[i]) /\ FileOver(r, i - 1)
      <4>1. NextName(o, h, tr[i])
        BY <1>1, <3>2 DEF NextName
      <4>2. FileOver(h, i - 1)
        BY <1>1, <3>2 DEF FileOver
      <4> QED BY <1>1, <3>2, <4>1, <4>2
    <3> QED BY <1>2, <3>1, <3>2 DEF Continues
  <2> QED BY <2>1 DEF Continues
<1>3. ASSUME NEW tr, ToReceiver(o, r, tr) PROVE ToReceiver(o, h, tr)
  BY <1>1, <1>2, <1>3 DEF ToReceiver
<1>4. \A tr : Finishing(o, r, tr) /\ r.ev # "COMPLETE" => Finishing(o, h, tr)
  BY <1>1 DEF Finishing
<1> QED BY <1>3, <1>4

\* An answer from outside of any handler
LEMMA TellsKeeps ==
  ASSUME TransferInv, rcv.client = "connected", rcv.state = "CONNECTED", rcv.total # 0,
         rcv.currFile \in 1..Number(offer),
         NEW h, rcv' = h, ReceiverOK(offer, h), ~h.thrown, h.out = <<>>, h.client = "connected", h.window = rcv.window,
         rcv.ev = "COMPLETE" => h.ev = "COMPLETE",
         NEW p \in Packet, AnswerSent(h, rcv), AnswerOK(offer, rcv, h, p),
         toSnd' = toSnd \o Delivered(<<p>>, snd),
         UNCHANGED <<offer, snd, toRcv, network>>, troubles' \in 0..MaxTroubles
  PROVE  TransferInv'
<1>1. OfferOK(offer) /\ toSnd \in Seq(Packet) /\ SenderOK(offer, snd) /\ ~snd.thrown /\ h.ev # "CANCELLED"
      /\ snd.client # "connecting" /\ snd.ev # "WAIT_RESPONS" /\ snd.client \in {"none", "connected"}
  BY DEF TransferInv, Pair, SenderOK, ReceiverOK
<1>2. PICK up \in BOOLEAN : up <=> network = "up"
  <2>1. (network = "up") \in BOOLEAN
    OBVIOUS
  <2> QED BY <2>1, Zenon
<1>3. PICK ts : ts = toSnd' /\ ts = toSnd \o Delivered(<<p>>, snd)
  OBVIOUS
<1>4. /\ ToReceiver(offer, h, toRcv)
      /\ Finishing(offer, rcv, toRcv) => Finishing(offer, h, toRcv)
  <2>1. ToReceiver(offer, rcv, toRcv) /\ rcv.currFile > 0
    BY <1>1 DEF TransferInv, Pair, OfferOK
  <2>2. rcv.ev = "COMPLETE" => Finishing(offer, h, toRcv)
    BY DEF Finishing
  <2> QED BY <2>1, <2>2, AnsweredToReceiver
<1>5. ASSUME ~(up /\ snd.client # "none") PROVE ts = toSnd
  <2>1. Delivered(<<p>>, snd) = <<>>
    BY <1>2, <1>5 DEF Delivered
  <2> QED BY <1>1, <1>3, <2>1, ConcatEmptySeq
<1>6. CASE ~(up /\ snd.client # "none")
  <2>1. Pair(offer, network = "up", snd, h, ts, toRcv)
    BY <1>1, <1>2, <1>4, <1>5, <1>6 DEF TransferInv, Pair
  <2> QED BY <1>3, <1>5, <1>6, <2>1 DEF TransferInv
<1>7. CASE up /\ snd.client # "none"
  <2>1. snd.client = "connected" /\ SenderGoes(offer, snd) /\ snd.ev # "COMPLETE"
    BY <1>1, <1>7 DEF SenderOK, SenderGoes
  <2>2. ts = Append(toSnd, p) /\ ts \in Seq(Packet)
    <3>1. Delivered(<<p>>, snd) = <<p>>
      BY <1>2, <1>7 DEF Delivered
    <3> QED BY <1>1, <1>3, <3>1, Added
  <2>3. InStep(offer, snd, rcv, toSnd, toRcv) /\ ToSender(offer, snd, toSnd)
    BY <1>2, <1>7, <2>1 DEF TransferInv, Pair
  <2>4. rcv.currFile \in Nat /\ rcv.currFile > 0
    BY <1>1 DEF OfferOK
  <2>5. snd.state = "CONNECTED" /\ (SameFile(snd, rcv, toSnd, toRcv) \/ Ahead(snd, rcv, toSnd, toRcv))
    BY <2>3, <2>4 DEF InStep, Greeting
  <2>6. SameFile(snd, rcv, toSnd, toRcv) \/ (Ahead(snd, rcv, toSnd, toRcv) /\ p.type = "04")
    BY <2>5 DEF Ahead, AnswerOK
  <2>7. snd.currFile > 0
    BY <2>4, <2>5 DEF SameFile, Ahead
  <2>8. Asked(offer, snd, toSnd)
    BY <2>3, <2>5, <2>7 DEF ToSender
  <2>9. Asked(offer, snd, ts)
    BY <1>1, <2>1, <2>2, <2>4, <2>6, <2>8, AnswerAsked
  <2>10. ToSender(offer, snd, ts)
    BY <2>5, <2>7, <2>9 DEF ToSender
  <2>11. SameFile(snd, h, ts, toRcv) \/ Ahead(snd, h, ts, toRcv)
    BY <1>1, <2>2, <2>4, <2>6, AnswerSame, AnswerAhead
  <2>12. InStep(offer, snd, h, ts, toRcv)
    BY <2>5, <2>11 DEF InStep, AnswerSent
  <2>13. Pair(offer, network = "up", snd, h, ts, toRcv)
    BY <1>1, <1>2, <1>4, <1>7, <2>1, <2>10, <2>12 DEF Pair
  <2> QED BY <1>3, <2>2, <2>13 DEF TransferInv
<1> QED BY <1>6, <1>7

LEMMA MacSkipsKeeps ==
  ASSUME TransferInv, MacSkips
  PROVE  TransferInv'
<1>1. /\ ReceiverOK(offer, rcv) /\ rcv \in End /\ ~rcv.thrown /\ rcv.out = <<>> /\ AtFileReceived(offer, rcv)
      /\ StreamOK(rcv) /\ OfferOK(offer) /\ rcv.client = "connected" /\ rcv.wanting
  BY DEF TransferInv, ReceiverOK, MacSkips
<1>2. /\ rcv.currFile \in Nat /\ rcv.currFile < rcv.total /\ rcv.total = Number(offer) /\ Number(offer) \in Nat
      /\ rcv.currFile > 0
  BY <1>1 DEF MacSkips, AtFileReceived, OfferOK, End
<1>3. rcv.state = "CONNECTED" /\ rcv.total # 0 /\ rcv.currFile \in 1..Number(offer)
  BY <1>1, <1>2 DEF ReceiverOK
<1>4. PICK skipped : skipped = rcv.skipped \cup {rcv.currFile}
  OBVIOUS
<1>5. skipped \in SUBSET Nat
  BY <1>1, <1>2, <1>4 DEF End
<1>6. PICK h : h = [rcv EXCEPT !.wanting = FALSE, !.sheet = "none", !.skipped = skipped] /\ rcv' = h
  BY <1>4 DEF MacSkips
<1>7. h \in End
  BY <1>1, <1>5, <1>6 DEF End
<1>8. /\ SamePlace(h, rcv) /\ SamePeer(h, rcv) /\ SameEvent(h, rcv)
      /\ ~h.wanting /\ h.more = rcv.more /\ h.continue = rcv.continue /\ h.queued = rcv.queued
      /\ h.sheet = "none" /\ h.skipped = skipped /\ h.disk = rcv.disk /\ h.window = rcv.window
      /\ h.thrown = rcv.thrown /\ h.out = rcv.out
  BY <1>1, <1>6, <1>7 DEF End, SamePlace, SamePeer, SameEvent
<1>9. Number(offer) \notin rcv.skipped /\ Number(offer) \notin skipped /\ skipped \subseteq 1 .. rcv.currFile
  BY <1>1, <1>2, <1>4 DEF AtFileReceived
<1>10. ReceiverOK(offer, h)
  <2>1. AtFileReceived(offer, h)
    <3>1. FilesBefore(offer, h) /\ DiskOK(offer, h)
      BY <1>1, <1>4, <1>8 DEF AtFileReceived, FilesBefore, DiskOK, Stored, SamePlace
    <3> QED BY <1>1, <1>2, <1>8, <1>9, <3>1 DEF AtFileReceived, SamePlace, SamePeer
  <2>2. StreamOK(h)
    BY <1>1, <1>4, <1>8 DEF StreamOK, SamePlace
  <2>3. h.ev # "COMPLETE"
    BY <1>1, <1>8, <1>9 DEF ReceiverOK, SameEvent
  <2> QED BY <1>1, <1>7, <1>8, <1>9, <2>1, <2>2, <2>3 DEF ReceiverOK, SamePeer, SameEvent
<1>11. PICK p : p = [type |-> "03", pos |-> 0, file |-> rcv.total + 1]
  OBVIOUS
<1>12. p \in Packet /\ p.type = "03" /\ p.file = Number(offer) + 1
  <2>1. rcv.total + 1 \in Nat
    BY <1>2
  <2> QED BY <1>2, <1>11, <2>1 DEF Packet
<1>13. AnswerSent(h, rcv) /\ AnswerOK(offer, rcv, h, p)
  <2>1. rcv.currFile \in h.skipped /\ rcv.skipped \subseteq h.skipped
    BY <1>4, <1>8
  <2> QED BY <1>1, <1>2, <1>8, <1>12, <2>1 DEF AnswerSent, AnswerOK, SamePlace, SamePeer
<1>14. toSnd' = toSnd \o Delivered(<<p>>, snd)
  BY <1>11 DEF MacSkips
<1>15. troubles' \in 0..MaxTroubles
  BY TroublesOK DEF MacSkips
<1> QED BY <1>1, <1>3, <1>6, <1>8, <1>10, <1>12, <1>13, <1>14, <1>15, TellsKeeps DEF MacSkips, SamePeer, SameEvent

LEMMA SkipFileIs ==
  ASSUME NEW e \in End
  PROVE  LET g == SkipFile(e) IN
         /\ g \in End /\ g.out = Append(e.out, [type |-> "04", file |-> e.currFile]) /\ g.thrown = e.thrown
         /\ SamePlace(g, e) /\ SamePeer(g, e)
         /\ ~g.wanting /\ g.more = e.more /\ g.continue = e.continue /\ g.queued = e.queued
         /\ g.disk = e.disk /\ g.sheet = e.sheet /\ g.window = e.window
         /\ g.skipped = e.skipped \cup {e.currFile}
         /\ g.ev = (IF e.currFile = e.total THEN "COMPLETE" ELSE e.ev)
<1>1. PICK skipped : skipped = e.skipped \cup {e.currFile}
  OBVIOUS
<1>2. e.currFile \in Nat /\ skipped \in SUBSET Nat
  BY <1>1 DEF End
<1>3. PICK a : a = [e EXCEPT !.wanting = FALSE, !.skipped = skipped]
  OBVIOUS
<1>4. a \in End
  BY <1>2, <1>3 DEF End
<1>5. /\ SamePlace(a, e) /\ SamePeer(a, e) /\ SameEvent(a, e)
      /\ ~a.wanting /\ a.more = e.more /\ a.continue = e.continue /\ a.queued = e.queued
      /\ a.disk = e.disk /\ a.sheet = e.sheet /\ a.window = e.window /\ a.skipped = skipped
      /\ a.thrown = e.thrown /\ a.out = e.out
  BY <1>3, <1>4 DEF End, SamePlace, SamePeer, SameEvent
<1>6. PICK p : p = [type |-> "04", file |-> e.currFile]
  OBVIOUS
<1>7. p \in Packet
  BY <1>2, <1>6 DEF Packet
<1>8. PICK b : b = Send(a, p)
  OBVIOUS
<1>9. /\ b \in End /\ b.out = Append(a.out, p) /\ b.thrown = a.thrown
      /\ SamePlace(b, a) /\ SameFlags(b, a) /\ SamePeer(b, a) /\ SameWindow(b, a) /\ SameEvent(b, a)
  BY <1>4, <1>7, <1>8, SendIs
<1>10. /\ b.out = Append(e.out, p) /\ b.thrown = e.thrown
       /\ SamePlace(b, e) /\ SamePeer(b, e) /\ SameEvent(b, e)
       /\ ~b.wanting /\ b.more = e.more /\ b.continue = e.continue /\ b.queued = e.queued
       /\ b.disk = e.disk /\ b.sheet = e.sheet /\ b.window = e.window /\ b.skipped = skipped
  BY <1>5, <1>9 DEF SamePlace, SameFlags, SamePeer, SameWindow, SameEvent
<1>11. PICK g : g = SkipFile(e)
  OBVIOUS
<1>12. g = (IF e.currFile = e.total THEN [b EXCEPT !.ev = "COMPLETE"] ELSE b)
  BY <1>1, <1>3, <1>6, <1>8, <1>11 DEF SkipFile
<1>13. CASE e.currFile # e.total
  BY <1>1, <1>6, <1>9, <1>10, <1>11, <1>12, <1>13 DEF SameEvent
<1>14. CASE e.currFile = e.total
  <2>1. PICK ev \in EventStates : ev = "COMPLETE"
    BY DEF EventStates
  <2>2. g = [b EXCEPT !.ev = ev]
    BY <1>12, <1>14, <2>1
  <2>3. g \in End
    BY <1>9, <2>1, <2>2 DEF End
  <2>4. /\ g.ev = ev /\ g.out = b.out /\ g.thrown = b.thrown
        /\ SamePlace(g, b) /\ SameFlags(g, b) /\ SamePeer(g, b) /\ SameWindow(g, b)
    BY <1>9, <2>2, <2>3 DEF End, SamePlace, SameFlags, SamePeer, SameWindow
  <2>5. /\ SamePlace(g, e) /\ SamePeer(g, e)
        /\ ~g.wanting /\ g.more = e.more /\ g.continue = e.continue /\ g.queued = e.queued
        /\ g.disk = e.disk /\ g.sheet = e.sheet /\ g.window = e.window /\ g.skipped = skipped
    BY <1>10, <2>4 DEF SamePlace, SameFlags, SamePeer, SameWindow
  <2> QED BY <1>1, <1>6, <1>10, <1>11, <1>14, <2>1, <2>3, <2>4, <2>5
<1> QED BY <1>13, <1>14

\* What is sent has been delivered.
LEMMA ClearedIs ==
  ASSUME NEW e \in End
  PROVE  LET g == [e EXCEPT !.out = <<>>] IN
         /\ g \in End /\ g.out = <<>> /\ g.thrown = e.thrown
         /\ SamePlace(g, e) /\ SameFlags(g, e) /\ SamePeer(g, e) /\ SameWindow(g, e) /\ SameEvent(g, e)
<1>1. PICK nothing \in Seq(Packet) : nothing = <<>>
  <2>1. <<>> \in Seq(Packet)
    OBVIOUS
  <2> QED BY <2>1, Zenon
<1>2. PICK g : g = [e EXCEPT !.out = nothing]
  OBVIOUS
<1>3. g \in End
  BY <1>2 DEF End
<1>4. g.out = <<>> /\ g.thrown = e.thrown
  BY <1>1, <1>2, <1>3 DEF End
<1>5. SameEvent(g, e) /\ SamePlace(g, e) /\ SameFlags(g, e) /\ SamePeer(g, e) /\ SameWindow(g, e)
  BY <1>2, <1>3 DEF End, SamePlace, SameFlags, SamePeer, SameWindow, SameEvent
<1> QED BY <1>1, <1>2, <1>3, <1>4, <1>5

\* The window has nothing any more to hand its answer to.
LEMMA CrashKeeps ==
  ASSUME TransferInv, rcv' = [rcv EXCEPT !.crashed = TRUE, !.client = "none"],
         UNCHANGED <<offer, snd, toSnd, toRcv, network>>, NoTrouble
  PROVE  TransferInv'
<1>1. ReceiverOK(offer, rcv) /\ rcv \in End /\ ~rcv.thrown /\ rcv.out = <<>> /\ AtFileReceived(offer, rcv)
  BY DEF TransferInv, ReceiverOK
<1>2. PICK h : h = [rcv EXCEPT !.crashed = TRUE, !.client = "none"] /\ rcv' = h
  OBVIOUS
<1>3. h \in End
  BY <1>1, <1>2 DEF End
<1>4. /\ h.client = "none" /\ h.thrown = rcv.thrown /\ h.out = rcv.out /\ h.window = rcv.window
      /\ h.incoming = rcv.incoming /\ h.state = rcv.state /\ h.total = rcv.total /\ h.totalSize = rcv.totalSize
      /\ h.disk = rcv.disk /\ h.skipped = rcv.skipped /\ h.sheet = rcv.sheet
      /\ SamePlace(h, rcv) /\ SameFlags(h, rcv) /\ SameEvent(h, rcv)
  BY <1>1, <1>2, <1>3 DEF End, SamePlace, SameFlags, SameEvent
<1>5. SameFiles(h, rcv)
  BY <1>4 DEF SameFiles, SamePlace, SameFlags
<1>6. ReceiverOK(offer, h)
  <2>1. AtFileReceived(offer, h) /\ (AllStored(offer, rcv) => AllStored(offer, h))
    BY <1>1, <1>5, SameFilesKeeps
  <2> QED BY <1>1, <1>3, <1>4, <2>1 DEF ReceiverOK, SameFlags, SameEvent
<1>7. network = "up" /\ h.window /\ h.ev = "CANCELLED" =>
         snd.ev # "COMPLETE" /\ (snd.client = "connected" => Stuck(offer, snd, toSnd))
  BY <1>4 DEF TransferInv, Pair, SameEvent
<1>8. troubles' \in 0..MaxTroubles
  BY TroublesOK
<1> QED BY <1>1, <1>2, <1>4, <1>6, <1>7, <1>8, ReceiverGoneKeeps

LEMMA SkipKeeps ==
  ASSUME TransferInv, Skip
  PROVE  TransferInv'
<1>1. /\ ReceiverOK(offer, rcv) /\ rcv \in End /\ ~rcv.thrown /\ rcv.out = <<>> /\ AtFileReceived(offer, rcv)
      /\ OfferOK(offer)
  BY DEF TransferInv, ReceiverOK
<1>2. PICK a : a = [rcv EXCEPT !.sheet = "none"]
  OBVIOUS
<1>3. a \in End
  BY <1>1, <1>2 DEF End
<1>4. /\ SamePlace(a, rcv) /\ SameFlags(a, rcv) /\ SamePeer(a, rcv) /\ SameEvent(a, rcv) /\ a.sheet = "none"
      /\ a.disk = rcv.disk /\ a.skipped = rcv.skipped /\ a.window = rcv.window
      /\ a.thrown = rcv.thrown /\ a.out = rcv.out
  BY <1>1, <1>2, <1>3 DEF End, SamePlace, SameFlags, SamePeer, SameEvent
<1>5. PICK g : g = SkipFile(a)
  OBVIOUS
<1>6. PICK p : p = [type |-> "04", file |-> rcv.currFile]
  OBVIOUS
<1>7. p \in Packet /\ p.type = "04" /\ p.file = rcv.currFile
  <2>1. rcv.currFile \in Nat
    BY <1>1 DEF End
  <2> QED BY <1>6, <2>1 DEF Packet
<1>8. /\ g \in End /\ g.out = <<p>> /\ ~g.thrown /\ SamePlace(g, rcv) /\ SamePeer(g, rcv)
      /\ ~g.wanting /\ g.more = rcv.more /\ g.continue = rcv.continue /\ g.queued = rcv.queued
      /\ g.disk = rcv.disk /\ g.sheet = "none" /\ g.window = rcv.window
      /\ g.skipped = rcv.skipped \cup {rcv.currFile}
      /\ g.ev = (IF rcv.currFile = rcv.total THEN "COMPLETE" ELSE rcv.ev)
  <2>1. /\ g \in End /\ g.out = Append(a.out, [type |-> "04", file |-> a.currFile]) /\ g.thrown = a.thrown
        /\ SamePlace(g, a) /\ SamePeer(g, a)
        /\ ~g.wanting /\ g.more = a.more /\ g.continue = a.continue /\ g.queued = a.queued
        /\ g.disk = a.disk /\ g.sheet = a.sheet /\ g.window = a.window
        /\ g.skipped = a.skipped \cup {a.currFile}
        /\ g.ev = (IF a.currFile = a.total THEN "COMPLETE" ELSE a.ev)
    BY <1>3, <1>5, SkipFileIs
  <2>2. g.out = <<p>>
    <3>1. Append(<<>>, p) = <<p>>
      OBVIOUS
    <3>2. g.out = Append(<<>>, p)
      BY <1>1, <1>4, <1>6, <2>1 DEF SamePlace
    <3> QED BY <3>1, <3>2
  <2>3. SamePlace(g, rcv) /\ SamePeer(g, rcv)
    BY <1>4, <2>1 DEF SamePlace, SamePeer
  <2>4. g.more = rcv.more /\ g.continue = rcv.continue /\ g.queued = rcv.queued
    BY <1>4, <2>1 DEF SameFlags
  <2>5. /\ g.skipped = rcv.skipped \cup {rcv.currFile}
        /\ g.ev = (IF rcv.currFile = rcv.total THEN "COMPLETE" ELSE rcv.ev)
    BY <1>4, <2>1 DEF SamePlace, SamePeer, SameEvent
  <2> QED BY <1>1, <1>4, <2>1, <2>2, <2>3, <2>4, <2>5
<1>9. UserAnswers(g) /\ rcv.currFile > 0 /\ rcv.window /\ UNCHANGED <<offer, snd, toRcv, network>> /\ NoTrouble
  BY <1>2, <1>5 DEF Skip
<1>10. CASE /\ rcv.client = "none" \/ (g.out # <<>> /\ AtEnd(snd))
            /\ rcv' = [rcv EXCEPT !.crashed = TRUE, !.client = "none"]
            /\ UNCHANGED toSnd
  BY <1>9, <1>10, CrashKeeps
<1>11. CASE /\ rcv.client # "none"
            /\ rcv' = [g EXCEPT !.out = <<>>]
            /\ toSnd' = toSnd \o Delivered(g.out, snd)
  <2>1. /\ rcv.currFile \in 1..Number(offer) /\ rcv.total = Number(offer) /\ rcv.total # 0
        /\ rcv.state = "CONNECTED" /\ rcv.client = "connected" /\ StreamOK(rcv)
        /\ rcv.currFile \in Nat
    <3>1. rcv.currFile \in 0..Number(offer) /\ Number(offer) \in Nat /\ rcv.currFile \in Nat
      BY <1>1 DEF AtFileReceived, OfferOK, End
    <3>2. rcv.total = Number(offer) /\ rcv.total # 0
      BY <1>1, <1>9, <3>1 DEF AtFileReceived, OfferOK
    <3> QED BY <1>1, <1>9, <1>11, <3>1, <3>2 DEF ReceiverOK
  <2>2. PICK h : h = [g EXCEPT !.out = <<>>] /\ rcv' = h
    BY <1>11
  <2>3. /\ h \in End /\ h.out = <<>> /\ h.thrown = g.thrown
        /\ SamePlace(h, g) /\ SameFlags(h, g) /\ SamePeer(h, g) /\ SameWindow(h, g) /\ SameEvent(h, g)
    BY <1>8, <2>2, ClearedIs
  <2>4. /\ SamePlace(h, rcv) /\ SamePeer(h, rcv) /\ ~h.thrown
        /\ ~h.wanting /\ h.more = rcv.more /\ h.continue = rcv.continue /\ h.queued = rcv.queued
        /\ h.disk = rcv.disk /\ h.sheet = "none" /\ h.window = rcv.window
        /\ h.skipped = rcv.skipped \cup {rcv.currFile}
        /\ h.ev = (IF rcv.currFile = rcv.total THEN "COMPLETE" ELSE rcv.ev)
    BY <1>8, <2>3 DEF SamePlace, SameFlags, SamePeer, SameWindow, SameEvent
  <2>5. h.skipped \subseteq 1 .. rcv.currFile /\ rcv.skipped \subseteq h.skipped
    BY <1>1, <2>1, <2>4 DEF AtFileReceived
  <2>6. Number(offer) \in h.skipped <=> rcv.currFile = Number(offer) \/ Number(offer) \in rcv.skipped
    BY <2>4
  <2>7. AtFileReceived(offer, h)
    <3>1. FilesBefore(offer, h) /\ DiskOK(offer, h)
      BY <1>1, <2>4, <2>5 DEF AtFileReceived, FilesBefore, DiskOK, Stored, SamePlace
    <3> QED BY <1>1, <2>1, <2>4, <2>5, <3>1 DEF AtFileReceived, SamePlace, SamePeer
  <2>8. StreamOK(h)
    BY <2>1, <2>4 DEF StreamOK, SamePlace
  <2>9. h.ev = "COMPLETE" => AllStored(offer, h)
    <3>1. ASSUME AllStored(offer, rcv) PROVE AllStored(offer, h)
      BY <2>4, <2>5, <3>1 DEF AllStored, Stored
    <3>2. ASSUME rcv.currFile = Number(offer) PROVE AllStored(offer, h)
      <4>1. SUFFICES ASSUME NEW f \in 1..Number(offer) PROVE f \in h.skipped \/ Stored(offer, h, f)
        BY DEF AllStored
      <4>2. f = rcv.currFile \/ f \in 1 .. rcv.currFile - 1
        BY <2>1, <3>2
      <4>3. f \in 1 .. rcv.currFile - 1 => f \in rcv.skipped \/ Stored(offer, rcv, f)
        BY <1>1 DEF AtFileReceived, FilesBefore
      <4> QED BY <2>4, <4>2, <4>3 DEF Stored
    <3> QED BY <1>1, <2>1, <2>4, <3>1, <3>2 DEF ReceiverOK
  <2>10. ReceiverOK(offer, h)
    <3>1. h.ev = "COMPLETE" => Number(offer) \in h.skipped
      BY <1>1, <2>1, <2>4, <2>6 DEF ReceiverOK
    <3>2. Number(offer) \in h.skipped /\ h.window => h.ev = "COMPLETE"
      BY <1>1, <2>1, <2>4, <2>6 DEF ReceiverOK
    <3>3. h.ev \in {"COMPLETE", rcv.ev}
      BY <2>4
    <3> QED BY <1>1, <2>1, <2>3, <2>4, <2>7, <2>8, <2>9, <3>1, <3>2, <3>3 DEF ReceiverOK, SamePeer
  <2>11. AnswerSent(h, rcv) /\ AnswerOK(offer, rcv, h, p)
    BY <1>7, <2>4, <2>5 DEF AnswerSent, AnswerOK, SamePlace, SamePeer
  <2>12. h.client = "connected" /\ (rcv.ev = "COMPLETE" => h.ev = "COMPLETE")
    BY <2>1, <2>4 DEF SamePeer
  <2>13. toSnd' = toSnd \o Delivered(<<p>>, snd)
    BY <1>8, <1>11
  <2>14. troubles' \in 0..MaxTroubles
    BY <1>9, TroublesOK
  <2> QED BY <1>7, <1>9, <2>1, <2>2, <2>3, <2>4, <2>10, <2>11, <2>12, <2>13, <2>14, TellsKeeps
<1> QED BY <1>9, <1>10, <1>11 DEF UserAnswers

\* The current file is open, empty and asked for.
Opening(g, e) ==
    /\ g \in End /\ g.thrown = e.thrown
    /\ g.currFile = e.currFile /\ g.size = e.size /\ g.pos = e.pos /\ g.totalPos = e.totalPos /\ g.name = e.name
    /\ g.stream = e.currFile /\ SamePeer(g, e) /\ SameEvent(g, e)
    /\ ~g.wanting /\ g.more = e.more /\ g.continue = e.continue /\ g.queued = e.queued
    /\ g.skipped = e.skipped /\ g.sheet = e.sheet /\ g.window = e.window
    /\ DOMAIN g.disk = DOMAIN e.disk \cup {e.currFile} /\ g.disk[e.currFile] = <<>>
    /\ \A f \in DOMAIN e.disk : f # e.currFile => g.disk[f] = e.disk[f]

LEMMA OpeningIs ==
  ASSUME NEW e \in End, e.wanting, e.name = e.currFile
  PROVE  LET g == ReceiveFile(Opened(e, e.name)) IN
         Opening(g, e) /\ g.out = Append(e.out, [type |-> "03", pos |-> 0, file |-> e.currFile])
<1>1. PICK f \in Nat : f = e.currFile
  BY DEF End
<1>2. PICK disk : disk = [k \in DOMAIN e.disk \cup {f} |-> IF k = f THEN <<>> ELSE e.disk[k]]
  OBVIOUS
<1>3. disk \in Disks
  <2>1. e.disk \in Disks
    BY DEF End
  <2>2. PICK D \in SUBSET Nat : e.disk \in [D -> Seq(Chunk)]
    BY <2>1 DEF Disks
  <2>3. disk \in [D \cup {f} -> Seq(Chunk)]
    BY <1>2, <2>2
  <2>4. D \cup {f} \in SUBSET Nat
    OBVIOUS
  <2> QED BY <2>3, <2>4 DEF Disks
<1>4. PICK a : a = [e EXCEPT !.stream = f, !.disk = disk]
  OBVIOUS
<1>5. a \in End
  BY <1>3, <1>4 DEF End
<1>6. /\ a.currFile = e.currFile /\ a.size = e.size /\ a.pos = e.pos /\ a.totalPos = e.totalPos /\ a.name = e.name
      /\ a.stream = f /\ a.disk = disk /\ SamePeer(a, e) /\ SameEvent(a, e) /\ SameFlags(a, e)
      /\ a.skipped = e.skipped /\ a.sheet = e.sheet /\ a.window = e.window /\ a.thrown = e.thrown /\ a.out = e.out
  <2>1. /\ a.currFile = e.currFile /\ a.size = e.size /\ a.pos = e.pos /\ a.totalPos = e.totalPos /\ a.name = e.name
        /\ a.stream = f /\ a.disk = disk
    BY <1>4, <1>5 DEF End
  <2>2. a.skipped = e.skipped /\ a.sheet = e.sheet /\ a.window = e.window /\ a.thrown = e.thrown /\ a.out = e.out
    BY <1>4, <1>5 DEF End
  <2>3. SamePeer(a, e) /\ SameEvent(a, e) /\ SameFlags(a, e)
    BY <1>4, <1>5 DEF End, SamePeer, SameEvent, SameFlags
  <2> QED BY <2>1, <2>2, <2>3
<1>7. PICK b : b = [a EXCEPT !.wanting = FALSE]
  OBVIOUS
<1>8. b \in End
  BY <1>5, <1>7 DEF End
<1>9. /\ b.currFile = a.currFile /\ b.size = a.size /\ b.pos = a.pos /\ b.totalPos = a.totalPos /\ b.name = a.name
      /\ b.stream = a.stream /\ b.disk = a.disk /\ SamePeer(b, a) /\ SameEvent(b, a)
      /\ b.wanting = FALSE /\ b.more = a.more /\ b.continue = a.continue /\ b.queued = a.queued
      /\ b.skipped = a.skipped /\ b.sheet = a.sheet /\ b.window = a.window /\ b.thrown = a.thrown /\ b.out = a.out
  BY <1>5, <1>7, <1>8 DEF End, SamePeer, SameEvent
<1>10. PICK p : p = [type |-> "03", pos |-> 0, file |-> e.currFile]
  OBVIOUS
<1>11. p \in Packet
  BY <1>1, <1>10 DEF Packet
<1>12. PICK g : g = ReceiveFile(Opened(e, e.name))
  OBVIOUS
<1>13. g = Send(b, p)
  <2>1. Opened(e, e.name) = a
    BY <1>1, <1>2, <1>4 DEF Opened
  <2>2. a.wanting
    BY <1>6 DEF SameFlags
  <2>3. p = [type |-> "03", pos |-> 0, file |-> a.currFile]
    BY <1>6, <1>10
  <2> QED BY <1>7, <1>12, <2>1, <2>2, <2>3 DEF ReceiveFile
<1>14. /\ g \in End /\ g.out = Append(b.out, p) /\ g.thrown = b.thrown
       /\ SamePlace(g, b) /\ SameFlags(g, b) /\ SamePeer(g, b) /\ SameWindow(g, b) /\ SameEvent(g, b)
  BY <1>8, <1>11, <1>13, SendIs
<1>15. DOMAIN disk = DOMAIN e.disk \cup {f} /\ disk[f] = <<>> /\ \A k \in DOMAIN e.disk : k # f => disk[k] = e.disk[k]
  BY <1>2
<1>16. /\ g.currFile = e.currFile /\ g.size = e.size /\ g.pos = e.pos /\ g.totalPos = e.totalPos /\ g.name = e.name
       /\ g.stream = f /\ g.disk = disk /\ SamePeer(g, e) /\ SameEvent(g, e)
  BY <1>6, <1>9, <1>14 DEF SamePlace, SamePeer, SameEvent, SameWindow
<1>17. /\ ~g.wanting /\ g.more = e.more /\ g.continue = e.continue /\ g.queued = e.queued
       /\ g.skipped = e.skipped /\ g.sheet = e.sheet /\ g.window = e.window /\ g.thrown = e.thrown
       /\ g.out = Append(e.out, p)
  BY <1>6, <1>9, <1>14 DEF SameFlags, SameWindow
<1> QED BY <1>1, <1>10, <1>12, <1>14, <1>15, <1>16, <1>17 DEF Opening

LEMMA OpeningOK ==
  ASSUME NEW o, OfferOK(o), NEW e, ReceiverOK(o, e), e.client = "connected", e.wanting, e.name = e.currFile,
         e.currFile \in 1..Number(o), e.sheet = "none", NEW g, Opening(g, e),
         NEW p \in Packet, p.type = "03", p.file = e.currFile
  PROVE  ReceiverOK(o, g) /\ AnswerSent(g, e) /\ AnswerOK(o, e, g, p)
<1>1. e \in End /\ AtFileReceived(o, e) /\ StreamOK(e)
  BY DEF ReceiverOK
<1>2. e.currFile \in Nat /\ e.currFile > 0 /\ e.pos = 0 /\ e.currFile \notin DOMAIN e.disk
  BY <1>1 DEF StreamOK, End, OfferOK
<1>3. /\ g.currFile = e.currFile /\ g.size = e.size /\ g.pos = e.pos /\ g.totalPos = e.totalPos /\ g.name = e.name
      /\ g.stream = e.currFile /\ ~g.wanting /\ g.skipped = e.skipped /\ g.sheet = "none"
      /\ g.state = e.state /\ g.total = e.total /\ g.totalSize = e.totalSize
      /\ DOMAIN g.disk = DOMAIN e.disk \cup {e.currFile} /\ g.disk[e.currFile] = <<>>
      /\ \A f \in DOMAIN e.disk : g.disk[f] = e.disk[f]
  BY <1>2 DEF Opening, SamePeer
<1>4. \A f : Stored(o, e, f) => Stored(o, g, f)
  BY <1>3 DEF Stored
<1>5. AtFileReceived(o, g)
  <2>1. FilesBefore(o, g)
    BY <1>1, <1>3, <1>4 DEF AtFileReceived, FilesBefore
  <2>2. DiskOK(o, g)
    <3>1. SUFFICES ASSUME NEW f \in DOMAIN g.disk
                   PROVE  Len(g.disk[f]) <= o.sizes[f] /\ g.disk[f] = Chunks(f, Len(g.disk[f]))
      BY DEF DiskOK
    <3>2. CASE f = e.currFile
      <4>1. o.sizes[f] \in Nat
        BY <3>2, SizeNat
      <4>2. Len(<<>>) = 0 /\ Chunks(f, 0) = <<>>
        BY DEF Chunks
      <4> QED BY <1>3, <3>2, <4>1, <4>2
    <3>3. CASE f # e.currFile
      BY <1>1, <1>3, <3>3 DEF AtFileReceived, DiskOK
    <3> QED BY <3>2, <3>3
  <2>3. DOMAIN g.disk \subseteq 1 .. g.currFile
    BY <1>1, <1>2, <1>3 DEF AtFileReceived
  <2> QED BY <1>1, <1>2, <1>3, <2>1, <2>2, <2>3 DEF AtFileReceived
<1>6. StreamOK(g)
  <2>1. Len(<<>>) = 0
    OBVIOUS
  <2> QED BY <1>1, <1>2, <1>3, <2>1 DEF StreamOK
<1>7. AllStored(o, e) => AllStored(o, g)
  BY <1>3, <1>4 DEF AllStored
<1>8. ReceiverOK(o, g)
  <2>1. /\ g \in End /\ g.thrown = e.thrown /\ g.client = e.client /\ g.incoming = e.incoming /\ g.ev = e.ev
        /\ g.more = e.more /\ g.continue = e.continue /\ g.queued = e.queued /\ g.window = e.window
    BY DEF Opening, SamePeer, SameEvent
  <2> QED BY <1>3, <1>5, <1>6, <1>7, <2>1 DEF ReceiverOK
<1>9. AnswerSent(g, e) /\ AnswerOK(o, e, g, p)
  BY <1>3 DEF AnswerSent, AnswerOK
<1> QED BY <1>8, <1>9

\* The sheet is closed and the file it was about, if it can be, opened.
LEMMA ReplaceOpens ==
  ASSUME TransferInv, rcv.client # "none", rcv.sheet = "conflict", rcv.name # NoFile, NEW a, a = [rcv EXCEPT !.sheet = "none"],
         NEW g, g = ReceiveFile(Opened(a, rcv.name)), rcv' = [g EXCEPT !.out = <<>>],
         toSnd' = toSnd \o Delivered(g.out, snd), UNCHANGED <<offer, snd, toRcv, network>>, NoTrouble
  PROVE  TransferInv'
<1>1. /\ ReceiverOK(offer, rcv) /\ rcv \in End /\ ~rcv.thrown /\ rcv.out = <<>> /\ AtFileReceived(offer, rcv)
      /\ StreamOK(rcv) /\ OfferOK(offer)
  BY DEF TransferInv, ReceiverOK
<1>2. rcv.wanting /\ rcv.name = rcv.currFile
  BY <1>1 DEF StreamOK, AtFileReceived
<1>3. /\ rcv.currFile \in 1..Number(offer) /\ rcv.total = Number(offer) /\ rcv.total # 0
      /\ rcv.state = "CONNECTED" /\ rcv.client = "connected" /\ rcv.currFile \in Nat
  <2>1. rcv.currFile \in 0..Number(offer) /\ Number(offer) \in Nat /\ rcv.currFile \in Nat /\ rcv.currFile # 0
    BY <1>1, <1>2 DEF AtFileReceived, OfferOK, End
  <2>2. rcv.total = Number(offer) /\ rcv.total # 0
    BY <1>1, <2>1 DEF AtFileReceived, OfferOK
  <2> QED BY <1>1, <2>1, <2>2 DEF ReceiverOK
<1>4. a \in End
  BY <1>1 DEF End
<1>5. /\ SamePlace(a, rcv) /\ SameFlags(a, rcv) /\ SamePeer(a, rcv) /\ SameEvent(a, rcv) /\ a.sheet = "none"
      /\ a.disk = rcv.disk /\ a.skipped = rcv.skipped /\ a.window = rcv.window
      /\ a.thrown = rcv.thrown /\ a.out = rcv.out
  BY <1>1, <1>4 DEF End, SamePlace, SameFlags, SamePeer, SameEvent
<1>6. ReceiverOK(offer, a)
  <2>1. SameReceiver(a, rcv)
    BY <1>4, <1>5 DEF SameReceiver, SameEvent
  <2> QED BY <1>1, <1>5, <2>1, SameReceiverKeeps
<1>7. PICK p : p = [type |-> "03", pos |-> 0, file |-> rcv.currFile]
  OBVIOUS
<1>8. p \in Packet /\ p.type = "03" /\ p.file = rcv.currFile
  BY <1>3, <1>7 DEF Packet
<1>9. a.wanting /\ a.name = a.currFile /\ a.currFile = rcv.currFile /\ a.client = "connected" /\ a.name = rcv.name
  BY <1>2, <1>3, <1>5 DEF SamePlace, SameFlags, SamePeer
<1>10. Opening(g, a) /\ g.out = <<p>>
  <2>1. Opening(g, a) /\ g.out = Append(a.out, p)
    BY <1>4, <1>7, <1>9, OpeningIs
  <2>2. Append(<<>>, p) = <<p>>
    OBVIOUS
  <2> QED BY <1>1, <1>5, <2>1, <2>2
<1>11. PICK h : h = [g EXCEPT !.out = <<>>] /\ rcv' = h
  OBVIOUS
<1>12. /\ h \in End /\ h.out = <<>> /\ h.thrown = g.thrown
       /\ SamePlace(h, g) /\ SameFlags(h, g) /\ SamePeer(h, g) /\ SameWindow(h, g) /\ SameEvent(h, g)
  <2>1. g \in End
    BY <1>10 DEF Opening
  <2> QED BY <1>11, <2>1, ClearedIs
<1>13. Opening(h, a)
  <2>1. h.disk = g.disk
    BY <1>12 DEF SameWindow
  <2>2. /\ DOMAIN h.disk = DOMAIN a.disk \cup {a.currFile} /\ h.disk[a.currFile] = <<>>
        /\ \A f \in DOMAIN a.disk : f # a.currFile => h.disk[f] = a.disk[f]
    BY <1>10, <2>1 DEF Opening
  <2>3. /\ h.currFile = a.currFile /\ h.size = a.size /\ h.pos = a.pos /\ h.totalPos = a.totalPos /\ h.name = a.name
        /\ h.stream = a.currFile /\ SamePeer(h, a) /\ SameEvent(h, a)
    BY <1>10, <1>12 DEF Opening, SamePlace, SamePeer, SameEvent
  <2>4. /\ ~h.wanting /\ h.more = a.more /\ h.continue = a.continue /\ h.queued = a.queued
        /\ h.skipped = a.skipped /\ h.sheet = a.sheet /\ h.window = a.window /\ h.thrown = a.thrown
    BY <1>10, <1>12 DEF Opening, SameFlags, SameWindow
  <2> QED BY <1>12, <2>2, <2>3, <2>4 DEF Opening
<1>14. ReceiverOK(offer, h) /\ AnswerSent(h, a) /\ AnswerOK(offer, a, h, p)
  BY <1>1, <1>3, <1>5, <1>6, <1>8, <1>9, <1>13, OpeningOK
<1>15. AnswerSent(h, rcv) /\ AnswerOK(offer, rcv, h, p)
  BY <1>5, <1>14 DEF AnswerSent, AnswerOK, SamePlace, SameFlags, SamePeer
<1>16. ~h.thrown /\ h.client = "connected" /\ h.window = rcv.window /\ (rcv.ev = "COMPLETE" => h.ev = "COMPLETE")
  BY <1>1, <1>3, <1>5, <1>13 DEF Opening, SamePeer, SameEvent
<1>17. toSnd' = toSnd \o Delivered(<<p>>, snd)
  BY <1>10
<1>18. troubles' \in 0..MaxTroubles
  BY TroublesOK
<1> QED BY <1>3, <1>8, <1>11, <1>12, <1>14, <1>15, <1>16, <1>17, <1>18, TellsKeeps

\* The stream of an end that has not been asked for yet
LEMMA QuietToPeer ==
  ASSUME NEW o, NEW e, NEW g, e.currFile > 0, g.currFile = e.currFile, g.size = e.size, g.pos = e.pos, g.name = e.name,
         g.stream # g.currFile, e.stream # e.currFile, g.wanting = e.wanting, g.skipped = e.skipped,
         g.state = e.state, g.total = e.total, g.ev = e.ev
  PROVE  /\ \A tr : ToReceiver(o, e, tr) => ToReceiver(o, g, tr)
         /\ \A s, ts, tr : InStep(o, s, e, ts, tr) => InStep(o, s, g, ts, tr)
         /\ \A tr : Finishing(o, e, tr) => Finishing(o, g, tr)
<1>1. ASSUME NEW tr, ToReceiver(o, e, tr) PROVE ToReceiver(o, g, tr)
  <2>1. Continues(o, e, tr) => Continues(o, g, tr)
    BY DEF Continues, Data, NextName, FileOver
  <2> QED BY <1>1, <2>1 DEF ToReceiver
<1>2. ASSUME NEW s, NEW ts, NEW tr, InStep(o, s, e, ts, tr) PROVE InStep(o, s, g, ts, tr)
  <2>1. Greeting(o, s, e, ts, tr) => Greeting(o, s, g, ts, tr)
    BY DEF Greeting
  <2>2. SameFile(s, e, ts, tr) => SameFile(s, g, ts, tr)
    BY DEF SameFile
  <2>3. Ahead(s, e, ts, tr) => Ahead(s, g, ts, tr)
    BY DEF Ahead
  <2> QED BY <1>2, <2>1, <2>2, <2>3 DEF InStep
<1>3. ASSUME NEW tr, Finishing(o, e, tr) PROVE Finishing(o, g, tr)
  BY <1>3 DEF Finishing
<1> QED BY <1>1, <1>2, <1>3

LEMMA ReplaceKeeps ==
  ASSUME TransferInv, ReplaceFile
  PROVE  TransferInv'
<1>1. /\ ReceiverOK(offer, rcv) /\ rcv \in End /\ ~rcv.thrown /\ rcv.out = <<>> /\ AtFileReceived(offer, rcv)
      /\ OfferOK(offer) /\ toSnd \in Seq(Packet)
      /\ rcv.client # "none" => StreamOK(rcv)
  BY DEF TransferInv, ReceiverOK
<1>2. PICK a : a = [rcv EXCEPT !.sheet = "none"]
  OBVIOUS
<1>3. a \in End
  BY <1>1, <1>2 DEF End
<1>4. /\ SamePlace(a, rcv) /\ SameFlags(a, rcv) /\ SamePeer(a, rcv) /\ SameEvent(a, rcv) /\ a.sheet = "none"
      /\ a.disk = rcv.disk /\ a.skipped = rcv.skipped /\ a.window = rcv.window
      /\ a.thrown = rcv.thrown /\ a.out = rcv.out
  BY <1>1, <1>2, <1>3 DEF End, SamePlace, SameFlags, SamePeer, SameEvent
<1>5. /\ rcv.sheet = "conflict" /\ UNCHANGED <<offer, snd, toRcv, network>> /\ NoTrouble
      /\ \/ UserAnswers(OpenAndReceive(a, rcv.name))
         \/ rcv.name # NoFile /\ UserAnswers(ReceiveFile(Opened(a, rcv.name)))
  BY <1>2 DEF ReplaceFile
<1>6. ASSUME NEW g, /\ rcv.client = "none" \/ (g.out # <<>> /\ AtEnd(snd))
                    /\ rcv' = [rcv EXCEPT !.crashed = TRUE, !.client = "none"]
                    /\ UNCHANGED toSnd
      PROVE  TransferInv'
  BY <1>5, <1>6, CrashKeeps
<1>7. ASSUME rcv.name # NoFile, UserAnswers(ReceiveFile(Opened(a, rcv.name))) PROVE TransferInv'
  <2>1. PICK g : g = ReceiveFile(Opened(a, rcv.name))
    OBVIOUS
  <2>2. CASE /\ rcv.client # "none"
             /\ rcv' = [g EXCEPT !.out = <<>>]
             /\ toSnd' = toSnd \o Delivered(g.out, snd)
    BY <1>2, <1>5, <1>7, <2>1, <2>2, ReplaceOpens
  <2> QED BY <1>6, <1>7, <2>1, <2>2 DEF UserAnswers
<1>8. ASSUME rcv.name = NoFile \/ rcv.name \in offer.locked, UserAnswers([a EXCEPT !.stream = NoFile]) PROVE TransferInv'
  <2>1. PICK g : g = [a EXCEPT !.stream = NoFile]
    OBVIOUS
  <2>2. g \in End
    BY <1>3, <2>1 DEF End, NoFile
  <2>3. /\ g.stream = NoFile /\ g.out = a.out /\ g.thrown = a.thrown /\ SameFlags(g, a) /\ SamePeer(g, a) /\ SameEvent(g, a)
        /\ SameWindow(g, a)
        /\ g.currFile = a.currFile /\ g.size = a.size /\ g.pos = a.pos /\ g.totalPos = a.totalPos /\ g.name = a.name
    BY <1>3, <2>1, <2>2 DEF End, SameFlags, SamePeer, SameEvent, SameWindow
  <2>4. CASE /\ rcv.client # "none"
             /\ rcv' = [g EXCEPT !.out = <<>>]
             /\ toSnd' = toSnd \o Delivered(g.out, snd)
    <3>1. PICK h : h = [g EXCEPT !.out = <<>>] /\ rcv' = h
      BY <2>4
    <3>2. /\ h \in End /\ h.out = <<>> /\ h.thrown = g.thrown
          /\ SamePlace(h, g) /\ SameFlags(h, g) /\ SamePeer(h, g) /\ SameWindow(h, g) /\ SameEvent(h, g)
      BY <2>2, <3>1, ClearedIs
    <3>3. /\ h.currFile = rcv.currFile /\ h.size = rcv.size /\ h.pos = rcv.pos /\ h.totalPos = rcv.totalPos
          /\ h.name = rcv.name /\ h.stream = NoFile
      BY <1>4, <2>3, <3>2 DEF SamePlace
    <3>4. SameFlags(h, rcv) /\ SamePeer(h, rcv) /\ SameEvent(h, rcv)
      BY <1>4, <2>3, <3>2 DEF SameFlags, SamePeer, SameEvent
    <3>5. h.disk = rcv.disk /\ h.skipped = rcv.skipped /\ h.window = rcv.window /\ h.sheet = "none" /\ ~h.thrown
      BY <1>1, <1>4, <2>3, <3>2 DEF SameWindow
    <3>6. SameFiles(h, rcv)
      BY <3>3, <3>4, <3>5 DEF SameFiles, SameFlags, SamePeer
    <3>7. StreamOK(rcv) /\ rcv.wanting /\ rcv.currFile > 0 /\ rcv.stream # rcv.currFile /\ rcv.currFile \in Nat
      BY <1>1, <1>5, <2>4 DEF StreamOK, AtFileReceived, End
    <3>8. ReceiverOK(offer, h)
      <4>1. AtFileReceived(offer, h) /\ (AllStored(offer, rcv) => AllStored(offer, h))
        BY <1>1, <3>6, SameFilesKeeps
      <4>2. StreamOK(h)
        BY <3>3, <3>4, <3>5, <3>7 DEF StreamOK, NoFile, SameFlags
      <4> QED BY <1>1, <3>2, <3>4, <3>5, <4>1, <4>2 DEF ReceiverOK, SameFlags, SamePeer, SameEvent
    <3>9. /\ \A tr : ToReceiver(offer, rcv, tr) => ToReceiver(offer, h, tr)
          /\ \A s, ts, tr : InStep(offer, s, rcv, ts, tr) => InStep(offer, s, h, ts, tr)
          /\ \A tr : Finishing(offer, rcv, tr) => Finishing(offer, h, tr)
      <4>1. h.stream # h.currFile
        BY <3>3, <3>7 DEF NoFile
      <4>2. h.wanting = rcv.wanting /\ h.state = rcv.state /\ h.total = rcv.total /\ h.ev = rcv.ev
        BY <3>4 DEF SameFlags, SamePeer, SameEvent
      <4> QED BY <3>3, <3>5, <3>7, <4>1, <4>2, QuietToPeer
    <3>10. toSnd' = toSnd
      <4>1. Delivered(g.out, snd) = <<>>
        BY <1>1, <1>4, <2>3 DEF Delivered
      <4> QED BY <1>1, <2>4, <4>1, ConcatEmptySeq
    <3>11. Pair(offer, network = "up", snd, h, toSnd, toRcv)
      <4>1. h.client = rcv.client /\ h.ev = rcv.ev /\ h.window = rcv.window
        BY <3>4, <3>5 DEF SamePeer, SameEvent
      <4> QED BY <3>9, <4>1 DEF TransferInv, Pair
    <3>12. troubles' \in 0..MaxTroubles
      BY <1>5, TroublesOK
    <3> QED BY <1>5, <3>1, <3>2, <3>5, <3>8, <3>10, <3>11, <3>12 DEF TransferInv
  <2> QED BY <1>6, <1>8, <2>1, <2>4 DEF UserAnswers
<1>9. ASSUME UserAnswers(OpenAndReceive(a, rcv.name)) PROVE TransferInv'
  <2>1. CASE rcv.name \in offer.locked \cup {NoFile}
    <3>1. OpenAndReceive(a, rcv.name) = [a EXCEPT !.stream = NoFile]
      BY <2>1 DEF OpenAndReceive
    <3> QED BY <1>8, <1>9, <2>1, <3>1
  <2>2. CASE rcv.name \notin offer.locked \cup {NoFile}
    <3>1. OpenAndReceive(a, rcv.name) = ReceiveFile(Opened(a, rcv.name))
      BY <2>2 DEF OpenAndReceive
    <3> QED BY <1>7, <1>9, <2>2, <3>1
  <2> QED BY <2>1, <2>2
<1> QED BY <1>5, <1>7, <1>9

-----------------------------------------------------------------------------
(* What the receiver reads: f is its end in the middle of a callback that  *)
(* began with r0, and rest is not read yet.                                *)

ReceiverMid(o, r0, f, rest) ==
    /\ ReceiverOK(o, f) /\ f.client = "connected" /\ f.window = r0.window
    /\ f.ev = r0.ev \/ (f.ev = "COMPLETE" /\ f.thrown)
    /\ f.out # <<>> => ~f.thrown /\ rest = <<>>
    /\ ~f.thrown => ToReceiver(o, f, rest)

\* ts was on the way to the sender s, which is connected, when the callback began.
BothMid(o, s, f, ts, rest) ==
    /\ ToSender(o, s, ts \o f.out)
    /\ ~f.thrown => InStep(o, s, f, ts \o f.out, rest)
    /\ f.thrown /\ f.ev # "COMPLETE" => Stuck(o, s, ts)
    /\ f.out # <<>> => Stuck(o, s, ts \o Front(f.out))

\* The sender has sent everything.
FinishMid(o, r0, f, rest) ==
    /\ Finishing(o, f, rest) /\ (f.thrown => f.ev = "COMPLETE")
    /\ f.out = <<>> \/ r0.ev = "COMPLETE"

\* The first packet of tr has made f an end g.
Advances(r0, f, tr, g) ==
    /\ ReceiverMid(offer, r0, g, Tail(tr))
    /\ \A s : \A ts \in Seq(Packet) :
          SenderOK(offer, s) /\ SenderGoes(offer, s) /\ BothMid(offer, s, f, ts, tr)
             => BothMid(offer, s, g, ts, Tail(tr))
    /\ FinishMid(offer, r0, f, tr) => FinishMid(offer, r0, g, Tail(tr))

LEMMA MidIs ==
  ASSUME NEW r0, NEW f, NEW tr \in Seq(Packet), tr # <<>>, ReceiverMid(offer, r0, f, tr), ~f.thrown
  PROVE  /\ f \in End /\ f.out = <<>> /\ f.ev = r0.ev /\ f.incoming /\ ~f.queued /\ StreamOK(f) /\ AtFileReceived(offer, f)
         /\ f.state \in {"WAITING_FOR_INIT", "WAITING_FOR_INIT_ACK", "CONNECTED"} /\ f.ev # "CANCELLED"
         /\ ToReceiver(offer, f, tr) /\ Head(tr) \in Packet /\ Tail(tr) \in Seq(Packet)
         /\ \A ts \in Seq(Packet) : ts \o f.out = ts
         /\ FinishMid(offer, r0, f, tr) => Finishing(offer, f, tr)
         /\ \A s : \A ts \in Seq(Packet) : BothMid(offer, s, f, ts, tr) => ToSender(offer, s, ts) /\ InStep(offer, s, f, ts, tr)
<1>1. /\ f \in End /\ f.out = <<>> /\ f.ev = r0.ev /\ f.incoming /\ ~f.queued /\ StreamOK(f) /\ AtFileReceived(offer, f)
      /\ f.state \in {"WAITING_FOR_INIT", "WAITING_FOR_INIT_ACK", "CONNECTED"} /\ f.ev # "CANCELLED"
      /\ ToReceiver(offer, f, tr)
  BY DEF ReceiverMid, ReceiverOK, End
<1>2. Head(tr) \in Packet /\ Tail(tr) \in Seq(Packet)
  BY FirstIs
<1>3. \A ts \in Seq(Packet) : ts \o f.out = ts
  BY <1>1, ConcatEmptySeq
<1>4. FinishMid(offer, r0, f, tr) => Finishing(offer, f, tr)
  BY DEF FinishMid
<1>5. \A s : \A ts \in Seq(Packet) : BothMid(offer, s, f, ts, tr) => ToSender(offer, s, ts) /\ InStep(offer, s, f, ts, tr)
  BY <1>3 DEF BothMid
<1> QED BY <1>1, <1>2, <1>3, <1>4, <1>5

LEMMA NothingToRead ==
  ASSUME NEW o, NEW r
  PROVE  ToReceiver(o, r, <<>>)
<1>1. \A i \in DOMAIN <<>> : FALSE
  OBVIOUS
<1> QED BY <1>1 DEF ToReceiver, Continues

LEMMA TwoOut ==
  ASSUME NEW a \in Packet, NEW b \in Packet
  PROVE  Front(<<a, b>>) = <<a>> /\ <<>> \o <<a, b>> = <<a, b>> /\ <<>> \o <<a>> = <<a>>
<1>1. <<a, b>> \in Seq(Packet) /\ <<a>> \in Seq(Packet) /\ Len(<<a, b>>) = 2 /\ <<a, b>>[1] = a
  OBVIOUS
<1>2. <<>> \o <<a, b>> = <<a, b>> /\ <<>> \o <<a>> = <<a>>
  BY <1>1, ConcatEmptySeq
<1>3. Front(<<a, b>>) = <<a>>
  <2>1. PICK q : q = <<a, b>>
    OBVIOUS
  <2>2. q \in Seq(Packet) /\ Len(q) = 2 /\ q[1] = a
    BY <1>1, <2>1
  <2>3. PICK w : w = SubSeq(q, 1, 1)
    OBVIOUS
  <2>4. Len(w) = 1 /\ w \in Seq(Packet) /\ w[1] = q[1]
    BY <2>2, <2>3, FrontIs
  <2>5. w = <<a>>
    BY <2>2, <2>4
  <2>6. Front(q) = w
    BY <2>2, <2>3 DEF Front
  <2> QED BY <2>1, <2>5, <2>6
<1> QED BY <1>2, <1>3

\* INIT: the receiver answers it.
LEMMA GreetRead ==
  ASSUME OfferOK(offer), NEW r0, NEW f, NEW tr \in Seq(Packet), tr # <<>>, ReceiverMid(offer, r0, f, tr), ~f.thrown,
         f.state = "WAITING_FOR_INIT"
  PROVE  Advances(r0, f, tr, Parse(f, Head(tr)))
<1>1. /\ f \in End /\ f.out = <<>> /\ f.ev = r0.ev /\ f.incoming /\ StreamOK(f) /\ AtFileReceived(offer, f)
      /\ ToReceiver(offer, f, tr) /\ f.ev # "CANCELLED"
      /\ FinishMid(offer, r0, f, tr) => Finishing(offer, f, tr)
      /\ \A s : \A ts \in Seq(Packet) : BothMid(offer, s, f, ts, tr) => ToSender(offer, s, ts) /\ InStep(offer, s, f, ts, tr)
  BY MidIs
<1>2. tr = <<Simple("INIT")>> /\ Head(tr) = Simple("INIT") /\ Tail(tr) = <<>>
  <2>1. tr = <<Simple("INIT")>>
    BY <1>1 DEF ToReceiver
  <2> QED BY <2>1, OneTwo
<1>3. Simple("ACK") \in Packet /\ Simple("INIT") \in Packet
  BY DEF Packet, Simple
<1>4. PICK a : a = SendInitAck(f)
  OBVIOUS
<1>5. /\ a \in End /\ a.out = Append(f.out, Simple("ACK")) /\ a.thrown = f.thrown
      /\ SamePlace(a, f) /\ SameFlags(a, f) /\ SamePeer(a, f) /\ SameWindow(a, f) /\ SameEvent(a, f)
  BY <1>1, <1>3, <1>4, SendIs DEF SendInitAck
<1>6. PICK b : b = SendInitPacket(a)
  OBVIOUS
<1>7. /\ b \in End /\ b.out = Append(a.out, Simple("INIT")) /\ b.thrown = a.thrown
      /\ SamePlace(b, a) /\ SameFlags(b, a) /\ SamePeer(b, a) /\ SameWindow(b, a) /\ SameEvent(b, a)
  BY <1>3, <1>5, <1>6, SendIs DEF SendInitPacket
<1>8. PICK g : g = Parse(f, Head(tr))
  OBVIOUS
<1>9. g = [b EXCEPT !.state = "WAITING_FOR_INIT_ACK"]
  <2>1. g = Handshake(f, Head(tr))
    BY <1>8 DEF Parse
  <2> QED BY <1>1, <1>2, <1>4, <1>6, <2>1 DEF Handshake, Simple
<1>10. g \in End
  BY <1>7, <1>9 DEF End
<1>11. /\ g.state = "WAITING_FOR_INIT_ACK" /\ g.out = b.out /\ g.thrown = b.thrown
       /\ g.client = b.client /\ g.incoming = b.incoming /\ g.total = b.total /\ g.totalSize = b.totalSize
       /\ SamePlace(g, b) /\ SameFlags(g, b) /\ SameWindow(g, b) /\ SameEvent(g, b)
  BY <1>7, <1>9, <1>10 DEF End, SamePlace, SameFlags, SameWindow, SameEvent
<1>12. /\ g.client = "connected" /\ g.incoming = f.incoming /\ g.total = f.total /\ g.totalSize = f.totalSize /\ ~g.thrown
       /\ SamePlace(g, f) /\ SameFlags(g, f) /\ SameWindow(g, f) /\ SameEvent(g, f)
  BY <1>5, <1>7, <1>11 DEF ReceiverMid, SamePlace, SameFlags, SamePeer, SameWindow, SameEvent
<1>13. g.out = <<Simple("ACK"), Simple("INIT")>>
  BY <1>1, <1>5, <1>7, <1>11, TwoAppended
<1>14. f.total = 0 /\ f.currFile = 0
  BY <1>1 DEF ReceiverMid, ReceiverOK, AtFileReceived
<1>15. ReceiverOK(offer, g)
  <2>1. SameFiles(g, f)
    BY <1>12 DEF SameFiles, SamePlace, SameFlags, SameWindow
  <2>2. AtFileReceived(offer, g) /\ (AllStored(offer, f) => AllStored(offer, g))
    BY <1>1, <2>1, SameFilesKeeps
  <2>3. StreamOK(g)
    BY <1>1, <1>12 DEF StreamOK, SamePlace, SameFlags, SameWindow
  <2>4. ReceiverOK(offer, f) /\ f.client = "connected"
    BY DEF ReceiverMid
  <2>5. /\ g.ev = f.ev /\ g.window = f.window /\ g.skipped = f.skipped
        /\ g.continue = f.continue /\ g.more = f.more /\ g.queued = f.queued
    BY <1>12 DEF SameFlags, SameWindow, SameEvent
  <2> QED BY <1>10, <1>11, <1>12, <1>14, <2>2, <2>3, <2>4, <2>5 DEF ReceiverOK
<1>16. ReceiverMid(offer, r0, g, Tail(tr))
  BY <1>1, <1>2, <1>12, <1>15, NothingToRead DEF ReceiverMid, SameWindow, SameEvent
<1>17. ASSUME NEW s, NEW ts \in Seq(Packet), SenderOK(offer, s), BothMid(offer, s, f, ts, tr)
       PROVE  BothMid(offer, s, g, ts, Tail(tr))
  <2>1. s.state = "WAITING_FOR_INIT_ACK" /\ ts = <<>>
    BY <1>1, <1>2, <1>17 DEF InStep, Greeting
  <2>2. s.currFile = 0
    BY <1>17, <2>1 DEF SenderOK
  <2>3. ts \o g.out = <<Simple("ACK"), Simple("INIT")>> /\ Front(g.out) = <<Simple("ACK")>>
        /\ ts \o Front(g.out) = <<Simple("ACK")>>
    BY <1>3, <1>13, <2>1, TwoOut
  <2>4. ToSender(offer, s, ts \o g.out)
    BY <2>1, <2>3 DEF ToSender
  <2>5. InStep(offer, s, g, ts \o g.out, Tail(tr))
    BY <1>2, <1>11, <2>1, <2>3 DEF InStep, Greeting
  <2>6. Stuck(offer, s, <<Simple("ACK")>>)
    <3>1. Number(offer) \in Nat \ {0}
      BY DEF OfferOK
    <3> QED BY <2>2, <3>1, One DEF Stuck, Simple
  <2> QED BY <1>12, <2>3, <2>4, <2>5, <2>6 DEF BothMid
<1>18. FinishMid(offer, r0, f, tr) => FinishMid(offer, r0, g, Tail(tr))
  <2>1. SUFFICES ASSUME FinishMid(offer, r0, f, tr) PROVE FinishMid(offer, r0, g, Tail(tr))
    OBVIOUS
  <2>2. f.ev = "COMPLETE"
    BY <1>1, <2>1 DEF Finishing
  <2> QED BY <1>1, <1>12, <2>2 DEF FinishMid, Finishing, SameEvent
<1> QED BY <1>8, <1>16, <1>17, <1>18 DEF Advances

\* ACK: the receiver is connected, or does not know whom it talks to.
LEMMA AckConfirms ==
  ASSUME OfferOK(offer), NEW r0, NEW f, NEW tr \in Seq(Packet), tr # <<>>, ReceiverMid(offer, r0, f, tr), ~f.thrown,
         f.state = "WAITING_FOR_INIT_ACK"
  PROVE  Advances(r0, f, tr, Parse(f, Head(tr)))
<1>1. /\ f \in End /\ f.out = <<>> /\ f.ev = r0.ev /\ f.incoming /\ ~f.queued /\ StreamOK(f) /\ AtFileReceived(offer, f)
      /\ ToReceiver(offer, f, tr) /\ f.ev # "CANCELLED"
      /\ FinishMid(offer, r0, f, tr) => Finishing(offer, f, tr)
      /\ \A s : \A ts \in Seq(Packet) : BothMid(offer, s, f, ts, tr) => ToSender(offer, s, ts) /\ InStep(offer, s, f, ts, tr)
  BY MidIs
<1>2. /\ Head(tr) = Simple("ACK") /\ Tail(tr) \in {<<>>, <<Hello(offer)>>}
      /\ tr = <<Simple("ACK"), Hello(offer)>> => Tail(tr) = <<Hello(offer)>>
  <2>1. tr = <<Simple("ACK")>> \/ tr = <<Simple("ACK"), Hello(offer)>>
    BY <1>1 DEF ToReceiver
  <2>2. CASE tr = <<Simple("ACK")>>
    <3>1. Head(tr) = Simple("ACK") /\ Tail(tr) = <<>> /\ tr # <<Simple("ACK"), Hello(offer)>>
      BY <2>2, OneTwo
    <3> QED BY <3>1
  <2>3. CASE tr = <<Simple("ACK"), Hello(offer)>>
    <3>1. Head(tr) = Simple("ACK") /\ Tail(tr) = <<Hello(offer)>>
      BY <2>3, OneTwo
    <3> QED BY <3>1
  <2> QED BY <2>1, <2>2, <2>3
<1>3. PICK a : a = [f EXCEPT !.state = "CONNECTED"]
  OBVIOUS
<1>4. a \in End
  BY <1>1, <1>3 DEF End
<1>5. /\ a.state = "CONNECTED" /\ a.out = f.out /\ a.thrown = f.thrown
      /\ a.client = f.client /\ a.incoming = f.incoming /\ a.total = f.total /\ a.totalSize = f.totalSize
      /\ SamePlace(a, f) /\ SameFlags(a, f) /\ SameWindow(a, f) /\ SameEvent(a, f)
  BY <1>1, <1>3, <1>4 DEF End, SamePlace, SameFlags, SameWindow, SameEvent
<1>6. PICK b : b = ConfirmUIN(a)
  OBVIOUS
<1>7. /\ b \in End /\ b.out = a.out /\ (~b.thrown \/ ~offer.known)
      /\ SamePlace(b, a) /\ SameFlags(b, a) /\ SamePeer(b, a) /\ SameWindow(b, a) /\ SameEvent(b, a)
  <2>1. CASE offer.known
    <3>1. b = a
      BY <1>6, <2>1 DEF ConfirmUIN
    <3>2. ~b.thrown
      BY <1>5, <3>1
    <3> QED BY <1>4, <3>1, <3>2 DEF SamePlace, SameFlags, SamePeer, SameWindow, SameEvent
  <2>2. CASE ~offer.known
    <3>1. b = Throw(a)
      BY <1>6, <2>2 DEF ConfirmUIN
    <3> QED BY <1>4, <2>2, <3>1, ThrowIs
  <2> QED BY <2>1, <2>2
<1>8. PICK g : g = Parse(f, Head(tr))
  OBVIOUS
<1>9. g = b
  <2>1. g = Handshake(f, Head(tr))
    BY <1>8 DEF Parse
  <2>2. g = FlushQueue(b)
    BY <1>1, <1>2, <1>3, <1>6, <2>1 DEF Handshake, Simple
  <2>3. ~b.queued
    BY <1>1, <1>5, <1>7 DEF SameFlags
  <2> QED BY <2>2, <2>3 DEF FlushQueue
<1>10. /\ g \in End /\ g.state = "CONNECTED" /\ g.out = <<>> /\ g.client = f.client /\ g.incoming = f.incoming
       /\ g.total = f.total /\ g.totalSize = f.totalSize
       /\ SamePlace(g, f) /\ SameFlags(g, f) /\ SameWindow(g, f) /\ SameEvent(g, f)
  BY <1>1, <1>5, <1>7, <1>9 DEF SamePlace, SameFlags, SamePeer, SameWindow, SameEvent
<1>11. f.total = 0 /\ f.currFile = 0 /\ f.client = "connected" /\ ReceiverOK(offer, f)
  BY <1>1 DEF ReceiverMid, ReceiverOK, AtFileReceived
<1>12. ReceiverOK(offer, g)
  <2>1. SameFiles(g, f)
    BY <1>10 DEF SameFiles, SamePlace, SameFlags, SameWindow
  <2>2. AtFileReceived(offer, g) /\ (AllStored(offer, f) => AllStored(offer, g))
    BY <1>1, <2>1, SameFilesKeeps
  <2>3. StreamOK(g)
    BY <1>1, <1>10 DEF StreamOK, SamePlace, SameFlags, SameWindow
  <2>4. /\ g.ev = f.ev /\ g.window = f.window /\ g.skipped = f.skipped
        /\ g.continue = f.continue /\ g.more = f.more /\ g.queued = f.queued
    BY <1>10 DEF SameFlags, SameWindow, SameEvent
  <2> QED BY <1>10, <1>11, <2>2, <2>3, <2>4 DEF ReceiverOK
<1>13. ReceiverMid(offer, r0, g, Tail(tr))
  <2>1. ToReceiver(offer, g, Tail(tr))
    BY <1>2, <1>10, <1>11 DEF ToReceiver
  <2>2. g.window = r0.window /\ g.ev = r0.ev
    BY <1>1, <1>10 DEF ReceiverMid, SameWindow, SameEvent
  <2> QED BY <1>10, <1>11, <1>12, <2>1, <2>2 DEF ReceiverMid
<1>14. ASSUME NEW s, NEW ts \in Seq(Packet), SenderOK(offer, s), BothMid(offer, s, f, ts, tr)
       PROVE  BothMid(offer, s, g, ts, Tail(tr))
  <2>1. s.state = "CONNECTED" /\ s.currFile = 0 /\ ts = <<>> /\ tr = <<Simple("ACK"), Hello(offer)>>
    BY <1>1, <1>14 DEF InStep, Greeting
  <2>2. ts \o g.out = ts
    BY <1>10, ConcatEmptySeq
  <2>3. ToSender(offer, s, ts)
    BY <1>1, <1>14
  <2>4. InStep(offer, s, g, ts, Tail(tr))
    BY <1>2, <1>10, <1>11, <2>1 DEF InStep, Greeting
  <2>5. Stuck(offer, s, ts)
    <3>1. Number(offer) \in Nat \ {0}
      BY DEF OfferOK
    <3>2. \A i \in DOMAIN <<>> : FALSE
      OBVIOUS
    <3> QED BY <2>1, <3>1, <3>2 DEF Stuck
  <2> QED BY <1>10, <2>2, <2>3, <2>4, <2>5 DEF BothMid
<1>15. FinishMid(offer, r0, f, tr) => FinishMid(offer, r0, g, Tail(tr))
  <2>1. SUFFICES ASSUME FinishMid(offer, r0, f, tr) PROVE FinishMid(offer, r0, g, Tail(tr))
    OBVIOUS
  <2>2. f.ev = "COMPLETE"
    BY <1>1, <2>1 DEF Finishing
  <2> QED BY <1>10, <2>2 DEF FinishMid, Finishing, SameEvent
<1> QED BY <1>8, <1>13, <1>14, <1>15 DEF Advances

\* 00: how many files there are; the receiver asks for the first.
LEMMA HelloRead ==
  ASSUME OfferOK(offer), NEW r0, NEW f, NEW tr \in Seq(Packet), tr # <<>>, ReceiverMid(offer, r0, f, tr), ~f.thrown,
         f.state = "CONNECTED", f.total = 0
  PROVE  Advances(r0, f, tr, Parse(f, Head(tr)))
<1>1. /\ f \in End /\ f.out = <<>> /\ f.ev = r0.ev /\ f.incoming /\ StreamOK(f) /\ AtFileReceived(offer, f)
      /\ ToReceiver(offer, f, tr) /\ f.ev # "CANCELLED"
      /\ FinishMid(offer, r0, f, tr) => Finishing(offer, f, tr)
      /\ \A s : \A ts \in Seq(Packet) : BothMid(offer, s, f, ts, tr) => ToSender(offer, s, ts) /\ InStep(offer, s, f, ts, tr)
  BY MidIs
<1>2. tr = <<Hello(offer)>> /\ Head(tr) = Hello(offer) /\ Tail(tr) = <<>>
  <2>1. tr = <<Hello(offer)>>
    BY <1>1 DEF ToReceiver
  <2> QED BY <2>1, OneTwo
<1>3. Simple("05") \in Packet /\ Simple("01") \in Packet
  BY DEF Packet, Simple
<1>4. PICK n \in Nat : n = Number(offer) /\ n # 0
  BY DEF OfferOK
<1>5. f.currFile = 0 /\ f.totalSize = Total(offer) /\ f.totalSize \in Nat /\ f.client = "connected" /\ ReceiverOK(offer, f)
      /\ f.window = r0.window
  BY <1>1 DEF AtFileReceived, End, ReceiverMid
<1>6. PICK a : a = [f EXCEPT !.total = n, !.totalSize = f.totalSize, !.currFile = 0, !.size = 0]
  OBVIOUS
<1>7. a \in End
  BY <1>1, <1>5, <1>6 DEF End
<1>8. /\ a.total = n /\ a.totalSize = f.totalSize /\ a.currFile = 0 /\ a.size = 0
      /\ a.pos = f.pos /\ a.totalPos = f.totalPos /\ a.name = f.name /\ a.stream = f.stream
      /\ a.out = f.out /\ a.thrown = f.thrown /\ a.client = f.client /\ a.incoming = f.incoming /\ a.state = f.state
  BY <1>1, <1>6, <1>7 DEF End
<1>9. SameFlags(a, f) /\ SameWindow(a, f) /\ SameEvent(a, f)
  BY <1>1, <1>6, <1>7 DEF End, SameFlags, SameWindow, SameEvent
<1>10. PICK b : b = Update(a)
  OBVIOUS
<1>11. /\ b \in End /\ b.out = a.out /\ b.thrown = a.thrown /\ b.ev = a.ev
       /\ SamePlace(b, a) /\ SameFlags(b, a) /\ SamePeer(b, a) /\ SameWindow(b, a)
  BY <1>7, <1>10, UpdateIs
<1>12. PICK c : c = Send(b, Simple("05"))
  OBVIOUS
<1>13. /\ c \in End /\ c.out = Append(b.out, Simple("05")) /\ c.thrown = b.thrown
       /\ SamePlace(c, b) /\ SameFlags(c, b) /\ SamePeer(c, b) /\ SameWindow(c, b) /\ SameEvent(c, b)
  BY <1>3, <1>11, <1>12, SendIs
<1>14. PICK g : g = Parse(f, Head(tr))
  OBVIOUS
<1>15. g = Send(c, Simple("01"))
  <2>1. g = ParsePacket(f, Head(tr))
    BY <1>14 DEF Parse
  <2>2. Head(tr).type = "00" /\ Head(tr).total = n /\ Head(tr).totalSize = f.totalSize
    BY <1>2, <1>4, <1>5 DEF Hello
  <2>3. g = ParsePacket0x00(f, Head(tr))
    BY <2>1, <2>2 DEF ParsePacket
  <2> QED BY <1>6, <1>10, <1>12, <2>2, <2>3 DEF ParsePacket0x00
<1>16. /\ g \in End /\ g.out = Append(c.out, Simple("01")) /\ g.thrown = c.thrown
       /\ SamePlace(g, c) /\ SameFlags(g, c) /\ SamePeer(g, c) /\ SameWindow(g, c) /\ SameEvent(g, c)
  BY <1>3, <1>13, <1>15, SendIs
<1>17. g.out = <<Simple("05"), Simple("01")>>
  BY <1>1, <1>8, <1>11, <1>13, <1>16, TwoAppended
<1>18. /\ SamePlace(g, a) /\ SameFlags(g, f) /\ SamePeer(g, a) /\ SameWindow(g, f) /\ g.ev = f.ev /\ ~g.thrown
  BY <1>8, <1>9, <1>11, <1>13, <1>16 DEF SamePlace, SameFlags, SamePeer, SameWindow, SameEvent
<1>19. /\ g.total = n /\ g.totalSize = f.totalSize /\ g.currFile = 0 /\ g.size = 0
       /\ g.pos = f.pos /\ g.totalPos = f.totalPos /\ g.name = f.name /\ g.stream = f.stream
       /\ g.client = "connected" /\ g.incoming = f.incoming /\ g.state = "CONNECTED"
  BY <1>5, <1>8, <1>18 DEF SamePlace, SamePeer
<1>20. ReceiverOK(offer, g)
  <2>1. FilesBefore(offer, g) /\ DiskOK(offer, g) /\ (AllStored(offer, f) => AllStored(offer, g))
    BY <1>1, <1>5, <1>18, <1>19 DEF AtFileReceived, FilesBefore, DiskOK, AllStored, Stored, SameWindow
  <2>2. AtFileReceived(offer, g)
    BY <1>1, <1>4, <1>5, <1>18, <1>19, <2>1 DEF AtFileReceived, SameFlags, SameWindow, NoFile
  <2>3. StreamOK(g)
    BY <1>1, <1>5, <1>18, <1>19 DEF StreamOK, SameFlags, SameWindow
  <2>4. /\ g.ev = f.ev /\ g.window = f.window /\ g.skipped = f.skipped
        /\ g.continue = f.continue /\ g.more = f.more /\ g.queued = f.queued
    BY <1>18 DEF SameFlags, SameWindow
  <2> QED BY <1>5, <1>16, <1>19, <2>1, <2>2, <2>3, <2>4 DEF ReceiverOK
<1>21. ReceiverMid(offer, r0, g, Tail(tr))
  BY <1>1, <1>2, <1>5, <1>18, <1>19, <1>20, NothingToRead DEF ReceiverMid, SameWindow
<1>22. ASSUME NEW s, NEW ts \in Seq(Packet), SenderOK(offer, s), BothMid(offer, s, f, ts, tr)
       PROVE  BothMid(offer, s, g, ts, Tail(tr))
  <2>1. s.state = "CONNECTED" /\ s.currFile = 0 /\ ts = <<>>
    BY <1>1, <1>2, <1>22, OneTwo DEF InStep, Greeting
  <2>2. ts \o g.out = <<Simple("05"), Simple("01")>> /\ ts \o Front(g.out) = <<Simple("05")>>
    BY <1>3, <1>17, <2>1, TwoOut
  <2>3. ToSender(offer, s, ts \o g.out)
    <3>1. s.state # "WAITING_FOR_INIT_ACK" /\ s.state # "WAITING_FOR_INIT" /\ ~(s.currFile > 0)
      BY <2>1
    <3>2. ts \o g.out \in {<<>>, <<Simple("05")>>, <<Simple("05"), Simple("01")>>, <<Simple("01")>>}
      BY <2>2, Zenon
    <3> QED BY <3>1, <3>2, Zenon DEF ToSender
  <2>4. InStep(offer, s, g, ts \o g.out, Tail(tr))
    BY <1>2, <1>4, <1>19, <2>1, <2>2 DEF InStep, Greeting
  <2>5. Stuck(offer, s, <<Simple("05")>>)
    BY <1>4, <2>1, One DEF Stuck, Simple
  <2> QED BY <1>18, <2>2, <2>3, <2>4, <2>5 DEF BothMid
<1>23. FinishMid(offer, r0, f, tr) => FinishMid(offer, r0, g, Tail(tr))
  <2>1. SUFFICES ASSUME FinishMid(offer, r0, f, tr) PROVE FinishMid(offer, r0, g, Tail(tr))
    OBVIOUS
  <2>2. f.ev = "COMPLETE"
    BY <1>1, <2>1 DEF Finishing
  <2> QED BY <1>1, <1>18, <2>2 DEF FinishMid, Finishing
<1> QED BY <1>14, <1>21, <1>22, <1>23 DEF Advances

\* The chunks of a file, one more
LEMMA ChunksGrow ==
  ASSUME NEW f \in Nat, NEW n \in Nat
  PROVE  /\ Chunks(f, n) \in Seq(Chunk) /\ Len(Chunks(f, n)) = n
         /\ Chunks(f, n) \o <<[file |-> f, at |-> n + 1]>> = Chunks(f, n + 1)
<1>1. \A k \in Nat : Chunks(f, k) \in Seq(Chunk) /\ Len(Chunks(f, k)) = k /\ \A i \in 1..k : Chunks(f, k)[i] = [file |-> f, at |-> i]
  <2>1. SUFFICES ASSUME NEW k \in Nat
                 PROVE  Chunks(f, k) \in Seq(Chunk) /\ Len(Chunks(f, k)) = k /\ \A i \in 1..k : Chunks(f, k)[i] = [file |-> f, at |-> i]
    OBVIOUS
  <2>2. \A i \in 1..k : [file |-> f, at |-> i] \in Chunk
    BY DEF Chunk
  <2>3. Chunks(f, k) \in [1..k -> Chunk]
    BY <2>2 DEF Chunks
  <2>4. \A i \in 1..k : Chunks(f, k)[i] = [file |-> f, at |-> i]
    BY DEF Chunks
  <2> QED BY <2>3, <2>4
<1>2. PICK a : a = Chunks(f, n)
  OBVIOUS
<1>3. PICK b : b = Chunks(f, n + 1)
  OBVIOUS
<1>4. PICK c : c = [file |-> f, at |-> n + 1]
  OBVIOUS
<1>5. c \in Chunk /\ n + 1 \in Nat
  BY <1>4 DEF Chunk
<1>6. /\ a \in Seq(Chunk) /\ Len(a) = n /\ \A i \in 1..n : a[i] = [file |-> f, at |-> i]
      /\ b \in Seq(Chunk) /\ Len(b) = n + 1 /\ \A i \in 1 .. n + 1 : b[i] = [file |-> f, at |-> i]
  BY <1>1, <1>2, <1>3, <1>5
<1>7. PICK w : w = a \o <<c>>
  OBVIOUS
<1>8. w \in Seq(Chunk) /\ Len(w) = n + 1 /\ (\A i \in 1..n : w[i] = a[i]) /\ w[n + 1] = c
  <2>1. PICK d : d = <<c>>
    OBVIOUS
  <2>2. d \in Seq(Chunk) /\ Len(d) = 1 /\ d[1] = c
    BY <1>5, <2>1
  <2>3. w = a \o d
    BY <1>7, <2>1
  <2>4. /\ w \in Seq(Chunk) /\ Len(w) = Len(a) + Len(d)
        /\ \A i \in 1 .. Len(a) + Len(d) : w[i] = IF i <= Len(a) THEN a[i] ELSE d[i - Len(a)]
    BY <1>6, <2>2, <2>3, ConcatProperties
  <2>5. Len(w) = n + 1 /\ \A i \in 1 .. n + 1 : w[i] = IF i <= n THEN a[i] ELSE d[i - n]
    BY <1>6, <2>2, <2>4
  <2>6. n + 1 \in 1 .. n + 1 /\ ~(n + 1 <= n) /\ (n + 1) - n = 1
    OBVIOUS
  <2>7. w[n + 1] = c
    BY <2>2, <2>5, <2>6
  <2>8. \A i \in 1..n : i \in 1 .. n + 1 /\ i <= n
    OBVIOUS
  <2> QED BY <2>4, <2>5, <2>7, <2>8
<1>9. w = b
  <2>1. ASSUME NEW i \in 1..Len(w) PROVE w[i] = b[i]
    <3>1. i = n + 1 \/ i \in 1..n
      BY <1>8
    <3>2. CASE i = n + 1
      <4>1. n + 1 \in 1 .. n + 1
        OBVIOUS
      <4>2. b[n + 1] = c
        BY <1>4, <1>6, <4>1
      <4> QED BY <1>8, <3>2, <4>2
    <3>3. CASE i \in 1..n
      <4>1. i \in 1 .. n + 1
        BY <3>3
      <4> QED BY <1>6, <1>8, <3>3, <4>1
    <3> QED BY <3>1, <3>2, <3>3
  <2> QED BY <1>6, <1>8, <2>1, SeqEqual
<1> QED BY <1>2, <1>3, <1>4, <1>6, <1>7, <1>9

LEMMA WriteIs ==
  ASSUME NEW e \in End, e.stream # NoFile, e.stream \in DOMAIN e.disk, NEW data \in Seq(Chunk)
  PROVE  LET g == Write(e, data) IN
         /\ g \in End /\ g.pos = e.pos + Len(data) /\ g.totalPos = e.totalPos + Len(data)
         /\ g.currFile = e.currFile /\ g.size = e.size /\ g.name = e.name /\ g.stream = e.stream
         /\ SameFlags(g, e) /\ SamePeer(g, e) /\ SameEvent(g, e)
         /\ g.skipped = e.skipped /\ g.sheet = e.sheet /\ g.window = e.window /\ g.thrown = e.thrown /\ g.out = e.out
         /\ DOMAIN g.disk = DOMAIN e.disk /\ g.disk[e.stream] = e.disk[e.stream] \o data
         /\ \A f \in DOMAIN e.disk : f # e.stream => g.disk[f] = e.disk[f]
<1>1. PICK disk : disk = [e.disk EXCEPT ![e.stream] = e.disk[e.stream] \o data]
  OBVIOUS
<1>2. disk \in Disks /\ DOMAIN disk = DOMAIN e.disk /\ disk[e.stream] = e.disk[e.stream] \o data
      /\ \A f \in DOMAIN e.disk : f # e.stream => disk[f] = e.disk[f]
  <2>1. e.disk \in Disks
    BY DEF End
  <2>2. PICK D \in SUBSET Nat : e.disk \in [D -> Seq(Chunk)]
    BY <2>1 DEF Disks
  <2>3. e.disk[e.stream] \o data \in Seq(Chunk)
    BY <2>2, ConcatProperties
  <2>4. disk \in [D -> Seq(Chunk)]
    BY <1>1, <2>2, <2>3
  <2> QED BY <1>1, <2>2, <2>4 DEF Disks
<1>3. PICK pos \in Nat : pos = e.pos + Len(data)
  BY DEF End
<1>4. PICK totalPos \in Nat : totalPos = e.totalPos + Len(data)
  BY DEF End
<1>5. PICK g : g = Write(e, data)
  OBVIOUS
<1>6. g = [e EXCEPT !.pos = pos, !.totalPos = totalPos, !.disk = disk]
  <2>1. PICK d : d = IF e.stream = NoFile THEN e.disk ELSE [e.disk EXCEPT ![e.stream] = @ \o data]
    OBVIOUS
  <2>2. d = disk
    BY <1>1, <2>1
  <2>3. g = [e EXCEPT !.pos = e.pos + Len(data), !.totalPos = e.totalPos + Len(data), !.disk = d]
    BY <1>5, <2>1 DEF Write, End
  <2> QED BY <1>3, <1>4, <2>2, <2>3
<1>7. g \in End
  BY <1>2, <1>6 DEF End
<1>8. /\ g.pos = pos /\ g.totalPos = totalPos /\ g.disk = disk
      /\ g.currFile = e.currFile /\ g.size = e.size /\ g.name = e.name /\ g.stream = e.stream
      /\ g.skipped = e.skipped /\ g.sheet = e.sheet /\ g.window = e.window /\ g.thrown = e.thrown /\ g.out = e.out
  BY <1>6, <1>7 DEF End
<1>9. SameFlags(g, e) /\ SamePeer(g, e) /\ SameEvent(g, e)
  BY <1>6, <1>7 DEF End, SameFlags, SamePeer, SameEvent
<1> QED BY <1>2, <1>3, <1>4, <1>5, <1>7, <1>8, <1>9

\* The current file has grown by n chunks; everything else is as it was.
Grown(o, g, e, n) ==
    /\ g \in End /\ g.pos = e.pos + n /\ g.totalPos = e.totalPos + n
    /\ g.currFile = e.currFile /\ g.size = e.size /\ g.name = e.name /\ g.stream = e.stream
    /\ SameFlags(g, e) /\ SamePeer(g, e)
    /\ g.skipped = e.skipped /\ g.sheet = e.sheet /\ g.window = e.window
    /\ DOMAIN g.disk = DOMAIN e.disk /\ g.disk[e.currFile] = Chunks(e.currFile, e.pos + n)
    /\ \A f \in DOMAIN e.disk : f # e.currFile => g.disk[f] = e.disk[f]
    /\ g.out = <<>>

\* One chunk, or none of an empty file
Grows(o, e, n) ==
    /\ e.stream = e.currFile /\ e.currFile \in 1..Number(o) /\ n \in {0, 1}
    /\ e.size = 0 <=> n = 0
    /\ e.pos + n <= e.size

\* What an end that is open on its file says of it
LEMMA OpenIs ==
  ASSUME NEW o, OfferOK(o), NEW e, e \in End, AtFileReceived(o, e), StreamOK(e), e.stream = e.currFile, e.currFile > 0
  PROVE  /\ e.currFile \in 1..Number(o) /\ e.name = e.currFile /\ e.name # NoFile /\ ~e.wanting
         /\ e.currFile \in DOMAIN e.disk
         /\ e.size = o.sizes[e.currFile] /\ e.pos <= e.size /\ e.size \in Nat /\ e.pos \in Nat /\ e.totalPos \in Nat
         /\ e.totalPos = Sum(o, e.currFile - 1) + e.pos /\ Sum(o, e.currFile) = Sum(o, e.currFile - 1) + e.size
         /\ Sum(o, e.currFile - 1) \in Nat /\ Total(o) \in Nat /\ e.totalSize = Total(o)
         /\ Len(e.disk[e.currFile]) = e.pos /\ e.disk[e.currFile] = Chunks(e.currFile, e.pos)
<1>1. e.currFile \in 1..Number(o) /\ Number(o) \in Nat
  BY DEF AtFileReceived, OfferOK
<1>2. e.name = e.currFile /\ e.name # NoFile /\ ~e.wanting /\ e.currFile \in DOMAIN e.disk /\ Len(e.disk[e.currFile]) = e.pos
  BY <1>1 DEF StreamOK, NoFile
<1>3. e.size = o.sizes[e.currFile] /\ e.pos <= e.size /\ e.totalPos = Sum(o, e.currFile - 1) + e.pos /\ e.totalSize = Total(o)
  BY <1>2 DEF AtFileReceived
<1>4. Sum(o, e.currFile) = Sum(o, e.currFile - 1) + o.sizes[e.currFile]
  BY <1>1, SumStep
<1>5. Sum(o, e.currFile - 1) \in Nat /\ Total(o) \in Nat
  <2>1. e.currFile - 1 \in 0..Number(o) /\ Number(o) \in 0..Number(o)
    BY <1>1
  <2> QED BY <2>1, SumGrows DEF Total
<1>6. e.disk[e.currFile] = Chunks(e.currFile, e.pos)
  BY <1>2 DEF AtFileReceived, DiskOK
<1>7. e.size \in Nat /\ e.pos \in Nat /\ e.totalPos \in Nat
  BY DEF End
<1> QED BY <1>1, <1>2, <1>3, <1>4, <1>5, <1>6, <1>7

LEMMA WrittenIs ==
  ASSUME NEW o, OfferOK(o), NEW e, e \in End, AtFileReceived(o, e), StreamOK(e), e.stream = e.currFile, e.currFile > 0,
         e.out = <<>>, NEW n \in {0, 1}, Grows(o, e, n)
  PROVE  LET g == Write(e, Data(e, 1).data) IN
         Grown(o, g, e, n) /\ SameEvent(g, e) /\ g.thrown = e.thrown
<1>1. /\ e.currFile \in 1..Number(o) /\ e.currFile \in DOMAIN e.disk /\ e.disk[e.currFile] = Chunks(e.currFile, e.pos)
      /\ e.pos \in Nat /\ e.size \in Nat
  BY OpenIs
<1>2. e.currFile \in Nat /\ e.stream # NoFile /\ e.stream \in DOMAIN e.disk
  BY <1>1 DEF End, NoFile
<1>3. PICK data : data = Data(e, 1).data
  OBVIOUS
<1>4. data \in Seq(Chunk) /\ Len(data) = n /\ Chunks(e.currFile, e.pos) \o data = Chunks(e.currFile, e.pos + n)
  <2>1. CASE n = 1
    <3>1. data = <<[file |-> e.currFile, at |-> e.pos + 1]>>
      BY <1>1, <1>3, <2>1 DEF Data, Grows
    <3>2. [file |-> e.currFile, at |-> e.pos + 1] \in Chunk
      BY <1>1, <1>2 DEF Chunk
    <3>3. Chunks(e.currFile, e.pos) \o data = Chunks(e.currFile, e.pos + 1)
      BY <1>1, <1>2, <3>1, ChunksGrow
    <3> QED BY <2>1, <3>1, <3>2, <3>3
  <2>2. CASE n = 0
    <3>1. data = <<>>
      BY <1>3, <2>2 DEF Data, Grows
    <3>2. Chunks(e.currFile, e.pos) \in Seq(Chunk)
      BY <1>1, <1>2, ChunksGrow
    <3>3. Chunks(e.currFile, e.pos) \o data = Chunks(e.currFile, e.pos)
      BY <3>1, <3>2, ConcatEmptySeq
    <3>4. e.pos + n = e.pos
      BY <1>1, <2>2
    <3> QED BY <2>2, <3>1, <3>3, <3>4
  <2> QED BY <2>1, <2>2
<1>5. PICK g : g = Write(e, data)
  OBVIOUS
<1>6. /\ g \in End /\ g.pos = e.pos + Len(data) /\ g.totalPos = e.totalPos + Len(data)
      /\ g.currFile = e.currFile /\ g.size = e.size /\ g.name = e.name /\ g.stream = e.stream
      /\ SameFlags(g, e) /\ SamePeer(g, e) /\ SameEvent(g, e)
      /\ g.skipped = e.skipped /\ g.sheet = e.sheet /\ g.window = e.window /\ g.thrown = e.thrown /\ g.out = e.out
      /\ DOMAIN g.disk = DOMAIN e.disk /\ g.disk[e.stream] = e.disk[e.stream] \o data
      /\ \A f \in DOMAIN e.disk : f # e.stream => g.disk[f] = e.disk[f]
  BY <1>2, <1>4, <1>5, WriteIs
<1>7. Grown(o, g, e, n)
  BY <1>1, <1>4, <1>6 DEF Grown
<1> QED BY <1>3, <1>5, <1>6, <1>7

\* An end that has grown is as good as it was; when the total is reached,
\* everything that is offered is on the disk.
LEMMA GrownKeeps ==
  ASSUME NEW o, OfferOK(o), NEW e, e \in End, AtFileReceived(o, e), StreamOK(e), e.stream = e.currFile, e.currFile > 0,
         NEW n \in {0, 1}, Grows(o, e, n), NEW g, Grown(o, g, e, n)
  PROVE  /\ AtFileReceived(o, g) /\ StreamOK(g)
         /\ AllStored(o, e) => AllStored(o, g)
         /\ g.totalPos >= Total(o) => AllStored(o, g)
<1>1. /\ e.currFile \in 1..Number(o) /\ e.name = e.currFile /\ e.name # NoFile /\ ~e.wanting
      /\ e.currFile \in DOMAIN e.disk
      /\ e.size = o.sizes[e.currFile] /\ e.pos <= e.size /\ e.size \in Nat /\ e.pos \in Nat /\ e.totalPos \in Nat
      /\ e.totalPos = Sum(o, e.currFile - 1) + e.pos /\ Sum(o, e.currFile) = Sum(o, e.currFile - 1) + e.size
      /\ Sum(o, e.currFile - 1) \in Nat /\ Total(o) \in Nat /\ e.totalSize = Total(o)
      /\ Len(e.disk[e.currFile]) = e.pos /\ e.disk[e.currFile] = Chunks(e.currFile, e.pos)
  BY OpenIs
<1>2. e.pos + n \in Nat /\ e.pos + n <= e.size /\ e.currFile \in Nat
  BY <1>1 DEF Grows
<1>3. Len(g.disk[e.currFile]) = e.pos + n /\ g.disk[e.currFile] = Chunks(e.currFile, Len(g.disk[e.currFile]))
  <2>1. g.disk[e.currFile] = Chunks(e.currFile, e.pos + n)
    BY DEF Grown
  <2> QED BY <1>2, <2>1, ChunksGrow
<1>4. \A f \in 1..Number(o) : Stored(o, e, f) => Stored(o, g, f)
  <2>1. SUFFICES ASSUME NEW f \in 1..Number(o), Stored(o, e, f) PROVE Stored(o, g, f)
    OBVIOUS
  <2>2. f \in DOMAIN e.disk /\ f \in DOMAIN g.disk /\ Len(e.disk[f]) = o.sizes[f]
    BY <2>1 DEF Stored, Grown
  <2>3. CASE f = e.currFile
    <3>1. e.pos = e.size
      BY <1>1, <2>2, <2>3
    <3>2. e.pos + n = e.size
      BY <1>1, <1>2, <3>1
    <3> QED BY <1>1, <1>3, <2>2, <2>3, <3>2 DEF Stored
  <2>4. CASE f # e.currFile
    BY <2>2, <2>4 DEF Stored, Grown
  <2> QED BY <2>3, <2>4
<1>5. AllStored(o, e) => AllStored(o, g)
  <2>1. g.skipped = e.skipped
    BY DEF Grown
  <2> QED BY <1>4, <2>1 DEF AllStored
<1>6. FilesBefore(o, g)
  <2>1. g.skipped = e.skipped /\ g.currFile = e.currFile
    BY DEF Grown
  <2>2. \A f \in 1 .. e.currFile - 1 : f \in 1..Number(o)
    BY <1>1 DEF OfferOK
  <2> QED BY <1>4, <2>1, <2>2 DEF AtFileReceived, FilesBefore
<1>7. DiskOK(o, g)
  <2>1. SUFFICES ASSUME NEW f \in DOMAIN g.disk
                 PROVE  Len(g.disk[f]) <= o.sizes[f] /\ g.disk[f] = Chunks(f, Len(g.disk[f]))
    BY DEF DiskOK
  <2>2. CASE f = e.currFile
    BY <1>1, <1>2, <1>3, <2>2
  <2>3. CASE f # e.currFile
    <3>1. f \in DOMAIN e.disk /\ g.disk[f] = e.disk[f]
      BY <2>3 DEF Grown
    <3> QED BY <3>1 DEF AtFileReceived, DiskOK
  <2> QED BY <2>2, <2>3
<1>8. AtFileReceived(o, g)
  <2>1. /\ g.currFile = e.currFile /\ g.name = e.name /\ g.total = e.total /\ g.totalSize = e.totalSize
        /\ g.size = e.size /\ g.pos = e.pos + n /\ g.totalPos = e.totalPos + n
        /\ g.skipped = e.skipped /\ DOMAIN g.disk = DOMAIN e.disk
    BY DEF Grown, SamePeer
  <2>2. g.totalPos = Sum(o, g.currFile - 1) + g.pos /\ g.pos <= g.size
    BY <1>1, <1>2, <2>1
  <2>3. ~(g.currFile = 0) /\ g.size = o.sizes[g.currFile] /\ (g.total = 0 => g.currFile = 0)
    BY <1>1, <2>1 DEF AtFileReceived
  <2>4. /\ g.currFile \in 0..Number(o) /\ g.name \in {NoFile, g.currFile}
        /\ g.total \in {0, Number(o)} /\ g.totalSize = Total(o)
        /\ g.skipped \subseteq 1 .. g.currFile /\ DOMAIN g.disk \subseteq 1 .. g.currFile
    BY <2>1 DEF AtFileReceived
  <2> QED BY <1>6, <1>7, <2>2, <2>3, <2>4 DEF AtFileReceived
<1>9. StreamOK(g)
  <2>1. /\ g.currFile = e.currFile /\ g.name = e.name /\ g.stream = e.stream /\ g.sheet = e.sheet /\ g.skipped = e.skipped
        /\ g.pos = e.pos + n /\ g.wanting = e.wanting /\ DOMAIN g.disk = DOMAIN e.disk
    BY DEF Grown, SameFlags
  <2> QED BY <1>1, <1>3, <2>1 DEF StreamOK
<1>10. ASSUME g.totalPos >= Total(o) PROVE AllStored(o, g)
  <2>1. SUFFICES ASSUME NEW f \in 1..Number(o) PROVE f \in g.skipped \/ Sum(o, f - 1) = Total(o) \/ Stored(o, g, f)
    BY DEF AllStored
  <2>2. g.totalPos = Sum(o, e.currFile - 1) + e.pos + n /\ g.currFile = e.currFile /\ Number(o) \in Nat
    BY <1>1 DEF Grown, OfferOK
  <2>3. Sum(o, e.currFile) \in Nat /\ Sum(o, e.currFile) <= Total(o)
    <3>1. e.currFile \in 0..Number(o) /\ Number(o) \in 0..Number(o) /\ e.currFile <= Number(o)
      BY <1>1, <2>2
    <3> QED BY <3>1, SumGrows DEF Total
  <2>4. CASE f < e.currFile
    BY <1>1, <1>6, <2>2, <2>4 DEF FilesBefore
  <2>5. CASE f = e.currFile
    <3>1. e.pos + n = e.size
      BY <1>1, <1>2, <1>10, <2>2, <2>3
    <3> QED BY <1>1, <1>3, <2>5, <3>1 DEF Stored, Grown
  <2>6. CASE f > e.currFile
    <3>1. f - 1 \in 0..Number(o) /\ e.currFile \in 0..Number(o) /\ e.currFile <= f - 1 /\ Number(o) \in 0..Number(o) /\ f - 1 <= Number(o)
      BY <1>1, <2>2, <2>6
    <3>2. Sum(o, f - 1) \in Nat /\ Sum(o, e.currFile) <= Sum(o, f - 1) /\ Sum(o, f - 1) <= Total(o)
      BY <3>1, SumGrows DEF Total
    <3>3. Sum(o, e.currFile - 1) + e.pos + n >= Total(o)
      BY <1>10, <2>2
    <3>4. Sum(o, e.currFile) >= Total(o)
      <4> DEFINE S == Sum(o, e.currFile - 1)
      <4>1. S \in Nat /\ Sum(o, e.currFile) = S + e.size /\ S + e.pos + n >= Total(o)
        BY <1>1, <3>3
      <4>2. e.pos \in Nat /\ e.size \in Nat /\ n \in Nat /\ Total(o) \in Nat /\ e.pos + n <= e.size
        BY <1>1, <1>2
      <4>3. S + e.size >= Total(o)
        <5> HIDE DEF S
        <5> QED BY <4>1, <4>2
      <4> QED BY <4>1, <4>3
    <3> QED BY <1>1, <2>3, <3>2, <3>4
  <2> QED BY <1>1, <2>2, <2>4, <2>5, <2>6
<1> QED BY <1>5, <1>8, <1>9, <1>10

\* What is left after the first packet
LEMMA Left ==
  ASSUME NEW tr \in Seq(Packet), tr # <<>>
  PROVE  /\ Tail(tr) \in Seq(Packet) /\ Len(tr) \in Nat \ {0} /\ Len(Tail(tr)) = Len(tr) - 1 /\ tr[1] = Head(tr)
         /\ \A i \in DOMAIN Tail(tr) : i \in Nat \ {0} /\ i + 1 \in DOMAIN tr /\ Tail(tr)[i] = tr[i + 1]
         /\ Tail(tr) = <<>> <=> Len(tr) = 1
         /\ Tail(tr) # <<>> => Tail(tr)[Len(Tail(tr))] = tr[Len(tr)]
<1>1. PICK t : t = Tail(tr)
  OBVIOUS
<1>2. t \in Seq(Packet) /\ Len(tr) \in Nat \ {0} /\ Len(t) = Len(tr) - 1 /\ tr[1] = Head(tr)
  BY <1>1
<1>3. \A i \in 1..Len(t) : t[i] = tr[i + 1]
  BY <1>1
<1>4. \A i \in DOMAIN t : i \in Nat \ {0} /\ i + 1 \in DOMAIN tr /\ t[i] = tr[i + 1]
  BY <1>2, <1>3
<1>5. t = <<>> <=> Len(tr) = 1
  BY <1>2
<1>6. t # <<>> => t[Len(t)] = tr[Len(tr)]
  <2>1. t # <<>> => Len(t) \in 1..Len(t) /\ Len(t) + 1 = Len(tr)
    BY <1>2
  <2> QED BY <1>3, <2>1
<1> QED BY <1>1, <1>2, <1>4, <1>5, <1>6

\* The rest of what is on its way continues an end that has grown.
LEMMA GrownContinues ==
  ASSUME NEW o, NEW f, f \in End, NEW n \in {0, 1}, Grows(o, f, n), NEW g, Grown(o, g, f, n), f.currFile > 0,
         NEW tr \in Seq(Packet), tr # <<>>, Continues(o, f, tr)
  PROVE  Continues(o, g, Tail(tr))
<1>1. /\ Tail(tr) \in Seq(Packet) /\ Len(tr) \in Nat \ {0} /\ Len(Tail(tr)) = Len(tr) - 1
      /\ \A i \in DOMAIN Tail(tr) : i \in Nat \ {0} /\ i + 1 \in DOMAIN tr /\ Tail(tr)[i] = tr[i + 1]
  BY Left
<1>2. /\ g.currFile = f.currFile /\ g.size = f.size /\ g.name = f.name /\ g.stream = f.stream /\ g.skipped = f.skipped
      /\ g.pos = f.pos + n /\ f.pos \in Nat /\ f.size \in Nat
      /\ f.size = 0 <=> n = 0
  BY DEF Grown, Grows, End
<1>3. SUFFICES ASSUME NEW i \in DOMAIN Tail(tr)
               PROVE  \/ /\ Tail(tr)[i] = Data(g, i) /\ g.currFile > 0 /\ g.stream = g.currFile
                         /\ g.size = 0 \/ g.pos + i <= g.size
                      \/ i = Len(Tail(tr)) /\ g.currFile < Number(o) /\ NextName(o, g, Tail(tr)[i]) /\ FileOver(g, i - 1)
  BY DEF Continues
<1>4. i \in Nat \ {0} /\ i + 1 \in DOMAIN tr /\ Tail(tr)[i] = tr[i + 1]
  BY <1>1
<1>5. f.size # 0 => g.pos + i = f.pos + (i + 1) /\ g.pos + (i - 1) = f.pos + i
  BY <1>2, <1>4
<1>6. CASE /\ tr[i + 1] = Data(f, i + 1) /\ f.stream = f.currFile
           /\ f.size = 0 \/ f.pos + (i + 1) <= f.size
  <2>1. Data(g, i) = Data(f, i + 1)
    BY <1>2, <1>5 DEF Data
  <2>2. g.size = 0 \/ g.pos + i <= g.size
    BY <1>2, <1>5, <1>6
  <2> QED BY <1>2, <1>4, <1>6, <2>1, <2>2
<1>7. CASE /\ i + 1 = Len(tr) /\ f.currFile < Number(o) /\ NextName(o, f, tr[i + 1]) /\ FileOver(f, (i + 1) - 1)
  <2>1. FileOver(g, i - 1)
    <3>1. (i + 1) - 1 = i
      BY <1>4
    <3>2. FileOver(f, i)
      BY <1>7, <3>1
    <3> QED BY <1>2, <1>5, <3>2 DEF FileOver
  <2>2. NextName(o, g, Tail(tr)[i])
    BY <1>2, <1>4, <1>7 DEF NextName
  <2>3. i = Len(Tail(tr))
    <3>1. i + 1 = Len(tr)
      BY <1>7
    <3>2. i \in Nat /\ Len(tr) \in Nat /\ Len(Tail(tr)) = Len(tr) - 1
      BY <1>1, <1>4
    <3> QED BY <3>1, <3>2
  <2> QED BY <1>2, <1>7, <2>1, <2>2, <2>3
<1> QED BY <1>4, <1>6, <1>7 DEF Continues

\* Both ends are where they were, with a chunk less between them.
LEMMA GrownJoint ==
  ASSUME NEW o, NEW f, f \in End, AtFileReceived(o, f), StreamOK(f), f.stream = f.currFile, f.currFile > 0,
         OfferOK(o), NEW n \in {0, 1}, Grows(o, f, n), NEW g, Grown(o, g, f, n), f.state = "CONNECTED", f.total # 0,
         NEW tr \in Seq(Packet), tr # <<>>, Head(tr).type = "06",
         NEW s, SenderOK(o, s), NEW ts, InStep(o, s, f, ts, tr)
  PROVE  InStep(o, s, g, ts, Tail(tr))
<1>1. /\ Tail(tr) \in Seq(Packet) /\ Len(tr) \in Nat \ {0} /\ Len(Tail(tr)) = Len(tr) - 1 /\ tr[1] = Head(tr)
      /\ \A i \in DOMAIN Tail(tr) : i \in Nat \ {0} /\ i + 1 \in DOMAIN tr /\ Tail(tr)[i] = tr[i + 1]
      /\ Tail(tr) = <<>> <=> Len(tr) = 1
      /\ Tail(tr) # <<>> => Tail(tr)[Len(Tail(tr))] = tr[Len(tr)]
  BY Left
<1>2. /\ g.currFile = f.currFile /\ g.size = f.size /\ g.name = f.name /\ g.stream = f.stream /\ g.skipped = f.skipped
      /\ g.pos = f.pos + n /\ f.pos \in Nat /\ f.size \in Nat /\ g.wanting = f.wanting
      /\ f.size = 0 <=> n = 0
  BY DEF Grown, Grows, End, SameFlags
<1>3. g.state = f.state /\ g.total = f.total
  BY DEF Grown, SamePeer
<1>4. ~Greeting(o, s, f, ts, tr)
  BY DEF Greeting
<1>5. CASE SameFile(s, f, ts, tr)
  <2>1. /\ s.currFile = f.currFile /\ s.name = f.name /\ s.continue
        /\ \A i \in DOMAIN tr : tr[i].type = "06"
        /\ s.size > 0 => f.pos + Len(tr) = s.pos
    BY <1>5 DEF SameFile
  <2>2. s.size = f.size
    <3>1. f.name = f.currFile /\ f.name # NoFile /\ f.size = o.sizes[f.currFile]
      BY OpenIs
    <3> QED BY <2>1, <3>1 DEF SenderOK, AtFile
  <2>3. s.size > 0 => g.pos + Len(Tail(tr)) = s.pos
    BY <1>1, <1>2, <2>1, <2>2
  <2>4. \A i \in DOMAIN Tail(tr) : Tail(tr)[i].type = "06"
    BY <1>1, <2>1
  <2>5. SameFile(s, g, ts, Tail(tr))
    BY <1>2, <1>5, <2>1, <2>3, <2>4 DEF SameFile
  <2>6. s.state = "CONNECTED"
    BY <1>4 DEF InStep
  <2> QED BY <1>3, <2>5, <2>6 DEF InStep
<1>6. CASE Ahead(s, f, ts, tr)
  <2>1. tr[Len(tr)] = Name(s.name, s.size)
    BY <1>6 DEF Ahead
  <2>2. tr[Len(tr)].type = "02"
    BY <2>1 DEF Name
  <2>3. Len(tr) # 1
    BY <1>1, <2>2
  <2>4. Ahead(s, g, ts, Tail(tr))
    BY <1>1, <1>2, <1>6, <2>3 DEF Ahead
  <2>5. s.state = "CONNECTED"
    BY <1>4 DEF InStep
  <2> QED BY <1>3, <2>4, <2>5 DEF InStep
<1> QED BY <1>4, <1>5, <1>6 DEF InStep

\* The last chunk completes the transfer.
LEMMA GrownFinishes ==
  ASSUME NEW o, NEW f, f \in End, AtFileReceived(o, f), StreamOK(f), f.stream = f.currFile, f.currFile > 0,
         OfferOK(o), NEW n \in {0, 1}, Grows(o, f, n), NEW g, Grown(o, g, f, n),
         NEW tr \in Seq(Packet), tr # <<>>, f.ev # "COMPLETE", Finishing(o, f, tr)
  PROVE  g.totalPos >= Total(o) \/ Finishing(o, g, Tail(tr))
<1>1. /\ Tail(tr) \in Seq(Packet) /\ Len(tr) \in Nat \ {0} /\ Len(Tail(tr)) = Len(tr) - 1
      /\ \A i \in DOMAIN Tail(tr) : i \in Nat \ {0} /\ i + 1 \in DOMAIN tr /\ Tail(tr)[i] = tr[i + 1]
      /\ Tail(tr) = <<>> <=> Len(tr) = 1
  BY Left
<1>2. /\ g.currFile = f.currFile /\ g.size = f.size /\ g.stream = f.stream /\ g.state = f.state /\ g.total = f.total
      /\ g.pos = f.pos + n /\ f.pos \in Nat /\ f.size \in Nat /\ f.totalPos \in Nat /\ g.totalPos = f.totalPos + n
      /\ f.size = 0 <=> n = 0
  BY DEF Grown, Grows, End, SamePeer
<1>3. /\ f.state = "CONNECTED" /\ f.total # 0 /\ f.currFile = Number(o) /\ f.stream = Number(o)
      /\ \A i \in DOMAIN tr : tr[i].type = "06"
      /\ f.size > 0 => f.pos + Len(tr) = f.size
  BY DEF Finishing
<1>4. CASE Len(tr) = 1
  <2>1. /\ f.totalPos = Sum(o, f.currFile - 1) + f.pos /\ Sum(o, f.currFile) = Sum(o, f.currFile - 1) + f.size
        /\ Sum(o, f.currFile - 1) \in Nat /\ f.pos <= f.size
    BY OpenIs
  <2>2. Sum(o, f.currFile) = Total(o)
    BY <1>3 DEF Total
  <2>3. f.pos + n = f.size
    BY <1>2, <1>3, <1>4, <2>1
  <2>4. g.totalPos = Sum(o, f.currFile - 1) + f.size
    BY <1>2, <2>1, <2>3
  <2> QED BY <1>2, <2>1, <2>2, <2>4
<1>5. CASE Len(tr) # 1
  <2>1. Tail(tr) # <<>> /\ \A i \in DOMAIN Tail(tr) : Tail(tr)[i].type = "06"
    BY <1>1, <1>3, <1>5
  <2>2. g.size > 0 => g.pos + Len(Tail(tr)) = g.size
    BY <1>1, <1>2, <1>3
  <2> QED BY <1>2, <1>3, <2>1, <2>2 DEF Finishing
<1> QED BY <1>4, <1>5

\* 06: a chunk of the file that the receiver is at.
LEMMA DataRead ==
  ASSUME OfferOK(offer), NEW r0, NEW f, NEW tr \in Seq(Packet), tr # <<>>, ReceiverMid(offer, r0, f, tr), ~f.thrown,
         f.state = "CONNECTED", f.total # 0, f.currFile > 0, f.stream = f.currFile, tr[1] = Data(f, 1),
         f.size = 0 \/ f.pos + 1 <= f.size
  PROVE  Advances(r0, f, tr, Parse(f, Head(tr)))
<1>1. /\ f \in End /\ f.out = <<>> /\ f.ev = r0.ev /\ f.incoming /\ StreamOK(f) /\ AtFileReceived(offer, f)
      /\ ToReceiver(offer, f, tr) /\ f.ev # "CANCELLED"
      /\ \A ts \in Seq(Packet) : ts \o f.out = ts
      /\ FinishMid(offer, r0, f, tr) => Finishing(offer, f, tr)
      /\ \A s : \A ts \in Seq(Packet) : BothMid(offer, s, f, ts, tr) => ToSender(offer, s, ts) /\ InStep(offer, s, f, ts, tr)
  BY MidIs
<1>2. PICK n \in {0, 1} : f.size = 0 <=> n = 0
  OBVIOUS
<1>3. Grows(offer, f, n)
  <2>1. f.currFile \in 1..Number(offer) /\ f.pos <= f.size /\ f.size \in Nat /\ f.pos \in Nat
    BY <1>1, OpenIs
  <2> QED BY <1>2, <2>1 DEF Grows
<1>4. Head(tr) = Data(f, 1) /\ Head(tr).type = "06" /\ Tail(tr) \in Seq(Packet)
  BY Left DEF Data
<1>5. PICK w : w = Write(f, Data(f, 1).data)
  OBVIOUS
<1>6. Grown(offer, w, f, n) /\ SameEvent(w, f) /\ w.thrown = f.thrown
  BY <1>1, <1>3, <1>5, WrittenIs
<1>7. PICK g : g = Parse(f, Head(tr))
  OBVIOUS
<1>8. f.totalSize = Total(offer) /\ w.totalSize = Total(offer)
  BY <1>1, <1>6 DEF AtFileReceived, Grown, SamePeer
<1>9. g = IF w.totalPos >= Total(offer) THEN Complete(w) ELSE w
  <2>1. g = ParsePacket(f, Head(tr))
    BY <1>7 DEF Parse
  <2>2. g = ParsePacket0x06(f, Head(tr))
    BY <1>4, <2>1 DEF ParsePacket
  <2> QED BY <1>4, <1>5, <1>8, <2>2 DEF ParsePacket0x06
<1>10. /\ Grown(offer, g, f, n)
       /\ g.thrown <=> w.totalPos >= Total(offer)
       /\ g.ev = IF w.totalPos >= Total(offer) THEN "COMPLETE" ELSE f.ev
       /\ g.totalPos = w.totalPos
  <2>1. CASE w.totalPos >= Total(offer)
    <3>1. g = Throw([w EXCEPT !.ev = "COMPLETE"])
      BY <1>9, <2>1 DEF Complete
    <3>2. w \in End /\ w.out = <<>>
      BY <1>6 DEF Grown
    <3>3. PICK ev \in EventStates : ev = "COMPLETE"
      BY DEF EventStates
    <3>4. /\ g \in End /\ g.out = w.out /\ g.thrown = TRUE /\ g.ev = ev
          /\ SamePlace(g, w) /\ SameFlags(g, w) /\ SamePeer(g, w) /\ SameWindow(g, w)
      BY <3>1, <3>2, <3>3, EndsWith
    <3>5. Grown(offer, g, f, n)
      BY <1>6, <3>2, <3>4 DEF Grown, SamePlace, SameFlags, SamePeer, SameWindow
    <3>6. g.totalPos = w.totalPos
      BY <3>4 DEF SamePlace
    <3> QED BY <2>1, <3>3, <3>4, <3>5, <3>6
  <2>2. CASE ~(w.totalPos >= Total(offer))
    BY <1>6, <1>9, <2>2 DEF SameEvent
  <2> QED BY <2>1, <2>2
<1>11. /\ AtFileReceived(offer, g) /\ StreamOK(g)
       /\ AllStored(offer, f) => AllStored(offer, g)
       /\ g.thrown => AllStored(offer, g)
  BY <1>1, <1>3, <1>10, GrownKeeps
<1>12. /\ g \in End /\ g.out = <<>> /\ g.client = "connected" /\ g.incoming = f.incoming /\ g.state = "CONNECTED"
       /\ g.total = f.total /\ g.window = f.window /\ g.window = r0.window /\ g.skipped = f.skipped
       /\ g.continue = f.continue /\ g.more = f.more /\ g.queued = f.queued
  BY <1>10 DEF Grown, SameFlags, SamePeer, ReceiverMid
<1>13. g.ev = f.ev \/ (g.ev = "COMPLETE" /\ g.thrown)
  BY <1>10
<1>14. g.thrown => g.ev = "COMPLETE"
  BY <1>10
<1>15. ReceiverOK(offer, g)
  <2>1. ReceiverOK(offer, f) /\ f.client = "connected"
    BY DEF ReceiverMid
  <2> QED BY <1>11, <1>12, <1>13, <1>14, <2>1 DEF ReceiverOK
<1>16. ToReceiver(offer, g, Tail(tr))
  <2>1. Continues(offer, f, tr)
    BY <1>1 DEF ToReceiver
  <2>2. Continues(offer, g, Tail(tr))
    BY <1>1, <1>3, <1>10, <2>1, GrownContinues
  <2> QED BY <1>12, <2>2 DEF ToReceiver
<1>17. ReceiverMid(offer, r0, g, Tail(tr))
  BY <1>1, <1>12, <1>13, <1>15, <1>16 DEF ReceiverMid
<1>18. ASSUME NEW s, NEW ts \in Seq(Packet), SenderOK(offer, s), BothMid(offer, s, f, ts, tr)
       PROVE  BothMid(offer, s, g, ts, Tail(tr))
  <2>1. ToSender(offer, s, ts) /\ InStep(offer, s, f, ts, tr)
    BY <1>1, <1>18
  <2>2. InStep(offer, s, g, ts, Tail(tr))
    BY <1>1, <1>3, <1>4, <1>10, <1>18, <2>1, GrownJoint
  <2>3. ts \o g.out = ts
    BY <1>1, <1>12
  <2> QED BY <1>12, <1>14, <2>1, <2>2, <2>3 DEF BothMid
<1>19. FinishMid(offer, r0, f, tr) => FinishMid(offer, r0, g, Tail(tr))
  <2>1. SUFFICES ASSUME FinishMid(offer, r0, f, tr) PROVE FinishMid(offer, r0, g, Tail(tr))
    OBVIOUS
  <2>2. Finishing(offer, f, tr)
    BY <1>1, <2>1
  <2>3. Finishing(offer, g, Tail(tr))
    <3>1. CASE f.ev = "COMPLETE" \/ g.thrown
      BY <1>13, <1>14, <3>1 DEF Finishing
    <3>2. CASE f.ev # "COMPLETE" /\ ~g.thrown
      BY <1>1, <1>3, <1>10, <2>2, <3>2, GrownFinishes
    <3> QED BY <3>1, <3>2
  <2> QED BY <1>12, <1>14, <2>3 DEF FinishMid
<1> QED BY <1>7, <1>17, <1>18, <1>19 DEF Advances

\* A file is named, and wanted; p is its packet.
Naming(g, f, p) ==
    /\ g \in End /\ g.currFile = f.currFile + 1 /\ g.size = p.size /\ g.name = p.name /\ g.pos = 0
    /\ g.totalPos = (f.totalPos + f.size) - f.pos /\ g.stream = f.stream
    /\ g.wanting /\ g.more = f.more /\ g.continue = f.continue /\ g.queued = f.queued
    /\ SamePeer(g, f) /\ SameWindow(g, f) /\ SameEvent(g, f) /\ g.thrown = f.thrown /\ g.out = f.out

LEMMA NamingIs ==
  ASSUME NEW f \in End, f.pos <= f.size, NEW p, p.name \in Nat, p.size \in Nat
  PROVE  Naming([CountFile(f) EXCEPT !.size = p.size, !.currFile = @ + 1, !.name = p.name, !.wanting = TRUE], f, p)
<1>1. PICK t \in Nat : t = (f.totalPos + f.size) - f.pos
  BY DEF End
<1>2. PICK c \in Nat : c = f.currFile + 1
  BY DEF End
<1>3. PICK a : a = CountFile(f)
  OBVIOUS
<1>4. a = [f EXCEPT !.totalPos = t, !.pos = 0]
  BY <1>1, <1>3 DEF CountFile, End
<1>5. a \in End
  BY <1>1, <1>4 DEF End
<1>6. /\ a.currFile = f.currFile /\ a.pos = 0 /\ a.totalPos = t /\ a.stream = f.stream
      /\ SameFlags(a, f) /\ SamePeer(a, f) /\ SameWindow(a, f) /\ SameEvent(a, f) /\ a.thrown = f.thrown /\ a.out = f.out
  BY <1>4, <1>5 DEF End, SameFlags, SamePeer, SameWindow, SameEvent
<1>7. PICK size \in Nat : size = p.size
  OBVIOUS
<1>8. PICK name \in Nat : name = p.name
  OBVIOUS
<1>9. PICK g : g = [a EXCEPT !.size = size, !.currFile = c, !.name = name, !.wanting = TRUE]
  OBVIOUS
<1>10. g = [CountFile(f) EXCEPT !.size = p.size, !.currFile = @ + 1, !.name = p.name, !.wanting = TRUE]
  BY <1>2, <1>3, <1>5, <1>6, <1>7, <1>8, <1>9 DEF End
<1>11. g \in End
  BY <1>5, <1>9 DEF End
<1>12. g.currFile = c /\ g.size = size /\ g.name = name /\ g.pos = a.pos /\ g.totalPos = a.totalPos /\ g.stream = a.stream
  BY <1>5, <1>9, <1>11 DEF End
<1>13. g.wanting /\ g.more = a.more /\ g.continue = a.continue /\ g.queued = a.queued
  BY <1>5, <1>9, <1>11 DEF End
<1>14. SamePeer(g, a) /\ SameWindow(g, a) /\ SameEvent(g, a) /\ g.thrown = a.thrown /\ g.out = a.out
  BY <1>5, <1>9, <1>11 DEF End, SamePeer, SameWindow, SameEvent
<1>15. SamePeer(g, f) /\ SameWindow(g, f) /\ SameEvent(g, f)
  BY <1>6, <1>14 DEF SamePeer, SameWindow, SameEvent
<1>16. g.more = f.more /\ g.continue = f.continue /\ g.queued = f.queued
  BY <1>6, <1>13 DEF SameFlags
<1>17. Naming(g, f, p)
  BY <1>1, <1>2, <1>6, <1>7, <1>8, <1>11, <1>12, <1>13, <1>14, <1>15, <1>16 DEF Naming
<1> QED BY <1>10, <1>17

\* The file before is over: it is on the disk, or was skipped.
LEMMA OverIs ==
  ASSUME NEW o, OfferOK(o), NEW f, f \in End, AtFileReceived(o, f), StreamOK(f), f.total # 0, FileOver(f, 0)
  PROVE  /\ ~f.wanting /\ f.sheet = "none" /\ f.pos <= f.size
         /\ f.currFile # 0 => f.currFile \in f.skipped \/ Stored(o, f, f.currFile)
         /\ f.currFile = 0 \/ f.name # NoFile => (f.totalPos + f.size) - f.pos = Sum(o, f.currFile)
<1>1. f.currFile \in 0..Number(o) /\ Number(o) \in Nat /\ f.pos \in Nat /\ f.size \in Nat /\ f.totalPos \in Nat
  BY DEF AtFileReceived, OfferOK, End
<1>2. f.sheet \in {"none", "conflict"} /\ f.wanting \in BOOLEAN
  BY DEF End
<1>3. CASE f.currFile = 0
  <2>1. f.pos = 0 /\ f.totalPos = 0 /\ ~f.wanting /\ f.sheet = "none" /\ f.size = 0
    BY <1>3 DEF AtFileReceived
  <2>2. Sum(o, 0) = 0
    BY SumStep
  <2> QED BY <1>3, <2>1, <2>2
<1>4. CASE f.currFile # 0
  <2>1. f.currFile \in 1..Number(o) /\ f.currFile > 0
    BY <1>1, <1>4
  <2>2. ~f.wanting
    BY <1>4, <2>1 DEF FileOver, StreamOK
  <2>3. f.sheet = "none"
    BY <1>2, <2>2 DEF StreamOK
  <2>4. f.pos <= f.size
    <3>1. CASE f.name = NoFile
      <4>1. f.stream # f.currFile
        BY <1>4, <2>1, <3>1 DEF StreamOK, NoFile
      <4> QED BY <1>1, <2>1, <4>1 DEF StreamOK
    <3>2. CASE f.name # NoFile
      BY <3>2 DEF AtFileReceived
    <3> QED BY <3>1, <3>2
  <2>5. f.currFile \in f.skipped \/ Stored(o, f, f.currFile)
    <3>1. CASE f.currFile \in f.skipped
      BY <3>1
    <3>2. CASE f.currFile \notin f.skipped
      <4>1. f.stream = f.currFile /\ (f.size = 0 \/ f.pos = f.size)
        BY <1>1, <1>4, <3>2 DEF FileOver
      <4>2. f.currFile \in DOMAIN f.disk /\ f.size = o.sizes[f.currFile] /\ Len(f.disk[f.currFile]) = f.pos /\ f.pos <= f.size
        BY <2>1, <4>1, OpenIs
      <4> QED BY <1>1, <4>1, <4>2 DEF Stored
    <3> QED BY <3>1, <3>2
  <2>6. ASSUME f.name # NoFile PROVE (f.totalPos + f.size) - f.pos = Sum(o, f.currFile)
    <3>1. f.size = o.sizes[f.currFile] /\ f.totalPos = Sum(o, f.currFile - 1) + f.pos
      BY <2>6 DEF AtFileReceived
    <3>2. Sum(o, f.currFile) = Sum(o, f.currFile - 1) + f.size
      BY <2>1, <3>1, SumStep
    <3>3. Sum(o, f.currFile - 1) \in Nat
      <4>1. f.currFile - 1 \in 0..Number(o)
        BY <1>1, <2>1
      <4> QED BY <4>1, SumGrows
    <3> QED BY <1>1, <3>1, <3>2, <3>3
  <2> QED BY <1>4, <2>2, <2>3, <2>4, <2>5, <2>6
<1> QED BY <1>3, <1>4

LEMMA NamingOK ==
  ASSUME NEW o, OfferOK(o), NEW f, ReceiverOK(o, f), f.client = "connected", ~f.thrown, f.total # 0, f.state = "CONNECTED",
         f.currFile < Number(o), NEW p, NextName(o, f, p), FileOver(f, 0), NEW g, Naming(g, f, p)
  PROVE  /\ ReceiverOK(o, g) /\ f.ev # "COMPLETE" /\ ~f.wanting /\ g.sheet = "none"
         /\ g.currFile \in 1..Number(o) /\ g.currFile \notin g.skipped /\ g.stream # g.currFile
         /\ g.name \in {NoFile, g.currFile}
<1>1. f \in End /\ AtFileReceived(o, f) /\ StreamOK(f)
  BY DEF ReceiverOK
<1>2. PICK c \in Nat : c = f.currFile
  BY <1>1 DEF End
<1>3. /\ ~f.wanting /\ f.sheet = "none"
      /\ c # 0 => c \in f.skipped \/ Stored(o, f, c)
      /\ c = 0 \/ f.name # NoFile => (f.totalPos + f.size) - f.pos = Sum(o, c)
  BY <1>1, <1>2, OverIs
<1>4. c + 1 \in 1..Number(o) /\ Number(o) \in Nat /\ c < Number(o)
  BY <1>2 DEF OfferOK
<1>5. f.skipped \subseteq 1..c /\ DOMAIN f.disk \subseteq 1..c /\ c + 1 \notin 1..c /\ 1..c \subseteq 1 .. c + 1 /\ Number(o) \notin 1..c
  BY <1>1, <1>2, <1>4 DEF AtFileReceived
<1>6. f.ev # "COMPLETE"
  BY <1>5 DEF ReceiverOK
<1>7. /\ g \in End /\ g.currFile = c + 1 /\ g.size = p.size /\ g.name = p.name /\ g.pos = 0 /\ g.stream = f.stream
      /\ g.totalPos = (f.totalPos + f.size) - f.pos /\ g.wanting
      /\ g.sheet = "none" /\ g.skipped = f.skipped /\ g.disk = f.disk
      /\ g.total = f.total /\ g.totalSize = f.totalSize
  BY <1>2, <1>3 DEF Naming, SamePeer, SameWindow
<1>8. \/ g.name = c + 1 /\ g.size = o.sizes[c + 1] /\ (c = 0 \/ f.name # NoFile)
      \/ g.name = NoFile
  BY <1>2, <1>7 DEF NextName, Name
<1>9. FilesBefore(o, g)
  <2>1. SUFFICES ASSUME NEW k \in 1 .. (c + 1) - 1 PROVE k \in f.skipped \/ Stored(o, f, k)
    BY <1>7 DEF FilesBefore, Stored
  <2>2. k \in 1..c /\ (k = c \/ k \in 1 .. c - 1)
    OBVIOUS
  <2> QED BY <1>1, <1>2, <1>3, <2>2 DEF AtFileReceived, FilesBefore
<1>10. DiskOK(o, g)
  BY <1>1, <1>7 DEF AtFileReceived, DiskOK
<1>11. AtFileReceived(o, g)
  <2>1. g.name # NoFile => /\ g.size = o.sizes[g.currFile] /\ g.pos <= g.size
                           /\ g.totalPos = Sum(o, g.currFile - 1) + g.pos
    <3>1. SUFFICES ASSUME g.name # NoFile PROVE g.size = o.sizes[g.currFile] /\ g.pos <= g.size /\ g.totalPos = Sum(o, g.currFile - 1) + g.pos
      OBVIOUS
    <3>2. g.size = o.sizes[c + 1] /\ (c = 0 \/ f.name # NoFile)
      BY <1>8, <3>1
    <3>3. g.totalPos = Sum(o, c) /\ g.totalPos \in Nat /\ g.size \in Nat /\ (c + 1) - 1 = c
      BY <1>3, <1>7, <3>2 DEF End
    <3> QED BY <1>7, <3>2, <3>3
  <2>2. g.currFile \in 0..Number(o) /\ g.name \in {NoFile, g.currFile} /\ g.currFile # 0
    BY <1>4, <1>7, <1>8
  <2>3. g.total \in {0, Number(o)} /\ g.totalSize = Total(o) /\ g.total # 0
    BY <1>1, <1>7 DEF AtFileReceived
  <2>4. g.skipped \subseteq 1 .. g.currFile /\ DOMAIN g.disk \subseteq 1 .. g.currFile
    BY <1>5, <1>7
  <2> QED BY <1>9, <1>10, <2>1, <2>2, <2>3, <2>4 DEF AtFileReceived
<1>12. StreamOK(g)
  <2>1. f.stream \in 0..c
    BY <1>1, <1>2 DEF StreamOK
  <2>2. f.stream \in 0 .. c + 1 /\ f.stream # c + 1
    BY <2>1
  <2>3. c + 1 \notin f.skipped /\ c + 1 \notin DOMAIN f.disk
    BY <1>5
  <2> QED BY <1>7, <2>2, <2>3 DEF StreamOK
<1>13. ReceiverOK(o, g)
  <2>1. /\ g.more = f.more /\ g.continue = f.continue /\ g.queued = f.queued /\ g.client = f.client /\ g.incoming = f.incoming
        /\ g.state = f.state /\ g.window = f.window /\ g.ev = f.ev /\ g.thrown = f.thrown
    BY DEF Naming, SamePeer, SameWindow, SameEvent
  <2>2. Number(o) \notin g.skipped
    BY <1>5, <1>7
  <2> QED BY <1>6, <1>7, <1>11, <1>12, <2>1, <2>2 DEF ReceiverOK
<1>14. g.currFile \notin g.skipped /\ g.stream # g.currFile
  <2>1. f.stream \in 0..c /\ c + 1 \notin 0..c
    BY <1>1, <1>2 DEF StreamOK
  <2> QED BY <1>5, <1>7, <2>1
<1> QED BY <1>3, <1>4, <1>6, <1>7, <1>8, <1>13, <1>14

\* The window asks, or the file cannot be opened: nothing is said yet.
Waits(g, e) ==
    /\ g.currFile = e.currFile /\ g.size = e.size /\ g.pos = e.pos /\ g.name = e.name
    /\ g.stream # g.currFile /\ g.wanting = e.wanting /\ g.skipped = e.skipped
    /\ g.state = e.state /\ g.total = e.total /\ g.out = <<>>

\* The file that was named is wanted.
LEMMA WantedIs ==
  ASSUME OfferOK(offer), NEW e, ReceiverOK(offer, e), e.client = "connected", ~e.thrown, e.out = <<>>,
         e.wanting, e.sheet = "none", e.stream # e.currFile, e.currFile \in 1..Number(offer), e.currFile \notin e.skipped,
         e.name \in {NoFile, e.currFile}
  PROVE  LET g == WantFileToReceive(e) IN
         /\ ReceiverOK(offer, g) /\ g.client = "connected" /\ ~g.thrown /\ g.ev = e.ev /\ g.window = e.window
         /\ \/ Waits(g, e)
            \/ /\ AnswerSent(g, e)
               /\ \E p \in Packet : p.type = "03" /\ AnswerOK(offer, e, g, p) /\ g.out = <<p>>
<1>1. e \in End /\ AtFileReceived(offer, e) /\ StreamOK(e)
  BY DEF ReceiverOK
<1>2. PICK g : g = WantFileToReceive(e)
  OBVIOUS
<1>3. CASE g = e
  BY <1>2, <1>3 DEF Waits
<1>4. CASE g = [e EXCEPT !.sheet = "conflict"]
  <2>1. g \in End
    BY <1>1, <1>4 DEF End
  <2>2. SamePlace(g, e) /\ SameFlags(g, e) /\ SamePeer(g, e) /\ SameEvent(g, e) /\ g.thrown = e.thrown /\ g.out = e.out
    BY <1>1, <1>4, <2>1 DEF End, SamePlace, SameFlags, SamePeer, SameEvent
  <2>3. g.disk = e.disk /\ g.skipped = e.skipped /\ g.window = e.window /\ g.sheet = "conflict"
    BY <1>1, <1>4, <2>1 DEF End
  <2>4. Waits(g, e)
    BY <2>2, <2>3 DEF Waits, SamePlace, SameFlags, SamePeer
  <2>5. FilesBefore(offer, g) /\ DiskOK(offer, g) /\ (AllStored(offer, e) => AllStored(offer, g))
    BY <1>1, <2>2, <2>3 DEF AtFileReceived, FilesBefore, DiskOK, AllStored, Stored, SamePlace
  <2>6. AtFileReceived(offer, g)
    <3>1. g.currFile # 0
      BY <2>2 DEF SamePlace, OfferOK
    <3> QED BY <1>1, <2>2, <2>3, <2>5, <3>1 DEF AtFileReceived, SamePlace, SameFlags, SamePeer
  <2>7. StreamOK(g)
    BY <1>1, <2>2, <2>3 DEF StreamOK, SamePlace, SameFlags
  <2>8. ReceiverOK(offer, g)
    BY <2>1, <2>2, <2>3, <2>5, <2>6, <2>7 DEF ReceiverOK, SameFlags, SamePeer, SameEvent
  <2> QED BY <1>2, <2>2, <2>3, <2>4, <2>8 DEF SamePeer, SameEvent
<1>5. CASE g = [e EXCEPT !.stream = NoFile]
  <2>1. g \in End
    BY <1>1, <1>5 DEF End, NoFile
  <2>2. /\ g.currFile = e.currFile /\ g.size = e.size /\ g.pos = e.pos /\ g.totalPos = e.totalPos /\ g.name = e.name
        /\ g.stream = NoFile /\ g.thrown = e.thrown /\ g.out = e.out
    BY <1>1, <1>5, <2>1 DEF End
  <2>3. SameFlags(g, e) /\ SamePeer(g, e) /\ SameEvent(g, e) /\ SameWindow(g, e)
    BY <1>1, <1>5, <2>1 DEF End, SameFlags, SamePeer, SameEvent, SameWindow
  <2>4. g.currFile # NoFile /\ g.currFile \in Nat
    BY <2>2 DEF NoFile, OfferOK
  <2>5. Waits(g, e)
    BY <2>2, <2>3, <2>4 DEF Waits, SameFlags, SamePeer, SameWindow
  <2>6. SameFiles(g, e)
    BY <2>2, <2>3 DEF SameFiles, SameFlags, SamePeer, SameWindow
  <2>7. AtFileReceived(offer, g) /\ (AllStored(offer, e) => AllStored(offer, g))
    BY <1>1, <2>6, SameFilesKeeps
  <2>8. StreamOK(g)
    <3>1. NoFile \in 0..g.currFile
      BY <2>4 DEF NoFile
    <3> QED BY <1>1, <2>2, <2>3, <2>4, <3>1 DEF StreamOK, SameFlags, SameWindow
  <2>9. ReceiverOK(offer, g)
    BY <2>1, <2>2, <2>3, <2>7, <2>8 DEF ReceiverOK, SameFlags, SamePeer, SameEvent, SameWindow
  <2> QED BY <1>2, <2>2, <2>3, <2>5, <2>9 DEF SamePeer, SameEvent, SameWindow
<1>6. CASE g = ReceiveFile(Opened(e, e.name)) /\ e.name # NoFile
  <2>1. e.name = e.currFile /\ e.currFile \in Nat
    BY <1>1, <1>6 DEF End
  <2>2. PICK p : p = [type |-> "03", pos |-> 0, file |-> e.currFile]
    OBVIOUS
  <2>3. p \in Packet /\ p.type = "03" /\ p.file = e.currFile
    BY <2>1, <2>2 DEF Packet
  <2>4. Opening(g, e) /\ g.out = Append(e.out, p)
    BY <1>1, <1>6, <2>1, <2>2, OpeningIs
  <2>5. ReceiverOK(offer, g) /\ AnswerSent(g, e) /\ AnswerOK(offer, e, g, p)
    BY <2>1, <2>3, <2>4, OpeningOK
  <2>6. g.out = <<p>>
    BY <2>4
  <2>7. g.client = "connected" /\ ~g.thrown /\ g.ev = e.ev /\ g.window = e.window
    BY <2>4 DEF Opening, SamePeer, SameEvent
  <2> QED BY <1>2, <2>3, <2>5, <2>6, <2>7
<1>7. g = e \/ g = [e EXCEPT !.sheet = "conflict"] \/ g = [e EXCEPT !.stream = NoFile]
      \/ (g = ReceiveFile(Opened(e, e.name)) /\ e.name # NoFile)
  <2>1. CASE e.ev # "RECEIVE"
    BY <1>2, <2>1 DEF WantFileToReceive
  <2>2. CASE e.ev = "RECEIVE" /\ e.name \in offer.existing \cup {NoFile}
    BY <1>2, <2>2 DEF WantFileToReceive
  <2>3. CASE e.ev = "RECEIVE" /\ e.name \notin offer.existing \cup {NoFile}
    <3>1. g = OpenAndReceive(e, e.name)
      BY <1>2, <2>3 DEF WantFileToReceive
    <3> QED BY <2>3, <3>1 DEF OpenAndReceive
  <2> QED BY <2>1, <2>2, <2>3
<1> QED BY <1>3, <1>4, <1>5, <1>6, <1>7

\* 02: the name of the next file.
LEMMA NameRead ==
  ASSUME OfferOK(offer), NEW r0, NEW f, NEW tr \in Seq(Packet), tr # <<>>, ReceiverMid(offer, r0, f, tr), ~f.thrown,
         f.state = "CONNECTED", f.total # 0, Len(tr) = 1, f.currFile < Number(offer), NextName(offer, f, tr[1]), FileOver(f, 0)
  PROVE  Advances(r0, f, tr, Parse(f, Head(tr)))
<1>1. /\ f \in End /\ f.out = <<>> /\ f.ev = r0.ev /\ StreamOK(f) /\ AtFileReceived(offer, f) /\ Head(tr) \in Packet
      /\ \A ts \in Seq(Packet) : ts \o f.out = ts
      /\ FinishMid(offer, r0, f, tr) => Finishing(offer, f, tr)
      /\ \A s : \A ts \in Seq(Packet) : BothMid(offer, s, f, ts, tr) => ToSender(offer, s, ts) /\ InStep(offer, s, f, ts, tr)
  BY MidIs
<1>2. f.client = "connected" /\ ReceiverOK(offer, f) /\ f.window = r0.window
  BY DEF ReceiverMid
<1>3. PICK p : p = Head(tr)
  OBVIOUS
<1>4. p = tr[1] /\ Tail(tr) = <<>> /\ 1 \in DOMAIN tr /\ p \in Packet
  BY <1>1, <1>3, Left, FirstIs
<1>5. p.type = "02" /\ p.name \in Nat /\ p.size \in Nat
  <2>1. p.type = "02"
    BY <1>4 DEF NextName, Name
  <2> QED BY <1>4, <2>1, PacketIs
<1>6. f.pos <= f.size
  BY <1>1, OverIs
<1>7. PICK e : e = [CountFile(f) EXCEPT !.size = p.size, !.currFile = @ + 1, !.name = p.name, !.wanting = TRUE]
  OBVIOUS
<1>8. Naming(e, f, p)
  BY <1>1, <1>5, <1>6, <1>7, NamingIs
<1>9. /\ ReceiverOK(offer, e) /\ f.ev # "COMPLETE" /\ ~f.wanting /\ e.sheet = "none"
      /\ e.currFile \in 1..Number(offer) /\ e.currFile \notin e.skipped /\ e.stream # e.currFile
      /\ e.name \in {NoFile, e.currFile}
  BY <1>2, <1>4, <1>8, NamingOK
<1>10. /\ e.client = "connected" /\ ~e.thrown /\ e.out = <<>> /\ e.wanting /\ e.state = "CONNECTED" /\ e.total = f.total
       /\ e.ev = f.ev /\ e.window = f.window
  BY <1>1, <1>2, <1>8 DEF Naming, SamePeer, SameEvent, SameWindow
<1>11. PICK g : g = Parse(f, p)
  OBVIOUS
<1>12. g = WantFileToReceive(e)
  <2>1. g = ParsePacket(f, p)
    BY <1>11 DEF Parse
  <2> QED BY <1>5, <1>7, <2>1 DEF ParsePacket, ParsePacket0x02
<1>13. /\ ReceiverOK(offer, g) /\ g.client = "connected" /\ ~g.thrown /\ g.ev = e.ev /\ g.window = e.window
       /\ \/ Waits(g, e)
          \/ /\ AnswerSent(g, e)
             /\ \E q \in Packet : q.type = "03" /\ AnswerOK(offer, e, g, q) /\ g.out = <<q>>
  BY <1>9, <1>10, <1>12, WantedIs
<1>14. g.state = "CONNECTED" /\ g.total = f.total
  BY <1>10, <1>13 DEF Waits, AnswerSent
<1>15. ReceiverMid(offer, r0, g, Tail(tr))
  BY <1>1, <1>2, <1>4, <1>10, <1>13, NothingToRead DEF ReceiverMid
<1>16. ASSUME NEW s, NEW ts \in Seq(Packet), SenderOK(offer, s), SenderGoes(offer, s), BothMid(offer, s, f, ts, tr)
       PROVE  BothMid(offer, s, g, ts, Tail(tr))
  <2>1. ToSender(offer, s, ts) /\ InStep(offer, s, f, ts, tr)
    BY <1>1, <1>16
  <2>2. Ahead(s, f, ts, tr) /\ s.state = "CONNECTED"
    <3>1. ~Greeting(offer, s, f, ts, tr)
      BY DEF Greeting
    <3>2. ~SameFile(s, f, ts, tr)
      BY <1>4, <1>5 DEF SameFile
    <3> QED BY <2>1, <3>1, <3>2 DEF InStep
  <2>3. f.currFile \in Nat /\ e.currFile = f.currFile + 1
    BY <1>1, <1>8 DEF End, Naming
  <2>4. /\ s.currFile = e.currFile /\ ~s.continue /\ p = Name(s.name, s.size)
        /\ \A i \in DOMAIN ts : ts[i].type = "04" /\ ts[i].file <= f.currFile /\ ts[i].file \in Nat
    <3>1. \A i \in DOMAIN ts : ts[i] \in Packet
      OBVIOUS
    <3> QED BY <1>4, <2>2, <2>3, <3>1, PacketIs DEF Ahead
  <2>5. s.name = e.name /\ s.size = e.size
    BY <1>8, <2>4 DEF Naming, Name
  <2>6. s.pos = 0 /\ ~s.more
    BY <1>16, <2>4 DEF SenderGoes
  <2>7. \A i \in DOMAIN ts : ts[i].file <= e.currFile /\ ts[i].file # e.currFile /\ ts[i].file # Number(offer)
    <3>1. f.currFile < Number(offer) /\ Number(offer) \in Nat
      BY DEF OfferOK
    <3> QED BY <2>3, <2>4, <3>1
  <2>8. SameFile(s, e, ts, <<>>)
    <3>1. \A i \in DOMAIN <<>> : FALSE
      OBVIOUS
    <3>2. Len(<<>>) = 0
      OBVIOUS
    <3>3. e.pos = 0 /\ e.currFile > 0
      BY <1>8, <2>3 DEF Naming
    <3> QED BY <2>4, <2>5, <2>6, <2>7, <3>1, <3>2, <3>3 DEF SameFile
  <2>9. Stuck(offer, s, ts)
    BY <2>4, <2>7 DEF Stuck
  <2>10. CASE Waits(g, e)
    <3>1. g.out = <<>> /\ ts \o g.out = ts
      BY <1>1, <2>10 DEF Waits
    <3>2. SameFile(s, g, ts, <<>>)
      BY <2>4, <2>6, <2>8, <2>10 DEF SameFile, Waits
    <3>3. InStep(offer, s, g, ts, <<>>)
      BY <1>14, <2>2, <3>2 DEF InStep
    <3> QED BY <1>4, <1>13, <2>1, <3>1, <3>3 DEF BothMid
  <2>11. CASE /\ AnswerSent(g, e)
              /\ \E q \in Packet : q.type = "03" /\ AnswerOK(offer, e, g, q) /\ g.out = <<q>>
    <3>1. PICK q \in Packet : q.type = "03" /\ AnswerOK(offer, e, g, q) /\ g.out = <<q>>
      BY <2>11
    <3>2. ts \o g.out = Append(ts, q)
      BY <3>1, Added
    <3>3. s.currFile > 0 /\ Asked(offer, s, ts)
      BY <2>1, <2>2, <2>3, <2>4 DEF ToSender
    <3>4. Asked(offer, s, Append(ts, q))
      BY <1>16, <2>3, <2>8, <3>1, <3>3, AnswerAsked
    <3>5. ToSender(offer, s, Append(ts, q))
      <4>1. s.state = "CONNECTED" /\ ~(s.currFile = 0)
        BY <2>2, <2>3, <2>4
      <4> QED BY <3>4, <4>1 DEF ToSender
    <3>6. SameFile(s, g, Append(ts, q), <<>>)
      BY <1>9, <2>8, <2>11, <3>1, AnswerSame
    <3>7. InStep(offer, s, g, Append(ts, q), <<>>)
      BY <1>14, <2>2, <3>6 DEF InStep
    <3>8. ts \o Front(g.out) = ts
      <4>1. Front(<<q>>) = <<>>
        BY DEF Front
      <4>2. ts \o <<>> = ts
        BY ConcatEmptySeq
      <4> QED BY <3>1, <4>1, <4>2
    <3> QED BY <1>4, <1>13, <2>9, <3>2, <3>5, <3>7, <3>8 DEF BothMid
  <2> QED BY <1>13, <2>10, <2>11
<1>17. ~FinishMid(offer, r0, f, tr)
  <2>1. ~Finishing(offer, f, tr)
    BY <1>4, <1>5, <1>9 DEF Finishing
  <2> QED BY <1>1, <2>1
<1> QED BY <1>3, <1>11, <1>15, <1>16, <1>17 DEF Advances

LEMMA ReceiverParses ==
  ASSUME OfferOK(offer), NEW r0, NEW f, NEW tr \in Seq(Packet), tr # <<>>, ReceiverMid(offer, r0, f, tr)
  PROVE  Advances(r0, f, tr, Parse(f, Head(tr)))
<1>1. CASE f.thrown
  <2>1. Parse(f, Head(tr)) = f
    BY <1>1 DEF Parse
  <2>2. ReceiverMid(offer, r0, f, Tail(tr))
    BY <1>1 DEF ReceiverMid
  <2>3. \A s : \A ts \in Seq(Packet) : BothMid(offer, s, f, ts, tr) => BothMid(offer, s, f, ts, Tail(tr))
    BY <1>1 DEF BothMid
  <2>4. FinishMid(offer, r0, f, tr) => FinishMid(offer, r0, f, Tail(tr))
    BY <1>1 DEF FinishMid, Finishing
  <2> QED BY <2>1, <2>2, <2>3, <2>4 DEF Advances
<1>2. CASE ~f.thrown
  <2>1. f.state \in {"WAITING_FOR_INIT", "WAITING_FOR_INIT_ACK", "CONNECTED"} /\ ToReceiver(offer, f, tr)
    BY <1>2, MidIs
  <2>2. CASE f.state = "WAITING_FOR_INIT"
    BY <1>2, <2>2, GreetRead
  <2>3. CASE f.state = "WAITING_FOR_INIT_ACK"
    BY <1>2, <2>3, AckConfirms
  <2>4. CASE f.state = "CONNECTED" /\ f.total = 0
    BY <1>2, <2>4, HelloRead
  <2>5. CASE f.state = "CONNECTED" /\ f.total # 0
    <3>1. 1 \in DOMAIN tr /\ 1 - 1 = 0
      BY FirstIs
    <3>2. \/ /\ tr[1] = Data(f, 1) /\ f.currFile > 0 /\ f.stream = f.currFile
             /\ f.size = 0 \/ f.pos + 1 <= f.size
          \/ Len(tr) = 1 /\ f.currFile < Number(offer) /\ NextName(offer, f, tr[1]) /\ FileOver(f, 0)
      BY <2>1, <2>5, <3>1 DEF ToReceiver, Continues
    <3> QED BY <1>2, <2>5, <3>2, DataRead, NameRead
  <2> QED BY <2>1, <2>2, <2>3, <2>4, <2>5
<1> QED BY <1>1, <1>2

\* A receiver that has read some of what came: what the lemmas above say of
\* one packet they say of all of them.
LEMMA ReceiverRecv ==
  ASSUME OfferOK(offer), NEW r, NEW tr \in Seq(Packet), ReceiverMid(offer, r, r, tr), NEW n \in 0..Len(tr),
         NEW s, SenderOK(offer, s), NEW ts \in Seq(Packet)
  PROVE  LET g == Recv(r, SubSeq(tr, 1, n))
             rest == SubSeq(tr, n + 1, Len(tr))
         IN  /\ ReceiverMid(offer, r, g, rest)
             /\ SenderGoes(offer, s) /\ BothMid(offer, s, r, ts, tr) => BothMid(offer, s, g, ts, rest)
             /\ FinishMid(offer, r, r, tr) => FinishMid(offer, r, g, rest)
<1> DEFINE Unread(i) == SubSeq(tr, i + 1, Len(tr))
           both == SenderGoes(offer, s) /\ BothMid(offer, s, r, ts, tr)
           finish == FinishMid(offer, r, r, tr)
           Good(f, i) == /\ ReceiverMid(offer, r, f, Unread(i))
                         /\ both => BothMid(offer, s, f, ts, Unread(i))
                         /\ finish => FinishMid(offer, r, f, Unread(i))
           S == [i \in 0..n |-> {f \in End : Good(f, i)}]
           ps == SubSeq(tr, 1, n)
<1>1. Len(ps) = n /\ n \in Nat /\ \A i \in 1..n : i \in 1..Len(tr) /\ ps[i] = tr[i]
  BY FrontIs
<1>2. r \in S[0]
  <2>1. Unread(0) = tr
    BY RestIs
  <2>2. r \in End
    BY DEF ReceiverMid, ReceiverOK
  <2>3. Good(r, 0)
    BY <2>1
  <2> QED BY <1>1, <2>2, <2>3
<1>3. ASSUME NEW i \in 1..n, NEW f \in S[i - 1] PROVE Parse(f, ps[i]) \in S[i]
  <2>1. f \in End /\ Good(f, i - 1) /\ i - 1 \in 0..n /\ i \in 0..n
    BY <1>3
  <2>2. PICK before : before = Unread(i - 1)
    OBVIOUS
  <2>3. before \in Seq(Packet) /\ before # <<>> /\ Head(before) = ps[i] /\ Tail(before) = Unread(i)
    <3>1. i \in 1..Len(tr) /\ ps[i] = tr[i]
      BY <1>1, <1>3
    <3> QED BY <2>2, <3>1, RestStep
  <2>4. PICK g : g = Parse(f, ps[i])
    OBVIOUS
  <2>5. ReceiverMid(offer, r, f, before) /\ (both => BothMid(offer, s, f, ts, before)) /\ (finish => FinishMid(offer, r, f, before))
    BY <2>1, <2>2
  <2>6. both => SenderGoes(offer, s)
    OBVIOUS
  <2> HIDE DEF Unread, ps, S, both, finish
  <2>7. Advances(r, f, before, g)
    BY <2>3, <2>4, <2>5, ReceiverParses
  <2>8. ReceiverMid(offer, r, g, Unread(i)) /\ (both => BothMid(offer, s, g, ts, Unread(i))) /\ (finish => FinishMid(offer, r, g, Unread(i)))
    BY <2>3, <2>5, <2>6, <2>7 DEF Advances
  <2>9. g \in End
    BY <2>8 DEF ReceiverMid, ReceiverOK
  <2> QED BY <2>1, <2>4, <2>8, <2>9 DEF S
<1>4. Recv(r, ps) \in S[n]
  <2> HIDE DEF S, ps
  <2>1. Len(ps) \in Nat
    BY <1>1
  <2> QED BY <1>1, <1>2, <1>3, <2>1, RecvStays
<1>5. Good(Recv(r, ps), n)
  BY <1>1, <1>4
<1> QED BY <1>5

-----------------------------------------------------------------------------
(* The end of the receiver's callback.                                     *)

\* The front of what the sender can be told
LEMMA ToldSenderLess ==
  ASSUME NEW o, NEW s, NEW ts \in Seq(Packet), NEW p \in Packet, ToSender(o, s, Append(ts, p))
  PROVE  ToSender(o, s, ts)
<1>1. PICK tq : tq = Append(ts, p)
  OBVIOUS
<1>2. /\ tq \in Seq(Packet) /\ Len(tq) = Len(ts) + 1 /\ Len(ts) \in Nat
      /\ \A i \in 1..Len(ts) : i \in 1..Len(tq) /\ tq[i] = ts[i]
      /\ DOMAIN tq = 1 .. Len(tq) /\ DOMAIN ts = 1 .. Len(ts)
  BY <1>1, AppendProperties
<1>3. ASSUME NEW a, tq = <<a>> PROVE ts = <<>>
  <2>1. Len(tq) = 1
    BY <1>3, OneTwo
  <2> QED BY <1>2, <2>1
<1>4. ASSUME NEW a, NEW b, tq = <<a, b>> PROVE ts = <<a>>
  <2>1. Len(tq) = 2 /\ tq[1] = a
    BY <1>4, OneTwo
  <2>2. Len(ts) = 1 /\ ts[1] = a
    <3>1. PICK k \in Nat : k = Len(ts) /\ k + 1 = 2
      BY <1>2, <2>1
    <3>2. k = 1
      BY <3>1
    <3>3. Len(ts) = 1 /\ 1 \in 1..Len(ts)
      BY <3>1, <3>2
    <3> QED BY <1>2, <2>1, <3>3
  <2> QED BY <2>2
<1>5. tq # <<>>
  BY <1>2
<1>6. ToSender(o, s, tq)
  BY <1>1
<1>7. Asked(o, s, tq) => Asked(o, s, ts)
  <2>1. SUFFICES ASSUME Asked(o, s, tq), NEW j \in DOMAIN ts
                 PROVE  /\ ts[j].type \in {"03", "04"}
                        /\ ts[j].type = "03" =>
                              /\ ~s.continue
                              /\ ts[j].file = s.currFile \/ (ts[j].file = Number(o) + 1 /\ s.currFile < Number(o))
                              /\ \A i \in 1 .. j - 1 : ts[i].type = "04" /\ ts[i].file < s.currFile
    BY DEF Asked
  <2>2. j \in DOMAIN tq /\ tq[j] = ts[j] /\ j \in 1..Len(ts)
    BY <1>2
  <2>3. \A i \in 1 .. j - 1 : tq[i] = ts[i]
    <3>1. \A i \in 1 .. j - 1 : i \in 1..Len(ts)
      BY <1>2, <2>2
    <3> QED BY <1>2, <3>1
  <2> QED BY <2>1, <2>2, <2>3 DEF Asked
<1>8. s.state = "WAITING_FOR_INIT_ACK" => ts \in {<<>>, <<Simple("ACK")>>, <<Simple("ACK"), Simple("INIT")>>}
  BY <1>3, <1>4, <1>5, <1>6 DEF ToSender
<1>9. s.state = "WAITING_FOR_INIT" => ts \in {<<>>, <<Simple("INIT")>>}
  BY <1>3, <1>5, <1>6 DEF ToSender
<1>10. s.state = "CONNECTED" /\ s.currFile = 0 =>
          ts \in {<<>>, <<Simple("05")>>, <<Simple("05"), Simple("01")>>, <<Simple("01")>>}
  BY <1>3, <1>4, <1>5, <1>6 DEF ToSender
<1> QED BY <1>6, <1>7, <1>8, <1>9, <1>10 DEF ToSender

\* What a callback of the receiver, at first r, leaves when rest has not been
\* read: ts was on the way to the sender s when it began.
ReceiverDone(up, r, f, s, rest, ts) ==
    /\ ReceiverOK(offer, f) /\ f.client = "connected" /\ f.window = r.window
    /\ ~f.thrown => ToReceiver(offer, f, rest)
    /\ up /\ s.client = "connected" =>
          /\ ToSender(offer, s, ts \o f.out)
          /\ ~f.thrown => InStep(offer, s, f, ts \o f.out, rest)
          /\ f.thrown /\ f.ev # "COMPLETE" => Stuck(offer, s, ts \o f.out)
    /\ up /\ s.ev = "COMPLETE" /\ r.window => Finishing(offer, f, rest) /\ (f.thrown => f.ev = "COMPLETE")

LEMMA SettleReceiver ==
  ASSUME NEW f, ReceiverOK(offer, f), f.client = "connected"
  PROVE  LET g == Settle(f) IN
         /\ ReceiverOK(offer, g) /\ ~g.thrown /\ g.out = <<>> /\ g.window = f.window
         /\ f.thrown => g.client = "none" /\ (g.ev = "CANCELLED" => f.ev # "COMPLETE")
         /\ ~f.thrown => /\ g.client = "connected" /\ g.ev = f.ev /\ g.ev # "CANCELLED"
                         /\ \A tr : ToReceiver(offer, f, tr) => ToReceiver(offer, g, tr)
                         /\ \A s, ts, tr : InStep(offer, s, f, ts, tr) => InStep(offer, s, g, ts, tr)
                         /\ \A tr : Finishing(offer, f, tr) => Finishing(offer, g, tr)
<1>1. f \in End
  BY DEF ReceiverOK
<1>2. PICK g : g = Settle(f)
  OBVIOUS
<1>3. /\ g \in End /\ g.out = <<>> /\ ~g.thrown
      /\ ~f.thrown => SameEvent(g, f) /\ SamePlace(g, f) /\ SameFlags(g, f) /\ SamePeer(g, f) /\ SameWindow(g, f)
      /\ f.thrown => Closed(g, f)
  BY <1>1, <1>2, SettleIs
<1>4. CASE ~f.thrown
  <2>1. SameReceiver(g, f)
    BY <1>3, <1>4 DEF SameReceiver, SameEvent, SameWindow
  <2>2. g.client = "connected" /\ g.ev = f.ev /\ g.window = f.window /\ g.ev # "CANCELLED"
    BY <1>3, <1>4 DEF SameEvent, SamePeer, SameWindow, ReceiverOK
  <2> QED BY <1>2, <1>3, <1>4, <2>1, <2>2, SameReceiverKeeps
<1>5. CASE f.thrown
  <2>1. Closed(g, f)
    BY <1>3, <1>5
  <2>2. SameFiles(g, f)
    BY <2>1 DEF Closed, SameFiles, SameFlags
  <2>3. AtFileReceived(offer, g) /\ (AllStored(offer, f) => AllStored(offer, g))
    BY <2>2, SameFilesKeeps DEF ReceiverOK
  <2>4. /\ g.client = "none" /\ g.window = f.window /\ g.state = f.state /\ g.total = f.total /\ g.incoming = f.incoming
        /\ g.skipped = f.skipped /\ g.continue = f.continue /\ g.more = f.more /\ g.queued = f.queued
        /\ g.ev = (IF f.ev \in {"COMPLETE", "ERROR"} THEN f.ev ELSE "CANCELLED")
    BY <2>1 DEF Closed, SameFlags
  <2>5. g.ev = "COMPLETE" \/ g.ev = "CANCELLED"
    BY <2>4 DEF ReceiverOK
  <2>6. ReceiverOK(offer, g)
    BY <1>3, <2>3, <2>4, <2>5 DEF ReceiverOK
  <2> QED BY <1>2, <1>3, <1>5, <2>4, <2>6
<1> QED BY <1>4, <1>5

LEMMA ReceiverReactsKeeps ==
  ASSUME TransferInv, rcv.client = "connected", NEW f, NEW rest \in Seq(Packet), NEW up \in BOOLEAN, up <=> network = "up",
         ReceiverDone(up, rcv, f, snd, rest, toSnd), ~up => rest = <<>>,
         ReceiverReacts(f), toRcv' = rest, offer' = offer, snd' = snd, network' = network, troubles' \in 0..MaxTroubles
  PROVE  TransferInv'
<1>1. ReceiverOK(offer, f) /\ f.client = "connected" /\ f \in End /\ f.out \in Seq(Packet) /\ toSnd \in Seq(Packet)
      /\ f.window = rcv.window
  BY DEF ReceiverDone, ReceiverOK, TransferInv, End
<1>2. PICK g : g = Settle(f) /\ rcv' = g
  BY DEF ReceiverReacts
<1>3. /\ ReceiverOK(offer, g) /\ ~g.thrown /\ g.out = <<>> /\ g.window = f.window
      /\ f.thrown => g.client = "none" /\ (g.ev = "CANCELLED" => f.ev # "COMPLETE")
      /\ ~f.thrown => /\ g.client = "connected" /\ g.ev = f.ev /\ g.ev # "CANCELLED"
                      /\ \A tr : ToReceiver(offer, f, tr) => ToReceiver(offer, g, tr)
                      /\ \A s, ts, tr : InStep(offer, s, f, ts, tr) => InStep(offer, s, g, ts, tr)
                      /\ \A tr : Finishing(offer, f, tr) => Finishing(offer, g, tr)
  BY <1>1, <1>2, SettleReceiver
<1>4. snd.client \in {"none", "connected"} /\ snd.ev # "WAIT_RESPONS" /\ SenderOK(offer, snd)
  BY DEF TransferInv, Pair, SenderOK
<1>5. snd.client = "connected" => snd.ev # "COMPLETE"
  BY DEF TransferInv, SenderOK, SenderGoes
<1>6. PICK ts : ts = toSnd' /\ ts = toSnd \o Delivered(f.out, snd)
  BY DEF ReceiverReacts
<1>7. CASE up /\ snd.client = "connected"
  <2>1. ts = toSnd \o f.out /\ ts \in Seq(Packet)
    BY <1>1, <1>6, <1>7, ConcatProperties DEF Delivered
  <2>2. /\ ToSender(offer, snd, ts)
        /\ ~f.thrown => InStep(offer, snd, f, ts, rest)
        /\ f.thrown /\ f.ev # "COMPLETE" => Stuck(offer, snd, ts)
        /\ ~f.thrown => ToReceiver(offer, f, rest)
    BY <1>7, <2>1 DEF ReceiverDone
  <2>3. Pair(offer, network = "up", snd, g, ts, rest)
    BY <1>3, <1>4, <1>5, <1>7, <2>2 DEF Pair
  <2> QED BY <1>2, <1>3, <1>6, <2>1, <2>3 DEF TransferInv
<1>8. CASE ~(up /\ snd.client = "connected")
  <2>1. ts = toSnd
    <3>1. Delivered(f.out, snd) = <<>>
      BY <1>4, <1>8 DEF Delivered
    <3> QED BY <1>1, <1>6, <3>1, ConcatEmptySeq
  <2>2. ~up => ts = <<>>
    BY <2>1 DEF TransferInv, Pair
  <2>3. snd.client = "connected" => ToSender(offer, snd, ts)
    BY <2>1 DEF TransferInv, Pair
  <2>4. ~f.thrown => ToReceiver(offer, f, rest)
    BY DEF ReceiverDone
  <2>5. up /\ snd.ev = "COMPLETE" /\ rcv.window => Finishing(offer, f, rest) /\ (f.thrown => f.ev = "COMPLETE")
    BY DEF ReceiverDone
  <2>6. Pair(offer, network = "up", snd, g, ts, rest)
    BY <1>1, <1>3, <1>4, <1>8, <2>2, <2>3, <2>4, <2>5 DEF Pair
  <2> QED BY <1>1, <1>2, <1>3, <1>6, <2>1, <2>6 DEF TransferInv
<1> QED BY <1>7, <1>8

LEMMA ReceiverCallbackKeeps ==
  ASSUME TransferInv, rcv.client = "connected", NEW f, NEW rest \in Seq(Packet), NEW up \in BOOLEAN, up <=> network = "up",
         ReceiverDone(up, rcv, f, snd, rest, toSnd), ~up => rest = <<>>,
         f.out # <<>> => ReceiverDone(up, rcv, FailedSend(rcv, f), snd, rest, toSnd),
         ReceiverCallback(f), toRcv' = rest, offer' = offer, snd' = snd, network' = network
  PROVE  TransferInv'
<1>1. troubles \in 0..MaxTroubles /\ MaxTroubles \in Nat
  BY BoundAssumption DEF TransferInv
<1>2. CASE ReceiverReacts(f) /\ NoTrouble
  <2>1. troubles' \in 0..MaxTroubles
    BY <1>1, <1>2 DEF NoTrouble
  <2> QED BY <1>2, <2>1, ReceiverReactsKeeps
<1>3. CASE f.out # <<>> /\ ReceiverReacts(FailedSend(rcv, f)) /\ Trouble
  <2>1. troubles' \in 0..MaxTroubles
    BY <1>1, <1>3 DEF Trouble
  <2>2. PICK h : h = FailedSend(rcv, f)
    OBVIOUS
  <2>3. ReceiverDone(up, rcv, h, snd, rest, toSnd)
    BY <1>3, <2>2
  <2> QED BY <1>3, <2>1, <2>2, <2>3, ReceiverReactsKeeps
<1> QED BY <1>2, <1>3 DEF ReceiverCallback

\* What is known in the middle of a callback is enough for its end, and for
\* that of one whose last send fails.
MidOf(up, r, f, s, rest, ts) ==
    /\ ReceiverMid(offer, r, f, rest)
    /\ up /\ s.client = "connected" => BothMid(offer, s, f, ts, rest)
    /\ up /\ s.ev = "COMPLETE" /\ r.window => FinishMid(offer, r, f, rest)

LEMMA ReadDone ==
  ASSUME NEW up, NEW r \in End, NEW f, NEW s, NEW rest, NEW ts \in Seq(Packet), MidOf(up, r, f, s, rest, ts)
  PROVE  /\ ReceiverDone(up, r, f, s, rest, ts)
         /\ f.out # <<>> => ReceiverDone(up, r, FailedSend(r, f), s, rest, ts)
<1>1. /\ ReceiverOK(offer, f) /\ f \in End /\ f.client = "connected" /\ f.window = r.window
      /\ ~f.thrown => ToReceiver(offer, f, rest)
      /\ f.out # <<>> => ~f.thrown /\ rest = <<>>
      /\ f.ev = r.ev \/ (f.ev = "COMPLETE" /\ f.thrown)
      /\ f.out \in Seq(Packet)
  BY DEF MidOf, ReceiverMid, ReceiverOK, End
<1>2. f.thrown => ts \o f.out = ts
  BY <1>1, ConcatEmptySeq
<1>3. up /\ s.client = "connected" =>
          /\ ToSender(offer, s, ts \o f.out)
          /\ ~f.thrown => InStep(offer, s, f, ts \o f.out, rest)
          /\ f.thrown /\ f.ev # "COMPLETE" => Stuck(offer, s, ts)
          /\ f.out # <<>> => Stuck(offer, s, ts \o Front(f.out))
  BY DEF MidOf, BothMid
<1>4. up /\ s.ev = "COMPLETE" /\ r.window =>
          Finishing(offer, f, rest) /\ (f.thrown => f.ev = "COMPLETE") /\ (f.out = <<>> \/ r.ev = "COMPLETE")
  BY DEF MidOf, FinishMid
<1>5. ReceiverDone(up, r, f, s, rest, ts)
  BY <1>1, <1>2, <1>3, <1>4 DEF ReceiverDone
<1>6. ASSUME f.out # <<>> PROVE ReceiverDone(up, r, FailedSend(r, f), s, rest, ts)
  <2>1. PICK h : h = FailedSend(r, f)
    OBVIOUS
  <2>2. /\ h \in End /\ h.thrown = TRUE /\ h.ev = r.ev /\ h.out = Front(f.out)
        /\ Front(f.out) \in Seq(Packet) /\ f.out = Append(Front(f.out), f.out[Len(f.out)])
        /\ f.out[Len(f.out)] \in Packet
        /\ SamePlace(h, f) /\ SameFlags(h, f) /\ SamePeer(h, f) /\ SameWindow(h, f)
    BY <1>1, <1>6, <2>1, FailIs
  <2>3. h.ev = f.ev
    BY <1>1, <1>6, <2>2
  <2>4. SameReceiver(h, f)
    BY <2>2, <2>3 DEF SameReceiver, SameWindow
  <2>5. ReceiverOK(offer, h)
    BY <1>1, <2>2, <2>4, SameReceiverKeeps
  <2>6. h.client = "connected" /\ h.window = r.window
    BY <1>1, <2>2 DEF SamePeer, SameWindow
  <2>7. PICK last \in Packet : last = f.out[Len(f.out)]
    BY <2>2
  <2>8. ts \o f.out = Append(ts \o h.out, last) /\ ts \o h.out \in Seq(Packet)
    <3>1. h.out \in Seq(Packet) /\ f.out = Append(h.out, last)
      BY <2>2, <2>7
    <3> QED BY <2>7, <3>1, Behind, ConcatProperties
  <2>9. up /\ s.client = "connected" => ToSender(offer, s, ts \o h.out) /\ Stuck(offer, s, ts \o h.out)
    BY <1>3, <1>6, <2>2, <2>7, <2>8, ToldSenderLess
  <2>10. up /\ s.ev = "COMPLETE" /\ r.window => h.ev = "COMPLETE"
    BY <1>4, <1>6, <2>2
  <2> QED BY <2>1, <2>2, <2>5, <2>6, <2>9, <2>10 DEF ReceiverDone, Finishing
<1> QED BY <1>5, <1>6

\* The connection is closed, by the sender or the network.
LEMMA ThrownDone ==
  ASSUME NEW up, NEW r \in End, NEW f, NEW s, NEW ts \in Seq(Packet), MidOf(up, r, f, s, <<>>, ts),
         ~(up /\ s.client = "connected")
  PROVE  /\ ReceiverDone(up, r, Throw(f), s, <<>>, ts)
         /\ Throw(f).out # <<>> => ReceiverDone(up, r, FailedSend(r, Throw(f)), s, <<>>, ts)
<1>1. /\ ReceiverOK(offer, f) /\ f \in End /\ f.client = "connected" /\ f.window = r.window
      /\ f.out # <<>> => ~f.thrown
      /\ f.ev = r.ev \/ (f.ev = "COMPLETE" /\ f.thrown)
  BY DEF MidOf, ReceiverMid, ReceiverOK
<1>2. up /\ s.ev = "COMPLETE" /\ r.window => f.ev = "COMPLETE"
  <2>1. SUFFICES ASSUME Finishing(offer, f, <<>>) PROVE f.ev = "COMPLETE"
    BY DEF MidOf, FinishMid
  <2> QED BY <2>1 DEF Finishing
<1>3. PICK g : g = Throw(f)
  OBVIOUS
<1>4. /\ g \in End /\ g.out = f.out /\ g.thrown = TRUE
      /\ SamePlace(g, f) /\ SameFlags(g, f) /\ SamePeer(g, f) /\ SameWindow(g, f) /\ SameEvent(g, f)
  BY <1>1, <1>3, ThrowIs
<1>5. ReceiverOK(offer, g) /\ g.client = "connected" /\ g.window = r.window /\ g.ev = f.ev
  <2>1. SameReceiver(g, f)
    BY <1>4 DEF SameReceiver, SameEvent, SameWindow
  <2>2. ReceiverOK(offer, g)
    BY <1>1, <1>4, <2>1, SameReceiverKeeps
  <2> QED BY <1>1, <1>4, <2>2 DEF SamePeer, SameWindow, SameEvent
<1>6. ReceiverDone(up, r, g, s, <<>>, ts)
  BY <1>2, <1>4, <1>5 DEF ReceiverDone, Finishing
<1>7. ASSUME g.out # <<>> PROVE ReceiverDone(up, r, FailedSend(r, g), s, <<>>, ts)
  <2>1. PICK h : h = FailedSend(r, g)
    OBVIOUS
  <2>2. /\ h \in End /\ h.thrown = TRUE /\ h.ev = r.ev
        /\ SamePlace(h, g) /\ SameFlags(h, g) /\ SamePeer(h, g) /\ SameWindow(h, g)
    BY <1>4, <1>7, <2>1, FailIs
  <2>3. h.ev = g.ev
    BY <1>1, <1>4, <1>5, <1>7, <2>2
  <2>4. SameReceiver(h, g)
    BY <2>2, <2>3 DEF SameReceiver, SameWindow
  <2>5. ReceiverOK(offer, h)
    BY <1>4, <1>5, <2>2, <2>4, SameReceiverKeeps
  <2>6. h.client = "connected" /\ h.window = r.window
    BY <1>5, <2>2 DEF SamePeer, SameWindow
  <2>7. up /\ s.ev = "COMPLETE" /\ r.window => h.ev = "COMPLETE"
    BY <1>2, <1>5, <2>3
  <2> QED BY <2>1, <2>2, <2>5, <2>6, <2>7 DEF ReceiverDone, Finishing
<1> QED BY <1>3, <1>6, <1>7

LEMMA ReceiverReadableKeeps ==
  ASSUME TransferInv, ReceiverReadable
  PROVE  TransferInv'
<1>1. PICK n \in 0..Len(toRcv) :
        /\ toRcv' = SubSeq(toRcv, n + 1, Len(toRcv))
        /\ \E read \in {Recv(rcv, SubSeq(toRcv, 1, n))} :
             \/ n > 0 /\ ReceiverCallback(read)
             \/ AtEnd(snd) /\ n = Len(toRcv) /\ ReceiverCallback(Throw(read))
  BY DEF ReceiverReadable
<1>2. rcv.client = "connected" /\ offer' = offer /\ snd' = snd /\ network' = network
  BY DEF ReceiverReadable
<1>3. PICK read : read = Recv(rcv, SubSeq(toRcv, 1, n))
  OBVIOUS
<1>4. PICK rest : rest = SubSeq(toRcv, n + 1, Len(toRcv))
  OBVIOUS
<1>5. PICK up \in BOOLEAN : up <=> network = "up"
  <2>1. (network = "up") \in BOOLEAN
    OBVIOUS
  <2> QED BY <2>1, Zenon
<1>6. /\ OfferOK(offer) /\ toSnd \in Seq(Packet) /\ toRcv \in Seq(Packet) /\ ReceiverOK(offer, rcv) /\ SenderOK(offer, snd)
      /\ rcv \in End /\ ~rcv.thrown /\ rcv.out = <<>>
  BY DEF TransferInv, ReceiverOK
<1>7. rest \in Seq(Packet) /\ Len(rest) = Len(toRcv) - n /\ Len(toRcv) \in Nat
  BY <1>4, <1>6, RestIs
<1>8. ~up => rest = <<>>
  <2>1. SUFFICES ASSUME ~up PROVE rest = <<>>
    OBVIOUS
  <2>2. toRcv = <<>>
    BY <1>5, <2>1 DEF TransferInv, Pair
  <2>3. Len(toRcv) = 0
    BY <2>2
  <2>4. n \in 0..0
    BY <1>1, <2>3
  <2>5. n = 0
    BY <2>4
  <2>6. Len(rest) = 0 - 0
    BY <1>7, <2>3, <2>5
  <2> QED BY <1>7, <2>6
<1>9. snd.client # "connecting"
  BY <1>2 DEF TransferInv, Pair
<1>10. ReceiverMid(offer, rcv, rcv, toRcv)
  BY <1>2, <1>6 DEF TransferInv, Pair, ReceiverMid
<1>11. up /\ snd.client = "connected" => BothMid(offer, snd, rcv, toSnd, toRcv) /\ SenderGoes(offer, snd)
  <2>1. toSnd \o rcv.out = toSnd
    BY <1>6, ConcatEmptySeq
  <2>2. snd.client = "connected" => SenderGoes(offer, snd)
    BY DEF TransferInv, SenderOK
  <2>3. up /\ snd.client = "connected" => ToSender(offer, snd, toSnd) /\ InStep(offer, snd, rcv, toSnd, toRcv)
    BY <1>2, <1>5 DEF TransferInv, Pair
  <2> QED BY <1>6, <2>1, <2>2, <2>3 DEF BothMid
<1>12. up /\ snd.ev = "COMPLETE" /\ rcv.window => FinishMid(offer, rcv, rcv, toRcv)
  BY <1>2, <1>5, <1>6 DEF TransferInv, Pair, FinishMid
<1>13. MidOf(up, rcv, read, snd, rest, toSnd)
  <2>1. /\ ReceiverMid(offer, rcv, read, rest)
        /\ SenderGoes(offer, snd) /\ BothMid(offer, snd, rcv, toSnd, toRcv) => BothMid(offer, snd, read, toSnd, rest)
        /\ FinishMid(offer, rcv, rcv, toRcv) => FinishMid(offer, rcv, read, rest)
    BY <1>3, <1>4, <1>6, <1>10, ReceiverRecv
  <2> QED BY <1>11, <1>12, <2>1 DEF MidOf
<1>14. CASE ReceiverCallback(read)
  <2>1. /\ ReceiverDone(up, rcv, read, snd, rest, toSnd)
        /\ read.out # <<>> => ReceiverDone(up, rcv, FailedSend(rcv, read), snd, rest, toSnd)
    BY <1>6, <1>13, ReadDone
  <2> QED BY <1>1, <1>2, <1>4, <1>5, <1>7, <1>8, <1>14, <2>1, ReceiverCallbackKeeps
<1>15. CASE AtEnd(snd) /\ n = Len(toRcv) /\ ReceiverCallback(Throw(read))
  <2>1. rest = <<>>
    <3>1. Len(rest) = 0
      BY <1>7, <1>15
    <3> QED BY <1>7, <3>1
  <2>2. ~(up /\ snd.client = "connected")
    BY <1>5, <1>15 DEF AtEnd
  <2>3. PICK g : g = Throw(read)
    OBVIOUS
  <2>4. /\ ReceiverDone(up, rcv, g, snd, rest, toSnd)
        /\ g.out # <<>> => ReceiverDone(up, rcv, FailedSend(rcv, g), snd, rest, toSnd)
    BY <1>6, <1>13, <2>1, <2>2, <2>3, ThrownDone
  <2>5. ReceiverCallback(g)
    BY <1>15, <2>3
  <2> QED BY <1>1, <1>2, <1>4, <1>5, <1>7, <1>8, <2>4, <2>5, ReceiverCallbackKeeps
<1> QED BY <1>1, <1>3, <1>14, <1>15, Zenon

-----------------------------------------------------------------------------
(* The initial state, and every step.                                      *)

\* An offer is one of Offers, each file with a size.
LEMMA OfferAtFirst ==
  ASSUME Init
  PROVE  OfferOK(offer) /\ Total(offer) \in Nat /\ Sum(offer, 0) = 0
<1>1. PICK sizes \in Offers, known \in BOOLEAN, garbage \in Garbage :
        \E existing, locked, missing \in SUBSET DOMAIN sizes :
           offer = [sizes |-> sizes, existing |-> existing, locked |-> locked,
                    missing |-> missing, known |-> known, garbage |-> garbage]
  BY DEF Init
<1>2. sizes \in Seq(Nat) /\ sizes # <<>> /\ garbage \in Nat
  BY OfferAssumption, GarbageAssumption
<1>3. Len(sizes) \in Nat \ {0}
  BY <1>2
<1>4. OfferOK(offer)
  BY <1>1, <1>2, <1>3 DEF OfferOK, Number
<1>5. Number(offer) \in 0..Number(offer)
  BY <1>4 DEF OfferOK
<1> QED BY <1>4, <1>5, SumGrows, SumStep DEF Total

\* The values of a new end
Fresh(evState, isIncoming, where, t, size) ==
    [ev |-> evState, shown |-> evState, client |-> where, incoming |-> isIncoming,
     state |-> "NOT_CONNECTED", total |-> t, totalSize |-> size, currFile |-> 0,
     size |-> offer.garbage, pos |-> 0, totalPos |-> 0, name |-> NoFile,
     more |-> FALSE, continue |-> FALSE, wanting |-> FALSE, queued |-> FALSE,
     stream |-> NoFile, disk |-> <<>>, skipped |-> {}, sheet |-> "none",
     window |-> TRUE, crashed |-> FALSE, thrown |-> FALSE, out |-> <<>>]

LEMMA FreshIs ==
  ASSUME OfferOK(offer), NEW evState \in EventStates, NEW isIncoming \in BOOLEAN,
         NEW where \in {"none", "listening"}, NEW t \in Nat, NEW size \in Nat, NEW h,
         h = Fresh(evState, isIncoming, where, t, size)
  PROVE  /\ h \in End
         /\ h.ev = evState /\ h.shown = evState /\ h.client = where /\ (h.incoming <=> isIncoming)
         /\ h.state = "NOT_CONNECTED" /\ h.total = t /\ h.totalSize = size /\ h.currFile = 0
         /\ h.size = offer.garbage /\ h.pos = 0 /\ h.totalPos = 0 /\ h.name = NoFile
         /\ ~h.more /\ ~h.continue /\ ~h.wanting /\ ~h.queued /\ h.stream = NoFile
         /\ h.disk = <<>> /\ h.skipped = {} /\ h.sheet = "none" /\ h.window /\ ~h.crashed
         /\ ~h.thrown /\ h.out = <<>>
<1>1. offer.garbage \in Nat /\ NoFile \in Nat /\ 0 \in Nat
  BY DEF OfferOK, NoFile
<1>2. PICK d \in Disks : d = <<>>
  <2>1. <<>> \in [{} -> Seq(Chunk)]
    OBVIOUS
  <2> QED BY <2>1 DEF Disks
<1>3. PICK u \in Seq(Packet) : u = <<>>
  <2>1. <<>> \in Seq(Packet)
    OBVIOUS
  <2> QED BY <2>1, Zenon
<1>4. PICK none \in SUBSET Nat : none = {}
  OBVIOUS
<1>5. PICK garbage \in Nat : garbage = offer.garbage
  BY <1>1
<1>6. PICK n \in Nat : n = NoFile
  BY <1>1
<1>7. h = [ev |-> evState, shown |-> evState, client |-> where, incoming |-> isIncoming,
           state |-> "NOT_CONNECTED", total |-> t, totalSize |-> size, currFile |-> 0,
           size |-> garbage, pos |-> 0, totalPos |-> 0, name |-> n,
           more |-> FALSE, continue |-> FALSE, wanting |-> FALSE, queued |-> FALSE,
           stream |-> n, disk |-> d, skipped |-> none, sheet |-> "none",
           window |-> TRUE, crashed |-> FALSE, thrown |-> FALSE, out |-> u]
  BY <1>2, <1>3, <1>4, <1>5, <1>6 DEF Fresh
<1>8. /\ evState \in EventStates /\ isIncoming \in BOOLEAN
      /\ where \in {"none", "listening", "connecting", "connected"} /\ t \in Nat /\ size \in Nat
  OBVIOUS
<1> HIDE DEF EventStates, Packet, Disks
<1>9. h \in End
  BY <1>1, <1>2, <1>3, <1>4, <1>5, <1>6, <1>7, <1>8, SMT DEF End
<1>10. /\ h.ev = evState /\ h.shown = evState /\ h.client = where
       /\ h.state = "NOT_CONNECTED" /\ h.total = t /\ h.totalSize = size /\ h.currFile = 0
       /\ h.size = garbage /\ h.pos = 0 /\ h.totalPos = 0 /\ h.name = n /\ h.stream = n
       /\ h.disk = d /\ h.skipped = none /\ h.sheet = "none" /\ h.out = u
  BY <1>7
<1>11. /\ (h.incoming <=> isIncoming) /\ ~h.more /\ ~h.continue /\ ~h.wanting /\ ~h.queued
       /\ h.window /\ ~h.crashed /\ ~h.thrown
  <2>1. /\ h.incoming = isIncoming /\ h.more = FALSE /\ h.continue = FALSE /\ h.wanting = FALSE
        /\ h.queued = FALSE /\ h.window = TRUE /\ h.crashed = FALSE /\ h.thrown = FALSE
    BY <1>7
  <2> QED BY <2>1, Zenon
<1> QED BY <1>2, <1>3, <1>4, <1>5, <1>6, <1>9, <1>10, <1>11

LEMMA InitKeeps ==
  ASSUME Init
  PROVE  TransferInv
<1>1. OfferOK(offer) /\ Total(offer) \in Nat /\ Sum(offer, 0) = 0 /\ Number(offer) \in Nat \ {0}
  BY OfferAtFirst DEF OfferOK
<1>2. TotalSize = Total(offer) /\ Len(offer.sizes) = Number(offer)
  BY SumIs DEF Number
<1>3. /\ snd \in End /\ snd.ev = "WAIT_RESPONS" /\ snd.shown = "WAIT_RESPONS" /\ snd.client = "none"
      /\ ~snd.incoming /\ snd.state = "NOT_CONNECTED" /\ snd.total = Number(offer)
      /\ snd.totalSize = Total(offer) /\ snd.currFile = 0 /\ snd.size = offer.garbage /\ snd.pos = 0
      /\ snd.totalPos = 0 /\ snd.name = NoFile /\ ~snd.more /\ ~snd.continue /\ snd.stream = NoFile
      /\ ~snd.thrown /\ snd.out = <<>>
  <2>0. PICK no \in BOOLEAN : ~no
    OBVIOUS
  <2>1. snd = Fresh("WAIT_RESPONS", no, "none", Number(offer), Total(offer))
    <3>1. snd = [NewEnd("WAIT_RESPONS", FALSE, "none") EXCEPT !.total = Number(offer), !.totalSize = Total(offer)]
      BY <1>2 DEF Init
    <3>2. snd = Fresh("WAIT_RESPONS", FALSE, "none", Number(offer), Total(offer))
      BY <3>1 DEF NewEnd, Fresh
    <3>3. no = FALSE
      BY <2>0
    <3> QED BY <3>2, <3>3, Zenon
  <2>2. "WAIT_RESPONS" \in EventStates
    BY DEF EventStates
  <2> QED BY <1>1, <2>0, <2>1, <2>2, FreshIs
<1>4. /\ rcv \in End /\ rcv.ev = "RECEIVE" /\ rcv.client = "listening" /\ rcv.incoming
      /\ rcv.state = "NOT_CONNECTED" /\ rcv.total = 0 /\ rcv.totalSize = Total(offer)
      /\ rcv.currFile = 0 /\ rcv.pos = 0 /\ rcv.totalPos = 0 /\ rcv.name = NoFile
      /\ ~rcv.more /\ ~rcv.continue /\ ~rcv.wanting /\ ~rcv.queued /\ rcv.stream = NoFile
      /\ rcv.disk = <<>> /\ rcv.skipped = {} /\ rcv.sheet = "none" /\ rcv.window
      /\ ~rcv.thrown /\ rcv.out = <<>>
  <2>1. rcv = [NewEnd("RECEIVE", TRUE, "listening") EXCEPT !.totalSize = Total(offer)]
    BY <1>2 DEF Init
  <2>0. PICK yes \in BOOLEAN : yes
    OBVIOUS
  <2>2. rcv = Fresh("RECEIVE", yes, "listening", 0, Total(offer))
    <3>1. rcv = Fresh("RECEIVE", TRUE, "listening", 0, Total(offer))
      BY <2>1 DEF NewEnd, Fresh
    <3>2. yes = TRUE
      BY <2>0
    <3> QED BY <3>1, <3>2, Zenon
  <2>3. "RECEIVE" \in EventStates
    BY DEF EventStates
  <2>4. PICK zero \in Nat : zero = 0
    OBVIOUS
  <2>5. rcv = Fresh("RECEIVE", yes, "listening", zero, Total(offer))
    BY <2>2, <2>4, Zenon
  <2>6. PICK where \in {"none", "listening"} : where = "listening"
    OBVIOUS
  <2>7. rcv = Fresh("RECEIVE", yes, where, zero, Total(offer))
    BY <2>5, <2>6, Zenon
  <2> HIDE DEF Fresh
  <2>8. /\ rcv \in End /\ rcv.ev = "RECEIVE" /\ rcv.client = where /\ (rcv.incoming <=> yes)
        /\ rcv.state = "NOT_CONNECTED" /\ rcv.total = zero /\ rcv.totalSize = Total(offer)
        /\ rcv.currFile = 0 /\ rcv.pos = 0 /\ rcv.totalPos = 0 /\ rcv.name = NoFile
        /\ ~rcv.more /\ ~rcv.continue /\ ~rcv.wanting /\ ~rcv.queued /\ rcv.stream = NoFile
        /\ rcv.disk = <<>> /\ rcv.skipped = {} /\ rcv.sheet = "none" /\ rcv.window
        /\ ~rcv.thrown /\ rcv.out = <<>>
    BY <1>1, <2>3, <2>7, FreshIs
  <2> QED BY <2>0, <2>4, <2>6, <2>8
<1>5. /\ toSnd = <<>> /\ toRcv = <<>> /\ network = "up" /\ troubles = 0
      /\ toSnd \in Seq(Packet) /\ toRcv \in Seq(Packet)
  BY DEF Init
<1>6. troubles \in 0..MaxTroubles
  BY <1>5, BoundAssumption
<1>7. AtFile(offer, snd)
  BY <1>1, <1>3 DEF AtFile, NoFile, OfferOK
<1>8. SenderOK(offer, snd)
  BY <1>3, <1>7 DEF SenderOK
<1>9. AtFileReceived(offer, rcv)
  <2>1. FilesBefore(offer, rcv) /\ DiskOK(offer, rcv) /\ DOMAIN rcv.disk = {}
    BY <1>4 DEF FilesBefore, DiskOK
  <2> QED BY <1>1, <1>4, <2>1 DEF AtFileReceived, NoFile
<1>10. StreamOK(rcv)
  BY <1>4 DEF StreamOK, NoFile
<1>11. ReceiverOK(offer, rcv)
  BY <1>1, <1>4, <1>9, <1>10 DEF ReceiverOK
<1>12. ToReceiver(offer, rcv, toRcv)
  BY <1>5, NothingToRead
<1>13. Pair(offer, network = "up", snd, rcv, toSnd, toRcv)
  BY <1>3, <1>4, <1>5, <1>12 DEF Pair
<1> QED BY <1>1, <1>3, <1>4, <1>5, <1>6, <1>8, <1>11, <1>13 DEF TransferInv

LEMMA StutterKeeps ==
  ASSUME TransferInv, UNCHANGED vars
  PROVE  TransferInv'
<1>1. /\ offer' = offer /\ snd' = snd /\ rcv' = rcv /\ toSnd' = toSnd /\ toRcv' = toRcv
      /\ network' = network /\ troubles' = troubles
  BY DEF vars
<1> QED BY <1>1 DEF TransferInv

LEMMA SessionEndsKeeps ==
  ASSUME TransferInv, SessionEnds
  PROVE  TransferInv'
<1>1. CASE snd.client # "none" /\ snd' = DirectConnsRemoved(snd) /\ UNCHANGED rcv
  BY <1>1, SenderSessionEndsKeeps DEF SessionEnds
<1>2. CASE rcv.client # "none" /\ rcv' = DirectConnsRemoved(rcv) /\ UNCHANGED snd
  BY <1>2, ReceiverSessionEndsKeeps DEF SessionEnds
<1> QED BY <1>1, <1>2 DEF SessionEnds

LEMMA NextKeeps ==
  ASSUME TransferInv, [Next]_vars
  PROVE  TransferInv'
<1>1. CASE StartSending BY <1>1, StartSendingKeeps
<1>2. CASE FinishConnect BY <1>2, FinishConnectKeeps
<1>3. CASE SenderWritable BY <1>3, SenderWritableKeeps
<1>4. CASE SenderCancels BY <1>4, SenderCancelsKeeps
<1>5. CASE SenderTimesOut BY <1>5, SenderTimesOutKeeps
<1>6. CASE AcceptConnection BY <1>6, AcceptConnectionKeeps
<1>7. CASE ReceiverReadable BY <1>7, ReceiverReadableKeeps
<1>8. CASE ReplaceFile BY <1>8, ReplaceKeeps
<1>9. CASE Skip BY <1>9, SkipKeeps
<1>10. CASE MacSkips BY <1>10, MacSkipsKeeps
<1>11. CASE ReceiverCancels BY <1>11, ReceiverCancelsKeeps
<1>12. CASE ReceiverTimesOut BY <1>12, ReceiverTimesOutKeeps
<1>13. CASE SessionEnds BY <1>13, SessionEndsKeeps
<1>14. CASE NetworkBreaks BY <1>14, NetworkBreaksKeeps
<1>15. CASE UNCHANGED vars BY <1>15, StutterKeeps
<1> QED
  BY <1>1, <1>2, <1>3, <1>4, <1>5, <1>6, <1>7, <1>8, <1>9, <1>10, <1>11, <1>12, <1>13, <1>14, <1>15 DEF Next

-----------------------------------------------------------------------------
(* What the invariant says of the properties.                              *)

\* The values of an end outside of a callback
LEMMA EndTyped ==
  ASSUME NEW e \in End, ~e.thrown, e.out = <<>>
  PROVE  /\ e.ev \in EventStates /\ e.shown \in EventStates
         /\ e.client \in {"none", "listening", "connecting", "connected"}
         /\ e.state \in {"NOT_CONNECTED", "WAITING_FOR_INIT", "WAITING_FOR_INIT_ACK", "CONNECTED"}
         /\ {e.total, e.totalSize, e.currFile, e.size, e.pos, e.totalPos, e.name, e.stream} \subseteq Nat
         /\ {e.incoming, e.more, e.continue, e.wanting, e.queued, e.window, e.crashed} \subseteq BOOLEAN
         /\ e.thrown = FALSE /\ e.out = <<>>
<1>1. /\ e.ev \in EventStates /\ e.shown \in EventStates
      /\ e.client \in {"none", "listening", "connecting", "connected"}
      /\ e.state \in {"NOT_CONNECTED", "WAITING_FOR_INIT", "WAITING_FOR_INIT_ACK", "CONNECTED"}
  BY DEF End
<1>2. /\ e.total \in Nat /\ e.totalSize \in Nat /\ e.currFile \in Nat /\ e.size \in Nat
      /\ e.pos \in Nat /\ e.totalPos \in Nat /\ e.name \in Nat /\ e.stream \in Nat
  BY DEF End
<1>3. /\ e.incoming \in BOOLEAN /\ e.more \in BOOLEAN /\ e.continue \in BOOLEAN /\ e.wanting \in BOOLEAN
      /\ e.queued \in BOOLEAN /\ e.window \in BOOLEAN /\ e.crashed \in BOOLEAN /\ e.thrown \in BOOLEAN
  BY DEF End
<1>4. e.thrown = FALSE
  BY <1>3
<1>5. {e.total, e.totalSize, e.currFile, e.size, e.pos, e.totalPos, e.name, e.stream} \subseteq Nat
  BY <1>2
<1>6. {e.incoming, e.more, e.continue, e.wanting, e.queued, e.window, e.crashed} \subseteq BOOLEAN
  BY <1>3
<1> QED BY <1>1, <1>4, <1>5, <1>6

LEMMA InvTyped == TransferInv => TypeOK
<1> SUFFICES ASSUME TransferInv PROVE TypeOK
  OBVIOUS
<1>1. /\ snd \in End /\ ~snd.thrown /\ snd.out = <<>>
      /\ rcv \in End /\ ~rcv.thrown /\ rcv.out = <<>>
      /\ toSnd \in Seq(Packet) /\ toRcv \in Seq(Packet)
      /\ network \in {"up", "broken"} /\ troubles \in 0..MaxTroubles
  BY DEF TransferInv, SenderOK, ReceiverOK
<1>2. \A e \in {snd, rcv} : e \in End /\ ~e.thrown /\ e.out = <<>>
  BY <1>1
<1> QED BY <1>1, <1>2, EndTyped DEF TypeOK

LEMMA InvInPlace == TransferInv => DataInPlace
<1> SUFFICES ASSUME TransferInv, NEW f \in DOMAIN rcv.disk PROVE IsPrefix(rcv.disk[f], FileIs(f))
  BY DEF DataInPlace
<1>1. OfferOK(offer) /\ rcv \in End /\ DiskOK(offer, rcv) /\ AtFileReceived(offer, rcv)
  BY DEF TransferInv, ReceiverOK, AtFileReceived
<1>2. rcv.disk[f] = Chunks(f, Len(rcv.disk[f])) /\ Len(rcv.disk[f]) <= offer.sizes[f]
  BY <1>1 DEF DiskOK
<1>3. f \in 1..Number(offer) /\ offer.sizes[f] \in Nat
  <2>1. f \in 1..rcv.currFile /\ rcv.currFile \in 0..Number(offer)
    BY <1>1 DEF AtFileReceived
  <2>2. f \in 1..Number(offer)
    BY <1>1, <2>1 DEF OfferOK
  <2> QED BY <1>1, <2>2, SizeNat
<1>4. rcv.disk[f] \in Seq(Chunk)
  BY <1>1 DEF End, Disks
<1>5. PICK n \in Nat : n = Len(rcv.disk[f]) /\ n <= offer.sizes[f]
  BY <1>2, <1>4
<1>6. PICK size \in Nat : size = offer.sizes[f]
  BY <1>3
<1>7. PICK u : u = rcv.disk[f] /\ u = [i \in 1..n |-> [file |-> f, at |-> i]] /\ Len(u) = n /\ u \in Seq(Chunk)
  BY <1>2, <1>4, <1>5 DEF Chunks
<1>8. PICK v : v = FileIs(f) /\ v = [i \in 1..size |-> [file |-> f, at |-> i]]
  BY <1>6 DEF FileIs
<1>9. v \in Seq(Chunk) /\ Len(v) = size
  <2>1. f \in Nat /\ \A i \in 1..size : [file |-> f, at |-> i] \in Chunk
    BY <1>3, <1>1 DEF Chunk, OfferOK
  <2> QED BY <1>8, <2>1
<1>10. n <= size
  BY <1>5, <1>6
<1>11. IsPrefix(u, v)
  BY <1>7, <1>8, <1>9, <1>10 DEF IsPrefix
<1> QED BY <1>7, <1>8, <1>11

LEMMA InvReceived == TransferInv => CompleteMeansReceived
<1> SUFFICES ASSUME TransferInv, rcv.ev = "COMPLETE", NEW f \in Files \ (rcv.skipped \cup Rest)
             PROVE  f \in DOMAIN rcv.disk /\ rcv.disk[f] = FileIs(f)
  BY DEF CompleteMeansReceived
<1>1. OfferOK(offer) /\ DiskOK(offer, rcv) /\ AllStored(offer, rcv)
  BY DEF TransferInv, ReceiverOK, AtFileReceived
<1>2. f \in 1..Number(offer) /\ f \notin rcv.skipped
  BY <1>1 DEF Files, OfferOK, Number
<1>3. Sum(offer, f - 1) # Total(offer)
  <2>1. SizeOfFirst(f - 1) # TotalSize
    BY DEF Rest
  <2> QED BY <2>1, SumIs
<1>4. Stored(offer, rcv, f)
  BY <1>1, <1>2, <1>3 DEF AllStored
<1>5. rcv.disk[f] = Chunks(f, offer.sizes[f])
  BY <1>1, <1>4 DEF Stored, DiskOK
<1> QED BY <1>4, <1>5 DEF Stored, Chunks, FileIs

LEMMA InvPositions == TransferInv => PositionCountsFiles
<1> SUFFICES ASSUME TransferInv PROVE PositionCountsFiles
  OBVIOUS
<1>1. /\ AtFile(offer, snd) /\ ~snd.incoming /\ AtFileReceived(offer, rcv) /\ rcv.incoming
      /\ OfferOK(offer) /\ snd \in End /\ rcv \in End
  BY DEF TransferInv, SenderOK, ReceiverOK
<1>2. \A e \in {snd, rcv} : SizeOfFirst(e.currFile - 1) = Sum(offer, e.currFile - 1)
  BY SumIs
<1>3. ASSUME snd.currFile > 0, snd.name = snd.currFile
      PROVE  snd.totalPos = Sum(offer, snd.currFile - 1) + snd.pos + offer.garbage
  BY <1>1, <1>3 DEF AtFile, NoFile
<1>4. ASSUME rcv.currFile > 0, rcv.name = rcv.currFile
      PROVE  rcv.totalPos = Sum(offer, rcv.currFile - 1) + rcv.pos
  BY <1>1, <1>4 DEF AtFileReceived, NoFile
<1>5. /\ rcv.pos \in Nat /\ snd.pos \in Nat /\ rcv.currFile \in 0..Number(offer) /\ snd.currFile \in 0..Number(offer)
      /\ offer.garbage \in Nat /\ Number(offer) \in Nat
  BY <1>1 DEF End, AtFile, AtFileReceived, OfferOK
<1>6. \A n \in 0..Number(offer) : Sum(offer, n) \in Nat
  BY <1>1, SumGrows
<1>7. CASE snd.currFile > 0 /\ snd.name = snd.currFile
  <2>1. snd.totalPos = Sum(offer, snd.currFile - 1) + snd.pos + (IF snd.incoming THEN 0 ELSE offer.garbage)
    BY <1>1, <1>3, <1>7
  <2>2. rcv.currFile > 0 /\ rcv.name = rcv.currFile =>
          rcv.totalPos = Sum(offer, rcv.currFile - 1) + rcv.pos + (IF rcv.incoming THEN 0 ELSE offer.garbage)
    <3> SUFFICES ASSUME rcv.currFile > 0, rcv.name = rcv.currFile
                 PROVE  rcv.totalPos = Sum(offer, rcv.currFile - 1) + rcv.pos
                                         + (IF rcv.incoming THEN 0 ELSE offer.garbage)
      OBVIOUS
    <3>1. Sum(offer, rcv.currFile - 1) \in Nat
      <4>1. rcv.currFile - 1 \in 0..Number(offer)
        BY <1>5
      <4> QED BY <1>6, <4>1
    <3> QED BY <1>1, <1>4, <1>5, <3>1
  <2> QED BY <1>2, <1>7, <2>1, <2>2 DEF PositionCountsFiles
<1>8. CASE ~(snd.currFile > 0 /\ snd.name = snd.currFile)
  <2>2. rcv.currFile > 0 /\ rcv.name = rcv.currFile =>
          rcv.totalPos = Sum(offer, rcv.currFile - 1) + rcv.pos + (IF rcv.incoming THEN 0 ELSE offer.garbage)
    <3> SUFFICES ASSUME rcv.currFile > 0, rcv.name = rcv.currFile
                 PROVE  rcv.totalPos = Sum(offer, rcv.currFile - 1) + rcv.pos
                                         + (IF rcv.incoming THEN 0 ELSE offer.garbage)
      OBVIOUS
    <3>1. Sum(offer, rcv.currFile - 1) \in Nat
      <4>1. rcv.currFile - 1 \in 0..Number(offer)
        BY <1>5
      <4> QED BY <1>6, <4>1
    <3> QED BY <1>1, <1>4, <1>5, <3>1
  <2> QED BY <1>2, <1>8, <2>2 DEF PositionCountsFiles
<1> QED BY <1>7, <1>8

LEMMA InvArrive == TransferInv => FilesArrive
BY InvInPlace, InvReceived, InvPositions DEF FilesArrive

LEMMA InvClosed == TransferInv => EndedIsClosed
<1> SUFFICES ASSUME TransferInv PROVE EndedIsClosed
  OBVIOUS
<1>1. SenderOK(offer, snd) /\ ~snd.thrown /\ ReceiverOK(offer, rcv) /\ ~rcv.thrown /\ AtFileReceived(offer, rcv)
  BY DEF TransferInv, ReceiverOK
<1>2. snd.ev \in Ended => snd.client = "none"
  BY <1>1 DEF SenderOK, SenderGoes, Ended
<1>3. rcv.ev \in {"ERROR", "CANCELLED"} => rcv.client = "none"
  BY <1>1 DEF ReceiverOK
<1>4. ASSUME rcv.ev = "COMPLETE", rcv.client # "none" PROVE rcv.currFile \in rcv.skipped
  <2>1. Number(offer) \in rcv.skipped
    BY <1>1, <1>4 DEF ReceiverOK
  <2>2. /\ rcv.skipped \subseteq 1 .. rcv.currFile /\ rcv.currFile \in 0..Number(offer)
        /\ Number(offer) \in Nat
    BY <1>1 DEF AtFileReceived, TransferInv, OfferOK
  <2>3. rcv.currFile = Number(offer)
    BY <2>1, <2>2
  <2> QED BY <2>1, <2>3
<1> QED BY <1>2, <1>3, <1>4 DEF EndedIsClosed

\* The receiver's event has come to an end without "COMPLETE" only if it was
\* cancelled or stopped, and a sender that is complete then has nothing to fear:
\* Pair says so while the network is up and the window is open.
LEMMA InvSent == TransferInv => SentMeansReceived
<1> SUFFICES ASSUME TransferInv, snd.ev = "COMPLETE", rcv.ev \in Ended,
                    rcv.ev # "COMPLETE", network # "broken", rcv.window
             PROVE  FALSE
  BY DEF SentMeansReceived
<1>1. ReceiverOK(offer, rcv) /\ Pair(offer, network = "up", snd, rcv, toSnd, toRcv) /\ network = "up"
  BY DEF TransferInv
<1>2. rcv.ev = "CANCELLED"
  BY <1>1 DEF ReceiverOK, Ended
<1> QED BY <1>1, <1>2 DEF Pair

LEMMA InvAgree == TransferInv => EndsAgree
BY InvClosed, InvSent DEF EndsAgree

\* The windows of both ends after a step: with no client and an end shown,
\* nothing but the stop of an end that is not shown as one changes the event.
LEMMA SenderStaysEnded ==
  ASSUME TransferInv, Next, snd.shown \in Ended, snd.client = "none"
  PROVE  snd'.ev = snd.ev /\ snd'.shown = snd.shown
<1>1. snd.ev # "WAIT_RESPONS" /\ snd.shown # "SEND"
  BY DEF TransferInv, SenderOK, Ended
<1>2. snd' = snd
  BY <1>1 DEF Next, StartSending, FinishConnect, SenderWritable, SenderCancels, SenderTimesOut,
       AcceptConnection, ReceiverReadable, ReplaceFile, Skip, MacSkips, ReceiverCancels,
       ReceiverTimesOut, SessionEnds, NetworkBreaks
<1> QED BY <1>2

LEMMA ReceiverStaysEnded ==
  ASSUME TransferInv, Next, rcv.shown \in Ended, rcv.client = "none"
  PROVE  rcv'.ev = rcv.ev /\ rcv'.shown = rcv.shown
<1>1. rcv \in End
  BY DEF TransferInv, ReceiverOK
<1>2. ASSUME NEW after, UserAnswers(after) PROVE rcv'.ev = rcv.ev /\ rcv'.shown = rcv.shown
  BY <1>1, <1>2 DEF UserAnswers, End
<1>3. rcv.shown \notin {"RECEIVE", "TIMEOUT"}
  BY DEF Ended
<1>4. CASE ReplaceFile
  BY <1>2, <1>4 DEF ReplaceFile
<1>5. CASE ~ReplaceFile
  BY <1>3, <1>5 DEF Next, StartSending, FinishConnect, SenderWritable, SenderCancels, SenderTimesOut,
       AcceptConnection, ReceiverReadable, Skip, MacSkips, ReceiverCancels, ReceiverTimesOut,
       SessionEnds, NetworkBreaks
<1> QED BY <1>4, <1>5

LEMMA NextStaysEnded ==
  ASSUME TransferInv, [Next]_vars
  PROVE  \A n \in {1, 2} :
            LET e == <<snd, rcv>>[n] IN
            e.shown \in Ended /\ e.client = "none" =>
               LET later == <<snd, rcv>>'[n] IN
               later.ev = e.ev /\ later.shown = e.shown
<1>1. CASE UNCHANGED vars
  <2>1. snd' = snd /\ rcv' = rcv
    BY <1>1 DEF vars
  <2> QED BY <2>1
<1>2. CASE Next
  <2>1. snd.shown \in Ended /\ snd.client = "none" => snd'.ev = snd.ev /\ snd'.shown = snd.shown
    BY <1>2, SenderStaysEnded
  <2>2. rcv.shown \in Ended /\ rcv.client = "none" => rcv'.ev = rcv.ev /\ rcv'.shown = rcv.shown
    BY <1>2, ReceiverStaysEnded
  <2>3. <<snd, rcv>>'[1] = snd' /\ <<snd, rcv>>'[2] = rcv' /\ <<snd, rcv>>[1] = snd /\ <<snd, rcv>>[2] = rcv
    OBVIOUS
  <2> QED BY <2>1, <2>2, <2>3
<1> QED BY <1>1, <1>2

-----------------------------------------------------------------------------
(* The theorems, about FileTransfer alone.                                 *)

\* The two ends, and what is on its way between them, agree at every moment
\* about where the transfer is, whatever is refused, skipped, lost or stopped
\* (FileTransferClient's m_state, m_continue, m_more and its packet queue).
THEOREM TransferInvariant == Spec => []TransferInv
<1>1. Init => TransferInv
  BY InitKeeps
<1>2. TransferInv /\ [Next]_vars => TransferInv'
  BY NextKeeps
<1> QED BY <1>1, <1>2, PTL DEF Spec

\* Both ends keep their types; after a callback no exception and no packet of
\* it is left (Client::Recv and Client::Send catch and send all).
THEOREM TransferTypes == Spec => []TypeOK
BY InvTyped, TransferInvariant, PTL

\* Whatever is skipped, replaced or interrupted: a file on the disk is the front
\* of the one offered under its name, and "Received n files" is shown only when
\* the others are whole (ParsePacket0x02, ParsePacket0x06, m_total_pos).
THEOREM TransferArrives == Spec => []FilesArrive
BY InvArrive, TransferInvariant, PTL

\* What the sender calls complete does not fail at the receiver, and an event
\* that has come to its end has no client left that could go on
\* (Client::DisconnectDirectConn, SkipRequested, the last packet 06).
THEOREM TransferAgrees == Spec => []EndsAgree
BY InvAgree, TransferInvariant, PTL

\* No late callback shows or records another end than the one shown
\* (Client::CancelFileTransfer, the timeout of the message cache).
THEOREM TransferStaysEnded == Spec => EndedStaysEnded
<1>1. TransferInv /\ [Next]_vars =>
        [\A n \in {1, 2} :
          LET e == <<snd, rcv>>[n] IN
          e.shown \in Ended /\ e.client = "none" =>
             LET later == <<snd, rcv>>'[n] IN
             later.ev = e.ev /\ later.shown = e.shown]_vars
  BY NextStaysEnded
<1> QED BY <1>1, TransferInvariant, PTL DEF Spec, EndedStaysEnded

-----------------------------------------------------------------------------
(* The theorems, about MCFileTransfer: its behaviours are those of         *)
(* FileTransfer or of Mail.                                                *)

SocketsInv == TransferInv /\ MailInv

LEMMA SocketsInitOK == SocketsInit => SocketsInv
BY InitKeeps, InitOK DEF SocketsInit, SocketsInv

LEMMA SocketsNextOK ==
  ASSUME SocketsInv, [SocketsNext]_<<vars, mail, part>>
  PROVE  SocketsInv'
<1>1. [Next]_vars /\ [MailNext]_mail
  BY DEF SocketsNext
<1>2. TransferInv' /\ MailInv'
  BY <1>1, NextKeeps, NextOK DEF SocketsInv
<1> QED BY <1>2 DEF SocketsInv

\* In the composed specification too, and with the mail beside it.
THEOREM SocketsInvariant == SocketsSpec => []SocketsInv
<1>1. SocketsInit => SocketsInv
  BY SocketsInitOK
<1>2. SocketsInv /\ [SocketsNext]_<<vars, mail, part>> => SocketsInv'
  BY SocketsNextOK
<1> QED BY <1>1, <1>2, PTL DEF SocketsSpec

\* The values of the variables of both
THEOREM SocketsTypes == SocketsSpec => []TypesOK
<1>1. MailInv => MailTypeOK
  BY DEF MailInv, MailTypes
<1>2. SocketsInv => TypesOK
  BY <1>1, InvTyped DEF SocketsInv, TypesOK
<1> QED BY <1>2, SocketsInvariant, PTL

\* The properties of the transfer and of the mail hold where both are run:
\* files arrive whole, both ends agree, and mail is answered once.
THEOREM SocketsDeliver == SocketsSpec => [](FilesArrive /\ EndsAgree /\ MailIsDelivered)
<1>1. MailInv => MailIsDelivered
  BY DEF MailInv, MailIsDelivered, QueueOK, FlowOK
<1>2. SocketsInv => FilesArrive /\ EndsAgree /\ MailIsDelivered
  BY <1>1, InvArrive, InvAgree DEF SocketsInv
<1> QED BY <1>2, SocketsInvariant, PTL

\* No late callback changes what a window has shown as the end.
THEOREM SocketsStayEnded == SocketsSpec => EndedStaysEnded
<1>1. SocketsInv /\ [SocketsNext]_<<vars, mail, part>> =>
        [\A n \in {1, 2} :
          LET e == <<snd, rcv>>[n] IN
          e.shown \in Ended /\ e.client = "none" =>
             LET later == <<snd, rcv>>'[n] IN
             later.ev = e.ev /\ later.shown = e.shown]_vars
  <2>1. [SocketsNext]_<<vars, mail, part>> => [Next]_vars
    BY DEF SocketsNext
  <2> QED BY <2>1, NextStaysEnded DEF SocketsInv
<1> QED BY <1>1, SocketsInvariant, PTL DEF SocketsSpec, EndedStaysEnded
=============================================================================
