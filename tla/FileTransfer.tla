---------------------------- MODULE FileTransfer ----------------------------
(***************************************************************************)
(* The transfer of the files of an accepted offer between two copies of    *)
(* this program: the FileTransferClient of the sender, which connects, and *)
(* that of the receiver, which listens; the part of Client that creates,   *)
(* serves and removes them; and the receiver's window with its sheet about *)
(* files that exist already.                                               *)
(*                                                                         *)
(* One action is one callback of a run loop: all that select reports for a *)
(* socket is read and parsed before anything else happens there.  The      *)
(* handlers are operators on the record of one end; a DisconnectedException *)
(* sets "thrown", and what is left of the callback is skipped.             *)
(*                                                                         *)
(* Abstracted: a file is a number of chunks (of 2048 bytes in the code), a *)
(* chunk is the file it was read from and its place in it, a file's name   *)
(* is its number in the offer.                                             *)
(***************************************************************************)
EXTENDS Naturals, SequencesExt

CONSTANTS
    Offers,       \* sequences of file sizes, in chunks
    Garbage,      \* what m_size may hold in a new event: nothing initializes it
    MaxBadFiles,  \* bound: files that exist, are locked or are missing
    MaxTroubles   \* bound: timeouts, stops, failed sends, ends of a session

ASSUME OfferAssumption == Offers \subseteq Seq(Nat) \ {<<>>}
ASSUME GarbageAssumption == Garbage \subseteq Nat
ASSUME BoundAssumption == MaxBadFiles \in Nat /\ MaxTroubles \in Nat

VARIABLES
    offer,      \* the files: their sizes, which of them the receiver has
                \* already ("existing"), cannot create ("locked") and the
                \* sender cannot open ("missing"); whether the receiver
                \* knows the sender's address (ConfirmUIN); what the new
                \* events' m_size holds
    snd, rcv,   \* the two ends
    toSnd, toRcv,   \* what is on its way on the connection
    network,    \* "up", or "broken": nothing arrives any more
    troubles    \* how many of those that MaxTroubles bounds there were

vars == <<offer, snd, rcv, toSnd, toRcv, network, troubles>>

EventStates == {"WAIT_RESPONS", "SEND", "RECEIVE", "ERROR", "COMPLETE",
                "CANCELLED", "TIMEOUT", "NOT_CONNECTED"}
Ended == {"ERROR", "COMPLETE", "CANCELLED", "NOT_CONNECTED"}

Files == DOMAIN offer.sizes
SizeOfFirst(n) ==
    LET sum[i \in 0..Len(offer.sizes)] == IF i = 0 THEN 0 ELSE sum[i - 1] + offer.sizes[i]
    IN  sum[n]
TotalSize == SizeOfFirst(Len(offer.sizes))

Chunk == [file : Nat, at : Nat]
FileIs(f) == [i \in 1..offer.sizes[f] |-> [file |-> f, at |-> i]]

\* The name of no file: what m_currfilename is before any is wanted.
NoFile == 0

NewEnd(evState, isIncoming, where) ==
    [ev |-> evState,           \* FileTransferEvent::m_state
     shown |-> evState,        \* its value at the last filetransfer_update_signal
     client |-> where,         \* the FileTransferClient: "none", "listening",
                               \* "connecting" or "connected"
     incoming |-> isIncoming,
     state |-> "NOT_CONNECTED",   \* FileTransferClient::m_state
     total |-> 0, totalSize |-> 0, currFile |-> 0, size |-> offer.garbage, pos |-> 0,
     totalPos |-> 0, name |-> NoFile,
     more |-> FALSE, continue |-> FALSE, wanting |-> FALSE, queued |-> FALSE,
     stream |-> NoFile,        \* the file m_fin or m_fout is open on
     disk |-> <<>>,            \* what was written, by file that was opened
     skipped |-> {},           \* the files the user skipped
     sheet |-> "none",         \* the window: "conflict" while it asks
     window |-> TRUE,          \* ... is open
     crashed |-> FALSE,
     thrown |-> FALSE, out |-> <<>>]

-----------------------------------------------------------------------------
(* FileTransferClient: sending.                                            *)

Send(e, p) == [e EXCEPT !.out = Append(@, p)]
Simple(t) == [type |-> t]

Throw(e) == [e EXCEPT !.thrown = TRUE]
Complete(e) == Throw([e EXCEPT !.ev = "COMPLETE"])
Update(e) == [e EXCEPT !.shown = e.ev]

\* The file being sent or received is over, as far as the totals go.
CountFile(e) == [e EXCEPT !.totalPos = (@ + e.size) - e.pos, !.pos = 0]

\* Mutant: the stream of the file before is used again.
WantFileToSendStream(e) ==
    [e EXCEPT !.size = offer.sizes[e.currFile], !.name = e.currFile,
              !.stream = IF @ = NoFile THEN e.currFile ELSE @]

\* want_file_cb in state SEND: the name, the size and the stream.
WantFileToSend(e) ==
    IF e.ev = "SEND"
    THEN [e EXCEPT !.size = offer.sizes[e.currFile], !.name = e.currFile,
                   !.stream = IF e.currFile \in offer.missing THEN NoFile ELSE e.currFile]
    ELSE e

SendPacket0x02(e) ==
    LET next == WantFileToSend(CountFile([e EXCEPT !.currFile = @ + 1]))
    IN  Send(next, [type |-> "02", name |-> next.name, size |-> next.size])

\* The next chunk; of an empty file, a packet without data.
SendChunk(e) ==
    LET data == IF e.pos < e.size THEN <<[file |-> e.stream, at |-> e.pos + 1]>> ELSE <<>>
        pos == e.pos + Len(data)
    IN  Send([e EXCEPT !.pos = pos, !.totalPos = @ + Len(data), !.more = pos < e.size],
             [type |-> "06", data |-> data])

\* Mutant: the file number is not compared.
SendPacket0x06EachEnds(e) ==
    CASE e.stream = NoFile -> Throw([e EXCEPT !.ev = "ERROR"])
      [] e.stream # NoFile /\ ~SendChunk(e).more -> Complete(SendChunk(e))
      [] OTHER -> SendChunk(e)

SendPacket0x06(e) ==
    CASE e.stream = NoFile -> Throw([e EXCEPT !.ev = "ERROR"])
      [] e.stream # NoFile /\ ~SendChunk(e).more /\ e.currFile = e.total ->
            Complete(SendChunk(e))
      [] OTHER -> SendChunk(e)

\* Nothing follows the name of a file until the receiver asks for the file.
NextFile(e) == [SendPacket0x02(e) EXCEPT !.continue = FALSE, !.more = FALSE]

\* FileTransferClient::SendFile
SendFile(e) ==
    LET next ==
          CASE e.state = "CONNECTED" /\ e.queued ->
                  Send([e EXCEPT !.queued = FALSE],
                       [type |-> "00", total |-> e.total, totalSize |-> e.totalSize])
            [] ~(e.state = "CONNECTED" /\ e.queued) /\ e.continue ->
                  (CASE e.more -> SendPacket0x06(e)
                     [] ~e.more /\ e.currFile < e.total -> NextFile(e)
                     [] OTHER -> Complete(e))
            [] OTHER -> e
    IN  IF next.thrown THEN next ELSE Update(next)

\* FileTransferClient::SendEvent, with which Client serves a writable socket
SendEvent(e) ==
    IF e.state = "CONNECTED" THEN SendFile(e) ELSE [e EXCEPT !.queued = TRUE]

-----------------------------------------------------------------------------
(* FileTransferClient: the receiver's application.                         *)

\* Client::SendFileTransfer in state RECEIVE: ReceiveFile
ReceiveFile(e) ==
    IF e.wanting
    THEN Send([e EXCEPT !.wanting = FALSE], [type |-> "03", pos |-> 0, file |-> e.currFile])
    ELSE e

\* The file is created, or emptied.
Opened(e, f) ==
    [e EXCEPT !.stream = f,
              !.disk = [g \in DOMAIN @ \cup {f} |-> IF g = f THEN <<>> ELSE @[g]]]

\* fileTransferGlue::receiveFile; a file that cannot be opened is not answered
OpenAndReceive(e, f) ==
    IF f \in offer.locked \cup {NoFile}
    THEN [e EXCEPT !.stream = NoFile]
    ELSE ReceiveFile(Opened(e, f))

\* want_file_cb in state RECEIVE, up to the window.
WantFileToReceive(e) ==
    CASE e.ev # "RECEIVE" -> e
      [] e.ev = "RECEIVE" /\ e.name \in offer.existing \cup {NoFile} ->
            [e EXCEPT !.sheet = "conflict"]
      [] OTHER -> OpenAndReceive(e, e.name)

\* FileTransferClient::SkipFile
SkipFile(e) ==
    LET told == Send([e EXCEPT !.wanting = FALSE, !.skipped = @ \cup {e.currFile}],
                     [type |-> "04", file |-> e.currFile])
    IN  IF e.currFile = e.total THEN [told EXCEPT !.ev = "COMPLETE"] ELSE told

-----------------------------------------------------------------------------
(* FileTransferClient: receiving.                                          *)

ParsePacket0x00(e, p) ==
    LET told == Update([e EXCEPT !.total = p.total, !.totalSize = p.totalSize,
                                 !.currFile = 0, !.size = 0])
    IN  Send(Send(told, Simple("05")), Simple("01"))

ParsePacket0x02(e, p) ==
    WantFileToReceive([CountFile(e) EXCEPT !.size = p.size, !.currFile = @ + 1,
                                           !.name = p.name, !.wanting = TRUE])

\* Mutant: the sender is not told to go on.
SkipRequestedWaits(e) == IF e.currFile = e.total THEN Complete(e) ELSE [e EXCEPT !.more = FALSE]

\* The file asked for is skipped; after the last one the transfer is over.
SkipRequested(e) ==
    LET skipped == [e EXCEPT !.more = FALSE, !.continue = TRUE]
    IN  IF e.currFile = e.total THEN Complete(skipped) ELSE skipped

\* A file number beyond the offer is how ICQ for the Mac asks to skip.
ParsePacket0x03(e, p) ==
    LET at == [e EXCEPT !.pos = p.pos, !.totalPos = @ + p.pos]
        ready == [at EXCEPT !.currFile = p.file, !.more = TRUE, !.continue = TRUE]
    IN  CASE p.file > e.total ->
                (IF SkipRequested(at).thrown THEN SkipRequested(at)
                 ELSE SendFile(SkipRequested(at)))
          [] p.file <= e.total /\ p.pos > e.size -> Throw([at EXCEPT !.currFile = p.file, !.ev = "ERROR"])
          [] OTHER -> SendFile(ready)

ParsePacket0x04(e, p) == IF p.file = e.currFile THEN SkipRequested(e) ELSE e

\* What is written to a stream that is not open is lost.
Write(e, data) ==
    LET disk == IF e.stream = NoFile THEN e.disk ELSE [e.disk EXCEPT ![e.stream] = @ \o data]
    IN  [e EXCEPT !.pos = @ + Len(data), !.totalPos = @ + Len(data), !.disk = disk]

ParsePacket0x06(e, p) ==
    LET got == Write(e, p.data)
    IN  IF got.totalPos >= got.totalSize THEN Complete(got) ELSE got

ParsePacket(e, p) ==
    CASE p.type = "00" -> ParsePacket0x00(e, p)
      [] p.type = "01" -> SendPacket0x02(e)
      [] p.type = "02" -> ParsePacket0x02(e, p)
      [] p.type = "03" -> ParsePacket0x03(e, p)
      [] p.type = "04" -> ParsePacket0x04(e, p)
      [] p.type = "06" -> ParsePacket0x06(e, p)
      [] OTHER -> e

SendInitPacket(e) == Send(e, Simple("INIT"))
SendInitAck(e) == Send(e, Simple("ACK"))

FlushQueue(e) == IF e.queued THEN SendFile(e) ELSE e

\* The receiver knows the contact and its address.
ConfirmUIN(e) == IF offer.known THEN e ELSE Throw(e)

Handshake(e, p) ==
    CASE e.incoming /\ e.state = "WAITING_FOR_INIT" /\ p.type = "INIT" ->
            [SendInitPacket(SendInitAck(e)) EXCEPT !.state = "WAITING_FOR_INIT_ACK"]
      [] e.incoming /\ e.state = "WAITING_FOR_INIT_ACK" /\ p.type = "ACK" ->
            FlushQueue(ConfirmUIN([e EXCEPT !.state = "CONNECTED"]))
      [] ~e.incoming /\ e.state = "WAITING_FOR_INIT_ACK" /\ p.type = "ACK" ->
            [e EXCEPT !.state = "WAITING_FOR_INIT"]
      [] ~e.incoming /\ e.state = "WAITING_FOR_INIT" /\ p.type = "INIT" ->
            FlushQueue([SendInitAck(e) EXCEPT !.state = "CONNECTED"])
      [] OTHER -> Throw(e)

\* FileTransferClient::Parse for one packet; nothing is parsed after a throw.
Parse(e, p) ==
    CASE e.thrown -> e
      [] ~e.thrown /\ e.state = "CONNECTED" -> ParsePacket(e, p)
      [] OTHER -> Handshake(e, p)

\* Parse(e, p), where TLC evaluates e once and not at each of its uses.
ParseEagerly(e, p) == CHOOSE result \in {Parse(f, p) : f \in {e}} : TRUE

\* FileTransferClient::Recv
Recv(e, packets) ==
    LET after[i \in 0..Len(packets)] ==
          IF i = 0 THEN e ELSE ParseEagerly(after[i - 1], packets[i])
    IN  after[Len(packets)]

-----------------------------------------------------------------------------
(* Client: the end of a callback.                                          *)

\* The windows react to a state that is over.
CloseSheet(e) ==
    [e EXCEPT !.sheet = IF e.shown \in {"CANCELLED", "ERROR"} THEN "none" ELSE @]

\* Client::DisconnectDirectConn
DisconnectDirectConn(e) ==
    CloseSheet(Update([e EXCEPT !.client = "none", !.stream = NoFile, !.thrown = FALSE,
                                !.ev = IF @ \in {"COMPLETE", "ERROR"} THEN @ ELSE "CANCELLED"]))

\* Mutant: the exception is not caught.
SettleUncaught(e) == [e EXCEPT !.out = <<>>]

\* What a callback leaves behind: a DisconnectedException removes the client.
Settle(e) == [(IF e.thrown THEN DisconnectDirectConn(e) ELSE e) EXCEPT !.out = <<>>]

\* A packet reaches only a socket that is open at the other end.
Delivered(out, other) ==
    IF network = "up" /\ other.client # "none" THEN out ELSE <<>>

\* The last send() of the callback fails: the socket's buffer is full, or the
\* other end is gone.  What it sent before it still arrives.
FailedSend(before, after) ==
    [after EXCEPT !.thrown = TRUE, !.out = Front(@),
                  !.ev = before.ev]

NoTrouble == troubles' = troubles
Trouble == troubles < MaxTroubles /\ troubles' = troubles + 1

SenderReacts(e) == snd' = Settle(e) /\ toRcv' = toRcv \o Delivered(e.out, rcv)
ReceiverReacts(e) == rcv' = Settle(e) /\ toSnd' = toSnd \o Delivered(e.out, snd)

SenderCallback(after) ==
    \/ SenderReacts(after) /\ NoTrouble
    \/ after.out # <<>> /\ SenderReacts(FailedSend(snd, after)) /\ Trouble

ReceiverCallback(after) ==
    \/ ReceiverReacts(after) /\ NoTrouble
    \/ after.out # <<>> /\ ReceiverReacts(FailedSend(rcv, after)) /\ Trouble

\* The other end has closed the connection, or the network is gone, and
\* everything it sent before has been read.
AtEnd(other) == other.client = "none" \/ network = "broken"

-----------------------------------------------------------------------------
(* The sender.                                                             *)

Running(e) == ~e.crashed

\* progress_cb in state ACCEPTED: SendFileTransfer creates the client; Connect
\* fails at once for a contact with an old version, or without a descriptor.
StartSending ==
    /\ Running(snd) /\ snd.ev = "WAIT_RESPONS"
    /\ \/ snd' = Update([snd EXCEPT !.client = "connecting", !.queued = TRUE, !.ev = "SEND",
                                    !.state = "WAITING_FOR_INIT_ACK"])
       \/ snd' = Update([snd EXCEPT !.ev = "ERROR"])
    /\ NoTrouble /\ UNCHANGED <<offer, rcv, toSnd, toRcv, network>>

\* socket_cb: the connect has completed.  Nobody listens any more when the
\* receiver's client is gone.
FinishConnect ==
    /\ Running(snd) /\ snd.client = "connecting"
    /\ \/ /\ rcv.client = "listening" /\ network = "up"
          /\ LET up == SendInitPacket([snd EXCEPT !.client = "connected"]) IN
             snd' = Settle(up) /\ toRcv' = up.out
       \/ snd' = Settle(Throw(snd)) /\ UNCHANGED toRcv
    /\ NoTrouble /\ UNCHANGED <<offer, rcv, toSnd, network>>

\* socket_cb: the socket is writable.  What has arrived is read first.
SenderWritable ==
    /\ Running(snd) /\ snd.client = "connected"
    /\ \E n \in 0..Len(toSnd) :
          /\ toSnd' = SubSeq(toSnd, n + 1, Len(toSnd))
          /\ \E read \in {Recv(snd, SubSeq(toSnd, 1, n))} :
             \/ \E served \in {IF read.thrown THEN read ELSE SendEvent(read)} :
                   SenderCallback(served)
             \/ AtEnd(rcv) /\ n = Len(toSnd) /\ SenderCallback(Throw(read))
    /\ UNCHANGED <<offer, rcv, network>>

\* Client::CancelFileTransfer from either window: whatever has become of the
\* connection, the event is not connected any more.
Cancelled(e) ==
    LET closed == IF e.ev \notin Ended /\ e.client \in {"connecting", "connected"}
                  THEN DisconnectDirectConn(e) ELSE e
    IN  Update([closed EXCEPT !.ev = "NOT_CONNECTED"])

SenderCancels ==
    /\ Running(snd) /\ snd.shown = "SEND"
    /\ snd' = Cancelled(snd)
    /\ Trouble /\ UNCHANGED <<offer, rcv, toSnd, toRcv, network>>

\* Mutant: the cache still has the client that was removed.
SenderTimesOutRemoved ==
    /\ Running(snd) /\ snd.ev # "WAIT_RESPONS" /\ snd.state # "CONNECTED"
    /\ snd.ev # "TIMEOUT"
    /\ snd' = [snd EXCEPT !.ev = "TIMEOUT"]
    /\ Trouble /\ UNCHANGED <<offer, rcv, toSnd, toRcv, network>>

\* clearoutMessagesPoll, 60 s after the start; nobody listens to its messageack
SenderTimesOut ==
    /\ Running(snd) /\ snd.client # "none" /\ snd.state # "CONNECTED"
    /\ snd.ev # "TIMEOUT"
    /\ snd' = [snd EXCEPT !.ev = "TIMEOUT"]
    /\ Trouble /\ UNCHANGED <<offer, rcv, toSnd, toRcv, network>>

-----------------------------------------------------------------------------
(* The receiver.                                                           *)

\* socket_cb for the listening socket
AcceptConnection ==
    /\ Running(rcv) /\ rcv.client = "listening" /\ toRcv # <<>>
    /\ rcv' = [rcv EXCEPT !.client = "connected", !.state = "WAITING_FOR_INIT"]
    /\ NoTrouble /\ UNCHANGED <<offer, snd, toSnd, toRcv, network>>

\* socket_cb: the socket is readable.
ReceiverReadable ==
    /\ Running(rcv) /\ rcv.client = "connected"
    /\ \E n \in 0..Len(toRcv) :
          /\ toRcv' = SubSeq(toRcv, n + 1, Len(toRcv))
          /\ \E read \in {Recv(rcv, SubSeq(toRcv, 1, n))} :
             \/ n > 0 /\ ReceiverCallback(read)
             \/ AtEnd(snd) /\ n = Len(toRcv) /\ ReceiverCallback(Throw(read))
    /\ UNCHANGED <<offer, snd, network>>

\* The answer of the user, outside of any handler that would catch.  The
\* client may be gone without a word (SessionEnds): its stream is freed and the
\* event's pointer to it is NULL.  Or send() throws.
UserAnswers(after) ==
    \/ /\ rcv.client # "none"
       /\ rcv' = [after EXCEPT !.out = <<>>]
       /\ toSnd' = toSnd \o Delivered(after.out, snd)
    \/ /\ rcv.client = "none" \/ (after.out # <<>> /\ AtEnd(snd))
       /\ rcv' = [rcv EXCEPT !.crashed = TRUE, !.client = "none"]
       /\ UNCHANGED toSnd

\* Replace, or Save As under a name that can be opened: the conflict sheet
ReplaceFile ==
    /\ Running(rcv) /\ rcv.sheet = "conflict"
    /\ LET asked == [rcv EXCEPT !.sheet = "none"] IN
       \/ UserAnswers(OpenAndReceive(asked, rcv.name))
       \/ rcv.name # NoFile /\ UserAnswers(ReceiveFile(Opened(asked, rcv.name)))
    /\ NoTrouble /\ UNCHANGED <<offer, snd, toRcv, network>>

\* Skip, on the conflict sheet or with the button, which is enabled when the
\* first file arrives and disabled by the signal that the transfer is complete.
\* Bound: the button is pressed once for a file.
Skip ==
    /\ Running(rcv) /\ rcv.window
    /\ rcv.currFile > 0 /\ rcv.shown \in {"RECEIVE", "TIMEOUT"}
    /\ rcv.currFile \notin rcv.skipped
    /\ UserAnswers(SkipFile([rcv EXCEPT !.sheet = "none"]))
    /\ NoTrouble /\ UNCHANGED <<offer, snd, toRcv, network>>

\* ICQ for the Mac at the receiving end asks to skip with a file number (external).
MacSkips ==
    /\ Running(rcv) /\ rcv.client = "connected" /\ rcv.wanting
    /\ rcv.currFile < rcv.total
    /\ rcv' = [rcv EXCEPT !.wanting = FALSE, !.sheet = "none", !.skipped = @ \cup {rcv.currFile}]
    /\ toSnd' = toSnd \o Delivered(<<[type |-> "03", pos |-> 0, file |-> rcv.total + 1]>>, snd)
    /\ NoTrouble /\ UNCHANGED <<offer, snd, toRcv, network>>

\* "Stop"
ReceiverCancels ==
    /\ Running(rcv) /\ rcv.window /\ rcv.shown \notin Ended
    /\ rcv' = [Cancelled(rcv) EXCEPT !.window = FALSE, !.sheet = "none"]
    /\ Trouble /\ UNCHANGED <<offer, snd, toSnd, toRcv, network>>

\* messageack is connected when the connection is accepted, not before.
ReceiverTimesOut ==
    /\ Running(rcv) /\ rcv.client # "none" /\ rcv.state # "CONNECTED"
    /\ LET late == [rcv EXCEPT !.ev = "TIMEOUT"] IN
       rcv' = IF rcv.client = "connected" THEN Update(late) ELSE late
    /\ Trouble /\ UNCHANGED <<offer, snd, toSnd, toRcv, network>>

-----------------------------------------------------------------------------
(* Around both.                                                            *)

\* DisconnectDirectConns deletes the clients and tells nobody.  One that still
\* listens has no socket, which its destructor uses.
DirectConnsRemoved(e) ==
    [e EXCEPT !.client = "none", !.stream = NoFile, !.crashed = e.client = "listening"]

\* The ICQ session of either end is over.
SessionEnds ==
    /\ \/ /\ Running(snd) /\ snd.client # "none"
          /\ snd' = DirectConnsRemoved(snd) /\ UNCHANGED rcv
       \/ /\ Running(rcv) /\ rcv.client # "none"
          /\ rcv' = DirectConnsRemoved(rcv) /\ UNCHANGED snd
    /\ Trouble /\ UNCHANGED <<offer, toSnd, toRcv, network>>

\* The network between them (external).
NetworkBreaks ==
    /\ network = "up" /\ network' = "broken"
    /\ toSnd' = <<>> /\ toRcv' = <<>>
    /\ Trouble /\ UNCHANGED <<offer, snd, rcv>>

-----------------------------------------------------------------------------
Init ==
    /\ \E sizes \in Offers, known \in BOOLEAN, garbage \in Garbage :
          \E existing, locked, missing \in SUBSET DOMAIN sizes :
             /\ Cardinality(existing) + Cardinality(locked) + Cardinality(missing) <= MaxBadFiles
             /\ offer = [sizes |-> sizes, existing |-> existing, locked |-> locked,
                      missing |-> missing, known |-> known, garbage |-> garbage]
    /\ snd = [NewEnd("WAIT_RESPONS", FALSE, "none")
                 EXCEPT !.total = Len(offer.sizes), !.totalSize = TotalSize]
    /\ rcv = [NewEnd("RECEIVE", TRUE, "listening") EXCEPT !.totalSize = TotalSize]
    /\ toSnd = <<>> /\ toRcv = <<>> /\ network = "up"
    /\ troubles = 0

Next ==
    \/ StartSending \/ FinishConnect \/ SenderWritable \/ SenderCancels \/ SenderTimesOut
    \/ AcceptConnection \/ ReceiverReadable \/ ReplaceFile \/ Skip \/ MacSkips
    \/ ReceiverCancels \/ ReceiverTimesOut
    \/ SessionEnds \/ NetworkBreaks

Spec == Init /\ [][Next]_vars

\* Both run loops serve their sockets, and a connection attempt has an end.
\* Nothing is assumed of the users or of the time.
SenderRuns == StartSending \/ FinishConnect \/ SenderWritable
ReceiverRuns == AcceptConnection \/ ReceiverReadable
FairSpec == Spec /\ WF_vars(SenderRuns) /\ WF_vars(ReceiverRuns)

-----------------------------------------------------------------------------
(* Properties.                                                             *)

Packet ==
    [type : {"INIT", "ACK", "01", "05"}]
        \cup [type : {"00"}, total : Nat, totalSize : Nat]
        \cup [type : {"02"}, name : Nat, size : Nat]
        \cup [type : {"03"}, pos : {0}, file : Nat]
        \cup [type : {"04"}, file : Nat]
        \cup [type : {"06"}, data : Seq(Chunk)]

TypeOK ==
    /\ \A e \in {snd, rcv} :
          /\ e.ev \in EventStates /\ e.shown \in EventStates
          /\ e.client \in {"none", "listening", "connecting", "connected"}
          /\ e.state \in {"NOT_CONNECTED", "WAITING_FOR_INIT", "WAITING_FOR_INIT_ACK", "CONNECTED"}
          /\ {e.total, e.totalSize, e.currFile, e.size, e.pos, e.totalPos, e.name, e.stream} \subseteq Nat
          /\ {e.incoming, e.more, e.continue, e.wanting, e.queued, e.window, e.crashed} \subseteq BOOLEAN
          /\ e.thrown = FALSE /\ e.out = <<>>
    /\ toSnd \in Seq(Packet) /\ toRcv \in Seq(Packet)
    /\ network \in {"up", "broken"} /\ troubles \in 0..MaxTroubles

\* Whatever is skipped, replaced or interrupted, each file on the disk is the
\* front of the file that was offered under that name.
DataInPlace ==
    \A f \in DOMAIN rcv.disk : IsPrefix(rcv.disk[f], FileIs(f))

\* The files after which there is nothing more to receive.
Rest == {f \in Files : SizeOfFirst(f - 1) = TotalSize}

\* The window says "Received n files" only if each is on the disk from its
\* first byte to its last, except those the user skipped and empty ones at
\* the end.
CompleteMeansReceived ==
    rcv.ev = "COMPLETE" =>
       \A f \in Files \ (rcv.skipped \cup Rest) :
          f \in DOMAIN rcv.disk /\ rcv.disk[f] = FileIs(f)

\* Both positions count the files before the current one whole, skipped ones
\* too: the receiver's decides when the transfer is complete.  The sender's is
\* off by what its event's m_size happened to hold.
PositionCountsFiles ==
    \A e \in {snd, rcv} : e.currFile > 0 /\ e.name = e.currFile =>
       e.totalPos = SizeOfFirst(e.currFile - 1) + e.pos
                       + (IF e.incoming THEN 0 ELSE offer.garbage)

\* A transfer that is complete for the sender does not fail for the receiver,
\* unless the network loses what was under way or the user stops it.
SentMeansReceived ==
    snd.ev = "COMPLETE" /\ rcv.ev \in Ended =>
       rcv.ev = "COMPLETE" \/ network = "broken" \/ ~rcv.window

\* An end that has come to an end keeps no client that could go on.  (The
\* receiver's survives a stop before the connection and the skip of the last
\* file.)
EndedIsClosed ==
    /\ snd.ev \in Ended => snd.client = "none"
    /\ rcv.ev \in {"ERROR", "CANCELLED"} => rcv.client = "none"
    /\ rcv.ev = "COMPLETE" /\ rcv.client # "none" => rcv.currFile \in rcv.skipped

\* Once a window has shown an end, and no client is left, no later callback
\* shows or records another one: a late answer, a timeout or the peer's close.
EndedStaysEnded ==
    [][\A n \in {1, 2} :
          LET e == <<snd, rcv>>[n] IN
          e.shown \in Ended /\ e.client = "none" =>
             LET later == <<snd, rcv>>'[n] IN
             later.ev = e.ev /\ later.shown = e.shown]_vars

\* Once the data can flow the transfer comes to an end at the sender, unless
\* the receiver waits for its user, for a file it could not open, or for
\* a transfer it has given up.
TransferEnds ==
    (snd.state = "CONNECTED" /\ snd.client = "connected")
       ~> (snd.client = "none" \/ rcv.wanting)

\* What is on the disk, what is counted and what is shown as received are
\* the files that were offered.
FilesArrive == DataInPlace /\ CompleteMeansReceived /\ PositionCountsFiles

\* Both ends come to the same end, and close.
EndsAgree == SentMeansReceived /\ EndedIsClosed
=============================================================================
