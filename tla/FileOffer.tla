----------------------------- MODULE FileOffer ------------------------------
(***************************************************************************)
(* Offering files, between two copies of this program that know each       *)
(* other: the DirectClients of the connections between them, with their    *)
(* handshake, queue and cache of sequence numbers; Client's cookie cache   *)
(* for offers that go through the server; and the users, who offer, cancel, *)
(* accept and decline.  What follows an acceptance is FileTransfer.        *)
(*                                                                         *)
(* One action is one callback of a run loop, or one command of a user.     *)
(* The handlers are operators on the record of one program; what they send *)
(* is in "out".                                                            *)
(***************************************************************************)
EXTENDS Naturals, SequencesExt

CONSTANTS
    Offers,     \* the offers that are made
    Senders,    \* who may make which
    MaxConns    \* bound: the direct connections that are tried

Programs == {"A", "B"}

ASSUME SendersAssumption == Senders \subseteq [Offers -> Programs]
ASSUME BoundAssumption == MaxConns \in Nat

Other(p) == IF p = "A" THEN "B" ELSE "A"
Conns == 1..MaxConns

VARIABLES
    from,       \* who makes each offer
    prog,       \* the state of each program
    chan,       \* chan[c][p]: what is on its way to p on connection c
    caller,     \* caller[c]: who opened connection c
    server,     \* the offers the server has to deliver
    answer,     \* history: what the user who was asked has answered
    withdrawn   \* history: offers cancelled in time; "queued" if the offer was
                \* not sent yet

vars == <<from, prog, chan, caller, server, answer, withdrawn>>

(* Sequence number n stands for 16^4 - n, and 0 for the m_seqnum of an     *)
(* event that was not sent.                                                *)
NoEvent == [state |-> "none", seq |-> 0, direct |-> FALSE]

NewClient(s) == [state |-> s, queue |-> <<>>, cache |-> <<>>, sent |-> 0]

NewProgram ==
    [event |-> [o \in Offers |-> NoEvent],  \* the FileTransferEvents
     dc |-> [c \in Conns |-> NewClient("none")],   \* the DirectClients
     list |-> <<>>,      \* m_dccache: connections by the time they expire
     cookies |-> {},     \* m_cookiecache: offers sent or received by server
     out |-> <<>>]       \* what the callback sends

-----------------------------------------------------------------------------
(* Cache: the entries in the order in which they expire.  Times are whole  *)
(* seconds, and among equal ones the newest entry is first.                *)

Insert(cache, entry, sameSecond) ==
    IF sameSecond THEN <<entry>> \o cache ELSE Append(cache, entry)

\* Those elements of a sequence that are kept, in their order.
Only(seq, kept) ==
    LET front[i \in 0..Len(seq)] ==
          IF i = 0 THEN <<>>
          ELSE IF seq[i] \in kept THEN Append(front[i - 1], seq[i]) ELSE front[i - 1]
    IN  front[Len(seq)]

Exists(cache, n) == \E i \in DOMAIN cache : cache[i].seq = n
Lookup(cache, n) == cache[SelectInSeq(cache, LAMBDA entry : entry.seq = n)].offer
Without(cache, n) == RemoveFirstMatch(cache, LAMBDA entry : entry.seq = n)

-----------------------------------------------------------------------------
(* DirectClient.                                                           *)

SetState(s, o, st) == [s EXCEPT !.event[o].state = st]

\* expired_cb and Client::dc_messageack_cb
Expire(s, offers) ==
    [s EXCEPT !.event = [o \in Offers |->
        IF o \in offers THEN [s.event[o] EXCEPT !.state = "TIMEOUT"] ELSE s.event[o]]]

\* Mutant: the queue is forgotten with the connection.
DisconnectForgets(s, c) ==
    [Expire(s, {entry.offer : entry \in ToSet(s.dc[c].cache)})
        EXCEPT !.dc[c] = NewClient("closed"), !.list = Only(@, Conns \ {c})]

\* Mutant: a connection that is over stays in the list.
DisconnectListed(s, c) ==
    [Expire(s, {entry.offer : entry \in ToSet(s.dc[c].cache)} \cup ToSet(s.dc[c].queue))
        EXCEPT !.dc[c] = NewClient("closed")]

\* Client::DisconnectDirectConn, with the destructor
Disconnect(s, c) ==
    [Expire(s, {entry.offer : entry \in ToSet(s.dc[c].cache)} \cup ToSet(s.dc[c].queue))
        EXCEPT !.dc[c] = NewClient("closed"), !.list = Only(@, Conns \ {c})]

Send(s, c, msg) == [s EXCEPT !.out = Append(@, <<c, msg>>)]
Simple(t) == [type |-> t]

SendPacketEvent(s, c, o, sameSecond) ==
    LET n == s.dc[c].sent + 1 IN
    [Send(s, c, [type |-> "START", seq |-> n, offer |-> o])
        EXCEPT !.event[o].seq = n, !.dc[c].sent = n,
               !.dc[c].cache = Insert(@, [seq |-> n, offer |-> o], sameSecond)]

\* SendEvent: until the handshake is over the offer waits in the queue.
SendEvent(s, c, o, sameSecond) ==
    IF s.dc[c].state = "CONNECTED"
    THEN SendPacketEvent(s, c, o, sameSecond)
    ELSE [s EXCEPT !.dc[c].queue = Append(@, o)]

FlushQueue(s, c, sameSecond) ==
    LET queue == s.dc[c].queue
        after[i \in 0..Len(queue)] ==
          IF i = 0 THEN s ELSE SendPacketEvent(after[i - 1], c, queue[i], sameSecond)
    IN  [after[Len(queue)] EXCEPT !.dc[c].queue = <<>>]

\* dc_connected_cb: from now on the connection expires after those that
\* are still in the handshake.
Connected(s, c, sameSecond) ==
    FlushQueue([s EXCEPT !.dc[c].state = "CONNECTED",
                         !.list = Append(Only(@, Conns \ {c}), c)], c, sameSecond)

\* The client of a connection to the contact.  One that was accepted has no
\* contact until it is connected.
ByContact(s, p) ==
    Only(s.list, {c \in Conns : caller[c] = p \/ s.dc[c].state = "CONNECTED"})

\* The connections in the handshake come first in the list.
AddClient(s, c, st) ==
    LET late == {k \in Conns : s.dc[k].state = "CONNECTED"}
    IN  [s EXCEPT !.dc[c] = NewClient(st),
                  !.list = Only(@, Conns \ late) \o <<c>> \o Only(@, late)]

\* One packet in the handshake of version 7; anything else ends the connection.
Handshake(s, p, c, msg, sameSecond) ==
    LET st == s.dc[c].state
        calling == caller[c] = p
        To(next) == [s EXCEPT !.dc[c].state = next]
    IN  CASE ~calling /\ st = "INIT" /\ msg.type = "INIT" ->
                Send(Send(To("INIT_ACK"), c, Simple("ACK")), c, Simple("INIT"))
          [] ~calling /\ st = "INIT_ACK" /\ msg.type = "ACK" -> To("INIT2")
          [] ~calling /\ st = "INIT2" /\ msg.type = "INIT2" ->
                Connected(Send(s, c, Simple("INIT2")), c, sameSecond)
          [] calling /\ st = "INIT_ACK" /\ msg.type = "ACK" -> To("INIT")
          [] calling /\ st = "INIT" /\ msg.type = "INIT" ->
                Send(Send(To("INIT2"), c, Simple("ACK")), c, Simple("INIT2"))
          [] calling /\ st = "INIT2" /\ msg.type = "INIT2" -> Connected(s, c, sameSecond)
          [] OTHER -> Disconnect(s, c)

\* handleIncomingFT: the user is asked.
Asked(s, o, n, direct) ==
    [s EXCEPT !.event[o] = [state |-> "NOT_CONNECTED", seq |-> n, direct |-> direct]]

\* handleIncomingFTACK; an acceptance begins the transfer.
HandleIncomingACK(s, o, accepted) ==
    [SetState(s, o, IF accepted THEN "ACCEPTED" ELSE "REJECTED") EXCEPT !.event[o].direct = TRUE]

\* ParsePacketInt
ParsePacket(s, c, msg, sameSecond) ==
    LET cache == s.dc[c].cache
        known == Exists(cache, msg.seq)
        offer == Lookup(cache, msg.seq)
        removed == [s EXCEPT !.dc[c].cache = Without(@, msg.seq)]
    IN  CASE msg.type = "START" ->
                [Asked(s, msg.offer, msg.seq, TRUE)
                    EXCEPT !.dc[c].cache =
                               Insert(@, [seq |-> msg.seq, offer |-> msg.offer], sameSecond)]
          [] msg.type = "ANSWER" /\ known -> HandleIncomingACK(removed, offer, msg.accepted)
          [] msg.type = "CANCEL" /\ known -> SetState(removed, offer, "CANCELLED")
          [] OTHER -> s

Parse(s, p, c, msg, sameSecond) ==
    IF s.dc[c].state # "CONNECTED" THEN Handshake(s, p, c, msg, sameSecond)
    ELSE IF msg.type \in {"START", "ANSWER", "CANCEL"} THEN ParsePacket(s, c, msg, sameSecond)
    ELSE Disconnect(s, c)

\* Whatever the handshake has come to; send() fails on a socket that is not
\* connected.
SendFTACK(s, c, o, accepted) ==
    LET n == s.event[o].seq IN
    IF s.dc[c].state = "connecting"
    THEN Disconnect(s, c)
    ELSE [Send(s, c, [type |-> "ANSWER", seq |-> n, accepted |-> accepted])
            EXCEPT !.dc[c].cache = Only(@, {entry \in ToSet(s.dc[c].cache) : entry.seq # n})]

\* Mutant: the cancelled offer stays in the cache.
SendFTCancelKept(s, c, o) ==
    IF s.dc[c].state = "connecting" THEN Disconnect(s, c)
    ELSE Send(s, c, [type |-> "CANCEL", seq |-> s.event[o].seq])

SendFTCancel(s, c, o) ==
    LET n == s.event[o].seq IN
    IF s.dc[c].state = "connecting"
    THEN Disconnect(s, c)
    ELSE [Send(s, c, [type |-> "CANCEL", seq |-> n]) EXCEPT !.dc[c].cache = Without(@, n)]

-----------------------------------------------------------------------------
(* Client.                                                                 *)

Used == {c \in Conns : caller[c] # "none"}

\* The connection that ConnectDirect uses: one there is, or a new one if it can
\* be tried.
Connecting(s, p) ==
    IF ByContact(s, p) # <<>>
    THEN {[s |-> s, conn |-> ByContact(s, p)[1]]}
    ELSE {[s |-> AddClient(s, c, "connecting"), conn |-> c] : c \in {k \in Conns : k = Cardinality(Used) + 1}}

\* What a packet needs to arrive: the other end has not closed its socket.
Arriving(p, c, out) ==
    IF prog[Other(p)].dc[c].state = "closed" THEN <<>>
    ELSE LET onConn == Only(out, {pair \in ToSet(out) : pair[1] = c})
         IN  [i \in DOMAIN onConn |-> onConn[i][2]]

\* The end of a callback of program p.
Settle(p, s) ==
    /\ prog' = [prog EXCEPT ![p] = [s EXCEPT !.out = <<>>]]
    /\ caller' = [c \in Conns |->
         IF caller[c] = "none" /\ s.dc[c].state # "none" THEN p ELSE caller[c]]

Sends(p, s) ==
    chan' = [c \in Conns |-> [chan[c] EXCEPT ![Other(p)] = @ \o Arriving(p, c, s.out)]]

Reacts(p, s) == Settle(p, s) /\ Sends(p, s)

\* The second entry of a cache may come in the same second as the first.
SameSecond(p, c) == IF prog[p].dc[c].cache = <<>> /\ Len(prog[p].dc[c].queue) < 2 THEN {FALSE} ELSE BOOLEAN

-----------------------------------------------------------------------------
(* The users.                                                              *)

\* SendFileTransfer in state NOT_CONNECTED
SendFileTransfer(p, o) ==
    LET waiting(direct) == [prog[p] EXCEPT !.event[o].state = "WAIT_RESPONS",
                                           !.event[o].direct = direct]
        viaServer(direct) == [waiting(direct) EXCEPT !.cookies = @ \cup {o}]
    IN  /\ from[o] = p /\ prog[p].event[o].state = "none"
        /\ \/ \E way \in Connecting(waiting(TRUE), p) : \E same \in SameSecond(p, way.conn) :
                 Reacts(p, SendEvent(way.s, way.conn, o, same)) /\ UNCHANGED server
           \/ \E direct \in BOOLEAN :
                 /\ direct => ByContact(prog[p], p) = <<>>
                 /\ Reacts(p, viaServer(direct))
                 /\ server' = server \cup {o}
        /\ UNCHANGED <<from, answer, withdrawn>>

\* CancelFileTransfer before there is an answer
CancelFileTransfer(p, o) ==
    LET s == prog[p]
        over(t) == SetState(t, o, "NOT_CONNECTED")
    IN  /\ from[o] = p /\ s.event[o].state = "WAIT_RESPONS"
        /\ \/ /\ s.event[o].direct
              /\ \E way \in Connecting(s, p) : Reacts(p, over(SendFTCancel(way.s, way.conn, o)))
           \/ /\ s.event[o].direct /\ ByContact(s, p) = <<>>
              /\ Reacts(p, SetState(s, o, "ERROR"))
           \/ ~s.event[o].direct /\ Reacts(p, over(s))
        /\ withdrawn' = [withdrawn EXCEPT ![o] =
             IF \E c \in Conns : o \in ToSet(s.dc[c].queue) THEN "queued" ELSE "yes"]
        /\ UNCHANGED <<from, server, answer>>

\* SendFileTransferACK, from a sheet that nothing closes but the answer.  The
\* answer that goes through the server has a cookie of its own, which the
\* other end does not know.
Answer(p, o, accepted) ==
    LET s == prog[p]
        over(t) == SetState(t, o, IF accepted THEN "RECEIVE" ELSE "NOT_CONNECTED")
    IN  /\ from[o] # p /\ s.event[o].state # "none" /\ answer[o] = "none"
        /\ \/ /\ s.event[o].direct
              /\ \E way \in Connecting(s, p) : Reacts(p, over(SendFTACK(way.s, way.conn, o, accepted)))
           \/ /\ s.event[o].direct /\ ByContact(s, p) = <<>>
              /\ Reacts(p, SetState(s, o, "ERROR"))
           \/ ~s.event[o].direct /\ Reacts(p, over(s))
        /\ answer' = [answer EXCEPT ![o] = IF accepted THEN "accepted" ELSE "declined"]
        /\ UNCHANGED <<from, server, withdrawn>>

-----------------------------------------------------------------------------
(* The sockets and the time.                                               *)

\* FinishNonBlockingConnect
FinishConnect(p, c) ==
    LET s == prog[p] IN
    /\ caller[c] = p /\ s.dc[c].state = "connecting"
    /\ Reacts(p, Send([s EXCEPT !.dc[c].state = "INIT_ACK"], c, Simple("INIT")))
    /\ UNCHANGED <<from, server, answer, withdrawn>>

\* The listening socket
AcceptConnection(p, c) ==
    /\ caller[c] = Other(p) /\ prog[p].dc[c].state = "none" /\ chan[c][p] # <<>>
    /\ Reacts(p, AddClient(prog[p], c, "INIT"))
    /\ UNCHANGED <<from, server, answer, withdrawn>>

Receive(p, c) ==
    /\ prog[p].dc[c].state \notin {"none", "closed"} /\ chan[c][p] # <<>>
    /\ \E same \in SameSecond(p, c) :
          LET s == Parse(prog[p], p, c, Head(chan[c][p]), same) IN
          /\ Settle(p, s)
          /\ chan' = [d \in Conns |->
               [chan[d] EXCEPT ![p] = IF d = c THEN Tail(@) ELSE @,
                               ![Other(p)] = @ \o Arriving(p, d, s.out)]]
    /\ UNCHANGED <<from, server, answer, withdrawn>>

\* A connection ends: it could not be opened, the other end has closed it, its
\* time is over, or the network or the session is gone.
LoseConnection(p, c) ==
    /\ prog[p].dc[c].state \notin {"none", "closed"}
    /\ Reacts(p, Disconnect(prog[p], c))
    /\ UNCHANGED <<from, server, answer, withdrawn>>

\* 30 seconds after the offer was sent or received; the oldest entry first
MessageExpires(p, c) ==
    LET s == prog[p] IN
    /\ s.dc[c].cache # <<>>
    /\ Reacts(p, [Expire(s, {Head(s.dc[c].cache).offer}) EXCEPT !.dc[c].cache = Tail(@)])
    /\ UNCHANGED <<from, server, answer, withdrawn>>

\* ICBMCookieCache_expired_cb, whatever has become of the offer
CookieExpires(p, o) ==
    /\ o \in prog[p].cookies
    /\ Reacts(p, [SetState(prog[p], o, "TIMEOUT") EXCEPT !.cookies = @ \ {o}])
    /\ UNCHANGED <<from, server, answer, withdrawn>>

\* SignalMessage
ReceiveFromServer(p, o) ==
    /\ o \in server /\ from[o] # p
    /\ server' = server \ {o}
    /\ Reacts(p, [Asked(prog[p], o, 0, FALSE) EXCEPT !.cookies = @ \cup {o}])
    /\ UNCHANGED <<from, answer, withdrawn>>

\* The server cannot deliver the offer (external).
ServerDrops(o) ==
    /\ o \in server
    /\ server' = server \ {o}
    /\ UNCHANGED <<from, prog, chan, caller, answer, withdrawn>>

-----------------------------------------------------------------------------
Init ==
    /\ from \in Senders
    /\ prog = [p \in Programs |-> NewProgram]
    /\ chan = [c \in Conns |-> [p \in Programs |-> <<>>]]
    /\ caller = [c \in Conns |-> "none"]
    /\ server = {}
    /\ answer = [o \in Offers |-> "none"]
    /\ withdrawn = [o \in Offers |-> "no"]

Next ==
    \/ \E p \in Programs, o \in Offers :
          \/ SendFileTransfer(p, o) \/ CancelFileTransfer(p, o)
          \/ Answer(p, o, TRUE) \/ Answer(p, o, FALSE)
          \/ CookieExpires(p, o) \/ ReceiveFromServer(p, o)
    \/ \E p \in Programs, c \in Conns :
          \/ FinishConnect(p, c) \/ AcceptConnection(p, c) \/ Receive(p, c)
          \/ LoseConnection(p, c) \/ MessageExpires(p, c)
    \/ \E o \in Offers : ServerDrops(o)

Spec == Init /\ [][Next]_vars

\* What Client::Poll finds expired sooner or later: entries of the caches, and
\* connections, 30 seconds after they were opened or 600 after the handshake.
Poll(p) ==
    \/ \E c \in Conns : MessageExpires(p, c) \/ LoseConnection(p, c)
    \/ \E o \in Offers : CookieExpires(p, o)

\* Each program polls.  Nothing is assumed of the users, the sockets, the server.
FairSpec ==
    /\ Spec
    /\ \A p \in Programs : WF_vars(Poll(p))

-----------------------------------------------------------------------------
(* Properties.                                                             *)

EventStates == {"none", "NOT_CONNECTED", "WAIT_RESPONS", "ACCEPTED", "REJECTED", "RECEIVE",
                "CANCELLED", "TIMEOUT", "ERROR"}
ClientStates == {"none", "connecting", "INIT", "INIT_ACK", "INIT2", "CONNECTED", "closed"}

Message ==
    [type : {"INIT", "ACK", "INIT2"}]
        \cup [type : {"START"}, seq : Nat, offer : Offers]
        \cup [type : {"ANSWER"}, seq : Nat, accepted : BOOLEAN]
        \cup [type : {"CANCEL"}, seq : Nat]

TypeOK ==
    /\ from \in [Offers -> Programs]
    /\ \A p \in Programs :
          /\ prog[p].event \in [Offers -> [state : EventStates, seq : Nat, direct : BOOLEAN]]
          /\ \A c \in Conns :
                /\ prog[p].dc[c].state \in ClientStates
                /\ prog[p].dc[c].queue \in Seq(Offers)
                /\ prog[p].dc[c].cache \in Seq([seq : Nat, offer : Offers])
                /\ c \in ToSet(prog[p].list) <=> prog[p].dc[c].state \notin {"none", "closed"}
          /\ prog[p].out = <<>>
    /\ \A c \in Conns, p \in Programs : chan[c][p] \in Seq(Message)
    /\ answer \in [Offers -> {"none", "accepted", "declined"}]
    /\ withdrawn \in [Offers -> {"no", "yes", "queued"}]

\* The event of an offer where it was made, and where it goes.
Made(o) == prog[from[o]].event[o]
Shown(o) == prog[Other(from[o])].event[o]

\* Two offers were sent under one sequence number: both ends count down from
\* the same number, on every connection anew, and a cache holds the offers of
\* both directions.
Ambiguous == \E o1, o2 \in Offers : o1 # o2 /\ Made(o1).seq = Made(o2).seq /\ Made(o1).seq > 0

\* The programs have connected more than once: because both called, or because
\* one has not noticed yet that the connection it has is over.  What concerns
\* an offer on one connection may then be said on the other.
Reconnected == Cardinality(Used) > 1

\* A transfer begins only if the user at the other end has accepted this very
\* offer, and an offer is shown as declined only if it was declined.
AnswerIsTheUsers ==
    Ambiguous \/ \A o \in Offers :
       /\ Made(o).state = "ACCEPTED" => answer[o] = "accepted"
       /\ Made(o).state = "REJECTED" => answer[o] = "declined"

\* An offer is shown as cancelled only if it was cancelled.
CancelIsTheSenders ==
    Ambiguous \/ \A o \in Offers : Shown(o).state = "CANCELLED" => withdrawn[o] # "no"

\* Every entry of a cache of sequence numbers is an offer whose fate is open:
\* what has been answered or cancelled cannot expire afterwards.
CachedIsOpen ==
    Ambiguous \/ Reconnected \/ \A p \in Programs, c \in Conns : \A entry \in ToSet(prog[p].dc[c].cache) :
       LET o == entry.offer IN
       IF from[o] = p THEN Made(o).state = "WAIT_RESPONS" \/ withdrawn[o] = "queued"
       ELSE answer[o] = "none"

\* A cancelled offer is not transferred.
WithdrawnIsOver ==
    Ambiguous \/ Reconnected \/ \A o \in Offers : withdrawn[o] = "yes" => Made(o).state # "ACCEPTED"

\* Nobody waits for ever for an answer.  (An offer waits once, so there is no
\* end to the waiting only if one offer waits for ever.)
WaitEnds == []<>(Ambiguous \/ \A o \in Offers : Made(o).state # "WAIT_RESPONS")

\* What has become of an offer is what its users have done with it, at both
\* ends and in their caches.
OutcomeIsTheUsers == AnswerIsTheUsers /\ CancelIsTheSenders /\ CachedIsOpen /\ WithdrawnIsOver
=============================================================================
