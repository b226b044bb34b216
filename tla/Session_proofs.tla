--------------------------- MODULE Session_proofs ---------------------------
(***************************************************************************)
(* Proofs about Session, for every set of statuses and peers, every window *)
(* and every bound.  The invariants are not inductive one by one: a login  *)
(* packet carries the wanted status, so its type needs OfflineIsRespected, *)
(* which needs SocketFollowsState, and so on.  Their conjunction IInv is.  *)
(* It is split by the variables it speaks of, so that every action only    *)
(* has to deal with the parts it touches.  That the server is told of the  *)
(* wanted status (StatusIsAnnounced) is proved apart, at the end, since it *)
(* is about what is in the queues, from IInv and one part more.            *)
(***************************************************************************)
EXTENDS Session, SequenceTheorems, TLAPS

ConnOK ==
    /\ state \in States
    /\ sock \in {"NOT_CONNECTED", "NONBLOCKING_CONNECT", "CONNECTED"}
    /\ watch \in [server : SUBSET {"READ", "WRITE"}, listen : SUBSET {"READ"}]
    /\ listening \in BOOLEAN
    /\ direct \subseteq Peers
    /\ loggedIn \in BOOLEAN
    /\ told \in Contract!Signal
    /\ SocketFollowsState
    /\ WatchFollowsSockets
    /\ LoggedInAgrees

OutOK == queue \in Seq(Packet) /\ budget \in 0..Rate

LinkOK ==
    /\ srv \in Expectation /\ srvStatus \in AllStatuses
    /\ toServer \in Seq(Packet) /\ toClient \in Seq(Flap)

RestOK ==
    /\ wanted \in AllStatuses
    /\ spinning \in BOOLEAN
    /\ partial \in {"no", "own", "old"}

IInv == ConnOK /\ OutOK /\ LinkOK /\ RestOK /\ OfflineIsRespected

Reason == Contract!Reason

-----------------------------------------------------------------------------
(* Lemmas about the helpers.                                               *)

\* A packet without a status is a packet.
LEMMA PlainPacket == ASSUME NEW k \in Plain PROVE P(k) \in Packet
BY DEF P, Packet

\* A packet with one of the statuses is a packet.
LEMMA StatusPacket ==
    ASSUME NEW k \in {"login", "status"}, NEW st \in Statuses
    PROVE  Carrying(k, st) \in Packet
BY DEF Carrying, Packet

\* The wire to us is empty, or holds the server's first FLAP.
LEMMA EmptyWire == <<"ConnAck">> \in Seq(Flap) /\ <<>> \in Seq(Flap)
BY DEF Flap

\* A burst takes no more than there is, nor more than the window allows.
LEMMA BurstBound ==
    ASSUME OutOK, NEW q \in Seq(Packet)
    PROVE  Burst(q) \in 0..Len(q) /\ Burst(q) <= budget
BY DEF Burst, OutOK

\* Transmitting preserves the types of the queue and of the wire.
LEMMA TransmitOK ==
    ASSUME OutOK, LinkOK, NEW q \in Seq(Packet), Transmit(q)
    PROVE  OutOK' /\ toServer' \in Seq(Packet)
<1>1. Burst(q) \in 0..Len(q) /\ Burst(q) <= budget
  BY BurstBound
<1>2. Len(q) \in Nat /\ Burst(q) \in Nat /\ budget \in Nat
  BY <1>1 DEF OutOK
<1>3. SubSeq(q, Burst(q) + 1, Len(q)) \in Seq(Packet)
  BY <1>1, <1>2
<1>4. SubSeq(q, 1, Burst(q)) \in Seq(Packet)
  BY <1>1, <1>2
<1>5. budget - Burst(q) \in 0..Rate
  BY <1>1, <1>2, RateAssumption DEF OutOK
<1>6. toServer \o SubSeq(q, 1, Burst(q)) \in Seq(Packet)
  BY <1>4 DEF LinkOK
<1> QED
  BY <1>3, <1>5, <1>6 DEF Transmit, OutOK

\* Tearing the connection down and reporting it leaves everything closed,
\* nothing selected on and the application informed.
LEMMA TearDownOK ==
    ASSUME ConnOK, LinkOK, TearDown, NEW r \in Reason, SignalDisconnect(r)
    PROVE  ConnOK' /\ LinkOK' /\ state' = "NOT_CONNECTED"
<1>1. LinkOK'
  BY DEF LinkOK, TearDown, CloseServerSocket, Expectation, AllStatuses
<1>2. state' = "NOT_CONNECTED" /\ sock' = "NOT_CONNECTED"
  BY DEF TearDown, CloseServerSocket
<1>3. listening' = FALSE /\ direct' = {} /\ watch' = NoWatch
  BY DEF ConnOK, TearDown, DisconnectAuthorizer, DisconnectBOS, AuthStates,
         LoggedInAgrees, WatchFollowsSockets, NoWatch
<1>4. loggedIn' = FALSE /\ told' \in Contract!Signal /\ told' # "connected"
  BY DEF SignalDisconnect, Reason, Contract!Reason, Contract!Signal
<1> QED
  BY <1>1, <1>2, <1>3, <1>4
     DEF ConnOK, States, NoWatch, SocketFollowsState, WatchFollowsSockets, LoggedInAgrees

\* The same for a disconnection that leaves the buffers as they are.
LEMMA DisconnectOK ==
    ASSUME IInv, NEW r \in Reason, Disconnect(r), LeaveBuffers, UNCHANGED <<wanted, spinning>>
    PROVE  IInv'
<1>1. ConnOK' /\ LinkOK' /\ state' = "NOT_CONNECTED"
  BY TearDownOK DEF IInv, Disconnect
<1>2. OutOK'
  BY DEF IInv, OutOK, LeaveBuffers, out
<1>3. RestOK'
  BY DEF IInv, RestOK, LeaveBuffers
<1> QED
  BY <1>1, <1>2, <1>3 DEF IInv, OfflineIsRespected

\* A failing send() disconnects, whatever it was sending.
LEMMA SendFailureOK ==
    ASSUME IInv, NEW q \in Seq(Packet), SendFailure(q), wanted' \in AllStatuses
    PROVE  IInv'
<1>1. PICK n \in 0..(Burst(q) - 1) :
         /\ queue' = SubSeq(q, n + 1, Len(q))
         /\ budget' = budget - n
  BY DEF SendFailure
<1>2. Burst(q) \in 0..Len(q) /\ Burst(q) <= budget
  BY BurstBound DEF IInv
<1>3. Len(q) \in Nat /\ n \in 0..Len(q) /\ budget \in 0..Rate /\ n <= budget
  BY <1>2 DEF IInv, OutOK
<1>4. SubSeq(q, n + 1, Len(q)) \in Seq(Packet)
  BY <1>3
<1>5. budget - n \in 0..Rate /\ Len(q) - n \in Nat
  BY <1>3, RateAssumption
<1>6. OutOK'
  BY <1>1, <1>4, <1>5 DEF OutOK
<1>7. ConnOK' /\ LinkOK' /\ state' = "NOT_CONNECTED"
  BY TearDownOK DEF IInv, SendFailure, Disconnect, Reason, Contract!Reason
<1>8. RestOK'
  BY DEF IInv, RestOK, SendFailure
<1> QED
  BY <1>6, <1>7, <1>8 DEF IInv, OfflineIsRespected

\* Sending while logged in, and nothing else.
LEMMA SendOK ==
    ASSUME IInv, NEW q \in Seq(Packet), wanted' \in Statuses \/ UNCHANGED wanted,
           \/ /\ Transmit(q)
              /\ UNCHANGED <<conn, app, srv, srvStatus, toClient, partial, spinning>>
           \/ SendFailure(q)
    PROVE  IInv'
<1>1. wanted' \in AllStatuses
  BY DEF IInv, RestOK, AllStatuses
<1>2. CASE SendFailure(q)
  BY <1>1, <1>2, SendFailureOK
<1>3. CASE /\ Transmit(q)
           /\ UNCHANGED <<conn, app, srv, srvStatus, toClient, partial, spinning>>
  <2>1. OutOK' /\ toServer' \in Seq(Packet)
    BY <1>3, TransmitOK DEF IInv
  <2>2. LinkOK'
    BY <1>3, <2>1 DEF IInv, LinkOK
  <2>3. ConnOK'
    BY <1>3 DEF IInv, ConnOK, conn, app, SocketFollowsState, WatchFollowsSockets, LoggedInAgrees
  <2>4. RestOK'
    BY <1>1, <1>3 DEF IInv, RestOK
  <2>5. OfflineIsRespected'
    BY <1>3, StatusAssumption DEF IInv, OfflineIsRespected, conn
  <2> QED
    BY <2>1, <2>2, <2>3, <2>4, <2>5 DEF IInv
<1> QED
  BY <1>2, <1>3

-----------------------------------------------------------------------------
(* The initial state, and the user's actions.                              *)

\* The inductive invariant holds initially.
LEMMA InitInv == Init => IInv
<1> SUFFICES ASSUME Init PROVE IInv
  OBVIOUS
<1>1. SocketFollowsState /\ WatchFollowsSockets /\ LoggedInAgrees
  BY DEF Init, NoWatch, SocketFollowsState, WatchFollowsSockets, LoggedInAgrees
<1>2. ConnOK
  BY <1>1 DEF Init, ConnOK, States, NoWatch, Contract!Signal
<1>3. OutOK
  BY RateAssumption DEF Init, OutOK
<1>4. LinkOK
  BY DEF Init, LinkOK, Expectation, AllStatuses
<1>5. RestOK /\ OfflineIsRespected
  BY DEF Init, RestOK, OfflineIsRespected, AllStatuses
<1> QED
  BY <1>2, <1>3, <1>4, <1>5 DEF IInv

\* Going offline preserves the invariant.
LEMMA GoOfflineInv == IInv /\ GoOffline => IInv'
<1> SUFFICES ASSUME IInv, GoOffline PROVE IInv'
  OBVIOUS
<1>1. CASE state = "NOT_CONNECTED"
  <2>1. UNCHANGED <<conn, out, app, link, partial, spinning>>
    BY <1>1 DEF GoOffline
  <2>2. ConnOK' /\ OutOK' /\ LinkOK'
    BY <2>1 DEF IInv, ConnOK, OutOK, LinkOK, conn, out, app, link,
                SocketFollowsState, WatchFollowsSockets, LoggedInAgrees
  <2>3. RestOK' /\ OfflineIsRespected'
    BY <1>1, <2>1 DEF IInv, RestOK, OfflineIsRespected, GoOffline, AllStatuses, conn
  <2> QED
    BY <2>2, <2>3 DEF IInv
<1>2. CASE state # "NOT_CONNECTED"
  <2>1. Disconnect("REQUESTED") /\ LeaveBuffers /\ wanted' = "OFFLINE" /\ UNCHANGED spinning
    BY <1>2 DEF GoOffline
  <2>2. ConnOK' /\ LinkOK' /\ state' = "NOT_CONNECTED"
    BY <2>1, TearDownOK DEF IInv, Disconnect, Reason, Contract!Reason
  <2>3. OutOK' /\ RestOK'
    BY <2>1 DEF IInv, out, OutOK, RestOK, LeaveBuffers, AllStatuses
  <2> QED
    BY <2>2, <2>3 DEF IInv, OfflineIsRespected
<1> QED
  BY <1>1, <1>2

\* Beginning to connect: refused, or with the socket on its way.
LEMMA ConnectAuthorizerOK ==
    ASSUME IInv, state = "NOT_CONNECTED", ConnectAuthorizer
    PROVE  ConnOK' /\ LinkOK'
<1>1. CASE SignalDisconnect("FAILED_LOWLEVEL") /\ UNCHANGED <<conn, link>>
  <2>1. loggedIn' = FALSE /\ told' = "FAILED_LOWLEVEL" /\ told' \in Contract!Signal
    BY <1>1 DEF SignalDisconnect, Contract!Signal, Contract!Reason
  <2>2. state # "BOS_LOGGED_IN" /\ ~listening /\ direct = {}
    BY DEF IInv, ConnOK, LoggedInAgrees
  <2>3. SocketFollowsState' /\ WatchFollowsSockets'
    BY <1>1 DEF IInv, ConnOK, conn, SocketFollowsState, WatchFollowsSockets
  <2>4. LoggedInAgrees'
    BY <1>1, <2>1, <2>2 DEF LoggedInAgrees, conn
  <2> QED
    BY <1>1, <2>1, <2>3, <2>4 DEF IInv, ConnOK, LinkOK, conn, link
<1>2. CASE /\ sock = "NOT_CONNECTED"
           /\ \E s \in {"NONBLOCKING_CONNECT", "CONNECTED"} :
                 /\ sock' = s
                 /\ srv' = IF s = "CONNECTED" THEN "auth" ELSE "none"
                 /\ toClient' = IF s = "CONNECTED" THEN <<"ConnAck">> ELSE <<>>
           /\ watch' = [watch EXCEPT !.server = @ \cup {"WRITE"}]
           /\ state' = "AUTH_AWAITING_CONN_ACK"
           /\ UNCHANGED <<listening, direct, app, srvStatus, toServer>>
  <2>0. srv' \in Expectation /\ toClient' \in {<<"ConnAck">>, <<>>}
    BY <1>2 DEF Expectation
  <2>1. LinkOK'
    BY <1>2, <2>0, EmptyWire DEF IInv, LinkOK
  <2>2. watch' = [server |-> {"WRITE"}, listen |-> watch.listen]
    BY <1>2 DEF IInv, ConnOK, WatchFollowsSockets
  <2>3. SocketFollowsState' /\ WatchFollowsSockets'
    BY <1>2, <2>2 DEF IInv, ConnOK, SocketFollowsState, WatchFollowsSockets
  <2>4. LoggedInAgrees'
    BY <1>2 DEF IInv, ConnOK, app, LoggedInAgrees
  <2>5. watch' \in [server : SUBSET {"READ", "WRITE"}, listen : SUBSET {"READ"}]
    BY <2>2 DEF IInv, ConnOK
  <2> QED
    BY <1>2, <2>1, <2>3, <2>4, <2>5 DEF IInv, ConnOK, app, States, AuthStates
<1> QED
  BY <1>1, <1>2 DEF ConnectAuthorizer

\* A change of status preserves the invariant.
LEMMA SetStatusInv == ASSUME IInv, NEW st \in Statuses, SetStatus(st) PROVE IInv'
<1>0. wanted' = st /\ wanted' \in Statuses
  BY DEF SetStatus
<1>1. CASE state = "BOS_LOGGED_IN"
  <2> DEFINE q == Append(queue, Carrying("status", st))
  <2>1. q \in Seq(Packet)
    BY StatusPacket DEF IInv, OutOK
  <2>2. \/ /\ Transmit(q)
           /\ UNCHANGED <<conn, app, srv, srvStatus, toClient, partial, spinning>>
        \/ SendFailure(q)
    BY <1>1 DEF SetStatus
  <2> HIDE DEF q
  <2> QED
    BY <1>0, <2>1, <2>2, SendOK
<1>2. CASE state = "NOT_CONNECTED"
  <2>1. ConnectAuthorizer /\ UNCHANGED <<out, partial, spinning>>
    BY <1>2 DEF SetStatus
  <2>2. ConnOK' /\ LinkOK'
    BY <1>2, <2>1, ConnectAuthorizerOK
  <2>3. OutOK' /\ RestOK' /\ OfflineIsRespected'
    BY <1>0, <2>1, StatusAssumption
       DEF IInv, OutOK, RestOK, OfflineIsRespected, out, AllStatuses
  <2> QED
    BY <2>2, <2>3 DEF IInv
<1>3. CASE state \notin {"BOS_LOGGED_IN", "NOT_CONNECTED"}
  <2>1. UNCHANGED <<conn, out, app, link, partial, spinning>>
    BY <1>3 DEF SetStatus
  <2>2. ConnOK' /\ OutOK' /\ LinkOK'
    BY <2>1 DEF IInv, ConnOK, OutOK, LinkOK, conn, out, app, link,
                SocketFollowsState, WatchFollowsSockets, LoggedInAgrees
  <2>3. RestOK' /\ OfflineIsRespected'
    BY <1>0, <2>1, StatusAssumption DEF IInv, RestOK, OfflineIsRespected, AllStatuses, conn
  <2> QED
    BY <2>2, <2>3 DEF IInv
<1> QED
  BY <1>1, <1>2, <1>3

\* Sending data and polling preserve the invariant, and so does time.
LEMMA SendDataInv == ASSUME IInv, SendData PROVE IInv'
<1>1. Append(queue, P("data")) \in Seq(Packet)
  BY PlainPacket DEF IInv, OutOK, Plain
<1> QED
  BY <1>1, SendOK DEF SendData

\* See SendDataInv.
LEMMA PollInv == ASSUME IInv, Poll PROVE IInv'
<1>1. PICK q \in {queue, Append(queue, P("ping"))} :
        \/ /\ Transmit(q)
           /\ UNCHANGED <<conn, app, srv, srvStatus, toClient, partial, spinning>>
        \/ SendFailure(q)
  BY DEF Poll
<1>2. q \in Seq(Packet)
  BY PlainPacket DEF IInv, OutOK, Plain
<1> QED
  BY <1>1, <1>2, SendOK DEF Poll

\* See SendDataInv.
LEMMA SlotExpiresInv == ASSUME IInv, SlotExpires PROVE IInv'
<1>1. OutOK'
  BY RateAssumption DEF IInv, OutOK, SlotExpires
<1>2. ConnOK' /\ LinkOK' /\ RestOK' /\ OfflineIsRespected'
  BY DEF IInv, ConnOK, LinkOK, RestOK, OfflineIsRespected, SlotExpires, conn, app, link,
         SocketFollowsState, WatchFollowsSockets, LoggedInAgrees
<1> QED
  BY <1>1, <1>2 DEF IInv

-----------------------------------------------------------------------------
(* Socket callbacks.                                                       *)

\* A connection that completes preserves the invariant.
LEMMA FinishNonBlockingConnectInv == ASSUME IInv, FinishNonBlockingConnect PROVE IInv'
<1>1. CASE Disconnect("FAILED_LOWLEVEL") /\ LeaveBuffers
  BY <1>1, DisconnectOK DEF FinishNonBlockingConnect, Reason, Contract!Reason
<1>2. CASE /\ sock' = "CONNECTED"
           /\ watch' = [watch EXCEPT !.server = {"READ"}]
           /\ srv' = IF state \in AuthStates THEN "auth" ELSE "cookie"
           /\ toClient' = <<"ConnAck">>
           /\ UNCHANGED <<state, listening, direct, out, app, srvStatus, toServer, partial>>
  <2>1. LinkOK' /\ OutOK' /\ RestOK' /\ OfflineIsRespected'
    BY <1>2, EmptyWire DEF IInv, LinkOK, OutOK, RestOK, OfflineIsRespected, Expectation, out,
                           FinishNonBlockingConnect
  <2>2. state # "NOT_CONNECTED"
    BY DEF IInv, ConnOK, SocketFollowsState, FinishNonBlockingConnect
  <2>3. watch' = [server |-> {"READ"}, listen |-> watch.listen]
    BY <1>2 DEF IInv, ConnOK
  <2>4. SocketFollowsState' /\ WatchFollowsSockets' /\ LoggedInAgrees'
    BY <1>2, <2>2, <2>3
       DEF IInv, ConnOK, app, SocketFollowsState, WatchFollowsSockets, LoggedInAgrees
  <2>5. watch' \in [server : SUBSET {"READ", "WRITE"}, listen : SUBSET {"READ"}]
    BY <2>3 DEF IInv, ConnOK
  <2> QED
    BY <1>2, <2>1, <2>4, <2>5 DEF IInv, ConnOK, app
<1> QED
  BY <1>1, <1>2 DEF FinishNonBlockingConnect

\* A socket in an inconsistent state, or a failed read, disconnects.
LEMMA SocketErrorInv == ASSUME IInv, InconsistentSocket \/ RecvFails PROVE IInv'
BY DisconnectOK DEF InconsistentSocket, RecvFails, Reason, Contract!Reason

\* Reading part of a FLAP, or the wrong bytes, preserves the invariant.
LEMMA ReadBytesInv == ASSUME IInv, ReadPart \/ Misread PROVE IInv'
<1>1. ConnOK'
  BY DEF IInv, ConnOK, ReadPart, Misread, conn, app,
         SocketFollowsState, WatchFollowsSockets, LoggedInAgrees
<1>2. LinkOK'
  BY DEF IInv, LinkOK, ReadPart, Misread, link
<1>3. OutOK' /\ RestOK' /\ OfflineIsRespected'
  BY DEF IInv, OutOK, RestOK, OfflineIsRespected, ReadPart, Misread, conn, out
<1> QED
  BY <1>1, <1>2, <1>3 DEF IInv

\* What every handler of a FLAP may rely on.
LEMMA ReceivesFact ==
    ASSUME IInv, NEW f, Receives(f)
    PROVE  /\ sock = "CONNECTED" /\ state # "NOT_CONNECTED" /\ wanted \in Statuses
           /\ Tail(toClient) \in Seq(Flap)
           /\ UNCHANGED wanted
BY DEF IInv, ConnOK, LinkOK, RestOK, SocketFollowsState, OfflineIsRespected, AllStatuses,
       Receives, Readable

\* Answering preserves everything but the state the handler then sets.
LEMMA AnswerOK ==
    ASSUME IInv, NEW f, Receives(f), NEW ps \in Seq(Packet), Answer(ps)
    PROVE  /\ OutOK' /\ LinkOK' /\ RestOK'
           /\ (queue \o ps) \in Seq(Packet)
<1>1. (queue \o ps) \in Seq(Packet)
  BY DEF IInv, OutOK
<1>2. OutOK' /\ toServer' \in Seq(Packet)
  BY <1>1, TransmitOK DEF IInv, Answer
<1>3. LinkOK'
  BY <1>2, ReceivesFact DEF IInv, LinkOK, Answer
<1>4. RestOK'
  BY ReceivesFact DEF IInv, RestOK, Answer
<1> QED
  BY <1>1, <1>2, <1>3, <1>4

\* A handler that only answers, or fails to.
LEMMA AnswerInv ==
    ASSUME IInv, NEW f, Receives(f), NEW ps \in Seq(Packet),
           (Answer(ps) /\ UNCHANGED <<conn, app>>) \/ SendFailure(queue \o ps)
    PROVE  IInv'
<1>1. CASE Answer(ps) /\ UNCHANGED <<conn, app>>
  <2>1. OutOK' /\ LinkOK' /\ RestOK'
    BY <1>1, AnswerOK
  <2>2. ConnOK' /\ OfflineIsRespected'
    BY <1>1, ReceivesFact
       DEF IInv, ConnOK, OfflineIsRespected, conn, app,
           SocketFollowsState, WatchFollowsSockets, LoggedInAgrees
  <2> QED
    BY <2>1, <2>2 DEF IInv
<1>2. CASE SendFailure(queue \o ps)
  <2>1. (queue \o ps) \in Seq(Packet)
    BY DEF IInv, OutOK
  <2>2. wanted' \in AllStatuses
    BY ReceivesFact DEF AllStatuses
  <2> QED
    BY <1>2, <2>1, <2>2, SendFailureOK
<1> QED
  BY <1>1, <1>2

\* A connection acknowledgement advances the login.
LEMMA AnswerConnAckInv ==
    ASSUME IInv, NEW f, Receives(f), NEW ps \in Seq(Packet),
           NEW next \in {"AUTH_AWAITING_AUTH_REPLY", "BOS_AWAITING_LOGIN_REPLY"},
           state \notin {"NOT_CONNECTED", "BOS_LOGGED_IN"},
           AnswerConnAck(ps, next)
    PROVE  IInv'
<1>1. CASE SendFailure(queue \o ps)
  BY <1>1, AnswerInv
<1>2. CASE /\ Answer(ps)
           /\ state' = next
           /\ UNCHANGED <<sock, watch, listening, direct, app>>
  <2>1. OutOK' /\ LinkOK' /\ RestOK'
    BY <1>2, AnswerOK
  <2>2. SocketFollowsState' /\ WatchFollowsSockets' /\ LoggedInAgrees'
    BY <1>2, ReceivesFact
       DEF IInv, ConnOK, app, SocketFollowsState, WatchFollowsSockets, LoggedInAgrees
  <2>3. ConnOK'
    BY <1>2, <2>2 DEF IInv, ConnOK, app, States, AuthStates, BOSStates
  <2>4. OfflineIsRespected'
    BY ReceivesFact, StatusAssumption DEF OfflineIsRespected
  <2> QED
    BY <2>1, <2>3, <2>4 DEF IInv
<1> QED
  BY <1>1, <1>2 DEF AnswerConnAck

\* ParseCh1 preserves the invariant.
LEMMA ReceiveConnAckInv == ASSUME IInv, ReceiveConnAck PROVE IInv'
<1>1. Receives("ConnAck")
  BY DEF ReceiveConnAck
<1>2. <<P("auth")>> \in Seq(Packet) /\ <<P("cookie")>> \in Seq(Packet)
  BY PlainPacket DEF Plain
<1>3. CASE state = "AUTH_AWAITING_CONN_ACK" /\ AnswerConnAck(<<P("auth")>>, "AUTH_AWAITING_AUTH_REPLY")
  BY <1>1, <1>2, <1>3, AnswerConnAckInv
<1>4. CASE state = "BOS_AWAITING_CONN_ACK" /\ AnswerConnAck(<<P("cookie")>>, "BOS_AWAITING_LOGIN_REPLY")
  BY <1>1, <1>2, <1>4, AnswerConnAckInv
<1> QED
  BY <1>3, <1>4 DEF ReceiveConnAck

\* The queue is not touched by a handler that closes the connection.
LEMMA KeepsQueueOK ==
    ASSUME IInv, UNCHANGED out
    PROVE  OutOK'
BY DEF IInv, OutOK, out

\* The redirect from the authorizer to the BOS server preserves the invariant.
LEMMA ReceiveAuthOKInv == ASSUME IInv, ReceiveAuthOK PROVE IInv'
<1>1. sock = "CONNECTED" /\ wanted \in Statuses /\ UNCHANGED wanted
  BY ReceivesFact DEF ReceiveAuthOK
<1>2. OutOK'
  BY KeepsQueueOK DEF ReceiveAuthOK
<1>3. RestOK'
  BY <1>1 DEF IInv, RestOK, ReceiveAuthOK
<1>4. OfflineIsRespected'
  BY <1>1, StatusAssumption DEF OfflineIsRespected
<1>5. state = "AUTH_AWAITING_AUTH_REPLY"
  BY DEF ReceiveAuthOK
<1>6. CASE /\ state' = "NOT_CONNECTED"
           /\ CloseServerSocket
           /\ DisconnectAuthorizer
           /\ SignalDisconnect("FAILED_LOWLEVEL")
  <2>1. TearDown
    BY <1>5, <1>6 DEF TearDown, AuthStates
  <2>2. ConnOK' /\ LinkOK'
    BY <1>6, <2>1, TearDownOK DEF IInv, Reason, Contract!Reason
  <2> QED
    BY <1>2, <1>3, <1>4, <2>2 DEF IInv
<1>7. CASE /\ \E s \in {"NONBLOCKING_CONNECT", "CONNECTED"} :
                 /\ sock' = s
                 /\ srv' = IF s = "CONNECTED" THEN "cookie" ELSE "none"
                 /\ toClient' = IF s = "CONNECTED" THEN <<"ConnAck">> ELSE <<>>
           /\ watch' = [watch EXCEPT !.server = {"WRITE"}]
           /\ state' = "BOS_AWAITING_CONN_ACK"
           /\ toServer' = <<>>
           /\ UNCHANGED <<listening, direct, app, srvStatus>>
  <2>1. srv' \in Expectation /\ toClient' \in {<<"ConnAck">>, <<>>}
    BY <1>7 DEF Expectation
  <2>2. LinkOK'
    BY <1>7, <2>1, EmptyWire DEF IInv, LinkOK
  <2>3. watch' = [server |-> {"WRITE"}, listen |-> watch.listen]
    BY <1>7 DEF IInv, ConnOK
  <2>4. SocketFollowsState' /\ WatchFollowsSockets' /\ LoggedInAgrees'
    BY <1>5, <1>7, <2>3
       DEF IInv, ConnOK, app, SocketFollowsState, WatchFollowsSockets, LoggedInAgrees
  <2>5. watch' \in [server : SUBSET {"READ", "WRITE"}, listen : SUBSET {"READ"}]
    BY <2>3 DEF IInv, ConnOK
  <2>6. ConnOK'
    BY <1>7, <2>4, <2>5 DEF IInv, ConnOK, app, States, BOSStates
  <2> QED
    BY <1>2, <1>3, <1>4, <2>2, <2>6 DEF IInv
<1> QED
  BY <1>6, <1>7 DEF ReceiveAuthOK, ConnectBOS

\* An error from the authorizer, and a kick, preserve the invariant.
LEMMA ReceiveCloseInv == ASSUME IInv, ReceiveAuthError \/ ReceiveKick PROVE IInv'
<1>1. OutOK'
  BY KeepsQueueOK DEF ReceiveAuthError, ReceiveKick
<1>2. UNCHANGED wanted /\ RestOK'
  BY ReceivesFact DEF IInv, RestOK, ReceiveAuthError, ReceiveKick
<1>3. PICK r \in Reason : SignalDisconnect(r)
  BY DEF ReceiveAuthError, ReceiveKick, Reason, Contract!Reason
<1>4. ConnOK' /\ LinkOK' /\ state' = "NOT_CONNECTED"
  BY <1>3, TearDownOK DEF IInv, ReceiveAuthError, ReceiveKick
<1> QED
  BY <1>1, <1>2, <1>4 DEF IInv, OfflineIsRespected

\* The replies that only lead to the next request preserve the invariant.
LEMMA ReceiveReplyInv == ASSUME IInv, ReceiveReply PROVE IInv'
<1>1. PICK f \in {"ServerReady", "CapAck"} :
        LET ps == <<P(IF f = "ServerReady" THEN "caps" ELSE "rateReq")>> IN
        /\ Receives(f)
        /\ \/ Answer(ps) /\ UNCHANGED <<conn, app>>
           \/ SendFailure(queue \o ps)
  BY DEF ReceiveReply
<1> DEFINE ps == <<P(IF f = "ServerReady" THEN "caps" ELSE "rateReq")>>
<1>2. ps \in Seq(Packet)
  BY PlainPacket DEF Plain
<1>3. Receives(f) /\ ((Answer(ps) /\ UNCHANGED <<conn, app>>) \/ SendFailure(queue \o ps))
  BY <1>1
<1> HIDE DEF ps
<1> QED
  BY <1>2, <1>3, AnswerInv

\* Logging in preserves the invariant.
LEMMA ReceiveRateInfoInv == ASSUME IInv, ReceiveRateInfo PROVE IInv'
<1> DEFINE early == <<P("rateAck"), P("params")>>
           all == Append(early, Carrying("login", wanted))
<1>1. /\ Receives("RateInfo") /\ sock = "CONNECTED" /\ state # "NOT_CONNECTED"
      /\ wanted \in Statuses /\ UNCHANGED wanted
  BY ReceivesFact DEF ReceiveRateInfo
<1>2. early \in Seq(Packet) /\ all \in Seq(Packet)
  <2>1. P("rateAck") \in Packet /\ P("params") \in Packet
    BY PlainPacket DEF Plain
  <2>2. Carrying("login", wanted) \in Packet
    BY <1>1, StatusPacket
  <2> QED
    BY <2>1, <2>2
<1>3. \/ /\ ~listening
         /\ Answer(all)
         /\ state' = "BOS_LOGGED_IN"
         /\ listening' = TRUE
         /\ watch' = [watch EXCEPT !.listen = {"READ"}]
         /\ told' = "connected" /\ loggedIn' = TRUE
         /\ UNCHANGED <<sock, direct>>
      \/ LET q == queue \o early IN
         /\ Disconnect("FAILED_LOWLEVEL")
         /\ queue' = SubSeq(q, Burst(q) + 1, Len(q))
         /\ budget' = budget - Burst(q)
         /\ partial' = "no"
         /\ UNCHANGED spinning
      \/ SendFailure(queue \o (IF listening THEN early ELSE all))
  BY DEF ReceiveRateInfo
<1> HIDE DEF early, all
<1>4. CASE /\ ~listening
           /\ Answer(all)
           /\ state' = "BOS_LOGGED_IN"
           /\ listening' = TRUE
           /\ watch' = [watch EXCEPT !.listen = {"READ"}]
           /\ told' = "connected" /\ loggedIn' = TRUE
           /\ UNCHANGED <<sock, direct>>
  <2>1. OutOK' /\ LinkOK' /\ RestOK'
    BY <1>1, <1>2, <1>4, AnswerOK
  <2>2. watch' = [server |-> watch.server, listen |-> {"READ"}]
    BY <1>4 DEF IInv, ConnOK
  <2>3. SocketFollowsState' /\ WatchFollowsSockets' /\ LoggedInAgrees'
    BY <1>1, <1>4, <2>2
       DEF IInv, ConnOK, SocketFollowsState, WatchFollowsSockets, LoggedInAgrees
  <2>4. watch' \in [server : SUBSET {"READ", "WRITE"}, listen : SUBSET {"READ"}]
    BY <2>2 DEF IInv, ConnOK
  <2>5. ConnOK'
    BY <1>4, <2>3, <2>4 DEF IInv, ConnOK, States, BOSStates, Contract!Signal
  <2>6. OfflineIsRespected'
    BY <1>1, StatusAssumption DEF OfflineIsRespected
  <2> QED
    BY <2>1, <2>5, <2>6 DEF IInv
<1>5. CASE LET q == queue \o early IN
           /\ Disconnect("FAILED_LOWLEVEL")
           /\ queue' = SubSeq(q, Burst(q) + 1, Len(q))
           /\ budget' = budget - Burst(q)
             /\ partial' = "no"
           /\ UNCHANGED spinning
  <2> DEFINE q == queue \o early
  <2>1. q \in Seq(Packet)
    BY <1>2 DEF IInv, OutOK
  <2>2. /\ Disconnect("FAILED_LOWLEVEL")
        /\ queue' = SubSeq(q, Burst(q) + 1, Len(q))
        /\ budget' = budget - Burst(q)
        /\ partial' = "no"
        /\ UNCHANGED spinning
    BY <1>5
  <2> HIDE DEF q
  <2>3. Burst(q) \in 0..Len(q) /\ Burst(q) <= budget
    BY <2>1, BurstBound DEF IInv
  <2>4. OutOK'
    <3>1. Len(q) \in Nat /\ budget \in 0..Rate
      BY <2>1 DEF IInv, OutOK
    <3>2. SubSeq(q, Burst(q) + 1, Len(q)) \in Seq(Packet)
      BY <2>1, <2>3, <3>1
    <3>3. budget - Burst(q) \in 0..Rate /\ Len(q) - Burst(q) \in Nat
      BY <2>3, <3>1, RateAssumption
    <3> QED
      BY <2>2, <3>2, <3>3 DEF OutOK
  <2>5. ConnOK' /\ LinkOK' /\ state' = "NOT_CONNECTED"
    BY <2>2, TearDownOK DEF IInv, Disconnect, Reason, Contract!Reason
  <2>6. RestOK'
    BY <1>1, <2>2 DEF IInv, RestOK
  <2> QED
    BY <2>4, <2>5, <2>6 DEF IInv, OfflineIsRespected
<1>6. CASE SendFailure(queue \o (IF listening THEN early ELSE all))
  <2>1. (queue \o (IF listening THEN early ELSE all)) \in Seq(Packet)
    BY <1>2 DEF IInv, OutOK
  <2>2. wanted' \in AllStatuses
    BY <1>1 DEF AllStatuses
  <2> QED
    BY <1>6, <2>1, <2>2, SendFailureOK
<1> QED
  BY <1>3, <1>4, <1>5, <1>6

\* Direct connections only come and go while we listen, which is while logged in.
LEMMA DirectInv == ASSUME IInv, NEW p \in Peers, Accept(p) \/ DirectCloses(p) PROVE IInv'
<1>1. ConnOK'
  BY DEF IInv, ConnOK, Accept, DirectCloses, app,
         SocketFollowsState, WatchFollowsSockets, LoggedInAgrees
<1>2. OutOK' /\ LinkOK' /\ RestOK' /\ OfflineIsRespected'
  BY DEF IInv, OutOK, LinkOK, RestOK, OfflineIsRespected, Accept, DirectCloses, out, link
<1> QED
  BY <1>1, <1>2 DEF IInv

\* What the servers do preserves the invariant: it only concerns the link.
LEMMA ServerInv == ASSUME IInv, ServerProcess \/ ServerKicks PROVE IInv'
<1>1. ConnOK' /\ OutOK' /\ RestOK' /\ OfflineIsRespected'
  BY DEF IInv, ConnOK, OutOK, RestOK, OfflineIsRespected, ServerProcess, ServerKicks,
         conn, out, app, SocketFollowsState, WatchFollowsSockets, LoggedInAgrees
<1>2. CASE ServerProcess
  <2>1. Head(toServer) \in Packet /\ Tail(toServer) \in Seq(Packet)
    BY <1>2 DEF IInv, LinkOK, ServerProcess
  <2>2. CASE srv \in {"auth", "cookie", "caps", "rateReq"} /\ Head(toServer).kind = srv
    <3>1. Reaction(srv).next \in Expectation /\ Reaction(srv).replies \subseteq Flap
      BY <2>2 DEF Reaction, Expectation, Flap
    <3>2. PICK f \in Flap : toClient' = Append(toClient, f)
      BY <1>2, <2>2, <3>1 DEF ServerProcess
    <3>3. srv' \in Expectation /\ srvStatus' = srvStatus /\ toServer' = Tail(toServer)
      BY <1>2, <2>2, <3>1 DEF ServerProcess
    <3>4. toClient' \in Seq(Flap)
      BY <3>2 DEF IInv, LinkOK
    <3> QED
      BY <1>1, <2>1, <3>3, <3>4 DEF IInv, LinkOK
  <2>3. CASE ~(srv \in {"auth", "cookie", "caps", "rateReq"} /\ Head(toServer).kind = srv)
    <3>1. Head(toServer).status \in AllStatuses
      BY <2>1 DEF Packet, AllStatuses
    <3>2. /\ srv' \in Expectation /\ srvStatus' \in AllStatuses
          /\ toServer' = Tail(toServer) /\ toClient' = toClient
      BY <1>2, <2>3, <3>1 DEF IInv, LinkOK, ServerProcess, Expectation
    <3> QED
      BY <1>1, <2>1, <3>2 DEF IInv, LinkOK
  <2> QED
    BY <2>2, <2>3
<1>3. CASE ServerKicks
  <2>1. toClient' \in Seq(Flap) /\ UNCHANGED <<srv, srvStatus, toServer>>
    BY <1>3 DEF IInv, LinkOK, ServerKicks, Flap
  <2> QED
    BY <1>1, <2>1 DEF IInv, LinkOK
<1> QED
  BY <1>2, <1>3

-----------------------------------------------------------------------------
(* The theorems.                                                           *)

\* Every step preserves the inductive invariant.
LEMMA NextInv == IInv /\ [Next]_vars => IInv'
<1> SUFFICES ASSUME IInv, [Next]_vars PROVE IInv'
  OBVIOUS
<1>1. CASE GoOffline
  BY <1>1, GoOfflineInv
<1>2. CASE \E st \in Statuses : SetStatus(st)
  BY <1>2, SetStatusInv
<1>3. CASE SendData
  BY <1>3, SendDataInv
<1>4. CASE Poll
  BY <1>4, PollInv
<1>5. CASE SlotExpires
  BY <1>5, SlotExpiresInv
<1>6. CASE FinishNonBlockingConnect
  BY <1>6, FinishNonBlockingConnectInv
<1>7. CASE InconsistentSocket \/ RecvFails
  BY <1>7, SocketErrorInv
<1>8. CASE ReadPart \/ Misread
  BY <1>8, ReadBytesInv
<1>9. CASE ReceiveConnAck
  BY <1>9, ReceiveConnAckInv
<1>10. CASE ReceiveAuthOK
  BY <1>10, ReceiveAuthOKInv
<1>11. CASE ReceiveAuthError \/ ReceiveKick
  BY <1>11, ReceiveCloseInv
<1>12. CASE ReceiveReply
  BY <1>12, ReceiveReplyInv
<1>13. CASE ReceiveRateInfo
  BY <1>13, ReceiveRateInfoInv
<1>14. CASE \E p \in Peers : Accept(p) \/ DirectCloses(p)
  BY <1>14, DirectInv
<1>15. CASE ServerProcess \/ ServerKicks
  BY <1>15, ServerInv
<1>16. CASE UNCHANGED vars
  <2>1. ConnOK' /\ OutOK' /\ LinkOK'
    BY <1>16 DEF IInv, ConnOK, OutOK, LinkOK, vars, conn, out, app, link,
                 SocketFollowsState, WatchFollowsSockets, LoggedInAgrees
  <2>2. RestOK' /\ OfflineIsRespected'
    BY <1>16 DEF IInv, RestOK, OfflineIsRespected, vars, conn
  <2> QED
    BY <2>1, <2>2 DEF IInv
<1> QED
  BY <1>1, <1>2, <1>3, <1>4, <1>5, <1>6, <1>7, <1>8, <1>9, <1>10, <1>11, <1>12, <1>13,
     <1>14, <1>15, <1>16 DEF Next, ReadFlap

\* The inductive invariant always holds.
THEOREM Invariance == Spec => []IInv
BY InitInv, NextInv, PTL DEF Spec

\* Every variable keeps its type; in particular the login packet always
\* carries a status and the window is never overdrawn.
THEOREM TypeCorrect == Spec => []TypeOK
<1>1. IInv => TypeOK
  BY DEF IInv, ConnOK, OutOK, LinkOK, RestOK, TypeOK
<1> QED
  BY <1>1, Invariance, PTL

\* The server socket is open exactly as the state machine says: no attempt
\* meets "Already connected", no handler runs on a closed socket.
THEOREM SocketSafety == Spec => []SocketFollowsState
<1>1. IInv => SocketFollowsState
  BY DEF IInv, ConnOK
<1> QED
  BY <1>1, Invariance, PTL

\* Only open descriptors are selected on, and every open one is.
THEOREM SelectSafety == Spec => []WatchFollowsSockets
<1>1. IInv => WatchFollowsSockets
  BY DEF IInv, ConnOK
<1> QED
  BY <1>1, Invariance, PTL

\* The application and the library agree on being logged in.
THEOREM LoginAgreement == Spec => []LoggedInAgrees
<1>1. IInv => LoggedInAgrees
  BY DEF IInv, ConnOK
<1> QED
  BY <1>1, Invariance, PTL

\* A user who asked to be offline is never connected.
THEOREM OfflineSafety == Spec => []OfflineIsRespected
<1>1. IInv => OfflineIsRespected
  BY DEF IInv
<1> QED
  BY <1>1, Invariance, PTL

-----------------------------------------------------------------------------
(* The status that is announced.  Packets that an earlier session has left *)
(* in the queue are announced as well, before the login; and a server that *)
(* does not expect the login would drop it, hence ServerWaits.             *)

\* The server has asked for the login, or has had it.
Waits == srv \in {"login", "anything"}

\* A server that has sent the rates, or has logged us in, waits for the login
\* or takes any packet.
ServerWaits ==
    state = "BOS_LOGGED_IN" \/ (\E i \in 1..Len(toClient) : toClient[i] = "RateInfo") => Waits

Announcing == ServerWaits /\ StatusIsAnnounced

\* A packet without a status announces none, the others theirs.
LEMMA PacketKinds ==
    /\ \A k \in Plain : ~Announces(P(k))
    /\ \A k \in {"login", "status"}, st \in Statuses :
          Announces(Carrying(k, st)) /\ Carrying(k, st).status = st
BY DEF P, Carrying, Announces, Plain

\* Behind a packet that announces nothing the same is shown.
LEMMA ShowsAppendPlain ==
    ASSUME NEW s \in Seq(Packet), NEW p \in Packet, ~Announces(p), NEW st, Shows(s, st)
    PROVE  Shows(Append(s, p), st)
<1>1. /\ Len(Append(s, p)) = Len(s) + 1 /\ Append(s, p)[Len(s) + 1] = p
      /\ \A i \in 1..Len(s) : Append(s, p)[i] = s[i]
      /\ Len(s) \in Nat
  OBVIOUS
<1>2. \A j \in 1..Len(Append(s, p)) : j \in 1..Len(s) \/ j = Len(s) + 1
  BY <1>1
<1>3. CASE \E i \in 1..Len(s) : /\ Announces(s[i]) /\ s[i].status = st
                                /\ \A j \in 1..Len(s) : j > i => ~Announces(s[j])
  <2>1. PICK i \in 1..Len(s) : /\ Announces(s[i]) /\ s[i].status = st
                               /\ \A j \in 1..Len(s) : j > i => ~Announces(s[j])
    BY <1>3
  <2>2. i \in 1..Len(Append(s, p)) /\ Append(s, p)[i] = s[i]
    BY <1>1
  <2>3. \A j \in 1..Len(Append(s, p)) : j > i => ~Announces(Append(s, p)[j])
    BY <1>1, <1>2, <2>1
  <2> QED
    BY <2>1, <2>2, <2>3 DEF Shows
<1>4. CASE srvStatus = st /\ \A j \in 1..Len(s) : ~Announces(s[j])
  <2>1. \A j \in 1..Len(Append(s, p)) : ~Announces(Append(s, p)[j])
    BY <1>1, <1>2, <1>4
  <2> QED
    BY <1>4, <2>1 DEF Shows
<1> QED
  BY <1>3, <1>4 DEF Shows

\* Behind one that announces a status that one is shown.
LEMMA ShowsAppend ==
    ASSUME NEW s \in Seq(Packet), NEW p \in Packet, Announces(p)
    PROVE  Shows(Append(s, p), p.status)
<1>1. /\ Len(Append(s, p)) = Len(s) + 1 /\ Append(s, p)[Len(s) + 1] = p
      /\ Len(s) \in Nat
  OBVIOUS
<1>2. Len(s) + 1 \in 1..Len(Append(s, p))
  BY <1>1
<1>3. \A j \in 1..Len(Append(s, p)) : ~(j > Len(s) + 1)
  BY <1>1
<1> QED
  BY <1>1, <1>2, <1>3 DEF Shows

\* Transmitting moves packets from the queue to the wire, in their order.
LEMMA TransmitKeeps ==
    ASSUME OutOK, LinkOK, NEW q \in Seq(Packet), Transmit(q)
    PROVE  toServer' \o queue' = toServer \o q
<1>1. Burst(q) \in 0..Len(q) /\ Len(q) \in Nat
  BY BurstBound
<1> DEFINE front == SubSeq(q, 1, Burst(q))
           rest == SubSeq(q, Burst(q) + 1, Len(q))
<1>2. front \in Seq(Packet) /\ rest \in Seq(Packet)
  BY <1>1
<1>3. front \o rest = q
  <2>1. SubSeq(q, 1, Burst(q)) \o SubSeq(q, Burst(q) + 1, Len(q)) = SubSeq(q, 1, Len(q))
    <3>1. 1 \in 1..Len(q) + 1 /\ Burst(q) \in 1 - 1..Len(q) /\ Len(q) \in Burst(q)..Len(q)
      BY <1>1
    <3> QED BY <3>1, ConcatAdjacentSubSeq
  <2> QED BY <2>1, SubSeqFull
<1>4. (toServer \o front) \o rest = toServer \o (front \o rest)
  <2> HIDE DEF front, rest
  <2> QED BY <1>2 DEF LinkOK
<1> QED
  BY <1>3, <1>4 DEF Transmit

\* Appending to the queue is appending to what is under way.
LEMMA AppendToConcat ==
    ASSUME NEW s \in Seq(Packet), NEW q \in Seq(Packet), NEW p \in Packet
    PROVE  s \o Append(q, p) = Append(s \o q, p) /\ s \o q \in Seq(Packet)
OBVIOUS

\* A step that sends q, which ends in packets without a status.
LEMMA TransmitShows ==
    ASSUME IInv, NEW q \in Seq(Packet), Transmit(q), UNCHANGED srvStatus,
           NEW st, Shows(toServer \o q, st)
    PROVE  Shows(toServer \o queue, st)'
<1>1. (toServer \o queue)' = toServer \o q
  BY TransmitKeeps DEF IInv
<1> QED
  BY <1>1 DEF Shows

\* After a step that ends the session nothing is to be shown.
LEMMA ClosedAnnounces ==
    ASSUME state' = "NOT_CONNECTED", toClient' = <<>>
    PROVE  Announcing'
BY DEF Announcing, ServerWaits, StatusIsAnnounced

\* See ClosedAnnounces.
LEMMA DisconnectAnnounces ==
    ASSUME TearDown PROVE Announcing'
BY ClosedAnnounces DEF TearDown, CloseServerSocket

\* Sending while logged in, with the status that was asked for shown.
LEMMA SendAnnounces ==
    ASSUME IInv, Announcing, NEW q \in Seq(Packet),
           state = "BOS_LOGGED_IN" => Shows(toServer \o q, wanted'),
           \/ /\ Transmit(q)
              /\ UNCHANGED <<conn, app, srv, srvStatus, toClient, partial, spinning>>
           \/ SendFailure(q)
    PROVE  Announcing'
<1>1. CASE SendFailure(q)
  BY <1>1, DisconnectAnnounces DEF SendFailure, Disconnect
<1>2. CASE /\ Transmit(q)
           /\ UNCHANGED <<conn, app, srv, srvStatus, toClient, partial, spinning>>
  <2>1. ServerWaits'
    BY <1>2 DEF Announcing, ServerWaits, Waits, conn
  <2>2. PICK st : st = wanted'
    OBVIOUS
  <2>3. state = "BOS_LOGGED_IN" => Shows(toServer \o queue, st)'
    BY <1>2, <2>2, TransmitShows
  <2>4. StatusIsAnnounced'
    BY <1>2, <2>2, <2>3 DEF StatusIsAnnounced, conn, Shows
  <2> QED
    BY <2>1, <2>4 DEF Announcing
<1> QED
  BY <1>1, <1>2

\* What the user does keeps the announcement.
LEMMA UserAnnounces ==
    ASSUME IInv, Announcing,
           GoOffline \/ (\E st \in Statuses : SetStatus(st)) \/ SendData \/ Poll
    PROVE  Announcing'
<1>1. CASE GoOffline
  <2>1. CASE state = "NOT_CONNECTED"
    BY <1>1, <2>1 DEF GoOffline, conn, link, Announcing, ServerWaits, Waits, StatusIsAnnounced
  <2>2. CASE state # "NOT_CONNECTED"
    BY <1>1, <2>2, DisconnectAnnounces DEF GoOffline, Disconnect
  <2> QED
    BY <2>1, <2>2
<1>2. ASSUME NEW st \in Statuses, SetStatus(st) PROVE Announcing'
  <2>1. CASE state = "BOS_LOGGED_IN"
    <3>1. Carrying("status", st) \in Packet /\ queue \in Seq(Packet) /\ toServer \in Seq(Packet)
      BY StatusPacket DEF IInv, OutOK, LinkOK
    <3>2. Shows(Append(toServer \o queue, Carrying("status", st)), st)
      BY <3>1, PacketKinds, ShowsAppend, AppendToConcat
    <3>3. Shows(toServer \o Append(queue, Carrying("status", st)), st)
      BY <3>1, <3>2, AppendToConcat
    <3>4. wanted' = st
      BY <1>2 DEF SetStatus
    <3>5. Append(queue, Carrying("status", st)) \in Seq(Packet)
      BY <3>1
    <3> QED
      BY <1>2, <2>1, <3>3, <3>4, <3>5, SendAnnounces DEF SetStatus
  <2>2. CASE state = "NOT_CONNECTED"
    BY <1>2, <2>2 DEF SetStatus, ConnectAuthorizer, Announcing, ServerWaits, Waits, StatusIsAnnounced,
                      conn, link
  <2>3. CASE state \notin {"BOS_LOGGED_IN", "NOT_CONNECTED"}
    BY <1>2, <2>3 DEF SetStatus, conn, link, Announcing, ServerWaits, Waits, StatusIsAnnounced
  <2> QED
    BY <2>1, <2>2, <2>3
<1>3. ASSUME NEW p \in Packet, ~Announces(p), UNCHANGED wanted,
             NEW q \in {queue, Append(queue, p)},
             \/ /\ Transmit(q)
                /\ UNCHANGED <<conn, app, srv, srvStatus, toClient, partial, spinning>>
             \/ SendFailure(q)
      PROVE  Announcing'
  <2>1. queue \in Seq(Packet) /\ toServer \in Seq(Packet) /\ q \in Seq(Packet)
    BY <1>3 DEF IInv, OutOK, LinkOK
  <2>2. Shows(toServer \o queue, wanted) => Shows(toServer \o q, wanted)
    <3>1. CASE q = Append(queue, p)
      <4>1. Shows(toServer \o queue, wanted) => Shows(Append(toServer \o queue, p), wanted)
        BY <1>3, <2>1, AppendToConcat, ShowsAppendPlain
      <4> QED
        BY <3>1, <4>1, <1>3, <2>1, AppendToConcat
    <3> QED
      BY <3>1, <1>3
  <2> QED
    BY <1>3, <2>1, <2>2, SendAnnounces DEF Announcing, StatusIsAnnounced
<1>4. P("data") \in Packet /\ P("ping") \in Packet /\ ~Announces(P("data")) /\ ~Announces(P("ping"))
  BY PlainPacket, PacketKinds DEF Plain
<1>5. CASE SendData
  BY <1>3, <1>4, <1>5 DEF SendData
<1>6. CASE Poll
  BY <1>3, <1>4, <1>6 DEF Poll
<1> QED
  BY <1>1, <1>2, <1>5, <1>6

\* So do the steps that move no packet to the server, except for the login.
LEMMA SocketAnnounces ==
    ASSUME IInv, Announcing,
           \/ SlotExpires \/ FinishNonBlockingConnect \/ InconsistentSocket \/ RecvFails
           \/ ReadPart \/ Misread \/ ReceiveAuthOK \/ ReceiveAuthError \/ ReceiveKick
           \/ (\E p \in Peers : Accept(p) \/ DirectCloses(p)) \/ ServerKicks \/ UNCHANGED vars
    PROVE  Announcing'
<1>1. CASE SlotExpires \/ ReadPart \/ UNCHANGED vars \/ \E p \in Peers : Accept(p) \/ DirectCloses(p)
  <2>1. UNCHANGED <<state, wanted, queue, link>>
    BY <1>1 DEF SlotExpires, ReadPart, vars, Accept, DirectCloses, conn, out
  <2> QED
    BY <2>1 DEF Announcing, ServerWaits, Waits, StatusIsAnnounced, Shows, link
<1>2. CASE FinishNonBlockingConnect
  <2>1. CASE Disconnect("FAILED_LOWLEVEL")
    BY <2>1, DisconnectAnnounces DEF Disconnect
  <2>2. CASE toClient' = <<"ConnAck">> /\ UNCHANGED state
    <3>1. state # "BOS_LOGGED_IN"
      BY <1>2 DEF FinishNonBlockingConnect, IInv, ConnOK, SocketFollowsState
    <3> QED
      BY <2>2, <3>1 DEF Announcing, ServerWaits, StatusIsAnnounced
  <2> QED
    BY <1>2, <2>1, <2>2 DEF FinishNonBlockingConnect
<1>3. CASE InconsistentSocket \/ RecvFails \/ ReceiveAuthError \/ ReceiveKick
  BY <1>3, DisconnectAnnounces
     DEF InconsistentSocket, RecvFails, ReceiveAuthError, ReceiveKick, Disconnect
<1>4. CASE ReceiveAuthOK
  <2>1. state' # "BOS_LOGGED_IN" /\ (toClient' = <<>> \/ toClient' = <<"ConnAck">>)
    BY <1>4 DEF ReceiveAuthOK, ConnectBOS, CloseServerSocket
  <2> QED
    BY <2>1 DEF Announcing, ServerWaits, StatusIsAnnounced
<1>5. CASE Misread \/ ServerKicks
  <2>1. UNCHANGED <<state, wanted, queue, srv, srvStatus, toServer>>
    BY <1>5 DEF Misread, ServerKicks, conn, out
  <2>2. \A i \in 1..Len(toClient') : toClient'[i] = "RateInfo" =>
           \E j \in 1..Len(toClient) : toClient[j] = "RateInfo"
    BY <1>5 DEF Misread, ServerKicks, IInv, LinkOK
  <2>3. ServerWaits'
    BY <2>1, <2>2 DEF Announcing, ServerWaits, Waits
  <2> QED
    BY <2>1, <2>3 DEF Announcing, StatusIsAnnounced, Shows
<1> QED
  BY <1>1, <1>2, <1>3, <1>4, <1>5

\* A handler that answers with packets without a status, in whatever state.
LEMMA AnswerAnnounces ==
    ASSUME IInv, Announcing, NEW f, Receives(f), NEW p \in Packet, ~Announces(p),
           state' # state => state' # "BOS_LOGGED_IN",
           Answer(<<p>>) \/ SendFailure(queue \o <<p>>)
    PROVE  Announcing'
<1>1. CASE SendFailure(queue \o <<p>>)
  BY <1>1, DisconnectAnnounces DEF SendFailure, Disconnect
<1>2. CASE Answer(<<p>>)
  <2>1. queue \in Seq(Packet) /\ toServer \in Seq(Packet) /\ Append(queue, p) \in Seq(Packet)
    BY DEF IInv, OutOK, LinkOK
  <2>2. queue \o <<p>> = Append(queue, p)
    BY <2>1
  <2>3. /\ Transmit(Append(queue, p)) /\ toClient' = Tail(toClient)
        /\ UNCHANGED <<srv, srvStatus, wanted>>
    BY <1>2, <2>2 DEF Answer, Receives
  <2>4. ServerWaits'
    <3>1. \A i \in 1..Len(Tail(toClient)) : Tail(toClient)[i] = "RateInfo" =>
             \E j \in 1..Len(toClient) : toClient[j] = "RateInfo"
      BY DEF Receives, IInv, LinkOK
    <3> QED
      BY <2>3, <3>1 DEF Announcing, ServerWaits, Waits
  <2>5. ASSUME state = "BOS_LOGGED_IN" PROVE StatusIsAnnounced'
    <3>1. PICK st : st = wanted
      OBVIOUS
    <3>2. Shows(toServer \o queue, st)
      BY <2>5, <3>1 DEF Announcing, StatusIsAnnounced
    <3>3. Shows(Append(toServer \o queue, p), st)
      BY <2>1, <3>2, AppendToConcat, ShowsAppendPlain
    <3>4. Shows(toServer \o Append(queue, p), st)
      BY <2>1, <3>3, AppendToConcat
    <3>5. Shows(toServer \o queue, st)'
      BY <2>1, <2>3, <3>4, TransmitShows
    <3> QED
      BY <2>3, <3>1, <3>5 DEF StatusIsAnnounced, Shows
  <2>6. ASSUME state # "BOS_LOGGED_IN" PROVE StatusIsAnnounced'
    BY <2>6 DEF StatusIsAnnounced
  <2> QED
    BY <2>4, <2>5, <2>6 DEF Announcing
<1> QED
  BY <1>1, <1>2

\* The replies before the login keep the announcement.
LEMMA RepliesAnnounce ==
    ASSUME IInv, Announcing, ReceiveConnAck \/ ReceiveReply
    PROVE  Announcing'
<1>1. \A k \in {"auth", "cookie", "caps", "rateReq"} : P(k) \in Packet /\ ~Announces(P(k))
  BY PlainPacket, PacketKinds DEF Plain
<1>2. CASE ReceiveConnAck
  <2>1. PICK k \in {"auth", "cookie"} :
           /\ Receives("ConnAck")
           /\ \/ Answer(<<P(k)>>) /\ state' # "BOS_LOGGED_IN"
              \/ SendFailure(queue \o <<P(k)>>) /\ state' # "BOS_LOGGED_IN"
    <3>1. \A q : SendFailure(q) => state' # "BOS_LOGGED_IN"
      BY DEF SendFailure, Disconnect, TearDown
    <3> QED
      BY <1>2, <3>1 DEF ReceiveConnAck, AnswerConnAck
  <2> QED
    BY <1>1, <2>1, AnswerAnnounces
<1>3. CASE ReceiveReply
  <2>1. PICK f \in {"ServerReady", "CapAck"}, k \in {"caps", "rateReq"} :
           /\ Receives(f)
           /\ (Answer(<<P(k)>>) /\ UNCHANGED <<conn, app>>) \/ SendFailure(queue \o <<P(k)>>)
    BY <1>3 DEF ReceiveReply
  <2>2. state' # state => state' # "BOS_LOGGED_IN"
    BY <2>1 DEF conn, SendFailure, Disconnect, TearDown
  <2> QED
    BY <1>1, <2>1, <2>2, AnswerAnnounces
<1> QED
  BY <1>2, <1>3

\* The login announces the status that is wanted now, behind whatever is under way.
LEMMA LoginAnnounces ==
    ASSUME IInv, Announcing, ReceiveRateInfo
    PROVE  Announcing'
<1> DEFINE early == <<P("rateAck"), P("params")>>
           all == Append(early, Carrying("login", wanted))
<1>1. /\ Receives("RateInfo") /\ wanted \in Statuses /\ UNCHANGED wanted
  BY ReceivesFact DEF ReceiveRateInfo
<1>2. CASE TearDown
  BY <1>2, DisconnectAnnounces
<1>3. CASE ~listening /\ Answer(all) /\ state' = "BOS_LOGGED_IN"
  <2>1. Carrying("login", wanted) \in Packet /\ Announces(Carrying("login", wanted))
        /\ Carrying("login", wanted).status = wanted
    BY <1>1, StatusPacket, PacketKinds
  <2>2. early \in Seq(Packet) /\ queue \in Seq(Packet) /\ toServer \in Seq(Packet)
    <3>1. P("rateAck") \in Packet /\ P("params") \in Packet
      BY PlainPacket DEF Plain
    <3> QED
      BY <3>1 DEF IInv, OutOK, LinkOK
  <2> HIDE DEF early
  <2>3. queue \o all = Append(queue \o early, Carrying("login", wanted))
        /\ queue \o early \in Seq(Packet) /\ queue \o all \in Seq(Packet)
    BY <2>1, <2>2, AppendToConcat
  <2>4. Shows(toServer \o (queue \o all), wanted)
    <3>1. PICK p \in Packet : p = Carrying("login", wanted) /\ Announces(p) /\ p.status = wanted
      BY <2>1
    <3>2. PICK q \in Seq(Packet) : q = queue \o early
      BY <2>3
    <3>3. toServer \o q \in Seq(Packet)
      BY <2>2
    <3>4. Shows(Append(toServer \o q, p), p.status)
      BY <3>1, <3>3, ShowsAppend
    <3>5. toServer \o Append(q, p) = Append(toServer \o q, p)
      BY <2>2, AppendToConcat
    <3> HIDE DEF all
    <3>6. queue \o all = Append(q, p)
      BY <2>3, <3>1, <3>2
    <3> QED
      BY <3>1, <3>4, <3>5, <3>6
  <2>5. Transmit(queue \o all) /\ UNCHANGED <<srv, srvStatus>>
    BY <1>3 DEF Answer
  <2>6. StatusIsAnnounced'
    <3> HIDE DEF all
    <3>1. PICK st : st = wanted
      OBVIOUS
    <3>2. Shows(toServer \o queue, st)'
      BY <2>3, <2>4, <2>5, <3>1, TransmitShows
    <3> QED
      BY <1>1, <3>1, <3>2 DEF StatusIsAnnounced, Shows
  <2>7. ServerWaits'
    <3>1. toClient # <<>> /\ Head(toClient) = "RateInfo"
      BY <1>1 DEF Receives
    <3>2. Waits
      BY <3>1 DEF Announcing, ServerWaits, IInv, LinkOK
    <3> QED
      BY <2>5, <3>2 DEF ServerWaits, Waits
  <2> QED
    BY <2>6, <2>7 DEF Announcing
<1> QED
  BY <1>2, <1>3 DEF ReceiveRateInfo, Disconnect, SendFailure

\* The server takes the first packet, and shows the status it carries.
LEMMA ServerShows ==
    ASSUME NEW s \in Seq(Packet), s # <<>>, NEW st, Shows(s, st),
           srvStatus' = IF Announces(Head(s)) THEN Head(s).status ELSE srvStatus
    PROVE  \/ \E i \in 1..Len(Tail(s)) :
                 /\ Announces(Tail(s)[i]) /\ Tail(s)[i].status = st
                 /\ \A j \in 1..Len(Tail(s)) : j > i => ~Announces(Tail(s)[j])
           \/ srvStatus' = st /\ \A j \in 1..Len(Tail(s)) : ~Announces(Tail(s)[j])
<1>1. /\ Len(s) \in Nat \ {0} /\ Len(Tail(s)) = Len(s) - 1 /\ Head(s) = s[1]
      /\ \A i \in 1..Len(Tail(s)) : Tail(s)[i] = s[i + 1] /\ i + 1 \in 1..Len(s)
  OBVIOUS
<1>2. ASSUME NEW i \in 1..Len(s), Announces(s[i]), s[i].status = st,
             \A j \in 1..Len(s) : j > i => ~Announces(s[j])
      PROVE  \/ \E k \in 1..Len(Tail(s)) :
                   /\ Announces(Tail(s)[k]) /\ Tail(s)[k].status = st
                   /\ \A j \in 1..Len(Tail(s)) : j > k => ~Announces(Tail(s)[j])
             \/ srvStatus' = st /\ \A j \in 1..Len(Tail(s)) : ~Announces(Tail(s)[j])
  <2>1. CASE i = 1
    <3>1. \A j \in 1..Len(Tail(s)) : ~Announces(Tail(s)[j])
      BY <1>1, <1>2, <2>1
    <3> QED
      BY <1>1, <1>2, <2>1, <3>1
  <2>2. CASE i # 1
    <3>1. i - 1 \in 1..Len(Tail(s)) /\ Tail(s)[i - 1] = s[i]
      BY <1>1, <2>2
    <3>2. \A j \in 1..Len(Tail(s)) : j > i - 1 => ~Announces(Tail(s)[j])
      BY <1>1, <1>2
    <3> QED
      BY <1>2, <3>1, <3>2
  <2> QED
    BY <2>1, <2>2
<1>3. CASE srvStatus = st /\ \A j \in 1..Len(s) : ~Announces(s[j])
  <2>1. ~Announces(Head(s)) /\ \A j \in 1..Len(Tail(s)) : ~Announces(Tail(s)[j])
    BY <1>1, <1>3
  <2> QED
    BY <1>3, <2>1
<1> QED
  BY <1>2, <1>3 DEF Shows

\* What the server processes keeps the announcement, since it waits for the login.
LEMMA ServerAnnounces ==
    ASSUME IInv, Announcing, ServerProcess
    PROVE  Announcing'
<1> DEFINE p == Head(toServer)
<1>1. /\ toServer # <<>> /\ toServer' = Tail(toServer) /\ UNCHANGED <<state, wanted, queue>>
      /\ toServer \in Seq(Packet) /\ queue \in Seq(Packet) /\ toClient \in Seq(Flap)
  BY DEF ServerProcess, conn, out, IInv, LinkOK, OutOK
<1>2. CASE Waits
  <2>1. /\ srv' = IF srv = "login" /\ p.kind = "login" THEN "anything" ELSE srv
        /\ srvStatus' = IF Announces(p) THEN p.status ELSE srvStatus
        /\ UNCHANGED toClient
    BY <1>2 DEF ServerProcess, Waits, Announces
  <2>2. ServerWaits'
    BY <1>2, <2>1 DEF ServerWaits, Waits
  <2>3. ASSUME state = "BOS_LOGGED_IN" PROVE StatusIsAnnounced'
    <3>1. /\ toServer \o queue \in Seq(Packet) /\ toServer \o queue # <<>>
          /\ Head(toServer \o queue) = p /\ Tail(toServer) \o queue = Tail(toServer \o queue)
      BY <1>1
    <3>2. PICK s \in Seq(Packet) : s = toServer \o queue
      BY <3>1
    <3>3. PICK st : st = wanted
      OBVIOUS
    <3>4. Shows(s, st)
      BY <2>3, <3>2, <3>3 DEF Announcing, StatusIsAnnounced
    <3>5. srvStatus' = IF Announces(Head(s)) THEN Head(s).status ELSE srvStatus
      BY <2>1, <3>1, <3>2
    <3>6. \/ \E i \in 1..Len(Tail(s)) :
                 /\ Announces(Tail(s)[i]) /\ Tail(s)[i].status = st
                 /\ \A j \in 1..Len(Tail(s)) : j > i => ~Announces(Tail(s)[j])
          \/ srvStatus' = st /\ \A j \in 1..Len(Tail(s)) : ~Announces(Tail(s)[j])
      BY <3>1, <3>2, <3>4, <3>5, ServerShows
    <3>7. (toServer \o queue)' = Tail(s) /\ wanted' = st
      BY <1>1, <3>1, <3>2, <3>3
    <3> QED
      BY <3>6, <3>7 DEF StatusIsAnnounced, Shows
  <2>4. ASSUME state # "BOS_LOGGED_IN" PROVE StatusIsAnnounced'
    BY <1>1, <2>4 DEF StatusIsAnnounced
  <2> QED
    BY <2>2, <2>3, <2>4 DEF Announcing
<1>3. CASE ~Waits
  <2>1. state # "BOS_LOGGED_IN" /\ \A i \in 1..Len(toClient) : toClient[i] # "RateInfo"
    BY <1>3 DEF Announcing, ServerWaits
  <2>2. StatusIsAnnounced'
    BY <1>1, <2>1 DEF StatusIsAnnounced
  <2>3. CASE srv \in {"auth", "cookie", "caps", "rateReq"} /\ p.kind = srv
    <3>1. PICK f \in Reaction(srv).replies : srv' = Reaction(srv).next /\ toClient' = Append(toClient, f)
      BY <2>3 DEF ServerProcess
    <3>2. f = "RateInfo" => srv' = "login"
      BY <2>3, <3>1 DEF Reaction
    <3>3. (\E i \in 1..Len(toClient') : toClient'[i] = "RateInfo") => f = "RateInfo"
      BY <1>1, <2>1, <3>1
    <3> QED
      BY <1>1, <2>1, <2>2, <3>2, <3>3 DEF Announcing, ServerWaits, Waits
  <2>4. CASE ~(srv \in {"auth", "cookie", "caps", "rateReq"} /\ p.kind = srv)
    <3>1. UNCHANGED toClient
      BY <2>4 DEF ServerProcess
    <3> QED
      BY <1>1, <2>1, <2>2, <3>1 DEF Announcing, ServerWaits
  <2> QED
    BY <2>3, <2>4
<1> QED
  BY <1>2, <1>3

\* While logged in, what is in flight and in the queue ends with the status
\* that was asked for last, or the server shows it already: a full window or
\* a status asked for during the login makes no difference.
THEOREM StatusAnnounced == Spec => []StatusIsAnnounced
<1>1. Init => Announcing
  BY DEF Init, Announcing, ServerWaits, StatusIsAnnounced
<1>2. IInv /\ Announcing /\ [Next]_vars => Announcing'
  BY UserAnnounces, SocketAnnounces, RepliesAnnounce, LoginAnnounces, ServerAnnounces DEF Next, ReadFlap
<1>3. Announcing => StatusIsAnnounced
  BY DEF Announcing
<1> QED
  BY <1>1, <1>2, <1>3, Invariance, PTL DEF Spec

-----------------------------------------------------------------------------
(* The contract with the application.                                      *)

\* A reported disconnection is a Drop of the contract.
LEMMA DropSimulates ==
    ASSUME state # "NOT_CONNECTED", state' = "NOT_CONNECTED",
           NEW r \in Reason, SignalDisconnect(r)
    PROVE  Contract!SessionNext
<1>1. Contract!Drop(r)
  BY DEF Contract!Drop, SignalDisconnect
<1> QED
  BY <1>1 DEF Contract!SessionNext, Reason

\* A step that neither signals nor changes what the contract sees stutters.
LEMMA StutterSimulates ==
    ASSUME UNCHANGED told,
           state' = state \/ (/\ state \notin {"NOT_CONNECTED", "BOS_LOGGED_IN"}
                             /\ state' \notin {"NOT_CONNECTED", "BOS_LOGGED_IN"})
    PROVE  UNCHANGED Contract!sessionVars
BY DEF Contract!sessionVars

\* Every step of the session is a step of the contract, or stutters.
LEMMA StepSimulates ==
    ASSUME IInv, [Next]_vars
    PROVE  [Contract!SessionNext]_(Contract!sessionVars)
<1>1. ASSUME NEW r \in Reason, Disconnect(r) PROVE Contract!SessionNext
  BY <1>1, DropSimulates DEF Disconnect, TearDown
<1>2. ASSUME NEW q, SendFailure(q) PROVE Contract!SessionNext
  BY <1>1, <1>2 DEF SendFailure, Reason, Contract!Reason
<1>3. CASE GoOffline
  <2>1. CASE state = "NOT_CONNECTED"
    BY <1>3, <2>1, StutterSimulates DEF GoOffline, conn, app
  <2>2. CASE state # "NOT_CONNECTED"
    BY <1>1, <1>3, <2>2 DEF GoOffline, Reason, Contract!Reason
  <2> QED
    BY <2>1, <2>2
<1>4. ASSUME NEW st \in Statuses, SetStatus(st)
      PROVE  [Contract!SessionNext]_(Contract!sessionVars)
  <2>1. CASE state = "BOS_LOGGED_IN"
    BY <1>2, <1>4, <2>1, StutterSimulates DEF SetStatus, conn, app
  <2>2. CASE state = "NOT_CONNECTED"
    <3>1. ConnectAuthorizer
      BY <1>4, <2>2 DEF SetStatus
    <3>2. CASE SignalDisconnect("FAILED_LOWLEVEL") /\ UNCHANGED <<conn, link>>
      <4>1. Contract!Refuse
        BY <2>2, <3>2 DEF Contract!Refuse, SignalDisconnect, conn
      <4> QED
        BY <4>1 DEF Contract!SessionNext
    <3>3. CASE state' = "AUTH_AWAITING_CONN_ACK" /\ UNCHANGED app
      <4>1. Contract!Begin
        BY <2>2, <3>3 DEF Contract!Begin, app
      <4> QED
        BY <4>1 DEF Contract!SessionNext
    <3> QED
      BY <3>1, <3>2, <3>3 DEF ConnectAuthorizer
  <2>3. CASE state \notin {"BOS_LOGGED_IN", "NOT_CONNECTED"}
    BY <1>4, <2>3, StutterSimulates DEF SetStatus, conn, app
  <2> QED
    BY <2>1, <2>2, <2>3
<1>5. CASE SendData \/ Poll
  BY <1>2, <1>5, StutterSimulates DEF SendData, Poll, conn, app
<1>6. CASE SlotExpires \/ ReadPart \/ Misread \/ ServerProcess \/ ServerKicks
  BY <1>6, StutterSimulates
     DEF SlotExpires, ReadPart, Misread, ServerProcess, ServerKicks, conn, app
<1>7. CASE FinishNonBlockingConnect
  BY <1>1, <1>7, StutterSimulates DEF FinishNonBlockingConnect, app, Reason, Contract!Reason
<1>8. CASE InconsistentSocket \/ RecvFails
  BY <1>1, <1>8 DEF InconsistentSocket, RecvFails, Reason, Contract!Reason
<1>9. CASE ReceiveConnAck
  <2>1. state \notin {"NOT_CONNECTED", "BOS_LOGGED_IN"}
    BY <1>9 DEF ReceiveConnAck
  <2>2. ASSUME NEW ps, NEW next \in {"AUTH_AWAITING_AUTH_REPLY", "BOS_AWAITING_LOGIN_REPLY"},
               AnswerConnAck(ps, next)
        PROVE  [Contract!SessionNext]_(Contract!sessionVars)
    BY <1>2, <2>1, <2>2, StutterSimulates DEF AnswerConnAck, app
  <2> QED
    BY <1>9, <2>2 DEF ReceiveConnAck
<1>10. CASE ReceiveAuthOK
  BY <1>10, DropSimulates, StutterSimulates
     DEF ReceiveAuthOK, ConnectBOS, app, Reason, Contract!Reason
<1>11. CASE ReceiveAuthError \/ ReceiveKick
  BY <1>11, DropSimulates
     DEF ReceiveAuthError, ReceiveKick, TearDown, BOSStates, Reason, Contract!Reason
<1>12. CASE ReceiveReply
  BY <1>2, <1>12, StutterSimulates DEF ReceiveReply, conn, app
<1>13. CASE ReceiveRateInfo
  <2> DEFINE early == <<P("rateAck"), P("params")>>
             all == Append(early, Carrying("login", wanted))
  <2>1. state # "NOT_CONNECTED"
    BY <1>13, ReceivesFact DEF ReceiveRateInfo
  <2>2. CASE ~listening /\ state' = "BOS_LOGGED_IN" /\ told' = "connected"
    <3>1. state # "BOS_LOGGED_IN"
      BY <2>2 DEF IInv, ConnOK, LoggedInAgrees
    <3>2. Contract!LogIn
      BY <2>1, <2>2, <3>1 DEF Contract!LogIn
    <3> QED
      BY <3>2 DEF Contract!SessionNext
  <2>3. CASE Disconnect("FAILED_LOWLEVEL")
    BY <1>1, <2>3 DEF Reason, Contract!Reason
  <2>4. CASE SendFailure(queue \o (IF listening THEN early ELSE all))
    BY <1>2, <2>4
  <2> QED
    BY <1>13, <2>2, <2>3, <2>4 DEF ReceiveRateInfo
<1>14. ASSUME NEW p \in Peers, Accept(p) \/ DirectCloses(p)
       PROVE  [Contract!SessionNext]_(Contract!sessionVars)
  BY <1>14, StutterSimulates DEF Accept, DirectCloses, app
<1>15. CASE UNCHANGED vars
  BY <1>15, StutterSimulates DEF vars, conn, app
<1> QED
  BY <1>3, <1>4, <1>5, <1>6, <1>7, <1>8, <1>9, <1>10, <1>11, <1>12, <1>13, <1>14, <1>15
     DEF Next, ReadFlap

\* The session implements the contract: every attempt ends in exactly one
\* report, whether or not it got as far as a login.
THEOREM Implementation == Spec => ImplementsContract
<1>1. Init => Contract!SessionInit
  BY DEF Init, Contract!SessionInit
<1> QED
  BY <1>1, Invariance, StepSimulates, PTL
     DEF Spec, ImplementsContract, Contract!SessionBehaviour

\* State machine, server socket, select sets and application agree at every
\* moment, and a user who has asked to be offline is not connected.
THEOREM ConnectionAgreement == Spec => []ConnectionAgrees
<1>1. SocketFollowsState /\ WatchFollowsSockets /\ LoggedInAgrees /\ OfflineIsRespected
         => ConnectionAgrees
  BY DEF ConnectionAgrees
<1> QED
  BY <1>1, SocketSafety, SelectSafety, LoginAgreement, OfflineSafety, PTL
=============================================================================
