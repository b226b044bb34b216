------------------------------ MODULE Session ------------------------------
(***************************************************************************)
(* The login session of ICQ2000::Client: its state machine, the TCP socket *)
(* to the authorizer and then to the BOS server, the rate-limited send     *)
(* queue, the listening socket and the accepted direct connections, and    *)
(* the part of ICQConnection that selects on the sockets and polls the     *)
(* library.  The program is single-threaded: every action is one callback  *)
(* of the run loop, run to its end.                                        *)
(*                                                                         *)
(* Abstracted: a packet is its kind, a FLAP from the server is its kind,   *)
(* and the time since a transmission is only "its slot of the window is    *)
(* free again".  The servers are external: they answer the packet they     *)
(* expect and ignore any other.                                            *)
(***************************************************************************)
EXTENDS Naturals, Sequences

CONSTANTS
    Statuses,    \* the statuses a user can be online with
    Peers,       \* contacts that may open a direct connection to us
    Rate,        \* transmissions the window allows (40 in the code)
    MaxQueue,    \* bound: no user action adds to a send queue this long
    SendFails,   \* whether send() on the server socket may fail
    SplitReads   \* whether a read may end inside a FLAP

ASSUME RateAssumption == Rate \in Nat \ {0}
ASSUME MaxQueueAssumption == MaxQueue \in Nat
ASSUME StatusAssumption == "OFFLINE" \notin Statuses
ASSUME FaultAssumption == SendFails \in BOOLEAN /\ SplitReads \in BOOLEAN

VARIABLES
    state,      \* Client::m_state
    wanted,     \* Client::m_status_wanted
    sock,       \* state of the TCPSocket m_serverSocket
    watch,      \* modes selected on per descriptor (ICQConnection socketArrays)
    listening,  \* m_listenServer->isStarted()
    direct,     \* accepted connections in m_dccache (watched for READ)
    queue,      \* Client::m_send_queue
    budget,     \* slots of m_transmission_times older than the window
    loggedIn,   \* ICQConnection isLoggedIn
    told,       \* last session signal emitted
    spinning,   \* SendEnqueued is in its endless loop: no callback runs again
    partial,    \* m_recv holds the front of a FLAP: "no", of this
                \* connection ("own") or of an earlier one ("old")
    srv,        \* what the server at the other end expects next
    srvStatus,  \* the status that server shows for us
    toServer,   \* packets sent and not yet processed by the server
    toClient    \* FLAPs on their way to us

app  == <<loggedIn, told>>
conn == <<state, sock, watch, listening, direct>>
out  == <<queue, budget>>
link == <<srv, srvStatus, toServer, toClient>>
vars == <<conn, out, app, link, wanted, spinning, partial>>

AuthStates == {"AUTH_AWAITING_CONN_ACK", "AUTH_AWAITING_AUTH_REPLY"}
BOSStates == {"BOS_AWAITING_CONN_ACK", "BOS_AWAITING_LOGIN_REPLY", "BOS_LOGGED_IN"}
States == {"NOT_CONNECTED"} \cup AuthStates \cup BOSStates

AllStatuses == Statuses \cup {"OFFLINE"}

Contract == INSTANCE SessionSpec WITH
    phase <- CASE state = "NOT_CONNECTED" -> "offline"
               [] state = "BOS_LOGGED_IN" -> "online"
               [] OTHER                   -> "connecting"

\* "params" stands for the personal info request, the ICBM parameters and the
\* user info, three packets nothing tells apart.
Plain == {"auth", "cookie", "caps", "rateReq", "rateAck", "params", "ping", "data"}
Packet == [kind : Plain, status : {"OFFLINE"}]
              \cup [kind : {"login", "status"}, status : Statuses]
P(k) == [kind |-> k, status |-> "OFFLINE"]
Carrying(k, st) == [kind |-> k, status |-> st]

Flap == {"ConnAck", "AuthOK", "AuthError", "ServerReady", "CapAck", "RateInfo", "Kick"}
Expectation == {"none", "auth", "cookie", "caps", "rateReq", "login", "anything"}

NoWatch == [server |-> {}, listen |-> {}]

Init ==
    /\ state = "NOT_CONNECTED" /\ wanted = "OFFLINE"
    /\ sock = "NOT_CONNECTED" /\ watch = NoWatch
    /\ listening = FALSE /\ direct = {}
    /\ queue = <<>> /\ budget = Rate
    /\ loggedIn = FALSE /\ told = "nothing"
    /\ spinning = FALSE /\ partial = "no"
    /\ srv = "none" /\ srvStatus = "OFFLINE"
    /\ toServer = <<>> /\ toClient = <<>>

-----------------------------------------------------------------------------
(* Connecting and disconnecting.                                           *)

\* ICQConnection disconnected:, called by SignalDisconnect.
SignalDisconnect(r) ==
    /\ told' = r
    /\ loggedIn' = FALSE

\* The descriptor is closed; what was in flight is lost with the connection.
CloseServerSocket ==
    /\ sock' = "NOT_CONNECTED"
    /\ srv' = "none" /\ srvStatus' = "OFFLINE"
    /\ toServer' = <<>> /\ toClient' = <<>>

\* m_recv and m_send_queue keep what they hold.
LeaveBuffers ==
    /\ partial' = IF partial = "no" THEN "no" ELSE "old"
    /\ UNCHANGED out

DisconnectAuthorizer ==
    /\ watch' = [watch EXCEPT !.server = {}]
    /\ UNCHANGED <<listening, direct>>

\* Mutant: the listening socket stays selected on.
DisconnectBOSStillSelecting ==
    /\ watch' = [watch EXCEPT !.server = {}]
    /\ listening' = FALSE
    /\ direct' = {}

DisconnectBOS ==
    /\ watch' = [server |-> {}, listen |-> IF listening THEN {} ELSE watch.listen]
    /\ listening' = FALSE
    /\ direct' = {}

TearDown ==
    /\ state' = "NOT_CONNECTED"
    /\ CloseServerSocket
    /\ IF state \in AuthStates THEN DisconnectAuthorizer ELSE DisconnectBOS

\* Mutant: a login that fails is not reported.
DisconnectQuietly(r) ==
    /\ state # "NOT_CONNECTED"
    /\ TearDown
    /\ IF loggedIn THEN SignalDisconnect(r) ELSE UNCHANGED app

Disconnect(r) ==
    /\ state # "NOT_CONNECTED"
    /\ TearDown
    /\ SignalDisconnect(r)

\* TCPSocket::Connect on a non-blocking socket to the authorizer.
ConnectAuthorizer ==
    \/ \* no such host, no descriptor, or refused at once
       /\ SignalDisconnect("FAILED_LOWLEVEL")
       /\ UNCHANGED <<conn, link>>
    \/ /\ sock = "NOT_CONNECTED"
       /\ \E s \in {"NONBLOCKING_CONNECT", "CONNECTED"} :
             /\ sock' = s
             /\ srv' = IF s = "CONNECTED" THEN "auth" ELSE "none"
             /\ toClient' = IF s = "CONNECTED" THEN <<"ConnAck">> ELSE <<>>
       /\ watch' = [watch EXCEPT !.server = @ \cup {"WRITE"}]
       /\ state' = "AUTH_AWAITING_CONN_ACK"
       /\ UNCHANGED <<listening, direct, app, srvStatus, toServer>>

\* The authorizer's redirect: DisconnectAuthorizer and ConnectBOS in a row.
ConnectBOS ==
    \/ /\ state' = "NOT_CONNECTED"
       /\ CloseServerSocket
       /\ DisconnectAuthorizer
       /\ SignalDisconnect("FAILED_LOWLEVEL")
    \/ /\ \E s \in {"NONBLOCKING_CONNECT", "CONNECTED"} :
             /\ sock' = s
             /\ srv' = IF s = "CONNECTED" THEN "cookie" ELSE "none"
             /\ toClient' = IF s = "CONNECTED" THEN <<"ConnAck">> ELSE <<>>
       /\ watch' = [watch EXCEPT !.server = {"WRITE"}]
       /\ state' = "BOS_AWAITING_CONN_ACK"
       /\ toServer' = <<>>
       /\ UNCHANGED <<listening, direct, app, srvStatus>>

-----------------------------------------------------------------------------
(* The send queue.                                                         *)

Burst(q) == IF Len(q) <= budget THEN Len(q) ELSE budget

\* Mutant: the window is not looked at.
TransmitAll(q) ==
    /\ queue' = <<>>
    /\ budget' = budget - Len(q)
    /\ toServer' = toServer \o q

\* Mutant: what the window holds back is dropped.
TransmitOrDrop(q) ==
    /\ queue' = <<>>
    /\ budget' = budget - Burst(q)
    /\ toServer' = toServer \o SubSeq(q, 1, Burst(q))

\* Client::SendEnqueued on queue q when every send() succeeds.
Transmit(q) ==
    /\ queue' = SubSeq(q, Burst(q) + 1, Len(q))
    /\ budget' = budget - Burst(q)
    /\ toServer' = toServer \o SubSeq(q, 1, Burst(q))

\* A send() fails after n good ones.  The catch block disconnects but leaves
\* the packet at the head of the queue and its slot free, so the loop goes on
\* with a closed socket and never ends.
SendFailure(q) ==
    /\ SendFails
    /\ \E n \in 0..(Burst(q) - 1) :
          /\ queue' = SubSeq(q, n + 1, Len(q))
          /\ budget' = budget - n
    /\ Disconnect("FAILED_LOWLEVEL")
    /\ partial' = IF partial = "no" THEN "no" ELSE "old"
    /\ spinning' = TRUE

-----------------------------------------------------------------------------
(* What the user and the document do.                                      *)

\* Client::setStatus(STATUS_OFFLINE)
GoOffline ==
    /\ ~spinning
    /\ wanted' = "OFFLINE"
    /\ IF state = "NOT_CONNECTED"
       THEN UNCHANGED <<conn, out, app, link, partial>>
       ELSE Disconnect("REQUESTED") /\ LeaveBuffers
    /\ UNCHANGED spinning

\* Client::setStatus with any other status
SetStatus(st) ==
    /\ ~spinning
    /\ wanted' = st
    /\ Len(queue) < MaxQueue /\ Len(toServer) < MaxQueue
    /\ CASE state = "BOS_LOGGED_IN" ->
              LET q == Append(queue, Carrying("status", st)) IN
              \/ /\ Transmit(q)
                 /\ UNCHANGED <<conn, app, srv, srvStatus, toClient, partial, spinning>>
              \/ SendFailure(q)
         [] state = "NOT_CONNECTED" ->
              ConnectAuthorizer /\ UNCHANGED <<out, partial, spinning>>
         [] OTHER -> UNCHANGED <<conn, out, app, link, partial, spinning>>

\* Anything the user sends through the server once logged in.
SendData ==
    /\ ~spinning
    /\ loggedIn
    /\ Len(queue) < MaxQueue /\ Len(toServer) < MaxQueue
    /\ LET q == Append(queue, P("data")) IN
       \/ /\ Transmit(q)
          /\ UNCHANGED <<conn, app, srv, srvStatus, toClient, partial, spinning>>
       \/ SendFailure(q)
    /\ UNCHANGED wanted

\* Mutant: the poll pings and leaves the queue to the next Send.
PollPingsOnly ==
    /\ ~spinning
    /\ loggedIn
    /\ queue = <<>> /\ Len(toServer) < MaxQueue
    /\ Transmit(<<P("ping")>>)
    /\ UNCHANGED <<conn, app, srv, srvStatus, toClient, partial, spinning, wanted>>

\* Client::Poll, which routineTask: calls only while logged in; the ping is
\* due once a minute.
Poll ==
    /\ ~spinning
    /\ loggedIn
    /\ \E q \in {queue, Append(queue, P("ping"))} :
          /\ q # <<>>
          /\ Len(q) <= MaxQueue + 1 /\ Len(toServer) < MaxQueue
          /\ \/ /\ Transmit(q)
                /\ UNCHANGED <<conn, app, srv, srvStatus, toClient, partial, spinning>>
             \/ SendFailure(q)
    /\ UNCHANGED wanted

\* Time: the oldest transmission leaves the window.
SlotExpires ==
    /\ ~spinning
    /\ budget < Rate
    /\ budget' = budget + 1
    /\ UNCHANGED <<conn, app, link, queue, wanted, spinning, partial>>

-----------------------------------------------------------------------------
(* Client::socket_cb for the server socket.                                *)

\* The non-blocking connect has completed, good or bad.
FinishNonBlockingConnect ==
    /\ ~spinning
    /\ sock = "NONBLOCKING_CONNECT" /\ "WRITE" \in watch.server
    /\ \/ /\ sock' = "CONNECTED"
          /\ watch' = [watch EXCEPT !.server = {"READ"}]
          /\ srv' = IF state \in AuthStates THEN "auth" ELSE "cookie"
          /\ toClient' = <<"ConnAck">>
          /\ UNCHANGED <<state, listening, direct, out, app, srvStatus, toServer, partial>>
       \/ Disconnect("FAILED_LOWLEVEL") /\ LeaveBuffers
    /\ UNCHANGED <<wanted, spinning>>

\* A connect() that succeeded at once is still watched for WRITE.
InconsistentSocket ==
    /\ ~spinning
    /\ sock = "CONNECTED" /\ "WRITE" \in watch.server
    /\ Disconnect("FAILED_LOWLEVEL")
    /\ LeaveBuffers
    /\ UNCHANGED <<wanted, spinning>>

Readable ==
    /\ ~spinning
    /\ sock = "CONNECTED" /\ "READ" \in watch.server

\* The other end closes, or recv() fails.
RecvFails ==
    /\ Readable
    /\ Disconnect("FAILED_LOWLEVEL")
    /\ LeaveBuffers
    /\ UNCHANGED <<wanted, spinning>>

\* Only the front of the next FLAP has arrived; Parse waits for the rest.
ReadPart ==
    /\ Readable
    /\ SplitReads
    /\ toClient # <<>> /\ partial = "no"
    /\ partial' = "own"
    /\ UNCHANGED <<conn, out, app, link, wanted, spinning>>

\* Parse takes the bytes for the rest of the frame an earlier connection
\* left; once that is complete the misaligned remainder is cleared.
Misread ==
    /\ Readable
    /\ toClient # <<>> /\ partial = "old"
    /\ toClient' = Tail(toClient)
    /\ partial' \in {"old", "no"}
    /\ UNCHANGED <<conn, out, app, srv, srvStatus, toServer, wanted, spinning>>

Receives(f) ==
    /\ Readable
    /\ toClient # <<>> /\ Head(toClient) = f
    /\ partial # "old"
    /\ UNCHANGED wanted

\* The handler of the FLAP just read sends the packets ps, and goes on.
Answer(ps) ==
    /\ Transmit(queue \o ps)
    /\ toClient' = Tail(toClient)
    /\ partial' = "no"
    /\ UNCHANGED <<srv, srvStatus, spinning>>

\* ParseCh1: the credentials go out, then the state moves on
AnswerConnAck(ps, next) ==
    \/ /\ Answer(ps)
       /\ state' = next
       /\ UNCHANGED <<sock, watch, listening, direct, app>>
    \/ SendFailure(queue \o ps)

\* Mutant: the acknowledgement of the BOS server is not expected.
ReceiveConnAckOnce ==
    /\ Receives("ConnAck")
    /\ state = "AUTH_AWAITING_CONN_ACK"
    /\ AnswerConnAck(<<P("auth")>>, "AUTH_AWAITING_AUTH_REPLY")

ReceiveConnAck ==
    /\ Receives("ConnAck")
    /\ \/ /\ state = "AUTH_AWAITING_CONN_ACK"
          /\ AnswerConnAck(<<P("auth")>>, "AUTH_AWAITING_AUTH_REPLY")
       \/ /\ state = "BOS_AWAITING_CONN_ACK"
          /\ AnswerConnAck(<<P("cookie")>>, "BOS_AWAITING_LOGIN_REPLY")

\* ParseCh4 in AUTH_AWAITING_AUTH_REPLY, with a cookie and a redirect
ReceiveAuthOK ==
    /\ Receives("AuthOK")
    /\ state = "AUTH_AWAITING_AUTH_REPLY"
    /\ ConnectBOS
    /\ partial' = "no"
    /\ UNCHANGED <<out, spinning>>

\* ParseCh4 in AUTH_AWAITING_AUTH_REPLY, with an error code
ReceiveAuthError ==
    /\ Receives("AuthError")
    /\ state = "AUTH_AWAITING_AUTH_REPLY"
    /\ TearDown
    /\ \E r \in {"FAILED_BADPASSWORD", "FAILED_UNKNOWN"} : SignalDisconnect(r)
    /\ partial' = "no"
    /\ UNCHANGED <<out, spinning>>

\* ParseCh4 in any other state
ReceiveKick ==
    /\ Receives("Kick")
    /\ state \in BOSStates
    /\ TearDown
    /\ \E r \in {"FAILED_DUALLOGIN", "FAILED_UNKNOWN"} : SignalDisconnect(r)
    /\ partial' = "no"
    /\ UNCHANGED <<out, spinning>>

\* ParseCh2: SNAC_GEN_ServerReady and SNAC_GEN_CapAck, in whatever state
ReceiveReply ==
    \E f \in {"ServerReady", "CapAck"} :
       LET ps == <<P(IF f = "ServerReady" THEN "caps" ELSE "rateReq")>> IN
       /\ Receives(f)
       /\ \/ Answer(ps) /\ UNCHANGED <<conn, app>>
          \/ SendFailure(queue \o ps)

\* ParseCh2: SNAC_GEN_RateInfo.  SendLogin starts the listening socket, sends
\* the login and signals the connection, in whatever state.
ReceiveRateInfo ==
    LET early == <<P("rateAck"), P("params")>>
        all == Append(early, Carrying("login", wanted))
    IN
    /\ Receives("RateInfo")
    /\ \/ /\ ~listening
          /\ Answer(all)
          /\ state' = "BOS_LOGGED_IN"
          /\ listening' = TRUE
          /\ watch' = [watch EXCEPT !.listen = {"READ"}]
          /\ told' = "connected" /\ loggedIn' = TRUE
          /\ UNCHANGED <<sock, direct>>
       \/ \* StartServer throws: no socket, no port, or already listening
          LET q == queue \o early IN
          /\ Disconnect("FAILED_LOWLEVEL")
          /\ queue' = SubSeq(q, Burst(q) + 1, Len(q))
          /\ budget' = budget - Burst(q)
          /\ partial' = "no"
          /\ UNCHANGED spinning
       \/ SendFailure(queue \o (IF listening THEN early ELSE all))

-----------------------------------------------------------------------------
(* Client::socket_cb for the listening socket and direct connections.      *)

Accept(p) ==
    /\ ~spinning
    /\ listening /\ "READ" \in watch.listen
    /\ direct' = direct \cup {p}
    /\ UNCHANGED <<state, sock, watch, listening, out, app, link, wanted, spinning, partial>>

DirectCloses(p) ==
    /\ ~spinning
    /\ p \in direct
    /\ direct' = direct \ {p}
    /\ UNCHANGED <<state, sock, watch, listening, out, app, link, wanted, spinning, partial>>

-----------------------------------------------------------------------------
(* The servers (external).                                                 *)

\* The expectation that follows, and the replies, when e is met.
Reaction(e) ==
    CASE e = "auth"    -> [next |-> "none",     replies |-> {"AuthOK", "AuthError"}]
      [] e = "cookie"  -> [next |-> "caps",     replies |-> {"ServerReady"}]
      [] e = "caps"    -> [next |-> "rateReq",  replies |-> {"CapAck"}]
      [] e = "rateReq" -> [next |-> "login",    replies |-> {"RateInfo"}]

ServerProcess ==
    /\ toServer # <<>>
    /\ toServer' = Tail(toServer)
    /\ LET p == Head(toServer) IN
       IF srv \in {"auth", "cookie", "caps", "rateReq"} /\ p.kind = srv
       THEN /\ srv' = Reaction(srv).next
            /\ \E f \in Reaction(srv).replies : toClient' = Append(toClient, f)
            /\ UNCHANGED srvStatus
       ELSE /\ srv' = IF srv = "login" /\ p.kind = "login" THEN "anything" ELSE srv
            /\ srvStatus' = IF p.kind \in {"login", "status"} /\ srv \in {"login", "anything"}
                            THEN p.status ELSE srvStatus
            /\ UNCHANGED toClient
    /\ UNCHANGED <<conn, out, app, wanted, spinning, partial>>

\* The BOS server ends the session, for instance for a login elsewhere.
ServerKicks ==
    /\ srv = "anything"
    /\ "Kick" \notin {toClient[i] : i \in 1..Len(toClient)}
    /\ toClient' = Append(toClient, "Kick")
    /\ UNCHANGED <<conn, out, app, srv, srvStatus, toServer, wanted, spinning, partial>>

-----------------------------------------------------------------------------
ReadFlap ==
    \/ Misread \/ ReceiveConnAck \/ ReceiveAuthOK \/ ReceiveAuthError
    \/ ReceiveKick \/ ReceiveReply \/ ReceiveRateInfo

Next ==
    \/ GoOffline
    \/ \E st \in Statuses : SetStatus(st)
    \/ SendData \/ Poll \/ SlotExpires
    \/ FinishNonBlockingConnect \/ InconsistentSocket
    \/ RecvFails \/ ReadPart \/ ReadFlap
    \/ \E p \in Peers : Accept(p) \/ DirectCloses(p)
    \/ ServerProcess \/ ServerKicks

Spec == Init /\ [][Next]_vars

\* The run loop's timer serves ready sockets and, when logged in, polls; time
\* passes; the servers answer.  Nothing is assumed of the user.
FairSpec ==
    /\ Spec
    /\ WF_vars(FinishNonBlockingConnect) /\ WF_vars(InconsistentSocket)
    /\ WF_vars(ReadFlap) /\ WF_vars(Poll) /\ WF_vars(SlotExpires)
    /\ WF_vars(ServerProcess)

-----------------------------------------------------------------------------
(* Properties.                                                             *)

TypeOK ==
    /\ state \in States
    /\ wanted \in AllStatuses
    /\ sock \in {"NOT_CONNECTED", "NONBLOCKING_CONNECT", "CONNECTED"}
    /\ watch \in [server : SUBSET {"READ", "WRITE"}, listen : SUBSET {"READ"}]
    /\ listening \in BOOLEAN
    /\ direct \subseteq Peers
    /\ queue \in Seq(Packet)
    /\ budget \in 0..Rate
    /\ loggedIn \in BOOLEAN
    /\ told \in Contract!Signal
    /\ spinning \in BOOLEAN
    /\ partial \in {"no", "own", "old"}
    /\ srv \in Expectation /\ srvStatus \in AllStatuses
    /\ toServer \in Seq(Packet) /\ toClient \in Seq(Flap)

\* The socket is exactly as open as the state machine believes, so that a new
\* attempt never meets "Already connected" (TCPSocket::Connect) and no packet
\* handler runs on a closed socket.
SocketFollowsState ==
    /\ state = "NOT_CONNECTED" <=> sock = "NOT_CONNECTED"
    /\ state \in {"AUTH_AWAITING_AUTH_REPLY", "BOS_AWAITING_LOGIN_REPLY", "BOS_LOGGED_IN"}
          => sock = "CONNECTED"

\* select() is only ever given open descriptors (it fails with EBADF for the
\* whole set otherwise, and routineTask: takes that for "all are ready"), and
\* an open one is always watched in some mode.
WatchFollowsSockets ==
    /\ watch.server = {} <=> sock = "NOT_CONNECTED"
    /\ sock = "NONBLOCKING_CONNECT" => watch.server = {"WRITE"}
    /\ (watch.listen # {}) <=> listening

\* The application's isLoggedIn, which guards sending and polling, is the
\* library's BOS_LOGGED_IN; and peers can only reach us while it holds.
LoggedInAgrees ==
    /\ loggedIn <=> state = "BOS_LOGGED_IN"
    /\ loggedIn <=> told = "connected"
    /\ listening <=> loggedIn
    /\ direct # {} => loggedIn

\* A user who asked to be offline is not connected nor connecting, whatever
\* happened in between.
OfflineIsRespected == wanted = "OFFLINE" => state = "NOT_CONNECTED"

\* What the server will show once it has processed the packets s: the status
\* of the last that has one, or else what it shows already.
Announces(p) == p.kind \in {"login", "status"}
Shows(s, st) ==
    \/ \E i \in 1..Len(s) : /\ Announces(s[i]) /\ s[i].status = st
                            /\ \A j \in 1..Len(s) : j > i => ~Announces(s[j])
    \/ srvStatus = st /\ \A j \in 1..Len(s) : ~Announces(s[j])

\* The status the server will show, once it has processed what is in flight
\* and in the queue, is the one last asked for, even if it was asked for
\* while the login was under way.
StatusIsAnnounced == state = "BOS_LOGGED_IN" => Shows(toServer \o queue, wanted)

\* A low-level failure is reported by a client that can be asked to connect
\* again.
LowLevelFailureIsRecoverable == told = "FAILED_LOWLEVEL" => ~spinning

Connecting == state \in AuthStates \cup {"BOS_AWAITING_CONN_ACK", "BOS_AWAITING_LOGIN_REPLY"}

\* Every login attempt ends, in a connection or in a report of its failure.
LoginSettles == Connecting ~> ~Connecting

\* ... unless its packets are stuck in the queue, for nothing polls while
\* logging in, or the front of a frame of an earlier connection swallows the
\* server's.
LoginSettlesUnlessStuck ==
    [](partial # "old") => (Connecting ~> (~Connecting \/ queue # <<>>))

\* The status asked for while logged in reaches the server, behind whatever is
\* queued, unless the user changes his mind or the session ends first.
StatusReachesServer ==
    \A st \in Statuses :
       (loggedIn /\ wanted = st) ~> (srvStatus = st \/ wanted # st \/ ~loggedIn)

\* The contract with the application.
ImplementsContract == Contract!SessionBehaviour

\* Throughout kicks, failures and changes of mind the state machine, the
\* server socket, the select sets and the application agree, and a user who
\* has asked to be offline is not connected.
ConnectionAgrees ==
    SocketFollowsState /\ WatchFollowsSockets /\ LoggedInAgrees /\ OfflineIsRespected
=============================================================================
