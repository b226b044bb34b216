# Icy Juice in TLA+

Icy Juice is an ICQ client for Mac OS X. Its library `libicq2000` (C++) speaks
the protocol; the application (Objective-C) supervises the connection, sends
and records messages and keeps the histories. This directory holds TLA+
modules of the parts whose order of events or whose bytes matter, TLC runs of
them on small instances, and proofs checked by TLAPS. All paths are relative
to the repository. `Client.cpp` and the other C++ files are in
`src/libicq2000/src`.

## The system

| Component | State it keeps | Operations | Talks to |
|---|---|---|---|
| Login session (`Client.cpp`, `socket.cpp`, `ICQConnection.mm`) | `m_state`, `m_status_wanted`, the server socket, `m_send_queue`, the times of the last 40 transmissions, `m_recv`, the listening socket, `m_dccache`; in the application the select sets and `isLoggedIn` | `setStatus`, `Poll`, `socket_cb`, the FLAP handlers, `Disconnect` | the servers; the document, by `connected` and `disconnected` |
| Connection supervisor (`ICQUserDocument.m`, `MPUserActivityMonitor.m`) | current, target and last selected status, `_networkAvailable`, sheets | selections, auto-away, sleep, network changes, disconnections | the session |
| Message delivery (`Client.cpp`, `Cache.h`, `ICBMCookieCache.h`, `MessageHandler.cpp`, `OutgoingMessageController.m`) | `m_cookiecache`, `messagesPendingAck`, each window's `isSending` | sending, acknowledgements, offline notices, expiry, Resend | windows, histories |
| Incoming messages (`MessageHandler.cpp`, `SNAC-MSG.cpp`, `ICQ.cpp`, `Translator.cpp`, `ICQConnection.mm`) | the own status, the contact list, settings | parse, accept, turn down or ignore, acknowledge, show | delivery at the other end, histories |
| Message history (`History.m`) | the array, the unsaved messages, two files, three locks, two flags | append, show, clear, periodic save, quiesce, move | threads of its own, the run loop |
| Document file (`ICQUserDocument.m`) | the package with a file per history | save | AppKit, the histories |
| Direct connections (`DirectClient.cpp`, `DCCache.h`, `SeqNumCache.h`) | handshake state, queue, messages by sequence number | handshake, send, acknowledge, expire | peers |
| File transfer (`FileTransferClient.cpp`, `FTCache.h`, `ICQFileTransfer.mm`) | the event's state, a listening or connected socket, position, files on the disk | offer, accept, refuse, cancel, send, receive, skip | direct connections, delivery |
| Contact list and visibility (`ContactTree.cpp`, `ContactList.cpp`, `Contact.cpp`, `ICQUserDocument.m`) | contacts and groups, visible and invisible lists, own status as echoed; the document's entries | add, delete, undo, move, go invisible, import | the session |
| Requests and searches (`RequestIDCache.h`, `SNAC-SRV.cpp`, `FindController.m`, `UserDetailsController.m`) | requests by identifier, 60 s; the searches pending; the details | searches, user information, upload | the session |
| SMTP and SMS (`SMTPClient.cpp`) | the queue of mail, the dialogue's state, a socket | send, poll, each reply of the server, SMS requests | the SMTP server, the SMS server |
| Packet formats (`SNAC*.cpp`, `TLV.cpp`, `buffer.cpp`, `Xml.cpp`, `ICQ.cpp`, `Capabilities.cpp`, `UserInfoBlock.cpp`) | none but `m_recv` | `Output` and `Parse` of each packet | everything |
| Events and signals, windows and preferences | see `PROJECT.json` | | |

Everything but the history's writing runs in the main thread: the run loop
calls `routineTask:`, timers, notifications and the user's actions one after
the other, and signals are synchronous calls. What is hard there is the order
of these callbacks, and what each finds left by the others: a status selected
in the middle of a login, a kick on the way while the user goes offline, an
acknowledgement beside the expiry of its cookie, an answer to a request of an
earlier login, a rate window that is full, a network change during sleep. The
history adds detached threads and locks, and files that a crash or another
document may find half moved; the peer of a direct connection adds a second
program that does all this at the same time.

`PROJECT.json` lists the hazards, each at its line, with the properties about
it. Others of the code that no property covers are listed at the end.

What makes each component correct:

- the session: state machine, socket, select sets and application agree;
  offline means offline; the status last asked for is the one the server shows
  in the end; every attempt ends in exactly one report;
- the supervisor: no connection when there should be none, the right status
  when there is one, and only the user ends being offline;
- delivery: an event lives as long as its keys; a window that waits has its
  report coming; one report for each message and one record in the history;
- incoming messages: what is shown is what was written, and what the sender is
  told is what has become of it;
- the history: no message appended is ever lost, nothing at rest is only in
  memory, a quiesced history leaves its files alone, and the files of two
  documents stay apart;
- offers and transfers: an offer is shown to have come to what its users made
  of it; a file shown as received is the file that was sent; both ends end;
- contacts: the document, the library and the server agree on who is on which
  list, and on who may see us;
- requests: an answer reaches who asked, about whom they asked, and nobody
  waits for ever;
- mail: taken by the server once, and not said to be when it was not;
- packets: what one end writes the other reads, however the bytes are divided.

## The modules

| Module | Role |
|---|---|
| `SessionSpec` | what the library promises about the connection; implemented by `Session`, used by `UserDocument` for its connection |
| `Session` | the login session |
| `UserDocument` | the supervisor, composed with `SessionSpec` |
| `MessageSpec` | what the library promises about an event handed to `SendEvent`; implemented by `Delivery` |
| `Delivery` | messages between their window and their report |
| `Messages` | one message from the sender's window to the receiver's history and back |
| `History` | one contact's history and its threads |
| `HistoryFiles` | the files of the histories that several documents keep of one contact, with crashes and failures |
| `FileOffer` | offers, their answers and cancellation between two programs |
| `FileTransfer` | the transfer of an accepted offer's files |
| `Contacts` | the entries, the tree, the lists and the server |
| `Requests` | searches and details |
| `Mail` | the SMTP client and SMS requests |
| `Buffer`, `Xml`, `Packets`, `Responses` | bytes, XML, packets, and the server's responses with SNACs and frames around them: operators without state |
| `Exchange` | two clients that exchange packets through a socket, composed of the former |
| `MCSession`, `MCUserDocument`, `MCDelivery`, `MCHistory`, `MCFileTransfer`, `MCFileOffer`, `MCContacts`, `MCTraffic` | instances for TLC |
| `Session_proofs`, `UserDocument_proofs`, `Delivery_proofs`, `Contacts_proofs`, `FileOffer_proofs` | theorems and proofs about the module of that name |
| `History_proofs` | theorems and proofs about `History`, `HistoryFiles` and `MCHistory` |
| `FileTransfer_proofs` | theorems and proofs about `FileTransfer`, `Mail` and their composition in `MCFileTransfer` |
| `Traffic_proofs` | theorems and proofs about `Messages` and `Requests` |

Operators named after a `Mutant:` comment are faulty variants of the operator
below them. No specification uses them: they serve to see that each property
can fail.

Some MC modules hold two parts that share no state. Their variable `part` says
which of them a behaviour is of; the other's variables stay at an initial
state. This is no composition, and is not meant as one. What TLC finds of the
whole holds of each part (`BothImplemented`, `TrafficImplements`).

### Session

One action is one callback, run to its end: `GoOffline` and `SetStatus` are
`Client::setStatus`, the `Receive...` actions are a readable server socket
whose next FLAP is of that kind, with everything its handler sends and
disconnects. `state`, `wanted`, `queue` are `m_state`, `m_status_wanted`,
`m_send_queue`; `watch` is what `socketArrays` holds for the server and the
listening descriptor; `budget` counts the entries of `m_transmission_times`
that are older than 25 seconds, and `SlotExpires` is the passing of time.
`partial` says whether `m_recv` holds the front of a FLAP and of which
connection. A packet is its kind and, for login and status packets, the status
it carries. The servers (`ServerProcess`, `ServerKicks`) are external: they
answer the packet they wait for and ignore any other.

`SendFailure` shows the loop of `SendEnqueued` that never ends: after it
`spinning` holds and no action of the client is enabled.

Not modelled here: UIN registration, which the application never uses;
frames of one read that are left when a handler has disconnected (the model
drops them, `Parse` goes on with them); an `Accept` that throws; invisibility,
which is in `Contacts`.

### SessionSpec and UserDocument

`UserDocument` has one action for each message the document gets from the
user, the operating system and its connection. The connection is
`SessionSpec`: `ClientTakes` and `ClientRefuses` are `setStatus` in its terms,
`Disconnected(r)` is `Drop(r)` with all the document does about it. Sheets are
kept because they decide what a later callback may do. The operating system
(`reachable`, `notified`, `idle`, `asleep`) is external and free. Each look at
the reachability of the servers may fail; `unchecked` remembers that one did
and dropped a change of status, which is the only exception of
`ClientFollowsTarget` and `TargetIsShown`.

### Delivery

Events are numbered in the order of their creation, which is the order their
cookies expire in. `to` and `from` say for whom and from which window an event
is; `heap` is the set of events not yet deleted, `cookies` and `pending` are
the keys of `m_cookiecache` and `messagesPendingAck`. `SendMessage` is the
whole path from `sendMessage:` through `SendViaServer`: an advanced message
waits for its acknowledgement, any other is reported and deleted before the
call returns. `MessageAcknowledged` is the report with all its receivers:
connection, document (history) and window. `Poll(k)` expires the oldest
cookies, those up to `k`. `Verdicts` is what `handleIncomingACK` makes of an
accept status; for a status it does not know the event's uninitialized
`m_delivered` may be anything. Sending over the connection succeeds here;
`Session` says how it fails.

### Messages

`Send` takes a letter (kind, text, flags) through the sender's application,
the translator and the packet into `wire`; `Expire` is the second sending when
the cookie expires, as a message that has no answer; `ServerSends` what only
gateways send. `Receive` parses a packet and runs `MessageHandler::handleIncoming`,
`message_cb` and the document's `receivedMessage:`, and decides the
acknowledgement. A text is a sequence of code points, what is under way a
sequence of bytes, and `Decoded`, `ToBytes`, `UCS2Bytes` and the translators
are the conversions of the code; `CodePage` is the 8-bit code page, an
injective function above ASCII.

`ShownAsWritten` names what does not survive: letters that the code page
lacks, the separator 0xFE where it is a letter of the code page, surrogate
pairs in UCS-2, two bytes of UCS-2 that happen to be CR LF (the translator
drops one), and UCS-2 text at all where the compiler evaluates the operands of
`(body[i++]<<8)|body[i++]` from the right: `order` is that choice, made once.
An advanced `Contacts` message is acknowledged and then dropped by the
application; an SMS that arrives while Occupied or in Do not Disturb is
dropped; a message sent again after its cookie expired may be shown twice.

### History and HistoryFiles

A step of `History` lies between two operations on locks that another thread
can tell apart. `pc` says where each thread is in `writeMessages:` and where
the main thread is in `saveMessages`, `clearMessagesSentBefore:` and
`quiesce`. Files and arrays are sets of messages. `Prompt` is the assumption
that a queued `moveTempToPath:` is performed before the main thread reads the
file again. The code does not force it: another timer firing in the very pass
of the run loop in which `periodicTask:` dropped the array could read the old
file. Without it `NothingLost` fails.

`HistoryFiles` takes the same files one file operation at a time:
`ChooseName`, `Archive`, `BackUp`, `PutInPlace`, `RemoveBackup`, and the save
of the document (`SetAside`, `MoveHistory`, `EndSave`). The results of all
these are ignored by the code (only a move in the save is looked at), so each
may fail; the program may crash between any two. Two documents with the same
contact share the temporary directory and the names in it. In exchange the
array and its threads are kept short: appending loads it, and a write is
always by one thread.

What can go wrong is kept in `spoiled` and `LeftOver`, the exceptions of the
properties, each one a way in which the code loses or mixes histories:
a crash between `BackUp` and `PutInPlace` leaves the history under a name that
nothing reads, and the next move finds it in its way and removes it; a crash
inside a save leaves it in the package that was set aside; a failing archive
is taken for a written one; a save while a contact is deleted leaves its
history behind, so that undoing the deletion brings back an empty one; two
documents that choose the same name before either has written put one's
messages into the other's history.

### FileOffer

Two programs, `A` and `B`, with a cache of cookies each and up to `MaxConns`
direct connections between them; `prog[p]` is the state of one, `chan` what is
under way on a connection. Handlers are operators on that record named after
the functions they model (`SendFTACK`, `SendFTCancel`, `HandleIncomingACK`,
`Expire`, `Disconnect`...). `answer` and `withdrawn` record what the users did.

The exceptions in the properties are confusions the code allows. Sequence
numbers begin at 0xFFFF at both ends of every connection and one cache holds
both directions (`Ambiguous`), so that an answer may be taken for that of
another offer, and `while (m_msgcache.exists(seqnum)) remove` may remove an
offer of one's own. Programs that connect to each other twice (`Reconnected`)
may say on one connection what concerns an offer on the other. An answer
through the server carries a fresh cookie (`Client.cpp:3056`) and never
matches; the receiver's cookie is never removed on acceptance, so that a
running transfer is told that it timed out; the receiver's sheet is not closed
by a cancel or a timeout.

### FileTransfer

The `FileTransferClient` of each end (`snd`, `rcv`), the part of `Client` that
creates, serves and removes them, and the receiver's window with its sheet
about files that exist already. A file is a number of chunks, a chunk the file
it was read from and its place in it; `rcv.disk` is what is written under each
name. A callback reads and parses all that select reports; a
`DisconnectedException` sets `thrown`, and the rest of the callback is
skipped. `troubles` bounds timeouts, failing sends, ends of a session and a
broken network, which may happen at any step.

Facts the model keeps and the properties make exceptions of: the receiver's
listening client survives a stop before the connection (against the comment at
`Client.cpp:3094`), and its client the skip of the last file; a trailing empty
file is reported as received; the sender's timeout and the end of the session
tell nobody; `m_size` of the event is not initialized (`events.cpp:1149`,
`garbage` in the model); a file that cannot be opened is answered by nothing
(`ICQFileTransfer.mm:257`).

### Contacts

`entry` is the document's dictionary, `tree` the library's `ContactTree` by
group, `visible` and `invisible` its lists, `server` what the server has been
told, `inbox` what the server has answered and the client not read. A contact
may be in the document without being the library's object of that number:
`ref` says which object an entry refers to. One action is one command of the
user or one packet read. `outrun`, `revived` and `twice` remember the
exceptions: two changes of visibility within one round trip, the second of
which skips a list since it is compared with the own status last echoed
(`Client.cpp:2428`, against the comment above it), or a change of a list
before the echo; a contact that comes back from a deletion with its last
status (against the comment at `Client.cpp:346`); and a contact that was
granted after the server's list was merged and is then in two groups.

### Requests

`cache` is `m_reqidcache`, `pending` the connection's
`searchesPendingResult`, `asked` and `answers` what is under way to and from
the server, `panel` the find panel, `srv`, `lib`, `doc` and `window` the
details as the server, the library, the document and the details window have
them. The server takes requests in order and may leave one unanswered.
Identifiers wrap at `IdSpace`, and each login begins them anywhere
(`Client.cpp:250`) while old entries are kept: `collided` is the case of two
requests with one identifier. `careless` and `crossed` are saves by the user
that the properties make exceptions of: before all packets of the details have
come (each packet replaces all details, so the save uploads what is missing as
empty), before the window showed them, or offline, which is never uploaded
(`ICQConnection.mm:457`).

### Mail

One action is one callback or one turn of the loop in `Recv`. A reply of the
server is its code; `Line` may divide it before or after the code, as a socket
may: the client does not wait for the end of a line (`SMTPClient.cpp:126`) and
never clears `m_recv`, so that a divided line puts the dialogue out of step.
`NeitherLostNorRepeated` holds all the same. Half a line counts as a reply,
though: after three of them the client sends a text while the server is still
answering an earlier envelope, the server takes it with the sender and the
recipient of another e-mail, and the user is told that it was delivered. This
takes more e-mails and more divided lines than the run has; it came up in
proving the property, and TLC finds it with five e-mails and `MaxFaults` = 4. `DeliveredIsTaken` and `EmailEnds` therefore except a dialogue with a
`divided` line. A connection that comes about at once queues a null event
(`Client.cpp:1994`). An SMS event that goes by mail is owned by the queue and
by the cache of requests, and whichever lets go first deletes it
(`SMTPClient.cpp:106`, `RequestIDCache.h:63`); `crashed` is a use after that,
and `EmailCannotCrash` shows that e-mail alone does not meet it.

### Buffer, Xml, Packets, Responses, Exchange

A layout is a sequence of reads, `<<operation, name>>`; `Output` of a packet is
an operator that gives bytes, `Parse` one that takes a reader through a
layout, with the byte order switched where the code switches it. The encryption of
direct connections, limits and rates are left out. `Exchange` runs them: `a` logs in to an
authorizer and a server, then sends messages of every kind, acknowledgements,
statuses, SMS and typing notices to `b` and to a telephone, through a socket
that gives any of `Portions` bytes at a time, at most `MaxCuts` times in the
middle of something. The server, the telephone and other clients' packets are
external: the layout they write is known from what `Parse` expects.

`ReceivedAsSent` holds for text without the separator 254 (which `Messages`
covers) and XML values without leading white space, which the parser drops. A
tag is one byte. Four-byte numbers stay below 2^31 and texts below 65535
bytes, above which the length written wraps. Dates are left out, and answers
to offers left to `FileOffer`. Two reads in one expression are taken to be
evaluated from the left; `order` of `Messages` is the other case. A server's
list in which a contact comes before its group is dropped whole.

## The runs

A property of a run may be a conjunction of named parts, each with its comment
in the module; the parts are listed here in brackets.

| Run | Shows |
|---|---|
| `session` | `ConnectionAgrees` (`SocketFollowsState`, `WatchFollowsSockets`, `LoggedInAgrees`, `OfflineIsRespected`), `StatusIsAnnounced` and the refinement of `SessionSpec` (`ImplementsContract`), with failing sends and split reads; a login settles unless its packets are stuck in the queue; a status asked for while logged in reaches the server |
| `session_login_stalls` | a login does not always settle: a violation, see below |
| `session_send_failure` | a failed send cannot be recovered from (`LowLevelFailureIsRecoverable`): a violation |
| `document` | `NetworkIsKnown` (`DownMeansDisconnected`, `RetryMeansDown`), `TargetIsFollowed` (`TargetIsSelected`, `OfflineIsShown`, `ClientFollowsTarget`), `OnlyUserConnects` (`NoUnaskedConnection`, `OnlyUserComesBack`): the document's beliefs agree with its connection and only the user ends being offline; the target is shown in the end; auto-away ends |
| `document_selection_ignored` | a selection without a connection is ignored (`SelectionConnects`): a violation |
| `delivery` | `ReportsAreDue` (`KeysAreLive`, `SendingIsPending`, `RecordedOnce`), the refinement of `MessageSpec` (`ImplementsContract`); everything pending is answered |
| `delivery_away_request` | an unanswered status request is reported as delivered (`AwayNeedsReply`): a violation |
| `history` | `HistoryIsWhole` (`NothingLost`, `SavedIsDurable`, `WriterHasArray`), a quiesced history is quiet (`QuiesceIsQuiet`), everything is saved; and, as a second part, `FilesAreKept` (`SavedIsOnDisk`, `HistoriesStayApart`, `ReaderFindsKept`) with crashes, failures and two documents |
| `file_offer` | `OutcomeIsTheUsers` (`AnswerIsTheUsers`, `CancelIsTheSenders`, `CachedIsOpen`, `WithdrawnIsOver`): an offer is shown to have come to what its users made of it; nobody waits for ever |
| `file_transfer` | `FilesArrive` (`DataInPlace`, `CompleteMeansReceived`, `PositionCountsFiles`), `EndsAgree` (`SentMeansReceived`, `EndedIsClosed`), an end is final (`EndedStaysEnded`), a connected transfer ends; second part, `Mail`: `MailIsDelivered` (`DeliveredIsTaken`, `NeitherLostNorRepeated`, `DialogueGoesOn`, `EmailCannotCrash`), and each e-mail is answered |
| `contacts` | `RosterAgrees` (`ListsExclusive`, `ListsAreMarked`, `BuddiesAreInTree`, `DeletedIsForgotten`, `ShownIsTold`) and `VisibilityIsKnown`; second part, `Exchange`: `PacketsArrive` (`ReceivedAsSent`, `AckNamesMessage`, `NothingLeftBehind`, `ContactAsAnnounced`, `LoginAsTold`) |
| `traffic` | `Messages`: `ShownAsWritten` and `VerdictIsKnown` (`DeliveredIsShown`, `RefusedIsNotShown`, `PriorityGetsThrough`, `IgnoredHearNothing`); second part, `Requests`: `RequestsAgree` (`PendingIsCached`, `ResultsAreCurrent`, `DetailsAreTheirOwn`, `NothingErased`, `OwnDetailsAgree`) and `RequestsEnd` (`SearchEnds`, `RetrieveEnds`) |

Each passing run also checks a type invariant (`TypeOK`, or `TypesOK` where it
has two parts).

### Bounds

- `session`: two statuses, so that one can replace the other; one peer; a
  window of `Rate` = 8 slots for the code's 40, one more than the seven packets
  of a login, so that a login just fits and any traffic before it makes it
  stall; `MaxQueue` = 2 packets the user may add to the queue or the wire,
  enough for one status to wait behind another.
- `document`: one status besides Offline, Available and Away, the three the
  code names.
- `delivery`: two contacts and three windows (to one contact, to both, asking
  for authorization) and `MaxEvents` = 2 events that wait for an
  acknowledgement, enough for one to expire while another, of the same or
  another window, is answered; the bound is on the behaviour's length, and the
  proofs do without it.
- `history`: two messages, two threads, so that two writes are under way while
  one message is appended and another cleared. Files: two documents,
  `MaxCalls` = 3 calls of the user, which make three writes, or two and a save;
  `MaxFaults` = 2, enough for a crash inside a move and a failure after it.
- `file_offer`: two offers, both from one end or one from each (the other cases
  are these with the programs exchanged), over `MaxConns` = 2 connections.
- `file_transfer`: offers of one and two files with one, two or no chunks;
  `MaxBadFiles` = 2 files that exist, are locked or missing; `MaxTroubles` = 2
  troubles, one at each end or one after the other. Mail: two e-mails and an
  SMS, so that one waits behind another; `MaxFaults` = 2 divided lines,
  failures, refusals, delays or answers of the SMS server between them.
- `contacts`: two contacts, one of them on the server's list; `MaxCommands` = 4
  (a contact can be added, deleted, found again and restored), `MaxInbox` = 3
  packets on their way. Packets: one of every kind and with every width of
  field; `MaxPackets` = 2, so that two frames are in the buffer at once;
  `MaxCuts` = 1 read that ends inside a frame, after 3, 61 or 140 bytes:
  inside a header, inside a SNAC, inside the second frame.
- `traffic`: eight texts, one for each conversion that may fail; two requests
  by a document that searches, retrieves and saves, over two logins, with
  `IdSpace` = 2 identifiers so that they collide.

Symmetry is not used. Deadlock is checked in `document`, `history` and
`delivery`. The other systems may really stop: a spinning client (`session`),
an offer, a transfer or a letter that has come to its end, or a bound that is
reached.

### Fairness

`Session`: the run loop serves ready sockets and polls every five seconds while
logged in (`routineTask:` is a repeating timer), time passes, the servers
answer. Nothing is assumed of the user, and no connection is promised to last.
`UserDocument`: notifications are delivered, the idle timer fires every five
seconds, the server echoes a status it was sent. `Delivery`: `Poll` while
logged in, and time, so that a cookie expires; neither packets nor
acknowledgements are promised to arrive. `History`: threads run and locks are
handed on; a pass of the run loop performs queued calls and fires timers that
are due *whatever else it does*, hence strong fairness of `PeriodicTask` and
`PerformMove`, which other callbacks of the main thread disable for a while
again and again. `FileTransfer`: each program's run loop serves its sockets.
`FileOffer`: each program polls, so that what waits expires. `Requests`: the
run loop polls while logged in and delivers queued notifications; of the server
nothing is assumed. `Mail`: polls, time passes, and the socket's callbacks run;
of the SMTP server nothing is assumed.

### Violations found

1. *A login can wait for ever* (`session_login_stalls`). `Poll` alone flushes
   what the rate window held back, and `routineTask:` polls only while logged
   in. Heavy traffic, a disconnection and a new login within 25 seconds leave
   login packets in the queue. `LoginSettlesUnlessStuck`, in `session`, shows
   that this is the only way for a login to hang when the servers answer.
2. *A failed send hangs the application* (`session_send_failure`).
3. *A selection that is ignored* (`document_selection_ignored`). After a wrong
   password and a cancelled sheet, selecting the same status does nothing.
4. *A status request reported as delivered* (`delivery_away_request`). Nobody
   answered it; when its cookie expires it is sent in a form that has no
   answer and reported as delivered.

What else the models show the code to do is in the exceptions of the
properties, described above module by module.

## The proofs

`tlapm` checks them for every value of the constants that the named
assumptions allow.

| Module | Theorems | Assumptions |
|---|---|---|
| `Session_proofs` | `TypeCorrect`, `ConnectionAgreement` (from `SocketSafety`, `SelectSafety`, `LoginAgreement`, `OfflineSafety`), `StatusAnnounced`, `Implementation` (of `SessionSpec`) | those of `Session` |
| `UserDocument_proofs` | `TypeCorrect`, `NetworkIsKnownAlways`, `TargetIsFollowedAlways`, `OnlyUserConnectsEver` (from a theorem for each part) | those of `UserDocument` |
| `Delivery_proofs` | `TypeCorrect`, `ReportsStayDue` (from `KeysStayLive`, `SendingWaits`, `RecordedOnceAlways`), `Implementation` (of `MessageSpec`) | those of `Delivery` |
| `History_proofs` | `TypeCorrect`; `HistoryStaysWhole` (from `NoMessageLost`, `AtRestOnDisk`, `ArrayIsHeld`), `QuiescePromise`; `FilesKept`; `FilesTypeCorrect`, `BothImplemented` and `BothTypeCorrect` of the composition in `MCHistory` | those of `History` (the properties of `History`, but for its types, also `Prompt`); that `MaxCalls` is a number |
| `Contacts_proofs` | `ContactsTypeCorrect`, `RosterAgreement`, `VisibilityKnown` | those of `Contacts`: the server lists contacts, the bounds are numbers |
| `Traffic_proofs` | `VerdictKnown`; `RequestsAgreement`, `RequestsTypeCorrect`; `TrafficImplements` and `TrafficAgrees` of the composition in `MCTraffic` | those of `Messages` and `Requests`: characters are code points and the code page is injective; a contact is neither oneself nor nobody, identifiers do not run out in one login |
| `FileOffer_proofs` | `OffersInvariant`, `OffersTypes`, `OffersOutcome` | those of `FileOffer`: who may send each offer is one of the two programs, `MaxConns` is a number |
| `FileTransfer_proofs` | `MailInvariant`, `MailTypeCorrect`, `MailDelivered` of `Mail`; `TransferInvariant`, `TransferTypes`, `TransferArrives`, `TransferAgrees`, `TransferStaysEnded`; `SocketsInvariant`, `SocketsTypes`, `SocketsDeliver` and `SocketsStayEnded` of the composition in `MCFileTransfer` | those of `FileTransfer`: an offer is a sequence of sizes that is not empty, `m_size` may hold any numbers, the bounds are numbers; that of `Mail`, and for the composition: e-mails, SMS messages and the null event differ, the bound is a number |

The bounds (`MaxCalls`, `MaxFaults`, `MaxEvents` and so on) are arbitrary
numbers in all of them, and so are the numbers of statuses, windows, contacts,
documents, threads, e-mails, offers and connections.

Each module proves an inductive invariant, action by action, and reads the
properties off it.

- *Session.* The safety properties lean on each other: that a handler finds
  the socket open needs the state machine, that `DisconnectBOS` leaves no
  descriptor selected needs the listening socket to be watched exactly while
  it listens, and "offline is respected" needs every action that connects to
  have set `wanted`. `IInv` joins them (`ConnOK`) with the types of queue,
  wire and buffers. The helpers that several actions share (`TearDown`,
  `Transmit`, `SendFailure`) each have a lemma. `StatusIsAnnounced` has an
  invariant of its own on top (`Announcing`): a status asked for while a login
  is under way is sent with its last packets, so it matters whether the server
  still waits for them (`ServerWaits`).
- *UserDocument.* `IInv` joins what is known of the connection (a network
  believed down means a disconnected client, and so does the offer to retry;
  `OfflineIsShown`) with what is known of the aim (`TargetIsSelected`, and
  that nothing selected means nothing wanted). Most of the handlers
  end in `reconnectIfPossibleWithStatus:`, and the lemma `ReconnectKeeps` says
  what it establishes wherever it is called from. `FollowsTarget` adds the
  equality of `clientStatus` and `target` while a connection exists, unless a
  failed look at the network dropped the change (`unchecked`).
- *Delivery.* `Alive` says that keys, cookies and events are the same set, all
  below `next` and unreported; `WindowOK` says of each window in turn how many
  events it has pending (`SendingIsPending`), and that one whose message was
  recorded is closed with none pending. Without the latter a late
  acknowledgement could record the message again.
- *History.* `FilesAreRight` follows the newest file, which is at `temp` while
  a move is needed, and says of which threads the unsaved messages have been
  written; `WorkIsAssigned` says that `needsWriting` has somebody who will
  write; `QuietIsDone` that after a quiesce there is nothing to move and
  nobody archiving.
- *HistoryFiles.* `FilesAreKept` speaks of a document until something has
  spoiled it, and so does the invariant, `DocumentOK`: `OwnOK` (a file of the
  package holds the document's messages only), `ArrayOK` (the array is what is
  expected, and once written what was archived), `PromisedOK` and `PlacedOK`
  (where the history is between two file operations) and `WaitingOK` (what
  waits under its temporary name is what was archived). The documents write to
  one directory; `NamesApart` says that an unspoiled one shares the name it
  uses with no other, so that a step of one leaves the others as they were
  (`OneDocument`). That `Names` never runs out is proved by counting the names
  in use against the calls made (`RoomInv`).
- *Contacts.* `MarksOK` relates the marks of a contact's entry, even one that
  a search result has replaced, to the lists of the library and the server;
  `PlaceOK` relates the entry to the tree: a contact in two groups is in
  `twice`, since a deletion takes it out of one. `LinkInv` is about the
  echoes of the own status: as long as the user does not outrun the server,
  the list it looks at is the one the library has.
- *Messages.* What may be in the packets, the verdicts, the acknowledgements
  and the history depends on the kind of the letter (`LetterOK`, `WireOK`,
  `ArrivedOK`, `AcksOK`, `HistoryOK`); `SenderOK` says what the sender has
  been told in terms of these. It holds in particular that an advanced packet
  has one verdict at most, so that the acknowledgement cannot speak of another.
- *Requests.* `TrafficOK` follows an identifier from the cache to the request
  and its answer; it counts how long ago one was given out (`Age`), which shows
  that within a login it names one request, and that `collided` is the only
  way for an older entry to be found instead. `SearchesOK` says who waits for
  what, `OwnersOK` about whom each piece of information is, `ErasuresOK` and
  `OwnDetailsOK` what the server will have once it has taken all that is under
  way (`Will`), which is what the library and the document have already.
- *Mail.* `FlowOK` says which states of the dialogue, of the socket and of the
  selection go together, `QueueOK` that each e-mail is at exactly one place.
  While no line has been divided there is one whole reply at a time (`WireOK`),
  and `StepOK` follows the envelope the server has through the states of the
  client: the text that is acknowledged is that of the e-mail in front.
- *FileTransfer.* Each end by itself is at a file and a position in it
  (`SenderOK`, `ReceiverOK`), and the receiver's stream is open on that file
  from the answer on (`StreamOK`). Together they are in the greeting, at the
  same file, or the sender one name ahead (`InStep`); what is on the wire is
  then exactly what is missing (`SameFile`: the data on its way is the
  difference of the two positions), and an answer about a file is on its way
  at most once. `Finishing` and `Stuck` are what `EndsAgree` needs when one end
  has gone: a complete sender has put the last chunk on the wire, and a sender
  whose receiver has given up has not been told to send the last file. A
  callback reads any number of packets before it writes, so the invariant is
  restated for an end in the middle of one, its output included
  (`SenderMid`, `JointMid`, `StuckMid`, `ReceiverMid`, `BothMid`, `FinishMid`),
  with a lemma for each kind of packet; `SenderRecv` and `ReceiverRecv` go
  from packet to packet by the least number of packets after which it would
  not hold. What a send that fails leaves behind (`FailDone`, `ThrownDone`) is
  the same with the last packet dropped.
- *FileOffer.* The state of an event does not say who caused it, and a message
  has only a number, which several offers may have had. So the invariant
  follows a user's act through all the places where it may be: `MessagesOK`
  says that every answer and every cancellation on its way tells what a user
  has done with some offer of that number (`Says`); `StartsOK` that an offer is
  on its way once at most and is not known at the other end before; `Honest`
  that an event shows what the users have done, unless a number is ambiguous
  (`Ambiguous`), and `Open` that an offer in a cache is undecided, unless the
  programs have connected twice besides (`Reconnected`). `LocalOK` is about one program:
  its list has the open connections, a queue has unsent offers and a cache
  offers whose number it holds, each once. A callback changes a program
  several times before it sends anything, so these are restated for the middle
  of one (`Amid`, `Kept`); a lemma says what each operator makes of them,
  `CallbackKeeps` that the invariant holds after the callback, and one lemma
  for each action that it ends so.

The reading loop of `FileTransfer`, and `FlushQueue` and `Only` of `FileOffer`,
are recursive functions, so that a proof can take the least turn that would
break an invariant; and `Parse` of `FileOffer` is a chain of IF, since a CASE
whose conditions overlap has no value that a proof could rely on.

Only model-checked:

- Everything about liveness (`LoginSettlesUnlessStuck`, `StatusReachesServer`,
  `AwayEnds`, `TargetIsShown`, `PendingIsAnswered`, `EverythingIsSaved`,
  `TransferEnds`, `WaitEnds`, `EmailEnds`, `RequestsEnd`), for which the prover
  has no rule of fairness.
- `PacketsArrive` and the types of `Exchange`, which parses by recursive
  operators: what they compute is an induction over the bytes.
- `ShownAsWritten` and the type of the packets in `Messages`: the conversions
  of a text are folds over its characters, an induction over data as well.

## What is left

1. Save As, which moves the histories out of the document it was made from,
   and opening a document, with the property lists of both.
2. The packets of direct connections and file transfers, byte by byte, under
   `FileOffer` and `FileTransfer`.

## Not modelled

Windows, cells, preferences, sounds, the address book of fields; the value
classes of events and the signals, whose dispatch is synchronous and part of
the action that emits them; the encryption of direct connections and the older
versions of their handshake; UIN registration, groups the user makes, keyword
and random chat searches, which the application has no command for; rates and
limits, which nobody reads; vendored and generated code. `PROJECT.json` gives
the reason for each component.

Hazards of the code that no property covers:

- `Client.cpp:1452`: `m_send_queue` is never cleared; packets of an earlier
  session go out on the next connection.
- `Client.cpp:1360`: `Parse` goes on with the frames of the same read after a
  handler has disconnected.
- `Client.cpp:1889`: `Accept` throws an exception that nobody catches.
- `ICQUserDocument.m:823`: a configuration change between the notice of sleep
  and the sleep connects again.
- `ICQUserDocument.m:1452`: after a connection fails on a reachable network
  nothing retries.
- `OutgoingMessageController.m:272`: Resend while logged out leaves its window
  waiting (`unsent` in `Delivery`).
- `ICQUserDocument.m:1678`: a message to n contacts is recorded n times in each
  history.
- `MessageHandler.cpp:262`: the result of a status it does not know is not
  initialized.
- `History.m:158`: the array may be read from the old file when no move comes
  first (`Prompt`); `History.m:177` and `History.m:263`: the comment "now
  _needsWriting is necessarily NO" does not hold after
  `clearMessagesSentBefore:`.
- `History.m:243`: the result of `archiveRootObject:toFile:` is ignored; on a
  full disk the unsaved messages are forgotten (`spoiled` in `HistoryFiles`).
- `FTCache::removeAll` deletes a listening client whose socket is null.
- `Client.cpp:1962`: a `dynamic_cast` of a direct connection that its own
  callback may have deleted.
- `Client.cpp:2324`: `m_fetch_sbl` is never reset.
