------------------------------ MODULE Requests ------------------------------
(***************************************************************************)
(* What a document asks of the server and how the answers come back: the   *)
(* searches of the find panel, the details of contacts, and the user's own *)
(* details, which a window retrieves, edits and uploads.  An answer names  *)
(* the request by an id; m_reqidcache knows what the id stands for, for    *)
(* sixty seconds of which only those spent logged in count, as nothing     *)
(* polls it otherwise.                                                     *)
(*                                                                         *)
(* The server takes requests in the order they come and may leave one      *)
(* unanswered.  What is under way is lost with the connection.             *)
(***************************************************************************)
EXTENDS Integers, SequencesExt

CONSTANTS
    Others,         \* contacts on the list
    IdSpace,        \* request ids, 2^31 in the code
    MaxRequests, MaxSearches, MaxSaves, MaxConnects, MaxResults   \* bounds

\* The user's own contact is an object of its own (m_self), and no contact is
\* the one that NoValue is of; a document that stays open makes no more requests
\* than there are ids.
ASSUME RequestsAssumption ==
    /\ Others \cap {"self", "nobody"} = {}
    /\ IdSpace \in Nat \ {0} /\ MaxSearches \in Nat /\ MaxSaves \in Nat
    /\ MaxRequests \in 0 .. IdSpace

Self == "self"
Contacts == Others \cup {Self}
Found == Others \cup {"stranger"}     \* those a search may find

\* The details that come in a packet of their own; those of HomepageInfo go
\* the way of the about text.  The time zone comes with the main ones, and no
\* window shows it.
Parts == {"main", "about"}
AllFields == Parts \cup {"timezone"}
FieldsOf(part) == IF part = "main" THEN {"main", "timezone"} ELSE {part}

\* A field's value: whose it is and which edition of it.
Values == [of : Contacts, edition : 0 .. MaxSaves]
NoValue == [of |-> "nobody", edition |-> 0]
Original(c) == [of |-> c, edition |-> 0]

VARIABLES
    connected,      \* logged in
    open,           \* the document is open
    connects,       \* logins so far
    requestid,      \* m_requestid
    cache,          \* m_reqidcache, in the order of expiry
    asked, answers, \* requests and answers under way
    made,           \* requests so far
    pending,        \* searchesPendingResult: the identifiers of its values
    panel,          \* the find panel
    srv, lib, doc,  \* details: the server's, the library's, the document's
    window,         \* the user's details window
    edition,        \* saves so far
    collided, careless, crossed     \* what the properties make exceptions of

link == <<connected, open, connects>>
traffic == <<requestid, cache, asked, answers, made, collided>>
details == <<srv, lib, doc, window, edition, careless, crossed>>
requestVars == <<link, traffic, pending, panel, details>>

Panel == [searching : BOOLEAN, current : 0 .. MaxSearches,
          results : SUBSET (1 .. MaxSearches)]    \* the searches that answered
Window == [form : [Parts -> Values \cup {NoValue}],
           inProgress : BOOLEAN,    \* the progress sheet
           noticed : BOOLEAN]       \* ICJUserInfoChangedNotification is queued

RequestsInit ==
    /\ connected = FALSE /\ open = TRUE /\ connects = 0
    /\ requestid = 0 /\ cache = <<>> /\ asked = <<>> /\ answers = <<>> /\ made = 0
    /\ pending = {}
    /\ panel = [searching |-> FALSE, current |-> 0, results |-> {}]
    /\ srv = [c \in Contacts |-> [f \in AllFields |-> Original(c)]]
    /\ lib = [c \in Contacts |-> [f \in AllFields |-> NoValue]]
    /\ doc = [c \in Contacts |-> [p \in Parts |-> Original(c)]]
    /\ window = [form |-> doc[Self], inProgress |-> FALSE, noticed |-> FALSE]
    /\ edition = 0
    /\ collided = FALSE /\ careless = {} /\ crossed = FALSE

-----------------------------------------------------------------------------
(* The cache of request ids.                                               *)

Exists(id) == \E i \in DOMAIN cache : cache[i].id = id
Lookup(id) == cache[SelectInSeq(cache, LAMBDA e : e.id = id)]
Without(id) == RemoveAt(cache, SelectInSeq(cache, LAMBDA e : e.id = id))

NextRequestID == (requestid + 1) % IdSpace

\* A request of one packet whose answers are for entry; both have the next id.
Request(entry, packet) ==
    /\ connected /\ made < MaxRequests /\ made' = made + 1
    /\ requestid' = NextRequestID
    /\ cache' = Append(cache, entry)
    /\ asked' = Append(asked, packet)
    /\ collided' = (collided \/ Exists(NextRequestID))
    /\ UNCHANGED answers

-----------------------------------------------------------------------------
(* The find panel.                                                         *)

\* startFind: and searchForContacts.  The panel is attached to the first
\* document that is logged in, which is ours when it is.  A search by number
\* asks for the simple information of a contact.
StartFind(how) ==
    /\ ~panel.searching /\ panel.current < MaxSearches
    /\ LET n == panel.current + 1
       IN  /\ panel' = [searching |-> TRUE, current |-> n, results |-> {}]
           /\ pending' = pending \cup {n}
           /\ Request([id |-> NextRequestID, kind |-> "Search", search |-> n],
                      [id |-> NextRequestID, kind |-> "Search", how |-> how, search |-> n, sent |-> 0])
    /\ UNCHANGED <<link, details>>

\* stopFind: the search goes on, no one listens.
StopFind ==
    /\ panel.searching /\ panel' = [panel EXCEPT !.searching = FALSE]
    /\ UNCHANGED <<link, traffic, pending, details>>

\* searchResult:... and search:returnedResult:isLast: found is the set of
\* what was found, at most one.
SearchResult(n, found, last) ==
    LET heard == panel.searching /\ n \in pending /\ n = panel.current
    IN  /\ pending' = IF last THEN pending \ {n} ELSE pending
        /\ panel' = [panel EXCEPT !.results = IF heard THEN @ \cup found ELSE @,
                                  !.searching = @ /\ ~(heard /\ last)]

\* loginStatusChanged: of the panel, when ours has logged out.  The panel
\* attaches to another document that is logged in, if there is one.
LoginStatusChanged(other) == [panel EXCEPT !.searching = @ /\ other]

-----------------------------------------------------------------------------
(* Details.                                                                *)

\* userinfo_change_emit: all that the library has replaces what the document
\* has.
Emitted(c, known) == [doc EXCEPT ![c] = [p \in Parts |-> known[p]]]

\* The details that values has, and the others as they were
Replacing(known, values) ==
    [f \in AllFields |-> IF f \in DOMAIN values THEN values[f] ELSE known[f]]

\* setMainHomeInfo and the like.
SetInfo(c, values) ==
    LET known == Replacing(lib[c], values)
    IN  /\ lib' = [lib EXCEPT ![c] = known]
        /\ doc' = Emitted(c, known)
        /\ window' = IF c = Self THEN [window EXCEPT !.noticed = TRUE] ELSE window

RefreshInfo(c) ==
    /\ Request([id |-> NextRequestID, kind |-> "UserInfo", contact |-> c],
               [id |-> NextRequestID, kind |-> "UserInfo", contact |-> c, left |-> Parts])
    /\ UNCHANGED <<link, pending, panel>>

RefreshInfoForContact(c) ==
    /\ RefreshInfo(c) /\ UNCHANGED details

\* doRetrieve: with a sheet over the window until something happens.
DoRetrieve ==
    /\ ~window.inProgress
    /\ RefreshInfo(Self)
    /\ window' = [window EXCEPT !.inProgress = TRUE]
    /\ UNCHANGED <<srv, lib, doc, edition, careless, crossed>>

\* userInfoChanged: of the window, and the update of the window that follows
\* the user's next action.
UserInfoChanged ==
    /\ window.noticed
    /\ window' = [form |-> doc[Self], inProgress |-> FALSE, noticed |-> FALSE]
    /\ UNCHANGED <<link, traffic, pending, panel, srv, lib, doc, edition, careless, crossed>>

OwnDetailsComing ==
    \/ \E i \in DOMAIN asked : asked[i].kind = "UserInfo" /\ asked[i].contact = Self
    \/ \E i \in DOMAIN answers : answers[i].kind = "Info" /\ answers[i].of = Self

\* uploadDetails: and uploadSelfDetails.  The fields that no window shows go
\* as the library has them.
Uploaded(saved) == Replacing(lib[Self], saved)
UploadPackets(values) ==
    <<[kind |-> "Update", part |-> "main", values |-> values],
      [kind |-> "Update", part |-> "about", values |-> values]>>

\* saveAndUploadDetails of a form in which the user changed one field, and
\* the window opened again.
Save(part) ==
    LET saved == [window.form EXCEPT ![part] = [of |-> Self, edition |-> edition + 1]]
    IN  /\ open /\ ~window.inProgress /\ edition < MaxSaves /\ edition' = edition + 1
        /\ IF connected
           THEN /\ asked' = asked \o UploadPackets(Uploaded(saved))
                /\ lib' = [lib EXCEPT ![Self] = Uploaded(saved)]
                /\ doc' = Emitted(Self, Uploaded(saved))
                /\ window' = [window EXCEPT !.form = saved, !.noticed = TRUE]
           ELSE /\ doc' = [doc EXCEPT ![Self] = saved]
                /\ window' = [window EXCEPT !.form = saved]
                /\ UNCHANGED <<asked, lib>>
        /\ careless' = careless
              \cup (IF (lib[Self].main = NoValue) # (lib[Self].about = NoValue) THEN {"partial"} ELSE {})
              \cup (IF window.noticed THEN {"stale"} ELSE {})
              \cup (IF lib[Self].timezone = NoValue THEN {"unread"} ELSE {})
        /\ crossed' = (crossed \/ ~connected \/ OwnDetailsComing)
        /\ UNCHANGED <<link, requestid, cache, answers, made, collided, pending, panel, srv>>

-----------------------------------------------------------------------------
(* The server.                                                             *)

\* The server sends a part of someone's details, the last when none is left.
SendInfo(part) ==
    LET q == Head(asked)
    IN  /\ part \in q.left
        /\ asked' = IF q.left = {part} THEN Tail(asked)
                    ELSE <<[q EXCEPT !.left = @ \ {part}]>> \o Tail(asked)
        /\ answers' = Append(answers, [kind |-> "Info", id |-> q.id, of |-> q.contact,
                                       values |-> [f \in FieldsOf(part) |-> srv[q.contact][f]]])

\* A result, one of several when the search is not by number; found is empty
\* when there is none.
SendResult(found, last) ==
    LET q == Head(asked)
    IN  /\ last \/ (found # {} /\ q.how = "names" /\ q.sent + 1 < MaxResults)
        /\ asked' = IF last THEN Tail(asked) ELSE <<[q EXCEPT !.sent = @ + 1]>> \o Tail(asked)
        /\ answers' = Append(answers, [kind |-> "Result", id |-> q.id, how |-> q.how,
                                       search |-> q.search, found |-> found, last |-> last])

Update ==
    LET q == Head(asked)
    IN  /\ asked' = Tail(asked)
        /\ srv' = [srv EXCEPT ![Self] = Replacing(@, [f \in FieldsOf(q.part) |-> q.values[f]])]
        /\ UNCHANGED answers

ServerTakes ==
    /\ connected /\ asked # <<>>
    /\ CASE Head(asked).kind = "UserInfo" -> (\E part \in Parts : SendInfo(part)) /\ UNCHANGED srv
         [] Head(asked).kind = "Search" ->
              (\E found \in {{}} \cup {{c} : c \in Found}, last \in BOOLEAN : SendResult(found, last))
              /\ UNCHANGED srv
         [] OTHER -> Update
    /\ UNCHANGED <<link, requestid, cache, made, collided, pending, panel, lib, doc, window, edition,
                   careless, crossed>>

\* A request that the server leaves unanswered.
ServerIgnores ==
    /\ connected /\ asked # <<>> /\ Head(asked).kind # "Update"
    /\ asked' = Tail(asked)
    /\ UNCHANGED <<link, requestid, cache, answers, made, collided, pending, panel, details>>

-----------------------------------------------------------------------------
(* SignalSrvResponse.                                                      *)

\* Mutant: an answer goes to the oldest request, whatever its id.
ReceiveInfoOfOldest(a) ==
    /\ IF Exists(a.id) /\ Head(cache).kind = "UserInfo"
       THEN SetInfo(Head(cache).contact, a.values)
       ELSE UNCHANGED <<lib, doc, window>>
    /\ UNCHANGED <<cache, pending, panel>>

\* An answer to a details request goes to the contact of the first entry with
\* its id; of any other entry, or none, it is logged.
ReceiveInfo(a) ==
    /\ IF Exists(a.id) /\ Lookup(a.id).kind = "UserInfo"
       THEN SetInfo(Lookup(a.id).contact, a.values)
       ELSE UNCHANGED <<lib, doc, window>>
    /\ UNCHANGED <<cache, pending, panel>>

\* The simple information of no one we asked for is taken for a change of a
\* contact's.  That of nobody leaves m_uin unset: it may be anyone's.
LateSimpleInfo(a) ==
    \/ \E c \in a.found \cap Others : SetInfo(c, [main |-> Original(c)])
    \/ a.found = {} /\ \E c \in Others : SetInfo(c, [main |-> NoValue])
    \/ a.found \cap Others = {} /\ UNCHANGED <<lib, doc, window>>

ReceiveResult(a) ==
    \/ /\ Exists(a.id) /\ Lookup(a.id).kind = "Search"
       /\ SearchResult(Lookup(a.id).search, {a.search : c \in a.found}, a.last)
       /\ cache' = IF a.last THEN Without(a.id) ELSE cache
       /\ UNCHANGED <<lib, doc, window>>
    \/ /\ ~Exists(a.id) /\ a.how = "number"
       /\ LateSimpleInfo(a)
       /\ UNCHANGED <<cache, pending, panel>>
    \/ /\ IF Exists(a.id) THEN Lookup(a.id).kind # "Search" ELSE a.how # "number"
       /\ UNCHANGED <<cache, pending, panel, lib, doc, window>>

ReceiveAnswer ==
    /\ connected /\ answers # <<>> /\ answers' = Tail(answers)
    /\ IF Head(answers).kind = "Info" THEN ReceiveInfo(Head(answers)) ELSE ReceiveResult(Head(answers))
    /\ UNCHANGED <<link, requestid, asked, made, collided, srv, edition, careless, crossed>>

\* Mutant: an entry expires silently.
ExpireSilently ==
    /\ connected /\ cache # <<>> /\ cache' = Tail(cache)
    /\ UNCHANGED <<link, requestid, asked, answers, made, collided, pending, panel, details>>

\* Poll: the oldest entry expires.  A search ends; details are not missed.
ExpireEntry ==
    /\ connected /\ cache # <<>> /\ cache' = Tail(cache)
    /\ IF Head(cache).kind = "Search"
       THEN SearchResult(Head(cache).search, {}, TRUE)
       ELSE UNCHANGED <<pending, panel>>
    /\ UNCHANGED <<link, requestid, asked, answers, made, collided, details>>

-----------------------------------------------------------------------------
(* Logging in and out.                                                     *)

\* ConnectAuthorizer begins the ids anywhere.  The window's sheet ends.
Connect ==
    /\ open /\ ~connected /\ connects < MaxConnects /\ connects' = connects + 1
    /\ connected' = TRUE /\ requestid' \in 0 .. IdSpace - 1
    /\ window' = [window EXCEPT !.inProgress = FALSE]
    /\ UNCHANGED <<open, cache, asked, answers, made, collided, pending, panel, srv, lib, doc,
                   edition, careless, crossed>>

LoggedOut ==
    /\ connected /\ connected' = FALSE
    /\ asked' = <<>> /\ answers' = <<>>
    /\ \E other \in BOOLEAN : panel' = LoginStatusChanged(other)
    /\ window' = [window EXCEPT !.inProgress = FALSE]
    /\ crossed' = (crossed \/ \E i \in DOMAIN asked : asked[i].kind = "Update")
    /\ UNCHANGED <<connects, requestid, made, collided, srv, lib, doc, edition, careless>>

Disconnect == LoggedOut /\ UNCHANGED <<open, cache, pending>>

\* The document closes and its client is deleted, with nobody told of what
\* was in the cache.
Close ==
    /\ open /\ open' = FALSE /\ cache' = <<>> /\ pending' = {}
    /\ \/ LoggedOut
       \/ /\ ~connected
          /\ UNCHANGED <<connected, connects, requestid, asked, answers, made, collided,
                         panel, details>>

\* The other document logs out as well.
OtherLogsOut ==
    /\ ~connected /\ panel.searching /\ panel' = LoginStatusChanged(FALSE)
    /\ UNCHANGED <<link, traffic, pending, details>>

RequestsNext ==
    \/ \E how \in {"number", "names"} : StartFind(how)
    \/ StopFind
    \/ \E c \in Others : RefreshInfoForContact(c)
    \/ DoRetrieve
    \/ UserInfoChanged
    \/ \E part \in Parts : Save(part)
    \/ ServerTakes
    \/ ServerIgnores
    \/ ReceiveAnswer
    \/ ExpireEntry
    \/ Connect
    \/ Disconnect
    \/ Close
    \/ OtherLogsOut

RequestsSpec == RequestsInit /\ [][RequestsNext]_requestVars

\* The run loop polls and delivers notifications.  Of the server nothing is
\* assumed.
RequestsFairness == WF_requestVars(ExpireEntry) /\ WF_requestVars(UserInfoChanged)

-----------------------------------------------------------------------------
(* Properties.                                                             *)

RequestsTypeOK ==
    /\ {connected, open, collided, crossed} \subseteq BOOLEAN
    /\ requestid \in 0 .. IdSpace - 1
    /\ \A i \in DOMAIN cache : cache[i].kind \in {"Search", "UserInfo"}
    /\ panel \in Panel /\ window \in Window
    /\ \A c \in Contacts : \A f \in AllFields : {srv[c][f], lib[c][f]} \subseteq Values \cup {NoValue}
    /\ \A c \in Contacts : \A p \in Parts : doc[c][p] \in Values \cup {NoValue}
    /\ careless \subseteq {"partial", "stale", "unread"}

\* The connection remembers whom to tell of a search (searchesPendingResult)
\* exactly as long as the library may still answer it, whether it is answered,
\* expires or goes with the document.
PendingIsCached == pending = {e.search : e \in {e \in Range(cache) : e.kind = "Search"}}

\* The find panel shows no results but those of the search it runs, even when
\* ids were used again after a new login and an earlier search, to which the
\* user stopped listening, is answered late.
ResultsAreCurrent == panel.results \subseteq {panel.current}

\* Nobody is given someone else's details, unless two requests had the same
\* id: each login begins the ids anywhere (Client.cpp:250) while the entries
\* of the previous one are kept.
DetailsAreTheirOwn ==
    ~collided => \A c \in Contacts : \A f \in AllFields : lib[c][f] = NoValue \/ lib[c][f].of = c

\* An upload erases nothing of the user's record at the server, unless the
\* user saved while a retrieval had brought only some of the packets, or
\* before the window showed what it had brought; the time zone, which no
\* window shows, is erased by a save before the first retrieval.
NothingErased ==
    /\ \A p \in Parts : srv[Self][p] = NoValue => careless \cap {"partial", "stale"} # {}
    /\ srv[Self].timezone = NoValue => "unread" \in careless

\* When all is quiet, what the library and the document have of the user's
\* own details is what the server has, unless the user saved offline, or while
\* details that were asked for before were still to come, or the connection
\* went down under an upload.
OwnDetailsAgree ==
    connected /\ asked = <<>> /\ answers = <<>> /\ ~crossed /\ ~collided =>
        \A p \in Parts : /\ lib[Self][p] \in {NoValue, srv[Self][p]}
                         /\ edition > 0 => doc[Self][p] = srv[Self][p]

\* A search that the panel runs ends, answered, expired, or because nobody is
\* logged in any more.  It only goes on while our document is not logged in
\* (or closed) and another is: nothing polls our cache (ICQConnection.mm:268).
SearchEnds == panel.searching ~> ~panel.searching \/ ~connected

\* The sheet over the details window goes away, with an answer or with the
\* connection, unless nothing came and no entry is left that an answer could
\* be for: the expiry of a details request tells nobody (Client.cpp:1002).
Unanswered ==
    connected /\ ~window.noticed /\ ~\E e \in Range(cache) : e.kind = "UserInfo" /\ e.contact = Self
RetrieveEnds == window.inProgress ~> ~window.inProgress \/ Unanswered

\* Answers reach who asked, about whom they asked, and the user's own details
\* are the same everywhere.
RequestsAgree ==
    /\ PendingIsCached /\ ResultsAreCurrent /\ DetailsAreTheirOwn
    /\ NothingErased /\ OwnDetailsAgree

\* Searches end, and so does the waiting for details.
RequestsEnd == SearchEnds /\ RetrieveEnds
=============================================================================
