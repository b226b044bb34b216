------------------------------ MODULE Contacts ------------------------------
(***************************************************************************)
(* The contact list: the entries of the document, the ContactTree and the  *)
(* Contacts of the library behind them, and what the server has been told  *)
(* of buddies, of the visible and invisible lists and of the own status.   *)
(*                                                                         *)
(* What the library sends reaches the server in order, and here at once;   *)
(* what the server answers waits in "inbox".  The login is Session's: here *)
(* it is one step.                                                         *)
(***************************************************************************)
EXTENDS Naturals, Sequences

CONSTANTS
    Contact,      \* the UINs that matter
    OnServer,     \* those on the server-based list
    MaxInbox,     \* bound: what the server may have on its way to the client
    MaxCommands   \* bound: commands of the user and of other users

ASSUME OnServerAssumption == OnServer \subseteq Contact
ASSUME BoundAssumption == MaxInbox \in Nat /\ MaxCommands \in Nat

\* m_groups in its order: the group of the program and that of the server's list.
Groups == {"General", "Imported"}

\* The Contact objects of one UIN: the one made for the document's entry, the
\* one of the server-based list and the one of a search result.
Refs == {"own", "imported", "found"}

VARIABLES
    entry,       \* the entries of the document
    tree,        \* m_contact_tree: which Contact each group holds of a UIN
    status,      \* m_status of each Contact: online or not
    visible,     \* m_visible_list
    invisible,   \* m_invisible_list
    loggedIn,    \* m_state is BOS_LOGGED_IN
    wanted,      \* m_invisible_wanted
    self,        \* m_self, as the server has echoed it
    fetch,       \* m_fetch_sbl
    server,      \* the server's view (external)
    inbox,       \* what the server has sent
    outrun,      \* history: in this session, a change was made before the
                 \* server had echoed the one before it
    revived,     \* history: contacts shown by the record of an earlier time
    twice,       \* history: contacts that are in two groups
    commands     \* how many commands there were

docVars == <<entry, revived>>
libVars == <<tree, status, visible, invisible, loggedIn, wanted, self, fetch>>
vars == <<entry, tree, status, visible, invisible, loggedIn, wanted, self, fetch,
          server, inbox, outrun, revived, twice, commands>>

-----------------------------------------------------------------------------
(* The server (external).                                                  *)

NewServer ==
    [buddies |-> {}, visible |-> {}, invisible |-> {}, hidden |-> FALSE]

\* Who sees the user online.
Sees(c) == IF server.hidden THEN c \in server.visible ELSE c \notin server.invisible

-----------------------------------------------------------------------------
(* ContactTree.                                                            *)

InTree(c) == \E g \in Groups : tree[g][c] # "none"

\* The group that lookups, changes of status and removals find.
GroupOf(c) == IF tree["General"][c] # "none" THEN "General" ELSE "Imported"
RefOf(c) == tree[GroupOf(c)][c]

\* ContactTree::remove: from the first group that has it.
RemovedFromTree(c) == IF InTree(c) THEN [tree EXCEPT ![GroupOf(c)][c] = "none"] ELSE tree

\* Group::add: a UIN that the group has keeps its Contact.
AddTo(g, c, r) == [tree EXCEPT ![g][c] = IF @ = "none" THEN r ELSE @]

-----------------------------------------------------------------------------
(* Client.                                                                 *)

Command == commands < MaxCommands /\ commands' = commands + 1

Hear(msgs) == inbox' = inbox \o msgs
Room(n) == Len(inbox) + n <= MaxInbox

\* contactlist_cb: the server watches the contact for the client.
WithBuddies(cs) == IF loggedIn THEN [server EXCEPT !.buddies = @ \cup cs] ELSE server

\* Mutant: the server is not told.
WithoutBuddyUntold(c) == server

WithoutBuddy(c) == IF loggedIn THEN [server EXCEPT !.buddies = @ \ {c}] ELSE server

Online(c) == [type |-> "online", contact |-> c]
Offline(c) == [type |-> "offline", contact |-> c]
Echo(hidden) == [type |-> "self", hidden |-> hidden]
List == [type |-> "list"]

\* visiblelist_cb and invisiblelist_cb, on the server's lists.  The client goes
\* by the status that it has last heard of.
WithVisible(s, cs) == IF loggedIn /\ self.invisible THEN [s EXCEPT !.visible = cs] ELSE s
WithInvisible(s, cs) == IF loggedIn /\ ~self.invisible THEN [s EXCEPT !.invisible = cs] ELSE s

\* An echo is on its way, or the first one has not come.
Unheard == loggedIn /\ (~self.online \/ \E i \in DOMAIN inbox : inbox[i].type = "self")

-----------------------------------------------------------------------------
(* The session.                                                            *)

\* SendLogin.  What the server answers comes in any order, the list first.
Login ==
    /\ ~loggedIn /\ loggedIn' = TRUE
    /\ LET watched == {c \in Contact : InTree(c)} IN
       server' = [buddies |-> watched,
                  visible |-> IF wanted THEN visible ELSE {},
                  invisible |-> IF wanted THEN {} ELSE invisible,
                  hidden |-> wanted]
    /\ inbox' = (IF fetch THEN <<List>> ELSE <<>>) \o <<Echo(wanted)>>
    /\ outrun' = FALSE
    /\ UNCHANGED <<entry, tree, status, visible, invisible, wanted, self, fetch, revived, twice, commands>>

\* The status signals of Contacts that go offline
ShowOffline(cs) ==
    /\ entry' = [c \in Contact |-> IF c \in cs THEN [entry[c] EXCEPT !.shown = "offline"] ELSE entry[c]]
    /\ revived' = revived \ cs

\* SignalDisconnect: every Contact in the tree goes offline.
Disconnect ==
    /\ loggedIn /\ loggedIn' = FALSE
    /\ self' = [online |-> FALSE, invisible |-> FALSE]
    /\ status' = [c \in Contact |-> [r \in Refs |->
         status[c][r] /\ ~\E g \in Groups : tree[g][c] = r]]
    /\ ShowOffline({c \in Contact : \E g \in Groups : tree[g][c] # "none" /\ status[c][tree[g][c]]})
    /\ server' = NewServer
    /\ inbox' = <<>>
    /\ UNCHANGED <<tree, visible, invisible, wanted, fetch, outrun, twice, commands>>

\* Mutant: the list goes by the status that is wanted, once the status is sent.
SetStatusWanted(inv) ==
    /\ Command /\ wanted' = inv
    /\ IF loggedIn
       THEN /\ Room(1) /\ Hear(<<Echo(inv)>>)
            /\ server' = [server EXCEPT !.hidden = inv]
            /\ outrun' = (outrun \/ Unheard)
       ELSE UNCHANGED <<server, inbox, outrun>>
    /\ UNCHANGED <<docVars, tree, status, visible, invisible, loggedIn, self, fetch, twice>>

\* setStatus: a list goes to the server with a change from visible to
\* invisible or back.
SetStatus(inv) ==
    /\ Command /\ wanted' = inv
    /\ IF loggedIn
       THEN /\ Room(1) /\ Hear(<<Echo(inv)>>)
            /\ server' = [server EXCEPT
                 !.hidden = inv,
                 !.visible = IF ~self.invisible /\ inv THEN visible ELSE @,
                 !.invisible = IF self.invisible /\ ~inv THEN invisible ELSE @]
            /\ outrun' = (outrun \/ Unheard)
       ELSE UNCHANGED <<server, inbox, outrun>>
    /\ UNCHANGED <<docVars, tree, status, visible, invisible, loggedIn, self, fetch, twice>>

-----------------------------------------------------------------------------
(* The document.                                                           *)

NewEntry(ref) ==
    [known |-> TRUE, temporary |-> FALSE, pending |-> FALSE, deleted |-> FALSE,
     visible |-> FALSE, invisible |-> FALSE, shown |-> "offline", ref |-> ref, undo |-> "none"]

Unknown == [NewEntry("none") EXCEPT !.known = FALSE]

OnList(c) == entry[c].known /\ ~entry[c].deleted

\* The lists that an entry comes onto with its Contact
Listed(c, e) ==
    /\ visible' = IF e.visible THEN visible \cup {c} ELSE visible
    /\ invisible' = IF ~e.visible /\ e.invisible THEN invisible \cup {c} ELSE invisible
    /\ server' = WithInvisible(WithVisible(WithBuddies({c}),
                     IF e.visible THEN server.visible \cup {c} ELSE server.visible),
                     IF ~e.visible /\ e.invisible THEN server.invisible \cup {c} ELSE server.invisible)

\* ICQConnection addContact: for the entry e, which is in the tree from now on.
\* A Contact that is not offline is shown by its record.
AddContact(c, e) ==
    /\ tree' = AddTo("General", c, e.ref)
    /\ twice' = IF tree["Imported"][c] # "none" THEN twice \cup {c} ELSE twice
    /\ Listed(c, e)
    /\ entry' = [entry EXCEPT ![c] = [e EXCEPT !.shown = IF status'[c][e.ref] THEN "online" ELSE @]]
    /\ revived' = IF status'[c][e.ref] THEN revived \cup {c} ELSE revived \ {c}
    /\ outrun' = (outrun \/ (Unheard /\ (e.visible \/ e.invisible)))

\* addContactPermanently
Permanent(c, e) ==
    AddContact(c, [e EXCEPT !.temporary = FALSE, !.pending = FALSE, !.deleted = FALSE,
                            !.shown = "offline"])

\* The user keeps a temporary contact, or authorization was granted.
AddPermanently(c) ==
    /\ Command
    /\ OnList(c) /\ (entry[c].temporary \/ entry[c].pending)
    /\ UNCHANGED status
    /\ Permanent(c, entry[c])
    /\ UNCHANGED <<loggedIn, wanted, self, fetch, inbox>>

\* addSearchResult: with an entry and a Contact of its own.
AddSearchResult(c) ==
    /\ Command
    /\ entry[c].known => entry[c].temporary
    /\ entry[c].ref # "found" /\ \A g \in Groups : tree[g][c] # "found"
    /\ UNCHANGED status
    /\ Permanent(c, NewEntry("found"))
    /\ UNCHANGED <<loggedIn, wanted, self, fetch, inbox>>

\* addContactAsPendingAuthorization
AddAsPending(c) ==
    /\ Command
    /\ OnList(c)
    /\ entry' = [entry EXCEPT ![c].temporary = FALSE, ![c].pending = TRUE, ![c].shown = "pending"]
    /\ revived' = revived \ {c}
    /\ UNCHANGED <<libVars, server, inbox, outrun, twice>>

\* Mutant: the entry gets no Contact.
OwnContactLater(c) == entry[c].ref

\* contactWithLibContact: an entry without a Contact gets that of the message.
OwnContact(c) ==
    IF entry[c].ref # "none" THEN entry[c].ref ELSE IF InTree(c) THEN RefOf(c) ELSE "own"

\* addContactTemporarily, for a message from somebody who is not on the list.
AddTemporarily(c) ==
    /\ Command
    /\ ~OnList(c)
    /\ entry' = [entry EXCEPT ![c].known = TRUE, ![c].temporary = TRUE, ![c].deleted = FALSE,
                              ![c].shown = "not on list",
                              ![c].ref = OwnContact(c)]
    /\ UNCHANGED <<libVars, server, inbox, outrun, revived, twice>>

\* deleteContact
Delete(c) ==
    /\ Command
    /\ OnList(c)
    /\ entry' = [entry EXCEPT ![c].deleted = TRUE, ![c].temporary = TRUE, ![c].shown = "not on list",
                              ![c].undo = IF entry[c].temporary THEN "temporary"
                                          ELSE IF entry[c].pending THEN "pending" ELSE "permanent"]
    /\ tree' = RemovedFromTree(c)
    /\ server' = IF InTree(c) THEN WithoutBuddy(c) ELSE server
    /\ revived' = revived \ {c}
    /\ UNCHANGED <<status, visible, invisible, loggedIn, wanted, self, fetch, inbox, outrun, twice>>

\* The deletion is undone.
UndoDelete(c) ==
    /\ Command
    /\ entry[c].deleted
    /\ LET e == [entry[c] EXCEPT !.undo = "none"] IN
       \/ /\ e # entry[c] /\ entry[c].undo = "permanent"
          /\ UNCHANGED status
          /\ Permanent(c, e)
          /\ UNCHANGED <<loggedIn, wanted, self, fetch, inbox>>
       \/ /\ entry[c].undo = "pending"
          /\ entry' = [entry EXCEPT ![c] = [e EXCEPT !.deleted = FALSE, !.temporary = FALSE,
                                                     !.pending = TRUE, !.shown = "pending"]]
          /\ UNCHANGED <<libVars, server, inbox, outrun, revived, twice>>
       \/ /\ entry[c].undo = "temporary"
          /\ entry' = [entry EXCEPT ![c] = [e EXCEPT !.deleted = FALSE]]
          /\ UNCHANGED <<libVars, server, inbox, outrun, revived, twice>>

\* addToVisibleList and addToInvisibleList: off the other list first.
PutOnVisible(c) ==
    /\ entry' = [entry EXCEPT ![c].invisible = FALSE, ![c].visible = TRUE]
    /\ visible' = visible \cup {c} /\ invisible' = invisible \ {c}
    /\ server' = WithVisible(WithInvisible(server, server.invisible \ {c}),
                     IF c \in visible THEN server.visible ELSE server.visible \cup {c})

PutOnInvisible(c) ==
    /\ entry' = [entry EXCEPT ![c].visible = FALSE, ![c].invisible = TRUE]
    /\ visible' = visible \ {c} /\ invisible' = invisible \cup {c}
    /\ server' = WithInvisible(WithVisible(server, server.visible \ {c}),
                     IF c \in invisible THEN server.invisible ELSE server.invisible \cup {c})

\* removeFromVisibleList and removeFromInvisibleList
TakeOffVisible(c) ==
    /\ entry' = [entry EXCEPT ![c].visible = FALSE]
    /\ visible' = visible \ {c} /\ UNCHANGED invisible
    /\ server' = WithVisible(server, server.visible \ {c})

TakeOffInvisible(c) ==
    /\ entry' = [entry EXCEPT ![c].invisible = FALSE]
    /\ invisible' = invisible \ {c} /\ UNCHANGED visible
    /\ server' = WithInvisible(server, server.invisible \ {c})

\* toggleVisibleList: and toggleInvisibleList:
Toggle(c) ==
    /\ Command /\ OnList(c)
    /\ \/ ~entry[c].visible /\ PutOnVisible(c)
       \/ entry[c].visible /\ TakeOffVisible(c)
       \/ ~entry[c].invisible /\ PutOnInvisible(c)
       \/ entry[c].invisible /\ TakeOffInvisible(c)
    /\ outrun' = (outrun \/ Unheard)
    /\ UNCHANGED <<tree, status, loggedIn, wanted, self, fetch, inbox, revived, twice>>

\* importServerBasedList
Import ==
    /\ Command
    /\ loggedIn /\ Room(1)
    /\ fetch' = TRUE
    /\ Hear(<<List>>)
    /\ UNCHANGED <<docVars, tree, status, visible, invisible, loggedIn, wanted, self, server, outrun, twice>>

-----------------------------------------------------------------------------
(* What the server sends.                                                  *)

\* Of a buddy that is online or goes on or off (external).
ServerTells(c, online) ==
    /\ Command
    /\ loggedIn /\ c \in server.buddies /\ Room(1)
    /\ Hear(<<IF online THEN Online(c) ELSE Offline(c)>>)
    /\ UNCHANGED <<docVars, libVars, server, outrun, twice>>

Next1 == Head(inbox)

\* HandleUserInfoSNAC
HearSelf ==
    /\ inbox # <<>> /\ Next1.type = "self"
    /\ self' = [online |-> TRUE, invisible |-> Next1.hidden]
    /\ inbox' = Tail(inbox)
    /\ UNCHANGED <<docVars, tree, status, visible, invisible, loggedIn, wanted, fetch, server, outrun, twice, commands>>

\* SignalUserOnline and SignalUserOffline: the Contact in the tree changes, and
\* the entry if the Contact's status was another.
HearStatus ==
    /\ inbox # <<>> /\ Next1.type \in {"online", "offline"}
    /\ LET c == Next1.contact
           online == Next1.type = "online"
           changes == InTree(c) /\ status[c][RefOf(c)] # online
       IN  IF changes
           THEN /\ status' = [status EXCEPT ![c][RefOf(c)] = online]
                /\ entry' = [entry EXCEPT ![c].shown = Next1.type]
                /\ revived' = revived \ {c}
           ELSE UNCHANGED <<status, entry, revived>>
    /\ inbox' = Tail(inbox)
    /\ UNCHANGED <<tree, visible, invisible, loggedIn, wanted, self, fetch, server, outrun, twice, commands>>

\* mergeSBL: who is not in the tree comes into a group of the list, and onto
\* the document's list.
HearList ==
    /\ inbox # <<>> /\ Next1.type = "list"
    /\ LET new == {c \in OnServer : ~InTree(c)} IN
       /\ tree' = [tree EXCEPT !["Imported"] = [c \in Contact |-> IF c \in new THEN "imported" ELSE @[c]]]
       /\ status' = [c \in Contact |-> IF c \in new THEN [status[c] EXCEPT !["imported"] = FALSE] ELSE status[c]]
       /\ entry' = [c \in Contact |->
            IF c \notin new THEN entry[c]
            ELSE IF entry[c].known
                 THEN [entry[c] EXCEPT !.deleted = FALSE, !.temporary = FALSE]
                 ELSE NewEntry("imported")]
       /\ server' = WithBuddies(new)
    /\ inbox' = Tail(inbox)
    /\ UNCHANGED <<visible, invisible, loggedIn, wanted, self, fetch, outrun, revived, twice, commands>>

-----------------------------------------------------------------------------
\* A document is opened: every entry gets its Contact, and those that are
\* neither pending nor new come into the tree and onto the lists.
Init ==
    /\ entry \in [Contact -> {Unknown}
                    \cup [known : {TRUE}, temporary : {FALSE}, pending : BOOLEAN, deleted : {FALSE},
                          visible : BOOLEAN, invisible : BOOLEAN, shown : {"offline"}, ref : {"own"},
                          undo : {"none"}]]
    /\ \A c \in Contact : ~(entry[c].visible /\ entry[c].invisible)
    /\ LET added == {c \in Contact : entry[c].known /\ ~entry[c].pending} IN
       /\ tree = [g \in Groups |-> [c \in Contact |->
                    IF g = "General" /\ c \in added THEN "own" ELSE "none"]]
       /\ visible = {c \in added : entry[c].visible}
       /\ invisible = {c \in added : entry[c].invisible}
    /\ status = [c \in Contact |-> [r \in Refs |-> FALSE]]
    /\ loggedIn = FALSE /\ wanted \in BOOLEAN
    /\ self = [online |-> FALSE, invisible |-> FALSE]
    /\ fetch = FALSE
    /\ server = NewServer /\ inbox = <<>>
    /\ outrun = FALSE /\ revived = {} /\ twice = {}
    /\ commands = 0

Hears == HearSelf \/ HearStatus \/ HearList

Next ==
    \/ Login \/ Disconnect \/ Import \/ Hears
    \/ \E inv \in BOOLEAN : SetStatus(inv)
    \/ \E c \in Contact :
          \/ AddPermanently(c) \/ AddSearchResult(c) \/ AddAsPending(c) \/ AddTemporarily(c)
          \/ Delete(c) \/ UndoDelete(c)
          \/ Toggle(c)
          \/ \E online \in BOOLEAN : ServerTells(c, online)

Spec == Init /\ [][Next]_vars

-----------------------------------------------------------------------------
(* Properties.                                                             *)

Entry ==
    [known : BOOLEAN, temporary : BOOLEAN, pending : BOOLEAN, deleted : BOOLEAN,
     visible : BOOLEAN, invisible : BOOLEAN,
     shown : {"offline", "online", "pending", "not on list"},
     ref : Refs \cup {"none"}, undo : {"none", "temporary", "pending", "permanent"}]

ServerView == [buddies : SUBSET Contact, visible : SUBSET Contact, invisible : SUBSET Contact, hidden : BOOLEAN]

\* What the server sends
Answer == [type : {"online", "offline"}, contact : Contact] \cup [type : {"self"}, hidden : BOOLEAN] \cup {List}

TypeOK ==
    /\ entry \in [Contact -> Entry]
    /\ \A c \in Contact : entry[c].known => entry[c].ref # "none"
    /\ tree \in [Groups -> [Contact -> Refs \cup {"none"}]]
    /\ status \in [Contact -> [Refs -> BOOLEAN]]
    /\ visible \subseteq Contact /\ invisible \subseteq Contact
    /\ loggedIn \in BOOLEAN /\ wanted \in BOOLEAN /\ fetch \in BOOLEAN
    /\ self \in [online : BOOLEAN, invisible : BOOLEAN]
    /\ server \in ServerView
    /\ inbox \in Seq(Answer)
    /\ outrun \in BOOLEAN /\ revived \subseteq Contact /\ twice \subseteq Contact
    /\ commands \in 0..MaxCommands

\* Nobody is on the visible and on the invisible list.
ListsExclusive == visible \cap invisible = {}

\* The lists of the library are those of the document: for contacts that are
\* kept, and whose entry a search result has not replaced.
ListsAreMarked ==
    \A c \in Contact : entry[c].ref # "found" =>
       /\ c \in visible => entry[c].visible
       /\ c \in invisible => entry[c].invisible
       /\ OnList(c) /\ ~entry[c].temporary /\ ~entry[c].pending =>
             (entry[c].visible => c \in visible) /\ (entry[c].invisible => c \in invisible)

\* Once the server has echoed the last change, it goes by the client's list.
VisibilityIsKnown ==
    loggedIn /\ ~Unheard /\ ~outrun =>
       /\ server.hidden = wanted
       /\ \A c \in Contact : Sees(c) <=> IF wanted THEN c \in visible ELSE c \notin invisible

\* The server watches exactly those who are in the tree.
BuddiesAreInTree ==
    loggedIn => \A c \in Contact : c \notin twice => (c \in server.buddies <=> InTree(c))

\* A deleted contact is out of the tree.
DeletedIsForgotten == \A c \in Contact : entry[c].deleted /\ InTree(c) => c \in twice

\* Who is shown online is online, as far as the server has told.
ShownIsTold ==
    \A c \in Contact : entry[c].shown = "online" =>
       c \in revived \/ (loggedIn /\ InTree(c) /\ status[c][RefOf(c)])

\* The document's entries, the library's lists and tree, and the server agree
\* about each contact.
RosterAgrees ==
    ListsExclusive /\ ListsAreMarked /\ BuddiesAreInTree /\ DeletedIsForgotten /\ ShownIsTold
=============================================================================
