--------------------------- MODULE Contacts_proofs ---------------------------
(***************************************************************************)
(* Proofs about Contacts, for every set of contacts, every list of the     *)
(* server's and every bound.  RosterAgrees is not inductive: a contact may *)
(* come onto a list again with the marks of its entry, so the marks of an  *)
(* entry that a search result has replaced matter as well; a deletion      *)
(* takes a contact out of one group, so who is in two must be in "twice".  *)
(* MarksOK and PlaceOK say that of one contact: an action changes one      *)
(* contact (the list of the server: the new ones), and two lemmas carry    *)
(* the others over.  What the server knows is LinkInv, which needs the     *)
(* types only.                                                             *)
(***************************************************************************)
EXTENDS Contacts, TLAPS

\* What an entry is: one of the document has a Contact, one that is not is
\* on no list, and no entry is marked as visible and as invisible.
Sound(e) ==
    /\ e \in Entry
    /\ e.known => e.ref # "none"
    /\ e.deleted => e.known
    /\ ~e.known => ~e.visible /\ ~e.invisible /\ e.ref = "none"
    /\ ~(e.visible /\ e.invisible)

EntriesOK == entry \in [Contact -> Entry] /\ \A c \in Contact : Sound(entry[c])

\* An entry of the document
Usable(e) == Sound(e) /\ e.known

\* Each group holds a Contact of a UIN, or none.
TreeOK == tree \in [Groups -> [Contact -> Refs \cup {"none"}]]

-----------------------------------------------------------------------------
(* Lemmas about the operators.                                             *)

\* The tree has a Contact of whoever is in it.
LEMMA RefOfType ==
  ASSUME TypeOK, NEW c \in Contact, InTree(c)
  PROVE  GroupOf(c) \in Groups /\ RefOf(c) \in Refs
BY DEF TypeOK, InTree, GroupOf, RefOf, Groups, Refs

\* What a new entry says
LEMMA NewEntryFields ==
  ASSUME NEW r \in Refs
  PROVE  /\ Usable(NewEntry(r)) /\ NewEntry(r).ref = r
         /\ ~NewEntry(r).visible /\ ~NewEntry(r).invisible /\ ~NewEntry(r).deleted
         /\ ~NewEntry(r).pending /\ NewEntry(r).shown = "offline"
BY DEF NewEntry, Entry, Refs, Usable, Sound

\* One entry becomes another one.
LEMMA ChangedEntry ==
  ASSUME EntriesOK, NEW c \in Contact, NEW f, Sound(f), entry' = [entry EXCEPT ![c] = f]
  PROVE  EntriesOK' /\ entry'[c] = f /\ \A d \in Contact \ {c} : entry'[d] = entry[d]
BY DEF EntriesOK, Sound

\* The commands stay within their bound.
LEMMA CommandType == ASSUME TypeOK, Command PROVE commands' \in 0..MaxCommands
BY BoundAssumption DEF TypeOK, Command

\* One more answer of the server
LEMMA HearType ==
  ASSUME inbox \in Seq(Answer), NEW m \in Answer, Hear(<<m>>)
  PROVE  inbox' \in Seq(Answer)
BY DEF Hear

\* What the server may send
LEMMA AnswersType ==
  /\ \A c \in Contact : Online(c) \in Answer /\ Offline(c) \in Answer
  /\ \A h \in BOOLEAN : Echo(h) \in Answer
  /\ List \in Answer
BY DEF Online, Offline, Echo, List, Answer

\* Each of the callbacks changes one field of what the server knows, or none.
LEMMA ServerFields ==
  ASSUME NEW s \in ServerView, NEW cs \in SUBSET Contact
  PROVE  /\ WithVisible(s, cs) \in ServerView /\ WithInvisible(s, cs) \in ServerView
         /\ WithVisible(s, cs).buddies = s.buddies /\ WithInvisible(s, cs).buddies = s.buddies
         /\ WithVisible(s, cs).hidden = s.hidden /\ WithInvisible(s, cs).hidden = s.hidden
         /\ WithVisible(s, cs).invisible = s.invisible /\ WithInvisible(s, cs).visible = s.visible
         /\ WithVisible(s, cs).visible = IF loggedIn /\ self.invisible THEN cs ELSE s.visible
         /\ WithInvisible(s, cs).invisible = IF loggedIn /\ ~self.invisible THEN cs ELSE s.invisible
BY DEF WithVisible, WithInvisible, ServerView

\* contactlist_cb with contacts that are added changes the buddies alone.
LEMMA BuddyFields ==
  ASSUME server \in ServerView, NEW cs \in SUBSET Contact
  PROVE  /\ WithBuddies(cs) \in ServerView
         /\ WithBuddies(cs).buddies = IF loggedIn THEN server.buddies \cup cs ELSE server.buddies
         /\ WithBuddies(cs).visible = server.visible /\ WithBuddies(cs).invisible = server.invisible
         /\ WithBuddies(cs).hidden = server.hidden
BY DEF WithBuddies, ServerView

\* contactlist_cb with a contact that is removed changes the buddies alone.
LEMMA NoBuddyFields ==
  ASSUME server \in ServerView, NEW c \in Contact
  PROVE  /\ WithoutBuddy(c) \in ServerView
         /\ WithoutBuddy(c).buddies = IF loggedIn THEN server.buddies \ {c} ELSE server.buddies
         /\ WithoutBuddy(c).visible = server.visible /\ WithoutBuddy(c).invisible = server.invisible
         /\ WithoutBuddy(c).hidden = server.hidden
BY DEF WithoutBuddy, ServerView

\* The lists that a Contact comes onto, and what the server hears of it.
LEMMA ListedFields ==
  ASSUME TypeOK, NEW c \in Contact, NEW e, Listed(c, e)
  PROVE  /\ visible' = (IF e.visible THEN visible \cup {c} ELSE visible)
         /\ invisible' = (IF ~e.visible /\ e.invisible THEN invisible \cup {c} ELSE invisible)
         /\ server' \in ServerView
         /\ server'.hidden = server.hidden
         /\ server'.buddies = IF loggedIn THEN server.buddies \cup {c} ELSE server.buddies
         /\ server'.visible = (IF e.visible /\ loggedIn /\ self.invisible
                               THEN server.visible \cup {c} ELSE server.visible)
         /\ server'.invisible = (IF ~e.visible /\ e.invisible /\ loggedIn /\ ~self.invisible
                                 THEN server.invisible \cup {c} ELSE server.invisible)
<1> DEFINE vs == IF e.visible THEN server.visible \cup {c} ELSE server.visible
           is == IF ~e.visible /\ e.invisible THEN server.invisible \cup {c} ELSE server.invisible
           s == WithBuddies({c})
<1>1. server \in ServerView /\ {c} \in SUBSET Contact /\ vs \in SUBSET Contact /\ is \in SUBSET Contact
  BY DEF TypeOK, ServerView
<1> DEFINE t == WithVisible(s, vs)
<1>2. server' = WithInvisible(t, is)
  BY DEF Listed
<1>3. /\ s \in ServerView /\ s.hidden = server.hidden
      /\ s.buddies = IF loggedIn THEN server.buddies \cup {c} ELSE server.buddies
      /\ s.visible = server.visible /\ s.invisible = server.invisible
  BY <1>1, BuddyFields
<1> HIDE DEF s
<1>4. /\ t \in ServerView /\ t.hidden = s.hidden /\ t.buddies = s.buddies /\ t.invisible = s.invisible
      /\ t.visible = IF loggedIn /\ self.invisible THEN vs ELSE s.visible
  <2> HIDE DEF vs
  <2> QED BY <1>1, <1>3, ServerFields
<1> HIDE DEF t
<1>5. /\ server' \in ServerView /\ server'.hidden = t.hidden /\ server'.buddies = t.buddies
      /\ server'.visible = t.visible
      /\ server'.invisible = IF loggedIn /\ ~self.invisible THEN is ELSE t.invisible
  <2> HIDE DEF is
  <2> QED BY <1>1, <1>2, <1>4, ServerFields
<1>6. visible' = (IF e.visible THEN visible \cup {c} ELSE visible)
      /\ invisible' = (IF ~e.visible /\ e.invisible THEN invisible \cup {c} ELSE invisible)
  BY DEF Listed
<1> QED
  BY <1>3, <1>4, <1>5, <1>6

\* What adding the Contact of an entry changes: the entry itself, and where the
\* tree has nobody, the tree
LEMMA AddContactFields ==
  ASSUME TypeOK, EntriesOK, NEW c \in Contact, NEW e, Usable(e), UNCHANGED status, AddContact(c, e)
  PROVE  /\ EntriesOK' /\ TreeOK'
         /\ entry'[c] = [e EXCEPT !.shown = IF status[c][e.ref] THEN "online" ELSE @]
         /\ \A d \in Contact \ {c} : entry'[d] = entry[d]
         /\ tree'["General"][c] = IF tree["General"][c] = "none" THEN e.ref ELSE tree["General"][c]
         /\ tree'["Imported"][c] = tree["Imported"][c]
         /\ \A d \in Contact \ {c}, g \in Groups : tree'[g][d] = tree[g][d]
         /\ revived' = IF status[c][e.ref] THEN revived \cup {c} ELSE revived \ {c}
         /\ twice' = IF tree["Imported"][c] # "none" THEN twice \cup {c} ELSE twice
         /\ outrun' \in BOOLEAN
<1> DEFINE f == [e EXCEPT !.shown = IF status[c][e.ref] THEN "online" ELSE @]
<1>1. Usable(f)
  BY DEF Usable, Sound, Entry
<1>2. entry' = [entry EXCEPT ![c] = f]
  BY DEF AddContact
<1>3. EntriesOK' /\ entry'[c] = f /\ \A d \in Contact \ {c} : entry'[d] = entry[d]
  <2> HIDE DEF f
  <2> QED BY <1>1, <1>2, ChangedEntry DEF Usable
<1>4. /\ TreeOK'
      /\ tree'["General"][c] = IF tree["General"][c] = "none" THEN e.ref ELSE tree["General"][c]
      /\ tree'["Imported"][c] = tree["Imported"][c]
      /\ \A d \in Contact \ {c}, g \in Groups : tree'[g][d] = tree[g][d]
  <2>1. e.ref \in Refs
    BY DEF Usable, Sound, Entry
  <2>2. tree \in [Groups -> [Contact -> Refs \cup {"none"}]] /\ tree' = AddTo("General", c, e.ref)
    BY DEF TypeOK, AddContact
  <2> QED
    BY <2>1, <2>2 DEF TreeOK, AddTo, Groups
<1>5. /\ revived' = IF status[c][e.ref] THEN revived \cup {c} ELSE revived \ {c}
      /\ twice' = IF tree["Imported"][c] # "none" THEN twice \cup {c} ELSE twice
  BY DEF AddContact
<1>6. outrun' \in BOOLEAN
  <2>1. outrun' = (outrun \/ (Unheard /\ (e.visible \/ e.invisible)))
    BY DEF AddContact
  <2> QED BY <2>1, Zenon
<1> QED BY <1>3, <1>4, <1>5, <1>6

\* An entry that is kept for good
Kept(e) == [e EXCEPT !.temporary = FALSE, !.pending = FALSE, !.deleted = FALSE, !.shown = "offline"]

\* addContactPermanently leaves the marks and the Contact of the entry.
LEMMA KeptFields ==
  ASSUME NEW e, Usable(e)
  PROVE  /\ Usable(Kept(e)) /\ ~Kept(e).pending /\ ~Kept(e).deleted /\ Kept(e).shown = "offline"
         /\ Kept(e).visible = e.visible /\ Kept(e).invisible = e.invisible /\ Kept(e).ref = e.ref
BY DEF Usable, Sound, Entry, Kept

-----------------------------------------------------------------------------
(* Types.                                                                  *)

\* The types, and what an entry is
TypeInv == TypeOK /\ EntriesOK

\* A document that is opened has entries, a tree and lists.
LEMMA InitType == Init => TypeInv
<1> SUFFICES ASSUME Init PROVE TypeInv
  OBVIOUS
<1>1. Sound(Unknown)
  BY DEF Sound, Entry, Unknown, NewEntry, Refs
<1>2. \A c \in Contact : Sound(entry[c])
  BY <1>1 DEF Init, Sound, Entry, Refs
<1>3. EntriesOK
  BY <1>2 DEF EntriesOK, Init, Sound
<1>4. tree \in [Groups -> [Contact -> Refs \cup {"none"}]]
  BY DEF Init, Groups, Refs
<1>5. visible \subseteq Contact /\ invisible \subseteq Contact
  BY DEF Init
<1>6. server \in ServerView
  BY DEF Init, NewServer, ServerView
<1>7. inbox \in Seq(Answer)
  BY DEF Init
<1>8. commands \in 0..MaxCommands
  BY BoundAssumption DEF Init
<1>9. /\ entry \in [Contact -> Entry]
      /\ \A c \in Contact : entry[c].known => entry[c].ref # "none"
  BY <1>3 DEF EntriesOK, Sound
<1> QED
  BY <1>3, <1>4, <1>5, <1>6, <1>7, <1>8, <1>9 DEF TypeOK, TypeInv, Init

\* The types of the variables, one by one
LEMMA FromParts ==
  ASSUME EntriesOK', TreeOK', status' \in [Contact -> [Refs -> BOOLEAN]],
         visible' \subseteq Contact, invisible' \subseteq Contact,
         loggedIn' \in BOOLEAN, wanted' \in BOOLEAN, fetch' \in BOOLEAN,
         self' \in [online : BOOLEAN, invisible : BOOLEAN], server' \in ServerView,
         inbox' \in Seq(Answer), outrun' \in BOOLEAN, revived' \subseteq Contact,
         twice' \subseteq Contact, commands' \in 0..MaxCommands
  PROVE  TypeInv'
<1>1. /\ entry' \in [Contact -> Entry]
      /\ \A c \in Contact : entry'[c].known => entry'[c].ref # "none"
  BY DEF EntriesOK, Sound
<1> QED BY <1>1 DEF TypeInv, TypeOK, TreeOK

\* An entry is kept for good.
LEMMA PermanentType ==
  ASSUME TypeInv, NEW c \in Contact, NEW e, Usable(e), Command, UNCHANGED status,
         Permanent(c, e), UNCHANGED <<loggedIn, wanted, self, fetch, inbox>>
  PROVE  TypeInv'
<1>1. Usable(Kept(e))
  BY KeptFields
<1>2. AddContact(c, Kept(e))
  BY DEF Permanent, Kept
<1>3. commands' \in 0..MaxCommands
  BY CommandType DEF TypeInv
<1>4. /\ EntriesOK' /\ TreeOK' /\ outrun' \in BOOLEAN
      /\ revived' \subseteq Contact /\ twice' \subseteq Contact
  <2>1. TypeOK /\ EntriesOK
    BY DEF TypeInv
  <2>2. /\ EntriesOK' /\ TreeOK' /\ outrun' \in BOOLEAN
        /\ revived' \in {revived \cup {c}, revived \ {c}} /\ twice' \in {twice \cup {c}, twice}
    BY <1>1, <1>2, <2>1, AddContactFields
  <2> QED BY <2>2 DEF TypeInv, TypeOK
<1>5. visible' \subseteq Contact /\ invisible' \subseteq Contact /\ server' \in ServerView
  <2>1. Listed(c, Kept(e))
    BY <1>2 DEF AddContact
  <2> QED BY <2>1, ListedFields DEF TypeInv, TypeOK
<1> QED
  BY <1>3, <1>4, <1>5, FromParts DEF TypeInv, TypeOK


\* What deleting a contact takes out of the tree
LEMMA RemovedFields ==
  ASSUME TypeOK, NEW c \in Contact, tree' = RemovedFromTree(c)
  PROVE  /\ TreeOK'
         /\ tree'["General"][c] = "none"
         /\ tree'["Imported"][c] = IF tree["General"][c] # "none" THEN tree["Imported"][c] ELSE "none"
         /\ \A d \in Contact \ {c}, g \in Groups : tree'[g][d] = tree[g][d]
BY DEF TypeOK, TreeOK, RemovedFromTree, InTree, GroupOf, Groups

\* An entry with other marks is one.
LEMMA MarkedEntry ==
  ASSUME NEW e, Usable(e), NEW v \in BOOLEAN, NEW i \in BOOLEAN, ~(v /\ i)
  PROVE  LET f == [e EXCEPT !.visible = v, !.invisible = i] IN
         Usable(f) /\ f.visible = v /\ f.invisible = i /\ f.known = e.known /\ f.temporary = e.temporary
         /\ f.pending = e.pending /\ f.deleted = e.deleted /\ f.ref = e.ref /\ f.shown = e.shown
BY DEF Usable, Sound, Entry

\* What a toggle comes to: the marks of the entry, the library's lists and the
\* server's view of them.
Toggled(c, v, i) ==
    /\ entry' = [entry EXCEPT ![c] = [entry[c] EXCEPT !.visible = v, !.invisible = i]]
    /\ visible' = (IF v THEN visible \cup {c} ELSE IF entry[c].visible \/ i THEN visible \ {c} ELSE visible)
    /\ invisible' = (IF i THEN invisible \cup {c} ELSE IF entry[c].invisible \/ v THEN invisible \ {c} ELSE invisible)

\* Each of the menu items is one of these.
LEMMA ToggleFields ==
  ASSUME TypeInv, NEW c \in Contact, Toggle(c)
  PROVE  \E v, i \in BOOLEAN : ~(v /\ i) /\ Toggled(c, v, i)
<1>0. entry \in [Contact -> Entry] /\ entry[c] \in Entry /\ ~(entry[c].visible /\ entry[c].invisible)
      /\ entry[c].visible \in BOOLEAN /\ entry[c].invisible \in BOOLEAN
  BY DEF TypeInv, EntriesOK, Sound, Entry
<1>1. CASE ~entry[c].visible /\ PutOnVisible(c)
  <2>1. Toggled(c, TRUE, FALSE)
    BY <1>0, <1>1 DEF PutOnVisible, Toggled, Entry
  <2> QED BY <2>1
<1>2. CASE ~entry[c].invisible /\ PutOnInvisible(c)
  <2>1. Toggled(c, FALSE, TRUE)
    BY <1>0, <1>2 DEF PutOnInvisible, Toggled, Entry
  <2> QED BY <2>1
<1>3. CASE entry[c].visible /\ TakeOffVisible(c)
  <2>1. Toggled(c, FALSE, FALSE)
    BY <1>0, <1>3 DEF TakeOffVisible, Toggled, Entry
  <2> QED BY <2>1
<1>4. CASE entry[c].invisible /\ TakeOffInvisible(c)
  <2>1. Toggled(c, FALSE, FALSE)
    BY <1>0, <1>4 DEF TakeOffInvisible, Toggled, Entry
  <2> QED BY <2>1
<1> QED BY <1>1, <1>2, <1>3, <1>4 DEF Toggle

\* The server's view stays one.
LEMMA ToggleServer ==
  ASSUME TypeOK, NEW c \in Contact, Toggle(c)
  PROVE  /\ server' \in ServerView
         /\ server'.buddies = server.buddies /\ server'.hidden = server.hidden
<1> DEFINE sv == server.visible
           si == server.invisible
<1>0. /\ server \in ServerView
      /\ {sv \ {c}, sv \cup {c}, sv, si \ {c}, si \cup {c}, si} \subseteq SUBSET Contact
  BY DEF TypeOK, ServerView
<1>1. PICK vs \in SUBSET Contact, is \in SUBSET Contact :
         server' \in {WithVisible(WithInvisible(server, is), vs), WithInvisible(WithVisible(server, vs), is),
                      WithVisible(server, vs), WithInvisible(server, is)}
  <2>1. CASE PutOnVisible(c)
    <3>1. server' = WithVisible(WithInvisible(server, si \ {c}), IF c \in visible THEN sv ELSE sv \cup {c})
      BY <2>1 DEF PutOnVisible
    <3> QED BY <3>1, <1>0
  <2>2. CASE PutOnInvisible(c)
    <3>1. server' = WithInvisible(WithVisible(server, sv \ {c}), IF c \in invisible THEN si ELSE si \cup {c})
      BY <2>2 DEF PutOnInvisible
    <3> QED BY <3>1, <1>0
  <2>3. CASE TakeOffVisible(c)
    <3>1. server' = WithVisible(server, sv \ {c})
      BY <2>3 DEF TakeOffVisible
    <3> QED BY <3>1, <1>0
  <2>4. CASE TakeOffInvisible(c)
    <3>1. server' = WithInvisible(server, si \ {c})
      BY <2>4 DEF TakeOffInvisible
    <3> QED BY <3>1, <1>0
  <2> QED BY <2>1, <2>2, <2>3, <2>4 DEF Toggle
<1>2. /\ WithVisible(server, vs) \in ServerView
      /\ WithVisible(server, vs).buddies = server.buddies
      /\ WithVisible(server, vs).hidden = server.hidden
      /\ WithInvisible(server, is) \in ServerView
      /\ WithInvisible(server, is).buddies = server.buddies
      /\ WithInvisible(server, is).hidden = server.hidden
  BY <1>0, ServerFields
<1>3. /\ WithVisible(WithInvisible(server, is), vs) \in ServerView
      /\ WithVisible(WithInvisible(server, is), vs).buddies = server.buddies
      /\ WithVisible(WithInvisible(server, is), vs).hidden = server.hidden
  BY <1>2, ServerFields
<1>4. /\ WithInvisible(WithVisible(server, vs), is) \in ServerView
      /\ WithInvisible(WithVisible(server, vs), is).buddies = server.buddies
      /\ WithInvisible(WithVisible(server, vs), is).hidden = server.hidden
  BY <1>2, ServerFields
<1> QED BY <1>1, <1>2, <1>3, <1>4

\* Who of the server's list is new
New == {c \in OnServer : ~InTree(c)}

\* What the server's list brings: every new contact an entry that is not deleted
\* and a place in the group of the list, and nobody else anything.
LEMMA HearListFields ==
  ASSUME TypeInv, HearList
  PROVE  /\ EntriesOK' /\ TreeOK' /\ status' \in [Contact -> [Refs -> BOOLEAN]]
         /\ server' \in ServerView
         /\ server'.buddies = IF loggedIn THEN server.buddies \cup New ELSE server.buddies
         /\ server'.visible = server.visible /\ server'.invisible = server.invisible
         /\ server'.hidden = server.hidden
         /\ \A c \in Contact \ New : /\ entry'[c] = entry[c] /\ status'[c] = status[c]
                                    /\ tree'["Imported"][c] = tree["Imported"][c]
         /\ \A c \in New : /\ tree'["Imported"][c] = "imported"
                           /\ entry'[c] = IF entry[c].known
                                          THEN [entry[c] EXCEPT !.deleted = FALSE, !.temporary = FALSE]
                                          ELSE NewEntry("imported")
         /\ \A c \in Contact : tree'["General"][c] = tree["General"][c]
<1>0. New \in SUBSET Contact
  BY OnServerAssumption DEF New
<1>1. /\ server' \in ServerView
      /\ server'.buddies = IF loggedIn THEN server.buddies \cup New ELSE server.buddies
      /\ server'.visible = server.visible /\ server'.invisible = server.invisible
      /\ server'.hidden = server.hidden
  <2>1. server \in ServerView /\ server' = WithBuddies(New)
    BY DEF TypeInv, TypeOK, HearList, New
  <2> QED BY <1>0, <2>1, BuddyFields
<1>2. /\ TreeOK'
      /\ \A c \in Contact \ New : tree'["Imported"][c] = tree["Imported"][c]
      /\ \A c \in New : tree'["Imported"][c] = "imported"
      /\ \A c \in Contact : tree'["General"][c] = tree["General"][c]
  <2>1. tree \in [Groups -> [Contact -> Refs \cup {"none"}]]
        /\ tree' = [tree EXCEPT !["Imported"] = [c \in Contact |-> IF c \in New THEN "imported" ELSE @[c]]]
    BY DEF TypeInv, TypeOK, HearList, New
  <2> QED BY <1>0, <2>1 DEF TreeOK, Groups, Refs
<1>3. /\ status' \in [Contact -> [Refs -> BOOLEAN]]
      /\ \A c \in Contact \ New : status'[c] = status[c]
  <2>1. status \in [Contact -> [Refs -> BOOLEAN]]
        /\ status' = [c \in Contact |-> IF c \in New THEN [status[c] EXCEPT !["imported"] = FALSE] ELSE status[c]]
    BY DEF TypeInv, TypeOK, HearList, New
  <2> QED BY <2>1 DEF Refs
<1>4. entry' = [c \in Contact |->
            IF c \notin New THEN entry[c]
            ELSE IF entry[c].known
                 THEN [entry[c] EXCEPT !.deleted = FALSE, !.temporary = FALSE]
                 ELSE NewEntry("imported")]
  BY DEF HearList, New
<1>5. EntriesOK'
  <2>1. \A e \in Entry : Sound(e) /\ e.known => Sound([e EXCEPT !.deleted = FALSE, !.temporary = FALSE])
    BY DEF Sound, Entry
  <2>2. Sound(NewEntry("imported"))
    BY NewEntryFields DEF Usable, Refs
  <2>3. \A c \in Contact : Sound(entry[c]) /\ entry[c] \in Entry
    BY DEF TypeInv, EntriesOK, Sound
  <2>4. \A c \in Contact : Sound(entry'[c])
    BY <1>4, <2>1, <2>2, <2>3
  <2>5. \A c \in Contact : entry'[c] \in Entry
    BY <2>4 DEF Sound
  <2> QED BY <1>4, <2>4, <2>5 DEF EntriesOK
<1> QED
  BY <1>0, <1>1, <1>2, <1>3, <1>4, <1>5

\* What else happens to an entry
LEMMA OtherEntries ==
  ASSUME NEW e, Usable(e)
  PROVE  /\ Usable([e EXCEPT !.temporary = FALSE, !.pending = TRUE, !.shown = "pending"])
         /\ Usable([e EXCEPT !.undo = "none"])
         /\ Usable([e EXCEPT !.deleted = FALSE])
         /\ Usable([e EXCEPT !.deleted = FALSE, !.temporary = FALSE, !.pending = TRUE, !.shown = "pending"])
         /\ \A u \in {"temporary", "pending", "permanent"} :
               Usable([e EXCEPT !.deleted = TRUE, !.temporary = TRUE, !.shown = "not on list", !.undo = u])
BY DEF Usable, Sound, Entry

\* What addContactAsPendingAuthorization: does to the entry
LEMMA PendingFields ==
  ASSUME TypeInv, NEW c \in Contact, AddAsPending(c)
  PROVE  /\ EntriesOK'
         /\ entry'[c].visible = entry[c].visible /\ entry'[c].invisible = entry[c].invisible
         /\ entry'[c].ref = entry[c].ref /\ entry'[c].pending /\ entry'[c].deleted = entry[c].deleted
         /\ entry'[c].shown = "pending"
         /\ \A d \in Contact \ {c} : entry'[d] = entry[d]
<1> DEFINE f == [entry[c] EXCEPT !.temporary = FALSE, !.pending = TRUE, !.shown = "pending"]
<1>1. Usable(entry[c]) /\ EntriesOK
  BY DEF AddAsPending, OnList, TypeInv, EntriesOK, Usable
<1>2. Usable(f)
  BY <1>1, OtherEntries
<1>3. entry' = [entry EXCEPT ![c] = f]
  BY <1>1 DEF AddAsPending, EntriesOK
<1> HIDE DEF f
<1>4. EntriesOK' /\ entry'[c] = f /\ \A d \in Contact \ {c} : entry'[d] = entry[d]
  BY <1>1, <1>2, <1>3, ChangedEntry DEF Usable
<1>5. /\ f.visible = entry[c].visible /\ f.invisible = entry[c].invisible
      /\ f.ref = entry[c].ref /\ f.pending /\ f.deleted = entry[c].deleted
      /\ f.shown = "pending"
  BY <1>1 DEF f, Usable, Sound, Entry
<1> QED BY <1>4, <1>5

\* What addContactTemporarily: does to the entry
LEMMA TemporaryFields ==
  ASSUME TypeInv, NEW c \in Contact, AddTemporarily(c)
  PROVE  /\ EntriesOK' /\ OwnContact(c) \in Refs
         /\ entry'[c].visible = entry[c].visible /\ entry'[c].invisible = entry[c].invisible
         /\ entry'[c].ref = OwnContact(c) /\ entry'[c].pending = entry[c].pending /\ ~entry'[c].deleted
         /\ entry'[c].shown = "not on list"
         /\ \A d \in Contact \ {c} : entry'[d] = entry[d]
<1> DEFINE f == [entry[c] EXCEPT !.known = TRUE, !.temporary = TRUE, !.deleted = FALSE,
                                 !.shown = "not on list", !.ref = OwnContact(c)]
<1>0. EntriesOK /\ Sound(entry[c])
  BY DEF TypeInv, EntriesOK
<1>1. OwnContact(c) \in Refs
  BY <1>0, RefOfType DEF TypeInv, Sound, OwnContact, Entry, Refs
<1>2. Sound(f)
  BY <1>0, <1>1 DEF Sound, Entry, Refs
<1>3. entry' = [entry EXCEPT ![c] = f]
  BY <1>0 DEF AddTemporarily, EntriesOK
<1> HIDE DEF f
<1>4. EntriesOK' /\ entry'[c] = f /\ \A d \in Contact \ {c} : entry'[d] = entry[d]
  BY <1>0, <1>2, <1>3, ChangedEntry
<1>5. /\ f.visible = entry[c].visible /\ f.invisible = entry[c].invisible
      /\ f.ref = OwnContact(c) /\ f.pending = entry[c].pending /\ ~f.deleted
      /\ f.shown = "not on list"
  BY <1>0 DEF f, Sound, Entry
<1> QED BY <1>1, <1>4, <1>5

\* What deleteContact: does to the entry
LEMMA DeleteFields ==
  ASSUME TypeInv, NEW c \in Contact, Delete(c)
  PROVE  /\ EntriesOK'
         /\ entry'[c].visible = entry[c].visible /\ entry'[c].invisible = entry[c].invisible
         /\ entry'[c].ref = entry[c].ref /\ entry'[c].pending = entry[c].pending
         /\ entry'[c].shown = "not on list"
         /\ \A d \in Contact \ {c} : entry'[d] = entry[d]
<1>1. Usable(entry[c]) /\ EntriesOK
  BY DEF Delete, OnList, TypeInv, EntriesOK, Usable
<1>0. PICK u \in {"temporary", "pending", "permanent"} :
        entry' = [entry EXCEPT ![c].deleted = TRUE, ![c].temporary = TRUE, ![c].shown = "not on list", ![c].undo = u]
  BY DEF Delete
<1> DEFINE f == [entry[c] EXCEPT !.deleted = TRUE, !.temporary = TRUE, !.shown = "not on list", !.undo = u]
<1>2. Usable(f)
  BY <1>1, OtherEntries
<1>3. entry' = [entry EXCEPT ![c] = f]
  BY <1>0, <1>1 DEF EntriesOK
<1>4. EntriesOK' /\ entry'[c] = f /\ \A d \in Contact \ {c} : entry'[d] = entry[d]
  <2> HIDE DEF f
  <2> QED BY <1>1, <1>2, <1>3, ChangedEntry DEF Usable
<1>5. /\ f.visible = entry[c].visible /\ f.invisible = entry[c].invisible
      /\ f.ref = entry[c].ref /\ f.pending = entry[c].pending /\ f.shown = "not on list"
  BY <1>1 DEF Usable, Sound, Entry
<1> QED BY <1>4, <1>5

\* What undoing starts from
LEMMA UndoneFields ==
  ASSUME TypeInv, NEW c \in Contact, entry[c].deleted
  PROVE  LET e == [entry[c] EXCEPT !.undo = "none"] IN
         /\ Usable(e) /\ e.visible = entry[c].visible /\ e.invisible = entry[c].invisible
         /\ e.ref = entry[c].ref /\ e.pending = entry[c].pending /\ e.shown = entry[c].shown
<1>1. Usable(entry[c])
  BY DEF TypeInv, EntriesOK, Usable, Sound
<1> QED BY <1>1 DEF Usable, Sound, Entry

\* The place of the others when one is deleted
LEMMA DeleteOthers ==
  ASSUME TypeInv, NEW c \in Contact, Delete(c), NEW d \in Contact \ {c}
  PROVE  /\ \A g \in Groups : tree'[g][d] = tree[g][d]
         /\ d \in server'.buddies <=> d \in server.buddies
<1>1. tree' = RemovedFromTree(c) /\ TypeOK
  BY DEF Delete, TypeInv
<1>2. server' = IF InTree(c) THEN WithoutBuddy(c) ELSE server
  BY DEF Delete
<1>3. d \in server'.buddies <=> d \in server.buddies
  BY <1>1, <1>2, NoBuddyFields DEF TypeOK
<1>4. \A g \in Groups : tree'[g][d] = tree[g][d]
  BY <1>1, RemovedFields
<1> QED BY <1>3, <1>4

\* Every step keeps the types.
LEMMA NextType == ASSUME TypeInv, [Next]_vars PROVE TypeInv'
<1> USE DEF TypeInv
<1>1. CASE Login
  <2>1. server' \in ServerView
    BY <1>1 DEF TypeOK, Login, ServerView
  <2>2. inbox' \in Seq(Answer)
    BY <1>1, AnswersType DEF TypeOK, Login
  <2> QED BY <1>1, <2>1, <2>2 DEF TypeOK, Login, EntriesOK
<1>2. CASE Disconnect
  <2> PICK cs \in SUBSET Contact :
         ShowOffline(cs)
    BY <1>2 DEF Disconnect
  <2>1. EntriesOK'
    <3>1. \A e \in Entry : Sound(e) => Sound([e EXCEPT !.shown = "offline"])
      BY DEF Sound, Entry
    <3>2. \A c \in Contact : Sound(IF c \in cs THEN [entry[c] EXCEPT !.shown = "offline"] ELSE entry[c])
      BY <3>1 DEF EntriesOK
    <3>3. \A c \in Contact : Sound(entry'[c])
      BY <3>2 DEF ShowOffline
    <3> QED BY <3>3 DEF EntriesOK, ShowOffline, Sound
  <2>2. status' \in [Contact -> [Refs -> BOOLEAN]]
    BY <1>2 DEF TypeOK, Disconnect
  <2>3. revived' \subseteq Contact
    BY DEF TypeOK, ShowOffline
  <2>4. server' \in ServerView /\ inbox' \in Seq(Answer)
    BY <1>2 DEF Disconnect, NewServer, ServerView
  <2>5. TreeOK' /\ UNCHANGED <<visible, invisible, wanted, fetch, outrun, twice, commands>>
        /\ self' \in [online : BOOLEAN, invisible : BOOLEAN] /\ loggedIn' = FALSE
    BY <1>2 DEF TypeOK, TreeOK, Disconnect
  <2> QED BY <2>1, <2>2, <2>3, <2>4, <2>5, FromParts DEF TypeOK
<1>3. CASE Import
  <2>1. inbox' \in Seq(Answer)
    BY <1>3, AnswersType, HearType DEF TypeOK, Import
  <2> QED BY <1>3, <2>1, CommandType DEF TypeOK, Import, docVars, EntriesOK
<1>4. ASSUME Hears PROVE TypeInv'
  <2>0. inbox # <<>> /\ inbox' = Tail(inbox) /\ inbox \in Seq(Answer) /\ commands' = commands
    BY <1>4 DEF TypeOK, Hears, HearSelf, HearStatus, HearList
  <2> /\ Next1 \in Answer /\ inbox' \in Seq(Answer)
    BY <2>0 DEF Next1
  <2>1. CASE HearSelf
    <3>1. self' \in [online : BOOLEAN, invisible : BOOLEAN]
      BY <2>1 DEF HearSelf, Answer, List
    <3> QED BY <2>1, <3>1 DEF TypeOK, HearSelf, docVars, EntriesOK
  <2>2. CASE HearStatus
    <3>1. Next1.contact \in Contact /\ Next1.type \in {"online", "offline"}
      BY <2>2 DEF HearStatus, Answer, List
    <3>2. CASE UNCHANGED <<status, entry, revived>>
      BY <2>2, <3>2 DEF TypeOK, HearStatus, EntriesOK
    <3>3. CASE ~UNCHANGED <<status, entry, revived>>
      <4> DEFINE c == Next1.contact
      <4>1. /\ InTree(c)
            /\ status[c][RefOf(c)] # (Next1.type = "online")
            /\ status' = [status EXCEPT ![c][RefOf(c)] = (Next1.type = "online")]
            /\ entry' = [entry EXCEPT ![c].shown = Next1.type]
            /\ revived' = revived \ {c}
        BY <2>2, <3>3 DEF HearStatus
      <4>2. status' \in [Contact -> [Refs -> BOOLEAN]]
        BY <4>1, <3>1, RefOfType DEF TypeOK
      <4>3. EntriesOK'
        <5> DEFINE f == [entry[c] EXCEPT !.shown = Next1.type]
        <5>0. c \in Contact /\ EntriesOK
          BY <3>1
        <5>1. Sound(f)
          BY <3>1, <5>0 DEF EntriesOK, Sound, Entry
        <5>2. entry' = [entry EXCEPT ![c] = f]
          BY <4>1, <5>0 DEF EntriesOK
        <5> HIDE DEF f, c
        <5> QED BY <5>0, <5>1, <5>2, ChangedEntry
      <4>4. revived' \subseteq Contact
        BY <4>1 DEF TypeOK
      <4>5. TreeOK' /\ UNCHANGED <<visible, invisible, loggedIn, wanted, self, fetch, server, outrun, twice>>
        BY <2>2 DEF TypeOK, TreeOK, HearStatus
      <4> QED BY <2>0, <4>2, <4>3, <4>4, <4>5, FromParts DEF TypeOK
    <3> QED BY <3>2, <3>3
  <2>3. CASE HearList
    BY <2>0, <2>3, HearListFields, FromParts DEF TypeOK, HearList
  <2> QED BY <1>4, <2>1, <2>2, <2>3 DEF Hears
<1>5. ASSUME NEW inv \in BOOLEAN, SetStatus(inv) PROVE TypeInv'
  <2>1. CASE loggedIn
    <3>1. inbox' \in Seq(Answer)
      BY <1>5, <2>1, AnswersType, HearType DEF TypeOK, SetStatus
    <3>2. server' \in ServerView
      BY <1>5, <2>1 DEF TypeOK, SetStatus, ServerView
    <3>3. outrun' \in BOOLEAN
      <4>1. outrun' = (outrun \/ Unheard)
        BY <1>5, <2>1 DEF SetStatus
      <4> QED BY <4>1, Zenon
    <3> QED BY <1>5, <3>1, <3>2, <3>3, CommandType DEF TypeOK, SetStatus, docVars, EntriesOK
  <2>2. CASE ~loggedIn
    BY <1>5, <2>2, CommandType DEF TypeOK, SetStatus, docVars, EntriesOK
  <2> QED BY <2>1, <2>2
<1>12. ASSUME NEW c \in Contact, Toggle(c) PROVE TypeInv'
  <2>0. PICK v \in BOOLEAN, i \in BOOLEAN : ~(v /\ i) /\ Toggled(c, v, i)
    BY <1>12, ToggleFields
  <2>1. EntriesOK'
    <3> DEFINE f == [entry[c] EXCEPT !.visible = v, !.invisible = i]
    <3>1. Usable(entry[c])
      BY <1>12 DEF Toggle, OnList, EntriesOK, Usable
    <3>2. Sound(f)
      BY <3>1, <2>0, MarkedEntry DEF Usable
    <3>3. entry' = [entry EXCEPT ![c] = f]
      BY <2>0 DEF Toggled
    <3> HIDE DEF f
    <3> QED BY <3>2, <3>3, ChangedEntry
  <2>2. visible' \subseteq Contact /\ invisible' \subseteq Contact
    BY <2>0 DEF TypeOK, Toggled
  <2>4. outrun' \in BOOLEAN
    <3>1. outrun' = (outrun \/ Unheard)
      BY <1>12 DEF Toggle
    <3> QED BY <3>1, Zenon
  <2>5. TreeOK' /\ UNCHANGED <<status, loggedIn, wanted, self, fetch, inbox, revived, twice>> /\ Command
    BY <1>12 DEF TypeOK, TreeOK, Toggle
  <2> QED BY <1>12, <2>1, <2>2, ToggleServer, <2>4, <2>5, FromParts, CommandType DEF TypeOK
<1>13. ASSUME NEW c \in Contact, NEW online \in BOOLEAN, ServerTells(c, online) PROVE TypeInv'
  <2>1. inbox' \in Seq(Answer)
    BY <1>13, AnswersType, HearType DEF TypeOK, ServerTells
  <2> QED BY <1>13, <2>1, CommandType DEF TypeOK, ServerTells, docVars, libVars, EntriesOK
<1>14. CASE UNCHANGED vars
  BY <1>14 DEF TypeOK, EntriesOK, vars
<1>6. ASSUME NEW c \in Contact, AddPermanently(c) PROVE TypeInv'
  <2>1. Usable(entry[c])
    BY <1>6 DEF AddPermanently, OnList, EntriesOK, Usable
  <2> QED BY <1>6, <2>1, PermanentType DEF AddPermanently
<1>7. ASSUME NEW c \in Contact, AddSearchResult(c) PROVE TypeInv'
  <2>1. Usable(NewEntry("found"))
    BY NewEntryFields DEF Refs
  <2> QED BY <1>7, <2>1, PermanentType DEF AddSearchResult
<1>8. ASSUME NEW c \in Contact, AddAsPending(c) PROVE TypeInv'
  <2>1. TreeOK' /\ revived' \subseteq Contact /\ UNCHANGED <<libVars, server, inbox, outrun, twice>> /\ Command
    BY <1>8 DEF TypeOK, TreeOK, AddAsPending, libVars
  <2> QED BY <1>8, <2>1, PendingFields, CommandType, FromParts DEF TypeOK, libVars
<1>9. ASSUME NEW c \in Contact, AddTemporarily(c) PROVE TypeInv'
  <2>1. TreeOK' /\ UNCHANGED <<libVars, server, inbox, outrun, revived, twice>> /\ Command
    BY <1>9 DEF TypeOK, TreeOK, AddTemporarily, libVars
  <2> QED BY <1>9, <2>1, TemporaryFields, CommandType, FromParts DEF TypeOK, libVars
<1>10. ASSUME NEW c \in Contact, Delete(c) PROVE TypeInv'
  <2>1. TreeOK'
    BY <1>10, RemovedFields DEF Delete
  <2>2. server' \in ServerView
    BY <1>10, NoBuddyFields DEF TypeOK, Delete
  <2>3. /\ revived' \subseteq Contact /\ Command
        /\ UNCHANGED <<status, visible, invisible, loggedIn, wanted, self, fetch, inbox, outrun, twice>>
    BY <1>10 DEF TypeOK, Delete
  <2> QED BY <1>10, <2>1, <2>2, <2>3, DeleteFields, CommandType, FromParts DEF TypeOK
<1>11. ASSUME NEW c \in Contact, UndoDelete(c) PROVE TypeInv'
  <2> DEFINE e == [entry[c] EXCEPT !.undo = "none"]
  <2>1. Usable(e) /\ Command
    <3>1. Usable(entry[c])
      BY <1>11 DEF UndoDelete, EntriesOK, Usable, Sound
    <3> QED BY <1>11, <3>1, OtherEntries DEF UndoDelete
  <2>2. CASE UNCHANGED status /\ Permanent(c, e) /\ UNCHANGED <<loggedIn, wanted, self, fetch, inbox>>
    <3> HIDE DEF e
    <3> QED BY <2>1, <2>2, PermanentType
  <2>3. ASSUME NEW f, Usable(f), entry' = [entry EXCEPT ![c] = f], UNCHANGED <<libVars, server, inbox, outrun, revived, twice>>
        PROVE  TypeInv'
    <3>1. EntriesOK'
      BY <2>3, ChangedEntry DEF Usable
    <3>2. TreeOK'
      BY <2>3 DEF TypeOK, TreeOK, libVars
    <3> QED BY <2>1, <2>3, <3>1, <3>2, CommandType, FromParts DEF TypeOK, libVars
  <2>4. CASE entry' = [entry EXCEPT ![c] = [e EXCEPT !.deleted = FALSE, !.temporary = FALSE,
                                                     !.pending = TRUE, !.shown = "pending"]]
             /\ UNCHANGED <<libVars, server, inbox, outrun, revived, twice>>
    <3> HIDE DEF e
    <3> QED BY <2>1, <2>3, <2>4, OtherEntries
  <2>5. CASE entry' = [entry EXCEPT ![c] = [e EXCEPT !.deleted = FALSE]]
             /\ UNCHANGED <<libVars, server, inbox, outrun, revived, twice>>
    <3> HIDE DEF e
    <3> QED BY <2>1, <2>3, <2>5, OtherEntries
  <2> QED BY <1>11, <2>2, <2>4, <2>5 DEF UndoDelete
<1> QED
  BY <1>1, <1>2, <1>3, <1>4, <1>5, <1>6, <1>7, <1>8, <1>9, <1>10, <1>11, <1>12, <1>13, <1>14 DEF Next

-----------------------------------------------------------------------------
(* The roster.                                                             *)

\* The marks of the entry c against the library's lists
MarksOK(c) ==
    /\ ~(c \in visible /\ c \in invisible)
    /\ c \in visible => ~entry[c].invisible
    /\ c \in invisible => ~entry[c].visible
    /\ entry[c].ref # "found" =>
          (c \in visible => entry[c].visible) /\ (c \in invisible => entry[c].invisible)
    /\ ~entry[c].pending =>
          (entry[c].visible => c \in visible) /\ (entry[c].invisible => c \in invisible)

\* The place of c in the tree against the entry and the server's buddies
PlaceOK(c) ==
    /\ (\A g \in Groups : tree[g][c] # "none") => c \in twice
    /\ loggedIn /\ c \notin twice => (c \in server.buddies <=> InTree(c))
    /\ entry[c].deleted /\ InTree(c) => c \in twice
    /\ entry[c].shown = "online" =>
          c \in revived \/ (loggedIn /\ InTree(c) /\ status[c][RefOf(c)])

\* Both, of everybody
ContactsOK == \A c \in Contact : MarksOK(c) /\ PlaceOK(c)

\* The inductive invariant of RosterAgrees
RosterInv == TypeInv /\ ContactsOK /\ (inbox # <<>> => loggedIn)

\* A step that does not touch d and its lists leaves its marks right.
LEMMA MarksElsewhere ==
  ASSUME NEW d, MarksOK(d), entry'[d] = entry[d],
         d \in visible' <=> d \in visible, d \in invisible' <=> d \in invisible
  PROVE  MarksOK(d)'
BY DEF MarksOK

\* A step that does not touch d and its place leaves its place right.
LEMMA PlaceElsewhere ==
  ASSUME NEW d, PlaceOK(d), entry'[d] = entry[d], \A g \in Groups : tree'[g][d] = tree[g][d],
         status'[d] = status[d], d \in twice' <=> d \in twice, d \in revived' <=> d \in revived,
         d \in server'.buddies <=> d \in server.buddies, loggedIn' = loggedIn
  PROVE  PlaceOK(d)'
BY DEF PlaceOK, InTree, RefOf, GroupOf, Groups

\* A document that is opened is on the lists that it says.
LEMMA InitRoster == Init => RosterInv
<1> SUFFICES ASSUME Init PROVE RosterInv
  OBVIOUS
<1>1. TypeInv
  BY InitType
<1>2. ASSUME NEW c \in Contact PROVE MarksOK(c)
  <2>1. /\ c \in visible <=> entry[c].known /\ ~entry[c].pending /\ entry[c].visible
        /\ c \in invisible <=> entry[c].known /\ ~entry[c].pending /\ entry[c].invisible
        /\ ~(entry[c].visible /\ entry[c].invisible)
    BY DEF Init
  <2>2. ~entry[c].known => ~entry[c].visible /\ ~entry[c].invisible
    BY <1>1 DEF TypeInv, EntriesOK, Sound
  <2> QED BY <2>1, <2>2 DEF MarksOK
<1>3. ASSUME NEW c \in Contact PROVE PlaceOK(c)
  <2>1. tree["Imported"][c] = "none" /\ ~loggedIn
    BY DEF Init, Groups
  <2>2. ~entry[c].deleted /\ entry[c].shown # "online"
    BY DEF Init, Unknown, NewEntry
  <2> QED BY <2>1, <2>2 DEF PlaceOK, Groups
<1> QED BY <1>1, <1>2, <1>3 DEF RosterInv, ContactsOK, Init

\* An entry that is kept for good comes onto the list that it is marked for.
LEMMA PermanentRoster ==
  ASSUME RosterInv, NEW c \in Contact, NEW e, Usable(e), UNCHANGED status, UNCHANGED loggedIn, Permanent(c, e),
         c \in visible => ~e.invisible, c \in invisible => ~e.visible,
         e.ref # "found" => (c \in visible => e.visible) /\ (c \in invisible => e.invisible)
  PROVE  ContactsOK'
<1>1. /\ Usable(Kept(e)) /\ ~Kept(e).pending /\ ~Kept(e).deleted /\ Kept(e).shown = "offline"
      /\ Kept(e).visible = e.visible /\ Kept(e).invisible = e.invisible /\ Kept(e).ref = e.ref
  BY KeptFields
<1>2. AddContact(c, Kept(e)) /\ Listed(c, Kept(e))
  BY DEF Permanent, Kept, AddContact
<1>3. TypeOK /\ EntriesOK /\ MarksOK(c) /\ PlaceOK(c)
  BY DEF RosterInv, TypeInv, ContactsOK
<1> DEFINE f == [Kept(e) EXCEPT !.shown = IF status[c][e.ref] THEN "online" ELSE @]
<1>4. /\ entry'[c] = f
      /\ \A d \in Contact \ {c} : entry'[d] = entry[d]
      /\ tree'["General"][c] = IF tree["General"][c] = "none" THEN e.ref ELSE tree["General"][c]
      /\ tree'["Imported"][c] = tree["Imported"][c]
      /\ \A d \in Contact \ {c}, g \in Groups : tree'[g][d] = tree[g][d]
      /\ revived' = IF status[c][e.ref] THEN revived \cup {c} ELSE revived \ {c}
      /\ twice' = IF tree["Imported"][c] # "none" THEN twice \cup {c} ELSE twice
  BY <1>1, <1>2, <1>3, AddContactFields
<1>5. /\ visible' = (IF e.visible THEN visible \cup {c} ELSE visible)
      /\ invisible' = (IF ~e.visible /\ e.invisible THEN invisible \cup {c} ELSE invisible)
      /\ server'.buddies = IF loggedIn THEN server.buddies \cup {c} ELSE server.buddies
  BY <1>1, <1>2, <1>3, ListedFields
<1>6. /\ ~f.pending /\ ~f.deleted /\ (f.shown = "online" => status[c][e.ref])
      /\ f.visible = e.visible /\ f.invisible = e.invisible /\ f.ref = e.ref
      /\ ~(e.visible /\ e.invisible) /\ e.ref # "none"
  BY <1>1 DEF Usable, Sound, Entry
<1> HIDE DEF f
<1>7. MarksOK(c)'
  BY <1>3, <1>4, <1>5, <1>6 DEF MarksOK
<1>8. PlaceOK(c)'
  BY <1>3, <1>4, <1>5, <1>6 DEF PlaceOK, InTree, Groups
<1>9. ASSUME NEW d \in Contact \ {c} PROVE MarksOK(d)' /\ PlaceOK(d)'
  <2>1. MarksOK(d) /\ PlaceOK(d) /\ status'[d] = status[d]
    BY DEF RosterInv, ContactsOK
  <2>2. MarksOK(d)'
    BY <2>1, <1>4, <1>5, MarksElsewhere
  <2>3. PlaceOK(d)'
    BY <2>1, <1>4, <1>5, PlaceElsewhere
  <2> QED BY <2>2, <2>3
<1> QED BY <1>7, <1>8, <1>9 DEF ContactsOK

\* What deleting c leaves of it
LEMMA DeletePlace ==
  ASSUME TypeInv, NEW c \in Contact, PlaceOK(c), Delete(c)
  PROVE  PlaceOK(c)'
<1>1. entry'[c].shown = "not on list"
  BY DeleteFields
<1>2. /\ tree'["General"][c] = "none"
      /\ tree'["Imported"][c] = IF tree["General"][c] # "none" THEN tree["Imported"][c] ELSE "none"
  BY RemovedFields DEF TypeInv, Delete
<1>3. twice' = twice /\ loggedIn' = loggedIn
  BY DEF Delete
<1>4. loggedIn => server'.buddies = IF InTree(c) THEN server.buddies \ {c} ELSE server.buddies
  BY NoBuddyFields DEF Delete, TypeInv, TypeOK
<1> QED BY <1>1, <1>2, <1>3, <1>4 DEF PlaceOK, InTree, Groups

\* Every step keeps the roster in order.
LEMMA NextRoster == ASSUME RosterInv, [Next]_vars PROVE RosterInv'
<1> TypeInv /\ TypeInv' /\ TypeOK /\ EntriesOK /\ \A c \in Contact : MarksOK(c) /\ PlaceOK(c)
  BY NextType DEF RosterInv, TypeInv, ContactsOK
<1> SUFFICES ContactsOK' /\ (inbox # <<>> => loggedIn)'
  BY DEF RosterInv
<1>1. CASE Login
  <2>1. ASSUME NEW c \in Contact PROVE MarksOK(c)'
    BY <1>1, MarksElsewhere DEF Login
  <2>2. ASSUME NEW c \in Contact PROVE PlaceOK(c)'
    <3>1. server'.buddies = {d \in Contact : InTree(d)} /\ UNCHANGED <<entry, tree, status, revived, twice>>
          /\ ~loggedIn
      BY <1>1 DEF Login
    <3> QED BY <3>1 DEF PlaceOK, InTree, RefOf, GroupOf
  <2> QED BY <1>1, <2>1, <2>2 DEF ContactsOK, Login
<1>2. CASE Disconnect
  <2> DEFINE cs == {c \in Contact : \E g \in Groups : tree[g][c] # "none" /\ status[c][tree[g][c]]}
  <2>1. /\ \A c \in Contact : entry'[c] = IF c \in cs THEN [entry[c] EXCEPT !.shown = "offline"] ELSE entry[c]
        /\ revived' = revived \ cs
        /\ UNCHANGED <<tree, visible, invisible, twice>> /\ ~loggedIn' /\ inbox' = <<>>
    BY <1>2 DEF Disconnect, ShowOffline
  <2>2. ASSUME NEW c \in Contact PROVE MarksOK(c)' /\ PlaceOK(c)'
    <3>1. /\ entry'[c].visible = entry[c].visible /\ entry'[c].invisible = entry[c].invisible
          /\ entry'[c].ref = entry[c].ref /\ entry'[c].pending = entry[c].pending
          /\ entry'[c].deleted = entry[c].deleted
          /\ entry'[c].shown = IF c \in cs THEN "offline" ELSE entry[c].shown
      BY <2>1 DEF EntriesOK, Sound, Entry
    <3>2. MarksOK(c)'
      BY <2>1, <3>1 DEF MarksOK
    <3>3. InTree(c) /\ status[c][RefOf(c)] => c \in cs
      BY DEF InTree, RefOf, GroupOf, Groups
    <3> HIDE DEF cs
    <3>4. PlaceOK(c)'
      BY <2>1, <3>1, <3>3 DEF PlaceOK, InTree
    <3> QED BY <3>2, <3>4
  <2> QED BY <2>1, <2>2 DEF ContactsOK
<1>3. ASSUME UNCHANGED <<entry, tree, status, visible, invisible, revived, twice, loggedIn>>,
             server'.buddies = server.buddies
      PROVE  ContactsOK'
  <2>1. ASSUME NEW c \in Contact PROVE MarksOK(c)'
    BY <1>3, MarksElsewhere
  <2>2. ASSUME NEW c \in Contact PROVE PlaceOK(c)'
    BY <1>3, PlaceElsewhere
  <2> QED BY <2>1, <2>2 DEF ContactsOK
<1>4. CASE Import
  BY <1>3, <1>4 DEF Import, docVars
<1>5. CASE HearSelf
  BY <1>3, <1>5 DEF HearSelf, docVars, RosterInv
<1>6. CASE HearStatus
  <2>1. loggedIn /\ UNCHANGED <<tree, visible, invisible, loggedIn, server, twice>>
    BY <1>6 DEF HearStatus, RosterInv
  <2>2. CASE UNCHANGED <<status, entry, revived>>
    BY <2>1, <2>2, <1>3
  <2>3. CASE ~UNCHANGED <<status, entry, revived>>
    <3>0. PICK c \in Contact : c = Next1.contact
      <4>1. inbox \in Seq(Answer) /\ inbox # <<>> /\ Next1.type \in {"online", "offline"}
        BY <1>6 DEF TypeOK, HearStatus
      <4>2. Next1 \in Answer
        BY <4>1 DEF Next1
      <4> QED BY <4>1, <4>2 DEF Answer, List
    <3>1. /\ InTree(c)
          /\ Next1.type \in {"online", "offline"}
          /\ status' = [status EXCEPT ![c][RefOf(c)] = (Next1.type = "online")]
          /\ entry' = [entry EXCEPT ![c].shown = Next1.type]
          /\ revived' = revived \ {c}
      BY <1>6, <2>3, <3>0 DEF HearStatus
    <3>2. /\ entry'[c].visible = entry[c].visible /\ entry'[c].invisible = entry[c].invisible
          /\ entry'[c].ref = entry[c].ref /\ entry'[c].pending = entry[c].pending
          /\ entry'[c].deleted = entry[c].deleted /\ entry'[c].shown = Next1.type
      BY <3>0, <3>1 DEF EntriesOK, Sound, Entry
    <3>3. \A d \in Contact \ {c} : entry'[d] = entry[d] /\ status'[d] = status[d]
      BY <3>0, <3>1 DEF EntriesOK, TypeOK
    <3>4. status'[c][RefOf(c)] = (Next1.type = "online")
      BY <3>0, <3>1, RefOfType DEF TypeOK
    <3>5. MarksOK(c)'
      BY <3>0, <2>1, <3>2 DEF MarksOK
    <3>6. PlaceOK(c)'
      BY <3>0, <2>1, <3>1, <3>2, <3>4 DEF PlaceOK, InTree, RefOf, GroupOf
    <3>7. ASSUME NEW d \in Contact \ {c} PROVE MarksOK(d)' /\ PlaceOK(d)'
      <4>1. MarksOK(d)'
        BY <2>1, <3>3, MarksElsewhere
      <4>2. PlaceOK(d)'
        BY <2>1, <3>1, <3>3, PlaceElsewhere
      <4> QED BY <4>1, <4>2
    <3> QED BY <2>1, <3>5, <3>6, <3>7 DEF ContactsOK
  <2> QED BY <2>1, <2>2, <2>3
<1>7. CASE HearList
  <2>0. loggedIn /\ UNCHANGED <<visible, invisible, loggedIn, revived, twice>>
    BY <1>7 DEF HearList, RosterInv
  <2>1. ASSUME NEW c \in Contact \ New PROVE MarksOK(c)' /\ PlaceOK(c)'
    <3>1. /\ entry'[c] = entry[c] /\ status'[c] = status[c]
          /\ tree'["Imported"][c] = tree["Imported"][c] /\ tree'["General"][c] = tree["General"][c]
          /\ server'.buddies = server.buddies \cup New
      BY <1>7, <2>0, HearListFields
    <3>2. MarksOK(c)'
      BY <2>0, <3>1, MarksElsewhere
    <3>3. PlaceOK(c)'
      BY <2>0, <3>1, PlaceElsewhere DEF Groups
    <3> QED BY <3>2, <3>3
  <2>2. ASSUME NEW c \in New PROVE MarksOK(c)' /\ PlaceOK(c)'
    <3>0. c \in Contact /\ ~InTree(c)
      BY OnServerAssumption DEF New
    <3>1. /\ entry'[c] = IF entry[c].known
                         THEN [entry[c] EXCEPT !.deleted = FALSE, !.temporary = FALSE]
                         ELSE NewEntry("imported")
          /\ tree'["Imported"][c] = "imported" /\ tree'["General"][c] = tree["General"][c]
          /\ server'.buddies = server.buddies \cup New
      BY <1>7, <2>0, <3>0, HearListFields
    <3>2. Sound(entry[c])
      BY <3>0 DEF EntriesOK
    <3>3. CASE entry[c].known
      <4>1. /\ entry'[c].visible = entry[c].visible /\ entry'[c].invisible = entry[c].invisible
            /\ entry'[c].ref = entry[c].ref /\ entry'[c].pending = entry[c].pending
            /\ ~entry'[c].deleted /\ entry'[c].shown = entry[c].shown
        BY <3>1, <3>2, <3>3 DEF Sound, Entry
      <4>2. MarksOK(c)'
        BY <2>0, <3>0, <4>1 DEF MarksOK
      <4>3. PlaceOK(c)'
        BY <2>0, <3>0, <3>1, <4>1 DEF PlaceOK, InTree, Groups
      <4> QED BY <4>2, <4>3
    <3>4. CASE ~entry[c].known
      <4>1. /\ ~entry'[c].visible /\ ~entry'[c].invisible /\ ~entry'[c].deleted
            /\ entry'[c].shown = "offline"
        BY <3>1, <3>4, NewEntryFields DEF Refs
      <4>2. ~entry[c].visible /\ ~entry[c].invisible /\ entry[c].ref # "found"
        BY <3>2, <3>4 DEF Sound
      <4>3. MarksOK(c)'
        BY <2>0, <3>0, <4>1, <4>2 DEF MarksOK
      <4>4. PlaceOK(c)'
        BY <2>0, <3>0, <3>1, <4>1 DEF PlaceOK, InTree, Groups
      <4> QED BY <4>3, <4>4
    <3> QED BY <3>3, <3>4
  <2> QED BY <2>0, <2>1, <2>2, OnServerAssumption DEF ContactsOK, New
<1>8. ASSUME NEW inv \in BOOLEAN, SetStatus(inv) PROVE ContactsOK' /\ (inbox # <<>> => loggedIn)'
  <2>1. server'.buddies = server.buddies
    <3>1. server \in ServerView
      BY DEF TypeOK
    <3> QED BY <3>1, <1>8 DEF SetStatus, ServerView
  <2> QED BY <1>3, <1>8, <2>1 DEF SetStatus, docVars, RosterInv
<1>9. ASSUME NEW c \in Contact, AddPermanently(c) PROVE ContactsOK' /\ (inbox # <<>> => loggedIn)'
  <2>1. Usable(entry[c])
    BY <1>9 DEF AddPermanently, OnList, EntriesOK, Usable
  <2>2. MarksOK(c)
    OBVIOUS
  <2> QED BY <1>9, <2>1, <2>2, PermanentRoster DEF AddPermanently, MarksOK, RosterInv
<1>10. ASSUME NEW c \in Contact, AddSearchResult(c) PROVE ContactsOK' /\ (inbox # <<>> => loggedIn)'
  <2>1. Usable(NewEntry("found")) /\ NewEntry("found").ref = "found"
        /\ ~NewEntry("found").visible /\ ~NewEntry("found").invisible
    BY NewEntryFields DEF Refs
  <2> QED BY <1>10, <2>1, PermanentRoster DEF AddSearchResult, RosterInv
<1>11. ASSUME NEW c \in Contact, EntriesOK', \A d \in Contact \ {c} : entry'[d] = entry[d],
              entry'[c].visible = entry[c].visible, entry'[c].invisible = entry[c].invisible,
              entry'[c].ref = entry[c].ref \/ entry[c].ref = "none",
              entry[c].pending => entry'[c].pending,
              entry'[c].deleted => entry[c].deleted, entry'[c].shown \in {"pending", "not on list", entry[c].shown},
              UNCHANGED <<libVars, server, inbox, outrun, twice>>, revived' \in {revived, revived \ {c}},
              entry'[c].shown = "online" => revived' = revived
       PROVE  ContactsOK' /\ (inbox # <<>> => loggedIn)'
  <2>0. UNCHANGED <<tree, status, visible, invisible, loggedIn, server, inbox, twice>>
    BY <1>11 DEF libVars
  <2>1. MarksOK(c)'
    BY <1>11, <2>0 DEF MarksOK
  <2>2. PlaceOK(c)'
    BY <1>11, <2>0 DEF PlaceOK, InTree, RefOf, GroupOf
  <2>3. ASSUME NEW d \in Contact \ {c} PROVE MarksOK(d)' /\ PlaceOK(d)'
    <3>1. MarksOK(d)'
      BY <1>11, <2>0, MarksElsewhere
    <3>2. PlaceOK(d)'
      BY <1>11, <2>0, PlaceElsewhere
    <3> QED BY <3>1, <3>2
  <2> QED BY <2>0, <2>1, <2>2, <2>3 DEF ContactsOK, RosterInv
<1>12. ASSUME NEW c \in Contact, AddAsPending(c) PROVE ContactsOK' /\ (inbox # <<>> => loggedIn)'
  <2>1. /\ EntriesOK' /\ \A d \in Contact \ {c} : entry'[d] = entry[d]
        /\ entry'[c].visible = entry[c].visible /\ entry'[c].invisible = entry[c].invisible
        /\ entry'[c].ref = entry[c].ref /\ entry'[c].pending /\ entry'[c].deleted = entry[c].deleted
        /\ entry'[c].shown = "pending"
    BY <1>12, PendingFields
  <2>3. UNCHANGED <<libVars, server, inbox, outrun, twice>> /\ revived' = revived \ {c}
    BY <1>12 DEF AddAsPending
  <2> QED BY <1>11, <2>1, <2>3
<1>13. ASSUME NEW c \in Contact, AddTemporarily(c) PROVE ContactsOK' /\ (inbox # <<>> => loggedIn)'
  <2>1. /\ EntriesOK' /\ \A d \in Contact \ {c} : entry'[d] = entry[d]
        /\ entry'[c].visible = entry[c].visible /\ entry'[c].invisible = entry[c].invisible
        /\ entry'[c].ref = OwnContact(c) /\ entry'[c].pending = entry[c].pending /\ ~entry'[c].deleted
        /\ entry'[c].shown = "not on list"
    BY <1>13, TemporaryFields
  <2>3. OwnContact(c) = entry[c].ref \/ entry[c].ref = "none"
    BY DEF OwnContact
  <2>4. UNCHANGED <<libVars, server, inbox, outrun, revived, twice>>
    BY <1>13 DEF AddTemporarily
  <2> QED BY <1>11, <2>1, <2>3, <2>4
<1>14. ASSUME NEW c \in Contact, Delete(c) PROVE ContactsOK' /\ (inbox # <<>> => loggedIn)'
  <2>1. /\ entry'[c].visible = entry[c].visible /\ entry'[c].invisible = entry[c].invisible
        /\ entry'[c].ref = entry[c].ref /\ entry'[c].pending = entry[c].pending
        /\ \A d \in Contact \ {c} : entry'[d] = entry[d]
    BY <1>14, DeleteFields
  <2>2. UNCHANGED <<status, visible, invisible, loggedIn, inbox, twice>> /\ revived' = revived \ {c}
    BY <1>14 DEF Delete
  <2>3. MarksOK(c)'
    BY <2>1, <2>2 DEF MarksOK
  <2>4. PlaceOK(c)'
    BY <1>14, DeletePlace
  <2>5. ASSUME NEW d \in Contact \ {c} PROVE MarksOK(d)' /\ PlaceOK(d)'
    <3>1. MarksOK(d)'
      BY <2>1, <2>2, MarksElsewhere
    <3>2. PlaceOK(d)'
      BY <1>14, <2>1, <2>2, DeleteOthers, PlaceElsewhere
    <3> QED BY <3>1, <3>2
  <2> QED BY <2>2, <2>3, <2>4, <2>5 DEF ContactsOK, RosterInv
<1>15. ASSUME NEW c \in Contact, UndoDelete(c) PROVE ContactsOK' /\ (inbox # <<>> => loggedIn)'
  <2> DEFINE e == [entry[c] EXCEPT !.undo = "none"]
  <2>1. /\ Usable(e) /\ e.visible = entry[c].visible /\ e.invisible = entry[c].invisible
        /\ e.ref = entry[c].ref /\ e.pending = entry[c].pending /\ e.shown = entry[c].shown
        /\ entry[c].deleted
    BY <1>15, UndoneFields DEF UndoDelete
  <2>2. CASE UNCHANGED status /\ Permanent(c, e) /\ UNCHANGED <<loggedIn, wanted, self, fetch, inbox>>
    <3>1. MarksOK(c)
      OBVIOUS
    <3> HIDE DEF e
    <3> QED BY <2>1, <2>2, <3>1, PermanentRoster DEF MarksOK, RosterInv
  <2>3. ASSUME NEW f, Usable(f), entry' = [entry EXCEPT ![c] = f], UNCHANGED <<libVars, server, inbox, outrun, revived, twice>>,
               f.visible = e.visible, f.invisible = e.invisible, f.ref = e.ref, ~f.deleted,
               e.pending => f.pending, f.shown \in {"pending", e.shown}
        PROVE  ContactsOK' /\ (inbox # <<>> => loggedIn)'
    <3> HIDE DEF e
    <3>1. EntriesOK' /\ entry'[c] = f /\ \A d \in Contact \ {c} : entry'[d] = entry[d]
      BY <2>3, ChangedEntry DEF Usable
    <3> QED BY <1>11, <2>1, <2>3, <3>1
  <2>4. CASE entry' = [entry EXCEPT ![c] = [e EXCEPT !.deleted = FALSE, !.temporary = FALSE,
                                                     !.pending = TRUE, !.shown = "pending"]]
             /\ UNCHANGED <<libVars, server, inbox, outrun, revived, twice>>
    <3> HIDE DEF e
    <3> DEFINE f == [e EXCEPT !.deleted = FALSE, !.temporary = FALSE, !.pending = TRUE, !.shown = "pending"]
    <3>1. Usable(f)
      BY <2>1, OtherEntries
    <3>2. f.visible = e.visible /\ f.invisible = e.invisible /\ f.ref = e.ref /\ ~f.deleted
          /\ f.pending /\ f.shown = "pending"
      BY <2>1 DEF Usable, Sound, Entry
    <3> HIDE DEF f
    <3> QED BY <2>3, <2>4, <3>1, <3>2 DEF f
  <2>5. CASE entry' = [entry EXCEPT ![c] = [e EXCEPT !.deleted = FALSE]]
             /\ UNCHANGED <<libVars, server, inbox, outrun, revived, twice>>
    <3> HIDE DEF e
    <3> DEFINE f == [e EXCEPT !.deleted = FALSE]
    <3>1. Usable(f)
      BY <2>1, OtherEntries
    <3>2. f.visible = e.visible /\ f.invisible = e.invisible /\ f.ref = e.ref /\ ~f.deleted
          /\ f.pending = e.pending /\ f.shown = e.shown
      BY <2>1 DEF Usable, Sound, Entry
    <3> HIDE DEF f
    <3> QED BY <2>3, <2>5, <3>1, <3>2 DEF f
  <2> QED BY <1>15, <2>2, <2>4, <2>5 DEF UndoDelete
<1>16. ASSUME NEW c \in Contact, Toggle(c) PROVE ContactsOK' /\ (inbox # <<>> => loggedIn)'
  <2>0. PICK v \in BOOLEAN, i \in BOOLEAN : ~(v /\ i) /\ Toggled(c, v, i)
    BY <1>16, ToggleFields
  <2>1. UNCHANGED <<tree, status, loggedIn, inbox, revived, twice>> /\ server'.buddies = server.buddies
    BY <1>16, ToggleServer DEF Toggle
  <2>2. /\ entry'[c] = [entry[c] EXCEPT !.visible = v, !.invisible = i]
        /\ \A d \in Contact \ {c} : entry'[d] = entry[d]
    BY <2>0 DEF Toggled, EntriesOK
  <2>3. /\ entry'[c].visible = v /\ entry'[c].invisible = i /\ entry'[c].ref = entry[c].ref
        /\ entry'[c].pending = entry[c].pending /\ entry'[c].deleted = entry[c].deleted
        /\ entry'[c].shown = entry[c].shown
    <3>1. entry[c] \in Entry
      BY DEF EntriesOK
    <3> QED BY <2>2, <3>1 DEF Entry
  <2>4. MarksOK(c)'
    BY <2>0, <2>3 DEF MarksOK, Toggled
  <2>5. PlaceOK(c)'
    BY <2>1, <2>3 DEF PlaceOK, InTree, RefOf, GroupOf
  <2>6. ASSUME NEW d \in Contact \ {c} PROVE MarksOK(d)' /\ PlaceOK(d)'
    <3>1. MarksOK(d)'
      BY <2>0, <2>2, MarksElsewhere DEF Toggled
    <3>2. PlaceOK(d)'
      BY <2>1, <2>2, PlaceElsewhere
    <3> QED BY <3>1, <3>2
  <2> QED BY <2>1, <2>4, <2>5, <2>6 DEF ContactsOK, RosterInv
<1>17. ASSUME NEW c \in Contact, NEW online \in BOOLEAN, ServerTells(c, online)
       PROVE  ContactsOK' /\ (inbox # <<>> => loggedIn)'
  BY <1>3, <1>17 DEF ServerTells, docVars, libVars
<1>18. CASE UNCHANGED vars
  BY <1>3, <1>18 DEF vars, RosterInv
<1> QED
  BY <1>1, <1>2, <1>4, <1>5, <1>6, <1>7, <1>8, <1>9, <1>10, <1>12, <1>13, <1>14, <1>15, <1>16, <1>17,
     <1>18 DEF Next, Hears

-----------------------------------------------------------------------------
(* What the server knows of the lists and of the status.                   *)

\* No echo of the status is on its way; those that are say w.
NoEcho(q) == \A i \in DOMAIN q : q[i].type # "self"
EchoesOf(q, w) == \A i \in DOMAIN q : q[i].type = "self" => q[i].hidden = w

\* The list that the wanted status goes by is the server's.
ListKnown == IF wanted THEN server.visible = visible ELSE server.invisible = invisible

\* The inductive invariant of VisibilityIsKnown
LinkInv ==
    loggedIn =>
       /\ server.hidden = wanted
       /\ ~outrun => /\ ListKnown
                     /\ EchoesOf(inbox, wanted)
                     /\ ~Unheard => self.invisible = wanted

\* An echo is missing or on its way.
LEMMA UnheardIs == Unheard <=> loggedIn /\ (~self.online \/ ~NoEcho(inbox))
BY DEF Unheard, NoEcho

\* The echoes with one more answer
LEMMA AppendEchoes ==
  ASSUME NEW q \in Seq(Answer), NEW m \in Answer, NEW w
  PROVE  /\ NoEcho(q \o <<m>>) <=> NoEcho(q) /\ m.type # "self"
         /\ EchoesOf(q, w) /\ (m.type = "self" => m.hidden = w) => EchoesOf(q \o <<m>>, w)
         /\ NoEcho(q) => EchoesOf(q, w)
<1>1. /\ Len(q) \in Nat /\ DOMAIN q = 1..Len(q)
      /\ DOMAIN (q \o <<m>>) = 1..(Len(q) + 1)
      /\ \A i \in 1..Len(q) : (q \o <<m>>)[i] = q[i]
      /\ (q \o <<m>>)[Len(q) + 1] = m
  OBVIOUS
<1>2. \A i \in 1..(Len(q) + 1) : i = Len(q) + 1 \/ i \in 1..Len(q)
  BY <1>1
<1>3. Len(q) + 1 \in 1..(Len(q) + 1) /\ \A i \in 1..Len(q) : i \in 1..(Len(q) + 1)
  BY <1>1
<1> QED BY <1>1, <1>2, <1>3 DEF NoEcho, EchoesOf

\* The echoes without the first answer
LEMMA TailEchoes ==
  ASSUME NEW q \in Seq(Answer), q # <<>>, NEW w
  PROVE  /\ EchoesOf(q, w) => EchoesOf(Tail(q), w)
         /\ Head(q).type # "self" /\ NoEcho(Tail(q)) => NoEcho(q)
         /\ Head(q).type = "self" /\ EchoesOf(q, w) => Head(q).hidden = w
<1>1. /\ Len(q) \in Nat \ {0} /\ DOMAIN q = 1..Len(q) /\ Head(q) = q[1]
      /\ DOMAIN Tail(q) = 1..(Len(q) - 1)
      /\ \A i \in 1..(Len(q) - 1) : Tail(q)[i] = q[i + 1]
  OBVIOUS
<1>2. \A i \in 1..Len(q) : i = 1 \/ (i - 1 \in 1..(Len(q) - 1) /\ (i - 1) + 1 = i)
  BY <1>1
<1>3. 1 \in 1..Len(q) /\ \A i \in 1..(Len(q) - 1) : i + 1 \in 1..Len(q)
  BY <1>1
<1>4. \A i \in 1..Len(q) : i = 1 \/ (i - 1 \in 1..(Len(q) - 1) /\ Tail(q)[i - 1] = q[i])
  BY <1>1, <1>2
<1>5. EchoesOf(q, w) => EchoesOf(Tail(q), w)
  BY <1>1, <1>3 DEF EchoesOf
<1>6. Head(q).type # "self" /\ NoEcho(Tail(q)) => NoEcho(q)
  BY <1>1, <1>4 DEF NoEcho
<1>7. Head(q).type = "self" /\ EchoesOf(q, w) => Head(q).hidden = w
  BY <1>1, <1>3 DEF EchoesOf
<1> QED BY <1>5, <1>6, <1>7

\* What a toggle does to the list that the client goes by
LEMMA ToggleLists ==
  ASSUME TypeOK, NEW c \in Contact, Toggle(c), loggedIn,
         IF self.invisible THEN server.visible = visible ELSE server.invisible = invisible
  PROVE  IF self.invisible THEN server'.visible = visible' ELSE server'.invisible = invisible'
<1> DEFINE sv == server.visible
           si == server.invisible
<1>0. /\ server \in ServerView
      /\ {sv \ {c}, sv \cup {c}, sv, si \ {c}, si \cup {c}, si} \subseteq SUBSET Contact
  BY DEF TypeOK, ServerView
<1>1. CASE PutOnVisible(c)
  <2> DEFINE s == WithInvisible(server, si \ {c})
             vs == IF c \in visible THEN sv ELSE sv \cup {c}
  <2>1. s \in ServerView /\ s.visible = sv /\ (~self.invisible => s.invisible = si \ {c})
    BY <1>0, ServerFields
  <2>2. server' = WithVisible(s, vs) /\ visible' = visible \cup {c} /\ invisible' = invisible \ {c}
    BY <1>1 DEF PutOnVisible
  <2> HIDE DEF s
  <2>3. server'.invisible = s.invisible /\ (self.invisible => server'.visible = vs)
    <3>1. vs \in SUBSET Contact
      BY <1>0
    <3> HIDE DEF vs
    <3> QED BY <2>1, <2>2, <3>1, ServerFields
  <2> QED BY <2>1, <2>2, <2>3
<1>2. CASE PutOnInvisible(c)
  <2> DEFINE s == WithVisible(server, sv \ {c})
             is == IF c \in invisible THEN si ELSE si \cup {c}
  <2>1. s \in ServerView /\ s.invisible = si /\ (self.invisible => s.visible = sv \ {c})
    BY <1>0, ServerFields
  <2>2. server' = WithInvisible(s, is) /\ visible' = visible \ {c} /\ invisible' = invisible \cup {c}
    BY <1>2 DEF PutOnInvisible
  <2> HIDE DEF s
  <2>3. server'.visible = s.visible /\ (~self.invisible => server'.invisible = is)
    <3>1. is \in SUBSET Contact
      BY <1>0
    <3> HIDE DEF is
    <3> QED BY <2>1, <2>2, <3>1, ServerFields
  <2> QED BY <2>1, <2>2, <2>3
<1>3. CASE TakeOffVisible(c)
  <2>1. server' = WithVisible(server, sv \ {c}) /\ visible' = visible \ {c} /\ invisible' = invisible
    BY <1>3 DEF TakeOffVisible
  <2>2. server'.invisible = server.invisible /\ (self.invisible => server'.visible = sv \ {c})
    BY <1>0, <2>1, ServerFields
  <2> QED BY <2>1, <2>2
<1>4. CASE TakeOffInvisible(c)
  <2>1. server' = WithInvisible(server, si \ {c}) /\ invisible' = invisible \ {c} /\ visible' = visible
    BY <1>4 DEF TakeOffInvisible
  <2>2. server'.visible = server.visible /\ (~self.invisible => server'.invisible = si \ {c})
    BY <1>0, <2>1, ServerFields
  <2> QED BY <2>1, <2>2
<1> QED BY <1>1, <1>2, <1>3, <1>4 DEF Toggle

\* Without a session nothing is known.
LEMMA InitLink == Init => LinkInv
BY DEF Init, LinkInv

\* What may be told of others does not touch any of it.
LEMMA LinkElsewhere ==
  ASSUME LinkInv, UNCHANGED <<visible, invisible, loggedIn, wanted, self, outrun>>,
         server'.hidden = server.hidden, server'.visible = server.visible,
         server'.invisible = server.invisible,
         EchoesOf(inbox, wanted) => EchoesOf(inbox', wanted), NoEcho(inbox') => NoEcho(inbox)
  PROVE  LinkInv'
<1>1. Unheard => Unheard'
  BY UnheardIs DEF Unheard, NoEcho
<1> QED BY <1>1 DEF LinkInv, ListKnown

\* An entry that is kept for good comes onto the list of the server too.
LEMMA PermanentLink ==
  ASSUME LinkInv, TypeInv, NEW c \in Contact, NEW e, Usable(e), UNCHANGED status, Permanent(c, e),
         UNCHANGED <<loggedIn, wanted, self, fetch, inbox>>
  PROVE  LinkInv'
<1>1. Usable(Kept(e)) /\ Kept(e).visible = e.visible /\ Kept(e).invisible = e.invisible
  BY KeptFields
<1>2. Listed(c, Kept(e)) /\ (outrun' <=> outrun \/ (Unheard /\ (Kept(e).visible \/ Kept(e).invisible)))
  BY DEF Permanent, AddContact, Kept
<1>3. /\ visible' = (IF e.visible THEN visible \cup {c} ELSE visible)
      /\ invisible' = (IF ~e.visible /\ e.invisible THEN invisible \cup {c} ELSE invisible)
      /\ server'.hidden = server.hidden
      /\ server'.visible = (IF e.visible /\ loggedIn /\ self.invisible
                            THEN server.visible \cup {c} ELSE server.visible)
      /\ server'.invisible = (IF ~e.visible /\ e.invisible /\ loggedIn /\ ~self.invisible
                              THEN server.invisible \cup {c} ELSE server.invisible)
  BY <1>1, <1>2, ListedFields DEF TypeInv
<1>4. Unheard' <=> Unheard
  BY DEF Unheard
<1> QED BY <1>1, <1>2, <1>3, <1>4 DEF LinkInv, ListKnown

\* Every step keeps what the server knows in line.
LEMMA NextLink == ASSUME TypeInv, LinkInv, [Next]_vars PROVE LinkInv'
<1>0. TypeOK /\ EntriesOK /\ server \in ServerView /\ inbox \in Seq(Answer) /\ wanted \in BOOLEAN
  BY DEF TypeInv, TypeOK
<1>1. CASE Login
  <2>1. /\ server'.hidden = wanted' /\ ListKnown' /\ self' = self /\ wanted' = wanted /\ loggedIn'
    BY <1>1 DEF Login, ListKnown
  <2>2. inbox' = (IF fetch THEN <<List>> ELSE <<>>) \o <<Echo(wanted)>>
    BY <1>1 DEF Login
  <2> DEFINE q == IF fetch THEN <<List>> ELSE <<>>
  <2>3. q \in Seq(Answer) /\ NoEcho(q) /\ Echo(wanted) \in Answer
    BY <1>0, AnswersType DEF NoEcho, List
  <2>4. Echo(wanted).type = "self" /\ Echo(wanted).hidden = wanted
    BY DEF Echo
  <2>5. EchoesOf(inbox', wanted) /\ ~NoEcho(inbox')
    <3> HIDE DEF q
    <3>1. inbox' = q \o <<Echo(wanted)>>
      BY <2>2 DEF q
    <3> QED BY <2>3, <2>4, <3>1, AppendEchoes
  <2>6. Unheard'
    BY <2>1, <2>5 DEF Unheard, NoEcho
  <2> QED BY <2>1, <2>5, <2>6 DEF LinkInv
<1>2. CASE Disconnect
  BY <1>2 DEF Disconnect, LinkInv
<1>3. CASE Import
  <2>1. UNCHANGED <<visible, invisible, loggedIn, wanted, self, outrun, server>> /\ inbox' = inbox \o <<List>>
    BY <1>3 DEF Import, Hear
  <2>2. List \in Answer /\ List.type # "self"
    BY AnswersType DEF List
  <2> QED BY <1>0, <2>1, <2>2, AppendEchoes, LinkElsewhere
<1>4. CASE HearSelf
  <2>1. /\ UNCHANGED <<visible, invisible, loggedIn, wanted, outrun, server>>
        /\ inbox # <<>> /\ Head(inbox).type = "self" /\ inbox' = Tail(inbox)
        /\ self'.invisible = Head(inbox).hidden
    BY <1>4 DEF HearSelf, Next1
  <2>2. loggedIn /\ ~outrun => EchoesOf(inbox', wanted) /\ self'.invisible = wanted
    BY <1>0, <2>1, TailEchoes DEF LinkInv
  <2> QED BY <2>1, <2>2 DEF LinkInv, ListKnown
<1>5. CASE HearStatus
  <2>1. UNCHANGED <<visible, invisible, loggedIn, wanted, self, outrun, server>>
        /\ inbox # <<>> /\ Head(inbox).type # "self" /\ inbox' = Tail(inbox)
    BY <1>5 DEF HearStatus, Next1
  <2> QED BY <1>0, <2>1, TailEchoes, LinkElsewhere
<1>6. CASE HearList
  <2>1. UNCHANGED <<visible, invisible, loggedIn, wanted, self, outrun>>
        /\ inbox # <<>> /\ Head(inbox).type # "self" /\ inbox' = Tail(inbox)
    BY <1>6 DEF HearList, Next1
  <2>2. server'.hidden = server.hidden /\ server'.visible = server.visible
        /\ server'.invisible = server.invisible
    BY <1>6, HearListFields
  <2> QED BY <1>0, <2>1, <2>2, TailEchoes, LinkElsewhere
<1>7. ASSUME NEW inv \in BOOLEAN, SetStatus(inv) PROVE LinkInv'
  <2>1. CASE ~loggedIn
    BY <1>7, <2>1 DEF SetStatus, LinkInv
  <2>2. CASE loggedIn
    <3>1. /\ UNCHANGED <<visible, invisible, loggedIn, self>> /\ wanted' = inv
          /\ inbox' = inbox \o <<Echo(inv)>> /\ (outrun' <=> outrun \/ Unheard)
      BY <1>7, <2>2 DEF SetStatus, Hear
    <3>2. /\ server'.hidden = inv
          /\ server'.visible = IF ~self.invisible /\ inv THEN visible ELSE server.visible
          /\ server'.invisible = IF self.invisible /\ ~inv THEN invisible ELSE server.invisible
      BY <1>0, <1>7, <2>2 DEF SetStatus, ServerView
    <3>3. Echo(inv) \in Answer /\ Echo(inv).type = "self" /\ Echo(inv).hidden = inv
      BY AnswersType DEF Echo
    <3>4. ~NoEcho(inbox') /\ (NoEcho(inbox) => EchoesOf(inbox', inv))
      BY <1>0, <3>1, <3>3, AppendEchoes
    <3>5. Unheard'
      BY <2>2, <3>1, <3>4 DEF Unheard, NoEcho
    <3>6. ASSUME ~outrun' PROVE ListKnown' /\ EchoesOf(inbox', wanted')
      <4>1. ~outrun /\ ~Unheard /\ NoEcho(inbox)
        BY <2>2, <3>1, <3>6, UnheardIs
      <4>2. ListKnown /\ self.invisible = wanted
        BY <2>2, <4>1 DEF LinkInv
      <4>3. ListKnown'
        BY <1>0, <3>1, <3>2, <4>2 DEF ListKnown
      <4> QED BY <3>1, <3>4, <4>1, <4>3
    <3> QED BY <3>1, <3>2, <3>5, <3>6 DEF LinkInv
  <2> QED BY <2>1, <2>2
<1>8. ASSUME NEW c \in Contact, AddPermanently(c) PROVE LinkInv'
  <2>1. Usable(entry[c])
    BY <1>0, <1>8 DEF AddPermanently, OnList, EntriesOK, Usable
  <2> QED BY <1>8, <2>1, PermanentLink DEF AddPermanently
<1>9. ASSUME NEW c \in Contact, AddSearchResult(c) PROVE LinkInv'
  <2>1. Usable(NewEntry("found"))
    BY NewEntryFields DEF Refs
  <2> QED BY <1>9, <2>1, PermanentLink DEF AddSearchResult
<1>10. ASSUME UNCHANGED <<libVars, server, inbox, outrun>> PROVE LinkInv'
  BY <1>10, LinkElsewhere DEF libVars
<1>11. ASSUME NEW c \in Contact, Delete(c) PROVE LinkInv'
  <2>1. UNCHANGED <<visible, invisible, loggedIn, wanted, self, inbox, outrun>>
    BY <1>11 DEF Delete
  <2>2. server' = IF InTree(c) THEN WithoutBuddy(c) ELSE server
    BY <1>11 DEF Delete
  <2>3. server'.hidden = server.hidden /\ server'.visible = server.visible
        /\ server'.invisible = server.invisible
    BY <1>0, <2>2, NoBuddyFields
  <2> QED BY <2>1, <2>3, LinkElsewhere
<1>12. ASSUME NEW c \in Contact, UndoDelete(c) PROVE LinkInv'
  <2> DEFINE e == [entry[c] EXCEPT !.undo = "none"]
  <2>1. CASE UNCHANGED status /\ Permanent(c, e) /\ UNCHANGED <<loggedIn, wanted, self, fetch, inbox>>
    <3>1. Usable(e)
      BY <1>12, UndoneFields DEF UndoDelete
    <3> HIDE DEF e
    <3> QED BY <2>1, <3>1, PermanentLink
  <2> QED BY <1>10, <1>12, <2>1 DEF UndoDelete
<1>13. ASSUME NEW c \in Contact, Toggle(c) PROVE LinkInv'
  <2>1. UNCHANGED <<loggedIn, wanted, self, inbox>> /\ (outrun' <=> outrun \/ Unheard)
    BY <1>13 DEF Toggle
  <2>2. server'.hidden = server.hidden
    BY <1>0, <1>13, ToggleServer
  <2>3. Unheard' <=> Unheard
    BY <2>1 DEF Unheard
  <2>4. ASSUME loggedIn, ~outrun' PROVE ListKnown'
    <3>1. ListKnown /\ self.invisible = wanted
      BY <2>1, <2>4 DEF LinkInv
    <3>2. IF self.invisible THEN server'.visible = visible' ELSE server'.invisible = invisible'
      BY <1>0, <1>13, <2>4, <3>1, ToggleLists DEF ListKnown
    <3> QED BY <2>1, <3>1, <3>2 DEF ListKnown
  <2> QED BY <2>1, <2>2, <2>3, <2>4 DEF LinkInv
<1>14. ASSUME NEW c \in Contact, NEW online \in BOOLEAN, ServerTells(c, online) PROVE LinkInv'
  <2>1. UNCHANGED <<visible, invisible, loggedIn, wanted, self, outrun, server>>
        /\ \E m \in {Online(c), Offline(c)} : inbox' = inbox \o <<m>>
    BY <1>14 DEF ServerTells, Hear, libVars
  <2>2. \A m \in {Online(c), Offline(c)} : m \in Answer /\ m.type # "self"
    <3>1. Online(c).type # "self" /\ Offline(c).type # "self"
      BY DEF Online, Offline
    <3> QED BY <3>1, AnswersType
  <2> QED BY <1>0, <2>1, <2>2, AppendEchoes, LinkElsewhere
<1>15. CASE UNCHANGED vars
  BY <1>10, <1>15 DEF vars, libVars
<1> QED
  BY <1>1, <1>2, <1>3, <1>4, <1>5, <1>6, <1>7, <1>8, <1>9, <1>10, <1>11, <1>12, <1>13, <1>14, <1>15
     DEF Next, Hears, AddAsPending, AddTemporarily

-----------------------------------------------------------------------------
(* The theorems.                                                           *)

\* The values that the variables take
THEOREM ContactsTypeCorrect == Spec => []TypeOK
<1>1. Init => TypeInv
  BY InitType
<1>2. TypeInv /\ [Next]_vars => TypeInv'
  BY NextType
<1>3. TypeInv => TypeOK
  BY DEF TypeInv
<1> QED BY <1>1, <1>2, <1>3, PTL DEF Spec

\* The document's entries, the library's lists and tree, and the server agree
\* about each contact, whatever the order of the user's commands and of what the
\* server sends.
THEOREM RosterAgreement == Spec => []RosterAgrees
<1>1. Init => RosterInv
  BY InitRoster
<1>2. RosterInv /\ [Next]_vars => RosterInv'
  BY NextRoster
<1>3. RosterInv => RosterAgrees
  <2> SUFFICES ASSUME RosterInv PROVE RosterAgrees
    OBVIOUS
  <2>1. \A c \in Contact : MarksOK(c) /\ PlaceOK(c)
    BY DEF RosterInv, ContactsOK
  <2>2. visible \subseteq Contact
    BY DEF RosterInv, TypeInv, TypeOK
  <2>3. ListsExclusive
    BY <2>1, <2>2 DEF ListsExclusive, MarksOK
  <2>4. ListsAreMarked
    BY <2>1 DEF ListsAreMarked, MarksOK
  <2>5. BuddiesAreInTree /\ DeletedIsForgotten /\ ShownIsTold
    BY <2>1 DEF BuddiesAreInTree, DeletedIsForgotten, ShownIsTold, PlaceOK
  <2> QED BY <2>3, <2>4, <2>5 DEF RosterAgrees
<1> QED BY <1>1, <1>2, <1>3, PTL DEF Spec

\* Unless a change was made before the server had echoed the one before, the
\* server shows the user to those whom the client's lists say, once it has echoed.
THEOREM VisibilityKnown == Spec => []VisibilityIsKnown
<1>1. Init => TypeInv /\ LinkInv
  BY InitType, InitLink
<1>2. TypeInv /\ LinkInv /\ [Next]_vars => TypeInv' /\ LinkInv'
  BY NextType, NextLink
<1>3. LinkInv => VisibilityIsKnown
  <2> SUFFICES ASSUME LinkInv, loggedIn, ~Unheard, ~outrun
               PROVE  /\ server.hidden = wanted
                      /\ \A c \in Contact : Sees(c) <=> IF wanted THEN c \in visible ELSE c \notin invisible
    BY DEF VisibilityIsKnown
  <2>1. server.hidden = wanted /\ ListKnown
    BY DEF LinkInv
  <2> QED BY <2>1 DEF ListKnown, Sees
<1> QED BY <1>1, <1>2, <1>3, PTL DEF Spec
=============================================================================
