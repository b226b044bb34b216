-------------------------- MODULE FileOffer_proofs --------------------------
(***************************************************************************)
(* Proofs about FileOffer, for all offers and senders and every number of  *)
(* connections.                                                            *)
(*                                                                         *)
(* OfferInv says what OutcomeIsTheUsers rests on.  LocalOK is about one    *)
(* program: its list, its queues, its caches and its events fit.  Honest   *)
(* and Open compare its events with what the users have done, as far as    *)
(* numbers name offers and the programs have connected once.  StartsOK     *)
(* and MessagesOK are about the messages on their way, ShownOK, ServerOK   *)
(* and ConnsOK about the two programs.  A state of an event says nothing   *)
(* of who caused it, and a message has only a number: so Says ties every   *)
(* answer and cancellation to what some user has done, before it is read.  *)
(*                                                                         *)
(* A callback goes through several states of the program before it sends   *)
(* anything, so the invariants are restated for the middle of one: Amid is *)
(* LocalOK, what it has left of the program it began with (Onward), and    *)
(* what it is to send (OutOK); Kept is for Honest and Open.  Lemmas say    *)
(* what each operator of FileOffer makes of them, CallbackKeeps that       *)
(* OfferInv holds once the callback has ended, and one lemma for each      *)
(* action that it ends so.                                                 *)
(***************************************************************************)
EXTENDS FileOffer, SequenceTheorems, FiniteSetTheorems, WellFoundedInduction, TLAPS

\* The values of the variables
Entry == [seq : Nat, offer : Offers]
Client == [state : ClientStates, queue : Seq(Offers), cache : Seq(Entry), sent : Nat]
Event == [state : EventStates, seq : Nat, direct : BOOLEAN]
Program ==
    [event : [Offers -> Event], dc : [Conns -> Client], list : Seq(Conns),
     cookies : SUBSET Offers, out : Seq(Conns \X Message)]

\* The list by which connections expire has those that are open.
Listed(s) == \A c \in Conns : c \in ToSet(s.list) <=> s.dc[c].state \notin {"none", "closed"}

\* Where an offer may wait in a program: for its connection, or for its answer
Queued(s, o) == \E c \in Conns : \E i \in 1..Len(s.dc[c].queue) : s.dc[c].queue[i] = o
Cached(s, o) == \E c \in Conns : \E i \in 1..Len(s.dc[c].cache) : s.dc[c].cache[i].offer = o

\* An offer that has not been sent: nothing has come of it but that its user
\* may have withdrawn it, and the code leaves it queued then.
Waiting(p, s, wd, o) ==
    /\ from[o] = p /\ s.event[o].seq = 0 /\ s.event[o].direct /\ o \notin s.cookies
    /\ s.event[o].state # "none"
    /\ s.event[o].state = "WAIT_RESPONS" \/ wd[o] = "queued"

\* Queues have only such offers, each once.
QueuesOK(p, s, wd) ==
    /\ \A c \in Conns : \A i \in 1..Len(s.dc[c].queue) : Waiting(p, s, wd, s.dc[c].queue[i])
    /\ \A c, d \in Conns : \A i \in 1..Len(s.dc[c].queue), j \in 1..Len(s.dc[d].queue) :
          s.dc[c].queue[i] = s.dc[d].queue[j] => c = d /\ i = j

\* A cached number is that of the event, which was sent or has come in.
EntryOK(s, e) ==
    /\ s.event[e.offer].seq = e.seq /\ e.seq > 0 /\ s.event[e.offer].direct
    /\ s.event[e.offer].state # "none"

\* Caches belong to connections that can be used, and have each offer once.
CachesOK(s) ==
    /\ \A c \in Conns : \A i \in 1..Len(s.dc[c].cache) :
          s.dc[c].state = "CONNECTED" /\ EntryOK(s, s.dc[c].cache[i])
    /\ \A c, d \in Conns : \A i \in 1..Len(s.dc[c].cache), j \in 1..Len(s.dc[d].cache) :
          s.dc[c].cache[i].offer = s.dc[d].cache[j].offer => c = d /\ i = j

\* What the states of an event, its number and its cookie say of each other
EventsOK(p, s, wd) ==
    \A o \in Offers :
       /\ s.event[o].state = "none" => s.event[o].seq = 0 /\ o \notin s.cookies
       /\ from[o] = p /\ o \in s.cookies => s.event[o].seq = 0
       /\ from[o] = p /\ wd[o] # "no" => s.event[o].state \notin {"none", "WAIT_RESPONS"}

\* A program by itself
LocalOK(p, s, wd) ==
    s \in Program /\ Listed(s) /\ QueuesOK(p, s, wd) /\ CachesOK(s) /\ EventsOK(p, s, wd)

\* The state of an offer is what the user at the other end, or the user here,
\* has made of it.
HonestAt(p, s, an, wd, o) ==
    /\ from[o] = p /\ s.event[o].state = "ACCEPTED" => an[o] = "accepted"
    /\ from[o] = p /\ s.event[o].state = "REJECTED" => an[o] = "declined"
    /\ from[o] # p /\ s.event[o].state = "CANCELLED" => wd[o] # "no"
Honest(p, s, an, wd) == \A o \in Offers : HonestAt(p, s, an, wd, o)

\* An offer in a cache has not been decided.
OpenAt(p, s, an, wd, o) ==
    /\ Cached(s, o) /\ from[o] = p => s.event[o].state = "WAIT_RESPONS" \/ wd[o] = "queued"
    /\ Cached(s, o) /\ from[o] # p => an[o] = "none"
    /\ from[o] = p /\ wd[o] = "yes" => s.event[o].state # "ACCEPTED"
Open(p, s, an, wd) == \A o \in Offers : OpenAt(p, s, an, wd, o)

\* The offer that a message on its way to q brings is not yet known there.
Starts(q, m) ==
    m.type = "START" => /\ from[m.offer] = Other(q) /\ m.seq = Made(m.offer).seq /\ m.seq > 0
                        /\ Shown(m.offer).state = "none"

\* And no other message brings it.
StartsOK ==
    /\ \A q \in Programs, c \in Conns : \A i \in 1..Len(chan[c][q]) : Starts(q, chan[c][q][i])
    /\ \A q \in Programs, c, d \in Conns : \A i \in 1..Len(chan[c][q]), j \in 1..Len(chan[d][q]) :
          chan[c][q][i].type = "START" /\ chan[d][q][j].type = "START"
             /\ chan[c][q][i].offer = chan[d][q][j].offer => c = d /\ i = j

\* An answer or a cancellation on its way to q tells what a user has done with
\* some offer of that number, of which there may be several.
Says(q, m, an, wd) ==
    /\ m.type = "ANSWER" /\ m.seq # 0 =>
         \E o \in Offers : from[o] = q /\ Made(o).seq = m.seq /\ an[o] = IF m.accepted THEN "accepted" ELSE "declined"
    /\ m.type = "CANCEL" /\ m.seq # 0 =>
         \E o \in Offers : from[o] = Other(q) /\ Made(o).seq = m.seq /\ wd[o] # "no"

\* So for all messages on their way
MessagesOK ==
    \A q \in Programs, c \in Conns : \A i \in 1..Len(chan[c][q]) : Says(q, chan[c][q][i], answer, withdrawn)

\* The two ends of an offer: the number is the same, and nothing comes before it
\* was made and sent.
ShownOK ==
    \A o \in Offers :
       /\ Shown(o).seq \in {0, Made(o).seq}
       /\ Shown(o).state = "none" => answer[o] = "none"
       /\ Made(o).state = "none" \/ Queued(prog[from[o]], o) => Shown(o).state = "none"

\* What goes by the server was made, has no number and waits nowhere.
ServerOK ==
    server \subseteq Offers /\
    \A o \in server : Made(o).state # "none" /\ Made(o).seq = 0 /\ ~Queued(prog[from[o]], o)

\* Connections are used in the order of their numbers.
ConnsOK ==
    /\ caller \in [Conns -> Programs \cup {"none"}]
    /\ \E n \in 0..MaxConns : Used = 1..n
    /\ \A c \in Conns, p \in Programs : caller[c] = "none" => prog[p].dc[c].state = "none"

\* The inductive invariant
OfferInv ==
    /\ from \in [Offers -> Programs] /\ prog \in [Programs -> Program]
    /\ chan \in [Conns -> [Programs -> Seq(Message)]]
    /\ answer \in [Offers -> {"none", "accepted", "declined"}]
    /\ withdrawn \in [Offers -> {"no", "yes", "queued"}]
    /\ \A p \in Programs : LocalOK(p, prog[p], withdrawn) /\ prog[p].out = <<>>
    /\ Ambiguous \/ \A p \in Programs : Honest(p, prog[p], answer, withdrawn)
    /\ Ambiguous \/ Reconnected \/ \A p \in Programs : Open(p, prog[p], answer, withdrawn)
    /\ StartsOK /\ MessagesOK /\ ShownOK /\ ServerOK /\ ConnsOK

-----------------------------------------------------------------------------
(* Numbers and sequences.                                                  *)

\* A set of naturals has a least element.  (The library's theorem about the order
\* of the naturals takes an operator; that of the subsets of a finite set does not.)
LEMMA Least ==
  ASSUME NEW N \in Nat, NEW T \in SUBSET (0..N), T # {}
  PROVE  \E n \in T : \A k \in T : n <= k
<1> DEFINE R == StrictSubsetOrdering(0..N)
           S == FiniteSubsetsOf(0..N)
           Below == {0..(n - 1) : n \in T}
<1>1. IsWellFoundedOn(R, S)
  BY FS_StrictSubsetOrderingWellFounded
<1>2. Below \subseteq S /\ Below # {}
  <2>1. ASSUME NEW n \in T PROVE 0..(n - 1) \in S
    <3>1. n - 1 \in Int /\ 0..(n - 1) \subseteq 0..N
      OBVIOUS
    <3>2. IsFiniteSet(0..(n - 1))
      BY <3>1, FS_Interval
    <3> QED BY <3>1, <3>2 DEF FiniteSubsetsOf
  <2> QED BY <2>1
<1>3. PICK B \in Below : \A C \in Below : <<C, B>> \notin R
  <2> HIDE DEF R, S, Below
  <2> QED BY <1>1, <1>2, WFMin
<1>4. PICK n \in T : B = 0..(n - 1)
  OBVIOUS
<1>5. ASSUME NEW k \in T, k < n PROVE FALSE
  <2>1. 0..(k - 1) \in Below /\ B \in Below
    OBVIOUS
  <2>2. 0..(k - 1) \subseteq 0..N /\ B \subseteq 0..N
    BY <1>4
  <2>3. 0..(k - 1) \subseteq B /\ 0..(k - 1) # B
    <3>1. k \in B /\ k \notin 0..(k - 1)
      BY <1>4, <1>5
    <3>2. 0..(k - 1) \subseteq B
      BY <1>4, <1>5
    <3> QED BY <3>1, <3>2
  <2>4. <<0..(k - 1), B>> \in R
    BY <2>2, <2>3 DEF StrictSubsetOrdering
  <2> QED BY <1>3, <2>1, <2>4
<1> QED BY <1>5

\* Only is a loop over the sequence: one turn of it
Turn(g, s, K, i) ==
    IF i = 0 THEN <<>> ELSE IF s[i] \in K THEN Append(g[i - 1], s[i]) ELSE g[i - 1]
Goes(g, s, K, n) == g = [i \in 0..n |-> Turn(g, s, K, i)]

\* A function does what the turns of Only say.
LEMMA OnlyExists ==
  ASSUME NEW s, NEW K, Len(s) \in Nat
  PROVE  \E g : Goes(g, s, K, Len(s))
<1> DEFINE Bad == {n \in 0..Len(s) : ~\E g : Goes(g, s, K, n)}
<1>1. \E g : Goes(g, s, K, 0)
  <2> WITNESS [i \in 0..0 |-> <<>>]
  <2> QED BY DEF Goes, Turn
<1>2. ASSUME NEW n \in 0..Len(s), n + 1 \in 0..Len(s), NEW g, Goes(g, s, K, n)
      PROVE  \E h : Goes(h, s, K, n + 1)
  <2> DEFINE h == [i \in 0..n+1 |-> IF i = n + 1 THEN Turn(g, s, K, n + 1) ELSE g[i]]
  <2>1. \A i \in 0..n : g[i] = Turn(g, s, K, i)
    BY <1>2 DEF Goes
  <2>2. ASSUME NEW i \in 0..n+1 PROVE h[i] = Turn(h, s, K, i)
    <3>1. CASE i = n + 1
      BY <3>1 DEF Turn
    <3>2. CASE i # n + 1
      <4>1. i \in 0..n /\ (i # 0 => i - 1 \in 0..n)
        BY <3>2
      <4>2. h[i] = g[i] /\ (i # 0 => h[i - 1] = g[i - 1])
        BY <4>1
      <4> QED BY <2>1, <4>1, <4>2 DEF Turn
    <3> QED BY <3>1, <3>2
  <2>3. h = [i \in 0..n+1 |-> h[i]]
    OBVIOUS
  <2> HIDE DEF h
  <2>4. Goes(h, s, K, n + 1)
    BY <2>2, <2>3 DEF Goes
  <2> QED BY <2>4
<1>3. Bad = {}
  <2>1. SUFFICES ASSUME Bad # {} PROVE FALSE
    OBVIOUS
  <2>2. PICK k \in Bad : \A j \in Bad : k <= j
    <3>1. Bad \in SUBSET (0..Len(s))
      OBVIOUS
    <3> HIDE DEF Bad
    <3> QED BY <2>1, <3>1, Least
  <2>3. k # 0
    BY <1>1
  <2>4. k - 1 \in 0..Len(s) /\ k - 1 \notin Bad /\ (k - 1) + 1 = k
    BY <2>2, <2>3
  <2>5. PICK g : Goes(g, s, K, k - 1)
    BY <2>4
  <2>6. \E h : Goes(h, s, K, k)
    BY <1>2, <2>4, <2>5
  <2> QED BY <2>6
<1> QED
  <2>1. Len(s) \notin Bad
    BY <1>3
  <2> QED BY <2>1

\* A loop whose turns lead from one set of sequences to the next ends in the last.
LEMMA OnlyStays ==
  ASSUME NEW s, NEW K, Len(s) \in Nat, NEW S, <<>> \in S[0],
         \A i \in 1..Len(s) : \A u \in S[i - 1] :
            IF s[i] \in K THEN Append(u, s[i]) \in S[i] ELSE u \in S[i]
  PROVE  Only(s, K) \in S[Len(s)]
<1>1. PICK g : Goes(g, s, K, Len(s))
  BY OnlyExists
<1> DEFINE Body(h) == [i \in 0..Len(s) |->
                         IF i = 0 THEN <<>>
                         ELSE IF s[i] \in K THEN Append(h[i - 1], s[i]) ELSE h[i - 1]]
           front == CHOOSE h : h = Body(h)
<1>2. front = Body(front)
  BY <1>1 DEF Goes, Turn
<1>3. Only(s, K) = front[Len(s)]
  BY DEF Only
<1> HIDE DEF front
<1>4. \A i \in 0..Len(s) : front[i] = IF i = 0 THEN <<>>
                                      ELSE IF s[i] \in K THEN Append(front[i - 1], s[i]) ELSE front[i - 1]
  BY <1>2
<1> DEFINE Bad == {n \in 0..Len(s) : front[n] \notin S[n]}
<1>5. SUFFICES ASSUME Bad # {} PROVE FALSE
  BY <1>3
<1>6. PICK k \in Bad : \A j \in Bad : k <= j
  <2>1. Bad \in SUBSET (0..Len(s))
    OBVIOUS
  <2> HIDE DEF Bad
  <2> QED BY <1>5, <2>1, Least
<1>7. k # 0
  BY <1>4
<1>8. k - 1 \in 0..Len(s) /\ k - 1 \notin Bad /\ k \in 1..Len(s)
  BY <1>6, <1>7
<1>9. front[k - 1] \in S[k - 1]
  BY <1>8
<1>10. front[k] \in S[k]
  <2>1. PICK u : u = front[k - 1]
    OBVIOUS
  <2>2. front[k] = IF s[k] \in K THEN Append(u, s[k]) ELSE u
    BY <1>4, <1>7, <1>8, <2>1
  <2>3. IF s[k] \in K THEN Append(u, s[k]) \in S[k] ELSE u \in S[k]
    BY <1>8, <1>9, <2>1
  <2> QED BY <2>2, <2>3
<1> QED BY <1>6, <1>10

\* u has the elements of the first n of s that are in K, each at a place of its own.
Picks(u, s, K, n) ==
    \E h \in [1..Len(u) -> 1..n] :
       /\ \A i \in 1..Len(u) : u[i] = s[h[i]] /\ s[h[i]] \in K
       /\ \A i, j \in 1..Len(u) : h[i] = h[j] => i = j
       /\ \A k \in 1..n : s[k] \in K => \E i \in 1..Len(u) : h[i] = k

\* What Only keeps
LEMMA OnlyIs ==
  ASSUME NEW T, NEW s \in Seq(T), NEW K
  PROVE  Only(s, K) \in Seq(T) /\ Picks(Only(s, K), s, K, Len(s))
<1> DEFINE S == [n \in 0..Len(s) |-> {u \in Seq(T) : Picks(u, s, K, n)}]
<1>1. Len(s) \in Nat
  OBVIOUS
<1>2. <<>> \in S[0]
  <2>1. Picks(<<>>, s, K, 0)
    <3> DEFINE h == [i \in 1..0 |-> 0]
    <3>1. h \in [1..Len(<<>>) -> 1..0]
      OBVIOUS
    <3> HIDE DEF h
    <3>2. \A i \in 1..Len(<<>>) : FALSE
      OBVIOUS
    <3>3. \A k \in 1..0 : FALSE
      OBVIOUS
    <3>4. h \in [1..Len(<<>>) -> 1..0]
      BY <3>1
    <3> QED BY <3>2, <3>3, <3>4, Zenon DEF Picks
  <2> QED BY <2>1
<1>3. ASSUME NEW n \in 1..Len(s), NEW u \in S[n - 1]
      PROVE  IF s[n] \in K THEN Append(u, s[n]) \in S[n] ELSE u \in S[n]
  <2>1. u \in Seq(T) /\ Picks(u, s, K, n - 1) /\ n - 1 \in Nat /\ Len(u) \in Nat /\ s[n] \in T
    OBVIOUS
  <2>2. PICK h \in [1..Len(u) -> 1..(n - 1)] :
          /\ \A i \in 1..Len(u) : u[i] = s[h[i]] /\ s[h[i]] \in K
          /\ \A i, j \in 1..Len(u) : h[i] = h[j] => i = j
          /\ \A k \in 1..(n - 1) : s[k] \in K => \E i \in 1..Len(u) : h[i] = k
    BY <2>1 DEF Picks
  <2>3. CASE s[n] \in K
    <3>1. PICK v : v = Append(u, s[n])
      OBVIOUS
    <3>2. v \in Seq(T) /\ Len(v) = Len(u) + 1 /\ v[Len(u) + 1] = s[n] /\ \A i \in 1..Len(u) : v[i] = u[i]
      BY <2>1, <3>1, AppendProperties
    <3>3. PICK g : g = [i \in 1..Len(v) |-> IF i = Len(u) + 1 THEN n ELSE h[i]]
      OBVIOUS
    <3>4. \A i \in 1..Len(v) : i = Len(u) + 1 \/ i \in 1..Len(u)
      BY <2>1, <3>2
    <3>5. \A i \in 1..Len(u) : g[i] = h[i] /\ g[i] \in 1..(n - 1) /\ i \in 1..Len(v)
      <4>1. ASSUME NEW i \in 1..Len(u) PROVE i \in 1..Len(v) /\ i # Len(u) + 1
        BY <2>1, <3>2
      <4>2. \A i \in 1..Len(u) : g[i] = h[i]
        BY <3>3, <4>1
      <4> QED BY <2>2, <4>1, <4>2
    <3>6. g[Len(u) + 1] = n /\ Len(u) + 1 \in 1..Len(v)
      BY <2>1, <3>2, <3>3
    <3>7. g \in [1..Len(v) -> 1..n]
      BY <2>1, <3>3, <3>4, <3>5, <3>6
    <3>8. \A i \in 1..Len(v) : v[i] = s[g[i]] /\ s[g[i]] \in K
      BY <2>2, <2>3, <3>2, <3>4, <3>5, <3>6
    <3>9. \A i, j \in 1..Len(v) : g[i] = g[j] => i = j
      <4>1. ASSUME NEW i \in 1..Len(v), NEW j \in 1..Len(v), g[i] = g[j] PROVE i = j
        <5>1. n \notin 1..(n - 1)
          BY <2>1
        <5> QED BY <2>2, <3>4, <3>5, <3>6, <4>1, <5>1
      <4> QED BY <4>1
    <3>10. \A k \in 1..n : s[k] \in K => \E i \in 1..Len(v) : g[i] = k
      <4>1. \A k \in 1..n : k = n \/ k \in 1..(n - 1)
        BY <2>1
      <4> QED BY <2>2, <3>5, <3>6, <4>1
    <3>11. Picks(v, s, K, n)
      BY <3>7, <3>8, <3>9, <3>10 DEF Picks
    <3>12. n \in 0..Len(s) /\ v \in {w \in Seq(T) : Picks(w, s, K, n)}
      BY <3>2, <3>11
    <3>13. v \in S[n]
      BY <3>12
    <3> QED BY <2>3, <3>1, <3>13
  <2>4. CASE s[n] \notin K
    <3>1. h \in [1..Len(u) -> 1..n]
      BY <2>1, <2>2
    <3>2. \A k \in 1..n : s[k] \in K => \E i \in 1..Len(u) : h[i] = k
      <4>1. \A k \in 1..n : k = n \/ k \in 1..(n - 1)
        BY <2>1
      <4> QED BY <2>2, <2>4, <4>1
    <3>3. Picks(u, s, K, n)
      BY <2>2, <3>1, <3>2 DEF Picks
    <3> QED BY <2>1, <2>4, <3>3
  <2> QED BY <2>3, <2>4
<1>4. Only(s, K) \in S[Len(s)]
  <2> HIDE DEF S
  <2> QED BY <1>1, <1>2, <1>3, OnlyStays
<1> QED BY <1>1, <1>4

\* u has elements of s, each from a place of its own.
Within(u, s) ==
    \E h \in [1..Len(u) -> 1..Len(s)] :
       /\ \A i \in 1..Len(u) : u[i] = s[h[i]]
       /\ \A i, j \in 1..Len(u) : h[i] = h[j] => i = j

\* What leaves a sequence as it is, empties or thins it, or removes its first
LEMMA WithinSelf == ASSUME NEW T, NEW s \in Seq(T) PROVE Within(s, s)
<1>1. PICK h : h = [i \in 1..Len(s) |-> i]
  OBVIOUS
<1> QED BY <1>1 DEF Within

LEMMA WithinNone == ASSUME NEW u, u = <<>>, NEW s PROVE Within(u, s)
<1>1. \A i \in 1..Len(u) : FALSE
  OBVIOUS
<1>2. PICK h : h = [i \in 1..Len(u) |-> 0]
  OBVIOUS
<1>3. h \in [1..Len(u) -> 1..Len(s)]
  BY <1>1, <1>2
<1> QED BY <1>1, <1>3, Zenon DEF Within

LEMMA WithinOnly == ASSUME NEW T, NEW s \in Seq(T), NEW K PROVE Within(Only(s, K), s)
BY OnlyIs DEF Picks, Within

LEMMA WithinTail == ASSUME NEW T, NEW s \in Seq(T), s # <<>> PROVE Within(Tail(s), s)
<1>1. PICK u : u = Tail(s)
  OBVIOUS
<1>2. /\ u \in Seq(T) /\ Len(s) \in Nat /\ Len(u) \in Nat /\ Len(s) = Len(u) + 1
      /\ \A i \in 1..Len(u) : u[i] = s[i + 1]
  BY <1>1, HeadTailProperties
<1>3. PICK h : h = [i \in 1..Len(u) |-> i + 1]
  OBVIOUS
<1>4. h \in [1..Len(u) -> 1..Len(s)]
  BY <1>2, <1>3
<1>5. \A i, j \in 1..Len(u) : h[i] = h[j] => i = j
  BY <1>2, <1>3
<1>6. \A i \in 1..Len(u) : u[i] = s[h[i]]
  BY <1>2, <1>3
<1> QED BY <1>1, <1>4, <1>5, <1>6 DEF Within

\* What is in a sequence
LEMMA InSet ==
  ASSUME NEW T, NEW s \in Seq(T)
  PROVE  /\ ToSet(s) \subseteq T
         /\ \A x : x \in ToSet(s) <=> \E i \in 1..Len(s) : x = s[i]
BY DEF ToSet

LEMMA OnlySet == ASSUME NEW T, NEW s \in Seq(T), NEW K PROVE ToSet(Only(s, K)) = ToSet(s) \cap K
<1>1. PICK u : u = Only(s, K)
  OBVIOUS
<1>2. u \in Seq(T) /\ Picks(u, s, K, Len(s))
  BY <1>1, OnlyIs
<1>3. PICK h \in [1..Len(u) -> 1..Len(s)] :
       /\ \A i \in 1..Len(u) : u[i] = s[h[i]] /\ s[h[i]] \in K
       /\ \A k \in 1..Len(s) : s[k] \in K => \E i \in 1..Len(u) : h[i] = k
  BY <1>2 DEF Picks
<1>4. ASSUME NEW x \in ToSet(u) PROVE x \in ToSet(s) \cap K
  <2>1. PICK i \in 1..Len(u) : x = u[i]
    BY <1>2, <1>4, InSet
  <2>2. h[i] \in 1..Len(s)
    BY <1>3, <2>1
  <2> QED BY <1>3, <2>1, <2>2, InSet
<1>5. ASSUME NEW x \in ToSet(s) \cap K PROVE x \in ToSet(u)
  <2>1. PICK k \in 1..Len(s) : x = s[k]
    BY <1>5, InSet
  <2>2. PICK i \in 1..Len(u) : h[i] = k
    BY <1>3, <1>5, <2>1
  <2>3. u[i] = x
    BY <1>3, <2>1, <2>2
  <2> QED BY <1>2, <2>2, <2>3, InSet
<1>6. ToSet(u) = ToSet(s) \cap K
  BY <1>4, <1>5
<1> QED BY <1>1, <1>6

LEMMA ConcatSet ==
  ASSUME NEW T, NEW s \in Seq(T), NEW t \in Seq(T)
  PROVE  s \o t \in Seq(T) /\ ToSet(s \o t) = ToSet(s) \cup ToSet(t)
<1>1. PICK u : u = s \o t
  OBVIOUS
<1>2. /\ u \in Seq(T) /\ Len(u) = Len(s) + Len(t) /\ Len(s) \in Nat /\ Len(t) \in Nat
      /\ \A i \in 1 .. Len(s) + Len(t) : u[i] = IF i <= Len(s) THEN s[i] ELSE t[i - Len(s)]
  BY <1>1, ConcatProperties
<1>3. ASSUME NEW x \in ToSet(u) PROVE x \in ToSet(s) \cup ToSet(t)
  <2>1. PICK i \in 1..Len(u) : x = u[i]
    BY <1>2, <1>3, InSet
  <2>2. CASE i <= Len(s)
    <3>1. i \in 1..Len(s) /\ x = s[i]
      BY <1>2, <2>1, <2>2
    <3> QED BY <3>1, InSet
  <2>3. CASE ~(i <= Len(s))
    <3>1. i - Len(s) \in 1..Len(t) /\ x = t[i - Len(s)]
      BY <1>2, <2>1, <2>3
    <3> QED BY <3>1, InSet
  <2> QED BY <2>2, <2>3
<1>4. ASSUME NEW x \in ToSet(s) PROVE x \in ToSet(u)
  <2>1. PICK i \in 1..Len(s) : x = s[i]
    BY <1>4, InSet
  <2>2. i \in 1..Len(u) /\ u[i] = x
    BY <1>2, <2>1
  <2> QED BY <1>2, <2>2, InSet
<1>5. ASSUME NEW x \in ToSet(t) PROVE x \in ToSet(u)
  <2>1. PICK i \in 1..Len(t) : x = t[i]
    BY <1>5, InSet
  <2>2. PICK k \in Nat : k = Len(s)
    BY <1>2
  <2>3. PICK m \in Nat : m = Len(t)
    BY <1>2
  <2>4. /\ Len(u) = k + m /\ i \in 1..m
        /\ \A j \in 1..(k + m) : u[j] = IF j <= k THEN s[j] ELSE t[j - k]
    BY <1>2, <2>1, <2>2, <2>3
  <2>5. k + i \in 1..(k + m) /\ ~(k + i <= k) /\ (k + i) - k = i
    BY <2>2, <2>3, <2>4
  <2>6. u[k + i] = x
    BY <2>1, <2>4, <2>5
  <2>7. k + i \in 1..Len(u)
    BY <2>4, <2>5
  <2> QED BY <1>2, <2>6, <2>7, InSet
<1>6. ToSet(u) = ToSet(s) \cup ToSet(t)
  BY <1>3, <1>4, <1>5
<1> QED BY <1>1, <1>2, <1>6

\* One more element, at either end
LEMMA OneMore ==
  ASSUME NEW T, NEW s \in Seq(T), NEW e \in T, NEW u, u = Append(s, e) \/ u = <<e>> \o s
  PROVE  /\ u \in Seq(T) /\ Len(u) = Len(s) + 1 /\ Len(s) \in Nat
         /\ \E h \in [1..Len(u) -> 0..Len(s)] :
              /\ \A i \in 1..Len(u) : h[i] = 0 => u[i] = e
              /\ \A i \in 1..Len(u) : h[i] # 0 => u[i] = s[h[i]]
              /\ \A i, j \in 1..Len(u) : h[i] = h[j] => i = j
         /\ e \in ToSet(u) /\ ToSet(u) = ToSet(s) \cup {e}
<1>1. Len(s) \in Nat
  OBVIOUS
<1>2. CASE u = Append(s, e)
  <2>1. /\ u \in Seq(T) /\ Len(u) = Len(s) + 1 /\ u[Len(s) + 1] = e /\ \A i \in 1..Len(s) : u[i] = s[i]
    BY <1>2, AppendProperties
  <2>2. PICK h : h = [i \in 1..Len(u) |-> IF i = Len(s) + 1 THEN 0 ELSE i]
    OBVIOUS
  <2>3. \A i \in 1..Len(u) : (i = Len(s) + 1 /\ h[i] = 0) \/ (i \in 1..Len(s) /\ h[i] = i /\ h[i] # 0)
    BY <1>1, <2>1, <2>2
  <2>4. h \in [1..Len(u) -> 0..Len(s)]
    BY <1>1, <2>1, <2>2
  <2>5. \A i, j \in 1..Len(u) : h[i] = h[j] => i = j
    BY <2>3
  <2>6. ToSet(u) = ToSet(s) \cup {e}
    <3>1. \A x : (\E i \in 1..Len(u) : x = u[i]) <=> (x = e \/ \E i \in 1..Len(s) : x = s[i])
      BY <1>1, <2>1, <2>3
    <3>2. \A x : x \in ToSet(u) <=> (x = e \/ x \in ToSet(s))
      BY <2>1, <3>1, InSet
    <3> QED BY <3>2
  <2>7. /\ \A i \in 1..Len(u) : h[i] = 0 => u[i] = e
        /\ \A i \in 1..Len(u) : h[i] # 0 => u[i] = s[h[i]]
    BY <2>1, <2>3
  <2> QED BY <1>1, <2>1, <2>4, <2>5, <2>6, <2>7
<1>3. CASE u = <<e>> \o s
  <2>1. /\ u \in Seq(T) /\ Len(u) = Len(s) + 1 /\ u[1] = e /\ \A i \in 1..Len(s) : u[i + 1] = s[i]
    <3>1. PICK v : v = <<e>>
      OBVIOUS
    <3>2. v = <<e>> /\ v \in Seq(T) /\ Len(v) = 1 /\ v[1] = e
      BY <3>1
    <3>3. /\ u \in Seq(T) /\ Len(u) = 1 + Len(s)
          /\ \A i \in 1 .. 1 + Len(s) : u[i] = IF i <= 1 THEN v[i] ELSE s[i - 1]
      BY <1>3, <3>2, ConcatProperties
    <3>4. \A i \in 1..Len(s) : i + 1 \in 1 .. 1 + Len(s) /\ ~(i + 1 <= 1) /\ (i + 1) - 1 = i
      BY <1>1
    <3>5. 1 \in 1 .. 1 + Len(s)
      BY <1>1
    <3> QED BY <1>1, <3>2, <3>3, <3>4, <3>5
  <2>2. PICK h : h = [i \in 1..Len(u) |-> i - 1]
    OBVIOUS
  <2>3. \A i \in 1..Len(u) : h[i] = i - 1 /\ (i = 1 \/ i - 1 \in 1..Len(s))
    BY <1>1, <2>1, <2>2
  <2>4. h \in [1..Len(u) -> 0..Len(s)]
    BY <1>1, <2>1, <2>2
  <2>5. \A i, j \in 1..Len(u) : h[i] = h[j] => i = j
    BY <1>1, <2>1, <2>3
  <2>6. /\ \A i \in 1..Len(u) : h[i] = 0 => u[i] = e
        /\ \A i \in 1..Len(u) : h[i] # 0 => u[i] = s[h[i]]
    <3>1. ASSUME NEW i \in 1..Len(u), i # 1 PROVE h[i] # 0 /\ u[i] = s[h[i]]
      <4>1. i - 1 \in 1..Len(s) /\ (i - 1) + 1 = i /\ h[i] = i - 1
        BY <1>1, <2>3, <2>1, <3>1
      <4> QED BY <2>1, <4>1
    <3>2. 1 \in 1..Len(u) => h[1] = 0 /\ u[1] = e
      BY <2>1, <2>3
    <3> QED BY <3>1, <3>2
  <2>7. ToSet(u) = ToSet(s) \cup {e}
    <3>1. \A x : (\E i \in 1..Len(u) : x = u[i]) => (x = e \/ \E i \in 1..Len(s) : x = s[i])
      <4>1. ASSUME NEW i \in 1..Len(u) PROVE u[i] = e \/ \E j \in 1..Len(s) : u[i] = s[j]
        <5>1. CASE h[i] = 0
          BY <2>6, <5>1
        <5>2. CASE h[i] # 0
          <6>1. h[i] \in 1..Len(s)
            BY <1>1, <2>4, <5>2
          <6> QED BY <2>6, <5>2, <6>1
        <5> QED BY <5>1, <5>2
      <4> QED BY <4>1
    <3>2. \A x : (\E i \in 1..Len(s) : x = s[i]) => \E i \in 1..Len(u) : x = u[i]
      <4>1. \A i \in 1..Len(s) : i + 1 \in 1..Len(u)
        BY <1>1, <2>1
      <4> QED BY <2>1, <4>1
    <3>3. \E i \in 1..Len(u) : e = u[i]
      <4>1. 1 \in 1..Len(u)
        BY <1>1, <2>1
      <4> QED BY <2>1, <4>1
    <3>4. \A x : x \in ToSet(u) <=> \E i \in 1..Len(u) : x = u[i]
      BY <2>1, InSet
    <3>5. \A x : x \in ToSet(s) <=> \E i \in 1..Len(s) : x = s[i]
      BY InSet
    <3>6. \A x : x \in ToSet(u) => (x = e \/ x \in ToSet(s))
      BY <3>1, <3>4, <3>5
    <3>7. \A x : x \in ToSet(s) => x \in ToSet(u)
      BY <3>2, <3>4, <3>5
    <3>8. e \in ToSet(u)
      BY <3>3, <3>4
    <3> QED BY <3>6, <3>7, <3>8
  <2> QED BY <1>1, <2>1, <2>4, <2>5, <2>7, <2>6
<1> QED BY <1>2, <1>3

\* Cache: removing the first entry of a number
LEMMA WithoutIs ==
  ASSUME NEW cache \in Seq(Entry), NEW n, Exists(cache, n),
         \A i, j \in 1..Len(cache) : cache[i].offer = cache[j].offer => i = j
  PROVE  /\ Without(cache, n) \in Seq(Entry) /\ Within(Without(cache, n), cache)
         /\ \E k \in 1..Len(cache) : cache[k].seq = n /\ cache[k].offer = Lookup(cache, n)
         /\ \A i \in 1..Len(Without(cache, n)) : Without(cache, n)[i].offer # Lookup(cache, n)
<1> DEFINE I == {i \in 1..Len(cache) : cache[i].seq = n}
<1>1. Len(cache) \in Nat
  OBVIOUS
<1>2. I # {} /\ I \in SUBSET (0..Len(cache))
  BY <1>1 DEF Exists
<1>3. \E i \in I : \A j \in I : i <= j
  <2> HIDE DEF I
  <2> QED BY <1>1, <1>2, Least
<1>4. PICK k : k = Min(I)
  OBVIOUS
<1>5. k \in I
  BY <1>3, <1>4 DEF Min
<1>6. SelectInSeq(cache, LAMBDA entry : entry.seq = n) = k
  BY <1>2, <1>4 DEF SelectInSeq
<1>7. Lookup(cache, n) = cache[k].offer
  BY <1>6, Zenon DEF Lookup
<1>8. Without(cache, n) = SubSeq(cache, 1, k - 1) \o SubSeq(cache, k + 1, Len(cache))
  <2>1. \E i \in 1..Len(cache) : cache[i].seq = n
    BY <1>2
  <2>2. Without(cache, n) = RemoveAt(cache, SelectInSeq(cache, LAMBDA entry : entry.seq = n))
    BY <2>1, Zenon DEF Without, RemoveFirstMatch
  <2>3. Without(cache, n) = RemoveAt(cache, k)
    BY <1>6, <2>2, Zenon
  <2> QED BY <2>3 DEF RemoveAt
<1>9. PICK u : u = Without(cache, n)
  OBVIOUS
<1>10. k \in 1..Len(cache) /\ cache[k].seq = n
  BY <1>5
<1> HIDE DEF I
<1>11. PICK a : /\ a = SubSeq(cache, 1, k - 1) /\ a \in Seq(Entry) /\ Len(a) = k - 1
                /\ \A i \in 1..(k - 1) : a[i] = cache[i]
  <2>1. PICK m \in Nat : m = k - 1 /\ m <= Len(cache)
    BY <1>1, <1>10
  <2>2. PICK a : a = SubSeq(cache, 1, m)
    OBVIOUS
  <2>3. a \in Seq(Entry) /\ Len(a) = m /\ \A i \in 1..m : a[i] = cache[i]
    BY <1>1, <2>1, <2>2
  <2> QED BY <2>1, <2>2, <2>3
<1>12. PICK b : /\ b = SubSeq(cache, k + 1, Len(cache)) /\ b \in Seq(Entry) /\ Len(b) = Len(cache) - k
                /\ \A i \in 1..(Len(cache) - k) : b[i] = cache[i + k]
  <2>1. PICK b : b = SubSeq(cache, k + 1, Len(cache))
    OBVIOUS
  <2>2. b \in Seq(Entry)
    BY <1>1, <1>10, <2>1
  <2>3. Len(b) = Len(cache) - k
    BY <1>1, <1>10, <2>1
  <2>4. \A i \in 1..(Len(cache) - k) : b[i] = cache[i + k]
    BY <1>1, <1>10, <2>1
  <2> QED BY <2>1, <2>2, <2>3, <2>4
<1>13. /\ u \in Seq(Entry) /\ Len(u) = Len(cache) - 1
       /\ \A i \in 1..(Len(cache) - 1) : u[i] = IF i <= k - 1 THEN a[i] ELSE b[i - (k - 1)]
  <2>1. u = a \o b
    BY <1>8, <1>9, <1>11, <1>12
  <2>2. /\ u \in Seq(Entry) /\ Len(u) = Len(a) + Len(b)
        /\ \A i \in 1 .. Len(a) + Len(b) : u[i] = IF i <= Len(a) THEN a[i] ELSE b[i - Len(a)]
    BY <1>11, <1>12, <2>1, ConcatProperties
  <2>3. PICK c \in Nat : c = Len(cache)
    BY <1>1
  <2>4. Len(a) = k - 1 /\ Len(b) = c - k /\ k \in 1..c
    BY <1>10, <1>11, <1>12, <2>3
  <2>5. Len(a) + Len(b) = c - 1
    BY <2>3, <2>4
  <2> QED BY <1>11, <2>2, <2>3, <2>5
<1>14. PICK h : h = [i \in 1..Len(u) |-> IF i <= k - 1 THEN i ELSE i + 1]
  OBVIOUS
<1>15. \A i \in 1..Len(u) : /\ h[i] = (IF i <= k - 1 THEN i ELSE i + 1)
                            /\ h[i] \in 1..Len(cache) /\ h[i] # k
  BY <1>1, <1>10, <1>13, <1>14
<1>16. \A i \in 1..Len(u) : u[i] = cache[h[i]]
  <2>1. ASSUME NEW i \in 1..Len(u) PROVE u[i] = cache[h[i]]
    <3>1. CASE i <= k - 1
      <4>1. i \in 1..(k - 1)
        BY <1>1, <1>10, <1>13, <3>1
      <4> QED BY <1>11, <1>13, <1>15, <3>1, <4>1
    <3>2. CASE ~(i <= k - 1)
      <4>1. PICK j : j = i - (k - 1) /\ j \in 1..(Len(cache) - k) /\ j + k = i + 1
        BY <1>1, <1>10, <1>13, <3>2
      <4>2. u[i] = b[j]
        BY <1>13, <3>2, <4>1
      <4> QED BY <1>12, <1>15, <3>2, <4>1, <4>2
    <3> QED BY <3>1, <3>2
  <2> QED BY <2>1
<1>17. \A i, j \in 1..Len(u) : h[i] = h[j] => i = j
  BY <1>1, <1>10, <1>13, <1>15
<1>18. h \in [1..Len(u) -> 1..Len(cache)]
  BY <1>14, <1>15
<1>19. Within(u, cache)
  BY <1>16, <1>17, <1>18 DEF Within
<1>20. \A i \in 1..Len(u) : u[i].offer # Lookup(cache, n)
  BY <1>7, <1>10, <1>15, <1>16
<1> QED BY <1>7, <1>9, <1>10, <1>13, <1>19, <1>20

\* A number that is not in a cache
LEMMA WithoutSame ==
  ASSUME NEW cache \in Seq(Entry), NEW n, ~Exists(cache, n)
  PROVE  Without(cache, n) = cache
<1>1. ~\E i \in 1..Len(cache) : cache[i].seq = n
  BY DEF Exists
<1> QED BY <1>1, Zenon DEF Without, RemoveFirstMatch

-----------------------------------------------------------------------------
(* A callback of program p: what it has made of the program so far.        *)

\* The other end has not heard of the offer.
Unsent(p, o) ==
    /\ from[o] = p /\ prog[p].event[o].seq = 0
    /\ prog[Other(p)].event[o].state = "none" /\ o \notin server

\* What it keeps of the program there was; K is the offer that arrives, if any.
Onward(p, s, K) ==
    /\ \A o \in Offers :
          /\ prog[p].event[o].state # "none" => s.event[o].state # "none"
          /\ from[o] = p => s.event[o].seq = prog[p].event[o].seq \/ Unsent(p, o)
          /\ from[o] # p /\ o \notin K => /\ s.event[o].seq = prog[p].event[o].seq
                                          /\ s.event[o].state = "none" <=> prog[p].event[o].state = "none"
          /\ Queued(s, o) => Unsent(p, o)
    /\ \A c \in Conns :
          /\ prog[p].dc[c].state # "none" => s.dc[c].state # "none"
          /\ s.dc[c].state # "none" => caller[c] # "none" \/ c = Cardinality(Used) + 1

\* What it sends
MayStart(p, s, m) ==
    from[m.offer] = p /\ m.seq = s.event[m.offer].seq /\ m.seq > 0 /\ Unsent(p, m.offer)
MayAnswer(p, an, m) ==
    \E o \in Offers : /\ from[o] = Other(p) /\ prog[Other(p)].event[o].seq = m.seq
                      /\ an[o] = IF m.accepted THEN "accepted" ELSE "declined"
MayCancel(p, s, wd, m) ==
    \E o \in Offers : from[o] = p /\ s.event[o].seq = m.seq /\ wd[o] # "no"
MaySend(p, s, an, wd, m) ==
    /\ m.type = "START" => MayStart(p, s, m)
    /\ m.type = "ANSWER" /\ m.seq # 0 => MayAnswer(p, an, m)
    /\ m.type = "CANCEL" /\ m.seq # 0 => MayCancel(p, s, wd, m)
OutOK(p, s, an, wd) ==
    /\ \A i \in 1..Len(s.out) : MaySend(p, s, an, wd, s.out[i][2])
    /\ \A i, j \in 1..Len(s.out) :
          s.out[i][2].type = "START" /\ s.out[j][2].type = "START" /\ s.out[i][2].offer = s.out[j][2].offer => i = j

Amid(p, s, an, wd, K) == LocalOK(p, s, wd) /\ Onward(p, s, K) /\ OutOK(p, s, an, wd)

\* What it means to be a program, for the provers
LEMMA ProgramIs ==
  ASSUME NEW s \in Program
  PROVE  /\ s.event \in [Offers -> Event] /\ s.dc \in [Conns -> Client] /\ s.list \in Seq(Conns)
         /\ s.cookies \subseteq Offers /\ s.out \in Seq(Conns \X Message)
         /\ \A c \in Conns : /\ s.dc[c] \in Client /\ s.dc[c].state \in ClientStates
                             /\ s.dc[c].queue \in Seq(Offers) /\ s.dc[c].cache \in Seq(Entry)
                             /\ s.dc[c].sent \in Nat
                             /\ Len(s.dc[c].queue) \in Nat /\ Len(s.dc[c].cache) \in Nat
                             /\ \A i \in 1..Len(s.dc[c].queue) : s.dc[c].queue[i] \in Offers
                             /\ \A i \in 1..Len(s.dc[c].cache) : /\ s.dc[c].cache[i] \in Entry
                                                                 /\ s.dc[c].cache[i].offer \in Offers
                                                                 /\ s.dc[c].cache[i].seq \in Nat
         /\ \A o \in Offers : /\ s.event[o] \in Event /\ s.event[o].state \in EventStates
                              /\ s.event[o].seq \in Nat /\ s.event[o].direct \in BOOLEAN
<1>1. /\ s.event \in [Offers -> Event] /\ s.dc \in [Conns -> Client] /\ s.list \in Seq(Conns)
      /\ s.cookies \subseteq Offers /\ s.out \in Seq(Conns \X Message)
  BY DEF Program
<1>2. ASSUME NEW c \in Conns
      PROVE  /\ s.dc[c] \in Client /\ s.dc[c].state \in ClientStates
             /\ s.dc[c].queue \in Seq(Offers) /\ s.dc[c].cache \in Seq(Entry)
             /\ s.dc[c].sent \in Nat
  BY <1>1 DEF Client
<1>3. ASSUME NEW c \in Conns
      PROVE  /\ Len(s.dc[c].queue) \in Nat /\ Len(s.dc[c].cache) \in Nat
             /\ \A i \in 1..Len(s.dc[c].queue) : s.dc[c].queue[i] \in Offers
             /\ \A i \in 1..Len(s.dc[c].cache) : s.dc[c].cache[i] \in Entry
  BY <1>2
<1>4. ASSUME NEW c \in Conns, NEW i \in 1..Len(s.dc[c].cache)
      PROVE  s.dc[c].cache[i].offer \in Offers /\ s.dc[c].cache[i].seq \in Nat
  BY <1>3 DEF Entry
<1>5. ASSUME NEW o \in Offers
      PROVE  /\ s.event[o] \in Event /\ s.event[o].state \in EventStates
             /\ s.event[o].seq \in Nat /\ s.event[o].direct \in BOOLEAN
  BY <1>1 DEF Event
<1> QED BY <1>1, <1>2, <1>3, <1>4, <1>5

-----------------------------------------------------------------------------
(* What only leaves queues and caches, or ends connections or begins them: *)
(* the events that change expire.                                          *)

\* The event of an offer that has expired, and waits nowhere
Expired(s, t, o) ==
    /\ t.event[o].state = "TIMEOUT" /\ t.event[o].seq = s.event[o].seq /\ s.event[o].state # "none"
    /\ ~Queued(t, o) /\ ~Cached(t, o)

\* t is s with less in the queues and caches.
Shrinks(s, t) ==
    /\ t \in Program /\ Listed(t) /\ t.out = s.out /\ t.cookies = s.cookies
    /\ \A c \in Conns :
          /\ Within(t.dc[c].queue, s.dc[c].queue) /\ Within(t.dc[c].cache, s.dc[c].cache)
          /\ \A i \in 1..Len(t.dc[c].cache) : t.dc[c].state = "CONNECTED"
          /\ s.dc[c].state # "none" => t.dc[c].state # "none"
          /\ t.dc[c].state # "none" => s.dc[c].state # "none" \/ caller[c] # "none" \/ c = Cardinality(Used) + 1
    /\ \A o \in Offers : t.event[o] = s.event[o] \/ Expired(s, t, o)

\* Nothing is in a queue or a cache that was not.
LEMMA ShrinksQueued ==
  ASSUME NEW s, NEW t, Shrinks(s, t)
  PROVE  /\ \A o : Queued(t, o) => Queued(s, o)
         /\ \A o : Cached(t, o) => Cached(s, o)
<1>1. ASSUME NEW c \in Conns, NEW i \in 1..Len(t.dc[c].queue)
      PROVE  \E k \in 1..Len(s.dc[c].queue) : s.dc[c].queue[k] = t.dc[c].queue[i]
  <2>1. PICK h \in [1..Len(t.dc[c].queue) -> 1..Len(s.dc[c].queue)] :
           \A j \in 1..Len(t.dc[c].queue) : t.dc[c].queue[j] = s.dc[c].queue[h[j]]
    BY DEF Shrinks, Within
  <2> QED BY <2>1
<1>2. ASSUME NEW c \in Conns, NEW i \in 1..Len(t.dc[c].cache)
      PROVE  \E k \in 1..Len(s.dc[c].cache) : s.dc[c].cache[k] = t.dc[c].cache[i]
  <2>1. PICK h \in [1..Len(t.dc[c].cache) -> 1..Len(s.dc[c].cache)] :
           \A j \in 1..Len(t.dc[c].cache) : t.dc[c].cache[j] = s.dc[c].cache[h[j]]
    BY DEF Shrinks, Within
  <2> QED BY <2>1
<1>3. ASSUME NEW o, Queued(t, o) PROVE Queued(s, o)
  BY <1>1, <1>3 DEF Queued
<1>4. ASSUME NEW o, Cached(t, o) PROVE Cached(s, o)
  BY <1>2, <1>4 DEF Cached
<1> QED BY <1>3, <1>4

\* Then the program is as it should be,
LEMMA ShrinksLocal ==
  ASSUME NEW p, NEW s, NEW t, NEW wd, LocalOK(p, s, wd), Shrinks(s, t)
  PROVE  LocalOK(p, t, wd)
<1>1. s \in Program /\ t \in Program
  BY DEF LocalOK, Shrinks
<1>2. QueuesOK(p, t, wd)
  <2>1. ASSUME NEW c \in Conns
        PROVE  \E h \in [1..Len(t.dc[c].queue) -> 1..Len(s.dc[c].queue)] :
                  /\ \A i \in 1..Len(t.dc[c].queue) : t.dc[c].queue[i] = s.dc[c].queue[h[i]]
                  /\ \A i, j \in 1..Len(t.dc[c].queue) : h[i] = h[j] => i = j
    BY DEF Shrinks, Within
  <2>2. ASSUME NEW c \in Conns, NEW i \in 1..Len(t.dc[c].queue)
        PROVE  Waiting(p, t, wd, t.dc[c].queue[i])
    <3>1. PICK o \in Offers : o = t.dc[c].queue[i]
      BY <1>1, ProgramIs
    <3>2. PICK k \in 1..Len(s.dc[c].queue) : s.dc[c].queue[k] = o
      <4>1. PICK h \in [1..Len(t.dc[c].queue) -> 1..Len(s.dc[c].queue)] :
               \A j \in 1..Len(t.dc[c].queue) : t.dc[c].queue[j] = s.dc[c].queue[h[j]]
        BY <2>1
      <4> QED BY <3>1, <4>1
    <3>3. Waiting(p, s, wd, o)
      BY <3>2 DEF LocalOK, QueuesOK
    <3>4. Queued(t, o)
      BY <3>1 DEF Queued
    <3>5. t.event[o] = s.event[o] /\ t.cookies = s.cookies
      BY <3>4 DEF Shrinks, Expired
    <3> QED BY <3>1, <3>3, <3>5 DEF Waiting
  <2>3. ASSUME NEW c \in Conns, NEW d \in Conns, NEW i \in 1..Len(t.dc[c].queue), NEW j \in 1..Len(t.dc[d].queue),
               t.dc[c].queue[i] = t.dc[d].queue[j]
        PROVE  c = d /\ i = j
    <3>1. PICK h \in [1..Len(t.dc[c].queue) -> 1..Len(s.dc[c].queue)] :
             /\ \A k \in 1..Len(t.dc[c].queue) : t.dc[c].queue[k] = s.dc[c].queue[h[k]]
             /\ \A k, l \in 1..Len(t.dc[c].queue) : h[k] = h[l] => k = l
      BY <2>1
    <3>2. PICK g \in [1..Len(t.dc[d].queue) -> 1..Len(s.dc[d].queue)] :
             \A k \in 1..Len(t.dc[d].queue) : t.dc[d].queue[k] = s.dc[d].queue[g[k]]
      BY <2>1
    <3>3. c = d
      <4>1. s.dc[c].queue[h[i]] = s.dc[d].queue[g[j]] /\ h[i] \in 1..Len(s.dc[c].queue) /\ g[j] \in 1..Len(s.dc[d].queue)
        BY <2>3, <3>1, <3>2
      <4> QED BY <4>1 DEF LocalOK, QueuesOK
    <3>4. h[i] = h[j] /\ j \in 1..Len(t.dc[c].queue)
      <4>1. s.dc[c].queue[h[i]] = s.dc[c].queue[h[j]] /\ h[i] \in 1..Len(s.dc[c].queue) /\ h[j] \in 1..Len(s.dc[c].queue)
        BY <2>3, <3>1, <3>3
      <4> QED BY <3>3, <4>1 DEF LocalOK, QueuesOK
    <3> QED BY <3>1, <3>3, <3>4
  <2> QED BY <2>2, <2>3 DEF QueuesOK
<1>3. CachesOK(t)
  <2>1. ASSUME NEW c \in Conns
        PROVE  \E h \in [1..Len(t.dc[c].cache) -> 1..Len(s.dc[c].cache)] :
                  /\ \A i \in 1..Len(t.dc[c].cache) : t.dc[c].cache[i] = s.dc[c].cache[h[i]]
                  /\ \A i, j \in 1..Len(t.dc[c].cache) : h[i] = h[j] => i = j
    BY DEF Shrinks, Within
  <2>2. ASSUME NEW c \in Conns, NEW i \in 1..Len(t.dc[c].cache)
        PROVE  t.dc[c].state = "CONNECTED" /\ EntryOK(t, t.dc[c].cache[i])
    <3>1. PICK e \in Entry : e = t.dc[c].cache[i] /\ e.offer \in Offers
      BY <1>1, ProgramIs
    <3>2. PICK k \in 1..Len(s.dc[c].cache) : s.dc[c].cache[k] = e
      <4>1. PICK h \in [1..Len(t.dc[c].cache) -> 1..Len(s.dc[c].cache)] :
               \A j \in 1..Len(t.dc[c].cache) : t.dc[c].cache[j] = s.dc[c].cache[h[j]]
        BY <2>1
      <4> QED BY <3>1, <4>1
    <3>3. EntryOK(s, e)
      BY <3>2 DEF LocalOK, CachesOK
    <3>4. Cached(t, e.offer)
      BY <3>1 DEF Cached
    <3>5. t.event[e.offer] = s.event[e.offer]
      BY <3>1, <3>4 DEF Shrinks, Expired
    <3>6. t.dc[c].state = "CONNECTED"
      BY DEF Shrinks
    <3> QED BY <3>1, <3>3, <3>5, <3>6 DEF EntryOK
  <2>3. ASSUME NEW c \in Conns, NEW d \in Conns, NEW i \in 1..Len(t.dc[c].cache), NEW j \in 1..Len(t.dc[d].cache),
               t.dc[c].cache[i].offer = t.dc[d].cache[j].offer
        PROVE  c = d /\ i = j
    <3>1. PICK h \in [1..Len(t.dc[c].cache) -> 1..Len(s.dc[c].cache)] :
             /\ \A k \in 1..Len(t.dc[c].cache) : t.dc[c].cache[k] = s.dc[c].cache[h[k]]
             /\ \A k, l \in 1..Len(t.dc[c].cache) : h[k] = h[l] => k = l
      BY <2>1
    <3>2. PICK g \in [1..Len(t.dc[d].cache) -> 1..Len(s.dc[d].cache)] :
             \A k \in 1..Len(t.dc[d].cache) : t.dc[d].cache[k] = s.dc[d].cache[g[k]]
      BY <2>1
    <3>3. c = d
      <4>1. s.dc[c].cache[h[i]].offer = s.dc[d].cache[g[j]].offer /\ h[i] \in 1..Len(s.dc[c].cache) /\ g[j] \in 1..Len(s.dc[d].cache)
        BY <2>3, <3>1, <3>2
      <4> QED BY <4>1 DEF LocalOK, CachesOK
    <3>4. h[i] = h[j] /\ j \in 1..Len(t.dc[c].cache)
      <4>1. s.dc[c].cache[h[i]].offer = s.dc[c].cache[h[j]].offer /\ h[i] \in 1..Len(s.dc[c].cache) /\ h[j] \in 1..Len(s.dc[c].cache)
        BY <2>3, <3>1, <3>3
      <4> QED BY <3>3, <4>1 DEF LocalOK, CachesOK
    <3> QED BY <3>1, <3>3, <3>4
  <2> QED BY <2>2, <2>3 DEF CachesOK
<1>4. EventsOK(p, t, wd)
  <2>1. ASSUME NEW o \in Offers
        PROVE  /\ t.event[o].state = "none" => t.event[o].seq = 0 /\ o \notin t.cookies
               /\ from[o] = p /\ o \in t.cookies => t.event[o].seq = 0
               /\ from[o] = p /\ wd[o] # "no" => t.event[o].state \notin {"none", "WAIT_RESPONS"}
    <3>1. /\ s.event[o].state = "none" => s.event[o].seq = 0 /\ o \notin s.cookies
          /\ from[o] = p /\ o \in s.cookies => s.event[o].seq = 0
          /\ from[o] = p /\ wd[o] # "no" => s.event[o].state \notin {"none", "WAIT_RESPONS"}
      BY DEF LocalOK, EventsOK
    <3>2. t.cookies = s.cookies
      BY DEF Shrinks
    <3>3. CASE t.event[o] = s.event[o]
      BY <3>1, <3>2, <3>3
    <3>4. CASE Expired(s, t, o)
      BY <3>1, <3>2, <3>4 DEF Expired
    <3> QED BY <3>3, <3>4 DEF Shrinks
  <2> QED BY <2>1 DEF EventsOK
<1> QED BY <1>1, <1>2, <1>3, <1>4 DEF LocalOK, Shrinks

\* What the callback has kept of what the users have done
Kept(p, s, t, an, wd) ==
    /\ Honest(p, s, an, wd) => Honest(p, t, an, wd)
    /\ Open(p, s, an, wd) => Open(p, t, an, wd)

\* and in the middle of a callback still is.
LEMMA ShrinksKeeps ==
  ASSUME NEW p, NEW s, NEW t, NEW an, NEW wd, NEW K, Amid(p, s, an, wd, K), Shrinks(s, t)
  PROVE  Amid(p, t, an, wd, K) /\ Kept(p, s, t, an, wd)
<1>1. LocalOK(p, s, wd) /\ LocalOK(p, t, wd) /\ Onward(p, s, K) /\ OutOK(p, s, an, wd)
  BY ShrinksLocal DEF Amid
<1>2. \A o \in Offers : t.event[o].seq = s.event[o].seq /\ (t.event[o].state = "none" <=> s.event[o].state = "none")
  BY DEF Shrinks, Expired
<1>3. \A o : Queued(t, o) => Queued(s, o)
  BY ShrinksQueued
<1>4. Onward(p, t, K)
  <2>1. \A c \in Conns :
          /\ prog[p].dc[c].state # "none" => t.dc[c].state # "none"
          /\ t.dc[c].state # "none" => caller[c] # "none" \/ c = Cardinality(Used) + 1
    BY <1>1 DEF Onward, Shrinks
  <2>2. ASSUME NEW o \in Offers
        PROVE  /\ prog[p].event[o].state # "none" => t.event[o].state # "none"
               /\ from[o] = p => t.event[o].seq = prog[p].event[o].seq \/ Unsent(p, o)
               /\ from[o] # p /\ o \notin K => /\ t.event[o].seq = prog[p].event[o].seq
                                               /\ t.event[o].state = "none" <=> prog[p].event[o].state = "none"
               /\ Queued(t, o) => Unsent(p, o)
    BY <1>1, <1>2, <1>3 DEF Onward
  <2> QED BY <2>1, <2>2 DEF Onward
<1>5. OutOK(p, t, an, wd)
  <2>1. t.out = s.out /\ s \in Program
    BY <1>1 DEF Shrinks, LocalOK
  <2>2. ASSUME NEW i \in 1..Len(s.out) PROVE MaySend(p, t, an, wd, s.out[i][2])
    <3>1. PICK m \in Message : m = s.out[i][2]
      <4>1. s.out \in Seq(Conns \X Message)
        BY <2>1, ProgramIs
      <4> QED BY <4>1
    <3>2. MaySend(p, s, an, wd, m)
      BY <1>1, <3>1 DEF OutOK
    <3>3. m.type = "START" => MayStart(p, t, m)
      <4>1. m.type = "START" => m.offer \in Offers
        BY <3>1 DEF Message
      <4> QED BY <1>2, <3>2, <4>1 DEF MaySend, MayStart
    <3>4. m.type = "CANCEL" /\ m.seq # 0 => MayCancel(p, t, wd, m)
      BY <1>2, <3>2 DEF MaySend, MayCancel
    <3> QED BY <3>1, <3>2, <3>3, <3>4 DEF MaySend
  <2> QED BY <1>1, <2>1, <2>2 DEF OutOK
<1>6. ASSUME Honest(p, s, an, wd) PROVE Honest(p, t, an, wd)
  BY <1>6 DEF Honest, HonestAt, Shrinks, Expired
<1>7. ASSUME Open(p, s, an, wd) PROVE Open(p, t, an, wd)
  <2>1. ASSUME NEW o \in Offers PROVE OpenAt(p, t, an, wd, o)
    <3>1. OpenAt(p, s, an, wd, o) /\ (Cached(t, o) => Cached(s, o))
      BY <1>7, ShrinksQueued DEF Open
    <3> QED BY <3>1 DEF OpenAt, Shrinks, Expired
  <2> QED BY <2>1 DEF Open
<1> QED BY <1>1, <1>4, <1>5, <1>6, <1>7 DEF Amid, Kept

\* Sending does not change the program.
LEMMA SendIs ==
  ASSUME NEW s \in Program, NEW c \in Conns, NEW m \in Message, NEW t, t = Send(s, c, m)
  PROVE  /\ t \in Program /\ t.event = s.event /\ t.dc = s.dc /\ t.list = s.list /\ t.cookies = s.cookies
         /\ Len(t.out) = Len(s.out) + 1 /\ Len(s.out) \in Nat
         /\ t.out[Len(s.out) + 1] = <<c, m>> /\ \A i \in 1..Len(s.out) : t.out[i] = s.out[i]
<1>1. PICK pair \in Conns \X Message : pair = <<c, m>>
  OBVIOUS
<1>2. t = [s EXCEPT !.out = Append(s.out, pair)]
  BY <1>1 DEF Send
<1>3. s.out \in Seq(Conns \X Message)
  BY ProgramIs
<1>4. PICK out : out = Append(s.out, pair)
  OBVIOUS
<1>5. /\ out \in Seq(Conns \X Message) /\ Len(out) = Len(s.out) + 1 /\ Len(s.out) \in Nat
      /\ out[Len(s.out) + 1] = pair /\ \A i \in 1..Len(s.out) : out[i] = s.out[i]
  BY <1>3, <1>4, AppendProperties
<1>6. /\ t.event = s.event /\ t.dc = s.dc /\ t.list = s.list /\ t.cookies = s.cookies /\ t.out = out
      /\ t \in Program
  BY <1>2, <1>4, <1>5 DEF Program
<1> QED BY <1>1, <1>5, <1>6

\* States of a program that differ in what is sent, at most
LEMMA SameLocal ==
  ASSUME NEW p, NEW s, NEW t \in Program, NEW wd, LocalOK(p, s, wd),
         t.event = s.event, t.dc = s.dc, t.list = s.list, t.cookies = s.cookies
  PROVE  /\ LocalOK(p, t, wd)
         /\ \A o : (Queued(t, o) <=> Queued(s, o)) /\ (Cached(t, o) <=> Cached(s, o))
         /\ \A an : Kept(p, s, t, an, wd)
         /\ \A K : Onward(p, s, K) => Onward(p, t, K)
<1>1. \A o : (Queued(t, o) <=> Queued(s, o)) /\ (Cached(t, o) <=> Cached(s, o))
  BY DEF Queued, Cached
<1>2. Listed(t)
  BY DEF LocalOK, Listed
<1>3. QueuesOK(p, t, wd)
  BY DEF LocalOK, QueuesOK, Waiting
<1>4. CachesOK(t)
  BY DEF LocalOK, CachesOK, EntryOK
<1>5. EventsOK(p, t, wd)
  BY DEF LocalOK, EventsOK
<1>6. ASSUME NEW an PROVE Kept(p, s, t, an, wd)
  <2>1. Honest(p, s, an, wd) => Honest(p, t, an, wd)
    BY DEF Honest, HonestAt
  <2>2. Open(p, s, an, wd) => Open(p, t, an, wd)
    BY <1>1 DEF Open, OpenAt
  <2> QED BY <2>1, <2>2 DEF Kept
<1>7. ASSUME NEW K, Onward(p, s, K) PROVE Onward(p, t, K)
  BY <1>1, <1>7 DEF Onward
<1> QED BY <1>1, <1>2, <1>3, <1>4, <1>5, <1>6, <1>7 DEF LocalOK

\* Sending anything but an offer
LEMMA SendKeeps ==
  ASSUME NEW p, NEW s, NEW an, NEW wd, NEW K, Amid(p, s, an, wd, K),
         NEW c \in Conns, NEW m \in Message, m.type # "START", MaySend(p, s, an, wd, m),
         NEW t, t = Send(s, c, m)
  PROVE  Amid(p, t, an, wd, K) /\ Kept(p, s, t, an, wd)
<1>1. LocalOK(p, s, wd) /\ s \in Program /\ Onward(p, s, K) /\ OutOK(p, s, an, wd)
  BY DEF Amid, LocalOK
<1>2. /\ t \in Program /\ t.event = s.event /\ t.dc = s.dc /\ t.list = s.list /\ t.cookies = s.cookies
      /\ Len(t.out) = Len(s.out) + 1 /\ Len(s.out) \in Nat
      /\ t.out[Len(s.out) + 1] = <<c, m>> /\ \A i \in 1..Len(s.out) : t.out[i] = s.out[i]
  BY <1>1, SendIs
<1>3. LocalOK(p, t, wd) /\ Onward(p, t, K) /\ Kept(p, s, t, an, wd)
  BY <1>1, <1>2, SameLocal
<1>4. \A x : MaySend(p, s, an, wd, x) => MaySend(p, t, an, wd, x)
  BY <1>2 DEF MaySend, MayStart, MayCancel
<1>5. \A i \in 1..Len(t.out) : i = Len(s.out) + 1 \/ i \in 1..Len(s.out)
  BY <1>2
<1>6. OutOK(p, t, an, wd)
  <2>1. \A i \in 1..Len(t.out) : MaySend(p, t, an, wd, t.out[i][2])
    <3>1. t.out[Len(s.out) + 1][2] = m
      BY <1>2
    <3>2. \A i \in 1..Len(s.out) : MaySend(p, s, an, wd, s.out[i][2])
      BY <1>1 DEF OutOK
    <3> QED BY <1>2, <1>4, <1>5, <3>1, <3>2
  <2>2. ASSUME NEW i \in 1..Len(t.out), NEW j \in 1..Len(t.out), t.out[i][2].type = "START",
               t.out[j][2].type = "START", t.out[i][2].offer = t.out[j][2].offer
        PROVE  i = j
    <3>1. i \in 1..Len(s.out) /\ j \in 1..Len(s.out)
      BY <1>2, <1>5, <2>2
    <3>2. t.out[i] = s.out[i] /\ t.out[j] = s.out[j]
      BY <1>2, <3>1
    <3> QED BY <1>1, <2>2, <3>1, <3>2 DEF OutOK
  <2> QED BY <2>1, <2>2 DEF OutOK
<1> QED BY <1>3, <1>6 DEF Amid

-----------------------------------------------------------------------------
(* What becomes of one offer: its event changes, not its sequence number.   *)

\* In t, and with vd for wd, the event of o is another; what must then hold for
\* it where it waits.
Turns(p, s, t, o, wd, vd, K) ==
    /\ t \in Program /\ t.dc = s.dc /\ t.list = s.list /\ t.out = s.out
    /\ \A x \in Offers : x # o => /\ t.event[x] = s.event[x] /\ vd[x] = wd[x]
                                  /\ x \in t.cookies <=> x \in s.cookies
    /\ t.event[o].seq = s.event[o].seq /\ t.event[o].state # "none"
    /\ s.event[o].state # "none" \/ from[o] = p \/ o \in K
    /\ Queued(s, o) => /\ t.event[o].direct /\ o \notin t.cookies
                       /\ t.event[o].state = "WAIT_RESPONS" \/ vd[o] = "queued"
    /\ Cached(s, o) => t.event[o].direct
    /\ o \in t.cookies => t.event[o].seq = 0 \/ from[o] # p
    /\ wd[o] # "no" => vd[o] # "no"
    /\ vd[o] # "no" => from[o] # p \/ t.event[o].state # "WAIT_RESPONS"

\* The invariants of the callback hold, if they do for this one offer.
LEMMA TurnsKeeps ==
  ASSUME NEW p, NEW s, NEW t, NEW an, NEW wd, NEW vd, NEW K, NEW o \in Offers,
         Amid(p, s, an, wd, K), Turns(p, s, t, o, wd, vd, K)
  PROVE  /\ Amid(p, t, an, vd, K)
         /\ Honest(p, s, an, wd) /\ HonestAt(p, t, an, vd, o) => Honest(p, t, an, vd)
         /\ Open(p, s, an, wd) /\ OpenAt(p, t, an, vd, o) => Open(p, t, an, vd)
<1>1. LocalOK(p, s, wd) /\ s \in Program /\ t \in Program /\ Onward(p, s, K) /\ OutOK(p, s, an, wd)
  BY DEF Amid, LocalOK, Turns
<1>2. \A x : (Queued(t, x) <=> Queued(s, x)) /\ (Cached(t, x) <=> Cached(s, x))
  BY DEF Queued, Cached, Turns
<1>3. Listed(t)
  BY <1>1 DEF LocalOK, Listed, Turns
<1>4. QueuesOK(p, t, vd)
  <2>1. ASSUME NEW x \in Offers, Queued(s, x), Waiting(p, s, wd, x) PROVE Waiting(p, t, vd, x)
    <3>1. CASE x = o
      BY <2>1, <3>1 DEF Waiting, Turns
    <3>2. CASE x # o
      BY <2>1, <3>2 DEF Waiting, Turns
    <3> QED BY <3>1, <3>2
  <2>2. ASSUME NEW c \in Conns, NEW i \in 1..Len(s.dc[c].queue)
        PROVE  Waiting(p, t, vd, s.dc[c].queue[i])
    <3>1. PICK x \in Offers : x = s.dc[c].queue[i]
      BY <1>1, ProgramIs
    <3>2. Queued(s, x) /\ Waiting(p, s, wd, x)
      BY <1>1, <3>1 DEF Queued, LocalOK, QueuesOK
    <3> QED BY <2>1, <3>1, <3>2
  <2>3. t.dc = s.dc
    BY DEF Turns
  <2> QED BY <1>1, <2>2, <2>3 DEF QueuesOK, LocalOK
<1>5. CachesOK(t)
  <2>1. ASSUME NEW c \in Conns, NEW i \in 1..Len(s.dc[c].cache)
        PROVE  EntryOK(t, s.dc[c].cache[i])
    <3>1. PICK e \in Entry : e = s.dc[c].cache[i] /\ e.offer \in Offers
      BY <1>1, ProgramIs
    <3>2. Cached(s, e.offer) /\ EntryOK(s, e)
      BY <1>1, <3>1 DEF Cached, LocalOK, CachesOK
    <3>3. CASE e.offer = o
      BY <3>1, <3>2, <3>3 DEF EntryOK, Turns
    <3>4. CASE e.offer # o
      BY <3>1, <3>2, <3>4 DEF EntryOK, Turns
    <3> QED BY <3>3, <3>4
  <2>2. t.dc = s.dc
    BY DEF Turns
  <2> QED BY <1>1, <2>1, <2>2 DEF CachesOK, LocalOK
<1>6. EventsOK(p, t, vd)
  <2>1. ASSUME NEW x \in Offers
        PROVE  /\ t.event[x].state = "none" => t.event[x].seq = 0 /\ x \notin t.cookies
               /\ from[x] = p /\ x \in t.cookies => t.event[x].seq = 0
               /\ from[x] = p /\ vd[x] # "no" => t.event[x].state \notin {"none", "WAIT_RESPONS"}
    <3>1. CASE x = o
      BY <3>1 DEF Turns
    <3>2. CASE x # o
      BY <1>1, <3>2 DEF Turns, LocalOK, EventsOK
    <3> QED BY <3>1, <3>2
  <2> QED BY <2>1 DEF EventsOK
<1>7. Onward(p, t, K)
  <2>1. t.dc = s.dc
    BY DEF Turns
  <2>2. ASSUME NEW x \in Offers
        PROVE  /\ prog[p].event[x].state # "none" => t.event[x].state # "none"
               /\ from[x] = p => t.event[x].seq = prog[p].event[x].seq \/ Unsent(p, x)
               /\ from[x] # p /\ x \notin K => /\ t.event[x].seq = prog[p].event[x].seq
                                               /\ t.event[x].state = "none" <=> prog[p].event[x].state = "none"
               /\ Queued(t, x) => Unsent(p, x)
    <3>1. CASE x = o
      BY <1>1, <1>2, <3>1 DEF Turns, Onward
    <3>2. CASE x # o
      BY <1>1, <1>2, <3>2 DEF Turns, Onward
    <3> QED BY <3>1, <3>2
  <2> QED BY <1>1, <2>1, <2>2 DEF Onward
<1>8. OutOK(p, t, an, vd)
  <2>1. t.out = s.out
    BY DEF Turns
  <2>2. \A x \in Offers : t.event[x].seq = s.event[x].seq /\ (wd[x] # "no" => vd[x] # "no")
    BY DEF Turns
  <2>3. ASSUME NEW i \in 1..Len(s.out) PROVE MaySend(p, t, an, vd, s.out[i][2])
    <3>1. PICK m \in Message : m = s.out[i][2]
      <4>1. s.out \in Seq(Conns \X Message)
        BY <1>1, ProgramIs
      <4> QED BY <4>1
    <3>2. MaySend(p, s, an, wd, m)
      BY <1>1, <3>1 DEF OutOK
    <3>3. m.type = "START" => MayStart(p, t, m)
      <4>1. m.type = "START" => m.offer \in Offers
        BY <3>1 DEF Message
      <4> QED BY <2>2, <3>2, <4>1 DEF MaySend, MayStart
    <3>4. m.type = "CANCEL" /\ m.seq # 0 => MayCancel(p, t, vd, m)
      BY <2>2, <3>2 DEF MaySend, MayCancel
    <3> QED BY <3>1, <3>2, <3>3, <3>4 DEF MaySend
  <2> QED BY <1>1, <2>1, <2>3 DEF OutOK
<1>9. ASSUME Honest(p, s, an, wd), HonestAt(p, t, an, vd, o) PROVE Honest(p, t, an, vd)
  <2>1. ASSUME NEW x \in Offers, x # o PROVE HonestAt(p, t, an, vd, x)
    BY <1>9, <2>1 DEF Honest, HonestAt, Turns
  <2> QED BY <1>9, <2>1 DEF Honest
<1>10. ASSUME Open(p, s, an, wd), OpenAt(p, t, an, vd, o) PROVE Open(p, t, an, vd)
  <2>1. ASSUME NEW x \in Offers, x # o PROVE OpenAt(p, t, an, vd, x)
    BY <1>2, <1>10, <2>1 DEF Open, OpenAt, Turns
  <2> QED BY <1>10, <2>1 DEF Open
<1> QED BY <1>1, <1>3, <1>4, <1>5, <1>6, <1>7, <1>8, <1>9, <1>10 DEF Amid, LocalOK

-----------------------------------------------------------------------------
(* An offer enters a cache.                                                *)

\* Its number is cached, at either end: Insert keeps the order of the clock.
NewEntry(s, t, c, o) ==
    \E e \in Entry : /\ e.offer = o /\ e.seq = t.event[o].seq /\ e.seq > 0
                     /\ t.dc[c].cache = Append(s.dc[c].cache, e) \/ t.dc[c].cache = <<e>> \o s.dc[c].cache

\* And nothing else changes but the event.
Enters(p, s, t, c, o, wd) ==
    /\ t \in Program /\ t.list = s.list /\ t.cookies = s.cookies
    /\ s.dc[c].state = "CONNECTED" /\ t.dc[c].state = "CONNECTED" /\ t.dc[c].queue = s.dc[c].queue
    /\ \A d \in Conns : d # c => t.dc[d] = s.dc[d]
    /\ NewEntry(s, t, c, o)
    /\ \A x \in Offers : x # o => t.event[x] = s.event[x]
    /\ t.event[o].direct /\ t.event[o].state # "none"
    /\ ~Queued(s, o) /\ ~Cached(s, o)
    /\ from[o] = p => o \notin t.cookies /\ (wd[o] # "no" => t.event[o].state # "WAIT_RESPONS")

\* The program is as it should be, with one more offer in its caches.
LEMMA EntersLocal ==
  ASSUME NEW p, NEW s, NEW t, NEW wd, NEW c \in Conns, NEW o \in Offers,
         LocalOK(p, s, wd), Enters(p, s, t, c, o, wd)
  PROVE  /\ LocalOK(p, t, wd)
         /\ \A x : Queued(t, x) <=> Queued(s, x)
         /\ \A x : Cached(t, x) <=> Cached(s, x) \/ x = o
<1>1. s \in Program /\ t \in Program
  BY DEF LocalOK, Enters
<1>2. PICK e \in Entry : /\ e.offer = o /\ e.seq = t.event[o].seq /\ e.seq > 0
                         /\ t.dc[c].cache = Append(s.dc[c].cache, e) \/ t.dc[c].cache = <<e>> \o s.dc[c].cache
  BY DEF Enters, NewEntry
<1>3. PICK old \in Seq(Entry) : old = s.dc[c].cache
  BY <1>1, ProgramIs
<1>4. PICK new : new = t.dc[c].cache
  OBVIOUS
<1>5. /\ new \in Seq(Entry) /\ Len(new) = Len(old) + 1 /\ Len(old) \in Nat
      /\ \E h \in [1..Len(new) -> 0..Len(old)] :
              /\ \A i \in 1..Len(new) : h[i] = 0 => new[i] = e
              /\ \A i \in 1..Len(new) : h[i] # 0 => new[i] = old[h[i]]
              /\ \A i, j \in 1..Len(new) : h[i] = h[j] => i = j
      /\ e \in ToSet(new) /\ ToSet(new) = ToSet(old) \cup {e}
  <2>1. new = Append(old, e) \/ new = <<e>> \o old
    BY <1>2, <1>3, <1>4
  <2> QED BY <2>1, OneMore
<1>6. PICK h \in [1..Len(new) -> 0..Len(old)] :
        /\ \A i \in 1..Len(new) : h[i] = 0 => new[i] = e
        /\ \A i \in 1..Len(new) : h[i] # 0 => new[i] = old[h[i]]
        /\ \A i, j \in 1..Len(new) : h[i] = h[j] => i = j
  BY <1>5
<1>7. \A d \in Conns : t.dc[d].queue = s.dc[d].queue /\ t.dc[d].state = s.dc[d].state
  BY DEF Enters
<1>8. \A d \in Conns : d # c => t.dc[d].cache = s.dc[d].cache
  BY DEF Enters
<1>9. \A x : Queued(t, x) <=> Queued(s, x)
  BY <1>7 DEF Queued
<1>10. \A x : Cached(t, x) <=> Cached(s, x) \/ x = o
  <2>1. \A x : x \in ToSet(new) <=> x \in ToSet(old) \/ x = e
    BY <1>5
  <2>2. \A x : x \in ToSet(old) <=> \E i \in 1..Len(old) : x = old[i]
    BY <1>3, InSet
  <2>3. \A x : x \in ToSet(new) <=> \E i \in 1..Len(new) : x = new[i]
    BY <1>5, InSet
  <2>4. ASSUME NEW x, Cached(t, x) PROVE Cached(s, x) \/ x = o
    <3>1. PICK d \in Conns : \E i \in 1..Len(t.dc[d].cache) : t.dc[d].cache[i].offer = x
      BY <2>4 DEF Cached
    <3>2. CASE d = c
      <4>1. PICK i \in 1..Len(new) : new[i].offer = x
        BY <1>4, <3>1, <3>2
      <4>2. (\E k \in 1..Len(old) : new[i] = old[k]) \/ new[i] = e
        BY <2>1, <2>2, <2>3
      <4> QED BY <1>2, <1>3, <4>1, <4>2 DEF Cached
    <3>3. CASE d # c
      BY <1>8, <3>1, <3>3 DEF Cached
    <3> QED BY <3>2, <3>3
  <2>5. Cached(t, o)
    <3>1. \E i \in 1..Len(new) : e = new[i]
      BY <2>1, <2>3
    <3> QED BY <1>2, <1>4, <3>1 DEF Cached
  <2>6. ASSUME NEW x, Cached(s, x) PROVE Cached(t, x)
    <3>1. PICK d \in Conns : \E i \in 1..Len(s.dc[d].cache) : s.dc[d].cache[i].offer = x
      BY <2>6 DEF Cached
    <3>2. CASE d = c
      <4>1. PICK i \in 1..Len(old) : old[i].offer = x
        BY <1>3, <3>1, <3>2
      <4>2. \E k \in 1..Len(new) : new[k] = old[i]
        BY <2>1, <2>2, <2>3
      <4> QED BY <1>4, <4>1, <4>2 DEF Cached
    <3>3. CASE d # c
      BY <1>8, <3>1, <3>3 DEF Cached
    <3> QED BY <3>2, <3>3
  <2> QED BY <2>4, <2>5, <2>6
<1>11. Listed(t)
  BY <1>7 DEF LocalOK, Listed, Enters
<1>12. QueuesOK(p, t, wd)
  <2>1. ASSUME NEW d \in Conns, NEW i \in 1..Len(s.dc[d].queue)
        PROVE  Waiting(p, t, wd, s.dc[d].queue[i])
    <3>1. PICK x \in Offers : x = s.dc[d].queue[i]
      BY <1>1, ProgramIs
    <3>2. Queued(s, x) /\ Waiting(p, s, wd, x)
      BY <3>1 DEF Queued, LocalOK, QueuesOK
    <3> QED BY <3>1, <3>2 DEF Waiting, Enters
  <2>2. ASSUME NEW d \in Conns, NEW b \in Conns, NEW i \in 1..Len(t.dc[d].queue), NEW j \in 1..Len(t.dc[b].queue),
               t.dc[d].queue[i] = t.dc[b].queue[j]
        PROVE  d = b /\ i = j
    <3>1. t.dc[d].queue = s.dc[d].queue /\ t.dc[b].queue = s.dc[b].queue
      BY <1>7
    <3> QED BY <2>2, <3>1 DEF QueuesOK, LocalOK
  <2>3. ASSUME NEW d \in Conns, NEW i \in 1..Len(t.dc[d].queue) PROVE Waiting(p, t, wd, t.dc[d].queue[i])
    <3>1. t.dc[d].queue = s.dc[d].queue
      BY <1>7
    <3> QED BY <2>1, <3>1
  <2> QED BY <2>2, <2>3 DEF QueuesOK
<1>13. CachesOK(t)
  <2>1. EntryOK(t, e)
    BY <1>2 DEF Enters, EntryOK
  <2>2. ASSUME NEW d \in Conns, NEW i \in 1..Len(s.dc[d].cache)
        PROVE  EntryOK(t, s.dc[d].cache[i]) /\ s.dc[d].cache[i].offer # o
    <3>1. PICK f : f = s.dc[d].cache[i]
      OBVIOUS
    <3>2. f \in Entry /\ f = s.dc[d].cache[i] /\ f.offer \in Offers
      BY <1>1, <3>1, ProgramIs
    <3>3. Cached(s, f.offer) /\ EntryOK(s, f)
      BY <3>2 DEF Cached, LocalOK, CachesOK
    <3>4. f.offer # o
      BY <3>3 DEF Enters
    <3> QED BY <3>2, <3>3, <3>4 DEF EntryOK, Enters
  <2>3. ASSUME NEW i \in 1..Len(new)
        PROVE  (h[i] = 0 /\ new[i] = e) \/ (h[i] \in 1..Len(old) /\ new[i] = old[h[i]])
    <3>1. CASE h[i] = 0
      BY <1>6, <3>1
    <3>2. CASE h[i] # 0
      <4>1. h[i] \in 1..Len(old)
        BY <1>5, <1>6, <3>2
      <4> QED BY <1>6, <3>2, <4>1
    <3> QED BY <3>1, <3>2
  <2>4. ASSUME NEW d \in Conns, NEW i \in 1..Len(t.dc[d].cache)
        PROVE  t.dc[d].state = "CONNECTED" /\ EntryOK(t, t.dc[d].cache[i])
    <3>1. CASE d = c
      <4>1. EntryOK(t, new[i])
        BY <1>3, <1>4, <2>1, <2>2, <2>3, <2>4, <3>1
      <4> QED BY <1>4, <3>1, <4>1 DEF Enters
    <3>2. CASE d # c
      BY <1>7, <1>8, <2>2, <2>4, <3>2 DEF LocalOK, CachesOK
    <3> QED BY <3>1, <3>2
  <2>5. ASSUME NEW d \in Conns, NEW i \in 1..Len(t.dc[d].cache), NEW j \in 1..Len(new),
               t.dc[d].cache[i].offer = new[j].offer
        PROVE  c = d /\ i = j
    <3>1. CASE d = c
      <4>1. i \in 1..Len(new) /\ new[i].offer = new[j].offer
        BY <1>4, <2>5, <3>1
      <4>2. h[i] = h[j]
        <5>1. /\ (h[i] = 0 /\ new[i] = e) \/ (h[i] \in 1..Len(old) /\ new[i] = old[h[i]])
              /\ (h[j] = 0 /\ new[j] = e) \/ (h[j] \in 1..Len(old) /\ new[j] = old[h[j]])
          BY <2>3, <4>1
        <5>2. CASE h[i] = 0 /\ h[j] = 0
          BY <5>2
        <5>3. CASE h[i] \in 1..Len(old) /\ h[j] \in 1..Len(old) /\ old[h[i]].offer = old[h[j]].offer
          BY <1>3, <5>3 DEF LocalOK, CachesOK
        <5>4. CASE h[i] \in 1..Len(old) /\ old[h[i]].offer = o
          BY <1>3, <2>2, <5>4
        <5>5. CASE h[j] \in 1..Len(old) /\ old[h[j]].offer = o
          BY <1>3, <2>2, <5>5
        <5> QED BY <1>2, <4>1, <5>1, <5>2, <5>3, <5>4, <5>5
      <4> QED BY <1>6, <3>1, <4>1, <4>2
    <3>2. CASE d # c
      <4>1. i \in 1..Len(s.dc[d].cache) /\ s.dc[d].cache[i].offer = new[j].offer
        BY <1>8, <2>5, <3>2
      <4>2. new[j].offer # o
        BY <2>2, <4>1
      <4>3. h[j] \in 1..Len(old) /\ new[j] = old[h[j]]
        BY <1>2, <2>3, <4>2
      <4> QED BY <1>3, <3>2, <4>1, <4>3 DEF LocalOK, CachesOK
    <3> QED BY <3>1, <3>2
  <2>6. ASSUME NEW d \in Conns, NEW b \in Conns, NEW i \in 1..Len(t.dc[d].cache), NEW j \in 1..Len(t.dc[b].cache),
               t.dc[d].cache[i].offer = t.dc[b].cache[j].offer
        PROVE  d = b /\ i = j
    <3>1. CASE b = c
      <4>1. j \in 1..Len(new) /\ t.dc[d].cache[i].offer = new[j].offer
        BY <1>4, <2>6, <3>1
      <4> QED BY <2>5, <3>1, <4>1
    <3>2. CASE d = c
      <4>1. i \in 1..Len(new) /\ t.dc[b].cache[j].offer = new[i].offer
        BY <1>4, <2>6, <3>2
      <4> QED BY <2>5, <3>2, <4>1
    <3>3. CASE b # c /\ d # c
      <4>1. t.dc[d].cache = s.dc[d].cache /\ t.dc[b].cache = s.dc[b].cache
        BY <1>8, <3>3
      <4> QED BY <2>6, <4>1 DEF LocalOK, CachesOK
    <3> QED BY <3>1, <3>2, <3>3
  <2> QED BY <2>4, <2>6 DEF CachesOK
<1>14. EventsOK(p, t, wd)
  <2>1. ASSUME NEW x \in Offers
        PROVE  /\ t.event[x].state = "none" => t.event[x].seq = 0 /\ x \notin t.cookies
               /\ from[x] = p /\ x \in t.cookies => t.event[x].seq = 0
               /\ from[x] = p /\ wd[x] # "no" => t.event[x].state \notin {"none", "WAIT_RESPONS"}
    <3>1. CASE x = o
      BY <3>1 DEF Enters
    <3>2. CASE x # o
      BY <3>2 DEF Enters, LocalOK, EventsOK
    <3> QED BY <3>1, <3>2
  <2> QED BY <2>1 DEF EventsOK
<1> QED BY <1>1, <1>9, <1>10, <1>11, <1>12, <1>13, <1>14 DEF LocalOK

-----------------------------------------------------------------------------
(* Sending an offer.                                                       *)

\* The offer is sent: it has a number, a place in the cache, and a message.
PacketSent(s, t, c, o) ==
    /\ t \in Program /\ t.list = s.list /\ t.cookies = s.cookies
    /\ \A d \in Conns : d # c => t.dc[d] = s.dc[d]
    /\ t.dc[c].state = s.dc[c].state /\ t.dc[c].queue = s.dc[c].queue
    /\ \A x \in Offers : x # o => t.event[x] = s.event[x]
    /\ t.event[o].state = s.event[o].state /\ t.event[o].direct = s.event[o].direct
    /\ NewEntry(s, t, c, o)
    /\ \E m \in Message : m.type = "START" /\ m.seq = t.event[o].seq /\ m.offer = o /\ t.out = Append(s.out, <<c, m>>)

\* That is what SendPacketEvent does.
LEMMA SendPacketIs ==
  ASSUME NEW s \in Program, NEW c \in Conns, NEW o \in Offers, NEW same,
         NEW t, t = SendPacketEvent(s, c, o, same)
  PROVE  PacketSent(s, t, c, o)
<1>1. PICK n \in Nat : n = s.dc[c].sent + 1 /\ n > 0
  <2>1. s.dc[c].sent \in Nat
    BY ProgramIs
  <2> QED BY <2>1
<1>2. PICK m : m = [type |-> "START", seq |-> n, offer |-> o]
  OBVIOUS
<1>3. m \in Message /\ m.type = "START" /\ m.seq = n /\ m.offer = o
  BY <1>2 DEF Message
<1>4. PICK e : e = [seq |-> n, offer |-> o]
  OBVIOUS
<1>5. e \in Entry /\ e.seq = n /\ e.offer = o
  BY <1>4 DEF Entry
<1>6. PICK new : new = Insert(s.dc[c].cache, e, same)
  OBVIOUS
<1>7. new = Append(s.dc[c].cache, e) \/ new = <<e>> \o s.dc[c].cache
  BY <1>6 DEF Insert
<1>8. new \in Seq(Entry)
  <2>1. PICK old \in Seq(Entry) : old = s.dc[c].cache
    BY ProgramIs
  <2>2. new = Append(old, e) \/ new = <<e>> \o old
    BY <1>7, <2>1
  <2> QED BY <1>5, <2>2, OneMore
<1>9. PICK u : u = Send(s, c, m)
  OBVIOUS
<1>10. /\ u \in Program /\ u.event = s.event /\ u.dc = s.dc /\ u.list = s.list /\ u.cookies = s.cookies
  BY <1>3, <1>9, SendIs
<1>11. u.out = Append(s.out, <<c, m>>)
  BY <1>9 DEF Send, Program
<1>12. t = [u EXCEPT !.event[o].seq = n, !.dc[c].sent = n, !.dc[c].cache = new]
  BY <1>1, <1>2, <1>4, <1>6, <1>9, <1>10 DEF SendPacketEvent
<1>13. PICK event : event = [s.event EXCEPT ![o] = [s.event[o] EXCEPT !.seq = n]]
  OBVIOUS
<1>14. PICK dc : dc = [s.dc EXCEPT ![c] = [s.dc[c] EXCEPT !.sent = n, !.cache = new]]
  OBVIOUS
<1>15. t = [u EXCEPT !.event = event, !.dc = dc]
  <2>1. PICK u1 : u1 = [u EXCEPT !.event[o].seq = n]
    OBVIOUS
  <2>2. PICK u2 : u2 = [u1 EXCEPT !.dc[c].sent = n]
    OBVIOUS
  <2>3. t = [u2 EXCEPT !.dc[c].cache = new]
    BY <1>12, <2>1, <2>2
  <2>4. u1 = [u EXCEPT !.event = event]
    BY <1>10, <1>13, <2>1
  <2>5. u1.dc = s.dc
    BY <1>10, <2>4 DEF Program
  <2>6. PICK dc1 : dc1 = [s.dc EXCEPT ![c].sent = n]
    OBVIOUS
  <2>7. u2 = [u1 EXCEPT !.dc = dc1]
    BY <2>2, <2>5, <2>6
  <2>8. u2.dc = dc1
    BY <1>10, <2>4, <2>7 DEF Program
  <2>9. dc = [dc1 EXCEPT ![c].cache = new]
    <3>1. s.dc \in [Conns -> Client]
      BY ProgramIs
    <3> QED BY <1>14, <2>6, <3>1 DEF Client
  <2>10. t = [u2 EXCEPT !.dc = dc]
    BY <2>3, <2>8, <2>9
  <2> QED BY <1>10, <2>4, <2>7, <2>10 DEF Program
<1>16. t.event = event /\ t.dc = dc /\ t.list = s.list /\ t.cookies = s.cookies /\ t.out = u.out
  BY <1>10, <1>15 DEF Program
<1>17. event \in [Offers -> Event]
  <2>1. s.event \in [Offers -> Event]
    BY ProgramIs
  <2> QED BY <1>13, <2>1 DEF Event
<1>18. dc \in [Conns -> Client]
  <2>1. s.dc \in [Conns -> Client]
    BY ProgramIs
  <2> QED BY <1>8, <1>14, <2>1 DEF Client
<1>19. t \in Program
  BY <1>10, <1>15, <1>17, <1>18 DEF Program
<1>20. event[o].seq = n /\ event[o].state = s.event[o].state /\ event[o].direct = s.event[o].direct
       /\ \A x \in Offers : x # o => event[x] = s.event[x]
  <2>1. s.event \in [Offers -> Event] /\ s.event[o] \in Event
    BY ProgramIs
  <2> QED BY <1>13, <2>1 DEF Event
<1>21. dc[c].state = s.dc[c].state /\ dc[c].queue = s.dc[c].queue /\ dc[c].cache = new
       /\ \A d \in Conns : d # c => dc[d] = s.dc[d]
  <2>1. s.dc \in [Conns -> Client] /\ s.dc[c] \in Client
    BY ProgramIs
  <2> QED BY <1>14, <2>1 DEF Client
<1>22. NewEntry(s, t, c, o)
  BY <1>1, <1>5, <1>7, <1>16, <1>20, <1>21 DEF NewEntry
<1>23. \E w \in Message : w.type = "START" /\ w.seq = t.event[o].seq /\ w.offer = o /\ t.out = Append(s.out, <<c, w>>)
  BY <1>3, <1>11, <1>16, <1>20
<1> QED BY <1>16, <1>19, <1>20, <1>21, <1>22, <1>23 DEF PacketSent

\* An offer that can be sent
Ready(p, s, wd, o) == Waiting(p, s, wd, o) /\ ~Queued(s, o) /\ Unsent(p, o)

\* It keeps the invariants of the callback, and that the others can be sent.
LEMMA SendPacketKeeps ==
  ASSUME NEW p, NEW s, NEW an, NEW wd, NEW K, Amid(p, s, an, wd, K),
         NEW c \in Conns, s.dc[c].state = "CONNECTED", NEW o \in Offers, Ready(p, s, wd, o),
         NEW t, PacketSent(s, t, c, o)
  PROVE  /\ Amid(p, t, an, wd, K) /\ Kept(p, s, t, an, wd)
         /\ t.dc[c].state = "CONNECTED" /\ t.dc[c].queue = s.dc[c].queue
         /\ \A x \in Offers : x # o /\ Ready(p, s, wd, x) => Ready(p, t, wd, x)
<1>1. LocalOK(p, s, wd) /\ s \in Program /\ Onward(p, s, K) /\ OutOK(p, s, an, wd)
  BY DEF Amid, LocalOK
<1>2. /\ t \in Program /\ t.list = s.list /\ t.cookies = s.cookies
      /\ \A d \in Conns : d # c => t.dc[d] = s.dc[d]
      /\ t.dc[c].state = s.dc[c].state /\ t.dc[c].queue = s.dc[c].queue
      /\ \A x \in Offers : x # o => t.event[x] = s.event[x]
      /\ t.event[o].state = s.event[o].state /\ t.event[o].direct = s.event[o].direct
      /\ NewEntry(s, t, c, o)
  BY DEF PacketSent
<1>3. PICK m \in Message : m.type = "START" /\ m.seq = t.event[o].seq /\ m.offer = o /\ t.out = Append(s.out, <<c, m>>)
  BY DEF PacketSent
<1>4. Waiting(p, s, wd, o) /\ ~Queued(s, o) /\ Unsent(p, o)
  BY DEF Ready
<1>5. ~Cached(s, o)
  <2>1. SUFFICES ASSUME Cached(s, o) PROVE FALSE
    OBVIOUS
  <2>2. PICK d \in Conns : \E i \in 1..Len(s.dc[d].cache) : s.dc[d].cache[i].offer = o
    BY <2>1 DEF Cached
  <2>3. PICK i \in 1..Len(s.dc[d].cache) : s.dc[d].cache[i].offer = o
    BY <2>2
  <2>4. PICK e \in Entry : e = s.dc[d].cache[i] /\ EntryOK(s, e)
    BY <1>1, <2>3, ProgramIs DEF LocalOK, CachesOK
  <2> QED BY <1>4, <2>3, <2>4 DEF Waiting, EntryOK
<1>6. Enters(p, s, t, c, o, wd)
  <2>1. from[o] = p => (wd[o] # "no" => s.event[o].state # "WAIT_RESPONS")
    BY <1>1 DEF LocalOK, EventsOK
  <2>2. t.event[o].direct /\ t.event[o].state # "none" /\ o \notin t.cookies
    BY <1>2, <1>4 DEF Waiting
  <2> QED BY <1>2, <1>4, <1>5, <2>1, <2>2 DEF Enters
<1>7. /\ LocalOK(p, t, wd)
      /\ \A x : Queued(t, x) <=> Queued(s, x)
      /\ \A x : Cached(t, x) <=> Cached(s, x) \/ x = o
  BY <1>1, <1>6, EntersLocal
<1>8. Onward(p, t, K)
  <2>1. ASSUME NEW x \in Offers
        PROVE  /\ prog[p].event[x].state # "none" => t.event[x].state # "none"
               /\ from[x] = p => t.event[x].seq = prog[p].event[x].seq \/ Unsent(p, x)
               /\ from[x] # p /\ x \notin K => /\ t.event[x].seq = prog[p].event[x].seq
                                               /\ t.event[x].state = "none" <=> prog[p].event[x].state = "none"
               /\ Queued(t, x) => Unsent(p, x)
    <3>1. CASE x = o
      BY <1>1, <1>2, <1>4, <3>1 DEF Onward, Unsent
    <3>2. CASE x # o
      BY <1>1, <1>2, <1>7, <3>2 DEF Onward
    <3> QED BY <3>1, <3>2
  <2>2. \A d \in Conns : t.dc[d].state = s.dc[d].state
    BY <1>2
  <2> QED BY <1>1, <2>1, <2>2 DEF Onward
<1>9. OutOK(p, t, an, wd)
  <2>1. PICK pair : pair = <<c, m>>
    OBVIOUS
  <2>2. pair \in Conns \X Message /\ pair = <<c, m>> /\ pair[2] = m
    BY <2>1
  <2>3. /\ Len(t.out) = Len(s.out) + 1 /\ Len(s.out) \in Nat
        /\ t.out[Len(s.out) + 1] = pair /\ \A i \in 1..Len(s.out) : t.out[i] = s.out[i]
    <3>1. s.out \in Seq(Conns \X Message)
      BY <1>1, ProgramIs
    <3> QED BY <1>3, <2>2, <3>1, AppendProperties
  <2>4. \A i \in 1..Len(t.out) : i = Len(s.out) + 1 \/ i \in 1..Len(s.out)
    BY <2>3
  <2>5. MaySend(p, t, an, wd, m)
    <3>1. t.event[o].seq > 0
      BY <1>2 DEF NewEntry
    <3> QED BY <1>3, <1>4, <3>1 DEF MaySend, MayStart, Unsent
  <2>6. ASSUME NEW i \in 1..Len(s.out)
        PROVE  /\ MaySend(p, t, an, wd, s.out[i][2])
               /\ s.out[i][2].type = "START" => s.out[i][2].offer # o
    <3>1. PICK w \in Message : w = s.out[i][2]
      <4>1. s.out \in Seq(Conns \X Message)
        BY <1>1, ProgramIs
      <4> QED BY <4>1
    <3>2. MaySend(p, s, an, wd, w)
      BY <1>1, <3>1 DEF OutOK
    <3>3. w.type = "START" => MayStart(p, t, w) /\ w.offer # o
      <4>1. w.type = "START" => w.offer \in Offers
        BY <3>1 DEF Message
      <4>2. w.type = "START" => w.seq = s.event[w.offer].seq /\ w.seq > 0
        BY <3>2 DEF MaySend, MayStart
      <4>3. s.event[o].seq = 0
        BY <1>4 DEF Waiting
      <4>4. w.type = "START" => w.offer # o
        BY <4>2, <4>3
      <4> QED BY <1>2, <3>2, <4>1, <4>4 DEF MaySend, MayStart
    <3>4. w.type = "CANCEL" /\ w.seq # 0 => MayCancel(p, t, wd, w)
      <4>1. s.event[o].seq = 0
        BY <1>4 DEF Waiting
      <4> QED BY <1>2, <3>2, <4>1 DEF MaySend, MayCancel
    <3> QED BY <3>1, <3>2, <3>3, <3>4 DEF MaySend
  <2>7. \A i \in 1..Len(t.out) : MaySend(p, t, an, wd, t.out[i][2])
    BY <2>2, <2>3, <2>4, <2>5, <2>6
  <2>8. ASSUME NEW i \in 1..Len(t.out), NEW j \in 1..Len(t.out), t.out[i][2].type = "START",
               t.out[j][2].type = "START", t.out[i][2].offer = t.out[j][2].offer
        PROVE  i = j
    <3>1. CASE i = Len(s.out) + 1 /\ j = Len(s.out) + 1
      BY <3>1
    <3>2. CASE i \in 1..Len(s.out) /\ j \in 1..Len(s.out)
      BY <1>1, <2>3, <2>8, <3>2 DEF OutOK
    <3>3. CASE i = Len(s.out) + 1 /\ j \in 1..Len(s.out)
      BY <1>3, <2>2, <2>3, <2>6, <2>8, <3>3
    <3>4. CASE i \in 1..Len(s.out) /\ j = Len(s.out) + 1
      BY <1>3, <2>2, <2>3, <2>6, <2>8, <3>4
    <3> QED BY <2>4, <3>1, <3>2, <3>3, <3>4
  <2> QED BY <2>7, <2>8 DEF OutOK
<1>10. Kept(p, s, t, an, wd)
  <2>1. ASSUME Honest(p, s, an, wd), NEW x \in Offers PROVE HonestAt(p, t, an, wd, x)
    <3>1. t.event[x].state = s.event[x].state
      BY <1>2
    <3> QED BY <2>1, <3>1 DEF Honest, HonestAt
  <2>2. ASSUME Open(p, s, an, wd), NEW x \in Offers PROVE OpenAt(p, t, an, wd, x)
    <3>1. t.event[x].state = s.event[x].state
      BY <1>2
    <3>2. OpenAt(p, s, an, wd, x)
      BY <2>2 DEF Open
    <3>3. CASE x = o
      BY <1>4, <3>1, <3>2, <3>3 DEF OpenAt, Waiting
    <3>4. CASE x # o
      BY <1>7, <3>1, <3>2, <3>4 DEF OpenAt
    <3> QED BY <3>3, <3>4
  <2> QED BY <2>1, <2>2 DEF Kept, Honest, Open
<1>11. \A x \in Offers : x # o /\ Ready(p, s, wd, x) => Ready(p, t, wd, x)
  BY <1>2, <1>7 DEF Ready, Waiting
<1> QED BY <1>2, <1>7, <1>8, <1>9, <1>10, <1>11 DEF Amid

\* The queue of a connection is left out of account.
Emptied(s, c) == [s EXCEPT !.dc[c].queue = <<>>]

\* What that changes
LEMMA EmptiedIs ==
  ASSUME NEW s \in Program, NEW c \in Conns, NEW t, t = Emptied(s, c)
  PROVE  /\ t \in Program /\ t.event = s.event /\ t.list = s.list /\ t.cookies = s.cookies /\ t.out = s.out
         /\ \A d \in Conns : d # c => t.dc[d] = s.dc[d]
         /\ t.dc[c].state = s.dc[c].state /\ t.dc[c].cache = s.dc[c].cache /\ t.dc[c].queue = <<>>
<1>1. s.dc \in [Conns -> Client] /\ s.dc[c] \in Client
  BY ProgramIs
<1>2. PICK none \in Seq(Offers) : none = <<>>
  <2>1. <<>> \in Seq(Offers)
    OBVIOUS
  <2> QED BY <2>1, Zenon
<1>3. PICK dc : dc = [s.dc EXCEPT ![c] = [s.dc[c] EXCEPT !.queue = none]]
  OBVIOUS
<1>4. t = [s EXCEPT !.dc = dc]
  BY <1>2, <1>3 DEF Emptied
<1>5. dc \in [Conns -> Client]
  BY <1>1, <1>3 DEF Client
<1>6. /\ \A d \in Conns : d # c => dc[d] = s.dc[d]
      /\ dc[c].state = s.dc[c].state /\ dc[c].cache = s.dc[c].cache /\ dc[c].queue = none
  BY <1>1, <1>3 DEF Client
<1>7. t \in Program /\ t.dc = dc /\ t.event = s.event /\ t.list = s.list /\ t.cookies = s.cookies /\ t.out = s.out
  BY <1>4, <1>5 DEF Program
<1> QED BY <1>2, <1>6, <1>7

\* FlushQueue is a loop over the queue: one turn of it
FlushTurn(g, s, c, queue, same, i) == IF i = 0 THEN s ELSE SendPacketEvent(g[i - 1], c, queue[i], same)
Flushes(g, s, c, queue, same, n) == g = [i \in 0..n |-> FlushTurn(g, s, c, queue, same, i)]

\* A function does what the turns of FlushQueue say.
LEMMA FlushExists ==
  ASSUME NEW s, NEW c, NEW queue, NEW same, Len(queue) \in Nat
  PROVE  \E g : Flushes(g, s, c, queue, same, Len(queue))
<1> DEFINE Bad == {n \in 0..Len(queue) : ~\E g : Flushes(g, s, c, queue, same, n)}
<1>1. \E g : Flushes(g, s, c, queue, same, 0)
  <2> WITNESS [i \in 0..0 |-> s]
  <2> QED BY DEF Flushes, FlushTurn
<1>2. ASSUME NEW n \in 0..Len(queue), n + 1 \in 0..Len(queue), NEW g, Flushes(g, s, c, queue, same, n)
      PROVE  \E h : Flushes(h, s, c, queue, same, n + 1)
  <2> DEFINE h == [i \in 0..n+1 |-> IF i = n + 1 THEN FlushTurn(g, s, c, queue, same, n + 1) ELSE g[i]]
  <2>1. \A i \in 0..n : g[i] = FlushTurn(g, s, c, queue, same, i)
    BY <1>2 DEF Flushes
  <2>2. ASSUME NEW i \in 0..n+1 PROVE h[i] = FlushTurn(h, s, c, queue, same, i)
    <3>1. CASE i = n + 1
      BY <3>1 DEF FlushTurn
    <3>2. CASE i # n + 1
      <4>1. i \in 0..n /\ (i # 0 => i - 1 \in 0..n)
        BY <3>2
      <4>2. h[i] = g[i] /\ (i # 0 => h[i - 1] = g[i - 1])
        BY <4>1
      <4> QED BY <2>1, <4>1, <4>2 DEF FlushTurn
    <3> QED BY <3>1, <3>2
  <2>3. h = [i \in 0..n+1 |-> h[i]]
    OBVIOUS
  <2> HIDE DEF h
  <2>4. Flushes(h, s, c, queue, same, n + 1)
    BY <2>2, <2>3 DEF Flushes
  <2> QED BY <2>4
<1>3. Bad = {}
  <2>1. SUFFICES ASSUME Bad # {} PROVE FALSE
    OBVIOUS
  <2>2. PICK k \in Bad : \A j \in Bad : k <= j
    <3>1. Bad \in SUBSET (0..Len(queue))
      OBVIOUS
    <3> HIDE DEF Bad
    <3> QED BY <2>1, <3>1, Least
  <2>3. k # 0
    BY <1>1
  <2>4. k - 1 \in 0..Len(queue) /\ k - 1 \notin Bad /\ (k - 1) + 1 = k
    BY <2>2, <2>3
  <2>5. PICK g : Flushes(g, s, c, queue, same, k - 1)
    BY <2>4
  <2>6. \E h : Flushes(h, s, c, queue, same, k)
    BY <1>2, <2>4, <2>5
  <2> QED BY <2>6
<1> QED
  <2>1. Len(queue) \notin Bad
    BY <1>3
  <2> QED BY <2>1

\* What holds of every turn, each as it was left by the one before, holds at
\* the end.
LEMMA FlushStays ==
  ASSUME NEW s, NEW c, NEW queue, queue = s.dc[c].queue, NEW same, Len(queue) \in Nat, NEW S, s \in S[0],
         \A i \in 1..Len(queue) : \A u \in S[i - 1] : SendPacketEvent(u, c, queue[i], same) \in S[i]
  PROVE  \E u \in S[Len(queue)] : FlushQueue(s, c, same) = Emptied(u, c)
<1>1. PICK g : Flushes(g, s, c, queue, same, Len(queue))
  BY FlushExists
<1> DEFINE Body(h) == [i \in 0..Len(queue) |->
                         IF i = 0 THEN s ELSE SendPacketEvent(h[i - 1], c, queue[i], same)]
           after == CHOOSE h : h = Body(h)
<1>2. after = Body(after)
  BY <1>1 DEF Flushes, FlushTurn
<1>3. FlushQueue(s, c, same) = Emptied(after[Len(queue)], c)
  BY DEF FlushQueue, Emptied
<1> HIDE DEF after
<1>4. \A i \in 0..Len(queue) : after[i] = IF i = 0 THEN s ELSE SendPacketEvent(after[i - 1], c, queue[i], same)
  BY <1>2
<1> DEFINE Bad == {n \in 0..Len(queue) : after[n] \notin S[n]}
<1>5. Bad = {}
  <2>1. SUFFICES ASSUME Bad # {} PROVE FALSE
    OBVIOUS
  <2>2. PICK k \in Bad : \A j \in Bad : k <= j
    <3>1. Bad \in SUBSET (0..Len(queue))
      OBVIOUS
    <3> HIDE DEF Bad
    <3> QED BY <2>1, <3>1, Least
  <2>3. k # 0
    BY <1>4
  <2>4. k - 1 \in 0..Len(queue) /\ k - 1 \notin Bad /\ k \in 1..Len(queue)
    BY <2>2, <2>3
  <2>5. after[k - 1] \in S[k - 1]
    BY <2>4
  <2>6. after[k] \in S[k]
    <3>1. PICK u : u = after[k - 1]
      OBVIOUS
    <3>2. after[k] = SendPacketEvent(u, c, queue[k], same)
      BY <1>4, <2>3, <2>4, <3>1
    <3> QED BY <2>4, <2>5, <3>1, <3>2
  <2> QED BY <2>2, <2>6
<1>6. after[Len(queue)] \in S[Len(queue)]
  BY <1>5
<1> QED BY <1>3, <1>6

\* One part of a callback after another
LEMMA KeptTrans ==
  ASSUME NEW p, NEW s, NEW t, NEW u, NEW an, NEW wd, Kept(p, s, t, an, wd), Kept(p, t, u, an, wd)
  PROVE  Kept(p, s, u, an, wd)
BY DEF Kept

\* Where only some connections' queues and caches become smaller
LEMMA ShrinksOne ==
  ASSUME NEW s \in Program, NEW t \in Program, NEW c \in Conns,
         \A d \in Conns : d # c => t.dc[d] = s.dc[d]
  PROVE  \A d \in Conns : d # c => /\ Within(t.dc[d].queue, s.dc[d].queue) /\ Within(t.dc[d].cache, s.dc[d].cache)
                                   /\ t.dc[d].state = s.dc[d].state
<1>1. ASSUME NEW d \in Conns, d # c
      PROVE  Within(t.dc[d].queue, s.dc[d].queue) /\ Within(t.dc[d].cache, s.dc[d].cache)
  <2>1. PICK queue \in Seq(Offers) : queue = s.dc[d].queue
    BY ProgramIs
  <2>2. PICK cache \in Seq(Entry) : cache = s.dc[d].cache
    BY ProgramIs
  <2>3. Within(queue, queue) /\ Within(cache, cache)
    BY WithinSelf
  <2> QED BY <1>1, <2>1, <2>2, <2>3
<1> QED BY <1>1

\* So only that queue becomes smaller.
LEMMA EmptiedShrinks ==
  ASSUME NEW p, NEW s, NEW wd, LocalOK(p, s, wd), NEW K, Onward(p, s, K), NEW c \in Conns, NEW t, t = Emptied(s, c)
  PROVE  Shrinks(s, t)
<1>1. s \in Program
  BY DEF LocalOK
<1>2. /\ t \in Program /\ t.event = s.event /\ t.list = s.list /\ t.cookies = s.cookies /\ t.out = s.out
      /\ \A d \in Conns : d # c => t.dc[d] = s.dc[d]
      /\ t.dc[c].state = s.dc[c].state /\ t.dc[c].cache = s.dc[c].cache /\ t.dc[c].queue = <<>>
  BY <1>1, EmptiedIs
<1>3. \A d \in Conns : t.dc[d].state = s.dc[d].state /\ t.dc[d].cache = s.dc[d].cache
  BY <1>2
<1>4. Listed(t)
  BY <1>2, <1>3 DEF LocalOK, Listed
<1>5. ASSUME NEW d \in Conns
      PROVE  Within(t.dc[d].queue, s.dc[d].queue) /\ Within(t.dc[d].cache, s.dc[d].cache)
  <2>1. CASE d = c
    <3>1. PICK cache \in Seq(Entry) : cache = s.dc[c].cache
      BY <1>1, ProgramIs
    <3>2. Within(cache, cache) /\ Within(t.dc[c].queue, s.dc[c].queue)
      BY <1>2, WithinSelf, WithinNone
    <3> QED BY <1>3, <2>1, <3>1, <3>2
  <2>2. CASE d # c
    BY <1>1, <1>2, <2>2, ShrinksOne
  <2> QED BY <2>1, <2>2
<1>6. \A d \in Conns : \A i \in 1..Len(t.dc[d].cache) : t.dc[d].state = "CONNECTED"
  BY <1>3 DEF LocalOK, CachesOK
<1> QED BY <1>2, <1>3, <1>4, <1>5, <1>6 DEF Shrinks

\* A connection that can be used sends all that waits for it.
LEMMA FlushKeeps ==
  ASSUME NEW p, NEW s, NEW an, NEW wd, NEW K, Amid(p, s, an, wd, K),
         NEW c \in Conns, s.dc[c].state = "CONNECTED", NEW same, NEW t, t = FlushQueue(s, c, same)
  PROVE  Amid(p, t, an, wd, K) /\ Kept(p, s, t, an, wd)
<1>1. LocalOK(p, s, wd) /\ s \in Program /\ Onward(p, s, K)
  BY DEF Amid, LocalOK
<1>2. PICK queue \in Seq(Offers) : queue = s.dc[c].queue
  BY <1>1, ProgramIs
<1>3. Len(queue) \in Nat /\ \A i \in 1..Len(queue) : queue[i] \in Offers
  BY <1>2
<1> DEFINE In(u, i) ==
             /\ u \in Program /\ u.dc[c].state = "CONNECTED"
             /\ Amid(p, Emptied(u, c), an, wd, K) /\ Kept(p, s, Emptied(u, c), an, wd)
             /\ \A j \in 1..Len(queue) : j > i => Ready(p, Emptied(u, c), wd, queue[j])
           S == [i \in 0..Len(queue) |-> {u \in Program : In(u, i)}]
<1>4. s \in S[0]
  <2>1. PICK e : e = Emptied(s, c)
    OBVIOUS
  <2>2. Shrinks(s, e)
    BY <1>1, <2>1, EmptiedShrinks
  <2>3. Amid(p, e, an, wd, K) /\ Kept(p, s, e, an, wd)
    BY <2>2, ShrinksKeeps
  <2>4. ASSUME NEW j \in 1..Len(queue) PROVE Ready(p, e, wd, queue[j])
    <3>1. PICK o \in Offers : o = queue[j]
      BY <1>3
    <3>2. Waiting(p, s, wd, o) /\ Queued(s, o)
      BY <1>1, <1>2, <3>1 DEF LocalOK, QueuesOK, Queued
    <3>3. Unsent(p, o)
      BY <1>1, <3>2 DEF Onward
    <3>4. /\ e.event = s.event /\ e.cookies = s.cookies
          /\ \A d \in Conns : d # c => e.dc[d] = s.dc[d]
          /\ e.dc[c].queue = <<>>
      BY <1>1, <2>1, EmptiedIs
    <3>5. ~Queued(e, o)
      <4>1. SUFFICES ASSUME Queued(e, o) PROVE FALSE
        OBVIOUS
      <4>2. PICK d \in Conns : \E i \in 1..Len(e.dc[d].queue) : e.dc[d].queue[i] = o
        BY <4>1 DEF Queued
      <4>3. PICK i \in 1..Len(e.dc[d].queue) : e.dc[d].queue[i] = o
        BY <4>2
      <4>4. d # c
        <5>1. \A k \in 1..Len(<<>>) : FALSE
          OBVIOUS
        <5> QED BY <3>4, <4>3, <5>1
      <4>5. i \in 1..Len(s.dc[d].queue) /\ s.dc[d].queue[i] = s.dc[c].queue[j] /\ j \in 1..Len(s.dc[c].queue)
        BY <1>2, <3>1, <3>4, <4>3, <4>4
      <4> QED BY <1>1, <4>4, <4>5 DEF LocalOK, QueuesOK
    <3>6. Waiting(p, e, wd, o)
      BY <3>2, <3>4 DEF Waiting
    <3> QED BY <3>1, <3>3, <3>5, <3>6 DEF Ready
  <2>5. In(s, 0)
    BY <1>1, <2>1, <2>3, <2>4
  <2>6. 0 \in 0..Len(queue)
    BY <1>3
  <2> HIDE DEF In
  <2> QED BY <1>1, <2>5, <2>6
<1>5. ASSUME NEW i \in 1..Len(queue), NEW u \in S[i - 1]
      PROVE  SendPacketEvent(u, c, queue[i], same) \in S[i]
  <2>1. i - 1 \in 0..Len(queue) /\ i \in 0..Len(queue) /\ i > i - 1
    BY <1>3
  <2>2. u \in Program /\ In(u, i - 1)
    <3> HIDE DEF In
    <3> QED BY <1>5, <2>1
  <2>3. PICK o \in Offers : o = queue[i]
    BY <1>3
  <2>4. PICK v : v = SendPacketEvent(u, c, o, same)
    OBVIOUS
  <2>5. PacketSent(u, v, c, o)
    BY <2>2, <2>4, SendPacketIs
  <2>6. PICK e : e = Emptied(u, c)
    OBVIOUS
  <2>7. PICK f : f = Emptied(v, c)
    OBVIOUS
  <2>8. v \in Program /\ v.dc[c].state = "CONNECTED"
    BY <2>2, <2>5 DEF PacketSent
  <2>9. /\ e \in Program /\ e.event = u.event /\ e.list = u.list /\ e.cookies = u.cookies /\ e.out = u.out
        /\ \A d \in Conns : d # c => e.dc[d] = u.dc[d]
        /\ e.dc[c].state = u.dc[c].state /\ e.dc[c].cache = u.dc[c].cache /\ e.dc[c].queue = <<>>
    BY <2>2, <2>6, EmptiedIs
  <2>10. /\ f \in Program /\ f.event = v.event /\ f.list = v.list /\ f.cookies = v.cookies /\ f.out = v.out
         /\ \A d \in Conns : d # c => f.dc[d] = v.dc[d]
         /\ f.dc[c].state = v.dc[c].state /\ f.dc[c].cache = v.dc[c].cache /\ f.dc[c].queue = <<>>
    BY <2>8, <2>7, EmptiedIs
  <2>11. PacketSent(e, f, c, o)
    <3>1. /\ f.list = e.list /\ f.cookies = e.cookies
          /\ \A d \in Conns : d # c => f.dc[d] = e.dc[d]
          /\ f.dc[c].state = e.dc[c].state /\ f.dc[c].queue = e.dc[c].queue
          /\ \A x \in Offers : x # o => f.event[x] = e.event[x]
          /\ f.event[o].state = e.event[o].state /\ f.event[o].direct = e.event[o].direct
      BY <2>5, <2>9, <2>10 DEF PacketSent
    <3>2. NewEntry(e, f, c, o)
      BY <2>5, <2>9, <2>10 DEF PacketSent, NewEntry
    <3>3. \E m \in Message : m.type = "START" /\ m.seq = f.event[o].seq /\ m.offer = o /\ f.out = Append(e.out, <<c, m>>)
      BY <2>5, <2>9, <2>10 DEF PacketSent
    <3> QED BY <2>10, <3>1, <3>2, <3>3 DEF PacketSent
  <2>12. /\ Amid(p, e, an, wd, K) /\ Kept(p, s, e, an, wd)
         /\ \A j \in 1..Len(queue) : j > i - 1 => Ready(p, e, wd, queue[j])
    BY <2>2, <2>6
  <2>13. Ready(p, e, wd, o) /\ e.dc[c].state = "CONNECTED"
    BY <2>1, <2>2, <2>3, <2>9, <2>12
  <2>14. /\ Amid(p, f, an, wd, K) /\ Kept(p, e, f, an, wd)
         /\ \A x \in Offers : x # o /\ Ready(p, e, wd, x) => Ready(p, f, wd, x)
    BY <2>11, <2>12, <2>13, SendPacketKeeps
  <2>15. Kept(p, s, f, an, wd)
    BY <2>12, <2>14, KeptTrans
  <2>16. ASSUME NEW j \in 1..Len(queue), j > i PROVE Ready(p, f, wd, queue[j])
    <3>1. j > i - 1 /\ j # i
      BY <1>3, <2>16
    <3>2. queue[j] # o
      BY <1>1, <1>2, <2>3, <3>1 DEF LocalOK, QueuesOK
    <3> QED BY <1>3, <2>12, <2>14, <3>1, <3>2
  <2>17. In(v, i)
    BY <2>7, <2>8, <2>14, <2>15, <2>16
  <2> HIDE DEF In
  <2> QED BY <2>1, <2>3, <2>4, <2>8, <2>17
<1>6. PICK u \in S[Len(queue)] : t = Emptied(u, c)
  <2>1. \E u \in S[Len(queue)] : FlushQueue(s, c, same) = Emptied(u, c)
    <3> HIDE DEF S
    <3> QED BY <1>2, <1>3, <1>4, <1>5, FlushStays
  <2> QED BY <2>1
<1>7. In(u, Len(queue))
  <2>1. Len(queue) \in 0..Len(queue)
    BY <1>3
  <2> HIDE DEF In
  <2> QED BY <1>6, <2>1
<1> QED BY <1>6, <1>7

-----------------------------------------------------------------------------
(* Connections begin, go on and end; offers leave a cache.                 *)

\* The fields that connections and expiry change, named for the provers
Update(s, c, x, l, ev) == [s EXCEPT !.event = ev, !.dc = [s.dc EXCEPT ![c] = x], !.list = l]

\* What that is, field by field
LEMMA UpdateIs ==
  ASSUME NEW s \in Program, NEW c \in Conns, NEW x \in Client, NEW l \in Seq(Conns), NEW ev \in [Offers -> Event],
         NEW t, t = Update(s, c, x, l, ev)
  PROVE  /\ t \in Program /\ t.event = ev /\ t.list = l /\ t.cookies = s.cookies /\ t.out = s.out
         /\ t.dc[c] = x /\ \A d \in Conns : d # c => t.dc[d] = s.dc[d]
<1>1. s.dc \in [Conns -> Client]
  BY ProgramIs
<1>2. PICK dc : dc = [s.dc EXCEPT ![c] = x]
  OBVIOUS
<1>3. dc \in [Conns -> Client] /\ dc[c] = x /\ \A d \in Conns : d # c => dc[d] = s.dc[d]
  BY <1>1, <1>2
<1>4. t = [s EXCEPT !.event = ev, !.dc = dc, !.list = l]
  BY <1>2 DEF Update
<1>5. t \in Program /\ t.event = ev /\ t.list = l /\ t.cookies = s.cookies /\ t.out = s.out /\ t.dc = dc
  BY <1>3, <1>4 DEF Program
<1> QED BY <1>3, <1>5

\* One connection changes: its client becomes x.
Changes(s, t, c) ==
    /\ t \in Program /\ t.out = s.out /\ t.cookies = s.cookies
    /\ \A d \in Conns : d # c => /\ t.dc[d] = s.dc[d]
                                 /\ d \in ToSet(t.list) <=> d \in ToSet(s.list)
    /\ c \in ToSet(t.list) <=> t.dc[c].state \notin {"none", "closed"}
    /\ Within(t.dc[c].queue, s.dc[c].queue) /\ Within(t.dc[c].cache, s.dc[c].cache)
    /\ \A i \in 1..Len(t.dc[c].cache) : t.dc[c].state = "CONNECTED"
    /\ t.dc[c].state # "none"
    /\ s.dc[c].state # "none" \/ caller[c] # "none" \/ c = Cardinality(Used) + 1

\* That is one of the changes above.
LEMMA ChangesShrinks ==
  ASSUME NEW p, NEW s, NEW t, NEW wd, LocalOK(p, s, wd), NEW c \in Conns, Changes(s, t, c),
         \A o \in Offers : t.event[o] = s.event[o] \/ Expired(s, t, o)
  PROVE  Shrinks(s, t)
<1>1. s \in Program /\ t \in Program
  BY DEF LocalOK, Changes
<1>2. Listed(t)
  BY DEF LocalOK, Listed, Changes
<1>3. \A d \in Conns : d # c => /\ Within(t.dc[d].queue, s.dc[d].queue) /\ Within(t.dc[d].cache, s.dc[d].cache)
                                /\ t.dc[d].state = s.dc[d].state /\ t.dc[d].cache = s.dc[d].cache
  BY <1>1, ShrinksOne DEF Changes
<1>4. ASSUME NEW d \in Conns
      PROVE  /\ Within(t.dc[d].queue, s.dc[d].queue) /\ Within(t.dc[d].cache, s.dc[d].cache)
             /\ \A i \in 1..Len(t.dc[d].cache) : t.dc[d].state = "CONNECTED"
             /\ s.dc[d].state # "none" => t.dc[d].state # "none"
             /\ t.dc[d].state # "none" => s.dc[d].state # "none" \/ caller[d] # "none" \/ d = Cardinality(Used) + 1
  <2>1. CASE d = c
    BY <2>1 DEF Changes
  <2>2. CASE d # c
    BY <1>3, <2>2 DEF LocalOK, CachesOK
  <2> QED BY <2>1, <2>2
<1> QED BY <1>1, <1>2, <1>4 DEF Shrinks, Changes

\* A client, and that it loses nothing if it is left alone
LEMMA ClientIs ==
  ASSUME NEW s \in Program, NEW c \in Conns
  PROVE  /\ s.dc[c] \in Client
         /\ Within(s.dc[c].queue, s.dc[c].queue) /\ Within(s.dc[c].cache, s.dc[c].cache)
<1>1. PICK queue \in Seq(Offers) : queue = s.dc[c].queue
  BY ProgramIs
<1>2. PICK cache \in Seq(Entry) : cache = s.dc[c].cache
  BY ProgramIs
<1>3. Within(queue, queue) /\ Within(cache, cache)
  BY WithinSelf
<1> QED BY <1>1, <1>2, <1>3, ProgramIs

\* The next state of the handshake
LEMMA StateShrinks ==
  ASSUME NEW p, NEW s, NEW wd, LocalOK(p, s, wd), NEW c \in Conns,
         s.dc[c].state \notin {"none", "closed", "CONNECTED"},
         NEW st \in ClientStates, st \notin {"none", "closed"},
         NEW t, t = [s EXCEPT !.dc[c].state = st]
  PROVE  Shrinks(s, t) /\ t.dc[c].state = st
<1>1. s \in Program /\ s.dc[c] \in Client
  BY ProgramIs DEF LocalOK
<1>2. PICK x : x = [s.dc[c] EXCEPT !.state = st]
  OBVIOUS
<1>3. x \in Client /\ x.state = st /\ x.queue = s.dc[c].queue /\ x.cache = s.dc[c].cache
  BY <1>1, <1>2 DEF Client
<1>4. s.event \in [Offers -> Event] /\ s.list \in Seq(Conns)
  BY <1>1, ProgramIs
<1>5. PICK l \in Seq(Conns) : l = s.list
  BY <1>4
<1>6. PICK u : u = Update(s, c, x, l, s.event)
  OBVIOUS
<1>7. t = u
  BY <1>1, <1>2, <1>5, <1>6 DEF Program, Update
<1>8. /\ u \in Program /\ u.event = s.event /\ u.list = l /\ u.cookies = s.cookies /\ u.out = s.out
      /\ u.dc[c] = x /\ \A d \in Conns : d # c => u.dc[d] = s.dc[d]
  BY <1>1, <1>3, <1>4, <1>6, UpdateIs
<1>9. /\ t \in Program /\ t.event = s.event /\ t.list = s.list /\ t.cookies = s.cookies /\ t.out = s.out
      /\ t.dc[c] = x /\ \A d \in Conns : d # c => t.dc[d] = s.dc[d]
  BY <1>5, <1>7, <1>8, Zenon
<1>10. \A i \in 1..Len(t.dc[c].cache) : t.dc[c].state = "CONNECTED"
  BY <1>3, <1>9 DEF LocalOK, CachesOK
<1>11. c \in ToSet(t.list) <=> t.dc[c].state \notin {"none", "closed"}
  BY <1>3, <1>9 DEF LocalOK, Listed
<1>12. Within(t.dc[c].queue, s.dc[c].queue) /\ Within(t.dc[c].cache, s.dc[c].cache)
  BY <1>1, <1>3, <1>9, ClientIs
<1>13. Changes(s, t, c)
  BY <1>3, <1>9, <1>10, <1>11, <1>12 DEF Changes
<1>14. Shrinks(s, t)
  BY <1>9, <1>13, ChangesShrinks
<1> QED BY <1>3, <1>9, <1>14

\* The end of the handshake
LEMMA ConnectedKeeps ==
  ASSUME NEW p, NEW s, NEW an, NEW wd, NEW K, Amid(p, s, an, wd, K), NEW c \in Conns,
         s.dc[c].state \notin {"none", "closed", "CONNECTED"},
         NEW same, NEW t, t = Connected(s, c, same)
  PROVE  Amid(p, t, an, wd, K) /\ Kept(p, s, t, an, wd)
<1>1. LocalOK(p, s, wd)
  BY DEF Amid
<1>2. s \in Program /\ s.dc[c] \in Client
  BY <1>1, ProgramIs DEF LocalOK
<1>3. PICK st \in ClientStates : st = "CONNECTED"
  BY DEF ClientStates
<1>4. PICK x : x = [s.dc[c] EXCEPT !.state = st]
  OBVIOUS
<1>5. x \in Client /\ x.state = st /\ x.queue = s.dc[c].queue /\ x.cache = s.dc[c].cache
  BY <1>2, <1>4 DEF Client
<1>6. s.event \in [Offers -> Event] /\ s.list \in Seq(Conns)
  BY <1>2, ProgramIs
<1>7. PICK rest : rest = Only(s.list, Conns \ {c})
  OBVIOUS
<1>8. rest \in Seq(Conns) /\ ToSet(rest) = ToSet(s.list) \cap (Conns \ {c})
  BY <1>6, <1>7, OnlyIs, OnlySet
<1>9. PICK l : l = Append(rest, c)
  OBVIOUS
<1>10. l \in Seq(Conns) /\ ToSet(l) = ToSet(rest) \cup {c}
  <2>1. l = Append(rest, c) \/ l = <<c>> \o rest
    BY <1>9
  <2> QED BY <1>8, <2>1, OneMore
<1>11. PICK u : u = Update(s, c, x, l, s.event)
  OBVIOUS
<1>12. u = [s EXCEPT !.dc[c].state = st, !.list = Append(Only(s.list, Conns \ {c}), c)]
  BY <1>2, <1>4, <1>7, <1>9, <1>11 DEF Program, Update
<1>13. t = FlushQueue(u, c, same)
  BY <1>2, <1>3, <1>12 DEF Connected, Program
<1>14. /\ u \in Program /\ u.event = s.event /\ u.list = l /\ u.cookies = s.cookies /\ u.out = s.out
      /\ u.dc[c] = x /\ \A d \in Conns : d # c => u.dc[d] = s.dc[d]
  BY <1>2, <1>5, <1>6, <1>10, <1>11, UpdateIs
<1>15. Within(u.dc[c].queue, s.dc[c].queue) /\ Within(u.dc[c].cache, s.dc[c].cache)
  BY <1>2, <1>5, <1>14, ClientIs
<1>16. Changes(s, u, c)
  BY <1>3, <1>5, <1>8, <1>10, <1>14, <1>15 DEF Changes
<1>17. Shrinks(s, u)
  BY <1>1, <1>14, <1>16, ChangesShrinks
<1>18. Amid(p, u, an, wd, K) /\ Kept(p, s, u, an, wd)
  BY <1>17, ShrinksKeeps
<1>19. Amid(p, t, an, wd, K) /\ Kept(p, u, t, an, wd)
  BY <1>3, <1>5, <1>13, <1>14, <1>18, FlushKeeps
<1> QED BY <1>18, <1>19, KeptTrans

\* What the invariants of one program say of one offer
LEMMA OfferIs ==
  ASSUME NEW p, NEW s, NEW wd, LocalOK(p, s, wd), NEW o \in Offers
  PROVE  /\ Queued(s, o) => Waiting(p, s, wd, o)
         /\ Cached(s, o) => /\ s.event[o].seq > 0 /\ s.event[o].direct /\ s.event[o].state # "none"
                            /\ ~Queued(s, o)
<1>1. s \in Program
  BY DEF LocalOK
<1>2. ASSUME Queued(s, o) PROVE Waiting(p, s, wd, o)
  <2>1. PICK c \in Conns : \E i \in 1..Len(s.dc[c].queue) : s.dc[c].queue[i] = o
    BY <1>2 DEF Queued
  <2> QED BY <2>1 DEF LocalOK, QueuesOK
<1>3. ASSUME Cached(s, o) PROVE s.event[o].seq > 0 /\ s.event[o].direct /\ s.event[o].state # "none"
  <2>1. PICK c \in Conns : \E i \in 1..Len(s.dc[c].cache) : s.dc[c].cache[i].offer = o
    BY <1>3 DEF Cached
  <2>2. PICK i \in 1..Len(s.dc[c].cache) : s.dc[c].cache[i].offer = o
    BY <2>1
  <2>3. PICK e : e = s.dc[c].cache[i]
    OBVIOUS
  <2>4. EntryOK(s, e) /\ e.offer = o
    BY <2>2, <2>3 DEF LocalOK, CachesOK
  <2> QED BY <2>4 DEF EntryOK
<1>4. ASSUME Cached(s, o), Queued(s, o) PROVE FALSE
  BY <1>2, <1>3, <1>4 DEF Waiting
<1> QED BY <1>2, <1>3, <1>4

\* An offer that is in a queue or a cache is nowhere else.
LEMMA Elsewhere ==
  ASSUME NEW p, NEW s, NEW wd, LocalOK(p, s, wd), NEW c \in Conns, NEW o \in Offers,
         o \in {entry.offer : entry \in ToSet(s.dc[c].cache)} \cup ToSet(s.dc[c].queue)
  PROVE  /\ s.event[o].state # "none"
         /\ \A d \in Conns : d # c => /\ \A i \in 1..Len(s.dc[d].queue) : s.dc[d].queue[i] # o
                                      /\ \A i \in 1..Len(s.dc[d].cache) : s.dc[d].cache[i].offer # o
<1>1. PICK queue \in Seq(Offers) : queue = s.dc[c].queue
  BY ProgramIs DEF LocalOK
<1>2. PICK cache \in Seq(Entry) : cache = s.dc[c].cache
  BY ProgramIs DEF LocalOK
<1>3. (\E k \in 1..Len(cache) : cache[k].offer = o) \/ (\E k \in 1..Len(queue) : queue[k] = o)
  <2>1. CASE o \in ToSet(queue)
    BY <2>1, InSet
  <2>2. CASE \E entry \in ToSet(cache) : o = entry.offer
    BY <2>2, InSet
  <2> QED BY <1>1, <1>2, <2>1, <2>2
<1>4. CASE \E k \in 1..Len(queue) : queue[k] = o
  <2>1. PICK k \in 1..Len(s.dc[c].queue) : s.dc[c].queue[k] = o
    BY <1>1, <1>4
  <2>2. Queued(s, o)
    BY <2>1 DEF Queued
  <2>3. s.event[o].state # "none" /\ ~Cached(s, o)
    BY <2>2, OfferIs DEF Waiting
  <2>4. ASSUME NEW d \in Conns, d # c, NEW i \in 1..Len(s.dc[d].queue), s.dc[d].queue[i] = o PROVE FALSE
    BY <2>1, <2>4 DEF LocalOK, QueuesOK
  <2> QED BY <2>3, <2>4 DEF Cached
<1>5. CASE \E k \in 1..Len(cache) : cache[k].offer = o
  <2>1. PICK k \in 1..Len(s.dc[c].cache) : s.dc[c].cache[k].offer = o
    BY <1>2, <1>5
  <2>2. Cached(s, o)
    BY <2>1 DEF Cached
  <2>3. s.event[o].state # "none" /\ ~Queued(s, o)
    BY <2>2, OfferIs
  <2>4. ASSUME NEW d \in Conns, d # c, NEW i \in 1..Len(s.dc[d].cache), s.dc[d].cache[i].offer = o PROVE FALSE
    BY <2>1, <2>4 DEF LocalOK, CachesOK
  <2> QED BY <2>3, <2>4 DEF Queued
<1> QED BY <1>3, <1>4, <1>5

\* What Expire does
LEMMA ExpireIs ==
  ASSUME NEW s \in Program, NEW offers, NEW t, t = Expire(s, offers)
  PROVE  \E ev \in [Offers -> Event] :
            /\ t = [s EXCEPT !.event = ev]
            /\ \A o \in Offers : o \notin offers => ev[o] = s.event[o]
            /\ \A o \in Offers : o \in offers => ev[o].state = "TIMEOUT" /\ ev[o].seq = s.event[o].seq
<1>1. s.event \in [Offers -> Event]
  BY ProgramIs
<1>2. PICK st \in EventStates : st = "TIMEOUT"
  BY DEF EventStates
<1>3. PICK ev : ev = [o \in Offers |-> IF o \in offers THEN [s.event[o] EXCEPT !.state = st] ELSE s.event[o]]
  OBVIOUS
<1>4. \A o \in Offers : [s.event[o] EXCEPT !.state = st] \in Event
  BY <1>1 DEF Event
<1>5. ev \in [Offers -> Event]
  BY <1>1, <1>3, <1>4
<1>6. \A o \in Offers : o \notin offers => ev[o] = s.event[o]
  BY <1>3
<1>7. ASSUME NEW o \in Offers, o \in offers PROVE ev[o].state = "TIMEOUT" /\ ev[o].seq = s.event[o].seq
  <2>1. ev[o] = [s.event[o] EXCEPT !.state = st]
    BY <1>3, <1>7
  <2>2. s.event[o] \in Event
    BY <1>1
  <2> QED BY <1>2, <2>1, <2>2 DEF Event
<1>8. t = [s EXCEPT !.event = ev]
  BY <1>2, <1>3 DEF Expire
<1> QED BY <1>5, <1>6, <1>7, <1>8

\* The connection ends: what waited for it expires.
LEMMA DisconnectShrinks ==
  ASSUME NEW p, NEW s, NEW wd, LocalOK(p, s, wd), NEW c \in Conns, s.dc[c].state # "none",
         NEW t, t = Disconnect(s, c)
  PROVE  /\ Shrinks(s, t) /\ t.dc[c].state = "closed"
         /\ \A d \in Conns : d # c => t.dc[d] = s.dc[d]
<1>1. s \in Program /\ s.list \in Seq(Conns)
  BY ProgramIs DEF LocalOK
<1>2. PICK D : D = {entry.offer : entry \in ToSet(s.dc[c].cache)} \cup ToSet(s.dc[c].queue)
  OBVIOUS
<1>3. PICK ev \in [Offers -> Event] :
         /\ Expire(s, D) = [s EXCEPT !.event = ev]
         /\ \A o \in Offers : o \notin D => ev[o] = s.event[o]
         /\ \A o \in Offers : o \in D => ev[o].state = "TIMEOUT" /\ ev[o].seq = s.event[o].seq
  BY <1>1, ExpireIs
<1>4. PICK x : x = NewClient("closed")
  OBVIOUS
<1>5. x \in Client /\ x.state = "closed" /\ x.queue = <<>> /\ x.cache = <<>>
  <2>1. <<>> \in Seq(Offers)
    OBVIOUS
  <2>2. <<>> \in Seq(Entry)
    OBVIOUS
  <2> QED BY <1>4, <2>1, <2>2 DEF NewClient, Client, ClientStates
<1>6. PICK l : l = Only(s.list, Conns \ {c})
  OBVIOUS
<1>7. l \in Seq(Conns) /\ ToSet(l) = ToSet(s.list) \cap (Conns \ {c})
  BY <1>1, <1>6, OnlyIs, OnlySet
<1>8. PICK u : u = Update(s, c, x, l, ev)
  OBVIOUS
<1>9. t = u
  <2>1. PICK w : w = [s EXCEPT !.event = ev]
    OBVIOUS
  <2>2. t = [w EXCEPT !.dc[c] = x, !.list = Only(@, Conns \ {c})]
    BY <1>2, <1>3, <1>4, <2>1 DEF Disconnect
  <2>3. w.dc = s.dc /\ w.list = s.list
    BY <1>1, <2>1 DEF Program
  <2> QED BY <1>1, <1>6, <1>8, <2>1, <2>2, <2>3 DEF Update, Program
<1>10. /\ u \in Program /\ u.event = ev /\ u.list = l /\ u.cookies = s.cookies /\ u.out = s.out
       /\ u.dc[c] = x /\ \A d \in Conns : d # c => u.dc[d] = s.dc[d]
  BY <1>1, <1>3, <1>5, <1>7, <1>8, UpdateIs
<1>11. (\A i \in 1..Len(u.dc[c].cache) : FALSE) /\ (\A i \in 1..Len(u.dc[c].queue) : FALSE)
  <2>1. \A i \in 1..Len(<<>>) : FALSE
    OBVIOUS
  <2> QED BY <1>5, <1>10, <2>1
<1>12. Within(u.dc[c].queue, s.dc[c].queue) /\ Within(u.dc[c].cache, s.dc[c].cache)
  BY <1>5, <1>10, WithinNone
<1>13. Changes(s, u, c)
  BY <1>5, <1>7, <1>10, <1>11, <1>12 DEF Changes
<1>14. ASSUME NEW o \in Offers PROVE u.event[o] = s.event[o] \/ Expired(s, u, o)
  <2>1. CASE o \notin D
    BY <1>3, <1>10, <2>1
  <2>2. CASE o \in D
    <3>1. /\ s.event[o].state # "none"
          /\ \A d \in Conns : d # c => /\ \A i \in 1..Len(s.dc[d].queue) : s.dc[d].queue[i] # o
                                       /\ \A i \in 1..Len(s.dc[d].cache) : s.dc[d].cache[i].offer # o
      BY <1>2, <2>2, Elsewhere
    <3>2. ~Queued(u, o)
      <4>1. \A d \in Conns : \A i \in 1..Len(u.dc[d].queue) : u.dc[d].queue[i] # o
        BY <1>10, <1>11, <3>1
      <4> QED BY <4>1 DEF Queued
    <3>3. ~Cached(u, o)
      <4>1. \A d \in Conns : \A i \in 1..Len(u.dc[d].cache) : u.dc[d].cache[i].offer # o
        BY <1>10, <1>11, <3>1
      <4> QED BY <4>1 DEF Cached
    <3> QED BY <1>3, <1>10, <2>2, <3>1, <3>2, <3>3 DEF Expired
  <2> QED BY <2>1, <2>2
<1>15. Shrinks(s, u)
  BY <1>13, <1>14, ChangesShrinks
<1> QED BY <1>5, <1>9, <1>10, <1>15

\* A connection begins.
LEMMA AddClientShrinks ==
  ASSUME NEW p, NEW s, NEW wd, LocalOK(p, s, wd), NEW c \in Conns, s.dc[c].state = "none",
         caller[c] # "none" \/ c = Cardinality(Used) + 1, NEW st \in {"connecting", "INIT"},
         NEW t, t = AddClient(s, c, st)
  PROVE  Shrinks(s, t) /\ t.event = s.event /\ t.dc[c].state = st /\ t.dc[c].queue = <<>>
<1>1. s \in Program /\ s.list \in Seq(Conns) /\ s.event \in [Offers -> Event]
  BY ProgramIs DEF LocalOK
<1>2. PICK late : late = {k \in Conns : s.dc[k].state = "CONNECTED"}
  OBVIOUS
<1>3. PICK early : early = Conns \ late
  OBVIOUS
<1>4. PICK a : a = Only(s.list, early)
  OBVIOUS
<1>5. PICK b : b = Only(s.list, late)
  OBVIOUS
<1>6. a \in Seq(Conns) /\ ToSet(a) = ToSet(s.list) \cap early
  BY <1>1, <1>4, OnlyIs, OnlySet
<1>7. b \in Seq(Conns) /\ ToSet(b) = ToSet(s.list) \cap late
  BY <1>1, <1>5, OnlyIs, OnlySet
<1>8. PICK one : one = <<c>>
  OBVIOUS
<1>9. one \in Seq(Conns) /\ ToSet(one) = {c}
  <2>1. one \in Seq(Conns)
    BY <1>8
  <2>2. 1..Len(one) = {1} /\ one[1] = c
    BY <1>8
  <2>3. \A x : x \in ToSet(one) <=> \E i \in 1..Len(one) : x = one[i]
    BY <2>1, InSet
  <2> QED BY <2>1, <2>2, <2>3
<1>10. PICK ab : ab = a \o one
  OBVIOUS
<1>11. ab \in Seq(Conns) /\ ToSet(ab) = ToSet(a) \cup ToSet(one)
  BY <1>6, <1>9, <1>10, ConcatSet
<1>12. PICK l : l = ab \o b
  OBVIOUS
<1>13. l \in Seq(Conns) /\ ToSet(l) = ToSet(ab) \cup ToSet(b)
  BY <1>7, <1>11, <1>12, ConcatSet
<1>14. ToSet(l) = ToSet(s.list) \cup {c}
  <2>1. ToSet(s.list) \subseteq Conns
    BY <1>1, InSet
  <2> QED BY <1>3, <1>6, <1>7, <1>9, <1>11, <1>13, <2>1
<1>15. PICK x : x = NewClient(st)
  OBVIOUS
<1>16. x \in Client /\ x.state = st /\ x.queue = <<>> /\ x.cache = <<>>
  <2>1. <<>> \in Seq(Offers)
    OBVIOUS
  <2>2. <<>> \in Seq(Entry)
    OBVIOUS
  <2> QED BY <1>15, <2>1, <2>2 DEF NewClient, Client, ClientStates
<1>17. PICK u : u = Update(s, c, x, l, s.event)
  OBVIOUS
<1>18. t = u
  <2>1. t = [s EXCEPT !.dc[c] = x, !.list = Only(@, Conns \ late) \o <<c>> \o Only(@, late)]
    BY <1>2, <1>15 DEF AddClient
  <2>2. l = Only(s.list, Conns \ late) \o <<c>> \o Only(s.list, late)
    BY <1>3, <1>4, <1>5, <1>8, <1>10, <1>12, Zenon
  <2> QED BY <1>1, <1>17, <2>1, <2>2 DEF Update, Program
<1>19. /\ u \in Program /\ u.event = s.event /\ u.list = l /\ u.cookies = s.cookies /\ u.out = s.out
       /\ u.dc[c] = x /\ \A d \in Conns : d # c => u.dc[d] = s.dc[d]
  BY <1>1, <1>13, <1>16, <1>17, UpdateIs
<1>20. \A i \in 1..Len(u.dc[c].cache) : FALSE
  <2>1. \A i \in 1..Len(<<>>) : FALSE
    OBVIOUS
  <2> QED BY <1>16, <1>19, <2>1
<1>21. Within(u.dc[c].queue, s.dc[c].queue) /\ Within(u.dc[c].cache, s.dc[c].cache)
  BY <1>16, <1>19, WithinNone
<1>22. Changes(s, u, c)
  BY <1>14, <1>16, <1>19, <1>20, <1>21 DEF Changes
<1>23. Shrinks(s, u)
  BY <1>19, <1>22, ChangesShrinks
<1> QED BY <1>16, <1>18, <1>19, <1>23

\* The cache of a connection becomes smaller.
Shorter(s, c, new, ev) == [s EXCEPT !.event = ev, !.dc[c].cache = new]

\* That is one of the changes above,
LEMMA CacheShrinks ==
  ASSUME NEW p, NEW s, NEW wd, LocalOK(p, s, wd), NEW c \in Conns, s.dc[c].state # "none",
         NEW new \in Seq(Entry), Within(new, s.dc[c].cache),
         NEW ev \in [Offers -> Event],
         NEW t, t = Shorter(s, c, new, ev),
         \A o \in Offers : ev[o] = s.event[o] \/ Expired(s, t, o)
  PROVE  /\ Shrinks(s, t) /\ t.event = ev /\ t.dc[c].cache = new /\ t.dc[c].state = s.dc[c].state
         /\ t.dc[c].queue = s.dc[c].queue
         /\ \A d \in Conns : d # c => t.dc[d] = s.dc[d]
<1>1. s \in Program /\ s.dc[c] \in Client /\ s.list \in Seq(Conns) /\ s.dc \in [Conns -> Client]
  BY ProgramIs DEF LocalOK
<1>2. PICK x : x = [s.dc[c] EXCEPT !.cache = new]
  OBVIOUS
<1>3. x \in Client /\ x.state = s.dc[c].state /\ x.queue = s.dc[c].queue /\ x.cache = new
  BY <1>1, <1>2 DEF Client
<1>4. PICK l \in Seq(Conns) : l = s.list
  BY <1>1
<1>5. PICK u : u = Update(s, c, x, l, ev)
  OBVIOUS
<1>6. t = u
  BY <1>1, <1>2, <1>4, <1>5 DEF Update, Shorter, Program
<1>7. /\ u \in Program /\ u.event = ev /\ u.list = l /\ u.cookies = s.cookies /\ u.out = s.out
      /\ u.dc[c] = x /\ \A d \in Conns : d # c => u.dc[d] = s.dc[d]
  BY <1>1, <1>3, <1>5, UpdateIs
<1>8. \A i \in 1..Len(u.dc[c].cache) : u.dc[c].state = "CONNECTED"
  <2>1. PICK h \in [1..Len(new) -> 1..Len(s.dc[c].cache)] : TRUE
    BY DEF Within
  <2>2. ASSUME NEW i \in 1..Len(new) PROVE s.dc[c].state = "CONNECTED"
    <3>1. h[i] \in 1..Len(s.dc[c].cache)
      OBVIOUS
    <3> QED BY <3>1 DEF LocalOK, CachesOK
  <2> QED BY <1>3, <1>7, <2>2
<1>9. Within(u.dc[c].queue, s.dc[c].queue)
  BY <1>1, <1>3, <1>7, ClientIs
<1>10. c \in ToSet(u.list) <=> u.dc[c].state \notin {"none", "closed"}
  BY <1>3, <1>4, <1>7 DEF LocalOK, Listed
<1>11. Changes(s, u, c)
  BY <1>3, <1>4, <1>7, <1>8, <1>9, <1>10 DEF Changes
<1>12. Shrinks(s, u)
  <2>1. \A o \in Offers : u.event[o] = s.event[o] \/ Expired(s, u, o)
    BY <1>6, <1>7
  <2> QED BY <1>11, <2>1, ChangesShrinks
<1> QED BY <1>3, <1>6, <1>7, <1>12

\* Without a change of events
Removed(s, c, new) == [s EXCEPT !.dc[c].cache = new]

\* the same
LEMMA RemovedShrinks ==
  ASSUME NEW p, NEW s, NEW wd, LocalOK(p, s, wd), NEW c \in Conns, s.dc[c].state # "none",
         NEW new \in Seq(Entry), Within(new, s.dc[c].cache),
         NEW t, t = Removed(s, c, new)
  PROVE  /\ Shrinks(s, t) /\ t.event = s.event /\ t.dc[c].cache = new /\ t.dc[c].state = s.dc[c].state
         /\ t.dc[c].queue = s.dc[c].queue
         /\ \A d \in Conns : d # c => t.dc[d] = s.dc[d]
<1>1. PICK ev \in [Offers -> Event] : ev = s.event
  BY ProgramIs DEF LocalOK
<1>2. PICK u : u = Shorter(s, c, new, ev)
  OBVIOUS
<1>3. t = u
  <2>1. s \in Program
    BY DEF LocalOK
  <2> QED BY <1>1, <1>2, <2>1 DEF Program, Shorter, Removed
<1>4. \A o \in Offers : ev[o] = s.event[o] \/ Expired(s, u, o)
  BY <1>1
<1>5. /\ Shrinks(s, u) /\ u.event = ev /\ u.dc[c].cache = new /\ u.dc[c].state = s.dc[c].state
      /\ u.dc[c].queue = s.dc[c].queue
      /\ \A d \in Conns : d # c => u.dc[d] = s.dc[d]
  BY <1>2, <1>4, CacheShrinks
<1> QED BY <1>1, <1>3, <1>5

\* The sequence without its first element
LEMMA TailIs ==
  ASSUME NEW T, NEW s \in Seq(T), s # <<>>, NEW u, u = Tail(s)
  PROVE  /\ u \in Seq(T) /\ Len(s) = Len(u) + 1 /\ Len(u) \in Nat /\ Head(s) = s[1] /\ s[1] \in T
         /\ \A i \in 1..Len(u) : u[i] = s[i + 1]
<1>1. Len(s) \in Nat /\ Len(s) # 0
  OBVIOUS
<1>2. u \in Seq(T) /\ Len(u) \in Nat /\ Len(s) = Len(u) + 1 /\ \A i \in 1..Len(u) : u[i] = s[i + 1]
  BY <1>1, HeadTailProperties
<1>3. Head(s) = s[1]
  BY HeadTailProperties
<1>4. 1 \in 1..Len(s)
  BY <1>1
<1> QED BY <1>2, <1>3, <1>4

\* The oldest entry of a cache expires.
OldestExpires(s, c) == [Expire(s, {Head(s.dc[c].cache).offer}) EXCEPT !.dc[c].cache = Tail(@)]

LEMMA MessageExpiresShrinks ==
  ASSUME NEW p, NEW s, NEW wd, LocalOK(p, s, wd), NEW c \in Conns, s.dc[c].cache # <<>>,
         NEW t, t = OldestExpires(s, c)
  PROVE  Shrinks(s, t)
<1>1. s \in Program
  BY DEF LocalOK
<1>2. PICK cache \in Seq(Entry) : cache = s.dc[c].cache
  BY <1>1, ProgramIs
<1>3. PICK new : new = Tail(cache)
  OBVIOUS
<1>4. cache # <<>>
  BY <1>2
<1>5. /\ new \in Seq(Entry) /\ Len(cache) = Len(new) + 1 /\ Len(new) \in Nat /\ Head(cache) = cache[1]
      /\ \A i \in 1..Len(new) : new[i] = cache[i + 1]
  BY <1>2, <1>3, <1>4, TailIs
<1>6. Head(cache) = cache[1]
  BY <1>5
<1>7. new \in Seq(Entry)
  BY <1>5
<1>8. PICK n \in Nat : n = Len(new)
  BY <1>5
<1>9. Len(cache) = n + 1
  BY <1>5, <1>8
<1>10. /\ new \in Seq(Entry) /\ Len(cache) = n + 1 /\ Len(new) = n
       /\ \A i \in 1..n : new[i] = cache[i + 1]
       /\ Head(cache) = cache[1]
  BY <1>5, <1>6, <1>8, <1>9
<1>11. 1 \in 1..Len(cache)
  BY <1>8, <1>9
<1>12. PICK o : o = cache[1].offer
  OBVIOUS
<1>13. o \in Offers /\ Cached(s, o)
  BY <1>1, <1>2, <1>11, <1>12, ProgramIs DEF Cached
<1>14. PICK D : D = {o}
  OBVIOUS
<1>15. PICK ev \in [Offers -> Event] :
          /\ Expire(s, D) = [s EXCEPT !.event = ev]
          /\ \A x \in Offers : x \notin D => ev[x] = s.event[x]
          /\ \A x \in Offers : x \in D => ev[x].state = "TIMEOUT" /\ ev[x].seq = s.event[x].seq
  BY <1>1, ExpireIs
<1>16. PICK u : u = Shorter(s, c, new, ev)
  OBVIOUS
<1>17. t = u
  <2>1. PICK w : w = [s EXCEPT !.event = ev]
    OBVIOUS
  <2>2. {Head(s.dc[c].cache).offer} = D
    BY <1>2, <1>10, <1>12, <1>14
  <2>3. Expire(s, {Head(s.dc[c].cache).offer}) = w
    BY <1>15, <2>1, <2>2
  <2>4. t = [w EXCEPT !.dc[c].cache = Tail(w.dc[c].cache)]
    BY <2>3 DEF OldestExpires
  <2>5. w.dc = s.dc
    BY <1>1, <2>1 DEF Program
  <2>6. t = [w EXCEPT !.dc[c].cache = new]
    BY <1>2, <1>3, <2>4, <2>5
  <2> QED BY <1>16, <2>1, <2>6 DEF Shorter
<1>18. Within(new, s.dc[c].cache)
  <2>1. cache # <<>>
    BY <1>2
  <2> QED BY <1>2, <1>3, <2>1, WithinTail
<1>19. s.dc[c].state # "none"
  BY <1>2, <1>11 DEF LocalOK, CachesOK
<1>20. Expired(s, u, o)
  <2>1. s.dc \in [Conns -> Client] /\ s.dc[c] \in Client
    BY <1>1, ProgramIs
  <2>2. /\ u.event = ev /\ u.dc[c].cache = new
        /\ \A d \in Conns : u.dc[d].queue = s.dc[d].queue
        /\ \A d \in Conns : d # c => u.dc[d].cache = s.dc[d].cache
    BY <1>1, <1>16, <2>1 DEF Program, Client, Shorter
  <2>3. s.event[o].state # "none" /\ ~Queued(s, o)
    BY <1>13, OfferIs
  <2>4. ~Queued(u, o)
    BY <2>2, <2>3 DEF Queued
  <2>5. ~Cached(u, o)
    <3>1. SUFFICES ASSUME Cached(u, o) PROVE FALSE
      OBVIOUS
    <3>2. PICK d \in Conns : \E i \in 1..Len(u.dc[d].cache) : u.dc[d].cache[i].offer = o
      BY <3>1 DEF Cached
    <3>3. PICK i \in 1..Len(u.dc[d].cache) : u.dc[d].cache[i].offer = o
      BY <3>2
    <3>4. CASE d = c
      <4>1. i \in 1..Len(new) /\ new[i].offer = o
        BY <2>2, <3>3, <3>4
      <4>2. i \in 1..n
        BY <1>10, <4>1
      <4>3. i \in 1..n /\ i + 1 \in 1..(n + 1) /\ i + 1 # 1
        BY <1>8, <4>2
      <4>4. i + 1 \in 1..Len(cache) /\ cache[i + 1].offer = cache[1].offer
        <5>1. new[i] = cache[i + 1]
          BY <1>10, <4>3
        <5> QED BY <1>10, <1>12, <4>1, <4>3, <5>1
      <4>5. \A k, l \in 1..Len(cache) : cache[k].offer = cache[l].offer => k = l
        BY <1>2 DEF LocalOK, CachesOK
      <4> QED BY <1>11, <4>3, <4>4, <4>5
    <3>5. CASE d # c
      <4>1. i \in 1..Len(s.dc[d].cache) /\ s.dc[d].cache[i].offer = s.dc[c].cache[1].offer
        BY <1>2, <1>12, <2>2, <3>3, <3>5
      <4> QED BY <1>2, <1>11, <3>5, <4>1 DEF LocalOK, CachesOK
    <3> QED BY <3>4, <3>5
  <2> QED BY <1>13, <1>14, <1>15, <2>2, <2>3, <2>4, <2>5 DEF Expired
<1>21. \A x \in Offers : ev[x] = s.event[x] \/ Expired(s, u, x)
  BY <1>14, <1>15, <1>20
<1>22. Shrinks(s, u)
  BY <1>7, <1>16, <1>18, <1>19, <1>21, CacheShrinks
<1> QED BY <1>17, <1>22

-----------------------------------------------------------------------------
(* The end of a callback.                                                  *)

\* What arrives on connection c is part of what was sent.
Comes(u, c, out) ==
    \E h \in [1..Len(u) -> 1..Len(out)] :
       /\ \A i \in 1..Len(u) : u[i] = out[h[i]][2] /\ out[h[i]][1] = c
       /\ \A i, j \in 1..Len(u) : h[i] = h[j] => i = j

\* So it is for Arriving.
LEMMA ArrivingIs ==
  ASSUME NEW p, NEW c \in Conns, NEW out \in Seq(Conns \X Message), NEW u, u = Arriving(p, c, out)
  PROVE  u \in Seq(Message) /\ Len(u) \in Nat /\ Comes(u, c, out)
<1>1. CASE prog[Other(p)].dc[c].state = "closed"
  <2>1. u = <<>>
    BY <1>1 DEF Arriving
  <2>2. u \in Seq(Message) /\ Len(u) = 0 /\ Len(u) \in Nat
    BY <2>1
  <2>3. \A i \in 1..Len(u) : FALSE
    BY <2>2
  <2>4. PICK h : h = [i \in 1..Len(u) |-> 1]
    OBVIOUS
  <2>5. h \in [1..Len(u) -> 1..Len(out)]
    BY <2>3, <2>4
  <2>6. \E g \in [1..Len(u) -> 1..Len(out)] :
               /\ \A i \in 1..Len(u) : u[i] = out[g[i]][2] /\ out[g[i]][1] = c
               /\ \A i, j \in 1..Len(u) : g[i] = g[j] => i = j
    BY <2>3, <2>5, Zenon
  <2> QED BY <2>2, <2>6, Zenon DEF Comes
<1>2. CASE prog[Other(p)].dc[c].state # "closed"
  <2>1. PICK D : D = {pair \in ToSet(out) : pair[1] = c}
    OBVIOUS
  <2>2. PICK on : on = Only(out, D)
    OBVIOUS
  <2>3. on \in Seq(Conns \X Message) /\ Picks(on, out, D, Len(out)) /\ Len(on) \in Nat
    BY <2>2, OnlyIs
  <2>4. PICK h \in [1..Len(on) -> 1..Len(out)] :
           /\ \A i \in 1..Len(on) : on[i] = out[h[i]] /\ out[h[i]] \in D
           /\ \A i, j \in 1..Len(on) : h[i] = h[j] => i = j
    BY <2>3 DEF Picks
  <2>5. u = [i \in 1..Len(on) |-> on[i][2]]
    <3>1. DOMAIN on = 1..Len(on)
      BY <2>3
    <3> QED BY <1>2, <2>1, <2>2, <3>1 DEF Arriving
  <2>6. \A i \in 1..Len(on) : on[i] \in Conns \X Message
    BY <2>3
  <2>7. u \in [1..Len(on) -> Message]
    BY <2>5, <2>6
  <2>8. u \in Seq(Message) /\ Len(u) = Len(on)
    BY <2>3, <2>7
  <2>9. \A i \in 1..Len(u) : u[i] = out[h[i]][2] /\ out[h[i]][1] = c
    BY <2>1, <2>4, <2>5, <2>8
  <2> QED BY <2>3, <2>4, <2>8, <2>9 DEF Comes
<1> QED BY <1>1, <1>2

\* There are two programs.
LEMMA OtherIs ==
  ASSUME NEW p \in Programs
  PROVE  /\ Other(p) \in Programs /\ Other(p) # p /\ Other(Other(p)) = p
         /\ \A q \in Programs : q # p => q = Other(p)
BY DEF Programs, Other

\* The connections that were used
LEMMA UsedIs ==
  ASSUME ConnsOK
  PROVE  \E n \in Nat : Used = 1..n /\ n <= MaxConns /\ Cardinality(Used) = n
<1>1. PICK n \in 0..MaxConns : Used = 1..n
  BY DEF ConnsOK
<1>2. n \in Nat /\ n <= MaxConns
  BY BoundAssumption
<1>3. Cardinality(1..n) = n
  BY <1>2, FS_Interval
<1> QED BY <1>1, <1>2, <1>3

\* At the end of a callback at most one more is used.
LEMMA ConnsKeeps ==
  ASSUME ConnsOK, NEW p \in Programs, NEW s \in Program, NEW K, Onward(p, s, K),
         prog \in [Programs -> Program], Settle(p, s)
  PROVE  ConnsOK' /\ (Reconnected => Reconnected') /\ \A c \in Conns : s.dc[c].state # "none" => c \in Used'
<1>1. PICK n \in Nat : Used = 1..n /\ n <= MaxConns /\ Cardinality(Used) = n
  BY UsedIs
<1>2. caller \in [Conns -> Programs \cup {"none"}]
  BY DEF ConnsOK
<1>3. caller' = [c \in Conns |-> IF caller[c] = "none" /\ s.dc[c].state # "none" THEN p ELSE caller[c]]
  BY DEF Settle
<1>4. caller' \in [Conns -> Programs \cup {"none"}]
  BY <1>2, <1>3
<1>5. p # "none"
  BY DEF Programs
<1>6. ASSUME NEW c \in Conns
      PROVE  /\ c \in Used' <=> caller[c] # "none" \/ s.dc[c].state # "none"
             /\ c \in Used <=> caller[c] # "none"
             /\ s.dc[c].state # "none" => caller[c] # "none" \/ c = n + 1
  BY <1>1, <1>3, <1>5 DEF Used, Onward
<1>7. Used \subseteq Used' /\ Used' \subseteq Used \cup {n + 1} /\ Used' \subseteq Conns
  BY <1>6 DEF Used
<1>8. PICK m \in Nat : Used' = 1..m /\ n <= m /\ m <= MaxConns
  <2>1. PICK U : U = Used'
    OBVIOUS
  <2>2. 1..n \subseteq U /\ U \subseteq 1..n \cup {n + 1}
    BY <1>1, <1>7, <2>1
  <2>3. CASE n + 1 \in U
    <3>1. n + 1 <= MaxConns
      BY <1>7, <2>1, <2>3, BoundAssumption DEF Conns
    <3>2. 1..(n + 1) = 1..n \cup {n + 1}
      BY <1>1
    <3>3. U = 1..(n + 1)
      BY <2>2, <2>3, <3>2
    <3> QED BY <2>1, <3>1, <3>3
  <2>4. CASE n + 1 \notin U
    <3>1. U = 1..n
      BY <2>2, <2>4
    <3> QED BY <1>1, <2>1, <3>1
  <2> QED BY <2>3, <2>4
<1>9. Cardinality(Used') = m
  <2>1. Cardinality(1..m) = m
    BY FS_Interval
  <2> QED BY <1>8, <2>1
<1>10. ASSUME NEW c \in Conns, NEW x \in Programs, caller'[c] = "none" PROVE prog'[x].dc[c].state = "none"
  <2>1. caller[c] = "none" /\ s.dc[c].state = "none"
    BY <1>3, <1>5, <1>10
  <2>2. prog' = [prog EXCEPT ![p] = [s EXCEPT !.out = <<>>]]
    BY DEF Settle
  <2>3. CASE x = p
    <3>1. prog'[p].dc = s.dc
      BY <2>2 DEF Program
    <3> QED BY <2>1, <2>3, <3>1
  <2>4. CASE x # p
    BY <2>1, <2>2, <2>4 DEF ConnsOK
  <2> QED BY <2>3, <2>4
<1>11. ConnsOK'
  <2>1. \E k \in 0..MaxConns : Used' = 1..k
    BY <1>8, BoundAssumption
  <2> QED BY <1>4, <1>10, <2>1 DEF ConnsOK
<1>12. Reconnected => Reconnected'
  BY <1>1, <1>8, <1>9 DEF Reconnected
<1> QED BY <1>6, <1>11, <1>12

\* The invariants of one program do not look at the rest.
LEMMA PrimeLocal ==
  ASSUME from' = from, NEW p, NEW s, NEW an, NEW wd
  PROVE  /\ LocalOK(p, s, wd)' <=> LocalOK(p, s, wd)
         /\ Honest(p, s, an, wd)' <=> Honest(p, s, an, wd)
         /\ Open(p, s, an, wd)' <=> Open(p, s, an, wd)
<1>1. QueuesOK(p, s, wd)' <=> QueuesOK(p, s, wd)
  BY DEF QueuesOK, Waiting
<1>2. EventsOK(p, s, wd)' <=> EventsOK(p, s, wd)
  BY DEF EventsOK
<1>3. LocalOK(p, s, wd)' <=> LocalOK(p, s, wd)
  BY <1>1, <1>2 DEF LocalOK
<1>4. Honest(p, s, an, wd)' <=> Honest(p, s, an, wd)
  BY DEF Honest, HonestAt
<1>5. Open(p, s, an, wd)' <=> Open(p, s, an, wd)
  BY DEF Open, OpenAt
<1> QED BY <1>3, <1>4, <1>5

\* The values of what the users have done
Answers == {"none", "accepted", "declined"}
Withdrawals == {"no", "yes", "queued"}

\* What the users do
UserKeeps(p, s, an, wd) ==
    /\ an \in [Offers -> Answers] /\ wd \in [Offers -> Withdrawals]
    /\ \A o \in Offers :
          /\ from[o] = p => an[o] = answer[o]
          /\ answer[o] # "none" => an[o] = answer[o]
          /\ an[o] # answer[o] => s.event[o].state # "none"
          /\ from[o] # p => wd[o] = withdrawn[o]
          /\ withdrawn[o] # "no" => wd[o] # "no"

\* An offer that arrives
Arrives(p, s, K) ==
    \A o \in K : /\ o \in Offers /\ from[o] # p /\ s.event[o].seq \in {0, Made(o).seq}
                 /\ Made(o).state # "none" /\ ~Queued(prog[from[o]], o)

\* What goes by the server
ServerKeeps(p, s) ==
    /\ server' \subseteq Offers
    /\ \A o \in server' : o \in server \/ /\ from[o] = p /\ s.event[o].state # "none"
                                          /\ s.event[o].seq = 0 /\ ~Queued(s, o)

\* What goes by the connections: none of it brings what has arrived.
ChanKeeps(p, s, K) ==
    /\ chan' \in [Conns -> [Programs -> Seq(Message)]]
    /\ \A c \in Conns :
          /\ chan'[c][Other(p)] = chan[c][Other(p)] \o Arriving(p, c, s.out)
          /\ Within(chan'[c][p], chan[c][p])
          /\ \A i \in 1..Len(chan'[c][p]) : chan'[c][p][i].type = "START" => chan'[c][p][i].offer \notin K

\* The end of a callback of p that leaves s: what the actions have to show
Ended(p, s, an, wd, K) ==
    /\ Amid(p, s, an, wd, K) /\ from' = from /\ answer' = an /\ withdrawn' = wd /\ Settle(p, s)
    /\ UserKeeps(p, s, an, wd) /\ Arrives(p, s, K) /\ ServerKeeps(p, s) /\ ChanKeeps(p, s, K)
    /\ Ambiguous \/ Honest(p, s, an, wd)
    /\ Ambiguous \/ Reconnected \/ Open(p, s, an, wd)

\* The programs, afterwards
LEMMA EndedProg ==
  ASSUME OfferInv, NEW p \in Programs, NEW s, NEW an, NEW wd, NEW K, Ended(p, s, an, wd, K)
  PROVE  /\ prog' \in [Programs -> Program] /\ prog'[Other(p)] = prog[Other(p)]
         /\ prog'[p].event = s.event /\ prog'[p].dc = s.dc /\ prog'[p].out = <<>>
         /\ LocalOK(p, prog'[p], wd) /\ Kept(p, s, prog'[p], an, wd)
         /\ \A o : Queued(prog'[p], o) <=> Queued(s, o)
<1>1. s \in Program /\ LocalOK(p, s, wd) /\ prog \in [Programs -> Program]
  BY DEF Ended, Amid, LocalOK, OfferInv
<1>2. PICK none \in Seq(Conns \X Message) : none = <<>>
  <2>1. <<>> \in Seq(Conns \X Message)
    OBVIOUS
  <2> QED BY <2>1, Zenon
<1>3. PICK r : r = [s EXCEPT !.out = none]
  OBVIOUS
<1>4. /\ r \in Program /\ r.event = s.event /\ r.dc = s.dc /\ r.list = s.list /\ r.cookies = s.cookies
      /\ r.out = <<>>
  BY <1>1, <1>2, <1>3 DEF Program
<1>5. prog' = [prog EXCEPT ![p] = r]
  BY <1>2, <1>3 DEF Ended, Settle
<1>6. prog' \in [Programs -> Program] /\ prog'[p] = r /\ prog'[Other(p)] = prog[Other(p)]
  BY <1>1, <1>4, <1>5, OtherIs
<1>7. /\ LocalOK(p, r, wd) /\ Kept(p, s, r, an, wd)
      /\ \A o : Queued(r, o) <=> Queued(s, o)
  BY <1>1, <1>4, SameLocal
<1> QED BY <1>4, <1>6, <1>7

\* The event of an offer at both ends, afterwards
LEMMA EndedEvents ==
  ASSUME OfferInv, NEW p \in Programs, NEW s, NEW an, NEW wd, NEW K, Ended(p, s, an, wd, K), NEW o \in Offers
  PROVE  /\ from[o] = p => /\ Made(o)' = s.event[o] /\ Shown(o)' = Shown(o)
                           /\ Made(o) = prog[p].event[o] /\ Shown(o) = prog[Other(p)].event[o]
                           /\ Queued(prog[from[o]], o)' <=> Queued(s, o)
         /\ from[o] # p => /\ Made(o)' = Made(o) /\ Shown(o)' = s.event[o]
                           /\ Made(o) = prog[Other(p)].event[o] /\ Shown(o) = prog[p].event[o]
                           /\ Queued(prog[from[o]], o)' <=> Queued(prog[from[o]], o)
         /\ Made(o).seq \in Nat /\ Made(o)'.seq \in Nat
         /\ Made(o).state # "none" => Made(o)'.state # "none"
         /\ Made(o)'.seq = Made(o).seq \/ Unsent(p, o)
         /\ Made(o).seq > 0 => Made(o)'.seq = Made(o).seq
<1>1. /\ prog' \in [Programs -> Program] /\ prog'[Other(p)] = prog[Other(p)] /\ prog'[p].event = s.event
      /\ Queued(prog'[p], o) <=> Queued(s, o)
  BY EndedProg
<1>2. from' = from /\ from[o] \in Programs /\ prog \in [Programs -> Program]
  BY DEF Ended, OfferInv
<1>3. Onward(p, s, K) /\ s \in Program
  BY DEF Ended, Amid, LocalOK
<1>4. CASE from[o] = p
  <2>1. Made(o)' = s.event[o] /\ Shown(o)' = Shown(o)
    BY <1>1, <1>2, <1>4 DEF Made, Shown
  <2>2. Made(o) = prog[p].event[o] /\ Shown(o) = prog[Other(p)].event[o]
    BY <1>4 DEF Made, Shown
  <2>3. Queued(prog[from[o]], o)' <=> Queued(s, o)
    <3>1. Queued(prog[from[o]], o)' <=> Queued(prog'[p], o)
      BY <1>2, <1>4 DEF Queued
    <3> QED BY <1>1, <3>1
  <2>4. s.event[o].seq \in Nat /\ prog[p].event[o].seq \in Nat
    BY <1>2, <1>3, ProgramIs
  <2>5. /\ prog[p].event[o].state # "none" => s.event[o].state # "none"
        /\ s.event[o].seq = prog[p].event[o].seq \/ Unsent(p, o)
    BY <1>3, <1>4 DEF Onward
  <2>6. prog[p].event[o].seq > 0 => ~Unsent(p, o)
    BY DEF Unsent
  <2> QED BY <1>4, <2>1, <2>2, <2>3, <2>4, <2>5, <2>6
<1>5. CASE from[o] # p
  <2>1. from[o] = Other(p) /\ Other(from[o]) = p
    BY <1>2, <1>5, OtherIs
  <2>2. Made(o)' = Made(o) /\ Shown(o)' = s.event[o]
    BY <1>1, <1>2, <2>1 DEF Made, Shown
  <2>3. Made(o) = prog[Other(p)].event[o] /\ Shown(o) = prog[p].event[o]
    BY <2>1 DEF Made, Shown
  <2>4. Queued(prog[from[o]], o)' <=> Queued(prog[from[o]], o)
    BY <1>1, <1>2, <2>1 DEF Queued
  <2>5. Made(o).seq \in Nat
    <3>1. Other(p) \in Programs
      BY OtherIs
    <3>2. prog[Other(p)] \in Program
      BY <1>2, <3>1
    <3> QED BY <2>3, <3>2, ProgramIs
  <2> QED BY <1>5, <2>2, <2>3, <2>4, <2>5
<1> QED BY <1>4, <1>5

\* A number that names two offers does so from then on.
LEMMA EndedAmbiguous ==
  ASSUME OfferInv, NEW p \in Programs, NEW s, NEW an, NEW wd, NEW K, Ended(p, s, an, wd, K)
  PROVE  Ambiguous => Ambiguous'
<1> SUFFICES ASSUME Ambiguous PROVE Ambiguous'
  OBVIOUS
<1>1. PICK a, b \in Offers : a # b /\ Made(a).seq = Made(b).seq /\ Made(a).seq > 0
  BY DEF Ambiguous
<1>2. Made(a)'.seq = Made(a).seq
  BY <1>1, EndedEvents
<1>3. Made(b)'.seq = Made(b).seq
  BY <1>1, EndedEvents
<1> QED BY <1>1, <1>2, <1>3 DEF Ambiguous

\* Both programs are as they should be.
LEMMA EndedLocal ==
  ASSUME OfferInv, NEW p \in Programs, NEW s, NEW an, NEW wd, NEW K, Ended(p, s, an, wd, K)
  PROVE  /\ \A x \in Programs : LocalOK(x, prog[x], withdrawn)' /\ prog'[x].out = <<>>
         /\ Ambiguous' \/ \A x \in Programs : Honest(x, prog[x], answer, withdrawn)'
         /\ Ambiguous' \/ Reconnected' \/ \A x \in Programs : Open(x, prog[x], answer, withdrawn)'
<1>1. /\ prog' \in [Programs -> Program] /\ prog'[Other(p)] = prog[Other(p)]
      /\ prog'[p].out = <<>> /\ LocalOK(p, prog'[p], wd) /\ Kept(p, s, prog'[p], an, wd)
  BY EndedProg
<1>2. from' = from /\ answer' = an /\ withdrawn' = wd /\ UserKeeps(p, s, an, wd)
  BY DEF Ended
<1>3. PICK q \in Programs : q = Other(p) /\ q # p /\ \A x \in Programs : x = p \/ x = q
  BY OtherIs
<1>4. PICK r : r = prog[q]
  OBVIOUS
<1>5. LocalOK(q, r, withdrawn) /\ r.out = <<>>
  BY <1>4 DEF OfferInv
<1>6. LocalOK(q, r, wd)
  <2>1. \A o \in Offers : from[o] = q => wd[o] = withdrawn[o]
    BY <1>2, <1>3 DEF UserKeeps
  <2>2. \A c \in Conns : \A i \in 1..Len(r.dc[c].queue) : r.dc[c].queue[i] \in Offers
    BY <1>5, ProgramIs DEF LocalOK
  <2>3. QueuesOK(q, r, wd)
    <3>1. \A c \in Conns : \A i \in 1..Len(r.dc[c].queue) : Waiting(q, r, wd, r.dc[c].queue[i])
      BY <1>5, <2>1, <2>2 DEF LocalOK, QueuesOK, Waiting
    <3> QED BY <1>5, <3>1 DEF LocalOK, QueuesOK
  <2>4. EventsOK(q, r, wd)
    BY <1>5, <2>1 DEF LocalOK, EventsOK
  <2> QED BY <1>5, <2>3, <2>4 DEF LocalOK
<1>7. ASSUME ~Ambiguous' PROVE Honest(q, r, an, wd)
  <2>1. ~Ambiguous
    BY <1>7, EndedAmbiguous
  <2>2. Honest(q, r, answer, withdrawn)
    BY <1>4, <2>1 DEF OfferInv
  <2>3. ASSUME NEW o \in Offers PROVE HonestAt(q, r, an, wd, o)
    <3>1. HonestAt(q, r, answer, withdrawn, o)
      BY <2>2 DEF Honest
    <3>2. (answer[o] # "none" => an[o] = answer[o]) /\ (withdrawn[o] # "no" => wd[o] # "no")
      BY <1>2 DEF UserKeeps
    <3> QED BY <3>1, <3>2 DEF HonestAt
  <2> QED BY <2>3 DEF Honest
<1>8. Reconnected => Reconnected'
  <2>1. ConnsOK /\ s \in Program /\ Onward(p, s, K) /\ prog \in [Programs -> Program] /\ Settle(p, s)
    BY DEF OfferInv, Ended, Amid, LocalOK
  <2> QED BY <2>1, ConnsKeeps
<1>9. ASSUME ~Ambiguous', ~Reconnected' PROVE Open(q, r, an, wd)
  <2>1. ~Ambiguous
    BY <1>9, EndedAmbiguous
  <2>2. ~Reconnected
    BY <1>9, <1>8
  <2>3. Open(q, r, answer, withdrawn)
    BY <1>4, <2>1, <2>2 DEF OfferInv
  <2>4. ASSUME NEW o \in Offers PROVE OpenAt(q, r, an, wd, o)
    <3>1. OpenAt(q, r, answer, withdrawn, o)
      BY <2>3 DEF Open
    <3>2. (from[o] = p => an[o] = answer[o]) /\ (from[o] # p => wd[o] = withdrawn[o])
      BY <1>2 DEF UserKeeps
    <3>3. from[o] = p \/ from[o] = q
      BY <1>3 DEF OfferInv
    <3> QED BY <1>3, <3>1, <3>2, <3>3 DEF OpenAt
  <2> QED BY <2>4 DEF Open
<1>10. ASSUME NEW x \in Programs PROVE LocalOK(x, prog[x], withdrawn)' /\ prog'[x].out = <<>>
  <2>1. PICK y : y = prog'[x]
    OBVIOUS
  <2>2. LocalOK(x, y, wd) /\ y.out = <<>>
    BY <1>1, <1>3, <1>4, <1>5, <1>6, <2>1
  <2>3. LocalOK(x, y, wd)'
    BY <1>2, <2>2, PrimeLocal
  <2> QED BY <1>2, <2>1, <2>2, <2>3
<1>11. ASSUME ~Ambiguous', NEW x \in Programs PROVE Honest(x, prog[x], answer, withdrawn)'
  <2>1. PICK y : y = prog'[x]
    OBVIOUS
  <2>2. Honest(x, y, an, wd)
    BY <1>1, <1>3, <1>4, <1>7, <1>11, <2>1, EndedAmbiguous DEF Ended, Kept
  <2>3. Honest(x, y, an, wd)'
    BY <1>2, <2>2, PrimeLocal
  <2> QED BY <1>2, <2>1, <2>3
<1>12. ASSUME ~Ambiguous', ~Reconnected', NEW x \in Programs PROVE Open(x, prog[x], answer, withdrawn)'
  <2>1. PICK y : y = prog'[x]
    OBVIOUS
  <2>2. Open(x, y, an, wd)
    BY <1>1, <1>3, <1>4, <1>9, <1>12, <1>8, <2>1, EndedAmbiguous DEF Ended, Kept
  <2>3. Open(x, y, an, wd)'
    BY <1>2, <2>2, PrimeLocal
  <2> QED BY <1>2, <2>1, <2>3
<1> QED BY <1>10, <1>11, <1>12

\* What is new on a connection is what was sent.
Joins(u, old, c, out) ==
    \E h : /\ \A i \in 1..Len(u) : \/ i \in 1..Len(old) /\ u[i] = old[i]
                                   \/ /\ i \notin 1..Len(old) /\ h[i] \in 1..Len(out)
                                      /\ u[i] = out[h[i]][2] /\ out[h[i]][1] = c
           /\ \A i, j \in 1..Len(u) :
                 i \notin 1..Len(old) /\ j \notin 1..Len(old) /\ h[i] = h[j] => i = j

\* So it is for what Arriving adds.
LEMMA SentIs ==
  ASSUME NEW p, NEW c \in Conns, NEW out \in Seq(Conns \X Message), NEW old \in Seq(Message),
         NEW u, u = old \o Arriving(p, c, out)
  PROVE  /\ u \in Seq(Message) /\ Len(u) \in Nat
         /\ Joins(u, old, c, out)
<1>1. PICK new : new = Arriving(p, c, out)
  OBVIOUS
<1>2. new \in Seq(Message) /\ Len(new) \in Nat
  BY <1>1, ArrivingIs
<1>3. Comes(new, c, out)
  BY <1>1, ArrivingIs
<1>4. PICK g \in [1..Len(new) -> 1..Len(out)] :
         /\ \A i \in 1..Len(new) : new[i] = out[g[i]][2] /\ out[g[i]][1] = c
         /\ \A i, j \in 1..Len(new) : g[i] = g[j] => i = j
  BY <1>3 DEF Comes
<1>5. PICK k \in Nat : k = Len(old)
  OBVIOUS
<1>6. PICK n \in Nat : n = Len(new)
  BY <1>2
<1>7. u = old \o new
  BY <1>1
<1>8. /\ u \in Seq(Message) /\ Len(u) = k + n
      /\ \A i \in 1..(k + n) : u[i] = IF i <= k THEN old[i] ELSE new[i - k]
  BY <1>2, <1>5, <1>6, <1>7, ConcatProperties
<1>9. PICK h : h = [i \in 1..(k + n) |-> g[i - k]]
  OBVIOUS
<1>10. ASSUME NEW i \in 1..(k + n)
       PROVE  \/ i \in 1..k /\ u[i] = old[i]
              \/ /\ i \notin 1..k /\ h[i] \in 1..Len(out) /\ i - k \in 1..n
                 /\ u[i] = out[h[i]][2] /\ out[h[i]][1] = c
  <2>1. CASE i <= k
    BY <1>5, <1>8, <2>1
  <2>2. CASE ~(i <= k)
    <3>1. i - k \in 1..n /\ i \notin 1..k
      BY <1>5, <1>6, <2>2
    <3>2. u[i] = new[i - k] /\ h[i] = g[i - k]
      BY <1>8, <1>9, <2>2
    <3>3. i - k \in 1..Len(new)
      BY <1>6, <3>1
    <3> QED BY <1>4, <3>1, <3>2, <3>3
  <2> QED BY <2>1, <2>2
<1>11. ASSUME NEW i \in 1..(k + n), NEW j \in 1..(k + n), i \notin 1..k, j \notin 1..k, h[i] = h[j]
       PROVE  i = j
  <2>1. i - k \in 1..Len(new) /\ j - k \in 1..Len(new)
    BY <1>6, <1>5, <1>11
  <2>2. i - k = j - k
    BY <1>4, <1>9, <1>11, <2>1
  <2> QED BY <1>5, <1>6, <2>2
<1>12. Len(u) \in Nat /\ 1..Len(u) = 1..(k + n) /\ 1..Len(old) = 1..k
  BY <1>5, <1>6, <1>8
<1>13. \E f : /\ \A i \in 1..(k + n) : \/ i \in 1..k /\ u[i] = old[i]
                                       \/ /\ i \notin 1..k /\ f[i] \in 1..Len(out)
                                          /\ u[i] = out[f[i]][2] /\ out[f[i]][1] = c
              /\ \A i, j \in 1..(k + n) : i \notin 1..k /\ j \notin 1..k /\ f[i] = f[j] => i = j
  <2> WITNESS h
  <2> QED BY <1>10, <1>11
<1>14. Joins(u, old, c, out)
  BY <1>12, <1>13, Zenon DEF Joins
<1> QED BY <1>8, <1>12, <1>14

\* Offers on their way are on it once.
LEMMA EndedStarts ==
  ASSUME OfferInv, NEW p \in Programs, NEW s, NEW an, NEW wd, NEW K, Ended(p, s, an, wd, K)
  PROVE  StartsOK'
<1>1. PICK q \in Programs : q = Other(p) /\ q # p /\ Other(q) = p /\ \A x \in Programs : x = p \/ x = q
  BY OtherIs
<1>2. /\ from' = from /\ chan' \in [Conns -> [Programs -> Seq(Message)]]
      /\ from \in [Offers -> Programs] /\ chan \in [Conns -> [Programs -> Seq(Message)]]
      /\ s.out \in Seq(Conns \X Message) /\ OutOK(p, s, an, wd)
  BY ProgramIs DEF Ended, ChanKeeps, OfferInv, Amid, LocalOK
<1>3. ASSUME NEW c \in Conns
      PROVE  Joins(chan'[c][q], chan[c][q], c, s.out)
  <2>1. PICK old \in Seq(Message) : old = chan[c][q]
    BY <1>1, <1>2
  <2>2. PICK u : u = chan'[c][q]
    OBVIOUS
  <2>3. u = old \o Arriving(p, c, s.out)
    BY <1>1, <2>1, <2>2 DEF Ended, ChanKeeps
  <2>4. PICK out \in Seq(Conns \X Message) : out = s.out
    BY <1>2
  <2>5. u = old \o Arriving(p, c, out)
    BY <2>3, <2>4
  <2>6. Joins(u, old, c, out)
    BY <2>5, SentIs
  <2> QED BY <2>1, <2>2, <2>6, <2>4
<1>4. ASSUME NEW m \in Message, m.type = "START"
      PROVE  m.offer \in Offers
  BY <1>4 DEF Message
<1>5. ASSUME NEW c \in Conns, NEW i \in 1..Len(chan[c][q]), NEW m \in Message, m = chan[c][q][i], m.type = "START"
      PROVE  /\ from[m.offer] = p /\ m.seq = Made(m.offer)'.seq /\ m.seq > 0 /\ Shown(m.offer)'.state = "none"
             /\ ~Unsent(p, m.offer)
  <2>1. from[m.offer] = p /\ m.seq = Made(m.offer).seq /\ m.seq > 0 /\ Shown(m.offer).state = "none"
    <3>1. Starts(q, m)
      BY <1>1, <1>5 DEF OfferInv, StartsOK
    <3> QED BY <1>1, <1>5, <3>1 DEF Starts
  <2>2. PICK o \in Offers : o = m.offer
    BY <1>4, <1>5
  <2>3. Made(o)'.seq = Made(o).seq /\ Shown(o)' = Shown(o)
    BY <2>1, <2>2, EndedEvents
  <2>4. Made(o) = prog[p].event[o]
    BY <2>1, <2>2, EndedEvents
  <2>5. ~Unsent(p, o)
    BY <2>1, <2>2, <2>4 DEF Unsent
  <2> QED BY <2>1, <2>2, <2>3, <2>5
<1>6. ASSUME NEW k \in 1..Len(s.out), NEW m \in Message, m = s.out[k][2], m.type = "START"
      PROVE  /\ from[m.offer] = p /\ m.seq = Made(m.offer)'.seq /\ m.seq > 0 /\ Shown(m.offer)'.state = "none"
             /\ Unsent(p, m.offer)
  <2>1. MayStart(p, s, m)
    BY <1>2, <1>6 DEF OutOK, MaySend
  <2>2. PICK o \in Offers : o = m.offer
    BY <1>4, <1>6
  <2>3. Made(o)' = s.event[o] /\ Shown(o)' = prog[Other(p)].event[o]
    BY <2>1, <2>2, EndedEvents DEF MayStart
  <2> QED BY <2>1, <2>2, <2>3 DEF MayStart, Unsent
<1>7. ASSUME NEW c \in Conns, NEW i \in 1..Len(chan'[c][q]), NEW m \in Message, m = chan'[c][q][i], m.type = "START"
      PROVE  from[m.offer] = p /\ m.seq = Made(m.offer)'.seq /\ m.seq > 0 /\ Shown(m.offer)'.state = "none"
  <2>1. (\E k \in 1..Len(chan[c][q]) : m = chan[c][q][k]) \/ (\E k \in 1..Len(s.out) : m = s.out[k][2])
    BY <1>3, <1>7 DEF Joins
  <2> QED BY <1>5, <1>6, <1>7, <2>1
<1>8. ASSUME NEW c \in Conns, NEW i \in 1..Len(chan'[c][p])
      PROVE  \E k \in 1..Len(chan[c][p]) : chan'[c][p][i] = chan[c][p][k]
  <2>1. Within(chan'[c][p], chan[c][p])
    BY DEF Ended, ChanKeeps
  <2> QED BY <2>1 DEF Within
<1>9. ASSUME NEW c \in Conns, NEW i \in 1..Len(chan'[c][p]), NEW m \in Message, m = chan'[c][p][i], m.type = "START"
      PROVE  from[m.offer] = q /\ m.seq = Made(m.offer)'.seq /\ m.seq > 0 /\ Shown(m.offer)'.state = "none"
  <2>1. from[m.offer] = q /\ m.seq = Made(m.offer).seq /\ m.seq > 0 /\ Shown(m.offer).state = "none"
    <3>1. PICK k \in 1..Len(chan[c][p]) : m = chan[c][p][k]
      BY <1>8, <1>9
    <3>2. Starts(p, m)
      BY <1>9, <3>1 DEF OfferInv, StartsOK
    <3> QED BY <1>1, <1>9, <3>2 DEF Starts
  <2>2. PICK o \in Offers : o = m.offer
    BY <1>4, <1>9
  <2>3. o \notin K
    BY <1>9, <2>2 DEF Ended, ChanKeeps
  <2>4. Made(o)' = Made(o) /\ Shown(o)' = s.event[o] /\ Shown(o) = prog[p].event[o]
    BY <1>1, <2>1, <2>2, EndedEvents
  <2>5. s.event[o].state = "none"
    BY <1>1, <2>1, <2>2, <2>3, <2>4 DEF Ended, Amid, Onward
  <2> QED BY <2>1, <2>2, <2>4, <2>5
<1>10. ASSUME NEW x \in Programs, NEW c \in Conns, NEW i \in 1..Len(chan'[c][x])
       PROVE  chan'[c][x][i] \in Message
  BY <1>2
<1>11. ASSUME NEW x \in Programs, NEW c \in Conns, NEW i \in 1..Len(chan'[c][x])
       PROVE  Starts(x, chan[c][x][i])'
  <2>1. PICK m \in Message : m = chan'[c][x][i]
    BY <1>10
  <2>2. CASE m.type # "START"
    BY <2>1, <2>2 DEF Starts
  <2>3. CASE m.type = "START" /\ x = p
    <3>1. from[m.offer] = q /\ m.seq = Made(m.offer)'.seq /\ m.seq > 0 /\ Shown(m.offer)'.state = "none"
      BY <1>9, <1>11, <2>1, <2>3
    <3>2. Starts(x, m)'
      BY <1>1, <1>2, <2>3, <3>1 DEF Starts
    <3> QED BY <2>1, <3>2
  <2>4. CASE m.type = "START" /\ x = q
    <3>1. from[m.offer] = p /\ m.seq = Made(m.offer)'.seq /\ m.seq > 0 /\ Shown(m.offer)'.state = "none"
      BY <1>7, <1>11, <2>1, <2>4
    <3>2. Starts(x, m)'
      BY <1>1, <1>2, <2>4, <3>1 DEF Starts
    <3> QED BY <2>1, <3>2
  <2> QED BY <1>1, <2>3, <2>4, <2>2
<1>12. ASSUME NEW c \in Conns, NEW d \in Conns, NEW i \in 1..Len(chan'[c][q]), NEW j \in 1..Len(chan'[d][q]),
              chan'[c][q][i].type = "START", chan'[d][q][j].type = "START",
              chan'[c][q][i].offer = chan'[d][q][j].offer
       PROVE  c = d /\ i = j
  <2>1. PICK m \in Message : m = chan'[c][q][i]
    BY <1>1, <1>10
  <2>2. PICK n \in Message : n = chan'[d][q][j]
    BY <1>1, <1>10
  <2>3. PICK h : /\ \A k \in 1..Len(chan'[c][q]) :
                          \/ k \in 1..Len(chan[c][q]) /\ chan'[c][q][k] = chan[c][q][k]
                          \/ /\ k \notin 1..Len(chan[c][q]) /\ h[k] \in 1..Len(s.out)
                             /\ chan'[c][q][k] = s.out[h[k]][2] /\ s.out[h[k]][1] = c
                 /\ \A k, l \in 1..Len(chan'[c][q]) :
                       k \notin 1..Len(chan[c][q]) /\ l \notin 1..Len(chan[c][q]) /\ h[k] = h[l] => k = l
    BY <1>3 DEF Joins
  <2>4. PICK g : \A k \in 1..Len(chan'[d][q]) :
                          \/ k \in 1..Len(chan[d][q]) /\ chan'[d][q][k] = chan[d][q][k]
                          \/ /\ k \notin 1..Len(chan[d][q]) /\ g[k] \in 1..Len(s.out)
                             /\ chan'[d][q][k] = s.out[g[k]][2] /\ s.out[g[k]][1] = d
    BY <1>3 DEF Joins
  <2>5. \/ i \in 1..Len(chan[c][q]) /\ m = chan[c][q][i]
        \/ /\ i \notin 1..Len(chan[c][q]) /\ h[i] \in 1..Len(s.out)
           /\ m = s.out[h[i]][2] /\ s.out[h[i]][1] = c
    BY <2>1, <2>3
  <2>6. \/ j \in 1..Len(chan[d][q]) /\ n = chan[d][q][j]
        \/ /\ j \notin 1..Len(chan[d][q]) /\ g[j] \in 1..Len(s.out)
           /\ n = s.out[g[j]][2] /\ s.out[g[j]][1] = d
    BY <2>2, <2>4
  <2>7. m.type = "START" /\ n.type = "START" /\ m.offer = n.offer
    BY <1>12, <2>1, <2>2
  <2>8. CASE i \in 1..Len(chan[c][q]) /\ m = chan[c][q][i] /\ j \in 1..Len(chan[d][q]) /\ n = chan[d][q][j]
    BY <2>7, <2>8 DEF OfferInv, StartsOK
  <2>9. CASE /\ i \notin 1..Len(chan[c][q]) /\ h[i] \in 1..Len(s.out) /\ m = s.out[h[i]][2] /\ s.out[h[i]][1] = c
             /\ j \notin 1..Len(chan[d][q]) /\ g[j] \in 1..Len(s.out) /\ n = s.out[g[j]][2] /\ s.out[g[j]][1] = d
    <3>1. h[i] = g[j]
      BY <1>2, <2>7, <2>9 DEF OutOK
    <3>2. c = d
      BY <2>9, <3>1
    <3>3. /\ j \in 1..Len(chan'[c][q]) /\ h[j] \in 1..Len(s.out) /\ chan'[c][q][j] = s.out[h[j]][2]
      BY <2>3, <2>9, <3>2
    <3>4. n = s.out[h[j]][2]
      BY <2>2, <3>2, <3>3
    <3>5. h[i] = h[j]
      BY <1>2, <2>7, <2>9, <3>3, <3>4 DEF OutOK
    <3> QED BY <2>3, <2>9, <3>2, <3>3, <3>5
  <2>10. CASE i \in 1..Len(chan[c][q]) /\ m = chan[c][q][i] /\ g[j] \in 1..Len(s.out) /\ n = s.out[g[j]][2]
    BY <1>5, <1>6, <2>7, <2>10
  <2>11. CASE h[i] \in 1..Len(s.out) /\ m = s.out[h[i]][2] /\ j \in 1..Len(chan[d][q]) /\ n = chan[d][q][j]
    BY <1>5, <1>6, <2>7, <2>11
  <2> QED BY <2>5, <2>6, <2>8, <2>9, <2>10, <2>11
<1>13. ASSUME NEW c \in Conns, NEW d \in Conns, NEW i \in 1..Len(chan'[c][p]), NEW j \in 1..Len(chan'[d][p]),
              chan'[c][p][i].type = "START", chan'[d][p][j].type = "START",
              chan'[c][p][i].offer = chan'[d][p][j].offer
       PROVE  c = d /\ i = j
  <2>1. ASSUME NEW b \in Conns
        PROVE  \E h \in [1..Len(chan'[b][p]) -> 1..Len(chan[b][p])] :
                  /\ \A k \in 1..Len(chan'[b][p]) : chan'[b][p][k] = chan[b][p][h[k]]
                  /\ \A k, l \in 1..Len(chan'[b][p]) : h[k] = h[l] => k = l
    <3>1. Within(chan'[b][p], chan[b][p])
      BY DEF Ended, ChanKeeps
    <3> QED BY <3>1 DEF Within
  <2>2. c = d
    <3>1. PICK k \in 1..Len(chan[c][p]) : chan'[c][p][i] = chan[c][p][k]
      BY <1>8
    <3>2. PICK l \in 1..Len(chan[d][p]) : chan'[d][p][j] = chan[d][p][l]
      BY <1>8
    <3> QED BY <1>13, <3>1, <3>2 DEF OfferInv, StartsOK
  <2>3. PICK h \in [1..Len(chan'[c][p]) -> 1..Len(chan[c][p])] :
                  /\ \A k \in 1..Len(chan'[c][p]) : chan'[c][p][k] = chan[c][p][h[k]]
                  /\ \A k, l \in 1..Len(chan'[c][p]) : h[k] = h[l] => k = l
    BY <2>1
  <2>4. j \in 1..Len(chan'[c][p]) /\ h[i] \in 1..Len(chan[c][p]) /\ h[j] \in 1..Len(chan[c][p])
    BY <2>2, <2>3
  <2>5. chan[c][p][h[i]] = chan'[c][p][i] /\ chan[c][p][h[j]] = chan'[d][p][j]
    BY <2>2, <2>3, <2>4
  <2>6. h[i] = h[j]
    <3>1. /\ chan[c][p][h[i]].type = "START" /\ chan[c][p][h[j]].type = "START"
          /\ chan[c][p][h[i]].offer = chan[c][p][h[j]].offer
      BY <1>13, <2>5
    <3> QED BY <2>4, <3>1 DEF OfferInv, StartsOK
  <2> QED BY <2>2, <2>3, <2>4, <2>6
<1>14. ASSUME NEW x \in Programs, NEW c \in Conns, NEW d \in Conns,
              NEW i \in 1..Len(chan'[c][x]), NEW j \in 1..Len(chan'[d][x]),
              chan'[c][x][i].type = "START", chan'[d][x][j].type = "START",
              chan'[c][x][i].offer = chan'[d][x][j].offer
       PROVE  c = d /\ i = j
  <2>1. CASE x = p
    BY <1>13, <1>14, <2>1
  <2>2. CASE x = q
    BY <1>12, <1>14, <2>2
  <2> QED BY <1>1, <2>1, <2>2
<1> QED BY <1>11, <1>14 DEF StartsOK

\* What the messages say stays true, and is true of what is sent.
LEMMA EndedMessages ==
  ASSUME OfferInv, NEW p \in Programs, NEW s, NEW an, NEW wd, NEW K, Ended(p, s, an, wd, K)
  PROVE  MessagesOK'
<1>1. PICK q \in Programs : q = Other(p) /\ q # p /\ Other(q) = p /\ \A x \in Programs : x = p \/ x = q
  BY OtherIs
<1>2. /\ from' = from /\ chan' \in [Conns -> [Programs -> Seq(Message)]] /\ answer' = an /\ withdrawn' = wd
      /\ from \in [Offers -> Programs] /\ chan \in [Conns -> [Programs -> Seq(Message)]]
      /\ s.out \in Seq(Conns \X Message) /\ OutOK(p, s, an, wd) /\ UserKeeps(p, s, an, wd)
  BY ProgramIs DEF Ended, ChanKeeps, OfferInv, Amid, LocalOK
<1>3. ASSUME NEW m \in Message, NEW x \in Programs, Says(x, m, answer, withdrawn)
      PROVE  Says(x, m, an, wd)'
  <2>1. ASSUME m.type = "ANSWER", m.seq # 0
        PROVE  \E o \in Offers : from[o] = x /\ Made(o)'.seq = m.seq
                                 /\ an[o] = IF m.accepted THEN "accepted" ELSE "declined"
    <3>1. PICK o \in Offers : from[o] = x /\ Made(o).seq = m.seq
                              /\ answer[o] = IF m.accepted THEN "accepted" ELSE "declined"
      BY <1>3, <2>1 DEF Says
    <3>2. Made(o).seq \in Nat
      BY EndedEvents
    <3>3. Made(o)'.seq = m.seq
      BY <2>1, <3>1, <3>2, EndedEvents
    <3>4. an[o] = answer[o]
      BY <1>2, <3>1 DEF UserKeeps
    <3> QED BY <3>1, <3>3, <3>4
  <2>2. ASSUME m.type = "CANCEL", m.seq # 0
        PROVE  \E o \in Offers : from[o] = Other(x) /\ Made(o)'.seq = m.seq /\ wd[o] # "no"
    <3>1. PICK o \in Offers : from[o] = Other(x) /\ Made(o).seq = m.seq /\ withdrawn[o] # "no"
      BY <1>3, <2>2 DEF Says
    <3>2. Made(o).seq \in Nat
      BY EndedEvents
    <3>3. Made(o)'.seq = m.seq
      BY <2>2, <3>1, <3>2, EndedEvents
    <3>4. wd[o] # "no"
      BY <1>2, <3>1 DEF UserKeeps
    <3> QED BY <3>1, <3>3, <3>4
  <2> QED BY <1>2, <2>1, <2>2 DEF Says
<1>4. ASSUME NEW k \in 1..Len(s.out), NEW m \in Message, m = s.out[k][2]
      PROVE  Says(q, m, an, wd)'
  <2>1. MaySend(p, s, an, wd, m)
    BY <1>2, <1>4 DEF OutOK
  <2>2. ASSUME m.type = "ANSWER", m.seq # 0
        PROVE  \E o \in Offers : from[o] = q /\ Made(o)'.seq = m.seq
                                 /\ an[o] = IF m.accepted THEN "accepted" ELSE "declined"
    <3>1. PICK o \in Offers : /\ from[o] = q /\ prog[q].event[o].seq = m.seq
                              /\ an[o] = IF m.accepted THEN "accepted" ELSE "declined"
      BY <1>1, <2>1, <2>2 DEF MaySend, MayAnswer
    <3>2. Made(o)' = prog[q].event[o]
      BY <1>1, <3>1, EndedEvents
    <3> QED BY <3>1, <3>2
  <2>3. ASSUME m.type = "CANCEL", m.seq # 0
        PROVE  \E o \in Offers : from[o] = Other(q) /\ Made(o)'.seq = m.seq /\ wd[o] # "no"
    <3>1. PICK o \in Offers : from[o] = p /\ s.event[o].seq = m.seq /\ wd[o] # "no"
      BY <2>1, <2>3 DEF MaySend, MayCancel
    <3>2. Made(o)' = s.event[o]
      BY <3>1, EndedEvents
    <3> QED BY <1>1, <3>1, <3>2
  <2> QED BY <1>2, <2>2, <2>3 DEF Says
<1>5. ASSUME NEW x \in Programs, NEW c \in Conns, NEW i \in 1..Len(chan'[c][x])
      PROVE  \/ \E k \in 1..Len(chan[c][x]) : chan'[c][x][i] = chan[c][x][k]
             \/ x = q /\ \E k \in 1..Len(s.out) : chan'[c][x][i] = s.out[k][2]
  <2>1. CASE x = p
    <3>1. Within(chan'[c][p], chan[c][p])
      BY DEF Ended, ChanKeeps
    <3> QED BY <2>1, <3>1 DEF Within
  <2>2. CASE x = q
    <3>1. PICK old \in Seq(Message) : old = chan[c][q]
      BY <1>1, <1>2
    <3>2. PICK u : u = chan'[c][q]
      OBVIOUS
    <3>3. PICK out \in Seq(Conns \X Message) : out = s.out
      BY <1>2
    <3>4. u = old \o Arriving(p, c, out)
      BY <1>1, <3>1, <3>2, <3>3 DEF Ended, ChanKeeps
    <3>5. Joins(u, old, c, out)
      BY <3>4, SentIs
    <3> QED BY <2>2, <3>1, <3>2, <3>3, <3>5 DEF Joins
  <2> QED BY <1>1, <2>1, <2>2
<1>6. ASSUME NEW x \in Programs, NEW c \in Conns, NEW i \in 1..Len(chan'[c][x])
      PROVE  Says(x, chan[c][x][i], answer, withdrawn)'
  <2>1. PICK m \in Message : m = chan'[c][x][i]
    BY <1>2
  <2>2. CASE \E k \in 1..Len(chan[c][x]) : m = chan[c][x][k]
    <3>1. PICK k \in 1..Len(chan[c][x]) : m = chan[c][x][k]
      BY <2>2
    <3>2. Says(x, chan[c][x][k], answer, withdrawn)
      BY DEF OfferInv, MessagesOK
    <3>3. Says(x, m, an, wd)'
      BY <1>3, <3>1, <3>2
    <3> QED BY <1>2, <2>1, <3>3
  <2>3. CASE x = q /\ \E k \in 1..Len(s.out) : m = s.out[k][2]
    <3>1. PICK k \in 1..Len(s.out) : m = s.out[k][2]
      BY <2>3
    <3>2. Says(q, m, an, wd)'
      BY <1>4, <3>1
    <3> QED BY <1>2, <2>1, <2>3, <3>2
  <2> QED BY <1>5, <2>1, <2>2, <2>3
<1> QED BY <1>6 DEF MessagesOK

\* The events at the two ends still fit each other.
LEMMA EndedShown ==
  ASSUME OfferInv, NEW p \in Programs, NEW s, NEW an, NEW wd, NEW K, Ended(p, s, an, wd, K)
  PROVE  ShownOK' /\ ServerOK'
<1>1. /\ from' = from /\ answer' = an /\ withdrawn' = wd /\ from \in [Offers -> Programs]
      /\ UserKeeps(p, s, an, wd) /\ Onward(p, s, K) /\ Arrives(p, s, K) /\ ServerKeeps(p, s)
      /\ LocalOK(p, s, wd) /\ ShownOK /\ ServerOK
  BY DEF Ended, Amid, OfferInv
<1>2. ASSUME NEW o \in Offers
      PROVE  /\ Shown(o)'.seq \in {0, Made(o)'.seq}
             /\ Shown(o)'.state = "none" => an[o] = "none"
             /\ Made(o)'.state = "none" \/ Queued(prog[from[o]], o)' => Shown(o)'.state = "none"
  <2>1. /\ Shown(o).seq \in {0, Made(o).seq}
        /\ Shown(o).state = "none" => answer[o] = "none"
        /\ Made(o).state = "none" \/ Queued(prog[from[o]], o) => Shown(o).state = "none"
    BY <1>1 DEF ShownOK
  <2>2. CASE from[o] = p
    <3>1. /\ Made(o)' = s.event[o] /\ Shown(o)' = Shown(o) /\ Made(o) = prog[p].event[o]
          /\ Shown(o) = prog[Other(p)].event[o]
          /\ Queued(prog[from[o]], o)' <=> Queued(s, o)
      BY <2>2, EndedEvents
    <3>2. /\ prog[p].event[o].state # "none" => s.event[o].state # "none"
          /\ s.event[o].seq = prog[p].event[o].seq \/ Unsent(p, o)
          /\ Queued(s, o) => Unsent(p, o)
      BY <1>1, <2>2 DEF Onward
    <3>3. an[o] = answer[o]
      BY <1>1, <2>2 DEF UserKeeps
    <3>4. Shown(o)'.seq \in {0, Made(o)'.seq}
      BY <2>1, <3>1, <3>2 DEF Unsent
    <3>5. ASSUME Made(o)'.state = "none" PROVE Shown(o)'.state = "none"
      BY <2>1, <3>1, <3>2, <3>5
    <3>6. ASSUME Queued(s, o) PROVE Shown(o)'.state = "none"
      BY <3>1, <3>2, <3>6 DEF Unsent
    <3> QED BY <2>1, <3>1, <3>3, <3>4, <3>5, <3>6
  <2>3. CASE from[o] # p
    <3>1. /\ Made(o)' = Made(o) /\ Shown(o)' = s.event[o] /\ Shown(o) = prog[p].event[o]
          /\ Queued(prog[from[o]], o)' <=> Queued(prog[from[o]], o)
      BY <2>3, EndedEvents
    <3>2. an[o] # answer[o] => s.event[o].state # "none"
      BY <1>1 DEF UserKeeps
    <3>3. CASE o \in K
      BY <1>1, <2>1, <3>1, <3>2, <3>3 DEF Arrives, Onward
    <3>4. CASE o \notin K
      BY <1>1, <2>1, <2>3, <3>1, <3>2, <3>4 DEF Onward
    <3> QED BY <3>3, <3>4
  <2> QED BY <2>2, <2>3
<1>3. ASSUME NEW o \in server'
      PROVE  o \in Offers /\ Made(o)'.state # "none" /\ Made(o)'.seq = 0 /\ ~Queued(prog[from[o]], o)'
  <2>1. o \in Offers
    BY <1>1, <1>3 DEF ServerKeeps
  <2>2. CASE o \in server
    <3>1. Made(o).state # "none" /\ Made(o).seq = 0 /\ ~Queued(prog[from[o]], o)
      BY <1>1, <2>2 DEF ServerOK
    <3>2. ~Unsent(p, o)
      BY <2>2 DEF Unsent
    <3>3. Made(o)'.state # "none" /\ Made(o)'.seq = Made(o).seq
      BY <2>1, <3>1, <3>2, EndedEvents
    <3>4. CASE from[o] = p
      <4>1. Queued(prog[from[o]], o)' <=> Queued(s, o)
        BY <2>1, <3>4, EndedEvents
      <4>2. ~Queued(s, o)
        BY <1>1, <2>1, <3>2 DEF Onward
      <4> QED BY <2>1, <3>1, <3>3, <4>1, <4>2
    <3>5. CASE from[o] # p
      <4>1. Queued(prog[from[o]], o)' <=> Queued(prog[from[o]], o)
        BY <2>1, <3>5, EndedEvents
      <4> QED BY <2>1, <3>1, <3>3, <4>1
    <3> QED BY <3>4, <3>5
  <2>3. CASE o \notin server
    <3>1. from[o] = p /\ s.event[o].state # "none" /\ s.event[o].seq = 0 /\ ~Queued(s, o)
      BY <1>1, <1>3, <2>3 DEF ServerKeeps
    <3>2. Made(o)' = s.event[o] /\ (Queued(prog[from[o]], o)' <=> Queued(s, o))
      BY <2>1, <3>1, EndedEvents
    <3> QED BY <2>1, <3>1, <3>2
  <2> QED BY <2>2, <2>3
<1>4. ShownOK'
  BY <1>1, <1>2 DEF ShownOK
<1>5. ServerOK'
  BY <1>3 DEF ServerOK
<1> QED BY <1>4, <1>5

\* The invariant holds at the end of every callback.
LEMMA CallbackKeeps ==
  ASSUME OfferInv, NEW p \in Programs, NEW s, NEW an, NEW wd, NEW K, Ended(p, s, an, wd, K)
  PROVE  OfferInv'
<1>1. /\ from' \in [Offers -> Programs] /\ answer' \in [Offers -> Answers] /\ withdrawn' \in [Offers -> Withdrawals]
      /\ chan' \in [Conns -> [Programs -> Seq(Message)]]
  BY DEF Ended, UserKeeps, OfferInv, ChanKeeps
<1>2. prog' \in [Programs -> Program]
  BY EndedProg
<1>3. ConnsOK'
  <2>1. ConnsOK /\ s \in Program /\ Onward(p, s, K) /\ prog \in [Programs -> Program] /\ Settle(p, s)
    BY DEF OfferInv, Ended, Amid, LocalOK
  <2> QED BY <2>1, ConnsKeeps
<1>4. /\ \A x \in Programs : LocalOK(x, prog[x], withdrawn)' /\ prog'[x].out = <<>>
      /\ Ambiguous' \/ \A x \in Programs : Honest(x, prog[x], answer, withdrawn)'
      /\ Ambiguous' \/ Reconnected' \/ \A x \in Programs : Open(x, prog[x], answer, withdrawn)'
  BY EndedLocal
<1>5. StartsOK' /\ MessagesOK' /\ ShownOK' /\ ServerOK'
  BY EndedStarts, EndedMessages, EndedShown
<1> QED BY <1>1, <1>2, <1>3, <1>4, <1>5 DEF OfferInv, Answers, Withdrawals

\* A callback begins in the state of the program.
LEMMA StartAmid ==
  ASSUME OfferInv, NEW p \in Programs, NEW s, s = prog[p], NEW an, NEW wd, wd = withdrawn, NEW K
  PROVE  Amid(p, s, an, wd, K)
<1>1. LocalOK(p, s, wd) /\ s.out = <<>>
  BY DEF OfferInv
<1>2. OutOK(p, s, an, wd)
  BY <1>1 DEF OutOK
<1>3. ASSUME NEW o \in Offers, Queued(s, o) PROVE Unsent(p, o)
  <2>1. from[o] = p /\ s.event[o].seq = 0
    BY <1>1, <1>3, OfferIs DEF Waiting
  <2>2. Shown(o).state = "none" /\ o \notin server
    BY <1>3, <2>1 DEF OfferInv, ShownOK, ServerOK
  <2> QED BY <2>1, <2>2 DEF Unsent, Shown
<1>4. ASSUME NEW c \in Conns, s.dc[c].state # "none" PROVE caller[c] # "none"
  BY <1>4 DEF OfferInv, ConnsOK
<1> QED BY <1>1, <1>2, <1>3, <1>4 DEF Amid, Onward

-----------------------------------------------------------------------------
(* The handlers.                                                           *)

\* The offer waits in the queue.
LEMMA QueueKeeps ==
  ASSUME NEW p, NEW s, NEW an, NEW wd, NEW K, Amid(p, s, an, wd, K),
         NEW c \in Conns, s.dc[c].state # "CONNECTED", NEW o \in Offers, Ready(p, s, wd, o),
         NEW t, t = [s EXCEPT !.dc[c].queue = Append(@, o)]
  PROVE  Amid(p, t, an, wd, K) /\ Kept(p, s, t, an, wd)
<1>1. LocalOK(p, s, wd) /\ Onward(p, s, K) /\ OutOK(p, s, an, wd) /\ s \in Program /\ s.dc \in [Conns -> Client]
  BY ProgramIs DEF Amid, LocalOK
<1>2. PICK old \in Seq(Offers) : old = s.dc[c].queue
  BY <1>1, ProgramIs
<1>3. PICK new : new = Append(old, o)
  OBVIOUS
<1>4. new \in Seq(Offers)
  BY <1>2, <1>3, AppendProperties
<1>5. PICK k \in Nat : k = Len(old)
  OBVIOUS
<1>6. Len(new) = k + 1 /\ new[k + 1] = o /\ \A i \in 1..k : new[i] = old[i]
  BY <1>2, <1>3, <1>5, AppendProperties
<1>7. PICK r : r = [s.dc[c] EXCEPT !.queue = new]
  OBVIOUS
<1>8. r \in Client /\ r.state = s.dc[c].state /\ r.cache = s.dc[c].cache /\ r.queue = new
  <2>1. s.dc[c] \in Client
    BY <1>1
  <2> QED BY <1>4, <1>7, <2>1 DEF Client
<1>9. s.event \in [Offers -> Event] /\ s.list \in Seq(Conns)
  BY <1>1, ProgramIs
<1>10. PICK l \in Seq(Conns) : l = s.list
  BY <1>9
<1>11. PICK u : u = Update(s, c, r, l, s.event)
  OBVIOUS
<1>12. /\ u \in Program /\ u.event = s.event /\ u.list = l /\ u.cookies = s.cookies /\ u.out = s.out
       /\ u.dc[c] = r /\ \A d \in Conns : d # c => u.dc[d] = s.dc[d]
  BY <1>1, <1>8, <1>9, <1>11, UpdateIs
<1>13. t = u
  BY <1>1, <1>2, <1>3, <1>7, <1>10, <1>11 DEF Program, Update
<1>14. /\ t \in Program /\ t.event = s.event /\ t.list = s.list /\ t.cookies = s.cookies /\ t.out = s.out
       /\ \A d \in Conns : d # c => t.dc[d] = s.dc[d]
       /\ t.dc[c].state = s.dc[c].state /\ t.dc[c].cache = s.dc[c].cache /\ t.dc[c].queue = new
  BY <1>13, <1>8, <1>10, <1>12, Zenon
<1>15. \A d \in Conns : t.dc[d].state = s.dc[d].state /\ t.dc[d].cache = s.dc[d].cache
  BY <1>14
<1>16. \A x : Cached(t, x) <=> Cached(s, x)
  BY <1>15 DEF Cached
<1>17. \A i \in 1..Len(new) : i = k + 1 \/ i \in 1..k
  BY <1>6
<1>18. ASSUME NEW d \in Conns, NEW i \in 1..Len(t.dc[d].queue)
       PROVE  \/ i \in 1..Len(s.dc[d].queue) /\ t.dc[d].queue[i] = s.dc[d].queue[i]
              \/ d = c /\ i = k + 1 /\ t.dc[d].queue[i] = o
  BY <1>2, <1>5, <1>6, <1>14, <1>17, <1>18
<1>19. ASSUME NEW d \in Conns, NEW i \in 1..Len(s.dc[d].queue) PROVE s.dc[d].queue[i] # o
  BY <1>19 DEF Ready, Queued
<1>20. \A x : Queued(t, x) => Queued(s, x) \/ x = o
  BY <1>18 DEF Queued
<1>21. QueuesOK(p, t, wd)
  <2>1. ASSUME NEW d \in Conns, NEW i \in 1..Len(t.dc[d].queue) PROVE Waiting(p, t, wd, t.dc[d].queue[i])
    <3>1. Waiting(p, s, wd, t.dc[d].queue[i])
      BY <1>1, <1>18 DEF LocalOK, QueuesOK, Ready
    <3> QED BY <1>14, <3>1 DEF Waiting
  <2>2. ASSUME NEW d \in Conns, NEW e \in Conns, NEW i \in 1..Len(t.dc[d].queue), NEW j \in 1..Len(t.dc[e].queue),
               t.dc[d].queue[i] = t.dc[e].queue[j]
        PROVE  d = e /\ i = j
    <3>1. CASE /\ i \in 1..Len(s.dc[d].queue) /\ t.dc[d].queue[i] = s.dc[d].queue[i]
               /\ j \in 1..Len(s.dc[e].queue) /\ t.dc[e].queue[j] = s.dc[e].queue[j]
      BY <1>1, <2>2, <3>1 DEF LocalOK, QueuesOK
    <3>2. CASE i \in 1..Len(s.dc[d].queue) /\ t.dc[d].queue[i] = s.dc[d].queue[i] /\ t.dc[e].queue[j] = o
      BY <1>19, <2>2, <3>2
    <3>3. CASE j \in 1..Len(s.dc[e].queue) /\ t.dc[e].queue[j] = s.dc[e].queue[j] /\ t.dc[d].queue[i] = o
      BY <1>19, <2>2, <3>3
    <3>4. CASE d = c /\ i = k + 1 /\ e = c /\ j = k + 1
      BY <3>4
    <3> QED BY <1>18, <3>1, <3>2, <3>3, <3>4
  <2>3. \A d, e \in Conns : \A i \in 1..Len(t.dc[d].queue), j \in 1..Len(t.dc[e].queue) :
           t.dc[d].queue[i] = t.dc[e].queue[j] => d = e /\ i = j
    BY <2>2
  <2> QED BY <2>1, <2>3 DEF QueuesOK
<1>22. CachesOK(t)
  <2>1. CachesOK(s)
    BY <1>1 DEF LocalOK
  <2>2. \A e : EntryOK(s, e) => EntryOK(t, e)
    BY <1>14 DEF EntryOK
  <2>3. \A d \in Conns : \A i \in 1..Len(t.dc[d].cache) :
           t.dc[d].state = "CONNECTED" /\ EntryOK(t, t.dc[d].cache[i])
    <3>1. \A d \in Conns : \A i \in 1..Len(s.dc[d].cache) :
             s.dc[d].state = "CONNECTED" /\ EntryOK(s, s.dc[d].cache[i])
      BY <2>1 DEF CachesOK
    <3> QED BY <1>15, <2>2, <3>1
  <2>4. \A d, e \in Conns : \A i \in 1..Len(t.dc[d].cache), j \in 1..Len(t.dc[e].cache) :
           t.dc[d].cache[i].offer = t.dc[e].cache[j].offer => d = e /\ i = j
    <3>1. ASSUME NEW d \in Conns, NEW e \in Conns, NEW i \in 1..Len(t.dc[d].cache), NEW j \in 1..Len(t.dc[e].cache),
                 t.dc[d].cache[i].offer = t.dc[e].cache[j].offer
          PROVE  d = e /\ i = j
      <4>1. t.dc[d].cache = s.dc[d].cache /\ t.dc[e].cache = s.dc[e].cache
        BY <1>15
      <4>2. /\ i \in 1..Len(s.dc[d].cache) /\ j \in 1..Len(s.dc[e].cache)
            /\ s.dc[d].cache[i].offer = s.dc[e].cache[j].offer
        BY <3>1, <4>1, Zenon
      <4>3. \A a, b \in Conns : \A f \in 1..Len(s.dc[a].cache), g \in 1..Len(s.dc[b].cache) :
               s.dc[a].cache[f].offer = s.dc[b].cache[g].offer => a = b /\ f = g
        BY <2>1, Zenon DEF CachesOK
      <4> QED BY <4>2, <4>3, Zenon
    <3> QED BY <3>1
  <2> QED BY <2>3, <2>4 DEF CachesOK
<1>23. Listed(t) /\ EventsOK(p, t, wd)
  BY <1>1, <1>14, <1>15 DEF LocalOK, Listed, EventsOK
<1>24. Onward(p, t, K)
  BY <1>1, <1>14, <1>15, <1>20 DEF Onward, Ready
<1>25. OutOK(p, t, an, wd)
  BY <1>1, <1>14 DEF OutOK, MaySend, MayStart, MayAnswer, MayCancel
<1>26. Honest(p, s, an, wd) => Honest(p, t, an, wd)
  BY <1>14 DEF Honest, HonestAt
<1>27. Open(p, s, an, wd) => Open(p, t, an, wd)
  BY <1>14, <1>16 DEF Open, OpenAt
<1> QED BY <1>14, <1>21, <1>22, <1>23, <1>24, <1>25, <1>26, <1>27 DEF Amid, LocalOK, Kept

\* SendEvent sends the offer or lets it wait.
LEMMA SendEventKeeps ==
  ASSUME NEW p, NEW s, NEW an, NEW wd, NEW K, Amid(p, s, an, wd, K),
         NEW c \in Conns, NEW o \in Offers, Ready(p, s, wd, o), NEW same, NEW t, t = SendEvent(s, c, o, same)
  PROVE  Amid(p, t, an, wd, K) /\ Kept(p, s, t, an, wd)
<1>1. CASE s.dc[c].state = "CONNECTED"
  <2>1. t = SendPacketEvent(s, c, o, same)
    BY <1>1 DEF SendEvent
  <2>2. PacketSent(s, t, c, o)
    BY <2>1, SendPacketIs DEF Amid, LocalOK
  <2> QED BY <1>1, <2>2, SendPacketKeeps
<1>2. CASE s.dc[c].state # "CONNECTED"
  <2>1. t = [s EXCEPT !.dc[c].queue = Append(@, o)]
    BY <1>2 DEF SendEvent
  <2> QED BY <1>2, <2>1, QueueKeeps
<1> QED BY <1>1, <1>2

\* The packets of the handshake
LEMMA SimpleKeeps ==
  ASSUME NEW p, NEW s, NEW an, NEW wd, NEW K, Amid(p, s, an, wd, K), NEW c \in Conns,
         NEW ty \in {"INIT", "ACK", "INIT2"}, NEW t, t = Send(s, c, Simple(ty))
  PROVE  Amid(p, t, an, wd, K) /\ Kept(p, s, t, an, wd) /\ t.dc = s.dc
<1>1. PICK m : m = Simple(ty)
  OBVIOUS
<1>2. m \in Message /\ m.type = ty
  BY <1>1 DEF Simple, Message
<1>3. MaySend(p, s, an, wd, m) /\ m.type # "START"
  BY <1>2 DEF MaySend
<1>4. t = Send(s, c, m)
  BY <1>1
<1>5. t.dc = s.dc
  BY <1>2, <1>4, SendIs DEF Amid, LocalOK
<1> QED BY <1>2, <1>3, <1>4, <1>5, SendKeeps

\* A step of the handshake: the next state, then two packets
LEMMA StepKeeps ==
  ASSUME NEW p, NEW s, NEW an, NEW wd, NEW K, Amid(p, s, an, wd, K), NEW c \in Conns,
         s.dc[c].state \notin {"none", "closed", "CONNECTED"},
         NEW st \in ClientStates, st \notin {"none", "closed"}, NEW u, u = [s EXCEPT !.dc[c].state = st]
  PROVE  /\ Amid(p, u, an, wd, K) /\ Kept(p, s, u, an, wd)
         /\ \A a, b \in {"INIT", "ACK", "INIT2"} : \A t :
               t = Send(Send(u, c, Simple(a)), c, Simple(b)) => Amid(p, t, an, wd, K) /\ Kept(p, s, t, an, wd)
<1>1. Shrinks(s, u)
  BY StateShrinks DEF Amid
<1>2. Amid(p, u, an, wd, K) /\ Kept(p, s, u, an, wd)
  BY <1>1, ShrinksKeeps
<1>3. ASSUME NEW a \in {"INIT", "ACK", "INIT2"}, NEW b \in {"INIT", "ACK", "INIT2"}, NEW t,
             t = Send(Send(u, c, Simple(a)), c, Simple(b))
      PROVE  Amid(p, t, an, wd, K) /\ Kept(p, s, t, an, wd)
  <2>1. PICK v : v = Send(u, c, Simple(a))
    OBVIOUS
  <2>2. Amid(p, v, an, wd, K) /\ Kept(p, u, v, an, wd)
    BY <1>2, <2>1, SimpleKeeps
  <2>3. t = Send(v, c, Simple(b))
    BY <1>3, <2>1
  <2>4. Amid(p, t, an, wd, K) /\ Kept(p, v, t, an, wd)
    BY <2>2, <2>3, SimpleKeeps
  <2>5. Kept(p, s, v, an, wd)
    BY <1>2, <2>2, KeptTrans
  <2> QED BY <2>4, <2>5, KeptTrans
<1> QED BY <1>2, <1>3

\* Whatever comes in the handshake
LEMMA HandshakeKeeps ==
  ASSUME NEW p, NEW s, NEW an, NEW wd, NEW K, Amid(p, s, an, wd, K), NEW c \in Conns,
         s.dc[c].state \notin {"none", "closed", "CONNECTED"}, NEW m, NEW same,
         NEW t, t = Handshake(s, p, c, m, same)
  PROVE  Amid(p, t, an, wd, K) /\ Kept(p, s, t, an, wd)
<1> DEFINE To(st) == [s EXCEPT !.dc[c].state = st]
<1>1. \/ t = Send(Send(To("INIT_ACK"), c, Simple("ACK")), c, Simple("INIT"))
      \/ t = To("INIT2")
      \/ t = Connected(Send(s, c, Simple("INIT2")), c, same)
      \/ t = To("INIT")
      \/ t = Send(Send(To("INIT2"), c, Simple("ACK")), c, Simple("INIT2"))
      \/ t = Connected(s, c, same)
      \/ t = Disconnect(s, c)
  BY DEF Handshake
<1>2. CASE t = Send(Send(To("INIT_ACK"), c, Simple("ACK")), c, Simple("INIT"))
  <2>1. PICK st : st = "INIT_ACK"
    OBVIOUS
  <2>2. PICK u : u = To(st)
    OBVIOUS
  <2>3. st \in ClientStates /\ st \notin {"none", "closed"}
    BY <2>1 DEF ClientStates
  <2>4. t = Send(Send(u, c, Simple("ACK")), c, Simple("INIT"))
    BY <1>2, <2>1, <2>2
  <2> QED BY <2>2, <2>3, <2>4, StepKeeps
<1>3. CASE t = To("INIT2")
  <2>1. PICK st : st = "INIT2"
    OBVIOUS
  <2>2. st \in ClientStates /\ st \notin {"none", "closed"} /\ t = To(st)
    BY <1>3, <2>1 DEF ClientStates
  <2> QED BY <2>2, StepKeeps
<1>4. CASE t = Connected(Send(s, c, Simple("INIT2")), c, same)
  <2>1. PICK u : u = Send(s, c, Simple("INIT2"))
    OBVIOUS
  <2>2. Amid(p, u, an, wd, K) /\ Kept(p, s, u, an, wd) /\ u.dc = s.dc
    BY <2>1, SimpleKeeps
  <2>3. t = Connected(u, c, same)
    BY <1>4, <2>1
  <2>4. Amid(p, t, an, wd, K) /\ Kept(p, u, t, an, wd)
    BY <2>2, <2>3, ConnectedKeeps
  <2> QED BY <2>2, <2>4, KeptTrans
<1>5. CASE t = To("INIT")
  <2>1. PICK st : st = "INIT"
    OBVIOUS
  <2>2. st \in ClientStates /\ st \notin {"none", "closed"} /\ t = To(st)
    BY <1>5, <2>1 DEF ClientStates
  <2> QED BY <2>2, StepKeeps
<1>6. CASE t = Send(Send(To("INIT2"), c, Simple("ACK")), c, Simple("INIT2"))
  <2>1. PICK st : st = "INIT2"
    OBVIOUS
  <2>2. PICK u : u = To(st)
    OBVIOUS
  <2>3. st \in ClientStates /\ st \notin {"none", "closed"}
    BY <2>1 DEF ClientStates
  <2>4. t = Send(Send(u, c, Simple("ACK")), c, Simple("INIT2"))
    BY <1>6, <2>1, <2>2
  <2> QED BY <2>2, <2>3, <2>4, StepKeeps
<1>7. CASE t = Connected(s, c, same)
  BY <1>7, ConnectedKeeps
<1>8. CASE t = Disconnect(s, c)
  <2>1. Shrinks(s, t)
    BY <1>8, DisconnectShrinks DEF Amid
  <2> QED BY <2>1, ShrinksKeeps
<1> HIDE DEF To
<1> QED BY <1>1, <1>2, <1>3, <1>4, <1>5, <1>6, <1>7, <1>8

\* Where connections stay as they are
LEMMA SameCached == ASSUME NEW s, NEW t, t.dc = s.dc PROVE \A o : Cached(t, o) <=> Cached(s, o)
BY DEF Cached

\* What a program knows of an event it can find by its number
Has(cache, n, o) == \E k \in 1..Len(cache) : cache[k].seq = n /\ cache[k].offer = o
Lacks(cache, o) == \A i \in 1..Len(cache) : cache[i].offer # o

\* The event o is found in the cache of connection c by the number n, and new is
\* the cache without it.
Known(s, c, n, cache, o, new) ==
    /\ cache \in Seq(Entry) /\ new \in Seq(Entry) /\ Within(new, cache)
    /\ Has(cache, n, o) /\ Lacks(new, o)
    /\ o \in Offers /\ s.event[o].seq = n /\ n \in Nat /\ n > 0
    /\ Made(o).seq = n /\ Cached(s, o)
    /\ s.event[o].state # "none" /\ s.dc[c].state = "CONNECTED"

\* That is what Lookup and Without find.
LEMMA KnownIs ==
  ASSUME OfferInv, NEW p \in Programs, NEW s, s = prog[p], NEW c \in Conns, NEW n,
         NEW cache, cache = s.dc[c].cache, Exists(cache, n), NEW o, o = Lookup(cache, n),
         NEW new, new = Without(cache, n)
  PROVE  Known(s, c, n, cache, o, new)
<1>1. LocalOK(p, s, withdrawn) /\ s \in Program /\ CachesOK(s)
  BY DEF OfferInv, LocalOK
<1>2. cache \in Seq(Entry)
  BY <1>1, ProgramIs
<1>3. \A i, j \in 1..Len(cache) : cache[i].offer = cache[j].offer => i = j
  BY <1>1 DEF CachesOK
<1>4. /\ new \in Seq(Entry) /\ Within(new, cache)
      /\ \E k \in 1..Len(cache) : cache[k].seq = n /\ cache[k].offer = o
      /\ \A i \in 1..Len(new) : new[i].offer # o
  BY <1>2, <1>3, WithoutIs
<1>5. PICK k \in 1..Len(cache) : cache[k].seq = n /\ cache[k].offer = o
  BY <1>4
<1>6. EntryOK(s, cache[k]) /\ s.dc[c].state = "CONNECTED"
  BY <1>1 DEF CachesOK
<1>7. cache[k] \in Entry
  BY <1>2
<1>8. o \in Offers /\ n \in Nat
  BY <1>5, <1>7 DEF Entry
<1>9. s.event[o].seq = n /\ n > 0 /\ s.event[o].state # "none"
  BY <1>5, <1>6 DEF EntryOK
<1>10. Cached(s, o)
  BY <1>5 DEF Cached
<1>11. Made(o).seq = n
  <2>1. CASE from[o] = p
    BY <1>9, <2>1 DEF Made
  <2>2. CASE from[o] # p
    <3>1. Other(from[o]) = p
      <4>1. from[o] \in Programs
        BY <1>8 DEF OfferInv
      <4> QED BY <2>2, <4>1, OtherIs
    <3>2. Shown(o).seq = n
      BY <1>9, <3>1 DEF Shown
    <3>3. Shown(o).seq \in {0, Made(o).seq}
      BY <1>8 DEF OfferInv, ShownOK
    <3> QED BY <1>9, <3>2, <3>3
  <2> QED BY <2>1, <2>2
<1>12. Has(cache, n, o) /\ Lacks(new, o)
  BY <1>4 DEF Has, Lacks
<1> QED BY <1>2, <1>4, <1>6, <1>8, <1>9, <1>10, <1>11, <1>12, Zenon DEF Known

\* An answer or a cancellation: the offer leaves the cache, and has a new state.
Turned(u, o, e) == [u EXCEPT !.event[o] = e]

\* Its event is the same but for its state, and how it is answered.
NewState(s, o, st, e) == e \in Event /\ e.state = st /\ e.seq = s.event[o].seq

\* The invariants of the callback hold, if they do for this one offer.
Turning(p, s, t, an, wd, K, o, st) ==
    /\ Amid(p, t, an, wd, K) /\ t.event[o].state = st /\ ~Cached(t, o)
    /\ Honest(p, s, an, wd) /\ HonestAt(p, t, an, wd, o) => Honest(p, t, an, wd)
    /\ Open(p, s, an, wd) /\ OpenAt(p, t, an, wd, o) => Open(p, t, an, wd)

LEMMA TurningKeeps ==
  ASSUME OfferInv, NEW p \in Programs, NEW s, s = prog[p], NEW an, an = answer, NEW wd, wd = withdrawn,
         NEW c \in Conns, NEW n, NEW cache, cache = s.dc[c].cache, Exists(cache, n),
         NEW o, o = Lookup(cache, n),
         NEW new, new = Without(cache, n), NEW u, u = Removed(s, c, new),
         NEW st, st # "none", st # "WAIT_RESPONS", NEW e, NewState(s, o, st, e), NEW K, K = {},
         NEW t, t = Turned(u, o, e)
  PROVE  Turning(p, s, t, an, wd, K, o, st)
<1>1. /\ cache \in Seq(Entry) /\ new \in Seq(Entry) /\ Within(new, cache)
      /\ Has(cache, n, o) /\ Lacks(new, o)
      /\ o \in Offers /\ s.event[o].seq = n /\ n \in Nat /\ n > 0
      /\ Cached(s, o) /\ s.event[o].state # "none" /\ s.dc[c].state = "CONNECTED"
  <2>1. Known(s, c, n, cache, o, new)
    BY KnownIs, Zenon
  <2> QED BY <2>1, Zenon DEF Known
<1>2. Amid(p, s, an, wd, K)
  BY StartAmid
<1>3. LocalOK(p, s, wd)
  BY <1>2 DEF Amid
<1>4. /\ Shrinks(s, u) /\ u.event = s.event /\ u.dc[c].cache = new
      /\ \A x \in Conns : x # c => u.dc[x] = s.dc[x]
  <2>1. s.dc[c].state # "none" /\ Within(new, s.dc[c].cache)
    BY <1>1
  <2>2. new \in Seq(Entry)
    BY <1>1
  <2> QED BY <1>3, <2>1, <2>2, RemovedShrinks
<1>5. Amid(p, u, an, wd, K) /\ Kept(p, s, u, an, wd)
  BY <1>2, <1>4, ShrinksKeeps
<1>6. ~Cached(u, o)
  <2>1. SUFFICES ASSUME NEW x \in Conns, NEW i \in 1..Len(u.dc[x].cache), u.dc[x].cache[i].offer = o PROVE FALSE
    BY DEF Cached
  <2>2. x # c
    BY <1>1, <1>4, <2>1 DEF Lacks
  <2>3. u.dc[x] = s.dc[x]
    BY <1>4, <2>2
  <2>4. PICK k \in 1..Len(s.dc[c].cache) : s.dc[c].cache[k].offer = o
    BY <1>1 DEF Has
  <2>5. i \in 1..Len(s.dc[x].cache) /\ s.dc[x].cache[i].offer = s.dc[c].cache[k].offer
    BY <2>1, <2>3, <2>4
  <2>6. \A a, b \in Conns : \A f \in 1..Len(s.dc[a].cache), g \in 1..Len(s.dc[b].cache) :
           s.dc[a].cache[f].offer = s.dc[b].cache[g].offer => a = b /\ f = g
    BY <1>3 DEF LocalOK, CachesOK
  <2> QED BY <2>2, <2>5, <2>6, Zenon
<1>7. ~Queued(u, o)
  BY <1>1, <1>3, <1>4, OfferIs, ShrinksQueued
<1>8. u \in Program /\ EventsOK(p, u, wd) /\ u.event \in [Offers -> Event] /\ u.event[o].seq \in Nat
  BY <1>1, <1>5, ProgramIs DEF Amid, LocalOK
<1>9. e \in Event /\ e.state = st /\ e.seq = u.event[o].seq
  BY <1>4 DEF NewState
<1>10. PICK ev : ev = [u.event EXCEPT ![o] = e]
  OBVIOUS
<1>11. ev \in [Offers -> Event] /\ ev[o] = e /\ \A x \in Offers : x # o => ev[x] = u.event[x]
  BY <1>1, <1>8, <1>9, <1>10
<1>12. t = [u EXCEPT !.event = ev]
  BY <1>10 DEF Turned
<1>13. /\ t \in Program /\ t.event = ev /\ t.dc = u.dc /\ t.list = u.list /\ t.out = u.out
       /\ t.cookies = u.cookies
  BY <1>8, <1>11, <1>12 DEF Program
<1>14. ~Cached(t, o)
  <2>1. t.dc = u.dc
    BY <1>13
  <2> QED BY <1>6, <2>1, SameCached
<1>15. from[o] = p /\ o \in t.cookies => t.event[o].seq = 0
  BY <1>1, <1>8, <1>9, <1>11, <1>13 DEF EventsOK
<1>16. Turns(p, u, t, o, wd, wd, K)
  <2>1. /\ u.event[o].state # "none" /\ t.event[o].state = st /\ t.event[o].seq = u.event[o].seq
        /\ \A x \in Offers : x # o => t.event[x] = u.event[x]
    <3>1. s.event[o].state # "none" /\ u.event = s.event
      BY <1>1, <1>4
    <3>2. t.event = ev /\ ev[o] = e /\ e.state = st /\ e.seq = u.event[o].seq
      BY <1>9, <1>11, <1>13
    <3> QED BY <1>11, <3>1, <3>2
  <2> QED BY <1>6, <1>7, <1>13, <1>15, <2>1 DEF Turns
<1>17. /\ Amid(p, t, an, wd, K)
       /\ Honest(p, u, an, wd) /\ HonestAt(p, t, an, wd, o) => Honest(p, t, an, wd)
       /\ Open(p, u, an, wd) /\ OpenAt(p, t, an, wd, o) => Open(p, t, an, wd)
  BY <1>1, <1>5, <1>16, TurnsKeeps
<1> QED BY <1>1, <1>5, <1>9, <1>11, <1>13, <1>14, <1>17 DEF Kept, Turning

\* What a message has done
Heard(p, t, an, wd, K) ==
    /\ Amid(p, t, an, wd, K) /\ Arrives(p, t, K)
    /\ Ambiguous \/ Honest(p, t, an, wd)
    /\ Ambiguous \/ Reconnected \/ Open(p, t, an, wd)

\* What messages are
LEMMA MessageIs ==
  ASSUME NEW m \in Message
  PROVE  /\ m.type \in {"INIT", "ACK", "INIT2", "START", "ANSWER", "CANCEL"}
         /\ m.type = "START" => m.seq \in Nat /\ m.offer \in Offers
         /\ m.type = "ANSWER" => m.seq \in Nat /\ m.accepted \in BOOLEAN
         /\ m.type = "CANCEL" => m.seq \in Nat
BY DEF Message

\* Numbers that are used once name an offer.
LEMMA NamedIs ==
  ASSUME ~Ambiguous, NEW o \in Offers, NEW x \in Offers, Made(o).seq = Made(x).seq, Made(o).seq > 0
  PROVE  o = x
BY DEF Ambiguous

\* That is what SetState does.
LEMMA TurnedIs ==
  ASSUME NEW u \in Program, NEW o \in Offers, NEW st \in EventStates
  PROVE  \E e : NewState(u, o, st, e) /\ SetState(u, o, st) = Turned(u, o, e)
<1>1. PICK old \in Event : old = u.event[o]
  BY ProgramIs
<1>2. PICK e : e = [old EXCEPT !.state = st]
  OBVIOUS
<1>3. NewState(u, o, st, e)
  BY <1>1, <1>2 DEF NewState, Event
<1>4. SetState(u, o, st) = Turned(u, o, e)
  BY <1>1, <1>2 DEF SetState, Turned
<1> QED BY <1>3, <1>4

\* An answer also makes the event one of this connection.
Accepted(u, o, st) == [SetState(u, o, st) EXCEPT !.event[o].direct = TRUE]

\* That is such a change, too.
LEMMA AcceptedIs ==
  ASSUME NEW u \in Program, NEW o \in Offers, NEW st \in EventStates
  PROVE  \E e : NewState(u, o, st, e) /\ Accepted(u, o, st) = Turned(u, o, e)
<1>1. PICK v : NewState(u, o, st, v) /\ SetState(u, o, st) = Turned(u, o, v)
  BY TurnedIs
<1>2. PICK e : e = [v EXCEPT !.direct = TRUE]
  OBVIOUS
<1>3. NewState(u, o, st, e)
  BY <1>1, <1>2 DEF NewState, Event
<1>4. u.event \in [Offers -> Event]
  BY ProgramIs
<1>5. PICK ev : ev = [u.event EXCEPT ![o] = v]
  OBVIOUS
<1>6. PICK r : r = SetState(u, o, st)
  OBVIOUS
<1>7. r = [u EXCEPT !.event = ev]
  BY <1>1, <1>5, <1>6 DEF Turned
<1>8. r.event = ev /\ ev[o] = v
  BY <1>4, <1>5, <1>7 DEF Program
<1>9. Accepted(u, o, st) = [r EXCEPT !.event = [ev EXCEPT ![o] = e]]
  BY <1>2, <1>6, <1>8 DEF Accepted
<1>10. [ev EXCEPT ![o] = e] = [u.event EXCEPT ![o] = e]
  BY <1>4, <1>5
<1>11. PICK fv : fv = [u.event EXCEPT ![o] = e]
  OBVIOUS
<1>12. [r EXCEPT !.event = fv] = [u EXCEPT !.event = fv]
  BY <1>7 DEF Program
<1>13. Turned(u, o, e) = [u EXCEPT !.event = fv]
  BY <1>11 DEF Turned
<1>14. Accepted(u, o, st) = Turned(u, o, e)
  BY <1>9, <1>10, <1>11, <1>12, <1>13
<1> QED BY <1>3, <1>14

\* The answer is that of the user who was asked.
LEMMA AnswerHeard ==
  ASSUME OfferInv, NEW p \in Programs, NEW s, s = prog[p], NEW an, an = answer, NEW wd, wd = withdrawn,
         NEW c \in Conns, NEW m \in Message, m.type = "ANSWER", Says(p, m, an, wd), NEW n, n = m.seq,
         NEW cache, cache = s.dc[c].cache, Exists(cache, n), NEW o, o = Lookup(cache, n),
         NEW new, new = Without(cache, n), NEW u, u = Removed(s, c, new),
         NEW st, st = IF m.accepted THEN "ACCEPTED" ELSE "REJECTED",
         NEW t, t = Accepted(u, o, st), NEW K, K = {}
  PROVE  Heard(p, t, an, wd, K)
<1>1. st \in EventStates /\ st # "none" /\ st # "WAIT_RESPONS"
  BY DEF EventStates
<1>2. Known(s, c, n, cache, o, new)
  BY KnownIs, Zenon
<1>3. /\ o \in Offers /\ s.event[o].seq = n /\ n \in Nat /\ n > 0 /\ Made(o).seq = n /\ Cached(s, o)
      /\ s.dc[c].state # "none" /\ new \in Seq(Entry) /\ Within(new, cache)
  BY <1>2 DEF Known
<1>4. LocalOK(p, s, wd) /\ EventsOK(p, s, wd)
  BY DEF OfferInv, LocalOK
<1>5. Shrinks(s, u) /\ u.event = s.event
  BY <1>3, <1>4, RemovedShrinks
<1>6. u \in Program
  BY <1>5 DEF Shrinks
<1>7. PICK e : NewState(s, o, st, e) /\ t = Turned(u, o, e)
  <2>1. PICK e : NewState(u, o, st, e) /\ t = Turned(u, o, e)
    BY <1>1, <1>3, <1>6, AcceptedIs
  <2> QED BY <1>5, <2>1 DEF NewState
<1>8. Turning(p, s, t, an, wd, K, o, st)
  BY <1>1, <1>7, TurningKeeps
<1>9. ASSUME ~Ambiguous PROVE HonestAt(p, t, an, wd, o)
  <2>1. PICK x \in Offers : from[x] = p /\ Made(x).seq = n /\ an[x] = IF m.accepted THEN "accepted" ELSE "declined"
    BY <1>3 DEF Says
  <2>2. x = o
    BY <1>3, <1>9, <2>1, NamedIs
  <2> QED BY <1>8, <2>1, <2>2 DEF Turning, HonestAt
<1>10. ASSUME Open(p, s, an, wd) PROVE OpenAt(p, t, an, wd, o)
  <2>1. OpenAt(p, s, an, wd, o)
    BY <1>3, <1>10 DEF Open
  <2>2. ASSUME from[o] = p, wd[o] = "yes" PROVE FALSE
    <3>1. s.event[o].state = "WAIT_RESPONS"
      BY <1>3, <2>1, <2>2 DEF OpenAt
    <3> QED BY <1>3, <1>4, <2>2, <3>1 DEF EventsOK
  <2> QED BY <1>8, <2>2 DEF Turning, OpenAt
<1>11. Ambiguous \/ Honest(p, t, an, wd)
  BY <1>8, <1>9 DEF Turning, OfferInv
<1>12. Ambiguous \/ Reconnected \/ Open(p, t, an, wd)
  BY <1>8, <1>10 DEF Turning, OfferInv
<1> QED BY <1>8, <1>11, <1>12 DEF Turning, Heard, Arrives

\* The cancellation is that of the user who made the offer.
LEMMA CancelHeard ==
  ASSUME OfferInv, NEW p \in Programs, NEW s, s = prog[p], NEW an, an = answer, NEW wd, wd = withdrawn,
         NEW c \in Conns, NEW m \in Message, m.type = "CANCEL", Says(p, m, an, wd), NEW n, n = m.seq,
         NEW cache, cache = s.dc[c].cache, Exists(cache, n), NEW o, o = Lookup(cache, n),
         NEW new, new = Without(cache, n), NEW u, u = Removed(s, c, new),
         NEW st, st = "CANCELLED", NEW t, t = SetState(u, o, st), NEW K, K = {}
  PROVE  Heard(p, t, an, wd, K)
<1>1. st \in EventStates /\ st # "none" /\ st # "WAIT_RESPONS"
  BY DEF EventStates
<1>2. Known(s, c, n, cache, o, new)
  BY KnownIs, Zenon
<1>3. /\ o \in Offers /\ s.event[o].seq = n /\ n \in Nat /\ n > 0 /\ Made(o).seq = n /\ Cached(s, o)
      /\ s.dc[c].state # "none" /\ new \in Seq(Entry) /\ Within(new, cache)
  BY <1>2 DEF Known
<1>4. LocalOK(p, s, wd) /\ EventsOK(p, s, wd)
  BY DEF OfferInv, LocalOK
<1>5. Shrinks(s, u) /\ u.event = s.event
  BY <1>3, <1>4, RemovedShrinks
<1>6. u \in Program
  BY <1>5 DEF Shrinks
<1>7. PICK e : NewState(s, o, st, e) /\ t = Turned(u, o, e)
  <2>1. PICK e : NewState(u, o, st, e) /\ t = Turned(u, o, e)
    BY <1>1, <1>3, <1>6, TurnedIs
  <2> QED BY <1>5, <2>1 DEF NewState
<1>8. Turning(p, s, t, an, wd, K, o, st)
  BY <1>1, <1>7, TurningKeeps
<1>9. ASSUME ~Ambiguous PROVE HonestAt(p, t, an, wd, o)
  <2>1. PICK x \in Offers : from[x] = Other(p) /\ Made(x).seq = n /\ wd[x] # "no"
    BY <1>3 DEF Says
  <2>2. x = o
    BY <1>3, <1>9, <2>1, NamedIs
  <2> QED BY <1>8, <2>1, <2>2 DEF Turning, HonestAt
<1>10. OpenAt(p, t, an, wd, o)
  BY <1>8 DEF Turning, OpenAt
<1>11. Ambiguous \/ Honest(p, t, an, wd)
  BY <1>8, <1>9 DEF Turning, OfferInv
<1>12. Ambiguous \/ Reconnected \/ Open(p, t, an, wd)
  BY <1>8, <1>10 DEF Turning, OfferInv
<1> QED BY <1>8, <1>11, <1>12 DEF Turning, Heard, Arrives

\* The offer that has come in is in the cache.
AskedFor(s, c, n, o, same) ==
    [Asked(s, o, n, TRUE) EXCEPT !.dc[c].cache = Insert(@, [seq |-> n, offer |-> o], same)]

\* What Asked does
LEMMA AskedIs ==
  ASSUME NEW s \in Program, NEW o \in Offers, NEW n \in Nat, NEW d \in BOOLEAN, NEW t, t = Asked(s, o, n, d)
  PROVE  /\ t \in Program /\ t.dc = s.dc /\ t.list = s.list /\ t.cookies = s.cookies /\ t.out = s.out
         /\ \A x \in Offers : x # o => t.event[x] = s.event[x]
         /\ t.event[o].state = "NOT_CONNECTED" /\ t.event[o].seq = n /\ (t.event[o].direct <=> d)
<1>1. s.event \in [Offers -> Event]
  BY ProgramIs
<1>2. PICK e : e = [state |-> "NOT_CONNECTED", seq |-> n, direct |-> d]
  OBVIOUS
<1>3. e \in Event /\ e.state = "NOT_CONNECTED" /\ e.seq = n /\ (e.direct <=> d)
  BY <1>2 DEF Event, EventStates
<1>4. PICK ev : ev = [s.event EXCEPT ![o] = e]
  OBVIOUS
<1>5. ev \in [Offers -> Event] /\ ev[o] = e /\ \A x \in Offers : x # o => ev[x] = s.event[x]
  BY <1>1, <1>3, <1>4
<1>6. t = [s EXCEPT !.event = ev]
  BY <1>2, <1>4 DEF Asked
<1>7. /\ t \in Program /\ t.event = ev /\ t.dc = s.dc /\ t.list = s.list /\ t.cookies = s.cookies
      /\ t.out = s.out
  BY <1>5, <1>6 DEF Program
<1> QED BY <1>3, <1>5, <1>7

\* And what that does
LEMMA AskedForIs ==
  ASSUME NEW s \in Program, NEW c \in Conns, NEW n \in Nat, n > 0, NEW o \in Offers, NEW same,
         NEW t, t = AskedFor(s, c, n, o, same)
  PROVE  /\ t \in Program /\ t.list = s.list /\ t.cookies = s.cookies /\ t.out = s.out
         /\ t.dc[c].state = s.dc[c].state /\ t.dc[c].queue = s.dc[c].queue
         /\ \A d \in Conns : d # c => t.dc[d] = s.dc[d]
         /\ NewEntry(s, t, c, o)
         /\ \A x \in Offers : x # o => t.event[x] = s.event[x]
         /\ t.event[o].direct /\ t.event[o].state = "NOT_CONNECTED" /\ t.event[o].seq = n
<1>1. PICK d \in BOOLEAN : d = TRUE
  OBVIOUS
<1>2. PICK u : u = Asked(s, o, n, d)
  OBVIOUS
<1>3. /\ u \in Program /\ u.dc = s.dc /\ u.list = s.list /\ u.cookies = s.cookies /\ u.out = s.out
      /\ \A x \in Offers : x # o => u.event[x] = s.event[x]
      /\ u.event[o].state = "NOT_CONNECTED" /\ u.event[o].seq = n /\ (u.event[o].direct <=> d)
  <2>1. d \in BOOLEAN
    BY <1>1
  <2> QED BY <1>2, <2>1, AskedIs
<1>4. PICK e : e = [seq |-> n, offer |-> o]
  OBVIOUS
<1>5. e \in Entry /\ e.seq = n /\ e.offer = o
  BY <1>4 DEF Entry
<1>6. PICK old \in Seq(Entry) : old = s.dc[c].cache
  BY ProgramIs
<1>7. PICK new : new = Insert(old, e, same)
  OBVIOUS
<1>8. new = Append(old, e) \/ new = <<e>> \o old
  BY <1>7 DEF Insert
<1>9. new \in Seq(Entry)
  BY <1>5, <1>8, OneMore
<1>10. t = Removed(u, c, new)
  BY <1>1, <1>2, <1>3, <1>4, <1>6, <1>7 DEF AskedFor, Removed
<1>11. s.dc \in [Conns -> Client] /\ s.dc[c] \in Client
  BY ProgramIs
<1>12. PICK k : k = [s.dc[c] EXCEPT !.cache = new]
  OBVIOUS
<1>13. k \in Client /\ k.state = s.dc[c].state /\ k.queue = s.dc[c].queue /\ k.cache = new
  BY <1>9, <1>11, <1>12 DEF Client
<1>14. PICK dc : dc = [s.dc EXCEPT ![c] = k]
  OBVIOUS
<1>15. dc \in [Conns -> Client] /\ dc[c] = k /\ \A x \in Conns : x # c => dc[x] = s.dc[x]
  BY <1>11, <1>13, <1>14
<1>16. t = [u EXCEPT !.dc = dc]
  BY <1>3, <1>10, <1>12, <1>14 DEF Removed
<1>17. /\ t \in Program /\ t.dc = dc /\ t.event = u.event /\ t.list = u.list /\ t.cookies = u.cookies
       /\ t.out = u.out
  BY <1>3, <1>15, <1>16 DEF Program
<1>18. NewEntry(s, t, c, o)
  <2>1. t.event[o].seq = n /\ t.dc[c].cache = new
    BY <1>3, <1>13, <1>15, <1>17
  <2> QED BY <1>5, <1>6, <1>8, <2>1 DEF NewEntry
<1>19. t.event[o].direct
  BY <1>1, <1>3, <1>17
<1>20. t.event[o].state = "NOT_CONNECTED" /\ t.event[o].seq = n /\ \A x \in Offers : x # o => t.event[x] = s.event[x]
  BY <1>3, <1>17
<1>21. /\ t.dc[c].state = s.dc[c].state /\ t.dc[c].queue = s.dc[c].queue
       /\ \A x \in Conns : x # c => t.dc[x] = s.dc[x]
  BY <1>13, <1>15, <1>17
<1> QED BY <1>3, <1>17, <1>18, <1>19, <1>20, <1>21

\* The offer has arrived.
LEMMA StartHeard ==
  ASSUME OfferInv, NEW p \in Programs, NEW s, s = prog[p], NEW an, an = answer, NEW wd, wd = withdrawn,
         NEW c \in Conns, s.dc[c].state = "CONNECTED", NEW m \in Message, m.type = "START", Starts(p, m),
         NEW n, n = m.seq, NEW o, o = m.offer, NEW same, NEW t, t = AskedFor(s, c, n, o, same),
         NEW K, K = {o}
  PROVE  Heard(p, t, an, wd, K)
<1>1. /\ LocalOK(p, s, wd) /\ EventsOK(p, s, wd) /\ s \in Program /\ s.out = <<>>
      /\ \A x \in Programs : LocalOK(x, prog[x], wd) /\ EventsOK(x, prog[x], wd)
      /\ from \in [Offers -> Programs]
  BY DEF OfferInv, LocalOK
<1>2. n \in Nat /\ o \in Offers
  BY MessageIs
<1>3. from[o] = Other(p) /\ n = Made(o).seq /\ n > 0 /\ Shown(o).state = "none"
  BY DEF Starts
<1>4. from[o] # p /\ Shown(o) = s.event[o] /\ Made(o) = prog[Other(p)].event[o] /\ Other(p) \in Programs
  BY <1>3, OtherIs DEF Shown, Made
<1>5. /\ t \in Program /\ t.list = s.list /\ t.cookies = s.cookies /\ t.out = s.out
      /\ t.dc[c].state = s.dc[c].state /\ t.dc[c].queue = s.dc[c].queue
      /\ \A d \in Conns : d # c => t.dc[d] = s.dc[d]
      /\ NewEntry(s, t, c, o)
      /\ \A x \in Offers : x # o => t.event[x] = s.event[x]
      /\ t.event[o].direct /\ t.event[o].state = "NOT_CONNECTED" /\ t.event[o].seq = n
  BY <1>1, <1>2, <1>3, AskedForIs
<1>6. ~Queued(s, o) /\ ~Cached(s, o)
  BY <1>1, <1>2, <1>3, <1>4, OfferIs DEF Waiting
<1>7. Enters(p, s, t, c, o, wd)
  BY <1>4, <1>5, <1>6 DEF Enters
<1>8. /\ LocalOK(p, t, wd)
      /\ \A x : Queued(t, x) <=> Queued(s, x)
      /\ \A x : Cached(t, x) <=> Cached(s, x) \/ x = o
  BY <1>1, <1>2, <1>7, EntersLocal
<1>9. Amid(p, s, an, wd, K)
  BY StartAmid
<1>10. Onward(p, t, K)
  <2>1. ASSUME NEW x \in Offers
        PROVE  /\ prog[p].event[x].state # "none" => t.event[x].state # "none"
               /\ from[x] = p => t.event[x].seq = prog[p].event[x].seq \/ Unsent(p, x)
               /\ from[x] # p /\ x \notin K => /\ t.event[x].seq = prog[p].event[x].seq
                                               /\ t.event[x].state = "none" <=> prog[p].event[x].state = "none"
               /\ Queued(t, x) => Unsent(p, x)
    <3>1. Queued(t, x) => Unsent(p, x)
      BY <1>8, <1>9 DEF Amid, Onward
    <3>2. CASE x = o
      BY <1>4, <1>5, <3>1, <3>2
    <3>3. CASE x # o
      BY <1>5, <3>1, <3>3
    <3> QED BY <3>2, <3>3
  <2>2. ASSUME NEW d \in Conns
        PROVE  /\ prog[p].dc[d].state # "none" => t.dc[d].state # "none"
               /\ t.dc[d].state # "none" => caller[d] # "none" \/ d = Cardinality(Used) + 1
    <3>1. t.dc[d].state = s.dc[d].state
      BY <1>5
    <3> QED BY <1>9, <3>1 DEF Amid, Onward
  <2> QED BY <2>1, <2>2 DEF Onward
<1>11. OutOK(p, t, an, wd)
  BY <1>1, <1>5 DEF OutOK
<1>12. ASSUME Honest(p, s, an, wd) PROVE Honest(p, t, an, wd)
  <2>1. ASSUME NEW x \in Offers PROVE HonestAt(p, t, an, wd, x)
    <3>1. HonestAt(p, s, an, wd, x)
      BY <1>12 DEF Honest
    <3>2. CASE x = o
      BY <1>5, <3>2 DEF HonestAt
    <3>3. CASE x # o
      BY <1>5, <3>1, <3>3 DEF HonestAt
    <3> QED BY <3>2, <3>3
  <2> QED BY <2>1 DEF Honest
<1>13. ASSUME Open(p, s, an, wd) PROVE Open(p, t, an, wd)
  <2>1. ASSUME NEW x \in Offers PROVE OpenAt(p, t, an, wd, x)
    <3>1. OpenAt(p, s, an, wd, x)
      BY <1>13 DEF Open
    <3>2. CASE x = o
      <4>1. an[o] = "none"
        BY <1>2, <1>3 DEF OfferInv, ShownOK
      <4> QED BY <1>4, <3>2, <4>1 DEF OpenAt
    <3>3. CASE x # o
      BY <1>5, <1>8, <3>1, <3>3 DEF OpenAt
    <3> QED BY <3>2, <3>3
  <2> QED BY <2>1 DEF Open
<1>14. Arrives(p, t, K)
  <2>1. Made(o).state # "none"
    BY <1>1, <1>2, <1>3, <1>4 DEF EventsOK
  <2>2. ~Queued(prog[from[o]], o)
    <3>1. PICK q : q = prog[Other(p)]
      OBVIOUS
    <3>2. LocalOK(Other(p), q, wd)
      BY <1>1, <1>4, <3>1
    <3>3. Queued(q, o) => q.event[o].seq = 0
      BY <1>2, <3>2, OfferIs DEF Waiting
    <3> QED BY <1>3, <1>4, <3>1, <3>3
  <2>3. t.event[o].seq = Made(o).seq
    BY <1>3, <1>5
  <2>4. \A x \in K : x = o
    OBVIOUS
  <2> QED BY <1>2, <1>4, <2>1, <2>2, <2>3, <2>4 DEF Arrives
<1>15. Amid(p, t, an, wd, K)
  BY <1>8, <1>10, <1>11 DEF Amid
<1>16. (Ambiguous \/ Honest(p, t, an, wd)) /\ (Ambiguous \/ Reconnected \/ Open(p, t, an, wd))
  BY <1>12, <1>13 DEF OfferInv
<1> QED BY <1>14, <1>15, <1>16 DEF Heard

\* Messages that say nothing of the users
LEMMA HeardKept ==
  ASSUME OfferInv, NEW p \in Programs, NEW s, s = prog[p], NEW an, an = answer, NEW wd, wd = withdrawn,
         NEW K, K = {}, NEW t, Amid(p, t, an, wd, K), Kept(p, s, t, an, wd)
  PROVE  Heard(p, t, an, wd, K)
BY DEF OfferInv, Kept, Heard, Arrives

\* What ParsePacket does, by the kinds of messages
LEMMA ParsePacketIs ==
  ASSUME NEW s, NEW c, NEW m, NEW same, NEW n, n = m.seq, NEW cache, cache = s.dc[c].cache,
         NEW new, new = Without(cache, n), NEW u, u = Removed(s, c, new), NEW t, t = ParsePacket(s, c, m, same)
  PROVE  \/ m.type = "START" /\ t = AskedFor(s, c, n, m.offer, same)
         \/ m.type = "ANSWER" /\ Exists(cache, n) /\ t = HandleIncomingACK(u, Lookup(cache, n), m.accepted)
         \/ m.type = "CANCEL" /\ Exists(cache, n) /\ t = SetState(u, Lookup(cache, n), "CANCELLED")
         \/ t = s
<1>1. u = [s EXCEPT !.dc[c].cache = Without(s.dc[c].cache, m.seq)]
  BY DEF Removed
<1>2. CASE m.type = "START"
  BY <1>2 DEF ParsePacket, AskedFor
<1>3. CASE m.type = "ANSWER" /\ Exists(cache, n)
  BY <1>1, <1>3 DEF ParsePacket
<1>4. CASE m.type = "CANCEL" /\ Exists(cache, n)
  BY <1>1, <1>4 DEF ParsePacket
<1>5. CASE m.type # "START" /\ ~(m.type = "ANSWER" /\ Exists(cache, n)) /\ ~(m.type = "CANCEL" /\ Exists(cache, n))
  BY <1>5 DEF ParsePacket
<1> QED BY <1>2, <1>3, <1>4, <1>5

\* The offer that the message is about, if it is one, is what arrives.
Hears(p, t, m, an, wd) == \E K : Heard(p, t, an, wd, K) /\ \A o \in K : m.type = "START" /\ m.offer = o

\* Every message
LEMMA ParseHeard ==
  ASSUME OfferInv, NEW p \in Programs, NEW s, s = prog[p], NEW an, an = answer, NEW wd, wd = withdrawn,
         NEW c \in Conns, s.dc[c].state \notin {"none", "closed"}, NEW m \in Message, Starts(p, m),
         Says(p, m, an, wd), NEW same, NEW t, t = Parse(s, p, c, m, same)
  PROVE  Hears(p, t, m, an, wd)
<1>1. PICK none : none = {}
  OBVIOUS
<1>2. Amid(p, s, an, wd, none)
  BY StartAmid
<1>3. ASSUME Amid(p, t, an, wd, none), Kept(p, s, t, an, wd)
      PROVE  Hears(p, t, m, an, wd)
  <2>1. Heard(p, t, an, wd, none)
    BY <1>1, <1>3, HeardKept
  <2> QED BY <1>1, <2>1 DEF Hears
<1>4. CASE t = Disconnect(s, c)
  <2>1. Shrinks(s, t)
    BY <1>2, <1>4, DisconnectShrinks DEF Amid
  <2> QED BY <1>2, <1>3, <2>1, ShrinksKeeps
<1>5. CASE s.dc[c].state # "CONNECTED"
  <2>1. t = Handshake(s, p, c, m, same)
    BY <1>5 DEF Parse
  <2> QED BY <1>2, <1>3, <1>5, <2>1, HandshakeKeeps
<1>6. CASE s.dc[c].state = "CONNECTED" /\ m.type \in {"START", "ANSWER", "CANCEL"}
  <2>1. t = ParsePacket(s, c, m, same)
    BY <1>6 DEF Parse
  <2>2. PICK n : n = m.seq
    OBVIOUS
  <2>3. PICK cache : cache = s.dc[c].cache
    OBVIOUS
  <2>4. PICK new : new = Without(cache, n)
    OBVIOUS
  <2>5. PICK u : u = Removed(s, c, new)
    OBVIOUS
  <2>6. CASE m.type = "START" /\ t = AskedFor(s, c, n, m.offer, same)
    <3>1. PICK o : o = m.offer
      OBVIOUS
    <3>2. PICK K : K = {o}
      OBVIOUS
    <3>3. t = AskedFor(s, c, n, o, same)
      BY <2>6, <3>1
    <3>4. Heard(p, t, an, wd, K)
      BY <1>6, <2>2, <2>6, <3>1, <3>2, <3>3, StartHeard
    <3> QED BY <2>6, <3>1, <3>2, <3>4 DEF Hears
  <2>7. CASE m.type = "ANSWER" /\ Exists(cache, n) /\ t = HandleIncomingACK(u, Lookup(cache, n), m.accepted)
    <3>1. PICK o : o = Lookup(cache, n)
      OBVIOUS
    <3>2. PICK st : st = IF m.accepted THEN "ACCEPTED" ELSE "REJECTED"
      OBVIOUS
    <3>3. t = Accepted(u, o, st)
      BY <2>7, <3>1, <3>2 DEF HandleIncomingACK, Accepted
    <3>4. Heard(p, t, an, wd, none)
      BY <1>1, <2>2, <2>3, <2>4, <2>5, <2>7, <3>1, <3>2, <3>3, AnswerHeard
    <3> QED BY <1>1, <3>4 DEF Hears
  <2>8. CASE m.type = "CANCEL" /\ Exists(cache, n) /\ t = SetState(u, Lookup(cache, n), "CANCELLED")
    <3>1. PICK o : o = Lookup(cache, n)
      OBVIOUS
    <3>2. PICK st : st = "CANCELLED"
      OBVIOUS
    <3>3. m.type = "CANCEL" /\ Exists(cache, n) /\ t = SetState(u, o, st)
      BY <2>8, <3>1, <3>2
    <3>4. Heard(p, t, an, wd, none)
      BY <1>1, <2>2, <2>3, <2>4, <2>5, <3>1, <3>2, <3>3, CancelHeard
    <3> QED BY <1>1, <3>4 DEF Hears
  <2>9. CASE t = s
    <3>1. Kept(p, s, t, an, wd)
      BY <2>9 DEF Kept
    <3> QED BY <1>2, <1>3, <2>9, <3>1
  <2> QED BY <2>1, <2>2, <2>3, <2>4, <2>5, <2>6, <2>7, <2>8, <2>9, ParsePacketIs
<1>7. CASE s.dc[c].state = "CONNECTED" /\ m.type \notin {"START", "ANSWER", "CANCEL"}
  <2>1. t = Disconnect(s, c)
    BY <1>7 DEF Parse
  <2> QED BY <1>4, <2>1
<1> QED BY <1>5, <1>6, <1>7

-----------------------------------------------------------------------------
(* The actions.                                                            *)

\* What Reacts sends and settles
LEMMA ReactsIs ==
  ASSUME OfferInv, NEW p \in Programs, NEW s \in Program, Reacts(p, s), NEW K, K = {}
  PROVE  Settle(p, s) /\ ChanKeeps(p, s, K)
<1>1. PICK q \in Programs : q = Other(p)
  BY OtherIs
<1>2. q # p
  BY <1>1, OtherIs
<1>3. chan' = [c \in Conns |-> [chan[c] EXCEPT ![Other(p)] = chan[c][Other(p)] \o Arriving(p, c, s.out)]]
  BY DEF Reacts, Sends
<1>4. \A c \in Conns : \A x \in Programs : chan[c][x] \in Seq(Message)
  BY DEF OfferInv
<1>5. \A c \in Conns : chan[c] \in [Programs -> Seq(Message)]
  BY DEF OfferInv
<1>6. ASSUME NEW c \in Conns
      PROVE  /\ chan'[c] \in [Programs -> Seq(Message)]
             /\ chan'[c][q] = chan[c][q] \o Arriving(p, c, s.out)
             /\ chan'[c][p] = chan[c][p]
  <2>1. PICK u : u = chan[c][q] \o Arriving(p, c, s.out)
    OBVIOUS
  <2>2. s.out \in Seq(Conns \X Message)
    BY ProgramIs
  <2>3. u \in Seq(Message)
    BY <1>4, <2>1, <2>2, SentIs
  <2>4. chan'[c] = [chan[c] EXCEPT ![q] = u]
    BY <1>1, <1>3, <2>1
  <2> QED BY <1>2, <1>5, <2>1, <2>3, <2>4
<1>7. chan' \in [Conns -> [Programs -> Seq(Message)]]
  <2>1. PICK f : f = [c \in Conns |-> chan'[c]]
    OBVIOUS
  <2>2. chan' = f
    BY <1>3, <2>1
  <2>3. f \in [Conns -> [Programs -> Seq(Message)]]
    BY <1>6, <2>1
  <2> QED BY <2>2, <2>3
<1>8. \A c \in Conns : Within(chan'[c][p], chan[c][p])
  BY <1>4, <1>6, WithinSelf
<1> QED BY <1>1, <1>6, <1>7, <1>8 DEF ChanKeeps, Reacts

\* The end of a callback that nothing arrives in
LEMMA ReactsKeeps ==
  ASSUME OfferInv, NEW p \in Programs, NEW s, NEW an, NEW wd, NEW K, K = {}, Amid(p, s, an, wd, K), Reacts(p, s),
         from' = from, answer' = an, withdrawn' = wd, UserKeeps(p, s, an, wd), ServerKeeps(p, s),
         Ambiguous \/ Honest(p, s, an, wd), Ambiguous \/ Reconnected \/ Open(p, s, an, wd)
  PROVE  OfferInv'
<1>1. s \in Program
  BY DEF Amid, LocalOK
<1>2. Settle(p, s) /\ ChanKeeps(p, s, K)
  BY <1>1, ReactsIs
<1>3. Arrives(p, s, K)
  BY DEF Arrives
<1>4. Ended(p, s, an, wd, K)
  BY <1>2, <1>3 DEF Ended
<1> QED BY <1>4, CallbackKeeps

\* Where the users, or the server, do nothing
LEMMA UserSame ==
  ASSUME OfferInv, NEW p, NEW s, NEW an, an = answer, NEW wd, wd = withdrawn
  PROVE  UserKeeps(p, s, an, wd)
BY DEF OfferInv, UserKeeps, Answers, Withdrawals

LEMMA ServerSame == ASSUME OfferInv, NEW p, NEW s, server' = server PROVE ServerKeeps(p, s)
BY DEF OfferInv, ServerOK, ServerKeeps

\* A callback that says nothing of the users
LEMMA QuietKeeps ==
  ASSUME OfferInv, NEW p \in Programs, NEW s, s = prog[p], NEW t, NEW an, an = answer, NEW wd, wd = withdrawn,
         NEW K, K = {}, Amid(p, t, an, wd, K), Kept(p, s, t, an, wd), Reacts(p, t),
         UNCHANGED <<from, server, answer, withdrawn>>
  PROVE  OfferInv'
<1>1. UserKeeps(p, t, an, wd) /\ ServerKeeps(p, t)
  BY UserSame, ServerSame
<1>2. /\ Ambiguous \/ Honest(p, t, an, wd)
      /\ Ambiguous \/ Reconnected \/ Open(p, t, an, wd)
  BY DEF OfferInv, Kept
<1>3. from' = from /\ answer' = an /\ withdrawn' = wd
  OBVIOUS
<1> QED BY <1>1, <1>2, <1>3, ReactsKeeps

\* A callback that only leaves queues and caches or ends connections
LEMMA ShrinkingKeeps ==
  ASSUME OfferInv, NEW p \in Programs, NEW s, s = prog[p], NEW t, Shrinks(s, t), Reacts(p, t),
         UNCHANGED <<from, server, answer, withdrawn>>
  PROVE  OfferInv'
<1>1. PICK an : an = answer
  OBVIOUS
<1>2. PICK wd : wd = withdrawn
  OBVIOUS
<1>3. PICK K : K = {}
  OBVIOUS
<1>4. Amid(p, s, an, wd, K)
  BY <1>2, StartAmid
<1>5. Amid(p, t, an, wd, K) /\ Kept(p, s, t, an, wd)
  BY <1>4, ShrinksKeeps
<1> QED BY <1>1, <1>2, <1>3, <1>5, QuietKeeps

\* The actions of which that is true
LEMMA LoseConnectionKeeps ==
  ASSUME OfferInv, NEW p \in Programs, NEW c \in Conns, LoseConnection(p, c)
  PROVE  OfferInv'
<1>1. PICK s : s = prog[p]
  OBVIOUS
<1>2. PICK t : t = Disconnect(s, c)
  OBVIOUS
<1>3. LocalOK(p, s, withdrawn)
  BY <1>1 DEF OfferInv
<1>4. s.dc[c].state # "none" /\ Reacts(p, t) /\ UNCHANGED <<from, server, answer, withdrawn>>
  BY <1>1, <1>2 DEF LoseConnection
<1>5. Shrinks(s, t)
  BY <1>2, <1>3, <1>4, DisconnectShrinks
<1> QED BY <1>1, <1>4, <1>5, ShrinkingKeeps

LEMMA MessageExpiresKeeps ==
  ASSUME OfferInv, NEW p \in Programs, NEW c \in Conns, MessageExpires(p, c)
  PROVE  OfferInv'
<1>1. PICK s : s = prog[p]
  OBVIOUS
<1>2. PICK t : t = OldestExpires(s, c)
  OBVIOUS
<1>3. LocalOK(p, s, withdrawn)
  BY <1>1 DEF OfferInv
<1>4. s.dc[c].cache # <<>> /\ Reacts(p, t) /\ UNCHANGED <<from, server, answer, withdrawn>>
  BY <1>1, <1>2 DEF MessageExpires, OldestExpires
<1>5. Shrinks(s, t)
  BY <1>2, <1>3, <1>4, MessageExpiresShrinks
<1> QED BY <1>1, <1>4, <1>5, ShrinkingKeeps

LEMMA AcceptConnectionKeeps ==
  ASSUME OfferInv, NEW p \in Programs, NEW c \in Conns, AcceptConnection(p, c)
  PROVE  OfferInv'
<1>1. PICK s : s = prog[p]
  OBVIOUS
<1>2. PICK st \in {"connecting", "INIT"} : st = "INIT"
  OBVIOUS
<1>3. PICK t : t = AddClient(s, c, st)
  OBVIOUS
<1>4. LocalOK(p, s, withdrawn)
  BY <1>1 DEF OfferInv
<1>5. s.dc[c].state = "none" /\ Reacts(p, t) /\ UNCHANGED <<from, server, answer, withdrawn>>
  BY <1>1, <1>2, <1>3 DEF AcceptConnection
<1>6. caller[c] # "none"
  <2>1. caller[c] \in Programs
    BY OtherIs DEF AcceptConnection
  <2> QED BY <2>1 DEF Programs
<1>7. Shrinks(s, t)
  BY <1>3, <1>4, <1>5, <1>6, AddClientShrinks
<1> QED BY <1>1, <1>5, <1>7, ShrinkingKeeps

\* A connection is established, or fails.
LEMMA FinishConnectKeeps ==
  ASSUME OfferInv, NEW p \in Programs, NEW c \in Conns, FinishConnect(p, c)
  PROVE  OfferInv'
<1>1. PICK s : s = prog[p]
  OBVIOUS
<1>2. PICK st \in ClientStates : st = "INIT_ACK"
  BY DEF ClientStates
<1>3. PICK u : u = [s EXCEPT !.dc[c].state = st]
  OBVIOUS
<1>4. PICK ty \in {"INIT", "ACK", "INIT2"} : ty = "INIT"
  OBVIOUS
<1>5. PICK t : t = Send(u, c, Simple(ty))
  OBVIOUS
<1>6. s.dc[c].state = "connecting" /\ Reacts(p, t) /\ UNCHANGED <<from, server, answer, withdrawn>>
  BY <1>1, <1>2, <1>3, <1>4, <1>5 DEF FinishConnect
<1>7. PICK an : an = answer
  OBVIOUS
<1>8. PICK wd : wd = withdrawn
  OBVIOUS
<1>9. PICK K : K = {}
  OBVIOUS
<1>10. Amid(p, s, an, wd, K)
  BY <1>1, <1>8, StartAmid
<1>11. Shrinks(s, u)
  BY <1>2, <1>3, <1>6, <1>10, StateShrinks DEF Amid
<1>12. Amid(p, u, an, wd, K) /\ Kept(p, s, u, an, wd)
  BY <1>10, <1>11, ShrinksKeeps
<1>13. Amid(p, t, an, wd, K) /\ Kept(p, u, t, an, wd)
  BY <1>5, <1>12, SimpleKeeps
<1>14. Kept(p, s, t, an, wd)
  BY <1>12, <1>13, KeptTrans
<1> QED BY <1>1, <1>6, <1>7, <1>8, <1>9, <1>13, <1>14, QuietKeeps

\* The message that is read leaves the connection, and no other of its offer is there.
LEMMA ReadIs ==
  ASSUME OfferInv, NEW p \in Programs, NEW c \in Conns, NEW in, in = chan[c][p], in # <<>>,
         NEW m, m = Head(in), NEW s \in Program,
         NEW K, \A o \in K : m.type = "START" /\ m.offer = o,
         chan' = [d \in Conns |->
               [chan[d] EXCEPT ![p] = IF d = c THEN Tail(@) ELSE @,
                               ![Other(p)] = @ \o Arriving(p, d, s.out)]]
  PROVE  ChanKeeps(p, s, K)
<1>1. PICK q \in Programs : q = Other(p)
  BY OtherIs
<1>2. q # p
  BY <1>1, OtherIs
<1>3. \A d \in Conns : \A x \in Programs : chan[d][x] \in Seq(Message)
  BY DEF OfferInv
<1>4. \A d \in Conns : chan[d] \in [Programs -> Seq(Message)]
  BY DEF OfferInv
<1>5. PICK rest : rest = Tail(in)
  OBVIOUS
<1>6. in \in Seq(Message)
  BY <1>3
<1>7. /\ rest \in Seq(Message) /\ Len(in) = Len(rest) + 1 /\ Len(rest) \in Nat /\ m = in[1]
      /\ \A i \in 1..Len(rest) : rest[i] = in[i + 1]
  BY <1>5, <1>6, TailIs
<1>8. ASSUME NEW d \in Conns
      PROVE  /\ chan'[d] \in [Programs -> Seq(Message)]
             /\ chan'[d][q] = chan[d][q] \o Arriving(p, d, s.out)
             /\ chan'[d][p] = IF d = c THEN rest ELSE chan[d][p]
  <2>1. PICK u : u = chan[d][q] \o Arriving(p, d, s.out)
    OBVIOUS
  <2>2. s.out \in Seq(Conns \X Message)
    BY ProgramIs
  <2>3. u \in Seq(Message)
    BY <1>3, <2>1, <2>2, SentIs
  <2>4. PICK v : v = IF d = c THEN rest ELSE chan[d][p]
    OBVIOUS
  <2>5. v \in Seq(Message)
    BY <1>3, <1>7, <2>4
  <2>6. chan'[d] = [chan[d] EXCEPT ![p] = v, ![q] = u]
    <3>1. chan'[d] = [chan[d] EXCEPT ![p] = IF d = c THEN Tail(chan[d][p]) ELSE chan[d][p],
                                     ![q] = chan[d][q] \o Arriving(p, d, s.out)]
      BY <1>1, <1>2, <1>4
    <3>2. v = IF d = c THEN Tail(chan[d][p]) ELSE chan[d][p]
      BY <1>5, <2>4
    <3> QED BY <2>1, <3>1, <3>2
  <2>7. PICK f : f = chan[d]
    OBVIOUS
  <2>8. PICK g : g = [f EXCEPT ![p] = v, ![q] = u]
    OBVIOUS
  <2>9. g \in [Programs -> Seq(Message)] /\ g[q] = u /\ g[p] = v
    <3>1. f \in [Programs -> Seq(Message)]
      BY <1>4, <2>7
    <3> QED BY <1>2, <2>3, <2>5, <2>8, <3>1
  <2>10. chan'[d] = g
    BY <2>6, <2>7, <2>8
  <2> QED BY <2>1, <2>4, <2>9, <2>10
<1>9. chan' \in [Conns -> [Programs -> Seq(Message)]]
  <2>1. PICK f : f = [d \in Conns |-> chan'[d]]
    OBVIOUS
  <2>2. chan' = f
    BY <2>1
  <2>3. f \in [Conns -> [Programs -> Seq(Message)]]
    BY <1>8, <2>1
  <2> QED BY <2>2, <2>3
<1>10. Within(rest, in)
  BY <1>5, <1>6, WithinTail
<1>11. ASSUME NEW d \in Conns PROVE Within(chan'[d][p], chan[d][p])
  <2>1. CASE d = c
    BY <1>8, <1>10, <2>1
  <2>2. CASE d # c
    BY <1>3, <1>8, <2>2, WithinSelf
  <2> QED BY <2>1, <2>2
<1>12. ASSUME NEW d \in Conns, NEW i \in 1..Len(chan'[d][p]), chan'[d][p][i].type = "START",
              chan'[d][p][i].offer \in K
       PROVE  FALSE
  <2>1. PICK j \in 1..Len(chan[d][p]) : chan'[d][p][i] = chan[d][p][j] /\ ~(d = c /\ j = 1)
    <3>1. CASE d = c
      <4>1. i \in 1..Len(rest) /\ chan'[d][p][i] = in[i + 1]
        BY <1>7, <1>8, <1>12, <3>1
      <4>2. i + 1 \in 1..Len(in) /\ i + 1 # 1
        BY <1>7, <4>1
      <4> QED BY <3>1, <4>1, <4>2
    <3>2. CASE d # c
      BY <1>8, <1>12, <3>2
    <3> QED BY <3>1, <3>2
  <2>2. 1 \in 1..Len(chan[c][p]) /\ chan[c][p][1] = m
    BY <1>7
  <2>3. /\ chan[d][p][j].type = "START" /\ chan[c][p][1].type = "START"
        /\ chan[d][p][j].offer = chan[c][p][1].offer
    BY <1>12, <2>1, <2>2
  <2>4. StartsOK
    BY DEF OfferInv
  <2>5. d = c /\ j = 1
    BY <2>2, <2>3, <2>4 DEF StartsOK
  <2> QED BY <2>1, <2>5
<1> QED BY <1>1, <1>8, <1>9, <1>11, <1>12 DEF ChanKeeps

\* A message is read.
LEMMA ReceiveKeeps ==
  ASSUME OfferInv, NEW p \in Programs, NEW c \in Conns, Receive(p, c)
  PROVE  OfferInv'
<1>1. PICK s : s = prog[p]
  OBVIOUS
<1>2. PICK in : in = chan[c][p]
  OBVIOUS
<1>3. PICK m : m = Head(in)
  OBVIOUS
<1>4. PICK an : an = answer
  OBVIOUS
<1>5. PICK wd : wd = withdrawn
  OBVIOUS
<1>6. PICK same \in SameSecond(p, c) :
         /\ Settle(p, Parse(s, p, c, m, same))
         /\ chan' = [d \in Conns |->
               [chan[d] EXCEPT ![p] = IF d = c THEN Tail(@) ELSE @,
                               ![Other(p)] = @ \o Arriving(p, d, Parse(s, p, c, m, same).out)]]
  BY <1>1, <1>2, <1>3 DEF Receive
<1>7. s.dc[c].state \notin {"none", "closed"} /\ in # <<>> /\ UNCHANGED <<from, server, answer, withdrawn>>
  BY <1>1, <1>2 DEF Receive
<1>8. PICK t : t = Parse(s, p, c, m, same)
  OBVIOUS
<1>9. in \in Seq(Message)
  BY <1>2 DEF OfferInv
<1>10. m = in[1] /\ m \in Message /\ 1 \in 1..Len(in)
  <2>1. PICK rest : rest = Tail(in)
    OBVIOUS
  <2>2. Len(in) = Len(rest) + 1 /\ Len(rest) \in Nat /\ Head(in) = in[1] /\ in[1] \in Message
    BY <1>7, <1>9, <2>1, TailIs
  <2> QED BY <1>3, <2>2
<1>11. Starts(p, m) /\ Says(p, m, an, wd)
  BY <1>2, <1>4, <1>5, <1>10 DEF OfferInv, StartsOK, MessagesOK
<1>12. PICK K : Heard(p, t, an, wd, K) /\ \A o \in K : m.type = "START" /\ m.offer = o
  <2>1. m \in Message
    BY <1>10
  <2>2. s.dc[c].state \notin {"none", "closed"}
    BY <1>7
  <2>3. Starts(p, m)
    BY <1>11
  <2>4. Says(p, m, an, wd)
    BY <1>11
  <2>5. Hears(p, t, m, an, wd)
    BY <1>1, <1>4, <1>5, <1>8, <2>1, <2>2, <2>3, <2>4, ParseHeard
  <2> QED BY <2>5 DEF Hears
<1>13. t \in Program
  BY <1>12 DEF Heard, Amid, LocalOK
<1>14. ChanKeeps(p, t, K)
  <2>1. chan' = [d \in Conns |->
               [chan[d] EXCEPT ![p] = IF d = c THEN Tail(@) ELSE @,
                               ![Other(p)] = @ \o Arriving(p, d, t.out)]]
    BY <1>6, <1>8
  <2> QED BY <1>2, <1>3, <1>7, <1>12, <1>13, <2>1, ReadIs
<1>15. UserKeeps(p, t, an, wd) /\ ServerKeeps(p, t)
  BY <1>4, <1>5, <1>7, UserSame, ServerSame
<1>16. Ended(p, t, an, wd, K)
  <2>1. from' = from /\ answer' = an /\ withdrawn' = wd /\ Settle(p, t)
    BY <1>4, <1>5, <1>6, <1>7, <1>8
  <2> QED BY <1>12, <1>14, <1>15, <2>1 DEF Ended, Heard
<1> QED BY <1>16, CallbackKeeps

\* The invariant says only of what the server has that it may be delivered.
LEMMA LessOfServer ==
  ASSUME OfferInv, UNCHANGED <<from, prog, chan, caller, answer, withdrawn>>, server' \subseteq server
  PROVE  OfferInv'
<1>1. UNCHANGED <<from, prog, chan, caller, answer, withdrawn>> /\ server' \subseteq server
  OBVIOUS
<1>2. /\ \A x : Made(x)' = Made(x) /\ Shown(x)' = Shown(x)
      /\ Used' = Used /\ (Ambiguous' <=> Ambiguous) /\ (Reconnected' <=> Reconnected)
  BY <1>1 DEF Made, Shown, Used, Ambiguous, Reconnected
<1>3. \A p \in Programs : /\ LocalOK(p, prog[p], withdrawn)' <=> LocalOK(p, prog[p], withdrawn)
                          /\ Honest(p, prog[p], answer, withdrawn)' <=> Honest(p, prog[p], answer, withdrawn)
                          /\ Open(p, prog[p], answer, withdrawn)' <=> Open(p, prog[p], answer, withdrawn)
  BY <1>1 DEF LocalOK, Listed, QueuesOK, CachesOK, EventsOK, EntryOK, Waiting, Honest, HonestAt, Open, OpenAt, Cached, Program
<1>4. StartsOK' /\ MessagesOK'
  <2>1. \A q, m : Starts(q, m)' <=> Starts(q, m)
    BY <1>1, <1>2 DEF Starts
  <2>2. \A q, m : Says(q, m, answer, withdrawn)' <=> Says(q, m, answer, withdrawn)
    BY <1>1, <1>2 DEF Says
  <2>3. chan' = chan /\ StartsOK /\ MessagesOK
    BY <1>1 DEF OfferInv
  <2>4. StartsOK'
    BY <2>1, <2>3 DEF StartsOK
  <2>5. MessagesOK'
    BY <2>2, <2>3 DEF MessagesOK
  <2> QED BY <2>4, <2>5
<1>5. \A x : Queued(prog[from[x]], x)' <=> Queued(prog[from[x]], x)
  BY <1>1 DEF Queued
<1>6. ShownOK' /\ ServerOK'
  BY <1>1, <1>2, <1>5 DEF OfferInv, ShownOK, ServerOK
<1>7. ConnsOK'
  BY <1>1, <1>2 DEF OfferInv, ConnsOK
<1> QED BY <1>1, <1>2, <1>3, <1>4, <1>6, <1>7 DEF OfferInv

\* One event changes, and the cookies.
Becomes(s, o, e, cookies) == [s EXCEPT !.event[o] = e, !.cookies = cookies]

\* What that is, field by field
LEMMA BecomesIs ==
  ASSUME NEW s \in Program, NEW o \in Offers, NEW e \in Event, NEW cookies \in SUBSET Offers,
         NEW t, t = Becomes(s, o, e, cookies)
  PROVE  /\ t \in Program /\ t.dc = s.dc /\ t.list = s.list /\ t.out = s.out /\ t.cookies = cookies
         /\ t.event[o] = e /\ \A x \in Offers : x # o => t.event[x] = s.event[x]
<1>1. s.event \in [Offers -> Event]
  BY ProgramIs
<1>2. PICK ev : ev = [s.event EXCEPT ![o] = e]
  OBVIOUS
<1>3. ev \in [Offers -> Event] /\ ev[o] = e /\ \A x \in Offers : x # o => ev[x] = s.event[x]
  BY <1>1, <1>2
<1>4. t = [s EXCEPT !.event = ev, !.cookies = cookies]
  BY <1>2 DEF Becomes
<1>5. /\ t \in Program /\ t.event = ev /\ t.dc = s.dc /\ t.list = s.list /\ t.out = s.out
      /\ t.cookies = cookies
  BY <1>3, <1>4 DEF Program
<1> QED BY <1>3, <1>5

\* An offer that went by the server expires.
LEMMA CookieExpiresKeeps ==
  ASSUME OfferInv, NEW p \in Programs, NEW o \in Offers, CookieExpires(p, o)
  PROVE  OfferInv'
<1>1. PICK s : s = prog[p]
  OBVIOUS
<1>2. PICK an : an = answer
  OBVIOUS
<1>3. PICK wd : wd = withdrawn
  OBVIOUS
<1>4. PICK K : K = {}
  OBVIOUS
<1>5. PICK t : t = [SetState(s, o, "TIMEOUT") EXCEPT !.cookies = @ \ {o}]
  OBVIOUS
<1>6. o \in s.cookies /\ Reacts(p, t) /\ UNCHANGED <<from, server, answer, withdrawn>>
  BY <1>1, <1>5 DEF CookieExpires
<1>7. Amid(p, s, an, wd, K)
  BY <1>1, <1>3, StartAmid
<1>8. LocalOK(p, s, wd) /\ s \in Program /\ EventsOK(p, s, wd) /\ s.cookies \subseteq Offers /\ s.event[o] \in Event
  BY <1>7, ProgramIs DEF Amid, LocalOK
<1>9. PICK e : e = [s.event[o] EXCEPT !.state = "TIMEOUT"]
  OBVIOUS
<1>10. e \in Event /\ e.state = "TIMEOUT" /\ e.seq = s.event[o].seq /\ e.direct = s.event[o].direct
  BY <1>8, <1>9 DEF Event, EventStates
<1>11. PICK cookies \in SUBSET Offers : cookies = s.cookies \ {o}
  BY <1>8
<1>12. t = Becomes(s, o, e, cookies)
  BY <1>5, <1>8, <1>9, <1>11 DEF SetState, Becomes, Program
<1>13. /\ t \in Program /\ t.dc = s.dc /\ t.list = s.list /\ t.out = s.out /\ t.cookies = cookies
       /\ t.event[o] = e /\ \A x \in Offers : x # o => t.event[x] = s.event[x]
  BY <1>8, <1>10, <1>12, BecomesIs
<1>14. /\ Queued(s, o) => Waiting(p, s, wd, o)
       /\ Cached(s, o) => s.event[o].seq > 0 /\ s.event[o].direct
  BY <1>8, OfferIs
<1>15. ~Queued(s, o)
  BY <1>6, <1>14 DEF Waiting
<1>16. s.event[o].state # "none" /\ (from[o] = p => s.event[o].seq = 0)
  BY <1>6, <1>8 DEF EventsOK
<1>17. Turns(p, s, t, o, wd, wd, K)
  <2>1. /\ t.event[o].state = "TIMEOUT" /\ t.event[o].seq = s.event[o].seq
        /\ Cached(s, o) => t.event[o].direct
    BY <1>10, <1>13, <1>14
  <2>2. \A x \in Offers : x # o => (x \in t.cookies <=> x \in s.cookies)
    BY <1>11, <1>13
  <2>3. o \notin t.cookies
    BY <1>11, <1>13
  <2> QED BY <1>13, <1>15, <1>16, <2>1, <2>2, <2>3 DEF Turns
<1>18. /\ Amid(p, t, an, wd, K)
       /\ Honest(p, s, an, wd) /\ HonestAt(p, t, an, wd, o) => Honest(p, t, an, wd)
       /\ Open(p, s, an, wd) /\ OpenAt(p, t, an, wd, o) => Open(p, t, an, wd)
  BY <1>7, <1>17, TurnsKeeps
<1>19. t.event[o].state = "TIMEOUT"
  BY <1>10, <1>13
<1>20. HonestAt(p, t, an, wd, o)
  BY <1>19 DEF HonestAt
<1>21. ASSUME Open(p, s, an, wd) PROVE OpenAt(p, t, an, wd, o)
  <2>1. OpenAt(p, s, an, wd, o)
    BY <1>21 DEF Open
  <2>2. Cached(t, o) <=> Cached(s, o)
    BY <1>13, SameCached
  <2>3. from[o] = p => ~Cached(s, o)
    BY <1>14, <1>16
  <2> QED BY <1>19, <2>1, <2>2, <2>3 DEF OpenAt
<1>22. Kept(p, s, t, an, wd)
  BY <1>18, <1>20, <1>21 DEF Kept
<1> QED BY <1>1, <1>2, <1>3, <1>4, <1>6, <1>18, <1>22, QuietKeeps

\* An offer arrives by the server.
LEMMA ReceiveFromServerKeeps ==
  ASSUME OfferInv, NEW p \in Programs, NEW o \in Offers, ReceiveFromServer(p, o)
  PROVE  OfferInv'
<1>1. PICK s : s = prog[p]
  OBVIOUS
<1>2. PICK an : an = answer
  OBVIOUS
<1>3. PICK wd : wd = withdrawn
  OBVIOUS
<1>4. PICK K : K = {o}
  OBVIOUS
<1>5. PICK t : t = [Asked(s, o, 0, FALSE) EXCEPT !.cookies = @ \cup {o}]
  OBVIOUS
<1>6. /\ o \in server /\ from[o] # p /\ server' = server \ {o} /\ Reacts(p, t)
      /\ from' = from /\ answer' = an /\ withdrawn' = wd
  BY <1>1, <1>2, <1>3, <1>5 DEF ReceiveFromServer
<1>7. Amid(p, s, an, wd, K)
  BY <1>1, <1>3, StartAmid
<1>8. LocalOK(p, s, wd) /\ s \in Program /\ EventsOK(p, s, wd) /\ s.cookies \subseteq Offers /\ s.event[o] \in Event
  BY <1>7, ProgramIs DEF Amid, LocalOK
<1>9. PICK e : e = [state |-> "NOT_CONNECTED", seq |-> 0, direct |-> FALSE]
  OBVIOUS
<1>10. e \in Event /\ e.state = "NOT_CONNECTED" /\ e.seq = 0
  BY <1>9 DEF Event, EventStates
<1>11. PICK cookies \in SUBSET Offers : cookies = s.cookies \cup {o}
  BY <1>8
<1>12. t = Becomes(s, o, e, cookies)
  BY <1>5, <1>8, <1>9, <1>11 DEF Asked, Becomes, Program
<1>13. /\ t \in Program /\ t.dc = s.dc /\ t.list = s.list /\ t.out = s.out /\ t.cookies = cookies
       /\ t.event[o] = e /\ \A x \in Offers : x # o => t.event[x] = s.event[x]
  BY <1>8, <1>10, <1>12, BecomesIs
<1>14. Made(o).state # "none" /\ Made(o).seq = 0 /\ ~Queued(prog[from[o]], o)
  BY <1>6 DEF OfferInv, ServerOK
<1>15. s.event[o].seq = 0
  <2>1. from[o] \in Programs /\ p = Other(from[o])
    BY <1>6, OtherIs DEF OfferInv
  <2>2. Shown(o) = s.event[o]
    BY <1>1, <2>1 DEF Shown
  <2> QED BY <1>14, <2>2 DEF OfferInv, ShownOK
<1>16. ~Queued(s, o) /\ ~Cached(s, o)
  BY <1>6, <1>8, <1>15, OfferIs DEF Waiting
<1>17. Turns(p, s, t, o, wd, wd, K)
  <2>1. t.event[o].state = "NOT_CONNECTED" /\ t.event[o].seq = s.event[o].seq
    BY <1>10, <1>13, <1>15
  <2>2. \A x \in Offers : x # o => (x \in t.cookies <=> x \in s.cookies)
    BY <1>11, <1>13
  <2> QED BY <1>4, <1>6, <1>13, <1>16, <2>1, <2>2 DEF Turns
<1>18. /\ Amid(p, t, an, wd, K)
       /\ Honest(p, s, an, wd) /\ HonestAt(p, t, an, wd, o) => Honest(p, t, an, wd)
       /\ Open(p, s, an, wd) /\ OpenAt(p, t, an, wd, o) => Open(p, t, an, wd)
  BY <1>7, <1>17, TurnsKeeps
<1>19. HonestAt(p, t, an, wd, o)
  BY <1>6, <1>10, <1>13 DEF HonestAt
<1>20. OpenAt(p, t, an, wd, o)
  <2>1. ~Cached(t, o)
    BY <1>13, <1>16, SameCached
  <2> QED BY <1>6, <2>1 DEF OpenAt
<1>21. /\ Ambiguous \/ Honest(p, t, an, wd)
       /\ Ambiguous \/ Reconnected \/ Open(p, t, an, wd)
  BY <1>1, <1>2, <1>3, <1>18, <1>19, <1>20 DEF OfferInv
<1>22. Arrives(p, t, K)
  BY <1>4, <1>6, <1>10, <1>13, <1>14 DEF Arrives
<1>23. UserKeeps(p, t, an, wd) /\ ServerKeeps(p, t)
  <2>1. ServerKeeps(p, t)
    BY <1>6 DEF OfferInv, ServerOK, ServerKeeps
  <2> QED BY <1>2, <1>3, <2>1, UserSame
<1>24. Settle(p, t) /\ ChanKeeps(p, t, K)
  <2>1. PICK none : none = {}
    OBVIOUS
  <2>2. Settle(p, t) /\ ChanKeeps(p, t, none)
    BY <1>6, <1>13, <2>1, ReactsIs
  <2>3. ASSUME NEW c \in Conns, NEW i \in 1..Len(chan'[c][p]), chan'[c][p][i].type = "START",
               chan'[c][p][i].offer \in K
        PROVE  FALSE
    <3>1. Within(chan'[c][p], chan[c][p])
      BY <2>2 DEF ChanKeeps
    <3>2. PICK j \in 1..Len(chan[c][p]) : chan'[c][p][i] = chan[c][p][j]
      BY <3>1 DEF Within
    <3>3. PICK m : m = chan[c][p][j]
      OBVIOUS
    <3>4. Starts(p, m)
      BY <3>3 DEF OfferInv, StartsOK
    <3>5. m.type = "START" /\ m.offer = o
      BY <1>4, <2>3, <3>2, <3>3
    <3>6. m.seq = Made(o).seq /\ m.seq > 0
      BY <3>4, <3>5 DEF Starts
    <3> QED BY <1>14, <3>6
  <2>4. ChanKeeps(p, t, K)
    BY <2>2, <2>3 DEF ChanKeeps
  <2> QED BY <2>2, <2>4
<1>25. Ended(p, t, an, wd, K)
  BY <1>6, <1>18, <1>21, <1>22, <1>23, <1>24 DEF Ended
<1> QED BY <1>25, CallbackKeeps

-----------------------------------------------------------------------------
(* Commands of the users.                                                  *)

\* No other connection has offers in its cache.
Alone(w, c) == \A d \in Conns : d # c => \A i \in 1..Len(w.dc[d].cache) : FALSE

\* What ByContact finds is a connection that is open.
LEMMA ContactIs ==
  ASSUME NEW p, NEW s \in Program, NEW u, u = ByContact(s, p)
  PROVE  /\ u \in Seq(Conns) /\ ToSet(u) \subseteq ToSet(s.list)
         /\ \A c \in ToSet(s.list) : s.dc[c].state = "CONNECTED" => c \in ToSet(u)
         /\ u # <<>> => u[1] \in ToSet(u) /\ u[1] \in Conns
         /\ u = <<>> => ToSet(u) = {}
<1>1. PICK known : known = {c \in Conns : caller[c] = p \/ s.dc[c].state = "CONNECTED"}
  OBVIOUS
<1>2. PICK list \in Seq(Conns) : list = s.list
  BY ProgramIs
<1>3. u = Only(list, known)
  BY <1>1, <1>2 DEF ByContact
<1>4. u \in Seq(Conns) /\ ToSet(u) = ToSet(list) \cap known
  BY <1>3, OnlyIs, OnlySet
<1>5. ToSet(list) \subseteq Conns
  BY <1>2, InSet
<1>6. ASSUME u # <<>> PROVE u[1] \in ToSet(u) /\ u[1] \in Conns
  <2>1. 1 \in 1..Len(u)
    BY <1>4, <1>6
  <2>2. u[1] \in ToSet(u)
    BY <1>4, <2>1, InSet
  <2> QED BY <1>4, <1>5, <2>2
<1>7. ASSUME u = <<>> PROVE ToSet(u) = {}
  <2>1. ASSUME NEW x \in ToSet(u) PROVE FALSE
    <3>1. PICK i \in 1..Len(u) : x = u[i]
      BY <1>4, <2>1, InSet
    <3> QED BY <1>7, <3>1
  <2> QED BY <2>1
<1> QED BY <1>1, <1>2, <1>4, <1>5, <1>6, <1>7

\* Before a second connection is tried, only the one in use has a state.
LEMMA OnlyOne ==
  ASSUME OfferInv, ~Reconnected, NEW p \in Programs, NEW c \in Conns, prog[p].dc[c].state # "none"
  PROVE  \A d \in Conns : d # c => prog[p].dc[d].state = "none"
<1>1. ConnsOK
  BY DEF OfferInv
<1>2. PICK n \in Nat : Used = 1..n /\ Cardinality(Used) = n
  BY <1>1, UsedIs
<1>3. n \in {0, 1}
  BY <1>2 DEF Reconnected
<1>4. c \in Used
  BY <1>1 DEF ConnsOK, Used
<1>5. \A d \in Conns : d # c => d \notin Used
  BY <1>2, <1>3, <1>4
<1> QED BY <1>1, <1>5 DEF ConnsOK, Used

\* What ConnectDirect has done, and the connection it uses
Reaches(p, s, w, c, an, wd, K) ==
    /\ Amid(p, w, an, wd, K) /\ Kept(p, s, w, an, wd)
    /\ w.event = s.event /\ w.cookies = s.cookies /\ w.out = s.out
    /\ w.dc[c].state \notin {"none", "closed"}
    /\ \A o : Queued(w, o) => Queued(s, o)
    /\ ~Reconnected => Alone(w, c)

\* That is so of ConnectDirect.
LEMMA ConnectingIs ==
  ASSUME OfferInv, NEW p \in Programs, NEW s, NEW an, NEW wd, NEW K, Amid(p, s, an, wd, K),
         s.dc = prog[p].dc, NEW way \in Connecting(s, p), NEW w, w = way.s, NEW c, c = way.conn
  PROVE  c \in Conns /\ Reaches(p, s, w, c, an, wd, K)
<1>1. LocalOK(p, s, wd) /\ s \in Program /\ Listed(s) /\ CachesOK(s)
  BY DEF Amid, LocalOK
<1>2. PICK u : u = ByContact(s, p)
  OBVIOUS
<1>3. /\ u \in Seq(Conns) /\ ToSet(u) \subseteq ToSet(s.list)
      /\ \A d \in ToSet(s.list) : s.dc[d].state = "CONNECTED" => d \in ToSet(u)
      /\ u # <<>> => u[1] \in ToSet(u) /\ u[1] \in Conns
      /\ u = <<>> => ToSet(u) = {}
  BY <1>1, <1>2, ContactIs
<1>4. \A d \in Conns : \A i \in 1..Len(s.dc[d].cache) : s.dc[d].state = "CONNECTED"
  BY <1>1 DEF CachesOK
<1>5. CASE u # <<>>
  <2>1. w = s /\ c = u[1]
    BY <1>2, <1>5 DEF Connecting
  <2>2. c \in Conns /\ s.dc[c].state \notin {"none", "closed"}
    BY <1>1, <1>3, <1>5, <2>1 DEF Listed
  <2>3. Kept(p, s, w, an, wd)
    BY <2>1 DEF Kept
  <2>4. ASSUME ~Reconnected PROVE Alone(w, c)
    <3>1. \A d \in Conns : d # c => s.dc[d].state = "none"
      BY <2>2, <2>4, OnlyOne
    <3> QED BY <1>4, <2>1, <3>1 DEF Alone
  <2> QED BY <2>1, <2>2, <2>3, <2>4 DEF Reaches
<1>6. CASE u = <<>>
  <2>1. PICK st \in {"connecting", "INIT"} : st = "connecting"
    OBVIOUS
  <2>2. PICK k \in {j \in Conns : j = Cardinality(Used) + 1} : way = [s |-> AddClient(s, k, "connecting"), conn |-> k]
    BY <1>2, <1>6 DEF Connecting
  <2>3. c = k /\ c \in Conns /\ c = Cardinality(Used) + 1 /\ w = AddClient(s, c, st)
    BY <2>1, <2>2
  <2>4. s.dc[c].state = "none"
    <3>1. ConnsOK
      BY DEF OfferInv
    <3>2. PICK n \in Nat : Used = 1..n /\ Cardinality(Used) = n
      BY <3>1, UsedIs
    <3>3. c \notin Used
      BY <2>3, <3>2
    <3> QED BY <2>3, <3>1, <3>3 DEF ConnsOK, Used
  <2>5. Shrinks(s, w) /\ w.event = s.event /\ w.dc[c].state = st
    BY <1>1, <2>3, <2>4, AddClientShrinks
  <2>6. Amid(p, w, an, wd, K) /\ Kept(p, s, w, an, wd)
    BY <2>5, ShrinksKeeps
  <2>7. \A d \in Conns : \A i \in 1..Len(s.dc[d].cache) : FALSE
    BY <1>1, <1>3, <1>4, <1>6 DEF Listed
  <2>8. Alone(w, c)
    <3>1. \A d \in Conns : Within(w.dc[d].cache, s.dc[d].cache)
      BY <2>5 DEF Shrinks
    <3> QED BY <2>7, <3>1 DEF Within, Alone
  <2>9. w.cookies = s.cookies /\ w.out = s.out
    BY <2>5 DEF Shrinks
  <2>10. \A o : Queued(w, o) => Queued(s, o)
    BY <2>5, ShrinksQueued
  <2> QED BY <2>1, <2>3, <2>5, <2>6, <2>8, <2>9, <2>10 DEF Reaches
<1> QED BY <1>5, <1>6

\* The offer is made.
AsMade(e, direct) == [e EXCEPT !.state = "WAIT_RESPONS", !.direct = direct]

\* What that is
LEMMA AsMadeIs ==
  ASSUME NEW x \in Event, NEW direct \in BOOLEAN, NEW e, e = AsMade(x, direct)
  PROVE  e \in Event /\ e.state = "WAIT_RESPONS" /\ e.seq = x.seq /\ (e.direct <=> direct)
BY DEF Event, EventStates, AsMade

\* In t the offer is made.
MadeNow(p, s, o, an, wd, K, cookies, e, t) ==
    /\ Amid(p, t, an, wd, K) /\ Kept(p, s, t, an, wd)
    /\ t.event[o] = e /\ e.seq = 0 /\ t.cookies = cookies /\ t.dc = s.dc
    /\ ~Queued(t, o) /\ Unsent(p, o) /\ o \notin s.cookies

\* The invariants of the callback hold then.
LEMMA OfferMade ==
  ASSUME OfferInv, NEW p \in Programs, NEW s, s = prog[p], NEW o \in Offers, from[o] = p, s.event[o].state = "none",
         NEW an, NEW wd, wd = withdrawn, NEW K,
         NEW cookies \in SUBSET Offers, cookies = s.cookies \/ cookies = s.cookies \cup {o},
         NEW e \in Event, e.state = "WAIT_RESPONS", e.seq = s.event[o].seq,
         NEW t, t = Becomes(s, o, e, cookies)
  PROVE  MadeNow(p, s, o, an, wd, K, cookies, e, t)
<1>1. Amid(p, s, an, wd, K)
  BY StartAmid
<1>2. LocalOK(p, s, wd) /\ s \in Program /\ EventsOK(p, s, wd) /\ s.event[o] \in Event
  BY <1>1, ProgramIs DEF Amid, LocalOK
<1>3. /\ t \in Program /\ t.dc = s.dc /\ t.list = s.list /\ t.out = s.out /\ t.cookies = cookies
      /\ t.event[o] = e /\ \A x \in Offers : x # o => t.event[x] = s.event[x]
  BY <1>2, BecomesIs
<1>4. s.event[o].seq = 0 /\ o \notin s.cookies /\ wd[o] = "no"
  BY <1>2 DEF EventsOK
<1>5. ~Queued(s, o) /\ ~Cached(s, o)
  BY <1>2, OfferIs DEF Waiting
<1>6. ~Queued(t, o) /\ ~Cached(t, o)
  <2>1. t.dc = s.dc
    BY <1>3
  <2>2. (Queued(t, o) <=> Queued(s, o)) /\ (Cached(t, o) <=> Cached(s, o))
    BY <2>1 DEF Queued, Cached
  <2> QED BY <1>5, <2>2
<1>7. Unsent(p, o)
  <2>1. Made(o) = s.event[o] /\ Shown(o) = prog[Other(p)].event[o]
    BY DEF Made, Shown
  <2>2. prog[Other(p)].event[o].state = "none"
    BY <2>1 DEF OfferInv, ShownOK
  <2>3. o \notin server
    BY <2>1 DEF OfferInv, ServerOK
  <2> QED BY <1>4, <2>2, <2>3 DEF Unsent
<1>8. t.event[o].state = "WAIT_RESPONS" /\ e.seq = 0 /\ t.event[o].seq = s.event[o].seq
  BY <1>3, <1>4
<1>9. Turns(p, s, t, o, wd, wd, K)
  <2>1. \A x \in Offers : x # o => (x \in t.cookies <=> x \in s.cookies)
    BY <1>3
  <2> QED BY <1>3, <1>4, <1>5, <1>8, <2>1 DEF Turns
<1>10. /\ Amid(p, t, an, wd, K)
       /\ Honest(p, s, an, wd) /\ HonestAt(p, t, an, wd, o) => Honest(p, t, an, wd)
       /\ Open(p, s, an, wd) /\ OpenAt(p, t, an, wd, o) => Open(p, t, an, wd)
  BY <1>1, <1>9, TurnsKeeps
<1>11. HonestAt(p, t, an, wd, o)
  BY <1>8 DEF HonestAt
<1>12. OpenAt(p, t, an, wd, o)
  BY <1>6, <1>8 DEF OpenAt
<1> QED BY <1>3, <1>4, <1>6, <1>7, <1>8, <1>10, <1>11, <1>12 DEF Kept, MadeNow

\* The user offers files.
LEMMA SendFileTransferKeeps ==
  ASSUME OfferInv, NEW p \in Programs, NEW o \in Offers, SendFileTransfer(p, o)
  PROVE  OfferInv'
<1>1. PICK s : s = prog[p]
  OBVIOUS
<1>2. PICK an : an = answer
  OBVIOUS
<1>3. PICK wd : wd = withdrawn
  OBVIOUS
<1>4. PICK K : K = {}
  OBVIOUS
<1> DEFINE waiting(direct) == [s EXCEPT !.event[o].state = "WAIT_RESPONS", !.event[o].direct = direct]
           viaServer(direct) == [waiting(direct) EXCEPT !.cookies = @ \cup {o}]
           Directly == \E way \in Connecting(waiting(TRUE), p) : \E same \in SameSecond(p, way.conn) :
                          Reacts(p, SendEvent(way.s, way.conn, o, same))
           ByServer == \E direct \in BOOLEAN : Reacts(p, viaServer(direct))
<1>5. from[o] = p /\ s.event[o].state = "none" /\ from' = from /\ answer' = an /\ withdrawn' = wd
  BY <1>1, <1>2, <1>3 DEF SendFileTransfer
<1>6. (Directly /\ server' = server) \/ (ByServer /\ server' = server \cup {o})
  BY <1>1 DEF SendFileTransfer
<1>7. s \in Program /\ s.cookies \subseteq Offers
  BY <1>1, ProgramIs DEF OfferInv
<1>8. s.event[o] \in Event
  BY <1>7, ProgramIs
<1>9. PICK yes \in BOOLEAN : yes = TRUE
  OBVIOUS
<1>10. CASE Directly /\ server' = server
  <2>1. PICK wait : wait = waiting(yes)
    OBVIOUS
  <2>2. PICK way \in Connecting(wait, p) : \E same \in SameSecond(p, way.conn) :
           Reacts(p, SendEvent(way.s, way.conn, o, same))
    BY <1>9, <1>10, <2>1
  <2>3. PICK same : Reacts(p, SendEvent(way.s, way.conn, o, same))
    BY <2>2
  <2>4. PICK w : w = way.s
    OBVIOUS
  <2>5. PICK c : c = way.conn
    OBVIOUS
  <2>6. PICK t : t = SendEvent(w, c, o, same)
    OBVIOUS
  <2>7. PICK e : e = AsMade(s.event[o], yes)
    OBVIOUS
  <2>8. e \in Event /\ e.state = "WAIT_RESPONS" /\ e.seq = s.event[o].seq /\ (e.direct <=> yes)
    BY <1>8, <2>7, AsMadeIs, Zenon
  <2>9. PICK cookies \in SUBSET Offers : cookies = s.cookies
    BY <1>7
  <2>10. wait = Becomes(s, o, e, cookies)
    BY <1>7, <2>1, <2>7, <2>9 DEF Becomes, Program, AsMade
  <2> HIDE DEF waiting, viaServer, Directly, ByServer
  <2>11. cookies = s.cookies \/ cookies = s.cookies \cup {o}
    BY <2>9
  <2>12. /\ Amid(p, wait, an, wd, K) /\ Kept(p, s, wait, an, wd)
         /\ wait.event[o] = e /\ e.seq = 0 /\ wait.cookies = cookies /\ wait.dc = s.dc
         /\ ~Queued(wait, o) /\ Unsent(p, o) /\ o \notin s.cookies
    <3>1. from[o] = p /\ s.event[o].state = "none"
      BY <1>5
    <3>2. e \in Event /\ e.state = "WAIT_RESPONS" /\ e.seq = s.event[o].seq
      BY <2>8, Zenon
    <3>3. MadeNow(p, s, o, an, wd, K, cookies, e, wait)
      BY <1>1, <1>3, <2>10, <2>11, <3>1, <3>2, OfferMade
    <3> QED BY <3>3, Zenon DEF MadeNow
  <2>13. c \in Conns /\ Reaches(p, wait, w, c, an, wd, K)
    <3>1. wait.dc = prog[p].dc
      BY <1>1, <2>12
    <3> QED BY <2>2, <2>4, <2>5, <2>12, <3>1, ConnectingIs
  <2>14. /\ Amid(p, w, an, wd, K) /\ Kept(p, wait, w, an, wd) /\ w.event = wait.event /\ w.cookies = wait.cookies
         /\ ~Queued(w, o)
    BY <2>12, <2>13 DEF Reaches
  <2>15. Ready(p, w, wd, o)
    <3>1. w.event[o] = e /\ o \notin w.cookies
      BY <2>9, <2>12, <2>14
    <3>2. e.direct
      BY <1>9, <2>8
    <3> QED BY <1>5, <2>8, <2>12, <2>14, <3>1, <3>2 DEF Ready, Waiting
  <2>16. Amid(p, t, an, wd, K) /\ Kept(p, w, t, an, wd)
    BY <2>6, <2>13, <2>14, <2>15, SendEventKeeps
  <2>17. Kept(p, s, w, an, wd)
    BY <2>12, <2>14, KeptTrans
  <2>18. Kept(p, s, t, an, wd)
    BY <2>16, <2>17, KeptTrans
  <2>19. Reacts(p, t)
    BY <2>3, <2>4, <2>5, <2>6
  <2>20. UNCHANGED <<from, server, answer, withdrawn>>
    BY <1>2, <1>3, <1>5, <1>10
  <2> QED BY <1>1, <1>2, <1>3, <1>4, <2>16, <2>18, <2>19, <2>20, QuietKeeps
<1>11. CASE ByServer /\ server' = server \cup {o}
  <2>1. PICK direct \in BOOLEAN : Reacts(p, viaServer(direct))
    BY <1>11
  <2>2. PICK t : t = viaServer(direct)
    OBVIOUS
  <2>3. PICK e : e = AsMade(s.event[o], direct)
    OBVIOUS
  <2>4. e \in Event /\ e.state = "WAIT_RESPONS" /\ e.seq = s.event[o].seq
    BY <1>8, <2>3, AsMadeIs, Zenon
  <2>5. PICK cookies \in SUBSET Offers : cookies = s.cookies \cup {o}
    BY <1>7
  <2>6. t = Becomes(s, o, e, cookies)
    BY <1>7, <2>2, <2>3, <2>5 DEF Becomes, Program, AsMade
  <2>7. Reacts(p, t)
    BY <2>1, <2>2
  <2> HIDE DEF waiting, viaServer, Directly, ByServer
  <2>8. cookies = s.cookies \/ cookies = s.cookies \cup {o}
    BY <2>5
  <2>9. /\ Amid(p, t, an, wd, K) /\ Kept(p, s, t, an, wd)
        /\ t.event[o] = e /\ e.seq = 0 /\ ~Queued(t, o)
    <3>1. from[o] = p /\ s.event[o].state = "none"
      BY <1>5
    <3>2. MadeNow(p, s, o, an, wd, K, cookies, e, t)
      BY <1>1, <1>3, <2>4, <2>6, <2>8, <3>1, OfferMade
    <3> QED BY <3>2, Zenon DEF MadeNow
  <2>10. ServerKeeps(p, t)
    <3>1. t.event[o].state = "WAIT_RESPONS" /\ t.event[o].seq = 0 /\ ~Queued(t, o)
      BY <2>4, <2>9
    <3> QED BY <1>5, <1>11, <3>1 DEF OfferInv, ServerOK, ServerKeeps
  <2>11. UserKeeps(p, t, an, wd)
    BY <1>2, <1>3, UserSame
  <2>12. /\ Ambiguous \/ Honest(p, t, an, wd)
         /\ Ambiguous \/ Reconnected \/ Open(p, t, an, wd)
    BY <1>1, <1>2, <1>3, <2>9 DEF OfferInv, Kept
  <2> QED BY <1>4, <1>5, <2>7, <2>9, <2>10, <2>11, <2>12, ReactsKeeps
<1> HIDE DEF waiting, viaServer, Directly, ByServer
<1> QED BY <1>6, <1>10, <1>11

\* A new state of the event
Replied(u, v, o, st) ==
    /\ v \in Program /\ v.dc = u.dc /\ v.list = u.list /\ v.out = u.out /\ v.cookies = u.cookies
    /\ \A x \in Offers : x # o => v.event[x] = u.event[x]
    /\ v.event[o].state = st /\ v.event[o].seq = u.event[o].seq
    /\ v.event[o].direct <=> u.event[o].direct

\* That is what SetState does.
LEMMA RepliedIs ==
  ASSUME NEW u \in Program, NEW o \in Offers, NEW st \in EventStates, NEW v, v = SetState(u, o, st)
  PROVE  Replied(u, v, o, st)
<1>1. u.event[o] \in Event /\ u.cookies \subseteq Offers
  BY ProgramIs
<1>2. PICK e : e = [u.event[o] EXCEPT !.state = st]
  OBVIOUS
<1>3. e \in Event /\ e.state = st /\ e.seq = u.event[o].seq /\ (e.direct <=> u.event[o].direct)
  BY <1>1, <1>2 DEF Event
<1>4. PICK cookies \in SUBSET Offers : cookies = u.cookies
  BY <1>1
<1>5. v = Becomes(u, o, e, cookies)
  BY <1>1, <1>2, <1>4 DEF SetState, Becomes, Program
<1>6. e \in Event
  BY <1>3, Zenon
<1>7. /\ v \in Program /\ v.dc = u.dc /\ v.list = u.list /\ v.out = u.out /\ v.cookies = cookies
      /\ v.event[o] = e /\ \A x \in Offers : x # o => v.event[x] = u.event[x]
  BY <1>5, <1>6, BecomesIs
<1>8. /\ v.event[o].state = st /\ v.event[o].seq = u.event[o].seq
      /\ v.event[o].direct <=> u.event[o].direct
  BY <1>3, <1>7, Zenon
<1> QED BY <1>4, <1>7, <1>8, Zenon DEF Replied

\* The offer has left the cache, as far as the numbers tell which it is.
LetsGo(p, s, u, o, an, wd, K) ==
    /\ Amid(p, u, an, wd, K) /\ Kept(p, s, u, an, wd) /\ u.out = s.out
    /\ u.event[o].seq = s.event[o].seq /\ u.event[o].state # "none"
    /\ Queued(u, o) => Queued(s, o)
    /\ ~Ambiguous /\ ~Reconnected => ~Cached(u, o)

\* It has if its cache became smaller and it is not in it,
LEMMA ShrinksLetsGo ==
  ASSUME NEW p, NEW s, NEW an, NEW wd, NEW K, NEW w, NEW c, Reaches(p, s, w, c, an, wd, K),
         NEW o \in Offers, s.event[o].state # "none", NEW u, Shrinks(w, u),
         ~Ambiguous /\ ~Reconnected => ~Cached(u, o)
  PROVE  LetsGo(p, s, u, o, an, wd, K)
<1>1. Amid(p, w, an, wd, K) /\ Kept(p, s, w, an, wd) /\ w.event = s.event /\ w.out = s.out
  BY DEF Reaches
<1>2. Amid(p, u, an, wd, K) /\ Kept(p, w, u, an, wd)
  BY <1>1, ShrinksKeeps
<1>3. Kept(p, s, u, an, wd)
  BY <1>1, <1>2, KeptTrans
<1>4. u.event[o] = w.event[o] \/ Expired(w, u, o)
  BY DEF Shrinks
<1>5. u.event[o].seq = s.event[o].seq /\ u.event[o].state # "none"
  BY <1>1, <1>4 DEF Expired
<1>6. u.out = s.out
  BY <1>1 DEF Shrinks
<1>7. Queued(u, o) => Queued(s, o)
  BY ShrinksQueued DEF Reaches
<1> QED BY <1>2, <1>3, <1>5, <1>6, <1>7 DEF LetsGo

\* if the connection ended,
LEMMA DisconnectLetsGo ==
  ASSUME NEW p, NEW s, NEW an, NEW wd, NEW K, NEW w, NEW c \in Conns, Reaches(p, s, w, c, an, wd, K),
         NEW o \in Offers, s.event[o].state # "none", NEW u, u = Disconnect(w, c)
  PROVE  LetsGo(p, s, u, o, an, wd, K)
<1>1. LocalOK(p, w, wd) /\ w.dc[c].state # "none" /\ (~Reconnected => Alone(w, c))
  BY DEF Reaches, Amid
<1>2. Shrinks(w, u) /\ u.dc[c].state = "closed" /\ \A d \in Conns : d # c => u.dc[d] = w.dc[d]
  BY <1>1, DisconnectShrinks
<1>3. \A i \in 1..Len(u.dc[c].cache) : FALSE
  BY <1>2 DEF Shrinks
<1>4. ASSUME ~Reconnected PROVE ~Cached(u, o)
  BY <1>1, <1>2, <1>3, <1>4 DEF Cached, Alone
<1> QED BY <1>2, <1>4, ShrinksLetsGo

\* or if it was removed by its number.
LEMMA RemovedLetsGo ==
  ASSUME NEW p, NEW s, NEW an, NEW wd, NEW K, NEW w, NEW c \in Conns, Reaches(p, s, w, c, an, wd, K),
         NEW o \in Offers, s.event[o].state # "none",
         NEW new \in Seq(Entry), Within(new, w.dc[c].cache), ~Ambiguous => Lacks(new, o),
         NEW u, u = Removed(w, c, new)
  PROVE  LetsGo(p, s, u, o, an, wd, K)
<1>1. LocalOK(p, w, wd) /\ w.dc[c].state # "none" /\ (~Reconnected => Alone(w, c))
  BY DEF Reaches, Amid
<1>2. Shrinks(w, u) /\ u.dc[c].cache = new /\ \A d \in Conns : d # c => u.dc[d] = w.dc[d]
  BY <1>1, RemovedShrinks
<1>3. ASSUME ~Reconnected, ~Ambiguous PROVE ~Cached(u, o)
  BY <1>1, <1>2, <1>3 DEF Cached, Alone, Lacks
<1> QED BY <1>2, <1>3, ShrinksLetsGo

\* Where nothing is done with a connection
LEMMA SameLetsGo ==
  ASSUME OfferInv, NEW p \in Programs, NEW s, s = prog[p], NEW an, NEW wd, wd = withdrawn, NEW K,
         NEW o \in Offers, s.event[o].state # "none", ~s.event[o].direct \/ ByContact(s, p) = <<>>
  PROVE  LetsGo(p, s, s, o, an, wd, K)
<1>1. Amid(p, s, an, wd, K)
  BY StartAmid
<1>2. LocalOK(p, s, wd) /\ s \in Program /\ Listed(s) /\ CachesOK(s)
  BY <1>1 DEF Amid, LocalOK
<1>3. ASSUME Cached(s, o) PROVE FALSE
  <2>1. s.event[o].direct
    BY <1>2, <1>3, OfferIs
  <2>2. PICK u : u = ByContact(s, p)
    OBVIOUS
  <2>3. u = <<>>
    BY <2>1, <2>2
  <2>4. \A c \in ToSet(s.list) : s.dc[c].state # "CONNECTED"
    BY <1>2, <2>2, <2>3, ContactIs
  <2>5. \A c \in Conns : \A i \in 1..Len(s.dc[c].cache) : FALSE
    BY <1>2, <2>4 DEF Listed, CachesOK
  <2> QED BY <1>3, <2>5 DEF Cached
<1>4. Kept(p, s, s, an, wd)
  BY DEF Kept
<1> QED BY <1>1, <1>3, <1>4 DEF LetsGo

\* What SendFTACK and SendFTCancel take out of the cache
Others(cache, n) == Only(cache, {entry \in ToSet(cache) : entry.seq # n})

\* The offer is not among them,
LEMMA OthersLack ==
  ASSUME NEW p, NEW w, NEW wd, LocalOK(p, w, wd), NEW c \in Conns, NEW o \in Offers,
         NEW n, n = w.event[o].seq, NEW cache, cache = w.dc[c].cache, NEW new, new = Others(cache, n)
  PROVE  new \in Seq(Entry) /\ Within(new, cache) /\ Lacks(new, o)
<1>1. cache \in Seq(Entry)
  BY ProgramIs DEF LocalOK
<1>2. PICK kept : kept = {entry \in ToSet(cache) : entry.seq # n}
  OBVIOUS
<1>3. new = Only(cache, kept)
  BY <1>2 DEF Others
<1>4. new \in Seq(Entry) /\ Picks(new, cache, kept, Len(cache))
  BY <1>1, <1>3, OnlyIs
<1>5. Within(new, cache)
  BY <1>1, <1>3, WithinOnly
<1>6. ASSUME NEW i \in 1..Len(new), new[i].offer = o PROVE FALSE
  <2>1. PICK k \in 1..Len(cache) : new[i] = cache[k] /\ cache[k] \in kept
    BY <1>4 DEF Picks
  <2>2. EntryOK(w, cache[k])
    BY <2>1 DEF LocalOK, CachesOK
  <2>3. cache[k].offer = o
    BY <1>6, <2>1
  <2>4. cache[k].seq = n
    BY <2>2, <2>3 DEF EntryOK
  <2>5. cache[k].seq # n
    BY <1>2, <2>1
  <2> QED BY <2>4, <2>5
<1> QED BY <1>4, <1>5, <1>6 DEF Lacks

\* nor if only the first of its number is taken out.
LEMMA WithoutLacks ==
  ASSUME OfferInv, NEW p \in Programs, NEW w, NEW wd, LocalOK(p, w, wd), w.event = prog[p].event,
         NEW c \in Conns, NEW o \in Offers, from[o] = p,
         NEW n, n = w.event[o].seq, NEW cache, cache = w.dc[c].cache, NEW new, new = Without(cache, n)
  PROVE  new \in Seq(Entry) /\ Within(new, cache) /\ (~Ambiguous => Lacks(new, o))
<1>1. cache \in Seq(Entry) /\ w \in Program
  BY ProgramIs DEF LocalOK
<1>2. \A k \in 1..Len(cache) : EntryOK(w, cache[k])
  BY DEF LocalOK, CachesOK
<1>3. \A i, j \in 1..Len(cache) : cache[i].offer = cache[j].offer => i = j
  BY DEF LocalOK, CachesOK
<1>4. CASE Exists(cache, n)
  <2>1. PICK x : x = Lookup(cache, n)
    OBVIOUS
  <2>2. /\ new \in Seq(Entry) /\ Within(new, cache)
        /\ \E k \in 1..Len(cache) : cache[k].seq = n /\ cache[k].offer = x
        /\ \A i \in 1..Len(new) : new[i].offer # x
    BY <1>1, <1>3, <1>4, <2>1, WithoutIs
  <2>3. PICK k \in 1..Len(cache) : cache[k].seq = n /\ cache[k].offer = x
    BY <2>2
  <2>4. w.event[x].seq = n /\ n > 0
    BY <1>2, <2>3 DEF EntryOK
  <2>5. x \in Offers /\ n \in Nat
    <3>1. cache[k] \in Entry
      BY <1>1
    <3> QED BY <2>3, <3>1 DEF Entry
  <2>6. Made(o).seq = n
    BY DEF Made
  <2>7. Made(x).seq = n
    <3>1. CASE from[x] = p
      BY <2>4, <3>1 DEF Made
    <3>2. CASE from[x] # p
      <4>1. p = Other(from[x])
        BY <2>5, <3>2, OtherIs DEF OfferInv
      <4>2. Shown(x).seq = n
        BY <2>4, <4>1 DEF Shown
      <4> QED BY <2>4, <2>5, <4>2 DEF OfferInv, ShownOK
    <3> QED BY <3>1, <3>2
  <2>8. ASSUME ~Ambiguous PROVE x = o
    BY <2>4, <2>5, <2>6, <2>7, <2>8, NamedIs
  <2> QED BY <2>2, <2>8 DEF Lacks
<1>5. CASE ~Exists(cache, n)
  <2>1. new = cache
    BY <1>1, <1>5, WithoutSame
  <2>2. ASSUME NEW i \in 1..Len(cache), cache[i].offer = o PROVE FALSE
    <3>1. cache[i].seq = n
      BY <1>2, <2>2 DEF EntryOK
    <3>2. i \in DOMAIN cache
      BY <1>1
    <3> QED BY <1>5, <3>1, <3>2 DEF Exists
  <2> QED BY <1>1, <2>1, <2>2, WithinSelf DEF Lacks
<1> QED BY <1>4, <1>5

\* The order in which the code sends, forgets and changes the state does not matter.
SentFirst(w, c, new, m) == [Send(w, c, m) EXCEPT !.dc[c].cache = new]

\* The two are the same.
LEMMA Reordered ==
  ASSUME NEW w \in Program, NEW c \in Conns, NEW new, NEW m, NEW o \in Offers, NEW st
  PROVE  SetState(SentFirst(w, c, new, m), o, st) = Send(SetState(Removed(w, c, new), o, st), c, m)
<1>1. PICK ev : ev = [w.event EXCEPT ![o].state = st]
  OBVIOUS
<1>2. PICK dc : dc = [w.dc EXCEPT ![c].cache = new]
  OBVIOUS
<1>3. PICK out : out = Append(w.out, <<c, m>>)
  OBVIOUS
<1>4. SetState(SentFirst(w, c, new, m), o, st) = [w EXCEPT !.event = ev, !.dc = dc, !.out = out]
  BY <1>1, <1>2, <1>3 DEF SetState, SentFirst, Send, Program
<1>5. Send(SetState(Removed(w, c, new), o, st), c, m) = [w EXCEPT !.event = ev, !.dc = dc, !.out = out]
  BY <1>1, <1>2, <1>3 DEF SetState, Removed, Send, Program
<1> QED BY <1>4, <1>5

\* What has become of the program when the user has cancelled the offer
LEMMA CancelTurn ==
  ASSUME OfferInv, NEW p \in Programs, NEW s, s = prog[p], NEW an, an = answer, NEW wd, wd = withdrawn,
         NEW K, K = {}, NEW o \in Offers, from[o] = p, NEW u, LetsGo(p, s, u, o, an, wd, K),
         NEW vd, vd[o] = (IF Queued(s, o) THEN "queued" ELSE "yes"), \A x \in Offers : x # o => vd[x] = wd[x],
         NEW st \in {"NOT_CONNECTED", "ERROR"}, NEW v, v = SetState(u, o, st)
  PROVE  /\ Amid(p, v, an, vd, K)
         /\ Ambiguous \/ Honest(p, v, an, vd)
         /\ Ambiguous \/ Reconnected \/ Open(p, v, an, vd)
         /\ v.event[o].seq = s.event[o].seq
<1>1. /\ Amid(p, u, an, wd, K) /\ Kept(p, s, u, an, wd)
      /\ u.event[o].seq = s.event[o].seq /\ u.event[o].state # "none"
      /\ Queued(u, o) => Queued(s, o)
      /\ ~Ambiguous /\ ~Reconnected => ~Cached(u, o)
  BY DEF LetsGo
<1>2. LocalOK(p, u, wd) /\ u \in Program /\ EventsOK(p, u, wd)
  BY <1>1 DEF Amid, LocalOK
<1>3. Replied(u, v, o, st)
  <2>1. st \in EventStates
    BY DEF EventStates
  <2> QED BY <1>2, <2>1, RepliedIs
<1>4. /\ v \in Program /\ v.dc = u.dc /\ v.list = u.list /\ v.out = u.out /\ v.cookies = u.cookies
      /\ \A x \in Offers : x # o => v.event[x] = u.event[x]
      /\ v.event[o].state = st /\ v.event[o].seq = u.event[o].seq
  BY <1>3, Zenon DEF Replied
<1>5. /\ Queued(u, o) => u.event[o].direct /\ o \notin u.cookies
      /\ Cached(u, o) => u.event[o].direct
  BY <1>2, OfferIs, Zenon DEF Waiting
<1>6. /\ Queued(u, o) => v.event[o].direct /\ o \notin u.cookies
      /\ Cached(u, o) => v.event[o].direct
  BY <1>3, <1>5, Zenon DEF Replied
<1>7. Turns(p, u, v, o, wd, vd, K)
  <2>1. \A x \in Offers : x # o => /\ v.event[x] = u.event[x] /\ vd[x] = wd[x]
                                   /\ x \in v.cookies <=> x \in u.cookies
    BY <1>4
  <2>2. Queued(u, o) => vd[o] = "queued"
    BY <1>1
  <2>3. vd[o] # "no" /\ v.event[o].state # "WAIT_RESPONS" /\ v.event[o].state # "none"
    BY <1>4
  <2>4. o \in v.cookies => v.event[o].seq = 0
    BY <1>2, <1>4 DEF EventsOK
  <2> QED BY <1>1, <1>4, <1>6, <2>1, <2>2, <2>3, <2>4 DEF Turns
<1>8. /\ Amid(p, v, an, vd, K)
      /\ Honest(p, u, an, wd) /\ HonestAt(p, v, an, vd, o) => Honest(p, v, an, vd)
      /\ Open(p, u, an, wd) /\ OpenAt(p, v, an, vd, o) => Open(p, v, an, vd)
  BY <1>1, <1>7, TurnsKeeps
<1>9. HonestAt(p, v, an, vd, o)
  BY <1>4 DEF HonestAt
<1>10. ASSUME ~Ambiguous, ~Reconnected PROVE OpenAt(p, v, an, vd, o)
  <2>1. ~Cached(v, o)
    BY <1>1, <1>4, <1>10, SameCached
  <2> QED BY <1>4, <2>1 DEF OpenAt
<1>11. Ambiguous \/ Honest(p, v, an, vd)
  BY <1>1, <1>8, <1>9 DEF OfferInv, Kept
<1>12. Ambiguous \/ Reconnected \/ Open(p, v, an, vd)
  BY <1>1, <1>8, <1>10 DEF OfferInv, Kept
<1> QED BY <1>1, <1>4, <1>8, <1>11, <1>12

\* The end of the command
CancelEnd(p, o, t, vd) ==
    /\ Reacts(p, t) /\ withdrawn' = vd /\ from' = from /\ server' = server /\ answer' = answer
    /\ vd \in [Offers -> Withdrawals]
    /\ vd[o] # "no" /\ \A x \in Offers : x # o => vd[x] = withdrawn[x]

\* Then the invariant holds,
LEMMA CancelEnds ==
  ASSUME OfferInv, NEW p \in Programs, NEW an, an = answer, NEW K, K = {}, NEW o \in Offers, from[o] = p,
         NEW vd, NEW t, Amid(p, t, an, vd, K),
         Ambiguous \/ Honest(p, t, an, vd), Ambiguous \/ Reconnected \/ Open(p, t, an, vd),
         CancelEnd(p, o, t, vd)
  PROVE  OfferInv'
<1>1. /\ Reacts(p, t) /\ withdrawn' = vd /\ from' = from /\ server' = server /\ answer' = an
      /\ vd \in [Offers -> Withdrawals]
      /\ vd[o] # "no" /\ \A x \in Offers : x # o => vd[x] = withdrawn[x]
  BY DEF CancelEnd
<1>2. UserKeeps(p, t, an, vd)
  BY <1>1 DEF OfferInv, UserKeeps, Answers
<1>3. ServerKeeps(p, t)
  BY <1>1, ServerSame
<1> QED BY <1>1, <1>2, <1>3, ReactsKeeps

\* with or without a cancellation sent.
LEMMA CancelSent ==
  ASSUME OfferInv, NEW p \in Programs, NEW an, an = answer, NEW K, K = {}, NEW o \in Offers, from[o] = p,
         NEW vd, NEW v, Amid(p, v, an, vd, K),
         Ambiguous \/ Honest(p, v, an, vd), Ambiguous \/ Reconnected \/ Open(p, v, an, vd),
         NEW c \in Conns, NEW m \in Message, m.type = "CANCEL", m.seq = v.event[o].seq,
         NEW t, t = Send(v, c, m), CancelEnd(p, o, t, vd)
  PROVE  OfferInv'
<1>1. MaySend(p, v, an, vd, m)
  BY DEF MaySend, MayCancel, CancelEnd
<1>2. Amid(p, t, an, vd, K) /\ Kept(p, v, t, an, vd)
  BY <1>1, SendKeeps
<1>3. /\ Ambiguous \/ Honest(p, t, an, vd)
      /\ Ambiguous \/ Reconnected \/ Open(p, t, an, vd)
  BY <1>2 DEF Kept
<1> QED BY <1>2, <1>3, CancelEnds

\* The user cancels the offer.
LEMMA CancelFileTransferKeeps ==
  ASSUME OfferInv, NEW p \in Programs, NEW o \in Offers, CancelFileTransfer(p, o)
  PROVE  OfferInv'
<1>1. PICK s : s = prog[p]
  OBVIOUS
<1>2. PICK an : an = answer
  OBVIOUS
<1>3. PICK wd : wd = withdrawn
  OBVIOUS
<1>4. PICK K : K = {}
  OBVIOUS
<1>5. PICK vd : vd = [withdrawn EXCEPT ![o] = IF Queued(s, o) THEN "queued" ELSE "yes"]
  OBVIOUS
<1> DEFINE Over(t) == SetState(t, o, "NOT_CONNECTED")
           Said == \E way \in Connecting(s, p) : Reacts(p, Over(SendFTCancel(way.s, way.conn, o)))
           Unheard == s.event[o].direct /\ ByContact(s, p) = <<>> /\ Reacts(p, SetState(s, o, "ERROR"))
           Unsaid == ~s.event[o].direct /\ Reacts(p, Over(s))
<1>6. from[o] = p /\ s.event[o].state = "WAIT_RESPONS"
  BY <1>1 DEF CancelFileTransfer
<1>7. Said \/ Unheard \/ Unsaid
  BY <1>1 DEF CancelFileTransfer
<1>8. s \in Program
  BY <1>1 DEF OfferInv
<1>9. withdrawn' = vd /\ from' = from /\ server' = server /\ answer' = answer
  <2>1. (\E c \in Conns : o \in ToSet(s.dc[c].queue)) <=> Queued(s, o)
    <3>1. \A c \in Conns : s.dc[c].queue \in Seq(Offers)
      BY <1>8, ProgramIs
    <3>2. \A c \in Conns : o \in ToSet(s.dc[c].queue) <=> \E i \in 1..Len(s.dc[c].queue) : s.dc[c].queue[i] = o
      BY <3>1, InSet
    <3> QED BY <3>2 DEF Queued
  <2>2. withdrawn' = [withdrawn EXCEPT ![o] = IF \E c \in Conns : o \in ToSet(s.dc[c].queue) THEN "queued" ELSE "yes"]
    BY <1>1 DEF CancelFileTransfer
  <2> QED BY <1>5, <2>1, <2>2 DEF CancelFileTransfer
<1>10. /\ vd \in [Offers -> Withdrawals] /\ vd[o] = (IF Queued(s, o) THEN "queued" ELSE "yes")
       /\ \A x \in Offers : x # o => vd[x] = withdrawn[x]
  BY <1>5 DEF OfferInv, Withdrawals
<1>11. ASSUME NEW t, Reacts(p, t) PROVE CancelEnd(p, o, t, vd)
  BY <1>9, <1>10, <1>11 DEF CancelEnd
<1>12. ASSUME NEW u, LetsGo(p, s, u, o, an, wd, K), NEW st \in {"NOT_CONNECTED", "ERROR"}, NEW v, v = SetState(u, o, st)
       PROVE  /\ Amid(p, v, an, vd, K)
              /\ Ambiguous \/ Honest(p, v, an, vd)
              /\ Ambiguous \/ Reconnected \/ Open(p, v, an, vd)
              /\ v.event[o].seq = s.event[o].seq
  <2>1. vd[o] = (IF Queued(s, o) THEN "queued" ELSE "yes") /\ \A x \in Offers : x # o => vd[x] = wd[x]
    BY <1>3, <1>10
  <2> QED BY <1>1, <1>2, <1>3, <1>4, <1>6, <1>12, <2>1, CancelTurn
<1>13. Amid(p, s, an, wd, K) /\ s.event[o].state # "none"
  BY <1>1, <1>3, <1>6, StartAmid
<1>14. PICK st \in {"NOT_CONNECTED", "ERROR"} : st = "NOT_CONNECTED"
  OBVIOUS
<1>15. CASE Said
  <2>1. PICK way \in Connecting(s, p) : Reacts(p, Over(SendFTCancel(way.s, way.conn, o)))
    BY <1>15
  <2>2. PICK w : w = way.s
    OBVIOUS
  <2>3. PICK c : c = way.conn
    OBVIOUS
  <2>4. PICK t : t = SetState(SendFTCancel(w, c, o), o, st)
    OBVIOUS
  <2>5. Reacts(p, t)
    BY <1>14, <2>1, <2>2, <2>3, <2>4
  <2> HIDE DEF Over, Said, Unheard, Unsaid
  <2>6. c \in Conns /\ Reaches(p, s, w, c, an, wd, K)
    BY <1>1, <1>13, <2>1, <2>2, <2>3, ConnectingIs
  <2>7. LocalOK(p, w, wd) /\ w \in Program /\ w.event = s.event
    BY <2>6 DEF Reaches, Amid, LocalOK
  <2>8. CancelEnd(p, o, t, vd)
    BY <1>11, <2>5
  <2>9. CASE w.dc[c].state = "connecting"
    <3>1. PICK u : u = Disconnect(w, c)
      OBVIOUS
    <3>2. t = SetState(u, o, st)
      BY <2>4, <2>9, <3>1 DEF SendFTCancel
    <3>3. LetsGo(p, s, u, o, an, wd, K)
      BY <1>13, <2>6, <3>1, DisconnectLetsGo
    <3>4. /\ Amid(p, t, an, vd, K)
          /\ Ambiguous \/ Honest(p, t, an, vd)
          /\ Ambiguous \/ Reconnected \/ Open(p, t, an, vd)
      BY <1>12, <3>2, <3>3
    <3> QED BY <1>2, <1>4, <1>6, <2>8, <3>4, CancelEnds
  <2>10. CASE w.dc[c].state # "connecting"
    <3>1. PICK n : n = w.event[o].seq
      OBVIOUS
    <3>2. PICK cache : cache = w.dc[c].cache
      OBVIOUS
    <3>3. PICK new : new = Without(cache, n)
      OBVIOUS
    <3>4. PICK m : m = [type |-> "CANCEL", seq |-> n]
      OBVIOUS
    <3>5. n \in Nat
      BY <2>7, <3>1, ProgramIs
    <3>6. m \in Message /\ m.type = "CANCEL" /\ m.seq = n
      BY <3>4, <3>5 DEF Message
    <3>7. PICK u : u = Removed(w, c, new)
      OBVIOUS
    <3>8. PICK v : v = SetState(u, o, st)
      OBVIOUS
    <3>9. SendFTCancel(w, c, o) = SentFirst(w, c, new, m)
      BY <2>7, <2>10, <3>1, <3>2, <3>3, <3>4 DEF SendFTCancel, SentFirst, Send, Program
    <3>10. t = Send(v, c, m)
      BY <2>4, <2>6, <2>7, <3>7, <3>8, <3>9, Reordered
    <3>11. new \in Seq(Entry) /\ Within(new, cache) /\ (~Ambiguous => Lacks(new, o))
      BY <1>1, <1>6, <2>6, <2>7, <3>1, <3>2, <3>3, WithoutLacks
    <3>12. LetsGo(p, s, u, o, an, wd, K)
      BY <1>13, <2>6, <3>2, <3>7, <3>11, RemovedLetsGo
    <3>13. /\ Amid(p, v, an, vd, K)
           /\ Ambiguous \/ Honest(p, v, an, vd)
           /\ Ambiguous \/ Reconnected \/ Open(p, v, an, vd)
           /\ v.event[o].seq = s.event[o].seq
      BY <1>12, <3>8, <3>12
    <3>14. m.seq = v.event[o].seq
      BY <2>7, <3>1, <3>6, <3>13
    <3> QED BY <1>2, <1>4, <1>6, <2>6, <2>8, <3>6, <3>10, <3>13, <3>14, CancelSent
  <2> QED BY <2>9, <2>10
<1>16. ASSUME NEW e \in {"NOT_CONNECTED", "ERROR"}, NEW t, t = SetState(s, o, e), Reacts(p, t),
              ~s.event[o].direct \/ ByContact(s, p) = <<>>
       PROVE  OfferInv'
  <2>1. LetsGo(p, s, s, o, an, wd, K)
    BY <1>1, <1>3, <1>13, <1>16, SameLetsGo
  <2>2. /\ Amid(p, t, an, vd, K)
        /\ Ambiguous \/ Honest(p, t, an, vd)
        /\ Ambiguous \/ Reconnected \/ Open(p, t, an, vd)
    BY <1>12, <1>16, <2>1
  <2>3. CancelEnd(p, o, t, vd)
    BY <1>11, <1>16
  <2> QED BY <1>2, <1>4, <1>6, <2>2, <2>3, CancelEnds
<1>17. CASE Unheard
  BY <1>16, <1>17
<1>18. CASE Unsaid
  BY <1>16, <1>18
<1> QED BY <1>7, <1>15, <1>17, <1>18

\* What has become of the program when the user has answered
ElsewhereSame(an, old, o) == \A x \in Offers : x # o => an[x] = old[x]

\* What has become of the program when the user has answered
Answered(p, s, v, o, an, wd, K) ==
    /\ Amid(p, v, an, wd, K)
    /\ Ambiguous \/ Honest(p, v, an, wd)
    /\ Ambiguous \/ Reconnected \/ Open(p, v, an, wd)
    /\ v.event[o].seq = s.event[o].seq /\ v.event[o].state # "none"

\* It keeps the invariants of the callback.
LEMMA AnswerTurn ==
  ASSUME OfferInv, NEW p \in Programs, NEW s, s = prog[p], NEW old, old = answer, NEW wd, wd = withdrawn,
         NEW K, K = {}, NEW o \in Offers, from[o] # p, NEW u, LetsGo(p, s, u, o, old, wd, K),
         NEW an, ElsewhereSame(an, old, o),
         NEW st \in {"RECEIVE", "NOT_CONNECTED", "ERROR"}, NEW v, v = SetState(u, o, st)
  PROVE  Answered(p, s, v, o, an, wd, K)
<1>1. /\ Amid(p, u, old, wd, K) /\ Kept(p, s, u, old, wd) /\ u.out = s.out
      /\ u.event[o].seq = s.event[o].seq /\ u.event[o].state # "none"
      /\ ~Ambiguous /\ ~Reconnected => ~Cached(u, o)
  BY DEF LetsGo
<1>2. LocalOK(p, u, wd) /\ u \in Program /\ EventsOK(p, u, wd)
  BY <1>1 DEF Amid, LocalOK
<1>3. Replied(u, v, o, st)
  <2>1. st \in EventStates
    BY DEF EventStates
  <2> QED BY <1>2, <2>1, RepliedIs
<1>4. /\ v \in Program /\ v.dc = u.dc /\ v.list = u.list /\ v.out = u.out /\ v.cookies = u.cookies
      /\ \A x \in Offers : x # o => v.event[x] = u.event[x]
      /\ v.event[o].state = st /\ v.event[o].seq = u.event[o].seq
  BY <1>3, Zenon DEF Replied
<1>5. ~Queued(u, o) /\ (Cached(u, o) => u.event[o].direct)
  BY <1>2, OfferIs, Zenon DEF Waiting
<1>6. Cached(u, o) => v.event[o].direct
  BY <1>3, <1>5, Zenon DEF Replied
<1>7. Turns(p, u, v, o, wd, wd, K)
  <2>1. \A x \in Offers : x # o => /\ v.event[x] = u.event[x]
                                   /\ x \in v.cookies <=> x \in u.cookies
    BY <1>4
  <2>2. v.event[o].state # "none"
    BY <1>4
  <2> QED BY <1>1, <1>4, <1>5, <1>6, <2>1, <2>2 DEF Turns
<1>8. /\ Amid(p, v, old, wd, K)
      /\ Honest(p, u, old, wd) /\ HonestAt(p, v, old, wd, o) => Honest(p, v, old, wd)
      /\ Open(p, u, old, wd) /\ OpenAt(p, v, old, wd, o) => Open(p, v, old, wd)
  BY <1>1, <1>7, TurnsKeeps
<1>9. HonestAt(p, v, old, wd, o) /\ HonestAt(p, v, an, wd, o)
  BY <1>4 DEF HonestAt
<1>10. ASSUME ~Ambiguous, ~Reconnected PROVE OpenAt(p, v, old, wd, o) /\ OpenAt(p, v, an, wd, o)
  <2>1. ~Cached(v, o)
    BY <1>1, <1>4, <1>10, SameCached
  <2> QED BY <2>1 DEF OpenAt
<1>11. Honest(p, v, old, wd) => Honest(p, v, an, wd)
  <2>1. \A x \in Offers : x # o /\ HonestAt(p, v, old, wd, x) => HonestAt(p, v, an, wd, x)
    BY DEF HonestAt, ElsewhereSame
  <2> QED BY <1>9, <2>1, Zenon DEF Honest
<1>12. Open(p, v, old, wd) /\ OpenAt(p, v, an, wd, o) => Open(p, v, an, wd)
  <2>1. \A x \in Offers : x # o /\ OpenAt(p, v, old, wd, x) => OpenAt(p, v, an, wd, x)
    BY DEF OpenAt, ElsewhereSame
  <2> QED BY <2>1, Zenon DEF Open
<1>13. Ambiguous \/ Honest(p, v, an, wd)
  BY <1>1, <1>8, <1>9, <1>11 DEF OfferInv, Kept
<1>14. Ambiguous \/ Reconnected \/ Open(p, v, an, wd)
  BY <1>1, <1>8, <1>10, <1>12 DEF OfferInv, Kept
<1>15. OutOK(p, v, an, wd)
  <2>1. v.out = <<>>
    BY <1>1, <1>4 DEF OfferInv
  <2>2. \A i \in 1..Len(v.out) : FALSE
    BY <2>1
  <2> QED BY <2>2 DEF OutOK
<1> QED BY <1>1, <1>4, <1>8, <1>13, <1>14, <1>15 DEF Amid, Answered

\* The end of the command
AnswerEnd(p, o, t, an) ==
    /\ Reacts(p, t) /\ answer' = an /\ from' = from /\ server' = server /\ withdrawn' = withdrawn
    /\ an \in [Offers -> Answers]
    /\ answer[o] = "none" /\ \A x \in Offers : x # o => an[x] = answer[x]

\* Then the invariant holds,
LEMMA AnswerEnds ==
  ASSUME OfferInv, NEW p \in Programs, NEW wd, wd = withdrawn, NEW K, K = {}, NEW o \in Offers, from[o] # p,
         NEW an, NEW t, Amid(p, t, an, wd, K), t.event[o].state # "none",
         Ambiguous \/ Honest(p, t, an, wd), Ambiguous \/ Reconnected \/ Open(p, t, an, wd),
         AnswerEnd(p, o, t, an)
  PROVE  OfferInv'
<1>1. /\ Reacts(p, t) /\ answer' = an /\ from' = from /\ server' = server /\ withdrawn' = wd
      /\ an \in [Offers -> Answers]
      /\ answer[o] = "none" /\ \A x \in Offers : x # o => an[x] = answer[x]
  BY DEF AnswerEnd
<1>2. UserKeeps(p, t, an, wd)
  BY <1>1 DEF OfferInv, UserKeeps, Withdrawals
<1>3. ServerKeeps(p, t)
  BY <1>1, ServerSame
<1> QED BY <1>1, <1>2, <1>3, ReactsKeeps

\* with an answer sent.
LEMMA AnswerSent ==
  ASSUME OfferInv, NEW p \in Programs, NEW wd, wd = withdrawn, NEW K, K = {}, NEW o \in Offers, from[o] # p,
         NEW an, NEW v, Amid(p, v, an, wd, K), v.event[o].state # "none",
         Ambiguous \/ Honest(p, v, an, wd), Ambiguous \/ Reconnected \/ Open(p, v, an, wd),
         NEW c \in Conns, NEW m \in Message, m.type = "ANSWER", m.seq = prog[p].event[o].seq,
         an[o] = (IF m.accepted THEN "accepted" ELSE "declined"),
         NEW t, t = Send(v, c, m), AnswerEnd(p, o, t, an)
  PROVE  OfferInv'
<1>1. p = Other(from[o]) /\ from[o] = Other(p)
  BY OtherIs DEF OfferInv
<1>2. m.seq \in {0, Made(o).seq}
  <2>1. Shown(o) = prog[p].event[o]
    BY <1>1 DEF Shown
  <2> QED BY <2>1 DEF OfferInv, ShownOK
<1>3. Made(o).seq = prog[Other(p)].event[o].seq
  BY <1>1 DEF Made
<1>4. m.seq # 0 => MayAnswer(p, an, m)
  BY <1>1, <1>2, <1>3 DEF MayAnswer
<1>5. MaySend(p, v, an, wd, m)
  BY <1>4 DEF MaySend
<1>6. Amid(p, t, an, wd, K) /\ Kept(p, v, t, an, wd)
  BY <1>5, SendKeeps
<1>7. /\ Ambiguous \/ Honest(p, t, an, wd)
      /\ Ambiguous \/ Reconnected \/ Open(p, t, an, wd)
  BY <1>6 DEF Kept
<1>8. t.event = v.event
  <2>1. v \in Program
    BY DEF Amid, LocalOK
  <2> QED BY <2>1, SendIs
<1> QED BY <1>6, <1>7, <1>8, AnswerEnds

\* The user answers the offer.
LEMMA AnswerKeeps ==
  ASSUME OfferInv, NEW p \in Programs, NEW o \in Offers, NEW accepted \in BOOLEAN, Answer(p, o, accepted)
  PROVE  OfferInv'
<1>1. PICK s : s = prog[p]
  OBVIOUS
<1>2. PICK old : old = answer
  OBVIOUS
<1>3. PICK wd : wd = withdrawn
  OBVIOUS
<1>4. PICK K : K = {}
  OBVIOUS
<1>5. PICK an : an = [answer EXCEPT ![o] = IF accepted THEN "accepted" ELSE "declined"]
  OBVIOUS
<1>6. PICK st : st = IF accepted THEN "RECEIVE" ELSE "NOT_CONNECTED"
  OBVIOUS
<1> DEFINE Over(t) == SetState(t, o, IF accepted THEN "RECEIVE" ELSE "NOT_CONNECTED")
           Said == \E way \in Connecting(s, p) : Reacts(p, Over(SendFTACK(way.s, way.conn, o, accepted)))
           Unheard == s.event[o].direct /\ ByContact(s, p) = <<>> /\ Reacts(p, SetState(s, o, "ERROR"))
           Unsaid == ~s.event[o].direct /\ Reacts(p, Over(s))
<1>7. from[o] # p /\ s.event[o].state # "none" /\ answer[o] = "none"
  BY <1>1 DEF Answer
<1>8. Said \/ Unheard \/ Unsaid
  BY <1>1 DEF Answer
<1>9. answer' = an /\ from' = from /\ server' = server /\ withdrawn' = withdrawn
  BY <1>5 DEF Answer
<1>10. /\ an \in [Offers -> Answers] /\ an[o] = (IF accepted THEN "accepted" ELSE "declined")
       /\ \A x \in Offers : x # o => an[x] = answer[x]
  BY <1>5 DEF OfferInv, Answers
<1>11. ASSUME NEW t, Reacts(p, t) PROVE AnswerEnd(p, o, t, an)
  BY <1>7, <1>9, <1>10, <1>11 DEF AnswerEnd
<1>12. ASSUME NEW u, LetsGo(p, s, u, o, old, wd, K), NEW e \in {"RECEIVE", "NOT_CONNECTED", "ERROR"},
              NEW v, v = SetState(u, o, e)
       PROVE  /\ Amid(p, v, an, wd, K)
              /\ Ambiguous \/ Honest(p, v, an, wd)
              /\ Ambiguous \/ Reconnected \/ Open(p, v, an, wd)
              /\ v.event[o].seq = s.event[o].seq /\ v.event[o].state # "none"
  <2>1. ElsewhereSame(an, old, o)
    BY <1>2, <1>10 DEF ElsewhereSame
  <2>2. LetsGo(p, s, u, o, old, wd, K)
    BY <1>12
  <2>3. from[o] # p
    BY <1>7
  <2>4. Answered(p, s, v, o, an, wd, K)
    BY <1>1, <1>2, <1>3, <1>4, <1>12, <2>1, <2>2, <2>3, AnswerTurn
  <2> QED BY <2>4, Zenon DEF Answered
<1>13. Amid(p, s, old, wd, K)
  BY <1>1, <1>3, StartAmid
<1>14. st \in {"RECEIVE", "NOT_CONNECTED", "ERROR"}
  BY <1>6
<1>15. CASE Said
  <2>1. PICK way \in Connecting(s, p) : Reacts(p, Over(SendFTACK(way.s, way.conn, o, accepted)))
    BY <1>15
  <2>2. PICK w : w = way.s
    OBVIOUS
  <2>3. PICK c : c = way.conn
    OBVIOUS
  <2>4. PICK t : t = SetState(SendFTACK(w, c, o, accepted), o, st)
    OBVIOUS
  <2>5. Reacts(p, t)
    BY <1>6, <2>1, <2>2, <2>3, <2>4
  <2> HIDE DEF Over, Said, Unheard, Unsaid
  <2>6. c \in Conns /\ Reaches(p, s, w, c, old, wd, K)
    BY <1>1, <1>13, <2>1, <2>2, <2>3, ConnectingIs
  <2>7. LocalOK(p, w, wd) /\ w \in Program /\ w.event = s.event
    BY <2>6 DEF Reaches, Amid, LocalOK
  <2>8. AnswerEnd(p, o, t, an)
    BY <1>11, <2>5
  <2>9. CASE w.dc[c].state = "connecting"
    <3>1. PICK u : u = Disconnect(w, c)
      OBVIOUS
    <3>2. t = SetState(u, o, st)
      BY <2>4, <2>9, <3>1 DEF SendFTACK
    <3>3. LetsGo(p, s, u, o, old, wd, K)
      BY <1>7, <2>6, <3>1, DisconnectLetsGo
    <3>4. /\ Amid(p, t, an, wd, K)
          /\ Ambiguous \/ Honest(p, t, an, wd)
          /\ Ambiguous \/ Reconnected \/ Open(p, t, an, wd)
          /\ t.event[o].state # "none"
      BY <1>12, <1>14, <3>2, <3>3
    <3> QED BY <1>3, <1>4, <1>7, <2>8, <3>4, AnswerEnds
  <2>10. CASE w.dc[c].state # "connecting"
    <3>1. PICK n : n = w.event[o].seq
      OBVIOUS
    <3>2. PICK cache : cache = w.dc[c].cache
      OBVIOUS
    <3>3. PICK new : new = Others(cache, n)
      OBVIOUS
    <3>4. PICK m : m = [type |-> "ANSWER", seq |-> n, accepted |-> accepted]
      OBVIOUS
    <3>5. n \in Nat
      BY <2>7, <3>1, ProgramIs
    <3>6. m \in Message /\ m.type = "ANSWER" /\ m.seq = n
      BY <3>4, <3>5 DEF Message
    <3>7. PICK u : u = Removed(w, c, new)
      OBVIOUS
    <3>8. PICK v : v = SetState(u, o, st)
      OBVIOUS
    <3>9. SendFTACK(w, c, o, accepted) = SentFirst(w, c, new, m)
      <4>1. w.dc \in [Conns -> Client]
        BY <2>7, ProgramIs
      <4>2. new = Only(w.dc[c].cache, {entry \in ToSet(w.dc[c].cache) : entry.seq # n})
        BY <3>2, <3>3 DEF Others
      <4> QED BY <2>6, <2>7, <2>10, <3>1, <3>4, <4>1, <4>2 DEF SendFTACK, SentFirst, Send, Program
    <3>10. t = Send(v, c, m)
      BY <2>4, <2>6, <2>7, <3>7, <3>8, <3>9, Reordered
    <3>11. new \in Seq(Entry) /\ Within(new, cache) /\ Lacks(new, o)
      BY <2>6, <2>7, <3>1, <3>2, <3>3, OthersLack
    <3>12. LetsGo(p, s, u, o, old, wd, K)
      BY <1>7, <2>6, <3>2, <3>7, <3>11, RemovedLetsGo
    <3>13. /\ Amid(p, v, an, wd, K)
           /\ Ambiguous \/ Honest(p, v, an, wd)
           /\ Ambiguous \/ Reconnected \/ Open(p, v, an, wd)
           /\ v.event[o].state # "none"
      BY <1>12, <1>14, <3>8, <3>12
    <3>14. m.seq = prog[p].event[o].seq
      BY <1>1, <2>7, <3>1, <3>6
    <3>15. an[o] = (IF m.accepted THEN "accepted" ELSE "declined")
      BY <1>10, <3>4, Zenon
    <3> QED BY <1>3, <1>4, <1>7, <2>6, <2>8, <3>6, <3>10, <3>13, <3>14, <3>15, AnswerSent
  <2> QED BY <2>9, <2>10
<1>16. ASSUME NEW e \in {"RECEIVE", "NOT_CONNECTED", "ERROR"}, NEW t, t = SetState(s, o, e), Reacts(p, t),
              ~s.event[o].direct \/ ByContact(s, p) = <<>>
       PROVE  OfferInv'
  <2>1. LetsGo(p, s, s, o, old, wd, K)
    BY <1>1, <1>3, <1>7, <1>16, SameLetsGo
  <2>2. /\ Amid(p, t, an, wd, K)
        /\ Ambiguous \/ Honest(p, t, an, wd)
        /\ Ambiguous \/ Reconnected \/ Open(p, t, an, wd)
        /\ t.event[o].state # "none"
    BY <1>12, <1>16, <2>1
  <2>3. AnswerEnd(p, o, t, an)
    BY <1>11, <1>16
  <2> QED BY <1>3, <1>4, <1>7, <2>2, <2>3, AnswerEnds
<1>17. CASE Unheard
  BY <1>16, <1>17
<1>18. CASE Unsaid
  BY <1>6, <1>14, <1>16, <1>18
<1> QED BY <1>8, <1>15, <1>17, <1>18

-----------------------------------------------------------------------------
(* The theorems.                                                           *)

\* A client that is new
LEMMA NewIs ==
  ASSUME NEW s, s = NewProgram
  PROVE  /\ s \in Program /\ s.list = <<>> /\ s.cookies = {} /\ s.out = <<>>
         /\ \A c \in Conns : s.dc[c].state = "none" /\ s.dc[c].queue = <<>> /\ s.dc[c].cache = <<>>
         /\ \A o \in Offers : s.event[o].state = "none" /\ s.event[o].seq = 0
<1>1. PICK x : x = NewClient("none")
  OBVIOUS
<1>2. x \in Client /\ x.state = "none" /\ x.queue = <<>> /\ x.cache = <<>>
  <2>1. PICK queue \in Seq(Offers) : queue = <<>>
    <3>1. <<>> \in Seq(Offers)
      OBVIOUS
    <3> QED BY <3>1, Zenon
  <2>2. PICK cache \in Seq(Entry) : cache = <<>>
    <3>1. <<>> \in Seq(Entry)
      OBVIOUS
    <3> QED BY <3>1, Zenon
  <2>3. x = [state |-> "none", queue |-> queue, cache |-> cache, sent |-> 0]
    BY <1>1, <2>1, <2>2 DEF NewClient
  <2> QED BY <2>1, <2>2, <2>3 DEF Client, ClientStates
<1>3. NoEvent \in Event /\ NoEvent.state = "none" /\ NoEvent.seq = 0
  BY DEF NoEvent, Event, EventStates
<1>4. PICK event \in [Offers -> Event] : event = [o \in Offers |-> NoEvent]
  BY <1>3
<1>5. PICK dc \in [Conns -> Client] : dc = [c \in Conns |-> x]
  BY <1>2
<1>6. PICK list \in Seq(Conns) : list = <<>>
  <2>1. <<>> \in Seq(Conns)
    OBVIOUS
  <2> QED BY <2>1, Zenon
<1>7. PICK out \in Seq(Conns \X Message) : out = <<>>
  <2>1. <<>> \in Seq(Conns \X Message)
    OBVIOUS
  <2> QED BY <2>1, Zenon
<1>8. s = [event |-> event, dc |-> dc, list |-> list, cookies |-> {}, out |-> out]
  BY <1>1, <1>4, <1>5, <1>6, <1>7 DEF NewProgram
<1>9. s \in Program /\ s.event = event /\ s.dc = dc /\ s.list = list /\ s.cookies = {} /\ s.out = out
  BY <1>8 DEF Program
<1>10. \A o \in Offers : s.event[o] = NoEvent
  BY <1>4, <1>9
<1>11. \A c \in Conns : s.dc[c] = x
  BY <1>5, <1>9
<1> QED BY <1>2, <1>3, <1>6, <1>7, <1>9, <1>10, <1>11

\* The initial state
LEMMA InitInvariant == Init => OfferInv
<1> SUFFICES ASSUME Init PROVE OfferInv
  OBVIOUS
<1>1. /\ from \in [Offers -> Programs] /\ server = {}
      /\ \A p \in Programs : prog[p] = NewProgram
      /\ prog = [p \in Programs |-> NewProgram]
      /\ \A c \in Conns, p \in Programs : chan[c][p] = <<>>
      /\ caller = [c \in Conns |-> "none"]
      /\ answer = [o \in Offers |-> "none"] /\ withdrawn = [o \in Offers |-> "no"]
  BY SendersAssumption DEF Init
<1>2. ASSUME NEW p \in Programs
      PROVE  /\ prog[p] \in Program /\ prog[p].list = <<>> /\ prog[p].cookies = {} /\ prog[p].out = <<>>
             /\ \A c \in Conns : /\ prog[p].dc[c].state = "none" /\ prog[p].dc[c].queue = <<>>
                                 /\ prog[p].dc[c].cache = <<>>
             /\ \A o \in Offers : prog[p].event[o].state = "none" /\ prog[p].event[o].seq = 0
  <2>1. PICK s : s = prog[p]
    OBVIOUS
  <2>2. s = NewProgram
    BY <1>1, <2>1
  <2>3. /\ s \in Program /\ s.list = <<>> /\ s.cookies = {} /\ s.out = <<>>
        /\ \A c \in Conns : s.dc[c].state = "none" /\ s.dc[c].queue = <<>> /\ s.dc[c].cache = <<>>
        /\ \A o \in Offers : s.event[o].state = "none" /\ s.event[o].seq = 0
    BY <2>2, NewIs
  <2> QED BY <2>1, <2>3
<1>3. prog \in [Programs -> Program]
  BY <1>1, <1>2
<1>4. chan \in [Conns -> [Programs -> Seq(Message)]]
  <2>1. PICK none \in Seq(Message) : none = <<>>
    <3>1. <<>> \in Seq(Message)
      OBVIOUS
    <3> QED BY <3>1, Zenon
  <2>2. chan = [c \in Conns |-> [p \in Programs |-> none]]
    BY <2>1 DEF Init
  <2> QED BY <2>2
<1>5. ASSUME NEW p \in Programs
      PROVE  /\ \A c \in Conns : \A i \in 1..Len(prog[p].dc[c].queue) : FALSE
             /\ \A c \in Conns : \A i \in 1..Len(prog[p].dc[c].cache) : FALSE
             /\ \A o : ~Queued(prog[p], o) /\ ~Cached(prog[p], o)
  <2>1. ASSUME NEW c \in Conns
        PROVE  /\ \A i \in 1..Len(prog[p].dc[c].queue) : FALSE
               /\ \A i \in 1..Len(prog[p].dc[c].cache) : FALSE
    BY <1>2
  <2> QED BY <2>1 DEF Queued, Cached
<1>6. ASSUME NEW p \in Programs PROVE LocalOK(p, prog[p], withdrawn)
  <2>1. QueuesOK(p, prog[p], withdrawn) /\ CachesOK(prog[p])
    BY <1>5 DEF QueuesOK, CachesOK
  <2>2. Listed(prog[p])
    <3>1. ASSUME NEW c \in Conns PROVE c \notin ToSet(prog[p].list)
      <4>1. PICK list \in Seq(Conns) : list = prog[p].list
        BY <1>2, ProgramIs
      <4>2. ASSUME c \in ToSet(list) PROVE FALSE
        <5>1. PICK i \in 1..Len(list) : c = list[i]
          BY <4>2, InSet
        <5>2. list = <<>>
          BY <1>2, <4>1
        <5> QED BY <5>1, <5>2
      <4> QED BY <4>1, <4>2
    <3> QED BY <1>2, <3>1 DEF Listed
  <2>3. EventsOK(p, prog[p], withdrawn)
    BY <1>1, <1>2 DEF EventsOK
  <2> QED BY <1>2, <2>1, <2>2, <2>3 DEF LocalOK
<1>7. ASSUME NEW p \in Programs
      PROVE  Honest(p, prog[p], answer, withdrawn) /\ Open(p, prog[p], answer, withdrawn)
  <2>1. Honest(p, prog[p], answer, withdrawn)
    BY <1>2 DEF Honest, HonestAt
  <2>2. Open(p, prog[p], answer, withdrawn)
    BY <1>1, <1>5 DEF Open, OpenAt
  <2> QED BY <2>1, <2>2
<1>8. \A c \in Conns, p \in Programs : \A i \in 1..Len(chan[c][p]) : FALSE
  BY <1>1
<1>9. StartsOK /\ MessagesOK
  BY <1>8 DEF StartsOK, MessagesOK
<1>10. ASSUME NEW o \in Offers
       PROVE  /\ Made(o).seq = 0 /\ Shown(o).seq = 0 /\ Shown(o).state = "none"
              /\ from[o] \in Programs
  <2>1. from[o] \in Programs /\ Other(from[o]) \in Programs
    BY <1>1, OtherIs
  <2> QED BY <1>2, <2>1 DEF Made, Shown
<1>11. ShownOK /\ ServerOK
  <2>1. ShownOK
    BY <1>1, <1>10 DEF ShownOK
  <2> QED BY <1>1, <2>1 DEF ServerOK
<1>12. ConnsOK
  <2>1. Used = {}
    BY <1>1 DEF Used
  <2>2. 0 \in 0..MaxConns /\ Used = 1..0
    BY <2>1, BoundAssumption
  <2>3. \E n \in 0..MaxConns : Used = 1..n
    BY <2>2
  <2>4. caller \in [Conns -> Programs \cup {"none"}]
    BY <1>1
  <2> QED BY <1>2, <2>3, <2>4 DEF ConnsOK
<1>13. answer \in [Offers -> {"none", "accepted", "declined"}] /\ withdrawn \in [Offers -> {"no", "yes", "queued"}]
  BY <1>1
<1> QED BY <1>1, <1>2, <1>3, <1>4, <1>6, <1>7, <1>9, <1>11, <1>12, <1>13 DEF OfferInv

\* Every step
LEMMA StepInvariant == OfferInv /\ [Next]_vars => OfferInv'
<1> SUFFICES ASSUME OfferInv, [Next]_vars PROVE OfferInv'
  OBVIOUS
<1>1. ASSUME NEW p \in Programs, NEW o \in Offers, SendFileTransfer(p, o) PROVE OfferInv'
  BY <1>1, SendFileTransferKeeps
<1>2. ASSUME NEW p \in Programs, NEW o \in Offers, CancelFileTransfer(p, o) PROVE OfferInv'
  BY <1>2, CancelFileTransferKeeps
<1>3. ASSUME NEW p \in Programs, NEW o \in Offers, Answer(p, o, TRUE) \/ Answer(p, o, FALSE) PROVE OfferInv'
  <2>1. PICK accepted \in BOOLEAN : Answer(p, o, accepted)
    BY <1>3
  <2> QED BY <2>1, AnswerKeeps
<1>4. ASSUME NEW p \in Programs, NEW o \in Offers, CookieExpires(p, o) PROVE OfferInv'
  BY <1>4, CookieExpiresKeeps
<1>5. ASSUME NEW p \in Programs, NEW o \in Offers, ReceiveFromServer(p, o) PROVE OfferInv'
  BY <1>5, ReceiveFromServerKeeps
<1>6. ASSUME NEW p \in Programs, NEW c \in Conns, FinishConnect(p, c) PROVE OfferInv'
  BY <1>6, FinishConnectKeeps
<1>7. ASSUME NEW p \in Programs, NEW c \in Conns, AcceptConnection(p, c) PROVE OfferInv'
  BY <1>7, AcceptConnectionKeeps
<1>8. ASSUME NEW p \in Programs, NEW c \in Conns, Receive(p, c) PROVE OfferInv'
  BY <1>8, ReceiveKeeps
<1>9. ASSUME NEW p \in Programs, NEW c \in Conns, LoseConnection(p, c) PROVE OfferInv'
  BY <1>9, LoseConnectionKeeps
<1>10. ASSUME NEW p \in Programs, NEW c \in Conns, MessageExpires(p, c) PROVE OfferInv'
  BY <1>10, MessageExpiresKeeps
<1>11. ASSUME NEW o \in Offers, ServerDrops(o) PROVE OfferInv'
  BY <1>11, LessOfServer DEF ServerDrops
<1>12. CASE UNCHANGED vars
  BY <1>12, LessOfServer DEF vars
<1> QED BY <1>1, <1>2, <1>3, <1>4, <1>5, <1>6, <1>7, <1>8, <1>9, <1>10, <1>11, <1>12 DEF Next

\* In every state, the programs, the messages on their way, the server and what
\* the users have done fit each other: OfferInv, which names each way in which
\* they must.
THEOREM OffersInvariant == Spec => []OfferInv
BY InitInvariant, StepInvariant, PTL DEF Spec

\* Every variable has its type, and the list by which connections expire has
\* exactly those that are open.
THEOREM OffersTypes == Spec => []TypeOK
<1>1. OfferInv => TypeOK
  <2> SUFFICES ASSUME OfferInv PROVE TypeOK
    OBVIOUS
  <2>1. ASSUME NEW p \in Programs
        PROVE  /\ prog[p].event \in [Offers -> [state : EventStates, seq : Nat, direct : BOOLEAN]]
               /\ \A c \in Conns :
                     /\ prog[p].dc[c].state \in ClientStates
                     /\ prog[p].dc[c].queue \in Seq(Offers)
                     /\ prog[p].dc[c].cache \in Seq([seq : Nat, offer : Offers])
                     /\ c \in ToSet(prog[p].list) <=> prog[p].dc[c].state \notin {"none", "closed"}
               /\ prog[p].out = <<>>
    <3>1. LocalOK(p, prog[p], withdrawn) /\ prog[p].out = <<>>
      BY DEF OfferInv
    <3>2. prog[p] \in Program /\ Listed(prog[p])
      BY <3>1 DEF LocalOK
    <3>3. prog[p].event \in [Offers -> Event]
      BY <3>2, ProgramIs
    <3>4. ASSUME NEW c \in Conns
          PROVE  /\ prog[p].dc[c].state \in ClientStates
                 /\ prog[p].dc[c].queue \in Seq(Offers)
                 /\ prog[p].dc[c].cache \in Seq(Entry)
                 /\ c \in ToSet(prog[p].list) <=> prog[p].dc[c].state \notin {"none", "closed"}
      BY <3>2, ProgramIs DEF Listed
    <3> QED BY <3>1, <3>3, <3>4 DEF Event, Entry
  <2>2. \A c \in Conns, p \in Programs : chan[c][p] \in Seq(Message)
    BY DEF OfferInv
  <2> QED BY <2>1, <2>2 DEF OfferInv, TypeOK
<1> QED BY <1>1, OffersInvariant, PTL

\* What has become of an offer is what its users have done with it: it is
\* accepted, declined or cancelled at one end only if the user at the other did
\* that, a cache of sequence numbers has only offers whose fate is open, and what
\* was cancelled is not transferred, as long as a sequence number names one
\* offer and, for the last two, the programs have connected only once.
THEOREM OffersOutcome == Spec => []OutcomeIsTheUsers
<1>1. OfferInv => OutcomeIsTheUsers
  <2> SUFFICES ASSUME OfferInv PROVE OutcomeIsTheUsers
    OBVIOUS
  <2>1. ASSUME NEW o \in Offers
        PROVE  /\ from[o] \in Programs /\ Other(from[o]) \in Programs /\ Other(from[o]) # from[o]
               /\ Made(o) = prog[from[o]].event[o] /\ Shown(o) = prog[Other(from[o])].event[o]
    BY OtherIs DEF OfferInv, Made, Shown
  <2>2. AnswerIsTheUsers
    <3>1. ASSUME ~Ambiguous, NEW o \in Offers PROVE HonestAt(from[o], prog[from[o]], answer, withdrawn, o)
      BY <2>1, <3>1 DEF OfferInv, Honest
    <3> QED BY <2>1, <3>1 DEF AnswerIsTheUsers, HonestAt
  <2>3. CancelIsTheSenders
    <3>1. ASSUME ~Ambiguous, NEW o \in Offers
          PROVE  HonestAt(Other(from[o]), prog[Other(from[o])], answer, withdrawn, o)
      BY <2>1, <3>1 DEF OfferInv, Honest
    <3> QED BY <2>1, <3>1 DEF CancelIsTheSenders, HonestAt
  <2>4. ASSUME ~Ambiguous, ~Reconnected, NEW p \in Programs, NEW o \in Offers
        PROVE  OpenAt(p, prog[p], answer, withdrawn, o)
    BY <2>4 DEF OfferInv, Open
  <2>5. CachedIsOpen
    <3>1. SUFFICES ASSUME ~Ambiguous, ~Reconnected, NEW p \in Programs, NEW c \in Conns,
                          NEW entry \in ToSet(prog[p].dc[c].cache), NEW o, o = entry.offer
                   PROVE  IF from[o] = p THEN Made(o).state = "WAIT_RESPONS" \/ withdrawn[o] = "queued"
                          ELSE answer[o] = "none"
      BY DEF CachedIsOpen
    <3>2. prog[p].dc[c].cache \in Seq(Entry)
      BY ProgramIs DEF OfferInv
    <3>3. PICK i \in 1..Len(prog[p].dc[c].cache) : entry = prog[p].dc[c].cache[i]
      BY <3>1, <3>2, InSet
    <3>4. o \in Offers
      <4>1. entry \in Entry
        BY <3>2, <3>3
      <4> QED BY <3>1, <4>1 DEF Entry
    <3>5. Cached(prog[p], o)
      BY <3>1, <3>3 DEF Cached
    <3>6. OpenAt(p, prog[p], answer, withdrawn, o)
      BY <2>4, <3>1, <3>4
    <3> QED BY <2>1, <3>4, <3>5, <3>6 DEF OpenAt
  <2>6. WithdrawnIsOver
    BY <2>1, <2>4 DEF WithdrawnIsOver, OpenAt
  <2> QED BY <2>2, <2>3, <2>5, <2>6 DEF OutcomeIsTheUsers
<1> QED BY <1>1, OffersInvariant, PTL
=============================================================================
