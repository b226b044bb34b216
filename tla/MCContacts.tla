----------------------------- MODULE MCContacts -----------------------------
(***************************************************************************)
(* Contacts, with two of whom the server's list has one, and Exchange, in  *)
(* one run: they share no state.  A behaviour is one of either and leaves  *)
(* the other's variables at an initial state.                              *)
(***************************************************************************)
EXTENDS Contacts, TLC

CONSTANTS c1, c2
CONSTANTS Letters, Texts, SMSReports, Told, Lists, Verdicts, Portions, MaxPackets, MaxCuts

VARIABLES
    part,   \* "contacts" or "packets"
    phase, reply, login, result, stream, recv, sent, heard, passed, announced, contact, left,
    posted, cuts

E == INSTANCE Exchange WITH Statuses <- Told, server <- passed

packets == <<phase, reply, login, result, stream, recv, sent, heard, passed, announced, contact,
             left, posted, cuts>>

MCContact == {c1, c2}
MCOnServer == {c1}

\* A message of every kind that the two kinds of packet carry, with empty
\* fields, with text that is not ASCII, and with numbers of every width.
Adv == [adv |-> TRUE, status |-> 0, priority |-> "normal"]
Person == [alias |-> <<65>>, firstname |-> <<>>, lastname |-> <<66, 67>>, email |-> <<>>]
MCLetters ==
    {[kind |-> "Normal", message |-> <<104, 195, 169>>, utf8 |-> TRUE] @@ Adv,
     [kind |-> "Normal", message |-> <<104>>, utf8 |-> FALSE, priority |-> "urgent"] @@ Adv,
     [kind |-> "Normal", message |-> <<>>, utf8 |-> FALSE] @@ Adv,
     [kind |-> "URL", message |-> <<>>, url |-> <<119>>, priority |-> "toContactList"] @@ Adv,
     [kind |-> "Contacts", contacts |-> <<<<12, <<65>>>>, <<7, <<>>>>>>] @@ Adv,
     [kind |-> "Away"] @@ Adv,
     [kind |-> "FT", message |-> <<102>>, description |-> <<100>>, size |-> 70000, port |-> 258,
      revport |-> 513] @@ Adv,
     [adv |-> FALSE, kind |-> "Normal", message |-> <<104>>, ucs2 |-> FALSE],
     [adv |-> FALSE, kind |-> "Normal", message |-> <<4, 48>>, ucs2 |-> TRUE],
     [adv |-> FALSE, kind |-> "URL", message |-> <<109>>, url |-> <<>>],
     [adv |-> FALSE, kind |-> "AuthReq", message |-> <<109>>, auth |-> TRUE] @@ Person,
     [adv |-> FALSE, kind |-> "AuthAcc"],
     [adv |-> FALSE, kind |-> "AuthRej", message |-> <<110, 111>>],
     [adv |-> FALSE, kind |-> "UserAdd", auth |-> FALSE] @@ Person}
\* Texts and answers with characters that XML has a use for
MCTexts == {[destination |-> <<43, 49>>, text |-> <<60, 38, 103, 116, 59>>, senders_name |-> <<>>, receipt |-> TRUE],
            [destination |-> <<50>>, text |-> <<>>, senders_name |-> <<65, 62>>, receipt |-> FALSE]}
MCSMSReports ==
    {[deliverable |-> TRUE, smtp |-> FALSE, network |-> <<78>>, message_id |-> <<>>],
     [deliverable |-> FALSE, smtp |-> TRUE, from |-> <<102, 62>>, to |-> <<116>>],
     [deliverable |-> FALSE, smtp |-> FALSE, error |-> 12, param |-> <<38>>],
     [message |-> <<38, 108, 116, 59, 32>>, source |-> <<>>, sender |-> <<43, 60>>],
     [message |-> <<>>, message_id |-> <<55>>, delivered |-> TRUE],
     [message |-> <<38>>, message_id |-> <<>>, delivered |-> FALSE]}
MCTold ==
    {[status |-> s, invisible |-> FALSE, webAware |-> FALSE, extra |-> FALSE] :
        s \in {"Online", "NA", "DND"}}
    \cup {[status |-> s, invisible |-> TRUE, webAware |-> TRUE, extra |-> TRUE, ip |-> 16909060,
           port |-> 258] : s \in {"Away", "Occupied", "FreeForChat"}}
Named(g) == [uin |-> 0, alias |-> <<71>>, group |-> g]
Buddy(uin, g) == [uin |-> uin, alias |-> <<65, 66>>, group |-> g, id |-> 5, await |-> uin = 7]
\* In the second a contact comes before its group.
MCLists == {<<Named(1), Buddy(12, 1), Named(2), Buddy(7, 2)>>, <<Buddy(7, 1), Named(1)>>, <<>>}
MCVerdicts == {[status |-> 0, away |-> <<>>], [status |-> 10, away |-> <<98>>]}

RosterInit ==
    /\ part \in {"contacts", "packets"}
    /\ Init /\ E!ExchangeInit
    /\ part = "packets" => ~wanted /\ \A c \in Contact : entry[c] = Unknown
    /\ part = "contacts" => phase = "BOS_LOGGED_IN"

RosterNext ==
    \/ part = "contacts" /\ Next /\ UNCHANGED <<part, packets>>
    \/ part = "packets" /\ E!ExchangeNext /\ UNCHANGED <<part, vars>>

RosterSpec == RosterInit /\ [][RosterNext]_<<vars, packets, part>>

\* The values the variables of both take.
TypesOK == TypeOK /\ E!ExchangeTypeOK
\* The property of Exchange, as stated there: what one end wrote the other has
\* read.
PacketsArrive == E!PacketsArrive
=============================================================================
