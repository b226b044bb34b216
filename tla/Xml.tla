--------------------------------- MODULE Xml ----------------------------------
(***************************************************************************)
(* The library's reader and writer of XML, with the tags it asks for.  A   *)
(* node is a leaf, [tag, value], or a branch, [tag, children].             *)
(***************************************************************************)
EXTENDS Integers, SequencesExt

\* Tags and the values that are told apart are one byte each here: what
\* matters is which is which.
TagNames ==
    <<"icq_sms_message", "destination", "text", "codepage", "senders_UIN", "senders_name",
      "delivery_receipt", "time", "sms_message", "source", "sender", "senders_network",
      "sms_delivery_receipt", "message_id", "delivered", "submition_time", "delivery_time",
      "sms_response", "deliverable", "network", "messages_left", "from", "to", "subject",
      "error", "id", "params", "param">>
Tag == [name \in ToSet(TagNames) |-> <<96 + SelectInSeq(TagNames, LAMBDA t : t = name)>>]
Yes == <<89>>
No == <<78>>
SMTP == <<83>>

Amp == <<38>>
Less == <<60>>
Greater == <<62>>
Slash == <<47>>
AmpName == Amp \o <<97, 109, 112, 59>>
LessName == Amp \o <<108, 116, 59>>
GreaterName == Amp \o <<103, 116, 59>>
White == {9, 10, 11, 12, 13, 32}

\* replace_all: what has been put in is not looked at again
RECURSIVE Replaced(_, _, _)
Replaced(s, old, new) ==
    LET found == {i \in 1 .. Len(s) - Len(old) + 1 : SubSeq(s, i, i + Len(old) - 1) = old}
    IN  IF found = {} THEN s
        ELSE SubSeq(s, 1, Min(found) - 1) \o new
             \o Replaced(SubSeq(s, Min(found) + Len(old), Len(s)), old, new)
Quote(s) ==
    Replaced(Replaced(Replaced(s, Amp, AmpName), Less, LessName), Greater, GreaterName)
Unquote(s) ==
    Replaced(Replaced(Replaced(s, LessName, Less), GreaterName, Greater), AmpName, Amp)

Leaf(tag, value) == [tag |-> tag, value |-> value]
Branch(tag, children) == [tag |-> tag, children |-> children]
NoNode == <<>>
IsBranch(node) == node # NoNode /\ "children" \in DOMAIN node

\* toString, n levels deep
RECURSIVE Written(_, _)
Written(node, n) ==
    LET open == Less \o Quote(node.tag) \o Greater
        close == Less \o Slash \o Quote(node.tag) \o Greater \o <<10>>
        tabs == [i \in 1 .. n |-> 9]
        child(i) == Written(node.children[i], n + 1)
    IN  IF IsBranch(node)
        THEN tabs \o open \o <<10>> \o FlattenSeq([i \in DOMAIN node.children |-> child(i)])
             \o tabs \o close
        ELSE tabs \o open \o Quote(node.value) \o close

-----------------------------------------------------------------------------
(* Parsing.  A place in s is the index of the next character; every step   *)
(* gives what it found and where it stopped.                               *)

\* The first place from i on with a character of C, or the end
Find(s, i, C) == Min({Len(s) + 1} \cup {j \in i .. Len(s) : s[j] \in C})
SkipWS(s, i) == Find(s, i, 0 .. 255 \ White)
At(s, i, c) == i <= Len(s) /\ <<s[i]>> = c
ParseTag(s, i) ==
    LET end == Find(s, i, ToSet(Greater))
    IN  CASE ~At(s, i, Less) -> [tag |-> <<>>, next |-> i]
          [] At(s, i, Less) /\ end > Len(s) -> [tag |-> <<>>, next |-> end]
          [] OTHER -> [tag |-> SubSeq(s, i + 1, end - 1), next |-> end + 1]
Closes(tag) == At(tag, 1, Slash)
Nothing(i) == [node |-> NoNode, next |-> i]

\* A leaf's value starts at i
ParseValue(s, i, tag) ==
    LET value == SubSeq(s, i, Find(s, i, ToSet(Less)) - 1)
        end == ParseTag(s, i + Len(value))
    IN  IF end.tag = Slash \o tag
        THEN [node |-> Leaf(Unquote(tag), Unquote(value)), next |-> end.next]
        ELSE Nothing(end.next)

\* A branch whose children begin at i; one that is no node is passed over.
\* Without any it is an empty leaf.
RECURSIVE Parse(_, _), ParseChildren(_, _, _, _)
ParseChildren(s, i, tag, node) ==
    LET next == ParseTag(s, i)
        child == Parse(s, i)
        place == SkipWS(s, child.next)
        sofar == IF node = NoNode THEN <<>> ELSE node.children
    IN  CASE next.tag = <<>> -> Nothing(next.next)
          [] next.tag # <<>> /\ Closes(next.tag) ->
                 IF next.tag # Slash \o tag THEN Nothing(next.next)
                 ELSE [node |-> IF node = NoNode THEN Leaf(Unquote(tag), <<>>) ELSE node,
                       next |-> next.next]
          [] next.tag # <<>> /\ ~Closes(next.tag) /\ ~At(s, place, Less) -> Nothing(place)
          [] OTHER -> ParseChildren(s, place, tag,
                 Branch(Unquote(tag),
                        IF child.node = NoNode THEN sofar ELSE Append(sofar, child.node)))
Parse(s, i) ==
    LET first == ParseTag(s, SkipWS(s, i))
        place == SkipWS(s, first.next)
    IN  CASE first.tag = <<>> \/ Closes(first.tag) -> Nothing(first.next)
          [] first.tag # <<>> /\ ~Closes(first.tag) /\ place > Len(s) -> Nothing(place)
          [] first.tag # <<>> /\ ~Closes(first.tag) /\ At(s, place, Less) ->
                 ParseChildren(s, place, first.tag, NoNode)
          [] OTHER -> ParseValue(s, place, first.tag)

-----------------------------------------------------------------------------
(* Looking up: the first child with a tag, if it is of the kind asked for. *)

GetNode(node, name) ==
    LET at == IF IsBranch(node) THEN SelectInSeq(node.children, LAMBDA c : c.tag = Tag[name]) ELSE 0
    IN  IF at = 0 THEN NoNode ELSE node.children[at]
GetBranch(node, name) ==
    IF IsBranch(GetNode(node, name)) THEN GetNode(node, name) ELSE NoNode
\* The values of those of the names that are leaves, by name
Leaves(node, names) ==
    LET isLeaf(name) == GetNode(node, name) # NoNode /\ ~IsBranch(GetNode(node, name))
    IN  [name \in {n \in names : isLeaf(n)} |-> GetNode(node, name).value]
=============================================================================
