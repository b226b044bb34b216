----------------------------- MODULE MCTraffic ------------------------------
(***************************************************************************)
(* Messages and Requests, which share no state, in one run: a behaviour is *)
(* one of the first or one of the second, and leaves the other's variables *)
(* at an initial state.                                                    *)
(***************************************************************************)
EXTENDS Messages, Requests

VARIABLE part       \* "messages" or "requests"

\* An empty text and an ASCII one; a line's end; a Cyrillic one with the
\* letter that is 0xfe in its code page; U+0D0A; one with a letter that the
\* code page lacks; one beyond UCS-2; and two characters between which the
\* bytes of UCS-2 are those of a line's end.
MCTexts == {<<>>, <<97>>, <<10>>, <<1102, 97>>, <<3338>>, <<97, 269>>, <<128512>>, <<13, 2565>>}
MCAliases == {<<98>>, <<254>>}
MCCodePage == (1102 :> 254) @@ (1071 :> 223)

TrafficInit ==
    /\ part \in {"messages", "requests"}
    /\ Init /\ RequestsInit
    /\ part = "requests" => /\ order = "left" /\ status = "Online"
                            /\ ~listed /\ ~ignored /\ ~strangers

TrafficNext ==
    \/ part = "messages" /\ Next /\ UNCHANGED <<part, requestVars>>
    \/ part = "requests" /\ RequestsNext /\ UNCHANGED <<part, vars>>

TrafficSpec ==
    TrafficInit /\ [][TrafficNext]_<<vars, requestVars, part>> /\ RequestsFairness

\* The values the variables of both take.
TypesOK == TypeOK /\ RequestsTypeOK
=============================================================================
