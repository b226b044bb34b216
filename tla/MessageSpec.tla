---------------------------- MODULE MessageSpec ----------------------------
(***************************************************************************)
(* What libicq2000 promises about a message event handed to SendEvent: it  *)
(* persists while the message has not been confirmed as delivered or       *)
(* failed, one finished report is signalled for it, and then it is gone.   *)
(* Several events may finish in one call.  Delivery is shown to implement  *)
(* this specification.                                                     *)
(***************************************************************************)
CONSTANT Events

VARIABLES
    live,       \* the events submitted and not yet finished
    outcome     \* what the application was told of each event in the end

messageVars == <<live, outcome>>

MessageTypeOK ==
    /\ live \subseteq Events
    /\ outcome \in [Events -> {"none", "delivered", "failed"}]

MessageInit ==
    /\ live = {}
    /\ outcome = [e \in Events |-> "none"]

Submit(e) ==
    /\ e \notin live /\ outcome[e] = "none"
    /\ live' = live \cup {e}
    /\ UNCHANGED outcome

Finish(done, r) ==
    /\ done # {} /\ done \subseteq live
    /\ live' = live \ done
    /\ outcome' = [e \in Events |-> IF e \in done THEN r ELSE outcome[e]]

MessageNext ==
    \/ \E e \in Events : Submit(e)
    \/ \E done \in SUBSET Events, r \in {"delivered", "failed"} : Finish(done, r)

MessageBehaviour == MessageInit /\ [][MessageNext]_messageVars
=============================================================================
