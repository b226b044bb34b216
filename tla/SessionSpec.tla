---------------------------- MODULE SessionSpec ----------------------------
(***************************************************************************)
(* What libicq2000 promises the application about the connection to the    *)
(* ICQ network, in terms of the signals of events.h: every attempt that    *)
(* is begun ends in exactly one DisconnectedEvent, whether or not it got   *)
(* as far as a ConnectedEvent, and an attempt that cannot even be begun is *)
(* reported as a low-level failure.  Session is shown to implement this    *)
(* specification, and UserDocument uses it for its connection.             *)
(***************************************************************************)

\* DisconnectedEvent::Reason.  FAILED_BADUSERNAME, FAILED_TURBOING and
\* FAILED_MISMATCH_PASSWD are answers of the authorizer like
\* FAILED_BADPASSWORD and FAILED_UNKNOWN, which stand for them.
Reason == {"REQUESTED", "FAILED_LOWLEVEL", "FAILED_BADPASSWORD",
           "FAILED_DUALLOGIN", "FAILED_UNKNOWN"}

\* The last session signal the application got; "nothing" before the first.
Signal == {"nothing", "connected"} \cup Reason

VARIABLES
    phase,  \* "offline", "connecting" or "online"
    told    \* the last ConnectedEvent or DisconnectedEvent signalled

sessionVars == <<phase, told>>

SessionTypeOK ==
    /\ phase \in {"offline", "connecting", "online"}
    /\ told \in Signal

SessionInit ==
    /\ phase = "offline"
    /\ told = "nothing"

Begin ==
    /\ phase = "offline"
    /\ phase' = "connecting"
    /\ UNCHANGED told

Refuse ==
    /\ phase = "offline"
    /\ told' = "FAILED_LOWLEVEL"
    /\ UNCHANGED phase

LogIn ==
    /\ phase = "connecting"
    /\ phase' = "online"
    /\ told' = "connected"

Drop(r) ==
    /\ phase # "offline"
    /\ phase' = "offline"
    /\ told' = r

SessionNext == Begin \/ Refuse \/ LogIn \/ \E r \in Reason : Drop(r)

SessionBehaviour == SessionInit /\ [][SessionNext]_sessionVars
=============================================================================
