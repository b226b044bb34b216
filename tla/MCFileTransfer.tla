--------------------------- MODULE MCFileTransfer ---------------------------
(***************************************************************************)
(* FileTransfer for offers of one and two files, some of them empty, and   *)
(* Mail, which shares no state with it, in one run: a behaviour is one of  *)
(* the first or one of the second, and leaves the other's variables at an  *)
(* initial state.                                                          *)
(***************************************************************************)
EXTENDS FileTransfer, Mail

VARIABLE part   \* "files" or "mail"

MCOffers == {<<2>>, <<1, 2>>, <<2, 1>>, <<0, 1>>, <<1, 0>>}

SocketsInit ==
    /\ part \in {"files", "mail"}
    /\ Init /\ MailInit
    /\ part = "mail" => /\ offer.sizes = <<2>> /\ ~offer.known /\ offer.garbage = 0
                        /\ offer.existing = {} /\ offer.locked = {} /\ offer.missing = {}

SocketsNext ==
    \/ part = "files" /\ Next /\ UNCHANGED <<part, mail>>
    \/ part = "mail" /\ MailNext /\ UNCHANGED <<part, vars>>

\* The fairness of either; an initial state of FileTransfer that is not its
\* behaviour waits for nobody.
SocketsSpec ==
    /\ SocketsInit /\ [][SocketsNext]_<<vars, mail, part>>
    /\ WF_vars(part = "files" /\ SenderRuns) /\ WF_vars(part = "files" /\ ReceiverRuns)
    /\ MailFairness

\* The values the variables of both take.
TypesOK == TypeOK /\ MailTypeOK
=============================================================================
