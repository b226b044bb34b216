----------------------------- MODULE MCHistory -----------------------------
(***************************************************************************)
(* History with two messages and two threads: enough for two writes to be  *)
(* under way while a message is appended and another cleared; and the      *)
(* files of a contact that two documents have.  The two share no state: a  *)
(* behaviour is one of either and leaves the other's variables alone.  No  *)
(* symmetry is declared, since the run also checks a liveness property.    *)
(***************************************************************************)
EXTENDS History, HistoryFiles

VARIABLE part       \* "history" or "files"

allVars == <<vars, part, fvars>>

FilesAtRest ==
    /\ FilesInit
    /\ \A d \in Documents : path[d] = {}

BothInit ==
    \/ part = "history" /\ Init /\ FilesAtRest
    \/ part = "files" /\ Init /\ file = {} /\ FilesInit

BothNext ==
    \/ part = "history" /\ Next /\ UNCHANGED <<part, fvars>>
    \/ part = "files" /\ FilesNext /\ UNCHANGED <<part, vars>>
    \/ /\ part = "files" /\ calls = MaxCalls   \* the bound is reached
       /\ UNCHANGED allVars

BothSpec == BothInit /\ [][BothNext]_allVars /\ Fairness

\* The values the variables of both take.
TypesOK == TypeOK /\ FilesTypeOK
=============================================================================
