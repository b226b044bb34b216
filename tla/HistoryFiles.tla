----------------------------- MODULE HistoryFiles -----------------------------
(***************************************************************************)
(* The files behind the histories of one contact, operation by operation:  *)
(* History takes a write and a move to be one step each.  Several          *)
(* documents of the program have the contact.  Each has its file in a      *)
(* package of its own; all write to the same temporary directory under the *)
(* contact's number.  Operations may fail, which nobody looks at, and the  *)
(* program may crash between any two.                                      *)
(*                                                                         *)
(* A file is the set of its messages, {} standing for no file.  Moving a   *)
(* file fails when it does not exist or its destination does.  What        *)
(* History tells of loading and dropping the array is kept short: it is    *)
(* loaded when something is appended or cleared.                           *)
(***************************************************************************)
EXTENDS Integers, FiniteSets

CONSTANTS
    Documents,
    MaxCalls,       \* bound on appending, clearing, saving and deleting
    MaxFaults       \* bound on crashes and failing operations

ASSUME FilesAssumption == MaxCalls \in Nat

\* A message is named for its document and the call that appends it.
Own(d) == {d} \X (0 .. MaxCalls)
Entries == UNION {Own(d) : d \in Documents}
\* Enough names: a write leaves one behind at most, and answers a call.
Names == 0 .. MaxCalls

VARIABLES
    path,           \* the file at _path
    backup,         \* the file beside it whose name ends in ~
    aside,          \* the file in the package that a save has set aside
    temporary,      \* the files of the temporary directory, by name
    name,           \* _temporaryPath
    inMemory, memory, \* _messages, if not nil
    toWrite,        \* needsWriting: something has been appended or cleared
    writing,        \* a name is chosen, under both locks
    toMove,         \* needsMoving
    moving,         \* the step of a move that the main thread is at
    saving,         \* the step of a save that a document is at
    deleted,        \* the contact is deleted in the document
    expected,       \* what was appended and not cleared, but for crashes
    archived,       \* what was written last
    promised,       \* what was put in place last
    spoiled,        \* something has happened that may lose or mix histories
    calls, faults

disk == <<path, backup, aside, temporary>>
object == <<name, inMemory, memory, toWrite, writing, toMove>>
fileGhosts == <<expected, archived, promised, spoiled>>
fvars == <<disk, object, moving, saving, deleted, fileGhosts, calls, faults>>

All(v) == [d \in Documents |-> v]

FilesInit ==
    /\ path \in {All({}), [d \in Documents |-> {<<d, 0>>}]}
    /\ backup = All({}) /\ aside = All({}) /\ temporary = [n \in Names |-> {}]
    /\ name = All(0) /\ inMemory = All(FALSE) /\ memory = All({})
    /\ toWrite = All(FALSE) /\ writing = All(FALSE) /\ toMove = All(FALSE)
    /\ moving = All("no") /\ saving = All("no") /\ deleted = All(FALSE)
    /\ expected = path /\ archived = path /\ promised = path /\ spoiled = All(FALSE)
    /\ calls = 0 /\ faults = 0

\* An operation that may fail is given whether it works.
Fault(works) == faults' = IF works THEN faults ELSE faults + 1
Call == calls < MaxCalls /\ calls' = calls + 1
May(works) == works \/ faults < MaxFaults
\* Other callbacks of the main thread; a queued move comes before a reading.
NoMove == \A d \in Documents : moving[d] = "no"
MainIsFree == NoMove /\ \A d \in Documents : saving[d] = "no"

-----------------------------------------------------------------------------
(* The history object.                                                     *)

Change(d, messages) ==
    /\ MainIsFree /\ ~writing[d] /\ ~deleted[d]
    /\ inMemory[d] \/ ~toMove[d]
    /\ Call
    /\ inMemory' = [inMemory EXCEPT ![d] = TRUE]
    /\ memory' = [memory EXCEPT ![d] = messages]
    /\ expected' = [expected EXCEPT ![d] = messages]
    /\ toWrite' = [toWrite EXCEPT ![d] = TRUE]
    /\ UNCHANGED <<disk, name, writing, toMove, moving, saving, deleted, archived, promised,
                   spoiled, faults>>
Contents(d) == IF inMemory[d] THEN memory[d] ELSE path[d]
AppendTo(d) == Change(d, Contents(d) \cup {<<d, calls + 1>>})
ClearHistory(d) == Contents(d) # {} /\ Change(d, {})

\* periodicTask: drops an array that is saved.
Release(d) ==
    /\ MainIsFree /\ inMemory[d] /\ ~toWrite[d] /\ ~writing[d]
    /\ inMemory' = [inMemory EXCEPT ![d] = FALSE]
    /\ memory' = [memory EXCEPT ![d] = {}]
    /\ UNCHANGED <<disk, name, toWrite, writing, toMove, moving, saving, deleted, fileGhosts,
                   faults, calls>>

-----------------------------------------------------------------------------
(* writeMessages:                                                          *)

\* The first name that no file has; FilesTypeOK says that there is one.
Unused(n) == temporary[n] = {} /\ \A k \in 0 .. n - 1 : temporary[k] # {}

\* Another document may have chosen the same name and not written yet, or have
\* an empty history to put in place from there.
ChooseName(d) == \E n \in Names :
    LET rivals == {e \in Documents \ {d} :
                      /\ name[e] = n
                      /\ writing[e] \/ (toMove[e] /\ (archived[e] = {} \/ spoiled[e]))}
    IN  /\ toWrite[d] /\ ~writing[d] /\ Unused(n)
        /\ moving[d] = "no"
        /\ name' = [name EXCEPT ![d] = n]
        /\ writing' = [writing EXCEPT ![d] = TRUE]
        /\ spoiled' = [e \in Documents |->
               spoiled[e] \/ (rivals # {} /\ e \in rivals \cup {d})]
        /\ UNCHANGED <<disk, inMemory, memory, toWrite, toMove, moving, saving, deleted, expected,
                       archived, promised, faults, calls>>

\* archiveRootObject:toFile:, or, of an empty history, the removal of the file.
\* The result is not looked at.
WriteTemporary(d, works) ==
    /\ writing[d] /\ May(works)
    /\ temporary' = [temporary EXCEPT ![name[d]] = IF works THEN memory[d] ELSE @]
    /\ toWrite' = [toWrite EXCEPT ![d] = FALSE]
    /\ writing' = [writing EXCEPT ![d] = FALSE]
    /\ toMove' = [toMove EXCEPT ![d] = TRUE]
    /\ archived' = [archived EXCEPT ![d] = memory[d]]
    /\ spoiled' = [spoiled EXCEPT ![d] = @ \/ ~works]
    /\ Fault(works)
    /\ UNCHANGED <<path, backup, aside, name, inMemory, memory, moving, saving, deleted, expected,
                   promised, calls>>

-----------------------------------------------------------------------------
(* moveTempToPath:, in the main thread.                                    *)

Moves(from, to) == from # {} /\ to = {}

\* A file that a crash has left at the backup's place is in the way.
BackUp(d) ==
    LET moves == Moves(path[d], backup[d])
    IN  /\ NoMove /\ toMove[d] /\ ~writing[d]
        /\ \/ \A e \in Documents : saving[e] = "no"
           \/ saving[d] = "quiescing" /\ ~deleted[d]
        /\ moving' = [moving EXCEPT ![d] = "backed"]
        /\ path' = [path EXCEPT ![d] = IF moves THEN {} ELSE @]
        /\ backup' = [backup EXCEPT ![d] = IF moves THEN path[d] ELSE @]
        /\ spoiled' = [spoiled EXCEPT ![d] = @ \/ backup[d] # {}]
        /\ UNCHANGED <<aside, temporary, object, saving, deleted, expected, archived, promised, faults, calls>>

\* Mutant: the backup is removed before its successor is in place.
PutInPlaceLast(d, works) ==
    /\ moving[d] = "backed" /\ May(works)
    /\ moving' = [moving EXCEPT ![d] = "placed"]
    /\ backup' = [backup EXCEPT ![d] = {}]
    /\ spoiled' = [spoiled EXCEPT ![d] = @ \/ ~works]
    /\ Fault(works)
    /\ UNCHANGED <<path, aside, temporary, object, saving, deleted, expected, archived, promised, calls>>

PutInPlace(d, works) ==
    LET moves == works /\ Moves(temporary[name[d]], path[d])
    IN  /\ moving[d] = "backed" /\ May(works)
        /\ moving' = [moving EXCEPT ![d] = "placed"]
        /\ path' = [path EXCEPT ![d] = IF moves THEN temporary[name[d]] ELSE @]
        /\ temporary' = [temporary EXCEPT ![name[d]] = IF moves THEN {} ELSE @]
        /\ spoiled' = [spoiled EXCEPT ![d] = @ \/ ~works]
        /\ Fault(works)
        /\ UNCHANGED <<backup, aside, object, saving, deleted, expected, archived, promised, calls>>

RemoveBackup(d) ==
    /\ moving[d] = "placed"
    /\ moving' = [moving EXCEPT ![d] = "no"]
    /\ backup' = [backup EXCEPT ![d] = {}]
    /\ toMove' = [toMove EXCEPT ![d] = FALSE]
    /\ promised' = [promised EXCEPT ![d] = archived[d]]
    /\ UNCHANGED <<path, aside, temporary, name, inMemory, memory, toWrite, writing, saving, deleted,
                   expected, archived, spoiled, faults, calls>>

-----------------------------------------------------------------------------
(* The document is saved: AppKit sets its package aside (external) and     *)
(* removes it in the end; writeToFile: moves the histories of the contacts *)
(* that are not deleted and quiesces each.                                 *)

\* What else is in the package is left behind.
SetAside(d) ==
    /\ MainIsFree /\ Call
    /\ saving' = [saving EXCEPT ![d] = "aside"]
    /\ aside' = [aside EXCEPT ![d] = path[d]]
    /\ path' = [path EXCEPT ![d] = {}]
    /\ backup' = [backup EXCEPT ![d] = {}]
    /\ spoiled' = [spoiled EXCEPT ![d] = @ \/ backup[d] # {} \/ aside[d] # {}]
    /\ UNCHANGED <<temporary, object, moving, deleted, expected, archived, promised, faults>>

MoveHistory(d, works) ==
    LET moves == works /\ ~deleted[d]
    IN  /\ saving[d] = "aside" /\ May(works)
        /\ works \/ ~deleted[d]
        /\ saving' = [saving EXCEPT ![d] = "quiescing"]
        /\ path' = [path EXCEPT ![d] = IF moves THEN aside[d] ELSE @]
        /\ aside' = [aside EXCEPT ![d] = IF moves THEN {} ELSE @]
        /\ spoiled' = [spoiled EXCEPT ![d] = @ \/ ~works \/ deleted[d]]
        /\ Fault(works)
        /\ UNCHANGED <<backup, temporary, object, moving, deleted, expected, archived, promised, calls>>

\* quiesce has returned, unless the contact is deleted and it was not called.
EndSave(d) ==
    /\ saving[d] = "quiescing" /\ NoMove
    /\ deleted[d] \/ ~(toWrite[d] \/ toMove[d])
    /\ saving' = [saving EXCEPT ![d] = "no"]
    /\ aside' = [aside EXCEPT ![d] = {}]
    /\ UNCHANGED <<path, backup, temporary, object, moving, deleted, fileGhosts, faults, calls>>

\* deleteContact:, and its undoing
DeleteContact(d) ==
    /\ MainIsFree /\ Call
    /\ deleted' = [deleted EXCEPT ![d] = ~@]
    /\ UNCHANGED <<disk, object, moving, saving, fileGhosts, faults>>

-----------------------------------------------------------------------------
\* A crash and a restart: what is in the files counts as kept.  A file that
\* had been moved out of the way is missed.
Crash ==
    LET Saved(d) == IF moving[d] = "backed" /\ backup[d] # {} THEN backup[d]
                    ELSE IF saving[d] = "aside" THEN aside[d] ELSE path[d]
    IN  /\ faults < MaxFaults /\ faults' = faults + 1
        /\ toMove' = All(FALSE) /\ toWrite' = All(FALSE) /\ writing' = All(FALSE)
        /\ inMemory' = All(FALSE) /\ memory' = All({})
        /\ moving' = All("no") /\ saving' = All("no") /\ deleted' = All(FALSE)
        /\ expected' = [d \in Documents |-> Saved(d)]
        /\ archived' = expected'
        /\ promised' = [d \in Documents |-> IF moving[d] = "placed" THEN path[d] ELSE promised[d]]
        /\ UNCHANGED <<disk, name, spoiled, calls>>

FilesNext ==
    \/ \E d \in Documents :
          \/ AppendTo(d) \/ ClearHistory(d) \/ Release(d)
          \/ ChooseName(d) \/ BackUp(d) \/ RemoveBackup(d)
          \/ SetAside(d) \/ EndSave(d) \/ DeleteContact(d)
          \/ \E works \in BOOLEAN : WriteTemporary(d, works) \/ PutInPlace(d, works) \/ MoveHistory(d, works)
    \/ Crash

FilesSpec == FilesInit /\ [][FilesNext]_fvars

-----------------------------------------------------------------------------
\* A crash inside a move or a save has left a file out of its place.
LeftOver(d) ==
    \/ backup[d] # {} /\ moving[d] = "no"
    \/ aside[d] # {} /\ saving[d] = "no"

\* The values the variables take; a move is under way only if it is needed.
FilesTypeOK ==
    /\ \A d \in Documents :
          /\ {path[d], backup[d], aside[d], memory[d], expected[d], archived[d], promised[d]}
                 \subseteq SUBSET Entries
          /\ {inMemory[d], toWrite[d], writing[d], toMove[d], deleted[d], spoiled[d]}
                 \subseteq BOOLEAN
          /\ name[d] \in Names /\ saving[d] \in {"no", "aside", "quiescing"}
          /\ moving[d] \in {"no", "backed", "placed"}
          /\ moving[d] # "no" => toMove[d]
    /\ \E n \in Names : Unused(n)
    /\ \A n \in Names : temporary[n] \in SUBSET Entries

\* Whatever step a crash comes after, the history that was put in place last
\* is somewhere on the disk, until the next move or save finds what the crash
\* has left in its way.
SavedIsOnDisk ==
    \A d \in Documents : spoiled[d] \/ promised[d] \in {path[d], backup[d], aside[d]}
                         \/ (moving[d] = "placed" /\ path[d] = archived[d])

\* No history has messages of another document's, unless they have chosen
\* the same name at the same time.
HistoriesStayApart ==
    \A d \in Documents : spoiled[d] \/ path[d] \cup backup[d] \cup memory[d] \subseteq Own(d)

\* What a reader finds is what was appended and not cleared, unless a crash
\* has left files out of their places, an operation has failed, the document
\* was saved while the contact was deleted, or names have collided.
ReaderFindsKept ==
    \A d \in Documents :
       \/ spoiled[d] \/ LeftOver(d) \/ saving[d] # "no"
       \/ expected[d] = IF inMemory[d] THEN memory[d]
                    ELSE IF toMove[d] /\ moving[d] # "placed" THEN temporary[name[d]]
                    ELSE path[d]

\* Crashes, failures and another document with the same contact, which write
\* to the same directory, neither lose nor mix histories, but for the cases
\* that each part names.
FilesAreKept == SavedIsOnDisk /\ HistoriesStayApart /\ ReaderFindsKept
=============================================================================
