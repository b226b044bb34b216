------------------------------ MODULE History ------------------------------
(***************************************************************************)
(* The history of one contact in one document: an array that is read from  *)
(* its file when somebody looks at it and dropped when nobody does, the    *)
(* messages not yet saved, and threads that archive the array to a         *)
(* temporary file which the main thread then moves into place.  Three      *)
(* locks order them: _needsWritingLock around a whole writeMessages:,      *)
(* _needsMovingLock around the temporary file, _messagesLock around the    *)
(* two arrays.  A step below is what happens between two lock operations   *)
(* that another thread can tell apart; _messagesLock is only ever held     *)
(* within one step.                                                        *)
(*                                                                         *)
(* A file or array is the set of its messages, {} standing for no file.    *)
(* Moving files and archiving are taken to succeed.                        *)
(***************************************************************************)
EXTENDS Naturals

CONSTANTS
    Messages,
    Workers,    \* threads that may be detached at a time, a bound
    Prompt      \* whether a queued move is performed before the main thread
                \* reads the file again

ASSUME HistoryAssumption == "main" \notin Workers /\ Prompt \in BOOLEAN

Threads == Workers \cup {"main"}

VARIABLES
    loaded,         \* _messages is not nil
    messages,       \* _messages
    unsaved,        \* _unsavedMessages
    needsWriting, needsMoving,
    scheduled,      \* _periodicTaskIsScheduled
    temp,           \* the file at _temporaryPath
    file,           \* the file at _path
    queued,         \* moveTempToPath: waits in the main run loop
    pc,             \* where each thread is
    kept,           \* the messages appended and not cleared
    quiet           \* quiesce returned and nothing was appended or cleared since

arrays == <<loaded, messages, unsaved>>
files == <<temp, file, needsMoving>>
ghosts == <<kept, quiet>>
vars == <<arrays, needsWriting, scheduled, files, queued, pc, ghosts>>

Init ==
    /\ loaded = FALSE /\ messages = {} /\ unsaved = {}
    /\ needsWriting = FALSE /\ needsMoving = FALSE
    /\ scheduled = FALSE
    /\ temp = {} /\ file \in SUBSET Messages
    /\ queued = FALSE
    /\ pc = [t \in Threads |-> "idle"]
    /\ kept = file /\ quiet = FALSE

\* Who holds _needsWritingLock and _needsMovingLock.
WritingLocked == \E t \in Threads : pc[t] \in {"writing", "archived"}
MovingLocked == \E t \in Threads : pc[t] = "writing"

-----------------------------------------------------------------------------
(* writeMessages:, in a thread of its own or in the main one.              *)

\* Mutant: every thread moves the file it has written.
AfterWritingMoves(t) == "moving"

\* Where writeMessages: returns to: quiesce, or the end of the thread.
AfterWriting(t) == IF t = "main" THEN "moving" ELSE "idle"

\* Taking both locks and choosing a name for the temporary file, unless
\* another thread has written since.
BeginWriting(t) ==
    /\ pc[t] = "detached"
    /\ ~WritingLocked
    /\ pc' = [pc EXCEPT ![t] = IF needsWriting THEN "writing" ELSE AfterWriting(t)]
    /\ UNCHANGED <<arrays, needsWriting, scheduled, files, queued, ghosts>>

\* The array is archived or, when empty, the temporary file removed.
Archive(t) ==
    /\ pc[t] = "writing"
    /\ pc' = [pc EXCEPT ![t] = "archived"]
    /\ temp' = messages /\ unsaved' = {}
    /\ needsMoving' = TRUE
    /\ UNCHANGED <<loaded, messages, needsWriting, scheduled, file, queued, ghosts>>

FinishWriting(t) ==
    /\ pc[t] = "archived"
    /\ needsWriting' = FALSE
    /\ queued' = TRUE
    /\ pc' = [pc EXCEPT ![t] = AfterWriting(t)]
    /\ UNCHANGED <<arrays, scheduled, files, ghosts>>

-----------------------------------------------------------------------------
(* The main thread.                                                        *)

AtRest == pc["main"] = "idle"

\* messages: reads the file when there is no array.
Load ==
    /\ ~loaded /\ Prompt => ~queued
    /\ loaded' = TRUE
    /\ messages' = IF loaded THEN messages ELSE file \cup unsaved

\* The start of saveMessages and of quiesce: unsaved messages need writing.
MarkUnsaved ==
    IF unsaved # {}
    THEN Load /\ needsWriting' = TRUE
    ELSE UNCHANGED <<loaded, messages, needsWriting>>

\* The main thread goes on with m after detaching a thread for
\* writeMessages:, which retains the array.
Detach(m) ==
    \E w \in Workers :
       /\ pc[w] = "idle"
       /\ pc' = [pc EXCEPT !["main"] = m, ![w] = "detached"]

\* moveTempToPath:
Move ==
    /\ ~MovingLocked
    /\ IF needsMoving
       THEN file' = temp /\ temp' = {} /\ needsMoving' = FALSE
       ELSE UNCHANGED files

\* Mutant: only an array in memory is saved periodically.
AppendUnscheduled(m) ==
    /\ AtRest
    /\ m \notin kept
    /\ messages' = IF loaded THEN messages \cup {m} ELSE messages
    /\ unsaved' = unsaved \cup {m}
    /\ kept' = kept \cup {m} /\ quiet' = FALSE
    /\ UNCHANGED <<loaded, needsWriting, scheduled, files, queued, pc>>

\* appendMessage: when one was received or delivered
AppendMessage(m) ==
    /\ AtRest
    /\ m \notin kept
    /\ messages' = IF loaded THEN messages \cup {m} ELSE messages
    /\ unsaved' = unsaved \cup {m}
    /\ scheduled' = TRUE
    /\ kept' = kept \cup {m} /\ quiet' = FALSE
    /\ UNCHANGED <<loaded, needsWriting, files, queued, pc>>

\* The history window shows, prints or exports the messages.
ShowMessages ==
    /\ AtRest
    /\ Load
    /\ scheduled' = (scheduled \/ ~loaded)
    /\ UNCHANGED <<unsaved, needsWriting, files, queued, pc, ghosts>>

\* periodicTask:, up to the end of saveMessages
PeriodicTask ==
    /\ AtRest
    /\ scheduled
    /\ ~WritingLocked
    /\ MarkUnsaved
    /\ scheduled' = (unsaved # {} /\ ~loaded)
    /\ IF needsWriting' THEN Detach("checking") ELSE pc' = [pc EXCEPT !["main"] = "checking"]
    /\ UNCHANGED <<unsaved, files, queued, ghosts>>

\* Mutant: a thread's hold on the array is not looked at.
ReleaseUsedMessages ==
    /\ pc["main"] = "checking"
    /\ pc' = [pc EXCEPT !["main"] = "idle"]
    /\ loaded' \in IF unsaved = {} THEN {FALSE, loaded} ELSE {loaded}
    /\ messages' = IF loaded' THEN messages ELSE {}
    /\ scheduled' = (scheduled \/ loaded')
    /\ UNCHANGED <<unsaved, needsWriting, files, queued, ghosts>>

\* The rest of periodicTask: drops an array that is saved and that neither a
\* thread nor a view retains.
ReleaseMessages ==
    /\ pc["main"] = "checking"
    /\ pc' = [pc EXCEPT !["main"] = "idle"]
    /\ loaded' \in IF unsaved = {} /\ \A w \in Workers : pc[w] = "idle" THEN {FALSE, loaded} ELSE {loaded}
    /\ messages' = IF loaded' THEN messages ELSE {}
    /\ scheduled' = (scheduled \/ loaded')
    /\ UNCHANGED <<unsaved, needsWriting, files, queued, ghosts>>

\* clearMessagesSentBefore: removes messages from the array ...
ClearMessages(old) ==
    /\ AtRest
    /\ ~loaded /\ Prompt => ~queued
    /\ old # {} /\ old \subseteq kept
    /\ loaded' = TRUE
    /\ messages' = (IF loaded THEN messages ELSE file \cup unsaved) \ old
    /\ scheduled' = (scheduled \/ ~loaded)
    /\ pc' = [pc EXCEPT !["main"] = "clearing"]
    /\ kept' = kept \ old /\ quiet' = FALSE
    /\ UNCHANGED <<unsaved, needsWriting, files, queued>>

\* ... and has it written.
WriteCleared ==
    /\ pc["main"] = "clearing"
    /\ ~WritingLocked
    /\ needsWriting' = TRUE
    /\ Detach("idle")
    /\ UNCHANGED <<arrays, scheduled, files, queued, ghosts>>

\* quiesce, when the document is saved, up to writeMessages:
Quiesce ==
    /\ AtRest
    /\ ~WritingLocked
    /\ MarkUnsaved
    /\ scheduled' = (scheduled \/ (unsaved # {} /\ ~loaded))
    /\ pc' = [pc EXCEPT !["main"] = "detached"]
    /\ UNCHANGED <<unsaved, files, queued, ghosts>>

\* Mutant: the move is left to the run loop.
EndQuiesceQueued ==
    /\ pc["main"] = "moving"
    /\ pc' = [pc EXCEPT !["main"] = "idle"]
    /\ quiet' = TRUE
    /\ UNCHANGED <<arrays, needsWriting, scheduled, files, queued, kept>>

EndQuiesce ==
    /\ pc["main"] = "moving"
    /\ Move
    /\ pc' = [pc EXCEPT !["main"] = "idle"]
    /\ quiet' = TRUE
    /\ UNCHANGED <<arrays, needsWriting, scheduled, queued, kept>>

\* The run loop performs the move a thread has asked for.
PerformMove ==
    /\ AtRest
    /\ queued /\ queued' = FALSE
    /\ Move
    /\ UNCHANGED <<arrays, needsWriting, scheduled, pc, ghosts>>

-----------------------------------------------------------------------------
WriteMessages(t) == BeginWriting(t) \/ Archive(t) \/ FinishWriting(t)

Next ==
    \/ \E t \in Threads : WriteMessages(t)
    \/ \E m \in Messages : AppendMessage(m)
    \/ ShowMessages \/ WriteCleared \/ \E old \in SUBSET Messages : ClearMessages(old)
    \/ PeriodicTask \/ ReleaseMessages
    \/ Quiesce \/ EndQuiesce \/ PerformMove

Spec == Init /\ [][Next]_vars

\* Threads run, and so does what the main thread is in the middle of; a pass
\* of the run loop performs what is queued and fires the timers that are due,
\* whatever else it does.
Fairness ==
    /\ \A t \in Threads : WF_vars(WriteMessages(t))
    /\ WF_vars(ReleaseMessages \/ WriteCleared \/ EndQuiesce)
    /\ SF_vars(PeriodicTask) /\ SF_vars(PerformMove)

FairSpec == Spec /\ Fairness

-----------------------------------------------------------------------------
(* Properties.                                                             *)

TypeOK ==
    /\ {loaded, needsWriting, needsMoving, scheduled, queued, quiet} \subseteq BOOLEAN
    /\ {messages, unsaved, temp, file, kept} \subseteq SUBSET Messages
    /\ pc["main"] \in {"idle", "checking", "clearing", "detached", "writing", "archived", "moving"}
    /\ \A w \in Workers : pc[w] \in {"idle", "detached", "writing", "archived"}

\* What a reader would find, in the array or, when it has been dropped, in the
\* file that is or will be in place and among the unsaved messages, is what
\* was appended and not cleared, whatever is being written meanwhile.
NothingLost ==
    kept = IF loaded THEN messages
           ELSE (IF needsMoving THEN temp ELSE file) \cup unsaved

\* When nothing waits to be written or moved the file is what was appended and
\* not cleared: a crash would lose nothing.
SavedIsDurable ==
    unsaved = {} /\ ~needsWriting /\ ~needsMoving /\ pc["main"] # "clearing" => file = kept

\* No thread is left with an array the main thread has dropped: archiving nil
\* would remove the history.
WriterHasArray == (\E w \in Workers : pc[w] # "idle") \/ needsWriting => loaded

\* After quiesce neither file is touched until something is appended or
\* cleared, although threads and moves it overtook are still to come.
QuiesceIsQuiet == [][quiet /\ quiet' => UNCHANGED <<temp, file>>]_vars

\* Every message reaches the file, unless it is cleared.
EverythingIsSaved == \A m \in Messages : m \in kept ~> (m \in file \/ m \notin kept)

\* Whatever the threads are doing, each message is in memory or in a file,
\* in the file when all is at rest, and no thread writes a dropped array.
HistoryIsWhole == NothingLost /\ SavedIsDurable /\ WriterHasArray
=============================================================================
