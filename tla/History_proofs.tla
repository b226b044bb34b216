--------------------------- MODULE History_proofs ---------------------------
(***************************************************************************)
(* Proofs about History and HistoryFiles, and about MCHistory, which runs  *)
(* both: for every set of messages, threads and documents and all bounds.  *)
(*                                                                         *)
(* History: the difficulty is that the same messages are in up to four     *)
(* places: the array, the unsaved ones, the temporary file and the file.   *)
(* IInv says which of them is right when: the array whenever there is one; *)
(* the newer file with the unsaved messages whenever nothing remains to be *)
(* written; and that no thread is left with something to write once the    *)
(* main thread has dropped the array or has quiesced.                      *)
(*                                                                         *)
(* HistoryFiles: that the files are kept (FilesAreKept), that their        *)
(* variables keep their types and a name is left for every write           *)
(* (FilesTypeOK).  FilesAreKept speaks of a document only until something  *)
(* has spoiled it.  Most of a proof step is about the one document that    *)
(* the step is of: UntouchedOK and OneDocument dispose of the others.      *)
(* They are not simply unchanged, for all documents write to one           *)
(* directory: a choice of a name may spoil two, and a write changes a file *)
(* that another might wait for, but for NamesApart.                        *)
(***************************************************************************)
EXTENDS MCHistory, FiniteSetTheorems, WellFoundedInduction, TLAPS

-----------------------------------------------------------------------------
(* One history: the array, the threads that write and the main thread.     *)

States == {"idle", "checking", "clearing", "detached", "writing", "archived", "moving"}

\* The newer of the two files.
Newer == IF needsMoving THEN temp ELSE file

NoneArchived == \A t \in Threads : pc[t] # "archived"

Types ==
    /\ {loaded, needsWriting, needsMoving, scheduled, queued, quiet} \subseteq BOOLEAN
    /\ messages \in SUBSET Messages /\ unsaved \in SUBSET Messages
    /\ temp \in SUBSET Messages /\ file \in SUBSET Messages
    /\ kept \in SUBSET Messages
    /\ pc \in [Threads -> States]
    /\ \A w \in Workers : pc[w] \notin {"checking", "clearing", "moving"}

\* At most one thread holds _needsWritingLock.
OneWriter ==
    \A t, u \in Threads :
       pc[t] \in {"writing", "archived"} /\ pc[u] \in {"writing", "archived"} => t = u

\* While there is an array it is what a reader should find; while there is
\* none, nobody has one or will ask for one to be written.
ArrayIsRight ==
    /\ loaded => messages = kept
    /\ ~loaded =>
          /\ ~needsWriting
          /\ \A w \in Workers : pc[w] = "idle"
          /\ pc["main"] \notin {"clearing", "writing", "archived"}

\* What is not on its way to being written is in the newer file or unsaved.
FilesAreRight ==
    (needsWriting /\ NoneArchived) \/ pc["main"] = "clearing" \/ Newer \cup unsaved = kept

\* Somebody is about to do what is marked as needed.
WorkIsAssigned ==
    /\ needsWriting => \E t \in Threads : pc[t] \in {"detached", "writing", "archived"}
    /\ needsMoving => queued \/ \E t \in Threads : pc[t] = "archived"

\* The main thread, in quiesce, has nothing unsaved left behind.
QuiesceSaves ==
    /\ pc["main"] \in {"detached", "writing", "archived", "moving"} =>
          unsaved = {} \/ (needsWriting /\ NoneArchived)
    /\ pc["main"] = "moving" => ~needsWriting /\ ~WritingLocked

QuietIsDone ==
    quiet =>
       /\ unsaved = {} /\ ~needsWriting /\ ~needsMoving /\ ~WritingLocked
       /\ pc["main"] # "clearing"

IInv ==
    /\ Types
    /\ OneWriter
    /\ ArrayIsRight
    /\ FilesAreRight
    /\ WorkIsAssigned
    /\ QuiesceSaves
    /\ QuietIsDone
-----------------------------------------------------------------------------
(* Types, which do not depend on when a queued move is performed.          *)

\* Every step keeps every variable's type.
LEMMA TypesKept ==
    ASSUME Types, Next
    PROVE  Types'
<1> USE HistoryAssumption DEF Types, Threads, States
<1>1. ASSUME NEW t \in Threads, WriteMessages(t)
      PROVE  Types'
  BY <1>1 DEF WriteMessages, BeginWriting, Archive, FinishWriting,
              AfterWriting, arrays, files, ghosts
<1>2. ASSUME NEW m \in Messages, AppendMessage(m)
      PROVE  Types'
  BY <1>2 DEF AppendMessage, files
<1>3. CASE ShowMessages
  BY <1>3 DEF ShowMessages, Load, AtRest, files, ghosts
<1>4. CASE WriteCleared
  BY <1>4 DEF WriteCleared, Detach, arrays, files, ghosts
<1>5. ASSUME NEW old \in SUBSET Messages, ClearMessages(old)
      PROVE  Types'
  BY <1>5 DEF ClearMessages, AtRest, files
<1>6. CASE PeriodicTask
  <2>1. /\ pc' \in [Threads -> States]
        /\ \A w \in Workers : pc'[w] \notin {"checking", "clearing", "moving"}
    <3>1. CASE Detach("checking")
      BY <3>1 DEF Detach
    <3>2. CASE pc' = [pc EXCEPT !["main"] = "checking"]
      BY <3>2
    <3> QED
      BY <1>6, <3>1, <3>2 DEF PeriodicTask
  <2>2. loaded' \in BOOLEAN /\ needsWriting' \in BOOLEAN /\ messages' \in SUBSET Messages
    BY <1>6 DEF PeriodicTask, MarkUnsaved, Load
  <2> QED
    BY <1>6, <2>1, <2>2 DEF PeriodicTask, files, ghosts
<1>7. CASE ReleaseMessages
  BY <1>7 DEF ReleaseMessages, files, ghosts
<1>8. CASE Quiesce
  BY <1>8 DEF Quiesce, MarkUnsaved, Load, AtRest, files, ghosts
<1>9. CASE EndQuiesce
  BY <1>9 DEF EndQuiesce, Move, arrays, files
<1>10. CASE PerformMove
  BY <1>10 DEF PerformMove, Move, AtRest, arrays, files, ghosts
<1> QED
  BY <1>1, <1>2, <1>3, <1>4, <1>5, <1>6, <1>7, <1>8, <1>9, <1>10 DEF Next

\* Every variable has its type in every reachable state.
THEOREM TypeCorrect == Spec => []TypeOK
<1>1. Init => Types
  BY DEF Init, Types, Threads, States
<1>2. Types /\ [Next]_vars => Types'
  <2> SUFFICES ASSUME Types, [Next]_vars PROVE Types'
    OBVIOUS
  <2>1. CASE Next
    BY <2>1, TypesKept
  <2>2. CASE UNCHANGED vars
    BY <2>2 DEF Types, vars, arrays, files, ghosts
  <2> QED
    BY <2>1, <2>2
<1>3. Types => TypeOK
  BY HistoryAssumption DEF Types, TypeOK, Threads, States
<1> QED
  BY <1>1, <1>2, <1>3, PTL DEF Spec

-----------------------------------------------------------------------------
(* The invariant.                                                          *)

\* What the main thread reads when there is no array is what a reader should
\* find.
LEMMA ReadIsRight ==
    ASSUME IInv, AtRest, ~loaded, ~queued
    PROVE  file \cup unsaved = kept
BY HistoryAssumption
   DEF IInv, ArrayIsRight, FilesAreRight, WorkIsAssigned, Newer, AtRest, Threads

\* Marking what is unsaved leaves the right array and forgets nothing.
LEMMA MarkIsRight ==
    ASSUME IInv, Prompt, AtRest, ~WritingLocked, MarkUnsaved
    PROVE  /\ loaded' => messages' = kept
           /\ ~loaded' => ~loaded /\ ~needsWriting'
           /\ unsaved # {} => needsWriting'
           /\ needsWriting => needsWriting'
           /\ unsaved = {} => needsWriting' = needsWriting
           /\ (needsWriting' /\ NoneArchived) \/ Newer \cup unsaved = kept
<1>1. NoneArchived
  BY DEF WritingLocked, NoneArchived
<1>2. needsWriting \/ Newer \cup unsaved = kept
  BY DEF IInv, FilesAreRight, AtRest
<1>3. CASE unsaved = {}
  BY <1>1, <1>2, <1>3 DEF MarkUnsaved, IInv, ArrayIsRight
<1>4. CASE unsaved # {}
  BY <1>1, <1>4, ReadIsRight DEF MarkUnsaved, Load, IInv, ArrayIsRight
<1> QED
  BY <1>3, <1>4

\* A thread's part of writeMessages: keeps the invariant.
LEMMA WritingKeeps ==
    ASSUME IInv, Types', NEW t \in Threads, WriteMessages(t)
    PROVE  IInv'
<1> USE DEF WritingLocked, NoneArchived
<1>1. CASE BeginWriting(t)
  <2> USE <1>1 DEF BeginWriting, AfterWriting, arrays, files, ghosts
  <2>1. OneWriter'
    BY DEF IInv, Types, OneWriter
  <2>2. ArrayIsRight'
    BY HistoryAssumption DEF IInv, Types, ArrayIsRight, Threads
  <2>3. FilesAreRight'
    BY HistoryAssumption DEF IInv, Types, FilesAreRight, Newer, Threads
  <2>4. WorkIsAssigned'
    BY DEF IInv, Types, WorkIsAssigned
  <2>5. QuiesceSaves'
    BY HistoryAssumption DEF IInv, Types, QuiesceSaves, Threads
  <2>6. QuietIsDone'
    BY HistoryAssumption DEF IInv, Types, QuietIsDone, Threads
  <2> QED
    BY <2>1, <2>2, <2>3, <2>4, <2>5, <2>6 DEF IInv
<1>2. CASE Archive(t)
  <2> USE <1>2 DEF Archive, files, ghosts
  <2>1. OneWriter'
    BY DEF IInv, Types, OneWriter
  <2>2. loaded /\ messages = kept
    BY HistoryAssumption DEF IInv, Types, ArrayIsRight, Threads
  <2>3. ArrayIsRight'
    BY <2>2 DEF ArrayIsRight
  <2>4. FilesAreRight'
    BY <2>2 DEF FilesAreRight, Newer
  <2>5. WorkIsAssigned'
    BY DEF IInv, Types, WorkIsAssigned
  <2>6. QuiesceSaves'
    BY HistoryAssumption DEF IInv, Types, QuiesceSaves, Threads
  <2>7. QuietIsDone'
    BY DEF IInv, QuietIsDone
  <2> QED
    BY <2>1, <2>3, <2>4, <2>5, <2>6, <2>7 DEF IInv
<1>3. CASE FinishWriting(t)
  <2> USE <1>3 DEF FinishWriting, AfterWriting, arrays, files, ghosts
  <2>1. OneWriter'
    BY DEF IInv, Types, OneWriter
  <2>2. ~NoneArchived
    OBVIOUS
  <2>3. \A u \in Threads : pc'[u] \notin {"writing", "archived"}
    BY DEF IInv, Types, OneWriter
  <2>4. ArrayIsRight'
    BY HistoryAssumption DEF IInv, Types, ArrayIsRight, Threads
  <2>5. FilesAreRight'
    BY <2>2, HistoryAssumption DEF IInv, Types, FilesAreRight, Newer, Threads
  <2>6. WorkIsAssigned'
    BY DEF WorkIsAssigned
  <2>7. QuiesceSaves'
    BY <2>2, <2>3, HistoryAssumption DEF IInv, Types, QuiesceSaves, Threads
  <2>8. QuietIsDone'
    BY DEF IInv, QuietIsDone
  <2> QED
    BY <2>1, <2>4, <2>5, <2>6, <2>7, <2>8 DEF IInv
<1> QED
  BY <1>1, <1>2, <1>3 DEF WriteMessages

\* Appending keeps the invariant.
LEMMA AppendKeeps ==
    ASSUME IInv, Types', NEW m \in Messages, AppendMessage(m)
    PROVE  IInv'
<1> USE DEF AppendMessage, AtRest, files
<1>1. OneWriter'
  BY DEF IInv, OneWriter
<1>2. ArrayIsRight'
  BY DEF IInv, ArrayIsRight
<1>3. FilesAreRight'
  BY DEF IInv, FilesAreRight, Newer, NoneArchived
<1>4. WorkIsAssigned'
  BY DEF IInv, WorkIsAssigned
<1>5. QuiesceSaves' /\ QuietIsDone'
  BY DEF QuiesceSaves, QuietIsDone
<1> QED
  BY <1>1, <1>2, <1>3, <1>4, <1>5 DEF IInv

\* Reading the file keeps the invariant.
LEMMA ShowKeeps ==
    ASSUME IInv, Types', Prompt, ShowMessages
    PROVE  IInv'
<1> USE DEF ShowMessages, files, ghosts
<1>1. ArrayIsRight'
  BY ReadIsRight DEF Load, IInv, ArrayIsRight
<1>2. OneWriter' /\ FilesAreRight' /\ WorkIsAssigned' /\ QuiesceSaves' /\ QuietIsDone'
  BY DEF IInv, OneWriter, FilesAreRight, WorkIsAssigned, QuiesceSaves,
         QuietIsDone, Newer, NoneArchived, WritingLocked
<1> QED
  BY <1>1, <1>2 DEF IInv

\* Both halves of clearing keep the invariant.
LEMMA ClearKeeps ==
    ASSUME IInv, Types', Prompt,
           WriteCleared \/ \E old \in SUBSET Messages : ClearMessages(old)
    PROVE  IInv'
<1>1. ASSUME NEW old \in SUBSET Messages, ClearMessages(old)
      PROVE  IInv'
  <2> USE <1>1 DEF ClearMessages, files
  <2>1. OneWriter'
    BY DEF IInv, Types, OneWriter
  <2>2. ArrayIsRight'
    BY ReadIsRight DEF IInv, ArrayIsRight
  <2>3. FilesAreRight'
    BY HistoryAssumption DEF IInv, Types, FilesAreRight, Threads
  <2>4. WorkIsAssigned'
    BY DEF IInv, Types, WorkIsAssigned, AtRest
  <2>5. QuiesceSaves' /\ QuietIsDone'
    BY HistoryAssumption DEF IInv, Types, QuiesceSaves, QuietIsDone, Threads
  <2> QED
    BY <2>1, <2>2, <2>3, <2>4, <2>5 DEF IInv
<1>2. CASE WriteCleared
  <2>1. PICK w \in Workers : /\ pc[w] = "idle"
                            /\ pc' = [pc EXCEPT !["main"] = "idle", ![w] = "detached"]
    BY <1>2 DEF WriteCleared, Detach
  <2> USE <1>2, <2>1, HistoryAssumption
      DEF WriteCleared, arrays, files, ghosts, WritingLocked, NoneArchived, Threads, Types
  <2>2. OneWriter'
    BY DEF IInv, OneWriter
  <2>3. loaded /\ messages = kept
    BY DEF IInv, ArrayIsRight
  <2>4. ArrayIsRight'
    BY <2>3 DEF ArrayIsRight
  <2>5. FilesAreRight'
    BY DEF FilesAreRight, IInv
  <2>6. WorkIsAssigned'
    BY DEF WorkIsAssigned, IInv
  <2>7. QuiesceSaves' /\ QuietIsDone'
    BY DEF QuiesceSaves, QuietIsDone, IInv
  <2> QED
    BY <2>2, <2>4, <2>5, <2>6, <2>7 DEF IInv
<1> QED
  BY <1>1, <1>2

\* The periodic task keeps the invariant.
LEMMA PeriodicKeeps ==
    ASSUME IInv, Types', Prompt, PeriodicTask \/ ReleaseMessages
    PROVE  IInv'
<1> USE HistoryAssumption DEF Types, Threads, files, ghosts
<1>1. CASE PeriodicTask
  <2>1. /\ AtRest /\ ~WritingLocked /\ MarkUnsaved
        /\ UNCHANGED <<unsaved, files, queued, ghosts>>
    BY <1>1 DEF PeriodicTask
  <2>2. IF needsWriting'
        THEN \E w \in Workers :
                pc[w] = "idle" /\ pc' = [pc EXCEPT !["main"] = "checking", ![w] = "detached"]
        ELSE pc' = [pc EXCEPT !["main"] = "checking"]
    BY <1>1 DEF PeriodicTask, Detach
  <2>3. ~WritingLocked' /\ NoneArchived' /\ pc'["main"] = "checking"
    BY <2>1, <2>2 DEF IInv, WritingLocked, NoneArchived
  <2>4. OneWriter'
    BY <2>3 DEF OneWriter, WritingLocked
  <2>5. ArrayIsRight'
    BY <2>1, <2>2, <2>3, MarkIsRight DEF IInv, ArrayIsRight
  <2>6. FilesAreRight'
    BY <2>1, <2>3, MarkIsRight DEF FilesAreRight, Newer
  <2>7. WorkIsAssigned'
    <3>1. needsMoving => queued
      BY <2>1 DEF IInv, WorkIsAssigned, WritingLocked
    <3>2. needsWriting' => \E w \in Workers : pc'[w] = "detached"
      BY <2>2 DEF IInv
    <3> QED
      BY <2>1, <3>1, <3>2 DEF WorkIsAssigned
  <2>8. QuiesceSaves'
    BY <2>3 DEF QuiesceSaves
  <2>9. QuietIsDone'
    BY <2>1, <2>3, MarkIsRight DEF IInv, QuietIsDone
  <2> QED
    BY <2>4, <2>5, <2>6, <2>7, <2>8, <2>9 DEF IInv
<1>2. CASE ReleaseMessages
  <2> USE <1>2 DEF ReleaseMessages, WritingLocked, NoneArchived
  <2>1. OneWriter'
    BY DEF IInv, OneWriter
  <2>2. ~loaded' /\ loaded => ~needsWriting /\ \A w \in Workers : pc[w] = "idle"
    BY DEF IInv, WorkIsAssigned
  <2>3. ArrayIsRight'
    BY <2>2 DEF IInv, ArrayIsRight
  <2>4. FilesAreRight'
    BY DEF IInv, FilesAreRight, Newer
  <2>5. WorkIsAssigned'
    BY DEF IInv, WorkIsAssigned
  <2>6. QuiesceSaves' /\ QuietIsDone'
    BY DEF IInv, QuiesceSaves, QuietIsDone
  <2> QED
    BY <2>1, <2>3, <2>4, <2>5, <2>6 DEF IInv
<1> QED
  BY <1>1, <1>2

\* Quiescing keeps the invariant.
LEMMA QuiesceKeeps ==
    ASSUME IInv, Types', Prompt, Quiesce \/ EndQuiesce
    PROVE  IInv'
<1> USE HistoryAssumption DEF Types, Threads, files
<1>1. CASE Quiesce
  <2>1. /\ AtRest /\ ~WritingLocked /\ MarkUnsaved
        /\ pc' = [pc EXCEPT !["main"] = "detached"]
        /\ UNCHANGED <<unsaved, temp, file, needsMoving, queued, kept, quiet>>
    BY <1>1 DEF Quiesce, ghosts
  <2>2. ~WritingLocked' /\ NoneArchived' /\ pc'["main"] = "detached"
    BY <2>1 DEF IInv, WritingLocked, NoneArchived
  <2>3. OneWriter'
    BY <2>2 DEF OneWriter, WritingLocked
  <2>4. ArrayIsRight'
    BY <2>1, <2>2, MarkIsRight DEF IInv, ArrayIsRight
  <2>5. FilesAreRight'
    BY <2>1, <2>2, MarkIsRight DEF FilesAreRight, Newer
  <2>6. WorkIsAssigned'
    BY <2>1, <2>2 DEF IInv, WorkIsAssigned, WritingLocked
  <2>7. QuiesceSaves'
    BY <2>1, <2>2, MarkIsRight DEF QuiesceSaves
  <2>8. QuietIsDone'
    BY <2>1, <2>2, MarkIsRight DEF IInv, QuietIsDone
  <2> QED
    BY <2>3, <2>4, <2>5, <2>6, <2>7, <2>8 DEF IInv
<1>2. CASE EndQuiesce
  <2> USE <1>2 DEF EndQuiesce, Move, arrays, WritingLocked, NoneArchived
  <2>1. OneWriter'
    BY DEF IInv, OneWriter
  <2>2. ~needsWriting /\ unsaved = {} /\ ~needsMoving'
    BY DEF IInv, QuiesceSaves
  <2>3. ArrayIsRight'
    BY DEF IInv, ArrayIsRight
  <2>4. FilesAreRight'
    BY <2>2 DEF IInv, FilesAreRight, Newer
  <2>5. WorkIsAssigned'
    BY <2>2 DEF WorkIsAssigned
  <2>6. QuiesceSaves' /\ QuietIsDone'
    BY <2>2 DEF IInv, QuiesceSaves, QuietIsDone
  <2> QED
    BY <2>1, <2>3, <2>4, <2>5, <2>6 DEF IInv
<1> QED
  BY <1>1, <1>2

\* Performing a queued move keeps the invariant.
LEMMA MoveKeeps ==
    ASSUME IInv, Types', PerformMove
    PROVE  IInv'
<1> USE DEF PerformMove, Move, arrays, files, ghosts, WritingLocked, NoneArchived
<1>1. OneWriter' /\ ArrayIsRight'
  BY DEF IInv, OneWriter, ArrayIsRight
<1>2. FilesAreRight'
  BY DEF IInv, FilesAreRight, Newer
<1>3. WorkIsAssigned'
  BY DEF IInv, WorkIsAssigned
<1>4. QuiesceSaves' /\ QuietIsDone'
  BY DEF IInv, QuiesceSaves, QuietIsDone
<1> QED
  BY <1>1, <1>2, <1>3, <1>4 DEF IInv

\* The invariant is inductive when queued moves are performed in time.
LEMMA Invariance ==
    ASSUME Prompt
    PROVE  Spec => []IInv
<1>1. Init => IInv
  <2> SUFFICES ASSUME Init PROVE IInv
    OBVIOUS
  <2>1. Types
    BY DEF Init, Types, Threads, States
  <2> QED
    BY <2>1, HistoryAssumption
       DEF Init, IInv, OneWriter, ArrayIsRight, FilesAreRight, WorkIsAssigned,
           QuiesceSaves, QuietIsDone, Newer, NoneArchived, WritingLocked, Threads
<1>2. IInv /\ [Next]_vars => IInv'
  <2> SUFFICES ASSUME IInv, [Next]_vars PROVE IInv'
    OBVIOUS
  <2>1. CASE Next
    <3>1. Types'
      BY <2>1, TypesKept DEF IInv
    <3> QED
      BY <2>1, <3>1, WritingKeeps, AppendKeeps, ShowKeeps, ClearKeeps,
         PeriodicKeeps, QuiesceKeeps, MoveKeeps DEF Next
  <2>2. CASE UNCHANGED vars
    BY <2>2 DEF vars, arrays, files, ghosts, IInv, Types, OneWriter, ArrayIsRight,
                FilesAreRight, WorkIsAssigned, QuiesceSaves, QuietIsDone, Newer,
                NoneArchived, WritingLocked
  <2> QED
    BY <2>1, <2>2
<1> QED
  BY <1>1, <1>2, PTL DEF Spec

-----------------------------------------------------------------------------
(* What follows from it.                                                   *)

\* A reader finds what was appended and not cleared, whatever the threads
\* are doing, provided that a queued move is performed before the file is
\* read again.
THEOREM NoMessageLost ==
    ASSUME Prompt
    PROVE  Spec => []NothingLost
<1>1. IInv => NothingLost
  BY DEF IInv, ArrayIsRight, FilesAreRight, NothingLost, Newer
<1> QED
  BY <1>1, Invariance, PTL

\* When nothing remains to be written or moved the file is complete.
THEOREM AtRestOnDisk ==
    ASSUME Prompt
    PROVE  Spec => []SavedIsDurable
<1>1. IInv => SavedIsDurable
  BY DEF IInv, FilesAreRight, SavedIsDurable, Newer
<1> QED
  BY <1>1, Invariance, PTL

\* No thread is left with an array the main thread has dropped.
THEOREM ArrayIsHeld ==
    ASSUME Prompt
    PROVE  Spec => []WriterHasArray
<1>1. IInv => WriterHasArray
  BY DEF IInv, ArrayIsRight, WriterHasArray
<1> QED
  BY <1>1, Invariance, PTL

\* The promise of quiesce: the files are not touched until the next append or
\* clear, although threads and moves it overtook are still to come.
THEOREM QuiescePromise ==
    ASSUME Prompt
    PROVE  Spec => QuiesceIsQuiet
<1>1. IInv /\ [Next]_vars => [quiet /\ quiet' => UNCHANGED <<temp, file>>]_vars
  <2> SUFFICES ASSUME IInv, Next, quiet, quiet' PROVE UNCHANGED <<temp, file>>
    OBVIOUS
  <2>1. ~needsMoving /\ \A t \in Threads : pc[t] # "writing"
    BY DEF IInv, QuietIsDone, WritingLocked
  <2> QED
    BY <2>1
       DEF Next, WriteMessages, BeginWriting, Archive, FinishWriting, AppendMessage,
           ShowMessages, WriteCleared, ClearMessages, PeriodicTask, ReleaseMessages,
           Quiesce, EndQuiesce, PerformMove, Move, files, ghosts
<1> QED
  BY <1>1, Invariance, PTL DEF Spec, QuiesceIsQuiet

\* If queued moves come before readings no message is lost, a history at rest
\* is on the disk, and no thread archives a dropped array.
THEOREM HistoryStaysWhole ==
    ASSUME Prompt
    PROVE  Spec => []HistoryIsWhole
<1>1. NothingLost /\ SavedIsDurable /\ WriterHasArray => HistoryIsWhole
  BY DEF HistoryIsWhole
<1> QED
  BY <1>1, NoMessageLost, AtRestOnDisk, ArrayIsHeld, PTL

-----------------------------------------------------------------------------
(* The files of the documents.                                             *)

\* A file, and a flag of each document
Files == SUBSET Entries
Flags == [Documents -> BOOLEAN]

\* The types of the variables
TypeInv ==
    /\ path \in [Documents -> Files] /\ backup \in [Documents -> Files] /\ aside \in [Documents -> Files]
    /\ temporary \in [Names -> Files] /\ name \in [Documents -> Names]
    /\ memory \in [Documents -> Files]
    /\ inMemory \in Flags /\ toWrite \in Flags /\ writing \in Flags /\ toMove \in Flags
    /\ moving \in [Documents -> {"no", "backed", "placed"}]
    /\ saving \in [Documents -> {"no", "aside", "quiescing"}]
    /\ deleted \in Flags /\ spoiled \in Flags
    /\ expected \in [Documents -> Files] /\ archived \in [Documents -> Files]
    /\ promised \in [Documents -> Files]
    /\ calls \in 0..MaxCalls

\* A document's own messages are among all messages.
LEMMA OwnEntries == ASSUME NEW d \in Documents PROVE Own(d) \subseteq Entries
BY DEF Entries

\* The first state has the types.
LEMMA TypeInit == ASSUME FilesInit PROVE TypeInv
<1>1. path \in [Documents -> Files]
  BY FilesAssumption, OwnEntries DEF FilesInit, Files, Own, All
<1>2. 0 \in Names /\ 0 \in 0..MaxCalls
  BY FilesAssumption DEF Names
<1> QED BY <1>1, <1>2 DEF FilesInit, TypeInv, Files, Flags, All

\* Appending and clearing (appendMessage:, clearMessagesSentBefore:) keep the types.
LEMMA ChangeType ==
  ASSUME TypeInv, NEW c \in Documents, NEW stored \in Files, Change(c, stored)
  PROVE  TypeInv'
BY FilesAssumption DEF TypeInv, Change, Flags, disk, Call

\* The messages that Contents returns are a file's.
LEMMA ContentsType == ASSUME TypeInv, NEW c \in Documents PROVE Contents(c) \in Files
BY DEF TypeInv, Contents

\* Every step keeps the types: one step per operation.
LEMMA NextType == ASSUME TypeInv, [FilesNext]_fvars PROVE TypeInv'
<1>1. ASSUME NEW c \in Documents, AppendTo(c) PROVE TypeInv'
  <2>1. <<c, calls + 1>> \in Entries
    <3>1. calls + 1 \in 0..MaxCalls
      BY FilesAssumption, <1>1 DEF AppendTo, Change, Call, TypeInv
    <3> QED BY <3>1, OwnEntries DEF Own
  <2>2. Contents(c) \cup {<<c, calls + 1>>} \in Files
    BY <2>1, ContentsType DEF Files
  <2> QED BY <1>1, <2>2, ChangeType DEF AppendTo
<1>2. ASSUME NEW c \in Documents, ClearHistory(c) PROVE TypeInv'
  BY <1>2, ChangeType DEF ClearHistory, Files
<1>3. ASSUME NEW c \in Documents, Release(c) PROVE TypeInv'
  BY <1>3 DEF Release, TypeInv, disk, fileGhosts, Files, Flags
<1>4. ASSUME NEW c \in Documents, ChooseName(c) PROVE TypeInv'
  <2>1. UNCHANGED <<disk, inMemory, memory, toWrite, toMove, moving, saving, deleted, expected,
                    archived, promised, faults, calls>>
    BY <1>4 DEF ChooseName
  <2>2. name' \in [Documents -> Names] /\ writing' \in Flags
    BY <1>4 DEF ChooseName, TypeInv, Flags
  <2>3. spoiled' \in Flags
    <3>1. PICK R \in SUBSET Documents : spoiled' = [e \in Documents |-> spoiled[e] \/ (R # {} /\ e \in R \cup {c})]
      BY <1>4 DEF ChooseName
    <3> QED BY <3>1, Zenon DEF Flags
  <2> QED BY <2>1, <2>2, <2>3 DEF TypeInv, disk
<1>5. ASSUME NEW c \in Documents, NEW works \in BOOLEAN, WriteTemporary(c, works) PROVE TypeInv'
  BY <1>5 DEF WriteTemporary, TypeInv, Flags
<1>6. ASSUME NEW c \in Documents, BackUp(c) PROVE TypeInv'
  BY <1>6 DEF BackUp, TypeInv, Flags, object, Files
<1>7. ASSUME NEW c \in Documents, NEW works \in BOOLEAN, PutInPlace(c, works) PROVE TypeInv'
  BY <1>7 DEF PutInPlace, TypeInv, Flags, object, Files
<1>8. ASSUME NEW c \in Documents, RemoveBackup(c) PROVE TypeInv'
  BY <1>8 DEF RemoveBackup, TypeInv, Flags, Files
<1>9. ASSUME NEW c \in Documents, SetAside(c) PROVE TypeInv'
  BY FilesAssumption, <1>9 DEF SetAside, Call, TypeInv, Flags, object, Files
<1>10. ASSUME NEW c \in Documents, NEW works \in BOOLEAN, MoveHistory(c, works) PROVE TypeInv'
  BY <1>10 DEF MoveHistory, TypeInv, Flags, object, Files
<1>11. ASSUME NEW c \in Documents, EndSave(c) PROVE TypeInv'
  BY <1>11 DEF EndSave, TypeInv, object, fileGhosts, Files
<1>12. ASSUME NEW c \in Documents, DeleteContact(c) PROVE TypeInv'
  BY FilesAssumption, <1>12 DEF DeleteContact, Call, TypeInv, disk, object, fileGhosts, Flags
<1>13. CASE Crash
  BY <1>13 DEF Crash, TypeInv, disk, All, Flags, Files
<1>14. CASE UNCHANGED fvars
  BY <1>14 DEF fvars, TypeInv, disk, object, fileGhosts
<1> QED
  BY <1>1, <1>2, <1>3, <1>4, <1>5, <1>6, <1>7, <1>8, <1>9, <1>10, <1>11, <1>12, <1>13, <1>14 DEF FilesNext

-----------------------------------------------------------------------------
(* The inductive invariant.                                                *)

\* The main thread moves one history at a time and saves one document at a time;
\* it moves during a save only what the save quiesces, and only what is to be
\* moved and no thread writes.
OneAtATime ==
    /\ \A d, e \in Documents : moving[d] # "no" /\ moving[e] # "no" => d = e
    /\ \A d, e \in Documents : saving[d] # "no" /\ saving[e] # "no" => d = e
    /\ \A d, e \in Documents : moving[d] # "no" /\ saving[e] # "no" => d = e /\ saving[d] = "quiescing"
    /\ \A d \in Documents : moving[d] # "no" => toMove[d] /\ ~writing[d]

\* The array in memory is what is expected, it is there while it must be written,
\* and once it is written it is what was archived last.
ArrayOK(d) ==
    /\ inMemory[d] => expected[d] = memory[d]
    /\ toWrite[d] \/ writing[d] => inMemory[d]
    /\ ~toWrite[d] => archived[d] = expected[d]

\* Every file of the package, what was archived and the array hold only the
\* document's own messages.
OwnOK(d) == path[d] \cup backup[d] \cup aside[d] \cup archived[d] \cup memory[d] \subseteq Own(d)

\* Where the history is that was put in place last, by the step that a move or a
\* save is at
PromisedOK(d) ==
    /\ saving[d] = "aside" => path[d] = {} /\ promised[d] = aside[d] /\ backup[d] = {}
    /\ saving[d] = "quiescing" => aside[d] = {}
    /\ moving[d] = "no" /\ saving[d] # "aside" =>
           promised[d] = path[d] \/ (path[d] = {} /\ promised[d] \in {backup[d], aside[d]})
    /\ moving[d] = "backed" => path[d] = {} /\ promised[d] \in {backup[d], aside[d], {}}
    /\ moving[d] = "placed" => path[d] = archived[d]

\* With no move due, what was archived last is the file.
PlacedOK(d) ==
    ~toMove[d] =>
       /\ saving[d] = "aside" => archived[d] = aside[d]
       /\ saving[d] = "quiescing" => archived[d] = path[d]
       /\ saving[d] = "no" /\ ~LeftOver(d) => archived[d] = path[d]

\* With a move due, what was archived last is the temporary file.
Waiting(d) == toMove[d] /\ moving[d] # "placed"
WaitingOK(d) == Waiting(d) /\ ~writing[d] => temporary[name[d]] = archived[d]

\* What holds of one document, its files as long as nothing has spoiled it
DocumentOK(d) ==
    /\ ArrayOK(d)
    /\ ~spoiled[d] => OwnOK(d) /\ PromisedOK(d) /\ PlacedOK(d) /\ WaitingOK(d)

\* No two documents that write or wait for a move have the same temporary name,
\* unless they have chosen it at the same time (which spoils both).
Named(d) == writing[d] \/ Waiting(d)
NamesApart ==
    \A d, e \in Documents : d # e /\ ~spoiled[d] /\ Named(d) /\ Named(e) => name[d] # name[e]

\* The inductive invariant
FilesInv == OneAtATime /\ NamesApart /\ \A d \in Documents : DocumentOK(d)

-----------------------------------------------------------------------------

\* What a step does to a document that it is not about: nothing, except that
\* it may count it as spoiled, and that a file that nothing waits for may go.
Untouched(d) ==
    /\ path'[d] = path[d] /\ backup'[d] = backup[d] /\ aside'[d] = aside[d]
    /\ archived'[d] = archived[d] /\ memory'[d] = memory[d] /\ expected'[d] = expected[d]
    /\ promised'[d] = promised[d] /\ inMemory'[d] = inMemory[d]
    /\ toWrite'[d] = toWrite[d] /\ writing'[d] = writing[d]
    /\ toMove'[d] = toMove[d] /\ moving'[d] = moving[d]
    /\ saving'[d] = saving[d] /\ name'[d] = name[d]
    /\ spoiled[d] => spoiled'[d]
    /\ Waiting(d) /\ ~spoiled'[d] => temporary'[name[d]] = temporary[name[d]]

\* A step of another document keeps what holds of this one.
LEMMA UntouchedOK ==
  ASSUME NEW d \in Documents, DocumentOK(d), Untouched(d)
  PROVE  DocumentOK(d)'
<1>1. ArrayOK(d)'
  BY DEF DocumentOK, Untouched, ArrayOK
<1>2. ASSUME ~spoiled'[d] PROVE OwnOK(d)' /\ PromisedOK(d)' /\ PlacedOK(d)' /\ WaitingOK(d)'
  <2>1. OwnOK(d) /\ PromisedOK(d) /\ PlacedOK(d) /\ WaitingOK(d)
    BY <1>2 DEF DocumentOK, Untouched
  <2>2. OwnOK(d)'
    BY <2>1 DEF Untouched, OwnOK
  <2>3. PromisedOK(d)'
    BY <2>1 DEF Untouched, PromisedOK
  <2>4. PlacedOK(d)'
    BY <2>1 DEF Untouched, PlacedOK, LeftOver
  <2>5. WaitingOK(d)'
    BY <2>1, <1>2 DEF Untouched, WaitingOK, Waiting
  <2> QED BY <2>2, <2>3, <2>4, <2>5
<1> QED BY <1>1, <1>2 DEF DocumentOK

\* No name is chosen.
LEMMA SameNames ==
  ASSUME NamesApart, name' = name,
         \A d \in Documents : (spoiled[d] => spoiled'[d]) /\ (Named(d)' => Named(d))
  PROVE  NamesApart'
BY DEF NamesApart

\* A step about one document
LEMMA OneDocument ==
  ASSUME FilesInv, NEW c \in Documents, DocumentOK(c)', OneAtATime', NamesApart',
         \A d \in Documents \ {c} : Untouched(d)
  PROVE  FilesInv'
BY UntouchedOK DEF FilesInv

\* The first state satisfies the invariant.
LEMMA FilesInvInit == ASSUME FilesInit PROVE FilesInv
<1> USE DEF FilesInit, All
<1>1. OneAtATime /\ NamesApart
  BY DEF OneAtATime, NamesApart, Named, Waiting
<1>2. ASSUME NEW d \in Documents PROVE DocumentOK(d)
  <2>1. path[d] \subseteq Own(d)
    BY FilesAssumption DEF Own
  <2>2. /\ ~inMemory[d] /\ ~toWrite[d] /\ ~writing[d] /\ ~toMove[d]
        /\ moving[d] = "no" /\ saving[d] = "no"
        /\ backup[d] = {} /\ aside[d] = {} /\ memory[d] = {}
        /\ archived = path /\ expected = path /\ promised = path
    OBVIOUS
  <2> QED BY <2>1, <2>2 DEF DocumentOK, ArrayOK, OwnOK, PromisedOK, PlacedOK, WaitingOK, Waiting
<1> QED BY <1>1, <1>2 DEF FilesInv

\* Appending and clearing keep the invariant.
LEMMA ChangeOK ==
  ASSUME TypeInv, FilesInv, NEW c \in Documents, NEW stored \in Files, Change(c, stored),
         ~spoiled[c] => stored \subseteq Own(c)
  PROVE  FilesInv'
<1>1. \A d \in Documents \ {c} : Untouched(d)
  BY DEF Change, Untouched, TypeInv, disk
<1>2. OneAtATime' /\ NamesApart'
  <2>1. OneAtATime' BY DEF FilesInv, OneAtATime, Change
  <2> QED BY <2>1, SameNames DEF FilesInv, Change, Named, Waiting
<1>3. DocumentOK(c)
  BY DEF FilesInv
<1>4. ArrayOK(c)'
  BY DEF Change, ArrayOK, TypeInv, Flags
<1>5. ASSUME ~spoiled'[c] PROVE OwnOK(c)' /\ PromisedOK(c)' /\ PlacedOK(c)' /\ WaitingOK(c)'
  BY <1>3, <1>5 DEF Change, DocumentOK, OwnOK, PromisedOK, PlacedOK, WaitingOK, Waiting, LeftOver, disk, TypeInv
<1> QED BY <1>1, <1>2, <1>4, <1>5, OneDocument DEF DocumentOK

\* Dropping the array (periodicTask:) keeps the invariant.
LEMMA ReleaseOK ==
  ASSUME TypeInv, FilesInv, NEW c \in Documents, Release(c)
  PROVE  FilesInv'
<1>1. \A d \in Documents \ {c} : Untouched(d)
  BY DEF Release, Untouched, TypeInv, disk, fileGhosts
<1>2. OneAtATime' /\ NamesApart'
  <2>1. OneAtATime' BY DEF FilesInv, OneAtATime, Release
  <2> QED BY <2>1, SameNames DEF FilesInv, Release, Named, Waiting, fileGhosts
<1>3. DocumentOK(c)
  BY DEF FilesInv
<1>4. ArrayOK(c)'
  BY <1>3 DEF Release, ArrayOK, TypeInv, Flags, fileGhosts, DocumentOK
<1>5. ASSUME ~spoiled'[c] PROVE OwnOK(c)' /\ PromisedOK(c)' /\ PlacedOK(c)' /\ WaitingOK(c)'
  BY <1>3, <1>5 DEF Release, DocumentOK, OwnOK, PromisedOK, PlacedOK, WaitingOK, Waiting, LeftOver, disk, fileGhosts, TypeInv
<1> QED BY <1>1, <1>2, <1>4, <1>5, OneDocument DEF DocumentOK

\* The first move of moveTempToPath: keeps the invariant.
LEMMA BackUpOK ==
  ASSUME TypeInv, FilesInv, NEW c \in Documents, BackUp(c)
  PROVE  FilesInv'
<1>1. \A d \in Documents \ {c} : Untouched(d)
  BY DEF BackUp, Untouched, TypeInv, object
<1>2. OneAtATime' /\ NamesApart'
  <2>1. OneAtATime' BY DEF FilesInv, OneAtATime, BackUp, NoMove, object, TypeInv
  <2>2. \A d \in Documents : (spoiled[d] => spoiled'[d]) /\ (Named(d)' => Named(d))
    BY DEF BackUp, Named, Waiting, NoMove, object, TypeInv, Flags
  <2> QED BY <2>1, <2>2, SameNames DEF FilesInv, BackUp, object
<1>3. DocumentOK(c)
  BY DEF FilesInv
<1>4. ArrayOK(c)'
  BY <1>3 DEF BackUp, ArrayOK, object, DocumentOK
<1>5. ASSUME ~spoiled'[c] PROVE OwnOK(c)' /\ PromisedOK(c)' /\ PlacedOK(c)' /\ WaitingOK(c)'
  <2>1. ~spoiled[c] /\ backup[c] = {} /\ saving[c] # "aside" /\ moving[c] = "no"
    BY <1>5 DEF BackUp, TypeInv, Flags, NoMove
  <2>2. OwnOK(c) /\ PromisedOK(c) /\ PlacedOK(c) /\ WaitingOK(c)
    BY <1>3, <2>1 DEF DocumentOK
  <2>3. path'[c] = {} /\ backup'[c] = path[c] /\ aside' = aside /\ moving'[c] = "backed" /\ toMove'[c]
    BY <2>1 DEF BackUp, TypeInv, Moves, object
  <2>4. OwnOK(c)'
    BY <2>2, <2>3 DEF OwnOK, BackUp, object
  <2>5. PromisedOK(c)'
    BY <2>1, <2>2, <2>3 DEF PromisedOK, BackUp
  <2>6. PlacedOK(c)' /\ WaitingOK(c)'
    BY <2>1, <2>2, <2>3 DEF PlacedOK, WaitingOK, Waiting, BackUp, object
  <2> QED BY <2>4, <2>5, <2>6
<1> QED BY <1>1, <1>2, <1>4, <1>5, OneDocument DEF DocumentOK

\* Choosing a name (writeMessages:) keeps the invariant: it is a name without a
\* file, so whoever waits for a file there is a rival and is spoiled.
LEMMA ChooseNameOK ==
  ASSUME TypeInv, FilesInv, NEW c \in Documents, ChooseName(c)
  PROVE  FilesInv'
<1>1. PICK n \in Names, R \in SUBSET Documents :
         /\ R = {e \in Documents \ {c} :
                   name[e] = n /\ (writing[e] \/ (toMove[e] /\ (archived[e] = {} \/ spoiled[e])))}
         /\ Unused(n) /\ toWrite[c] /\ ~writing[c] /\ moving[c] = "no"
         /\ name' = [name EXCEPT ![c] = n] /\ writing' = [writing EXCEPT ![c] = TRUE]
         /\ spoiled' = [e \in Documents |-> spoiled[e] \/ (R # {} /\ e \in R \cup {c})]
         /\ UNCHANGED <<disk, inMemory, memory, toWrite, toMove, moving, saving, deleted, expected,
                        archived, promised, faults, calls>>
  BY DEF ChooseName
<1>2. \A d \in Documents \ {c} : Untouched(d)
  <2>1. \A d \in Documents : spoiled[d] => spoiled'[d]
    BY <1>1, Zenon
  <2>2. \A d \in Documents \ {c} : name'[d] = name[d] /\ writing'[d] = writing[d]
    BY <1>1 DEF TypeInv, Flags
  <2> QED BY <1>1, <2>1, <2>2 DEF Untouched, disk
<1>3. OneAtATime'
  BY <1>1 DEF FilesInv, OneAtATime, TypeInv, Flags
<1>4. \A d \in Documents : ~spoiled'[d] => ~spoiled[d] /\ ~(R # {} /\ d \in R \cup {c})
  BY <1>1
<1>5. NamesApart'
  <2>1. ASSUME NEW d \in Documents \ {c}, Named(d), name[d] = n PROVE d \in R
    <3>1. CASE writing[d]
      BY <2>1, <3>1, <1>1
    <3>2. CASE ~writing[d]
      <4>1. Waiting(d)
        BY <2>1, <3>2 DEF Named
      <4>2. CASE spoiled[d] \/ archived[d] = {}
        BY <2>1, <4>1, <4>2, <1>1 DEF Waiting
      <4>3. CASE ~spoiled[d] /\ archived[d] # {}
        <5>1. temporary[n] = archived[d]
          BY <2>1, <4>1, <4>3, <3>2 DEF FilesInv, DocumentOK, WaitingOK
        <5> QED BY <5>1, <4>3, <1>1 DEF Unused
      <4> QED BY <4>2, <4>3
    <3> QED BY <3>1, <3>2
  <2>2. ASSUME NEW d \in Documents \ {c} PROVE (Named(d)' <=> Named(d)) /\ name'[d] = name[d]
    BY <1>1 DEF Named, Waiting, TypeInv, Flags
  <2>3. name'[c] = n
    BY <1>1 DEF TypeInv
  <2>4. SUFFICES ASSUME NEW d \in Documents, NEW e \in Documents, d # e, ~spoiled'[d], Named(d)', Named(e)'
                 PROVE  name'[d] # name'[e]
    BY DEF NamesApart
  <2>5. CASE d = c
    BY <2>1, <2>2, <2>3, <2>4, <2>5, <1>4
  <2>6. CASE d # c /\ e = c
    BY <2>1, <2>2, <2>3, <2>4, <2>6, <1>4
  <2>7. CASE d # c /\ e # c
    BY <2>2, <2>4, <2>7, <1>4 DEF FilesInv, NamesApart
  <2> QED BY <2>5, <2>6, <2>7
<1>6. DocumentOK(c)'
  <2>1. DocumentOK(c)
    BY DEF FilesInv
  <2>2. ArrayOK(c)'
    BY <2>1, <1>1 DEF DocumentOK, ArrayOK
  <2>3. ASSUME ~spoiled'[c] PROVE OwnOK(c)' /\ PromisedOK(c)' /\ PlacedOK(c)' /\ WaitingOK(c)'
    <3>1. OwnOK(c) /\ PromisedOK(c) /\ PlacedOK(c)
      BY <2>1, <2>3, <1>4 DEF DocumentOK
    <3>2. writing'[c]
      BY <1>1 DEF TypeInv, Flags
    <3> QED BY <3>1, <3>2, <1>1 DEF OwnOK, PromisedOK, PlacedOK, WaitingOK, LeftOver, disk
  <2> QED BY <2>2, <2>3 DEF DocumentOK
<1> QED BY <1>2, <1>3, <1>5, <1>6, OneDocument

\* Writing the temporary file keeps the invariant: nobody who waits has its name.
LEMMA ArchiveOK ==
  ASSUME TypeInv, FilesInv, NEW c \in Documents, NEW works \in BOOLEAN, WriteTemporary(c, works)
  PROVE  FilesInv'
<1>1. \A d \in Documents \ {c} : Untouched(d)
  <2>1. \A d \in Documents \ {c} : Waiting(d) /\ ~spoiled[d] => name[d] # name[c]
    BY DEF WriteTemporary, FilesInv, NamesApart, Named
  <2> QED BY <2>1 DEF WriteTemporary, Untouched, TypeInv
<1>2. moving[c] = "no"
  BY DEF WriteTemporary, FilesInv, OneAtATime, TypeInv
<1>3. OneAtATime' /\ NamesApart'
  <2>1. OneAtATime' BY <1>2 DEF FilesInv, OneAtATime, WriteTemporary, TypeInv, Flags
  <2>2. \A d \in Documents : (spoiled[d] => spoiled'[d]) /\ (Named(d)' => Named(d))
    BY DEF WriteTemporary, Named, Waiting, TypeInv, Flags
  <2> QED BY <2>1, <2>2, SameNames DEF FilesInv, WriteTemporary
<1>4. DocumentOK(c)
  BY DEF FilesInv
<1>5. ArrayOK(c)'
  BY <1>4 DEF WriteTemporary, ArrayOK, DocumentOK, TypeInv, Flags
<1>6. ASSUME ~spoiled'[c] PROVE OwnOK(c)' /\ PromisedOK(c)' /\ PlacedOK(c)' /\ WaitingOK(c)'
  <2>1. ~spoiled[c] /\ works
    BY <1>6 DEF WriteTemporary, TypeInv, Flags
  <2>2. OwnOK(c) /\ PromisedOK(c)
    BY <1>4, <2>1 DEF DocumentOK
  <2>3. /\ archived'[c] = memory[c] /\ temporary'[name[c]] = memory[c] /\ toMove'[c]
        /\ UNCHANGED <<path, backup, aside, name, memory, saving, moving, promised>>
    BY <2>1 DEF WriteTemporary, TypeInv, Flags
  <2>4. OwnOK(c)' /\ PromisedOK(c)'
    BY <1>2, <2>2, <2>3 DEF OwnOK, PromisedOK
  <2>5. PlacedOK(c)' /\ WaitingOK(c)'
    BY <2>3 DEF PlacedOK, WaitingOK
  <2> QED BY <2>4, <2>5
<1> QED BY <1>1, <1>3, <1>5, <1>6, OneDocument DEF DocumentOK

\* The second move of moveTempToPath: keeps the invariant.
LEMMA PutInPlaceOK ==
  ASSUME TypeInv, FilesInv, NEW c \in Documents, NEW works \in BOOLEAN, PutInPlace(c, works)
  PROVE  FilesInv'
<1>1. moving[c] = "backed" /\ toMove[c] /\ ~writing[c]
  BY DEF PutInPlace, FilesInv, OneAtATime, TypeInv
<1>2. \A d \in Documents \ {c} : Untouched(d)
  <2>1. \A d \in Documents \ {c} : Waiting(d) /\ ~spoiled[d] => name[d] # name[c]
    BY <1>1 DEF FilesInv, NamesApart, Named, Waiting
  <2> QED BY <2>1 DEF PutInPlace, Untouched, TypeInv, object
<1>3. OneAtATime' /\ NamesApart'
  <2>1. OneAtATime' BY <1>1 DEF FilesInv, OneAtATime, PutInPlace, TypeInv, object
  <2>2. \A d \in Documents : (spoiled[d] => spoiled'[d]) /\ (Named(d)' => Named(d))
    BY <1>1 DEF PutInPlace, Named, Waiting, TypeInv, Flags, object
  <2> QED BY <2>1, <2>2, SameNames DEF FilesInv, PutInPlace, object
<1>4. DocumentOK(c)
  BY DEF FilesInv
<1>5. ArrayOK(c)'
  BY <1>4 DEF PutInPlace, ArrayOK, DocumentOK, object
<1>6. ASSUME ~spoiled'[c] PROVE OwnOK(c)' /\ PromisedOK(c)' /\ PlacedOK(c)' /\ WaitingOK(c)'
  <2>1. ~spoiled[c] /\ works
    BY <1>6 DEF PutInPlace, TypeInv, Flags
  <2>2. OwnOK(c) /\ PromisedOK(c) /\ WaitingOK(c)
    BY <1>4, <2>1 DEF DocumentOK
  <2>3. path[c] = {} /\ temporary[name[c]] = archived[c]
    BY <2>2, <1>1 DEF PromisedOK, WaitingOK, Waiting
  <2>4. path'[c] = archived[c]
    BY <2>1, <2>3 DEF PutInPlace, Moves, TypeInv
  <2>5. moving'[c] = "placed" /\ toMove'[c] /\ UNCHANGED <<backup, aside, archived, memory, saving>>
    BY <1>1 DEF PutInPlace, TypeInv, object
  <2>6. saving[c] # "aside"
    BY <1>1 DEF FilesInv, OneAtATime
  <2>7. OwnOK(c)'
    BY <2>2, <2>4, <2>5 DEF OwnOK
  <2>8. PromisedOK(c)'
    BY <2>2, <2>4, <2>5, <2>6 DEF PromisedOK
  <2>9. PlacedOK(c)' /\ WaitingOK(c)'
    BY <2>5 DEF PlacedOK, WaitingOK, Waiting
  <2> QED BY <2>7, <2>8, <2>9
<1> QED BY <1>2, <1>3, <1>5, <1>6, OneDocument DEF DocumentOK

\* The end of moveTempToPath: keeps the invariant.
LEMMA RemoveBackupOK ==
  ASSUME TypeInv, FilesInv, NEW c \in Documents, RemoveBackup(c)
  PROVE  FilesInv'
<1>1. moving[c] = "placed" /\ saving[c] # "aside" /\ ~writing[c]
  BY DEF RemoveBackup, FilesInv, OneAtATime
<1>2. \A d \in Documents \ {c} : Untouched(d)
  BY DEF RemoveBackup, Untouched, TypeInv
<1>3. OneAtATime' /\ NamesApart'
  <2>1. OneAtATime'
    BY <1>1 DEF FilesInv, OneAtATime, RemoveBackup, TypeInv, Flags
  <2>2. \A d \in Documents : (spoiled[d] => spoiled'[d]) /\ (Named(d)' => Named(d))
    BY <1>1 DEF RemoveBackup, Named, Waiting, TypeInv, Flags
  <2> QED BY <2>1, <2>2, SameNames DEF FilesInv, RemoveBackup
<1>4. DocumentOK(c)
  BY DEF FilesInv
<1>5. ArrayOK(c)'
  BY <1>4 DEF RemoveBackup, ArrayOK, DocumentOK
<1>6. ASSUME ~spoiled'[c] PROVE OwnOK(c)' /\ PromisedOK(c)' /\ PlacedOK(c)' /\ WaitingOK(c)'
  <2>1. OwnOK(c) /\ PromisedOK(c)
    BY <1>4, <1>6 DEF DocumentOK, RemoveBackup
  <2>2. /\ moving'[c] = "no" /\ backup'[c] = {} /\ ~toMove'[c] /\ promised'[c] = archived[c]
        /\ UNCHANGED <<path, aside, archived, memory, saving>>
    BY <1>1 DEF RemoveBackup, TypeInv, Flags
  <2>3. OwnOK(c)'
    BY <2>1, <2>2 DEF OwnOK
  <2>4. PromisedOK(c)'
    BY <1>1, <2>1, <2>2 DEF PromisedOK
  <2>5. PlacedOK(c)' /\ WaitingOK(c)'
    BY <1>1, <2>1, <2>2 DEF PlacedOK, WaitingOK, Waiting, PromisedOK
  <2> QED BY <2>3, <2>4, <2>5
<1> QED BY <1>2, <1>3, <1>5, <1>6, OneDocument DEF DocumentOK

\* Setting the package aside for a save keeps the invariant.
LEMMA SetAsideOK ==
  ASSUME TypeInv, FilesInv, NEW c \in Documents, SetAside(c)
  PROVE  FilesInv'
<1>1. (\A d \in Documents : moving[d] = "no" /\ saving[d] = "no") /\ saving' = [saving EXCEPT ![c] = "aside"]
  BY DEF SetAside, MainIsFree, NoMove
<1>2. \A d \in Documents \ {c} : Untouched(d)
  BY DEF SetAside, Untouched, TypeInv, object
<1>3. OneAtATime' /\ NamesApart'
  <2>1. OneAtATime'
    BY <1>1 DEF FilesInv, OneAtATime, SetAside, TypeInv, object
  <2>2. \A d \in Documents : (spoiled[d] => spoiled'[d]) /\ (Named(d)' => Named(d))
    BY DEF SetAside, Named, Waiting, TypeInv, Flags, object
  <2> QED BY <2>1, <2>2, SameNames DEF FilesInv, SetAside, object
<1>4. DocumentOK(c)
  BY DEF FilesInv
<1>5. ArrayOK(c)'
  BY <1>4 DEF SetAside, ArrayOK, DocumentOK, object
<1>6. ASSUME ~spoiled'[c] PROVE OwnOK(c)' /\ PromisedOK(c)' /\ PlacedOK(c)' /\ WaitingOK(c)'
  <2>1. ~spoiled[c] /\ backup[c] = {} /\ aside[c] = {}
    BY <1>6 DEF SetAside, TypeInv, Flags
  <2>2. OwnOK(c) /\ PromisedOK(c) /\ PlacedOK(c) /\ WaitingOK(c)
    BY <1>4, <2>1 DEF DocumentOK
  <2>3. path'[c] = {} /\ aside'[c] = path[c] /\ backup'[c] = {} /\ saving'[c] = "aside"
    BY DEF SetAside, TypeInv
  <2>4. UNCHANGED <<temporary, name, memory, toMove, writing, moving, archived, promised>>
    BY DEF SetAside, object
  <2>5. OwnOK(c)'
    BY <2>2, <2>3, <2>4 DEF OwnOK
  <2>6. PromisedOK(c)'
    BY <1>1, <2>1, <2>2, <2>3, <2>4 DEF PromisedOK
  <2>7. PlacedOK(c)' /\ WaitingOK(c)'
    BY <1>1, <2>1, <2>2, <2>3, <2>4 DEF PlacedOK, WaitingOK, Waiting, LeftOver
  <2> QED BY <2>5, <2>6, <2>7
<1> QED BY <1>2, <1>3, <1>5, <1>6, OneDocument DEF DocumentOK

\* Moving a history into the new package (writeToFile:) keeps the invariant.
LEMMA MoveHistoryOK ==
  ASSUME TypeInv, FilesInv, NEW c \in Documents, NEW works \in BOOLEAN, MoveHistory(c, works)
  PROVE  FilesInv'
<1>1. saving[c] = "aside" /\ moving[c] = "no" /\ saving' = [saving EXCEPT ![c] = "quiescing"]
  BY DEF MoveHistory, FilesInv, OneAtATime
<1>2. \A d \in Documents \ {c} : Untouched(d)
  BY DEF MoveHistory, Untouched, TypeInv, object
<1>3. OneAtATime' /\ NamesApart'
  <2>1. OneAtATime'
    BY <1>1 DEF FilesInv, OneAtATime, MoveHistory, TypeInv, object
  <2>2. \A d \in Documents : (spoiled[d] => spoiled'[d]) /\ (Named(d)' => Named(d))
    BY DEF MoveHistory, Named, Waiting, TypeInv, Flags, object
  <2> QED BY <2>1, <2>2, SameNames DEF FilesInv, MoveHistory, object
<1>4. DocumentOK(c)
  BY DEF FilesInv
<1>5. ArrayOK(c)'
  BY <1>4 DEF MoveHistory, ArrayOK, DocumentOK, object
<1>6. ASSUME ~spoiled'[c] PROVE OwnOK(c)' /\ PromisedOK(c)' /\ PlacedOK(c)' /\ WaitingOK(c)'
  <2>1. ~spoiled[c] /\ works /\ ~deleted[c]
    BY <1>6 DEF MoveHistory, TypeInv, Flags
  <2>2. OwnOK(c) /\ PromisedOK(c) /\ PlacedOK(c) /\ WaitingOK(c)
    BY <1>4, <2>1 DEF DocumentOK
  <2>3. path'[c] = aside[c] /\ aside'[c] = {} /\ saving'[c] = "quiescing"
    BY <2>1 DEF MoveHistory, TypeInv
  <2>4. UNCHANGED <<backup, temporary, name, memory, toMove, writing, moving, archived, promised>>
    BY DEF MoveHistory, object
  <2>5. OwnOK(c)'
    BY <2>2, <2>3, <2>4 DEF OwnOK
  <2>6. PromisedOK(c)'
    BY <1>1, <2>2, <2>3, <2>4 DEF PromisedOK
  <2>7. PlacedOK(c)' /\ WaitingOK(c)'
    BY <1>1, <2>2, <2>3, <2>4 DEF PlacedOK, WaitingOK, Waiting
  <2> QED BY <2>5, <2>6, <2>7
<1> QED BY <1>2, <1>3, <1>5, <1>6, OneDocument DEF DocumentOK

\* The end of a save, after quiesce, keeps the invariant.
LEMMA EndSaveOK ==
  ASSUME TypeInv, FilesInv, NEW c \in Documents, EndSave(c)
  PROVE  FilesInv'
<1>1. saving[c] = "quiescing" /\ moving[c] = "no" /\ saving' = [saving EXCEPT ![c] = "no"]
  BY DEF EndSave, NoMove
<1>2. \A d \in Documents \ {c} : Untouched(d)
  BY DEF EndSave, Untouched, TypeInv, object, fileGhosts
<1>3. OneAtATime' /\ NamesApart'
  <2>1. OneAtATime'
    BY <1>1 DEF FilesInv, OneAtATime, EndSave, TypeInv, object
  <2>2. \A d \in Documents : (spoiled[d] => spoiled'[d]) /\ (Named(d)' => Named(d))
    BY DEF EndSave, Named, Waiting, object, fileGhosts
  <2> QED BY <2>1, <2>2, SameNames DEF FilesInv, EndSave, object
<1>4. DocumentOK(c)
  BY DEF FilesInv
<1>5. ArrayOK(c)'
  BY <1>4 DEF EndSave, ArrayOK, DocumentOK, object, fileGhosts
<1>6. ASSUME ~spoiled'[c] PROVE OwnOK(c)' /\ PromisedOK(c)' /\ PlacedOK(c)' /\ WaitingOK(c)'
  <2>1. OwnOK(c) /\ PromisedOK(c) /\ PlacedOK(c) /\ WaitingOK(c)
    BY <1>4, <1>6 DEF DocumentOK, EndSave, fileGhosts
  <2>2. aside[c] = {} /\ aside'[c] = {} /\ saving'[c] = "no"
    BY <1>1, <2>1 DEF PromisedOK, EndSave, TypeInv
  <2>3. UNCHANGED <<path, backup, temporary, name, memory, toMove, writing, moving, archived, promised>>
    BY DEF EndSave, object, fileGhosts
  <2>4. OwnOK(c)'
    BY <2>1, <2>2, <2>3 DEF OwnOK
  <2>5. PromisedOK(c)'
    BY <1>1, <2>1, <2>2, <2>3 DEF PromisedOK
  <2>6. PlacedOK(c)' /\ WaitingOK(c)'
    BY <1>1, <2>1, <2>2, <2>3 DEF PlacedOK, WaitingOK, Waiting
  <2> QED BY <2>4, <2>5, <2>6
<1> QED BY <1>2, <1>3, <1>5, <1>6, OneDocument DEF DocumentOK

\* A crash and a restart keep the invariant, wherever a move or save was.
LEMMA CrashOK ==
  ASSUME TypeInv, FilesInv, Crash
  PROVE  FilesInv'
<1>1. \A d \in Documents :
         /\ ~toMove'[d] /\ ~toWrite'[d] /\ ~writing'[d] /\ ~inMemory'[d]
         /\ memory'[d] = {} /\ moving'[d] = "no" /\ saving'[d] = "no"
         /\ archived'[d] = expected'[d]
         /\ expected'[d] = IF moving[d] = "backed" /\ backup[d] # {} THEN backup[d]
                       ELSE IF saving[d] = "aside" THEN aside[d] ELSE path[d]
         /\ promised'[d] = IF moving[d] = "placed" THEN path[d] ELSE promised[d]
  BY DEF Crash, All
<1>2. UNCHANGED <<path, backup, aside, spoiled>>
  BY DEF Crash, disk
<1>3. OneAtATime' /\ NamesApart'
  BY <1>1 DEF OneAtATime, NamesApart, Named, Waiting
<1>4. ASSUME NEW d \in Documents PROVE DocumentOK(d)'
  <2>1. ArrayOK(d)'
    BY <1>1 DEF ArrayOK
  <2>2. ASSUME ~spoiled'[d] PROVE OwnOK(d)' /\ PromisedOK(d)' /\ PlacedOK(d)' /\ WaitingOK(d)'
    <3>1. OwnOK(d) /\ PromisedOK(d)
      BY <1>2, <2>2 DEF FilesInv, DocumentOK
    <3>2. OwnOK(d)'
      BY <1>1, <1>2, <3>1 DEF OwnOK
    <3>3. moving[d] # "no" => saving[d] # "aside"
      BY DEF FilesInv, OneAtATime
    <3>4. PromisedOK(d)'
      BY <1>1, <1>2, <3>1, <3>3 DEF PromisedOK, TypeInv
    <3>5. PlacedOK(d)' /\ WaitingOK(d)'
      BY <1>1, <1>2, <3>1 DEF PlacedOK, WaitingOK, Waiting, LeftOver, PromisedOK
    <3> QED BY <3>2, <3>4, <3>5
  <2> QED BY <2>1, <2>2 DEF DocumentOK
<1> QED BY <1>3, <1>4 DEF FilesInv

\* Every step keeps the invariant: one step per operation.
LEMMA NextOK == ASSUME TypeInv, FilesInv, [FilesNext]_fvars PROVE FilesInv'
<1>1. ASSUME NEW c \in Documents, AppendTo(c) PROVE FilesInv'
  <2> DEFINE stored == Contents(c) \cup {<<c, calls + 1>>}
  <2>1. <<c, calls + 1>> \in Own(c)
    BY FilesAssumption, <1>1 DEF AppendTo, Change, Call, TypeInv, Own
  <2>2. stored \in Files
    BY <2>1, ContentsType, OwnEntries DEF Files
  <2>3. ~spoiled[c] => stored \subseteq Own(c)
    BY <2>1 DEF FilesInv, DocumentOK, OwnOK, Contents
  <2> QED BY <1>1, <2>2, <2>3, ChangeOK DEF AppendTo
<1>2. ASSUME NEW c \in Documents, ClearHistory(c) PROVE FilesInv'
  BY <1>2, ChangeOK DEF ClearHistory, Files
<1>3. ASSUME NEW c \in Documents, DeleteContact(c) PROVE FilesInv'
  BY <1>3 DEF DeleteContact, disk, object, fileGhosts, FilesInv, OneAtATime, NamesApart, Named, Waiting,
              DocumentOK, ArrayOK, OwnOK, PromisedOK, PlacedOK, WaitingOK, LeftOver
<1>4. CASE UNCHANGED fvars
  BY <1>4 DEF fvars, disk, object, fileGhosts, FilesInv, OneAtATime, NamesApart, Named, Waiting,
              DocumentOK, ArrayOK, OwnOK, PromisedOK, PlacedOK, WaitingOK, LeftOver
<1> QED
  BY <1>1, <1>2, <1>3, <1>4, ReleaseOK, ChooseNameOK, ArchiveOK, BackUpOK, PutInPlaceOK, RemoveBackupOK,
     SetAsideOK, MoveHistoryOK, EndSaveOK, CrashOK DEF FilesNext

\* The invariant implies the property.
LEMMA FilesInvKeeps == ASSUME TypeInv, FilesInv PROVE FilesAreKept
<1>1. SavedIsOnDisk
  <2>1. ASSUME NEW d \in Documents, ~spoiled[d]
        PROVE  promised[d] \in {path[d], backup[d], aside[d]} \/ (moving[d] = "placed" /\ path[d] = archived[d])
    BY <2>1 DEF FilesInv, DocumentOK, PromisedOK, TypeInv
  <2> QED BY <2>1 DEF SavedIsOnDisk
<1>2. HistoriesStayApart
  BY DEF FilesInv, DocumentOK, OwnOK, HistoriesStayApart
<1>3. ReaderFindsKept
  <2>1. ASSUME NEW d \in Documents, ~spoiled[d], ~LeftOver(d), saving[d] = "no"
        PROVE  expected[d] = IF inMemory[d] THEN memory[d]
                         ELSE IF toMove[d] /\ moving[d] # "placed" THEN temporary[name[d]]
                         ELSE path[d]
    <3>1. ArrayOK(d) /\ PromisedOK(d) /\ PlacedOK(d) /\ WaitingOK(d)
      BY <2>1 DEF FilesInv, DocumentOK
    <3>2. CASE inMemory[d]
      BY <3>1, <3>2 DEF ArrayOK
    <3>3. CASE ~inMemory[d]
      BY <2>1, <3>1, <3>3 DEF ArrayOK, PromisedOK, PlacedOK, WaitingOK, Waiting
    <3> QED BY <3>2, <3>3
  <2> QED BY <2>1 DEF ReaderFindsKept
<1> QED BY <1>1, <1>2, <1>3 DEF FilesAreKept

\* Crashes, failures and another document with the same contact neither lose nor
\* mix histories, but for the cases that FilesAreKept names.
THEOREM FilesKept == FilesSpec => []FilesAreKept
<1>1. FilesInit => TypeInv /\ FilesInv
  BY TypeInit, FilesInvInit
<1>2. TypeInv /\ FilesInv /\ [FilesNext]_fvars => (TypeInv /\ FilesInv)'
  BY NextType, NextOK
<1>3. TypeInv /\ FilesInv => FilesAreKept
  BY FilesInvKeeps
<1> QED BY <1>1, <1>2, <1>3, PTL DEF FilesSpec

-----------------------------------------------------------------------------

\* A set of naturals has a least element.  (The library's theorem about the order
\* of the naturals takes an operator; that of the subsets of a finite set does not.)
LEMMA Least ==
  ASSUME NEW N \in Nat, NEW T \in SUBSET (0..N), T # {}
  PROVE  \E n \in T : \A k \in T : n <= k
<1> DEFINE R == StrictSubsetOrdering(0..N)
           S == FiniteSubsetsOf(0..N)
           Below == {0..(n - 1) : n \in T}
<1>1. IsWellFoundedOn(R, S)
  BY FS_StrictSubsetOrderingWellFounded
<1>2. Below \subseteq S /\ Below # {}
  <2>1. ASSUME NEW n \in T PROVE 0..(n - 1) \in S
    <3>1. n - 1 \in Int /\ 0..(n - 1) \subseteq 0..N
      OBVIOUS
    <3>2. IsFiniteSet(0..(n - 1))
      BY <3>1, FS_Interval
    <3> QED BY <3>1, <3>2 DEF FiniteSubsetsOf
  <2> QED BY <2>1
<1>3. PICK B \in Below : \A C \in Below : <<C, B>> \notin R
  <2> HIDE DEF R, S, Below
  <2> QED BY <1>1, <1>2, WFMin
<1>4. PICK n \in T : B = 0..(n - 1)
  OBVIOUS
<1>5. ASSUME NEW k \in T, k < n PROVE FALSE
  <2>1. 0..(k - 1) \in Below /\ B \in Below
    OBVIOUS
  <2>2. 0..(k - 1) \subseteq 0..N /\ B \subseteq 0..N
    BY <1>4
  <2>3. 0..(k - 1) \subseteq B /\ 0..(k - 1) # B
    <3>1. k \in B /\ k \notin 0..(k - 1)
      BY <1>4, <1>5
    <3>2. 0..(k - 1) \subseteq B
      BY <1>4, <1>5
    <3> QED BY <3>1, <3>2
  <2>4. <<0..(k - 1), B>> \in R
    BY <2>2, <2>3 DEF StrictSubsetOrdering
  <2> QED BY <1>3, <2>1, <2>4
<1> QED BY <1>5

\* A name with a file was written to by a call; a document that must be written
\* answers for one that has left no file yet.
Filled == {n \in Names : temporary[n] # {}}
Pending == {d \in Documents : toWrite[d]}
RoomInv ==
    /\ IsFiniteSet(Pending)
    /\ Cardinality(Filled) + Cardinality(Pending) <= calls
    /\ \A d \in Documents : writing[d] => toWrite[d]

\* The names and those that have a file are finitely many.
LEMMA NamesFinite ==
  /\ IsFiniteSet(Names) /\ Cardinality(Names) = MaxCalls + 1
  /\ IsFiniteSet(Filled) /\ Cardinality(Filled) \in Nat
<1>1. IsFiniteSet(Names) /\ Cardinality(Names) = MaxCalls + 1
  BY FilesAssumption, FS_Interval DEF Names
<1> QED BY <1>1, FS_Subset, FS_CardinalityType DEF Filled

\* The loop of writeMessages: that looks for a name finds one.
LEMMA UnusedName ==
  ASSUME TypeInv, RoomInv
  PROVE  \E n \in Names : Unused(n)
<1> DEFINE Free == Names \ Filled
<1>1. Free # {}
  <2>1. Cardinality(Pending) \in Nat /\ Cardinality(Filled) + Cardinality(Pending) <= calls
    BY FS_CardinalityType DEF RoomInv
  <2>2. Cardinality(Filled) # Cardinality(Names)
    BY <2>1, NamesFinite, FilesAssumption DEF TypeInv
  <2>3. Filled # Names
    BY <2>2
  <2> QED BY <2>3 DEF Filled
<1>2. PICK n \in Free : \A k \in Free : n <= k
  BY <1>1, Least, FilesAssumption DEF Names
<1>3. ASSUME NEW k \in 0..(n - 1) PROVE temporary[k] # {}
  <2>1. k \in Names /\ ~(n <= k)
    BY <1>2, FilesAssumption DEF Names
  <2> QED BY <2>1, <1>2 DEF Filled
<1> QED BY <1>2, <1>3 DEF Unused, Filled

\* There is room in the first state.
LEMMA RoomInvInit == ASSUME FilesInit PROVE RoomInv
<1>1. Filled = {} /\ Pending = {} /\ calls = 0
  BY DEF FilesInit, Filled, Pending, All
<1> QED BY <1>1, FS_EmptySet DEF RoomInv, FilesInit, All

\* A step that neither fills a name nor makes a document due leaves room.
LEMMA RoomLeft ==
  ASSUME RoomInv, Filled' \subseteq Filled, Pending' \subseteq Pending, calls \in Int, calls' \in Int,
         calls <= calls', \A d \in Documents : writing'[d] => toWrite'[d]
  PROVE  RoomInv'
<1>1. /\ IsFiniteSet(Pending') /\ Cardinality(Pending') <= Cardinality(Pending)
      /\ Cardinality(Pending) \in Nat /\ Cardinality(Pending') \in Nat
  BY FS_Subset, FS_CardinalityType DEF RoomInv
<1>2. /\ Cardinality(Filled') <= Cardinality(Filled)
      /\ Cardinality(Filled) \in Nat /\ Cardinality(Filled') \in Nat
  BY NamesFinite, FS_Subset, FS_CardinalityType
<1> QED BY <1>1, <1>2 DEF RoomInv

\* Appending and clearing leave room: each is a call.
LEMMA ChangeRoom ==
  ASSUME TypeInv, RoomInv, NEW c \in Documents, NEW messages_, Change(c, messages_)
  PROVE  RoomInv'
<1>1. Filled' = Filled /\ Pending' = Pending \cup {c} /\ calls' = calls + 1
  BY DEF Change, Call, Filled, Pending, disk, TypeInv, Flags
<1>2. \A d \in Documents : writing'[d] => toWrite'[d]
  BY DEF Change, RoomInv, TypeInv, Flags
<1>3. IsFiniteSet(Pending \cup {c}) /\ Cardinality(Pending \cup {c}) <= Cardinality(Pending) + 1
  BY FS_AddElement, FS_CardinalityType DEF RoomInv
<1>4. Cardinality(Pending) \in Nat /\ Cardinality(Pending \cup {c}) \in Nat /\ Cardinality(Filled) \in Nat
  BY <1>3, FS_CardinalityType, NamesFinite DEF RoomInv
<1> QED BY <1>1, <1>2, <1>3, <1>4 DEF RoomInv, TypeInv

\* Writing leaves room: the document is no longer due.
LEMMA WriteRoom ==
  ASSUME TypeInv, RoomInv, NEW c \in Documents, NEW works \in BOOLEAN, WriteTemporary(c, works)
  PROVE  RoomInv'
<1>1. /\ Filled' \subseteq Filled \cup {name[c]}
      /\ Pending' = Pending \ {c} /\ c \in Pending /\ calls' = calls
  BY DEF WriteTemporary, Filled, Pending, TypeInv, Flags, RoomInv
<1>2. \A d \in Documents : writing'[d] => toWrite'[d]
  BY DEF WriteTemporary, RoomInv, TypeInv, Flags
<1>3. IsFiniteSet(Pending \ {c}) /\ Cardinality(Pending \ {c}) = Cardinality(Pending) - 1
  BY <1>1, FS_RemoveElement DEF RoomInv
<1>4. /\ IsFiniteSet(Filled \cup {name[c]})
      /\ Cardinality(Filled \cup {name[c]}) <= Cardinality(Filled) + 1
  <2>1. IsFiniteSet(Filled) /\ Cardinality(Filled) \in Nat
    BY NamesFinite
  <2> QED BY <2>1, FS_AddElement
<1>5. Cardinality(Filled') <= Cardinality(Filled \cup {name[c]})
  BY <1>1, <1>4, FS_Subset
<1>6. /\ Cardinality(Pending) \in Nat /\ Cardinality(Filled) \in Nat /\ Cardinality(Filled') \in Nat
      /\ Cardinality(Filled \cup {name[c]}) \in Nat
  <2>1. IsFiniteSet(Filled')
    BY <1>1, <1>4, FS_Subset
  <2> QED BY <1>4, <2>1, FS_CardinalityType, NamesFinite DEF RoomInv
<1> QED BY <1>1, <1>2, <1>3, <1>4, <1>5, <1>6 DEF RoomInv, TypeInv

\* Every step leaves room.
LEMMA NextRoom == ASSUME TypeInv, TypeInv', RoomInv, [FilesNext]_fvars PROVE RoomInv'
<1>1. ASSUME NEW c \in Documents, AppendTo(c) \/ ClearHistory(c) PROVE RoomInv'
  BY <1>1, ChangeRoom DEF AppendTo, ClearHistory
<1>2. ASSUME NEW c \in Documents, NEW works \in BOOLEAN, WriteTemporary(c, works) PROVE RoomInv'
  BY <1>2, WriteRoom
<1>3. ASSUME NEW c \in Documents,
             \/ Release(c) \/ ChooseName(c) \/ BackUp(c) \/ RemoveBackup(c)
             \/ SetAside(c) \/ EndSave(c) \/ DeleteContact(c)
             \/ \E works \in BOOLEAN : PutInPlace(c, works) \/ MoveHistory(c, works)
      PROVE  RoomInv'
  <2>1. Filled' \subseteq Filled
    <3>1. CASE \E works \in BOOLEAN : PutInPlace(c, works)
      BY <3>1 DEF PutInPlace, Filled, TypeInv
    <3>2. CASE ~\E works \in BOOLEAN : PutInPlace(c, works)
      <4>1. temporary' = temporary
        BY <1>3, <3>2 DEF Release, ChooseName, BackUp, RemoveBackup, SetAside, EndSave, DeleteContact,
                          MoveHistory, disk
      <4> QED BY <4>1 DEF Filled
    <3> QED BY <3>1, <3>2
  <2>2. Pending' \subseteq Pending /\ \A d \in Documents : writing'[d] => toWrite'[d]
    <3>1. CASE ChooseName(c)
      BY <3>1 DEF ChooseName, Pending, RoomInv, TypeInv, Flags
    <3>2. CASE ~ChooseName(c)
      <4>1. toWrite' = toWrite /\ writing' = writing
        BY <1>3, <3>2 DEF Release, BackUp, RemoveBackup, SetAside, EndSave, DeleteContact,
                          MoveHistory, PutInPlace, object
      <4> QED BY <4>1 DEF Pending, RoomInv
    <3> QED BY <3>1, <3>2
  <2>3. calls \in Int /\ calls' \in Int /\ calls <= calls'
    <3>1. calls \in Int /\ calls' \in Int
      BY DEF TypeInv
    <3>2. calls' = calls \/ calls' = calls + 1
      BY <1>3 DEF Release, ChooseName, BackUp, RemoveBackup, SetAside, EndSave, DeleteContact,
                  MoveHistory, PutInPlace, Call
    <3> QED BY <3>1, <3>2
  <2> QED BY <2>1, <2>2, <2>3, RoomLeft
<1>4. CASE Crash \/ UNCHANGED fvars
  <2>1. Filled' = Filled /\ calls' = calls /\ calls \in Int
    <3>1. temporary' = temporary /\ calls' = calls
      BY <1>4 DEF Crash, fvars, disk
    <3> QED BY <3>1 DEF Filled, TypeInv
  <2>2. Pending' \subseteq Pending /\ \A d \in Documents : writing'[d] => toWrite'[d]
    BY <1>4 DEF Crash, All, fvars, object, Pending, RoomInv
  <2> QED BY <2>1, <2>2, RoomLeft
<1> QED BY <1>1, <1>2, <1>3, <1>4 DEF FilesNext

\* The variables keep their types, a move is under way only if it is due, and
\* writeMessages: always finds a name without a file.
THEOREM FilesTypeCorrect == FilesSpec => []FilesTypeOK
<1>1. FilesInit => TypeInv /\ FilesInv /\ RoomInv
  BY TypeInit, FilesInvInit, RoomInvInit
<1>2. TypeInv /\ FilesInv /\ RoomInv /\ [FilesNext]_fvars => (TypeInv /\ FilesInv /\ RoomInv)'
  BY NextType, NextOK, NextRoom
<1>3. TypeInv /\ FilesInv /\ RoomInv => FilesTypeOK
  <2> SUFFICES ASSUME TypeInv, FilesInv, RoomInv PROVE FilesTypeOK
    OBVIOUS
  <2>1. \E n \in Names : Unused(n)
    BY UnusedName
  <2>2. \A d \in Documents : moving[d] # "no" => toMove[d]
    BY DEF FilesInv, OneAtATime
  <2> QED BY <2>1, <2>2 DEF FilesTypeOK, TypeInv, Files, Flags
<1> QED BY <1>1, <1>2, <1>3, PTL DEF FilesSpec

\* A behaviour of the composed specification is one of a history and one of its
\* files: the run checks both.
THEOREM BothImplemented == BothSpec => Spec /\ FilesSpec
<1>1. BothInit => Init /\ FilesInit
  BY DEF BothInit, FilesAtRest
<1>2. [BothNext]_allVars => [Next]_vars /\ [FilesNext]_fvars
  BY DEF BothNext, allVars
<1> QED BY <1>1, <1>2, PTL DEF BothSpec, Spec, FilesSpec

\* The type invariant of the composed specification
THEOREM BothTypeCorrect == BothSpec => []TypesOK
BY BothImplemented, TypeCorrect, FilesTypeCorrect, PTL DEF TypesOK
=============================================================================
