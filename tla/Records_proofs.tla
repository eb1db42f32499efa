--------------------------- MODULE Records_proofs ---------------------------
(***************************************************************************)
(* That the recorder keeps what its task uses, leaves no half-written CSV, *)
(* and loses no record but to the user, for any number of identifiers.     *)
(***************************************************************************)
EXTENDS Records, TLAPS, WellFoundedInduction

Working == {"waiting", "recording", "saving"}   \* a view that polls a recorder
Early   == {"start", "open", "trigger", "record", "final"}

(* What the shared object says while the task is at a step, and what the   *)
(* task has by then.                                                       *)
TaskInv ==
  /\ TriggerOutlivesTask
  /\ rec.on => files.name \in Ids
  /\ task.pc # "none" => rec.error = "none"
  /\ rec.on /\ task.pc = "none" => (rec.error = "none" <=> rec.state = "finished")
  /\ task.pc \in {"start", "open"} => rec.state = "preparing"
  /\ task.pc = "trigger" => rec.state = "waiting"
  /\ task.pc = "record" => rec.state = "recording"
  /\ task.pc \in {"final", "merge", "close", "drop"} => rec.state = "saving"
  /\ task.pc \in Early \cup {"none"} => ~task.created
  /\ task.pc \in Early \cup {"merge", "close", "drop"} => task.error = "none"

(* Only a view that works has a recorder nobody asked to stop.             *)
ViewInv ==
  /\ view.state \in Working => rec.on /\ (app # "exit" => ~rec.stop)
  /\ view.state \notin Working /\ rec.on => rec.stop
  /\ view.state = "recording" => rec.state \notin {"preparing", "waiting"}
  /\ view.state = "saving" => rec.state \notin {"preparing", "waiting", "recording"}
  /\ view.state = "menu" => ~rec.on /\ app \in {"free", "title"}
  /\ app = "title" => view.state = "menu"
  /\ app = "create" => ~rec.on /\ view.state = "idle"
  /\ app \in {"start", "retry"} => view.state = "idle"
  /\ app = "menu" => view.state = "saving" /\ ~Exists
  /\ Destroying /\ Exists => rec.stop

(* Where the task may leave a partial CSV, and what it has written unless  *)
(* it was asked to stop before its view showed it as being saved.          *)
FilesInv ==
  /\ \A n \in Names : files.dir[n] = "partial" =>
       /\ n = files.name /\ task.created
       /\ \/ task.pc \in {"merge", "close"}
          \/ task.pc \in {"cleanup", "unsave"} /\ task.error = "failed"
  /\ task.pc \in {"none", "unsave", "finish"} => (files.temp => left)
  /\ FinishedIsSaved
  /\ MustBeSaved =>
       /\ task.pc \in {"merge", "close"} => files.dir[files.name] = "partial"
       /\ task.pc = "drop" => files.dir[files.name] = "whole"
       /\ task.pc \in {"cleanup", "unsave"} => task.error = "failed"
       /\ task.pc = "finish" /\ task.error = "none" => files.dir[files.name] = "whole"

(* The name of a recording is free until it is written, and the newest.    *)
NameInv ==
  "name" \notin overlooked =>
    /\ task.pc \in Early => files.dir[files.name] = "none"
    /\ view.state \in Working \cup {"menu"} => \A n \in Existing \cap Ids : n <= files.name
    /\ view.state = "menu" /\ lastError = "none" =>
         files.name \in Ids /\ files.dir[files.name] = "whole"

(* The page after a recording shows the newest record its scans see.       *)
TitleInv ==
  view.state = "menu" /\ app = "free" /\ "menu" \notin overlooked => view.title = Latest

DownloadInv ==
  /\ selected = NoName => get.of = "none"
  /\ DownloadIsWhole

RecorderInv == TypeOK /\ TaskInv /\ ViewInv /\ FilesInv /\ NameInv /\ TitleInv
-----------------------------------------------------------------------------
(* Facts about identifiers and about the fields of the records. *)

(* A set of identifiers has a largest one.                                 *)
LEMMA LargestExists ==
  ASSUME NEW S \in SUBSET Ids, S # {}
  PROVE  \E x \in S : \A y \in S : x >= y
<1> DEFINE R == OpToRel(<, Nat)
           T == {MaxId - x : x \in S}
<1>0. MaxId \in Nat
  BY MaxIdAssumption
<1>1. S \subseteq 0 .. MaxId
  BY DEF Ids
<1>3. \A i, j \in Nat : i < j => <<i, j>> \in R
  BY DEF OpToRel
<1>4. IsWellFoundedOn(R, Nat)
  BY NatLessThanWellFounded
<1> HIDE DEF R
<1>2. T \subseteq Nat /\ T # {}
  <2>1. ASSUME NEW x \in S PROVE MaxId - x \in Nat
    BY <1>0, <1>1
  <2>2. T \subseteq Nat
    BY <2>1
  <2>3. PICK x : x \in S
    OBVIOUS
  <2>4. MaxId - x \in T
    BY <2>3
  <2> QED
    BY <2>2, <2>4
<1> HIDE DEF T
<1>5. PICK t \in T : \A u \in T : ~(<<u, t>> \in R)
  BY <1>2, <1>4, WFMin
<1>6. ASSUME NEW u \in T PROVE t <= u
  <2>1. t \in Nat /\ u \in Nat
    BY <1>2, <1>5
  <2>2. ~(u < t)
    BY <1>3, <1>5, <2>1
  <2> QED
    BY <2>1, <2>2
<1>7. PICK x \in S : t = MaxId - x
  BY <1>5 DEF T
<1>8. ASSUME NEW y \in S PROVE x >= y
  <2>1. MaxId - y \in T
    BY DEF T
  <2>2. MaxId - x <= MaxId - y
    BY <1>6, <1>7, <2>1
  <2> QED
    BY <1>0, <1>1, <2>2
<1> QED
  BY <1>8

LEMMA NewestIsLargest ==
  ASSUME NEW S \in SUBSET Names, S \cap Ids # {}
  PROVE  /\ Newest(S) \in S \cap Ids
         /\ \A n \in S \cap Ids : n <= Newest(S)
<1>1. \E x \in S \cap Ids : \A y \in S \cap Ids : x >= y
  BY LargestExists
<1>2. Newest(S) = CHOOSE x \in S \cap Ids : \A y \in S \cap Ids : x >= y
  BY DEF Newest, Max
<1> QED
  BY <1>1, <1>2 DEF Ids

LEMMA NewestType == \A S \in SUBSET Names : Newest(S) \in Ids \cup {NoName}
BY NewestIsLargest DEF Newest

States == {"preparing", "waiting", "recording", "saving"} \cup Ended
Steps == {"none", "start", "open", "trigger", "record", "final", "merge", "close",
          "drop", "cleanup", "unsave", "finish"}
Phases == {"empty", "preparing", "running", "finished"}
RecSet == [on : BOOLEAN, error : Errors, stop : BOOLEAN, state : States, trigger : Phases]
TaskSet == [pc : Steps, error : Errors, created : BOOLEAN]
ViewSet == [state : {"gone", "idle", "waiting", "recording", "saving", "fault", "menu"},
            checked : BOOLEAN, quit : BOOLEAN, late : BOOLEAN, title : Ids \cup {NoName}]
Callers == {"free", "exit", "retry", "menu", "fault", "start", "create", "title"}
Scans == SUBSET {"name", "menu"}
FilesSet == [temp : BOOLEAN, dir : [Names -> Content], name : Ids \cup {NoName}]

(* What an update of a field leaves in its set.                            *)
LEMMA RecUpdates ==
  ASSUME NEW r \in RecSet
  PROVE  /\ \A state \in States : [r EXCEPT !.state = state] \in RecSet
         /\ \A phase \in Phases : [r EXCEPT !.trigger = phase] \in RecSet
         /\ \A stop \in BOOLEAN : [r EXCEPT !.stop = stop] \in RecSet
         /\ \A error \in Errors, phase \in Phases, state \in States :
              [r EXCEPT !.error = error, !.trigger = phase, !.state = state] \in RecSet
BY DEF RecSet

LEMMA TaskUpdates ==
  ASSUME NEW t \in TaskSet
  PROVE  /\ \A pc \in Steps : [t EXCEPT !.pc = pc] \in TaskSet
         /\ \A pc \in Steps, error \in Errors : [t EXCEPT !.pc = pc, !.error = error] \in TaskSet
         /\ \A pc \in Steps, error \in Errors : [t EXCEPT !.error = error, !.pc = pc] \in TaskSet
         /\ \A pc \in Steps, b \in BOOLEAN : [t EXCEPT !.pc = pc, !.created = b] \in TaskSet
BY DEF TaskSet

LEMMA FilesUpdates ==
  ASSUME NEW f \in FilesSet
  PROVE  /\ \A b \in BOOLEAN : [f EXCEPT !.temp = b] \in FilesSet
         /\ \A n : \A content \in Content : [f EXCEPT !.dir[n] = content] \in FilesSet
         /\ \A n \in Ids : [f EXCEPT !.temp = TRUE, !.name = n] \in FilesSet
BY DEF FilesSet

(* TypeOK by named sets, which the provers keep closed.                    *)
LEMMA TypeByFields ==
  TypeOK <=> /\ rec.on => (rec.trigger = "finished" <=> rec.state \in Ended)
             /\ rec \in RecSet /\ task \in TaskSet /\ files \in FilesSet
             /\ lastError \in Errors /\ left \in BOOLEAN /\ overlooked \in Scans
             /\ view \in ViewSet /\ app \in Callers
BY DEF TypeOK, RecSet, TaskSet, FilesSet, ViewSet, Callers, Scans, States, Steps, Phases

(* What the helpers of the actions do to each field.                       *)
LEMMA TaskFields ==
  ASSUME task \in TaskSet
  PROVE  /\ \A pc \in Steps : TaskAt(pc) =>
              /\ task' \in TaskSet
              /\ task'.pc = pc /\ task'.error = task.error /\ task'.created = task.created
         /\ Fails =>
              /\ task' \in TaskSet
              /\ task'.pc = "cleanup" /\ task'.error = "failed" /\ task'.created = task.created
BY DEF TaskSet, TaskAt, Fails, Steps, Errors

LEMMA StateFields ==
  ASSUME rec \in RecSet, NEW state \in States, State(state)
  PROVE  /\ rec' \in RecSet /\ rec'.state = state
         /\ rec'.on = rec.on /\ rec'.error = rec.error /\ rec'.stop = rec.stop
         /\ rec'.trigger = rec.trigger
BY DEF RecSet, State

LEMMA DestroyType ==
  ASSUME rec \in RecSet, NEW why, Destroy(why)
  PROVE  rec' \in RecSet
BY RecUpdates DEF RecSet, Destroy, Exists

LEMMA FilesFields ==
  ASSUME files \in FilesSet
  PROVE  /\ \A content \in Content : files.name \in Names /\ Final(content) =>
              /\ files' \in FilesSet
              /\ files'.temp = files.temp /\ files'.name = files.name
              /\ files'.dir[files.name] = content
              /\ \A n \in Names \ {files.name} : files'.dir[n] = files.dir[n]
         /\ \A n \in Names : Remove(n) =>
              /\ files'.temp = files.temp /\ files'.name = files.name
              /\ files'.dir[n] = "none"
              /\ \A m \in Names \ {n} : files'.dir[m] = files.dir[m]
         /\ \A removed \in BOOLEAN : RemoveTemp(removed) =>
              /\ files'.name = files.name /\ files'.dir = files.dir
              /\ files'.temp => left'
BY DEF FilesSet, Final, Remove, RemoveTemp

(* What a caller makes of its destroy.                                     *)
LEMMA ContinueFacts ==
  ASSUME view \in ViewSet, Destroying, NEW done \in BOOLEAN, Continue(done)
  PROVE  /\ view' \in ViewSet
         /\ app' = IF app = "start" /\ done THEN "create"
                   ELSE IF app = "menu" THEN "title" ELSE "free"
         /\ view'.state = CASE app = "exit" -> "gone"
                            [] app = "menu" -> "menu"
                            [] app = "fault" -> "fault"
                            [] app = "retry" -> view.state
                            [] app = "start" -> IF done THEN view.state ELSE "fault"
<1>0. /\ view.late \in BOOLEAN /\ NoName \in Ids \cup {NoName}
      /\ NewView("gone") \in ViewSet /\ NewView("gone").state = "gone"
      /\ NewView("menu") \in ViewSet /\ NewView("menu").state = "menu"
      /\ \A late \in BOOLEAN : /\ [NewView("fault") EXCEPT !.late = late] \in ViewSet
                               /\ [NewView("fault") EXCEPT !.late = late].state = "fault"
                               /\ [view EXCEPT !.late = late] \in ViewSet
                               /\ [view EXCEPT !.late = late].state = view.state
  BY DEF ViewSet, NewView
<1>1. CASE app = "exit"
  BY <1>0, <1>1 DEF Continue
<1>2. CASE app = "menu"
  BY <1>0, <1>2 DEF Continue
<1>3. CASE app = "retry"
  BY <1>0, <1>3 DEF Continue
<1>4. CASE app = "fault"
  BY <1>0, <1>4 DEF Continue
<1>5. CASE app = "start"
  BY <1>0, <1>5 DEF Continue
<1> QED
  BY <1>1, <1>2, <1>3, <1>4, <1>5 DEF Destroying

-----------------------------------------------------------------------------
(* The steps of the recorder and its view.  What a lemma splits further    *)
(* comes first.                                                            *)

(* The object, the task and the files keep their types.                    *)
LEMMA RecType ==
  ASSUME TypeOK, TaskInv, Next
  PROVE  rec' \in RecSet
<1>a. /\ rec \in RecSet /\ task \in TaskSet /\ files \in FilesSet /\ view \in ViewSet
      /\ lastError \in Errors /\ left \in BOOLEAN /\ overlooked \in Scans /\ app \in Callers
  BY TypeByFields
<1>1. CASE TaskStarts
  BY <1>1, <1>a, RecUpdates DEF TaskStarts, Phases
<1>2. CASE OpenChunk
  BY <1>2, <1>a, StateFields DEF OpenChunk, States
<1>3. CASE Trigger
  BY <1>3, <1>a, StateFields DEF Trigger, States
<1>4. CASE EndRecording
  BY <1>4, <1>a, StateFields DEF EndRecording, States
<1>5. CASE Finish
  <2>1. /\ task.error \in Errors /\ TriggerFinished \in Phases
        /\ (IF task.error = "none" THEN "finished" ELSE "error") \in States
    BY <1>a DEF TaskSet, TriggerFinished, Phases, States, Ended
  <2> QED
    BY <1>5, <1>a, <2>1, RecUpdates DEF Finish
<1>6. CASE DestroyReturns
  BY <1>6, <1>a DEF DestroyReturns, NoRec, RecSet, Errors, States, Ended, Phases
<1>7. CASE CreateSucceeds
  <2>1. rec' = [on |-> TRUE, state |-> "preparing", error |-> "none", stop |-> FALSE,
                trigger |-> "preparing"]
    BY <1>7 DEF CreateSucceeds
  <2> QED
    BY <2>1 DEF RecSet, Errors, States, Phases
<1>8. CASE StopSeen
  BY <1>8, <1>a, DestroyType DEF StopSeen
<1>9. CASE OpenFinal
  BY <1>9, <1>a, DestroyType DEF OpenFinal
<1>10. CASE Merge
  BY <1>10, <1>a, DestroyType DEF Merge
<1>11. CASE CloseFinal
  BY <1>11, <1>a, DestroyType DEF CloseFinal
<1>12. CASE DropChunks
  BY <1>12, <1>a, DestroyType DEF DropChunks
<1>13. CASE CleanUp
  BY <1>13, <1>a, DestroyType DEF CleanUp
<1>14. CASE RemoveFinal
  BY <1>14, <1>a, DestroyType DEF RemoveFinal
<1>15. CASE WriteFails
  BY <1>15, <1>a, DestroyType DEF WriteFails
<1>16. CASE DestroyTimesOut
  BY <1>16, <1>a, DestroyType DEF DestroyTimesOut, TimedOut
<1>17. CASE CreateFails
  BY <1>17, <1>a, DestroyType DEF CreateFails
<1>18. CASE ReadError
  BY <1>18, <1>a, DestroyType DEF ReadError
<1>19. CASE ReadState
  BY <1>19, <1>a, DestroyType DEF ReadState
<1>20. CASE OpenWaveform
  BY <1>20, <1>a, DestroyType DEF OpenWaveform
<1>21. CASE StartRecording
  BY <1>21, <1>a, DestroyType DEF StartRecording
<1>22. CASE RetryCleanup
  BY <1>22, <1>a, DestroyType DEF RetryCleanup
<1>23. CASE Exit
  BY <1>23, <1>a, DestroyType DEF Exit
<1>24. CASE Acknowledge
  BY <1>24, <1>a, DestroyType DEF Acknowledge
<1>25. CASE LeaveMenu
  BY <1>25, <1>a, DestroyType DEF LeaveMenu
<1>26. CASE ShowTitle
  BY <1>26, <1>a, DestroyType DEF ShowTitle
<1>27. CASE BackToMenu
  BY <1>27, <1>a, DestroyType DEF BackToMenu
<1> QED
  BY <1>1, <1>2, <1>3, <1>4, <1>5, <1>6, <1>7, <1>8, <1>9, <1>10, <1>11, <1>12, <1>13,
     <1>14, <1>15, <1>16, <1>17, <1>18, <1>19, <1>20, <1>21, <1>22, <1>23, <1>24, <1>25, <1>26, <1>27 DEF Next,
     RecorderTask, Saving, CreateRecorder, Poll, User, Menu

LEMMA TaskType ==
  ASSUME TypeOK, Next
  PROVE  task' \in TaskSet
<1>a. /\ rec \in RecSet /\ task \in TaskSet /\ files \in FilesSet /\ view \in ViewSet
      /\ lastError \in Errors /\ left \in BOOLEAN /\ overlooked \in Scans /\ app \in Callers
  BY TypeByFields
<1>b. NoTask \in TaskSet /\ [NoTask EXCEPT !.pc = "start"] \in TaskSet
  BY DEF NoTask, TaskSet, Errors, Steps
<1>1. CASE OpenFinal
  <2>1. CASE Fails
    BY <1>a, <2>1, TaskFields
  <2>2. CASE task' = [task EXCEPT !.pc = "merge", !.created = TRUE]
    BY <1>a, <2>2, TaskUpdates DEF Steps
  <2> QED
    BY <1>1, <2>1, <2>2 DEF OpenFinal
<1>2. CASE CleanUp
  <2>1. PICK removed \in BOOLEAN :
          task' = [task EXCEPT !.error = IF removed THEN @ ELSE "failed", !.pc = "unsave"]
    BY <1>2 DEF CleanUp
  <2>2. (IF removed THEN task.error ELSE "failed") \in Errors
    BY <1>a DEF TaskSet, Errors
  <2> QED
    BY <1>a, <2>1, <2>2, TaskUpdates DEF Steps
<1> USE DEF Steps
<1>3. CASE TaskStarts
  BY <1>3, <1>a, <1>b, TaskFields DEF TaskStarts
<1>4. CASE OpenChunk
  BY <1>4, <1>a, <1>b, TaskFields DEF OpenChunk
<1>5. CASE Trigger
  BY <1>5, <1>a, <1>b, TaskFields DEF Trigger
<1>6. CASE StopSeen
  BY <1>6, <1>a, <1>b, TaskFields DEF StopSeen
<1>7. CASE EndRecording
  BY <1>7, <1>a, <1>b, TaskFields DEF EndRecording
<1>8. CASE Merge
  BY <1>8, <1>a, <1>b, TaskFields DEF Merge
<1>9. CASE CloseFinal
  BY <1>9, <1>a, <1>b, TaskFields DEF CloseFinal, CloseFails
<1>10. CASE DropChunks
  BY <1>10, <1>a, <1>b, TaskFields DEF DropChunks
<1>11. CASE RemoveFinal
  BY <1>11, <1>a, <1>b, TaskFields DEF RemoveFinal
<1>12. CASE Finish
  BY <1>12, <1>a, <1>b, TaskFields DEF Finish
<1>13. CASE WriteFails
  BY <1>13, <1>a, <1>b, TaskFields DEF WriteFails
<1>14. CASE DestroyReturns
  BY <1>14, <1>a, <1>b, TaskFields DEF DestroyReturns
<1>15. CASE DestroyTimesOut
  BY <1>15, <1>a, <1>b, TaskFields DEF DestroyTimesOut
<1>16. CASE CreateSucceeds
  BY <1>16, <1>a, <1>b, TaskFields DEF CreateSucceeds
<1>17. CASE CreateFails
  BY <1>17, <1>a, <1>b, TaskFields DEF CreateFails
<1>18. CASE ReadError
  BY <1>18, <1>a, <1>b, TaskFields DEF ReadError, ViewOnly
<1>19. CASE ReadState
  BY <1>19, <1>a, <1>b, TaskFields DEF ReadState, ViewOnly
<1>20. CASE OpenWaveform
  BY <1>20, <1>a, <1>b, TaskFields DEF OpenWaveform, ViewOnly
<1>21. CASE StartRecording
  BY <1>21, <1>a, <1>b, TaskFields DEF StartRecording, ViewOnly
<1>22. CASE RetryCleanup
  BY <1>22, <1>a, <1>b, TaskFields DEF RetryCleanup, ViewOnly
<1>23. CASE Exit
  BY <1>23, <1>a, <1>b, TaskFields DEF Exit, ViewOnly
<1>24. CASE Acknowledge
  BY <1>24, <1>a, <1>b, TaskFields DEF Acknowledge, ViewOnly
<1>25. CASE LeaveMenu
  BY <1>25, <1>a, <1>b, TaskFields DEF LeaveMenu
<1>26. CASE ShowTitle
  BY <1>26, <1>a, <1>b, TaskFields DEF ShowTitle
<1>27. CASE BackToMenu
  BY <1>27, <1>a, <1>b, TaskFields DEF BackToMenu, ViewOnly
<1> QED
  BY <1>1, <1>2, <1>3, <1>4, <1>5, <1>6, <1>7, <1>8, <1>9, <1>10, <1>11, <1>12, <1>13,
     <1>14, <1>15, <1>16, <1>17, <1>18, <1>19, <1>20, <1>21, <1>22, <1>23, <1>24, <1>25, <1>26, <1>27 DEF Next,
     RecorderTask, Saving, CreateRecorder, Poll, User, Menu

LEMMA FilesType ==
  ASSUME TypeOK, TaskInv, Next
  PROVE  files' \in FilesSet
<1>a. /\ rec \in RecSet /\ task \in TaskSet /\ files \in FilesSet /\ view \in ViewSet
      /\ lastError \in Errors /\ left \in BOOLEAN /\ overlooked \in Scans /\ app \in Callers
  BY TypeByFields
<1>b. task.pc # "none" => files.name \in Names
  BY DEF TaskInv, TriggerOutlivesTask, Exists, Names
<1>1. CASE OpenFinal
  BY <1>1, <1>a, <1>b, FilesFields DEF OpenFinal, Content
<1>2. CASE RemoveFinal
  <2>0. task.pc # "none"
    BY <1>2 DEF RemoveFinal
  <2>1. UNCHANGED files \/ \E content \in Content : Final(content)
    BY <1>2 DEF RemoveFinal, Content
  <2> QED
    BY <1>a, <1>b, <2>0, <2>1, FilesFields
<1> USE DEF Content
<1>3. CASE TaskStarts
  BY <1>3, <1>a, <1>b, FilesUpdates DEF TaskStarts
<1>4. CASE OpenChunk
  BY <1>4, <1>a, <1>b, FilesUpdates DEF OpenChunk
<1>5. CASE Trigger
  BY <1>5, <1>a, <1>b, FilesUpdates DEF Trigger
<1>6. CASE StopSeen
  BY <1>6, <1>a, <1>b, FilesUpdates DEF StopSeen
<1>7. CASE EndRecording
  BY <1>7, <1>a, <1>b, FilesUpdates DEF EndRecording
<1>8. CASE Merge
  BY <1>8, <1>a, <1>b, FilesUpdates DEF Merge
<1>9. CASE CloseFinal
  BY ZenonT(30), <1>9, <1>a, <1>b, FilesUpdates DEF CloseFinal, CloseFails, Final
<1>10. CASE DropChunks
  BY <1>10, <1>a, <1>b, FilesUpdates DEF DropChunks, RemoveTemp
<1>11. CASE CleanUp
  BY <1>11, <1>a, <1>b, FilesUpdates DEF CleanUp, RemoveTemp
<1>12. CASE Finish
  BY <1>12, <1>a, <1>b, FilesUpdates DEF Finish
<1>13. CASE WriteFails
  BY <1>13, <1>a, <1>b, FilesUpdates DEF WriteFails
<1>14. CASE DestroyReturns
  BY <1>14, <1>a, <1>b, FilesUpdates DEF DestroyReturns
<1>15. CASE DestroyTimesOut
  BY <1>15, <1>a, <1>b, FilesUpdates DEF DestroyTimesOut
<1>16. CASE CreateSucceeds
  BY <1>16, <1>a, <1>b, FilesUpdates DEF CreateSucceeds, Choose
<1>17. CASE CreateFails
  BY <1>17, <1>a, <1>b, FilesUpdates DEF CreateFails, RemoveTemp
<1>18. CASE ReadError
  BY <1>18, <1>a, <1>b, FilesUpdates DEF ReadError, ViewOnly
<1>19. CASE ReadState
  BY <1>19, <1>a, <1>b, FilesUpdates DEF ReadState, ViewOnly
<1>20. CASE OpenWaveform
  BY <1>20, <1>a, <1>b, FilesUpdates DEF OpenWaveform, ViewOnly
<1>21. CASE StartRecording
  BY <1>21, <1>a, <1>b, FilesUpdates DEF StartRecording, ViewOnly
<1>22. CASE RetryCleanup
  BY <1>22, <1>a, <1>b, FilesUpdates DEF RetryCleanup, ViewOnly
<1>23. CASE Exit
  BY <1>23, <1>a, <1>b, FilesUpdates DEF Exit, ViewOnly
<1>24. CASE Acknowledge
  BY <1>24, <1>a, <1>b, FilesUpdates DEF Acknowledge, ViewOnly
<1>25. CASE LeaveMenu
  BY ZenonT(30), <1>25, <1>a, <1>b, FilesUpdates DEF LeaveMenu, Remove
<1>26. CASE ShowTitle
  BY <1>26, <1>a, <1>b, FilesUpdates DEF ShowTitle
<1>27. CASE BackToMenu
  BY <1>27, <1>a, <1>b, FilesUpdates DEF BackToMenu, ViewOnly
<1> QED
  BY <1>1, <1>2, <1>3, <1>4, <1>5, <1>6, <1>7, <1>8, <1>9, <1>10, <1>11, <1>12, <1>13,
     <1>14, <1>15, <1>16, <1>17, <1>18, <1>19, <1>20, <1>21, <1>22, <1>23, <1>24, <1>25, <1>26, <1>27 DEF Next,
     RecorderTask, Saving, CreateRecorder, Poll, User, Menu

LEMMA ViewType ==
  ASSUME TypeOK, Next
  PROVE  view' \in ViewSet /\ app' \in Callers
<1>a. /\ rec \in RecSet /\ task \in TaskSet /\ files \in FilesSet /\ view \in ViewSet
      /\ lastError \in Errors /\ left \in BOOLEAN /\ overlooked \in Scans /\ app \in Callers
  BY TypeByFields
<1>b. /\ \A state \in {"gone", "idle", "waiting", "recording", "saving", "fault", "menu"} :
           NewView(state) \in ViewSet
      /\ \A b \in BOOLEAN : /\ [view EXCEPT !.checked = b] \in ViewSet
                           /\ [view EXCEPT !.quit = b] \in ViewSet
      /\ \A state \in {"waiting", "recording", "saving"} :
           [view EXCEPT !.state = state, !.checked = FALSE] \in ViewSet
  BY <1>a DEF ViewSet, NewView
<1>c. \A unseen \in Overlookable : [view EXCEPT !.title = Newest(Existing \ unseen)] \in ViewSet
  <2>1. \A unseen \in Overlookable : Newest(Existing \ unseen) \in Ids \cup {NoName}
    BY NewestType DEF Existing
  <2> QED
    BY <1>a, <2>1 DEF ViewSet
<1>1. CASE DestroyReturns
  BY <1>1, <1>a, ContinueFacts DEF DestroyReturns, Callers, Released
<1>2. CASE DestroyTimesOut
  BY <1>2, <1>a, ContinueFacts DEF DestroyTimesOut, Callers
<1>3. CASE ReadState
  <2>1. Shown \in {"waiting", "recording", "saving"}
    BY <1>3 DEF ReadState, Polling, Shown
  <2>2. view' = [view EXCEPT !.state = Shown, !.checked = FALSE]
    BY <1>3 DEF ReadState
  <2>3. app' \in {app, "exit", "menu"}
    BY <1>3 DEF ReadState, Destroy
  <2> QED
    BY <1>a, <1>b, <2>1, <2>2, <2>3 DEF Callers
<1> USE DEF Callers
<1>4. CASE TaskStarts
  BY <1>4, <1>a, <1>b DEF TaskStarts, TaskOnly
<1>5. CASE OpenChunk
  BY <1>5, <1>a, <1>b DEF OpenChunk, TaskOnly
<1>6. CASE Trigger
  BY <1>6, <1>a, <1>b DEF Trigger, TaskOnly
<1>7. CASE StopSeen
  BY <1>7, <1>a, <1>b DEF StopSeen, TaskOnly
<1>8. CASE EndRecording
  BY <1>8, <1>a, <1>b DEF EndRecording, TaskOnly
<1>9. CASE OpenFinal
  BY <1>9, <1>a, <1>b DEF OpenFinal, TaskOnly
<1>10. CASE Merge
  BY <1>10, <1>a, <1>b DEF Merge, TaskOnly
<1>11. CASE CloseFinal
  BY <1>11, <1>a, <1>b DEF CloseFinal, TaskOnly
<1>12. CASE DropChunks
  BY <1>12, <1>a, <1>b DEF DropChunks, TaskOnly
<1>13. CASE CleanUp
  BY <1>13, <1>a, <1>b DEF CleanUp, TaskOnly
<1>14. CASE RemoveFinal
  BY <1>14, <1>a, <1>b DEF RemoveFinal, TaskOnly
<1>15. CASE Finish
  BY <1>15, <1>a, <1>b DEF Finish, TaskOnly
<1>16. CASE WriteFails
  BY <1>16, <1>a, <1>b DEF WriteFails, TaskOnly
<1>17. CASE CreateSucceeds
  BY <1>17, <1>a, <1>b DEF CreateSucceeds
<1>18. CASE CreateFails
  BY <1>18, <1>a, <1>b DEF CreateFails, Destroy
<1>19. CASE ReadError
  BY <1>19, <1>a, <1>b DEF ReadError, Destroy
<1>20. CASE OpenWaveform
  BY <1>20, <1>a, <1>b DEF OpenWaveform
<1>21. CASE StartRecording
  BY <1>21, <1>a, <1>b DEF StartRecording, Destroy
<1>22. CASE RetryCleanup
  BY <1>22, <1>a, <1>b DEF RetryCleanup, Destroy
<1>23. CASE Exit
  BY <1>23, <1>a, <1>b DEF Exit, Destroy
<1>24. CASE Acknowledge
  BY <1>24, <1>a, <1>b DEF Acknowledge
<1>25. CASE LeaveMenu
  BY <1>25, <1>a, <1>b DEF LeaveMenu
<1>26. CASE ShowTitle
  BY <1>26, <1>a, <1>b, <1>c DEF ShowTitle
<1>27. CASE BackToMenu
  BY <1>27, <1>a, <1>b DEF BackToMenu
<1> QED
  BY <1>1, <1>2, <1>3, <1>4, <1>5, <1>6, <1>7, <1>8, <1>9, <1>10, <1>11, <1>12, <1>13,
     <1>14, <1>15, <1>16, <1>17, <1>18, <1>19, <1>20, <1>21, <1>22, <1>23, <1>24, <1>25, <1>26, <1>27 DEF Next,
     RecorderTask, Saving, CreateRecorder, Poll, User, Menu

LEMMA RestType ==
  ASSUME TypeOK, Next
  PROVE  lastError' \in Errors /\ left' \in BOOLEAN /\ overlooked' \in Scans
<1>a. /\ rec \in RecSet /\ task \in TaskSet /\ files \in FilesSet /\ view \in ViewSet
      /\ lastError \in Errors /\ left \in BOOLEAN /\ overlooked \in Scans /\ app \in Callers
  BY TypeByFields
<1>b. rec.error \in Errors /\ "none" \in Errors /\ "failed" \in Errors
  BY <1>a DEF RecSet, Errors
<1>1. CASE TaskStarts
  BY <1>1, <1>a, <1>b DEF TaskStarts, TaskOnly
<1>2. CASE OpenChunk
  BY <1>2, <1>a, <1>b DEF OpenChunk, TaskOnly
<1>3. CASE Trigger
  BY <1>3, <1>a, <1>b DEF Trigger, TaskOnly
<1>4. CASE StopSeen
  BY <1>4, <1>a, <1>b DEF StopSeen, TaskOnly
<1>5. CASE EndRecording
  BY <1>5, <1>a, <1>b DEF EndRecording, TaskOnly
<1>6. CASE OpenFinal
  BY <1>6, <1>a, <1>b DEF OpenFinal, TaskOnly
<1>7. CASE Merge
  BY <1>7, <1>a, <1>b DEF Merge, TaskOnly
<1>8. CASE CloseFinal
  BY <1>8, <1>a, <1>b DEF CloseFinal, TaskOnly
<1>9. CASE DropChunks
  BY <1>9, <1>a, <1>b DEF DropChunks, TaskOnly, RemoveTemp
<1>10. CASE CleanUp
  BY <1>10, <1>a, <1>b DEF CleanUp, TaskOnly, RemoveTemp
<1>11. CASE RemoveFinal
  BY <1>11, <1>a, <1>b DEF RemoveFinal, TaskOnly
<1>12. CASE Finish
  BY <1>12, <1>a, <1>b DEF Finish, TaskOnly
<1>13. CASE WriteFails
  BY <1>13, <1>a, <1>b DEF WriteFails, TaskOnly
<1>14. CASE DestroyReturns
  BY <1>14, <1>a, <1>b DEF DestroyReturns, Error
<1>15. CASE DestroyTimesOut
  BY <1>15, <1>a, <1>b DEF DestroyTimesOut
<1>16. CASE CreateSucceeds
  BY <1>16, <1>a, <1>b DEF CreateSucceeds, Scans
<1>17. CASE CreateFails
  BY <1>17, <1>a, <1>b DEF CreateFails, RemoveTemp
<1>18. CASE ReadError
  BY <1>18, <1>a, <1>b DEF ReadError, ViewOnly
<1>19. CASE ReadState
  BY <1>19, <1>a, <1>b DEF ReadState, ViewOnly
<1>20. CASE OpenWaveform
  BY <1>20, <1>a, <1>b DEF OpenWaveform, ViewOnly
<1>21. CASE StartRecording
  BY <1>21, <1>a, <1>b DEF StartRecording, ViewOnly
<1>22. CASE RetryCleanup
  BY <1>22, <1>a, <1>b DEF RetryCleanup, ViewOnly
<1>23. CASE Exit
  BY <1>23, <1>a, <1>b DEF Exit, ViewOnly
<1>24. CASE Acknowledge
  BY <1>24, <1>a, <1>b DEF Acknowledge, ViewOnly
<1>25. CASE LeaveMenu
  BY <1>25, <1>a, <1>b DEF LeaveMenu, Scans
<1>26. CASE ShowTitle
  BY <1>26, <1>a, <1>b DEF ShowTitle, Scans
<1>27. CASE BackToMenu
  BY <1>27, <1>a, <1>b DEF BackToMenu, ViewOnly
<1> QED
  BY <1>1, <1>2, <1>3, <1>4, <1>5, <1>6, <1>7, <1>8, <1>9, <1>10, <1>11, <1>12, <1>13,
     <1>14, <1>15, <1>16, <1>17, <1>18, <1>19, <1>20, <1>21, <1>22, <1>23, <1>24, <1>25, <1>26, <1>27 DEF Next,
     RecorderTask, Saving, CreateRecorder, Poll, User, Menu

(* With its task's end, state and trigger phase of the object move         *)
(* together.                                                               *)
LEMMA ShapeStep ==
  ASSUME TypeOK, TaskInv, Next
  PROVE  rec'.on => (rec'.trigger = "finished" <=> rec'.state \in Ended)
<1> USE DEF TypeOK, TaskInv, TriggerOutlivesTask, Exists, Ended, Errors
<1>1. CASE TaskStarts
  BY <1>1 DEF TaskStarts
<1>2. CASE OpenChunk
  BY <1>2 DEF OpenChunk, State
<1>3. CASE Trigger
  BY <1>3 DEF Trigger, State
<1>4. CASE StopSeen
  BY <1>4 DEF StopSeen
<1>5. CASE EndRecording
  BY <1>5 DEF EndRecording, State
<1>6. CASE OpenFinal
  BY <1>6 DEF OpenFinal
<1>7. CASE Merge
  BY <1>7 DEF Merge
<1>8. CASE CloseFinal
  BY <1>8 DEF CloseFinal
<1>9. CASE DropChunks
  BY <1>9 DEF DropChunks
<1>10. CASE CleanUp
  BY <1>10 DEF CleanUp
<1>11. CASE RemoveFinal
  BY <1>11 DEF RemoveFinal
<1>12. CASE Finish
  BY <1>12 DEF Finish, TriggerFinished
<1>13. CASE WriteFails
  BY <1>13 DEF WriteFails
<1>14. CASE DestroyReturns
  BY <1>14 DEF DestroyReturns, NoRec
<1>15. CASE DestroyTimesOut
  BY <1>15 DEF DestroyTimesOut, TimedOut
<1>16. CASE CreateSucceeds
  BY <1>16 DEF CreateSucceeds
<1>17. CASE CreateFails
  BY <1>17 DEF CreateFails, Destroy, Exists
<1>18. CASE ReadError
  BY <1>18 DEF ReadError, Destroy, Exists
<1>19. CASE ReadState
  BY <1>19 DEF ReadState, Destroy, Exists
<1>20. CASE OpenWaveform
  BY <1>20 DEF OpenWaveform
<1>21. CASE StartRecording
  BY <1>21 DEF StartRecording, Destroy, Exists
<1>22. CASE RetryCleanup
  BY <1>22 DEF RetryCleanup, Destroy, Exists
<1>23. CASE Exit
  BY <1>23 DEF Exit, Destroy, Exists
<1>24. CASE Acknowledge
  BY <1>24 DEF Acknowledge
<1>25. CASE LeaveMenu
  BY <1>25 DEF LeaveMenu
<1>26. CASE ShowTitle
  BY <1>26 DEF ShowTitle
<1>27. CASE BackToMenu
  BY <1>27 DEF BackToMenu
<1> QED
  BY <1>1, <1>2, <1>3, <1>4, <1>5, <1>6, <1>7, <1>8, <1>9, <1>10, <1>11, <1>12, <1>13,
     <1>14, <1>15, <1>16, <1>17, <1>18, <1>19, <1>20, <1>21, <1>22, <1>23, <1>24, <1>25, <1>26, <1>27 DEF Next,
     RecorderTask, Saving, CreateRecorder, Poll, User, Menu

LEMMA TypeStep ==
  ASSUME TypeOK, TaskInv, Next
  PROVE  TypeOK'
<1>1. rec' \in RecSet /\ (rec'.on => (rec'.trigger = "finished" <=> rec'.state \in Ended))
  BY RecType, ShapeStep
<1>2. task' \in TaskSet /\ files' \in FilesSet
  BY TaskType, FilesType
<1>3. view' \in ViewSet /\ app' \in Callers
  BY ViewType
<1>4. lastError' \in Errors /\ left' \in BOOLEAN /\ overlooked' \in Scans
  BY RestType
<1> QED
  BY <1>1, <1>2, <1>3, <1>4 DEF TypeOK, RecSet, TaskSet, FilesSet, ViewSet, Callers, Scans,
       States, Steps, Phases

(* The task keeps what it was given.                                       *)
LEMMA TaskStep ==
  ASSUME TypeOK, TaskInv, ViewInv, Next
  PROVE  TaskInv'
<1>a. rec \in RecSet /\ task \in TaskSet /\ files \in FilesSet /\ view \in ViewSet
  BY TypeByFields
<1>1. CASE OpenChunk
  BY <1>1, <1>a, TaskFields, StateFields DEF TaskInv, TriggerOutlivesTask, Ended, Exists, Early,
       OpenChunk, TaskOnly, Steps, States
<1>2. CASE OpenFinal
  BY <1>2, <1>a, FilesFields DEF TaskInv, TriggerOutlivesTask, Ended, Exists, Early,
       OpenFinal, TaskOnly, Fails, Names, Content, TaskSet
<1>3. CASE Merge
  BY <1>3, <1>a, TaskFields DEF TaskInv, TriggerOutlivesTask, Ended, Exists, Early,
       Merge, TaskOnly, Steps
<1>4. CASE CloseFinal
  BY <1>4, <1>a, TaskFields, FilesFields DEF TaskInv, TriggerOutlivesTask, Ended, Exists, Early,
       CloseFinal, CloseFails, TaskOnly, Steps, Names, Content
<1>5. CASE DropChunks
  BY <1>5, <1>a, TaskFields, FilesFields DEF TaskInv, TriggerOutlivesTask, Ended, Exists, Early,
       DropChunks, TaskOnly, Steps
<1> USE DEF TypeOK, TaskInv, ViewInv, TriggerOutlivesTask, Errors, Ended, Exists, Early, Destroying
<1>6. CASE TaskStarts
  BY <1>6 DEF TaskStarts, TaskAt, TaskOnly
<1>7. CASE Trigger
  BY <1>7 DEF Trigger, TaskAt, TaskOnly, State
<1>8. CASE StopSeen
  BY <1>8 DEF StopSeen, TaskAt, TaskOnly
<1>9. CASE EndRecording
  BY ZenonT(30), <1>9 DEF EndRecording, TaskAt, TaskOnly, Fails, State
<1>10. CASE CleanUp
  BY <1>10 DEF CleanUp, TaskOnly, RemoveTemp
<1>11. CASE RemoveFinal
  BY <1>11 DEF RemoveFinal, TaskAt, TaskOnly, Final, MustUnsave
<1>12. CASE Finish
  BY <1>12 DEF Finish, TaskOnly, TriggerFinished, NoTask
<1>13. CASE WriteFails
  BY <1>13 DEF WriteFails, TaskOnly, Fails
<1>14. CASE DestroyReturns
  BY <1>14 DEF DestroyReturns, Destroying, Exists, Released, Error, NoRec, Continue, NewView
<1>15. CASE DestroyTimesOut
  BY <1>15 DEF DestroyTimesOut, Destroying, Exists, TimedOut, Continue, NewView
<1>16. CASE CreateSucceeds
  BY <1>16 DEF CreateSucceeds, Choose, NoTask, NewView
<1>17. CASE CreateFails
  BY <1>17 DEF CreateFails, Destroy, Exists, RemoveTemp
<1>18. CASE ReadError
  BY <1>18 DEF ReadError, Polling, Error, Destroy, Exists, ViewOnly
<1>19. CASE ReadState
  BY <1>19 DEF ReadState, Shown, Polling, Destroy, Exists, RecordingEnded, ViewOnly
<1>20. CASE OpenWaveform
  BY <1>20 DEF OpenWaveform, NewView, ViewOnly
<1>21. CASE StartRecording
  BY <1>21 DEF StartRecording, Activity, Destroy, Exists, ViewOnly
<1>22. CASE RetryCleanup
  BY <1>22 DEF RetryCleanup, Activity, Destroy, Exists, ViewOnly
<1>23. CASE Exit
  BY <1>23 DEF Exit, ExitStates, Destroy, Exists, ViewOnly
<1>24. CASE Acknowledge
  BY <1>24 DEF Acknowledge, NewView, ViewOnly
<1>25. CASE LeaveMenu
  BY <1>25 DEF LeaveMenu, NewView, Remove
<1>26. CASE ShowTitle
  BY <1>26 DEF ShowTitle
<1>27. CASE BackToMenu
  BY <1>27 DEF BackToMenu, ViewOnly
<1> QED
  BY <1>1, <1>2, <1>3, <1>4, <1>5, <1>6, <1>7, <1>8, <1>9, <1>10, <1>11, <1>12, <1>13,
     <1>14, <1>15, <1>16, <1>17, <1>18, <1>19, <1>20, <1>21, <1>22, <1>23, <1>24, <1>25, <1>26, <1>27 DEF Next,
     RecorderTask, Saving, CreateRecorder, Poll, User, Menu

(* Nobody but a view that gives up asks a recorder to stop.                *)
LEMMA ViewStep ==
  ASSUME TypeOK, TaskInv, ViewInv, Next
  PROVE  ViewInv'
<1>a. rec \in RecSet /\ task \in TaskSet /\ files \in FilesSet /\ view \in ViewSet
  BY TypeByFields
<1>1. CASE DestroyReturns
  BY <1>1, <1>a, ContinueFacts DEF ViewInv, Destroying, Working, Ended,
       DestroyReturns, Exists, Released, Error, NoRec, TypeOK
<1>2. CASE DestroyTimesOut
  BY <1>2, <1>a, ContinueFacts DEF ViewInv, Destroying, Working, Ended,
       DestroyTimesOut, Exists, TimedOut
<1> USE DEF TypeOK, TaskInv, ViewInv, TriggerOutlivesTask, Errors, Ended, Exists, Working,
Destroying, Polling
<1>3. CASE TaskStarts
  BY <1>3 DEF TaskStarts, TaskAt, TaskOnly
<1>4. CASE OpenChunk
  BY <1>4 DEF OpenChunk, TaskAt, TaskOnly, Fails, State
<1>5. CASE Trigger
  BY <1>5 DEF Trigger, TaskAt, TaskOnly, State
<1>6. CASE StopSeen
  BY <1>6 DEF StopSeen, TaskAt, TaskOnly
<1>7. CASE EndRecording
  BY <1>7 DEF EndRecording, TaskAt, TaskOnly, Fails, State
<1>8. CASE OpenFinal
  BY <1>8 DEF OpenFinal, TaskOnly, Fails, Final
<1>9. CASE Merge
  BY <1>9 DEF Merge, TaskAt, TaskOnly, Fails
<1>10. CASE CloseFinal
  BY <1>10 DEF CloseFinal, TaskAt, TaskOnly, Fails, CloseFails, Final
<1>11. CASE DropChunks
  BY <1>11 DEF DropChunks, TaskAt, TaskOnly, Fails, RemoveTemp
<1>12. CASE CleanUp
  BY <1>12 DEF CleanUp, TaskOnly, RemoveTemp
<1>13. CASE RemoveFinal
  BY <1>13 DEF RemoveFinal, TaskAt, TaskOnly, Final, MustUnsave
<1>14. CASE Finish
  BY <1>14 DEF Finish, TaskOnly, TriggerFinished, NoTask
<1>15. CASE WriteFails
  BY <1>15 DEF WriteFails, TaskOnly, Fails
<1>16. CASE CreateSucceeds
  BY <1>16 DEF CreateSucceeds, Choose, NoTask, NewView
<1>17. CASE CreateFails
  BY <1>17 DEF CreateFails, Destroy, Exists, RemoveTemp
<1>18. CASE ReadError
  BY <1>18 DEF ReadError, Polling, Error, Destroy, Exists, ViewOnly
<1>19. CASE ReadState
  BY <1>19 DEF ReadState, Shown, Polling, Destroy, Exists, RecordingEnded, ViewOnly
<1>20. CASE OpenWaveform
  BY <1>20 DEF OpenWaveform, NewView, ViewOnly
<1>21. CASE StartRecording
  BY <1>21 DEF StartRecording, Activity, Destroy, Exists, ViewOnly
<1>22. CASE RetryCleanup
  BY <1>22 DEF RetryCleanup, Activity, Destroy, Exists, ViewOnly
<1>23. CASE Exit
  BY <1>23 DEF Exit, ExitStates, Destroy, Exists, ViewOnly
<1>24. CASE Acknowledge
  BY <1>24 DEF Acknowledge, NewView, ViewOnly
<1>25. CASE LeaveMenu
  BY <1>25 DEF LeaveMenu, NewView, Remove
<1>26. CASE ShowTitle
  BY <1>26 DEF ShowTitle
<1>27. CASE BackToMenu
  BY <1>27 DEF BackToMenu, ViewOnly
<1> QED
  BY <1>1, <1>2, <1>3, <1>4, <1>5, <1>6, <1>7, <1>8, <1>9, <1>10, <1>11, <1>12, <1>13,
     <1>14, <1>15, <1>16, <1>17, <1>18, <1>19, <1>20, <1>21, <1>22, <1>23, <1>24, <1>25, <1>26, <1>27 DEF Next,
     RecorderTask, Saving, CreateRecorder, Poll, User, Menu

(* What the task has written.                                              *)
LEMMA FilesStep ==
  ASSUME TypeOK, TaskInv, ViewInv, FilesInv, Next
  PROVE  FilesInv'
<1>a. rec \in RecSet /\ task \in TaskSet /\ files \in FilesSet /\ view \in ViewSet
  BY TypeByFields
<1>1. CASE OpenFinal
  BY ZenonT(30), <1>1, <1>a, FilesFields DEF FilesInv, FinishedIsSaved, MustBeSaved, TaskInv, ViewInv, Working,
       OpenFinal, TaskOnly, Fails, Names, Content, TaskSet, TriggerOutlivesTask, Exists, Early
<1>2. CASE CloseFinal
  BY <1>2, <1>a, TaskFields, FilesFields DEF FilesInv, FinishedIsSaved, MustBeSaved, TaskInv, ViewInv, Working,
       CloseFinal, CloseFails, TaskOnly, Steps, Names, Content, Existing, TriggerOutlivesTask,
       Exists
<1>3. CASE DropChunks
  BY <1>3, <1>a, TaskFields, FilesFields DEF FilesInv, FinishedIsSaved, MustBeSaved, TaskInv, ViewInv, Working,
       DropChunks, TaskOnly, Steps
<1>15. CASE DestroyTimesOut
  <2>1. view'.state = "saving" => view.state = "saving"
    BY <1>15, <1>a, ContinueFacts DEF DestroyTimesOut, Destroying
  <2>2. UNCHANGED <<rec, task, files, left>>
    BY <1>15 DEF DestroyTimesOut, TimedOut
  <2> QED
    BY <2>1, <2>2 DEF FilesInv, FinishedIsSaved, MustBeSaved
<1>25. CASE LeaveMenu
  <2>1. ~rec.on /\ task.pc = "none" /\ UNCHANGED <<rec, task, left>>
    BY <1>25 DEF LeaveMenu, ViewInv, TaskInv, TriggerOutlivesTask, Exists
  <2>2. \A n \in Names : files.dir[n] # "partial"
    BY <2>1 DEF FilesInv
  <2>3. \/ UNCHANGED files
        \/ \E m : Remove(m)
    BY <1>25 DEF LeaveMenu
  <2>4. files'.temp = files.temp /\ \A n \in Names : files'.dir[n] # "partial"
    BY <1>a, <2>2, <2>3 DEF Remove, FilesSet
  <2> QED
    BY <2>1, <2>4 DEF FilesInv, FinishedIsSaved
<1> USE DEF TypeOK, TaskInv, ViewInv, FilesInv, FinishedIsSaved, MustBeSaved, TriggerOutlivesTask, Errors,
Ended, Exists, Existing, Names, Early, Working, Destroying
<1>4. CASE TaskStarts
  BY <1>4 DEF TaskStarts, TaskAt, TaskOnly
<1>5. CASE OpenChunk
  BY ZenonT(30), <1>5 DEF OpenChunk, TaskAt, TaskOnly, Fails, State
<1>6. CASE Trigger
  BY <1>6 DEF Trigger, TaskAt, TaskOnly, State
<1>7. CASE StopSeen
  BY <1>7 DEF StopSeen, TaskAt, TaskOnly
<1>8. CASE EndRecording
  BY ZenonT(30), <1>8 DEF EndRecording, TaskAt, TaskOnly, Fails, State
<1>9. CASE Merge
  BY ZenonT(30), <1>9 DEF Merge, TaskAt, TaskOnly, Fails
<1>10. CASE CleanUp
  BY <1>10 DEF CleanUp, TaskOnly, RemoveTemp
<1>11. CASE RemoveFinal
  BY <1>11 DEF RemoveFinal, TaskAt, TaskOnly, Final, MustUnsave
<1>12. CASE Finish
  BY <1>12 DEF Finish, TaskOnly, TriggerFinished, NoTask
<1>13. CASE WriteFails
  BY <1>13 DEF WriteFails, TaskOnly, Fails
<1>14. CASE DestroyReturns
  BY <1>14 DEF DestroyReturns, Destroying, Exists, Released, Error, NoRec, Continue, NewView
<1>16. CASE CreateSucceeds
  BY <1>16 DEF CreateSucceeds, Choose, NoTask, NewView
<1>17. CASE CreateFails
  BY <1>17 DEF CreateFails, Destroy, Exists, RemoveTemp
<1>18. CASE ReadError
  BY <1>18 DEF ReadError, Polling, Error, Destroy, Exists, ViewOnly
<1>19. CASE ReadState
  BY <1>19 DEF ReadState, Shown, Polling, Destroy, Exists, RecordingEnded, ViewOnly
<1>20. CASE OpenWaveform
  BY <1>20 DEF OpenWaveform, NewView, ViewOnly
<1>21. CASE StartRecording
  BY <1>21 DEF StartRecording, Activity, Destroy, Exists, ViewOnly
<1>22. CASE RetryCleanup
  BY <1>22 DEF RetryCleanup, Activity, Destroy, Exists, ViewOnly
<1>23. CASE Exit
  BY <1>23 DEF Exit, ExitStates, Destroy, Exists, ViewOnly
<1>24. CASE Acknowledge
  BY <1>24 DEF Acknowledge, NewView, ViewOnly
<1>26. CASE ShowTitle
  BY <1>26 DEF ShowTitle
<1>27. CASE BackToMenu
  BY <1>27 DEF BackToMenu, ViewOnly
<1> QED
  BY <1>1, <1>2, <1>3, <1>4, <1>5, <1>6, <1>7, <1>8, <1>9, <1>10, <1>11, <1>12, <1>13,
     <1>14, <1>15, <1>16, <1>17, <1>18, <1>19, <1>20, <1>21, <1>22, <1>23, <1>24, <1>25, <1>26, <1>27 DEF Next,
     RecorderTask, Saving, CreateRecorder, Poll, User, Menu

(* The name of a recording stays free, and the newest.                     *)
LEMMA NameStepOpenFinal ==
  ASSUME TypeOK, TaskInv, ViewInv, NameInv, OpenFinal
  PROVE  NameInv'
<1>a. files \in FilesSet /\ task \in TaskSet
  BY TypeByFields
<1>b. files.name \in Ids /\ rec.on /\ task.pc = "final"
  BY DEF TaskInv, TriggerOutlivesTask, Exists, OpenFinal
<1>c. view' = view /\ overlooked' = overlooked /\ task'.pc \notin Early
  BY <1>a DEF OpenFinal, TaskOnly, Fails, TaskSet, Early
<1>d. view.state # "menu"
  BY <1>b DEF ViewInv
<1>1. files'.name = files.name /\ Existing' \subseteq Existing \cup {files.name}
  <2>1. CASE Final("partial")
    BY <1>a, <1>b, <2>1, FilesFields DEF Existing, Names, Content
  <2>2. CASE UNCHANGED files
    BY <2>2 DEF Existing
  <2> QED
    BY <2>1, <2>2 DEF OpenFinal
<1> QED
  BY <1>b, <1>c, <1>d, <1>1 DEF NameInv, Ids

LEMMA NameStepDestroyReturns ==
  ASSUME TypeOK, TaskInv, ViewInv, FilesInv, NameInv, DestroyReturns
  PROVE  NameInv'
<1>a. view \in ViewSet
  BY TypeByFields
<1>b. UNCHANGED <<task, files, overlooked>> /\ Existing' = Existing /\ Destroying /\ ~Exists
  BY DEF DestroyReturns, Existing
<1>c. view'.state \in Working \cup {"menu"} => view.state \in Working
  BY <1>a, <1>b, ContinueFacts DEF DestroyReturns, Destroying, ViewInv, Working
<1>1. ASSUME view'.state = "menu", lastError' = "none"
      PROVE  files.name \in Ids /\ files.dir[files.name] = "whole"
  <2>1. app = "menu" /\ view.state = "saving"
    BY <1>a, <1>b, <1>1, ContinueFacts DEF DestroyReturns, Destroying, ViewInv
  <2>2. rec.on /\ ~rec.stop
    BY <2>1 DEF ViewInv, Working
  <2>3. rec.error = "none"
    BY <1>1, <2>2 DEF DestroyReturns, Error
  <2>4. rec.state = "finished"
    BY <1>b, <2>2, <2>3 DEF TaskInv, TriggerOutlivesTask
  <2> QED
    BY <2>2, <2>4 DEF FilesInv, FinishedIsSaved, MustBeSaved, TaskInv
<1> QED
  BY <1>b, <1>c, <1>1 DEF NameInv

LEMMA NameStepCreate ==
  ASSUME TypeOK, TaskInv, ViewInv, NameInv, CreateSucceeds
  PROVE  NameInv'
<1>a. files \in FilesSet
  BY TypeByFields
<1>1. SUFFICES ASSUME "name" \notin overlooked' PROVE /\ files'.dir[files'.name] = "none"
                 /\ \A n \in Existing \cap Ids : n <= files'.name
  <2>1. Existing' = Existing /\ view'.state = "waiting"
    BY <1>a DEF CreateSucceeds, Choose, Existing, FilesSet, NewView
  <2> QED
    BY <2>1 DEF NameInv, Working
<1>2. Choose(NextId(Existing))
  <2>1. PICK unseen \in Overlookable :
          /\ Choose(NextId(Existing \ unseen))
          /\ overlooked' = IF unseen = {} THEN {} ELSE {"name"}
    BY DEF CreateSucceeds
  <2>2. Existing \ unseen = Existing
    BY <1>1, <2>1
  <2> QED
    BY <2>1, <2>2
<1>3. files'.dir = files.dir /\ files'.name = NextId(Existing) /\ NextId(Existing) \in Ids
  BY <1>a, <1>2 DEF Choose, FilesSet
<1>4. Existing \in SUBSET Names
  BY DEF Existing
<1>5. \A n \in Existing \cap Ids : n < NextId(Existing)
  BY <1>4, NewestIsLargest DEF NextId, Ids
<1>6. NextId(Existing) \notin Existing
  BY <1>3, <1>5 DEF Ids
<1>7. files.dir[NextId(Existing)] = "none"
  BY <1>3, <1>6 DEF Existing, Names
<1> QED
  BY <1>3, <1>5, <1>7 DEF Ids

LEMMA NameStep ==
  ASSUME TypeOK, TaskInv, ViewInv, FilesInv, NameInv, Next
  PROVE  NameInv'
<1>a. rec \in RecSet /\ task \in TaskSet /\ files \in FilesSet /\ view \in ViewSet
  BY TypeByFields
<1>1. CASE OpenFinal
  BY <1>1, NameStepOpenFinal
<1>2. CASE CloseFinal
  BY <1>2, <1>a, TaskFields, FilesFields DEF NameInv, Existing, Early, Working, Names, TaskInv,
       CloseFinal, CloseFails, TaskOnly, Steps, Content, TriggerOutlivesTask, Exists
<1>3. CASE DropChunks
  BY <1>3, <1>a, TaskFields, FilesFields DEF NameInv, Existing, Early, Working, Names, TaskInv,
       DropChunks, TaskOnly, Steps
<1>4. CASE DestroyReturns
  BY <1>4, NameStepDestroyReturns
<1>5. CASE DestroyTimesOut
  BY <1>5, <1>a, ContinueFacts DEF NameInv, Existing, Early, Working, Names, TaskInv,
       DestroyTimesOut, Exists, TimedOut, ViewInv, Destroying
<1>6. CASE CreateSucceeds
  BY <1>6, NameStepCreate
<1> USE DEF TypeOK, TaskInv, ViewInv, FilesInv, NameInv, FinishedIsSaved, TriggerOutlivesTask,
Errors, Ended, Exists, Existing, Names, Early, Working, Destroying
<1>7. CASE TaskStarts
  BY <1>7 DEF TaskStarts, TaskAt, TaskOnly
<1>8. CASE OpenChunk
  BY <1>8 DEF OpenChunk, TaskAt, TaskOnly, Fails, State
<1>9. CASE Trigger
  BY <1>9 DEF Trigger, TaskAt, TaskOnly, State
<1>10. CASE StopSeen
  BY <1>10 DEF StopSeen, TaskAt, TaskOnly
<1>11. CASE EndRecording
  BY <1>11 DEF EndRecording, TaskAt, TaskOnly, Fails, State
<1>12. CASE Merge
  BY ZenonT(30), <1>12 DEF Merge, TaskAt, TaskOnly, Fails
<1>13. CASE CleanUp
  BY <1>13 DEF CleanUp, TaskOnly, RemoveTemp
<1>14. CASE RemoveFinal
  BY <1>14 DEF RemoveFinal, TaskAt, TaskOnly, Final, MustUnsave
<1>15. CASE Finish
  BY <1>15 DEF Finish, TaskOnly, TriggerFinished, NoTask
<1>16. CASE WriteFails
  BY <1>16 DEF WriteFails, TaskOnly, Fails
<1>17. CASE CreateFails
  BY <1>17 DEF CreateFails, Destroy, Exists, RemoveTemp
<1>18. CASE ReadError
  BY <1>18 DEF ReadError, Polling, Error, Destroy, Exists, ViewOnly
<1>19. CASE ReadState
  BY <1>19 DEF ReadState, Shown, Polling, Destroy, Exists, RecordingEnded, ViewOnly
<1>20. CASE OpenWaveform
  BY <1>20 DEF OpenWaveform, NewView, ViewOnly
<1>21. CASE StartRecording
  BY <1>21 DEF StartRecording, Activity, Destroy, Exists, ViewOnly
<1>22. CASE RetryCleanup
  BY <1>22 DEF RetryCleanup, Activity, Destroy, Exists, ViewOnly
<1>23. CASE Exit
  BY <1>23 DEF Exit, ExitStates, Destroy, Exists, ViewOnly
<1>24. CASE Acknowledge
  BY <1>24 DEF Acknowledge, NewView, ViewOnly
<1>25. CASE LeaveMenu
  BY <1>25 DEF LeaveMenu, NewView, Remove
<1>26. CASE ShowTitle
  BY <1>26 DEF ShowTitle
<1>27. CASE BackToMenu
  BY <1>27 DEF BackToMenu, ViewOnly
<1> QED
  BY <1>1, <1>2, <1>3, <1>4, <1>5, <1>6, <1>7, <1>8, <1>9, <1>10, <1>11, <1>12, <1>13,
     <1>14, <1>15, <1>16, <1>17, <1>18, <1>19, <1>20, <1>21, <1>22, <1>23, <1>24, <1>25, <1>26, <1>27 DEF Next,
     RecorderTask, Saving, CreateRecorder, Poll, User, Menu

(* The page after a recording opens without its title.                     *)
LEMMA MenuIsEntered ==
  ASSUME TypeOK, Next, view.state # "menu", view'.state = "menu"
  PROVE  app' = "title"
<1>a. view \in ViewSet
  BY TypeByFields
<1>1. CASE DestroyReturns \/ DestroyTimesOut
  <2>1. PICK done \in BOOLEAN : Continue(done)
    BY <1>1 DEF DestroyReturns, DestroyTimesOut, Released
  <2>2. Destroying
    BY <1>1 DEF DestroyReturns, DestroyTimesOut
  <2> QED
    BY <1>a, <2>1, <2>2, ContinueFacts DEF Destroying
<1>2. CASE RecorderTask \/ WriteFails
  <2>1. view' = view
    BY <1>2 DEF RecorderTask, Saving, WriteFails, TaskStarts, OpenChunk, Trigger, StopSeen,
         EndRecording, OpenFinal, Merge, CloseFinal, DropChunks, CleanUp, RemoveFinal, Finish,
         TaskOnly
  <2> QED
    BY <2>1
<1>3. CASE CreateRecorder
  BY <1>3 DEF CreateRecorder, CreateSucceeds, CreateFails, NewView
<1>4. CASE Poll
  BY <1>4, <1>a DEF Poll, ReadError, ReadState, Polling, Shown, ViewSet
<1>5. CASE User
  <2>1. CASE OpenWaveform \/ Acknowledge \/ LeaveMenu
    BY <1>5, <2>1 DEF OpenWaveform, Acknowledge, LeaveMenu, NewView
  <2>2. CASE StartRecording \/ RetryCleanup \/ BackToMenu
    BY <2>2 DEF StartRecording, RetryCleanup, BackToMenu
  <2>3. CASE ShowTitle \/ Exit
    <3>1. view'.state = view.state
      BY <1>a, <2>3 DEF ShowTitle, Exit, ViewSet
    <3> QED
      BY <3>1
  <2> QED
    BY <1>5, <2>1, <2>2, <2>3 DEF User, Menu
<1> QED
  BY <1>1, <1>2, <1>3, <1>4, <1>5 DEF Next

(* Nothing but the page itself changes the directory while it is open.     *)
LEMMA TitleStep ==
  ASSUME TypeOK, TaskInv, ViewInv, TitleInv, Next
  PROVE  TitleInv'
<1>a. rec \in RecSet /\ task \in TaskSet /\ files \in FilesSet /\ view \in ViewSet
  BY TypeByFields
<1> SUFFICES ASSUME view'.state = "menu", app' = "free", "menu" \notin overlooked'
             PROVE  view'.title = Latest'
  BY DEF TitleInv
<1>1. CASE ShowTitle
  <2>1. PICK unseen \in Overlookable :
          /\ view' = [view EXCEPT !.title = Newest(Existing \ unseen)]
          /\ overlooked' = IF unseen = {} THEN overlooked ELSE overlooked \cup {"menu"}
    BY <1>1 DEF ShowTitle
  <2>2. unseen = {}
    BY <2>1
  <2>3. view'.title = Newest(Existing)
    BY <1>a, <2>1, <2>2 DEF ViewSet
  <2>4. Existing' = Existing
    BY <1>1 DEF ShowTitle, Existing
  <2> QED
    BY <2>3, <2>4 DEF Latest
<1>2. CASE view.state = "menu" /\ ~ShowTitle
  <2>1. task.pc = "none" /\ app \in {"free", "title"}
    BY <1>2 DEF TaskInv, TriggerOutlivesTask, ViewInv, Exists
  <2>2. BackToMenu \/ LeaveMenu
    BY <1>2, <2>1 DEF Next, RecorderTask, Saving, CreateRecorder, Poll, User, Menu, WriteFails,
         TaskStarts, OpenChunk, Trigger, StopSeen, EndRecording, OpenFinal, Merge, CloseFinal,
         DropChunks, CleanUp, RemoveFinal, Finish, DestroyReturns, DestroyTimesOut, Destroying,
         CreateSucceeds, CreateFails, ReadError, ReadState, Polling, OpenWaveform,
         StartRecording, RetryCleanup, Activity, Exit, ExitStates, Acknowledge
  <2> QED
    BY <2>2 DEF BackToMenu, LeaveMenu, NewView
<1>3. CASE view.state # "menu" /\ ~ShowTitle
  BY <1>3, MenuIsEntered
<1> QED
  BY <1>1, <1>2, <1>3

(* All of it, for every step of the recorder and its view.                 *)
LEMMA RecorderStep ==
  ASSUME RecorderInv, Next
  PROVE  RecorderInv'
BY TypeStep, TaskStep, ViewStep, FilesStep, NameStep, TitleStep DEF RecorderInv

-----------------------------------------------------------------------------
(* The pages, the downloads and a power cut. *)

LEMMA RecorderUnchanged ==
  ASSUME RecorderInv, UNCHANGED vars
  PROVE  RecorderInv'
BY DEF RecorderInv, vars, TypeOK, TaskInv, TriggerOutlivesTask, ViewInv, FilesInv, FinishedIsSaved, MustBeSaved,
       NameInv, TitleInv, MustBeSaved, Latest, Exists, Destroying, Existing

(* A delete on the record page: whoever may still work was asked to stop.  *)
LEMMA RecorderRemove ==
  ASSUME RecorderInv, view.state = "gone", NEW n \in Names, Remove(n),
         UNCHANGED <<rec, lastError, task, left, overlooked, view, app>>
  PROVE  RecorderInv'
<1>a. files \in FilesSet
  BY TypeByFields DEF RecorderInv
<1>1. /\ files' \in FilesSet /\ files'.temp = files.temp /\ files'.name = files.name
      /\ files'.dir[n] = "none"
      /\ \A m \in Names \ {n} : files'.dir[m] = files.dir[m]
  BY <1>a, FilesUpdates, FilesFields DEF Remove, Content
<1>2. rec.on => rec.stop
  BY DEF RecorderInv, ViewInv, Working
<1>3. TypeOK'
  BY <1>1 DEF RecorderInv, TypeOK, FilesSet
<1>4. TaskInv' /\ ViewInv'
  BY <1>1 DEF RecorderInv, TaskInv, TriggerOutlivesTask, ViewInv, Exists, Destroying
<1>5. FilesInv'
  BY <1>1, <1>2 DEF RecorderInv, FilesInv, FinishedIsSaved, MustBeSaved, TaskInv, TriggerOutlivesTask, Exists
<1>6. NameInv'
  <2>1. \A m \in Early : task.pc = m => files.name \in Names
    BY DEF RecorderInv, TaskInv, TriggerOutlivesTask, Exists, Names, Early
  <2> QED
    BY <1>1, <2>1 DEF RecorderInv, NameInv, Early, Working
<1>7. TitleInv'
  BY DEF TitleInv
<1> QED
  BY <1>3, <1>4, <1>5, <1>6, <1>7 DEF RecorderInv

(* A power cut, in any state.                                              *)
LEMMA PowerCutStep ==
  ASSUME RecorderInv, PowerCut
  PROVE  RecorderInv'
<1>a. files \in FilesSet /\ overlooked \in Scans
  BY TypeByFields DEF RecorderInv
<1>1. /\ files' \in FilesSet /\ files'.temp = left'
      /\ \A n \in Names : files'.dir[n] # "partial"
  BY <1>a DEF PowerCut, FilesSet, Content
<1>2. left' \in BOOLEAN
  BY <1>a DEF PowerCut, FilesSet
<1>3. TypeOK'
  BY <1>a, <1>1, <1>2 DEF PowerCut, TypeOK, FilesSet, NoRec, NoTask, NewView, Errors, Ended
<1>4. TaskInv' /\ ViewInv'
  BY DEF PowerCut, TaskInv, TriggerOutlivesTask, ViewInv, Exists, Destroying, NoRec, NoTask,
       NewView,
         Working, Early
<1>5. FilesInv' /\ NameInv' /\ TitleInv'
  BY <1>1 DEF PowerCut, FilesInv, FinishedIsSaved, MustBeSaved, NameInv, TitleInv, NoRec, NoTask,
       NewView, Working, Early
<1> QED
  BY <1>3, <1>4, <1>5 DEF RecorderInv

LEMMA RecorderInit ==
  ASSUME Init
  PROVE  RecorderInv
<1>1. TypeOK
  BY DEF Init, TypeOK, NoRec, NoTask, NewView, Errors, Ended, Content
<1>2. TaskInv /\ ViewInv
  BY DEF Init, TaskInv, TriggerOutlivesTask, ViewInv, Exists, Destroying, NoRec, NoTask, NewView,
         Working, Early
<1>3. FilesInv /\ NameInv /\ TitleInv
  BY DEF Init, FilesInv, FinishedIsSaved, MustBeSaved, NameInv, TitleInv, NoRec, NoTask, NewView,
       Working, Early
<1> QED
  BY <1>1, <1>2, <1>3 DEF RecorderInv

(* What the recorder and its view may do while no view is open. *)
LEMMA GoneStays ==
  ASSUME TypeOK, ViewInv, Next, view.state = "gone", app = "free", view'.state = "gone"
  PROVE  app' = "free" /\ rec'.stop = rec.stop /\ files'.name = files.name
<1>a. rec \in RecSet /\ task \in TaskSet /\ files \in FilesSet /\ view \in ViewSet
  BY TypeByFields
<1> USE DEF RecSet, FilesSet
<1>1. CASE TaskStarts
  BY <1>1, <1>a DEF TaskStarts, TaskAt, TaskOnly
<1>2. CASE OpenChunk
  BY <1>2, <1>a DEF OpenChunk, TaskAt, TaskOnly, Fails, State
<1>3. CASE Trigger
  BY <1>3, <1>a DEF Trigger, TaskAt, TaskOnly, State
<1>4. CASE StopSeen
  BY <1>4, <1>a DEF StopSeen, TaskAt, TaskOnly
<1>5. CASE EndRecording
  BY <1>5, <1>a DEF EndRecording, TaskAt, TaskOnly, Fails, State
<1>6. CASE OpenFinal
  BY <1>6, <1>a DEF OpenFinal, TaskOnly, Fails, Final
<1>7. CASE Merge
  BY <1>7, <1>a DEF Merge, TaskAt, TaskOnly, Fails
<1>8. CASE CloseFinal
  BY <1>8, <1>a DEF CloseFinal, TaskAt, TaskOnly, Fails, CloseFails, Final
<1>9. CASE DropChunks
  BY <1>9, <1>a DEF DropChunks, TaskAt, TaskOnly, Fails, RemoveTemp
<1>10. CASE CleanUp
  BY <1>10, <1>a DEF CleanUp, TaskOnly, RemoveTemp
<1>11. CASE RemoveFinal
  BY <1>11, <1>a DEF RemoveFinal, TaskAt, TaskOnly, Final, MustUnsave
<1>12. CASE Finish
  BY <1>12, <1>a DEF Finish, TaskOnly, TriggerFinished, NoTask
<1>13. CASE WriteFails
  BY <1>13, <1>a DEF WriteFails, TaskOnly, Fails
<1>14. CASE DestroyReturns
  BY <1>14, <1>a DEF DestroyReturns, Destroying, Exists, Released, Error, NoRec, Continue, NewView
<1>15. CASE DestroyTimesOut
  BY <1>15, <1>a DEF DestroyTimesOut, Destroying, Exists, TimedOut, Continue, NewView
<1>16. CASE CreateSucceeds
  BY <1>16, <1>a DEF CreateSucceeds, Choose, NoTask, NewView
<1>17. CASE CreateFails
  BY <1>17, <1>a DEF CreateFails, Destroy, Exists, RemoveTemp
<1>18. CASE ReadError
  BY <1>18, <1>a DEF ReadError, Polling, Error, Destroy, Exists, ViewOnly
<1>19. CASE ReadState
  BY <1>19, <1>a DEF ReadState, Shown, Polling, Destroy, Exists, RecordingEnded, ViewOnly
<1>20. CASE OpenWaveform
  BY <1>20, <1>a DEF OpenWaveform, NewView, ViewOnly
<1>21. CASE StartRecording
  BY <1>21, <1>a DEF StartRecording, Activity, Destroy, Exists, ViewOnly
<1>22. CASE RetryCleanup
  BY <1>22, <1>a DEF RetryCleanup, Activity, Destroy, Exists, ViewOnly
<1>23. CASE Exit
  BY <1>23, <1>a DEF Exit, ExitStates, Destroy, Exists, ViewOnly
<1>24. CASE Acknowledge
  BY <1>24, <1>a DEF Acknowledge, NewView, ViewOnly
<1>25. CASE LeaveMenu
  BY <1>25, <1>a DEF LeaveMenu, NewView, Remove
<1>26. CASE ShowTitle
  BY <1>26, <1>a DEF ShowTitle
<1>27. CASE BackToMenu
  BY <1>27, <1>a DEF BackToMenu, ViewOnly
<1> QED
  BY <1>1, <1>2, <1>3, <1>4, <1>5, <1>6, <1>7, <1>8, <1>9, <1>10, <1>11, <1>12, <1>13,
     <1>14, <1>15, <1>16, <1>17, <1>18, <1>19, <1>20, <1>21, <1>22, <1>23, <1>24, <1>25, <1>26, <1>27 DEF Next,
     RecorderTask, Saving, CreateRecorder, Poll, User, Menu

(* Who changes a file: the task its own, and the page after a recording. *)
LEMMA WhoChanges ==
  ASSUME TypeOK, TaskInv, TitleInv, Next, NEW n \in Names, files'.dir[n] # files.dir[n]
  PROVE  \/ /\ view.state = "menu" /\ files'.dir[n] = "none"
            /\ view.title = n \/ "menu" \in overlooked'
         \/ OpenFinal /\ n = files.name
         \/ CloseFinal /\ n = files.name /\ files'.dir[n] = "whole"
         \/ RemoveFinal /\ n = files.name /\ task.created
<1>a. files \in FilesSet
  BY TypeByFields
<1>b. task.pc # "none" => files.name \in Names
  BY DEF TaskInv, TriggerOutlivesTask, Exists, Names
<1>1. CASE TaskStarts
  BY <1>1 DEF TaskStarts
<1>2. CASE OpenChunk
  BY <1>2 DEF OpenChunk
<1>3. CASE Trigger
  BY <1>3 DEF Trigger
<1>4. CASE StopSeen
  BY <1>4 DEF StopSeen
<1>5. CASE EndRecording
  BY <1>5 DEF EndRecording
<1>6. CASE OpenFinal
  BY <1>6, <1>a, <1>b, FilesFields DEF OpenFinal, Fails, Content
<1>7. CASE Merge
  BY <1>7 DEF Merge
<1>8. CASE CloseFinal
  BY <1>8, <1>a, <1>b, FilesFields DEF CloseFinal, CloseFails, Content
<1>9. CASE DropChunks
  BY <1>9, <1>a, FilesFields DEF DropChunks
<1>10. CASE CleanUp
  BY <1>10, <1>a, FilesFields DEF CleanUp
<1>11. CASE RemoveFinal
  BY <1>11, <1>a, <1>b, FilesFields DEF RemoveFinal, MustUnsave, Content
<1>12. CASE Finish
  BY <1>12 DEF Finish
<1>13. CASE WriteFails
  BY <1>13 DEF WriteFails
<1>14. CASE DestroyReturns
  BY <1>14 DEF DestroyReturns
<1>15. CASE DestroyTimesOut
  BY <1>15 DEF DestroyTimesOut
<1>16. CASE CreateSucceeds
  BY <1>16, <1>a DEF CreateSucceeds, Choose, FilesSet
<1>17. CASE CreateFails
  BY <1>17, <1>a, FilesFields DEF CreateFails
<1>18. CASE ReadError
  BY <1>18 DEF ReadError, ViewOnly
<1>19. CASE ReadState
  BY <1>19 DEF ReadState, ViewOnly
<1>20. CASE OpenWaveform
  BY <1>20 DEF OpenWaveform, ViewOnly
<1>21. CASE StartRecording
  BY <1>21 DEF StartRecording, ViewOnly
<1>22. CASE RetryCleanup
  BY <1>22 DEF RetryCleanup, ViewOnly
<1>23. CASE Exit
  BY <1>23 DEF Exit, ViewOnly
<1>24. CASE Acknowledge
  BY <1>24 DEF Acknowledge, ViewOnly
<1>25. CASE LeaveMenu
  <2>1. CASE UNCHANGED files
    BY <2>1
  <2>2. ASSUME NEW unseen \in Overlookable, Newest(Existing \ unseen) # NoName,
               Remove(Newest(Existing \ unseen)),
               overlooked' = IF unseen = {} THEN overlooked ELSE overlooked \cup {"menu"}
        PROVE  /\ files'.dir[n] = "none"
               /\ view.title = n \/ "menu" \in overlooked'
    <3>1. Newest(Existing \ unseen) \in Names
      BY <2>2, NewestType DEF Existing, Names
    <3>2. files'.dir[n] = "none" /\ n = Newest(Existing \ unseen)
      BY <1>a, <2>2, <3>1, FilesFields
    <3>3. CASE unseen = {}
      BY <1>25, <2>2, <3>2, <3>3 DEF LeaveMenu, TitleInv, Latest
    <3>4. CASE unseen # {}
      BY <2>2, <3>2, <3>4
    <3> QED
      BY <3>2, <3>3, <3>4
  <2> QED
    BY <1>25, <2>1, <2>2 DEF LeaveMenu
<1>26. CASE ShowTitle
  BY <1>26 DEF ShowTitle
<1>27. CASE BackToMenu
  BY <1>27 DEF BackToMenu, ViewOnly
<1> QED
  BY <1>1, <1>2, <1>3, <1>4, <1>5, <1>6, <1>7, <1>8, <1>9, <1>10, <1>11, <1>12, <1>13,
     <1>14, <1>15, <1>16, <1>17, <1>18, <1>19, <1>20, <1>21, <1>22, <1>23, <1>24, <1>25, <1>26, <1>27 DEF Next,
     RecorderTask, Saving, CreateRecorder, Poll, User, Menu

PageSet == [at : {"out", "list", "record", "serving"}, list : SUBSET Names,
            pick : Names \cup {NoName}]
GetSet  == [pc : {"idle", "stream", "done"}, of : Content \cup {"pulled"}, sent : 0 .. 2]

PageInv ==
  /\ page \in PageSet /\ selected \in Ids \cup {NoName} /\ get \in GetSet
  /\ page.at = "serving" => selected = page.pick
  /\ get.pc = "stream" => selected # NoName
  /\ page.at # "out" => app = "free" /\ view.state = "gone"
  /\ DownloadInv

LEMMA RecordsTypeByParts == TypeOK /\ PageInv => RecordsTypeOK
BY DEF RecordsTypeOK, PageInv, PageSet, GetSet

LEMMA GetUpdates ==
  ASSUME NEW g \in GetSet
  PROVE  /\ [g EXCEPT !.of = "pulled"].pc = g.pc /\ [g EXCEPT !.of = "pulled"].sent = g.sent
         /\ \A pc \in {"idle", "stream", "done"} :
              /\ [g EXCEPT !.pc = pc] = [pc |-> pc, of |-> g.of, sent |-> g.sent]
              /\ [g EXCEPT !.pc = pc] \in GetSet
         /\ [g EXCEPT !.of = "pulled"] \in GetSet
BY DEF GetSet

LEMMA ListingType ==
  \A seen \in SUBSET Names : Listing(seen) \in PageSet /\ Listing(seen).at \in {"out", "list"}
BY DEF Listing, Out, PageSet

(* The pages while the recorder goes on: a record is pulled away only by a *)
(* task that was asked to stop.                                            *)
LEMMA RecordingPages ==
  ASSUME RecorderInv, PageInv, Recording
  PROVE  PageInv'
<1>1. Next /\ UNCHANGED <<page, selected>>
  BY DEF Recording
<1>2. page.at # "out" => /\ view.state = "gone" /\ app = "free"
                         /\ view'.state = "gone" /\ app' = "free"
                         /\ rec'.stop = rec.stop /\ files'.name = files.name
  BY <1>1, GoneStays DEF PageInv, Recording, RecorderInv
<1>3. \/ get' = get
      \/ /\ get' = [get EXCEPT !.of = "pulled"] /\ get.pc = "stream"
         /\ Changed(selected)
  BY DEF Recording, Pulls
<1>4. ASSUME get' = [get EXCEPT !.of = "pulled"], get.pc = "stream", Changed(selected),
             page.at = "serving"
      PROVE  rec.stop /\ selected = files.name
  <2>1. selected \in Names /\ view.state = "gone"
    BY <1>2, <1>4 DEF PageInv, Names
  <2>2. files'.dir[selected] # files.dir[selected] /\ files'.dir[selected] # "whole"
    BY <1>4 DEF Changed
  <2>3. (OpenFinal \/ RemoveFinal) /\ selected = files.name
    BY <1>1, <2>1, <2>2, WhoChanges DEF RecorderInv
  <2>4. rec.on
    BY <2>3 DEF RecorderInv, TaskInv, TriggerOutlivesTask, Exists, OpenFinal, RemoveFinal
  <2> QED
    BY <2>1, <2>3, <2>4 DEF RecorderInv, ViewInv, Working
<1>5. get' \in GetSet /\ get'.pc = get.pc /\ get'.sent = get.sent
  BY <1>3, GetUpdates DEF PageInv
<1>6. get'.pc = "done" => get' = get
  BY <1>3, <1>5
<1>7. page'.at = "serving" /\ get'.of = "pulled" => rec'.stop /\ selected' = files'.name
  <2>1. CASE get' = get
    BY <1>1, <1>2, <2>1 DEF PageInv, DownloadInv, DownloadIsWhole
  <2> QED
    BY <1>1, <1>2, <1>3, <1>4, <2>1
<1>8. selected' = NoName => get'.of = "none"
  BY <1>1, <1>3 DEF PageInv, DownloadInv
<1>9. get'.pc = "done" /\ ~Loose' => get'.sent = Chunks(get'.of)
  BY <1>6 DEF PageInv, DownloadInv, DownloadIsWhole, Loose
<1> QED
  BY <1>1, <1>2, <1>5, <1>7, <1>8, <1>9 DEF PageInv, DownloadInv, DownloadIsWhole

LEMMA FilesPages ==
  ASSUME RecorderInv, PageInv, Files
  PROVE  PageInv'
<1>0. page \in PageSet /\ get \in GetSet
  BY DEF PageInv
<1>a. Out \in PageSet /\ NoGet \in GetSet /\ Out.at = "out" /\ NoGet.pc = "idle" /\ NoGet.of = "none"
  BY DEF Out, NoGet, PageSet, GetSet, Content
<1>1. CASE OpenFiles
  <2>1. page' \in PageSet /\ page'.at \in {"out", "list"} /\ UNCHANGED <<vars, selected, get>>
    BY <1>1, ListingType DEF OpenFiles, Existing
  <2>2. app = "free" /\ view.state = "gone"
    BY <1>1 DEF OpenFiles
  <2> QED
    BY <2>1, <2>2 DEF PageInv, DownloadInv, DownloadIsWhole, Loose, vars
<1>2. CASE OpenRecord
  BY <1>2, <1>0 DEF OpenRecord, PageInv, PageSet, DownloadInv, DownloadIsWhole, Loose, vars
<1>3. CASE Back
  <2>1. page' \in PageSet /\ page'.at \in {"out", "list"} /\ page.at \in {"list", "record"}
    BY <1>3, <1>0, <1>a DEF Back, PageSet
  <2> QED
    BY <1>3, <2>1 DEF Back, PageInv, DownloadInv, DownloadIsWhole, Loose, vars
<1>4. CASE DeleteRecord
  <2>1. page' \in PageSet /\ page'.at \in {"out", "list"} /\ page.at = "record" /\ selected' = selected
    BY <1>4, ListingType DEF DeleteRecord, Existing
  <2>2. \/ get' = get
        \/ get' = [get EXCEPT !.of = "pulled"] /\ get.pc = "stream"
    BY <1>4 DEF DeleteRecord, Pulls
  <2>3. get' \in GetSet /\ get'.pc = get.pc /\ (get'.pc = "done" => get' = get)
    BY <1>0, <2>2, GetUpdates
  <2>4. UNCHANGED <<app, view>>
    BY <1>4 DEF DeleteRecord
  <2> QED
    BY <2>1, <2>2, <2>3, <2>4 DEF PageInv, DownloadInv, DownloadIsWhole, Loose
<1>5. CASE StartDownload
  BY <1>5, <1>0 DEF StartDownload, PageInv, PageSet, DownloadInv, DownloadIsWhole, Loose, vars,
       Names
<1>6. CASE StopDownload
  <2>1. page' \in PageSet /\ page'.at = "record" /\ page.at = "serving"
    BY <1>6, <1>0 DEF StopDownload, PageSet
  <2>2. UNCHANGED <<app, view, rec, files>>
    BY <1>6 DEF StopDownload, vars
  <2> QED
    BY <1>6, <1>a, <2>1, <2>2 DEF StopDownload, PageInv, DownloadInv, DownloadIsWhole, Loose
<1> QED
  BY <1>1, <1>2, <1>3, <1>4, <1>5, <1>6 DEF Files

LEMMA HttpdPages ==
  ASSUME RecorderInv, PageInv, Httpd
  PROVE  PageInv'
<1>0. /\ get \in GetSet /\ UNCHANGED <<page, selected, vars>>
      /\ selected \in Ids \cup {NoName}
  BY DEF PageInv, Httpd, Request, SendChunk, FinishDownload, CutDownload
<1>1. CASE Request
  <2>1. selected \in Ids /\ files.dir[selected] \in Content
    BY <1>1, TypeByFields DEF RecorderInv, Request, Existing, FilesSet, PageInv, Names, NoName,
         Ids, Legacy
  <2>2. get' \in GetSet /\ get'.pc = "stream" /\ get'.of \in Content
    BY <1>1, <2>1 DEF Request, GetSet
  <2>3. selected # NoName /\ "pulled" \notin Content
    BY <2>1 DEF Ids, NoName, Content
  <2> QED
    BY <1>0, <2>2, <2>3 DEF PageInv, DownloadInv, DownloadIsWhole, vars
<1>2. CASE SendChunk
  <2>1. get' = [pc |-> get.pc, of |-> get.of, sent |-> get.sent + 1] /\ get.sent < 2 /\ get.pc = "stream"
    BY <1>0, <1>2 DEF SendChunk, GetSet
  <2>2. get' \in GetSet
    BY <1>0, <2>1 DEF GetSet
  <2> QED
    BY <1>0, <2>1, <2>2 DEF PageInv, DownloadInv, DownloadIsWhole, vars
<1>3. CASE FinishDownload
  <2>1. get' = [pc |-> "done", of |-> get.of, sent |-> get.sent] /\ get' \in GetSet
    BY <1>0, <1>3, GetUpdates DEF FinishDownload
  <2>2. Loose' \/ get'.sent = Chunks(get'.of)
    BY <1>3, <2>1 DEF FinishDownload, EndOfFile, Loose
  <2> QED
    BY <1>0, <2>1, <2>2 DEF PageInv, DownloadInv, DownloadIsWhole, vars
<1>4. CASE CutDownload
  <2>1. get' = NoGet /\ get' \in GetSet /\ get'.pc = "idle" /\ get'.of = "none"
    BY <1>4 DEF CutDownload, NoGet, GetSet, Content
  <2> QED
    BY <1>0, <2>1 DEF PageInv, DownloadInv, DownloadIsWhole, vars
<1> QED
  BY <1>1, <1>2, <1>3, <1>4 DEF Httpd

LEMMA NoPages ==
  ASSUME page = Out, selected = NoName, get = NoGet
  PROVE  PageInv
BY DEF PageInv, Out, NoGet, PageSet, GetSet, Content, DownloadInv, DownloadIsWhole

RecordsInv == RecorderInv /\ PageInv

(* The invariant of the whole.                                             *)
LEMMA RecordsInvInit == RecordsInit => RecordsInv
BY RecorderInit, NoPages DEF RecordsInit, RecordsInv

LEMMA RecordsInvStep == RecordsInv /\ [RecordsNext]_all_vars => RecordsInv'
<1> SUFFICES ASSUME RecordsInv, [RecordsNext]_all_vars PROVE RecordsInv'
  OBVIOUS
<1>0. RecorderInv /\ PageInv
  BY DEF RecordsInv
<1>1. CASE Recording
  BY <1>0, <1>1, RecorderStep, RecordingPages DEF Recording, RecordsInv
<1>2. CASE Files
  <2>1. CASE DeleteRecord
    <3>1. view.state = "gone" /\ page.pick \in Names
      BY <1>0, <2>1 DEF DeleteRecord, PageInv, Existing
    <3>2. RecorderInv'
      BY <1>0, <2>1, <3>1, RecorderRemove DEF DeleteRecord
    <3> QED
      BY <1>0, <1>2, <3>2, FilesPages DEF RecordsInv
  <2>2. CASE UNCHANGED vars
    BY <1>0, <1>2, <2>2, RecorderUnchanged, FilesPages DEF RecordsInv
  <2> QED
    BY <1>2, <2>1, <2>2 DEF Files, OpenFiles, OpenRecord, Back, StartDownload, StopDownload
<1>3. CASE Httpd
  <2>1. UNCHANGED vars
    BY <1>3 DEF Httpd, Request, SendChunk, FinishDownload, CutDownload
  <2> QED
    BY <1>0, <1>3, <2>1, RecorderUnchanged, HttpdPages DEF RecordsInv
<1>4. CASE PowerCut
  <2>1. RecorderInv'
    BY <1>0, <1>4, PowerCutStep
  <2>2. PageInv'
    BY <1>4 DEF PowerCut, PageInv, Out, NoGet, PageSet, GetSet, Content, DownloadInv,
         DownloadIsWhole
  <2> QED
    BY <2>1, <2>2 DEF RecordsInv
<1>5. CASE UNCHANGED all_vars
  <2>1. UNCHANGED vars /\ UNCHANGED <<page, selected, get>>
    BY <1>5 DEF all_vars, files_vars
  <2>2. RecorderInv'
    BY <1>0, <2>1, RecorderUnchanged
  <2>3. PageInv'
    BY <1>0, <2>1 DEF PageInv, DownloadInv, DownloadIsWhole, Loose, vars
  <2> QED
    BY <2>2, <2>3 DEF RecordsInv
<1> QED
  BY <1>1, <1>2, <1>3, <1>4, <1>5 DEF RecordsNext

(* The invariant holds always; every result below is read off it. *)
THEOREM RecordsInvariant == RecordsSpec => []RecordsInv
BY RecordsInvInit, RecordsInvStep, PTL DEF RecordsSpec
-----------------------------------------------------------------------------
(* Results *)

(* Every variable keeps its type, and the shared object its shape: with    *)
(* its task's end, state and trigger phase move together (recorderTask,    *)
(* owned_task_resource.h).                                                 *)
THEOREM RecordsTypeCorrect == RecordsSpec => []RecordsTypeOK
<1>1. RecordsInv => RecordsTypeOK
  BY RecordsTypeByParts DEF RecordsInv, RecorderInv
<1> QED
  BY <1>1, RecordsInvariant, PTL

(* The object and the trigger outlive the task, and only a quit that       *)
(* destroys the view stops a recorder that a view polls                    *)
(* (destroyVaRecorder, releaseFinished, ResolveWaveformInput).             *)
THEOREM TaskIsSafe == RecordsSpec => []TaskIsLeftAlone
<1>1. RecordsInv => TaskIsLeftAlone
  BY DEF RecordsInv, RecorderInv, TaskIsLeftAlone, OnlyQuitStops, TaskInv, ViewInv, Working
<1> QED
  BY <1>1, RecordsInvariant, PTL

(* A recording that ended leaves no chunk and no half-written CSV behind,  *)
(* and one that finished without error is whole, also when it was stopped  *)
(* as its view showed it as being saved (recorderTask).                    *)
THEOREM RecordingIsSafe == RecordsSpec => []RecordingIsKept
<1>1. RecordsInv => RecordingIsKept
  BY DEF RecordsInv, RecorderInv, RecordingIsKept, FilesAreWhole, FilesInv
<1> QED
  BY <1>1, RecordsInvariant, PTL

(* The newest record after a recording is that recording, and the page     *)
(* after it shows its name, but for what a scan with a failed stat         *)
(* overlooks (_handle_recording_finished, getLatestVaRecordName).          *)
THEOREM MenuIsRight == RecordsSpec => []MenuIsAboutIt
<1>1. RecordsInv => MenuIsAboutIt
  <2> SUFFICES ASSUME RecordsInv, view.state = "menu", lastError = "none",
                      "name" \notin overlooked
               PROVE  Latest = files.name /\ files.dir[files.name] = "whole"
    BY DEF MenuIsAboutIt, RecordsInv, RecorderInv, TitleInv
  <2>1. /\ files.name \in Ids /\ files.dir[files.name] = "whole"
        /\ \A n \in Existing \cap Ids : n <= files.name
    BY DEF RecordsInv, RecorderInv, NameInv
  <2>2. files.name \in Existing \cap Ids /\ Existing \in SUBSET Names
    BY <2>1 DEF Existing, Names
  <2>3. Latest \in Existing \cap Ids /\ files.name <= Latest
    BY <2>2, NewestIsLargest DEF Latest
  <2> QED
    BY <2>1, <2>3 DEF Ids
<1> QED
  BY <1>1, RecordsInvariant, PTL

(* A download that ended carried its whole record, and no record is pulled *)
(* away under its page but by a recorder that stopped too late             *)
(* (startDownloadServer, StreamChunks).                                    *)
THEOREM DownloadIsRight == RecordsSpec => []DownloadIsWhole
<1>1. RecordsInv => DownloadIsWhole
  BY DEF RecordsInv, PageInv, DownloadInv
<1> QED
  BY <1>1, RecordsInvariant, PTL

(* A whole record is lost to nobody but the user who sees its name, to its *)
(* own recording, or where a scan overlooks a record (deleteVaRecord,      *)
(* recorderTask, getLatestVaRecordName).                                   *)
Kept(n) ==
  files.dir[n] = "whole" /\ files'.dir[n] # "whole" =>
    \/ page.at = "record" /\ page.pick = n /\ files'.dir[n] = "none"
    \/ /\ view.state = "menu" /\ files'.dir[n] = "none"
       /\ view.title = n \/ "menu" \in overlooked'
    \/ n = files.name /\ (task.created \/ "name" \in overlooked)

LEMMA StepKeeps ==
  ASSUME RecordsInv, [RecordsNext]_all_vars, NEW n \in Names
  PROVE  Kept(n)
<1> SUFFICES ASSUME files.dir[n] = "whole", files'.dir[n] # "whole"
             PROVE  \/ page.at = "record" /\ page.pick = n /\ files'.dir[n] = "none"
                    \/ /\ view.state = "menu" /\ files'.dir[n] = "none"
                       /\ view.title = n \/ "menu" \in overlooked'
                    \/ n = files.name /\ (task.created \/ "name" \in overlooked)
  BY DEF Kept
<1>a. files \in FilesSet
  BY TypeByFields DEF RecordsInv, RecorderInv
<1>1. CASE Recording
  <2>1. \/ /\ view.state = "menu" /\ files'.dir[n] = "none"
           /\ view.title = n \/ "menu" \in overlooked'
        \/ OpenFinal /\ n = files.name
        \/ RemoveFinal /\ n = files.name /\ task.created
    BY <1>1, WhoChanges DEF Recording, RecordsInv, RecorderInv
  <2>2. ASSUME OpenFinal, n = files.name PROVE "name" \in overlooked
    BY <2>2 DEF RecordsInv, RecorderInv, NameInv, OpenFinal, Early
  <2> QED
    BY <2>1, <2>2
<1>2. CASE Files
  <2>1. CASE DeleteRecord
    <3>1. Remove(page.pick) /\ page.at = "record" /\ page.pick \in Names
      BY <2>1 DEF DeleteRecord, Existing
    <3> QED
      BY <1>a, <3>1, FilesFields
  <2>2. CASE UNCHANGED vars
    BY <2>2 DEF vars
  <2> QED
    BY <1>2, <2>1, <2>2 DEF Files, OpenFiles, OpenRecord, Back, StartDownload, StopDownload
<1>3. CASE Httpd
  BY <1>3 DEF Httpd, Request, SendChunk, FinishDownload, CutDownload, vars
<1>4. CASE PowerCut
  BY <1>a, <1>4 DEF PowerCut, FilesSet
<1>5. CASE UNCHANGED all_vars
  BY <1>5 DEF all_vars, vars
<1> QED
  BY <1>1, <1>2, <1>3, <1>4, <1>5 DEF RecordsNext

THEOREM RecordsAreKept == RecordsSpec => RecordsStay
<1>1. RecordsInv /\ [RecordsNext]_all_vars => [\A n \in Names : Kept(n)]_all_vars
  BY StepKeeps
<1>2. RecordsSpec => [][\A n \in Names : Kept(n)]_all_vars
  BY <1>1, RecordsInvariant, PTL DEF RecordsSpec
<1> QED
  BY <1>2 DEF RecordsStay, Kept
=============================================================================
