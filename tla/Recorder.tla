------------------------------ MODULE Recorder ------------------------------
(***************************************************************************)
(* The recorder: the FreeRTOS task that writes one recording to the FAT    *)
(* storage, the object g_recorder it shares with the application task, and *)
(* the waveform view that starts it, polls it and destroys it.  Every      *)
(* snapshot() of the shared object is a step of its own.                   *)
(*                                                                         *)
(* Only the manual trigger is installed: onCheck is true at once, nothing  *)
(* is kept from before it, and 5 s of recording never rotate the chunk.    *)
(* Every file operation may fail.  Live View and faults of other parts are *)
(* SystemLive's, the pages on records are those of Records.                *)
(***************************************************************************)
EXTENDS Integers, FiniteSetsExt

CONSTANT
  MaxId       \* the largest identifier of a record, 2^32-1 in the code

ASSUME MaxIdAssumption == MaxId \in Nat

VARIABLES
  rec,        \* *g_recorder: the task's state and error, the stop request, the trigger's phase
  lastError,  \* g_last_create_error
  task,       \* the recorder task: its step, its error, whether it has created the final CSV
  files,      \* the temporary directory, the record directory, and savePath
  left,       \* history: the temporary directory could not be removed
  overlooked, \* history: the scans of the record directory that overlooked a record since the
              \* recorder was created: that for its name, or one of the page after it
  view,       \* the waveform view: its state, whether it has just read "no error", whether
              \* its user wants to quit, whether a destroy of its recorder timed out; and the
              \* name that the page after a recording shows
  app         \* why the application task is inside DestroyVaRecorder, or "free"

vars == <<rec, lastError, task, files, left, overlooked, view, app>>

Errors == {"none", "failed"}
Ended  == {"finished", "error"}

NoRec  == [on |-> FALSE, state |-> "finished", error |-> "none", stop |-> FALSE, trigger |-> "empty"]
NoTask == [pc |-> "none", error |-> "none", created |-> FALSE]

(* The record directory: REC-<id>.csv by its identifier, and one record of *)
(* an earlier product.  A scrap is what is left of a recording for good.   *)
Ids    == 0 .. MaxId
Legacy == -1
NoName == -2
Names  == Ids \cup {Legacy}
Content == {"none", "partial", "whole", "scrap"}

Existing == {n \in Names : files.dir[n] # "none"}

(* Types, and the shape of the shared object: with its task's end, state   *)
(* and trigger phase move together.                                        *)
TypeOK ==
  /\ rec.on => (rec.trigger = "finished" <=> rec.state \in Ended)
  /\ rec \in [on : BOOLEAN, error : Errors, stop : BOOLEAN,
              state : {"preparing", "waiting", "recording", "saving"} \cup Ended,
              trigger : {"empty", "preparing", "running", "finished"}]
  /\ lastError \in Errors
  /\ task \in [pc : {"none", "start", "open", "trigger", "record", "final", "merge", "close",
                     "drop", "cleanup", "unsave", "finish"},
               error : Errors, created : BOOLEAN]
  /\ files \in [temp : BOOLEAN, dir : [Names -> Content], name : Ids \cup {NoName}]
  /\ left \in BOOLEAN /\ overlooked \in SUBSET {"name", "menu"}
  /\ view \in [state : {"gone", "idle", "waiting", "recording", "saving", "fault", "menu"},
               checked : BOOLEAN, quit : BOOLEAN, late : BOOLEAN, title : Ids \cup {NoName}]
  /\ app \in {"free", "exit", "retry", "menu", "fault", "start", "create", "title"}

NewView(state) ==
  [state |-> state, checked |-> FALSE, quit |-> FALSE, late |-> FALSE, title |-> NoName]

Init ==
  /\ rec = NoRec /\ lastError = "none" /\ task = NoTask
  /\ files \in [temp : {FALSE}, dir : [Names -> {"none", "whole"}], name : {NoName}]
  /\ left = FALSE /\ overlooked = {}
  /\ view = NewView("gone") /\ app = "free"

(* isVaRecorderExist, getVaRecorderError *)
Exists == rec.on /\ rec.state \notin Ended
Error  == IF rec.on THEN rec.error ELSE lastError

(* getLatestVaRecordName: a record of an earlier product does not count,   *)
(* and one whose stat fails is overlooked.  Every call scans on its own.   *)
Newest(names) == IF names \cap Ids = {} THEN NoName ELSE Max(names \cap Ids)
Latest == Newest(Existing)

Overlookable == SUBSET (Existing \cap Ids)

\* Plausible slips: the first free identifier, or the number of records.
FirstFree(names) == Min({i \in 0 .. MaxId + 1 : i \notin names})
HowMany(names)   == Cardinality(names \cap Ids)
NextId(names)    == IF names \cap Ids = {} THEN 0 ELSE Newest(names) + 1
-----------------------------------------------------------------------------
(* The recorder task.                                                      *)

TaskAt(pc) == task' = [task EXCEPT !.pc = pc]
Fails == task' = [task EXCEPT !.pc = "cleanup", !.error = "failed"]
State(state) == rec' = [rec EXCEPT !.state = state]

TaskOnly == UNCHANGED <<lastError, overlooked, view, app>>
Final(content) == files' = [files EXCEPT !.dir[files.name] = content]

TaskStarts ==
  /\ task.pc = "start"
  /\ rec' = [rec EXCEPT !.trigger = "running"]
  /\ TaskAt("open")
  /\ UNCHANGED <<files, left>> /\ TaskOnly

OpenChunk ==
  /\ task.pc = "open"
  /\ \/ State("waiting") /\ TaskAt("trigger")
     \/ Fails /\ UNCHANGED rec
  /\ UNCHANGED <<files, left>> /\ TaskOnly

Trigger ==
  /\ task.pc = "trigger"
  /\ State("recording")
  /\ TaskAt("record")
  /\ UNCHANGED <<files, left>> /\ TaskOnly

(* A sample cannot be written. *)
WriteFails ==
  /\ task.pc = "record"
  /\ Fails
  /\ UNCHANGED <<rec, files, left>> /\ TaskOnly

(* A stop drops the recording; the stop is no error. *)
StopSeen ==
  /\ task.pc = "record" /\ rec.stop
  /\ TaskAt("cleanup")
  /\ UNCHANGED <<rec, files, left>> /\ TaskOnly

(* The duration has passed, which is looked at before a stop is.  It is    *)
(* 5000 ms: a view that waits for the recording draws many frames before   *)
(* that.                                                                   *)
RecordingLasts == view.state = "waiting" => app # "free"

EndRecording ==
  /\ task.pc = "record" /\ RecordingLasts
  /\ \/ State("saving") /\ TaskAt("final")
     \/ Fails /\ UNCHANGED rec
  /\ UNCHANGED <<files, left>> /\ TaskOnly

OpenFinal ==
  /\ task.pc = "final"
  /\ \/ /\ Final("partial")
        /\ task' = [task EXCEPT !.pc = "merge", !.created = TRUE]
     \/ Fails /\ UNCHANGED files
  /\ UNCHANGED <<rec, left>> /\ TaskOnly

(* Header and chunks.  Nobody looks for a stop any more. *)
Merge ==
  /\ task.pc = "merge"
  /\ TaskAt("close") \/ Fails
  /\ UNCHANGED <<rec, files, left>> /\ TaskOnly

CloseFails == Fails /\ UNCHANGED files

(* A file that was deleted while it was open stays deleted. *)
CloseFinal ==
  /\ task.pc = "close"
  /\ \/ TaskAt("drop") /\ IF files.name \in Existing THEN Final("whole") ELSE UNCHANGED files
     \/ CloseFails
  /\ UNCHANGED <<rec, left>> /\ TaskOnly

(* removeTempDirectory *)
RemoveTemp(removed) ==
  /\ files' = [files EXCEPT !.temp = ~removed]
  /\ left' = ~removed

(* The recording is saved, unless its chunks cannot be removed: that is a  *)
(* failure as any other, and costs the saved CSV.                          *)
DropChunks ==
  /\ task.pc = "drop"
  /\ \E removed \in BOOLEAN :
       /\ RemoveTemp(removed)
       /\ IF removed THEN TaskAt("finish") ELSE Fails
  /\ UNCHANGED rec /\ TaskOnly

CleanUp ==
  /\ task.pc = "cleanup"
  /\ \E removed \in BOOLEAN :
       /\ RemoveTemp(removed)
       /\ task' = [task EXCEPT !.error = IF removed THEN @ ELSE "failed", !.pc = "unsave"]
  /\ UNCHANGED rec /\ TaskOnly

\* Plausible slip: a final CSV is thought to exist only once it is complete.
OnlyComplete == task.created /\ files.dir[files.name] = "whole"
MustUnsave   == task.created

RemoveFinal ==
  /\ task.pc = "unsave"
  /\ TaskAt("finish")
  /\ \E removed \in BOOLEAN :
       IF task.error = "failed" /\ MustUnsave
       THEN IF files.name \in Existing
            THEN Final(IF removed THEN "none" ELSE "scrap")
            ELSE UNCHANGED files
       ELSE UNCHANGED files
  /\ UNCHANGED <<rec, left>> /\ TaskOnly

TriggerFinished  == "finished"

(* RecorderDaemonStatus_t::finish, then the task deletes itself. *)
Finish ==
  /\ task.pc = "finish"
  /\ rec' = [rec EXCEPT !.error = task.error, !.trigger = TriggerFinished,
                        !.state = IF task.error = "none" THEN "finished" ELSE "error"]
  /\ task' = NoTask
  /\ UNCHANGED <<files, left>> /\ TaskOnly
-----------------------------------------------------------------------------
(* The application task: DestroyVaRecorder and its callers.                *)

(* A destroy begins: a task that still runs is asked to stop. *)
Destroy(why) ==
  /\ app' = why
  /\ rec' = [rec EXCEPT !.stop = @ \/ Exists]

(* What the caller makes of it. *)
Continue(done) ==
  CASE app = "exit"  -> view' = NewView("gone") /\ app' = "free"
    [] app = "menu"  -> view' = NewView("menu") /\ app' = "title"
    [] app = "retry" -> view' = [view EXCEPT !.late = ~done] /\ app' = "free"
    [] app = "fault" -> view' = [NewView("fault") EXCEPT !.late = view.late \/ ~done] /\ app' = "free"
    [] app = "start" -> IF done
                        THEN view' = [view EXCEPT !.late = FALSE] /\ app' = "create"
                        ELSE view' = [NewView("fault") EXCEPT !.late = TRUE] /\ app' = "free"

Destroying == app \in {"exit", "menu", "retry", "fault", "start"}

(* releaseFinishedTrigger refuses while the task has the trigger. *)
Released == rec.on /\ rec.trigger = "finished"

DestroyReturns ==
  /\ Destroying /\ ~Exists
  /\ lastError' = Error
  /\ rec' = IF Released THEN NoRec ELSE rec
  /\ Continue(Released \/ ~rec.on)
  /\ UNCHANGED <<task, files, left, overlooked>>

\* Plausible slip: giving up on the task gives up its recorder too.
TimedOutReleases == rec' = NoRec
TimedOut == UNCHANGED rec

(* 5 s pass and the task has not finished: it keeps everything it uses. *)
DestroyTimesOut ==
  /\ Destroying /\ Exists
  /\ TimedOut
  /\ Continue(FALSE)
  /\ UNCHANGED <<lastError, task, files, left, overlooked>>

(* creatVaRecorder.  The name of the new record is chosen by a scan too.   *)
Choose(name) ==
  /\ name \in Ids
  /\ files' = [files EXCEPT !.temp = TRUE, !.name = name]

CreateSucceeds ==
  /\ app = "create"
  /\ \E unseen \in Overlookable :
       /\ Choose(NextId(Existing \ unseen))
       /\ overlooked' = IF unseen = {} THEN {} ELSE {"name"}
  /\ rec' = [on |-> TRUE, state |-> "preparing", error |-> "none", stop |-> FALSE,
             trigger |-> "preparing"]
  /\ lastError' = "none" /\ left' = FALSE
  /\ task' = [NoTask EXCEPT !.pc = "start"]
  /\ view' = NewView("waiting") /\ app' = "free"

(* It may leave the temporary directory behind. *)
CreateFails ==
  /\ app = "create"
  /\ lastError' = "failed"
  /\ \E removed \in BOOLEAN : RemoveTemp(removed)
  /\ Destroy("fault")
  /\ UNCHANGED <<task, view, overlooked>>

CreateRecorder == CreateSucceeds \/ CreateFails
-----------------------------------------------------------------------------
(* The application task: the view.                                         *)

ViewOnly == UNCHANGED <<lastError, task, files, left, overlooked>>

OpenWaveform ==
  /\ app = "free" /\ view.state = "gone"
  /\ view' = NewView("idle")
  /\ UNCHANGED <<rec, app>> /\ ViewOnly

(* WaveFormRecorder::activity *)
Activity ==
  IF view.state = "fault" THEN "FaultLatched"
  ELSE IF view.late \/ (view.state = "idle" /\ Exists) THEN "BusyCleanup"
  ELSE view.state

StartRecording ==
  /\ app = "free" /\ Activity = "idle"
  /\ Destroy("start")
  /\ UNCHANGED view /\ ViewOnly

RetryCleanup ==
  /\ app = "free" /\ Activity = "BusyCleanup" /\ view.state = "idle"
  /\ Destroy("retry")
  /\ UNCHANGED view /\ ViewOnly

Polling == app = "free" /\ view.state \in {"waiting", "recording", "saving"}

(* The first look at the recorder of a frame: GetVaRecorderError. *)
ReadError ==
  /\ Polling /\ ~view.checked
  /\ IF Error # "none"
     THEN Destroy("fault") /\ UNCHANGED view
     ELSE view' = [view EXCEPT !.checked = TRUE] /\ UNCHANGED <<rec, app>>
  /\ ViewOnly

\* Plausible slip: the recording is over once the recorder is seen saving.
SeenSaving     == rec.on /\ rec.state = "saving"
RecordingEnded == ~(rec.on /\ rec.state = "recording")

(* What the second look makes of it: IsVaRecorderRecording, or             *)
(* IsVaRecorderSaving.                                                     *)
Shown ==
  CASE view.state = "waiting"   -> IF rec.on /\ rec.state = "recording" THEN "recording" ELSE "waiting"
    [] view.state = "recording" -> IF RecordingEnded THEN "saving" ELSE "recording"
    [] view.state = "saving"    -> "saving"

(* The frame ends here: a quit it began with is carried out now, whatever  *)
(* state it has come to.                                                   *)
ReadState ==
  /\ Polling /\ view.checked
  /\ view' = [view EXCEPT !.state = Shown, !.checked = FALSE]
  /\ IF view.quit
     THEN Destroy("exit")
     ELSE IF view.state = "saving" /\ ~(rec.on /\ rec.state = "saving")
          THEN Destroy("menu")
          ELSE UNCHANGED <<rec, app>>
  /\ ViewOnly

ExitStates == {"idle", "waiting", "recording"}

(* The side button is held as a frame begins.  An idle view polls nothing, *)
(* any other polls first, and a fault it meets there drops the quit.       *)
Exit ==
  /\ app = "free" /\ ~view.checked /\ ~view.quit /\ view.state \in ExitStates
  /\ IF view.state = "idle"
     THEN Destroy("exit") /\ UNCHANGED view
     ELSE view' = [view EXCEPT !.quit = TRUE] /\ UNCHANGED <<rec, app>>
  /\ ViewOnly

(* A fault whose recorder could not be destroyed stays. *)
Acknowledge ==
  /\ app = "free" /\ view.state = "fault" /\ ~view.late
  /\ view' = NewView("idle")
  /\ UNCHANGED <<rec, app>> /\ ViewOnly

(* deleteVaRecord *)
Remove(n) == files' = [files EXCEPT !.dir[n] = "none"]

(* The page after a recording is titled by the name one scan has found,    *)
(* and again after a preview or the network page.                          *)
ShowTitle ==
  /\ app = "title"
  /\ \E unseen \in Overlookable :
       /\ view' = [view EXCEPT !.title = Newest(Existing \ unseen)]
       /\ overlooked' = IF unseen = {} THEN overlooked ELSE overlooked \cup {"menu"}
  /\ app' = "free"
  /\ UNCHANGED <<rec, lastError, task, files, left>>

BackToMenu ==
  /\ app = "free" /\ view.state = "menu"
  /\ app' = "title"
  /\ UNCHANGED <<rec, view>> /\ ViewOnly

(* Its delete scans once more, and takes what that scan has found.         *)
LeaveMenu ==
  /\ app = "free" /\ view.state = "menu"
  /\ view' = NewView("idle")
  /\ \/ \E unseen \in Overlookable :
          /\ Newest(Existing \ unseen) # NoName
          /\ Remove(Newest(Existing \ unseen))
          /\ overlooked' = IF unseen = {} THEN overlooked ELSE overlooked \cup {"menu"}
     \/ UNCHANGED <<files, overlooked>>
  /\ UNCHANGED <<rec, lastError, task, left, app>>
-----------------------------------------------------------------------------
Saving == OpenFinal \/ Merge \/ CloseFinal \/ DropChunks
RecorderTask ==
  \/ TaskStarts \/ OpenChunk \/ Trigger \/ StopSeen \/ EndRecording
  \/ Saving \/ CleanUp \/ RemoveFinal \/ Finish
Poll == ReadError \/ ReadState
Menu == ShowTitle \/ BackToMenu \/ LeaveMenu
User == OpenWaveform \/ StartRecording \/ RetryCleanup \/ Exit \/ Acknowledge \/ Menu

Next ==
  \/ RecorderTask \/ WriteFails
  \/ DestroyReturns \/ DestroyTimesOut \/ CreateRecorder
  \/ Poll \/ User

Spec == Init /\ [][Next]_vars

(* The recorder task runs and its time passes; the view draws its frames;  *)
(* a destroy comes to its end.  Nobody counts on the user.                 *)
FairSpec ==
  /\ Spec
  /\ WF_vars(RecorderTask) /\ WF_vars(Poll)
  /\ WF_vars(DestroyReturns \/ DestroyTimesOut \/ CreateRecorder)
-----------------------------------------------------------------------------
(* Properties *)

(* The task's pointers stay good: as long as it runs, the shared object    *)
(* and the trigger it was given are there, whatever timed out meanwhile;   *)
(* and when the object says the task is done, it is.                       *)
TriggerOutlivesTask ==
  /\ task.pc # "none" => Exists /\ rec.trigger \in {"preparing", "running"}
  /\ rec.on /\ task.pc = "none" => rec.trigger = "finished"

(* What a recording leaves on the storage.  A recording that ended leaves  *)
(* no chunk behind, unless they would not be removed, and no half-written  *)
(* CSV that passes for a record being written.  A recorder that finished   *)
(* without error has its whole CSV on the storage, unless it was stopped   *)
(* before its view showed it as being saved: a close, a merge or a removal *)
(* that failed late is not reported as success, and a quit that comes as   *)
(* the samples end does not cost the recording.                            *)
FilesAreWhole ==
  task.pc = "none" => (files.temp => left) /\ \A n \in Names : files.dir[n] # "partial"
MustBeSaved == ~rec.stop \/ view.state = "saving"
FinishedIsSaved ==
  rec.on /\ rec.state = "finished" /\ MustBeSaved => files.dir[files.name] = "whole"
RecordingIsKept == FilesAreWhole /\ FinishedIsSaved

(* After a recording that did not fail, that recording is the newest       *)
(* record and whole, unless its name was chosen by a scan that overlooked  *)
(* one; and the page shows its name, unless a scan of the page did.        *)
MenuIsAboutIt ==
  view.state = "menu" /\ lastError = "none" /\ "name" \notin overlooked =>
    /\ Latest = files.name /\ files.dir[files.name] = "whole"
    /\ app = "free" /\ "menu" \notin overlooked => view.title = files.name

(* Nobody stops a recorder under a view that still polls it, but the quit  *)
(* of the frame the view has just drawn, which destroys the view with it.  *)
OnlyQuitStops ==
  view.state \in {"waiting", "recording", "saving"} /\ rec.stop => app = "exit"

(* What the application may do to the recorder's task. *)
TaskIsLeftAlone == TriggerOutlivesTask /\ OnlyQuitStops

(* The view comes out of a recording it started, however it ends.          *)
ViewComesBack ==
  view.state \in {"waiting", "recording", "saving"} ~> view.state \in {"gone", "menu", "fault"}

(* recorder-and-measurement-contracts.md: a failure is exposed, not shown  *)
(* as a finished recording.                                                *)
FailureIsExposed == view.state = "menu" => lastError = "none"
=============================================================================
