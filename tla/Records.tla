------------------------------ MODULE Records ------------------------------
(***************************************************************************)
(* Everything that works on the record directory: the recorder and its     *)
(* view (Recorder), the record pages of the Files application, the         *)
(* download of one record by the HTTPD task, and a power cut.  Waveform    *)
(* and Files share the application task, so one of them is open at a time. *)
(*                                                                         *)
(* Reading a record into its viewer changes nothing.  How the download     *)
(* server and its AP start and stop is SystemLive's; here a start or a     *)
(* stop succeeds or fails as a whole.  A PC that changes the storage in    *)
(* MSC mode leaves a directory Init starts from.                           *)
(***************************************************************************)
EXTENDS Recorder

VARIABLES
  page,      \* the Files page, the names it listed, the record it opened
  selected,  \* _download_selection: the record of a download server that runs
  get        \* the download under way: its step, what it opened, the chunks it sent

files_vars == <<page, selected, get>>
all_vars   == <<vars, files_vars>>

(* A whole record is one full buffer and a shorter one, a half-written one *)
(* shorter than a buffer.  "pulled": the file was removed or rewritten     *)
(* under its reader, who may then read anything.                           *)
Chunks(content) == IF content = "whole" THEN 2 ELSE 1

Out   == [at |-> "out", list |-> {}, pick |-> NoName]
NoGet == [pc |-> "idle", of |-> "none", sent |-> 0]

RecordsTypeOK ==
  /\ TypeOK
  /\ page \in [at : {"out", "list", "record", "serving"}, list : SUBSET Names,
               pick : Names \cup {NoName}]
  /\ selected \in Ids \cup {NoName}
  /\ get \in [pc : {"idle", "stream", "done"}, of : Content \cup {"pulled"}, sent : 0 .. 2]
  /\ page.at = "serving" => selected = page.pick
  /\ get.pc = "stream" => selected # NoName
  /\ page.at # "out" => app = "free" /\ view.state = "gone"

RecordsInit == Init /\ page = Out /\ selected = NoName /\ get = NoGet
-----------------------------------------------------------------------------
(* The Files application.                                                  *)

(* A file that is removed or opened for writing loses its clusters, also   *)
(* under a download of it.  One that is being written grows unseen.        *)
Changed(n) == files'.dir[n] # files.dir[n] /\ files'.dir[n] \in {"none", "partial"}
Pulls ==
  get' = IF /\ get.pc = "stream" /\ get.of # "partial"
            /\ Changed(selected)
         THEN [get EXCEPT !.of = "pulled"] ELSE get

(* getVaRecordNameList, which overlooks a record whose stat fails. *)
Listing(seen) == IF seen = {} THEN Out ELSE [at |-> "list", list |-> seen, pick |-> NoName]

OpenFiles ==
  /\ app = "free" /\ view.state = "gone" /\ page.at = "out"
  /\ \E seen \in SUBSET Existing : page' = Listing(seen)
  /\ UNCHANGED <<vars, selected, get>>

(* The list is not read again, only after a delete. *)
OpenRecord ==
  /\ page.at = "list"
  /\ \E n \in page.list : page' = [page EXCEPT !.at = "record", !.pick = n]
  /\ UNCHANGED <<vars, selected, get>>

Back ==
  /\ page.at \in {"list", "record"}
  /\ page' = IF page.at = "list" THEN Out ELSE [page EXCEPT !.at = "list", !.pick = NoName]
  /\ UNCHANGED <<vars, selected, get>>

(* A delete that fails leaves everything as it was. *)
DeleteRecord ==
  /\ page.at = "record" /\ page.pick \in Existing
  /\ Remove(page.pick)
  /\ \E seen \in SUBSET (Existing \ {page.pick}) : page' = Listing(seen)
  /\ Pulls
  /\ UNCHANGED <<rec, lastError, task, left, overlooked, view, app, selected>>

(* Only a current record can be downloaded, and only if no server runs. *)
StartDownload ==
  /\ page.at = "record" /\ page.pick # Legacy /\ selected = NoName
  /\ selected' = page.pick
  /\ page' = [page EXCEPT !.at = "serving"]
  /\ UNCHANGED <<vars, get>>

(* stopDownloadServer waits for the handler, or fails and keeps the server *)
(* with its selection; the page is left all the same.                      *)
StopDownload ==
  /\ page.at = "serving"
  /\ page' = [page EXCEPT !.at = "record"]
  /\ \/ get.pc # "stream" /\ selected' = NoName /\ get' = NoGet
     \/ UNCHANGED <<selected, get>>
  /\ UNCHANGED vars
-----------------------------------------------------------------------------
(* The HTTPD task: GET /download/<the selected name>.                      *)

(* The file changes while it is read. *)
Loose == get.of \in {"partial", "pulled"}

Request ==
  /\ selected \in Existing /\ get.pc # "stream"
  /\ get' = [pc |-> "stream", of |-> files.dir[selected], sent |-> 0]
  /\ UNCHANGED <<vars, page, selected>>

SendChunk ==
  /\ get.pc = "stream" /\ get.sent < 2 /\ (Loose \/ get.sent < Chunks(get.of))
  /\ get' = [get EXCEPT !.sent = @ + 1]
  /\ UNCHANGED <<vars, page, selected>>

\* Plausible slip: a short read is taken for the end of the file.
ShortRead == TRUE
EndOfFile == Loose \/ get.sent = Chunks(get.of)

(* StreamChunks is complete, the file closed, the last chunk sent. *)
FinishDownload ==
  /\ get.pc = "stream" /\ EndOfFile
  /\ get' = [get EXCEPT !.pc = "done"]
  /\ UNCHANGED <<vars, page, selected>>

(* A read, a send, the close or the last chunk fails. *)
CutDownload ==
  /\ get.pc = "stream"
  /\ get' = NoGet
  /\ UNCHANGED <<vars, page, selected>>
-----------------------------------------------------------------------------
(* Power is cut, in any state, and comes back.  Nothing is cleaned up at   *)
(* the start.                                                              *)
PowerCut ==
  /\ rec' = NoRec /\ lastError' = "none" /\ task' = NoTask
  /\ files' = [files EXCEPT !.dir = [n \in Names |-> IF @[n] = "partial" THEN "scrap" ELSE @[n]],
                            !.name = NoName]
  /\ left' = files.temp
  /\ view' = NewView("gone") /\ app' = "free"
  /\ page' = Out /\ selected' = NoName /\ get' = NoGet
  /\ overlooked' = {}

Recording ==
  /\ Next
  /\ view.state = "gone" /\ view'.state # "gone" => page.at = "out"
  /\ Pulls
  /\ UNCHANGED <<page, selected>>

Files == OpenFiles \/ OpenRecord \/ Back \/ DeleteRecord \/ StartDownload \/ StopDownload
Httpd == Request \/ SendChunk \/ FinishDownload \/ CutDownload

RecordsNext == Recording \/ Files \/ Httpd \/ PowerCut

RecordsSpec == RecordsInit /\ [][RecordsNext]_all_vars

(* The fairness of the recorder and its view; nobody counts on a download. *)
RecordsFairSpec ==
  /\ RecordsSpec
  /\ WF_vars(RecorderTask) /\ WF_vars(Poll)
  /\ WF_vars(DestroyReturns \/ DestroyTimesOut \/ CreateRecorder)
-----------------------------------------------------------------------------
(* Properties, beside those of Recorder *)

(* A whole record is only ever lost to the user, who deletes it on a page  *)
(* that shows its name: no recording, however it ends, no power cut and no *)
(* download touches it.  A recording that fails late takes back its own    *)
(* CSV.  Where a stat fails, a recording may take the place of a record    *)
(* that its name overlooked, and the page after it may delete another      *)
(* record than the one it shows.                                           *)
RecordsStay ==
  [][\A n \in Names : files.dir[n] = "whole" /\ files'.dir[n] # "whole" =>
       \/ page.at = "record" /\ page.pick = n /\ files'.dir[n] = "none"
       \/ /\ view.state = "menu" /\ files'.dir[n] = "none"
          /\ view.title = n \/ "menu" \in overlooked'
       \/ n = files.name /\ (task.created \/ "name" \in overlooked)]_all_vars

(* A download that ended with its last chunk carried the whole of what it  *)
(* opened.  Nothing pulls the record away from under the page that offers  *)
(* it, but a recorder that did not stop in time and takes back its own CSV;*)
(* only a server that would not stop outlives its record.                  *)
DownloadIsWhole ==
  /\ get.pc = "done" /\ ~Loose => get.sent = Chunks(get.of)
  /\ page.at = "serving" /\ get.of = "pulled" =>
       rec.stop /\ selected = files.name
=============================================================================
