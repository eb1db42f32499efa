-------------------------- MODULE SystemLive_proofs --------------------------
(***************************************************************************)
(* That a server never runs unnoticed, that the AP outlives it, and that   *)
(* nothing is offered before it is there, whatever fails and however often *)
(* generations wrap.                                                       *)
(***************************************************************************)
EXTENDS SystemLive, TLAPS

QrStates == {"WifiQr", "ViewerQr"}
Live     == QrStates \cup {"Stopping"}

(* What a server brings with it, and what is gone without one.             *)
NetInv ==
  /\ srv.owner = "None" <=> srv.runs = "none"
  /\ srv.owner = "Download" <=> srv.runs = "download"
  /\ srv.runs = "none" => ~srv.retained
  /\ srv.runs # "none" => srv.gen # NoServer /\ ap.on /\ ap.state # "Inactive"
  /\ srv.runs # "live" => d2b = StoppedLife /\ ~site.profile /\ ~site.qr
  /\ site.routes \subseteq Routes(srv.runs)
  /\ d2b.phase = "Stopped" => d2b = StoppedLife
  /\ d2b.phase # "Stopped" => d2b.server = srv.gen
  /\ d2b.phase = "StopFailed" => srv.retained

(* Which steps a job has, and where the user is meanwhile.                 *)
JobInv ==
  /\ task.job \in Starts => task.at \in {"apUp", "listen", "apUndo", "viewer", "d2b", "arm"}
  /\ task.job \in Stops => task.at \in {"close", "httpd", "apDown"}
  /\ task.job \in Exits => task.at \in {"relay", "invalidate", "admitOff", "close", "httpd", "apDown"}
  /\ task.at \in {"viewer", "d2b", "arm"} => task.job = "live"
  /\ task.job \in {"live", "undo", "finish", "fault"} => page = "waveform"
  /\ task.job \in {"live", "undo"} <=> share.state = "Starting"
  /\ task.job = "finish" => share.state \in {"Stopping", "StopRecovery"}
  /\ task.job = "config" => page = "network"
  /\ task.job = "endConfig" => page \in {"configuring", "recovery"}
  /\ task.job = "download" => page = "launcher"
  /\ task.job = "endDownload" => page = "downloading"
  /\ task.job = "exit" => page \in {"monitor", "waveform"}
  /\ task.job \in Exits => share.state = "Inactive"
  /\ share.state # "Inactive" => page = "waveform"
  /\ ack => Idle /\ rec = "Fault" /\ page = "waveform" /\ share.state = "Inactive"

(* What there is of the server at each step.                               *)
StepInv ==
  /\ task.at \in {"apUp", "listen", "apUndo", "apDown"} => srv.runs = "none"
  /\ task.at = "apUp" => ~ap.on
  /\ task.at \in {"listen", "apUndo"} => ap.on /\ ap.state # "Inactive"
  /\ task.at \in {"viewer", "d2b", "arm"} => srv.runs = "live" /\ ~srv.retained /\ ~site.qr
  /\ task.at \in {"viewer", "d2b"} => d2b = StoppedLife
  /\ task.at = "viewer" => ~site.profile /\ site.routes = {}
  /\ task.at = "d2b" => site.routes = {"viewer"}
  /\ task.at = "arm" => site.routes = Routes("live") /\ d2b.phase = "Running"
  /\ task.job = "undo" /\ task.at # "apDown" => srv.runs = "live"
  /\ task.at = "httpd" => srv.owner = OwnerOf(task.job) /\ d2b.phase \in {"PreStopping", "Stopped"}
  /\ d2b.phase = "PreStopping" => task.at = "httpd"

(* Who knows of a server that runs, and of an AP without one.              *)
DebtInv ==
  /\ srv.runs = "live" => page = "waveform"
       /\ (srv.retained \/ share.state \in Live \/ task.job \in {"live", "undo"})
  /\ srv.runs = "live" => share.state \notin {"Inactive", "StartError"}
  /\ srv.runs = "config" => page \in {"configuring", "recovery"} /\ (srv.retained \/ page = "configuring")
  /\ srv.runs = "download" => srv.retained \/ page = "downloading"
  /\ srv.runs = "none" /\ ap.on =>
       ap.state = "StopRetryRequired" \/ task.job \in Starts \/ task.at = "apDown"
  /\ page \in {"configuring", "recovery"} \/ task.job = "config" => ~relay
  /\ AckMeansClean

(* What is served while the user is told so.                               *)
ServingInv ==
  /\ Idle /\ share.state \in Live =>
       /\ srv.runs = "live" /\ ~srv.retained
       /\ site.routes = Routes("live") /\ site.qr /\ d2b.phase = "Running"
  /\ site.admit <=> (Idle /\ share.state \in QrStates)
  /\ page = "downloading" => Idle \/ task.job = "endDownload"
  /\ page = "downloading" /\ task.at # "apDown" =>
       srv.runs = "download" /\ site.routes = Routes("download")
  /\ page = "configuring" /\ Idle => srv.runs = "config"
  /\ site.record <=> \/ "download" \in site.routes
                     \/ (task.job = "download" /\ task.at \in {"apUp", "listen"})
                     \/ (task.job = "endDownload" /\ task.at = "apDown")

Invariant == TypeOK /\ NetInv /\ JobInv /\ StepInv /\ DebtInv /\ ServingInv
-----------------------------------------------------------------------------
TaskSet  == [job : {"none"}, at : {"idle"}] \cup [job : Starts \cup Stops \cup Exits, at : Steps]
ShareSet == [state : ShareStates, late : BOOLEAN, over : BOOLEAN]
ApSet    == [on : BOOLEAN, state : {"Inactive", "Active", "StopRetryRequired"}]
SrvSet   == [owner : {"None", "System", "Download"}, retained : BOOLEAN,
             gen : 0..GenMax, runs : Starts \cup {"none"}]
SiteSet  == [routes : SUBSET {"viewer", "d2b", "config", "download"},
             profile : BOOLEAN, admit : BOOLEAN, qr : BOOLEAN, record : BOOLEAN]
Recorders == {"Idle", "Busy", "Saving", "Cleanup", "Fault"}

Fields ==
  /\ task \in TaskSet /\ share \in ShareSet /\ ap \in ApSet /\ srv \in SrvSet /\ site \in SiteSet
  /\ page \in Pages /\ below \in {"launcher", "waveform"}
  /\ rec \in Recorders /\ ack \in BOOLEAN /\ relay \in BOOLEAN
  /\ d2b \in LifeType(1..GenMax)

(* The type invariant by its fields, whose record sets stay opaque.        *)
LEMMA TypeByFields == TypeOK <=> Fields
BY DEF TypeOK, Fields, TaskSet, ShareSet, ApSet, SrvSet, SiteSet, Recorders

(* What a query that reads "Disabled" says, and the routes of each server. *)
LEMMA ReadsTrue == \A on \in BOOLEAN : "Disabled" \in Reads(on) => ~on
BY DEF Reads

LEMMA RoutesOf ==
  /\ Routes("none") = {} /\ Routes("live") = {"viewer", "d2b"}
  /\ Routes("config") = {"config"} /\ Routes("download") = {"download"}
BY DEF Routes

(* A stop of the AP that succeeds leaves it off, one that fails is owed.   *)
LEMMA StopApResult ==
  ASSUME ap \in ApSet, NEW stopped \in BOOLEAN, StopAp(stopped)
  PROVE  /\ ap' \in ApSet
         /\ stopped => ~ap'.on
         /\ ~stopped => ap'.state = "StopRetryRequired"
<1>1. PICK read \in Reads(ap.on), off \in BOOLEAN, down \in BOOLEAN :
        \E last \in Reads(ap.on /\ ~down) :
          /\ stopped = (read = "Disabled" \/ (off /\ last = "Disabled"))
          /\ Ap(IF read = "Disabled" THEN ap.on ELSE ap.on /\ ~down,
                IF stopped THEN "Inactive" ELSE "StopRetryRequired")
  BY DEF StopAp
<1>2. PICK last \in Reads(ap.on /\ ~down) :
          /\ stopped = (read = "Disabled" \/ (off /\ last = "Disabled"))
          /\ Ap(IF read = "Disabled" THEN ap.on ELSE ap.on /\ ~down,
                IF stopped THEN "Inactive" ELSE "StopRetryRequired")
  BY <1>1
<1>3. ap.on \in BOOLEAN /\ (ap.on /\ ~down) \in BOOLEAN
  BY DEF ApSet
<1>4. (read = "Disabled" => ~ap.on) /\ (last = "Disabled" => ~(ap.on /\ ~down))
  BY <1>1, <1>2, <1>3, ReadsTrue
<1> QED
  BY <1>2, <1>3, <1>4 DEF Ap, ApSet

(* What a start that failed makes of its job and its page.                 *)
LEMMA StartFailed ==
  ASSUME share \in ShareSet, NEW job \in Starts \cup {"undo"}, NEW result \in {"Debt", "Failed"},
         StartEnds(job, result)
  PROVE  /\ job \in {"live", "undo"} =>
              /\ page' = page
              /\ share'.late = share.late /\ share'.over = share.over /\ share' \in ShareSet
              /\ result = "Debt" => share'.state = "StopRecovery" /\ task' = [job |-> "finish", at |-> "close"]
              /\ result = "Failed" => share'.state = "StartError" /\ task' = Rest
         /\ job = "config" =>
              /\ page' = (IF result = "Debt" THEN "recovery" ELSE "network")
              /\ share' = share /\ task' = Rest
         /\ job = "download" => page' = page /\ share' = share /\ task' = Rest
<1>1. CASE job \in {"live", "undo"}
  BY <1>1 DEF StartEnds, Call, ShareSet, ShareStates
<1>2. CASE job = "config"
  BY <1>2 DEF StartEnds
<1>3. CASE job = "download"
  BY <1>3 DEF StartEnds
<1> QED
  BY <1>1, <1>2, <1>3 DEF Starts

(* What the end of a stop or of a termination makes of them.               *)
LEMMA JobEnded ==
  ASSUME Fields, task.job \in Stops \cup Exits, NEW stopped \in BOOLEAN, JobEnds(stopped)
  PROVE  /\ task.job = "undo" =>
              /\ page' = page /\ rec' = rec /\ ack' = ack
              /\ stopped => share'.state = "StartError" /\ task' = Rest
              /\ ~stopped => share'.state = "StopRecovery" /\ task' = [job |-> "finish", at |-> "close"]
         /\ task.job = "finish" =>
              /\ page' = page /\ rec' = rec /\ ack' = ack /\ task' = Rest
              /\ share'.state = (IF stopped THEN "Inactive" ELSE "StopRecovery")
         /\ task.job = "endConfig" =>
              /\ page' = (IF stopped THEN "network" ELSE "recovery")
              /\ rec' = rec /\ ack' = ack /\ task' = Rest /\ share' = share
         /\ task.job = "endDownload" =>
              page' = "launcher" /\ rec' = rec /\ ack' = ack /\ task' = Rest /\ share' = share
         /\ task.job \in Exits =>
              /\ task' = Rest /\ share'.state = "Inactive"
              /\ page' = (IF task.job = "exit" THEN "launcher" ELSE page)
              /\ ack' => task.job = "fault" /\ stopped /\ ~relay /\ rec' = "Fault"
         /\ share' \in ShareSet /\ rec' \in Recorders /\ ack' \in BOOLEAN
<1> USE DEF Fields
<1>1. CASE task.job = "undo"
  <2>1. StartEnds("undo", IF stopped THEN "Failed" ELSE "Debt") /\ rec' = rec /\ ack' = ack
    BY <1>1 DEF JobEnds, StopEnds, Exits
  <2> QED
    BY <1>1, <2>1, StartFailed DEF Exits
<1>2. CASE task.job = "finish"
  <2>1. /\ share' = Session(IF stopped THEN "Inactive" ELSE "StopRecovery")
        /\ task' = Rest /\ page' = page /\ rec' = rec /\ ack' = ack
    BY <1>2 DEF JobEnds, StopEnds, Exits
  <2>2. /\ share' \in ShareSet
        /\ share'.state = (IF stopped THEN "Inactive" ELSE "StopRecovery")
    BY <2>1 DEF Session, ShareSet, ShareStates
  <2> QED
    BY <1>2, <2>1, <2>2 DEF Exits
<1>3. CASE task.job = "endConfig"
  BY <1>3 DEF JobEnds, StopEnds, Exits, AfterConfig
<1>4. CASE task.job = "endDownload"
  BY <1>4 DEF JobEnds, StopEnds, Exits
<1>5. CASE task.job \in Exits
  <2>1. PICK destroyed \in BOOLEAN :
          /\ rec' = IF task.job = "fault" THEN "Fault"
                    ELSE IF rec \in {"Busy", "Cleanup"} /\ ~destroyed THEN "Cleanup" ELSE "Idle"
          /\ ack' = (task.job = "fault" /\ MayAcknowledge(destroyed, ~stopped))
          /\ page' = IF task.job = "exit" THEN "launcher" ELSE page
          /\ share' = Session("Inactive")
          /\ task' = Rest
    BY <1>5 DEF JobEnds, TerminationEnds
  <2>2. share' \in ShareSet /\ share'.state = "Inactive" /\ rec' \in Recorders
    BY <2>1 DEF Session, ShareSet, ShareStates, Recorders
  <2>3. ack' \in BOOLEAN /\ (ack' => task.job = "fault" /\ stopped /\ ~relay)
    BY <2>1 DEF MayAcknowledge
  <2>4. task.job = "fault" => rec' = "Fault"
    BY <2>1
  <2> QED
    BY <1>5, <2>1, <2>2, <2>3, <2>4 DEF Exits
<1> QED
  BY <1>1, <1>2, <1>3, <1>4, <1>5 DEF Stops

(* A start that failed and left no server; an AP is off or owed.           *)
LEMMA FailedStartKeeps ==
  ASSUME Invariant, task.job \in Starts \cup {"undo"}, srv.runs = "none",
         NEW result \in {"Debt", "Failed"}, StartEnds(task.job, result), site' = Unselected,
         ap' \in ApSet, result = "Failed" => ~ap'.on, result = "Debt" => ap'.state = "StopRetryRequired",
         UNCHANGED <<below, rec, ack, relay, srv, d2b>>
  PROVE  NetInv' /\ JobInv' /\ StepInv' /\ DebtInv' /\ ServingInv'
<1>a. Fields /\ NetInv /\ JobInv /\ StepInv /\ DebtInv /\ ServingInv
  BY TypeByFields DEF Invariant
<1>1. share \in ShareSet
  BY <1>a DEF Fields
<1>2. /\ task.job \in {"live", "undo"} =>
              /\ page' = page /\ share' \in ShareSet
              /\ result = "Debt" => share'.state = "StopRecovery" /\ task' = [job |-> "finish", at |-> "close"]
              /\ result = "Failed" => share'.state = "StartError" /\ task' = Rest
      /\ task.job = "config" =>
              /\ page' = (IF result = "Debt" THEN "recovery" ELSE "network")
              /\ share' = share /\ task' = Rest
      /\ task.job = "download" => page' = page /\ share' = share /\ task' = Rest
  BY <1>1, StartFailed
<1>3. /\ site'.routes = {} /\ site.routes = {} /\ ~site'.profile /\ ~site'.qr /\ ~site'.admit
      /\ d2b = StoppedLife
  BY <1>a, RoutesOf DEF Unselected, NetInv, ServingInv, JobInv, Fields, SiteSet, Idle,
    Starts
<1>4. ~site'.record
  BY <1>a, <1>3 DEF Unselected, ServingInv, JobInv, Fields, SiteSet, Starts
<1> USE DEF Fields, At, Goto, Call, Rest, Idle, OwnerOf, Session, NoSite, Starts, Stops,
  Exits, NoServer, StoppedLife, Live, QrStates, network, TaskSet, ShareSet, ApSet, SrvSet,
  SiteSet, LifeType, NetInv, JobInv, StepInv, DebtInv, ServingInv, AckMeansClean
<1>5. NetInv'
  BY <1>a, <1>2, <1>3, <1>4, RoutesOf
<1>6. JobInv'
  BY <1>a, <1>2, <1>3, <1>4, RoutesOf
<1>7. StepInv'
  BY <1>a, <1>2, <1>3, <1>4, RoutesOf
<1>8. DebtInv'
  BY <1>a, <1>2, <1>3, <1>4, RoutesOf
<1>9. ServingInv'
  BY <1>a, <1>2, <1>3, <1>4, RoutesOf
<1> QED
  BY <1>5, <1>6, <1>7, <1>8, <1>9

(* An AP that comes up leads on; one that does not leaves no server and is *)
(* owed.                                                                   *)
LEMMA StartApKeeps ==
  ASSUME Invariant, StartAp
  PROVE  NetInv' /\ JobInv' /\ StepInv' /\ DebtInv' /\ ServingInv'
<1>a. Fields /\ NetInv /\ JobInv /\ StepInv /\ DebtInv /\ ServingInv
  BY TypeByFields DEF Invariant
<1>1. task.at = "apUp" /\ task.job \in Starts /\ srv.runs = "none" /\ ~ap.on /\ ap \in ApSet
  BY <1>a DEF StartAp, At, JobInv, StepInv, Fields, TaskSet, Starts, Stops, Exits
<1>2. PICK read \in Reads(ap.on), staLeft \in BOOLEAN, ok \in BOOLEAN, up \in BOOLEAN :
      \E seen \in Reads(up) :
       IF read # "Disabled"
       THEN Ap(ap.on, "StopRetryRequired") /\ StartFails("Debt")
       ELSE IF ~staLeft
       THEN Ap(ap.on, "Inactive") /\ StartFails("Failed")
       ELSE IF ok /\ seen = "Enabled"
       THEN Ap(up, "Active") /\ Goto("listen") /\ UNCHANGED <<page, share, site>>
       ELSE IF ~ok /\ seen = "Disabled"
       THEN Ap(up, "Inactive") /\ StartFails("Failed")
       ELSE \E off, down \in BOOLEAN : \E last \in Reads(up /\ ~down) :
              IF off /\ last = "Disabled"
              THEN Ap(up /\ ~down, "Inactive") /\ StartFails("Failed")
              ELSE Ap(up /\ ~down, "StopRetryRequired") /\ StartFails("Debt")
  BY DEF StartAp
<1>3. PICK seen \in Reads(up) :
       \/ Ap(ap.on, "StopRetryRequired") /\ StartFails("Debt")
       \/ Ap(ap.on, "Inactive") /\ StartFails("Failed")
       \/ seen = "Enabled" /\ Ap(up, "Active") /\ Goto("listen") /\ UNCHANGED <<page, share, site>>
       \/ seen = "Disabled" /\ Ap(up, "Inactive") /\ StartFails("Failed")
       \/ \E off, down \in BOOLEAN : \E last \in Reads(up /\ ~down) :
            \/ last = "Disabled" /\ Ap(up /\ ~down, "Inactive") /\ StartFails("Failed")
            \/ Ap(up /\ ~down, "StopRetryRequired") /\ StartFails("Debt")
  BY <1>2
<1>4. \/ \E result \in {"Debt", "Failed"} :
            /\ StartFails(result) /\ ap' \in ApSet
            /\ result = "Failed" => ~ap'.on
            /\ result = "Debt" => ap'.state = "StopRetryRequired"
      \/ /\ Goto("listen") /\ UNCHANGED <<page, share, site>>
         /\ ap' \in ApSet /\ ap'.on /\ ap'.state = "Active"
  <2>1. \A on \in BOOLEAN, state \in {"Inactive", "Active", "StopRetryRequired"} :
          Ap(on, state) => ap' \in ApSet /\ (ap'.on <=> on) /\ ap'.state = state
    BY DEF Ap, ApSet
  <2>2. ap.on = FALSE /\ (seen = "Enabled" => up) /\ (seen = "Disabled" => ~up)
    BY <1>1, <1>3 DEF Reads, ApSet
  <2>3. ASSUME NEW off \in BOOLEAN, NEW down \in BOOLEAN, NEW last \in Reads(up /\ ~down)
        PROVE  (up /\ ~down) \in BOOLEAN /\ (last = "Disabled" => ~(up /\ ~down))
    BY <2>3, ReadsTrue
  <2> QED
    BY <1>3, <2>1, <2>2, <2>3
<1>5. ASSUME NEW result \in {"Debt", "Failed"}, StartFails(result), ap' \in ApSet,
             result = "Failed" => ~ap'.on, result = "Debt" => ap'.state = "StopRetryRequired"
      PROVE  NetInv' /\ JobInv' /\ StepInv' /\ DebtInv' /\ ServingInv'
  BY <1>1, <1>5, FailedStartKeeps DEF StartFails, StartAp
<1>6. ASSUME Goto("listen"), UNCHANGED <<page, share, site>>,
             ap' \in ApSet, ap'.on, ap'.state = "Active"
      PROVE  NetInv' /\ JobInv' /\ StepInv' /\ DebtInv' /\ ServingInv'
  <2>1. task' = [task EXCEPT !.at = "listen"] /\ UNCHANGED <<below, rec, ack, relay, srv, d2b>>
    BY <1>6 DEF Goto, StartAp
  <2> USE DEF Fields, At, Goto, Call, Rest, Idle, Routes, OwnerOf, Session, NoSite, Starts,
    Stops, Exits, NoServer, StoppedLife, Live, QrStates, network, TaskSet, ShareSet, ApSet,
    SrvSet, SiteSet, LifeType, NetInv, JobInv, StepInv, DebtInv, ServingInv, AckMeansClean
  <2>2. NetInv'
    BY <1>a, <1>1, <1>6, <2>1
  <2>3. JobInv'
    BY <1>a, <1>1, <1>6, <2>1
  <2>4. StepInv'
    BY <1>a, <1>1, <1>6, <2>1
  <2>5. DebtInv'
    BY <1>a, <1>1, <1>6, <2>1
  <2>6. ServingInv'
    BY <1>a, <1>1, <1>6, <2>1
  <2> QED
    BY <2>2, <2>3, <2>4, <2>5, <2>6
<1> QED
  BY <1>4, <1>5, <1>6

(* The AP of a server that did not start goes, or its stop is owed.        *)
LEMMA UndoApKeeps ==
  ASSUME Invariant, UndoAp
  PROVE  NetInv' /\ JobInv' /\ StepInv' /\ DebtInv' /\ ServingInv'
<1>a. Fields /\ NetInv /\ JobInv /\ StepInv /\ DebtInv /\ ServingInv
  BY TypeByFields DEF Invariant
<1>1. task.at = "apUndo" /\ task.job \in Starts /\ srv.runs = "none" /\ ap \in ApSet
  BY <1>a DEF UndoAp, At, JobInv, StepInv, Fields, TaskSet, Starts, Stops, Exits
<1>2. PICK stopped \in BOOLEAN : StopAp(stopped) /\ StartFails(IF stopped THEN "Failed" ELSE "Debt")
  BY DEF UndoAp
<1> DEFINE result == IF stopped THEN "Failed" ELSE "Debt"
<1>3. /\ result \in {"Debt", "Failed"} /\ ap' \in ApSet
      /\ result = "Failed" => ~ap'.on
      /\ result = "Debt" => ap'.state = "StopRetryRequired"
  BY <1>1, <1>2, StopApResult
<1>4. StartEnds(task.job, result) /\ site' = Unselected
  BY <1>2 DEF StartFails
<1> QED
  BY <1>1, <1>3, <1>4, FailedStartKeeps DEF UndoAp

(* The AP of a server that is gone goes, or its stop is owed.              *)
LEMMA ApDownKeeps ==
  ASSUME Invariant, ApDown
  PROVE  NetInv' /\ JobInv' /\ StepInv' /\ DebtInv' /\ ServingInv'
<1>a. Fields /\ NetInv /\ JobInv /\ StepInv /\ DebtInv /\ ServingInv
  BY TypeByFields DEF Invariant
<1>1. task.at = "apDown" /\ task.job \in Stops \cup Exits /\ srv.runs = "none" /\ ap \in ApSet /\ Fields
  BY <1>a DEF ApDown, At, JobInv, StepInv, Fields, TaskSet, Starts, Stops, Exits
<1>2. PICK stopped \in BOOLEAN : StopAp(stopped) /\ JobEnds(stopped)
  BY DEF ApDown
<1>3. /\ ap' \in ApSet /\ (stopped => ~ap'.on) /\ (~stopped => ap'.state = "StopRetryRequired")
  BY <1>1, <1>2, StopApResult
<1>4. CASE task.job = "undo"
  <2> DEFINE result == IF stopped THEN "Failed" ELSE "Debt"
  <2>1. StartEnds(task.job, result) /\ rec' = rec /\ ack' = ack
    BY <1>2, <1>4 DEF JobEnds, StopEnds, Exits
  <2>2. /\ result \in {"Debt", "Failed"} /\ (result = "Failed" => ~ap'.on)
        /\ (result = "Debt" => ap'.state = "StopRetryRequired")
    BY <1>3
  <2>3. UNCHANGED <<below, rec, ack, relay, srv, d2b>> /\ site' = Unselected
    BY <2>1 DEF ApDown
  <2> QED
    BY <1>1, <1>3, <1>4, <2>1, <2>2, <2>3, FailedStartKeeps
<1>5. CASE task.job # "undo"
  <2>1. /\ task' = Rest
        /\ task.job = "finish" => page' = page /\ share'.state = (IF stopped THEN "Inactive" ELSE "StopRecovery")
        /\ task.job = "endConfig" =>
              page' = (IF stopped THEN "network" ELSE "recovery") /\ share' = share
        /\ task.job = "endDownload" => page' = "launcher" /\ share' = share
        /\ task.job \in Exits =>
              share'.state = "Inactive" /\ page' = (IF task.job = "exit" THEN "launcher" ELSE page)
        /\ share' \in ShareSet /\ ack' \in BOOLEAN /\ rec' \in Recorders
        /\ ack' => (rec' = rec /\ ack) \/ (task.job = "fault" /\ stopped /\ ~relay /\ rec' = "Fault")
    BY <1>1, <1>2, <1>5, JobEnded DEF Stops
  <2>2. /\ site'.routes = {} /\ ~site'.profile /\ ~site'.qr /\ ~site'.admit /\ ~site'.record
        /\ d2b = StoppedLife
    BY <1>a, <1>1, RoutesOf DEF ApDown, Unselected, NetInv, ServingInv, JobInv, Fields,
      SiteSet, Idle, Stops, Exits
  <2>3. UNCHANGED <<below, relay, srv, d2b>>
    BY DEF ApDown
  <2> USE DEF Fields, At, Goto, Call, Rest, Idle, OwnerOf, Session, NoSite, Starts, Stops,
    Exits, NoServer, StoppedLife, Live, QrStates, network, TaskSet, ShareSet, ApSet,
    SrvSet, SiteSet, LifeType, NetInv, JobInv, StepInv, DebtInv, ServingInv, AckMeansClean
  <2>4. NetInv'
    BY <1>a, <1>1, <1>3, <1>5, <2>1, <2>2, <2>3, RoutesOf
  <2>5. JobInv'
    BY <1>a, <1>1, <1>3, <1>5, <2>1, <2>2, <2>3, RoutesOf
  <2>6. StepInv'
    BY <1>a, <1>1, <1>3, <1>5, <2>1, <2>2, <2>3, RoutesOf
  <2>7. DebtInv'
    BY <1>a, <1>1, <1>3, <1>5, <2>1, <2>2, <2>3, RoutesOf
  <2>8. ServingInv'
    BY <1>a, <1>1, <1>3, <1>5, <2>1, <2>2, <2>3, RoutesOf
  <2> QED
    BY <2>4, <2>5, <2>6, <2>7, <2>8
<1> QED
  BY <1>4, <1>5

(* The display profile and the viewer routes, or the rollback.             *)
LEMMA RegisterViewerKeeps ==
  ASSUME Invariant, RegisterViewer
  PROVE  NetInv' /\ JobInv' /\ StepInv' /\ DebtInv' /\ ServingInv'
<1>a. Fields /\ NetInv /\ JobInv /\ StepInv /\ DebtInv /\ ServingInv
  BY TypeByFields DEF Invariant
<1>1. task.at = "viewer" /\ task.job = "live" /\ srv.runs = "live" /\ site.routes = {} /\ site \in SiteSet
  BY <1>a DEF RegisterViewer, At, JobInv, StepInv, Fields
<1>2. \/ /\ site' \in SiteSet /\ site'.profile /\ site'.routes = {"viewer"}
         /\ site'.qr = site.qr /\ site'.admit = site.admit /\ site'.record = site.record
         /\ task' = [task EXCEPT !.at = "d2b"] /\ d2b' = d2b
      \/ /\ site' \in SiteSet /\ site'.profile = site.profile /\ site'.routes = {}
         /\ ~site'.qr /\ site'.admit = site.admit /\ site'.record = site.record
         /\ task' = [job |-> "undo", at |-> "close"] /\ d2b' = d2b
  <2>1. CASE /\ site' = [site EXCEPT !.profile = TRUE, !.routes = @ \cup {"viewer"}]
             /\ Goto("d2b") /\ UNCHANGED d2b
    <3>1. {} \cup {"viewer"} = {"viewer"} /\ {"viewer"} \in SUBSET {"viewer", "d2b", "config", "download"}
      OBVIOUS
    <3> QED
      BY <1>1, <2>1, <3>1 DEF SiteSet, Goto
  <2>2. CASE Rollback
    BY <1>1, <2>2 DEF Rollback, SiteSet, Call
  <2> QED
    BY <2>1, <2>2 DEF RegisterViewer, AfterViewer
<1>3. UNCHANGED <<page, below, rec, ack, share, relay, ap, srv>>
  BY DEF RegisterViewer
<1> USE DEF Fields, At, Goto, Call, Rest, Idle, OwnerOf, Session, NoSite, Starts, Stops,
  Exits, NoServer, StoppedLife, Live, QrStates, network, TaskSet, ShareSet, ApSet, SrvSet,
  SiteSet, LifeType, NetInv, JobInv, StepInv, DebtInv, ServingInv, AckMeansClean
<1>4. NetInv'
  BY <1>a, <1>1, <1>2, <1>3, RoutesOf
<1>5. JobInv'
  BY <1>a, <1>1, <1>2, <1>3, RoutesOf
<1>6. StepInv'
  BY <1>a, <1>1, <1>2, <1>3, RoutesOf
<1>7. DebtInv'
  BY <1>a, <1>1, <1>2, <1>3, RoutesOf
<1>8. ServingInv'
  BY <1>a, <1>1, <1>2, <1>3, RoutesOf
<1> QED
  BY <1>4, <1>5, <1>6, <1>7, <1>8

(* Admission opens last, with the QR data, or the rollback.                *)
LEMMA ArmKeeps ==
  ASSUME Invariant, Arm
  PROVE  NetInv' /\ JobInv' /\ StepInv' /\ DebtInv' /\ ServingInv'
<1>a. Fields /\ NetInv /\ JobInv /\ StepInv /\ DebtInv /\ ServingInv
  BY TypeByFields DEF Invariant
<1>1. task.at = "arm" /\ task.job = "live" /\ srv.runs = "live" /\ site \in SiteSet /\ share \in ShareSet
      /\ site.routes = Routes("live") /\ d2b.phase = "Running" /\ ~srv.retained
  BY <1>a DEF Arm, At, JobInv, StepInv, Fields
<1>2. \/ /\ site' \in SiteSet /\ site'.qr /\ site'.admit
         /\ share' \in ShareSet /\ share'.state = "WifiQr"
         /\ task' = Rest
      \/ /\ site' \in SiteSet /\ ~site'.qr /\ site'.admit = site.admit
         /\ share' = share
         /\ task' = [job |-> "undo", at |-> "close"]
  BY <1>1 DEF Arm, StartEnds, Rollback, SiteSet, ShareSet, ShareStates, Call
<1>3. UNCHANGED <<page, below, rec, ack, relay, ap, srv, d2b>>
      /\ site'.routes = site.routes /\ site'.profile = site.profile /\ site'.record = site.record
  BY <1>1 DEF Arm, StartEnds, Rollback, SiteSet
<1>4. site.record <=> "download" \in site.routes
  BY <1>a, <1>1 DEF ServingInv, Starts
<1> USE DEF Fields, At, Goto, Call, Rest, Idle, OwnerOf, Session, NoSite, Starts, Stops,
  Exits, NoServer, StoppedLife, Live, QrStates, network, TaskSet, ShareSet, ApSet, SrvSet,
  SiteSet, LifeType, NetInv, JobInv, StepInv, DebtInv, ServingInv, AckMeansClean
<1>5. NetInv'
  BY <1>a, <1>1, <1>2, <1>3, <1>4, RoutesOf
<1>6. JobInv'
  BY <1>a, <1>1, <1>2, <1>3, <1>4, RoutesOf
<1>7. StepInv'
  BY <1>a, <1>1, <1>2, <1>3, <1>4, RoutesOf
<1>8. DebtInv'
  BY <1>a, <1>1, <1>2, <1>3, <1>4, RoutesOf
<1>9. ServingInv'
  BY <1>a, <1>1, <1>2, <1>3, <1>4, RoutesOf
<1> QED
  BY <1>5, <1>6, <1>7, <1>8, <1>9

(* A server comes, none comes, or one that would not stop is retained.     *)
LEMMA ListenKeeps ==
  ASSUME Invariant, Listen
  PROVE  NetInv' /\ JobInv' /\ StepInv' /\ DebtInv' /\ ServingInv'
<1>a. Fields /\ NetInv /\ JobInv /\ StepInv /\ DebtInv /\ ServingInv
  BY TypeByFields DEF Invariant
<1>1. /\ task.at = "listen" /\ task.job \in Starts /\ srv.runs = "none" /\ Fields
      /\ ap.on /\ ap.state # "Inactive" /\ d2b = StoppedLife
      /\ site.routes = {} /\ ~site.profile /\ ~site.qr /\ ~site.admit
  BY <1>a, RoutesOf DEF Listen, At, JobInv, StepInv, NetInv, ServingInv, Fields, SiteSet,
    TaskSet, Starts, Stops, Exits, Idle
<1>2. NextGen \in 1..GenMax /\ NextGen # 0
  BY <1>1, GenAssumption DEF NextGen, Fields, SrvSet
<1>3. UNCHANGED <<below, rec, ack, relay, ap, d2b>>
  BY DEF Listen
<1>4. CASE /\ srv' = [owner |-> OwnerOf(task.job), retained |-> FALSE, gen |-> NextGen, runs |-> task.job]
           /\ task.job = "live" /\ Goto("viewer") /\ UNCHANGED <<page, share, site>>
  <2> USE DEF Fields, At, Goto, Call, Rest, Idle, OwnerOf, Session, NoSite, Starts, Stops,
    Exits, NoServer, StoppedLife, Live, QrStates, network, TaskSet, ShareSet, ApSet,
    SrvSet, SiteSet, LifeType, NetInv, JobInv, StepInv, DebtInv, ServingInv, AckMeansClean
  <2>1. NetInv'
    BY <1>a, <1>1, <1>2, <1>3, <1>4, RoutesOf
  <2>2. JobInv'
    BY <1>a, <1>1, <1>2, <1>3, <1>4, RoutesOf
  <2>3. StepInv'
    BY <1>a, <1>1, <1>2, <1>3, <1>4, RoutesOf
  <2>4. DebtInv'
    BY <1>a, <1>1, <1>2, <1>3, <1>4, RoutesOf
  <2>5. ServingInv'
    BY <1>a, <1>1, <1>2, <1>3, <1>4, RoutesOf
  <2> QED
    BY <2>1, <2>2, <2>3, <2>4, <2>5
<1>5. CASE /\ srv' = [owner |-> OwnerOf(task.job), retained |-> FALSE, gen |-> NextGen, runs |-> task.job]
           /\ task.job # "live" /\ site' = [site EXCEPT !.routes = Routes(task.job)]
           /\ StartEnds(task.job, "Started")
  <2>1. /\ task' = Rest /\ share' = share
        /\ page' = (IF task.job = "config" THEN "configuring" ELSE "downloading")
    BY <1>1, <1>5 DEF StartEnds, Starts
  <2>2. site' = [site EXCEPT !.routes = Routes(task.job)] /\ site.record = (task.job = "download")
    BY <1>a, <1>1, <1>5 DEF ServingInv, Starts, Fields, SiteSet
  <2>3. /\ site'.routes = Routes(task.job) /\ ~site'.profile /\ ~site'.qr /\ ~site'.admit
        /\ site'.record = (task.job = "download")
    BY <1>1, <2>2 DEF Fields, SiteSet
  <2> USE DEF Fields, At, Goto, Call, Rest, Idle, OwnerOf, Session, NoSite, Starts, Stops,
    Exits, NoServer, StoppedLife, Live, QrStates, network, TaskSet, ShareSet, ApSet,
    SrvSet, SiteSet, LifeType, NetInv, JobInv, StepInv, DebtInv, ServingInv, AckMeansClean
  <2>4. NetInv'
    BY <1>a, <1>1, <1>2, <1>3, <1>5, <2>1, <2>3, RoutesOf
  <2>5. JobInv'
    BY <1>a, <1>1, <1>2, <1>3, <1>5, <2>1, <2>3, RoutesOf
  <2>6. StepInv'
    BY <1>a, <1>1, <1>2, <1>3, <1>5, <2>1, <2>3, RoutesOf
  <2>7. DebtInv'
    BY <1>a, <1>1, <1>2, <1>3, <1>5, <2>1, <2>3, RoutesOf
  <2>8. ServingInv'
    BY <1>a, <1>1, <1>2, <1>3, <1>5, <2>1, <2>3, RoutesOf
  <2> QED
    BY <2>4, <2>5, <2>6, <2>7, <2>8
<1>6. CASE /\ srv' = [srv EXCEPT !.retained = FALSE, !.gen = NextGen]
           /\ site' = Unselected /\ Goto("apUndo") /\ UNCHANGED <<page, share>>
  <2>1. /\ site'.routes = {} /\ ~site'.profile /\ ~site'.qr /\ ~site'.admit /\ ~site'.record
    BY <1>a, <1>1, <1>6 DEF Unselected, ServingInv, Fields, SiteSet, Starts
  <2> USE DEF Fields, At, Goto, Call, Rest, Idle, OwnerOf, Session, NoSite, Starts, Stops,
    Exits, NoServer, StoppedLife, Live, QrStates, network, TaskSet, ShareSet, ApSet,
    SrvSet, SiteSet, LifeType, NetInv, JobInv, StepInv, DebtInv, ServingInv, AckMeansClean
  <2>2. NetInv'
    BY <1>a, <1>1, <1>2, <1>3, <1>6, <2>1, RoutesOf
  <2>3. JobInv'
    BY <1>a, <1>1, <1>2, <1>3, <1>6, <2>1, RoutesOf
  <2>4. StepInv'
    BY <1>a, <1>1, <1>2, <1>3, <1>6, <2>1, RoutesOf
  <2>5. DebtInv'
    BY <1>a, <1>1, <1>2, <1>3, <1>6, <2>1, RoutesOf
  <2>6. ServingInv'
    BY <1>a, <1>1, <1>2, <1>3, <1>6, <2>1, RoutesOf
  <2> QED
    BY <2>2, <2>3, <2>4, <2>5, <2>6
<1>7. CASE /\ srv' = [owner |-> OwnerOf(task.job), retained |-> TRUE, gen |-> NextGen, runs |-> task.job]
           /\ site' = Unselected /\ StartEnds(task.job, "Debt")
  <2>1. /\ site'.routes = {} /\ ~site'.profile /\ ~site'.qr /\ ~site'.admit /\ ~site'.record
    BY <1>a, <1>1, <1>7 DEF Unselected, ServingInv, Fields, SiteSet, Starts
  <2>2. /\ task.job = "live" =>
              /\ page' = page /\ share' \in ShareSet
              /\ share'.state = "StopRecovery" /\ task' = [job |-> "finish", at |-> "close"]
        /\ task.job = "config" => page' = "recovery" /\ share' = share /\ task' = Rest
        /\ task.job = "download" => page' = page /\ share' = share /\ task' = Rest
    BY <1>1, <1>7, StartFailed DEF Fields
  <2> USE DEF Fields, At, Goto, Call, Rest, Idle, OwnerOf, Session, NoSite, Starts, Stops,
    Exits, NoServer, StoppedLife, Live, QrStates, network, TaskSet, ShareSet, ApSet,
    SrvSet, SiteSet, LifeType, NetInv, JobInv, StepInv, DebtInv, ServingInv, AckMeansClean
  <2>3. NetInv'
    BY <1>a, <1>1, <1>2, <1>3, <1>7, <2>1, <2>2, RoutesOf
  <2>4. JobInv'
    BY <1>a, <1>1, <1>2, <1>3, <1>7, <2>1, <2>2, RoutesOf
  <2>5. StepInv'
    BY <1>a, <1>1, <1>2, <1>3, <1>7, <2>1, <2>2, RoutesOf
  <2>6. DebtInv'
    BY <1>a, <1>1, <1>2, <1>3, <1>7, <2>1, <2>2, RoutesOf
  <2>7. ServingInv'
    BY <1>a, <1>1, <1>2, <1>3, <1>7, <2>1, <2>2, RoutesOf
  <2> QED
    BY <2>3, <2>4, <2>5, <2>6, <2>7
<1> QED
  BY <1>4, <1>5, <1>6, <1>7 DEF Listen, NoServerStarted, StartFails

(* A stop that ends while its server still runs, or while another does.    *)
LEMMA StopGivenUp ==
  ASSUME Invariant, task.job \in Stops \cup Exits, task.at \in {"close", "httpd"}, JobEnds(FALSE),
         NEW retained \in BOOLEAN, srv' = [srv EXCEPT !.retained = retained],
         srv.runs # "none",
         retained \/ (srv.owner # OwnerOf(task.job) /\ retained = srv.retained),
         d2b' = d2b \/ (d2b.phase = "PreStopping" /\ d2b' = [d2b EXCEPT !.phase = "StopFailed"]),
         d2b'.phase # "PreStopping",
         UNCHANGED <<below, relay, ap, site>>
  PROVE  NetInv' /\ JobInv' /\ StepInv' /\ DebtInv' /\ ServingInv'
<1>a. Fields /\ NetInv /\ JobInv /\ StepInv /\ DebtInv /\ ServingInv
  BY TypeByFields DEF Invariant
<1>1. /\ task.job = "undo" =>
            /\ page' = page /\ rec' = rec /\ ack' = ack
            /\ share'.state = "StopRecovery" /\ task' = [job |-> "finish", at |-> "close"]
      /\ task.job = "finish" =>
            page' = page /\ rec' = rec /\ ack' = ack /\ task' = Rest /\ share'.state = "StopRecovery"
      /\ task.job = "endConfig" =>
            page' = "recovery" /\ rec' = rec /\ ack' = ack /\ task' = Rest /\ share' = share
      /\ task.job = "endDownload" =>
            page' = "launcher" /\ rec' = rec /\ ack' = ack /\ task' = Rest /\ share' = share
      /\ task.job \in Exits =>
            /\ task' = Rest /\ share'.state = "Inactive"
            /\ page' = (IF task.job = "exit" THEN "launcher" ELSE page)
            /\ ~ack'
      /\ share' \in ShareSet /\ rec' \in Recorders /\ ack' \in BOOLEAN
  BY <1>a, JobEnded
<1> USE DEF Fields, At, Goto, Call, Rest, Idle, OwnerOf, Session, NoSite, Starts, Stops,
  Exits, NoServer, StoppedLife, Live, QrStates, network, TaskSet, ShareSet, ApSet, SrvSet,
  SiteSet, LifeType, NetInv, JobInv, StepInv, DebtInv, ServingInv, AckMeansClean
<1>2. NetInv'
  BY <1>a, <1>1, RoutesOf
<1>3. JobInv'
  BY <1>a, <1>1, RoutesOf
<1>4. StepInv'
  BY <1>a, <1>1, RoutesOf
<1>5. DebtInv'
  BY <1>a, <1>1, RoutesOf
<1>6. ServingInv'
  BY <1>a, <1>1, RoutesOf
<1> QED
  BY <1>2, <1>3, <1>4, <1>5, <1>6

(* The close: of nothing, of another server, of its own.                   *)
LEMMA CloseServerKeeps ==
  ASSUME Invariant, CloseServer
  PROVE  NetInv' /\ JobInv' /\ StepInv' /\ DebtInv' /\ ServingInv'
<1>a. Fields /\ NetInv /\ JobInv /\ StepInv /\ DebtInv /\ ServingInv
  BY TypeByFields DEF Invariant
<1>1. task.at = "close" /\ task.job \in Stops \cup Exits /\ Fields
  BY <1>a DEF CloseServer, At, JobInv, Fields, TaskSet, Starts, Stops, Exits
<1>2. UNCHANGED <<below, relay, ap, srv>>
  BY DEF CloseServer
<1>3. CASE srv.owner = "None"
  <2>1. srv.owner # OwnerOf(task.job) /\ Goto("apDown") /\ UNCHANGED <<page, share, rec, ack, site, d2b>>
    BY <1>3 DEF CloseServer, OwnerOf
  <2> USE DEF Fields, At, Goto, Call, Rest, Idle, Routes, OwnerOf, Session, NoSite, Starts,
    Stops, Exits, NoServer, StoppedLife, Live, QrStates, network, TaskSet, ShareSet, ApSet,
    SrvSet, SiteSet, LifeType, NetInv, JobInv, StepInv, DebtInv, ServingInv, AckMeansClean
  <2>2. NetInv'
    BY <1>a, <1>1, <1>2, <1>3, <2>1
  <2>3. JobInv'
    BY <1>a, <1>1, <1>2, <1>3, <2>1
  <2>4. StepInv'
    BY <1>a, <1>1, <1>2, <1>3, <2>1
  <2>5. DebtInv'
    BY <1>a, <1>1, <1>2, <1>3, <2>1
  <2>6. ServingInv'
    BY <1>a, <1>1, <1>2, <1>3, <2>1
  <2> QED
    BY <2>2, <2>3, <2>4, <2>5, <2>6
<1>4. CASE srv.owner # "None" /\ srv.owner # OwnerOf(task.job)
  <2>1. JobEnds(FALSE) /\ UNCHANGED <<site, d2b>>
    BY <1>4 DEF CloseServer
  <2>2. /\ srv.retained \in BOOLEAN /\ srv' = [srv EXCEPT !.retained = srv.retained]
        /\ srv.runs # "none" /\ d2b'.phase # "PreStopping"
    BY <1>a, <1>1, <1>2, <1>4, <2>1 DEF NetInv, StepInv, Fields, SrvSet
  <2> QED
    BY <1>1, <1>2, <1>4, <2>1, <2>2, StopGivenUp
<1>5. CASE srv.owner = OwnerOf(task.job)
  <2>1. /\ site' = [site EXCEPT !.admit = FALSE]
        /\ d2b' = IF task.job \in Stops \ {"endDownload"} THEN BeginStop(d2b, srv.gen) ELSE d2b
        /\ Goto("httpd")
        /\ UNCHANGED <<page, share, rec, ack>>
    BY <1>5 DEF CloseServer
  <2>2. /\ d2b' \in LifeType(1..GenMax) /\ d2b'.server = d2b.server
        /\ d2b.phase = "Stopped" => d2b' = d2b
        /\ d2b.phase # "Stopped" => d2b'.phase = "PreStopping"
    <3>1. d2b.phase # "PreStopping" /\ (d2b.phase # "Stopped" => srv.runs = "live" /\ Matches(d2b, srv.gen))
      BY <1>a, <1>1 DEF NetInv, StepInv, Matches, StoppedLife
    <3>2. srv.runs = "live" => task.job \in Stops \ {"endDownload"}
      <4>1. srv.runs = "live" => task.job \notin Exits
        BY <1>a DEF JobInv, DebtInv
      <4>2. srv.runs = "live" => task.job # "endDownload"
        BY <1>a, <1>5 DEF NetInv, OwnerOf
      <4> QED
        BY <1>1, <4>1, <4>2
    <3> QED
      BY <1>1, <2>1, <3>1, <3>2 DEF BeginStop, Fields, LifeType, Phases
  <2>3. site' \in SiteSet /\ site'.routes = site.routes /\ site'.profile = site.profile
        /\ site'.qr = site.qr /\ ~site'.admit /\ site'.record = site.record
    BY <1>1, <2>1 DEF Fields, SiteSet
  <2> USE DEF Fields, At, Goto, Call, Rest, Idle, Routes, OwnerOf, Session, NoSite, Starts,
    Stops, Exits, NoServer, StoppedLife, Live, QrStates, network, TaskSet, ShareSet, ApSet,
    SrvSet, SiteSet, LifeType, NetInv, JobInv, StepInv, DebtInv, ServingInv, AckMeansClean
  <2>4. NetInv'
    BY <1>a, <1>1, <1>2, <1>5, <2>1, <2>2, <2>3
  <2>5. JobInv'
    BY <1>a, <1>1, <1>2, <1>5, <2>1, <2>2, <2>3
  <2>6. StepInv'
    BY <1>a, <1>1, <1>2, <1>5, <2>1, <2>2, <2>3
  <2>7. DebtInv'
    BY <1>a, <1>1, <1>2, <1>5, <2>1, <2>2, <2>3
  <2>8. ServingInv'
    BY <1>a, <1>1, <1>2, <1>5, <2>1, <2>2, <2>3
  <2> QED
    BY <2>4, <2>5, <2>6, <2>7, <2>8
<1> QED
  BY <1>3, <1>4, <1>5 DEF OwnerOf

(* The server is retained, or it is gone with all it brought.              *)
LEMMA StopHttpdKeeps ==
  ASSUME Invariant, StopHttpd
  PROVE  NetInv' /\ JobInv' /\ StepInv' /\ DebtInv' /\ ServingInv'
<1>a. Fields /\ NetInv /\ JobInv /\ StepInv /\ DebtInv /\ ServingInv
  BY TypeByFields DEF Invariant
<1>1. /\ task.at = "httpd" /\ task.job \in Stops \cup Exits /\ Fields
      /\ srv.owner = OwnerOf(task.job) /\ srv.runs # "none"
      /\ d2b.phase \in {"PreStopping", "Stopped"}
  BY <1>a DEF StopHttpd, At, JobInv, StepInv, NetInv, Fields, TaskSet, Starts, Stops,
    Exits, OwnerOf
<1>2. UNCHANGED <<below, relay, ap>>
  BY DEF StopHttpd
<1>3. /\ d2b.phase = "PreStopping" => srv.owner = "System" /\ Matches(d2b, srv.gen)
      /\ d2b.phase = "Stopped" => d2b = StoppedLife
  BY <1>a, <1>1 DEF NetInv, Matches, NoServer, Fields, SrvSet, StoppedLife
<1>4. CASE /\ srv' = [srv EXCEPT !.retained = TRUE]
           /\ d2b' = IF srv.owner = "System" THEN StopFailure(d2b, srv.gen) ELSE d2b
           /\ JobEnds(FALSE) /\ UNCHANGED site
  <2>1. /\ d2b' = d2b \/ (d2b.phase = "PreStopping" /\ d2b' = [d2b EXCEPT !.phase = "StopFailed"])
        /\ d2b'.phase # "PreStopping"
    BY <1>1, <1>3, <1>4 DEF StopFailure, Fields, LifeType
  <2> QED
    BY <1>1, <1>2, <1>4, <2>1, StopGivenUp
<1>5. CASE /\ srv' = [srv EXCEPT !.owner = "None", !.retained = FALSE, !.runs = "none"]
           /\ d2b' = IF srv.owner = "System" THEN StopSuccess(d2b, srv.gen) ELSE d2b
           /\ site' = SiteStopped /\ Goto("apDown")
           /\ UNCHANGED <<page, share, rec, ack>>
  <2>1. d2b' = StoppedLife
    BY <1>1, <1>3, <1>5 DEF StopSuccess
  <2>2. /\ site'.routes = {} /\ site' \in SiteSet
        /\ ~site'.profile /\ ~site'.qr /\ ~site'.admit
        /\ site'.record = (srv.owner # "System" /\ site.record)
    BY <1>a, <1>1, <1>5 DEF SiteStopped, NoSite, NetInv, ServingInv, Fields, SiteSet,
      OwnerOf, Idle, Stops, Exits
  <2>3. srv.owner # "System" => srv.runs = "download" /\ task.job = "endDownload"
    BY <1>a, <1>1 DEF NetInv, OwnerOf, Stops, Exits, Fields, SrvSet
  <2>4. task.job = "endDownload" => site.record
    BY <1>a, <1>1, RoutesOf DEF ServingInv, JobInv
  <2> USE DEF Fields, At, Goto, Call, Rest, Idle, OwnerOf, Session, NoSite, Starts, Stops,
    Exits, NoServer, StoppedLife, Live, QrStates, network, TaskSet, ShareSet, ApSet,
    SrvSet, SiteSet, LifeType, NetInv, JobInv, StepInv, DebtInv, ServingInv, AckMeansClean
  <2>5. NetInv'
    BY <1>a, <1>1, <1>2, <1>5, <2>1, <2>2, <2>3, <2>4, RoutesOf
  <2>6. JobInv'
    BY <1>a, <1>1, <1>2, <1>5, <2>1, <2>2, <2>3, <2>4, RoutesOf
  <2>7. StepInv'
    BY <1>a, <1>1, <1>2, <1>5, <2>1, <2>2, <2>3, <2>4, RoutesOf
  <2>8. DebtInv'
    BY <1>a, <1>1, <1>2, <1>5, <2>1, <2>2, <2>3, <2>4, RoutesOf
  <2>9. ServingInv'
    BY <1>a, <1>1, <1>2, <1>5, <2>1, <2>2, <2>3, <2>4, RoutesOf
  <2> QED
    BY <2>5, <2>6, <2>7, <2>8, <2>9
<1> QED
  BY <1>4, <1>5 DEF StopHttpd, StopFailed

(* A start that is refused before it touched anything, or that begins.     *)
LEMMA StartBegins ==
  ASSUME Invariant, NEW job \in Starts, Idle, BeginStart(job),
         job = "live" => page = "waveform" /\ share.state = "Inactive",
         job = "live" => rec = "Idle",
         job = "config" => page = "network", job = "download" => page = "launcher"
  PROVE  NetInv' /\ JobInv' /\ StepInv' /\ DebtInv' /\ ServingInv'
<1>a. Fields /\ NetInv /\ JobInv /\ StepInv /\ DebtInv /\ ServingInv
  BY TypeByFields DEF Invariant
<1>1. /\ relay' = (relay /\ job # "config") /\ relay' \in BOOLEAN
      /\ UNCHANGED <<below, rec, ack, srv, d2b>>
  BY <1>a DEF BeginStart, Fields
<1>2. share.state = "Inactive" /\ ~site.admit /\ site \in SiteSet /\ share \in ShareSet /\ ap \in ApSet
      /\ ~ack
  BY <1>a DEF JobInv, ServingInv, DebtInv, Fields, Starts, QrStates
<1>3. PICK read \in Reads(ap.on) :
       \/ /\ read = "Disabled" /\ Preflight(OwnerOf(job)) = "Proceed"
          /\ Ap(ap.on, "Inactive")
          /\ site' = [site EXCEPT !.qr = @ /\ job # "live", !.record = @ \/ job = "download"]
          /\ Call(job, "apUp")
          /\ share' = IF job = "live" THEN [share EXCEPT !.state = "Starting"] ELSE share
          /\ UNCHANGED page
       \/ \E result \in {"Debt", "Failed"} :
          /\ Ap(ap.on, IF read = "Disabled" THEN "Inactive" ELSE "StopRetryRequired")
          /\ site' = [site EXCEPT !.qr = @ /\ job # "live"]
          /\ StartEnds(job, result)
          /\ read = "Disabled" => result = Preflight(OwnerOf(job))
          /\ read # "Disabled" => result = "Debt"
  <2>1. Preflight(OwnerOf(job)) \in {"Proceed", "Debt", "Failed"}
    BY DEF Preflight
  <2> QED
    BY <2>1 DEF BeginStart
<1>4. read = "Disabled" => ~ap.on /\ srv.runs = "none" /\ Preflight(OwnerOf(job)) = "Proceed"
  <2>1. ap.on \in BOOLEAN
    BY <1>2 DEF ApSet
  <2>2. read = "Disabled" => ~ap.on
    BY <1>3, <2>1, ReadsTrue
  <2>3. ~ap.on => srv.runs = "none" /\ srv.owner = "None"
    BY <1>a DEF NetInv
  <2> QED
    BY <2>2, <2>3 DEF Preflight
<1>5. ASSUME read = "Disabled",
             Ap(ap.on, "Inactive"),
             site' = [site EXCEPT !.qr = @ /\ job # "live", !.record = @ \/ job = "download"],
             Call(job, "apUp"),
             share' = IF job = "live" THEN [share EXCEPT !.state = "Starting"] ELSE share,
             UNCHANGED page
      PROVE  NetInv' /\ JobInv' /\ StepInv' /\ DebtInv' /\ ServingInv'
  <2>1. ap' = [on |-> FALSE, state |-> "Inactive"]
    BY <1>4, <1>5, <1>2 DEF Ap, ApSet
  <2>2. /\ task' = [job |-> job, at |-> "apUp"]
        /\ share' \in ShareSet /\ share'.state = (IF job = "live" THEN "Starting" ELSE share.state)
    BY <1>2, <1>5 DEF Call, ShareSet, ShareStates
  <2>3. /\ site.routes = {} /\ ~site.profile /\ ~site.qr /\ ~site.record /\ d2b = StoppedLife
    BY <1>a, <1>4, <1>5, RoutesOf DEF NetInv, ServingInv, Idle, Starts, Fields, SiteSet
  <2>4. /\ site'.routes = {} /\ ~site'.profile /\ ~site'.qr /\ ~site'.admit
        /\ site'.record = (job = "download")
    BY <1>2, <1>5, <2>3 DEF SiteSet
  <2> USE DEF Fields, At, Goto, Call, Rest, Idle, OwnerOf, Session, NoSite, Starts, Stops,
    Exits, NoServer, StoppedLife, Live, QrStates, network, TaskSet, ShareSet, ApSet,
    SrvSet, SiteSet, LifeType
  <2>5. NetInv'
    BY <1>a, <1>1, <1>2, <1>4, <1>5, <2>1, <2>2, <2>3, <2>4, RoutesOf DEF NetInv, JobInv,
      StepInv, DebtInv, ServingInv, AckMeansClean
  <2>6. JobInv'
    BY <1>a, <1>1, <1>2, <1>4, <1>5, <2>1, <2>2, <2>3, <2>4, RoutesOf DEF NetInv, JobInv,
      StepInv, DebtInv, ServingInv, AckMeansClean
  <2>7. StepInv'
    BY <1>a, <1>1, <1>2, <1>4, <1>5, <2>1, <2>2, <2>3, <2>4, RoutesOf DEF NetInv, JobInv,
      StepInv, DebtInv, ServingInv, AckMeansClean
  <2>8. DebtInv'
    BY <1>a, <1>1, <1>2, <1>4, <1>5, <2>1, <2>2, <2>3, <2>4, RoutesOf DEF NetInv, JobInv,
      StepInv, DebtInv, ServingInv, AckMeansClean
  <2>d. page' \notin {"downloading", "configuring"} /\ ~Idle' /\ task'.job = job /\ task'.at = "apUp"
    BY <1>5, <2>2 DEF Idle, Starts
  <2>9. ServingInv'
    BY <2>d, <2>4, <1>5 DEF ServingInv, Starts, Idle
  <2> QED
    BY <2>5, <2>6, <2>7, <2>8, <2>9
<1>6. ASSUME NEW result \in {"Debt", "Failed"},
             ap' = [on |-> ap.on, state |-> "StopRetryRequired"],
             site' = [site EXCEPT !.qr = @ /\ job # "live"],
             StartEnds(job, result), result = "Debt"
      PROVE  NetInv' /\ JobInv' /\ StepInv' /\ DebtInv' /\ ServingInv'
  <2>1. /\ job = "live" =>
              /\ page' = page /\ share' \in ShareSet
              /\ share'.state = "StopRecovery" /\ task' = [job |-> "finish", at |-> "close"]
        /\ job = "config" => page' = "recovery" /\ share' = share /\ task' = Rest
        /\ job = "download" => page' = page /\ share' = share /\ task' = Rest
    BY <1>2, <1>6, StartFailed DEF Starts
  <2>2. /\ site' \in SiteSet /\ site'.routes = site.routes /\ site'.profile = site.profile
        /\ site'.record = site.record /\ ~site'.admit /\ (site'.qr => site.qr)
    BY <1>2, <1>6 DEF SiteSet
  <2> USE DEF Fields, At, Goto, Call, Rest, Idle, OwnerOf, Session, NoSite, Starts, Stops,
    Exits, NoServer, StoppedLife, Live, QrStates, network, TaskSet, ShareSet, ApSet,
    SrvSet, SiteSet, LifeType, NetInv, JobInv, StepInv, DebtInv, ServingInv, AckMeansClean
  <2>3. NetInv'
    BY <1>a, <1>1, <1>2, <1>6, <2>1, <2>2, RoutesOf
  <2>4. JobInv'
    BY <1>a, <1>1, <1>2, <1>6, <2>1, <2>2, RoutesOf
  <2>5. StepInv'
    BY <1>a, <1>1, <1>2, <1>6, <2>1, <2>2, RoutesOf
  <2>6. DebtInv'
    BY <1>a, <1>1, <1>2, <1>6, <2>1, <2>2, RoutesOf
  <2>7. ServingInv'
    BY <1>a, <1>1, <1>2, <1>6, <2>1, <2>2, RoutesOf
  <2> QED
    BY <2>3, <2>4, <2>5, <2>6, <2>7
<1> QED
  <2>1. ASSUME NEW result \in {"Debt", "Failed"},
               Ap(ap.on, IF read = "Disabled" THEN "Inactive" ELSE "StopRetryRequired"),
               read = "Disabled" => result = Preflight(OwnerOf(job)),
               read # "Disabled" => result = "Debt"
        PROVE  result = "Debt" /\ ap' = [on |-> ap.on, state |-> "StopRetryRequired"]
    BY <1>4, <2>1 DEF Ap
  <2> QED
    BY <1>3, <1>5, <1>6, <2>1

(* The waveform view starts a Live View from a resting session.            *)
LEMMA StartLiveViewKeeps ==
  ASSUME Invariant, StartLiveView
  PROVE  NetInv' /\ JobInv' /\ StepInv' /\ DebtInv' /\ ServingInv'
BY StartBegins DEF StartLiveView, InWaveform, Starts

(* The network page starts the configuration page, the relay open.         *)
LEMMA ConfigureViaWebKeeps ==
  ASSUME Invariant, ConfigureViaWeb
  PROVE  NetInv' /\ JobInv' /\ StepInv' /\ DebtInv' /\ ServingInv'
BY StartBegins DEF ConfigureViaWeb, InWaveform, Starts

(* The launcher's file page starts a download.                             *)
LEMMA StartDownloadKeeps ==
  ASSUME Invariant, StartDownload
  PROVE  NetInv' /\ JobInv' /\ StepInv' /\ DebtInv' /\ ServingInv'
BY StartBegins DEF StartDownload, InWaveform, Starts

(* The user goes from page to page where nothing is served.                *)
LEMMA PagesKeep ==
  ASSUME Invariant, ToggleRelay \/ OpenMonitor \/ OpenWaveform \/ OpenNetworkPage \/ LeaveNetworkPage
  PROVE  NetInv' /\ JobInv' /\ StepInv' /\ DebtInv' /\ ServingInv'
<1>a. Fields /\ NetInv /\ JobInv /\ StepInv /\ DebtInv /\ ServingInv
  BY TypeByFields DEF Invariant
<1> USE DEF Fields, At, Goto, Call, Rest, Idle, Routes, OwnerOf, Session, NoSite, Starts,
  Stops, Exits, NoServer, StoppedLife, Live, QrStates, network, TaskSet, ShareSet, ApSet,
  SrvSet, SiteSet, LifeType, ToggleRelay, OpenMonitor, OpenWaveform, OpenNetworkPage,
  LeaveNetworkPage, NetInv, JobInv, StepInv, DebtInv, ServingInv, AckMeansClean
<1>1. NetInv'
  BY <1>a
<1>2. JobInv'
  BY <1>a
<1>3. StepInv'
  BY <1>a
<1>4. DebtInv'
  BY <1>a
<1>5. ServingInv'
  BY <1>a
<1> QED
  BY <1>1, <1>2, <1>3, <1>4, <1>5

(* A stop or a termination is called, where there is one to call.          *)
LEMMA CallsKeep ==
  ASSUME Invariant, ExitMonitor \/ ExitWaveform \/ StopConfiguring \/ StopDownload \/ PollStop \/ RetryCleanup
  PROVE  NetInv' /\ JobInv' /\ StepInv' /\ DebtInv' /\ ServingInv'
<1>a. Fields /\ NetInv /\ JobInv /\ StepInv /\ DebtInv /\ ServingInv
  BY TypeByFields DEF Invariant
<1> USE DEF Fields, At, Goto, Call, Rest, Idle, Routes, OwnerOf, Session, NoSite, Starts,
  Stops, Exits, NoServer, StoppedLife, Live, QrStates, network, TaskSet, ShareSet, ApSet,
  SrvSet, SiteSet, LifeType, ExitMonitor, Terminate, ExitWaveform, InWaveform,
  StopConfiguring, StopDownload, PollStop, Sharing, MustStopServer, RetryCleanup, NetInv,
  JobInv, StepInv, DebtInv, ServingInv, AckMeansClean
<1>1. NetInv'
  BY <1>a
<1>2. JobInv'
  BY <1>a
<1>3. StepInv'
  BY <1>a
<1>4. DebtInv'
  BY <1>a
<1>5. ServingInv'
  BY <1>a
<1> QED
  BY <1>1, <1>2, <1>3, <1>4, <1>5

(* The recorder starts, moves on, fails and is acknowledged.               *)
LEMMA RecorderKeeps ==
  ASSUME Invariant, StartRecording \/ RecorderMoves \/ RetryRecorderCleanup \/ AcknowledgeFault
  PROVE  NetInv' /\ JobInv' /\ StepInv' /\ DebtInv' /\ ServingInv'
<1>a. Fields /\ NetInv /\ JobInv /\ StepInv /\ DebtInv /\ ServingInv
  BY TypeByFields DEF Invariant
<1> USE DEF Fields, At, Goto, Call, Rest, Idle, Routes, OwnerOf, Session, NoSite, Starts,
  Stops, Exits, NoServer, StoppedLife, Live, QrStates, network, TaskSet, ShareSet, ApSet,
  SrvSet, SiteSet, LifeType, StartRecording, InWaveform, Terminate, RecorderMoves,
  RetryRecorderCleanup, AcknowledgeFault, NetInv, JobInv, StepInv, DebtInv, ServingInv,
  AckMeansClean
<1>1. NetInv'
  BY <1>a
<1>2. JobInv'
  BY <1>a
<1>3. StepInv'
  BY <1>a
<1>4. DebtInv'
  BY <1>a
<1>5. ServingInv'
  BY <1>a
<1> QED
  BY <1>1, <1>2, <1>3, <1>4, <1>5

(* The pages, the deadline and the end of a Live View session.             *)
LEMMA SessionKeeps ==
  ASSUME Invariant, TurnQrPage \/ DismissStartError \/ RequestStop \/ TransportStops \/ StopDeadline
  PROVE  NetInv' /\ JobInv' /\ StepInv' /\ DebtInv' /\ ServingInv'
<1>a. Fields /\ NetInv /\ JobInv /\ StepInv /\ DebtInv /\ ServingInv
  BY TypeByFields DEF Invariant
<1> USE DEF Fields, At, Goto, Call, Rest, Idle, Routes, OwnerOf, Session, NoSite, Starts,
  Stops, Exits, NoServer, StoppedLife, Live, QrStates, network, TaskSet, ShareSet, ApSet,
  SrvSet, SiteSet, LifeType, TurnQrPage, Sharing, DismissStartError, RequestStop,
  AdmissionClosed, TransportStops, StopDeadline, NetInv, JobInv, StepInv, DebtInv,
  ServingInv, AckMeansClean
<1>1. NetInv'
  BY <1>a
<1>2. JobInv'
  BY <1>a
<1>3. StepInv'
  BY <1>a
<1>4. DebtInv'
  BY <1>a
<1>5. ServingInv'
  BY <1>a
<1> QED
  BY <1>1, <1>2, <1>3, <1>4, <1>5

(* The first steps of a termination; no Live View is under it.             *)
LEMMA TerminationKeeps ==
  ASSUME Invariant, RelayOff \/ InvalidateProducer \/ AdmissionOff
  PROVE  NetInv' /\ JobInv' /\ StepInv' /\ DebtInv' /\ ServingInv'
<1>a. Fields /\ NetInv /\ JobInv /\ StepInv /\ DebtInv /\ ServingInv
  BY TypeByFields DEF Invariant
<1> USE DEF Fields, At, Goto, Call, Rest, Idle, Routes, OwnerOf, Session, NoSite, Starts,
  Stops, Exits, NoServer, StoppedLife, Live, QrStates, network, TaskSet, ShareSet, ApSet,
  SrvSet, SiteSet, LifeType, RelayOff, InvalidateProducer, BeginStop, Matches,
  AdmissionOff, NetInv, JobInv, StepInv, DebtInv, ServingInv, AckMeansClean
<1>1. NetInv'
  BY <1>a
<1>2. JobInv'
  BY <1>a
<1>3. StepInv'
  BY <1>a
<1>4. DebtInv'
  BY <1>a
<1>5. ServingInv'
  BY <1>a
<1> QED
  BY <1>1, <1>2, <1>3, <1>4, <1>5

(* The D2B routes and the lifecycle of this server, or the rollback.       *)
LEMMA RegisterD2BKeeps ==
  ASSUME Invariant, RegisterD2B
  PROVE  NetInv' /\ JobInv' /\ StepInv' /\ DebtInv' /\ ServingInv'
<1>a. Fields /\ NetInv /\ JobInv /\ StepInv /\ DebtInv /\ ServingInv
  BY TypeByFields DEF Invariant
<1> USE DEF Fields, At, Goto, Call, Rest, Idle, Routes, OwnerOf, Session, NoSite, Starts,
  Stops, Exits, NoServer, StoppedLife, Live, QrStates, network, TaskSet, ShareSet, ApSet,
  SrvSet, SiteSet, LifeType, RegisterD2B, CanBeginRunning, BeginRunning, Rollback, NetInv,
  JobInv, StepInv, DebtInv, ServingInv, AckMeansClean
<1>1. NetInv'
  BY <1>a
<1>2. JobInv'
  BY <1>a
<1>3. StepInv'
  BY <1>a
<1>4. DebtInv'
  BY <1>a
<1>5. ServingInv'
  BY <1>a
<1> QED
  BY <1>1, <1>2, <1>3, <1>4, <1>5

(* A power cut leaves nothing.                                             *)
LEMMA PowerCycleKeeps ==
  ASSUME Invariant, PowerCycle
  PROVE  NetInv' /\ JobInv' /\ StepInv' /\ DebtInv' /\ ServingInv'
<1>a. Fields /\ NetInv /\ JobInv /\ StepInv /\ DebtInv /\ ServingInv
  BY TypeByFields DEF Invariant
<1> USE DEF Fields, At, Goto, Call, Rest, Idle, Routes, OwnerOf, Session, NoSite, Starts,
  Stops, Exits, NoServer, StoppedLife, Live, QrStates, network, TaskSet, ShareSet, ApSet,
  SrvSet, SiteSet, LifeType, PowerCycle, NetInv, JobInv, StepInv, DebtInv, ServingInv,
  AckMeansClean
<1>1. NetInv'
  BY <1>a
<1>2. JobInv'
  BY <1>a
<1>3. StepInv'
  BY <1>a
<1>4. DebtInv'
  BY <1>a
<1>5. ServingInv'
  BY <1>a
<1> QED
  BY <1>1, <1>2, <1>3, <1>4, <1>5

(* The types of what a job's steps and its ends write.                     *)
LEMMA TaskTyped ==
  ASSUME Fields
  PROVE  /\ Rest \in TaskSet
         /\ \A job \in Starts \cup Stops \cup Exits, step \in Steps : Call(job, step) => task' \in TaskSet
         /\ \A step \in Steps : task.at # "idle" /\ Goto(step) => task' \in TaskSet
         /\ "close" \in Steps /\ "finish" \in Stops
BY DEF Fields, TaskSet, Rest, Call, Goto, Steps, Stops

(* The end of a start writes values of their types.                        *)
LEMMA StartEndTyped ==
  ASSUME Fields, NEW job \in Starts \cup {"undo"}, NEW result, StartEnds(job, result)
  PROVE  task' \in TaskSet /\ page' \in Pages /\ share' \in ShareSet
<1>1. CASE job \in {"live", "undo"}
  BY <1>1, TaskTyped DEF StartEnds, Fields, ShareSet, ShareStates
<1>2. CASE job = "config"
  BY <1>2, TaskTyped DEF StartEnds, Fields, Pages
<1>3. CASE job = "download"
  BY <1>3, TaskTyped DEF StartEnds, Fields, Pages
<1> QED
  BY <1>1, <1>2, <1>3 DEF Starts

(* And the end of a stop or of a termination.                              *)
LEMMA JobEndTyped ==
  ASSUME Fields, task.job \in Stops \cup Exits, NEW stopped \in BOOLEAN, JobEnds(stopped)
  PROVE  /\ task' \in TaskSet /\ page' \in Pages /\ share' \in ShareSet
         /\ rec' \in Recorders /\ ack' \in BOOLEAN
<1>1. share' \in ShareSet /\ rec' \in Recorders /\ ack' \in BOOLEAN
  BY JobEnded
<1>2. task' \in TaskSet
  <2>1. task' = Rest \/ task' = [job |-> "finish", at |-> "close"]
    BY JobEnded DEF Stops
  <2> QED
    BY <2>1, TaskTyped DEF Call, TaskSet, Stops, Steps
<1>3. page' \in Pages
  BY JobEnded DEF Stops, Fields, Pages
<1> QED
  BY <1>1, <1>2, <1>3

(* And a start that is refused or begins.                                  *)
LEMMA BeginStartTyped ==
  ASSUME Fields, NEW job \in Starts, BeginStart(job)
  PROVE  Fields'
<1>1. PICK read \in Reads(ap.on) :
       \/ /\ Ap(ap.on, "Inactive")
          /\ site' = [site EXCEPT !.qr = @ /\ job # "live", !.record = @ \/ job = "download"]
          /\ Call(job, "apUp")
          /\ share' = IF job = "live" THEN [share EXCEPT !.state = "Starting"] ELSE share
          /\ UNCHANGED page
       \/ /\ Ap(ap.on, IF read = "Disabled" THEN "Inactive" ELSE "StopRetryRequired")
          /\ site' = [site EXCEPT !.qr = @ /\ job # "live"]
          /\ StartEnds(job, IF read = "Disabled" THEN Preflight(OwnerOf(job)) ELSE "Debt")
  BY DEF BeginStart
<1>2. task' \in TaskSet /\ page' \in Pages /\ share' \in ShareSet
  BY <1>1, TaskTyped, StartEndTyped DEF Fields, ShareSet, ShareStates, Steps
<1>3. ap' \in ApSet
  BY <1>1 DEF Ap, ApSet, Fields
<1>4. site' \in SiteSet
  BY <1>1 DEF SiteSet, Fields
<1>5. relay' \in BOOLEAN /\ UNCHANGED <<below, rec, ack, srv, d2b>>
  BY DEF BeginStart, Fields
<1> QED
  BY <1>2, <1>3, <1>4, <1>5 DEF Fields

(* A site without its record is a site.                                    *)
LEMMA UnselectedTyped == Fields => Unselected \in SiteSet
BY DEF Fields, SiteSet, Unselected

(* Whose job a step is.                                                    *)
LEMMA NextJob ==
  ASSUME Fields, JobInv
  PROVE  /\ task.at \in {"apUp", "listen", "apUndo", "viewer", "d2b", "arm"} => task.job \in Starts
         /\ task.at \in {"httpd", "apDown", "close"} => task.job \in Stops \cup Exits
BY DEF Fields, TaskSet, JobInv, Starts, Stops, Exits

(* Every step keeps the types of the variables.                            *)
LEMMA Typed ==
  ASSUME Fields, JobInv, Next
  PROVE  Fields'
<1> USE DEF Fields
<1>1. ASSUME StartAp PROVE Fields'
  <2>1. task.at = "apUp" /\ task.job \in Starts /\ ap.on \in BOOLEAN
    BY <1>1, NextJob DEF StartAp, At, ApSet
  <2>2. ap' \in ApSet
    <3>1. \A on \in BOOLEAN, state \in {"Inactive", "Active", "StopRetryRequired"} :
            Ap(on, state) => ap' \in ApSet
      BY DEF Ap, ApSet
    <3>2. \A up, down \in BOOLEAN : (up /\ ~down) \in BOOLEAN
      OBVIOUS
    <3>3. \/ \E on \in BOOLEAN, state \in {"Inactive", "Active", "StopRetryRequired"} : Ap(on, state)
          \/ \E up, down \in BOOLEAN, state \in {"Inactive", "StopRetryRequired"} : Ap(up /\ ~down, state)
      BY <1>1, <2>1 DEF StartAp
    <3> QED
      BY <3>1, <3>2, <3>3
  <2>3. UNCHANGED <<below, rec, ack, relay, srv, d2b>>
    BY <1>1 DEF StartAp
  <2>4. \/ Goto("listen") /\ UNCHANGED <<page, share, site>>
        \/ StartFails("Failed") \/ StartFails("Debt")
    BY <1>1 DEF StartAp
  <2>5. task' \in TaskSet /\ page' \in Pages /\ share' \in ShareSet /\ site' \in SiteSet
    BY <2>1, <2>4, TaskTyped, StartEndTyped, UnselectedTyped DEF StartFails, Steps
  <2> QED
    BY <2>2, <2>3, <2>5
<1>2. ASSUME UndoAp PROVE Fields'
  <2>1. task.at = "apUndo" /\ task.job \in Starts
    BY <1>2, NextJob DEF UndoAp, At
  <2>2. PICK stopped \in BOOLEAN : StopAp(stopped) /\ StartFails(IF stopped THEN "Failed" ELSE "Debt")
    BY <1>2 DEF UndoAp
  <2>3. ap' \in ApSet
    BY <2>2, StopApResult
  <2>4. task' \in TaskSet /\ page' \in Pages /\ share' \in ShareSet /\ site' \in SiteSet
    BY <2>1, <2>2, StartEndTyped, UnselectedTyped DEF StartFails
  <2> QED
    BY <1>2, <2>3, <2>4 DEF UndoAp
<1>3. ASSUME ApDown PROVE Fields'
  <2>1. task.job \in Stops \cup Exits
    BY <1>3, NextJob DEF ApDown, At
  <2>2. PICK stopped \in BOOLEAN : StopAp(stopped) /\ JobEnds(stopped)
    BY <1>3 DEF ApDown
  <2>3. ap' \in ApSet
    BY <2>2, StopApResult
  <2> QED
    BY <1>3, <2>1, <2>2, <2>3, JobEndTyped, UnselectedTyped DEF ApDown
<1>4. ASSUME Listen PROVE Fields'
  <2>1. task.at = "listen" /\ task.job \in Starts
    BY <1>4, NextJob DEF Listen, At
  <2>2. NextGen \in 1..GenMax
    BY GenAssumption DEF NextGen, SrvSet
  <2>3. srv' \in SrvSet
    <3>1. NextGen \in 0..GenMax /\ OwnerOf(task.job) \in {"None", "System", "Download"}
          /\ task.job \in Starts \cup {"none"}
      BY <2>1, <2>2, GenAssumption DEF OwnerOf
    <3>2. \/ \E retained \in BOOLEAN :
               srv' = [owner |-> OwnerOf(task.job), retained |-> retained, gen |-> NextGen, runs |-> task.job]
          \/ srv' = [srv EXCEPT !.retained = FALSE, !.gen = NextGen]
      BY <1>4 DEF Listen
    <3>3. CASE srv' = [srv EXCEPT !.retained = FALSE, !.gen = NextGen]
      BY <3>1, <3>3 DEF SrvSet
    <3>4. ASSUME NEW retained \in BOOLEAN,
                 srv' = [owner |-> OwnerOf(task.job), retained |-> retained, gen |-> NextGen, runs |-> task.job]
          PROVE  srv' \in SrvSet
      BY <3>1, <3>4 DEF SrvSet
    <3> QED
      BY <3>2, <3>3, <3>4
  <2>4. UNCHANGED <<below, rec, ack, relay, ap, d2b>>
    BY <1>4 DEF Listen
  <2>5. \/ Goto("viewer") /\ UNCHANGED <<page, share, site>>
        \/ site' = [site EXCEPT !.routes = Routes(task.job)] /\ StartEnds(task.job, "Started")
        \/ site' = Unselected /\ Goto("apUndo") /\ UNCHANGED <<page, share>>
        \/ site' = Unselected /\ StartEnds(task.job, "Debt")
    BY <1>4 DEF Listen, NoServerStarted, StartFails
  <2>6. task' \in TaskSet /\ page' \in Pages /\ share' \in ShareSet
    BY <2>1, <2>5, TaskTyped, StartEndTyped DEF Steps
  <2>7. Routes(task.job) \in SUBSET {"viewer", "d2b", "config", "download"}
    BY <2>1, RoutesOf DEF Starts
  <2>8. site' \in SiteSet
    BY <2>5, <2>7, UnselectedTyped DEF SiteSet
  <2> QED
    BY <2>3, <2>4, <2>6, <2>8
<1>5. ASSUME RegisterViewer \/ RegisterD2B PROVE Fields'
  <2>1. task.at # "idle"
    BY <1>5 DEF RegisterViewer, RegisterD2B, At
  <2>2. task' \in TaskSet
    BY <1>5, <2>1, TaskTyped DEF RegisterViewer, RegisterD2B, Rollback, AfterViewer, Steps,
      Stops
  <2>3. site' \in SiteSet
    BY <1>5 DEF RegisterViewer, RegisterD2B, Rollback, SiteSet
  <2>4. d2b' \in LifeType(1..GenMax)
    BY <1>5 DEF RegisterViewer, RegisterD2B, Rollback, LifeType, Phases, CanBeginRunning,
      BeginRunning, NoServer, SrvSet
  <2> QED
    BY <1>5, <2>2, <2>3, <2>4 DEF RegisterViewer, RegisterD2B
<1>6. ASSUME Arm PROVE Fields'
  <2>1. StartEnds("live", "Started") \/ (Call("undo", "close") /\ UNCHANGED <<page, share>>)
    BY <1>6 DEF Arm, Rollback
  <2>2. task' \in TaskSet /\ page' \in Pages /\ share' \in ShareSet
    BY <2>1, TaskTyped, StartEndTyped DEF Starts, Stops
  <2>3. site' \in SiteSet
    BY <1>6 DEF Arm, Rollback, SiteSet
  <2> QED
    BY <1>6, <2>2, <2>3 DEF Arm, Rollback
<1>7. ASSUME CloseServer PROVE Fields'
  <2>1. task.at # "idle" /\ task.job \in Stops \cup Exits
    BY <1>7, NextJob DEF CloseServer, At
  <2>2. \/ \E step \in {"apDown", "httpd"} : Goto(step) /\ UNCHANGED <<page, share, rec, ack>>
        \/ JobEnds(FALSE)
    BY <1>7 DEF CloseServer
  <2>3. /\ task' \in TaskSet /\ page' \in Pages /\ share' \in ShareSet
        /\ rec' \in Recorders /\ ack' \in BOOLEAN
    BY <2>1, <2>2, TaskTyped, JobEndTyped DEF Steps
  <2>4. site' \in SiteSet
    BY <1>7 DEF CloseServer, SiteSet
  <2>5. d2b' \in LifeType(1..GenMax)
    BY <1>7 DEF CloseServer, BeginStop, LifeType, Phases
  <2> QED
    BY <1>7, <2>3, <2>4, <2>5 DEF CloseServer
<1>8. ASSUME StopHttpd PROVE Fields'
  <2>1. task.at # "idle" /\ task.job \in Stops \cup Exits
    BY <1>8, NextJob DEF StopHttpd, At
  <2>2. \/ Goto("apDown") /\ UNCHANGED <<page, share, rec, ack>>
        \/ JobEnds(FALSE)
    BY <1>8 DEF StopHttpd, StopFailed
  <2>3. /\ task' \in TaskSet /\ page' \in Pages /\ share' \in ShareSet
        /\ rec' \in Recorders /\ ack' \in BOOLEAN
    BY <2>1, <2>2, TaskTyped, JobEndTyped DEF Steps
  <2>4. site' \in SiteSet
    <3>1. {} \in SUBSET {"viewer", "d2b", "config", "download"}
      OBVIOUS
    <3>2. NoSite \in SiteSet /\ [site EXCEPT !.routes = {}] \in SiteSet
      BY <3>1 DEF NoSite, SiteSet
    <3> QED
      BY <1>8, <3>2 DEF StopHttpd, SiteStopped
  <2>5. d2b' \in LifeType(1..GenMax)
    BY <1>8 DEF StopHttpd, StopFailure, StopSuccess, StoppedLife, NoServer, LifeType, Phases
  <2>6. srv' \in SrvSet
    BY <1>8 DEF StopHttpd, SrvSet
  <2> QED
    BY <1>8, <2>3, <2>4, <2>5, <2>6 DEF StopHttpd
<1>9. ASSUME RelayOff \/ InvalidateProducer \/ AdmissionOff PROVE Fields'
  <2>1. task.at # "idle" /\ \E step \in Steps : Goto(step)
    BY <1>9 DEF RelayOff, InvalidateProducer, AdmissionOff, At, Steps
  <2>2. site' \in SiteSet
    BY <1>9 DEF RelayOff, InvalidateProducer, AdmissionOff, SiteSet
  <2>3. d2b' \in LifeType(1..GenMax)
    BY <1>9 DEF RelayOff, InvalidateProducer, AdmissionOff, BeginStop, LifeType, Phases
  <2> QED
    BY <1>9, <2>1, <2>2, <2>3, TaskTyped DEF RelayOff, InvalidateProducer, AdmissionOff
<1>10. ASSUME StartLiveView \/ ConfigureViaWeb \/ StartDownload PROVE Fields'
  BY <1>10, BeginStartTyped DEF StartLiveView, ConfigureViaWeb, StartDownload, Starts
<1>11. ASSUME RequestStop \/ TransportStops \/ StopDeadline PROVE Fields'
  <2>1. task' \in TaskSet
    BY <1>11, TaskTyped DEF RequestStop, TransportStops, StopDeadline
  <2>2. share' \in ShareSet
    <3>1. CASE RequestStop
      BY <3>1 DEF RequestStop, Session, ShareSet, ShareStates
    <3>2. CASE TransportStops
      BY <3>2 DEF TransportStops, ShareSet
    <3>3. CASE StopDeadline
      BY <3>3 DEF StopDeadline, ShareSet
    <3> QED
      BY <1>11, <3>1, <3>2, <3>3
  <2>3. site' \in SiteSet
    BY <1>11 DEF RequestStop, TransportStops, StopDeadline, AdmissionClosed, SiteSet,
      network
  <2> QED
    BY <1>11, <2>1, <2>2, <2>3 DEF RequestStop, TransportStops, StopDeadline, network
<1>12. ASSUME AcknowledgeFault PROVE Fields'
  BY <1>12 DEF AcknowledgeFault, network, Recorders
<1>13. ASSUME PowerCycle PROVE Fields'
  <2>1. task' \in TaskSet
    BY <1>13, TaskTyped DEF PowerCycle
  <2>2. share' \in ShareSet /\ ap' \in ApSet /\ site' \in SiteSet /\ srv' \in SrvSet
    <3>1. 0 \in 0..GenMax
      BY GenAssumption
    <3> QED
      BY <1>13, <3>1 DEF PowerCycle, Session, ShareSet, ShareStates, ApSet, NoSite,
        SiteSet, SrvSet
  <2>3. d2b' \in LifeType(1..GenMax)
    BY <1>13 DEF PowerCycle, StoppedLife, LifeType, Phases
  <2> QED
    BY <1>13, <2>1, <2>2, <2>3 DEF PowerCycle, Recorders, Pages
<1>14. ASSUME ToggleRelay \/ OpenMonitor \/ OpenWaveform \/ OpenNetworkPage \/ LeaveNetworkPage PROVE Fields'
  BY <1>14, TaskTyped DEF ToggleRelay, OpenMonitor, OpenWaveform, OpenNetworkPage,
    LeaveNetworkPage, network, Recorders, Pages, ShareSet, ShareStates, Steps, Stops, Exits
<1>15. ASSUME ExitMonitor \/ ExitWaveform \/ StopConfiguring \/ StopDownload \/ PollStop \/ RetryCleanup PROVE Fields'
  BY <1>15, TaskTyped DEF ExitMonitor, Terminate, ExitWaveform, InWaveform,
    StopConfiguring, StopDownload, PollStop, Sharing, MustStopServer, RetryCleanup,
    network, Recorders, Pages, ShareSet, ShareStates, Steps, Stops, Exits
<1>16. ASSUME StartRecording \/ RecorderMoves \/ RetryRecorderCleanup PROVE Fields'
  BY <1>16, TaskTyped DEF StartRecording, InWaveform, Terminate, RecorderMoves,
    RetryRecorderCleanup, network, Recorders, Pages, ShareSet, ShareStates, Steps, Stops,
    Exits
<1>17. ASSUME TurnQrPage \/ DismissStartError PROVE Fields'
  BY <1>17, TaskTyped DEF TurnQrPage, Sharing, DismissStartError, network, Recorders,
    Pages, ShareSet, ShareStates, Steps, Stops, Exits
<1> QED
  BY <1>1, <1>2, <1>3, <1>4, <1>5, <1>6, <1>7, <1>8, <1>9, <1>10, <1>11, <1>12, <1>13,
    <1>14, <1>15, <1>16, <1>17 DEF Next, JobStep, UserStep

(* The invariant holds initially, and every step keeps it.                 *)
LEMMA InitInvariant == Init => Invariant
<1> SUFFICES ASSUME Init PROVE Invariant
  OBVIOUS
<1>1. Fields
  <2>1. 0 \in 0..GenMax
    BY GenAssumption
  <2>2. share \in ShareSet /\ ap \in ApSet /\ site \in SiteSet /\ srv \in SrvSet
    BY <2>1 DEF Init, Session, ShareSet, ShareStates, ApSet, NoSite, SiteSet, SrvSet
  <2>3. task \in TaskSet /\ d2b \in LifeType(1..GenMax)
    BY DEF Init, Rest, TaskSet, StoppedLife, LifeType, Phases
  <2> QED
    BY <2>2, <2>3 DEF Init, Fields, Recorders, Pages
<1> USE DEF Init, At, Goto, Call, Rest, Idle, Routes, OwnerOf, Session, NoSite, Starts,
  Stops, Exits, NoServer, StoppedLife, Live, QrStates, network
<1>2. NetInv
  BY RoutesOf DEF NetInv
<1>3. JobInv
  BY DEF JobInv
<1>4. StepInv
  BY DEF StepInv
<1>5. DebtInv
  BY DEF DebtInv, AckMeansClean
<1>6. ServingInv
  BY DEF ServingInv
<1> QED
  BY <1>1, <1>2, <1>3, <1>4, <1>5, <1>6, TypeByFields DEF Invariant

LEMMA NextInvariant == Invariant /\ [Next]_vars => Invariant'
<1> SUFFICES ASSUME Invariant, [Next]_vars PROVE Invariant'
  OBVIOUS
<1>1. CASE Next
  <2>1. TypeOK'
    BY <1>1, TypeByFields, Typed DEF Invariant, Fields, TypeOK, TaskSet, ShareSet, ApSet,
      SrvSet, SiteSet, Recorders
  <2>2. NetInv' /\ JobInv' /\ StepInv' /\ DebtInv' /\ ServingInv'
    <3>1. CASE JobStep
      BY <3>1, StartApKeeps, UndoApKeeps, ApDownKeeps, ListenKeeps, RegisterViewerKeeps,
        RegisterD2BKeeps, ArmKeeps, CloseServerKeeps, StopHttpdKeeps, TerminationKeeps
      DEF JobStep
    <3>2. CASE UserStep
      BY <3>2, PagesKeep, CallsKeep, StartLiveViewKeeps, RecorderKeeps, SessionKeeps,
        ConfigureViaWebKeeps, StartDownloadKeeps
      DEF UserStep
    <3> QED
      BY <1>1, <3>1, <3>2, SessionKeeps, PowerCycleKeeps DEF Next
  <2> QED
    BY <2>1, <2>2 DEF Invariant
<1>2. CASE UNCHANGED vars
  BY <1>2 DEF vars, Invariant, TypeOK, NetInv, JobInv, StepInv, DebtInv, ServingInv,
    AckMeansClean, Idle
<1> QED
  BY <1>1, <1>2

(* What the invariant says of the network holds in every state: nothing of *)
(* a server without it, every debt with its owner, and an offer only while *)
(* all it promises is there.                                               *)
THEOREM SystemInvariant == Spec => []Invariant
<1>1. Init => Invariant
  BY InitInvariant
<1>2. Invariant /\ [Next]_vars => Invariant'
  BY NextInvariant
<1> QED
  BY <1>1, <1>2, PTL DEF Spec

(* The invariant implies what the runs check.                              *)
LEMMA TypeOKHolds == Invariant => TypeOK
BY DEF Invariant

LEMMA WhatRunsIsOwnedHolds == Invariant => WhatRunsIsOwned
<1> SUFFICES ASSUME Invariant PROVE WhatRunsIsOwned
  OBVIOUS
<1>a. Fields /\ NetInv /\ JobInv /\ StepInv /\ DebtInv /\ ServingInv
  BY TypeByFields DEF Invariant
<1> USE DEF At, Idle, OwnerOf, NoSite, StoppedLife, Accepting, Matches, Serving, Live,
  QrStates, Starts, Stops, Exits, NoServer, Fields, TaskSet, ShareSet, ApSet, SrvSet,
  SiteSet, LifeType
<1>1. ApOutlivesServer
  BY <1>a, RoutesOf DEF ApOutlivesServer, NetInv, JobInv, StepInv, DebtInv, ServingInv
<1>2. StartsFromRest
  <2>1. SUFFICES ASSUME At("apUp") PROVE StartsFromRest
    BY DEF StartsFromRest
  <2>2. /\ srv.owner = "None" /\ srv.runs = "none" /\ ~ap.on /\ d2b = StoppedLife
        /\ ~site.profile /\ ~site.qr /\ ~Idle
    BY <1>a, <2>1 DEF NetInv, JobInv, StepInv
  <2>3. site.routes = {} /\ ~site.admit
    BY <1>a, <2>2, RoutesOf DEF NetInv, ServingInv
  <2>4. [site EXCEPT !.record = FALSE] = NoSite
    <3>1. site.profile = FALSE /\ site.admit = FALSE /\ site.qr = FALSE /\ site \in SiteSet
      BY <1>a, <2>2, <2>3
    <3> DEFINE rest == [site EXCEPT !.record = FALSE]
    <3>2. /\ rest \in SiteSet /\ rest.routes = {} /\ rest.profile = FALSE /\ rest.admit = FALSE
          /\ rest.qr = FALSE /\ rest.record = FALSE
      BY <2>3, <3>1 DEF SiteSet
    <3> HIDE DEF rest
    <3>3. rest = [routes |-> {}, profile |-> FALSE, admit |-> FALSE, qr |-> FALSE, record |-> FALSE]
      BY <3>2 DEF SiteSet
    <3> QED
      BY <3>3 DEF NoSite, rest
  <2> QED
    BY <2>2, <2>4 DEF StartsFromRest
<1>3. DebtIsKnown
  BY <1>a, RoutesOf DEF DebtIsKnown, NetInv, JobInv, StepInv, DebtInv, ServingInv
<1> QED
  BY <1>1, <1>2, <1>3 DEF WhatRunsIsOwned

LEMMA WhatIsOfferedIsThereHolds == Invariant => WhatIsOfferedIsThere
<1> SUFFICES ASSUME Invariant PROVE WhatIsOfferedIsThere
  OBVIOUS
<1>a. Fields /\ NetInv /\ JobInv /\ StepInv /\ DebtInv /\ ServingInv
  BY TypeByFields DEF Invariant
<1> USE DEF At, Idle, OwnerOf, NoSite, StoppedLife, Accepting, Matches, Serving, Live,
  QrStates, Starts, Stops, Exits, NoServer, Fields, TaskSet, ShareSet, ApSet, SrvSet,
  SiteSet, LifeType
<1>1. AdmitsOnlyComplete
  BY <1>a, RoutesOf DEF AdmitsOnlyComplete, NetInv, JobInv, StepInv, DebtInv, ServingInv
<1>2. QrMeansServing
  BY <1>a, RoutesOf DEF QrMeansServing, NetInv, JobInv, StepInv, DebtInv, ServingInv
<1>3. SelectedWhileServed
  BY <1>a, RoutesOf DEF SelectedWhileServed, NetInv, JobInv, StepInv, DebtInv, ServingInv
<1> QED
  BY <1>1, <1>2, <1>3 DEF WhatIsOfferedIsThere

LEMMA OutputsAreSafeHolds == Invariant => OutputsAreSafe
<1> SUFFICES ASSUME Invariant PROVE OutputsAreSafe
  OBVIOUS
<1>a. Fields /\ NetInv /\ JobInv /\ StepInv /\ DebtInv /\ ServingInv
  BY TypeByFields DEF Invariant
<1> USE DEF At, Idle, OwnerOf, NoSite, StoppedLife, Accepting, Matches, Serving, Live,
  QrStates, Starts, Stops, Exits, NoServer, Fields, TaskSet, ShareSet, ApSet, SrvSet,
  SiteSet, LifeType
<1>1. ConfigRelayOpen
  BY <1>a, RoutesOf DEF ConfigRelayOpen, NetInv, JobInv, StepInv, DebtInv, ServingInv
<1>2. AckMeansClean
  BY <1>a, RoutesOf DEF AckMeansClean, NetInv, JobInv, StepInv, DebtInv, ServingInv
<1> QED
  BY <1>1, <1>2 DEF OutputsAreSafe

LEMMA D2BFollowsServerHolds == Invariant => D2BFollowsServer
<1> SUFFICES ASSUME Invariant PROVE D2BFollowsServer
  OBVIOUS
<1>a. Fields /\ NetInv /\ JobInv /\ StepInv /\ DebtInv /\ ServingInv
  BY TypeByFields DEF Invariant
<1> QED
  BY <1>a, RoutesOf DEF D2BFollowsServer, At, Idle, OwnerOf, NoSite, StoppedLife,
    Accepting, Matches, Serving, Live, QrStates, Starts, Stops, Exits, NoServer, Fields,
    TaskSet, ShareSet, ApSet, SrvSet, SiteSet, LifeType, NetInv, JobInv, StepInv, DebtInv,
    ServingInv

(* The variables keep their types.                                         *)
THEOREM SystemTyped == Spec => []TypeOK
BY SystemInvariant, TypeOKHolds, PTL

(* The AP outlives its server, a start begins from nothing, and what is    *)
(* left running is known (startWebServer, stopWebServer, the controllers). *)
THEOREM RunningIsOwned == Spec => []WhatRunsIsOwned
BY SystemInvariant, WhatRunsIsOwnedHolds, PTL

(* Admission, the QR codes and a selected record mean what they promise.   *)
THEOREM OfferedIsThere == Spec => []WhatIsOfferedIsThere
BY SystemInvariant, WhatIsOfferedIsThereHolds, PTL

(* The relay is open under the configuration page, and a fault that may be *)
(* acknowledged left nothing on.                                           *)
THEOREM OutputsSafe == Spec => []OutputsAreSafe
BY SystemInvariant, OutputsAreSafeHolds, PTL

(* The D2B lifecycle is that of the server that runs, for any counter      *)
(* width: generations wrap and are reused.                                 *)
THEOREM LifecycleFollows == Spec => []D2BFollowsServer
BY SystemInvariant, D2BFollowsServerHolds, PTL

=============================================================================
