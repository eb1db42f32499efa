----------------------------- MODULE SystemLive -----------------------------
(***************************************************************************)
(* The application task's side of the network: the soft AP, the one HTTPD  *)
(* server on port 80 and its owner, the three profiles that start it (Live *)
(* View, configuration page, CSV download), the Live Share session of the  *)
(* waveform app, and the termination of a measurement.                     *)
(*                                                                         *)
(* Everything here runs on the application task, one call after the other. *)
(* A step is what happens between two moments at which somebody else (the  *)
(* HTTPD task, a Wi-Fi client, a power cut) could look: task.at says which *)
(* step of which job is next.  Drivers answer as they please: every call   *)
(* that can fail may fail, and a mode query may not know.                  *)
(***************************************************************************)
EXTENDS HttpdLifecycle

CONSTANT GenMax   \* the width of the server generation counter (UINT32_MAX)

ASSUME GenAssumption == GenMax \in Nat \ {0}

VARIABLES
  task,   \* the job the application task is at, and its next step
  page,   \* what the user sees
  below,  \* the page under the network page
  rec,    \* the waveform view's recorder activity
  ack,    \* a latched fault may be acknowledged
  share,  \* NetworkShareSession: its state, whether its stop is overdue, and whether
          \* the transport has come to an end of it
  relay,  \* the base relay is closed
  ap,     \* the soft AP: is it on, and ApOperation's state
  srv,    \* WEB_SERVER_OWNER::State and the server that runs
  site,   \* what the server offers: routes, display profile, admission, QR data,
          \* and whether a record is selected for download
  d2b     \* D2B_HTTPD_LIFECYCLE::State

vars == <<task, page, below, rec, ack, share, relay, ap, srv, site, d2b>>

Starts == {"live", "config", "download"}
Stops  == {"undo", "finish", "endConfig", "endDownload"}
Exits  == {"exit", "fault"}

OwnerOf(job) == IF job \in {"download", "endDownload"} THEN "Download" ELSE "System"

Routes(kind) ==
  CASE kind = "live"     -> {"viewer", "d2b"}
    [] kind = "config"   -> {"config"}
    [] kind = "download" -> {"download"}
    [] kind = "none"     -> {}

ShareStates == {"Inactive", "Starting", "WifiQr", "ViewerQr", "Stopping",
                "StopRecovery", "StartError"}

Session(state) == [state |-> state, late |-> FALSE, over |-> FALSE]

Pages == {"launcher", "monitor", "waveform", "network", "configuring", "recovery", "downloading"}

Steps == {"apUp", "listen", "apUndo", "viewer", "d2b", "arm",
          "close", "httpd", "apDown", "relay", "invalidate", "admitOff"}

TypeOK ==
  /\ task \in [job : {"none"}, at : {"idle"}]
             \cup [job : Starts \cup Stops \cup Exits, at : Steps]
  /\ page \in Pages /\ below \in {"launcher", "waveform"}
  /\ rec \in {"Idle", "Busy", "Saving", "Cleanup", "Fault"} /\ ack \in BOOLEAN
  /\ share \in [state : ShareStates, late : BOOLEAN, over : BOOLEAN]
  /\ relay \in BOOLEAN
  /\ ap \in [on : BOOLEAN, state : {"Inactive", "Active", "StopRetryRequired"}]
  /\ srv \in [owner : {"None", "System", "Download"}, retained : BOOLEAN,
              gen : 0..GenMax, runs : Starts \cup {"none"}]
  /\ site \in [routes : SUBSET {"viewer", "d2b", "config", "download"},
               profile : BOOLEAN, admit : BOOLEAN, qr : BOOLEAN, record : BOOLEAN]
  /\ d2b \in LifeType(1..GenMax)

Idle == task.job = "none"
Rest == [job |-> "none", at |-> "idle"]
At(step) == task.at = step
Goto(step) == task' = [task EXCEPT !.at = step]
Call(job, step) == task' = [job |-> job, at |-> step]

NoSite == [routes |-> {}, profile |-> FALSE, admit |-> FALSE, qr |-> FALSE, record |-> FALSE]

Init ==
  /\ task = Rest /\ page = "launcher" /\ below = "launcher"
  /\ rec = "Idle" /\ ack = FALSE
  /\ share = Session("Inactive")
  /\ relay = FALSE
  /\ ap = [on |-> FALSE, state |-> "Inactive"]
  /\ srv = [owner |-> "None", retained |-> FALSE, gen |-> 0, runs |-> "none"]
  /\ site = NoSite
  /\ d2b = StoppedLife
-----------------------------------------------------------------------------
(* What a job's caller makes of its result.                                *)

(* A start ended: LiveShareController::requestStart, the network page's    *)
(* DecideStartAction, CreateDownloadQRPage.  Debt means that a retained AP *)
(* or server needs a stop retry.                                           *)
StartEnds(job, result) ==
  CASE job \in {"live", "undo"} ->
         /\ share' = [share EXCEPT !.state = CASE result = "Started" -> "WifiQr"
                                               [] result = "Debt"    -> "StopRecovery"
                                               [] OTHER              -> "StartError"]
         /\ IF result = "Debt" THEN Call("finish", "close") ELSE task' = Rest
         /\ UNCHANGED page
    [] job = "config" ->
         /\ page' = CASE result = "Started" -> "configuring"
                      [] result = "Debt"    -> "recovery"
                      [] OTHER              -> "network"
         /\ task' = Rest
         /\ UNCHANGED share
    [] job = "download" ->
         /\ page' = IF result = "Started" THEN "downloading" ELSE page
         /\ task' = Rest
         /\ UNCHANGED share

AfterConfig(stopped) == IF stopped THEN "network" ELSE "recovery"

(* A stop ended, well or not: finishCleanup, the network page and its      *)
(* recovery loop, stopDownloadServer whose result nobody reads, and the    *)
(* rollback of a start.                                                    *)
StopEnds(job, stopped) ==
  CASE job = "undo" -> StartEnds("undo", IF stopped THEN "Failed" ELSE "Debt")
    [] job = "finish" ->
         /\ share' = Session(IF stopped THEN "Inactive" ELSE "StopRecovery")
         /\ task' = Rest
         /\ UNCHANGED page
    [] job = "endConfig" ->
         /\ page' = AfterConfig(stopped)
         /\ task' = Rest
         /\ UNCHANGED share
    [] job = "endDownload" ->
         /\ page' = "launcher"
         /\ task' = Rest
         /\ UNCHANGED share

MayAcknowledgeDebt(destroyed, debt) == destroyed
MayAcknowledge(destroyed, debt) == destroyed /\ ~debt /\ ~relay

(* A termination ended: AppWaveform::onDestroy goes on to destroy the      *)
(* view, whose recorder may outlive it; _handle_recorder_error latches the *)
(* fault, which may be acknowledged if nothing is owed.                    *)
TerminationEnds(job, debt) ==
  \E destroyed \in BOOLEAN :
    /\ rec' = IF job = "fault" THEN "Fault"
              ELSE IF rec \in {"Busy", "Cleanup"} /\ ~destroyed THEN "Cleanup" ELSE "Idle"
    /\ ack' = (job = "fault" /\ MayAcknowledge(destroyed, debt))
    /\ page' = IF job = "exit" THEN "launcher" ELSE page
    /\ share' = Session("Inactive")
    /\ task' = Rest

JobEnds(stopped) ==
  IF task.job \in Exits
  THEN TerminationEnds(task.job, ~stopped)
  ELSE StopEnds(task.job, stopped) /\ UNCHANGED <<rec, ack>>
-----------------------------------------------------------------------------
(* The soft AP.                                                            *)

(* What a query of the Wi-Fi mode may return.                              *)
Reads(on) == {IF on THEN "Enabled" ELSE "Disabled", "Unknown"}

Ap(on, state) == ap' = [on |-> on, state |-> state]

Preflight(owner) ==
  CASE srv.owner = "None" -> "Proceed"
    [] srv.owner = owner /\ owner = "System" /\ srv.retained -> "Debt"
    [] OTHER -> "Failed"

(* The first synchronous part of a start: for the configuration page the   *)
(* relay is opened, for Live View the QR data of the previous run is       *)
(* dropped; then the AP must be known to be off and port 80 free.  A       *)
(* download's record is selected before the AP comes up.                   *)
BeginStart(job) ==
  /\ relay' = (relay /\ job # "config")
  /\ \E read \in Reads(ap.on) :
       IF read = "Disabled" /\ Preflight(OwnerOf(job)) = "Proceed"
       THEN /\ Ap(ap.on, "Inactive")
            /\ site' = [site EXCEPT !.qr = @ /\ job # "live", !.record = @ \/ job = "download"]
            /\ Call(job, "apUp")
            /\ share' = IF job = "live" THEN [share EXCEPT !.state = "Starting"] ELSE share
            /\ UNCHANGED page
       ELSE /\ Ap(ap.on, IF read = "Disabled" THEN "Inactive" ELSE "StopRetryRequired")
            /\ site' = [site EXCEPT !.qr = @ /\ job # "live"]
            /\ StartEnds(job, IF read = "Disabled" THEN Preflight(OwnerOf(job)) ELSE "Debt")
  /\ UNCHANGED <<below, rec, ack, srv, d2b>>

(* A start fails past its preflight; a download forgets its record.        *)
Unselected == [site EXCEPT !.record = @ /\ task.job \notin {"download", "endDownload"}]

StartFails(result) ==
  /\ site' = Unselected
  /\ StartEnds(task.job, result)

(* ApOperation::start: query, leave the station, soft AP, query, and if    *)
(* the two disagree switch off and query again.                            *)
StartAp ==
  /\ At("apUp")
  /\ \E read \in Reads(ap.on), staLeft, ok, up \in BOOLEAN :
     \E seen \in Reads(up) :
       IF read # "Disabled"
       THEN Ap(ap.on, "StopRetryRequired") /\ StartFails("Debt")
       ELSE IF ~staLeft
       THEN Ap(ap.on, "Inactive") /\ StartFails("Failed")
       ELSE IF ok /\ seen = "Enabled"
       THEN Ap(up, "Active") /\ Goto("listen") /\ UNCHANGED <<page, share, site>>
       ELSE IF ~ok /\ seen = "Disabled"
       THEN Ap(up, "Inactive") /\ StartFails("Failed")
       ELSE \E off, down \in BOOLEAN : \E last \in Reads(up /\ ~down) :
              IF off /\ last = "Disabled"
              THEN Ap(up /\ ~down, "Inactive") /\ StartFails("Failed")
              ELSE Ap(up /\ ~down, "StopRetryRequired") /\ StartFails("Debt")
  /\ UNCHANGED <<below, rec, ack, relay, srv, d2b>>

(* ApOperation::stop.  An AP that is known to be off is not stopped again. *)
StopAp(stopped) ==
  \E read \in Reads(ap.on), off, down \in BOOLEAN : \E last \in Reads(ap.on /\ ~down) :
    /\ stopped = (read = "Disabled" \/ (off /\ last = "Disabled"))
    /\ Ap(IF read = "Disabled" THEN ap.on ELSE ap.on /\ ~down,
          IF stopped THEN "Inactive" ELSE "StopRetryRequired")

(* The AP of a start whose server could not be started.                    *)
UndoAp ==
  /\ At("apUndo")
  /\ \E stopped \in BOOLEAN :
       /\ StopAp(stopped)
       /\ StartFails(IF stopped THEN "Failed" ELSE "Debt")
  /\ UNCHANGED <<below, rec, ack, relay, srv, d2b>>

(* The AP of a server that is gone.                                        *)
ApDown ==
  /\ At("apDown")
  /\ site' = Unselected
  /\ \E stopped \in BOOLEAN : StopAp(stopped) /\ JobEnds(stopped)
  /\ UNCHANGED <<below, relay, srv, d2b>>
-----------------------------------------------------------------------------
(* The HTTPD server.                                                       *)

NextGen == IF srv.gen = GenMax THEN 1 ELSE srv.gen + 1

(* A start that left no server: its AP is stopped.                         *)
NoServerKeepsAp == StartFails("Failed")
NoServerStarted == site' = Unselected /\ Goto("apUndo") /\ UNCHANGED <<page, share>>

(* StartOwnedHttpServer: the owner is acquired, then the server listens,   *)
(* or does not: then it left nothing (or its partial start is stopped), or *)
(* it left a handle that would not stop.                                   *)
Listen ==
  /\ At("listen")
  /\ \/ /\ srv' = [owner |-> OwnerOf(task.job), retained |-> FALSE, gen |-> NextGen, runs |-> task.job]
        /\ IF task.job = "live"
           THEN Goto("viewer") /\ UNCHANGED <<page, share, site>>
           ELSE /\ site' = [site EXCEPT !.routes = Routes(task.job)]
                /\ StartEnds(task.job, "Started")
     \/ /\ srv' = [srv EXCEPT !.retained = FALSE, !.gen = NextGen]
        /\ NoServerStarted
     \/ /\ srv' = [owner |-> OwnerOf(task.job), retained |-> TRUE, gen |-> NextGen, runs |-> task.job]
        /\ StartFails("Debt")
  /\ UNCHANGED <<below, rec, ack, relay, ap, d2b>>

(* A failure after listen: rollbackSystemStart.                            *)
Rollback ==
  /\ Call("undo", "close")
  /\ site' = [site EXCEPT !.qr = FALSE]
  /\ UNCHANGED d2b

AfterViewerArm == "arm"
AfterViewer == "d2b"

(* VIEWER_HTTP_ROUTES::Register.                                           *)
RegisterViewer ==
  /\ At("viewer")
  /\ \/ /\ ~site.profile
        /\ site' = [site EXCEPT !.profile = TRUE, !.routes = @ \cup {"viewer"}]
        /\ Goto(AfterViewer)
        /\ UNCHANGED d2b
     \/ Rollback
  /\ UNCHANGED <<page, below, rec, ack, share, relay, ap, srv>>

(* D2B_ESP::Register: the routes, then CommitServerRunning.                *)
RegisterD2B ==
  /\ At("d2b")
  /\ \/ /\ CanBeginRunning(d2b, srv.gen)
        /\ d2b' = BeginRunning(srv.gen)
        /\ site' = [site EXCEPT !.routes = @ \cup {"d2b"}]
        /\ Goto("arm")
     \/ Rollback
  /\ UNCHANGED <<page, below, rec, ack, share, relay, ap, srv>>

(* The QR data is published, admission is the last thing to open.          *)
Arm ==
  /\ At("arm")
  /\ \/ /\ site' = [site EXCEPT !.qr = TRUE, !.admit = TRUE]
        /\ StartEnds("live", "Started")
        /\ UNCHANGED d2b
     \/ Rollback /\ UNCHANGED <<page, share>>
  /\ UNCHANGED <<below, rec, ack, relay, ap, srv>>

(* StopOwnedHttpServer up to httpd_stop: admission off, ownership checked, *)
(* and D2B told to stop, which a termination did before.                   *)
CloseServer ==
  /\ At("close")
  /\ IF srv.owner # OwnerOf(task.job)
     THEN /\ IF srv.owner = "None"
             THEN Goto("apDown") /\ UNCHANGED <<page, share, rec, ack>>
             ELSE JobEnds(FALSE)
          /\ UNCHANGED <<site, d2b>>
     ELSE /\ site' = [site EXCEPT !.admit = FALSE]
          /\ d2b' = IF task.job \in Stops \ {"endDownload"} THEN BeginStop(d2b, srv.gen) ELSE d2b
          /\ Goto("httpd")
          /\ UNCHANGED <<page, share, rec, ack>>
  /\ UNCHANGED <<below, relay, ap, srv>>

(* What a site is once its server stopped; a failed stop goes nowhere.     *)
SiteStopped == IF srv.owner = "System" THEN NoSite ELSE [site EXCEPT !.routes = {}]

StopFailed == JobEnds(FALSE)

(* httpd_stop.  A server that will not stop is retained; one that stopped  *)
(* takes its routes with it, and D2B, the QR data, the owner and the       *)
(* display profile are cleared before the AP goes down.                    *)
StopHttpd ==
  /\ At("httpd")
  /\ \/ /\ srv' = [srv EXCEPT !.retained = TRUE]
        /\ d2b' = IF srv.owner = "System" THEN StopFailure(d2b, srv.gen) ELSE d2b
        /\ StopFailed
        /\ UNCHANGED site
     \/ /\ srv' = [srv EXCEPT !.owner = "None", !.retained = FALSE, !.runs = "none"]
        /\ d2b' = IF srv.owner = "System" THEN StopSuccess(d2b, srv.gen) ELSE d2b
        /\ site' = SiteStopped
        /\ Goto("apDown")
        /\ UNCHANGED <<page, share, rec, ack>>
  /\ UNCHANGED <<below, relay, ap>>
-----------------------------------------------------------------------------
(* LIVE_SHARE_SAFETY::Execute: relay, producer, admission, server, AP.     *)

Terminate(job) == Call(job, "relay")

RelayOff ==
  /\ At("relay")
  /\ relay' = FALSE
  /\ Goto("invalidate")
  /\ UNCHANGED <<page, below, rec, ack, share, ap, srv, site, d2b>>

InvalidateProducer ==
  /\ At("invalidate")
  /\ d2b' = IF srv.owner = "System" THEN BeginStop(d2b, srv.gen) ELSE d2b
  /\ Goto("admitOff")
  /\ UNCHANGED <<page, below, rec, ack, share, relay, ap, srv, site>>

AdmissionOff ==
  /\ At("admitOff")
  /\ site' = IF srv.owner = "System" THEN [site EXCEPT !.admit = FALSE] ELSE site
  /\ Goto("close")
  /\ UNCHANGED <<page, below, rec, ack, share, relay, ap, srv, d2b>>
-----------------------------------------------------------------------------
(* The user.                                                               *)

network == <<relay, ap, srv, site, d2b>>

(* The launcher's guide closes the relay, its base test and the power      *)
(* monitor toggle it.                                                      *)
ToggleRelay ==
  /\ Idle /\ page \in {"launcher", "monitor"}
  /\ relay' = ~relay
  /\ UNCHANGED <<task, page, below, rec, ack, share, ap, srv, site, d2b>>

OpenMonitor ==
  /\ Idle /\ page = "launcher"
  /\ page' = "monitor"
  /\ UNCHANGED <<task, below, rec, ack, share, network>>

ExitMonitor ==
  /\ Idle /\ page = "monitor"
  /\ Terminate("exit")
  /\ UNCHANGED <<page, below, rec, ack, share, network>>

OpenWaveform ==
  /\ Idle /\ page = "launcher"
  /\ page' = "waveform"
  /\ UNCHANGED <<task, below, rec, ack, share, network>>

InWaveform == Idle /\ page = "waveform" /\ share.state = "Inactive"

StartLiveView ==
  /\ InWaveform /\ rec = "Idle"
  /\ BeginStart("live")

StartRecording ==
  /\ InWaveform /\ rec = "Idle"
  /\ \/ rec' = "Busy" /\ UNCHANGED task
     \/ Terminate("fault") /\ UNCHANGED rec
  /\ UNCHANGED <<page, below, ack, share, network>>

(* The recorder task comes to an end of recording or of saving, or to an   *)
(* error, and the view notices; a finished recording opens a menu that     *)
(* leads to the network page, and comes back with a new view.              *)
RecorderMoves ==
  /\ InWaveform
  /\ \/ rec = "Busy" /\ rec' = "Saving" /\ UNCHANGED <<task, page, below>>
     \/ rec \in {"Busy", "Saving"} /\ Terminate("fault") /\ UNCHANGED <<rec, page, below>>
     \/ /\ rec = "Saving" /\ rec' \in {"Idle", "Cleanup"}
        /\ \/ UNCHANGED <<page, below>>
           \/ page' = "network" /\ below' = "waveform"
        /\ UNCHANGED task
  /\ UNCHANGED <<ack, share, network>>

RetryRecorderCleanup ==
  /\ InWaveform /\ rec = "Cleanup"
  /\ rec' = "Idle"
  /\ UNCHANGED <<task, page, below, ack, share, network>>

AcknowledgeFault ==
  /\ InWaveform /\ rec = "Fault" /\ ack
  /\ rec' = "Idle" /\ ack' = FALSE
  /\ UNCHANGED <<task, page, below, share, network>>

ExitWaveform ==
  /\ InWaveform /\ rec \notin {"Saving", "Fault"}
  /\ Terminate("exit")
  /\ UNCHANGED <<page, below, rec, ack, share, network>>

Sharing == Idle /\ page = "waveform" /\ share.state # "Inactive"

(* manualNext, stationCountObserved, manualPrevious.                       *)
TurnQrPage ==
  /\ Sharing
  /\ \/ share.state = "WifiQr" /\ share' = [share EXCEPT !.state = "ViewerQr"]
     \/ share.state = "ViewerQr" /\ share' = [share EXCEPT !.state = "WifiQr"]
  /\ UNCHANGED <<task, page, below, rec, ack, network>>

DismissStartError ==
  /\ Sharing /\ share.state = "StartError"
  /\ share' = [share EXCEPT !.state = "Inactive"]
  /\ UNCHANGED <<task, page, below, rec, ack, network>>

AdmissionClosed == [site EXCEPT !.admit = FALSE]

(* requestStop and beginSystemLiveStop: admission off, then local stop is  *)
(* requested of the HTTPD task, which may fail at once.                    *)
RequestStop ==
  /\ Sharing /\ share.state \in {"WifiQr", "ViewerQr"}
  /\ share' = Session("Stopping")
  /\ site' = AdmissionClosed
  /\ \/ UNCHANGED task
     \/ Call("finish", "close")
  /\ UNCHANGED <<page, below, rec, ack, relay, ap, srv, d2b>>

(* The 1000 ms of an orderly stop pass.                                    *)
StopDeadline ==
  /\ Sharing /\ share.state = "Stopping" /\ ~share.late
  /\ share' = [share EXCEPT !.late = TRUE]
  /\ UNCHANGED <<task, page, below, rec, ack, network>>

(* A verdict of LocalStop, good or bad: the HTTPD task closes the owner,   *)
(* or finds none, or fails.                                                *)
TransportStops ==
  /\ Sharing /\ share.state = "Stopping" /\ ~share.over
  /\ share' = [share EXCEPT !.over = TRUE]
  /\ UNCHANGED <<task, page, below, rec, ack, network>>

OverIfReported == share.over
MustStopServer == share.over \/ share.late

(* observeTransportStop and tick, in one loop of the app while stopping.   *)
PollStop ==
  /\ Sharing /\ share.state = "Stopping" /\ MustStopServer
  /\ Call("finish", "close")
  /\ UNCHANGED <<page, below, rec, ack, share, network>>

RetryCleanup ==
  /\ Sharing /\ share.state = "StopRecovery"
  /\ Call("finish", "close")
  /\ UNCHANGED <<page, below, rec, ack, share, network>>

OpenNetworkPage ==
  /\ Idle /\ page = "launcher"
  /\ page' = "network" /\ below' = "launcher"
  /\ UNCHANGED <<task, rec, ack, share, network>>

LeaveNetworkPage ==
  /\ Idle /\ page = "network"
  /\ page' = below
  /\ UNCHANGED <<task, below, rec, ack, share, network>>

ConfigureViaWeb == Idle /\ page = "network" /\ BeginStart("config")

(* The configuration page ends, or its recovery menu is asked to retry.    *)
StopConfiguring ==
  /\ Idle /\ page \in {"configuring", "recovery"}
  /\ Call("endConfig", "close")
  /\ UNCHANGED <<page, below, rec, ack, share, network>>

StartDownload == Idle /\ page = "launcher" /\ BeginStart("download")

StopDownload ==
  /\ Idle /\ page = "downloading"
  /\ Call("endDownload", "close")
  /\ UNCHANGED <<page, below, rec, ack, share, network>>

(* The user may cut the power at any moment: nothing above survives.       *)
PowerCycle ==
  /\ task' = Rest /\ page' = "launcher" /\ below' = "launcher"
  /\ rec' = "Idle" /\ ack' = FALSE
  /\ share' = Session("Inactive")
  /\ relay' = FALSE
  /\ ap' = [on |-> FALSE, state |-> "Inactive"]
  /\ srv' = [owner |-> "None", retained |-> FALSE, gen |-> 0, runs |-> "none"]
  /\ site' = NoSite
  /\ d2b' = StoppedLife
-----------------------------------------------------------------------------
JobStep ==
  \/ StartAp \/ UndoAp \/ ApDown
  \/ Listen \/ RegisterViewer \/ RegisterD2B \/ Arm \/ CloseServer \/ StopHttpd
  \/ RelayOff \/ InvalidateProducer \/ AdmissionOff

UserStep ==
  \/ ToggleRelay \/ OpenMonitor \/ ExitMonitor
  \/ OpenWaveform \/ StartLiveView \/ StartRecording \/ RecorderMoves
  \/ RetryRecorderCleanup \/ AcknowledgeFault \/ ExitWaveform
  \/ TurnQrPage \/ DismissStartError \/ RequestStop \/ PollStop \/ RetryCleanup
  \/ OpenNetworkPage \/ LeaveNetworkPage \/ ConfigureViaWeb \/ StopConfiguring
  \/ StartDownload \/ StopDownload

Next == JobStep \/ UserStep \/ TransportStops \/ StopDeadline \/ PowerCycle

Spec == Init /\ [][Next]_vars

(* The application task runs, its loop polls a stop, and time passes; the  *)
(* transport may never come to an end.                                     *)
FairSpec == Spec /\ WF_vars(JobStep) /\ WF_vars(PollStop) /\ WF_vars(StopDeadline)
-----------------------------------------------------------------------------
(* Properties.  An invariant holds between any two steps of a job, too.    *)

(* The AP is never off, and never believed to be, under a server that      *)
(* still runs: whatever fails, startWebServer, stopWebServer, the download *)
(* and the termination take the AP down only once the server is gone.      *)
ApOutlivesServer ==
  srv.runs # "none" => ap.on /\ ap.state # "Inactive"

(* A start that passed its preflight begins from nothing: no server, no    *)
(* route, no D2B lifecycle, no display profile and no QR data of an earlier *)
(* run are left, so that no later registration can be refused because of   *)
(* one (DisplayProfileSession::begin, State::beginRunning).                *)
StartsFromRest ==
  At("apUp") => /\ srv.owner = "None" /\ srv.runs = "none" /\ ~ap.on
                /\ d2b = StoppedLife
                /\ [site EXCEPT !.record = FALSE] = NoSite

(* Admission of WebSockets opens after everything it promises: the viewer  *)
(* and the stream routes, the QR data, D2B running for this very server,   *)
(* its AP (hal_web_server.cpp: "arming admission readiness").              *)
AdmitsOnlyComplete ==
  site.admit => /\ site.routes = Routes("live") /\ site.qr /\ ap.on
                /\ srv.owner = "System" /\ srv.runs = "live" /\ ~srv.retained
                /\ Accepting(d2b, srv.gen)

(* The Live View page shows a QR code exactly while there is something     *)
(* behind it: admission is open when and only when the session is in one   *)
(* of its two QR states.                                                   *)
QrMeansServing ==
  Idle => (site.admit <=> share.state \in {"WifiQr", "ViewerQr"})

Serving == share.state \in {"WifiQr", "ViewerQr", "Stopping"}
           \/ page \in {"configuring", "downloading"}

(* Nothing is left running unnoticed: outside a serving page a server that *)
(* runs is marked retained, and an AP without server waits for its stop to *)
(* be retried, so that the next start is refused or enters recovery.       *)
DebtIsKnown ==
  Idle /\ ~Serving => /\ srv.runs # "none" => srv.retained
                      /\ ap.on /\ srv.runs = "none" => ap.state = "StopRetryRequired"

(* The relay is open while the configuration page is, or may be, served    *)
(* (startWebServer rejects the start otherwise, and nothing may close it   *)
(* afterwards while a stop is still owed).                                 *)
ConfigRelayOpen == srv.runs = "config" => ~relay

(* A fault may be acknowledged only after a complete teardown: the relay   *)
(* is open and neither a server nor the AP is alive (hasCleanupDebt).      *)
AckMeansClean == ack => ~relay /\ ~ap.on /\ srv.runs = "none" /\ d2b = StoppedLife

(* The D2B lifecycle follows the server it was registered with, by         *)
(* generation, although generations wrap: it is Running or StopFailed only *)
(* for the Live View server that runs, and never left half stopped.        *)
D2BFollowsServer ==
  /\ d2b.phase # "Stopped" => srv.owner = "System" /\ srv.runs = "live" /\ d2b.server = srv.gen
  /\ Idle => d2b.phase # "PreStopping"
  /\ Idle /\ d2b.phase = "StopFailed" => srv.retained

(* A record is selected exactly while a download route can serve it.       *)
SelectedWhileServed == Idle => (site.record <=> "download" \in site.routes)

(* Three groups that the runs check as one property each: what runs and    *)
(* who owes its stop; what is offered to whom; what must be off while the  *)
(* configuration page is served and when a fault is acknowledged.          *)
WhatRunsIsOwned  == ApOutlivesServer /\ StartsFromRest /\ DebtIsKnown
WhatIsOfferedIsThere == AdmitsOnlyComplete /\ QrMeansServing /\ SelectedWhileServed
OutputsAreSafe   == ConfigRelayOpen /\ AckMeansClean

(* A stop of Live View ends, well or in recovery, however often the        *)
(* transport says that it is not done: after kOrderlyLocalStopUiDeadlineMs *)
(* the server is stopped anyway.                                           *)
StoppingEnds == share.state = "Stopping" ~> share.state # "Stopping"
=============================================================================
