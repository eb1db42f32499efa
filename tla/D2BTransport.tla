---------------------------- MODULE D2BTransport ----------------------------
(***************************************************************************)
(* The WebSocket transport of D2B and its local stop.  The HTTPD task owns *)
(* the one client and its control session; the application task asks for a *)
(* stop of Live View (RequestLocalStop, PollLocalStop) and shares nothing  *)
(* with the HTTPD task but a few atomics: status, server, request id, work *)
(* token.  Every load and store of an atomic is a step of its own.  The    *)
(* pipeline is the part of D2BPipeline the transport can see, one step per *)
(* call, because each call runs under the pipeline's send mutex.           *)
(*                                                                         *)
(* One server is up at a time and its handle and generation are forgotten  *)
(* together, so the target of a stop is "the server that is up" or none.   *)
(***************************************************************************)
EXTENDS Naturals, Sequences

CONSTANTS
  OwnerMax,    \* the width of the owner generation counter (UINT32_MAX)
  RequestMax,  \* the width of the stop request counter (UINT32_MAX)
  SocketMax,   \* how many sockets may wait for their handshake (max_open_sockets)
  QueueMax     \* what the HTTPD control socket holds

(* A server has far fewer sockets than there are owner generations: the    *)
(* counter does not come round while one stop is under way.                *)
ASSUME WidthAssumption == OwnerMax \in Nat \ {0, 1} /\ RequestMax \in Nat \ {0}
ASSUME SocketAssumption == SocketMax \in Nat \ {0} /\ SocketMax < OwnerMax
ASSUME QueueAssumption == QueueMax \in Nat \ {0}

VARIABLES
  app,      \* the application task: its step, and the call it is in
  http,     \* the HTTPD task: its step, the stop request and status it works with
  work,     \* the HTTPD work queue
  admit,    \* new sockets get a session context
  pre,      \* how many admitted sockets have not sent their handshake yet
  own,      \* the generation of the WebSocket owner, 0 without one
  ownCount, \* _generationCounter
  sess,     \* the control session's state
  viol,     \* control failures in a row
  gate,     \* the owner a local stop has frozen
  pipe,     \* the pipeline: accepting server, owner, stream
  stat,     \* _localStopStatus
  target,   \* _localStopServer names the server that is up
  reqId,    \* _localStopRequestId
  reqCount, \* _localStopRequestCounter
  token,    \* _localStopWorkToken
  asked     \* history: the owner when the stop was asked for

clientVars == <<own, ownCount, sess, viol, gate>>
atomVars   == <<stat, target, reqId, reqCount, token>>
vars == <<app, http, work, admit, pre, clientVars, pipe, atomVars, asked>>

NoOwner == 0
Owners == 0 .. OwnerMax
Requests == 0 .. RequestMax

Statuses == {"Idle", "NoOwner", "Queued", "OwnerClosing", "ActiveStreamStopping",
             "Complete", "Failed"}
Final   == {"NoOwner", "Complete", "Failed"}
Pending == {"Queued", "OwnerClosing", "ActiveStreamStopping"}

NoGate == [on |-> FALSE, owner |-> NoOwner, request |-> 0]
NoPipe == [accepting |-> FALSE, owner |-> NoOwner, stream |-> "none"]
Rest   == [pc |-> "idle", request |-> 0, status |-> "Idle"]

(* httpd_queue_work: refused when the control socket is full, and whenever *)
(* sending to it fails.                                                    *)
Queue(item) == Len(work) < QueueMax /\ work' = Append(work, item)

StopItem(request) == [kind |-> "stop", arg |-> request]
CloseItem(owner)  == [kind |-> "close", arg |-> owner]

AppSteps  == {"off", "up", "target", "status", "publish", "claim", "enqueue", "failing",
              "poll", "reload", "stop", "join", "after"}
HttpSteps == {"idle", "starting", "closing", "closed", "completing", "apply",
              "report", "free"}

TypeOK ==
  /\ app \in [pc : AppSteps, call : {"none", "request", "poll"}]
  /\ http \in [pc : HttpSteps, request : Requests, status : Statuses]
  /\ work \in Seq([kind : {"stop"}, arg : Requests] \cup [kind : {"close"}, arg : Owners])
  /\ admit \in BOOLEAN /\ pre \in 0 .. SocketMax
  /\ own \in Owners /\ ownCount \in Owners
  /\ sess \in {"Closed", "Connected", "Ready", "Streaming"}
  /\ viol \in 0 .. 3
  /\ gate \in [on : BOOLEAN, owner : Owners, request : Requests]
  /\ pipe \in [accepting : BOOLEAN, owner : Owners, stream : {"none", "live", "stopping"}]
  /\ stat \in Statuses /\ target \in BOOLEAN
  /\ reqId \in Requests /\ reqCount \in Requests /\ token \in Requests
  /\ asked \in Owners

Init ==
  /\ app = [pc |-> "off", call |-> "none"]
  /\ http = Rest /\ work = <<>>
  /\ admit = FALSE /\ pre = 0
  /\ own = NoOwner /\ ownCount = 0 /\ sess = "Closed" /\ viol = 0
  /\ gate = NoGate /\ pipe = NoPipe
  /\ stat = "Idle" /\ target = FALSE /\ reqId = 0 /\ reqCount = 0 /\ token = 0
  /\ asked = NoOwner

(* Both counters skip 0 when they wrap. *)
NextId(count, max) == IF count = max THEN 1 ELSE count + 1

AppAt(pc) == app' = [app EXCEPT !.pc = pc]
HttpAt(pc) == http' = [http EXCEPT !.pc = pc]

HttpIdle == app.pc \notin {"off", "after"} /\ http.pc = "idle"
-----------------------------------------------------------------------------
(* The pipeline's calls, as the transport sees them.                       *)

(* StopPending and the first test of RequestOrderlyStop. *)
Stopping == pipe.owner = own /\ pipe.stream = "stopping"
MayStop  == pipe.accepting /\ pipe.owner = own /\ pipe.stream = "live"
MayStart == pipe.accepting /\ pipe.owner = own /\ pipe.stream = "none"

(* Close and StopServer clear the owner's pipeline; a pipeline that has    *)
(* lost its owner to a failure is left alone.                              *)
PipeClosed(owner) ==
  IF pipe.owner = owner
  THEN [pipe EXCEPT !.owner = NoOwner, !.stream = "none"]
  ELSE pipe

(* The pump callback sent StreamEnd and stream_stopped. *)
OrderlyEnd ==
  /\ HttpIdle /\ pipe.stream = "stopping"
  /\ pipe' = [pipe EXCEPT !.stream = "none"]
  /\ UNCHANGED <<app, http, work, admit, pre, clientVars, atomVars, asked>>

(* FailStream: a send failed or a task broke down.  The stream loses its   *)
(* owner at once and its socket through the work queue, if that has room.  *)
FailStream ==
  /\ pipe.stream # "none"
  /\ pipe' = [pipe EXCEPT !.owner = NoOwner, !.stream = "none"]
  /\ Queue(CloseItem(pipe.owner)) \/ UNCHANGED work
  /\ UNCHANGED <<app, http, admit, pre, clientVars, atomVars, asked>>
-----------------------------------------------------------------------------
(* The HTTPD task: sockets and control messages.                           *)

(* OpenCallback: every socket accepted while admission is ready is given a *)
(* context, a client being connected or not.                               *)
Connect ==
  /\ HttpIdle /\ admit /\ pre < SocketMax
  /\ pre' = pre + 1
  /\ UNCHANGED <<app, http, work, admit, clientVars, pipe, atomVars, asked>>

(* The socket that never became a WebSocket goes away. *)
Leave ==
  /\ HttpIdle /\ pre > 0
  /\ pre' = pre - 1
  /\ UNCHANGED <<app, http, work, admit, clientVars, pipe, atomVars, asked>>

(* Transport::open refuses while a client is connected. *)
RejectHandshake ==
  /\ HttpIdle /\ pre > 0 /\ own # NoOwner
  /\ pre' = pre - 1
  /\ UNCHANGED <<app, http, work, admit, clientVars, pipe, atomVars, asked>>

(* Transport::open.  The context was given at connection time: nothing     *)
(* looks at the admission flag again, and the sockets admitted before it   *)
(* closed may become owners one after another.                             *)
Handshake ==
  /\ HttpIdle /\ pre > 0 /\ own = NoOwner
  /\ pre' = pre - 1
  /\ gate' = NoGate
  /\ ownCount' = NextId(ownCount, OwnerMax)
  /\ IF pipe.accepting /\ pipe.owner = NoOwner
     THEN /\ own' = ownCount'
          /\ sess' = "Connected"
          /\ viol' = 0
          /\ pipe' = [pipe EXCEPT !.owner = ownCount', !.stream = "none"]
     ELSE UNCHANGED <<own, sess, viol, pipe>>
  /\ UNCHANGED <<app, http, work, admit, atomVars, asked>>

(* ValidateClientMessageState *)
Allowed ==
  CASE sess = "Connected" -> {"hello"}
    [] sess = "Ready"     -> {"start", "ping"}
    [] sess = "Streaming" -> {"stop", "ping"}
    [] sess = "Closed"    -> {}

(* HandleClientMessageInto: what a well-formed message is answered.  A     *)
(* message that asks for another version, stream, profile or id is not     *)
(* supported.                                                              *)
Answer(type, supported) ==
  IF type \notin Allowed THEN "InvalidState"
  ELSE IF ~supported THEN "Unsupported" ELSE "None"

(* A failure was answered, well or not: protocolViolation, and the end of  *)
(* processCompleteMessage.                                                 *)
Violation(sent) ==
  /\ viol' = IF viol < 3 THEN viol + 1 ELSE viol
  /\ HttpAt(IF sent /\ viol' < 3 THEN "idle" ELSE "closing")
  /\ UNCHANGED <<sess, pipe>>

\* Plausible slip: a session that is Ready again is served again.
GateIgnored == FALSE

(* localStopGatesCurrentOwner *)
Gated == gate.on /\ gate.owner = own

(* A complete message that does not parse, or frames out of sequence. *)
BadMessage(sent) ==
  /\ HttpIdle /\ own # NoOwner
  /\ Violation(sent)
  /\ UNCHANGED <<app, work, admit, pre, own, ownCount, gate, atomVars, asked>>

(* processCompleteMessage.  A stop is answered by the pipeline when the    *)
(* stream has ended; a start is answered before the stream starts.         *)
Message(type, supported, sent) ==
  /\ HttpIdle /\ own # NoOwner
  /\ IF Gated
     THEN HttpAt("closing") /\ UNCHANGED <<sess, viol, pipe>>
     ELSE IF Stopping \/ Answer(type, supported) # "None"
     THEN Violation(sent)
     ELSE IF type = "stop"
     THEN IF MayStop
          THEN /\ pipe' = [pipe EXCEPT !.stream = "stopping"]
               /\ sess' = "Ready"
               /\ viol' = 0
               /\ UNCHANGED http
          ELSE HttpAt("closing") /\ UNCHANGED <<sess, viol, pipe>>
     ELSE IF ~sent
     THEN HttpAt("closing") /\ UNCHANGED <<sess, viol, pipe>>
     ELSE IF type = "start"
     THEN HttpAt("starting") /\ UNCHANGED <<sess, viol, pipe>>
     ELSE /\ sess' = IF type = "hello" THEN "Ready" ELSE sess
          /\ viol' = 0
          /\ UNCHANGED <<http, pipe>>
  /\ UNCHANGED <<app, work, admit, pre, own, ownCount, gate, atomVars, asked>>

(* D2B_PIPELINE::StartStream with PublishSession under the send mutex. *)
StartStream ==
  /\ http.pc = "starting"
  /\ IF MayStart
     THEN /\ pipe' = [pipe EXCEPT !.stream = "live"]
          /\ sess' = "Streaming"
          /\ viol' = 0
          /\ HttpAt("idle")
     ELSE HttpAt("closing") /\ UNCHANGED <<sess, viol, pipe>>
  /\ UNCHANGED <<app, work, admit, pre, own, ownCount, gate, atomVars, asked>>

(* The owner's socket fails or sends what ends the session. *)
ClientGone ==
  /\ HttpIdle /\ own # NoOwner
  /\ HttpAt("closing")
  /\ UNCHANGED <<app, work, admit, pre, clientVars, pipe, atomVars, asked>>

\* Plausible slip: closing leaves the frozen owner behind.
KeepsGate == gate
GateClosed == IF gate.on /\ gate.owner = own THEN NoGate ELSE gate

(* Transport::close *)
CloseOwner ==
  /\ http.pc = "closing"
  /\ pipe' = PipeClosed(own)
  /\ gate' = GateClosed
  /\ own' = NoOwner /\ sess' = "Closed" /\ viol' = 0
  /\ HttpAt("closed")
  /\ UNCHANGED <<app, work, admit, pre, ownCount, atomVars, asked>>

(* OnClientClosed: the loads, then the store. *)
ClientClosed ==
  /\ http.pc = "closed"
  /\ HttpAt(IF target /\ stat \in Pending THEN "completing" ELSE "idle")
  /\ UNCHANGED <<app, work, admit, pre, clientVars, pipe, atomVars, asked>>

CompleteStop ==
  /\ http.pc = "completing"
  /\ stat' = "Complete"
  /\ HttpAt("idle")
  /\ UNCHANGED <<app, work, admit, pre, clientVars, pipe, target, reqId, reqCount, token, asked>>
-----------------------------------------------------------------------------
(* The HTTPD task: queued work.                                            *)

(* httpd_sess_close of a session that may be gone. *)
CloseWork ==
  /\ HttpIdle /\ work # <<>> /\ Head(work).kind = "close"
  /\ work' = Tail(work)
  /\ HttpAt(IF own # NoOwner /\ own = Head(work).arg THEN "closing" ELSE "idle")
  /\ UNCHANGED <<app, admit, pre, clientVars, pipe, atomVars, asked>>

(* LocalStopWork: the request must still be the current one. *)
LocalStopWork ==
  /\ HttpIdle /\ work # <<>> /\ Head(work).kind = "stop"
  /\ work' = Tail(work)
  /\ http' = [pc |-> IF Head(work).arg = reqId THEN "apply" ELSE "free",
              request |-> Head(work).arg, status |-> stat]
  /\ UNCHANGED <<app, admit, pre, clientVars, pipe, atomVars, asked>>

Reporting(status) == http' = [http EXCEPT !.pc = "report", !.status = status]

\* Plausible slip: a close that was only queued is taken for a closed client.
CompleteOnTrigger == "Complete"
OnTrigger == "OwnerClosing"

(* httpd_sess_trigger_close queues the close, if it can. *)
TriggerClose ==
  \/ Queue(CloseItem(own)) /\ Reporting(OnTrigger)
  \/ UNCHANGED work /\ Reporting("Failed")

Freeze == gate' = [on |-> TRUE, owner |-> own, request |-> http.request]

Halted == "Ready"

(* Transport::beginLocalStop.  Only the session's own state tells whether  *)
(* there is a stream to end in order.                                      *)
BeginLocalStop ==
  /\ http.pc = "apply" /\ http.status = "Queued"
  /\ \/ /\ own = NoOwner
        /\ gate' = NoGate
        /\ Reporting("NoOwner")
        /\ UNCHANGED <<work, sess, pipe>>
     \/ /\ own # NoOwner /\ sess # "Streaming"
        /\ Freeze
        /\ TriggerClose
        /\ UNCHANGED <<sess, pipe>>
     \/ /\ own # NoOwner /\ sess = "Streaming"
        /\ Freeze
        /\ IF MayStop
           THEN /\ pipe' = [pipe EXCEPT !.stream = "stopping"]
                /\ sess' = Halted
                /\ Reporting("ActiveStreamStopping")
           ELSE /\ Reporting("Failed")
                /\ UNCHANGED <<sess, pipe>>
        /\ UNCHANGED work
  /\ UNCHANGED <<app, admit, pre, own, ownCount, viol, atomVars, asked>>

(* Transport::pollLocalStop *)
PollLocalStop ==
  /\ http.pc = "apply" /\ http.status = "ActiveStreamStopping"
  /\ IF ~(gate.on /\ gate.request = http.request /\ gate.owner = own /\ own # NoOwner)
     THEN /\ Reporting("Complete")
          /\ gate' = IF gate.on /\ gate.request = http.request THEN NoGate ELSE gate
          /\ UNCHANGED work
     ELSE /\ UNCHANGED gate
          /\ IF pipe.stream # "none"
             THEN Reporting("ActiveStreamStopping") /\ UNCHANGED work
             ELSE TriggerClose
  /\ UNCHANGED <<app, admit, pre, own, ownCount, sess, viol, pipe, atomVars, asked>>

(* There is nothing to do for the others: their status is stored again. *)
NothingToDo ==
  /\ http.pc = "apply" /\ http.status \notin {"Queued", "ActiveStreamStopping"}
  /\ HttpAt("report")
  /\ UNCHANGED <<app, work, admit, pre, clientVars, pipe, atomVars, asked>>

ReportStatus ==
  /\ http.pc = "report"
  /\ stat' = IF http.request = reqId THEN http.status ELSE stat
  /\ HttpAt("free")
  /\ UNCHANGED <<app, work, admit, pre, clientVars, pipe, target, reqId, reqCount, token, asked>>

\* Plausible slip: a claim that came to nothing is kept.
KeepsToken(request) == token

(* ReleaseLocalStopWorkToken *)
Released(request) == IF token = request THEN 0 ELSE token

ReleaseToken ==
  /\ http.pc = "free"
  /\ token' = Released(http.request)
  /\ http' = Rest
  /\ UNCHANGED <<app, work, admit, pre, clientVars, pipe, stat, target, reqId, reqCount, asked>>
-----------------------------------------------------------------------------
(* The application task.                                                   *)

(* SetServerGeneration, CommitServerRunning, then SetAdmissionReady: until *)
(* the last of them no socket can see any of it.                           *)
StartServer ==
  /\ app.pc = "off"
  /\ AppAt("up")
  /\ gate' = NoGate
  /\ pipe' = [NoPipe EXCEPT !.accepting = TRUE]
  /\ admit' = TRUE
  /\ UNCHANGED <<http, work, pre, own, ownCount, sess, viol, atomVars, asked>>

(* beginSystemLiveStop closes admission and takes a request id. *)
RequestStop ==
  /\ app.pc = "up"
  /\ admit' = FALSE
  /\ reqCount' = NextId(reqCount, RequestMax)
  /\ asked' = own
  /\ app' = [pc |-> "target", call |-> "request"]
  /\ UNCHANGED <<http, work, pre, clientVars, pipe, stat, target, reqId, token>>

StoreTarget ==
  /\ app.pc = "target"
  /\ target' = TRUE
  /\ AppAt("status")
  /\ UNCHANGED <<http, work, admit, pre, clientVars, pipe, stat, reqId, reqCount, token, asked>>

\* Plausible slip: the status of the stop before is left where it is.
KeepsStatus ==
  /\ app.pc = "status"
  /\ AppAt("publish")
  /\ UNCHANGED <<http, work, admit, pre, clientVars, pipe, atomVars, asked>>

StoreQueued ==
  /\ app.pc = "status"
  /\ stat' = "Queued"
  /\ AppAt("publish")
  /\ UNCHANGED <<http, work, admit, pre, clientVars, pipe, target, reqId, reqCount, token, asked>>

PublishRequest ==
  /\ app.pc = "publish"
  /\ reqId' = reqCount
  /\ AppAt("claim")
  /\ UNCHANGED <<http, work, admit, pre, clientVars, pipe, stat, target, reqCount, token, asked>>

(* Where QueueLocalStopWork returns to: a request that could not be queued *)
(* goes straight to the server's stop, a poll reads the status again.      *)
Returned(queued) ==
  IF app.call = "poll" THEN "reload" ELSE IF queued THEN "poll" ELSE "stop"

\* Plausible slip: a second work item for the same request.
ClaimsTwice == TRUE
MayClaim == token = 0

(* QueueLocalStopWork: the token, then the queue. *)
ClaimToken ==
  /\ app.pc = "claim"
  /\ IF MayClaim
     THEN token' = reqId /\ AppAt("enqueue")
     ELSE UNCHANGED token /\ AppAt(Returned(token = reqId))
  /\ UNCHANGED <<http, work, admit, pre, clientVars, pipe, stat, target, reqId, reqCount, asked>>

Enqueue ==
  /\ app.pc = "enqueue"
  /\ Queue(StopItem(reqId))
  /\ AppAt(Returned(TRUE))
  /\ UNCHANGED <<http, admit, pre, clientVars, pipe, atomVars, asked>>

EnqueueFails ==
  /\ app.pc = "enqueue"
  /\ token' = Released(reqId)
  /\ AppAt("failing")
  /\ UNCHANGED <<http, work, admit, pre, clientVars, pipe, stat, target, reqId, reqCount, asked>>

StoreFailed ==
  /\ app.pc = "failing"
  /\ stat' = "Failed"
  /\ AppAt(Returned(FALSE))
  /\ UNCHANGED <<http, work, admit, pre, clientVars, pipe, target, reqId, reqCount, token, asked>>

\* Plausible slip: nobody looks whether the stream has ended.
OnlyQueued == {"Queued"}
NeedsWork == {"Queued", "ActiveStreamStopping"}

(* PollLocalStop: the first load. *)
PollStop ==
  /\ app.pc = "poll"
  /\ app' = [pc |-> IF stat \in NeedsWork THEN "claim" ELSE "reload", call |-> "poll"]
  /\ UNCHANGED <<http, work, admit, pre, clientVars, pipe, atomVars, asked>>

(* PollLocalStop: the last load, and observeTransportStop. *)
ReloadStatus ==
  /\ app.pc = "reload"
  /\ AppAt(IF stat \in Final THEN "stop" ELSE "poll")
  /\ UNCHANGED <<http, work, admit, pre, clientVars, pipe, atomVars, asked>>

(* kOrderlyLocalStopUiDeadlineMs passes: the server is stopped anyway. *)
Deadline ==
  /\ app.pc = "poll"
  /\ AppAt("stop")
  /\ UNCHANGED <<http, work, admit, pre, clientVars, pipe, atomVars, asked>>

(* PrepareServerStop, that is D2B_PIPELINE::StopServer. *)
StopServer ==
  /\ app.pc = "stop"
  /\ pipe' = NoPipe
  /\ AppAt("join")
  /\ UNCHANGED <<http, work, admit, pre, clientVars, atomVars, asked>>

(* httpd_stop joins the task; work that is left is never run. *)
HttpdStops ==
  /\ app.pc = "join" /\ http.pc = "idle"
  /\ work' = <<>>
  /\ pre' = 0
  /\ AppAt("after")
  /\ UNCHANGED <<http, admit, clientVars, pipe, atomVars, asked>>

(* httpd_stop fails: the server goes on, and its stop is tried again. *)
HttpdStopFails ==
  /\ app.pc = "join"
  /\ AppAt("stop")
  /\ UNCHANGED <<http, work, admit, pre, clientVars, pipe, atomVars, asked>>

AfterServerStopped ==
  /\ app.pc = "after"
  /\ own' = NoOwner /\ sess' = "Closed" /\ viol' = 0
  /\ gate' = NoGate
  /\ reqCount' = NextId(reqCount, RequestMax)
  /\ target' = FALSE
  /\ reqId' = reqCount'
  /\ token' = 0
  /\ stat' = "Complete"
  /\ asked' = NoOwner
  /\ app' = [pc |-> "off", call |-> "none"]
  /\ UNCHANGED <<http, work, admit, pre, ownCount, pipe>>
-----------------------------------------------------------------------------
Messages == {"hello", "start", "stop", "ping"}

Client ==
  \/ Connect \/ Leave \/ RejectHandshake \/ Handshake \/ ClientGone
  \/ \E sent \in BOOLEAN :
       \/ BadMessage(sent)
       \/ \E type \in Messages, supported \in BOOLEAN : Message(type, supported, sent)

Handler == StartStream \/ CloseOwner \/ ClientClosed \/ CompleteStop
Work == CloseWork \/ LocalStopWork
StopWork == BeginLocalStop \/ PollLocalStop \/ NothingToDo \/ ReportStatus \/ ReleaseToken

Requesting == StoreTarget \/ StoreQueued \/ PublishRequest
Queueing == ClaimToken \/ Enqueue \/ EnqueueFails \/ StoreFailed
Polling == PollStop \/ ReloadStatus

Next ==
  \/ OrderlyEnd \/ FailStream
  \/ Client \/ Handler \/ Work \/ StopWork
  \/ StartServer \/ RequestStop \/ Requesting \/ Queueing \/ Polling \/ Deadline
  \/ StopServer \/ HttpdStops \/ HttpdStopFails \/ AfterServerStopped

Spec == Init /\ [][Next]_vars

(* The application loop keeps polling; the HTTPD task runs its handlers to *)
(* the end and serves its control socket however busy its clients keep it; *)
(* a stream that is stopping ends (D2BPipeline's OrderlyStopEnds).  Nobody *)
(* waits for the deadline, for a client or for a new start.                *)
FairSpec ==
  /\ Spec
  /\ WF_vars(Requesting) /\ WF_vars(Queueing) /\ WF_vars(Polling)
  /\ WF_vars(Handler) /\ WF_vars(StopWork)
  /\ SF_vars(Work)
  /\ SF_vars(OrderlyEnd)
-----------------------------------------------------------------------------
(* Properties *)

(* The token stands for the one work item of the current request: queued,  *)
(* being queued, or at work on the HTTPD task.                             *)
StopItems == {i \in DOMAIN work : work[i].kind = "stop"}
AtWork == http.pc \in {"apply", "report", "free"}
BeingQueued == app.pc = "enqueue"

(* Asking twice never puts two work items of a stop side by side, and the  *)
(* token is free when there is none, so that a later poll can queue again  *)
(* (QueueLocalStopWork, ReleaseLocalStopWorkToken).                        *)
OneWorkPerRequest ==
  app.pc # "after" =>
    IF token = 0
    THEN StopItems = {} /\ ~AtWork /\ ~BeingQueued
    ELSE \/ \E i \in StopItems : StopItems = {i} /\ work[i].arg = token /\ ~AtWork /\ ~BeingQueued
         \/ StopItems = {} /\ AtWork /\ http.request = token /\ ~BeingQueued
         \/ StopItems = {} /\ ~AtWork /\ BeingQueued /\ reqId = token

(* A verdict is not taken back: once the application can read that the     *)
(* stop is over, no work item that loaded an older status stores it over   *)
(* the verdict (LocalStopWork loads, works and stores in three steps).     *)
VerdictStays ==
  [][app.pc \in {"claim", "enqueue", "failing", "poll", "reload"} /\ stat \in Final
       => stat' \in Final]_vars

(* The owner a stop has taken hold of does not start a stream again, not   *)
(* even between the end of its stream and the close of its socket (the     *)
(* gate of processCompleteMessage).                                        *)
StopsForGood ==
  gate.on => sess # "Streaming" \/ ~(pipe.owner = own /\ pipe.stream # "none")

(* When the application is told that nobody is left, the client that was   *)
(* connected when it asked is gone.                                        *)
ReportedStopsAreReal ==
  app.pc \in {"poll", "reload"} /\ stat \in {"NoOwner", "Complete"} =>
    asked = NoOwner \/ own # asked

(* A frozen owner is the owner there is: a gate outlives neither its       *)
(* client nor its server, so no later client is closed for an older one.   *)
GateFollowsOwner == gate.on => own # NoOwner /\ gate.owner = own

(* Between handlers the pipeline serves the transport's owner or none, and *)
(* its stream is live exactly when that owner's session is streaming.      *)
SessionAgrees ==
  /\ (own = NoOwner) <=> (sess = "Closed")
  /\ pipe.owner # NoOwner => http.pc = "closed" \/ pipe.owner = own
  /\ pipe.owner # NoOwner /\ pipe.owner = own =>
       ((pipe.stream = "live") <=> (sess = "Streaming"))

(* The gate, the session and the pipeline speak of one owner.              *)
OwnersAgree == GateFollowsOwner /\ SessionAgrees

(* The deadline is a last resort: a stop that is being polled is over      *)
(* without it, because every status but a final one has something under    *)
(* way that will change it.                                                *)
StopNeedsNoDeadline == app.pc = "poll" ~> app.pc = "stop"

Waiting == {"target", "status", "publish", "claim", "enqueue", "failing", "poll", "reload"}

StopPhase ==
  IF app.pc \in Waiting THEN "waiting"
  ELSE [off |-> "off", up |-> "serving", stop |-> "decided", join |-> "stopping",
        after |-> "stopped"][app.pc]

(* Until the request is published the status is an older one's. *)
Verdict ==
  IF app.pc \notin Waiting THEN "none"
  ELSE IF app.pc \in {"target", "status"} THEN "pending"
  ELSE IF stat \in {"NoOwner", "Complete"} THEN "gone"
  ELSE IF stat = "Failed" THEN "failed"
  ELSE "pending"

HeldClient == IF gate.on THEN gate.owner ELSE NoOwner

(* The atomics, the work queue and the handlers together keep what the     *)
(* application relies on (RequestLocalStop, PollLocalStop, LocalStopWork). *)
Stop == INSTANCE LocalStop WITH
  Clients <- 1 .. OwnerMax, NoClient <- NoOwner, phase <- StopPhase, verdict <- Verdict,
  door <- pre, client <- own, held <- HeldClient, stream <- pipe.stream
ImplementsLocalStop == Stop!Spec
=============================================================================
