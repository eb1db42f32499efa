----------------------------- MODULE D2BPipeline ----------------------------
(***************************************************************************)
(* The live V/I stream between the sampler and the WebSocket.  Five tasks  *)
(* share it:                                                               *)
(*   the measurement task    Tap                                           *)
(*   the encoder task        EncoderTask: samples to frames                *)
(*   the TX task             TxTask: asks HTTPD, at least every 100 ms, to *)
(*                           run a send callback                           *)
(*   the HTTPD task          session handlers and PumpWork, one at a time  *)
(*   the application task    starts and stops the HTTP server              *)
(* One action is one critical section or one library call.  _lock and the  *)
(* producer's own lock make critical sections atomic; _send_mutex spans    *)
(* several of them and is the variable mutex.  httpd_queue_work is called  *)
(* with the mutex held, so request and enqueue are one action.             *)
(***************************************************************************)
EXTENDS Naturals, Sequences, FiniteSets, D2BFrames, SendPump, HttpdLifecycle

CONSTANTS
  PumpBurst,    \* kPumpFramesPerCallback (4)
  Samples,      \* bound: samples tapped per stream
  MaxServer,    \* bound: server starts
  MaxOwner,     \* bound: WebSocket owners
  MaxStream     \* bound: streams

ASSUME PipelineAssumption ==
  /\ PumpBurst \in Nat \ {0}
  /\ Samples \in Nat /\ Samples <= SeqLimit
  /\ MaxServer \in Nat /\ MaxOwner \in Nat /\ MaxStream \in Nat

VARIABLES
  \* d2b_vi_pipeline.cpp
  life,        \* _lifecycle
  owner,       \* _owner, NoOwner when ~_owner_open
  active,      \* _stream_active
  stopping,    \* _stopping
  sid,         \* _stream_id
  first,       \* _first_transport_frame
  expected,    \* _expected_sequence
  out,         \* _output
  pump,        \* _pump
  taskFault,   \* _task_fault
  busy,        \* _encoder_busy
  mutex,       \* who holds _send_mutex
  \* d2b_vi_producer.cpp
  prod,        \* _active, _stream_id, _next_sequence, _sequence_exhausted
  acq,         \* _ring
  notified,    \* the encoder task's notification value, as a flag
  \* the tasks' own positions and locals
  enc, tx, http, app,
  \* ESP-IDF: the work queue of the HTTPD task
  workq,
  \* d2b_esp_transport.cpp, what of it decides which pipeline call comes next
  conn,        \* _owner.generation, 0 when inactive
  session,     \* _session.streamId while Streaming, else 0
  closing,     \* a handler returned ESP_FAIL: HTTPD closes the socket next
  \* generation and id counters
  serverCount, ownerCount, streamCount,
  \* history, for the properties only
  wire,        \* what the client of the latest stream was sent
  lost         \* which of its samples each ring dropped

lifeVars   == <<life, taskFault>>
streamVars == <<owner, active, stopping, sid, first, expected>>
prodVars   == <<prod, acq>>
connVars   == <<conn, session, closing>>
countVars  == <<serverCount, ownerCount, streamCount>>
histVars   == <<wire, lost>>
vars == <<lifeVars, streamVars, out, pump, busy, mutex, prodVars, notified,
          enc, tx, http, app, workq, connVars, countVars, histVars>>

NoOwner == [gen |-> 0, server |-> NoServer]
Owners  == [gen : 0 .. MaxOwner, server : 0 .. MaxServer]

Stopped0 == [active |-> FALSE, id |-> 0, next |-> 0, exhausted |-> FALSE]
Snap(id, queued, next) == [id |-> id, queued |-> queued, next |-> next]
NoSnap == Snap(0, 0, 0)

PumpItem(token) == [kind |-> "pump", arg |-> token]
CloseItem(gen)  == [kind |-> "close", arg |-> gen]

Contract == INSTANCE StreamContract WITH
  StreamIds  <- 1 .. MaxStream,
  SeqNumbers <- Sequences,
  FrameFlags <- Flags,
  stream     <- IF active THEN sid ELSE 0,
  ending     <- active /\ stopping,
  sent       <- wire

-----------------------------------------------------------------------------
(* Helpers shared by the actions *)

OwnerMatches(o) == owner # NoOwner /\ o = owner

(* The transport's owner as the pipeline is given it: the WebSocket        *)
(* handlers run on the server that is up.                                  *)
TransportOwner == [gen |-> conn, server |-> serverCount]

(* The HTTPD task exists from httpd_start until its shutdown. *)
HttpdRuns == app \notin {"down", "joined"}
HttpdIdle == HttpdRuns /\ http.pc = "idle"
(* A failed handler's socket is closed before anything else is served. *)
HttpdServes == HttpdIdle /\ ~closing

HttpAt(pc) == http' = [http EXCEPT !.pc = pc]

ProducerSnapshot == Snap(prod.id, Len(acq.queue), prod.next)

\* Plausible slip: the producer is switched off and keeps its stream id.
AbortKeepsId(id) ==
  /\ IF prod.id = id
     THEN prod' = [prod EXCEPT !.active = FALSE] /\ acq' = EmptyAcq
     ELSE UNCHANGED prodVars
  /\ notified' = TRUE

(* D2B_PRODUCER::Abort *)
Abort(id) ==
  /\ IF prod.id = id
     THEN /\ prod' = [prod EXCEPT !.active = FALSE, !.id = 0]
          /\ acq' = EmptyAcq
     ELSE UNCHANGED prodVars
  /\ notified' = TRUE

(* ClearPipelineLocked *)
ClearPipeline ==
  /\ pump' = Invalidate(pump, owner.gen)
  /\ owner' = NoOwner
  /\ active' = FALSE
  /\ stopping' = FALSE
  /\ sid' = 0
  /\ out' = OutClear(out)
  /\ UNCHANGED <<first, expected>>

(* The three fields and the queue that an ended stream leaves behind. *)
ClearStream ==
  /\ active' = FALSE
  /\ stopping' = FALSE
  /\ sid' = 0
  /\ out' = OutClear(out)
  /\ UNCHANGED <<owner, first, expected>>

Init ==
  /\ life = StoppedLife /\ taskFault = FALSE
  /\ owner = NoOwner /\ active = FALSE /\ stopping = FALSE /\ sid = 0
  /\ first = TRUE /\ expected = 0
  /\ out = EmptyOut /\ pump = IdlePump /\ busy = FALSE /\ mutex = "free"
  /\ prod = Stopped0 /\ acq = EmptyAcq /\ notified = FALSE
  /\ enc = [pc |-> "wait", left |-> 0, seq |-> 0, overflow |-> FALSE, id |-> 0]
  /\ tx = [pc |-> "wait", owner |-> NoOwner]
  /\ http = [pc |-> "idle", drained |-> 0, snap |-> NoSnap]
  /\ app = "down" /\ workq = <<>>
  /\ conn = 0 /\ session = 0 /\ closing = FALSE
  /\ serverCount = 0 /\ ownerCount = 0 /\ streamCount = 0
  /\ wire = <<>> /\ lost = [acq |-> {}, out |-> {}]

-----------------------------------------------------------------------------
(* The measurement task *)

Tap ==
  /\ prod.active /\ ~prod.exhausted
  /\ prod.next < Samples \/ prod.next = SeqLimit
  /\ acq' = AcqPush(acq, prod.next)
  /\ lost' = IF Len(acq.queue) = AcqDepth
             THEN [lost EXCEPT !.acq = @ \cup {Head(acq.queue)}] ELSE lost
  /\ prod' = IF prod.next = SeqLimit THEN [prod EXCEPT !.exhausted = TRUE]
                                     ELSE [prod EXCEPT !.next = @ + 1]
  /\ notified' = TRUE
  /\ UNCHANGED <<lifeVars, streamVars, out, pump, busy, mutex, enc, tx, http, app,
                 workq, connVars, countVars, wire>>

-----------------------------------------------------------------------------
(* The encoder task: WriteSingleViFrame cannot refuse a sample that        *)
(* BuildAcquisitionSample made canonical, so its error branch never runs.  *)

encoderOnly == <<lifeVars, streamVars, pump, mutex, tx, http, app, workq,
                 connVars, countVars, wire>>

EncoderClaim ==
  /\ \/ /\ enc.pc = "wait" /\ notified
        /\ notified' = FALSE
        /\ enc' = [enc EXCEPT !.pc = "pop", !.left = AcqDepth]
     \/ /\ enc.pc = "next"
        /\ enc' = [enc EXCEPT !.pc = "pop"]
        /\ UNCHANGED notified
  /\ busy' = TRUE
  /\ UNCHANGED <<encoderOnly, out, prodVars, lost>>

EncoderPop ==
  /\ enc.pc = "pop"
  /\ IF prod.id # 0 /\ acq.queue # <<>>
     THEN /\ enc' = [enc EXCEPT !.pc = "push", !.seq = Head(acq.queue),
                                !.overflow = acq.overflow, !.id = prod.id]
          /\ acq' = AcqPop(acq)
     ELSE /\ enc' = [enc EXCEPT !.pc = "release"]
          /\ UNCHANGED acq
  /\ UNCHANGED <<encoderOnly, out, prod, busy, notified, lost>>

EncoderPush ==
  LET frame == EncodedFrame(enc.seq, enc.overflow)
  IN  /\ enc.pc = "push"
      /\ IF owner # NoOwner /\ active /\ sid = enc.id
         THEN /\ out' = OutPush(out, frame)
              /\ lost' = IF Len(out.queue) = OutDepth
                         THEN [lost EXCEPT !.out = @ \cup {Head(out.queue).seq}] ELSE lost
         ELSE UNCHANGED <<out, lost>>
      /\ busy' = FALSE
      /\ enc' = [enc EXCEPT !.pc = IF enc.left > 1 THEN "next" ELSE "wait", !.left = @ - 1]
      /\ UNCHANGED <<encoderOnly, prodVars, notified>>

\* Plausible slip: the notification is cleared after the work, not before.
EncoderReleaseClears ==
  /\ enc.pc = "release"
  /\ busy' = FALSE
  /\ enc' = [enc EXCEPT !.pc = "wait", !.left = 0]
  /\ notified' = FALSE
  /\ UNCHANGED <<encoderOnly, out, prodVars, lost>>

EncoderRelease ==
  /\ enc.pc = "release"
  /\ busy' = FALSE
  /\ enc' = [enc EXCEPT !.pc = "wait", !.left = 0]
  /\ UNCHANGED <<encoderOnly, out, prodVars, notified, lost>>

Encoder == EncoderClaim \/ EncoderPop \/ EncoderPush \/ EncoderRelease

-----------------------------------------------------------------------------
(* The TX task.  Its notification only shortens a wait that ends by itself *)
(* after 100 ms, so the loop body may start at any time.                   *)

txOnly == <<lifeVars, streamVars, out, busy, mutex, prodVars, notified, enc,
            http, app, connVars, countVars, histVars>>

\* Plausible slip: no more polling once the stop was accepted.
LatchUnlessStopping == owner # NoOwner /\ active /\ ~stopping

Latches == owner # NoOwner /\ active

TxLatch ==
  /\ tx.pc = "wait" /\ Latches
  /\ tx' = [pc |-> "request", owner |-> owner]
  /\ UNCHANGED <<txOnly, pump, workq>>

(* RequestPump, by what became of the request. *)
PumpWanted == OwnerMatches(tx.owner) /\ active /\ CanSchedule(pump, tx.owner.gen)

RequestPumpQueued ==
  /\ tx.pc = "request" /\ mutex = "free" /\ PumpWanted
  /\ pump' = Request(pump)
  /\ workq' = Append(workq, PumpItem(pump'.pending))
  /\ tx' = [pc |-> "wait", owner |-> NoOwner]
  /\ UNCHANGED txOnly

RequestPumpRejected ==
  /\ tx.pc = "request" /\ mutex = "free" /\ PumpWanted
  /\ pump' = Reject(Request(pump), tx.owner.gen, NextToken(pump))
  /\ tx' = [pc |-> "wait", owner |-> NoOwner]
  /\ UNCHANGED <<txOnly, workq>>

RequestPumpDeclined ==
  /\ tx.pc = "request" /\ mutex = "free" /\ ~PumpWanted
  /\ tx' = [pc |-> "wait", owner |-> NoOwner]
  /\ UNCHANGED <<txOnly, pump, workq>>

-----------------------------------------------------------------------------
(* The HTTPD task: PumpWork *)

pumpOnly == <<life, prodVars, notified, busy, enc, tx, app, conn, session, closing,
              countVars>>

PumpBegin ==
  /\ HttpdServes /\ mutex = "free"
  /\ workq # <<>> /\ Head(workq).kind = "pump"
  /\ workq' = Tail(workq)
  /\ LET token == Head(workq).arg
     IN  IF owner # NoOwner /\ active /\ CanBegin(pump, owner.gen, token)
         THEN /\ pump' = Begin(pump, token)
              /\ mutex' = "httpd"
              /\ http' = [http EXCEPT !.pc = "drain", !.drained = 0]
         ELSE UNCHANGED <<pump, mutex, http>>   \* BeginResult::Stale
  /\ UNCHANGED <<pumpOnly, taskFault, streamVars, out, histVars>>

(* FailStream(fromPump), its first critical section; Abort and Clear       *)
(* follow as steps of their own.                                           *)
FailStream(isTaskFault) ==
  /\ taskFault' = (taskFault \/ isTaskFault)
  /\ pump' = Invalidate(pump, owner.gen)
  /\ HttpAt("failAbort")

(* One round of the drain loop: pop, prepare, send. *)
PumpSendFrame ==
  /\ http.pc = "drain" /\ http.drained < PumpBurst /\ out.queue # <<>>
  /\ out' = OutPop(out)
  /\ LET frame == Head(out.queue)
         ready == Prepared(frame, out.pending, first, expected)
     IN  \/ /\ PrepareRejects(frame, first, expected)
            /\ FailStream(TRUE)
            /\ UNCHANGED <<first, expected, wire>>
         \/ /\ ~PrepareRejects(frame, first, expected)
            /\ FailStream(FALSE)                       \* the send failed
            /\ UNCHANGED <<first, expected, wire>>
         \/ /\ ~PrepareRejects(frame, first, expected)
            /\ wire' = Append(wire, Contract!Data(sid, ready.seq, ready.flags))
            /\ first' = FALSE
            /\ expected' = ready.seq + 1
            /\ http' = [http EXCEPT !.drained = @ + 1]
            /\ UNCHANGED <<taskFault, pump>>
  /\ UNCHANGED <<pumpOnly, owner, active, stopping, sid, mutex, workq, lost>>

PumpDrained ==
  /\ http.pc = "drain" /\ (http.drained = PumpBurst \/ out.queue = <<>>)
  /\ HttpAt("snapshot")
  /\ UNCHANGED <<pumpOnly, taskFault, streamVars, out, pump, mutex, workq, histVars>>

(* D2B_PRODUCER::GetSnapshot, taken before _lock is: once for              *)
(* ReadyForStreamEnd and once more before the callback finishes.           *)
PumpSnapshot ==
  /\ http.pc \in {"snapshot", "resnapshot"}
  /\ http' = [http EXCEPT !.pc = IF @ = "snapshot" THEN "ready" ELSE "finish",
                          !.snap = ProducerSnapshot]
  /\ UNCHANGED <<pumpOnly, taskFault, streamVars, out, pump, mutex, workq, histVars>>

(* ReadyForStreamEndLocked *)
ReadyForStreamEnd(snap) ==
  /\ stopping /\ active /\ ~busy
  /\ snap.id = sid /\ snap.queued = 0 /\ out.queue = <<>>

PumpReady ==
  /\ http.pc = "ready"
  /\ HttpAt(IF ReadyForStreamEnd(http.snap) THEN "end" ELSE "resnapshot")
  /\ UNCHANGED <<pumpOnly, taskFault, streamVars, out, pump, mutex, workq, histVars>>

(* The end frame, then the copied stream_stopped text; either may fail. *)
PumpSendEnd ==
  /\ http.pc = "end"
  /\ \/ FailStream(FALSE) /\ UNCHANGED wire
     \/ /\ wire' = Append(wire, Contract!End(sid, prod.next))
        /\ HttpAt("stoppedText")
        /\ UNCHANGED <<taskFault, pump>>
  /\ UNCHANGED <<pumpOnly, streamVars, out, mutex, workq, lost>>

PumpSendStopped ==
  /\ http.pc = "stoppedText"
  /\ \/ FailStream(FALSE) /\ UNCHANGED wire
     \/ /\ wire' = Append(wire, Contract!Stopped(sid))
        /\ HttpAt("complete")
        /\ UNCHANGED <<taskFault, pump>>
  /\ UNCHANGED <<pumpOnly, streamVars, out, mutex, workq, lost>>

(* CompleteOrderlyStop: the producer is frozen and drained by now, so its  *)
(* three critical sections are one step. *)
CompleteOrderlyStop ==
  /\ http.pc = "complete"
  /\ pump' = Finish(pump, FALSE)
  /\ Abort(sid)
  /\ ClearStream
  /\ mutex' = "free"
  /\ HttpAt("idle")
  /\ UNCHANGED <<lifeVars, busy, enc, tx, app, workq, connVars, countVars, histVars>>

(* The callback ends: rescheduled when work remains, and then either       *)
(* queued or, the queue refusing it, rejected.                             *)
PumpFinish ==
  /\ http.pc = "finish"
  /\ LET token == pump.executing
         workRemains == active /\ (out.queue # <<>> \/ ReadyForStreamEnd(http.snap))
         done == Finish(pump, workRemains)
     IN  \/ /\ pump' = done
            /\ workq' = IF workRemains THEN Append(workq, PumpItem(done.pending)) ELSE workq
         \/ /\ workRemains
            /\ pump' = Reject(done, owner.gen, done.pending)
            /\ UNCHANGED workq
  /\ mutex' = "free"
  /\ HttpAt("idle")
  /\ UNCHANGED <<pumpOnly, taskFault, streamVars, out, histVars>>

(* The rest of FailStream, under the mutex PumpWork holds.  The close it   *)
(* asks HTTPD for may be refused; that is only logged.                     *)
FailStreamAbort ==
  /\ http.pc = "failAbort"
  /\ Abort(sid)
  /\ HttpAt("failClear")
  /\ UNCHANGED <<lifeVars, streamVars, out, pump, busy, mutex, enc, tx, app, workq,
                 connVars, countVars, histVars>>

FailStreamClear ==
  /\ http.pc = "failClear"
  /\ ClearPipeline
  /\ \/ Accepting(life, owner.server) /\ workq' = Append(workq, CloseItem(owner.gen))
     \/ UNCHANGED workq
  /\ mutex' = "free"
  /\ notified' = TRUE
  /\ HttpAt("idle")
  /\ UNCHANGED <<lifeVars, busy, prodVars, enc, tx, app, connVars, countVars, histVars>>

-----------------------------------------------------------------------------
(* The HTTPD task: what the WebSocket handlers ask of the pipeline.  The   *)
(* handlers of one server run one after the other.                         *)

handlerOnly == <<busy, enc, tx, app, serverCount, histVars>>

StopPending == OwnerMatches(TransportOwner) /\ stopping

(* Open: a second owner is refused by the transport before it gets here; a *)
(* refused pipeline makes the transport forget the socket again.           *)
CanOpenEvenStopping(new) == ~taskFault /\ owner = NoOwner

CanOpen(new) == ~taskFault /\ owner = NoOwner /\ Accepting(life, new.server)

OpenOwner ==
  LET new == [gen |-> ownerCount + 1, server |-> serverCount]
  IN  /\ HttpdServes /\ mutex = "free" /\ conn = 0
      /\ ownerCount < MaxOwner
      /\ ownerCount' = ownerCount + 1
      /\ IF CanOpen(new)
         THEN /\ pump' = Activate(pump, new.gen)
              /\ owner' = new
              /\ active' = FALSE /\ stopping' = FALSE /\ sid' = 0
              /\ out' = OutClear(out)
              /\ conn' = new.gen /\ session' = 0
              /\ UNCHANGED <<first, expected>>
         ELSE UNCHANGED <<pump, streamVars, out, conn, session>>
      /\ UNCHANGED <<handlerOnly, lifeVars, mutex, prodVars, notified, http, workq,
                     closing, streamCount>>

CanStart == OwnerMatches(TransportOwner) /\ ~active /\ ~stopping /\ Accepting(life, serverCount)

(* StartStream up to the end of its critical section, after the transport  *)
(* announced the stream: a refused start or a failed announcement closes   *)
(* the connection.                                                         *)
StartStream ==
  LET new == streamCount + 1
  IN  /\ HttpdServes /\ mutex = "free" /\ conn # 0 /\ session = 0 /\ ~StopPending
      /\ streamCount < MaxStream
      /\ streamCount' = new
      /\ \/ /\ CanStart
            /\ active' = TRUE /\ sid' = new /\ first' = TRUE /\ expected' = 0
            /\ out' = OutClear(out)
            /\ mutex' = "httpd"
            /\ HttpAt("startProducer")
            /\ wire' = <<>> /\ lost' = [acq |-> {}, out |-> {}]
            /\ UNCHANGED <<owner, stopping, closing>>
         \/ /\ closing' = TRUE
            /\ UNCHANGED <<streamVars, out, mutex, http, histVars>>
      /\ UNCHANGED <<lifeVars, pump, busy, prodVars, notified, enc, tx, app, workq,
                     conn, session, serverCount, ownerCount>>

(* D2B_PRODUCER::Start, then the session is published as Streaming. *)
StartProducer ==
  /\ http.pc = "startProducer"
  /\ prod' = [active |-> TRUE, id |-> sid, next |-> 0, exhausted |-> FALSE]
  /\ acq' = EmptyAcq
  /\ notified' = TRUE
  /\ session' = sid
  /\ mutex' = "free"
  /\ HttpAt("idle")
  /\ UNCHANGED <<handlerOnly, lifeVars, streamVars, out, pump, workq, conn, closing,
                 ownerCount, streamCount>>

CanStop ==
  /\ OwnerMatches(TransportOwner) /\ active /\ ~stopping /\ sid = session
  /\ Accepting(life, serverCount)
  /\ prod.active /\ prod.id = session

(* RequestOrderlyStop: test and Freeze, or Abort and close. *)
RequestOrderlyStop ==
  /\ HttpdServes /\ mutex = "free" /\ conn # 0 /\ session # 0 /\ ~StopPending
  /\ IF CanStop
     THEN /\ prod' = [prod EXCEPT !.active = FALSE]
          /\ notified' = TRUE
          /\ mutex' = "httpd"
          /\ HttpAt("commitStop")
          /\ UNCHANGED <<acq, closing>>
     ELSE /\ Abort(session)
          /\ closing' = TRUE
          /\ UNCHANGED <<mutex, http>>
  /\ UNCHANGED <<handlerOnly, lifeVars, streamVars, out, pump, workq, conn, session,
                 ownerCount, streamCount>>

CommitOrderlyStop ==
  /\ http.pc = "commitStop"
  /\ stopping' = TRUE
  /\ notified' = TRUE
  /\ session' = 0
  /\ mutex' = "free"
  /\ HttpAt("idle")
  /\ UNCHANGED <<handlerOnly, lifeVars, owner, active, sid, first, expected, out, pump,
                 prodVars, workq, conn, closing, ownerCount, streamCount>>

(* Close, entered for a disconnect, a failed handler or a queued close.    *)
BeginClose ==
  IF OwnerMatches(TransportOwner)
  THEN /\ pump' = Invalidate(pump, owner.gen)
       /\ mutex' = "httpd"
       /\ HttpAt("closeAbort")
       /\ UNCHANGED <<connVars, notified>>
  ELSE /\ conn' = 0 /\ session' = 0 /\ closing' = FALSE
       /\ notified' = TRUE
       /\ UNCHANGED <<pump, mutex, http>>

closeOnly == <<handlerOnly, lifeVars, ownerCount, streamCount>>

ClientGone ==
  /\ HttpdIdle /\ mutex = "free" /\ conn # 0
  /\ BeginClose
  /\ UNCHANGED <<closeOnly, streamVars, out, prodVars, workq>>

CloseWork ==
  /\ HttpdServes /\ mutex = "free"
  /\ workq # <<>> /\ Head(workq).kind = "close"
  /\ workq' = Tail(workq)
  /\ IF conn = Head(workq).arg
     THEN BeginClose
     ELSE UNCHANGED <<pump, mutex, http, connVars, notified>>
  /\ UNCHANGED <<closeOnly, streamVars, out, prodVars>>

CloseAbort ==
  /\ http.pc = "closeAbort"
  /\ IF sid # 0 THEN Abort(sid) ELSE UNCHANGED <<prodVars, notified>>
  /\ HttpAt("closeClear")
  /\ UNCHANGED <<closeOnly, streamVars, out, pump, mutex, connVars, workq>>

CloseClear ==
  /\ http.pc = "closeClear"
  /\ ClearPipeline
  /\ notified' = TRUE
  /\ mutex' = "free"
  /\ conn' = 0 /\ session' = 0 /\ closing' = FALSE
  /\ HttpAt("idle")
  /\ UNCHANGED <<closeOnly, prodVars, workq>>

-----------------------------------------------------------------------------
(* The application task: the server's life as the pipeline is told of it.  *)

appOnly == <<taskFault, busy, enc, tx, histVars, ownerCount, streamCount>>

CommitServerRunning ==
  /\ app = "down" /\ mutex = "free" /\ serverCount < MaxServer
  /\ ~taskFault /\ CanBeginRunning(life, serverCount + 1)
  /\ serverCount' = serverCount + 1
  /\ life' = BeginRunning(serverCount + 1)
  /\ app' = "up"
  /\ UNCHANGED <<appOnly, streamVars, out, pump, mutex, prodVars, notified, http,
                 workq, connVars>>

\* Plausible slip: the stop does not wait for a callback under way.
StopServerWithoutMutex == app \in {"up", "failed"}

CanStopServer == app \in {"up", "failed"} /\ mutex = "free"

(* StopServer, first request or retry. *)
StopServer ==
  /\ CanStopServer
  /\ life' = BeginStop(life, serverCount)
  /\ IF owner # NoOwner /\ owner.server = serverCount
     THEN /\ pump' = Invalidate(pump, owner.gen)
          /\ mutex' = "app"
          /\ app' = "stopAbort"
          /\ UNCHANGED notified
     ELSE /\ app' = "httpdStop"
          /\ notified' = TRUE
          /\ UNCHANGED <<pump, mutex>>
  /\ UNCHANGED <<appOnly, streamVars, out, prodVars, http, workq, connVars, serverCount>>

StopServerAbort ==
  /\ app = "stopAbort"
  /\ IF sid # 0 THEN Abort(sid) ELSE UNCHANGED <<prodVars, notified>>
  /\ app' = "stopClear"
  /\ UNCHANGED <<appOnly, life, streamVars, out, pump, mutex, http, workq, connVars,
                 serverCount>>

StopServerClear ==
  /\ app = "stopClear"
  /\ ClearPipeline
  /\ notified' = TRUE
  /\ mutex' = "free"
  /\ app' = "httpdStop"
  /\ UNCHANGED <<appOnly, life, prodVars, http, workq, connVars, serverCount>>

(* httpd_stop fails: the server and its task live on, unaccepting. *)
MarkStopFailed ==
  /\ app = "httpdStop" /\ mutex = "free"
  /\ life' = StopFailure(life, serverCount)
  /\ app' = "failed"
  /\ UNCHANGED <<appOnly, streamVars, out, pump, mutex, prodVars, notified, http, workq,
                 connVars, serverCount>>

(* httpd_stop succeeds once the HTTPD task left its loop: the sockets are  *)
(* closed (the pipeline has no owner left to match) and queued work is     *)
(* never run.                                                              *)
HttpdJoined ==
  /\ app = "httpdStop" /\ http.pc = "idle"
  /\ app' = "joined"
  /\ conn' = 0 /\ session' = 0 /\ closing' = FALSE
  /\ workq' = <<>>
  /\ UNCHANGED <<appOnly, life, streamVars, out, pump, mutex, prodVars, notified, http,
                 serverCount>>

MarkStopSucceeded ==
  /\ app = "joined" /\ mutex = "free"
  /\ life' = StopSuccess(life, serverCount)
  /\ app' = "down"
  /\ UNCHANGED <<appOnly, streamVars, out, pump, mutex, prodVars, notified, http, workq,
                 connVars, serverCount>>

-----------------------------------------------------------------------------
(* Grouped by task *)

Tx == TxLatch \/ RequestPumpQueued \/ RequestPumpRejected \/ RequestPumpDeclined

PumpStep ==
  \/ PumpSendFrame \/ PumpDrained \/ PumpSnapshot \/ PumpReady \/ PumpSendEnd
  \/ PumpSendStopped \/ CompleteOrderlyStop \/ PumpFinish
  \/ FailStreamAbort \/ FailStreamClear

Client == OpenOwner \/ StartStream \/ RequestOrderlyStop \/ ClientGone

HandlerStep == StartProducer \/ CommitOrderlyStop \/ CloseAbort \/ CloseClear

App ==
  \/ CommitServerRunning \/ StopServer \/ StopServerAbort \/ StopServerClear
  \/ MarkStopFailed \/ HttpdJoined \/ MarkStopSucceeded

Next ==
  \/ Tap \/ Encoder \/ Tx \/ PumpBegin \/ PumpStep
  \/ Client \/ CloseWork \/ HandlerStep \/ App

(* The tasks of the firmware are scheduled by FreeRTOS and every wait      *)
(* here is bounded, so a task that can go on goes on.  The client, the     *)
(* user's stop and the clock of the sampler are not driven.  A work queue  *)
(* that is asked again and again takes the item some time.                 *)
Fairness ==
  /\ WF_vars(Encoder)
  /\ WF_vars(TxLatch) /\ WF_vars(RequestPumpDeclined) /\ SF_vars(RequestPumpQueued)
  /\ WF_vars(PumpBegin) /\ WF_vars(CloseWork) /\ WF_vars(PumpStep) /\ WF_vars(HandlerStep)
  /\ WF_vars(closing /\ ClientGone)
  /\ WF_vars(StopServerAbort \/ StopServerClear \/ HttpdJoined \/ MarkStopSucceeded)

Spec == Init /\ [][Next]_vars
FairSpec == Spec /\ Fairness

-----------------------------------------------------------------------------
(* Properties *)

ProdType == [active : BOOLEAN, id : 0 .. MaxStream, next : Sequences, exhausted : BOOLEAN]

EncType ==
  [pc : {"wait", "pop", "push", "release", "next"}, left : 0 .. AcqDepth,
   seq : Sequences, overflow : BOOLEAN, id : 0 .. MaxStream]

TxType == [pc : {"wait", "request"}, owner : Owners]

SnapType == [id : 0 .. MaxStream, queued : Nat, next : Sequences]

HttpPcs ==
  {"idle", "drain", "snapshot", "ready", "end", "stoppedText", "complete", "resnapshot",
   "finish", "failAbort", "failClear", "startProducer", "commitStop", "closeAbort",
   "closeClear"}

HttpType == [pc : HttpPcs, drained : 0 .. PumpBurst, snap : SnapType]

WorkItems == [kind : {"pump", "close"}, arg : Nat]

WireItems ==
  [kind : {"data", "end", "stopped"}, id : 0 .. MaxStream, seq : Sequences,
   flags : SUBSET (Flags \cup {"StreamEnd"})]

LostType == [acq : SUBSET Sequences, out : SUBSET Sequences]

TypeOK ==
  /\ life \in LifeType(0 .. MaxServer) /\ taskFault \in BOOLEAN
  /\ owner \in Owners /\ active \in BOOLEAN /\ stopping \in BOOLEAN
  /\ sid \in 0 .. MaxStream /\ first \in BOOLEAN /\ expected \in Sequences
  /\ out \in OutRing /\ pump \in PumpType(0 .. MaxOwner) /\ busy \in BOOLEAN
  /\ mutex \in {"free", "httpd", "app"}
  /\ prod \in ProdType /\ acq \in AcqRing /\ notified \in BOOLEAN
  /\ enc \in EncType /\ tx \in TxType /\ http \in HttpType
  /\ app \in {"down", "up", "stopAbort", "stopClear", "httpdStop", "failed", "joined"}
  /\ workq \in Seq(WorkItems)
  /\ conn \in 0 .. MaxOwner /\ session \in 0 .. MaxStream /\ closing \in BOOLEAN
  /\ serverCount \in 0 .. MaxServer /\ ownerCount \in 0 .. MaxOwner
  /\ streamCount \in 0 .. MaxStream
  /\ wire \in Seq(WireItems) /\ lost \in LostType

(* What is missing before the i-th message of the wire. *)
Missing(i) == (IF i = 1 THEN 0 ELSE wire[i - 1].seq + 1) .. wire[i].seq - 1

(* Every hole the client sees is a loss one of the two rings had, and the  *)
(* frame after the hole names exactly the rings that lost something in it: *)
(* the producer's overflow survives being carried by a frame the output    *)
(* ring drops in its turn, and nothing is blamed on a ring that lost       *)
(* nothing (AcquisitionRing, OutputRing, PrepareOutputFrame).              *)
LossIsAnnounced ==
  \A i \in DOMAIN wire : wire[i].kind = "data" =>
    /\ Missing(i) \subseteq lost.acq \cup lost.out
    /\ ("ProducerOverflow" \in wire[i].flags) <=> (Missing(i) \cap lost.acq # {})
    /\ ("OutputQueueDrop" \in wire[i].flags) <=> (Missing(i) \cap lost.out # {})
    /\ ("Discontinuity" \in wire[i].flags) <=> (Missing(i) # {})

(* An end frame counts exactly the samples tapped, and the newest of them  *)
(* was delivered: neither the encoder's hands nor a queue held a sample    *)
(* when ReadyForStreamEnd said yes.                                        *)
NothingLeftBehind ==
  \A i \in DOMAIN wire : wire[i].kind = "end" =>
    /\ Missing(i) = {}
    /\ i < Len(wire) => i + 1 = Len(wire) /\ wire[i + 1].kind = "stopped"
    /\ (active /\ wire[i].id = sid) =>
         acq.queue = <<>> /\ out.queue = <<>> /\ enc.pc # "push"

(* What the client is told of losses and of the end is true. *)
WireIsHonest == LossIsAnnounced /\ NothingLeftBehind

(* A pending token has its callback in the work queue and an executing one *)
(* has PumpWork under way.  A token that lost its callback would coalesce  *)
(* every later request and starve the stream.                              *)
PendingIsQueued ==
  /\ pump.pending # NoToken =>
       \E i \in DOMAIN workq : workq[i] = PumpItem(pump.pending)
  /\ pump.executing # NoToken =>
       http.pc \in {"drain", "snapshot", "ready", "end", "stoppedText", "complete",
                    "resnapshot", "finish"}

(* Outside the mutex the pipeline and the producer run the same stream and *)
(* agree whether it is being stopped; without a stream the producer is off.*)
ProducerFollowsPipeline ==
  mutex = "free" =>
    /\ prod.id = sid
    /\ prod.active <=> (active /\ ~stopping)
    /\ active <=> sid # 0

(* Once StopServer has returned nothing of the stream is left, whatever    *)
(* callbacks, requests or handlers of the old server are still to run.     *)
QuietAfterStopServer ==
  app \in {"httpdStop", "failed", "joined", "down"} =>
    owner = NoOwner /\ ~active /\ ~pump.active /\ prod.id = 0 /\ out.queue = <<>>

(* A frame or text leaves only while the server accepts, on the socket the *)
(* transport still owns: never between StopServer and a restart, never on  *)
(* the socket of a later owner.                                            *)
SendsReachTheirOwner ==
  [][Len(wire') > Len(wire) =>
       /\ Accepting(life, owner.server)
       /\ owner.gen = conn /\ pump.executing # NoToken]_vars

(* The pipeline keeps the stream's promise to the client. *)
ImplementsContract == Contract!ContractSpec

(* A stop the pipeline accepted ends: StreamEnd and stream_stopped went    *)
(* out or the stream was torn down, even when httpd_queue_work refuses     *)
(* callbacks on the way (the 100 ms poll of TxTask asks again).            *)
OrderlyStopEnds == stopping ~> ~stopping

(* A sample the sampler handed over does not stay in the device. *)
SamplesDrain == (acq.queue # <<>> \/ out.queue # <<>>) ~> (acq.queue = <<>> /\ out.queue = <<>>)

-----------------------------------------------------------------------------
(* The invariant behind the safety properties, in named parts.  It says    *)
(* who may hold the mutex at each position of the two tasks that hold it   *)
(* over several steps, and what the stream, the pump and the producer look *)
(* like there.                                                             *)

PumpPcs == {"drain", "snapshot", "ready", "end", "stoppedText", "complete",
            "resnapshot", "finish"}
FailPcs == {"failAbort", "failClear"}
ClosePcs == {"closeAbort", "closeClear"}

MutexInv ==
  /\ mutex = "httpd" <=> http.pc # "idle"
  /\ mutex = "app" <=> app \in {"stopAbort", "stopClear"}
  /\ http.pc # "idle" => HttpdRuns

ServerInv ==
  /\ app = "down" <=> life.phase = "Stopped"
  /\ app = "up" <=> life.phase = "Running"
  /\ app = "failed" <=> life.phase = "StopFailed"
  /\ app # "down" => life.server = serverCount /\ serverCount # 0

OwnerInv ==
  /\ owner # NoOwner => /\ owner.gen # 0 /\ owner.gen = conn
                        /\ owner.server = serverCount
                        /\ app \in {"up", "stopAbort", "stopClear"}
  /\ active <=> sid # 0
  /\ active => owner # NoOwner
  /\ stopping => active
  /\ ~active => out.queue = <<>>

PumpInv ==
  /\ pump.active => owner # NoOwner /\ pump.gen = owner.gen
  /\ ~pump.active => pump.pending = NoToken /\ pump.executing = NoToken
  /\ mutex = "free" /\ owner # NoOwner => pump.active
  /\ pump.pending # NoToken => active /\ pump.executing = NoToken
  /\ pump.executing # NoToken <=> http.pc \in PumpPcs

StreamInv ==
  /\ http.pc \in PumpPcs => active /\ pump.active
  /\ http.pc \in FailPcs \cup {"startProducer", "commitStop"} => active
  /\ http.pc \in ClosePcs => owner # NoOwner
  /\ http.pc \in {"startProducer", "commitStop"} => ~stopping /\ pump.active
  /\ app \in {"stopAbort", "stopClear"} => owner # NoOwner

Aborted == http.pc \in {"startProducer", "failClear", "closeClear"} \/ app = "stopClear"

ProducerInv ==
  /\ prod.id = IF Aborted THEN 0 ELSE sid
  /\ prod.active <=> active /\ ~stopping /\ ~Aborted /\ http.pc # "commitStop"

OwnershipInv ==
  MutexInv /\ ServerInv /\ OwnerInv /\ PumpInv /\ StreamInv /\ ProducerInv /\ PendingIsQueued

EncoderInv == enc.pc \in {"pop", "push", "next"} => enc.left >= 1

(* The invariant behind WireIsHonest and the contract.  Every sample that  *)
(* was tapped is on the wire, in the output ring, in the encoder's hands,  *)
(* in the acquisition ring, or lost by one of the two rings; and each of   *)
(* these places knows what is missing right before what it holds.          *)

(* The encoder has a sample of the stream that runs. *)
Held == enc.pc = "push" /\ enc.id = sid

(* How many samples were tapped, and the first that is still in, or will   *)
(* be pushed to, the acquisition ring.                                     *)
Tapped   == IF prod.exhausted THEN SeqLimit + 1 ELSE prod.next
AcqStart == Tapped - Len(acq.queue)

(* What follows the newest frame of the output ring, and the encoder's. *)
OutEnd  == IF out.queue = <<>> THEN expected ELSE out.queue[Len(out.queue)].seq + 1
HandEnd == IF Held THEN enc.seq + 1 ELSE OutEnd

(* The samples start, start + 1, ... *)
Consecutive(q, start) == \A i \in DOMAIN q : q[i] = start + i - 1

IdInv == enc.id <= streamCount /\ sid <= streamCount

OrderInv ==
  active =>
    /\ \A j \in DOMAIN out.queue : expected <= out.queue[j].seq
    /\ \A j, k \in DOMAIN out.queue : j < k => out.queue[j].seq < out.queue[k].seq
    /\ Held => expected <= enc.seq /\ \A j \in DOMAIN out.queue : out.queue[j].seq < enc.seq
    /\ prod.id = sid =>
         /\ Consecutive(acq.queue, AcqStart)
         /\ expected <= AcqStart
         /\ \A j \in DOMAIN out.queue : out.queue[j].seq < AcqStart
         /\ Held => enc.seq < AcqStart

(* A frame says that samples are missing before it exactly when the        *)
(* acquisition ring lost all of those between it and its predecessor.      *)
Follows(from, frame) ==
  /\ from .. frame.seq - 1 \subseteq lost.acq
  /\ frame.flags = EncodedFrame(frame.seq, from < frame.seq).flags
  /\ frame.seq \notin lost.acq

(* The oldest frame, with the flags it inherits from the dropped ones. *)
HeadTells ==
  LET head == Head(out.queue)
      said == head.flags \cup out.pending
      hole == expected .. head.seq - 1
  IN  /\ hole \subseteq lost.acq \cup lost.out
      /\ ("ProducerOverflow" \in said) <=> (hole \cap lost.acq # {})
      /\ ("OutputQueueDrop" \in said) <=> (hole \cap lost.out # {})
      /\ "Discontinuity" \in said => hole # {}
      /\ "StreamStart" \notin said
      /\ head.seq \notin lost.acq

(* A send that failed took its frame along: from there to the end of the   *)
(* stream nothing is sent and only OrderInv holds.                         *)
Flowing == active /\ prod.id = sid /\ http.pc # "failAbort"

LossInv ==
  Flowing =>
    /\ IF out.queue = <<>> THEN out.pending = {} ELSE HeadTells
    /\ \A j \in 2 .. Len(out.queue) : Follows(out.queue[j - 1].seq + 1, out.queue[j])
    /\ \A s \in lost.out : s < IF out.queue = <<>> THEN expected ELSE Head(out.queue).seq
    /\ Held => Follows(OutEnd, EncodedFrame(enc.seq, enc.overflow))
    /\ HandEnd .. AcqStart - 1 \subseteq lost.acq
    /\ acq.overflow <=> HandEnd < AcqStart
    /\ acq.queue = <<>> => HandEnd = AcqStart
    /\ \A s \in lost.acq : s < AcqStart

StartInv ==
  http.pc = "startProducer" =>
    out = EmptyOut /\ expected = 0 /\ lost = [acq |-> {}, out |-> {}] /\ enc.id # sid

(* Data, then at most one end frame and one stopped text. *)
WireShape ==
  /\ first <=> expected = 0
  /\ wire = <<>> => expected = 0
  /\ \A i \in DOMAIN wire :
       /\ active => wire[i].id = sid
       /\ wire[i].kind = "data" => wire[i].seq < expected
       /\ i = Len(wire) /\ wire[i].kind = "data" => expected = wire[i].seq + 1
       /\ i < Len(wire) => \/ wire[i].kind = "data"
                           \/ /\ i + 1 = Len(wire)
                              /\ wire[i].kind = "end" /\ wire[i + 1].kind = "stopped"

Closed == wire # <<>> /\ wire[Len(wire)].kind # "data"

(* What the end frame promises is true from the moment ReadyForStreamEnd   *)
(* said yes: a stopped producer and an idle encoder add nothing.           *)
EndInv ==
  /\ active /\ Closed => http.pc \in {"stoppedText", "complete"} \cup FailPcs
  /\ http.pc = "stoppedText" => Closed /\ wire[Len(wire)].kind = "end"
  /\ (active /\ Closed) \/ http.pc \in {"end", "stoppedText", "complete"} =>
       stopping /\ acq.queue = <<>> /\ out.queue = <<>> /\ enc.pc # "push"
  /\ http.pc = "ready" /\ stopping /\ http.snap.id = sid /\ http.snap.queued = 0 =>
       acq.queue = <<>>
  /\ busy <=> enc.pc \in {"pop", "push", "release"}

FlowInv == IdInv /\ OrderInv /\ LossInv /\ StartInv /\ WireShape /\ EndInv
=============================================================================
