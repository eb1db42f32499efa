-------------------------- MODULE D2BPipeline_proofs ------------------------
(***************************************************************************)
(* The live stream, for any queue depths, burst, token width and numbers   *)
(* of servers, owners and streams: types, ownership, where every sample of *)
(* a stream is, that the wire announces every loss, and that the stream    *)
(* implements StreamContract.                                              *)
(***************************************************************************)
EXTENDS D2BPipeline, TLAPS, SequenceTheorems

-----------------------------------------------------------------------------
(* Operators of the pump, the lifecycle and the rings keep their types. *)

(* The token counter stays within its word and never returns zero: the     *)
(* wrap of nextToken.                                                      *)
LEMMA NextTokenType ==
  ASSUME NEW p, p.next \in 0 .. TokenMax
  PROVE  NextToken(p) \in Tokens
<1>1. \A t \in 0 .. TokenMax : Succ(t) \in Tokens
  BY TokenMaxAssumption DEF Succ, Tokens
<1>2. \A t \in Tokens : t \in 0 .. TokenMax
  BY DEF Tokens
<1> QED
  BY <1>1, <1>2 DEF NextToken

LEMMA PumpTypes ==
  ASSUME NEW Gens, NEW p \in PumpType(Gens)
  PROVE  /\ \A g \in Gens : Activate(p, g) \in PumpType(Gens)
         /\ \A g : Invalidate(p, g) \in PumpType(Gens)
         /\ Request(p) \in PumpType(Gens)
         /\ \A t \in Tokens : Begin(p, t) \in PumpType(Gens)
         /\ \A w : Finish(p, w) \in PumpType(Gens)
         /\ \A g, t : Reject(p, g, t) \in PumpType(Gens)
<1>1. ASSUME NEW q \in PumpType(Gens) PROVE Request(q) \in PumpType(Gens)
  <2>1. NextToken(q) \in 0 .. TokenMax
    BY NextTokenType DEF PumpType, Tokens
  <2> QED
    BY <2>1 DEF PumpType, Request
<1>2. [p EXCEPT !.executing = NoToken] \in PumpType(Gens)
  BY TokenMaxAssumption DEF PumpType, NoToken
<1>3. \A w : Finish(p, w) \in PumpType(Gens)
  BY <1>1, <1>2 DEF Finish
<1>4. 0 \in 0 .. TokenMax
  BY TokenMaxAssumption
<1>5. ASSUME NEW g \in Gens PROVE Activate(p, g) \in PumpType(Gens)
  BY <1>4 DEF PumpType, Activate, NoToken
<1>6. ASSUME NEW g PROVE Invalidate(p, g) \in PumpType(Gens)
  BY <1>4 DEF PumpType, Invalidate, NoToken
<1>7. ASSUME NEW t \in Tokens PROVE Begin(p, t) \in PumpType(Gens)
  <2>1. t \in 0 .. TokenMax
    BY DEF Tokens
  <2> QED
    BY <1>4, <2>1 DEF PumpType, Begin, NoToken
<1>8. ASSUME NEW g, NEW t PROVE Reject(p, g, t) \in PumpType(Gens)
  BY <1>4 DEF PumpType, Reject, NoToken
<1> QED
  BY <1>1, <1>3, <1>5, <1>6, <1>7, <1>8

LEMMA LifeTypes ==
  ASSUME NEW Servers, NEW l \in LifeType(Servers)
  PROVE  /\ \A s \in Servers : BeginRunning(s) \in LifeType(Servers)
         /\ \A s : BeginStop(l, s) \in LifeType(Servers)
         /\ \A s : StopFailure(l, s) \in LifeType(Servers)
         /\ \A s : StopSuccess(l, s) \in LifeType(Servers)
BY DEF LifeType, Phases, BeginRunning, BeginStop, StopFailure, StopSuccess, StoppedLife

LEMMA AcqTypes ==
  ASSUME NEW r \in AcqRing
  PROVE  /\ \A s \in Sequences : AcqPush(r, s) \in AcqRing
         /\ r.queue # <<>> => AcqPop(r) \in AcqRing /\ Head(r.queue) \in Sequences
         /\ Len(r.queue) = AcqDepth => Head(r.queue) \in Sequences
         /\ EmptyAcq \in AcqRing
<1>1. Len(r.queue) = AcqDepth => r.queue # <<>>
  BY FramesAssumption DEF AcqRing
<1>2. \A s \in Sequences : AcqPush(r, s) \in AcqRing
  BY <1>1 DEF AcqPush, AcqRing
<1> QED
  BY <1>1, <1>2 DEF AcqPop, AcqRing, EmptyAcq

LEMMA OutTypes ==
  ASSUME NEW r \in OutRing
  PROVE  /\ \A f \in Frames : OutPush(r, f) \in OutRing
         /\ r.queue # <<>> => OutPop(r) \in OutRing /\ Head(r.queue) \in Frames
         /\ Len(r.queue) = OutDepth => Head(r.queue) \in Frames
         /\ OutClear(r) \in OutRing
<1>1. Len(r.queue) = OutDepth => r.queue # <<>>
  BY FramesAssumption DEF OutRing
<1>2. {"Discontinuity", "OutputQueueDrop"} \subseteq CarryFlags
  BY DEF CarryFlags, CauseFlags
<1>3. ASSUME NEW f \in Frames PROVE OutPush(r, f) \in OutRing
  <2>1. r.queue \in Seq(Frames) /\ r.pending \in SUBSET CarryFlags
    BY DEF OutRing
  <2>2. CASE Len(r.queue) = OutDepth
    <3>1. Append(Tail(r.queue), f) \in Seq(Frames)
      BY <1>1, <2>1, <2>2
    <3>2. (Head(r.queue).flags \cap CarryFlags) \subseteq CarryFlags
      OBVIOUS
    <3> QED
      BY <1>2, <2>1, <2>2, <3>1, <3>2 DEF OutPush, OutRing
  <2>3. CASE Len(r.queue) # OutDepth
    <3>1. Append(r.queue, f) \in Seq(Frames)
      BY <2>1
    <3>2. [r EXCEPT !.queue = Append(@, f)] \in OutRing
      BY <3>1 DEF OutRing
    <3> QED
      BY <2>3, <3>2 DEF OutPush
  <2> QED
    BY <2>2, <2>3
<1> QED
  BY <1>1, <1>3 DEF OutPop, OutRing, OutClear, EmptyOut

LEMMA FrameTypes ==
  /\ \A s \in Sequences, o \in BOOLEAN : EncodedFrame(s, o) \in Frames
  /\ \A f \in Frames, p \in SUBSET CarryFlags : \A b, e : Prepared(f, p, b, e) \in Frames
<1>1. \A s \in Sequences, o \in BOOLEAN : EncodedFrame(s, o) \in Frames
  BY DEF EncodedFrame, Frames, Flags, CauseFlags
<1>2. ASSUME NEW f \in Frames, NEW p \in SUBSET CarryFlags, NEW b, NEW e
      PROVE  Prepared(f, p, b, e) \in Frames
  <2>1. CarryFlags \subseteq Flags /\ "StreamStart" \in Flags /\ "Discontinuity" \in Flags
    BY DEF CarryFlags, Flags, CauseFlags
  <2>2. f.seq \in Sequences /\ f.flags \subseteq Flags
    BY DEF Frames
  <2> QED
    BY <2>1, <2>2 DEF Prepared, Frames
<1> QED
  BY <1>1, <1>2

-----------------------------------------------------------------------------
(* Type correctness.  The loop counter of EncoderTask needs EncoderInv: it *)
(* is never taken below zero.                                              *)

TypeInv == TypeOK /\ EncoderInv

LEMMA TypeInit == Init => TypeInv
<1>1. EmptyOut \in OutRing /\ EmptyAcq \in AcqRing
  BY DEF EmptyOut, OutRing, EmptyAcq, AcqRing
<1>2. IdlePump \in PumpType(0 .. MaxOwner)
  BY TokenMaxAssumption DEF IdlePump, PumpType, NoToken
<1>3. StoppedLife \in LifeType(0 .. MaxServer)
  BY DEF StoppedLife, LifeType, Phases
<1>4. NoOwner \in Owners
  BY PipelineAssumption DEF NoOwner, Owners, NoServer
<1>5. 0 \in Sequences /\ 0 \in 0 .. MaxStream
  BY FramesAssumption, PipelineAssumption DEF Sequences
<1>6. Stopped0 \in ProdType /\ NoSnap \in SnapType
  BY <1>5 DEF Stopped0, ProdType, NoSnap, Snap, SnapType
<1> SUFFICES ASSUME Init PROVE TypeInv
  OBVIOUS
<1>7. enc \in EncType /\ tx \in TxType /\ http \in HttpType
  BY <1>4, <1>5, <1>6, PipelineAssumption, FramesAssumption
  DEF Init, EncType, TxType, HttpType, HttpPcs
<1>8. workq \in Seq(WorkItems) /\ wire \in Seq(WireItems) /\ lost \in LostType
  BY DEF Init, LostType
<1>9. EncoderInv
  BY DEF Init, EncoderInv
<1>10. /\ conn \in 0 .. MaxOwner /\ ownerCount \in 0 .. MaxOwner
       /\ session \in 0 .. MaxStream /\ streamCount \in 0 .. MaxStream
       /\ serverCount \in 0 .. MaxServer
  BY PipelineAssumption DEF Init
<1> QED
  BY <1>1, <1>2, <1>3, <1>4, <1>5, <1>6, <1>7, <1>8, <1>9, <1>10
  DEF Init, TypeInv, TypeOK

(* What the encoder leaves alone keeps its type with what it changes. *)
LEMMA EncoderKeeps ==
  ASSUME TypeInv, UNCHANGED encoderOnly, enc' \in EncType, EncoderInv',
         out' \in OutRing, prod' \in ProdType, acq' \in AcqRing, lost' \in LostType,
         busy' \in BOOLEAN, notified' \in BOOLEAN
  PROVE  TypeInv'
BY DEF TypeInv, TypeOK, encoderOnly, lifeVars, streamVars, connVars, countVars

(* The measurement task and the encoder. *)
LEMMA TypeStepEncoder ==
  ASSUME TypeInv, Tap \/ Encoder
  PROVE  TypeInv'
<1> USE DEF lifeVars, streamVars, prodVars, connVars, countVars, encoderOnly
<1>a. /\ prod \in ProdType /\ acq \in AcqRing /\ out \in OutRing
      /\ enc \in EncType /\ lost \in LostType /\ busy \in BOOLEAN /\ notified \in BOOLEAN
  BY DEF TypeInv, TypeOK
<1>b. AcqDepth \in 0 .. AcqDepth /\ 0 \in 0 .. AcqDepth
  BY FramesAssumption
<1>c. enc.pc \in {"pop", "push", "next"} => enc.left >= 1
  BY DEF TypeInv, EncoderInv
<1>1. CASE Tap
  <2>1. prod.next \in Sequences /\ (prod.next = SeqLimit \/ prod.next + 1 \in Sequences)
    BY <1>1, <1>a, FramesAssumption, PipelineAssumption DEF Tap, ProdType, Sequences
  <2>2. prod' \in ProdType
    BY <1>1, <1>a, <2>1 DEF Tap, ProdType
  <2>3. acq' \in AcqRing
    BY <1>1, <1>a, <2>1, AcqTypes DEF Tap
  <2>4. lost' \in LostType
    BY <1>1, <1>a, AcqTypes DEF Tap, LostType
  <2>5. EncoderInv'
    BY <1>1, <1>c DEF Tap, EncoderInv
  <2> QED
    BY <1>1, <2>2, <2>3, <2>4, <2>5 DEF Tap, TypeInv, TypeOK
<1>2. CASE EncoderClaim
  <2>1. /\ UNCHANGED <<encoderOnly, out, prodVars, lost>>
        /\ busy' \in BOOLEAN /\ notified' \in BOOLEAN
    BY <1>2, <1>a DEF EncoderClaim
  <2>2. enc' \in EncType
    BY <1>2, <1>a, <1>b DEF EncoderClaim, EncType
  <2>3. \/ enc' = [enc EXCEPT !.pc = "pop", !.left = AcqDepth]
        \/ enc.pc = "next" /\ enc' = [enc EXCEPT !.pc = "pop"]
    BY <1>2 DEF EncoderClaim
  <2>4. enc'.left = AcqDepth \/ (enc.pc = "next" /\ enc'.left = enc.left)
    BY <1>a, <2>3 DEF EncType
  <2>5. enc'.left >= 1
    BY <1>c, <2>4, FramesAssumption
  <2>6. EncoderInv'
    BY <2>5 DEF EncoderInv
  <2> QED
    BY <1>a, <2>1, <2>2, <2>6, EncoderKeeps
<1>3. CASE EncoderPop
  <2>1. prod.id \in 0 .. MaxStream /\ acq.overflow \in BOOLEAN
    BY <1>a DEF ProdType, AcqRing
  <2>2. acq.queue # <<>> => Head(acq.queue) \in Sequences
    BY <1>a, AcqTypes
  <2>3. enc' \in EncType
    BY <1>3, <1>a, <2>1, <2>2 DEF EncoderPop, EncType
  <2>4. EncoderInv'
    BY <1>3, <1>a, <1>c DEF EncoderPop, EncType, EncoderInv
  <2>5. acq' \in AcqRing
    BY <1>3, <1>a, AcqTypes DEF EncoderPop
  <2> QED
    BY <1>3, <2>3, <2>4, <2>5 DEF EncoderPop, TypeInv, TypeOK
<1>4. CASE EncoderPush
  <2>1. EncodedFrame(enc.seq, enc.overflow) \in Frames
    BY <1>a, FrameTypes DEF EncType
  <2>2. out' \in OutRing
    BY <1>4, <1>a, <2>1, OutTypes DEF EncoderPush
  <2>3. Len(out.queue) = OutDepth => Head(out.queue).seq \in Sequences
    BY <1>a, OutTypes DEF Frames
  <2>4. lost' \in LostType
    BY <1>4, <1>a, <2>3 DEF EncoderPush, LostType
  <2>5. enc.left \in 0 .. AcqDepth /\ enc.left >= 1
    BY <1>4, <1>a, <1>c DEF EncoderPush, EncType
  <2>6. enc.left - 1 \in 0 .. AcqDepth
    BY <2>5, FramesAssumption
  <2>7. enc' = [enc EXCEPT !.pc = IF enc.left > 1 THEN "next" ELSE "wait",
                           !.left = enc.left - 1]
    BY <1>4 DEF EncoderPush
  <2>8. enc' \in EncType
    BY <1>a, <2>6, <2>7 DEF EncType
  <2>9. enc'.left = enc.left - 1
        /\ enc'.pc = IF enc.left > 1 THEN "next" ELSE "wait"
    BY <1>a, <2>7 DEF EncType
  <2>10. EncoderInv'
    BY <2>5, <2>9, FramesAssumption DEF EncoderInv
  <2>11. UNCHANGED <<encoderOnly, prodVars, notified>> /\ busy' \in BOOLEAN
    BY <1>4 DEF EncoderPush
  <2> QED
    BY <1>a, <2>2, <2>4, <2>8, <2>10, <2>11, EncoderKeeps
<1>5. CASE EncoderRelease
  <2>1. enc' \in EncType
    BY <1>5, <1>a, <1>b DEF EncoderRelease, EncType
  <2>2. EncoderInv'
    BY <1>5, <1>a DEF EncoderRelease, EncType, EncoderInv
  <2>3. UNCHANGED <<encoderOnly, out, prodVars, notified, lost>> /\ busy' \in BOOLEAN
    BY <1>5 DEF EncoderRelease
  <2> QED
    BY <1>a, <2>1, <2>2, <2>3, EncoderKeeps
<1> QED
  BY <1>1, <1>2, <1>3, <1>4, <1>5 DEF Encoder

(* The callback queue: an item that is appended or taken. *)
LEMMA WorkTypes ==
  ASSUME NEW q \in Seq(WorkItems)
  PROVE  /\ \A t \in Nat : Append(q, PumpItem(t)) \in Seq(WorkItems)
         /\ \A g \in Nat : Append(q, CloseItem(g)) \in Seq(WorkItems)
         /\ q # <<>> => Tail(q) \in Seq(WorkItems) /\ Head(q) \in WorkItems
         /\ <<>> \in Seq(WorkItems)
<1>1. \A t \in Nat : PumpItem(t) \in WorkItems /\ CloseItem(t) \in WorkItems
  BY DEF PumpItem, CloseItem, WorkItems
<1> QED
  BY <1>1

LEMMA PumpFields ==
  ASSUME NEW Gens, NEW p \in PumpType(Gens)
  PROVE  p.pending \in 0 .. TokenMax /\ p.executing \in 0 .. TokenMax
         /\ p.next \in 0 .. TokenMax /\ p.pending \in Nat
BY TokenMaxAssumption DEF PumpType

(* The TX task. *)
LEMMA TypeStepTx ==
  ASSUME TypeInv, Tx
  PROVE  TypeInv'
<1> USE DEF lifeVars, streamVars, prodVars, connVars, countVars, histVars, txOnly
<1>a. /\ pump \in PumpType(0 .. MaxOwner) /\ workq \in Seq(WorkItems)
      /\ owner \in Owners /\ NoOwner \in Owners
  BY PipelineAssumption DEF TypeInv, TypeOK, NoOwner, Owners, NoServer
<1>b. [pc |-> "wait", owner |-> NoOwner] \in TxType
      /\ [pc |-> "request", owner |-> owner] \in TxType
  BY <1>a DEF TxType
<1>1. CASE TxLatch
  BY <1>1, <1>b DEF TxLatch, TypeInv, TypeOK, EncoderInv
<1>2. CASE RequestPumpQueued
  <2>1. pump' \in PumpType(0 .. MaxOwner)
    BY <1>2, <1>a, PumpTypes DEF RequestPumpQueued
  <2>2. workq' \in Seq(WorkItems)
    BY <1>2, <1>a, <2>1, PumpFields, WorkTypes DEF RequestPumpQueued
  <2> QED
    BY <1>2, <1>b, <2>1, <2>2 DEF RequestPumpQueued, TypeInv, TypeOK, EncoderInv
<1>3. CASE RequestPumpRejected
  <2>1. pump' \in PumpType(0 .. MaxOwner)
    BY <1>3, <1>a, PumpTypes DEF RequestPumpRejected
  <2> QED
    BY <1>3, <1>b, <2>1 DEF RequestPumpRejected, TypeInv, TypeOK, EncoderInv
<1>4. CASE RequestPumpDeclined
  BY <1>4, <1>b DEF RequestPumpDeclined, TypeInv, TypeOK, EncoderInv
<1> QED
  BY <1>1, <1>2, <1>3, <1>4 DEF Tx

(* Values that several handlers assign. *)
LEMMA Defaults ==
  /\ EmptyAcq \in AcqRing /\ EmptyOut \in OutRing
  /\ NoOwner \in Owners
  /\ 0 \in 0 .. MaxStream /\ 0 \in 0 .. MaxOwner /\ 0 \in Sequences
  /\ 0 \in 0 .. PumpBurst
BY PipelineAssumption, FramesAssumption
DEF EmptyAcq, AcqRing, EmptyOut, OutRing, NoOwner, Owners, NoServer, Sequences

LEMMA AbortTypes ==
  ASSUME prod \in ProdType, acq \in AcqRing, NEW id, Abort(id)
  PROVE  prod' \in ProdType /\ acq' \in AcqRing /\ notified' \in BOOLEAN
BY Defaults DEF Abort, prodVars, ProdType

LEMMA ClearPipelineTypes ==
  ASSUME pump \in PumpType(0 .. MaxOwner), first \in BOOLEAN, expected \in Sequences,
         ClearPipeline
  PROVE  /\ pump' \in PumpType(0 .. MaxOwner) /\ owner' \in Owners
         /\ active' \in BOOLEAN /\ stopping' \in BOOLEAN /\ sid' \in 0 .. MaxStream
         /\ out' \in OutRing /\ first' \in BOOLEAN /\ expected' \in Sequences
BY Defaults, PumpTypes DEF ClearPipeline, OutClear

LEMMA FailStreamTypes ==
  ASSUME pump \in PumpType(0 .. MaxOwner), http \in HttpType, taskFault \in BOOLEAN,
         NEW f \in BOOLEAN, FailStream(f)
  PROVE  /\ pump' \in PumpType(0 .. MaxOwner) /\ http' \in HttpType
         /\ taskFault' \in BOOLEAN
<1>1. pump' \in PumpType(0 .. MaxOwner)
  BY PumpTypes DEF FailStream
<1>2. http' \in HttpType
  BY DEF FailStream, HttpAt, HttpType, HttpPcs
<1> QED
  BY <1>1, <1>2 DEF FailStream

(* The HTTPD task in PumpWork. *)
LEMMA TypeStepPump ==
  ASSUME TypeInv, PumpBegin \/ PumpStep
  PROVE  TypeInv'
<1> USE DEF lifeVars, streamVars, prodVars, connVars, countVars, histVars, pumpOnly, EncoderInv
<1>a. /\ pump \in PumpType(0 .. MaxOwner) /\ workq \in Seq(WorkItems)
      /\ http \in HttpType /\ taskFault \in BOOLEAN /\ out \in OutRing
      /\ prod \in ProdType /\ acq \in AcqRing /\ wire \in Seq(WireItems)
      /\ first \in BOOLEAN /\ expected \in Sequences /\ sid \in 0 .. MaxStream
      /\ owner \in Owners
  BY DEF TypeInv, TypeOK
<1>b. http.drained \in 0 .. PumpBurst /\ prod.next \in Sequences /\ owner.gen \in Nat
  BY <1>a, PipelineAssumption DEF HttpType, ProdType, Owners
<1>1. CASE PumpBegin
  <2>1. workq' \in Seq(WorkItems)
    BY <1>1, <1>a, WorkTypes DEF PumpBegin
  <2>2. pump' \in PumpType(0 .. MaxOwner)
    <3>1. CASE UNCHANGED pump
      BY <3>1, <1>a
    <3>2. CASE pump' # pump
      <4>1. PICK token : CanBegin(pump, owner.gen, token) /\ pump' = Begin(pump, token)
        BY <1>1, <3>2 DEF PumpBegin
      <4>2. token \in Tokens
        BY <1>a, <4>1, PumpFields, TokenMaxAssumption DEF CanBegin, Tokens, NoToken
      <4> QED
        BY <1>a, <4>1, <4>2, PumpTypes
    <3> QED
      BY <3>1, <3>2
  <2>3. http' \in HttpType /\ mutex' \in {"free", "httpd", "app"}
    BY <1>1, <1>a, Defaults DEF PumpBegin, HttpType, HttpPcs, TypeInv, TypeOK
  <2> QED
    BY <1>1, <2>1, <2>2, <2>3 DEF PumpBegin, TypeInv, TypeOK
<1>2. CASE PumpSendFrame
  <2> DEFINE frame == Head(out.queue)
             ready == Prepared(frame, out.pending, first, expected)
  <2>0. UNCHANGED <<pumpOnly, owner, active, stopping, sid, mutex, workq, lost>>
    BY <1>2 DEF PumpSendFrame
  <2>1. frame \in Frames /\ out' \in OutRing
    BY <1>2, <1>a, OutTypes DEF PumpSendFrame
  <2>2. ready \in Frames /\ ready.seq = frame.seq
    BY <1>a, <2>1, FrameTypes DEF OutRing, Prepared
  <2>3. /\ Contract!Data(sid, ready.seq, ready.flags) \in WireItems
        /\ ~PrepareRejects(frame, first, expected) => ready.seq + 1 \in Sequences
    <3>1. Contract!Data(sid, ready.seq, ready.flags) \in WireItems
      BY <1>a, <2>2 DEF Frames, WireItems, Contract!Data
    <3>2. ~PrepareRejects(frame, first, expected) => ready.seq + 1 \in Sequences
      BY <2>2, FramesAssumption DEF Frames, Sequences, PrepareRejects
    <3> QED
      BY <3>1, <3>2
  <2>4. CASE /\ FailStream(TRUE) \/ FailStream(FALSE)
             /\ UNCHANGED <<first, expected, wire>>
    <3>1. pump' \in PumpType(0 .. MaxOwner) /\ http' \in HttpType /\ taskFault' \in BOOLEAN
      BY <1>a, <2>4, FailStreamTypes
    <3> QED
      BY <2>0, <2>1, <2>4, <3>1 DEF TypeInv, TypeOK
  <2>5. CASE /\ ~PrepareRejects(frame, first, expected)
             /\ wire' = Append(wire, Contract!Data(sid, ready.seq, ready.flags))
             /\ first' = FALSE
             /\ expected' = ready.seq + 1
             /\ http' = [http EXCEPT !.drained = @ + 1]
             /\ UNCHANGED <<taskFault, pump>>
    <3>1. wire' \in Seq(WireItems) /\ expected' \in Sequences
      BY <1>a, <2>3, <2>5
    <3>2. http.drained + 1 \in 0 .. PumpBurst
      BY <1>2, <1>b, PipelineAssumption DEF PumpSendFrame
    <3>3. http' \in HttpType
      BY <1>a, <2>5, <3>2 DEF HttpType
    <3>4. first' \in BOOLEAN /\ UNCHANGED <<taskFault, pump>>
      BY <2>5
    <3> QED
      BY <2>0, <2>1, <3>1, <3>3, <3>4 DEF TypeInv, TypeOK
  <2> QED
    BY <1>2, <2>4, <2>5 DEF PumpSendFrame
<1>3. CASE PumpDrained
  <2>1. http' \in HttpType
    BY <1>3, <1>a DEF PumpDrained, HttpAt, HttpType, HttpPcs
  <2> QED
    BY <1>3, <2>1 DEF PumpDrained, TypeInv, TypeOK
<1>4. CASE PumpSnapshot
  <2>1. ProducerSnapshot \in SnapType
    BY <1>a DEF ProducerSnapshot, Snap, SnapType, ProdType, AcqRing
  <2>2. http' \in HttpType
    BY <1>4, <1>a, <2>1 DEF PumpSnapshot, HttpType, HttpPcs
  <2> QED
    BY <1>4, <2>2 DEF PumpSnapshot, TypeInv, TypeOK
<1>5. CASE PumpReady
  <2>1. http' \in HttpType
    BY <1>5, <1>a DEF PumpReady, HttpAt, HttpType, HttpPcs
  <2> QED
    BY <1>5, <2>1 DEF PumpReady, TypeInv, TypeOK
<1>6. CASE PumpSendEnd
  <2>1. Contract!End(sid, prod.next) \in WireItems
    BY <1>a, <1>b DEF WireItems, Contract!End
  <2>2. CASE FailStream(FALSE) /\ UNCHANGED wire
    <3>1. pump' \in PumpType(0 .. MaxOwner) /\ http' \in HttpType /\ taskFault' \in BOOLEAN
      BY <1>a, <2>2, FailStreamTypes
    <3> QED
      BY <1>6, <2>2, <3>1 DEF PumpSendEnd, TypeInv, TypeOK
  <2>3. CASE /\ wire' = Append(wire, Contract!End(sid, prod.next))
             /\ HttpAt("stoppedText")
             /\ UNCHANGED <<taskFault, pump>>
    <3>1. wire' \in Seq(WireItems)
      BY <1>a, <2>1, <2>3
    <3>2. http' \in HttpType
      BY <1>a, <2>3 DEF HttpAt, HttpType, HttpPcs
    <3> QED
      BY <1>6, <2>3, <3>1, <3>2 DEF PumpSendEnd, TypeInv, TypeOK
  <2> QED
    BY <1>6, <2>2, <2>3 DEF PumpSendEnd
<1>7. CASE PumpSendStopped
  <2>1. Contract!Stopped(sid) \in WireItems
    BY <1>a, Defaults DEF WireItems, Contract!Stopped
  <2>2. CASE FailStream(FALSE) /\ UNCHANGED wire
    <3>1. pump' \in PumpType(0 .. MaxOwner) /\ http' \in HttpType /\ taskFault' \in BOOLEAN
      BY <1>a, <2>2, FailStreamTypes
    <3> QED
      BY <1>7, <2>2, <3>1 DEF PumpSendStopped, TypeInv, TypeOK
  <2>3. CASE /\ wire' = Append(wire, Contract!Stopped(sid))
             /\ HttpAt("complete")
             /\ UNCHANGED <<taskFault, pump>>
    <3>1. wire' \in Seq(WireItems)
      BY <1>a, <2>1, <2>3
    <3>2. http' \in HttpType
      BY <1>a, <2>3 DEF HttpAt, HttpType, HttpPcs
    <3> QED
      BY <1>7, <2>3, <3>1, <3>2 DEF PumpSendStopped, TypeInv, TypeOK
  <2> QED
    BY <1>7, <2>2, <2>3 DEF PumpSendStopped
<1>8. CASE CompleteOrderlyStop
  <2>1. pump' \in PumpType(0 .. MaxOwner)
    BY <1>8, <1>a, PumpTypes DEF CompleteOrderlyStop
  <2>2. prod' \in ProdType /\ acq' \in AcqRing /\ notified' \in BOOLEAN
    BY <1>8, <1>a, AbortTypes DEF CompleteOrderlyStop
  <2>3. http' \in HttpType
    BY <1>8, <1>a DEF CompleteOrderlyStop, HttpAt, HttpType, HttpPcs
  <2>4. out' \in OutRing /\ sid' \in 0 .. MaxStream
    BY <1>8, Defaults DEF CompleteOrderlyStop, ClearStream, OutClear
  <2> QED
    BY <1>8, <2>1, <2>2, <2>3, <2>4 DEF CompleteOrderlyStop, ClearStream, TypeInv, TypeOK
<1>9. CASE PumpFinish
  <2> DEFINE workRemains == active /\ (out.queue # <<>> \/ ReadyForStreamEnd(http.snap))
             done == Finish(pump, workRemains)
  <2>1. done \in PumpType(0 .. MaxOwner)
    BY <1>a, PumpTypes
  <2>2. Append(workq, PumpItem(done.pending)) \in Seq(WorkItems)
    BY <1>a, <2>1, PumpFields, WorkTypes
  <2>3. Reject(done, owner.gen, done.pending) \in PumpType(0 .. MaxOwner)
    BY <2>1, PumpTypes
  <2>4. pump' \in PumpType(0 .. MaxOwner) /\ workq' \in Seq(WorkItems)
    BY <1>9, <1>a, <2>1, <2>2, <2>3 DEF PumpFinish
  <2>5. http' \in HttpType
    BY <1>9, <1>a DEF PumpFinish, HttpAt, HttpType, HttpPcs
  <2> QED
    BY <1>9, <2>4, <2>5 DEF PumpFinish, TypeInv, TypeOK
<1>10. CASE FailStreamAbort
  <2>1. prod' \in ProdType /\ acq' \in AcqRing /\ notified' \in BOOLEAN
    BY <1>10, <1>a, AbortTypes DEF FailStreamAbort
  <2>2. http' \in HttpType
    BY <1>10, <1>a DEF FailStreamAbort, HttpAt, HttpType, HttpPcs
  <2> QED
    BY <1>10, <2>1, <2>2 DEF FailStreamAbort, TypeInv, TypeOK
<1>11. CASE FailStreamClear
  <2>1. workq' \in Seq(WorkItems)
    BY <1>11, <1>a, <1>b, WorkTypes DEF FailStreamClear
  <2>2. http' \in HttpType
    BY <1>11, <1>a DEF FailStreamClear, HttpAt, HttpType, HttpPcs
  <2> QED
    BY <1>11, <1>a, <2>1, <2>2, ClearPipelineTypes DEF FailStreamClear, TypeInv, TypeOK
<1> QED
  BY <1>1, <1>2, <1>3, <1>4, <1>5, <1>6, <1>7, <1>8, <1>9, <1>10, <1>11 DEF PumpStep

(* The HTTPD task in the WebSocket handlers. *)
LEMMA TypeStepHandlers ==
  ASSUME TypeInv, Client \/ CloseWork \/ HandlerStep
  PROVE  TypeInv'
<1> USE DEF lifeVars, streamVars, prodVars, connVars, countVars, histVars, handlerOnly,
            closeOnly, EncoderInv
<1>a. /\ pump \in PumpType(0 .. MaxOwner) /\ workq \in Seq(WorkItems)
      /\ http \in HttpType /\ out \in OutRing
      /\ prod \in ProdType /\ acq \in AcqRing
      /\ first \in BOOLEAN /\ expected \in Sequences /\ sid \in 0 .. MaxStream
      /\ serverCount \in 0 .. MaxServer /\ ownerCount \in 0 .. MaxOwner
      /\ streamCount \in 0 .. MaxStream /\ conn \in 0 .. MaxOwner
  BY DEF TypeInv, TypeOK
<1>1. CASE OpenOwner
  <2>1. ownerCount + 1 \in 0 .. MaxOwner
    BY <1>1, <1>a, PipelineAssumption DEF OpenOwner
  <2>2. [gen |-> ownerCount + 1, server |-> serverCount] \in Owners
    BY <1>a, <2>1 DEF Owners
  <2>3. Activate(pump, ownerCount + 1) \in PumpType(0 .. MaxOwner)
    BY <1>a, <2>1, PumpTypes
  <2> DEFINE new == [gen |-> ownerCount + 1, server |-> serverCount]
  <2>4. UNCHANGED <<handlerOnly, lifeVars, mutex, prodVars, notified, http, workq, closing,
                    streamCount>>
        /\ ownerCount' \in 0 .. MaxOwner
    BY <1>1, <2>1 DEF OpenOwner
  <2>5. CASE /\ pump' = Activate(pump, new.gen) /\ owner' = new
             /\ active' = FALSE /\ stopping' = FALSE /\ sid' = 0 /\ out' = OutClear(out)
             /\ conn' = new.gen /\ session' = 0
             /\ UNCHANGED <<first, expected>>
    <3>1. /\ pump' \in PumpType(0 .. MaxOwner) /\ owner' \in Owners
          /\ active' \in BOOLEAN /\ stopping' \in BOOLEAN /\ sid' \in 0 .. MaxStream
          /\ out' \in OutRing /\ conn' \in 0 .. MaxOwner /\ session' \in 0 .. MaxStream
          /\ UNCHANGED <<first, expected>>
      BY <2>1, <2>2, <2>3, <2>5, Defaults DEF OutClear
    <3> QED
      BY <2>4, <3>1 DEF TypeInv, TypeOK
  <2>6. CASE UNCHANGED <<pump, streamVars, out, conn, session>>
    BY <2>4, <2>6 DEF TypeInv, TypeOK
  <2> QED
    BY <1>1, <2>5, <2>6 DEF OpenOwner
<1>2. CASE StartStream
  <2>1. streamCount + 1 \in 0 .. MaxStream
    BY <1>2, <1>a, PipelineAssumption DEF StartStream
  <2>2. UNCHANGED <<lifeVars, pump, busy, prodVars, notified, enc, tx, app, workq, conn,
                    session, serverCount, ownerCount>>
        /\ streamCount' \in 0 .. MaxStream
    BY <1>2, <2>1 DEF StartStream
  <2>3. CASE /\ active' = TRUE /\ sid' = streamCount + 1 /\ first' = TRUE /\ expected' = 0
             /\ out' = OutClear(out)
             /\ mutex' = "httpd"
             /\ HttpAt("startProducer")
             /\ wire' = <<>> /\ lost' = [acq |-> {}, out |-> {}]
             /\ UNCHANGED <<owner, stopping, closing>>
    <3>1. active' \in BOOLEAN /\ first' \in BOOLEAN /\ wire' \in Seq(WireItems)
      BY <2>3
    <3>2. sid' \in 0 .. MaxStream /\ expected' \in Sequences /\ out' \in OutRing
      BY <2>1, <2>3, Defaults DEF OutClear
    <3>3. http' \in HttpType /\ lost' \in LostType
      BY <1>a, <2>3 DEF HttpAt, HttpType, HttpPcs, LostType
    <3>4. mutex' \in {"free", "httpd", "app"} /\ UNCHANGED <<owner, stopping, closing>>
      BY <2>3
    <3> QED
      BY <2>2, <3>1, <3>2, <3>3, <3>4 DEF TypeInv, TypeOK
  <2>4. CASE closing' = TRUE /\ UNCHANGED <<streamVars, out, mutex, http, histVars>>
    BY <2>2, <2>4 DEF TypeInv, TypeOK
  <2> QED
    BY <1>2, <2>3, <2>4 DEF StartStream
<1>3. CASE RequestOrderlyStop
  <2>1. prod' \in ProdType /\ acq' \in AcqRing /\ notified' \in BOOLEAN
    <3>1. CASE CanStop
      BY <1>3, <1>a, <3>1 DEF RequestOrderlyStop, ProdType
    <3>2. CASE ~CanStop
      BY <1>3, <1>a, <3>2, AbortTypes DEF RequestOrderlyStop
    <3> QED
      BY <3>1, <3>2
  <2>2. http' \in HttpType /\ mutex' \in {"free", "httpd", "app"} /\ closing' \in BOOLEAN
    BY <1>3, <1>a DEF RequestOrderlyStop, HttpAt, HttpType, HttpPcs, TypeInv, TypeOK
  <2> QED
    BY <1>3, <2>1, <2>2 DEF RequestOrderlyStop, TypeInv, TypeOK
<1>4. ASSUME BeginClose
      PROVE  /\ pump' \in PumpType(0 .. MaxOwner) /\ http' \in HttpType
             /\ mutex' \in {"free", "httpd", "app"} /\ notified' \in BOOLEAN
             /\ conn' \in 0 .. MaxOwner /\ session' \in 0 .. MaxStream
             /\ closing' \in BOOLEAN
  <2>1. pump' \in PumpType(0 .. MaxOwner)
    BY <1>4, <1>a, PumpTypes DEF BeginClose
  <2>2. http' \in HttpType
    BY <1>4, <1>a DEF BeginClose, HttpAt, HttpType, HttpPcs
  <2> QED
    BY <1>4, <2>1, <2>2, Defaults DEF BeginClose, TypeInv, TypeOK
<1>5. CASE ClientGone
  BY <1>4, <1>5 DEF ClientGone, TypeInv, TypeOK
<1>6. CASE CloseWork
  <2>1. workq' \in Seq(WorkItems)
    BY <1>6, <1>a, WorkTypes DEF CloseWork
  <2> QED
    BY <1>4, <1>6, <2>1 DEF CloseWork, TypeInv, TypeOK
<1>7. CASE StartProducer
  <2>1. prod' \in ProdType /\ acq' \in AcqRing
    BY <1>7, <1>a, Defaults DEF StartProducer, ProdType
  <2>2. http' \in HttpType
    BY <1>7, <1>a DEF StartProducer, HttpAt, HttpType, HttpPcs
  <2> QED
    BY <1>7, <2>1, <2>2 DEF StartProducer, TypeInv, TypeOK
<1>8. CASE CommitOrderlyStop
  <2>1. http' \in HttpType
    BY <1>8, <1>a DEF CommitOrderlyStop, HttpAt, HttpType, HttpPcs
  <2> QED
    BY <1>8, <2>1, Defaults DEF CommitOrderlyStop, TypeInv, TypeOK
<1>9. CASE CloseAbort
  <2>1. prod' \in ProdType /\ acq' \in AcqRing /\ notified' \in BOOLEAN
    BY <1>9, <1>a, AbortTypes DEF CloseAbort, TypeInv, TypeOK
  <2>2. http' \in HttpType
    BY <1>9, <1>a DEF CloseAbort, HttpAt, HttpType, HttpPcs
  <2> QED
    BY <1>9, <2>1, <2>2 DEF CloseAbort, TypeInv, TypeOK
<1>10. CASE CloseClear
  <2>1. http' \in HttpType
    BY <1>10, <1>a DEF CloseClear, HttpAt, HttpType, HttpPcs
  <2> QED
    BY <1>10, <1>a, <2>1, ClearPipelineTypes, Defaults DEF CloseClear, TypeInv, TypeOK
<1> QED
  BY <1>1, <1>2, <1>3, <1>5, <1>6, <1>7, <1>8, <1>9, <1>10 DEF Client, HandlerStep

(* The application task. *)
LEMMA TypeStepApp ==
  ASSUME TypeInv, App
  PROVE  TypeInv'
<1> USE DEF lifeVars, streamVars, prodVars, connVars, countVars, histVars, appOnly, EncoderInv
<1>a. /\ pump \in PumpType(0 .. MaxOwner) /\ life \in LifeType(0 .. MaxServer)
      /\ prod \in ProdType /\ acq \in AcqRing
      /\ first \in BOOLEAN /\ expected \in Sequences /\ sid \in 0 .. MaxStream
      /\ serverCount \in 0 .. MaxServer
  BY DEF TypeInv, TypeOK
<1>1. CASE CommitServerRunning
  <2>1. serverCount + 1 \in 0 .. MaxServer
    BY <1>1, <1>a, PipelineAssumption DEF CommitServerRunning
  <2>2. life' \in LifeType(0 .. MaxServer)
    BY <1>1, <1>a, <2>1, LifeTypes DEF CommitServerRunning
  <2> QED
    BY <1>1, <2>1, <2>2 DEF CommitServerRunning, TypeInv, TypeOK
<1>2. CASE StopServer
  <2>1. life' \in LifeType(0 .. MaxServer)
    BY <1>2, <1>a, LifeTypes DEF StopServer
  <2>2. pump' \in PumpType(0 .. MaxOwner)
    BY <1>2, <1>a, PumpTypes DEF StopServer
  <2>3. notified' \in BOOLEAN /\ mutex' \in {"free", "httpd", "app"}
        /\ app' \in {"stopAbort", "httpdStop"}
    BY <1>2 DEF StopServer, TypeInv, TypeOK
  <2> QED
    BY <1>2, <2>1, <2>2, <2>3 DEF StopServer, TypeInv, TypeOK
<1>3. CASE StopServerAbort
  <2>1. prod' \in ProdType /\ acq' \in AcqRing /\ notified' \in BOOLEAN
    BY <1>3, <1>a, AbortTypes DEF StopServerAbort, TypeInv, TypeOK
  <2> QED
    BY <1>3, <2>1 DEF StopServerAbort, TypeInv, TypeOK
<1>4. CASE StopServerClear
  BY <1>4, <1>a, ClearPipelineTypes DEF StopServerClear, TypeInv, TypeOK
<1>5. CASE MarkStopFailed
  <2>1. life' \in LifeType(0 .. MaxServer)
    BY <1>5, <1>a, LifeTypes DEF MarkStopFailed
  <2> QED
    BY <1>5, <2>1 DEF MarkStopFailed, TypeInv, TypeOK
<1>6. CASE HttpdJoined
  BY <1>6, WorkTypes, Defaults DEF HttpdJoined, TypeInv, TypeOK
<1>7. CASE MarkStopSucceeded
  <2>1. life' \in LifeType(0 .. MaxServer)
    BY <1>7, <1>a, LifeTypes DEF MarkStopSucceeded
  <2> QED
    BY <1>7, <2>1 DEF MarkStopSucceeded, TypeInv, TypeOK
<1> QED
  BY <1>1, <1>2, <1>3, <1>4, <1>5, <1>6, <1>7 DEF App

LEMMA TypeStep == TypeInv /\ [Next]_vars => TypeInv'
<1> SUFFICES ASSUME TypeInv, [Next]_vars PROVE TypeInv'
  OBVIOUS
<1>1. CASE UNCHANGED vars
  BY <1>1 DEF vars, lifeVars, streamVars, prodVars, connVars, countVars, histVars,
              TypeInv, TypeOK, EncoderInv
<1> QED
  BY <1>1, TypeStepEncoder, TypeStepTx, TypeStepPump, TypeStepHandlers, TypeStepApp DEF Next

(* Every variable keeps its type in every run, whatever the depths, the    *)
(* token width and the limits are: no ring, counter, token or sequence     *)
(* number of the pipeline leaves its range.                                *)
THEOREM TypeCorrect == Spec => []TypeOK
<1>1. TypeInv => TypeOK
  BY DEF TypeInv
<1> QED
  BY <1>1, TypeInit, TypeStep, PTL DEF Spec

-----------------------------------------------------------------------------
(* Ownership.  The _send_mutex is released and taken between critical      *)
(* sections of the pipeline, so what protects the stream is where each of  *)
(* its two holders stands; OwnershipInv says it position by position.      *)

(* The effect of the pump's operations, field by field. *)
LEMMA PumpEffects ==
  ASSUME NEW Gens, NEW p \in PumpType(Gens)
  PROVE  /\ \A g : Serves(p, g) =>
              /\ ~Invalidate(p, g).active
              /\ Invalidate(p, g).pending = NoToken
              /\ Invalidate(p, g).executing = NoToken
         /\ \A g : ~Serves(p, g) => Invalidate(p, g) = p
         /\ Request(p).active = p.active /\ Request(p).gen = p.gen
         /\ Request(p).executing = p.executing
         /\ Request(p).pending = NextToken(p)
         /\ \A t : /\ Begin(p, t).active = p.active /\ Begin(p, t).gen = p.gen
                   /\ Begin(p, t).pending = NoToken /\ Begin(p, t).executing = t
         /\ \A g, t : /\ Reject(p, g, t).active = p.active /\ Reject(p, g, t).gen = p.gen
                      /\ Reject(p, g, t).executing = p.executing
         /\ \A g : Serves(p, g) => Reject(p, g, p.pending).pending = NoToken
         /\ \A g : /\ Activate(p, g).active /\ Activate(p, g).gen = g
                   /\ Activate(p, g).pending = NoToken
                   /\ Activate(p, g).executing = NoToken
<1> USE DEF PumpType
<1>1. \A g : Serves(p, g) =>
              /\ ~Invalidate(p, g).active
              /\ Invalidate(p, g).pending = NoToken
              /\ Invalidate(p, g).executing = NoToken
  BY DEF Invalidate
<1>2. \A g : ~Serves(p, g) => Invalidate(p, g) = p
  BY DEF Invalidate
<1>3. /\ Request(p).active = p.active /\ Request(p).gen = p.gen
      /\ Request(p).executing = p.executing /\ Request(p).pending = NextToken(p)
  BY DEF Request
<1>4. \A t : /\ Begin(p, t).active = p.active /\ Begin(p, t).gen = p.gen
             /\ Begin(p, t).pending = NoToken /\ Begin(p, t).executing = t
  BY DEF Begin
<1>5. \A g, t : /\ Reject(p, g, t).active = p.active /\ Reject(p, g, t).gen = p.gen
                /\ Reject(p, g, t).executing = p.executing
  BY DEF Reject
<1>6. \A g : Serves(p, g) => Reject(p, g, p.pending).pending = NoToken
  BY DEF Reject
<1>7. \A g : /\ Activate(p, g).active /\ Activate(p, g).gen = g
             /\ Activate(p, g).pending = NoToken /\ Activate(p, g).executing = NoToken
  BY DEF Activate
<1> QED
  BY <1>1, <1>2, <1>3, <1>4, <1>5, <1>6, <1>7

(* A callback that ended: rescheduled, with a pending token, or idle. *)
LEMMA FinishEffects ==
  ASSUME NEW Gens, NEW p \in PumpType(Gens), p.pending = NoToken, NEW w
  PROVE  /\ Finish(p, w).active = p.active /\ Finish(p, w).gen = p.gen
         /\ Finish(p, w).executing = NoToken
         /\ ~w => Finish(p, w).pending = NoToken
<1> DEFINE idle == [p EXCEPT !.executing = NoToken]
<1>1. /\ idle \in PumpType(Gens) /\ idle.active = p.active /\ idle.gen = p.gen
      /\ idle.executing = NoToken /\ idle.pending = NoToken
  BY TokenMaxAssumption DEF PumpType, NoToken
<1> HIDE DEF idle
<1>2. /\ Request(idle).active = p.active /\ Request(idle).gen = p.gen
      /\ Request(idle).executing = NoToken
  BY <1>1, PumpEffects
<1>3. Finish(p, w) = IF w THEN Request(idle) ELSE idle
  BY DEF Finish, idle
<1> QED
  BY <1>1, <1>2, <1>3

LEMMA HttpAtEffect ==
  ASSUME http \in HttpType, NEW pc, HttpAt(pc)
  PROVE  http'.pc = pc
BY DEF HttpAt, HttpType

(* An item of the work queue outlives one more append, and outlives the    *)
(* removal of another item.                                                *)
LEMMA QueuedStays ==
  ASSUME NEW q \in Seq(WorkItems), NEW item,
         \E i \in DOMAIN q : q[i] = item
  PROVE  /\ \A x : \E i \in DOMAIN Append(q, x) : Append(q, x)[i] = item
         /\ q # <<>> /\ Head(q) # item => \E i \in DOMAIN Tail(q) : Tail(q)[i] = item
<1>1. PICK i \in DOMAIN q : q[i] = item
  OBVIOUS
<1>2. ASSUME NEW x PROVE \E j \in DOMAIN Append(q, x) : Append(q, x)[j] = item
  <2>1. i \in DOMAIN Append(q, x) /\ Append(q, x)[i] = item
    BY <1>1
  <2> QED
    BY <2>1
<1>3. ASSUME q # <<>>, Head(q) # item PROVE \E j \in DOMAIN Tail(q) : Tail(q)[j] = item
  <2>1. i - 1 \in DOMAIN Tail(q) /\ Tail(q)[i - 1] = item
    BY <1>1, <1>3
  <2> QED
    BY <2>1
<1> QED
  BY <1>2, <1>3

LEMMA QueuedLast ==
  ASSUME NEW q \in Seq(WorkItems), NEW item
  PROVE  \E i \in DOMAIN Append(q, item) : Append(q, item)[i] = item
<1>1. Len(q) + 1 \in DOMAIN Append(q, item) /\ Append(q, item)[Len(q) + 1] = item
  OBVIOUS
<1> QED
  BY <1>1

LEMMA OwnershipInit == Init => OwnershipInv
BY DEF Init, OwnershipInv, MutexInv, ServerInv, OwnerInv, PumpInv, StreamInv, ProducerInv,
       PendingIsQueued, PumpPcs, FailPcs, ClosePcs, Aborted, HttpdRuns, StoppedLife, IdlePump,
       NoToken, EmptyOut, Stopped0

(* The facts about records that the steps below rest on. *)
LEMMA TypedFields ==
  ASSUME TypeInv
  PROVE  /\ http \in HttpType /\ pump \in PumpType(0 .. MaxOwner) /\ prod \in ProdType
         /\ workq \in Seq(WorkItems) /\ owner \in Owners
         /\ life \in LifeType(0 .. MaxServer) /\ serverCount \in Nat /\ ownerCount \in Nat
         /\ streamCount \in Nat /\ sid \in Nat
         /\ mutex \in {"free", "httpd", "app"}
BY PipelineAssumption DEF TypeInv, TypeOK

(* Where the mutex is free the HTTPD task serves and no stop is halfway. *)
LEMMA FreeMutex ==
  ASSUME TypeInv, OwnershipInv, mutex = "free"
  PROVE  /\ http.pc = "idle" /\ app \notin {"stopAbort", "stopClear"} /\ ~Aborted
         /\ pump.executing = NoToken
         /\ prod.id = sid /\ (prod.active <=> active /\ ~stopping)
         /\ owner # NoOwner => /\ Serves(pump, owner.gen) /\ owner = TransportOwner
                               /\ Accepting(life, serverCount)
<1>1. http.pc = "idle" /\ app \notin {"stopAbort", "stopClear"} /\ ~Aborted
  BY DEF OwnershipInv, MutexInv, Aborted
<1>2. /\ pump.executing = NoToken /\ prod.id = sid
      /\ prod.active <=> active /\ ~stopping
  BY <1>1 DEF OwnershipInv, PumpInv, ProducerInv, PumpPcs
<1>3. ASSUME owner # NoOwner
      PROVE  /\ Serves(pump, owner.gen) /\ owner = TransportOwner
             /\ Accepting(life, serverCount)
  <2>1. /\ owner.gen # 0 /\ owner.gen = conn /\ owner.server = serverCount
        /\ app = "up"
    BY <1>1, <1>3 DEF OwnershipInv, OwnerInv
  <2>2. owner = [gen |-> owner.gen, server |-> owner.server]
    BY TypedFields DEF Owners
  <2>3. Serves(pump, owner.gen)
    BY <1>3, <2>1 DEF OwnershipInv, PumpInv, Serves
  <2>4. Accepting(life, serverCount)
    BY <2>1 DEF OwnershipInv, ServerInv, Accepting, Matches, NoServer
  <2> QED
    BY <2>1, <2>2, <2>3, <2>4 DEF TransportOwner
<1> QED
  BY <1>1, <1>2, <1>3

(* The measurement task and the encoder touch neither the mutex nor who    *)
(* owns what; a frame is pushed for a running stream only.                 *)
LEMMA OwnershipStepEncoder ==
  ASSUME TypeInv, OwnershipInv, Tap \/ Encoder
  PROVE  OwnershipInv'
<1> USE DEF lifeVars, streamVars, connVars, countVars
<1>1. UNCHANGED <<lifeVars, streamVars, pump, mutex, http, app, workq, connVars, countVars>>
  BY DEF Tap, Encoder, EncoderClaim, EncoderPop, EncoderPush, EncoderRelease, encoderOnly
<1>2. prod'.id = prod.id /\ prod'.active = prod.active
  BY TypedFields DEF Tap, Encoder, EncoderClaim, EncoderPop, EncoderPush, EncoderRelease,
                     prodVars, ProdType
<1>3. ~active => out'.queue = <<>>
  BY DEF OwnershipInv, OwnerInv, Tap, Encoder, EncoderClaim, EncoderPop, EncoderPush,
         EncoderRelease
<1>4. OwnerInv'
  BY <1>1, <1>3 DEF OwnershipInv, OwnerInv
<1>5. ProducerInv'
  BY <1>1, <1>2 DEF OwnershipInv, ProducerInv, Aborted
<1> QED
  BY <1>1, <1>4, <1>5
  DEF OwnershipInv, MutexInv, ServerInv, PumpInv, StreamInv, PendingIsQueued, HttpdRuns

(* What an action that leaves all but the pump and the queue alone owes.   *)
LEMMA PumpOnlyStep ==
  ASSUME OwnershipInv, PumpInv', StreamInv', PendingIsQueued',
         UNCHANGED <<life, streamVars, out, mutex, prodVars, http, app, connVars, countVars>>
  PROVE  OwnershipInv'
<1> USE DEF streamVars, prodVars, connVars, countVars
<1>1. MutexInv' /\ ServerInv'
  BY DEF OwnershipInv, MutexInv, ServerInv, HttpdRuns
<1>2. OwnerInv'
  BY DEF OwnershipInv, OwnerInv
<1>3. ProducerInv'
  BY DEF OwnershipInv, ProducerInv, Aborted
<1> QED
  BY <1>1, <1>2, <1>3 DEF OwnershipInv

(* The TX task. *)
LEMMA OwnershipStepTx ==
  ASSUME TypeInv, OwnershipInv, Tx
  PROVE  OwnershipInv'
<1> USE DEF lifeVars, streamVars, prodVars, connVars, countVars, histVars, txOnly
<1>1. CASE UNCHANGED <<txOnly, pump, workq>>
  <2>1. PumpInv' /\ StreamInv' /\ PendingIsQueued'
    BY <1>1 DEF OwnershipInv, PumpInv, StreamInv, PendingIsQueued
  <2> QED
    BY <1>1, <2>1, PumpOnlyStep
<1>2. CASE RequestPumpQueued \/ RequestPumpRejected
  <2>1. /\ mutex = "free" /\ active /\ owner # NoOwner
        /\ tx.owner = owner /\ pump.executing = NoToken /\ Serves(pump, owner.gen)
    BY <1>2 DEF RequestPumpQueued, RequestPumpRejected, PumpWanted, OwnerMatches, CanSchedule
  <2>2. UNCHANGED txOnly
    BY <1>2 DEF RequestPumpQueued, RequestPumpRejected
  <2>3. http.pc = "idle"
    BY <2>1, FreeMutex
  <2>4. CASE RequestPumpQueued
    <3>1. pump' = Request(pump) /\ workq' = Append(workq, PumpItem(pump'.pending))
      BY <2>4 DEF RequestPumpQueued
    <3>2. pump'.active = pump.active /\ pump'.gen = pump.gen /\ pump'.executing = NoToken
      BY <2>1, <3>1, PumpEffects, TypedFields
    <3>3. PendingIsQueued'
      BY <3>1, <3>2, QueuedLast, TypedFields DEF PendingIsQueued
    <3>4. PumpInv' /\ StreamInv'
      BY <2>1, <2>2, <2>3, <3>2 DEF OwnershipInv, PumpInv, StreamInv, PumpPcs, Serves
    <3> QED
      BY <2>2, <3>3, <3>4, PumpOnlyStep
  <2>5. CASE RequestPumpRejected
    <3>1. pump' = Reject(Request(pump), tx.owner.gen, NextToken(pump)) /\ UNCHANGED workq
      BY <2>5 DEF RequestPumpRejected
    <3>2. /\ Request(pump) \in PumpType(0 .. MaxOwner)
          /\ Request(pump).active = pump.active /\ Request(pump).gen = pump.gen
          /\ Request(pump).executing = NoToken /\ Request(pump).pending = NextToken(pump)
      BY <2>1, PumpTypes, PumpEffects, TypedFields
    <3>3. Serves(Request(pump), owner.gen)
      BY <2>1, <3>2 DEF Serves
    <3>4. /\ pump'.active = pump.active /\ pump'.gen = pump.gen
          /\ pump'.executing = NoToken /\ pump'.pending = NoToken
      BY <2>1, <3>1, <3>2, <3>3, PumpEffects
    <3>5. PumpInv' /\ StreamInv' /\ PendingIsQueued'
      BY <2>1, <2>2, <2>3, <3>4
      DEF OwnershipInv, PumpInv, StreamInv, PumpPcs, PendingIsQueued, Serves
    <3> QED
      BY <2>2, <3>5, PumpOnlyStep
  <2> QED
    BY <1>2, <2>4, <2>5
<1> QED
  BY <1>1, <1>2 DEF Tx, TxLatch, RequestPumpDeclined

(* Where the HTTPD task stands inside a handler it holds the mutex, so no  *)
(* stop of the application is halfway.                                     *)
LEMMA InHandler ==
  ASSUME OwnershipInv, http.pc # "idle"
  PROVE  /\ mutex = "httpd" /\ app \notin {"stopAbort", "stopClear", "down", "joined"}
         /\ (owner # NoOwner => app = "up")
         /\ (owner # NoOwner => Accepting(life, owner.server))
<1>1. mutex = "httpd" /\ app \notin {"stopAbort", "stopClear", "down", "joined"}
  BY DEF OwnershipInv, MutexInv, HttpdRuns
<1>2. owner # NoOwner => app = "up" /\ owner.server = serverCount
  BY <1>1 DEF OwnershipInv, OwnerInv
<1>3. owner # NoOwner => Accepting(life, owner.server)
  BY <1>2 DEF OwnershipInv, ServerInv, Accepting, Matches, NoServer
<1> QED
  BY <1>1, <1>2, <1>3

(* Inside PumpWork the stream runs, its owner is the pump's, and the       *)
(* pipeline and the producer agree.                                        *)
LEMMA InPumpWork ==
  ASSUME OwnershipInv, http.pc \in PumpPcs
  PROVE  /\ mutex = "httpd" /\ app = "up" /\ active /\ owner # NoOwner
         /\ owner.gen # 0 /\ owner.gen = conn
         /\ Serves(pump, owner.gen) /\ pump.pending = NoToken /\ pump.executing # NoToken
         /\ ~Aborted /\ prod.id = sid /\ sid # 0 /\ Accepting(life, owner.server)
<1>1. http.pc # "idle"
  BY DEF PumpPcs
<1>2. active /\ owner # NoOwner /\ owner.gen # 0 /\ owner.gen = conn /\ sid # 0
  BY DEF OwnershipInv, StreamInv, OwnerInv
<1>3. mutex = "httpd" /\ app = "up" /\ Accepting(life, owner.server)
  BY <1>1, <1>2, InHandler
<1>4. Serves(pump, owner.gen) /\ pump.executing # NoToken /\ pump.pending = NoToken
  BY <1>2 DEF OwnershipInv, StreamInv, PumpInv, Serves
<1>5. ~Aborted
  BY <1>3 DEF Aborted, PumpPcs
<1>6. prod.id = sid
  BY <1>5 DEF OwnershipInv, ProducerInv
<1> QED
  BY <1>2, <1>3, <1>4, <1>5, <1>6

(* Moving on inside PumpWork. *)
LEMMA PumpMoves ==
  ASSUME OwnershipInv, http.pc \in PumpPcs, http'.pc \in PumpPcs,
         UNCHANGED <<life, owner, active, stopping, sid, pump, mutex, prod, app, workq, conn,
                     serverCount>>
  PROVE  OwnershipInv'
<1>1. MutexInv' /\ ServerInv'
  BY DEF OwnershipInv, MutexInv, ServerInv, PumpPcs, HttpdRuns
<1>2. OwnerInv'
  BY InPumpWork DEF OwnershipInv, OwnerInv
<1>3. PumpInv' /\ PendingIsQueued'
  BY InPumpWork DEF OwnershipInv, PumpInv, PendingIsQueued, PumpPcs
<1>4. StreamInv'
  BY DEF OwnershipInv, StreamInv, PumpPcs, FailPcs, ClosePcs
<1>5. ProducerInv'
  BY InPumpWork DEF OwnershipInv, ProducerInv, Aborted, PumpPcs
<1> QED
  BY <1>1, <1>2, <1>3, <1>4, <1>5 DEF OwnershipInv

(* A failure inside PumpWork. *)
LEMMA PumpFails ==
  ASSUME TypeInv, OwnershipInv, http.pc \in PumpPcs, NEW f, FailStream(f),
         UNCHANGED <<life, owner, active, stopping, sid, mutex, prod, app, workq, conn,
                     serverCount>>
  PROVE  OwnershipInv'
<1>1. http'.pc = "failAbort"
  BY HttpAtEffect, TypedFields DEF FailStream
<1>2. ~pump'.active /\ pump'.pending = NoToken /\ pump'.executing = NoToken
  BY InPumpWork, PumpEffects, TypedFields DEF FailStream
<1>3. MutexInv' /\ ServerInv'
  BY <1>1 DEF OwnershipInv, MutexInv, ServerInv, PumpPcs, HttpdRuns
<1>4. OwnerInv'
  BY InPumpWork DEF OwnershipInv, OwnerInv
<1>5. PumpInv' /\ PendingIsQueued'
  BY <1>1, <1>2, InPumpWork DEF PumpInv, PendingIsQueued, PumpPcs
<1>6. StreamInv'
  BY <1>1, InPumpWork DEF StreamInv, PumpPcs, FailPcs, ClosePcs
<1>7. ProducerInv'
  BY <1>1, InPumpWork DEF OwnershipInv, ProducerInv, Aborted, PumpPcs
<1> QED
  BY <1>3, <1>4, <1>5, <1>6, <1>7 DEF OwnershipInv

(* A step that gives the mutex back with the owner gone. *)
LEMMA ClearReleases ==
  ASSUME TypeInv, OwnershipInv, ClearPipeline,
         http.pc \in {"failClear", "closeClear"} \/ app = "stopClear"
  PROVE  /\ owner' = NoOwner /\ ~active' /\ ~stopping' /\ sid' = 0 /\ out'.queue = <<>>
         /\ ~pump'.active /\ pump'.pending = NoToken /\ pump'.executing = NoToken
         /\ prod.id = 0 /\ ~prod.active
<1>1. pump.active => Serves(pump, owner.gen)
  BY DEF OwnershipInv, PumpInv, OwnerInv, Serves
<1>2. ~pump'.active /\ pump'.pending = NoToken /\ pump'.executing = NoToken
  <2>1. CASE pump.active
    BY <1>1, <2>1, PumpEffects, TypedFields DEF ClearPipeline
  <2>2. CASE ~pump.active
    BY <2>2, PumpEffects, TypedFields DEF ClearPipeline, OwnershipInv, PumpInv, Serves
  <2> QED
    BY <2>1, <2>2
<1>3. prod.id = 0 /\ ~prod.active
  BY DEF OwnershipInv, ProducerInv, Aborted
<1> QED
  BY <1>2, <1>3 DEF ClearPipeline, OutClear, EmptyOut

(* The HTTPD task at rest again, whatever the handler changed. *)
LEMMA HandlerEnds ==
  ASSUME OwnershipInv, mutex = "httpd", mutex' = "free", http'.pc = "idle",
         UNCHANGED <<life, app, serverCount>>,
         OwnerInv', PendingIsQueued',
         owner' # NoOwner => pump'.active /\ pump'.gen = owner'.gen,
         owner' = NoOwner => ~pump'.active,
         pump'.executing = NoToken, ~pump'.active => pump'.pending = NoToken,
         pump'.pending # NoToken => active',
         prod'.id = sid', prod'.active <=> active' /\ ~stopping'
  PROVE  OwnershipInv'
<1>1. MutexInv' /\ ServerInv'
  BY DEF OwnershipInv, MutexInv, ServerInv, HttpdRuns
<1>2. PumpInv'
  BY DEF PumpInv, PumpPcs
<1>3. app' \notin {"stopAbort", "stopClear"}
  BY DEF OwnershipInv, MutexInv
<1>4. StreamInv'
  BY <1>3 DEF StreamInv, PumpPcs, FailPcs, ClosePcs
<1>5. ProducerInv'
  BY <1>3 DEF ProducerInv, Aborted
<1> QED
  BY <1>1, <1>2, <1>4, <1>5 DEF OwnershipInv

(* The HTTPD task in PumpWork. *)
LEMMA OwnershipStepPump ==
  ASSUME TypeInv, OwnershipInv, PumpBegin \/ PumpStep
  PROVE  OwnershipInv'
<1> USE DEF lifeVars, streamVars, prodVars, connVars, countVars, histVars, pumpOnly
<1>1. CASE PumpBegin
  <2> DEFINE token == Head(workq).arg
             begins == owner # NoOwner /\ active /\ CanBegin(pump, owner.gen, token)
  <2>1. /\ mutex = "free" /\ HttpdRuns /\ workq # <<>> /\ workq' = Tail(workq)
        /\ UNCHANGED <<pumpOnly, streamVars, out>>
    BY <1>1 DEF PumpBegin, HttpdServes, HttpdIdle
  <2>2. CASE begins
    <3>1. pump' = Begin(pump, token) /\ mutex' = "httpd"
          /\ http' = [http EXCEPT !.pc = "drain", !.drained = 0]
      BY <1>1, <2>2 DEF PumpBegin
    <3>2. http'.pc = "drain"
      BY <3>1, TypedFields DEF HttpType
    <3>3. /\ pump'.active /\ pump'.gen = owner.gen /\ pump'.pending = NoToken
          /\ pump'.executing # NoToken
      BY <2>2, <3>1, PumpEffects, TypedFields DEF CanBegin, Serves
    <3>4. MutexInv' /\ ServerInv'
      BY <2>1, <3>1, <3>2, FreeMutex DEF OwnershipInv, MutexInv, ServerInv, HttpdRuns
    <3>5. OwnerInv'
      BY <2>1 DEF OwnershipInv, OwnerInv
    <3>6. PumpInv' /\ PendingIsQueued'
      BY <2>1, <2>2, <3>1, <3>2, <3>3 DEF PumpInv, PendingIsQueued, PumpPcs
    <3>7. StreamInv'
      BY <2>1, <2>2, <3>2, <3>3, FreeMutex DEF StreamInv, PumpPcs, FailPcs, ClosePcs
    <3>8. ProducerInv'
      BY <2>1, <3>2, FreeMutex DEF ProducerInv, Aborted
    <3> QED
      BY <3>4, <3>5, <3>6, <3>7, <3>8 DEF OwnershipInv
  <2>3. CASE ~begins
    <3>1. UNCHANGED <<pump, mutex, http>>
      BY <1>1, <2>3 DEF PumpBegin
    <3>2. ASSUME pump.pending # NoToken
          PROVE  Head(workq) # PumpItem(pump.pending)
      <4>1. active /\ owner # NoOwner /\ Serves(pump, owner.gen)
        BY <2>1, <3>2, FreeMutex DEF OwnershipInv, PumpInv, OwnerInv
      <4>2. token # pump.pending
        BY <2>3, <3>2, <4>1 DEF CanBegin
      <4> QED
        BY <4>2 DEF PumpItem
    <3>3. PendingIsQueued'
      BY <2>1, <3>1, <3>2, QueuedStays, TypedFields DEF OwnershipInv, PendingIsQueued
    <3>4. PumpInv' /\ StreamInv'
      BY <2>1, <3>1 DEF OwnershipInv, PumpInv, StreamInv
    <3> QED
      BY <1>1, <2>1, <3>1, <3>3, <3>4, PumpOnlyStep
  <2> QED
    BY <2>2, <2>3
<1>2. CASE PumpSendFrame
  <2>1. http.pc = "drain" /\ "drain" \in PumpPcs
        /\ UNCHANGED <<pumpOnly, owner, active, stopping, sid, mutex, workq>>
    BY <1>2 DEF PumpSendFrame, PumpPcs
  <2>2. CASE FailStream(TRUE) \/ FailStream(FALSE)
    BY <2>1, <2>2, PumpFails
  <2>3. CASE http' = [http EXCEPT !.drained = @ + 1] /\ UNCHANGED pump
    <3>1. http'.pc = "drain"
      BY <2>1, <2>3, TypedFields DEF HttpType
    <3> QED
      BY <2>1, <2>3, <3>1, PumpMoves
  <2> QED
    BY <1>2, <2>2, <2>3 DEF PumpSendFrame
<1>3. CASE PumpDrained \/ PumpSnapshot \/ PumpReady
  <2>1. http.pc \in PumpPcs
    BY <1>3 DEF PumpDrained, PumpSnapshot, PumpReady, PumpPcs
  <2>2. http'.pc \in PumpPcs
    BY <1>3, TypedFields DEF PumpDrained, PumpSnapshot, PumpReady, HttpAt, PumpPcs, HttpType
  <2> QED
    BY <1>3, <2>1, <2>2, PumpMoves DEF PumpDrained, PumpSnapshot, PumpReady
<1>4. CASE PumpSendEnd \/ PumpSendStopped
  <2>1. http.pc \in PumpPcs
        /\ UNCHANGED <<pumpOnly, streamVars, out, mutex, workq>>
    BY <1>4 DEF PumpSendEnd, PumpSendStopped, PumpPcs
  <2>2. CASE FailStream(FALSE)
    BY <2>1, <2>2, PumpFails
  <2>3. CASE (HttpAt("stoppedText") \/ HttpAt("complete")) /\ UNCHANGED pump
    <3>1. http'.pc \in PumpPcs
      BY <2>3, HttpAtEffect, TypedFields DEF PumpPcs
    <3> QED
      BY <2>1, <2>3, <3>1, PumpMoves
  <2> QED
    BY <1>4, <2>2, <2>3 DEF PumpSendEnd, PumpSendStopped
<1>5. CASE CompleteOrderlyStop
  <2>1. http.pc \in PumpPcs /\ http'.pc = "idle" /\ mutex' = "free"
    BY <1>5, HttpAtEffect, TypedFields DEF CompleteOrderlyStop, PumpPcs
  <2>2. /\ ~active' /\ ~stopping' /\ sid' = 0 /\ out'.queue = <<>>
        /\ UNCHANGED <<owner, lifeVars, app, workq, connVars, countVars>>
    BY <1>5 DEF CompleteOrderlyStop, ClearStream, OutClear, EmptyOut
  <2>3. /\ pump'.active /\ pump'.gen = owner.gen /\ pump'.executing = NoToken
        /\ pump'.pending = NoToken
    BY <1>5, <2>1, InPumpWork, FinishEffects, TypedFields DEF CompleteOrderlyStop, Serves
  <2>4. prod'.id = 0 /\ ~prod'.active
    BY <1>5, <2>1, InPumpWork, TypedFields DEF CompleteOrderlyStop, Abort, ProdType
  <2>5. OwnerInv'
    BY <2>2 DEF OwnershipInv, OwnerInv
  <2>6. PendingIsQueued'
    BY <2>3 DEF PendingIsQueued
  <2> QED
    BY <2>1, <2>2, <2>3, <2>4, <2>5, <2>6, InPumpWork, HandlerEnds
<1>6. CASE PumpFinish
  <2> DEFINE workRemains == active /\ (out.queue # <<>> \/ ReadyForStreamEnd(http.snap))
             done == Finish(pump, workRemains)
  <2>1. /\ http.pc \in PumpPcs /\ http.pc = "finish" /\ http'.pc = "idle" /\ mutex' = "free"
        /\ UNCHANGED <<pumpOnly, streamVars, out>>
    BY <1>6, HttpAtEffect, TypedFields DEF PumpFinish, PumpPcs
  <2>a. /\ Serves(pump, owner.gen) /\ pump.pending = NoToken
        /\ pump \in PumpType(0 .. MaxOwner)
    BY <2>1, InPumpWork, TypedFields
  <2>b. done \in PumpType(0 .. MaxOwner)
    BY <2>a, PumpTypes
  <2>c. /\ done.active = pump.active /\ done.gen = pump.gen
        /\ done.executing = NoToken /\ (~workRemains => done.pending = NoToken)
    BY <2>a, FinishEffects
  <2> HIDE DEF done
  <2>2. /\ done \in PumpType(0 .. MaxOwner) /\ done.active /\ done.gen = owner.gen
        /\ done.executing = NoToken /\ (~workRemains => done.pending = NoToken)
        /\ Serves(done, owner.gen)
    BY <2>a, <2>b, <2>c DEF Serves
  <2>3. \/ /\ pump' = done
           /\ workq' = IF workRemains THEN Append(workq, PumpItem(done.pending)) ELSE workq
        \/ pump' = Reject(done, owner.gen, done.pending) /\ UNCHANGED workq
    BY <1>6 DEF PumpFinish, done
  <2>4. /\ pump'.active /\ pump'.gen = owner.gen /\ pump'.executing = NoToken
        /\ PendingIsQueued'
    <3>1. CASE pump' = done /\ workRemains /\ workq' = Append(workq, PumpItem(done.pending))
      BY <2>2, <3>1, QueuedLast, TypedFields DEF PendingIsQueued
    <3>2. CASE pump' = done /\ ~workRemains
      BY <2>2, <3>2 DEF PendingIsQueued
    <3>3. CASE pump' = Reject(done, owner.gen, done.pending)
      BY <2>2, <3>3, PumpEffects DEF PendingIsQueued
    <3> QED
      BY <2>3, <3>1, <3>2, <3>3
  <2>5. OwnerInv'
    BY <2>1 DEF OwnershipInv, OwnerInv
  <2>6. prod.active <=> active /\ ~stopping
    BY <2>1, InPumpWork DEF OwnershipInv, ProducerInv
  <2> QED
    BY <2>1, <2>4, <2>5, <2>6, InPumpWork, HandlerEnds
<1>7. CASE FailStreamAbort
  <2>1. http.pc = "failAbort" /\ http'.pc = "failClear"
    BY <1>7, HttpAtEffect, TypedFields DEF FailStreamAbort
  <2>2. mutex = "httpd" /\ app \notin {"stopAbort", "stopClear", "down", "joined"} /\ active
    BY <2>1, InHandler DEF OwnershipInv, StreamInv, FailPcs
  <2>3. prod'.id = 0 /\ ~prod'.active
    <3>1. prod.id = sid
      BY <2>1, <2>2 DEF OwnershipInv, ProducerInv, Aborted
    <3> QED
      BY <1>7, <3>1, TypedFields DEF FailStreamAbort, Abort, ProdType
  <2>4. UNCHANGED <<lifeVars, streamVars, out, pump, mutex, app, workq, connVars, countVars>>
    BY <1>7 DEF FailStreamAbort
  <2>5. MutexInv' /\ ServerInv'
    BY <2>1, <2>2, <2>4 DEF OwnershipInv, MutexInv, ServerInv, HttpdRuns
  <2>6. OwnerInv'
    BY <2>4 DEF OwnershipInv, OwnerInv
  <2>7. PumpInv' /\ PendingIsQueued'
    BY <2>1, <2>2, <2>4 DEF OwnershipInv, PumpInv, PumpPcs, PendingIsQueued
  <2>8. StreamInv'
    BY <2>1, <2>2, <2>4 DEF StreamInv, PumpPcs, FailPcs, ClosePcs
  <2>9. ProducerInv'
    BY <2>1, <2>3 DEF ProducerInv, Aborted
  <2> QED
    BY <2>5, <2>6, <2>7, <2>8, <2>9 DEF OwnershipInv
<1>8. CASE FailStreamClear
  <2>1. http.pc = "failClear" /\ http'.pc = "idle" /\ mutex' = "free" /\ ClearPipeline
        /\ UNCHANGED <<lifeVars, prodVars, app, connVars, countVars>>
    BY <1>8, HttpAtEffect, TypedFields DEF FailStreamClear
  <2>2. OwnerInv' /\ PendingIsQueued'
    BY <2>1, ClearReleases DEF OwnerInv, PendingIsQueued
  <2> QED
    BY <2>1, <2>2, ClearReleases, InHandler, HandlerEnds
<1> QED
  BY <1>1, <1>2, <1>3, <1>4, <1>5, <1>6, <1>7, <1>8 DEF PumpStep

(* Close with the owner still there: the first step of it. *)
LEMMA CloseBegins ==
  ASSUME TypeInv, OwnershipInv, mutex = "free", HttpdRuns, BeginClose,
         UNCHANGED <<life, streamVars, out, prodVars, app, countVars>>,
         UNCHANGED <<pump, http>> => PendingIsQueued'
  PROVE  OwnershipInv'
<1> USE DEF streamVars, prodVars, countVars
<1>1. http.pc = "idle"
  BY FreeMutex
<1>2. CASE OwnerMatches(TransportOwner)
  <2>1. /\ owner # NoOwner /\ mutex' = "httpd" /\ http'.pc = "closeAbort"
        /\ pump' = Invalidate(pump, owner.gen) /\ UNCHANGED connVars
    BY <1>2, HttpAtEffect, TypedFields DEF BeginClose, OwnerMatches
  <2>2. ~pump'.active /\ pump'.pending = NoToken /\ pump'.executing = NoToken
    BY <2>1, FreeMutex, PumpEffects, TypedFields
  <2>3. MutexInv' /\ ServerInv'
    BY <2>1, FreeMutex DEF OwnershipInv, MutexInv, ServerInv, HttpdRuns
  <2>4. OwnerInv'
    BY <2>1 DEF OwnershipInv, OwnerInv, connVars
  <2>5. PumpInv' /\ PendingIsQueued'
    BY <2>1, <2>2 DEF PumpInv, PendingIsQueued, PumpPcs
  <2>6. StreamInv'
    BY <2>1, FreeMutex DEF StreamInv, PumpPcs, FailPcs, ClosePcs
  <2>7. ProducerInv'
    BY <2>1, FreeMutex DEF ProducerInv, Aborted
  <2> QED
    BY <2>3, <2>4, <2>5, <2>6, <2>7 DEF OwnershipInv
<1>3. CASE ~OwnerMatches(TransportOwner)
  <2>1. owner = NoOwner /\ UNCHANGED <<pump, mutex, http>>
    BY <1>3, FreeMutex DEF BeginClose, OwnerMatches
  <2>2. MutexInv' /\ ServerInv'
    BY <2>1 DEF OwnershipInv, MutexInv, ServerInv, HttpdRuns
  <2>3. OwnerInv'
    BY <2>1 DEF OwnershipInv, OwnerInv
  <2>4. PumpInv' /\ StreamInv'
    BY <2>1 DEF OwnershipInv, PumpInv, StreamInv
  <2>5. ProducerInv'
    BY <2>1, FreeMutex DEF OwnershipInv, ProducerInv, Aborted
  <2> QED
    BY <2>1, <2>2, <2>3, <2>4, <2>5 DEF OwnershipInv
<1> QED
  BY <1>2, <1>3

(* The HTTPD task in the WebSocket handlers. *)
LEMMA OwnershipStepHandlers ==
  ASSUME TypeInv, OwnershipInv, Client \/ CloseWork \/ HandlerStep
  PROVE  OwnershipInv'
<1> USE DEF lifeVars, streamVars, prodVars, connVars, countVars, histVars, handlerOnly,
            closeOnly
<1>1. CASE OpenOwner
  <2> DEFINE new == [gen |-> ownerCount + 1, server |-> serverCount]
  <2>1. /\ mutex = "free" /\ conn = 0
        /\ UNCHANGED <<lifeVars, mutex, prodVars, http, app, workq, serverCount>>
    BY <1>1 DEF OpenOwner
  <2>2. owner = NoOwner /\ ~active /\ sid = 0 /\ pump.pending = NoToken
    BY <2>1 DEF OwnershipInv, OwnerInv, PumpInv
  <2>3. MutexInv' /\ ServerInv'
    BY <2>1 DEF OwnershipInv, MutexInv, ServerInv, HttpdRuns
  <2>4. CASE CanOpen(new)
    <3>1. /\ pump' = Activate(pump, new.gen) /\ owner' = new
          /\ ~active' /\ ~stopping' /\ sid' = 0 /\ out' = EmptyOut /\ conn' = new.gen
      BY <1>1, <2>4 DEF OpenOwner, OutClear
    <3>2. /\ pump'.active /\ pump'.gen = new.gen /\ pump'.pending = NoToken
          /\ pump'.executing = NoToken
      BY <3>1, PumpEffects, TypedFields
    <3>3. new.gen # 0 /\ new # NoOwner /\ new.server = serverCount
      BY TypedFields DEF NoOwner
    <3>4. app = "up"
      BY <2>4, TypedFields DEF CanOpen, Accepting, OwnershipInv, ServerInv
    <3>5. OwnerInv'
      <4>1. owner'.gen # 0 /\ owner'.gen = conn' /\ owner'.server = serverCount' /\ app' = "up"
        BY <2>1, <3>1, <3>3, <3>4
      <4>2. ~active' /\ ~stopping' /\ sid' = 0 /\ out'.queue = <<>>
        BY <3>1 DEF EmptyOut
      <4> QED
        BY <4>1, <4>2 DEF OwnerInv
    <3>6. PumpInv' /\ PendingIsQueued'
      BY <2>1, <3>1, <3>2, <3>3, FreeMutex DEF PumpInv, PendingIsQueued, PumpPcs
    <3>7. StreamInv'
      BY <2>1, <3>4, FreeMutex DEF StreamInv, PumpPcs, FailPcs, ClosePcs
    <3>8. ProducerInv'
      BY <2>1, <2>2, <3>1, FreeMutex DEF ProducerInv, Aborted
    <3> QED
      BY <2>3, <3>5, <3>6, <3>7, <3>8 DEF OwnershipInv
  <2>5. CASE ~CanOpen(new)
    <3>1. UNCHANGED <<pump, streamVars, out, conn>>
      BY <1>1, <2>5 DEF OpenOwner
    <3>2. OwnerInv' /\ PumpInv' /\ StreamInv' /\ PendingIsQueued'
      BY <2>1, <3>1 DEF OwnershipInv, OwnerInv, PumpInv, StreamInv, PendingIsQueued
    <3>3. ProducerInv'
      BY <2>1, <3>1 DEF OwnershipInv, ProducerInv, Aborted
    <3> QED
      BY <2>3, <3>2, <3>3 DEF OwnershipInv
  <2> QED
    BY <2>4, <2>5
<1>2. CASE StartStream
  <2>1. /\ mutex = "free" /\ HttpdRuns
        /\ UNCHANGED <<lifeVars, pump, prodVars, app, workq, conn, serverCount>>
    BY <1>2 DEF StartStream, HttpdServes, HttpdIdle
  <2>2. CASE CanStart /\ HttpAt("startProducer") /\ active' = TRUE /\ sid' = streamCount + 1
             /\ mutex' = "httpd" /\ UNCHANGED <<owner, stopping>>
    <3>1. owner # NoOwner /\ ~active /\ ~stopping /\ http'.pc = "startProducer"
      BY <2>2, HttpAtEffect, TypedFields DEF CanStart, OwnerMatches
    <3>2. prod.id = 0 /\ ~prod.active /\ sid' # 0
      BY <2>1, <2>2, <3>1, FreeMutex, TypedFields DEF OwnershipInv, OwnerInv
    <3>3. MutexInv' /\ ServerInv'
      BY <2>1, <2>2, <3>1, FreeMutex DEF OwnershipInv, MutexInv, ServerInv, HttpdRuns
    <3>4. OwnerInv'
      BY <2>1, <2>2, <3>1, <3>2 DEF OwnershipInv, OwnerInv
    <3>5. PumpInv' /\ PendingIsQueued'
      BY <2>1, <2>2, <3>1, FreeMutex DEF OwnershipInv, PumpInv, PendingIsQueued, PumpPcs
    <3>6. StreamInv'
      BY <2>1, <2>2, <3>1, FreeMutex DEF StreamInv, PumpPcs, FailPcs, ClosePcs, Serves
    <3>7. ProducerInv'
      BY <2>1, <3>1, <3>2 DEF ProducerInv, Aborted
    <3> QED
      BY <3>3, <3>4, <3>5, <3>6, <3>7 DEF OwnershipInv
  <2>3. CASE UNCHANGED <<streamVars, out, mutex, http>>
    <3>1. MutexInv' /\ ServerInv'
      BY <2>1, <2>3 DEF OwnershipInv, MutexInv, ServerInv, HttpdRuns
    <3>2. OwnerInv' /\ PumpInv' /\ StreamInv' /\ PendingIsQueued'
      BY <2>1, <2>3 DEF OwnershipInv, OwnerInv, PumpInv, StreamInv, PendingIsQueued
    <3>3. ProducerInv'
      BY <2>1, <2>3 DEF OwnershipInv, ProducerInv, Aborted
    <3> QED
      BY <3>1, <3>2, <3>3 DEF OwnershipInv
  <2> QED
    BY <1>2, <2>2, <2>3 DEF StartStream
<1>3. CASE RequestOrderlyStop
  <2>1. /\ mutex = "free" /\ HttpdRuns /\ session # 0 /\ ~StopPending
        /\ UNCHANGED <<lifeVars, streamVars, out, pump, app, workq, conn, serverCount>>
    BY <1>3 DEF RequestOrderlyStop, HttpdServes, HttpdIdle
  <2>2. CASE CanStop
    <3>1. /\ owner # NoOwner /\ active /\ ~stopping /\ mutex' = "httpd"
          /\ http'.pc = "commitStop" /\ prod' = [prod EXCEPT !.active = FALSE]
      BY <1>3, <2>2, HttpAtEffect, TypedFields DEF RequestOrderlyStop, CanStop, OwnerMatches
    <3>2. prod'.id = sid /\ ~prod'.active
      BY <2>1, <3>1, FreeMutex, TypedFields DEF ProdType
    <3>3. MutexInv' /\ ServerInv'
      BY <2>1, <3>1, FreeMutex DEF OwnershipInv, MutexInv, ServerInv, HttpdRuns
    <3>4. OwnerInv'
      BY <2>1 DEF OwnershipInv, OwnerInv
    <3>5. PumpInv' /\ PendingIsQueued'
      BY <2>1, <3>1, FreeMutex DEF OwnershipInv, PumpInv, PendingIsQueued, PumpPcs
    <3>6. StreamInv'
      BY <2>1, <3>1, FreeMutex DEF StreamInv, PumpPcs, FailPcs, ClosePcs, Serves
    <3>7. ProducerInv'
      BY <2>1, <3>1, <3>2, FreeMutex DEF ProducerInv, Aborted
    <3> QED
      BY <3>3, <3>4, <3>5, <3>6, <3>7 DEF OwnershipInv
  <2>3. CASE ~CanStop
    <3>1. Abort(session) /\ UNCHANGED <<mutex, http>>
      BY <1>3, <2>3 DEF RequestOrderlyStop
    <3>2. prod.id # session
      <4>1. SUFFICES ASSUME prod.id = session PROVE CanStop
        BY <2>3
      <4>2. sid = session /\ active /\ owner # NoOwner /\ owner = TransportOwner
            /\ Accepting(life, serverCount)
        BY <2>1, <4>1, FreeMutex DEF OwnershipInv, OwnerInv
      <4>3. OwnerMatches(TransportOwner) /\ ~stopping
        BY <2>1, <4>2 DEF OwnerMatches, StopPending
      <4>4. prod.active
        BY <2>1, <4>2, <4>3, FreeMutex
      <4> QED
        BY <4>1, <4>2, <4>3, <4>4 DEF CanStop
    <3>3. UNCHANGED prodVars
      BY <3>1, <3>2 DEF Abort
    <3>4. MutexInv' /\ ServerInv'
      BY <2>1, <3>1 DEF OwnershipInv, MutexInv, ServerInv, HttpdRuns
    <3>5. OwnerInv' /\ PumpInv' /\ StreamInv' /\ PendingIsQueued'
      BY <2>1, <3>1 DEF OwnershipInv, OwnerInv, PumpInv, StreamInv, PendingIsQueued
    <3>6. ProducerInv'
      BY <2>1, <3>1, <3>3 DEF OwnershipInv, ProducerInv, Aborted
    <3> QED
      BY <3>4, <3>5, <3>6 DEF OwnershipInv
  <2> QED
    BY <2>2, <2>3
<1>4. CASE ClientGone
  <2>1. UNCHANGED <<pump, http>> => PendingIsQueued'
    BY <1>4 DEF ClientGone, OwnershipInv, PendingIsQueued
  <2> QED
    BY <1>4, <2>1, CloseBegins DEF ClientGone, HttpdIdle
<1>5. CASE CloseWork
  <2>1. /\ mutex = "free" /\ HttpdRuns /\ workq # <<>> /\ workq' = Tail(workq)
        /\ Head(workq) # PumpItem(pump.pending)
        /\ UNCHANGED <<closeOnly, streamVars, out, prodVars>>
    BY <1>5 DEF CloseWork, HttpdServes, HttpdIdle, PumpItem
  <2>2. ASSUME UNCHANGED <<pump, http>> PROVE PendingIsQueued'
    <3>1. pump.pending # NoToken =>
            \E i \in DOMAIN workq' : workq'[i] = PumpItem(pump.pending)
      BY <2>1, QueuedStays, TypedFields DEF OwnershipInv, PendingIsQueued
    <3> QED
      BY <2>2, <3>1 DEF OwnershipInv, PendingIsQueued
  <2>3. CASE BeginClose
    BY <2>1, <2>2, <2>3, CloseBegins
  <2>4. CASE UNCHANGED <<pump, mutex, http, connVars, notified>>
    <3>1. PumpInv' /\ StreamInv'
      BY <2>1, <2>4 DEF OwnershipInv, PumpInv, StreamInv
    <3> QED
      BY <2>1, <2>2, <2>4, <3>1, PumpOnlyStep
  <2> QED
    BY <1>5, <2>3, <2>4 DEF CloseWork
<1>6. CASE StartProducer
  <2>1. http.pc = "startProducer" /\ http'.pc = "idle" /\ mutex' = "free"
        /\ prod' = [active |-> TRUE, id |-> sid, next |-> 0, exhausted |-> FALSE]
        /\ UNCHANGED <<lifeVars, streamVars, out, pump, workq, conn, app, serverCount>>
    BY <1>6, HttpAtEffect, TypedFields DEF StartProducer
  <2>2. active /\ ~stopping /\ pump.active /\ mutex = "httpd"
    BY <2>1, InHandler DEF OwnershipInv, StreamInv
  <2>3. OwnerInv' /\ PendingIsQueued'
    BY <2>1, <2>2 DEF OwnershipInv, OwnerInv, PumpInv, PumpPcs, PendingIsQueued
  <2>4. /\ pump.gen = owner.gen /\ owner # NoOwner /\ pump.executing = NoToken
    BY <2>1, <2>2 DEF OwnershipInv, OwnerInv, PumpInv, PumpPcs
  <2> QED
    BY <2>1, <2>2, <2>3, <2>4, HandlerEnds
<1>7. CASE CommitOrderlyStop
  <2>1. http.pc = "commitStop" /\ http'.pc = "idle" /\ mutex' = "free" /\ stopping'
        /\ UNCHANGED <<lifeVars, owner, active, sid, out, pump, prodVars, workq, conn, app,
                        serverCount>>
    BY <1>7, HttpAtEffect, TypedFields DEF CommitOrderlyStop
  <2>2. active /\ pump.active /\ mutex = "httpd" /\ app \notin {"stopAbort", "stopClear"}
    BY <2>1, InHandler DEF OwnershipInv, StreamInv
  <2>3. OwnerInv' /\ PendingIsQueued'
    BY <2>1, <2>2 DEF OwnershipInv, OwnerInv, PumpInv, PumpPcs, PendingIsQueued
  <2>4. pump.gen = owner.gen /\ owner # NoOwner /\ pump.executing = NoToken
    BY <2>1, <2>2 DEF OwnershipInv, OwnerInv, PumpInv, PumpPcs
  <2>5. prod.id = sid /\ ~prod.active
    BY <2>1, <2>2 DEF OwnershipInv, ProducerInv, Aborted
  <2> QED
    BY <2>1, <2>2, <2>3, <2>4, <2>5, HandlerEnds
<1>8. CASE CloseAbort
  <2>1. http.pc = "closeAbort" /\ http'.pc = "closeClear"
        /\ UNCHANGED <<lifeVars, streamVars, out, pump, mutex, workq, connVars, app, serverCount>>
    BY <1>8, HttpAtEffect, TypedFields DEF CloseAbort
  <2>2. mutex = "httpd" /\ app = "up" /\ owner # NoOwner
    BY <2>1, InHandler DEF OwnershipInv, StreamInv, ClosePcs
  <2>3. prod.id = sid /\ (active <=> sid # 0)
    BY <2>1, <2>2 DEF OwnershipInv, ProducerInv, OwnerInv, Aborted
  <2>4. prod'.id = 0 /\ ~prod'.active
    <3>1. CASE sid # 0
      BY <1>8, <2>3, <3>1, TypedFields DEF CloseAbort, Abort, ProdType
    <3>2. CASE sid = 0
      BY <1>8, <2>3, <3>2 DEF CloseAbort, OwnershipInv, ProducerInv
    <3> QED
      BY <3>1, <3>2
  <2>5. MutexInv' /\ ServerInv'
    BY <2>1, <2>2 DEF OwnershipInv, MutexInv, ServerInv, HttpdRuns
  <2>6. OwnerInv'
    BY <2>1 DEF OwnershipInv, OwnerInv
  <2>7. PumpInv' /\ PendingIsQueued'
    BY <2>1, <2>2 DEF OwnershipInv, PumpInv, PumpPcs, PendingIsQueued
  <2>8. StreamInv'
    BY <2>1, <2>2 DEF StreamInv, PumpPcs, FailPcs, ClosePcs
  <2>9. ProducerInv'
    BY <2>1, <2>4 DEF ProducerInv, Aborted
  <2> QED
    BY <2>5, <2>6, <2>7, <2>8, <2>9 DEF OwnershipInv
<1>9. CASE CloseClear
  <2>1. http.pc = "closeClear" /\ http'.pc = "idle" /\ mutex' = "free" /\ ClearPipeline
        /\ UNCHANGED <<lifeVars, prodVars, app, serverCount>>
    BY <1>9, HttpAtEffect, TypedFields DEF CloseClear
  <2>2. OwnerInv' /\ PendingIsQueued'
    BY <2>1, ClearReleases DEF OwnerInv, PendingIsQueued
  <2> QED
    BY <2>1, <2>2, ClearReleases, InHandler, HandlerEnds
<1> QED
  BY <1>1, <1>2, <1>3, <1>4, <1>5, <1>6, <1>7, <1>8, <1>9 DEF Client, HandlerStep

(* The application task: what it changes while it stands outside the       *)
(* mutex is the server's phase alone.                                      *)
LEMMA OwnershipStepApp ==
  ASSUME TypeInv, OwnershipInv, App
  PROVE  OwnershipInv'
<1> USE DEF lifeVars, streamVars, prodVars, connVars, countVars, histVars, appOnly
<1>1. CASE CommitServerRunning
  <2>1. /\ app = "down" /\ app' = "up" /\ mutex = "free" /\ serverCount' = serverCount + 1
        /\ life' = BeginRunning(serverCount + 1)
        /\ UNCHANGED <<streamVars, out, pump, mutex, prodVars, http, workq, connVars>>
    BY <1>1 DEF CommitServerRunning
  <2>2. http.pc = "idle" /\ owner = NoOwner
    BY <2>1, FreeMutex DEF OwnershipInv, OwnerInv
  <2>3. MutexInv'
    BY <2>1, <2>2 DEF MutexInv
  <2>4. ServerInv'
    BY <2>1, TypedFields DEF ServerInv, BeginRunning
  <2>5. OwnerInv'
    BY <2>1, <2>2 DEF OwnershipInv, OwnerInv
  <2>6. PumpInv' /\ PendingIsQueued'
    BY <2>1 DEF OwnershipInv, PumpInv, PendingIsQueued
  <2>7. StreamInv' /\ ProducerInv'
    BY <2>1, <2>2, FreeMutex
    DEF OwnershipInv, StreamInv, ProducerInv, Aborted, PumpPcs, FailPcs, ClosePcs
  <2> QED
    BY <2>3, <2>4, <2>5, <2>6, <2>7 DEF OwnershipInv
<1>2. CASE StopServer
  <2>1. /\ app \in {"up", "failed"} /\ mutex = "free" /\ life' = BeginStop(life, serverCount)
        /\ UNCHANGED <<streamVars, out, prodVars, http, workq, connVars, serverCount>>
    BY <1>2 DEF StopServer, CanStopServer
  <2>2. http.pc = "idle"
    BY <2>1, FreeMutex
  <2>3. life'.phase = "PreStopping" /\ life'.server = serverCount /\ serverCount # 0
    BY <2>1, TypedFields
    DEF OwnershipInv, ServerInv, BeginStop, Matches, NoServer, LifeType
  <2>4. CASE owner # NoOwner /\ owner.server = serverCount
    <3>1. pump' = Invalidate(pump, owner.gen) /\ mutex' = "app" /\ app' = "stopAbort"
      BY <1>2, <2>4 DEF StopServer
    <3>2. ~pump'.active /\ pump'.pending = NoToken /\ pump'.executing = NoToken
      BY <2>1, <2>4, <3>1, FreeMutex, PumpEffects, TypedFields
    <3>3. MutexInv' /\ ServerInv'
      BY <2>1, <2>2, <2>3, <3>1 DEF MutexInv, ServerInv
    <3>4. OwnerInv'
      BY <2>1, <3>1 DEF OwnershipInv, OwnerInv
    <3>5. PumpInv' /\ PendingIsQueued'
      BY <2>1, <2>2, <3>1, <3>2 DEF PumpInv, PendingIsQueued, PumpPcs
    <3>6. StreamInv'
      BY <2>1, <2>2, <2>4 DEF StreamInv, PumpPcs, FailPcs, ClosePcs
    <3>7. ProducerInv'
      BY <2>1, <2>2, <3>1, FreeMutex DEF ProducerInv, Aborted
    <3> QED
      BY <3>3, <3>4, <3>5, <3>6, <3>7 DEF OwnershipInv
  <2>5. CASE ~(owner # NoOwner /\ owner.server = serverCount)
    <3>1. UNCHANGED <<pump, mutex>> /\ app' = "httpdStop" /\ owner = NoOwner
      BY <1>2, <2>5 DEF StopServer, OwnershipInv, OwnerInv
    <3>3. MutexInv' /\ ServerInv'
      BY <2>1, <2>2, <2>3, <3>1 DEF MutexInv, ServerInv
    <3>4. OwnerInv'
      BY <2>1, <3>1 DEF OwnershipInv, OwnerInv
    <3>5. PumpInv' /\ PendingIsQueued'
      BY <2>1, <3>1 DEF OwnershipInv, PumpInv, PendingIsQueued
    <3>6. StreamInv'
      BY <2>1, <2>2, <3>1 DEF StreamInv, PumpPcs, FailPcs, ClosePcs
    <3>7. ProducerInv'
      BY <2>1, <2>2, <3>1, FreeMutex DEF ProducerInv, Aborted
    <3> QED
      BY <3>3, <3>4, <3>5, <3>6, <3>7 DEF OwnershipInv
  <2> QED
    BY <2>4, <2>5
<1>3. CASE StopServerAbort
  <2>1. /\ app = "stopAbort" /\ app' = "stopClear"
        /\ UNCHANGED <<life, streamVars, out, pump, mutex, http, workq, connVars, serverCount>>
    BY <1>3 DEF StopServerAbort
  <2>2. mutex = "app" /\ http.pc = "idle" /\ owner # NoOwner /\ ~Aborted
    BY <2>1 DEF OwnershipInv, MutexInv, StreamInv, Aborted
  <2>3. prod.id = sid /\ (active <=> sid # 0) /\ (prod.active <=> active /\ ~stopping)
    BY <2>2 DEF OwnershipInv, ProducerInv, OwnerInv
  <2>4. prod'.id = 0 /\ ~prod'.active
    <3>1. CASE sid # 0
      BY <1>3, <2>3, <3>1, TypedFields DEF StopServerAbort, Abort, ProdType
    <3>2. CASE sid = 0
      BY <1>3, <2>3, <3>2 DEF StopServerAbort
    <3> QED
      BY <3>1, <3>2
  <2>5. MutexInv' /\ ServerInv'
    BY <2>1, <2>2 DEF OwnershipInv, MutexInv, ServerInv, HttpdRuns
  <2>6. OwnerInv'
    BY <2>1 DEF OwnershipInv, OwnerInv
  <2>7. PumpInv' /\ PendingIsQueued'
    BY <2>1 DEF OwnershipInv, PumpInv, PendingIsQueued
  <2>8. StreamInv'
    BY <2>1, <2>2 DEF StreamInv, PumpPcs, FailPcs, ClosePcs
  <2>9. ProducerInv'
    BY <2>1, <2>4 DEF ProducerInv, Aborted
  <2> QED
    BY <2>5, <2>6, <2>7, <2>8, <2>9 DEF OwnershipInv
<1>4. CASE StopServerClear
  <2>1. /\ app = "stopClear" /\ app' = "httpdStop" /\ mutex' = "free" /\ ClearPipeline
        /\ UNCHANGED <<life, prodVars, http, workq, connVars, serverCount>>
    BY <1>4 DEF StopServerClear
  <2>2. mutex = "app" /\ http.pc = "idle"
    BY <2>1 DEF OwnershipInv, MutexInv
  <2>3. MutexInv' /\ ServerInv'
    BY <2>1, <2>2 DEF OwnershipInv, MutexInv, ServerInv, HttpdRuns
  <2>4. OwnerInv' /\ PendingIsQueued'
    BY <2>1, ClearReleases DEF OwnerInv, PendingIsQueued
  <2>5. PumpInv'
    BY <2>1, <2>2, ClearReleases DEF PumpInv, PumpPcs
  <2>6. StreamInv' /\ ProducerInv'
    BY <2>1, <2>2, ClearReleases
    DEF StreamInv, ProducerInv, Aborted, PumpPcs, FailPcs, ClosePcs
  <2> QED
    BY <2>3, <2>4, <2>5, <2>6 DEF OwnershipInv
<1>5. CASE MarkStopFailed \/ MarkStopSucceeded
  <2>1. /\ app \in {"httpdStop", "joined"} /\ mutex = "free" /\ app' \in {"failed", "down"}
        /\ UNCHANGED <<streamVars, out, pump, mutex, prodVars, http, workq, connVars,
                        serverCount>>
    BY <1>5 DEF MarkStopFailed, MarkStopSucceeded
  <2>2. http.pc = "idle" /\ owner = NoOwner
    BY <2>1, FreeMutex DEF OwnershipInv, OwnerInv
  <2>3. life.phase = "PreStopping" /\ Matches(life, serverCount)
    BY <2>1, TypedFields
    DEF OwnershipInv, ServerInv, LifeType, Phases, Matches, NoServer
  <2>4. ServerInv'
    BY <1>5, <2>1, <2>3, TypedFields
    DEF OwnershipInv, MarkStopFailed, MarkStopSucceeded, StopFailure, StopSuccess, StoppedLife,
        ServerInv, LifeType
  <2>5. MutexInv'
    BY <2>1, <2>2 DEF MutexInv
  <2>6. OwnerInv'
    BY <2>1, <2>2 DEF OwnershipInv, OwnerInv
  <2>7. PumpInv' /\ PendingIsQueued'
    BY <2>1 DEF OwnershipInv, PumpInv, PendingIsQueued
  <2>8. StreamInv' /\ ProducerInv'
    BY <2>1, <2>2, FreeMutex
    DEF OwnershipInv, StreamInv, ProducerInv, Aborted, PumpPcs, FailPcs, ClosePcs
  <2> QED
    BY <2>4, <2>5, <2>6, <2>7, <2>8 DEF OwnershipInv
<1>6. CASE HttpdJoined
  <2>1. /\ app = "httpdStop" /\ http.pc = "idle" /\ app' = "joined" /\ conn' = 0
        /\ UNCHANGED <<life, streamVars, out, pump, mutex, prodVars, http, serverCount>>
    BY <1>6 DEF HttpdJoined
  <2>2. mutex = "free" /\ owner = NoOwner
    BY <2>1, TypedFields DEF OwnershipInv, MutexInv, OwnerInv
  <2>3. MutexInv' /\ ServerInv'
    BY <2>1, <2>2 DEF OwnershipInv, MutexInv, ServerInv
  <2>4. OwnerInv'
    BY <2>1, <2>2 DEF OwnershipInv, OwnerInv
  <2>5. pump.pending = NoToken
    BY <2>2 DEF OwnershipInv, PumpInv, OwnerInv
  <2>6. PumpInv' /\ PendingIsQueued'
    BY <2>1, <2>5, <2>2 DEF OwnershipInv, PumpInv, PendingIsQueued
  <2>7. StreamInv' /\ ProducerInv'
    BY <2>1, <2>2, FreeMutex
    DEF OwnershipInv, StreamInv, ProducerInv, Aborted, PumpPcs, FailPcs, ClosePcs
  <2> QED
    BY <2>3, <2>4, <2>6, <2>7 DEF OwnershipInv
<1> QED
  BY <1>1, <1>2, <1>3, <1>4, <1>5, <1>6 DEF App

LEMMA OwnershipStep == TypeInv /\ OwnershipInv /\ [Next]_vars => OwnershipInv'
<1> SUFFICES ASSUME TypeInv, OwnershipInv, [Next]_vars PROVE OwnershipInv'
  OBVIOUS
<1>1. CASE UNCHANGED vars
  <2>1. PumpInv' /\ StreamInv' /\ PendingIsQueued'
    BY <1>1 DEF vars, lifeVars, streamVars, prodVars, connVars, countVars, histVars,
                OwnershipInv, PumpInv, StreamInv, PendingIsQueued
  <2> QED
    BY <1>1, <2>1, PumpOnlyStep DEF vars, lifeVars
<1> QED
  BY <1>1, OwnershipStepEncoder, OwnershipStepTx, OwnershipStepPump, OwnershipStepHandlers,
     OwnershipStepApp DEF Next

(* Who holds the mutex, who owns the pipeline and what the pump, the       *)
(* stream and the producer are at each position of the tasks.              *)
THEOREM OwnershipCorrect == Spec => [](TypeInv /\ OwnershipInv)
BY TypeInit, TypeStep, OwnershipInit, OwnershipStep, PTL DEF Spec

(* A pending token never lost its callback (send_pump_state, RequestPump,  *)
(* PumpWork): the pump cannot be stuck coalescing requests.                *)
THEOREM PendingCorrect == Spec => []PendingIsQueued
<1>1. OwnershipInv => PendingIsQueued
  BY DEF OwnershipInv
<1> QED
  BY <1>1, OwnershipCorrect, PTL

(* The pipeline and the producer never disagree about the stream where     *)
(* another task can see them (Abort before ClearPipelineLocked, Freeze     *)
(* before _stopping).                                                      *)
THEOREM ProducerCorrect == Spec => []ProducerFollowsPipeline
<1>1. TypeInv /\ OwnershipInv => ProducerFollowsPipeline
  BY FreeMutex DEF ProducerFollowsPipeline, OwnershipInv, OwnerInv
<1> QED
  BY <1>1, OwnershipCorrect, PTL

(* StopServer leaves nothing of a stream behind, and nothing comes back    *)
(* until the next server runs.                                             *)
THEOREM QuietCorrect == Spec => []QuietAfterStopServer
<1>1. TypeInv /\ OwnershipInv => QuietAfterStopServer
  <2> SUFFICES ASSUME TypeInv, OwnershipInv,
                      app \in {"httpdStop", "failed", "joined", "down"}
               PROVE  owner = NoOwner /\ ~active /\ ~pump.active /\ prod.id = 0
                      /\ out.queue = <<>>
    BY DEF QuietAfterStopServer
  <2>1. owner = NoOwner /\ ~active /\ ~pump.active /\ out.queue = <<>> /\ sid = 0
    BY DEF OwnershipInv, OwnerInv, PumpInv
  <2>2. prod.id = 0
    BY <2>1 DEF OwnershipInv, ProducerInv
  <2> QED
    BY <2>1, <2>2
<1> QED
  BY <1>1, OwnershipCorrect, PTL

(* Every frame and text is sent while the server accepts, to the socket    *)
(* the transport still owns, by the one callback under way.                *)
THEOREM SendsCorrect == Spec => SendsReachTheirOwner
<1> DEFINE Sends == /\ Accepting(life, owner.server)
                    /\ owner.gen = conn /\ pump.executing # NoToken
<1>1. ASSUME TypeInv, OwnershipInv, [Next]_vars, Len(wire') > Len(wire) PROVE Sends
  <2>1. wire \in Seq(WireItems)
    BY <1>1 DEF TypeInv, TypeOK
  <2>2. wire' # wire /\ wire' # <<>>
    BY <1>1, <2>1
  <2>3. PumpSendFrame \/ PumpSendEnd \/ PumpSendStopped
    BY <1>1, <2>2
    DEF Next, Tap, Encoder, EncoderClaim, EncoderPop, EncoderPush, EncoderRelease, encoderOnly,
        Tx, TxLatch, RequestPumpQueued, RequestPumpRejected, RequestPumpDeclined, txOnly,
        PumpBegin, PumpStep, PumpDrained, PumpSnapshot, PumpReady, CompleteOrderlyStop,
        PumpFinish, FailStreamAbort, FailStreamClear, pumpOnly, Client, OpenOwner, StartStream,
        RequestOrderlyStop, ClientGone, CloseWork, HandlerStep, StartProducer,
        CommitOrderlyStop, CloseAbort, CloseClear, handlerOnly, closeOnly, App,
        CommitServerRunning, StopServer, StopServerAbort, StopServerClear, MarkStopFailed,
        HttpdJoined, MarkStopSucceeded, appOnly, histVars, vars
  <2>4. http.pc \in PumpPcs
    BY <2>3 DEF PumpSendFrame, PumpSendEnd, PumpSendStopped, PumpPcs
  <2> QED
    BY <1>1, <2>4, InPumpWork
<1>2. TypeInv /\ OwnershipInv /\ [Next]_vars => [Len(wire') > Len(wire) => Sends]_vars
  BY <1>1
<1> QED
  BY <1>2, OwnershipCorrect, PTL DEF Spec, SendsReachTheirOwner

-----------------------------------------------------------------------------
(* The losses of a stream.  FlowInv says of every sample of the stream     *)
(* where it is, and of every place what is missing right before it.        *)

(* The types of what the losses are told with, one by one. *)
LEMMA FlowTypes ==
  ASSUME TypeInv
  PROVE  /\ out \in OutRing /\ out.queue \in Seq(Frames) /\ out.pending \in SUBSET CarryFlags
         /\ acq \in AcqRing /\ acq.queue \in Seq(Sequences) /\ acq.overflow \in BOOLEAN
         /\ prod \in ProdType /\ prod.id \in Nat /\ prod.next \in Nat
         /\ enc \in EncType /\ enc.id \in Nat /\ enc.seq \in Sequences /\ enc.seq \in Nat
         /\ enc.overflow \in BOOLEAN
         /\ expected \in Nat /\ first \in BOOLEAN /\ active \in BOOLEAN /\ sid \in Nat
         /\ stopping \in BOOLEAN /\ busy \in BOOLEAN /\ streamCount \in Nat
         /\ lost \in LostType /\ lost.acq \subseteq Nat /\ lost.out \subseteq Nat
         /\ wire \in Seq(WireItems) /\ http \in HttpType /\ SeqLimit \in Nat
         /\ \A i \in DOMAIN out.queue : out.queue[i] \in Frames /\ out.queue[i].seq \in Nat
         /\ \A i \in DOMAIN acq.queue : acq.queue[i] \in Nat
         /\ \A i \in DOMAIN wire : wire[i] \in WireItems /\ wire[i].seq \in Nat
         /\ Tapped \in Nat /\ AcqStart \in Int /\ OutEnd \in Nat /\ HandEnd \in Nat
<1>1. /\ out \in OutRing /\ acq \in AcqRing /\ prod \in ProdType /\ enc \in EncType
      /\ expected \in Sequences /\ first \in BOOLEAN /\ active \in BOOLEAN
      /\ sid \in 0 .. MaxStream /\ stopping \in BOOLEAN /\ busy \in BOOLEAN
      /\ streamCount \in 0 .. MaxStream /\ lost \in LostType
      /\ wire \in Seq(WireItems) /\ http \in HttpType
  BY DEF TypeInv, TypeOK
<1>2. /\ \A s \in Sequences : s \in Nat
      /\ \A n \in 0 .. MaxStream : n \in Nat
      /\ SeqLimit \in Nat
  BY FramesAssumption, PipelineAssumption DEF Sequences
<1>3. /\ out.queue \in Seq(Frames) /\ out.pending \in SUBSET CarryFlags
      /\ acq.queue \in Seq(Sequences) /\ acq.overflow \in BOOLEAN
  BY <1>1 DEF OutRing, AcqRing
<1>4. /\ prod.id \in 0 .. MaxStream /\ prod.next \in Sequences
      /\ enc.id \in 0 .. MaxStream /\ enc.seq \in Sequences /\ enc.overflow \in BOOLEAN
      /\ lost.acq \subseteq Sequences /\ lost.out \subseteq Sequences
  BY <1>1 DEF ProdType, EncType, LostType
<1>5. /\ \A i \in DOMAIN out.queue : out.queue[i] \in Frames /\ out.queue[i].seq \in Nat
      /\ \A i \in DOMAIN acq.queue : acq.queue[i] \in Nat
  <2>1. /\ \A i \in DOMAIN out.queue : out.queue[i] \in Frames
        /\ \A i \in DOMAIN acq.queue : acq.queue[i] \in Sequences
    BY <1>3
  <2>2. \A f \in Frames : f.seq \in Sequences
    BY DEF Frames
  <2> QED
    BY <1>2, <2>1, <2>2
<1>6. \A i \in DOMAIN wire : wire[i] \in WireItems /\ wire[i].seq \in Nat
  <2>1. \A i \in DOMAIN wire : wire[i] \in WireItems
    BY <1>1
  <2>2. \A w \in WireItems : w.seq \in Sequences
    BY DEF WireItems
  <2> QED
    BY <1>2, <2>1, <2>2
<1>7. Tapped \in Nat
  BY <1>2, <1>4 DEF Tapped
<1>8. AcqStart \in Int
  BY <1>3, <1>7 DEF AcqStart
<1>9. OutEnd \in Nat
  <2>1. out.queue # <<>> => Len(out.queue) \in DOMAIN out.queue
    BY <1>3
  <2> QED
    BY <1>1, <1>2, <1>5, <2>1 DEF OutEnd
<1>10. HandEnd \in Nat
  BY <1>2, <1>4, <1>9 DEF HandEnd
<1> QED
  BY <1>1, <1>2, <1>3, <1>4, <1>5, <1>6, <1>7, <1>8, <1>9, <1>10

(* An encoded frame says whether the ring in front of the encoder lost a   *)
(* sample, and nothing of the ring behind it.                              *)
LEMMA EncodedFlags ==
  /\ \A s, t, o, p : EncodedFrame(s, o).flags = EncodedFrame(t, p).flags <=> (o <=> p)
  /\ \A s, o : EncodedFrame(s, o).seq = s
  /\ \A s, o : /\ "ProducerOverflow" \in EncodedFrame(s, o).flags <=> o
               /\ "Discontinuity" \in EncodedFrame(s, o).flags <=> o
               /\ "OutputQueueDrop" \notin EncodedFrame(s, o).flags
               /\ "StreamStart" \notin EncodedFrame(s, o).flags
               /\ EncodedFrame(s, o).flags \subseteq CarryFlags
BY DEF EncodedFrame, CarryFlags, CauseFlags

(* Before the first stream nothing is on its way. *)
LEMMA FlowInit == Init => FlowInv
<1> SUFFICES ASSUME Init PROVE FlowInv
  OBVIOUS
<1>1. ~active /\ http.pc = "idle" /\ enc.id = 0 /\ sid = 0 /\ streamCount = 0
  BY DEF Init
<1>3. IdInv /\ OrderInv /\ LossInv /\ StartInv
  BY <1>1 DEF IdInv, OrderInv, LossInv, Flowing, StartInv
<1>2. WireShape /\ EndInv
  BY DEF Init, WireShape, EndInv, Closed
<1> QED
  BY <1>2, <1>3 DEF FlowInv

(* A step that moves no sample of the stream: of a task's position, or of  *)
(* the producer's switch.                                                  *)
LEMMA FlowSame ==
  ASSUME TypeInv, FlowInv, StartInv', EndInv',
         UNCHANGED <<enc.id, enc.seq, enc.overflow>>, active => (Held' <=> Held),
         UNCHANGED <<sid, active, first, expected, out, acq, wire, lost, streamCount>>,
         UNCHANGED <<prod.id, prod.next, prod.exhausted>>,
         Flowing' => Flowing
  PROVE  FlowInv'
<1>1. /\ Tapped' = Tapped /\ AcqStart' = AcqStart /\ OutEnd' = OutEnd
      /\ active => (Held' <=> Held) /\ HandEnd' = HandEnd
  BY DEF Tapped, AcqStart, OutEnd, HandEnd
<1>2. IdInv' /\ WireShape'
  BY DEF FlowInv, IdInv, WireShape
<1>3. OrderInv'
  BY <1>1 DEF FlowInv, OrderInv
<1>4. \A f, x : Follows(f, x)' <=> Follows(f, x)
  BY DEF Follows
<1>5. HeadTells' = HeadTells
  BY DEF HeadTells
<1>6. LossInv'
  <2> SUFFICES ASSUME Flowing' PROVE LossInv'
    BY DEF LossInv
  <2>1. Flowing /\ active
    BY DEF Flowing
  <2> QED
    BY <1>1, <1>4, <1>5, <2>1 DEF FlowInv, LossInv
<1> QED
  BY <1>2, <1>3, <1>6 DEF FlowInv

(* A stream that ends takes the claims about it along. *)
LEMMA FlowEnds ==
  ASSUME TypeInv, FlowInv, ~active', sid' = 0, http'.pc = "idle",
         UNCHANGED <<enc, busy, first, expected, wire, streamCount>>
  PROVE  FlowInv'
<1>1. IdInv' /\ OrderInv' /\ LossInv' /\ StartInv'
  BY FlowTypes DEF FlowInv, IdInv, OrderInv, LossInv, Flowing, StartInv
<1>2. WireShape' /\ EndInv'
  BY DEF FlowInv, WireShape, EndInv, Closed
<1> QED
  BY <1>1, <1>2 DEF FlowInv

(* The producer gives the stream up. *)
LEMMA FlowAborts ==
  ASSUME TypeInv, OwnershipInv, FlowInv, NEW id, Abort(id), EndInv',
         http'.pc # "startProducer", Flowing' => Flowing,
         UNCHANGED <<enc, sid, active, first, expected, out, wire, lost, streamCount>>
  PROVE  FlowInv'
<1>1. CASE UNCHANGED prodVars
  BY <1>1, FlowSame DEF prodVars, StartInv, Held
<1>2. CASE ~ UNCHANGED prodVars
  <2>1. prod'.id = 0 /\ acq' = EmptyAcq
    BY <1>2, FlowTypes DEF Abort, ProdType
  <2>2. active => sid # 0
    BY DEF OwnershipInv, OwnerInv
  <2>3. IdInv' /\ WireShape' /\ StartInv'
    BY DEF FlowInv, IdInv, WireShape, StartInv
  <2>4. Held' = Held
    BY DEF Held
  <2>5. OrderInv'
    BY <2>1, <2>2, <2>4 DEF FlowInv, OrderInv
  <2>6. LossInv'
    BY <2>1, <2>2 DEF LossInv, Flowing
  <2> QED
    BY <2>3, <2>5, <2>6 DEF FlowInv
<1> QED
  BY <1>1, <1>2

(* Sequences that grow at their end and shrink at their head. *)
LEMMA Grows ==
  ASSUME NEW S, NEW q \in Seq(S), NEW x \in S
  PROVE  /\ Append(q, x) \in Seq(S) /\ Append(q, x) # <<>>
         /\ Len(Append(q, x)) = Len(q) + 1
         /\ DOMAIN Append(q, x) = 1 .. Len(q) + 1
         /\ \A i \in 1 .. Len(q) : Append(q, x)[i] = q[i]
         /\ Append(q, x)[Len(q) + 1] = x
OBVIOUS

(* What Tail does to a sequence. *)
LEMMA Shrinks ==
  ASSUME NEW S, NEW q \in Seq(S), q # <<>>
  PROVE  /\ Tail(q) \in Seq(S) /\ Len(Tail(q)) = Len(q) - 1
         /\ DOMAIN Tail(q) = 1 .. Len(q) - 1
         /\ \A i \in 1 .. Len(q) - 1 : Tail(q)[i] = q[i + 1]
         /\ Head(q) = q[1] /\ 1 \in DOMAIN q /\ Len(q) \in Nat /\ Len(q) >= 1
OBVIOUS

(* What dropping the oldest element and appending a new one does. *)
LEMMA Rotates ==
  ASSUME NEW S, NEW q \in Seq(S), NEW x \in S, q # <<>>
  PROVE  /\ Append(Tail(q), x) \in Seq(S) /\ Append(Tail(q), x) # <<>>
         /\ Len(Append(Tail(q), x)) = Len(q)
         /\ DOMAIN Append(Tail(q), x) = 1 .. Len(q)
         /\ \A i \in 1 .. Len(q) - 1 : Append(Tail(q), x)[i] = q[i + 1]
         /\ Append(Tail(q), x)[Len(q)] = x
<1>1. Tail(q) \in Seq(S) /\ Len(Tail(q)) = Len(q) - 1 /\ Len(q) \in Nat
      /\ \A i \in 1 .. Len(q) - 1 : Tail(q)[i] = q[i + 1]
  BY Shrinks
<1> DEFINE t == Tail(q)
<1>2. /\ Append(t, x) \in Seq(S) /\ Append(t, x) # <<>>
      /\ Len(Append(t, x)) = Len(t) + 1
      /\ DOMAIN Append(t, x) = 1 .. Len(t) + 1
      /\ \A i \in 1 .. Len(t) : Append(t, x)[i] = t[i]
      /\ Append(t, x)[Len(t) + 1] = x
  BY <1>1, Grows
<1> HIDE DEF t
<1>3. Len(t) + 1 = Len(q) /\ \A i \in 1 .. Len(q) - 1 : t[i] = q[i + 1]
  BY <1>1 DEF t
<1>4. \A i \in 1 .. Len(q) - 1 : Append(t, x)[i] = q[i + 1]
  BY <1>1, <1>2, <1>3
<1>5. Append(t, x)[Len(q)] = x /\ DOMAIN Append(t, x) = 1 .. Len(q) /\ Len(Append(t, x)) = Len(q)
  BY <1>2, <1>3
<1> QED
  BY <1>2, <1>4, <1>5 DEF t

(* A run of successive numbers stays one at either ring step: the next     *)
(* number is appended, with or without the oldest one dropped.             *)
LEMMA ConsecutiveGrows ==
  ASSUME NEW q \in Seq(Sequences), NEW start \in Int, NEW next \in Sequences,
         next = start + Len(q), Consecutive(q, start)
  PROVE  /\ Consecutive(Append(q, next), start)
         /\ q # <<>> => Consecutive(Append(Tail(q), next), start + 1) /\ Head(q) = start
<1>1. Len(q) \in Nat /\ DOMAIN q = 1 .. Len(q)
  OBVIOUS
<1>2. Consecutive(Append(q, next), start)
  <2> SUFFICES ASSUME NEW i \in 1 .. Len(q) + 1 PROVE Append(q, next)[i] = start + i - 1
    BY Grows DEF Consecutive
  <2>1. CASE i = Len(q) + 1
    BY <1>1, <2>1, Grows
  <2>2. CASE i \in 1 .. Len(q)
    BY <1>1, <2>2, Grows DEF Consecutive
  <2> QED
    BY <1>1, <2>1, <2>2
<1>3. ASSUME q # <<>> PROVE Consecutive(Append(Tail(q), next), start + 1) /\ Head(q) = start
  <2>1. Head(q) = start
    BY <1>1, <1>3, Shrinks DEF Consecutive
  <2>2. ASSUME NEW i \in 1 .. Len(q) PROVE Append(Tail(q), next)[i] = start + 1 + i - 1
    <3>0. Len(q) \in Nat
      BY <1>1
    <3>1. CASE i = Len(q)
      BY <1>1, <1>3, <3>1, Rotates
    <3>2. CASE i \in 1 .. Len(q) - 1
      <4>1. Append(Tail(q), next)[i] = q[i + 1] /\ i + 1 \in DOMAIN q
        BY <1>1, <1>3, <3>2, Rotates
      <4>2. q[i + 1] = start + (i + 1) - 1
        BY <4>1 DEF Consecutive
      <4> QED
        BY <3>2, <4>1, <4>2
    <3>3. i = Len(q) \/ i \in 1 .. Len(q) - 1
      BY <3>0
    <3> QED
      BY <3>1, <3>2, <3>3
  <2>3. DOMAIN Append(Tail(q), next) = 1 .. Len(q)
    BY <1>3, Rotates
  <2> QED
    BY <2>1, <2>2, <2>3 DEF Consecutive
<1> QED
  BY <1>2, <1>3

(* The rest of a run of successive numbers is one. *)
LEMMA ConsecutiveShrinks ==
  ASSUME NEW q \in Seq(Sequences), NEW start \in Int, q # <<>>, Consecutive(q, start)
  PROVE  Head(q) = start /\ Consecutive(Tail(q), start + 1)
<1>1. Len(q) \in Nat /\ DOMAIN q = 1 .. Len(q) /\ DOMAIN Tail(q) = 1 .. Len(q) - 1
      /\ Head(q) = q[1] /\ 1 \in DOMAIN q
  BY Shrinks
<1>2. ASSUME NEW i \in 1 .. Len(q) - 1 PROVE Tail(q)[i] = start + 1 + i - 1
  <2>1. Tail(q)[i] = q[i + 1] /\ i + 1 \in DOMAIN q
    BY <1>1, Shrinks
  <2>2. q[i + 1] = start + (i + 1) - 1
    BY <2>1 DEF Consecutive
  <2> QED
    BY <2>1, <2>2
<1> QED
  BY <1>1, <1>2 DEF Consecutive

(* What lost.acq gains is younger than every frame there is. *)
LEMMA FollowsStays ==
  ASSUME TypeInv, NEW from \in Nat, NEW f, f.seq \in Nat, Follows(from, f),
         lost.acq \subseteq lost'.acq,
         \A s \in lost'.acq : s \in lost.acq \/ s > f.seq
  PROVE  Follows(from, f)'
BY DEF Follows

(* The sampler: a sample joins the acquisition ring, which may lose its    *)
(* oldest one for it.                                                      *)
LEMMA FlowStepTap ==
  ASSUME TypeInv, OwnershipInv, FlowInv, Tap
  PROVE  FlowInv'
<1>1. /\ prod.active /\ ~prod.exhausted /\ acq' = AcqPush(acq, prod.next)
      /\ UNCHANGED <<enc, sid, active, first, expected, out, wire, streamCount, stopping,
                     busy, http>>
      /\ lost' = IF Len(acq.queue) = AcqDepth
                 THEN [lost EXCEPT !.acq = @ \cup {Head(acq.queue)}] ELSE lost
  BY DEF Tap, encoderOnly, lifeVars, streamVars, connVars, countVars
<1>2. active /\ ~stopping /\ prod.id = sid /\ sid # 0 /\ http.pc # "startProducer"
  BY <1>1 DEF OwnershipInv, ProducerInv, OwnerInv, Aborted
<1>3. /\ Tapped = prod.next /\ Tapped' = Tapped + 1 /\ prod'.id = prod.id
      /\ prod.next \in Sequences /\ Tapped \in Nat
  BY FramesAssumption, FlowTypes DEF Tap, Tapped, ProdType
<1>4. /\ Consecutive(acq.queue, AcqStart) /\ AcqStart \in Int
      /\ Tapped = AcqStart + Len(acq.queue)
      /\ acq.queue \in Seq(Sequences) /\ Len(acq.queue) \in Nat
  <2>1. Len(acq.queue) \in Nat
    BY FlowTypes
  <2> QED
    BY <1>2, <1>3, <2>1, FlowTypes, SMTT(30) DEF FlowInv, OrderInv, AcqStart
<1>5. /\ acq'.queue # <<>> /\ Consecutive(acq'.queue, AcqStart')
      /\ IF Len(acq.queue) = AcqDepth
         THEN AcqStart' = AcqStart + 1 /\ Head(acq.queue) = AcqStart /\ acq'.overflow
         ELSE AcqStart' = AcqStart /\ (acq'.overflow <=> acq.overflow)
  <2>1. CASE Len(acq.queue) = AcqDepth
    <3>1. acq'.queue = Append(Tail(acq.queue), prod.next) /\ acq'.overflow = TRUE
      BY <1>1, <2>1 DEF AcqPush
    <3>2. acq.queue # <<>>
      BY <1>4, <2>1, FramesAssumption
    <3>3. acq'.queue # <<>> /\ Len(acq'.queue) = Len(acq.queue)
      BY <1>3, <1>4, <3>1, <3>2, Rotates
    <3>4. AcqStart' = AcqStart + 1
      BY <1>3, <1>4, <3>3 DEF AcqStart
    <3>5. Consecutive(Append(Tail(acq.queue), prod.next), AcqStart + 1)
          /\ Head(acq.queue) = AcqStart
      <4>1. prod.next = AcqStart + Len(acq.queue)
        BY <1>3, <1>4
      <4> QED
        BY <1>3, <1>4, <3>2, <4>1, ConsecutiveGrows
    <3> QED
      BY <2>1, <3>1, <3>3, <3>4, <3>5
  <2>2. CASE Len(acq.queue) # AcqDepth
    <3>1. acq'.queue = Append(acq.queue, prod.next) /\ acq'.overflow = acq.overflow
      BY <1>1, <2>2, FlowTypes DEF AcqPush, AcqRing
    <3>2. acq'.queue # <<>> /\ Len(acq'.queue) = Len(acq.queue) + 1
      BY <1>3, <1>4, <3>1, Grows
    <3>3. AcqStart' = AcqStart
      BY <1>3, <1>4, <3>2, SMTT(30) DEF AcqStart
    <3>4. Consecutive(acq'.queue, AcqStart)
      BY <1>3, <1>4, <3>1, ConsecutiveGrows
    <3> QED
      BY <2>2, <3>1, <3>2, <3>3, <3>4
  <2> QED
    BY <2>1, <2>2
<1>6. /\ lost'.out = lost.out /\ lost.acq \subseteq Nat
      /\ IF Len(acq.queue) = AcqDepth THEN lost'.acq = lost.acq \cup {AcqStart}
                                      ELSE lost'.acq = lost.acq
  BY <1>1, <1>5, FlowTypes DEF LostType
<1>7. AcqStart' \in Int /\ AcqStart' >= AcqStart
  BY <1>4, <1>5
<1>8. Held' = Held /\ OutEnd' = OutEnd /\ HandEnd' = HandEnd
  BY <1>1 DEF Held, OutEnd, HandEnd
<1>9. IdInv' /\ WireShape' /\ StartInv'
  BY <1>1, <1>2 DEF FlowInv, IdInv, WireShape, StartInv
<1>10. /\ \A j \in DOMAIN out.queue : out.queue[j].seq < AcqStart /\ out.queue[j].seq \in Nat
       /\ Held => enc.seq < AcqStart
       /\ expected <= AcqStart /\ expected \in Nat /\ enc.seq \in Nat
  BY <1>2, FlowTypes DEF FlowInv, OrderInv
<1>11. OrderInv'
  <2>1. \A j \in DOMAIN out.queue : out.queue[j].seq < AcqStart'
    BY <1>4, <1>7, <1>10
  <2>2. expected <= AcqStart' /\ (Held => enc.seq < AcqStart')
    BY <1>4, <1>7, <1>10
  <2>3. /\ \A j \in DOMAIN out.queue : expected <= out.queue[j].seq
        /\ \A j, k \in DOMAIN out.queue : j < k => out.queue[j].seq < out.queue[k].seq
        /\ Held => expected <= enc.seq /\ \A j \in DOMAIN out.queue : out.queue[j].seq < enc.seq
    BY <1>2 DEF FlowInv, OrderInv
  <2> QED
    BY <1>1, <1>5, <1>8, <2>1, <2>2, <2>3 DEF OrderInv
<1>12. EndInv'
  BY <1>1, <1>2 DEF FlowInv, EndInv, Closed
<1>13. LossInv'
  <2> SUFFICES ASSUME Flowing PROVE LossInv'
    BY <1>1, <1>3 DEF LossInv, Flowing
  <2>2. /\ IF out.queue = <<>> THEN out.pending = {} ELSE HeadTells
        /\ \A j \in 2 .. Len(out.queue) : Follows(out.queue[j - 1].seq + 1, out.queue[j])
        /\ \A s \in lost.out : s < IF out.queue = <<>> THEN expected ELSE Head(out.queue).seq
        /\ Held => Follows(OutEnd, EncodedFrame(enc.seq, enc.overflow))
        /\ HandEnd .. AcqStart - 1 \subseteq lost.acq
        /\ acq.overflow <=> HandEnd < AcqStart
        /\ acq.queue = <<>> => HandEnd = AcqStart
        /\ \A s \in lost.acq : s < AcqStart
    BY DEF FlowInv, LossInv
  <2>3. HandEnd <= AcqStart /\ HandEnd \in Nat /\ OutEnd \in Nat
    <3>1. out.queue # <<>> => Len(out.queue) \in DOMAIN out.queue
      BY FlowTypes
    <3> QED
      BY <1>4, <1>10, <3>1, FlowTypes, SMTT(30) DEF HandEnd, OutEnd
  <2>4. lost.acq \subseteq lost'.acq /\ \A s \in lost'.acq : s \in lost.acq \/ s = AcqStart
    BY <1>6
  <2>6. out.queue # <<>> => HeadTells'
    <3> SUFFICES ASSUME out.queue # <<>> PROVE HeadTells'
      OBVIOUS
    <3>1. Head(out.queue) = out.queue[1] /\ 1 \in DOMAIN out.queue
      BY FlowTypes, Shrinks
    <3>2. Head(out.queue).seq \in Nat /\ Head(out.queue).seq < AcqStart
      BY <1>10, <3>1
    <3> DEFINE hole == expected .. Head(out.queue).seq - 1
    <3>3. hole \cap lost'.acq = hole \cap lost.acq
      <4>1. AcqStart \notin hole
        BY <1>4, <1>10, <3>2
      <4> HIDE DEF hole
      <4> QED
        BY <2>4, <4>1
    <3>4. Head(out.queue).seq \notin lost'.acq
      <4>1. Head(out.queue).seq \notin lost.acq
        BY <2>2 DEF HeadTells
      <4> QED
        BY <1>4, <2>4, <3>2, <4>1
    <3>5. hole \subseteq lost'.acq \cup lost'.out
      BY <1>6, <2>2, <2>4 DEF HeadTells
    <3> QED
      BY <1>1, <1>6, <2>2, <3>3, <3>4, <3>5 DEF HeadTells
  <2>7. \A j \in 2 .. Len(out.queue) : Follows(out.queue[j - 1].seq + 1, out.queue[j])'
    <3> TAKE j \in 2 .. Len(out.queue)
    <3>1. j \in DOMAIN out.queue /\ j - 1 \in DOMAIN out.queue
      BY FlowTypes, SMTT(30)
    <3>2. out.queue[j - 1].seq + 1 \in Nat /\ out.queue[j].seq \in Nat
          /\ out.queue[j].seq < AcqStart
      BY <1>10, <3>1
    <3>3. UNCHANGED out
      BY <1>1
    <3> QED
      BY <1>4, <2>2, <2>4, <3>2, <3>3, FollowsStays
  <2>8. Held => Follows(OutEnd, EncodedFrame(enc.seq, enc.overflow))'
    <3> SUFFICES ASSUME Held
                 PROVE  Follows(OutEnd, EncodedFrame(enc.seq, enc.overflow))'
      OBVIOUS
    <3>1. UNCHANGED <<OutEnd, enc>>
      BY <1>1, <1>8
    <3>2. EncodedFrame(enc.seq, enc.overflow).seq = enc.seq
      BY EncodedFlags
    <3> QED
      BY <1>4, <1>10, <2>2, <2>3, <2>4, <3>1, <3>2, FollowsStays
  <2>9. HandEnd .. AcqStart' - 1 \subseteq lost'.acq
    <3> SUFFICES ASSUME NEW s \in HandEnd .. AcqStart' - 1 PROVE s \in lost'.acq
      OBVIOUS
    <3>1. s \in HandEnd .. AcqStart - 1 \/ s = AcqStart
      BY <1>4, <1>5, <2>3
    <3>2. s = AcqStart => Len(acq.queue) = AcqDepth
      BY <1>4, <1>5, <2>3
    <3> QED
      BY <1>6, <2>2, <2>4, <3>1, <3>2
  <2>10. acq'.overflow <=> HandEnd < AcqStart'
    BY <1>4, <1>5, <2>2, <2>3
  <2>11. \A s \in lost'.acq : s < AcqStart'
    <3> TAKE s \in lost'.acq
    <3>1. s \in Nat \/ s = AcqStart
      BY <1>6, <2>4
    <3> QED
      BY <1>4, <1>5, <1>6, <2>2, <2>4, <3>1
  <2> QED
    BY <1>1, <1>5, <1>6, <1>8, <2>2, <2>6, <2>7, <2>8, <2>9, <2>10, <2>11 DEF LossInv
<1> QED
  BY <1>9, <1>11, <1>12, <1>13 DEF FlowInv

(* The encoder takes the oldest sample into its hands. *)
LEMMA FlowStepPop ==
  ASSUME TypeInv, OwnershipInv, FlowInv, EncoderPop, prod.id # 0, acq.queue # <<>>
  PROVE  FlowInv'
<1>1. /\ enc.pc = "pop" /\ acq' = AcqPop(acq)
      /\ UNCHANGED <<sid, active, stopping, first, expected, out, wire, lost, streamCount,
                     http, prod, busy>>
      /\ enc'.pc = "push" /\ enc'.seq = Head(acq.queue) /\ enc'.overflow = acq.overflow
      /\ enc'.id = prod.id
  BY FlowTypes DEF EncoderPop, encoderOnly, lifeVars, streamVars, connVars, countVars, EncType
<1>2. active /\ prod.id = sid /\ http.pc # "startProducer"
  BY DEF OwnershipInv, ProducerInv, OwnerInv, Aborted
<1>3. /\ Consecutive(acq.queue, AcqStart) /\ AcqStart \in Int
      /\ acq.queue \in Seq(Sequences) /\ Len(acq.queue) \in Nat
      /\ expected <= AcqStart /\ expected \in Nat
      /\ \A j \in DOMAIN out.queue : out.queue[j].seq < AcqStart /\ out.queue[j].seq \in Nat
  <2>1. Len(acq.queue) \in Nat
    BY FlowTypes
  <2> QED
    BY <1>2, <2>1, FlowTypes DEF FlowInv, OrderInv
<1>4. Head(acq.queue) = AcqStart /\ Consecutive(acq'.queue, AcqStart + 1)
      /\ acq'.overflow = FALSE
  BY <1>1, <1>3, ConsecutiveShrinks DEF AcqPop
<1>5. AcqStart' = AcqStart + 1
  <2>1. Len(acq'.queue) = Len(acq.queue) - 1
    BY <1>1, <1>3, Shrinks DEF AcqPop
  <2>2. Tapped' = Tapped /\ Tapped \in Nat
    BY <1>1, FlowTypes DEF Tapped
  <2> QED
    BY <1>3, <2>1, <2>2 DEF AcqStart
<1>6. ~Held /\ Held' /\ OutEnd' = OutEnd /\ HandEnd = OutEnd /\ HandEnd' = AcqStart + 1
  BY <1>1, <1>2, <1>4 DEF Held, OutEnd, HandEnd
<1>7. IdInv' /\ WireShape' /\ StartInv'
  BY <1>1, <1>2 DEF FlowInv, IdInv, WireShape, StartInv
<1>8. EndInv'
  BY <1>1 DEF FlowInv, EndInv, Closed
<1>9. OrderInv'
  <2>1. \A j \in DOMAIN out.queue : out.queue[j].seq < AcqStart + 1
    BY <1>3
  <2>2. expected <= AcqStart + 1 /\ AcqStart < AcqStart + 1
    BY <1>3
  <2>3. /\ \A j \in DOMAIN out.queue : expected <= out.queue[j].seq
        /\ \A j, k \in DOMAIN out.queue : j < k => out.queue[j].seq < out.queue[k].seq
    BY <1>2 DEF FlowInv, OrderInv
  <2> QED
    BY <1>1, <1>3, <1>4, <1>5, <2>1, <2>2, <2>3 DEF OrderInv
<1>10. LossInv'
  <2> SUFFICES ASSUME Flowing PROVE LossInv'
    BY <1>1 DEF LossInv, Flowing
  <2>1. /\ IF out.queue = <<>> THEN out.pending = {} ELSE HeadTells
        /\ \A j \in 2 .. Len(out.queue) : Follows(out.queue[j - 1].seq + 1, out.queue[j])
        /\ \A s \in lost.out : s < IF out.queue = <<>> THEN expected ELSE Head(out.queue).seq
        /\ OutEnd .. AcqStart - 1 \subseteq lost.acq
        /\ acq.overflow <=> OutEnd < AcqStart
        /\ \A s \in lost.acq : s < AcqStart
    BY <1>6 DEF FlowInv, LossInv
  <2>2. AcqStart \notin lost.acq
    BY <1>3, <2>1
  <2>3. Follows(OutEnd, EncodedFrame(AcqStart, acq.overflow))
    <3>1. EncodedFrame(AcqStart, acq.overflow).seq = AcqStart
      BY EncodedFlags
    <3>2. EncodedFrame(AcqStart, acq.overflow).flags
            = EncodedFrame(AcqStart, OutEnd < AcqStart).flags
      BY <2>1 DEF EncodedFrame
    <3> QED
      BY <2>1, <2>2, <3>1, <3>2 DEF Follows
  <2>4. (\A f, x : Follows(f, x)' <=> Follows(f, x)) /\ HeadTells' = HeadTells
    BY <1>1 DEF Follows, HeadTells
  <2>5. Follows(OutEnd, EncodedFrame(enc.seq, enc.overflow))'
    BY <1>1, <1>4, <1>6, <2>3, <2>4
  <2>6. /\ AcqStart + 1 .. AcqStart + 1 - 1 = {}
        /\ ~(AcqStart + 1 < AcqStart + 1)
        /\ \A s \in lost.acq : s < AcqStart + 1
    <3>1. lost.acq \subseteq Nat
      BY FlowTypes
    <3> QED
      BY <1>3, <2>1, <3>1
  <2> QED
    BY <1>1, <1>4, <1>5, <1>6, <2>1, <2>4, <2>5, <2>6 DEF LossInv
<1> QED
  BY <1>7, <1>8, <1>9, <1>10 DEF FlowInv

(* When the samples between two positions are none. *)
LEMMA IntervalEmpty ==
  ASSUME NEW a \in Nat, NEW b \in Nat
  PROVE  a .. b - 1 # {} <=> a < b
<1>1. CASE a < b
  <2>1. a \in a .. b - 1
    BY <1>1
  <2> QED
    BY <1>1, <2>1
<1>2. CASE ~(a < b)
  <2>1. \A x \in a .. b - 1 : FALSE
    BY <1>2
  <2> QED
    BY <1>2, <2>1
<1> QED
  BY <1>1, <1>2

(* What Follows says of a frame the encoder wrote. *)
LEMMA FollowsSays ==
  ASSUME TypeInv, NEW from \in Nat, NEW f, f.seq \in Nat, Follows(from, f)
  PROVE  /\ from .. f.seq - 1 \subseteq lost.acq /\ f.seq \notin lost.acq
         /\ "ProducerOverflow" \in f.flags <=> from < f.seq
         /\ "Discontinuity" \in f.flags <=> from < f.seq
         /\ "OutputQueueDrop" \notin f.flags /\ "StreamStart" \notin f.flags
<1>1. f.flags = EncodedFrame(f.seq, from < f.seq).flags
  BY DEF Follows
<1>2. /\ "ProducerOverflow" \in f.flags <=> from < f.seq
      /\ "Discontinuity" \in f.flags <=> from < f.seq
      /\ "OutputQueueDrop" \notin f.flags /\ "StreamStart" \notin f.flags
  BY <1>1, EncodedFlags, ZenonT(30)
<1> QED
  BY <1>2 DEF Follows

(* The frame in the encoder's hands joins an output ring with room.  *)
LEMMA PushedFits ==
  ASSUME TypeInv, FlowInv, Flowing, Held, Len(out.queue) # OutDepth,
         out' = OutPush(out, EncodedFrame(enc.seq, enc.overflow)),
         UNCHANGED <<lost, expected>>
  PROVE  /\ HeadTells' /\ out'.queue # <<>>
         /\ \A j \in 2 .. Len(out'.queue) : Follows(out.queue[j - 1].seq + 1, out.queue[j])'
         /\ \A s \in lost'.out : s < Head(out'.queue).seq
<1> DEFINE f == EncodedFrame(enc.seq, enc.overflow)
           n == Len(out.queue)
<1>0. f.seq = enc.seq /\ f.flags \subseteq CarryFlags
  BY EncodedFlags
<1>1. /\ out.queue \in Seq(Frames) /\ f \in Frames /\ n \in Nat
      /\ DOMAIN out.queue = 1 .. n
      /\ enc.seq \in Nat /\ expected \in Nat /\ OutEnd \in Nat
      /\ \A j \in 1 .. n : out.queue[j].seq \in Nat
  <2>1. enc.overflow \in BOOLEAN /\ enc.seq \in Sequences
    BY FlowTypes
  <2> QED
    BY <2>1, FlowTypes, FrameTypes, SMTT(30)
<1>2. /\ out'.queue = Append(out.queue, f) /\ out'.pending = out.pending
  BY FlowTypes DEF OutPush, OutRing
<1>3. /\ IF out.queue = <<>> THEN out.pending = {} ELSE HeadTells
      /\ \A j \in 2 .. n : Follows(out.queue[j - 1].seq + 1, out.queue[j])
      /\ \A s \in lost.out : s < IF out.queue = <<>> THEN expected ELSE Head(out.queue).seq
      /\ Follows(OutEnd, f)
  BY DEF FlowInv, LossInv
<1>4. expected <= enc.seq /\ active
  BY DEF FlowInv, OrderInv, Flowing
<1> HIDE DEF f
<1>5. /\ out'.queue # <<>> /\ out'.queue \in Seq(Frames) /\ Len(out'.queue) = n + 1
      /\ \A i \in 1 .. n : out'.queue[i] = out.queue[i]
      /\ out'.queue[n + 1] = f
  BY <1>1, <1>2, Grows DEF n
<1> HIDE DEF n
<1>6. Head(out'.queue) = out'.queue[1]
  BY <1>5, Shrinks
<1>7. \A g, x : Follows(g, x)' <=> Follows(g, x)
  BY DEF Follows
<1>8. HeadTells' /\ \A s \in lost'.out : s < Head(out'.queue).seq
  <2>1. CASE out.queue = <<>>
    <3>1. n = 0 /\ OutEnd = expected
      BY <2>1 DEF n, OutEnd
    <3>2. Head(out'.queue) = f /\ out'.pending = {} /\ f.flags \cup {} = f.flags
      BY <1>2, <1>3, <1>5, <1>6, <2>1, <3>1
    <3>3. Follows(expected, f) /\ f.seq \in Nat
      BY <1>0, <1>1, <1>3, <3>1
    <3>4. /\ expected .. f.seq - 1 \subseteq lost.acq /\ f.seq \notin lost.acq
          /\ "ProducerOverflow" \in f.flags <=> expected < f.seq
          /\ "Discontinuity" \in f.flags <=> expected < f.seq
          /\ "OutputQueueDrop" \notin f.flags /\ "StreamStart" \notin f.flags
      BY <1>1, <3>3, FollowsSays
    <3>5. expected .. f.seq - 1 # {} <=> expected < f.seq
      BY <1>1, <3>3, IntervalEmpty
    <3>6. \A s \in lost.out : s < expected /\ s \in Nat
      BY <1>3, <2>1, FlowTypes
    <3>7. (expected .. f.seq - 1) \cap lost.out = {}
      BY <1>1, <3>3, <3>6
    <3>8. \A s \in lost.out : s < f.seq
      BY <1>0, <1>1, <1>4, <3>6
    <3>9. (expected .. f.seq - 1) \cap lost.acq # {} <=> expected < f.seq
      BY <3>4, <3>5
    <3> QED
      BY <3>2, <3>4, <3>5, <3>7, <3>8, <3>9 DEF HeadTells
  <2>2. CASE out.queue # <<>>
    <3>1. n >= 1 /\ Head(out.queue) = out.queue[1]
      BY <1>1, <2>2, Shrinks DEF n
    <3>2. Head(out'.queue) = Head(out.queue)
      BY <1>1, <1>5, <1>6, <3>1
    <3> QED
      BY <1>2, <1>3, <2>2, <3>2 DEF HeadTells
  <2> QED
    BY <2>1, <2>2
<1>9. ASSUME NEW j \in 2 .. Len(out'.queue)
      PROVE  Follows(out.queue[j - 1].seq + 1, out.queue[j])'
  <2>1. CASE j \in 2 .. n
    <3>1. out'.queue[j] = out.queue[j] /\ out'.queue[j - 1] = out.queue[j - 1]
      BY <1>1, <1>5, <2>1
    <3>2. Follows(out.queue[j - 1].seq + 1, out.queue[j])
      BY <1>3, <2>1
    <3> QED
      BY <1>7, <3>1, <3>2
  <2>2. CASE j = n + 1
    <3>1. n \in 1 .. n /\ out.queue # <<>>
      BY <1>1, <1>9, <2>2 DEF n
    <3>2. out'.queue[j - 1] = out.queue[n] /\ out'.queue[j] = f
      BY <1>1, <1>5, <2>2, <3>1
    <3>3. OutEnd = out.queue[n].seq + 1
      BY <3>1 DEF OutEnd, n
    <3> QED
      BY <1>3, <1>7, <3>2, <3>3
  <2> QED
    BY <1>1, <1>5, <1>9, <2>1, <2>2
<1> QED
  BY <1>5, <1>8, <1>9

(* A full output ring gives up its oldest frame: the next one inherits     *)
(* what that frame had to say and tells of the frame itself.               *)
LEMMA PushedDrops ==
  ASSUME TypeInv, FlowInv, Flowing, Held, Len(out.queue) = OutDepth,
         out' = OutPush(out, EncodedFrame(enc.seq, enc.overflow)),
         lost'.acq = lost.acq, lost'.out = lost.out \cup {Head(out.queue).seq},
         UNCHANGED expected
  PROVE  /\ HeadTells' /\ out'.queue # <<>>
         /\ \A j \in 2 .. Len(out'.queue) : Follows(out.queue[j - 1].seq + 1, out.queue[j])'
         /\ \A s \in lost'.out : s < Head(out'.queue).seq
<1> DEFINE f == EncodedFrame(enc.seq, enc.overflow)
           n == Len(out.queue)
           old == Head(out.queue)
<1>0. f.seq = enc.seq
  BY EncodedFlags
<1>1. /\ out.queue \in Seq(Frames) /\ f \in Frames /\ n \in Nat /\ n >= 1
      /\ DOMAIN out.queue = 1 .. n /\ out.queue # <<>>
      /\ enc.seq \in Nat /\ expected \in Nat
      /\ \A j \in 1 .. n : out.queue[j].seq \in Nat
      /\ old = out.queue[1] /\ old.seq \in Nat
  <2>1. enc.overflow \in BOOLEAN /\ enc.seq \in Sequences
    BY FlowTypes
  <2>2. n \in Nat /\ n >= 1 /\ out.queue \in Seq(Frames) /\ out.queue # <<>>
    BY FlowTypes, FramesAssumption
  <2>3. old = out.queue[1] /\ 1 \in DOMAIN out.queue
    BY <2>2, Shrinks
  <2> QED
    BY <2>1, <2>2, <2>3, FlowTypes, FrameTypes, SMTT(30)
<1>2. /\ out'.queue = Append(Tail(out.queue), f)
      /\ out'.pending = out.pending \cup (old.flags \cap CarryFlags)
                                    \cup {"Discontinuity", "OutputQueueDrop"}
  BY DEF OutPush
<1>3. /\ HeadTells
      /\ \A j \in 2 .. n : Follows(out.queue[j - 1].seq + 1, out.queue[j])
      /\ \A s \in lost.out : s < old.seq
      /\ Follows(OutEnd, f)
  BY <1>1 DEF FlowInv, LossInv
<1>4. /\ active /\ expected <= old.seq
      /\ \A j \in 1 .. n : out.queue[j].seq < enc.seq
      /\ \A j, k \in 1 .. n : j < k => out.queue[j].seq < out.queue[k].seq
  BY <1>1, SMTT(30) DEF FlowInv, OrderInv, Flowing
<1>5. OutEnd = out.queue[n].seq + 1
  BY <1>1 DEF OutEnd
<1> HIDE DEF f
<1>6. /\ out'.queue # <<>> /\ out'.queue \in Seq(Frames) /\ Len(out'.queue) = n
      /\ \A i \in 1 .. n - 1 : out'.queue[i] = out.queue[i + 1]
      /\ out'.queue[n] = f
  BY <1>1, <1>2, Rotates DEF n
<1> HIDE DEF n
<1>7. Head(out'.queue) = out'.queue[1]
  BY <1>6, Shrinks
<1>8. \A g, x : Follows(g, x)' <=> Follows(g, x)
  BY DEF Follows
<1>9. ASSUME NEW j \in 2 .. Len(out'.queue)
      PROVE  Follows(out.queue[j - 1].seq + 1, out.queue[j])'
  <2>0. j - 1 \in 1 .. n - 1 /\ out'.queue[j - 1] = out.queue[j]
    BY <1>1, <1>6, <1>9
  <2>1. CASE j \in 2 .. n - 1
    <3>1. out'.queue[j] = out.queue[j + 1] /\ j + 1 \in 2 .. n
      BY <1>1, <1>6, <2>1
    <3>2. Follows(out.queue[(j + 1) - 1].seq + 1, out.queue[j + 1])
      BY <1>3, <3>1
    <3>3. (j + 1) - 1 = j
      BY <1>1, <2>1
    <3> QED
      BY <1>8, <2>0, <3>1, <3>2, <3>3
  <2>2. CASE j = n
    BY <1>3, <1>5, <1>6, <1>8, <2>0, <2>2
  <2> QED
    BY <1>1, <1>6, <1>9, <2>1, <2>2
<1> DEFINE new == Head(out'.queue)
<1>10. new.seq \in Nat /\ old.seq < new.seq /\ Follows(old.seq + 1, new)
  <2>1. CASE n = 1
    <3>1. new = f
      BY <1>6, <1>7, <2>1
    <3> QED
      BY <1>0, <1>1, <1>3, <1>4, <1>5, <2>1, <3>1
  <2>2. CASE n # 1
    <3>1. 1 \in 1 .. n - 1 /\ 2 \in 2 .. n /\ 2 \in 1 .. n /\ 1 \in 1 .. n /\ 1 + 1 = 2 /\ 2 - 1 = 1
          /\ 1 < 2
      BY <1>1, <2>2
    <3>2. new = out.queue[2]
      BY <1>6, <1>7, <3>1
    <3>3. Follows(out.queue[1].seq + 1, out.queue[2])
      BY <1>3, <3>1
    <3>4. out.queue[1].seq < out.queue[2].seq
      BY <1>4, <3>1
    <3> QED
      BY <1>1, <3>1, <3>2, <3>3, <3>4
  <2> QED
    BY <2>1, <2>2
<1>11. \A s \in lost'.out : s < new.seq
  <2> TAKE s \in lost'.out
  <2>1. s \in Nat /\ s <= old.seq
    <3>1. CASE s = old.seq
      BY <1>1, <3>1
    <3>2. CASE s \in lost.out
      <4>1. s \in Nat
        BY <3>2, FlowTypes
      <4>2. s < old.seq
        BY <1>3, <3>2
      <4> QED
        BY <1>1, <4>1, <4>2
    <3> QED
      BY <3>1, <3>2
  <2> HIDE DEF new, old
  <2> QED
    BY <1>1, <1>10, <2>1
<1>12. HeadTells'
  <2> DEFINE hole  == expected .. old.seq - 1
             gap   == old.seq + 1 .. new.seq - 1
             hole1 == expected .. new.seq - 1
             said  == old.flags \cup out.pending
             said1 == new.flags \cup out'.pending
  <2>1. /\ gap \subseteq lost.acq /\ new.seq \notin lost.acq
        /\ "ProducerOverflow" \in new.flags <=> old.seq + 1 < new.seq
        /\ "StreamStart" \notin new.flags
    <3> DEFINE from == old.seq + 1
    <3>1. from \in Nat /\ new.seq \in Nat /\ Follows(from, new)
      BY <1>1, <1>10
    <3> HIDE DEF from, new
    <3>2. /\ from .. new.seq - 1 \subseteq lost.acq /\ new.seq \notin lost.acq
          /\ "ProducerOverflow" \in new.flags <=> from < new.seq
          /\ "StreamStart" \notin new.flags
      BY <3>1, FollowsSays
    <3> QED
      BY <3>2 DEF from
  <2>2. hole1 = hole \cup {old.seq} \cup gap
    BY <1>1, <1>4, <1>10
  <2>3. gap # {} <=> old.seq + 1 < new.seq
    <3>1. old.seq + 1 \in Nat
      BY <1>1
    <3> HIDE DEF old, new
    <3> QED
      BY <1>10, <3>1, IntervalEmpty
  <2>4. /\ hole \subseteq lost.acq \cup lost.out
        /\ ("ProducerOverflow" \in said) <=> (hole \cap lost.acq # {})
        /\ old.seq \notin lost.acq
    BY <1>3 DEF HeadTells
  <2>5. out.pending \subseteq CarryFlags
    BY FlowTypes
  <2>6. /\ "ProducerOverflow" \in said1
             <=> ("ProducerOverflow" \in said \/ "ProducerOverflow" \in new.flags)
        /\ "OutputQueueDrop" \in said1
        /\ "StreamStart" \notin said1
    BY <1>2, <2>1, <2>5 DEF CarryFlags, CauseFlags
  <2> HIDE DEF hole, gap, hole1, said, said1
  <2>7. /\ hole1 \subseteq lost'.acq \cup lost'.out
        /\ hole1 # {}
        /\ hole1 \cap lost'.out # {}
    BY <2>1, <2>2, <2>4
  <2>8. hole1 \cap lost'.acq # {} <=> hole \cap lost.acq # {} \/ gap # {}
    BY <2>1, <2>2, <2>4
  <2>9. "ProducerOverflow" \in said1 <=> hole1 \cap lost'.acq # {}
    BY <2>1, <2>3, <2>4, <2>6, <2>8
  <2> QED
    BY <2>1, <2>6, <2>7, <2>9 DEF HeadTells, hole1, said1
<1> QED
  BY <1>6, <1>9, <1>11, <1>12

(* The frame in the encoder's hands joins the output ring. *)
LEMMA FlowStepPushed ==
  ASSUME TypeInv, OwnershipInv, FlowInv, EncoderPush, Held, active
  PROVE  FlowInv'
<1> DEFINE f == EncodedFrame(enc.seq, enc.overflow)
           n == Len(out.queue)
<1>1. /\ owner # NoOwner /\ out' = OutPush(out, f)
      /\ lost' = IF n = OutDepth THEN [lost EXCEPT !.out = @ \cup {Head(out.queue).seq}] ELSE lost
      /\ busy' = FALSE /\ enc'.pc \in {"next", "wait"}
      /\ UNCHANGED <<enc.id, sid, active, stopping, first, expected, acq, wire, streamCount,
                     http, prod>>
  BY FlowTypes DEF EncoderPush, encoderOnly, lifeVars, streamVars, prodVars, connVars, countVars,
     EncType, OwnershipInv, OwnerInv, Held
<1>2. http.pc # "startProducer"
  BY DEF FlowInv, StartInv, Held
<1>3. /\ out.queue \in Seq(Frames) /\ n \in Nat /\ f \in Frames /\ f.seq = enc.seq
      /\ enc.seq \in Nat /\ expected \in Nat /\ AcqStart \in Int
      /\ DOMAIN out.queue = 1 .. n
      /\ \A j \in 1 .. n : out.queue[j].seq \in Nat
  <2>1. enc.overflow \in BOOLEAN /\ enc.seq \in Sequences
    BY FlowTypes
  <2> QED
    BY <2>1, FlowTypes, FrameTypes, EncodedFlags, SMTT(30)
<1>4. /\ expected <= enc.seq
      /\ \A j \in 1 .. n : out.queue[j].seq < enc.seq /\ expected <= out.queue[j].seq
      /\ \A j, k \in 1 .. n : j < k => out.queue[j].seq < out.queue[k].seq
      /\ prod.id = sid =>
           /\ Consecutive(acq.queue, AcqStart) /\ expected <= AcqStart /\ enc.seq < AcqStart
           /\ \A j \in 1 .. n : out.queue[j].seq < AcqStart
  BY <1>3 DEF FlowInv, OrderInv
<1> HIDE DEF f
<1>5. PICK m \in Nat : /\ m >= 1 /\ DOMAIN out'.queue = 1 .. m /\ Len(out'.queue) = m
                       /\ out'.queue # <<>> /\ out'.queue[m] = f
                       /\ \/ m = n + 1 /\ \A i \in 1 .. m - 1 : out'.queue[i] = out.queue[i]
                          \/ m = n /\ \A i \in 1 .. m - 1 : out'.queue[i] = out.queue[i + 1]
  <2>1. CASE n = OutDepth
    <3>1. out'.queue = Append(Tail(out.queue), f)
      BY <1>1, <2>1 DEF OutPush
    <3>2. out.queue # <<>> /\ n >= 1
      BY <1>3, <2>1, FramesAssumption
    <3> HIDE DEF n
    <3>3. /\ out'.queue # <<>> /\ Len(out'.queue) = n /\ DOMAIN out'.queue = 1 .. n
          /\ \A i \in 1 .. n - 1 : out'.queue[i] = out.queue[i + 1]
          /\ out'.queue[n] = f
      BY <1>3, <3>1, <3>2, Rotates DEF n
    <3> QED
      BY <1>3, <3>2, <3>3
  <2>2. CASE n # OutDepth
    <3>1. out'.queue = Append(out.queue, f)
      BY <1>1, <2>2, FlowTypes DEF OutPush, OutRing
    <3> HIDE DEF n
    <3>2. /\ out'.queue # <<>> /\ Len(out'.queue) = n + 1 /\ DOMAIN out'.queue = 1 .. n + 1
          /\ \A i \in 1 .. n : out'.queue[i] = out.queue[i]
          /\ out'.queue[n + 1] = f
      BY <1>3, <3>1, Grows DEF n
    <3> DEFINE m == n + 1
    <3>3. m \in Nat /\ m >= 1 /\ m - 1 = n
      BY <1>3
    <3> QED
      BY <3>2, <3>3
  <2> QED
    BY <2>1, <2>2
<1> HIDE DEF n
<1>6. \A i \in 1 .. m - 1 : \E j \in 1 .. n : out'.queue[i] = out.queue[j] /\ j \in {i, i + 1}
                                               /\ (m = n + 1 <=> j = i)
  BY <1>3, <1>5
<1>7. ~Held' /\ OutEnd' = enc.seq + 1 /\ HandEnd' = HandEnd /\ AcqStart' = AcqStart
      /\ HandEnd = enc.seq + 1
  BY <1>1, <1>3, <1>5 DEF Held, OutEnd, HandEnd, AcqStart, Tapped
<1>8. IdInv' /\ WireShape' /\ StartInv'
  BY <1>1, <1>2 DEF FlowInv, IdInv, WireShape, StartInv
<1>9. EndInv'
  BY <1>1 DEF FlowInv, EndInv, Closed, Held
<1>10. OrderInv'
  <2>1. ASSUME NEW j \in 1 .. m
        PROVE  /\ out'.queue[j].seq \in Nat /\ expected <= out'.queue[j].seq
               /\ out'.queue[j].seq <= enc.seq
               /\ j # m => out'.queue[j].seq < enc.seq
               /\ prod.id = sid => out'.queue[j].seq < AcqStart
    <3>1. CASE j = m
      BY <1>3, <1>4, <1>5, <3>1
    <3>2. CASE j \in 1 .. m - 1
      <4>1. PICK i \in 1 .. n : out'.queue[j] = out.queue[i]
        BY <1>6, <3>2
      <4> QED
        BY <1>3, <1>4, <4>1
    <3> QED
      BY <1>5, <2>1, <3>1, <3>2
  <2>2. ASSUME NEW j \in 1 .. m, NEW k \in 1 .. m, j < k
        PROVE  out'.queue[j].seq < out'.queue[k].seq
    <3>1. CASE k = m
      <4>1. out'.queue[k].seq = enc.seq /\ j # m
        BY <1>3, <1>5, <2>2, <3>1
      <4> QED
        BY <2>1, <4>1
    <3>2. CASE k \in 1 .. m - 1
      <4>1. j \in 1 .. m - 1
        BY <1>5, <2>2, <3>2
      <4>2. CASE m = n + 1 /\ \A i \in 1 .. m - 1 : out'.queue[i] = out.queue[i]
        <5>1. j \in 1 .. n /\ k \in 1 .. n
          BY <1>3, <3>2, <4>1, <4>2
        <5>2. out'.queue[j] = out.queue[j] /\ out'.queue[k] = out.queue[k]
          BY <3>2, <4>1, <4>2
        <5> QED
          BY <1>4, <2>2, <5>1, <5>2
      <4>3. CASE m = n /\ \A i \in 1 .. m - 1 : out'.queue[i] = out.queue[i + 1]
        <5>1. out'.queue[j] = out.queue[j + 1] /\ out'.queue[k] = out.queue[k + 1]
          BY <3>2, <4>1, <4>3
        <5>2. j + 1 \in 1 .. n /\ k + 1 \in 1 .. n /\ j + 1 < k + 1
          BY <1>3, <2>2, <3>2, <4>1, <4>3
        <5> QED
          BY <1>4, <5>1, <5>2
      <4> QED
        BY <1>5, <4>2, <4>3
    <3> QED
      BY <1>5, <2>2, <3>1, <3>2
  <2> QED
    BY <1>1, <1>4, <1>5, <1>7, <2>1, <2>2 DEF OrderInv
<1>11. LossInv'
  <2> SUFFICES ASSUME Flowing PROVE LossInv'
    BY <1>1 DEF LossInv, Flowing
  <2>1. /\ HeadTells' /\ out'.queue # <<>>
        /\ \A j \in 2 .. Len(out'.queue) : Follows(out.queue[j - 1].seq + 1, out.queue[j])'
        /\ \A s \in lost'.out : s < Head(out'.queue).seq
    <3>1. CASE n = OutDepth
      <4>1. lost'.acq = lost.acq /\ lost'.out = lost.out \cup {Head(out.queue).seq}
        BY <1>1, <3>1, FlowTypes DEF LostType, n
      <4> QED
        BY <1>1, <3>1, <4>1, PushedDrops DEF f, n
    <3>2. CASE n # OutDepth
      BY <1>1, <3>2, PushedFits DEF f, n
    <3> QED
      BY <3>1, <3>2
  <2>2. lost'.acq = lost.acq
    BY <1>1, FlowTypes DEF LostType
  <2>3. /\ HandEnd .. AcqStart - 1 \subseteq lost.acq
        /\ acq.overflow <=> HandEnd < AcqStart
        /\ acq.queue = <<>> => HandEnd = AcqStart
        /\ \A s \in lost.acq : s < AcqStart
    BY DEF FlowInv, LossInv
  <2> QED
    BY <1>1, <1>7, <2>1, <2>2, <2>3 DEF LossInv
<1> QED
  BY <1>8, <1>9, <1>10, <1>11 DEF FlowInv

(* The encoder's positions between two samples, and a sample of a stream   *)
(* that is over. *)
LEMMA FlowStepEncoder ==
  ASSUME TypeInv, OwnershipInv, FlowInv, Tap \/ Encoder
  PROVE  FlowInv'
<1> USE DEF encoderOnly, lifeVars, streamVars, prodVars, connVars, countVars
<1>1. CASE Tap
  BY <1>1, FlowStepTap
<1>2. CASE \/ EncoderClaim \/ EncoderRelease
           \/ EncoderPop /\ ~(prod.id # 0 /\ acq.queue # <<>>)
           \/ EncoderPush /\ ~(Held /\ active)
  <2>1. /\ UNCHANGED <<enc.id, enc.seq, enc.overflow>>
        /\ UNCHANGED <<sid, active, stopping, first, expected, out, acq, wire, lost,
                       streamCount, prod, http>>
        /\ busy' <=> enc'.pc \in {"pop", "push", "release"}
        /\ enc'.pc # "push"
        /\ enc.pc = "push" => ~active \/ enc.id # sid
    <3>1. CASE EncoderClaim
      BY <3>1, FlowTypes DEF EncoderClaim, EncType
    <3>2. CASE EncoderRelease
      BY <3>2, FlowTypes DEF EncoderRelease, EncType
    <3>3. CASE EncoderPop /\ ~(prod.id # 0 /\ acq.queue # <<>>)
      BY <3>3, FlowTypes DEF EncoderPop, EncType, FlowInv, EndInv
    <3>4. CASE EncoderPush /\ ~(Held /\ active)
      BY <3>4, FlowTypes DEF EncoderPush, EncType, Held
    <3> QED
      BY <1>2, <3>1, <3>2, <3>3, <3>4
  <2>2. active => (Held' <=> Held)
    BY <2>1 DEF Held
  <2>3. StartInv' /\ EndInv'
    BY <2>1 DEF FlowInv, StartInv, EndInv, Closed
  <2> QED
    BY <2>1, <2>2, <2>3, FlowSame DEF Flowing
<1>3. CASE EncoderPop /\ prod.id # 0 /\ acq.queue # <<>>
  BY <1>3, FlowStepPop
<1>4. CASE EncoderPush /\ Held /\ active
  BY <1>4, FlowStepPushed
<1> QED
  BY <1>1, <1>2, <1>3, <1>4 DEF Encoder

(* What EndInv needs of a step of the HTTPD task that stays clear of the   *)
(* end of the stream. *)
LEMMA EndMoves ==
  ASSUME FlowInv, UNCHANGED <<wire, active, out, enc, busy, sid>>,
         acq' \in {acq, EmptyAcq},
         \/ UNCHANGED <<http, stopping>>
         \/ /\ http.pc \notin {"stoppedText", "complete"} \cup FailPcs
            /\ http'.pc \notin {"ready", "end", "stoppedText", "complete"}
  PROVE  EndInv'
BY DEF FlowInv, EndInv, Closed, EmptyAcq, FailPcs

(* Requests to the pump move no sample. *)
LEMMA FlowStepTx ==
  ASSUME TypeInv, OwnershipInv, FlowInv, Tx
  PROVE  FlowInv'
<1>1. UNCHANGED <<streamVars, out, prodVars, busy, enc, http, streamCount, histVars>>
  BY DEF Tx, TxLatch, RequestPumpQueued, RequestPumpRejected, RequestPumpDeclined, txOnly,
         countVars
<1>2. StartInv' /\ EndInv'
  BY <1>1, EndMoves DEF FlowInv, StartInv, streamVars, prodVars, histVars
<1> QED
  BY <1>1, <1>2, FlowSame DEF Flowing, Held, streamVars, prodVars, histVars

(* The HTTPD task between two sends. *)
LEMMA FlowStepPumpMoves ==
  ASSUME TypeInv, OwnershipInv, FlowInv,
         PumpBegin \/ PumpDrained \/ PumpSnapshot \/ PumpReady \/ PumpFinish
  PROVE  FlowInv'
<1> USE DEF lifeVars, streamVars, prodVars, connVars, countVars, histVars, pumpOnly
<1>1. /\ UNCHANGED <<enc, busy, prod, acq, streamCount, sid, active, stopping, first, expected,
                     out, wire, lost>>
      /\ http.pc \in {"idle", "drain", "snapshot", "resnapshot", "ready", "finish"}
      /\ http'.pc \notin {"startProducer", "stoppedText", "complete"}
      /\ http'.pc \in {"ready", "end"} =>
           \/ http.pc = "snapshot" /\ http'.snap = ProducerSnapshot /\ http'.pc = "ready"
           \/ http.pc = "ready" /\ http'.pc = "end" /\ ReadyForStreamEnd(http.snap)
  <2>1. CASE PumpBegin
    BY <2>1, FlowTypes DEF PumpBegin, HttpdServes, HttpdIdle, HttpType
  <2>2. CASE PumpDrained
    BY <2>2, FlowTypes DEF PumpDrained, HttpAt, HttpType
  <2>3. CASE PumpSnapshot
    BY <2>3, FlowTypes DEF PumpSnapshot, HttpType
  <2>4. CASE PumpReady
    BY <2>4, FlowTypes DEF PumpReady, HttpAt, HttpType
  <2>5. CASE PumpFinish
    BY <2>5, FlowTypes DEF PumpFinish, HttpAt, HttpType
  <2> QED
    BY <2>1, <2>2, <2>3, <2>4, <2>5
<1>2. StartInv'
  BY <1>1 DEF StartInv
<1>3. EndInv'
  <2>1. CASE http'.pc \notin {"ready", "end"}
    BY <1>1, <2>1, EndMoves DEF FailPcs
  <2>2. CASE http.pc = "snapshot" /\ http'.snap = ProducerSnapshot /\ http'.pc = "ready"
    <3>1. http'.snap.queued = Len(acq.queue) /\ acq.queue \in Seq(Sequences)
      BY <2>2, FlowTypes DEF ProducerSnapshot, Snap
    <3>2. acq.queue # <<>> => Len(acq.queue) >= 1
      BY <3>1, Shrinks
    <3>3. http'.snap.queued = 0 => acq.queue = <<>>
      BY <3>1, <3>2
    <3> QED
      BY <1>1, <2>2, <3>3 DEF FlowInv, EndInv, Closed, FailPcs
  <2>3. CASE http.pc = "ready" /\ http'.pc = "end" /\ ReadyForStreamEnd(http.snap)
    BY <1>1, <2>3 DEF FlowInv, EndInv, Closed, FailPcs, ReadyForStreamEnd
  <2> QED
    BY <1>1, <2>1, <2>2, <2>3
<1>4. Flowing' => Flowing
  BY <1>1 DEF Flowing
<1> QED
  BY <1>1, <1>2, <1>3, <1>4, FlowSame DEF Held

(* The end of a stream, orderly or not. *)
LEMMA FlowStepPumpEnds ==
  ASSUME TypeInv, OwnershipInv, FlowInv,
         CompleteOrderlyStop \/ FailStreamAbort \/ FailStreamClear
  PROVE  FlowInv'
<1> USE DEF lifeVars, streamVars, prodVars, connVars, countVars, histVars
<1>1. CASE CompleteOrderlyStop
  <2>1. http'.pc = "idle"
    BY <1>1, FlowTypes DEF CompleteOrderlyStop, HttpAt, HttpType
  <2> QED
    BY <1>1, <2>1, FlowEnds DEF CompleteOrderlyStop, ClearStream
<1>2. CASE FailStreamClear
  <2>1. http'.pc = "idle"
    BY <1>2, FlowTypes DEF FailStreamClear, HttpAt, HttpType
  <2> QED
    BY <1>2, <2>1, FlowEnds DEF FailStreamClear, ClearPipeline
<1>3. CASE FailStreamAbort
  <2>1. http.pc = "failAbort" /\ http'.pc = "failClear"
    BY <1>3, FlowTypes DEF FailStreamAbort, HttpAt, HttpType
  <2>2. UNCHANGED <<enc, busy, streamCount, sid, active, stopping, first, expected, out, wire,
                    lost>>
    BY <1>3 DEF FailStreamAbort
  <2>3. acq' \in {acq, EmptyAcq} /\ Abort(sid)
    BY <1>3 DEF FailStreamAbort, Abort
  <2>4. EndInv'
    BY <2>1, <2>2, <2>3 DEF FlowInv, EndInv, Closed, EmptyAcq, FailPcs
  <2>5. prod'.id # sid \/ ~active
    BY <2>3, FlowTypes DEF Abort, ProdType, OwnershipInv, OwnerInv
  <2> QED
    BY <2>1, <2>2, <2>3, <2>4, <2>5, FlowAborts DEF Flowing
<1> QED
  BY <1>1, <1>2, <1>3

(* The application task. *)
LEMMA FlowStepApp ==
  ASSUME TypeInv, OwnershipInv, FlowInv, App
  PROVE  FlowInv'
<1> USE DEF lifeVars, streamVars, prodVars, connVars, countVars, histVars, appOnly
<1>1. CASE \/ CommitServerRunning \/ StopServer \/ MarkStopFailed \/ HttpdJoined
           \/ MarkStopSucceeded
  <2>1. UNCHANGED <<streamVars, out, prodVars, busy, enc, http, streamCount, histVars>>
    BY <1>1 DEF CommitServerRunning, StopServer, MarkStopFailed, HttpdJoined, MarkStopSucceeded
  <2>2. StartInv' /\ EndInv'
    BY <2>1, EndMoves DEF FlowInv, StartInv
  <2> QED
    BY <2>1, <2>2, FlowSame DEF Flowing, Held
<1>2. CASE StopServerAbort
  <2>1. /\ UNCHANGED <<streamVars, out, busy, enc, http, streamCount, histVars>>
        /\ Abort(sid) \/ UNCHANGED prodVars
    BY <1>2 DEF StopServerAbort
  <2>2. acq' \in {acq, EmptyAcq}
    BY <2>1 DEF Abort
  <2>3. StartInv' /\ EndInv'
    BY <2>1, <2>2, EndMoves DEF FlowInv, StartInv
  <2>4. http.pc = "idle"
    BY <1>2 DEF StopServerAbort, OwnershipInv, MutexInv
  <2>5. CASE UNCHANGED prodVars
    BY <2>1, <2>3, <2>5, FlowSame DEF Flowing, Held
  <2>6. CASE Abort(sid)
    <3>1. Flowing' => Flowing
      <4>1. prod'.id = prod.id \/ prod'.id = 0
        BY <2>6, FlowTypes DEF Abort, ProdType
      <4> QED
        BY <2>1, <4>1 DEF Flowing, OwnershipInv, OwnerInv
    <3> QED
      BY <2>1, <2>3, <2>4, <2>6, <3>1, FlowAborts
  <2> QED
    BY <2>1, <2>5, <2>6
<1>3. CASE StopServerClear
  <2>1. http'.pc = "idle"
    BY <1>3 DEF StopServerClear, OwnershipInv, MutexInv
  <2> QED
    BY <1>3, <2>1, FlowEnds DEF StopServerClear, ClearPipeline
<1> QED
  BY <1>1, <1>2, <1>3 DEF App

(* A stream starts: nothing of an earlier one is left in the rings, on the *)
(* wire or in the loss counts, and the encoder holds no sample of it. *)
LEMMA FlowStepStart ==
  ASSUME TypeInv, OwnershipInv, FlowInv, StartStream, CanStart, active', sid' = streamCount + 1
  PROVE  FlowInv'
<1> USE DEF lifeVars, streamVars, prodVars, connVars, countVars, histVars
<1>1. ~active /\ sid = 0 /\ stopping = FALSE
  BY FlowTypes DEF CanStart, OwnershipInv, OwnerInv
<1>2. /\ first' = TRUE /\ expected' = 0 /\ out' = EmptyOut /\ http'.pc = "startProducer"
      /\ wire' = <<>> /\ lost' = [acq |-> {}, out |-> {}] /\ streamCount' = streamCount + 1
      /\ UNCHANGED <<enc, busy, prod, acq, stopping>>
      /\ http.pc = "idle"
  <2>1. active' # active
    BY <1>1
  <2> QED
    BY <2>1, FlowTypes DEF StartStream, OutClear, HttpAt, HttpType, HttpdServes, HttpdIdle
<1>3. enc.id <= streamCount /\ streamCount \in Nat /\ enc.id \in Nat
  BY FlowTypes DEF FlowInv, IdInv
<1>4. enc.id # sid' /\ ~Held'
  BY <1>2, <1>3 DEF Held
<1>5. prod'.id # sid'
  <2>1. prod.id = 0
    BY <1>1 DEF OwnershipInv, ProducerInv
  <2> QED
    BY <1>2, <1>3, <2>1
<1>6. IdInv'
  BY <1>2, <1>3 DEF IdInv
<1>7. OrderInv' /\ LossInv' /\ StartInv'
  BY <1>2, <1>4, <1>5 DEF OrderInv, LossInv, Flowing, StartInv, EmptyOut
<1>8. WireShape'
  BY <1>2 DEF WireShape
<1>9. EndInv'
  BY <1>2 DEF FlowInv, EndInv, Closed
<1> QED
  BY <1>6, <1>7, <1>8, <1>9 DEF FlowInv

(* The sampler starts to tap for it. *)
LEMMA FlowStepStartProducer ==
  ASSUME TypeInv, OwnershipInv, FlowInv, StartProducer
  PROVE  FlowInv'
<1> USE DEF lifeVars, streamVars, prodVars, connVars, countVars, histVars, handlerOnly
<1>1. /\ http.pc = "startProducer" /\ http'.pc = "idle"
      /\ prod' = [active |-> TRUE, id |-> sid, next |-> 0, exhausted |-> FALSE]
      /\ acq' = EmptyAcq
      /\ UNCHANGED <<enc, busy, streamCount, sid, active, stopping, first, expected, out, wire,
                     lost>>
  BY FlowTypes DEF StartProducer, HttpAt, HttpType
<1>2. out = EmptyOut /\ expected = 0 /\ lost = [acq |-> {}, out |-> {}] /\ enc.id # sid
  BY <1>1 DEF FlowInv, StartInv
<1>3. Len(EmptyAcq.queue) = 0 /\ EmptyAcq.queue = <<>>
  BY DEF EmptyAcq
<1>4. AcqStart' = 0 /\ HandEnd' = 0 /\ OutEnd' = 0 /\ ~Held'
  BY <1>1, <1>2, <1>3 DEF AcqStart, Tapped, HandEnd, OutEnd, Held, EmptyOut
<1>5. IdInv' /\ WireShape' /\ StartInv'
  BY <1>1 DEF FlowInv, IdInv, WireShape, StartInv
<1>6. OrderInv'
  BY <1>1, <1>2, <1>3, <1>4 DEF OrderInv, Consecutive, EmptyOut
<1>7. LossInv'
  BY <1>1, <1>2, <1>3, <1>4 DEF LossInv, EmptyOut, EmptyAcq
<1>8. EndInv'
  BY <1>1, <1>3, EndMoves DEF FailPcs
<1> QED
  BY <1>5, <1>6, <1>7, <1>8 DEF FlowInv

(* The WebSocket handlers. *)
LEMMA FlowStepHandlers ==
  ASSUME TypeInv, OwnershipInv, FlowInv, Client \/ CloseWork \/ HandlerStep
  PROVE  FlowInv'
<1> USE DEF lifeVars, streamVars, prodVars, connVars, countVars, histVars, handlerOnly, closeOnly
<1>1. CASE OpenOwner
  <2>1. http.pc = "idle" /\ UNCHANGED <<http, enc, busy, prodVars, histVars, streamCount>>
    BY <1>1 DEF OpenOwner, HttpdServes, HttpdIdle
  <2>2. CASE UNCHANGED <<streamVars, out>>
    <3>1. StartInv' /\ EndInv'
      BY <2>1, <2>2, EndMoves DEF FlowInv, StartInv
    <3> QED
      BY <2>1, <2>2, <3>1, FlowSame DEF Flowing, Held
  <2>3. CASE ~ UNCHANGED <<streamVars, out>>
    BY <1>1, <2>1, <2>3, FlowEnds DEF OpenOwner
  <2> QED
    BY <2>2, <2>3
<1>2. CASE StartStream
  <2>1. CASE CanStart /\ active' /\ sid' = streamCount + 1
    BY <1>2, <2>1, FlowStepStart
  <2>2. CASE ~(CanStart /\ active' /\ sid' = streamCount + 1)
    <3>1. /\ http.pc = "idle" /\ streamCount' = streamCount + 1
          /\ UNCHANGED <<http, enc, busy, prodVars, histVars, streamVars, out>>
      BY <1>2, <2>2 DEF StartStream, HttpdServes, HttpdIdle
    <3>2. IdInv'
      BY <3>1, FlowTypes, SMTT(30) DEF FlowInv, IdInv
    <3>3. EndInv'
      BY <3>1, EndMoves
    <3>4. WireShape' /\ StartInv'
      BY <3>1 DEF FlowInv, WireShape, StartInv
    <3>5. Held' = Held /\ Tapped' = Tapped /\ AcqStart' = AcqStart /\ OutEnd' = OutEnd
          /\ HandEnd' = HandEnd
      BY <3>1 DEF Held, Tapped, AcqStart, OutEnd, HandEnd
    <3>6. OrderInv'
      BY <3>1, <3>5 DEF FlowInv, OrderInv
    <3>7. (\A f, x : Follows(f, x)' <=> Follows(f, x)) /\ HeadTells' = HeadTells
      BY <3>1 DEF Follows, HeadTells
    <3>8. LossInv'
      BY <3>1, <3>5, <3>7 DEF FlowInv, LossInv, Flowing
    <3> QED
      BY <3>2, <3>3, <3>4, <3>6, <3>8 DEF FlowInv
  <2> QED
    BY <2>1, <2>2
<1>3. CASE RequestOrderlyStop
  <2>1. /\ http.pc = "idle" /\ UNCHANGED <<streamVars, out, enc, busy, histVars, streamCount>>
    BY <1>3 DEF RequestOrderlyStop, HttpdServes, HttpdIdle
  <2>2. CASE CanStop
    <3>1. /\ http'.pc = "commitStop" /\ UNCHANGED acq
          /\ UNCHANGED <<prod.id, prod.next, prod.exhausted>>
      BY <1>3, <2>2, FlowTypes DEF RequestOrderlyStop, HttpAt, HttpType, ProdType
    <3>2. StartInv' /\ EndInv'
      BY <2>1, <3>1, EndMoves DEF StartInv, FailPcs
    <3> QED
      BY <2>1, <3>1, <3>2, FlowSame DEF Flowing, Held
  <2>3. CASE ~CanStop
    <3>1. UNCHANGED http /\ Abort(session)
      BY <1>3, <2>3 DEF RequestOrderlyStop
    <3>2. acq' \in {acq, EmptyAcq} /\ (prod'.id = prod.id \/ prod'.id = 0)
      BY <3>1, FlowTypes DEF Abort, ProdType
    <3>3. EndInv'
      BY <2>1, <3>1, <3>2, EndMoves
    <3>4. Flowing' => Flowing
      BY <2>1, <3>1, <3>2 DEF Flowing, OwnershipInv, OwnerInv
    <3> QED
      BY <2>1, <3>1, <3>3, <3>4, FlowAborts
  <2> QED
    BY <2>2, <2>3
<1>4. CASE ClientGone \/ CloseWork
  <2>1. /\ http.pc = "idle" /\ UNCHANGED <<streamVars, out, enc, busy, histVars, streamCount, prodVars>>
        /\ http'.pc = "closeAbort" \/ UNCHANGED http
    BY <1>4, FlowTypes
    DEF ClientGone, CloseWork, BeginClose, HttpdServes, HttpdIdle, HttpAt, HttpType
  <2>2. StartInv' /\ EndInv'
    BY <2>1, EndMoves DEF FlowInv, StartInv, FailPcs
  <2> QED
    BY <2>1, <2>2, FlowSame DEF Flowing, Held
<1>5. CASE StartProducer
  BY <1>5, FlowStepStartProducer
<1>6. CASE CommitOrderlyStop
  <2>1. /\ http.pc = "commitStop" /\ http'.pc = "idle"
        /\ UNCHANGED <<active, sid, first, expected, out, enc, busy, histVars, streamCount, prodVars>>
    BY <1>6, FlowTypes DEF CommitOrderlyStop, HttpAt, HttpType
  <2>2. StartInv' /\ EndInv'
    BY <2>1, EndMoves DEF FlowInv, StartInv, FailPcs
  <2> QED
    BY <2>1, <2>2, FlowSame DEF Flowing, Held
<1>7. CASE CloseAbort
  <2>1. /\ http.pc = "closeAbort" /\ http'.pc = "closeClear"
        /\ UNCHANGED <<streamVars, out, enc, busy, histVars, streamCount>>
        /\ Abort(sid) \/ UNCHANGED prodVars
    BY <1>7, FlowTypes DEF CloseAbort, HttpAt, HttpType
  <2>2. acq' \in {acq, EmptyAcq}
    BY <2>1 DEF Abort
  <2>3. StartInv' /\ EndInv'
    BY <2>1, <2>2, EndMoves DEF StartInv, FailPcs
  <2>4. CASE UNCHANGED prodVars
    BY <2>1, <2>3, <2>4, FlowSame DEF Flowing, Held
  <2>5. CASE Abort(sid)
    <3>1. prod'.id = prod.id \/ prod'.id = 0
      BY <2>5, FlowTypes DEF Abort, ProdType
    <3>2. Flowing' => Flowing
      BY <2>1, <3>1 DEF Flowing, OwnershipInv, OwnerInv
    <3> QED
      BY <2>1, <2>3, <2>5, <3>2, FlowAborts
  <2> QED
    BY <2>1, <2>4, <2>5
<1>8. CASE CloseClear
  <2>1. http'.pc = "idle"
    BY <1>8, FlowTypes DEF CloseClear, HttpAt, HttpType
  <2> QED
    BY <1>8, <2>1, FlowEnds DEF CloseClear, ClearPipeline
<1> QED
  BY <1>1, <1>2, <1>3, <1>4, <1>5, <1>6, <1>7, <1>8 DEF Client, HandlerStep

(* The output ring gives its oldest frame away. *)
LEMMA OrderPops ==
  ASSUME TypeInv, FlowInv, active, out.queue # <<>>, out' = OutPop(out),
         UNCHANGED <<enc, sid, active, acq, prod>>,
         \/ UNCHANGED expected
         \/ expected' = Head(out.queue).seq + 1
  PROVE  OrderInv'
<1> DEFINE q == out.queue
           n == Len(q)
<1>1. /\ q \in Seq(Frames) /\ n \in Nat /\ n >= 1 /\ DOMAIN q = 1 .. n /\ q # <<>>
      /\ expected \in Nat /\ enc.seq \in Nat /\ AcqStart \in Int
      /\ \A j \in 1 .. n : q[j].seq \in Nat
      /\ Head(q) = q[1] /\ 1 \in 1 .. n
      /\ DOMAIN out'.queue = 1 .. n - 1
      /\ \A i \in 1 .. n - 1 : out'.queue[i] = q[i + 1] /\ i + 1 \in 1 .. n
  <2>1. out'.queue = Tail(q)
    BY DEF OutPop
  <2>2. q \in Seq(Frames) /\ q # <<>>
    BY FlowTypes
  <2>3. n \in Nat /\ n >= 1 /\ DOMAIN q = 1 .. n /\ Head(q) = q[1]
    BY <2>2, Shrinks
  <2> HIDE DEF q
  <2>4. DOMAIN out'.queue = 1 .. n - 1 /\ \A i \in 1 .. n - 1 : out'.queue[i] = q[i + 1]
    BY <2>1, <2>2, Shrinks
  <2> HIDE DEF n
  <2>5. 1 \in 1 .. n /\ \A i \in 1 .. n - 1 : i + 1 \in 1 .. n
    BY <2>3
  <2>6. \A j \in DOMAIN q : q[j].seq \in Nat
    BY FlowTypes DEF q
  <2> QED
    BY <2>2, <2>3, <2>4, <2>5, <2>6, FlowTypes
<1>2. /\ \A j \in 1 .. n : expected <= q[j].seq
      /\ \A j, k \in 1 .. n : j < k => q[j].seq < q[k].seq
      /\ Held => expected <= enc.seq /\ \A j \in 1 .. n : q[j].seq < enc.seq
      /\ prod.id = sid =>
           /\ Consecutive(acq.queue, AcqStart) /\ expected <= AcqStart
           /\ \A j \in 1 .. n : q[j].seq < AcqStart
           /\ Held => enc.seq < AcqStart
  BY <1>1 DEF FlowInv, OrderInv
<1> HIDE DEF n
<1>3. Held' = Held /\ AcqStart' = AcqStart
  BY DEF Held, AcqStart, Tapped
<1>4. \A j \in 2 .. n : q[1].seq < q[j].seq
  <2> TAKE j \in 2 .. n
  <2>1. j \in 1 .. n /\ 1 < j
    BY <1>1
  <2> QED
    BY <1>1, <1>2, <2>1
<1> HIDE DEF q
<1>5. expected' = expected \/ expected' = q[1].seq + 1
  BY <1>1 DEF q
<1>6. ASSUME NEW j \in 1 .. n - 1
      PROVE  /\ expected' <= out'.queue[j].seq
             /\ Held => out'.queue[j].seq < enc.seq
             /\ prod.id = sid => out'.queue[j].seq < AcqStart
  <2>1. out'.queue[j] = q[j + 1] /\ j + 1 \in 2 .. n /\ j + 1 \in 1 .. n
    BY <1>1
  <2>2. expected' <= q[j + 1].seq
    BY <1>1, <1>2, <1>4, <1>5, <2>1
  <2> QED
    BY <1>2, <2>1, <2>2
<1>7. ASSUME NEW j \in 1 .. n - 1, NEW k \in 1 .. n - 1, j < k
      PROVE  out'.queue[j].seq < out'.queue[k].seq
  <2>1. j + 1 \in 1 .. n /\ k + 1 \in 1 .. n /\ j + 1 < k + 1
    BY <1>1, <1>7
  <2> QED
    BY <1>1, <1>2, <2>1
<1>8. Held => expected' <= enc.seq
  BY <1>1, <1>2, <1>5
<1>9. prod.id = sid => expected' <= AcqStart
  BY <1>1, <1>2, <1>5
<1> QED
  BY <1>1, <1>2, <1>3, <1>6, <1>7, <1>8, <1>9 DEF OrderInv

(* The oldest frame leaves the output ring and becomes the last one the    *)
(* client has: what is missing before the next one is what the next one    *)
(* says.                                                                   *)
LEMMA LossPops ==
  ASSUME TypeInv, FlowInv, Flowing, Flowing', out.queue # <<>>, out' = OutPop(out),
         UNCHANGED <<enc, sid, active, acq, prod, lost>>,
         expected' = Head(out.queue).seq + 1
  PROVE  LossInv'
<1> DEFINE q == out.queue
           n == Len(q)
           old == Head(out.queue)
<1>1. /\ n \in Nat /\ n >= 1 /\ DOMAIN q = 1 .. n /\ q # <<>>
      /\ \A j \in 1 .. n : q[j].seq \in Nat
      /\ old = q[1] /\ 1 \in 1 .. n
      /\ DOMAIN out'.queue = 1 .. n - 1 /\ out'.queue \in Seq(Frames) /\ Len(out'.queue) = n - 1
      /\ \A i \in 1 .. n - 1 : out'.queue[i] = q[i + 1] /\ i + 1 \in 1 .. n
      /\ out'.pending = {}
  <2>1. out'.queue = Tail(q) /\ out'.pending = {}
    BY DEF OutPop
  <2>2. q \in Seq(Frames) /\ q # <<>>
    BY FlowTypes
  <2>3. n \in Nat /\ n >= 1 /\ DOMAIN q = 1 .. n /\ old = q[1]
    BY <2>2, Shrinks
  <2> HIDE DEF q
  <2>4. /\ DOMAIN out'.queue = 1 .. n - 1 /\ \A i \in 1 .. n - 1 : out'.queue[i] = q[i + 1]
        /\ out'.queue \in Seq(Frames) /\ Len(out'.queue) = n - 1
    BY <2>1, <2>2, Shrinks
  <2> HIDE DEF n
  <2>5. 1 \in 1 .. n /\ \A i \in 1 .. n - 1 : i + 1 \in 1 .. n
    BY <2>3
  <2>6. \A j \in DOMAIN q : q[j].seq \in Nat
    BY FlowTypes DEF q
  <2> QED
    BY <2>1, <2>2, <2>3, <2>4, <2>5, <2>6
<1>2. /\ \A j \in 2 .. n : Follows(q[j - 1].seq + 1, q[j])
      /\ \A s \in lost.out : s < old.seq /\ s \in Nat
      /\ Held => Follows(OutEnd, EncodedFrame(enc.seq, enc.overflow))
      /\ HandEnd .. AcqStart - 1 \subseteq lost.acq
      /\ acq.overflow <=> HandEnd < AcqStart
      /\ acq.queue = <<>> => HandEnd = AcqStart
      /\ \A s \in lost.acq : s < AcqStart
  BY FlowTypes DEF FlowInv, LossInv
<1>3. OutEnd = q[n].seq + 1
  BY DEF OutEnd
<1> HIDE DEF n, old
<1>4. \A g, x : Follows(g, x)' <=> Follows(g, x)
  BY DEF Follows
<1>5. \A j \in 2 .. n : q[1].seq < q[j].seq
  <2> TAKE j \in 2 .. n
  <2>1. j \in 1 .. n /\ 1 < j
    BY <1>1
  <2> QED
    BY <1>1, <2>1 DEF FlowInv, OrderInv, Flowing
<1> HIDE DEF q
<1>6. OutEnd' = OutEnd
  <2>1. CASE n = 1
    <3>1. out'.queue = <<>>
      <4>1. out'.queue # <<>> => Len(out'.queue) >= 1
        BY <1>1, Shrinks
      <4> QED
        BY <1>1, <2>1, <4>1
    <3> QED
      BY <1>1, <1>3, <2>1, <3>1 DEF OutEnd, old
  <2>2. CASE n # 1
    <3>1. n - 1 \in 1 .. n - 1 /\ (n - 1) + 1 = n
      BY <1>1, <2>2
    <3>2. out'.queue[n - 1] = q[n] /\ out'.queue # <<>>
      <4>1. out'.queue = <<>> => Len(out'.queue) = 0
        OBVIOUS
      <4>2. n - 1 # 0
        BY <1>1, <2>2
      <4> QED
        BY <1>1, <3>1, <4>1, <4>2
    <3> QED
      BY <1>1, <1>3, <3>2 DEF OutEnd
  <2> QED
    BY <2>1, <2>2
<1>7. Held' = Held /\ AcqStart' = AcqStart /\ HandEnd' = HandEnd
  BY <1>6 DEF Held, AcqStart, Tapped, HandEnd
<1>8. ASSUME NEW j \in 2 .. Len(out'.queue)
      PROVE  Follows(out.queue[j - 1].seq + 1, out.queue[j])'
  <2>1. /\ out'.queue[j - 1] = q[j] /\ out'.queue[j] = q[j + 1] /\ j + 1 \in 2 .. n
        /\ (j + 1) - 1 = j
    <3>1. j \in 1 .. n - 1 /\ j - 1 \in 1 .. n - 1 /\ (j - 1) + 1 = j /\ j + 1 \in 2 .. n
          /\ (j + 1) - 1 = j
      BY <1>1, <1>8
    <3> QED
      BY <1>1, <3>1
  <2>2. Follows(q[(j + 1) - 1].seq + 1, q[j + 1])
    BY <1>2, <2>1
  <2> QED
    BY <1>4, <2>1, <2>2
<1>9. CASE out'.queue = <<>>
  <2>1. \A s \in lost'.out : s < expected'
    <3> TAKE s \in lost'.out
    <3>1. s < old.seq /\ s \in Nat /\ old.seq \in Nat
      BY <1>1, <1>2
    <3> QED
      BY <3>1 DEF old
  <2> QED
    BY <1>1, <1>2, <1>4, <1>6, <1>7, <1>8, <1>9, <2>1 DEF LossInv
<1>10. CASE out'.queue # <<>>
  <2> DEFINE new == Head(out'.queue)
  <2>1. new = q[2] /\ 2 \in 2 .. n /\ n >= 2
    <3>1. new = out'.queue[1] /\ Len(out'.queue) >= 1
      BY <1>1, <1>10, Shrinks
    <3>2. 1 \in 1 .. n - 1 /\ 2 \in 2 .. n /\ 1 + 1 = 2 /\ n >= 2
      BY <1>1, <3>1
    <3> QED
      BY <1>1, <3>1, <3>2
  <2>2. new.seq \in Nat /\ old.seq < new.seq /\ old.seq \in Nat /\ old.seq + 1 \in Nat
    <3>1. 2 \in 1 .. n
      BY <1>1, <2>1
    <3> QED
      BY <1>1, <1>5, <2>1, <3>1
  <2>3. Follows(old.seq + 1, new)
    <3>1. Follows(q[2 - 1].seq + 1, q[2]) /\ 2 - 1 = 1
      BY <1>2, <2>1
    <3> QED
      BY <1>1, <2>1, <3>1
  <2> HIDE DEF new
  <2>4. \A s \in lost'.out : s < new.seq
    BY <1>2, <2>2
  <2> DEFINE hole == old.seq + 1 .. new.seq - 1
  <2>5. /\ hole \subseteq lost.acq /\ new.seq \notin lost.acq
        /\ "ProducerOverflow" \in new.flags <=> old.seq + 1 < new.seq
        /\ "Discontinuity" \in new.flags <=> old.seq + 1 < new.seq
        /\ "OutputQueueDrop" \notin new.flags /\ "StreamStart" \notin new.flags
    BY <2>2, <2>3, FollowsSays
  <2>6. hole # {} <=> old.seq + 1 < new.seq
    BY <2>2, IntervalEmpty
  <2>7. hole \cap lost.out = {}
    <3>1. \A s \in hole : ~(s < old.seq)
      BY <2>2
    <3> QED
      BY <1>2, <3>1
  <2>8. expected' = old.seq + 1
    BY DEF old
  <2> HIDE DEF hole
  <2>9. hole \cap lost.acq # {} <=> old.seq + 1 < new.seq
    BY <2>5, <2>6
  <2>10. HeadTells'
    BY <1>1, <2>5, <2>6, <2>7, <2>8, <2>9 DEF HeadTells, hole, new
  <2> QED
    BY <1>1, <1>2, <1>4, <1>6, <1>7, <1>8, <1>10, <2>4, <2>10 DEF LossInv, new
<1> QED
  BY <1>9, <1>10

(* A message that joins the wire. *)
LEMMA WireAppends ==
  ASSUME TypeInv, NEW x \in WireItems, wire' = Append(wire, x)
  PROVE  /\ Len(wire) \in Nat /\ DOMAIN wire = 1 .. Len(wire)
         /\ DOMAIN wire' = 1 .. Len(wire) + 1 /\ Len(wire') = Len(wire) + 1 /\ wire' # <<>>
         /\ \A i \in 1 .. Len(wire) : wire'[i] = wire[i]
         /\ wire'[Len(wire) + 1] = x
         /\ \A i \in 1 .. Len(wire) : Missing(i)' = Missing(i)
<1>1. wire \in Seq(WireItems)
  BY FlowTypes
<1>2. /\ Len(wire) \in Nat /\ DOMAIN wire = 1 .. Len(wire)
      /\ DOMAIN wire' = 1 .. Len(wire) + 1 /\ Len(wire') = Len(wire) + 1 /\ wire' # <<>>
      /\ \A i \in 1 .. Len(wire) : wire'[i] = wire[i]
      /\ wire'[Len(wire) + 1] = x
  BY <1>1, Grows
<1>3. ASSUME NEW i \in 1 .. Len(wire) PROVE Missing(i)' = Missing(i)
  <2>1. wire'[i] = wire[i] /\ (i # 1 => i - 1 \in 1 .. Len(wire))
    BY <1>2, <1>3
  <2>2. i # 1 => wire'[i - 1] = wire[i - 1]
    BY <1>2, <2>1
  <2> QED
    BY <2>1, <2>2 DEF Missing
<1> QED
  BY <1>2, <1>3

(* Before the end frame there is nothing but data, and the wire's last     *)
(* message says what the client expects. *)
LEMMA OpenWire ==
  ASSUME TypeInv, WireShape, ~Closed
  PROVE  /\ \A i \in 1 .. Len(wire) : wire[i].kind = "data"
         /\ wire = <<>> => expected = 0
         /\ wire # <<>> => Len(wire) \in 1 .. Len(wire) /\ expected = wire[Len(wire)].seq + 1
<1>1. wire \in Seq(WireItems) /\ Len(wire) \in Nat /\ DOMAIN wire = 1 .. Len(wire)
      /\ (wire # <<>> => Len(wire) >= 1)
  BY FlowTypes, Shrinks
<1>2. wire # <<>> => wire[Len(wire)].kind = "data" /\ Len(wire) \in 1 .. Len(wire)
  BY <1>1 DEF Closed
<1>3. ASSUME NEW i \in 1 .. Len(wire) PROVE wire[i].kind = "data"
  <2>1. wire # <<>>
    BY <1>1, <1>3
  <2>2. CASE i = Len(wire)
    BY <1>2, <2>1, <2>2
  <2>3. CASE i < Len(wire)
    <3>1. \/ wire[i].kind = "data"
          \/ i + 1 = Len(wire) /\ wire[i + 1].kind = "stopped"
      BY <1>1, <2>3 DEF WireShape
    <3> QED
      BY <1>2, <2>1, <3>1
  <2> DEFINE n == Len(wire)
  <2>4. i = n \/ i < n
    <3>1. n \in Nat /\ i \in 1 .. n
      BY <1>1, <1>3
    <3> HIDE DEF n
    <3> QED
      BY <3>1
  <2> QED
    BY <2>2, <2>3, <2>4
<1> QED
  BY <1>1, <1>2, <1>3 DEF WireShape

(* The wire of a stream grows by a frame, by the end and by the stop text, *)
(* in this order.                                                          *)
LEMMA ShapeGrows ==
  ASSUME TypeInv, FlowInv, NEW x \in WireItems, wire' = Append(wire, x),
         active, UNCHANGED <<active, sid>>, x.id = sid,
         \/ /\ ~Closed /\ x.kind = "data" /\ expected <= x.seq
            /\ expected' = x.seq + 1 /\ first' = FALSE
         \/ ~Closed /\ x.kind = "end" /\ UNCHANGED <<first, expected>>
         \/ /\ Closed /\ wire[Len(wire)].kind = "end" /\ x.kind = "stopped"
            /\ UNCHANGED <<first, expected>>
  PROVE  WireShape'
<1> DEFINE n == Len(wire)
<1>1. /\ n \in Nat /\ DOMAIN wire = 1 .. n /\ DOMAIN wire' = 1 .. n + 1 /\ Len(wire') = n + 1
      /\ \A i \in 1 .. n : wire'[i] = wire[i] /\ wire[i].seq \in Nat
      /\ wire'[n + 1] = x /\ wire' # <<>> /\ x.seq \in Nat /\ expected \in Nat
  <2>1. x.seq \in Sequences
    BY DEF WireItems
  <2>2. \A s \in Sequences : s \in Nat
    BY FramesAssumption DEF Sequences
  <2> QED
    BY <2>1, <2>2, WireAppends, FlowTypes
<1>2. WireShape
  BY DEF FlowInv
<1>3. /\ \A i \in 1 .. n : wire[i].id = sid /\ (wire[i].kind = "data" => wire[i].seq < expected)
      /\ first <=> expected = 0
  BY <1>1, <1>2 DEF WireShape
<1>4. /\ expected <= expected' /\ expected' \in Nat
      /\ x.kind = "data" => x.seq < expected' /\ expected' = x.seq + 1
      /\ first' <=> expected' = 0
  BY <1>1, <1>3
<1>5. ASSUME NEW i \in 1 .. n
      PROVE  \/ wire[i].kind = "data"
             \/ i + 1 = n + 1 /\ wire[i].kind = "end" /\ x.kind = "stopped"
  <2>1. CASE ~Closed
    BY <1>2, <1>5, <2>1, OpenWire
  <2>2. CASE wire[n].kind = "end" /\ x.kind = "stopped"
    <3>1. i < n => wire[i].kind = "data" \/ (i + 1 = n /\ wire[i + 1].kind = "stopped")
      BY <1>1, <1>2, <1>5 DEF WireShape
    <3> HIDE DEF n
    <3>2. i < n \/ i = n
      BY <1>1, <1>5
    <3> QED
      BY <2>2, <3>1, <3>2
  <2> QED
    BY <2>1, <2>2
<1> HIDE DEF n
<1>6. ASSUME NEW i \in 1 .. n + 1
      PROVE  /\ wire'[i].id = sid
             /\ wire'[i].kind = "data" => wire'[i].seq < expected'
             /\ i = n + 1 /\ wire'[i].kind = "data" => expected' = wire'[i].seq + 1
             /\ i < n + 1 => \/ wire'[i].kind = "data"
                             \/ /\ i + 1 = n + 1
                                /\ wire'[i].kind = "end" /\ wire'[i + 1].kind = "stopped"
  <2>1. CASE i = n + 1
    BY <1>1, <1>4, <2>1
  <2>2. CASE i \in 1 .. n
    <3>1. wire'[i] = wire[i] /\ i # n + 1
      BY <1>1, <2>2
    <3>2. wire'[i].kind = "data" => wire'[i].seq < expected'
      BY <1>1, <1>3, <1>4, <2>2, <3>1
    <3>3. \/ wire'[i].kind = "data"
          \/ i + 1 = n + 1 /\ wire'[i].kind = "end" /\ wire'[i + 1].kind = "stopped"
      BY <1>1, <1>5, <2>2, <3>1
    <3> QED
      BY <1>3, <2>2, <3>1, <3>2, <3>3
  <2> QED
    BY <1>1, <1>6, <2>1, <2>2
<1> QED
  BY <1>1, <1>4, <1>6 DEF WireShape

(* What a stream that is still open looks like inside PumpWork. *)
LEMMA FlowsInPumpWork ==
  ASSUME TypeInv, OwnershipInv, FlowInv, http.pc \in PumpPcs
  PROVE  /\ Flowing /\ active /\ prod.id = sid
         /\ http.pc \notin {"stoppedText", "complete"} => ~Closed
BY InPumpWork DEF Flowing, FlowInv, EndInv, PumpPcs, FailPcs

(* A frame leaves, is refused, or is lost with the connection. *)
LEMMA FlowStepSendFrame ==
  ASSUME TypeInv, OwnershipInv, FlowInv, PumpSendFrame
  PROVE  FlowInv'
<1> USE DEF lifeVars, streamVars, prodVars, connVars, countVars, histVars, pumpOnly
<1> DEFINE frame == Head(out.queue)
           ready == Prepared(frame, out.pending, first, expected)
           item == Contract!Data(sid, ready.seq, ready.flags)
<1>1. /\ http.pc = "drain" /\ out.queue # <<>> /\ out' = OutPop(out)
      /\ UNCHANGED <<enc, busy, prod, acq, sid, active, stopping, streamCount, lost>>
  BY DEF PumpSendFrame
<1>2. Flowing /\ active /\ prod.id = sid /\ ~Closed
  BY <1>1, FlowsInPumpWork DEF PumpPcs
<1>3. IdInv'
  BY <1>1 DEF FlowInv, IdInv
<1>4. CASE http'.pc = "failAbort" /\ UNCHANGED <<first, expected, wire>>
  <2>1. OrderInv'
    BY <1>1, <1>2, <1>4, OrderPops
  <2>2. LossInv' /\ StartInv'
    BY <1>4 DEF LossInv, Flowing, StartInv
  <2>3. WireShape'
    BY <1>1, <1>4 DEF FlowInv, WireShape
  <2>4. EndInv'
    BY <1>1, <1>2, <1>4 DEF FlowInv, EndInv, Closed
  <2> QED
    BY <1>3, <2>1, <2>2, <2>3, <2>4 DEF FlowInv
<1>5. CASE /\ wire' = Append(wire, item) /\ first' = FALSE /\ expected' = ready.seq + 1
           /\ http' = [http EXCEPT !.drained = @ + 1]
  <2>1. http'.pc = "drain"
    BY <1>1, <1>5, FlowTypes DEF HttpType
  <2>2. ready.seq = frame.seq
    BY DEF Prepared
  <2>3. OrderInv'
    BY <1>1, <1>2, <1>5, <2>2, OrderPops
  <2>4. LossInv'
    BY <1>1, <1>2, <1>5, <2>1, <2>2, LossPops DEF Flowing
  <2>5. StartInv'
    BY <2>1 DEF StartInv
  <2>6. item \in WireItems /\ item.id = sid /\ item.kind = "data" /\ item.seq = frame.seq
    <3>1. frame \in Frames /\ out.pending \in SUBSET CarryFlags /\ sid \in 0 .. MaxStream
      BY <1>1, OutTypes, FlowTypes DEF TypeInv, TypeOK
    <3>2. ready \in Frames
      BY <3>1, FrameTypes
    <3> QED
      BY <2>2, <3>1, <3>2 DEF Frames, WireItems, Contract!Data
  <2>7. expected <= frame.seq
    <3>1. frame = out.queue[1] /\ 1 \in DOMAIN out.queue
      BY <1>1, FlowTypes, Shrinks
    <3> QED
      BY <1>2, <3>1 DEF FlowInv, OrderInv
  <2> HIDE DEF item, ready, frame
  <2>8. WireShape'
    BY <1>1, <1>2, <1>5, <2>2, <2>6, <2>7, ShapeGrows
  <2>9. ~Closed'
    <3>1. wire'[Len(wire')] = item
      BY <1>5, <2>6, WireAppends
    <3> QED
      BY <2>6, <3>1 DEF Closed
  <2>10. EndInv'
    BY <1>1, <1>2, <2>1, <2>9 DEF FlowInv, EndInv
  <2> QED
    BY <1>3, <2>3, <2>4, <2>5, <2>8, <2>10 DEF FlowInv
<1> QED
  <2>1. FailStream(TRUE) \/ FailStream(FALSE) => http'.pc = "failAbort"
    BY FlowTypes DEF FailStream, HttpAt, HttpType
  <2> QED
    BY <1>4, <1>5, <2>1 DEF PumpSendFrame

(* The end frame and the stopped text. *)
LEMMA FlowStepSendLast ==
  ASSUME TypeInv, OwnershipInv, FlowInv, PumpSendEnd \/ PumpSendStopped
  PROVE  FlowInv'
<1> USE DEF lifeVars, streamVars, prodVars, connVars, countVars, histVars, pumpOnly
<1>1. /\ UNCHANGED <<enc, busy, prod, acq, streamCount, streamVars, out, lost>>
      /\ http.pc \in {"end", "stoppedText"}
  BY DEF PumpSendEnd, PumpSendStopped
<1>2. Flowing /\ active /\ (http.pc = "end" => ~Closed)
  BY <1>1, FlowsInPumpWork DEF PumpPcs
<1>3. stopping /\ acq.queue = <<>> /\ out.queue = <<>> /\ enc.pc # "push"
  BY <1>1 DEF FlowInv, EndInv
<1>4. CASE FailStream(FALSE) /\ UNCHANGED wire
  <2>1. http'.pc = "failAbort"
    BY <1>4, FlowTypes DEF FailStream, HttpAt, HttpType
  <2>2. StartInv' /\ EndInv'
    BY <1>1, <1>3, <1>4, <2>1 DEF FlowInv, StartInv, EndInv, Closed, FailPcs
  <2> QED
    BY <1>1, <1>2, <1>4, <2>2, FlowSame DEF Held
<1>5. CASE /\ http.pc = "end" /\ http'.pc = "stoppedText"
           /\ wire' = Append(wire, Contract!End(sid, prod.next))
  <2> DEFINE item == Contract!End(sid, prod.next)
  <2>1. item \in WireItems /\ item.id = sid /\ item.kind = "end"
    BY FlowTypes DEF TypeInv, TypeOK, ProdType, WireItems, Contract!End
  <2> HIDE DEF item
  <2>2. wire' = Append(wire, item)
    BY <1>5 DEF item
  <2>3. WireShape'
    BY <1>1, <1>2, <1>5, <2>1, <2>2, ShapeGrows
  <2>4. Closed' /\ wire'[Len(wire')].kind = "end"
    BY <2>1, <2>2, WireAppends DEF Closed
  <2>5. EndInv'
    BY <1>1, <1>3, <1>5, <2>4 DEF FlowInv, EndInv
  <2>6. Held' = Held /\ Tapped' = Tapped /\ AcqStart' = AcqStart /\ OutEnd' = OutEnd
        /\ HandEnd' = HandEnd
    BY <1>1 DEF Held, Tapped, AcqStart, OutEnd, HandEnd
  <2>7. OrderInv' /\ IdInv' /\ StartInv'
    BY <1>1, <1>5, <2>6 DEF FlowInv, OrderInv, IdInv, StartInv
  <2>8. (\A f, x : Follows(f, x)' <=> Follows(f, x)) /\ HeadTells' = HeadTells
    BY <1>1 DEF Follows, HeadTells
  <2>9. LossInv'
    BY <1>1, <1>2, <2>6, <2>8 DEF FlowInv, LossInv
  <2> QED
    BY <2>3, <2>5, <2>7, <2>9 DEF FlowInv
<1>6. CASE /\ http.pc = "stoppedText" /\ http'.pc = "complete"
           /\ wire' = Append(wire, Contract!Stopped(sid))
  <2> DEFINE item == Contract!Stopped(sid)
  <2>0. Closed /\ wire[Len(wire)].kind = "end"
    BY <1>6 DEF FlowInv, EndInv
  <2>1. item \in WireItems /\ item.id = sid /\ item.kind = "stopped"
    BY FlowTypes, Defaults DEF TypeInv, TypeOK, WireItems, Contract!Stopped
  <2> HIDE DEF item
  <2>2. wire' = Append(wire, item)
    BY <1>6 DEF item
  <2>3. WireShape'
    BY <1>1, <1>2, <2>0, <2>1, <2>2, ShapeGrows
  <2>5. EndInv'
    BY <1>1, <1>3, <1>6 DEF FlowInv, EndInv
  <2>6. Held' = Held /\ Tapped' = Tapped /\ AcqStart' = AcqStart /\ OutEnd' = OutEnd
        /\ HandEnd' = HandEnd
    BY <1>1 DEF Held, Tapped, AcqStart, OutEnd, HandEnd
  <2>7. OrderInv' /\ IdInv' /\ StartInv'
    BY <1>1, <1>6, <2>6 DEF FlowInv, OrderInv, IdInv, StartInv
  <2>8. (\A f, x : Follows(f, x)' <=> Follows(f, x)) /\ HeadTells' = HeadTells
    BY <1>1 DEF Follows, HeadTells
  <2>9. LossInv'
    BY <1>1, <1>2, <2>6, <2>8 DEF FlowInv, LossInv
  <2> QED
    BY <2>3, <2>5, <2>7, <2>9 DEF FlowInv
<1> QED
  <2>1. ASSUME NEW pc, HttpAt(pc) PROVE http'.pc = pc
    BY <2>1, FlowTypes DEF HttpAt, HttpType
  <2> QED
    BY <1>4, <1>5, <1>6, <2>1 DEF PumpSendEnd, PumpSendStopped

(* Every step keeps FlowInv. *)
LEMMA FlowStep == TypeInv /\ OwnershipInv /\ FlowInv /\ [Next]_vars => FlowInv'
<1> SUFFICES ASSUME TypeInv, OwnershipInv, FlowInv, [Next]_vars PROVE FlowInv'
  OBVIOUS
<1>1. CASE UNCHANGED vars
  <2>1. UNCHANGED <<streamVars, out, prodVars, busy, enc, http, streamCount, histVars>>
    BY <1>1 DEF vars, countVars
  <2>2. StartInv' /\ EndInv'
    BY <2>1, EndMoves DEF FlowInv, StartInv, streamVars, prodVars, histVars
  <2> QED
    BY <2>1, <2>2, FlowSame DEF Flowing, Held, streamVars, prodVars, histVars
<1> QED
  BY <1>1, FlowStepEncoder, FlowStepTx, FlowStepPumpMoves, FlowStepPumpEnds, FlowStepSendFrame,
     FlowStepSendLast, FlowStepHandlers, FlowStepApp DEF Next, PumpStep

(* Where every sample of the stream is, and what each ring and each frame  *)
(* says of those that are nowhere. *)
THEOREM FlowCorrect == Spec => [](TypeInv /\ OwnershipInv /\ FlowInv)
BY TypeInit, TypeStep, OwnershipInit, OwnershipStep, FlowInit, FlowStep, PTL DEF Spec

-----------------------------------------------------------------------------
(* What the client is told *)

(* The end frame leaves no gap before it. *)
EndCounts == \A i \in DOMAIN wire : wire[i].kind = "end" => Missing(i) = {}

HonestInv == LossIsAnnounced /\ EndCounts

(* What the i-th message, a frame, has to say. *)
Announces(i) ==
  /\ Missing(i) \subseteq lost.acq \cup lost.out
  /\ ("ProducerOverflow" \in wire[i].flags) <=> (Missing(i) \cap lost.acq # {})
  /\ ("OutputQueueDrop" \in wire[i].flags) <=> (Missing(i) \cap lost.out # {})
  /\ ("Discontinuity" \in wire[i].flags) <=> (Missing(i) # {})

(* Announces is what LossIsAnnounced says of one frame. *)
LEMMA HonestSays ==
  LossIsAnnounced <=> \A i \in DOMAIN wire : wire[i].kind = "data" => Announces(i)
BY DEF LossIsAnnounced, Announces

(* A loss that happens now is of a sample the client has not been told     *)
(* about, so what was said before stays true.                              *)
LEMMA HonestStays ==
  ASSUME TypeInv, FlowInv, HonestInv, UNCHANGED wire,
         lost.acq \subseteq lost'.acq, lost.out \subseteq lost'.out,
         \A s \in lost'.acq : s \in lost.acq \/ s >= expected,
         \A s \in lost'.out : s \in lost.out \/ s >= expected
  PROVE  HonestInv'
<1>1. \A i : Missing(i)' = Missing(i)
  BY DEF Missing
<1>2. EndCounts'
  BY <1>1 DEF HonestInv, EndCounts
<1>3. ASSUME NEW i \in DOMAIN wire, wire[i].kind = "data" PROVE Announces(i)'
  <2>1. wire[i].seq < expected /\ wire[i].seq \in Nat /\ expected \in Nat
    BY <1>3, FlowTypes DEF FlowInv, WireShape
  <2>2. \A s \in Missing(i) : ~(s >= expected)
    BY <2>1 DEF Missing
  <2>3. Announces(i)
    BY <1>3, HonestSays DEF HonestInv
  <2>4. Missing(i) \cap lost'.acq = Missing(i) \cap lost.acq
        /\ Missing(i) \cap lost'.out = Missing(i) \cap lost.out
    BY <2>2
  <2>5. wire'[i] = wire[i]
    OBVIOUS
  <2> QED
    BY <1>1, <2>3, <2>4, <2>5 DEF Announces
<1>4. LossIsAnnounced'
  BY <1>3 DEF LossIsAnnounced, Announces
<1> QED
  BY <1>2, <1>4 DEF HonestInv

(* A message that joins the wire and is true itself. *)
LEMMA HonestGrows ==
  ASSUME TypeInv, HonestInv, NEW x \in WireItems, wire' = Append(wire, x), UNCHANGED lost,
         NEW m, m = Len(wire) + 1,
         x.kind = "data" => Announces(m)', x.kind = "end" => Missing(m)' = {}
  PROVE  HonestInv'
<1>1. /\ Len(wire) \in Nat /\ DOMAIN wire = 1 .. Len(wire) /\ DOMAIN wire' = 1 .. m
      /\ \A i \in 1 .. Len(wire) : wire'[i] = wire[i] /\ Missing(i)' = Missing(i)
      /\ wire'[m] = x
  BY WireAppends
<1>2. ASSUME NEW i \in 1 .. m
      PROVE  /\ wire'[i].kind = "data" => Announces(i)'
             /\ wire'[i].kind = "end" => Missing(i)' = {}
  <2>1. CASE i = m
    BY <1>1, <2>1
  <2>2. CASE i \in 1 .. Len(wire)
    <3>1. Announces(i)' <=> Announces(i)
      BY <1>1, <2>2 DEF Announces
    <3> QED
      BY <1>1, <2>2, <3>1, HonestSays DEF HonestInv, EndCounts
  <2>3. i = m \/ i \in 1 .. Len(wire)
    <3> DEFINE n == Len(wire)
    <3>1. n \in Nat /\ m = n + 1
      BY <1>1
    <3> HIDE DEF n
    <3>2. i = m \/ i \in 1 .. n
      BY <1>2, <3>1
    <3> QED
      BY <3>2 DEF n
  <2> QED
    BY <2>1, <2>2, <2>3
<1> QED
  BY <1>1, <1>2 DEF HonestInv, LossIsAnnounced, EndCounts, Announces

(* What is missing before the message that comes next.  *)
LEMMA NextMissing ==
  ASSUME TypeInv, FlowInv, ~Closed, NEW x \in WireItems, wire' = Append(wire, x),
         NEW m, m = Len(wire) + 1
  PROVE  Missing(m)' = expected .. x.seq - 1
<1>1. /\ Len(wire) \in Nat /\ wire'[m] = x
      /\ \A i \in 1 .. Len(wire) : wire'[i] = wire[i]
  BY WireAppends
<1>2. /\ wire = <<>> => expected = 0
      /\ wire # <<>> => Len(wire) \in 1 .. Len(wire) /\ expected = wire[Len(wire)].seq + 1
  BY OpenWire DEF FlowInv
<1>3. CASE wire = <<>>
  <2>1. m = 1
    BY <1>3
  <2> QED
    BY <1>1, <1>2, <1>3, <2>1 DEF Missing
<1>4. CASE wire # <<>>
  <2>1. m # 1 /\ m - 1 = Len(wire)
    BY <1>1, <1>2, <1>4
  <2>2. wire'[m - 1].seq + 1 = expected
    BY <1>1, <1>2, <1>4, <2>1
  <2> QED
    BY <1>1, <2>1, <2>2 DEF Missing
<1> QED
  BY <1>3, <1>4

(* PrepareOutputFrame makes the frame say what is missing before it. *)
LEMMA PreparedTells ==
  ASSUME TypeInv, FlowInv, Flowing, out.queue # <<>>, NEW ready,
         ready = Prepared(Head(out.queue), out.pending, first, expected),
         NEW hole, hole = expected .. ready.seq - 1
  PROVE  /\ hole \subseteq lost.acq \cup lost.out
         /\ ("ProducerOverflow" \in ready.flags) <=> (hole \cap lost.acq # {})
         /\ ("OutputQueueDrop" \in ready.flags) <=> (hole \cap lost.out # {})
         /\ ("Discontinuity" \in ready.flags) <=> (hole # {})
         /\ ("StreamStart" \in ready.flags) <=> first
<1> DEFINE head == Head(out.queue)
           said == head.flags \cup out.pending
<1>1. head.seq \in Nat /\ expected \in Nat /\ ready.seq = head.seq
  <2>1. head = out.queue[1] /\ 1 \in DOMAIN out.queue
    BY FlowTypes, Shrinks
  <2> QED
    BY <2>1, FlowTypes DEF Prepared
<1>2. /\ hole \subseteq lost.acq \cup lost.out
      /\ ("ProducerOverflow" \in said) <=> (hole \cap lost.acq # {})
      /\ ("OutputQueueDrop" \in said) <=> (hole \cap lost.out # {})
      /\ "Discontinuity" \in said => hole # {}
      /\ "StreamStart" \notin said
  BY <1>1 DEF FlowInv, LossInv, HeadTells
<1>3. hole # {} <=> expected < head.seq
  BY <1>1, IntervalEmpty
<1>4. ready.flags = said \cup (IF first THEN {"StreamStart"} ELSE {})
                         \cup (IF ~first /\ head.seq > expected THEN {"Discontinuity"} ELSE {})
                         \cup (IF said \cap CauseFlags # {} THEN {"Discontinuity"} ELSE {})
  BY DEF Prepared
<1> HIDE DEF said, head
<1>5. said \cap CauseFlags # {} <=> "ProducerOverflow" \in said \/ "OutputQueueDrop" \in said
  BY DEF CauseFlags
<1>6. /\ "ProducerOverflow" \in ready.flags <=> "ProducerOverflow" \in said
      /\ "OutputQueueDrop" \in ready.flags <=> "OutputQueueDrop" \in said
      /\ "StreamStart" \in ready.flags <=> "StreamStart" \in said \/ first
      /\ "Discontinuity" \in ready.flags
           <=> \/ "Discontinuity" \in said
               \/ ~first /\ head.seq > expected
               \/ "ProducerOverflow" \in said \/ "OutputQueueDrop" \in said
  BY <1>4, <1>5
<1>7. hole # {} => hole \cap lost.acq # {} \/ hole \cap lost.out # {}
  BY <1>2
<1>8. head.seq > expected => hole # {}
  BY <1>1, <1>3
<1> QED
  BY <1>2, <1>6, <1>7, <1>8

(* Once ReadyForStreamEnd has said yes, the next sample the sampler would  *)
(* take is the next one the client expects. *)
LEMMA EndIsExpected ==
  ASSUME TypeInv, OwnershipInv, FlowInv, http.pc = "end"
  PROVE  prod.next = expected
<1>1. Flowing
  BY FlowsInPumpWork DEF PumpPcs
<1>2. acq.queue = <<>> /\ out.queue = <<>> /\ enc.pc # "push"
  BY DEF FlowInv, EndInv
<1>3. HandEnd = AcqStart /\ HandEnd = expected
  BY <1>1, <1>2 DEF FlowInv, LossInv, HandEnd, Held, OutEnd
<1>4. AcqStart = Tapped
  BY <1>2, FlowTypes DEF AcqStart
<1>5. expected <= SeqLimit /\ SeqLimit \in Nat
  BY FramesAssumption DEF TypeInv, TypeOK, Sequences
<1>6. Tapped = expected
  BY <1>3, <1>4
<1>7. CASE prod.exhausted
  BY <1>5, <1>6, <1>7 DEF Tapped
<1>8. CASE ~prod.exhausted
  BY <1>6, <1>8 DEF Tapped
<1> QED
  BY <1>7, <1>8

(* Every step keeps what the wire says of the losses. *)
LEMMA HonestStep ==
  TypeInv /\ OwnershipInv /\ FlowInv /\ HonestInv /\ [Next]_vars => HonestInv'
<1> SUFFICES ASSUME TypeInv, OwnershipInv, FlowInv, HonestInv, [Next]_vars PROVE HonestInv'
  OBVIOUS
<1>a. expected \in Nat
  BY FlowTypes
<1>1. CASE Tap
  <2>1. active /\ prod.id = sid
    BY <1>1 DEF Tap, OwnershipInv, ProducerInv, OwnerInv, Aborted
  <2>2. Len(acq.queue) = AcqDepth => Head(acq.queue) >= expected
    <3>1. Consecutive(acq.queue, AcqStart) /\ expected <= AcqStart /\ AcqStart \in Int
      BY <2>1, FlowTypes DEF FlowInv, OrderInv
    <3>2. Len(acq.queue) = AcqDepth => acq.queue # <<>> /\ acq.queue \in Seq(Sequences)
      BY FramesAssumption, FlowTypes
    <3>3. Len(acq.queue) = AcqDepth => Head(acq.queue) = AcqStart
      BY <3>1, <3>2, ConsecutiveShrinks
    <3> QED
      BY <1>a, <3>1, <3>3
  <2>3. /\ UNCHANGED wire
        /\ lost'.out = lost.out /\ lost.acq \subseteq lost'.acq
        /\ \A s \in lost'.acq : s \in lost.acq \/ s >= expected
    BY <1>1, <2>2, FlowTypes DEF Tap, LostType
  <2> QED
    BY <2>3, HonestStays
<1>2. CASE EncoderPush
  <2>1. UNCHANGED wire
    BY <1>2 DEF EncoderPush, encoderOnly
  <2>2. CASE UNCHANGED lost
    BY <2>1, <2>2, HonestStays
  <2>3. CASE ~ UNCHANGED lost
    <3>1. /\ active /\ Len(out.queue) = OutDepth
          /\ lost' = [lost EXCEPT !.out = @ \cup {Head(out.queue).seq}]
      BY <1>2, <2>3 DEF EncoderPush
    <3>2. out.queue # <<>> /\ out.queue \in Seq(Frames)
      BY <3>1, FramesAssumption, FlowTypes
    <3>3. Head(out.queue) = out.queue[1] /\ 1 \in DOMAIN out.queue
      BY <3>2, Shrinks
    <3>4. Head(out.queue).seq \in Nat /\ expected <= Head(out.queue).seq
      BY <3>1, <3>3, FlowTypes DEF FlowInv, OrderInv
    <3>5. /\ lost'.acq = lost.acq /\ lost'.out = lost.out \cup {Head(out.queue).seq}
      BY <3>1, FlowTypes DEF LostType
    <3> QED
      BY <1>a, <2>1, <3>4, <3>5, HonestStays
  <2> QED
    BY <2>2, <2>3
<1>3. CASE PumpSendFrame /\ wire' # wire
  <2> DEFINE ready == Prepared(Head(out.queue), out.pending, first, expected)
             item == Contract!Data(sid, ready.seq, ready.flags)
             m == Len(wire) + 1
  <2>1. http.pc = "drain" /\ out.queue # <<>> /\ wire' = Append(wire, item) /\ UNCHANGED lost
    BY <1>3 DEF PumpSendFrame
  <2>2. Flowing /\ ~Closed
    BY <2>1, FlowsInPumpWork DEF PumpPcs
  <2>3. /\ item \in WireItems /\ item.seq = ready.seq /\ item.flags = ready.flags
        /\ item.kind = "data"
    <3>1. Head(out.queue) \in Frames /\ out.pending \in SUBSET CarryFlags /\ sid \in 0 .. MaxStream
      BY <2>1, OutTypes, FlowTypes DEF TypeInv, TypeOK
    <3>2. ready \in Frames
      BY <3>1, FrameTypes
    <3> QED
      BY <3>1, <3>2 DEF Frames, WireItems, Contract!Data
  <2> HIDE DEF item
  <2>4. PICK k : k = m
    OBVIOUS
  <2>5. Missing(k)' = expected .. ready.seq - 1 /\ wire'[k] = item
    BY <2>1, <2>2, <2>3, <2>4, NextMissing, WireAppends
  <2> HIDE DEF ready
  <2>6. Announces(k)'
    <3> DEFINE hole == expected .. ready.seq - 1
    <3>1. /\ hole \subseteq lost.acq \cup lost.out
          /\ ("ProducerOverflow" \in ready.flags) <=> (hole \cap lost.acq # {})
          /\ ("OutputQueueDrop" \in ready.flags) <=> (hole \cap lost.out # {})
          /\ ("Discontinuity" \in ready.flags) <=> (hole # {})
      BY <2>1, <2>2, PreparedTells DEF ready
    <3> HIDE DEF hole
    <3>2. Missing(k)' = hole /\ wire'[k].flags = ready.flags
      BY <2>3, <2>5 DEF hole
    <3> QED
      BY <2>1, <3>1, <3>2 DEF Announces
  <2> QED
    BY <2>1, <2>3, <2>4, <2>6, HonestGrows
<1>4. CASE PumpSendEnd /\ wire' # wire
  <2> DEFINE item == Contract!End(sid, prod.next)
  <2>1. http.pc = "end" /\ wire' = Append(wire, item) /\ UNCHANGED lost
    BY <1>4 DEF PumpSendEnd
  <2>2. ~Closed
    BY <2>1, FlowsInPumpWork DEF PumpPcs
  <2>3. item \in WireItems /\ item.seq = prod.next /\ item.kind = "end"
    BY FlowTypes DEF TypeInv, TypeOK, ProdType, WireItems, Contract!End
  <2> HIDE DEF item
  <2>4. PICK k : k = Len(wire) + 1
    OBVIOUS
  <2>5. Missing(k)' = expected .. prod.next - 1
    BY <2>1, <2>2, <2>3, <2>4, NextMissing
  <2>6. prod.next = expected
    BY <2>1, EndIsExpected
  <2>7. Missing(k)' = {}
    BY <1>a, <2>5, <2>6, IntervalEmpty
  <2> QED
    BY <2>1, <2>3, <2>4, <2>7, HonestGrows
<1>5. CASE PumpSendStopped /\ wire' # wire
  <2> DEFINE item == Contract!Stopped(sid)
  <2>1. wire' = Append(wire, item) /\ UNCHANGED lost
    BY <1>5 DEF PumpSendStopped
  <2>2. item \in WireItems /\ item.kind = "stopped"
    BY FlowTypes, Defaults DEF TypeInv, TypeOK, WireItems, Contract!Stopped
  <2>3. PICK k : k = Len(wire) + 1
    OBVIOUS
  <2> HIDE DEF item
  <2> QED
    BY <2>1, <2>2, <2>3, HonestGrows
<1>6. CASE StartStream /\ wire' # wire
  <2>1. wire' = <<>>
    BY <1>6 DEF StartStream, histVars
  <2> QED
    BY <2>1 DEF HonestInv, LossIsAnnounced, EndCounts
<1>7. CASE UNCHANGED histVars
  BY <1>7, HonestStays DEF histVars
<1>8. \/ Tap \/ EncoderPush \/ UNCHANGED histVars
      \/ PumpSendFrame \/ PumpSendEnd \/ PumpSendStopped \/ StartStream
  BY DEF Next, Encoder, EncoderClaim, EncoderPop, EncoderRelease, encoderOnly,
      Tx, TxLatch, RequestPumpQueued, RequestPumpRejected, RequestPumpDeclined, txOnly,
      PumpBegin, PumpStep, PumpDrained, PumpSnapshot, PumpReady, CompleteOrderlyStop,
      PumpFinish, FailStreamAbort, FailStreamClear, pumpOnly, Client, OpenOwner,
      RequestOrderlyStop, ClientGone, CloseWork, HandlerStep, StartProducer,
      CommitOrderlyStop, CloseAbort, CloseClear, handlerOnly, closeOnly, App,
      CommitServerRunning, StopServer, StopServerAbort, StopServerClear, MarkStopFailed,
      HttpdJoined, MarkStopSucceeded, appOnly, histVars, vars
<1>9. (PumpSendFrame \/ PumpSendEnd \/ PumpSendStopped \/ StartStream) /\ wire' = wire
        => UNCHANGED histVars \/ wire' = <<>>
  BY DEF PumpSendFrame, PumpSendEnd, PumpSendStopped, StartStream, histVars
<1>10. wire' = <<>> => HonestInv'
  BY DEF HonestInv, LossIsAnnounced, EndCounts
<1> QED
  BY <1>1, <1>2, <1>3, <1>4, <1>5, <1>6, <1>7, <1>8, <1>9, <1>10

(* What the client is told of losses and of the end is true. *)
THEOREM WireHonest == Spec => []WireIsHonest
<1>1. Init => HonestInv
  BY DEF Init, HonestInv, LossIsAnnounced, EndCounts
<1>2. TypeInv /\ FlowInv /\ HonestInv => WireIsHonest
  <2> SUFFICES ASSUME TypeInv, FlowInv, HonestInv PROVE NothingLeftBehind
    BY DEF WireIsHonest, HonestInv
  <2> SUFFICES ASSUME NEW i \in DOMAIN wire, wire[i].kind = "end"
               PROVE  /\ Missing(i) = {}
                      /\ i < Len(wire) => i + 1 = Len(wire) /\ wire[i + 1].kind = "stopped"
                      /\ (active /\ wire[i].id = sid) =>
                           acq.queue = <<>> /\ out.queue = <<>> /\ enc.pc # "push"
    BY DEF NothingLeftBehind
  <2>1. Missing(i) = {}
    BY DEF HonestInv, EndCounts
  <2>2. i < Len(wire) => i + 1 = Len(wire) /\ wire[i + 1].kind = "stopped"
    BY DEF FlowInv, WireShape
  <2>3. Closed
    <3>1. ~Closed => \A j \in 1 .. Len(wire) : wire[j].kind = "data"
      BY OpenWire DEF FlowInv
    <3>2. i \in 1 .. Len(wire)
      BY FlowTypes
    <3> QED
      BY <3>1, <3>2
  <2> QED
    BY <2>1, <2>2, <2>3 DEF FlowInv, EndInv
<1> QED
  BY <1>1, <1>2, HonestStep, TypeInit, TypeStep, OwnershipInit, OwnershipStep, FlowInit, FlowStep,
     PTL DEF Spec

-----------------------------------------------------------------------------
(* The pipeline implements the stream's contract *)

(* The contract's view of an open wire. *)
LEMMA ContractView ==
  ASSUME TypeInv, FlowInv
  PROVE  /\ ~Closed => /\ Contract!Open /\ Contract!NextExpected = expected
                       /\ wire = <<>> <=> first
         /\ wire # <<>> => Contract!Kind(Len(wire)) = wire[Len(wire)].kind
<1>1. wire \in Seq(WireItems) /\ (wire # <<>> => Len(wire) \in DOMAIN wire)
      /\ Len(<<>>) \notin DOMAIN <<>>
  BY FlowTypes
<1>2. wire # <<>> => Contract!Kind(Len(wire)) = wire[Len(wire)].kind
  BY <1>1 DEF Contract!Kind
<1>3. ASSUME ~Closed PROVE Contract!Open
  <2>1. CASE wire = <<>>
    BY <1>1, <2>1 DEF Contract!Open, Contract!Kind
  <2>2. CASE wire # <<>>
    BY <1>2, <1>3, <2>2 DEF Contract!Open, Closed
  <2> QED
    BY <2>1, <2>2
<1>4. ASSUME ~Closed
      PROVE  Contract!NextExpected = expected /\ (wire = <<>> <=> first)
  <2>1. /\ wire = <<>> => expected = 0
        /\ wire # <<>> => Len(wire) \in DOMAIN wire /\ expected = wire[Len(wire)].seq + 1
    BY <1>1, <1>4, OpenWire DEF FlowInv
  <2>2. wire # <<>> => expected # 0
    BY <2>1, FlowTypes, SMTT(30)
  <2>3. first <=> expected = 0
    BY DEF FlowInv, WireShape
  <2> QED
    BY <2>1, <2>2, <2>3, FlowTypes DEF Contract!NextExpected
<1> QED
  BY <1>2, <1>3, <1>4

(* What ends a stream for the contract. *)
LEMMA ContractEnds ==
  ASSUME TypeInv, OwnershipInv, active' = FALSE, UNCHANGED wire
  PROVE  Contract!Finish \/ UNCHANGED Contract!contractVars
<1>1. active \in BOOLEAN /\ (active => sid # 0)
  BY FlowTypes DEF OwnershipInv, OwnerInv
<1> QED
  BY <1>1 DEF Contract!Finish, Contract!contractVars

(* Every step is a step of the contract or leaves what it sees alone. *)
LEMMA ContractStep ==
  TypeInv /\ OwnershipInv /\ FlowInv /\ [Next]_vars => [Contract!ContractNext]_(Contract!contractVars)
<1> SUFFICES ASSUME TypeInv, OwnershipInv, FlowInv, [Next]_vars
             PROVE  Contract!ContractNext \/ UNCHANGED Contract!contractVars
  OBVIOUS
<1>a. active \in BOOLEAN /\ (active <=> sid # 0) /\ (stopping => active) /\ stopping \in BOOLEAN
  BY FlowTypes DEF OwnershipInv, OwnerInv
<1>1. CASE UNCHANGED <<active, sid, stopping, wire>>
  BY <1>1 DEF Contract!contractVars
<1>2. CASE StartStream /\ active' # active
  <2>1. /\ active' = TRUE /\ sid' = streamCount + 1 /\ wire' = <<>> /\ UNCHANGED stopping
        /\ streamCount < MaxStream
    BY <1>2 DEF StartStream, streamVars
  <2>2. ~active /\ ~stopping
    BY <1>2, <1>a, <2>1
  <2>3. streamCount + 1 \in 1 .. MaxStream
    BY <2>1, PipelineAssumption, FlowTypes, SMTT(30)
  <2>4. Contract!Start(streamCount + 1)
    BY <2>1, <2>2 DEF Contract!Start
  <2> QED
    BY <2>3, <2>4 DEF Contract!ContractNext
<1>3. CASE PumpSendFrame /\ wire' # wire
  <2> DEFINE ready == Prepared(Head(out.queue), out.pending, first, expected)
             item == Contract!Data(sid, ready.seq, ready.flags)
  <2>1. /\ http.pc = "drain" /\ out.queue # <<>> /\ wire' = Append(wire, item)
        /\ UNCHANGED <<active, stopping, sid>>
    BY <1>3 DEF PumpSendFrame
  <2>2. Flowing /\ ~Closed /\ active
    BY <2>1, FlowsInPumpWork DEF PumpPcs
  <2>3. ready.seq \in Sequences /\ ready.flags \in SUBSET Flags
    <3>1. Head(out.queue) \in Frames /\ out.pending \in SUBSET CarryFlags
      BY <2>1, OutTypes, FlowTypes
    <3>2. ready \in Frames
      BY <3>1, FrameTypes
    <3> QED
      BY <3>2 DEF Frames
  <2>4. expected <= ready.seq
    <3>1. Head(out.queue) = out.queue[1] /\ 1 \in DOMAIN out.queue
      BY <2>1, FlowTypes, Shrinks
    <3> QED
      BY <2>2, <3>1 DEF FlowInv, OrderInv, Prepared
  <2> HIDE DEF ready
  <2>5. /\ "StreamStart" \in ready.flags <=> first
        /\ "Discontinuity" \in ready.flags <=> expected < ready.seq
    <3>1. ready.seq \in Nat /\ expected \in Nat
      BY <2>3, FlowTypes, FramesAssumption DEF Sequences
    <3>2. PICK hole : hole = expected .. ready.seq - 1
      OBVIOUS
    <3> QED
      BY <2>1, <2>2, <3>1, <3>2, PreparedTells, IntervalEmpty DEF ready
  <2>6. Contract!Open /\ Contract!NextExpected = expected /\ (wire = <<>> <=> first)
    BY <2>2, ContractView
  <2>7. Contract!Deliver(ready.seq, ready.flags)
    <3>1. ready.seq >= expected /\ (ready.seq > expected <=> expected < ready.seq)
      BY <2>3, <2>4, FlowTypes, FramesAssumption DEF Sequences
    <3> QED
      BY <1>a, <2>1, <2>2, <2>5, <2>6, <3>1 DEF Contract!Deliver
  <2> QED
    BY <2>3, <2>7 DEF Contract!ContractNext
<1>4. CASE PumpSendEnd /\ wire' # wire
  <2>1. /\ http.pc = "end" /\ wire' = Append(wire, Contract!End(sid, prod.next))
        /\ UNCHANGED <<active, stopping, sid>>
    BY <1>4 DEF PumpSendEnd, streamVars
  <2>2. active /\ ~Closed
    BY <2>1, FlowsInPumpWork DEF PumpPcs
  <2>3. stopping
    BY <2>1 DEF FlowInv, EndInv
  <2>4. prod.next = Contract!NextExpected /\ Contract!Open
    BY <2>1, <2>2, EndIsExpected, ContractView
  <2>5. Contract!SendEnd
    BY <1>a, <2>1, <2>2, <2>3, <2>4 DEF Contract!SendEnd
  <2> QED
    BY <2>5 DEF Contract!ContractNext
<1>5. CASE PumpSendStopped /\ wire' # wire
  <2>1. /\ http.pc = "stoppedText" /\ wire' = Append(wire, Contract!Stopped(sid))
        /\ UNCHANGED <<active, stopping, sid>>
    BY <1>5 DEF PumpSendStopped, streamVars
  <2>2. active
    BY <2>1, FlowsInPumpWork DEF PumpPcs
  <2>3. wire # <<>> /\ wire[Len(wire)].kind = "end"
    BY <2>1 DEF FlowInv, EndInv, Closed
  <2>4. Contract!SendStopped
    BY <1>a, <2>1, <2>2, <2>3, ContractView DEF Contract!SendStopped
  <2> QED
    BY <2>4 DEF Contract!ContractNext
<1>6. CASE CommitOrderlyStop
  <2>1. http.pc = "commitStop" /\ stopping' = TRUE /\ UNCHANGED <<active, sid, wire>>
    BY <1>6 DEF CommitOrderlyStop, handlerOnly, histVars
  <2>2. active /\ ~stopping
    BY <2>1 DEF OwnershipInv, StreamInv
  <2>3. Contract!AcceptStop
    BY <1>a, <2>1, <2>2 DEF Contract!AcceptStop
  <2> QED
    BY <2>3 DEF Contract!ContractNext
<1>7. CASE OpenOwner \/ CompleteOrderlyStop \/ FailStreamClear \/ CloseClear \/ StopServerClear
  <2>1. UNCHANGED wire
    BY <1>7 DEF OpenOwner, CompleteOrderlyStop, FailStreamClear, CloseClear, StopServerClear,
       handlerOnly, closeOnly, appOnly, histVars
  <2>2. active' = FALSE \/ UNCHANGED <<active, sid, stopping, wire>>
    BY <1>7, <2>1 DEF OpenOwner, CompleteOrderlyStop, FailStreamClear, CloseClear, StopServerClear,
       ClearPipeline, ClearStream, streamVars
  <2> QED
    BY <1>1, <2>1, <2>2, ContractEnds DEF Contract!ContractNext
<1>8. CASE \/ (PumpSendFrame \/ PumpSendEnd \/ PumpSendStopped) /\ wire' = wire
           \/ StartStream /\ active' = active
  <2>1. UNCHANGED <<active, sid, stopping, wire>>
    <3>1. CASE (PumpSendFrame \/ PumpSendEnd \/ PumpSendStopped) /\ wire' = wire
      BY <3>1 DEF PumpSendFrame, PumpSendEnd, PumpSendStopped, streamVars
    <3>2. CASE StartStream /\ active' = active
      BY <1>a, <3>2 DEF StartStream, CanStart, streamVars, histVars
    <3> QED
      BY <1>8, <3>1, <3>2
  <2> QED
    BY <1>1, <2>1
<1>9. CASE \/ Tap \/ Encoder \/ Tx \/ PumpBegin \/ PumpDrained \/ PumpSnapshot \/ PumpReady
           \/ PumpFinish \/ FailStreamAbort \/ UNCHANGED vars
  <2>1. UNCHANGED <<active, sid, stopping, wire>>
    BY <1>9
    DEF Tap, Encoder, EncoderClaim, EncoderPop, EncoderPush, EncoderRelease, encoderOnly,
        Tx, TxLatch, RequestPumpQueued, RequestPumpRejected, RequestPumpDeclined, txOnly,
        PumpBegin, PumpDrained, PumpSnapshot, PumpReady, PumpFinish, FailStreamAbort,
        streamVars, histVars, vars
  <2> QED
    BY <1>1, <2>1
<1>10. CASE \/ RequestOrderlyStop \/ ClientGone \/ CloseWork \/ StartProducer \/ CloseAbort
            \/ CommitServerRunning \/ StopServer \/ StopServerAbort \/ MarkStopFailed
            \/ HttpdJoined \/ MarkStopSucceeded
  <2>1. UNCHANGED <<active, sid, stopping, wire>>
    BY <1>10
    DEF RequestOrderlyStop, ClientGone, CloseWork, StartProducer, CloseAbort, handlerOnly,
        closeOnly, CommitServerRunning, StopServer, StopServerAbort, MarkStopFailed,
        HttpdJoined, MarkStopSucceeded, appOnly, streamVars, histVars
  <2> QED
    BY <1>1, <2>1
<1> QED
  BY <1>2, <1>3, <1>4, <1>5, <1>6, <1>7, <1>8, <1>9, <1>10
  DEF Next, PumpStep, Client, HandlerStep, App

(* Whatever the tasks, rings, locks and failures do in between, what the   *)
(* client sees is a behaviour of StreamContract.                           *)
THEOREM ContractKept == Spec => ImplementsContract
<1>1. Init => Contract!ContractInit
  BY DEF Init, Contract!ContractInit
<1> QED
  BY <1>1, ContractStep, TypeInit, TypeStep, OwnershipInit, OwnershipStep, FlowInit, FlowStep, PTL
  DEF Spec, ImplementsContract, Contract!ContractSpec
=============================================================================
