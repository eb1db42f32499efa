------------------------------ MODULE D2BFrames -----------------------------
(***************************************************************************)
(* The two bounded queues between the sampler and the socket, and the      *)
(* flags that tell the client what they lost: AcquisitionRing (samples,    *)
(* drop oldest), OutputRing (encoded frames, drop oldest) and              *)
(* PrepareOutputFrame.  A ring is a record with its queue, oldest first;   *)
(* a sample is its sequence number and a frame is its sequence number and  *)
(* the set of its flags (the payload never decides anything).              *)
(***************************************************************************)
EXTENDS Naturals, Sequences

CONSTANTS
  AcqDepth,   \* kAcquisitionQueueDepth (64)
  OutDepth,   \* kOutputQueueDepth (32)
  SeqLimit    \* numeric_limits<uint64_t>::max(), the last sequence number

ASSUME FramesAssumption ==
  /\ AcqDepth \in Nat \ {0}
  /\ OutDepth \in Nat \ {0}
  /\ SeqLimit \in Nat

(* SourcePaused and TimebaseReset exist in the wire format; no code in the *)
(* repository sets them.                                                   *)
CauseFlags == {"ProducerOverflow", "OutputQueueDrop"}
Flags == CauseFlags \cup {"Discontinuity", "StreamStart"}
CarryFlags == CauseFlags \cup {"Discontinuity"}

Sequences == 0 .. SeqLimit
Frames == [seq : Sequences, flags : SUBSET Flags]
NoFrame == [seq |-> 0, flags |-> {}]

-----------------------------------------------------------------------------
(* AcquisitionRing *)

AcqRing == [queue : Seq(Sequences), overflow : BOOLEAN]
EmptyAcq == [queue |-> <<>>, overflow |-> FALSE]

(* pushDropOldest: a full ring gives up its oldest sample. *)
AcqPush(r, seq) ==
  IF Len(r.queue) = AcqDepth
  THEN [queue |-> Append(Tail(r.queue), seq), overflow |-> TRUE]
  ELSE [r EXCEPT !.queue = Append(@, seq)]

\* Plausible slip: the overflow is reported again with every sample.
AcqPopKeepsOverflow(r) == [r EXCEPT !.queue = Tail(@)]

(* pop hands out the overflow that precedes the sample and forgets it. *)
AcqPop(r) == [queue |-> Tail(r.queue), overflow |-> FALSE]

-----------------------------------------------------------------------------
(* OutputRing *)

OutRing == [queue : Seq(Frames), pending : SUBSET CarryFlags]
EmptyOut == [queue |-> <<>>, pending |-> {}]

\* Plausible slip: the flags of the dropped frame are dropped with it.
OutPushLosesCarry(r, frame) ==
  IF Len(r.queue) = OutDepth
  THEN [queue   |-> Append(Tail(r.queue), frame),
        pending |-> r.pending \cup {"Discontinuity", "OutputQueueDrop"}]
  ELSE [r EXCEPT !.queue = Append(@, frame)]

(* pushDropOldest: what the dropped frame had to say is said by the next   *)
(* frame that leaves.                                                      *)
OutPush(r, frame) ==
  IF Len(r.queue) = OutDepth
  THEN [queue   |-> Append(Tail(r.queue), frame),
        pending |-> r.pending \cup (Head(r.queue).flags \cap CarryFlags)
                              \cup {"Discontinuity", "OutputQueueDrop"}]
  ELSE [r EXCEPT !.queue = Append(@, frame)]

OutPop(r) == [queue |-> Tail(r.queue), pending |-> {}]

OutClear(r) == EmptyOut

-----------------------------------------------------------------------------
(* The frame EncoderTask writes for a sample it popped. *)
EncodedFrame(seq, overflow) ==
  [seq |-> seq, flags |-> IF overflow THEN {"Discontinuity", "ProducerOverflow"} ELSE {}]

(* PrepareOutputFrame: what it refuses, and what it sends otherwise. *)
PrepareRejects(frame, first, expected) ==
  \/ ~first /\ frame.seq < expected
  \/ frame.seq = SeqLimit

Prepared(frame, pending, first, expected) ==
  LET said   == frame.flags \cup pending
      start  == IF first THEN {"StreamStart"} ELSE {}
      gap    == IF ~first /\ frame.seq > expected THEN {"Discontinuity"} ELSE {}
      caused == IF said \cap CauseFlags # {} THEN {"Discontinuity"} ELSE {}
  IN  [seq |-> frame.seq, flags |-> said \cup start \cup gap \cup caused]
=============================================================================
