--------------------------- MODULE StreamContract ---------------------------
(***************************************************************************)
(* What one live-measurement stream promises the browser, with no tasks,   *)
(* queues or locks: a run of frames with rising sequence numbers in which  *)
(* every hole is flagged, closed, when the stop was orderly, by one end    *)
(* frame that counts every sample and one stream_stopped text.  A stream   *)
(* may also be cut off at any point; nothing follows the cut.              *)
(***************************************************************************)
EXTENDS Naturals, Sequences

CONSTANTS StreamIds,    \* the ids streams are started with
          SeqNumbers,   \* the sequence numbers of samples
          FrameFlags    \* the flags a frame may carry

VARIABLES
  stream,     \* the id of the stream that runs, 0 when none does
  ending,     \* its orderly stop was accepted
  sent        \* what the client was sent since the latest start

contractVars == <<stream, ending, sent>>

Data(id, seq, flags) == [kind |-> "data", id |-> id, seq |-> seq, flags |-> flags]
End(id, next)        == [kind |-> "end", id |-> id, seq |-> next, flags |-> {"StreamEnd"}]
Stopped(id)          == [kind |-> "stopped", id |-> id, seq |-> 0, flags |-> {}]

Kind(i) == IF i \in DOMAIN sent THEN sent[i].kind ELSE "none"

(* The first sequence number the client has not been told about. *)
NextExpected == IF sent = <<>> THEN 0 ELSE sent[Len(sent)].seq + 1

Open == Kind(Len(sent)) \in {"none", "data"}

ContractInit == stream = 0 /\ ending = FALSE /\ sent = <<>>

Start(id) ==
  /\ stream = 0
  /\ stream' = id
  /\ ending' = FALSE
  /\ sent' = <<>>

Deliver(seq, flags) ==
  /\ stream # 0 /\ Open
  /\ seq >= NextExpected
  /\ ("StreamStart" \in flags) <=> (sent = <<>>)
  /\ ("Discontinuity" \in flags) <=> (seq > NextExpected)
  /\ sent' = Append(sent, Data(stream, seq, flags))
  /\ UNCHANGED <<stream, ending>>

AcceptStop ==
  /\ stream # 0 /\ ~ending
  /\ ending' = TRUE
  /\ UNCHANGED <<stream, sent>>

SendEnd ==
  /\ stream # 0 /\ ending /\ Open
  /\ sent' = Append(sent, End(stream, NextExpected))
  /\ UNCHANGED <<stream, ending>>

SendStopped ==
  /\ stream # 0 /\ Kind(Len(sent)) = "end"
  /\ sent' = Append(sent, Stopped(stream))
  /\ UNCHANGED <<stream, ending>>

(* Completion and every abrupt end look alike: the stream is no more. *)
Finish ==
  /\ stream # 0
  /\ stream' = 0
  /\ ending' = FALSE
  /\ UNCHANGED sent

ContractNext ==
  \/ \E id \in StreamIds : Start(id)
  \/ \E seq \in SeqNumbers, flags \in SUBSET FrameFlags : Deliver(seq, flags)
  \/ AcceptStop
  \/ SendEnd
  \/ SendStopped
  \/ Finish

ContractSpec == ContractInit /\ [][ContractNext]_contractVars
=============================================================================
