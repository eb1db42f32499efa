-------------------------- MODULE ObservationRing --------------------------
(***************************************************************************)
(* Signed-current observation (signed_current_observation.h and            *)
(* signed_current_observation_device.cpp), a build for qualification.      *)
(*                                                                         *)
(* After every sample the measurement daemon publishes a record into a     *)
(* ring that has one producer and one consumer and no lock; a task of the  *)
(* lowest priority pops the records and logs each as a line.  A record is  *)
(* known here by its sequence number: what else it carries is written to   *)
(* the slot and copied from it together with the number.                   *)
(*                                                                         *)
(* The drop counter is read with memory_order_relaxed: the drain task may  *)
(* see any value between the last it is sure of and the present one.  It   *)
(* is sure of what the producer had counted when it stored, with release,  *)
(* the tail the drain task loads with acquire.                             *)
(***************************************************************************)
EXTENDS Integers, Sequences

CONSTANTS
  Capacity,    \* kQueueCapacity (32)
  Indexes,     \* the range of the indexes (2^32)
  CounterMax,  \* the last value of the drop counter (2^32 - 1)
  SequenceMax  \* the last sequence number (2^64 - 1)

(* The slot of an index is its remainder by Capacity.  When the index wraps *)
(* that must go on where it was, which the static_asserts of the ring do    *)
(* not demand and the one capacity in use meets.                           *)
ASSUME CapacityAssumption ==
  /\ Capacity \in Nat \ {0}
  /\ Indexes \in Nat /\ Indexes > Capacity
  /\ Indexes % Capacity = 0
ASSUME MaxAssumption == CounterMax \in Nat /\ SequenceMax \in Nat

VARIABLES
  availability,  \* _availability
  slots,         \* _records: the sequence number in each
  head, tail,    \* _head, _tail
  counter,       \* _droppedRecordCount
  released,      \* its value at the last store of the tail
  nextSequence,  \* _next_sequence
  exhausted,     \* _sequence_exhausted
  pc,            \* where the daemon is in Publish
  notified,      \* the notification of the drain task
  drain,         \* where the drain task is
  record,        \* the record it has popped
  known,         \* the count of drops it is sure of
  dropped,       \* droppedRecordCount
  log            \* the lines it has written

ring == <<slots, head, tail, counter, released>>
daemon == <<nextSequence, exhausted, pc>>
task == <<drain, record, known, dropped, log>>
vars == <<availability, ring, daemon, notified, task>>

Distance(to, from) == IF to >= from THEN to - from ELSE to - from + Indexes
Following(index) == IF index = Indexes - 1 THEN 0 ELSE index + 1
Ahead(index, k) == IF index + k < Indexes THEN index + k ELSE index + k - Indexes
Slot(index) == index % Capacity
Queued == Distance(tail, head)

Init ==
  /\ availability = "NotStarted"
  /\ slots = [i \in 0..Capacity - 1 |-> 0]
  /\ head = 0 /\ tail = 0
  /\ counter = 0 /\ released = 0
  /\ nextSequence = 0 /\ exhausted = FALSE
  /\ pc = "idle"
  /\ notified = FALSE
  /\ drain = "none" /\ record = 0 /\ known = 0 /\ dropped = 0
  /\ log = <<>>

(* Start, which the HAL calls before it creates the daemon.                *)
Start ==
  /\ availability = "NotStarted"
  /\ \/ availability' = "Available" /\ drain' = "waiting"
     \/ availability' = "Unavailable" /\ drain' = drain
  /\ UNCHANGED <<ring, daemon, notified, record, known, dropped, log>>

-----------------------------------------------------------------------------
(* The daemon, in Publish and tryPush.  With the sequence exhausted, or no *)
(* drain task, it does nothing.                                            *)

(* Fault: one record more than there are slots.                            *)
LoadIndexesPast ==
  /\ pc = "idle"
  /\ availability = "Available" /\ ~exhausted
  /\ pc' = IF Queued > Capacity THEN "full" ELSE "writing"
  /\ UNCHANGED <<availability, ring, nextSequence, exhausted, notified, task>>

LoadIndexes ==
  /\ pc = "idle"
  /\ availability = "Available" /\ ~exhausted
  /\ pc' = IF Queued = Capacity THEN "full" ELSE "writing"
  /\ UNCHANGED <<availability, ring, nextSequence, exhausted, notified, task>>

CountDrop ==
  /\ pc = "full"
  /\ counter' = IF counter # CounterMax THEN counter + 1 ELSE counter
  /\ pc' = "refused"
  /\ UNCHANGED <<availability, slots, head, tail, released, nextSequence, exhausted, notified, task>>

FinishWrite ==
  /\ pc = "writing"
  /\ slots' = [slots EXCEPT ![Slot(tail)] = nextSequence]
  /\ pc' = "written"
  /\ UNCHANGED <<availability, head, tail, counter, released, nextSequence, exhausted, notified, task>>

(* Fault: the tail is stored without release.                              *)
StoreTailRelaxed ==
  /\ pc = "written"
  /\ tail' = Following(tail)
  /\ pc' = "stored"
  /\ UNCHANGED <<availability, slots, head, counter, released, nextSequence, exhausted, notified, task>>

StoreTail ==
  /\ pc = "written"
  /\ tail' = Following(tail)
  /\ released' = counter
  /\ pc' = "stored"
  /\ UNCHANGED <<availability, slots, head, counter, nextSequence, exhausted, notified, task>>

(* Fault: the sequence wraps when it is exhausted.                         *)
AdvanceSequenceWraps ==
  /\ pc \in {"stored", "refused"}
  /\ nextSequence' = IF nextSequence = SequenceMax THEN 0 ELSE nextSequence + 1
  /\ pc' = IF pc = "stored" THEN "notify" ELSE "idle"
  /\ UNCHANGED <<availability, ring, exhausted, notified, task>>

AdvanceSequence ==
  /\ pc \in {"stored", "refused"}
  /\ IF nextSequence = SequenceMax
       THEN exhausted' = TRUE /\ nextSequence' = nextSequence
       ELSE exhausted' = exhausted /\ nextSequence' = nextSequence + 1
  /\ pc' = IF pc = "stored" THEN "notify" ELSE "idle"
  /\ UNCHANGED <<availability, ring, notified, task>>

Notify ==
  /\ pc = "notify"
  /\ notified' = TRUE
  /\ pc' = "idle"
  /\ UNCHANGED <<availability, ring, nextSequence, exhausted, task>>

FinishPublish == CountDrop \/ FinishWrite \/ StoreTail \/ AdvanceSequence \/ Notify

-----------------------------------------------------------------------------
(* The drain task, in DrainTask, Pop and tryPop.                           *)

TakeNotification ==
  /\ drain = "waiting" /\ notified
  /\ notified' = FALSE
  /\ drain' = "popping"
  /\ UNCHANGED <<availability, ring, daemon, record, known, dropped, log>>

LoadTail ==
  /\ drain = "popping"
  /\ known' = IF released > known THEN released ELSE known
  /\ drain' = IF head = tail THEN "waiting" ELSE "copying"
  /\ UNCHANGED <<availability, ring, daemon, notified, record, dropped, log>>

FinishCopy ==
  /\ drain = "copying"
  /\ record' = slots[Slot(head)]
  /\ drain' = "copied"
  /\ UNCHANGED <<availability, ring, daemon, notified, known, dropped, log>>

StoreHead ==
  /\ drain = "copied"
  /\ head' = Following(head)
  /\ drain' = "popped"
  /\ UNCHANGED <<availability, slots, tail, counter, released, daemon, notified, record, known, dropped, log>>

ReadCounter ==
  /\ drain = "popped"
  /\ dropped' \in known..counter
  /\ known' = dropped'
  /\ drain' = "logging"
  /\ UNCHANGED <<availability, ring, daemon, notified, record, log>>

(* Fault: one record for one notification.                                 *)
WriteOneLine ==
  /\ drain = "logging"
  /\ log' = Append(log, [sequence |-> record, dropped |-> dropped])
  /\ drain' = "waiting"
  /\ UNCHANGED <<availability, ring, daemon, notified, record, known, dropped>>

(* The 320 characters of the line hold the longest record.                 *)
WriteLine ==
  /\ drain = "logging"
  /\ log' = Append(log, [sequence |-> record, dropped |-> dropped])
  /\ drain' = "popping"
  /\ UNCHANGED <<availability, ring, daemon, notified, record, known, dropped>>

Drain == TakeNotification \/ LoadTail \/ FinishCopy \/ StoreHead \/ ReadCounter \/ WriteLine

-----------------------------------------------------------------------------
Next == Start \/ LoadIndexes \/ FinishPublish \/ Drain

Spec == Init /\ [][Next]_vars

(* A Publish that has begun comes to its end, and the drain task runs: it  *)
(* shares the lowest priority with the idle task, whose watchdog would     *)
(* bite if the others left them no time.  Nothing makes the daemon publish *)
(* again.                                                                  *)
FairSpec == Spec /\ WF_vars(FinishPublish) /\ WF_vars(Drain)

-----------------------------------------------------------------------------
(* The types, and never more records than the ring has slots.              *)
TypeOK ==
  /\ availability \in {"NotStarted", "Available", "Unavailable"}
  /\ slots \in [0..Capacity - 1 -> 0..SequenceMax]
  /\ head \in 0..Indexes - 1 /\ tail \in 0..Indexes - 1
  /\ Queued <= Capacity
  /\ counter \in 0..CounterMax /\ released \in 0..counter
  /\ nextSequence \in 0..SequenceMax /\ exhausted \in BOOLEAN
  /\ pc \in {"idle", "full", "writing", "written", "stored", "refused", "notify"}
  /\ notified \in BOOLEAN
  /\ drain \in {"none", "waiting", "popping", "copying", "copied", "popped", "logging"}
  /\ record \in 0..SequenceMax
  /\ known \in 0..counter /\ dropped \in 0..counter
  /\ log \in Seq([sequence : 0..SequenceMax, dropped : 0..CounterMax])

(* The daemon never writes the slot the drain task is copying, across the  *)
(* wrap of the indexes too: tryPush looks at the head before it writes and *)
(* tryPop moves the head after it has copied.                              *)
NoDataRace == ~(pc = "writing" /\ drain = "copying" /\ Slot(tail) = Slot(head))

Saturated(n) == IF n < CounterMax THEN n ELSE CounterMax

(* A line's dropped_total covers every record that is missing before it:   *)
(* of the records numbered below its own, those that have no line were     *)
(* counted, as far as the counter goes.  The counter is read without       *)
(* order; the release and the acquire of the tail have to carry it.        *)
LossIsCounted ==
  \A i \in 1..Len(log) :
    Saturated(log[i].sequence - (i - 1)) <= log[i].dropped

(* A record in the ring reaches the log: the notification that comes after *)
(* the store of the tail is not lost to a drain task that is just giving   *)
(* up, also for the last record there is.                                  *)
QueuedIsWritten ==
  \A s \in 0..SequenceMax :
    (\E k \in 0..Queued - 1 : slots[Slot(Ahead(head, k))] = s)
      ~> (\E i \in 1..Len(log) : log[i].sequence = s)

(* The ring, its indexes and its two tasks implement the queue that loses  *)
(* only when it is full: order, numbers used once, and refusals decided on *)
(* the head as it was when the daemon looked.                              *)
Offered == nextSequence + IF exhausted \/ pc \in {"full", "refused", "stored"} THEN 1 ELSE 0
Waiting == [k \in 1..Queued |-> slots[Slot(Ahead(head, k - 1))]]
InHand == IF drain \in {"popped", "logging"} THEN <<record>> ELSE <<>>
Refused == IF pc = "full" /\ counter # CounterMax THEN counter + 1 ELSE counter
Log == INSTANCE LossyLog WITH next <- Offered, queue <- Waiting, hand <- InHand, lost <- Refused
ImplementsLog == Log!Spec

=============================================================================
