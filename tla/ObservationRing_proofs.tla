----------------------- MODULE ObservationRing_proofs -----------------------
(***************************************************************************)
(* Proofs about ObservationRing, for every capacity and every range of the *)
(* indexes it divides.  The inductive invariant says what each side may    *)
(* rely on while it is between its loads and its store: the daemon, that   *)
(* there is room; the drain task, that there is a record.  From it follow  *)
(* that the two never meet in a slot, that every loss is counted in the    *)
(* next line, and that the ring is the queue of LossyLog.                  *)
(***************************************************************************)
EXTENDS ObservationRing, TLAPS, SequenceTheorems

Indices == 0..Indexes - 1
Places == 0..Capacity - 1

(* What the daemon relies on.                                              *)
DaemonInv ==
  /\ pc \notin {"idle", "notify"} => ~exhausted
  /\ pc \in {"writing", "written"} => Queued < Capacity
  /\ pc = "written" => slots[Slot(tail)] = nextSequence

(* What the drain task relies on.                                          *)
DrainInv ==
  /\ drain # "none" => availability = "Available"
  /\ drain \in {"copying", "copied"} => Queued > 0
  /\ drain = "copied" => record = slots[Slot(head)]

RingInv == TypeOK /\ DaemonInv /\ DrainInv

Taken == IF drain \in {"popped", "logging"} THEN 1 ELSE 0
Decided == IF pc \in {"stored", "refused"} THEN 1 ELSE 0

(* The records that were offered and are neither in the log nor on their   *)
(* way to it were counted.                                                 *)
Accounted ==
  Saturated(nextSequence + Decided - (Len(log) + Taken + Queued)) <= counter

(* Those missing before a record in the ring had been counted when the     *)
(* tail was last stored.                                                   *)
QueueCounted ==
  \A k \in 0..Queued - 1 :
    Saturated(slots[Slot(Ahead(head, k))] - (Len(log) + Taken + k)) <= released

(* The drain task is sure of those missing before the record it has.       *)
HandCounted ==
  /\ drain = "copying" => Saturated(slots[Slot(head)] - Len(log)) <= known
  /\ drain \in {"copied", "popped"} => Saturated(record - Len(log)) <= known
  /\ drain = "logging" => Saturated(record - Len(log)) <= dropped

LossInv == Accounted /\ QueueCounted /\ HandCounted /\ LossIsCounted

-----------------------------------------------------------------------------
(* The indexes.                                                            *)

(* A slot of the ring.                                                     *)
LEMMA SlotType ==
  ASSUME NEW i \in Int
  PROVE  Slot(i) \in Places
BY CapacityAssumption DEF Slot, Places

(* What moving one end does to the distance.                               *)
LEMMA DistanceFollowing ==
  ASSUME NEW t \in Indices, NEW h \in Indices
  PROVE  /\ Distance(t, h) \in 0..Indexes - 1
         /\ Following(t) \in Indices
         /\ Distance(t, h) < Capacity => Distance(Following(t), h) = Distance(t, h) + 1
         /\ Distance(t, h) > 0 => Distance(t, Following(h)) = Distance(t, h) - 1
         /\ Distance(t, h) = 0 <=> t = h
         /\ t = Ahead(h, Distance(t, h))
BY CapacityAssumption DEF Indices, Distance, Following, Ahead

(* Counting from the next index.                                           *)
LEMMA AheadFollowing ==
  ASSUME NEW h \in Indices, NEW k \in 0..Capacity
  PROVE  /\ Ahead(h, k) \in Indices
         /\ Ahead(h, 0) = h
         /\ k < Capacity => Ahead(Following(h), k) = Ahead(h, k + 1)
BY CapacityAssumption DEF Indices, Following, Ahead

(* Division with a remainder.                                              *)
LEMMA DivMod ==
  ASSUME NEW c \in Nat \ {0}, NEW i \in Int
  PROVE  i \div c \in Int /\ i % c \in Int /\ i = c * (i \div c) + (i % c)
OBVIOUS

(* A positive number below Capacity is no multiple of it.                  *)
LEMMA NoMultiple ==
  ASSUME NEW c \in Nat \ {0}, NEW n \in Int, NEW d \in 1..c - 1
  PROVE  d # c * n
<1>1. CASE n <= 0
  <2>1. c * n <= 0
    BY <1>1
  <2>2. QED
    BY <2>1
<1>2. CASE n >= 1
  <2>1. c * n >= c
    BY <1>2
  <2>2. QED
    BY <2>1
<1>3. QED
  BY <1>1, <1>2

(* Fewer than Capacity apart, two indexes have different slots.            *)
LEMMA SlotsDiffer ==
  ASSUME NEW h \in Indices, NEW n \in Places, NEW k \in 0..n - 1
  PROVE  Slot(Ahead(h, k)) # Slot(Ahead(h, n))
<1> DEFINE a == Ahead(h, n)
           b == Ahead(h, k)
<1>1. a \in Indices /\ b \in Indices /\ (a - b = n - k \/ a - b = n - k - Indexes)
  BY CapacityAssumption DEF Indices, Ahead, Places
<1> DEFINE p == a \div Capacity
           q == b \div Capacity
           w == Indexes \div Capacity
<1>2. /\ a = Capacity * p + (a % Capacity)
      /\ b = Capacity * q + (b % Capacity)
      /\ Indexes = Capacity * w
      /\ p \in Int /\ q \in Int /\ w \in Int
      /\ a % Capacity \in Int /\ b % Capacity \in Int
  <2>1. a \in Int /\ b \in Int /\ Indexes \in Int /\ Capacity \in Nat \ {0}
    BY <1>1, CapacityAssumption DEF Indices
  <2>2. p \in Int /\ a % Capacity \in Int /\ a = Capacity * p + (a % Capacity)
    BY <2>1, DivMod
  <2>3. q \in Int /\ b % Capacity \in Int /\ b = Capacity * q + (b % Capacity)
    BY <2>1, DivMod
  <2>4. w \in Int /\ Indexes = Capacity * w + (Indexes % Capacity)
    BY <2>1, DivMod
  <2> HIDE DEF p, q, w
  <2>5. Indexes = Capacity * w
    BY <2>1, <2>4, CapacityAssumption
  <2>6. QED
    BY <2>2, <2>3, <2>4, <2>5
<1> HIDE DEF a, b, p, q, w
<1>3. SUFFICES ASSUME a % Capacity = b % Capacity PROVE FALSE
  BY DEF Slot, a, b
<1>4. a - b = Capacity * (p - q)
  BY <1>2, <1>3, CapacityAssumption
<1>5. Indexes + Capacity * (p - q) = Capacity * (p - q + w)
  BY <1>2, CapacityAssumption
<1>6. n - k \in 1..Capacity - 1 /\ p - q \in Int /\ p - q + w \in Int /\ Capacity \in Nat \ {0}
  BY <1>2, CapacityAssumption DEF Places
<1>7. n - k # Capacity * (p - q) /\ n - k # Capacity * (p - q + w)
  BY <1>6, NoMultiple
<1>8. CASE a - b = n - k
  BY <1>4, <1>7, <1>8
<1>9. CASE a - b = n - k - Indexes
  <2>1. n - k = Indexes + (a - b)
    BY <1>1, <1>6, <1>9, CapacityAssumption DEF Indices
  <2>2. QED
    BY <2>1, <1>4, <1>5, <1>7
<1>10. QED
  BY <1>1, <1>8, <1>9

-----------------------------------------------------------------------------
(* The ring.                                                               *)

(* It starts empty.                                                        *)
LEMMA RingInit == Init => RingInv
<1> SUFFICES ASSUME Init PROVE RingInv
  OBVIOUS
<1>1. Queued = 0 /\ Indexes - 1 \in Nat
  BY CapacityAssumption DEF Init, Queued, Distance
<1>2. TypeOK
  BY <1>1, CapacityAssumption, MaxAssumption DEF Init, TypeOK
<1>3. DaemonInv /\ DrainInv
  BY <1>1 DEF Init, DaemonInv, DrainInv
<1>4. QED
  BY <1>2, <1>3 DEF RingInv

(* The numbers among the queued records do not change while the daemon     *)
(* fills the slot behind them.                                             *)
LEMMA WriteIsBehind ==
  ASSUME RingInv, FinishWrite
  PROVE  /\ \A k \in 0..Queued - 1 : slots'[Slot(Ahead(head, k))] = slots[Slot(Ahead(head, k))]
         /\ Queued > 0 => slots'[Slot(head)] = slots[Slot(head)]
<1>1. /\ head \in Indices /\ tail \in Indices /\ Queued < Capacity /\ Queued \in Nat
      /\ tail = Ahead(head, Queued)
  <2>1. head \in Indices /\ tail \in Indices /\ Queued < Capacity
    BY DEF RingInv, TypeOK, DaemonInv, FinishWrite, Indices
  <2>2. QED
    BY <2>1, DistanceFollowing, CapacityAssumption DEF Queued
<1>2. ASSUME NEW k \in 0..Queued - 1 PROVE slots'[Slot(Ahead(head, k))] = slots[Slot(Ahead(head, k))]
  <2>1. k \in 0..Capacity /\ Queued \in Places
    BY <1>1, CapacityAssumption DEF Places
  <2>2. Slot(Ahead(head, k)) # Slot(tail)
    BY <1>1, <2>1, SlotsDiffer
  <2>3. Slot(Ahead(head, k)) \in Places
    BY <1>1, <2>1, AheadFollowing, SlotType, CapacityAssumption DEF Indices
  <2>4. QED
    BY <2>2, <2>3 DEF FinishWrite, RingInv, TypeOK, Places
<1>3. Ahead(head, 0) = head
  BY <1>1, AheadFollowing, CapacityAssumption
<1>4. QED
  BY <1>1, <1>2, <1>3

(* Every step keeps the invariant of the ring.                             *)
LEMMA RingStep == RingInv /\ [Next]_vars => RingInv'
<1> SUFFICES ASSUME RingInv, [Next]_vars PROVE RingInv'
  OBVIOUS
<1> USE DEF RingInv, ring, daemon, task
<1>0. /\ head \in Indices /\ tail \in Indices
      /\ Queued \in 0..Capacity
      /\ Following(head) \in Indices /\ Following(tail) \in Indices
      /\ Queued < Capacity => Distance(Following(tail), head) = Queued + 1
      /\ Queued > 0 => Distance(tail, Following(head)) = Queued - 1
      /\ head # tail => Queued > 0
  <2>1. head \in Indices /\ tail \in Indices /\ Queued <= Capacity
    BY DEF TypeOK, Indices
  <2>2. QED
    BY <2>1, DistanceFollowing, CapacityAssumption DEF Queued
<1>1. CASE Start
  BY <1>1 DEF Start, TypeOK, DaemonInv, DrainInv, Queued
<1>2. CASE LoadIndexes
  <2>1. Queued' = Queued /\ Queued \in 0..Capacity
    BY <1>0, <1>2 DEF LoadIndexes, Queued
  <2>2. pc' \in {"full", "writing"} /\ (pc' = "writing" => Queued < Capacity) /\ ~exhausted'
    BY <1>2, <2>1, CapacityAssumption DEF LoadIndexes
  <2>3. QED
    BY <1>2, <2>1, <2>2 DEF LoadIndexes, TypeOK, DaemonInv, DrainInv
<1>3. CASE CountDrop
  <2>1. counter' \in 0..CounterMax /\ counter <= counter'
    BY <1>3, MaxAssumption DEF CountDrop, TypeOK
  <2>2. QED
    BY <1>3, <2>1 DEF CountDrop, TypeOK, DaemonInv, DrainInv, Queued
<1>4. CASE FinishWrite
  <2>1. Slot(tail) \in 0..Capacity - 1
    BY <1>0, SlotType, CapacityAssumption DEF Indices, Places
  <2>2. slots' \in [0..Capacity - 1 -> 0..SequenceMax] /\ slots'[Slot(tail)] = nextSequence
    BY <1>4, <2>1 DEF FinishWrite, TypeOK
  <2>3. TypeOK' /\ DaemonInv'
    BY <1>4, <2>2 DEF FinishWrite, TypeOK, DaemonInv, Queued
  <2>4. DrainInv'
    BY <1>4, WriteIsBehind DEF FinishWrite, DrainInv, Queued
  <2>5. QED
    BY <2>3, <2>4
<1>5. CASE StoreTail
  <2>1. Queued' = Queued + 1 /\ Queued < Capacity
    BY <1>0, <1>5 DEF StoreTail, DaemonInv, Queued
  <2>2. Queued' <= Capacity /\ Queued' > 0
    BY <1>0, <2>1, CapacityAssumption
  <2>3. TypeOK'
    BY <1>0, <1>5, <2>2 DEF StoreTail, TypeOK, Indices
  <2>4. QED
    BY <1>5, <2>2, <2>3 DEF StoreTail, DaemonInv, DrainInv
<1>6. CASE AdvanceSequence
  <2>1. nextSequence' \in 0..SequenceMax /\ exhausted' \in BOOLEAN
    <3>1. CASE nextSequence = SequenceMax
      BY <1>6, <3>1 DEF AdvanceSequence, TypeOK
    <3>2. CASE nextSequence # SequenceMax
      <4>1. nextSequence + 1 \in 0..SequenceMax
        BY <3>2, MaxAssumption DEF TypeOK
      <4>2. QED
        BY <1>6, <3>2, <4>1 DEF AdvanceSequence, TypeOK
    <3>3. QED
      BY <3>1, <3>2
  <2>2. pc' \in {"notify", "idle"}
    BY <1>6 DEF AdvanceSequence
  <2>3. QED
    BY <1>6, <2>1, <2>2 DEF AdvanceSequence, TypeOK, DaemonInv, DrainInv, Queued
<1>7. CASE Notify
  BY <1>7 DEF Notify, TypeOK, DaemonInv, DrainInv, Queued
<1>8. CASE TakeNotification
  BY <1>8 DEF TakeNotification, TypeOK, DaemonInv, DrainInv, Queued
<1>9. CASE LoadTail
  <2>1. known' \in 0..counter
    BY <1>9 DEF LoadTail, TypeOK
  <2>2. QED
    BY <1>0, <1>9, <2>1 DEF LoadTail, TypeOK, DaemonInv, DrainInv, Queued
<1>10. CASE FinishCopy
  <2>1. Slot(head) \in 0..Capacity - 1
    BY <1>0, SlotType, CapacityAssumption DEF Indices, Places
  <2>2. QED
    BY <1>10, <2>1 DEF FinishCopy, TypeOK, DaemonInv, DrainInv, Queued
<1>11. CASE StoreHead
  <2>1. Queued' = Queued - 1
    BY <1>0, <1>11 DEF StoreHead, DrainInv, Queued
  <2>2. QED
    BY <1>0, <1>11, <2>1, CapacityAssumption DEF StoreHead, TypeOK, DaemonInv, DrainInv, Indices
<1>12. CASE ReadCounter
  <2>1. dropped' \in 0..counter /\ known' \in 0..counter
    BY <1>12 DEF ReadCounter, TypeOK
  <2>2. QED
    BY <1>12, <2>1 DEF ReadCounter, TypeOK, DaemonInv, DrainInv, Queued
<1>13. CASE WriteLine
  <2>1. [sequence |-> record, dropped |-> dropped] \in [sequence : 0..SequenceMax, dropped : 0..CounterMax]
    <3>1. dropped \in 0..CounterMax
      BY MaxAssumption DEF TypeOK
    <3>2. QED
      BY <3>1 DEF TypeOK
  <2>2. log' \in Seq([sequence : 0..SequenceMax, dropped : 0..CounterMax])
    BY <1>13, <2>1 DEF WriteLine, TypeOK
  <2>3. QED
    BY <1>13, <2>2 DEF WriteLine, TypeOK, DaemonInv, DrainInv, Queued
<1>14. CASE UNCHANGED vars
  BY <1>14 DEF vars, TypeOK, DaemonInv, DrainInv, Queued
<1>15. QED
  BY <1>1, <1>2, <1>3, <1>4, <1>5, <1>6, <1>7, <1>8, <1>9, <1>10, <1>11, <1>12, <1>13, <1>14
     DEF Next, FinishPublish, Drain

(* The type invariant, and that the ring never holds more than its slots,  *)
(* for every capacity and range of the indexes.                            *)
THEOREM RingTyped == Spec => []TypeOK
<1>1. RingInv => TypeOK
  BY DEF RingInv
<1>2. QED
  BY RingInit, RingStep, <1>1, PTL DEF Spec

(* The daemon and the drain task never meet in a slot.                     *)
THEOREM RingHasNoRace == Spec => []NoDataRace
<1>1. RingInv => NoDataRace
  <2> SUFFICES ASSUME RingInv, pc = "writing", drain = "copying" PROVE Slot(tail) # Slot(head)
    BY DEF NoDataRace
  <2>1. head \in Indices /\ tail \in Indices /\ Queued < Capacity /\ Queued > 0
    BY DEF RingInv, TypeOK, DaemonInv, DrainInv, Indices
  <2>2. tail = Ahead(head, Queued) /\ head = Ahead(head, 0) /\ Queued \in Nat
    BY <2>1, DistanceFollowing, AheadFollowing, CapacityAssumption DEF Queued
  <2>3. Queued \in Places /\ 0 \in 0..Queued - 1
    BY <2>1, <2>2, CapacityAssumption DEF Places
  <2>4. QED
    BY <2>1, <2>2, <2>3, SlotsDiffer
<1>2. QED
  BY RingInit, RingStep, <1>1, PTL DEF Spec

-----------------------------------------------------------------------------
(* The loss.                                                               *)

(* How the saturating count moves.                                         *)
LEMMA SaturatedMoves ==
  ASSUME NEW n \in Int
  PROVE  /\ Saturated(n) \in Int /\ Saturated(n) <= CounterMax
         /\ Saturated(n) <= Saturated(n + 1)
         /\ Saturated(n + 1) <= Saturated(n) + 1
BY MaxAssumption DEF Saturated

(* A bound of it can be raised.                                            *)
LEMMA SaturatedBelow ==
  ASSUME NEW n \in Int, NEW a \in Int, NEW b \in Int, Saturated(n) <= a, a <= b
  PROVE  Saturated(n) <= b
BY MaxAssumption DEF Saturated

(* A bound of the next one is a bound of it.                               *)
LEMMA SaturatedBack ==
  ASSUME NEW n \in Int, NEW b \in Int, Saturated(n + 1) <= b
  PROVE  Saturated(n) <= b
BY MaxAssumption DEF Saturated

(* Nothing is missing in an empty log.                                     *)
LEMMA LossInit == Init => LossInv
<1> SUFFICES ASSUME Init PROVE LossInv
  OBVIOUS
<1>1. Queued = 0 /\ Len(log) = 0 /\ Taken = 0 /\ Decided = 0
  BY CapacityAssumption DEF Init, Queued, Distance, Taken, Decided
<1>2. Accounted
  BY <1>1, MaxAssumption DEF Init, Accounted, Saturated
<1>3. QueueCounted /\ HandCounted /\ LossIsCounted
  BY <1>1 DEF Init, QueueCounted, HandCounted, LossIsCounted
<1>4. QED
  BY <1>2, <1>3 DEF LossInv

(* Every step keeps the account of the loss.                               *)
LEMMA LossStep == RingInv /\ LossInv /\ [Next]_vars => LossInv'
<1> SUFFICES ASSUME RingInv, LossInv, [Next]_vars PROVE LossInv'
  OBVIOUS
<1> USE DEF LossInv, ring, daemon, task
<1>0. /\ head \in Indices /\ tail \in Indices /\ Queued \in 0..Capacity
      /\ Len(log) \in Nat /\ Taken \in {0, 1} /\ Decided \in {0, 1}
      /\ nextSequence \in Nat /\ record \in Nat
      /\ counter \in Nat /\ released \in 0..counter /\ known \in 0..counter /\ dropped \in 0..counter
      /\ \A k \in 0..Capacity : Ahead(head, k) \in Indices
      /\ \A i \in Indices : slots[Slot(i)] \in Nat
  <2>1. head \in Indices /\ tail \in Indices /\ Queued <= Capacity
    BY DEF RingInv, TypeOK, Indices
  <2>2. Queued \in 0..Capacity
    BY <2>1, DistanceFollowing, CapacityAssumption DEF Queued
  <2>3. ASSUME NEW i \in Indices PROVE slots[Slot(i)] \in Nat
    <3>1. Slot(i) \in 0..Capacity - 1
      BY SlotType, CapacityAssumption DEF Indices, Places
    <3>2. QED
      BY <3>1 DEF RingInv, TypeOK
  <2>4. QED
    BY <2>1, <2>2, <2>3, AheadFollowing, MaxAssumption DEF RingInv, TypeOK, Taken, Decided
<1>1. CASE Start
  <2>1. Taken = 0 /\ Taken' = 0 /\ drain' \notin {"copying", "copied", "popped", "logging"}
    BY <1>1 DEF Start, Taken, RingInv, DrainInv
  <2>2. QED
    BY <1>1, <2>1 DEF Start, Accounted, QueueCounted, HandCounted, LossIsCounted, Decided, Queued
<1>2. CASE LoadIndexes
  <2>1. Decided = 0 /\ Decided' = 0
    BY <1>2 DEF LoadIndexes, Decided
  <2>2. QED
    BY <1>2, <2>1 DEF LoadIndexes, Accounted, QueueCounted, HandCounted, LossIsCounted, Taken, Queued
<1>3. CASE CountDrop
  <2> DEFINE n == nextSequence - (Len(log) + Taken + Queued)
  <2>1. /\ n \in Int /\ Saturated(n) <= counter
        /\ nextSequence' + Decided' - (Len(log) + Taken + Queued)' = n + 1
    BY <1>0, <1>3 DEF CountDrop, Accounted, Decided, Taken, Queued
  <2>2. Saturated(n + 1) <= counter'
    <3>1. /\ Saturated(n + 1) <= Saturated(n) + 1 /\ Saturated(n + 1) <= CounterMax
          /\ Saturated(n) \in Int /\ Saturated(n + 1) \in Int
      BY <2>1, SaturatedMoves
    <3>2. counter' = IF counter # CounterMax THEN counter + 1 ELSE counter
      BY <1>3 DEF CountDrop
    <3>3. QED
      BY <1>0, <2>1, <3>1, <3>2, MaxAssumption
  <2>3. Accounted'
    BY <2>1, <2>2 DEF Accounted, Saturated
  <2>4. QED
    BY <1>3, <2>3 DEF CountDrop, QueueCounted, HandCounted, LossIsCounted, Taken, Queued
<1>4. CASE FinishWrite
  <2>1. QueueCounted'
    BY <1>4, WriteIsBehind DEF FinishWrite, QueueCounted, Taken, Queued
  <2>2. HandCounted'
    BY <1>4, WriteIsBehind DEF FinishWrite, HandCounted, RingInv, DrainInv
  <2>3. Accounted' /\ LossIsCounted'
    BY <1>4 DEF FinishWrite, Accounted, LossIsCounted, Decided, Taken, Queued
  <2>4. QED
    BY <2>1, <2>2, <2>3
<1>5. CASE StoreTail
  <2>1. Queued' = Queued + 1 /\ Queued < Capacity /\ tail = Ahead(head, Queued)
    BY <1>0, <1>5, DistanceFollowing DEF StoreTail, RingInv, DaemonInv, Queued
  <2>2. Decided = 0 /\ Decided' = 1 /\ Taken' = Taken
    BY <1>5 DEF StoreTail, Decided, Taken
  <2>3. Accounted'
    <3>1. nextSequence' + Decided' - (Len(log) + Taken + Queued)' = nextSequence + Decided - (Len(log) + Taken + Queued)
      BY <1>0, <1>5, <2>1, <2>2 DEF StoreTail
    <3>2. QED
      BY <1>5, <3>1 DEF StoreTail, Accounted
  <2>4. ASSUME NEW k \in 0..Queued
        PROVE  Saturated(slots[Slot(Ahead(head, k))] - (Len(log) + Taken + k)) <= counter
    <3>1. CASE k = Queued
      BY <1>0, <1>5, <2>1, <2>2, <3>1 DEF StoreTail, Accounted, RingInv, DaemonInv
    <3>2. CASE k < Queued
      <4>1. k \in 0..Queued - 1
        BY <1>0, <3>2
      <4>2. slots[Slot(Ahead(head, k))] - (Len(log) + Taken + k) \in Int
        <5>1. k \in 0..Capacity
          BY <1>0, CapacityAssumption
        <5>2. slots[Slot(Ahead(head, k))] \in Nat
          BY <1>0, <5>1
        <5>3. QED
          BY <1>0, <5>2
      <4>3. Saturated(slots[Slot(Ahead(head, k))] - (Len(log) + Taken + k)) <= released
        BY <4>1 DEF QueueCounted
      <4>4. QED
        BY <1>0, <4>2, <4>3, SaturatedBelow
    <3>3. QED
      BY <1>0, <3>1, <3>2
  <2>5. QueueCounted'
    BY <1>0, <1>5, <2>1, <2>2, <2>4 DEF StoreTail, QueueCounted
  <2>6. QED
    BY <1>5, <2>3, <2>5 DEF StoreTail, HandCounted, LossIsCounted
<1>6. CASE AdvanceSequence
  <2> DEFINE n == nextSequence - (Len(log) + Taken + Queued)
  <2>1. n \in Int /\ Saturated(n + 1) <= counter
    <3>1. n + 1 = nextSequence + Decided - (Len(log) + Taken + Queued)
      BY <1>0, <1>6 DEF AdvanceSequence, Decided
    <3>2. QED
      BY <1>0, <3>1 DEF Accounted
  <2>2. nextSequence' + Decided' - (Len(log) + Taken + Queued)' \in {n, n + 1}
    BY <1>0, <1>6 DEF AdvanceSequence, Decided, Taken, Queued
  <2> DEFINE m == nextSequence' + Decided' - (Len(log) + Taken + Queued)'
  <2> HIDE DEF n, m
  <2>3a. counter \in Int
    BY <1>0
  <2>3. Saturated(n) <= counter
    BY <2>1, <2>3a, SaturatedBack
  <2>4. Saturated(m) <= counter /\ counter' = counter
    BY <1>6, <2>1, <2>2, <2>3 DEF AdvanceSequence, m
  <2>5. Accounted'
    BY <2>4 DEF m, Accounted, Saturated
  <2>6. QED
    BY <1>6, <2>5 DEF AdvanceSequence, QueueCounted, HandCounted, LossIsCounted, Taken, Queued
<1>7. CASE Notify
  BY <1>7 DEF Notify, Accounted, QueueCounted, HandCounted, LossIsCounted, Decided, Taken, Queued
<1>8. CASE TakeNotification
  BY <1>8 DEF TakeNotification, Accounted, QueueCounted, HandCounted, LossIsCounted, Decided, Taken, Queued
<1>9. CASE LoadTail
  <2>1. Taken = 0 /\ Taken' = 0 /\ drain' \in {"waiting", "copying"} /\ (drain' = "copying" => head # tail)
    BY <1>9 DEF LoadTail, Taken
  <2>2. ASSUME head # tail PROVE Saturated(slots[Slot(head)] - Len(log)) <= known'
    <3>1. 0 \in 0..Queued - 1 /\ Ahead(head, 0) = head
      BY <1>0, <2>2, DistanceFollowing, AheadFollowing, CapacityAssumption DEF Queued
    <3>2. Saturated(slots[Slot(head)] - (Len(log) + Taken + 0)) <= released
      BY <3>1 DEF QueueCounted
    <3>3. Saturated(slots[Slot(head)] - Len(log)) <= released /\ slots[Slot(head)] - Len(log) \in Int
      BY <1>0, <2>1, <3>2
    <3>4. released <= known' /\ known' \in Int
      BY <1>0, <1>9 DEF LoadTail
    <3>5. QED
      BY <1>0, <3>3, <3>4, SaturatedBelow
  <2>3. HandCounted'
    BY <1>9, <2>1, <2>2 DEF LoadTail, HandCounted
  <2>4. QED
    BY <1>9, <2>1, <2>3 DEF LoadTail, Accounted, QueueCounted, LossIsCounted, Decided, Queued
<1>10. CASE FinishCopy
  <2>1. Taken = 0 /\ Taken' = 0
    BY <1>10 DEF FinishCopy, Taken
  <2>2. QED
    BY <1>10, <2>1 DEF FinishCopy, Accounted, QueueCounted, HandCounted, LossIsCounted, Decided, Queued
<1>11. CASE StoreHead
  <2>1. Queued' = Queued - 1 /\ Queued > 0 /\ Taken = 0 /\ Taken' = 1
    BY <1>0, <1>11, DistanceFollowing DEF StoreHead, RingInv, DrainInv, Queued, Taken
  <2>2. Accounted'
    <3>1. nextSequence' + Decided' - (Len(log) + Taken + Queued)' = nextSequence + Decided - (Len(log) + Taken + Queued)
      BY <1>0, <1>11, <2>1 DEF StoreHead, Decided
    <3>2. QED
      BY <1>11, <3>1 DEF StoreHead, Accounted
  <2>3. ASSUME NEW k \in 0..Queued - 2
        PROVE  Saturated(slots[Slot(Ahead(Following(head), k))] - (Len(log) + 1 + k)) <= released
    <3>1. k + 1 \in 0..Queued - 1 /\ k \in 0..Capacity /\ k < Capacity
      BY <1>0, CapacityAssumption
    <3>2. Ahead(Following(head), k) = Ahead(head, k + 1)
      BY <1>0, <3>1, AheadFollowing
    <3>3. Saturated(slots[Slot(Ahead(head, k + 1))] - (Len(log) + Taken + (k + 1))) <= released
      BY <3>1 DEF QueueCounted
    <3>4. Len(log) + Taken + (k + 1) = Len(log) + 1 + k
      BY <1>0, <2>1
    <3>5. QED
      BY <3>2, <3>3, <3>4
  <2>4. QueueCounted'
    BY <1>0, <1>11, <2>1, <2>3 DEF StoreHead, QueueCounted
  <2>5. QED
    BY <1>11, <2>2, <2>4 DEF StoreHead, HandCounted, LossIsCounted
<1>12. CASE ReadCounter
  <2>1. Taken' = Taken /\ known <= dropped' /\ dropped' \in Int
    BY <1>0, <1>12 DEF ReadCounter, Taken
  <2>2. Saturated(record - Len(log)) <= dropped'
    <3>1. Saturated(record - Len(log)) <= known /\ record - Len(log) \in Int
      BY <1>0, <1>12 DEF ReadCounter, HandCounted
    <3>2. QED
      BY <1>0, <2>1, <3>1, SaturatedBelow
  <2>3. HandCounted'
    BY <1>12, <2>2 DEF ReadCounter, HandCounted
  <2>4. QED
    BY <1>12, <2>1, <2>3 DEF ReadCounter, Accounted, QueueCounted, LossIsCounted, Decided, Queued
<1>13. CASE WriteLine
  <2>1. /\ Len(log') = Len(log) + 1 /\ Taken = 1 /\ Taken' = 0
        /\ \A i \in 1..Len(log) : log'[i] = log[i]
        /\ log'[Len(log) + 1] = [sequence |-> record, dropped |-> dropped]
    BY <1>13 DEF WriteLine, RingInv, TypeOK, Taken
  <2>2. Len(log') + Taken' = Len(log) + Taken
    BY <1>0, <2>1
  <2>3. Accounted' /\ QueueCounted'
    BY <1>13, <2>2 DEF WriteLine, Accounted, QueueCounted, Decided, Queued
  <2>4. HandCounted'
    BY <1>13 DEF WriteLine, HandCounted
  <2>5. LossIsCounted'
    <3>1. ASSUME NEW i \in 1..Len(log') PROVE Saturated(log'[i].sequence - (i - 1)) <= log'[i].dropped
      <4>1. CASE i \in 1..Len(log)
        BY <2>1, <4>1 DEF LossIsCounted
      <4>2. CASE i = Len(log) + 1
        <5>1. i - 1 = Len(log)
          BY <1>0, <4>2
        <5>2. QED
          BY <1>13, <2>1, <4>2, <5>1 DEF WriteLine, HandCounted
      <4>3. QED
        BY <1>0, <2>1, <4>1, <4>2
    <3>2. QED
      BY <3>1 DEF LossIsCounted, Saturated
  <2>6. QED
    BY <2>3, <2>4, <2>5
<1>14. CASE UNCHANGED vars
  BY <1>14 DEF vars, Accounted, QueueCounted, HandCounted, LossIsCounted, Decided, Taken, Queued
<1>15. QED
  BY <1>1, <1>2, <1>3, <1>4, <1>5, <1>6, <1>7, <1>8, <1>9, <1>10, <1>11, <1>12, <1>13, <1>14
     DEF Next, FinishPublish, Drain

(* Every line counts the records that are missing before it, for every     *)
(* capacity and whatever the relaxed load of the counter returns.          *)
THEOREM RingCountsLoss == Spec => []LossIsCounted
<1>1. LossInv => LossIsCounted
  BY DEF LossInv
<1>2. QED
  BY RingInit, RingStep, LossInit, LossStep, <1>1, PTL DEF Spec

-----------------------------------------------------------------------------
(* The queue.                                                              *)

Numbers == 0..SequenceMax

(* The slots from an index on, as a sequence.                              *)
LEMMA SlotsAsSequence ==
  ASSUME NEW s \in [Places -> Numbers], NEW h \in Indices, NEW n \in 0..Capacity,
         NEW w, w = [k \in 1..n |-> s[Slot(Ahead(h, k - 1))]]
  PROVE  /\ w \in Seq(Numbers) /\ Len(w) = n
         /\ \A k \in 1..n : w[k] = s[Slot(Ahead(h, k - 1))]
         /\ n > 0 => w[1] = s[Slot(h)]
<1>1. ASSUME NEW k \in 1..n PROVE s[Slot(Ahead(h, k - 1))] \in Numbers
  <2>1. k - 1 \in 0..Capacity
    BY CapacityAssumption
  <2>2. Slot(Ahead(h, k - 1)) \in Places
    BY <2>1, AheadFollowing, SlotType, CapacityAssumption DEF Indices
  <2>3. QED
    BY <2>2
<1>2. w \in [1..n -> Numbers]
  BY <1>1
<1>3. w \in Seq(Numbers) /\ Len(w) = n
  BY <1>2
<1>4. Ahead(h, 0) = h
  BY AheadFollowing, CapacityAssumption
<1>5. QED
  BY <1>3, <1>4

(* What the ring holds, as a sequence.                                     *)
LEMMA WaitingType ==
  ASSUME RingInv
  PROVE  /\ slots \in [Places -> Numbers] /\ head \in Indices /\ tail \in Indices
         /\ Queued \in 0..Capacity
         /\ Waiting \in Seq(Numbers) /\ Len(Waiting) = Queued
         /\ \A k \in 1..Queued : Waiting[k] = slots[Slot(Ahead(head, k - 1))]
         /\ Queued > 0 => Waiting[1] = slots[Slot(head)]
<1>1. slots \in [Places -> Numbers] /\ head \in Indices /\ tail \in Indices /\ Queued <= Capacity
  BY DEF RingInv, TypeOK, Indices, Places, Numbers
<1>2. Queued \in 0..Capacity
  BY <1>1, DistanceFollowing, CapacityAssumption DEF Queued
<1>3. /\ Waiting \in Seq(Numbers) /\ Len(Waiting) = Queued
      /\ \A k \in 1..Queued : Waiting[k] = slots[Slot(Ahead(head, k - 1))]
      /\ Queued > 0 => Waiting[1] = slots[Slot(head)]
  <2>1. slots \in [Places -> Numbers] /\ head \in Indices
    BY <1>1
  <2>2. QED
    BY <2>1, <1>2, SlotsAsSequence DEF Waiting
<1>4. QED
  BY <1>1, <1>2, <1>3

(* The ring starts as the queue does.                                      *)
LEMMA LogInit == Init => Log!Init
<1> SUFFICES ASSUME Init PROVE Log!Init
  OBVIOUS
<1>1. Queued = 0
  BY CapacityAssumption DEF Init, Queued, Distance
<1>2. Waiting = <<>>
  BY <1>1, RingInit, WaitingType
<1>3. QED
  BY <1>2 DEF Init, Log!Init, Offered, InHand, Refused

(* Every step is a step of the queue or leaves it alone: a refusal is      *)
(* decided when the indexes are loaded, a record is accepted when the tail *)
(* is stored, and taken when the head is.                                  *)
LEMMA LogStep == RingInv /\ RingInv' /\ [Next]_vars => [Log!Next]_(Log!vars)
<1> SUFFICES ASSUME RingInv, RingInv', [Next]_vars PROVE [Log!Next]_(Log!vars)
  OBVIOUS
<1> USE DEF ring, daemon, task
<1>0. /\ nextSequence \in Numbers /\ record \in Numbers /\ counter \in 0..CounterMax
      /\ counter \in Nat /\ dropped \in 0..counter
      /\ head \in Indices /\ tail \in Indices
      /\ Queued \in 0..Capacity
      /\ pc \notin {"idle", "notify"} => ~exhausted
  <2>1. head \in Indices /\ tail \in Indices /\ Queued \in 0..Capacity
    BY WaitingType
  <2>2. QED
    BY <2>1, MaxAssumption DEF RingInv, TypeOK, DaemonInv, Numbers
<1>a. slots' \in [Places -> Numbers] /\ head' \in Indices /\ Queued' \in 0..Capacity
  <2>1. slots' \in [Places -> Numbers] /\ head' \in Indices /\ tail' \in Indices /\ Queued' <= Capacity
    BY DEF RingInv, TypeOK, Indices, Places, Numbers
  <2>2. Queued' = Distance(tail', head')
    BY DEF Queued
  <2>3. Distance(tail', head') \in 0..Indexes - 1
    BY <2>1, DistanceFollowing
  <2>4. QED
    BY <2>1, <2>2, <2>3, CapacityAssumption
<1>1. ASSUME UNCHANGED <<slots, head, tail>> PROVE Waiting' = Waiting
  BY <1>1 DEF Waiting, Queued
<1>2. CASE Start
  <2>1. InHand = <<>> /\ InHand' = <<>>
    BY <1>2 DEF Start, InHand, RingInv, DrainInv
  <2>2. QED
    BY <1>1, <1>2, <2>1 DEF Start, Log!vars, Offered, Refused
<1>3. CASE LoadIndexes
  <2>1. Waiting' = Waiting /\ InHand' = InHand /\ log' = log /\ Offered = nextSequence
    <3>1. Waiting' = Waiting /\ InHand' = InHand /\ log' = log
      BY <1>1, <1>3 DEF LoadIndexes, InHand
    <3>2. ~(exhausted \/ pc \in {"full", "refused", "stored"})
      BY <1>3 DEF LoadIndexes
    <3>3. QED
      BY <1>0, <3>1, <3>2 DEF Offered, Numbers
  <2>2. CASE Queued = Capacity
    <3>1. pc' = "full"
      BY <1>3, <2>2 DEF LoadIndexes
    <3>2. Offered' = Offered + 1 /\ Offered <= SequenceMax
      BY <1>0, <1>3, <2>1, <3>1 DEF LoadIndexes, Offered, Numbers
    <3>3. Refused = counter /\ Refused' = IF counter # CounterMax THEN counter + 1 ELSE counter
      BY <1>3, <3>1 DEF LoadIndexes, Refused
    <3>4. Refused' = IF Refused < CounterMax THEN Refused + 1 ELSE Refused
      BY <1>0, <3>3, MaxAssumption
    <3>5. Len(Waiting) = Capacity
      BY <2>2, WaitingType
    <3>6. Log!Refuse
      BY <2>1, <3>2, <3>4, <3>5 DEF Log!Refuse, Log!Offer
    <3>7. QED
      BY <3>6 DEF Log!Next
  <2>3. CASE Queued # Capacity
    <3>1. pc' = "writing"
      BY <1>3, <2>3 DEF LoadIndexes
    <3>2. Offered' = Offered /\ Refused' = Refused
      BY <1>3, <3>1 DEF LoadIndexes, Offered, Refused
    <3>3. QED
      BY <2>1, <3>2 DEF Log!vars
  <2>4. QED
    BY <2>2, <2>3
<1>4. CASE CountDrop
  <2>1. Waiting' = Waiting /\ InHand' = InHand /\ log' = log
    BY <1>1, <1>4 DEF CountDrop, InHand
  <2>2. Offered' = Offered /\ Refused' = Refused
    BY <1>4 DEF CountDrop, Offered, Refused
  <2>3. QED
    BY <2>1, <2>2 DEF Log!vars
<1>5. CASE FinishWrite
  <2>1. Queued' = Queued /\ InHand' = InHand /\ log' = log /\ Offered' = Offered /\ Refused' = Refused
    BY <1>5 DEF FinishWrite, Queued, InHand, Offered, Refused
  <2>2. ASSUME NEW k \in 1..Queued
        PROVE  slots'[Slot(Ahead(head, k - 1))] = slots[Slot(Ahead(head, k - 1))]
    <3>1. k - 1 \in 0..Queued - 1
      BY <1>0
    <3>2. QED
      BY <1>5, <3>1, WriteIsBehind
  <2>3. head' = head
    BY <1>5 DEF FinishWrite
  <2>4. Waiting' = Waiting
    BY <2>1, <2>2, <2>3 DEF Waiting
  <2>5. QED
    BY <2>1, <2>4 DEF Log!vars
<1>6. CASE StoreTail
  <2>1. InHand' = InHand /\ log' = log /\ Offered = nextSequence /\ Offered' = Offered + 1 /\ Refused' = Refused
    <3>1. InHand' = InHand /\ log' = log /\ Refused' = Refused
      BY <1>6 DEF StoreTail, InHand, Refused
    <3>2. ~(exhausted \/ pc \in {"full", "refused", "stored"}) /\ pc' = "stored" /\ nextSequence' = nextSequence
      BY <1>0, <1>6 DEF StoreTail
    <3>3. QED
      BY <1>0, <3>1, <3>2 DEF Offered, Numbers
  <2>2. Queued' = Queued + 1 /\ Queued < Capacity /\ tail = Ahead(head, Queued)
    BY <1>0, <1>6, DistanceFollowing DEF StoreTail, RingInv, DaemonInv, Queued
  <2>3. /\ Waiting \in Seq(Numbers) /\ Len(Waiting) = Queued
        /\ \A k \in 1..Queued : Waiting[k] = slots[Slot(Ahead(head, k - 1))]
    BY WaitingType
  <2>4. /\ Waiting' \in Seq(Numbers) /\ Len(Waiting') = Queued + 1
        /\ \A k \in 1..Queued + 1 : Waiting'[k] = slots[Slot(Ahead(head, k - 1))]
    <3>1. /\ Waiting' \in Seq(Numbers) /\ Len(Waiting') = Queued'
          /\ \A k \in 1..Queued' : Waiting'[k] = slots'[Slot(Ahead(head', k - 1))]
      <4>1. slots' \in [Places -> Numbers] /\ head' \in Indices /\ Queued' \in 0..Capacity
        BY <1>a
      <4>2. QED
        BY <4>1, SlotsAsSequence DEF Waiting
    <3>2. QED
      BY <1>6, <2>2, <3>1 DEF StoreTail
  <2>5. Waiting' = Append(Waiting, Offered)
    <3>1. Waiting'[Queued + 1] = nextSequence
      <4>1. Queued + 1 \in 1..Queued + 1 /\ (Queued + 1) - 1 = Queued
        BY <1>0
      <4>2. slots[Slot(tail)] = nextSequence
        BY <1>6 DEF StoreTail, RingInv, DaemonInv
      <4>3. QED
        BY <2>2, <2>4, <4>1, <4>2
    <3>2. \A k \in 1..Queued : Waiting'[k] = Waiting[k]
      BY <1>0, <2>3, <2>4
    <3>3. /\ Append(Waiting, nextSequence) \in Seq(Numbers)
          /\ Len(Append(Waiting, nextSequence)) = Queued + 1
          /\ \A k \in 1..Queued : Append(Waiting, nextSequence)[k] = Waiting[k]
          /\ Append(Waiting, nextSequence)[Queued + 1] = nextSequence
      BY <1>0, <2>3, AppendProperties
    <3>4. \A k \in 1..Queued + 1 : Waiting'[k] = Append(Waiting, nextSequence)[k]
      BY <1>0, <3>1, <3>2, <3>3
    <3>5. QED
      BY <2>1, <2>4, <3>3, <3>4, SeqEqual
  <2>6. Log!Accept
    BY <1>0, <2>1, <2>2, <2>3, <2>5 DEF Log!Accept, Log!Offer, Numbers
  <2>7. QED
    BY <2>6 DEF Log!Next
<1>7. CASE AdvanceSequence
  <2>1. Waiting' = Waiting /\ InHand' = InHand /\ log' = log /\ Refused' = Refused
    BY <1>1, <1>7 DEF AdvanceSequence, InHand, Refused
  <2>2. Offered' = Offered
    BY <1>0, <1>7 DEF AdvanceSequence, Offered, Numbers
  <2>3. QED
    BY <2>1, <2>2 DEF Log!vars
<1>8. CASE Notify
  BY <1>1, <1>8 DEF Notify, Log!vars, Offered, InHand, Refused
<1>9. CASE TakeNotification
  BY <1>1, <1>9 DEF TakeNotification, Log!vars, Offered, InHand, Refused
<1>10. CASE LoadTail
  BY <1>1, <1>10 DEF LoadTail, Log!vars, Offered, InHand, Refused
<1>11. CASE FinishCopy
  BY <1>1, <1>11 DEF FinishCopy, Log!vars, Offered, InHand, Refused
<1>12. CASE StoreHead
  <2>1. log' = log /\ Offered' = Offered /\ Refused' = Refused /\ InHand = <<>> /\ InHand' = <<record>>
    BY <1>12 DEF StoreHead, InHand, Offered, Refused
  <2>2. Queued' = Queued - 1 /\ Queued > 0 /\ record = slots[Slot(head)]
    BY <1>0, <1>12, DistanceFollowing DEF StoreHead, RingInv, DrainInv, Queued
  <2>3. /\ Waiting \in Seq(Numbers) /\ Len(Waiting) = Queued /\ Waiting[1] = record
        /\ \A k \in 1..Queued : Waiting[k] = slots[Slot(Ahead(head, k - 1))]
    BY <2>2, WaitingType
  <2>4. /\ Waiting' \in Seq(Numbers) /\ Len(Waiting') = Queued - 1
        /\ \A k \in 1..Queued - 1 : Waiting'[k] = slots[Slot(Ahead(Following(head), k - 1))]
    <3>1. /\ Waiting' \in Seq(Numbers) /\ Len(Waiting') = Queued'
          /\ \A k \in 1..Queued' : Waiting'[k] = slots'[Slot(Ahead(head', k - 1))]
      <4>1. slots' \in [Places -> Numbers] /\ head' \in Indices /\ Queued' \in 0..Capacity
        BY <1>a
      <4>2. QED
        BY <4>1, SlotsAsSequence DEF Waiting
    <3>2. QED
      BY <1>12, <2>2, <3>1 DEF StoreHead
  <2>5. Waiting # <<>> /\ Head(Waiting) = record
    BY <1>0, <2>2, <2>3
  <2>6. Waiting' = Tail(Waiting)
    <3>1. ASSUME NEW k \in 1..Queued - 1 PROVE Waiting'[k] = Waiting[k + 1]
      <4>1. k - 1 \in 0..Capacity /\ k - 1 < Capacity /\ k + 1 \in 1..Queued /\ (k + 1) - 1 = (k - 1) + 1
        BY <1>0, CapacityAssumption
      <4>2. Ahead(Following(head), k - 1) = Ahead(head, (k - 1) + 1)
        BY <1>0, <4>1, AheadFollowing
      <4>3. QED
        BY <2>3, <2>4, <4>1, <4>2
    <3>2. /\ Tail(Waiting) \in Seq(Numbers) /\ Len(Tail(Waiting)) = Queued - 1
          /\ \A k \in 1..Queued - 1 : Tail(Waiting)[k] = Waiting[k + 1]
      BY <1>0, <2>2, <2>3, <2>5, HeadTailProperties
    <3>3. \A k \in 1..Queued - 1 : Waiting'[k] = Tail(Waiting)[k]
      BY <3>1, <3>2
    <3>4. QED
      BY <2>4, <3>2, <3>3, SeqEqual
  <2>7. Log!Take
    BY <2>1, <2>5, <2>6 DEF Log!Take
  <2>8. QED
    BY <2>7 DEF Log!Next
<1>13. CASE ReadCounter
  BY <1>1, <1>13 DEF ReadCounter, Log!vars, Offered, InHand, Refused
<1>14. CASE WriteLine
  <2>1. Waiting' = Waiting /\ Offered' = Offered /\ Refused' = Refused
    BY <1>1, <1>14 DEF WriteLine, Offered, Refused
  <2>2. InHand = <<record>> /\ InHand' = <<>> /\ InHand[1] = record
    BY <1>14 DEF WriteLine, InHand
  <2>3. dropped \in 0..Refused
    BY <1>0 DEF Refused
  <2>4. log' = Append(log, [sequence |-> InHand[1], dropped |-> dropped])
    BY <1>14, <2>2 DEF WriteLine
  <2>5. Log!Write
    BY <2>1, <2>2, <2>3, <2>4 DEF Log!Write
  <2>6. QED
    BY <2>5 DEF Log!Next
<1>15. CASE UNCHANGED vars
  BY <1>1, <1>15 DEF vars, Log!vars, Offered, InHand, Refused
<1>16. QED
  BY <1>2, <1>3, <1>4, <1>5, <1>6, <1>7, <1>8, <1>9, <1>10, <1>11, <1>12, <1>13, <1>14, <1>15
     DEF Next, FinishPublish, Drain

(* The ring implements the queue that loses only when it is full, for      *)
(* every capacity and every range of the indexes, counter and numbers.     *)
THEOREM RingIsAQueue == Spec => ImplementsLog
BY RingInit, RingStep, LogInit, LogStep, PTL DEF Spec, ImplementsLog, Log!Spec
=============================================================================
