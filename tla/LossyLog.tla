------------------------------ MODULE LossyLog ------------------------------
(***************************************************************************)
(* What the signed-current observation promises to the reader of the log:  *)
(* the records are numbered, a record is refused only while Capacity       *)
(* others wait, and the others are written in their order, each with a     *)
(* number of refused records that had been reached before.                 *)
(***************************************************************************)
EXTENDS Naturals, Sequences

CONSTANTS
  Capacity,    \* records that can wait
  SequenceMax, \* the last number a record can have
  CounterMax   \* where the count of refused records stops

VARIABLES
  next,        \* the number of the next record
  queue,       \* the numbers of those that wait
  hand,        \* the one taken and not yet written, as a sequence
  lost,        \* records refused, up to CounterMax
  log          \* the lines written

vars == <<next, queue, hand, lost, log>>

Init ==
  /\ next = 0
  /\ queue = <<>> /\ hand = <<>>
  /\ lost = 0
  /\ log = <<>>

Offer == /\ next <= SequenceMax
         /\ next' = next + 1

Accept ==
  /\ Offer
  /\ Len(queue) < Capacity
  /\ queue' = Append(queue, next)
  /\ UNCHANGED <<hand, lost, log>>

Refuse ==
  /\ Offer
  /\ Len(queue) = Capacity
  /\ lost' = IF lost < CounterMax THEN lost + 1 ELSE lost
  /\ UNCHANGED <<queue, hand, log>>

Take ==
  /\ queue # <<>> /\ hand = <<>>
  /\ hand' = <<Head(queue)>>
  /\ queue' = Tail(queue)
  /\ UNCHANGED <<next, lost, log>>

Write ==
  /\ hand # <<>>
  /\ \E n \in 0..lost : log' = Append(log, [sequence |-> hand[1], dropped |-> n])
  /\ hand' = <<>>
  /\ UNCHANGED <<next, queue, lost>>

Next == Accept \/ Refuse \/ Take \/ Write

Spec == Init /\ [][Next]_vars
=============================================================================
