----------------------------- MODULE BoundedFifo -----------------------------
(***************************************************************************)
(* What both descriptor queues of the tagged pipeline promise: a bounded   *)
(* first-in first-out queue on which one clock edge may put an item, take  *)
(* the oldest item, or do both.  LifecycleQueue and ContextEventFifo       *)
(* implement it with a ring of slots and an optional registered head.      *)
(***************************************************************************)
EXTENDS Naturals, Sequences

CONSTANTS
  Capacity,         \* how many items the queue holds
  Item,             \* the items
  NoItem,           \* "nothing was handed over on this edge"
  ReplaceWhenFull   \* may a full queue take an item while its head leaves?

VARIABLES
  queue,      \* the items held, oldest first
  handed      \* the item the last edge handed to the consumer, or NoItem

fifoVars == <<queue, handed>>

FifoInit == queue = <<>> /\ handed = NoItem

\* The item an edge that puts one leaves at the tail.
Arrived == queue'[Len(queue')]

Put ==
  /\ Len(queue) < Capacity
  /\ queue' # <<>> /\ Arrived \in Item
  /\ queue' = Append(queue, Arrived)
  /\ handed' = NoItem

Take ==
  /\ queue # <<>>
  /\ queue' = Tail(queue)
  /\ handed' = Head(queue)

PutTake ==
  /\ queue # <<>>
  /\ Len(queue) < Capacity \/ ReplaceWhenFull
  /\ queue' # <<>> /\ Arrived \in Item
  /\ queue' = Append(Tail(queue), Arrived)
  /\ handed' = Head(queue)

Idle == handed' = NoItem /\ UNCHANGED queue

Clear == queue' = <<>> /\ handed' = NoItem

FifoNext == Idle \/ Put \/ Take \/ PutTake \/ Clear

FifoSpec == FifoInit /\ [][FifoNext]_fifoVars
=============================================================================
