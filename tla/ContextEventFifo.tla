--------------------------- MODULE ContextEventFifo ---------------------------
(***************************************************************************)
(* systolic/context_event_fifo.v: the queue that carries PSUM allocation,  *)
(* commit and release events from the pulses that raise them to the        *)
(* scoreboard.  One action is one rising clock edge.  Unlike the lifecycle *)
(* queue it never accepts an event while full, even on an edge that takes  *)
(* the head, and its registered head is loaded by three separate rules.    *)
(*                                                                         *)
(* handed is a history variable: the word the consumer latched.            *)
(***************************************************************************)
EXTENDS Naturals, Sequences

CONSTANTS
  DEPTH,            \* parameter DEPTH
  Event,            \* the payloads
  NoEvent,          \* the zero payload of an invalid output
  REGISTERED_HEAD   \* parameter REGISTERED_HEAD

VARIABLES
  mem, wr_ptr_q, rd_ptr_q, count_q,   \* the ring
  head_q,                             \* the registered head
  overflow_sticky,
  handed

ringVars == <<mem, wr_ptr_q, rd_ptr_q, count_q>>
vars == <<ringVars, head_q, overflow_sticky, handed>>

Slots == 0 .. DEPTH - 1

ptr_next(ptr) == IF ptr = DEPTH - 1 THEN 0 ELSE ptr + 1

empty == count_q = 0
full == count_q = DEPTH
\* Mutant: the full test is off by one.
in_readyOffByOne == count_q <= DEPTH

in_ready == ~full
out_valid == ~empty
out_data == IF empty THEN NoEvent
            ELSE IF REGISTERED_HEAD THEN head_q ELSE mem[rd_ptr_q]

\* The reset clears the registered head but not the memory.
Init ==
  /\ mem \in [Slots -> Event]
  /\ wr_ptr_q = 0 /\ rd_ptr_q = 0 /\ count_q = 0
  /\ head_q = NoEvent /\ overflow_sticky = FALSE
  /\ handed = NoEvent

Reset ==
  /\ wr_ptr_q' = 0 /\ rd_ptr_q' = 0 /\ count_q' = 0
  /\ head_q' = NoEvent /\ overflow_sticky' = FALSE
  /\ handed' = NoEvent
  /\ UNCHANGED mem

\* A first event goes straight to the head, so does one that replaces the only
\* resident event; otherwise a departing head is succeeded from the ring.
HeadNext(push_fire, pop_fire, in_data) ==
  IF ~REGISTERED_HEAD THEN head_q
  ELSE IF push_fire /\ (empty \/ (pop_fire /\ count_q = 1)) THEN in_data
  ELSE IF pop_fire /\ count_q > 1 THEN mem[ptr_next(rd_ptr_q)]
  ELSE head_q

CountNext(push_fire, pop_fire) ==
  IF push_fire = pop_fire THEN count_q
  ELSE IF push_fire THEN count_q + 1 ELSE count_q - 1

Edge(in_valid, in_data, out_ready) ==
  LET push_fire == in_valid /\ in_ready
      pop_fire == out_valid /\ out_ready
  IN /\ overflow_sticky' = (overflow_sticky \/ (in_valid /\ ~in_ready))
     /\ mem' = IF push_fire THEN [mem EXCEPT ![wr_ptr_q] = in_data] ELSE mem
     /\ wr_ptr_q' = IF push_fire THEN ptr_next(wr_ptr_q) ELSE wr_ptr_q
     /\ rd_ptr_q' = IF pop_fire THEN ptr_next(rd_ptr_q) ELSE rd_ptr_q
     /\ count_q' = CountNext(push_fire, pop_fire)
     /\ head_q' = HeadNext(push_fire, pop_fire, in_data)
     /\ handed' = IF pop_fire THEN out_data ELSE NoEvent

Next ==
  \/ \E in_valid, out_ready \in BOOLEAN, e \in Event :
        Edge(in_valid, e, out_ready)
  \/ Reset

Spec == Init /\ [][Next]_vars

-----------------------------------------------------------------------------
\* The slot that holds the event k places behind the head.
SlotAt(k) == IF rd_ptr_q + k < DEPTH THEN rd_ptr_q + k ELSE rd_ptr_q + k - DEPTH

held == [k \in 1 .. count_q |-> mem[SlotAt(k - 1)]]

TypeOK ==
  /\ mem \in [Slots -> Event] /\ head_q \in Event \cup {NoEvent}
  /\ wr_ptr_q \in Slots /\ rd_ptr_q \in Slots /\ count_q \in 0 .. DEPTH
  /\ overflow_sticky \in BOOLEAN
  /\ handed \in Event \cup {NoEvent}

\* The pointers are count_q apart and the registered head, when built in, is
\* the word at the read pointer of a queue that is not empty: the three rules
\* that load it, and the fourth case in which it stays, leave no gap.
RingInv ==
  /\ wr_ptr_q = IF full THEN rd_ptr_q ELSE SlotAt(count_q)
  /\ REGISTERED_HEAD /\ ~empty => head_q = mem[rd_ptr_q]

IInv == TypeOK /\ RingInv

Fifo == INSTANCE BoundedFifo WITH
          Capacity <- DEPTH, Item <- Event, NoItem <- NoEvent,
          ReplaceWhenFull <- FALSE, queue <- held, handed <- handed

\* Every edge is an edge of a bounded FIFO that refuses an event while full:
\* an event that was accepted is delivered once and in order.
FifoSpec == Fifo!FifoSpec
-----------------------------------------------------------------------------
\* What the parameters of an instance satisfy.
Sized == DEPTH \in Nat \ {0} /\ REGISTERED_HEAD \in BOOLEAN
=============================================================================
