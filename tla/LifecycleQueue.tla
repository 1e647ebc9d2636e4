---------------------------- MODULE LifecycleQueue ----------------------------
(***************************************************************************)
(* systolic/context_lifecycle_queue.v: the descriptor queue between the    *)
(* Prepare, Execute and Retire contexts.  One action is one rising clock   *)
(* edge: the requests on the two ports are inputs of the edge, and every   *)
(* register is assigned from the values before it.                         *)
(*                                                                         *)
(* A descriptor is moved atomically, so it is one value of Desc.  The      *)
(* ports' payload outputs, which the consumer latches on the edge at which *)
(* it takes a descriptor, are the history variable handed.                 *)
(***************************************************************************)
EXTENDS Naturals, Sequences

CONSTANTS
  DEPTH,            \* parameter DEPTH
  Desc,             \* the descriptors
  NoDesc,           \* the all-zero payload of an invalid port
  REGISTERED_HEAD,  \* parameter REGISTERED_HEAD
  CountMod          \* the counters are 32-bit: they wrap at 2^32

ASSUME DepthAssumption == DEPTH \in Nat \ {0}
ASSUME DescAssumption == NoDesc \notin Desc
ASSUME HeadAssumption == REGISTERED_HEAD \in BOOLEAN
ASSUME CountAssumption == CountMod \in Nat \ {0}

VARIABLES
  desc_mem, wr_ptr, rd_ptr, count,    \* the ring
  head_desc, head_valid,              \* the registered head
  push_count, pop_count,              \* transfers since reset
  overflow_sticky, overflow_count, overflow_episode,
  underflow_sticky, underflow_count, underflow_episode,
  handed

ringVars == <<desc_mem, wr_ptr, rd_ptr, count>>
headVars == <<head_desc, head_valid>>
countVars == <<push_count, pop_count>>
overflowVars == <<overflow_sticky, overflow_count, overflow_episode>>
underflowVars == <<underflow_sticky, underflow_count, underflow_episode>>
vars == <<ringVars, headVars, countVars, overflowVars, underflowVars, handed>>

Slots == 0 .. DEPTH - 1

PtrNext(ptr) == IF ptr = DEPTH - 1 THEN 0 ELSE ptr + 1
Bump(n) == (n + 1) % CountMod

PopValid == IF REGISTERED_HEAD THEN head_valid ELSE count # 0
PushReady(pop_ready) == count # DEPTH \/ pop_ready
PopDesc == IF REGISTERED_HEAD THEN head_desc ELSE desc_mem[rd_ptr]

Reset ==
  /\ wr_ptr' = 0 /\ rd_ptr' = 0 /\ count' = 0
  /\ head_valid' = FALSE
  /\ push_count' = 0 /\ pop_count' = 0
  /\ overflow_sticky' = FALSE /\ overflow_count' = 0
  /\ overflow_episode' = FALSE
  /\ underflow_sticky' = FALSE /\ underflow_count' = 0
  /\ underflow_episode' = FALSE
  /\ handed' = NoDesc
  /\ UNCHANGED <<desc_mem, head_desc>>

\* The memory and the head register are not reset: any content is possible.
Init ==
  /\ desc_mem \in [Slots -> Desc] /\ head_desc \in Desc
  /\ wr_ptr = 0 /\ rd_ptr = 0 /\ count = 0
  /\ head_valid = FALSE
  /\ push_count = 0 /\ pop_count = 0
  /\ overflow_sticky = FALSE /\ overflow_count = 0
  /\ overflow_episode = FALSE
  /\ underflow_sticky = FALSE /\ underflow_count = 0
  /\ underflow_episode = FALSE
  /\ handed = NoDesc

Overflow(attempt) ==
  /\ overflow_episode' = attempt
  /\ overflow_sticky' = (overflow_sticky \/ attempt)
  /\ overflow_count' = IF attempt /\ ~overflow_episode
                       THEN Bump(overflow_count) ELSE overflow_count

Underflow(attempt) ==
  /\ underflow_episode' = attempt
  /\ underflow_sticky' = (underflow_sticky \/ attempt)
  /\ underflow_count' = IF attempt /\ ~underflow_episode
                        THEN Bump(underflow_count) ELSE underflow_count

\* Mutant: the successor is read at the pointer before it moves.
HeadNextStale(push_fire, pop_fire, push_desc) ==
  IF ~REGISTERED_HEAD THEN head_desc
  ELSE IF pop_fire /\ count > 1 THEN desc_mem[rd_ptr]
  ELSE IF push_fire /\ (pop_fire \/ count = 0) THEN push_desc
  ELSE head_desc

\* The head register takes the successor of a departing head from the ring, or
\* the incoming descriptor when it is the only one left or the first one.
HeadNext(push_fire, pop_fire, push_desc) ==
  IF ~REGISTERED_HEAD THEN head_desc
  ELSE IF pop_fire /\ count > 1 THEN desc_mem[PtrNext(rd_ptr)]
  ELSE IF push_fire /\ (pop_fire \/ count = 0) THEN push_desc
  ELSE head_desc

HeadValidNext(push_fire, pop_fire) ==
  /\ REGISTERED_HEAD
  /\ \/ push_fire
     \/ pop_fire /\ count > 1
     \/ ~pop_fire /\ head_valid

\* Mutant: on an edge with both transfers only the push is counted.
CountNextPushWins(push_fire, pop_fire) ==
  IF push_fire THEN IF count = DEPTH THEN count ELSE count + 1
  ELSE IF pop_fire THEN count - 1 ELSE count

CountNext(push_fire, pop_fire) ==
  IF push_fire = pop_fire THEN count
  ELSE IF push_fire THEN count + 1 ELSE count - 1

\* One clock edge with rst low.
Edge(push_valid, push_desc, pop_ready) ==
  LET push_fire == push_valid /\ PushReady(pop_ready)
      pop_fire == pop_ready /\ PopValid
  IN /\ Overflow(push_valid /\ ~push_fire)
     /\ Underflow(pop_ready /\ ~pop_fire)
     /\ desc_mem' = IF push_fire THEN [desc_mem EXCEPT ![wr_ptr] = push_desc]
                    ELSE desc_mem
     /\ wr_ptr' = IF push_fire THEN PtrNext(wr_ptr) ELSE wr_ptr
     /\ rd_ptr' = IF pop_fire THEN PtrNext(rd_ptr) ELSE rd_ptr
     /\ push_count' = IF push_fire THEN Bump(push_count) ELSE push_count
     /\ pop_count' = IF pop_fire THEN Bump(pop_count) ELSE pop_count
     /\ count' = CountNext(push_fire, pop_fire)
     /\ head_desc' = HeadNext(push_fire, pop_fire, push_desc)
     /\ head_valid' = HeadValidNext(push_fire, pop_fire)
     /\ handed' = IF pop_fire THEN PopDesc ELSE NoDesc

Next ==
  \/ \E push_valid, pop_ready \in BOOLEAN, d \in Desc :
        Edge(push_valid, d, pop_ready)
  \/ Reset

Spec == Init /\ [][Next]_vars

-----------------------------------------------------------------------------
\* The slot that holds the item k places behind the head.
SlotAt(k) == IF rd_ptr + k < DEPTH THEN rd_ptr + k ELSE rd_ptr + k - DEPTH

held == [k \in 1 .. count |-> desc_mem[SlotAt(k - 1)]]

TypeOK ==
  /\ desc_mem \in [Slots -> Desc] /\ head_desc \in Desc
  /\ wr_ptr \in Slots /\ rd_ptr \in Slots /\ count \in 0 .. DEPTH
  /\ head_valid \in BOOLEAN
  /\ push_count \in Nat /\ pop_count \in Nat
  /\ overflow_sticky \in BOOLEAN /\ overflow_episode \in BOOLEAN
  /\ underflow_sticky \in BOOLEAN /\ underflow_episode \in BOOLEAN
  /\ overflow_count \in Nat /\ underflow_count \in Nat
  /\ handed \in Desc \cup {NoDesc}

\* The write pointer is count places behind the read pointer, and the
\* registered head, when the timing cut is built in, is valid exactly while
\* the ring is not empty and equals the word at the read pointer.
RingInv ==
  /\ wr_ptr = IF count = DEPTH THEN rd_ptr ELSE SlotAt(count)
  /\ REGISTERED_HEAD => (head_valid <=> count # 0)
  /\ REGISTERED_HEAD /\ count # 0 => head_desc = desc_mem[rd_ptr]

IInv == TypeOK /\ RingInv

\* The transfer counters differ by the occupancy, modulo their width.
CountersAgree == (pop_count + count) % CountMod = push_count

Fifo == INSTANCE BoundedFifo WITH
          Capacity <- DEPTH, Item <- Desc, NoItem <- NoDesc,
          ReplaceWhenFull <- TRUE, queue <- held, handed <- handed

\* Every edge of the queue is an edge of a bounded FIFO that may replace the
\* head of a full queue: nothing is lost, repeated or reordered.
FifoSpec == Fifo!FifoSpec
=============================================================================
