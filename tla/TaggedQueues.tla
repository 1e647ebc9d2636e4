------------------------------ MODULE TaggedQueues ------------------------------
(***************************************************************************)
(* The two queues of the tagged pipeline side by side: a lifecycle queue   *)
(* and an event FIFO, of which one is chosen in the initial state and      *)
(* takes steps.  Queues.cfg gives TLC a queue of three slots and a FIFO of *)
(* four; the theorems are about any.                                       *)
(***************************************************************************)
EXTENDS LifecycleQueue, Integers, TLAPS

CONSTANT EventDepth          \* parameter DEPTH of the event FIFO

ASSUME EventDepthAssumption == EventDepth \in Nat \ {0}

VARIABLES which,
          mem, wr_ptr_q, rd_ptr_q, count_q, head_q, event_overflow, event_handed

Events == INSTANCE ContextEventFifo
    WITH DEPTH <- EventDepth, Event <- Desc, NoEvent <- NoDesc,
         overflow_sticky <- event_overflow, handed <- event_handed

event_vars == <<mem, wr_ptr_q, rd_ptr_q, count_q, head_q, event_overflow, event_handed>>

LifecycleStep == which = "lifecycle" /\ Next /\ UNCHANGED <<which, event_vars>>
EventStep     == which = "event" /\ Events!Next /\ UNCHANGED <<which, vars>>

QueuesInit == which \in {"lifecycle", "event"} /\ Init /\ Events!Init

QueuesSpec == QueuesInit /\ [][LifecycleStep \/ EventStep]_<<which, vars, event_vars>>
-----------------------------------------------------------------------------
(* The invariants of both rings, and the transfer counters of the lifecycle  *)
(* queue, which differ by its occupancy.                                    *)
QueuesConsistent == IInv /\ CountersAgree /\ Events!IInv

(* Every edge of the event FIFO is an edge of a bounded FIFO that refuses an  *)
(* event while full.                                                        *)
EventFifoSpec == Events!FifoSpec
-----------------------------------------------------------------------------
(* For every depth, descriptor set and head mode: the ring invariant is     *)
(* inductive, and the queue implements BoundedFifo.                         *)

LEMMA BumpType == ASSUME NEW n \in Nat PROVE Bump(n) \in Nat
  BY CountAssumption DEF Bump

LEMMA PtrNextType == ASSUME NEW p \in Slots PROVE PtrNext(p) \in Slots
  BY DepthAssumption DEF PtrNext, Slots

LEMMA InitInv == Init => IInv
<1> SUFFICES ASSUME Init PROVE IInv
  OBVIOUS
<1>1. /\ desc_mem \in [Slots -> Desc] /\ head_desc \in Desc
      /\ handed \in Desc \cup {NoDesc}
  BY DEF Init, TypeOK
<1>2. /\ wr_ptr \in Slots /\ rd_ptr \in Slots /\ count \in 0 .. DEPTH
      /\ push_count \in Nat /\ pop_count \in Nat
      /\ overflow_count \in Nat /\ underflow_count \in Nat
  BY DepthAssumption DEF Init, Slots
<1>3. /\ head_valid \in BOOLEAN
      /\ overflow_sticky \in BOOLEAN /\ overflow_episode \in BOOLEAN
      /\ underflow_sticky \in BOOLEAN /\ underflow_episode \in BOOLEAN
  BY DEF Init
<1>4. wr_ptr = IF count = DEPTH THEN rd_ptr ELSE SlotAt(count)
  BY DepthAssumption DEF Init, SlotAt
<1>5. count = 0 /\ ~head_valid
  BY DEF Init
<1>6. RingInv
  BY <1>4, <1>5 DEF RingInv
<1> QED
  BY <1>1, <1>2, <1>3, <1>6 DEF IInv, TypeOK

LEMMA ResetInv == IInv /\ Reset => IInv'
<1> SUFFICES ASSUME IInv, Reset PROVE IInv'
  OBVIOUS
<1>1. /\ desc_mem' \in [Slots -> Desc] /\ head_desc' \in Desc
      /\ handed' \in Desc \cup {NoDesc}
  BY DEF Reset, IInv, TypeOK
<1>2. /\ wr_ptr' \in Slots /\ rd_ptr' \in Slots /\ count' \in 0 .. DEPTH
      /\ push_count' \in Nat /\ pop_count' \in Nat
      /\ overflow_count' \in Nat /\ underflow_count' \in Nat
  BY DepthAssumption DEF Reset, Slots
<1>3. /\ head_valid' \in BOOLEAN
      /\ overflow_sticky' \in BOOLEAN /\ overflow_episode' \in BOOLEAN
      /\ underflow_sticky' \in BOOLEAN /\ underflow_episode' \in BOOLEAN
  BY DEF Reset
<1>4. wr_ptr' = IF count' = DEPTH THEN rd_ptr' ELSE SlotAt(count)'
  BY DepthAssumption DEF Reset, SlotAt
<1>5. count' = 0 /\ ~head_valid'
  BY DEF Reset
<1>6. RingInv'
  BY <1>4, <1>5 DEF RingInv
<1> QED
  BY <1>1, <1>2, <1>3, <1>6 DEF IInv, TypeOK

\* What an edge does to the ring, in each of the four handshake outcomes.
LEMMA EdgeInv ==
  ASSUME IInv, NEW push_valid \in BOOLEAN, NEW pop_ready \in BOOLEAN,
         NEW d \in Desc, Edge(push_valid, d, pop_ready)
  PROVE  IInv'
<1> DEFINE push == push_valid /\ PushReady(pop_ready)
           pop == pop_ready /\ PopValid
<1>1. TypeOK /\ RingInv
  BY DEF IInv
<1>2. /\ pop => count # 0
      /\ push /\ ~pop => count < DEPTH
  BY <1>1, DepthAssumption, HeadAssumption
     DEF TypeOK, RingInv, PushReady, PopValid, Slots
<1>3. count' \in 0 .. DEPTH
  BY <1>1, <1>2, DepthAssumption DEF Edge, CountNext, TypeOK
<1>4. /\ desc_mem' \in [Slots -> Desc] /\ head_desc' \in Desc
      /\ wr_ptr' \in Slots /\ rd_ptr' \in Slots
      /\ head_valid' \in BOOLEAN
      /\ handed' \in Desc \cup {NoDesc}
  BY <1>1, PtrNextType DEF Edge, TypeOK, HeadNext, HeadValidNext, PopDesc
<1>5. push_count' \in Nat /\ pop_count' \in Nat
  BY <1>1, BumpType DEF Edge, TypeOK
<1>6. /\ overflow_sticky' \in BOOLEAN /\ overflow_episode' \in BOOLEAN
      /\ overflow_count' \in Nat
      /\ underflow_sticky' \in BOOLEAN /\ underflow_episode' \in BOOLEAN
      /\ underflow_count' \in Nat
  BY <1>1, BumpType DEF Edge, TypeOK, Overflow, Underflow
<1>7. wr_ptr' = IF count' = DEPTH THEN rd_ptr' ELSE SlotAt(count)'
  BY <1>1, <1>2, DepthAssumption
     DEF Edge, TypeOK, RingInv, CountNext, PtrNext, Slots, SlotAt
<1>8. REGISTERED_HEAD => (head_valid' <=> count' # 0)
  BY <1>1, <1>2, <1>3, DepthAssumption
     DEF Edge, TypeOK, RingInv, CountNext, HeadValidNext
<1>9. REGISTERED_HEAD /\ count' # 0 => head_desc' = desc_mem'[rd_ptr']
  BY <1>1, <1>2, DepthAssumption
     DEF Edge, TypeOK, RingInv, CountNext, HeadNext, PtrNext, Slots, SlotAt
<1> QED
  BY <1>3, <1>4, <1>5, <1>6, <1>7, <1>8, <1>9 DEF IInv, TypeOK, RingInv

\* The ring invariant holds in every reachable state.
THEOREM RingCorrect == Spec => []IInv
<1>1. IInv /\ [Next]_vars => IInv'
  <2> SUFFICES ASSUME IInv, [Next]_vars PROVE IInv'
    OBVIOUS
  <2>1. CASE Reset
    BY <2>1, ResetInv
  <2>2. CASE \E push_valid, pop_ready \in BOOLEAN, d \in Desc :
               Edge(push_valid, d, pop_ready)
    BY <2>2, EdgeInv
  <2>3. CASE UNCHANGED vars
    BY <2>3 DEF vars, ringVars, headVars, countVars, overflowVars,
                underflowVars, IInv, TypeOK, RingInv, SlotAt, Slots
  <2> QED
    BY <2>1, <2>2, <2>3 DEF Next
<1> QED
  BY <1>1, InitInv, PTL DEF Spec

-----------------------------------------------------------------------------
\* Quotient and remainder, and that they are unique.
LEMMA Parts ==
  ASSUME NEW a \in Nat, NEW m \in Nat \ {0}
  PROVE  /\ a \div m \in Nat /\ a % m \in 0 .. m - 1
         /\ a = (a \div m) * m + (a % m)
  BY SMTT(30)

LEMMA Residue ==
  ASSUME NEW m \in Nat \ {0}, NEW q \in Nat, NEW r \in 0 .. m - 1
  PROVE  (q * m + r) % m = r
<1> DEFINE a == q * m + r
           p == a \div m
           s == a % m
<1>1. q * m \in Nat /\ a \in Nat
  BY SMTT(30)
<1>2. p \in Nat /\ s \in 0 .. m - 1 /\ a = p * m + s
  BY <1>1, Parts
<1> HIDE DEF p, s
<1>3. p = q
  <2>1. CASE p < q
    <3>1. (p + 1) * m <= q * m /\ (p + 1) * m = p * m + m
      BY <2>1, <1>2, SMTT(30)
    <3>2. p * m \in Int
      BY <1>2
    <3> QED BY <3>1, <3>2, <1>1, <1>2
  <2>2. CASE q < p
    <3>1. (q + 1) * m <= p * m /\ (q + 1) * m = q * m + m
      BY <2>2, <1>2, SMTT(30)
    <3>2. p * m \in Int
      BY <1>2
    <3> QED BY <3>1, <3>2, <1>1, <1>2
  <2> QED BY <2>1, <2>2, <1>2
<1>4. s = r
  BY <1>1, <1>2, <1>3
<1> QED BY <1>4 DEF s

\* A summand may be taken modulo m first.
LEMMA ResidueOfSum ==
  ASSUME NEW m \in Nat \ {0}, NEW a \in Nat, NEW b \in Nat
  PROVE  ((a % m) + b) % m = (a + b) % m
<1>1. PICK q \in Nat, r \in 0 .. m - 1 : a = q * m + r /\ a % m = r
  BY Parts
<1>2. PICK p \in Nat, s \in 0 .. m - 1 : r + b = p * m + s
  <2> DEFINE c == r + b
  <2>1. c \in Nat
    BY <1>1
  <2> HIDE DEF c
  <2>2. c \div m \in Nat /\ c % m \in 0 .. m - 1 /\ c = (c \div m) * m + (c % m)
    BY <2>1, Parts
  <2> QED BY <2>2 DEF c
<1>3. a + b = (q + p) * m + s
  <2>1. (q + p) * m = q * m + p * m /\ q * m \in Nat /\ p * m \in Nat
    BY SMTT(30)
  <2> QED BY <2>1, <1>1, <1>2
<1>4. (r + b) % m = s
  BY <1>2, Residue
<1>5. (a + b) % m = s
  <2>1. q + p \in Nat
    OBVIOUS
  <2>2. ((q + p) * m + s) % m = s
    BY <2>1, Residue
  <2> QED BY <2>2, <1>3
<1> QED BY <1>1, <1>4, <1>5

\* Each edge moves the occupancy and the two counters alike, also when a
\* counter wraps and when both transfers meet on one edge.
LEMMA EdgeCounts ==
  ASSUME IInv, CountersAgree, NEW push_valid \in BOOLEAN, NEW pop_ready \in BOOLEAN,
         NEW d \in Desc, Edge(push_valid, d, pop_ready)
  PROVE  CountersAgree'
<1> DEFINE push == push_valid /\ PushReady(pop_ready)
           pop == pop_ready /\ PopValid
<1> USE CountAssumption
<1>1. pop_count \in Nat /\ count \in Nat /\ push_count = (pop_count + count) % CountMod
  BY DepthAssumption DEF IInv, TypeOK, CountersAgree
<1>2. pop => count # 0
  BY DepthAssumption, HeadAssumption DEF IInv, TypeOK, RingInv, PopValid
<1>3. Bump(push_count) = (pop_count + count + 1) % CountMod
  <2>1. pop_count + count \in Nat /\ 1 \in Nat
    BY <1>1
  <2>2. (((pop_count + count) % CountMod) + 1) % CountMod = (pop_count + count + 1) % CountMod
    BY <2>1, ResidueOfSum
  <2> QED BY <2>2, <1>1 DEF Bump
<1>4. /\ (Bump(pop_count) + count) % CountMod = (pop_count + count + 1) % CountMod
      /\ count # 0 => (Bump(pop_count) + (count - 1)) % CountMod = (pop_count + count) % CountMod
  <2>1. ASSUME NEW b \in Nat
        PROVE  (Bump(pop_count) + b) % CountMod = (pop_count + 1 + b) % CountMod
    <3>1. pop_count + 1 \in Nat
      BY <1>1
    <3>2. (((pop_count + 1) % CountMod) + b) % CountMod = (pop_count + 1 + b) % CountMod
      BY <3>1, ResidueOfSum
    <3> QED BY <3>2 DEF Bump
  <2> QED BY <2>1, <1>1
<1>5. /\ push_count' = (IF push THEN Bump(push_count) ELSE push_count)
      /\ pop_count' = (IF pop THEN Bump(pop_count) ELSE pop_count)
      /\ count' = (IF push = pop THEN count ELSE IF push THEN count + 1 ELSE count - 1)
  BY DEF Edge, CountNext
<1>6. CASE push /\ pop
  BY <1>6, <1>3, <1>4, <1>5 DEF CountersAgree
<1>7. CASE push /\ ~pop
  <2>1. pop_count' + count' = pop_count + count + 1
    BY <1>1, <1>5, <1>7
  <2> QED BY <2>1, <1>3, <1>5, <1>7 DEF CountersAgree
<1>8. CASE ~push /\ pop
  BY <1>8, <1>1, <1>2, <1>4, <1>5 DEF CountersAgree
<1>9. CASE ~push /\ ~pop
  BY <1>9, <1>1, <1>5 DEF CountersAgree
<1> QED BY <1>6, <1>7, <1>8, <1>9

\* The counters of transfers differ by what the queue holds, however often
\* they have wrapped.
THEOREM CountersCorrect == Spec => []CountersAgree
<1>1. Init => CountersAgree
  <2>1. 0 % CountMod = 0
    BY CountAssumption, Residue, 0 * CountMod + 0 = 0, 0 \in 0 .. CountMod - 1
  <2> QED BY <2>1 DEF Init, CountersAgree
<1>2. IInv /\ CountersAgree /\ [Next]_vars => CountersAgree'
  <2> SUFFICES ASSUME IInv, CountersAgree, [Next]_vars PROVE CountersAgree'
    OBVIOUS
  <2>1. CASE Reset
    <3>1. 0 % CountMod = 0
      BY CountAssumption, Residue, 0 * CountMod + 0 = 0, 0 \in 0 .. CountMod - 1
    <3> QED BY <2>1, <3>1 DEF Reset, CountersAgree
  <2>2. CASE \E push_valid, pop_ready \in BOOLEAN, d \in Desc :
               Edge(push_valid, d, pop_ready)
    BY <2>2, EdgeCounts
  <2>3. CASE UNCHANGED vars
    BY <2>3 DEF vars, ringVars, countVars, CountersAgree
  <2> QED
    BY <2>1, <2>2, <2>3 DEF Next
<1> QED
  BY <1>1, <1>2, RingCorrect, PTL DEF Spec

-----------------------------------------------------------------------------
\* The ring read from the head is a sequence of descriptors.
HeldShape ==
  /\ count \in Nat
  /\ held \in Seq(Desc) /\ Len(held) = count
  /\ \A k \in 1 .. count : held[k] = desc_mem[SlotAt(k - 1)]

LEMMA HeldType == TypeOK => HeldShape
<1> SUFFICES ASSUME TypeOK PROVE HeldShape
  OBVIOUS
<1>1. \A k \in 1 .. count : SlotAt(k - 1) \in Slots
  BY DepthAssumption DEF TypeOK, SlotAt, Slots
<1>2. \A k \in 1 .. count : desc_mem[SlotAt(k - 1)] \in Desc
  BY <1>1 DEF TypeOK
<1>3. count \in Nat
  BY DepthAssumption DEF TypeOK
<1> QED
  BY <1>2, <1>3 DEF held, HeldShape

LEMMA HeldTypeNext == TypeOK' => HeldShape'
  BY HeldType, PTL

\* Only a push writes the memory, and it writes the one slot behind the tail,
\* so every slot that stays in the queue keeps its descriptor.
LEMMA PushSlot ==
  ASSUME IInv, NEW d \in Desc, count < DEPTH,
         desc_mem' = [desc_mem EXCEPT ![wr_ptr] = d]
  PROVE  /\ \A k \in 1 .. count : desc_mem'[SlotAt(k - 1)] = held[k]
         /\ desc_mem'[SlotAt(count)] = d
<1>1. /\ TypeOK /\ wr_ptr = SlotAt(count) /\ wr_ptr \in Slots
      /\ desc_mem \in [Slots -> Desc]
  BY DepthAssumption DEF IInv, TypeOK, RingInv
<1>2. \A k \in 1 .. count : SlotAt(k - 1) # SlotAt(count)
                          /\ SlotAt(k - 1) \in Slots
  BY <1>1, DepthAssumption DEF TypeOK, SlotAt, Slots
<1> QED
  BY <1>1, <1>2, HeldType DEF HeldShape

\* One edge of the ring is one edge of the bounded FIFO.
LEMMA EdgeRefines ==
  ASSUME IInv, IInv', NEW push_valid \in BOOLEAN, NEW pop_ready \in BOOLEAN,
         NEW d \in Desc, Edge(push_valid, d, pop_ready)
  PROVE  Fifo!FifoNext
<1> DEFINE push == push_valid /\ PushReady(pop_ready)
           pop == pop_ready /\ PopValid
<1>1. TypeOK /\ RingInv /\ TypeOK'
  BY DEF IInv
<1>2. HeldShape /\ HeldShape'
  BY <1>1, HeldType, HeldTypeNext
<1>3. /\ pop => count # 0
      /\ push /\ ~pop => count < DEPTH
  BY <1>1, DepthAssumption, HeadAssumption
     DEF TypeOK, RingInv, PushReady, PopValid, Slots
<1>4. pop => PopDesc = held[1]
  <2>1. count # 0 => held[1] = desc_mem[rd_ptr]
    BY <1>1, <1>2, DepthAssumption DEF HeldShape, SlotAt, TypeOK, Slots
  <2> QED
    BY <1>1, <1>3, <2>1 DEF PopDesc, RingInv
<1>5. CASE push /\ ~pop
  <2>1. /\ count < DEPTH /\ count' = count + 1 /\ rd_ptr' = rd_ptr
        /\ desc_mem' = [desc_mem EXCEPT ![wr_ptr] = d]
        /\ handed' = NoDesc
    BY <1>3, <1>5 DEF Edge, CountNext
  <2>2. /\ \A k \in 1 .. count : desc_mem'[SlotAt(k - 1)] = held[k]
        /\ desc_mem'[SlotAt(count)] = d
    BY <2>1, PushSlot
  <2>3. \A k \in 1 .. count + 1 : SlotAt(k - 1)' = SlotAt(k - 1)
    BY <2>1 DEF SlotAt
  <2>4. \A k \in 1 .. count + 1 : held'[k] = IF k = count + 1 THEN d ELSE held[k]
    <3>1. \A k \in 1 .. count + 1 : held'[k] = desc_mem'[SlotAt(k - 1)]
      BY <1>2, <2>1, <2>3 DEF HeldShape
    <3>2. held'[count + 1] = d
      BY <1>2, <2>2, <3>1 DEF HeldShape
    <3>3. count \in Nat
      BY <1>2 DEF HeldShape
    <3>4. ASSUME NEW k \in 1 .. count PROVE held'[k] = held[k]
      <4>1. k \in 1 .. count + 1
        BY <3>3
      <4> QED
        BY <2>2, <3>1, <4>1
    <3> QED
      BY <3>2, <3>3, <3>4
  <2>5. held' = Append(held, d)
    BY <1>2, <2>1, <2>4 DEF HeldShape
  <2>6. held' # <<>> /\ Fifo!Arrived = d
    BY <1>2, <2>5 DEF Fifo!Arrived, HeldShape
  <2> QED
    BY <1>2, <2>1, <2>5, <2>6 DEF Fifo!FifoNext, Fifo!Put, HeldShape
<1>6. CASE ~push /\ pop
  <2>1. /\ count # 0 /\ count' = count - 1 /\ rd_ptr' = PtrNext(rd_ptr)
        /\ desc_mem' = desc_mem /\ handed' = held[1]
    BY <1>3, <1>4, <1>6 DEF Edge, CountNext
  <2>2. \A k \in 1 .. count - 1 : SlotAt(k - 1)' = SlotAt(k)
    BY <1>1, <1>2, <2>1, DepthAssumption DEF SlotAt, PtrNext, TypeOK, Slots
  <2>3. held' = Tail(held)
    BY <1>2, <2>1, <2>2 DEF HeldShape
  <2> QED
    BY <1>2, <2>1, <2>3 DEF Fifo!FifoNext, Fifo!Take, HeldShape
<1>7. CASE push /\ pop
  <2>1. /\ count # 0 /\ count' = count /\ rd_ptr' = PtrNext(rd_ptr)
        /\ desc_mem' = [desc_mem EXCEPT ![wr_ptr] = d] /\ handed' = held[1]
    BY <1>3, <1>4, <1>7 DEF Edge, CountNext
  <2>2. /\ \A k \in 1 .. count - 1 : SlotAt(k - 1)' = SlotAt(k)
        /\ SlotAt(count - 1)' = wr_ptr
    BY <1>1, <1>2, <2>1, DepthAssumption
       DEF SlotAt, PtrNext, TypeOK, RingInv, Slots, HeldShape
  <2>3. /\ wr_ptr \in Slots
        /\ \A k \in 1 .. count - 1 : SlotAt(k) # wr_ptr /\ SlotAt(k) \in Slots
    BY <1>1, <1>2, DepthAssumption
       DEF SlotAt, TypeOK, RingInv, Slots, HeldShape
  <2>4. /\ \A k \in 1 .. count - 1 : desc_mem'[SlotAt(k)] = held[k + 1]
        /\ desc_mem'[wr_ptr] = d
    BY <1>1, <1>2, <2>1, <2>3 DEF HeldShape, TypeOK
  <2>5. \A k \in 1 .. count : held'[k] = IF k = count THEN d ELSE held[k + 1]
    BY <1>2, <2>1, <2>2, <2>4 DEF HeldShape
  <2>6. held' = Append(Tail(held), d)
    BY <1>2, <2>1, <2>5 DEF HeldShape
  <2>7. held' # <<>> /\ Fifo!Arrived = d
    BY <1>2, <2>1, <2>5 DEF Fifo!Arrived, HeldShape
  <2> QED
    BY <1>2, <2>1, <2>6, <2>7 DEF Fifo!FifoNext, Fifo!PutTake, HeldShape
<1>8. CASE ~push /\ ~pop
  <2>1. /\ desc_mem' = desc_mem /\ rd_ptr' = rd_ptr /\ count' = count
        /\ handed' = NoDesc
    BY <1>8 DEF Edge, CountNext
  <2>2. held' = held
    BY <2>1 DEF held, SlotAt
  <2> QED
    BY <2>1, <2>2 DEF Fifo!FifoNext, Fifo!Idle
<1> QED
  BY <1>5, <1>6, <1>7, <1>8

LEMMA ResetRefines == Reset => Fifo!Clear
  BY DEF Reset, Fifo!Clear, held

\* Nothing accepted is ever lost, repeated or reordered, for any depth and in
\* both head modes: the queue implements the bounded FIFO.
THEOREM QueueRefinesFifo == Spec => FifoSpec
<1>1. Init => Fifo!FifoInit
  BY DEF Init, Fifo!FifoInit, held
<1>2. IInv /\ IInv' /\ [Next]_vars => [Fifo!FifoNext]_(Fifo!fifoVars)
  <2> SUFFICES ASSUME IInv, IInv', [Next]_vars
               PROVE  [Fifo!FifoNext]_(Fifo!fifoVars)
    OBVIOUS
  <2>1. CASE Reset
    BY <2>1, ResetRefines DEF Fifo!FifoNext
  <2>2. CASE \E push_valid, pop_ready \in BOOLEAN, d \in Desc :
               Edge(push_valid, d, pop_ready)
    BY <2>2, EdgeRefines
  <2>3. CASE UNCHANGED vars
    BY <2>3 DEF vars, ringVars, held, SlotAt, Fifo!fifoVars
  <2> QED
    BY <2>1, <2>2, <2>3 DEF Next
<1> QED
  BY <1>1, <1>2, RingCorrect, PTL DEF Spec, FifoSpec, Fifo!FifoSpec
-----------------------------------------------------------------------------
(* The same of the event FIFO, for every depth, payload and both head modes.  *)

LEMMA EventsSized == Events!Sized
  BY EventDepthAssumption, HeadAssumption DEF Events!Sized

LEMMA EventPtrNextType ==
  ASSUME Events!Sized, NEW p \in Events!Slots PROVE Events!ptr_next(p) \in Events!Slots
  BY DEF Events!Sized, Events!ptr_next, Events!Slots

LEMMA EventInitInv == ASSUME Events!Sized, Events!Init PROVE Events!IInv
<1>1. /\ wr_ptr_q \in Events!Slots /\ rd_ptr_q \in Events!Slots /\ count_q \in 0 .. EventDepth
  BY DEF Events!Sized, Events!Init, Events!Slots
<1>2. Events!TypeOK
  BY <1>1 DEF Events!Init, Events!TypeOK
<1>3. Events!RingInv
  BY DEF Events!Sized, Events!Init, Events!RingInv, Events!full, Events!empty, Events!SlotAt
<1> QED
  BY <1>2, <1>3 DEF Events!IInv

LEMMA EventResetInv == ASSUME Events!Sized, Events!IInv, Events!Reset PROVE Events!IInv'
<1>1. /\ wr_ptr_q' \in Events!Slots /\ rd_ptr_q' \in Events!Slots /\ count_q' \in 0 .. EventDepth
  BY DEF Events!Sized, Events!Reset, Events!Slots
<1>2. Events!TypeOK'
  BY <1>1 DEF Events!Reset, Events!IInv, Events!TypeOK
<1>3. Events!RingInv'
  BY DEF Events!Sized, Events!Reset, Events!RingInv, Events!full, Events!empty, Events!SlotAt
<1> QED
  BY <1>2, <1>3 DEF Events!IInv

\* A push is refused while the queue is full, also on an edge that takes the
\* head, so the ring never holds more than DEPTH events.
LEMMA EventEdgeInv ==
  ASSUME Events!Sized, Events!IInv, NEW in_valid \in BOOLEAN, NEW out_ready \in BOOLEAN,
         NEW e \in Desc, Events!Edge(in_valid, e, out_ready)
  PROVE  Events!IInv'
<1> DEFINE push == in_valid /\ Events!in_ready
           pop == Events!out_valid /\ out_ready
<1>1. Events!TypeOK /\ Events!RingInv
  BY DEF Events!IInv
<1>2. /\ pop => count_q # 0
      /\ push => count_q < EventDepth
  BY <1>1 DEF Events!Sized, Events!TypeOK, Events!in_ready, Events!out_valid, Events!full, Events!empty
<1>3. count_q' \in 0 .. EventDepth
  BY <1>1, <1>2 DEF Events!Sized, Events!Edge, Events!CountNext, Events!TypeOK
<1>4. /\ mem' \in [Events!Slots -> Desc]
      /\ wr_ptr_q' \in Events!Slots /\ rd_ptr_q' \in Events!Slots
      /\ event_overflow' \in BOOLEAN
  BY <1>1, EventPtrNextType DEF Events!Edge, Events!TypeOK
<1>5. head_q' \in Desc \cup {NoDesc}
  BY <1>1, EventPtrNextType DEF Events!Edge, Events!TypeOK, Events!HeadNext
<1>6. event_handed' \in Desc \cup {NoDesc}
  BY <1>1 DEF Events!Edge, Events!TypeOK, Events!out_data
<1>7. wr_ptr_q' = IF count_q' = EventDepth THEN rd_ptr_q' ELSE Events!SlotAt(count_q)'
  BY <1>1, <1>2
    
        DEF Events!Sized, Events!Edge, Events!TypeOK, Events!RingInv, Events!CountNext,
            Events!ptr_next, Events!Slots, Events!SlotAt, Events!full
<1>8. REGISTERED_HEAD /\ count_q' # 0 => head_q' = mem'[rd_ptr_q']
  BY <1>1, <1>2
    
        DEF Events!Sized, Events!Edge, Events!TypeOK, Events!RingInv, Events!CountNext,
            Events!HeadNext, Events!ptr_next, Events!Slots,
         Events!SlotAt, Events!full, Events!empty
<1> QED
  BY <1>3, <1>4, <1>5, <1>6, <1>7, <1>8
     DEF Events!IInv, Events!TypeOK, Events!RingInv, Events!full, Events!empty

\* The ring invariant holds in every reachable state, for every depth and in
\* both head modes.
THEOREM EventRingCorrect == ASSUME Events!Sized PROVE Events!Spec => []Events!IInv
<1>1. Events!Init => Events!IInv
  BY EventInitInv
<1>2. Events!IInv /\ [Events!Next]_(Events!vars) => Events!IInv'
  <2> SUFFICES ASSUME Events!IInv, [Events!Next]_(Events!vars) PROVE Events!IInv'
    OBVIOUS
  <2>1. CASE Events!Reset
    BY <2>1, EventResetInv
  <2>2. CASE \E in_valid, out_ready \in BOOLEAN, e \in Desc :
               Events!Edge(in_valid, e, out_ready)
    BY <2>2, EventEdgeInv
  <2>3. CASE UNCHANGED Events!vars
    BY <2>3
       DEF Events!vars, Events!ringVars, Events!IInv, Events!TypeOK, Events!RingInv,
           Events!SlotAt, Events!full, Events!empty
  <2> QED
    BY <2>1, <2>2, <2>3 DEF Events!Next
<1> QED
  BY <1>1, <1>2, PTL DEF Events!Spec

-----------------------------------------------------------------------------
\* The ring read from the head is a sequence of events.
EventHeldShape ==
  /\ count_q \in Nat
  /\ Events!held \in Seq(Desc) /\ Len(Events!held) = count_q
  /\ \A k \in 1 .. count_q : Events!held[k] = mem[Events!SlotAt(k - 1)]

LEMMA EventHeldType == ASSUME Events!Sized, Events!TypeOK PROVE EventHeldShape
<1>1. \A k \in 1 .. count_q : Events!SlotAt(k - 1) \in Events!Slots
  BY DEF Events!Sized, Events!TypeOK, Events!SlotAt, Events!Slots
<1>2. \A k \in 1 .. count_q : mem[Events!SlotAt(k - 1)] \in Desc
  BY <1>1 DEF Events!TypeOK
<1>3. count_q \in Nat
  BY DEF Events!Sized, Events!TypeOK
<1> QED
  BY <1>2, <1>3 DEF Events!held, EventHeldShape

LEMMA EventHeldTypeNext == ASSUME Events!Sized PROVE Events!TypeOK' => EventHeldShape'
<1>1. Events!TypeOK => EventHeldShape
  BY EventHeldType
<1> QED
  BY <1>1, PTL

\* A push leaves every slot of a resident event alone.
LEMMA EventPushSlot ==
  ASSUME Events!Sized, Events!IInv, NEW e \in Desc, count_q < EventDepth,
         mem' = [mem EXCEPT ![wr_ptr_q] = e]
  PROVE  /\ \A k \in 1 .. count_q : mem'[Events!SlotAt(k - 1)] = Events!held[k]
         /\ mem'[Events!SlotAt(count_q)] = e
<1>1. /\ Events!TypeOK /\ wr_ptr_q = Events!SlotAt(count_q) /\ wr_ptr_q \in Events!Slots
      /\ mem \in [Events!Slots -> Desc]
  BY DEF Events!Sized, Events!IInv, Events!TypeOK, Events!RingInv, Events!full
<1>2. \A k \in 1 .. count_q : /\ Events!SlotAt(k - 1) # Events!SlotAt(count_q)
                              /\ Events!SlotAt(k - 1) \in Events!Slots
  BY <1>1 DEF Events!Sized, Events!TypeOK, Events!SlotAt, Events!Slots
<1> QED
  BY <1>1, <1>2, EventHeldType DEF EventHeldShape

\* One edge of the ring is one edge of the bounded FIFO, by the handshakes.
LEMMA EventEdgeRefines ==
  ASSUME Events!Sized, Events!IInv, Events!IInv', NEW in_valid \in BOOLEAN, NEW out_ready \in BOOLEAN,
         NEW e \in Desc, Events!Edge(in_valid, e, out_ready)
  PROVE  Events!Fifo!FifoNext
<1> DEFINE push == in_valid /\ Events!in_ready
           pop == Events!out_valid /\ out_ready
<1>1. Events!TypeOK /\ Events!RingInv /\ Events!TypeOK'
  BY DEF Events!IInv
<1>2. EventHeldShape /\ EventHeldShape'
  BY <1>1, EventHeldType, EventHeldTypeNext
<1>3. /\ pop => count_q # 0
      /\ push => count_q < EventDepth
  BY <1>1 DEF Events!Sized, Events!TypeOK, Events!in_ready, Events!out_valid, Events!full, Events!empty
<1>4. pop => Events!out_data = Events!held[1]
  <2>1. count_q # 0 => Events!held[1] = mem[rd_ptr_q]
    BY <1>1, <1>2 DEF Events!Sized, EventHeldShape, Events!SlotAt, Events!TypeOK, Events!Slots
  <2> QED
    BY <1>1, <1>3, <2>1 DEF Events!out_data, Events!RingInv, Events!empty
<1>5. CASE push /\ ~pop
  <2>1. /\ count_q < EventDepth /\ count_q' = count_q + 1 /\ rd_ptr_q' = rd_ptr_q
        /\ mem' = [mem EXCEPT ![wr_ptr_q] = e]
        /\ event_handed' = NoDesc
    BY <1>3, <1>5 DEF Events!Edge, Events!CountNext
  <2>2. /\ \A k \in 1 .. count_q : mem'[Events!SlotAt(k - 1)] = Events!held[k]
        /\ mem'[Events!SlotAt(count_q)] = e
    BY <2>1, EventPushSlot
  <2>3. \A k \in 1 .. count_q + 1 : Events!held'[k] = mem'[Events!SlotAt(k - 1)]
    BY <1>2, <2>1 DEF EventHeldShape, Events!SlotAt
  <2>4. Events!held'[count_q + 1] = e
    BY <1>2, <2>2, <2>3 DEF EventHeldShape
  <2>5. \A k \in 1 .. count_q : Events!held'[k] = Events!held[k]
    <3>1. SUFFICES ASSUME NEW k \in 1 .. count_q PROVE Events!held'[k] = Events!held[k]
      OBVIOUS
    <3>2. k \in 1 .. count_q + 1
      BY <1>2 DEF EventHeldShape
    <3> QED
      BY <2>2, <2>3, <3>2
  <2>6. Events!held' = Append(Events!held, e)
    BY <1>2, <2>1, <2>4, <2>5 DEF EventHeldShape
  <2>7. Events!held' # <<>> /\ Events!Fifo!Arrived = e
    BY <1>2, <2>6 DEF Events!Fifo!Arrived, EventHeldShape
  <2> QED
    BY <1>2, <2>1, <2>6, <2>7 DEF Events!Fifo!FifoNext, Events!Fifo!Put, EventHeldShape
<1>6. CASE ~push /\ pop
  <2>1. /\ count_q # 0 /\ count_q' = count_q - 1
        /\ rd_ptr_q' = Events!ptr_next(rd_ptr_q)
        /\ mem' = mem /\ event_handed' = Events!held[1]
    BY <1>3, <1>4, <1>6 DEF Events!Edge, Events!CountNext
  <2>2. \A k \in 1 .. count_q - 1 : Events!SlotAt(k - 1)' = Events!SlotAt(k)
    BY <1>1, <1>2, <2>1 DEF Events!Sized, Events!SlotAt, Events!ptr_next, Events!TypeOK, Events!Slots
  <2>3. Events!held' = Tail(Events!held)
    <3>1. /\ Tail(Events!held) \in Seq(Desc) /\ Len(Tail(Events!held)) = count_q - 1
          /\ \A k \in 1 .. count_q - 1 : Tail(Events!held)[k] = Events!held[k + 1]
      BY <1>2, <2>1 DEF EventHeldShape
    <3>2. /\ Events!held' \in Seq(Desc) /\ Len(Events!held') = count_q - 1
          /\ \A k \in 1 .. count_q - 1 : Events!held'[k] = mem[Events!SlotAt(k)]
      BY <1>2, <2>1, <2>2 DEF EventHeldShape
    <3>3. \A k \in 1 .. count_q - 1 : Events!held[k + 1] = mem[Events!SlotAt(k)]
      <4>1. SUFFICES ASSUME NEW k \in 1 .. count_q - 1
                     PROVE  Events!held[k + 1] = mem[Events!SlotAt(k)]
        OBVIOUS
      <4>2. k + 1 \in 1 .. count_q /\ (k + 1) - 1 = k
        BY <1>2 DEF EventHeldShape
      <4> QED
        BY <1>2, <4>2 DEF EventHeldShape
    <3> QED
      BY <3>1, <3>2, <3>3
  <2> QED
    BY <1>2, <2>1, <2>3 DEF Events!Fifo!FifoNext, Events!Fifo!Take, EventHeldShape
<1>7. CASE push /\ pop
  <2>1. /\ count_q # 0 /\ count_q' = count_q
        /\ rd_ptr_q' = Events!ptr_next(rd_ptr_q)
        /\ mem' = [mem EXCEPT ![wr_ptr_q] = e] /\ event_handed' = Events!held[1]
    BY <1>3, <1>4, <1>7 DEF Events!Edge, Events!CountNext
  <2>2. /\ \A k \in 1 .. count_q - 1 : Events!SlotAt(k - 1)' = Events!SlotAt(k)
        /\ Events!SlotAt(count_q - 1)' = wr_ptr_q
    BY <1>1, <1>2, <1>3, <1>7, <2>1
      
          DEF Events!Sized, Events!SlotAt, Events!ptr_next, Events!TypeOK, Events!RingInv,
              Events!Slots, EventHeldShape, Events!full
  <2>3. \A k \in 1 .. count_q - 1 : mem'[Events!SlotAt(k)] = Events!held[k + 1]
    <3>1. SUFFICES ASSUME NEW k \in 1 .. count_q - 1
                   PROVE  mem'[Events!SlotAt(k)] = Events!held[k + 1]
      OBVIOUS
    <3>2. k + 1 \in 1 .. count_q /\ (k + 1) - 1 = k
      BY <1>2 DEF EventHeldShape
    <3>3. mem'[Events!SlotAt((k + 1) - 1)] = Events!held[k + 1]
      BY <1>3, <1>7, <2>1, <3>2, EventPushSlot
    <3> QED
      BY <3>2, <3>3
  <2>4. mem'[wr_ptr_q] = e
    BY <1>1, <2>1 DEF Events!TypeOK
  <2>5. \A k \in 1 .. count_q : Events!held'[k] = IF k = count_q THEN e ELSE Events!held[k + 1]
    <3>1. \A k \in 1 .. count_q : Events!held'[k] = mem'[Events!SlotAt(k - 1)']
      BY <1>2, <2>1 DEF EventHeldShape
    <3>2. Events!held'[count_q] = e
      BY <1>2, <2>1, <2>2, <2>4, <3>1 DEF EventHeldShape
    <3>3. ASSUME NEW k \in 1 .. count_q - 1 PROVE Events!held'[k] = Events!held[k + 1]
      <4>1. k \in 1 .. count_q
        BY <1>2 DEF EventHeldShape
      <4> QED
        BY <2>2, <2>3, <3>1, <4>1
    <3>4. \A k \in 1 .. count_q : k = count_q \/ k \in 1 .. count_q - 1
      BY <1>2 DEF EventHeldShape
    <3>5. ASSUME NEW k \in 1 .. count_q, k = count_q
          PROVE  Events!held'[k] = IF k = count_q THEN e ELSE Events!held[k + 1]
      BY <3>2, <3>5
    <3>6. ASSUME NEW k \in 1 .. count_q - 1
          PROVE  Events!held'[k] = IF k = count_q THEN e ELSE Events!held[k + 1]
      <4>1. k # count_q
        BY <1>2 DEF EventHeldShape
      <4> QED
        BY <3>3, <4>1
    <3> QED
      BY <3>4, <3>5, <3>6
  <2>6. Events!held' = Append(Tail(Events!held), e)
    BY <1>2, <2>1, <2>5 DEF EventHeldShape
  <2>7. Events!held' # <<>> /\ Events!Fifo!Arrived = e
    BY <1>2, <2>1, <2>5 DEF Events!Fifo!Arrived, EventHeldShape
  <2>8. Len(Events!held) < EventDepth
    BY <1>2, <1>3, <1>7 DEF EventHeldShape
  <2> QED
    BY <1>2, <2>1, <2>6, <2>7, <2>8 DEF Events!Fifo!FifoNext, Events!Fifo!PutTake, EventHeldShape
<1>8. CASE ~push /\ ~pop
  <2>1. /\ mem' = mem /\ rd_ptr_q' = rd_ptr_q /\ count_q' = count_q
        /\ event_handed' = NoDesc
    BY <1>8 DEF Events!Edge, Events!CountNext
  <2>2. Events!held' = Events!held
    BY <2>1 DEF Events!held, Events!SlotAt
  <2> QED
    BY <2>1, <2>2 DEF Events!Fifo!FifoNext, Events!Fifo!Idle
<1> QED
  BY <1>5, <1>6, <1>7, <1>8

LEMMA EventResetRefines == Events!Reset => Events!Fifo!Clear
  BY DEF Events!Reset, Events!Fifo!Clear, Events!held

\* No event that was accepted is lost, repeated or reordered, for any depth and
\* in both head modes: the queue implements the bounded FIFO that refuses an
\* event while full.
THEOREM EventsRefineFifo == ASSUME Events!Sized PROVE Events!Spec => Events!FifoSpec
<1>1. Events!Init => Events!Fifo!FifoInit
  BY DEF Events!Init, Events!Fifo!FifoInit, Events!held
<1>2. Events!IInv /\ Events!IInv' /\ [Events!Next]_(Events!vars)
        => [Events!Fifo!FifoNext]_(Events!Fifo!fifoVars)
  <2> SUFFICES ASSUME Events!IInv, Events!IInv', [Events!Next]_(Events!vars)
               PROVE  [Events!Fifo!FifoNext]_(Events!Fifo!fifoVars)
    OBVIOUS
  <2>1. CASE Events!Reset
    BY <2>1, EventResetRefines DEF Events!Fifo!FifoNext
  <2>2. CASE \E in_valid, out_ready \in BOOLEAN, e \in Desc :
               Events!Edge(in_valid, e, out_ready)
    BY <2>2, EventEdgeRefines
  <2>3. CASE UNCHANGED Events!vars
    BY <2>3 DEF Events!vars, Events!ringVars, Events!held, Events!SlotAt, Events!Fifo!fifoVars
  <2> QED
    BY <2>1, <2>2, <2>3 DEF Events!Next
<1>3. Events!Spec => []Events!IInv
  BY EventRingCorrect
<1> QED
  BY <1>1, <1>2, <1>3, PTL DEF Events!Spec, Events!FifoSpec, Events!Fifo!FifoSpec
-----------------------------------------------------------------------------
\* Side by side, each of the two queues takes its own steps only.
LEMMA EachQueueRuns ==
  /\ QueuesSpec => Spec
  /\ QueuesSpec => Events!Spec
<1>1. QueuesInit => Init /\ Events!Init
  BY DEF QueuesInit
<1>2. [LifecycleStep \/ EventStep]_<<which, vars, event_vars>> => [Next]_vars
  BY DEF LifecycleStep, EventStep
<1>3. [LifecycleStep \/ EventStep]_<<which, vars, event_vars>> => [Events!Next]_(Events!vars)
  BY DEF LifecycleStep, EventStep, event_vars, Events!vars, Events!ringVars
<1> QED BY <1>1, <1>2, <1>3, PTL DEF QueuesSpec, Spec, Events!Spec

\* For every depth of either queue, every payload and both head modes: both
\* rings and both registered heads are consistent, and the transfer counters
\* tell the occupancy.
THEOREM QueuesCorrect == QueuesSpec => []QueuesConsistent
<1>1. Events!Spec => []Events!IInv
  BY EventsSized, EventRingCorrect
<1> QED BY <1>1, EachQueueRuns, RingCorrect, CountersCorrect, PTL DEF QueuesConsistent

\* For every depth, payload and head mode the event FIFO loses, repeats and
\* reorders nothing, and refuses an event while it is full.
THEOREM EventQueueRefinesFifo == QueuesSpec => EventFifoSpec
<1>1. Events!Spec => Events!FifoSpec
  BY EventsSized, EventsRefineFifo
<1> QED BY <1>1, EachQueueRuns, PTL DEF EventFifoSpec
=============================================================================
