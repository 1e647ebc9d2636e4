----------------------------- MODULE VectorProofs -----------------------------
(***************************************************************************)
(* Proofs about VectorInput, for every depth, number of epochs, queue depth *)
(* and number of collector slots: no handshake of the path is ever misused, *)
(* contexts keep their banks and epochs apart, and what the core takes is   *)
(* the stream that the loader handed in.                                   *)
(***************************************************************************)
EXTENDS VectorInput, SequenceTheorems, FiniteSetTheorems,
        WellFoundedInduction, TLAPS

-----------------------------------------------------------------------------
(* The invariant *)

Desc == [bank : Banks, epoch : Epochs, expected : 0 .. DEPTH]

Typed ==
  /\ TypeOK
  /\ context_queue \in Seq(Desc)
  /\ retiring \in Seq(Contexts) /\ collecting \in Seq(Contexts)

One(p) == IF p THEN 1 ELSE 0

\* At most one context is in front of the reader, with its one request.
InFront ==
  /\ Len(context_queue) + One(alloc_pending_q) + One(feeder_start)
       = unrequested + One(compute_start) + One(compute_request_pending_q)
  /\ unrequested + One(compute_start) + One(compute_request_pending_q) <= 1

\* Who has bank b.
Queues(b)   == context_queue # <<>> /\ Head(context_queue).bank = b
Reads(b)    == reader_active_q /\ reader_bank_q = b
Retires(b)  == \E k \in 1 .. Len(retiring) : retiring[k].bank = b
Releases(b) == release_pending_q /\ release_bank_q = b
Fills(b)    == fill_active_q /\ fill_bank_q = b
Commits(b)  == commit_pending_q /\ commit_bank_q = b

\* The request slot is held from the acceptance of a start to the end of its
\* packet, and the loader serves it once.
Filling ==
  /\ feeder_start => ~vector_fill_req /\ req_armed
  /\ vector_fill_req <=> alloc_pending_q \/ fill_active_q
  /\ ~(alloc_pending_q /\ fill_active_q)
  /\ alloc_pending_q =>
       alloc_expected_q = num_pixels /\ pixel_index = 0 /\ ~packet_done
  /\ fill_active_q => fill_expected_q = num_pixels
  /\ fill_active_q => active \/ packet_done
  /\ alloc_pending_q => active \/ req_armed
  /\ active => /\ vector_fill_req /\ ~req_armed /\ ~packet_done
               /\ pixel_index < num_pixels
  /\ ~active => pixel_index = 0 /\ ~vector_pending
  /\ packet_done => fill_active_q /\ ~req_armed
  /\ vector_pending => /\ pending_last_pixel = (pixel_index + 1 = num_pixels)
                       /\ raw_vector \in Vector
  /\ commit_pending_q => ~vector_fill_req /\ ~feeder_start

\* The bank that is filled is the newest context's, and it is not read dry.
Filled ==
  fill_active_q =>
    /\ allocated_q[fill_bank_q] /\ epoch_q[fill_bank_q] = fill_epoch_q
    /\ expected_q[fill_bank_q] = fill_expected_q /\ ~committed_q[fill_bank_q]
    /\ produced_q[fill_bank_q] =
         (IF packet_done THEN num_pixels ELSE pixel_index)
    /\ issued_q[fill_bank_q] < expected_q[fill_bank_q]
    /\ \/ Queues(fill_bank_q)
       \/ context_queue = <<>> /\ Reads(fill_bank_q)

\* A commit is taken before the core has the last vector.
Committing ==
  commit_pending_q =>
    /\ allocated_q[commit_bank_q] /\ epoch_q[commit_bank_q] = commit_epoch_q
    /\ ~committed_q[commit_bank_q]
    /\ produced_q[commit_bank_q] = expected_q[commit_bank_q]
    /\ consumed_q[commit_bank_q] < expected_q[commit_bank_q]

CreditOk(b) ==
  /\ expected_q[b] # 0
  /\ consumed_q[b] <= issued_q[b] /\ issued_q[b] <= produced_q[b]
  /\ produced_q[b] <= expected_q[b]
  /\ write_open_q[b] <=> produced_q[b] < expected_q[b]
  /\ committed_q[b] \/ Fills(b) \/ Commits(b)
  /\ committed_q[b] => produced_q[b] = expected_q[b]

Credited ==
  \A b \in Banks :
    IF allocated_q[b] THEN CreditOk(b)
    ELSE /\ ~write_open_q[b] /\ ~committed_q[b]
         /\ ~lookahead_pending_q[b] /\ ~lookahead_valid_q[b]

\* Context c has its bank, and all its vectors were taken.
Done(c) ==
  /\ allocated_q[c.bank] /\ epoch_q[c.bank] = c.epoch /\ committed_q[c.bank]
  /\ issued_q[c.bank] = expected_q[c.bank]
  /\ consumed_q[c.bank] = expected_q[c.bank]

Released == [bank |-> release_bank_q, epoch |-> release_epoch_q]

\* Each context has a bank of its own from its allocation to its release.
QueueOwns ==
  context_queue # <<>> =>
    LET c == Head(context_queue)
    IN /\ allocated_q[c.bank] /\ epoch_q[c.bank] = c.epoch
       /\ issued_q[c.bank] = 0
       /\ ~Reads(c.bank) /\ ~Retires(c.bank) /\ ~Releases(c.bank)
ReaderOwns ==
  reader_active_q =>
    /\ allocated_q[reader_bank_q] /\ epoch_q[reader_bank_q] = reader_epoch_q
    /\ ~Retires(reader_bank_q) /\ ~Releases(reader_bank_q)
RetiringOwn ==
  /\ \A k \in 1 .. Len(retiring) :
       Done(retiring[k]) /\ ~Releases(retiring[k].bank)
  /\ \A j, k \in 1 .. Len(retiring) :
       j # k => retiring[j].bank # retiring[k].bank
ReleaseOwns == release_pending_q => Done(Released)

Owned == QueueOwns /\ ReaderOwns /\ RetiringOwn /\ ReleaseOwns

\* The output slot holds the vector that was issued last.
Output ==
  /\ rd_valid_q =>
       /\ reader_active_q /\ rd_bank_q = reader_bank_q
       /\ rd_epoch_q = reader_epoch_q
       /\ issued_q[reader_bank_q] = consumed_q[reader_bank_q] + 1
       /\ rd_last_q = (issued_q[reader_bank_q] = expected_q[reader_bank_q])
  /\ reader_active_q /\ ~rd_valid_q =>
       /\ issued_q[reader_bank_q] = consumed_q[reader_bank_q]
       /\ issued_q[reader_bank_q] < expected_q[reader_bank_q]

\* Epoch e is that of a context which is being collected.
Tracked(e) ==
  \E s \in CollectorSlots : collector_live_q[s] /\ collector_epoch_q[s] = e

SlotsApart ==
  \A s, t \in CollectorSlots :
    s # t /\ collector_live_q[s] /\ collector_live_q[t] =>
      collector_epoch_q[s] # collector_epoch_q[t]
BanksApart == allocated_q[0] /\ allocated_q[1] => epoch_q[0] # epoch_q[1]
\* A context is tracked from its selection to its collection.
SelectedTracked ==
  /\ context_queue # <<>> => ~Tracked(Head(context_queue).epoch)
  /\ reader_active_q => Tracked(reader_epoch_q)
  /\ \A k \in 1 .. Len(retiring) : Tracked(retiring[k].epoch)
  /\ \A k \in 1 .. Len(collecting) : Tracked(collecting[k].epoch)
CollectingApart ==
  /\ \A j, k \in 1 .. Len(collecting) :
       j # k => collecting[j].epoch # collecting[k].epoch
  /\ \A b \in Banks, k \in 1 .. Len(collecting) :
       allocated_q[b] /\ ~Releases(b) => collecting[k].epoch # epoch_q[b]

EpochsHeld == SlotsApart /\ BanksApart /\ SelectedTracked /\ CollectingApart

\* What is read ahead of a selection is the first vector, and it is there.
Ahead(b) == lookahead_valid_q[b] \/ lookahead_pending_q[b]
Fetched ==
  \A b \in Banks :
    Ahead(b) => produced_q[b] # 0 /\ issued_q[b] = 0 /\ ~Reads(b)

IInv ==
  /\ Typed /\ NoErrors /\ InFront /\ Filling /\ Filled /\ Committing
  /\ Credited /\ Owned /\ Output /\ EpochsHeld /\ Fetched

-----------------------------------------------------------------------------
(* What an edge does, in terms of the events on it *)

Alloc(env) ==
  /\ alloc_pending_q /\ ~fill_active_q /\ ~alloc_epoch_conflict
  /\ env.sideband_ready /\ ~allocated_q[alloc_bank_q]
Write == vector_pending /\ fill_active_q
Pop(env) == rd_valid_q /\ env.stream_ready
Finish(env) == Pop(env) /\ rd_last_q
Select(env) ==
  /\ context_queue # <<>> /\ compute_request_pending_q /\ env.core_ready
  /\ \E s \in CollectorSlots : ~collector_live_q[s]
  /\ ~reader_active_q \/ Finish(env)
Issue(env) ==
  /\ reader_active_q /\ issued_q[reader_bank_q] < produced_q[reader_bank_q]
  /\ ~rd_valid_q \/ env.stream_ready
Hit(env) == Select(env) /\ Ahead(Head(context_queue).bank)
Begin == ~active /\ vector_fill_req /\ req_armed
End == Write /\ pending_last_pixel

Context(queue, shown) ==
  IF shown THEN [valid |-> TRUE, bank |-> Head(queue).bank,
                 epoch |-> Head(queue).epoch]
  ELSE [valid |-> FALSE, bank |-> 0, epoch |-> 0]
Ports(env) ==
  [feeder_start |-> feeder_start_accept,
   context_expected |-> num_pixels,
   sideband_ready |-> env.sideband_ready,
   vector_valid |-> vector_pending /\ vector_fill_req,
   vector_data |-> raw_vector, packet_done |-> packet_done,
   compute_start |-> compute_start, core_ready |-> env.core_ready,
   stream_ready |-> env.stream_ready,
   retired |-> Context(retiring, env.retires),
   collected |-> Context(collecting, env.collects),
   arrives |-> env.arrives]

LEMMA EdgeIs ==
  ASSUME NEW env
  PROVE  Edge(env) <=>
           /\ env.retires => retiring # <<>>
           /\ env.collects => collecting # <<>>
           /\ SchedulerEdge(env.start, env.request)
           /\ FrontendEdge(Ports(env)) /\ FeederEdge /\ LoaderEdge(Ports(env))
           /\ CoreEdge(Ports(env))
BY DEF Edge, Ports, Context

LEMMA EnvTypes ==
  ASSUME NEW env \in Environment, Typed
  PROVE  /\ env.start \in 0 .. DEPTH /\ env.request \in BOOLEAN
         /\ env.sideband_ready \in BOOLEAN /\ env.arrives \in BOOLEAN
         /\ env.core_ready \in BOOLEAN /\ env.stream_ready \in BOOLEAN
         /\ env.retires \in BOOLEAN /\ env.collects \in BOOLEAN
<1> DEFINE S == IF ~feeder_start_ready \/ ~AllAccepted THEN {0}
                ELSE IF Drained THEN 0 .. DEPTH ELSE {0, num_pixels}
<1>1. S \subseteq 0 .. DEPTH
  BY DepthAssumption DEF Typed, TypeOK
<1>2. \A p \in BOOLEAN : Optional(p) \subseteq BOOLEAN
  BY DEF Optional
<1>3. env.start \in S
  BY DEF Environment
<1> HIDE DEF S
<1> QED BY <1>1, <1>3 DEF Environment, Optional

\* A sequence of one item.
LEMMA OneItem ==
  ASSUME NEW S, NEW q \in Seq(S), Len(q) = 1
  PROVE  q # <<>> /\ Head(q) = q[1] /\ Head(q) \in S /\ Tail(q) = <<>>
<1>1. q # <<>>
  BY EmptySeq
<1>2. Head(q) = q[1]
  OBVIOUS
<1>3. Len(Tail(q)) = 0 /\ Tail(q) \in Seq(S)
  BY <1>1, HeadTailProperties
<1>4. Tail(q) = <<>>
  BY <1>3, EmptySeq
<1> QED BY <1>1, <1>2, <1>4, HeadTailProperties

\* The flags as numbers.
LEMMA Ones ==
  ASSUME NEW p \in BOOLEAN
  PROVE  One(p) \in {0, 1} /\ (p => One(p) = 1) /\ (~p => One(p) = 0)
BY DEF One

\* The queue holds one descriptor at most, and the banks are two.
LEMMA QueueShort ==
  ASSUME Typed, InFront
  PROVE  /\ Len(context_queue) \in {0, 1}
         /\ context_queue # <<>> =>
              /\ Head(context_queue) \in Desc /\ Tail(context_queue) = <<>>
              /\ ~alloc_pending_q /\ ~feeder_start
              /\ context_queue[1] = Head(context_queue)
              /\ Len(context_queue) = 1
         /\ alloc_pending_q => context_queue = <<>> /\ ~feeder_start
         /\ feeder_start => context_queue = <<>> /\ ~alloc_pending_q
         /\ compute_start => ~compute_request_pending_q
         /\ ~(unrequested # 0 /\ compute_start)
<1>1. /\ Len(context_queue) \in Nat /\ unrequested \in Nat
      /\ context_queue \in Seq(Desc)
  BY DEF Typed, TypeOK
<1>2. /\ alloc_pending_q \in BOOLEAN /\ feeder_start \in BOOLEAN
      /\ compute_start \in BOOLEAN /\ compute_request_pending_q \in BOOLEAN
  BY DEF Typed, TypeOK, FrontendTypeOK
<1> DEFINE a == One(alloc_pending_q)  f == One(feeder_start)
           c == One(compute_start)  r == One(compute_request_pending_q)
<1>3. /\ a \in {0, 1} /\ f \in {0, 1} /\ c \in {0, 1} /\ r \in {0, 1}
      /\ alloc_pending_q => a = 1
      /\ feeder_start => f = 1
      /\ compute_start => c = 1
      /\ compute_request_pending_q => r = 1
  BY <1>2, Ones
<1>4. Len(context_queue) + a + f = unrequested + c + r /\ unrequested + c + r <= 1
  BY DEF InFront
<1> HIDE DEF a, f, c, r
<1>0. ASSUME NEW l \in Nat, NEW u \in Nat, l + a + f = u + c + r, u + c + r <= 1
      PROVE  l \in {0, 1} /\ a + l + f <= 1 /\ u + c + r <= 1
  BY <1>0, <1>3
<1>5. Len(context_queue) \in {0, 1}
  BY <1>0, <1>1, <1>4
<1>6. context_queue # <<>> =>
        /\ Len(context_queue) = 1 /\ Head(context_queue) = context_queue[1]
        /\ Head(context_queue) \in Desc /\ Tail(context_queue) = <<>>
  <2> SUFFICES ASSUME context_queue # <<>>
               PROVE  /\ Len(context_queue) = 1
                      /\ Head(context_queue) = context_queue[1]
                      /\ Head(context_queue) \in Desc
                      /\ Tail(context_queue) = <<>>
    OBVIOUS
  <2>1. Len(context_queue) # 0
    BY <1>1, EmptySeq
  <2>2. Len(context_queue) = 1
    BY <1>5, <2>1
  <2> QED BY <1>1, <2>2, OneItem
<1>7. Len(context_queue) = 1 => a + f = 0
  BY <1>0, <1>1, <1>3, <1>4
<1>8. alloc_pending_q \/ feeder_start => Len(context_queue) = 0 /\ a + f = 1
  <2>1. a + f # 0 => Len(context_queue) = 0 /\ a + f = 1
    BY <1>0, <1>1, <1>3, <1>4
  <2> QED BY <1>3, <2>1
<1>9. /\ a + f = 0 => ~alloc_pending_q /\ ~feeder_start
      /\ a + f = 1 => ~(alloc_pending_q /\ feeder_start)
  BY <1>3
<1>10. Len(context_queue) = 0 => context_queue = <<>>
  BY <1>1, EmptySeq
<1>11. ASSUME compute_start PROVE ~compute_request_pending_q /\ unrequested = 0
  <2>1. c = 1
    BY <1>3, <1>11
  <2>2. r = 0 /\ unrequested = 0
    BY <1>1, <1>3, <1>4, <2>1
  <2> QED BY <1>3, <2>2
<1> QED BY <1>5, <1>6, <1>7, <1>8, <1>9, <1>10, <1>11

\* The ports, field by field.
LEMMA PortsAre ==
  ASSUME NEW env, NEW in, in = Ports(env)
  PROVE  /\ in.feeder_start = feeder_start_accept
         /\ in.context_expected = num_pixels
         /\ in.sideband_ready = env.sideband_ready
         /\ in.vector_valid = (vector_pending /\ vector_fill_req)
         /\ in.vector_data = raw_vector /\ in.packet_done = packet_done
         /\ in.compute_start = compute_start /\ in.core_ready = env.core_ready
         /\ in.stream_ready = env.stream_ready
         /\ in.retired = Context(retiring, env.retires)
         /\ in.collected = Context(collecting, env.collects)
         /\ in.arrives = env.arrives
BY DEF Ports

LEMMA ContextIs ==
  ASSUME NEW q, NEW shown \in BOOLEAN
  PROVE  /\ Context(q, shown).valid = shown
         /\ shown => /\ Context(q, shown).bank = Head(q).bank
                     /\ Context(q, shown).epoch = Head(q).epoch
BY DEF Context

\* The registers that the handshakes look at.
LEMMA Regs ==
  ASSUME IInv
  PROVE  /\ alloc_pending_q \in BOOLEAN /\ alloc_bank_q \in Banks
         /\ fill_active_q \in BOOLEAN /\ fill_bank_q \in Banks
         /\ commit_pending_q \in BOOLEAN /\ commit_bank_q \in Banks
         /\ release_pending_q \in BOOLEAN /\ release_bank_q \in Banks
         /\ reader_active_q \in BOOLEAN /\ reader_bank_q \in Banks
         /\ rd_valid_q \in BOOLEAN /\ rd_last_q \in BOOLEAN /\ rd_bank_q \in Banks
         /\ vector_pending \in BOOLEAN /\ vector_fill_req \in BOOLEAN
         /\ packet_done \in BOOLEAN /\ active \in BOOLEAN
         /\ req_armed \in BOOLEAN /\ pending_last_pixel \in BOOLEAN
         /\ feeder_start \in BOOLEAN /\ compute_start \in BOOLEAN
         /\ compute_request_pending_q \in BOOLEAN
         /\ num_pixels \in Nat /\ num_pixels # 0 /\ num_pixels <= DEPTH
         /\ pixel_index \in Nat /\ DEPTH \in Nat
         /\ unrequested \in Nat
         /\ \A b \in Banks :
              /\ allocated_q[b] \in BOOLEAN /\ committed_q[b] \in BOOLEAN
              /\ write_open_q[b] \in BOOLEAN
              /\ lookahead_pending_q[b] \in BOOLEAN
              /\ lookahead_valid_q[b] \in BOOLEAN
              /\ expected_q[b] \in Nat /\ produced_q[b] \in Nat
              /\ issued_q[b] \in Nat /\ consumed_q[b] \in Nat
<1>1. TypeOK
  BY DEF IInv, Typed
<1>2. FrontendTypeOK /\ BufferTypeOK
  BY <1>1 DEF TypeOK, FrontendTypeOK
<1>3. DEPTH \in Nat /\ DEPTH # 0
  BY DepthAssumption
<1>4. /\ num_pixels \in Nat /\ num_pixels # 0 /\ num_pixels <= DEPTH
      /\ pixel_index \in Nat /\ unrequested \in Nat
  BY <1>1, <1>3 DEF TypeOK
<1>5. ASSUME NEW b \in Banks
      PROVE  /\ expected_q[b] \in Nat /\ produced_q[b] \in Nat
             /\ issued_q[b] \in Nat /\ consumed_q[b] \in Nat
  BY <1>2, <1>3 DEF BufferTypeOK
<1>6. ASSUME NEW b \in Banks
      PROVE  /\ allocated_q[b] \in BOOLEAN /\ committed_q[b] \in BOOLEAN
             /\ write_open_q[b] \in BOOLEAN
             /\ lookahead_pending_q[b] \in BOOLEAN
             /\ lookahead_valid_q[b] \in BOOLEAN
  BY <1>2 DEF BufferTypeOK
<1>7. /\ vector_pending \in BOOLEAN /\ vector_fill_req \in BOOLEAN
      /\ packet_done \in BOOLEAN /\ active \in BOOLEAN
      /\ req_armed \in BOOLEAN /\ pending_last_pixel \in BOOLEAN
      /\ feeder_start \in BOOLEAN /\ compute_start \in BOOLEAN
  BY <1>1 DEF TypeOK
<1>8. /\ alloc_pending_q \in BOOLEAN /\ alloc_bank_q \in Banks
      /\ fill_active_q \in BOOLEAN /\ fill_bank_q \in Banks
      /\ commit_pending_q \in BOOLEAN /\ commit_bank_q \in Banks
      /\ release_pending_q \in BOOLEAN /\ release_bank_q \in Banks
      /\ compute_request_pending_q \in BOOLEAN
  BY <1>2 DEF FrontendTypeOK
<1>9. /\ reader_active_q \in BOOLEAN /\ reader_bank_q \in Banks
      /\ rd_valid_q \in BOOLEAN /\ rd_last_q \in BOOLEAN /\ rd_bank_q \in Banks
  BY <1>2 DEF BufferTypeOK
<1> QED BY <1>3, <1>4, <1>5, <1>6, <1>7, <1>8, <1>9

\* Every request is taken by the buffer on the edge that shows it, an
\* allocation and a selection when their bank is free and owned.
LEMMA AllocHandshake ==
  ASSUME IInv, NEW env \in Environment, NEW in, in = Ports(env)
  PROVE  /\ AllocPort(in).bank = alloc_bank_q
         /\ AllocPort(in).epoch = alloc_epoch_q
         /\ AllocPort(in).expected = alloc_expected_q
         /\ alloc_fire(in) <=> Alloc(env)
         /\ AllocPort(in).valid /\ alloc_ready(AllocPort(in)) <=> Alloc(env)
         /\ ~(AllocPort(in).valid /\ ~alloc_ready(AllocPort(in))
                /\ ~allocated_q[AllocPort(in).bank])
<1>1. alloc_pending_q => alloc_expected_q = num_pixels
  BY DEF IInv, Filling
<1>2. /\ AllocPort(in).bank = alloc_bank_q
      /\ AllocPort(in).epoch = alloc_epoch_q
      /\ AllocPort(in).expected = alloc_expected_q
      /\ AllocPort(in).valid <=> /\ alloc_pending_q /\ ~fill_active_q
                                 /\ ~alloc_epoch_conflict /\ in.sideband_ready
  BY DEF AllocPort
<1>3. in.sideband_ready = env.sideband_ready
  BY PortsAre
<1> QED BY <1>1, <1>2, <1>3, Regs DEF alloc_fire, alloc_ready, Alloc

LEMMA WriteHandshake ==
  ASSUME IInv, NEW env \in Environment, NEW in, in = Ports(env)
  PROVE  /\ WritePort(in).bank = fill_bank_q
         /\ WritePort(in).data = raw_vector
         /\ WritePort(in).valid <=> Write
         /\ Write => /\ wr_ready(WritePort(in)) /\ Owns(WritePort(in))
                     /\ active /\ ~packet_done /\ allocated_q[fill_bank_q]
                     /\ write_open_q[fill_bank_q]
                     /\ produced_q[fill_bank_q] = pixel_index
                     /\ expected_q[fill_bank_q] = num_pixels
                     /\ pixel_index < num_pixels
         /\ vector_fire(in) <=> Write
         /\ (vector_pending /\ fill_active_q /\ wr_ready(WritePort(in))) <=> Write
<1>1. WritePort(in) =
        [valid |-> (vector_pending /\ vector_fill_req) /\ fill_active_q,
         bank |-> fill_bank_q, epoch |-> fill_epoch_q, data |-> raw_vector]
  BY PortsAre DEF WritePort
<1>2. fill_active_q => vector_fill_req
  BY DEF IInv, Filling
<1>3. ASSUME Write
      PROVE  /\ active /\ ~packet_done /\ allocated_q[fill_bank_q]
             /\ epoch_q[fill_bank_q] = fill_epoch_q
             /\ produced_q[fill_bank_q] = pixel_index
             /\ expected_q[fill_bank_q] = num_pixels
             /\ pixel_index < num_pixels
  BY <1>3, Regs DEF Write, IInv, Filling, Filled
<1>4. Write => write_open_q[fill_bank_q]
  BY <1>3, Regs DEF IInv, Credited, CreditOk
<1>5. vector_fire(in) <=> (vector_pending /\ vector_fill_req) /\ fill_active_q
                             /\ wr_ready(WritePort(in))
  BY PortsAre DEF vector_fire
<1> QED BY <1>1, <1>2, <1>3, <1>4, <1>5, Regs DEF wr_ready, Owns, Write

LEMMA CommitHandshake ==
  ASSUME IInv
  PROVE  /\ CommitPort.bank = commit_bank_q
         /\ CommitPort.valid = commit_pending_q
         /\ commit_pending_q => /\ commit_ready(CommitPort) /\ Owns(CommitPort)
                                /\ produced_q[commit_bank_q]
                                     = expected_q[commit_bank_q]
         /\ commit_fire <=> commit_pending_q
BY Regs DEF CommitPort, commit_ready, Owns, commit_fire, IInv, Committing

LEMMA ReleaseHandshake ==
  ASSUME IInv
  PROVE  /\ ReleasePort.bank = release_bank_q
         /\ ReleasePort.valid = release_pending_q
         /\ release_pending_q => release_ready(ReleasePort) /\ Owns(ReleasePort)
         /\ release_fire <=> release_pending_q
         /\ \A b \in Banks :
              Releases(b) => /\ allocated_q[b] /\ committed_q[b]
                             /\ issued_q[b] = expected_q[b]
                             /\ consumed_q[b] = expected_q[b]
                             /\ ~Reads(b) /\ ~Fills(b) /\ ~Commits(b)
                             /\ ~Queues(b)
<1>1. release_pending_q =>
        /\ allocated_q[release_bank_q] /\ epoch_q[release_bank_q] = release_epoch_q
        /\ committed_q[release_bank_q]
        /\ issued_q[release_bank_q] = expected_q[release_bank_q]
        /\ consumed_q[release_bank_q] = expected_q[release_bank_q]
  BY DEF IInv, Owned, ReleaseOwns, Done, Released
<1>2. release_pending_q => ~(reader_active_q /\ reader_bank_q = release_bank_q)
  BY DEF IInv, Owned, ReaderOwns, Releases
<1>3. release_pending_q => ~Fills(release_bank_q) /\ ~Commits(release_bank_q)
  BY <1>1, Regs DEF IInv, Filled, Committing, Fills, Commits
<1>4. release_pending_q => ~Queues(release_bank_q)
  BY DEF IInv, Owned, QueueOwns, Queues, Releases
<1> QED BY <1>1, <1>2, <1>3, <1>4, Regs
       DEF ReleasePort, release_ready, Owns, release_fire, Releases, Reads

LEMMA SelectHandshake ==
  ASSUME IInv, NEW env \in Environment, NEW in, in = Ports(env)
  PROVE  /\ select_fire(in) <=> Select(env)
         /\ SelectPort(in).valid /\ select_ready(SelectPort(in), env.stream_ready)
              <=> Select(env)
         /\ SelectPort(in).valid => Owns(SelectPort(in))
         /\ context_queue # <<>> =>
              /\ SelectPort(in).bank = Head(context_queue).bank
              /\ SelectPort(in).epoch = Head(context_queue).epoch
              /\ Head(context_queue).bank \in Banks
         /\ SelectPort(in).bank \in Banks
         /\ select_lookahead_hit(SelectPort(in), env.stream_ready) <=> Hit(env)
<1>1. in.core_ready = env.core_ready /\ in.stream_ready = env.stream_ready
  BY PortsAre
<1>2. CASE context_queue = <<>>
  BY <1>1, <1>2 DEF SelectPort, select_fire, Select, select_lookahead_hit, Hit,
       Banks
<1>3. CASE context_queue # <<>>
  <2>1. Head(context_queue) \in Desc
    BY <1>3, QueueShort DEF IInv
  <2>2. SelectPort(in) =
          [valid |-> /\ compute_request_pending_q /\ env.core_ready
                     /\ \E s \in CollectorSlots : ~collector_live_q[s],
           bank |-> Head(context_queue).bank, epoch |-> Head(context_queue).epoch]
    BY <1>1, <1>3 DEF SelectPort
  <2>3. /\ allocated_q[Head(context_queue).bank]
        /\ epoch_q[Head(context_queue).bank] = Head(context_queue).epoch
        /\ issued_q[Head(context_queue).bank] = 0
    BY <1>3 DEF IInv, Owned, QueueOwns
  <2>4. Owns(SelectPort(in))
    BY <2>2, <2>3 DEF Owns
  <2>5. SelectPort(in).valid /\ select_ready(SelectPort(in), env.stream_ready)
          <=> Select(env)
    BY <1>3, <2>2, <2>4 DEF select_ready, Select, Finish, Pop,
         output_finishes_context, output_pop
  <2>6. select_lookahead_hit(SelectPort(in), env.stream_ready) <=> Hit(env)
    BY <2>2, <2>3, <2>5 DEF select_lookahead_hit, Hit, Ahead
  <2> QED BY <1>1, <1>3, <2>1, <2>2, <2>4, <2>5, <2>6 DEF select_fire, Desc
<1> QED BY <1>2, <1>3

\* A start finds the front end ready.
LEMMA StartsTaken ==
  ASSUME IInv
  PROVE  /\ feeder_start_accept <=> feeder_start
         /\ feeder_start => frontend_start_ready
<1>1. feeder_start => context_queue = <<>> /\ ~alloc_pending_q
  BY QueueShort DEF IInv
<1>2. feeder_start => ~vector_fill_req
  BY DEF IInv, Filling
<1>3. context_queue = <<>> => ~context_full
  BY QueueAssumption DEF context_full
<1> QED BY <1>1, <1>2, <1>3
       DEF feeder_start_accept, feeder_start_ready, frontend_start_ready

LEMMA ErrorsStay ==
  ASSUME IInv, NEW env \in Environment,
         env.collects => collecting # <<>>, NEW in, in = Ports(env)
  PROVE  /\ ErrorsRaised(AllocPort(in), WritePort(in), CommitPort,
              SelectPort(in), in.stream_ready, ReleasePort) = {}
         /\ FrontendErrors(in) = {}
<1>1. ErrorsRaised(AllocPort(in), WritePort(in), CommitPort,
              SelectPort(in), in.stream_ready, ReleasePort) = {}
  <2>1. /\ WritePort(in).valid => Owns(WritePort(in)) /\ write_open_q[WritePort(in).bank]
    BY WriteHandshake
  <2>2. CommitPort.valid => /\ Owns(CommitPort)
                            /\ ~(produced_q[CommitPort.bank] > expected_q[CommitPort.bank])
    <3>1. CommitPort.valid =>
            /\ Owns(CommitPort) /\ CommitPort.bank = commit_bank_q
            /\ produced_q[commit_bank_q] = expected_q[commit_bank_q]
      BY CommitHandshake
    <3>2. expected_q[commit_bank_q] \in Nat
      BY Regs
    <3> QED BY <3>1, <3>2
  <2>3. SelectPort(in).valid => Owns(SelectPort(in))
    BY SelectHandshake
  <2>4. ReleasePort.valid => Owns(ReleasePort)
    BY ReleaseHandshake
  <2>5. ~(AllocPort(in).valid /\ ~alloc_ready(AllocPort(in))
            /\ ~allocated_q[AllocPort(in).bank])
    BY AllocHandshake
  <2> QED BY <2>1, <2>2, <2>3, <2>4, <2>5 DEF ErrorsRaised
<1>2. FrontendErrors(in) = {}
  <2>1. ~(in.feeder_start /\ ~frontend_start_ready)
    BY PortsAre, StartsTaken
  <2>2. ~(in.compute_start /\ compute_request_pending_q)
    BY PortsAre, QueueShort DEF IInv
  <2>3. ~(in.retired.valid /\ release_pending_q /\ ~release_fire)
    BY ReleaseHandshake
  <2>4. in.collected.valid =>
          \E s \in CollectorSlots : collector_live_q[s]
                             /\ collector_epoch_q[s] = in.collected.epoch
    <3> SUFFICES ASSUME in.collected.valid
                 PROVE \E s \in CollectorSlots : collector_live_q[s]
                             /\ collector_epoch_q[s] = in.collected.epoch
      OBVIOUS
    <3>1. in.collected = Context(collecting, env.collects)
      BY PortsAre
    <3>2. env.collects /\ env.collects \in BOOLEAN
      BY <3>1, EnvTypes DEF Context, IInv
    <3>3. collecting # <<>> /\ in.collected.epoch = Head(collecting).epoch
      BY <3>1, <3>2, ContextIs
    <3>4. collecting \in Seq(Contexts)
      BY DEF IInv, Typed
    <3>5. 1 \in 1 .. Len(collecting) /\ Head(collecting) = collecting[1]
      BY <3>3, <3>4
    <3>6. Tracked(collecting[1].epoch)
      BY <3>5 DEF IInv, EpochsHeld, SelectedTracked
    <3> QED BY <3>3, <3>5, <3>6 DEF Tracked
  <2>5. ASSUME in.packet_done
        PROVE  /\ fill_active_q
               /\ produced_q[fill_bank_q] + (IF vector_fire(in) THEN 1 ELSE 0)
                    = fill_expected_q
    <3>1. packet_done
      BY <2>5, PortsAre
    <3>2. fill_active_q /\ ~vector_fire(in)
      BY <3>1, WriteHandshake DEF IInv, Filling
    <3>3. produced_q[fill_bank_q] = fill_expected_q
      BY <3>1, <3>2 DEF IInv, Filling, Filled
    <3> QED BY <3>2, <3>3, Regs
  <2> QED BY <2>1, <2>2, <2>3, <2>4, <2>5 DEF FrontendErrors
<1> QED BY <1>1, <1>2

-----------------------------------------------------------------------------
(* What an edge does to each group of registers *)

Allocs(env, b) == Alloc(env) /\ b = alloc_bank_q
Writes(b) == Write /\ b = fill_bank_q
Issues(env, b) ==
  \/ Issue(env) /\ b = reader_bank_q
  \/ Hit(env) /\ b = Head(context_queue).bank
Pops(env, b) == Pop(env) /\ b = reader_bank_q
Drops(env, b) ==
  Allocs(env, b) \/ (Hit(env) /\ b = Head(context_queue).bank) \/ Releases(b)

OwnerMoved(env) ==
  \A b \in Banks :
    /\ allocated_q'[b] <=> (allocated_q[b] \/ Allocs(env, b)) /\ ~Releases(b)
    /\ committed_q'[b] <=> (committed_q[b] \/ Commits(b)) /\ ~Releases(b)
    /\ epoch_q'[b] = IF Allocs(env, b) THEN alloc_epoch_q ELSE epoch_q[b]
    /\ expected_q'[b] = IF Allocs(env, b) THEN num_pixels ELSE expected_q[b]

CreditMoved(env) ==
  \A b \in Banks :
    /\ produced_q'[b] = IF Writes(b) THEN produced_q[b] + 1
                        ELSE IF Allocs(env, b) THEN 0 ELSE produced_q[b]
    /\ write_open_q'[b] <=>
         /\ write_open_q[b] \/ Allocs(env, b)
         /\ ~(Writes(b) /\ produced_q[b] + 1 = expected_q[b])
         /\ ~Releases(b)
    /\ issued_q'[b] = IF Issues(env, b) THEN issued_q[b] + 1
                      ELSE IF Allocs(env, b) THEN 0 ELSE issued_q[b]
    /\ consumed_q'[b] = IF Pops(env, b) THEN consumed_q[b] + 1
                        ELSE IF Allocs(env, b) THEN 0 ELSE consumed_q[b]

AheadMoved(env) ==
  \A b \in Banks :
    /\ lookahead_pending_q'[b] =>
         /\ allocated_q[b] /\ produced_q[b] # 0 /\ issued_q[b] = 0
         /\ ~Reads(b) /\ ~Ahead(b) /\ ~Drops(env, b)
         /\ ~(Select(env) /\ b = Head(context_queue).bank)
    /\ lookahead_valid_q'[b] <=> Ahead(b) /\ ~Drops(env, b)

LEMMA AllocFacts ==
  ASSUME IInv, NEW env, Alloc(env)
  PROVE  /\ ~allocated_q[alloc_bank_q] /\ ~fill_active_q /\ alloc_pending_q
         /\ context_queue = <<>> /\ ~packet_done /\ ~Write
         /\ alloc_expected_q = num_pixels /\ vector_fill_req
         /\ ~feeder_start
         /\ ~Tracked(alloc_epoch_q)
         /\ \A b \in Banks : allocated_q[b] => epoch_q[b] # alloc_epoch_q
         /\ release_pending_q => release_epoch_q # alloc_epoch_q
         /\ \A b \in Banks : Allocs(env, b) => /\ ~Releases(b) /\ ~Commits(b)
                                               /\ ~Reads(b) /\ ~Retires(b)
                                               /\ ~Fills(b)
<1>1. /\ ~allocated_q[alloc_bank_q] /\ ~fill_active_q /\ alloc_pending_q
      /\ ~alloc_epoch_conflict
  BY DEF Alloc
<1>2. /\ ~Tracked(alloc_epoch_q)
      /\ \A b \in Banks : allocated_q[b] => epoch_q[b] # alloc_epoch_q
      /\ release_pending_q => release_epoch_q # alloc_epoch_q
  BY <1>1 DEF alloc_epoch_conflict, Tracked
<1>3. context_queue = <<>> /\ ~feeder_start
  BY <1>1, QueueShort DEF IInv
<1>4. alloc_expected_q = num_pixels /\ ~packet_done /\ vector_fill_req
  BY <1>1 DEF IInv, Filling
<1>5. ASSUME NEW b \in Banks, Allocs(env, b)
      PROVE  ~Releases(b) /\ ~Commits(b) /\ ~Reads(b) /\ ~Retires(b) /\ ~Fills(b)
  <2>1. ~allocated_q[b]
    BY <1>1, <1>5 DEF Allocs
  <2>2. ~Releases(b)
    BY <2>1, ReleaseHandshake
  <2>3. ~Commits(b)
    BY <2>1 DEF Commits, IInv, Committing
  <2>4. ~Reads(b)
    BY <2>1 DEF Reads, IInv, Owned, ReaderOwns
  <2>5. ~Retires(b)
    BY <2>1 DEF Retires, IInv, Owned, RetiringOwn, Done
  <2> QED BY <1>1, <2>2, <2>3, <2>4, <2>5 DEF Fills
<1> QED BY <1>1, <1>2, <1>3, <1>4, <1>5 DEF Write

LEMMA BufferMoves ==
  ASSUME IInv, NEW env \in Environment, NEW in, in = Ports(env),
         FrontendEdge(in)
  PROVE  OwnerMoved(env) /\ CreditMoved(env) /\ AheadMoved(env)
<1> DEFINE al == AllocPort(in)  wr == WritePort(in)  se == SelectPort(in)
           rdy == env.stream_ready
<1>1. /\ OwnerEdge(al, CommitPort, ReleasePort)
      /\ CreditEdge(al, wr, se, rdy, ReleasePort)
      /\ LookaheadEdge(al, se, rdy, ReleasePort)
  BY PortsAre DEF FrontendEdge, BufferEdge
<1>2. \A b \in Banks :
        al.valid /\ al.bank = b /\ alloc_ready(al) <=> Allocs(env, b)
  BY AllocHandshake DEF Allocs
<1>3. \A b \in Banks :
        wr.valid /\ wr.bank = b /\ wr_ready(wr) <=> Writes(b)
  BY WriteHandshake DEF Writes
<1>4. \A b \in Banks :
        CommitPort.valid /\ CommitPort.bank = b /\ commit_ready(CommitPort)
          <=> Commits(b)
  BY CommitHandshake DEF Commits
<1>5. \A b \in Banks :
        ReleasePort.valid /\ ReleasePort.bank = b /\ release_ready(ReleasePort)
          <=> Releases(b)
  BY ReleaseHandshake DEF Releases
<1>6. \A b \in Banks :
        select_lookahead_hit(se, rdy) /\ se.bank = b
          <=> Hit(env) /\ b = Head(context_queue).bank
  BY SelectHandshake DEF Hit, Select
<1>7. \A b \in Banks :
        issue_read(rdy) /\ reader_bank_q = b
          <=> Issue(env) /\ b = reader_bank_q
  BY DEF issue_read, Issue
<1>8. \A b \in Banks : output_pop(rdy) /\ reader_bank_q = b <=> Pops(env, b)
  BY DEF output_pop, Pops, Pop
<1>9. /\ al.epoch = alloc_epoch_q /\ al.expected = alloc_expected_q
      /\ Alloc(env) => alloc_expected_q = num_pixels
  BY AllocHandshake, AllocFacts
<1>10. \A b \in Banks :
         lookahead_rd_en(b, se, rdy) =>
           /\ allocated_q[b] /\ produced_q[b] # 0 /\ issued_q[b] = 0
           /\ ~Reads(b) /\ ~Ahead(b)
           /\ ~(Select(env) /\ b = Head(context_queue).bank)
  BY SelectHandshake DEF lookahead_rd_en, Reads, Ahead, Select
<1> HIDE DEF al, wr, se, rdy
<1>11. OwnerMoved(env)
  <2> SUFFICES ASSUME NEW b \in Banks
               PROVE  /\ allocated_q'[b] <=>
                           (allocated_q[b] \/ Allocs(env, b)) /\ ~Releases(b)
                      /\ committed_q'[b] <=>
                           (committed_q[b] \/ Commits(b)) /\ ~Releases(b)
                      /\ epoch_q'[b] = IF Allocs(env, b) THEN alloc_epoch_q
                                       ELSE epoch_q[b]
                      /\ expected_q'[b] = IF Allocs(env, b) THEN num_pixels
                                          ELSE expected_q[b]
    BY DEF OwnerMoved
  <2>1. /\ allocated_q'[b] <=> (allocated_q[b] \/ Allocs(env, b)) /\ ~Releases(b)
        /\ committed_q'[b] <=> /\ Commits(b) \/ (committed_q[b] /\ ~Allocs(env, b))
                               /\ ~Releases(b)
        /\ epoch_q'[b] = IF Allocs(env, b) THEN al.epoch ELSE epoch_q[b]
        /\ expected_q'[b] = IF Allocs(env, b) THEN al.expected ELSE expected_q[b]
    BY <1>1, <1>2, <1>4, <1>5 DEF OwnerEdge
  <2>2. Allocs(env, b) => ~committed_q[b]
    <3>1. Allocs(env, b) => ~allocated_q[b]
      BY AllocFacts DEF Allocs
    <3> QED BY <3>1 DEF IInv, Credited
  <2> QED BY <1>9, <2>1, <2>2 DEF Allocs
<1>12. CreditMoved(env)
  <2> SUFFICES ASSUME NEW b \in Banks
               PROVE  /\ produced_q'[b] =
                           IF Writes(b) THEN produced_q[b] + 1
                           ELSE IF Allocs(env, b) THEN 0 ELSE produced_q[b]
                      /\ write_open_q'[b] <=>
                           /\ write_open_q[b] \/ Allocs(env, b)
                           /\ ~(Writes(b) /\ produced_q[b] + 1 = expected_q[b])
                           /\ ~Releases(b)
                      /\ issued_q'[b] =
                           IF Issues(env, b) THEN issued_q[b] + 1
                           ELSE IF Allocs(env, b) THEN 0 ELSE issued_q[b]
                      /\ consumed_q'[b] =
                           IF Pops(env, b) THEN consumed_q[b] + 1
                           ELSE IF Allocs(env, b) THEN 0 ELSE consumed_q[b]
    BY DEF CreditMoved
  <2> QED BY <1>1, <1>2, <1>3, <1>5, <1>6, <1>7, <1>8 DEF CreditEdge, Issues
<1>13. AheadMoved(env)
  <2> SUFFICES ASSUME NEW b \in Banks
               PROVE  /\ lookahead_pending_q'[b] =>
                           /\ lookahead_rd_en(b, se, rdy) /\ ~Drops(env, b)
                      /\ lookahead_valid_q'[b] <=> Ahead(b) /\ ~Drops(env, b)
    BY <1>10 DEF AheadMoved
  <2> QED BY <1>1, <1>2, <1>5, <1>6 DEF LookaheadEdge, Drops, Ahead
<1> QED BY <1>11, <1>12, <1>13

ReaderMoved(env) ==
  /\ reader_active_q' <=> Select(env) \/ (reader_active_q /\ ~Finish(env))
  /\ Select(env) => /\ reader_bank_q' = Head(context_queue).bank
                    /\ reader_epoch_q' = Head(context_queue).epoch
  /\ ~Select(env) => reader_bank_q' = reader_bank_q
                     /\ reader_epoch_q' = reader_epoch_q

OutputMoved(env) ==
  /\ rd_valid_q' <=> Hit(env) \/ Issue(env) \/ (rd_valid_q /\ ~Pop(env))
  /\ Issue(env) =>
       /\ rd_bank_q' = reader_bank_q /\ rd_epoch_q' = reader_epoch_q
       /\ rd_last_q' = (issued_q[reader_bank_q] + 1 = expected_q[reader_bank_q])
  /\ Hit(env) =>
       LET c == Head(context_queue)
       IN /\ rd_bank_q' = c.bank /\ rd_epoch_q' = c.epoch
          /\ rd_last_q' = (issued_q[c.bank] + 1 = expected_q[c.bank])
  /\ ~Hit(env) /\ ~Issue(env) =>
       UNCHANGED <<rd_bank_q, rd_epoch_q, rd_last_q>>

StartsMoved(env) ==
  /\ alloc_pending_q' <=> feeder_start \/ (alloc_pending_q /\ ~Alloc(env))
  /\ alloc_expected_q' = IF feeder_start THEN num_pixels ELSE alloc_expected_q

FillMoved(env) ==
  /\ fill_active_q' <=> (fill_active_q \/ Alloc(env)) /\ ~packet_done
  /\ fill_bank_q' = IF Alloc(env) THEN alloc_bank_q ELSE fill_bank_q
  /\ fill_epoch_q' = IF Alloc(env) THEN alloc_epoch_q ELSE fill_epoch_q
  /\ fill_expected_q' = IF Alloc(env) THEN num_pixels ELSE fill_expected_q
  /\ commit_pending_q' <=> packet_done
  /\ packet_done => commit_bank_q' = fill_bank_q
                    /\ commit_epoch_q' = fill_epoch_q

QueueMoved(env) ==
  /\ Alloc(env) => /\ ~Select(env)
                   /\ context_queue' = <<[bank |-> alloc_bank_q,
                                          epoch |-> alloc_epoch_q,
                                          expected |-> num_pixels]>>
  /\ Select(env) => context_queue' = <<>>
  /\ ~Alloc(env) /\ ~Select(env) => context_queue' = context_queue
  /\ compute_request_pending_q' <=>
       (compute_request_pending_q \/ compute_start) /\ ~Select(env)

ReleaseMoved(env) ==
  /\ release_pending_q' <=> env.retires
  /\ env.retires => /\ release_bank_q' = Head(retiring).bank
                    /\ release_epoch_q' = Head(retiring).epoch

Takes(env, s) ==
  /\ Select(env) /\ ~collector_live_q[s]
  /\ \A t \in 0 .. s - 1 : collector_live_q[t]
Ends(env, s) ==
  /\ env.collects /\ collector_live_q[s]
  /\ collector_epoch_q[s] = Head(collecting).epoch
SlotsMoved(env) ==
  \A s \in CollectorSlots :
    /\ collector_live_q'[s] <=>
         (collector_live_q[s] \/ Takes(env, s)) /\ ~Ends(env, s)
    /\ collector_epoch_q'[s] = IF Takes(env, s) THEN Head(context_queue).epoch
                               ELSE collector_epoch_q[s]

LEMMA SelectFacts ==
  ASSUME IInv, NEW env, Select(env)
  PROVE  /\ context_queue # <<>> /\ Head(context_queue) \in Desc
         /\ Head(context_queue).bank \in Banks
         /\ Head(context_queue).epoch \in Epochs
         /\ ~alloc_pending_q /\ ~feeder_start /\ ~Alloc(env)
         /\ compute_request_pending_q /\ ~compute_start /\ unrequested = 0
         /\ allocated_q[Head(context_queue).bank]
         /\ epoch_q[Head(context_queue).bank] = Head(context_queue).epoch
         /\ issued_q[Head(context_queue).bank] = 0
         /\ ~Reads(Head(context_queue).bank)
         /\ ~Retires(Head(context_queue).bank)
         /\ ~Releases(Head(context_queue).bank)
         /\ ~Tracked(Head(context_queue).epoch)
         /\ ~Issue(env)
<1>1. context_queue # <<>> /\ compute_request_pending_q
  BY DEF Select
<1>2. /\ Head(context_queue) \in Desc /\ ~alloc_pending_q /\ ~feeder_start
      /\ Len(context_queue) = 1
  BY <1>1, QueueShort DEF IInv
<1>3. ~compute_start /\ unrequested = 0
  <2>1. One(compute_request_pending_q) = 1
    BY <1>1 DEF One
  <2>2. compute_start \in BOOLEAN /\ unrequested \in Nat
    BY Regs
  <2>3. /\ One(compute_start) \in {0, 1}
        /\ compute_start => One(compute_start) = 1
    BY <2>2, Ones
  <2> DEFINE c == One(compute_start)
  <2>4. unrequested + c + 1 <= 1 /\ c \in Nat
    BY <2>1, <2>3 DEF InFront, IInv
  <2> HIDE DEF c
  <2>5. c = 0 /\ unrequested = 0
    BY <2>2, <2>4
  <2> QED BY <2>3, <2>5 DEF c
<1>4. /\ allocated_q[Head(context_queue).bank]
      /\ epoch_q[Head(context_queue).bank] = Head(context_queue).epoch
      /\ issued_q[Head(context_queue).bank] = 0
      /\ ~Reads(Head(context_queue).bank)
      /\ ~Retires(Head(context_queue).bank)
      /\ ~Releases(Head(context_queue).bank)
  BY <1>1 DEF IInv, Owned, QueueOwns
<1>5. ~Tracked(Head(context_queue).epoch)
  BY <1>1 DEF IInv, EpochsHeld, SelectedTracked
<1>6. ~Issue(env)
  <2>1. CASE ~reader_active_q
    BY <2>1 DEF Issue
  <2>2. CASE reader_active_q
    <3>1. rd_valid_q /\ rd_last_q
      BY <2>2 DEF Select, Finish, Pop
    <3>2. issued_q[reader_bank_q] = expected_q[reader_bank_q]
      BY <3>1, Regs DEF IInv, Output
    <3>3. produced_q[reader_bank_q] <= expected_q[reader_bank_q]
      BY <2>2, Regs DEF IInv, Credited, CreditOk, Owned, ReaderOwns
    <3>4. reader_bank_q \in Banks
      BY Regs
    <3> QED BY <3>2, <3>3, <3>4, Regs DEF Issue
  <2> QED BY <2>1, <2>2
<1> QED BY <1>1, <1>2, <1>3, <1>4, <1>5, <1>6 DEF Desc, Alloc

LEMMA PathMoves ==
  ASSUME IInv, NEW env \in Environment, NEW in, in = Ports(env),
         env.collects => collecting # <<>>, env.retires => retiring # <<>>,
         FrontendEdge(in)
  PROVE  /\ ReaderMoved(env) /\ OutputMoved(env) /\ StartsMoved(env)
         /\ FillMoved(env) /\ QueueMoved(env) /\ ReleaseMoved(env)
         /\ SlotsMoved(env) /\ NoErrors'
<1> DEFINE se == SelectPort(in)  rdy == env.stream_ready
<1>1. /\ ReaderEdge(se, rdy, ReleasePort) /\ OutputEdge(se, rdy)
      /\ AllocEdge(in) /\ FillEdge(in) /\ ComputeEdge(in) /\ ReleaseEdge(in)
      /\ CollectorEdge(in)
  BY PortsAre DEF FrontendEdge, BufferEdge
<1>2. /\ se.valid /\ select_ready(se, rdy) <=> Select(env)
      /\ select_lookahead_hit(se, rdy) <=> Hit(env)
      /\ select_fire(in) <=> Select(env)
      /\ Select(env) => /\ se.bank = Head(context_queue).bank
                        /\ se.epoch = Head(context_queue).epoch
      /\ se.bank \in Banks
  BY SelectHandshake DEF Select
<1>3. /\ alloc_fire(in) <=> Alloc(env)
      /\ in.feeder_start /\ frontend_start_ready <=> feeder_start
  BY AllocHandshake, PortsAre, StartsTaken
<1>4. /\ issue_read(rdy) <=> Issue(env)
      /\ output_pop(rdy) <=> Pop(env)
      /\ output_finishes_context(rdy) <=> Finish(env)
  BY DEF issue_read, Issue, output_pop, Pop, output_finishes_context, Finish
<1>5. /\ release_fire <=> release_pending_q
      /\ ~(ReleasePort.valid /\ release_ready(ReleasePort)
             /\ reader_active_q /\ reader_bank_q = ReleasePort.bank)
  BY ReleaseHandshake, Regs DEF Releases, Reads
<1>6. commit_fire <=> commit_pending_q
  BY CommitHandshake
<1>7. Hit(env) => Select(env) /\ ~Issue(env)
  BY SelectFacts DEF Hit
<1>8. /\ in.packet_done = packet_done /\ in.compute_start = compute_start
      /\ in.context_expected = num_pixels
      /\ in.retired = Context(retiring, env.retires)
      /\ in.collected = Context(collecting, env.collects)
  BY PortsAre
<1> HIDE DEF se, rdy
<1>9. ReaderMoved(env)
  BY <1>1, <1>2, <1>4, <1>5 DEF ReaderEdge, ReaderMoved
<1>10. OutputMoved(env)
  <2>1. rd_valid_q' <=> Hit(env) \/ Issue(env) \/ (rd_valid_q /\ ~rdy)
    BY <1>1, <1>2, <1>4 DEF OutputEdge
  <2>2. rd_valid_q /\ ~rdy <=> rd_valid_q /\ ~Pop(env)
    BY DEF Pop, rdy
  <2>3. CASE Issue(env)
    <3>1. /\ rd_bank_q' = reader_bank_q /\ rd_epoch_q' = reader_epoch_q
          /\ rd_last_q' = (issued_q[reader_bank_q] + 1 = expected_q[reader_bank_q])
      BY <1>1, <1>4, <2>3 DEF OutputEdge
    <3> QED BY <1>7, <2>1, <2>2, <2>3, <3>1 DEF OutputMoved
  <2>4. CASE Hit(env) /\ ~Issue(env)
    <3>1. /\ rd_bank_q' = se.bank /\ rd_epoch_q' = se.epoch
          /\ rd_last_q' = (issued_q[se.bank] + 1 = expected_q[se.bank])
      BY <1>1, <1>2, <1>4, <2>4 DEF OutputEdge
    <3> QED BY <1>2, <1>7, <2>1, <2>2, <2>4, <3>1 DEF OutputMoved
  <2>5. CASE ~Hit(env) /\ ~Issue(env)
    <3>1. UNCHANGED <<rd_bank_q, rd_epoch_q, rd_last_q>>
      BY <1>1, <1>2, <1>4, <2>5 DEF OutputEdge
    <3> QED BY <2>1, <2>2, <2>5, <3>1 DEF OutputMoved
  <2> QED BY <2>3, <2>4, <2>5
<1>11. StartsMoved(env)
  BY <1>1, <1>3, <1>8 DEF AllocEdge, StartsMoved
<1>12. FillMoved(env)
  <2>1. Alloc(env) => alloc_expected_q = num_pixels
    BY AllocFacts
  <2>2. packet_done => fill_active_q /\ ~commit_pending_q
    BY DEF IInv, Filling
  <2> QED BY <1>1, <1>3, <1>6, <1>8, <2>1, <2>2 DEF FillEdge, FillMoved
<1>13. QueueMoved(env)
  <2>1. Alloc(env) => /\ alloc_expected_q = num_pixels /\ context_queue = <<>>
                      /\ ~Select(env)
    BY AllocFacts DEF Select
  <2>2. Select(env) => Tail(context_queue) = <<>>
    BY QueueShort, SelectFacts DEF IInv
  <2>3. compute_request_pending_q' <=>
          (compute_request_pending_q \/ compute_start) /\ ~Select(env)
    BY <1>1, <1>2, <1>8 DEF ComputeEdge
  <2>4. context_queue' =
          IF Alloc(env)
          THEN Append(IF Select(env) THEN Tail(context_queue) ELSE context_queue,
                      [bank |-> alloc_bank_q, epoch |-> alloc_epoch_q,
                       expected |-> alloc_expected_q])
          ELSE IF Select(env) THEN Tail(context_queue) ELSE context_queue
    BY <1>1, <1>2, <1>3 DEF ComputeEdge
  <2>5. \A x : Append(<<>>, x) = <<x>>
    OBVIOUS
  <2> QED BY <2>1, <2>2, <2>3, <2>4, <2>5 DEF QueueMoved
<1>14. ReleaseMoved(env)
  <2>1. in.retired.valid <=> env.retires
    BY <1>8, EnvTypes, ContextIs DEF IInv
  <2>2. env.retires => /\ in.retired.bank = Head(retiring).bank
                       /\ in.retired.epoch = Head(retiring).epoch
    BY <1>8, EnvTypes, ContextIs DEF IInv
  <2> QED BY <1>1, <1>5, <2>1, <2>2 DEF ReleaseEdge, ReleaseTaken, ReleaseMoved
<1>15. SlotsMoved(env)
  <2>1. in.collected.valid <=> env.collects
    BY <1>8, EnvTypes, ContextIs DEF IInv
  <2>2. env.collects => in.collected.epoch = Head(collecting).epoch
    BY <1>8, EnvTypes, ContextIs DEF IInv
  <2> QED BY <1>1, <1>2, <2>1, <2>2
         DEF CollectorEdge, SlotsMoved, Takes, Ends
<1>16. NoErrors'
  BY ErrorsStay DEF FrontendEdge, BufferEdge, NoErrors, IInv
<1> QED BY <1>9, <1>10, <1>11, <1>12, <1>13, <1>14, <1>15, <1>16

Arrives(env) == active /\ ~vector_pending /\ env.arrives
LoaderMoved(env) ==
  /\ vector_fill_req' <=> feeder_start \/ (vector_fill_req /\ ~packet_done)
  /\ active' <=> (active \/ Begin) /\ ~End
  /\ req_armed' <=> (req_armed \/ ~vector_fill_req) /\ ~Begin
  /\ pixel_index' = IF Begin \/ End THEN 0
                    ELSE IF Write THEN pixel_index + 1 ELSE pixel_index
  /\ packet_done' <=> End
  /\ Arrives(env) => /\ vector_pending' /\ raw_vector' \in Vector
                     /\ pending_last_pixel' = (pixel_index + 1 = num_pixels)
  /\ ~Arrives(env) => /\ vector_pending' <=> vector_pending /\ ~Write
                      /\ UNCHANGED <<pending_last_pixel, raw_vector>>

CoreMoved(env) ==
  /\ retiring' = (IF env.retires THEN Tail(retiring) ELSE retiring)
       \o (IF Finish(env) THEN <<[bank |-> rd_bank_q, epoch |-> rd_epoch_q]>>
           ELSE <<>>)
  /\ collecting' = (IF env.collects THEN Tail(collecting) ELSE collecting)
       \o (IF env.retires THEN <<Head(retiring)>> ELSE <<>>)
  /\ handed' = IF Pop(env) THEN Offered ELSE NoHand

LEMMA LoaderMoves ==
  ASSUME IInv, NEW env \in Environment, NEW in, in = Ports(env),
         FeederEdge, LoaderEdge(in)
  PROVE  LoaderMoved(env)
<1>1. feeder_start_accept <=> feeder_start
  BY StartsTaken
<1>2. (vector_pending /\ fill_active_q /\ wr_ready(WritePort(in))) <=> Write
  BY WriteHandshake
<1>3. num_pixels # 0 /\ in.arrives = env.arrives
  BY Regs, PortsAre
<1>4. active => Payload(fill_epoch_q, pixel_index) \subseteq Vector
  <2>1. active => pixel_index \in 0 .. DEPTH - 1
    <3>1. active => pixel_index < num_pixels
      BY DEF IInv, Filling
    <3> QED BY <3>1, Regs
  <2>2. fill_epoch_q \in Epochs
    BY DEF IInv, Typed, TypeOK, FrontendTypeOK
  <2> QED BY <2>1, <2>2, PayloadAssumption
<1>5. vector_fill_req' <=> feeder_start \/ (vector_fill_req /\ ~packet_done)
  BY <1>1 DEF FeederEdge
<1> DEFINE begins == ~active /\ vector_fill_req /\ req_armed /\ num_pixels # 0
           fires == vector_pending /\ fill_active_q /\ wr_ready(WritePort(in))
           ends == fires /\ pending_last_pixel
<1>6. /\ begins <=> Begin
      /\ fires <=> Write
      /\ ends <=> End
  BY <1>2, <1>3 DEF Begin, End
<1>7. /\ active' = ((active \/ begins) /\ ~ends)
      /\ req_armed' = ((req_armed \/ ~vector_fill_req) /\ ~begins)
      /\ pixel_index' = IF begins \/ ends THEN 0
                        ELSE IF fires THEN pixel_index + 1 ELSE pixel_index
      /\ packet_done' = ends
      /\ \/ /\ active /\ ~vector_pending /\ in.arrives
            /\ vector_pending' = TRUE /\ pending_last_pixel' = last_pixel
            /\ raw_vector' \in Payload(fill_epoch_q, pixel_index)
         \/ /\ ~(active /\ ~vector_pending /\ in.arrives)
            /\ vector_pending' = (vector_pending /\ ~fires)
            /\ UNCHANGED <<pending_last_pixel, raw_vector>>
  BY DEF LoaderEdge
<1> HIDE DEF begins, fires, ends
<1>8. /\ active' <=> (active \/ Begin) /\ ~End
      /\ req_armed' <=> (req_armed \/ ~vector_fill_req) /\ ~Begin
      /\ pixel_index' = IF Begin \/ End THEN 0
                        ELSE IF Write THEN pixel_index + 1 ELSE pixel_index
      /\ packet_done' <=> End
  BY <1>6, <1>7
<1>9. /\ Arrives(env) => /\ vector_pending' /\ raw_vector' \in Vector
                         /\ pending_last_pixel' = (pixel_index + 1 = num_pixels)
      /\ ~Arrives(env) => /\ vector_pending' <=> vector_pending /\ ~Write
                          /\ UNCHANGED <<pending_last_pixel, raw_vector>>
  BY <1>3, <1>4, <1>6, <1>7 DEF Arrives, last_pixel
<1> QED BY <1>5, <1>8, <1>9 DEF LoaderMoved

LEMMA CoreMoves ==
  ASSUME IInv, NEW env \in Environment, NEW in, in = Ports(env),
         env.collects => collecting # <<>>, env.retires => retiring # <<>>,
         CoreEdge(in)
  PROVE  CoreMoved(env)
<1>1. in.stream_ready = env.stream_ready
  BY PortsAre
<1>2. /\ output_pop(in.stream_ready) <=> Pop(env)
      /\ output_finishes_context(in.stream_ready) <=> Finish(env)
  BY <1>1 DEF output_pop, Pop, output_finishes_context, Finish
<1>3. /\ in.retired.valid <=> env.retires
      /\ in.collected.valid <=> env.collects
  BY PortsAre, EnvTypes, ContextIs DEF IInv
<1> QED BY <1>2, <1>3 DEF CoreEdge, CoreMoved

\* Everything an edge does.
Moved(env) ==
  /\ OwnerMoved(env) /\ CreditMoved(env) /\ AheadMoved(env)
  /\ ReaderMoved(env) /\ OutputMoved(env) /\ StartsMoved(env)
  /\ FillMoved(env) /\ QueueMoved(env) /\ ReleaseMoved(env) /\ SlotsMoved(env)
  /\ LoaderMoved(env) /\ CoreMoved(env) /\ SchedulerEdge(env.start, env.request)
  /\ NoErrors'
  /\ env.collects => collecting # <<>>
  /\ env.retires => retiring # <<>>

LEMMA EdgeMoves ==
  ASSUME IInv, NEW env \in Environment, Edge(env)
  PROVE  Moved(env)
<1> DEFINE in == Ports(env)
<1>1. /\ env.retires => retiring # <<>>
      /\ env.collects => collecting # <<>>
      /\ SchedulerEdge(env.start, env.request)
      /\ FrontendEdge(in) /\ FeederEdge /\ LoaderEdge(in)
      /\ CoreEdge(in)
  BY EdgeIs
<1> HIDE DEF in
<1>2. in = Ports(env)
  BY DEF in
<1>3. OwnerMoved(env) /\ CreditMoved(env) /\ AheadMoved(env)
  BY <1>1, <1>2, BufferMoves
<1>4. /\ ReaderMoved(env) /\ OutputMoved(env) /\ StartsMoved(env)
      /\ FillMoved(env) /\ QueueMoved(env) /\ ReleaseMoved(env)
      /\ SlotsMoved(env) /\ NoErrors'
  BY <1>1, <1>2, PathMoves
<1>5. LoaderMoved(env)
  BY <1>1, <1>2, LoaderMoves
<1>6. CoreMoved(env)
  BY <1>1, <1>2, CoreMoves
<1> QED BY <1>1, <1>3, <1>4, <1>5, <1>6 DEF Moved

-----------------------------------------------------------------------------
(* Each part of the invariant holds after an edge *)

\* A start comes to an idle front.
LEMMA StartFacts ==
  ASSUME IInv, NEW env \in Environment, Moved(env)
  PROVE  /\ feeder_start' <=> env.start # 0
         /\ env.start # 0 =>
              /\ ~vector_fill_req /\ ~alloc_pending_q /\ ~fill_active_q
              /\ ~feeder_start /\ ~packet_done /\ ~Select(env) /\ ~Alloc(env)
              /\ context_queue = <<>> /\ unrequested = 0 /\ ~compute_start
              /\ ~compute_request_pending_q
         /\ env.start = 0 => num_pixels' = num_pixels
         /\ num_pixels' = IF env.start # 0 THEN env.start ELSE num_pixels
<1>1. SchedulerEdge(env.start, env.request)
  BY DEF Moved
<1>2. /\ feeder_start' <=> env.start # 0
      /\ num_pixels' = IF env.start # 0 THEN env.start ELSE num_pixels
      /\ env.start # 0 => feeder_start_ready /\ AllAccepted
  BY <1>1 DEF SchedulerEdge
<1>3. ASSUME env.start # 0
      PROVE  /\ ~vector_fill_req /\ ~alloc_pending_q /\ ~fill_active_q
             /\ ~feeder_start /\ ~packet_done /\ ~Select(env) /\ ~Alloc(env)
             /\ context_queue = <<>> /\ unrequested = 0 /\ ~compute_start
             /\ ~compute_request_pending_q
  <2>1. /\ ~vector_fill_req /\ ~alloc_pending_q /\ unrequested = 0
        /\ ~compute_start /\ ~compute_request_pending_q
    BY <1>2, <1>3 DEF feeder_start_ready, frontend_start_ready, AllAccepted
  <2>2. ~fill_active_q /\ ~packet_done
    BY <2>1 DEF IInv, Filling
  <2> DEFINE l == Len(context_queue)  f == One(feeder_start)
  <2>3. l + f = 0
    <3>1. One(alloc_pending_q) = 0 /\ One(compute_start) = 0
          /\ One(compute_request_pending_q) = 0
      BY <2>1 DEF One
    <3>2. l + One(alloc_pending_q) + f
            = unrequested + One(compute_start) + One(compute_request_pending_q)
      BY DEF IInv, InFront
    <3>3. l \in Nat /\ f \in Nat
      BY Regs, Ones DEF IInv, Typed
    <3> QED BY <2>1, <3>1, <3>2, <3>3
  <2>4. l \in Nat /\ f \in {0, 1}
    BY Regs, Ones DEF IInv, Typed
  <2>5. f # 1 /\ l = 0
    BY <2>3, <2>4
  <2>6. feeder_start => f = 1
    BY DEF One
  <2>7. context_queue = <<>>
    BY <2>5, EmptySeq DEF IInv, Typed
  <2> HIDE DEF l, f
  <2> QED BY <2>1, <2>2, <2>5, <2>6, <2>7 DEF Select, Alloc
<1> QED BY <1>2, <1>3

LEMMA QueueTyped ==
  ASSUME IInv, NEW env, Moved(env)
  PROVE  context_queue' \in Seq(Desc) /\ Len(context_queue') \in {0, 1}
<1> DEFINE d == [bank |-> alloc_bank_q, epoch |-> alloc_epoch_q,
                 expected |-> num_pixels]
<1>1. QueueMoved(env)
  BY DEF Moved
<1>2. d \in Desc
  BY DEF Desc, IInv, Typed, TypeOK, FrontendTypeOK
<1>3. <<d>> \in Seq(Desc) /\ Len(<<d>>) = 1
  BY <1>2
<1>4. <<>> \in Seq(Desc) /\ Len(<<>>) = 0
  OBVIOUS
<1>5. context_queue \in Seq(Desc) /\ Len(context_queue) \in {0, 1}
  BY QueueShort DEF IInv, Typed
<1>6. context_queue' \in {<<d>>, <<>>, context_queue}
  BY <1>1 DEF QueueMoved
<1> QED BY <1>3, <1>4, <1>5, <1>6

LEMMA InFrontKept ==
  ASSUME IInv, NEW env \in Environment, Moved(env)
  PROVE  InFront'
<1> DEFINE l == Len(context_queue)  a == One(alloc_pending_q)
           f == One(feeder_start)  c == One(compute_start)
           r == One(compute_request_pending_q)
           s == One(Select(env))  n == One(env.start # 0)  q == One(env.request)
<1>1. /\ a \in {0, 1} /\ f \in {0, 1} /\ c \in {0, 1} /\ r \in {0, 1}
      /\ s \in {0, 1} /\ n \in {0, 1} /\ q \in {0, 1}
      /\ l \in Nat /\ unrequested \in Nat
  BY Regs, Ones DEF One, IInv, Typed
<1>2. l + a + f = unrequested + c + r /\ unrequested + c + r <= 1
  BY DEF IInv, InFront
<1>3. l' + a' = l + a + f - s
  <2>1. alloc_pending_q' <=> feeder_start \/ (alloc_pending_q /\ ~Alloc(env))
    BY DEF Moved, StartsMoved
  <2>2. CASE Alloc(env)
    <3>1. l = 0 /\ a = 1 /\ f = 0 /\ s = 0
      BY <2>2, AllocFacts DEF QueueMoved, Moved, One
    <3>2. Len(context_queue') = 1
      BY <2>2 DEF QueueMoved, Moved
    <3>3. a' = 0
      BY <2>1, <2>2, AllocFacts DEF One
    <3> QED BY <3>1, <3>2, <3>3
  <2>3. CASE Select(env)
    <3>1. l = 1 /\ a = 0 /\ f = 0 /\ s = 1
      BY <2>3, SelectFacts, QueueShort DEF IInv, One
    <3>2. Len(context_queue') = 0
      BY <2>3 DEF QueueMoved, Moved
    <3>3. a' = 0
      BY <2>1, <2>3, SelectFacts DEF One
    <3> QED BY <3>1, <3>2, <3>3
  <2>4. CASE ~Alloc(env) /\ ~Select(env)
    <3>1. l' = l /\ s = 0
      BY <2>4 DEF QueueMoved, Moved, One
    <3>2. a' = a + f
      <4>1. feeder_start => ~alloc_pending_q
        BY QueueShort DEF IInv
      <4> QED BY <2>1, <2>4, <4>1 DEF One
    <3> QED BY <1>1, <3>1, <3>2
  <2> QED BY <2>2, <2>3, <2>4
<1>4. /\ f' = n /\ c' = q
      /\ unrequested' = unrequested + n - q
      /\ q = 1 => unrequested # 0 \/ n = 1
  BY DEF Moved, SchedulerEdge, One
<1>5. r' = r + c - s
  <2>1. compute_request_pending_q' <=>
          (compute_request_pending_q \/ compute_start) /\ ~Select(env)
    BY DEF Moved, QueueMoved
  <2>2. Select(env) => compute_request_pending_q /\ ~compute_start
    BY SelectFacts
  <2>3. compute_start => ~compute_request_pending_q
    BY QueueShort DEF IInv
  <2> QED BY <2>1, <2>2, <2>3 DEF One
<1>6. n = 1 => unrequested = 0 /\ c = 0 /\ r = 0 /\ s = 0
  BY StartFacts DEF One
<1>7. l' \in Nat /\ a' \in {0, 1} /\ r' \in {0, 1}
  <2>1. context_queue' \in Seq(Desc)
    BY QueueTyped
  <2> QED BY <2>1 DEF One
<1> DEFINE u2 == unrequested'  l2 == l'  a2 == a'  r2 == r'
<1> HIDE DEF l, a, f, c, r, s, n, q
<1>8. l' + a' + f' = unrequested' + c' + r' /\ unrequested' + c' + r' <= 1
  <2>1. l2 \in Nat /\ a2 \in Nat /\ r2 \in Nat /\ l2 + a2 = l + a + f - s
        /\ r2 = r + c - s /\ u2 = unrequested + n - q
    BY <1>3, <1>4, <1>5, <1>7
  <2> HIDE DEF u2, l2, a2, r2
  <2>2. l2 + a2 + n = u2 + q + r2 /\ u2 + q + r2 <= 1
    BY <1>1, <1>2, <1>6, <2>1
  <2> QED BY <1>4, <2>2 DEF u2, l2, a2, r2
<1> QED BY <1>8 DEF l, a, f, c, r, InFront

LEMMA FillingKept ==
  ASSUME IInv, NEW env \in Environment, Moved(env)
  PROVE  Filling'
<1>1. Filling
  BY DEF IInv
<1>2. /\ alloc_pending_q' <=> feeder_start \/ (alloc_pending_q /\ ~Alloc(env))
      /\ alloc_expected_q' = IF feeder_start THEN num_pixels ELSE alloc_expected_q
      /\ fill_active_q' <=> (fill_active_q \/ Alloc(env)) /\ ~packet_done
      /\ fill_expected_q' = IF Alloc(env) THEN num_pixels ELSE fill_expected_q
      /\ commit_pending_q' <=> packet_done
  BY DEF Moved, StartsMoved, FillMoved
<1>3. /\ vector_fill_req' <=> feeder_start \/ (vector_fill_req /\ ~packet_done)
      /\ active' <=> (active \/ Begin) /\ ~End
      /\ req_armed' <=> (req_armed \/ ~vector_fill_req) /\ ~Begin
      /\ pixel_index' = IF Begin \/ End THEN 0
                        ELSE IF Write THEN pixel_index + 1 ELSE pixel_index
      /\ packet_done' <=> End
      /\ Arrives(env) => /\ vector_pending' /\ raw_vector' \in Vector
                         /\ pending_last_pixel' = (pixel_index + 1 = num_pixels)
      /\ ~Arrives(env) => /\ vector_pending' <=> vector_pending /\ ~Write
                          /\ UNCHANGED <<pending_last_pixel, raw_vector>>
  BY DEF Moved, LoaderMoved
<1>4. /\ feeder_start' <=> env.start # 0
      /\ env.start # 0 => ~vector_fill_req /\ ~feeder_start
      /\ env.start = 0 => num_pixels' = num_pixels
  BY StartFacts
<1>5. /\ Alloc(env) => alloc_pending_q
      /\ Write <=> vector_pending /\ fill_active_q
      /\ End <=> vector_pending /\ fill_active_q /\ pending_last_pixel
      /\ Begin <=> ~active /\ vector_fill_req /\ req_armed
      /\ Arrives(env) => active /\ ~vector_pending
  BY DEF Alloc, Write, End, Begin, Arrives
<1>6. /\ num_pixels \in Nat /\ num_pixels # 0 /\ pixel_index \in Nat
  BY Regs
<1>7. /\ feeder_start => ~vector_fill_req /\ req_armed
      /\ vector_fill_req <=> alloc_pending_q \/ fill_active_q
      /\ ~(alloc_pending_q /\ fill_active_q)
      /\ packet_done => fill_active_q /\ ~req_armed
      /\ active => vector_fill_req /\ ~req_armed /\ ~packet_done
      /\ ~active => pixel_index = 0 /\ ~vector_pending
  BY <1>1 DEF Filling
<1>8. feeder_start' => ~vector_fill_req' /\ req_armed'
  BY <1>3, <1>4, <1>5, <1>7
<1>9. /\ vector_fill_req' <=> alloc_pending_q' \/ fill_active_q'
      /\ ~(alloc_pending_q' /\ fill_active_q')
  BY <1>2, <1>3, <1>5, <1>7
<1>10. alloc_pending_q' =>
         /\ alloc_expected_q' = num_pixels' /\ pixel_index' = 0 /\ ~packet_done'
  <2> SUFFICES ASSUME alloc_pending_q'
               PROVE  /\ alloc_expected_q' = num_pixels' /\ pixel_index' = 0
                      /\ ~packet_done'
    OBVIOUS
  <2>1. CASE feeder_start
    BY <1>2, <1>3, <1>4, <1>5, <1>7, <2>1
  <2>2. CASE ~feeder_start
    <3>1. alloc_pending_q /\ alloc_expected_q = num_pixels /\ pixel_index = 0
      BY <1>1, <1>2, <2>2 DEF Filling
    <3> QED BY <1>2, <1>3, <1>4, <1>5, <1>7, <2>2, <3>1
  <2> QED BY <2>1, <2>2
<1>11. fill_active_q' => fill_expected_q' = num_pixels'
  <2>1. fill_active_q => fill_expected_q = num_pixels
    BY <1>1 DEF Filling
  <2> QED BY <1>2, <1>4, <1>5, <1>7, <2>1
<1>12. /\ fill_active_q' => active' \/ packet_done'
       /\ alloc_pending_q' => active' \/ req_armed'
  <2>1. /\ fill_active_q => active \/ packet_done
        /\ alloc_pending_q => active \/ req_armed
    BY <1>1 DEF Filling
  <2> QED BY <1>2, <1>3, <1>5, <1>7, <2>1
<1>13. active' => /\ vector_fill_req' /\ ~req_armed' /\ ~packet_done'
                  /\ pixel_index' < num_pixels'
  <2> SUFFICES ASSUME active'
               PROVE  /\ vector_fill_req' /\ ~req_armed' /\ ~packet_done'
                      /\ pixel_index' < num_pixels'
    OBVIOUS
  <2>1. ~End /\ vector_fill_req /\ num_pixels' = num_pixels /\ ~packet_done
    BY <1>3, <1>4, <1>5, <1>7
  <2>2. vector_fill_req' /\ ~req_armed' /\ ~packet_done'
    BY <1>3, <1>5, <1>7, <2>1
  <2>3. CASE Begin
    BY <1>3, <1>6, <2>1, <2>2, <2>3
  <2>4. CASE ~Begin /\ Write
    <3>1. pixel_index < num_pixels /\ pixel_index + 1 # num_pixels
      BY <1>1, <1>3, <1>5, <2>1, <2>4 DEF Filling
    <3> QED BY <1>3, <1>6, <2>1, <2>2, <2>4, <3>1
  <2>5. CASE ~Begin /\ ~Write
    <3>1. pixel_index < num_pixels
      BY <1>1, <1>3, <2>5 DEF Filling
    <3> QED BY <1>3, <2>1, <2>2, <2>5, <3>1
  <2> QED BY <2>3, <2>4, <2>5
<1>14. ~active' => pixel_index' = 0 /\ ~vector_pending'
  BY <1>3, <1>5, <1>7
<1>15. packet_done' => fill_active_q' /\ ~req_armed'
  BY <1>2, <1>3, <1>5, <1>7
<1>16. vector_pending' => /\ pending_last_pixel' = (pixel_index' + 1 = num_pixels')
                          /\ raw_vector' \in Vector
  <2> SUFFICES ASSUME vector_pending'
               PROVE  /\ pending_last_pixel' = (pixel_index' + 1 = num_pixels')
                      /\ raw_vector' \in Vector
    OBVIOUS
  <2>1. /\ active /\ ~Write /\ ~Begin /\ ~End
        /\ pixel_index' = pixel_index /\ num_pixels' = num_pixels
    BY <1>3, <1>4, <1>5, <1>7
  <2>2. ~Arrives(env) =>
          /\ pending_last_pixel = (pixel_index + 1 = num_pixels)
          /\ raw_vector \in Vector
    BY <1>1, <1>3 DEF Filling
  <2> QED BY <1>3, <2>1, <2>2
<1>17. commit_pending_q' => ~vector_fill_req' /\ ~feeder_start'
  BY <1>2, <1>3, <1>4, <1>7
<1> QED BY <1>8, <1>9, <1>10, <1>11, <1>12, <1>13, <1>14, <1>15, <1>16, <1>17
       DEF Filling

\* Who may touch a bank.
LEMMA BankEvents ==
  ASSUME IInv, NEW env, NEW b \in Banks
  PROVE  /\ Allocs(env, b) => /\ ~allocated_q[b] /\ ~Releases(b) /\ ~Commits(b)
                              /\ ~Reads(b) /\ ~Retires(b) /\ ~Fills(b)
                              /\ ~Queues(b) /\ ~Writes(b) /\ ~Ahead(b)
         /\ Writes(b) => /\ allocated_q[b] /\ ~committed_q[b] /\ Fills(b)
                         /\ produced_q[b] < expected_q[b] /\ ~packet_done
                         /\ ~Commits(b)
         /\ Pops(env, b) => /\ allocated_q[b] /\ Reads(b)
                            /\ issued_q[b] = consumed_q[b] + 1
         /\ Issues(env, b) => /\ allocated_q[b] /\ (Reads(b) \/ Queues(b))
                              /\ issued_q[b] < produced_q[b]
         /\ Commits(b) => /\ allocated_q[b] /\ ~committed_q[b] /\ ~Fills(b)
                          /\ produced_q[b] = expected_q[b]
                          /\ consumed_q[b] < expected_q[b]
         /\ Queues(b) => /\ allocated_q[b] /\ ~Reads(b) /\ ~Retires(b)
                         /\ issued_q[b] = 0
         /\ Reads(b) => allocated_q[b] /\ ~Retires(b)
<1>1. Queues(b) => /\ allocated_q[b] /\ ~Reads(b) /\ ~Retires(b)
                   /\ ~Releases(b) /\ issued_q[b] = 0
  BY DEF Queues, IInv, Owned, QueueOwns
<1>2. Reads(b) => allocated_q[b] /\ ~Retires(b)
  BY DEF Reads, IInv, Owned, ReaderOwns
<1>3. Fills(b) => vector_fill_req /\ ~committed_q[b] /\ allocated_q[b]
  BY DEF Fills, IInv, Filled, Filling
<1>4. Commits(b) => /\ allocated_q[b] /\ ~committed_q[b] /\ ~Fills(b)
                    /\ produced_q[b] = expected_q[b]
                    /\ consumed_q[b] < expected_q[b]
  BY DEF Commits, Fills, IInv, Committing, Filling
<1>5. Writes(b) => /\ allocated_q[b] /\ Fills(b) /\ ~packet_done
                   /\ produced_q[b] < expected_q[b]
  <2> SUFFICES ASSUME Writes(b)
               PROVE  /\ allocated_q[b] /\ Fills(b) /\ ~packet_done
                      /\ produced_q[b] < expected_q[b]
    OBVIOUS
  <2>1. Write /\ b = fill_bank_q /\ fill_active_q
    BY DEF Writes, Write
  <2>2. /\ active /\ ~packet_done /\ allocated_q[b]
        /\ produced_q[b] = pixel_index /\ expected_q[b] = num_pixels
        /\ pixel_index < num_pixels
    <3>1. active /\ ~packet_done /\ pixel_index < num_pixels
      BY <2>1 DEF Write, IInv, Filling
    <3> QED BY <2>1, <3>1 DEF IInv, Filled, Filling
  <2> QED BY <2>1, <2>2 DEF Fills
<1>6. Pops(env, b) => /\ allocated_q[b] /\ Reads(b)
                      /\ issued_q[b] = consumed_q[b] + 1
  <2>1. Pops(env, b) => Reads(b) /\ issued_q[b] = consumed_q[b] + 1
    BY DEF Pops, Pop, Reads, IInv, Output
  <2> QED BY <1>2, <2>1
<1>7. Issues(env, b) => /\ allocated_q[b] /\ (Reads(b) \/ Queues(b))
                        /\ issued_q[b] < produced_q[b]
  <2>1. Issue(env) /\ b = reader_bank_q => Reads(b) /\ issued_q[b] < produced_q[b]
    BY DEF Issue, Reads
  <2>2. Hit(env) /\ b = Head(context_queue).bank =>
          Queues(b) /\ issued_q[b] = 0 /\ produced_q[b] # 0
    BY DEF Hit, Select, Queues, IInv, Fetched
  <2>3. issued_q[b] \in Nat /\ produced_q[b] \in Nat
    BY Regs
  <2> QED BY <1>1, <1>2, <2>1, <2>2, <2>3 DEF Issues
<1>8. Allocs(env, b) => /\ ~allocated_q[b] /\ ~Releases(b) /\ ~Commits(b)
                        /\ ~Reads(b) /\ ~Retires(b) /\ ~Fills(b)
  BY AllocFacts DEF Allocs
<1>9. Allocs(env, b) => ~Ahead(b)
  BY <1>8 DEF IInv, Credited, Ahead
<1> QED BY <1>1, <1>2, <1>3, <1>4, <1>5, <1>6, <1>7, <1>8, <1>9

LEMMA CreditedKept ==
  ASSUME IInv, NEW env \in Environment, Moved(env)
  PROVE  Credited'
<1> SUFFICES ASSUME NEW b \in Banks
             PROVE  /\ allocated_q'[b] => CreditOk(b)'
                    /\ ~allocated_q'[b] =>
                         /\ ~write_open_q'[b] /\ ~committed_q'[b]
                         /\ ~lookahead_pending_q'[b] /\ ~lookahead_valid_q'[b]
  BY DEF Credited
<1>1. /\ allocated_q'[b] <=> (allocated_q[b] \/ Allocs(env, b)) /\ ~Releases(b)
      /\ committed_q'[b] <=> (committed_q[b] \/ Commits(b)) /\ ~Releases(b)
      /\ expected_q'[b] = IF Allocs(env, b) THEN num_pixels ELSE expected_q[b]
  BY DEF Moved, OwnerMoved
<1>2. /\ produced_q'[b] = IF Writes(b) THEN produced_q[b] + 1
                          ELSE IF Allocs(env, b) THEN 0 ELSE produced_q[b]
      /\ write_open_q'[b] <=>
           /\ write_open_q[b] \/ Allocs(env, b)
           /\ ~(Writes(b) /\ produced_q[b] + 1 = expected_q[b])
           /\ ~Releases(b)
      /\ issued_q'[b] = IF Issues(env, b) THEN issued_q[b] + 1
                        ELSE IF Allocs(env, b) THEN 0 ELSE issued_q[b]
      /\ consumed_q'[b] = IF Pops(env, b) THEN consumed_q[b] + 1
                          ELSE IF Allocs(env, b) THEN 0 ELSE consumed_q[b]
  BY DEF Moved, CreditMoved
<1>3. /\ lookahead_pending_q'[b] => allocated_q[b] /\ ~Drops(env, b)
      /\ lookahead_valid_q'[b] => Ahead(b) /\ ~Drops(env, b)
      /\ Releases(b) => Drops(env, b)
  BY DEF Moved, AheadMoved, Drops
<1>4. /\ Allocs(env, b) => /\ ~allocated_q[b] /\ ~Releases(b) /\ ~Commits(b)
                           /\ ~Reads(b) /\ ~Queues(b) /\ ~Writes(b)
      /\ Writes(b) => /\ allocated_q[b] /\ ~committed_q[b] /\ ~Commits(b)
                      /\ produced_q[b] < expected_q[b]
      /\ Pops(env, b) => Reads(b) /\ issued_q[b] = consumed_q[b] + 1
      /\ Issues(env, b) => /\ Reads(b) \/ Queues(b)
                           /\ issued_q[b] < produced_q[b]
      /\ Commits(b) => produced_q[b] = expected_q[b]
  BY BankEvents
<1>5. /\ expected_q[b] \in Nat /\ produced_q[b] \in Nat /\ issued_q[b] \in Nat
      /\ consumed_q[b] \in Nat /\ num_pixels \in Nat /\ num_pixels # 0
  BY Regs
<1>6. /\ allocated_q[b] => CreditOk(b)
      /\ ~allocated_q[b] => /\ ~write_open_q[b] /\ ~committed_q[b] /\ ~Ahead(b)
  BY DEF IInv, Credited, Ahead
<1>7. ASSUME ~allocated_q'[b]
      PROVE  /\ ~write_open_q'[b] /\ ~committed_q'[b]
             /\ ~lookahead_pending_q'[b] /\ ~lookahead_valid_q'[b]
  <2>1. Releases(b) \/ (~allocated_q[b] /\ ~Allocs(env, b))
    BY <1>1, <1>7
  <2>2. Commits(b) => allocated_q[b]
    BY BankEvents
  <2> QED BY <1>1, <1>2, <1>3, <1>6, <2>1, <2>2
<1>8. ASSUME Allocs(env, b)
      PROVE  CreditOk(b)'
  <2>1. /\ expected_q'[b] = num_pixels /\ produced_q'[b] = 0
        /\ issued_q'[b] = 0 /\ consumed_q'[b] = 0 /\ write_open_q'[b]
    BY <1>1, <1>2, <1>4, <1>8
  <2>2. ~committed_q'[b]
    BY <1>1, <1>4, <1>6, <1>8
  <2>3. Fills(b)'
    BY <1>8, AllocFacts DEF Allocs, Fills, Moved, FillMoved
  <2> QED BY <1>5, <2>1, <2>2, <2>3 DEF CreditOk
<1>9. ASSUME allocated_q[b], ~Releases(b)
      PROVE  CreditOk(b)'
  <2>1. ~Allocs(env, b)
    BY <1>4, <1>9
  <2>2. /\ expected_q'[b] = expected_q[b]
        /\ produced_q'[b] = IF Writes(b) THEN produced_q[b] + 1 ELSE produced_q[b]
        /\ issued_q'[b] = IF Issues(env, b) THEN issued_q[b] + 1 ELSE issued_q[b]
        /\ consumed_q'[b] = IF Pops(env, b) THEN consumed_q[b] + 1
                            ELSE consumed_q[b]
        /\ write_open_q'[b] <=>
             write_open_q[b] /\ ~(Writes(b) /\ produced_q[b] + 1 = expected_q[b])
        /\ committed_q'[b] <=> committed_q[b] \/ Commits(b)
    BY <1>1, <1>2, <1>9, <2>1
  <2>3. /\ expected_q[b] # 0
        /\ consumed_q[b] <= issued_q[b] /\ issued_q[b] <= produced_q[b]
        /\ produced_q[b] <= expected_q[b]
        /\ write_open_q[b] <=> produced_q[b] < expected_q[b]
        /\ committed_q[b] \/ Fills(b) \/ Commits(b)
        /\ committed_q[b] => produced_q[b] = expected_q[b]
    BY <1>6, <1>9 DEF CreditOk
  <2>4. committed_q'[b] \/ Fills(b)' \/ Commits(b)'
    <3>1. CASE committed_q[b] \/ Commits(b)
      BY <2>2, <3>1
    <3>2. CASE Fills(b)
      <4>1. fill_active_q /\ fill_bank_q = b /\ ~Alloc(env)
        BY <3>2 DEF Fills, Alloc
      <4>2. packet_done => Commits(b)'
        BY <4>1 DEF Moved, FillMoved, Commits
      <4>3. ~packet_done => Fills(b)'
        BY <4>1 DEF Moved, FillMoved, Fills
      <4> QED BY <4>2, <4>3
    <3> QED BY <2>3, <3>1, <3>2
  <2>5. /\ expected_q'[b] # 0
        /\ consumed_q'[b] <= issued_q'[b] /\ issued_q'[b] <= produced_q'[b]
        /\ produced_q'[b] <= expected_q'[b]
    BY <1>4, <1>5, <2>2, <2>3
  <2>6. write_open_q'[b] <=> produced_q'[b] < expected_q'[b]
    BY <1>4, <1>5, <2>2, <2>3
  <2>7. committed_q'[b] => produced_q'[b] = expected_q'[b]
    BY <1>4, <1>5, <2>2, <2>3
  <2> QED BY <2>4, <2>5, <2>6, <2>7 DEF CreditOk
<1> QED BY <1>1, <1>7, <1>8, <1>9

LEMMA FetchedKept ==
  ASSUME IInv, NEW env \in Environment, Moved(env)
  PROVE  Fetched'
<1> SUFFICES ASSUME NEW b \in Banks, Ahead(b)'
             PROVE  produced_q'[b] # 0 /\ issued_q'[b] = 0 /\ ~Reads(b)'
  BY DEF Fetched
<1>1. /\ ~Drops(env, b) /\ produced_q[b] # 0 /\ issued_q[b] = 0 /\ ~Reads(b)
      /\ ~(Select(env) /\ b = Head(context_queue).bank)
  <2>1. CASE lookahead_pending_q'[b]
    BY <2>1 DEF Moved, AheadMoved
  <2>2. CASE lookahead_valid_q'[b]
    <3>1. Ahead(b) /\ ~Drops(env, b)
      BY <2>2 DEF Moved, AheadMoved
    <3> QED BY <3>1 DEF Drops, Hit, IInv, Fetched
  <2> QED BY <2>1, <2>2 DEF Ahead
<1>2. ~Issues(env, b)
  BY <1>1 DEF Issues, Drops, Issue, Reads
<1>3. ~Allocs(env, b)
  BY <1>1 DEF Drops
<1>4. produced_q[b] \in Nat
  BY Regs
<1>5. produced_q'[b] # 0 /\ issued_q'[b] = 0
  BY <1>1, <1>2, <1>3, <1>4 DEF Moved, CreditMoved
<1>6. ~Reads(b)'
  BY <1>1 DEF Reads, Moved, ReaderMoved
<1> QED BY <1>5, <1>6

\* An owned bank keeps its owner, its epoch and its length.
LEMMA OwnerKept ==
  ASSUME IInv, NEW env, Moved(env), NEW b \in Banks,
         allocated_q[b], ~Releases(b)
  PROVE  /\ allocated_q'[b] /\ epoch_q'[b] = epoch_q[b]
         /\ expected_q'[b] = expected_q[b] /\ ~Allocs(env, b)
         /\ committed_q[b] => committed_q'[b]
BY BankEvents DEF Moved, OwnerMoved

\* An allocated bank starts with empty counters.
LEMMA NewBank ==
  ASSUME IInv, NEW env, Moved(env), Alloc(env)
  PROVE  /\ allocated_q'[alloc_bank_q] /\ epoch_q'[alloc_bank_q] = alloc_epoch_q
         /\ expected_q'[alloc_bank_q] = num_pixels
         /\ ~committed_q'[alloc_bank_q]
         /\ produced_q'[alloc_bank_q] = 0 /\ issued_q'[alloc_bank_q] = 0
         /\ alloc_bank_q \in Banks
<1> DEFINE b == alloc_bank_q
<1>1. b \in Banks /\ Allocs(env, b)
  BY Regs DEF Allocs
<1>2. /\ ~allocated_q[b] /\ ~Releases(b) /\ ~Commits(b) /\ ~Reads(b)
      /\ ~Queues(b) /\ ~Writes(b)
  BY <1>1, BankEvents
<1>3. ~committed_q[b]
  BY <1>1, <1>2 DEF IInv, Credited
<1>4. ~Issues(env, b)
  BY <1>1, <1>2, BankEvents
<1> QED BY <1>1, <1>2, <1>3, <1>4 DEF Moved, OwnerMoved, CreditMoved

LEMMA FilledKept ==
  ASSUME IInv, NEW env \in Environment, Moved(env)
  PROVE  Filled'
<1> SUFFICES ASSUME fill_active_q', NEW b, b = fill_bank_q'
             PROVE  /\ allocated_q'[b] /\ epoch_q'[b] = fill_epoch_q'
                    /\ expected_q'[b] = fill_expected_q' /\ ~committed_q'[b]
                    /\ produced_q'[b] = (IF packet_done' THEN num_pixels'
                                         ELSE pixel_index')
                    /\ issued_q'[b] < expected_q'[b]
                    /\ \/ Queues(b)'
                       \/ context_queue' = <<>> /\ Reads(b)'
  BY DEF Filled
<1>1. /\ (fill_active_q \/ Alloc(env)) /\ ~packet_done
      /\ fill_bank_q' = IF Alloc(env) THEN alloc_bank_q ELSE fill_bank_q
      /\ fill_epoch_q' = IF Alloc(env) THEN alloc_epoch_q ELSE fill_epoch_q
      /\ fill_expected_q' = IF Alloc(env) THEN num_pixels ELSE fill_expected_q
  BY DEF Moved, FillMoved
<1>2. num_pixels' = num_pixels
  BY <1>1, StartFacts
<1>3. /\ pixel_index' = IF Begin \/ End THEN 0
                        ELSE IF Write THEN pixel_index + 1 ELSE pixel_index
      /\ packet_done' <=> End
  BY DEF Moved, LoaderMoved
<1>4. CASE Alloc(env)
  <2>1. b = alloc_bank_q
    BY <1>1, <1>4
  <2>2. /\ allocated_q'[b] /\ epoch_q'[b] = fill_epoch_q'
        /\ expected_q'[b] = fill_expected_q' /\ ~committed_q'[b]
        /\ produced_q'[b] = 0 /\ issued_q'[b] = 0 /\ expected_q'[b] = num_pixels
    BY <1>1, <1>4, <2>1, NewBank
  <2>3. ~packet_done' /\ pixel_index' = 0
    <3>1. alloc_pending_q /\ ~Write /\ pixel_index = 0
      BY <1>4, AllocFacts DEF IInv, Filling
    <3> QED BY <1>3, <3>1 DEF End
  <2>4. Queues(b)'
    <3> DEFINE d == [bank |-> alloc_bank_q, epoch |-> alloc_epoch_q,
                     expected |-> num_pixels]
    <3>1. context_queue' = <<d>>
      BY <1>4 DEF Moved, QueueMoved
    <3>2. <<d>> # <<>> /\ Head(<<d>>) = d /\ d.bank = alloc_bank_q
      OBVIOUS
    <3> HIDE DEF d
    <3> QED BY <2>1, <3>1, <3>2 DEF Queues
  <2>5. 0 < num_pixels
    BY Regs
  <2> QED BY <2>2, <2>3, <2>4, <2>5
<1>5. CASE ~Alloc(env)
  <2>1. /\ b = fill_bank_q /\ fill_active_q /\ fill_epoch_q' = fill_epoch_q
        /\ fill_expected_q' = fill_expected_q /\ ~packet_done
    BY <1>1, <1>5
  <2>2. b \in Banks /\ Fills(b)
    BY <2>1, Regs DEF Fills
  <2>3. /\ allocated_q[b] /\ epoch_q[b] = fill_epoch_q
        /\ expected_q[b] = fill_expected_q /\ ~committed_q[b]
        /\ produced_q[b] = pixel_index
        /\ issued_q[b] < expected_q[b]
        /\ Queues(b) \/ (context_queue = <<>> /\ Reads(b))
    BY <2>1 DEF IInv, Filled
  <2>4. /\ active /\ pixel_index < num_pixels /\ fill_expected_q = num_pixels
    BY <2>1 DEF IInv, Filling
  <2>5. ~Releases(b)
    BY <2>2, ReleaseHandshake
  <2>6. /\ allocated_q'[b] /\ epoch_q'[b] = fill_epoch_q'
        /\ expected_q'[b] = fill_expected_q' /\ ~Allocs(env, b)
    BY <2>1, <2>2, <2>3, <2>5, OwnerKept
  <2>7. ~committed_q'[b]
    <3>1. ~Commits(b)
      BY <2>2, BankEvents
    <3> QED BY <2>2, <2>3, <3>1 DEF Moved, OwnerMoved
  <2>8. produced_q'[b] = IF Write THEN produced_q[b] + 1 ELSE produced_q[b]
    BY <2>1, <2>2, <2>6 DEF Moved, CreditMoved, Writes
  <2>9. produced_q'[b] = (IF packet_done' THEN num_pixels' ELSE pixel_index')
    <3>1. ~Begin
      BY <2>4 DEF Begin
    <3>2. CASE End
      <4>1. Write /\ pixel_index + 1 = num_pixels
        BY <3>2 DEF End, Write, IInv, Filling
      <4> QED BY <1>2, <1>3, <2>3, <2>8, <3>2, <4>1
    <3>3. CASE ~End
      BY <1>3, <2>3, <2>8, <3>1, <3>3
    <3> QED BY <3>2, <3>3
  <2>10. issued_q'[b] < expected_q'[b]
    <3>1. issued_q'[b] = IF Issues(env, b) THEN issued_q[b] + 1 ELSE issued_q[b]
      BY <2>2, <2>6 DEF Moved, CreditMoved
    <3>2. Issues(env, b) => issued_q[b] < produced_q[b]
      BY <2>2, BankEvents
    <3>3. issued_q[b] \in Nat /\ pixel_index \in Nat /\ num_pixels \in Nat
      BY <2>2, Regs
    <3> QED BY <2>1, <2>3, <2>4, <2>6, <3>1, <3>2, <3>3
  <2>11. CASE Queues(b)
    <3>1. CASE Select(env)
      <4>1. Reads(b)' /\ context_queue' = <<>>
        BY <2>11, <3>1 DEF Queues, Reads, Moved, ReaderMoved, QueueMoved
      <4> QED BY <2>6, <2>7, <2>9, <2>10, <4>1
    <3>2. CASE ~Select(env)
      <4>1. Queues(b)'
        BY <1>5, <2>11, <3>2 DEF Queues, Moved, QueueMoved
      <4> QED BY <2>6, <2>7, <2>9, <2>10, <4>1
    <3> QED BY <3>1, <3>2
  <2>12. CASE context_queue = <<>> /\ Reads(b)
    <3>1. ~Select(env)
      BY <2>12 DEF Select
    <3>2. context_queue' = <<>>
      BY <1>5, <2>12, <3>1 DEF Moved, QueueMoved
    <3>3. ~Finish(env)
      <4>1. Finish(env) => issued_q[b] = expected_q[b]
        BY <2>12 DEF Finish, Pop, Reads, IInv, Output
      <4>2. issued_q[b] \in Nat
        BY <2>2, Regs
      <4> QED BY <2>3, <4>1, <4>2
    <3>4. Reads(b)'
      BY <2>12, <3>1, <3>3 DEF Reads, Moved, ReaderMoved
    <3> QED BY <2>6, <2>7, <2>9, <2>10, <3>2, <3>4
  <2> QED BY <2>3, <2>11, <2>12
<1> QED BY <1>4, <1>5

LEMMA CommittingKept ==
  ASSUME IInv, NEW env \in Environment, Moved(env)
  PROVE  Committing'
<1> DEFINE b == fill_bank_q
<1> SUFFICES ASSUME commit_pending_q'
             PROVE  /\ commit_bank_q' = b /\ commit_epoch_q' = fill_epoch_q
                    /\ allocated_q'[b] /\ epoch_q'[b] = fill_epoch_q
                    /\ ~committed_q'[b]
                    /\ produced_q'[b] = expected_q'[b]
                    /\ consumed_q'[b] < expected_q'[b]
  BY DEF Committing
<1>1. packet_done /\ commit_bank_q' = b /\ commit_epoch_q' = fill_epoch_q
  BY DEF Moved, FillMoved
<1>2. fill_active_q /\ ~active /\ ~Write /\ fill_expected_q = num_pixels
  BY <1>1 DEF Write, IInv, Filling
<1>3. b \in Banks /\ Fills(b)
  BY <1>2, Regs DEF Fills
<1>4. /\ allocated_q[b] /\ epoch_q[b] = fill_epoch_q /\ ~committed_q[b]
      /\ produced_q[b] = expected_q[b] /\ issued_q[b] < expected_q[b]
  BY <1>1, <1>2 DEF IInv, Filled
<1>5. ~Releases(b)
  BY <1>3, ReleaseHandshake
<1>6. /\ allocated_q'[b] /\ epoch_q'[b] = fill_epoch_q
      /\ expected_q'[b] = expected_q[b] /\ ~Allocs(env, b)
  BY <1>3, <1>4, <1>5, OwnerKept
<1>7. ~committed_q'[b]
  <2>1. ~Commits(b)
    BY <1>3, BankEvents
  <2> QED BY <1>3, <1>4, <2>1 DEF Moved, OwnerMoved
<1>8. produced_q'[b] = produced_q[b]
  BY <1>2, <1>3, <1>6 DEF Moved, CreditMoved, Writes
<1>9. consumed_q'[b] < expected_q'[b]
  <2>1. consumed_q'[b] = IF Pops(env, b) THEN consumed_q[b] + 1
                         ELSE consumed_q[b]
    BY <1>3, <1>6 DEF Moved, CreditMoved
  <2>2. Pops(env, b) => issued_q[b] = consumed_q[b] + 1
    BY <1>3, BankEvents
  <2>3. consumed_q[b] <= issued_q[b]
    BY <1>3, <1>4 DEF IInv, Credited, CreditOk
  <2>4. consumed_q[b] \in Nat /\ issued_q[b] \in Nat /\ expected_q[b] \in Nat
    BY <1>3, Regs
  <2> QED BY <1>4, <1>6, <2>1, <2>2, <2>3, <2>4
<1> QED BY <1>1, <1>4, <1>6, <1>7, <1>8, <1>9

\* A set of numbers has a least one.
LEMMA Least ==
  ASSUME NEW S \in SUBSET Nat, S # {}
  PROVE  \E s \in S : \A t \in S : s <= t
<1> DEFINE T == {0 .. s : s \in S}
<1>1. T \subseteq FiniteSubsetsOf(Nat)
  <2> SUFFICES ASSUME NEW s \in S PROVE 0 .. s \in FiniteSubsetsOf(Nat)
    OBVIOUS
  <2>1. IsFiniteSet(0 .. s)
    BY FS_Interval
  <2> QED BY <2>1 DEF FiniteSubsetsOf
<1>2. T # {}
  OBVIOUS
<1>3. PICK x \in T : \A y \in T : ~(<<y, x>> \in StrictSubsetOrdering(Nat))
  <2> HIDE DEF T
  <2> QED BY <1>1, <1>2, FS_StrictSubsetOrderingWellFounded, WFMin
<1>4. PICK s \in S : x = 0 .. s
  OBVIOUS
<1>5. ASSUME NEW t \in S, t < s PROVE FALSE
  <2>1. 0 .. t \in T /\ 0 .. t \in SUBSET Nat /\ 0 .. s \in SUBSET Nat
    OBVIOUS
  <2>2. 0 .. t \subseteq 0 .. s /\ s \notin 0 .. t /\ s \in 0 .. s
    BY <1>5
  <2>3. <<0 .. t, 0 .. s>> \in StrictSubsetOrdering(Nat)
    BY <2>1, <2>2 DEF StrictSubsetOrdering
  <2> QED BY <1>3, <1>4, <2>1, <2>3
<1> QED BY <1>5

\* A line of contexts after an edge: the first may leave, one may join.
LineAfter(q, gone, comes, x) ==
  (IF gone THEN Tail(q) ELSE q) \o (IF comes THEN <<x>> ELSE <<>>)

Follows(r, q, gone, comes, x) ==
  \E g \in {0, 1} :
    /\ gone <=> g = 1
    /\ \A k \in 1 .. Len(r) :
         \/ k + g \in 1 .. Len(q) /\ r[k] = q[k + g]
         \/ comes /\ r[k] = x /\ k = Len(q) - g + 1

LEMMA LineMoves ==
  ASSUME NEW S, NEW q \in Seq(S), NEW gone \in BOOLEAN, gone => q # <<>>,
         NEW comes \in BOOLEAN, NEW x, comes => x \in S,
         NEW r, r = LineAfter(q, gone, comes, x)
  PROVE  r \in Seq(S) /\ Follows(r, q, gone, comes, x)
<1> DEFINE g == IF gone THEN 1 ELSE 0
           p == IF gone THEN Tail(q) ELSE q
           t == IF comes THEN <<x>> ELSE <<>>
<1>1. /\ p \in Seq(S) /\ Len(p) = Len(q) - g
      /\ \A k \in 1 .. Len(p) : k + g \in 1 .. Len(q) /\ p[k] = q[k + g]
  <2>1. CASE gone
    <3>1. /\ Tail(q) \in Seq(S) /\ Len(Tail(q)) = Len(q) - 1
          /\ \A k \in 1 .. Len(Tail(q)) : Tail(q)[k] = q[k + 1]
      BY <2>1, HeadTailProperties
    <3> QED BY <2>1, <3>1
  <2>2. CASE ~gone
    BY <2>2
  <2> QED BY <2>1, <2>2
<1>2. t \in Seq(S)
  OBVIOUS
<1>3. /\ comes => Len(t) = 1 /\ t[1] = x
      /\ ~comes => Len(t) = 0
  OBVIOUS
<1>4. r = p \o t
  BY DEF LineAfter
<1>5. g \in {0, 1} /\ (gone <=> g = 1)
  OBVIOUS
<1> HIDE DEF g, p, t
<1>6. /\ p \o t \in Seq(S) /\ Len(p \o t) = Len(p) + Len(t)
      /\ \A k \in 1 .. Len(p) + Len(t) :
           (p \o t)[k] = IF k <= Len(p) THEN p[k] ELSE t[k - Len(p)]
  BY <1>1, <1>2, ConcatProperties, Zenon
<1>7. /\ r \in Seq(S) /\ Len(r) = Len(p) + Len(t)
      /\ \A k \in 1 .. Len(p) + Len(t) :
           r[k] = IF k <= Len(p) THEN p[k] ELSE t[k - Len(p)]
  BY <1>4, <1>6, Zenon
<1> DEFINE m == Len(p)  n == Len(t)
<1>8. m \in Nat /\ n \in {0, 1} /\ m = Len(q) - g
  <2>1. m \in Nat
    BY <1>1
  <2>2. n \in {0, 1}
    BY <1>3
  <2> QED BY <1>1, <2>1, <2>2
<1>9. ASSUME NEW k \in 1 .. m + n
      PROVE  \/ k + g \in 1 .. Len(q) /\ r[k] = q[k + g]
             \/ comes /\ r[k] = x /\ k = Len(q) - g + 1
  <2>1. r[k] = IF k <= m THEN p[k] ELSE t[k - m]
    BY <1>7
  <2>2. \A j \in 1 .. m : j + g \in 1 .. Len(q) /\ p[j] = q[j + g]
    BY <1>1
  <2>3. n = 1 => comes /\ t[1] = x
    BY <1>3
  <2> HIDE DEF m, n
  <2>4. CASE k <= m
    <3>1. k \in 1 .. m
      BY <1>8, <2>4
    <3> QED BY <2>1, <2>2, <2>4, <3>1
  <2>5. CASE ~(k <= m)
    <3>1. n = 1 /\ k = m + 1 /\ k - m = 1
      BY <1>8, <2>5
    <3> QED BY <1>8, <2>1, <2>3, <2>5, <3>1
  <2> QED BY <2>4, <2>5
<1>10. Len(r) = m + n
  BY <1>7
<1> HIDE DEF m, n
<1> QED BY <1>5, <1>7, <1>9, <1>10 DEF Follows

\* The context that leaves the reader: its vectors were all taken.
LEMMA FinishFacts ==
  ASSUME IInv, NEW env, Finish(env)
  PROVE  /\ reader_active_q /\ rd_bank_q = reader_bank_q
         /\ rd_epoch_q = reader_epoch_q /\ reader_bank_q \in Banks
         /\ allocated_q[reader_bank_q]
         /\ epoch_q[reader_bank_q] = reader_epoch_q
         /\ issued_q[reader_bank_q] = expected_q[reader_bank_q]
         /\ expected_q[reader_bank_q] = consumed_q[reader_bank_q] + 1
         /\ committed_q[reader_bank_q] \/ Commits(reader_bank_q)
         /\ ~Retires(reader_bank_q) /\ ~Releases(reader_bank_q)
         /\ ~Issue(env) /\ Pops(env, reader_bank_q)
<1>1. rd_valid_q /\ rd_last_q
  BY DEF Finish, Pop
<1>2. /\ reader_active_q /\ rd_bank_q = reader_bank_q
      /\ rd_epoch_q = reader_epoch_q
      /\ issued_q[reader_bank_q] = consumed_q[reader_bank_q] + 1
      /\ issued_q[reader_bank_q] = expected_q[reader_bank_q]
  BY <1>1 DEF IInv, Output
<1>3. /\ allocated_q[reader_bank_q] /\ epoch_q[reader_bank_q] = reader_epoch_q
      /\ ~Retires(reader_bank_q) /\ ~Releases(reader_bank_q)
  BY <1>2 DEF IInv, Owned, ReaderOwns
<1>4. reader_bank_q \in Banks
  BY Regs
<1>5. /\ committed_q[reader_bank_q] \/ Fills(reader_bank_q) \/ Commits(reader_bank_q)
      /\ produced_q[reader_bank_q] <= expected_q[reader_bank_q]
  BY <1>3, <1>4 DEF IInv, Credited, CreditOk
<1>6. ~Fills(reader_bank_q)
  <2>1. Fills(reader_bank_q) =>
          issued_q[reader_bank_q] < expected_q[reader_bank_q]
    BY DEF Fills, IInv, Filled
  <2> QED BY <1>2, <1>4, <2>1, Regs
<1>7. ~Issue(env)
  BY <1>2, <1>4, <1>5, Regs DEF Issue
<1> QED BY <1>2, <1>3, <1>4, <1>5, <1>6, <1>7 DEF Finish, Pops

\* The first of the line, and the line after the edge.
LEMMA RetiringMoves ==
  ASSUME IInv, NEW env \in Environment, Moved(env)
  PROVE  /\ retiring' \in Seq(Contexts)
         /\ env.retires => /\ 1 \in 1 .. Len(retiring)
                           /\ Head(retiring) = retiring[1]
         /\ \E g \in {0, 1} :
              /\ env.retires <=> g = 1
              /\ \A k \in 1 .. Len(retiring') :
                   \/ k + g \in 1 .. Len(retiring)
                        /\ retiring'[k] = retiring[k + g]
                   \/ /\ Finish(env) /\ k = Len(retiring) - g + 1
                      /\ retiring'[k] = [bank |-> reader_bank_q,
                                         epoch |-> reader_epoch_q]
<1> DEFINE x == [bank |-> rd_bank_q, epoch |-> rd_epoch_q]
           r == retiring'  f == Finish(env)  e == env.retires
<1>1. r = LineAfter(retiring, e, f, x)
  BY DEF Moved, CoreMoved, LineAfter
<1>2. retiring \in Seq(Contexts) /\ x \in Contexts
  BY DEF IInv, Typed, TypeOK, FrontendTypeOK, BufferTypeOK, Contexts
<1>3. e \in BOOLEAN /\ f \in BOOLEAN /\ (e => retiring # <<>>)
  BY EnvTypes DEF IInv, Finish, Pop, Moved
<1>4. f => x = [bank |-> reader_bank_q, epoch |-> reader_epoch_q]
  BY FinishFacts
<1>5. e => 1 \in 1 .. Len(retiring) /\ Head(retiring) = retiring[1]
  BY <1>2, <1>3
<1> HIDE DEF x, r, f, e
<1>6. r \in Seq(Contexts) /\ Follows(r, retiring, e, f, x)
  BY <1>1, <1>2, <1>3, LineMoves
<1>7. /\ r \in Seq(Contexts)
      /\ \E g \in {0, 1} :
           /\ e <=> g = 1
           /\ \A k \in 1 .. Len(r) :
                \/ k + g \in 1 .. Len(retiring) /\ r[k] = retiring[k + g]
                \/ /\ f /\ k = Len(retiring) - g + 1
                   /\ r[k] = [bank |-> reader_bank_q, epoch |-> reader_epoch_q]
  BY <1>4, <1>6 DEF Follows
<1> QED BY <1>5, <1>7 DEF r, f, e

LEMMA CollectingMoves ==
  ASSUME IInv, NEW env \in Environment, Moved(env)
  PROVE  /\ collecting' \in Seq(Contexts)
         /\ env.collects => /\ 1 \in 1 .. Len(collecting)
                            /\ Head(collecting) = collecting[1]
         /\ \E g \in {0, 1} :
              /\ env.collects <=> g = 1
              /\ \A k \in 1 .. Len(collecting') :
                   \/ k + g \in 1 .. Len(collecting)
                        /\ collecting'[k] = collecting[k + g]
                   \/ /\ env.retires /\ k = Len(collecting) - g + 1
                      /\ collecting'[k] = retiring[1]
<1> DEFINE x == Head(retiring)
           r == collecting'  f == env.retires  e == env.collects
<1>1. r = LineAfter(collecting, e, f, x)
  BY DEF Moved, CoreMoved, LineAfter
<1>2. /\ collecting \in Seq(Contexts) /\ retiring \in Seq(Contexts)
      /\ e => collecting # <<>>
      /\ f => retiring # <<>>
  BY DEF IInv, Typed, Moved
<1>3. f => x = retiring[1] /\ x \in Contexts
  BY <1>2
<1>4. e \in BOOLEAN /\ f \in BOOLEAN
  BY EnvTypes DEF IInv
<1>5. e => 1 \in 1 .. Len(collecting) /\ Head(collecting) = collecting[1]
  BY <1>2
<1> HIDE DEF x, r, f, e
<1>6. r \in Seq(Contexts) /\ Follows(r, collecting, e, f, x)
  <2>1. /\ collecting \in Seq(Contexts) /\ (e => collecting # <<>>)
        /\ f => x \in Contexts
    BY <1>2, <1>3
  <2> QED BY <1>1, <1>4, <2>1, LineMoves
<1>7. /\ r \in Seq(Contexts)
      /\ \E g \in {0, 1} :
           /\ e <=> g = 1
           /\ \A k \in 1 .. Len(r) :
                \/ k + g \in 1 .. Len(collecting) /\ r[k] = collecting[k + g]
                \/ f /\ k = Len(collecting) - g + 1 /\ r[k] = retiring[1]
  BY <1>3, <1>6 DEF Follows
<1> QED BY <1>5, <1>7 DEF r, f, e

\* A bank with no reader and no retiring context, which is not selected, gets
\* none, and no release.
LEMMA Untouched ==
  ASSUME IInv, NEW env \in Environment, Moved(env), NEW b \in Banks,
         ~Reads(b), ~Retires(b),
         ~(Select(env) /\ b = Head(context_queue).bank)
  PROVE  ~Reads(b)' /\ ~Retires(b)' /\ ~Releases(b)'
<1>1. ~Reads(b)'
  BY DEF Reads, Moved, ReaderMoved
<1>2. ~Retires(b)'
  <2> SUFFICES ASSUME NEW k \in 1 .. Len(retiring'), retiring'[k].bank = b
               PROVE  FALSE
    BY DEF Retires
  <2>1. PICK g \in {0, 1} :
          \/ k + g \in 1 .. Len(retiring) /\ retiring'[k] = retiring[k + g]
          \/ Finish(env) /\ retiring'[k] = [bank |-> reader_bank_q,
                                            epoch |-> reader_epoch_q]
    BY RetiringMoves
  <2>2. CASE k + g \in 1 .. Len(retiring) /\ retiring'[k] = retiring[k + g]
    BY <2>2 DEF Retires
  <2>3. CASE Finish(env) /\ retiring'[k] = [bank |-> reader_bank_q,
                                            epoch |-> reader_epoch_q]
    BY <2>3, FinishFacts DEF Reads
  <2> QED BY <2>1, <2>2, <2>3
<1>3. ~Releases(b)'
  BY RetiringMoves DEF Releases, Retires, Moved, ReleaseMoved
<1> QED BY <1>1, <1>2, <1>3

\* The bank that is read gets no second owner while it stays.
LEMMA ReaderUntouched ==
  ASSUME IInv, NEW env \in Environment, Moved(env), NEW b \in Banks,
         ~Retires(b), ~(Finish(env) /\ b = reader_bank_q)
  PROVE  ~Retires(b)' /\ ~Releases(b)'
<1>1. ~Retires(b)'
  <2> SUFFICES ASSUME NEW k \in 1 .. Len(retiring'), retiring'[k].bank = b
               PROVE  FALSE
    BY DEF Retires
  <2>1. PICK g \in {0, 1} :
          \/ k + g \in 1 .. Len(retiring) /\ retiring'[k] = retiring[k + g]
          \/ Finish(env) /\ retiring'[k] = [bank |-> reader_bank_q,
                                            epoch |-> reader_epoch_q]
    BY RetiringMoves
  <2> QED BY <2>1 DEF Retires
<1>2. ~Releases(b)'
  BY RetiringMoves DEF Releases, Retires, Moved, ReleaseMoved
<1> QED BY <1>1, <1>2

LEMMA QueueOwnsKept ==
  ASSUME IInv, NEW env \in Environment, Moved(env)
  PROVE  QueueOwns'
<1> SUFFICES ASSUME context_queue' # <<>>, NEW c, c = Head(context_queue')
             PROVE  /\ allocated_q'[c.bank] /\ epoch_q'[c.bank] = c.epoch
                    /\ issued_q'[c.bank] = 0
                    /\ ~Reads(c.bank)' /\ ~Retires(c.bank)'
                    /\ ~Releases(c.bank)'
  BY DEF QueueOwns
<1>1. ~Select(env)
  BY DEF Moved, QueueMoved
<1>2. CASE Alloc(env)
  <2> DEFINE d == [bank |-> alloc_bank_q, epoch |-> alloc_epoch_q,
                   expected |-> num_pixels]
  <2>1. context_queue' = <<d>>
    BY <1>2 DEF Moved, QueueMoved
  <2>2. /\ Head(<<d>>) = d
        /\ d.bank = alloc_bank_q /\ d.epoch = alloc_epoch_q
    OBVIOUS
  <2>3. c.bank = alloc_bank_q /\ c.epoch = alloc_epoch_q
    BY <2>1, <2>2
  <2> HIDE DEF d
  <2>4. /\ c.bank \in Banks
        /\ allocated_q'[c.bank] /\ epoch_q'[c.bank] = c.epoch
        /\ issued_q'[c.bank] = 0
    BY <1>2, <2>3, NewBank
  <2>5. ~Reads(c.bank) /\ ~Retires(c.bank)
    BY <1>2, <2>3, <2>4, BankEvents DEF Allocs
  <2>6. ~Reads(c.bank)' /\ ~Retires(c.bank)' /\ ~Releases(c.bank)'
    <3> DEFINE b == c.bank
    <3>1. b \in Banks /\ ~Reads(b) /\ ~Retires(b)
      BY <2>4, <2>5
    <3> HIDE DEF b
    <3>2. ~Reads(b)' /\ ~Retires(b)' /\ ~Releases(b)'
      BY <1>1, <3>1, Untouched
    <3> QED BY <3>2 DEF b
  <2> QED BY <2>4, <2>6
<1>3. CASE ~Alloc(env)
  <2>1. context_queue' = context_queue
    BY <1>1, <1>3 DEF Moved, QueueMoved
  <2>2. context_queue # <<>> /\ c = Head(context_queue)
    BY <2>1
  <2>3. c \in Desc
    BY <2>2, QueueShort DEF IInv
  <2> DEFINE b == c.bank
  <2>4. b \in Banks /\ allocated_q[b] /\ epoch_q[b] = c.epoch
    BY <2>2, <2>3 DEF IInv, Owned, QueueOwns, Desc
  <2>5. /\ issued_q[b] = 0 /\ ~Reads(b) /\ ~Retires(b) /\ ~Releases(b)
    BY <2>2 DEF IInv, Owned, QueueOwns
  <2> HIDE DEF b
  <2>6. allocated_q'[b] /\ epoch_q'[b] = c.epoch /\ ~Allocs(env, b)
    BY <2>4, <2>5, OwnerKept
  <2>7. ~Issues(env, b)
    BY <1>1, <2>5 DEF Issues, Issue, Hit, Reads
  <2>8. issued_q'[b] = 0
    BY <2>4, <2>5, <2>6, <2>7 DEF Moved, CreditMoved
  <2>9. ~Reads(b)' /\ ~Retires(b)' /\ ~Releases(b)'
    BY <1>1, <2>4, <2>5, Untouched
  <2> QED BY <2>6, <2>8, <2>9 DEF b
<1> QED BY <1>2, <1>3

LEMMA ReaderOwnsKept ==
  ASSUME IInv, NEW env \in Environment, Moved(env)
  PROVE  ReaderOwns'
<1> SUFFICES ASSUME reader_active_q', NEW b, b = reader_bank_q'
             PROVE  /\ allocated_q'[b] /\ epoch_q'[b] = reader_epoch_q'
                    /\ ~Retires(b)' /\ ~Releases(b)'
  BY DEF ReaderOwns
<1>1. CASE Select(env)
  <2>1. b = Head(context_queue).bank /\ reader_epoch_q' = Head(context_queue).epoch
    BY <1>1 DEF Moved, ReaderMoved
  <2>2. /\ b \in Banks /\ allocated_q[b] /\ ~Releases(b)
        /\ epoch_q[b] = reader_epoch_q' /\ ~Reads(b) /\ ~Retires(b)
    BY <1>1, <2>1, SelectFacts
  <2>3. allocated_q'[b] /\ epoch_q'[b] = reader_epoch_q'
    BY <2>2, OwnerKept
  <2>4. ~(Finish(env) /\ b = reader_bank_q)
    BY <2>2, FinishFacts DEF Reads
  <2>5. ~Retires(b)' /\ ~Releases(b)'
    BY <2>2, <2>4, ReaderUntouched
  <2> QED BY <2>3, <2>5
<1>2. CASE ~Select(env)
  <2>1. /\ b = reader_bank_q /\ reader_epoch_q' = reader_epoch_q
        /\ reader_active_q /\ ~Finish(env)
    BY <1>2 DEF Moved, ReaderMoved
  <2>2. /\ b \in Banks /\ allocated_q[b] /\ epoch_q[b] = reader_epoch_q
        /\ ~Retires(b) /\ ~Releases(b)
    BY <2>1, Regs DEF IInv, Owned, ReaderOwns
  <2>3. allocated_q'[b] /\ epoch_q'[b] = reader_epoch_q'
    BY <2>1, <2>2, OwnerKept
  <2>4. ~Retires(b)' /\ ~Releases(b)'
    BY <2>1, <2>2, ReaderUntouched
  <2> QED BY <2>3, <2>4
<1> QED BY <1>1, <1>2

\* A context whose vectors were all taken stays so until its release.
LEMMA DoneStays ==
  ASSUME IInv, NEW env \in Environment, Moved(env), NEW c \in Contexts,
         Done(c), ~Releases(c.bank), Retires(c.bank)
  PROVE  Done(c)'
<1> DEFINE b == c.bank
<1>1. /\ b \in Banks /\ allocated_q[b] /\ epoch_q[b] = c.epoch /\ committed_q[b]
      /\ issued_q[b] = expected_q[b] /\ consumed_q[b] = expected_q[b]
  BY DEF Done, Contexts
<1>2. ~Releases(b) /\ Retires(b)
  OBVIOUS
<1> HIDE DEF b
<1>3. /\ allocated_q'[b] /\ epoch_q'[b] = c.epoch /\ committed_q'[b]
      /\ expected_q'[b] = expected_q[b] /\ ~Allocs(env, b)
  BY <1>1, <1>2, OwnerKept
<1>4. ~Issues(env, b) /\ ~Pops(env, b)
  BY <1>1, <1>2, BankEvents
<1>5. issued_q'[b] = issued_q[b] /\ consumed_q'[b] = consumed_q[b]
  BY <1>1, <1>3, <1>4 DEF Moved, CreditMoved
<1>6. /\ allocated_q'[b] /\ epoch_q'[b] = c.epoch /\ committed_q'[b]
      /\ issued_q'[b] = expected_q'[b] /\ consumed_q'[b] = expected_q'[b]
  BY <1>1, <1>3, <1>5
<1> QED BY <1>6 DEF Done, b

LEMMA RetiringOwnKept ==
  ASSUME IInv, NEW env \in Environment, Moved(env)
  PROVE  RetiringOwn' /\ ReleaseOwns'
<1> DEFINE x == [bank |-> reader_bank_q, epoch |-> reader_epoch_q]
<1>1. PICK g \in {0, 1} :
        /\ env.retires <=> g = 1
        /\ \A k \in 1 .. Len(retiring') :
             \/ k + g \in 1 .. Len(retiring) /\ retiring'[k] = retiring[k + g]
             \/ Finish(env) /\ k = Len(retiring) - g + 1 /\ retiring'[k] = x
  BY RetiringMoves
<1>2. \A k \in 1 .. Len(retiring) :
        /\ retiring[k] \in Contexts /\ Done(retiring[k])
        /\ ~Releases(retiring[k].bank) /\ Retires(retiring[k].bank)
  BY DEF IInv, Owned, RetiringOwn, Typed, Retires
<1>3. \A j, k \in 1 .. Len(retiring) :
        j # k => retiring[j].bank # retiring[k].bank
  BY DEF IInv, Owned, RetiringOwn
<1>4. ASSUME NEW k \in 1 .. Len(retiring), NEW c, c = retiring[k]
      PROVE  Done(c)'
  <2>1. c \in Contexts /\ Done(c) /\ ~Releases(c.bank) /\ Retires(c.bank)
    BY <1>2, <1>4
  <2> QED BY <2>1, DoneStays
<1>5. ASSUME Finish(env), NEW c,
             c = [bank |-> reader_bank_q, epoch |-> reader_epoch_q]
      PROVE  Done(c)' /\ ~Retires(c.bank) /\ ~Releases(c.bank)
  <2>0. PICK b \in Banks : b = reader_bank_q
    BY Regs
  <2>1. /\ allocated_q[b] /\ epoch_q[b] = reader_epoch_q
        /\ issued_q[b] = expected_q[b] /\ expected_q[b] = consumed_q[b] + 1
        /\ committed_q[b] \/ Commits(b)
        /\ ~Retires(b) /\ ~Releases(b) /\ ~Issue(env) /\ Pops(env, b)
        /\ reader_active_q
    BY <1>5, <2>0, FinishFacts
  <2>2. /\ allocated_q'[b] /\ epoch_q'[b] = reader_epoch_q
        /\ expected_q'[b] = expected_q[b] /\ ~Allocs(env, b)
    BY <2>1, OwnerKept
  <2>3. committed_q'[b]
    BY <2>1 DEF Moved, OwnerMoved
  <2>4. consumed_q'[b] = expected_q[b]
    BY <2>1 DEF Moved, CreditMoved
  <2>5. ~Issues(env, b)
    <3>1. ~Queues(b)
      BY <2>0, <2>1, BankEvents DEF Reads
    <3> QED BY <2>1, <3>1 DEF Issues, Hit, Select, Queues
  <2>6. issued_q'[b] = issued_q[b]
    BY <2>1, <2>2, <2>5 DEF Moved, CreditMoved
  <2>7. c.bank = b /\ c.epoch = reader_epoch_q
    BY <1>5, <2>0
  <2> QED BY <2>1, <2>2, <2>3, <2>4, <2>6, <2>7 DEF Done
<1>6. ASSUME NEW k \in 1 .. Len(retiring')
      PROVE  Done(retiring[k])' /\ ~Releases(retiring[k].bank)'
  <2>1. PICK c : c = retiring'[k]
    OBVIOUS
  <2>2. Done(c)'
    <3>1. CASE k + g \in 1 .. Len(retiring) /\ c = retiring[k + g]
      BY <1>4, <3>1
    <3>2. CASE Finish(env) /\ c = x
      BY <1>5, <3>2
    <3> QED BY <1>1, <2>1, <3>1, <3>2
  <2>3. ~(release_pending_q' /\ release_bank_q' = c.bank)
    <3> SUFFICES ASSUME release_pending_q' PROVE release_bank_q' # c.bank
      OBVIOUS
    <3>1. /\ env.retires /\ g = 1 /\ 1 \in 1 .. Len(retiring)
          /\ release_bank_q' = retiring[1].bank
      BY <1>1, RetiringMoves DEF Moved, ReleaseMoved
    <3>2. CASE k + g \in 1 .. Len(retiring) /\ c = retiring[k + g]
      <4>1. k + g # 1
        BY <3>1
      <4> QED BY <1>3, <3>1, <3>2, <4>1
    <3>3. CASE Finish(env) /\ c = x
      <4>1. ~Retires(c.bank)
        BY <1>5, <3>3
      <4> QED BY <3>1, <4>1 DEF Retires
    <3> QED BY <1>1, <2>1, <3>2, <3>3
  <2> QED BY <2>1, <2>2, <2>3 DEF Done, Releases
<1>7. ASSUME NEW j \in 1 .. Len(retiring'), NEW k \in 1 .. Len(retiring'), j # k
      PROVE  retiring'[j].bank # retiring'[k].bank
  <2>1. ASSUME NEW i \in 1 .. Len(retiring'), NEW m \in 1 .. Len(retiring'),
               i # m, i + g \in 1 .. Len(retiring), retiring'[i] = retiring[i + g]
        PROVE  retiring'[i].bank # retiring'[m].bank
    <3>1. CASE m + g \in 1 .. Len(retiring) /\ retiring'[m] = retiring[m + g]
      <4>1. i + g # m + g
        BY <2>1
      <4> QED BY <1>3, <2>1, <3>1, <4>1
    <3>2. CASE Finish(env) /\ retiring'[m] = x
      <4>1. ~Retires(x.bank)
        BY <1>5, <3>2
      <4>2. Retires(retiring'[i].bank)
        BY <1>2, <2>1
      <4> QED BY <3>2, <4>1, <4>2
    <3> QED BY <1>1, <3>1, <3>2
  <2>2. CASE j + g \in 1 .. Len(retiring) /\ retiring'[j] = retiring[j + g]
    BY <1>7, <2>1, <2>2
  <2>3. CASE k + g \in 1 .. Len(retiring) /\ retiring'[k] = retiring[k + g]
    BY <1>7, <2>1, <2>3
  <2>4. CASE j = Len(retiring) - g + 1 /\ k = Len(retiring) - g + 1
    BY <1>7, <2>4
  <2> QED BY <1>1, <2>2, <2>3, <2>4
<1>8. ReleaseOwns'
  <2> SUFFICES ASSUME release_pending_q' PROVE Done(Released)'
    BY DEF ReleaseOwns
  <2>1. PICK c : c = retiring[1]
    OBVIOUS
  <2>2. /\ 1 \in 1 .. Len(retiring)
        /\ release_bank_q' = c.bank /\ release_epoch_q' = c.epoch
    BY <2>1, RetiringMoves DEF Moved, ReleaseMoved
  <2>3. Done(c)'
    BY <1>4, <2>1, <2>2
  <2> QED BY <2>2, <2>3 DEF Done, Released
<1> QED BY <1>6, <1>7, <1>8 DEF RetiringOwn

LEMMA OutputKept ==
  ASSUME IInv, NEW env \in Environment, Moved(env)
  PROVE  Output'
<1>1. PICK b : b = reader_bank_q'
  OBVIOUS
<1> SUFFICES /\ rd_valid_q' =>
                  /\ reader_active_q' /\ rd_bank_q' = b
                  /\ rd_epoch_q' = reader_epoch_q'
                  /\ issued_q'[b] = consumed_q'[b] + 1
                  /\ rd_last_q' = (issued_q'[b] = expected_q'[b])
             /\ reader_active_q' /\ ~rd_valid_q' =>
                  /\ issued_q'[b] = consumed_q'[b]
                  /\ issued_q'[b] < expected_q'[b]
  BY <1>1 DEF Output
<1>2. /\ rd_valid_q' <=> Hit(env) \/ Issue(env) \/ (rd_valid_q /\ ~Pop(env))
      /\ reader_active_q' <=> Select(env) \/ (reader_active_q /\ ~Finish(env))
      /\ Hit(env) => Select(env)
  BY DEF Moved, OutputMoved, ReaderMoved, Hit
<1>3. \A a \in Banks :
        allocated_q[a] /\ ~Releases(a) =>
          /\ expected_q'[a] = expected_q[a]
          /\ issued_q'[a] = IF Issues(env, a) THEN issued_q[a] + 1 ELSE issued_q[a]
          /\ consumed_q'[a] = IF Pops(env, a) THEN consumed_q[a] + 1
                              ELSE consumed_q[a]
  BY OwnerKept DEF Moved, CreditMoved
<1>4. \A a \in Banks :
        allocated_q[a] => /\ expected_q[a] # 0 /\ consumed_q[a] <= issued_q[a]
                          /\ issued_q[a] <= produced_q[a]
                          /\ produced_q[a] <= expected_q[a]
  BY DEF IInv, Credited, CreditOk
<1>5. CASE Select(env)
  <2>1. /\ b = Head(context_queue).bank
        /\ reader_epoch_q' = Head(context_queue).epoch
        /\ reader_active_q'
    BY <1>1, <1>2, <1>5 DEF Moved, ReaderMoved
  <2>2. /\ b \in Banks /\ allocated_q[b] /\ ~Releases(b) /\ issued_q[b] = 0
        /\ ~Reads(b) /\ ~Issue(env)
    BY <1>5, <2>1, SelectFacts
  <2>3. consumed_q[b] = 0 /\ expected_q[b] \in Nat /\ expected_q[b] # 0
    BY <1>4, <2>2, Regs
  <2>4. ~Pops(env, b)
    BY <2>2, BankEvents
  <2>5. Issues(env, b) <=> Hit(env)
    BY <2>1, <2>2 DEF Issues
  <2>6. /\ expected_q'[b] = expected_q[b] /\ consumed_q'[b] = 0
        /\ issued_q'[b] = IF Hit(env) THEN 1 ELSE 0
    BY <1>3, <2>2, <2>3, <2>4, <2>5
  <2>7. CASE Hit(env)
    <3>1. /\ rd_bank_q' = b /\ rd_epoch_q' = reader_epoch_q'
          /\ rd_last_q' = (issued_q[b] + 1 = expected_q[b])
      BY <2>1, <2>7 DEF Moved, OutputMoved
    <3> QED BY <1>2, <2>1, <2>2, <2>6, <2>7, <3>1
  <2>8. CASE ~Hit(env)
    <3>1. ~rd_valid_q'
      BY <1>2, <1>5, <2>2, <2>8 DEF Select, Finish, IInv, Output
    <3> QED BY <2>3, <2>6, <2>8, <3>1
  <2> QED BY <2>7, <2>8
<1>6. CASE ~Select(env) /\ reader_active_q /\ ~Finish(env)
  <2>1. /\ b = reader_bank_q /\ reader_epoch_q' = reader_epoch_q
        /\ reader_active_q' /\ ~Hit(env)
    BY <1>1, <1>2, <1>6 DEF Moved, ReaderMoved
  <2>2. b \in Banks /\ allocated_q[b] /\ ~Releases(b)
    BY <1>6, <2>1, Regs DEF IInv, Owned, ReaderOwns
  <2>3. /\ Issues(env, b) <=> Issue(env)
        /\ Pops(env, b) <=> Pop(env)
    BY <2>1 DEF Issues, Pops
  <2>4. /\ expected_q'[b] = expected_q[b]
        /\ issued_q'[b] = IF Issue(env) THEN issued_q[b] + 1 ELSE issued_q[b]
        /\ consumed_q'[b] = IF Pop(env) THEN consumed_q[b] + 1 ELSE consumed_q[b]
    BY <1>3, <2>2, <2>3
  <2>5. /\ rd_valid_q => /\ rd_bank_q = b /\ rd_epoch_q = reader_epoch_q
                         /\ issued_q[b] = consumed_q[b] + 1
                         /\ rd_last_q = (issued_q[b] = expected_q[b])
        /\ ~rd_valid_q => /\ issued_q[b] = consumed_q[b]
                          /\ issued_q[b] < expected_q[b]
    BY <1>6, <2>1 DEF IInv, Output
  <2>6. /\ issued_q[b] \in Nat /\ consumed_q[b] \in Nat /\ expected_q[b] \in Nat
        /\ issued_q[b] <= expected_q[b]
    <3>1. /\ issued_q[b] \in Nat /\ consumed_q[b] \in Nat /\ expected_q[b] \in Nat
          /\ produced_q[b] \in Nat
      BY <2>2, Regs
    <3> QED BY <1>4, <2>2, <3>1
  <2>7. CASE Issue(env)
    <3>1. /\ rd_bank_q' = b /\ rd_epoch_q' = reader_epoch_q'
          /\ rd_last_q' = (issued_q[b] + 1 = expected_q[b])
      BY <2>1, <2>7 DEF Moved, OutputMoved
    <3>2. Pop(env) <=> rd_valid_q
      BY <2>7 DEF Issue, Pop
    <3>3. issued_q'[b] = consumed_q'[b] + 1
      BY <2>4, <2>5, <2>6, <2>7, <3>2
    <3>4. issued_q'[b] = issued_q[b] + 1 /\ expected_q'[b] = expected_q[b]
      BY <2>4, <2>7
    <3> QED BY <1>2, <2>1, <2>7, <3>1, <3>3, <3>4
  <2>8. CASE ~Issue(env) /\ rd_valid_q /\ ~Pop(env)
    <3>1. UNCHANGED <<rd_bank_q, rd_epoch_q, rd_last_q>>
      BY <2>1, <2>8 DEF Moved, OutputMoved
    <3> QED BY <1>2, <2>1, <2>4, <2>5, <2>8, <3>1
  <2>9. CASE ~Issue(env) /\ ~(rd_valid_q /\ ~Pop(env))
    <3>1. ~rd_valid_q'
      BY <1>2, <2>1, <2>9
    <3>2. issued_q'[b] = consumed_q'[b] /\ issued_q[b] < expected_q[b]
      <4>1. CASE Pop(env)
        <5>1. rd_valid_q /\ ~rd_last_q
          BY <1>6, <4>1 DEF Finish, Pop
        <5>2. issued_q[b] # expected_q[b] /\ issued_q[b] = consumed_q[b] + 1
          BY <2>5, <5>1
        <5>3. issued_q[b] < expected_q[b]
          BY <2>6, <5>2
        <5> QED BY <2>4, <2>9, <4>1, <5>2, <5>3
      <4>2. CASE ~Pop(env)
        BY <2>4, <2>5, <2>6, <2>9, <4>2
      <4> QED BY <4>1, <4>2
    <3> QED BY <2>4, <2>9, <3>1, <3>2
  <2> QED BY <2>7, <2>8, <2>9
<1>7. CASE ~Select(env) /\ ~(reader_active_q /\ ~Finish(env))
  <2>1. ~reader_active_q'
    BY <1>2, <1>7
  <2>2. ~Issue(env) /\ ~Hit(env)
    BY <1>2, <1>7, FinishFacts DEF Issue
  <2>3. ~(rd_valid_q /\ ~Pop(env))
    BY <1>7 DEF Finish, IInv, Output
  <2> QED BY <1>2, <2>1, <2>2, <2>3
<1> QED BY <1>5, <1>6, <1>7

\* Which epochs are tracked after an edge.
LEMMA TrackedMoves ==
  ASSUME IInv, NEW env \in Environment, Moved(env), NEW e
  PROVE  /\ ~Select(env) /\ Tracked(e)' => Tracked(e)
         /\ Tracked(e) /\ (env.collects => Head(collecting).epoch # e)
              => Tracked(e)'
         /\ Select(env) /\ e = Head(context_queue).epoch => Tracked(e)'
<1>1. \A s \in CollectorSlots :
        /\ collector_live_q'[s] <=>
             (collector_live_q[s] \/ Takes(env, s)) /\ ~Ends(env, s)
        /\ collector_epoch_q'[s] = IF Takes(env, s)
                                   THEN Head(context_queue).epoch
                                   ELSE collector_epoch_q[s]
  BY DEF Moved, SlotsMoved
<1>2. ~Select(env) /\ Tracked(e)' => Tracked(e)
  BY <1>1 DEF Tracked, Takes
<1>3. ASSUME Tracked(e), env.collects => Head(collecting).epoch # e
      PROVE  Tracked(e)'
  <2>1. PICK s \in CollectorSlots : collector_live_q[s] /\ collector_epoch_q[s] = e
    BY <1>3 DEF Tracked
  <2>2. ~Takes(env, s) /\ ~Ends(env, s)
    BY <1>3, <2>1 DEF Takes, Ends
  <2> QED BY <1>1, <2>1, <2>2 DEF Tracked
<1>4. ASSUME Select(env), e = Head(context_queue).epoch
      PROVE  Tracked(e)'
  <2>1. PICK s \in CollectorSlots : Takes(env, s)
    <3> DEFINE F == {t \in CollectorSlots : ~collector_live_q[t]}
    <3>1. CollectorSlots \subseteq Nat
      BY SlotsAssumption DEF CollectorSlots
    <3>2. F \in SUBSET Nat /\ F # {}
      BY <1>4, <3>1 DEF Select
    <3>3. PICK m \in F : \A t \in F : m <= t
      <4> HIDE DEF F
      <4> QED BY <3>2, Least
    <3>4. m \in CollectorSlots /\ ~collector_live_q[m]
      OBVIOUS
    <3>5. ASSUME NEW t \in 0 .. m - 1
          PROVE  collector_live_q[t]
      <4>1. t \in CollectorSlots /\ t < m
        BY <3>1, <3>4, <3>5, SlotsAssumption DEF CollectorSlots
      <4>2. t \notin F
        BY <3>1, <3>3, <3>4, <4>1
      <4> QED BY <4>1, <4>2
    <3> QED BY <1>4, <3>4, <3>5 DEF Takes
  <2>2. ~Ends(env, s)
    BY <2>1 DEF Takes, Ends
  <2> QED BY <1>1, <1>4, <2>1, <2>2 DEF Tracked
<1> QED BY <1>2, <1>3, <1>4

LEMMA SlotsApartKept ==
  ASSUME IInv, NEW env \in Environment, Moved(env)
  PROVE  SlotsApart'
<1> SUFFICES ASSUME NEW s \in CollectorSlots, NEW t \in CollectorSlots, s # t,
                    collector_live_q'[s], collector_live_q'[t]
             PROVE  collector_epoch_q'[s] # collector_epoch_q'[t]
  BY DEF SlotsApart
<1>1. \A r \in {s, t} :
        /\ collector_live_q[r] \/ Takes(env, r)
        /\ collector_epoch_q'[r] = IF Takes(env, r)
                                   THEN Head(context_queue).epoch
                                   ELSE collector_epoch_q[r]
  BY DEF Moved, SlotsMoved
<1>2. ~(Takes(env, s) /\ Takes(env, t))
  <2>1. s \in Nat /\ t \in Nat
    BY SlotsAssumption DEF CollectorSlots
  <2>2. s \in 0 .. t - 1 \/ t \in 0 .. s - 1
    BY <2>1
  <2> QED BY <2>2 DEF Takes
<1>3. \A r \in {s, t} :
        Select(env) /\ collector_live_q[r] =>
          collector_epoch_q[r] # Head(context_queue).epoch
  BY SelectFacts DEF Tracked
<1>4. collector_live_q[s] /\ collector_live_q[t] =>
        collector_epoch_q[s] # collector_epoch_q[t]
  BY DEF IInv, EpochsHeld, SlotsApart
<1>5. \A r \in {s, t} : Takes(env, r) => Select(env)
  BY DEF Takes
<1> QED BY <1>1, <1>2, <1>3, <1>4, <1>5

LEMMA BanksApartKept ==
  ASSUME IInv, NEW env \in Environment, Moved(env)
  PROVE  BanksApart'
<1> SUFFICES ASSUME allocated_q'[0], allocated_q'[1]
             PROVE  epoch_q'[0] # epoch_q'[1]
  BY DEF BanksApart
<1>1. \A b \in Banks :
        /\ allocated_q'[b] => allocated_q[b] \/ Allocs(env, b)
        /\ epoch_q'[b] = IF Allocs(env, b) THEN alloc_epoch_q ELSE epoch_q[b]
  BY DEF Moved, OwnerMoved
<1>2. \A b \in Banks : Alloc(env) /\ allocated_q[b] => epoch_q[b] # alloc_epoch_q
  BY AllocFacts
<1>3. allocated_q[0] /\ allocated_q[1] => epoch_q[0] # epoch_q[1]
  BY DEF IInv, EpochsHeld, BanksApart
<1>4. 0 \in Banks /\ 1 \in Banks
  BY DEF Banks
<1> QED BY <1>1, <1>2, <1>3, <1>4 DEF Allocs

\* A context that holds its bank is not the one that is collected now.
LEMMA HolderStays ==
  ASSUME IInv, NEW env \in Environment, Moved(env), NEW b \in Banks, NEW e,
         allocated_q[b], ~Releases(b), epoch_q[b] = e, Tracked(e)
  PROVE  Tracked(e)'
<1>1. env.collects => Head(collecting).epoch # e
  BY CollectingMoves DEF IInv, EpochsHeld, CollectingApart
<1> QED BY <1>1, TrackedMoves

\* A context that retires holds its bank.
LEMMA RetiringHold ==
  ASSUME IInv, NEW k \in 1 .. Len(retiring)
  PROVE  /\ retiring[k].bank \in Banks /\ allocated_q[retiring[k].bank]
         /\ ~Releases(retiring[k].bank)
         /\ epoch_q[retiring[k].bank] = retiring[k].epoch
<1>1. retiring[k] \in Contexts
  BY DEF IInv, Typed
<1>2. Done(retiring[k]) /\ ~Releases(retiring[k].bank)
  BY DEF IInv, Owned, RetiringOwn
<1> QED BY <1>1, <1>2 DEF Contexts, Done

LEMMA SelectedTrackedKept ==
  ASSUME IInv, NEW env \in Environment, Moved(env)
  PROVE  SelectedTracked'
<1>1. ASSUME context_queue' # <<>>, NEW e, e = Head(context_queue').epoch
      PROVE  ~Tracked(e)'
  <2>1. ~Select(env)
    BY <1>1 DEF Moved, QueueMoved
  <2>2. CASE Alloc(env)
    <3> DEFINE d == [bank |-> alloc_bank_q, epoch |-> alloc_epoch_q,
                     expected |-> num_pixels]
    <3>1. context_queue' = <<d>>
      BY <2>2 DEF Moved, QueueMoved
    <3>2. Head(<<d>>) = d /\ d.epoch = alloc_epoch_q
      OBVIOUS
    <3>3. e = alloc_epoch_q
      BY <1>1, <3>1, <3>2
    <3> HIDE DEF d
    <3>4. ~Tracked(e)
      BY <2>2, <3>3, AllocFacts
    <3> QED BY <2>1, <3>4, TrackedMoves
  <2>3. CASE ~Alloc(env)
    <3>1. context_queue' = context_queue
      BY <2>1, <2>3 DEF Moved, QueueMoved
    <3>2. ~Tracked(e)
      BY <1>1, <3>1 DEF IInv, EpochsHeld, SelectedTracked
    <3> QED BY <2>1, <3>2, TrackedMoves
  <2> QED BY <2>2, <2>3
<1>2. ASSUME reader_active_q, NEW e, e = reader_epoch_q
      PROVE  Tracked(e)'
  <2>1. PICK b \in Banks : b = reader_bank_q
    BY Regs
  <2>2. allocated_q[b] /\ ~Releases(b) /\ epoch_q[b] = e
    BY <1>2, <2>1 DEF IInv, Owned, ReaderOwns
  <2>3. Tracked(e)
    BY <1>2 DEF IInv, EpochsHeld, SelectedTracked
  <2> QED BY <2>2, <2>3, HolderStays
<1>3. ASSUME reader_active_q', NEW e, e = reader_epoch_q'
      PROVE  Tracked(e)'
  <2>1. CASE Select(env)
    <3>1. e = Head(context_queue).epoch
      BY <1>3, <2>1 DEF Moved, ReaderMoved
    <3> QED BY <2>1, <3>1, TrackedMoves
  <2>2. CASE ~Select(env)
    <3>1. reader_active_q /\ e = reader_epoch_q
      BY <1>3, <2>2 DEF Moved, ReaderMoved
    <3> QED BY <1>2, <3>1
  <2> QED BY <2>1, <2>2
<1>4. ASSUME NEW k \in 1 .. Len(retiring), NEW e, e = retiring[k].epoch
      PROVE  Tracked(e)'
  <2>1. PICK b : b = retiring[k].bank
    OBVIOUS
  <2>2. /\ b \in Banks /\ allocated_q[b] /\ ~Releases(b) /\ epoch_q[b] = e
    BY <1>4, <2>1, RetiringHold
  <2>3. Tracked(e)
    BY <1>4 DEF IInv, EpochsHeld, SelectedTracked
  <2> QED BY <2>2, <2>3, HolderStays
<1>5. ASSUME NEW k \in 1 .. Len(retiring'), NEW e, e = retiring'[k].epoch
      PROVE  Tracked(e)'
  <2>1. PICK g \in {0, 1} :
          \/ k + g \in 1 .. Len(retiring) /\ retiring'[k] = retiring[k + g]
          \/ Finish(env) /\ retiring'[k] = [bank |-> reader_bank_q,
                                            epoch |-> reader_epoch_q]
    BY RetiringMoves
  <2>2. CASE k + g \in 1 .. Len(retiring) /\ retiring'[k] = retiring[k + g]
    BY <1>4, <1>5, <2>2
  <2>3. CASE Finish(env) /\ retiring'[k] = [bank |-> reader_bank_q,
                                            epoch |-> reader_epoch_q]
    BY <1>2, <1>5, <2>3, FinishFacts
  <2> QED BY <2>1, <2>2, <2>3
<1>6. ASSUME NEW k \in 1 .. Len(collecting'), NEW e, e = collecting'[k].epoch
      PROVE  Tracked(e)'
  <2>1. PICK g \in {0, 1} :
          /\ env.collects <=> g = 1
          /\ \/ k + g \in 1 .. Len(collecting) /\ collecting'[k] = collecting[k + g]
             \/ env.retires /\ collecting'[k] = retiring[1]
    BY CollectingMoves
  <2>2. CASE k + g \in 1 .. Len(collecting) /\ collecting'[k] = collecting[k + g]
    <3>1. Tracked(e)
      BY <1>6, <2>2 DEF IInv, EpochsHeld, SelectedTracked
    <3>2. env.collects => Head(collecting).epoch # e
      <4>1. env.collects => k + g # 1 /\ 1 \in 1 .. Len(collecting)
                            /\ Head(collecting) = collecting[1]
        BY <2>1, CollectingMoves
      <4> QED BY <1>6, <2>2, <4>1 DEF IInv, EpochsHeld, CollectingApart
    <3> QED BY <3>1, <3>2, TrackedMoves
  <2>3. CASE env.retires /\ collecting'[k] = retiring[1]
    BY <1>4, <1>6, <2>3, RetiringMoves
  <2> QED BY <2>1, <2>2, <2>3
<1>7. context_queue' # <<>> => ~Tracked(Head(context_queue).epoch)'
  BY <1>1 DEF Tracked
<1>8. reader_active_q' => Tracked(reader_epoch_q)'
  BY <1>3 DEF Tracked
<1>9. \A k \in 1 .. Len(retiring') : Tracked(retiring[k].epoch)'
  BY <1>5 DEF Tracked
<1>10. \A k \in 1 .. Len(collecting') : Tracked(collecting[k].epoch)'
  BY <1>6 DEF Tracked
<1> QED BY <1>7, <1>8, <1>9, <1>10 DEF SelectedTracked

LEMMA CollectingApartKept ==
  ASSUME IInv, NEW env \in Environment, Moved(env)
  PROVE  CollectingApart'
<1>1. PICK g \in {0, 1} :
        /\ env.collects <=> g = 1
        /\ \A k \in 1 .. Len(collecting') :
             \/ k + g \in 1 .. Len(collecting)
                  /\ collecting'[k] = collecting[k + g]
             \/ /\ env.retires /\ k = Len(collecting) - g + 1
                /\ collecting'[k] = retiring[1]
  BY CollectingMoves
<1>2. env.retires =>
        /\ 1 \in 1 .. Len(retiring) /\ retiring[1].bank \in Banks
        /\ allocated_q[retiring[1].bank] /\ ~Releases(retiring[1].bank)
        /\ epoch_q[retiring[1].bank] = retiring[1].epoch
        /\ release_pending_q' /\ release_bank_q' = retiring[1].bank
  <2>1. env.retires => /\ 1 \in 1 .. Len(retiring)
                       /\ Head(retiring) = retiring[1]
    BY RetiringMoves
  <2>2. env.retires => /\ release_pending_q'
                       /\ release_bank_q' = Head(retiring).bank
    BY DEF Moved, ReleaseMoved
  <2> QED BY <2>1, <2>2, RetiringHold
<1>3. \A b \in Banks, k \in 1 .. Len(collecting) :
        allocated_q[b] /\ ~Releases(b) => collecting[k].epoch # epoch_q[b]
  BY DEF IInv, EpochsHeld, CollectingApart
<1>4. \A j, k \in 1 .. Len(collecting) :
        j # k => collecting[j].epoch # collecting[k].epoch
  BY DEF IInv, EpochsHeld, CollectingApart
<1>5. ASSUME NEW j \in 1 .. Len(collecting'), NEW k \in 1 .. Len(collecting'),
             j # k
      PROVE  collecting'[j].epoch # collecting'[k].epoch
  <2>1. ASSUME NEW i \in 1 .. Len(collecting'), NEW m \in 1 .. Len(collecting'),
               i # m, i + g \in 1 .. Len(collecting),
               collecting'[i] = collecting[i + g]
        PROVE  collecting'[i].epoch # collecting'[m].epoch
    <3>1. CASE m + g \in 1 .. Len(collecting) /\ collecting'[m] = collecting[m + g]
      <4>1. i + g # m + g
        BY <2>1
      <4> QED BY <1>4, <2>1, <3>1, <4>1
    <3>2. CASE env.retires /\ collecting'[m] = retiring[1]
      BY <1>2, <1>3, <2>1, <3>2
    <3> QED BY <1>1, <3>1, <3>2
  <2>2. CASE j + g \in 1 .. Len(collecting) /\ collecting'[j] = collecting[j + g]
    BY <1>5, <2>1, <2>2
  <2>3. CASE k + g \in 1 .. Len(collecting) /\ collecting'[k] = collecting[k + g]
    BY <1>5, <2>1, <2>3
  <2>4. CASE j = Len(collecting) - g + 1 /\ k = Len(collecting) - g + 1
    BY <1>5, <2>4
  <2> QED BY <1>1, <2>2, <2>3, <2>4
<1>6. ASSUME NEW b \in Banks, NEW k \in 1 .. Len(collecting'),
             allocated_q'[b], ~Releases(b)'
      PROVE  collecting'[k].epoch # epoch_q'[b]
  <2>1. CASE Allocs(env, b)
    <3>1. epoch_q'[b] = alloc_epoch_q /\ ~Tracked(alloc_epoch_q)
      BY <2>1, AllocFacts DEF Moved, OwnerMoved, Allocs
    <3>2. Tracked(collecting'[k].epoch)
      <4>1. \A i \in 1 .. Len(collecting) : Tracked(collecting[i].epoch)
        BY DEF IInv, EpochsHeld, SelectedTracked
      <4>2. env.retires => Tracked(retiring[1].epoch)
        BY <1>2 DEF IInv, EpochsHeld, SelectedTracked
      <4> QED BY <1>1, <4>1, <4>2 DEF Tracked
    <3> QED BY <3>1, <3>2 DEF Tracked
  <2>2. CASE ~Allocs(env, b)
    <3>1. allocated_q[b] /\ ~Releases(b) /\ epoch_q'[b] = epoch_q[b]
      BY <1>6, <2>2 DEF Moved, OwnerMoved
    <3>2. CASE k + g \in 1 .. Len(collecting) /\ collecting'[k] = collecting[k + g]
      BY <1>3, <3>1, <3>2
    <3>3. CASE env.retires /\ collecting'[k] = retiring[1]
      <4>1. b # retiring[1].bank
        BY <1>2, <1>6, <3>3 DEF Releases
      <4>2. epoch_q[b] # epoch_q[retiring[1].bank]
        BY <1>2, <3>1, <3>3, <4>1 DEF IInv, EpochsHeld, BanksApart, Banks
      <4> QED BY <1>2, <3>1, <3>3, <4>2
    <3> QED BY <1>1, <3>2, <3>3
  <2> QED BY <2>1, <2>2
<1> QED BY <1>5, <1>6 DEF CollectingApart, Releases

-----------------------------------------------------------------------------
(* The types *)

Word == Vector \cup {ZeroVector}

LEMMA BufferTypesKept ==
  ASSUME IInv, NEW env \in Environment, NEW in, in = Ports(env),
         FrontendEdge(in), Moved(env)
  PROVE  BufferTypeOK'
<1> DEFINE al == AllocPort(in)  wr == WritePort(in)  se == SelectPort(in)
           rdy == env.stream_ready
<1>1. /\ OwnerEdge(al, CommitPort, ReleasePort)
      /\ CreditEdge(al, wr, se, rdy, ReleasePort)
      /\ LookaheadEdge(al, se, rdy, ReleasePort)
      /\ MemEdge(wr, se, rdy)
      /\ ReaderEdge(se, rdy, ReleasePort) /\ OutputEdge(se, rdy)
  BY PortsAre DEF FrontendEdge, BufferEdge
<1>2. /\ al.epoch \in Epochs /\ al.expected \in 0 .. DEPTH
      /\ wr.bank \in Banks /\ se.bank \in Banks
      /\ wr.valid => wr.data \in Vector
  <2>1. al.epoch = alloc_epoch_q /\ al.expected = alloc_expected_q
    BY AllocHandshake
  <2>2. wr.bank = fill_bank_q /\ wr.data = raw_vector /\ (wr.valid <=> Write)
    BY WriteHandshake
  <2>3. Write => raw_vector \in Vector
    BY DEF Write, IInv, Filling
  <2>4. se.bank \in Banks
    BY SelectHandshake
  <2> QED BY <2>1, <2>2, <2>3, <2>4 DEF IInv, Typed, TypeOK, FrontendTypeOK
<1> HIDE DEF al, wr, se, rdy
<1>3. BufferTypeOK /\ DEPTH \in Nat /\ DEPTH # 0
  BY DepthAssumption DEF IInv, Typed, TypeOK, FrontendTypeOK
<1>4. /\ allocated_q' \in [Banks -> BOOLEAN] /\ committed_q' \in [Banks -> BOOLEAN]
      /\ epoch_q' \in [Banks -> Epochs] /\ expected_q' \in [Banks -> 0 .. DEPTH]
  BY <1>1, <1>2, <1>3 DEF OwnerEdge, BufferTypeOK
<1>5. \A b \in Banks : /\ produced_q'[b] \in 0 .. DEPTH
                       /\ issued_q'[b] \in 0 .. DEPTH
                       /\ consumed_q'[b] \in 0 .. DEPTH
  <2> SUFFICES ASSUME NEW b \in Banks
               PROVE  /\ produced_q'[b] \in 0 .. DEPTH
                      /\ issued_q'[b] \in 0 .. DEPTH
                      /\ consumed_q'[b] \in 0 .. DEPTH
    OBVIOUS
  <2>1. /\ produced_q[b] \in 0 .. DEPTH /\ issued_q[b] \in 0 .. DEPTH
        /\ consumed_q[b] \in 0 .. DEPTH /\ expected_q[b] \in 0 .. DEPTH
    BY <1>3 DEF BufferTypeOK
  <2>2. /\ Writes(b) => produced_q[b] < expected_q[b]
        /\ Issues(env, b) => issued_q[b] < produced_q[b]
        /\ Pops(env, b) => issued_q[b] = consumed_q[b] + 1
    BY BankEvents
  <2>3. /\ produced_q'[b] = IF Writes(b) THEN produced_q[b] + 1
                            ELSE IF Allocs(env, b) THEN 0 ELSE produced_q[b]
        /\ issued_q'[b] = IF Issues(env, b) THEN issued_q[b] + 1
                          ELSE IF Allocs(env, b) THEN 0 ELSE issued_q[b]
        /\ consumed_q'[b] = IF Pops(env, b) THEN consumed_q[b] + 1
                            ELSE IF Allocs(env, b) THEN 0 ELSE consumed_q[b]
    BY DEF Moved, CreditMoved
  <2>4. produced_q'[b] \in 0 .. DEPTH
    BY <1>3, <2>1, <2>2, <2>3
  <2>5. issued_q'[b] \in 0 .. DEPTH
    BY <1>3, <2>1, <2>2, <2>3
  <2>6. consumed_q'[b] \in 0 .. DEPTH
    BY <1>3, <2>1, <2>2, <2>3
  <2> QED BY <2>4, <2>5, <2>6
<1>6. /\ produced_q' \in [Banks -> 0 .. DEPTH] /\ issued_q' \in [Banks -> 0 .. DEPTH]
      /\ consumed_q' \in [Banks -> 0 .. DEPTH]
  <2>1. /\ produced_q' = [b \in Banks |-> produced_q'[b]]
        /\ issued_q' = [b \in Banks |-> issued_q'[b]]
        /\ consumed_q' = [b \in Banks |-> consumed_q'[b]]
    BY <1>1 DEF CreditEdge
  <2> QED BY <1>5, <2>1
<1>7. write_open_q' \in [Banks -> BOOLEAN]
  BY <1>1 DEF CreditEdge
<1>8. /\ lookahead_pending_q' \in [Banks -> BOOLEAN]
      /\ lookahead_valid_q' \in [Banks -> BOOLEAN]
      /\ lookahead_data_q' \in [Banks -> Word]
  BY <1>1, <1>3 DEF LookaheadEdge, BufferTypeOK, Word
<1>9. mem' \in [Banks -> [0 .. DEPTH - 1 -> Word]]
  <2>1. mem \in [Banks -> [0 .. DEPTH - 1 -> Word]]
    BY <1>3 DEF BufferTypeOK, Word
  <2>2. CASE wr.valid /\ wr_ready(wr)
    <3> DEFINE a == produced_q[wr.bank] % DEPTH
    <3>1. mem' = [mem EXCEPT ![wr.bank][a] = wr.data]
      BY <1>1, <2>2 DEF MemEdge
    <3>2. wr.data \in Word
      BY <1>2, <2>2 DEF Word
    <3> HIDE DEF a
    <3> QED BY <1>2, <2>1, <3>1, <3>2
  <2>3. CASE ~(wr.valid /\ wr_ready(wr))
    BY <1>1, <2>1, <2>3 DEF MemEdge
  <2> QED BY <2>2, <2>3
<1>10. mem_rd_data' \in [Banks -> Word]
  <2>1. \A b \in Banks : /\ mem[b][issued_q[b] % DEPTH] \in Word
                         /\ mem[b][0] \in Word /\ mem_rd_data[b] \in Word
    <3> SUFFICES ASSUME NEW b \in Banks
                 PROVE  /\ mem[b][issued_q[b] % DEPTH] \in Word
                        /\ mem[b][0] \in Word /\ mem_rd_data[b] \in Word
      OBVIOUS
    <3>1. issued_q[b] % DEPTH \in 0 .. DEPTH - 1 /\ 0 \in 0 .. DEPTH - 1
      BY <1>3, Regs
    <3>2. mem[b] \in [0 .. DEPTH - 1 -> Word] /\ mem_rd_data[b] \in Word
      BY <1>3 DEF BufferTypeOK, Word
    <3> QED BY <3>1, <3>2
  <2> QED BY <1>1, <2>1 DEF MemEdge
<1>11. /\ reader_active_q' \in BOOLEAN /\ reader_bank_q' \in Banks
       /\ reader_epoch_q' \in Epochs
  <2>1. reader_active_q' \in BOOLEAN
    BY <1>1 DEF ReaderEdge
  <2> QED BY <1>3, <2>1, SelectFacts DEF Moved, ReaderMoved, BufferTypeOK
<1>12. /\ rd_valid_q' \in BOOLEAN /\ rd_bank_q' \in Banks /\ rd_epoch_q' \in Epochs
       /\ rd_last_q' \in BOOLEAN
  <2>1. rd_valid_q' \in BOOLEAN
    BY <1>1 DEF OutputEdge
  <2>2. CASE Issue(env)
    BY <1>3, <2>1, <2>2 DEF Moved, OutputMoved, BufferTypeOK
  <2>3. CASE Hit(env)
    BY <2>1, <2>3, SelectFacts DEF Moved, OutputMoved, Hit
  <2>4. CASE ~Issue(env) /\ ~Hit(env)
    BY <1>3, <2>1, <2>4 DEF Moved, OutputMoved, BufferTypeOK
  <2> QED BY <2>2, <2>3, <2>4
<1>13. rd_from_lookahead_q' \in BOOLEAN /\ rd_lookahead_data_q' \in Word
  BY <1>1, <1>2, <1>3 DEF OutputEdge, BufferTypeOK, Word
<1>14. buffer_error' \in SUBSET {"epoch", "overflow", "protocol"}
  BY DEF Moved, NoErrors
<1> QED BY <1>4, <1>6, <1>7, <1>8, <1>9, <1>10, <1>11, <1>12, <1>13, <1>14
       DEF BufferTypeOK, Word

LEMMA FrontendTypesKept ==
  ASSUME IInv, NEW env \in Environment, NEW in, in = Ports(env),
         FrontendEdge(in), Moved(env)
  PROVE  FrontendTypeOK'
<1>1. /\ AllocEdge(in) /\ FillEdge(in) /\ ComputeEdge(in) /\ ReleaseEdge(in)
      /\ CollectorEdge(in)
  BY DEF FrontendEdge
<1>2. BufferTypeOK'
  BY BufferTypesKept
<1>3. FrontendTypeOK
  BY DEF IInv, Typed, TypeOK
<1>4. \A b \in Banks : Other(b) \in Banks
  BY DEF Banks, Other
<1>5. \A e \in Epochs : EpochNext(e) \in Epochs
  BY EpochAssumption DEF Epochs, EpochNext
<1>6. BankChosen \in Banks
  BY <1>3, <1>4 DEF BankChosen, FrontendTypeOK
<1>7. in.context_expected \in 0 .. DEPTH
  BY PortsAre DEF IInv, Typed, TypeOK
<1>8. /\ preferred_bank_q' \in Banks /\ next_epoch_q' \in Epochs
      /\ alloc_pending_q' \in BOOLEAN /\ alloc_bank_q' \in Banks
      /\ alloc_epoch_q' \in Epochs /\ alloc_expected_q' \in 0 .. DEPTH
  BY <1>1, <1>3, <1>4, <1>5, <1>6, <1>7 DEF AllocEdge, FrontendTypeOK
<1>9. /\ fill_active_q' \in BOOLEAN /\ fill_bank_q' \in Banks
      /\ fill_epoch_q' \in Epochs /\ fill_expected_q' \in 0 .. DEPTH
      /\ commit_pending_q' \in BOOLEAN /\ commit_bank_q' \in Banks
      /\ commit_epoch_q' \in Epochs
  BY <1>1, <1>3 DEF FillEdge, FrontendTypeOK
<1>10. /\ context_queue' \in Seq(Desc) /\ Len(context_queue') <= CTX_DEPTH
       /\ compute_request_pending_q' \in BOOLEAN
  <2>1. compute_request_pending_q' \in BOOLEAN
    BY <1>1 DEF ComputeEdge
  <2>2. context_queue' \in Seq(Desc) /\ Len(context_queue') \in {0, 1}
    BY QueueTyped
  <2> DEFINE l == Len(context_queue')
  <2>3. l \in {0, 1}
    BY <2>2
  <2> HIDE DEF l
  <2>4. l <= CTX_DEPTH
    BY <2>3, QueueAssumption
  <2> QED BY <2>1, <2>2, <2>4 DEF l
<1>11. /\ release_pending_q' \in BOOLEAN /\ release_bank_q' \in Banks
       /\ release_epoch_q' \in Epochs
  <2>1. release_pending_q' \in BOOLEAN
    BY <1>1 DEF ReleaseEdge
  <2>2. CASE env.retires
    <3>1. Head(retiring) \in Contexts
      BY <2>2, RetiringMoves DEF IInv, Typed
    <3> QED BY <2>1, <2>2, <3>1 DEF Moved, ReleaseMoved, Contexts
  <2>3. CASE ~env.retires
    <3>1. in.retired.valid = FALSE
      BY <2>3, PortsAre, EnvTypes, ContextIs DEF IInv
    <3>2. release_bank_q' = release_bank_q /\ release_epoch_q' = release_epoch_q
      BY <1>1, <3>1 DEF ReleaseEdge, ReleaseTaken
    <3> QED BY <1>3, <2>1, <3>2 DEF FrontendTypeOK
  <2> QED BY <2>2, <2>3
<1>12. /\ collector_live_q' \in [CollectorSlots -> BOOLEAN]
       /\ collector_epoch_q' \in [CollectorSlots -> Epochs]
  <2>1. collector_live_q' \in [CollectorSlots -> BOOLEAN]
    BY <1>1 DEF CollectorEdge
  <2>2. \A s \in CollectorSlots : collector_epoch_q'[s] \in Epochs
    BY <1>3, SelectFacts DEF Moved, SlotsMoved, Takes, FrontendTypeOK
  <2>3. collector_epoch_q' = [s \in CollectorSlots |-> collector_epoch_q'[s]]
    BY <1>1 DEF CollectorEdge
  <2> QED BY <2>1, <2>2, <2>3
<1>13. frontend_error' \in SUBSET {"context_drop", "retire_mismatch", "collector_epoch"}
  BY DEF Moved, NoErrors
<1>14. \A k \in 1 .. Len(context_queue') :
         context_queue'[k] \in [bank : Banks, epoch : Epochs, expected : 0 .. DEPTH]
  BY <1>10, ElementOfSeq, Zenon DEF Desc
<1> QED BY <1>2, <1>8, <1>9, <1>10, <1>11, <1>12, <1>13, <1>14 DEF FrontendTypeOK

LEMMA TypedKept ==
  ASSUME IInv, NEW env \in Environment, Edge(env), Moved(env)
  PROVE  Typed'
<1> DEFINE in == Ports(env)
<1>1. /\ FrontendEdge(in) /\ FeederEdge /\ LoaderEdge(in)
      /\ SchedulerEdge(env.start, env.request)
  BY EdgeIs
<1> HIDE DEF in
<1>2. FrontendTypeOK'
  BY <1>1, FrontendTypesKept DEF in
<1>3. TypeOK
  BY DEF IInv, Typed
<1>4. vector_fill_req' \in BOOLEAN /\ active' \in BOOLEAN /\ req_armed' \in BOOLEAN
      /\ packet_done' \in BOOLEAN
  BY <1>1, Regs DEF FeederEdge, LoaderEdge
<1>5. /\ vector_pending' \in BOOLEAN /\ pending_last_pixel' \in BOOLEAN
      /\ raw_vector' \in Vector \cup {ZeroVector}
  <2>1. vector_pending' \in BOOLEAN /\ pending_last_pixel' \in BOOLEAN
    BY <1>1, <1>3 DEF LoaderEdge, last_pixel, TypeOK
  <2>2. raw_vector' \in Vector \cup {ZeroVector}
    BY <1>3 DEF Moved, LoaderMoved, TypeOK
  <2> QED BY <2>1, <2>2
<1>6. pixel_index' \in 0 .. DEPTH
  <2>1. Write => pixel_index < num_pixels
    BY DEF Write, IInv, Filling
  <2>2. pixel_index \in 0 .. DEPTH /\ num_pixels \in 1 .. DEPTH /\ DEPTH \in Nat
    BY <1>3, Regs DEF TypeOK
  <2>3. pixel_index' \in {0, pixel_index} \/ (Write /\ pixel_index' = pixel_index + 1)
    BY DEF Moved, LoaderMoved
  <2> QED BY <2>1, <2>2, <2>3
<1>7. num_pixels' \in 1 .. DEPTH
  <2>1. env.start \in 0 .. DEPTH
    BY EnvTypes DEF IInv
  <2>2. num_pixels' = IF env.start # 0 THEN env.start ELSE num_pixels
    BY StartFacts
  <2> QED BY <1>3, <2>1, <2>2, Regs DEF TypeOK
<1>8. feeder_start' \in BOOLEAN /\ compute_start' \in BOOLEAN
  BY <1>1, EnvTypes DEF SchedulerEdge, IInv
<1>9. unrequested' \in Nat
  <2>1. /\ unrequested' = unrequested + (IF env.start # 0 THEN 1 ELSE 0)
                                - (IF env.request THEN 1 ELSE 0)
        /\ env.request => unrequested # 0 \/ env.start # 0
    BY <1>1 DEF SchedulerEdge
  <2> QED BY <2>1, Regs
<1>10. /\ context_queue' \in Seq(Desc) /\ retiring' \in Seq(Contexts)
       /\ collecting' \in Seq(Contexts)
  BY QueueTyped, RetiringMoves, CollectingMoves
<1>11. /\ \A k \in 1 .. Len(retiring') : retiring'[k] \in [bank : Banks, epoch : Epochs]
       /\ \A k \in 1 .. Len(collecting') :
            collecting'[k] \in [bank : Banks, epoch : Epochs]
  BY <1>10, ElementOfSeq, Zenon DEF Contexts
<1>12. TypeOK'
  BY <1>2, <1>4, <1>5, <1>6, <1>7, <1>8, <1>9, <1>11 DEF TypeOK
<1> QED BY <1>10, <1>12 DEF Typed

-----------------------------------------------------------------------------
(* The safety of the path *)

LEMMA InitInv == Init => IInv
<1> SUFFICES ASSUME Init PROVE IInv
  OBVIOUS
<1> USE DEF Init, FrontendInit, BufferInit
<1>1. /\ DEPTH \in Nat /\ DEPTH # 0 /\ 0 \in 0 .. DEPTH - 1 /\ 0 \in Epochs
      /\ 0 \in 0 .. DEPTH /\ 1 \in 1 .. DEPTH /\ 1 % EpochCount \in Epochs
      /\ 0 \in Banks
  BY DepthAssumption, EpochAssumption DEF Epochs, Banks
<1>2. BufferTypeOK
  BY <1>1 DEF BufferTypeOK
<1>3. FrontendTypeOK
  <2>1. /\ Len(context_queue) = 0 /\ 0 <= CTX_DEPTH
        /\ \A k \in 1 .. Len(context_queue) : FALSE
    BY QueueAssumption
  <2>2. /\ collector_live_q \in [CollectorSlots -> BOOLEAN]
        /\ collector_epoch_q \in [CollectorSlots -> Epochs]
    BY <1>1
  <2>3. frontend_error \in
          SUBSET {"context_drop", "retire_mismatch", "collector_epoch"}
    OBVIOUS
  <2> QED BY <1>1, <1>2, <2>1, <2>2, <2>3 DEF FrontendTypeOK
<1>4. Typed
  <2>1. \A S : <<>> \in Seq(S) /\ Len(<<>>) = 0
    OBVIOUS
  <2>2. /\ \A k \in 1 .. Len(retiring) :
             retiring[k] \in [bank : Banks, epoch : Epochs]
        /\ \A k \in 1 .. Len(collecting) :
             collecting[k] \in [bank : Banks, epoch : Epochs]
    OBVIOUS
  <2>3. /\ pixel_index \in 0 .. DEPTH /\ num_pixels \in 1 .. DEPTH
        /\ unrequested \in Nat
    BY <1>1
  <2>4. TypeOK
    BY <1>3, <2>2, <2>3 DEF TypeOK
  <2> QED BY <2>1, <2>4 DEF Typed
<1>5. NoErrors /\ InFront /\ Filling /\ Filled /\ Committing
  BY DEF NoErrors, InFront, One, Filling, Filled, Committing
<1>6. Credited /\ Fetched
  BY DEF Credited, Fetched, Ahead
<1>7. Owned /\ Output
  BY DEF Owned, QueueOwns, ReaderOwns, RetiringOwn, ReleaseOwns, Output
<1>8. EpochsHeld
  BY DEF EpochsHeld, SlotsApart, BanksApart, SelectedTracked, CollectingApart,
         Banks
<1> QED BY <1>4, <1>5, <1>6, <1>7, <1>8 DEF IInv

LEMMA Inductive == IInv /\ [Next]_vars => IInv'
<1> SUFFICES ASSUME IInv, [Next]_vars PROVE IInv'
  OBVIOUS
<1>1. ASSUME NEW env \in Environment, Edge(env)
      PROVE  IInv'
  <2>1. Moved(env)
    BY <1>1, EdgeMoves
  <2>2. Typed'
    BY <1>1, <2>1, TypedKept
  <2>3. NoErrors'
    BY <2>1 DEF Moved
  <2>4. InFront' /\ Filling' /\ Filled' /\ Committing'
    BY <2>1, InFrontKept, FillingKept, FilledKept, CommittingKept
  <2>5. Credited' /\ Fetched' /\ Output'
    BY <2>1, CreditedKept, FetchedKept, OutputKept
  <2>6. Owned'
    BY <2>1, QueueOwnsKept, ReaderOwnsKept, RetiringOwnKept DEF Owned
  <2>7. EpochsHeld'
    BY <2>1, SlotsApartKept, BanksApartKept, SelectedTrackedKept,
       CollectingApartKept DEF EpochsHeld
  <2> QED BY <2>2, <2>3, <2>4, <2>5, <2>6, <2>7 DEF IInv
<1>2. CASE UNCHANGED vars
  <2> USE <1>2 DEF vars, frontendVars, bufferVars, ownerVars, creditVars,
        lookaheadVars, memVars, readerVars, outputVars, allocVars, fillVars,
        computeVars, releaseVars, collectorVars, loaderVars, environmentVars
  <2>1. Typed' /\ NoErrors'
    <3>1. BufferTypeOK'
      BY DEF IInv, Typed, TypeOK, FrontendTypeOK, BufferTypeOK
    <3>2. FrontendTypeOK'
      BY <3>1 DEF IInv, Typed, TypeOK, FrontendTypeOK
    <3>3. TypeOK'
      BY <3>2 DEF IInv, Typed, TypeOK
    <3> QED BY <3>3 DEF IInv, Typed, NoErrors
  <2>2. InFront' /\ Filling'
    BY DEF IInv, InFront, Filling
  <2>3. Filled' /\ Committing'
    BY DEF IInv, Filled, Committing, Queues, Reads
  <2>4. Credited' /\ Fetched'
    BY DEF IInv, Credited, CreditOk, Fills, Commits, Fetched, Ahead, Reads
  <2>5. Owned'
    BY DEF IInv, Owned, QueueOwns, ReaderOwns, RetiringOwn, ReleaseOwns, Done,
           Released, Reads, Retires, Releases
  <2>6. Output'
    BY DEF IInv, Output
  <2>7. EpochsHeld'
    BY DEF IInv, EpochsHeld, SlotsApart, BanksApart, SelectedTracked,
           CollectingApart, Tracked, Releases
  <2> QED BY <2>1, <2>2, <2>3, <2>4, <2>5, <2>6, <2>7 DEF IInv
<1> QED BY <1>1, <1>2 DEF Next

\* The order in which the banks are read: the reader's, then the queue's.
LEMMA ReadOrderIs ==
  ASSUME IInv
  PROVE  /\ ReadOrder = IF reader_active_q
                        THEN IF context_queue = <<>> THEN <<reader_bank_q>>
                             ELSE <<reader_bank_q, Head(context_queue).bank>>
                        ELSE IF context_queue = <<>> THEN <<>>
                             ELSE <<Head(context_queue).bank>>
         /\ reader_active_q /\ context_queue # <<>> =>
              reader_bank_q # Head(context_queue).bank
<1> DEFINE r == IF reader_active_q THEN <<reader_bank_q>> ELSE <<>>
           q == [k \in 1 .. Len(context_queue) |-> context_queue[k].bank]
<1>1. ReadOrder = r \o q
  BY DEF ReadOrder
<1>2. context_queue = <<>> => q = <<>>
  OBVIOUS
<1>3. ASSUME context_queue # <<>>
      PROVE  q = <<Head(context_queue).bank>>
  <2>1. Len(context_queue) = 1 /\ context_queue[1] = Head(context_queue)
    BY <1>3, QueueShort DEF IInv
  <2>2. q = [k \in 1 .. 1 |-> context_queue[k].bank]
    BY <2>1
  <2> QED BY <2>1, <2>2
<1> HIDE DEF q
<1>4. reader_active_q /\ context_queue # <<>> =>
        reader_bank_q # Head(context_queue).bank
  BY DEF IInv, Owned, QueueOwns, Reads
<1> QED BY <1>1, <1>2, <1>3, <1>4

LEMMA SafeNow == IInv => VectorsSafe
<1> SUFFICES ASSUME IInv PROVE VectorsSafe
  OBVIOUS
<1>1. TypeOK /\ NoErrors
  BY DEF IInv, Typed
<1>2. /\ Len(ReadOrder) <= 2
      /\ \A j, k \in 1 .. Len(ReadOrder) : j # k => ReadOrder[j] # ReadOrder[k]
  <2>1. CASE reader_active_q /\ context_queue # <<>>
    <3>1. PICK a, b \in Banks : /\ a = reader_bank_q /\ a # b
                               /\ b = Head(context_queue).bank
      BY <2>1, ReadOrderIs, Regs, QueueShort DEF IInv, Desc
    <3>2. ReadOrder = <<a, b>>
      BY <2>1, <3>1, ReadOrderIs
    <3> QED BY <3>1, <3>2
  <2>2. CASE ~(reader_active_q /\ context_queue # <<>>)
    <3>1. \/ ReadOrder = <<>>
          \/ ReadOrder = <<reader_bank_q>>
          \/ ReadOrder = <<Head(context_queue).bank>>
      BY <2>2, ReadOrderIs
    <3>2. \A x : Len(<<x>>) = 1
      OBVIOUS
    <3>3. Len(ReadOrder) \in {0, 1}
      BY <3>1, <3>2
    <3> DEFINE l == Len(ReadOrder)
    <3>4. l <= 2 /\ \A j, k \in 1 .. l : j = k
      <4> HIDE DEF l
      <4> QED BY <3>3 DEF l
    <3> QED BY <3>4
  <2> QED BY <2>1, <2>2
<1>3. allocated_q[0] /\ allocated_q[1] => epoch_q[0] # epoch_q[1]
  BY DEF IInv, EpochsHeld, BanksApart
<1>4. \A s, t \in CollectorSlots :
        s # t /\ collector_live_q[s] /\ collector_live_q[t] =>
          collector_epoch_q[s] # collector_epoch_q[t]
  BY DEF IInv, EpochsHeld, SlotsApart
<1>5. \A k \in 1 .. Len(context_queue), s \in CollectorSlots :
        collector_live_q[s] => collector_epoch_q[s] # context_queue[k].epoch
  <2>1. CASE context_queue = <<>>
    BY <2>1
  <2>2. CASE context_queue # <<>>
    <3>1. Len(context_queue) = 1 /\ context_queue[1] = Head(context_queue)
      BY <2>2, QueueShort DEF IInv
    <3>2. ~Tracked(Head(context_queue).epoch)
      BY <2>2 DEF IInv, EpochsHeld, SelectedTracked
    <3> QED BY <3>1, <3>2 DEF Tracked
  <2> QED BY <2>1, <2>2
<1> QED BY <1>1, <1>2, <1>3, <1>4, <1>5 DEF VectorsSafe, EpochsApart

\* For every depth, number of epochs, queue depth and number of collector
\* slots, no pulse is dropped, no vector arrives at a bank that is not its own,
\* every packet has its context's length, and contexts keep their banks and
\* epochs apart (ifm_context_epoch_frontend.v, ifm_vector_epoch_buffer.v).
THEOREM VectorsAlwaysSafe == Spec => []VectorsSafe
<1>1. Init => IInv
  BY InitInv
<1>2. IInv /\ [Next]_vars => IInv'
  BY Inductive
<1>3. IInv => VectorsSafe
  BY SafeNow
<1> QED BY <1>1, <1>2, <1>3, PTL DEF Spec

-----------------------------------------------------------------------------
(* The words: what is shown is what was stored *)

\* What is read ahead is the first vector of its bank.
LookedAhead ==
  \A b \in Banks :
    /\ lookahead_pending_q[b] =>
         mem_rd_data[b] = mem[b][0] /\ ~lookahead_valid_q[b]
    /\ lookahead_valid_q[b] => lookahead_data_q[b] = mem[b][0]

\* The output slot shows the next vector of its bank.
Shown == rd_valid_q => rd_data = mem[rd_bank_q][consumed_q[rd_bank_q]]

Stored ==
  \A b \in Banks :
    allocated_q[b] => \A a \in 0 .. produced_q[b] - 1 : mem[b][a] \in Vector

WInv == IInv /\ LookedAhead /\ Shown /\ Stored

Fetches(env, b) ==
  lookahead_rd_en(b, SelectPort(Ports(env)), env.stream_ready)

MemMoved(env) ==
  \A b \in Banks :
    /\ \A a \in 0 .. DEPTH - 1 :
         mem'[b][a] = IF Writes(b) /\ a = produced_q[b] THEN raw_vector
                      ELSE mem[b][a]
    /\ mem_rd_data'[b] = IF Issue(env) /\ b = reader_bank_q
                         THEN mem[b][issued_q[b]]
                         ELSE IF Fetches(env, b) THEN mem[b][0]
                         ELSE mem_rd_data[b]
    /\ lookahead_pending_q'[b] <=> Fetches(env, b) /\ ~Drops(env, b)
    /\ lookahead_data_q'[b] = IF lookahead_pending_q[b] THEN mem_rd_data[b]
                              ELSE lookahead_data_q[b]
    /\ Fetches(env, b) => /\ produced_q[b] # 0 /\ issued_q[b] = 0
                          /\ ~Reads(b) /\ ~Ahead(b)

ShownMoved(env) ==
  /\ rd_from_lookahead_q' <=>
       Hit(env) \/ (rd_from_lookahead_q /\ ~Issue(env) /\ ~Pop(env))
  /\ rd_lookahead_data_q' =
       IF ~Hit(env) THEN rd_lookahead_data_q
       ELSE IF lookahead_valid_q[Head(context_queue).bank]
            THEN lookahead_data_q[Head(context_queue).bank]
            ELSE mem_rd_data[Head(context_queue).bank]

\* The counters of a bank, as positions in its memory.
LEMMA Positions ==
  ASSUME IInv, NEW b \in Banks
  PROVE  /\ DEPTH \in Nat /\ DEPTH # 0 /\ 0 \in 0 .. DEPTH - 1
         /\ produced_q[b] \in 0 .. DEPTH /\ issued_q[b] \in 0 .. DEPTH
         /\ consumed_q[b] \in 0 .. DEPTH /\ expected_q[b] \in 0 .. DEPTH
         /\ allocated_q[b] => /\ consumed_q[b] <= issued_q[b]
                              /\ issued_q[b] <= produced_q[b]
                              /\ produced_q[b] <= expected_q[b]
<1>1. DEPTH \in Nat /\ DEPTH # 0
  BY DepthAssumption
<1>2. BufferTypeOK
  BY DEF IInv, Typed, TypeOK, FrontendTypeOK
<1>3. allocated_q[b] => CreditOk(b)
  BY DEF IInv, Credited
<1> QED BY <1>1, <1>2, <1>3 DEF BufferTypeOK, CreditOk

LEMMA MemMoves ==
  ASSUME IInv, NEW env \in Environment, NEW in, in = Ports(env),
         FrontendEdge(in)
  PROVE  MemMoved(env) /\ ShownMoved(env)
<1> DEFINE al == AllocPort(in)  wr == WritePort(in)  se == SelectPort(in)
           rdy == env.stream_ready
<1>1. /\ LookaheadEdge(al, se, rdy, ReleasePort)
      /\ MemEdge(wr, se, rdy) /\ OutputEdge(se, rdy)
  BY PortsAre DEF FrontendEdge, BufferEdge
<1>2. \A b \in Banks :
        /\ al.valid /\ al.bank = b /\ alloc_ready(al) <=> Allocs(env, b)
        /\ ReleasePort.valid /\ ReleasePort.bank = b /\ release_ready(ReleasePort)
             <=> Releases(b)
        /\ select_lookahead_hit(se, rdy) /\ se.bank = b
             <=> Hit(env) /\ b = Head(context_queue).bank
  BY AllocHandshake, ReleaseHandshake, SelectHandshake
     DEF Allocs, Releases, Hit, Select
<1>3. /\ wr.valid /\ wr_ready(wr) <=> Write
      /\ wr.bank = fill_bank_q /\ wr.data = raw_vector /\ fill_bank_q \in Banks
  BY WriteHandshake, Regs
<1>4. /\ issue_read(rdy) <=> Issue(env)
      /\ output_pop(rdy) <=> Pop(env)
      /\ select_lookahead_hit(se, rdy) <=> Hit(env)
      /\ Hit(env) => se.bank = Head(context_queue).bank
  BY SelectHandshake DEF issue_read, Issue, output_pop, Pop, Hit, Select
<1>5. \A b \in Banks : lookahead_rd_en(b, se, rdy) <=> Fetches(env, b)
  BY DEF Fetches
<1> HIDE DEF al, wr, se, rdy
<1>6. ShownMoved(env)
  BY <1>1, <1>4 DEF OutputEdge, ShownMoved
<1>7. ASSUME NEW b \in Banks
      PROVE  /\ lookahead_pending_q'[b] <=> Fetches(env, b) /\ ~Drops(env, b)
             /\ lookahead_data_q'[b] = IF lookahead_pending_q[b] THEN mem_rd_data[b]
                                       ELSE lookahead_data_q[b]
  BY <1>1, <1>2, <1>5 DEF LookaheadEdge, Drops
<1>8. ASSUME NEW b \in Banks
      PROVE  mem_rd_data'[b] = IF Issue(env) /\ b = reader_bank_q
                               THEN mem[b][issued_q[b]]
                               ELSE IF Fetches(env, b) THEN mem[b][0]
                               ELSE mem_rd_data[b]
  <2>1. mem_rd_data'[b] = IF Issue(env) /\ b = reader_bank_q
                          THEN mem[b][issued_q[b] % DEPTH]
                          ELSE IF Fetches(env, b) THEN mem[b][0]
                          ELSE mem_rd_data[b]
    BY <1>1, <1>4, <1>5 DEF MemEdge
  <2>2. Issue(env) /\ b = reader_bank_q => issued_q[b] % DEPTH = issued_q[b]
    <3>1. Issue(env) /\ b = reader_bank_q => issued_q[b] < produced_q[b]
      BY DEF Issue
    <3> QED BY <3>1, Positions
  <2> QED BY <2>1, <2>2
<1>9. ASSUME NEW b \in Banks, NEW a \in 0 .. DEPTH - 1
      PROVE  mem'[b][a] = IF Writes(b) /\ a = produced_q[b] THEN raw_vector
                          ELSE mem[b][a]
  <2>1. mem \in [Banks -> [0 .. DEPTH - 1 -> Word]]
    BY DEF IInv, Typed, TypeOK, FrontendTypeOK, BufferTypeOK, Word
  <2>2. CASE Write
    <3> DEFINE p == produced_q[fill_bank_q]
    <3>1. p % DEPTH = p /\ p \in 0 .. DEPTH - 1
      <4>1. Writes(fill_bank_q)
        BY <2>2 DEF Writes
      <4>2. p < expected_q[fill_bank_q]
        BY <1>3, <4>1, BankEvents
      <4> QED BY <1>3, <4>2, Positions
    <3>2. mem' = [mem EXCEPT ![fill_bank_q][p] = raw_vector]
      BY <1>1, <1>3, <2>2, <3>1 DEF MemEdge
    <3> HIDE DEF p
    <3>3. mem'[b][a] = IF b = fill_bank_q /\ a = p THEN raw_vector ELSE mem[b][a]
      BY <1>3, <2>1, <3>1, <3>2
    <3> QED BY <2>2, <3>3 DEF Writes, p
  <2>3. CASE ~Write
    <3>1. mem' = mem
      BY <1>1, <1>3, <2>3 DEF MemEdge
    <3> QED BY <2>3, <3>1 DEF Writes
  <2> QED BY <2>2, <2>3
<1>10. ASSUME NEW b \in Banks, Fetches(env, b)
       PROVE  produced_q[b] # 0 /\ issued_q[b] = 0 /\ ~Reads(b) /\ ~Ahead(b)
  BY <1>10 DEF Fetches, lookahead_rd_en, Reads, Ahead
<1> QED BY <1>6, <1>7, <1>8, <1>9, <1>10 DEF MemMoved

LEMMA WordsKept ==
  ASSUME WInv, NEW env \in Environment, Moved(env), MemMoved(env),
         ShownMoved(env), Output'
  PROVE  LookedAhead' /\ Shown' /\ Stored'
<1>1. IInv /\ LookedAhead /\ Shown /\ Stored
  BY DEF WInv
<1>2. \A b \in Banks : produced_q[b] # 0 => mem'[b][0] = mem[b][0]
  BY <1>1, Positions DEF MemMoved
<1>3. \A b \in Banks : Ahead(b) => produced_q[b] # 0 /\ issued_q[b] = 0
  BY <1>1 DEF IInv, Fetched
<1>4. LookedAhead'
  <2> SUFFICES ASSUME NEW b \in Banks
               PROVE  /\ lookahead_pending_q'[b] =>
                           /\ mem_rd_data'[b] = mem'[b][0]
                           /\ ~lookahead_valid_q'[b]
                      /\ lookahead_valid_q'[b] =>
                           lookahead_data_q'[b] = mem'[b][0]
    BY DEF LookedAhead
  <2>1. ASSUME lookahead_pending_q'[b]
        PROVE  mem_rd_data'[b] = mem'[b][0] /\ ~lookahead_valid_q'[b]
    <3>1. /\ Fetches(env, b) /\ produced_q[b] # 0 /\ ~Reads(b) /\ ~Ahead(b)
      BY <2>1 DEF MemMoved
    <3>2. ~(Issue(env) /\ b = reader_bank_q)
      BY <3>1 DEF Issue, Reads
    <3>3. mem_rd_data'[b] = mem[b][0]
      BY <3>1, <3>2 DEF MemMoved
    <3>4. ~lookahead_valid_q'[b]
      BY <3>1 DEF Moved, AheadMoved
    <3> QED BY <1>2, <3>1, <3>3, <3>4
  <2>2. ASSUME lookahead_valid_q'[b]
        PROVE  lookahead_data_q'[b] = mem'[b][0]
    <3>1. Ahead(b)
      BY <2>2 DEF Moved, AheadMoved
    <3>2. lookahead_data_q'[b] = mem[b][0]
      BY <1>1, <3>1 DEF MemMoved, LookedAhead, Ahead
    <3> QED BY <1>2, <1>3, <3>1, <3>2
  <2> QED BY <2>1, <2>2
<1>5. Shown'
  <2> SUFFICES ASSUME rd_valid_q', NEW b, b = rd_bank_q'
               PROVE  (IF rd_from_lookahead_q' THEN rd_lookahead_data_q'
                       ELSE mem_rd_data'[b]) = mem'[b][consumed_q'[b]]
    BY DEF Shown, rd_data
  <2>1. b = reader_bank_q' /\ issued_q'[b] = consumed_q'[b] + 1
    BY DEF Output
  <2>2. rd_valid_q' <=> Hit(env) \/ Issue(env) \/ (rd_valid_q /\ ~Pop(env))
    BY DEF Moved, OutputMoved
  <2>3. Hit(env) => Select(env) /\ ~Issue(env)
    BY <1>1, SelectFacts DEF Hit
  <2>4. CASE Issue(env)
    <3>1. ~Hit(env) /\ b = reader_bank_q /\ ~rd_from_lookahead_q'
      BY <2>3, <2>4 DEF ShownMoved, Moved, OutputMoved
    <3>2. b \in Banks /\ Issues(env, b)
      BY <1>1, <2>4, <3>1, Regs DEF Issues
    <3>3. issued_q[b] < produced_q[b] /\ allocated_q[b]
      BY <1>1, <3>2, BankEvents
    <3>4. mem_rd_data'[b] = mem[b][issued_q[b]]
      BY <2>4, <3>1, <3>2 DEF MemMoved
    <3>5. issued_q'[b] = issued_q[b] + 1
      BY <3>2 DEF Moved, CreditMoved
    <3>6. consumed_q'[b] = issued_q[b]
      <4>1. issued_q[b] \in Nat
        BY <1>1, <3>2, Positions
      <4>2. consumed_q'[b] \in Nat
        <5>1. consumed_q'[b] \in {consumed_q[b] + 1, 0, consumed_q[b]}
          BY <3>2 DEF Moved, CreditMoved
        <5>2. consumed_q[b] \in Nat
          BY <1>1, <3>2, Positions
        <5> QED BY <5>1, <5>2
      <4> QED BY <2>1, <3>5, <4>1, <4>2
    <3>7. mem'[b][issued_q[b]] = mem[b][issued_q[b]]
      <4>1. issued_q[b] \in 0 .. DEPTH - 1 /\ issued_q[b] # produced_q[b]
        BY <1>1, <3>2, <3>3, Positions
      <4> QED BY <3>2, <4>1 DEF MemMoved
    <3> QED BY <3>1, <3>4, <3>6, <3>7
  <2>5. CASE Hit(env)
    <3>1. b = Head(context_queue).bank /\ rd_from_lookahead_q' /\ Select(env)
      BY <2>3, <2>5 DEF ShownMoved, Moved, OutputMoved
    <3>2. b \in Banks /\ Ahead(b) /\ ~Reads(b) /\ allocated_q[b]
      BY <1>1, <2>5, <3>1, SelectFacts DEF Hit
    <3>3. rd_lookahead_data_q' = mem[b][0]
      BY <1>1, <2>5, <3>1, <3>2 DEF ShownMoved, LookedAhead, Ahead
    <3>4. consumed_q'[b] = 0
      <4>1. consumed_q[b] = 0
        BY <1>1, <1>3, <3>2, Positions
      <4>2. ~Pops(env, b)
        BY <1>1, <3>2, BankEvents
      <4> QED BY <3>2, <4>1, <4>2 DEF Moved, CreditMoved
    <3> QED BY <1>2, <1>3, <3>1, <3>2, <3>3, <3>4
  <2>6. CASE ~Issue(env) /\ ~Hit(env)
    <3>1. /\ rd_valid_q /\ ~Pop(env) /\ b = rd_bank_q
          /\ rd_from_lookahead_q' <=> rd_from_lookahead_q
          /\ rd_lookahead_data_q' = rd_lookahead_data_q
      BY <2>2, <2>6 DEF ShownMoved, Moved, OutputMoved
    <3>2. /\ reader_active_q /\ b = reader_bank_q
          /\ issued_q[b] = consumed_q[b] + 1
      BY <1>1, <3>1 DEF IInv, Output
    <3>3. b \in Banks /\ Reads(b) /\ allocated_q[b]
      BY <1>1, <3>2, Regs, BankEvents DEF Reads
    <3>4. mem_rd_data'[b] = mem_rd_data[b]
      BY <2>6, <3>3 DEF MemMoved
    <3>5. ~Pops(env, b) /\ ~Allocs(env, b)
      BY <1>1, <3>1, <3>3, BankEvents DEF Pops
    <3>6. consumed_q'[b] = consumed_q[b]
      BY <3>3, <3>5 DEF Moved, CreditMoved
    <3>7. mem'[b][consumed_q[b]] = mem[b][consumed_q[b]]
      <4>1. consumed_q[b] \in 0 .. DEPTH - 1 /\ consumed_q[b] # produced_q[b]
        BY <1>1, <3>2, <3>3, Positions
      <4> QED BY <3>3, <4>1 DEF MemMoved
    <3>8. (IF rd_from_lookahead_q THEN rd_lookahead_data_q
           ELSE mem_rd_data[b]) = mem[b][consumed_q[b]]
      BY <1>1, <3>1 DEF Shown, rd_data
    <3> QED BY <3>1, <3>4, <3>6, <3>7, <3>8
  <2> QED BY <2>4, <2>5, <2>6
<1>6. Stored'
  <2> SUFFICES ASSUME NEW b \in Banks, allocated_q'[b],
                      NEW a \in 0 .. produced_q'[b] - 1
               PROVE  mem'[b][a] \in Vector
    BY DEF Stored
  <2>1. ~Allocs(env, b)
    <3>1. Allocs(env, b) => produced_q'[b] = 0
      BY <1>1, BankEvents DEF Moved, CreditMoved
    <3> QED BY <3>1
  <2>2. allocated_q[b]
    BY <2>1 DEF Moved, OwnerMoved
  <2>3. produced_q'[b] = IF Writes(b) THEN produced_q[b] + 1 ELSE produced_q[b]
    BY <2>1 DEF Moved, CreditMoved
  <2>4. Writes(b) => produced_q[b] < expected_q[b] /\ raw_vector \in Vector
    BY <1>1, BankEvents DEF Writes, Write, IInv, Filling
  <2>5. a \in 0 .. DEPTH - 1
    BY <1>1, <2>2, <2>3, <2>4, Positions
  <2>6. a \in 0 .. produced_q[b] - 1 \/ (Writes(b) /\ a = produced_q[b])
    BY <1>1, <2>2, <2>3, Positions
  <2>7. a \in 0 .. produced_q[b] - 1 => mem[b][a] \in Vector
    BY <1>1, <2>2 DEF Stored
  <2> QED BY <2>4, <2>5, <2>6, <2>7 DEF MemMoved
<1> QED BY <1>4, <1>5, <1>6

LEMMA WInit == Init => WInv
<1> SUFFICES ASSUME Init PROVE WInv
  OBVIOUS
<1>1. IInv
  BY InitInv
<1>2. LookedAhead /\ Shown /\ Stored
  BY DEF Init, FrontendInit, BufferInit, LookedAhead, Shown, Stored
<1> QED BY <1>1, <1>2 DEF WInv

\* What an edge does to the words, and that it keeps the invariant.
LEMMA WStep ==
  ASSUME WInv, NEW env \in Environment, Edge(env)
  PROVE  WInv' /\ Moved(env) /\ MemMoved(env) /\ ShownMoved(env)
<1>1. IInv
  BY DEF WInv
<1>2. Moved(env)
  BY <1>1, EdgeMoves
<1>3. FrontendEdge(Ports(env))
  BY EdgeIs
<1>4. MemMoved(env) /\ ShownMoved(env)
  BY <1>1, <1>3, MemMoves
<1>5. [Next]_vars
  BY DEF Next
<1>6. IInv'
  BY <1>1, <1>5, Inductive
<1>7. LookedAhead' /\ Shown' /\ Stored'
  BY <1>2, <1>4, <1>6, WordsKept DEF IInv
<1> QED BY <1>2, <1>4, <1>6, <1>7 DEF WInv

LEMMA WInductive == WInv /\ [Next]_vars => WInv'
<1> SUFFICES ASSUME WInv, [Next]_vars PROVE WInv'
  OBVIOUS
<1>1. ASSUME NEW env \in Environment, Edge(env) PROVE WInv'
  BY <1>1, WStep
<1>2. CASE UNCHANGED vars
  <2>1. IInv'
    BY <1>2, Inductive DEF WInv
  <2>2. LookedAhead' /\ Shown' /\ Stored'
    BY <1>2 DEF WInv, LookedAhead, Shown, rd_data, Stored, vars, frontendVars,
       bufferVars, ownerVars, creditVars, lookaheadVars, memVars, outputVars
  <2> QED BY <2>1, <2>2 DEF WInv
<1> QED BY <1>1, <1>2 DEF Next

-----------------------------------------------------------------------------
(* The stream: what waits in the banks is one queue *)

Item == [data : Vector, bank : Banks, epoch : Epochs, last : BOOLEAN]
ItemAt(b, a) == [data |-> mem[b][a], bank |-> b, epoch |-> epoch_q[b],
                 last |-> a + 1 = expected_q[b]]
NewItem == [data |-> raw_vector, bank |-> fill_bank_q, epoch |-> fill_epoch_q,
            last |-> pending_last_pixel]

\* The line after an edge, item by item.
LEMMA LineIs ==
  ASSUME NEW S, NEW q \in Seq(S), NEW r \in Seq(S),
         NEW gone \in BOOLEAN, NEW comes \in BOOLEAN, NEW x,
         gone => q # <<>>, comes => x \in S,
         Len(r) = Len(q) - One(gone) + One(comes),
         \A k \in 1 .. Len(r) :
           r[k] = IF k + One(gone) <= Len(q) THEN q[k + One(gone)] ELSE x
  PROVE  r = LineAfter(q, gone, comes, x)
<1> DEFINE g == One(gone)  c == One(comes)
           p == IF gone THEN Tail(q) ELSE q
           t == IF comes THEN <<x>> ELSE <<>>
<1>0. g \in {0, 1} /\ c \in {0, 1} /\ Len(q) \in Nat
  BY Ones
<1>1. /\ p \in Seq(S) /\ Len(p) = Len(q) - g
      /\ \A k \in 1 .. Len(p) : p[k] = q[k + g]
  <2>1. CASE gone
    <3>1. /\ Tail(q) \in Seq(S) /\ Len(Tail(q)) = Len(q) - 1
          /\ \A k \in 1 .. Len(Tail(q)) : Tail(q)[k] = q[k + 1]
      BY <2>1, HeadTailProperties
    <3>2. g = 1
      BY <2>1 DEF One
    <3> HIDE DEF g
    <3> QED BY <2>1, <3>1, <3>2
  <2>2. CASE ~gone
    <3>1. g = 0
      BY <2>2 DEF One
    <3> HIDE DEF g
    <3>2. p = q
      BY <2>2
    <3>3. \A k \in 1 .. Len(q) : k + 0 = k
      OBVIOUS
    <3> QED BY <1>0, <3>1, <3>2, <3>3
  <2> QED BY <2>1, <2>2
<1>2. t \in Seq(S) /\ Len(t) = c /\ (c = 1 => t[1] = x)
  <2>1. CASE comes
    <3>1. t = <<x>> /\ c = 1
      BY <2>1 DEF One
    <3> QED BY <3>1
  <2>2. CASE ~comes
    <3>1. t = <<>> /\ c = 0
      BY <2>2 DEF One
    <3> QED BY <3>1
  <2> QED BY <2>1, <2>2
<1>3. LineAfter(q, gone, comes, x) = p \o t
  BY DEF LineAfter
<1>4. /\ Len(r) = Len(q) - g + c
      /\ \A k \in 1 .. Len(r) : r[k] = IF k + g <= Len(q) THEN q[k + g] ELSE x
  OBVIOUS
<1> HIDE DEF g, c, p, t
<1>5. /\ p \o t \in Seq(S) /\ Len(p \o t) = Len(p) + Len(t)
      /\ \A k \in 1 .. Len(p) + Len(t) :
           (p \o t)[k] = IF k <= Len(p) THEN p[k] ELSE t[k - Len(p)]
  BY <1>1, <1>2, ConcatProperties, Zenon
<1>6. Len(r) = Len(p \o t)
  BY <1>1, <1>2, <1>4, <1>5
<1>7. ASSUME NEW k \in 1 .. Len(r) PROVE r[k] = (p \o t)[k]
  <2>1. (p \o t)[k] = IF k <= Len(p) THEN p[k] ELSE t[k - Len(p)]
    BY <1>5, <1>6
  <2>2. r[k] = IF k + g <= Len(q) THEN q[k + g] ELSE x
    BY <1>4
  <2>3. CASE k + g <= Len(q)
    <3>1. k <= Len(p) /\ k \in 1 .. Len(p)
      BY <1>0, <1>1, <2>3
    <3> QED BY <1>1, <2>1, <2>2, <2>3, <3>1
  <2>4. CASE ~(k + g <= Len(q))
    <3>1. ~(k <= Len(p)) /\ c = 1 /\ k - Len(p) = 1
      BY <1>0, <1>1, <1>4, <2>4
    <3> QED BY <1>2, <2>1, <2>2, <2>4, <3>1
  <2> QED BY <2>3, <2>4
<1>8. r = p \o t
  BY <1>5, <1>6, <1>7, SeqEqual
<1> QED BY <1>3, <1>8

\* The unread vectors of a bank, one by one.
LEMMA UnreadIs ==
  ASSUME IInv, NEW b \in Banks, allocated_q[b]
  PROVE  /\ Len(Unread(b)) = produced_q[b] - consumed_q[b]
         /\ produced_q[b] - consumed_q[b] \in 0 .. DEPTH
         /\ \A k \in 1 .. Len(Unread(b)) :
              Unread(b)[k] = ItemAt(b, consumed_q[b] + k - 1)
<1> DEFINE n == produced_q[b] - consumed_q[b]
<1>1. n \in 0 .. DEPTH /\ consumed_q[b] \in Nat
  BY Positions
<1>2. Unread(b) = [k \in 1 .. n |->
         [data |-> mem[b][consumed_q[b] + k - 1], bank |-> b,
          epoch |-> epoch_q[b], last |-> consumed_q[b] + k = expected_q[b]]]
  BY DEF Unread
<1> HIDE DEF n
<1>3. Len(Unread(b)) = n
  BY <1>1, <1>2
<1>4. ASSUME NEW k \in 1 .. n
      PROVE  Unread(b)[k] = ItemAt(b, consumed_q[b] + k - 1)
  <2>1. (consumed_q[b] + k - 1) + 1 = consumed_q[b] + k
    BY <1>1
  <2> QED BY <1>2, <2>1 DEF ItemAt
<1> QED BY <1>1, <1>3, <1>4 DEF n

LEMMA UnreadTyped ==
  ASSUME WInv, NEW b \in Banks, allocated_q[b]
  PROVE  Unread(b) \in Seq(Item)
<1> DEFINE n == produced_q[b] - consumed_q[b]
           e(k) == [data |-> mem[b][consumed_q[b] + k - 1], bank |-> b,
                    epoch |-> epoch_q[b],
                    last |-> consumed_q[b] + k = expected_q[b]]
<1>1. IInv /\ n \in Nat /\ consumed_q[b] \in Nat /\ produced_q[b] \in Nat
  BY Positions DEF WInv
<1>2. epoch_q[b] \in Epochs
  BY <1>1 DEF IInv, Typed, TypeOK, FrontendTypeOK, BufferTypeOK
<1>3. \A a \in 0 .. produced_q[b] - 1 : mem[b][a] \in Vector
  BY DEF WInv, Stored
<1>4. ASSUME NEW k \in 1 .. n PROVE e(k) \in Item
  <2>1. consumed_q[b] + k - 1 \in 0 .. produced_q[b] - 1
    BY <1>1
  <2> QED BY <1>2, <1>3, <2>1 DEF Item
<1>5. Unread(b) = [k \in 1 .. n |-> e(k)]
  BY DEF Unread
<1> HIDE DEF n, e
<1>6. [k \in 1 .. n |-> e(k)] \in Seq(Item)
  BY <1>1, <1>4, IsASeq
<1> QED BY <1>5, <1>6

\* What is written is the next vector of the context that is being filled.
LEMMA WrittenIs ==
  ASSUME IInv, Write
  PROVE  /\ fill_bank_q \in Banks /\ Writes(fill_bank_q)
         /\ NewItem \in Item
         /\ allocated_q[fill_bank_q]
         /\ produced_q[fill_bank_q] < expected_q[fill_bank_q]
         /\ epoch_q[fill_bank_q] = fill_epoch_q
         /\ pending_last_pixel
              = (produced_q[fill_bank_q] + 1 = expected_q[fill_bank_q])
         /\ Queues(fill_bank_q) \/ (context_queue = <<>> /\ Reads(fill_bank_q))
<1>1. fill_bank_q \in Banks /\ Writes(fill_bank_q) /\ fill_active_q /\ vector_pending
  BY Regs DEF Writes, Write
<1>2. ~packet_done /\ produced_q[fill_bank_q] < expected_q[fill_bank_q]
  BY <1>1, BankEvents
<1>3. Filled /\ Filling
  BY DEF IInv
<1>4. /\ raw_vector \in Vector
      /\ pending_last_pixel = (pixel_index + 1 = num_pixels)
      /\ fill_expected_q = num_pixels
  BY <1>1, <1>3 DEF Filling
<1>5. fill_epoch_q \in Epochs /\ pending_last_pixel \in BOOLEAN
  BY Regs DEF IInv, Typed, TypeOK, FrontendTypeOK
<1>6. NewItem \in Item
  BY <1>1, <1>4, <1>5 DEF NewItem, Item
<1>7. /\ allocated_q[fill_bank_q] /\ epoch_q[fill_bank_q] = fill_epoch_q
      /\ expected_q[fill_bank_q] = fill_expected_q
      /\ produced_q[fill_bank_q] = IF packet_done THEN num_pixels ELSE pixel_index
      /\ Queues(fill_bank_q) \/ (context_queue = <<>> /\ Reads(fill_bank_q))
  BY <1>1, <1>3 DEF Filled
<1>8. pending_last_pixel
        = (produced_q[fill_bank_q] + 1 = expected_q[fill_bank_q])
  BY <1>2, <1>4, <1>7
<1> QED BY <1>1, <1>2, <1>6, <1>7, <1>8

\* What is taken is the oldest unread vector of the reader's bank.
LEMMA TakenIs ==
  ASSUME WInv, NEW env \in Environment, Pop(env)
  PROVE  /\ reader_active_q /\ reader_bank_q \in Banks
         /\ allocated_q[reader_bank_q]
         /\ Unread(reader_bank_q) # <<>>
         /\ Head(Unread(reader_bank_q)) = Offered
         /\ Finish(env) => Len(Unread(reader_bank_q)) = 1
<1> DEFINE b == reader_bank_q
<1>1. IInv /\ Output /\ Owned /\ rd_valid_q /\ Shown
  BY DEF WInv, IInv, Pop
<1>2. /\ reader_active_q /\ rd_bank_q = b /\ rd_epoch_q = reader_epoch_q
      /\ issued_q[b] = consumed_q[b] + 1
      /\ rd_last_q = (issued_q[b] = expected_q[b])
  BY <1>1 DEF Output
<1>3. b \in Banks /\ allocated_q[b] /\ epoch_q[b] = reader_epoch_q
  BY <1>1, <1>2, Regs DEF Owned, ReaderOwns
<1>4. /\ Len(Unread(b)) = produced_q[b] - consumed_q[b]
      /\ \A k \in 1 .. Len(Unread(b)) :
           Unread(b)[k] = ItemAt(b, consumed_q[b] + k - 1)
  BY <1>1, <1>3, UnreadIs
<1>5. Unread(b) \in Seq(Item)
  BY <1>3, UnreadTyped
<1>6. /\ consumed_q[b] \in Nat /\ issued_q[b] \in Nat /\ produced_q[b] \in Nat
      /\ issued_q[b] <= produced_q[b]
  BY <1>1, <1>3, Positions
<1> HIDE DEF b
<1>7. 1 \in 1 .. Len(Unread(b))
  BY <1>2, <1>4, <1>6
<1>8. Unread(b) # <<>> /\ Head(Unread(b)) = Unread(b)[1]
  <2>1. Unread(b) # <<>>
    BY <1>7
  <2> QED BY <1>5, <2>1
<1>9. Unread(b)[1] = ItemAt(b, consumed_q[b])
  <2>1. consumed_q[b] + 1 - 1 = consumed_q[b]
    BY <1>6
  <2>2. Unread(b)[1] = ItemAt(b, consumed_q[b] + 1 - 1)
    BY <1>4, <1>7
  <2> QED BY <2>1, <2>2
<1>10. rd_data = mem[b][consumed_q[b]]
  BY <1>1, <1>2 DEF Shown
<1>11. ItemAt(b, consumed_q[b]) = Offered
  BY <1>2, <1>3, <1>10 DEF ItemAt, Offered
<1>12. ASSUME Finish(env) PROVE Len(Unread(b)) = 1
  <2>1. /\ issued_q[b] = expected_q[b] /\ expected_q[b] = consumed_q[b] + 1
        /\ produced_q[b] <= expected_q[b]
    BY <1>1, <1>3, <1>12, FinishFacts, Positions DEF b
  <2> QED BY <1>4, <1>6, <2>1
<1> QED BY <1>2, <1>3, <1>8, <1>9, <1>11, <1>12 DEF b

\* The items of a bank after an edge.
LEMMA ItemsMove ==
  ASSUME IInv, NEW env \in Environment, Moved(env), MemMoved(env),
         NEW b \in Banks, allocated_q[b], NEW a \in Nat,
         a < produced_q[b] \/ (Writes(b) /\ a = produced_q[b])
  PROVE  ItemAt(b, a)' = IF a < produced_q[b] THEN ItemAt(b, a) ELSE NewItem
<1>1. ~Allocs(env, b)
  BY BankEvents
<1>2. epoch_q'[b] = epoch_q[b] /\ expected_q'[b] = expected_q[b]
  BY <1>1 DEF Moved, OwnerMoved
<1>3. a \in 0 .. DEPTH - 1
  <2>1. Writes(b) => produced_q[b] < expected_q[b]
    BY BankEvents
  <2> QED BY <2>1, Positions
<1>4. mem'[b][a] = IF Writes(b) /\ a = produced_q[b] THEN raw_vector
                   ELSE mem[b][a]
  BY <1>3 DEF MemMoved
<1>5. ItemAt(b, a)' = [data |-> mem'[b][a], bank |-> b, epoch |-> epoch_q[b],
                       last |-> a + 1 = expected_q[b]]
  BY <1>2 DEF ItemAt
<1>6. CASE a < produced_q[b]
  <2>1. a # produced_q[b]
    BY <1>6, Positions
  <2> QED BY <1>4, <1>5, <1>6, <2>1 DEF ItemAt
<1>7. CASE ~(a < produced_q[b])
  <2>1. Writes(b) /\ a = produced_q[b] /\ b = fill_bank_q /\ Write
    BY <1>7 DEF Writes
  <2>2. /\ epoch_q[b] = fill_epoch_q
        /\ pending_last_pixel = (a + 1 = expected_q[b])
    BY <2>1, WrittenIs
  <2>3. mem'[b][a] = raw_vector
    BY <1>4, <2>1
  <2> QED BY <1>5, <1>7, <2>1, <2>2, <2>3 DEF NewItem
<1> QED BY <1>6, <1>7

UnreadFacts ==
  WInv =>
    \A b \in Banks :
      allocated_q[b] =>
        /\ Unread(b) \in Seq(Item)
        /\ Len(Unread(b)) = produced_q[b] - consumed_q[b]
        /\ \A k \in 1 .. Len(Unread(b)), a \in Nat :
             a = consumed_q[b] + k - 1 => Unread(b)[k] = ItemAt(b, a)

LEMMA UnreadNow == UnreadFacts
BY UnreadIs, UnreadTyped DEF UnreadFacts, WInv

LEMMA UnreadNext == UnreadFacts'
BY UnreadNow, PTL

\* A bank's unread vectors after an edge: the first may be taken, one written.
LEMMA UnreadMoves ==
  ASSUME WInv, WInv', NEW env \in Environment, Moved(env), MemMoved(env),
         NEW b \in Banks, allocated_q[b], allocated_q'[b]
  PROVE  Unread(b)' = LineAfter(Unread(b), Pops(env, b), Writes(b), NewItem)
<1> DEFINE q == Unread(b)  gone == Pops(env, b)  comes == Writes(b)
           c == consumed_q[b]  p == produced_q[b]  g == One(gone)  w == One(comes)
<1>1. IInv
  BY DEF WInv
<1>2. /\ q \in Seq(Item) /\ Len(q) = p - c
      /\ \A k \in 1 .. Len(q), a \in Nat :
           a = c + k - 1 => q[k] = ItemAt(b, a)
  BY UnreadNow DEF UnreadFacts
<1>3. PICK r : r = Unread(b)'
  OBVIOUS
<1>4. PICK cc : cc = consumed_q'[b]
  OBVIOUS
<1>5. PICK pp : pp = produced_q'[b]
  OBVIOUS
<1>6. /\ r \in Seq(Item) /\ Len(r) = pp - cc
      /\ \A k \in 1 .. Len(r), a \in Nat :
           a = cc + k - 1 => r[k] = ItemAt(b, a)'
  <2>1. /\ Unread(b)' \in Seq(Item)
        /\ Len(Unread(b)') = produced_q'[b] - consumed_q'[b]
        /\ \A k \in 1 .. Len(Unread(b)'), a \in Nat :
             a = consumed_q'[b] + k - 1 => Unread(b)'[k] = ItemAt(b, a)'
    BY UnreadNext DEF UnreadFacts
  <2> QED BY <1>3, <1>4, <1>5, <2>1
<1>7. gone \in BOOLEAN /\ comes \in BOOLEAN
  BY <1>1, Regs, EnvTypes DEF Pops, Pop, Writes, Write, IInv
<1>8. g \in {0, 1} /\ w \in {0, 1} /\ (w = 1 => comes) /\ (comes => w = 1)
      /\ (gone => g = 1) /\ (g = 1 => gone)
  BY <1>7, Ones
<1>9. cc = c + g /\ pp = p + w
  <2>1. ~Allocs(env, b)
    BY <1>1, BankEvents
  <2>2. /\ cc = IF gone THEN c + 1 ELSE c
        /\ pp = IF comes THEN p + 1 ELSE p
    BY <1>4, <1>5, <2>1 DEF Moved, CreditMoved
  <2>3. c \in Nat /\ p \in Nat
    BY <1>1, Positions
  <2> HIDE DEF c, p, g, w, gone, comes
  <2> QED BY <1>7, <1>8, <2>2, <2>3
<1>10. c \in Nat /\ p \in Nat /\ c <= p /\ (gone => c < p)
  <2>1. gone => issued_q[b] = c + 1
    BY <1>1, BankEvents
  <2> HIDE DEF gone
  <2> QED BY <1>1, <2>1, Positions
<1>11. gone => q # <<>>
  <2>1. ASSUME gone, q = <<>> PROVE FALSE
    <3>1. Len(q) = 0
      BY <2>1
    <3> HIDE DEF q, c, p
    <3> QED BY <1>2, <1>10, <2>1, <3>1
  <2> QED BY <2>1
<1>12. \A a \in Nat : a < p \/ (comes /\ a = p) =>
         ItemAt(b, a)' = IF a < p THEN ItemAt(b, a) ELSE NewItem
  BY <1>1, ItemsMove
<1> HIDE DEF q, gone, comes, c, p, g, w
<1>13. ASSUME NEW k \in 1 .. Len(r)
       PROVE  r[k] = IF k + g <= Len(q) THEN q[k + g] ELSE NewItem
  <2> PICK a : a = c + g + k - 1
    OBVIOUS
  <2>0. /\ k \in Nat /\ k >= 1 /\ k <= (p + w) - (c + g) /\ Len(q) = p - c
        /\ a = cc + k - 1
    BY <1>2, <1>6, <1>8, <1>9, <1>10
  <2>1. a \in Nat /\ (a < p \/ (comes /\ a = p)) /\ (a < p <=> k + g <= Len(q))
    BY <1>8, <1>10, <2>0
  <2>2. r[k] = ItemAt(b, a)'
    BY <1>6, <2>0, <2>1
  <2>3. ItemAt(b, a)' = IF a < p THEN ItemAt(b, a) ELSE NewItem
    BY <1>12, <2>1
  <2>4. ASSUME k + g <= Len(q) PROVE q[k + g] = ItemAt(b, a)
    <3>1. k + g \in 1 .. Len(q) /\ a = c + (k + g) - 1
      BY <1>8, <1>10, <2>0, <2>4
    <3> QED BY <1>2, <2>1, <3>1
  <2> QED BY <2>1, <2>2, <2>3, <2>4
<1>14. Len(r) = Len(q) - g + w
  BY <1>2, <1>6, <1>8, <1>9, <1>10
<1>15. comes => NewItem \in Item
  BY <1>1, WrittenIs DEF comes, Writes
<1>16. r = LineAfter(q, gone, comes, NewItem)
  BY <1>15, <1>2, <1>6, <1>7, <1>11, <1>13, <1>14, LineIs DEF g, w
<1> QED BY <1>3, <1>16 DEF q, gone, comes

\* A bank that is just allocated has no unread vectors.
LEMMA UnreadStarts ==
  ASSUME IInv, NEW env, Moved(env), NEW b \in Banks, Allocs(env, b)
  PROVE  Unread(b)' = <<>>
<1>1. produced_q'[b] = 0 /\ consumed_q'[b] = 0
  <2>1. ~Writes(b) /\ ~Pops(env, b)
    BY BankEvents
  <2> QED BY <2>1 DEF Moved, CreditMoved
<1>2. PICK n : n = produced_q'[b] - consumed_q'[b]
  OBVIOUS
<1>3. n = 0
  BY <1>1, <1>2
<1>4. \A e : [k \in 1 .. 0 |-> e[k]] = <<>>
  OBVIOUS
<1> QED BY <1>1 DEF Unread

\* The stream waits in the reader's bank, then in the queued context's.
ReaderPart == IF reader_active_q THEN Unread(reader_bank_q) ELSE <<>>
QueuePart == IF context_queue # <<>> THEN Unread(Head(context_queue).bank)
             ELSE <<>>

PartsFact ==
  WInv => /\ ReaderPart \in Seq(Item) /\ QueuePart \in Seq(Item)
          /\ Waiting = ReaderPart \o QueuePart

\* The reader and the queued context have banks.
LEMMA Owners ==
  ASSUME IInv
  PROVE  /\ reader_active_q =>
              reader_bank_q \in Banks /\ allocated_q[reader_bank_q]
         /\ context_queue # <<>> =>
              /\ Head(context_queue).bank \in Banks
              /\ allocated_q[Head(context_queue).bank]
<1>1. reader_active_q => reader_bank_q \in Banks /\ allocated_q[reader_bank_q]
  BY Regs DEF IInv, Owned, ReaderOwns
<1>2. ASSUME context_queue # <<>>
      PROVE  /\ Head(context_queue).bank \in Banks
             /\ allocated_q[Head(context_queue).bank]
  <2>1. Head(context_queue) \in Desc
    BY <1>2, QueueShort DEF IInv
  <2> QED BY <1>2, <2>1 DEF Desc, IInv, Owned, QueueOwns
<1> QED BY <1>1, <1>2

LEMMA PartsNow == PartsFact
<1> SUFFICES ASSUME WInv
             PROVE  /\ ReaderPart \in Seq(Item) /\ QueuePart \in Seq(Item)
                    /\ Waiting = ReaderPart \o QueuePart
  BY DEF PartsFact
<1>1. IInv
  BY DEF WInv
<1>2. ReaderPart \in Seq(Item) /\ QueuePart \in Seq(Item)
  <2>1. <<>> \in Seq(Item)
    OBVIOUS
  <2> QED BY <1>1, <2>1, Owners, UnreadTyped DEF ReaderPart, QueuePart
<1>3. CASE reader_active_q /\ context_queue # <<>>
  <2>1. PICK x, y : x = reader_bank_q /\ y = Head(context_queue).bank
    OBVIOUS
  <2>2. ReadOrder = <<x, y>>
    BY <1>1, <1>3, <2>1, ReadOrderIs
  <2>3. Waiting = Unread(x) \o Unread(y)
    BY <2>2 DEF Waiting
  <2> QED BY <1>2, <1>3, <2>1, <2>3 DEF ReaderPart, QueuePart
<1>4. CASE reader_active_q /\ context_queue = <<>>
  <2>1. PICK x : x = reader_bank_q
    OBVIOUS
  <2>2. ReadOrder = <<x>>
    BY <1>1, <1>4, <2>1, ReadOrderIs
  <2>3. Waiting = Unread(x)
    BY <2>2 DEF Waiting
  <2>4. ReaderPart = Unread(x) /\ QueuePart = <<>>
    BY <1>4, <2>1 DEF ReaderPart, QueuePart
  <2> QED BY <1>2, <2>3, <2>4, ConcatEmptySeq
<1>5. CASE ~reader_active_q /\ context_queue # <<>>
  <2>1. PICK y : y = Head(context_queue).bank
    OBVIOUS
  <2>2. ReadOrder = <<y>>
    BY <1>1, <1>5, <2>1, ReadOrderIs
  <2>3. Waiting = Unread(y)
    BY <2>2 DEF Waiting
  <2>4. ReaderPart = <<>> /\ QueuePart = Unread(y)
    BY <1>5, <2>1 DEF ReaderPart, QueuePart
  <2> QED BY <1>2, <2>3, <2>4, ConcatEmptySeq
<1>6. CASE ~reader_active_q /\ context_queue = <<>>
  <2>1. ReadOrder = <<>>
    BY <1>1, <1>6, ReadOrderIs
  <2>2. Waiting = <<>>
    BY <2>1 DEF Waiting
  <2>3. ReaderPart = <<>> /\ QueuePart = <<>>
    BY <1>6 DEF ReaderPart, QueuePart
  <2> QED BY <1>2, <2>2, <2>3, ConcatEmptySeq
<1>7. reader_active_q \in BOOLEAN
  BY <1>1, Regs
<1> QED BY <1>2, <1>3, <1>4, <1>5, <1>6, <1>7

LEMMA PartsNext == PartsFact'
BY PartsNow, PTL

Joined(s, t, gone, comes, x) ==
  LineAfter(s, gone, FALSE, x) \o LineAfter(t, FALSE, comes, x)
    = LineAfter(s \o t, gone, comes, x)

\* Two lines, one behind the other, are one line.
LEMMA LineOfTwo ==
  ASSUME NEW S, NEW s \in Seq(S), NEW t \in Seq(S), NEW gone \in BOOLEAN,
         gone => s # <<>>, NEW comes \in BOOLEAN, NEW x, comes => x \in S
  PROVE  /\ Joined(s, t, gone, comes, x)
         /\ LineAfter(s, gone, comes, x) \o <<>> = LineAfter(s, gone, comes, x)
         /\ s # <<>> => s \o t # <<>> /\ Head(s \o t) = Head(s)
<1> DEFINE p == IF gone THEN Tail(s) ELSE s
           u == IF comes THEN <<x>> ELSE <<>>
<1>1. p \in Seq(S) /\ u \in Seq(S) /\ s \o t \in Seq(S)
  <2>1. s # <<>> => Tail(s) \in Seq(S)
    BY HeadTailProperties
  <2>2. <<>> \in Seq(S) /\ (comes => <<x>> \in Seq(S))
    OBVIOUS
  <2>3. s \o t \in Seq(S)
    BY ConcatProperties, Zenon
  <2> QED BY <2>1, <2>2, <2>3
<1>2. ASSUME s # <<>>
      PROVE  s \o t # <<>> /\ Head(s \o t) = Head(s) /\ Tail(s \o t) = Tail(s) \o t
  <2>1. /\ Len(s \o t) = Len(s) + Len(t)
        /\ \A k \in 1 .. Len(s) + Len(t) :
             (s \o t)[k] = IF k <= Len(s) THEN s[k] ELSE t[k - Len(s)]
    BY ConcatProperties, Zenon
  <2>2. /\ Tail(s) \in Seq(S) /\ Len(Tail(s)) = Len(s) - 1
        /\ \A k \in 1 .. Len(Tail(s)) : Tail(s)[k] = s[k + 1]
    BY <1>2, HeadTailProperties
  <2>3. Len(s) \in Nat \ {0} /\ Len(t) \in Nat
    BY <1>2, EmptySeq
  <2>4. s \o t # <<>>
    <3>1. Len(s \o t) # 0
      BY <2>1, <2>3
    <3> QED BY <3>1
  <2>5. Head(s \o t) = Head(s)
    <3>1. 1 \in 1 .. Len(s) + Len(t) /\ 1 <= Len(s)
      BY <2>3
    <3>2. (s \o t)[1] = s[1]
      BY <2>1, <3>1
    <3>3. Head(s \o t) = (s \o t)[1] /\ Head(s) = s[1]
      BY <1>1, <1>2, <2>4
    <3> QED BY <3>2, <3>3
  <2>6. /\ Tail(s \o t) \in Seq(S) /\ Len(Tail(s \o t)) = Len(s \o t) - 1
        /\ \A k \in 1 .. Len(Tail(s \o t)) : Tail(s \o t)[k] = (s \o t)[k + 1]
    BY <1>1, <2>4, HeadTailProperties, Zenon
  <2>7. /\ Tail(s) \o t \in Seq(S) /\ Len(Tail(s) \o t) = Len(Tail(s)) + Len(t)
        /\ \A k \in 1 .. Len(Tail(s)) + Len(t) :
             (Tail(s) \o t)[k] = IF k <= Len(Tail(s)) THEN Tail(s)[k]
                                 ELSE t[k - Len(Tail(s))]
    BY <2>2, ConcatProperties, Zenon
  <2> DEFINE l == Len(s)  m == Len(t)
  <2>8. Len(Tail(s \o t)) = l + m - 1 /\ Len(Tail(s) \o t) = l - 1 + m
    BY <2>1, <2>2, <2>6, <2>7
  <2>9. ASSUME NEW k \in 1 .. Len(Tail(s \o t))
        PROVE  Tail(s \o t)[k] = (Tail(s) \o t)[k]
    <3> HIDE DEF l, m
    <3>0. l \in Nat \ {0} /\ m \in Nat
      BY <2>3 DEF l, m
    <3>1. k \in 1 .. l - 1 + m /\ k + 1 \in 1 .. l + m /\ k \in Nat
      BY <2>8, <3>0
    <3>2. Tail(s \o t)[k] = IF k + 1 <= l THEN s[k + 1] ELSE t[k + 1 - l]
      BY <2>1, <2>6, <3>1 DEF l, m
    <3>3. (Tail(s) \o t)[k] = IF k <= l - 1 THEN Tail(s)[k] ELSE t[k - (l - 1)]
      BY <2>2, <2>7, <3>1 DEF l, m
    <3>4. k + 1 <= l => Tail(s)[k] = s[k + 1]
      <4>1. k + 1 <= l => k \in 1 .. l - 1
        BY <3>0, <3>1
      <4> QED BY <2>2, <4>1 DEF l
    <3>5. k - (l - 1) = k + 1 - l /\ (k + 1 <= l <=> k <= l - 1)
      BY <3>0, <3>1
    <3> QED BY <3>2, <3>3, <3>4, <3>5
  <2>10. Len(Tail(s \o t)) = Len(Tail(s) \o t)
    <3> HIDE DEF l, m
    <3> QED BY <2>3, <2>8 DEF l, m
  <2>11. Tail(s \o t) = Tail(s) \o t
    BY <2>6, <2>7, <2>9, <2>10, SeqEqual
  <2> QED BY <2>4, <2>5, <2>11
<1>3. LineAfter(s \o t, gone, comes, x) = (p \o t) \o u
  BY <1>2 DEF LineAfter
<1>4. LineAfter(s, gone, FALSE, x) = p /\ LineAfter(t, FALSE, comes, x) = t \o u
  <2>1. LineAfter(s, gone, FALSE, x) = p \o <<>>
    BY DEF LineAfter
  <2>2. p \o <<>> = p
    BY <1>1, ConcatEmptySeq
  <2> QED BY <2>1, <2>2 DEF LineAfter
<1>5. LineAfter(s, gone, comes, x) = p \o u
  BY DEF LineAfter
<1> HIDE DEF p, u
<1>6. (p \o t) \o u = p \o (t \o u)
  BY <1>1, ConcatAssociative
<1>7. p \o u \in Seq(S)
  BY <1>1, ConcatProperties, Zenon
<1>8. (p \o u) \o <<>> = p \o u
  BY <1>7, ConcatEmptySeq
<1> QED BY <1>2, <1>3, <1>4, <1>5, <1>6, <1>8 DEF Joined

\* The reader's bank after an edge that selects no context.
LEMMA ReaderPartMoves ==
  ASSUME WInv, WInv', NEW env \in Environment, Moved(env), MemMoved(env),
         ~Select(env)
  PROVE  ReaderPart' = LineAfter(ReaderPart, Pop(env),
                                 Write /\ Reads(fill_bank_q), NewItem)
<1>1. IInv /\ IInv'
  BY DEF WInv
<1>2. /\ reader_active_q' <=> reader_active_q /\ ~Finish(env)
      /\ reader_bank_q' = reader_bank_q
  BY DEF Moved, ReaderMoved
<1>3. Pop(env) => reader_active_q
  BY TakenIs
<1>4. ASSUME Finish(env)
      PROVE  /\ Pop(env) /\ ~(Write /\ Reads(fill_bank_q))
             /\ ReaderPart \in Seq(Item) /\ Len(ReaderPart) = 1
  <2>1. Pop(env) /\ reader_active_q
    BY <1>3, <1>4 DEF Finish
  <2>2. issued_q[reader_bank_q] = expected_q[reader_bank_q]
    BY <1>1, <1>4, FinishFacts
  <2>3. ~(Write /\ Reads(fill_bank_q))
    <3>1. Write => issued_q[fill_bank_q] < expected_q[fill_bank_q]
      BY <1>1 DEF Write, IInv, Filled
    <3>2. issued_q[reader_bank_q] \in Nat /\ expected_q[reader_bank_q] \in Nat
      BY <1>1, Regs
    <3>3. ~(issued_q[reader_bank_q] < expected_q[reader_bank_q])
      BY <2>2, <3>2
    <3> QED BY <3>1, <3>3 DEF Reads
  <2>4. ReaderPart \in Seq(Item)
    BY PartsNow DEF PartsFact
  <2>5. Len(Unread(reader_bank_q)) = 1
    BY <1>4, <2>1, TakenIs
  <2> QED BY <2>1, <2>3, <2>4, <2>5 DEF ReaderPart
<1>5. CASE Finish(env)
  <2>1. ReaderPart' = <<>>
    BY <1>2, <1>5 DEF ReaderPart
  <2>2. Tail(ReaderPart) = <<>>
    BY <1>4, <1>5, OneItem
  <2>3. <<>> \o <<>> = <<>>
    OBVIOUS
  <2> QED BY <1>4, <1>5, <2>1, <2>2, <2>3 DEF LineAfter
<1>6. CASE reader_active_q /\ ~Finish(env)
  <2>1. PICK b : b = reader_bank_q
    OBVIOUS
  <2>2. b \in Banks /\ allocated_q[b]
    BY <1>1, <1>6, <2>1, Owners
  <2>3. b = reader_bank_q' /\ reader_active_q'
    BY <1>2, <1>6, <2>1
  <2>4. allocated_q'[b]
    <3>1. ~Releases(b)
      BY <1>1, <1>6, <2>1 DEF IInv, Owned, ReaderOwns
    <3> QED BY <2>2, <3>1 DEF Moved, OwnerMoved
  <2>5. Unread(b)' = LineAfter(Unread(b), Pops(env, b), Writes(b), NewItem)
    BY <2>2, <2>4, UnreadMoves
  <2>6. /\ Pops(env, b) <=> Pop(env)
        /\ Writes(b) <=> Write /\ Reads(fill_bank_q)
    BY <1>6, <2>1 DEF Pops, Writes, Reads
  <2>7. ReaderPart = Unread(b)
    BY <1>6, <2>1 DEF ReaderPart
  <2>8. ReaderPart' = Unread(b)'
    BY <2>3 DEF ReaderPart, Unread
  <2> QED BY <2>5, <2>6, <2>7, <2>8 DEF LineAfter
<1>7. CASE ~reader_active_q
  <2>1. ReaderPart' = <<>> /\ ReaderPart = <<>>
    BY <1>2, <1>7 DEF ReaderPart
  <2>2. ~Pop(env) /\ ~Reads(fill_bank_q)
    BY <1>3, <1>7 DEF Reads
  <2>3. <<>> \o <<>> = <<>>
    OBVIOUS
  <2> QED BY <2>1, <2>2, <2>3 DEF LineAfter
<1>8. reader_active_q \in BOOLEAN
  BY <1>1, Regs
<1> QED BY <1>5, <1>6, <1>7, <1>8

\* The bank of the queued context after such an edge.
LEMMA QueuePartMoves ==
  ASSUME WInv, WInv', NEW env \in Environment, Moved(env), MemMoved(env),
         ~Select(env)
  PROVE  QueuePart' = LineAfter(QueuePart, FALSE,
                                Write /\ Queues(fill_bank_q), NewItem)
<1>1. IInv /\ IInv'
  BY DEF WInv
<1>2. /\ Alloc(env) => context_queue' = <<[bank |-> alloc_bank_q,
                                           epoch |-> alloc_epoch_q,
                                           expected |-> num_pixels]>>
      /\ ~Alloc(env) => context_queue' = context_queue
  BY DEF Moved, QueueMoved
<1>3. <<>> \o <<>> = <<>>
  OBVIOUS
<1>4. CASE Alloc(env)
  <2>1. PICK b : b = alloc_bank_q
    OBVIOUS
  <2>2. b \in Banks /\ Allocs(env, b) /\ context_queue = <<>>
    BY <1>1, <1>4, <2>1, Regs, QueueShort DEF Allocs, Alloc, IInv
  <2>3. Unread(b)' = <<>>
    BY <1>1, <2>2, UnreadStarts
  <2>4. context_queue' # <<>> /\ Head(context_queue').bank = b
    BY <1>2, <1>4, <2>1
  <2>5. QueuePart' = Unread(b)'
    BY <2>4 DEF QueuePart, Unread
  <2>6. QueuePart = <<>> /\ ~Queues(fill_bank_q)
    BY <2>2 DEF QueuePart, Queues
  <2> QED BY <1>3, <2>3, <2>5, <2>6 DEF LineAfter
<1>5. CASE ~Alloc(env) /\ context_queue # <<>>
  <2>1. PICK b : b = Head(context_queue).bank
    OBVIOUS
  <2>2. /\ b \in Banks /\ allocated_q[b] /\ ~Releases(b) /\ ~Reads(b)
    BY <1>1, <1>5, <2>1, Owners DEF IInv, Owned, QueueOwns
  <2>3. allocated_q'[b]
    BY <2>2 DEF Moved, OwnerMoved
  <2>4. Unread(b)' = LineAfter(Unread(b), Pops(env, b), Writes(b), NewItem)
    BY <2>2, <2>3, UnreadMoves
  <2>5. /\ ~Pops(env, b)
        /\ Writes(b) <=> Write /\ Queues(fill_bank_q)
    <3>1. ~Pops(env, b)
      BY <1>1, <2>2, BankEvents
    <3> QED BY <1>5, <2>1, <3>1 DEF Writes, Queues
  <2>6. QueuePart = Unread(b)
    BY <1>5, <2>1 DEF QueuePart
  <2>7. b = Head(context_queue').bank /\ context_queue' # <<>>
    BY <1>2, <1>5, <2>1
  <2>8. QueuePart' = Unread(b)'
    BY <2>7 DEF QueuePart, Unread
  <2> QED BY <2>4, <2>5, <2>6, <2>8 DEF LineAfter
<1>6. CASE ~Alloc(env) /\ context_queue = <<>>
  <2>1. QueuePart' = <<>> /\ QueuePart = <<>> /\ ~Queues(fill_bank_q)
    BY <1>2, <1>6 DEF QueuePart, Queues
  <2> QED BY <1>3, <2>1 DEF LineAfter
<1> QED BY <1>4, <1>5, <1>6

\* The selected context's bank becomes the reader's, which was read dry.
LEMMA SelectedPart ==
  ASSUME WInv, WInv', NEW env \in Environment, Moved(env), MemMoved(env),
         Select(env)
  PROVE  /\ ReaderPart' = LineAfter(QueuePart, FALSE, Write, NewItem)
         /\ QueuePart' = <<>>
         /\ IF Pop(env) THEN Len(ReaderPart) = 1 ELSE ReaderPart = <<>>
<1>1. IInv /\ IInv'
  BY DEF WInv
<1>2. PICK b : b = Head(context_queue).bank
  OBVIOUS
<1>3. /\ context_queue # <<>> /\ b \in Banks /\ allocated_q[b]
      /\ ~Reads(b) /\ ~Releases(b)
  BY <1>1, <1>2, SelectFacts
<1>4. context_queue' = <<>> /\ reader_active_q' /\ reader_bank_q' = b
  BY <1>2 DEF Moved, QueueMoved, ReaderMoved
<1>5. allocated_q'[b]
  BY <1>3 DEF Moved, OwnerMoved
<1>6. Unread(b)' = LineAfter(Unread(b), Pops(env, b), Writes(b), NewItem)
  BY <1>3, <1>5, UnreadMoves
<1>7. ~Pops(env, b)
  BY <1>1, <1>3, BankEvents
<1>8. Writes(b) <=> Write
  <2>1. Write => fill_bank_q = b
    BY <1>1, <1>2, <1>3, WrittenIs DEF Queues
  <2> QED BY <2>1 DEF Writes
<1>9. ReaderPart' = Unread(b)' /\ QueuePart' = <<>>
  <2>1. ReaderPart' = Unread(b)'
    BY <1>4 DEF ReaderPart, Unread
  <2> QED BY <1>4, <2>1 DEF QueuePart
<1>10. QueuePart = Unread(b)
  BY <1>2, <1>3 DEF QueuePart
<1>11. ~reader_active_q \/ Finish(env)
  BY DEF Select
<1>12. Pop(env) => /\ Finish(env) /\ reader_active_q
                   /\ Len(Unread(reader_bank_q)) = 1
  BY <1>11, TakenIs
<1>13. ~Pop(env) => ~reader_active_q
  BY <1>11 DEF Finish
<1>14. IF Pop(env) THEN Len(ReaderPart) = 1 ELSE ReaderPart = <<>>
  BY <1>12, <1>13 DEF ReaderPart
<1> QED BY <1>6, <1>7, <1>8, <1>9, <1>10, <1>14 DEF LineAfter

\* What waits moves like one queue.
LEMMA WaitingMoves ==
  ASSUME WInv, WInv', NEW env \in Environment, Moved(env), MemMoved(env)
  PROVE  /\ Waiting \in Seq(Item)
         /\ Waiting' = LineAfter(Waiting, Pop(env), Write, NewItem)
         /\ Pop(env) => Waiting # <<>> /\ Head(Waiting) = Offered
<1>1. IInv
  BY DEF WInv
<1> DEFINE R == ReaderPart  Q == QueuePart  pop == Pop(env)  wr == Write
<1>2. R \in Seq(Item) /\ Q \in Seq(Item) /\ Waiting = R \o Q
  BY PartsNow DEF PartsFact
<1>3. Waiting' = ReaderPart' \o QueuePart'
  BY PartsNext DEF PartsFact
<1>4. pop \in BOOLEAN /\ wr \in BOOLEAN
  BY <1>1, Regs, EnvTypes DEF Pop, Write, IInv
<1>5. pop => R # <<>> /\ Head(R) = Offered
  BY TakenIs DEF ReaderPart
<1>6. Waiting \in Seq(Item)
  BY <1>2, ConcatProperties, Zenon
<1>7. pop => Waiting # <<>> /\ Head(Waiting) = Offered
  <2>1. R # <<>> => R \o Q # <<>> /\ Head(R \o Q) = Head(R)
    BY <1>2, LineOfTwo
  <2> QED BY <1>2, <1>5, <2>1
<1>11. wr => NewItem \in Item
  BY <1>1, WrittenIs
<1>10. LineAfter(R, pop, FALSE, NewItem) \o LineAfter(Q, FALSE, wr, NewItem)
         = LineAfter(R \o Q, pop, wr, NewItem)
  <2>1. R \in Seq(Item) /\ Q \in Seq(Item) /\ (pop => R # <<>>)
    BY <1>2, <1>5
  <2> HIDE DEF R, Q, pop, wr
  <2>2. Joined(R, Q, pop, wr, NewItem)
    BY <1>4, <1>11, <2>1, LineOfTwo
  <2> QED BY <2>2 DEF Joined
<1>8. CASE Select(env)
  <2>1. /\ ReaderPart' = LineAfter(Q, FALSE, wr, NewItem) /\ QueuePart' = <<>>
        /\ IF pop THEN Len(R) = 1 ELSE R = <<>>
    BY <1>8, SelectedPart
  <2>2. LineAfter(Q, FALSE, wr, NewItem) \o <<>>
          = LineAfter(Q, FALSE, wr, NewItem)
    BY <1>2, <1>4, <1>11, LineOfTwo
  <2>3. LineAfter(R, pop, FALSE, NewItem) = <<>>
    <3>1. pop => Tail(R) = <<>>
      BY <1>2, <2>1, OneItem
    <3>2. <<>> \o <<>> = <<>>
      OBVIOUS
    <3> QED BY <2>1, <3>1, <3>2 DEF LineAfter
  <2>5. LineAfter(Q, FALSE, wr, NewItem) \in Seq(Item)
    BY <1>2, <1>4, <1>11, LineMoves
  <2> HIDE DEF R, Q, pop, wr
  <2>6. <<>> \o LineAfter(Q, FALSE, wr, NewItem) = LineAfter(Q, FALSE, wr, NewItem)
    BY <2>5, ConcatEmptySeq
  <2> QED BY <1>2, <1>3, <1>6, <1>7, <1>10, <2>1, <2>2, <2>3, <2>6 DEF pop, wr
<1>9. CASE ~Select(env)
  <2>1. ReaderPart' = LineAfter(R, pop, wr /\ Reads(fill_bank_q), NewItem)
    BY <1>9, ReaderPartMoves
  <2>2. QueuePart' = LineAfter(Q, FALSE, wr /\ Queues(fill_bank_q), NewItem)
    BY <1>9, QueuePartMoves
  <2>3. wr => \/ Queues(fill_bank_q)
              \/ context_queue = <<>> /\ Reads(fill_bank_q)
    BY <1>1, WrittenIs
  <2>4. Queues(fill_bank_q) => context_queue # <<>> /\ ~Reads(fill_bank_q)
    BY <1>1 DEF Queues, IInv, Owned, QueueOwns
  <2>5. CASE ~wr \/ Queues(fill_bank_q)
    <3>1. /\ (wr /\ Reads(fill_bank_q)) = FALSE
          /\ (wr /\ Queues(fill_bank_q)) = wr
      BY <1>4, <2>4, <2>5
    <3> HIDE DEF R, Q, pop, wr
    <3> QED BY <1>2, <1>3, <1>6, <1>7, <1>10, <2>1, <2>2, <3>1 DEF pop, wr
  <2>6. CASE wr /\ ~Queues(fill_bank_q)
    <3>1. context_queue = <<>> /\ Reads(fill_bank_q)
      BY <2>3, <2>6
    <3>2. Q = <<>>
      BY <3>1 DEF QueuePart
    <3>3. /\ (wr /\ Reads(fill_bank_q)) = wr
          /\ (wr /\ Queues(fill_bank_q)) = FALSE
      BY <1>4, <2>6, <3>1
    <3>4. LineAfter(Q, FALSE, FALSE, NewItem) = <<>>
      <4>1. <<>> \o <<>> = <<>>
        OBVIOUS
      <4> QED BY <3>2, <4>1 DEF LineAfter
    <3>5. LineAfter(R, pop, wr, NewItem) \o <<>> = LineAfter(R, pop, wr, NewItem)
      BY <1>2, <1>4, <1>5, <1>11, LineOfTwo
    <3>6. R \o Q = R
      BY <1>2, <3>2, ConcatEmptySeq
    <3> HIDE DEF R, Q, pop, wr
    <3> QED BY <1>2, <1>3, <1>6, <1>7, <2>1, <2>2, <3>3, <3>4, <3>5, <3>6
            DEF pop, wr
  <2> QED BY <2>5, <2>6
<1> QED BY <1>8, <1>9

\* A vector is written only into a bank that is not full.
LEMMA RoomToWrite ==
  ASSUME WInv, Write
  PROVE  Len(Waiting) < 2 * DEPTH
<1>1. IInv
  BY DEF WInv
<1>2. /\ ReaderPart \in Seq(Item) /\ QueuePart \in Seq(Item)
      /\ Waiting = ReaderPart \o QueuePart
  BY PartsNow DEF PartsFact
<1>3. Len(Waiting) = Len(ReaderPart) + Len(QueuePart)
  BY <1>2, ConcatProperties, Zenon
<1>4. DEPTH \in Nat /\ DEPTH # 0 /\ Len(<<>>) = 0
  BY DepthAssumption
<1>5. ASSUME NEW b \in Banks, allocated_q[b]
      PROVE  /\ Len(Unread(b)) \in 0 .. DEPTH
             /\ Writes(b) => Len(Unread(b)) < DEPTH
  <2>1. Len(Unread(b)) = produced_q[b] - consumed_q[b]
    BY <1>1, <1>5, UnreadIs
  <2>2. Writes(b) => produced_q[b] < expected_q[b]
    BY <1>1, BankEvents
  <2> QED BY <1>1, <1>5, <2>1, <2>2, Positions
<1>6. /\ Len(ReaderPart) \in 0 .. DEPTH
      /\ Reads(fill_bank_q) => Len(ReaderPart) < DEPTH
  <2>1. CASE reader_active_q
    <3>1. ReaderPart = Unread(reader_bank_q)
      BY <2>1 DEF ReaderPart
    <3>2. reader_bank_q \in Banks /\ allocated_q[reader_bank_q]
      BY <1>1, <2>1, Owners
    <3>3. Reads(fill_bank_q) => Writes(reader_bank_q)
      BY DEF Reads, Writes
    <3> QED BY <1>5, <3>1, <3>2, <3>3
  <2>2. CASE ~reader_active_q
    BY <1>4, <2>2 DEF ReaderPart, Reads
  <2> QED BY <2>1, <2>2
<1>7. /\ Len(QueuePart) \in 0 .. DEPTH
      /\ Queues(fill_bank_q) => Len(QueuePart) < DEPTH
  <2>1. CASE context_queue # <<>>
    <3>1. QueuePart = Unread(Head(context_queue).bank)
      BY <2>1 DEF QueuePart
    <3>2. /\ Head(context_queue).bank \in Banks
          /\ allocated_q[Head(context_queue).bank]
      BY <1>1, <2>1, Owners
    <3>3. Queues(fill_bank_q) => Writes(Head(context_queue).bank)
      BY DEF Queues, Writes
    <3> QED BY <1>5, <3>1, <3>2, <3>3
  <2>2. CASE context_queue = <<>>
    BY <1>4, <2>2 DEF QueuePart, Queues
  <2> QED BY <2>1, <2>2
<1>8. Queues(fill_bank_q) \/ Reads(fill_bank_q)
  BY <1>1, WrittenIs
<1> QED BY <1>3, <1>4, <1>6, <1>7, <1>8

\* One edge is one step of the first-in first-out queue.
LEMMA StreamStep ==
  ASSUME WInv, NEW env \in Environment, Edge(env)
  PROVE  Stream!FifoNext
<1>1. IInv /\ WInv' /\ Moved(env) /\ MemMoved(env)
  BY WStep DEF WInv
<1>2. handed' = IF Pop(env) THEN Offered ELSE NoHand
  BY <1>1 DEF Moved, CoreMoved
<1>3. /\ Waiting \in Seq(Item)
      /\ Waiting' = LineAfter(Waiting, Pop(env), Write, NewItem)
      /\ Pop(env) => Waiting # <<>> /\ Head(Waiting) = Offered
  BY <1>1, WaitingMoves
<1> DEFINE P == IF Pop(env) THEN Tail(Waiting) ELSE Waiting
<1>4. P \in Seq(Item)
  BY <1>3, HeadTailProperties
<1>5. CASE ~Write
  <2>1. Waiting' = P \o <<>>
    BY <1>3, <1>5 DEF LineAfter
  <2>2. P \o <<>> = P
    <3> HIDE DEF P
    <3> QED BY <1>4, ConcatEmptySeq
  <2>3. Waiting' = P
    BY <2>1, <2>2
  <2>4. CASE Pop(env)
    BY <1>2, <1>3, <2>3, <2>4 DEF Stream!FifoNext, Stream!Take
  <2>5. CASE ~Pop(env)
    BY <1>2, <2>3, <2>5 DEF Stream!FifoNext, Stream!Idle
  <2> QED BY <2>4, <2>5
<1>6. CASE Write
  <2>1. NewItem \in Item /\ Len(Waiting) < 2 * DEPTH
    BY <1>1, <1>6, WrittenIs, RoomToWrite
  <2>2. PICK x \in Item : x = NewItem
    BY <2>1
  <2>3. Waiting' = P \o <<x>>
    BY <1>3, <1>6, <2>2 DEF LineAfter
  <2>4. Append(P, x) = P \o <<x>>
    <3> HIDE DEF P
    <3> QED BY <1>4, <2>2, AppendIsConcat
  <2>5. PICK w : w = Waiting'
    OBVIOUS
  <2>6. w = Append(P, x)
    BY <2>3, <2>4, <2>5
  <2>7. w # <<>> /\ w[Len(w)] = x
    <3> HIDE DEF P
    <3>1. /\ Append(P, x) # <<>> /\ Len(Append(P, x)) = Len(P) + 1
          /\ Append(P, x)[Len(P) + 1] = x
      BY <1>4, <2>2, AppendProperties
    <3> QED BY <2>6, <3>1
  <2>8. Waiting' # <<>> /\ Stream!Arrived \in Item
        /\ Waiting' = Append(P, Stream!Arrived)
    BY <2>2, <2>5, <2>6, <2>7 DEF Stream!Arrived
  <2>9. CASE Pop(env)
    <3>1. Waiting' = Append(Tail(Waiting), Stream!Arrived)
      BY <2>8, <2>9
    <3> QED BY <1>2, <1>3, <2>1, <2>8, <2>9, <3>1
            DEF Stream!FifoNext, Stream!PutTake, Item
  <2>10. CASE ~Pop(env)
    <3>1. Waiting' = Append(Waiting, Stream!Arrived)
      BY <2>8, <2>10
    <3> QED BY <1>2, <2>1, <2>8, <2>10, <3>1
            DEF Stream!FifoNext, Stream!Put, Item
  <2> QED BY <2>9, <2>10
<1> QED BY <1>5, <1>6

\* For every depth and set of vectors, the two banks, their lookahead ports and
\* the output slot are together one first-in first-out queue: each vector that
\* the loader wrote comes out once, in order, under its own context's bank,
\* epoch and last marker (ifm_vector_epoch_buffer.v, axis_ifm_vector_loader.v).
THEOREM VectorsStreamed == Spec => StreamSpec
<1>1. Init => Stream!FifoInit
  <2> SUFFICES ASSUME Init PROVE Stream!FifoInit
    OBVIOUS
  <2>1. ReadOrder = <<>>
    <3>1. IInv
      BY InitInv
    <3> QED BY <3>1, ReadOrderIs DEF Init, FrontendInit, BufferInit
  <2>2. Waiting = <<>>
    BY <2>1 DEF Waiting
  <2>3. handed = NoHand
    BY DEF Init
  <2> QED BY <2>2, <2>3 DEF Stream!FifoInit
<1>2. WInv /\ [Next]_vars => [Stream!FifoNext]_(Stream!fifoVars)
  <2> SUFFICES ASSUME WInv, [Next]_vars
               PROVE  [Stream!FifoNext]_(Stream!fifoVars)
    OBVIOUS
  <2>1. ASSUME NEW env \in Environment, Edge(env) PROVE Stream!FifoNext
    BY <2>1, StreamStep
  <2>2. CASE UNCHANGED vars
    <3>1. UNCHANGED <<Waiting, handed>>
      BY <2>2 DEF Waiting, ReadOrder, Unread, vars, frontendVars, bufferVars,
         ownerVars, creditVars, memVars, readerVars, computeVars
    <3> QED BY <3>1 DEF Stream!fifoVars
  <2> QED BY <2>1, <2>2 DEF Next
<1>3. Spec => Stream!FifoSpec
  BY <1>1, <1>2, WInit, WInductive, PTL DEF Spec, Stream!FifoSpec
<1> QED BY <1>3 DEF StreamSpec
=============================================================================
