----------------------------- MODULE VectorInput -----------------------------
(***************************************************************************)
(* The path of the input vectors: the request slot of                      *)
(* systolic/systolic_top_feeder.v and the loader of                        *)
(* systolic/axis_ifm_vector_loader.v around the front end and its buffer,  *)
(* between a scheduler that starts contexts, and a core and a collector    *)
(* that retire them in order.                                              *)
(*                                                                         *)
(* One action is one rising clock edge of all of them.  The three beats of *)
(* a vector are one arrival.  The scheduler samples a ready and raises a   *)
(* registered one-cycle pulse on the next edge, and it starts a context    *)
(* when the one before it was accepted by the core.  The core retires a    *)
(* context once its last vector was taken, the collector is done with it   *)
(* after that: the last sums are written on the edge that retires it.      *)
(***************************************************************************)
EXTENDS ContextFrontend

CONSTANT Payload(_, _)    \* Payload(e, i): what vector i of epoch e may be
ASSUME PayloadAssumption ==
  \A e \in Epochs, i \in 0 .. DEPTH - 1 : Payload(e, i) \subseteq Vector

VARIABLES
  vector_fill_req,                                  \* the feeder's request slot
  active, req_armed, pixel_index,                   \* the loader
  vector_pending, pending_last_pixel, raw_vector, packet_done,
  num_pixels, feeder_start, compute_start,          \* driven by the scheduler
  unrequested,    \* contexts started whose compute was not yet requested
  retiring,       \* contexts whose last vector the core has taken
  collecting,     \* contexts retired by the core, until collected
  handed          \* the vector the core took on the last edge, or NoHand

loaderVars == <<active, req_armed, pixel_index, vector_pending,
                pending_last_pixel, raw_vector, packet_done>>
environmentVars == <<num_pixels, feeder_start, compute_start, unrequested,
                     retiring, collecting>>
vars == <<frontendVars, vector_fill_req, loaderVars, environmentVars, handed>>

NoHand == [data |-> ZeroVector, bank |-> 0, epoch |-> 0, last |-> FALSE]

\* One context per request slot: the next start waits for the packet's end.
feeder_start_ready == frontend_start_ready /\ ~vector_fill_req
feeder_start_accept == feeder_start /\ feeder_start_ready

Init ==
  /\ FrontendInit
  /\ vector_fill_req = FALSE
  /\ active = FALSE /\ req_armed = TRUE /\ pixel_index = 0
  /\ vector_pending = FALSE /\ pending_last_pixel = FALSE
  /\ raw_vector = ZeroVector /\ packet_done = FALSE
  /\ num_pixels = 1 /\ feeder_start = FALSE /\ compute_start = FALSE
  /\ unrequested = 0 /\ retiring = <<>> /\ collecting = <<>>
  /\ handed = NoHand

FeederEdge ==
  vector_fill_req' =
    (feeder_start_accept \/ (vector_fill_req /\ ~packet_done))

\* Mutant: the last pixel of a packet is counted from one.
last_pixelLate == pixel_index = num_pixels

last_pixel == pixel_index + 1 = num_pixels

\* The loader serves one packet per rise of the request.
LoaderEdge(in) ==
  LET begins == ~active /\ vector_fill_req /\ req_armed /\ num_pixels # 0
      fires == vector_pending /\ fill_active_q /\ wr_ready(WritePort(in))
      ends == fires /\ pending_last_pixel
  IN /\ active' = ((active \/ begins) /\ ~ends)
     /\ req_armed' = ((req_armed \/ ~vector_fill_req) /\ ~begins)
     /\ pixel_index' = IF begins \/ ends THEN 0
                       ELSE IF fires THEN pixel_index + 1 ELSE pixel_index
     /\ packet_done' = ends
     /\ \/ /\ active /\ ~vector_pending /\ in.arrives
           /\ vector_pending' = TRUE /\ pending_last_pixel' = last_pixel
           /\ raw_vector' \in Payload(fill_epoch_q, pixel_index)
        \/ /\ ~(active /\ ~vector_pending /\ in.arrives)
           /\ vector_pending' = (vector_pending /\ ~fires)
           /\ UNCHANGED <<pending_last_pixel, raw_vector>>

\* The core has accepted every context that was started.
AllAccepted ==
  /\ unrequested = 0 /\ ~compute_start /\ ~compute_request_pending_q

\* No context of the previous layer is left anywhere.
Drained ==
  AllAccepted /\ collecting = <<>> /\ \A b \in Banks : ~allocated_q[b]

\* The scheduler pulses a start for n pixels, and then or later its compute
\* request.  The pixel count changes only from one layer to the next.
SchedulerEdge(n, requests) ==
  /\ n # 0 => feeder_start_ready /\ AllAccepted
  /\ n \notin {0, num_pixels} => Drained
  /\ requests => unrequested # 0 \/ n # 0
  /\ feeder_start' = (n # 0)
  /\ num_pixels' = IF n # 0 THEN n ELSE num_pixels
  /\ compute_start' = requests
  /\ unrequested' = unrequested + (IF n # 0 THEN 1 ELSE 0)
                                - (IF requests THEN 1 ELSE 0)

CoreEdge(in) ==
  LET finished == IF output_finishes_context(in.stream_ready)
                  THEN <<[bank |-> rd_bank_q, epoch |-> rd_epoch_q]>> ELSE <<>>
      rest(s, gone) == IF gone THEN Tail(s) ELSE s
  IN /\ retiring' = rest(retiring, in.retired.valid) \o finished
     /\ collecting' = rest(collecting, in.collected.valid) \o
          (IF in.retired.valid THEN <<Head(retiring)>> ELSE <<>>)
     /\ handed' = IF output_pop(in.stream_ready) THEN Offered ELSE NoHand

\* One edge of everything, given what the environment does on it.
Edge(env) ==
  LET context(queue, shown) ==
        IF shown THEN [valid |-> TRUE, bank |-> Head(queue).bank,
                       epoch |-> Head(queue).epoch]
        ELSE [valid |-> FALSE, bank |-> 0, epoch |-> 0]
      in == [feeder_start |-> feeder_start_accept,
             context_expected |-> num_pixels,
             sideband_ready |-> env.sideband_ready,
             vector_valid |-> vector_pending /\ vector_fill_req,
             vector_data |-> raw_vector, packet_done |-> packet_done,
             compute_start |-> compute_start, core_ready |-> env.core_ready,
             stream_ready |-> env.stream_ready,
             retired |-> context(retiring, env.retires),
             collected |-> context(collecting, env.collects),
             arrives |-> env.arrives]
  IN /\ env.retires => retiring # <<>>
     /\ env.collects => collecting # <<>>
     /\ SchedulerEdge(env.start, env.request)
     /\ FrontendEdge(in) /\ FeederEdge /\ LoaderEdge(in) /\ CoreEdge(in)

\* Inputs no one looks at in this state are left at one value.
Optional(relevant) == IF relevant THEN BOOLEAN ELSE {FALSE}
Environment ==
  [start : IF ~feeder_start_ready \/ ~AllAccepted THEN {0}
           ELSE IF Drained THEN 0 .. DEPTH ELSE {0, num_pixels},
   request : BOOLEAN,
   sideband_ready : Optional(alloc_pending_q),
   arrives : Optional(active /\ ~vector_pending),
   core_ready : Optional(compute_request_pending_q /\ context_queue # <<>>),
   stream_ready : Optional(rd_valid_q),
   retires : Optional(retiring # <<>>),
   collects : Optional(collecting # <<>>)]

Next == \E env \in Environment : Edge(env)

Spec == Init /\ [][Next]_vars

\* The clock runs, and every party outside keeps its side: a loader that waits
\* is given a vector, a started context is requested, an allocation, a selection
\* or an output that nothing else holds back is taken, and the context that is
\* first in line is retired and collected.
Contexts == [bank : Banks, epoch : Epochs]
Fairness ==
  /\ WF_vars(Next)
  /\ []<>(vector_pending \/ ~active)
  /\ []<>(unrequested = 0)
  /\ []<>~(/\ alloc_pending_q /\ ~fill_active_q /\ ~alloc_epoch_conflict
          /\ ~allocated_q[alloc_bank_q])
  /\ []<>~(/\ compute_request_pending_q /\ context_queue # <<>>
          /\ ~reader_active_q /\ \E s \in CollectorSlots : ~collector_live_q[s])
  /\ []<>(~rd_valid_q \/ handed # NoHand)
  /\ \A c \in Contexts : []<>(retiring = <<>> \/ Head(retiring) # c)
  /\ \A c \in Contexts : []<>(collecting = <<>> \/ Head(collecting) # c)

FairSpec == Spec /\ Fairness

-----------------------------------------------------------------------------
TypeOK ==
  /\ FrontendTypeOK
  /\ vector_fill_req \in BOOLEAN /\ active \in BOOLEAN /\ req_armed \in BOOLEAN
  /\ pixel_index \in 0 .. DEPTH /\ vector_pending \in BOOLEAN
  /\ pending_last_pixel \in BOOLEAN /\ packet_done \in BOOLEAN
  /\ raw_vector \in Vector \cup {ZeroVector}
  /\ num_pixels \in 1 .. DEPTH
  /\ feeder_start \in BOOLEAN /\ compute_start \in BOOLEAN
  /\ unrequested \in Nat
  /\ \A k \in 1 .. Len(retiring) : retiring[k] \in [bank : Banks, epoch : Epochs]
  /\ \A k \in 1 .. Len(collecting) : collecting[k] \in [bank : Banks, epoch : Epochs]

\* No handshake of the whole path is ever misused: no pulse is dropped, no
\* vector arrives at a bank that is not its own, every packet has the length
\* its context was allocated for, every retirement finds its release slot
\* free and its bank committed and drained.
NoErrors == buffer_error = {} /\ frontend_error = {}

\* The epoch is the only identity downstream: two contexts that are queued,
\* held in a bank or being collected at the same time never share one, and the
\* queued contexts and the one being read each have a bank of their own.
EpochsApart ==
  /\ Len(ReadOrder) <= 2
  /\ \A j, k \in 1 .. Len(ReadOrder) : j # k => ReadOrder[j] # ReadOrder[k]
  /\ allocated_q[0] /\ allocated_q[1] => epoch_q[0] # epoch_q[1]
  /\ \A s, t \in CollectorSlots :
       s # t /\ collector_live_q[s] /\ collector_live_q[t] =>
         collector_epoch_q[s] # collector_epoch_q[t]
  /\ \A k \in 1 .. Len(context_queue), s \in CollectorSlots :
       collector_live_q[s] => collector_epoch_q[s] # context_queue[k].epoch

\* The safety of the path, as one invariant.
VectorsSafe == TypeOK /\ NoErrors /\ EpochsApart

Stream == INSTANCE BoundedFifo WITH
  Capacity <- 2 * DEPTH, NoItem <- NoHand, ReplaceWhenFull <- FALSE,
  Item <- [data : Vector, bank : Banks, epoch : Epochs, last : BOOLEAN],
  queue <- Waiting, handed <- handed

\* Whatever the two banks, the lookahead ports and the output slot do, the core
\* sees one first-in first-out stream: every vector the loader handed in comes
\* out once, in order, under its own context's bank, epoch and last marker.
StreamSpec == Stream!FifoSpec

\* A start is never left waiting for a bank or for an epoch that is free, even
\* while its epoch conflicts with contexts that are still being collected.
StartsAreFilled == alloc_pending_q ~> fill_active_q

\* A bank always comes back: its commit and its release, which are held as
\* single requests, are neither lost nor refused for ever.
BanksComeBack == \A b \in Banks : allocated_q[b] ~> ~allocated_q[b]

\* Banks go round: what is started gets one, and what was given comes back.
BanksCycle == StartsAreFilled /\ BanksComeBack

-----------------------------------------------------------------------------
\* For TLC, vectors that tell their epoch and index, so that a word left over by
\* an earlier context never passes for a current one, and of the state what the
\* next edges and the properties can read: what a register holds while its
\* valid bit is low is left out of Live.
MCVector == Epochs \X (0 .. DEPTH - 1)
MCPayload(e, i) == {<<e, i>>}

If(valid, value) == IF valid THEN value ELSE "dead"

LiveBank(b) ==
  IF ~allocated_q[b] THEN "free"
  ELSE <<committed_q[b], epoch_q[b], expected_q[b], produced_q[b],
         write_open_q[b], issued_q[b], consumed_q[b],
         [a \in 0 .. DEPTH - 1 |->
            If(consumed_q[b] <= a /\ a < produced_q[b], mem[b][a])],
         lookahead_pending_q[b],
         If(lookahead_pending_q[b] \/ (rd_valid_q /\ rd_bank_q = b),
            mem_rd_data[b]),
         If(lookahead_valid_q[b], lookahead_data_q[b])>>

Live ==
  <<[b \in Banks |-> LiveBank(b)],
    If(reader_active_q, <<reader_bank_q, reader_epoch_q>>),
    If(rd_valid_q, <<rd_bank_q, rd_epoch_q, rd_last_q, rd_data>>),
    If(rd_valid_q, rd_from_lookahead_q),
    buffer_error, preferred_bank_q, next_epoch_q,
    If(alloc_pending_q, <<alloc_bank_q, alloc_epoch_q, alloc_expected_q>>),
    If(fill_active_q, <<fill_bank_q, fill_epoch_q, fill_expected_q>>),
    If(commit_pending_q, <<commit_bank_q, commit_epoch_q>>),
    context_queue, compute_request_pending_q,
    If(release_pending_q, <<release_bank_q, release_epoch_q>>),
    [s \in CollectorSlots |-> If(collector_live_q[s], collector_epoch_q[s])],
    frontend_error, vector_fill_req,
    active, req_armed, If(active, pixel_index),
    If(vector_pending, <<pending_last_pixel, raw_vector>>), packet_done,
    num_pixels, feeder_start, compute_start, unrequested, retiring, collecting,
    handed # NoHand>>
=============================================================================
