--------------------------- MODULE ContextFrontend ---------------------------
(***************************************************************************)
(* systolic/ifm_context_epoch_frontend.v: it turns the pulses of the       *)
(* scheduler, the core and the collector into held requests to the two-    *)
(* bank vector buffer, and keeps the epochs of live contexts apart.        *)
(*                                                                         *)
(* FrontendEdge is one rising clock edge of the front end and its buffer,  *)
(* given the input ports in.  The ring context_mem with its pointers is    *)
(* the sequence context_queue; the counters are left out.                  *)
(***************************************************************************)
EXTENDS EpochBuffer

CONSTANTS
  CTX_DEPTH,        \* parameter CTX_DEPTH
  COLLECTOR_SLOTS   \* parameter COLLECTOR_SLOTS

ASSUME QueueAssumption == CTX_DEPTH \in Nat \ {0}
ASSUME SlotsAssumption == COLLECTOR_SLOTS \in Nat \ {0}

VARIABLES
  preferred_bank_q, next_epoch_q,
  alloc_pending_q, alloc_bank_q, alloc_epoch_q, alloc_expected_q,
  fill_active_q, fill_bank_q, fill_epoch_q, fill_expected_q,
  commit_pending_q, commit_bank_q, commit_epoch_q,
  context_queue,                      \* descriptors awaiting compute
  compute_request_pending_q,
  release_pending_q, release_bank_q, release_epoch_q,
  collector_live_q, collector_epoch_q,
  frontend_error

allocVars == <<preferred_bank_q, next_epoch_q, alloc_pending_q, alloc_bank_q,
               alloc_epoch_q, alloc_expected_q>>
fillVars == <<fill_active_q, fill_bank_q, fill_epoch_q, fill_expected_q,
              commit_pending_q, commit_bank_q, commit_epoch_q>>
computeVars == <<context_queue, compute_request_pending_q>>
releaseVars == <<release_pending_q, release_bank_q, release_epoch_q>>
collectorVars == <<collector_live_q, collector_epoch_q>>
frontendVars == <<bufferVars, allocVars, fillVars, computeVars, releaseVars,
                  collectorVars, frontend_error>>

CollectorSlots == 0 .. COLLECTOR_SLOTS - 1
EpochNext(e) == (e + 1) % EpochCount

-----------------------------------------------------------------------------
(* The combinational signals *)

context_full == Len(context_queue) = CTX_DEPTH
frontend_start_ready == ~alloc_pending_q /\ ~context_full

\* Mutant: a collector slot conflicts after it was given back.
alloc_epoch_conflictDeadSlots ==
  \/ \E s \in CollectorSlots : collector_epoch_q[s] = alloc_epoch_q
  \/ \E b \in Banks : allocated_q[b] /\ epoch_q[b] = alloc_epoch_q
  \/ release_pending_q /\ release_epoch_q = alloc_epoch_q

\* An epoch is not given to a context while a bank, a pending release or a
\* context that is still being collected has it.
alloc_epoch_conflict ==
  \/ \E s \in CollectorSlots :
       collector_live_q[s] /\ collector_epoch_q[s] = alloc_epoch_q
  \/ \E b \in Banks : allocated_q[b] /\ epoch_q[b] = alloc_epoch_q
  \/ release_pending_q /\ release_epoch_q = alloc_epoch_q

\* The preferred bank, unless only the other one is free; when both are live
\* the request waits for the preferred one.
BankChosen ==
  IF allocated_q[preferred_bank_q] /\ ~allocated_q[Other(preferred_bank_q)]
  THEN Other(preferred_bank_q) ELSE preferred_bank_q

AllocPort(in) ==
  [valid |-> /\ alloc_pending_q /\ ~fill_active_q
             /\ ~alloc_epoch_conflict /\ in.sideband_ready,
   bank |-> alloc_bank_q, epoch |-> alloc_epoch_q,
   expected |-> alloc_expected_q]
WritePort(in) ==
  [valid |-> in.vector_valid /\ fill_active_q, bank |-> fill_bank_q,
   epoch |-> fill_epoch_q, data |-> in.vector_data]
CommitPort ==
  [valid |-> commit_pending_q, bank |-> commit_bank_q, epoch |-> commit_epoch_q]
SelectPort(in) ==
  IF context_queue = <<>> THEN [valid |-> FALSE, bank |-> 0, epoch |-> 0]
  ELSE [valid |-> /\ compute_request_pending_q /\ in.core_ready
                  /\ \E s \in CollectorSlots : ~collector_live_q[s],
        bank |-> Head(context_queue).bank, epoch |-> Head(context_queue).epoch]
ReleasePort ==
  [valid |-> release_pending_q, bank |-> release_bank_q,
   epoch |-> release_epoch_q]

alloc_fire(in) == AllocPort(in).valid /\ alloc_ready(AllocPort(in))
vector_fire(in) ==
  in.vector_valid /\ fill_active_q /\ wr_ready(WritePort(in))
commit_fire == commit_pending_q /\ commit_ready(CommitPort)
select_fire(in) ==
  SelectPort(in).valid /\ select_ready(SelectPort(in), in.stream_ready)
release_fire == release_pending_q /\ release_ready(ReleasePort)

-----------------------------------------------------------------------------
FrontendInit ==
  /\ BufferInit
  /\ preferred_bank_q = 0 /\ next_epoch_q = 1 % EpochCount
  /\ alloc_pending_q = FALSE /\ alloc_bank_q = 0
  /\ alloc_epoch_q = 0 /\ alloc_expected_q = 0
  /\ fill_active_q = FALSE /\ fill_bank_q = 0
  /\ fill_epoch_q = 0 /\ fill_expected_q = 0
  /\ commit_pending_q = FALSE /\ commit_bank_q = 0 /\ commit_epoch_q = 0
  /\ context_queue = <<>> /\ compute_request_pending_q = FALSE
  /\ release_pending_q = FALSE /\ release_bank_q = 0 /\ release_epoch_q = 0
  /\ collector_live_q = [s \in CollectorSlots |-> FALSE]
  /\ collector_epoch_q = [s \in CollectorSlots |-> 0]
  /\ frontend_error = {}

\* A start reserves a bank and an epoch; the epoch moves on while it conflicts.
AllocEdge(in) ==
  LET starts == in.feeder_start /\ frontend_start_ready
      moves == alloc_pending_q /\ alloc_epoch_conflict
      fires == alloc_fire(in)
  IN /\ alloc_pending_q' = (starts \/ (alloc_pending_q /\ ~fires))
     /\ alloc_bank_q' = IF starts THEN BankChosen ELSE alloc_bank_q
     /\ alloc_epoch_q' = IF moves THEN EpochNext(alloc_epoch_q)
                         ELSE IF starts THEN next_epoch_q ELSE alloc_epoch_q
     /\ alloc_expected_q' = IF starts THEN in.context_expected
                            ELSE alloc_expected_q
     /\ preferred_bank_q' = IF fires THEN Other(alloc_bank_q)
                            ELSE preferred_bank_q
     /\ next_epoch_q' = IF fires THEN EpochNext(alloc_epoch_q) ELSE next_epoch_q

\* The packet's last vector closes the fill and requests its commit.
FillEdge(in) ==
  LET fires == alloc_fire(in)
      ends == in.packet_done /\ fill_active_q
  IN /\ fill_active_q' = ((fill_active_q \/ fires) /\ ~ends)
     /\ fill_bank_q' = IF fires THEN alloc_bank_q ELSE fill_bank_q
     /\ fill_epoch_q' = IF fires THEN alloc_epoch_q ELSE fill_epoch_q
     /\ fill_expected_q' = IF fires THEN alloc_expected_q ELSE fill_expected_q
     /\ commit_pending_q' = ((commit_pending_q \/ ends) /\ ~commit_fire)
     /\ commit_bank_q' = IF ends THEN fill_bank_q ELSE commit_bank_q
     /\ commit_epoch_q' = IF ends THEN fill_epoch_q ELSE commit_epoch_q

\* Selection retires the descriptor and the request on the same edge.
ComputeEdge(in) ==
  LET rest == IF select_fire(in) THEN Tail(context_queue) ELSE context_queue
      desc == [bank |-> alloc_bank_q, epoch |-> alloc_epoch_q,
               expected |-> alloc_expected_q]
  IN /\ context_queue' = IF alloc_fire(in) THEN Append(rest, desc) ELSE rest
     /\ compute_request_pending_q' =
          /\ compute_request_pending_q \/ in.compute_start
          /\ ~select_fire(in)

\* Mutant: a retirement on the edge that completes a release is lost.
ReleaseTakenIdle(in) == in.retired.valid /\ ~release_pending_q

\* A retirement may replace a release on the edge that completes it.
ReleaseTaken(in) == in.retired.valid /\ (~release_pending_q \/ release_fire)

ReleaseEdge(in) ==
  LET takes == ReleaseTaken(in)
  IN /\ release_pending_q' =
          (takes \/ (release_pending_q /\ ~release_fire))
     /\ release_bank_q' = IF takes THEN in.retired.bank ELSE release_bank_q
     /\ release_epoch_q' = IF takes THEN in.retired.epoch ELSE release_epoch_q

\* A selected context takes the lowest free slot until its collector is done.
CollectorEdge(in) ==
  LET takes(s) == /\ select_fire(in) /\ ~collector_live_q[s]
                  /\ \A t \in 0 .. s - 1 : collector_live_q[t]
      ends(s) == /\ in.collected.valid /\ collector_live_q[s]
                 /\ collector_epoch_q[s] = in.collected.epoch
  IN /\ collector_live_q' = [s \in CollectorSlots |->
          (collector_live_q[s] \/ takes(s)) /\ ~ends(s)]
     /\ collector_epoch_q' = [s \in CollectorSlots |->
          IF takes(s) THEN Head(context_queue).epoch ELSE collector_epoch_q[s]]

\* What the front end itself reports: pulses it had to drop, packets of the
\* wrong length, and events of contexts it does not know.
FrontendErrors(in) ==
  LET written == produced_q[fill_bank_q] + (IF vector_fire(in) THEN 1 ELSE 0)
      drop == \/ in.feeder_start /\ ~frontend_start_ready
              \/ in.packet_done
                   /\ ~(fill_active_q /\ written = fill_expected_q)
              \/ in.compute_start /\ compute_request_pending_q
      retire == in.retired.valid /\ release_pending_q /\ ~release_fire
      collector == /\ in.collected.valid
                   /\ \A s \in CollectorSlots :
                        ~(collector_live_q[s] /\
                          collector_epoch_q[s] = in.collected.epoch)
  IN {e \in {"context_drop", "retire_mismatch", "collector_epoch"} :
        \/ e = "context_drop" /\ drop
        \/ e = "retire_mismatch" /\ retire
        \/ e = "collector_epoch" /\ collector}

FrontendEdge(in) ==
  /\ BufferEdge(AllocPort(in), WritePort(in), CommitPort, SelectPort(in),
                in.stream_ready, ReleasePort)
  /\ AllocEdge(in) /\ FillEdge(in) /\ ComputeEdge(in)
  /\ ReleaseEdge(in) /\ CollectorEdge(in)
  /\ frontend_error' = frontend_error \cup FrontendErrors(in)

-----------------------------------------------------------------------------
\* The banks in the order in which their vectors leave: the one being read,
\* then those of the queued contexts.
ReadOrder ==
  (IF reader_active_q THEN <<reader_bank_q>> ELSE <<>>)
    \o [k \in 1 .. Len(context_queue) |-> context_queue[k].bank]

\* All vectors accepted and not yet delivered, in order.
Waiting ==
  LET order == ReadOrder
  IN CASE Len(order) = 0 -> <<>>
       [] Len(order) = 1 -> Unread(order[1])
       [] OTHER -> Unread(order[1]) \o Unread(order[2])

FrontendTypeOK ==
  /\ BufferTypeOK
  /\ preferred_bank_q \in Banks /\ next_epoch_q \in Epochs
  /\ alloc_pending_q \in BOOLEAN /\ alloc_bank_q \in Banks
  /\ alloc_epoch_q \in Epochs /\ alloc_expected_q \in 0 .. DEPTH
  /\ fill_active_q \in BOOLEAN /\ fill_bank_q \in Banks
  /\ fill_epoch_q \in Epochs /\ fill_expected_q \in 0 .. DEPTH
  /\ commit_pending_q \in BOOLEAN /\ commit_bank_q \in Banks
  /\ commit_epoch_q \in Epochs
  /\ Len(context_queue) <= CTX_DEPTH
  /\ \A k \in 1 .. Len(context_queue) :
       context_queue[k] \in
         [bank : Banks, epoch : Epochs, expected : 0 .. DEPTH]
  /\ compute_request_pending_q \in BOOLEAN
  /\ release_pending_q \in BOOLEAN /\ release_bank_q \in Banks
  /\ release_epoch_q \in Epochs
  /\ collector_live_q \in [CollectorSlots -> BOOLEAN]
  /\ collector_epoch_q \in [CollectorSlots -> Epochs]
  /\ frontend_error \in
       SUBSET {"context_drop", "retire_mismatch", "collector_epoch"}
=============================================================================
