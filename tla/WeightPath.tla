------------------------------ MODULE WeightPath ------------------------------
(***************************************************************************)
(* The weight path from the stream to the array: WeightStaging and         *)
(* WeightPreloader between a stream that brings the tiles of a layer in    *)
(* order, a scheduler that demands them one after the other, a front end   *)
(* that admits contexts, and a core that starts and retires them in order. *)
(* The demands, the admissions and the packets come at their own pace.     *)
(*                                                                         *)
(* One action is one rising clock edge.  A layer starts when the one       *)
(* before is over: all its contexts have retired.                          *)
(***************************************************************************)
EXTENDS WeightStaging

CONSTANT Layer        \* layers: records with k and cout, counted in passes

ASSUME LayerAssumption ==
  \A l \in Layer : l.k \in Nat \ {0} /\ l.cout \in Nat \ {0}

VARIABLES
  parity,             \* tells a layer from the one before
  sent,               \* tiles of the layer that were sent in full
  sched_weight_start, \* the scheduler's registered pulse
  demanded, awaited,  \* tiles demanded, and is one not yet reported done?
  admitted,           \* contexts admitted in this layer
  ready, running      \* those not yet started, those not yet retired

partyVars == <<parity, sent, sched_weight_start, demanded, awaited, admitted,
               ready, running>>
vars == <<preloadVars, row_fifo, stagingVars, partyVars>>

Tiles == k_total * cout_total
Tile(n) == [layer |-> parity, number |-> n]

\* The contexts of the layer are over, and no packet is under way.
LayerOver == admitted = Tiles /\ ready = <<>> /\ running = <<>>

Init ==
  /\ PreloadInit /\ StagingInit /\ row_fifo = <<>>
  /\ parity = 0 /\ sent = 0 /\ sched_weight_start = FALSE
  /\ demanded = 0 /\ awaited = FALSE
  /\ admitted = 0 /\ ready = <<>> /\ running = <<>>

\* What the parties show to the preloader, and the credit that the staging does.
PreloadInputs(in) ==
  [alloc |-> {[bank |-> b, epoch |-> admitted % 3] : b \in in.admit},
   credit |-> weight_tile_complete_valid,
   start |-> IF in.start THEN {[bank |-> Head(ready).bank,
                                epoch |-> Head(ready).epoch]} ELSE {},
   retire |-> IF in.retire THEN {[bank |-> Head(running).bank,
                                  epoch |-> Head(running).epoch]} ELSE {}]

StagingInputs(in) ==
  [beat |-> IF in.beat THEN {Tile(sent)} ELSE {},
   layer |-> in.layer, weight_start |-> sched_weight_start]

StreamEdge(in) ==
  sent' = IF in.layer # {} THEN 0
          ELSE IF in.beat /\ weight_busy /\ weight_last_beat THEN sent + 1
          ELSE sent

SchedulerEdge(in) ==
  /\ sched_weight_start' = in.demand
  /\ demanded' = IF in.layer # {} THEN 0
                 ELSE IF in.demand THEN demanded + 1 ELSE demanded
  /\ awaited' = (in.demand \/ (awaited /\ ~sched_weight_done))

ContextEdge(in) ==
  LET new == {[bank |-> b, epoch |-> admitted % 3, tile |-> Tile(admitted)] :
                b \in in.admit}
      left == IF in.start THEN Tail(ready) ELSE ready
      rest == IF in.retire THEN Tail(running) ELSE running
  IN /\ admitted' = IF in.layer # {} THEN 0
                    ELSE IF in.admit # {} THEN admitted + 1 ELSE admitted
     /\ IF new = {} THEN ready' = left
        ELSE \E c \in new : ready' = Append(left, c)
     /\ running' = IF in.start THEN Append(rest, Head(ready)) ELSE rest

Edge(in) ==
  /\ PreloadEdge(PreloadInputs(in)) /\ StagingEdge(StagingInputs(in))
  /\ StreamEdge(in) /\ SchedulerEdge(in) /\ ContextEdge(in)
  /\ parity' = IF in.layer = {} THEN parity ELSE 1 - parity

May(condition) == IF condition THEN BOOLEAN ELSE {FALSE}

\* The front end shows an allocation that is ready, the core starts a context
\* whose weights are.
Inputs ==
  [layer : IF LayerOver THEN {{}} \cup {{l} : l \in Layer} ELSE {{}},
   beat : May(weight_busy /\ sent < Tiles),
   demand : May(demanded < Tiles /\ (~awaited \/ sched_weight_done)),
   admit : {{}} \cup {{b} : b \in {c \in Bank :
             admitted < Tiles /\
               alloc_ready([bank |-> c, epoch |-> admitted % 3])}},
   start : May(ready # <<>> /\ bank_state[Head(ready).bank] = "READY"),
   retire : May(running # <<>>)]

Next == \E in \in Inputs : (in.layer # {} => ~in.demand) /\ Edge(in)

Spec == Init /\ [][Next]_vars

\* The clock runs, the stream delivers, the scheduler demands, the front end
\* admits, the core starts and retires: each in the end.
LiveSpec ==
  /\ Spec /\ WF_vars(Next)
  /\ []<>(~weight_busy \/ wgt_tile_wr8 # {})
  /\ []<>(demanded = Tiles \/ awaited)
  /\ []<>(admitted = Tiles \/ Len(ready) + Len(running) = 2)
  /\ []<>(\A k \in 1 .. Len(ready) : bank_state[ready[k].bank] # "READY")
  /\ []<>(running = <<>>)

-----------------------------------------------------------------------------
TypeOK ==
  /\ bank_state \in [Bank -> BankStates]
  /\ Len(desc) <= 2 /\ credit_count_q \in 0 .. 2
  /\ Len(committed) <= 2 /\ Len(row_fifo) <= FIFO_DEPTH
  /\ format_col_q \in Column /\ weight_count \in Beat

\* Each bank with weights has those of its own context: all columns of one tile,
\* all beats of the packet that the stream sent for that pass of that layer.
WeightsMatch ==
  \A q \in {ready, running} : \A k \in 1 .. Len(q) :
    bank_state[q[k].bank] \in {"READY", "ACTIVE"} =>
      \A c \in Column :
        array[q[k].bank][c] = Word([i \in Beat |-> q[k].tile], c)

\* "Holding this request high for the whole packet keeps the external loader's
\* pulse-only tile_ready lossless", and staging ahead of demand never writes to
\* a bank in use, nor does a load lack its words.
NoWeightErrors == ~stage_fatal /\ ~any_error

\* The one register for a completed tile is not asked to hold a second one.
CompletionKept == ~(weight_tile_complete_pending_q /\ wgt_loader_done)

\* The safety of the path, as one invariant.
WeightsSafe == TypeOK /\ WeightsMatch /\ NoWeightErrors /\ CompletionKept

\* Every layer's contexts get their weights and come to an end.
LayersEnd == []<>LayerOver

-----------------------------------------------------------------------------
\* For TLC, a layer with two passes in each of two blocks of channels: more
\* tiles than the credits and the staged banks hold.
MCLayer == {[k |-> 2, cout |-> 2]}
=============================================================================
