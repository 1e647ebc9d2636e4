----------------------------- MODULE WeightStaging -----------------------------
(***************************************************************************)
(* How a tile of weights comes to the row FIFOs: the weight half of        *)
(* systolic/axis_bias_weight_loader.v receives packets, the request logic  *)
(* of systolic/conv_layer_top_stream.v asks for them ahead of demand, and  *)
(* systolic/weight_tile_pingpong_loader.v keeps one tile while it spreads  *)
(* the other over the row FIFOs, one column per edge.  Built with preload  *)
(* and fast handoff.                                                       *)
(*                                                                         *)
(* A packet is BEATS beats, each with the number of its tile.  A column's  *)
(* word takes bytes from the whole tile, so its data is the tile as it     *)
(* lies in the bank.  The scalar write port is not connected.              *)
(***************************************************************************)
EXTENDS WeightPreloader

CONSTANTS
  BEATS,          \* beats of a weight packet
  FIFO_DEPTH      \* WGT_FIFO_DEPTH

ASSUME BeatsAssumption == BEATS \in Nat \ {0}
ASSUME FifoAssumption == FIFO_DEPTH \in Nat \ {0}

VARIABLES
  weight_busy, weight_req_armed, weight_count,        \* the AXIS loader
  weight_tile_ready, wgt_tile_wr8,                    \* its outputs
  k_total, cout_total,                                \* the layer, in passes
  weight_req_r, weight_ingress_more_q, weight_ingress_k_q,
  weight_ingress_cout_q, weight_format_pending_q,     \* the request logic
  weight_tile_complete_pending_q, sched_weight_done,
  fill_valid_q, fill_bank_q, fill_touched_q, occupied_q,
  committed,                                          \* committed_*_q, a queue
  format_busy_q, format_bank_q, format_col_q, wgt_loader_done,
  sticky_commit_overflow, sticky_write_no_slot, sticky_protocol_error,
  staged                                              \* the two banks' content

axisVars == <<weight_busy, weight_req_armed, weight_count, weight_tile_ready,
              wgt_tile_wr8>>
requestVars ==
  <<k_total, cout_total, weight_req_r, weight_ingress_more_q,
    weight_ingress_k_q, weight_ingress_cout_q, weight_format_pending_q,
    weight_tile_complete_pending_q, sched_weight_done>>
fillVars == <<fill_valid_q, fill_bank_q, fill_touched_q, occupied_q, committed,
              sticky_commit_overflow, sticky_write_no_slot,
              sticky_protocol_error, staged>>
formatVars == <<format_busy_q, format_bank_q, format_col_q, wgt_loader_done>>
stagingVars == <<axisVars, requestVars, fillVars, formatVars>>

Beat == 0 .. BEATS - 1
NoWrite == {}
Word(data, c) == [tile |-> data, col |-> c]

-----------------------------------------------------------------------------
(* The combinational signals *)

weight_last_beat == weight_count = BEATS - 1
stage_fatal ==
  sticky_commit_overflow \/ sticky_write_no_slot \/ sticky_protocol_error

write_ready == fill_valid_q /\ ~stage_fatal
commit_valid == weight_req_r /\ weight_tile_ready
commit_ready == fill_valid_q /\ Len(committed) < 2 /\ ~stage_fatal
commit_fire == commit_valid /\ commit_ready
consume_ready == ~format_busy_q /\ committed # <<>> /\ ~stage_fatal
consume_fire == weight_format_pending_q /\ consume_ready

formatter_fire ==
  format_busy_q /\ Len(row_fifo) < FIFO_DEPTH /\ ~stage_fatal
formatter_done == formatter_fire /\ format_col_q = COLS - 1


\* Mutant: a completion that finds no room for its credit is forgotten.
weight_tile_complete_validOnce == wgt_loader_done

weight_tile_complete_valid == weight_tile_complete_pending_q \/ wgt_loader_done
weight_tile_complete_fire ==
  weight_tile_complete_valid /\ weight_tile_credit_ready

weight_ingress_last_k == weight_ingress_k_q + 1 >= k_total
weight_ingress_last_cout == weight_ingress_cout_q + 1 >= cout_total

-----------------------------------------------------------------------------
StagingInit ==
  /\ weight_busy = FALSE /\ weight_req_armed = TRUE /\ weight_count = 0
  /\ weight_tile_ready = FALSE /\ wgt_tile_wr8 = NoWrite
  /\ k_total = 0 /\ cout_total = 0
  /\ weight_req_r = FALSE /\ weight_ingress_more_q = FALSE
  /\ weight_ingress_k_q = 0 /\ weight_ingress_cout_q = 0
  /\ weight_format_pending_q = FALSE
  /\ weight_tile_complete_pending_q = FALSE /\ sched_weight_done = FALSE
  /\ fill_valid_q = TRUE /\ fill_bank_q = 0 /\ fill_touched_q = FALSE
  /\ occupied_q = [b \in Bank |-> FALSE] /\ committed = <<>>
  /\ format_busy_q = FALSE /\ format_bank_q = 0 /\ format_col_q = 0
  /\ wgt_loader_done = FALSE
  /\ sticky_commit_overflow = FALSE /\ sticky_write_no_slot = FALSE
  /\ sticky_protocol_error = FALSE
  /\ staged = [b \in Bank |-> [i \in Beat |-> NoData]]

takes_request == ~weight_busy /\ weight_req_r /\ weight_req_armed

\* in.beat is a beat on the stream, or none; it is taken while busy.
AxisEdge(in) ==
  LET fire == weight_busy /\ in.beat # {}
  IN /\ weight_req_armed' =
          ((weight_req_armed \/ ~weight_req_r) /\ ~takes_request)
     /\ weight_busy' = ((weight_busy \/ takes_request)
                          /\ ~(fire /\ weight_last_beat))
     /\ weight_count' = IF takes_request \/ (fire /\ weight_last_beat) THEN 0
                        ELSE IF fire THEN weight_count + 1 ELSE weight_count
     /\ weight_tile_ready' = (fire /\ weight_last_beat)
     /\ wgt_tile_wr8' = IF fire THEN {[addr |-> weight_count, data |-> d] :
                                        d \in in.beat}
                        ELSE NoWrite

\* The packets come in the order of the passes: reduction inside, channel
\* blocks outside.
IngressEdge ==
  IF commit_valid
  THEN /\ weight_req_r' = FALSE
       /\ weight_ingress_k_q' =
            IF weight_ingress_last_k THEN 0 ELSE weight_ingress_k_q + 1
       /\ weight_ingress_cout_q' =
            IF weight_ingress_last_k /\ ~weight_ingress_last_cout
            THEN weight_ingress_cout_q + 1 ELSE weight_ingress_cout_q
       /\ weight_ingress_more_q' = (weight_ingress_more_q
            /\ ~(weight_ingress_last_k /\ weight_ingress_last_cout))
  ELSE /\ weight_req_r' = (weight_req_r \/
            (weight_ingress_more_q /\ write_ready /\ ~stage_fatal))
       /\ UNCHANGED <<weight_ingress_k_q, weight_ingress_cout_q,
                      weight_ingress_more_q>>

FormatPendingNext(demand) ==
  demand \/ (weight_format_pending_q /\ ~consume_fire)

reports_done == weight_tile_complete_fire

\* in.layer is the start of a layer with its passes and blocks, or none.
RequestEdge(in) ==
  /\ IF in.layer = {}
     THEN /\ IngressEdge /\ UNCHANGED <<k_total, cout_total>>
          /\ weight_format_pending_q' = FormatPendingNext(in.weight_start)
     ELSE /\ weight_req_r' = FALSE /\ weight_ingress_more_q' = TRUE
          /\ weight_ingress_k_q' = 0 /\ weight_ingress_cout_q' = 0
          /\ weight_format_pending_q' = FALSE
          /\ \E l \in in.layer : k_total' = l.k /\ cout_total' = l.cout
  /\ weight_tile_complete_pending_q' =
       (in.layer = {} /\ weight_tile_complete_valid
          /\ ~weight_tile_complete_fire)
  /\ sched_weight_done' = reports_done

\* Mutant: a bank that was just committed is filled again.
FillNextSame == fill_bank_q' = fill_bank_q /\ fill_valid_q' = TRUE

\* After a commit the other bank is filled if it is free or becomes free.
FillNext ==
  IF ~occupied_q[1 - fill_bank_q]
       \/ (formatter_done /\ format_bank_q = 1 - fill_bank_q)
  THEN fill_bank_q' = 1 - fill_bank_q /\ fill_valid_q' = TRUE
  ELSE fill_bank_q' = fill_bank_q /\ fill_valid_q' = FALSE

FillEdge ==
  /\ IF commit_fire THEN FillNext /\ fill_touched_q' = FALSE
     ELSE IF ~fill_valid_q /\ formatter_done
     THEN fill_bank_q' = format_bank_q /\ fill_valid_q' = TRUE
            /\ fill_touched_q' = FALSE
     ELSE UNCHANGED <<fill_bank_q, fill_valid_q>>
            /\ fill_touched_q' =
                 (fill_touched_q \/ (wgt_tile_wr8 # {} /\ write_ready))
  /\ occupied_q' = [b \in Bank |->
       (occupied_q[b] \/ (commit_fire /\ b = fill_bank_q))
         /\ ~(formatter_done /\ b = format_bank_q)]
  /\ committed' = (IF consume_fire THEN Tail(committed) ELSE committed)
                    \o (IF commit_fire THEN <<fill_bank_q>> ELSE <<>>)
  /\ IF write_ready /\ wgt_tile_wr8 # {}
     THEN \E w \in wgt_tile_wr8 :
            staged' = [staged EXCEPT ![fill_bank_q][w.addr] = w.data]
     ELSE UNCHANGED staged
  /\ sticky_commit_overflow' =
       (sticky_commit_overflow \/ (commit_valid /\ ~commit_ready))
  /\ sticky_write_no_slot' =
       (sticky_write_no_slot \/ (wgt_tile_wr8 # {} /\ ~write_ready))
  /\ sticky_protocol_error' = (sticky_protocol_error
       \/ (commit_fire /\ ~fill_touched_q /\ wgt_tile_wr8 = {}))

FormatEdge ==
  /\ format_busy_q' = (consume_fire \/ (format_busy_q /\ ~formatter_done))
  /\ format_bank_q' = IF consume_fire THEN Head(committed) ELSE format_bank_q
  /\ format_col_q' = IF consume_fire \/ formatter_done THEN 0
                     ELSE IF formatter_fire THEN format_col_q + 1
                     ELSE format_col_q
  /\ wgt_loader_done' = formatter_done

\* The start of a layer is the staging's soft reset; the banks keep their bytes.
StagingReset ==
  /\ fill_valid_q' = TRUE /\ fill_bank_q' = 0 /\ fill_touched_q' = FALSE
  /\ occupied_q' = [b \in Bank |-> FALSE] /\ committed' = <<>>
  /\ format_busy_q' = FALSE /\ format_bank_q' = 0 /\ format_col_q' = 0
  /\ wgt_loader_done' = FALSE
  /\ sticky_commit_overflow' = FALSE /\ sticky_write_no_slot' = FALSE
  /\ sticky_protocol_error' = FALSE /\ UNCHANGED staged

\* A full FIFO drops what is written to it.
FifoEdge ==
  row_fifo' =
    IF formatter_fire /\ Len(row_fifo) < FIFO_DEPTH
    THEN Append(FifoLeft, Word(staged[format_bank_q], format_col_q))
    ELSE FifoLeft

StagingEdge(in) ==
  /\ AxisEdge(in) /\ RequestEdge(in) /\ FifoEdge
  /\ IF in.layer = {} THEN FillEdge /\ FormatEdge ELSE StagingReset
=============================================================================
