------------------------------ MODULE MCPsumLive ------------------------------
(***************************************************************************)
(* Partial sums come to an end and go on for ever: the output collector    *)
(* by itself, with words, columns and packet slots, and the feedback loop  *)
(* around the bank scoreboard, of which one is chosen in the initial state *)
(* and takes steps.                                                        *)
(***************************************************************************)
EXTENDS PsumFeedback

CONSTANTS CTX_DEPTH, COLUMN_DEPTH, AddrMod, Epochs, PixelCounts, NoDescriptor

VARIABLES
  which,
  ctx_queue, active, active_ctx, rd_count, out_count,
  return_valid_q, return_addr_q, packet_count_q, packet_rd_ptr_q, packet_wr_ptr_q,
  packet_addr_q, packet_data_q, packet_head_addr_q, packet_ctx,
  collector_done, collector_done_ctx, tag_mismatch_sticky,
  columns, rd_word, coming, arrived, handed

Descriptors ==
  {[epoch |-> e, num_pixels |-> n, is_final |-> e = 0] :
     e \in Epochs, n \in PixelCounts}

Collector == INSTANCE PsumCollector
    WITH Descriptor <- Descriptors, CorruptTags <- {},
         context_done <- collector_done, context_done_ctx <- collector_done_ctx

loop_vars == <<vars, loopVars>>
collector_vars ==
  <<ctx_queue, active, active_ctx, rd_count, out_count,
    return_valid_q, return_addr_q, packet_count_q, packet_rd_ptr_q, packet_wr_ptr_q,
    packet_addr_q, packet_data_q, packet_head_addr_q, packet_ctx,
    collector_done, collector_done_ctx, tag_mismatch_sticky,
    columns, rd_word, coming, arrived, handed>>
all_vars == <<which, loop_vars, collector_vars>>

\* One word or packet is a tile of one context; three passes use each bank as
\* parent and as child; two pixels make a context whose first and last differ.
MCChains ==
  {[passes |-> 1, pixels |-> 1], [passes |-> 3, pixels |-> 1],
   [passes |-> 2, pixels |-> 2]}

CollectorStep(in) ==
  which = "collector" /\ Collector!Edge(in) /\ UNCHANGED <<which, loop_vars>>
LoopStep(in) ==
  which = "loop" /\ LoopEdge(in) /\ UNCHANGED <<which, collector_vars>>

CollectorInputs == Collector!Inputs \cup Collector!Quiet

LiveInit ==
  /\ which \in {"collector", "loop"} /\ LoopInit /\ Collector!Init
  /\ which = "collector" => chain = CHOOSE c \in Chains : TRUE

LiveNext ==
  \/ \E in \in CollectorInputs : CollectorStep(in)
  \/ \E in \in Inputs : LoopStep(in)

\* The clock runs, words of admitted contexts come, and packets are taken; in
\* the loop, prepared contexts are started, vectors come, and packets come and
\* are taken.
LiveSpec ==
  /\ LiveInit /\ [][LiveNext]_all_vars /\ WF_all_vars(LiveNext)
  /\ []<>(coming = <<>> \/ columns # <<>>)
  /\ []<>(~Collector!packet_valid \/ handed # Collector!NoPacket)
  /\ []<>(which = "loop" => ~start_waits)
  /\ []<>(which = "loop" => ~fire_waits \/ compute_done)
  /\ []<>(which = "loop" => ~packet_waits)
-----------------------------------------------------------------------------
(* PsumCollector.AllCollected: while tags are right, one accepted context    *)
(* after the other is completed.                                            *)
AllCollected == Collector!AllCollected

(* The feedback loop never stops: banks are freed and allocated, sums        *)
(* written, committed and read again for ever, and one context after the    *)
(* other completes, however few places the event queues have.               *)
LoopNeverStops == []<>(which = "collector" \/ context_done # NoContext)
=============================================================================
