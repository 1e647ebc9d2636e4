----------------------------- MODULE PsumCollector -----------------------------
(***************************************************************************)
(* systolic/psum_output_collector.v: it pairs the words that leave the     *)
(* array's column FIFOs with the contexts they belong to and hands them to *)
(* the partial-sum banks or the output path as packets.                    *)
(*                                                                         *)
(* Words pass a return slot behind the one-cycle FIFO read, then one of    *)
(* two packet slots; the address at the head of the slots and the packet's *)
(* metadata are separate registers.  One action is one rising clock edge.  *)
(* The columns' FIFOs are one sequence of words that every column has; a   *)
(* descriptor is one value, of which the epoch stands for epoch and input  *)
(* bank.  Built with the tag check, as conv_layer_top_stream.v does.       *)
(***************************************************************************)
EXTENDS Naturals, Sequences

CONSTANTS
  CTX_DEPTH,      \* parameter CTX_DEPTH
  COLUMN_DEPTH,   \* words a column FIFO holds
  AddrMod,        \* 2^ADDR_W
  Descriptor,     \* contexts: records with epoch, num_pixels, is_final
  NoDescriptor,
  CorruptTags     \* tags that a word may carry instead of its own

ASSUME DepthAssumption == CTX_DEPTH \in Nat \ {0} /\ COLUMN_DEPTH \in Nat \ {0}
ASSUME AddrAssumption == AddrMod \in Nat \ {0}
ASSUME DescriptorAssumption ==
  /\ Descriptor # {}
  /\ \A c \in Descriptor : c.num_pixels \in Nat /\ c.num_pixels <= AddrMod
ASSUME NoDescriptorAssumption == NoDescriptor \notin Descriptor

VARIABLES
  ctx_queue,                              \* ctx_mem with its pointers
  active, active_ctx,                     \* the context being collected
  rd_count, out_count,
  return_valid_q, return_addr_q,          \* the return slot
  packet_count_q, packet_rd_ptr_q, packet_wr_ptr_q,
  packet_addr_q, packet_data_q,           \* the two packet slots
  packet_head_addr_q, packet_ctx,         \* head address, metadata registers
  context_done, context_done_ctx,
  tag_mismatch_sticky,
  columns, rd_word,                       \* the column FIFOs, their output
  coming, arrived,    \* contexts admitted, and words of the first in columns
  handed              \* the packet taken on the last edge

contextVars == <<ctx_queue, active, active_ctx, rd_count, out_count>>
packetVars == <<return_valid_q, return_addr_q, packet_count_q, packet_rd_ptr_q,
                packet_wr_ptr_q, packet_addr_q, packet_data_q,
                packet_head_addr_q, packet_ctx>>
doneVars == <<context_done, context_done_ctx, tag_mismatch_sticky>>
columnVars == <<columns, rd_word, coming, arrived>>
vars == <<contextVars, packetVars, doneVars, columnVars, handed>>

Pixels(c) == IF c.num_pixels = 0 THEN 1 ELSE c.num_pixels
OwnTag(c, n) == <<c.epoch, n = Pixels(c) - 1>>
Word(c, n) == [context |-> c, index |-> n, tag |-> OwnTag(c, n)]
Packet(c, n) == [context |-> c, addr |-> n, word |-> Word(c, n)]
NoPacket == [context |-> NoDescriptor, addr |-> 0, word |-> NoDescriptor]

-----------------------------------------------------------------------------
(* The combinational signals *)

pixels_to_collect == Pixels(active_ctx)
ctx_full == Len(ctx_queue) = CTX_DEPTH
ctx_ready(in) == in.enable /\ ~ctx_full /\ ~tag_mismatch_sticky
columns_ready == columns # <<>>

\* Mutant: the last marker of a returned word is not compared.
return_tag_okEpochOnly == rd_word.tag[1] = active_ctx.epoch

\* All columns carry one tag, and it is the one expected at this address.
return_tag_ok ==
  rd_word.tag = <<active_ctx.epoch, return_addr_q = pixels_to_collect - 1>>

bad_tag_return(in) ==
  /\ in.enable /\ active /\ return_valid_q
  /\ ~tag_mismatch_sticky /\ ~return_tag_ok

packet_queue_has_space == packet_count_q < 2
return_advance == return_valid_q /\ packet_queue_has_space
packet_queue_push == return_advance /\ return_tag_ok
packet_valid == packet_count_q # 0 /\ ~tag_mismatch_sticky
packet_pop(in) == packet_valid /\ in.packet_ready

\* Mutant: room is taken for granted behind a packet that leaves.
return_slot_releasedHasty == ~return_valid_q \/ packet_count_q # 0

\* The slot is free if it is empty or if its word finds registered room.
return_slot_released == ~return_valid_q \/ packet_queue_has_space
read_needed(in) ==
  in.enable /\ active /\ ~tag_mismatch_sticky /\ rd_count < pixels_to_collect
issue_read(in) == read_needed(in) /\ columns_ready /\ return_slot_released

\* Mutant: the last packet is counted from one.
completing_packetLate(in) == packet_pop(in) /\ out_count = pixels_to_collect

completing_packet(in) == packet_pop(in) /\ out_count = pixels_to_collect - 1

activates(in) == in.enable /\ ~active /\ ctx_queue # <<>>
completes(in) == in.enable /\ active /\ completing_packet(in)
advances(in) == in.enable /\ active /\ ~completing_packet(in)

\* The pipeline is emptied between contexts and while disabled.
clears(in) == ~in.enable \/ activates(in) \/ completes(in)

\* The head's address follows the slots one edge ahead of their contents.
HeadAddrNext(in) ==
  IF packet_pop(in)
  THEN IF packet_count_q > 1 THEN packet_addr_q[1 - packet_rd_ptr_q]
       ELSE IF packet_queue_push THEN return_addr_q ELSE 0
  ELSE IF packet_queue_push /\ packet_count_q = 0 THEN return_addr_q
  ELSE packet_head_addr_q

-----------------------------------------------------------------------------
Unknown == CHOOSE c \in Descriptor : TRUE

\* A reset clears everything but payloads, which no valid bit covers then.
Init ==
  /\ ctx_queue = <<>> /\ active = FALSE /\ active_ctx = Unknown
  /\ rd_count = 0 /\ out_count = 0
  /\ return_valid_q = FALSE /\ return_addr_q = 0
  /\ packet_count_q = 0 /\ packet_rd_ptr_q = 0 /\ packet_wr_ptr_q = 0
  /\ packet_addr_q = [p \in {0, 1} |-> 0]
  /\ packet_data_q = [p \in {0, 1} |-> Word(Unknown, 0)]
  /\ packet_head_addr_q = 0 /\ packet_ctx = Unknown
  /\ context_done = FALSE /\ context_done_ctx = Unknown
  /\ tag_mismatch_sticky = FALSE
  /\ columns = <<>> /\ rd_word = Word(Unknown, 0)
  /\ coming = <<>> /\ arrived = 0 /\ handed = NoPacket

Reset ==
  /\ ctx_queue' = <<>> /\ active' = FALSE /\ active_ctx' = Unknown
  /\ rd_count' = 0 /\ out_count' = 0
  /\ return_valid_q' = FALSE /\ return_addr_q' = 0
  /\ packet_count_q' = 0 /\ packet_rd_ptr_q' = 0 /\ packet_wr_ptr_q' = 0
  /\ packet_head_addr_q' = 0 /\ packet_ctx' = Unknown
  /\ context_done' = FALSE /\ context_done_ctx' = Unknown
  /\ tag_mismatch_sticky' = FALSE
  /\ columns' = <<>> /\ coming' = <<>> /\ arrived' = 0 /\ handed' = NoPacket
  /\ UNCHANGED <<packet_addr_q, packet_data_q, rd_word>>

ContextEdge(in) ==
  LET pushed == IF in.ctx_valid /\ ctx_ready(in) THEN <<in.ctx>> ELSE <<>>
  IN /\ ctx_queue' =
          (IF activates(in) THEN Tail(ctx_queue) ELSE ctx_queue) \o pushed
     /\ active' = (activates(in) \/ advances(in))
     /\ active_ctx' = IF activates(in) THEN Head(ctx_queue) ELSE active_ctx
     /\ rd_count' = IF ~in.enable \/ activates(in) THEN 0
                    ELSE IF advances(in) /\ issue_read(in) THEN rd_count + 1
                    ELSE rd_count
     /\ out_count' = IF ~in.enable \/ activates(in) THEN 0
                     ELSE IF advances(in) /\ packet_pop(in) THEN out_count + 1
                     ELSE out_count

\* A word that is not taken for good still moves the write pointer: the fault
\* it raised masks the slots until reset.
PacketEdge(in) ==
  LET flushes == clears(in) \/ bad_tag_return(in)
      pops == IF packet_pop(in) THEN 1 ELSE 0
      pushes == IF packet_queue_push THEN 1 ELSE 0
  IN /\ return_valid_q' =
          IF flushes THEN FALSE
          ELSE IF advances(in) /\ return_slot_released THEN issue_read(in)
          ELSE return_valid_q
     /\ return_addr_q' = IF advances(in) /\ issue_read(in)
                         THEN rd_count % AddrMod ELSE return_addr_q
     /\ packet_count_q' =
          IF flushes THEN 0
          ELSE IF advances(in) THEN packet_count_q + pushes - pops
          ELSE packet_count_q
     /\ packet_rd_ptr_q' =
          IF clears(in) THEN 0
          ELSE IF advances(in) THEN (packet_rd_ptr_q + pops) % 2
          ELSE packet_rd_ptr_q
     /\ packet_wr_ptr_q' =
          IF clears(in) THEN 0
          ELSE IF advances(in) /\ return_advance THEN 1 - packet_wr_ptr_q
          ELSE packet_wr_ptr_q
     /\ packet_head_addr_q' =
          IF flushes THEN 0
          ELSE IF advances(in) THEN HeadAddrNext(in) ELSE packet_head_addr_q
     /\ IF return_advance
        THEN /\ packet_addr_q' =
                  [packet_addr_q EXCEPT ![packet_wr_ptr_q] = return_addr_q]
             /\ packet_data_q' =
                  [packet_data_q EXCEPT ![packet_wr_ptr_q] = rd_word]
        ELSE UNCHANGED <<packet_addr_q, packet_data_q>>
     /\ packet_ctx' = active_ctx
     /\ handed' = IF packet_pop(in)
                  THEN [context |-> packet_ctx, addr |-> packet_head_addr_q,
                        word |-> packet_data_q[packet_rd_ptr_q]]
                  ELSE NoPacket

DoneEdge(in) ==
  /\ context_done' = completes(in)
  /\ context_done_ctx' = IF completes(in) THEN active_ctx ELSE context_done_ctx
  /\ tag_mismatch_sticky' = (tag_mismatch_sticky \/ bad_tag_return(in))

-----------------------------------------------------------------------------
(* The parties: the stream top admits contexts, the array fills the columns *)

\* A context is shown only on an edge that admits it; its words follow it.
AdmitEdge(in) ==
  /\ in.ctx_valid => ctx_ready(in)
  /\ coming' = (IF in.arrives /\ arrived + 1 = Pixels(Head(coming))
                THEN Tail(coming) ELSE coming)
                 \o (IF in.ctx_valid THEN <<in.ctx>> ELSE <<>>)

ColumnEdge(in) ==
  LET rest == IF issue_read(in) THEN Tail(columns) ELSE columns
  IN /\ rd_word' = IF issue_read(in) THEN Head(columns) ELSE rd_word
     /\ \/ ~in.arrives /\ columns' = rest /\ arrived' = arrived
        \/ /\ in.arrives /\ coming # <<>> /\ Len(columns) < COLUMN_DEPTH
           /\ arrived' = IF arrived + 1 = Pixels(Head(coming)) THEN 0
                         ELSE arrived + 1
           /\ \E tag \in {OwnTag(Head(coming), arrived)} \cup CorruptTags :
                columns' = Append(rest,
                  [Word(Head(coming), arrived) EXCEPT !.tag = tag])

Edge(in) ==
  /\ ContextEdge(in) /\ PacketEdge(in) /\ DoneEdge(in)
  /\ AdmitEdge(in) /\ ColumnEdge(in)

Waiting == (IF active THEN <<active_ctx>> ELSE <<>>) \o ctx_queue

\* The epochs in use, until the edge after the pulse that gives them back.
LiveEpochs ==
  {Waiting[k].epoch : k \in 1 .. Len(Waiting)}
    \cup (IF context_done THEN {context_done_ctx.epoch} ELSE {})

\* continuous_psum_enable is a configuration bit: it is low only between layers.
Inputs ==
  [enable : IF Waiting = <<>> /\ columns = <<>> THEN BOOLEAN ELSE {TRUE},
   ctx_valid : BOOLEAN,
   ctx : {c \in Descriptor : c.epoch \notin LiveEpochs},
   arrives : IF coming # <<>> THEN BOOLEAN ELSE {FALSE},
   packet_ready : IF packet_valid THEN BOOLEAN ELSE {FALSE}]

\* When every epoch is in use nothing can be admitted.
Quiet ==
  [enable : {TRUE}, ctx_valid : {FALSE}, ctx : {Unknown},
   arrives : IF coming # <<>> THEN BOOLEAN ELSE {FALSE},
   packet_ready : IF packet_valid THEN BOOLEAN ELSE {FALSE}]

Next == (\E in \in Inputs \cup Quiet : Edge(in)) \/ Reset

Spec == Init /\ [][Next]_vars

-----------------------------------------------------------------------------
TypeOK ==
  /\ Len(ctx_queue) <= CTX_DEPTH
  /\ \A k \in 1 .. Len(ctx_queue) : ctx_queue[k] \in Descriptor
  /\ active \in BOOLEAN /\ active_ctx \in Descriptor
  /\ rd_count \in 0 .. AddrMod /\ out_count \in 0 .. AddrMod
  /\ return_valid_q \in BOOLEAN /\ return_addr_q \in 0 .. AddrMod - 1
  /\ packet_count_q \in 0 .. 2
  /\ packet_rd_ptr_q \in {0, 1} /\ packet_wr_ptr_q \in {0, 1}
  /\ packet_addr_q \in [{0, 1} -> 0 .. AddrMod - 1]
  /\ packet_head_addr_q \in 0 .. AddrMod - 1
  /\ packet_ctx \in Descriptor
  /\ context_done \in BOOLEAN /\ context_done_ctx \in Descriptor
  /\ tag_mismatch_sticky \in BOOLEAN

\* Every word read is in exactly one place until its packet is taken, so that
\* "a legal final pop cannot coincide with an additional return", and the
\* address register shows the head slot's address although it is loaded apart
\* from it.
WordsAccounted ==
  /\ active /\ ~tag_mismatch_sticky =>
       rd_count = out_count + packet_count_q + (IF return_valid_q THEN 1 ELSE 0)
  /\ packet_count_q # 0 => packet_head_addr_q = packet_addr_q[packet_rd_ptr_q]
  /\ ~active => packet_count_q = 0 /\ ~return_valid_q

\* The safety of the collector, as one invariant.
CollectorSafe == TypeOK /\ WordsAccounted

Order == INSTANCE CollectOrder WITH
  Context <- Descriptor, Packets <- Pixels, NoContext <- NoDescriptor,
  waiting <- Waiting, next <- IF active THEN out_count ELSE 0,
  stopped <- tag_mismatch_sticky, handed <- handed,
  completed <- IF context_done THEN context_done_ctx ELSE NoDescriptor

\* Contexts are collected in order, and every packet carries its own context's
\* metadata, its address, and a word with its own tag.  A corrupted tag stops
\* the collector "so no data can retire under an uncertain descriptor identity".
OrderSpec == Order!OrderSpec

\* While tags are right, contexts are completed as long as any is accepted and
\* not complete: in their order (OrderSpec), hence every one.
AllCollected == []<>(Waiting = <<>> \/ context_done)
=============================================================================
