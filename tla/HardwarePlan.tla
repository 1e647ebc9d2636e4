------------------------------ MODULE HardwarePlan ------------------------------
(***************************************************************************)
(* The release plan of tools/coco80/hardware_plan.py: from the geometry of *)
(* a convolution and the height its output is cut into, everything the     *)
(* parameter streams, the DMA and the on-chip buffers depend on, and which *)
(* geometries the r5 build accepts.                                        *)
(***************************************************************************)
EXTENDS Integers, Sequences, FiniteSets, Functions

CONSTANTS Limits,      \* HardwareLimits, with the array's shape
          Geometries   \* the geometries schedule_layer is asked about

ASSUME LimitsAssumption ==
    /\ {Limits.rows, Limits.cout_tile} \subseteq Nat \ {0}
    /\ {Limits.psum_depth, Limits.materialized_depth, Limits.dma_max_length} \subseteq Nat

VARIABLE asked               \* the one of them of the present call

ASSUME GeometriesAssumption == \A layer \in Geometries : layer.pad \in Nat

BIAS_PACKET_BYTES   == Limits.cout_tile * 4
WEIGHT_PACKET_BYTES == Limits.rows * Limits.cout_tile

(* Mutant: rounded down. *)
floor_div(value, divisor) == value \div divisor

ceil_div(value, divisor) == (value + divisor - 1) \div divisor
conv_output_dim(size, kernel, stride, pad) == (size + 2 * pad - kernel) \div stride + 1

NoDetect == -1

NewLayer(id, index, from, to, h, w, cin, cout, kernel, tile_h, pool, detect) ==
    [layer_id |-> id, model_index |-> index, detect_index |-> detect,
     input_tensor |-> from, output_tensor |-> to, fm_h |-> h, fm_w |-> w,
     cin |-> cin, cout |-> cout, kernel |-> kernel, stride |-> 1,
     pad |-> IF kernel = 3 THEN 1 ELSE 0, pool_stride |-> pool, tile_h |-> tile_h]

(* The thirteen convolutions of COCO80 YOLOv3-tiny. *)
COCO80_CONV_LAYERS ==
  << NewLayer("m0",  0,  "input",    "pool1", 416, 416, 3, 16, 3, 2, 2, NoDetect),
     NewLayer("m2",  2,  "pool1",    "pool3", 208, 208, 16, 32, 3, 4, 2, NoDetect),
     NewLayer("m4",  4,  "pool3",    "pool5", 104, 104, 32, 64, 3, 8, 2, NoDetect),
     NewLayer("m6",  6,  "pool5",    "pool7", 52, 52, 64, 128, 3, 8, 2, NoDetect),
     NewLayer("m8",  8,  "pool7",    "m8",    26, 26, 128, 256, 3, 13, 0, NoDetect),
     NewLayer("m10", 10, "pool9",    "m10",   13, 13, 256, 512, 3, 13, 0, NoDetect),
     NewLayer("m13", 13, "pool12",   "m13",   13, 13, 512, 1024, 3, 8, 0, NoDetect),
     NewLayer("m14", 14, "m13",      "m14",   13, 13, 1024, 256, 1, 13, 0, NoDetect),
     NewLayer("m15", 15, "m14",      "m15",   13, 13, 256, 512, 3, 13, 0, NoDetect),
     NewLayer("m16", 16, "m14",      "m16",   13, 13, 256, 128, 1, 13, 0, NoDetect),
     NewLayer("m19", 19, "concat18", "m19",   26, 26, 384, 256, 3, 6, 0, NoDetect),
     NewLayer("p4_detect", 20, "m19", "p4_detect", 26, 26, 256, 255, 1, 13, 0, 0),
     NewLayer("p5_detect", 20, "m15", "p5_detect", 13, 13, 512, 255, 1, 13, 0, 1) >>

-----------------------------------------------------------------------------
(* schedule_layer: the numbers of one layer ... *)
Schedule(layer) ==
    LET conv_h      == conv_output_dim(layer.fm_h, layer.kernel, layer.stride, layer.pad)
        conv_w      == conv_output_dim(layer.fm_w, layer.kernel, layer.stride, layer.pad)
        pooled      == layer.pool_stride # 0
        out_h       == IF pooled THEN conv_h \div 2 ELSE conv_h
        out_w       == IF pooled THEN conv_w \div 2 ELSE conv_w
        k_total     == layer.cin * layer.kernel * layer.kernel
        k_passes    == ceil_div(k_total, Limits.rows)
        cout_blocks == ceil_div(layer.cout, Limits.cout_tile)
        tile_count  == ceil_div(conv_h, layer.tile_h)
        pixels      == conv_w * layer.tile_h
        out_pixels  == IF pooled THEN (conv_w \div 2) * (layer.tile_h \div 2) ELSE pixels
        packets     == tile_count * cout_blocks
    IN  [conv_h |-> conv_h, conv_w |-> conv_w, output_h |-> out_h, output_w |-> out_w,
         k_total |-> k_total, k_passes |-> k_passes, cout_blocks |-> cout_blocks,
         cout_tail_channels |-> layer.cout - (cout_blocks - 1) * Limits.cout_tile,
         tile_count |-> tile_count, last_tile_h |-> conv_h - (tile_count - 1) * layer.tile_h,
         max_tile_pixels |-> pixels, max_tile_output_pixels |-> out_pixels,
         materialized_entries |-> pixels * k_passes,
         packed_reorder_entries |-> out_pixels * cout_blocks,
         line_words |-> ceil_div(layer.cin, 4) * ceil_div(layer.fm_w, 2),
         ifm_bytes |-> layer.fm_h * layer.fm_w * layer.cin,
         ofm_bytes |-> out_h * out_w * layer.cout,
         bias_packets |-> packets, weight_packets |-> packets * k_passes,
         bias_bytes |-> packets * BIAS_PACKET_BYTES,
         weight_bytes |-> packets * k_passes * WEIGHT_PACKET_BYTES]

(* ... and what it rejects, before and after they are known. *)
GeometryOk(layer) ==
    /\ layer.kernel \in {1, 3} /\ layer.stride \in {1, 2} /\ layer.pool_stride \in {0, 2}
    /\ layer.fm_h \in 0 .. Limits.fm_h_max /\ layer.fm_w \in 0 .. Limits.fm_w_max
    /\ layer.cin \in 3 .. Limits.max_channels /\ layer.cout \in 1 .. Limits.max_channels
    /\ layer.fm_h > 0 /\ layer.fm_w > 0 /\ layer.pad >= 0
    /\ layer.fm_h + 2 * layer.pad >= layer.kernel /\ layer.fm_w + 2 * layer.pad >= layer.kernel
    /\ layer.tile_h \in 1 .. conv_output_dim(layer.fm_h, layer.kernel, layer.stride, layer.pad)

PoolOk(layer, s) ==
    layer.pool_stride # 0 =>
        /\ s.conv_h % 2 = 0 /\ s.conv_w % 2 = 0 /\ layer.tile_h % 2 = 0
        /\ s.last_tile_h % 2 = 0

CapacityOk(layer, s) ==
    /\ s.k_total <= Limits.max_k_total /\ s.k_passes <= Limits.max_passes
    /\ s.max_tile_pixels <= Limits.psum_depth
    /\ s.materialized_entries <= Limits.materialized_depth
    /\ s.packed_reorder_entries <= Limits.packed_reorder_depth
    /\ s.line_words <= Limits.line_bank_depth
    /\ layer.kernel = 1 => s.max_tile_pixels <= Limits.ifm_fifo_depth
    /\ \A size \in {s.bias_bytes, s.weight_bytes, s.ifm_bytes, s.ofm_bytes} :
          size > 0 /\ size < Limits.dma_max_length

schedule_layer_ok(layer) ==
    GeometryOk(layer) /\ PoolOk(layer, Schedule(layer)) /\ CapacityOk(layer, Schedule(layer))

Total(plan, field) == FoldFunction(+, 0, [n \in DOMAIN plan |-> Schedule(plan[n])[field]])

(* build_hardware_plan, without and with the release contract. *)
plan_ok(plan) ==
    /\ plan # <<>>
    /\ \A i, j \in DOMAIN plan : plan[i].layer_id = plan[j].layer_id => i = j
    /\ \A i \in DOMAIN plan : schedule_layer_ok(plan[i])
    /\ Total(plan, "bias_bytes") <= Limits.bias_window_bytes
    /\ Total(plan, "weight_bytes") <= Limits.weight_window_bytes

release_ok(plan, bias_bytes, weight_bytes) ==
    /\ plan_ok(plan)
    /\ plan = COCO80_CONV_LAYERS /\ Len(plan) = 13
    /\ Total(plan, "bias_bytes") = bias_bytes /\ Total(plan, "weight_bytes") = weight_bytes
    /\ \A i \in {Len(plan) - 1, Len(plan)} :
          /\ plan[i].cout = 255
          /\ Schedule(plan[i]).cout_blocks = 8 /\ Schedule(plan[i]).cout_tail_channels = 31
-----------------------------------------------------------------------------
(* Tile t of a layer, from the first to the last row of the convolution. *)
TileRows(layer, s, t) ==
    t * layer.tile_h .. t * layer.tile_h + (IF t = s.tile_count - 1 THEN s.last_tile_h ELSE layer.tile_h) - 1

(* Parts of one size that cover 0 .. whole - 1, the last of them not empty. *)
Covers(parts, size, whole) == (parts - 1) * size < whole /\ whole <= parts * size

(* What an accepted layer can rely on: every row of the convolution is in    *)
(* exactly one tile and every pooling window in one tile, the passes and    *)
(* the blocks cover the reduction and the channels with none to spare, the  *)
(* tail fits a block, and the output is as high and wide as the windows     *)
(* that fit the padded input (hardware_plan.py:262-379).                    *)
TilesWhole(layer) ==
    LET s == Schedule(layer)
        Fits(size, out) == LET last == (out - 1) * layer.stride + layer.kernel
                           IN  last <= size + 2 * layer.pad /\ last + layer.stride > size + 2 * layer.pad
    IN  /\ s.last_tile_h \in 1 .. layer.tile_h
        /\ \A y \in 0 .. s.conv_h - 1 :
              \E t \in 0 .. s.tile_count - 1 :
                 /\ y \in TileRows(layer, s, t)
                 /\ \A u \in 0 .. s.tile_count - 1 : y \in TileRows(layer, s, u) => u = t
        /\ layer.pool_stride # 0 =>
              \A p \in 0 .. s.output_h - 1 :
                 \E t \in 0 .. s.tile_count - 1 : {2 * p, 2 * p + 1} \subseteq TileRows(layer, s, t)
        /\ Covers(s.k_passes, Limits.rows, s.k_total)
        /\ Covers(s.cout_blocks, Limits.cout_tile, layer.cout)
        /\ s.cout_tail_channels \in 1 .. Limits.cout_tile
        /\ Fits(layer.fm_h, s.conv_h) /\ Fits(layer.fm_w, s.conv_w)

(* The geometry that is asked about is cut whole, if it is accepted. *)
PlanSound == schedule_layer_ok(asked) => TilesWhole(asked)
==============================================================================
