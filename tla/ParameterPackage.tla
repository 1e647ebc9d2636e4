---------------------------- MODULE ParameterPackage ----------------------------
(***************************************************************************)
(* The parameter images of tools/coco80/parameter_package.py.  A model     *)
(* root holds the exported bias and weight files and the manifests that    *)
(* bind them; generate_package packs them into two images and a manifest;  *)
(* verify_package reads those back.  The exporter may replace files at any *)
(* time, the generator may be killed between any two of its writes, and    *)
(* what it wrote may be damaged.  A digest is the thing it is taken of.    *)
(***************************************************************************)
EXTENDS HardwarePlan, SequencesExt

CONSTANTS Plan,            \* the convolutions
          Expected,        \* EXPECTED_BIAS_PACKAGE_BYTES, EXPECTED_WEIGHT_PACKAGE_BYTES
          Alignment,       \* PARAMETER_ALIGNMENT
          Trees,           \* the model roots the generator is run on
          NoFile, Unfinished,    \* a file that is not there, or not yet complete
          Zero, Wrong,     \* a padding cell, and a cell nobody wrote
          MaxTrouble       \* bound: how many exports and damages

VARIABLES model, written, gen, ver, trouble

package_vars == <<model, written, gen, ver, trouble>>

Kinds  == {"bias", "weight"}
Layers == DOMAIN Plan

Unit(kind)   == IF kind = "bias" THEN 4 ELSE 1
Window(kind) == IF kind = "bias" THEN Limits.bias_window_bytes ELSE Limits.weight_window_bytes
Area(l)      == Plan[l].kernel * Plan[l].kernel
IsDetect(l)  == Plan[l].detect_index # NoDetect

(* The exporter's files have two revisions; Plan is a list.                *)
Revisions == 1 .. 2

ASSUME PackageAssumption ==
    /\ Plan \in Seq(Range(Plan)) /\ \A l \in Layers : Plan[l].pad \in Nat
    /\ Alignment \in Nat \ {0}
    /\ \A r \in Revisions : r # NoFile /\ r # Unfinished
    /\ \A tree \in Trees : /\ DOMAIN tree = {"canonical", "local", "files"}
                           /\ tree.files \in [Layers -> [Kinds -> Revisions \cup {NoFile, Unfinished}]]

align_up(value) == ((value + Alignment - 1) \div Alignment) * Alignment

(* A cell is a number that says which it is: of which revision and layer,    *)
(* which channels and tap, fewer than sixteen of each.  A bias has tap 15.  *)
Cell(l, r, channel_out, channel_in, tap) == (((r * 16 + l) * 16 + channel_out) * 16 + channel_in) * 16 + tap

(* Revision r of the exported files: int32 biases, OIHW int8 weights. *)
BiasFile(l, r)   == [c \in 1 .. Plan[l].cout |-> Cell(l, r, c - 1, 0, 15)]
WeightFile(l, r) == [i \in 1 .. Plan[l].cout * Plan[l].cin * Area(l) |->
    Cell(l, r, (i - 1) \div (Plan[l].cin * Area(l)), ((i - 1) \div Area(l)) % Plan[l].cin, (i - 1) % Area(l))]

-----------------------------------------------------------------------------
(* The model root: model.files[l][kind] is the revision on disk, an entry  *)
(* of a manifest says what it declares of one layer.                       *)

Identity(l) == Plan[l]

QuantOk(q) ==
    /\ q.weight_zero_point = 0 /\ q.granularity = "per_tensor"
    /\ q.input_zero_point \in 0 .. 255 /\ q.output_zero_point \in 0 .. 255
    /\ q.rtl_mult \in 1 .. 65535 /\ q.rtl_shift \in 0 .. 15

(* _file_entry: present, of the size the layer needs, with the digest declared. *)
FileOk(l, kind, declared) == model.files[l][kind] = declared /\ declared \notin {NoFile, Unfinished}

(* _validate_layer_manifest *)
LayerManifestOk(e, l) ==
    /\ e.identity = Identity(l)
    /\ QuantOk(e.quant)
    /\ FileOk(l, "bias", e.bias) /\ FileOk(l, "weight", e.weight)
    /\ e.function \in {"none", IF IsDetect(l) THEN "identity" ELSE "leaky_relu_0p1"}

(* _validate_canonical_quant_layer: the biases are in the manifest too, and *)
(* the reduced ranges are the ones the RTL's centering cannot saturate.    *)
CanonicalLayerOk(e, l) ==
    /\ e.identity = Identity(l)
    /\ QuantOk(e.quant) /\ e.quant.input_zero_point <= 127 /\ e.quant.output_zero_point <= 127
    /\ e.function = IF IsDetect(l) THEN "identity" ELSE "leaky_relu_0p1"
    /\ FileOk(l, "bias", e.bias) /\ FileOk(l, "weight", e.weight)
    /\ e.bias_list = e.bias

(* load_layer_manifests: one source of truth, and one entry for each layer. *)
LoadOk ==
    IF model.canonical # <<>>
    THEN /\ model.local = <<>>
         /\ Len(model.canonical) = Len(Plan)
         /\ \A l \in Layers : CanonicalLayerOk(model.canonical[l], l)
    ELSE /\ Len(model.local) = Len(Plan)
         /\ \A i, j \in Layers : i # j => model.local[i].identity.layer_id # model.local[j].identity.layer_id
         /\ \A l \in Layers : \E i \in Layers :
               /\ model.local[i].identity.layer_id = Plan[l].layer_id
               /\ LayerManifestOk(model.local[i], l)

Loaded ==
    [l \in Layers |->
        IF model.canonical # <<>> THEN model.canonical[l]
        ELSE model.local[CHOOSE i \in Layers : model.local[i].identity.layer_id = Plan[l].layer_id]]

-----------------------------------------------------------------------------
(* build_bias_tile: 32 lanes a block, the lanes past the last channel zero. *)
build_bias_tile(raw, l) ==
    [p \in 1 .. Schedule(Plan[l]).cout_blocks * Limits.cout_tile |->
        IF p <= Plan[l].cout THEN raw[p] ELSE Zero]

(* Mutant: the reduction index runs over the channels first. *)
build_weight_tileChannelsFirst(raw, l) ==
    LET s == Schedule(Plan[l])
    IN  [p \in 1 .. s.cout_blocks * s.k_passes * WEIGHT_PACKET_BYTES |->
            LET lane        == (p - 1) % Limits.cout_tile
                row         == ((p - 1) \div Limits.cout_tile) % Limits.rows
                k_pass      == ((p - 1) \div WEIGHT_PACKET_BYTES) % s.k_passes
                block       == (p - 1) \div (WEIGHT_PACKET_BYTES * s.k_passes)
                global_k    == k_pass * Limits.rows + row
                channel_out == block * Limits.cout_tile + lane
            IN  IF global_k < s.k_total /\ channel_out < Plan[l].cout
                THEN raw[(channel_out * Plan[l].cin + (global_k % Plan[l].cin)) * Area(l)
                             + (global_k \div Plan[l].cin) + 1]
                ELSE Zero]

(* build_weight_tile: block by block, pass by pass, row by row, lane by lane. *)
build_weight_tile(raw, l) ==
    LET s == Schedule(Plan[l])
    IN  [p \in 1 .. s.cout_blocks * s.k_passes * WEIGHT_PACKET_BYTES |->
            LET lane        == (p - 1) % Limits.cout_tile
                row         == ((p - 1) \div Limits.cout_tile) % Limits.rows
                k_pass      == ((p - 1) \div WEIGHT_PACKET_BYTES) % s.k_passes
                block       == (p - 1) \div (WEIGHT_PACKET_BYTES * s.k_passes)
                global_k    == k_pass * Limits.rows + row
                channel_out == block * Limits.cout_tile + lane
            IN  IF global_k < s.k_total /\ channel_out < Plan[l].cout
                THEN raw[(channel_out * Plan[l].cin + global_k \div Area(l)) * Area(l)
                             + (global_k % Area(l)) + 1]
                ELSE Zero]

Repeated(tile, times) ==
    LET n == Len(tile) IN [p \in 1 .. n * times |-> tile[((p - 1) % n) + 1]]

(* _add_section, with the offset the entry keeps. *)
Offset(image, kind) == align_up(Unit(kind) * Len(image))
AddSection(image, kind, payload) ==
    image \o [n \in 1 .. Offset(image, kind) \div Unit(kind) - Len(image) |-> Zero] \o payload

-----------------------------------------------------------------------------
NoGen == [pc |-> "idle", sources |-> <<>>, layers |-> <<>>, bias |-> <<>>, weight |-> <<>>,
         raced |-> {}]

NoRead == [pc |-> "idle", manifest |-> NoFile, bias |-> NoFile, weight |-> NoFile, accepted |-> FALSE]

PackageInit ==
    /\ model \in Trees
    /\ written = [manifest |-> NoFile, bias |-> NoFile, weight |-> NoFile]
    /\ gen = NoGen /\ ver = NoRead
    /\ trouble = MaxTrouble

Fails == gen' = NoGen /\ UNCHANGED written

(* generate_package checks the plan and the manifests first ... *)
Load ==
    /\ gen.pc = "idle"
    /\ plan_ok(Plan)
    /\ IF LoadOk THEN gen' = [NoGen EXCEPT !.pc = "pack", !.sources = Loaded] /\ UNCHANGED written
                 ELSE Fails
    /\ UNCHANGED <<model, ver, trouble>>

SectionEntry(image, kind, payload, packets) ==
    [offset |-> Offset(image, kind), bytes |-> Unit(kind) * Len(payload), packets |-> packets, sha |-> payload]

(* ... then reads each file again and appends its section to the image. *)
PackLayer ==
    /\ gen.pc = "pack" /\ Len(gen.layers) < Len(Plan)
    /\ LET l   == Len(gen.layers) + 1
           s   == Schedule(Plan[l])
           now == model.files[l]
       IN  IF {now.bias, now.weight} \cap {NoFile, Unfinished} # {} THEN Fails
           ELSE LET bias   == Repeated(build_bias_tile(BiasFile(l, now.bias), l), s.tile_count)
                    weight == Repeated(build_weight_tile(WeightFile(l, now.weight), l), s.tile_count)
                IN  IF 4 * Len(bias) # s.bias_bytes \/ Len(weight) # s.weight_bytes THEN Fails
                    ELSE /\ gen' = [gen EXCEPT
                              !.layers = Append(@, [index |-> l, identity |-> Plan[l], schedule |-> s,
                                  source |-> [bias |-> gen.sources[l].bias, weight |-> gen.sources[l].weight],
                                  quant |-> gen.sources[l].quant, provenance |-> gen.sources[l].provenance,
                                  bias |-> SectionEntry(gen.bias, "bias", bias, s.bias_packets),
                                  weight |-> SectionEntry(gen.weight, "weight", weight, s.weight_packets)]),
                              !.bias = AddSection(@, "bias", bias),
                              !.weight = AddSection(@, "weight", weight)]
                         /\ UNCHANGED written
    /\ UNCHANGED <<model, ver, trouble>>

(* The totals are checked before anything is written. *)
PackedAll ==
    /\ gen.pc = "pack" /\ Len(gen.layers) = Len(Plan)
    /\ IF \A kind \in Kinds : LET size == Unit(kind) * Len(gen[kind])
                              IN  size = Expected[kind] /\ size <= Window(kind)
       THEN gen' = [gen EXCEPT !.pc = "bias"] /\ UNCHANGED written
       ELSE Fails
    /\ UNCHANGED <<model, ver, trouble>>

PayloadBytes(layers, kind) == FoldLeft(LAMBDA t, e : t + e[kind].bytes, 0, layers)

PackageHeader ==
    [version |-> 1, alignment |-> Alignment, rows |-> Limits.rows, cout_tile |-> Limits.cout_tile,
     packets |-> <<BIAS_PACKET_BYTES, WEIGHT_PACKET_BYTES>>, plan |-> Plan]

Manifest ==
    [header |-> PackageHeader,
     files  |-> [kind \in Kinds |-> [payload_bytes |-> PayloadBytes(gen.layers, kind),
                                     file_bytes |-> Unit(kind) * Len(gen[kind]),
                                     window_bytes |-> Window(kind), sha |-> gen[kind]]],
     provenance |-> {gen.layers[l].provenance : l \in Layers},
     layers |-> gen.layers, raced |-> gen.raced]

(* write_bytes and write_text empty the file, then fill it. *)
Write(field, value, next) ==
    /\ gen.pc = field
    /\ IF written[field] # Unfinished
       THEN written' = [written EXCEPT ![field] = Unfinished] /\ UNCHANGED gen
       ELSE /\ written' = [written EXCEPT ![field] = value]
            /\ gen' = [gen EXCEPT !.pc = next]
    /\ UNCHANGED <<model, ver, trouble>>

WriteFiles ==
    \/ Write("bias", gen.bias, "weight")
    \/ Write("weight", gen.weight, "manifest")
    \/ Write("manifest", Manifest, "verify")

-----------------------------------------------------------------------------
(* verify_package, of a manifest and two images as they were read. *)

(* _section_bytes *)
SectionIn(image, kind, e) ==
    /\ e.offset % Alignment = 0 /\ e.bytes >= 1 /\ e.offset + e.bytes <= Unit(kind) * Len(image)

Section(image, kind, e) ==
    SubSeq(image, e.offset \div Unit(kind) + 1, (e.offset + e.bytes) \div Unit(kind))

FileVerified(m, kind, image) ==
    LET e == m.files[kind]
    IN  /\ e.window_bytes = Window(kind) /\ Expected[kind] <= Window(kind)
        /\ image \notin {NoFile, Unfinished}
        /\ e.file_bytes = Unit(kind) * Len(image) /\ e.file_bytes = Expected[kind]
        /\ e.sha = image

EntryVerified(e, l) ==
    /\ e.index = l /\ e.identity = Plan[l] /\ e.schedule = Schedule(Plan[l])
    /\ QuantOk(e.quant)

SectionVerified(m, l, kind, image) ==
    LET e    == m.layers[l][kind]
        s    == Schedule(Plan[l])
        prev == IF l = 1 THEN 0 ELSE m.layers[l - 1][kind].offset + m.layers[l - 1][kind].bytes
    IN  /\ SectionIn(image, kind, e)
        /\ e.offset >= prev
        /\ e.bytes = (IF kind = "bias" THEN s.bias_bytes ELSE s.weight_bytes)
        /\ e.packets = (IF kind = "bias" THEN s.bias_packets ELSE s.weight_packets)
        /\ e.sha = Section(image, kind, e)

(* _verify_padding: lanes past the last channel, rows past the last input. *)
PaddingVerified(m, l, bias, weight) ==
    LET s     == Schedule(Plan[l])
        b     == Section(bias, "bias", m.layers[l].bias)
        w     == Section(weight, "weight", m.layers[l].weight)
        lanes == s.cout_blocks * Limits.cout_tile
        Lane(p) == ((p \div (WEIGHT_PACKET_BYTES * s.k_passes)) % s.cout_blocks) * Limits.cout_tile
                       + (p % Limits.cout_tile)
        K(p)    == ((p \div WEIGHT_PACKET_BYTES) % s.k_passes) * Limits.rows
                       + ((p \div Limits.cout_tile) % Limits.rows)
    IN  /\ \A p \in DOMAIN b : (p - 1) % lanes >= Plan[l].cout => b[p] = Zero
        /\ \A p \in DOMAIN w : Lane(p - 1) >= Plan[l].cout \/ K(p - 1) >= s.k_total => w[p] = Zero

verify_package(m, bias, weight) ==
    /\ m \notin {NoFile, Unfinished}
    /\ m.header = PackageHeader
    /\ FileVerified(m, "bias", bias) /\ FileVerified(m, "weight", weight)
    /\ Len(m.layers) = Len(Plan)
    /\ \A l \in Layers : /\ EntryVerified(m.layers[l], l)
                         /\ SectionVerified(m, l, "bias", bias) /\ SectionVerified(m, l, "weight", weight)
                         /\ PaddingVerified(m, l, bias, weight)
    /\ \A kind \in Kinds : m.files[kind].payload_bytes = PayloadBytes(m.layers, kind)
                           /\ m.files[kind].payload_bytes = Expected[kind]
    /\ m.provenance = {m.layers[l].provenance : l \in Layers}

(* The generator ends with a verification of its own. *)
SelfVerify ==
    /\ gen.pc = "verify"
    /\ gen' = [NoGen EXCEPT !.pc = IF verify_package(written.manifest, written.bias, written.weight) THEN "idle" ELSE "failed"]
    /\ UNCHANGED <<model, written, ver, trouble>>

GeneratorKilled == gen.pc # "idle" /\ gen' = NoGen /\ UNCHANGED <<model, written, ver, trouble>>

(* A consumer reads the manifest, then the images, then decides. *)
Read ==
    /\ ver' = CASE ver.pc = "idle"   -> [NoRead EXCEPT !.pc = "bias", !.manifest = written.manifest]
                [] ver.pc = "bias"   -> [ver EXCEPT !.pc = "weight", !.bias = written.bias]
                [] ver.pc = "weight" -> [ver EXCEPT !.pc = "done", !.weight = written.weight,
                                            !.accepted = verify_package(ver.manifest, ver.bias, written.weight)]
                [] ver.pc = "done"   -> NoRead
    /\ UNCHANGED <<model, written, gen, trouble>>

-----------------------------------------------------------------------------
(* The exporter writes a new revision of one layer, or gets no further than *)
(* one of its files, or than emptying it; or it writes the whole root anew,  *)
(* with one canonical manifest.  While the package is written the model is   *)
(* not read, so that an export may as well come after it.                    *)
Renewed(e) == [e EXCEPT !.bias = 2, !.bias_list = 2, !.weight = 2, !.provenance = 2]

Entries(field, l) == [i \in DOMAIN model[field] |->
    IF model[field][i].identity = Plan[l] THEN Renewed(model[field][i]) ELSE model[field][i]]

NewFiles == [kind \in Kinds |-> 2]

(* The files that are replaced after the check of their digests and before   *)
(* they are read again.                                                    *)
Overtaken ==
    {f \in Layers \X Kinds : /\ gen.pc = "pack" /\ f[1] > Len(gen.layers)
                            /\ model'.files[f[1]][f[2]] # model.files[f[1]][f[2]]}

Export ==
    /\ trouble > 0 /\ gen.pc \in {"idle", "pack"}
    /\ trouble' = trouble - 1
    /\ \/ \E l \in Layers :
            \/ \E kind \in Kinds, r \in {Unfinished, 2} : model' = [model EXCEPT !.files[l][kind] = r]
            \/ model' = [model EXCEPT !.files[l] = NewFiles,
                                      !.canonical = Entries("canonical", l), !.local = Entries("local", l)]
       \/ /\ LoadOk
          /\ model' = [files |-> [l \in Layers |-> NewFiles], local |-> <<>>,
                       canonical |-> [l \in Layers |-> Renewed(Loaded[l])]]
    /\ gen' = [gen EXCEPT !.raced = @ \cup Overtaken]
    /\ UNCHANGED <<written, ver>>

(* One cell of an image, or one field of the package manifest, is not what  *)
(* was written.                                                             *)
DamagedSections(m, l, kind) ==
    {[m EXCEPT !.layers[l][kind].offset = @ + Alignment], [m EXCEPT !.layers[l][kind].offset = @ - 4],
     [m EXCEPT !.layers[l][kind].bytes = @ - Alignment], [m EXCEPT !.layers[l][kind].packets = @ + 1],
     [m EXCEPT !.files[kind].window_bytes = 0]}

DamagedManifests(m) ==
    (UNION {DamagedSections(m, Len(Plan), kind) : kind \in Kinds})
        \cup {[m EXCEPT !.layers = Reverse(@)], [m EXCEPT !.layers = SubSeq(@, 2, Len(@))],
              [m EXCEPT !.layers[1].schedule.k_passes = @ + 1]}

DamagePackage ==
    /\ trouble > 0 /\ gen.pc = "idle"
    /\ trouble' = trouble - 1
    /\ \/ /\ written.manifest \notin {NoFile, Unfinished}
          /\ \E m \in DamagedManifests(written.manifest) : written' = [written EXCEPT !.manifest = m]
       \/ \E kind \in Kinds :
             /\ written[kind] \notin {NoFile, Unfinished}
             /\ \/ \E i \in {1, Len(written[kind])} : written' = [written EXCEPT ![kind][i] = Wrong]
                \/ written' = [written EXCEPT ![kind] = Tail(@)]
    /\ UNCHANGED <<model, gen, ver>>

PackageNext == Load \/ PackLayer \/ PackedAll \/ WriteFiles \/ SelfVerify \/ GeneratorKilled \/ Read \/ Export \/ DamagePackage

PackageSpec == PackageInit /\ [][PackageNext]_package_vars
-----------------------------------------------------------------------------
(* What the array must be fed in one tile of layer l, from revision r of    *)
(* its weights: row by row the reduction index, lane by lane the channel.   *)
FedWeight(l, r, block, k_pass, row, lane) ==
    LET k  == k_pass * Limits.rows + row
        co == block * Limits.cout_tile + lane
    IN  IF k < Plan[l].cin * Area(l) /\ co < Plan[l].cout
        THEN Cell(l, r, co, k \div Area(l), k % Area(l)) ELSE Zero

FedBias(l, r, channel) == IF channel < Plan[l].cout THEN Cell(l, r, channel, 0, 15) ELSE Zero

Feeds(m, bias, weight, l, rb, rw) ==
    LET s  == Schedule(Plan[l])
        b0 == m.layers[l].bias.offset \div 4
        w0 == m.layers[l].weight.offset
    IN  \A t \in 0 .. s.tile_count - 1, block \in 0 .. s.cout_blocks - 1, lane \in 0 .. Limits.cout_tile - 1 :
          LET channel == block * Limits.cout_tile + lane
          IN  /\ bias[b0 + t * s.cout_blocks * Limits.cout_tile + channel + 1] = FedBias(l, rb, channel)
              /\ \A k_pass \in 0 .. s.k_passes - 1, row \in 0 .. Limits.rows - 1 :
                    weight[w0 + (((t * s.cout_blocks + block) * s.k_passes + k_pass) * Limits.rows + row)
                                  * Limits.cout_tile + lane + 1]
                        = FedWeight(l, rw, block, k_pass, row, lane)

(* The revisions are those of the digests that the source entry has, of all  *)
(* files but the raced ones.                                               *)
Declared(source, l, rb, rw, raced) ==
    /\ source.bias = rb \/ <<l, "bias">> \in raced
    /\ source.weight = rw \/ <<l, "weight">> \in raced

(* Whatever was exported, killed, half written or damaged in between, a      *)
(* package that verify_package accepts feeds the array: every tile of every  *)
(* layer finds, at the offset the manifest gives, its weights and biases,    *)
(* each of one revision, and zeros elsewhere.  Of every file that was not    *)
(* replaced between the check of its digest and its rereading the revision   *)
(* is the one whose digest the manifest has, also when other files were      *)
(* (parameter_package.py:167-200, 691-764, 886-1102).                       *)
AcceptedFeedsArray ==
    ver.accepted =>
        \A l \in Layers : \E rb, rw \in Revisions :
            /\ Feeds(ver.manifest, ver.bias, ver.weight, l, rb, rw)
            /\ Declared(ver.manifest.layers[l].source, l, rb, rw, ver.manifest.raced)

(* What parameter_package.py:3-6 says, that metadata are bound into the       *)
(* package manifest "without silently mixing artifacts from another          *)
(* calibration/export": every section of an accepted package holds the file   *)
(* whose digest stands beside it.  The code does not keep it: no digest is    *)
(* taken of what _read_bound_file reads (691-697).                           *)
NothingMixed ==
    ver.accepted =>
        \A l \in Layers : LET source == ver.manifest.layers[l].source
                          IN  Feeds(ver.manifest, ver.bias, ver.weight, l, source.bias, source.weight)

(* A package that was generated to the end passes the generator's own        *)
(* verification: the two agree on every size, offset and padding           *)
(* (parameter_package.py:700-883).                                         *)
GeneratedVerifies == gen.pc # "failed"
=============================================================================
