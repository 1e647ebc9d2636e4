------------------------------ MODULE BoardResults ------------------------------
(***************************************************************************)
(* The evaluators of tools/coco80 and the files they are given.            *)
(* board_evaluate.py computes COCO metrics of the raw heads of all inputs; *)
(* board_conformance.py compares every tensor of some selected inputs with *)
(* the host's own; network_evaluate.py compares the detections of a        *)
(* network run with what the host decodes of the raw heads of an SD run.   *)
(*                                                                         *)
(* A campaign is one SD run and one network run with the same inputs and   *)
(* parameters.  The files are those of one campaign, until some are mixed  *)
(* up with those of another, damaged or cut short.  A CRC or digest is the *)
(* thing it is taken of, tensors and detections are equal or not, and      *)
(* metrics of unequal predictions may still agree.  The files do not       *)
(* change while one evaluator reads them.                                  *)
(***************************************************************************)
EXTENDS Integers, Sequences, FiniteSets, SequencesExt

CONSTANTS Campaigns,       \* what was run, see SdRecords and NetRecords
          Scale,           \* parameters -> output scales of their heads
          Tensors,         \* NODE_TENSOR_COUNT
          SelectionCount,  \* CONFORMANCE_COUNT
          ExpectedCounts,  \* values of --expected-count
          ReferenceCount,  \* images of the reference, 5000
          Missing,         \* nothing selected
          MaxMixed         \* bound: faults in one set of files

VARIABLES tool,            \* "accuracy", "conformance" or "product"
          ev,              \* the files
          mixed,           \* faults so far
          verdict

evars == <<tool, ev, mixed, verdict>>

(* The selection, of records of one input index, and its manifest.  Whoever   *)
(* reads it writes down its CRC.                                           *)
Selection(c) ==
    [input |-> c.set, manifest |-> <<c.set, c.sel>>,
     records |-> [k \in DOMAIN c.sel |-> [image |-> c.set.ids[c.sel[k]], record |-> c.sel[k]]]]

Chosen(c) == IF c.sel = <<>> THEN Missing ELSE Selection(c)

Package(set, image) == <<set.rev, image>>
Heads(package, param)   == <<"heads", package, param>>
Node(t, package, param) == IF t = Tensors THEN Heads(package, param) ELSE <<"node", t, package, param>>
Detections(heads, profile) == <<"detections", heads, profile>>

(* Records of the input index: the SD run takes those selected or the first   *)
(* c.limit, the network run those selected or c.count after the first ones.  *)
SdRecords(c)  == IF c.sel = <<>> THEN [n \in 1 .. c.limit |-> n] ELSE c.sel
NetRecords(c) == IF c.sel = <<>> THEN [n \in 1 .. c.count |-> c.first + n] ELSE c.sel

Image(c, n) == c.set.ids[n]
Input(c, n) == Package(c.set, Image(c, n))

(* What the accelerator made of an input; a campaign may get record 1 wrong.  *)
Computed(c, n, t) == IF c.wrong /\ n = 1 THEN <<"wrong", t>> ELSE Node(t, Input(c, n), c.param)

Raw(c, n) == [kind |-> "raw", input |-> Input(c, n), param |-> c.param, scale |-> Scale[c.param],
              heads |-> Computed(c, n, Tensors)]

Result(c, n) == [kind |-> "result", image |-> Image(c, n), input |-> Input(c, n), raw |-> Raw(c, n),
                 profile |-> c.profile, dets |-> Detections(Raw(c, n).heads, c.profile)]

-----------------------------------------------------------------------------
(* The files of a campaign.  The board's: records are counted, the data holds *)
(* raw heads, or results if it was a product run.                          *)
SdData(c)   == [k \in DOMAIN SdRecords(c) |->
                   IF c.mode = "accuracy" THEN Raw(c, SdRecords(c)[k]) ELSE Result(c, SdRecords(c)[k])]
NetData(c)  == [k \in DOMAIN NetRecords(c) |-> Result(c, NetRecords(c)[k])]
NodeData(c) == FlattenSeq([k \in DOMAIN SdRecords(c) |->
                              [t \in 1 .. Tensors |-> Computed(c, SdRecords(c)[k], t)]])

OutputIndex(c) ==
    [mode |-> c.mode, input |-> c.set, param |-> c.param, sel |-> Chosen(c), inputs |-> Len(SdRecords(c)),
     entries |-> [k \in DOMAIN SdRecords(c) |->
                     [image |-> Image(c, SdRecords(c)[k]), record |-> k, crc |-> SdData(c)[k]]]]

NodeIndex(c) ==
    [input |-> c.set, param |-> c.param, sel |-> Chosen(c), images |-> Len(SdRecords(c)),
     entries |-> [n \in 1 .. Tensors * Len(SdRecords(c)) |->
                     [image |-> Image(c, SdRecords(c)[1 + ((n - 1) \div Tensors)]),
                      tensor |-> 1 + ((n - 1) % Tensors), crc |-> NodeData(c)[n]]]]

(* What the build of the runner wrote down, and its ELF.                     *)
RunnerMode(c) == IF c.sel = <<>> THEN c.mode ELSE "conformance"
Elf(c)    == <<RunnerMode(c), c.limit, c.param, c.hw>>
Runner(c) == [mode |-> RunnerMode(c), limit |-> IF c.sel = <<>> THEN c.limit ELSE SelectionCount,
              quant |-> c.param, paramjson |-> c.param, param |-> c.param, hw |-> c.hw, elf |-> Elf(c)]

(* The summary and the index of the network run. *)
NetSummary(c) ==
    [status |-> "PASS", mode |-> c.profile, first |-> c.first, count |-> Len(NetRecords(c)), results |-> NetData(c),
     sel |-> Chosen(c)]
NetIndex(c) ==
    [mode |-> c.profile,
     entries |-> [k \in DOMAIN NetRecords(c) |->
                     [image |-> Image(c, NetRecords(c)[k]), record |-> IF c.sel = <<>> THEN NetRecords(c)[k] ELSE k,
                      crc |-> NetData(c)[k]]]]

(* Predictions of the host's INT8 evaluation, of the same parameters.        *)
Predictions(heads) == [k \in DOMAIN heads |-> Detections(heads[k], "accuracy")]
Reference(c) == [images |-> Len(c.set.ids),
                 of |-> Predictions([n \in DOMAIN c.set.ids |-> Heads(Input(c, n), c.param)])]

FilesOf == [c \in Campaigns |->
    [json |-> c.set, dense |-> c.set, shards |-> c.set, sel |-> Selection(c), seljson |-> Selection(c).manifest,
     param |-> c.param, paramjson |-> c.param, quant |-> c.param,
     hw |-> c.hw, elf |-> Elf(c), runner |-> Runner(c),
     index |-> OutputIndex(c), data |-> SdData(c), nodeindex |-> NodeIndex(c), nodes |-> NodeData(c),
     summary |-> NetSummary(c), results |-> NetIndex(c), detections |-> NetData(c), reference |-> Reference(c)]]

ResultsInit ==
    /\ tool \in {"accuracy", "conformance", "product"}
    /\ \E c \in Campaigns : ev = FilesOf[c]
    /\ mixed = 0 /\ verdict = "none"

-----------------------------------------------------------------------------
Fault == verdict = "none" /\ mixed < MaxMixed /\ mixed' = mixed + 1 /\ UNCHANGED <<tool, verdict>>

Mix == \E f \in DOMAIN ev, c \in Campaigns :
    /\ Fault
    /\ FilesOf[c][f] # ev[f]
    /\ ev' = [ev EXCEPT ![f] = FilesOf[c][f]]

Streams == {"data", "nodes", "detections"}

Damage == \E f \in Streams : \E k \in DOMAIN ev[f] :
    /\ Fault
    /\ ev' = [ev EXCEPT ![f][k] = IF f = "nodes" THEN <<"damaged">> ELSE [@ EXCEPT !.input = <<"damaged">>]]

(* The file was cut off. *)
Cut == \E f \in Streams :
    /\ Fault
    /\ ev[f] # <<>>
    /\ ev' = [ev EXCEPT ![f] = Front(@)]

-----------------------------------------------------------------------------
(* validate_board_output_index: records in order, and data that is exactly   *)
(* what the entries say, of the kind that the mode says.                    *)
validate_board_output_index ==
    LET e == ev.index.entries IN
    /\ e # <<>> /\ Len(e) <= ev.index.inputs
    /\ \A k \in 2 .. Len(e) : e[k].record > e[k - 1].record
    /\ ev.data = [k \in DOMAIN e |-> e[k].crc]
    /\ \A k \in DOMAIN e : ev.data[k].kind = IF ev.index.mode = "accuracy" THEN "raw" ELSE "result"

(* validate_board_node_index: Tensors entries an image, in their order, all    *)
(* of one image, which is not the image before.                            *)
validate_board_node_index ==
    LET e == ev.nodeindex.entries IN
    /\ Len(e) = Tensors * ev.nodeindex.images
    /\ \A n \in DOMAIN e :
          /\ e[n].tensor = 1 + ((n - 1) % Tensors)
          /\ n > 1 => (e[n].tensor = 1) # (e[n].image = e[n - 1].image)
    /\ ev.nodes = [n \in DOMAIN e |-> e[n].crc]

(* _validate_raw_package *)
RawOk(raw, input, param) == raw.kind = "raw" /\ raw.input = input /\ raw.param = param /\ raw.scale = Scale[ev.quant]

(* parse_conformance_binary against the index of the inputs *)
parse_conformance_binary ==
    LET r == ev.sel.records IN
    /\ ev.sel.input = ev.dense
    /\ Len(r) = SelectionCount
    /\ \A k \in DOMAIN r : r[k].record \in DOMAIN ev.dense.ids /\ ev.dense.ids[r[k].record] = r[k].image
    /\ \A k, l \in DOMAIN r : k # l => r[k].image # r[l].image /\ r[k].record # r[l].record

(* The build of the runner binds these files: _runner_binding, and the        *)
(* artifacts of compare_board_conformance, which leaves out the manifest of  *)
(* the parameters.                                                         *)
RunnerBinds(mode, limit, files) ==
    /\ ev.runner.mode = mode /\ ev.runner.limit = limit
    /\ \A f \in files : ev.runner[f] = ev[f]

-----------------------------------------------------------------------------
(* _input_contract: every input, once and in order. *)
InputContract(expected) ==
    /\ Len(ev.json.ids) = expected /\ ev.json = ev.dense
    /\ ev.index.inputs = expected /\ Len(ev.index.entries) = expected
    /\ ev.index.input = ev.dense
    /\ \A k \in DOMAIN ev.index.entries : /\ ev.index.entries[k].image = ev.dense.ids[k]
                                          /\ ev.index.entries[k].record = k

(* Mutant: the parameters are parsed, but not those the board read. *)
ParametersThere == ev.param # "none"

ParametersBound == ev.index.param = ev.param

(* _compare_reference: of the full set, whatever count is expected, and with  *)
(* metrics that agree.                                                     *)
ReferenceAgrees(alike) ==
    /\ ev.reference.images = ReferenceCount
    /\ alike \/ ev.reference.of = Predictions([k \in DOMAIN ev.data |-> ev.data[k].heads])

run_board_evaluation(desk, expected) ==
    /\ desk.free
    /\ validate_board_output_index
    /\ ev.index.mode = "accuracy" /\ ev.index.sel = Missing
    /\ InputContract(expected)
    /\ RunnerBinds("accuracy", expected, {"quant", "paramjson", "param", "hw", "elf"})
    /\ ParametersBound
    /\ \A k \in DOMAIN ev.data : RawOk(ev.data[k], Package(ev.json, ev.json.ids[k]), ev.index.param)
    /\ ReferenceAgrees(desk.alike)
    /\ desk.clean

-----------------------------------------------------------------------------
(* compare_board_conformance: counts and bindings, then every node and the   *)
(* heads against the host's own run on the selected inputs.                *)
OfSelection(index) ==
    /\ index.sel = ev.sel
    /\ index.input = ev.sel.input
    /\ index.param = ev.param

SelectedImage(k) == ev.sel.records[k].image
NodeImage(k)     == ev.nodeindex.entries[Tensors * (k - 1) + 1].image

Selected(k) == Package(ev.shards, SelectedImage(k))
Host(k, t)  == Node(t, Selected(k), ev.quant)

(* The package in the shard is that of the index. *)
ShardHolds(k) == Selected(k) = Package(ev.dense, SelectedImage(k))

NodesMatch(k) == \A t \in 1 .. Tensors : ev.nodes[Tensors * (k - 1) + t] = Host(k, t)

HeadsMatch(k) == RawOk(ev.data[k], Selected(k), ev.param) /\ ev.data[k].heads = Host(k, Tensors)

compare_board_conformance(desk) ==
    /\ desk.clean
    /\ RunnerBinds("conformance", SelectionCount, {"quant", "param", "hw", "elf"})
    /\ parse_conformance_binary /\ ev.seljson = ev.sel.manifest
    /\ validate_board_output_index /\ validate_board_node_index
    /\ ev.index.inputs = SelectionCount /\ Len(ev.index.entries) = SelectionCount
    /\ ev.nodeindex.images = SelectionCount
    /\ OfSelection(ev.index) /\ OfSelection(ev.nodeindex)
    /\ \A k \in 1 .. SelectionCount :
          ev.index.entries[k].image = SelectedImage(k) /\ NodeImage(k) = SelectedImage(k)
    /\ \A k \in 1 .. SelectionCount : ShardHolds(k) /\ NodesMatch(k) /\ HeadsMatch(k)

-----------------------------------------------------------------------------
(* run_evaluation of network_evaluate.  The network run is complete and its   *)
(* detections are those it summed up.                                      *)
NetworkRunWhole ==
    /\ ev.summary.status = "PASS" /\ ev.summary.mode \in {"accuracy", "demo"}
    /\ ev.results.mode = ev.summary.mode
    /\ ev.summary.results = ev.detections
    /\ Len(ev.results.entries) = ev.summary.count

NetSelected == ev.summary.sel # Missing

SelectionAgrees ==
    IF NetSelected
    THEN /\ ev.summary.sel = ev.sel /\ ev.json = ev.dense
         /\ parse_conformance_binary
         /\ SelectionCount = Len(ev.results.entries)
         /\ ev.index.sel = ev.sel
    ELSE ev.index.sel = Missing

StreamRecord(k)  == IF NetSelected THEN k ELSE ev.summary.first + k
DatasetRecord(k) == IF NetSelected THEN ev.sel.records[k].record ELSE StreamRecord(k)

(* _board_detections and the host's decoding of the same heads: a list that    *)
(* is the host's list also keeps the rules that it is checked for alone.   *)
DetectionsMatch(package, k, image, input) ==
    /\ package.image = image /\ package.input = input
    /\ package.raw = ev.index.entries[StreamRecord(k)].crc
    /\ package.profile = ev.summary.mode
    /\ package.dets = Detections(ev.data[StreamRecord(k)].heads, ev.summary.mode)

Compared(k) ==
    /\ DatasetRecord(k) \in DOMAIN ev.json.ids /\ StreamRecord(k) \in DOMAIN ev.index.entries
    /\ LET r     == ev.results.entries[k]
           raw   == ev.index.entries[StreamRecord(k)]
           image == ev.json.ids[DatasetRecord(k)]
           input == Package(ev.json, image)
       IN  /\ r.record = StreamRecord(k) /\ raw.record = StreamRecord(k)
           /\ r.image = image /\ raw.image = image
           /\ k \in DOMAIN ev.detections /\ ev.detections[k] = r.crc
           /\ RawOk(ev.data[StreamRecord(k)], input, ev.param)
           /\ DetectionsMatch(ev.detections[k], k, image, input)

run_evaluation(desk) ==
    /\ NetworkRunWhole
    /\ Len(ev.results.entries) <= Len(ev.json.ids)
    /\ validate_board_output_index
    /\ ev.index.mode = "accuracy" /\ Len(ev.results.entries) <= Len(ev.index.entries)
    /\ ParametersBound
    /\ SelectionAgrees
    /\ \A k \in DOMAIN ev.results.entries : Compared(k)
    /\ desk.free

-----------------------------------------------------------------------------
(* An evaluation, by who has the output directory free or not and the sources *)
(* clean or not, and where metrics of unequal predictions agree or not: it   *)
(* is refused if not even the best of these helps.                         *)
Fine  == [free |-> TRUE, clean |-> TRUE, alike |-> TRUE]
Desks == {Fine} \cup {[Fine EXCEPT ![d] = FALSE] : d \in DOMAIN Fine}

Accepts(desk) ==
    CASE tool = "accuracy"    -> \E expected \in ExpectedCounts : run_board_evaluation(desk, expected)
      [] tool = "conformance" -> compare_board_conformance(desk)
      [] tool = "product"     -> run_evaluation(desk)

Evaluate == \E desk \in Desks :
    /\ verdict = "none"
    /\ verdict' = IF Accepts(desk) THEN "accepted" ELSE IF desk = Fine THEN "refused" ELSE "held up"
    /\ UNCHANGED <<tool, ev, mixed>>

ResultsNext == Mix \/ Damage \/ Cut \/ Evaluate

ResultsSpec == ResultsInit /\ [][ResultsNext]_evars

-----------------------------------------------------------------------------
(* The right heads of this input, or what one board got wrong. *)
MadeOf(heads, input) == heads \in {Heads(input, ev.param), <<"wrong", Tensors>>}

(* What an accepted set of files shows.  Accuracy: the heads of every input   *)
(* of the index, once and in order, made with the parameters of the package, *)
(* and, of a full set, as many images in the reference.  Conformance: every node and head of every selected input is   *)
(* what the host makes of it.  Product: every detection package is the       *)
(* decoding, in the profile of the run, of heads made with those parameters *)
(* of the very input it is counted for.                                     *)
AcceptedIsOfItsInputs ==
    verdict = "accepted" =>
        CASE tool = "accuracy" ->
               /\ Len(ev.data) = Len(ev.dense.ids) /\ ev.index.inputs = Len(ev.data)
               /\ Len(ev.data) = ReferenceCount => ev.reference.images = Len(ev.data)
               /\ \A k \in DOMAIN ev.data :
                     /\ ev.data[k].input = Package(ev.dense, ev.dense.ids[k])
                     /\ MadeOf(ev.data[k].heads, ev.data[k].input)
          [] tool = "conformance" ->
               /\ Len(ev.data) = SelectionCount
               /\ \A k \in DOMAIN ev.data :
                     /\ ev.data[k].heads = Heads(Selected(k), ev.param)
                     /\ \A t \in 1 .. Tensors :
                           ev.nodes[Tensors * (k - 1) + t] = Node(t, Selected(k), ev.param)
          [] tool = "product" ->
               \A k \in DOMAIN ev.results.entries :
                  LET heads == ev.data[StreamRecord(k)].heads
                  IN  /\ ev.detections[k].dets = Detections(heads, ev.summary.mode)
                      /\ MadeOf(heads, Package(ev.json, ev.results.entries[k].image))

(* The other way round: the files of one campaign are accepted, unless the    *)
(* evaluator is not for such a run, or the board got something wrong that   *)
(* it looks for.                                                           *)
OneRunAccepted ==
    verdict = "refused" /\ mixed = 0 =>
        \/ ev.index.mode # "accuracy"
        \/ tool = "accuracy" /\ (ev.index.sel # Missing \/ ev.index.inputs # ReferenceCount)
        \/ tool = "conformance" /\ (ev.index.sel = Missing \/ \E k \in DOMAIN ev.data : ev.data[k].heads[1] = "wrong")
        \/ tool = "product" /\ ~NetSelected /\ ev.index.inputs < ev.summary.first + ev.summary.count
=============================================================================
