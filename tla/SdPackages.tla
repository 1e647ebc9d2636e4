------------------------------ MODULE SdPackages ------------------------------
(***************************************************************************)
(* The packages of the SD protocol as tools/coco80/sd_pack.py seals,       *)
(* parses and links them: inputs, parameters, raw heads, detections and    *)
(* results.  A package is a header and a payload of cells, a CRC is the     *)
(* thing it is taken of; sizes are in cells, the header HB of them.  A     *)
(* detection record is one cell.  The module looks at one set of five      *)
(* packages: those of one inference, or a set somebody got wrong.          *)
(***************************************************************************)
EXTENDS Integers, Sequences, FiniteSets, SequencesExt

CONSTANTS Images,          \* image id -> [width, height]
          Models,          \* model digests
          P4, P5,          \* [width, height] of the two heads
          Anchors,         \* ANCHORS_PER_HEAD
          Classes,         \* CLASS_COUNT
          MaxDetections,   \* MAX_DETECTIONS
          Category         \* COCO80_TO_COCO91

VARIABLES five,            \* the packages under validation
          verdict

pvars == <<five, verdict>>

HB == 2
Names == <<"weights", "biases", "activation_luts", "quantization">>

-----------------------------------------------------------------------------
(* _write_package: payloads one after the other, each with its section,     *)
(* then the header that covers them.                                       *)
Start(payloads, n) == HB + FoldLeft(LAMBDA t, p : t + Len(p), 0, SubSeq(payloads, 1, n - 1))

Sections(payloads) ==
    [n \in DOMAIN payloads |-> [offset |-> Start(payloads, n), bytes |-> Len(payloads[n]), crc |-> payloads[n]]]

Seal(head, payload) ==
    LET h == [head EXCEPT !.total = HB + Len(payload), !.bytes = Len(payload), !.crc = payload]
    IN  [head |-> h, header_crc |-> h, payload |-> payload]

write_package(magic, payloads, fields) ==
    Seal([magic |-> magic, total |-> 0, offset |-> HB, bytes |-> 0, crc |-> <<>>,
          sections |-> Sections(payloads), fields |-> fields],
         FoldLeft(LAMBDA all, p : all \o p, <<>>, payloads))

(* read_package_header *)
HeaderRead(p, magic) ==
    /\ p.head.magic = magic
    /\ p.head.total = HB + Len(p.payload)
    /\ p.head.offset = HB /\ p.head.bytes = Len(p.payload)
    /\ p.header_crc = p.head
    /\ p.head.crc = p.payload

(* _validate_section *)
Cells(p, s) == SubSeq(p.payload, s.offset - HB + 1, s.offset - HB + s.bytes)

SectionOk(p, s, allow_empty) ==
    IF s.bytes = 0
    THEN allow_empty /\ s.offset \in HB .. p.head.total /\ s.crc = <<>>
    ELSE /\ s.offset >= HB /\ s.offset + s.bytes <= p.head.total
         /\ Cells(p, s) = s.crc

(* Every section follows the one before, and the last ends the package. *)
Tight(p) ==
    LET ss == p.head.sections
    IN  /\ \A n \in DOMAIN ss : ss[n].offset = (IF n = 1 THEN HB ELSE ss[n - 1].offset + ss[n - 1].bytes)
        /\ Last(ss).offset + Last(ss).bytes = p.head.total

-----------------------------------------------------------------------------
(* parse_input_package, parse_parameter_package, parse_raw_head_package *)
InputOk(p) ==
    /\ HeaderRead(p, "input")
    /\ p.head.fields.image_id # 0 /\ p.head.fields.width > 0 /\ p.head.fields.height > 0
    /\ p.head.bytes = 1

ParametersOk(p) ==
    /\ HeaderRead(p, "parameters")
    /\ p.head.fields.layers = 13
    /\ Len(p.head.sections) = Len(Names)
    /\ \A n \in DOMAIN p.head.sections : SectionOk(p, p.head.sections[n], FALSE)
    /\ p.head.sections[3].bytes = 2 /\ p.head.sections[4].bytes = 1
    /\ Tight(p)

RawHeadsOk(p) ==
    /\ HeaderRead(p, "raw_heads")
    /\ p.head.fields.shapes = <<P4, P5>>
    /\ \A n \in 1 .. 2 : SectionOk(p, p.head.sections[n], FALSE) /\ p.head.sections[n].bytes = 1
    /\ Tight(p)

(* _decode_record: a box in order, a class with its category, and a cell of  *)
(* a head that fits the index it was decoded from.                         *)
Grid(head) == IF head = 0 THEN P4 ELSE P5
SourceBase(head) == IF head = 0 THEN 0 ELSE P4.width * P4.height * Anchors

SourceIndex(head, anchor, x, y) ==
    SourceBase(head) + anchor * Grid(head).width * Grid(head).height + y * Grid(head).width + x

(* Mutant: the index is not compared with the cell it was decoded from. *)
RecordOkAnywhere(r, image_id, confidence) ==
    /\ r.image_id = image_id
    /\ r.x1 >= 0 /\ r.y1 >= 0 /\ r.x2 >= r.x1 /\ r.y2 >= r.y1
    /\ r.score > confidence /\ r.score <= 100
    /\ r.class_id < Classes /\ r.category = Category[r.class_id]
    /\ r.head \in {0, 1} /\ r.anchor < Anchors
    /\ r.x < Grid(r.head).width /\ r.y < Grid(r.head).height

RecordOk(r, image_id, confidence) ==
    /\ r.image_id = image_id
    /\ r.x1 >= 0 /\ r.y1 >= 0 /\ r.x2 >= r.x1 /\ r.y2 >= r.y1
    /\ r.score > confidence /\ r.score <= 100
    /\ r.class_id < Classes /\ r.category = Category[r.class_id]
    /\ r.head \in {0, 1} /\ r.anchor < Anchors
    /\ r.x < Grid(r.head).width /\ r.y < Grid(r.head).height
    /\ r.source_index = SourceIndex(r.head, r.anchor, r.x, r.y)

(* _iter_records: by falling score, then source index, then class. *)
InOrder(a, b) ==
    \/ a.score > b.score
    \/ a.score = b.score /\ a.source_index < b.source_index
    \/ a.score = b.score /\ a.source_index = b.source_index /\ a.class_id <= b.class_id

Profiles == {[name |-> "accuracy", confidence |-> 0], [name |-> "demo", confidence |-> 25]}

DetectionsOk(p) ==
    LET f == p.head.fields
        s == p.head.sections[1]
    IN  /\ HeaderRead(p, "detections")
        /\ f.image_id # 0 /\ f.count <= MaxDetections /\ f.profile \in Profiles
        /\ SectionOk(p, s, TRUE)
        /\ s.offset = HB /\ s.bytes = p.head.bytes /\ s.bytes = f.count
        /\ \A n \in DOMAIN p.payload :
              /\ RecordOk(p.payload[n], f.image_id, f.profile.confidence)
              /\ n > 1 => InOrder(p.payload[n - 1], p.payload[n])

(* parse_result_package: the detections, then the timings. *)
ResultOk(p) ==
    LET f == p.head.fields
    IN  /\ HeaderRead(p, "result")
        /\ f.run_id # 0 /\ f.images # 0 /\ f.status \in {0, 1} /\ (f.status = 0 <=> f.error = 0)
        /\ f.count <= f.images * MaxDetections
        /\ \A n \in 1 .. 2 : SectionOk(p, p.head.sections[n], TRUE)
        /\ p.head.sections[1].bytes = f.count
        /\ Tight(p)

(* validate_pipeline_chain *)
LinksOk(in, par, raw, det, res) ==
    /\ raw.head.fields.input = in /\ raw.head.fields.parameters = par
    /\ det.head.fields.input = in /\ det.head.fields.raw = raw
    /\ res.head.fields.input = in /\ res.head.fields.parameters = par
    /\ res.head.fields.raw = raw /\ res.head.fields.detections = det

ContentsOk(in, det, res) ==
    /\ det.head.fields.image_id = in.head.fields.image_id
    /\ res.head.fields.images = 1 /\ res.head.fields.count = det.head.fields.count
    /\ res.head.sections[1].crc = det.head.sections[1].crc
    /\ Cells(res, res.head.sections[1]) = Cells(det, det.head.sections[1])
    /\ \A n \in DOMAIN det.payload :
          det.payload[n].x2 <= in.head.fields.width /\ det.payload[n].y2 <= in.head.fields.height

validate_pipeline_chain(in, par, raw, det, res) ==
    /\ InputOk(in) /\ ParametersOk(par) /\ RawHeadsOk(raw) /\ DetectionsOk(det) /\ ResultOk(res)
    /\ LinksOk(in, par, raw, det, res)
    /\ ContentsOk(in, det, res)

-----------------------------------------------------------------------------
(* What the packers and the board make of image i and model m. *)
Input(i) ==
    write_package("input", <<<<<<i, "in">>>>>>,
        [image_id |-> i, width |-> Images[i].width, height |-> Images[i].height])

(* pack_parameter_package: four sections, in the order of the header. *)
Parameters(m) ==
    write_package("parameters", <<<<<<m, "w">>>>, <<<<m, "b">>>>, <<<<m, "l0">>, <<m, "l1">>>>, <<<<m, "q">>>>>>,
        [layers |-> 13, model |-> m])

(* pack_raw_heads *)
RawHeads(i, m) ==
    write_package("raw_heads", <<<<<<i, m, 4>>>>, <<<<i, m, 5>>>>>>,
        [shapes |-> <<P4, P5>>, input |-> Input(i), parameters |-> Parameters(m)])

Record(i, n, score) ==
    [image_id |-> i, x1 |-> 0, y1 |-> 0, x2 |-> Images[i].width, y2 |-> 1, score |-> score,
     class_id |-> n, category |-> Category[n], head |-> n, anchor |-> n, x |-> 0, y |-> n,
     source_index |-> SourceIndex(n, n, 0, n)]

Detected(i, m) == IF m = 1 THEN <<Record(i, 0, 90), Record(i, 1, 90)>> ELSE <<>>

Detections(i, m, records) ==
    write_package("detections", <<records>>,
        [image_id |-> i, count |-> Len(records), profile |-> [name |-> "demo", confidence |-> 25],
         input |-> Input(i), raw |-> RawHeads(i, m)])

Result(i, m, det, records) ==
    write_package("result", <<records, <<[ticks |-> 1]>>>>,
        [run_id |-> 1, images |-> 1, count |-> Len(records), status |-> 0, error |-> 0,
         input |-> Input(i), parameters |-> Parameters(m), raw |-> RawHeads(i, m), detections |-> det])

(* The five packages of one inference. *)
Genuine(i, m) ==
    LET det == Detections(i, m, Detected(i, m))
    IN  <<Input(i), Parameters(m), RawHeads(i, m), det, Result(i, m, det, Detected(i, m))>>

(* A cell or a field is not what was written, the seal left as it was or     *)
(* made anew.                                                              *)
Bad(p) ==
    {[p EXCEPT !.head.total = @ + 1],
     Seal([p.head EXCEPT !.sections = Reverse(@)], p.payload),
     Seal([p.head EXCEPT !.sections[1].offset = @ + 1], p.payload)}
    \cup IF p.payload = <<>> THEN {}
         ELSE {[p EXCEPT !.payload = Tail(@)], [p EXCEPT !.payload = Append(@, p.payload[1])],
               Seal([p.head EXCEPT !.sections[1].bytes = 0], p.payload)}

(* The board's records of one image, one of them wrong in one place. *)
BadRecords(i) ==
    LET r == Detected(i, 1)
    IN  {Reverse(r), [r EXCEPT ![1].image_id = @ + 1], [r EXCEPT ![1].x2 = @ + 1], [r EXCEPT ![2].x = 1],
         [r EXCEPT ![2].head = 0], [r EXCEPT ![2].score = 20], [r EXCEPT ![2].category = 0]}

Inits ==
    UNION {
      {f : f \in {Input(i) : i \in DOMAIN Images} \X {Parameters(m) : m \in Models}
                 \X {Genuine(i, m)[3] : i \in DOMAIN Images, m \in Models}
                 \X {Genuine(i, m)[4] : i \in DOMAIN Images, m \in Models}
                 \X {Genuine(i, m)[5] : i \in DOMAIN Images, m \in Models}},
      UNION {{[Genuine(i, m) EXCEPT ![n] = b] : b \in Bad(Genuine(i, m)[n])} :
             i \in DOMAIN Images, m \in Models, n \in 1 .. 5},
      UNION {{LET det == Detections(i, 1, rs) IN <<Input(i), Parameters(1), RawHeads(i, 1), det, Result(i, 1, det, rs)>> :
              rs \in BadRecords(i)} : i \in DOMAIN Images},
      UNION {{LET det == Genuine(i, 1)[4] IN <<Input(i), Parameters(1), RawHeads(i, 1), det, Result(i, 1, det, rs)>> :
              rs \in BadRecords(i)} : i \in DOMAIN Images}}

PackagesInit == five \in Inits /\ verdict = "none"

Validate ==
    /\ verdict = "none"
    /\ verdict' = IF validate_pipeline_chain(five[1], five[2], five[3], five[4], five[5]) THEN "ok" ELSE "error"
    /\ UNCHANGED five

(* A chain is accepted exactly when its five packages are, cell for cell,    *)
(* those of one inference of one image with one model: no package of another *)
(* image or model, none that was cut, resealed with another layout, or holds  *)
(* a detection out of order, out of the image or of another cell            *)
(* (sd_pack.py:301-370, 1875-2266, 2370-2438).                              *)
ChainIsOneInference ==
    (verdict = "ok" => \E i \in DOMAIN Images, m \in Models : five = Genuine(i, m))
    /\ (verdict = "error" => \A i \in DOMAIN Images, m \in Models : five # Genuine(i, m))
=============================================================================
