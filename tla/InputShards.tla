------------------------------ MODULE InputShards ------------------------------
(***************************************************************************)
(* The input shard set of tools/coco80/sd_pack.py: build_input_shards      *)
(* wraps the images of a list one by one into packages, fills shard files   *)
(* with them, and publishes each shard, then the binary index, then the    *)
(* manifest, each by an atomic rename, into a directory that may hold an   *)
(* earlier set; validate_input_shard_set follows the chain back from the   *)
(* manifest.  All packages have one size, which is the unit of offsets;    *)
(* a digest is the thing it is taken of.                                   *)
(***************************************************************************)
EXTENDS Integers, Sequences, FiniteSets, SequencesExt

CONSTANTS Lists,           \* the image lists: sequences of image identifiers
          Target,          \* shard_target_bytes, in packages
          MaxShards,       \* how many shard names there are
          MaxMishaps,      \* bound: image files replaced, or cells damaged
          Gone             \* no such file

VARIABLES sources,         \* revision of each source image
          shard_dir,       \* the directory: shards by identifier, index, manifest
          build, reader, mishaps

shard_vars == <<sources, shard_dir, build, reader, mishaps>>

Ids == UNION {Range(list) : list \in Lists}

ASSUME ShardsAssumption ==
    /\ Target \in Nat \ {0}
    /\ \A list \in Lists : list \in Seq(Ids)

EmptyCard == [shards |-> [n \in 0 .. MaxShards - 1 |-> Gone], index |-> Gone, manifest |-> Gone]

NoBuild == [pc |-> "idle", list |-> <<>>, expected |-> 0, decoded |-> Gone, open |-> <<>>,
            first |-> 0, entries |-> <<>>, shards |-> <<>>, raced |-> FALSE]

NoReader == [pc |-> "idle", manifest |-> Gone, index |-> Gone, shards |-> <<>>, accepted |-> FALSE]

ShardsInit ==
    /\ sources = [i \in Ids |-> 1]
    /\ shard_dir = EmptyCard /\ build = NoBuild /\ reader = NoReader /\ mishaps = MaxMishaps

-----------------------------------------------------------------------------
(* build_input_shards *)

BeginSet ==
    /\ build.pc = "idle"
    /\ \E list \in Lists, short \in {0, 1} :
          /\ Len(list) > short
          /\ build' = [NoBuild EXCEPT !.pc = "decode", !.list = list, !.expected = Len(list) - short]
    /\ UNCHANGED <<sources, shard_dir, reader, mishaps>>

PackedCount == Len(build.entries)
Current == build.list[PackedCount + 1]

(* An error removes the temporary files; shards already renamed stay. *)
RefusedSet == build' = NoBuild

(* pack_input_image decodes the image ... *)
Decode ==
    /\ build.pc = "decode" /\ PackedCount < Len(build.list)
    /\ IF PackedCount >= build.expected \/ \E n \in 1 .. PackedCount : build.list[n] = Current
       THEN RefusedSet
       ELSE build' = [build EXCEPT !.pc = "hash", !.decoded = sources[Current]]
    /\ UNCHANGED <<sources, shard_dir, reader, mishaps>>

(* ... and takes the digest of its file afterwards. *)
InputPackage(id, tensor, source) == [image_id |-> id, tensor |-> tensor, source |-> source]

(* Mutant: the first record of the shard is counted from the next. *)
ShardEntryLate == [shard_id |-> Len(build.shards), first |-> Len(build.entries), count |-> Len(build.open), sha |-> build.open]

(* finish_shard: rename the shard and note what it holds. *)
ShardEntry == [shard_id |-> Len(build.shards), first |-> build.first, count |-> Len(build.open), sha |-> build.open]

Full == build.open # <<>> /\ Len(build.open) + 1 > Target

(* Only then is it known whether the package still fits the open shard. *)
Append1 ==
    /\ build.pc = "hash"
    /\ LET package == InputPackage(Current, build.decoded, sources[Current])
           shards  == IF Full THEN Append(build.shards, ShardEntry) ELSE build.shards
           open    == IF Full THEN <<>> ELSE build.open
           entry   == [image_id |-> Current, shard_id |-> Len(shards), record_index |-> PackedCount,
                       offset |-> Len(open), crc |-> package, source |-> package.source]
       IN  /\ shard_dir' = IF Full THEN [shard_dir EXCEPT !.shards[Len(build.shards)] = build.open] ELSE shard_dir
           /\ build' = IF Len(shards) >= MaxShards THEN NoBuild
                       ELSE [build EXCEPT !.pc = "decode", !.decoded = Gone, !.shards = shards,
                                !.open = Append(open, package), !.first = IF Full THEN PackedCount ELSE @,
                                !.entries = Append(@, entry)]
    /\ UNCHANGED <<sources, reader, mishaps>>

(* The last shard is renamed once the number of images is right. *)
LastShard ==
    /\ build.pc = "decode" /\ PackedCount = Len(build.list)
    /\ IF PackedCount # build.expected THEN RefusedSet /\ UNCHANGED shard_dir
       ELSE /\ shard_dir' = [shard_dir EXCEPT !.shards[Len(build.shards)] = build.open]
            /\ build' = [build EXCEPT !.pc = "index", !.shards = Append(@, ShardEntry)]
    /\ UNCHANGED <<sources, reader, mishaps>>

SourceSet == [n \in 1 .. PackedCount |-> <<build.entries[n].image_id, build.entries[n].source>>]

Table(e) == [image_id |-> e.image_id, shard_id |-> e.shard_id, record_index |-> e.record_index,
             offset |-> e.offset, crc |-> e.crc]

(* _write_input_binary_index *)
WriteBinaryIndex ==
    /\ build.pc = "index"
    /\ shard_dir' = [shard_dir EXCEPT !.index = [shards |-> build.shards, source_set |-> SourceSet,
                    entries |-> [n \in 1 .. PackedCount |-> Table(build.entries[n])]]]
    /\ build' = [build EXCEPT !.pc = "manifest"]
    /\ UNCHANGED <<sources, reader, mishaps>>

WriteManifest ==
    /\ build.pc = "manifest"
    /\ shard_dir' = [shard_dir EXCEPT !.manifest = [image_count |-> build.expected, binary |-> shard_dir.index,
                    source_set |-> SourceSet, shards |-> build.shards, entries |-> build.entries,
                    raced |-> build.raced]]
    /\ build' = [build EXCEPT !.pc = "done"]
    /\ UNCHANGED <<sources, reader, mishaps>>

Leave == build.pc # "idle" /\ build' = NoBuild /\ UNCHANGED <<sources, shard_dir, reader, mishaps>>

-----------------------------------------------------------------------------
(* validate_input_shard_set, of what it read of the directory. *)

(* parse_input_binary_index: dense shards and records, each in its shard. *)
IndexOk(index) ==
    /\ index # Gone
    /\ index.shards # <<>> /\ index.entries # <<>>
    /\ \A s \in DOMAIN index.shards :
          /\ index.shards[s].shard_id = s - 1
          /\ index.shards[s].count > 0
          /\ index.shards[s].first = (IF s = 1 THEN 0 ELSE index.shards[s - 1].first + index.shards[s - 1].count)
    /\ Last(index.shards).first + Last(index.shards).count = Len(index.entries)
    /\ \A n \in DOMAIN index.entries :
          LET e == index.entries[n]
          IN  /\ e.record_index = n - 1 /\ e.shard_id < Len(index.shards)
              /\ LET s == index.shards[e.shard_id + 1]
                 IN  /\ e.record_index \in s.first .. s.first + s.count - 1
                     /\ e.offset \in 0 .. Len(s.sha) - 1

(* The JSON repeats the table, and each shard is what both say it is. *)
ShardsOk(m, index, shards) ==
    /\ Len(m.shards) = Len(index.shards)
    /\ \A s \in DOMAIN m.shards : m.shards[s] = index.shards[s] /\ shards[s] # Gone /\ shards[s] = m.shards[s].sha

(* _embedded_input_header: the package is whole, and is the entry's. *)
EmbeddedOk(package, e) == package.image_id = e.image_id /\ package = e.crc /\ package.source = e.source

(* Mutant: only that each package is where the table says. *)
EntriesFound(m, index, shards) ==
    \A n \in DOMAIN m.entries :
        LET e == m.entries[n]
        IN  /\ Table(e) = index.entries[n]
            /\ shards[e.shard_id + 1][e.offset + 1].image_id = e.image_id

(* Tightly packed, no identifier twice, each package its entry's image. *)
EntriesOk(m, index, shards) ==
    \A n \in DOMAIN m.entries :
        LET e == m.entries[n]
        IN  /\ Table(e) = index.entries[n]
            /\ \A j \in 1 .. n - 1 : m.entries[j].image_id # e.image_id
            /\ e.offset = Cardinality({j \in 1 .. n - 1 : m.entries[j].shard_id = e.shard_id})
            /\ EmbeddedOk(shards[e.shard_id + 1][e.offset + 1], e)

Covered(m, shards) ==
    \A s \in DOMAIN shards : Len(shards[s]) = Cardinality({n \in DOMAIN m.entries : m.entries[n].shard_id = s - 1})

validate_input_shard_set(m, index, shards) ==
    /\ IndexOk(index)
    /\ m.binary = index /\ m.source_set = index.source_set
    /\ Len(index.entries) = m.image_count /\ Len(m.entries) = m.image_count
    /\ ShardsOk(m, index, shards)
    /\ EntriesOk(m, index, shards)
    /\ Covered(m, shards)

Named(n) == IF n \in 0 .. MaxShards - 1 THEN shard_dir.shards[n] ELSE Gone

(* The reader opens one file after the other, while a build may go on. *)
ReadSet ==
    /\ CASE reader.pc = "idle" ->
              reader' = IF shard_dir.manifest = Gone THEN NoReader
                        ELSE [NoReader EXCEPT !.pc = "index", !.manifest = shard_dir.manifest]
         [] reader.pc = "index" ->
              reader' = IF IndexOk(shard_dir.index) THEN [reader EXCEPT !.pc = "shards", !.index = shard_dir.index]
                                               ELSE NoReader
         [] reader.pc = "shards" /\ Len(reader.shards) < Len(reader.manifest.shards) ->
              reader' = [reader EXCEPT !.shards = Append(@, Named(Len(reader.shards)))]
         [] reader.pc = "shards" /\ Len(reader.shards) = Len(reader.manifest.shards) ->
              reader' = [reader EXCEPT !.pc = "done", !.accepted =
                            validate_input_shard_set(reader.manifest, reader.index, reader.shards)]
         [] reader.pc = "done" -> reader' = NoReader
    /\ UNCHANGED <<sources, shard_dir, build, mishaps>>

-----------------------------------------------------------------------------
(* Somebody edits an image, or a file on the card is not what was written. *)
Replace ==
    /\ mishaps > 0 /\ mishaps' = mishaps - 1
    /\ \E i \in Ids : sources[i] = 1 /\ sources' = [sources EXCEPT ![i] = 2]
    /\ build' = [build EXCEPT !.raced = @ \/ build.pc = "hash"]
    /\ UNCHANGED <<shard_dir, reader>>

DamageSet ==
    /\ mishaps > 0 /\ mishaps' = mishaps - 1
    /\ \/ \E s \in DOMAIN shard_dir.shards :
             /\ shard_dir.shards[s] # Gone
             /\ \/ shard_dir' = [shard_dir EXCEPT !.shards[s] = Reverse(@)]
                \/ shard_dir' = [shard_dir EXCEPT !.shards[s] = SubSeq(@, 2, Len(@))]
       \/ /\ shard_dir.manifest # Gone
          /\ \/ shard_dir' = [shard_dir EXCEPT !.manifest.entries = Reverse(@)]
             \/ shard_dir' = [shard_dir EXCEPT !.manifest.shards = SubSeq(@, 2, Len(@))]
             \/ shard_dir' = [shard_dir EXCEPT !.manifest.image_count = @ - 1, !.manifest.entries = SubSeq(@, 2, Len(@))]
             \/ shard_dir' = [shard_dir EXCEPT !.manifest.entries[1].source = @ + 1]
       \/ /\ shard_dir.index # Gone
          /\ \/ shard_dir' = [shard_dir EXCEPT !.index.entries = Reverse(@)]
             \/ shard_dir' = [shard_dir EXCEPT !.index.shards[1].count = @ + 1]
    /\ UNCHANGED <<sources, build, reader>>

ShardsNext ==
    \/ BeginSet \/ Decode \/ Append1 \/ LastShard \/ WriteBinaryIndex \/ WriteManifest \/ Leave
    \/ ReadSet \/ Replace \/ DamageSet

ShardsSpec == ShardsInit /\ [][ShardsNext]_shard_vars

-----------------------------------------------------------------------------
(* A set that is accepted is one whole list: whatever builds were killed in  *)
(* the middle of replacing an earlier set, and whatever was damaged, the     *)
(* reader found for each record of the manifest the package of the image of  *)
(* that place in one list, each image once, and its tensor is of the file    *)
(* whose digest the package carries unless that file was replaced between    *)
(* its decoding and its hashing (sd_pack.py:543-597, 900-1071, 1110-1233).  *)
AcceptedSetWhole ==
    reader.accepted =>
        \E list \in Lists :
            /\ Len(reader.manifest.entries) = Len(list)
            /\ \A n \in DOMAIN list :
                  LET e == reader.manifest.entries[n]
                      p == reader.shards[e.shard_id + 1][e.offset + 1]
                  IN  /\ p.image_id = list[n]
                      /\ p.source = e.source
                      /\ reader.manifest.raced \/ p.tensor = p.source
            /\ \A s \in DOMAIN reader.shards : Len(reader.shards[s]) \in 1 .. Target

(* A build that ends with its manifest has left a set that validates, over   *)
(* whatever the directory held before.                                     *)
BuiltSetValidates ==
    build.pc = "done" /\ mishaps = MaxMishaps =>
        validate_input_shard_set(shard_dir.manifest, shard_dir.index,
                                 [s \in 1 .. Len(shard_dir.manifest.shards) |-> Named(s - 1)])
=============================================================================
