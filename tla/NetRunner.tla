------------------------------ MODULE NetRunner ------------------------------
(***************************************************************************)
(* The host end of an inference run (tools/coco80/net_runner.py): one call *)
(* of run_network takes the records it was asked for to the board chunk by *)
(* chunk, writes what comes back, saves a checkpoint after each chunk and  *)
(* publishes a summary at the end; it may be killed at any step, and a     *)
(* later call resumes from the checkpoint.  disk is the output directory,  *)
(* host the call in progress.                                              *)
(***************************************************************************)
EXTENDS NetLink, FiniteSets

CONSTANTS DataSet        \* the images of the data set, by record number + 1


VARIABLES host, disk

None == [kind |-> "none"]

Modes == {"transport", "raw-accuracy", "detections-accuracy", "detections-demo", "timing-demo"}

(* _mode: transport only, output kind and decoder profile. *)
ModeOf(mode) ==
    CASE mode = "transport"           -> [transport |-> TRUE,  kind |-> "TIMING",     profile |-> "DEMO"]
      [] mode = "raw-accuracy"        -> [transport |-> FALSE, kind |-> "RAW",        profile |-> "ACCURACY"]
      [] mode = "detections-accuracy" -> [transport |-> FALSE, kind |-> "DETECTIONS", profile |-> "ACCURACY"]
      [] mode = "detections-demo"     -> [transport |-> FALSE, kind |-> "DETECTIONS", profile |-> "DEMO"]
      [] mode = "timing-demo"         -> [transport |-> FALSE, kind |-> "TIMING",     profile |-> "DEMO"]

Count(a) == Len(a.records)

(* The checks run_network makes of its arguments before it touches a file. *)
ArgumentsOk(a) ==
    /\ Count(a) > 0
    /\ \A n \in 1 .. Count(a) : a.records[n] \in 0 .. Len(DataSet) - 1
    /\ IF a.selection THEN a.first = 0
                      ELSE a.first >= 0 /\ a.records = [n \in 1 .. Count(a) |-> a.first + n - 1]
    /\ a.warmup \in 0 .. Count(a) - 1
    /\ a.chunk \in 1 .. MaxChunk

Transport == ModeOf(host.args.mode).transport
WritesData == ModeOf(host.args.mode).kind # "TIMING"

Empty == [dir |-> FALSE, data |-> <<>>, timing |-> <<>>, data_safe |-> 0, timing_safe |-> 0,
          ckpt |-> None, index |-> None, results_index |-> None, summary |-> None]

Over(outcome) ==
    [pc |-> "idle", args |-> None, resume |-> FALSE, conn |-> 0, seq |-> 0, stage |-> "none",
     completed |-> 0, entries |-> <<>>, chunks |-> <<>>, session_records |-> 0,
     incrc |-> <<>>, rescrc |-> <<>>, request |-> NoMsg, result |-> <<>>, timing |-> None,
     outcome |-> outcome]

HostInit == host = Over("none") /\ disk = Empty

-----------------------------------------------------------------------------
(* The output directory, before the board is called. *)

CheckpointFits(a) ==
    LET c == disk.ckpt
    IN  /\ c.mode = a.mode /\ c.first = a.first /\ c.count = Count(a) /\ c.warmup = a.warmup
        /\ c.completed \in 0 .. Count(a)
        /\ c.timing_records = IF ModeOf(a.mode).transport THEN 0 ELSE c.completed

(* A call that is refused here leaves the directory as it was, or empty.   *)
Refused(a, resume) ==
    \/ ~ArgumentsOk(a)
    \/ resume /\ (disk.ckpt # None => ~CheckpointFits(a))
    \/ ~resume /\ disk.dir

Refuse(a, resume) ==
    /\ host.pc = "idle" /\ Refused(a, resume)
    /\ host' = Over("refused")
    /\ disk' = [disk EXCEPT !.dir = @ \/ (ArgumentsOk(a) /\ resume)]
    /\ UNCHANGED net

(* Both files are cut back to what the checkpoint covers; only then is the *)
(* binding of the checkpoint compared.                                     *)
(* Mutant: what was written after the checkpoint stays in the files. *)
CutNothing(s, n) == s

Cut(s, n) == IF Len(s) > n THEN SubSeq(s, 1, n) ELSE s

Start(a, resume) ==
    /\ host.pc = "idle" /\ ~Refused(a, resume)
    /\ LET c       == disk.ckpt
           done    == IF resume THEN c.completed ELSE 0
           entries == IF resume THEN c.entries ELSE <<>>
           timed   == IF ModeOf(a.mode).transport THEN 0 ELSE done
           data    == IF ModeOf(a.mode).kind # "TIMING" THEN Cut(disk.data, Len(entries)) ELSE disk.data
           timing  == Cut(disk.timing, timed)
       IN  /\ disk' = [disk EXCEPT !.dir = TRUE, !.data = data, !.timing = timing,
                                   !.data_safe = IF @ > Len(data) THEN Len(data) ELSE @,
                                   !.timing_safe = IF @ > Len(timing) THEN Len(timing) ELSE @]
           /\ host' = IF resume /\ c.binding # a.binding THEN Over("refused")
                      ELSE [Over("none") EXCEPT !.pc = "connect", !.args = a, !.resume = resume,
                               !.completed = done, !.entries = entries,
                               !.chunks = IF resume THEN c.chunks ELSE <<>>]
    /\ UNCHANGED net

(* socket.create_connection, and a session number nobody else has. *)
Connect(k) ==
    /\ host.pc = "connect"
    /\ net[k] = Unused /\ \A j \in Conns : j < k => net[j] # Unused
    /\ net' = [net EXCEPT ![k].host = "open", ![k].board = "pending"]
    /\ host' = [host EXCEPT !.pc = "send", !.conn = k, !.seq = 1, !.stage = "hello"]
    /\ UNCHANGED disk

-----------------------------------------------------------------------------
(* The chunk that comes next: no larger than asked for, never across the   *)
(* end of the warm-up.                                                     *)
ChunkCount ==
    LET a    == host.args
        left == Count(a) - host.completed
        most == IF a.chunk < left THEN a.chunk ELSE left
        warm == a.warmup - host.completed
    IN  IF host.completed < a.warmup /\ warm < most THEN warm ELSE most

ChunkFirst == IF host.args.selection THEN host.completed ELSE host.args.first + host.completed

(* _load_chunk *)
ChunkImages == [n \in 1 .. ChunkCount |-> DataSet[host.args.records[host.completed + n] + 1]]

NextStage == IF host.completed < Count(host.args) THEN "input" ELSE "end"

Request ==
    LET a    == host.args
        mode == ModeOf(a.mode)
        Make(type, first, count, m, body) ==
            make_header(type, host.conn, host.seq, a.binding, first, count, m, body)
    IN  CASE host.stage = "hello"      -> Make("HELLO", 0, 0, NoProfile, [transport |-> mode.transport])
          [] host.stage = "parameters" -> Make("PARAMETERS", 0, 0, NoProfile, <<>>)
          [] host.stage = "input"      -> Make("INPUT", ChunkFirst, ChunkCount, mode, ChunkImages)
          [] host.stage = "run"        -> Make("RUN", ChunkFirst, ChunkCount, mode, <<>>)
          [] host.stage = "end"        ->
                 Make("END", 0, 0, NoProfile,
                      [received |-> host.session_records, completed |-> host.session_records,
                       sent |-> IF mode.transport THEN 0 ELSE host.session_records,
                       incrc |-> host.incrc, rescrc |-> host.rescrc])

(* What the request is answered with, and in which order for RUN. *)
Awaited ==
    CASE host.stage \in {"hello", "parameters", "input"} -> "STATUS"
      [] host.stage = "run" -> IF WritesData THEN "RESULT" ELSE "TIMING"
      [] host.stage = "timing" -> "TIMING"
      [] host.stage = "end" -> "END"

Send ==
    /\ host.pc = "send" /\ net[host.conn].host = "open"
    /\ net' = SentUp(host.conn, Request)
    /\ host' = [host EXCEPT !.pc = "await", !.request = Request,
                            !.incrc = IF host.stage = "input" THEN @ \o ChunkImages ELSE @]
    /\ UNCHANGED disk

(* _response *)
Matches(m, request, type) ==
    /\ Received(m)
    /\ m.type = type
    /\ m.session = request.session /\ m.seq = request.seq /\ m.binding = request.binding
    /\ m.first = request.first /\ m.count = request.count /\ m.status = 0

SameProfile(m) == LET mode == ModeOf(host.args.mode) IN m.kind = mode.kind /\ m.profile = mode.profile

(* The timing frame must bind the input and the result of this chunk ... *)
ChunkBound(t) ==
    /\ ChunkTimingValid(t, ChunkCount)
    /\ t.first = ChunkFirst
    /\ SameProfile(t)
    /\ t.incrc = ChunkImages
    /\ t.rescrc = host.result
    /\ WritesData => Len(host.result) = ChunkCount
    /\ Len(t.rows) = ChunkCount

(* ... and each of its rows the record it belongs to; _validate_result_record. *)
RowOk(t, n) == t.rows[n].sound /\ t.rows[n].image = ChunkImages[n] /\ SameProfile(t.rows[n])

RecordOk(t, n) ==
    LET r == host.result[n]
    IN  /\ r.image = ChunkImages[n]
        /\ t.rows[n].outcrc = <<r>>
        /\ r.input = ChunkImages[n]
        /\ ModeOf(host.args.mode).kind = "DETECTIONS" => r.pkg_image = r.image

RowsUpTo(n, t) == \A l \in 1 .. n : RowOk(t, l) /\ (WritesData => RecordOk(t, l))

(* How many timing rows and result records are written before the first    *)
(* one that fails.                                                         *)
Good(t)  == Cardinality({n \in 1 .. ChunkCount : RowsUpTo(n, t)})
Timed(t) == IF Good(t) < ChunkCount /\ RowOk(t, Good(t) + 1) THEN Good(t) + 1 ELSE Good(t)

EntryOf(n) ==
    [image |-> host.result[n].image, bytes |-> 1, offset |-> Len(host.entries) + n - 1,
     crc |-> host.result[n],
     record_index |-> IF host.args.selection THEN host.completed + n - 1 ELSE ChunkFirst + n - 1]

-----------------------------------------------------------------------------
(* Every error leaves through the same clause: the files are closed and the *)
(* connection with them.                                                   *)
Failed(n) ==
    /\ net' = [n EXCEPT ![host.conn].host = IF @ = "lost" THEN "lost" ELSE "closed",
                        ![host.conn].down = <<>>]
    /\ host' = Over("failed")

Quit(n) == Failed(n) /\ UNCHANGED disk

Taken == [net EXCEPT ![host.conn].down = Tail(@)]

Arrived == host.pc = "await" /\ net[host.conn].down # <<>>

(* An answer that is not the one awaited ends the session. *)
WrongAnswer ==
    /\ Arrived
    /\ LET m == Head(net[host.conn].down)
       IN  \/ ~Matches(m, host.request, Awaited)
           \/ m.type \in {"RESULT", "TIMING"} /\ ~SameProfile(m)
           \/ m.type = "TIMING" /\ ~ChunkBound(m.body)
    /\ Quit(Taken)

Arrives(type) == Arrived /\ Awaited = type /\ Matches(Head(net[host.conn].down), host.request, type)

(* A STATUS ends an exchange; transport-only chunks have nothing more. *)
StatusArrives ==
    /\ Arrives("STATUS")
    /\ net' = Taken
    /\ host' = IF host.stage = "input" /\ Transport
               THEN [host EXCEPT !.pc = "sync", !.seq = @ + 1, !.result = <<>>, !.timing = None]
               ELSE [host EXCEPT !.pc = "send", !.seq = @ + 1,
                         !.stage = CASE host.stage = "hello"      -> "parameters"
                                     [] host.stage = "parameters" -> NextStage
                                     [] host.stage = "input"      -> "run"]
    /\ UNCHANGED disk

ResultArrives ==
    /\ Arrives("RESULT") /\ SameProfile(Head(net[host.conn].down))
    /\ net' = Taken
    /\ host' = [host EXCEPT !.stage = "timing", !.result = Head(net[host.conn].down).body]
    /\ UNCHANGED disk

(* The rows are written as they are checked, so a bad one leaves those     *)
(* before it in the files.                                                 *)
TimingArrives ==
    /\ Arrives("TIMING") /\ SameProfile(Head(net[host.conn].down))
    /\ LET t == Head(net[host.conn].down).body
       IN  /\ ChunkBound(t)
           /\ disk' = [disk EXCEPT !.timing = @ \o SubSeq(t.rows, 1, Timed(t)),
                                   !.data = IF WritesData THEN @ \o SubSeq(host.result, 1, Good(t)) ELSE @]
           /\ IF Good(t) = ChunkCount
              THEN /\ net' = Taken
                   /\ host' = [host EXCEPT !.pc = "sync", !.seq = @ + 1, !.timing = t,
                                           !.rescrc = @ \o host.result]
              ELSE Failed(Taken)

(* Mutant: the files are flushed but not synced before the checkpoint. *)
SyncNothing ==
    /\ host.pc = "sync"
    /\ host' = [host EXCEPT !.pc = "checkpoint",
                  !.completed = @ + ChunkCount, !.session_records = @ + ChunkCount,
                  !.entries = @ \o [n \in 1 .. Len(host.result) |-> EntryOf(n)],
                  !.chunks = Append(@, [first |-> ChunkFirst, count |-> ChunkCount]),
                  !.result = <<>>, !.timing = None, !.request = NoMsg]
    /\ UNCHANGED <<disk, net>>

(* flush and fsync of both files, with the counters of the chunk. *)
Sync ==
    /\ host.pc = "sync"
    /\ disk' = [disk EXCEPT !.data_safe = Len(disk.data), !.timing_safe = Len(disk.timing)]
    /\ host' = [host EXCEPT !.pc = "checkpoint",
                  !.completed = @ + ChunkCount, !.session_records = @ + ChunkCount,
                  !.entries = @ \o [n \in 1 .. Len(host.result) |-> EntryOf(n)],
                  !.chunks = Append(@, [first |-> ChunkFirst, count |-> ChunkCount]),
                  !.result = <<>>, !.timing = None, !.request = NoMsg]
    /\ UNCHANGED net

(* write_json_atomic replaces the checkpoint in one step. *)
Checkpoint ==
    /\ host.pc = "checkpoint"
    /\ disk' = [disk EXCEPT !.ckpt =
                  [kind |-> "checkpoint", mode |-> host.args.mode, binding |-> host.args.binding,
                   first |-> host.args.first, count |-> Count(host.args), warmup |-> host.args.warmup,
                   completed |-> host.completed, entries |-> host.entries,
                   timing_records |-> IF Transport THEN 0 ELSE host.completed,
                   chunks |-> host.chunks]]
    /\ host' = [host EXCEPT !.pc = "send", !.stage = NextStage]
    /\ UNCHANGED net

-----------------------------------------------------------------------------
(* The board's END must repeat the counters and CRCs of this session. *)
EndBound(e) ==
    /\ EndValid(e)
    /\ e.received = host.session_records /\ e.completed = host.session_records
    /\ e.sent = IF Transport THEN 0 ELSE host.session_records
    /\ e.incrc = host.incrc /\ e.rescrc = host.rescrc

EndArrives ==
    /\ Arrives("END")
    /\ IF EndBound(Head(net[host.conn].down).body)
       THEN /\ net' = [Taken EXCEPT ![host.conn].host = IF @ = "lost" THEN "lost" ELSE "closed"]
            /\ host' = [host EXCEPT !.pc = "index", !.request = NoMsg]
       ELSE Failed(Taken)
    /\ UNCHANGED disk

(* _output_index, for raw heads only. *)
PublishIndex ==
    /\ host.pc = "index"
    /\ disk' = IF ModeOf(host.args.mode).kind = "RAW"
               THEN [disk EXCEPT !.index = [kind |-> "index", rows |-> host.entries, data |-> disk.data]]
               ELSE disk
    /\ host' = [host EXCEPT !.pc = "results_index"]
    /\ UNCHANGED net

PublishResults ==
    /\ host.pc = "results_index"
    /\ disk' = IF host.entries # <<>>
               THEN [disk EXCEPT !.results_index = [kind |-> "results", entries |-> host.entries]]
               ELSE disk
    /\ host' = [host EXCEPT !.pc = "summary"]
    /\ UNCHANGED net

PublishSummary ==
    /\ host.pc = "summary"
    /\ disk' = [disk EXCEPT !.summary =
                  [kind |-> "summary", args |-> host.args, chunks |-> host.chunks,
                   timing |-> disk.timing, data |-> disk.data]]
    /\ host' = [host EXCEPT !.pc = "unlink"]
    /\ UNCHANGED net

Unlink ==
    /\ host.pc = "unlink"
    /\ disk' = [disk EXCEPT !.ckpt = None]
    /\ host' = Over("PASS")
    /\ UNCHANGED net

Publishing == {"index", "results_index", "summary", "unlink"}

(* The socket reports that the board has aborted, or that the link is down; *)
(* what had arrived by then may or may not have been read.                 *)
ConnectionFails ==
    /\ host.pc \in {"send", "await"}
    /\ net[host.conn].host = "lost" \/ net[host.conn].board = "gone"
    /\ Quit(net)

(* io_timeout: no answer in time. *)
IoTimeout == host.pc = "await" /\ Quit(net)

(* The process is killed, or the machine stops: what was not yet synced    *)
(* may be lost, and the stack closes the connection.                       *)
Crash ==
    /\ host.pc # "idle"
    /\ \E d \in disk.data_safe .. Len(disk.data), t \in disk.timing_safe .. Len(disk.timing) :
          disk' = [disk EXCEPT !.data = SubSeq(@, 1, d), !.timing = SubSeq(@, 1, t)]
    /\ net' = IF host.conn = 0 THEN net
              ELSE [net EXCEPT ![host.conn].host = IF @ = "lost" THEN "lost" ELSE "closed",
                               ![host.conn].down = <<>>]
    /\ host' = Over("killed")

Host ==
    \/ Send \/ WrongAnswer \/ StatusArrives \/ ResultArrives \/ TimingArrives
    \/ Sync \/ Checkpoint \/ EndArrives
    \/ PublishIndex \/ PublishResults \/ PublishSummary \/ Unlink \/ ConnectionFails
=============================================================================
