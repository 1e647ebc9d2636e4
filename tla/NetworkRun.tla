----------------------------- MODULE NetworkRun -----------------------------
(***************************************************************************)
(* Host and board together: inference runs that are started, killed and     *)
(* resumed, over connections that break and frames that are damaged, and    *)
(* against a board one field of whose answers may be wrong.                 *)
(***************************************************************************)
EXTENDS NetServer, NetRunner

CONSTANTS Arguments,     \* the argument lists run_network is called with
          BoardBinding,  \* the bindings HELLO accepts on this board
          MaxFaults      \* bound: how many faults in one behaviour

ASSUME NetworkAssumption == MaxFaults \in Nat /\ BoardBinding \subseteq Bindings

ASSUME ArgumentsAssumption ==
    \A a \in Arguments :
        /\ a.mode \in Modes /\ a.selection \in BOOLEAN /\ a.binding \in Bindings
        /\ a.records \in Seq(Int) /\ a.first \in Int
        /\ a.warmup \in Int /\ a.chunk \in Int

(* The binding is a digest of the selection, or of the whole data set's     *)
(* index, among other things (net_runner.py:323, 331, 377-381).             *)
ASSUME BindingAssumption ==
    \A a, b \in Arguments :
        a.binding = b.binding /\ a.first = b.first /\ Count(a) = Count(b) =>
            a.selection = b.selection /\ a.records = b.records

VARIABLES faults,        \* how many more faults may happen
          honest         \* no answer of the board has been wrong so far

run_vars == <<net, srv, host, disk, faults, honest>>

RunInit == NetInit /\ SrvInit /\ HostInit /\ faults = MaxFaults /\ honest = TRUE

(* One field of one answer is not what this board should have sent. *)
Swapped(s) == IF Len(s) < 2 THEN s ELSE <<s[2], s[1]>> \o SubSeq(s, 3, Len(s))
Other(i)   == CHOOSE j \in {DataSet[n] : n \in DOMAIN DataSet} : j # i

WrongHeader(m) ==
    {[m EXCEPT !.type = "STATUS"], [m EXCEPT !.session = @ + 1], [m EXCEPT !.seq = @ + 1],
     [m EXCEPT !.first = @ + 1], [m EXCEPT !.count = (@ + 1) % (MaxChunk + 1)],
     [m EXCEPT !.status = 1], [m EXCEPT !.binding = 0]}

WrongBody(m) ==
    CASE m.type = "RESULT" ->
           {[m EXCEPT !.body = Swapped(@)], [m EXCEPT !.body = Tail(@)],
            [m EXCEPT !.body[1].image = Other(@)], [m EXCEPT !.body[1].pkg_image = Other(@)],
            [m EXCEPT !.body[1].input = Other(@)]}
      [] m.type = "TIMING" ->
           {[m EXCEPT !.body.first = @ + 1], [m EXCEPT !.body.count = @ + 1],
            [m EXCEPT !.body.packages = @ + 1], [m EXCEPT !.body.incrc = Append(@, "x")],
            [m EXCEPT !.body.rescrc = Append(@, "x")], [m EXCEPT !.body.temp = 85],
            [m EXCEPT !.body.rows = Tail(@)], [m EXCEPT !.body.rows[Len(m.body.rows)].image = Other(@)],
            [m EXCEPT !.body.rows[1].sound = FALSE], [m EXCEPT !.body.rows[1].profile = "none"]}
      [] m.type = "END" ->
           {[m EXCEPT !.body.received = @ + 1], [m EXCEPT !.body.sent = @ + 1],
            [m EXCEPT !.body.incrc = Append(@, "x")]}
      [] OTHER -> {}

Misanswer ==
    /\ honest
    /\ \E k \in Conns : \E i \in DOMAIN net[k].down :
       \E m \in WrongHeader(net[k].down[i]) \cup WrongBody(net[k].down[i]) :
         net' = [net EXCEPT ![k].down[i] = m]

(* The operator removes a directory no call accepts any more. *)
Clean ==
    /\ host.pc = "idle" /\ disk.dir
    /\ disk' = Empty
    /\ UNCHANGED <<net, host>>

Calls == \/ \E a \in Arguments, resume \in BOOLEAN : Start(a, resume) \/ Refuse(a, resume)
         \/ Clean

HostStep   == Host /\ UNCHANGED <<srv, faults, honest>>
ConnectStep == (\E k \in Conns : Connect(k)) /\ UNCHANGED <<srv, faults, honest>>
CallStep   == Calls /\ UNCHANGED <<srv, faults, honest>>
BoardStep  == Board(BoardBinding) /\ UNCHANGED <<host, disk, faults, honest>>
PacketStep == Callback /\ UNCHANGED <<host, disk, faults, honest>>
FaultStep  ==
    /\ faults > 0
    /\ faults' = faults - 1
    /\ \/ (\E k \in Conns : Break(k) \/ Damage(k)) /\ UNCHANGED <<host, disk, honest>>
       \/ Misanswer /\ honest' = FALSE /\ UNCHANGED <<host, disk>>
       \/ (IoTimeout \/ Crash) /\ UNCHANGED honest
    /\ UNCHANGED srv

RunNext == HostStep \/ ConnectStep \/ CallStep \/ BoardStep \/ PacketStep \/ FaultStep

(* Neither program stops by itself, and the link delivers what it can. *)
RunSpec == RunInit /\ [][RunNext]_run_vars
             /\ WF_run_vars(HostStep) /\ WF_run_vars(BoardStep) /\ WF_run_vars(PacketStep)

-----------------------------------------------------------------------------
(* What a run of these arguments must have produced after its first done    *)
(* records: the packages and timing rows of exactly those images, in order. *)
Wanted(a, done) == [n \in 1 .. done |-> DataSet[a.records[n] + 1]]

TrueData(a, done, data) ==
    IF ModeOf(a.mode).kind = "TIMING" THEN data = <<>>
    ELSE data = [n \in 1 .. done |-> PackageOf(Wanted(a, done)[n])]

TrueTiming(a, done, rows) ==
    IF ModeOf(a.mode).transport THEN rows = <<>>
    ELSE /\ Len(rows) = done
         /\ \A n \in 1 .. done : /\ rows[n].image = Wanted(a, done)[n]
                                 /\ rows[n].kind = ModeOf(a.mode).kind
                                 /\ rows[n].profile = ModeOf(a.mode).profile
                                 /\ rows[n].sound

(* The chunks cover the records without gap or overlap, and the warm-up     *)
(* ends where a chunk ends.                                                *)
Tiled(a, chunks) ==
    LET base   == IF a.selection THEN 0 ELSE a.first
        end(n) == IF n = 0 THEN base ELSE chunks[n].first + chunks[n].count
    IN  /\ \A n \in 1 .. Len(chunks) : chunks[n].first = end(n - 1)
        /\ end(Len(chunks)) = base + Count(a)
        /\ \E n \in 0 .. Len(chunks) : end(n) = base + a.warmup

(* A published summary is true: whatever was killed, resumed, broken,       *)
(* damaged or wrongly answered on the way, the files it vouches for hold    *)
(* the result of every record, once and in order, and its chunks keep the   *)
(* warm-up apart (run_network, net_runner.py:416-619).                      *)
SummaryTrue ==
    disk.summary # None =>
        LET a == disk.summary.args
        IN  /\ TrueData(a, Count(a), disk.data)
            /\ TrueTiming(a, Count(a), disk.timing)
            /\ Tiled(a, disk.summary.chunks)
            /\ ModeOf(a.mode).kind = "RAW" =>
                  /\ disk.index.data = disk.data
                  /\ \A n \in 1 .. Count(a) : disk.index.rows[n].crc = disk.data[n]

(* A checkpoint never runs ahead of the disk: what it counts as completed   *)
(* is already safe there and right, and its entries describe it, so that a  *)
(* later call may go on from it after any crash (net_runner.py:506-534).    *)
CheckpointCovered ==
    disk.ckpt # None =>
        \E a \in Arguments :
            LET c == disk.ckpt
                d == Len(c.entries)
            IN  /\ a.mode = c.mode /\ a.first = c.first /\ Count(a) = c.count /\ a.binding = c.binding
                /\ disk.data_safe >= d /\ disk.timing_safe >= c.timing_records
                /\ d = (IF ModeOf(a.mode).kind = "TIMING" THEN 0 ELSE c.completed)
                /\ TrueData(a, d, SubSeq(disk.data, 1, d))
                /\ TrueTiming(a, c.timing_records, SubSeq(disk.timing, 1, c.timing_records))
                /\ \A n \in 1 .. d : c.entries[n].crc = disk.data[n] /\ c.entries[n].offset = n - 1

(* Without a fault no call fails once it is accepted, however many follow    *)
(* one another: the board is ready for a new session as soon as the old one *)
(* has said goodbye, and both ends agree on every number they compare.      *)
CleanRunsPass == faults = MaxFaults => host.outcome # "failed"

(* Nobody waits for ever on the other: every call ends, and the board comes  *)
(* back to its main loop with no connection left open, but for that of a    *)
(* host that vanished while the board owed it nothing (no keepalive is set, *)
(* main_coco80_net.c:695-714).                                             *)
Settles ==
    /\ (host.pc \notin {"idle", "connect"}) ~> (host.pc = "idle")
    /\ (srv.pc # "loop" \/ srv.open) ~>
          (srv.pc = "loop" /\ (srv.open => net[srv.conn].host = "lost"))
-----------------------------------------------------------------------------
(* The run TLC checks: three images, chunks of one and two, and a client     *)
(* called with other arguments than before.                                 *)
Pictures == <<"a", "b", "c">>

Whole == [mode |-> "detections-accuracy", selection |-> FALSE, records |-> <<0, 1, 2>>,
          first |-> 0, warmup |-> 1, chunk |-> 2, binding |-> 1]
Picked == [mode |-> "raw-accuracy", selection |-> TRUE, records |-> <<2, 0>>,
           first |-> 0, warmup |-> 0, chunk |-> 1, binding |-> 1]
Moved == [mode |-> "transport", selection |-> FALSE, records |-> <<1, 2>>,
          first |-> 1, warmup |-> 0, chunk |-> 1, binding |-> 1]
Timed2 == [mode |-> "timing-demo", selection |-> FALSE, records |-> <<1, 2>>,
          first |-> 1, warmup |-> 1, chunk |-> 2, binding |-> 1]
Rebuilt == [Whole EXCEPT !.binding = 2]

Calls5 == {Whole, Picked, Moved, Timed2, Rebuilt}
=============================================================================
