------------------------------ MODULE NetworkTiming ------------------------------
(***************************************************************************)
(* Timing over the network: run_soak of tools/coco80/network_soak.py, which *)
(* sends one chunk over and over for a given time in one session, and      *)
(* run_performance of network_performance.py, which joins the timings of   *)
(* several runs of the runner.  The board, of which only the answers are   *)
(* modelled, may refuse, be of another build, answer for another chunk,    *)
(* get hot or give another output; the connection may break at any time;   *)
(* a joined directory may be of other artifacts, records or another plan.  *)
(* A CRC or digest is the thing it is taken of; what the summaries only    *)
(* report (percentiles, telemetry) is left out.                            *)
(***************************************************************************)
EXTENDS Integers, Sequences, FiniteSets, SequencesExt

CONSTANTS Seconds,         \* --seconds
          MaxGap,          \* --max-progress-gap
          Durations,       \* of a chunk, and of the END exchange
          Records,         \* --record-count
          Setups,          \* what run_soak may be given, see SetupOk
          BoardBuilds,     \* builds that may be on the board
          Free,            \* no output directory
          RunDirs,         \* what a directory given to run_performance may hold
          ExpectedRuns, ExpectedTimed, Warmup,
          MaxSoaks         \* bound

VARIABLES soak,            \* the soak in progress
          board,           \* its build, and what it took and answered in this session
          output,          \* the soak's output directory
          soaks,           \* soaks started
          runs, perf,      \* directories joined so far, and how it ended
          perf_output      \* the output directory of run_performance

tvars == <<soak, board, output, soaks, runs, perf, perf_output>>

SumOf(s) == FoldLeft(LAMBDA a, b : a + b, 0, s)

NoSoak     == [pc |-> "idle", setup |-> Free, elapsed |-> 0, gap |-> 0, records |-> 0, baseline |-> <<>>]
Fresh(b)   == [build |-> b, received |-> 0, answers |-> <<>>]

TimingInit ==
    /\ soak = NoSoak /\ board \in {Fresh(b) : b \in BoardBuilds} /\ output = Free /\ soaks = 0
    /\ runs = <<>> /\ perf = "joining" /\ perf_output \in {Free, "old"}

-----------------------------------------------------------------------------
(* run_soak looks at everything it was given before it makes the directory:   *)
(* a development ELF needs leave, the files and the quantization manifest   *)
(* are those of the runner's manifest, the shards are whole, and the        *)
(* selection is inside them.                                               *)
SetupOk(s) ==
    /\ s.development => s.allowed
    /\ s.files /\ s.quant
    /\ s.skip \/ s.shards
    /\ s.inside

(* It refuses a directory that is there, and opens one session. *)
SoakBegin == \E s \in Setups :
    /\ soak.pc = "idle" /\ soaks < MaxSoaks
    /\ SetupOk(s) /\ output = Free
    /\ output' = [rows |-> 0, summary |-> Free]
    /\ soak' = [NoSoak EXCEPT !.pc = "hello", !.setup = s] /\ board' = Fresh(board.build)
    /\ soaks' = soaks + 1
    /\ UNCHANGED <<runs, perf, perf_output>>

Soaks == UNCHANGED <<soaks, runs, perf, perf_output>>

(* An exception: the directory stays. *)
SoakFails == soak' = NoSoak

(* The connection breaks, the board answers an error or for another request. *)
SoakBreaks ==
    /\ soak.pc \in {"hello", "parameters", "input", "run", "end"}
    /\ SoakFails /\ UNCHANGED <<board, output>> /\ Soaks

(* HELLO names the builds of the runner's manifest; a board of another build  *)
(* refuses.                                                                *)
SoakHello ==
    /\ soak.pc = "hello"
    /\ IF soak.setup.build = board.build THEN soak' = [soak EXCEPT !.pc = "parameters"] ELSE SoakFails
    /\ UNCHANGED <<board, output>> /\ Soaks

SoakParameters ==
    /\ soak.pc = "parameters"
    /\ soak' = [soak EXCEPT !.pc = "input"]
    /\ UNCHANGED <<board, output>> /\ Soaks

TimeLeft == soak.elapsed < Seconds

(* INPUT_CHUNK: the same chunk under the next record numbers. *)
SoakInput ==
    /\ soak.pc = "input" /\ TimeLeft
    /\ board' = [board EXCEPT !.received = @ + Records]
    /\ soak' = [soak EXCEPT !.pc = "run"]
    /\ UNCHANGED output /\ Soaks

(* What the board may answer to RUN: the first record and whether the CRC of  *)
(* the input, the images and the profile are those of the chunk, the CRC of *)
(* each output, and whether it got as hot as the limit.                     *)
Answers ==
    [first : {soak.records, 0}, same : BOOLEAN, images : BOOLEAN, hot : BOOLEAN, crcs : [1 .. Records -> {"a", "b"}]]

ChunkOk(a)    == a.first = soak.records /\ a.same
BaselineOk(a) == soak.baseline = <<>> \/ a.crcs = soak.baseline

(* The rows are written before the outputs are compared. *)
SoakRun == \E d \in Durations, a \in Answers :
    /\ soak.pc = "run"
    /\ board' = [board EXCEPT !.answers = Append(@, a)]
    /\ output' \in IF ~ChunkOk(a) THEN {output}
                   ELSE {[output EXCEPT !.rows = @ + n] : n \in IF a.images THEN {Records} ELSE 0 .. Records - 1}
    /\ IF ChunkOk(a) /\ a.images /\ BaselineOk(a) /\ ~a.hot
       THEN soak' = [soak EXCEPT !.pc = "input", !.elapsed = @ + d, !.gap = IF d > @ THEN d ELSE @,
                                 !.records = @ + Records, !.baseline = IF @ = <<>> THEN a.crcs ELSE @]
       ELSE SoakFails
    /\ Soaks

SoakEnd ==
    /\ soak.pc = "input" /\ ~TimeLeft
    /\ soak' = [soak EXCEPT !.pc = "end"]
    /\ UNCHANGED <<board, output>> /\ Soaks

(* The counters that the board answers to END, which may be off, and the rest *)
(* of its answer: errors and CRCs.                                         *)
EndMatches(end) == end.received = soak.records /\ end.completed = soak.records /\ end.clean

Loops == soak.records \div Records

SoakSummary == \E d \in Durations, end \in [received : {board.received, 0}, completed : {Records * Len(board.answers), 0},
                                            clean : BOOLEAN] :
    /\ soak.pc = "end"
    /\ IF EndMatches(end) /\ soak.elapsed + d >= Seconds /\ Loops > 0 /\ soak.gap <= MaxGap
       THEN /\ output' = [output EXCEPT !.summary =
                  [elapsed |-> soak.elapsed + d, loops |-> Loops, records |-> soak.records, build |-> soak.setup.build]]
            /\ soak' = [NoSoak EXCEPT !.pc = "done"]
       ELSE SoakFails /\ UNCHANGED output
    /\ UNCHANGED board /\ Soaks

(* The operator clears the directory away, and may program the board anew. *)
Clear ==
    /\ soak.pc = "idle" /\ output # Free
    /\ output' = Free
    /\ board' \in {Fresh(b) : b \in BoardBuilds}
    /\ UNCHANGED soak /\ Soaks

-----------------------------------------------------------------------------
(* run_performance, one directory after the other: the summary of a timing   *)
(* run, its timing rows, and its chunks.                                   *)
Performance == UNCHANGED <<soak, board, output, soaks>>

ExpectedRecords == Warmup + ExpectedTimed

Contract(d) ==
    /\ d.status = "PASS" /\ d.mode = "timing-demo"
    /\ d.count = ExpectedRecords /\ d.warm = Warmup

SameRun(d) == runs = <<>> \/ (d.binding = runs[1].binding /\ d.first = runs[1].first)

CrcsOf(d) == [n \in DOMAIN d.rows |-> d.rows[n].crc]

RowsOk(d) ==
    /\ Len(d.rows) = ExpectedRecords
    /\ \A n \in DOMAIN d.rows : d.rows[n].profile = "timing, demo"
    /\ runs # <<>> => CrcsOf(d) = CrcsOf(runs[1])

(* Mutant: what is summed are the chunks that end after the warm-up. *)
ChunksTouching(d) == SelectSeq(d.chunks, LAMBDA c : c.first + c.count > d.first + Warmup)

TimedChunks(d) == SelectSeq(d.chunks, LAMBDA c : c.first >= d.first + Warmup)

WarmupIsolated(d) == SumOf([n \in DOMAIN TimedChunks(d) |-> TimedChunks(d)[n].count]) = ExpectedTimed

PerfRun == \E d \in RunDirs :
    /\ perf = "joining" /\ Len(runs) < ExpectedRuns
    /\ IF Contract(d) /\ SameRun(d) /\ RowsOk(d) /\ WarmupIsolated(d)
       THEN runs' = Append(runs, d) /\ UNCHANGED perf
       ELSE perf' = "refused" /\ UNCHANGED runs
    /\ UNCHANGED perf_output /\ Performance

(* All timed rows of all runs. *)
TimedRows == FlattenSeq([n \in DOMAIN runs |-> SubSeq(runs[n].rows, Warmup + 1, Len(runs[n].rows))])

OneClock  == Cardinality({row.hz : row \in ToSet(TimedRows)}) = 1
OneConfig == Cardinality({row.config : row \in ToSet(TimedRows)}) = 1

(* The output directory is looked at last. *)
PerfSummary ==
    /\ perf = "joining" /\ Len(runs) = ExpectedRuns
    /\ IF Len(TimedRows) = ExpectedRuns * ExpectedTimed /\ OneClock /\ OneConfig /\ perf_output = Free
       THEN perf' = "passed" /\ perf_output' = [binding |-> runs[1].binding, rows |-> TimedRows]
       ELSE perf' = "refused" /\ UNCHANGED perf_output
    /\ UNCHANGED runs /\ Performance

TimingNext ==
    \/ SoakBegin \/ SoakBreaks \/ SoakHello \/ SoakParameters \/ SoakInput \/ SoakRun \/ SoakEnd \/ SoakSummary \/ Clear
    \/ PerfRun \/ PerfSummary

TimingSpec == TimingInit /\ [][TimingNext]_tvars

-----------------------------------------------------------------------------
(* A soak that is reported passed: in one session with the build it names,    *)
(* for the whole time, every chunk sent came back, as that chunk, with the  *)
(* same outputs in every loop and never hot, and the timing file holds the  *)
(* rows of those and nothing of a soak before.                              *)
SoakTrue ==
    soak.pc = "done" =>
        LET s == output.summary IN
        /\ s.elapsed >= Seconds
        /\ s.build = board.build
        /\ s.records = s.loops * Records /\ output.rows = s.records
        /\ board.received = s.records /\ Len(board.answers) = s.loops
        /\ \A n \in DOMAIN board.answers :
              LET a == board.answers[n]
              IN  a.first = (n - 1) * Records /\ a.same /\ a.images /\ ~a.hot /\ a.crcs = board.answers[1].crcs

(* A summary of performance: the timed records of each run are those after    *)
(* its warm-up and no chunk mixes the two; all runs are of the same          *)
(* artifacts, records, clock and configuration, and gave the same outputs.  *)
PerformanceIsolated ==
    perf = "passed" =>
        /\ Len(runs) = ExpectedRuns /\ Len(perf_output.rows) = ExpectedRuns * ExpectedTimed
        /\ \A n \in DOMAIN runs :
              /\ runs[n].status = "PASS" /\ runs[n].binding = perf_output.binding /\ runs[n].first = runs[1].first
              /\ CrcsOf(runs[n]) = CrcsOf(runs[1])
              /\ \A c \in ToSet(runs[n].chunks) :
                    c.first >= runs[n].first + Warmup \/ c.first + c.count <= runs[n].first + Warmup
        /\ \A i, j \in DOMAIN perf_output.rows : /\ perf_output.rows[i].hz = perf_output.rows[j].hz
                                                 /\ perf_output.rows[i].config = perf_output.rows[j].config
=============================================================================
