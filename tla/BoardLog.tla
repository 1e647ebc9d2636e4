-------------------------------- MODULE BoardLog --------------------------------
(***************************************************************************)
(* The board program of main_conv3_conv4_chain.c and the host tools that   *)
(* accept its UART log: abi_v2_board_soak, abi_v2_board_signoff,           *)
(* abi_v2_board_performance and abi_v2_board_functional.  A program built  *)
(* for one mode prints records while it works; the capture keeps the lines *)
(* of all boots one after the other, has gaps of any length, and may be    *)
(* given to the tool at any time.                                          *)
(***************************************************************************)
EXTENDS Integers, Sequences, FiniteSets, SequencesExt

CONSTANTS Modes,                 \* of "soak", "benchmark", "functional"
          MinTime, ProgressTime, \* ACCEL_V2_SOAK_SECONDS, _PROGRESS_SECONDS
          MaxGap,                \* max_progress_gap_ms
          Dispatch,              \* durations of a dispatch
          Runs,                  \* ACCEL_V2_BENCHMARK_RUNS
          P95Limit, MaxLimit,    \* p95_us_exclusive, max_us_exclusive
          Layers,                \* layers a functional run compares
          MaxBoots, MaxGaps      \* bounds

VARIABLES mode,            \* what the ELF was built for
          board,           \* the program
          tx,              \* lines printed and not yet captured
          log,             \* the captured lines
          lost,            \* the gaps: how many, of how many lines, is one open
          measured,        \* per boot: what really happened
          verdict          \* a tool's

bvars == <<mode, board, tx, log, lost, measured, verdict>>

Line(t, i, v, m) == [t |-> t, boot |-> board.boot, i |-> i, v |-> v, m |-> m]
Fail == Line("fail", 0, 0, 0)

Booted(b) == [boot |-> b, pc |-> "start", n |-> 0, elapsed |-> 0, next |-> ProgressTime, max |-> 0]

NoVerdict == [tool |-> "none", accepted |-> FALSE]

BoardLogInit ==
    /\ mode \in Modes
    /\ board = Booted(1) /\ tx = <<>> /\ log = <<>> /\ lost = [gaps |-> 0, lines |-> 0, open |-> FALSE]
    /\ measured = <<>> /\ verdict = NoVerdict

(* Nothing is printed before the line before it is out. *)
Ready(pc) == verdict = NoVerdict /\ tx = <<>> /\ board.pc = pc

Stops == board' = [board EXCEPT !.pc = "dead"]

Completes(record) == measured' = Append(measured, record @@ [boot |-> board.boot])

-----------------------------------------------------------------------------
(* Temperatures are 0, plausible and below the limit, or 1.                 *)
(* v2_soak_thermal_init takes a first sample and v2_run_soak another one.   *)
SoakStart == \E first, second \in {0, 1} :
    /\ mode = "soak" /\ Ready("start")
    /\ IF second = 1
       THEN tx' = <<Fail>> /\ Stops
       ELSE tx' = <<Line("begin", 0, 0, 0)>> /\ board' = [board EXCEPT !.pc = "run", !.max = first]
    /\ UNCHANGED <<mode, log, lost, measured, verdict>>

NextProgress(next, elapsed) == CHOOSE p \in elapsed + 1 .. elapsed + ProgressTime : (p % ProgressTime) = 0

(* v2_run_soak: one dispatch, one sample, and a progress record if it is     *)
(* time for one.                                                           *)
SoakDispatch == \E d \in Dispatch, ok \in BOOLEAN, temp \in {0, 1} :
    LET elapsed == board.elapsed + d
        runs    == board.n + 1
        over    == elapsed >= MinTime
        sample  == Line("progress", runs, elapsed, board.max)
    IN  /\ mode = "soak" /\ Ready("run")
        /\ IF ~ok \/ temp = 1
           THEN tx' = <<Fail>> /\ Stops /\ UNCHANGED measured
           ELSE /\ board' = [board EXCEPT !.n = runs, !.elapsed = elapsed,
                                !.pc = IF over THEN "done" ELSE "run",
                                !.next = IF elapsed >= board.next THEN NextProgress(board.next, elapsed) ELSE @]
                /\ tx' = (IF elapsed >= board.next \/ over THEN <<sample>> ELSE <<>>)
                         \o (IF over THEN <<Line("end", runs, elapsed, board.max), Line("pass", 0, 0, 0)>> ELSE <<>>)
                /\ IF over THEN Completes([runs |-> runs, elapsed |-> elapsed, max |-> board.max])
                           ELSE UNCHANGED measured
        /\ UNCHANGED <<mode, log, lost, verdict>>

-----------------------------------------------------------------------------
(* The benchmark loop of main: the warm-up and Runs timed dispatches, each   *)
(* between its markers.  The time is the wall clock of the dispatch.        *)
RunBegin ==
    /\ mode = "benchmark" /\ Ready("start")
    /\ tx' = <<Line("run_begin", board.n, 0, 0)>>
    /\ board' = [board EXCEPT !.pc = "run"]
    /\ UNCHANGED <<mode, log, lost, measured, verdict>>

(* The warm-up is the slow one. *)
Times == IF board.n = 0 THEN {MaxLimit} ELSE 1 .. MaxLimit

RunDispatch == \E us \in Times, ok \in BOOLEAN :
    /\ mode = "benchmark" /\ Ready("run")
    /\ IF ~ok
       THEN tx' = <<Fail>> /\ Stops /\ UNCHANGED measured
       ELSE LET times == Append(IF board.n = 0 THEN <<>> ELSE board.max, us)
            IN  /\ tx' = <<Line("total", 0, 0, 0), Line("timing", 0, us, board.n), Line("pass", 0, 0, 0),
                           Line("run_end", board.n, 0, 0)>>
                /\ board' = [board EXCEPT !.n = @ + 1, !.max = times,
                                          !.pc = IF board.n = Runs THEN "done" ELSE "start"]
                /\ IF board.n = Runs THEN Completes([times |-> times]) ELSE UNCHANGED measured
    /\ UNCHANGED <<mode, log, lost, verdict>>

-----------------------------------------------------------------------------
(* A functional run compares the output of each layer (compare_layer_ofm)   *)
(* before it prints its totals.                                            *)
FunctionalLayer == \E ok \in BOOLEAN :
    LET n == board.n + 1 IN
    /\ mode = "functional" /\ Ready("start")
    /\ IF ~ok
       THEN tx' = <<Fail>> /\ Stops /\ UNCHANGED measured
       ELSE /\ tx' = <<Line("compare", n, 0, 0)>>
                     \o (IF n = Layers THEN <<Line("total", 0, 0, 0), Line("timing", 0, 1, 0), Line("pass", 0, 0, 0)>>
                         ELSE <<>>)
            /\ board' = [board EXCEPT !.n = n, !.pc = IF n = Layers THEN "done" ELSE "start"]
            /\ IF n = Layers THEN Completes([layers |-> n]) ELSE UNCHANGED measured
    /\ UNCHANGED <<mode, log, lost, verdict>>

-----------------------------------------------------------------------------
Capture ==
    /\ verdict = NoVerdict /\ tx # <<>>
    /\ tx' = Tail(tx)
    /\ \/ log' = Append(log, Head(tx)) /\ lost' = [lost EXCEPT !.open = FALSE]
       \/ /\ lost.open \/ lost.gaps < MaxGaps
          /\ lost' = [gaps |-> IF lost.open THEN lost.gaps ELSE lost.gaps + 1, lines |-> lost.lines + 1, open |-> TRUE]
          /\ UNCHANGED log
    /\ UNCHANGED <<mode, board, measured, verdict>>

Reboot ==
    /\ verdict = NoVerdict /\ board.boot < MaxBoots
    /\ board' = Booted(board.boot + 1) /\ tx' = <<>>
    /\ UNCHANGED <<mode, log, lost, measured, verdict>>

-----------------------------------------------------------------------------
Types(s) == [n \in DOMAIN s |-> s[n].t]
NoFail   == \A n \in DOMAIN log : log[n].t # "fail"

(* parse_soak_log, validate_soak *)
SoakParsed ==
    /\ NoFail /\ Len(log) >= 4
    /\ Types(log) = <<"begin">> \o [n \in 1 .. Len(log) - 3 |-> "progress"] \o <<"end", "pass">>

SoakProgressOk == \A n \in 2 .. Len(log) - 2 :
    LET before == IF n = 2 THEN [i |-> 0, v |-> 0, m |-> 0] ELSE log[n - 1]
    IN  /\ log[n].v > before.v /\ log[n].i > before.i
        /\ log[n].v - before.v <= MaxGap
        /\ log[n].m # 1 /\ log[n].m >= before.m

SoakEndOk ==
    LET end  == log[Len(log) - 1]
        last == log[Len(log) - 2]
    IN  /\ end.v >= MinTime
        /\ end.v = last.v /\ end.i = last.i
        /\ end.i > 0 /\ end.m = last.m /\ end.m # 1

validate_soak == SoakParsed /\ SoakProgressOk /\ SoakEndOk

(* parse_logs of abi_v2_board_signoff: five lines a record and an index that  *)
(* counts; a line of another kind, FAIL too, is passed over.               *)
Seen == SelectSeq(log, LAMBDA l : l.t # "fail")

RecordTypes == <<"run_begin", "total", "timing", "pass", "run_end">>
Records     == Len(Seen) \div Len(RecordTypes)

(* Mutant: a marker counts whatever index it carries. *)
AnyMarker(n)    == Seen[5 * n + 5].t = "run_end"

MarkersPair(n)  == Seen[5 * n + 1].i = Seen[5 * n + 5].i
MarkerCounts(n) == Seen[5 * n + 5].i = n

parse_logs ==
    /\ Types(Seen) = [k \in 1 .. 5 * Records |-> RecordTypes[1 + ((k - 1) % 5)]]
    /\ \A n \in 0 .. Records - 1 : MarkersPair(n) /\ MarkerCounts(n)

Samples == [n \in 1 .. Records - 1 |-> Seen[5 * n + 3].v]

nearest_rank_p95(samples) == SortSeq(samples, LAMBDA x, y : x < y)[(95 * Len(samples) + 99) \div 100]

ExpectedRecords == Runs + 1

validate_signoff ==
    /\ parse_logs /\ Records = ExpectedRecords
    /\ nearest_rank_p95(Samples) < P95Limit
    /\ \A n \in DOMAIN Samples : Samples[n] < MaxLimit

(* validate_performance_measurement: any FAIL is refused, no time is judged. *)
validate_performance_measurement == NoFail /\ parse_logs /\ Records = ExpectedRecords

(* parse_log of abi_v2_board_functional *)
validate_functional ==
    /\ NoFail
    /\ Types(log) = [n \in 1 .. Layers |-> "compare"] \o <<"total", "timing", "pass">>
    /\ \A n \in 1 .. Layers : log[n].i = n

Tools == [soak |-> {"soak"}, benchmark |-> {"signoff", "performance"}, functional |-> {"functional"}]

Accepts(tool) ==
    CASE tool = "soak"        -> validate_soak
      [] tool = "signoff"     -> validate_signoff
      [] tool = "performance" -> validate_performance_measurement
      [] tool = "functional"  -> validate_functional

Judge == \E tool \in Tools[mode] :
    /\ verdict = NoVerdict
    /\ verdict' = [tool |-> tool, accepted |-> Accepts(tool)]
    /\ UNCHANGED <<mode, board, tx, log, lost, measured>>

BoardLogNext ==
    \/ SoakStart \/ SoakDispatch \/ RunBegin \/ RunDispatch \/ FunctionalLayer
    \/ Capture \/ Reboot \/ Judge

BoardLogSpec == BoardLogInit /\ [][BoardLogNext]_bvars

-----------------------------------------------------------------------------
Done(p(_)) == \E n \in DOMAIN measured : p(measured[n])

(* The lines of a warm-up and of a dispatch up to its time. *)
JoiningGap == 5 + 3

Judged(accepted) == verdict # NoVerdict /\ verdict.accepted = accepted

(* An accepted log is of a boot that ran to its end, however often the board *)
(* was started again and however many lines were lost in one gap.  What the *)
(* tool reports of a soak (its time, dispatches and temperature) and the    *)
(* comparison of every layer are what that boot measured.  Of a benchmark   *)
(* every sample is the time of the dispatch that its index says, so that    *)
(* the warm-up is none of them.  They are all of that boot if fewer than     *)
(* eight lines were lost: a longer gap may begin after a dispatch is timed   *)
(* and end after the same dispatch of the next boot, and parse_logs, which   *)
(* knows a boot by nothing but its indices, joins the two                   *)
(* (abi_v2_board_signoff.py:90-145).                                       *)
AcceptedRanWhole ==
    Judged(TRUE) =>
        CASE mode = "soak" ->
               LET end == log[Len(log) - 1]
               IN  Done(LAMBDA m : /\ m.boot = end.boot /\ m.elapsed = end.v /\ m.runs = end.i
                                   /\ m.elapsed >= MinTime /\ m.max = 0)
          [] mode = "benchmark" ->
               /\ lost.gaps <= 1 => \A n \in 1 .. Runs : Seen[5 * n + 3].m = n
               /\ Done(LAMBDA m : /\ m.boot = Last(Seen).boot
                                  /\ lost.gaps <= 1 /\ lost.lines < JoiningGap => Samples = Tail(m.times))
          [] mode = "functional" -> Done(LAMBDA m : m.boot = Last(log).boot)

(* The other way round: the full capture of one boot that ran to its end is  *)
(* accepted when no sample is over a limit.  The contract of the board and  *)
(* that of the tools are written apart: cadence of the progress records,    *)
(* number of records, order of the lines.                                  *)
WholeLogAccepted ==
    /\ Judged(FALSE) /\ lost.lines = 0 /\ tx = <<>> /\ board.boot = 1 /\ board.pc = "done"
    => \/ mode = "soak" /\ board.max = 1
       \/ verdict.tool = "signoff" /\ \E n \in 2 .. Runs + 1 : board.max[n] >= P95Limit
=============================================================================
