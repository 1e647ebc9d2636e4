------------------------------- MODULE MCEvidence -------------------------------
(***************************************************************************)
(* What is published and what is accepted as evidence, in one run of TLC:  *)
(* in the initial state one component is chosen, and only it takes steps.  *)
(*   app       InferenceApp: two requests for two images, two              *)
(*             deployments, a kill, a clock that stands still              *)
(*   archive   RunArchive: two bindings, an artifact, two accuracy levels  *)
(*   pipeline  HostPipeline: three processes in one run directory          *)
(*   results   BoardResults: seven campaigns, one of fewer inputs, two     *)
(*             files mixed up                                              *)
(*   soak, performance                                                     *)
(*             NetworkTiming: soaks of two seconds, summaries of two runs  *)
(*             of five records; the two tools share nothing                *)
(*   card      SdCard: three input sets in two domains, two packages,      *)
(*             four commands, two changes, two runs of the board           *)
(*   candidate CandidateManifest: in two workspaces, two builds, two        *)
(*             exports, legal and illegal command lines, and a process      *)
(*             killed or a file deleted                                    *)
(***************************************************************************)
EXTENDS InferenceApp, SdCard, Sequences

CONSTANTS Free, None, Begun

VARIABLES which,
          src, dir, seal, replaced, damaged,                   \* RunArchive
          stages_output, marker, proc, started,                \* HostPipeline
          tool, ev, mixed, verdict,                            \* BoardResults
          soak, soak_board, soak_output, soaks, joined,        \* NetworkTiming
          perf, perf_output,
          ws, hw, publisher, builds, par, generator,           \* CandidateManifest
          model, project, elf, manifest, script, mishaps

Points == [fp32 |-> <<50, 40>>, int8 |-> <<49, 30>>]
Drops  == [fp32 |-> [min |-> 30, max_drop |-> 0], int8 |-> [min |-> 30, max_drop |-> 2]]

Archive == INSTANCE RunArchive
    WITH Bindings <- <<"bitstream", "elf">>, Artifacts <- <<"log">>, Levels <- <<"fp32", "int8">>,
         Metrics <- Points, Gates <- Drops, Missing <- Absent, MaxReplaced <- 2, MaxDamaged <- 2

Pipeline == INSTANCE HostPipeline
    WITH MaxProcesses <- 3, output <- stages_output, NoOutput <- None, OnlyBegun <- Begun, Partial <- Torn

(* Three inputs, packaged anew, and in another order. *)
Inputs  == [rev |-> 1, ids |-> <<1, 2, 3>>]
Again   == [Inputs EXCEPT !.rev = 2]
Swapped == [Inputs EXCEPT !.ids = <<2, 1, 3>>]

Whole == [set |-> Inputs, param |-> "p", sel |-> <<>>, mode |-> "accuracy", limit |-> 3, first |-> 1, count |-> 2,
          profile |-> "demo", hw |-> 1, wrong |-> FALSE]
Some  == [Whole EXCEPT !.sel = <<3, 1>>]

Small == [Whole EXCEPT !.set.ids = <<1, 2>>, !.limit = 2, !.first = 0]

Seven == {Small, Whole, [Whole EXCEPT !.set = Again, !.mode = "product"], [Whole EXCEPT !.set = Swapped, !.first = 0, !.hw = 2],
        [Whole EXCEPT !.param = "q", !.wrong = TRUE, !.profile = "accuracy"],
        Some, [Some EXCEPT !.sel = <<1, 3>>, !.param = "q"]}

Board == INSTANCE BoardResults
    WITH Campaigns <- Seven, Scale <- [p |-> 1, q |-> 1], Tensors <- 2, SelectionCount <- 2, ExpectedCounts <- {2, 3}, ReferenceCount <- 3,
         Missing <- Absent, MaxMixed <- 2

Setup  == [development |-> TRUE, allowed |-> TRUE, files |-> TRUE, quant |-> TRUE, skip |-> FALSE, shards |-> TRUE,
           inside |-> TRUE, build |-> 1]
Set_ups == {Setup, [Setup EXCEPT !.allowed = FALSE], [Setup EXCEPT !.files = FALSE], [Setup EXCEPT !.build = 2],
            [Setup EXCEPT !.skip = TRUE, !.shards = FALSE]}

Rows(hz)    == [n \in 1 .. 5 |-> [crc |-> n, profile |-> "timing, demo", hz |-> hz, config |-> 1]]
Chunk(f, n) == [first |-> f, count |-> n]
Timed == [status |-> "PASS", mode |-> "timing-demo", binding |-> 1, first |-> 3, count |-> 5, warm |-> 2,
          chunks |-> <<Chunk(3, 2), Chunk(5, 3)>>, rows |-> Rows(200)]

TimedRuns ==
    {Timed, [Timed EXCEPT !.status = "begun"], [Timed EXCEPT !.mode = "raw"], [Timed EXCEPT !.binding = 2],
     [Timed EXCEPT !.chunks = <<Chunk(3, 2), Chunk(5, 2), Chunk(7, 1)>>], [Timed EXCEPT !.warm = 0, !.chunks = <<Chunk(3, 5)>>],
     [Timed EXCEPT !.chunks = [n \in 1 .. 5 |-> Chunk(n + 2, 1)]],
     [Timed EXCEPT !.first = 0, !.chunks = <<Chunk(0, 2), Chunk(2, 3)>>],
     [Timed EXCEPT !.rows[4].crc = 9], [Timed EXCEPT !.rows = Rows(100)],
     [Timed EXCEPT !.rows[1].config = 2], [Timed EXCEPT !.rows[5].config = 2], [Timed EXCEPT !.rows = SubSeq(@, 1, 4)],
     [Timed EXCEPT !.count = 4, !.rows = SubSeq(@, 1, 4), !.chunks = <<Chunk(3, 2), Chunk(5, 2)>>]}

Timing == INSTANCE NetworkTiming
    WITH Seconds <- 2, MaxGap <- 2, Durations <- {1, 3}, Records <- 2, Setups <- Set_ups, BoardBuilds <- {1},
         RunDirs <- TimedRuns, ExpectedRuns <- 2, ExpectedTimed <- 3, Warmup <- 2, MaxSoaks <- 2,
         board <- soak_board, output <- soak_output, runs <- joined

(* SdCard: input sets of two domains, and packages of two checkpoints for one *)
(* of them.                                                                *)
SetDomain  == <<1, 2, 2>>
SdPackages == {[domain |-> 2, model |-> "a"], [domain |-> 2, model |-> "b"]}

SoakTest == [stream |-> "BF", performance |-> FALSE, soak |-> TRUE, runs |-> 0, seconds |-> 0, clock |-> 200,
             dir |-> 200, check |-> FALSE]
Sweep    == [SoakTest EXCEPT !.soak = FALSE, !.performance = TRUE, !.runs = 30, !.clock = 125, !.dir = 125]

(* A soak in one workspace and the sweep at 125 MHz in another, which is       *)
(* refused for more runs.                                                  *)
CommandLines ==
    {SoakTest, Sweep, [Sweep EXCEPT !.runs = 100]}

Candidate == INSTANCE CandidateManifest
    WITH Workspaces <- {"soak", "125_perf"}, Invocations <- CommandLines, Generations <- 2, Missing <- Absent,
         MaxBuilds <- 2, MaxMishaps <- 1

archive_vars  == <<src, dir, seal, replaced, damaged>>
pipeline_vars == <<stages_output, marker, proc, started>>
results_vars  == <<tool, ev, mixed, verdict>>
soak_vars     == <<soak, soak_board, soak_output, soaks>>
performance_vars == <<joined, perf, perf_output>>
timing_vars   == <<soak_vars, performance_vars>>
candidate_vars == <<ws, hw, publisher, builds, par, generator, model, project, elf, manifest, script, mishaps>>
all_vars      == <<which, avars, archive_vars, pipeline_vars, results_vars, timing_vars, cvars, candidate_vars>>

Chosen ==
    /\ which \in {"app", "archive", "pipeline", "results", "soak", "performance", "card", "candidate"}
    /\ AppInit /\ SdInit
    /\ IF which = "archive" THEN Archive!ArchiveInit
       ELSE src = "none" /\ dir = "none" /\ seal = "none" /\ replaced = "none" /\ damaged = "none"
    /\ IF which = "pipeline" THEN Pipeline!PipelineInit
       ELSE stages_output = "none" /\ marker = "none" /\ proc = "none" /\ started = "none"
    /\ IF which = "results" THEN Board!ResultsInit
       ELSE tool = "none" /\ ev = "none" /\ mixed = "none" /\ verdict = "none"
    /\ IF which \in {"soak", "performance"} THEN Timing!TimingInit
       ELSE /\ soak = "none" /\ soak_board = "none" /\ soak_output = "none" /\ soaks = "none"
            /\ joined = "none" /\ perf = "none" /\ perf_output = "none"
    /\ IF which = "candidate" THEN Candidate!CandidateInit
       ELSE /\ ws = "none" /\ hw = "none" /\ publisher = "none" /\ builds = "none" /\ par = "none" /\ generator = "none"
            /\ model = "none" /\ project = "none" /\ elf = "none" /\ manifest = "none" /\ script = "none" /\ mishaps = "none"

Others == <<which, archive_vars, pipeline_vars, results_vars, timing_vars, cvars, candidate_vars>>

AppStep       == /\ which = "app" /\ AppNext
                 /\ UNCHANGED Others
ArchiveStep   == /\ which = "archive" /\ Archive!ArchiveNext
                 /\ UNCHANGED <<which, avars, pipeline_vars, results_vars, timing_vars, cvars, candidate_vars>>
PipelineStep  == /\ which = "pipeline" /\ Pipeline!PipelineNext
                 /\ UNCHANGED <<which, avars, archive_vars, results_vars, timing_vars, cvars, candidate_vars>>
ResultsStep   == /\ which = "results" /\ Board!ResultsNext
                 /\ UNCHANGED <<which, avars, archive_vars, pipeline_vars, timing_vars, cvars, candidate_vars>>
TimingStep    == /\ which \in {"soak", "performance"} /\ Timing!TimingNext
                 /\ which = "soak" => performance_vars' = performance_vars
                 /\ which = "performance" => soak_vars' = soak_vars
                 /\ UNCHANGED <<which, avars, archive_vars, pipeline_vars, results_vars, cvars, candidate_vars>>
CardStep      == /\ which = "card" /\ SdNext
                 /\ UNCHANGED <<which, avars, archive_vars, pipeline_vars, results_vars, timing_vars, candidate_vars>>
CandidateStep == /\ which = "candidate" /\ Candidate!CandidateNext
                 /\ UNCHANGED <<which, avars, archive_vars, pipeline_vars, results_vars, timing_vars, cvars>>

EvidenceNext ==
    \/ AppStep \/ ArchiveStep \/ PipelineStep \/ ResultsStep \/ TimingStep \/ CardStep \/ CandidateStep

EvidenceSpec ==
    /\ Chosen /\ [][EvidenceNext]_all_vars
    /\ \A t \in Threads : WF_all_vars(which = "app" /\ Step(t) /\ UNCHANGED Others)
-----------------------------------------------------------------------------
(* InferenceApp.AppTrue and SdCard.CardTrue are checked as they stand: both   *)
(* rest while another component takes steps.                                *)

(* RunArchive.VerifiedIsSealed and SealedVerifies, HostPipeline's            *)
(* ReleasedPassed, and CandidateManifest.CandidateWhole and FinalizedRuns:   *)
(* what is released passed its gates and is one set, and what verifies later *)
(* is what was sealed.                                                       *)
ReleasesTrue ==
    /\ which = "archive" => Archive!VerifiedIsSealed /\ Archive!SealedVerifies
    /\ which = "pipeline" => Pipeline!ReleasedPassed
    /\ which = "candidate" => Candidate!CandidateWhole /\ Candidate!FinalizedRuns

(* BoardResults.AcceptedIsOfItsInputs and its converse OneRunAccepted, and   *)
(* NetworkTiming.SoakTrue and PerformanceIsolated: what the evaluators of    *)
(* board runs accept.                                                       *)
EvidenceJudgedRight ==
    /\ which = "results" => Board!AcceptedIsOfItsInputs /\ Board!OneRunAccepted
    /\ which \in {"soak", "performance"} => Timing!SoakTrue /\ Timing!PerformanceIsolated
=============================================================================
