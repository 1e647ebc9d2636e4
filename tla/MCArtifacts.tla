------------------------------ MODULE MCArtifacts ------------------------------
(***************************************************************************)
(* What the host tools make and accept, in one run of TLC: in the initial  *)
(* state one component is chosen, and only it takes steps.                 *)
(*   plan      HardwarePlan: layers of every small geometry                *)
(*   package   ParameterPackage: an array of four rows and two lanes, a    *)
(*             one-by-one layer with tails in channels and rows, and a     *)
(*             three-by-three layer of one tile                            *)
(*   shards    InputShards: lists of two and three images, one with an     *)
(*             image twice, in shards of two                               *)
(*   chain     SdPackages: two images, two models, heads of four and six   *)
(*             cells                                                       *)
(*   log       BoardLog: every mode, two boots, one gap of any length      *)
(*   mailbox   MulticoreMailbox: two workers, generations that wrap at     *)
(*             three, a pooling and a convolution                          *)
(***************************************************************************)
EXTENDS MulticoreMailbox, ParameterPackage, InputShards

VARIABLES which,
          five, verdict,                                       \* SdPackages
          mode, board, tx, log, lost, measured, judged         \* BoardLog

SmallLimits ==
    [rows |-> 4, cout_tile |-> 2, fm_h_max |-> 5, fm_w_max |-> 4, max_channels |-> 8,
     max_k_total |-> 64, max_passes |-> 8, psum_depth |-> 8, materialized_depth |-> 64,
     packed_reorder_depth |-> 16, line_bank_depth |-> 16, ifm_fifo_depth |-> 8,
     dma_max_length |-> 128, bias_window_bytes |-> 48, weight_window_bytes |-> 96]

SmallPlan ==
    << NewLayer("a", 0, "input", "a", 4, 2, 3, 3, 1, 2, 2, NoDetect),
       NewLayer("b", 1, "a", "b", 2, 1, 3, 1, 3, 2, 0, 0) >>

(* What stands for no question: a layer without channels. *)
Refused == [SmallPlan[1] EXCEPT !.cin = 0]

SmallTotals == [bias |-> 40, weight |-> 88]

GoodQuant == [weight_zero_point |-> 0, granularity |-> "per_tensor", input_zero_point |-> 9,
              output_zero_point |-> 127, rtl_mult |-> 65535, rtl_shift |-> 15]

Entry(l) == [identity |-> SmallPlan[l], quant |-> GoodQuant, bias |-> 1, bias_list |-> 1, weight |-> 1,
             function |-> IF l = 2 THEN "identity" ELSE "leaky_relu_0p1", provenance |-> 1]

Exported == [l \in 1 .. 2 |-> [kind \in {"bias", "weight"} |-> 1]]
Tree(canonical, local) == [canonical |-> canonical, local |-> local, files |-> Exported]

(* A complete root, which an export may turn into one of the canonical       *)
(* layout, and incomplete, disordered or ambiguous ones.                     *)
SmallTrees ==
    { Tree(<<Entry(2), Entry(1)>>, <<>>),
      Tree(<<Entry(1), Entry(2)>>, <<Entry(1)>>),
      Tree(<<>>, <<Entry(2), Entry(1)>>),
      Tree(<<>>, <<Entry(1), Entry(1)>>),
      Tree(<<>>, <<Entry(1)>>) }

(* Geometries around every bound of the small limits, pooled and not. *)
SmallLayers ==
    {[NewLayer("x", 0, "input", "x", h, w, cin, cout, kernel, tile_h, pool, NoDetect) EXCEPT !.stride = stride] :
       h \in 1 .. 6, w \in {1, 2, 4}, cin \in {3, 4}, cout \in {1, 2, 3}, kernel \in {1, 2, 3}, tile_h \in 0 .. 6,
       pool \in {0, 2}, stride \in {1, 2}}

SmallLists == {<<3, 1, 2>>, <<2, 2>>}

Pictures   == [i \in 1 .. 2 |-> [width |-> 2 + i, height |-> 2]]
Categories == [c \in 0 .. 1 |-> c + 5]

Chain == INSTANCE SdPackages
    WITH Images <- Pictures, Models <- 1 .. 2, P4 <- [width |-> 2, height |-> 2], P5 <- [width |-> 2, height |-> 3],
         Anchors <- 2, Classes <- 2, MaxDetections <- 2, Category <- Categories

Uart == INSTANCE BoardLog
    WITH Modes <- {"soak", "benchmark", "functional"}, MinTime <- 4, ProgressTime <- 2, MaxGap <- 3,
         Dispatch <- 1 .. 2, Runs <- 2, P95Limit <- 2, MaxLimit <- 2, Layers <- 2, MaxBoots <- 2, MaxGaps <- 1,
         verdict <- judged

chain_vars  == <<five, verdict>>
uart_vars   == <<mode, board, tx, log, lost, measured, judged>>
all_vars    == <<which, asked, package_vars, shard_vars, chain_vars, uart_vars, vars>>

Chosen ==
    /\ which \in {"plan", "package", "shards", "chain", "log", "mailbox"}
    /\ IF which = "plan" THEN asked \in Geometries ELSE asked = Refused
    /\ IF which = "package" THEN PackageInit
       ELSE model = "none" /\ written = "none" /\ gen = NoGen /\ ver = NoRead /\ trouble = 0
    /\ IF which = "shards" THEN ShardsInit
       ELSE sources = "none" /\ shard_dir = "none" /\ build = NoBuild /\ reader = NoReader /\ mishaps = 0
    /\ IF which = "chain" THEN Chain!PackagesInit ELSE five = "none" /\ verdict = "none"
    /\ IF which = "log" THEN Uart!BoardLogInit
       ELSE /\ mode = "none" /\ board = "none" /\ tx = "none" /\ log = "none" /\ lost = "none"
            /\ measured = "none" /\ judged = "none"
    /\ Init

PackageStep == which = "package" /\ PackageNext /\ UNCHANGED <<which, asked, shard_vars, chain_vars, uart_vars, vars>>
ShardsStep  == which = "shards" /\ ShardsNext /\ UNCHANGED <<which, asked, package_vars, chain_vars, uart_vars, vars>>
ChainStep   == which = "chain" /\ Chain!Validate /\ UNCHANGED <<which, asked, package_vars, shard_vars, uart_vars, vars>>
LogStep     == which = "log" /\ Uart!BoardLogNext /\ UNCHANGED <<which, asked, package_vars, shard_vars, chain_vars, vars>>
MailboxStep == which = "mailbox" /\ Next /\ UNCHANGED <<which, asked, package_vars, shard_vars, chain_vars, uart_vars>>

ArtifactsSpec == Chosen /\ [][PackageStep \/ ShardsStep \/ ChainStep \/ LogStep \/ MailboxStep]_all_vars
-----------------------------------------------------------------------------
(* HardwarePlan.PlanSound, ParameterPackage.AcceptedFeedsArray,               *)
(* InputShards.AcceptedSetWhole, MulticoreMailbox.AnswersSafe and SignalsKept *)
(* are checked as they stand; ParameterPackage.NothingMixed, which the code   *)
(* does not keep, in a run of its own.                                      *)

(* ParameterPackage.GeneratedVerifies and InputShards.BuiltSetValidates: what *)
(* a tool has made to the end, its own reader accepts.                       *)
MadeIsAccepted ==
    /\ GeneratedVerifies
    /\ BuiltSetValidates

(* SdPackages.ChainIsOneInference *)
ChainIsOneInference == which = "chain" => Chain!ChainIsOneInference

(* BoardLog.AcceptedRanWhole and its converse WholeLogAccepted *)
LogsJudgedRight == which = "log" => Uart!AcceptedRanWhole /\ Uart!WholeLogAccepted
=============================================================================
