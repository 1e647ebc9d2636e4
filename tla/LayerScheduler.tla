---------------------------- MODULE LayerScheduler ----------------------------
(***************************************************************************)
(* systolic/layer_scheduler_stream.v: the state machine that walks a layer *)
(* through its output-channel blocks and reduction passes, as it is built  *)
(* in with tagged contexts (conv_layer_top_stream.v).                      *)
(*                                                                         *)
(* One action is one rising clock edge in one scheduler state.  The        *)
(* parties it talks to answer with one-cycle pulses, or with levels, after *)
(* any delay; they are modelled as far as the order of their answers goes. *)
(* A vector is fed, fired and drained atomically; a pass has num_pixels of *)
(* them.  The performance outputs are left out.                            *)
(***************************************************************************)
EXTENDS Naturals, Sequences

CONSTANTS
  K_TILE, COUT_TILE,              \* parameters K_TILE and COUT_TILE
  CoutMod,                        \* cout_base is 11-bit: it wraps at 2^11
  Builds,                         \* values of ENABLE_FAST_CONTEXT_HANDOFF
  MaxPixels,                      \* bound on the vectors of a pass
  Uncollected,                    \* contexts the collector has room for
  Layers                          \* the layers that software starts

ASSUME TileAssumption == K_TILE \in Nat \ {0} /\ COUT_TILE \in Nat \ {0}
ASSUME BuildsAssumption == Builds \subseteq BOOLEAN
ASSUME PixelsAssumption ==
  MaxPixels \in Nat /\ Uncollected \in Nat /\ CoutMod \in Nat

\* layer_config_regs.v refuses a layer of more than 1024 channels, so that the
\* 11-bit sum in last_cout does not wrap.
ASSUME LayersAssumption ==
  \A l \in Layers : /\ l.k_total \in Nat \ {0} /\ l.cout_total \in Nat \ {0}
                    /\ l.cout_total + COUT_TILE <= CoutMod
                    /\ l.num_pixels \in 1 .. MaxPixels
                    /\ l.continuous_psum_enable \in BOOLEAN

VARIABLES
  ENABLE_FAST_CONTEXT_HANDOFF,    \* a parameter of the build, which never changes
  s,              \* the scheduler's registers
  layer,          \* the configuration registers
  bias_loading, weight_loading,
  weights,        \* weight tiles loaded and not yet taken by a context
  feeding,        \* the feeder: "none", "filling", "level" reached
  fed,            \* contexts fed whose last vector was not yet fired
  prepared,       \* u_prepared_context_queue
  request,        \* the front end's held compute request
  left,           \* vectors the running context has yet to fire
  compute_done,   \* the core's registered completion pulse
  uncollected,    \* contexts accepted whose sums are not yet collected
  collecting,     \* is the collector active on the first of them?
  draining,       \* is the legacy drain running?
  given, current, collected       \* history: see LoopNest

partyVars == <<bias_loading, weight_loading, weights, feeding, fed, prepared,
               request, left, compute_done, uncollected, collecting, draining>>
historyVars == <<given, current, collected>>
vars == <<ENABLE_FAST_CONTEXT_HANDOFF, s, layer, partyVars, historyVars>>

-----------------------------------------------------------------------------
(* The combinational signals *)

next_k == s.pass_base_k + K_TILE
last_k == next_k >= layer.k_total
last_cout == (s.cout_base + COUT_TILE) % CoutMod >= layer.cout_total

overlap_mode == layer.feeder_overlap_mode
continuous == layer.continuous_psum_enable

feeder_start_ready == feeding = "none" /\ Len(prepared) < 2
feeder_compute_ready == overlap_mode /\ feeding = "level"

\* The oldest context was collected on this edge: in the drained modes the drain
\* says so, in continuous mode the collector does of a final context.
drain_done(in) == in.collects /\ ~continuous
final_done(in) == in.collects /\ continuous /\ Head(uncollected).final

fed_all(in) == ~overlap_mode \/ s.feeder_done_seen \/ in.feeder_done
computed == s.compute_done_seen \/ compute_done

prefetch_enable_current ==
  layer.pass_prefetch_enable /\ layer.raw_hwc_mode /\ ~last_k
prefetch_ready_now(in) ==
  /\ s.prefetch_started
  /\ s.prefetch_weight_done \/ in.weight_load_done
  /\ s.prefetch_feed_done \/ in.feeder_done

\* The next pass's weights and vectors are requested once the feeder is free of
\* this one: after its compute, or as soon as its compute has begun.
prefetch_start_now(in) ==
  /\ s.busy /\ prefetch_enable_current /\ ~s.prefetch_started
  /\ feeder_start_ready /\ fed_all(in)
  /\ \/ computed
     \/ layer.during_compute_prefetch_enable /\ s.compute_started_seen

fast_handoff_mode_current ==
  ENABLE_FAST_CONTEXT_HANDOFF /\ continuous /\ prefetch_enable_current
fast_handoff_pending_now(in) ==
  \/ s.fast_handoff_armed
  \/ prefetch_start_now(in) /\ fast_handoff_mode_current
\* Mutant: an acceptance that comes before the old context is over is not kept.
fast_handoff_accepted_nowUnkept(in) ==
  in.accepted /\ fast_handoff_pending_now(in)

fast_handoff_accepted_now(in) ==
  s.fast_handoff_accepted \/ (in.accepted /\ fast_handoff_pending_now(in))

active_context_complete_now(in) == computed /\ fed_all(in)

\* Mutant: the running drain of the pass before is not waited for.
pass_over_drainedHasty(in) ==
  ~prefetch_start_now(in) /\ active_context_complete_now(in)

\* In the drained modes: the pass is over, and so is the drain of the last one.
pass_over_drained(in) ==
  /\ ~prefetch_start_now(in) /\ ~s.prev_drain_pending
  /\ active_context_complete_now(in)

final_collected(in) == final_done(in) \/ s.collector_final_done_seen

psum_overlap_ready_now(in) ==
  /\ layer.psum_stream_overlap_enable /\ prefetch_enable_current
  /\ prefetch_ready_now(in) /\ s.drain_started
  /\ ~s.prev_drain_pending /\ s.drain_packet_seen

collector_next_bank_safe ==
  continuous /\ collecting =>
    Head(uncollected).final \/ Head(uncollected).wr_bank # 1 - s.pass_bank

-----------------------------------------------------------------------------
(* The register updates that several states share *)

\* What every edge does first: pulses last one cycle, and answers that arrive
\* while the state is not looking for them are kept.
Noted(in) ==
  [s EXCEPT
     !.pulse = {},
     !.drain_packet_seen = @ \/ (s.drain_started /\ in.packet),
     !.prev_drain_pending = @ /\ ~drain_done(in),
     !.collector_final_done_seen = @ \/ (continuous /\ final_done(in)),
     !.fast_handoff_accepted = fast_handoff_accepted_now(in),
     !.prefetch_weight_done =
        @ \/ (s.prefetch_started /\ in.weight_load_done),
     !.prefetch_feed_done = @ \/ (s.prefetch_started /\ in.feeder_done)]

Prefetched(r, in) ==
  [r EXCEPT !.prefetch_started = TRUE,
            !.prefetch_weight_done = FALSE, !.prefetch_feed_done = FALSE,
            !.prefetch_pass_base_k = next_k,
            !.prefetch_pass_index = s.pass_index + 1,
            !.feeder_pass_base_k = next_k, !.feeder_k_pass = s.pass_index + 1,
            !.pulse = {"weight_load_start", "feeder_start"}]

\* The next reduction pass of this block becomes the current one.
NextPass(r, state) ==
  [r EXCEPT !.pass_base_k = next_k, !.pass_index = s.pass_index + 1,
            !.pass_bank = 1 - s.pass_bank, !.state = state]

\* The next block of output channels, or the end of the layer.
NextBlock(r) ==
  IF last_cout THEN [r EXCEPT !.state = "DONE"]
  ELSE [r EXCEPT !.cout_base = (s.cout_base + COUT_TILE) % CoutMod,
                 !.pass_base_k = 0, !.pass_index = 0, !.pass_bank = 0,
                 !.state = "BIAS_START"]

\* After a drain: on to the prefetched pass, to waiting for it, to loading the
\* next pass from scratch, or to the next block.
AfterDrain(r, in) ==
  IF last_k THEN NextBlock(r)
  ELSE IF prefetch_ready_now(in) THEN NextPass(r, "PREFETCH_COMMIT")
  ELSE IF s.prefetch_started THEN [r EXCEPT !.state = "PREFETCH_WAIT"]
  ELSE NextPass(r, "WGT_START")

\* The next pass starts while this one's drain is still running.
Overlapped(r, in) ==
  [NextPass(r, "PREFETCH_COMMIT") EXCEPT
     !.prev_drain_pending = ~drain_done(in),
     !.drain_started = FALSE, !.drain_done_seen = FALSE]

-----------------------------------------------------------------------------
(* One action per scheduler state; in holds what the parties answer *)

\* A start loads the registers; the prefetched position keeps its old value.
Start(in) ==
  /\ s.state = "IDLE" /\ layer' \in Layers
  /\ s' = [s EXCEPT
       !.state = "BIAS_START", !.busy = TRUE, !.pulse = {},
       !.pass_base_k = 0, !.cout_base = 0, !.pass_index = 0, !.pass_bank = 0,
       !.feeder_pass_base_k = 0, !.feeder_k_pass = 0,
       !.prefetch_pass_index = 0,
       !.compute_done_seen = FALSE, !.compute_started_seen = FALSE,
       !.feeder_done_seen = FALSE,
       !.drain_started = FALSE, !.drain_done_seen = FALSE,
       !.prefetch_started = FALSE, !.prefetch_weight_done = FALSE,
       !.prefetch_feed_done = FALSE,
       !.prev_drain_pending = FALSE, !.drain_packet_seen = FALSE,
       !.collector_final_done_seen = FALSE,
       !.fast_handoff_armed = FALSE, !.fast_handoff_accepted = FALSE]

Idle(in) ==
  /\ s.state = "IDLE" /\ s' = [Noted(in) EXCEPT !.busy = FALSE]

BiasStart(in) ==
  /\ s.state = "BIAS_START"
  /\ s' = [Noted(in) EXCEPT !.pulse = {"bias_load_start"}, !.state = "BIAS_WAIT"]

BiasWait(in) ==
  /\ s.state = "BIAS_WAIT"
  /\ s' = [Noted(in) EXCEPT !.state = IF in.bias_load_done THEN "WGT_START" ELSE @]

WeightStart(in) ==
  /\ s.state = "WGT_START"
  /\ s' = [Noted(in) EXCEPT !.pulse = {"weight_load_start"}, !.state = "WGT_WAIT"]

WeightWait(in) ==
  /\ s.state = "WGT_WAIT"
  /\ s' = [Noted(in) EXCEPT !.state = IF in.weight_load_done THEN "FEED_START" ELSE @]

FeedStart(in) ==
  /\ s.state = "FEED_START"
  /\ s' = IF feeder_start_ready
          THEN [Noted(in) EXCEPT !.pulse = {"feeder_start"},
                  !.feeder_pass_base_k = s.pass_base_k,
                  !.feeder_k_pass = s.pass_index,
                  !.feeder_done_seen = FALSE, !.state = "FEED_WAIT"]
          ELSE Noted(in)

FeedWait(in) ==
  /\ s.state = "FEED_WAIT"
  /\ s' = [Noted(in) EXCEPT
             !.feeder_done_seen = @ \/ in.feeder_done,
             !.state = IF in.feeder_done \/ feeder_compute_ready
                       THEN "COMP_START" ELSE @]

\* Another context may be started: its descriptor is there and the collector
\* has room for it.
context_start_ready == prepared # <<>> /\ Len(uncollected) < Uncollected

feed_kept(in) == s.feeder_done_seen \/ in.feeder_done

\* Starting a pass forgets what was noted of the pass before it, except that
\* its feed may have ended on this very edge.
ComputeStart(in) ==
  /\ s.state = "COMP_START"
  /\ s' = LET r == [Noted(in) EXCEPT !.feeder_done_seen = feed_kept(in)]
          IN IF continuous /\ ~context_start_ready THEN r
             ELSE [r EXCEPT !.pulse = {"compute_start"},
                     !.compute_done_seen = FALSE,
                     !.compute_started_seen = FALSE,
                     !.drain_started = FALSE, !.drain_done_seen = FALSE,
                     !.drain_packet_seen = FALSE,
                     !.collector_final_done_seen = FALSE,
                     !.prefetch_started = FALSE,
                     !.prefetch_weight_done = FALSE,
                     !.prefetch_feed_done = FALSE, !.state = "COMP_WAIT"]

\* What every edge in COMP_WAIT notes and requests, before it moves on.
Watched(in) ==
  LET noted == [Noted(in) EXCEPT
                  !.compute_done_seen = @ \/ compute_done,
                  !.compute_started_seen = @ \/ in.fire,
                  !.feeder_done_seen = @ \/ in.feeder_done,
                  !.drain_done_seen = @ \/ (drain_done(in) /\ ~s.prev_drain_pending)]
      requested == IF ~prefetch_start_now(in) THEN noted
                   ELSE IF ~fast_handoff_mode_current THEN Prefetched(noted, in)
                   ELSE [Prefetched(noted, in) EXCEPT
                           !.pulse = @ \cup {"compute_start"},
                           !.fast_handoff_armed = TRUE,
                           !.fast_handoff_accepted = in.accepted]
      drains == /\ layer.early_drain_enable /\ ~continuous
                /\ ~s.drain_started /\ ~s.prev_drain_pending
                /\ in.fire /\ in.drain_data
  IN IF ~drains THEN requested
     ELSE [requested EXCEPT !.pulse = @ \cup {"psum_drain_start"},
             !.drain_started = TRUE, !.drain_packet_seen = FALSE]

\* The running pass is over and the core has already accepted the next one: it
\* becomes the current pass without another start.  Its first vector may be
\* fired on this very edge.
FastHandoff(in) ==
  /\ s.state = "COMP_WAIT" /\ continuous
  /\ fast_handoff_pending_now(in) /\ fast_handoff_accepted_now(in)
  /\ active_context_complete_now(in)
  /\ s' = [Watched(in) EXCEPT
       !.pass_base_k = s.prefetch_pass_base_k,
       !.pass_index = s.prefetch_pass_index, !.pass_bank = 1 - s.pass_bank,
       !.compute_done_seen = FALSE, !.compute_started_seen = in.fire,
       !.feeder_done_seen = s.prefetch_feed_done \/
                              (s.prefetch_started /\ in.feeder_done),
       !.drain_started = FALSE, !.drain_done_seen = FALSE,
       !.drain_packet_seen = FALSE, !.collector_final_done_seen = FALSE,
       !.prefetch_started = FALSE, !.prefetch_weight_done = FALSE,
       !.prefetch_feed_done = FALSE,
       !.fast_handoff_armed = FALSE, !.fast_handoff_accepted = FALSE]

\* Continuous mode without a handoff on the way: the next pass follows once it
\* is prefetched and its bank is not being collected into, the next block once
\* the final sums are collected.
ContinuousWait(in) ==
  /\ s.state = "COMP_WAIT" /\ continuous
  /\ LET r == Watched(in)
         over == /\ ~fast_handoff_pending_now(in) /\ ~prefetch_start_now(in)
                 /\ active_context_complete_now(in)
     IN \/ /\ over /\ ~last_k /\ collector_next_bank_safe
           /\ prefetch_ready_now(in)
           /\ s' = NextPass(r, "PREFETCH_COMMIT")
        \/ /\ over /\ ~last_k /\ collector_next_bank_safe
           /\ ~s.prefetch_started
           /\ s' = NextPass(r, "WGT_START")
        \/ /\ over /\ last_k
           /\ final_collected(in)
           /\ s' = NextBlock(r)
        \/ /\ ~(/\ fast_handoff_pending_now(in) /\ fast_handoff_accepted_now(in)
                /\ active_context_complete_now(in))
           /\ over => IF last_k
                      THEN ~final_collected(in)
                      ELSE \/ ~collector_next_bank_safe
                           \/ s.prefetch_started /\ ~prefetch_ready_now(in)
           /\ s' = r

\* Drained modes: the drain starts after the pass unless it was started early,
\* and must be over before the next pass is begun.  (The overlapped start of
\* this state is shadowed by the branch before it and cannot be taken.)
DrainedWait(in) ==
  /\ s.state = "COMP_WAIT" /\ ~continuous
  /\ LET r == Watched(in)
         over == pass_over_drained(in)
     IN \/ ~over /\ s' = r
        \/ over /\ ~s.drain_started /\ s' = [r EXCEPT !.state = "DRAIN_START"]
        \/ /\ over /\ s.drain_started /\ ~drain_done(in) /\ ~s.drain_done_seen
           /\ s' = [r EXCEPT !.state = "DRAIN_WAIT"]
        \/ /\ over /\ s.drain_started /\ (drain_done(in) \/ s.drain_done_seen)
           /\ s' = AfterDrain(r, in)

DrainStart(in) ==
  /\ s.state = "DRAIN_START"
  /\ s' = [Noted(in) EXCEPT !.pulse = {"psum_drain_start"},
             !.drain_started = TRUE, !.drain_packet_seen = FALSE,
             !.state = "DRAIN_WAIT"]

DrainWait(in) ==
  /\ s.state = "DRAIN_WAIT"
  /\ LET noted == [Noted(in) EXCEPT !.compute_started_seen = @ \/ in.fire]
         begins == prefetch_start_now(in)
         r == IF begins THEN Prefetched(noted, in) ELSE noted
     IN \/ ~begins /\ psum_overlap_ready_now(in) /\ s' = Overlapped(r, in)
        \/ /\ ~begins /\ ~psum_overlap_ready_now(in) /\ drain_done(in)
           /\ s' = [AfterDrain(r, in) EXCEPT !.drain_done_seen = TRUE]
        \/ /\ begins \/ (~psum_overlap_ready_now(in) /\ ~drain_done(in))
           /\ s' = r

PrefetchWait(in) ==
  /\ s.state = "PREFETCH_WAIT"
  /\ s' = IF prefetch_ready_now(in)
          THEN [Noted(in) EXCEPT
                  !.pass_base_k = s.prefetch_pass_base_k,
                  !.pass_index = s.prefetch_pass_index,
                  !.pass_bank = 1 - s.pass_bank, !.state = "PREFETCH_COMMIT"]
          ELSE Noted(in)

PrefetchCommit(in) ==
  /\ s.state = "PREFETCH_COMMIT"
  /\ s' = [Noted(in) EXCEPT !.state = "COMP_START"]

Done(in) ==
  /\ s.state = "DONE"
  /\ s' = [Noted(in) EXCEPT !.busy = FALSE, !.pulse = {"done"}, !.state = "IDLE"]

SchedulerEdge(in) ==
  \/ Start(in)
  \/ /\ UNCHANGED layer
     /\ \/ Idle(in) \/ BiasStart(in) \/ BiasWait(in)
        \/ WeightStart(in) \/ WeightWait(in) \/ FeedStart(in) \/ FeedWait(in)
        \/ ComputeStart(in)
        \/ FastHandoff(in) \/ ContinuousWait(in) \/ DrainedWait(in)
        \/ DrainStart(in) \/ DrainWait(in)
        \/ PrefetchWait(in) \/ PrefetchCommit(in) \/ Done(in)

-----------------------------------------------------------------------------
(* The parties *)

raises(pulse) == pulse \in s.pulse

\* Mutant: the bank is sampled from the pass that is still running.
FedPassLive ==
  [cout |-> s.cout_base, k |-> s.feeder_pass_base_k,
   wr_bank |-> s.pass_bank, first |-> s.feeder_pass_base_k = 0,
   final |-> s.feeder_pass_base_k + K_TILE >= layer.k_total]

\* The context whose feed the pulse starts, as the prepared queue captures it.
FedPass ==
  [cout |-> s.cout_base, k |-> s.feeder_pass_base_k,
   wr_bank |-> s.feeder_k_pass % 2, first |-> s.feeder_pass_base_k = 0,
   final |-> s.feeder_pass_base_k + K_TILE >= layer.k_total]

fires_last(in) == in.fire /\ left = 1

LoadersEdge(in) ==
  /\ bias_loading' =
       (raises("bias_load_start") \/ (bias_loading /\ ~in.bias_load_done))
  /\ weight_loading' =
       (raises("weight_load_start") \/ (weight_loading /\ ~in.weight_load_done))
  /\ weights' = weights + (IF in.weight_load_done THEN 1 ELSE 0)
                        - (IF in.accepted THEN 1 ELSE 0)

FeederEdge(in) ==
  /\ feeding' = IF raises("feeder_start") /\ feeder_start_ready THEN "filling"
                ELSE IF in.feeder_done THEN "none"
                ELSE IF in.level THEN "level" ELSE feeding
  /\ fed' = fed + (IF in.feeder_done THEN 1 ELSE 0)
                - (IF fires_last(in) THEN 1 ELSE 0)
  /\ prepared' = (IF in.accepted THEN Tail(prepared) ELSE prepared)
                   \o (IF raises("feeder_start") THEN <<FedPass>> ELSE <<>>)

CoreEdge(in) ==
  /\ request' = ((request \/ raises("compute_start")) /\ ~in.accepted)
  /\ left' = IF in.accepted THEN layer.num_pixels ELSE IF in.fire THEN left - 1 ELSE left
  /\ compute_done' = fires_last(in)

\* in.collects: the collector, or the drain, is done with the oldest context.
CollectorEdge(in) ==
  /\ uncollected' = (IF in.collects THEN Tail(uncollected) ELSE uncollected)
                      \o (IF in.accepted THEN <<Head(prepared)>> ELSE <<>>)
  /\ collecting' = ((collecting /\ ~in.collects) \/ in.activates)
  /\ draining' = (raises("psum_drain_start") \/ (draining /\ ~drain_done(in)))

HistoryEdge(in) ==
  IF s.state = "IDLE" /\ s'.state # "IDLE"
  THEN given' = 0 /\ collected' = 0 /\ UNCHANGED current
  ELSE /\ given' = given + (IF in.accepted THEN 1 ELSE 0)
       /\ collected' = collected + (IF in.collects THEN 1 ELSE 0)
       /\ current' = IF in.accepted THEN Head(prepared) ELSE current

\* The contexts whose last vector was fired.
Retired == Len(uncollected) - (IF left = 0 THEN 0 ELSE 1)

\* The last vector cannot be fired before it was fed, and a partial context
\* finds its bank still owned by the one two before it.
CanFire(in) ==
  /\ left # 0 /\ Len(uncollected) <= 2
  /\ left = 1 => fed # 0 \/ in.feeder_done

\* A fast core accepts a context on the edge of the last one's final vector.
CanAccept(in) ==
  /\ request /\ context_start_ready
  /\ weights # 0 \/ in.weight_load_done
  /\ left = 0 \/ (ENABLE_FAST_CONTEXT_HANDOFF /\ fires_last(in))

CanCollect == Retired # 0 /\ IF continuous THEN collecting ELSE draining

\* The feeder fills a bank when at most one other context holds one.
CanFill == feeding # "none" /\ fed < 2

\* What may be answered on this edge; what no one looks at is left FALSE.
Optional(relevant) == IF relevant THEN BOOLEAN ELSE {FALSE}
Answers ==
  [bias_load_done : Optional(bias_loading),
   weight_load_done : Optional(weight_loading),
   level : Optional(overlap_mode /\ CanFill /\ feeding = "filling"),
   feeder_done : Optional(CanFill /\ (overlap_mode => feeding = "level")),
   fire : Optional(left # 0), accepted : Optional(request),
   collects : Optional(CanCollect),
   activates : Optional(continuous /\ ~collecting /\ uncollected # <<>>),
   packet : Optional(draining /\ layer.psum_stream_overlap_enable),
   drain_data : Optional(layer.early_drain_enable /\ left # 0)]

Edge(in) ==
  /\ UNCHANGED ENABLE_FAST_CONTEXT_HANDOFF
  /\ in.fire => CanFire(in)
  /\ in.accepted => CanAccept(in)
  /\ SchedulerEdge(in)
  /\ LoadersEdge(in) /\ FeederEdge(in) /\ CoreEdge(in)
  /\ CollectorEdge(in) /\ HistoryEdge(in)

NoPass == [cout |-> 0, k |-> 0, wr_bank |-> 0, first |-> FALSE, final |-> FALSE]

Init ==
  /\ ENABLE_FAST_CONTEXT_HANDOFF \in Builds
  /\ s = [state |-> "IDLE", busy |-> FALSE, pulse |-> {},
          pass_base_k |-> 0, cout_base |-> 0, pass_index |-> 0, pass_bank |-> 0,
          feeder_pass_base_k |-> 0, feeder_k_pass |-> 0,
          prefetch_pass_base_k |-> 0, prefetch_pass_index |-> 0,
          compute_done_seen |-> FALSE, compute_started_seen |-> FALSE,
          feeder_done_seen |-> FALSE,
          drain_started |-> FALSE, drain_done_seen |-> FALSE,
          drain_packet_seen |-> FALSE, prev_drain_pending |-> FALSE,
          prefetch_started |-> FALSE, prefetch_weight_done |-> FALSE,
          prefetch_feed_done |-> FALSE, collector_final_done_seen |-> FALSE,
          fast_handoff_armed |-> FALSE, fast_handoff_accepted |-> FALSE]
  /\ layer \in Layers
  /\ bias_loading = FALSE /\ weight_loading = FALSE /\ weights = 0
  /\ feeding = "none" /\ fed = 0 /\ prepared = <<>>
  /\ request = FALSE /\ left = 0 /\ compute_done = FALSE
  /\ uncollected = <<>> /\ collecting = FALSE /\ draining = FALSE
  /\ given = 0 /\ collected = 0 /\ current = NoPass

Next == \E in \in Answers : Edge(in)

Spec == Init /\ [][Next]_vars

\* The clock runs and every party answers, whatever it was asked first.
Fairness ==
  /\ WF_vars(Next)
  /\ []<>~bias_loading /\ []<>~weight_loading
  /\ []<>(feeding = "none" \/ ~CanFill)
  /\ []<>~(request /\ context_start_ready /\ weights # 0 /\ left = 0)
  /\ \A n \in 1 .. MaxPixels :
       []<>~(left = n /\ Len(uncollected) <= 2 /\ (n = 1 => fed # 0))
  /\ []<>(continuous => collecting \/ uncollected = <<>>)
  /\ \A n \in {0, 1} : []<>~(CanCollect /\ collected % 2 = n)

FairSpec == Spec /\ Fairness

-----------------------------------------------------------------------------
State == {"IDLE", "BIAS_START", "BIAS_WAIT", "WGT_START", "WGT_WAIT",
          "FEED_START", "FEED_WAIT", "COMP_START", "COMP_WAIT", "DRAIN_START",
          "DRAIN_WAIT", "PREFETCH_WAIT", "PREFETCH_COMMIT", "DONE"}

TypeOK ==
  /\ s.state \in State /\ s.busy = (s.state # "IDLE")
  /\ s.pass_base_k < layer.k_total /\ s.cout_base < layer.cout_total
  /\ s.pass_bank = s.pass_index % 2
  /\ weights \in 0 .. 2 /\ fed \in 0 .. 2 /\ left \in 0 .. layer.num_pixels
  /\ Len(prepared) <= 2 /\ Len(uncollected) <= Uncollected

\* Every party answers to one-cycle pulses and keeps one request: no pulse
\* arrives while the party is busy with, or still holds, the one before.
NoPulseLost ==
  /\ raises("bias_load_start") => ~bias_loading
  /\ raises("weight_load_start") => ~weight_loading
  /\ raises("feeder_start") => feeder_start_ready
  /\ raises("compute_start") => ~request
  /\ raises("psum_drain_start") => ~draining

\* The safety of the scheduler, as one invariant.
SchedulerSafe == TypeOK /\ NoPulseLost

Loop == INSTANCE LoopNest WITH running <- s.busy

\* In every mode, however the parties' answers interleave, the scheduler runs
\* the loop nest: no pass is skipped, repeated or given the wrong bank, and the
\* layer is not reported done before the last sums are collected.
LoopSpec == Loop!LoopSpec

\* Every layer ends: no pulse that the scheduler waits for was missed in a
\* state that does not look for it.
LayersEnd == s.busy ~> ~s.busy
-----------------------------------------------------------------------------
(* The layers TLC runs: one pass and several, one block and several, and     *)
(* every combination of the mode bits of the stream configuration register   *)
(* that the scheduler tells apart.  A prefetch needs raw mode; the two bits  *)
(* below it need the prefetch, the drain bits a mode with drains.            *)
MCLayers ==
  {l \in [k_total : {2, 7}, cout_total : {1, 6},
          num_pixels : {1, 2},
          feeder_overlap_mode : BOOLEAN, raw_hwc_mode : BOOLEAN,
          early_drain_enable : BOOLEAN, pass_prefetch_enable : BOOLEAN,
          during_compute_prefetch_enable : BOOLEAN,
          psum_stream_overlap_enable : BOOLEAN,
          continuous_psum_enable : BOOLEAN] :
     /\ l.raw_hwc_mode = (l.feeder_overlap_mode \/ l.pass_prefetch_enable)
     /\ l.during_compute_prefetch_enable \/ l.psum_stream_overlap_enable =>
          l.pass_prefetch_enable
     /\ l.continuous_psum_enable =>
          ~l.early_drain_enable /\ ~l.psum_stream_overlap_enable}
=============================================================================
