# ContextFlow CNN accelerator: TLA+ models and proofs

ContextFlow runs a quantised convolution layer on a systolic array. A layer is
cut into *contexts*: one pass of the array over K_TILE reduction rows for
COUT_TILE output channels. The released build hands the array from one context
to the next without an idle cycle, so that several contexts are in flight at
once: one whose vectors are being loaded, one that computes, and one or more
whose sums are still being collected. Everything that keeps them apart (bank
ownership, epochs, credits, ordered queues, one-cycle pulses) is control logic
of the kind that test benches reach badly.

Around the accelerator stands software with hazards of another kind: a
bare-metal server that runs lwIP callbacks inside its own commands, a host that
resumes an inference run over whatever a killed one left, tools that publish
parameter packages, SD cards, result archives and release candidates file by
file, and evaluators that decide which of those files count as evidence. This
directory models both in TLA+, checks them with TLC, and proves parts with TLAPS.

All paths below are relative to `src/`.

## 1. Inventory

| part | source | state it keeps | operations and partners |
|---|---|---|---|
| lifecycle queue | `systolic/context_lifecycle_queue.v` | ring, pointers, count, registered head, error episodes | push/pop on one edge; holds prepared and executing descriptors in the stream top |
| event FIFO | `systolic/context_event_fifo.v` | ring, registered head | carries PSUM allocate/commit/release events to the scoreboard |
| PSUM scoreboard and banks | `systolic/psum_bank_owner_scoreboard.v`, `psum_pingpong_buffer.v` | per bank: owner, expected, written/read/returned counts, done flags; sticky errors | six ready/valid channels; a context's partial sums are written by the collector and read by its successor |
| epoch buffer | `systolic/ifm_vector_epoch_buffer.v` | two banks of vectors with owner, credits, lookahead word; reader; output slot | allocate, write, commit, select, read, release |
| context front end | `systolic/ifm_context_epoch_frontend.v` | held allocation, fill, commit, compute and release requests; context ring; live collector epochs | turns pulses of scheduler, core and collector into requests to the buffer |
| vector loader, request slot | `systolic/axis_ifm_vector_loader.v`, `systolic_top_feeder.v` | packet progress, pending vector, request | fills one bank per request |
| layer scheduler | `systolic/layer_scheduler_stream.v` | 14-state machine, current and prefetched pass, remembered pulses | asks for biases, weights, vectors, compute and drain; waits for their completions |
| stream top | `systolic/conv_layer_top_stream.v` | prepared-context queue, weight and bias requests, lineage, owner permit, event builders | wires all parts; admits contexts |
| tagged core | `systolic/systolic_ctrl_tagged.v`, `systolic_top_tagged.v`, arrays | compute control, output credits, retirement queue | fires vectors, loads shadow weights, retires contexts |
| PSUM collector | `systolic/psum_output_collector.v`, `psum_column_output_collector.v`, `psum_drain_writer.v` | descriptor ring, active context, packet slots, tag fault | pairs words that leave the array with their context |
| weight path | `systolic/weight_context_preloader.v`, tile loaders | two weight banks through EMPTY..RETIRING, descriptor and credit counts | allocate, load, start, retire |
| HWC caches | `systolic/hwc_materialized_*`, `axis_hwc_*` | tiles, window position | produce the input vectors from a feature map |
| output path | `systolic/ofm_*`, `requant.v`, `leaky_lut.v` | packets, ping-pong banks | requantise, pool, pack and stream results |
| registers | `systolic/layer_config_regs.v`, AXI bridges, `layer_tile_sequencer.v` | configuration, tile position | start layers, report status |
| multicore runtime | `sw/vitis_2022_2/src/coco80_multicore.c`, `main_coco80_worker.c` | mailbox: magic, ready words, per-worker task with generation and state | controller publishes tasks, polls with a time-out; workers sleep on events |
| network server | `main_coco80_net.c` | session phase, sequence number, record counts, running CRCs, buffers | commands, with lwIP callbacks between any two polls |
| network client, run controller | `tools/coco80/net_protocol.py`, `net_runner.py` | run directory: data, timing, checkpoint, index, summary | one call takes records to the board chunk by chunk, checkpoints, resumes |
| SD server and card | `main_coco80_sd.c`, `tools/coco80/sd_deploy.py` | card files and their manifest; outputs under temporary names | prepare-card, register-inputs, install, register-conformance, verify; a run of the board |
| SD packages, input shards | `tools/coco80/sd_pack.py` | binary packages, shard files, index and manifest | pack, seal, validate the chain |
| hardware plan, parameter package | `tools/coco80/hardware_plan.py`, `parameter_package.py` | schedule of each layer; two images and a manifest | plan, pack, verify |
| inference application | `tools/coco80/inference_app.py` | one board lock, a directory per request | HTTP threads that package, run and publish |
| run archives | `tools/coco80/results.py` | run directory, manifest, seal | gates, seal, verify |
| host pipeline | `tools/coco80/pipeline.py` | outputs and stage markers of a run directory | stages, host-all with its gate |
| evaluators | `tools/coco80/board_evaluate.py`, `board_conformance.py`, `network_evaluate.py`, `network_soak.py`, `network_performance.py` | none; they read files of board runs | accept or refuse |
| board log tools | `tools/demo/abi_v2_board_*.py`, `main_conv3_conv4_chain.c` | captured UART log | accept or refuse |
| release candidate | `sw/vitis_2022_2/scripts`, `tcl/build_*.tcl` | hardware digests, parameter set, candidate manifest, ELF | publish, generate, bind, link, finalize, verify |
| accelerator runtime | `accel_runtime_v2.h`, `coco80_accel.c`, chain mains | registers, DMA descriptors | run layers in order |
| training, numerics, other tools | `tools/`, `sw/` | files | functions of their inputs |

PROJECT.json lists every component with its status, and under `hazards` what
can go wrong in each at the line where it bites.

**What makes them correct.** Queues: nothing lost, repeated or reordered, in
particular through registered heads. Scoreboard: credits conserved, no stale
word read, no release before the last word is back, nothing moves after a
fault. Input path: no pulse lost, one ordered stream to the core, epochs of live
contexts differ, every bank comes back. Scheduler: the loop nest in every
overlap mode, no pulse into a busy party, every layer ends. Collector: every
packet under its own context's identity. Weight path: a bank holds the tile of
the context that starts on it. Mailbox: an answer belongs to the command that is
waiting for it. Network run: a published summary is what the board computed for
exactly the records asked for, whatever happened on the way. Packages, cards,
archives, candidates: what a reader accepts is one consistent set, and what a
tool has made to the end its reader accepts. Evaluators: what they accept was
done whole by one run, and one whole run is accepted. Where the code keeps less
than that, section 6 says so.

**What is hard.** All hardware parts move on one clock, and many handshakes may
fall on the same edge; many messages are pulses that exist for one cycle, and
completions may precede, meet or follow the event they are paired with; eight-bit
epochs come round again; the software parts share memory without locks and
re-enter through callbacks; a host tool can be killed between any two writes,
run twice at once, or find files that are older or newer than their manifest.

## 2. Modules

A clock edge is one action. Inputs of the edge are existentially quantified;
every wire is an operator over the unprimed variables; every register has one
primed assignment, so that the priority of assignments in an `always` block is
visible in one place. A software step is what the program does between two
points at which somebody else can run, see its files or kill it. A digest or
CRC is the thing it is taken of: two of them agree exactly if the things do.

### Hardware

* `BoundedFifo`: abstract FIFO with put, take and both on one edge.
* `LifecycleQueue`: `context_lifecycle_queue.v` with both settings of
  REGISTERED_HEAD. `held` maps ring and pointers to the abstract sequence;
  `handed` is a history variable, the descriptor the consumer latched.
  `TaggedQueues` sets the two queues of the tagged stream top beside each other
  and holds the proofs about them.
* `ContextEventFifo`: `context_event_fifo.v`, the same abstraction with
  ReplaceWhenFull = FALSE; its proofs are in `TaggedQueues`.
* `PsumOwnership`: abstract protocol of a bank's owner: store each word once,
  take only stored words, hand back each response, free only when all is done.
* `PsumScoreboard`: `psum_bank_owner_scoreboard.v` over the addresses of
  `psum_pingpong_buffer.v`. All six ports may be driven with anything.
  `MCPsumScoreboard` chooses the traffic for TLC; `PsumProofs` proves it for any
  traffic, and then for the traffic of the loop.
* `PsumFeedback`: the loop around that scoreboard, all on one clock edge: the
  admission of contexts with lineage and owner permit, the tagged controller's
  issue and `psum_stream_feeder.v`, read tokens and return registers, the three
  event queues with their builders, and the packets that come back. Here the
  scoreboard gets exactly the traffic that `conv_layer_top_stream.v` gives it.
  The queues are the bounded FIFOs they are proved to be, the collector is
  `CollectOrder` with no packet on the edge of a done pulse, and scheduler, input
  path, array and output path are choices of the edge: a prepared context is
  started, a vector is there, a packet has come and is taken. A context's epoch is
  the parity of its id.
* `EpochBuffer`, `ContextFrontend`, `VectorInput`: the input path. The first two
  are the two hardware modules, written as operators of the input ports (the
  ring of contexts is a sequence); `VectorInput` composes them with the request
  slot, the loader and the parties outside. `Stream` maps the unread vectors of
  the two banks, in the order the contexts are read, to one `BoundedFifo`.
  `VectorProofs` proves both.
* `LoopNest`: abstract layer run: which pass is given to the core next, with
  which PSUM bank, and that a layer ends after all sums were collected.
* `LayerScheduler`: `layer_scheduler_stream.v`, one action per state, with the
  parties of `conv_layer_top_stream.v` that answer it. `SchedulerProofs` proves
  both properties of its run.
* `CollectOrder`: abstract collection: contexts in the order of acceptance,
  packets in the order of their addresses, nothing after a word of uncertain
  identity.
* `PsumCollector`: `psum_output_collector.v` with its return slot, two packet
  slots and the separate registers for the packet's metadata and head address,
  behind column FIFOs of one-cycle latency. Its history variables `coming`,
  `arrived` and `handed` say what was admitted and what was taken.
  `PsumCollectorProofs` proves both properties of its run and holds its contexts.
* `WeightPreloader`: `weight_context_preloader.v` as operators of the input
  ports: two banks that go from EMPTY over ALLOCATED, LOADING, READY, ACTIVE to
  RETIRING, counted tile credits, and the load of the array column by column.
  Two modules drive it:
  * `WeightRequests`: any allocation, start and retirement on any edge, the
    wrong bank or epoch included. A refused request has no effect in the code
    (the ready is an output), so that only those that can be taken are drawn;
    of the wrong starts and retirements one each is drawn, because all of them
    raise the same error. `WeightProofs` proves it.
  * `WeightPath`: with `WeightStaging`, which is the weight half of
    `axis_bias_weight_loader.v`, the two-bank `weight_tile_pingpong_loader.v`
    and the request logic of `conv_layer_top_stream.v`, in one clock edge.
    `WeightPathProofs` proves the property of its run.

### Software

* `MulticoreMailbox`: `coco80_multicore.c`, controller and workers as processes
  with a program counter each. A step reads or writes one word of the mailbox,
  or words that no other core writes and that are read together; a task is
  filled in one step, because its reader waits for the state word that is
  written last. A worker's event register, set by SEV, is cleared when it goes
  on from WFE; a core may also wake up for no reason. The script
  `download_run_coco80_net.tcl` stops the cores anywhere and starts them again
  over the memory they left. The word `version` is checked with `magic` and
  stands with it. The division of an operation among the cores is a group of pure
  operators in the module. `SoftwareProofs` proves both properties of its run, and
  what is proved of `HardwarePlan`, `InferenceApp` and `NetworkRun` below.
* `NetLink`, `NetServer`, `NetRunner`, `NetworkRun`: the inference run over
  Ethernet. `NetLink` has the messages and the TCP connections: what is sent
  arrives in order until an end drops the connection. `NetServer` is
  `main_coco80_net.c`: `srv.pc` names the `xemacif_input` poll at which the
  program stands (`Polls`), `Board` is what it does from there to the next poll,
  and `Callback` is what lwIP may do at any of them: accept, receive, report
  sent bytes, report an error. `NetRunner` is `run_network`, one action for each
  message and for each file it writes; `disk` keeps apart what was written and
  what was flushed (`data_safe`, `timing_safe`), so that a crash loses the rest.
  `NetworkRun` composes them and adds the faults: a connection breaks, a frame is
  damaged, a field of an answer is wrong, the host times out or is killed.
* `HardwarePlan`: `schedule_layer` and `build_hardware_plan` as pure operators.
  `ParameterPackage` extends it: `generate_package` layer by layer and write by
  write, `verify_package`, an exporter that replaces files beside it, damage.
* `InputShards`: `build_input_shards` image by image with its atomic renames, and
  `validate_input_shard_set` as the reader.
* `SdPackages`: the five package kinds and `validate_package_chain`, over the
  packages of one inference and over sets in which one field is wrong.
* `SdCard`: the commands of `sd_deploy.py` one file at a time, `verify_card`, and
  the board's run from the card, with kills, power failures and an operator who
  rebuilds, deletes or damages files. Its invariant is proved.
* `BoardResults`: the files of one campaign, an SD run and a network run of the
  same inputs and parameters, mixed up with those of others, damaged or cut, and
  `board_evaluate.py`, `board_conformance.py` and `network_evaluate.py` check by
  check over them. `NetworkTiming`: the soak from what it was given through each
  message of its session to the summary, and the joining of performance runs.
  `BoardLog`: the lines the board program prints in each mode, captured with
  gaps and reboots, and the four parsers; the ELF's mode decides which tools may
  judge its log, two of them that of a benchmark.
* `InferenceApp`: `infer` step by step in any number of HTTP threads, with
  `BoardInferenceService`'s lock, the request's directory, every failure and the
  writing of error.json, beside deployments of other models and restarts of the
  server. Its invariants are proved.
* `RunArchive`: `seal_run` copy by copy and `verify_run_archive`.
  `HostPipeline`: the stages with their markers, by themselves and under
  host-all; what it says of a release is proved. `CandidateManifest`: hardware publication, generator and build
  script as three processes over common files, the script from its command line
  over the bound manifest, the Vitis project and the ELF to the verification for
  the board.

`TaggedQueues`, `MCArtifacts` and `MCEvidence` each put several components beside
each other in one run: the variable `which` chooses a component in the initial
state, and only that one takes steps. The components do not share state in these
runs; each of their properties is about one of them. A conjunction such as
`AppTrue` names the properties of the component module it stands for.

### What the parties are allowed to do

In `VectorInput` the scheduler starts a context only while it samples
feeder_start_ready and after the previous context was accepted, as
`layer_scheduler_stream.v` does; contexts retire in order and are collected
after they retire. Everything else (when an AXI beat comes, when the side band
is ready, when the core takes a vector, when it retires) is free. The pixel
count changes only between layers.

In `LayerScheduler` the loaders, the feeder, the core, the collector and the
drain answer after any delay and in any order their hardware allows: a feed
needs a free input bank, an acceptance a prepared descriptor, weights and an
empty collector slot, a last vector a finished feed, a firing context no more
than one uncollected context before it (its PSUM bank must be its own), and the
collector works on one context at a time. A context's completion pulse is
registered, so it comes one edge after its last fire, and with fast handoff the
next context may be accepted on the edge of that fire.

In `PsumCollector` contexts are admitted at any time, the words of an admitted
context come in order at any pace, and each packet is taken or not on every
edge. A word may come with the tag of another context, without or with a
misplaced last marker, or with a tag that the columns disagree on.

In `WeightPath` the stream brings the tiles of a layer in order and the
scheduler demands them one at a time, as `layer_scheduler_stream.v` does; the
front end admits a context when a bank is free, contexts start and retire in
order. The next layer begins when all contexts of the one before are over.

In `MulticoreMailbox` the caller asks for one operation after the other,
whatever the answers were. Every check and kernel may refuse a part; a deadline
may pass at the end of any scan.

In `NetworkRun` the caller may start, resume or repeat a run with any of five
argument lists at any time the host is idle; the board serves whoever connects.
Two connections may exist at once, so that callbacks of a newer one fall into a
command of an older one.

In the host tools everything that is not the tool itself is free: files are
exported, replaced, deleted or damaged by anyone between two steps, a process is
killed at any step, a second one runs beside it where nothing in the code
forbids it. These environment steps are bounded in number.

## 3. Runs

| run | bound | what it shows |
|---|---|---|
| `queues` | lifecycle queue: depth 3, two descriptors, counters modulo 5; event FIFO: depth 4, two events | rings and head registers consistent, counters differ by the occupancy, both implement a bounded FIFO |
| `psum_scoreboard` | two words per bank, addresses and counts beyond it, two epochs, two contexts; any single request and any two at once | credits, collision freedom, fail-stop, ownership refinement |
| `vector_input` | two vectors per bank, two epochs, three collector slots: every allocation meets a conflict | no error flag, epochs apart, banks alternate, one FIFO stream, starts are filled, banks come back |
| `layer_scheduler` | 1 or 4 passes, 1 or 3 channel blocks, 1 or 2 vectors, 26 mode combinations, builds with and without fast handoff | type, no pulse lost, loop nest, every layer ends |
| `psum_collector` | queue of 1, columns of 2 words, contexts of 1 and 3 packets, two epochs, corrupt tags, disable and reset | slots and counts account for every word; packets in order |
| `psum_live` | collector: queue of 2, three epochs, right tags; loop: banks of 2 words, event queues of 2, 2 pixels in flight, tiles of 1x1, 3x1 and 2x2 passes by pixels in any order, six context ids | permit and read tokens are exact, no request of a legal chain is refused, no event lost; collector and loop never stop |
| `weight_requests` | 2 columns, FIFOs of 4 words, two epochs, tiles modulo 4; any requests | inductive invariant, own tile for every context, fail closed |
| `weight_path` | layers of 4 tiles, 2 beats, 2 columns, FIFOs of 8, three epochs | every bank holds its context's tile, no error, no completion lost, layers end |
| `network_run` | three images, chunks of one and two, five argument lists, two bindings, two connections, one fault | a summary is true, a checkpoint is covered by the disk, calls without faults succeed, every run settles |
| `artifacts` | mailbox: two workers, generations 1 and 2, one tensor operation and one convolution whose last part is empty; plan: every geometry up to 6x4x4 channels under small limits; package: two layers, an array of 4 rows and 2 lanes, one export or damage; shards: lists of two and three images, shards of two, one trouble; chain: two images, two models; log: three modes, two boots, one gap of any length | answers are true, workers quiet between successes, no wake-up or registration lost; the plan covers the layer, an accepted package feeds the array, an accepted shard set is whole, what is made is accepted, a chain is one inference, logs are judged right |
| `mixing` | the package of `artifacts`, one export | a violation: metadata of one export is accepted with the biases of another (section 6) |
| `evidence` | app: two threads, two images, two deployments, a kill; archive: two levels, two replacements, two damages; pipeline: three processes; results: seven campaigns, one of fewer inputs, two counts to expect, two faults; timing: soaks of two seconds in chunks of one or three, one set of artifacts on the board, summaries of two runs; card: three input sets, four commands, two changes, one kill, two runs; candidate: a soak and the 125 MHz sweep in their workspaces, two builds, two exports, one process killed or file deleted; finalize with all controls its parser accepts | one request on the board and true results, seals verify exactly what was sealed, a runnable card runs, what is released passed its gates and is one set, evaluators accept exactly what one run did, the lock comes back |

Why the bounds are enough. A ring of three slots has a wrap at a size that is no
power of two and both full and empty states. Two words per bank distinguish
first, middle-of-nothing and last; the proofs remove the bound. The epochs only
matter through equality and the successor: with two epochs and two banks each
allocation conflicts with a live context and must wait for it. Four passes contain a first
pass, two that read and write partial sums with both bank parities, and a final
one. One-vector passes are the case in which a completion meets every other
event; two-vector passes let an acceptance come before it. A context of three
packets fills the collector's return slot and both packet slots at once, one of
a single packet is first and last word together. In the loop, a tile of two
passes takes its first bank back from itself, one of three also hands over from
each bank to the other, and one of a single pass lets its neighbours meet; queues
of two places (the code has four) are full sooner. Context ids wrap at 2^16 in the
code and at six in the run: a bank is given back at most three ids after the
context that read it, so with five an id cannot be taken for an earlier owner's,
and six leave one to spare. Four tiles use each of the two
weight banks and each of the two staged tiles twice; a layer that follows meets
the registers the last one left. Two workers contain one that fails and one that
still runs; with two generations each command carries the number of the one two
before it, as after the wrap of the code's 32-bit counter. Three images in
chunks of two have a full chunk and a rest; with a warm-up of one they also have
a chunk cut short by it. One fault at any step meets every state of both ends;
what a second one would add, a fault while recovering from the first, is
reduced to the first by the resume, which starts from the disk alone. In the
packages, two layers suffice for offsets, order and alignment; the first has a
tail in channels and rows and a repeated tile, the second a kernel of nine taps,
in which the order of taps and channels shows. Two shards, one of them full and
one with a rest, distinguish positions in the list from positions in a shard.
One kill and one or two changes of files are enough for every interleaving of
*one* old and *one* new revision, and a file is only compared with another of
its set. All environment bounds (`MaxFaults`, `MaxTrouble`, `MaxKills`,
`MaxChanges`, `MaxReplaced`, `MaxDamaged`, `MaxDeploys`, ...) are constants of
the modules.

`VectorInput` uses VIEW `Live`: registers whose valid bit is low are not
distinguished. No property or later step reads them before they are written
(that they are masked is what the checks of `Unread` and `Offered` establish:
a stale word there is caught because vectors carry epoch and index).
`Environment` and `Answers` leave inputs at one value where no operator reads
them.

### Fairness

Liveness is checked under three kinds of assumption, all about things outside
the modelled registers. The clock runs (WF of Next). Each party eventually
answers a request it is able to answer: a loader with an active packet gets its
next beat, an asked-for tile arrives, a started context is accepted once its
descriptor, weights and collector slot are there, a context that may fire does.
The first context in line is eventually retired and collected. Nothing is
assumed of a party that has to wait for another modelled condition, so a cycle
of waits or a lost pulse is found. The DMA that feeds the loaders runs until it
has delivered the layer (`sw/vitis_2022_2/src/accel_runtime_v2.h` programs the
exact byte counts), and the array has no way to refuse a vector for ever while
credits are there, which justifies the assumptions for a layer in progress.
`MCPsumLive.LiveSpec` for collector and feedback loop and `WeightPath.LiveSpec`
assume the same of their parties: words come, packets are taken, beats arrive, a context whose
weights are ready is started and one that runs is retired; in the loop, whatever
waits *only* for a start, a vector or a packet gets it.

`NetworkRun` assumes that neither program stops by itself and that the link
delivers what it can: weak fairness of the host's step, the board's step and
lwIP's callbacks. No fault has to happen and no call has to be made. `Settles`
then says that each call ends and that the board comes back to its main loop
with no connection open. It leaves out one case the code does not handle: a host
that vanishes while the board owes it nothing leaves a half-open connection,
for which no keepalive is set (`main_coco80_net.c:695-714`).

`InferenceApp` assumes weak fairness of each thread's next step, as Python's
threads are scheduled; a step may always fail, and `LockComesBack` holds however
it does. The other file tools are checked for safety: their loops end.

The mailbox is checked for safety only. Its waits end when events are not lost,
which `WakesKept` and `BootsKept` state of every state: no worker sleeps with a
clear event register while it has something to do. With them, and cores that
run, a task is done in the end; the controller's own wait ends at its deadline.

### What the answers of the mailbox do not promise

`AnswersTrue` is about a command that began while all workers were at rest, and
`QuietUntilTrouble` says that this is so as long as every command before it
succeeded. After an error or a time-out a worker may still work on the older
command: `c8_mc_wait_workers` returns at the first ERROR and at the deadline,
and the next command clears the task under that worker. Its late DONE is then
counted for the new command, which it will not execute. The model includes these
runs and claims nothing of the answers in them until the workers are at rest.

## 4. Proofs

TLAPS proves, for every value of the constants:

* `TaggedQueues`
  * `RingCorrect`: Spec => []IInv. The invariant relates write pointer, read
    pointer and count, and says that the registered head is the word at the
    read pointer. It is inductive as it stands; each register's next value is
    bounded by the fact that push_fire implies room or a pop.
  * `QueueRefinesFifo`: Spec => FifoSpec. The refinement maps slots to the
    sequence `held`; the lemma `PushSlot` shows that the incoming word lands
    behind the last one, the four push/pop cases map to the abstract actions.
  * `CountersCorrect`: pushed and popped differ by the occupancy modulo the
    counters' width. `Residue` and `ResidueOfSum` are the modular arithmetic:
    every push and every pop moves one counter by one, also when it wraps.
  * `QueuesCorrect` (QueuesConsistent) and `EventQueueRefinesFifo` are the same
    results for the queues of the run, the event FIFO with any depth.
  * `EventRingCorrect` and `EventsRefineFifo`, for the event FIFO alone, every
    positive depth and both head modes (hypothesis `Events!Sized`): pointers and
    count agree, the registered head is the word at the read pointer, and every
    edge is one of a bounded FIFO that refuses an event while full, whatever
    leaves on that edge. `EventHeldShape` gives the sequence after each
    combination of push and pop.
* `PsumProofs`
  * `CreditsCorrect`: Spec => []IInv for arbitrary Requests. `Facts` derives
    from each handshake what its ready guarantees, `BankCases` enumerates the
    combinations that can meet on one bank, `BankStep` and `FreshStep` preserve
    the per-bank invariant. The strengthening needed is CreditsAreFresh: the
    stored addresses are exactly those below `written`.
  * `NoLegalCollision`: the read address is rd_issue, the write address is
    written, and rd_issue < written.
  * `FailStop`: all readys are conjoined with ~fail_stop.
  * `ScoreboardRefinesOwnership`: every edge is, bank by bank, a step of
    PsumOwnership.
  * `LoopCorrect`: LoopSpec => []LoopInv, for any chains of any number of passes
    and pixels, event queues and output room of any depth, any number of ids from
    five on, with and without the fast handoff. The invariant says who is where:
    `Lineage` (the issued context, its parent and the next one have consecutive
    ids, and the two banks alternate), `Queued` (the pixels of the contexts that
    are collected add up to what is in flight, collected and left to fire, and of
    these contexts only the last and its parent may still write), `Permitted` (an
    allocation waits only before the first pixel), `Committing`, `LastReturning`
    and `Releasing` (for each event on its way, the state of the bank it is for),
    `IssueBank` and `ParentBank` (owner and counts of the two banks in use, told
    from the counters of controller and collector) and `Accounted` (each allocated
    bank is one of these, so that none is lost). From it follow, port by port,
    the handshakes (`WritePortFacts`, `ReadPortFacts`, ...) and that none of them
    sets an error flag (`NoErrorRaised`); then one lemma per conjunct shows that
    an edge, on which all of this moves at once, preserves it.
  * `FeedbackAlwaysSafe` (FeedbackSafe): the permit is exact in both directions
    because no other context with the same identity can own the bank
    (`NotYetOwned`), which is where the number of ids is needed.
* `WeightProofs`
  * `LoaderCorrect`: Spec => []IInv, for any tile width, FIFO depth and set of
    epochs. The invariant is the conjunction of the types; `QueueAgrees` (the
    descriptor queue names exactly the banks that wait for weights, and the
    loader's bank is the one in LOADING); `FifoCounted` (words in the row FIFOs
    = words of credited and complete tiles + words of the tile being written -
    words the running load has taken, all in multiples of the tile width); and
    the two properties below. That the loader finds its words is not inductive
    without the count.
  * `TilesComplete` (WeightsComplete): when a load is done its bank holds the whole
    of its own tile, also when tiles of several contexts were credited ahead of it.
    `TileInv` follows a tile from its credit to its bank: `InTileOrder` (what the
    FIFOs hold is the rest of the running load, the credited tiles in the order of
    the descriptors, then the tile being written), `Promised` (the credits that
    wait are for the very tiles the loader will start next) and `Loaded` (the
    words a running load has taken are the first words of its tile). Counting the
    words, which is enough for `NoProtocolError`, would not tell a bank that was
    filled with a neighbour's words.
  * `NoProtocolError`: a load that begins finds its bank ALLOCATED and its words
    in the FIFOs.
  * `EpochsApart`: two banks in use differ in epoch: a start names its weights
    without ambiguity.
  * `ErrorsFreeze`: all readys and the load enable are masked by the errors.
* `PsumCollectorProofs`, for any depths, contexts and corrupted tags
  * `CollectorCorrect`: Spec => []CInv. The invariant follows a word from the
    column to the packet. `Flow` says that the columns hold the words from the
    next one to be read up to the next one to arrive, in the order of the waiting
    contexts; that the places increase (`Lined`) is what makes it inductive. Of
    an open context `Pipe` says how the counters split the words read
    (`Counted`), that the return slot has the last of them (`Returned`) and the
    packet slots those behind the last packet handed over, at the places the two
    pointers name (`Slots`). `ReadInOrder`, `ArriveInOrder`, `AdmitInOrder` and
    `CompleteInOrder` are the four things an edge may do to the columns, all on
    one edge; `Phases` the four things it may do to the context.
  * `WordsKept` (CollectorSafe): in particular no word is read on the edge that
    completes a context (`Reads`).
  * `CollectedInOrder` (OrderSpec): every edge waits or hands over in
    CollectOrder. The tag check alone would admit a word of another context of
    the same epoch; that a checked word is the very word expected follows from
    the order in the columns.
* `VectorProofs`, for any depth, epochs, queue depth, collector slots and vectors
  * `VectorsAlwaysSafe` (VectorsSafe): Spec => []VectorsSafe. The invariant `IInv`
    says who has each of the two banks from its allocation to its release:
    `InFront` (at most one context is in front of the reader, and it has one
    compute request), `Filling` (request slot, loader and fill registers name the
    same packet at the same pixel), `Filled` and `Committing` (the bank that is
    filled or committed has its credits in the right place, and the core cannot
    have drained it yet), `Credited` (consumed <= issued <= produced <= expected),
    `Owned` (queue, reader, retiring contexts and the release register have
    different banks), `Output` (the output slot holds the vector issued last),
    `EpochsHeld` (a context is tracked from its selection to its collection) and
    `Fetched` (what was read ahead is there and not yet issued). The handshake
    lemmas (`AllocHandshake`, `SelectHandshake`, ...) show that every request is
    taken on the edge that shows it; `Moved` gives the registers after an edge in
    terms of these events; one `...Kept` lemma per conjunct does the rest. The
    safety property alone is not inductive: a commit register that meets a bank
    which was drained, released and given out again would break it.
  * `VectorsStreamed` (StreamSpec): Spec => StreamSpec, the refinement of
    `BoundedFifo`. `WInv` adds the words: `LookedAhead` (the lookahead port shows
    its bank's first vector), `Shown` (the output slot shows the vector that
    `consumed_q` points at, whichever register it comes from) and `Stored`.
    `UnreadMoves` gives a bank's unread vectors after an edge, `ReaderPartMoves`,
    `QueuePartMoves` and `SelectedPart` who has which bank after it,
    `WaitingMoves` puts the two banks behind each other, `RoomToWrite` bounds
    them. It holds for any payload, so it does not rest on the tagged vectors
    nor on the VIEW of the run.
* `SchedulerProofs`, for any layer, tile, mode and build, however long each party
  takes (what the parties may answer, and when, is in `Environment`)
  * `SchedulerInvariant`: Spec => []IInv. Passes are numbered through the layer,
    and `Cur` is the one the registers stand at: the next to be given to the core,
    or the one before it while the core has it (`Taken`), or the one before that
    during a fast handoff (`Handed`). `Position` gives the address registers and
    the PSUM bank from that number; `WeightOK`, `FeedOK`, `ComputeOK`,
    `PrefetchOK`, `DrainOK` and `CollectOK` say for each state and party that its
    request is a pulse on its wire, under way, or answered and held
    (`WeightGone`, `WeightHeld`, `WeightComes` and the like), exactly one of the
    three, and that the scheduler's notes of what it has seen agree. Neither
    property is inductive without it: the scheduler never looks at a party, only
    at pulses it must have seen and remembered.
  * `SchedulerAlwaysSafe` (SchedulerSafe) and `LoopNestRefined` (LoopSpec): every
    edge stutters or is a step of `LoopNest`. One lemma per state and branch, with
    the handoff, the early drain and the prefetch apart.
* `WeightPathProofs`, for any width, packet length and FIFO depth, any layers one
  after another, and any timing of stream, scheduler, front end and core
  * `WeightPathInvariant`: Spec => []IInv. Tiles are numbered in the order of the
    passes, and each stage has a count of those it is done with: stored, formatted,
    credited, loaded, started, retired (`Counted`). `Demanded` and `Asked` tie the
    request flags to the counts, `Filled`, `Staged` and `Lined` say which tile's
    words are in the packet register, the two staging banks and the row FIFOs,
    `Owned` which bank and epoch each context has, `Loading` where the running load
    is, `Kept` what the array holds. A bank's context and the words that come to it
    are compared by no wire of the design: that they have the same number follows
    from the counts alone. A new layer restarts them (`Fresh`).
  * `WeightsAlwaysSafe` (WeightsSafe): each bank that is ready or in use holds its
    own context's weights, no error is raised, no completion is dropped.
* `SoftwareProofs`: the mailbox, for any number of workers, commands and generations
  * `ConvPartsCover`: for any number of channels and cores the parts of the
    convolution begin at the first channel, end at the last and follow one
    another without gap or overlap. `Division` is division with remainder,
    `BlocksInOrder` the same statement for blocks of eight channels.
  * `PoolPartsCover`: the same for the operations that need an even division;
    `EveryChannel`: each channel of a command is in the part of some core.
  * `MailboxCorrect`: Spec => []MailboxInv, in three layers, each proved from the
    one before. `TypeInv`: words and program counters in their ranges, and which
    of them can go together. `BootInv`: what a worker of an older boot can still
    see, so that a ready word is of this boot. `WorkInv`: what a task word in each
    state says about the parts computed under its generation.
  * `AnswersRight` (AnswersSafe) and `SignalsArrive` (SignalsKept) follow from it.
* `SoftwareProofs`: `HardwarePlan`
  * `AcceptedLayersWhole`: for any limits and any layer `schedule_layer` accepts,
    each row is in exactly one tile, each pooling window in one tile, and passes
    and blocks cover reduction and channels with none to spare. `Division`
    characterises the integer quotient, `CeilDivCovers` the number of parts,
    `TileOfRow` that a row cannot be in two tiles, `OutputFits` the output size.
    `AcceptedLayersWhole` is `PlanSound`, the property of the run, for any
    geometry.
* `SoftwareProofs`: `InferenceApp`
  * `OneRequestOneModel` (AppTrue): for any threads, images, stamps and numbers
    of deployments. `AppInv` strengthens it: `Shape` (the
    records keep their fields), `Exclusive` (the lock is held by a thread that
    works or is about to give it back, and by no other), `Progress` (what the
    directory of a working thread holds at each step; it is needed because the
    result is assembled from files written steps before) and `Unmade` (a
    directory that was never made is empty, so that an older run's files are not
    taken for new ones). One lemma per kind of step: `ThreadsOnly`,
    `DirectoryStep`, `MkdirStep`, `WriteErrorStep`.
* `SoftwareProofs`: `NetworkRun`, for any data set, arguments and bindings, with
  any number of lost connections, damaged frames, timeouts, crashes and new calls
  * `RunInvariant`: RunSpec => []RunInv. `Links` and `BoardGood` keep the messages
    and the server's own results in shape: what the board sends is what it made.
    `OneWrong`: at most one answer has a wrong field, and a wrong result that the
    host holds is that one. This is why the host's comparison of TIMING with the
    results is enough: the two cannot be wrong together. `HostInv` is the run:
    `Whereabouts` and `RunRight` (what the host may wait for at each point, and
    that its counters are where the order of messages puts them), `Holding` (the
    result it holds is of the chunk it asked for, unless it is the wrong one),
    `Checkpointed` (the records counted by a checkpoint are a prefix of the files
    that is right and already synchronized; what follows it is cut off before a
    resumed run goes on) and `PublishedRight`. The prefix is what makes it
    inductive: a crash keeps only what was synchronized, and a later call starts
    from the checkpoint, not from the files.
  * `SummariesTrue` (SummaryTrue) and `CheckpointsCovered` (CheckpointCovered).
* `SoftwareProofs`: `SdCard`, for any builds, input sets, packages and conformance
  manifests, and any number of commands, kills, changed files and runs
  * `CardAlwaysTrue` (CardTrue): SdSpec => []CardTrue, whatever the bounds.
    `CardInv` has four parts. `CardGood`: a manifest that says DATA_READY has a
    package that fits its inputs, and every manifest has one build.
    `CommandTrue`: what a command has found out about the manifest still holds
    when it writes its entries, steps later. It does because the registration
    that begins an installation takes DATA_READY back, so a kill before the last
    write leaves a card that is not runnable. `OutputsGood`: the finished outputs
    of a mode are of one run; `RunGood`: while a run goes on, nothing of another
    run is among them, which keeps the former through failures of power. The
    card's own files may be damaged at any time: that a runnable card has the
    files its manifest names is `verify_card`'s doing, that these fit each other
    the manifest's.
* `SoftwareProofs`: `ParameterPackage`, for any plan, limits, alignment and model
  roots, and any exports, kills and damages
  * `AcceptedPackagesFeed` (AcceptedFeedsArray): PackageSpec => []AcceptedFeedsArray.
    `PackageInv` says of everything that describes packed layers, the entries the
    generator has so far, the manifest on disk and the one a reader took, that each
    entry's digests are of the two sections of its layer, packed from one revision
    each (`EntryGood`), and that these are the revisions the model's manifest
    declared, but for the files that were replaced between the check of their digest
    and their rereading (`raced`), of every layer by itself. Damage may move,
    resize, reverse or drop entries; it never makes a digest one of other cells
    (`DamagedGood`). It needs no invariant of the images: `verify_package` compares
    each section with its entry's digest and each entry's index with its layer.
    What is left is arithmetic: in a section the cell of tile, block, pass, row and
    lane is the number with these digits (`Digits`, `Place`), and divided by the
    bases the code divides by, each gives its digit back (`BiasFed`, `WeightFed`).
* `SoftwareProofs`: `InputShards`, for any image lists, shard sizes, stopped builds,
  replaced images and damages
  * `AcceptedSetsWhole` (AcceptedSetWhole): ShardsSpec => []AcceptedSetWhole.
    `ShardsInv`: each entry of a build or an index is of the image that its record
    index names (`RecordGood`), and a manifest is bound to an index that has an
    entry for every image of one list (`SetGood`). It says nothing of the order of
    an index: a damaged one, even one that was damaged before the manifest took its
    digest, may have its entries reversed, and is refused because record indexes
    must count up. Nor of the manifest's own tables, which the validation compares
    with the index.
* `SoftwareProofs`: `HostPipeline`, for any number of processes
  * `ReleasesPassed`: PipelineSpec => []ReleasedPassed. `PipelineInv`: host-all is
    on its way (`OnTheWay`), that is, at one of ten places with exactly the stages
    before that place behind it; each of these has its marker on the file that is
    there, and that file is of this process and of the files it needs, as they are
    now (`FreshOutput`). `WorkKeeps` shows that a stage that works disturbs nothing
    made before it on the way, since no stage needs a later one; `MarkKeeps` that
    the way goes on behind a gate only if that gate passed (`Behind`). Neither the
    refusal to mark a stage twice nor that to overwrite an output is used: they
    decide whether host-all ends with a release, not what it has released.

Assumptions on constants: positive depths, port values in their types, distinct
"nothing" values (`Nobody \notin Threads` is a hypothesis of the theorem of
`InferenceApp`). For the feedback loop, in `PsumFeedback`: at least five ids, which
wrap, and tiles of at least one pass and one pixel; a tile larger than a bank is
not excluded: it is never permitted to start. For the network run: the arguments
have the types of the command line (`ArgumentsAssumption`), and the same binding
with the same first record and count means the same records
(`BindingAssumption`): the binding is a digest over the selection's or the whole
index (`net_runner.py:323`, `331`, `377-381`), so this is that the digests do not
collide. For the card: an absent and a damaged file are none of the things the
program puts there (`CardAssumption`). For the package: the plan is a sequence
with paddings that are numbers, the alignment is positive, and a revision is not
one of the values for an absent or unfinished file (`PackageAssumption`). For the
shards: a shard may hold at least one package, and the lists are sequences
(`ShardsAssumption`); both are what the arguments are checked for
(`sd_pack.py:918-922`). TLC evaluates the ASSUMEs in every run.

**Only model-checked:** everything under liveness (temporal fairness and ENABLED
are out of the prover's reach), what recursive definitions and folds compute (it
would need induction over data), that a network run without faults passes
(`CleanRunsPass`: it needs the board's and the host's counters to agree at every
message, a second invariant of the size of `RunInv`), that what a tool has made
its own reader accepts (`MadeIsAccepted`: the payload total is a fold), the chain
of SD packages, the archives, the candidate, the evaluators and the log parsers.

## 5. What is left out of the modelled parts

* 32-bit diagnostic and performance counters, except the lifecycle queue's
  transfer counters; they drive nothing.
* Reset in mid-run of `VectorInput` and `LayerScheduler`: one global reset puts
  all parties into Init together. Queues and scoreboard have a Reset action.
* The three AXI beats of a vector arrive as one; byte centring is data.
* Of the weight path: the bias half of the loader, the loader of builds without
  ping-pong, the scalar write port, which `conv_layer_top_stream.v` leaves
  unconnected. Of the collector: its diagnostic outputs, and the column
  collector and drain writer beside it.
* Of the mailbox: cache maintenance and translation attributes (the mailbox is
  not cached, results are taken to arrive), the kernels, buffers that a late
  worker writes after the caller has reused them, a controller whose own shared
  region is refused before it wakes anyone, and the return for a task of another
  generation, a word only the controller writes. The start through PSCI
  (`main_coco80_net.c:145`), which does not invalidate the mailbox first, depends
  on what the boot firmware leaves in memory.
* Of the network server: the dispatch of CPU work to other cores (that is
  `MulticoreMailbox`), cache maintenance, timer and PHY set-up. A connection that
  its peer has closed is gone at once: in the code `tcp_close` leaves the pcb's
  callbacks set, and one that is still acknowledged may call
  `c8_connection_error` or `c8_sent` in a newer session
  (`main_coco80_net.c:614-618`, `367-388`). A TIMING frame is queued in one step,
  while `c8_send_bytes` may poll in the middle of it (`403-423`). Of the client:
  artifact digests one by one, and the representative input of the ablation runs.
* Of the SD tools: product and performance modes of the board, which write a
  file and its index as accuracy mode does; free-space checks; FatFs errors other
  than a missing file; the conversion of a parameter package into its SD form;
  packages in one file per image; how the conformance images are selected.
* Of the evaluators: the metrics themselves, those of a reference included, and
  the git provenance. Of the pipeline: what a stage computes.
* Of the parameter package: scales and multipliers, which `QuantOk` only bounds.
* In `layer_scheduler_stream.v`, the overlapped start in COMP_WAIT (lines
  551-564) is shadowed by the branch before it whose condition it repeats
  (drain_started with no previous drain leads into the nested branches), so it
  cannot be taken; it is mentioned at `DrainedWait` and not modelled.
* The legacy line-feeder mode and builds without tagged contexts.

### Components not modelled

* The column feeder and column collector with their banks, a mode beside the
  continuous collection that is modelled.
* HWC caches, output path, registers and bridges, line-window feeder: mostly
  address arithmetic and data flow around pairs of banks of the kind
  `EpochBuffer` models; the legacy feeder is not in the released build.
* Untagged core, arithmetic, CPU tensor operators, training and reference
  numerics: functions of their inputs, checked bit by bit by the repository's
  own test benches.
* Accelerator runtime and layer chains: sequential register programming; its
  outcomes appear in `NetServer` and `SdCard`.
* Monitors, boot scripts, header generators, reports, tests and evidence: no
  state of the running system.

## 6. What the models showed of the code

**A finding.** `load_layer_manifests` compares the digest of each source file, and
`_read_bound_file` reads the file again without (`parameter_package.py:691-697`).
An export in between is packed under the digests, quantisation and activation
metadata of the export before, and `verify_package`, which compares sections
with digests of their own, accepts the package. The docstring of the module says
that the metadata are bound into the manifest so that software can program
registers "without silently mixing artifacts from another calibration/export"
(`parameter_package.py:3-6`). `NothingMixed` states that, and the run `mixing`
shows it violated: load, export of one bias file, packing, acceptance.
`AcceptedFeedsArray` is what remains true: the file that was replaced is packed
whole and in its place, and every other one is the one the manifest names.

Nothing else here contradicts a document or comment of the repository; each point
is a limit the properties had to respect, at the line where it is.

* `parse_logs` ties a record to a boot by its index alone
  (`abi_v2_board_signoff.py:90-145`). A gap of eight lines or more in the capture,
  over a reboot, may join the records of two boots into a log that passes:
  it begins when a dispatch of the first boot is timed and ends when the second
  boot has timed the same one. Then every sample is still the time of the
  dispatch of its index, which `AcceptedRanWhole` keeps for any gap. With two
  gaps even that fails: six lost lines put the warm-up of the second boot
  among the samples (`MaxGaps` is one in the run).
* With another `--expected-count` than 5000, `board_evaluate.py` still asks for a
  reference of 5000 images (`272`): the metrics of fewer inputs are then compared
  with those of the full set.

* A run that fails before its first checkpoint leaves a directory that is neither
  fresh nor resumable; the operator has to remove it (`net_runner.py:343`, `347`).
* A host that disappears silently leaves the board's connection open.
* A clock that is set back lets a failing request write its error.json into the
  directory of an older one (`inference_app.py:299-303`, `453`).
* A crash between creating and sealing an archive leaves a directory that cannot
  be sealed again (`results.py:432`).
* The single stages `package` and `header` take the QAT parameters whenever their
  directory exists, whether or not they passed a gate (`pipeline.py:369-373`);
  only host-all ties its choice to the gates, and `ReleasedPassed` is about it. A
  stage that is run again rewrites its output before `_write_stage` refuses the
  marker.
* Preparing a card anew forgets its registrations, and an installation that
  fails leaves it at the lower state (`sd_deploy.py:178-203`). A conformance
  binding that has become stale passes `verify_card` and is refused by the board
  (`sd_deploy.py:276-294`, `356-368`).
* The generator of the release candidate is skipped when its manifest exists
  (`build_abi_v2_candidate.ps1:135`); the manifest is written in place.
* `network_performance.py:76-113` counts a run directory that is given twice as
  two runs.

## 7. Plan

Done: the modules above. What is left, in order of worth:

1. HWC cache tiles and the output ping-pong: one abstract specification for both.
2. The register bridge and the tile sequencer; window addresses against a
   reference definition.
3. The SD runner's product and performance modes, and SD form conversion.

Theorems worth proving next: `CleanRunsPass` of the network run, from `RunInv` and
the agreement of both ends on every number they compare; `BuiltSetValidates` of the
shards, by counting the entries of each.
