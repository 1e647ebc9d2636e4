------------------------------ MODULE SoftwareProofs ------------------------------
(***************************************************************************)
(* What is proved of the software.                                         *)
(*                                                                         *)
(* MulticoreMailbox, for any number of workers.  First the partition of    *)
(* the work: the parts of an operation are its channels, in order, each    *)
(* exactly once and each at the boundary of a block.  Then the protocol:   *)
(* its inductive invariant says how the words of the mailbox, the steps of *)
(* the boot and the words of each task go together with the places of the  *)
(* controller and the workers.                                             *)
(*                                                                         *)
(* HardwarePlan: schedule_layer cuts every geometry it accepts without a   *)
(* gap and without overlap.                                                *)
(*                                                                         *)
(* InferenceApp, for any number of threads: the application serves one     *)
(* request with one model at a time.                                       *)
(*                                                                         *)
(* NetworkRun, for any data set, arguments and bindings and any number of  *)
(* lost connections, damaged frames, timeouts, crashes and restarts: what  *)
(* the host publishes and what it counts as done is what the board made    *)
(* of the images that were asked for.                                      *)
(*                                                                         *)
(* SdCard, for any builds, input sets, packages and conformance manifests: *)
(* a card that the tool reports runnable has what the board asks for, and  *)
(* the outputs under their own names are of one run.                       *)
(*                                                                         *)
(* ParameterPackage, for any plan, limits, alignment, exports and damages: *)
(* a package that verify_package accepts feeds the array its own cells.    *)
(*                                                                         *)
(* InputShards, for any image lists, shard sizes, stopped builds and       *)
(* damages: a set that validates is one whole list.                        *)
(*                                                                         *)
(* HostPipeline, for any number of processes: what host-all releases has   *)
(* passed its gates.                                                       *)
(***************************************************************************)
EXTENDS MulticoreMailbox, ParameterPackage, InferenceApp, NetworkRun, SdCard, InputShards, HostPipeline,
        SequenceTheorems, FiniteSetTheorems, TLAPS

\* Division with remainder, with a product that the provers may keep closed.
LEMMA Division ==
  ASSUME NEW n \in Nat, NEW d \in Nat \ {0}
  PROVE  /\ n \div d \in Nat /\ n % d \in 0 .. d - 1
         /\ n = d * (n \div d) + (n % d)
  BY SMTT(30)

\* The blocks of a part begin where those of the part before end, and the last
\* part ends with the last block.
LEMMA BlocksInOrder ==
  ASSUME NEW channels \in Nat, NEW parts \in Nat \ {0}, NEW part \in 0 .. parts - 1
  PROVE  /\ blocks(channels) \in Nat
         /\ first_block(channels, part, parts) \in Nat
         /\ block_count(channels, part, parts) \in Nat
         /\ first_block(channels, 0, parts) = 0
         /\ part + 1 < parts =>
              first_block(channels, part + 1, parts)
                = first_block(channels, part, parts)
                    + block_count(channels, part, parts)
         /\ part + 1 = parts =>
              first_block(channels, part, parts)
                + block_count(channels, part, parts) = blocks(channels)
<1> DEFINE b == blocks(channels)
           q == b \div parts
           r == b % parts
<1>1. b \in Nat
  BY DEF blocks
<1>2. q \in Nat /\ r \in 0 .. parts - 1 /\ b = parts * q + r
  <2> HIDE DEF b
  <2> QED BY <1>1, Division
<1>3. part * q \in Nat /\ 0 * q = 0 /\ (part + 1) * q = part * q + q
  <2> HIDE DEF q
  <2> QED BY <1>2
<1>4. first_block(channels, part, parts) = part * q + Smaller(part, r)
  BY DEF first_block
<1>5. block_count(channels, part, parts) = q + (IF part < r THEN 1 ELSE 0)
  BY DEF block_count
<1>6. first_block(channels, part + 1, parts)
        = (part + 1) * q + Smaller(part + 1, r)
  BY DEF first_block
<1>7. first_block(channels, 0, parts) = 0 * q + Smaller(0, r)
  BY DEF first_block
<1>8. part + 1 = parts => (part + 1) * q = parts * q
  OBVIOUS
<1> HIDE DEF b, q, r
<1> QED
  BY <1>1, <1>2, <1>3, <1>4, <1>5, <1>6, <1>7, <1>8 DEF Smaller, b

\* The convolution's parts: the first begins at channel zero, each begins where
\* the one before ended, the last ends with the last channel, none is negative,
\* and none begins within a block of eight channels (c8_mc_channel_partition).
THEOREM ConvPartsCover ==
  ASSUME NEW channels \in Nat, NEW parts \in Nat \ {0}, NEW part \in 0 .. parts - 1
  PROVE  LET range == ConvRange(channels, part, parts)
         IN /\ range.begin \in 0 .. range.end /\ range.end \in 0 .. channels
            /\ part = 0 => range.begin = 0
            /\ part + 1 = parts => range.end = channels
            /\ part + 1 < parts =>
                 ConvRange(channels, part + 1, parts).begin = range.end
            /\ range.begin = channels \/ range.begin % 8 = 0
<1> DEFINE f == first_block(channels, part, parts)
           n == block_count(channels, part, parts)
<1>1. f \in Nat /\ n \in Nat
  BY BlocksInOrder
<1>2. ConvRange(channels, part, parts) =
        [begin |-> Smaller(f * 8, channels), end |-> Smaller((f + n) * 8, channels)]
  BY DEF ConvRange
<1>3. part + 1 < parts => ConvRange(channels, part + 1, parts).begin
                            = Smaller((f + n) * 8, channels)
  BY BlocksInOrder DEF ConvRange
<1>4. part = 0 => f = 0
  BY BlocksInOrder
<1>5. part + 1 = parts => (f + n) * 8 >= channels
  <2> SUFFICES ASSUME part + 1 = parts PROVE (f + n) * 8 >= channels
    OBVIOUS
  <2>1. f + n = blocks(channels)
    BY BlocksInOrder
  <2>2. blocks(channels) * 8 >= channels
    BY DEF blocks
  <2> QED BY <2>1, <2>2
<1>6. (f * 8) % 8 = 0
  <2> HIDE DEF f
  <2> QED BY <1>1
<1> HIDE DEF f, n
<1> QED BY <1>1, <1>2, <1>3, <1>4, <1>5, <1>6 DEF Smaller

\* The tensor operations' parts do the same, and none is empty, which the
\* operations would refuse (coco80_mc_pool_s2 and its like).
THEOREM PoolPartsCover ==
  ASSUME NEW channels \in Nat \ {0}, NEW parts \in Nat \ {0},
         NEW part \in 0 .. parts - 1, channels % parts = 0
  PROVE  LET range == PoolRange(channels, part, parts)
         IN /\ range.begin \in 0 .. channels /\ range.end \in 0 .. channels
            /\ range.begin < range.end
            /\ part = 0 => range.begin = 0
            /\ part + 1 = parts => range.end = channels
            /\ part + 1 < parts =>
                 PoolRange(channels, part + 1, parts).begin = range.end
<1> DEFINE q == channels \div parts
<1>1. q \in Nat /\ channels = parts * q
  BY Division
<1>2. PoolRange(channels, part, parts)
        = [begin |-> part * q, end |-> (part + 1) * q]
  BY DEF PoolRange
<1>3. PoolRange(channels, part + 1, parts).begin = (part + 1) * q
  BY DEF PoolRange
<1> HIDE DEF q
<1>4. q # 0
  BY <1>1
<1>5. part * q \in Nat /\ (part + 1) * q = part * q + q
  BY <1>1
<1>6. (part + 1) * q <= parts * q
  <2>1. parts * q = (part + 1) * q + (parts - (part + 1)) * q
    BY <1>1
  <2>2. (parts - (part + 1)) * q \in Nat
    BY <1>1
  <2> QED BY <2>1, <2>2, <1>1, <1>5
<1>7. part = 0 => part * q = 0
  BY <1>1
<1>8. part + 1 = parts => (part + 1) * q = parts * q
  OBVIOUS
<1> QED BY <1>1, <1>2, <1>3, <1>4, <1>5, <1>6, <1>7, <1>8

\* The part of a command's channels that a core takes is a range within them.
LEMMA PartWithin ==
  ASSUME NEW c \in Command, NEW part \in 0 .. WORKERS
  PROVE  /\ c.channels \in Nat \ {0}
         /\ PartRange(c, part).begin \in Nat /\ PartRange(c, part).end \in Nat
         /\ PartRange(c, part).end <= c.channels
<1> USE WorkersAssumption, CommandAssumption
<1>1. Parts \in Nat \ {0} /\ part \in 0 .. Parts - 1
  BY DEF Parts
<1>2. CASE c.op = "pool"
  <2>1. c.channels \in PoolChannels
    BY <1>2 DEF Command
  <2>2. c.channels \in Nat \ {0} /\ c.channels % Parts = 0
    BY <2>1 DEF Parts
  <2>3. PartRange(c, part) = PoolRange(c.channels, part, Parts)
    BY <1>2 DEF PartRange
  <2> QED BY <1>1, <2>2, <2>3, PoolPartsCover
<1>3. CASE c.op # "pool"
  <2>1. c.channels \in ConvChannels
    BY <1>3 DEF Command
  <2>2. PartRange(c, part) = ConvRange(c.channels, part, Parts)
    BY <1>3 DEF PartRange
  <2>3. c.channels \in Nat \ {0}
    BY <2>1
  <2> QED BY <1>1, <2>2, <2>3, ConvPartsCover
<1> QED BY <1>2, <1>3

\* Where a number lies among multiples: in the multiple that its quotient names.
LEMMA Multiple ==
  ASSUME NEW n \in Nat, NEW d \in Nat \ {0}, NEW m \in Nat, n < m * d
  PROVE  LET k == n \div d
         IN /\ k \in 0 .. m - 1 /\ k * d \in Nat /\ k * d <= n /\ n < (k + 1) * d
            /\ (k + 1) * d = k * d + d
<1> DEFINE k == n \div d
<1>1. k \in Nat /\ n % d \in 0 .. d - 1 /\ n = d * k + (n % d)
  BY Division
<1> HIDE DEF k
<1>2. d * k = k * d /\ k * d \in Nat /\ (k + 1) * d = k * d + d
  BY <1>1
<1>3. k * d <= n /\ n < (k + 1) * d
  BY <1>1, <1>2
<1>4. k < m
  <2> SUFFICES ASSUME m <= k PROVE FALSE
    BY <1>1
  <2>1. (k - m) \in Nat /\ (k - m) * d \in Nat
    BY <1>1
  <2>2. k * d = m * d + (k - m) * d
    BY <1>1
  <2>3. m * d \in Nat
    OBVIOUS
  <2> QED BY <1>2, <1>3, <2>1, <2>2, <2>3
<1> QED BY <1>1, <1>2, <1>3, <1>4 DEF k

\* Each block is one of some part's.
LEMMA EveryBlock ==
  ASSUME NEW channels \in Nat, NEW parts \in Nat \ {0},
         NEW block \in 0 .. blocks(channels) - 1
  PROVE  \E part \in 0 .. parts - 1 :
           LET first == first_block(channels, part, parts)
           IN block \in first .. first + block_count(channels, part, parts) - 1
<1> DEFINE b == blocks(channels)
           q == b \div parts
           r == b % parts
           long == r * (q + 1)
<1>1. b \in Nat
  BY DEF blocks
<1>2. q \in Nat /\ r \in 0 .. parts - 1 /\ b = parts * q + r
  <2> HIDE DEF b
  <2> QED BY <1>1, Division
<1>3. block \in Nat /\ block < b
  BY <1>1
<1>4. \A part \in 0 .. parts - 1 :
        /\ first_block(channels, part, parts) = part * q + Smaller(part, r)
        /\ block_count(channels, part, parts) = q + (IF part < r THEN 1 ELSE 0)
  BY DEF first_block, block_count
<1> HIDE DEF b, q, r
<1>5. CASE block < long
  <2> DEFINE k == block \div (q + 1)
  <2>0. q + 1 \in Nat \ {0} /\ r \in Nat
    BY <1>2
  <2>1. k \in 0 .. r - 1 /\ k * (q + 1) <= block /\ block < (k + 1) * (q + 1)
          /\ (k + 1) * (q + 1) = k * (q + 1) + (q + 1)
    BY <1>3, <1>5, <2>0, Multiple
  <2> HIDE DEF k
  <2>2. k \in 0 .. parts - 1 /\ k < r
    BY <1>2, <2>1
  <2>3. k * q \in Nat /\ k * (q + 1) = k * q + k
    BY <1>2, <2>2
  <2>4. first_block(channels, k, parts) = k * q + k
    BY <1>4, <2>2 DEF Smaller
  <2>5. block_count(channels, k, parts) = q + 1
    BY <1>4, <2>2
  <2>6. block \in first_block(channels, k, parts)
                  .. first_block(channels, k, parts) + block_count(channels, k, parts) - 1
    BY <1>2, <1>3, <2>1, <2>2, <2>3, <2>4, <2>5
  <2> QED BY <2>2, <2>6
<1>6. CASE block >= long
  <2> DEFINE rest == block - long
  <2>1. long \in Nat /\ parts * q = r * q + (parts - r) * q /\ r * q \in Nat
          /\ (parts - r) * q \in Nat /\ long = r * q + r
    BY <1>2
  <2>2. rest \in Nat /\ rest < (parts - r) * q
    BY <1>2, <1>3, <1>6, <2>1
  <2>3. q \in Nat \ {0} /\ parts - r \in Nat
    <3>1. q # 0
      BY <1>2, <2>2
    <3> QED BY <1>2, <3>1
  <2> DEFINE k == rest \div q
             part == r + k
  <2>9. block = rest + r * q + r
    BY <1>2, <1>3, <2>1
  <2> HIDE DEF rest
  <2>4. k \in 0 .. parts - r - 1 /\ k * q \in Nat /\ k * q <= rest
          /\ rest < (k + 1) * q /\ (k + 1) * q = k * q + q
    BY <2>2, <2>3, Multiple
  <2> HIDE DEF k
  <2>5. part \in 0 .. parts - 1 /\ ~(part < r)
    BY <1>2, <2>4
  <2>6. part * q = r * q + k * q
    BY <1>2, <2>4
  <2> HIDE DEF part
  <2>7. first_block(channels, part, parts) = part * q + r
    <3>1. r \in Nat /\ part \in Nat
      BY <1>2, <2>5
    <3>2. Smaller(part, r) = r
      BY <2>5, <3>1 DEF Smaller
    <3> QED BY <1>4, <2>5, <3>2
  <2>8. block_count(channels, part, parts) = q
    BY <1>2, <1>4, <2>5
  <2>10. block \in first_block(channels, part, parts)
                   .. first_block(channels, part, parts) + block_count(channels, part, parts) - 1
    BY <1>2, <1>3, <2>1, <2>2, <2>4, <2>6, <2>7, <2>8, <2>9
  <2> QED BY <2>5, <2>10
<1>7. long \in Nat
  BY <1>2
<1> QED BY <1>3, <1>5, <1>6, <1>7

\* Each channel of a command is one of some core's part: what all of them
\* compute together leaves none out.
THEOREM EveryChannel ==
  ASSUME NEW c \in Command, NEW channel \in 0 .. c.channels - 1
  PROVE  \E part \in 0 .. WORKERS :
           channel \in PartRange(c, part).begin .. PartRange(c, part).end - 1
<1> USE WorkersAssumption, CommandAssumption
<1>0. Parts \in Nat \ {0} /\ 0 .. WORKERS = 0 .. Parts - 1
  BY DEF Parts
<1> DEFINE n == c.channels
<1>1. n \in Nat \ {0}
  BY PartWithin
<1>2. CASE c.op = "pool"
  <2> DEFINE q == n \div Parts
  <2>1. n % Parts = 0
    BY <1>2 DEF Command, Parts
  <2>2. q \in Nat /\ n = Parts * q
    <3> HIDE DEF n
    <3> QED BY <1>0, <1>1, <2>1, Division
  <2>3. \A part \in 0 .. WORKERS :
          PartRange(c, part) = [begin |-> part * q, end |-> (part + 1) * q]
    BY <1>2 DEF PartRange, PoolRange
  <2> HIDE DEF n, q
  <2>4. q # 0 /\ channel \in Nat /\ channel < Parts * q
    BY <1>0, <1>1, <2>2 DEF n
  <2> DEFINE k == channel \div q
  <2>5. k \in 0 .. Parts - 1 /\ k * q \in Nat /\ k * q <= channel /\ channel < (k + 1) * q
          /\ (k + 1) * q = k * q + q
    BY <1>0, <2>2, <2>4, Multiple
  <2> HIDE DEF k
  <2>6. k \in 0 .. WORKERS
    BY <1>0, <2>5
  <2>7. channel \in PartRange(c, k).begin .. PartRange(c, k).end - 1
    BY <2>2, <2>3, <2>4, <2>5, <2>6
  <2> QED BY <2>6, <2>7
<1>3. CASE c.op # "pool"
  <2> DEFINE block == channel \div 8
  <2>1. channel \in Nat /\ channel < n
    BY <1>1
  <2>2. block \in 0 .. blocks(n) - 1 /\ block * 8 <= channel /\ channel < (block + 1) * 8
    BY <1>1, <2>1 DEF blocks
  <2> HIDE DEF block
  <2>3. PICK part \in 0 .. Parts - 1 :
          block \in first_block(n, part, Parts)
                      .. first_block(n, part, Parts) + block_count(n, part, Parts) - 1
    BY <1>0, <1>1, <2>2, EveryBlock
  <2>4. first_block(n, part, Parts) \in Nat /\ block_count(n, part, Parts) \in Nat
    BY <1>0, <1>1, BlocksInOrder
  <2>5. PartRange(c, part) =
          [begin |-> Smaller(first_block(n, part, Parts) * 8, n),
           end |-> Smaller((first_block(n, part, Parts) + block_count(n, part, Parts)) * 8, n)]
    BY <1>3 DEF PartRange, ConvRange
  <2>6. part \in 0 .. WORKERS
    BY <1>0
  <2>7. channel \in PartRange(c, part).begin .. PartRange(c, part).end - 1
    BY <1>1, <2>1, <2>2, <2>3, <2>4, <2>5 DEF Smaller
  <2> QED BY <2>6, <2>7
<1> QED BY <1>2, <1>3

-----------------------------------------------------------------------------
(* The inductive invariant: types and sessions *)

BootCells == {"clear", "clear_ready", "clear_tasks", "magic", "region", "ready",
              "boot_sev", "register", "boot_failed"}
CommandCells == {"clear_task", "fill_task", "publish", "sev", "own", "wait"}

Boots == {"boot", "boot_wait", "boot_ready", "boot_region", "register"}
Works == {"boot_sev", "check", "wait", "check_generation", "take", "run",
          "read_task", "compute", "status", "finish", "sev"}

Places == {"off", "refuse", "refuse_sev", "halted"} \cup Boots \cup Works

Ops == {"none", "pool", "conv"}
Job == [op : Ops, generation : 0 .. GenMod - 1, begin : Nat, end : Nat]

ControlRight ==
  /\ session \in {"stopped", "invalid", "running"}
  /\ cpc \in {"off", "idle"} \cup BootCells \cup CommandCells
  /\ command \in Command \cup {NoCommand}
  /\ generation = 0 <=> command = NoCommand
  /\ cpc \in CommandCells => generation # 0
  /\ cpc \in {"clear_task", "fill_task", "publish"} => index \in Worker
  /\ cpc \in {"register", "wait"} => complete <= index - 1

Workers ==
  /\ wpc \in [Worker -> Places]
  /\ last_generation \in [Worker -> 0 .. GenMod - 1]
  /\ job \in [Worker -> Job] /\ rc \in [Worker -> {"OK", "ERROR"}]

Flags ==
  /\ magic \in BOOLEAN /\ region \in BOOLEAN /\ controller_ready \in BOOLEAN
  /\ broken \in BOOLEAN /\ quiet \in BOOLEAN /\ clean \in BOOLEAN
  /\ covered \subseteq Nat

TypeInv == TypeOK /\ ControlRight /\ Workers /\ Flags

-----------------------------------------------------------------------------
(* The boot *)

Sessions ==
  /\ cpc = "off" <=> session # "running"
  /\ session = "stopped" => \A w \in Worker : wpc[w] = "off"
  /\ session = "running" => \A w \in Worker : wpc[w] # "off"
  /\ cpc \in {"off"} \cup BootCells => generation = 0
  /\ generation = 0 => answer = "none" /\ quiet /\ clean

\* What the controller has written of the mailbox, once it is invalidated.
Mailbox ==
  session # "stopped" =>
    /\ magic <=> cpc \notin {"off", "clear", "clear_ready", "clear_tasks", "magic"}
    /\ controller_ready => magic /\ region
    /\ controller_ready <=>
         cpc \notin {"off", "clear", "clear_ready", "clear_tasks", "magic",
                     "region", "ready"}
    /\ cpc = "ready" => region

\* How far a worker can be.
Boot(w) ==
  /\ wpc[w] \in {"off"} \cup Boots \cup Works
  /\ wpc[w] = "boot_ready" => magic
  /\ wpc[w] \in {"boot_region", "register"} \cup Works => controller_ready
  /\ cpc \notin {"off", "clear", "clear_ready"} =>
       worker_ready[w] = IF wpc[w] \in Works THEN "yes" ELSE "no"
  /\ cpc = "register" /\ wpc[w] = "boot_wait" => event[w]
  /\ cpc \in {"idle"} \cup CommandCells => wpc[w] \in Works
  /\ cpc = "register" /\ complete = index - 1 /\ w < index => wpc[w] \in Works

\* Before the first command, once the tasks are cleared.
Fresh(w) ==
  generation = 0 =>
    /\ last_generation[w] = 0
    /\ wpc[w] \in {"off"} \cup Boots \cup {"boot_sev", "check", "wait"}
    /\ cpc \notin {"off", "clear", "clear_ready", "clear_tasks"} => tasks[w] = NoTask

BootInv == Sessions /\ Mailbox /\ \A w \in Worker : Boot(w) /\ Fresh(w)

-----------------------------------------------------------------------------
(* A command that began while the workers were at rest *)

Channels == 0 .. command.channels - 1
OwnRange(part) == PartRange(command, part).begin .. PartRange(command, part).end - 1

Filled(w) == \/ cpc \in {"publish", "sev", "own", "wait", "idle"}
             \/ cpc \in {"clear_task", "fill_task"} /\ w < index
Published(w) == \/ cpc \in {"sev", "own", "wait", "idle"}
                \/ cpc = "publish" /\ w < index
Resting == {"boot_sev", "sev", "check", "wait"}

\* A task that is not published is not taken; published it is taken once, and
\* the worker's place and what is computed follow its state.
Unpublished(w) ==
  /\ wpc[w] \in Resting /\ tasks[w].state \notin {"READY", "RUNNING"}
  /\ last_generation[w] # generation
  /\ Filled(w) => tasks[w].state = "IDLE" /\ tasks[w].status = "OK"
  /\ cpc = "fill_task" /\ w = index => tasks[w] = NoTask

Words(w) ==
  /\ tasks[w].op = command.op /\ tasks[w].generation = generation
  /\ tasks[w].begin = PartRange(command, w).begin
  /\ tasks[w].end = PartRange(command, w).end

Ready(w) ==
  /\ wpc[w] \in Resting \cup {"check_generation", "take", "run"}
  /\ last_generation[w] = generation <=> wpc[w] = "run"
  /\ cpc \in {"own", "wait"} /\ wpc[w] = "wait" => event[w]

Running(w) ==
  /\ wpc[w] \in {"read_task", "compute", "status", "finish"}
  /\ last_generation[w] = generation
  /\ wpc[w] = "compute" =>
       job[w] = [op |-> tasks[w].op, generation |-> tasks[w].generation,
                 begin |-> tasks[w].begin, end |-> tasks[w].end]
  /\ wpc[w] \in {"status", "finish"} =>
       IF rc[w] = "OK" THEN OwnRange(w) \subseteq covered ELSE broken
  /\ wpc[w] = "finish" => tasks[w].status = rc[w]

Ended(w) ==
  /\ wpc[w] \in {"sev", "check", "wait"} /\ last_generation[w] = generation
  /\ tasks[w].state = "DONE" => OwnRange(w) \subseteq covered
  /\ tasks[w].state = "ERROR" => broken /\ tasks[w].status = "ERROR"

Work(w) ==
  IF ~Published(w) THEN Unpublished(w)
  ELSE /\ tasks[w].state \in {"READY", "RUNNING", "DONE", "ERROR"}
       /\ tasks[w].state = "READY" => Ready(w)
       /\ tasks[w].state = "RUNNING" => Running(w)
       /\ tasks[w].state \in {"DONE", "ERROR"} => Ended(w)

Coverage ==
  /\ covered \subseteq Channels
  /\ cpc = "wait" \/ answer = "OK" => OwnRange(0) \subseteq covered
  /\ cpc = "wait" /\ complete = index - 1 =>
       \A w \in Worker : w < index => tasks[w].state = "DONE"
  /\ answer = "OK" => \A w \in Worker : tasks[w].state = "DONE"
  /\ answer = "ERROR" => broken

Quiet ==
  quiet /\ generation # 0 =>
    /\ \A w \in Worker : Work(w) /\ (Filled(w) => Words(w))
    /\ Coverage

AnsweredRight ==
  /\ generation # 0 => (cpc = "idle" <=> answer # "none")
  /\ clean => quiet /\ answer \in {"none", "OK"}

WorkInv == AnsweredRight /\ Quiet

MailboxInv == TypeInv /\ BootInv /\ WorkInv

-----------------------------------------------------------------------------
(* Which steps there are, and what they leave alone *)

BootStep == \/ Clear \/ ClearReady \/ ClearTasks \/ WriteMagic \/ WriteRegion
            \/ WriteReady \/ SignalBoot \/ ScanReady \/ AllRegistered \/ BootTimesOut
CommandStep == \/ Begin \/ ClearTask \/ FillTask \/ Publish \/ Signal \/ OwnPart
               \/ ScanTask \/ EndOfScan \/ TimesOut
WorkerMoves(w) == WorkerStep(w) \/ Wake(w)

\* A step is a session's, the controller's or a worker's.
LEMMA Steps ==
  ASSUME [Next]_vars
  PROVE  \/ UNCHANGED vars \/ Stop \/ Invalidate \/ StartController
         \/ BootStep \/ CommandStep
         \/ \E w \in Worker : StartWorker(w) \/ WorkerMoves(w)
BY DEF Next, ControllerStep, BootStep, CommandStep, WorkerMoves

\* A step of the boot leaves the session, the commands and the workers alone.
LEMMA BootFrame ==
  BootStep => UNCHANGED <<session, generation, command, workerVars, historyVars>>
BY DEF BootStep, Clear, ClearReady, ClearTasks, WriteMagic, WriteRegion, WriteReady,
  SignalBoot, ScanReady, AllRegistered, BootTimesOut, KeepsBooting

\* A step of a command leaves the words of the boot and the workers alone.
LEMMA CommandFrame ==
  CommandStep => UNCHANGED <<session, magic, region, controller_ready, worker_ready,
                             workerVars>>
BY DEF CommandStep, Begin, ClearTask, FillTask, Publish, Signal, OwnPart, ScanTask,
  EndOfScan, TimesOut, WriteTask, KeepsRunning

\* A worker writes no word but its own, and sets its place.
LEMMA WorkerFrame ==
  ASSUME TypeInv, NEW w \in Worker, WorkerMoves(w)
  PROVE  /\ UNCHANGED <<session, magic, region, controller_ready, controllerVars,
                        answer, quiet, clean>>
         /\ wpc' = [wpc EXCEPT ![w] = wpc'[w]]
         /\ wpc'[w] # "off"
         /\ wpc[w] # "off"
         /\ \A v \in Worker \ {w} :
              /\ tasks'[v] = tasks[v] /\ worker_ready'[v] = worker_ready[v]
              /\ last_generation'[v] = last_generation[v]
              /\ job'[v] = job[v] /\ rc'[v] = rc[v]
<1> USE DEF TypeInv, TypeOK, Workers, WorkerAt, Local, KeepsWorking, mailboxVars
<1>1. CASE Wake(w)
  BY <1>1 DEF Wake, Wait
<1>2. CASE ReadMagic(w) \/ ReadReady(w) \/ ReadRegion(w) \/ ReadState(w) \/ ReadGeneration(w)
  BY <1>2 DEF ReadMagic, ReadReady, ReadRegion, ReadState, ReadGeneration, Looks
<1>3. CASE Register(w) \/ SendEvent(w) \/ Take(w)
  BY <1>3 DEF Register, SendEvent, Take
<1>4. CASE Run(w) \/ ReadTask(w) \/ WriteStatus(w) \/ Finish(w)
  BY <1>4 DEF Run, ReadTask, WriteStatus, Finish, WriteState
<1>5. CASE Compute(w)
  BY <1>5 DEF Compute
<1> QED BY <1>1, <1>2, <1>3, <1>4, <1>5 DEF WorkerMoves, WorkerStep

-----------------------------------------------------------------------------
(* Types are kept *)

\* The controller's part of the types.
LEMMA ControlKept == TypeInv /\ [Next]_vars => ControlRight'
<1> SUFFICES ASSUME TypeInv, [Next]_vars PROVE ControlRight'
  OBVIOUS
<1> USE WorkersAssumption, GenerationAssumption DEF TypeInv, TypeOK, ControlRight, Worker,
      BootCells, CommandCells
<1>1. CASE UNCHANGED vars
  BY <1>1 DEF vars, controllerVars
<1>2. CASE Stop \/ Invalidate \/ StartController
  BY <1>2 DEF Stop, Invalidate, StartController, controllerVars, NoCommand
<1>3. CASE BootStep
  <2>1. UNCHANGED <<session, generation, command>>
    BY <1>3, BootFrame
  <2> QED BY <1>3, <2>1 DEF BootStep, Clear, ClearReady, ClearTasks, WriteMagic,
    WriteRegion, WriteReady, SignalBoot, ScanReady, AllRegistered, BootTimesOut,
    ControllerAt
<1>4. CASE CommandStep
  <2>1. UNCHANGED session
    BY <1>4, CommandFrame
  <2>2. CASE Begin
    BY <2>1, <2>2 DEF Begin, ControllerAt, NextGeneration, Command, NoCommand
  <2>3. CASE ~Begin
    BY <1>4, <2>1, <2>3 DEF CommandStep, ClearTask, FillTask, Publish, Signal, OwnPart,
      ScanTask, EndOfScan, TimesOut, WriteTask, ControllerAt, Answers
  <2> QED BY <2>2, <2>3
<1>5. ASSUME NEW w \in Worker, StartWorker(w) \/ WorkerMoves(w) PROVE ControlRight'
  BY <1>5, WorkerFrame DEF StartWorker, controllerVars
<1> QED BY <1>1, <1>2, <1>3, <1>4, <1>5, Steps

\* The workers' part of the types.
LEMMA WorkersKept == TypeInv /\ [Next]_vars => Workers'
<1> SUFFICES ASSUME TypeInv, [Next]_vars PROVE Workers'
  OBVIOUS
<1> USE GenerationAssumption DEF TypeInv, TypeOK, Workers
<1>1. CASE UNCHANGED vars
  BY <1>1 DEF vars, workerVars
<1>2. CASE Stop \/ Invalidate \/ StartController
  BY <1>2 DEF Stop, Invalidate, StartController, workerVars, NoJob, Job, Ops, Places
<1>3. CASE BootStep \/ CommandStep
  BY <1>3, BootFrame, CommandFrame DEF workerVars
<1>4. ASSUME NEW w \in Worker, StartWorker(w) PROVE Workers'
  BY <1>4 DEF StartWorker, Places, Boots
<1>5. ASSUME NEW w \in Worker, WorkerMoves(w) PROVE Workers'
  <2>0. wpc' \in [Worker -> Places]
    BY <1>5 DEF WorkerMoves, WorkerStep, Wake, Wait, ReadMagic, ReadReady, ReadRegion,
      ReadState, ReadGeneration, Looks, Register, SendEvent, Take, Run, ReadTask,
      Compute, WriteStatus, Finish, WriteState, WorkerAt, Places, Boots, Works
  <2>1. CASE Wake(w)
    BY <2>0, <2>1 DEF Wake, Local
  <2>2. CASE ReadMagic(w) \/ ReadReady(w) \/ ReadRegion(w) \/ ReadState(w) \/ ReadGeneration(w)
    BY <2>0, <2>2 DEF ReadMagic, ReadReady, ReadRegion, ReadState, ReadGeneration,
      Looks, Local
  <2>3. CASE Register(w) \/ SendEvent(w) \/ Take(w)
    BY <2>0, <2>3 DEF Register, SendEvent, Take, Local, Task
  <2>4. CASE ReadTask(w)
    BY <2>0, <2>4 DEF ReadTask, Task, Job, Ops
  <2>5. CASE Run(w) \/ WriteStatus(w) \/ Finish(w)
    BY <2>0, <2>5 DEF Run, WriteStatus, Finish, WriteState, Local
  <2>6. CASE Compute(w)
    BY <2>0, <2>6 DEF Compute, NoJob, Job, Ops
  <2> QED BY <1>5, <2>1, <2>2, <2>3, <2>4, <2>5, <2>6 DEF WorkerMoves, WorkerStep
<1> QED BY <1>1, <1>2, <1>3, <1>4, <1>5, Steps

\* The truth values, and the channels computed.
LEMMA FlagsKept == TypeInv /\ [Next]_vars => Flags'
<1> SUFFICES ASSUME TypeInv, [Next]_vars PROVE Flags'
  OBVIOUS
<1> USE DEF TypeInv, Flags
<1>1. CASE UNCHANGED vars
  BY <1>1 DEF vars, mailboxVars, historyVars
<1>2. CASE Stop \/ Invalidate \/ StartController
  BY <1>2 DEF Stop, Invalidate, StartController, mailboxVars, historyVars
<1>3. CASE BootStep
  BY <1>3, BootFrame DEF BootStep, Clear, ClearReady, ClearTasks, WriteMagic,
    WriteRegion, WriteReady, SignalBoot, ScanReady, AllRegistered, BootTimesOut,
    historyVars, mailboxVars
<1>4. CASE CommandStep /\ ~OwnPart
  BY <1>4, CommandFrame DEF CommandStep, Begin, ClearTask, FillTask, Publish, Signal,
    ScanTask, EndOfScan, TimesOut, WriteTask, Answers, historyVars
<1>5. CASE OwnPart
  <2>1. command \in Command
    BY <1>5 DEF OwnPart, ControlRight, CommandCells
  <2>2. PartRange(command, 0).begin \in Nat /\ PartRange(command, 0).end \in Nat
    BY <2>1, WorkersAssumption, PartWithin
  <2>3. PartRange(command, 0).begin .. PartRange(command, 0).end - 1 \subseteq Nat
    BY <2>2
  <2> QED BY <1>5, <2>3 DEF OwnPart, Answers, KeepsRunning
<1>6. ASSUME NEW w \in Worker, StartWorker(w) \/ WorkerMoves(w) PROVE Flags'
  <2>1. CASE StartWorker(w)
    BY <2>1 DEF StartWorker, mailboxVars, historyVars
  <2>2. CASE Compute(w)
    <3>1. job[w].begin \in Nat /\ job[w].end \in Nat
      BY DEF Workers, Job
    <3>2. job[w].begin .. job[w].end - 1 \subseteq Nat
      BY <3>1
    <3> QED BY <2>2, <3>2 DEF Compute, mailboxVars, KeepsWorking
  <2>3. CASE WorkerMoves(w) /\ ~Compute(w)
    <3>1. UNCHANGED <<magic, region, controller_ready, quiet, clean>>
      BY <2>3, WorkerFrame
    <3>2. UNCHANGED <<covered, broken>>
      BY <2>3 DEF WorkerMoves, WorkerStep, Wake, ReadMagic, ReadReady, ReadRegion,
        ReadState,
        ReadGeneration, Looks, Register, SendEvent, Take, Run, ReadTask, WriteStatus,
        Finish, WriteState
    <3> QED BY <3>1, <3>2
  <2> QED BY <1>6, <2>1, <2>2, <2>3
<1> QED BY <1>1, <1>2, <1>3, <1>4, <1>5, <1>6, Steps

\* The words of the mailbox, the counters and the answers.
LEMMA TypeOKKept == TypeInv /\ [Next]_vars => TypeOK'
<1> SUFFICES ASSUME TypeInv, [Next]_vars PROVE TypeOK'
  OBVIOUS
<1> USE WorkersAssumption, GenerationAssumption DEF TypeInv, TypeOK, ControlRight
<1>1. CASE UNCHANGED vars
  BY <1>1 DEF vars, mailboxVars, controllerVars, historyVars
<1>2. CASE Stop \/ Invalidate \/ StartController
  <2>1. CASE Stop
    BY <2>1 DEF Stop, mailboxVars, NoCommand
  <2>2. CASE Invalidate \/ StartController
    BY <2>2 DEF Invalidate, StartController, mailboxVars, controllerVars, historyVars
  <2> QED BY <1>2, <2>1, <2>2
<1>3. CASE BootStep
  <2>1. UNCHANGED <<generation, command, answer>>
    BY <1>3, BootFrame DEF historyVars
  <2>2. NoTask \in Task
    BY DEF NoTask, Task
  <2>3. CASE Clear \/ ClearReady \/ WriteMagic \/ WriteRegion \/ WriteReady
    BY <2>1, <2>3 DEF Clear, ClearReady, WriteMagic, WriteRegion, WriteReady
  <2>4. CASE ClearTasks
    BY <2>1, <2>2, <2>4 DEF ClearTasks
  <2>5. CASE SignalBoot
    BY <2>1, <2>5 DEF SignalBoot, sev, mailboxVars
  <2>6. CASE ScanReady
    BY <2>1, <2>6 DEF ScanReady, mailboxVars
  <2>7. CASE AllRegistered \/ BootTimesOut
    BY <2>1, <2>7 DEF AllRegistered, BootTimesOut, mailboxVars
  <2> QED BY <1>3, <2>3, <2>4, <2>5, <2>6, <2>7 DEF BootStep
<1>4. CASE CommandStep
  <2>1. UNCHANGED worker_ready
    BY <1>4, CommandFrame
  <2>2. CASE Begin
    BY <2>1, <2>2 DEF Begin, NextGeneration
  <2>3. CASE ClearTask \/ FillTask \/ Publish
    <3> USE DEF ClearTask, FillTask, Publish, WriteTask, ControllerAt
    <3>1. command \in Command /\ index \in Worker
      BY <2>3 DEF CommandCells
    <3> DEFINE range == PartRange(command, index)
    <3>2. range.begin \in Nat /\ range.end \in Nat
      BY <3>1, PartWithin DEF Worker
    <3>3. command.op \in {"pool", "conv"}
      BY <3>1 DEF Command
    <3>4. tasks' \in [Worker -> Task]
      <4>1. CASE ClearTask
        BY <4>1 DEF NoTask, Task
      <4>2. CASE FillTask
        BY <4>2, <3>1, <3>2, <3>3 DEF NoTask, Task
      <4>3. CASE Publish
        BY <4>3, <3>1 DEF Task
      <4> QED BY <2>3, <4>1, <4>2, <4>3
    <3> QED BY <2>1, <2>3, <3>1, <3>4 DEF historyVars, Worker
  <2>4. CASE Signal
    BY <2>1, <2>4 DEF Signal, sev, historyVars
  <2>5. CASE OwnPart
    BY <2>1, <2>5 DEF OwnPart, Answers
  <2>6. CASE EndOfScan \/ TimesOut
    BY <2>1, <2>6 DEF EndOfScan, TimesOut, Answers
  <2>7. CASE ScanTask
    <3>1. index \in Worker => tasks[index].status \in {"OK", "ERROR"}
      BY DEF Task
    <3> QED BY <2>1, <2>7, <3>1 DEF ScanTask, Answers, Worker
  <2> QED BY <1>4, <2>2, <2>3, <2>4, <2>5, <2>6, <2>7 DEF CommandStep
<1>5. ASSUME NEW w \in Worker, StartWorker(w) PROVE TypeOK'
  BY <1>5 DEF StartWorker, mailboxVars, controllerVars, historyVars
<1>6. ASSUME NEW w \in Worker, WorkerMoves(w) PROVE TypeOK'
  <2>1. UNCHANGED <<index, complete, generation, command, answer>>
    BY <1>6, WorkerFrame DEF controllerVars
  <2>2. CASE Wake(w) \/ ReadMagic(w) \/ ReadReady(w) \/ ReadRegion(w) \/ ReadState(w)
             \/ ReadGeneration(w) \/ Take(w) \/ ReadTask(w) \/ Compute(w) \/ SendEvent(w)
    BY <2>1, <2>2 DEF Wake, ReadMagic, ReadReady, ReadRegion, ReadState, ReadGeneration,
      Looks, Take, ReadTask, Compute, SendEvent, sev, mailboxVars
  <2>3. CASE Register(w)
    BY <2>1, <2>3 DEF Register
  <2>4. CASE Run(w) \/ WriteStatus(w) \/ Finish(w)
    <3>1. tasks' \in [Worker -> Task]
      <4>1. CASE Run(w)
        BY <4>1 DEF Run, WriteState, Task
      <4>2. CASE WriteStatus(w)
        <5>1. rc[w] \in {"OK", "ERROR"}
          BY DEF Workers
        <5> QED BY <4>2, <5>1 DEF WriteStatus, Task
      <4>3. CASE Finish(w)
        BY <4>3 DEF Finish, WriteState, Task
      <4> QED BY <2>4, <4>1, <4>2, <4>3
    <3> QED BY <2>1, <2>4, <3>1 DEF Run, WriteStatus, Finish, WriteState
  <2> QED BY <1>6, <2>2, <2>3, <2>4 DEF WorkerMoves, WorkerStep
<1> QED BY <1>1, <1>2, <1>3, <1>4, <1>5, <1>6, Steps

\* Every state is of its types.
LEMMA TypesHold == Spec => []TypeInv
<1>1. Init => TypeInv
  <2> USE WorkersAssumption, GenerationAssumption DEF Init
  <2>1. Init => TypeOK
    BY DEF TypeOK, NoTask, Task, NoCommand
  <2>2. Init => ControlRight
    BY DEF ControlRight, BootCells, CommandCells
  <2>3. Init => Workers
    BY DEF Workers, NoJob, Job, Ops, Places
  <2>4. Init => Flags
    BY DEF Flags
  <2> QED BY <2>1, <2>2, <2>3, <2>4 DEF TypeInv
<1>2. TypeInv /\ [Next]_vars => TypeInv'
  BY TypeOKKept, ControlKept, WorkersKept, FlagsKept DEF TypeInv
<1> QED BY <1>1, <1>2, PTL DEF Spec

-----------------------------------------------------------------------------
(* The boot *)

\* The boot runs from its own places to its end.
LEMMA BootRuns ==
  BootStep => cpc \in BootCells /\ cpc' \in BootCells \cup {"idle"}
BY DEF BootStep, Clear, ClearReady, ClearTasks, WriteMagic, WriteRegion, WriteReady,
  SignalBoot, ScanReady, AllRegistered, BootTimesOut, ControllerAt, BootCells

\* A command runs from idle to idle.
LEMMA CommandRuns ==
  CommandStep => cpc \in {"idle"} \cup CommandCells /\ cpc' \in {"idle"} \cup CommandCells
BY DEF CommandStep, Begin, ClearTask, FillTask, Publish, Signal, OwnPart, ScanTask,
  EndOfScan, TimesOut, WriteTask, Answers, ControllerAt, CommandCells

\* The controller is off unless the session runs, and so are the workers before.
LEMMA SessionsKept == TypeInv /\ BootInv /\ [Next]_vars => Sessions'
<1> SUFFICES ASSUME TypeInv, BootInv, [Next]_vars PROVE Sessions'
  OBVIOUS
<1> USE DEF BootInv, Sessions, BootCells
<1>1. CASE UNCHANGED vars
  BY <1>1 DEF vars, controllerVars, workerVars, historyVars
<1>2. CASE Stop \/ Invalidate \/ StartController
  BY <1>2 DEF Stop, Invalidate, StartController, controllerVars, workerVars, historyVars
<1>3. CASE BootStep
  <2>1. UNCHANGED <<session, generation, wpc, answer, quiet, clean>>
    BY <1>3, BootFrame DEF workerVars, historyVars
  <2> QED
    BY <1>3, <2>1 DEF BootStep, Clear, ClearReady, ClearTasks, WriteMagic, WriteRegion,
      WriteReady, SignalBoot, ScanReady, AllRegistered, BootTimesOut, ControllerAt
<1>4. CASE CommandStep
  <2>1. UNCHANGED <<session, wpc>>
    BY <1>4, CommandFrame DEF workerVars
  <2>2. cpc \in {"idle"} \cup CommandCells /\ cpc' \in {"idle"} \cup CommandCells
    BY <1>4, CommandRuns
  <2>3. generation' # 0
    <3>1. CASE Begin
      BY <3>1, GenerationAssumption DEF Begin, NextGeneration, TypeInv, TypeOK
    <3>2. CASE ~Begin
      BY <1>4, <3>2 DEF CommandStep, ClearTask, FillTask, Publish, Signal, OwnPart,
        ScanTask, EndOfScan, TimesOut, WriteTask, ControllerAt, CommandCells,
        TypeInv, ControlRight
    <3> QED BY <3>1, <3>2
  <2> QED BY <2>1, <2>2, <2>3 DEF CommandCells
<1>5. ASSUME NEW w \in Worker, StartWorker(w) PROVE Sessions'
  BY <1>5 DEF StartWorker, controllerVars, historyVars
<1>6. ASSUME NEW w \in Worker, WorkerMoves(w) PROVE Sessions'
  <2>1. UNCHANGED <<session, cpc, generation, answer, quiet, clean>>
    BY <1>6, WorkerFrame DEF controllerVars
  <2>2. wpc[w] # "off" /\ wpc'[w] # "off" /\ wpc' = [wpc EXCEPT ![w] = wpc'[w]]
    BY <1>6, WorkerFrame
  <2>3. \A v \in Worker : wpc'[v] = "off" <=> wpc[v] = "off"
    BY <2>2 DEF TypeInv, Workers
  <2> QED BY <2>1, <2>3
<1> QED BY <1>1, <1>2, <1>3, <1>4, <1>5, <1>6, Steps

\* The words of the mailbox follow the place of the controller.
LEMMA MailboxKept == TypeInv /\ BootInv /\ [Next]_vars => Mailbox'
<1> SUFFICES ASSUME TypeInv, BootInv, [Next]_vars PROVE Mailbox'
  OBVIOUS
<1> USE DEF BootInv, Sessions, Mailbox, TypeInv, Flags
<1>1. CASE UNCHANGED vars
  BY <1>1 DEF vars, mailboxVars, controllerVars
<1>2. CASE Stop \/ Invalidate \/ StartController
  BY <1>2 DEF Stop, Invalidate, StartController, controllerVars, mailboxVars
<1>3. CASE BootStep
  <2>1. UNCHANGED session
    BY <1>3, BootFrame
  <2> QED
    BY <1>3, <2>1 DEF BootStep, Clear, ClearReady, ClearTasks, WriteMagic, WriteRegion,
      WriteReady, SignalBoot, ScanReady, AllRegistered, BootTimesOut, ControllerAt,
      mailboxVars
<1>4. CASE CommandStep
  <2>1. UNCHANGED <<session, magic, region, controller_ready>>
    BY <1>4, CommandFrame
  <2>2. cpc \in {"idle"} \cup CommandCells /\ cpc' \in {"idle"} \cup CommandCells
    BY <1>4, CommandRuns
  <2> QED BY <2>1, <2>2 DEF CommandCells
<1>5. ASSUME NEW w \in Worker, StartWorker(w) PROVE Mailbox'
  BY <1>5 DEF StartWorker, controllerVars, mailboxVars
<1>6. ASSUME NEW w \in Worker, WorkerMoves(w) PROVE Mailbox'
  BY <1>6, WorkerFrame DEF controllerVars
<1> QED BY <1>1, <1>2, <1>3, <1>4, <1>5, <1>6, Steps

\* No worker is ahead of the mailbox, and its ready word says where it is.
LEMMA WorkersBoot == TypeInv /\ BootInv /\ [Next]_vars => \A u \in Worker : Boot(u)'
<1> SUFFICES ASSUME TypeInv, BootInv, [Next]_vars, NEW u \in Worker PROVE Boot(u)'
  OBVIOUS
<1>0. /\ TypeInv /\ TypeOK /\ ControlRight /\ Flags /\ Workers
      /\ Sessions /\ Mailbox /\ Boot(u) /\ Fresh(u)
  BY DEF BootInv, TypeInv
<1> USE DEF Boot
<1>1. CASE UNCHANGED vars
  BY <1>0, <1>1 DEF vars, mailboxVars, controllerVars, workerVars
<1>2. CASE Stop
  BY <1>2 DEF Stop, CommandCells, Works
<1>3. CASE Invalidate \/ StartController
  BY <1>0, <1>3 DEF Invalidate, StartController, controllerVars, mailboxVars,
    workerVars,
    Sessions, Works, CommandCells
<1>4. CASE BootStep
  <2>1. UNCHANGED wpc
    BY <1>4, BootFrame DEF workerVars
  <2>2. session = "running"
    BY <1>0, <1>4, BootRuns DEF Sessions, BootCells
  <2>3. CASE Clear \/ ClearTasks \/ WriteMagic \/ WriteRegion \/ WriteReady
    BY <1>0, <2>1, <2>3, <2>2 DEF Clear, ClearTasks, WriteMagic, WriteRegion,
      WriteReady,
      ControllerAt, Mailbox, CommandCells
  <2>4. CASE ClearReady
    BY <1>0, <2>1, <2>4, <2>2 DEF ClearReady, ControllerAt, Mailbox, CommandCells, Works
  <2>5. CASE SignalBoot
    BY <1>0, <2>1, <2>5, <2>2 DEF SignalBoot, ControllerAt, mailboxVars, CommandCells,
      sev, Worker
  <2>6. CASE ScanReady
    BY <1>0, <2>1, <2>6, <2>2 DEF ScanReady, mailboxVars, CommandCells, Worker,
      ControlRight, TypeOK
  <2>7. CASE AllRegistered
    BY <1>0, <2>1, <2>7, <2>2, WorkersAssumption DEF AllRegistered, mailboxVars,
      CommandCells, Worker
  <2>8. CASE BootTimesOut
    BY <1>0, <2>1, <2>8, <2>2 DEF BootTimesOut, mailboxVars, CommandCells
  <2> QED BY <1>4, <2>3, <2>4, <2>5, <2>6, <2>7, <2>8 DEF BootStep
<1>5. CASE CommandStep
  <2>1. UNCHANGED <<magic, controller_ready, worker_ready, wpc>>
    BY <1>5, CommandFrame DEF workerVars
  <2>2. cpc \in {"idle"} \cup CommandCells /\ cpc' \in {"idle"} \cup CommandCells
    BY <1>5, CommandRuns
  <2> QED BY <1>0, <2>1, <2>2 DEF CommandCells
<1>6. ASSUME NEW w \in Worker, StartWorker(w) PROVE Boot(u)'
  <2>1. session # "running" /\ cpc = "off"
    BY <1>0, <1>6 DEF StartWorker, Sessions
  <2>2. wpc'[u] = wpc[u] \/ wpc'[u] = "boot"
    BY <1>0, <1>6 DEF StartWorker, Workers
  <2> QED BY <1>0, <1>6, <2>1, <2>2 DEF StartWorker, controllerVars, mailboxVars,
    CommandCells,
    Boots, Works
<1>7. ASSUME NEW w \in Worker, WorkerMoves(w) PROVE Boot(u)'
  <2>1. /\ UNCHANGED <<session, magic, region, controller_ready, cpc, index, complete>>
        /\ wpc' = [wpc EXCEPT ![w] = wpc'[w]]
        /\ u # w => worker_ready'[u] = worker_ready[u]
    BY <1>7, WorkerFrame DEF controllerVars
  <2>2. CASE u # w
    <3>1. event[u] => event'[u]
      BY <1>0, <1>7, <2>2 DEF WorkerMoves, WorkerStep, Wake, ReadMagic, ReadReady,
        ReadRegion,
        ReadState, ReadGeneration, Looks, Register, SendEvent, sev, Take, Run, ReadTask,
        Compute, WriteStatus, Finish, WriteState, TypeOK
    <3>2. wpc'[u] = wpc[u] /\ worker_ready'[u] = worker_ready[u]
      BY <1>0, <2>1, <2>2 DEF Workers
    <3> QED BY <1>0, <2>1, <3>1, <3>2
  <2>3. CASE u = w
    <3>1. session # "stopped"
      BY <1>0, <1>7, <2>3, WorkerFrame DEF Sessions
    <3>2. CASE Wake(u)
      BY <1>0, <2>1, <3>1, <3>2 DEF Wake, Wait, WorkerAt, Boots, Works, mailboxVars,
        Workers, Mailbox, CommandCells
    <3>3. CASE ReadMagic(u) \/ ReadReady(u) \/ ReadRegion(u)
      BY <1>0, <2>1, <3>1, <3>3 DEF ReadMagic, ReadReady, ReadRegion, Looks,
        WorkerAt, Boots, Works,
        mailboxVars, Workers, Mailbox, CommandCells
    <3>4. CASE Register(u)
      BY <1>0, <2>1, <3>1, <3>4 DEF Register, WorkerAt, Boots, Works,
        Workers, Mailbox, CommandCells, TypeOK
    <3>5. CASE SendEvent(u) \/ ReadState(u) \/ ReadGeneration(u) \/ Take(u) \/ Run(u)
                 \/ ReadTask(u) \/ Compute(u) \/ WriteStatus(u) \/ Finish(u)
      <4>1. wpc'[u] \in Works /\ wpc[u] \in Works /\ UNCHANGED worker_ready
        BY <1>0, <3>5 DEF SendEvent, ReadState, ReadGeneration, Looks, Take, Run,
          ReadTask,
          Compute, WriteStatus, Finish, WriteState, WorkerAt, Boots, Works,
            mailboxVars, Workers
      <4> QED BY <1>0, <2>1, <4>1 DEF Works
    <3> QED BY <1>7, <2>3, <3>2, <3>3, <3>4, <3>5 DEF WorkerMoves, WorkerStep
  <2> QED BY <2>2, <2>3
<1> QED BY <1>1, <1>2, <1>3, <1>4, <1>5, <1>6, <1>7, Steps

\* Before the first command no worker finds a task.
LEMMA WorkersFresh == TypeInv /\ BootInv /\ [Next]_vars => \A u \in Worker : Fresh(u)'
<1> SUFFICES ASSUME TypeInv, BootInv, [Next]_vars, NEW u \in Worker PROVE Fresh(u)'
  OBVIOUS
<1>0. /\ TypeInv /\ TypeOK /\ ControlRight /\ Flags /\ Workers
      /\ Sessions /\ Mailbox /\ Boot(u) /\ Fresh(u)
  BY DEF BootInv, TypeInv
<1> USE DEF Fresh
<1>1. CASE UNCHANGED vars
  BY <1>0, <1>1 DEF vars, mailboxVars, controllerVars, workerVars
<1>2. CASE Stop \/ Invalidate \/ StartController
  BY <1>0, <1>2 DEF Stop, Invalidate, StartController, controllerVars, mailboxVars,
    workerVars, Sessions
<1>3. CASE BootStep
  <2>1. UNCHANGED <<session, generation, wpc, last_generation>>
    BY <1>3, BootFrame DEF workerVars
  <2> QED BY <1>0, <1>3, <2>1 DEF BootStep, Clear, ClearReady, ClearTasks,
    WriteMagic, WriteRegion, WriteReady,
      SignalBoot, ScanReady, AllRegistered, BootTimesOut, ControllerAt, mailboxVars
<1>4. CASE CommandStep
  <2>1. generation' # 0
    <3>1. CASE Begin
      BY <3>1, GenerationAssumption DEF Begin, NextGeneration, TypeInv, TypeOK
    <3>2. CASE ~Begin
      BY <1>4, <3>2 DEF CommandStep, ClearTask, FillTask, Publish, Signal, OwnPart,
        ScanTask, EndOfScan, TimesOut, WriteTask, ControllerAt, CommandCells,
        TypeInv, ControlRight
    <3> QED BY <3>1, <3>2
  <2> QED BY <2>1
<1>5. ASSUME NEW w \in Worker, StartWorker(w) PROVE Fresh(u)'
  <2>1. wpc'[u] = wpc[u] \/ wpc'[u] = "boot"
    BY <1>0, <1>5 DEF StartWorker, Workers
  <2> QED BY <1>0, <1>5, <2>1 DEF StartWorker, controllerVars, mailboxVars, Boots
<1>6. ASSUME NEW w \in Worker, WorkerMoves(w) PROVE Fresh(u)'
  <2> SUFFICES ASSUME generation = 0 PROVE Fresh(u)'
    BY <1>6, WorkerFrame DEF controllerVars
  <2>1. UNCHANGED <<session, cpc, generation>> /\ wpc' = [wpc EXCEPT ![w] = wpc'[w]]
    BY <1>6, WorkerFrame DEF controllerVars
  <2>2. CASE u # w
    <3>1. wpc'[u] = wpc[u] /\ tasks'[u] = tasks[u] /\ last_generation'[u] = last_generation[u]
      BY <1>0, <1>6, <2>2, WorkerFrame DEF Workers
    <3> QED BY <1>0, <2>1, <3>1
  <2>3. CASE u = w
    <3>1. session # "stopped"
      BY <1>0, <1>6, <2>3, WorkerFrame DEF Sessions
    <3>2. CASE Wake(u) \/ ReadMagic(u) \/ ReadReady(u) \/ ReadRegion(u)
      <4>1. wpc'[u] \in Boots \cup {"check"}
        <5>1. CASE ReadRegion(u)
          <6>1. region
            BY <1>0, <3>1, <5>1 DEF ReadRegion, Looks, WorkerAt, Boot, Mailbox
          <6> QED BY <1>0, <5>1, <6>1 DEF ReadRegion, Looks, WorkerAt, Boots, Workers
        <5> QED BY <1>0, <3>2, <5>1 DEF Wake, Wait, ReadMagic, ReadReady, Looks,
          WorkerAt, Boots, Workers
      <4>2. UNCHANGED <<tasks, last_generation>>
        BY <3>2 DEF Wake, ReadMagic, ReadReady, ReadRegion, Looks, mailboxVars, Local
      <4> QED BY <1>0, <2>1, <4>1, <4>2
    <3>3. CASE Register(u) \/ SendEvent(u)
      BY <1>0, <2>1, <3>3 DEF Register, SendEvent, WorkerAt, Boots, mailboxVars,
        Workers, Local
    <3>4. CASE ReadState(u)
      <4>1. tasks[u] = NoTask
        BY <1>0, <3>1, <3>4 DEF ReadState, Looks, WorkerAt, Works, Mailbox, Boot
      <4> QED BY <1>0, <2>1, <3>4, <4>1 DEF ReadState, Looks, WorkerAt, mailboxVars,
        Workers, Local,
        NoTask
    <3>5. ~ (ReadGeneration(u) \/ Take(u) \/ Run(u) \/ ReadTask(u) \/ Compute(u)
               \/ WriteStatus(u) \/ Finish(u))
      BY <1>0 DEF ReadGeneration, Looks, Take, Run, ReadTask, Compute,
        WriteStatus, Finish, WriteState, WorkerAt, Boots
    <3> QED BY <1>6, <2>3, <3>2, <3>3, <3>4, <3>5 DEF WorkerMoves, WorkerStep
  <2> QED BY <2>2, <2>3
<1> QED BY <1>1, <1>2, <1>3, <1>4, <1>5, <1>6, Steps

\* The invariant of the boot holds in every state.
LEMMA BootHolds == Spec => []BootInv
<1>1. Init => BootInv
  BY DEF Init, BootInv, Sessions, BootCells, Mailbox, Boot, Fresh, Works, CommandCells
<1>2. TypeInv /\ BootInv /\ [Next]_vars => BootInv'
  BY SessionsKept, MailboxKept, WorkersBoot, WorkersFresh DEF BootInv
<1> QED BY <1>1, <1>2, TypesHold, PTL DEF Spec

-----------------------------------------------------------------------------
(* The work of a quiet command *)

AtWork == {"idle"} \cup CommandCells

\* What keeps the work of one worker as it is: its words and its place stay,
\* while others may compute, refuse and send events.
LEMMA WorkStays ==
  ASSUME NEW u \in Worker, Work(u), Filled(u) => Words(u),
         UNCHANGED <<generation, command>>,
         tasks'[u] = tasks[u], wpc'[u] = wpc[u], last_generation'[u] = last_generation[u],
         job'[u] = job[u], rc'[u] = rc[u],
         event[u] => event'[u], covered \subseteq covered', broken => broken',
         Filled(u)' <=> Filled(u), Published(u)' <=> Published(u),
         cpc' \in {"own", "wait"} => cpc \in {"own", "wait"},
         cpc' = "fill_task" /\ u = index' => cpc = "fill_task" /\ u = index
  PROVE  Work(u)' /\ (Filled(u) => Words(u))'
<1>1. (Filled(u) => Words(u))'
  BY DEF Words
<1>2. CASE ~Published(u)
  <2>1. Unpublished(u)'
    BY <1>2 DEF Work, Unpublished
  <2> QED BY <1>1, <1>2, <2>1 DEF Work
<1>3. CASE Published(u)
  <2>1. OwnRange(u)' = OwnRange(u)
    BY DEF OwnRange
  <2>2. Ready(u) => Ready(u)'
    BY DEF Ready
  <2>3. Running(u) => Running(u)'
    BY <2>1 DEF Running
  <2>4. Ended(u) => Ended(u)'
    BY <2>1 DEF Ended
  <2> QED BY <1>1, <1>3, <2>2, <2>3, <2>4 DEF Work
<1> QED BY <1>2, <1>3

\* While a quiet command is worked on, a worker's steps follow its task.
LEMMA OwnWork ==
  ASSUME TypeInv, BootInv, NEW w \in Worker, cpc \in AtWork, WorkerMoves(w),
         quiet, generation # 0, Work(w), Filled(w) => Words(w)
  PROVE  Work(w)' /\ (Filled(w) => Words(w))'
<1>0. /\ TypeOK /\ Workers /\ wpc[w] \in Works
  BY DEF TypeInv, BootInv, Boot, AtWork
<1>1. UNCHANGED <<cpc, index, generation, command, quiet>>
  BY WorkerFrame DEF controllerVars
<1>2. Filled(w)' = Filled(w) /\ Published(w)' = Published(w)
  BY <1>1 DEF Filled, Published
<1>3. OwnRange(w)' = OwnRange(w)
  BY <1>1 DEF OwnRange
<1>4. CASE Wake(w)
  <2>1. /\ wpc[w] = "wait" /\ wpc'[w] = "check"
        /\ UNCHANGED <<tasks, last_generation, job, rc, covered, broken>>
    BY <1>0, <1>4 DEF Wake, Wait, WorkerAt, Workers, Works, mailboxVars, Local
  <2>2. Unpublished(w) => Unpublished(w)'
    BY <1>1, <1>2, <2>1 DEF Unpublished, Resting
  <2>3. Ready(w) => Ready(w)'
    BY <1>1, <2>1 DEF Ready, Resting
  <2>4. ~ Running(w)
    BY <2>1 DEF Running
  <2>5. Ended(w) => Ended(w)'
    BY <1>1, <1>3, <2>1 DEF Ended
  <2> QED BY <1>1, <1>2, <2>1, <2>2, <2>3, <2>4, <2>5 DEF Work, Words
<1>5. CASE SendEvent(w)
  <2>1. /\ wpc[w] \in {"boot_sev", "sev"} /\ wpc'[w] = "check"
        /\ UNCHANGED <<tasks, last_generation, job, rc, covered, broken>>
    BY <1>0, <1>5 DEF SendEvent, WorkerAt, Workers, Works, mailboxVars, Local
  <2>2. Unpublished(w) => Unpublished(w)'
    BY <1>1, <1>2, <2>1 DEF Unpublished, Resting
  <2>3. Ready(w) => Ready(w)'
    BY <1>1, <2>1 DEF Ready, Resting
  <2>4. ~ Running(w)
    BY <2>1 DEF Running
  <2>5. Ended(w) => Ended(w)'
    BY <1>1, <1>3, <2>1 DEF Ended
  <2> QED BY <1>1, <1>2, <2>1, <2>2, <2>3, <2>4, <2>5 DEF Work, Words
<1>6. CASE ReadState(w)
  <2>1. /\ wpc[w] = "check"
        /\ wpc'[w] = IF tasks[w].state = "READY" THEN "check_generation" ELSE "wait"
        /\ UNCHANGED <<tasks, last_generation, job, rc, covered, broken>>
    BY <1>0, <1>6 DEF ReadState, Looks, WorkerAt, Workers, mailboxVars, Local
  <2>2. Unpublished(w) => Unpublished(w)'
    BY <1>1, <1>2, <2>1 DEF Unpublished, Resting
  <2>3. Ready(w) /\ tasks[w].state = "READY" => Ready(w)'
    BY <1>1, <2>1 DEF Ready, Resting
  <2>4. ~ Running(w)
    BY <2>1 DEF Running
  <2>5. Ended(w) /\ tasks[w].state # "READY" => Ended(w)'
    BY <1>1, <1>3, <2>1 DEF Ended
  <2> QED BY <1>1, <1>2, <2>1, <2>2, <2>3, <2>4, <2>5 DEF Work, Words
<1>7. CASE ReadGeneration(w) \/ Take(w)
  <2>1. /\ wpc[w] \in {"check_generation", "take"}
        /\ UNCHANGED <<tasks, job, rc, covered, broken>>
    BY <1>7 DEF ReadGeneration, Looks, Take, WorkerAt, mailboxVars, Local
  <2>2. Published(w) /\ tasks[w].state = "READY" /\ Ready(w) /\ Words(w)
    BY <2>1 DEF Work, Unpublished, Running, Ended, Resting, Filled, Published
  <2>3. Ready(w)'
    <3>1. CASE ReadGeneration(w)
      BY <1>0, <1>1, <2>2, <3>1 DEF ReadGeneration, Looks, WorkerAt, Workers, Local,
        Ready, Words, Resting
    <3>2. CASE Take(w)
      BY <1>0, <1>1, <2>2, <3>2 DEF Take, WorkerAt, Workers, Ready, Words, Resting
    <3> QED BY <1>7, <3>1, <3>2
  <2> QED BY <1>1, <1>2, <2>1, <2>2, <2>3 DEF Work, Words
<1>8. CASE Run(w)
  <2>1. /\ wpc[w] = "run" /\ wpc'[w] = "read_task"
        /\ tasks' = [tasks EXCEPT ![w].state = "RUNNING"]
        /\ UNCHANGED <<last_generation, job, rc, covered, broken>>
    BY <1>0, <1>8 DEF Run, WriteState, WorkerAt, Workers
  <2>2. Published(w) /\ tasks[w].state = "READY" /\ Ready(w) /\ Words(w)
    BY <2>1 DEF Work, Unpublished, Running, Ended, Resting, Filled, Published
  <2>3. tasks'[w] = [tasks[w] EXCEPT !.state = "RUNNING"] /\ tasks[w] \in Task
    BY <1>0, <2>1 DEF TypeOK
  <2>4. Running(w)'
    BY <1>1, <2>1, <2>2 DEF Running, Ready
  <2>5. Words(w)'
    BY <1>1, <2>2, <2>3 DEF Words, Task
  <2>6. tasks'[w].state = "RUNNING"
    BY <2>3 DEF Task
  <2> QED BY <1>2, <2>2, <2>4, <2>5, <2>6 DEF Work
<1>9. CASE ReadTask(w)
  <2>1. /\ wpc[w] = "read_task" /\ wpc'[w] = "compute"
        /\ job'[w] = [op |-> tasks[w].op, generation |-> tasks[w].generation,
                      begin |-> tasks[w].begin, end |-> tasks[w].end]
        /\ UNCHANGED <<tasks, last_generation, rc, covered, broken>>
    BY <1>0, <1>9 DEF ReadTask, WorkerAt, Workers, mailboxVars
  <2>2. Published(w) /\ tasks[w].state = "RUNNING" /\ Running(w) /\ Words(w)
    BY <2>1 DEF Work, Unpublished, Ready, Ended, Resting, Filled, Published
  <2>4. Running(w)'
    BY <1>1, <2>1, <2>2 DEF Running
  <2> QED BY <1>1, <1>2, <2>1, <2>2, <2>4 DEF Work, Words
<1>10. CASE Compute(w)
  <2>1. /\ wpc[w] = "compute" /\ wpc'[w] = "status"
        /\ UNCHANGED <<tasks, last_generation>>
    BY <1>0, <1>10 DEF Compute, WorkerAt, Workers, mailboxVars
  <2>2. Published(w) /\ tasks[w].state = "RUNNING" /\ Running(w) /\ Words(w)
    BY <2>1 DEF Work, Unpublished, Ready, Ended, Resting, Filled, Published
  <2>3. job[w].generation = generation /\ job[w].begin .. job[w].end - 1 = OwnRange(w)
    BY <2>1, <2>2 DEF Running, Words, OwnRange
  <2>4. \/ rc'[w] = "OK" /\ OwnRange(w) \subseteq covered'
        \/ rc'[w] = "ERROR" /\ broken'
    BY <1>0, <1>10, <2>3 DEF Compute, Workers
  <2>5. Running(w)'
    BY <1>1, <1>3, <2>1, <2>2, <2>4 DEF Running
  <2> QED BY <1>1, <1>2, <2>1, <2>2, <2>5 DEF Work, Words
<1>11. CASE WriteStatus(w)
  <2>1. /\ wpc[w] = "status" /\ wpc'[w] = "finish"
        /\ tasks' = [tasks EXCEPT ![w].status = rc[w]]
        /\ UNCHANGED <<last_generation, job, rc, covered, broken>>
    BY <1>0, <1>11 DEF WriteStatus, WorkerAt, Workers, Local
  <2>2. Published(w) /\ tasks[w].state = "RUNNING" /\ Running(w) /\ Words(w)
    BY <2>1 DEF Work, Unpublished, Ready, Ended, Resting, Filled, Published
  <2>3. tasks'[w] = [tasks[w] EXCEPT !.status = rc[w]] /\ tasks[w] \in Task
    BY <1>0, <2>1 DEF TypeOK
  <2>4. tasks'[w].status = rc[w] /\ tasks'[w].state = "RUNNING"
    BY <2>2, <2>3 DEF Task
  <2>5. Running(w)'
    BY <1>1, <1>3, <2>1, <2>2, <2>4 DEF Running
  <2>6. Words(w)'
    BY <1>1, <2>2, <2>3 DEF Words, Task
  <2> QED BY <1>2, <2>2, <2>4, <2>5, <2>6 DEF Work
<1>12. CASE Finish(w)
  <2>1. /\ wpc[w] = "finish" /\ wpc'[w] = "sev"
        /\ tasks' = [tasks EXCEPT ![w].state = IF rc[w] = "OK" THEN "DONE" ELSE "ERROR"]
        /\ UNCHANGED <<last_generation, job, covered, broken>>
    BY <1>0, <1>12 DEF Finish, WriteState, WorkerAt, Workers
  <2>2. Published(w) /\ tasks[w].state = "RUNNING" /\ Running(w) /\ Words(w)
    BY <2>1 DEF Work, Unpublished, Ready, Ended, Resting, Filled, Published
  <2>3. /\ tasks'[w] = [tasks[w] EXCEPT !.state = IF rc[w] = "OK" THEN "DONE" ELSE "ERROR"]
        /\ tasks[w] \in Task /\ rc[w] \in {"OK", "ERROR"}
    BY <1>0, <2>1 DEF TypeOK, Workers
  <2>4. /\ tasks'[w].status = rc[w]
        /\ tasks'[w].state = IF rc[w] = "OK" THEN "DONE" ELSE "ERROR"
    BY <2>1, <2>2, <2>3 DEF Task, Running
  <2>5. Ended(w)'
    BY <1>1, <1>3, <2>1, <2>2, <2>3, <2>4 DEF Running, Ended
  <2>6. Words(w)'
    BY <1>1, <2>2, <2>3 DEF Words, Task
  <2> QED BY <1>2, <2>2, <2>3, <2>4, <2>5, <2>6 DEF Work
<1>13. ~ (ReadMagic(w) \/ ReadReady(w) \/ ReadRegion(w) \/ Register(w))
  BY <1>0 DEF ReadMagic, ReadReady, ReadRegion, Looks, Register, WorkerAt, Works
<1> QED
  BY <1>4, <1>5, <1>6, <1>7, <1>8, <1>9, <1>10, <1>11, <1>12, <1>13
    DEF WorkerMoves, WorkerStep

\* The controller's steps after Begin.
LEMMA CommandWork ==
  ASSUME TypeInv, NEW u \in Worker, CommandStep, ~Begin,
         quiet, generation # 0, Work(u), Filled(u) => Words(u)
  PROVE  Work(u)' /\ (Filled(u) => Words(u))'
<1>0. TypeOK /\ ControlRight /\ Workers /\ u \in 1 .. WORKERS
  BY DEF TypeInv, Worker
<1>1. UNCHANGED <<generation, command, wpc, last_generation, job, rc, quiet>>
  BY CommandFrame DEF workerVars, CommandStep, ClearTask, FillTask, Publish, Signal,
    OwnPart, ScanTask, EndOfScan, TimesOut, WriteTask, historyVars
<1> USE WorkersAssumption
<1>2. CASE ClearTask
  <2>1. /\ cpc = "clear_task" /\ cpc' = "fill_task" /\ index \in Worker
        /\ tasks' = [tasks EXCEPT ![index] = NoTask] /\ UNCHANGED <<index, event, covered, broken>>
    BY <1>0, <1>2 DEF ClearTask, WriteTask, ControllerAt, ControlRight, historyVars
  <2>2. Unpublished(u) /\ ~Published(u) /\ ~Published(u)'
    BY <2>1 DEF Work, Published
  <2>3. CASE u = index
    <3>1. tasks'[u] = NoTask
      BY <1>0, <2>1, <2>3 DEF TypeOK
    <3>2. ~Filled(u)'
      BY <1>0, <2>1, <2>3 DEF Filled, Worker
    <3> QED BY <1>1, <2>2, <3>1, <3>2 DEF Work, Unpublished, NoTask
  <2>4. CASE u # index
    <3>1. tasks'[u] = tasks[u]
      BY <1>0, <2>1, <2>4 DEF TypeOK
    <3>2. Filled(u)' <=> Filled(u)
      BY <2>1 DEF Filled
    <3> QED BY <1>1, <2>1, <2>2, <2>4, <3>1, <3>2 DEF Work, Unpublished, Words
  <2> QED BY <2>3, <2>4
<1>3. CASE FillTask
  <2> DEFINE filled == [NoTask EXCEPT !.generation = generation, !.op = command.op,
                          !.begin = PartRange(command, index).begin,
                          !.end = PartRange(command, index).end,
                          !.state = tasks[index].state, !.status = tasks[index].status]
  <2>1. /\ cpc = "fill_task" /\ index \in Worker
        /\ cpc' = IF index = WORKERS THEN "publish" ELSE "clear_task"
        /\ index' = IF index = WORKERS THEN 1 ELSE index + 1
        /\ tasks' = [tasks EXCEPT ![index] = filled]
    BY <1>0, <1>3 DEF FillTask, WriteTask, ControllerAt, ControlRight
  <2>2. Unpublished(u) /\ ~Published(u) /\ ~Published(u)'
    BY <1>0, <2>1 DEF Work, Published
  <2>3. CASE u = index
    <3>1. tasks[u] = NoTask
      BY <2>1, <2>2, <2>3 DEF Unpublished
    <3>2. tasks'[u] = filled
      BY <1>0, <2>1, <2>3 DEF TypeOK
    <3>3. /\ filled.generation = generation /\ filled.op = command.op
          /\ filled.begin = PartRange(command, u).begin
          /\ filled.end = PartRange(command, u).end
          /\ filled.state = "IDLE" /\ filled.status = "OK"
      <4>1. tasks[index].state = "IDLE" /\ tasks[index].status = "OK"
        BY <2>3, <3>1 DEF NoTask
      <4> QED BY <2>3, <4>1 DEF NoTask
    <3> HIDE DEF filled
    <3>4. Words(u)'
      BY <1>1, <3>2, <3>3 DEF Words
    <3>5. Unpublished(u)'
      BY <1>1, <2>1, <2>2, <3>2, <3>3 DEF Unpublished
    <3> QED BY <2>2, <3>4, <3>5 DEF Work
  <2>4. CASE u # index
    <3> HIDE DEF filled
    <3>1. tasks'[u] = tasks[u]
      BY <1>0, <2>1, <2>4 DEF TypeOK
    <3>2. Filled(u)' <=> Filled(u)
      BY <1>0, <2>1, <2>4 DEF Filled, Worker
    <3>3. cpc' # "fill_task"
      BY <2>1
    <3> QED BY <1>1, <2>2, <3>1, <3>2, <3>3 DEF Work, Unpublished, Words
  <2> QED BY <2>3, <2>4
<1>4. CASE Publish
  <2>1. /\ cpc = "publish" /\ index \in Worker
        /\ cpc' = IF index = WORKERS THEN "sev" ELSE "publish"
        /\ index' = IF index = WORKERS THEN 1 ELSE index + 1
        /\ tasks' = [tasks EXCEPT ![index] = [tasks[index] EXCEPT !.state = "READY"]]
        /\ UNCHANGED <<event, covered, broken>>
    BY <1>0, <1>4 DEF Publish, WriteTask, ControllerAt, ControlRight, historyVars
  <2>2. Filled(u) /\ Filled(u)'
    BY <2>1 DEF Filled
  <2>3. CASE u = index
    <3>1. Unpublished(u)
      BY <1>0, <2>1, <2>3 DEF Work, Published
    <3>2. tasks'[u] = [tasks[u] EXCEPT !.state = "READY"] /\ tasks[u] \in Task
      BY <1>0, <2>1, <2>3 DEF TypeOK
    <3>3. Words(u)'
      BY <1>1, <2>2, <3>2 DEF Words, Task
    <3>4. tasks'[u].state = "READY"
      BY <3>2 DEF Task
    <3>5. Ready(u)'
      BY <1>1, <2>1, <3>1 DEF Ready, Unpublished, Resting
    <3>6. Published(u)'
      BY <1>0, <2>1, <2>3 DEF Published
    <3> QED BY <3>3, <3>4, <3>5, <3>6 DEF Work
  <2>4. CASE u # index
    <3>1. tasks'[u] = tasks[u]
      BY <1>0, <2>1, <2>4 DEF TypeOK
    <3>2. Published(u)' <=> Published(u)
      BY <1>0, <2>1, <2>4 DEF Published, Worker
    <3>3. cpc' \notin {"own", "wait", "fill_task"}
      BY <2>1
    <3> QED BY <1>1, <2>1, <2>2, <3>1, <3>2, <3>3, WorkStays
  <2> QED BY <2>3, <2>4
<1>5. CASE Signal
  <2>1. /\ cpc = "sev" /\ cpc' = "own" /\ event' = [w \in Worker |-> TRUE]
        /\ UNCHANGED <<tasks, covered, broken>>
    BY <1>5 DEF Signal, ControllerAt, sev, historyVars
  <2>2. Published(u) /\ Published(u)' /\ Filled(u) /\ Filled(u)'
    BY <2>1 DEF Published, Filled
  <2>3. Ready(u) => Ready(u)'
    BY <1>1, <2>1 DEF Ready
  <2>4. (Running(u) => Running(u)') /\ (Ended(u) => Ended(u)')
    BY <1>1, <2>1 DEF Running, Ended, OwnRange
  <2> QED BY <1>1, <2>1, <2>2, <2>3, <2>4 DEF Work, Words
<1>6. CASE OwnPart \/ ScanTask \/ EndOfScan \/ TimesOut
  <2>1. /\ cpc \in {"own", "wait"} /\ cpc' \in {"wait", "idle"}
        /\ UNCHANGED <<tasks, event>> /\ covered \subseteq covered' /\ (broken => broken')
    <3>1. /\ cpc \in {"own", "wait"} /\ cpc' \in {"wait", "idle"}
          /\ UNCHANGED <<tasks, event>> /\ covered \subseteq covered'
      BY <1>6 DEF OwnPart, ScanTask, EndOfScan, TimesOut, Answers
    <3>2. broken => broken'
      BY <1>6 DEF OwnPart, ScanTask, EndOfScan, TimesOut
    <3> QED BY <3>1, <3>2
  <2>2. Published(u) /\ Published(u)' /\ Filled(u) /\ Filled(u)'
    BY <2>1 DEF Published, Filled
  <2> QED BY <1>1, <2>1, <2>2, WorkStays
<1> QED BY <1>2, <1>3, <1>4, <1>5, <1>6 DEF CommandStep

\* The controller counts as done what is done, and answers by it.
LEMMA CommandCoverage ==
  ASSUME TypeInv, CommandStep, ~Begin, quiet, generation # 0, AnsweredRight,
         \A w \in Worker : Work(w), Coverage
  PROVE  Coverage'
<1>0. TypeOK /\ ControlRight /\ Flags
  BY DEF TypeInv
<1>1. UNCHANGED <<generation, command>>
  BY DEF CommandStep, ClearTask, FillTask, Publish, Signal,
    OwnPart, ScanTask, EndOfScan, TimesOut, WriteTask
<1>2. Channels' = Channels /\ OwnRange(0)' = OwnRange(0)
  BY <1>1 DEF Channels, OwnRange
<1> USE WorkersAssumption
<1>3. CASE ClearTask \/ FillTask \/ Publish \/ Signal
  <2>1. UNCHANGED <<covered, broken, answer>> /\ cpc \in CommandCells /\ cpc' # "wait"
    BY <1>3 DEF ClearTask, FillTask, Publish, Signal, WriteTask, ControllerAt,
      CommandCells, historyVars
  <2>2. answer = "none"
    BY <2>1 DEF AnsweredRight, CommandCells
  <2> QED BY <1>2, <2>1, <2>2 DEF Coverage
<1>4. CASE OwnPart
  <2>1. command \in Command
    BY <1>0, <1>4 DEF OwnPart, ControlRight, CommandCells
  <2>2. OwnRange(0) \subseteq Channels
    <3>1. /\ command.channels \in Nat /\ PartRange(command, 0).begin \in Nat
          /\ PartRange(command, 0).end \in Nat
          /\ PartRange(command, 0).end <= command.channels
      BY <2>1, PartWithin
    <3> QED BY <3>1 DEF OwnRange, Channels
  <2>3. CASE cpc' = "wait"
    <3>1. /\ index' = 1 /\ complete' = 0 /\ covered' = covered \cup OwnRange(0)
          /\ UNCHANGED <<answer, broken, tasks>>
      BY <1>4, <2>3 DEF OwnPart, Answers, OwnRange
    <3>2. answer = "none"
      BY <1>4 DEF OwnPart, AnsweredRight
    <3> QED BY <1>2, <2>2, <3>1, <3>2 DEF Coverage, Worker
  <2>4. CASE cpc' # "wait"
    <3>1. broken' /\ answer' = "ERROR" /\ covered' = covered
      BY <1>4, <2>4 DEF OwnPart, Answers
    <3> QED BY <1>2, <2>4, <3>1 DEF Coverage
  <2> QED BY <2>3, <2>4
<1>5. CASE ScanTask
  <2>1. /\ cpc = "wait" /\ index \in Worker
        /\ UNCHANGED <<covered, broken, tasks>>
    BY <1>0, <1>5 DEF ScanTask, TypeOK, Worker
  <2>2. CASE tasks[index].state = "ERROR"
    <3>1. Ended(index)
      BY <2>1, <2>2 DEF Work, Published
    <3>2. broken /\ answer' = "ERROR" /\ cpc' = "idle"
      BY <1>5, <2>2, <3>1 DEF ScanTask, Answers, Ended
    <3> QED BY <1>2, <2>1, <3>2 DEF Coverage
  <2>3. CASE tasks[index].state # "ERROR"
    <3>1. /\ index' = index + 1 /\ UNCHANGED <<cpc, answer>>
          /\ complete' = complete + (IF tasks[index].state = "DONE" THEN 1 ELSE 0)
      BY <1>5, <2>3 DEF ScanTask, counts
    <3>2. complete' = index' - 1 =>
            complete = index - 1 /\ tasks[index].state = "DONE"
      BY <1>0, <2>1, <3>1 DEF TypeOK, ControlRight, Worker
    <3>3. complete' = index' - 1 =>
            \A w \in Worker : w < index' => tasks[w].state = "DONE"
      BY <2>1, <3>1, <3>2 DEF Coverage, Worker
    <3> QED BY <1>2, <2>1, <3>1, <3>3 DEF Coverage
  <2> QED BY <2>2, <2>3
<1>6. CASE EndOfScan
  <2>1. /\ cpc = "wait" /\ index = WORKERS + 1
        /\ UNCHANGED <<covered, broken, tasks>>
    BY <1>6 DEF EndOfScan
  <2>2. CASE complete = WORKERS
    <3>1. answer' = "OK" /\ cpc' = "idle"
      BY <1>6, <2>2 DEF EndOfScan, Answers
    <3>2. \A w \in Worker : tasks[w].state = "DONE"
      BY <2>1, <2>2 DEF Coverage, Worker
    <3> QED BY <1>2, <2>1, <3>1, <3>2 DEF Coverage
  <2>3. CASE complete # WORKERS
    <3>1. UNCHANGED <<cpc, answer>> /\ index' = 1 /\ complete' = 0
      BY <1>6, <2>3 DEF EndOfScan
    <3> QED BY <1>2, <2>1, <3>1 DEF Coverage, Worker
  <2> QED BY <2>2, <2>3
<1>7. CASE TimesOut
  BY <1>2, <1>7 DEF TimesOut, Answers, Coverage
<1> QED BY <1>3, <1>4, <1>5, <1>6, <1>7 DEF CommandStep

\* A worker computes nothing but its part, and what it has done stays done.
LEMMA WorkerCoverage ==
  ASSUME TypeInv, BootInv, NEW w \in Worker, cpc \in AtWork, WorkerMoves(w), quiet, generation # 0,
         \A v \in Worker : Work(v) /\ (Filled(v) => Words(v)), Coverage
  PROVE  Coverage'
<1>0. TypeOK /\ ControlRight /\ Workers
  BY DEF TypeInv
<1>1. UNCHANGED <<cpc, index, complete, generation, command, answer>>
  BY WorkerFrame DEF controllerVars
<1>2. Channels' = Channels /\ OwnRange(0)' = OwnRange(0)
  BY <1>1 DEF Channels, OwnRange
<1>3. /\ covered \subseteq covered' /\ covered' \subseteq Channels
      /\ broken => broken'
  <2>1. CASE Compute(w)
    <3>1. wpc[w] = "compute"
      BY <2>1 DEF Compute, WorkerAt
    <3>2. Published(w) /\ Running(w) /\ Words(w)
      BY <3>1 DEF Work, Unpublished, Ready, Ended, Resting, Filled, Published
    <3>3. job[w].begin .. job[w].end - 1 = OwnRange(w)
      BY <3>1, <3>2 DEF Running, Words, OwnRange
    <3>4. command \in Command /\ w \in 0 .. WORKERS
      BY <1>0 DEF ControlRight, Worker
    <3>5. /\ command.channels \in Nat /\ PartRange(command, w).begin \in Nat
          /\ PartRange(command, w).end \in Nat
          /\ PartRange(command, w).end <= command.channels
      BY <3>4, PartWithin
    <3>6. OwnRange(w) \subseteq Channels
      BY <3>5 DEF OwnRange, Channels
    <3>7. covered' = covered \/ covered' = covered \cup OwnRange(w)
      BY <2>1, <3>3 DEF Compute
    <3>8. broken => broken'
      BY <2>1 DEF Compute
    <3> QED BY <3>6, <3>7, <3>8 DEF Coverage
  <2>2. CASE ~Compute(w)
    <3>1. UNCHANGED <<covered, broken>>
      BY <2>2 DEF WorkerMoves, WorkerStep, Wake, ReadMagic, ReadReady, ReadRegion,
        ReadState,
        ReadGeneration, Looks, Register, SendEvent, Take, Run, ReadTask, WriteStatus,
        Finish, WriteState
    <3> QED BY <3>1 DEF Coverage
  <2> QED BY <2>1, <2>2
<1>4. \A v \in Worker : tasks[v].state = "DONE" => tasks'[v].state = "DONE"
  <2> SUFFICES ASSUME NEW v \in Worker, tasks[v].state = "DONE" PROVE tasks'[v].state = "DONE"
    OBVIOUS
  <2>1. CASE v # w
    BY <2>1, WorkerFrame
  <2>2. CASE v = w
    <3>1. wpc[w] \in {"boot_sev", "sev", "check", "wait"}
      BY <2>2 DEF Work, Unpublished, Ended, Resting
    <3>2. UNCHANGED tasks
      BY <3>1 DEF WorkerMoves, WorkerStep, Wake, ReadMagic, ReadReady, ReadRegion,
        ReadState,
        ReadGeneration, Looks, Register, SendEvent, Take, Run, ReadTask, Compute,
          WriteStatus,
        Finish, WriteState, WorkerAt, mailboxVars
    <3> QED BY <3>2
  <2> QED BY <2>1, <2>2
<1> QED BY <1>1, <1>2, <1>3, <1>4 DEF Coverage

\* After a command that succeeded, or before the first, the workers are at rest
\* for the next.
LEMMA Rest ==
  ASSUME TypeInv, BootInv, WorkInv, cpc = "idle", clean, NEW w \in Worker
  PROVE  AtRest(w)
<1>0. /\ generation \in 0 .. GenMod - 1 /\ wpc[w] \in Works
      /\ NextGeneration(generation) # generation
  BY GenerationAssumption DEF TypeInv, TypeOK, BootInv, Boot, NextGeneration
<1>1. CASE generation = 0
  <2>1. tasks[w] = NoTask /\ last_generation[w] = 0
    BY <1>1 DEF BootInv, Fresh
  <2>2. wpc[w] \in {"boot_sev", "check", "wait"}
    BY <1>0, <1>1 DEF BootInv, Fresh, Boots, Works
  <2> QED BY <1>0, <1>1, <2>1, <2>2 DEF AtRest, NoTask
<1>2. CASE generation # 0
  <2>1. quiet /\ answer = "OK"
    BY <1>2 DEF WorkInv, AnsweredRight
  <2>2. tasks[w].state = "DONE" /\ Work(w)
    BY <1>2, <2>1 DEF WorkInv, Quiet, Coverage
  <2>3. Ended(w)
    BY <2>2 DEF Work, Unpublished, Published
  <2> QED BY <1>0, <2>2, <2>3 DEF Ended, AtRest
<1> QED BY <1>1, <1>2

\* The controller is idle when it has answered, and success leaves rest behind.
LEMMA AnsweredKept == TypeInv /\ BootInv /\ WorkInv /\ [Next]_vars => AnsweredRight'
<1> SUFFICES ASSUME TypeInv, BootInv, WorkInv, [Next]_vars PROVE AnsweredRight'
  OBVIOUS
<1>0. AnsweredRight /\ Sessions /\ ControlRight
  BY DEF WorkInv, BootInv, TypeInv
<1> USE DEF AnsweredRight
<1>1. CASE UNCHANGED vars
  BY <1>0, <1>1 DEF vars, controllerVars, historyVars
<1>2. CASE Stop \/ Invalidate \/ StartController
  BY <1>0, <1>2 DEF Stop, Invalidate, StartController, controllerVars, historyVars,
    Sessions
<1>3. CASE BootStep
  BY <1>0, <1>3, BootFrame, BootRuns DEF historyVars, Sessions
<1>4. CASE Begin
  <2>1. clean => quiet'
    BY <1>4, Rest DEF Begin, ControllerAt
  <2> QED BY <1>4, <2>1 DEF Begin, ControllerAt
<1>5. CASE CommandStep /\ ~Begin
  <2>1. cpc \in CommandCells /\ generation # 0 /\ generation' = generation /\ quiet' = quiet
    BY <1>0, <1>5 DEF CommandStep, ClearTask, FillTask, Publish, Signal, OwnPart,
      ScanTask,
      EndOfScan, TimesOut, WriteTask, ControllerAt, CommandCells, ControlRight, historyVars
  <2>2. answer = "none"
    BY <1>0, <2>1 DEF CommandCells
  <2>3. \/ cpc' # "idle" /\ answer' = "none" /\ clean' = clean
        \/ /\ cpc' = "idle" /\ clean' = (clean /\ answer' = "OK")
           /\ answer' \in {"OK", "ERROR", "TIMEOUT"}
    <3>1. CASE ClearTask \/ FillTask \/ Publish \/ Signal
      BY <2>2, <3>1 DEF ClearTask, FillTask, Publish, Signal, WriteTask,
        ControllerAt, historyVars
    <3>2. CASE OwnPart \/ EndOfScan \/ TimesOut
      BY <2>2, <3>2 DEF OwnPart, EndOfScan, TimesOut, Answers
    <3>3. CASE ScanTask
      <4>1. index \in Worker => tasks[index].status \in {"OK", "ERROR"}
        BY DEF TypeInv, TypeOK, Task
      <4>2. index <= WORKERS => index \in Worker
        BY WorkersAssumption DEF TypeInv, TypeOK, Worker
      <4> QED BY <2>2, <3>3, <4>1, <4>2 DEF ScanTask, Answers
    <3> QED BY <1>5, <3>1, <3>2, <3>3 DEF CommandStep
  <2>4. cpc' = "idle" <=> answer' # "none"
    BY <2>3
  <2>5. clean' => clean /\ answer' \in {"none", "OK"}
    BY <2>3
  <2>6. clean' => quiet'
    BY <1>0, <2>1, <2>5
  <2> QED BY <2>4, <2>5, <2>6
<1>6. ASSUME NEW w \in Worker, StartWorker(w) \/ WorkerMoves(w) PROVE AnsweredRight'
  BY <1>0, <1>6, WorkerFrame DEF StartWorker, controllerVars, historyVars
<1> QED BY <1>1, <1>2, <1>3, <1>4, <1>5, <1>6, Steps

\* The work of a quiet command stays in step with its tasks.
LEMMA QuietKept == TypeInv /\ BootInv /\ WorkInv /\ [Next]_vars => Quiet'
<1> SUFFICES ASSUME TypeInv, BootInv, WorkInv, [Next]_vars, quiet', generation' # 0
             PROVE  /\ \A u \in Worker : (Work(u) /\ (Filled(u) => Words(u)))'
                    /\ Coverage'
  BY DEF Quiet
<1>0. AnsweredRight /\ Quiet /\ Sessions /\ ControlRight
  BY DEF WorkInv, BootInv, TypeInv
<1>1. CASE UNCHANGED vars
  BY <1>0, <1>1 DEF vars, mailboxVars, controllerVars, workerVars, historyVars, Quiet,
    Work, Filled, Words, Coverage, Unpublished, Ready, Running, Ended, Published, OwnRange,
    Channels
<1>2. CASE Stop \/ Invalidate \/ StartController \/ BootStep
  <2>1. generation' = 0
    BY <1>0, <1>2, BootFrame, BootRuns DEF Stop, Invalidate, StartController,
      controllerVars, Sessions
  <2> QED BY <2>1
<1>3. CASE Begin
  <2>1. /\ cpc' = "clear_task" /\ index' = 1 /\ generation' = NextGeneration(generation)
        /\ covered' = {} /\ answer' = "none"
        /\ UNCHANGED <<wpc, tasks, last_generation>>
        /\ \A w \in Worker : AtRest(w)
    BY <1>3 DEF Begin, ControllerAt, KeepsRunning, workerVars
  <2>2. ASSUME NEW u \in Worker PROVE (Work(u) /\ (Filled(u) => Words(u)))'
    <3>1. ~Filled(u)' /\ ~Published(u)'
      BY <2>1, WorkersAssumption DEF Filled, Published, Worker
    <3>2. Unpublished(u)'
      BY <2>1, <3>1 DEF Unpublished, AtRest, Resting
    <3> QED BY <3>1, <3>2 DEF Work
  <2> QED BY <2>1, <2>2 DEF Coverage
<1>4. CASE CommandStep /\ ~Begin
  <2>1. quiet /\ generation # 0
    BY <1>4 DEF CommandStep, ClearTask, FillTask, Publish, Signal, OwnPart, ScanTask,
      EndOfScan, TimesOut, WriteTask, historyVars
  <2>2. (\A u \in Worker : Work(u) /\ (Filled(u) => Words(u))) /\ Coverage
    BY <1>0, <2>1 DEF Quiet
  <2>3. \A u \in Worker : (Work(u) /\ (Filled(u) => Words(u)))'
    BY <1>4, <2>1, <2>2, CommandWork
  <2> QED BY <1>0, <1>4, <2>1, <2>2, <2>3, CommandCoverage
<1>5. ASSUME NEW w \in Worker, StartWorker(w)
      PROVE  /\ \A u \in Worker : (Work(u) /\ (Filled(u) => Words(u)))'
             /\ Coverage'
  <2>1. generation' = 0
    BY <1>0, <1>5 DEF StartWorker, controllerVars, Sessions
  <2> QED BY <2>1
<1>6. ASSUME NEW w \in Worker, WorkerMoves(w)
      PROVE  /\ \A u \in Worker : (Work(u) /\ (Filled(u) => Words(u)))'
             /\ Coverage'
  <2>1. UNCHANGED <<session, cpc, index, complete, generation, command, answer, quiet>>
    BY <1>6, WorkerFrame DEF controllerVars
  <2>2. quiet /\ generation # 0
    BY <2>1
  <2>3. cpc \in AtWork
    BY <1>0, <2>2 DEF Sessions, ControlRight, AtWork
  <2>4. (\A u \in Worker : Work(u) /\ (Filled(u) => Words(u))) /\ Coverage
    BY <1>0, <2>2 DEF Quiet
  <2>5. Coverage'
    BY <1>6, <2>2, <2>3, <2>4, WorkerCoverage
  <2>6. covered \subseteq covered'
    BY <1>6 DEF WorkerMoves, WorkerStep, Wake, ReadMagic, ReadReady, ReadRegion,
      ReadState,
      ReadGeneration, Looks, Register, SendEvent, Take, Run, ReadTask, Compute,
        WriteStatus,
      Finish, WriteState
  <2>7. broken => broken'
    BY <1>6 DEF WorkerMoves, WorkerStep, Wake, ReadMagic, ReadReady, ReadRegion,
      ReadState,
      ReadGeneration, Looks, Register, SendEvent, Take, Run, ReadTask, Compute,
        WriteStatus,
      Finish, WriteState
  <2>8. ASSUME NEW u \in Worker PROVE Work(u)' /\ (Filled(u) => Words(u))'
    <3>1. CASE u = w
      BY <1>6, <2>2, <2>3, <2>4, <3>1, OwnWork
    <3>2. CASE u # w
      <4>1. /\ tasks'[u] = tasks[u] /\ last_generation'[u] = last_generation[u]
            /\ job'[u] = job[u] /\ rc'[u] = rc[u]
        BY <1>6, <3>2, WorkerFrame
      <4>2. wpc'[u] = wpc[u]
        BY <1>6, <3>2, WorkerFrame DEF TypeInv, Workers
      <4>3. event[u] => event'[u]
        BY <1>6, <3>2 DEF WorkerMoves, WorkerStep, Wake, ReadMagic, ReadReady,
          ReadRegion,
          ReadState, ReadGeneration, Looks, Register, SendEvent, sev, Take, Run,
            ReadTask,
          Compute, WriteStatus, Finish, WriteState, TypeInv, TypeOK
      <4>4. Filled(u)' = Filled(u) /\ Published(u)' = Published(u)
        BY <2>1 DEF Filled, Published
      <4> QED BY <2>1, <2>4, <2>6, <2>7, <4>1, <4>2, <4>3, <4>4, WorkStays
    <3> QED BY <3>1, <3>2
  <2> QED BY <2>5, <2>8
<1> QED BY <1>1, <1>2, <1>3, <1>4, <1>5, <1>6, Steps

-----------------------------------------------------------------------------
(* What holds of the mailbox *)

\* The invariant holds in every state: of the mailbox's words and the cores'
\* places after the boot over whatever memory there was, and of each command
\* that begins at rest.
THEOREM MailboxCorrect == Spec => []MailboxInv
<1>1. Init => WorkInv
  BY DEF Init, WorkInv, AnsweredRight, Quiet
<1>2. TypeInv /\ BootInv /\ WorkInv /\ [Next]_vars => WorkInv'
  BY AnsweredKept, QuietKept DEF WorkInv
<1> QED BY <1>1, <1>2, TypesHold, BootHolds, PTL DEF Spec, MailboxInv

\* Whatever the number of workers, the operations and their channels: a command
\* begun at rest answers truly, and the workers are at rest until one fails
\* (c8_mc_wait_workers, coco80_mc_worker_loop).
THEOREM AnswersRight == Spec => []AnswersSafe
<1>1. MailboxInv => AnswersSafe
  <2> SUFFICES ASSUME MailboxInv PROVE AnswersSafe
    OBVIOUS
  <2>0. TypeOK /\ ControlRight /\ Sessions /\ AnsweredRight /\ Quiet
    BY DEF MailboxInv, TypeInv, BootInv, WorkInv
  <2>1. QuietUntilTrouble
    BY <2>0 DEF QuietUntilTrouble, AnsweredRight
  <2>2. ASSUME quiet, answer = "OK" PROVE covered = 0 .. command.channels - 1
    <3>1. generation # 0 /\ command \in Command
      BY <2>0, <2>2 DEF Sessions, ControlRight
    <3>2. Coverage /\ cpc = "idle"
      BY <2>0, <2>2, <3>1 DEF Quiet, AnsweredRight
    <3>3. OwnRange(0) \subseteq covered
      BY <2>2, <3>2 DEF Coverage
    <3>4. ASSUME NEW w \in Worker PROVE OwnRange(w) \subseteq covered
      <4>1. tasks[w].state = "DONE" /\ Work(w)
        BY <2>0, <2>2, <3>1, <3>2 DEF Coverage, Quiet
      <4> QED BY <3>2, <4>1 DEF Work, Published, Ended
    <3>5. ASSUME NEW channel \in Channels PROVE channel \in covered
      <4>1. PICK part \in 0 .. WORKERS : channel \in OwnRange(part)
        BY <3>1, EveryChannel DEF Channels, OwnRange
      <4>2. part = 0 \/ part \in Worker
        BY WorkersAssumption DEF Worker
      <4> QED BY <3>3, <3>4, <4>1, <4>2
    <3> QED BY <3>2, <3>5 DEF Coverage, Channels
  <2>3. ASSUME quiet, answer = "ERROR" PROVE broken
    BY <2>0, <2>3 DEF Sessions, Quiet, Coverage
  <2> QED BY <2>0, <2>1, <2>2, <2>3 DEF AnswersSafe, AnswersTrue
<1> QED BY <1>1, MailboxCorrect, PTL

\* Neither a wake-up nor a registration is lost (c8_mc_publish, coco80_mc_worker_loop,
\* coco80_mc_controller_initialize).
THEOREM SignalsArrive == Spec => []SignalsKept
<1>1. MailboxInv => SignalsKept
  <2> SUFFICES ASSUME MailboxInv PROVE SignalsKept
    OBVIOUS
  <2>0. TypeInv /\ BootInv /\ ControlRight /\ Sessions /\ Quiet
    BY DEF MailboxInv, TypeInv, BootInv, WorkInv
  <2>1. WakesKept
    <3> SUFFICES ASSUME cpc = "wait", quiet, NEW w \in Worker, wpc[w] = "wait",
                        tasks[w].state \notin {"DONE", "ERROR"}
                 PROVE  event[w]
      BY DEF WakesKept
    <3>1. Work(w) /\ Published(w)
      BY <2>0 DEF Quiet, ControlRight, CommandCells, Published
    <3> QED BY <3>1 DEF Work, Ready, Running
  <2>2. BootsKept
    <3> SUFFICES ASSUME cpc = "register", NEW w \in Worker, worker_ready[w] # "yes"
                 PROVE  /\ wpc[w] \in {"boot", "boot_ready", "boot_region", "register",
                                       "boot_wait"}
                        /\ wpc[w] = "boot_wait" => event[w]
      BY DEF BootsKept
    <3>1. Boot(w) /\ wpc[w] # "off"
      BY <2>0 DEF BootInv, Sessions
    <3> QED BY <3>1 DEF Boot, Boots
  <2> QED BY <2>1, <2>2 DEF SignalsKept
<1> QED BY <1>1, MailboxCorrect, PTL
-----------------------------------------------------------------------------
(* What the integer quotient is: how far the multiples of the divisor go. *)
LEMMA Quotient ==
  ASSUME NEW n \in Nat, NEW d \in Nat \ {0}
  PROVE  /\ n \div d \in Nat
         /\ (n \div d) * d <= n /\ n < (n \div d) * d + d
  BY SMTT(30)

(* ceil_div is the number of parts that cover a length, and what the last   *)
(* part is left with is neither empty nor larger than a part.              *)
LEMMA CeilDivCovers ==
  ASSUME NEW v \in Nat, NEW d \in Nat \ {0}
  PROVE  /\ ceil_div(v, d) \in Nat
         /\ Covers(ceil_div(v, d), d, v)
         /\ v > 0 => ceil_div(v, d) > 0
         /\ v - (ceil_div(v, d) - 1) * d \in Int
         /\ v > 0 => v - (ceil_div(v, d) - 1) * d \in 1 .. d
<1> DEFINE q == (v + d - 1) \div d
<1>1. q \in Nat /\ q * d <= v + d - 1 /\ v + d - 1 < q * d + d
  BY Quotient, v + d - 1 \in Nat
<1>2. (q - 1) * d = q * d - d
  <2> HIDE DEF q
  <2> QED BY <1>1, SMTT(30)
<1>3. ceil_div(v, d) = q
  BY DEF ceil_div
<1>4. v > 0 => q > 0
  <2> HIDE DEF q
  <2> QED BY <1>1
<1>5. q * d \in Int
  <2> HIDE DEF q
  <2> QED BY <1>1
<1> HIDE DEF q
<1> QED BY <1>1, <1>2, <1>3, <1>4, <1>5 DEF Covers

(* A row is in one tile only. *)
LEMMA TileOfRow ==
  ASSUME NEW size \in Nat \ {0}, NEW y \in Nat, NEW t \in Nat, NEW u \in Nat,
         t * size <= y, y < t * size + size, u * size <= y, y < u * size + size
  PROVE  u = t
<1>1. CASE u < t
  <2>1. (u + 1) * size <= t * size
    BY <1>1, SMTT(30)
  <2> QED BY <2>1, (u + 1) * size = u * size + size, <1>1
<1>2. CASE t < u
  <2>1. (t + 1) * size <= u * size
    BY <1>2, SMTT(30)
  <2> QED BY <2>1, (t + 1) * size = t * size + size, <1>2
<1> QED BY <1>1, <1>2

(* conv_output_dim counts the windows that fit the padded input.            *)
LEMMA OutputFits ==
  ASSUME NEW size \in Nat, NEW kernel \in Nat, NEW stride \in {1, 2}, NEW pad \in Nat,
         size + 2 * pad >= kernel
  PROVE  LET rows_out  == conv_output_dim(size, kernel, stride, pad)
             last == (rows_out - 1) * stride + kernel
         IN  /\ rows_out \in Nat \ {0}
             /\ last <= size + 2 * pad /\ last + stride > size + 2 * pad
BY DEF conv_output_dim

(* The numbers of one accepted layer cut it without a gap and without        *)
(* overlap, step by step as schedule_layer computes them.                   *)
LEMMA PlannedTilesWhole ==
  ASSUME NEW layer, layer.pad \in Nat, schedule_layer_ok(layer)
  PROVE  TilesWhole(layer)
<1> DEFINE s == Schedule(layer)
           H == conv_output_dim(layer.fm_h, layer.kernel, layer.stride, layer.pad)
           W == conv_output_dim(layer.fm_w, layer.kernel, layer.stride, layer.pad)
           T == layer.tile_h
           n == ceil_div(H, T)
           last == H - (n - 1) * T
<1>1. /\ layer.kernel \in {1, 3} /\ layer.stride \in {1, 2}
      /\ layer.fm_h \in Nat /\ layer.fm_w \in Nat
      /\ layer.cin \in Nat \ {0} /\ layer.cout \in Nat \ {0}
      /\ layer.fm_h + 2 * layer.pad >= layer.kernel /\ layer.fm_w + 2 * layer.pad >= layer.kernel
      /\ T \in 1 .. H
  BY DEF schedule_layer_ok, GeometryOk
<1>2. /\ Limits.rows \in Nat \ {0} /\ Limits.cout_tile \in Nat \ {0}
  BY LimitsAssumption
<1>3. /\ s.conv_h = H /\ s.tile_count = n /\ s.last_tile_h = last
      /\ s.output_h = (IF layer.pool_stride # 0 THEN H \div 2 ELSE H)
      /\ s.conv_w = W
      /\ s.k_total = layer.cin * layer.kernel * layer.kernel
      /\ s.k_passes = ceil_div(s.k_total, Limits.rows)
      /\ s.cout_blocks = ceil_div(layer.cout, Limits.cout_tile)
      /\ s.cout_tail_channels = layer.cout - (s.cout_blocks - 1) * Limits.cout_tile
  BY DEF Schedule
<1>4. layer.pool_stride # 0 => H % 2 = 0 /\ T % 2 = 0
  BY <1>3 DEF schedule_layer_ok, PoolOk
<1>5. /\ H \in Nat \ {0} /\ W \in Nat \ {0}
      /\ (H - 1) * layer.stride + layer.kernel <= layer.fm_h + 2 * layer.pad
      /\ (H - 1) * layer.stride + layer.kernel + layer.stride > layer.fm_h + 2 * layer.pad
      /\ (W - 1) * layer.stride + layer.kernel <= layer.fm_w + 2 * layer.pad
      /\ (W - 1) * layer.stride + layer.kernel + layer.stride > layer.fm_w + 2 * layer.pad
  BY <1>1, OutputFits
<1> HIDE DEF s, H, W
<1>6. T \in Nat \ {0}
  BY <1>1, <1>5
<1>7. /\ n \in Nat /\ (n - 1) * T < H /\ H <= n * T /\ last \in 1 .. T
  <2> HIDE DEF T
  <2>1. /\ ceil_div(H, T) \in Nat /\ Covers(ceil_div(H, T), T, H)
        /\ H > 0 => H - (ceil_div(H, T) - 1) * T \in 1 .. T
    <3> H \in Nat /\ T \in Nat \ {0}
      BY <1>5, <1>6
    <3> QED BY CeilDivCovers, Zenon
  <2> QED BY <2>1, <1>5 DEF Covers
<1> DEFINE Rows(t) == t * T .. t * T + (IF t = n - 1 THEN last ELSE T) - 1
<1>8. \A t : TileRows(layer, s, t) = Rows(t)
  BY <1>3 DEF TileRows
<1> HIDE DEF n, last
<1>9. \A t \in 0 .. n - 1 : t * T \in Nat
  BY <1>6, <1>7
<1>10. ASSUME NEW y \in 0 .. H - 1
       PROVE  /\ y \div T \in 0 .. n - 1
              /\ y \in Rows(y \div T)
              /\ \A u \in 0 .. n - 1 : y \in Rows(u) => u = y \div T
  <2> DEFINE t == y \div T
  <2>1. /\ y \in Nat /\ t \in Nat /\ t * T <= y /\ y < t * T + T
    BY <1>5, <1>6, Quotient
  <2> HIDE DEF t
  <2>2. t <= n - 1
    <3> SUFFICES ASSUME t >= n PROVE FALSE
      BY <1>7, <2>1
    <3>1. n * T <= t * T
      BY <1>6, <1>7, <2>1, SMTT(30)
    <3> QED BY <3>1, <1>5, <1>6, <1>7, <2>1
  <2>3. t = n - 1 => t * T + last = H
    BY <1>5, <1>6, <1>7, <2>1 DEF last
  <2>4. y \in Rows(t)
    BY <1>5, <1>6, <1>7, <2>1, <2>3, <1>9, <2>2
  <2>5. ASSUME NEW u \in 0 .. n - 1, y \in Rows(u)
        PROVE  u = t
    <3>1. u * T <= y /\ y < u * T + T
      BY <2>5, <1>6, <1>7, <1>9, <2>1
    <3> QED BY <3>1, <2>1, <1>6, <1>7, TileOfRow
  <2> QED BY <2>1, <2>2, <2>4, <2>5, <1>7 DEF t
<1> HIDE DEF Rows
<1>11. \A y \in 0 .. s.conv_h - 1 :
          \E t \in 0 .. s.tile_count - 1 :
             /\ y \in TileRows(layer, s, t)
             /\ \A u \in 0 .. s.tile_count - 1 : y \in TileRows(layer, s, u) => u = t
  <2> SUFFICES ASSUME NEW y \in 0 .. H - 1
               PROVE  \E t \in 0 .. n - 1 :
                         /\ y \in TileRows(layer, s, t)
                         /\ \A u \in 0 .. n - 1 : y \in TileRows(layer, s, u) => u = t
    BY <1>3
  <2> USE <1>10
  <2> WITNESS y \div T \in 0 .. n - 1
  <2> QED BY <1>8, <1>10
<1>12. ASSUME layer.pool_stride # 0, NEW p \in 0 .. s.output_h - 1
       PROVE  \E t \in 0 .. s.tile_count - 1 : {2 * p, 2 * p + 1} \subseteq TileRows(layer, s, t)
  <2> DEFINE t == (2 * p) \div T
  <2>1. 2 * p \in 0 .. H - 1 /\ 2 * p + 1 \in 0 .. H - 1
    BY <1>3, <1>4, <1>5, <1>12
  <2>2. t \in 0 .. n - 1 /\ 2 * p \in Rows(t)
    BY <2>1, <1>10
  <2> HIDE DEF t
  <2>3. t * T \in Nat /\ (t * T) % 2 = 0
    <3>1. PICK h \in Nat : T = 2 * h
      BY <1>4, <1>6, <1>12
    <3>2. t * T = 2 * (t * h)
      BY <3>1, <2>2, <1>7
    <3>3. t * h \in Nat
      BY <3>1, <2>2, <1>7
    <3> QED BY <3>2, <3>3
  <2>4. t = n - 1 => t * T + last = H
    BY <1>5, <1>6, <1>7, <2>2 DEF last
  <2>5. 2 * p + 1 \in Rows(t)
    <3> DEFINE a == t * T
    <3>1. a \in Nat /\ a % 2 = 0 /\ 2 * p \in a .. a + (IF t = n - 1 THEN last ELSE T) - 1
      BY <2>2, <2>3 DEF Rows
    <3>2. t = n - 1 => a + last = H
      BY <2>4
    <3>3. 2 * p + 1 \in a .. a + (IF t = n - 1 THEN last ELSE T) - 1
      <4> HIDE DEF a
      <4> QED BY <3>1, <3>2, <2>1, <1>4, <1>5, <1>6, <1>7, <1>12
    <3> QED BY <3>3 DEF Rows
  <2> QED BY <2>2, <2>5, <1>3, <1>8
<1>13. Covers(s.k_passes, Limits.rows, s.k_total)
  <2>1. layer.cin * layer.kernel * layer.kernel \in Nat
    BY <1>1
  <2> QED BY <2>1, <1>2, <1>3, CeilDivCovers
<1>14. /\ Covers(s.cout_blocks, Limits.cout_tile, layer.cout)
       /\ s.cout_tail_channels \in 1 .. Limits.cout_tile
  <2> DEFINE c == layer.cout
             r == Limits.cout_tile
  <2>1. c \in Nat \ {0} /\ r \in Nat \ {0} /\ c > 0
    BY <1>1, <1>2
  <2>2. s.cout_blocks = ceil_div(c, r) /\ s.cout_tail_channels = c - (ceil_div(c, r) - 1) * r
    BY <1>3
  <2> HIDE DEF c, r
  <2>3. Covers(ceil_div(c, r), r, c) /\ c - (ceil_div(c, r) - 1) * r \in 1 .. r
    BY <2>1, CeilDivCovers
  <2> QED BY <2>2, <2>3 DEF c, r
<1> QED BY <1>3, <1>5, <1>7, <1>11, <1>12, <1>13, <1>14 DEF TilesWhole, s

(* Whatever limits a build has and whatever geometry it is asked about, one  *)
(* schedule_layer accepts is cut without a gap and without overlap: rows     *)
(* into tiles, pooling windows into tiles, reduction into passes and         *)
(* channels into blocks (hardware_plan.py:262-379).                        *)
THEOREM AcceptedLayersWhole == asked \in Geometries => PlanSound
BY GeometriesAssumption, PlannedTilesWhole DEF PlanSound
-----------------------------------------------------------------------------
(* The application, for any threads, images and clocks.  The inductive       *)
(* invariant adds to AppTrue whose the lock is, and what the directory of a  *)
(* working thread holds at each of its steps.                               *)
ThreadFields == DOMAIN Idle("none")
RunFields    == DOMAIN NoRun

Shape ==
    /\ DOMAIN thread = Threads /\ \A t \in Threads : DOMAIN thread[t] = ThreadFields
    /\ DOMAIN runs = RunIds /\ \A id \in RunIds : DOMAIN runs[id] = RunFields

Exclusive ==
    /\ lock \in Threads \cup {Nobody}
    /\ \A t \in Threads : thread[t].pc \in Busy <=> lock = t

Progress(t) ==
    LET pc == thread[t].pc
        image == thread[t].image
        r == runs[thread[t].run]
    IN  /\ pc \in Working \cup {"lock"} => image \in Images
        /\ pc \in Working \ {"mkdir"} =>
              thread[t].run \in RunIds /\ thread[t].run[2] = image /\ r.made /\ r.result = Absent
        /\ pc \in Working \ {"mkdir", "source"} => r.source = image
        /\ pc \in {"artifacts", "session", "predictions", "visualize", "result"} =>
              r.input = [image |-> image, domain |-> thread[t].domain]
        /\ pc \in {"predictions", "visualize", "result"} =>
              r.board = [image |-> image, model |-> thread[t].domain]
        /\ pc \in {"visualize", "result"} => r.predictions = r.board
        /\ pc = "result" => r.visualization = [image |-> image, of |-> r.predictions]

Unmade == \A id \in RunIds : ~runs[id].made => runs[id].result = Absent

AppInv == Shape /\ Exclusive /\ (\A t \in Threads : Progress(t)) /\ Unmade /\ ResultsTrue

LEMMA AppInvInit ==
  ASSUME Nobody \notin Threads, AppInit
  PROVE  AppInv
BY DEF AppInit, AppInv, Shape, Exclusive, Progress, Unmade, ResultsTrue, Idle, NoRun, ThreadFields, RunFields,
       Working, Busy

(* A step that leaves the directories alone. *)
LEMMA ThreadsOnly ==
  ASSUME Nobody \notin Threads, AppInv, UNCHANGED runs,
         \/ \E t \in Threads : \/ Post(t) \/ TakeLock(t) \/ ReadQparams(t) \/ CheckArtifacts(t)
                               \/ Fail(t) \/ Answer(t)
         \/ Kill
  PROVE  AppInv'
<1> USE DEF AppInv, Shape, Exclusive, Progress, Unmade, ResultsTrue, Idle, ThreadFields, Working, Busy, Goes
<1>1. ASSUME NEW t \in Threads, Post(t) PROVE AppInv'
  <2>1. PICK image \in Images, ok \in BOOLEAN :
           thread' = [thread EXCEPT ![t] = IF ok THEN [Idle("none") EXCEPT !.pc = "lock", !.image = image]
                                                 ELSE Idle("400")]
    BY <1>1 DEF Post
  <2>2. /\ DOMAIN thread'[t] = ThreadFields
        /\ thread'[t].pc \in {"lock", "idle"}
        /\ thread'[t].pc = "lock" => thread'[t].image \in Images
    BY <2>1
  <2>3. DOMAIN thread' = Threads /\ \A u \in Threads : u # t => thread'[u] = thread[u]
    BY <2>1
  <2>4. thread[t].pc = "idle" /\ lock' = lock
    BY <1>1 DEF Post
  <2> HIDE DEF Idle, ThreadFields
  <2> QED BY <2>2, <2>3, <2>4
<1>2. ASSUME NEW t \in Threads, TakeLock(t) PROVE AppInv'
  BY <1>2 DEF TakeLock, Acquire
<1>3. ASSUME NEW t \in Threads, ReadQparams(t) PROVE AppInv'
  <2>1. /\ DOMAIN thread'[t] = ThreadFields /\ thread'[t].pc = "package"
        /\ thread'[t].image = thread[t].image /\ thread'[t].run = thread[t].run
    BY <1>3 DEF ReadQparams
  <2>2. DOMAIN thread' = Threads /\ \A u \in Threads : u # t => thread'[u] = thread[u]
    BY <1>3 DEF ReadQparams
  <2>3. thread[t].pc = "qparams" /\ lock' = lock
    BY <1>3 DEF ReadQparams
  <2> HIDE DEF Idle, ThreadFields
  <2>4. \A u \in Threads : Progress(u)'
    <3>1. Progress(t)'
      <4>1. Progress(t)
        OBVIOUS
      <4> QED BY <4>1, <2>1, <2>3, Zenon
    <3>2. \A u \in Threads : u # t => Progress(u)'
      BY <2>2
    <3> QED BY <3>1, <3>2
  <2>5. Shape' /\ Exclusive' /\ Unmade' /\ ResultsTrue'
    BY <2>1, <2>2, <2>3
  <2> QED BY <2>4, <2>5
<1>4. ASSUME NEW t \in Threads, CheckArtifacts(t) PROVE AppInv'
  <2>1. /\ DOMAIN thread'[t] = ThreadFields /\ thread'[t].pc \in {"session", "failed"}
        /\ thread'[t].image = thread[t].image /\ thread'[t].run = thread[t].run
        /\ thread'[t].domain = thread[t].domain
    BY <1>4 DEF CheckArtifacts
  <2>2. DOMAIN thread' = Threads /\ \A u \in Threads : u # t => thread'[u] = thread[u]
    BY <1>4 DEF CheckArtifacts
  <2>3. thread[t].pc = "artifacts" /\ lock' = lock
    BY <1>4 DEF CheckArtifacts
  <2> HIDE DEF Idle, ThreadFields
  <2> QED BY <2>1, <2>2, <2>3
<1>5. ASSUME NEW t \in Threads, Fail(t) PROVE AppInv'
  BY <1>5 DEF Fail
<1>6. ASSUME NEW t \in Threads, Answer(t) PROVE AppInv'
  BY <1>6 DEF Answer, Release
<1>7. CASE Kill
  BY <1>7 DEF Kill
<1> QED BY <1>1, <1>2, <1>3, <1>4, <1>5, <1>6, <1>7

(* A step that writes one field of the directory of the thread. *)
LEMMA DirectoryStep ==
  ASSUME Nobody \notin Threads, AppInv, NEW t \in Threads,
         \/ WriteSource(t) \/ Package(t) \/ Session(t) \/ Predictions(t) \/ Visualize(t) \/ WriteResult(t)
  PROVE  AppInv'
<1> DEFINE id == thread[t].run
           pc == thread[t].pc
<1>1. /\ pc \in Working \ {"mkdir"} /\ id \in RunIds /\ lock = t /\ lock' = lock
      /\ DOMAIN runs = RunIds /\ DOMAIN runs[id] = RunFields /\ DOMAIN thread = Threads
  BY DEF AppInv, Shape, Exclusive, Progress, Busy, Working, WriteSource, Package, Session, Predictions,
         Visualize, WriteResult
<1>2. \A u \in Threads : u # t => thread[u].pc \notin Working
  BY <1>1 DEF AppInv, Exclusive, Busy
<1>3. \E next : Goes(t, next)
  BY DEF WriteSource, Package, Session, Predictions, Visualize, WriteResult
<1>4. /\ DOMAIN thread' = Threads /\ DOMAIN thread'[t] = ThreadFields
      /\ \A u \in Threads : u # t => thread'[u] = thread[u]
      /\ id' = id /\ thread'[t].image = thread[t].image /\ thread'[t].domain = thread[t].domain
  BY <1>1, <1>3 DEF Goes, AppInv, Shape, ThreadFields, Idle
<1>5. /\ DOMAIN runs' = RunIds /\ DOMAIN runs'[id] = RunFields
      /\ \A other \in RunIds : other # id => runs'[other] = runs[other]
      /\ runs'[id].made = runs[id].made
  BY <1>1 DEF Set, AppInv, Shape, RunFields, NoRun, WriteSource, Package, Session, Predictions, Visualize,
         WriteResult
<1>6. Shape' /\ Exclusive'
  BY <1>1, <1>2, <1>3, <1>4, <1>5 DEF AppInv, Shape, Exclusive, Busy, Working, Goes, ThreadFields, Idle,
     WriteSource, Package, Session, Predictions, Visualize, WriteResult
<1>7. \A u \in Threads : u # t => Progress(u)'
  <2> SUFFICES ASSUME NEW u \in Threads, u # t PROVE Progress(u)'
    OBVIOUS
  <2>1. thread'[u] = thread[u] /\ thread[u].pc \notin Working /\ Progress(u)
    BY <1>2, <1>4 DEF AppInv
  <2> QED BY <2>1 DEF Progress, Working
<1>8. Progress(t)'
  <2> USE <1>1, <1>4, <1>5 DEF AppInv, Progress, Working, Goes, Set, Shape, RunFields, NoRun, ThreadFields, Idle
  <2>1. CASE WriteSource(t)
    BY <2>1 DEF WriteSource
  <2>2. CASE Package(t)
    BY <2>2 DEF Package
  <2>3. CASE Session(t)
    BY <2>3 DEF Session, BoardAccepts
  <2>4. CASE Predictions(t)
    <3>1. CASE thread'[t].pc = "visualize"
      <4>1. /\ runs'[id].predictions = runs[id].board /\ runs'[id].board = runs[id].board
            /\ runs'[id].source = runs[id].source /\ runs'[id].input = runs[id].input
            /\ runs'[id].result = runs[id].result
        BY <2>4, <3>1 DEF Predictions
      <4>2. pc = "predictions" /\ Progress(t)
        BY <2>4 DEF Predictions
      <4> HIDE DEF Set, Goes, Idle, NoRun, RunFields, ThreadFields
      <4> QED BY <3>1, <4>1, <4>2
    <3>2. CASE thread'[t].pc # "visualize"
      BY <2>4, <3>2 DEF Predictions
    <3> QED BY <3>1, <3>2
  <2>5. CASE Visualize(t)
    BY <2>5 DEF Visualize
  <2>6. CASE WriteResult(t)
    BY <2>6 DEF WriteResult
  <2> QED BY <2>1, <2>2, <2>3, <2>4, <2>5, <2>6
<1>9. Unmade' /\ ResultsTrue'
  <2>1. CASE ~WriteResult(t)
    <3>1. runs'[id].result = Absent
      <4>1. runs[id].result = Absent
        BY <1>1 DEF AppInv, Progress
      <4>2. CASE runs' = runs
        BY <4>1, <4>2
      <4>3. CASE \E field \in RunFields \ {"result"} : \E value : Set(t, field, value)
        BY <4>1, <4>3, <1>1 DEF Set
      <4>4. runs' = runs \/ \E field \in RunFields \ {"result"} : \E value : Set(t, field, value)
        BY <2>1 DEF RunFields, NoRun, WriteSource, Package, Session, Predictions, Visualize
      <4> QED BY <4>2, <4>3, <4>4
    <3> QED BY <3>1, <1>5 DEF AppInv, Unmade, ResultsTrue
  <2>2. CASE WriteResult(t)
    <3>1. /\ runs'[id].result = [image |-> thread[t].image, detections |-> runs[id].board,
                                 domain |-> thread[t].domain]
          /\ runs'[id].source = runs[id].source /\ runs'[id].predictions = runs[id].predictions
          /\ runs'[id].visualization = runs[id].visualization
      BY <2>2, <1>1 DEF WriteResult, Set, RunFields, NoRun
    <3>2. /\ id[2] = thread[t].image /\ runs[id].made
          /\ runs[id].source = thread[t].image
          /\ runs[id].board = [image |-> thread[t].image, model |-> thread[t].domain]
          /\ runs[id].predictions = runs[id].board
          /\ runs[id].visualization = [image |-> thread[t].image, of |-> runs[id].predictions]
      BY <2>2, <1>1 DEF WriteResult, AppInv, Progress, Working
    <3>3. Unmade'
      BY <3>2, <1>5 DEF AppInv, Unmade
    <3>4. ASSUME NEW x \in RunIds, runs'[x].result # Absent
          PROVE  /\ runs'[x].source = x[2] /\ runs'[x].result.image = x[2]
                 /\ runs'[x].result.detections = [image |-> x[2], model |-> runs'[x].result.domain]
                 /\ runs'[x].predictions = runs'[x].result.detections
                 /\ runs'[x].visualization = [image |-> x[2], of |-> runs'[x].predictions]
      <4>1. CASE x = id
        <5> HIDE DEF id
        <5> QED BY <4>1, <3>1, <3>2
      <4>2. CASE x # id
        BY <4>2, <3>4, <1>5 DEF AppInv, ResultsTrue
      <4> QED BY <4>1, <4>2
    <3> QED BY <3>3, <3>4 DEF ResultsTrue
  <2> QED BY <2>1, <2>2
<1> QED BY <1>6, <1>7, <1>8, <1>9 DEF AppInv

(* A new directory holds nothing yet; one that is there is left alone. *)
LEMMA MkdirStep ==
  ASSUME Nobody \notin Threads, AppInv, NEW t \in Threads, Mkdir(t)
  PROVE  AppInv'
<1>1. PICK stamp \in Stamps : MakeRunDirectory(t, <<stamp, thread[t].image>>)
  BY DEF Mkdir
<1> DEFINE id == <<stamp, thread[t].image>>
<1>2. thread[t].pc = "mkdir" /\ lock' = lock /\ thread[t].image \in Images
  BY DEF Mkdir, AppInv, Progress, Working
<1>3. id \in RunIds /\ id[2] = thread[t].image
  BY <1>2 DEF RunIds
<1>4. /\ DOMAIN thread' = Threads /\ DOMAIN thread'[t] = ThreadFields
      /\ thread'[t].image = thread[t].image /\ thread'[t].run = id
      /\ thread'[t].pc = (IF runs[id].made THEN "failed" ELSE "source")
      /\ \A u \in Threads : u # t => thread'[u] = thread[u]
  BY <1>1 DEF MakeRunDirectory, AppInv, Shape, ThreadFields, Idle
<1>5. /\ DOMAIN runs' = RunIds /\ runs'[id].made
      /\ \A x \in RunIds : /\ DOMAIN runs'[x] = RunFields
                           /\ x # id => runs'[x] = runs[x]
                           /\ \A f \in RunFields \ {"made"} : runs'[x][f] = runs[x][f]
  BY <1>1, <1>3 DEF MakeRunDirectory, AppInv, Shape, RunFields, NoRun
<1> HIDE DEF id
<1>6. \A u \in Threads : u # t => thread[u].pc \notin Working
  BY <1>2 DEF AppInv, Exclusive, Busy, Working
<1>7. Shape' /\ Exclusive'
  BY <1>2, <1>4, <1>5 DEF AppInv, Shape, Exclusive, Busy, Working
<1>8. \A u \in Threads : u # t => Progress(u)'
  <2> SUFFICES ASSUME NEW u \in Threads, u # t PROVE Progress(u)'
    OBVIOUS
  <2>1. thread'[u] = thread[u] /\ thread[u].pc \notin Working /\ Progress(u)
    BY <1>4, <1>6 DEF AppInv
  <2> QED BY <2>1 DEF Progress, Working
<1>9. Progress(t)'
  <2>1. CASE runs[id].made
    BY <2>1, <1>4 DEF Progress, Working
  <2>2. CASE ~runs[id].made
    <3>1. runs[id].result = Absent
      BY <2>2, <1>3 DEF AppInv, Unmade
    <3>2. runs'[id].result = Absent
      BY <3>1, <1>3, <1>5 DEF RunFields, NoRun
    <3> QED BY <2>2, <3>2, <1>2, <1>3, <1>4, <1>5 DEF Progress, Working
  <2> QED BY <2>1, <2>2
<1>10. Unmade' /\ ResultsTrue'
  <2>1. \A x \in RunIds : /\ runs'[x].result = runs[x].result /\ runs'[x].source = runs[x].source
                          /\ runs'[x].predictions = runs[x].predictions
                          /\ runs'[x].visualization = runs[x].visualization
                          /\ ~runs'[x].made => ~runs[x].made
    BY <1>5 DEF RunFields, NoRun
  <2> QED BY <2>1 DEF AppInv, Unmade, ResultsTrue
<1> QED BY <1>7, <1>8, <1>9, <1>10 DEF AppInv

LEMMA WriteErrorStep ==
  ASSUME Nobody \notin Threads, AppInv, NEW t \in Threads, WriteError(t)
  PROVE  AppInv'
<1>1. /\ thread[t].pc = "failed" /\ lock' = lock
      /\ thread' \in {[thread EXCEPT ![t].pc = "refused"], [thread EXCEPT ![t].pc = "broken"]}
  BY DEF WriteError, Goes
<1>2. /\ DOMAIN thread' = Threads /\ DOMAIN thread'[t] = ThreadFields
      /\ thread'[t].pc \in {"refused", "broken"}
      /\ \A u \in Threads : u # t => thread'[u] = thread[u]
  BY <1>1 DEF AppInv, Shape, ThreadFields, Idle
<1>3. /\ DOMAIN runs' = RunIds
      /\ \A x \in RunIds : /\ DOMAIN runs'[x] = RunFields
                           /\ \A f \in RunFields \ {"error"} : runs'[x][f] = runs[x][f]
  BY DEF WriteError, AppInv, Shape, RunFields, NoRun
<1>4. Shape' /\ Exclusive'
  BY <1>1, <1>2, <1>3 DEF AppInv, Shape, Exclusive, Busy, Working
<1>5. \A u \in Threads : Progress(u)'
  <2>1. Progress(t)'
    BY <1>2 DEF Progress, Working
  <2>2. ASSUME NEW u \in Threads, u # t PROVE Progress(u)'
    <3>1. thread'[u] = thread[u] /\ thread[u].pc \notin Working /\ Progress(u)
      BY <2>2, <1>1, <1>2 DEF AppInv, Exclusive, Busy, Working
    <3> QED BY <3>1 DEF Progress, Working
  <2> QED BY <2>1, <2>2
<1>6. Unmade' /\ ResultsTrue'
  <2>1. \A x \in RunIds : /\ runs'[x].result = runs[x].result /\ runs'[x].source = runs[x].source
                          /\ runs'[x].predictions = runs[x].predictions
                          /\ runs'[x].visualization = runs[x].visualization
                          /\ runs'[x].made = runs[x].made
    BY <1>3 DEF RunFields, NoRun
  <2> QED BY <2>1 DEF AppInv, Unmade, ResultsTrue
<1> QED BY <1>4, <1>5, <1>6 DEF AppInv

LEMMA AppInvStep ==
  ASSUME Nobody \notin Threads, AppInv, [AppNext]_avars
  PROVE  AppInv'
<1>1. CASE UNCHANGED avars \/ Serve \/ Restart \/ Deploy \/ Reprogram
  <2>1. UNCHANGED <<lock, thread, runs>>
    BY <1>1 DEF avars, Serve, Restart, Deploy, Reprogram
  <2> QED BY <2>1 DEF AppInv, Shape, Exclusive, Progress, Unmade, ResultsTrue
<1>2. CASE Kill
  BY <1>2, ThreadsOnly DEF Kill
<1>3. ASSUME NEW t \in Threads, Post(t) \/ Step(t) \/ Fail(t)
      PROVE  AppInv'
  <2>1. CASE Post(t) \/ TakeLock(t) \/ ReadQparams(t) \/ CheckArtifacts(t) \/ Fail(t) \/ Answer(t)
    <3>1. UNCHANGED runs
      BY <2>1 DEF Post, TakeLock, ReadQparams, CheckArtifacts, Fail, Answer
    <3> QED BY <2>1, <3>1, ThreadsOnly
  <2>2. CASE \/ WriteSource(t) \/ Package(t) \/ Session(t) \/ Predictions(t) \/ Visualize(t) \/ WriteResult(t)
    BY <2>2, DirectoryStep
  <2>3. CASE Mkdir(t) \/ WriteError(t)
    BY <2>3, MkdirStep, WriteErrorStep
  <2> QED BY <1>3, <2>1, <2>2, <2>3 DEF Step
<1> QED BY <1>1, <1>2, <1>3 DEF AppNext

(* However many threads the server starts, whatever fails and however often  *)
(* models are exchanged: one request at a time works with the board, and the *)
(* lock is its; and every result that is published is one image's through    *)
(* one model (inference_app.py:185, 294-296, 311-442, 461).                  *)
THEOREM OneRequestOneModel == ASSUME Nobody \notin Threads PROVE AppSpec => []AppTrue
<1>1. AppInit => AppInv
  BY AppInvInit
<1>2. AppInv /\ [AppNext]_avars => AppInv'
  BY AppInvStep
<1>3. AppInv => AppTrue
  BY DEF AppInv, Exclusive, OneOnBoard, AppTrue
<1> QED BY <1>1, <1>2, <1>3, PTL DEF AppSpec

-----------------------------------------------------------------------------
(* What is under way *)

Listed(s) == Len(s) \in Nat /\ s = [i \in 1 .. Len(s) |-> s[i]]

\* The packages of some images, each of one.
PackageList(s) == Listed(s) /\ \A i \in 1 .. Len(s) : s[i] = PackageOf(s[i].image)

Framed(m) == {"type", "body"} \subseteq DOMAIN m

\* Nothing in m is taken for the board's packages that is not.
Sound(m) ==
  /\ m.type = "RESULT" => PackageList(m.body)
  /\ m.type = "TIMING" => PackageList(m.body.rescrc)

Links ==
  /\ DOMAIN net = Conns
  /\ \A k \in Conns :
       /\ DOMAIN net[k] = {"host", "board", "up", "down"}
       /\ Listed(net[k].up) /\ Listed(net[k].down)
       /\ \A i \in 1 .. Len(net[k].up) : Framed(net[k].up[i])
       /\ \A i \in 1 .. Len(net[k].down) : Framed(net[k].down[i])

\* At most one answer is wrong, and the result the host holds counts as one.
OneWrong ==
  /\ \A k, l \in Conns : \A i \in 1 .. Len(net[k].down), j \in 1 .. Len(net[l].down) :
       ~Sound(net[k].down[i]) /\ ~Sound(net[l].down[j]) => k = l /\ i = j
  /\ \A k \in Conns : \A i \in 1 .. Len(net[k].down) :
       ~Sound(net[k].down[i]) => ~honest /\ PackageList(host.result)
  /\ ~PackageList(host.result) => ~honest

\* The board sends what it made.
SrvFields ==
  {"pc", "conn", "open", "phase", "expected", "first", "count", "received", "completed",
   "sent", "incrc", "rescrc", "fatal", "released", "queued", "acked", "transport",
   "binding", "rx", "ready", "active", "inputs", "results", "i", "request", "frame"}

BoardGood(s) ==
  /\ DOMAIN s = SrvFields
  /\ s.conn # 0 => s.conn \in Conns
  /\ s.rx = NoMsg \/ Framed(s.rx)
  /\ s.active = NoMsg \/ Framed(s.active)
  /\ PackageList(s.results)
  /\ s.pc = "sending" =>
       /\ "m" \in DOMAIN s.frame
       /\ Framed(s.frame.m) /\ s.frame.m.type = "RESULT" /\ PackageList(s.frame.m.body)

-----------------------------------------------------------------------------
(* The run and its files *)

Kind(a) == ModeOf(a.mode).kind
ImageOf(a, n) == DataSet[a.records[n] + 1]
Base(a) == IF a.selection THEN 0 ELSE a.first

\* Entries of the two files when so many records are done.
Packed(a, done) == IF Kind(a) = "TIMING" THEN 0 ELSE done
RowsOf(a, done) == IF ModeOf(a.mode).transport THEN 0 ELSE done

RowRight(a, n, row) ==
  /\ row.image = ImageOf(a, n) /\ row.sound
  /\ row.kind = Kind(a) /\ row.profile = ModeOf(a.mode).profile

DataRight(a, n, data) == \A i \in 1 .. n : data[i] = PackageOf(ImageOf(a, i))
TimingRight(a, n, rows) == \A i \in 1 .. n : RowRight(a, i, rows[i])

EntriesRight(a, done, entries) ==
  /\ Listed(entries) /\ Len(entries) = Packed(a, done)
  /\ \A i \in 1 .. Len(entries) :
       entries[i].crc = PackageOf(ImageOf(a, i)) /\ entries[i].offset = i - 1

\* Where chunk n ends, and that the chunks cover the first records done.
EndOf(a, chunks, n) == IF n = 0 THEN Base(a) ELSE chunks[n].first + chunks[n].count

TiledTo(a, done, chunks) ==
  /\ Listed(chunks)
  /\ \A n \in 1 .. Len(chunks) : chunks[n].first = EndOf(a, chunks, n - 1)
  /\ EndOf(a, chunks, Len(chunks)) = Base(a) + done
  /\ a.warmup <= done => \E n \in 0 .. Len(chunks) : EndOf(a, chunks, n) = Base(a) + a.warmup

\* The two files hold the first records done and no more.
Files(a, done, d) ==
  /\ Len(d.data) = Packed(a, done) /\ Len(d.timing) = RowsOf(a, done)
  /\ DataRight(a, Len(d.data), d.data)
  /\ TimingRight(a, Len(d.timing), d.timing)

HostFields ==
  {"pc", "args", "resume", "conn", "seq", "stage", "completed", "entries", "chunks",
   "session_records", "incrc", "rescrc", "request", "result", "timing", "outcome"}

DiskFields ==
  {"dir", "data", "timing", "data_safe", "timing_safe", "ckpt", "index", "results_index",
   "summary"}

Fields ==
  /\ DOMAIN host = HostFields /\ DOMAIN disk = DiskFields
  /\ Listed(disk.data) /\ Listed(disk.timing)
  /\ disk.data_safe \in 0 .. Len(disk.data)
  /\ disk.timing_safe \in 0 .. Len(disk.timing)
  /\ ~disk.dir => disk = Empty

\* The call in progress: what it has done is in its files, and nothing else is.
Reach == IF host.pc = "sync" THEN host.completed + ChunkCount ELSE host.completed

Whereabouts ==
  /\ host.pc \in {"connect", "send", "await", "sync", "checkpoint"} \cup Publishing
  /\ host.pc \in {"send", "await"} =>
       host.stage \in {"hello", "parameters", "input", "run", "timing", "end"}
  /\ host.pc = "send" => host.stage # "timing"
  /\ host.pc \in {"send", "await"} /\ host.stage \in {"run", "timing"} => ~Transport
  /\ host.pc \in {"send", "await"} /\ host.stage = "timing" => WritesData
  /\ (host.pc \in {"send", "await"} /\ host.stage \in {"input", "run", "timing"})
       \/ host.pc = "sync" => host.completed < Count(host.args)
  /\ (host.pc \in {"send", "await"} /\ host.stage = "end") \/ host.pc \in Publishing =>
       host.completed = Count(host.args)
  /\ host.pc \notin {"connect"} => host.conn \in Conns

RunRight ==
  /\ host.args \in Arguments /\ ArgumentsOk(host.args)
  /\ host.completed \in 0 .. Count(host.args)
  /\ EntriesRight(host.args, host.completed, host.entries)
  /\ TiledTo(host.args, host.completed, host.chunks)
  /\ Files(host.args, Reach, disk)
  /\ host.pc # "sync" => disk.data_safe = Len(disk.data) /\ disk.timing_safe = Len(disk.timing)
  /\ disk.dir

\* The result at hand.
Holding ==
  /\ host.pc # "sync" /\ ~(host.pc = "await" /\ host.stage = "timing") => host.result = <<>>
  /\ host.pc = "sync" =>
       IF WritesData THEN host.result = [n \in 1 .. ChunkCount |-> PackageOf(ChunkImages[n])]
       ELSE host.result = <<>>

\* The checkpoint is one of a, and of what is safe.
SameRun(c, a) ==
  /\ c.mode = a.mode /\ c.first = a.first /\ c.count = Count(a)
  /\ c.warmup = a.warmup /\ c.binding = a.binding

CkptRight(c, a, d) ==
  /\ ArgumentsOk(a) /\ SameRun(c, a)
  /\ c.completed \in 0 .. Count(a) /\ c.timing_records = RowsOf(a, c.completed)
  /\ EntriesRight(a, c.completed, c.entries) /\ TiledTo(a, c.completed, c.chunks)
  /\ Packed(a, c.completed) <= d.data_safe
  /\ RowsOf(a, c.completed) <= d.timing_safe
  /\ DataRight(a, Packed(a, c.completed), d.data)
  /\ TimingRight(a, RowsOf(a, c.completed), d.timing)
  /\ Kind(a) = "TIMING" => d.data = <<>>
  /\ ModeOf(a.mode).transport => d.timing = <<>>

Checkpointed ==
  /\ disk.ckpt # None => disk.dir /\ \E a \in Arguments : CkptRight(disk.ckpt, a, disk)
  /\ host.pc # "idle" =>
       IF disk.ckpt = None THEN host.pc = "checkpoint" \/ host.completed = 0
       ELSE /\ SameRun(disk.ckpt, host.args)
            /\ IF host.pc = "checkpoint" THEN disk.ckpt.completed < host.completed
               ELSE disk.ckpt.completed = host.completed

\* The index of raw heads.
IndexRight(a, d) ==
  Kind(a) = "RAW" =>
    /\ d.index.data = d.data
    /\ \A n \in 1 .. Count(a) : d.index.rows[n].crc = d.data[n]

Summed(a, d) ==
  /\ ArgumentsOk(a)
  /\ Files(a, Count(a), d)
  /\ d.data_safe = Len(d.data) /\ d.timing_safe = Len(d.timing)
  /\ TiledTo(a, Count(a), d.summary.chunks)
  /\ IndexRight(a, d)
  /\ d.ckpt # None => SameRun(d.ckpt, a) /\ d.ckpt.completed = Count(a)

PublishedRight ==
  /\ host.pc \in {"results_index", "summary", "unlink"} => IndexRight(host.args, disk)
  /\ disk.summary # None =>
       /\ disk.dir /\ disk.summary.args \in Arguments
       /\ Summed(disk.summary.args, disk)
       /\ host.pc # "idle" => disk.ckpt # None

HostInv ==
  /\ Fields
  /\ host.pc # "idle" => Whereabouts /\ RunRight
  /\ Holding /\ Checkpointed /\ PublishedRight

RunInv == Links /\ OneWrong /\ BoardGood(srv) /\ HostInv

-----------------------------------------------------------------------------
(* Lists *)

LEMMA ListedSeq ==
  ASSUME NEW s, Listed(s), NEW S, \A i \in 1 .. Len(s) : s[i] \in S
  PROVE  s \in Seq(S)
  BY SeqDef DEF Listed

LEMMA ListOf ==
  ASSUME NEW n \in Nat, NEW f, f = [i \in 1 .. n |-> f[i]]
  PROVE  Listed(f) /\ Len(f) = n
<1> DEFINE S == {f[i] : i \in 1 .. n}
<1>1. f \in [1 .. n -> S]
  OBVIOUS
<1>2. f \in Seq(S)
  BY <1>1, SeqDef
<1>3. Len(f) = n
  BY <1>1, <1>2, LenProperties
<1> QED BY <1>3 DEF Listed

LEMMA EmptyList ==
  /\ Listed(<<>>) /\ Len(<<>>) = 0 /\ PackageList(<<>>)
  /\ \A s : Listed(s) => (Len(s) = 0 <=> s = <<>>)
<1>1. Listed(<<>>) /\ Len(<<>>) = 0
  BY DEF Listed
<1>2. ASSUME NEW s, Listed(s)
      PROVE  Len(s) = 0 <=> s = <<>>
  <2> DEFINE S == {s[i] : i \in 1 .. Len(s)}
  <2>1. s \in Seq(S)
    BY <1>2, ListedSeq
  <2> QED BY <2>1, EmptySeq
<1> QED BY <1>1, <1>2 DEF PackageList

LEMMA AppendList ==
  ASSUME NEW s, Listed(s), NEW x
  PROVE  /\ Listed(Append(s, x)) /\ Len(Append(s, x)) = Len(s) + 1
         /\ \A i \in 1 .. Len(s) : Append(s, x)[i] = s[i]
         /\ Append(s, x)[Len(s) + 1] = x
<1> DEFINE S == {s[i] : i \in 1 .. Len(s)} \cup {x}
<1>1. s \in Seq(S) /\ x \in S
  <2>1. \A i \in 1 .. Len(s) : s[i] \in S
    OBVIOUS
  <2> HIDE DEF S
  <2>2. s \in Seq(S)
    BY <2>1, ListedSeq
  <2> QED BY <2>2 DEF S
<1> HIDE DEF S
<1>2. /\ Append(s, x) \in Seq(S) /\ Len(Append(s, x)) = Len(s) + 1
      /\ \A i \in 1 .. Len(s) : Append(s, x)[i] = s[i]
      /\ Append(s, x)[Len(s) + 1] = x
  BY <1>1, AppendProperties
<1>3. Listed(Append(s, x))
  BY <1>2, LenProperties DEF Listed
<1> QED BY <1>2, <1>3

LEMMA TailList ==
  ASSUME NEW s, Listed(s), s # <<>>
  PROVE  /\ Listed(Tail(s)) /\ Len(Tail(s)) = Len(s) - 1 /\ Len(s) >= 1
         /\ \A i \in 1 .. Len(s) - 1 : Tail(s)[i] = s[i + 1]
         /\ Head(s) = s[1]
<1> DEFINE S == {s[i] : i \in 1 .. Len(s)}
<1>1. s \in Seq(S)
  BY ListedSeq
<1> HIDE DEF S
<1>2. /\ Tail(s) \in Seq(S) /\ Len(Tail(s)) = Len(s) - 1
      /\ \A i \in 1 .. Len(Tail(s)) : Tail(s)[i] = s[i + 1]
      /\ Head(s) = s[1]
  BY <1>1, HeadTailProperties
<1>3. Len(s) \in Nat /\ Len(s) # 0
  BY <1>1, EmptyList DEF Listed
<1>4. Listed(Tail(s))
  BY <1>2, LenProperties DEF Listed
<1> QED BY <1>2, <1>3, <1>4

LEMMA ConcatList ==
  ASSUME NEW s, Listed(s), NEW t, Listed(t)
  PROVE  /\ Listed(s \o t) /\ Len(s \o t) = Len(s) + Len(t)
         /\ \A i \in 1 .. Len(s) : (s \o t)[i] = s[i]
         /\ \A i \in 1 .. Len(t) : (s \o t)[Len(s) + i] = t[i]
<1> DEFINE S == {s[i] : i \in 1 .. Len(s)} \cup {t[i] : i \in 1 .. Len(t)}
<1>1. s \in Seq(S) /\ t \in Seq(S)
  <2>1. (\A i \in 1 .. Len(s) : s[i] \in S) /\ (\A i \in 1 .. Len(t) : t[i] \in S)
    OBVIOUS
  <2> HIDE DEF S
  <2> QED BY <2>1, ListedSeq
<1> HIDE DEF S
<1>2. Len(s) \in Nat /\ Len(t) \in Nat
  BY DEF Listed
<1>3. /\ s \o t \in Seq(S) /\ Len(s \o t) = Len(s) + Len(t)
      /\ \A i \in 1 .. Len(s) + Len(t) :
           (s \o t)[i] = IF i <= Len(s) THEN s[i] ELSE t[i - Len(s)]
  BY <1>1, ConcatProperties
<1>4. Listed(s \o t)
  BY <1>3, LenProperties DEF Listed
<1>5. \A i \in 1 .. Len(s) : (s \o t)[i] = s[i]
  BY <1>2, <1>3
<1>6. \A i \in 1 .. Len(t) : (s \o t)[Len(s) + i] = t[i]
  BY <1>2, <1>3
<1> QED BY <1>3, <1>4, <1>5, <1>6

LEMMA PrefixList ==
  ASSUME NEW s, NEW n \in Nat
  PROVE  /\ Listed(SubSeq(s, 1, n)) /\ Len(SubSeq(s, 1, n)) = n
         /\ \A i \in 1 .. n : SubSeq(s, 1, n)[i] = s[i]
<1> DEFINE f == [i \in 1 .. n |-> s[i]]
<1>1. SubSeq(s, 1, n) = f
  OBVIOUS
<1>2. f = [i \in 1 .. n |-> f[i]]
  OBVIOUS
<1>3. \A i \in 1 .. n : f[i] = s[i]
  OBVIOUS
<1> HIDE DEF f
<1>4. Listed(f) /\ Len(f) = n
  BY <1>2, ListOf
<1> QED BY <1>1, <1>3, <1>4

\* Two lists of the same entries.
LEMMA SameList ==
  ASSUME NEW s, Listed(s), NEW t, Listed(t), Len(s) = Len(t),
         \A i \in 1 .. Len(s) : s[i] = t[i]
  PROVE  s = t
  BY DEF Listed

-----------------------------------------------------------------------------
(* Messages under way *)

\* A line that a step leaves as it is, cuts or lengthens: it has the form of one,
\* and what is wrong on it was wrong before.
Line(s) == Listed(s) /\ \A i \in 1 .. Len(s) : Framed(s[i])

Carried(old, new) ==
  \E d \in {0, 1} : \A i \in 1 .. Len(new) :
    ~Sound(new[i]) => i + d \in 1 .. Len(old) /\ ~Sound(old[i + d])

Passes(old, new) == Line(new) /\ Carried(old, new)

LEMMA PassSame ==
  ASSUME NEW s, Line(s)
  PROVE  Passes(s, s)
<1>1. \A i \in 1 .. Len(s) : ~Sound(s[i]) => i + 0 \in 1 .. Len(s) /\ ~Sound(s[i + 0])
  BY DEF Line, Listed
<1> QED BY <1>1 DEF Passes, Carried

LEMMA PassEmpty ==
  ASSUME NEW s
  PROVE  Line(<<>>) /\ Passes(s, <<>>)
  BY EmptyList DEF Line, Passes, Carried

LEMMA PassTail ==
  ASSUME NEW s, Line(s), s # <<>>
  PROVE  Passes(s, Tail(s)) /\ Framed(Head(s))
<1>1. /\ Listed(Tail(s)) /\ Len(Tail(s)) = Len(s) - 1 /\ Len(s) >= 1
      /\ \A i \in 1 .. Len(s) - 1 : Tail(s)[i] = s[i + 1]
      /\ Head(s) = s[1]
  BY TailList DEF Line
<1>2. Len(s) \in Nat
  BY DEF Line, Listed
<1>3. \A i \in 1 .. Len(Tail(s)) : i + 1 \in 1 .. Len(s) /\ Tail(s)[i] = s[i + 1]
  BY <1>1, <1>2
<1>4. Carried(s, Tail(s))
  BY <1>3 DEF Carried
<1>5. Framed(Head(s))
  BY <1>1, <1>2 DEF Line
<1> QED BY <1>1, <1>3, <1>4, <1>5 DEF Passes, Line

LEMMA PassAppend ==
  ASSUME NEW s, Line(s), NEW m, Framed(m)
  PROVE  Line(Append(s, m)) /\ (Sound(m) => Passes(s, Append(s, m)))
<1> DEFINE r == Append(s, m)
<1>1. /\ Listed(r) /\ Len(r) = Len(s) + 1
      /\ \A i \in 1 .. Len(s) : r[i] = s[i]
      /\ r[Len(s) + 1] = m
  BY AppendList DEF Line
<1>2. Len(s) \in Nat
  BY DEF Line, Listed
<1> HIDE DEF r
<1>3. \A i \in 1 .. Len(r) : i \in 1 .. Len(s) \/ i = Len(s) + 1
  BY <1>1, <1>2
<1>4. Line(r)
  BY <1>1, <1>3 DEF Line
<1>5. ASSUME Sound(m) PROVE Carried(s, r)
  <2>1. \A i \in 1 .. Len(r) : ~Sound(r[i]) => i + 0 \in 1 .. Len(s) /\ ~Sound(s[i + 0])
    BY <1>1, <1>2, <1>3, <1>5
  <2> QED BY <2>1 DEF Carried
<1> QED BY <1>4, <1>5 DEF r, Passes

\* A message that loses no more than its CRC stays what it was.
LEMMA Marked ==
  ASSUME NEW m, Framed(m), NEW b
  PROVE  /\ Framed([m EXCEPT !.intact = b])
         /\ Sound([m EXCEPT !.intact = b]) <=> Sound(m)
<1> DEFINE w == [m EXCEPT !.intact = b]
<1>1. DOMAIN w = DOMAIN m /\ w.type = m.type /\ w.body = m.body
  BY DEF Framed
<1> HIDE DEF w
<1> QED BY <1>1 DEF Framed, Sound, w

LEMMA PassMarked ==
  ASSUME NEW s, Line(s), NEW j \in 1 .. Len(s), NEW b
  PROVE  Passes(s, [s EXCEPT ![j].intact = b])
<1> DEFINE w == [s[j] EXCEPT !.intact = b]
           r == [s EXCEPT ![j] = w]
<1>1. Framed(w) /\ (Sound(w) <=> Sound(s[j]))
  BY Marked DEF Line
<1>2. [s EXCEPT ![j].intact = b] = r
  OBVIOUS
<1> HIDE DEF w
<1>3. Len(s) \in Nat /\ s = [i \in 1 .. Len(s) |-> s[i]]
  BY DEF Line, Listed
<1>4. /\ \A i \in 1 .. Len(s) : r[i] = IF i = j THEN w ELSE s[i]
      /\ r = [i \in 1 .. Len(s) |-> r[i]]
  BY <1>3
<1> HIDE DEF r
<1>5. Listed(r) /\ Len(r) = Len(s)
  BY <1>3, <1>4, ListOf
<1>6. \A i \in 1 .. Len(r) : i + 0 \in 1 .. Len(s) /\ (Sound(r[i]) <=> Sound(s[i + 0])) /\ Framed(r[i])
  BY <1>1, <1>3, <1>4, <1>5 DEF Line
<1>7. Carried(s, r)
  BY <1>6 DEF Carried
<1> QED BY <1>2, <1>5, <1>6, <1>7 DEF Passes, Line

\* The network, link by link.
Link(c) == DOMAIN c = {"host", "board", "up", "down"} /\ Line(c.up) /\ Line(c.down)

LinkMoves(old, new) ==
  DOMAIN new = {"host", "board", "up", "down"} /\ Line(new.up) /\ Passes(old.down, new.down)

LEMMA LinksAre == Links <=> DOMAIN net = Conns /\ \A k \in Conns : Link(net[k])
  BY DEF Links, Link, Line

\* A step that leaves on every line what was there keeps the lines, and with it at
\* most one message wrong.
LEMMA NetKept ==
  ASSUME Links, OneWrong,
         DOMAIN net' = Conns, \A k \in Conns : LinkMoves(net[k], net'[k]),
         honest' = honest, PackageList(host'.result) \/ host'.result = host.result
  PROVE  Links' /\ OneWrong'
<1>1. Links'
  BY DEF Links, LinkMoves, Passes, Line
<1>2. \A k \in Conns : Carried(net[k].down, net'[k].down)
  BY DEF LinkMoves, Passes
<1>3. ASSUME NEW k \in Conns, NEW i \in 1 .. Len(net'[k].down), ~Sound(net'[k].down[i])
      PROVE  /\ \E d \in {0, 1} : i + d \in 1 .. Len(net[k].down) /\ ~Sound(net[k].down[i + d])
             /\ ~honest /\ PackageList(host.result)
  <2>1. \E d \in {0, 1} : i + d \in 1 .. Len(net[k].down) /\ ~Sound(net[k].down[i + d])
    BY <1>2, <1>3 DEF Carried
  <2> QED BY <2>1 DEF OneWrong
<1>4. ASSUME NEW k \in Conns, NEW l \in Conns,
             NEW i \in 1 .. Len(net'[k].down), NEW j \in 1 .. Len(net'[l].down),
             ~Sound(net'[k].down[i]), ~Sound(net'[l].down[j])
      PROVE  k = l /\ i = j
  <2>1. k = l
    BY <1>3, <1>4 DEF OneWrong
  <2>2. PICK d \in {0, 1} : \A n \in 1 .. Len(net'[k].down) :
          ~Sound(net'[k].down[n]) =>
            n + d \in 1 .. Len(net[k].down) /\ ~Sound(net[k].down[n + d])
    BY <1>2 DEF Carried
  <2>3. /\ i + d \in 1 .. Len(net[k].down) /\ ~Sound(net[k].down[i + d])
        /\ j + d \in 1 .. Len(net[k].down) /\ ~Sound(net[k].down[j + d])
    BY <1>4, <2>1, <2>2
  <2>5. i + d = j + d
    BY <2>3 DEF OneWrong
  <2>4. i \in Int /\ j \in Int
    BY <1>1, <2>1
  <2> QED BY <2>1, <2>4, <2>5
<1>5. \A k \in Conns : \A i \in 1 .. Len(net'[k].down) :
        ~Sound(net'[k].down[i]) => ~honest' /\ PackageList(host'.result)
  BY <1>3
<1>6. ~PackageList(host'.result) => ~honest'
  BY DEF OneWrong
<1> QED BY <1>1, <1>4, <1>5, <1>6 DEF OneWrong

-----------------------------------------------------------------------------
(* The board *)

\* n is the network, with some lines cut or lengthened by what is sound.
NetMoves(n) == DOMAIN n = Conns /\ \A k \in Conns : LinkMoves(net[k], n[k])

LEMMA StandsStill ==
  ASSUME Links
  PROVE  NetMoves(net)
<1>1. \A k \in Conns : Line(net[k].up) /\ Line(net[k].down)
                       /\ DOMAIN net[k] = {"host", "board", "up", "down"}
  BY DEF Links, Line
<1> QED BY <1>1, PassSame DEF NetMoves, LinkMoves, Links

LEMMA AbortedMoves ==
  ASSUME NEW n, NetMoves(n), NEW j
  PROVE  NetMoves(Aborted(n, j))
<1> DEFINE r == Aborted(n, j)
<1>1. \A k \in Conns : /\ DOMAIN r[k] = DOMAIN n[k] /\ r[k].down = n[k].down
                       /\ r[k].up = n[k].up \/ r[k].up = <<>>
  BY DEF Aborted, NetMoves, LinkMoves
<1>2. DOMAIN r = Conns
  BY DEF Aborted, NetMoves
<1> HIDE DEF r
<1>3. Line(<<>>)
  BY PassEmpty
<1> QED BY <1>1, <1>2, <1>3 DEF NetMoves, LinkMoves, r

\* The board's end of a link changes.
LEMMA BoardEndMoves ==
  ASSUME NEW n, NetMoves(n), NEW j, NEW b
  PROVE  NetMoves([n EXCEPT ![j].board = b])
<1> DEFINE r == [n EXCEPT ![j].board = b]
<1>1. \A k \in Conns : DOMAIN r[k] = DOMAIN n[k] /\ r[k].down = n[k].down /\ r[k].up = n[k].up
  BY DEF NetMoves, LinkMoves
<1>2. DOMAIN r = Conns
  BY DEF NetMoves
<1> HIDE DEF r
<1> QED BY <1>1, <1>2 DEF NetMoves, LinkMoves, r

LEMMA QueuedMoves ==
  ASSUME Links, NEW j, NEW m, Framed(m), Sound(m)
  PROVE  NetMoves(Queued(net, j, m))
<1> DEFINE r == Queued(net, j, m)
<1>1. \A k \in Conns : Link(net[k])
  BY LinksAre
<1>2. \A k \in Conns : /\ DOMAIN r[k] = DOMAIN net[k] /\ r[k].up = net[k].up
                       /\ r[k].down = net[k].down \/ r[k].down = Append(net[k].down, m)
  BY <1>1 DEF Queued, Links, Link
<1>3. DOMAIN r = Conns
  BY DEF Queued, Links
<1> HIDE DEF r
<1>4. ASSUME NEW k \in Conns
      PROVE  LinkMoves(net[k], r[k])
  <2>1. Passes(net[k].down, net[k].down) /\ Passes(net[k].down, Append(net[k].down, m))
    BY <1>1, PassSame, PassAppend DEF Link
  <2> QED BY <1>1, <1>2, <1>4, <2>1 DEF LinkMoves, Link
<1> QED BY <1>3, <1>4 DEF NetMoves, r

\* What the board sends has its own type and body.
LEMMA FrameIs ==
  ASSUME NEW s, BoardGood(s), CanSend(s), NEW type, NEW mode, NEW status, NEW body
  PROVE  LET m == Frame(s, type, mode, status, body)
         IN  Framed(m) /\ m.type = type /\ m.body = body
<1> DEFINE c == Answered(s)
           m == Frame(s, type, mode, status, body)
<1>1. Framed(c)
  BY DEF Answered, CanSend, BoardGood
<1>2. DOMAIN m = DOMAIN c /\ m.type = type /\ m.body = body
  BY <1>1 DEF Frame, Framed
<1> HIDE DEF m, c
<1> QED BY <1>1, <1>2 DEF Framed, m

LEMMA OtherSound ==
  ASSUME NEW m, m.type \notin {"RESULT", "TIMING"}
  PROVE  Sound(m)
  BY DEF Sound

LEMMA FailCloseSafe ==
  ASSUME Links, NEW s, BoardGood(s), FailClose(s, net)
  PROVE  NetMoves(net') /\ BoardGood(srv')
<1> DEFINE told == s.conn # 0 /\ s.open /\ s.rx # NoMsg /\ CanSend(s)
           m == Frame(s, "ERROR", NoProfile, 1, <<>>)
           after == IF told THEN Queued(net, s.conn, m) ELSE net
<1>1. NetMoves(after)
  <2>1. CASE told
    <3>1. Framed(m) /\ m.type = "ERROR"
      BY <2>1, FrameIs
    <3> HIDE DEF m
    <3>2. Sound(m)
      BY <3>1, OtherSound
    <3> QED BY <2>1, <3>1, <3>2, QueuedMoves
  <2>2. CASE ~told
    BY <2>2, StandsStill
  <2> QED BY <2>1, <2>2
<1>2. net' = Aborted(after, s.conn)
  BY DEF FailClose
<1>3. NetMoves(net')
  <2> HIDE DEF after
  <2> QED BY <1>1, <1>2, AbortedMoves
<1>4. BoardGood(srv')
  <2>1. /\ DOMAIN srv' = SrvFields /\ srv'.conn = 0 /\ srv'.rx = NoMsg /\ srv'.active = NoMsg
        /\ srv'.results = <<>> /\ srv'.pc = "loop"
    BY DEF FailClose, reset_session, BoardGood, SrvFields
  <2> QED BY <2>1, EmptyList DEF BoardGood
<1> QED BY <1>3, <1>4

\* The fields that hold messages.
LEMMA AlikeGood ==
  ASSUME NEW s, BoardGood(s), NEW t, DOMAIN t = SrvFields,
         t.conn = s.conn, t.rx \in {s.rx, NoMsg}, t.active \in {s.active, s.rx, NoMsg},
         t.results \in {s.results, <<>>},
         t.pc = "sending" => s.pc = "sending" /\ t.frame = s.frame
  PROVE  BoardGood(t)
  BY EmptyList DEF BoardGood

LEMMA StepGood ==
  ASSUME NEW s, BoardGood(s)
  PROVE  /\ BoardGood(release_command(s))
         /\ BoardGood(Done(s)) /\ BoardGood(Done(release_command(s)))
<1>1. BoardGood(release_command(s))
  <2> DEFINE t == release_command(s)
  <2>1. /\ DOMAIN t = SrvFields /\ t.conn = s.conn /\ t.rx = NoMsg /\ t.active = s.rx
        /\ t.results = s.results /\ t.pc = s.pc /\ t.frame = s.frame
    BY DEF release_command, BoardGood, SrvFields
  <2> HIDE DEF t
  <2>2. BoardGood(t)
    BY <2>1, AlikeGood
  <2> QED BY <2>2 DEF t
<1>2. ASSUME NEW t, BoardGood(t) PROVE BoardGood(Done(t))
  <2> DEFINE u == Done(t)
  <2>1. /\ DOMAIN u = SrvFields /\ u.conn = t.conn /\ u.rx = t.rx /\ u.active = t.active
        /\ u.results = <<>> /\ u.pc = "loop"
    BY <1>2 DEF Done, BoardGood, SrvFields
  <2> HIDE DEF u
  <2>2. BoardGood(u)
    BY <1>2, <2>1, AlikeGood
  <2> QED BY <2>2 DEF u
<1> QED BY <1>1, <1>2

LEMMA StatusSafe ==
  ASSUME Links, NEW s, BoardGood(s), Status(s)
  PROVE  NetMoves(net') /\ BoardGood(srv')
<1> DEFINE t == release_command(s)
<1>1. BoardGood(t) /\ BoardGood(Done(t))
  BY StepGood
<1>2. CASE CanRelease(s) /\ CanSend(t)
  <2> DEFINE m == Frame(t, "STATUS", NoProfile, 0, <<>>)
  <2>1. net' = Queued(net, t.conn, m) /\ srv' = [Done(t) EXCEPT !.queued = TRUE, !.acked = FALSE]
    <3>1. t.conn = s.conn
      BY DEF release_command, BoardGood, SrvFields
    <3> QED BY <1>2, <3>1 DEF Status, Down
  <2>2. Framed(m) /\ m.type = "STATUS"
    <3> HIDE DEF t
    <3> QED BY <1>1, <1>2, FrameIs
  <2> HIDE DEF m
  <2>3. NetMoves(net')
    BY <2>1, <2>2, OtherSound, QueuedMoves
  <2>4. BoardGood(srv')
    <3> DEFINE u == Done(t)
    <3>1. /\ DOMAIN srv' = SrvFields /\ srv'.conn = u.conn /\ srv'.rx = u.rx
          /\ srv'.active = u.active /\ srv'.results = u.results /\ srv'.pc = u.pc
          /\ srv'.frame = u.frame
      <4> HIDE DEF t
      <4> QED BY <1>1, <2>1 DEF BoardGood, SrvFields
    <3>2. BoardGood(u)
      BY <1>1
    <3> HIDE DEF u
    <3> QED BY <3>1, <3>2, AlikeGood
  <2> QED BY <2>3, <2>4
<1>3. CASE ~(CanRelease(s) /\ CanSend(t))
  BY <1>1, <1>3, FailCloseSafe DEF Status
<1> QED BY <1>2, <1>3

LEMMA BegunGood ==
  ASSUME BoardGood(srv)
  PROVE  /\ BoardGood(Begun) /\ Begun.pc = srv.pc /\ Begun.conn = srv.conn
         /\ Begun.rx = srv.rx /\ DOMAIN Begun = SrvFields
<1> DEFINE t == Begun
<1>1. /\ DOMAIN t = SrvFields /\ t.conn = srv.conn /\ t.rx = srv.rx /\ t.active = srv.rx
      /\ t.results = srv.results /\ t.pc = srv.pc /\ t.frame = srv.frame
  BY DEF Begun, BoardGood, SrvFields
<1> HIDE DEF t
<1>2. BoardGood(t)
  BY <1>1, AlikeGood
<1> QED BY <1>1, <1>2 DEF t

LEMMA CommandsSafe ==
  ASSUME Links, BoardGood(srv), NEW accepted,
         process_hello(accepted) \/ process_parameters \/ process_input \/ process_other
  PROVE  NetMoves(net') /\ BoardGood(srv')
<1>1. BoardGood(Begun)
  BY BegunGood
<1>2. CASE FailClose(Begun, net)
  BY <1>1, <1>2, FailCloseSafe
<1>3. ASSUME NEW t, DOMAIN t = SrvFields, t.conn = Begun.conn, t.rx = Begun.rx,
             t.active = Begun.active, t.results = Begun.results, t.pc = Begun.pc,
             t.frame = Begun.frame, Status(t)
      PROVE  NetMoves(net') /\ BoardGood(srv')
  <2>1. BoardGood(t)
    BY <1>1, <1>3, AlikeGood
  <2> QED BY <1>3, <2>1, StatusSafe
<1>4. DOMAIN Begun = SrvFields
  BY BegunGood
<1>5. CASE process_hello(accepted)
  <2> DEFINE t == [Begun EXCEPT !.binding = srv.rx.binding, !.phase = "PARAMETERS",
                                !.transport = srv.rx.body.transport]
  <2>1. Status(t) \/ FailClose(Begun, net)
    BY <1>5 DEF process_hello
  <2>2. /\ DOMAIN t = SrvFields /\ t.conn = Begun.conn /\ t.rx = Begun.rx
        /\ t.active = Begun.active /\ t.results = Begun.results /\ t.pc = Begun.pc
        /\ t.frame = Begun.frame
    BY <1>4
  <2> HIDE DEF t
  <2> QED BY <1>2, <1>3, <2>1, <2>2
<1>6. CASE process_parameters
  <2> DEFINE t == [Begun EXCEPT !.phase = "INPUT"]
  <2>1. Status(t) \/ FailClose(Begun, net)
    BY <1>6 DEF process_parameters
  <2>2. /\ DOMAIN t = SrvFields /\ t.conn = Begun.conn /\ t.rx = Begun.rx
        /\ t.active = Begun.active /\ t.results = Begun.results /\ t.pc = Begun.pc
        /\ t.frame = Begun.frame
    BY <1>4
  <2> HIDE DEF t
  <2> QED BY <1>2, <1>3, <2>1, <2>2
<1>7. CASE process_input
  <2> DEFINE t == [Begun EXCEPT !.first = srv.rx.first, !.count = srv.rx.count,
                            !.inputs = srv.rx.body, !.incrc = @ \o srv.rx.body,
                            !.received = @ + srv.rx.count,
                            !.completed = @ + (IF srv.transport THEN srv.rx.count ELSE 0),
                            !.phase = IF srv.transport THEN "INPUT" ELSE "RUN"]
  <2>1. Status(t) \/ FailClose(Begun, net)
    BY <1>7 DEF process_input
  <2>2. /\ DOMAIN t = SrvFields /\ t.conn = Begun.conn /\ t.rx = Begun.rx
        /\ t.active = Begun.active /\ t.results = Begun.results /\ t.pc = Begun.pc
        /\ t.frame = Begun.frame
    BY <1>4 DEF SrvFields
  <2> HIDE DEF t
  <2> QED BY <1>2, <1>3, <2>1, <2>2
<1>8. CASE process_other
  BY <1>2, <1>8 DEF process_other
<1> QED BY <1>5, <1>6, <1>7, <1>8

LEMMA LoopSafe ==
  ASSUME Links, BoardGood(srv), LoopFatal \/ process_run \/ process_end \/ command_done
  PROVE  NetMoves(net') /\ BoardGood(srv')
<1>1. BoardGood(Begun) /\ DOMAIN Begun = SrvFields /\ Begun.rx = srv.rx /\ Begun.conn = srv.conn
  BY BegunGood
<1>2. CASE FailClose(srv, net) \/ FailClose(Begun, net)
  BY <1>1, <1>2, FailCloseSafe
<1>3. CASE process_run
  <2>1. CASE ~FailClose(Begun, net)
    <3> DEFINE t == [Begun EXCEPT !.pc = "infer", !.request = srv.rx, !.i = 0, !.results = <<>>]
    <3>1. srv' = t /\ net' = net
      BY <1>3, <2>1 DEF process_run
    <3>2. /\ DOMAIN t = SrvFields /\ t.conn = Begun.conn /\ t.rx = Begun.rx
          /\ t.active = Begun.active /\ t.results = <<>> /\ t.pc = "infer"
      BY <1>1 DEF SrvFields
    <3> HIDE DEF t
    <3>3. BoardGood(t)
      BY <1>1, <3>2, AlikeGood
    <3> QED BY <3>1, <3>3, StandsStill
  <2> QED BY <1>2, <2>1
<1>4. CASE process_end
  <2> DEFINE s == [Begun EXCEPT !.phase = "HELLO"]
             t == release_command(s)
             m == Frame(t, "END", NoProfile, 0,
                        [received |-> s.received, completed |-> s.completed,
                         sent |-> s.sent, incrc |-> s.incrc, rescrc |-> s.rescrc])
  <2>1. BoardGood(s)
    <3>1. /\ DOMAIN s = SrvFields /\ s.conn = Begun.conn /\ s.rx = Begun.rx
          /\ s.active = Begun.active /\ s.results = Begun.results /\ s.pc = Begun.pc
          /\ s.frame = Begun.frame
      BY <1>1 DEF SrvFields
    <3> HIDE DEF s
    <3> QED BY <1>1, <3>1, AlikeGood
  <2>2. BoardGood(t)
    BY <2>1, StepGood
  <2>3. CASE FailClose(t, net)
    BY <2>2, <2>3, FailCloseSafe
  <2>4. CASE /\ CanSend(t) /\ net' = Down(s, m)
             /\ srv' = [t EXCEPT !.pc = "endack", !.queued = TRUE, !.acked = FALSE]
    <3>1. Framed(m) /\ m.type = "END"
      <4> HIDE DEF t
      <4> QED BY <2>2, <2>4, FrameIs
    <3> HIDE DEF m
    <3>2. NetMoves(net')
      BY <2>4, <3>1, OtherSound, QueuedMoves DEF Down
    <3>3. BoardGood(srv')
      <4> HIDE DEF t
      <4>1. /\ DOMAIN srv' = SrvFields /\ srv'.conn = t.conn /\ srv'.rx = t.rx
            /\ srv'.active = t.active /\ srv'.results = t.results /\ srv'.pc = "endack"
        BY <2>2, <2>4 DEF BoardGood, SrvFields
      <4> QED BY <2>2, <4>1, AlikeGood
    <3> QED BY <3>2, <3>3
  <2>5. \/ FailClose(Begun, net) \/ FailClose(t, net)
        \/ /\ CanSend(t) /\ net' = Down(s, m)
           /\ srv' = [t EXCEPT !.pc = "endack", !.queued = TRUE, !.acked = FALSE]
    BY <1>4 DEF process_end
  <2> QED BY <1>2, <2>3, <2>4, <2>5
<1>5. CASE command_done
  BY <1>5, StepGood, StandsStill DEF command_done
<1> QED BY <1>2, <1>3, <1>4, <1>5 DEF LoopFatal

LEMMA OneMorePackage ==
  ASSUME NEW s, PackageList(s), NEW image
  PROVE  PackageList(Append(s, PackageOf(image)))
<1> DEFINE r == Append(s, PackageOf(image))
<1>1. /\ Listed(r) /\ Len(r) = Len(s) + 1 /\ Len(s) \in Nat
      /\ \A i \in 1 .. Len(s) : r[i] = s[i]
      /\ r[Len(s) + 1] = PackageOf(image)
  BY AppendList DEF PackageList, Listed
<1> HIDE DEF r
<1>2. PackageOf(image).image = image
  BY DEF PackageOf
<1>3. \A i \in 1 .. Len(r) : i \in 1 .. Len(s) \/ i = Len(s) + 1
  BY <1>1
<1> QED BY <1>1, <1>2, <1>3 DEF PackageList, r

LEMMA RunSafe ==
  ASSUME Links, BoardGood(srv),
         infer \/ begin_result \/ send_result \/ send_timing \/ wait_failed
  PROVE  NetMoves(net') /\ BoardGood(srv')
<1>1. CASE FailClose(srv, net)
  BY <1>1, FailCloseSafe
<1>2. DOMAIN srv = SrvFields
  BY DEF BoardGood
<1>3. CASE infer /\ ~FailClose(srv, net)
  <2>1. \/ srv' = [srv EXCEPT !.i = @ + 1, !.results =
                     IF srv.request.kind = "TIMING" THEN @
                     ELSE Append(@, PackageOf(srv.inputs[srv.i + 1]))]
        \/ srv' = [srv EXCEPT !.pc = "built"]
    BY <1>3 DEF infer
  <2>2. /\ DOMAIN srv' = SrvFields /\ srv'.conn = srv.conn /\ srv'.rx = srv.rx
        /\ srv'.active = srv.active /\ srv'.frame = srv.frame
        /\ srv'.results = srv.results
             \/ srv'.results = Append(srv.results, PackageOf(srv.inputs[srv.i + 1]))
        /\ srv'.pc \in {srv.pc, "built"}
    BY <1>2, <2>1 DEF SrvFields
  <2>3. PackageList(srv'.results)
    BY <2>2, OneMorePackage DEF BoardGood
  <2>4. BoardGood(srv')
    BY <2>2, <2>3 DEF BoardGood
  <2>5. net' = net
    BY <1>3 DEF infer
  <2> QED BY <2>4, <2>5, StandsStill
<1>4. CASE begin_result /\ ~FailClose(srv, net)
  <2> DEFINE m == Frame(srv, "RESULT", srv.request, 0, srv.results)
  <2>1. CASE srv.results = <<>>
    <3>1. srv' = [srv EXCEPT !.pc = "resultack", !.acked = TRUE] /\ net' = net
      BY <1>4, <2>1 DEF begin_result
    <3>2. /\ DOMAIN srv' = SrvFields /\ srv'.conn = srv.conn /\ srv'.rx = srv.rx
          /\ srv'.active = srv.active /\ srv'.results = srv.results /\ srv'.pc = "resultack"
      BY <1>2, <3>1 DEF SrvFields
    <3>3. BoardGood(srv')
      BY <3>2, AlikeGood
    <3> QED BY <3>1, <3>3, StandsStill
  <2>2. CASE srv.results # <<>>
    <3>1. /\ CanSend(srv) /\ net' = net
          /\ srv' = [srv EXCEPT !.pc = "sending", !.queued = TRUE, !.acked = FALSE,
                                !.frame = [conn |-> srv.conn, m |-> m]]
      BY <1>4, <2>2 DEF begin_result
    <3>2. Framed(m) /\ m.type = "RESULT" /\ m.body = srv.results
      BY <3>1, FrameIs
    <3> HIDE DEF m
    <3>3. /\ DOMAIN srv' = SrvFields /\ srv'.conn = srv.conn /\ srv'.rx = srv.rx
          /\ srv'.active = srv.active /\ srv'.results = srv.results
          /\ srv'.frame = [conn |-> srv.conn, m |-> m]
      BY <1>2, <3>1 DEF SrvFields
    <3>4. "m" \in DOMAIN srv'.frame /\ srv'.frame.m = m
      BY <3>3
    <3>5. BoardGood(srv')
      BY <3>2, <3>3, <3>4 DEF BoardGood
    <3> QED BY <3>1, <3>5, StandsStill
  <2> QED BY <2>1, <2>2
<1>5. CASE send_result /\ ~FailClose(srv, net)
  <2> DEFINE m == [srv.frame.m EXCEPT !.intact = srv.conn = srv.frame.conn]
  <2>1. /\ net' = Down(srv, m)
        /\ srv' = [srv EXCEPT !.pc = "resultack", !.queued = TRUE, !.acked = FALSE,
                              !.rescrc = @ \o srv.results, !.frame = NoFrame]
    BY <1>5 DEF send_result
  <2>2. /\ Framed(srv.frame.m) /\ srv.frame.m.type = "RESULT" /\ PackageList(srv.frame.m.body)
    BY <1>5 DEF send_result, BoardGood
  <2>3. Sound(srv.frame.m)
    BY <2>2 DEF Sound
  <2>4. Framed(m) /\ Sound(m)
    BY <2>2, <2>3, Marked
  <2> HIDE DEF m
  <2>5. NetMoves(net')
    BY <2>1, <2>4, QueuedMoves DEF Down
  <2>6. /\ DOMAIN srv' = SrvFields /\ srv'.conn = srv.conn /\ srv'.rx = srv.rx
        /\ srv'.active = srv.active /\ srv'.results = srv.results /\ srv'.pc = "resultack"
    BY <1>2, <2>1 DEF SrvFields
  <2>7. BoardGood(srv')
    BY <2>6, AlikeGood
  <2> QED BY <2>5, <2>7
<1>6. CASE send_timing
  <2> DEFINE s == [srv EXCEPT !.completed = @ + srv.count, !.sent = @ + srv.count, !.phase = "INPUT"]
             t == release_command(s)
             m == Frame(t, "TIMING", srv.request, 0, ChunkTimingOf(srv))
  <2>1. BoardGood(s) /\ BoardGood(t)
    <3>1. /\ DOMAIN s = SrvFields /\ s.conn = srv.conn /\ s.rx = srv.rx
          /\ s.active = srv.active /\ s.results = srv.results /\ s.pc = srv.pc
          /\ s.frame = srv.frame
      BY <1>2 DEF SrvFields
    <3> HIDE DEF s
    <3> QED BY <3>1, AlikeGood, StepGood
  <2>2. CASE FailClose(s, net)
    BY <2>1, <2>2, FailCloseSafe
  <2>3. CASE /\ CanSend(t) /\ net' = Down(s, m)
             /\ srv' = [t EXCEPT !.pc = "timingack", !.queued = TRUE, !.acked = FALSE]
    <3>1. Framed(m) /\ m.body = ChunkTimingOf(srv)
      <4> HIDE DEF t
      <4> QED BY <2>1, <2>3, FrameIs
    <3>2. m.type = "TIMING"
      <4> HIDE DEF t
      <4> QED BY <2>1, <2>3, FrameIs
    <3>3. ChunkTimingOf(srv).rescrc = srv.results
      BY DEF ChunkTimingOf
    <3> HIDE DEF m
    <3>4. Sound(m)
      BY <3>1, <3>2, <3>3 DEF Sound, BoardGood
    <3>5. NetMoves(net')
      BY <2>3, <3>1, <3>4, QueuedMoves DEF Down
    <3>6. BoardGood(srv')
      <4> HIDE DEF t
      <4>1. /\ DOMAIN srv' = SrvFields /\ srv'.conn = t.conn /\ srv'.rx = t.rx
            /\ srv'.active = t.active /\ srv'.results = t.results /\ srv'.pc = "timingack"
        BY <2>1, <2>3 DEF BoardGood, SrvFields
      <4> QED BY <2>1, <4>1, AlikeGood
    <3> QED BY <3>5, <3>6
  <2>4. \/ FailClose(s, net)
        \/ /\ CanSend(t) /\ net' = Down(s, m)
           /\ srv' = [t EXCEPT !.pc = "timingack", !.queued = TRUE, !.acked = FALSE]
    BY <1>6 DEF send_timing
  <2> QED BY <2>2, <2>3, <2>4
<1>7. CASE wait_failed
  BY <1>1, <1>7 DEF wait_failed
<1> QED BY <1>1, <1>3, <1>4, <1>5, <1>6, <1>7

LEMMA BoardSafe ==
  ASSUME Links, BoardGood(srv), NEW accepted, Board(accepted)
  PROVE  NetMoves(net') /\ BoardGood(srv')
  BY CommandsSafe, LoopSafe, RunSafe DEF Board

LEMMA ResetGood ==
  ASSUME NEW s, DOMAIN s = SrvFields, PackageList(s.results), NEW k \in Conns,
         s.pc = "sending" => "m" \in DOMAIN s.frame /\ Framed(s.frame.m)
                             /\ s.frame.m.type = "RESULT" /\ PackageList(s.frame.m.body)
  PROVE  BoardGood([reset_session(s) EXCEPT !.conn = k, !.open = TRUE])
<1> DEFINE t == [reset_session(s) EXCEPT !.conn = k, !.open = TRUE]
<1>1. /\ DOMAIN t = SrvFields /\ t.conn = k /\ t.rx = NoMsg /\ t.active = NoMsg
      /\ t.results = s.results /\ t.pc = s.pc /\ t.frame = s.frame
  BY DEF reset_session, SrvFields
<1> HIDE DEF t
<1> QED BY <1>1 DEF BoardGood, t

LEMMA CallbackSafe ==
  ASSUME Links, BoardGood(srv), Callback
  PROVE  NetMoves(net') /\ BoardGood(srv')
<1>0. DOMAIN srv = SrvFields /\ DOMAIN net = Conns /\ \A k \in Conns : Link(net[k])
  BY LinksAre DEF BoardGood
<1>1. CASE receive
  <2> DEFINE k == srv.conn
  <2>1. k \in Conns /\ net[k].up # <<>>
    BY <1>1 DEF receive, BoardGood
  <2>2. Line(net[k].up)
    BY <1>0, <2>1 DEF Link
  <2>3. Line(Tail(net[k].up)) /\ Framed(Head(net[k].up))
    BY <2>1, <2>2, PassTail DEF Passes
  <2>4. net' = [net EXCEPT ![k].up = Tail(@)]
    BY <1>1 DEF receive
  <2>5. \A j \in Conns : /\ DOMAIN net'[j] = DOMAIN net[j] /\ net'[j].down = net[j].down
                         /\ net'[j].up = IF j = k THEN Tail(net[k].up) ELSE net[j].up
    BY <1>0, <2>1, <2>4 DEF Link
  <2>6. DOMAIN net' = Conns
    BY <1>0, <2>4
  <2>7. NetMoves(net')
    BY <1>0, <2>3, <2>5, <2>6, PassSame DEF NetMoves, LinkMoves, Link
  <2>8. /\ DOMAIN srv' = SrvFields /\ srv'.conn = srv.conn /\ srv'.rx = Head(net[k].up)
        /\ srv'.active = srv.active /\ srv'.results = srv.results /\ srv'.pc = srv.pc
        /\ srv'.frame = srv.frame
    BY <1>0, <1>1 DEF receive, Acknowledged, SrvFields
  <2>9. BoardGood(srv')
    BY <2>3, <2>8 DEF BoardGood
  <2> QED BY <2>7, <2>9
<1>2. CASE peer_closed
  <2>1. NetMoves(net')
    BY <1>2, StandsStill, AbortedMoves DEF peer_closed
  <2>2. /\ DOMAIN srv' = SrvFields /\ srv'.conn = 0 /\ srv'.rx = srv.rx
        /\ srv'.active = srv.active /\ srv'.results = srv.results /\ srv'.pc = srv.pc
        /\ srv'.frame = srv.frame
    BY <1>0, <1>2 DEF peer_closed, Acknowledged, SrvFields
  <2> QED BY <2>1, <2>2 DEF BoardGood
<1>3. CASE sent
  <2>1. /\ DOMAIN srv' = SrvFields /\ srv'.conn = srv.conn /\ srv'.rx = srv.rx
        /\ srv'.active = srv.active /\ srv'.results = srv.results /\ srv'.pc = srv.pc
        /\ srv'.frame = srv.frame /\ net' = net
    BY <1>0, <1>3 DEF sent, Acknowledged, SrvFields
  <2> QED BY <2>1, StandsStill DEF BoardGood
<1>4. /\ DOMAIN Errored(srv) = SrvFields /\ Errored(srv).conn = 0 /\ Errored(srv).rx = srv.rx
      /\ Errored(srv).active = srv.active /\ Errored(srv).results = srv.results
      /\ Errored(srv).pc = srv.pc /\ Errored(srv).frame = srv.frame
  BY <1>0 DEF Errored, SrvFields
<1>5. CASE connection_error
  <2>1. NetMoves(net')
    BY <1>5, StandsStill, AbortedMoves DEF connection_error
  <2>2. srv' = Errored(srv)
    BY <1>5 DEF connection_error
  <2> QED BY <1>4, <2>1, <2>2 DEF BoardGood
<1>6. ASSUME NEW k \in Conns, accept(k) PROVE NetMoves(net') /\ BoardGood(srv')
  <2>1. CASE srv.open
    BY <1>6, <2>1, StandsStill, AbortedMoves DEF accept
  <2>2. CASE ~srv.open
    <3>1. /\ net' = [net EXCEPT ![k].board = "open"]
          /\ srv' = [reset_session(srv) EXCEPT !.conn = k, !.open = TRUE]
      BY <1>6, <2>2 DEF accept
    <3>2. BoardGood(srv')
      <4>1. BoardGood([reset_session(srv) EXCEPT !.conn = k, !.open = TRUE])
        BY <1>0, ResetGood DEF BoardGood
      <4> QED BY <3>1, <4>1
    <3> QED BY <3>1, <3>2, StandsStill, BoardEndMoves
  <2> QED BY <2>1, <2>2
<1>7. ASSUME NEW k \in Conns, error_then_accept(k) PROVE NetMoves(net') /\ BoardGood(srv')
  <2>1. /\ net' = [Aborted(net, srv.conn) EXCEPT ![k].board = "open"]
        /\ srv' = [reset_session(Errored(srv)) EXCEPT !.conn = k, !.open = TRUE]
    BY <1>7 DEF error_then_accept
  <2>2. NetMoves(net')
    BY <2>1, StandsStill, AbortedMoves, BoardEndMoves
  <2>3. BoardGood(srv')
    <3> DEFINE s == Errored(srv)
    <3>1. /\ DOMAIN s = SrvFields /\ PackageList(s.results)
          /\ s.pc = "sending" => "m" \in DOMAIN s.frame /\ Framed(s.frame.m)
                                 /\ s.frame.m.type = "RESULT" /\ PackageList(s.frame.m.body)
      BY <1>4 DEF BoardGood
    <3> HIDE DEF s
    <3>2. BoardGood([reset_session(s) EXCEPT !.conn = k, !.open = TRUE])
      BY <3>1, ResetGood
    <3> QED BY <2>1, <3>2 DEF s
  <2> QED BY <2>2, <2>3
<1> QED BY <1>1, <1>2, <1>3, <1>5, <1>6, <1>7 DEF Callback

-----------------------------------------------------------------------------
(* The host's ends of the connections *)

LEMMA HostEndMoves ==
  ASSUME NEW n, NetMoves(n), NEW j, NEW b
  PROVE  /\ NetMoves([n EXCEPT ![j].host = b])
         /\ NetMoves([n EXCEPT ![j].host = b, ![j].down = <<>>])
<1>1. NetMoves([n EXCEPT ![j].host = b])
  <2> DEFINE r == [n EXCEPT ![j].host = b]
  <2>1. \A k \in Conns : DOMAIN r[k] = DOMAIN n[k] /\ r[k].down = n[k].down /\ r[k].up = n[k].up
    BY DEF NetMoves, LinkMoves
  <2>2. DOMAIN r = Conns
    BY DEF NetMoves
  <2> HIDE DEF r
  <2>3. NetMoves(r)
    BY <2>1, <2>2 DEF NetMoves, LinkMoves
  <2> QED BY <2>3 DEF r
<1>2. NetMoves([n EXCEPT ![j].host = b, ![j].down = <<>>])
  <2> DEFINE r == [n EXCEPT ![j].host = b, ![j].down = <<>>]
  <2>1. \A k \in Conns : /\ DOMAIN r[k] = DOMAIN n[k] /\ r[k].up = n[k].up
                         /\ r[k].down = n[k].down \/ r[k].down = <<>>
    BY DEF NetMoves, LinkMoves
  <2>2. DOMAIN r = Conns
    BY DEF NetMoves
  <2> HIDE DEF r
  <2>3. NetMoves(r)
    BY <2>1, <2>2, PassEmpty DEF NetMoves, LinkMoves
  <2> QED BY <2>3 DEF r
<1> QED BY <1>1, <1>2

LEMMA TakenMoves ==
  ASSUME Links, host.conn \in Conns, net[host.conn].down # <<>>
  PROVE  NetMoves(Taken)
<1> DEFINE k == host.conn
           r == [net EXCEPT ![k].down = Tail(@)]
<1>0. Taken = r
  BY DEF Taken
<1>1. DOMAIN net = Conns /\ \A j \in Conns : Link(net[j])
  BY LinksAre
<1>2. Passes(net[k].down, Tail(net[k].down))
  BY <1>1, PassTail DEF Link
<1>3. \A j \in Conns : /\ DOMAIN r[j] = DOMAIN net[j] /\ r[j].up = net[j].up
                       /\ r[j].down = IF j = k THEN Tail(net[k].down) ELSE net[j].down
  BY <1>1 DEF Link
<1>4. DOMAIN r = Conns
  BY <1>1
<1> HIDE DEF r, k
<1>5. NetMoves(r)
  BY <1>1, <1>2, <1>3, <1>4, PassSame DEF NetMoves, LinkMoves, Link
<1> QED BY <1>0, <1>5

LEMMA SendMoves ==
  ASSUME Links, host.conn \in Conns, host.pc = "send", Whereabouts, Send
  PROVE  NetMoves(net')
<1> DEFINE k == host.conn
           m == Request
<1>1. Framed(m)
  <2>1. host.stage \in {"hello", "parameters", "input", "run", "end"}
    BY DEF Whereabouts
  <2>2. \A type, s, seq, binding, first, count, mode, body :
          Framed(make_header(type, s, seq, binding, first, count, mode, body))
    BY DEF Framed, make_header
  <2> QED BY <2>1, <2>2 DEF Request
<1> HIDE DEF m
<1>2. DOMAIN net = Conns /\ \A j \in Conns : Link(net[j])
  BY LinksAre
<1>3. net' = [net EXCEPT ![k].up = Append(@, m)]
  BY DEF Send, SentUp, m
<1>4. Line(Append(net[k].up, m))
  BY <1>1, <1>2, PassAppend DEF Link
<1>5. \A j \in Conns : /\ DOMAIN net'[j] = DOMAIN net[j] /\ net'[j].down = net[j].down
                       /\ net'[j].up = IF j = k THEN Append(net[k].up, m) ELSE net[j].up
  BY <1>2, <1>3 DEF Link
<1>6. DOMAIN net' = Conns
  BY <1>2, <1>3
<1> HIDE DEF k
<1> QED BY <1>2, <1>4, <1>5, <1>6, PassSame DEF NetMoves, LinkMoves, Link

\* What is first on a line is sound, or all the rest is.
LEMMA WrongTaken ==
  ASSUME Links, OneWrong, host.conn \in Conns, net[host.conn].down # <<>>,
         net' = Taken, honest' = honest,
         ~Sound(Head(net[host.conn].down))
  PROVE  OneWrong'
<1> DEFINE k == host.conn
<1>1. DOMAIN net = Conns /\ \A j \in Conns : Link(net[j])
  BY LinksAre
<1>2. /\ Listed(Tail(net[k].down)) /\ Len(Tail(net[k].down)) = Len(net[k].down) - 1
      /\ Len(net[k].down) >= 1
      /\ \A i \in 1 .. Len(net[k].down) - 1 : Tail(net[k].down)[i] = net[k].down[i + 1]
      /\ Head(net[k].down) = net[k].down[1]
  BY <1>1, TailList DEF Link, Line
<1>3. Len(net[k].down) \in Nat
  BY <1>1 DEF Link, Line, Listed
<1>4. ~Sound(net[k].down[1]) /\ 1 \in 1 .. Len(net[k].down)
  BY <1>2, <1>3
<1>5. \A j \in Conns : net'[j].down = IF j = k THEN Tail(net[k].down) ELSE net[j].down
  BY <1>1 DEF Taken, Link
<1>6. ASSUME NEW j \in Conns, NEW i \in 1 .. Len(net'[j].down)
      PROVE  Sound(net'[j].down[i])
  <2>1. CASE j = k
    <3>0. net'[j].down = Tail(net[k].down) /\ i \in 1 .. Len(net[k].down) - 1
      BY <1>2, <1>5, <1>6, <2>1
    <3>1. i + 1 \in 1 .. Len(net[k].down) /\ net'[j].down[i] = net[k].down[i + 1] /\ i + 1 # 1
      BY <1>2, <1>3, <3>0
    <3> QED BY <1>4, <3>1 DEF OneWrong
  <2>2. CASE j # k
    BY <1>4, <1>5, <1>6, <2>2 DEF OneWrong
  <2> QED BY <2>1, <2>2
<1>7. ~honest'
  BY <1>4 DEF OneWrong
<1> QED BY <1>6, <1>7 DEF OneWrong

\* The host takes and sends without adding a wrong answer.
LEMMA HostKeepsLinks ==
  ASSUME Links, OneWrong, HostInv, Host, honest' = honest
  PROVE  Links' /\ OneWrong'
<1>0. /\ DOMAIN host = HostFields
      /\ host.pc # "idle" => Whereabouts
      /\ host.pc \notin {"idle", "connect"} => host.conn \in Conns
  BY DEF HostInv, Fields, Whereabouts
<1>1. ASSUME NetMoves(net'), PackageList(host'.result) \/ host'.result = host.result
      PROVE  Links' /\ OneWrong'
  BY <1>1, NetKept DEF NetMoves
<1>2. PackageList(<<>>)
  BY EmptyList
<1>3. \A o : Over(o).result = <<>>
  BY DEF Over
<1>4. ASSUME NEW n, NetMoves(n), Failed(n)
      PROVE  Links' /\ OneWrong'
  <2>1. host'.result = <<>>
    BY <1>3, <1>4 DEF Failed
  <2>2. NetMoves(net')
    BY <1>4, HostEndMoves DEF Failed
  <2> QED BY <1>1, <1>2, <2>1, <2>2
<1>5. ASSUME Arrived PROVE NetMoves(Taken) /\ host.conn \in Conns
  BY <1>0, <1>5, TakenMoves DEF Arrived
<1>6. NetMoves(net)
  BY StandsStill
<1>7. CASE Send
  <2>1. NetMoves(net')
    BY <1>0, <1>7, SendMoves DEF Send
  <2>2. host'.result = host.result
    BY <1>0, <1>7 DEF Send, HostFields
  <2> QED BY <1>1, <2>1, <2>2
<1>8. CASE WrongAnswer
  BY <1>4, <1>5, <1>8 DEF WrongAnswer, Quit
<1>9. CASE StatusArrives
  <2>1. host'.result = <<>> \/ host'.result = host.result
    BY <1>0, <1>9 DEF StatusArrives, HostFields
  <2> QED BY <1>1, <1>2, <1>5, <1>9, <2>1 DEF StatusArrives, Arrives
<1>10. CASE ResultArrives
  <2> DEFINE m == Head(net[host.conn].down)
  <2>1. net' = Taken /\ host'.result = m.body /\ m.type = "RESULT" /\ Arrived
    BY <1>0, <1>10 DEF ResultArrives, Arrives, Matches, HostFields
  <2>2. NetMoves(net') /\ host.conn \in Conns
    BY <1>5, <2>1
  <2>3. CASE Sound(m)
    <3>1. PackageList(host'.result)
      BY <2>1, <2>3 DEF Sound
    <3> QED BY <1>1, <2>2, <3>1
  <2>4. CASE ~Sound(m)
    <3>1. OneWrong'
      BY <2>1, <2>2, <2>4, WrongTaken DEF Arrived
    <3>2. Links'
      BY <2>2 DEF NetMoves, LinkMoves, Links, Passes, Line
    <3> QED BY <3>1, <3>2
  <2> QED BY <2>3, <2>4
<1>11. CASE TimingArrives
  <2>1. \/ net' = Taken /\ host'.result = host.result
        \/ Failed(Taken)
    BY <1>0, <1>11 DEF TimingArrives, HostFields
  <2> QED BY <1>1, <1>4, <1>5, <1>11, <2>1 DEF TimingArrives, Arrives
<1>12. CASE Sync \/ Checkpoint \/ PublishIndex \/ PublishResults \/ PublishSummary
  <2>1. net' = net /\ (host'.result = <<>> \/ host'.result = host.result)
    BY <1>0, <1>12 DEF Sync, Checkpoint, PublishIndex, PublishResults, PublishSummary, HostFields
  <2> QED BY <1>1, <1>2, <1>6, <2>1
<1>13. CASE EndArrives
  <2>1. CASE Failed(Taken)
    BY <1>4, <1>5, <1>13, <2>1 DEF EndArrives, Arrives
  <2>2. CASE ~Failed(Taken)
    <3>1. /\ net' = [Taken EXCEPT ![host.conn].host = IF @ = "lost" THEN "lost" ELSE "closed"]
          /\ host'.result = host.result
      BY <1>0, <1>13, <2>2 DEF EndArrives, HostFields
    <3>2. NetMoves(net')
      BY <1>5, <1>13, <3>1, HostEndMoves DEF EndArrives, Arrives
    <3> QED BY <1>1, <3>1, <3>2
  <2> QED BY <2>1, <2>2
<1>14. CASE Unlink
  <2>1. net' = net /\ host'.result = <<>>
    BY <1>3, <1>14 DEF Unlink
  <2> QED BY <1>1, <1>2, <1>6, <2>1
<1>15. CASE ConnectionFails
  BY <1>4, <1>6, <1>15 DEF ConnectionFails, Quit
<1> QED
  BY <1>7, <1>8, <1>9, <1>10, <1>11, <1>12, <1>13, <1>14, <1>15 DEF Host

LEMMA CallKeepsLinks ==
  ASSUME Links, OneWrong, HostInv, Calls \/ \E k \in Conns : Connect(k), honest' = honest
  PROVE  Links' /\ OneWrong'
<1>0. DOMAIN host = HostFields
  BY DEF HostInv, Fields
<1>1. ASSUME NetMoves(net'), PackageList(host'.result) \/ host'.result = host.result
      PROVE  Links' /\ OneWrong'
  BY <1>1, NetKept DEF NetMoves
<1>2. PackageList(<<>>) /\ NetMoves(net)
  BY EmptyList, StandsStill
<1>3. CASE Calls
  <2>1. net' = net /\ (host'.result = <<>> \/ host'.result = host.result)
    <3>1. ASSUME NEW a, NEW resume, Start(a, resume) \/ Refuse(a, resume)
          PROVE  net' = net /\ host'.result = <<>>
      <4>1. CASE Refuse(a, resume)
        BY <4>1 DEF Refuse, Over
      <4>2. CASE Start(a, resume)
        <5>1. \/ host' = Over("refused")
              \/ \E done, entries, chunks :
                   host' = [Over("none") EXCEPT !.pc = "connect", !.args = a, !.resume = resume,
                              !.completed = done, !.entries = entries, !.chunks = chunks]
          BY <4>2 DEF Start
        <5>2. net' = net
          BY <4>2 DEF Start
        <5> DEFINE o == Over("none")
        <5>3. "result" \in DOMAIN o /\ o.result = <<>> /\ Over("refused").result = <<>>
          BY DEF Over
        <5> HIDE DEF o
        <5>4. \/ host' = Over("refused")
              \/ \E done, entries, chunks :
                   host' = [o EXCEPT !.pc = "connect", !.args = a, !.resume = resume,
                              !.completed = done, !.entries = entries, !.chunks = chunks]
          BY <5>1 DEF o
        <5>5. host'.result = <<>>
          BY <5>3, <5>4
        <5> QED BY <5>2, <5>5
      <4> QED BY <3>1, <4>1, <4>2
    <3>2. ASSUME Clean PROVE net' = net /\ host' = host
      BY <3>2 DEF Clean
    <3> QED BY <1>3, <3>1, <3>2 DEF Calls
  <2> QED BY <1>1, <1>2, <2>1
<1>4. ASSUME NEW k \in Conns, Connect(k) PROVE Links' /\ OneWrong'
  <2>1. net' = [net EXCEPT ![k].host = "open", ![k].board = "pending"]
    BY <1>4 DEF Connect
  <2> DEFINE n == [net EXCEPT ![k].host = "open"]
             r == [n EXCEPT ![k].board = "pending"]
  <2>2. net' = r
    BY <2>1
  <2>3. NetMoves(n)
    BY <1>2, HostEndMoves
  <2> HIDE DEF n
  <2>4. NetMoves(r)
    BY <2>3, BoardEndMoves
  <2>5. host'.result = host.result
    BY <1>0, <1>4 DEF Connect, HostFields
  <2> QED BY <1>1, <2>2, <2>4, <2>5
<1> QED BY <1>3, <1>4

LEMMA DropKeepsLinks ==
  ASSUME Links, OneWrong, IoTimeout \/ Crash, honest' = honest
  PROVE  Links' /\ OneWrong'
<1>0. NetMoves(net)
  BY StandsStill
<1>1. NetMoves(net')
  <2>1. \/ net' = net
        \/ \E b : net' = [net EXCEPT ![host.conn].host = b, ![host.conn].down = <<>>]
    <3>1. CASE IoTimeout
      BY <3>1 DEF IoTimeout, Quit, Failed
    <3>2. CASE Crash
      BY <3>2 DEF Crash
    <3> QED BY <3>1, <3>2
  <2>2. ASSUME NEW b, net' = [net EXCEPT ![host.conn].host = b, ![host.conn].down = <<>>]
        PROVE  NetMoves(net')
    <3>1. NetMoves([net EXCEPT ![host.conn].host = b, ![host.conn].down = <<>>])
      BY <1>0, HostEndMoves
    <3> QED BY <2>2, <3>1
  <2> QED BY <1>0, <2>1, <2>2
<1>2. host'.result = <<>>
  <2>1. \E o : host' = Over(o)
    BY DEF IoTimeout, Quit, Failed, Crash
  <2> QED BY <2>1 DEF Over
<1> QED BY <1>1, <1>2, NetKept, EmptyList DEF NetMoves

LEMMA DamageKeepsLinks ==
  ASSUME Links, OneWrong, NEW k \in Conns, Break(k) \/ Damage(k),
         honest' = honest, host' = host
  PROVE  Links' /\ OneWrong'
<1>1. DOMAIN net = Conns /\ \A j \in Conns : Link(net[j])
  BY LinksAre
<1>2. NetMoves(net')
  <2>1. CASE Break(k)
    BY <2>1, StandsStill, HostEndMoves DEF Break
  <2>2. ASSUME NEW i \in DOMAIN net[k].up, net' = [net EXCEPT ![k].up[i].intact = FALSE]
        PROVE  NetMoves(net')
    <3> DEFINE r == [net[k].up EXCEPT ![i].intact = FALSE]
    <3>1. i \in 1 .. Len(net[k].up)
      BY <1>1 DEF Link, Line, Listed
    <3>2. Line(r)
      BY <1>1, <3>1, PassMarked DEF Link, Passes
    <3>3. \A j \in Conns : /\ DOMAIN net'[j] = DOMAIN net[j] /\ net'[j].down = net[j].down
                           /\ net'[j].up = IF j = k THEN r ELSE net[j].up
      BY <1>1, <2>2 DEF Link
    <3>4. DOMAIN net' = Conns
      BY <1>1, <2>2
    <3> HIDE DEF r
    <3> QED BY <1>1, <3>2, <3>3, <3>4, PassSame DEF NetMoves, LinkMoves, Link
  <2>3. ASSUME NEW i \in DOMAIN net[k].down, net' = [net EXCEPT ![k].down[i].intact = FALSE]
        PROVE  NetMoves(net')
    <3> DEFINE r == [net[k].down EXCEPT ![i].intact = FALSE]
    <3>1. i \in 1 .. Len(net[k].down)
      BY <1>1 DEF Link, Line, Listed
    <3>2. Passes(net[k].down, r)
      BY <1>1, <3>1, PassMarked DEF Link
    <3>3. \A j \in Conns : /\ DOMAIN net'[j] = DOMAIN net[j] /\ net'[j].up = net[j].up
                           /\ net'[j].down = IF j = k THEN r ELSE net[j].down
      BY <1>1, <2>3 DEF Link
    <3>4. DOMAIN net' = Conns
      BY <1>1, <2>3
    <3> HIDE DEF r
    <3> QED BY <1>1, <3>2, <3>3, <3>4, PassSame DEF NetMoves, LinkMoves, Link
  <2> QED BY <2>1, <2>2, <2>3 DEF Damage
<1> QED BY <1>2, NetKept DEF NetMoves

\* The only wrong answer: until then all were sound.
LEMMA MisanswerKeepsLinks ==
  ASSUME Links, OneWrong, Misanswer, honest' = FALSE, host' = host
  PROVE  Links' /\ OneWrong'
<1>1. DOMAIN net = Conns /\ \A j \in Conns : Link(net[j])
  BY LinksAre
<1>2. /\ \A j \in Conns : \A i \in 1 .. Len(net[j].down) : Sound(net[j].down[i])
      /\ PackageList(host.result)
  BY DEF OneWrong, Misanswer
<1>3. PICK k \in Conns : \E i \in DOMAIN net[k].down :
        \E m \in WrongHeader(net[k].down[i]) \cup WrongBody(net[k].down[i]) :
          net' = [net EXCEPT ![k].down[i] = m]
  BY DEF Misanswer
<1>4. PICK i \in DOMAIN net[k].down :
        \E m \in WrongHeader(net[k].down[i]) \cup WrongBody(net[k].down[i]) :
          net' = [net EXCEPT ![k].down[i] = m]
  BY <1>3
<1>5. PICK m \in WrongHeader(net[k].down[i]) \cup WrongBody(net[k].down[i]) :
        net' = [net EXCEPT ![k].down[i] = m]
  BY <1>4
<1> DEFINE s == net[k].down
           r == [s EXCEPT ![i] = m]
<1>6. Len(s) \in Nat /\ i \in 1 .. Len(s) /\ s = [j \in 1 .. Len(s) |-> s[j]]
      /\ \A j \in 1 .. Len(s) : Framed(s[j])
  BY <1>1 DEF Link, Line, Listed
<1>7. Framed(m)
  <2>1. Framed(s[i])
    BY <1>6
  <2>2. DOMAIN m = DOMAIN s[i]
    BY <1>5 DEF WrongHeader, WrongBody
  <2> QED BY <2>1, <2>2 DEF Framed
<1>8. /\ r = [j \in 1 .. Len(s) |-> r[j]]
      /\ \A j \in 1 .. Len(s) : r[j] = IF j = i THEN m ELSE s[j]
  BY <1>6
<1>9. \A j \in Conns : /\ DOMAIN net'[j] = DOMAIN net[j] /\ net'[j].up = net[j].up
                       /\ net'[j].down = IF j = k THEN r ELSE net[j].down
  BY <1>1, <1>5 DEF Link
<1>10. DOMAIN net' = Conns
  BY <1>1, <1>5
<1> HIDE DEF r
<1>11. Listed(r) /\ Len(r) = Len(s)
  BY <1>6, <1>8, ListOf
<1>12. Line(r)
  BY <1>6, <1>7, <1>8, <1>11 DEF Line
<1>13. Links'
  <2>1. \A j \in Conns : Line(net'[j].up) /\ Line(net'[j].down)
                         /\ DOMAIN net'[j] = {"host", "board", "up", "down"}
    BY <1>1, <1>9, <1>12 DEF Link
  <2> QED BY <1>10, <2>1 DEF Links, Line
<1>14. ASSUME NEW j \in Conns, NEW l \in 1 .. Len(net'[j].down), ~Sound(net'[j].down[l])
       PROVE  j = k /\ l = i
  <2>1. j = k
    BY <1>2, <1>9, <1>14
  <2>2. l \in 1 .. Len(s) /\ net'[j].down[l] = r[l]
    BY <1>9, <1>11, <1>14, <2>1
  <2> QED BY <1>2, <1>8, <1>14, <2>1, <2>2
<1> QED BY <1>2, <1>13, <1>14 DEF OneWrong

-----------------------------------------------------------------------------
(* The run *)

LEMMA ModeFacts ==
  ASSUME NEW a \in Arguments
  PROVE  /\ ModeOf(a.mode).transport \in BOOLEAN
         /\ ModeOf(a.mode).transport => Kind(a) = "TIMING"
         /\ Kind(a) \in {"TIMING", "RAW", "DETECTIONS"}
         /\ Count(a) \in Nat /\ a.first \in Int /\ a.warmup \in Int /\ a.chunk \in Int
         /\ \A n \in 1 .. Count(a) : a.records[n] \in Int
<1>1. a.mode \in Modes /\ a.records \in Seq(Int)
      /\ a.first \in Int /\ a.warmup \in Int /\ a.chunk \in Int
  BY ArgumentsAssumption
<1>2. /\ ModeOf(a.mode).transport \in BOOLEAN
      /\ ModeOf(a.mode).transport => ModeOf(a.mode).kind = "TIMING"
      /\ ModeOf(a.mode).kind \in {"TIMING", "RAW", "DETECTIONS"}
  BY <1>1 DEF Modes, ModeOf
<1> QED BY <1>1, <1>2 DEF Kind, Count

\* The next chunk is not empty and keeps the end of the warm-up.
LEMMA ChunkFacts ==
  ASSUME host.args \in Arguments, ArgumentsOk(host.args),
         host.completed \in 0 .. Count(host.args), host.completed < Count(host.args)
  PROVE  /\ ChunkCount \in Nat \ {0} /\ host.completed \in Nat
         /\ host.completed + ChunkCount \in 1 .. Count(host.args)
         /\ host.completed < host.args.warmup => host.completed + ChunkCount <= host.args.warmup
         /\ Count(host.args) \in Nat /\ host.args.warmup \in Nat
<1>1. Count(host.args) \in Nat /\ host.args.chunk \in Int /\ host.args.warmup \in Int
  BY ModeFacts
<1>2. host.args.chunk >= 1 /\ host.args.warmup >= 0
  BY <1>1, NetLinkAssumption DEF ArgumentsOk
<1> QED BY <1>1, <1>2 DEF ChunkCount

\* Two calls that fit one checkpoint take the same images.
LEMMA SameRecords ==
  ASSUME NEW c, NEW a \in Arguments, NEW b \in Arguments, SameRun(c, a), SameRun(c, b)
  PROVE  /\ Count(a) = Count(b) /\ a.records = b.records /\ a.selection = b.selection
         /\ a.first = b.first /\ a.mode = b.mode /\ a.warmup = b.warmup
         /\ Kind(a) = Kind(b) /\ Base(a) = Base(b)
         /\ \A n : ImageOf(a, n) = ImageOf(b, n)
<1>1. a.binding = b.binding /\ a.first = b.first /\ Count(a) = Count(b)
      /\ a.mode = b.mode /\ a.warmup = b.warmup
  BY DEF SameRun
<1>2. a.selection = b.selection /\ a.records = b.records
  BY <1>1, BindingAssumption
<1> QED BY <1>1, <1>2 DEF Kind, Base, ImageOf

LEMMA CutList ==
  ASSUME NEW s, Listed(s), NEW n \in Nat, n <= Len(s)
  PROVE  /\ Listed(Cut(s, n)) /\ Len(Cut(s, n)) = n
         /\ \A i \in 1 .. n : Cut(s, n)[i] = s[i]
         /\ n = Len(s) => Cut(s, n) = s
<1>1. Len(s) \in Nat
  BY DEF Listed
<1>2. CASE Len(s) > n
  BY <1>1, <1>2, PrefixList DEF Cut
<1>3. CASE Len(s) = n
  BY <1>1, <1>3 DEF Cut
<1> QED BY <1>1, <1>2, <1>3

\* What a list of results begins with.
Begins(old, new, n) == \A i \in 1 .. n : new[i] = old[i]

LEMMA RightBegins ==
  ASSUME NEW a, NEW n \in Nat, NEW old, NEW new, Begins(old, new, n)
  PROVE  /\ DataRight(a, n, old) <=> DataRight(a, n, new)
         /\ TimingRight(a, n, old) <=> TimingRight(a, n, new)
  BY DEF Begins, DataRight, TimingRight

LEMMA RightFewer ==
  ASSUME NEW a, NEW n \in Nat, NEW m \in Nat, m <= n, NEW s
  PROVE  /\ DataRight(a, n, s) => DataRight(a, m, s)
         /\ TimingRight(a, n, s) => TimingRight(a, m, s)
  BY DEF DataRight, TimingRight

LEMMA FieldsOfOver ==
  ASSUME NEW o
  PROVE  /\ DOMAIN Over(o) = HostFields /\ Over(o).pc = "idle" /\ Over(o).result = <<>>
         /\ Over(o).conn = 0 /\ Over(o).outcome = o /\ Over(o).stage = "none"
  BY DEF Over, HostFields

LEMMA PackedNat ==
  ASSUME NEW a, NEW n \in Nat
  PROVE  Packed(a, n) \in Nat /\ RowsOf(a, n) \in Nat
  BY DEF Packed, RowsOf

LEMMA CoversKept ==
  ASSUME NEW c, NEW a \in Arguments, NEW d, NEW e, CkptRight(c, a, d),
         Packed(a, c.completed) <= e.data_safe, RowsOf(a, c.completed) <= e.timing_safe,
         Begins(d.data, e.data, Packed(a, c.completed)),
         Begins(d.timing, e.timing, RowsOf(a, c.completed)),
         Kind(a) = "TIMING" => e.data = <<>>,
         ModeOf(a.mode).transport => e.timing = <<>>
  PROVE  CkptRight(c, a, e)
<1>1. Packed(a, c.completed) \in Nat /\ RowsOf(a, c.completed) \in Nat
  BY PackedNat, ModeFacts DEF CkptRight
<1>2. /\ DataRight(a, Packed(a, c.completed), e.data)
      /\ TimingRight(a, RowsOf(a, c.completed), e.timing)
  BY <1>1, RightBegins DEF CkptRight
<1> QED BY <1>2 DEF CkptRight

\* A checkpoint and a summary depend on some files only.
LEMMA CoversSame ==
  ASSUME NEW c, NEW a, NEW d, NEW e, CkptRight(c, a, d),
         e.data = d.data, e.timing = d.timing,
         e.data_safe = d.data_safe, e.timing_safe = d.timing_safe
  PROVE  CkptRight(c, a, e)
  BY DEF CkptRight

LEMMA SummedSame ==
  ASSUME NEW a, NEW d, NEW e, Summed(a, d),
         e.data = d.data, e.timing = d.timing, e.index = d.index, e.summary = d.summary,
         e.data_safe = d.data_safe, e.timing_safe = d.timing_safe, e.ckpt = d.ckpt
  PROVE  Summed(a, e)
  BY DEF Summed, Files, IndexRight

\* A step of the call that touches no file.
LEMMA MovesOn ==
  ASSUME HostInv, disk' = disk, DOMAIN host' = HostFields,
         host'.args = host.args, host'.completed = host.completed,
         host'.entries = host.entries, host'.chunks = host.chunks,
         host.pc \notin {"idle", "sync", "checkpoint"},
         host'.pc \in {"connect", "send", "await", "index"},
         Whereabouts', Holding'
  PROVE  HostInv'
<1>1. Fields'
  BY DEF HostInv, Fields
<1>2. Reach = host.completed /\ Reach' = host.completed
  BY DEF Reach
<1>3. RunRight'
  BY <1>2 DEF HostInv, RunRight
<1>4. Checkpointed'
  BY DEF HostInv, Checkpointed
<1>5. PublishedRight'
  BY DEF HostInv, PublishedRight
<1> QED BY <1>1, <1>3, <1>4, <1>5 DEF HostInv

LEMMA OverHolds ==
  ASSUME NEW o, host' = Over(o)
  PROVE  DOMAIN host' = HostFields /\ host'.pc = "idle" /\ Holding'
<1>1. DOMAIN host' = HostFields /\ host'.pc = "idle" /\ host'.result = <<>>
  BY FieldsOfOver
<1> QED BY <1>1 DEF Holding

\* The end of a call that leaves the files at least what was safe.
LEMMA EndsSafely ==
  ASSUME HostInv, NEW o, host' = Over(o), DOMAIN disk' = DiskFields,
         disk.dir => disk'.dir, disk'.ckpt = disk.ckpt, disk'.index = disk.index,
         disk'.summary = disk.summary,
         disk'.data_safe = disk.data_safe, disk'.timing_safe = disk.timing_safe,
         Listed(disk'.data), disk.data_safe <= Len(disk'.data),
         Begins(disk.data, disk'.data, disk.data_safe),
         Listed(disk'.timing), disk.timing_safe <= Len(disk'.timing),
         Begins(disk.timing, disk'.timing, disk.timing_safe),
         disk.summary # None => disk'.data = disk.data /\ disk'.timing = disk.timing,
         disk.ckpt # None /\ ModeOf(disk.ckpt.mode).kind = "TIMING" => disk'.data = disk.data,
         disk.ckpt # None /\ ModeOf(disk.ckpt.mode).transport => disk'.timing = disk.timing,
         ~disk.dir => disk' = disk
  PROVE  HostInv'
<1>0. DOMAIN host' = HostFields /\ host'.pc = "idle" /\ Holding'
  BY OverHolds
<1>1. Fields'
  <2>1. /\ disk.data_safe \in 0 .. Len(disk'.data)
        /\ disk.timing_safe \in 0 .. Len(disk'.timing)
    BY DEF HostInv, Fields, Listed
  <2> QED BY <1>0, <2>1 DEF HostInv, Fields
<1>2. disk.ckpt # None => disk.dir /\ \E a \in Arguments : CkptRight(disk.ckpt, a, disk')
  <2>1. SUFFICES ASSUME disk.ckpt # None
                 PROVE  disk.dir /\ \E a \in Arguments : CkptRight(disk.ckpt, a, disk')
    OBVIOUS
  <2>2. PICK a \in Arguments : CkptRight(disk.ckpt, a, disk)
    BY <2>1 DEF HostInv, Checkpointed
  <2> DEFINE n == Packed(a, disk.ckpt.completed)
             m == RowsOf(a, disk.ckpt.completed)
  <2>3. n \in Nat /\ m \in Nat /\ n <= disk.data_safe /\ m <= disk.timing_safe
        /\ disk.data_safe \in Nat /\ disk.timing_safe \in Nat
    BY <2>2, PackedNat, ModeFacts DEF CkptRight, HostInv, Fields, Listed
  <2>4. Begins(disk.data, disk'.data, n) /\ Begins(disk.timing, disk'.timing, m)
    <3> HIDE DEF n, m
    <3> QED BY <2>3 DEF Begins
  <2>5. /\ Kind(a) = "TIMING" => disk'.data = <<>>
        /\ ModeOf(a.mode).transport => disk'.timing = <<>>
    BY <2>1, <2>2 DEF CkptRight, SameRun, Kind
  <2>6. CkptRight(disk.ckpt, a, disk')
    BY <2>2, <2>3, <2>4, <2>5, CoversKept
  <2> QED BY <2>1, <2>6 DEF HostInv, Checkpointed
<1>3. Checkpointed'
  BY <1>0, <1>2 DEF Checkpointed
<1>4. PublishedRight'
  <2>1. disk.summary # None => Summed(disk.summary.args, disk')
    BY SummedSame DEF HostInv, PublishedRight
  <2> QED BY <1>0, <2>1 DEF HostInv, PublishedRight
<1> QED BY <1>0, <1>1, <1>3, <1>4 DEF HostInv

LEMMA StagesAre ==
  ASSUME Whereabouts, host.pc = "await"
  PROVE  /\ Awaited = "STATUS" => host.stage \in {"hello", "parameters", "input"}
         /\ Awaited = "RESULT" => host.stage = "run" /\ WritesData
         /\ Awaited = "TIMING" => host.stage \in {"run", "timing"} /\ (host.stage = "run" => ~WritesData)
         /\ Awaited = "END" => host.stage = "end"
  BY DEF Whereabouts, Awaited

LEMMA TalkKeepsRun ==
  ASSUME HostInv,
         \/ \E k \in Conns : Connect(k)
         \/ Send \/ StatusArrives \/ ResultArrives
         \/ EndArrives /\ ~Failed(Taken)
  PROVE  HostInv'
<1>0. DOMAIN host = HostFields
  BY DEF HostInv, Fields
<1>1. ASSUME NEW k \in Conns, Connect(k) PROVE HostInv'
  <2>1. /\ DOMAIN host' = HostFields /\ host'.args = host.args
        /\ host'.completed = host.completed /\ host'.entries = host.entries
        /\ host'.chunks = host.chunks /\ host'.pc = "send" /\ host'.stage = "hello"
        /\ host'.conn = k /\ host'.result = host.result /\ disk' = disk /\ host.pc = "connect"
    BY <1>0, <1>1 DEF Connect, HostFields
  <2>2. Whereabouts' /\ Holding'
    BY <1>1, <2>1 DEF HostInv, Whereabouts, Holding, Publishing
  <2> QED BY <2>1, <2>2, MovesOn
<1>2. CASE Send
  <2>1. /\ DOMAIN host' = HostFields /\ host'.args = host.args
        /\ host'.completed = host.completed /\ host'.entries = host.entries
        /\ host'.chunks = host.chunks /\ host'.pc = "await" /\ host'.stage = host.stage
        /\ host'.conn = host.conn /\ host'.result = host.result /\ disk' = disk
        /\ host.pc = "send"
    BY <1>0, <1>2 DEF Send, HostFields
  <2>2. Whereabouts' /\ Holding'
    BY <2>1 DEF HostInv, Whereabouts, Holding, Publishing, Transport, WritesData
  <2> QED BY <2>1, <2>2, MovesOn
<1>3. CASE StatusArrives
  <2>1. host.pc = "await" /\ Whereabouts /\ RunRight /\ host.stage \in {"hello", "parameters", "input"}
    BY <1>3, StagesAre DEF StatusArrives, Arrives, Arrived, HostInv
  <2>2. CASE host.stage = "input" /\ Transport
    <3>1. /\ DOMAIN host' = HostFields /\ host'.args = host.args
          /\ host'.completed = host.completed /\ host'.entries = host.entries
          /\ host'.chunks = host.chunks /\ host'.pc = "sync" /\ host'.conn = host.conn
          /\ host'.result = <<>> /\ disk' = disk
      BY <1>0, <1>3, <2>2 DEF StatusArrives, HostFields
    <3>2. Kind(host.args) = "TIMING" /\ ~WritesData'
      BY <2>1, <2>2, <3>1, ModeFacts DEF RunRight, Transport, WritesData, Kind
    <3>3. Holding'
      BY <3>1, <3>2 DEF Holding
    <3>4. Whereabouts'
      BY <2>1, <2>2, <3>1 DEF Whereabouts, Publishing
    <3>5. RunRight'
      <4>1. /\ \A n : Packed(host.args, n) = 0
            /\ \A n : RowsOf(host.args, n) = 0
        BY <2>2, <3>2 DEF Packed, RowsOf, Transport
      <4>2. Reach = host.completed
        BY <2>1 DEF Reach
      <4>3. Files(host.args, Reach, disk)
        BY <2>1 DEF RunRight
      <4>4. \A n : Files(host.args, n, disk)
        BY <4>1, <4>3 DEF Files
      <4> QED BY <2>1, <3>1, <4>4 DEF RunRight
    <3>6. Fields' /\ Checkpointed' /\ PublishedRight'
      BY <2>1, <3>1 DEF HostInv, Fields, Checkpointed, PublishedRight
    <3> QED BY <3>3, <3>4, <3>5, <3>6 DEF HostInv
  <2>3. CASE ~(host.stage = "input" /\ Transport)
    <3>1. /\ DOMAIN host' = HostFields /\ host'.args = host.args
          /\ host'.completed = host.completed /\ host'.entries = host.entries
          /\ host'.chunks = host.chunks /\ host'.pc = "send"
          /\ host'.conn = host.conn /\ host'.result = host.result /\ disk' = disk
          /\ host.stage = "hello" => host'.stage = "parameters"
          /\ host.stage = "parameters" => host'.stage = NextStage
          /\ host.stage = "input" => host'.stage = "run"
      BY <1>0, <1>3, <2>1, <2>3 DEF StatusArrives, HostFields
    <3>2. host.completed \in 0 .. Count(host.args) /\ Count(host.args) \in Nat
      BY <2>1, ModeFacts DEF RunRight
    <3>3. Whereabouts'
      BY <2>1, <2>3, <3>1, <3>2 DEF Whereabouts, Publishing, NextStage, Transport, WritesData
    <3>4. Holding'
      BY <2>1, <3>1 DEF HostInv, Holding
    <3> QED BY <2>1, <3>1, <3>3, <3>4, MovesOn
  <2> QED BY <2>2, <2>3
<1>4. CASE ResultArrives
  <2>1. host.pc = "await" /\ Whereabouts /\ host.stage = "run" /\ WritesData
    BY <1>4, StagesAre DEF ResultArrives, Arrives, Arrived, HostInv
  <2>2. /\ DOMAIN host' = HostFields /\ host'.args = host.args
        /\ host'.completed = host.completed /\ host'.entries = host.entries
        /\ host'.chunks = host.chunks /\ host'.pc = "await" /\ host'.stage = "timing"
        /\ host'.conn = host.conn /\ disk' = disk
    BY <1>0, <1>4, <2>1 DEF ResultArrives, HostFields
  <2>3. Whereabouts' /\ Holding'
    BY <2>1, <2>2 DEF Whereabouts, Holding, Publishing, Transport, WritesData
  <2> QED BY <2>1, <2>2, <2>3, MovesOn
<1>5. CASE EndArrives /\ ~Failed(Taken)
  <2>1. host.pc = "await" /\ Whereabouts /\ host.stage = "end"
    BY <1>5, StagesAre DEF EndArrives, Arrives, Arrived, HostInv
  <2>2. /\ DOMAIN host' = HostFields /\ host'.args = host.args
        /\ host'.completed = host.completed /\ host'.entries = host.entries
        /\ host'.chunks = host.chunks /\ host'.pc = "index"
        /\ host'.conn = host.conn /\ host'.result = host.result /\ disk' = disk
    BY <1>0, <1>5 DEF EndArrives, HostFields
  <2>3. Whereabouts' /\ Holding'
    BY <2>1, <2>2 DEF HostInv, Whereabouts, Holding, Publishing
  <2> QED BY <2>1, <2>2, <2>3, MovesOn
<1> QED BY <1>1, <1>2, <1>3, <1>4, <1>5

LEMMA QuitKeepsRun ==
  ASSUME HostInv, NEW o, host' = Over(o), disk' = disk
  PROVE  HostInv'
<1>1. /\ disk.data_safe <= Len(disk.data) /\ disk.timing_safe <= Len(disk.timing)
      /\ DOMAIN disk = DiskFields /\ Listed(disk.data) /\ Listed(disk.timing)
  BY DEF HostInv, Fields, Listed
<1>2. Begins(disk.data, disk.data, disk.data_safe) /\ Begins(disk.timing, disk.timing, disk.timing_safe)
  BY DEF Begins
<1> QED BY <1>1, <1>2, EndsSafely

LEMMA CrashKeepsRun ==
  ASSUME HostInv, Crash
  PROVE  HostInv'
<1>0. /\ DOMAIN disk = DiskFields /\ Listed(disk.data) /\ Listed(disk.timing)
      /\ disk.data_safe \in Nat /\ disk.timing_safe \in Nat
      /\ Len(disk.data) \in Nat /\ Len(disk.timing) \in Nat
      /\ disk.data_safe <= Len(disk.data) /\ disk.timing_safe <= Len(disk.timing)
  BY DEF HostInv, Fields, Listed
<1>1. PICK d \in disk.data_safe .. Len(disk.data), t \in disk.timing_safe .. Len(disk.timing) :
        disk' = [disk EXCEPT !.data = SubSeq(@, 1, d), !.timing = SubSeq(@, 1, t)]
  BY DEF Crash
<1>2. /\ d \in Nat /\ disk.data_safe <= d /\ d <= Len(disk.data)
      /\ t \in Nat /\ disk.timing_safe <= t /\ t <= Len(disk.timing)
  BY <1>0
<1> DEFINE data == SubSeq(disk.data, 1, d)
           timing == SubSeq(disk.timing, 1, t)
<1>3. /\ Listed(data) /\ Len(data) = d /\ \A i \in 1 .. d : data[i] = disk.data[i]
      /\ Listed(timing) /\ Len(timing) = t /\ \A i \in 1 .. t : timing[i] = disk.timing[i]
  BY <1>2, PrefixList
<1>4. /\ DOMAIN disk' = DiskFields
      /\ disk'.dir = disk.dir /\ disk'.ckpt = disk.ckpt /\ disk'.index = disk.index
      /\ disk'.summary = disk.summary /\ disk'.data_safe = disk.data_safe
      /\ disk'.timing_safe = disk.timing_safe
      /\ disk'.data = data /\ disk'.timing = timing
  BY <1>0, <1>1 DEF DiskFields
<1> HIDE DEF data, timing
<1>5. Begins(disk.data, data, disk.data_safe) /\ Begins(disk.timing, timing, disk.timing_safe)
  BY <1>0, <1>2, <1>3 DEF Begins
<1>6. /\ Len(disk.data) = disk.data_safe => data = disk.data
      /\ Len(disk.timing) = disk.timing_safe => timing = disk.timing
      /\ Len(disk.data) = 0 => data = disk.data
      /\ Len(disk.timing) = 0 => timing = disk.timing
  <2>1. d = Len(disk.data) => data = disk.data
    BY <1>0, <1>2, <1>3, SameList
  <2>2. t = Len(disk.timing) => timing = disk.timing
    BY <1>0, <1>2, <1>3, SameList
  <2> QED BY <1>0, <1>2, <2>1, <2>2
<1>7. disk.summary # None => data = disk.data /\ timing = disk.timing
  BY <1>6 DEF HostInv, PublishedRight, Summed
<1>8. /\ disk.ckpt # None /\ ModeOf(disk.ckpt.mode).kind = "TIMING" => data = disk.data
      /\ disk.ckpt # None /\ ModeOf(disk.ckpt.mode).transport => timing = disk.timing
  BY <1>6, EmptyList DEF HostInv, Checkpointed, CkptRight, SameRun, Kind
<1>9. disk.dir
  BY DEF HostInv, RunRight, Crash
<1>10. host' = Over("killed")
  BY DEF Crash
<1> QED BY <1>0, <1>2, <1>3, <1>4, <1>5, <1>7, <1>8, <1>9, <1>10, EndsSafely

LEMMA EmptyDisk ==
  /\ DOMAIN Empty = DiskFields /\ Empty.ckpt = None /\ Empty.summary = None
  /\ Empty.data = <<>> /\ Empty.timing = <<>> /\ Empty.data_safe = 0 /\ Empty.timing_safe = 0
  /\ ~Empty.dir
  BY DEF Empty, DiskFields

LEMMA FreshHolds ==
  ASSUME DOMAIN disk' = DiskFields, disk'.ckpt = None, disk'.summary = None,
         disk'.data = <<>>, disk'.timing = <<>>, disk'.data_safe = 0, disk'.timing_safe = 0,
         disk'.dir \/ disk' = Empty,
         DOMAIN host' = HostFields, host'.pc = "idle", Holding'
  PROVE  HostInv'
<1>1. Fields'
  BY EmptyList DEF Fields
<1>2. Checkpointed' /\ PublishedRight'
  BY DEF Checkpointed, PublishedRight
<1> QED BY <1>1, <1>2 DEF HostInv

LEMMA RefuseKeepsRun ==
  ASSUME HostInv, Clean \/ \E a \in Arguments, resume \in BOOLEAN : Refuse(a, resume)
  PROVE  HostInv'
<1>1. CASE Clean
  <2>1. host' = host /\ disk' = Empty /\ host.pc = "idle"
    BY <1>1 DEF Clean
  <2>2. DOMAIN host = HostFields /\ Holding'
    BY <2>1 DEF HostInv, Fields, Holding
  <2> QED BY <2>1, <2>2, EmptyDisk, FreshHolds
<1>2. ASSUME NEW a \in Arguments, NEW resume \in BOOLEAN, Refuse(a, resume)
      PROVE  HostInv'
  <2>1. /\ host' = Over("refused")
        /\ disk' = [disk EXCEPT !.dir = @ \/ (ArgumentsOk(a) /\ resume)]
    BY <1>2 DEF Refuse
  <2>2. DOMAIN disk = DiskFields /\ (~disk.dir => disk = Empty)
    BY DEF HostInv, Fields
  <2>3. CASE disk.dir
    <3>1. /\ DOMAIN disk' = DiskFields /\ disk'.dir
          /\ disk'.ckpt = disk.ckpt /\ disk'.index = disk.index
          /\ disk'.summary = disk.summary /\ disk'.data_safe = disk.data_safe
          /\ disk'.timing_safe = disk.timing_safe
          /\ disk'.data = disk.data /\ disk'.timing = disk.timing
      BY <2>1, <2>2, <2>3 DEF DiskFields
    <3>2. /\ disk.data_safe <= Len(disk.data) /\ disk.timing_safe <= Len(disk.timing)
          /\ Listed(disk.data) /\ Listed(disk.timing)
      BY DEF HostInv, Fields, Listed
    <3>3. /\ Begins(disk.data, disk.data, disk.data_safe)
          /\ Begins(disk.timing, disk.timing, disk.timing_safe)
      BY DEF Begins
    <3> QED BY <2>1, <2>3, <3>1, <3>2, <3>3, EndsSafely
  <2>4. CASE ~disk.dir
    <3>1. /\ DOMAIN disk' = DiskFields /\ disk'.ckpt = None /\ disk'.summary = None
          /\ disk'.data = <<>> /\ disk'.timing = <<>>
          /\ disk'.data_safe = 0 /\ disk'.timing_safe = 0
          /\ disk'.dir <=> ArgumentsOk(a) /\ resume
      BY <2>1, <2>2, <2>4, EmptyDisk DEF DiskFields
    <3>2. disk'.dir \/ disk' = Empty
      <4>1. CASE ArgumentsOk(a) /\ resume
        BY <3>1, <4>1
      <4>2. CASE ~(ArgumentsOk(a) /\ resume)
        <5>1. (disk.dir \/ (ArgumentsOk(a) /\ resume)) = FALSE
          BY <2>4, <4>2
        <5>2. disk' = [Empty EXCEPT !.dir = FALSE]
          BY <2>1, <2>2, <2>4, <5>1
        <5>3. Empty.dir = FALSE /\ Empty = [x \in DiskFields |-> Empty[x]]
          BY DEF Empty, DiskFields
        <5>4. [Empty EXCEPT !.dir = FALSE] = Empty
          BY <5>3
        <5> QED BY <5>2, <5>4
      <4> QED BY <4>1, <4>2
    <3> QED BY <2>1, <3>1, <3>2, OverHolds, FreshHolds
  <2> QED BY <2>3, <2>4
<1> QED BY <1>1, <1>2

LEMMA RightForBoth ==
  ASSUME NEW c, NEW a \in Arguments, NEW b \in Arguments, SameRun(c, a), SameRun(c, b), NEW n, NEW s
  PROVE  /\ EntriesRight(b, n, s) => EntriesRight(a, n, s)
         /\ TiledTo(b, n, s) => TiledTo(a, n, s)
         /\ DataRight(b, n, s) => DataRight(a, n, s)
         /\ TimingRight(b, n, s) => TimingRight(a, n, s)
         /\ Packed(a, n) = Packed(b, n) /\ RowsOf(a, n) = RowsOf(b, n)
<1>1. /\ a.mode = b.mode /\ a.warmup = b.warmup
      /\ Kind(a) = Kind(b) /\ Base(a) = Base(b)
      /\ \A i : ImageOf(a, i) = ImageOf(b, i)
  BY SameRecords
<1>2. Packed(a, n) = Packed(b, n) /\ RowsOf(a, n) = RowsOf(b, n)
  BY <1>1 DEF Packed, RowsOf
<1>3. EntriesRight(b, n, s) => EntriesRight(a, n, s)
  BY <1>1, <1>2 DEF EntriesRight
<1>4. TiledTo(b, n, s) => TiledTo(a, n, s)
  BY <1>1 DEF TiledTo, EndOf
<1>5. DataRight(b, n, s) => DataRight(a, n, s)
  BY <1>1 DEF DataRight
<1>6. TimingRight(b, n, s) => TimingRight(a, n, s)
  BY <1>1 DEF TimingRight, RowRight
<1> QED BY <1>2, <1>3, <1>4, <1>5, <1>6

LEMMA BaseInt ==
  ASSUME NEW a \in Arguments
  PROVE  Base(a) \in Int
  BY ModeFacts DEF Base

\* A new call in a directory of its own.
LEMMA FreshKeepsRun ==
  ASSUME HostInv, NEW a \in Arguments, Start(a, FALSE)
  PROVE  HostInv'
<1>1. ArgumentsOk(a) /\ ~disk.dir
  BY DEF Start, Refused
<1>2. disk = Empty
  BY <1>1 DEF HostInv, Fields
<1>3. Cut(<<>>, 0) = <<>> /\ Len(<<>>) = 0 /\ ~(0 > 0)
  BY EmptyList DEF Cut
<1>4. /\ DOMAIN disk' = DiskFields /\ disk'.dir /\ disk'.data = <<>> /\ disk'.timing = <<>>
      /\ disk'.data_safe = 0 /\ disk'.timing_safe = 0
      /\ disk'.ckpt = None /\ disk'.summary = None
  <2>1. /\ DOMAIN disk' = DOMAIN disk /\ disk'.ckpt = disk.ckpt /\ disk'.summary = disk.summary
        /\ disk'.dir
        /\ disk'.data = IF ModeOf(a.mode).kind # "TIMING" THEN Cut(disk.data, Len(<<>>)) ELSE disk.data
        /\ disk'.timing = Cut(disk.timing, IF ModeOf(a.mode).transport THEN 0 ELSE 0)
        /\ disk'.data_safe = (IF disk.data_safe > Len(disk'.data) THEN Len(disk'.data) ELSE disk.data_safe)
        /\ disk'.timing_safe = (IF disk.timing_safe > Len(disk'.timing) THEN Len(disk'.timing)
                                 ELSE disk.timing_safe)
    BY <1>2, EmptyDisk DEF Start, DiskFields
  <2>2. disk'.data = <<>> /\ disk'.timing = <<>>
    BY <1>2, <1>3, <2>1, EmptyDisk
  <2> QED BY <1>2, <1>3, <2>1, <2>2, EmptyDisk
<1>5. /\ DOMAIN host' = HostFields /\ host'.pc = "connect" /\ host'.args = a
      /\ host'.completed = 0 /\ host'.entries = <<>> /\ host'.chunks = <<>>
      /\ host'.result = <<>> /\ host'.stage = "none"
  <2>1. host' = [Over("none") EXCEPT !.pc = "connect", !.args = a, !.resume = FALSE,
                               !.completed = 0, !.entries = <<>>, !.chunks = <<>>]
    BY DEF Start
  <2> QED BY <2>1, FieldsOfOver DEF HostFields
<1>6. Fields'
  BY <1>4, <1>5, EmptyList DEF Fields
<1>7. Whereabouts' /\ Holding' /\ Checkpointed' /\ PublishedRight'
  BY <1>4, <1>5 DEF Whereabouts, Holding, Checkpointed, PublishedRight, Publishing
<1>8. RunRight'
  <2>1. Count(a) \in Nat /\ a.warmup \in Nat /\ Base(a) \in Int
    BY <1>1, ModeFacts, BaseInt DEF ArgumentsOk
  <2>2. EntriesRight(a, 0, <<>>)
    BY EmptyList DEF EntriesRight, Packed
  <2>3. TiledTo(a, 0, <<>>)
    <3>1. EndOf(a, <<>>, 0) = Base(a) /\ 0 \in 0 .. 0
      BY DEF EndOf
    <3> QED BY <2>1, <3>1, EmptyList DEF TiledTo
  <2>4. Reach' = 0
    BY <1>5 DEF Reach
  <2>5. Files(a, 0, disk')
    BY <1>4, EmptyList DEF Files, Packed, RowsOf, DataRight, TimingRight
  <2> QED BY <1>1, <1>4, <1>5, <2>1, <2>2, <2>3, <2>4, <2>5, EmptyList DEF RunRight
<1> QED BY <1>6, <1>7, <1>8 DEF HostInv

\* A call that resumes finds in the directory what its checkpoint covers, and cuts
\* off the rest.
LEMMA ResumeKeepsRun ==
  ASSUME HostInv, NEW a \in Arguments, Start(a, TRUE)
  PROVE  HostInv'
<1> DEFINE c == disk.ckpt
<1>1. ArgumentsOk(a) /\ c # None /\ CheckpointFits(a) /\ host.pc = "idle"
  BY DEF Start, Refused
<1>2. PICK b \in Arguments : CkptRight(c, b, disk)
  BY <1>1 DEF HostInv, Checkpointed
<1> DEFINE n == Packed(b, c.completed)
           m == RowsOf(b, c.completed)
<1>3. /\ c.mode = a.mode /\ c.first = a.first /\ c.count = Count(a) /\ c.warmup = a.warmup
      /\ c.completed \in 0 .. Count(a) /\ Count(a) \in Nat
      /\ a.mode = b.mode /\ disk.dir
  BY <1>1, <1>2, ModeFacts DEF CheckpointFits, CkptRight, SameRun, HostInv, Checkpointed
<1>4. /\ n \in Nat /\ m \in Nat /\ Len(c.entries) = n
      /\ m = (IF ModeOf(a.mode).transport THEN 0 ELSE c.completed)
  BY <1>2, <1>3, PackedNat DEF CkptRight, EntriesRight, RowsOf
<1>5. /\ DOMAIN disk = DiskFields /\ Listed(disk.data) /\ Listed(disk.timing)
      /\ disk.data_safe \in Nat /\ disk.timing_safe \in Nat
      /\ Len(disk.data) \in Nat /\ Len(disk.timing) \in Nat
      /\ disk.data_safe <= Len(disk.data) /\ disk.timing_safe <= Len(disk.timing)
      /\ n <= disk.data_safe /\ m <= disk.timing_safe
  BY <1>2 DEF HostInv, Fields, Listed, CkptRight
<1>6. /\ DOMAIN disk' = DOMAIN disk /\ disk'.ckpt = disk.ckpt /\ disk'.summary = disk.summary
      /\ disk'.index = disk.index /\ disk'.dir
      /\ disk'.data = IF ModeOf(a.mode).kind # "TIMING" THEN Cut(disk.data, n) ELSE disk.data
      /\ disk'.timing = Cut(disk.timing, m)
      /\ disk'.data_safe = (IF disk.data_safe > Len(disk'.data) THEN Len(disk'.data) ELSE disk.data_safe)
      /\ disk'.timing_safe = (IF disk.timing_safe > Len(disk'.timing) THEN Len(disk'.timing)
                                 ELSE disk.timing_safe)
  <2> HIDE DEF n, m
  <2> QED BY <1>4, <1>5 DEF Start, DiskFields
<1>7. /\ Listed(disk'.data) /\ Len(disk'.data) = n /\ Begins(disk.data, disk'.data, n)
      /\ n = Len(disk.data) => disk'.data = disk.data
  <2>1. CASE ModeOf(a.mode).kind # "TIMING"
    <3> HIDE DEF n
    <3>1. n <= Len(disk.data)
      BY <1>4, <1>5
    <3> QED BY <1>4, <1>5, <1>6, <2>1, <3>1, CutList DEF Begins
  <2>2. CASE ModeOf(a.mode).kind = "TIMING"
    <3>1. Kind(b) = "TIMING"
      BY <1>3, <2>2 DEF Kind
    <3>2. disk.data = <<>> /\ n = 0
      BY <1>2, <3>1 DEF CkptRight, Packed
    <3> QED BY <1>6, <2>2, <3>2, EmptyList DEF Begins
  <2> QED BY <2>1, <2>2
<1>8. /\ Listed(disk'.timing) /\ Len(disk'.timing) = m /\ Begins(disk.timing, disk'.timing, m)
      /\ m = Len(disk.timing) => disk'.timing = disk.timing
  <2> HIDE DEF m
  <2>1. m <= Len(disk.timing)
    BY <1>4, <1>5
  <2> QED BY <1>4, <1>5, <1>6, <2>1, CutList DEF Begins
<1>9. disk'.data_safe = n /\ disk'.timing_safe = m
  <2> HIDE DEF n, m
  <2> QED BY <1>4, <1>5, <1>6, <1>7, <1>8
<1>10. CkptRight(c, b, disk')
  <2>1. Kind(b) = "TIMING" => disk'.data = <<>>
    BY <1>2, <1>3, <1>6 DEF CkptRight, Kind
  <2>2. ModeOf(b.mode).transport => disk'.timing = <<>>
    <3>1. ModeOf(b.mode).transport => m = 0
      BY DEF RowsOf
    <3> HIDE DEF m
    <3> QED BY <1>8, <3>1, EmptyList
  <2>3. n <= disk'.data_safe /\ m <= disk'.timing_safe
    <3> HIDE DEF n, m
    <3> QED BY <1>4, <1>9
  <2> QED BY <1>2, <1>7, <1>8, <2>1, <2>2, <2>3, CoversKept
<1>11. disk.summary # None =>
         /\ Summed(disk.summary.args, disk') /\ disk.summary.args \in Arguments /\ disk.dir
  <2>1. SUFFICES ASSUME disk.summary # None
                 PROVE  /\ Summed(disk.summary.args, disk') /\ disk.summary.args \in Arguments
    BY <1>3
  <2> DEFINE e == disk.summary.args
  <2>2. e \in Arguments /\ Summed(e, disk)
    BY <2>1 DEF HostInv, PublishedRight
  <2>3. SameRun(c, e) /\ c.completed = Count(e) /\ Files(e, Count(e), disk)
        /\ disk.data_safe = Len(disk.data) /\ disk.timing_safe = Len(disk.timing)
    BY <1>1, <2>2 DEF Summed
  <2>4. Packed(e, c.completed) = n /\ RowsOf(e, c.completed) = m
    BY <1>2, <2>2, <2>3, RightForBoth DEF CkptRight
  <2>5. n = Len(disk.data) /\ m = Len(disk.timing)
    BY <2>3, <2>4 DEF Files
  <2> HIDE DEF n, m, e
  <2>6. /\ disk'.data = disk.data /\ disk'.timing = disk.timing
        /\ disk'.data_safe = disk.data_safe /\ disk'.timing_safe = disk.timing_safe
    BY <1>7, <1>8, <1>9, <2>3, <2>5
  <2>7. Summed(e, disk')
    BY <1>6, <2>2, <2>6, SummedSame
  <2> QED BY <2>2, <2>7 DEF e
<1> HIDE DEF n, m
<1>12. disk'.data_safe \in 0 .. Len(disk'.data) /\ disk'.timing_safe \in 0 .. Len(disk'.timing)
  BY <1>4, <1>7, <1>8, <1>9
<1>13. disk'.ckpt # None => disk'.dir /\ \E e \in Arguments : CkptRight(disk'.ckpt, e, disk')
  BY <1>6, <1>10
<1>14. CASE c.binding # a.binding
  <2>1. host' = Over("refused")
    BY <1>14 DEF Start
  <2>2. DOMAIN host' = HostFields /\ host'.pc = "idle" /\ Holding'
    BY <2>1, OverHolds
  <2>3. Fields'
    BY <1>5, <1>6, <1>7, <1>8, <1>12, <2>2 DEF Fields
  <2>4. Checkpointed' /\ PublishedRight'
    BY <1>6, <1>11, <1>13, <2>2 DEF Checkpointed, PublishedRight
  <2> QED BY <2>2, <2>3, <2>4 DEF HostInv
<1>15. CASE c.binding = a.binding
  <2>1. SameRun(c, a)
    BY <1>3, <1>15 DEF SameRun
  <2>2. SameRun(c, b)
    BY <1>2 DEF CkptRight
  <2>3. /\ DOMAIN host' = HostFields /\ host'.pc = "connect" /\ host'.args = a
        /\ host'.completed = c.completed /\ host'.entries = c.entries
        /\ host'.chunks = c.chunks /\ host'.result = <<>> /\ host'.stage = "none"
    <3>1. host' = [Over("none") EXCEPT !.pc = "connect", !.args = a, !.resume = TRUE,
                               !.completed = c.completed, !.entries = c.entries,
                               !.chunks = c.chunks]
      BY <1>15 DEF Start
    <3> QED BY <3>1, FieldsOfOver DEF HostFields
  <2>4. Fields'
    BY <1>5, <1>6, <1>7, <1>8, <1>12, <2>3 DEF Fields
  <2>5. Whereabouts' /\ Holding'
    BY <2>3 DEF Whereabouts, Holding, Publishing
  <2>6. Checkpointed' /\ PublishedRight'
    BY <1>1, <1>6, <1>11, <1>13, <2>1, <2>3 DEF Checkpointed, PublishedRight
  <2>7. EntriesRight(a, c.completed, c.entries) /\ TiledTo(a, c.completed, c.chunks)
    BY <1>2, <2>1, <2>2, RightForBoth DEF CkptRight
  <2>8. Files(a, c.completed, disk')
    <3>1. Packed(a, c.completed) = n /\ RowsOf(a, c.completed) = m
      BY <2>1, <2>2, RightForBoth DEF n, m
    <3>2. DataRight(b, n, disk'.data) /\ TimingRight(b, m, disk'.timing)
      BY <1>10 DEF CkptRight, n, m
    <3>3. DataRight(a, n, disk'.data) /\ TimingRight(a, m, disk'.timing)
      BY <2>1, <2>2, <3>2, RightForBoth
    <3> QED BY <1>7, <1>8, <3>1, <3>3 DEF Files
  <2>9. RunRight'
    <3>1. Reach' = c.completed
      BY <2>3 DEF Reach
    <3> QED BY <1>1, <1>3, <1>6, <1>7, <1>8, <1>9, <2>3, <2>7, <2>8, <3>1 DEF RunRight
  <2> QED BY <2>4, <2>5, <2>6, <2>9 DEF HostInv
<1> QED BY <1>14, <1>15

\* Nothing is published while there is something left to do.
LEMMA NoSummaryYet ==
  ASSUME HostInv, host.pc # "idle", host.pc = "checkpoint" \/ host.completed < Count(host.args)
  PROVE  disk.summary = None
<1>1. SUFFICES ASSUME disk.summary # None PROVE FALSE
  OBVIOUS
<1> DEFINE e == disk.summary.args
<1>2. e \in Arguments /\ Summed(e, disk) /\ disk.ckpt # None
  BY <1>1 DEF HostInv, PublishedRight
<1>3. SameRun(disk.ckpt, e) /\ disk.ckpt.completed = Count(e)
  BY <1>2 DEF Summed
<1>4. SameRun(disk.ckpt, host.args)
  BY <1>2 DEF HostInv, Checkpointed
<1>5. disk.ckpt.completed = Count(host.args)
  BY <1>3, <1>4 DEF SameRun
<1>6. /\ Count(host.args) \in Nat /\ host.completed \in 0 .. Count(host.args)
      /\ IF host.pc = "checkpoint" THEN disk.ckpt.completed < host.completed
         ELSE disk.ckpt.completed = host.completed
  BY <1>2, ModeFacts DEF HostInv, RunRight, Checkpointed
<1> QED BY <1>5, <1>6

\* How much of a chunk is written, and that all of it is right when all is.
LEMMA GoodFacts ==
  ASSUME NEW t, ChunkCount \in Nat
  PROVE  /\ Good(t) \in 0 .. ChunkCount /\ Timed(t) \in 0 .. ChunkCount
         /\ Good(t) = ChunkCount => RowsUpTo(ChunkCount, t) /\ Timed(t) = ChunkCount
<1> DEFINE N == ChunkCount
           S == {n \in 1 .. N : RowsUpTo(n, t)}
<1>1. IsFiniteSet(1 .. N) /\ Cardinality(1 .. N) = N
  BY FS_Interval
<1>2. S \subseteq 1 .. N
  OBVIOUS
<1>3. /\ IsFiniteSet(S) /\ Cardinality(S) <= N
      /\ Cardinality(S) = N => S = 1 .. N
  <2> HIDE DEF S
  <2> QED BY <1>1, <1>2, FS_Subset
<1>4. Good(t) = Cardinality(S)
  BY DEF Good
<1>5. Good(t) \in 0 .. N
  BY <1>3, <1>4, FS_CardinalityType
<1>6. Timed(t) \in 0 .. N /\ (Good(t) = N => Timed(t) = N)
  BY <1>5 DEF Timed
<1>7. ASSUME Good(t) = N PROVE RowsUpTo(N, t)
  <2>1. CASE N = 0
    BY <2>1 DEF RowsUpTo
  <2>2. CASE N # 0
    <3>1. N \in S
      BY <1>3, <1>4, <1>7, <2>2
    <3> QED BY <3>1
  <2> QED BY <2>1, <2>2
<1> QED BY <1>5, <1>6, <1>7

\* More of what a run makes, after what it has made.
LEMMA RightJoined ==
  ASSUME NEW a, NEW old, Listed(old), NEW new, NEW n \in Nat
  PROVE  LET s == old \o SubSeq(new, 1, n)
         IN  /\ Listed(s) /\ Len(s) = Len(old) + n /\ Begins(old, s, Len(old))
             /\ DataRight(a, Len(old), old)
                  /\ (\A l \in 1 .. n : new[l] = PackageOf(ImageOf(a, Len(old) + l)))
                  => DataRight(a, Len(old) + n, s)
             /\ TimingRight(a, Len(old), old)
                  /\ (\A l \in 1 .. n : RowRight(a, Len(old) + l, new[l]))
                  => TimingRight(a, Len(old) + n, s)
<1> DEFINE p == SubSeq(new, 1, n)
<1>1. Listed(p) /\ Len(p) = n /\ \A l \in 1 .. n : p[l] = new[l]
  BY PrefixList
<1> HIDE DEF p
<1>0. /\ Listed(old \o p) /\ Len(old \o p) = Len(old) + Len(p)
      /\ \A i \in 1 .. Len(old) : (old \o p)[i] = old[i]
      /\ \A i \in 1 .. Len(p) : (old \o p)[Len(old) + i] = p[i]
  <2>1. Listed(p)
    BY <1>1
  <2> QED BY <2>1, ConcatList
<1> DEFINE s == old \o p
           k == Len(old)
<1>2. k \in Nat
  BY DEF Listed
<1>3. /\ Listed(s) /\ Len(s) = k + n
      /\ \A i \in 1 .. k : s[i] = old[i]
      /\ \A l \in 1 .. n : s[k + l] = new[l]
  BY <1>1, <1>0
<1> HIDE DEF s, k
<1>4. \A i \in 1 .. k + n : i \in 1 .. k \/ (i - k \in 1 .. n /\ i = k + (i - k))
  BY <1>2
<1>5. DataRight(a, k, old) /\ (\A l \in 1 .. n : new[l] = PackageOf(ImageOf(a, k + l)))
        => DataRight(a, k + n, s)
  BY <1>3, <1>4 DEF DataRight
<1>6. TimingRight(a, k, old) /\ (\A l \in 1 .. n : RowRight(a, k + l, new[l]))
        => TimingRight(a, k + n, s)
  BY <1>3, <1>4 DEF TimingRight
<1> QED BY <1>3, <1>5, <1>6 DEF Begins, s, k, p

\* One wrong answer cannot make both the result and its timing frame agree with it.
LEMMA ResultRight ==
  ASSUME Links, OneWrong, HostInv, host.conn \in Conns, Arrives("TIMING"), WritesData,
         ChunkCount \in Nat,
         ChunkBound(Head(net[host.conn].down).body),
         RowsUpTo(ChunkCount, Head(net[host.conn].down).body)
  PROVE  host.result = [n \in 1 .. ChunkCount |-> PackageOf(ChunkImages[n])]
<1> DEFINE m == Head(net[host.conn].down)
           s == host.result
           w == [n \in 1 .. ChunkCount |-> PackageOf(ChunkImages[n])]
<1>1. m.type = "TIMING" /\ net[host.conn].down # <<>>
  BY DEF Arrives, Arrived, Matches
<1>2. m.body.rescrc = s /\ Len(s) = ChunkCount
  BY DEF ChunkBound
<1>3. PackageList(s)
  <2>1. CASE Sound(m)
    BY <1>1, <1>2, <2>1 DEF Sound
  <2>2. CASE ~Sound(m)
    <3>1. Line(net[host.conn].down)
      BY DEF Links, Line
    <3>2. m = net[host.conn].down[1] /\ Len(net[host.conn].down) >= 1
          /\ Len(net[host.conn].down) \in Nat
      BY <1>1, <3>1, TailList DEF Line, Listed
    <3> HIDE DEF m
    <3> QED BY <2>2, <3>2 DEF OneWrong
  <2> QED BY <2>1, <2>2
<1>4. \A n \in 1 .. ChunkCount : s[n].image = ChunkImages[n]
  BY DEF RowsUpTo, RecordOk
<1>5. Listed(w) /\ Len(w) = ChunkCount
  <2>1. w = [n \in 1 .. ChunkCount |-> w[n]]
    OBVIOUS
  <2> HIDE DEF w
  <2> QED BY <2>1, ListOf
<1>6. \A n \in 1 .. ChunkCount : s[n] = w[n]
  BY <1>2, <1>3, <1>4 DEF PackageList
<1> HIDE DEF w, s
<1>7. s = w
  BY <1>2, <1>3, <1>5, <1>6, SameList DEF PackageList
<1> QED BY <1>7 DEF w, s

LEMMA TimingKeepsRun ==
  ASSUME Links, OneWrong, HostInv, TimingArrives
  PROVE  HostInv'
<1> DEFINE t == Head(net[host.conn].down).body
           a == host.args
           N == ChunkCount
           rows == disk.timing \o SubSeq(t.rows, 1, Timed(t))
           data == disk.data \o SubSeq(host.result, 1, Good(t))
<1>1. /\ host.pc = "await" /\ Arrives("TIMING") /\ Whereabouts /\ RunRight
      /\ host.stage \in {"run", "timing"} /\ (host.stage = "run" => ~WritesData)
  BY StagesAre DEF TimingArrives, Arrives, Arrived, HostInv
<1>2. /\ host.conn \in Conns /\ ~Transport /\ host.completed < Count(a)
      /\ host.stage = "timing" => WritesData
  BY <1>1 DEF Whereabouts
<1>3. /\ a \in Arguments /\ ArgumentsOk(a) /\ host.completed \in 0 .. Count(a)
      /\ Files(a, host.completed, disk)
      /\ disk.data_safe = Len(disk.data) /\ disk.timing_safe = Len(disk.timing) /\ disk.dir
  BY <1>1 DEF RunRight, Reach
<1>4. /\ N \in Nat \ {0} /\ host.completed \in Nat /\ Count(a) \in Nat
      /\ host.completed + N \in 1 .. Count(a)
  BY <1>2, <1>3, ChunkFacts
<1>5. /\ Good(t) \in 0 .. N /\ Timed(t) \in 0 .. N
      /\ Good(t) = N => RowsUpTo(N, t) /\ Timed(t) = N
  BY <1>4, GoodFacts
<1>6. ChunkBound(t) /\ SameProfile(t)
  BY DEF TimingArrives, ChunkBound
<1>7. /\ DOMAIN disk = DiskFields /\ Listed(disk.data) /\ Listed(disk.timing)
      /\ DOMAIN host = HostFields
  BY DEF HostInv, Fields
<1>8. /\ DOMAIN disk' = DiskFields /\ disk'.dir = disk.dir /\ disk'.ckpt = disk.ckpt
      /\ disk'.index = disk.index /\ disk'.summary = disk.summary
      /\ disk'.data_safe = disk.data_safe /\ disk'.timing_safe = disk.timing_safe
      /\ disk'.timing = rows
      /\ disk'.data = IF WritesData THEN data ELSE disk.data
  BY <1>7 DEF TimingArrives, DiskFields
<1>9. /\ Listed(rows) /\ Len(rows) = Len(disk.timing) + Timed(t)
      /\ Begins(disk.timing, rows, Len(disk.timing))
      /\ TimingRight(a, Len(disk.timing), disk.timing)
           /\ (\A l \in 1 .. Timed(t) : RowRight(a, Len(disk.timing) + l, t.rows[l]))
           => TimingRight(a, Len(disk.timing) + Timed(t), rows)
  <2> Timed(t) \in Nat
    BY <1>4, <1>5
  <2> QED BY <1>7, RightJoined
<1>10. /\ Listed(data) /\ Len(data) = Len(disk.data) + Good(t)
       /\ Begins(disk.data, data, Len(disk.data))
       /\ DataRight(a, Len(disk.data), disk.data)
            /\ (\A l \in 1 .. Good(t) : host.result[l] = PackageOf(ImageOf(a, Len(disk.data) + l)))
            => DataRight(a, Len(disk.data) + Good(t), data)
  <2> Good(t) \in Nat
    BY <1>4, <1>5
  <2> QED BY <1>7, RightJoined
<1> HIDE DEF rows, data
<1>11. disk.summary = None
  BY <1>1, <1>2, NoSummaryYet
<1>12. /\ Len(disk.data) \in Nat /\ Len(disk.timing) \in Nat
       /\ Len(disk.data) <= Len(disk'.data) /\ Len(disk.timing) <= Len(disk'.timing)
       /\ Listed(disk'.data) /\ Listed(disk'.timing)
       /\ Begins(disk.data, disk'.data, Len(disk.data))
       /\ Begins(disk.timing, disk'.timing, Len(disk.timing))
  <2>1. Len(disk.data) \in Nat /\ Len(disk.timing) \in Nat
    BY <1>7 DEF Listed
  <2> HIDE DEF t, N
  <2>2. CASE WritesData
    BY <1>4, <1>5, <1>7, <1>8, <1>9, <1>10, <2>1, <2>2
  <2>3. CASE ~WritesData
    <3>1. disk'.data = disk.data /\ disk'.timing = rows
      BY <1>8, <2>3
    <3>2. Begins(disk.data, disk'.data, Len(disk.data))
      BY <3>1 DEF Begins
    <3>3. Timed(t) \in Nat
      BY <1>4, <1>5
    <3> QED BY <1>7, <1>9, <2>1, <3>1, <3>2, <3>3
  <2> QED BY <2>2, <2>3, <2>1
<1>13. /\ disk.ckpt # None /\ ModeOf(disk.ckpt.mode).kind = "TIMING" => disk'.data = disk.data
       /\ disk.ckpt # None => ~ModeOf(disk.ckpt.mode).transport
  <2>1. disk.ckpt # None => disk.ckpt.mode = a.mode
    BY <1>1 DEF HostInv, Checkpointed, SameRun
  <2> QED BY <1>2, <1>8, <2>1 DEF WritesData, Transport
<1>14. CASE Good(t) # N
  <2>1. host' = Over("failed")
    BY <1>14 DEF TimingArrives, Failed
  <2> HIDE DEF t, a, N
  <2> QED
    BY <1>3, <1>7, <1>8, <1>11, <1>12, <1>13, <2>1, EndsSafely
<1>15. CASE Good(t) = N
  <2>1. /\ DOMAIN host' = HostFields /\ host'.pc = "sync" /\ host'.args = a
        /\ host'.completed = host.completed /\ host'.entries = host.entries
        /\ host'.chunks = host.chunks /\ host'.conn = host.conn /\ host'.stage = host.stage
        /\ host'.result = host.result
    BY <1>7, <1>15 DEF TimingArrives, HostFields
  <2>2. RowsUpTo(N, t) /\ Timed(t) = N
    BY <1>5, <1>15
  <2>3. Transport' = Transport /\ WritesData' = WritesData /\ ChunkCount' = N
        /\ ChunkImages' = ChunkImages
    BY <2>1 DEF Transport, WritesData, ChunkCount, ChunkImages
  <2>4. \A l \in 1 .. N : ChunkImages[l] = ImageOf(a, host.completed + l)
    BY DEF ChunkImages, ImageOf
  <2>5. WritesData => host.result = [n \in 1 .. N |-> PackageOf(ChunkImages[n])]
    BY <1>1, <1>2, <1>4, <1>6, <2>2, ResultRight
  <2>6. Holding'
    <3>1. ~WritesData => host.result = <<>>
      BY <1>1, <1>2 DEF HostInv, Holding
    <3> QED BY <2>1, <2>3, <2>5, <3>1 DEF Holding
  <2>7. Whereabouts'
    BY <1>1, <1>2, <2>1 DEF Whereabouts, Publishing
  <2>8. Fields'
    BY <1>3, <1>7, <1>8, <1>12, <2>1 DEF Fields
  <2>9. Checkpointed'
    <3>1. disk.ckpt # None => disk.dir /\ \E e \in Arguments : CkptRight(disk.ckpt, e, disk')
      <4>1. SUFFICES ASSUME disk.ckpt # None
                     PROVE  \E e \in Arguments : CkptRight(disk.ckpt, e, disk')
        BY <1>3
      <4>2. PICK e \in Arguments : CkptRight(disk.ckpt, e, disk)
        BY <4>1 DEF HostInv, Checkpointed
      <4> DEFINE n == Packed(e, disk.ckpt.completed)
                 m == RowsOf(e, disk.ckpt.completed)
      <4>3. n \in Nat /\ m \in Nat /\ n <= disk.data_safe /\ m <= disk.timing_safe
        BY <4>2, PackedNat, ModeFacts DEF CkptRight
      <4>4. Begins(disk.data, disk'.data, n) /\ Begins(disk.timing, disk'.timing, m)
        <5> HIDE DEF n, m, t, N
        <5> QED BY <1>3, <1>12, <4>3 DEF Begins
      <4>5. /\ Kind(e) = "TIMING" => disk'.data = <<>>
            /\ ~ModeOf(e.mode).transport
        BY <1>13, <4>1, <4>2 DEF CkptRight, SameRun, Kind
      <4>6. CkptRight(disk.ckpt, e, disk')
        BY <1>8, <4>2, <4>3, <4>4, <4>5, CoversKept
      <4> QED BY <4>6
    <3>2. disk.ckpt = None => host.completed = 0
      BY <1>1 DEF HostInv, Checkpointed
    <3>3. disk.ckpt # None => SameRun(disk.ckpt, a) /\ disk.ckpt.completed = host.completed
      BY <1>1 DEF HostInv, Checkpointed
    <3> QED BY <1>8, <2>1, <3>1, <3>2, <3>3 DEF Checkpointed
  <2>10. PublishedRight'
    BY <1>8, <1>11, <2>1 DEF PublishedRight
  <2>11. Files(a, host.completed + N, disk')
    <3>1. Len(disk.timing) = host.completed
      BY <1>2, <1>3 DEF Files, RowsOf, Transport
    <3>2. Len(disk'.timing) = host.completed + N
      BY <1>8, <1>9, <2>2, <3>1
    <3>3. \A l \in 1 .. N : RowRight(a, host.completed + l, t.rows[l])
      <4>1. ASSUME NEW l \in 1 .. N
            PROVE  RowRight(a, host.completed + l, t.rows[l])
        <5>1. RowOk(t, l)
          BY <2>2 DEF RowsUpTo
        <5> QED BY <2>4, <5>1 DEF RowRight, RowOk, SameProfile, Kind
      <4> QED BY <4>1
    <3>4. TimingRight(a, host.completed + N, disk'.timing)
      <4> HIDE DEF t, N
      <4> QED BY <1>3, <1>8, <1>9, <2>2, <3>1, <3>3 DEF Files
    <3>5. Len(disk'.data) = Packed(a, host.completed + N)
          /\ DataRight(a, Len(disk'.data), disk'.data)
      <4>1. CASE WritesData
        <5>1. Len(disk.data) = host.completed
          BY <1>3, <4>1 DEF Files, Packed, WritesData, Kind
        <5>2. Packed(a, host.completed + N) = host.completed + N
          BY <4>1 DEF Packed, WritesData, Kind
        <5>3. \A l \in 1 .. N : host.result[l] = PackageOf(ImageOf(a, host.completed + l))
          BY <2>4, <2>5, <4>1
        <5> HIDE DEF t, N
        <5> QED BY <1>3, <1>8, <1>10, <1>15, <4>1, <5>1, <5>2, <5>3 DEF Files
      <4>2. CASE ~WritesData
        <5>1. Packed(a, host.completed + N) = 0 /\ Packed(a, host.completed) = 0
          BY <4>2 DEF Packed, WritesData, Kind
        <5> QED BY <1>3, <1>8, <4>2, <5>1 DEF Files
      <4> QED BY <4>1, <4>2
    <3>6. RowsOf(a, host.completed + N) = host.completed + N
      BY <1>2 DEF RowsOf, Transport
    <3> QED BY <3>2, <3>4, <3>5, <3>6 DEF Files
  <2>12. RunRight'
    <3>1. Reach' = host.completed + N
      BY <2>1, <2>3 DEF Reach
    <3> QED BY <1>1, <1>8, <2>1, <2>11, <3>1 DEF RunRight
  <2> QED BY <2>6, <2>7, <2>8, <2>9, <2>10, <2>12 DEF HostInv
<1> QED BY <1>14, <1>15

LEMMA EndOfAppended ==
  ASSUME NEW a, NEW chunks, Listed(chunks), NEW c
  PROVE  /\ \A n \in 0 .. Len(chunks) : EndOf(a, Append(chunks, c), n) = EndOf(a, chunks, n)
         /\ EndOf(a, Append(chunks, c), Len(chunks) + 1) = c.first + c.count
         /\ Listed(Append(chunks, c)) /\ Len(Append(chunks, c)) = Len(chunks) + 1
         /\ \A n \in 1 .. Len(chunks) : Append(chunks, c)[n] = chunks[n]
         /\ Append(chunks, c)[Len(chunks) + 1] = c
<1> DEFINE r == Append(chunks, c)
<1>1. /\ Listed(r) /\ Len(r) = Len(chunks) + 1
      /\ \A n \in 1 .. Len(chunks) : r[n] = chunks[n]
      /\ r[Len(chunks) + 1] = c
  BY AppendList
<1>2. Len(chunks) \in Nat
  BY DEF Listed
<1> HIDE DEF r
<1>3. \A n \in 0 .. Len(chunks) : EndOf(a, r, n) = EndOf(a, chunks, n)
  BY <1>1, <1>2 DEF EndOf
<1>4. EndOf(a, r, Len(chunks) + 1) = c.first + c.count
  BY <1>1, <1>2 DEF EndOf
<1> QED BY <1>1, <1>3, <1>4 DEF r

\* The next chunk follows the last, and one of them ends where the warm-up does.
LEMMA TiledFurther ==
  ASSUME RunRight, host.completed < Count(host.args)
  PROVE  TiledTo(host.args, host.completed + ChunkCount,
                 Append(host.chunks, [first |-> ChunkFirst, count |-> ChunkCount]))
<1> DEFINE a == host.args
           c == [first |-> ChunkFirst, count |-> ChunkCount]
           old == host.chunks
           r == Append(old, c)
           k == Len(old)
           w == host.completed
           N == ChunkCount
<1>1. /\ N \in Nat \ {0} /\ w \in Nat /\ a.warmup \in Nat /\ Base(a) \in Int
      /\ w < a.warmup => w + N <= a.warmup
  BY ChunkFacts, BaseInt DEF RunRight
<1>2. TiledTo(a, w, old)
  BY DEF RunRight
<1>3. k \in Nat /\ Listed(old)
  BY <1>2 DEF TiledTo, Listed
<1>4. c.first = Base(a) + w /\ c.count = N
  <2>1. a.first \in Int
    BY ModeFacts DEF RunRight
  <2> QED BY <1>1, <2>1 DEF ChunkFirst, Base
<1> HIDE DEF c
<1>5. /\ \A n \in 0 .. k : EndOf(a, r, n) = EndOf(a, old, n)
      /\ EndOf(a, r, k + 1) = c.first + c.count
      /\ Listed(r) /\ Len(r) = k + 1
      /\ \A n \in 1 .. k : r[n] = old[n]
      /\ r[k + 1] = c
  BY <1>3, EndOfAppended
<1> HIDE DEF r, k, old, N, w, a
<1>6. /\ \A n \in 1 .. k : old[n].first = EndOf(a, old, n - 1)
      /\ EndOf(a, old, k) = Base(a) + w
      /\ a.warmup <= w => \E n \in 0 .. k : EndOf(a, old, n) = Base(a) + a.warmup
  BY <1>2 DEF TiledTo, k
<1>7. \A n \in 1 .. k + 1 : r[n].first = EndOf(a, r, n - 1)
  <2>1. ASSUME NEW n \in 1 .. k PROVE r[n].first = EndOf(a, r, n - 1)
    <3>1. n - 1 \in 0 .. k
      BY <1>3
    <3> QED BY <1>5, <1>6, <3>1
  <2>2. r[k + 1].first = EndOf(a, r, k)
    BY <1>3, <1>4, <1>5, <1>6
  <2>3. \A n \in 1 .. k + 1 : n \in 1 .. k \/ (n = k + 1 /\ n - 1 = k)
    BY <1>3
  <2> QED BY <2>1, <2>2, <2>3
<1>8. EndOf(a, r, k + 1) = Base(a) + (w + N)
  BY <1>1, <1>4, <1>5
<1>9. a.warmup <= w + N => \E n \in 0 .. k + 1 : EndOf(a, r, n) = Base(a) + a.warmup
  <2>1. CASE a.warmup <= w
    BY <1>3, <1>5, <1>6, <2>1
  <2>2. CASE ~(a.warmup <= w) /\ a.warmup <= w + N
    <3>1. a.warmup = w + N
      BY <1>1, <2>2
    <3> QED BY <1>3, <1>8, <3>1
  <2> QED BY <2>1, <2>2
<1>10. TiledTo(a, w + N, r)
  BY <1>5, <1>7, <1>8, <1>9 DEF TiledTo
<1> QED BY <1>10 DEF a, w, N, r, old, c

\* The entries of the chunk continue those before.
LEMMA EntriesFurther ==
  ASSUME RunRight, Holding, host.pc = "sync", host.completed < Count(host.args)
  PROVE  EntriesRight(host.args, host.completed + ChunkCount,
                      host.entries \o [n \in 1 .. Len(host.result) |-> EntryOf(n)])
<1> DEFINE a == host.args
           w == host.completed
           N == ChunkCount
           old == host.entries
           new == [n \in 1 .. Len(host.result) |-> EntryOf(n)]
<1>1. N \in Nat \ {0} /\ w \in Nat
  BY ChunkFacts DEF RunRight
<1>2. /\ Listed(old) /\ Len(old) = Packed(a, w)
      /\ \A i \in 1 .. Len(old) : old[i].crc = PackageOf(ImageOf(a, i)) /\ old[i].offset = i - 1
  BY DEF RunRight, EntriesRight
<1>3. /\ Len(host.result) \in Nat
      /\ WritesData => Len(host.result) = N
      /\ ~WritesData => Len(host.result) = 0
  <2>1. CASE WritesData
    <3> DEFINE f == [n \in 1 .. N |-> PackageOf(ChunkImages[n])]
    <3>1. host.result = f
      BY <2>1 DEF Holding
    <3>2. f = [n \in 1 .. N |-> f[n]]
      OBVIOUS
    <3> HIDE DEF f, N
    <3>3. Len(f) = N
      BY <1>1, <3>2, ListOf
    <3> QED BY <1>1, <2>1, <3>1, <3>3
  <2>2. CASE ~WritesData
    BY <2>2, EmptyList DEF Holding
  <2> QED BY <2>1, <2>2
<1>4. Listed(new) /\ Len(new) = Len(host.result)
  <2>1. new = [n \in 1 .. Len(host.result) |-> new[n]]
    OBVIOUS
  <2> HIDE DEF new
  <2> QED BY <1>3, <2>1, ListOf
<1>5. WritesData => \A l \in 1 .. N :
                      /\ new[l].crc = PackageOf(ImageOf(a, w + l))
                      /\ new[l].offset = Len(old) + l - 1
  <2>1. SUFFICES ASSUME WritesData, NEW l \in 1 .. N
                 PROVE  /\ new[l].crc = PackageOf(ImageOf(a, w + l))
                        /\ new[l].offset = Len(old) + l - 1
    OBVIOUS
  <2>2. new[l] = EntryOf(l)
    BY <1>3, <2>1
  <2>3. host.result[l] = PackageOf(ChunkImages[l]) /\ ChunkImages[l] = ImageOf(a, w + l)
    BY <2>1 DEF Holding, ChunkImages, ImageOf
  <2>4. EntryOf(l).crc = host.result[l] /\ EntryOf(l).offset = Len(old) + l - 1
    BY DEF EntryOf
  <2> HIDE DEF new
  <2> QED BY <2>2, <2>3, <2>4
<1> HIDE DEF new
<1> DEFINE s == old \o new
<1>6. /\ Listed(s) /\ Len(s) = Len(old) + Len(new)
      /\ \A i \in 1 .. Len(old) : s[i] = old[i]
      /\ \A i \in 1 .. Len(new) : s[Len(old) + i] = new[i]
  <2>1. Listed(old) /\ Listed(new)
    BY <1>2, <1>4
  <2> HIDE DEF old
  <2> QED BY <2>1, ConcatList
<1> HIDE DEF s, N, w, old, a
<1>7. EntriesRight(a, w + N, s)
  <2>1. CASE WritesData
    <3>1. Packed(a, w) = w /\ Packed(a, w + N) = w + N
      BY <2>1 DEF Packed, WritesData, Kind, a
    <3>2. \A i \in 1 .. Len(s) : i \in 1 .. w \/ \E l \in 1 .. N : i = w + l
      <4>1. \A i \in 1 .. Len(s) : i \in 1 .. w \/ (i - w \in 1 .. N /\ i = w + (i - w))
        BY <1>1, <1>2, <1>3, <1>4, <1>6, <2>1, <3>1
      <4> QED BY <4>1
    <3>3. \A i \in 1 .. Len(s) : s[i].crc = PackageOf(ImageOf(a, i)) /\ s[i].offset = i - 1
      <4>1. ASSUME NEW l \in 1 .. N
            PROVE  s[w + l].crc = PackageOf(ImageOf(a, w + l)) /\ s[w + l].offset = w + l - 1
        BY <1>2, <1>3, <1>4, <1>5, <1>6, <2>1, <3>1
      <4>2. ASSUME NEW i \in 1 .. w
            PROVE  s[i].crc = PackageOf(ImageOf(a, i)) /\ s[i].offset = i - 1
        BY <1>2, <1>6, <3>1
      <4>3. ASSUME NEW i \in 1 .. Len(s)
            PROVE  s[i].crc = PackageOf(ImageOf(a, i)) /\ s[i].offset = i - 1
        <5>1. CASE i \in 1 .. w
          BY <4>2, <5>1
        <5>2. ASSUME NEW l \in 1 .. N, i = w + l
              PROVE  s[i].crc = PackageOf(ImageOf(a, i)) /\ s[i].offset = i - 1
          <6>1. s[w + l].crc = PackageOf(ImageOf(a, w + l)) /\ s[w + l].offset = w + l - 1
            BY <4>1
          <6> QED BY <1>1, <5>2, <6>1
        <5> QED BY <3>2, <4>3, <5>1, <5>2
      <4> QED BY <4>3
    <3> QED BY <1>1, <1>2, <1>3, <1>4, <1>6, <2>1, <3>1, <3>3 DEF EntriesRight
  <2>2. CASE ~WritesData
    <3>1. Packed(a, w) = 0 /\ Packed(a, w + N) = 0
      BY <2>2 DEF Packed, WritesData, Kind, a
    <3> QED BY <1>2, <1>3, <1>4, <1>6, <2>2, <3>1 DEF EntriesRight
  <2> QED BY <2>1, <2>2
<1> QED BY <1>7 DEF s, N, w, old, new, a

LEMMA SyncKeepsRun ==
  ASSUME HostInv, Sync
  PROVE  HostInv'
<1> DEFINE a == host.args
           N == ChunkCount
<1>1. /\ host.pc = "sync" /\ Whereabouts /\ RunRight /\ Holding /\ host.completed < Count(a)
      /\ host.conn \in Conns
      /\ DOMAIN host = HostFields /\ DOMAIN disk = DiskFields
      /\ Listed(disk.data) /\ Listed(disk.timing) /\ disk.dir
      /\ disk.data_safe <= Len(disk.data) /\ disk.timing_safe <= Len(disk.timing)
      /\ disk.data_safe \in Nat /\ disk.timing_safe \in Nat
      /\ Len(disk.data) \in Nat /\ Len(disk.timing) \in Nat
  BY DEF Sync, HostInv, Whereabouts, RunRight, Fields, Listed
<1>2. /\ N \in Nat \ {0} /\ host.completed \in Nat /\ Count(a) \in Nat
      /\ host.completed + N \in 1 .. Count(a)
  BY <1>1, ChunkFacts DEF RunRight
<1>3. /\ DOMAIN host' = HostFields /\ host'.pc = "checkpoint" /\ host'.args = a
      /\ host'.completed = host.completed + N
      /\ host'.entries = host.entries \o [n \in 1 .. Len(host.result) |-> EntryOf(n)]
      /\ host'.chunks = Append(host.chunks, [first |-> ChunkFirst, count |-> N])
      /\ host'.result = <<>> /\ host'.conn = host.conn
  BY <1>1 DEF Sync, HostFields
<1>4. /\ DOMAIN disk' = DiskFields /\ disk'.dir = disk.dir /\ disk'.ckpt = disk.ckpt
      /\ disk'.index = disk.index /\ disk'.summary = disk.summary
      /\ disk'.data = disk.data /\ disk'.timing = disk.timing
      /\ disk'.data_safe = Len(disk.data) /\ disk'.timing_safe = Len(disk.timing)
  BY <1>1 DEF Sync, DiskFields
<1>5. Fields'
  BY <1>1, <1>3, <1>4 DEF Fields
<1>6. Whereabouts' /\ Holding'
  BY <1>1, <1>3 DEF Whereabouts, Holding, Publishing
<1>7. RunRight'
  <2>1. EntriesRight(a, host'.completed, host'.entries)
    BY <1>1, <1>3, EntriesFurther
  <2>2. TiledTo(a, host'.completed, host'.chunks)
    BY <1>1, <1>3, TiledFurther
  <2>3. Reach = host'.completed /\ Reach' = host'.completed
    BY <1>1, <1>3 DEF Reach
  <2>4. Files(a, host'.completed, disk')
    BY <1>1, <1>4, <2>3 DEF RunRight, Files
  <2>5. host'.completed \in 0 .. Count(a)
    BY <1>2, <1>3
  <2> HIDE DEF N
  <2> QED BY <1>1, <1>3, <1>4, <2>1, <2>2, <2>3, <2>4, <2>5 DEF RunRight
<1>8. PublishedRight'
  <2>1. disk.summary = None
    BY <1>1, NoSummaryYet
  <2> QED BY <1>3, <1>4, <2>1 DEF PublishedRight
<1>9. Checkpointed'
  <2>1. disk.ckpt # None => \E e \in Arguments : CkptRight(disk.ckpt, e, disk')
    <3>1. SUFFICES ASSUME disk.ckpt # None
                   PROVE  \E e \in Arguments : CkptRight(disk.ckpt, e, disk')
      OBVIOUS
    <3>2. PICK e \in Arguments : CkptRight(disk.ckpt, e, disk)
      BY <3>1 DEF HostInv, Checkpointed
    <3>3. /\ Packed(e, disk.ckpt.completed) <= disk.data_safe
          /\ RowsOf(e, disk.ckpt.completed) <= disk.timing_safe
          /\ Packed(e, disk.ckpt.completed) \in Nat /\ RowsOf(e, disk.ckpt.completed) \in Nat
      BY <3>2, PackedNat, ModeFacts DEF CkptRight
    <3>4. /\ Packed(e, disk.ckpt.completed) <= disk'.data_safe
          /\ RowsOf(e, disk.ckpt.completed) <= disk'.timing_safe
      BY <1>1, <1>4, <3>3
    <3>5. CkptRight(disk.ckpt, e, disk')
      BY <1>4, <3>2, <3>4 DEF CkptRight
    <3> QED BY <3>5
  <2>2. disk.ckpt # None => SameRun(disk.ckpt, a) /\ disk.ckpt.completed = host.completed
    BY <1>1 DEF HostInv, Checkpointed
  <2>3. host.completed < host'.completed
    BY <1>2, <1>3
  <2> HIDE DEF N
  <2> QED BY <1>1, <1>3, <1>4, <2>1, <2>2, <2>3 DEF Checkpointed
<1> QED BY <1>5, <1>6, <1>7, <1>8, <1>9 DEF HostInv

LEMMA CheckpointKeepsRun ==
  ASSUME HostInv, Checkpoint
  PROVE  HostInv'
<1> DEFINE a == host.args
           c == [kind |-> "checkpoint", mode |-> a.mode, binding |-> a.binding,
                 first |-> a.first, count |-> Count(a), warmup |-> a.warmup,
                 completed |-> host.completed, entries |-> host.entries,
                 timing_records |-> IF Transport THEN 0 ELSE host.completed,
                 chunks |-> host.chunks]
<1>1. /\ host.pc = "checkpoint" /\ Whereabouts /\ RunRight /\ Holding
      /\ host.conn \in Conns
      /\ DOMAIN host = HostFields /\ DOMAIN disk = DiskFields
      /\ Listed(disk.data) /\ Listed(disk.timing) /\ disk.dir
      /\ disk.data_safe = Len(disk.data) /\ disk.timing_safe = Len(disk.timing)
  BY DEF Checkpoint, HostInv, Whereabouts, RunRight, Fields
<1>2. /\ DOMAIN host' = HostFields /\ host'.pc = "send" /\ host'.stage = NextStage
      /\ host'.args = a /\ host'.completed = host.completed
      /\ host'.entries = host.entries /\ host'.chunks = host.chunks
      /\ host'.result = host.result /\ host'.conn = host.conn
  BY <1>1 DEF Checkpoint, HostFields
<1>3. /\ DOMAIN disk' = DiskFields /\ disk'.dir = disk.dir /\ disk'.ckpt = c
      /\ disk'.summary = disk.summary
      /\ disk'.data = disk.data /\ disk'.timing = disk.timing
      /\ disk'.data_safe = disk.data_safe /\ disk'.timing_safe = disk.timing_safe
  BY <1>1 DEF Checkpoint, DiskFields
<1>4. /\ c.mode = a.mode /\ c.binding = a.binding /\ c.first = a.first
      /\ c.count = Count(a) /\ c.warmup = a.warmup /\ c.completed = host.completed
      /\ c.entries = host.entries /\ c.timing_records = RowsOf(a, host.completed)
      /\ c.chunks = host.chunks /\ c # None
  BY DEF Transport, RowsOf, None
<1> HIDE DEF c
<1>5. /\ a \in Arguments /\ ArgumentsOk(a) /\ host.completed \in 0 .. Count(a)
      /\ Count(a) \in Nat
  BY <1>1, ModeFacts DEF RunRight
<1>6. Fields'
  BY <1>1, <1>2, <1>3, <1>5 DEF HostInv, Fields
<1>7. Whereabouts'
  BY <1>1, <1>2, <1>5 DEF Whereabouts, Publishing, NextStage
<1>8. Holding'
  BY <1>1, <1>2 DEF Holding
<1>9. Reach = host.completed /\ Reach' = host.completed
  BY <1>1, <1>2 DEF Reach
<1>10. Files(a, host.completed, disk') /\ Files(a, host.completed, disk)
  BY <1>1, <1>3, <1>9 DEF RunRight, Files
<1>11. RunRight'
  BY <1>1, <1>2, <1>3, <1>9, <1>10 DEF RunRight
<1>12. SameRun(c, a)
  BY <1>4 DEF SameRun
<1>13. CkptRight(c, a, disk')
  <2>1. /\ Packed(a, host.completed) = Len(disk.data) /\ RowsOf(a, host.completed) = Len(disk.timing)
        /\ DataRight(a, Len(disk.data), disk.data)
        /\ TimingRight(a, Len(disk.timing), disk.timing)
    BY <1>10 DEF Files
  <2>2. /\ Kind(a) = "TIMING" => disk.data = <<>>
        /\ ModeOf(a.mode).transport => disk.timing = <<>>
    BY <1>1, <2>1, EmptyList DEF Packed, RowsOf
  <2>3. Len(disk.data) \in Nat /\ Len(disk.timing) \in Nat
    BY <1>1 DEF Listed
  <2> HIDE DEF a
  <2> QED BY <1>1, <1>3, <1>4, <1>5, <1>12, <2>1, <2>2, <2>3 DEF CkptRight, RunRight, a
<1>14. Checkpointed'
  BY <1>1, <1>2, <1>3, <1>4, <1>5, <1>12, <1>13 DEF Checkpointed
<1>15. PublishedRight'
  <2>1. disk.summary = None
    BY <1>1, NoSummaryYet
  <2> QED BY <1>2, <1>3, <2>1 DEF PublishedRight
<1> QED BY <1>6, <1>7, <1>8, <1>11, <1>14, <1>15 DEF HostInv

\* A run that publishes is complete, and so is its checkpoint.
LEMMA PublishingIs ==
  ASSUME HostInv, host.pc \in Publishing
  PROVE  /\ Whereabouts /\ RunRight /\ Reach = host.completed
         /\ host.completed = Count(host.args) /\ Count(host.args) \in Nat \ {0}
         /\ Files(host.args, Count(host.args), disk)
         /\ disk.data_safe = Len(disk.data) /\ disk.timing_safe = Len(disk.timing)
         /\ disk.dir /\ disk.ckpt # None
         /\ SameRun(disk.ckpt, host.args) /\ disk.ckpt.completed = Count(host.args)
         /\ host.conn \in Conns /\ host.result = <<>>
<1>1. host.pc \in {"index", "results_index", "summary", "unlink"}
  BY DEF Publishing
<1>2. Whereabouts /\ RunRight /\ Reach = host.completed /\ host.result = <<>>
  BY <1>1 DEF HostInv, Reach, Holding
<1>3. host.completed = Count(host.args) /\ host.conn \in Conns
  BY <1>1, <1>2 DEF Whereabouts, Publishing
<1>4. Count(host.args) \in Nat \ {0}
  BY <1>2, ModeFacts DEF RunRight, ArgumentsOk
<1>5. disk.ckpt # None /\ SameRun(disk.ckpt, host.args) /\ disk.ckpt.completed = Count(host.args)
  BY <1>1, <1>3, <1>4 DEF HostInv, Checkpointed
<1> QED BY <1>1, <1>2, <1>3, <1>4, <1>5 DEF RunRight

\* The next step of publishing: the host only goes on, and the files and their
\* checkpoint stay.
LEMMA PublishesOn ==
  ASSUME HostInv, host.pc \in Publishing, DOMAIN host' = HostFields,
         host'.pc \in {"results_index", "summary", "unlink"},
         host'.args = host.args, host'.completed = host.completed,
         host'.entries = host.entries, host'.chunks = host.chunks,
         host'.result = host.result, host'.conn = host.conn,
         DOMAIN disk' = DiskFields, disk'.dir = disk.dir, disk'.ckpt = disk.ckpt,
         disk'.data = disk.data, disk'.timing = disk.timing,
         disk'.data_safe = disk.data_safe, disk'.timing_safe = disk.timing_safe,
         PublishedRight'
  PROVE  HostInv'
<1>1. /\ Whereabouts /\ RunRight /\ Reach = host.completed /\ disk.dir
      /\ host.completed = Count(host.args) /\ host.conn \in Conns /\ host.result = <<>>
  BY PublishingIs
<1>2. Fields'
  BY <1>1 DEF HostInv, Fields
<1>3. Whereabouts' /\ Holding'
  BY <1>1 DEF Whereabouts, Holding, Publishing
<1>4. RunRight'
  <2>1. Reach' = host.completed
    BY DEF Reach
  <2> QED BY <1>1, <2>1, PublishingIs DEF RunRight, Files
<1>5. Checkpointed'
  <2>1. disk.ckpt # None /\ SameRun(disk.ckpt, host.args) /\ disk.ckpt.completed = host.completed
    BY <1>1, PublishingIs
  <2>2. PICK e \in Arguments : CkptRight(disk.ckpt, e, disk)
    BY <2>1 DEF HostInv, Checkpointed
  <2>3. CkptRight(disk.ckpt, e, disk')
    BY <2>2, CoversSame
  <2> QED BY <1>1, <2>1, <2>3 DEF Checkpointed
<1> QED BY <1>2, <1>3, <1>4, <1>5 DEF HostInv

LEMMA IndexKeepsRun ==
  ASSUME HostInv, PublishIndex
  PROVE  HostInv'
<1> DEFINE a == host.args
<1>0. host.pc = "index" /\ host.pc \in Publishing
  BY DEF PublishIndex, Publishing
<1>1. /\ DOMAIN host = HostFields /\ DOMAIN disk = DiskFields /\ disk.dir
      /\ RunRight /\ host.completed = Count(a) /\ Count(a) \in Nat
      /\ Files(a, Count(a), disk)
  BY <1>0, PublishingIs DEF HostInv, Fields
<1>2. /\ DOMAIN host' = HostFields /\ host'.pc = "results_index" /\ host'.args = a
      /\ host'.completed = host.completed /\ host'.entries = host.entries
      /\ host'.chunks = host.chunks /\ host'.result = host.result /\ host'.conn = host.conn
  BY <1>1 DEF PublishIndex, HostFields
<1>3. /\ DOMAIN disk' = DiskFields /\ disk'.dir = disk.dir /\ disk'.ckpt = disk.ckpt
      /\ disk'.data = disk.data /\ disk'.timing = disk.timing
      /\ disk'.data_safe = disk.data_safe /\ disk'.timing_safe = disk.timing_safe
      /\ disk'.summary = disk.summary
      /\ Kind(a) = "RAW" => disk'.index = [kind |-> "index", rows |-> host.entries, data |-> disk.data]
      /\ Kind(a) # "RAW" => disk'.index = disk.index
  BY <1>1 DEF PublishIndex, DiskFields, Kind
<1>4. IndexRight(a, disk')
  <2>1. SUFFICES ASSUME Kind(a) = "RAW"
                 PROVE  /\ disk'.index.data = disk'.data
                        /\ \A n \in 1 .. Count(a) : disk'.index.rows[n].crc = disk'.data[n]
    BY DEF IndexRight
  <2>2. Len(disk.data) = Count(a) /\ DataRight(a, Count(a), disk.data)
    BY <1>1, <2>1 DEF Files, Packed
  <2>3. /\ Len(host.entries) = Count(a)
        /\ \A n \in 1 .. Len(host.entries) : host.entries[n].crc = PackageOf(ImageOf(a, n))
    BY <1>1, <2>1 DEF RunRight, EntriesRight, Packed
  <2>4. \A n \in 1 .. Count(a) : host.entries[n].crc = disk.data[n]
    BY <2>2, <2>3 DEF DataRight
  <2>5. disk'.index.data = disk.data /\ disk'.index.rows = host.entries
    BY <1>3, <2>1
  <2> QED BY <1>3, <2>4, <2>5
<1>5. PublishedRight'
  <2>1. disk.summary # None => Summed(disk.summary.args, disk')
    <3>1. SUFFICES ASSUME disk.summary # None PROVE Summed(disk.summary.args, disk')
      OBVIOUS
    <3> DEFINE e == disk.summary.args
    <3>2. e \in Arguments /\ Summed(e, disk)
      BY <3>1 DEF HostInv, PublishedRight
    <3>3. SameRun(disk.ckpt, e) /\ SameRun(disk.ckpt, a) /\ a \in Arguments
      BY <1>0, <3>2, PublishingIs DEF Summed, RunRight
    <3>4. Kind(e) = Kind(a) /\ Count(e) = Count(a)
      BY <3>2, <3>3, SameRecords
    <3>5. IndexRight(e, disk')
      BY <1>4, <3>4 DEF IndexRight
    <3>6. Files(e, Count(e), disk')
      BY <1>3, <3>2 DEF Summed, Files
    <3> QED BY <1>3, <3>2, <3>5, <3>6 DEF Summed
  <2>2. disk.ckpt # None
    BY <1>0, PublishingIs
  <2> QED BY <1>1, <1>2, <1>3, <1>4, <2>1, <2>2 DEF HostInv, PublishedRight
<1> QED BY <1>0, <1>2, <1>3, <1>5, PublishesOn

LEMMA ResultsKeepsRun ==
  ASSUME HostInv, PublishResults
  PROVE  HostInv'
<1>0. host.pc = "results_index" /\ host.pc \in Publishing
  BY DEF PublishResults, Publishing
<1>1. DOMAIN host = HostFields /\ DOMAIN disk = DiskFields
  BY DEF HostInv, Fields
<1>2. /\ DOMAIN host' = HostFields /\ host'.pc = "summary" /\ host'.args = host.args
      /\ host'.completed = host.completed /\ host'.entries = host.entries
      /\ host'.chunks = host.chunks /\ host'.result = host.result /\ host'.conn = host.conn
  BY <1>1 DEF PublishResults, HostFields
<1>3. /\ DOMAIN disk' = DiskFields /\ disk'.dir = disk.dir /\ disk'.ckpt = disk.ckpt
      /\ disk'.data = disk.data /\ disk'.timing = disk.timing
      /\ disk'.data_safe = disk.data_safe /\ disk'.timing_safe = disk.timing_safe
      /\ disk'.summary = disk.summary /\ disk'.index = disk.index
  BY <1>1 DEF PublishResults, DiskFields
<1>4. IndexRight(host.args, disk')
  BY <1>0, <1>3 DEF HostInv, PublishedRight, IndexRight
<1>5. disk.summary # None => Summed(disk.summary.args, disk')
  BY <1>3, SummedSame DEF HostInv, PublishedRight
<1>6. PublishedRight'
  BY <1>0, <1>2, <1>3, <1>4, <1>5, PublishingIs DEF HostInv, PublishedRight
<1> QED BY <1>0, <1>2, <1>3, <1>6, PublishesOn

LEMMA SummaryKeepsRun ==
  ASSUME HostInv, PublishSummary
  PROVE  HostInv'
<1> DEFINE a == host.args
           s == [kind |-> "summary", args |-> a, chunks |-> host.chunks,
                 timing |-> disk.timing, data |-> disk.data]
<1>0. host.pc = "summary" /\ host.pc \in Publishing
  BY DEF PublishSummary, Publishing
<1>1. DOMAIN host = HostFields /\ DOMAIN disk = DiskFields
  BY DEF HostInv, Fields
<1>2. /\ DOMAIN host' = HostFields /\ host'.pc = "unlink" /\ host'.args = a
      /\ host'.completed = host.completed /\ host'.entries = host.entries
      /\ host'.chunks = host.chunks /\ host'.result = host.result /\ host'.conn = host.conn
  BY <1>1 DEF PublishSummary, HostFields
<1>3. /\ DOMAIN disk' = DiskFields /\ disk'.dir = disk.dir /\ disk'.ckpt = disk.ckpt
      /\ disk'.data = disk.data /\ disk'.timing = disk.timing
      /\ disk'.data_safe = disk.data_safe /\ disk'.timing_safe = disk.timing_safe
      /\ disk'.index = disk.index /\ disk'.summary = s
  BY <1>1 DEF PublishSummary, DiskFields
<1>4. s.args = a /\ s.chunks = host.chunks
  OBVIOUS
<1> HIDE DEF s
<1>5. IndexRight(a, disk')
  BY <1>0, <1>3 DEF HostInv, PublishedRight, IndexRight
<1>6. /\ a \in Arguments /\ ArgumentsOk(a) /\ TiledTo(a, Count(a), host.chunks)
      /\ Files(a, Count(a), disk) /\ disk.dir
      /\ disk.data_safe = Len(disk.data) /\ disk.timing_safe = Len(disk.timing)
      /\ SameRun(disk.ckpt, a) /\ disk.ckpt.completed = Count(a) /\ disk.ckpt # None
  BY <1>0, PublishingIs DEF RunRight
<1>7. Files(a, Count(a), disk')
  BY <1>3, <1>6 DEF Files
<1>8. Summed(a, disk')
  BY <1>3, <1>4, <1>5, <1>6, <1>7 DEF Summed
<1>9. PublishedRight'
  BY <1>2, <1>3, <1>4, <1>5, <1>6, <1>8 DEF PublishedRight
<1> QED BY <1>0, <1>2, <1>3, <1>9, PublishesOn

LEMMA UnlinkKeepsRun ==
  ASSUME HostInv, Unlink
  PROVE  HostInv'
<1>0. host.pc \in Publishing
  BY DEF Unlink, Publishing
<1>1. /\ DOMAIN disk = DiskFields /\ disk.dir /\ Listed(disk.data) /\ Listed(disk.timing)
      /\ disk.data_safe \in 0 .. Len(disk.data) /\ disk.timing_safe \in 0 .. Len(disk.timing)
  BY <1>0, PublishingIs DEF HostInv, Fields
<1>2. DOMAIN host' = HostFields /\ host'.pc = "idle" /\ Holding'
  BY OverHolds DEF Unlink
<1>3. /\ DOMAIN disk' = DiskFields /\ disk'.dir = disk.dir /\ disk'.ckpt = None
      /\ disk'.data = disk.data /\ disk'.timing = disk.timing
      /\ disk'.data_safe = disk.data_safe /\ disk'.timing_safe = disk.timing_safe
      /\ disk'.summary = disk.summary /\ disk'.index = disk.index
  BY <1>1 DEF Unlink, DiskFields
<1>4. Fields' /\ Checkpointed'
  BY <1>1, <1>2, <1>3 DEF Fields, Checkpointed
<1>5. disk.summary # None => Summed(disk.summary.args, disk')
  BY <1>3 DEF HostInv, PublishedRight, Summed, Files, IndexRight
<1>6. PublishedRight'
  BY <1>1, <1>2, <1>3, <1>5 DEF HostInv, PublishedRight
<1> QED BY <1>2, <1>4, <1>6 DEF HostInv

-----------------------------------------------------------------------------
(* The invariant holds *)

LEMMA HostStands ==
  ASSUME HostInv, host' = host, disk' = disk
  PROVE  HostInv'
  BY DEF HostInv, Fields, Whereabouts, RunRight, Reach, Holding, Checkpointed, PublishedRight,
         Transport, WritesData, ChunkCount, ChunkImages

LEMMA HostKeepsRun ==
  ASSUME Links, OneWrong, HostInv, Host
  PROVE  HostInv'
<1>1. ASSUME NEW n, Quit(n) PROVE HostInv'
  BY <1>1, QuitKeepsRun DEF Quit, Failed
<1>2. CASE WrongAnswer \/ ConnectionFails
  BY <1>1, <1>2 DEF WrongAnswer, ConnectionFails
<1>3. CASE EndArrives /\ Failed(Taken)
  <2>1. disk' = disk /\ host' = Over("failed")
    BY <1>3 DEF EndArrives, Failed
  <2> QED BY <2>1, QuitKeepsRun
<1>4. CASE Send \/ StatusArrives \/ ResultArrives \/ (EndArrives /\ ~Failed(Taken))
  BY <1>4, TalkKeepsRun
<1>5. CASE TimingArrives
  BY <1>5, TimingKeepsRun
<1>6. CASE Sync \/ Checkpoint
  BY <1>6, SyncKeepsRun, CheckpointKeepsRun
<1>7. CASE PublishIndex \/ PublishResults \/ PublishSummary \/ Unlink
  BY <1>7, IndexKeepsRun, ResultsKeepsRun, SummaryKeepsRun, UnlinkKeepsRun
<1> QED BY <1>2, <1>3, <1>4, <1>5, <1>6, <1>7 DEF Host

LEMMA RunStarts ==
  ASSUME RunInit
  PROVE  RunInv
<1>1. \A k \in Conns : /\ DOMAIN net[k] = {"host", "board", "up", "down"}
                       /\ net[k].up = <<>> /\ net[k].down = <<>>
  BY DEF RunInit, NetInit, Unused
<1>2. DOMAIN net = Conns
  BY DEF RunInit, NetInit
<1>3. Links
  BY <1>1, <1>2, EmptyList DEF Links
<1>4. /\ DOMAIN host = HostFields /\ host.pc = "idle" /\ host.result = <<>> /\ disk = Empty
  BY FieldsOfOver DEF RunInit, HostInit
<1>5. OneWrong
  BY <1>1, <1>4, EmptyList DEF OneWrong
<1>6. BoardGood(srv)
  <2>1. /\ DOMAIN srv = SrvFields /\ srv.conn = 0 /\ srv.rx = NoMsg /\ srv.active = NoMsg
        /\ srv.results = <<>> /\ srv.pc = "loop"
    BY DEF RunInit, SrvInit, SrvFields
  <2> QED BY <2>1, EmptyList DEF BoardGood
<1>7. HostInv
  <2>1. Fields
    BY <1>4, EmptyDisk, EmptyList DEF Fields
  <2>2. Holding /\ Checkpointed /\ PublishedRight
    BY <1>4, EmptyDisk DEF Holding, Checkpointed, PublishedRight
  <2> QED BY <1>4, <2>1, <2>2 DEF HostInv
<1> QED BY <1>3, <1>5, <1>6, <1>7 DEF RunInv

LEMMA RunSteps ==
  ASSUME RunInv, [RunNext]_run_vars
  PROVE  RunInv'
<1>0. Links /\ OneWrong /\ BoardGood(srv) /\ HostInv
  BY DEF RunInv
<1>1. CASE HostStep
  <2>1. Host /\ srv' = srv /\ honest' = honest
    BY <1>1 DEF HostStep
  <2> QED BY <1>0, <2>1, HostKeepsLinks, HostKeepsRun DEF RunInv
<1>2. CASE ConnectStep
  <2>1. (\E k \in Conns : Connect(k)) /\ srv' = srv /\ honest' = honest
    BY <1>2 DEF ConnectStep
  <2> QED BY <1>0, <2>1, CallKeepsLinks, TalkKeepsRun DEF RunInv
<1>3. CASE CallStep
  <2>1. Calls /\ srv' = srv /\ honest' = honest
    BY <1>3 DEF CallStep
  <2>2. ASSUME NEW a \in Arguments, NEW resume \in BOOLEAN, Start(a, resume)
        PROVE  HostInv'
    BY <1>0, <2>2, FreshKeepsRun, ResumeKeepsRun
  <2>3. HostInv'
    BY <1>0, <2>1, <2>2, RefuseKeepsRun DEF Calls
  <2> QED BY <1>0, <2>1, <2>3, CallKeepsLinks DEF RunInv
<1>4. CASE BoardStep \/ PacketStep
  <2>1. /\ Board(BoardBinding) \/ Callback
        /\ host' = host /\ disk' = disk /\ honest' = honest
    BY <1>4 DEF BoardStep, PacketStep
  <2>2. NetMoves(net') /\ BoardGood(srv')
    BY <1>0, <2>1, BoardSafe, CallbackSafe
  <2>3. Links' /\ OneWrong'
    BY <1>0, <2>1, <2>2, NetKept DEF NetMoves
  <2> QED BY <1>0, <2>1, <2>2, <2>3, HostStands DEF RunInv
<1>5. CASE FaultStep
  <2>1. CASE (\E k \in Conns : Break(k) \/ Damage(k)) /\ UNCHANGED <<host, disk, honest, srv>>
    BY <1>0, <2>1, DamageKeepsLinks, HostStands DEF RunInv
  <2>2. CASE Misanswer /\ honest' = FALSE /\ UNCHANGED <<host, disk, srv>>
    BY <1>0, <2>2, MisanswerKeepsLinks, HostStands DEF RunInv
  <2>3. CASE IoTimeout /\ UNCHANGED <<honest, srv>>
    <3>1. host' = Over("failed") /\ disk' = disk
      BY <2>3 DEF IoTimeout, Quit, Failed
    <3> QED BY <1>0, <2>3, <3>1, DropKeepsLinks, QuitKeepsRun DEF RunInv
  <2>4. CASE Crash /\ UNCHANGED <<honest, srv>>
    BY <1>0, <2>4, DropKeepsLinks, CrashKeepsRun DEF RunInv
  <2> QED BY <1>5, <2>1, <2>2, <2>3, <2>4 DEF FaultStep
<1>6. CASE UNCHANGED run_vars
  <2>1. net' = net /\ srv' = srv /\ host' = host /\ disk' = disk /\ honest' = honest
    BY <1>6 DEF run_vars
  <2>2. Links' /\ OneWrong'
    BY <1>0, <2>1 DEF Links, OneWrong
  <2> QED BY <1>0, <2>1, <2>2, HostStands DEF RunInv
<1> QED BY <1>1, <1>2, <1>3, <1>4, <1>5, <1>6 DEF RunNext

\* Messages, files, the board's results and the host's place in its run agree:
\* the board's answers but at most one are sound, every record that the host
\* has checked is in its files in its place, and only what was synchronized
\* before is in a checkpoint.
THEOREM RunInvariant == RunSpec => []RunInv
<1>1. RunInit => RunInv
  BY RunStarts
<1>2. RunInv /\ [RunNext]_run_vars => RunInv'
  BY RunSteps
<1> QED BY <1>1, <1>2, PTL DEF RunSpec

LEMMA TiledIs ==
  ASSUME NEW a, a.warmup <= Count(a), NEW chunks, TiledTo(a, Count(a), chunks)
  PROVE  Tiled(a, chunks)
  BY DEF TiledTo, EndOf, Base, Tiled

LEMMA FilesAreTrue ==
  ASSUME NEW a \in Arguments, NEW n \in Nat, NEW data, NEW timing,
         Listed(data), Len(data) = Packed(a, n), DataRight(a, Packed(a, n), data),
         Listed(timing), Len(timing) = RowsOf(a, n), TimingRight(a, RowsOf(a, n), timing)
  PROVE  TrueData(a, n, data) /\ TrueTiming(a, n, timing)
<1>1. TrueData(a, n, data)
  <2>1. CASE Kind(a) = "TIMING"
    <3>1. data = <<>>
      BY <2>1, EmptyList DEF Packed
    <3> QED BY <2>1, <3>1 DEF TrueData, Kind
  <2>2. CASE Kind(a) # "TIMING"
    <3> DEFINE w == [i \in 1 .. n |-> PackageOf(Wanted(a, n)[i])]
    <3>1. Len(data) = n /\ DataRight(a, n, data)
      BY <2>2 DEF Packed
    <3>2. \A i \in 1 .. n : data[i] = w[i]
      BY <3>1 DEF DataRight, Wanted, ImageOf
    <3>3. data = w
      BY <3>1, <3>2 DEF Listed
    <3> QED BY <2>2, <3>3 DEF TrueData, Kind
  <2> QED BY <2>1, <2>2
<1>2. TrueTiming(a, n, timing)
  <2>1. CASE ModeOf(a.mode).transport
    <3>1. timing = <<>>
      BY <2>1, EmptyList DEF RowsOf
    <3> QED BY <2>1, <3>1 DEF TrueTiming
  <2>2. CASE ~ModeOf(a.mode).transport
    <3>1. Len(timing) = n /\ TimingRight(a, n, timing)
      BY <2>2 DEF RowsOf
    <3>2. \A i \in 1 .. n : /\ timing[i].image = Wanted(a, n)[i]
                            /\ timing[i].kind = ModeOf(a.mode).kind
                            /\ timing[i].profile = ModeOf(a.mode).profile
                            /\ timing[i].sound
      BY <3>1 DEF TimingRight, RowRight, Wanted, ImageOf, Kind
    <3> QED BY <2>2, <3>1, <3>2 DEF TrueTiming
  <2> QED BY <2>1, <2>2
<1> QED BY <1>1, <1>2

LEMMA InvMakesSummaryTrue ==
  ASSUME RunInv
  PROVE  SummaryTrue
<1>1. SUFFICES ASSUME disk.summary # None
               PROVE  LET a == disk.summary.args
                      IN  /\ TrueData(a, Count(a), disk.data)
                          /\ TrueTiming(a, Count(a), disk.timing)
                          /\ Tiled(a, disk.summary.chunks)
                          /\ ModeOf(a.mode).kind = "RAW" =>
                                /\ disk.index.data = disk.data
                                /\ \A n \in 1 .. Count(a) : disk.index.rows[n].crc = disk.data[n]
  BY DEF SummaryTrue
<1> DEFINE a == disk.summary.args
<1>2. a \in Arguments /\ Summed(a, disk) /\ Listed(disk.data) /\ Listed(disk.timing)
  BY <1>1 DEF RunInv, HostInv, Fields, PublishedRight
<1> HIDE DEF a
<1>3. Count(a) \in Nat /\ a.warmup <= Count(a)
  BY <1>2, ModeFacts DEF Summed, ArgumentsOk
<1>4. TrueData(a, Count(a), disk.data) /\ TrueTiming(a, Count(a), disk.timing)
  BY <1>2, <1>3, FilesAreTrue DEF Summed, Files
<1>5. Tiled(a, disk.summary.chunks)
  BY <1>2, <1>3, TiledIs DEF Summed
<1>6. ModeOf(a.mode).kind = "RAW" =>
        /\ disk.index.data = disk.data
        /\ \A n \in 1 .. Count(a) : disk.index.rows[n].crc = disk.data[n]
  BY <1>2 DEF Summed, IndexRight, Kind
<1> QED BY <1>4, <1>5, <1>6 DEF a

LEMMA InvCoversCheckpoint ==
  ASSUME RunInv
  PROVE  CheckpointCovered
<1>1. SUFFICES ASSUME disk.ckpt # None
               PROVE  CheckpointCovered
  BY DEF CheckpointCovered
<1> DEFINE c == disk.ckpt
           d == Len(c.entries)
           m == c.timing_records
<1>2. PICK a \in Arguments : CkptRight(c, a, disk)
  BY <1>1 DEF RunInv, HostInv, Checkpointed
<1>3. /\ c.completed \in 0 .. Count(a) /\ Count(a) \in Nat
      /\ d = Packed(a, c.completed) /\ m = RowsOf(a, c.completed)
      /\ d \in Nat /\ m \in Nat
      /\ d <= disk.data_safe /\ m <= disk.timing_safe
      /\ disk.data_safe \in Nat /\ disk.timing_safe \in Nat
      /\ Packed(a, d) = d /\ RowsOf(a, m) = m
  BY <1>2, ModeFacts, PackedNat DEF CkptRight, EntriesRight, Packed, RowsOf, RunInv, HostInv, Fields, Listed
<1>4. a.mode = c.mode /\ a.first = c.first /\ Count(a) = c.count /\ a.binding = c.binding
  BY <1>2 DEF CkptRight, SameRun
<1>5. TrueData(a, d, SubSeq(disk.data, 1, d))
  <2> DEFINE s == SubSeq(disk.data, 1, d)
  <2>1. Listed(s) /\ Len(s) = d /\ Begins(disk.data, s, d)
    BY <1>3, PrefixList DEF Begins
  <2>2. DataRight(a, d, s)
    <3> HIDE DEF s
    <3> QED BY <1>2, <1>3, <2>1, RightBegins DEF CkptRight
  <2>3. TimingRight(a, 0, <<>>) /\ Listed(<<>>) /\ Len(<<>>) = 0
    BY EmptyList DEF TimingRight
  <2>4. CASE Kind(a) = "TIMING"
    <3>1. d = 0
      BY <1>3, <2>4 DEF Packed
    <3> HIDE DEF s
    <3>2. s = <<>>
      BY <2>1, <3>1, EmptyList
    <3> QED BY <2>4, <3>2 DEF TrueData, Kind, s
  <2>5. CASE Kind(a) # "TIMING"
    <3> DEFINE w == [i \in 1 .. d |-> PackageOf(Wanted(a, d)[i])]
    <3> HIDE DEF s, d
    <3>2. \A i \in 1 .. d : s[i] = w[i]
      BY <2>2 DEF DataRight, Wanted, ImageOf
    <3>3. s = w
      BY <2>1, <3>2 DEF Listed
    <3> QED BY <2>5, <3>3 DEF TrueData, Kind, s
  <2> QED BY <2>4, <2>5
<1>6. TrueTiming(a, m, SubSeq(disk.timing, 1, m))
  <2> DEFINE s == SubSeq(disk.timing, 1, m)
  <2>1. Listed(s) /\ Len(s) = m /\ Begins(disk.timing, s, m)
    BY <1>3, PrefixList DEF Begins
  <2>2. TimingRight(a, m, s)
    <3> HIDE DEF s
    <3> QED BY <1>2, <1>3, <2>1, RightBegins DEF CkptRight
  <2> HIDE DEF s, m
  <2>3. CASE ModeOf(a.mode).transport
    <3>1. s = <<>>
      BY <1>3, <2>1, <2>3, EmptyList DEF RowsOf
    <3> QED BY <2>3, <3>1 DEF TrueTiming, s
  <2>4. CASE ~ModeOf(a.mode).transport
    <3>1. \A i \in 1 .. m : /\ s[i].image = Wanted(a, m)[i]
                            /\ s[i].kind = ModeOf(a.mode).kind
                            /\ s[i].profile = ModeOf(a.mode).profile
                            /\ s[i].sound
      BY <2>2 DEF TimingRight, RowRight, Wanted, ImageOf, Kind
    <3> QED BY <2>1, <2>4, <3>1 DEF TrueTiming, s
  <2> QED BY <2>3, <2>4
<1>7. d = (IF ModeOf(a.mode).kind = "TIMING" THEN 0 ELSE c.completed)
  BY <1>3 DEF Packed, Kind
<1>8. \A n \in 1 .. d : c.entries[n].crc = disk.data[n] /\ c.entries[n].offset = n - 1
  BY <1>2, <1>3 DEF CkptRight, EntriesRight, DataRight
<1> QED
  <2>1. disk.data_safe >= d /\ disk.timing_safe >= m
    BY <1>3
  <2> HIDE DEF c
  <2> QED BY <1>4, <1>5, <1>6, <1>7, <1>8, <2>1 DEF CheckpointCovered, c

\* A published summary says PASS of the records that were asked for, each in its
\* place and of its own image, also after lost connections, crashes and resumed
\* runs (net_runner.py: run_network, _response, _validate_result_record).
THEOREM SummariesTrue == RunSpec => []SummaryTrue
  BY RunInvariant, InvMakesSummaryTrue, PTL

\* Whatever a checkpoint counts is in the files, whole and safe from a crash
\* (net_runner.py: the order of write, flush, fsync and checkpoint).
THEOREM CheckpointsCovered == RunSpec => []CheckpointCovered
  BY RunInvariant, InvCoversCheckpoint, PTL

-----------------------------------------------------------------------------
(* The card and its outputs *)

Nowhere == {Nothing, Torn}
CardFiles == {"bit", "xsa", "inputs", "param", "sel_manifest", "sel_index", "manifest"}
SelectedFiles == [manifest : Selections, inputs : Sets]
InstallOrder == [package : Packages, quant : Quants]

\* The inputs that a quantization was bound to are in its domain, and the package
\* is one of it.
BoundTo(m, q) == m.inputs \in Sets /\ q \in Quants /\ m.binding = q /\ Domain[m.inputs] = q.domain

ManifestTrue(m) ==
  /\ DOMAIN m = {"bit", "xsa", "inputs", "param", "selection", "binding", "status"}
  /\ m.bit = m.xsa /\ m.bit \in Builds
  /\ m.selection # Nothing => m.selection \in SelectedFiles
  /\ m.status = "DATA_READY" =>
       /\ BoundTo(m, m.binding)
       /\ m.param \in Packages /\ PackageFits(m.param, m.binding)

\* What a command that was not yet killed has found out, still holds.
CommandTrue ==
  /\ DOMAIN sd_tool = {"pc", "of"}
  /\ sd_tool.pc \in {"bit", "xsa", "prepared"} => sd_tool.of \in Builds
  /\ sd_tool.pc \in {"package", "copy", "installed"} =>
       /\ sd_tool.of \in InstallOrder /\ ManifestTrue(card.manifest)
       /\ BoundTo(card.manifest, sd_tool.of.quant)
  /\ sd_tool.pc \in {"copy", "installed"} => PackageFits(sd_tool.of.package, sd_tool.of.quant)
  /\ sd_tool.pc \in {"sel_manifest", "sel_index", "selected"} =>
       sd_tool.of \in SelectedFiles /\ ManifestTrue(card.manifest)

CardGood ==
  /\ DOMAIN card = CardFiles
  /\ card.manifest # Nothing => ManifestTrue(card.manifest)

\* Outputs
FitsMode(mode, id) ==
  mode = "conformance" => id.selection.inputs = id.inputs

OutputsGood ==
  /\ DOMAIN out = RunModes /\ \A m \in RunModes : DOMAIN out[m] = Outputs
  /\ \A m \in RunModes : \A f, g \in Outputs :
       out[m][f] \notin Nowhere /\ out[m][g] \notin Nowhere => out[m][f] = out[m][g]
  /\ \A m \in RunModes : \A f \in Outputs :
       out[m][f] \notin Nowhere =>
         FitsMode(m, out[m][f]) /\ Domain[out[m][f].inputs] = out[m][f].param.domain

\* What the run in progress has written is of this run only.
RunGood ==
  /\ DOMAIN sd_run = {"pc", "mode", "id"}
  /\ sd_run.pc # "off" =>
       /\ sd_run.mode \in RunModes
       /\ \A f \in Outputs : out[sd_run.mode][f] \in Nowhere \cup {sd_run.id}
       /\ FitsMode(sd_run.mode, sd_run.id)
  /\ sd_run.pc \notin {"off", "records"} =>
       Domain[sd_run.id.inputs] = sd_run.id.param.domain

CardInv == CardGood /\ CommandTrue /\ OutputsGood /\ RunGood

-----------------------------------------------------------------------------
(* Commands and changes leave a good card. *)

\* A file other than the manifest.
LEMMA PutFile ==
  ASSUME CardInv, NEW f \in CardFiles \ {"manifest"}, NEW c, card' = [card EXCEPT ![f] = c]
  PROVE  CardGood' /\ card'.manifest = card.manifest
  BY DEF CardInv, CardGood, CardFiles

LEMMA PutManifest ==
  ASSUME CardInv, NEW m, ManifestTrue(m), card' = [card EXCEPT !.manifest = m]
  PROVE  CardGood' /\ card'.manifest = m
  BY DEF CardInv, CardGood, CardFiles

LEMMA CommandEnds ==
  ASSUME sd_tool' = NoTool
  PROVE  CommandTrue'
  BY DEF CommandTrue, NoTool

\* The manifest with the inputs registered, and bound to q if there is a q.
LEMMA RegisteredTrue ==
  ASSUME CardInv, NEW q \in Quants \cup {Nothing}, CanRegister(q)
  PROVE  /\ ManifestTrue(Registered(q))
         /\ q # Nothing => BoundTo(Registered(q), q)
<1>1. ManifestTrue(card.manifest)
  BY DEF CardInv, CardGood, CanRegister
<1> DEFINE m == Registered(q)
<1>2. /\ DOMAIN m = DOMAIN card.manifest
      /\ m.bit = card.manifest.bit /\ m.xsa = card.manifest.xsa
      /\ m.selection = card.manifest.selection
      /\ m.inputs = card.inputs /\ m.binding = q /\ m.status # "DATA_READY"
  BY <1>1 DEF Registered, ManifestTrue
<1>3. ManifestTrue(m)
  BY <1>1, <1>2 DEF ManifestTrue
<1>4. q # Nothing => BoundTo(m, q)
  BY <1>2 DEF BoundTo, CanRegister
<1> QED BY <1>3, <1>4

\* A step of the host: the card, its command, and neither run nor outputs.
HostMoves == UNCHANGED <<sd_run, out>>

LEMMA CopyKeeps ==
  ASSUME CardInv, NEW from, NEW to, NEW content,
         NEW f \in {"bit", "xsa", "param", "sel_manifest", "sel_index"},
         Copies(from, f, content, to),
         <<from, to>> \in {<<"bit", "xsa">>, <<"xsa", "prepared">>, <<"copy", "installed">>,
                          <<"sel_manifest", "sel_index">>, <<"sel_index", "selected">>}
  PROVE  CardGood' /\ CommandTrue' /\ HostMoves
<1>1. HostMoves
  BY DEF Copies, HostMoves
<1>2. CASE SameOrAbsent(f, content)
  <2>1. /\ card' = [card EXCEPT ![f] = content] /\ sd_tool' = [pc |-> to, of |-> sd_tool.of]
        /\ sd_tool.pc = from
    BY <1>2 DEF Copies, ToolGoes
  <2>2. CardGood' /\ card'.manifest = card.manifest
    BY <2>1, PutFile DEF CardFiles
  <2>3. sd_tool'.pc = to /\ sd_tool'.of = sd_tool.of /\ DOMAIN sd_tool' = {"pc", "of"}
    BY <2>1
  <2>4. CommandTrue'
    BY <2>1, <2>2, <2>3 DEF CardInv, CommandTrue
  <2> QED BY <1>1, <2>2, <2>4
<1>3. CASE ~SameOrAbsent(f, content)
  <2>1. sd_tool' = NoTool /\ card' = card
    BY <1>3 DEF Copies
  <2> QED BY <1>1, <2>1, CommandEnds DEF CardInv, CardGood
<1> QED BY <1>2, <1>3

LEMMA WriteKeeps ==
  ASSUME CardInv, NEW from, NEW m, Writes(from, m), ManifestTrue(m)
  PROVE  CardGood' /\ CommandTrue' /\ HostMoves
  BY PutManifest, CommandEnds DEF Writes, HostMoves

HostNext ==
  \/ \E b \in Builds : Prepare(b)
  \/ CopyBit \/ CopyXsa \/ WritePrepared
  \/ \E q \in Quants \cup {Nothing} : RegisterInputs(q)
  \/ \E p \in Packages, q \in Quants : Install(p, q)
  \/ CheckPackage \/ CopyPackage \/ WriteInstalled
  \/ \E m \in Selections, s \in Sets : Select(m, s)
  \/ CopySelection \/ CopyIndex \/ WriteSelected

LEMMA HostKeepsCard ==
  ASSUME CardInv, HostNext
  PROVE  CardGood' /\ CommandTrue' /\ HostMoves
<1>1. ASSUME NEW b \in Builds, Prepare(b) PROVE CardGood' /\ CommandTrue' /\ HostMoves
  <2>1. card' = card /\ sd_tool' = [pc |-> "bit", of |-> b] /\ HostMoves
    BY <1>1 DEF Prepare, ToolGoes, Starts, HostMoves
  <2>2. CommandTrue'
    BY <2>1 DEF CommandTrue
  <2> QED BY <2>1, <2>2 DEF CardInv, CardGood
<1>2. CASE CopyBit \/ CopyXsa \/ CopyPackage \/ CopySelection \/ CopyIndex
  BY <1>2, CopyKeeps DEF CopyBit, CopyXsa, CopyPackage, CopySelection, CopyIndex
<1>3. CASE WritePrepared
  <2> DEFINE m == [bit |-> sd_tool.of, xsa |-> sd_tool.of, inputs |-> Nothing, param |-> Nothing,
                   selection |-> Nothing, binding |-> Nothing, status |-> "ARTIFACTS_READY"]
  <2>1. Writes("prepared", m)
    BY <1>3 DEF WritePrepared
  <2>2. ManifestTrue(m)
    BY <2>1 DEF Writes, ManifestTrue, CardInv, CommandTrue
  <2> QED BY <2>1, <2>2, WriteKeeps
<1>4. ASSUME NEW q \in Quants \cup {Nothing}, RegisterInputs(q)
      PROVE  CardGood' /\ CommandTrue' /\ HostMoves
  <2>1. /\ card' = [card EXCEPT !.manifest = Registered(q)] /\ sd_tool' = sd_tool
        /\ sd_tool.pc = "idle" /\ HostMoves /\ CanRegister(q)
    BY <1>4 DEF RegisterInputs, Starts, HostMoves
  <2>2. CommandTrue'
    BY <2>1 DEF CommandTrue, CardInv
  <2> QED BY <2>1, <2>2, RegisteredTrue, PutManifest
<1>5. ASSUME NEW p \in Packages, NEW q \in Quants, Install(p, q)
      PROVE  CardGood' /\ CommandTrue' /\ HostMoves
  <2>1. /\ card' = [card EXCEPT !.manifest = Registered(q)]
        /\ sd_tool' = [pc |-> "package", of |-> [package |-> p, quant |-> q]]
        /\ HostMoves /\ CanRegister(q) /\ card.manifest # Nothing
    BY <1>5 DEF Install, ToolGoes, Starts, HostMoves
  <2>2. q # Nothing
    BY CardAssumption DEF Quants
  <2>3. ManifestTrue(Registered(q)) /\ BoundTo(Registered(q), q)
    BY <2>1, <2>2, RegisteredTrue
  <2>4. CardGood' /\ card'.manifest = Registered(q)
    BY <2>1, <2>3, PutManifest
  <2>5. sd_tool'.of \in InstallOrder /\ sd_tool'.pc = "package" /\ sd_tool'.of.quant = q
        /\ DOMAIN sd_tool' = {"pc", "of"}
    BY <2>1 DEF InstallOrder
  <2>6. CommandTrue'
    BY <2>3, <2>4, <2>5 DEF CommandTrue
  <2> QED BY <2>1, <2>4, <2>6
<1>6. CASE CheckPackage
  <2>1. /\ sd_tool' = IF PackageFits(sd_tool.of.package, sd_tool.of.quant)
                      THEN [sd_tool EXCEPT !.pc = "copy"] ELSE NoTool
        /\ sd_tool.pc = "package" /\ card' = card /\ HostMoves
    BY <1>6 DEF CheckPackage, HostMoves
  <2>2. CASE PackageFits(sd_tool.of.package, sd_tool.of.quant)
    <3>1. sd_tool'.pc = "copy" /\ sd_tool'.of = sd_tool.of /\ DOMAIN sd_tool' = {"pc", "of"}
      BY <2>1, <2>2 DEF CardInv, CommandTrue
    <3>2. CommandTrue'
      BY <2>1, <2>2, <3>1 DEF CardInv, CommandTrue
    <3> QED BY <2>1, <3>2 DEF CardInv, CardGood
  <2>3. CASE ~PackageFits(sd_tool.of.package, sd_tool.of.quant)
    BY <2>1, <2>3, CommandEnds DEF CardInv, CardGood
  <2> QED BY <2>2, <2>3
<1>7. CASE WriteInstalled
  <2> DEFINE m == [card.manifest EXCEPT !.param = sd_tool.of.package, !.status = "DATA_READY"]
  <2>1. Writes("installed", m) /\ sd_tool.pc = "installed"
    BY <1>7 DEF WriteInstalled, Writes
  <2>2. /\ ManifestTrue(card.manifest) /\ sd_tool.of \in InstallOrder
        /\ BoundTo(card.manifest, sd_tool.of.quant)
        /\ PackageFits(sd_tool.of.package, sd_tool.of.quant)
    BY <2>1 DEF CardInv, CommandTrue
  <2>3. /\ DOMAIN m = DOMAIN card.manifest /\ m.bit = card.manifest.bit
        /\ m.xsa = card.manifest.xsa /\ m.selection = card.manifest.selection
        /\ m.inputs = card.manifest.inputs /\ m.binding = card.manifest.binding
        /\ m.param = sd_tool.of.package
    BY <2>2 DEF ManifestTrue
  <2>4. ManifestTrue(m)
    BY <2>2, <2>3 DEF ManifestTrue, BoundTo, InstallOrder
  <2> QED BY <2>1, <2>4, WriteKeeps
<1>8. ASSUME NEW m \in Selections, NEW s \in Sets, Select(m, s)
      PROVE  CardGood' /\ CommandTrue' /\ HostMoves
  <2>1. /\ card' = card /\ sd_tool' = [pc |-> "sel_manifest", of |-> [manifest |-> m, inputs |-> s]]
        /\ HostMoves /\ card.manifest # Nothing
    BY <1>8 DEF Select, ToolGoes, Starts, HostMoves
  <2>2. sd_tool'.of \in SelectedFiles /\ sd_tool'.pc = "sel_manifest" /\ DOMAIN sd_tool' = {"pc", "of"}
    BY <2>1 DEF SelectedFiles
  <2>3. CommandTrue'
    BY <2>1, <2>2 DEF CommandTrue, CardInv, CardGood
  <2> QED BY <2>1, <2>3 DEF CardInv, CardGood
<1>9. CASE WriteSelected
  <2> DEFINE m == [card.manifest EXCEPT !.selection = sd_tool.of]
  <2>1. Writes("selected", m) /\ sd_tool.pc = "selected"
    BY <1>9 DEF WriteSelected, Writes
  <2>2. ManifestTrue(card.manifest) /\ sd_tool.of \in SelectedFiles
    BY <2>1 DEF CardInv, CommandTrue
  <2>3. /\ DOMAIN m = DOMAIN card.manifest /\ m.bit = card.manifest.bit
        /\ m.xsa = card.manifest.xsa /\ m.selection = sd_tool.of
        /\ m.inputs = card.manifest.inputs /\ m.binding = card.manifest.binding
        /\ m.param = card.manifest.param /\ m.status = card.manifest.status
    BY <2>2 DEF ManifestTrue
  <2>4. ManifestTrue(m)
    BY <2>2, <2>3 DEF ManifestTrue, BoundTo
  <2> QED BY <2>1, <2>4, WriteKeeps
<1> QED BY <1>1, <1>2, <1>3, <1>4, <1>5, <1>6, <1>7, <1>8, <1>9 DEF HostNext

-----------------------------------------------------------------------------
(* The board *)

LEMMA HostKeepsInv ==
  ASSUME CardInv, HostNext
  PROVE  CardInv'
<1>1. CardGood' /\ CommandTrue' /\ HostMoves
  BY HostKeepsCard
<1>2. OutputsGood' /\ RunGood'
  BY <1>1 DEF HostMoves, CardInv, OutputsGood, RunGood
<1> QED BY <1>1, <1>2 DEF CardInv

\* A step that leaves card and command alone.
LEMMA RunKeepsCard ==
  ASSUME CardInv, UNCHANGED <<card, sd_tool>>
  PROVE  CardGood' /\ CommandTrue'
  BY DEF CardInv, CardGood, CommandTrue

LEMMA StartsKeep ==
  ASSUME CardInv, NEW mode \in RunModes, NEW p \in Packages, BoardStarts(mode, p)
  PROVE  CardInv'
<1> DEFINE id == [n |-> left.runs, inputs |-> card.inputs, param |-> p,
                  selection |-> IF mode = "conformance" THEN card.sel_index ELSE Nothing]
<1>1. /\ mode = "conformance" => SelectionAccepted
      /\ PathsClear(mode)
      /\ out' = [out EXCEPT ![mode] = Opened(mode)]
      /\ sd_run' = [pc |-> "records", mode |-> mode, id |-> id]
      /\ UNCHANGED <<card, sd_tool>>
  BY DEF BoardStarts
<1>2. FitsMode(mode, id)
  BY <1>1 DEF FitsMode, SelectionAccepted
<1>3. \A f \in Outputs : Opened(mode)[f] \in Nowhere
  BY <1>1 DEF Opened, PathsClear, Nowhere
<1>4. DOMAIN Opened(mode) = Outputs
  BY DEF Opened
<1>5. DOMAIN out = RunModes /\ \A m \in RunModes : DOMAIN out[m] = Outputs
  BY DEF CardInv, OutputsGood
<1>6. DOMAIN out' = RunModes /\ out'[mode] = Opened(mode)
      /\ \A m \in RunModes : m # mode => out'[m] = out[m]
  BY <1>1, <1>5
<1>7. OutputsGood'
  BY <1>3, <1>4, <1>6 DEF CardInv, OutputsGood
<1>8. /\ DOMAIN sd_run' = {"pc", "mode", "id"}
      /\ sd_run'.pc = "records" /\ sd_run'.mode = mode /\ sd_run'.id = id
  BY <1>1
<1> HIDE DEF id
<1>9. RunGood'
  BY <1>2, <1>3, <1>6, <1>8 DEF RunGood
<1> QED BY <1>1, <1>7, <1>9, RunKeepsCard DEF CardInv

LEMMA OffIsGood ==
  ASSUME sd_run' = Off
  PROVE  RunGood'
<1>1. sd_run'.pc = "off" /\ DOMAIN sd_run' = {"pc", "mode", "id"}
  BY DEF Off
<1> QED BY <1>1 DEF RunGood

\* The run writes a file: its own, or a temporary one.
LEMMA PutKeeps ==
  ASSUME CardInv, NEW f \in Outputs, NEW c \in {Torn, sd_run.id},
         sd_run.pc \notin {"off", "records"},
         out' = [out EXCEPT ![sd_run.mode][f] = c]
  PROVE  /\ OutputsGood'
         /\ \A g \in Outputs : out'[sd_run.mode][g] \in Nowhere \cup {sd_run.id}
<1> DEFINE mode == sd_run.mode
           id == sd_run.id
<1>1. /\ mode \in RunModes /\ FitsMode(mode, id) /\ Domain[id.inputs] = id.param.domain
      /\ \A g \in Outputs : out[mode][g] \in Nowhere \cup {id}
  BY DEF CardInv, RunGood
<1>2. DOMAIN out = RunModes /\ \A m \in RunModes : DOMAIN out[m] = Outputs
  BY DEF CardInv, OutputsGood
<1>3. /\ DOMAIN out' = RunModes /\ \A m \in RunModes : DOMAIN out'[m] = Outputs
      /\ out'[mode][f] = c
      /\ \A m \in RunModes, g \in Outputs : m # mode \/ g # f => out'[m][g] = out[m][g]
  BY <1>1, <1>2
<1> HIDE DEF mode, id
<1>4. \A g \in Outputs : out'[mode][g] \in Nowhere \cup {id}
  BY <1>1, <1>3 DEF Nowhere, id
<1>5. \A m \in RunModes : m # mode => \A g \in Outputs : out'[m][g] = out[m][g]
  BY <1>3
<1>6. OutputsGood'
  BY <1>1, <1>3, <1>4, <1>5 DEF CardInv, OutputsGood
<1> QED BY <1>4, <1>6 DEF mode, id

BoardNext ==
  \/ Infer \/ RenameData \/ WriteIndex \/ RenameIndex \/ RenameNodes
  \/ WriteNodeIndex \/ RenameNodeIndex

LEMMA BoardKeepsInv ==
  ASSUME CardInv, BoardNext
  PROVE  CardInv'
<1>0. UNCHANGED <<card, sd_tool>> /\ CardGood' /\ CommandTrue'
  BY RunKeepsCard
  DEF BoardNext, Infer, RenameData, WriteIndex, RenameIndex, RenameNodes, WriteNodeIndex,
      RenameNodeIndex, RunStep
<1>1. CASE Infer
  <2>1. out' = out /\ sd_run.pc = "records"
    BY <1>1 DEF Infer, RunStep
  <2>2. OutputsGood'
    BY <2>1 DEF CardInv, OutputsGood
  <2>3. CASE Domain[sd_run.id.inputs] = sd_run.id.param.domain
    <3>1. sd_run' = [sd_run EXCEPT !.pc = "data"]
      BY <1>1, <2>3 DEF Infer, RunGoes
    <3>2. /\ DOMAIN sd_run' = {"pc", "mode", "id"} /\ sd_run'.pc = "data"
          /\ sd_run'.mode = sd_run.mode /\ sd_run'.id = sd_run.id
      BY <3>1 DEF CardInv, RunGood
    <3>3. RunGood'
      BY <2>1, <2>3, <3>2 DEF CardInv, RunGood
    <3> QED BY <1>0, <2>2, <3>3 DEF CardInv
  <2>4. CASE Domain[sd_run.id.inputs] # sd_run.id.param.domain
    <3>1. sd_run' = Off
      BY <1>1, <2>4 DEF Infer
    <3> QED BY <1>0, <2>2, <3>1, OffIsGood DEF CardInv
  <2> QED BY <2>3, <2>4
<1>2. CASE BoardNext /\ ~Infer
  <2>1. /\ sd_run.pc \notin {"off", "records"}
        /\ \E f \in Outputs, c \in {Torn, sd_run.id} : out' = [out EXCEPT ![sd_run.mode][f] = c]
        /\ sd_run' = Off \/ \E pc : pc \notin {"off", "records"} /\ sd_run' = [sd_run EXCEPT !.pc = pc]
    <3>1. CASE RenameData
      BY <3>1 DEF RenameData, RunStep, Put, RunGoes, Outputs
    <3>2. CASE WriteIndex
      BY <3>2 DEF WriteIndex, RunStep, Put, RunGoes, Outputs
    <3>3. CASE RenameIndex
      BY <3>3 DEF RenameIndex, RunStep, Put, RunGoes, Outputs
    <3>4. CASE RenameNodes
      BY <3>4 DEF RenameNodes, RunStep, Put, RunGoes, Outputs
    <3>5. CASE WriteNodeIndex
      BY <3>5 DEF WriteNodeIndex, RunStep, Put, RunGoes, Outputs
    <3>6. CASE RenameNodeIndex
      BY <3>6 DEF RenameNodeIndex, RunStep, Put, RunGoes, Outputs
    <3> QED BY <1>2, <3>1, <3>2, <3>3, <3>4, <3>5, <3>6 DEF BoardNext
  <2>2. /\ OutputsGood'
        /\ \A g \in Outputs : out'[sd_run.mode][g] \in Nowhere \cup {sd_run.id}
    BY <2>1, PutKeeps
  <2>3. CASE sd_run' = Off
    BY <1>0, <2>2, <2>3, OffIsGood DEF CardInv
  <2>4. ASSUME NEW pc, pc \notin {"off", "records"}, sd_run' = [sd_run EXCEPT !.pc = pc]
        PROVE  CardInv'
    <3>1. /\ DOMAIN sd_run' = {"pc", "mode", "id"} /\ sd_run'.pc = pc
          /\ sd_run'.mode = sd_run.mode /\ sd_run'.id = sd_run.id
      BY <2>4 DEF CardInv, RunGood
    <3>2. RunGood'
      BY <2>1, <2>2, <2>4, <3>1 DEF CardInv, RunGood
    <3> QED BY <1>0, <2>2, <3>2 DEF CardInv
  <2> QED BY <2>1, <2>3, <2>4
<1> QED BY <1>1, <1>2

-----------------------------------------------------------------------------
(* Trouble, and the two invariants *)

LEMMA KilledKeeps ==
  ASSUME CardInv, Killed
  PROVE  CardInv'
<1>1. sd_tool' = NoTool /\ sd_run' = Off /\ card' = card /\ out' = out
  BY DEF Killed
<1>2. OutputsGood' /\ CardGood'
  BY <1>1 DEF CardInv, OutputsGood, CardGood
<1> QED BY <1>1, <1>2, CommandEnds, OffIsGood DEF CardInv

LEMMA ChangeKeeps ==
  ASSUME CardInv, Change
  PROVE  CardInv'
<1>1. sd_tool' = sd_tool /\ sd_run' = sd_run /\ sd_run.pc = "off" /\ sd_tool.pc = "idle"
  BY DEF Change, OnHost
<1>2. CommandTrue'
  BY <1>1 DEF CardInv, CommandTrue
<1>3. RunGood'
  BY <1>1 DEF CardInv, RunGood
<1>4. ASSUME NEW f \in CardFiles \ {"manifest"}, NEW c, card' = [card EXCEPT ![f] = c], out' = out
      PROVE  CardInv'
  <2>1. OutputsGood'
    BY <1>4 DEF CardInv, OutputsGood
  <2> QED BY <1>2, <1>3, <1>4, <2>1, PutFile DEF CardInv
<1>5. ASSUME NEW m \in RunModes, NEW f \in Outputs, card' = card,
             out' = [out EXCEPT ![m][f] = Nothing]
      PROVE  CardInv'
  <2>1. CardGood'
    BY <1>5 DEF CardInv, CardGood
  <2>2. DOMAIN out = RunModes /\ \A n \in RunModes : DOMAIN out[n] = Outputs
    BY DEF CardInv, OutputsGood
  <2>3. /\ DOMAIN out' = RunModes /\ \A n \in RunModes : DOMAIN out'[n] = Outputs
        /\ \A n \in RunModes, g \in Outputs : out'[n][g] \notin Nowhere => out'[n][g] = out[n][g]
    BY <1>5, <2>2 DEF Nowhere
  <2>4. OutputsGood'
    BY <2>3 DEF CardInv, OutputsGood
  <2> QED BY <1>2, <1>3, <2>1, <2>4 DEF CardInv
<1>6. CASE (\E s \in Sets \cup {Torn} : card' = [card EXCEPT !.inputs = s]) /\ UNCHANGED out
  BY <1>4, <1>6 DEF CardFiles
<1>7. CASE /\ \E f \in {"bit", "xsa", "param", "sel_manifest", "sel_index"}, c \in {Nothing, Torn} :
                card[f] \notin {Nothing, Torn} /\ card' = [card EXCEPT ![f] = c]
           /\ UNCHANGED out
  BY <1>4, <1>7 DEF CardFiles
<1>8. CASE /\ \E m \in RunModes, f \in Outputs :
                out[m][f] # Nothing /\ out' = [out EXCEPT ![m][f] = Nothing]
           /\ UNCHANGED card
  BY <1>5, <1>8
<1> QED BY <1>6, <1>7, <1>8 DEF Change

LEMMA CardStarts == SdInit => CardInv
<1> SUFFICES ASSUME SdInit PROVE CardInv
  OBVIOUS
<1>1. CardGood
  BY DEF SdInit, CardGood, CardFiles
<1>2. CommandTrue
  BY DEF SdInit, CommandTrue, NoTool
<1>3. OutputsGood
  BY DEF SdInit, OutputsGood, NoFiles, Nowhere
<1>4. RunGood
  <2>1. DOMAIN sd_run = {"pc", "mode", "id"} /\ sd_run.pc = "off"
    BY DEF SdInit, Off
  <2> QED BY <2>1 DEF RunGood
<1> QED BY <1>1, <1>2, <1>3, <1>4 DEF CardInv

LEMMA CardSteps ==
  ASSUME CardInv, [SdNext]_cvars
  PROVE  CardInv'
<1>1. CASE HostNext
  BY <1>1, HostKeepsInv
<1>2. CASE \E mode \in RunModes, p \in Packages : BoardStarts(mode, p)
  BY <1>2, StartsKeep
<1>3. CASE BoardNext
  BY <1>3, BoardKeepsInv
<1>4. CASE Killed
  BY <1>4, KilledKeeps
<1>5. CASE Change
  BY <1>5, ChangeKeeps
<1>6. CASE UNCHANGED cvars
  BY <1>6 DEF cvars, CardInv, CardGood, CommandTrue, OutputsGood, RunGood
<1> QED BY <1>1, <1>2, <1>3, <1>4, <1>5, <1>6 DEF SdNext, HostNext, BoardNext

LEMMA RunnableIsTrue == CardInv => RunnableRuns
<1> SUFFICES ASSUME CardInv, runnable PROVE RunnableRuns
  BY DEF RunnableRuns
<1> DEFINE m == card.manifest
<1>1. verify_card /\ m.status = "DATA_READY" /\ m # Nothing
  BY DEF runnable, verify_card
<1>2. /\ m.bit = m.xsa /\ m.bit \in Builds
      /\ BoundTo(m, m.binding) /\ m.param \in Packages /\ PackageFits(m.param, m.binding)
      /\ m.selection # Nothing => m.selection \in SelectedFiles
  BY <1>1 DEF CardInv, CardGood, ManifestTrue
<1>3. /\ m.inputs # Nothing /\ m.param # Nothing /\ m.binding # Nothing
      /\ card.inputs = m.inputs /\ card.param = m.param /\ card.bit = m.bit /\ card.xsa = m.xsa
  BY <1>1, <1>2, CardAssumption DEF verify_card, BoundTo, Quants
<1>4. /\ card.bit = card.xsa /\ card.bit \in Builds
      /\ card.inputs \in Sets /\ card.param \in Packages
      /\ Domain[card.inputs] = card.param.domain /\ m.binding.model = card.param.model
  BY <1>2, <1>3 DEF BoundTo, PackageFits
<1>5. ASSUME m.selection # Nothing, m.selection.inputs = m.inputs
      PROVE  SelectionAccepted /\ card.sel_manifest = card.sel_index.manifest
  <2>1. card.sel_manifest = m.selection.manifest /\ card.sel_index = m.selection
    BY <1>1, <1>5 DEF verify_card
  <2>2. m.selection \notin {Nothing, Torn}
    BY <1>2, <1>5, CardAssumption DEF SelectedFiles
  <2> QED BY <1>3, <1>5, <2>1, <2>2 DEF SelectionAccepted
<1> QED BY <1>3, <1>4, <1>5 DEF RunnableRuns

LEMMA OutputsAreOfOneRun == CardInv => OutputsOneRun
<1> SUFFICES ASSUME CardInv, NEW m \in RunModes
             PROVE  LET ids == {out[m][f] : f \in Outputs} \ {Nothing, Torn}
                    IN  /\ Cardinality(ids) <= 1
                        /\ \A id \in ids : /\ Domain[id.inputs] = id.param.domain
                                           /\ m = "conformance" => id.selection.inputs = id.inputs
  BY DEF OutputsOneRun
<1> DEFINE ids == {out[m][f] : f \in Outputs} \ {Nothing, Torn}
<1>1. \A a, b \in ids : a = b
  BY DEF CardInv, OutputsGood, Nowhere
<1>2. \A id \in ids : FitsMode(m, id) /\ Domain[id.inputs] = id.param.domain
  BY DEF CardInv, OutputsGood, Nowhere
<1>3. Cardinality(ids) <= 1
  <2> HIDE DEF ids
  <2>1. CASE ids = {}
    BY <2>1, FS_EmptySet
  <2>2. ASSUME NEW a \in ids PROVE Cardinality(ids) <= 1
    <3>1. ids = {a}
      BY <1>1, <2>2
    <3> QED BY <3>1, FS_Singleton
  <2> QED BY <2>1, <2>2
<1> QED BY <1>2, <1>3 DEF FitsMode

\* However the commands of sd_deploy.py, their crashes, the operator's changes and
\* the board's runs follow each other, a card that verify_card reports runnable is
\* one that the board runs, and what a run leaves under the names of its outputs is
\* of that run alone, with the inputs, parameters and selection that belong together.
THEOREM CardAlwaysTrue == SdSpec => []CardTrue
<1>1. SdInit => CardInv
  BY CardStarts
<1>2. CardInv /\ [SdNext]_cvars => CardInv'
  BY CardSteps
<1>3. CardInv => CardTrue
  BY RunnableIsTrue, OutputsAreOfOneRun DEF CardTrue
<1> QED BY <1>1, <1>2, <1>3, PTL DEF SdSpec

-----------------------------------------------------------------------------
\* ParameterPackage.  An index of an image is read as digits: the tile, the block, the
\* pass, the row and the lane.

\* A digit is what is left of the division by its base.
LEMMA Digits ==
  ASSUME NEW a \in Nat, NEW d \in Nat \ {0}, NEW r \in 0 .. d - 1
  PROVE  a * d + r \in Nat /\ (a * d + r) \div d = a /\ (a * d + r) % d = r
<1> DEFINE n == a * d + r
           q == n \div d
<1>0. a * d \in Nat
  BY SMTT(30)
<1>1. n \in Nat /\ a * d <= n /\ n < a * d + d
  BY <1>0
<1> HIDE DEF n
<1>2. q \in Nat /\ q * d <= n /\ n < q * d + d
  BY <1>1, Quotient
<1>3. q = a
  <2> HIDE DEF q
  <2> QED BY <1>1, <1>2, TileOfRow
<1>4. n % d \in 0 .. d - 1 /\ n = d * q + (n % d)
  BY <1>1, Division
<1>5. d * a = a * d
  OBVIOUS
<1> QED BY <1>0, <1>1, <1>3, <1>4, <1>5 DEF n

\* A place below the digits before it is below their product.
LEMMA Place ==
  ASSUME NEW m \in Nat, NEW a \in 0 .. m - 1, NEW d \in Nat \ {0}, NEW r \in 0 .. d - 1
  PROVE  a * d + r \in 0 .. m * d - 1
<1>1. a * d \in Nat /\ (a + 1) * d = a * d + d /\ (a + 1) * d <= m * d /\ m * d \in Nat
  BY SMTT(30)
<1> QED BY <1>1

-----------------------------------------------------------------------------
(* What a package carries *)

\* The sections of a layer's files of one revision.
BiasPayload(l, r)   == Repeated(build_bias_tile(BiasFile(l, r), l), Schedule(Plan[l]).tile_count)
WeightPayload(l, r) == Repeated(build_weight_tile(WeightFile(l, r), l), Schedule(Plan[l]).tile_count)

\* A layer that is checked has an output size.
LEMMA OutputInt ==
  ASSUME NEW size \in Nat, NEW kernel \in {1, 3}, NEW stride \in {1, 2}, NEW pad \in Nat
  PROVE  conv_output_dim(size, kernel, stride, pad) \in Int
  BY DEF conv_output_dim

\* The numbers of a layer that the plan accepts.
LEMMA LayerNumbers ==
  ASSUME NEW l \in Layers, plan_ok(Plan)
  PROVE  LET s == Schedule(Plan[l]) IN
         /\ Plan[l].cin \in Nat \ {0} /\ Plan[l].cout \in Nat \ {0} /\ Area(l) \in Nat \ {0}
         /\ s.tile_count \in Nat /\ s.cout_blocks \in Nat \ {0} /\ s.k_passes \in Nat \ {0}
         /\ s.k_total = Plan[l].cin * Area(l)
         /\ s.bias_bytes = s.tile_count * s.cout_blocks * BIAS_PACKET_BYTES
         /\ s.weight_bytes = s.tile_count * s.cout_blocks * s.k_passes * WEIGHT_PACKET_BYTES
         /\ Limits.rows \in Nat \ {0} /\ Limits.cout_tile \in Nat \ {0}
         /\ WEIGHT_PACKET_BYTES = Limits.rows * Limits.cout_tile
         /\ WEIGHT_PACKET_BYTES \in Nat \ {0}
<1> DEFINE layer == Plan[l]
           s == Schedule(layer)
           H == conv_output_dim(layer.fm_h, layer.kernel, layer.stride, layer.pad)
<1>1. /\ layer.kernel \in {1, 3} /\ layer.cin \in Nat \ {0} /\ layer.cout \in Nat \ {0}
      /\ layer.tile_h \in 1 .. H /\ layer.fm_h \in Nat /\ layer.stride \in {1, 2}
  <2>1. schedule_layer_ok(Plan[l])
    BY DEF plan_ok, Layers
  <2> QED BY <2>1 DEF schedule_layer_ok, GeometryOk
<1>2. /\ Limits.rows \in Nat \ {0} /\ Limits.cout_tile \in Nat \ {0}
  BY LimitsAssumption
<1>3. /\ s.tile_count = ceil_div(H, layer.tile_h)
      /\ s.k_total = layer.cin * layer.kernel * layer.kernel
      /\ s.k_passes = ceil_div(layer.cin * layer.kernel * layer.kernel, Limits.rows)
      /\ s.cout_blocks = ceil_div(layer.cout, Limits.cout_tile)
      /\ s.bias_bytes = s.tile_count * s.cout_blocks * BIAS_PACKET_BYTES
      /\ s.weight_bytes = s.tile_count * s.cout_blocks * s.k_passes * WEIGHT_PACKET_BYTES
  BY DEF Schedule
<1>4. layer.cin * layer.kernel * layer.kernel \in Nat \ {0} /\ Area(l) \in Nat \ {0}
  BY <1>1 DEF Area
<1>5. layer.cin * layer.kernel * layer.kernel = layer.cin * Area(l)
  BY <1>1 DEF Area
<1>6. ceil_div(layer.cin * layer.kernel * layer.kernel, Limits.rows) \in Nat \ {0}
  <2> DEFINE v == layer.cin * layer.kernel * layer.kernel
  <2>1. v \in Nat /\ v > 0
    BY <1>4
  <2> HIDE DEF v
  <2>2. ceil_div(v, Limits.rows) \in Nat /\ ceil_div(v, Limits.rows) > 0
    BY <2>1, <1>2, CeilDivCovers
  <2> QED BY <2>2 DEF v
<1>7. ceil_div(layer.cout, Limits.cout_tile) \in Nat \ {0}
  <2> DEFINE v == layer.cout
             d == Limits.cout_tile
  <2>1. v \in Nat /\ v > 0 /\ d \in Nat \ {0}
    BY <1>1, <1>2
  <2> HIDE DEF v, d
  <2>2. ceil_div(v, d) \in Nat /\ ceil_div(v, d) > 0
    BY <2>1, CeilDivCovers
  <2> QED BY <2>2 DEF v, d
<1>8. ceil_div(H, layer.tile_h) \in Nat
  <2>1. H \in Nat /\ layer.tile_h \in Nat \ {0}
    <3>1. layer.pad \in Nat
      BY PackageAssumption
    <3> QED BY <1>1, <3>1, OutputInt
  <2> HIDE DEF H, layer
  <2> QED BY <2>1, CeilDivCovers
<1>9. /\ WEIGHT_PACKET_BYTES = Limits.rows * Limits.cout_tile /\ WEIGHT_PACKET_BYTES \in Nat \ {0}
  BY <1>2 DEF WEIGHT_PACKET_BYTES
<1> QED BY <1>1, <1>2, <1>3, <1>4, <1>5, <1>6, <1>7, <1>8, <1>9

\* A tile, and the tiles of a layer behind each other.
LEMMA RepeatedIs ==
  ASSUME NEW tile, NEW n \in Nat \ {0}, Len(tile) = n, NEW times \in Nat
  PROVE  /\ DOMAIN Repeated(tile, times) = 1 .. times * n
         /\ \A t \in 0 .. times - 1, q \in 0 .. n - 1 :
              /\ t * n + q + 1 \in 1 .. times * n
              /\ Repeated(tile, times)[t * n + q + 1] = tile[q + 1]
<1>2. Repeated(tile, times) = [p \in 1 .. n * times |-> tile[((p - 1) % n) + 1]]
  BY DEF Repeated
<1>3. n * times = times * n
  OBVIOUS
<1>4. ASSUME NEW t \in 0 .. times - 1, NEW q \in 0 .. n - 1
      PROVE  /\ t * n + q + 1 \in 1 .. times * n
             /\ Repeated(tile, times)[t * n + q + 1] = tile[q + 1]
  <2>1. t * n + q \in 0 .. times * n - 1
    BY Place
  <2>2. (t * n + q) % n = q
    BY Digits
  <2>3. times * n \in Nat
    BY SMTT(30)
  <2> DEFINE x == t * n + q
  <2>4. x + 1 \in 1 .. times * n /\ (x + 1) - 1 = x
    <3> HIDE DEF x
    <3> QED BY <2>1, <2>3 DEF x
  <2>5. Repeated(tile, times)[x + 1] = tile[(x % n) + 1]
    <3> DEFINE F(p) == tile[((p - 1) % n) + 1]
    <3>1. Repeated(tile, times) = [p \in 1 .. times * n |-> F(p)]
      BY <1>2, <1>3, Zenon
    <3>2. F(x + 1) = tile[(x % n) + 1]
      BY <2>4
    <3> HIDE DEF x, F
    <3> QED BY <2>4, <3>1, <3>2, Zenon
  <2> QED BY <2>2, <2>4, <2>5
<1> QED BY <1>2, <1>3, <1>4

\* The tiles behind each other are a list.
LEMMA RepeatedListed ==
  ASSUME NEW tile, NEW n \in Nat \ {0}, Len(tile) = n, NEW times \in Nat
  PROVE  Listed(Repeated(tile, times))
<1>1. n * times \in Nat
  BY SMTT(30)
<1> DEFINE f == Repeated(tile, times)
           k == n * times
<1>2. f = [p \in 1 .. k |-> tile[((p - 1) % n) + 1]]
  BY DEF Repeated
<1> HIDE DEF k
<1>3. f = [p \in 1 .. k |-> f[p]]
  BY <1>2
<1> HIDE DEF f
<1>4. Listed(f)
  BY <1>1, <1>3, ListOf DEF k
<1> QED BY <1>4 DEF f

\* So are a layer's two sections.
LEMMA PayloadsListed ==
  ASSUME NEW l \in Layers, plan_ok(Plan), NEW r
  PROVE  Listed(BiasPayload(l, r)) /\ Listed(WeightPayload(l, r))
<1> DEFINE s == Schedule(Plan[l])
           nb == s.cout_blocks * Limits.cout_tile
           nw == s.cout_blocks * s.k_passes * WEIGHT_PACKET_BYTES
           tb == build_bias_tile(BiasFile(l, r), l)
           tw == build_weight_tile(WeightFile(l, r), l)
           times == s.tile_count
<1>1. /\ s.tile_count \in Nat /\ s.cout_blocks \in Nat \ {0} /\ s.k_passes \in Nat \ {0}
      /\ Limits.cout_tile \in Nat \ {0} /\ WEIGHT_PACKET_BYTES \in Nat \ {0}
  BY LayerNumbers
<1>2. nb \in Nat \ {0} /\ nw \in Nat \ {0} /\ times \in Nat
  BY <1>1, SMTT(30)
<1>3. tb = [p \in 1 .. nb |-> tb[p]]
  BY DEF build_bias_tile
<1>4. tw = [p \in 1 .. nw |-> tw[p]]
  BY DEF build_weight_tile
<1>5. BiasPayload(l, r) = Repeated(tb, times) /\ WeightPayload(l, r) = Repeated(tw, times)
  BY DEF BiasPayload, WeightPayload
<1> HIDE DEF nb, nw, tb, tw, times
<1>6. Len(tb) = nb /\ Len(tw) = nw
  BY <1>2, <1>3, <1>4, ListOf
<1>7. Listed(Repeated(tb, times))
  BY <1>2, <1>6, RepeatedListed
<1>8. Listed(Repeated(tw, times))
  BY <1>2, <1>6, RepeatedListed
<1> QED BY <1>5, <1>7, <1>8

\* A section begins on a boundary behind what is there.
LEMMA SectionAdded ==
  ASSUME NEW image, Listed(image), NEW kind \in Kinds, NEW payload, Listed(payload)
  PROVE  Offset(image, kind) \in Nat /\ Listed(AddSection(image, kind, payload))
<1> DEFINE n == Len(image)
           u == Unit(kind)
           v == u * n
           o == Offset(image, kind)
           k == o \div u - n
           f == [i \in 1 .. k |-> Zero]
<1>1. n \in Nat /\ u \in {1, 4}
  BY DEF Listed, Unit
<1>2. v \in Nat
  BY <1>1
<1>3. o \in Nat /\ o >= v
  <2> DEFINE c == ceil_div(v, Alignment)
  <2>1. o = c * Alignment
    BY DEF Offset, align_up, ceil_div
  <2>2. Alignment \in Nat \ {0}
    BY PackageAssumption
  <2> HIDE DEF v, o, c
  <2>3. c \in Nat /\ v <= c * Alignment
    BY <1>2, <2>2, CeilDivCovers DEF Covers, c
  <2> QED BY <2>1, <2>2, <2>3, SMTT(30)
<1>4. k \in Nat
  <2> HIDE DEF o, n, u
  <2>1. u = 1 \/ u = 4
    BY <1>1
  <2> QED BY <1>1, <1>3, <2>1
<1> HIDE DEF k
<1>5. f = [i \in 1 .. k |-> f[i]]
  OBVIOUS
<1>6. AddSection(image, kind, payload) = image \o f \o payload
  BY DEF AddSection, k
<1> HIDE DEF f
<1>7. Listed(f)
  BY <1>4, <1>5, ListOf
<1>8. Listed(image \o f)
  BY <1>7, ConcatList
<1>9. Listed(image \o f \o payload)
  BY <1>8, ConcatList
<1> QED BY <1>3, <1>6, <1>9

\* A block's lane of the bias image.
LEMMA BiasFed ==
  ASSUME NEW l \in Layers, plan_ok(Plan), NEW r \in Revisions,
         NEW t \in 0 .. Schedule(Plan[l]).tile_count - 1,
         NEW block \in 0 .. Schedule(Plan[l]).cout_blocks - 1, NEW lane \in 0 .. Limits.cout_tile - 1
  PROVE  LET at == t * Schedule(Plan[l]).cout_blocks * Limits.cout_tile
                     + (block * Limits.cout_tile + lane) + 1
         IN  /\ at \in DOMAIN BiasPayload(l, r) /\ at \in Nat
             /\ BiasPayload(l, r)[at] = FedBias(l, r, block * Limits.cout_tile + lane)
<1> DEFINE s == Schedule(Plan[l])
           n == s.cout_blocks * Limits.cout_tile
           q == block * Limits.cout_tile + lane
           tile == build_bias_tile(BiasFile(l, r), l)
<1>1. /\ Plan[l].cout \in Nat \ {0} /\ s.tile_count \in Nat /\ s.cout_blocks \in Nat \ {0}
      /\ Limits.cout_tile \in Nat \ {0}
  BY LayerNumbers
<1>2. n \in Nat \ {0}
  BY <1>1, SMTT(30)
<1>3. q \in 0 .. n - 1
  BY <1>1, Place
<1>4. t * s.cout_blocks * Limits.cout_tile = t * n
  BY <1>1, SMTT(30)
<1>5. tile = [p \in 1 .. n |-> IF p <= Plan[l].cout THEN BiasFile(l, r)[p] ELSE Zero]
  BY DEF build_bias_tile
<1> HIDE DEF n, q, tile
<1>6. Len(tile) = n
  <2>1. tile = [p \in 1 .. n |-> tile[p]]
    BY <1>5
  <2> QED BY <2>1, <1>2, ListOf
<1>7. /\ DOMAIN BiasPayload(l, r) = 1 .. s.tile_count * n
      /\ t * n + q + 1 \in 1 .. s.tile_count * n
      /\ BiasPayload(l, r)[t * n + q + 1] = tile[q + 1]
  <2> DEFINE times == s.tile_count
  <2>1. times \in Nat /\ t \in 0 .. times - 1
    BY <1>1
  <2>2. BiasPayload(l, r) = Repeated(tile, times)
    BY DEF BiasPayload, tile
  <2> HIDE DEF times
  <2>3. /\ DOMAIN Repeated(tile, times) = 1 .. times * n
        /\ t * n + q + 1 \in 1 .. times * n
        /\ Repeated(tile, times)[t * n + q + 1] = tile[q + 1]
    <3>1. /\ DOMAIN Repeated(tile, times) = 1 .. times * n
          /\ \A t_ \in 0 .. times - 1, q_ \in 0 .. n - 1 :
               /\ t_ * n + q_ + 1 \in 1 .. times * n
               /\ Repeated(tile, times)[t_ * n + q_ + 1] = tile[q_ + 1]
      BY <1>2, <1>6, <2>1, RepeatedIs
    <3> QED BY <1>3, <2>1, <3>1
  <2> QED BY <2>2, <2>3 DEF times
<1>8. tile[q + 1] = FedBias(l, r, q)
  <2>1. tile[q + 1] = IF q + 1 <= Plan[l].cout THEN BiasFile(l, r)[q + 1] ELSE Zero
    BY <1>2, <1>3, <1>5
  <2>2. q + 1 <= Plan[l].cout <=> q < Plan[l].cout
    BY <1>1, <1>2, <1>3
  <2>3. q < Plan[l].cout => BiasFile(l, r)[q + 1] = Cell(l, r, q, 0, 15)
    <3>1. ASSUME q < Plan[l].cout PROVE q + 1 \in 1 .. Plan[l].cout /\ (q + 1) - 1 = q
      BY <1>1, <1>2, <1>3, <3>1
    <3> QED BY <3>1 DEF BiasFile
  <2> QED BY <2>1, <2>2, <2>3 DEF FedBias
<1> QED BY <1>4, <1>7, <1>8 DEF q

\* A lane's weight of one row of a pass.
LEMMA WeightFed ==
  ASSUME NEW l \in Layers, plan_ok(Plan), NEW r \in Revisions,
         NEW t \in 0 .. Schedule(Plan[l]).tile_count - 1,
         NEW block \in 0 .. Schedule(Plan[l]).cout_blocks - 1, NEW lane \in 0 .. Limits.cout_tile - 1,
         NEW k_pass \in 0 .. Schedule(Plan[l]).k_passes - 1, NEW row \in 0 .. Limits.rows - 1
  PROVE  LET s  == Schedule(Plan[l])
             at == (((t * s.cout_blocks + block) * s.k_passes + k_pass) * Limits.rows + row)
                     * Limits.cout_tile + lane + 1
         IN  /\ at \in DOMAIN WeightPayload(l, r) /\ at \in Nat
             /\ WeightPayload(l, r)[at] = FedWeight(l, r, block, k_pass, row, lane)
<1> DEFINE s == Schedule(Plan[l])
           n == s.cout_blocks * s.k_passes * WEIGHT_PACKET_BYTES
           q == ((block * s.k_passes + k_pass) * Limits.rows + row) * Limits.cout_tile + lane
           tile == build_weight_tile(WeightFile(l, r), l)
           gk == k_pass * Limits.rows + row
           co == block * Limits.cout_tile + lane
           area == Area(l)
           cin == Plan[l].cin
           cout == Plan[l].cout
<1>1. /\ cin \in Nat \ {0} /\ cout \in Nat \ {0} /\ area \in Nat \ {0}
      /\ s.tile_count \in Nat /\ s.cout_blocks \in Nat \ {0} /\ s.k_passes \in Nat \ {0}
      /\ s.k_total = cin * area
      /\ Limits.rows \in Nat \ {0} /\ Limits.cout_tile \in Nat \ {0}
      /\ WEIGHT_PACKET_BYTES = Limits.rows * Limits.cout_tile /\ WEIGHT_PACKET_BYTES \in Nat \ {0}
  BY LayerNumbers
<1>2. n \in Nat \ {0}
  BY <1>1, SMTT(30)
<1>3. /\ q \in 0 .. n - 1
      /\ q % Limits.cout_tile = lane /\ (q \div Limits.cout_tile) % Limits.rows = row
      /\ (q \div WEIGHT_PACKET_BYTES) % s.k_passes = k_pass
      /\ q \div (WEIGHT_PACKET_BYTES * s.k_passes) = block
  <2> DEFINE cb == s.cout_blocks
             kp == s.k_passes
             rows == Limits.rows
             ct == Limits.cout_tile
             packet == WEIGHT_PACKET_BYTES
  <2>1. /\ cb \in Nat \ {0} /\ kp \in Nat \ {0} /\ rows \in Nat \ {0} /\ ct \in Nat \ {0}
        /\ block \in 0 .. cb - 1 /\ k_pass \in 0 .. kp - 1 /\ row \in 0 .. rows - 1 /\ lane \in 0 .. ct - 1
        /\ packet = rows * ct /\ q = ((block * kp + k_pass) * rows + row) * ct + lane /\ n = cb * kp * packet
    BY <1>1
  <2> HIDE DEF cb, kp, rows, ct, packet, q, n
  <2> DEFINE a == block * kp + k_pass
             b == a * rows + row
             c == row * ct + lane
             d == k_pass * packet + c
             m == cb * kp
  <2>2. /\ a \in 0 .. m - 1 /\ a \in Nat /\ a % kp = k_pass /\ m \in Nat
    <3>1. cb \in Nat /\ kp \in Nat \ {0} /\ block \in 0 .. cb - 1 /\ block \in Nat /\ k_pass \in 0 .. kp - 1
      BY <2>1
    <3>2. a \in 0 .. cb * kp - 1
      BY <3>1, Place
    <3>3. a \in Nat /\ a % kp = k_pass
      BY <3>1, Digits
    <3>4. cb * kp \in Nat
      BY <3>1, SMTT(30)
    <3> QED BY <3>2, <3>3, <3>4
  <2>3. packet \in Nat \ {0} /\ c \in 0 .. packet - 1
    <3>1. rows \in Nat \ {0} /\ ct \in Nat \ {0} /\ row \in 0 .. rows - 1 /\ lane \in 0 .. ct - 1 /\ packet = rows * ct
      BY <2>1
    <3> QED BY <3>1, Place, SMTT(30)
  <2> HIDE DEF a, m
  <2>4. b \in Nat /\ b % rows = row
    <3>1. rows \in Nat \ {0} /\ row \in 0 .. rows - 1
      BY <2>1
    <3> QED BY <2>2, <3>1, Digits
  <2>5. q = b * ct + lane
    BY <2>1 DEF a
  <2> HIDE DEF b
  <2>6. q % ct = lane /\ q \div ct = b
    <3>1. ct \in Nat \ {0} /\ lane \in 0 .. ct - 1
      BY <2>1
    <3> QED BY <2>4, <2>5, <3>1, Digits
  <2>7. q = a * packet + c
    <3>1. /\ rows \in Nat /\ ct \in Nat /\ row \in Nat /\ lane \in Nat /\ packet = rows * ct
      BY <2>1
    <3>2. (a * rows + row) * ct = a * (rows * ct) + row * ct
      BY <2>2, <3>1, SMTT(30)
    <3> QED BY <3>1, <3>2, <2>2, <2>5, SMTT(30) DEF b
  <2> HIDE DEF c
  <2>8. q \div packet = a /\ q \in 0 .. m * packet - 1
    <3>1. q \div packet = a
      BY <2>2, <2>3, <2>7, Digits
    <3>2. q \in 0 .. m * packet - 1
      BY <2>2, <2>3, <2>7, Place
    <3> QED BY <3>1, <3>2
  <2>9. d \in 0 .. kp * packet - 1
    <3>1. kp \in Nat /\ k_pass \in 0 .. kp - 1
      BY <2>1
    <3> QED BY <3>1, <2>3, Place
  <2>10. kp * packet \in Nat \ {0} /\ kp * packet = packet * kp /\ kp \in Nat /\ block \in Nat
    <3>1. kp \in Nat \ {0} /\ block \in Nat
      BY <2>1
    <3> QED BY <3>1, <2>3, SMTT(30)
  <2>11. q = block * (kp * packet) + d
    <3>1. block \in Nat /\ kp \in Nat /\ k_pass \in Nat
      BY <2>1
    <3>2. (block * kp + k_pass) * packet = block * (kp * packet) + k_pass * packet
      BY <2>3, <3>1, SMTT(30)
    <3> QED BY <3>1, <3>2, <2>3, <2>7, SMTT(30) DEF a
  <2> HIDE DEF d
  <2>12. q \div (kp * packet) = block
    <3> DEFINE w == kp * packet
    <3>1. w \in Nat \ {0} /\ block \in Nat /\ d \in 0 .. w - 1 /\ q = block * w + d
      BY <2>9, <2>10, <2>11
    <3> HIDE DEF w
    <3>2. q \div w = block
      BY <3>1, Digits
    <3> QED BY <3>2 DEF w
  <2>13. q \in 0 .. n - 1
    BY <2>1, <2>8 DEF m
  <2> QED BY <2>2, <2>4, <2>6, <2>8, <2>10, <2>12, <2>13 DEF cb, kp, rows, ct, packet
<1>4. (((t * s.cout_blocks + block) * s.k_passes + k_pass) * Limits.rows + row)
        * Limits.cout_tile + lane = t * n + q
  <2> DEFINE kp == s.k_passes
             cb == s.cout_blocks
             rows == Limits.rows
             ct == Limits.cout_tile
  <2>1. /\ kp \in Nat /\ cb \in Nat /\ rows \in Nat /\ ct \in Nat /\ t \in Nat /\ block \in Nat
        /\ k_pass \in Nat /\ row \in Nat /\ lane \in Nat
    BY <1>1
  <2>2. n = cb * kp * (rows * ct) /\ q = ((block * kp + k_pass) * rows + row) * ct + lane
    BY <1>1
  <2> HIDE DEF kp, cb, rows, ct, n, q
  <2>3. (t * cb + block) * kp + k_pass = t * (cb * kp) + (block * kp + k_pass)
    BY <2>1, SMTT(30)
  <2> DEFINE u == cb * kp
             v == block * kp + k_pass
  <2>4. u \in Nat /\ v \in Nat
    BY <2>1, SMTT(30)
  <2> HIDE DEF u, v
  <2>5. (t * u + v) * rows + row = t * (u * rows) + (v * rows + row)
    BY <2>1, <2>4, SMTT(30)
  <2>6. ((t * u + v) * rows + row) * ct + lane = t * (u * (rows * ct)) + ((v * rows + row) * ct + lane)
    <3> DEFINE x == u * rows
               y == v * rows + row
    <3>1. x \in Nat /\ y \in Nat
      BY <2>1, <2>4, SMTT(30)
    <3>2. u * (rows * ct) = x * ct
      BY <2>1, <2>4, SMTT(30)
    <3> HIDE DEF x, y
    <3>3. (t * x + y) * ct + lane = t * (x * ct) + (y * ct + lane)
      BY <2>1, <3>1, SMTT(30)
    <3> QED BY <2>5, <3>2, <3>3 DEF x, y
  <2>7. cb * kp * (rows * ct) = u * (rows * ct)
    BY DEF u
  <2> QED BY <2>2, <2>3, <2>6, <2>7 DEF u, v, kp, cb, rows, ct
<1>5. tile = [p \in 1 .. n |->
         LET lane_ == (p - 1) % Limits.cout_tile
             row_ == ((p - 1) \div Limits.cout_tile) % Limits.rows
             k_pass_ == ((p - 1) \div WEIGHT_PACKET_BYTES) % s.k_passes
             block_ == (p - 1) \div (WEIGHT_PACKET_BYTES * s.k_passes)
             global_k == k_pass_ * Limits.rows + row_
             channel_out == block_ * Limits.cout_tile + lane_
         IN  IF global_k < s.k_total /\ channel_out < cout
             THEN WeightFile(l, r)[(channel_out * cin + global_k \div area) * area + (global_k % area) + 1]
             ELSE Zero]
  BY DEF build_weight_tile
<1>6. tile[q + 1] = IF gk < s.k_total /\ co < cout
                    THEN WeightFile(l, r)[(co * cin + gk \div area) * area + (gk % area) + 1]
                    ELSE Zero
  <2> DEFINE Val(la, ro, k, bl) ==
               IF k * Limits.rows + ro < s.k_total /\ bl * Limits.cout_tile + la < cout
               THEN WeightFile(l, r)[((bl * Limits.cout_tile + la) * cin + (k * Limits.rows + ro) \div area) * area
                                       + ((k * Limits.rows + ro) % area) + 1]
               ELSE Zero
  <2>1. tile = [p \in 1 .. n |->
           Val((p - 1) % Limits.cout_tile, ((p - 1) \div Limits.cout_tile) % Limits.rows,
               ((p - 1) \div WEIGHT_PACKET_BYTES) % s.k_passes, (p - 1) \div (WEIGHT_PACKET_BYTES * s.k_passes))]
    BY <1>5
  <2>2. q + 1 \in 1 .. n /\ (q + 1) - 1 = q
    <3> HIDE DEF q, n
    <3> QED BY <1>2, <1>3
  <2> HIDE DEF Val, n, q
  <2>3. tile[q + 1] = Val(q % Limits.cout_tile, (q \div Limits.cout_tile) % Limits.rows,
                          (q \div WEIGHT_PACKET_BYTES) % s.k_passes, q \div (WEIGHT_PACKET_BYTES * s.k_passes))
    BY <2>1, <2>2, Zenon
  <2>4. tile[q + 1] = Val(lane, row, k_pass, block)
    BY <1>3, <2>3
  <2> QED BY <2>4 DEF Val
<1>7. ASSUME gk < s.k_total, co < cout
      PROVE  WeightFile(l, r)[(co * cin + gk \div area) * area + (gk % area) + 1]
               = Cell(l, r, co, gk \div area, gk % area)
  <2> DEFINE ci == gk \div area
             tap == gk % area
             i == (co * cin + ci) * area + tap
  <2>1. gk \in Nat /\ co \in Nat
    BY <1>1, SMTT(30)
  <2> HIDE DEF gk, co
  <2>2. ci \in Nat /\ tap \in 0 .. area - 1 /\ gk = area * ci + tap
    BY <1>1, <2>1, Division
  <2>3. ci < cin
    <3> HIDE DEF ci, tap, area, cin
    <3>1. ci \in Nat /\ tap \in Nat /\ area * ci <= gk
      BY <2>2, <1>1, SMTT(30)
    <3>2. gk < cin * area
      BY <1>1, <1>7
    <3>3. ci >= cin => cin * area <= area * ci
      BY <1>1, <3>1, SMTT(30)
    <3>4. cin * area \in Nat /\ area * ci \in Nat
      BY <1>1, <3>1, SMTT(30)
    <3> QED BY <1>1, <2>1, <3>1, <3>2, <3>3, <3>4
  <2> HIDE DEF ci, tap, area, cin, cout
  <2>4. /\ co * cin + ci \in 0 .. cout * cin - 1
        /\ (co * cin + ci) \div cin = co /\ (co * cin + ci) % cin = ci
    <3>1. co \in 0 .. cout - 1 /\ ci \in 0 .. cin - 1
      BY <1>1, <1>7, <2>1, <2>2, <2>3
    <3>2. cout \in Nat /\ cin \in Nat \ {0}
      BY <1>1
    <3>3. co * cin + ci \in 0 .. cout * cin - 1
      BY <3>1, <3>2, Place
    <3> QED BY <2>1, <3>1, <3>2, <3>3, Digits
  <2> DEFINE j == co * cin + ci
             m == cout * cin
  <2>5. m \in Nat /\ j \in 0 .. m - 1 /\ j \div cin = co /\ j % cin = ci
    BY <1>1, <2>4, SMTT(30)
  <2>6. i = j * area + tap
    OBVIOUS
  <2>7. /\ i \in 0 .. m * area - 1 /\ i \div area = j /\ i % area = tap
    <3> HIDE DEF j, m, i
    <3>1. area \in Nat \ {0} /\ m \in Nat /\ j \in 0 .. m - 1 /\ j \in Nat /\ tap \in 0 .. area - 1
      BY <1>1, <2>2, <2>5
    <3>2. j * area + tap \in 0 .. m * area - 1
      BY <3>1, Place
    <3>3. (j * area + tap) \div area = j /\ (j * area + tap) % area = tap
      BY <3>1, Digits
    <3> QED BY <2>6, <3>2, <3>3
  <2>8. i \div (cin * area) = co
    <3>1. i = co * (cin * area) + (ci * area + tap)
      <4>1. (co * cin + ci) * area = co * (cin * area) + ci * area
        BY <1>1, <2>1, <2>2, SMTT(30)
      <4> QED BY <4>1, <1>1, <2>1, <2>2, SMTT(30)
    <3>2. ci * area + tap \in 0 .. cin * area - 1
      BY <1>1, <2>2, <2>3, Place
    <3> DEFINE w == cin * area
               z == ci * area + tap
    <3>3. w \in Nat \ {0}
      BY <1>1, SMTT(30)
    <3> HIDE DEF w, z, i
    <3>4. i = co * w + z /\ z \in 0 .. w - 1
      BY <3>1, <3>2 DEF w, z
    <3>5. i \div w = co
      BY <2>1, <3>3, <3>4, Digits
    <3> QED BY <3>5 DEF w
  <2>9. WeightFile(l, r) = [p \in 1 .. cout * cin * area |->
           Cell(l, r, (p - 1) \div (cin * area), ((p - 1) \div area) % cin, (p - 1) % area)]
    BY DEF WeightFile, cout, cin, area
  <2>10. i + 1 \in 1 .. cout * cin * area /\ (i + 1) - 1 = i
    <3>1. m * area \in Nat
      BY <1>1, <2>5, SMTT(30)
    <3> DEFINE k == m * area
    <3>2. i + 1 \in 1 .. k /\ (i + 1) - 1 = i
      <4> HIDE DEF k, i
      <4>1. k \in Nat /\ i \in 0 .. k - 1
        BY <3>1, <2>7 DEF k
      <4> QED BY <4>1
    <3> QED BY <3>2
  <2> HIDE DEF i, j, m
  <2>11. WeightFile(l, r)[i + 1] = Cell(l, r, i \div (cin * area), (i \div area) % cin, i % area)
    <3> DEFINE F(p) == Cell(l, r, (p - 1) \div (cin * area), ((p - 1) \div area) % cin, (p - 1) % area)
    <3>1. WeightFile(l, r) = [p \in 1 .. cout * cin * area |-> F(p)]
      BY <2>9
    <3>2. F(i + 1) = Cell(l, r, i \div (cin * area), (i \div area) % cin, i % area)
      BY <2>10
    <3> HIDE DEF F
    <3> QED BY <2>10, <3>1, <3>2, Zenon
  <2>12. WeightFile(l, r)[i + 1] = Cell(l, r, co, ci, tap)
    BY <2>5, <2>7, <2>8, <2>11
  <2> QED BY <2>12 DEF i, ci, tap
<1>8. tile[q + 1] = FedWeight(l, r, block, k_pass, row, lane)
  <2>1. FedWeight(l, r, block, k_pass, row, lane) =
          IF gk < cin * area /\ co < cout THEN Cell(l, r, co, gk \div area, gk % area) ELSE Zero
    BY DEF FedWeight
  <2> QED BY <1>1, <1>6, <1>7, <2>1
<1>9. Len(tile) = n
  <2>1. tile = [p \in 1 .. n |-> tile[p]]
    BY <1>5
  <2> HIDE DEF n, tile
  <2> QED BY <2>1, <1>2, ListOf
<1> HIDE DEF n, q, tile
<1>10. /\ DOMAIN WeightPayload(l, r) = 1 .. s.tile_count * n
       /\ t * n + q + 1 \in 1 .. s.tile_count * n
       /\ WeightPayload(l, r)[t * n + q + 1] = tile[q + 1]
  <2> DEFINE times == s.tile_count
  <2>1. times \in Nat /\ t \in 0 .. times - 1
    BY <1>1
  <2>2. WeightPayload(l, r) = Repeated(tile, times)
    BY DEF WeightPayload, tile
  <2> HIDE DEF times
  <2>3. /\ DOMAIN Repeated(tile, times) = 1 .. times * n
        /\ \A t_ \in 0 .. times - 1, q_ \in 0 .. n - 1 :
             /\ t_ * n + q_ + 1 \in 1 .. times * n
             /\ Repeated(tile, times)[t_ * n + q_ + 1] = tile[q_ + 1]
    BY <1>2, <1>9, <2>1, RepeatedIs
  <2>4. /\ t * n + q + 1 \in 1 .. times * n
        /\ Repeated(tile, times)[t * n + q + 1] = tile[q + 1]
    BY <1>3, <2>1, <2>3
  <2> QED BY <2>2, <2>3, <2>4 DEF times
<1> QED BY <1>4, <1>8, <1>10

-----------------------------------------------------------------------------
(* The package on its way *)

\* The invariant: whatever says what a layer's sections hold, a manifest, a manifest
\* that was read or the entries packed so far, says it of cells of one revision each.

EntryFields == {"index", "identity", "schedule", "source", "quant", "provenance", "bias", "weight"}
SectionFields == {"offset", "bytes", "packets", "sha"}

\* An entry of a layer names payloads of one revision of each of its files, of the one
\* it names itself unless the file was replaced.
EntryGood(e, raced) ==
  /\ DOMAIN e = EntryFields /\ DOMAIN e.bias = SectionFields /\ DOMAIN e.weight = SectionFields
  /\ e.index \in Layers /\ e.bias.offset \in Int /\ e.weight.offset \in Int
  /\ \E rb, rw \in Revisions :
       /\ e.bias.sha = BiasPayload(e.index, rb) /\ e.weight.sha = WeightPayload(e.index, rw)
       /\ Declared(e.source, e.index, rb, rw, raced)

\* A list of such entries, and a manifest of them.
LayersGood(layers, raced) ==
  Listed(layers) /\ \A i \in 1 .. Len(layers) : EntryGood(layers[i], raced)

ManifestGood(m) ==
  /\ plan_ok(Plan)
  /\ DOMAIN m = {"header", "files", "provenance", "layers", "raced"}
  /\ LayersGood(m.layers, m.raced)

Written(m) == m \notin {NoFile, Unfinished}

\* The model root's files have a revision, or none.
ModelGood ==
  /\ DOMAIN model = {"canonical", "local", "files"}
  /\ model.files \in [Layers -> [Kinds -> Revisions \cup {NoFile, Unfinished}]]

\* While the files are packed they are those whose digests were checked, unless they
\* were replaced.
GenGood ==
  /\ DOMAIN gen = {"pc", "sources", "layers", "bias", "weight", "raced"}
  /\ gen.pc = "pack" =>
       \A l \in Layers, kind \in Kinds :
          l > Len(gen.layers) => gen.sources[l][kind] = model.files[l][kind] \/ <<l, kind>> \in gen.raced
  /\ gen.pc \in {"pack", "bias", "weight", "manifest"} =>
       plan_ok(Plan) /\ LayersGood(gen.layers, gen.raced) /\ Listed(gen.bias) /\ Listed(gen.weight)

\* What the reader accepted is what verify_package says of what it holds.
VerGood ==
  /\ DOMAIN ver = {"pc", "manifest", "bias", "weight", "accepted"}
  /\ ver.pc \in {"idle", "bias", "weight", "done"}
  /\ Written(ver.manifest) => ManifestGood(ver.manifest)
  /\ ver.accepted => ver.pc = "done" /\ verify_package(ver.manifest, ver.bias, ver.weight)

PackageInv ==
  /\ ModelGood /\ GenGood /\ VerGood
  /\ DOMAIN written = {"manifest", "bias", "weight"}
  /\ Written(written.manifest) => ManifestGood(written.manifest)

\* The array finds one layer's cells where the manifest says.
FedRight(m, bias, weight, l) ==
  \E rb, rw \in Revisions : /\ Feeds(m, bias, weight, l, rb, rw)
                            /\ Declared(m.layers[l].source, l, rb, rw, m.raced)

\* What is accepted feeds the array.
LEMMA AcceptedFeeds ==
  ASSUME NEW m, NEW bias, NEW weight, ManifestGood(m), verify_package(m, bias, weight), NEW l \in Layers
  PROVE  FedRight(m, bias, weight, l)
<1> DEFINE e == m.layers[l]
           s == Schedule(Plan[l])
<1>1. plan_ok(Plan) /\ l \in 1 .. Len(m.layers)
  <2>1. Len(m.layers) = Len(Plan)
    BY DEF verify_package
  <2>2. Layers = 1 .. Len(Plan)
    BY PackageAssumption, LenProperties DEF Layers
  <2> QED BY <2>1, <2>2 DEF ManifestGood
<1>2. /\ e.index = l
      /\ e.bias.sha = Section(bias, "bias", e.bias) /\ e.weight.sha = Section(weight, "weight", e.weight)
  BY DEF verify_package, EntryVerified, SectionVerified
<1>3. EntryGood(e, m.raced)
  BY <1>1 DEF ManifestGood, LayersGood
<1> HIDE DEF e
<1>4. PICK rb \in Revisions, rw \in Revisions :
        /\ e.bias.sha = BiasPayload(l, rb) /\ e.weight.sha = WeightPayload(l, rw)
        /\ Declared(e.source, l, rb, rw, m.raced)
  BY <1>2, <1>3 DEF EntryGood
<1>5. e.bias.offset \in Int /\ e.weight.offset \in Int
  BY <1>3 DEF EntryGood
<1> DEFINE b0 == e.bias.offset \div 4
           w0 == e.weight.offset
           bs == BiasPayload(l, rb)
           wt == WeightPayload(l, rw)
<1>9. e.bias.bytes \in Int /\ e.weight.bytes \in Int
  <2>1. e.bias.bytes = s.bias_bytes /\ e.weight.bytes = s.weight_bytes
    BY DEF verify_package, SectionVerified, e
  <2>2. /\ s.tile_count \in Nat /\ s.cout_blocks \in Nat /\ s.k_passes \in Nat
        /\ s.bias_bytes = s.tile_count * s.cout_blocks * BIAS_PACKET_BYTES
        /\ s.weight_bytes = s.tile_count * s.cout_blocks * s.k_passes * WEIGHT_PACKET_BYTES
        /\ BIAS_PACKET_BYTES \in Nat /\ WEIGHT_PACKET_BYTES \in Nat
    BY <1>1, LayerNumbers DEF BIAS_PACKET_BYTES
  <2> HIDE DEF s
  <2>3. s.tile_count * s.cout_blocks * BIAS_PACKET_BYTES \in Int
    BY <2>2, SMTT(30)
  <2>4. s.tile_count * s.cout_blocks * s.k_passes * WEIGHT_PACKET_BYTES \in Int
    BY <2>2, SMTT(30)
  <2> QED BY <2>1, <2>2, <2>3, <2>4
<1>6. ASSUME NEW p \in DOMAIN bs, p \in Nat
      PROVE  bias[b0 + p] = bs[p]
  <2> DEFINE to == (e.bias.offset + e.bias.bytes) \div 4
  <2>1. bs = SubSeq(bias, b0 + 1, to)
    BY <1>2, <1>4 DEF Section, Unit
  <2>2. b0 \in Int /\ to \in Int
    BY <1>5, <1>9
  <2> HIDE DEF b0, bs, to
  <2>3. bs = [i \in 1 .. 1 + to - (b0 + 1) |-> bias[i + (b0 + 1) - 1]]
    BY <2>1, <2>2
  <2>4. bs[p] = bias[p + (b0 + 1) - 1]
    BY <1>6, <2>3, Zenon
  <2>5. p + (b0 + 1) - 1 = b0 + p
    BY <1>6, <2>2
  <2> QED BY <2>4, <2>5
<1>7. ASSUME NEW p \in DOMAIN wt, p \in Nat
      PROVE  weight[w0 + p] = wt[p]
  <2> DEFINE from == e.weight.offset \div 1 + 1
             to == (e.weight.offset + e.weight.bytes) \div 1
  <2>1. wt = SubSeq(weight, from, to)
    BY <1>2, <1>4 DEF Section, Unit
  <2>2. w0 \in Int /\ from = w0 + 1 /\ to \in Int
    BY <1>5, <1>9
  <2> HIDE DEF w0, wt, to, from
  <2>3. wt = [i \in 1 .. 1 + to - from |-> weight[i + from - 1]]
    BY <2>1, <2>2
  <2>4. wt[p] = weight[p + from - 1]
    BY <1>7, <2>3, Zenon
  <2>5. p + from - 1 = w0 + p
    BY <1>7, <2>2
  <2> QED BY <2>4, <2>5
<1> HIDE DEF b0, w0, bs, wt
<1>8. Feeds(m, bias, weight, l, rb, rw)
  <2> SUFFICES ASSUME NEW t \in 0 .. s.tile_count - 1, NEW block \in 0 .. s.cout_blocks - 1,
                      NEW lane \in 0 .. Limits.cout_tile - 1
               PROVE  /\ bias[b0 + t * s.cout_blocks * Limits.cout_tile + (block * Limits.cout_tile + lane) + 1]
                           = FedBias(l, rb, block * Limits.cout_tile + lane)
                      /\ \A k_pass \in 0 .. s.k_passes - 1, row \in 0 .. Limits.rows - 1 :
                           weight[w0 + (((t * s.cout_blocks + block) * s.k_passes + k_pass) * Limits.rows + row)
                                         * Limits.cout_tile + lane + 1]
                             = FedWeight(l, rw, block, k_pass, row, lane)
    BY DEF Feeds, e, b0, w0
  <2>1. bias[b0 + t * s.cout_blocks * Limits.cout_tile + (block * Limits.cout_tile + lane) + 1]
          = FedBias(l, rb, block * Limits.cout_tile + lane)
    <3> DEFINE u == t * s.cout_blocks * Limits.cout_tile
               v == block * Limits.cout_tile + lane
               at == u + v + 1
    <3>1. at \in DOMAIN bs /\ at \in Nat /\ bs[at] = FedBias(l, rb, v)
      BY <1>1, BiasFed DEF bs
    <3>2. u \in Int /\ v \in Int /\ b0 \in Int
      <4>1. s.cout_blocks \in Nat /\ Limits.cout_tile \in Nat /\ t \in Nat /\ block \in Nat /\ lane \in Nat
        BY <1>1, LayerNumbers
      <4>2. u \in Int /\ v \in Int
        BY <4>1, SMTT(30)
      <4> QED BY <4>2, <1>5 DEF b0
    <3> HIDE DEF u, v
    <3>3. b0 + u + v + 1 = b0 + at
      BY <3>2
    <3> HIDE DEF at
    <3>4. bias[b0 + at] = bs[at]
      BY <1>6, <3>1
    <3>5. bias[b0 + u + v + 1] = FedBias(l, rb, v)
      BY <3>1, <3>3, <3>4
    <3> QED BY <3>5 DEF u, v
  <2>2. ASSUME NEW k_pass \in 0 .. s.k_passes - 1, NEW row \in 0 .. Limits.rows - 1
        PROVE  weight[w0 + (((t * s.cout_blocks + block) * s.k_passes + k_pass) * Limits.rows + row)
                            * Limits.cout_tile + lane + 1]
                 = FedWeight(l, rw, block, k_pass, row, lane)
    <3> DEFINE u == (((t * s.cout_blocks + block) * s.k_passes + k_pass) * Limits.rows + row) * Limits.cout_tile
               at == u + lane + 1
    <3>1. at \in DOMAIN wt /\ at \in Nat /\ wt[at] = FedWeight(l, rw, block, k_pass, row, lane)
      BY <1>1, WeightFed DEF wt
    <3>2. u \in Int /\ lane \in Int /\ w0 \in Int
      <4>1. /\ s.cout_blocks \in Nat /\ s.k_passes \in Nat /\ Limits.rows \in Nat /\ Limits.cout_tile \in Nat
            /\ t \in Nat /\ block \in Nat /\ lane \in Nat /\ k_pass \in Nat /\ row \in Nat
        BY <1>1, LayerNumbers
      <4>2. u \in Int
        BY <4>1, SMTT(30)
      <4> QED BY <4>1, <4>2, <1>5 DEF w0
    <3> HIDE DEF u
    <3>3. w0 + u + lane + 1 = w0 + at
      BY <3>2
    <3> HIDE DEF at
    <3>4. weight[w0 + at] = wt[at]
      BY <1>7, <3>1
    <3>5. weight[w0 + u + lane + 1] = FedWeight(l, rw, block, k_pass, row, lane)
      BY <3>1, <3>3, <3>4
    <3> QED BY <3>5 DEF u
  <2> QED BY <2>1, <2>2
<1> QED BY <1>4, <1>8 DEF e, FedRight

\* Nothing is written, packed or read at first.
LEMMA PackageStarts == PackageInit => PackageInv
<1> SUFFICES ASSUME PackageInit PROVE PackageInv
  OBVIOUS
<1>1. model \in Trees
  BY DEF PackageInit
<1>2. ModelGood
  BY <1>1, PackageAssumption DEF ModelGood
<1>3. GenGood /\ VerGood
  BY DEF PackageInit, GenGood, VerGood, NoGen, NoRead, Written
<1> QED BY <1>2, <1>3 DEF PackageInit, PackageInv, Written

\* A layer's manifest that is loaded declares the files that are there.
LEMMA LoadedDeclares ==
  ASSUME LoadOk, NEW l \in Layers, NEW kind \in Kinds
  PROVE  Loaded[l][kind] = model.files[l][kind]
<1>1. CASE model.canonical # <<>>
  <2>1. CanonicalLayerOk(model.canonical[l], l)
    BY <1>1 DEF LoadOk
  <2>2. Loaded[l] = model.canonical[l]
    BY <1>1 DEF Loaded
  <2> QED BY <2>1, <2>2 DEF CanonicalLayerOk, FileOk, Kinds
<1>2. CASE model.canonical = <<>>
  <2> DEFINE Names(i) == model.local[i].identity.layer_id = Plan[l].layer_id
             c == CHOOSE i \in Layers : Names(i)
  <2>1. PICK i \in Layers : Names(i) /\ LayerManifestOk(model.local[i], l)
    BY <1>2 DEF LoadOk
  <2>2. c \in Layers /\ Names(c)
    BY <2>1
  <2>3. \A j, k \in Layers : j # k => model.local[j].identity.layer_id # model.local[k].identity.layer_id
    BY <1>2 DEF LoadOk
  <2>4. Loaded[l] = model.local[c]
    BY <1>2 DEF Loaded
  <2> HIDE DEF c
  <2>5. c = i
    BY <2>1, <2>2, <2>3
  <2> QED BY <2>1, <2>4, <2>5 DEF LayerManifestOk, FileOk, Kinds
<1> QED BY <1>1, <1>2

\* The generator begins with manifests whose digests are those of the files.
LEMMA LoadKeeps ==
  ASSUME PackageInv, Load
  PROVE  PackageInv'
<1>1. CASE LoadOk
  <2>1. /\ gen' = [NoGen EXCEPT !.pc = "pack", !.sources = Loaded] /\ plan_ok(Plan)
        /\ UNCHANGED <<model, written, ver>>
    BY <1>1 DEF Load
  <2>2. /\ DOMAIN gen' = DOMAIN NoGen /\ gen'.pc = "pack" /\ gen'.sources = Loaded
        /\ gen'.layers = <<>> /\ gen'.bias = <<>> /\ gen'.weight = <<>> /\ gen'.raced = {}
    BY <2>1 DEF NoGen
  <2>3. \A l \in Layers : \A kind \in Kinds : Loaded[l][kind] = model.files[l][kind]
    BY <1>1, LoadedDeclares
  <2>4. LayersGood(<<>>, {}) /\ Listed(<<>>)
    BY EmptyList DEF LayersGood
  <2>5. GenGood'
    BY <2>1, <2>2, <2>3, <2>4 DEF GenGood, NoGen
  <2> QED BY <2>1, <2>5 DEF PackageInv, ModelGood, VerGood
<1>2. CASE ~LoadOk
  <2>1. gen' = NoGen /\ UNCHANGED <<model, written, ver>>
    BY <1>2 DEF Load, Fails
  <2> QED BY <2>1 DEF PackageInv, ModelGood, VerGood, GenGood, NoGen
<1> QED BY <1>1, <1>2

\* What a step of the generator that leaves the model and its files alone has to keep.
LEMMA GenKeeps ==
  ASSUME PackageInv, UNCHANGED <<model, written, ver>>, GenGood'
  PROVE  PackageInv'
  BY DEF PackageInv, ModelGood, VerGood

\* A generator that stopped says nothing.
LEMMA NoGenGood == ASSUME gen' = NoGen PROVE GenGood'
  BY DEF GenGood, NoGen

\* A layer more: its sections are cells of the revisions its files have now.
LEMMA PackLayerKeeps ==
  ASSUME PackageInv, PackLayer
  PROVE  PackageInv'
<1> DEFINE l == Len(gen.layers) + 1
           s == Schedule(Plan[l])
           now == model.files[l]
           bias == Repeated(build_bias_tile(BiasFile(l, now.bias), l), s.tile_count)
           weight == Repeated(build_weight_tile(WeightFile(l, now.weight), l), s.tile_count)
           e == [index |-> l, identity |-> Plan[l], schedule |-> s,
                 source |-> [bias |-> gen.sources[l].bias, weight |-> gen.sources[l].weight],
                 quant |-> gen.sources[l].quant, provenance |-> gen.sources[l].provenance,
                 bias |-> SectionEntry(gen.bias, "bias", bias, s.bias_packets),
                 weight |-> SectionEntry(gen.weight, "weight", weight, s.weight_packets)]
<1>1. CASE gen' = NoGen /\ UNCHANGED written
  BY <1>1, GenKeeps, NoGenGood DEF PackLayer
<1>2. ASSUME {now.bias, now.weight} \cap {NoFile, Unfinished} = {}, UNCHANGED written,
             gen' = [gen EXCEPT !.layers = Append(@, e), !.bias = AddSection(@, "bias", bias),
                                !.weight = AddSection(@, "weight", weight)]
      PROVE  PackageInv'
  <2>1. /\ plan_ok(Plan) /\ LayersGood(gen.layers, gen.raced) /\ Listed(gen.bias) /\ Listed(gen.weight)
        /\ gen.pc = "pack"
        /\ \A k \in Layers, kind \in Kinds :
             k > Len(gen.layers) => gen.sources[k][kind] = model.files[k][kind] \/ <<k, kind>> \in gen.raced
        /\ UNCHANGED <<model, ver>>
    BY DEF PackageInv, GenGood, PackLayer
  <2>2. l \in Layers /\ l > Len(gen.layers)
    <3>1. Len(gen.layers) \in Nat /\ Len(gen.layers) < Len(Plan) /\ Len(Plan) \in Nat
      BY <2>1, PackageAssumption, LenProperties DEF LayersGood, Listed, PackLayer
    <3>2. Layers = 1 .. Len(Plan)
      BY PackageAssumption, LenProperties DEF Layers
    <3> QED BY <3>1, <3>2
  <2> HIDE DEF l
  <2>3. now.bias \in Revisions /\ now.weight \in Revisions
    <3>1. model.files[l] \in [Kinds -> Revisions \cup {NoFile, Unfinished}]
      BY <2>2 DEF PackageInv, ModelGood
    <3>2. /\ model.files[l].bias \in Revisions \cup {NoFile, Unfinished}
          /\ model.files[l].weight \in Revisions \cup {NoFile, Unfinished}
      BY <3>1 DEF Kinds
    <3> QED BY <1>2, <3>2
  <2>4. bias = BiasPayload(l, now.bias) /\ weight = WeightPayload(l, now.weight)
    BY DEF BiasPayload, WeightPayload
  <2>5. /\ Offset(gen.bias, "bias") \in Nat /\ Listed(AddSection(gen.bias, "bias", bias))
        /\ Offset(gen.weight, "weight") \in Nat /\ Listed(AddSection(gen.weight, "weight", weight))
    <3>1. Listed(gen.bias) /\ Listed(gen.weight) /\ "bias" \in Kinds /\ "weight" \in Kinds
      BY <2>1 DEF Kinds
    <3>2. Listed(bias) /\ Listed(weight)
      BY <2>1, <2>2, <2>4, PayloadsListed
    <3> HIDE DEF bias, weight
    <3> QED BY <3>1, <3>2, SectionAdded
  <2>6. Declared(e.source, l, now.bias, now.weight, gen.raced)
    <3>1. /\ gen.sources[l].bias = now.bias \/ <<l, "bias">> \in gen.raced
          /\ gen.sources[l].weight = now.weight \/ <<l, "weight">> \in gen.raced
      BY <2>1, <2>2 DEF Kinds
    <3>2. e.source.bias = gen.sources[l].bias /\ e.source.weight = gen.sources[l].weight
      OBVIOUS
    <3> HIDE DEF e, now
    <3> QED BY <3>1, <3>2 DEF Declared
  <2>7. EntryGood(e, gen.raced)
    <3>1. /\ DOMAIN e = EntryFields /\ DOMAIN e.bias = SectionFields /\ DOMAIN e.weight = SectionFields
          /\ e.index = l /\ e.bias.offset = Offset(gen.bias, "bias")
          /\ e.weight.offset = Offset(gen.weight, "weight")
          /\ e.bias.sha = bias /\ e.weight.sha = weight
      BY DEF EntryFields, SectionFields, SectionEntry
    <3> HIDE DEF e, bias, weight, now
    <3> QED BY <3>1, <2>2, <2>3, <2>4, <2>5, <2>6 DEF EntryGood
  <2> HIDE DEF e, bias, weight
  <2>8. /\ LayersGood(Append(gen.layers, e), gen.raced)
        /\ \A k \in Layers : k > Len(Append(gen.layers, e)) => k > Len(gen.layers)
    <3>1. Listed(gen.layers) /\ \A i \in 1 .. Len(gen.layers) : EntryGood(gen.layers[i], gen.raced)
      BY <2>1 DEF LayersGood
    <3>2. /\ Listed(Append(gen.layers, e)) /\ Len(Append(gen.layers, e)) = Len(gen.layers) + 1
          /\ \A i \in 1 .. Len(gen.layers) : Append(gen.layers, e)[i] = gen.layers[i]
          /\ Append(gen.layers, e)[Len(gen.layers) + 1] = e
      BY <3>1, AppendList
    <3>3. Len(gen.layers) \in Nat
      BY <3>1 DEF Listed
    <3>4. Layers = 1 .. Len(Plan) /\ Len(Plan) \in Nat
      BY PackageAssumption, LenProperties DEF Layers
    <3>5. \A k \in Layers : k > Len(Append(gen.layers, e)) => k > Len(gen.layers)
      BY <3>2, <3>3, <3>4
    <3> QED BY <2>7, <3>1, <3>2, <3>3, <3>5 DEF LayersGood
  <2>9. /\ DOMAIN gen' = DOMAIN gen /\ gen'.pc = gen.pc /\ gen'.sources = gen.sources
        /\ gen'.raced = gen.raced /\ gen'.layers = Append(gen.layers, e)
        /\ gen'.bias = AddSection(gen.bias, "bias", bias) /\ gen'.weight = AddSection(gen.weight, "weight", weight)
    BY <1>2 DEF PackageInv, GenGood
  <2>10. GenGood'
    BY <2>1, <2>5, <2>8, <2>9 DEF PackageInv, GenGood
  <2> QED BY <1>2, <2>1, <2>10, GenKeeps
<1> QED BY <1>1, <1>2 DEF PackLayer, Fails

\* The totals are right, or the generator stops.
LEMMA PackedAllKeeps ==
  ASSUME PackageInv, PackedAll
  PROVE  PackageInv'
<1>1. CASE gen' = NoGen /\ UNCHANGED written
  BY <1>1, GenKeeps, NoGenGood DEF PackedAll
<1>2. CASE gen' = [gen EXCEPT !.pc = "bias"] /\ UNCHANGED written
  <2>1. /\ DOMAIN gen' = DOMAIN gen /\ gen'.pc = "bias" /\ gen'.raced = gen.raced /\ gen'.layers = gen.layers
        /\ gen'.bias = gen.bias /\ gen'.weight = gen.weight
    BY <1>2 DEF PackageInv, GenGood
  <2>2. GenGood'
    BY <2>1 DEF PackageInv, GenGood, PackedAll
  <2> QED BY <1>2, <2>2, GenKeeps DEF PackedAll
<1> QED BY <1>1, <1>2 DEF PackedAll, Fails

\* One write: its file is emptied, then filled; only the manifest's value matters.
LEMMA FileWriteKeeps ==
  ASSUME PackageInv, NEW field, NEW value, NEW next \in {"weight", "manifest", "verify"},
         field \in {"bias", "weight", "manifest"}, Write(field, value, next),
         field = "manifest" => value = Manifest
  PROVE  PackageInv'
<1>2. UNCHANGED <<model, ver>> /\ gen.pc = field
  BY DEF Write
<1>3. plan_ok(Plan) /\ LayersGood(gen.layers, gen.raced)
  BY <1>2 DEF PackageInv, GenGood
<1>4. CASE written' = [written EXCEPT ![field] = Unfinished] /\ UNCHANGED gen
  <2>1. DOMAIN written' = DOMAIN written
    BY <1>4 DEF PackageInv
  <2>2. written'.manifest \in {written.manifest, Unfinished}
    BY <1>4 DEF PackageInv
  <2> QED BY <1>2, <1>4, <2>1, <2>2 DEF PackageInv, ModelGood, GenGood, VerGood, Written
<1>5. CASE written' = [written EXCEPT ![field] = value] /\ gen' = [gen EXCEPT !.pc = next]
  <2>1. /\ DOMAIN gen' = DOMAIN gen /\ gen'.pc = next /\ gen'.raced = gen.raced /\ gen'.layers = gen.layers
        /\ gen'.bias = gen.bias /\ gen'.weight = gen.weight
    BY <1>5 DEF PackageInv, GenGood
  <2>2. GenGood'
    BY <1>2, <2>1 DEF PackageInv, GenGood
  <2>3. ManifestGood(Manifest)
    BY <1>3 DEF ManifestGood, Manifest
  <2>4. DOMAIN written' = DOMAIN written /\ written'.manifest \in {written.manifest, Manifest}
    BY <1>5 DEF PackageInv
  <2> QED BY <1>2, <2>2, <2>3, <2>4 DEF PackageInv, ModelGood, VerGood, Written
<1> QED BY <1>4, <1>5 DEF Write

\* The images, then the manifest.
LEMMA WriteFilesKeeps ==
  ASSUME PackageInv, WriteFiles
  PROVE  PackageInv'
<1>1. CASE Write("bias", gen.bias, "weight")
  BY <1>1, FileWriteKeeps
<1>2. CASE Write("weight", gen.weight, "manifest")
  BY <1>2, FileWriteKeeps
<1>3. CASE Write("manifest", Manifest, "verify")
  BY <1>3, FileWriteKeeps
<1> QED BY <1>1, <1>2, <1>3 DEF WriteFiles

\* The reader takes the manifest, the images, and judges them.
LEMMA ReadKeeps ==
  ASSUME PackageInv, Read
  PROVE  PackageInv'
<1>1. UNCHANGED <<model, written, gen>>
  BY DEF Read
<1>2. VerGood'
  <2>1. CASE ver.pc = "idle"
    <3>1. ver' = [NoRead EXCEPT !.pc = "bias", !.manifest = written.manifest]
      BY <2>1 DEF Read
    <3>2. /\ DOMAIN ver' = DOMAIN ver /\ ver'.pc = "bias" /\ ver'.manifest = written.manifest
          /\ ver'.accepted = FALSE
      BY <3>1 DEF NoRead, PackageInv, VerGood
    <3> QED BY <3>2 DEF PackageInv, VerGood
  <2>2. CASE ver.pc = "bias"
    <3>1. ver' = [ver EXCEPT !.pc = "weight", !.bias = written.bias]
      BY <2>2 DEF Read
    <3>2. /\ DOMAIN ver' = DOMAIN ver /\ ver'.pc = "weight" /\ ver'.manifest = ver.manifest
          /\ ver'.accepted = ver.accepted
      BY <3>1 DEF PackageInv, VerGood
    <3> QED BY <2>2, <3>2 DEF PackageInv, VerGood
  <2>3. CASE ver.pc = "weight"
    <3> DEFINE ok == verify_package(ver.manifest, ver.bias, written.weight)
    <3>1. ver' = [ver EXCEPT !.pc = "done", !.weight = written.weight, !.accepted = ok]
      BY <2>3 DEF Read
    <3> HIDE DEF ok
    <3>2. /\ DOMAIN ver' = DOMAIN ver /\ ver'.pc = "done" /\ ver'.manifest = ver.manifest
          /\ ver'.bias = ver.bias /\ ver'.weight = written.weight /\ ver'.accepted = ok
      BY <3>1 DEF PackageInv, VerGood
    <3>3. ver'.accepted => verify_package(ver'.manifest, ver'.bias, ver'.weight)
      BY <3>2 DEF ok
    <3> QED BY <3>2, <3>3 DEF PackageInv, VerGood
  <2>4. CASE ver.pc = "done"
    <3>1. ver' = NoRead
      BY <2>4 DEF Read
    <3> QED BY <3>1 DEF VerGood, NoRead, Written
  <2> QED BY <2>1, <2>2, <2>3, <2>4 DEF PackageInv, VerGood
<1> QED BY <1>1, <1>2 DEF PackageInv, ModelGood, GenGood

\* The exporter: what is packed meanwhile is marked.
LEMMA ExportKeeps ==
  ASSUME PackageInv, Export
  PROVE  PackageInv'
<1>1. /\ gen' = [gen EXCEPT !.raced = @ \cup Overtaken] /\ UNCHANGED <<written, ver>>
      /\ gen.pc \in {"idle", "pack"}
  BY Zenon DEF Export
<1>2. /\ DOMAIN gen' = DOMAIN gen /\ gen'.pc = gen.pc /\ gen'.layers = gen.layers
      /\ gen'.bias = gen.bias /\ gen'.weight = gen.weight
      /\ gen'.raced = gen.raced \cup Overtaken /\ gen'.sources = gen.sources
  BY <1>1 DEF PackageInv, GenGood
<1>3. LayersGood(gen.layers, gen.raced) => LayersGood(gen.layers, gen'.raced)
  BY <1>2 DEF LayersGood, EntryGood, Declared
<1>4. GenGood'
  <2>1. ASSUME gen.pc = "pack", NEW l \in Layers, NEW kind \in Kinds, l > Len(gen.layers)
        PROVE  gen.sources[l][kind] = model'.files[l][kind] \/ <<l, kind>> \in gen'.raced
    <3>1. gen.sources[l][kind] = model.files[l][kind] \/ <<l, kind>> \in gen.raced
      BY <2>1 DEF PackageInv, GenGood
    <3>2. model'.files[l][kind] # model.files[l][kind] => <<l, kind>> \in Overtaken
      BY <2>1 DEF Overtaken
    <3> QED BY <1>2, <3>1, <3>2
  <2> QED BY <1>1, <1>2, <1>3, <2>1 DEF PackageInv, GenGood
<1>5. NewFiles \in [Kinds -> Revisions]
  BY DEF NewFiles, Revisions
<1>6. ModelGood'
  <2>0. ModelGood
    BY DEF PackageInv
  <2>1. ASSUME NEW l \in Layers, NEW kind \in Kinds, NEW r \in {Unfinished, 2},
               model' = [model EXCEPT !.files[l][kind] = r]
        PROVE  ModelGood'
    <3>1. r \in Revisions \cup {NoFile, Unfinished}
      BY DEF Revisions
    <3>2. DOMAIN model' = DOMAIN model /\ model'.files = [model.files EXCEPT ![l] = [@ EXCEPT ![kind] = r]]
      BY <2>0, <2>1 DEF ModelGood
    <3> QED BY <2>0, <3>1, <3>2 DEF ModelGood
  <2>2. ASSUME NEW l \in Layers, NEW c, NEW d,
               model' = [model EXCEPT !.files[l] = NewFiles, !.canonical = c, !.local = d]
        PROVE  ModelGood'
    <3>1. DOMAIN model' = DOMAIN model /\ model'.files = [model.files EXCEPT ![l] = NewFiles]
      BY <2>0, <2>2 DEF ModelGood
    <3> QED BY <1>5, <2>0, <3>1 DEF ModelGood
  <2>3. ASSUME NEW c, model' = [files |-> [l \in Layers |-> NewFiles], local |-> <<>>, canonical |-> c]
        PROVE  ModelGood'
    BY <1>5, <2>3 DEF ModelGood
  <2> QED BY <2>1, <2>2, <2>3, Zenon DEF Export
<1> QED BY <1>1, <1>4, <1>6 DEF PackageInv, VerGood

\* The generator ends either way.
LEMMA SelfVerifyKeeps ==
  ASSUME PackageInv, SelfVerify
  PROVE  PackageInv'
<1>1. /\ gen'.pc \in {"idle", "failed"}
      /\ DOMAIN gen' = {"pc", "sources", "layers", "bias", "weight", "raced"}
  BY DEF SelfVerify, NoGen
<1>2. GenGood'
  BY <1>1 DEF GenGood
<1> QED BY <1>2, GenKeeps DEF SelfVerify

\* An entry is as good as one whose sections only moved.
LEMMA EntryMoved ==
  ASSUME NEW raced, NEW e, EntryGood(e, raced), NEW d,
         DOMAIN d = DOMAIN e, d.index = e.index, d.source = e.source,
         \A kind \in Kinds : DOMAIN d[kind] = DOMAIN e[kind] /\ d[kind].sha = e[kind].sha /\ d[kind].offset \in Int
  PROVE  EntryGood(d, raced)
<1>1. /\ DOMAIN d.bias = DOMAIN e.bias /\ d.bias.sha = e.bias.sha /\ d.bias.offset \in Int
      /\ DOMAIN d.weight = DOMAIN e.weight /\ d.weight.sha = e.weight.sha /\ d.weight.offset \in Int
  BY DEF Kinds
<1> QED BY <1>1 DEF EntryGood

\* One entry for another as good.
LEMMA LayersEdited ==
  ASSUME NEW raced, NEW layers, LayersGood(layers, raced), NEW j, NEW v,
         j \in 1 .. Len(layers) => EntryGood(v, raced)
  PROVE  LayersGood([layers EXCEPT ![j] = v], raced)
<1> DEFINE f == [layers EXCEPT ![j] = v]
<1>1. Listed(layers) /\ DOMAIN layers = 1 .. Len(layers) /\ Len(layers) \in Nat
  BY DEF LayersGood, Listed
<1>2. /\ f = [i \in 1 .. Len(layers) |-> f[i]]
      /\ \A i \in 1 .. Len(layers) : f[i] = IF i = j THEN v ELSE layers[i]
  BY <1>1
<1> HIDE DEF f
<1>3. Listed(f) /\ Len(f) = Len(layers)
  BY <1>1, <1>2, ListOf
<1>4. LayersGood(f, raced)
  BY <1>2, <1>3 DEF LayersGood
<1> QED BY <1>4 DEF f

\* Other entries as good.
LEMMA ManifestEdited ==
  ASSUME NEW m, ManifestGood(m), NEW layers, LayersGood(layers, m.raced)
  PROVE  ManifestGood([m EXCEPT !.layers = layers])
<1> DEFINE d == [m EXCEPT !.layers = layers]
<1>1. DOMAIN d = DOMAIN m /\ d.layers = layers /\ d.raced = m.raced
  BY DEF ManifestGood
<1> HIDE DEF d
<1>2. ManifestGood(d)
  BY <1>1 DEF ManifestGood
<1> QED BY <1>2 DEF d

\* A section of one layer with another offset, length or packet count.
LEMMA SectionEdited ==
  ASSUME NEW m, ManifestGood(m), NEW l, NEW kind \in Kinds, NEW section,
         l \in 1 .. Len(m.layers) => /\ DOMAIN section = DOMAIN m.layers[l][kind]
                                     /\ section.sha = m.layers[l][kind].sha /\ section.offset \in Int
  PROVE  ManifestGood([m EXCEPT !.layers = [m.layers EXCEPT ![l] = [m.layers[l] EXCEPT ![kind] = section]]])
<1> DEFINE e == m.layers[l]
           d == [e EXCEPT ![kind] = section]
           layers == [m.layers EXCEPT ![l] = d]
<1>1. ManifestGood(m) /\ LayersGood(m.layers, m.raced)
  BY DEF ManifestGood
<1>2. ASSUME l \in 1 .. Len(m.layers)
      PROVE  EntryGood(d, m.raced)
  <2>1. EntryGood(e, m.raced)
    BY <1>1, <1>2 DEF LayersGood
  <2>2. /\ DOMAIN section = DOMAIN e[kind] /\ section.sha = e[kind].sha /\ section.offset \in Int
    BY <1>2
  <2> HIDE DEF e
  <2>3. DOMAIN e = EntryFields /\ e.bias.offset \in Int /\ e.weight.offset \in Int
    BY <2>1 DEF EntryGood
  <2>4. /\ DOMAIN d = DOMAIN e /\ d.index = e.index /\ d.source = e.source
        /\ \A k \in Kinds : d[k] = IF k = kind THEN section ELSE e[k]
    BY <2>3 DEF EntryFields, Kinds
  <2> HIDE DEF d
  <2>5. \A k \in Kinds : e[k].offset \in Int
    BY <2>3 DEF Kinds
  <2>6. \A k \in Kinds : DOMAIN d[k] = DOMAIN e[k] /\ d[k].sha = e[k].sha /\ d[k].offset \in Int
    BY <2>2, <2>4, <2>5
  <2> QED BY <2>1, <2>4, <2>6, EntryMoved
<1> HIDE DEF d
<1>3. LayersGood(layers, m.raced)
  BY <1>1, <1>2, LayersEdited
<1> HIDE DEF layers
<1>4. ManifestGood([m EXCEPT !.layers = layers])
  BY <1>3, ManifestEdited
<1> QED BY <1>4 DEF layers, d, e

\* No damage makes an entry name other cells.
LEMMA DamagedGood ==
  ASSUME NEW m, ManifestGood(m), NEW d \in DamagedManifests(m)
  PROVE  ManifestGood(d)
<1> DEFINE l == Len(Plan)
<1>0. LayersGood(m.layers, m.raced) /\ Listed(m.layers) /\ Len(m.layers) \in Nat
  BY DEF ManifestGood, LayersGood, Listed
<1>1. ASSUME NEW kind \in Kinds, NEW section,
             l \in 1 .. Len(m.layers) =>
               \/ section = [m.layers[l][kind] EXCEPT !.offset = @ + Alignment]
               \/ section = [m.layers[l][kind] EXCEPT !.offset = @ - 4]
               \/ section = [m.layers[l][kind] EXCEPT !.bytes = @ - Alignment]
               \/ section = [m.layers[l][kind] EXCEPT !.packets = @ + 1]
      PROVE  ManifestGood([m EXCEPT !.layers = [m.layers EXCEPT ![l] = [m.layers[l] EXCEPT ![kind] = section]]])
  <2>1. ASSUME l \in 1 .. Len(m.layers)
        PROVE  /\ DOMAIN section = DOMAIN m.layers[l][kind]
               /\ section.sha = m.layers[l][kind].sha /\ section.offset \in Int
    <3> DEFINE old == m.layers[l][kind]
    <3>1. EntryGood(m.layers[l], m.raced)
      BY <1>0, <2>1 DEF LayersGood
    <3>2. DOMAIN old = SectionFields /\ old.offset \in Int
      BY <3>1 DEF EntryGood, Kinds
    <3>3. Alignment \in Int
      BY PackageAssumption
    <3>4. \/ section = [old EXCEPT !.offset = @ + Alignment]
          \/ section = [old EXCEPT !.offset = @ - 4]
          \/ section = [old EXCEPT !.bytes = @ - Alignment]
          \/ section = [old EXCEPT !.packets = @ + 1]
      BY <1>1, <2>1
    <3> HIDE DEF old, l
    <3>5. DOMAIN section = DOMAIN old /\ section.sha = old.sha /\ section.offset \in Int
      BY <3>2, <3>3, <3>4 DEF SectionFields
    <3> QED BY <3>5 DEF old
  <2> HIDE DEF l
  <2> QED BY <2>1, SectionEdited
<1>2. ASSUME NEW kind \in Kinds, d = [m EXCEPT !.layers[l][kind].offset = @ + Alignment]
      PROVE  ManifestGood(d)
  <2> DEFINE section == [m.layers[l][kind] EXCEPT !.offset = @ + Alignment]
  <2>1. ManifestGood([m EXCEPT !.layers = [m.layers EXCEPT ![l] = [m.layers[l] EXCEPT ![kind] = section]]])
    BY <1>1
  <2>2. d = [m EXCEPT !.layers = [m.layers EXCEPT ![l] = [m.layers[l] EXCEPT ![kind] = section]]]
    BY <1>2
  <2> QED BY <2>1, <2>2
<1>3. ASSUME NEW kind \in Kinds, d = [m EXCEPT !.layers[l][kind].offset = @ - 4]
      PROVE  ManifestGood(d)
  <2> DEFINE section == [m.layers[l][kind] EXCEPT !.offset = @ - 4]
  <2>1. ManifestGood([m EXCEPT !.layers = [m.layers EXCEPT ![l] = [m.layers[l] EXCEPT ![kind] = section]]])
    BY <1>1
  <2>2. d = [m EXCEPT !.layers = [m.layers EXCEPT ![l] = [m.layers[l] EXCEPT ![kind] = section]]]
    BY <1>3
  <2> QED BY <2>1, <2>2
<1>4. ASSUME NEW kind \in Kinds, d = [m EXCEPT !.layers[l][kind].bytes = @ - Alignment]
      PROVE  ManifestGood(d)
  <2> DEFINE section == [m.layers[l][kind] EXCEPT !.bytes = @ - Alignment]
  <2>1. ManifestGood([m EXCEPT !.layers = [m.layers EXCEPT ![l] = [m.layers[l] EXCEPT ![kind] = section]]])
    BY <1>1
  <2>2. d = [m EXCEPT !.layers = [m.layers EXCEPT ![l] = [m.layers[l] EXCEPT ![kind] = section]]]
    BY <1>4
  <2> QED BY <2>1, <2>2
<1>5. ASSUME NEW kind \in Kinds, d = [m EXCEPT !.layers[l][kind].packets = @ + 1]
      PROVE  ManifestGood(d)
  <2> DEFINE section == [m.layers[l][kind] EXCEPT !.packets = @ + 1]
  <2>1. ManifestGood([m EXCEPT !.layers = [m.layers EXCEPT ![l] = [m.layers[l] EXCEPT ![kind] = section]]])
    BY <1>1
  <2>2. d = [m EXCEPT !.layers = [m.layers EXCEPT ![l] = [m.layers[l] EXCEPT ![kind] = section]]]
    BY <1>5
  <2> QED BY <2>1, <2>2
<1>6. ASSUME NEW kind \in Kinds, d = [m EXCEPT !.files[kind].window_bytes = 0]
      PROVE  ManifestGood(d)
  <2>1. DOMAIN d = DOMAIN m /\ d.layers = m.layers /\ d.raced = m.raced
    BY <1>6 DEF ManifestGood
  <2> QED BY <2>1 DEF ManifestGood
<1>7. CASE d = [m EXCEPT !.layers = Reverse(@)]
  <2> DEFINE r == Reverse(m.layers)
  <2>1. /\ r = [i \in 1 .. Len(m.layers) |-> r[i]]
        /\ \A i \in 1 .. Len(m.layers) : r[i] = m.layers[Len(m.layers) - i + 1]
    BY DEF Reverse
  <2> HIDE DEF r
  <2>2. Listed(r) /\ Len(r) = Len(m.layers)
    BY <1>0, <2>1, ListOf
  <2>3. LayersGood(r, m.raced)
    <3>1. \A i \in 1 .. Len(m.layers) : Len(m.layers) - i + 1 \in 1 .. Len(m.layers)
      BY <1>0
    <3>2. \A i \in 1 .. Len(m.layers) : EntryGood(m.layers[i], m.raced)
      BY <1>0 DEF LayersGood
    <3>3. \A i \in 1 .. Len(r) : EntryGood(r[i], m.raced)
      BY <2>1, <2>2, <3>1, <3>2
    <3> QED BY <2>2, <3>3 DEF LayersGood
  <2>4. ManifestGood([m EXCEPT !.layers = r])
    BY <2>3, ManifestEdited
  <2> QED BY <1>7, <2>4 DEF r
<1>8. CASE d = [m EXCEPT !.layers = SubSeq(@, 2, Len(@))]
  <2> DEFINE r == SubSeq(m.layers, 2, Len(m.layers))
             n == IF Len(m.layers) = 0 THEN 0 ELSE Len(m.layers) - 1
  <2>1. n \in Nat /\ 1 .. n = 1 .. (1 + Len(m.layers) - 2) /\ n + 1 >= Len(m.layers)
        /\ \A i \in 1 .. n : i + 1 \in 1 .. Len(m.layers)
    BY <1>0
  <2>2. r = [i \in 1 .. (1 + Len(m.layers) - 2) |-> m.layers[i + 2 - 1]]
    BY <1>0
  <2>3. r = [i \in 1 .. n |-> r[i]] /\ \A i \in 1 .. n : r[i] = m.layers[i + 1]
    <3> HIDE DEF r, n
    <3>1. r = [i \in 1 .. n |-> m.layers[i + 2 - 1]]
      BY <2>1, <2>2
    <3>2. \A i \in 1 .. n : i + 2 - 1 = i + 1
      BY <2>1
    <3> QED BY <3>1, <3>2
  <2> HIDE DEF r, n
  <2>4. Listed(r) /\ Len(r) = n
    BY <2>1, <2>3, ListOf
  <2>5. LayersGood(r, m.raced)
    BY <1>0, <2>1, <2>3, <2>4 DEF LayersGood
  <2>6. ManifestGood([m EXCEPT !.layers = r])
    BY <2>5, ManifestEdited
  <2> QED BY <1>8, <2>6 DEF r
<1>9. CASE d = [m EXCEPT !.layers[1].schedule.k_passes = @ + 1]
  <2> DEFINE e == m.layers[1]
             c == [e EXCEPT !.schedule = [e.schedule EXCEPT !.k_passes = @ + 1]]
             r == [m.layers EXCEPT ![1] = c]
  <2>1. ASSUME 1 \in 1 .. Len(m.layers)
        PROVE  EntryGood(c, m.raced)
    <3>1. EntryGood(e, m.raced)
      BY <1>0, <2>1 DEF LayersGood
    <3> HIDE DEF e
    <3>2. DOMAIN e = EntryFields /\ e.bias.offset \in Int /\ e.weight.offset \in Int
      BY <3>1 DEF EntryGood
    <3>3. /\ DOMAIN c = DOMAIN e /\ c.index = e.index /\ c.source = e.source
          /\ c.bias = e.bias /\ c.weight = e.weight
      BY <3>2 DEF EntryFields
    <3> HIDE DEF c
    <3>4. \A kind \in Kinds : DOMAIN c[kind] = DOMAIN e[kind] /\ c[kind].sha = e[kind].sha /\ c[kind].offset \in Int
      BY <3>2, <3>3 DEF Kinds
    <3> QED BY <3>1, <3>3, <3>4, EntryMoved
  <2> HIDE DEF c
  <2>2. LayersGood(r, m.raced)
    BY <1>0, <2>1, LayersEdited
  <2> HIDE DEF r
  <2>3. ManifestGood([m EXCEPT !.layers = r])
    BY <2>2, ManifestEdited
  <2> QED BY <1>9, <2>3 DEF r, c, e
<1>10. d \in DamagedManifests(m)
  OBVIOUS
<1>11. \/ \E kind \in Kinds :
             \/ d = [m EXCEPT !.layers[l][kind].offset = @ + Alignment]
             \/ d = [m EXCEPT !.layers[l][kind].offset = @ - 4]
             \/ d = [m EXCEPT !.layers[l][kind].bytes = @ - Alignment]
             \/ d = [m EXCEPT !.layers[l][kind].packets = @ + 1]
             \/ d = [m EXCEPT !.files[kind].window_bytes = 0]
       \/ d = [m EXCEPT !.layers = Reverse(@)]
       \/ d = [m EXCEPT !.layers = SubSeq(@, 2, Len(@))]
       \/ d = [m EXCEPT !.layers[1].schedule.k_passes = @ + 1]
  <2>1. CASE \E kind \in Kinds : d \in DamagedSections(m, l, kind)
    BY <2>1 DEF DamagedSections
  <2>2. CASE d \in {[m EXCEPT !.layers = Reverse(@)], [m EXCEPT !.layers = SubSeq(@, 2, Len(@))],
                    [m EXCEPT !.layers[1].schedule.k_passes = @ + 1]}
    BY <2>2
  <2> QED BY <1>10, <2>1, <2>2 DEF DamagedManifests
<1> HIDE DEF l
<1> QED BY <1>2, <1>3, <1>4, <1>5, <1>6, <1>7, <1>8, <1>9, <1>11

\* A damaged image changes no manifest.
LEMMA DamageKeeps ==
  ASSUME PackageInv, DamagePackage
  PROVE  PackageInv'
<1>1. UNCHANGED <<model, gen, ver>>
  BY DEF DamagePackage
<1>2. CASE /\ written.manifest \notin {NoFile, Unfinished}
           /\ \E m \in DamagedManifests(written.manifest) : written' = [written EXCEPT !.manifest = m]
  <2>1. PICK m \in DamagedManifests(written.manifest) : written' = [written EXCEPT !.manifest = m]
    BY <1>2
  <2>2. ManifestGood(m)
    BY <1>2, DamagedGood DEF PackageInv, Written
  <2>3. DOMAIN written' = DOMAIN written /\ written'.manifest = m
    BY <2>1 DEF PackageInv
  <2> QED BY <1>1, <2>2, <2>3 DEF PackageInv, ModelGood, GenGood, VerGood, Written
<1>3. ASSUME NEW kind \in Kinds, NEW image, written' = [written EXCEPT ![kind] = image]
      PROVE  PackageInv'
  <2>1. DOMAIN written' = DOMAIN written /\ written'.manifest = written.manifest
    BY <1>3 DEF PackageInv, Kinds
  <2> QED BY <1>1, <2>1 DEF PackageInv, ModelGood, GenGood, VerGood, Written
<1>4. CASE \E kind \in Kinds :
             /\ written[kind] \notin {NoFile, Unfinished}
             /\ \/ \E i \in {1, Len(written[kind])} : written' = [written EXCEPT ![kind][i] = Wrong]
                \/ written' = [written EXCEPT ![kind] = Tail(@)]
  BY <1>3, <1>4
<1> QED BY <1>2, <1>4 DEF DamagePackage

\* Each step keeps the invariant.
LEMMA PackageSteps == PackageInv /\ [PackageNext]_package_vars => PackageInv'
<1> SUFFICES ASSUME PackageInv, [PackageNext]_package_vars
             PROVE  PackageInv'
  OBVIOUS
<1>1. CASE Load
  BY <1>1, LoadKeeps
<1>2. CASE PackLayer
  BY <1>2, PackLayerKeeps
<1>3. CASE PackedAll
  BY <1>3, PackedAllKeeps
<1>4. CASE WriteFiles
  BY <1>4, WriteFilesKeeps
<1>5. CASE SelfVerify
  BY <1>5, SelfVerifyKeeps
<1>6. CASE GeneratorKilled
  BY <1>6, NoGenGood, GenKeeps DEF GeneratorKilled
<1>7. CASE Read
  BY <1>7, ReadKeeps
<1>8. CASE Export
  BY <1>8, ExportKeeps
<1>9. CASE DamagePackage
  BY <1>9, DamageKeeps
<1>10. CASE UNCHANGED package_vars
  BY <1>10 DEF package_vars, PackageInv, ModelGood, GenGood, VerGood
<1> QED BY <1>1, <1>2, <1>3, <1>4, <1>5, <1>6, <1>7, <1>8, <1>9, <1>10 DEF PackageNext

\* For every plan, limits, alignment and model roots, and whatever is exported, killed,
\* half written or damaged in between: every tile of every layer finds in an accepted
\* package, at the offsets of its manifest, its biases and weights of one revision and
\* zeros elsewhere, and the revision is the one the manifest names unless a file was
\* replaced while it was packed (parameter_package.py: generate_package, verify_package).
THEOREM AcceptedPackagesFeed == PackageSpec => []AcceptedFeedsArray
<1>1. PackageInv => AcceptedFeedsArray
  <2> SUFFICES ASSUME PackageInv, ver.accepted, NEW l \in Layers
               PROVE  FedRight(ver.manifest, ver.bias, ver.weight, l)
    BY DEF AcceptedFeedsArray, FedRight
  <2>1. verify_package(ver.manifest, ver.bias, ver.weight) /\ Written(ver.manifest)
    BY DEF PackageInv, VerGood, verify_package, Written
  <2>2. ManifestGood(ver.manifest)
    BY <2>1 DEF PackageInv, VerGood
  <2> QED BY <2>1, <2>2, AcceptedFeeds
<1> QED BY <1>1, PackageStarts, PackageSteps, PTL DEF PackageSpec

-----------------------------------------------------------------------------
\* InputShards.

\* What is left of a list without its first.
LEMMA RestList ==
  ASSUME NEW s, Listed(s)
  PROVE  Listed(SubSeq(s, 2, Len(s)))
<1> DEFINE r == SubSeq(s, 2, Len(s))
           n == IF Len(s) = 0 THEN 0 ELSE Len(s) - 1
<1>1. n \in Nat /\ 1 .. n = 1 .. (1 + Len(s) - 2)
  BY DEF Listed
<1>2. r = [i \in 1 .. (1 + Len(s) - 2) |-> s[i + 2 - 1]]
  BY DEF Listed
<1>3. r = [i \in 1 .. n |-> r[i]]
  <2> HIDE DEF r, n
  <2> QED BY <1>1, <1>2
<1> HIDE DEF r, n
<1>4. Listed(r)
  BY <1>1, <1>3, ListOf
<1> QED BY <1>4 DEF r

\* An entry of the index, or of a build: it is the image of its place in the list, and
\* its package is of the file whose digest it carries, unless that was replaced.
RecordGood(e, list, raced) ==
  /\ e.record_index + 1 \in 1 .. Len(list) /\ e.image_id = list[e.record_index + 1]
  /\ raced \/ e.crc.tensor = e.crc.source

\* A list of such entries.
RecordsGood(entries, list, raced) ==
  Listed(entries) /\ \A n \in 1 .. Len(entries) : RecordGood(entries[n], list, raced)

\* What the shards are said to hold: some packages each, and no more than the target.
PartsGood(parts) ==
  /\ Listed(parts)
  /\ \A s \in 1 .. Len(parts) : /\ DOMAIN parts[s] = {"shard_id", "first", "count", "sha"}
                               /\ Len(parts[s].sha) \in 1 .. Target

\* An index of a whole list; damage may have put its entries in another order.
IndexGood(table, list, raced) ==
  /\ DOMAIN table = {"shards", "source_set", "entries"}
  /\ Len(table.entries) = Len(list)
  /\ RecordsGood(table.entries, list, raced) /\ PartsGood(table.shards)

\* A manifest is bound to such an index.
SetGood(m) ==
  /\ DOMAIN m = {"image_count", "binary", "source_set", "shards", "entries", "raced"}
  /\ Listed(m.shards) /\ Listed(m.entries)
  /\ \E list \in Lists : IndexGood(m.binary, list, m.raced)

\* A build has entered a prefix of its list, and its index the whole.
BuildGood ==
  /\ DOMAIN build = {"pc", "list", "expected", "decoded", "open", "first", "entries", "shards", "raced"}
  /\ build.pc \in {"idle", "decode", "hash", "index", "manifest", "done"} /\ build.raced \in BOOLEAN
  /\ build.pc \in {"decode", "hash", "index", "manifest"} =>
       /\ build.list \in Lists /\ build.expected # 0
       /\ RecordsGood(build.entries, build.list, build.raced) /\ PartsGood(build.shards)
       /\ Len(build.open) \in 0 .. Target /\ Listed(build.open)
       /\ Len(build.entries) # 0 => Len(build.open) # 0
  /\ build.pc = "hash" => /\ Len(build.entries) < Len(build.list)
                          /\ build.raced \/ build.decoded = sources[Current]
  /\ build.pc \in {"index", "manifest"} => Len(build.entries) = Len(build.list)
  /\ build.pc = "manifest" => IndexGood(shard_dir.index, build.list, build.raced)

\* Whichever manifest is in the directory is of one whole list.
DirGood ==
  /\ DOMAIN shard_dir = {"shards", "index", "manifest"}
  /\ shard_dir.manifest # Gone => SetGood(shard_dir.manifest)

\* What the reader accepted is what the validation says of what it holds.
ReaderGood ==
  /\ DOMAIN reader = {"pc", "manifest", "index", "shards", "accepted"}
  /\ reader.pc \in {"idle", "index", "shards", "done"}
  /\ Listed(reader.shards)
  /\ reader.pc # "idle" => SetGood(reader.manifest)
  /\ reader.pc = "index" => Len(reader.shards) = 0
  /\ reader.pc = "shards" => Len(reader.shards) <= Len(reader.manifest.shards)
  /\ reader.accepted => /\ reader.pc = "done" /\ Len(reader.shards) = Len(reader.manifest.shards)
                        /\ validate_input_shard_set(reader.manifest, reader.index, reader.shards)

ShardsInv == BuildGood /\ DirGood /\ ReaderGood

\* The shards hold, record by record, the images of one list.
WholeSet(m, shards) ==
  \E list \in Lists :
    /\ Len(m.entries) = Len(list)
    /\ \A n \in DOMAIN list :
          LET e == m.entries[n]
              p == shards[e.shard_id + 1][e.offset + 1]
          IN  /\ p.image_id = list[n]
              /\ p.source = e.source
              /\ m.raced \/ p.tensor = p.source
    /\ \A s \in DOMAIN shards : Len(shards[s]) \in 1 .. Target

\* What is accepted is one list.
LEMMA AcceptedWhole ==
  ASSUME NEW m, NEW table, NEW shards, SetGood(m), Listed(shards), Len(shards) = Len(m.shards),
         validate_input_shard_set(m, table, shards)
  PROVE  WholeSet(m, shards)
<1>1. PICK list \in Lists : IndexGood(m.binary, list, m.raced)
  BY DEF SetGood
<1>2. /\ table = m.binary /\ Len(m.entries) = Len(list) /\ Len(table.entries) = Len(list)
      /\ Listed(m.entries) /\ Listed(table.entries) /\ Listed(m.shards) /\ Listed(table.shards)
      /\ Len(m.shards) = Len(table.shards)
  BY <1>1 DEF validate_input_shard_set, SetGood, IndexGood, RecordsGood, PartsGood, ShardsOk
<1>3. DOMAIN list = 1 .. Len(list) /\ Len(list) \in Nat
  BY ShardsAssumption, LenProperties
<1>4. ASSUME NEW n \in DOMAIN list
      PROVE  LET e == m.entries[n]
                 p == shards[e.shard_id + 1][e.offset + 1]
             IN  /\ p.image_id = list[n]
                 /\ p.source = e.source
                 /\ m.raced \/ p.tensor = p.source
  <2> DEFINE e == m.entries[n]
             t == table.entries[n]
             p == shards[e.shard_id + 1][e.offset + 1]
  <2>1. n \in 1 .. Len(list) /\ n \in DOMAIN m.entries /\ n \in DOMAIN table.entries
    BY <1>2, <1>3 DEF Listed
  <2>2. Table(e) = t /\ EmbeddedOk(p, e)
    BY <2>1 DEF validate_input_shard_set, EntriesOk
  <2>3. t.record_index = n - 1
    BY <2>1 DEF validate_input_shard_set, IndexOk
  <2>4. RecordGood(t, list, m.raced)
    BY <1>1, <1>2, <2>1 DEF IndexGood, RecordsGood
  <2> HIDE DEF e, t, p
  <2>5. e.image_id = t.image_id /\ e.crc = t.crc
    BY <2>2 DEF Table
  <2>6. t.record_index + 1 = n
    BY <2>1, <2>3
  <2>7. p.image_id = list[n] /\ p.source = e.source /\ (m.raced \/ p.tensor = p.source)
    BY <2>2, <2>4, <2>5, <2>6 DEF EmbeddedOk, RecordGood
  <2> QED BY <2>7 DEF p, e
<1>5. ASSUME NEW s \in DOMAIN shards
      PROVE  Len(shards[s]) \in 1 .. Target
  <2>1. s \in DOMAIN m.shards /\ s \in 1 .. Len(table.shards)
    BY <1>2 DEF Listed
  <2>2. m.shards[s] = table.shards[s] /\ shards[s] = m.shards[s].sha
    BY <2>1 DEF validate_input_shard_set, ShardsOk
  <2>3. Len(table.shards[s].sha) \in 1 .. Target
    BY <1>1, <1>2, <2>1 DEF IndexGood, PartsGood
  <2> QED BY <2>2, <2>3
<1> QED BY <1>2, <1>4, <1>5 DEF WholeSet

\* The directory is empty at first.
LEMMA ShardsStart == ShardsInit => ShardsInv
<1> SUFFICES ASSUME ShardsInit
             PROVE  ShardsInv
  OBVIOUS
<1>1. BuildGood
  BY DEF ShardsInit, NoBuild, BuildGood
<1>2. DirGood
  BY DEF ShardsInit, EmptyCard, DirGood
<1>3. ReaderGood
  BY EmptyList DEF ShardsInit, NoReader, ReaderGood
<1> QED BY <1>1, <1>2, <1>3 DEF ShardsInv

\* A build that stopped says nothing.
LEMMA NoBuildGood == ASSUME build' = NoBuild PROVE BuildGood'
  BY DEF BuildGood, NoBuild

\* A build begins with a list and no entry.
LEMMA BeginSetKeeps ==
  ASSUME ShardsInv, BeginSet
  PROVE  ShardsInv'
<1>1. PICK list \in Lists, short \in {0, 1} :
        Len(list) > short /\ build' = [NoBuild EXCEPT !.pc = "decode", !.list = list, !.expected = Len(list) - short]
  BY DEF BeginSet
<1>2. Len(list) \in Nat
  BY ShardsAssumption, LenProperties
<1>3. /\ DOMAIN build' = {"pc", "list", "expected", "decoded", "open", "first", "entries", "shards", "raced"}
      /\ build'.pc = "decode" /\ build'.list = list /\ build'.expected # 0 /\ build'.raced = FALSE
      /\ build'.entries = <<>> /\ build'.open = <<>> /\ build'.shards = <<>>
  BY <1>1, <1>2 DEF NoBuild
<1>4. RecordsGood(build'.entries, list, FALSE) /\ PartsGood(build'.shards)
  BY <1>3, EmptyList DEF RecordsGood, PartsGood
<1>5. BuildGood'
  <2>1. Len(build'.open) = 0 /\ Len(build'.entries) = 0 /\ Listed(build'.open) /\ 0 \in 0 .. Target
    BY <1>3, EmptyList, ShardsAssumption
  <2> QED BY <1>3, <1>4, <2>1 DEF BuildGood
<1> QED BY <1>5 DEF ShardsInv, DirGood, ReaderGood, BeginSet

\* The next image is decoded, or the build is refused.
LEMMA DecodeKeeps ==
  ASSUME ShardsInv, Decode
  PROVE  ShardsInv'
<1>1. CASE build' = NoBuild
  BY <1>1, NoBuildGood DEF ShardsInv, DirGood, ReaderGood, Decode
<1>2. CASE build' = [build EXCEPT !.pc = "hash", !.decoded = sources[Current]]
  <2>1. /\ DOMAIN build' = DOMAIN build /\ build'.pc = "hash" /\ build'.decoded = sources[Current]
        /\ build'.list = build.list /\ build'.entries = build.entries /\ build'.expected = build.expected
        /\ build'.open = build.open /\ build'.shards = build.shards /\ build'.raced = build.raced
    BY <1>2 DEF ShardsInv, BuildGood
  <2>2. BuildGood'
    BY <2>1 DEF ShardsInv, BuildGood, Decode, PackedCount, Current
  <2> QED BY <2>2 DEF ShardsInv, DirGood, ReaderGood, Decode
<1> QED BY <1>1, <1>2 DEF Decode, RefusedSet

\* The open shard, if anything is in it, may be noted.
LEMMA PartAdded ==
  ASSUME PartsGood(build.shards), Len(build.open) \in 0 .. Target, Len(build.open) # 0
  PROVE  PartsGood(Append(build.shards, ShardEntry))
<1>1. DOMAIN ShardEntry = {"shard_id", "first", "count", "sha"} /\ ShardEntry.sha = build.open
  BY DEF ShardEntry
<1> DEFINE e == ShardEntry
<1> HIDE DEF e
<1>2. /\ Listed(Append(build.shards, e)) /\ Len(Append(build.shards, e)) = Len(build.shards) + 1
      /\ \A i \in 1 .. Len(build.shards) : Append(build.shards, e)[i] = build.shards[i]
      /\ Append(build.shards, e)[Len(build.shards) + 1] = e
  BY AppendList DEF PartsGood
<1>3. Len(build.open) \in 1 .. Target
  BY ShardsAssumption
<1>4. DOMAIN e = {"shard_id", "first", "count", "sha"} /\ Len(e.sha) \in 1 .. Target
  BY <1>1, <1>3 DEF e
<1>5. Len(build.shards) \in Nat
  BY DEF PartsGood, Listed
<1>6. PartsGood(Append(build.shards, e))
  BY <1>2, <1>4, <1>5 DEF PartsGood
<1> QED BY <1>6 DEF e

\* One package more, in the open shard or in a new one after it.
LEMMA Append1Keeps ==
  ASSUME ShardsInv, Append1
  PROVE  ShardsInv'
<1> DEFINE package == InputPackage(Current, build.decoded, sources[Current])
           shards  == IF Full THEN Append(build.shards, ShardEntry) ELSE build.shards
           open    == IF Full THEN <<>> ELSE build.open
           entry   == [image_id |-> Current, shard_id |-> Len(shards), record_index |-> PackedCount,
                       offset |-> Len(open), crc |-> package, source |-> package.source]
           first   == IF Full THEN PackedCount ELSE build.first
<1>1. /\ build.pc = "hash" /\ UNCHANGED <<sources, reader>>
      /\ shard_dir' = IF Full THEN [shard_dir EXCEPT !.shards[Len(build.shards)] = build.open] ELSE shard_dir
      /\ \/ build' = NoBuild
         \/ build' = [build EXCEPT !.pc = "decode", !.decoded = Gone, !.shards = shards,
                         !.open = Append(open, package), !.first = first,
                         !.entries = Append(build.entries, entry)]
  BY DEF Append1
<1>2. DirGood' /\ ReaderGood'
  <2>1. /\ DOMAIN shard_dir' = DOMAIN shard_dir /\ shard_dir'.manifest = shard_dir.manifest
    BY <1>1 DEF ShardsInv, DirGood
  <2> QED BY <1>1, <2>1 DEF ShardsInv, DirGood, ReaderGood
<1>3. CASE build' = NoBuild
  BY <1>2, <1>3, NoBuildGood DEF ShardsInv
<1>4. CASE build' = [build EXCEPT !.pc = "decode", !.decoded = Gone, !.shards = shards,
                         !.open = Append(open, package), !.first = first,
                         !.entries = Append(build.entries, entry)]
  <2>1. /\ DOMAIN build' = DOMAIN build /\ build'.pc = "decode" /\ build'.list = build.list
        /\ build'.expected = build.expected /\ build'.raced = build.raced /\ build'.shards = shards
        /\ build'.open = Append(open, package) /\ build'.entries = Append(build.entries, entry)
    <3> HIDE DEF shards, open, package, entry, first
    <3> QED BY <1>4 DEF ShardsInv, BuildGood
  <2>2. /\ build.list \in Lists /\ build.expected # 0 /\ build.raced \in BOOLEAN
        /\ RecordsGood(build.entries, build.list, build.raced) /\ PartsGood(build.shards)
        /\ Len(build.open) \in 0 .. Target /\ Listed(build.open)
        /\ Len(build.entries) < Len(build.list) /\ Len(build.entries) \in Nat
        /\ build.raced \/ build.decoded = sources[Current]
    BY <1>1 DEF ShardsInv, BuildGood, RecordsGood, Listed
  <2>3. RecordGood(entry, build.list, build.raced)
    <3>1. Len(build.list) \in Nat
      BY <2>2, ShardsAssumption, LenProperties
    <3>2. /\ entry.record_index = Len(build.entries) /\ entry.image_id = build.list[Len(build.entries) + 1]
          /\ entry.crc.tensor = build.decoded /\ entry.crc.source = sources[Current]
      BY DEF InputPackage, Current, PackedCount
    <3> HIDE DEF entry
    <3> QED BY <2>2, <3>1, <3>2 DEF RecordGood
  <2>4. RecordsGood(Append(build.entries, entry), build.list, build.raced)
    <3> HIDE DEF entry
    <3>1. Listed(build.entries) /\ \A n \in 1 .. Len(build.entries) : RecordGood(build.entries[n], build.list, build.raced)
      BY <2>2 DEF RecordsGood
    <3>2. /\ Listed(Append(build.entries, entry)) /\ Len(Append(build.entries, entry)) = Len(build.entries) + 1
          /\ \A n \in 1 .. Len(build.entries) : Append(build.entries, entry)[n] = build.entries[n]
          /\ Append(build.entries, entry)[Len(build.entries) + 1] = entry
      BY <3>1, AppendList
    <3> QED BY <2>2, <2>3, <3>1, <3>2 DEF RecordsGood
  <2>5. /\ Listed(open) /\ Len(open) \in 0 .. Target - 1
    <3>1. CASE Full
      BY <3>1, EmptyList, ShardsAssumption
    <3>2. CASE ~Full
      <4>1. open = build.open
        BY <3>2
      <4>2. CASE build.open = <<>>
        BY <4>1, <4>2, EmptyList, ShardsAssumption
      <4>3. CASE ~(Len(build.open) + 1 > Target)
        BY <2>2, <4>1, <4>3, ShardsAssumption
      <4> QED BY <3>2, <4>2, <4>3 DEF Full
    <3> QED BY <3>1, <3>2
  <2>6. /\ Listed(Append(open, package)) /\ Len(Append(open, package)) \in 1 .. Target
    <3> HIDE DEF open, package
    <3>1. Listed(Append(open, package)) /\ Len(Append(open, package)) = Len(open) + 1
      BY <2>5, AppendList
    <3> QED BY <2>5, <3>1, ShardsAssumption
  <2>7. PartsGood(shards)
    <3>1. CASE ~Full
      BY <2>2, <3>1
    <3>2. CASE Full
      <4>1. Len(build.open) # 0
        <5>1. build.open # <<>>
          BY <3>2 DEF Full
        <5> QED BY <2>2, <5>1, EmptyList
      <4>2. PartsGood(Append(build.shards, ShardEntry))
        BY <2>2, <4>1, PartAdded
      <4> QED BY <3>2, <4>2
    <3> QED BY <3>1, <3>2
  <2>8. BuildGood'
    <3> HIDE DEF shards, open, package, entry, first
    <3>1. Len(build'.open) \in 0 .. Target /\ Len(build'.open) # 0 /\ Listed(build'.open)
      BY <2>1, <2>6, ShardsAssumption
    <3>2. RecordsGood(build'.entries, build'.list, build'.raced) /\ PartsGood(build'.shards)
      BY <2>1, <2>4, <2>7
    <3> QED BY <2>1, <2>2, <3>1, <3>2 DEF BuildGood, ShardsInv
  <2> QED BY <1>2, <2>8 DEF ShardsInv
<1> QED BY <1>1, <1>3, <1>4

\* All images are in, and the open shard is the last.
LEMMA LastShardKeeps ==
  ASSUME ShardsInv, LastShard
  PROVE  ShardsInv'
<1>0. build.pc = "decode" /\ UNCHANGED <<sources, reader>> /\ Len(build.entries) = Len(build.list)
  BY DEF LastShard, PackedCount
<1>1. CASE build' = NoBuild /\ UNCHANGED shard_dir
  BY <1>0, <1>1, NoBuildGood DEF ShardsInv, DirGood, ReaderGood
<1>2. CASE /\ build.expected = Len(build.entries)
           /\ shard_dir' = [shard_dir EXCEPT !.shards[Len(build.shards)] = build.open]
           /\ build' = [build EXCEPT !.pc = "index", !.shards = Append(build.shards, ShardEntry)]
  <2>1. /\ DOMAIN build' = DOMAIN build /\ build'.pc = "index" /\ build'.list = build.list
        /\ build'.expected = build.expected /\ build'.raced = build.raced
        /\ build'.shards = Append(build.shards, ShardEntry)
        /\ build'.open = build.open /\ build'.entries = build.entries
    BY <1>2 DEF ShardsInv, BuildGood
  <2>2. /\ build.list \in Lists /\ build.expected # 0 /\ build.raced \in BOOLEAN
        /\ RecordsGood(build.entries, build.list, build.raced) /\ PartsGood(build.shards)
        /\ Len(build.open) \in 0 .. Target /\ Listed(build.open) /\ Len(build.open) # 0
    BY <1>0, <1>2 DEF ShardsInv, BuildGood
  <2>3. PartsGood(Append(build.shards, ShardEntry))
    BY <2>2, PartAdded
  <2>4. BuildGood'
    BY <1>0, <2>1, <2>2, <2>3 DEF BuildGood, ShardsInv
  <2>5. /\ DOMAIN shard_dir' = DOMAIN shard_dir /\ shard_dir'.manifest = shard_dir.manifest
    BY <1>2 DEF ShardsInv, DirGood
  <2> QED BY <1>0, <2>4, <2>5 DEF ShardsInv, DirGood, ReaderGood
<1> QED BY <1>1, <1>2 DEF LastShard, RefusedSet, PackedCount

\* The index says the list.
LEMMA WriteBinaryIndexKeeps ==
  ASSUME ShardsInv, WriteBinaryIndex
  PROVE  ShardsInv'
<1> DEFINE entries == [n \in 1 .. PackedCount |-> Table(build.entries[n])]
           table == [shards |-> build.shards, source_set |-> SourceSet, entries |-> entries]
<1>1. /\ build.pc = "index" /\ UNCHANGED <<sources, reader>>
      /\ shard_dir' = [shard_dir EXCEPT !.index = table]
      /\ build' = [build EXCEPT !.pc = "manifest"]
  BY DEF WriteBinaryIndex
<1>2. /\ build.list \in Lists /\ build.expected # 0 /\ build.raced \in BOOLEAN
      /\ RecordsGood(build.entries, build.list, build.raced) /\ PartsGood(build.shards)
      /\ Len(build.open) \in 0 .. Target /\ Listed(build.open)
      /\ Len(build.entries) # 0 => Len(build.open) # 0
      /\ Len(build.entries) = Len(build.list) /\ Len(build.entries) \in Nat
  BY <1>1 DEF ShardsInv, BuildGood, RecordsGood, Listed
<1>3. RecordsGood(entries, build.list, build.raced) /\ Len(entries) = Len(build.list)
  <2>1. entries = [n \in 1 .. Len(build.entries) |-> entries[n]]
    BY DEF PackedCount
  <2>2. \A n \in 1 .. Len(build.entries) : entries[n] = Table(build.entries[n])
    BY DEF PackedCount
  <2> HIDE DEF entries
  <2>3. Listed(entries) /\ Len(entries) = Len(build.entries)
    BY <1>2, <2>1, ListOf
  <2>4. ASSUME NEW n \in 1 .. Len(entries)
        PROVE  RecordGood(entries[n], build.list, build.raced)
    <3>1. RecordGood(build.entries[n], build.list, build.raced)
      BY <1>2, <2>3 DEF RecordsGood
    <3>2. /\ Table(build.entries[n]).record_index = build.entries[n].record_index
          /\ Table(build.entries[n]).image_id = build.entries[n].image_id
          /\ Table(build.entries[n]).crc = build.entries[n].crc
      BY DEF Table
    <3>3. RecordGood(Table(build.entries[n]), build.list, build.raced)
      BY <3>1, <3>2 DEF RecordGood
    <3> QED BY <2>2, <2>3, <2>4, <3>3
  <2> QED BY <1>2, <2>3, <2>4 DEF RecordsGood
<1>4. IndexGood(table, build.list, build.raced)
  <2> HIDE DEF entries
  <2> QED BY <1>2, <1>3 DEF IndexGood
<1> HIDE DEF table
<1>5. /\ DOMAIN shard_dir' = DOMAIN shard_dir /\ shard_dir'.manifest = shard_dir.manifest
      /\ shard_dir'.index = table
  BY <1>1 DEF ShardsInv, DirGood
<1>6. /\ DOMAIN build' = DOMAIN build /\ build'.pc = "manifest" /\ build'.list = build.list
      /\ build'.expected = build.expected /\ build'.raced = build.raced /\ build'.shards = build.shards
      /\ build'.open = build.open /\ build'.entries = build.entries
  BY <1>1 DEF ShardsInv, BuildGood
<1>7. BuildGood'
  BY <1>2, <1>4, <1>5, <1>6 DEF BuildGood, ShardsInv
<1> QED BY <1>1, <1>5, <1>7 DEF ShardsInv, DirGood, ReaderGood

\* The manifest takes the index as it finds it.
LEMMA WriteManifestKeeps ==
  ASSUME ShardsInv, WriteManifest
  PROVE  ShardsInv'
<1> DEFINE m == [image_count |-> build.expected, binary |-> shard_dir.index,
                 source_set |-> SourceSet, shards |-> build.shards, entries |-> build.entries,
                 raced |-> build.raced]
<1>1. /\ build.pc = "manifest" /\ UNCHANGED <<sources, reader>>
      /\ shard_dir' = [shard_dir EXCEPT !.manifest = m]
      /\ build' = [build EXCEPT !.pc = "done"]
  BY DEF WriteManifest
<1>2. /\ build.list \in Lists /\ IndexGood(shard_dir.index, build.list, build.raced)
      /\ Listed(build.shards) /\ Listed(build.entries)
  BY <1>1 DEF ShardsInv, BuildGood, RecordsGood, PartsGood
<1>3. SetGood(m)
  BY <1>2 DEF SetGood
<1> HIDE DEF m
<1>4. DOMAIN shard_dir' = DOMAIN shard_dir /\ shard_dir'.manifest = m
  BY <1>1 DEF ShardsInv, DirGood
<1>5. DOMAIN build' = DOMAIN build /\ build'.pc = "done" /\ build'.raced = build.raced
  BY <1>1 DEF ShardsInv, BuildGood
<1> QED BY <1>1, <1>3, <1>4, <1>5 DEF ShardsInv, BuildGood, DirGood, ReaderGood

\* The reader opens the manifest, the index, each shard, and judges them.
LEMMA ReadSetKeeps ==
  ASSUME ShardsInv, ReadSet
  PROVE  ShardsInv'
<1>1. UNCHANGED <<sources, shard_dir, build>>
  BY DEF ReadSet
<1>2. ReaderGood'
  <2>0. ASSUME reader' = NoReader
        PROVE  ReaderGood'
    BY <2>0, EmptyList DEF ReaderGood, NoReader
  <2>1. CASE reader.pc = "idle"
    <3>1. CASE shard_dir.manifest # Gone
      <4>1. reader' = [NoReader EXCEPT !.pc = "index", !.manifest = shard_dir.manifest]
        BY <2>1, <3>1 DEF ReadSet
      <4>2. /\ DOMAIN reader' = {"pc", "manifest", "index", "shards", "accepted"} /\ reader'.pc = "index"
            /\ reader'.manifest = shard_dir.manifest /\ reader'.shards = <<>> /\ reader'.accepted = FALSE
        BY <4>1 DEF NoReader
      <4> QED BY <3>1, <4>2, EmptyList DEF ReaderGood, ShardsInv, DirGood
    <3>2. CASE shard_dir.manifest = Gone
      BY <2>0, <2>1, <3>2 DEF ReadSet
    <3> QED BY <3>1, <3>2
  <2>2. CASE reader.pc = "index"
    <3>1. CASE IndexOk(shard_dir.index)
      <4>1. reader' = [reader EXCEPT !.pc = "shards", !.index = shard_dir.index]
        BY <2>2, <3>1 DEF ReadSet
      <4>2. /\ DOMAIN reader' = DOMAIN reader /\ reader'.pc = "shards" /\ reader'.manifest = reader.manifest
            /\ reader'.shards = reader.shards /\ reader'.accepted = reader.accepted
        BY <4>1 DEF ShardsInv, ReaderGood
      <4>3. Len(reader.manifest.shards) \in Nat
        BY <2>2 DEF ShardsInv, ReaderGood, SetGood, Listed
      <4> QED BY <2>2, <4>2, <4>3 DEF ReaderGood, ShardsInv
    <3>2. CASE ~IndexOk(shard_dir.index)
      BY <2>0, <2>2, <3>2 DEF ReadSet
    <3> QED BY <3>1, <3>2
  <2>3. CASE reader.pc = "shards" /\ Len(reader.shards) < Len(reader.manifest.shards)
    <3> DEFINE next == Named(Len(reader.shards))
    <3>0. Len(reader.shards) # Len(reader.manifest.shards)
      BY <2>3 DEF ShardsInv, ReaderGood, SetGood, Listed
    <3>1. reader' = [reader EXCEPT !.shards = Append(reader.shards, next)]
      BY <2>3, <3>0 DEF ReadSet
    <3> HIDE DEF next
    <3>2. /\ DOMAIN reader' = DOMAIN reader /\ reader'.pc = reader.pc /\ reader'.manifest = reader.manifest
          /\ reader'.shards = Append(reader.shards, next) /\ reader'.accepted = reader.accepted
      BY <3>1 DEF ShardsInv, ReaderGood
    <3>3. Listed(reader'.shards) /\ Len(reader'.shards) = Len(reader.shards) + 1
      BY <3>2, AppendList DEF ShardsInv, ReaderGood
    <3>4. Len(reader.shards) \in Nat /\ Len(reader.manifest.shards) \in Nat
      BY <2>3 DEF ShardsInv, ReaderGood, SetGood, Listed
    <3> QED BY <2>3, <3>2, <3>3, <3>4 DEF ReaderGood, ShardsInv
  <2>4. CASE reader.pc = "shards" /\ Len(reader.shards) = Len(reader.manifest.shards)
    <3> DEFINE ok == validate_input_shard_set(reader.manifest, reader.index, reader.shards)
    <3>0. ~(Len(reader.shards) < Len(reader.manifest.shards))
      BY <2>4 DEF ShardsInv, ReaderGood, Listed
    <3>1. reader' = [reader EXCEPT !.pc = "done", !.accepted = ok]
      BY <2>4, <3>0 DEF ReadSet
    <3> HIDE DEF ok
    <3>2. /\ DOMAIN reader' = DOMAIN reader /\ reader'.pc = "done" /\ reader'.manifest = reader.manifest
          /\ reader'.shards = reader.shards /\ reader'.index = reader.index /\ reader'.accepted = ok
      BY <3>1 DEF ShardsInv, ReaderGood
    <3>3. reader'.accepted => validate_input_shard_set(reader'.manifest, reader'.index, reader'.shards)
      BY <3>2 DEF ok
    <3> QED BY <2>4, <3>2, <3>3 DEF ReaderGood, ShardsInv
  <2>5. CASE reader.pc = "done"
    BY <2>0, <2>5 DEF ReadSet
  <2>6. reader.pc = "shards" => \/ Len(reader.shards) < Len(reader.manifest.shards)
                                \/ Len(reader.shards) = Len(reader.manifest.shards)
    BY DEF ShardsInv, ReaderGood, SetGood, Listed
  <2> QED BY <2>1, <2>2, <2>3, <2>4, <2>5, <2>6 DEF ShardsInv, ReaderGood
<1> QED BY <1>1, <1>2 DEF ShardsInv, BuildGood, DirGood, Current, PackedCount

\* An image that is replaced between decoding and hashing is marked.
LEMMA ReplaceKeeps ==
  ASSUME ShardsInv, Replace
  PROVE  ShardsInv'
<1>1. /\ build' = [build EXCEPT !.raced = @ \/ build.pc = "hash"] /\ UNCHANGED <<shard_dir, reader>>
  BY DEF Replace
<1>2. /\ DOMAIN build' = DOMAIN build /\ build'.pc = build.pc /\ build'.list = build.list
      /\ build'.expected = build.expected /\ build'.shards = build.shards
      /\ build'.open = build.open /\ build'.entries = build.entries
      /\ build'.raced = (build.raced \/ build.pc = "hash")
  BY <1>1 DEF ShardsInv, BuildGood
<1>3. ASSUME NEW list, RecordsGood(build.entries, list, build.raced)
      PROVE  RecordsGood(build.entries, list, build'.raced)
  BY <1>2, <1>3 DEF RecordsGood, RecordGood
<1>4. build.pc = "manifest" => build'.raced = build.raced
  BY <1>2 DEF ShardsInv, BuildGood
<1>5. build'.raced \in BOOLEAN /\ (build.pc = "hash" => build'.raced)
  BY <1>2
<1>6. BuildGood'
  BY <1>1, <1>2, <1>3, <1>4, <1>5 DEF ShardsInv, BuildGood
<1> QED BY <1>1, <1>6 DEF ShardsInv, DirGood, ReaderGood

\* No damage of the index moves an entry to another place of the list.
LEMMA IndexDamaged ==
  ASSUME NEW table, NEW list, NEW raced, IndexGood(table, list, raced), NEW damaged,
         \/ damaged = [table EXCEPT !.entries = Reverse(@)]
         \/ damaged = [table EXCEPT !.shards[1].count = @ + 1]
  PROVE  IndexGood(damaged, list, raced)
<1>1. /\ DOMAIN table = {"shards", "source_set", "entries"} /\ Len(table.entries) = Len(list)
      /\ RecordsGood(table.entries, list, raced) /\ PartsGood(table.shards)
  BY DEF IndexGood
<1>2. CASE damaged = [table EXCEPT !.entries = Reverse(@)]
  <2> DEFINE r == Reverse(table.entries)
             k == Len(table.entries)
  <2>1. /\ r = [n \in 1 .. k |-> r[n]] /\ \A n \in 1 .. k : r[n] = table.entries[k - n + 1]
    BY DEF Reverse
  <2>2. DOMAIN damaged = DOMAIN table /\ damaged.entries = r /\ damaged.shards = table.shards
    BY <1>1, <1>2
  <2> HIDE DEF r
  <2>3. k \in Nat
    BY <1>1 DEF RecordsGood, Listed
  <2>4. Listed(r) /\ Len(r) = k
    BY <2>1, <2>3, ListOf
  <2>5. \A n \in 1 .. k : k - n + 1 \in 1 .. k
    BY <2>3
  <2>6. RecordsGood(r, list, raced)
    BY <1>1, <2>1, <2>4, <2>5 DEF RecordsGood
  <2> QED BY <1>1, <2>2, <2>4, <2>6 DEF IndexGood
<1>3. CASE damaged = [table EXCEPT !.shards[1].count = @ + 1]
  <2> DEFINE part == [table.shards[1] EXCEPT !.count = @ + 1]
             parts == [table.shards EXCEPT ![1] = part]
  <2>1. damaged = [table EXCEPT !.shards = parts]
    BY <1>3
  <2>2. ASSUME 1 \in 1 .. Len(table.shards)
        PROVE  /\ DOMAIN part = {"shard_id", "first", "count", "sha"} /\ Len(part.sha) \in 1 .. Target
    BY <1>1, <2>2 DEF PartsGood
  <2> HIDE DEF part
  <2>3. /\ parts = [s \in 1 .. Len(table.shards) |-> parts[s]] /\ Len(table.shards) \in Nat
        /\ \A s \in 1 .. Len(table.shards) : parts[s] = IF s = 1 THEN part ELSE table.shards[s]
    <3>1. DOMAIN table.shards = 1 .. Len(table.shards) /\ Len(table.shards) \in Nat
      BY <1>1 DEF PartsGood, Listed
    <3> QED BY <3>1
  <2> HIDE DEF parts
  <2>4. Listed(parts) /\ Len(parts) = Len(table.shards)
    BY <2>3, ListOf
  <2>5. PartsGood(parts)
    BY <1>1, <2>2, <2>3, <2>4 DEF PartsGood
  <2>6. DOMAIN damaged = DOMAIN table /\ damaged.entries = table.entries /\ damaged.shards = parts
    BY <1>1, <2>1
  <2> QED BY <1>1, <2>5, <2>6 DEF IndexGood
<1> QED BY <1>2, <1>3

\* Nor does damage of the manifest touch what it says of the index.
LEMMA SetDamaged ==
  ASSUME NEW m, SetGood(m), NEW d,
         \/ d = [m EXCEPT !.entries = Reverse(@)]
         \/ d = [m EXCEPT !.shards = SubSeq(@, 2, Len(@))]
         \/ d = [m EXCEPT !.image_count = @ - 1, !.entries = SubSeq(@, 2, Len(@))]
         \/ d = [m EXCEPT !.entries[1].source = @ + 1]
  PROVE  SetGood(d)
<1> DEFINE r == Reverse(m.entries)
           x == [m.entries EXCEPT ![1] = [m.entries[1] EXCEPT !.source = @ + 1]]
<1>0. /\ DOMAIN m = {"image_count", "binary", "source_set", "shards", "entries", "raced"}
      /\ Listed(m.shards) /\ Listed(m.entries)
      /\ \E list \in Lists : IndexGood(m.binary, list, m.raced)
  BY DEF SetGood
<1>1. Listed(SubSeq(m.shards, 2, Len(m.shards))) /\ Listed(SubSeq(m.entries, 2, Len(m.entries)))
  BY <1>0, RestList
<1>2. Listed(r)
  <2>1. r = [n \in 1 .. Len(m.entries) |-> r[n]] /\ Len(m.entries) \in Nat
    BY <1>0 DEF Reverse, Listed
  <2> HIDE DEF r
  <2> QED BY <2>1, ListOf
<1>3. Listed(x)
  <2>1. x = [n \in 1 .. Len(m.entries) |-> x[n]] /\ Len(m.entries) \in Nat
    <3>1. DOMAIN m.entries = 1 .. Len(m.entries) /\ Len(m.entries) \in Nat
      BY <1>0 DEF Listed
    <3> QED BY <3>1
  <2> HIDE DEF x
  <2> QED BY <2>1, ListOf
<1>4. \/ d = [m EXCEPT !.entries = r]
      \/ d = [m EXCEPT !.shards = SubSeq(m.shards, 2, Len(m.shards))]
      \/ d = [m EXCEPT !.image_count = @ - 1, !.entries = SubSeq(m.entries, 2, Len(m.entries))]
      \/ d = [m EXCEPT !.entries = x]
  OBVIOUS
<1> HIDE DEF r, x
<1>5. /\ DOMAIN d = DOMAIN m /\ d.binary = m.binary /\ d.raced = m.raced
      /\ d.shards \in {m.shards, SubSeq(m.shards, 2, Len(m.shards))}
      /\ d.entries \in {m.entries, r, x, SubSeq(m.entries, 2, Len(m.entries))}
  BY <1>0, <1>4
<1>6. Listed(d.shards) /\ Listed(d.entries)
  BY <1>0, <1>1, <1>2, <1>3, <1>5
<1> QED BY <1>0, <1>5, <1>6 DEF SetGood

\* Damage of a shard changes neither index nor manifest.
LEMMA DamageSetKeeps ==
  ASSUME ShardsInv, DamageSet
  PROVE  ShardsInv'
<1>1. UNCHANGED <<sources, build, reader>>
  BY DEF DamageSet
<1>2. DOMAIN shard_dir = {"shards", "index", "manifest"}
  BY DEF ShardsInv, DirGood
<1>3. ASSUME NEW shards, shard_dir' = [shard_dir EXCEPT !.shards = shards]
      PROVE  ShardsInv'
  <2>1. DOMAIN shard_dir' = DOMAIN shard_dir /\ shard_dir'.index = shard_dir.index /\ shard_dir'.manifest = shard_dir.manifest
    BY <1>2, <1>3
  <2> QED BY <1>1, <2>1 DEF ShardsInv, BuildGood, DirGood, ReaderGood, Current, PackedCount
<1>4. ASSUME NEW s,
             \/ shard_dir' = [shard_dir EXCEPT !.shards[s] = Reverse(@)]
             \/ shard_dir' = [shard_dir EXCEPT !.shards[s] = SubSeq(@, 2, Len(@))]
      PROVE  ShardsInv'
  BY <1>3, <1>4
<1>5. ASSUME shard_dir.manifest # Gone,
             NEW d, shard_dir' = [shard_dir EXCEPT !.manifest = d],
             \/ d = [shard_dir.manifest EXCEPT !.entries = Reverse(@)]
             \/ d = [shard_dir.manifest EXCEPT !.shards = SubSeq(@, 2, Len(@))]
             \/ d = [shard_dir.manifest EXCEPT !.image_count = @ - 1, !.entries = SubSeq(@, 2, Len(@))]
             \/ d = [shard_dir.manifest EXCEPT !.entries[1].source = @ + 1]
      PROVE  ShardsInv'
  <2>1. SetGood(shard_dir.manifest)
    BY <1>5 DEF ShardsInv, DirGood
  <2>2. SetGood(d)
    BY <1>5, <2>1, SetDamaged
  <2>3. DOMAIN shard_dir' = DOMAIN shard_dir /\ shard_dir'.index = shard_dir.index /\ shard_dir'.manifest = d
    BY <1>2, <1>5
  <2> QED BY <1>1, <2>2, <2>3 DEF ShardsInv, BuildGood, DirGood, ReaderGood, Current, PackedCount
<1>6. ASSUME NEW d, shard_dir' = [shard_dir EXCEPT !.index = d],
             \/ d = [shard_dir.index EXCEPT !.entries = Reverse(@)]
             \/ d = [shard_dir.index EXCEPT !.shards[1].count = @ + 1]
      PROVE  ShardsInv'
  <2>1. DOMAIN shard_dir' = DOMAIN shard_dir /\ shard_dir'.manifest = shard_dir.manifest /\ shard_dir'.index = d
    BY <1>2, <1>6
  <2>2. build.pc = "manifest" => IndexGood(d, build.list, build.raced)
    <3> SUFFICES ASSUME build.pc = "manifest"
                 PROVE  IndexGood(d, build.list, build.raced)
      OBVIOUS
    <3>1. IndexGood(shard_dir.index, build.list, build.raced)
      BY DEF ShardsInv, BuildGood
    <3> QED BY <1>6, <3>1, IndexDamaged
  <2> QED BY <1>1, <2>1, <2>2 DEF ShardsInv, BuildGood, DirGood, ReaderGood, Current, PackedCount
<1>7. CASE \E s \in DOMAIN shard_dir.shards :
             /\ shard_dir.shards[s] # Gone
             /\ \/ shard_dir' = [shard_dir EXCEPT !.shards[s] = Reverse(@)]
                \/ shard_dir' = [shard_dir EXCEPT !.shards[s] = SubSeq(@, 2, Len(@))]
  BY <1>4, <1>7
<1>8. CASE shard_dir.manifest # Gone /\ shard_dir' = [shard_dir EXCEPT !.manifest.entries = Reverse(@)]
  BY <1>5, <1>8
<1>9. CASE shard_dir.manifest # Gone /\ shard_dir' = [shard_dir EXCEPT !.manifest.shards = SubSeq(@, 2, Len(@))]
  BY <1>5, <1>9
<1>10. CASE /\ shard_dir.manifest # Gone
            /\ shard_dir' = [shard_dir EXCEPT !.manifest.image_count = @ - 1, !.manifest.entries = SubSeq(@, 2, Len(@))]
  BY <1>5, <1>10
<1>11. CASE shard_dir.manifest # Gone /\ shard_dir' = [shard_dir EXCEPT !.manifest.entries[1].source = @ + 1]
  BY <1>5, <1>11
<1>12. CASE shard_dir' = [shard_dir EXCEPT !.index.entries = Reverse(@)]
  BY <1>6, <1>12
<1>13. CASE shard_dir' = [shard_dir EXCEPT !.index.shards[1].count = @ + 1]
  BY <1>6, <1>13
<1> QED BY <1>7, <1>8, <1>9, <1>10, <1>11, <1>12, <1>13 DEF DamageSet

\* Each step keeps the invariant.
LEMMA ShardsSteps == ShardsInv /\ [ShardsNext]_shard_vars => ShardsInv'
<1> SUFFICES ASSUME ShardsInv, [ShardsNext]_shard_vars
             PROVE  ShardsInv'
  OBVIOUS
<1>1. CASE BeginSet
  BY <1>1, BeginSetKeeps
<1>2. CASE Decode
  BY <1>2, DecodeKeeps
<1>3. CASE Append1
  BY <1>3, Append1Keeps
<1>4. CASE LastShard
  BY <1>4, LastShardKeeps
<1>5. CASE WriteBinaryIndex
  BY <1>5, WriteBinaryIndexKeeps
<1>6. CASE WriteManifest
  BY <1>6, WriteManifestKeeps
<1>7. CASE Leave
  BY <1>7, NoBuildGood DEF Leave, ShardsInv, DirGood, ReaderGood
<1>8. CASE ReadSet
  BY <1>8, ReadSetKeeps
<1>9. CASE Replace
  BY <1>9, ReplaceKeeps
<1>10. CASE DamageSet
  BY <1>10, DamageSetKeeps
<1>11. CASE UNCHANGED shard_vars
  BY <1>11 DEF shard_vars, ShardsInv, BuildGood, DirGood, ReaderGood, Current, PackedCount
<1> QED BY <1>1, <1>2, <1>3, <1>4, <1>5, <1>6, <1>7, <1>8, <1>9, <1>10, <1>11 DEF ShardsNext

\* For all image lists and shard sizes, and whatever builds were stopped or followed
\* each other, images replaced and files damaged: an accepted set is one whole list, each
\* record the package of the image of its place, its tensor of the file whose digest it
\* carries unless that was replaced between decoding and hashing, and no shard exceeds
\* its target (sd_pack.py: build_input_shards, validate_input_shard_set).
THEOREM AcceptedSetsWhole == ShardsSpec => []AcceptedSetWhole
<1>1. ShardsInv => AcceptedSetWhole
  <2> SUFFICES ASSUME ShardsInv, reader.accepted
               PROVE  WholeSet(reader.manifest, reader.shards)
    BY DEF AcceptedSetWhole, WholeSet
  <2>1. /\ SetGood(reader.manifest) /\ Listed(reader.shards)
        /\ Len(reader.shards) = Len(reader.manifest.shards)
        /\ validate_input_shard_set(reader.manifest, reader.index, reader.shards)
    BY DEF ShardsInv, ReaderGood
  <2> QED BY <2>1, AcceptedWhole
<1> QED BY <1>1, ShardsStart, ShardsSteps, PTL DEF ShardsSpec

--------------------------------------------------------------------------------
\* The stages before the first gate, and those of QAT with its gate.
First   == {"split", "fp32", "ptq", "ptq-eval", "gate"}
Trained == {"qat", "qat-eval", "qat-gate"}

\* A stage's output is of this process and of the outputs that are there, and a gate
\* repeats what the evaluation says.
FreshOutput(s) ==
  /\ output[s].by = proc.id /\ output[s].from = {output[n] : n \in Needs(s)}
  /\ s = "gate" => output[s].ok = output["ptq-eval"].ok
  /\ s = "qat-gate" => output[s].ok = output["qat-eval"].ok

\* host-all has these stages before it and those behind it, marked.
At(todo, done) == proc.todo = todo /\ \A s \in done : FreshOutput(s) /\ marker[s] = output[s]

\* Behind a gate that passed, with the parameters it passed.
Behind(done) ==
  \/ proc.selected = "ptq" /\ output["gate"].ok /\ done = First
  \/ proc.selected = "qat" /\ ~output["gate"].ok /\ output["qat-gate"].ok /\ done = First \cup Trained

OnTheWay ==
  \/ At(Prefix, {})
  \/ At(<<"fp32", "ptq", "ptq-eval", "gate">>, {"split"})
  \/ At(<<"ptq", "ptq-eval", "gate">>, {"split", "fp32"})
  \/ At(<<"ptq-eval", "gate">>, {"split", "fp32", "ptq"})
  \/ At(<<"gate">>, {"split", "fp32", "ptq", "ptq-eval"})
  \/ ~output["gate"].ok /\ \/ At(Qat, First)
                           \/ At(<<"qat-eval", "qat-gate">>, First \cup {"qat"})
                           \/ At(<<"qat-gate">>, First \cup {"qat", "qat-eval"})
  \/ \E done \in {First, First \cup Trained} :
       Behind(done) /\ (At(FinishStages, done) \/ At(<<"header">>, done \cup {"package"}))

\* Every process ends, and none is released but at the end of its way.
PipelineInv ==
  /\ DOMAIN output = Stages /\ DOMAIN marker = Stages
  /\ DOMAIN proc = {"id", "all", "todo", "written", "selected", "ended"}
  /\ StageRuns => proc.ended = "none"
  /\ StageRuns /\ proc.all => OnTheWay /\ (proc.written => FreshOutput(Stage))
  /\ ReleasedPassed

\* Which stage is first, and what is left behind it.
LEMMA Ways ==
  /\ Head(Prefix) = "split" /\ Tail(Prefix) = <<"fp32", "ptq", "ptq-eval", "gate">>
  /\ Head(<<"fp32", "ptq", "ptq-eval", "gate">>) = "fp32"
  /\ Tail(<<"fp32", "ptq", "ptq-eval", "gate">>) = <<"ptq", "ptq-eval", "gate">>
  /\ Head(<<"ptq", "ptq-eval", "gate">>) = "ptq" /\ Tail(<<"ptq", "ptq-eval", "gate">>) = <<"ptq-eval", "gate">>
  /\ Head(<<"ptq-eval", "gate">>) = "ptq-eval" /\ Tail(<<"ptq-eval", "gate">>) = <<"gate">>
  /\ Head(<<"gate">>) = "gate"
  /\ Head(Qat) = "qat" /\ Tail(Qat) = <<"qat-eval", "qat-gate">>
  /\ Head(<<"qat-eval", "qat-gate">>) = "qat-eval" /\ Tail(<<"qat-eval", "qat-gate">>) = <<"qat-gate">>
  /\ Head(<<"qat-gate">>) = "qat-gate"
  /\ Head(FinishStages) = "package" /\ Tail(FinishStages) = <<"header">>
  /\ Head(<<"header">>) = "header"
  BY DEF Prefix, Qat, FinishStages

\* What the stages need.
LEMMA WhatIsNeeded ==
  /\ Needs("split") = {} /\ Needs("fp32") = {} /\ Needs("ptq") = {"split"} /\ Needs("ptq-eval") = {"ptq"}
  /\ Needs("gate") = {"fp32", "ptq-eval"} /\ Needs("qat") = {"ptq", "fp32", "ptq-eval", "split"}
  /\ Needs("qat-eval") = {"qat"} /\ Needs("qat-gate") = {"fp32", "qat-eval"}
  /\ Needs("package") = {proc.selected} /\ Needs("header") = {"package", proc.selected}
  BY DEF Needs

\* A process that has ended, but not by its release.
LEMMA EndsKeeps ==
  ASSUME PipelineInv, NEW how, proc' = Ends(how), how # "released",
         DOMAIN output' = Stages, DOMAIN marker' = Stages
  PROVE  PipelineInv'
<1>1. /\ DOMAIN proc' = {"id", "all", "todo", "written", "selected", "ended"}
      /\ proc'.todo = <<>> /\ proc'.ended = how
  BY DEF Ends, NotRunning
<1> QED BY <1>1 DEF PipelineInv, StageRuns, ReleasedPassed

\* Before any process there is nothing, and nothing is released.
LEMMA PipelineStarts == PipelineInit => PipelineInv
<1> SUFFICES ASSUME PipelineInit
             PROVE  PipelineInv
  OBVIOUS
<1>1. /\ DOMAIN proc = {"id", "all", "todo", "written", "selected", "ended"}
      /\ proc.todo = <<>> /\ proc.ended = "none"
  BY DEF PipelineInit, NotRunning
<1> QED BY <1>1 DEF PipelineInit, PipelineInv, StageRuns, ReleasedPassed

\* host-all begins at the beginning of its way (pipeline.py:377).
LEMMA BeginKeeps ==
  ASSUME PipelineInv, BeginProcess
  PROVE  PipelineInv'
<1>1. DOMAIN output' = Stages /\ DOMAIN marker' = Stages
  BY DEF BeginProcess, PipelineInv
<1>2. CASE proc' = [NotRunning EXCEPT !.id = started + 1, !.all = TRUE, !.todo = Prefix]
  <2>1. /\ DOMAIN proc' = {"id", "all", "todo", "written", "selected", "ended"}
        /\ proc'.todo = Prefix /\ proc'.ended = "none" /\ proc'.written = FALSE
    BY <1>2 DEF NotRunning
  <2>2. OnTheWay'
    BY <2>1 DEF OnTheWay, At
  <2> QED BY <1>1, <2>1, <2>2 DEF PipelineInv, ReleasedPassed
<1>3. ASSUME NEW s, proc' = [NotRunning EXCEPT !.id = started + 1, !.todo = <<s>>, !.selected = Existing]
      PROVE  PipelineInv'
  <2>1. /\ DOMAIN proc' = {"id", "all", "todo", "written", "selected", "ended"}
        /\ proc'.all = FALSE /\ proc'.ended = "none"
    BY <1>3 DEF NotRunning
  <2> QED BY <1>1, <2>1 DEF PipelineInv, ReleasedPassed
<1> QED BY <1>2, <1>3 DEF BeginProcess

\* A new output is of what is there, and nothing behind it is made of it.
LEMMA MadeBehind ==
  ASSUME PipelineInv, Stage \in Stages, NEW ok \in Verdicts(Stage),
         output' = [output EXCEPT ![Stage] = Made(Stage, ok)],
         proc' = [proc EXCEPT !.written = TRUE], UNCHANGED marker,
         NEW todo, NEW done, done \subseteq Stages \ {Stage}, At(todo, done),
         \A s \in done : Needs(s) \subseteq done,
         Needs(Stage) \subseteq done,
         "gate" \in done \cup {Stage} => "ptq-eval" \in done, "qat-gate" \in done \cup {Stage} => "qat-eval" \in done
  PROVE  At(todo, done)' /\ FreshOutput(Stage)' /\ Stage' = Stage /\ \A s \in done : output'[s] = output[s]
<1>1. proc'.todo = proc.todo /\ proc'.id = proc.id /\ proc'.selected = proc.selected /\ Stage' = Stage
  BY DEF PipelineInv, Stage
<1>2. /\ \A s \in done : output'[s] = output[s] /\ s # Stage
      /\ output'[Stage] = Made(Stage, ok)
  BY DEF PipelineInv
<1>3. \A s : Needs(s)' = Needs(s)
  BY <1>1 DEF Needs
<1>4. ASSUME NEW s \in done
      PROVE  FreshOutput(s)' /\ marker'[s] = output'[s]
  <2>1. FreshOutput(s) /\ marker[s] = output[s]
    BY DEF At
  <2>2. {output'[n] : n \in Needs(s)'} = {output[n] : n \in Needs(s)}
    BY <1>2, <1>3
  <2>3. s = "gate" => output'["ptq-eval"] = output["ptq-eval"]
    BY <1>2
  <2>4. s = "qat-gate" => output'["qat-eval"] = output["qat-eval"]
    BY <1>2
  <2>5. output'[s] = output[s]
    BY <1>2
  <2> QED BY <1>1, <2>1, <2>2, <2>3, <2>4, <2>5 DEF FreshOutput
<1>5. At(todo, done)'
  BY <1>1, <1>4 DEF At
<1>6. FreshOutput(Stage)'
  <2>1. /\ output'[Stage].by = proc.id /\ output'[Stage].from = {output[n] : n \in Needs(Stage)}
        /\ output'[Stage].ok = ok
    BY <1>2 DEF Made
  <2>21. Needs(Stage)' = Needs(Stage)
    BY <1>1 DEF Needs
  <2>22. \A n \in Needs(Stage) : output'[n] = output[n]
    BY <1>2
  <2>2. {output'[n] : n \in Needs(Stage)'} = {output[n] : n \in Needs(Stage)}
    BY <2>21, <2>22
  <2>3. Stage = "gate" => ok = output'["ptq-eval"].ok
    BY <1>2 DEF Verdicts
  <2>4. Stage = "qat-gate" => ok = output'["qat-eval"].ok
    BY <1>2 DEF Verdicts
  <2> HIDE DEF Stage
  <2> QED BY <1>1, <2>1, <2>2, <2>3, <2>4 DEF FreshOutput
<1> QED BY <1>1, <1>2, <1>5, <1>6

\* A stage that works, or fails, keeps the invariant.
LEMMA WorkKeeps ==
  ASSUME PipelineInv, WorkStage
  PROVE  PipelineInv'
<1>1. DOMAIN output' = Stages /\ DOMAIN marker' = Stages
  BY DEF WorkStage, PipelineInv
<1>2. CASE proc' = Ends("error")
  BY <1>1, <1>2, EndsKeeps
<1>3. ASSUME NEW ok \in Verdicts(Stage), output' = [output EXCEPT ![Stage] = Made(Stage, ok)],
             proc' = [proc EXCEPT !.written = TRUE]
      PROVE  PipelineInv'
  <2>1. /\ DOMAIN proc' = DOMAIN proc /\ proc'.todo = proc.todo /\ proc'.all = proc.all
        /\ proc'.ended = proc.ended /\ proc'.selected = proc.selected /\ proc'.written = TRUE
    BY <1>3 DEF PipelineInv
  <2>2. StageRuns /\ UNCHANGED marker /\ proc.ended = "none"
    BY DEF WorkStage, PipelineInv
  <2>3. ASSUME NEW todo, NEW done, done \subseteq Stages \ {Stage}, At(todo, done), Stage \in Stages,
               \A s \in done : Needs(s) \subseteq done,
               Needs(Stage) \subseteq done,
               "gate" \in done \cup {Stage} => "ptq-eval" \in done, "qat-gate" \in done \cup {Stage} => "qat-eval" \in done
        PROVE  At(todo, done)' /\ FreshOutput(Stage)' /\ \A s \in done : output'[s] = output[s]
    BY <1>3, <2>2, <2>3, MadeBehind
  <2>4. ASSUME proc.all
        PROVE  OnTheWay' /\ FreshOutput(Stage)'
    <3>0. OnTheWay
      BY <2>2, <2>4 DEF PipelineInv
    <3>1. CASE At(Prefix, {})
      <4>1. Stage = "split"
        BY <3>1, Ways DEF At, Stage
      <4>2. At(Prefix, {})' /\ FreshOutput(Stage)'
        BY <2>3, <3>1, <4>1, WhatIsNeeded DEF Stages
      <4> QED BY <4>2 DEF OnTheWay
    <3>2. CASE At(<<"fp32", "ptq", "ptq-eval", "gate">>, {"split"})
      <4>1. Stage = "fp32"
        BY <3>2, Ways DEF At, Stage
      <4>2. At(<<"fp32", "ptq", "ptq-eval", "gate">>, {"split"})' /\ FreshOutput(Stage)' /\ \A s \in {"split"} : output'[s] = output[s]
        BY <2>3, <3>2, <4>1, WhatIsNeeded DEF Stages, First
      <4> QED BY <4>2 DEF OnTheWay
    <3>3. CASE At(<<"ptq", "ptq-eval", "gate">>, {"split", "fp32"})
      <4>1. Stage = "ptq"
        BY <3>3, Ways DEF At, Stage
      <4>2. At(<<"ptq", "ptq-eval", "gate">>, {"split", "fp32"})' /\ FreshOutput(Stage)' /\ \A s \in {"split", "fp32"} : output'[s] = output[s]
        BY <2>3, <3>3, <4>1, WhatIsNeeded DEF Stages, First
      <4> QED BY <4>2 DEF OnTheWay
    <3>4. CASE At(<<"ptq-eval", "gate">>, {"split", "fp32", "ptq"})
      <4>1. Stage = "ptq-eval"
        BY <3>4, Ways DEF At, Stage
      <4>2. At(<<"ptq-eval", "gate">>, {"split", "fp32", "ptq"})' /\ FreshOutput(Stage)' /\ \A s \in {"split", "fp32", "ptq"} : output'[s] = output[s]
        BY <2>3, <3>4, <4>1, WhatIsNeeded DEF Stages, First
      <4> QED BY <4>2 DEF OnTheWay
    <3>5. CASE At(<<"gate">>, {"split", "fp32", "ptq", "ptq-eval"})
      <4>1. Stage = "gate"
        BY <3>5, Ways DEF At, Stage
      <4>2. At(<<"gate">>, {"split", "fp32", "ptq", "ptq-eval"})' /\ FreshOutput(Stage)' /\ \A s \in {"split", "fp32", "ptq", "ptq-eval"} : output'[s] = output[s]
        BY <2>3, <3>5, <4>1, WhatIsNeeded DEF Stages, First
      <4> QED BY <4>2 DEF OnTheWay
    <3>6. CASE ~output["gate"].ok /\ At(Qat, First)
      <4>1. Stage = "qat"
        BY <3>6, Ways DEF At, Stage
      <4>2. At(Qat, First)' /\ FreshOutput(Stage)' /\ \A s \in First : output'[s] = output[s]
        BY <2>3, <3>6, <4>1, WhatIsNeeded DEF Stages, First
      <4>3. ~output'["gate"].ok
        BY <3>6, <4>2 DEF First
      <4> QED BY <4>2, <4>3 DEF OnTheWay
    <3>7. CASE ~output["gate"].ok /\ At(<<"qat-eval", "qat-gate">>, First \cup {"qat"})
      <4>1. Stage = "qat-eval"
        BY <3>7, Ways DEF At, Stage
      <4>2. At(<<"qat-eval", "qat-gate">>, First \cup {"qat"})' /\ FreshOutput(Stage)' /\ \A s \in First \cup {"qat"} : output'[s] = output[s]
        BY <2>3, <3>7, <4>1, WhatIsNeeded DEF Stages, First
      <4>3. ~output'["gate"].ok
        BY <3>7, <4>2 DEF First
      <4> QED BY <4>2, <4>3 DEF OnTheWay
    <3>8. CASE ~output["gate"].ok /\ At(<<"qat-gate">>, First \cup {"qat", "qat-eval"})
      <4>1. Stage = "qat-gate"
        BY <3>8, Ways DEF At, Stage
      <4>2. At(<<"qat-gate">>, First \cup {"qat", "qat-eval"})' /\ FreshOutput(Stage)' /\ \A s \in First \cup {"qat", "qat-eval"} : output'[s] = output[s]
        BY <2>3, <3>8, <4>1, WhatIsNeeded DEF Stages, First
      <4>3. ~output'["gate"].ok
        BY <3>8, <4>2 DEF First
      <4> QED BY <4>2, <4>3 DEF OnTheWay
    <3>9. ASSUME NEW done \in {First, First \cup Trained}, Behind(done), At(FinishStages, done)
          PROVE  OnTheWay' /\ FreshOutput(Stage)'
      <4>1. Stage = "package"
        BY <3>9, Ways DEF At, Stage
      <4>2. proc.selected \in done /\ done \subseteq Stages \ {"package", "header"}
        BY <3>9 DEF Behind, First, Trained, Stages
      <4>3. \A s \in done : Needs(s) \subseteq done
        BY <3>9, WhatIsNeeded DEF First, Trained
      <4>4. "gate" \in done /\ "ptq-eval" \in done /\ ("qat-gate" \in done <=> "qat-eval" \in done)
        BY <3>9 DEF First, Trained
      <4>41. done \subseteq Stages \ {Stage} /\ Stage \in Stages
        BY <4>1, <4>2 DEF Stages
      <4>42. Needs(Stage) \subseteq done /\ \A s \in done : Needs(s) \subseteq done
        BY <4>1, <4>2, <4>3, WhatIsNeeded
      <4>43. /\ "gate" \in (done) \cup {Stage} => "ptq-eval" \in done
             /\ "qat-gate" \in (done) \cup {Stage} => "qat-eval" \in done
        BY <4>1, <4>4
      <4>5. At(FinishStages, done)' /\ FreshOutput(Stage)' /\ \A s \in done : output'[s] = output[s]
        BY <2>3, <3>9, <4>41, <4>42, <4>43
      <4>6. Behind(done)'
        <5>1. output'["gate"] = output["gate"] /\ ("qat-gate" \in done => output'["qat-gate"] = output["qat-gate"])
          BY <4>4, <4>5
        <5>2. proc.selected = "qat" => "qat-gate" \in done
          BY <3>9 DEF Behind, First, Trained
        <5> QED BY <2>1, <3>9, <5>1, <5>2 DEF Behind
      <4> QED BY <4>5, <4>6 DEF OnTheWay
    <3>10. ASSUME NEW done \in {First, First \cup Trained}, Behind(done), At(<<"header">>, done \cup {"package"})
          PROVE  OnTheWay' /\ FreshOutput(Stage)'
      <4>1. Stage = "header"
        BY <3>10, Ways DEF At, Stage
      <4>2. proc.selected \in done /\ done \subseteq Stages \ {"package", "header"}
        BY <3>10 DEF Behind, First, Trained, Stages
      <4>3. \A s \in done : Needs(s) \subseteq done
        BY <3>10, WhatIsNeeded DEF First, Trained
      <4>4. "gate" \in done /\ "ptq-eval" \in done /\ ("qat-gate" \in done <=> "qat-eval" \in done)
        BY <3>10 DEF First, Trained
      <4>41. done \cup {"package"} \subseteq Stages \ {Stage} /\ Stage \in Stages
        BY <4>1, <4>2 DEF Stages
      <4>42. Needs(Stage) \subseteq done \cup {"package"} /\ \A s \in done \cup {"package"} : Needs(s) \subseteq done \cup {"package"}
        BY <4>1, <4>2, <4>3, WhatIsNeeded
      <4>43. /\ "gate" \in (done \cup {"package"}) \cup {Stage} => "ptq-eval" \in done \cup {"package"}
             /\ "qat-gate" \in (done \cup {"package"}) \cup {Stage} => "qat-eval" \in done \cup {"package"}
        BY <4>1, <4>4
      <4>5. At(<<"header">>, done \cup {"package"})' /\ FreshOutput(Stage)' /\ \A s \in done \cup {"package"} : output'[s] = output[s]
        BY <2>3, <3>10, <4>41, <4>42, <4>43
      <4>6. Behind(done)'
        <5>1. output'["gate"] = output["gate"] /\ ("qat-gate" \in done => output'["qat-gate"] = output["qat-gate"])
          BY <4>4, <4>5
        <5>2. proc.selected = "qat" => "qat-gate" \in done
          BY <3>10 DEF Behind, First, Trained
        <5> QED BY <2>1, <3>10, <5>1, <5>2 DEF Behind
      <4> QED BY <4>5, <4>6 DEF OnTheWay
    <3> QED BY <3>0, <3>1, <3>2, <3>3, <3>4, <3>5, <3>6, <3>7, <3>8, <3>9, <3>10 DEF OnTheWay
  <2> QED BY <1>1, <2>1, <2>2, <2>4 DEF PipelineInv, ReleasedPassed
<1> QED BY <1>2, <1>3 DEF WorkStage

\* A stage that is marked is behind the process; what was before it still is.
LEMMA MarkedBehind ==
  ASSUME NEW todo, NEW done, At(todo, done), FreshOutput(Stage), UNCHANGED output, DOMAIN marker = Stages, Stage \in Stages,
         marker' = [marker EXCEPT ![Stage] = output[Stage]], proc'.id = proc.id,
         \A s \in done \cup {Stage} : Needs(s)' = Needs(s),
         NEW more, more = done \cup {Stage}, NEW next, proc'.todo = next
  PROVE  At(next, more)'
<1>1. ASSUME NEW s \in more
      PROVE  FreshOutput(s)' /\ marker'[s] = output'[s]
  <2>1. FreshOutput(s) /\ Needs(s)' = Needs(s)
    BY DEF At
  <2>2. marker'[s] = output'[s]
    BY DEF At
  <2>3. FreshOutput(s)'
    BY <2>1 DEF FreshOutput
  <2> QED BY <2>2, <2>3
<1> QED BY <1>1 DEF At

\* _write_stage and what main does after it: on along the way, behind a gate only if
\* it passed, released only with all of the way behind it.
LEMMA MarkKeeps ==
  ASSUME PipelineInv, Mark
  PROVE  PipelineInv'
<1>1. /\ DOMAIN output' = Stages /\ DOMAIN marker' = Stages /\ UNCHANGED output /\ DOMAIN marker = Stages
      /\ StageRuns /\ proc.written /\ proc.ended = "none"
  BY DEF Mark, PipelineInv
<1>2. CASE \E how \in {"error", "ok", "killed", "blocked"} : proc' = Ends(how)
  BY <1>1, <1>2, EndsKeeps
<1>3. ASSUME marker' = [marker EXCEPT ![Stage] = output[Stage]], proc' = Continue
      PROVE  PipelineInv'
  <2>1. CASE ~proc.all
    <3>1. \E how \in {"error", "ok"} : proc' = Ends(how)
      BY <1>3, <2>1 DEF Continue
    <3> QED BY <1>2, <3>1
  <2>2. CASE proc.all
    <3>0. OnTheWay /\ FreshOutput(Stage)
      BY <1>1, <2>2 DEF PipelineInv
    <3> DEFINE on == [proc EXCEPT !.todo = Tail(@), !.written = FALSE]
    <3>01. /\ DOMAIN on = {"id", "all", "todo", "written", "selected", "ended"}
           /\ on.id = proc.id /\ on.todo = Tail(proc.todo) /\ on.written = FALSE
           /\ on.selected = proc.selected /\ on.ended = "none"
      BY <1>1 DEF PipelineInv
    <3>02. ASSUME proc' = on, OnTheWay'
           PROVE  PipelineInv'
      <4> HIDE DEF on
      <4> QED BY <1>1, <3>01, <3>02 DEF PipelineInv, ReleasedPassed
    <3>03. proc'.selected = proc.selected => \A s : Needs(s)' = Needs(s)
      BY DEF Needs
    <3>04. ASSUME proc' = on, NEW todo, NEW done, At(todo, done), Stage \in Stages,
                  NEW more, more = done \cup {Stage}, NEW next, Tail(proc.todo) = next
           PROVE  At(next, more)'
      <4> HIDE DEF on, Stage
      <4>1. proc'.id = proc.id /\ proc'.todo = next /\ proc'.selected = proc.selected
        BY <3>01, <3>04
      <4>2. \A s \in done \cup {Stage} : Needs(s)' = Needs(s)
        BY <3>03, <4>1
      <4> QED BY <1>1, <1>3, <3>0, <3>04, <4>1, <4>2, MarkedBehind
    <3>1. CASE At(Prefix, {})
      <4>1. Stage = "split" /\ Tail(proc.todo) = <<"fp32", "ptq", "ptq-eval", "gate">>
        BY <3>1, Ways DEF At, Stage
      <4>2. proc' = on
        BY <1>3, <2>2, <4>1 DEF Continue
      <4> HIDE DEF on
      <4>20. {"split"} = {} \cup {Stage} /\ Stage \in Stages
        BY <4>1 DEF Stages
      <4>3. At(<<"fp32", "ptq", "ptq-eval", "gate">>, {"split"})'
        BY <3>1, <3>04, <4>1, <4>2, <4>20
      <4>4. OnTheWay'
        BY <1>1, <3>1, <4>3 DEF OnTheWay
      <4> QED BY <3>02, <4>2, <4>4
    <3>2. CASE At(<<"fp32", "ptq", "ptq-eval", "gate">>, {"split"})
      <4>1. Stage = "fp32" /\ Tail(proc.todo) = <<"ptq", "ptq-eval", "gate">>
        BY <3>2, Ways DEF At, Stage
      <4>2. proc' = on
        BY <1>3, <2>2, <4>1 DEF Continue
      <4> HIDE DEF on
      <4>20. {"split", "fp32"} = {"split"} \cup {Stage} /\ Stage \in Stages
        BY <4>1 DEF Stages
      <4>3. At(<<"ptq", "ptq-eval", "gate">>, {"split", "fp32"})'
        BY <3>2, <3>04, <4>1, <4>2, <4>20
      <4>4. OnTheWay'
        BY <1>1, <3>2, <4>3 DEF OnTheWay
      <4> QED BY <3>02, <4>2, <4>4
    <3>3. CASE At(<<"ptq", "ptq-eval", "gate">>, {"split", "fp32"})
      <4>1. Stage = "ptq" /\ Tail(proc.todo) = <<"ptq-eval", "gate">>
        BY <3>3, Ways DEF At, Stage
      <4>2. proc' = on
        BY <1>3, <2>2, <4>1 DEF Continue
      <4> HIDE DEF on
      <4>20. {"split", "fp32", "ptq"} = {"split", "fp32"} \cup {Stage} /\ Stage \in Stages
        BY <4>1 DEF Stages
      <4>3. At(<<"ptq-eval", "gate">>, {"split", "fp32", "ptq"})'
        BY <3>3, <3>04, <4>1, <4>2, <4>20
      <4>4. OnTheWay'
        BY <1>1, <3>3, <4>3 DEF OnTheWay
      <4> QED BY <3>02, <4>2, <4>4
    <3>4. CASE At(<<"ptq-eval", "gate">>, {"split", "fp32", "ptq"})
      <4>1. Stage = "ptq-eval" /\ Tail(proc.todo) = <<"gate">>
        BY <3>4, Ways DEF At, Stage
      <4>2. proc' = on
        BY <1>3, <2>2, <4>1 DEF Continue
      <4> HIDE DEF on
      <4>20. {"split", "fp32", "ptq", "ptq-eval"} = {"split", "fp32", "ptq"} \cup {Stage} /\ Stage \in Stages
        BY <4>1 DEF Stages
      <4>3. At(<<"gate">>, {"split", "fp32", "ptq", "ptq-eval"})'
        BY <3>4, <3>04, <4>1, <4>2, <4>20
      <4>4. OnTheWay'
        BY <1>1, <3>4, <4>3 DEF OnTheWay
      <4> QED BY <3>02, <4>2, <4>4
    <3>5. CASE At(<<"gate">>, {"split", "fp32", "ptq", "ptq-eval"})
      <4>1. Stage = "gate"
        BY <3>5, Ways DEF At, Stage
      <4>2. CASE output["gate"].ok
        <5>1. proc' = [proc EXCEPT !.todo = FinishStages, !.written = FALSE, !.selected = "ptq"]
          BY <1>3, <2>2, <4>1, <4>2 DEF Continue
        <5>2. /\ DOMAIN proc' = DOMAIN proc /\ proc'.id = proc.id /\ proc'.todo = FinishStages
              /\ proc'.written = FALSE /\ proc'.selected = "ptq" /\ proc'.ended = "none"
          BY <1>1, <5>1 DEF PipelineInv
        <5>3. \A s \in First : Needs(s)' = Needs(s)
          BY DEF Needs, First, Trained
        <5>4. First = ({"split", "fp32", "ptq", "ptq-eval"}) \cup {Stage}
          BY <4>1 DEF First, Trained
        <5>5. At(FinishStages, First)'
          BY <1>1, <1>3, <3>0, <3>5, <4>1, <5>2, <5>3, <5>4, MarkedBehind DEF Stages
        <5>6. Behind(First)'
          BY <1>1, <3>5, <4>2, <5>2 DEF Behind
        <5>7. OnTheWay'
          BY <5>5, <5>6 DEF OnTheWay
        <5> QED BY <1>1, <5>2, <5>7 DEF PipelineInv, ReleasedPassed
      <4>3. CASE ~output["gate"].ok
        <5>1. proc' = [proc EXCEPT !.todo = Qat, !.written = FALSE]
          BY <1>3, <2>2, <4>1, <4>3 DEF Continue
        <5>2. /\ DOMAIN proc' = DOMAIN proc /\ proc'.id = proc.id /\ proc'.todo = Qat
              /\ proc'.written = FALSE /\ proc'.selected = proc.selected /\ proc'.ended = "none"
          BY <1>1, <5>1 DEF PipelineInv
        <5>4. First = {"split", "fp32", "ptq", "ptq-eval"} \cup {Stage}
          BY <4>1 DEF First
        <5>5. At(Qat, First)'
          BY <1>1, <1>3, <3>0, <3>03, <3>5, <4>1, <5>2, <5>4, MarkedBehind DEF Stages
        <5>7. OnTheWay'
          BY <1>1, <4>1, <4>3, <5>5 DEF OnTheWay
        <5> QED BY <1>1, <5>2, <5>7 DEF PipelineInv, ReleasedPassed
      <4> QED BY <4>2, <4>3
    <3>6. CASE ~output["gate"].ok /\ At(Qat, First)
      <4>1. Stage = "qat" /\ Tail(proc.todo) = <<"qat-eval", "qat-gate">>
        BY <3>6, Ways DEF At, Stage
      <4>2. CASE ~output["qat"].ok
        <5>1. proc' = Ends("error")
          BY <1>3, <2>2, <4>1, <4>2 DEF Continue
        <5> QED BY <1>2, <5>1
      <4>3. CASE output["qat"].ok
        <5>1. proc' = on
          BY <1>3, <2>2, <4>1, <4>3 DEF Continue
        <5> HIDE DEF on
        <5>20. First \cup {"qat"} = First \cup {Stage} /\ Stage \in Stages
          BY <4>1 DEF Stages
        <5>2. At(<<"qat-eval", "qat-gate">>, First \cup {"qat"})'
          BY <3>6, <3>04, <4>1, <5>1, <5>20
        <5>3. OnTheWay'
          BY <1>1, <3>6, <5>2 DEF OnTheWay
        <5> QED BY <3>02, <5>1, <5>3
      <4> QED BY <4>2, <4>3
    <3>7. CASE ~output["gate"].ok /\ At(<<"qat-eval", "qat-gate">>, First \cup {"qat"})
      <4>1. Stage = "qat-eval" /\ Tail(proc.todo) = <<"qat-gate">>
        BY <3>7, Ways DEF At, Stage
      <4>2. proc' = on
        BY <1>3, <2>2, <4>1 DEF Continue
      <4> HIDE DEF on
      <4>20. First \cup {"qat", "qat-eval"} = (First \cup {"qat"}) \cup {Stage} /\ Stage \in Stages
        BY <4>1 DEF Stages
      <4>3. At(<<"qat-gate">>, First \cup {"qat", "qat-eval"})'
        BY <3>7, <3>04, <4>1, <4>2, <4>20
      <4>4. OnTheWay'
        BY <1>1, <3>7, <4>3 DEF OnTheWay
      <4> QED BY <3>02, <4>2, <4>4
    <3>8. CASE ~output["gate"].ok /\ At(<<"qat-gate">>, First \cup {"qat", "qat-eval"})
      <4>1. Stage = "qat-gate"
        BY <3>8, Ways DEF At, Stage
      <4>2. CASE output["qat-gate"].ok
        <5>1. proc' = [proc EXCEPT !.todo = FinishStages, !.written = FALSE, !.selected = "qat"]
          BY <1>3, <2>2, <4>1, <4>2 DEF Continue
        <5>2. /\ DOMAIN proc' = DOMAIN proc /\ proc'.id = proc.id /\ proc'.todo = FinishStages
              /\ proc'.written = FALSE /\ proc'.selected = "qat" /\ proc'.ended = "none"
          BY <1>1, <5>1 DEF PipelineInv
        <5>3. \A s \in First \cup Trained : Needs(s)' = Needs(s)
          BY DEF Needs, First, Trained
        <5>4. First \cup Trained = (First \cup {"qat", "qat-eval"}) \cup {Stage}
          BY <4>1 DEF First, Trained
        <5>5. At(FinishStages, First \cup Trained)'
          BY <1>1, <1>3, <3>0, <3>8, <4>1, <5>2, <5>3, <5>4, MarkedBehind DEF Stages
        <5>6. Behind(First \cup Trained)'
          BY <1>1, <3>8, <4>2, <5>2 DEF Behind
        <5>7. OnTheWay'
          BY <5>5, <5>6 DEF OnTheWay
        <5> QED BY <1>1, <5>2, <5>7 DEF PipelineInv, ReleasedPassed
      <4>3. CASE ~output["qat-gate"].ok
        <5>1. proc' = Ends("blocked")
          BY <1>3, <2>2, <4>1, <4>3 DEF Continue
        <5> QED BY <1>2, <5>1
      <4> QED BY <4>2, <4>3
    <3>9. ASSUME NEW done \in {First, First \cup Trained}, Behind(done), At(FinishStages, done)
          PROVE  PipelineInv'
      <4>1. Stage = "package" /\ Tail(proc.todo) = <<"header">>
        BY <3>9, Ways DEF At, Stage
      <4>2. proc' = on
        BY <1>3, <2>2, <4>1 DEF Continue
      <4> HIDE DEF on
      <4>20. done \cup {"package"} = done \cup {Stage} /\ Stage \in Stages
        BY <4>1 DEF Stages
      <4>3. At(<<"header">>, done \cup {"package"})'
        BY <3>9, <3>04, <4>1, <4>2, <4>20
      <4>4. Behind(done)'
        BY <1>1, <3>9, <3>01, <4>2 DEF Behind
      <4>5. OnTheWay'
        BY <4>3, <4>4 DEF OnTheWay
      <4> QED BY <3>02, <4>2, <4>5
    <3>10. ASSUME NEW done \in {First, First \cup Trained}, Behind(done), At(<<"header">>, done \cup {"package"})
           PROVE  PipelineInv'
      <4>1. Stage = "header"
        BY <3>10, Ways DEF At, Stage
      <4>2. proc' = Ends("released")
        BY <1>3, <2>2, <4>1 DEF Continue
      <4>3. /\ DOMAIN proc' = {"id", "all", "todo", "written", "selected", "ended"} /\ proc'.todo = <<>>
        BY <4>2 DEF Ends, NotRunning
      <4>4. \A s \in done \cup {"package"} : /\ FreshOutput(s) /\ marker[s] = output[s]
                                            /\ marker'[s] = output'[s] /\ output'[s] = output[s]
        BY <1>1, <1>3, <3>10, <4>1 DEF At, First, Trained
      <4>5. FreshOutput("header") /\ marker'["header"] = output'["header"] /\ output'["header"] = output["header"]
        BY <1>1, <1>3, <3>0, <4>1 DEF Stages
      <4>6. ReleasedPassed'
        <5>1. CASE proc.selected = "ptq" /\ output["gate"].ok /\ done = First
          BY <4>4, <4>5, <5>1, WhatIsNeeded DEF FreshOutput, First, ReleasedPassed
        <5>2. CASE proc.selected = "qat" /\ ~output["gate"].ok /\ output["qat-gate"].ok /\ done = First \cup Trained
          BY <4>4, <4>5, <5>2, WhatIsNeeded DEF FreshOutput, First, Trained, ReleasedPassed
        <5> QED BY <3>10, <5>1, <5>2 DEF Behind
      <4> QED BY <1>1, <4>3, <4>6 DEF PipelineInv, StageRuns
    <3> QED BY <3>0, <3>1, <3>2, <3>3, <3>4, <3>5, <3>6, <3>7, <3>8, <3>9, <3>10 DEF OnTheWay
  <2> QED BY <2>1, <2>2
<1> QED BY <1>2, <1>3 DEF Mark, Continue

\* Every step keeps the invariant.
LEMMA PipelineSteps == PipelineInv /\ [PipelineNext]_hvars => PipelineInv'
<1> SUFFICES ASSUME PipelineInv, [PipelineNext]_hvars
             PROVE  PipelineInv'
  OBVIOUS
<1>1. CASE BeginProcess
  BY <1>1, BeginKeeps
<1>2. CASE WorkStage
  BY <1>2, WorkKeeps
<1>3. CASE KilledAtWork
  <2>1. DOMAIN output' = Stages /\ DOMAIN marker' = Stages
    BY <1>3 DEF KilledAtWork, PipelineInv
  <2> QED BY <1>3, <2>1, EndsKeeps DEF KilledAtWork
<1>4. CASE Mark
  BY <1>4, MarkKeeps
<1>5. CASE StageKilled
  <2>1. DOMAIN output' = Stages /\ DOMAIN marker' = Stages
    BY <1>5 DEF StageKilled, PipelineInv
  <2> QED BY <1>5, <2>1, EndsKeeps DEF StageKilled
<1>6. CASE UNCHANGED hvars
  <2>1. output' = output /\ marker' = marker /\ proc' = proc
    BY <1>6 DEF hvars
  <2>2. \A s : Needs(s)' = Needs(s)
    BY <2>1 DEF Needs
  <2>3. \A s : FreshOutput(s) => FreshOutput(s)'
    BY <2>1, <2>2 DEF FreshOutput
  <2>4. \A todo, done : At(todo, done) => At(todo, done)'
    BY <2>1, <2>3 DEF At
  <2>5. \A done : Behind(done) => Behind(done)'
    BY <2>1 DEF Behind
  <2>6. OnTheWay => OnTheWay'
    BY <2>1, <2>4, <2>5 DEF OnTheWay
  <2>7. Stage' = Stage /\ StageRuns' = StageRuns
    BY <2>1 DEF Stage, StageRuns
  <2>8. ReleasedPassed'
    BY <2>1 DEF ReleasedPassed, PipelineInv
  <2>9. FreshOutput(Stage) => FreshOutput(Stage)'
    BY <2>1, <2>2, <2>7 DEF FreshOutput
  <2> QED BY <2>1, <2>6, <2>7, <2>8, <2>9 DEF PipelineInv
<1> QED BY <1>1, <1>2, <1>3, <1>4, <1>5, <1>6 DEF PipelineNext

\* What host-all has released passed its gates: package and header are of parameters
\* whose own evaluation passed its gate against the FP32 evaluation of the same run,
\* and every marker describes the file that is there, whatever stages were run, killed
\* or failed in the directory before, any number of processes (pipeline.py:321-397).
THEOREM ReleasesPassed == PipelineSpec => []ReleasedPassed
<1>1. PipelineInv => ReleasedPassed
  BY DEF PipelineInv
<1> QED BY <1>1, PipelineStarts, PipelineSteps, PTL DEF PipelineSpec

===================================================================================
