---------------------------- MODULE MulticoreMailbox ----------------------------
(***************************************************************************)
(* sw/vitis_2022_2/src/coco80_multicore.c: the controller core and the     *)
(* workers, which share a mailbox in memory that is not cached and wake    *)
(* each other with events.  Each step reads or writes one word, or words   *)
(* that no other core writes and that are read together; barriers keep the *)
(* steps in their order.                                                   *)
(*                                                                         *)
(* Included are the boot that starts the cores over a mailbox that still   *)
(* holds what the session before left, commands that fail or time out, and *)
(* the commands that follow them.  Tensors are the sets of channels that   *)
(* were computed; a command's addresses are told apart by its generation.  *)
(***************************************************************************)
EXTENDS Integers

CONSTANTS
  WORKERS,        \* COCO80_MC_WORKERS
  GenMod,         \* 2^32: a generation is a 32-bit word
  PoolChannels, ConvChannels   \* the operations asked for: their channels

ASSUME WorkersAssumption == WORKERS \in Nat \ {0}
ASSUME GenerationAssumption == GenMod \in Nat /\ GenMod > 2
ASSUME CommandAssumption ==
  /\ PoolChannels \subseteq Nat \ {0} /\ ConvChannels \subseteq Nat \ {0}
  /\ \A n \in PoolChannels : n % (WORKERS + 1) = 0

-----------------------------------------------------------------------------
(* How an operation is divided among the cores: part 0 is the              *)
(* controller's, part w worker w's.  A range runs from begin to before     *)
(* end; channels stand for pixels in the operation divided by pixels.      *)

Smaller(a, b) == IF a < b THEN a ELSE b

\* The convolution is divided in blocks of eight channels, of which the first
\* parts get one more when they do not come out even.
blocks(channels) == (channels + 7) \div 8
first_block(channels, part, parts) ==
  part * (blocks(channels) \div parts)
    + Smaller(part, blocks(channels) % parts)
block_count(channels, part, parts) ==
  blocks(channels) \div parts
    + (IF part < blocks(channels) % parts THEN 1 ELSE 0)

ConvRange(channels, part, parts) ==
  LET first == first_block(channels, part, parts)
  IN [begin |-> Smaller(first * 8, channels),
      end |-> Smaller((first + block_count(channels, part, parts)) * 8, channels)]

\* Mutant: a worker gets the range of the part before its own.
PoolRangeShifted(channels, part, parts) ==
  LET per_worker == channels \div parts
      place == IF part = 0 THEN 0 ELSE part - 1
  IN [begin |-> place * per_worker, end |-> (place + 1) * per_worker]

\* The tensor operations take as many channels as can be divided evenly.
PoolRange(channels, part, parts) ==
  LET per_worker == channels \div parts
  IN [begin |-> part * per_worker, end |-> (part + 1) * per_worker]

-----------------------------------------------------------------------------
VARIABLES
  session,            \* "stopped", "invalid": mailbox invalidated, "running"
  magic, region, controller_ready, worker_ready, tasks,     \* the mailbox
  event,              \* each worker's event register
  cpc, index, complete, generation, command,                \* the controller
  wpc, last_generation, job, rc,                            \* the workers
  covered, broken,    \* of a quiet command: channels computed, was a part refused?
  answer,             \* of the last command: "none" before it comes
  quiet,              \* were all workers at rest when the command began?
  clean               \* was every command since the boot answered with success?

mailboxVars == <<magic, region, controller_ready, worker_ready, tasks>>
controllerVars == <<cpc, index, complete, generation, command>>
workerVars == <<wpc, last_generation, job, rc>>
historyVars == <<covered, broken, answer, quiet, clean>>
vars == <<session, mailboxVars, event, controllerVars, workerVars, historyVars>>

Worker == 1 .. WORKERS
Parts == WORKERS + 1

NoTask == [state |-> "IDLE", generation |-> 0, op |-> "none", begin |-> 0,
           end |-> 0, status |-> "OK"]
NoJob == [op |-> "none", generation |-> 0, begin |-> 0, end |-> 0]
\* A tensor operation is divided evenly, a convolution in blocks of channels.
Command == [op : {"pool"}, channels : PoolChannels]
             \cup [op : {"conv"}, channels : ConvChannels]
NoCommand == [op |-> "none", channels |-> 0]

PartRange(c, part) ==
  IF c.op = "pool" THEN PoolRange(c.channels, part, Parts)
  ELSE ConvRange(c.channels, part, Parts)

NextGeneration(g) == IF g + 1 = GenMod THEN 1 ELSE g + 1

\* A worker that is not concerned with a task, has none to take, and will not
\* take the next one for its last.
AtRest(w) ==
  /\ wpc[w] \in {"boot_sev", "sev", "check", "wait"}
  /\ tasks[w].state \notin {"READY", "RUNNING"}
  /\ last_generation[w] # NextGeneration(generation)

-----------------------------------------------------------------------------
Init ==
  /\ session = "stopped"
  /\ magic = FALSE /\ region = FALSE /\ controller_ready = FALSE
  /\ worker_ready = [w \in Worker |-> "no"]
  /\ tasks = [w \in Worker |-> NoTask]
  /\ event = [w \in Worker |-> FALSE]
  /\ cpc = "off" /\ index = 1 /\ complete = 0
  /\ generation = 0 /\ command = NoCommand
  /\ wpc = [w \in Worker |-> "off"]
  /\ last_generation = [w \in Worker |-> 0]
  /\ job = [w \in Worker |-> NoJob] /\ rc = [w \in Worker |-> "OK"]
  /\ covered = {} /\ broken = FALSE /\ answer = "none"
  /\ quiet = TRUE /\ clean = TRUE

\* All cores are stopped, wherever they are; the memory stays.
Stop ==
  /\ session # "stopped" /\ session' = "stopped"
  /\ event' = [w \in Worker |-> FALSE]
  /\ cpc' = "off" /\ index' = 1 /\ complete' = 0
  /\ generation' = 0 /\ command' = NoCommand
  /\ wpc' = [w \in Worker |-> "off"]
  /\ last_generation' = [w \in Worker |-> 0]
  /\ job' = [w \in Worker |-> NoJob] /\ rc' = [w \in Worker |-> "OK"]
  /\ covered' = {} /\ broken' = FALSE /\ answer' = "none"
  /\ quiet' = TRUE /\ clean' = TRUE
  /\ UNCHANGED mailboxVars

\* The script overwrites magic and controller_ready before any core runs.
Invalidate ==
  /\ session = "stopped" /\ session' = "invalid"
  /\ magic' = FALSE /\ controller_ready' = FALSE
  /\ UNCHANGED <<region, worker_ready, tasks, event, controllerVars, workerVars,
                 historyVars>>

\* The workers are started one after the other, each with any event register.
StartWorker(w) ==
  /\ session = "invalid" /\ wpc[w] = "off"
  /\ \A v \in Worker : v < w => wpc[v] # "off"
  /\ wpc' = [wpc EXCEPT ![w] = "boot"]
  /\ \E e \in BOOLEAN : event' = [event EXCEPT ![w] = e]
  /\ UNCHANGED <<session, mailboxVars, controllerVars, last_generation, job, rc,
                 historyVars>>

StartController ==
  /\ session = "invalid" /\ \A w \in Worker : wpc[w] # "off"
  /\ session' = "running" /\ cpc' = "clear"
  /\ UNCHANGED <<mailboxVars, event, index, complete, generation, command,
                 workerVars, historyVars>>

-----------------------------------------------------------------------------
(* The controller: initialization *)

sev == event' = [w \in Worker |-> TRUE]

ControllerAt(from, to) == cpc = from /\ cpc' = to
KeepsBooting ==
  UNCHANGED <<session, generation, command, workerVars, historyVars>>

Clear ==
  /\ ControllerAt("clear", "clear_ready")
  /\ magic' = FALSE /\ controller_ready' = FALSE
  /\ UNCHANGED <<region, worker_ready, tasks, event, index, complete>>
  /\ KeepsBooting

ClearReady ==
  /\ ControllerAt("clear_ready", "clear_tasks")
  /\ worker_ready' = [w \in Worker |-> "no"] /\ region' = FALSE
  /\ UNCHANGED <<magic, controller_ready, tasks, event, index, complete>>
  /\ KeepsBooting

ClearTasks ==
  /\ ControllerAt("clear_tasks", "magic")
  /\ tasks' = [w \in Worker |-> NoTask]
  /\ UNCHANGED <<magic, region, controller_ready, worker_ready, event, index,
                 complete>>
  /\ KeepsBooting

WriteMagic ==
  /\ ControllerAt("magic", "region")
  /\ magic' = TRUE
  /\ UNCHANGED <<region, controller_ready, worker_ready, tasks, event, index,
                 complete>>
  /\ KeepsBooting

WriteRegion ==
  /\ ControllerAt("region", "ready")
  /\ region' = TRUE
  /\ UNCHANGED <<magic, controller_ready, worker_ready, tasks, event, index,
                 complete>>
  /\ KeepsBooting

WriteReady ==
  /\ ControllerAt("ready", "boot_sev")
  /\ controller_ready' = TRUE
  /\ UNCHANGED <<magic, region, worker_ready, tasks, event, index, complete>>
  /\ KeepsBooting

SignalBoot ==
  /\ ControllerAt("boot_sev", "register") /\ sev
  /\ index' = 1 /\ complete' = 0
  /\ UNCHANGED mailboxVars /\ KeepsBooting

\* One look at a worker's ready word; a refusal ends the initialization.
ScanReady ==
  /\ cpc = "register" /\ index <= WORKERS
  /\ \/ /\ worker_ready[index] = "refused"
        /\ cpc' = "boot_failed" /\ UNCHANGED <<index, complete>>
     \/ /\ worker_ready[index] # "refused"
        /\ index' = index + 1 /\ UNCHANGED cpc
        /\ complete' = complete + (IF worker_ready[index] = "yes" THEN 1 ELSE 0)
  /\ UNCHANGED <<mailboxVars, event>> /\ KeepsBooting

AllRegistered ==
  /\ cpc = "register" /\ index = WORKERS + 1
  /\ cpc' = IF complete = WORKERS THEN "idle" ELSE "register"
  /\ index' = 1 /\ complete' = 0
  /\ UNCHANGED <<mailboxVars, event>> /\ KeepsBooting

\* The deadline may have passed at the end of any scan.
BootTimesOut ==
  /\ cpc = "register" /\ index = WORKERS + 1 /\ complete # WORKERS
  /\ cpc' = "boot_failed" /\ index' = 1 /\ complete' = 0
  /\ UNCHANGED <<mailboxVars, event>> /\ KeepsBooting

-----------------------------------------------------------------------------
(* The controller: commands *)

KeepsRunning ==
  /\ UNCHANGED <<session, magic, region, controller_ready, worker_ready>>
  /\ UNCHANGED workerVars

\* A command takes the next generation, whatever became of the one before.
Begin ==
  /\ ControllerAt("idle", "clear_task") /\ index' = 1 /\ complete' = 0
  /\ generation' = NextGeneration(generation)
  /\ command' \in Command
  /\ covered' = {} /\ broken' = FALSE /\ answer' = "none"
  /\ quiet' = \A w \in Worker : AtRest(w)
  /\ UNCHANGED <<tasks, event, clean>> /\ KeepsRunning

\* The words of task w, in the order in which they are written.
WriteTask(from, to, task) ==
  /\ ControllerAt(from, to) /\ tasks' = [tasks EXCEPT ![index] = task]
  /\ UNCHANGED <<event, complete, generation, command, historyVars>>
  /\ KeepsRunning

ClearTask ==
  WriteTask("clear_task", "fill_task", NoTask) /\ UNCHANGED index

FillTask ==
  LET range == PartRange(command, index)
      last == index = WORKERS
  IN /\ WriteTask("fill_task", IF last THEN "publish" ELSE "clear_task",
                  [NoTask EXCEPT !.generation = generation, !.op = command.op,
                                 !.begin = range.begin, !.end = range.end,
                                 !.state = tasks[index].state,
                                 !.status = tasks[index].status])
     /\ index' = IF last THEN 1 ELSE index + 1

Publish ==
  LET last == index = WORKERS
  IN /\ WriteTask("publish", IF last THEN "sev" ELSE "publish",
                  [tasks[index] EXCEPT !.state = "READY"])
     /\ index' = IF last THEN 1 ELSE index + 1

\* Mutant: the workers are left asleep.
SignalNot ==
  /\ ControllerAt("sev", "own") /\ UNCHANGED event
  /\ UNCHANGED <<tasks, index, complete, generation, command, historyVars>>
  /\ KeepsRunning

Signal ==
  /\ ControllerAt("sev", "own") /\ sev
  /\ UNCHANGED <<tasks, index, complete, generation, command, historyVars>>
  /\ KeepsRunning

Answers(what) ==
  /\ cpc' = "idle" /\ index' = 1 /\ complete' = 0 /\ answer' = what
  /\ clean' = (clean /\ what = "OK")

\* The controller's own part, which its checks may refuse: then it does not wait.
OwnPart ==
  LET range == PartRange(command, 0)
  IN /\ cpc = "own"
     /\ \/ /\ cpc' = "wait" /\ index' = 1 /\ complete' = 0
           /\ covered' = IF quiet THEN covered \cup (range.begin .. range.end - 1)
                         ELSE covered
           /\ UNCHANGED <<broken, answer, clean>>
        \/ broken' = quiet /\ Answers("ERROR") /\ UNCHANGED covered
     /\ UNCHANGED <<tasks, event, generation, command, quiet>> /\ KeepsRunning

counts(task) == task.state = "DONE"

\* One look at a task: the first error is the answer, by the status it left.
\* Its generation is the command's: no one else writes that word.
ScanTask ==
  /\ cpc = "wait" /\ index <= WORKERS
  /\ \/ /\ tasks[index].state = "ERROR"
        /\ Answers(tasks[index].status)
     \/ /\ tasks[index].state # "ERROR"
        /\ index' = index + 1
        /\ complete' = complete + (IF counts(tasks[index]) THEN 1 ELSE 0)
        /\ UNCHANGED <<cpc, answer, clean>>
  /\ UNCHANGED <<tasks, event, generation, command, covered, broken, quiet>>
  /\ KeepsRunning

EndOfScan ==
  /\ cpc = "wait" /\ index = WORKERS + 1
  /\ IF complete = WORKERS THEN Answers("OK")
     ELSE /\ index' = 1 /\ complete' = 0
          /\ UNCHANGED <<cpc, answer, clean>>
  /\ UNCHANGED <<tasks, event, generation, command, covered, broken, quiet>>
  /\ KeepsRunning

TimesOut ==
  /\ cpc = "wait" /\ index = WORKERS + 1 /\ complete # WORKERS
  /\ Answers("TIMEOUT")
  /\ UNCHANGED <<tasks, event, generation, command, covered, broken, quiet>>
  /\ KeepsRunning

ControllerStep ==
  \/ Clear \/ ClearReady \/ ClearTasks
  \/ WriteMagic \/ WriteRegion \/ WriteReady \/ SignalBoot
  \/ ScanReady \/ AllRegistered
  \/ ClearTask \/ FillTask
  \/ Publish \/ Signal \/ OwnPart \/ ScanTask \/ EndOfScan

-----------------------------------------------------------------------------
(* The workers *)

WorkerAt(w, from, to) == wpc[w] = from /\ wpc' = [wpc EXCEPT ![w] = to]
Local == <<last_generation, job, rc>>
KeepsWorking == UNCHANGED <<session, controllerVars, answer, quiet, clean>>

\* A core that waits goes on if its event register is set, which it clears.  It
\* may also be woken by something else.
Wait(w) ==
  \/ WorkerAt(w, "boot_wait", "boot")
  \/ WorkerAt(w, "wait", "check")

Wake(w) ==
  /\ Wait(w)
  /\ event' = [event EXCEPT ![w] = FALSE]
  /\ UNCHANGED <<mailboxVars, Local, covered, broken>> /\ KeepsWorking

\* The words of the mailbox that must be right before a worker registers.
Looks(w, word, found, from, to, otherwise) ==
  /\ \/ word = found /\ WorkerAt(w, from, to)
     \/ word # found /\ WorkerAt(w, from, otherwise)
  /\ UNCHANGED <<mailboxVars, event, Local, covered, broken>> /\ KeepsWorking

ReadMagic(w) == Looks(w, magic, TRUE, "boot", "boot_ready", "boot_wait")
ReadReady(w) ==
  Looks(w, controller_ready, TRUE, "boot_ready", "boot_region", "boot_wait")
ReadRegion(w) == Looks(w, region, TRUE, "boot_region", "register", "refuse")

Register(w) ==
  /\ \/ /\ WorkerAt(w, "register", "boot_sev")
        /\ worker_ready' = [worker_ready EXCEPT ![w] = "yes"]
     \/ /\ WorkerAt(w, "refuse", "refuse_sev")
        /\ worker_ready' = [worker_ready EXCEPT ![w] = "refused"]
  /\ UNCHANGED <<magic, region, controller_ready, tasks, event, Local, covered,
                 broken>>
  /\ KeepsWorking

SendEvent(w) ==
  /\ sev
  /\ \/ WorkerAt(w, "boot_sev", "check") \/ WorkerAt(w, "refuse_sev", "halted")
     \/ WorkerAt(w, "sev", "check")
  /\ UNCHANGED <<mailboxVars, Local, covered, broken>> /\ KeepsWorking

ReadState(w) ==
  Looks(w, tasks[w].state, "READY", "check", "check_generation", "wait")

ReadGeneration(w) ==
  LET old == tasks[w].generation = last_generation[w]
  IN Looks(w, old, FALSE, "check_generation", "take", "wait")

Take(w) ==
  /\ WorkerAt(w, "take", "run")
  /\ last_generation' =
       [last_generation EXCEPT ![w] = tasks[w].generation]
  /\ UNCHANGED <<mailboxVars, event, job, rc, covered, broken>> /\ KeepsWorking

WriteState(w, from, to, state) ==
  /\ WorkerAt(w, from, to)
  /\ tasks' = [tasks EXCEPT ![w].state = state]
  /\ UNCHANGED <<magic, region, controller_ready, worker_ready, event,
                 last_generation, job, covered, broken>>
  /\ KeepsWorking

Run(w) ==
  /\ WriteState(w, "run", "read_task", "RUNNING")
  /\ UNCHANGED rc

ReadTask(w) ==
  /\ WorkerAt(w, "read_task", "compute")
  /\ job' = [job EXCEPT ![w] =
       [op |-> tasks[w].op, generation |-> tasks[w].generation,
        begin |-> tasks[w].begin, end |-> tasks[w].end]]
  /\ UNCHANGED <<mailboxVars, event, last_generation, rc, covered, broken>>
  /\ KeepsWorking

\* The tensor operations refuse an empty range, the convolution does nothing
\* then, and a cleared task names no operation.
Acceptable(j) == j.op = "conv" \/ (j.op = "pool" /\ j.begin < j.end)

\* The checks may refuse any other part too.
Compute(w) ==
  LET own == quiet /\ job[w].generation = generation
  IN /\ WorkerAt(w, "compute", "status")
     /\ job' = [job EXCEPT ![w] = NoJob]
     /\ \/ /\ Acceptable(job[w])
           /\ rc' = [rc EXCEPT ![w] = "OK"]
           /\ covered' = IF own
                THEN covered \cup (job[w].begin .. job[w].end - 1) ELSE covered
           /\ UNCHANGED broken
        \/ /\ rc' = [rc EXCEPT ![w] = "ERROR"]
           /\ broken' = (broken \/ own) /\ UNCHANGED covered
     /\ UNCHANGED <<mailboxVars, event, last_generation>> /\ KeepsWorking

WriteStatus(w) ==
  /\ WorkerAt(w, "status", "finish")
  /\ tasks' = [tasks EXCEPT ![w].status = rc[w]]
  /\ UNCHANGED <<magic, region, controller_ready, worker_ready, event, Local,
                 covered, broken>>
  /\ KeepsWorking

Finish(w) ==
  /\ WriteState(w, "finish", "sev", IF rc[w] = "OK" THEN "DONE" ELSE "ERROR")
  /\ rc' = [rc EXCEPT ![w] = "OK"]

WorkerStep(w) ==
  \/ ReadMagic(w) \/ ReadReady(w) \/ ReadRegion(w) \/ Register(w)
  \/ SendEvent(w) \/ ReadState(w) \/ ReadGeneration(w) \/ Take(w) \/ Run(w)
  \/ ReadTask(w) \/ Compute(w) \/ WriteStatus(w) \/ Finish(w)

-----------------------------------------------------------------------------
Next ==
  \/ Stop \/ Invalidate \/ StartController
  \/ ControllerStep \/ BootTimesOut \/ Begin \/ TimesOut
  \/ \E w \in Worker : StartWorker(w) \/ WorkerStep(w) \/ Wake(w)

Spec == Init /\ [][Next]_vars

-----------------------------------------------------------------------------
Task == [state : {"IDLE", "READY", "RUNNING", "DONE", "ERROR"},
         generation : 0 .. GenMod - 1, op : {"none", "pool", "conv"},
         begin : Nat, end : Nat,
         status : {"OK", "ERROR"}]

TypeOK ==
  /\ worker_ready \in [Worker -> {"no", "yes", "refused"}]
  /\ tasks \in [Worker -> Task]
  /\ event \in [Worker -> BOOLEAN]
  /\ index \in 1 .. WORKERS + 1 /\ complete \in 0 .. WORKERS
  /\ generation \in 0 .. GenMod - 1
  /\ command # NoCommand => generation # 0
  /\ answer \in {"none", "OK", "ERROR", "TIMEOUT"}

\* A command that began while all workers were at rest is answered truly: with
\* success only when every channel of its result was computed, by whichever
\* core, and with an error only when one of its own parts was refused.
AnswersTrue ==
  quiet => /\ answer = "OK" => covered = 0 .. command.channels - 1
           /\ answer = "ERROR" => broken

\* The workers are at rest when a command begins as long as every command
\* before it succeeded: only an error or a deadline leaves one behind that still
\* works on an older command.
QuietUntilTrouble == clean => quiet

\* No wake-up is lost: while the controller waits for a command begun at rest,
\* no worker sleeps on a task that it has not done, so that each is done in the
\* end.
WakesKept ==
  cpc = "wait" /\ quiet =>
    \A w \in Worker : tasks[w].state \notin {"DONE", "ERROR"} =>
      (wpc[w] = "wait" => event[w])

\* "Invalidate the persistent mailbox before any worker runs, otherwise a worker
\* can [...] lose its registration": whatever the session before left in
\* memory, each worker that the controller waits for has registered or is about
\* to, and none refuses.
BootsKept ==
  cpc = "register" =>
    \A w \in Worker : worker_ready[w] # "yes" =>
      /\ wpc[w] \in {"boot", "boot_ready", "boot_region", "register", "boot_wait"}
      /\ wpc[w] = "boot_wait" => event[w]
\* Of the answers: true while the workers are at rest, and they are at rest
\* until an error or a deadline.
AnswersSafe == TypeOK /\ AnswersTrue /\ QuietUntilTrouble

\* Of the signals: neither a wake-up nor a registration is lost.
SignalsKept == WakesKept /\ BootsKept
=============================================================================
