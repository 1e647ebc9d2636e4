------------------------------ MODULE InferenceApp ------------------------------
(***************************************************************************)
(* The web application of tools/coco80/inference_app.py.  A thread serves  *)
(* each HTTP request; infer takes the one board lock without waiting,      *)
(* packages the uploaded image in a new run directory, calls run_network,  *)
(* and publishes result.json or error.json.  Meanwhile the artifacts on    *)
(* the host and the board may be replaced by another model, a file at a    *)
(* time, the clock may be set, calls may fail, and the server be killed.   *)
(***************************************************************************)
EXTENDS Integers, FiniteSets, Functions

CONSTANTS Threads, Images,
          Stamps,          \* bound: the values the clock may show
          Absent, Nobody,
          MaxPosts, MaxDeploys, MaxKills     \* bounds

VARIABLES hosted,          \* revision of each artifact on the host
          board,           \* revision of the model that runs on the board
          server, lock, thread, runs, budget

avars == <<hosted, board, server, lock, thread, runs, budget>>

Artifacts == {"runner", "quant"}      \* "quant" stands for all the manifest binds
RunIds    == Stamps \X Images

NoRun == [source |-> Absent, input |-> Absent, board |-> Absent, predictions |-> Absent,
          visualization |-> Absent, result |-> Absent, error |-> FALSE, made |-> FALSE]

Idle(answer) == [pc |-> "idle", image |-> Absent, run |-> Absent, domain |-> Absent,
                 runner |-> Absent, answer |-> answer]

AppInit ==
    /\ hosted = [a \in Artifacts |-> 1] /\ board = 1
    /\ server = "checking" /\ lock = Nobody
    /\ thread = [t \in Threads |-> Idle("none")]
    /\ runs = [r \in RunIds |-> NoRun]
    /\ budget = [posts |-> MaxPosts, deploys |-> MaxDeploys, kills |-> MaxKills]

(* The runner manifest names the digests of the artifacts it was made with. *)
Agree(runner) == runner = hosted.quant

(* main: the server does not start unless status() is READY. *)
Serve ==
    /\ server = "checking"
    /\ server' = IF Agree(hosted.runner) THEN "up" ELSE "down"
    /\ UNCHANGED <<hosted, board, lock, thread, runs, budget>>

Restart ==
    /\ server = "down" /\ server' = "checking"
    /\ UNCHANGED <<hosted, board, lock, thread, runs, budget>>

-----------------------------------------------------------------------------
Goes(t, pc) == thread' = [thread EXCEPT ![t].pc = pc]

Set(t, field, value) == runs' = [runs EXCEPT ![thread[t].run][field] = value]

(* do_POST and the checks of infer: a bad request is answered at once. *)
Post(t) ==
    /\ server = "up" /\ thread[t].pc = "idle" /\ budget.posts > 0
    /\ budget' = [budget EXCEPT !.posts = @ - 1]
    /\ \E image \in Images, ok \in BOOLEAN :
          thread' = [thread EXCEPT ![t] = IF ok THEN [Idle("none") EXCEPT !.pc = "lock", !.image = image]
                                                ELSE Idle("400")]
    /\ UNCHANGED <<hosted, board, server, lock, runs>>

(* Mutant: the lock is not waited for. *)
AcquireIgnored(t) == lock' = t /\ Goes(t, "mkdir")

Acquire(t) ==
    IF lock # Nobody THEN thread' = [thread EXCEPT ![t] = Idle("409")] /\ UNCHANGED lock
                     ELSE lock' = t /\ Goes(t, "mkdir")

TakeLock(t) ==
    /\ thread[t].pc = "lock"
    /\ Acquire(t)
    /\ UNCHANGED <<hosted, board, server, runs, budget>>

(* A run directory is named for the time and the image, and must be new; if  *)
(* it is not, run_dir is already set when the call fails.                   *)
MakeRunDirectory(t, r) ==
    /\ thread' = [thread EXCEPT ![t].run = r, ![t].pc = IF runs[r].made THEN "failed" ELSE "source"]
    /\ runs' = [runs EXCEPT ![r].made = TRUE]

Mkdir(t) ==
    /\ thread[t].pc = "mkdir"
    /\ \E stamp \in Stamps : MakeRunDirectory(t, <<stamp, thread[t].image>>)
    /\ UNCHANGED <<hosted, board, server, lock, budget>>

WriteSource(t) ==
    /\ thread[t].pc = "source"
    /\ Set(t, "source", thread[t].image) /\ Goes(t, "qparams")
    /\ UNCHANGED <<hosted, board, server, lock, budget>>

(* read_input_qparams: the domain the image will be quantized into. *)
ReadQparams(t) ==
    /\ thread[t].pc = "qparams"
    /\ thread' = [thread EXCEPT ![t].domain = hosted.quant, ![t].pc = "package"]
    /\ UNCHANGED <<hosted, board, server, lock, runs, budget>>

(* build_input_shards, of the one image. *)
Package(t) ==
    /\ thread[t].pc = "package"
    /\ Set(t, "input", [image |-> runs[thread[t].run].source, domain |-> thread[t].domain])
    /\ Goes(t, "artifacts")
    /\ UNCHANGED <<hosted, board, server, lock, budget>>

(* run_network checks the artifacts against the runner manifest ... *)
CheckArtifacts(t) ==
    /\ thread[t].pc = "artifacts"
    /\ thread' = [thread EXCEPT ![t].runner = hosted.runner,
                                ![t].pc = IF Agree(hosted.runner) THEN "session" ELSE "failed"]
    /\ UNCHANGED <<hosted, board, server, lock, runs, budget>>

(* ... and the board its own model against the runner's binding (HELLO), and *)
(* the domain of the input against its model's (coco80_accel.c).            *)
BoardAccepts(runner, input) == board = runner /\ input.domain = board

Session(t) ==
    /\ thread[t].pc = "session"
    /\ LET input == runs[thread[t].run].input
       IN  IF BoardAccepts(thread[t].runner, input)
           THEN Set(t, "board", [image |-> input.image, model |-> board]) /\ Goes(t, "predictions")
           ELSE Goes(t, "failed") /\ UNCHANGED runs
    /\ UNCHANGED <<hosted, board, server, lock, budget>>

(* The detections and the timing record are the image's, or the call fails. *)
Predictions(t) ==
    /\ thread[t].pc = "predictions"
    /\ IF runs[thread[t].run].board.image = thread[t].image
       THEN Set(t, "predictions", runs[thread[t].run].board) /\ Goes(t, "visualize")
       ELSE Goes(t, "refused") /\ UNCHANGED runs
    /\ UNCHANGED <<hosted, board, server, lock, budget>>

Visualize(t) ==
    /\ thread[t].pc = "visualize"
    /\ LET r == runs[thread[t].run]
       IN  Set(t, "visualization", [image |-> r.source, of |-> r.predictions])
    /\ Goes(t, "result")
    /\ UNCHANGED <<hosted, board, server, lock, budget>>

(* result.json, by an atomic rename. *)
WriteResult(t) ==
    /\ thread[t].pc = "result"
    /\ Set(t, "result", [image |-> thread[t].image, detections |-> runs[thread[t].run].board,
                         domain |-> thread[t].domain])
    /\ Goes(t, "passed")
    /\ UNCHANGED <<hosted, board, server, lock, budget>>

-----------------------------------------------------------------------------
(* What fails while the lock is held: an InferenceAppError ("refused"), a    *)
(* failure of the kinds infer lists ("failed"), or another ("broken").      *)
Working == {"mkdir", "source", "qparams", "package", "artifacts", "session", "predictions",
            "visualize", "result"}

Fail(t) ==
    /\ thread[t].pc \in Working
    /\ \E kind \in {"refused", "failed", "broken"} : Goes(t, kind)
    /\ UNCHANGED <<hosted, board, server, lock, runs, budget>>

(* A listed failure leaves error.json, if that can be written. *)
WriteError(t) ==
    /\ thread[t].pc = "failed"
    /\ \/ /\ runs' = IF thread[t].run = Absent THEN runs ELSE [runs EXCEPT ![thread[t].run].error = TRUE]
          /\ Goes(t, "refused")
       \/ Goes(t, "broken") /\ UNCHANGED runs
    /\ UNCHANGED <<hosted, board, server, lock, budget>>

(* Mutant: the lock is kept when the call broke off. *)
ReleaseOnSuccess(t) == lock' = IF thread[t].pc = "broken" THEN lock ELSE Nobody

(* finally: the lock is released, whatever happened; then the answer. *)
Release(t) == lock' = Nobody

Answer(t) ==
    /\ thread[t].pc \in {"passed", "refused", "broken"}
    /\ Release(t)
    /\ thread' = [thread EXCEPT ![t] = Idle(CASE @.pc = "passed" -> "200"
                                              [] @.pc = "refused" -> "502"
                                              [] @.pc = "broken" -> "500")]
    /\ UNCHANGED <<hosted, board, server, runs, budget>>

Step(t) ==
    \/ TakeLock(t) \/ Mkdir(t) \/ WriteSource(t) \/ ReadQparams(t) \/ Package(t) \/ CheckArtifacts(t)
    \/ Session(t) \/ Predictions(t) \/ Visualize(t) \/ WriteResult(t) \/ WriteError(t) \/ Answer(t)

-----------------------------------------------------------------------------
(* Another model is deployed, file by file, in whatever order. *)
Deploy ==
    /\ budget.deploys > 0
    /\ \E a \in Artifacts : hosted[a] = 1 /\ hosted' = [hosted EXCEPT ![a] = 2]
    /\ budget' = [budget EXCEPT !.deploys = @ - 1]
    /\ UNCHANGED <<board, server, lock, thread, runs>>

Reprogram ==
    /\ budget.deploys > 0 /\ board = 1 /\ board' = 2
    /\ budget' = [budget EXCEPT !.deploys = @ - 1]
    /\ UNCHANGED <<hosted, server, lock, thread, runs>>

Kill ==
    /\ budget.kills > 0 /\ server = "up"
    /\ budget' = [budget EXCEPT !.kills = @ - 1]
    /\ server' = "down" /\ lock' = Nobody
    /\ thread' = [t \in Threads |-> Idle("none")]
    /\ UNCHANGED <<hosted, board, runs>>

AppNext ==
    \/ Serve \/ Restart \/ Deploy \/ Reprogram \/ Kill
    \/ \E t \in Threads : Post(t) \/ Step(t) \/ Fail(t)

AppSpec == AppInit /\ [][AppNext]_avars /\ \A t \in Threads : WF_avars(Step(t))

-----------------------------------------------------------------------------
(* Where a thread holds the lock. *)
Busy == Working \cup {"passed", "failed", "refused", "broken"}

(* "Serialize access to the single persistent bare-metal TCP endpoint": no   *)
(* two requests work at the same time, and the lock is held by the one that  *)
(* does, or free (inference_app.py:185, 294-296, 461).                      *)
OneOnBoard ==
    LET busy == {t \in Threads : thread[t].pc \in Busy}
    IN  IF busy = {} THEN lock = Nobody ELSE busy = {lock}

(* A published result is of its own image, that of the directory's source,   *)
(* run by one model, which is the one whose quantization the input was       *)
(* packaged with, although the manifest is read twice and the host and the   *)
(* board may be given another model in between; predictions and picture are  *)
(* those of the result (inference_app.py:311-442).                          *)
ResultsTrue ==
    \A id \in RunIds :
        LET r == runs[id]
        IN  r.result # Absent =>
              /\ r.source = id[2] /\ r.result.image = id[2]
              /\ r.result.detections = [image |-> id[2], model |-> r.result.domain]
              /\ r.predictions = r.result.detections
              /\ r.visualization = [image |-> id[2], of |-> r.predictions]

(* One request at a time is on the board, and what it publishes is its own.  *)
AppTrue == OneOnBoard /\ ResultsTrue

(* Every request that got the lock gives it back and is answered, whichever  *)
(* step fails and however, even the writing of error.json.                  *)
LockComesBack == \A t \in Threads : lock = t ~> lock # t
================================================================================
