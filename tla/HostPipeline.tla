------------------------------ MODULE HostPipeline ------------------------------
(***************************************************************************)
(* The host pipeline of tools/coco80/pipeline.py in one run directory: the *)
(* stages from the assets to the Vitis header, run one at a time or all by *)
(* host-all, which lets the precision gates decide between the PTQ and the *)
(* QAT parameters.  A stage writes its output, then a marker that must not *)
(* exist yet; some stages refuse an output directory that exists already.  *)
(* A process may be killed anywhere.  An output is the run that made it    *)
(* and the outputs it was made of.                                         *)
(***************************************************************************)
EXTENDS Integers, Sequences, FiniteSets

CONSTANTS NoOutput,        \* no such file
          OnlyBegun, Partial,  \* a directory without its files, or without its last one
          MaxProcesses     \* bound: processes started in the directory

VARIABLES output, marker,  \* by stage
          proc,            \* the process that runs
          started          \* processes so far

hvars == <<output, marker, proc, started>>

Stages == {"split", "fp32", "ptq", "ptq-eval", "gate", "qat", "qat-eval", "qat-gate", "package", "header"}

(* What host-all runs before the first gate; assets, conformance and        *)
(* official640 go through the same steps and nothing here is made of them.  *)
Prefix == <<"split", "fp32", "ptq", "ptq-eval", "gate">>
Qat == <<"qat", "qat-eval", "qat-gate">>
FinishStages == <<"package", "header">>

NotRunning == [id |-> 0, all |-> FALSE, todo |-> <<>>, written |-> FALSE, selected |-> NoOutput, ended |-> "none"]

PipelineInit ==
    /\ output = [s \in Stages |-> NoOutput] /\ marker = [s \in Stages |-> NoOutput]
    /\ proc = NotRunning /\ started = 0

StageRuns == proc.todo # <<>>
Stage   == Head(proc.todo)

-----------------------------------------------------------------------------
(* A single "package" or "header" takes the QAT parameters if there are any. *)
Existing == IF output["qat"] \notin {NoOutput, OnlyBegun} THEN "qat" ELSE "ptq"

(* main, with one stage or with host-all.  (The last gate of host-all is no   *)
(* stage of its own.)                                                       *)
BeginProcess ==
    /\ ~StageRuns /\ started < MaxProcesses
    /\ started' = started + 1
    /\ \/ proc' = [NotRunning EXCEPT !.id = started + 1, !.all = TRUE, !.todo = Prefix]
       \/ \E s \in Stages \ {"qat-gate"} :
             proc' = [NotRunning EXCEPT !.id = started + 1, !.todo = <<s>>, !.selected = Existing]
    /\ UNCHANGED <<output, marker>>

(* What a stage reads must be there. *)
Needs(s) ==
    CASE s \in {"split", "fp32"} -> {}
      [] s = "ptq"      -> {"split"}
      [] s = "ptq-eval" -> {"ptq"}
      [] s = "gate"     -> {"fp32", "ptq-eval"}
      [] s = "qat"      -> {"ptq", "fp32", "ptq-eval", "split"}
      [] s = "qat-eval" -> {"qat"}
      [] s = "qat-gate" -> {"fp32", "qat-eval"}
      [] s = "package"  -> {proc.selected}
      [] s = "header"   -> {"package", proc.selected}

Made(s, ok) == [by |-> proc.id, stage |-> s, ok |-> ok, from |-> {output[n] : n \in Needs(s)}]

(* An evaluation meets the accuracy budget or not, and so does QAT on its own *)
(* holdout; a gate says of an evaluation whether it did.                    *)
Verdicts(s) ==
    CASE s \in {"ptq-eval", "qat", "qat-eval"} -> BOOLEAN
      [] s = "gate"     -> {output["ptq-eval"].ok}
      [] s = "qat-gate" -> {output["qat-eval"].ok}
      [] OTHER          -> {TRUE}

(* require_qat: there is no QAT of parameters that meet the budget. *)
QatAllowed(s) == s = "qat" => ~output["ptq-eval"].ok

(* The header is made only of a package of the parameters it is given. *)
Consistent(s) ==
    s = "header" => output["package"].from = {output[proc.selected]}

Ends(how) == [NotRunning EXCEPT !.ended = how]

(* evaluate, qat, save_quant_checkpoint: mkdir(exist_ok=False); the others   *)
(* work over whatever is there.                                            *)
MadeOnce == {"fp32", "ptq", "ptq-eval", "qat", "qat-eval"}

Usable(o) == o \notin {NoOutput, OnlyBegun, Partial}

CanWork(s) ==
    /\ \A n \in Needs(s) : Usable(output[n])
    /\ s \in MadeOnce => output[s] = NoOutput
    /\ Consistent(s) /\ QatAllowed(s)

WorkStage ==
    /\ StageRuns /\ ~proc.written
    /\ IF CanWork(Stage)
       THEN /\ \E ok \in Verdicts(Stage) : output' = [output EXCEPT ![Stage] = Made(Stage, ok)]
            /\ proc' = [proc EXCEPT !.written = TRUE]
       ELSE UNCHANGED output /\ proc' = Ends("error")
    /\ UNCHANGED <<marker, started>>

(* StageKilled at its work, a stage leaves its directory, or all but the file     *)
(* that is written last; the gates are written whole.                      *)
KilledAtWork ==
    /\ StageRuns /\ ~proc.written /\ CanWork(Stage) /\ Stage \notin {"gate", "qat-gate"}
    /\ \E left \in {OnlyBegun, Partial} : output' = [output EXCEPT ![Stage] = left]
    /\ proc' = Ends("killed")
    /\ UNCHANGED <<marker, started>>

(* ... and _write_stage refuses to mark it twice. *)
MayMark(s) == marker[s] = NoOutput

(* What comes after a stage, and what the release is made of. *)
Continue ==
    CASE Stage = "qat" /\ ~output["qat"].ok -> Ends("error")
      [] ~proc.all -> IF Stage = "gate" /\ ~output["gate"].ok THEN Ends("error") ELSE Ends("ok")
      [] proc.all /\ Stage = "gate" ->
             IF output["gate"].ok THEN [proc EXCEPT !.todo = FinishStages, !.written = FALSE, !.selected = "ptq"]
                                  ELSE [proc EXCEPT !.todo = Qat, !.written = FALSE]
      [] proc.all /\ Stage = "qat-gate" ->
             IF output["qat-gate"].ok THEN [proc EXCEPT !.todo = FinishStages, !.written = FALSE, !.selected = "qat"]
                                      ELSE Ends("blocked")
      [] proc.all /\ Stage = "header" -> Ends("released")
      [] OTHER -> [proc EXCEPT !.todo = Tail(@), !.written = FALSE]

(* QAT that misses its budget is not marked. *)
Mark ==
    /\ StageRuns /\ proc.written
    /\ IF Stage = "qat" /\ ~output["qat"].ok THEN UNCHANGED marker /\ proc' = Continue
       ELSE IF MayMark(Stage) THEN marker' = [marker EXCEPT ![Stage] = output[Stage]] /\ proc' = Continue
       ELSE UNCHANGED marker /\ proc' = Ends("error")
    /\ UNCHANGED <<output, started>>

StageKilled ==
    /\ StageRuns /\ proc' = Ends("killed")
    /\ UNCHANGED <<output, marker, started>>

PipelineNext == BeginProcess \/ WorkStage \/ KilledAtWork \/ Mark \/ StageKilled

PipelineSpec == PipelineInit /\ [][PipelineNext]_hvars

-----------------------------------------------------------------------------
(* What host-all has released passed its gates: the header is of a package   *)
(* of parameters whose evaluation, of these very parameters, passed its gate *)
(* against the FP32 evaluation of the same run; every marker it rests on     *)
(* describes the file that is there; whatever stages were run, killed or     *)
(* failed in the directory before (pipeline.py:321-397).                    *)
ReleasedPassed ==
    proc.ended = "released" =>
        LET h    == output["header"]
            name == IF output["gate"].ok THEN "ptq" ELSE "qat"
            eval == IF name = "ptq" THEN "ptq-eval" ELSE "qat-eval"
            gate == IF name = "ptq" THEN "gate" ELSE "qat-gate"
        IN  /\ h.from = {output["package"], output[name]}
            /\ output["package"].from = {output[name]}
            /\ output[gate].ok /\ output[gate].from = {output["fp32"], output[eval]}
            /\ output[eval].ok /\ output[eval].from = {output[name]}
            /\ \A s \in {"header", "package", name, eval, gate, "fp32", "split"} :
                  marker[s] = output[s] /\ output[s].by = h.by
=============================================================================
