-------------------------------- MODULE SdCard --------------------------------
(***************************************************************************)
(* The SD card of tools/coco80/sd_deploy.py, and the board program that    *)
(* runs from it (main_coco80_sd.c).  On the host prepare-card, register-   *)
(* inputs, install and register-conformance put files on the card and      *)
(* entries into its manifest, one tool at a time, killed anywhere; between *)
(* them the operator rebuilds the input set, deletes and damages files.    *)
(* On the board a run checks the files, writes its outputs under           *)
(* temporary names and renames them, and power may fail at any step.       *)
(* A file is the thing it holds, and its digest is that thing.             *)
(***************************************************************************)
EXTENDS Integers, FiniteSets

CONSTANTS Builds,                          \* of the hardware
          Sets,                            \* input sets
          Domain,                          \* scale and zero point of an input set
          Packages,                        \* parameter packages: [domain, model]
          Selections,                      \* conformance selection manifests
          Nothing,                         \* no such file, or no such entry
          Torn,                            \* a file that is nothing anybody wrote
          MaxCommands, MaxChanges,         \* bounds
          MaxCuts, MaxRuns

(* Nothing and Torn are not among what the program handles.               *)
ASSUME CardAssumption ==
    /\ Nothing # Torn
    /\ \A f \in {Nothing, Torn} :
         /\ f \notin Builds /\ f \notin Sets /\ f \notin Packages /\ f \notin Selections
         /\ \A m \in Selections, s \in Sets : [manifest |-> m, inputs |-> s] # f

VARIABLES card,            \* the files: hardware, inputs, parameters, selection, manifest
          sd_tool,         \* the command of sd_deploy in progress
          sd_run, out,     \* the run of the board, and the files under OUTPUT
          left             \* what the bounds leave

cvars == <<card, sd_tool, sd_run, out, left>>

Quants  == Packages                        \* a package is exported from a quantization
RunModes == {"accuracy", "conformance"}
Outputs == {"data", "index", "nodes", "node_index"}

NoTool == [pc |-> "idle", of |-> Nothing]
Off == [pc |-> "off", mode |-> Nothing, id |-> Nothing]
NoFiles == [f \in Outputs |-> Nothing]

SdInit ==
    /\ card = [bit |-> Nothing, xsa |-> Nothing, inputs |-> Nothing, param |-> Nothing,
               sel_manifest |-> Nothing, sel_index |-> Nothing, manifest |-> Nothing]
    /\ sd_tool = NoTool /\ sd_run = Off
    /\ out = [m \in RunModes |-> NoFiles]
    /\ left = [commands |-> MaxCommands, changes |-> MaxChanges, kills |-> MaxCuts, runs |-> MaxRuns]

OnHost == sd_run.pc = "off"

-----------------------------------------------------------------------------
(* _copy_if_same_or_absent: never over another file, and whole or not at all. *)
SameOrAbsent(f, content) == card[f] \in {Nothing, content}

ToolGoes(pc, of) == sd_tool' = [pc |-> pc, of |-> of]

(* A command begins; one that refuses at once changes nothing. *)
Starts ==
    /\ OnHost /\ sd_tool.pc = "idle" /\ left.commands > 0
    /\ left' = [left EXCEPT !.commands = @ - 1]
    /\ UNCHANGED <<sd_run, out>>

Copies(from, f, content, to) ==
    /\ sd_tool.pc = from
    /\ IF SameOrAbsent(f, content) THEN card' = [card EXCEPT ![f] = content] /\ ToolGoes(to, sd_tool.of)
                                   ELSE sd_tool' = NoTool /\ UNCHANGED card
    /\ UNCHANGED <<sd_run, out, left>>

(* _write_json *)
Writes(from, manifest) ==
    /\ sd_tool.pc = from
    /\ card' = [card EXCEPT !.manifest = manifest]
    /\ sd_tool' = NoTool
    /\ UNCHANGED <<sd_run, out, left>>

(* prepare_card: both files of a build, then a manifest of nothing else. *)
Prepare(b)  == Starts /\ ToolGoes("bit", b) /\ UNCHANGED card
CopyBit     == Copies("bit", "bit", sd_tool.of, "xsa")
CopyXsa     == Copies("xsa", "xsa", sd_tool.of, "prepared")
WritePrepared ==
    Writes("prepared", [bit |-> sd_tool.of, xsa |-> sd_tool.of, inputs |-> Nothing, param |-> Nothing, selection |-> Nothing,
                        binding |-> Nothing, status |-> "ARTIFACTS_READY"])

(* register_inputs: the set under INPUT validates, and has the domain of the  *)
(* quantization if one is given.                                            *)
CanRegister(q) ==
    /\ card.manifest # Nothing
    /\ card.inputs \in Sets
    /\ q # Nothing => Domain[card.inputs] = q.domain

(* What else is registered stays, a selection for other inputs too. *)
Registered(q) ==
    [card.manifest EXCEPT !.inputs = card.inputs, !.binding = q,
        !.status = IF q = Nothing THEN "INPUTS_PROVISIONAL" ELSE "INPUTS_READY"]

RegisterInputs(q) ==
    /\ Starts /\ CanRegister(q)
    /\ card' = [card EXCEPT !.manifest = Registered(q)]
    /\ UNCHANGED sd_tool

(* install: the inputs are registered anew before the package is looked at. *)
Install(p, q) ==
    /\ Starts /\ card.manifest # Nothing /\ card.manifest.inputs # Nothing /\ CanRegister(q)
    /\ card' = [card EXCEPT !.manifest = Registered(q)]
    /\ ToolGoes("package", [package |-> p, quant |-> q])

(* Its input binding and its checkpoint are the quantization's. *)
PackageFits(p, q) == p.domain = q.domain /\ p.model = q.model

CheckPackage ==
    /\ sd_tool.pc = "package"
    /\ sd_tool' = IF PackageFits(sd_tool.of.package, sd_tool.of.quant) THEN [sd_tool EXCEPT !.pc = "copy"] ELSE NoTool
    /\ UNCHANGED <<card, sd_run, out, left>>

CopyPackage    == Copies("copy", "param", sd_tool.of.package, "installed")
WriteInstalled ==
    Writes("installed", [card.manifest EXCEPT !.param = sd_tool.of.package, !.status = "DATA_READY"])

(* register_conformance: a selection index of the input index on the card,    *)
(* and the selection manifest it was made of.                              *)
Select(m, s) ==
    /\ Starts /\ card.manifest # Nothing /\ card.manifest.inputs # Nothing
    /\ card.inputs = s
    /\ ToolGoes("sel_manifest", [manifest |-> m, inputs |-> s])
    /\ UNCHANGED card

CopySelection == Copies("sel_manifest", "sel_manifest", sd_tool.of.manifest, "sel_index")
CopyIndex     == Copies("sel_index", "sel_index", sd_tool.of, "selected")
WriteSelected == Writes("selected", [card.manifest EXCEPT !.selection = sd_tool.of])

(* verify_card: every file that is registered is what was registered. *)
verify_card ==
    LET m == card.manifest
    IN  /\ m # Nothing
        /\ card.bit = m.bit /\ card.xsa = m.xsa
        /\ m.param # Nothing => card.param = m.param
        /\ m.inputs # Nothing => card.inputs = m.inputs
        /\ m.selection # Nothing => card.sel_manifest = m.selection.manifest /\ card.sel_index = m.selection

runnable == verify_card /\ card.manifest.status = "DATA_READY"

-----------------------------------------------------------------------------
(* main of main_coco80_sd.c, of an image that was built for package p.  The   *)
(* index and the selection validate, and the package is the image's.        *)
SelectionAccepted == card.sel_index \notin {Nothing, Torn} /\ card.sel_index.inputs = card.inputs

(* Mutant: an older index of the outputs is not looked for. *)
PathsFree(mode) == \A f \in Outputs \ {"index"} : out[mode][f] \in {Nothing, Torn}

(* c8_prepare_output_paths: no output of a finished run is there ... *)
PathsClear(mode) == \A f \in Outputs : out[mode][f] \in {Nothing, Torn}

(* ... and what an unfinished one left under the temporary names is removed. *)
Opened(mode) == [f \in Outputs |-> IF f = "data" \/ (f = "nodes" /\ mode = "conformance") THEN Torn
                                   ELSE IF out[mode][f] = Torn THEN Nothing ELSE out[mode][f]]

BoardStarts(mode, p) ==
    /\ OnHost /\ sd_tool.pc = "idle" /\ left.runs > 0
    /\ left' = [left EXCEPT !.runs = @ - 1]
    /\ card.inputs \in Sets
    /\ mode = "conformance" => SelectionAccepted
    /\ card.param = p
    /\ PathsClear(mode)
    /\ out' = [out EXCEPT ![mode] = Opened(mode)]
    /\ sd_run' = [pc |-> "records", mode |-> mode,
               id |-> [n |-> left.runs, inputs |-> card.inputs, param |-> p,
                       selection |-> IF mode = "conformance" THEN card.sel_index ELSE Nothing]]
    /\ UNCHANGED <<card, sd_tool>>

Put(f, content) == out' = [out EXCEPT ![sd_run.mode][f] = content]
RunGoes(pc)     == sd_run' = [sd_run EXCEPT !.pc = pc]
RunStep(from)   == sd_run.pc = from /\ UNCHANGED <<card, sd_tool, left>>

(* coco80_accel_infer_package refuses a record of another domain; the error   *)
(* leaves the temporary files.                                             *)
Infer ==
    /\ RunStep("records")
    /\ IF Domain[sd_run.id.inputs] = sd_run.id.param.domain THEN RunGoes("data") ELSE sd_run' = Off
    /\ UNCHANGED out

RenameData  == RunStep("data")  /\ Put("data", sd_run.id)   /\ RunGoes("index")
WriteIndex  == RunStep("index") /\ Put("index", Torn)    /\ RunGoes("rename")
RenameIndex ==
    /\ RunStep("rename") /\ Put("index", sd_run.id)
    /\ IF sd_run.mode = "conformance" THEN RunGoes("nodes") ELSE sd_run' = Off
RenameNodes     == RunStep("nodes") /\ Put("nodes", sd_run.id) /\ RunGoes("node_index")
WriteNodeIndex  == RunStep("node_index") /\ Put("node_index", Torn) /\ RunGoes("rename_nodes")
RenameNodeIndex == RunStep("rename_nodes") /\ Put("node_index", sd_run.id) /\ sd_run' = Off

-----------------------------------------------------------------------------
(* A tool is killed between two of its steps, or the board loses its power. *)
Killed ==
    /\ left.kills > 0 /\ left' = [left EXCEPT !.kills = @ - 1]
    /\ sd_tool.pc # "idle" \/ ~OnHost
    /\ sd_tool' = NoTool /\ sd_run' = Off
    /\ UNCHANGED <<card, out>>

(* The operator builds an input set on the card, or deletes or loses a file. *)
Change ==
    /\ OnHost /\ sd_tool.pc = "idle" /\ left.changes > 0
    /\ left' = [left EXCEPT !.changes = @ - 1]
    /\ \/ /\ \E s \in Sets \cup {Torn} : card' = [card EXCEPT !.inputs = s]
          /\ UNCHANGED out
       \/ /\ \E f \in {"bit", "xsa", "param", "sel_manifest", "sel_index"}, c \in {Nothing, Torn} :
                card[f] \notin {Nothing, Torn} /\ card' = [card EXCEPT ![f] = c]
          /\ UNCHANGED out
       \/ /\ \E m \in RunModes, f \in Outputs : out[m][f] # Nothing /\ out' = [out EXCEPT ![m][f] = Nothing]
          /\ UNCHANGED card
    /\ UNCHANGED <<sd_tool, sd_run>>

SdNext ==
    \/ \E b \in Builds : Prepare(b)
    \/ CopyBit \/ CopyXsa \/ WritePrepared
    \/ \E q \in Quants \cup {Nothing} : RegisterInputs(q)
    \/ \E p \in Packages, q \in Quants : Install(p, q)
    \/ CheckPackage \/ CopyPackage \/ WriteInstalled
    \/ \E m \in Selections, s \in Sets : Select(m, s)
    \/ CopySelection \/ CopyIndex \/ WriteSelected
    \/ \E mode \in RunModes, p \in Packages : BoardStarts(mode, p)
    \/ Infer \/ RenameData \/ WriteIndex \/ RenameIndex \/ RenameNodes \/ WriteNodeIndex \/ RenameNodeIndex
    \/ Killed \/ Change

SdSpec == SdInit /\ [][SdNext]_cvars

-----------------------------------------------------------------------------
(* A card that verifies as runnable runs: through every order of the four  *)
(* commands, kills and changes, its inputs are whole, its package is for   *)
(* their domain and of the checkpoint they were registered with, and its   *)
(* hardware is one build; and a selection that was registered with the     *)
(* inputs of now is one the board accepts.  (A selection registered with   *)
(* earlier inputs verifies, and only the board refuses it:                 *)
(* sd_deploy.py:276-294, 356-368.)                                         *)
RunnableRuns ==
    runnable =>
        LET m == card.manifest
        IN  /\ card.bit = card.xsa /\ card.bit \in Builds
            /\ card.inputs \in Sets /\ card.param \in Packages
            /\ Domain[card.inputs] = card.param.domain
            /\ m.binding # Nothing /\ m.binding.model = card.param.model
            /\ m.selection # Nothing /\ m.selection.inputs = m.inputs =>
                 SelectionAccepted /\ card.sel_manifest = card.sel_index.manifest

(* The finished files of a mode are of one run, which ran a selection of   *)
(* its own inputs in the domain of its package, whatever runs lost their   *)
(* power before and whatever files were taken away                         *)
(* (main_coco80_sd.c:300-333).                                             *)
OutputsOneRun ==
    \A m \in RunModes :
        LET ids == {out[m][f] : f \in Outputs} \ {Nothing, Torn}
        IN  /\ Cardinality(ids) <= 1
            /\ \A id \in ids : /\ Domain[id.inputs] = id.param.domain
                               /\ m = "conformance" => id.selection.inputs = id.inputs

(* Both: what sd_deploy.py calls runnable fits together, and the board's   *)
(* outputs are of one run.                                                 *)
CardTrue == RunnableRuns /\ OutputsOneRun
=============================================================================
