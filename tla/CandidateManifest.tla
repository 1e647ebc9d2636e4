--------------------------- MODULE CandidateManifest ---------------------------
(***************************************************************************)
(* The candidate of sw/vitis_2022_2/scripts, in one workspace.  A system   *)
(* build publishes file by file into the directory of its clock,           *)
(* generate_abi_v2_parameter_package.py writes the parameter set file by   *)
(* file, and build_abi_v2_candidate.ps1 binds both into the manifest of    *)
(* abi_v2_candidate_artifacts.py, makes the Vitis project, compiles,       *)
(* finalizes the manifest with the ELF and verifies it for the board.      *)
(* Each may be killed at any step and started again.                       *)
(*                                                                         *)
(* A file is the build or the export it is of, and so is its digest.  One  *)
(* verification is one step.  Metadata is what today's build writes: the   *)
(* readings of older metadata without a clock are left out.                *)
(***************************************************************************)
EXTENDS Integers

CONSTANTS Workspaces,      \* workspaces to choose from, by name
          Invocations,     \* command lines of the script
          Generations,     \* how often the model is exported
          Missing, Torn,   \* no such file; cut off, or half written
          MaxBuilds, MaxMishaps   \* bounds

VARIABLES ws,              \* the workspace
          hw,              \* per build directory: bit, xsa, meta, sha
          publisher,       \* a system build: its directory and what is out
          builds,          \* builds so far
          par,             \* bias, weight, manifest, header
          generator,       \* what it writes, how far it is, who waits for it
          model,           \* the export that repro/model holds
          project,         \* platform, app and marker of the workspace
          elf, manifest,
          script,          \* build_abi_v2_candidate.ps1
          mishaps          \* processes killed and files deleted so far

mvars == <<ws, hw, publisher, builds, par, generator, model, project, elf, manifest, script, mishaps>>

(* HARDWARE_CLOCK_HZ: a profile is named by its clock.                       *)
Clocks         == {100, 125, 200}
ReleaseClocks  == {100, 200}
release_eligible(clock) == clock \in ReleaseClocks

HwFiles  == {"bit", "xsa", "meta", "sha"}
ParFiles == <<"bias", "weight", "manifest", "header">>

Off       == [pc |-> "off", inv |-> Missing, value |-> Missing]
NoProject == [platform |-> Missing, app |-> FALSE, marker |-> Missing]

(* Every directory holds one whole build; there are no parameters yet.       *)
Build(n, clock)  == [n |-> n, clock |-> clock]
Published(build) == [f \in HwFiles |-> IF f = "sha" THEN [bit |-> build, xsa |-> build] ELSE build]

CandidateInit ==
    /\ ws \in Workspaces
    /\ hw = [clock \in Clocks |-> Published(Build(1, clock))]
    /\ publisher = [dir |-> 100, next |-> 0] /\ builds = 1
    /\ par = [f \in {ParFiles[i] : i \in 1 .. 4} |-> Missing]
    /\ generator = [gen |-> 0, next |-> 0, open |-> FALSE, waited |-> FALSE] /\ model = 1
    /\ project = NoProject /\ elf = Missing /\ manifest = Missing
    /\ script = Off /\ mishaps = 0

(* The workspace of an invocation that names none. *)
Workspace(inv) ==
    IF inv.clock = 125 THEN IF inv.performance THEN "125_perf" ELSE "125_functional"
    ELSE IF inv.soak THEN "soak" ELSE "candidate"

-----------------------------------------------------------------------------
Hardware == UNCHANGED <<ws, par, generator, model, project, elf, manifest, script, mishaps>>

Withdrawn(files) == [files EXCEPT !.bit = Missing, !.xsa = Missing, !.sha = Missing]

(* The build starts: what an earlier one published is withdrawn.  Only builds *)
(* in a directory that this workspace may be made from are followed.        *)
Publish == \E clock \in {inv.dir : inv \in {i \in Invocations : Workspace(i) = ws}} :
    /\ publisher.next = 0 /\ builds < MaxBuilds
    /\ hw' = [hw EXCEPT ![clock] = Withdrawn(@)]
    /\ publisher' = [dir |-> clock, next |-> 1] /\ builds' = builds + 1
    /\ Hardware

(* The metadata is written before the implementation and again after the    *)
(* XSA, when only fields that nobody here reads change (git_*_end,          *)
(* provenance_stable); the digests come last, of the bitstream and the XSA. *)
Publication == <<"meta", "bit", "xsa", "meta", "sha">>

PublishFile ==
    /\ publisher.next > 0
    /\ LET f     == Publication[publisher.next]
           d     == publisher.dir
       IN  hw' = [hw EXCEPT ![d][f] = IF f = "sha" THEN [bit |-> hw[d].bit, xsa |-> hw[d].xsa]
                                      ELSE Build(builds, d)]
    /\ publisher' = [publisher EXCEPT !.next = IF @ = 5 THEN 0 ELSE @ + 1]
    /\ UNCHANGED builds /\ Hardware

(* A gate fails, or a step of the publication, which is then taken back.     *)
PublishFails ==
    /\ publisher.next > 0
    /\ hw' = [hw EXCEPT ![publisher.dir] = Withdrawn(@)]
    /\ publisher' = [publisher EXCEPT !.next = 0]
    /\ UNCHANGED builds /\ Hardware

-----------------------------------------------------------------------------
Parameters == UNCHANGED <<ws, hw, publisher, builds, model, project, elf, manifest, mishaps>>

(* generate_package reads the whole model before it writes the first file.   *)
GeneratorStarts(waited) ==
    /\ generator.next = 0              \* assumed: one generator at a time
    /\ generator' = [gen |-> model, next |-> 1, open |-> FALSE, waited |-> waited]

Generate == GeneratorStarts(FALSE) /\ UNCHANGED <<par, script>> /\ Parameters

(* Each file is empty for a while. *)
GenerateFile ==
    /\ generator.next > 0
    /\ LET f == ParFiles[generator.next]
       IN  IF ~generator.open
           THEN par' = [par EXCEPT ![f] = Torn] /\ generator' = [generator EXCEPT !.open = TRUE]
           ELSE /\ par' = [par EXCEPT ![f] = generator.gen]
                /\ generator' = [generator EXCEPT !.open = FALSE, !.next = IF @ = 4 THEN 0 ELSE @ + 1]
    /\ UNCHANGED script /\ Parameters

-----------------------------------------------------------------------------
There(file) == file \notin {Missing, Torn}

(* validate_hardware_metadata: a build of a known profile at its clock, from *)
(* clean sources, which the build script sees to itself.                    *)
validate_hardware_metadata(files) == files.meta # Missing /\ files.meta.clock \in Clocks

(* validate_hardware_sha_manifest *)
validate_hardware_sha_manifest(files) ==
    files.sha # Missing /\ files.xsa # Missing /\ files.bit # Missing /\ files.sha = [bit |-> files.bit, xsa |-> files.xsa]

HardwareThere(files) == \A f \in HwFiles : files[f] # Missing

(* Mutant: the header beside the parameter manifest is only looked for. *)
HeaderThere(g) == There(par.header)

(* The header binds the digests and repeats the table of the layers. *)
HeaderOk(g) == par.header = g

(* validate_parameter_manifest: each file and each of its sections has the    *)
(* digest, the place and the size that the manifest says.                  *)
validate_parameter_manifest ==
    /\ There(par.manifest)
    /\ par.bias = par.manifest /\ par.weight = par.manifest
    /\ HeaderOk(par.manifest)

(* validate_manifest_identity: one clock, and the eligibility of its profile. *)
validate_manifest_identity(m) == m.clock \in Clocks /\ m.eligible = release_eligible(m.clock)

SameHardware(m) ==
    /\ \A f \in HwFiles : hw[m.dir][f] = m.hw[f]
    /\ validate_hardware_metadata(hw[m.dir])
    /\ hw[m.dir].meta = m.build /\ m.build.clock = m.clock
    /\ validate_hardware_sha_manifest(hw[m.dir])

SameParameters(m) == validate_parameter_manifest /\ par = m.par

(* verify_manifest for the build.  Every caller is in the bound workspace.   *)
verify_build ==
    /\ There(manifest) /\ validate_manifest_identity(manifest)
    /\ SameHardware(manifest) /\ SameParameters(manifest)

(* ... and for the board, with what it says of the controls: the run mode is  *)
(* inferred, and a development build runs neither a soak nor a long benchmark. *)
StreamCfgs    == {"2B", "3B", "3F", "BF"}
BenchmarkRuns == {0, 30, 100}

RunMode(c) == IF c.soak # 0 THEN "soak" ELSE IF c.runs \in {30, 100} THEN "benchmark" ELSE "functional"

ControlsRun(m) ==
    LET c == m.controls IN
    /\ c.stream \in StreamCfgs /\ (c.performance => c.stream = "BF")
    /\ c.runs \in BenchmarkRuns
    /\ m.mode = RunMode(c)
    /\ IF c.soak # 0 THEN c.soak >= 600 /\ c.temp = 85 /\ c.runs = 0 /\ c.performance /\ c.stream = "BF"
       ELSE c.temp = 0 /\ (c.performance <=> c.runs \in {30, 100})
    /\ ~m.eligible => c.soak = 0 /\ c.temp = 0 /\ c.stream = "BF" /\ m.mode \in {"functional", "benchmark"} /\ c.runs \in {0, 30}
    /\ c.clock = m.clock

verify_run ==
    /\ verify_build
    /\ manifest.state = "complete"
    /\ ControlsRun(manifest)
    /\ elf = manifest.elf

-----------------------------------------------------------------------------
(* The script.  An invocation names the stream configuration, -Performance   *)
(* and -Soak, the runs (0: not named), the seconds (0: not named), the clock *)
(* and the build directory, which is that of the clock if it is not named.  *)
ParametersLegal(inv) ==
    /\ inv.performance \/ inv.soak => inv.stream = "BF"
    /\ inv.runs # 0 => inv.performance /\ ~inv.soak
    /\ inv.seconds # 0 => inv.soak
    /\ inv.clock = 125 => ~inv.soak /\ (inv.performance => inv.runs = 30)

(* The controls that finalize is given: 100 runs and 600 seconds by default. *)
Controls(inv) ==
    [stream |-> inv.stream, clock |-> inv.clock,
     performance |-> inv.performance \/ inv.soak,
     runs |-> IF inv.soak \/ ~inv.performance THEN 0 ELSE IF inv.runs = 0 THEN 100 ELSE inv.runs,
     soak |-> IF ~inv.soak THEN 0 ELSE IF inv.seconds = 0 THEN 600 ELSE inv.seconds,
     temp |-> IF inv.soak THEN 85 ELSE 0]

ScriptAt(pc) == script.pc = pc /\ UNCHANGED <<ws, hw, publisher, builds, par, model, mishaps>>
Goes(pc)     == script' = [script EXCEPT !.pc = pc, !.value = Missing]
Ends         == script' = Off
Unless(ok, pc) == IF ok THEN Goes(pc) ELSE Ends

Bound == hw[script.inv.dir]
Expected == manifest.dir = script.inv.dir /\ manifest.clock = script.inv.clock

StartScript == \E inv \in Invocations :
    /\ ScriptAt("off") /\ Workspace(inv) = ws
    /\ ParametersLegal(inv) /\ HardwareThere(hw[inv.dir])
    /\ script' = [pc |-> "inputs", inv |-> inv, value |-> Missing]
    /\ UNCHANGED <<generator, project, elf, manifest>>

(* The parameters are generated, and waited for, only if their manifest is    *)
(* missing.                                                                *)
Inputs ==
    /\ ScriptAt("inputs")
    /\ IF par.manifest = Missing THEN GeneratorStarts(TRUE) /\ Goes("generated")
       ELSE Goes("bind") /\ UNCHANGED generator
    /\ UNCHANGED <<project, elf, manifest>>

Generated ==
    /\ ScriptAt("generated") /\ generator.next = 0 /\ Goes("bind")
    /\ UNCHANGED <<generator, project, elf, manifest>>

(* A manifest that is there is verified, and otherwise bind_inputs validates  *)
(* the inputs ...                                                          *)
BindOrVerify ==
    /\ ScriptAt("bind")
    /\ IF manifest # Missing THEN Unless(verify_build /\ Expected, "verify")
       ELSE IF /\ validate_hardware_metadata(Bound) /\ validate_hardware_sha_manifest(Bound)
               /\ validate_parameter_manifest
            THEN script' = [script EXCEPT !.pc = "entries", !.value = Bound.meta]
            ELSE Ends
    /\ UNCHANGED <<generator, project, elf, manifest>>

(* ... and then takes the digests of what is there by now. *)
Entries ==
    /\ ScriptAt("entries")
    /\ IF HardwareThere(Bound)
       THEN script' = [script EXCEPT !.pc = "write", !.value =
              [state |-> "inputs_bound", dir |-> script.inv.dir, build |-> script.value, clock |-> script.value.clock,
               eligible |-> release_eligible(script.value.clock), hw |-> Bound, par |-> par,
               elf |-> Missing, controls |-> Missing, mode |-> Missing]]
       ELSE Ends
    /\ UNCHANGED <<generator, project, elf, manifest>>

WriteBound == ScriptAt("write") /\ manifest' = script.value /\ Goes("verify") /\ UNCHANGED <<generator, project, elf>>

(* The script looks at the eligibility itself; -CheckOnly ends here. *)
VerifyInputs ==
    /\ ScriptAt("verify")
    /\ Unless(/\ verify_build /\ Expected
              /\ manifest.eligible = (script.inv.clock # 125)
              /\ ~script.inv.check, "project")
    /\ UNCHANGED <<generator, project, elf, manifest>>

-----------------------------------------------------------------------------
(* create_abi_v2_candidate_project.tcl: the platform is made of the XSA, or   *)
(* one that is there is used when its marker has the fingerprint of the XSA. *)
ProjectFits ==
    /\ (project.platform # Missing) = project.app
    /\ project.marker = IF project.app THEN Bound.xsa ELSE Missing

CheckProject ==
    /\ ScriptAt("project")
    /\ IF verify_build /\ manifest.dir = script.inv.dir /\ ProjectFits
       THEN script' = [script EXCEPT !.pc = IF project.app THEN "marker" ELSE "platform", !.value = Bound.xsa]
       ELSE Ends
    /\ UNCHANGED <<generator, project, elf, manifest>>

Platform ==
    /\ ScriptAt("platform")
    /\ IF Bound.xsa # Missing THEN /\ project' = [project EXCEPT !.platform = Bound.xsa]
                                   /\ script' = [script EXCEPT !.pc = "app"]
       ELSE Ends /\ UNCHANGED project
    /\ UNCHANGED <<generator, elf, manifest>>

Application ==
    /\ ScriptAt("app")
    /\ project' = [project EXCEPT !.app = TRUE] /\ script' = [script EXCEPT !.pc = "marker"]
    /\ UNCHANGED <<generator, elf, manifest>>

Marker ==
    /\ ScriptAt("marker")
    /\ project' = [project EXCEPT !.marker = script.value] /\ Goes("compile")
    /\ UNCHANGED <<generator, elf, manifest>>

(* manual_build_accel_smoke.ps1 verifies again, then copies the header of     *)
(* the parameters; half of one does not compile.                           *)
Compile ==
    /\ ScriptAt("compile")
    /\ Unless(verify_build /\ manifest.clock = script.inv.clock, "header")
    /\ UNCHANGED <<generator, project, elf, manifest>>

CopyHeader ==
    /\ ScriptAt("header")
    /\ IF There(par.header) THEN script' = [script EXCEPT !.pc = "link", !.value = par.header] ELSE Ends
    /\ UNCHANGED <<generator, project, elf, manifest>>

Link ==
    /\ ScriptAt("link")
    /\ elf' = [header |-> script.value, platform |-> project.platform, controls |-> Controls(script.inv)]
    /\ Goes("finalize")
    /\ UNCHANGED <<generator, project, manifest>>

-----------------------------------------------------------------------------
(* finalize_manifest checks the controls on its own. *)
ControlsFinal(c, m) ==
    /\ c.clock = m.clock
    /\ c.stream \in StreamCfgs /\ (c.performance => c.stream = "BF")
    /\ c.runs \in BenchmarkRuns
    /\ IF c.soak # 0 THEN c.soak >= 600 /\ c.temp = 85 /\ c.runs = 0 /\ c.performance /\ c.stream = "BF"
       ELSE c.temp = 0 /\ (c.performance <=> c.runs \in {30, 100})
    /\ ~m.eligible => c.soak = 0 /\ c.temp = 0 /\ c.stream = "BF" /\ c.runs \in {0, 30}

Completed(m, c) == [m EXCEPT !.state = "complete", !.elf = elf, !.controls = c, !.mode = RunMode(c)]

(* It verifies the inputs and wants the sources clean, and writes the         *)
(* complete manifest over the bound one.                                   *)
Finalize == \E clean \in BOOLEAN :
    /\ ScriptAt("finalize")
    /\ LET c == Controls(script.inv) IN
       IF clean /\ verify_build /\ ControlsFinal(c, manifest) /\ elf # Missing
       THEN script' = [script EXCEPT !.pc = "complete", !.value =
              Completed(manifest, c)]
       ELSE Ends
    /\ UNCHANGED <<generator, project, elf, manifest>>

WriteComplete == ScriptAt("complete") /\ manifest' = script.value /\ Goes("report") /\ UNCHANGED <<generator, project, elf>>

(* finalize and then the script verify for the board: what they print.       *)
Report == ScriptAt("report") /\ Ends /\ UNCHANGED <<generator, project, elf, manifest>>

-----------------------------------------------------------------------------
(* The model is exported again. *)
Export ==
    /\ model < Generations /\ model' = model + 1
    /\ UNCHANGED <<ws, hw, publisher, builds, par, generator, project, elf, manifest, script, mishaps>>

(* A process dies.  The script may take the generator it waits for with it or *)
(* leave it alone, and leaves half a file that it was writing or the old one. *)
ScriptDies ==
    /\ script.pc # "off" /\ script' = Off
    /\ \E along \in BOOLEAN :
          generator' = IF ~generator.waited THEN generator
                       ELSE [generator EXCEPT !.waited = FALSE, !.next = IF along THEN 0 ELSE @, !.open = ~along /\ @]
    /\ manifest' \in IF script.pc \in {"write", "complete"} THEN {manifest, Torn} ELSE {manifest}
    /\ elf' \in IF script.pc = "link" THEN {elf, Torn} ELSE {elf}
    /\ project' \in {project} \cup (IF script.pc \in {"platform", "marker"}
                                     THEN {[project EXCEPT ![script.pc] = Torn]} ELSE {})
    /\ UNCHANGED publisher

GeneratorDies ==
    /\ generator.next > 0
    /\ generator' = [generator EXCEPT !.next = 0, !.open = FALSE, !.waited = FALSE]
    /\ script' = IF generator.waited THEN Off ELSE script
    /\ UNCHANGED <<publisher, manifest, elf, project>>

PublisherDies ==
    /\ publisher.next > 0 /\ publisher' = [publisher EXCEPT !.next = 0]
    /\ UNCHANGED <<generator, script, manifest, elf, project>>

Killed ==
    /\ mishaps < MaxMishaps /\ mishaps' = mishaps + 1
    /\ ScriptDies \/ GeneratorDies \/ PublisherDies
    /\ UNCHANGED <<ws, hw, builds, par, model>>

(* The operator makes way for a new candidate, a new workspace or new         *)
(* parameters.                                                             *)
Delete ==
    /\ script.pc = "off" /\ mishaps < MaxMishaps /\ mishaps' = mishaps + 1
    /\ \/ manifest # Missing /\ manifest' = Missing /\ UNCHANGED <<par, project, elf>>
       \/ manifest' = Missing /\ project' = NoProject /\ elf' = Missing /\ UNCHANGED par
       \/ par.manifest # Missing /\ par' = [par EXCEPT !.manifest = Missing] /\ UNCHANGED <<manifest, project, elf>>
    /\ UNCHANGED <<ws, hw, publisher, builds, generator, model, script>>

CandidateNext ==
    \/ Publish \/ PublishFile \/ PublishFails \/ Generate \/ GenerateFile
    \/ StartScript \/ Inputs \/ Generated \/ BindOrVerify \/ Entries \/ WriteBound \/ VerifyInputs
    \/ CheckProject \/ Platform \/ Application \/ Marker \/ Compile \/ CopyHeader \/ Link
    \/ Finalize \/ WriteComplete \/ Report
    \/ Export \/ Killed \/ Delete

CandidateSpec == CandidateInit /\ [][CandidateNext]_mvars

-----------------------------------------------------------------------------
(* A candidate that verifies for the board is one set: bitstream, XSA and     *)
(* metadata of one build at the clock of the controls, though the metadata  *)
(* has no digest in the hardware's manifest; weights, biases and header of  *)
(* one export; and an ELF compiled with that header, for a platform of that *)
(* XSA, with those controls; whatever was published, generated, killed or   *)
(* started again beside the script (abi_v2_candidate_artifacts.py:782-1021). *)
CandidateWhole ==
    verify_run =>
        /\ hw[manifest.dir] = Published(manifest.build)
        /\ \A n \in 1 .. 4 : par[ParFiles[n]] = par.manifest
        /\ elf = [header |-> par.manifest, platform |-> manifest.build, controls |-> manifest.controls]
        /\ manifest.controls.clock = manifest.build.clock
        /\ manifest.build.clock = 125 => manifest.mode # "soak"

(* finalize is a command of its own: whatever controls its parser accepts     *)
(* (1149-1169), sound or not, besides the few that the script makes.        *)
CommandControls ==
    [stream : StreamCfgs, clock : Clocks, performance : BOOLEAN, runs : BenchmarkRuns,
     soak : {-1, 0, 599, 600, 601}, temp : {-1, 0, 84, 85, 86}]

(* What finalize_manifest lets through, of the script or of any other command *)
(* line, the verification for the board lets through, though each has its   *)
(* own list of what the controls may be (1060-1108 against 933-1006): a     *)
(* manifest is never completed and then unusable.                           *)
FinalizedRuns ==
    /\ There(manifest) /\ manifest.state = "complete" => ControlsRun(manifest)
    /\ script.pc = "finalize" /\ There(manifest) =>
          \A c \in CommandControls : ControlsFinal(c, manifest) => ControlsRun(Completed(manifest, c))
=============================================================================
