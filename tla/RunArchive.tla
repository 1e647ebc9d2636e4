------------------------------- MODULE RunArchive -------------------------------
(***************************************************************************)
(* The run archives of tools/coco80/results.py.  create_run_directory      *)
(* makes an empty directory; seal_run checks the accuracy gates, copies    *)
(* bindings, artifacts and accuracy summaries into it one by one, and      *)
(* writes the manifest and the seal; verify_run_archive accepts it or not. *)
(* Sources may be replaced at any time, the sealing killed between any two *)
(* steps and started again, and a sealed archive damaged.                  *)
(***************************************************************************)
EXTENDS Integers, Sequences, FiniteSets, SequencesExt

CONSTANTS Bindings, Artifacts,       \* sequences of roles
          Levels,                    \* ACCURACY_LEVELS
          Metrics,                   \* level -> revision -> mAP, in points
          Gates,                     \* level -> [min, max_drop]
          Missing,                   \* no such file
          MaxReplaced, MaxDamaged    \* bounds

VARIABLES src,             \* revision of each source file
          dir,             \* the run directory: members, a temporary, manifest, seal
          seal,            \* the seal_run in progress
          replaced, damaged

rvars == <<src, dir, seal, replaced, damaged>>

Roles == Range(Bindings) \cup Range(Artifacts) \cup Range(Levels)
Order == Bindings \o Artifacts \o Levels
Members == Roles \cup {"accuracy_gate"}

Created == [members |-> [m \in Members |-> Missing], tmp |-> FALSE, extra |-> FALSE,
            manifest |-> Missing, seal |-> Missing]

NotSealing == [pc |-> "idle", gated |-> FALSE, report |-> <<>>, copied |-> <<>>, before |-> 0,
               entries |-> <<>>, raced |-> FALSE]

ArchiveInit ==
    /\ src = [r \in Roles |-> 1]
    /\ dir = Created /\ seal = NotSealing
    /\ replaced = 0 /\ damaged = 0

-----------------------------------------------------------------------------
(* compare_accuracy_levels: an absolute gate, and a drop from the level      *)
(* before it, of what each summary says.                                   *)
Row(n, revs) ==
    LET level == Levels[n]
        map   == Metrics[level][revs[level]]
    IN  [level |-> level, source |-> revs[level], map |-> map,
         passed |-> /\ map >= Gates[level].min
                    /\ n > 1 => Metrics[Levels[n - 1]][revs[Levels[n - 1]]] - map <= Gates[level].max_drop]

compare_accuracy_levels(revs) == [n \in 1 .. Len(Levels) |-> Row(n, revs)]

(* enforce_accuracy_gates *)
Passed(report) == \A n \in DOMAIN report : report[n].passed

(* A file of any kind in the directory, a temporary or an older member. *)
Untouched == dir = Created

Raises == seal' = NotSealing

(* seal_run: the directory is unsealed and empty, and the gates are passed   *)
(* before anything is copied.                                              *)
BeginSeal(gated) ==
    /\ seal.pc = "idle"
    /\ LET report == compare_accuracy_levels(src)
       IN  IF ~Untouched \/ (gated /\ ~Passed(report)) THEN Raises
           ELSE seal' = [NotSealing EXCEPT !.pc = "copy", !.gated = gated,
                            !.report = IF gated THEN report ELSE <<>>]
    /\ UNCHANGED <<src, dir, replaced, damaged>>

(* The accuracy summaries are copied only when there are gates. *)
ToCopy == IF seal.gated THEN Order ELSE Bindings \o Artifacts
Role   == ToCopy[Len(seal.copied) + 1]

(* _atomic_copy: into a temporary ... *)
CopyBegin ==
    /\ seal.pc = "copy" /\ Len(seal.copied) < Len(ToCopy)
    /\ seal' = [seal EXCEPT !.pc = "rename", !.before = src[Role]]
    /\ dir' = [dir EXCEPT !.tmp = TRUE]
    /\ UNCHANGED <<src, replaced, damaged>>

(* ... which is renamed unless the source changed meanwhile. *)
Rename ==
    IF src[Role] # seal.before
    THEN dir' = [dir EXCEPT !.tmp = FALSE] /\ Raises
    ELSE /\ dir' = [dir EXCEPT !.tmp = FALSE, !.members[Role] = seal.before]
         /\ seal' = [seal EXCEPT !.pc = "copy", !.copied = Append(@, Role),
                                 !.entries = Append(@, [role |-> Role, sha |-> seal.before])]

CopyEnd == seal.pc = "rename" /\ Rename /\ UNCHANGED <<src, replaced, damaged>>

(* metrics/accuracy_gate.json is the report of the beginning. *)
WriteReport ==
    /\ seal.pc = "copy" /\ Len(seal.copied) = Len(ToCopy)
    /\ dir' = IF seal.gated THEN [dir EXCEPT !.members["accuracy_gate"] = seal.report] ELSE dir
    /\ seal' = [seal EXCEPT !.pc = "manifest"]
    /\ UNCHANGED <<src, replaced, damaged>>

WriteManifest ==
    /\ seal.pc = "manifest"
    /\ dir' = [dir EXCEPT !.manifest =
                  [entries |-> seal.entries, gated |-> seal.gated,
                   report |-> seal.report, raced |-> seal.raced]]
    /\ seal' = [seal EXCEPT !.pc = "seal"]
    /\ UNCHANGED <<src, replaced, damaged>>

WriteSeal ==
    /\ seal.pc = "seal"
    /\ dir' = [dir EXCEPT !.seal = dir.manifest]
    /\ seal' = [seal EXCEPT !.pc = "done"]
    /\ UNCHANGED <<src, replaced, damaged>>

Return == seal.pc = "done" /\ seal' = NotSealing /\ UNCHANGED <<src, dir, replaced, damaged>>

(* An error before the manifest removes the temporary, and nothing else; a   *)
(* kill removes nothing.                                                   *)
Killed ==
    /\ seal.pc # "idle" /\ Raises
    /\ dir' \in {dir, [dir EXCEPT !.tmp = FALSE]}
    /\ UNCHANGED <<src, replaced, damaged>>

-----------------------------------------------------------------------------
(* verify_run_archive: the seal is the manifest's, every required role is    *)
(* there, each member is what its entry says, and there is no other file.   *)
Declared(m) == {m.entries[n].role : n \in DOMAIN m.entries} \cup (IF m.gated THEN {"accuracy_gate"} ELSE {})

MembersMatch(m) ==
    /\ \A n \in DOMAIN m.entries : dir.members[m.entries[n].role] = m.entries[n].sha
    /\ m.gated => dir.members["accuracy_gate"] = m.report /\ Passed(m.report)

(* Mutant: files the manifest does not name are overlooked. *)
DeclaredPresent(m) == Declared(m) \subseteq {r \in Members : dir.members[r] # Missing}

Closed(m) == ~dir.tmp /\ ~dir.extra /\ {r \in Members : dir.members[r] # Missing} = Declared(m)

verify_run_archive ==
    LET m == dir.manifest
    IN  /\ m # Missing /\ dir.seal = m
        /\ Range(Bindings) \subseteq Declared(m)
        /\ MembersMatch(m)
        /\ Closed(m)

-----------------------------------------------------------------------------
Replace ==
    /\ replaced < MaxReplaced /\ replaced' = replaced + 1
    /\ \E r \in Roles : src[r] = 1 /\ src' = [src EXCEPT ![r] = 2]
    /\ seal' = [seal EXCEPT !.raced = @ \/ seal.pc # "idle"]
    /\ UNCHANGED <<dir, damaged>>

(* A member is lost or is another, a file is added, or the manifest edited. *)
Damage ==
    /\ damaged < MaxDamaged /\ damaged' = damaged + 1
    /\ seal.pc = "idle" /\ dir.manifest # Missing
    /\ \/ \E m \in Members : /\ dir.members[m] # Missing
                             /\ \/ dir' = [dir EXCEPT !.members[m] = Missing]
                                \/ m # "accuracy_gate" /\ dir' = [dir EXCEPT !.members[m] = 3]
                                \/ m = "accuracy_gate" /\ dir' = [dir EXCEPT !.members[m] = Reverse(@)]
       \/ dir' = [dir EXCEPT !.extra = TRUE]
       \/ dir' = [dir EXCEPT !.manifest.entries = Tail(@)]
       \/ dir' = [dir EXCEPT !.manifest.report = <<>>]
    /\ UNCHANGED <<src, seal, replaced>>

ArchiveNext ==
    \/ \E gated \in BOOLEAN : BeginSeal(gated)
    \/ CopyBegin \/ CopyEnd \/ WriteReport \/ WriteManifest \/ WriteSeal \/ Return \/ Killed
    \/ Replace \/ Damage

ArchiveSpec == ArchiveInit /\ [][ArchiveNext]_rvars

-----------------------------------------------------------------------------
(* An archive that verifies is one seal_run's: whatever was killed, tried    *)
(* again, replaced or damaged, it holds every role once, each as one whole   *)
(* source file was, nothing else, and if it is gated the report is a passed  *)
(* one, of the summaries in the archive unless one was replaced after the    *)
(* gates had read it, which seal_run does not notice (results.py:407-530,    *)
(* 544-638).                                                               *)
VerifiedIsSealed ==
    verify_run_archive =>
        LET m == dir.manifest
        IN  /\ ~dir.tmp /\ ~dir.extra
            /\ \A r \in Range(Bindings \o Artifacts) : dir.members[r] \in {1, 2}
            /\ m.gated =>
                 /\ Len(m.report) = Len(Levels) /\ Passed(m.report)
                 /\ \A n \in DOMAIN Levels :
                       /\ dir.members[Levels[n]] \in {1, 2}
                       /\ m.raced \/ m.report[n] = Row(n, dir.members)
            /\ ~m.gated => \A n \in DOMAIN Levels : dir.members[Levels[n]] = Missing

(* What seal_run says is sealed verifies.  *)
SealedVerifies == seal.pc = "done" => verify_run_archive
=============================================================================
