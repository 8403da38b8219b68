---------------------------- MODULE CorpusRelease ----------------------------
(***************************************************************************)
(* From a collected corpus to a released dataset: the runner of CorpusRun  *)
(* composed with the scripts that read what it leaves in the database and  *)
(* on disk, scripts/corpus_verify.py (the Gate 8 verdict) and              *)
(* scripts/emit_manifest.py and emit_manifest_v3.py (the split, the header *)
(* row of the split and the dataset manifest).                             *)
(*                                                                         *)
(* The scripts are run while the runner is not; the corpus they find may   *)
(* be unfinished, or be the work of runs that were killed.  What git,      *)
(* docker and the fixed files of the repository answer is left out.        *)
(***************************************************************************)
EXTENDS CorpusRun

CONSTANTS Policy,    \* LOCATION_INDUCTIVE_POLICY: the split of a leaf
          TestLeaf,  \* split_of: the leaves that the runner and the verifier call test
          Floor      \* FLOOR: the fewest incidents of a verified corpus

ASSUME CorpusReleaseAssumption ==
    /\ Policy \in [DOMAIN Leaves -> {"train", "validation", "test"}]
    /\ TestLeaf \in [DOMAIN Leaves -> BOOLEAN]
    /\ Floor \in Nat

VARIABLES
    seeds,     \* traffic_seed of every row
    verdict,   \* what corpus_verify said last
    draft,     \* the manifest an emission is about to write, or <<>>
    header,    \* the row of evaluation.split_manifests, or <<>>
    manifest   \* the manifest file, or <<>>

release == <<verdict, draft, header, manifest>>
allVars == <<vars, seeds, release>>

ReleaseInit ==
    /\ Init
    /\ seeds = <<>>
    /\ verdict = "none" /\ draft = <<>> /\ header = <<>> /\ manifest = <<>>

SettledRows == {n \in DOMAIN rows : rows[n].status = "settled"}
QuarantinedRows == {n \in DOMAIN rows : rows[n].status = "quarantined"}

-----------------------------------------------------------------------------
(* The runner.  A seed is the index of the incident; the index is not durable. *)

NextIncident == PickCell /\ seeds' = Append(seeds, idx + 1) /\ UNCHANGED release

Resume == Start /\ UNCHANGED <<seeds, release>>

Inject == (Apply \/ Verify) /\ UNCHANGED <<seeds, release>>

CaptureFabric == CaptureWindow /\ UNCHANGED <<seeds, release>>

Restore == (Clear \/ CleanBetween) /\ UNCHANGED <<seeds, release>>

Settle == (Commit \/ Unlink) /\ UNCHANGED <<seeds, release>>

Stop == (Finish \/ Die) /\ UNCHANGED <<seeds, release>>

-----------------------------------------------------------------------------
(* assemble_location_inductive *)

Assignment(n) == Policy[rows[n].cell[2]]

LinkOf == [n \in SettledRows |-> rows[n].link]
SeedFamily == [n \in SettledRows |-> seeds[n]]

\* A dictionary from the keys of the incidents to their splits, filled in the order of the rows, in
\* which each finds the split of the latest one before it that has the same key.
Earlier(key, n) == {m \in SettledRows : m < n /\ key[m] = key[n]}

KeptTogether(key) ==
    \A n \in SettledRows : Earlier(key, n) # {} => Assignment(Max(Earlier(key, n))) = Assignment(n)

\* Mutant of Assembles: repeats are not kept together.
AssemblesByLink == KeptTogether(LinkOf)

\* Neither of the two checks raises.  The campaign key is the batch of every incident, so the
\* pair of seed family and batch is the seed family.
Assembles == KeptTogether(LinkOf) /\ KeptTogether(SeedFamily)

\* link_groups, of which the split's manifest hash is taken.
LinkGroups == {<<Assignment(n), rows[n].link>> : n \in SettledRows}

-----------------------------------------------------------------------------
(* corpus_verify *)

StratumCountsMet == \A c \in Cells : Settled(c) >= PerCell

FloorCleared == Cardinality(SettledRows) >= Floor

\* Mutant of TelemetryWindowsVerify: the number of rows of a window is not looked at.
TelemetryWindowsExist == SettledRows \subseteq files

TelemetryWindowsVerify == \A n \in SettledRows : n \in files /\ rows[n].empty = 0

\* Train and test have no link in common, by the runner's two-way split.
SplitInvariant ==
    LET links(test) == {rows[n].link : n \in {m \in SettledRows : TestLeaf[rows[m].cell[2]] = test}}
    IN links(TRUE) \cap links(FALSE) = {}

\* Labels, seeds and onset times are written in the transaction that settles a row, so the checks
\* on them cannot fail.
VerifyCorpus ==
    /\ pc = "off" /\ lineage = "v2"
    /\ verdict' = IF StratumCountsMet /\ FloorCleared /\ TelemetryWindowsVerify /\ SplitInvariant
                  THEN "pass" ELSE "fail"
    /\ UNCHANGED <<vars, seeds, draft, header, manifest>>

-----------------------------------------------------------------------------
(* emit_manifest *)

\* Every window file of the campaign, whatever became of its incident.
WindowsRollup == files

BuildManifest ==
    [incidents |-> SettledRows, exclusions |-> QuarantinedRows, windows |-> WindowsRollup, groups |-> LinkGroups]

\* gather and build_manifest, then the header of the split in a transaction of its own: it is
\* written once for its protocol and version.
PersistHeader ==
    /\ pc = "off" /\ draft = <<>>
    /\ rows # <<>> /\ Assembles
    /\ draft' = <<BuildManifest>>
    /\ header' = IF header = <<>> THEN <<LinkGroups>> ELSE header
    /\ UNCHANGED <<vars, seeds, verdict, manifest>>

\* The file is replaced, unless the emission is killed before.
WriteManifest ==
    /\ draft # <<>>
    /\ manifest' \in {draft, manifest}
    /\ draft' = <<>>
    /\ UNCHANGED <<vars, seeds, verdict, header>>

ReleaseNext ==
    \/ NextIncident \/ Inject \/ CaptureFabric \/ Restore \/ Settle \/ Stop
    \/ draft = <<>> /\ (Resume \/ VerifyCorpus)
    \/ PersistHeader \/ WriteManifest

ReleaseSpec == ReleaseInit /\ [][ReleaseNext]_allVars

-----------------------------------------------------------------------------
(* Properties. *)

Groups == {"train", "validation", "test"} \X Links
Manifests == [incidents : SUBSET DOMAIN rows, exclusions : SUBSET DOMAIN rows,
              windows : SUBSET DOMAIN rows, groups : SUBSET Groups]

ReleaseTypeOK ==
    /\ TypeOK
    /\ seeds \in Seq(1 .. MaxRows) /\ Len(seeds) = Len(rows)
    /\ verdict \in {"none", "pass", "fail"}
    /\ \A m \in {draft, manifest} : m # <<>> => m[1] \in Manifests
    /\ header # <<>> => header[1] \subseteq Groups

\* A pass is earned, and it does not become stale although the runner may be started again: the
\* corpus behind it is complete and balanced, with a window for every incident in which something
\* was measured, and with labels that are true but for what an unread listing of qdiscs can hide
\* (corpus_verify.py:115-218, corpus_run.py:100-113, 266-296).
VerdictStands ==
    verdict = "pass" =>
        /\ \A c \in Cells : Settled(c) = PerCell
        /\ \A n \in SettledRows : n \in files /\ rows[n].empty = 0
        /\ LabelsAreTrue

\* Two incidents of a manifest on the same link, or with the same seed, are in the same split,
\* although a resumed runner gives a seed out twice (splits.py:82-116, corpus_run.py:264, 283).
EmittedWithoutLeakage ==
    manifest # <<>> => \A m, n \in manifest[1].incidents :
        rows[m].link = rows[n].link \/ seeds[m] = seeds[n] => Assignment(m) = Assignment(n)

\* The roll-up of a manifest covers the window of each of its incidents, no excluded incident is
\* among them, and each window that belongs to none of them was left behind by a setback: no
\* quarantine of a run that goes on leaves one (emit_manifest.py:67-78, 88-125).
ManifestBindsCorpus ==
    manifest # <<>> =>
        LET m == manifest[1]
        IN /\ m.incidents \subseteq m.windows
           /\ m.incidents \cap m.exclusions = {}
           /\ Cardinality(m.windows \ m.incidents) <= setbacks
=============================================================================
