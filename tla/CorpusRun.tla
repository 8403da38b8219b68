----------------------------- MODULE CorpusRun ------------------------------
(***************************************************************************)
(* The resumable corpus runner, scripts/corpus_run.py and, with the same   *)
(* control and a capture of every link, scripts/corpus_run_v3.py.          *)
(*                                                                         *)
(* A run collects labelled incidents, one after another, for the first     *)
(* cell (fault class, leaf) that is below its target; the rows of settled  *)
(* incidents are what the next run resumes from.  There is no exception    *)
(* handler: whatever raises ends the process as a kill does.               *)
(* Covered: lab commands that fail unnoticed or leave the device unread,   *)
(* exceptions and kills at any point, the disk gate, repeated runs.        *)
(* Not covered: two runs at the same time.                                 *)
(***************************************************************************)
EXTENDS Faults, Integers, Sequences, FiniteSetsExt

CONSTANTS Classes,       \* CLASSES, a sequence of fault classes
          Leaves,        \* LEAVES, a sequence
          Uplinks,       \* the number of uplinks of a leaf, len(UPLINKS)
          Target,        \* TARGET, the wanted number of incidents
          Batch,         \* BATCH, the most incidents one run collects
          Lineages,      \* which runners: "v2" captures one link, "v3" every link of the fabric
          Leftovers,     \* fault classes of which one may have been left in the lab before
          MaxSetbacks,   \* bound on failed commands, misreads, deaths and full disks
          MaxRows        \* bound on incidents: no run goes on from there

ASSUME CorpusRunAssumption ==
    /\ Classes \in Seq(FaultClasses \ {"telemetry_gap"})
    /\ {Uplinks, Target, Batch, Len(Classes), Len(Leaves)} \subseteq Nat \ {0}
    /\ DOMAIN Leaves = 1 .. Len(Leaves)
    /\ Leftovers # {} /\ Leftovers \subseteq FaultClasses \ {"telemetry_gap"}
    /\ {MaxSetbacks, MaxRows} \subseteq Nat
    /\ Lineages # {} /\ Lineages \subseteq {"v2", "v3"}

VARIABLES
    lab,        \* the conditions on every link
    rows,       \* evaluation.fault_injections of the campaign, in order of insertion
    files,      \* the rows whose telemetry window is on disk
    pc,         \* what the process does next
    idx,        \* the index that picks the uplink
    onset,      \* onset_ok of the current incident
    window,     \* the lab while the current incident's window was captured
    empty,      \* the captured windows that have no sample in them (2: several)
    lab_clean,  \* the verdict of clean_between
    blind,      \* history: it was reached although a qdisc is left
    counts,     \* settled incidents per cell, as this run knows them
    collected,  \* settled by this run
    setbacks,   \* setbacks so far
    lineage     \* the runner

vars == <<lab, rows, files, pc, idx, onset, window, empty, lab_clean, blind, counts, collected,
          setbacks, lineage>>
incident == <<onset, window, empty, lab_clean, blind>>
progress == <<idx, counts, collected>>

Links == (DOMAIN Leaves) \X (0 .. Uplinks - 1)
Cells == (DOMAIN Classes) \X (DOMAIN Leaves)
LinkConditions == Conditions \ {"stopped"}
Windows == [Links -> SUBSET LinkConditions]
Unlabelled == [l \in Links |-> {}]
Statuses == {"injecting", "settled", "quarantined"}
Locations == {"off", "pick", "apply", "verify", "capture", "clear", "check", "commit", "unlink"}

\* ceil(Target / cells)
PerCell == (Target + Cardinality(Cells) - 1) \div Cardinality(Cells)

Current == Len(rows)
Class == Classes[rows[Current].cell[1]]
Link == rows[Current].link

Settled(cell) == Cardinality({n \in DOMAIN rows : rows[n].cell = cell /\ rows[n].status = "settled"})
\* The sum over the cells, as the size of a set of units.
Total(count) == Cardinality(UNION {{c} \X (1 .. count[c]) : c \in Cells})

\* The lab may have been left with a fault by a campaign that was killed (see FaultSmoke).
Init ==
    /\ \E l \in Links, fc \in Leftovers :
         lab = [[k \in Links |-> Clean] EXCEPT ![l] = Condition(fc)]
    /\ rows = <<>> /\ files = {}
    /\ pc = "off" /\ idx = 0
    /\ onset = FALSE /\ window = Unlabelled /\ empty = 0
    /\ lab_clean = FALSE /\ blind = FALSE
    /\ counts = [c \in Cells |-> 0] /\ collected = 0
    /\ setbacks = 0
    /\ lineage \in Lineages

Setback(n) == setbacks + n <= MaxSetbacks /\ setbacks' = setbacks + n

\* Mutant of Start: settled incidents of earlier runs are not counted.
StartForgets ==
    /\ pc = "off"
    /\ counts' = [c \in Cells |-> 0]
    /\ idx' = Len(rows)
    /\ collected' = 0
    /\ pc' = "pick"
    /\ UNCHANGED <<lab, rows, files, incident, setbacks, lineage>>

\* run: the counts come from the settled rows, and the index starts at their number.
Start ==
    /\ pc = "off"
    /\ counts' = [c \in Cells |-> Settled(c)]
    /\ idx' = Cardinality({n \in DOMAIN rows : rows[n].status = "settled"})
    /\ collected' = 0
    /\ pc' = "pick"
    /\ UNCHANGED <<lab, rows, files, incident, setbacks, lineage>>

Wanted == {c \in Cells : counts[c] < PerCell}

\* The first of the cells in the order of Classes, then of Leaves.
FirstOf(cells) ==
    CHOOSE c \in cells : \A d \in cells : c[1] < d[1] \/ (c[1] = d[1] /\ c[2] <= d[2])

GoesOn == collected < Batch /\ Total(counts) < Target /\ Wanted # {} /\ Len(rows) < MaxRows

\* The next incident: its row is committed before the lab is touched.
PickCell ==
    /\ pc = "pick" /\ GoesOn
    /\ LET cell == FirstOf(Wanted)
       IN rows' = Append(rows, [cell |-> cell, link |-> <<cell[2], idx % Uplinks>>,
                                status |-> "injecting", label |-> Unlabelled, empty |-> 0,
                                blind |-> FALSE])
    /\ pc' = "apply"
    /\ UNCHANGED <<lab, files, incident, progress, setbacks, lineage>>

\* The batch is full, the target is reached, or - a setback - the disk is full.
Finish ==
    /\ pc = "pick"
    /\ Setback(IF GoesOn THEN 1 ELSE 0)
    /\ pc' = "off"
    /\ UNCHANGED <<lab, rows, files, incident, progress, lineage>>

Apply ==
    /\ pc = "apply"
    /\ \E on \in Applied(Class, lab[Link]) :
         /\ Setback(IF on = Works(Class, lab[Link]) THEN 0 ELSE 1)
         /\ lab' = [lab EXCEPT ![Link] = on]
    /\ pc' = "verify"
    /\ UNCHANGED <<rows, files, incident, progress, lineage>>

\* verify_onset, which is not asked about a healthy control.
Verify ==
    /\ pc = "verify"
    /\ \E seen \in Observed(Class, lab[Link]) :
         /\ Setback(IF seen = Onset(Class, lab[Link]) THEN 0 ELSE 1)
         /\ onset' = seen
    /\ pc' = "capture"
    /\ UNCHANGED <<lab, rows, files, window, empty, lab_clean, blind, progress, lineage>>

\* The range query may find nothing, for example while the collector is stopped.
CaptureWindow ==
    /\ pc = "capture"
    /\ window' = lab
    /\ empty' \in IF lineage = "v2" THEN 0 .. 1 ELSE 0 .. 2
    /\ Setback(IF empty' > 0 THEN 1 ELSE 0)
    /\ files' = files \cup {Current}
    /\ pc' = "clear"
    /\ UNCHANGED <<lab, rows, onset, lab_clean, blind, progress, lineage>>

Clear ==
    /\ pc = "clear"
    /\ \E on \in Cleared(Class, lab[Link]) :
         /\ Setback(IF on = lab[Link] \ Undoes(Class) THEN 0 ELSE 1)
         /\ lab' = [lab EXCEPT ![Link] = on]
    /\ pc' = "check"
    /\ UNCHANGED <<rows, files, incident, progress, lineage>>

\* clean_between looks at the link of the incident.  An operational state that cannot be read is
\* not "up", but a listing of the qdiscs that cannot be read is empty, as that of a clean link.
CleanBetween ==
    /\ pc = "check"
    /\ \E clean \in {FALSE, ~OperDown(lab[Link])} :
         /\ Setback(IF clean = (lab[Link] = Clean) THEN 0 ELSE 1)
         /\ lab_clean' = clean
         /\ blind' = (clean /\ lab[Link] # Clean)
    /\ pc' = "commit"
    /\ UNCHANGED <<lab, rows, files, onset, window, empty, progress, lineage>>

\* An artifact's hash is unique, and all empty windows have the same one.
Insertable ==
    /\ empty <= 1
    /\ empty = 1 => \A n \in DOMAIN rows : rows[n].status = "settled" => rows[n].empty = 0

Collected(row) ==
    [row EXCEPT !.status = "settled", !.label = window, !.empty = empty, !.blind = blind]

\* Mutant of Commit: only a dirty lab quarantines an incident.
CommitUnverified ==
    /\ pc = "commit"
    /\ IF lab_clean
       THEN /\ rows' = [rows EXCEPT ![Current] = Collected(@)]
            /\ counts' = [counts EXCEPT ![rows[Current].cell] = @ + 1]
            /\ collected' = collected + 1
            /\ idx' = idx + 1
            /\ pc' = "pick"
       ELSE /\ rows' = [rows EXCEPT ![Current].status = "quarantined"]
            /\ pc' = "unlink"
            /\ UNCHANGED progress
    /\ UNCHANGED <<lab, files, incident, setbacks, lineage>>

\* The row, its label and its artifacts in one transaction: a second empty window ends the run
\* with IntegrityError.
Commit ==
    /\ pc = "commit"
    /\ \/ /\ onset /\ lab_clean /\ Insertable
          /\ rows' = [rows EXCEPT ![Current] = Collected(@)]
          /\ counts' = [counts EXCEPT ![rows[Current].cell] = @ + 1]
          /\ collected' = collected + 1
          /\ idx' = idx + 1
          /\ pc' = "pick"
       \/ /\ onset /\ lab_clean /\ ~Insertable
          /\ pc' = "off"
          /\ UNCHANGED <<rows, progress>>
       \/ /\ ~(onset /\ lab_clean)
          /\ rows' = [rows EXCEPT ![Current].status = "quarantined"]
          /\ pc' = "unlink"
          /\ UNCHANGED progress
    /\ UNCHANGED <<lab, files, incident, setbacks, lineage>>

\* Mutant of Unlink: the file stays.
UnlinkNot ==
    /\ pc = "unlink"
    /\ idx' = idx + 1
    /\ pc' = "pick"
    /\ UNCHANGED <<lab, rows, files, incident, counts, collected, setbacks, lineage>>

\* Mutant of Unlink: a quarantined incident is tried again with the same index.
UnlinkSameIndex ==
    /\ pc = "unlink"
    /\ files' = files \ {Current}
    /\ pc' = "pick"
    /\ UNCHANGED <<lab, rows, incident, progress, setbacks, lineage>>

\* The window of a quarantined incident is not part of the corpus.
Unlink ==
    /\ pc = "unlink"
    /\ files' = files \ {Current}
    /\ idx' = idx + 1
    /\ pc' = "pick"
    /\ UNCHANGED <<lab, rows, incident, counts, collected, setbacks, lineage>>

\* An exception or a kill.  In the middle of a capture some windows may have been written.
Die ==
    /\ pc # "off"
    /\ Setback(1)
    /\ files' \in IF pc = "capture" THEN {files, files \cup {Current}} ELSE {files}
    /\ pc' = "off"
    /\ UNCHANGED <<lab, rows, incident, progress, lineage>>

Step ==
    \/ PickCell \/ Finish \/ Apply \/ Verify \/ CaptureWindow \/ Clear \/ CleanBetween
    \/ Commit \/ Unlink

Next == Start \/ Step \/ Die

Spec == Init /\ [][Next]_vars

\* A process that is not killed runs on, and the runner is started again and again.
FairSpec == Spec /\ WF_vars(Start \/ Step)

-----------------------------------------------------------------------------
(* Properties. *)

TypeOK ==
    /\ lab \in Windows /\ window \in Windows
    /\ rows \in Seq([cell : Cells, link : Links, status : Statuses, label : Windows,
                    empty : 0 .. 1, blind : BOOLEAN])
    /\ files \subseteq DOMAIN rows
    /\ pc \in Locations
    /\ idx \in 0 .. MaxRows
    /\ onset \in BOOLEAN /\ empty \in 0 .. 2
    /\ lab_clean \in BOOLEAN /\ blind \in BOOLEAN
    /\ counts \in [Cells -> 0 .. PerCell]
    /\ collected \in 0 .. Batch
    /\ setbacks \in 0 .. MaxSetbacks
    /\ lineage \in Lineages

IsSettled(n) == rows[n].status = "settled"

\* However often the runner is killed and resumed, it never collects more than it was asked to,
\* in a cell or in total (corpus_run.py:134-147, 266-296).
NotOverfilled ==
    /\ \A c \in Cells : Settled(c) <= PerCell
    /\ Cardinality({n \in DOMAIN rows : IsSettled(n)}) <= Target

\* A label is the truth about its link: while the window was captured, the link carried the
\* fault it is labelled with and nothing else, although the link may have been left dirty by
\* an earlier run and any command may have failed (corpus_run.py:187-207).  The one thing a label
\* can hide is a qdisc beneath a fault of another kind, on a link whose listing of qdiscs was not
\* read (corpus_run.py:100-113); that it was read hides nothing else.  The onset of a flap is
\* never verified (faults.py:106-107), it may be over or have left the link down.
LabelsAreTrue ==
    \A n \in DOMAIN rows : IsSettled(n) =>
        LET fc == Classes[rows[n].cell[1]]
            hidden == IF rows[n].blind /\ Condition(fc) \cap Qdiscs = {} THEN Qdiscs ELSE {}
            on == rows[n].label[rows[n].link] \ hidden
        IN IF fc = "intermittent_link" THEN on \subseteq Condition(fc) ELSE on = Condition(fc)

\* Every uplink of a leaf was left with something on it by now, one of them unseen.
LeftDirty ==
    /\ \E n \in DOMAIN rows : rows[n].blind
    /\ \E leaf \in DOMAIN Leaves : \A l \in Links : l[1] = leaf => lab[l] # Clean

\* Once the setbacks are over, runs in chunks complete the corpus (corpus_run.py:3-6): no dirty
\* link is a dead end, unless it was taken for clean.
CorpusCompletes ==
    \/ <>(Cardinality({n \in DOMAIN rows : IsSettled(n)}) = Target)
    \/ <>[]LeftDirty
=============================================================================
