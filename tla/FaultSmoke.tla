----------------------------- MODULE FaultSmoke -----------------------------
(***************************************************************************)
(* The fault campaign of scripts/fault_smoke.py with its write-ahead       *)
(* ledger, chaos/ledger.py.                                                *)
(*                                                                         *)
(* One process works through a list of faults.  Every step is the code     *)
(* between two appends to the ledger or two groups of lab commands; the    *)
(* process may be killed between any two steps, and be started again.      *)
(* Covered: commands that fail unnoticed, the reads of the last check      *)
(* among them, commands that time out and raise, onsets that are not seen, *)
(* kills.  Not covered: two campaigns at the same time, a torn last line   *)
(* of the ledger (the next run unlinks it).                                *)
(***************************************************************************)
EXTENDS Faults, Integers, Sequences

CONSTANTS Campaign,    \* sequence of [class, target], CAMPAIGN of the script
          Collector,   \* the target of telemetry_gap
          MaxRuns      \* bound on how often the campaign is started

ASSUME FaultSmokeAssumption ==
    /\ Campaign \in Seq([class : FaultClasses, target : {Campaign[k].target : k \in DOMAIN Campaign}])
    /\ Campaign # <<>>
    /\ \A k \in DOMAIN Campaign : Campaign[k].class = "telemetry_gap" <=> Campaign[k].target = Collector
    /\ MaxRuns \in Nat \ {0}

VARIABLES
    lab,        \* the conditions on every target
    ledger,     \* the ledger file: records <<entry of the campaign, phase>>
    pc,         \* what the process does next
    entry,      \* the entry of the campaign it works on
    raising,    \* an exception is on its way through the finally block
    failed,     \* _fail > 0
    rc,         \* how the last run ended
    runs,       \* campaigns started so far
    before,     \* the lab when this run began
    unread      \* history: the reads of this run's last check that failed and hid something

vars == <<lab, ledger, pc, entry, raising, failed, rc, runs, before, unread>>

Entries == DOMAIN Campaign
Targets == {Campaign[k].target : k \in Entries}
Interfaces == Targets \ {Collector}
Phases == {"planned", "injecting", "active", "failed", "clearing", "cleared"}
UNRECONCILED == {"planned", "injecting", "active", "clearing"}
Locations == {"off", "plan", "inject", "apply", "verify", "clearing", "clear", "cleared",
              "check", "reconcile"}

Class == Campaign[entry].class
Target == Campaign[entry].target

Init ==
    /\ lab = [t \in Targets |-> Clean] /\ before = lab
    /\ ledger = <<>>
    /\ pc = "off" /\ entry = 1
    /\ raising = FALSE /\ failed = FALSE /\ rc = "none" /\ runs = 0 /\ unread = {}

Log(phase) == ledger' = Append(ledger, <<entry, phase>>)

\* Entries whose last record is in a phase from which cleanup is owed (Ledger.outstanding).
Outstanding ==
    {k \in Entries : \E n \in DOMAIN ledger :
        /\ ledger[n][1] = k /\ ledger[n][2] \in UNRECONCILED
        /\ \A o \in n + 1 .. Len(ledger) : ledger[o][1] # k}

\* main: the old ledger is unlinked.
Start ==
    /\ pc = "off" /\ runs < MaxRuns
    /\ ledger' = <<>> /\ before' = lab
    /\ entry' = 1 /\ raising' = FALSE /\ failed' = FALSE /\ rc' = "none"
    /\ runs' = runs + 1 /\ unread' = {}
    /\ pc' = "plan"
    /\ UNCHANGED lab

Plan ==
    /\ pc = "plan"
    /\ Log("planned")
    /\ pc' = "inject"
    /\ UNCHANGED <<lab, entry, raising, failed, rc, runs, before, unread>>

Inject ==
    /\ pc = "inject"
    /\ Log("injecting")
    /\ pc' = "apply"
    /\ UNCHANGED <<lab, entry, raising, failed, rc, runs, before, unread>>

\* Mutant of Apply: an apply that times out is tried again.
ApplyRetries ==
    /\ pc = "apply"
    /\ \E on \in Applied(Class, lab[Target]) : lab' = [lab EXCEPT ![Target] = on]
    /\ pc' \in (IF Class \in Remote THEN {"verify", "apply"} ELSE {"verify"})
    /\ UNCHANGED <<ledger, entry, raising, failed, rc, runs, before, unread>>

\* apply, which raises on a timeout.
Apply ==
    /\ pc = "apply"
    /\ \E on \in Applied(Class, lab[Target]) : lab' = [lab EXCEPT ![Target] = on]
    /\ \/ pc' = "verify" /\ UNCHANGED raising
       \/ Class \in Remote /\ raising' = TRUE /\ pc' = "clearing"
    /\ UNCHANGED <<ledger, entry, failed, rc, runs, before, unread>>

\* Mutant of Verify: the verdict of an entry replaces that of the entries before it.
VerifyLastWins ==
    /\ pc = "verify"
    /\ \E onset \in Observed(Class, lab[Target]) :
         /\ Log(IF onset THEN "active" ELSE "failed")
         /\ failed' = (~onset /\ Class # "healthy_control")
    /\ pc' = "clearing"
    /\ UNCHANGED <<lab, entry, raising, rc, runs, before, unread>>

\* verify_onset, its record and its verdict.
Verify ==
    /\ pc = "verify"
    /\ \/ \E onset \in Observed(Class, lab[Target]) :
            /\ Log(IF onset THEN "active" ELSE "failed")
            /\ failed' = (failed \/ (~onset /\ Class # "healthy_control"))
            /\ UNCHANGED raising
       \/ /\ Class \in Remote \ Unchecked
          /\ raising' = TRUE
          /\ UNCHANGED <<ledger, failed>>
    /\ pc' = "clearing"
    /\ UNCHANGED <<lab, entry, rc, runs, before, unread>>

Clearing ==
    /\ pc = "clearing"
    /\ Log("clearing")
    /\ pc' = "clear"
    /\ UNCHANGED <<lab, entry, raising, failed, rc, runs, before, unread>>

\* clear, which raises on a timeout and so ends the run.
Clear ==
    /\ pc = "clear"
    /\ \E on \in Cleared(Class, lab[Target]) : lab' = [lab EXCEPT ![Target] = on]
    /\ \/ pc' = "cleared" /\ UNCHANGED rc
       \/ Class \in Remote /\ pc' = "off" /\ rc' = "error"
    /\ UNCHANGED <<ledger, entry, raising, failed, runs, before, unread>>

\* The end of the finally block.
Advance ==
    /\ pc = "cleared"
    /\ Log("cleared")
    /\ \/ raising /\ pc' = "off" /\ rc' = "error" /\ UNCHANGED entry
       \/ /\ ~raising /\ entry < Len(Campaign)
          /\ entry' = entry + 1 /\ pc' = "plan" /\ UNCHANGED rc
       \/ ~raising /\ entry = Len(Campaign) /\ pc' = "check" /\ UNCHANGED <<entry, rc>>
    /\ UNCHANGED <<lab, raising, failed, runs, before, unread>>

\* The reads of check_no_dirty_state and what each would show on its interface.
Reads == Interfaces \X {"tc", "ip"}
Shows(read) ==
    IF read[2] = "tc" THEN lab[read[1]] \cap Qdiscs ELSE lab[read[1]] \ Qdiscs

\* What the check may find on a target.  A read that failed gives empty output: an interface
\* is then clean as far as that read goes, and the collector does not run.  Whether `ip link`
\* shows an interface DOWN that was disabled by the device's configuration is up to the device.
Dirty(t, missed) ==
    LET shown == UNION {Shows(read) : read \in (({t} \X {"tc", "ip"}) \ missed)}
    IN IF t = Collector THEN {TRUE, lab[t] # Clean}
       ELSE IF shown = {"admin_down"} THEN BOOLEAN ELSE {shown # {}}

\* Any of the reads may fail; only failures that hide something make a difference.
CheckNoDirtyState ==
    /\ pc = "check"
    /\ \E missed \in SUBSET {read \in Reads : Shows(read) # {}}, dirty \in [Targets -> BOOLEAN] :
         /\ \A t \in Targets : dirty[t] \in Dirty(t, missed)
         /\ failed' = (failed \/ \E t \in Targets : dirty[t])
         /\ unread' = missed
    /\ pc' = "reconcile"
    /\ UNCHANGED <<lab, ledger, entry, raising, rc, runs, before>>

CheckReconciler ==
    /\ pc = "reconcile"
    /\ failed' = (failed \/ Outstanding # {})
    /\ rc' = IF failed' THEN "fail" ELSE "pass"
    /\ pc' = "off"
    /\ UNCHANGED <<lab, ledger, entry, raising, runs, before, unread>>

Kill ==
    /\ pc # "off"
    /\ pc' = "off" /\ rc' = "killed"
    /\ UNCHANGED <<lab, ledger, entry, raising, failed, runs, before, unread>>

Step ==
    \/ Plan \/ Inject \/ Apply \/ Verify \/ Clearing \/ Clear \/ Advance
    \/ CheckNoDirtyState \/ CheckReconciler

Next == Start \/ Step \/ Kill

Spec == Init /\ [][Next]_vars

\* The process runs unless it is killed; every lab command ends or times out.
FairSpec == Spec /\ WF_vars(Step)

-----------------------------------------------------------------------------
(* Properties. *)

TypeOK ==
    /\ lab \in [Targets -> SUBSET Conditions] /\ before \in [Targets -> SUBSET Conditions]
    /\ ledger \in Seq(Entries \X Phases)
    /\ pc \in Locations
    /\ entry \in Entries
    /\ raising \in BOOLEAN /\ failed \in BOOLEAN
    /\ rc \in {"none", "pass", "fail", "error", "killed"}
    /\ runs \in 0 .. MaxRuns
    /\ unread \subseteq Reads

\* The ledger is written ahead (ledger.py:3-4): whenever the process is killed, every condition that
\* this run put on a target is undone by the payload of some record for that target, and, whatever
\* raised in between, at most one cleanup is owed (fault_smoke.py:68-93).
WriteAhead ==
    /\ \A t \in Targets : \A c \in lab[t] \ before[t] :
          \E n \in DOMAIN ledger :
              LET e == Campaign[ledger[n][1]] IN e.target = t /\ c \in Undoes(e.class)
    /\ Cardinality(Outstanding) <= 1

\* A campaign that exits with 0 has seen the onset of every fault, the collector runs, and what
\* is left on an interface is something `ip link` does not show, or the read that would have
\* shown it failed and was judged clean (fault_smoke.py:83-89, 97-166).
ReadsClean ==
    /\ Collector \in Targets => lab[Collector] = Clean
    /\ \A read \in Reads \ unread : Shows(read) \subseteq {"admin_down"}
PassIsEarned ==
    rc = "pass" =>
        /\ \A k \in Entries : \E n \in DOMAIN ledger : ledger[n] = <<k, "active">>
        /\ ReadsClean

\* Every run of the campaign comes to an end.
CampaignEnds == pc # "off" ~> pc = "off"
=============================================================================
