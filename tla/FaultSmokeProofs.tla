-------------------------- MODULE FaultSmokeProofs --------------------------
(***************************************************************************)
(* For any campaign, on any targets, started and killed any number of      *)
(* times: the ledger is written ahead of what is put on the lab, and a     *)
(* campaign that exits with 0 saw every onset and left nothing to be seen. *)
(***************************************************************************)
EXTENDS FaultSmoke, FiniteSetTheorems, TLAPS

TypesFit ==
    /\ lab \in [Targets -> SUBSET Conditions]
    /\ ledger \in Seq(Entries \X Phases)
    /\ pc \in Locations
    /\ entry \in Entries
    /\ raising \in BOOLEAN /\ failed \in BOOLEAN

\* A fault is put on the lab only after its record.
Recorded == pc = "apply" => \E n \in DOMAIN ledger : ledger[n][1] = entry

\* Whatever this run put on a target, the payload of a record undoes.
Undoable ==
    \A t \in Targets : \A c \in lab[t] \ before[t] :
        \E n \in DOMAIN ledger :
            Campaign[ledger[n][1]].target = t /\ c \in Undoes(Campaign[ledger[n][1]].class)

\* Cleanup is owed for the entry that is worked on, and for no other.
OneOwed == Outstanding \subseteq {entry}

Seen(k) == \E n \in DOMAIN ledger : ledger[n] = <<k, "active">>

\* As long as nothing has failed, the onset of every entry was seen.
OnsetsSeen ==
    /\ raising => pc \in {"clearing", "clear", "cleared", "off"}
    /\ pc # "off" /\ ~failed =>
          /\ \A k \in 1 .. entry - 1 : Seen(k)
          /\ pc \in {"clearing", "clear", "cleared"} /\ ~raising => Seen(entry)
          /\ pc \in {"check", "reconcile"} => \A k \in Entries : Seen(k)

\* What the look at the lab did not find is not there, as far as it could read.
LabLooksClean == pc = "reconcile" /\ ~failed => ReadsClean

IInv ==
    /\ TypesFit
    /\ pc # "off" => rc = "none"
    /\ Recorded
    /\ Undoable
    /\ OneOwed
    /\ OnsetsSeen
    /\ LabLooksClean
    /\ PassIsEarned

-----------------------------------------------------------------------------
(* The campaign and the faults. *)

LEMMA CampaignFits ==
    /\ Campaign \in Seq([class : FaultClasses, target : Targets])
    /\ Len(Campaign) \in Nat \ {0}
    /\ Entries = 1 .. Len(Campaign)
    /\ \A k \in Entries : Campaign[k].target \in Targets /\ Campaign[k].class \in FaultClasses
<1>1. Targets = {Campaign[k].target : k \in DOMAIN Campaign}
    BY DEF Targets, Entries
<1>2. Campaign \in Seq([class : FaultClasses, target : Targets]) /\ Campaign # <<>>
    BY <1>1, FaultSmokeAssumption
<1>3. Len(Campaign) \in Nat /\ DOMAIN Campaign = 1 .. Len(Campaign)
    BY <1>2
<1>4. Len(Campaign) # 0
    BY <1>2
<1>5. ASSUME NEW k \in Entries
      PROVE  Campaign[k].target \in Targets /\ Campaign[k].class \in FaultClasses
    <2>1. \A S : \A s \in Seq(S) : \A n \in DOMAIN s : s[n] \in S
        OBVIOUS
    <2>2. Campaign[k] \in [class : FaultClasses, target : Targets]
        BY <1>2, <2>1, Zenon DEF Entries
    <2> QED
        BY <2>2
<1>6. Entries = 1 .. Len(Campaign)
    BY <1>3 DEF Entries
<1> QED
    BY <1>2, <1>3, <1>4, <1>5, <1>6

\* What apply leaves on a target was there before, or is undone by the payload of its class.
LEMMA AppliedIsUndone ==
    ASSUME NEW fc \in FaultClasses, NEW on \in SUBSET Conditions, NEW new \in Applied(fc, on)
    PROVE  new \in SUBSET Conditions /\ \A c \in new \ on : c \in Undoes(fc)
<1>1. Condition(fc) \subseteq Conditions
    BY DEF FaultClasses, Condition, Conditions, Qdiscs
<1>2. new \subseteq on \cup Condition(fc)
    BY DEF Applied
<1>3. Condition(fc) \subseteq Undoes(fc)
    BY DEF FaultClasses, Condition, Undoes, Qdiscs
<1> QED
    BY <1>1, <1>2, <1>3

\* A flap and a control, whose onset nobody can see, are always taken to be seen.
LEMMA OnsetFits ==
    ASSUME NEW fc \in FaultClasses, NEW on, NEW onset \in Observed(fc, on)
    PROVE  onset \in BOOLEAN /\ (fc = "healthy_control" => onset = TRUE)
<1>1. Onset(fc, on) \in BOOLEAN /\ (fc = "healthy_control" => Onset(fc, on) = TRUE)
    BY DEF FaultClasses, Onset, OperDown
<1> QED
    BY <1>1 DEF Observed, Unchecked

-----------------------------------------------------------------------------
(* The ledger. *)

\* A record is appended: earlier ones stay, and what is owed for other entries does not change.
LEMMA LogStep ==
    ASSUME TypesFit, NEW phase \in Phases, Log(phase), Campaign' = Campaign
    PROVE  /\ ledger' \in Seq(Entries \X Phases)
           /\ \A n \in DOMAIN ledger : n \in DOMAIN ledger' /\ ledger'[n] = ledger[n]
           /\ Len(ledger') \in DOMAIN ledger' /\ ledger'[Len(ledger')] = <<entry, phase>>
           /\ Outstanding' \subseteq Outstanding \cup {entry}
           /\ phase = "cleared" => entry \notin Outstanding'
<1> DEFINE r == <<entry, phase>>
<1>1. ledger \in Seq(Entries \X Phases) /\ r \in Entries \X Phases /\ ledger' = Append(ledger, r)
    BY DEF TypesFit, Log
<1>2. /\ ledger' \in Seq(Entries \X Phases) /\ Len(ledger') = Len(ledger) + 1 /\ Len(ledger) \in Nat
      /\ DOMAIN ledger' = 1 .. Len(ledger) + 1 /\ DOMAIN ledger = 1 .. Len(ledger)
      /\ ledger'[Len(ledger) + 1] = r
      /\ \A n \in 1 .. Len(ledger) : ledger'[n] = ledger[n]
    BY <1>1
<1>3. ASSUME NEW k \in Outstanding', k # entry PROVE k \in Outstanding
    <2>1. k \in Entries
        BY <1>3 DEF Outstanding, Entries
    <2>2. PICK n \in DOMAIN ledger' :
              /\ ledger'[n][1] = k /\ ledger'[n][2] \in UNRECONCILED
              /\ \A o \in n + 1 .. Len(ledger') : ledger'[o][1] # k
        BY <1>3 DEF Outstanding
    <2>3. n # Len(ledger) + 1
        BY <1>2, <1>3, <2>2
    <2>4. n \in DOMAIN ledger /\ ledger'[n] = ledger[n]
        BY <1>2, <2>3
    <2>5. \A o \in n + 1 .. Len(ledger) : ledger[o][1] # k
        BY <1>2, <2>2, <2>4
    <2> QED
        BY <2>1, <2>2, <2>4, <2>5 DEF Outstanding
<1>4. ASSUME phase = "cleared", entry \in Outstanding' PROVE FALSE
    <2>1. PICK n \in DOMAIN ledger' :
              /\ ledger'[n][1] = entry /\ ledger'[n][2] \in UNRECONCILED
              /\ \A o \in n + 1 .. Len(ledger') : ledger'[o][1] # entry
        BY <1>4 DEF Outstanding
    <2>2. CASE n = Len(ledger) + 1
        BY <1>2, <1>4, <2>1, <2>2 DEF UNRECONCILED
    <2>3. CASE n \in 1 .. Len(ledger)
        <3>1. Len(ledger) + 1 \in n + 1 .. Len(ledger')
            BY <1>2, <2>3
        <3> QED
            BY <1>2, <2>1, <3>1
    <2> QED
        BY <1>2, <2>2, <2>3
<1> QED
    BY <1>2, <1>3, <1>4

\* While the run goes on and nothing is put on the lab, all that was recorded and seen remains so.
LEMMA LogKeeps ==
    ASSUME IInv, NEW phase \in Phases, Log(phase), Campaign' = Campaign,
           \A t \in Targets : lab'[t] \subseteq lab[t], UNCHANGED before
    PROVE  /\ Undoable'
           /\ \A k \in Entries : Seen(k) => Seen(k)'
<1>1. \A n \in DOMAIN ledger : n \in DOMAIN ledger' /\ ledger'[n] = ledger[n]
    BY LogStep DEF IInv
<1>2. Undoable'
    BY <1>1 DEF IInv, Undoable, Targets, Entries
<1> QED
    BY <1>1, <1>2 DEF Seen

-----------------------------------------------------------------------------
(* The steps. *)

LEMMA InitHolds == Init => IInv
<1> SUFFICES ASSUME Init PROVE IInv
    OBVIOUS
<1> USE DEF Init
<1>1. TypesFit
    <2>1. 1 \in Entries
        BY CampaignFits
    <2>2. ledger \in Seq(Entries \X Phases)
        OBVIOUS
    <2> QED
        BY <2>1, <2>2 DEF TypesFit, Clean, Locations
<1>2. Outstanding = {}
    BY DEF Outstanding
<1>3. Undoable
    BY DEF Undoable
<1>4. OnsetsSeen /\ LabLooksClean /\ Recorded
    BY DEF OnsetsSeen, LabLooksClean, Recorded
<1>5. PassIsEarned
    BY DEF PassIsEarned
<1> QED
    BY <1>1, <1>2, <1>3, <1>4, <1>5 DEF IInv, OneOwed

LEMMA StartStep == IInv /\ Start => IInv'
<1> SUFFICES ASSUME IInv, Start PROVE IInv'
    OBVIOUS
<1> USE DEF Start
<1>1. TypesFit'
    <2>1. 1 \in Entries /\ Entries' = Entries /\ Targets' = Targets
        BY CampaignFits DEF Entries, Targets
    <2>2. ledger' \in Seq(Entries \X Phases)
        OBVIOUS
    <2> QED
        BY <2>1, <2>2 DEF IInv, TypesFit, Locations
<1>2. Outstanding' = {}
    BY DEF Outstanding
<1>3. Undoable'
    BY DEF Undoable
<1>4. OnsetsSeen' /\ LabLooksClean' /\ Recorded'
    BY DEF OnsetsSeen, LabLooksClean, Recorded
<1>5. PassIsEarned'
    BY DEF PassIsEarned
<1> QED
    BY <1>1, <1>2, <1>3, <1>4, <1>5 DEF IInv, OneOwed

LEMMA PlanStep == IInv /\ (Plan \/ Inject \/ Clearing) => IInv'
<1> SUFFICES ASSUME IInv, Plan \/ Inject \/ Clearing PROVE IInv'
    OBVIOUS
<1> USE DEF Plan, Inject, Clearing
<1>1. PICK phase \in Phases : Log(phase)
    BY DEF Phases
<1>2. UNCHANGED <<lab, entry, raising, failed, rc, before>> /\ TypesFit
    BY DEF IInv
<1>3. TypesFit'
    BY <1>1, <1>2, LogStep DEF TypesFit, Locations
<1>4. Recorded'
    BY <1>1, <1>2, LogStep DEF Recorded
<1>5. Undoable' /\ \A k \in Entries : Seen(k) => Seen(k)'
    BY <1>1, <1>2, LogKeeps
<1>6. OneOwed'
    BY <1>1, <1>2, LogStep DEF IInv, OneOwed
<1>7. OnsetsSeen'
    <2>1. entry \in Entries /\ 1 .. entry - 1 \subseteq Entries
        BY <1>2, CampaignFits DEF TypesFit
    <2> QED
        BY <1>2, <1>5, <2>1 DEF IInv, OnsetsSeen
<1> QED
    BY <1>2, <1>3, <1>4, <1>5, <1>6, <1>7 DEF IInv, LabLooksClean, PassIsEarned

LEMMA ApplyStep == IInv /\ Apply => IInv'
<1> SUFFICES ASSUME IInv, Apply PROVE IInv'
    OBVIOUS
<1> USE DEF Apply
<1>1. TypesFit /\ UNCHANGED <<ledger, entry, failed, rc, before>> /\ pc = "apply"
    BY DEF IInv
<1>2. Target \in Targets /\ Class \in FaultClasses /\ entry \in Entries
    BY <1>1, CampaignFits DEF TypesFit, Target, Class
<1>3. PICK on \in Applied(Class, lab[Target]) : lab' = [lab EXCEPT ![Target] = on]
    OBVIOUS
<1>4. on \in SUBSET Conditions /\ \A c \in on \ lab[Target] : c \in Undoes(Class)
    BY <1>1, <1>2, AppliedIsUndone DEF TypesFit
<1>5. TypesFit'
    BY <1>1, <1>2, <1>3, <1>4 DEF TypesFit, Locations
<1>6. Undoable'
    <2> SUFFICES ASSUME NEW t \in Targets, NEW c \in lab'[t] \ before[t]
                 PROVE  \E n \in DOMAIN ledger :
                            Campaign[ledger[n][1]].target = t /\ c \in Undoes(Campaign[ledger[n][1]].class)
        BY <1>1 DEF Undoable, Targets, Entries
    <2>1. CASE c \in lab[t]
        BY <2>1 DEF IInv, Undoable
    <2>2. CASE c \notin lab[t]
        <3>1. t = Target /\ c \in Undoes(Class)
            BY <1>1, <1>2, <1>3, <1>4, <2>2 DEF TypesFit
        <3>2. \E n \in DOMAIN ledger : ledger[n][1] = entry
            BY <1>1 DEF IInv, Recorded
        <3> QED
            BY <3>1, <3>2 DEF Target, Class
    <2> QED
        BY <2>1, <2>2
<1>7. OneOwed'
    BY <1>1 DEF IInv, OneOwed, Outstanding, Entries
<1>8. OnsetsSeen'
    BY <1>1 DEF IInv, OnsetsSeen, Seen
<1> QED
    BY <1>1, <1>5, <1>6, <1>7, <1>8 DEF IInv, Recorded, LabLooksClean, PassIsEarned

LEMMA VerifyStep == IInv /\ Verify => IInv'
<1> SUFFICES ASSUME IInv, Verify PROVE IInv'
    OBVIOUS
<1> USE DEF Verify
<1>1. /\ TypesFit /\ UNCHANGED <<lab, entry, rc, before>> /\ pc = "verify" /\ pc' = "clearing"
      /\ entry \in Entries /\ 1 .. entry - 1 \subseteq Entries /\ Class \in FaultClasses
    BY CampaignFits DEF IInv, TypesFit, Class
<1>2. CASE UNCHANGED <<ledger, failed>> /\ raising' = TRUE
    <2>1. OneOwed'
        BY <1>1, <1>2 DEF IInv, OneOwed, Outstanding, Entries
    <2>2. Undoable'
        BY <1>1, <1>2 DEF IInv, Undoable, Targets, Entries
    <2>3. OnsetsSeen'
        BY <1>1, <1>2 DEF IInv, OnsetsSeen, Seen
    <2> QED
        BY <1>1, <1>2, <2>1, <2>2, <2>3
           DEF IInv, TypesFit, Locations, Recorded, LabLooksClean, PassIsEarned
<1>3. ASSUME NEW onset \in Observed(Class, lab[Target]),
             Log(IF onset THEN "active" ELSE "failed"),
             failed' = (failed \/ (~onset /\ Class # "healthy_control")), UNCHANGED raising
      PROVE  IInv'
    <2>1. PICK phase \in Phases : phase = (IF onset THEN "active" ELSE "failed") /\ Log(phase)
        BY <1>3 DEF Phases
    <2>2. TypesFit'
        BY <1>1, <1>3, <2>1, LogStep DEF TypesFit, Locations
    <2>3. Undoable' /\ \A k \in Entries : Seen(k) => Seen(k)'
        BY <1>1, <2>1, LogKeeps
    <2>4. OneOwed'
        BY <1>1, <2>1, LogStep DEF IInv, OneOwed
    <2>5. ~failed' => Seen(entry)'
        <3>1. SUFFICES ASSUME ~failed' PROVE Seen(entry)'
            OBVIOUS
        <3>2. onset = TRUE
            BY <1>1, <1>3, <3>1, OnsetFits
        <3>3. phase = "active"
            BY <2>1, <3>2
        <3> QED
            BY <1>1, <2>1, <3>3, LogStep DEF Seen
    <2>6. ~failed' => ~failed
        BY <1>3
    <2>7. OnsetsSeen'
        BY <1>1, <1>3, <2>3, <2>5, <2>6 DEF IInv, OnsetsSeen
    <2> QED
        BY <1>1, <2>2, <2>3, <2>4, <2>7 DEF IInv, Recorded, LabLooksClean, PassIsEarned
<1> QED
    BY <1>2, <1>3

LEMMA ClearStep == IInv /\ Clear => IInv'
<1> SUFFICES ASSUME IInv, Clear PROVE IInv'
    OBVIOUS
<1> USE DEF Clear
<1>1. /\ TypesFit /\ UNCHANGED <<ledger, entry, raising, failed, before>>
      /\ pc = "clear" /\ pc' \in {"cleared", "off"}
      /\ Target \in Targets /\ entry \in Entries
    BY CampaignFits DEF IInv, TypesFit, Target
<1>2. PICK on \in Cleared(Class, lab[Target]) : lab' = [lab EXCEPT ![Target] = on]
    OBVIOUS
<1>3. on \subseteq lab[Target]
    BY DEF Cleared
<1>4. TypesFit' /\ \A t \in Targets : lab'[t] \subseteq lab[t]
    BY <1>1, <1>2, <1>3 DEF TypesFit, Locations
<1>5. Undoable'
    BY <1>1, <1>4 DEF IInv, Undoable, Targets, Entries
<1>6. OneOwed'
    BY <1>1 DEF IInv, OneOwed, Outstanding, Entries
<1>7. OnsetsSeen'
    BY <1>1 DEF IInv, OnsetsSeen, Seen
<1>8. rc' # "pass" /\ (pc' # "off" => rc' = "none")
    BY <1>1 DEF IInv
<1> QED
    BY <1>1, <1>4, <1>5, <1>6, <1>7, <1>8 DEF IInv, Recorded, LabLooksClean, PassIsEarned

LEMMA AdvanceStep == IInv /\ Advance => IInv'
<1> SUFFICES ASSUME IInv, Advance PROVE IInv'
    OBVIOUS
<1> USE DEF Advance
<1>1. /\ TypesFit /\ UNCHANGED <<lab, raising, failed, before>> /\ pc = "cleared"
      /\ entry \in Entries /\ Entries = 1 .. Len(Campaign) /\ Len(Campaign) \in Nat
      /\ Log("cleared") /\ "cleared" \in Phases
    BY CampaignFits DEF IInv, TypesFit, Phases
<1>2. pc' \in {"off", "plan", "check"} /\ entry' \in Entries
    BY <1>1
<1>3. TypesFit'
    BY <1>1, <1>2, LogStep DEF TypesFit, Locations
<1>4. Undoable' /\ \A k \in Entries : Seen(k) => Seen(k)'
    BY <1>1, LogKeeps
<1>5. Outstanding' = {}
    BY <1>1, LogStep DEF IInv, OneOwed
<1>6. OnsetsSeen'
    <2>1. SUFFICES ASSUME pc' # "off"
                   PROVE  OnsetsSeen'
        BY DEF OnsetsSeen
    <2>2. ~raising /\ raising' = FALSE
        BY <1>1, <2>1 DEF TypesFit
    <2>3. ~failed => \A k \in 1 .. entry : Seen(k)'
        BY <1>1, <1>4, <2>2 DEF IInv, OnsetsSeen
    <2>4. CASE pc' = "plan" /\ entry' = entry + 1
        BY <1>1, <2>2, <2>3, <2>4 DEF OnsetsSeen
    <2>5. CASE pc' = "check" /\ entry = Len(Campaign) /\ entry' = entry
        BY <1>1, <2>2, <2>3, <2>5 DEF OnsetsSeen, Entries
    <2> QED
        BY <1>1, <2>1, <2>4, <2>5
<1>7. rc' # "pass" /\ (pc' # "off" => rc' = "none")
    BY <1>1 DEF IInv
<1> QED
    BY <1>1, <1>2, <1>3, <1>4, <1>5, <1>6, <1>7 DEF IInv, Recorded, OneOwed, LabLooksClean, PassIsEarned

\* What is dirty shows, but for a device that was only disabled.
LEMMA CheckStep == IInv /\ CheckNoDirtyState => IInv'
<1> SUFFICES ASSUME IInv, CheckNoDirtyState PROVE IInv'
    OBVIOUS
<1> USE DEF CheckNoDirtyState
<1>1. TypesFit /\ UNCHANGED <<lab, ledger, entry, raising, rc, before>> /\ pc = "check" /\ pc' = "reconcile"
    BY DEF IInv
<1>2. PICK missed \in SUBSET {read \in Reads : Shows(read) # {}}, dirty \in [Targets -> BOOLEAN] :
          /\ \A t \in Targets : dirty[t] \in Dirty(t, missed)
          /\ failed' = (failed \/ \E t \in Targets : dirty[t])
          /\ unread' = missed
    OBVIOUS
<1>3. failed' \in BOOLEAN /\ (~failed' => ~failed /\ \A t \in Targets : dirty[t] = FALSE)
    BY <1>1, <1>2 DEF TypesFit
<1>4. LabLooksClean'
    <2> SUFFICES ASSUME ~failed' PROVE ReadsClean'
        BY DEF LabLooksClean
    <2>1. \A t \in Targets : FALSE \in Dirty(t, missed)
        BY <1>2, <1>3
    <2>2. Collector \in Targets => lab[Collector] = Clean
        BY <2>1 DEF Dirty
    <2>3. ASSUME NEW read \in Reads \ missed PROVE Shows(read) \subseteq {"admin_down"}
        <3>1. PICK t \in Interfaces, kind \in {"tc", "ip"} : read = <<t, kind>>
            BY <2>3 DEF Reads
        <3> DEFINE shown == UNION {Shows(r) : r \in (({t} \X {"tc", "ip"}) \ missed)}
        <3>2. Shows(read) \subseteq shown
            BY <2>3, <3>1
        <3>3. t \in Targets /\ t # Collector
            BY DEF Interfaces
        <3>4. shown = {"admin_down"} \/ shown = {}
            BY <2>1, <3>3 DEF Dirty
        <3> QED
            BY <3>2, <3>4
    <2> QED
        BY <1>1, <1>2, <2>2, <2>3 DEF ReadsClean, Reads, Interfaces, Targets, Entries, Shows
<1>5. OneOwed' /\ Undoable'
    BY <1>1 DEF IInv, OneOwed, Outstanding, Entries, Undoable, Targets
<1>6. OnsetsSeen'
    BY <1>1, <1>3 DEF IInv, OnsetsSeen, Seen, Entries
<1>7. rc' = "none"
    BY <1>1 DEF IInv
<1> QED
    BY <1>1, <1>3, <1>4, <1>5, <1>6, <1>7 DEF IInv, TypesFit, Locations, Recorded, PassIsEarned

LEMMA VerdictStep == IInv /\ CheckReconciler => IInv'
<1> SUFFICES ASSUME IInv, CheckReconciler PROVE IInv'
    OBVIOUS
<1> USE DEF CheckReconciler
<1>1. TypesFit /\ UNCHANGED <<lab, ledger, entry, raising, before, unread>> /\ pc = "reconcile" /\ pc' = "off"
    BY DEF IInv
<1>2. OneOwed' /\ Undoable'
    BY <1>1 DEF IInv, OneOwed, Outstanding, Entries, Undoable, Targets
<1>3. PassIsEarned'
    <2> SUFFICES ASSUME rc' = "pass" PROVE PassIsEarned'
        BY DEF PassIsEarned
    <2>1. ~failed
        BY <1>1 DEF TypesFit
    <2>2. \A k \in Entries : Seen(k)
        BY <1>1, <2>1 DEF IInv, OnsetsSeen
    <2>3. ReadsClean
        BY <1>1, <2>1 DEF IInv, LabLooksClean
    <2>4. ReadsClean'
        BY <1>1, <2>3 DEF ReadsClean, Reads, Interfaces, Targets, Entries, Shows
    <2> QED
        BY <1>1, <2>2, <2>4 DEF PassIsEarned, Seen, Entries
<1>4. failed' \in BOOLEAN
    BY <1>1 DEF TypesFit
<1>5. OnsetsSeen'
    BY <1>1 DEF IInv, OnsetsSeen
<1> QED
    BY <1>1, <1>2, <1>3, <1>4, <1>5 DEF IInv, TypesFit, Locations, Recorded, LabLooksClean

LEMMA KillStep == IInv /\ Kill => IInv'
<1> SUFFICES ASSUME IInv, Kill PROVE IInv'
    OBVIOUS
<1> USE DEF Kill
<1>1. OneOwed' /\ Undoable'
    BY DEF IInv, OneOwed, Outstanding, Entries, Undoable, Targets
<1>2. OnsetsSeen'
    BY DEF IInv, OnsetsSeen
<1> QED
    BY <1>1, <1>2 DEF IInv, TypesFit, Locations, Recorded, LabLooksClean, PassIsEarned

LEMMA StutterStep == IInv /\ UNCHANGED vars => IInv'
<1> SUFFICES ASSUME IInv, UNCHANGED vars PROVE IInv'
    OBVIOUS
<1>1. UNCHANGED <<lab, ledger, pc, entry, raising, failed, rc, before, unread>>
    BY DEF vars
<1>2. OneOwed' /\ Undoable'
    BY <1>1 DEF IInv, OneOwed, Outstanding, Entries, Undoable, Targets
<1>3. OnsetsSeen'
    BY <1>1 DEF IInv, OnsetsSeen, Seen, Entries
<1>4. ReadsClean' <=> ReadsClean
    BY <1>1 DEF ReadsClean, Reads, Interfaces, Targets, Entries, Shows
<1>5. PassIsEarned'
    BY <1>1, <1>4 DEF IInv, PassIsEarned, Entries, Targets
<1> QED
    BY <1>1, <1>2, <1>3, <1>4, <1>5 DEF IInv, TypesFit, Recorded, LabLooksClean, Entries, Targets

-----------------------------------------------------------------------------
(* Theorems. *)

\* What the progress of a run says about lab and ledger, in every reachable state.
THEOREM Invariance == Spec => []IInv
<1>1. IInv /\ [Next]_vars => IInv'
    BY StartStep, PlanStep, ApplyStep, VerifyStep, ClearStep, AdvanceStep, CheckStep, VerdictStep, KillStep,
       StutterStep DEF Next, Step
<1> QED
    BY <1>1, InitHolds, PTL DEF Spec

\* At every kill point the ledger undoes what this run put on the lab, and at most one cleanup is
\* owed (ledger.py:3-4, fault_smoke.py:68-93).
THEOREM LedgerIsAhead == Spec => []WriteAhead
<1>1. IInv => WriteAhead
    <2> SUFFICES ASSUME IInv PROVE WriteAhead
        OBVIOUS
    <2>1. IsFiniteSet({entry}) /\ Cardinality({entry}) = 1
        BY FS_Singleton
    <2>2. Cardinality(Outstanding) <= 1
        BY <2>1, FS_Subset DEF IInv, OneOwed
    <2> QED
        BY <2>2 DEF IInv, Undoable, WriteAhead
<1> QED
    BY <1>1, Invariance, PTL

\* A campaign that exits with 0 has seen every onset and left nothing that its checks would show
\* (fault_smoke.py:83-89, 97-166).
THEOREM EarnedPass == Spec => []PassIsEarned
<1>1. IInv => PassIsEarned
    BY DEF IInv
<1> QED
    BY <1>1, Invariance, PTL

\* What is kept of the runs themselves.
RunsFit ==
    /\ before \in [Targets -> SUBSET Conditions]
    /\ rc \in {"none", "pass", "fail", "error", "killed"}
    /\ runs \in 0 .. MaxRuns
    /\ unread \subseteq Reads

\* Type correctness of the campaign, whose runs stay within their bound.
THEOREM TypeCorrect == Spec => []TypeOK
<1>1. Init => RunsFit
    BY FaultSmokeAssumption DEF Init, RunsFit, Clean
<1>2. ASSUME TypesFit, RunsFit, [Next]_vars PROVE RunsFit'
    <2> USE <1>2 DEF RunsFit, Targets, Entries, Reads, Interfaces
    <2>1. CASE Start
        <3>1. runs' \in 0 .. MaxRuns
            BY <2>1, FaultSmokeAssumption DEF Start
        <3>2. before' \in [Targets -> SUBSET Conditions] /\ rc' = "none" /\ unread' = {}
            BY <2>1 DEF Start, TypesFit
        <3> QED
            BY <3>1, <3>2
    <2>2. CASE Clear \/ Advance
        BY <2>2 DEF Clear, Advance
    <2>3. CASE CheckReconciler \/ Kill
        BY <2>3 DEF CheckReconciler, Kill
    <2>4. CASE Plan \/ Inject \/ Apply \/ Verify \/ Clearing \/ UNCHANGED vars
        BY <2>4 DEF Plan, Inject, Apply, Verify, Clearing, vars
    <2>5. CASE CheckNoDirtyState
        BY <2>5 DEF CheckNoDirtyState
    <2> QED
        BY <2>1, <2>2, <2>3, <2>4, <2>5 DEF Next, Step
<1>3. IInv => TypesFit
    BY DEF IInv
<1>4. TypesFit /\ RunsFit => TypeOK
    BY DEF TypesFit, RunsFit, TypeOK
<1> QED
    BY <1>1, <1>2, <1>3, <1>4, Invariance, PTL DEF Spec
=============================================================================
