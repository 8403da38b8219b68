---------------------------- MODULE CorpusProofs ----------------------------
(***************************************************************************)
(* The corpus, from its collection to its release.  For any fault classes, *)
(* leaves and uplinks, any number of setbacks and runs, and any fault left *)
(* in the lab before: every settled incident is labelled with the fault    *)
(* that its link carried and nothing else - where the listing of qdiscs    *)
(* was not read, nothing but a qdisc -, no more of them are collected than *)
(* were asked for, a verdict does not become stale, and a manifest binds   *)
(* the windows of its incidents and splits neither the incidents of a link *)
(* nor those of a seed.                                                    *)
(***************************************************************************)
EXTENDS CorpusRelease, FiniteSetTheorems, SequenceTheorems, WellFoundedInduction, TLAPS

RunClasses == FaultClasses \ {"telemetry_gap"}
Row == [cell : Cells, link : Links, status : Statuses, label : Windows, empty : Int,
        blind : BOOLEAN]

TypesFit ==
    /\ lab \in Windows /\ window \in Windows
    /\ rows \in Seq(Row)
    /\ pc \in Locations
    /\ idx \in Nat
    /\ onset \in BOOLEAN /\ lab_clean \in BOOLEAN /\ blind \in BOOLEAN
    /\ empty \in Int

UnderWay == pc \notin {"off", "pick"} => rows # <<>>

\* tc adds no root qdisc where there is one.
OneQdisc(on) == ~(Qdiscs \subseteq on)
QdiscsStaySingle == \A k \in Links : OneQdisc(lab[k])

\* The onset was read of what the window then shows.
OnsetInWindow ==
    /\ pc = "capture" /\ onset = TRUE => Onset(Class, lab[Link])
    /\ pc \in {"clear", "check", "commit"} =>
           OneQdisc(window[Link]) /\ (onset = TRUE => Onset(Class, window[Link]))

\* A link that was judged clean showed no more than what the payload undoes and, if its listing of
\* qdiscs was not read, a qdisc.
JudgedClean(fc, on) ==
    IF blind = TRUE THEN \E left \in Cleared(fc, on) : ~OperDown(left) ELSE Clean \in Cleared(fc, on)

\* What is left after the fault was cleared is what its payload does not undo.
WindowUndone ==
    /\ pc = "clear" => lab = window
    /\ pc = "check" => lab[Link] \in Cleared(Class, window[Link])
    /\ pc = "commit" /\ lab_clean = TRUE => JudgedClean(Class, window[Link])

IInv == TypesFit /\ UnderWay /\ QdiscsStaySingle /\ OnsetInWindow /\ WindowUndone /\ LabelsAreTrue

-----------------------------------------------------------------------------
(* The fault plugins. *)

LEMMA OnsetIsBoolean ==
    ASSUME NEW fc \in RunClasses, NEW on
    PROVE  Onset(fc, on) \in BOOLEAN
<1>1. fc \in {"admin_shutdown", "carrier_loss", "intermittent_link", "rate_limited_uplink",
              "impaired_link", "healthy_control"}
    BY DEF RunClasses, FaultClasses
<1>2. CASE fc \in {"admin_shutdown", "carrier_loss"}
    <2>1. Onset(fc, on) = OperDown(on)
        BY <1>2 DEF Onset
    <2>2. QED
        BY <2>1 DEF OperDown
<1>3. CASE fc \in {"rate_limited_uplink", "impaired_link"}
    <2>1. Onset(fc, on) = (Condition(fc) \subseteq on)
        BY <1>3 DEF Onset
    <2>2. QED
        BY <2>1
<1>4. CASE fc \in {"intermittent_link", "healthy_control"}
    BY <1>4 DEF Onset
<1>5. QED
    BY <1>1, <1>2, <1>3, <1>4

LEMMA ConditionOfClass ==
    ASSUME NEW fc \in RunClasses
    PROVE  \/ fc = "admin_shutdown" /\ Condition(fc) = {"admin_down"}
           \/ fc \in {"carrier_loss", "intermittent_link"} /\ Condition(fc) = {"carrier_down"}
           \/ fc = "rate_limited_uplink" /\ Condition(fc) = {"tbf"}
           \/ fc = "impaired_link" /\ Condition(fc) = {"netem"}
           \/ fc = "healthy_control" /\ Condition(fc) = {}
BY DEF RunClasses, FaultClasses, Condition

\* What an apply or a clear leaves is a set of conditions with at most one qdisc.
LEMMA AppliedFits ==
    ASSUME NEW fc \in RunClasses, NEW on \in SUBSET LinkConditions, OneQdisc(on),
           NEW new \in Applied(fc, on)
    PROVE  new \in SUBSET LinkConditions /\ OneQdisc(new)
<1>1. Condition(fc) \in SUBSET LinkConditions
    BY ConditionOfClass DEF LinkConditions, Conditions, Qdiscs
<1>2. \/ new = on
      \/ ~(Condition(fc) \subseteq Qdiscs /\ on \cap Qdiscs # {}) /\ new = on \cup Condition(fc)
      \/ new = on \ Condition(fc)
    BY DEF Applied
<1>3. CASE ~(Condition(fc) \subseteq Qdiscs /\ on \cap Qdiscs # {}) /\ new = on \cup Condition(fc)
    <2>1. ~(Qdiscs \subseteq Condition(fc))
        BY ConditionOfClass DEF Qdiscs
    <2>2. CASE on \cap Qdiscs = {}
        BY <1>1, <1>3, <2>1, <2>2 DEF OneQdisc
    <2>3. CASE ~(Condition(fc) \subseteq Qdiscs)
        <3>1. Condition(fc) \cap Qdiscs = {}
            BY <2>3, ConditionOfClass DEF Qdiscs
        <3>2. QED
            BY <1>1, <1>3, <3>1 DEF OneQdisc
    <2>4. QED
        BY <1>3, <2>2, <2>3
<1>4. QED
    BY <1>1, <1>2, <1>3 DEF OneQdisc

LEMMA ClearedFits ==
    ASSUME NEW fc, NEW on \in SUBSET LinkConditions, OneQdisc(on), NEW new \in Cleared(fc, on)
    PROVE  new \in SUBSET LinkConditions /\ OneQdisc(new)
BY DEF Cleared, OneQdisc

\* What a label says of its link, `on`; a qdisc may have been missed.
Labelled(fc, on, missed) ==
    LET hidden == IF missed /\ Condition(fc) \cap Qdiscs = {} THEN Qdiscs ELSE {}
    IN IF fc = "intermittent_link" THEN (on \ hidden) \subseteq Condition(fc)
       ELSE (on \ hidden) = Condition(fc)

\* A link on which a qdisc was verified carries that one and, if it is not down, nothing else.
LEMMA QdiscSeen ==
    ASSUME NEW fc \in {"rate_limited_uplink", "impaired_link"}, NEW on \in SUBSET LinkConditions,
           OneQdisc(on), Onset(fc, on), NEW left \in Cleared(fc, on), ~OperDown(left)
    PROVE  on = Condition(fc)
<1>1. \/ fc = "rate_limited_uplink" /\ Condition(fc) = {"tbf"}
      \/ fc = "impaired_link" /\ Condition(fc) = {"netem"}
    BY DEF Condition
<1>2. Condition(fc) \subseteq on /\ Undoes(fc) = Qdiscs
    BY <1>1 DEF Onset, Undoes, Qdiscs
<1>3. on \cap {"admin_down", "carrier_down"} = {}
    BY <1>2 DEF Cleared, OperDown, Qdiscs
<1> QED
    BY <1>1, <1>2, <1>3 DEF OneQdisc, Qdiscs, LinkConditions, Conditions

\* A link whose onset was seen and which was judged clean after the clear carried the fault and
\* no more, but for a qdisc that was not read.
LEMMA SeenAndUndone ==
    ASSUME NEW fc \in RunClasses, NEW on \in SUBSET LinkConditions, OneQdisc(on),
           Onset(fc, on), blind \in BOOLEAN, JudgedClean(fc, on)
    PROVE  Labelled(fc, on, blind)
<1>1. PICK left \in Cleared(fc, on) : ~OperDown(left) /\ (blind = FALSE => left = Clean)
    BY DEF JudgedClean, Clean, OperDown
<1>2. CASE fc \in {"rate_limited_uplink", "impaired_link"}
    <2>1. on = Condition(fc)
        BY <1>1, <1>2, QdiscSeen
    <2>2. Condition(fc) \cap Qdiscs # {} /\ fc # "intermittent_link"
        BY <1>2 DEF Condition, Qdiscs
    <2> QED
        BY <2>1, <2>2 DEF Labelled
<1> DEFINE hidden == IF blind = TRUE THEN Qdiscs ELSE {}
<1>3. ASSUME fc \notin {"rate_limited_uplink", "impaired_link"}
      PROVE  /\ Condition(fc) \cap Qdiscs = {} /\ Undoes(fc) = Condition(fc)
             /\ (on \ hidden) \subseteq Condition(fc)
    <2>1. Condition(fc) \cap Qdiscs = {} /\ Undoes(fc) = Condition(fc)
        BY <1>3, ConditionOfClass DEF Qdiscs, Undoes
    <2>2. CASE blind = TRUE
        <3>1. on \ Condition(fc) \subseteq left
            BY <1>1, <2>1 DEF Cleared
        <3>2. left \cap {"admin_down", "carrier_down"} = {}
            BY <1>1 DEF OperDown
        <3> QED
            BY <2>1, <2>2, <3>1, <3>2 DEF LinkConditions, Conditions, Qdiscs
    <2>3. CASE blind = FALSE
        BY <1>1, <2>1, <2>3 DEF Cleared, Clean
    <2> QED
        BY <2>1, <2>2, <2>3
<1>4. CASE fc \in {"admin_shutdown", "carrier_loss"}
    <2>1. on \cap {"admin_down", "carrier_down"} # {}
        BY <1>4 DEF Onset, OperDown
    <2>2. (on \ hidden) # {}
        BY <2>1 DEF Qdiscs
    <2>3. \E c : Condition(fc) = {c}
        BY <1>4 DEF Condition
    <2>4. (on \ hidden) = Condition(fc)
        BY <1>3, <1>4, <2>2, <2>3
    <2> QED
        BY <1>3, <1>4, <2>4 DEF Labelled
<1>5. CASE fc = "intermittent_link"
    BY <1>3, <1>5 DEF Labelled
<1>6. CASE fc = "healthy_control"
    <2>1. Condition(fc) = {}
        BY <1>6 DEF Condition
    <2> QED
        BY <1>3, <1>6, <2>1 DEF Labelled
<1>7. QED
    BY <1>2, <1>4, <1>5, <1>6 DEF RunClasses, FaultClasses

\* The property, row by row.
LEMMA LabelOfRow ==
    LabelsAreTrue = \A n \in DOMAIN rows : IsSettled(n) =>
        Labelled(Classes[rows[n].cell[1]], rows[n].label[rows[n].link], rows[n].blind)
BY DEF LabelsAreTrue, Labelled

-----------------------------------------------------------------------------
(* The steps. *)

LEMMA SmallestNat ==
    ASSUME NEW T \in SUBSET Nat, T # {}
    PROVE  \E x \in T : \A y \in T : x <= y
<1> DEFINE less == {pair \in Nat \X Nat : pair[1] < pair[2]}
<1>1. PICK x \in T : \A y \in T : ~(<<y, x>> \in less)
    <2>1. IsWellFoundedOn(less, Nat)
        BY NatLessThanWellFounded DEF OpToRel
    <2> HIDE DEF less
    <2>2. QED
        BY <2>1, WFMin
<1>2. ASSUME NEW y \in T PROVE x <= y
    <2>1. ~(y < x)
        BY <1>1
    <2>2. QED
        BY <2>1
<1>3. QED
    BY <1>2

LEMMA ConstantsFit ==
    /\ Classes \in Seq(RunClasses) /\ DOMAIN Classes = 1 .. Len(Classes)
    /\ DOMAIN Leaves = 1 .. Len(Leaves)
    /\ Uplinks \in Nat \ {0} /\ Len(Leaves) \in Nat /\ Len(Classes) \in Nat
BY CorpusRunAssumption DEF RunClasses

LEMMA FirstOfBelongs ==
    ASSUME NEW C \in SUBSET Cells, C # {}
    PROVE  FirstOf(C) \in C
<1>1. \A c \in C : c \in (1 .. Len(Classes)) \X (1 .. Len(Leaves))
    BY ConstantsFit DEF Cells
<1>2. PICK a \in {c[1] : c \in C} : \A b \in {c[1] : c \in C} : a <= b
    <2>1. {c[1] : c \in C} \in SUBSET Nat
        BY <1>1, ConstantsFit
    <2>2. {c[1] : c \in C} # {}
        OBVIOUS
    <2>3. QED
        BY <2>1, <2>2, SmallestNat
<1>3. PICK e \in {c[2] : c \in {d \in C : d[1] = a}} :
         \A b \in {c[2] : c \in {d \in C : d[1] = a}} : e <= b
    <2>1. {c[2] : c \in {d \in C : d[1] = a}} \in SUBSET Nat
        BY <1>1, ConstantsFit
    <2>2. {c[2] : c \in {d \in C : d[1] = a}} # {}
        BY <1>2
    <2>3. QED
        BY <2>1, <2>2, SmallestNat
<1>4. PICK c \in C : c[1] = a /\ c[2] = e
    BY <1>3
<1>5. ASSUME NEW d \in C PROVE c[1] < d[1] \/ (c[1] = d[1] /\ c[2] <= d[2])
    <2>1. c[1] \in Nat /\ d[1] \in Nat /\ c[1] <= d[1]
        BY <1>1, <1>2, <1>4, ConstantsFit
    <2>2. d[1] = a => c[2] <= d[2]
        BY <1>3, <1>4
    <2>3. QED
        BY <1>4, <2>1, <2>2
<1>6. QED
    BY <1>5 DEF FirstOf

\* The row of the current incident.
LEMMA CurrentFits ==
    ASSUME TypesFit, rows # <<>>
    PROVE  /\ Current \in 1 .. Len(rows) /\ rows[Current] \in Row
           /\ Class \in RunClasses /\ Link \in Links
<1>1. /\ Len(rows) \in Nat /\ Len(rows) > 0
    BY DEF TypesFit
<1>2. Current \in 1 .. Len(rows)
    BY <1>1 DEF Current
<1>3. rows[Current] \in Row
    BY <1>2 DEF TypesFit
<1>4. rows[Current].cell \in Cells /\ Link \in Links
    BY <1>3 DEF Row, Link
<1>5. Class \in RunClasses
    BY <1>4, ConstantsFit DEF Class, Cells
<1>6. QED
    BY <1>2, <1>3, <1>4, <1>5

LEMMA InitHolds == Init => IInv
<1> SUFFICES ASSUME Init PROVE IInv
    OBVIOUS
<1>1. /\ rows = <<>> /\ pc = "off" /\ idx = 0 /\ onset = FALSE /\ window = Unlabelled
      /\ empty = 0 /\ lab_clean = FALSE /\ blind = FALSE
    BY DEF Init
<1>2. PICK l \in Links, fc \in Leftovers :
         lab = [[k \in Links |-> Clean] EXCEPT ![l] = Condition(fc)]
    BY DEF Init
<1>3. Condition(fc) \in SUBSET LinkConditions /\ OneQdisc(Condition(fc))
    BY CorpusRunAssumption, ConditionOfClass DEF RunClasses, LinkConditions, Conditions, Qdiscs, OneQdisc
<1>4. lab \in Windows /\ QdiscsStaySingle
    BY <1>2, <1>3 DEF Windows, QdiscsStaySingle, OneQdisc, Clean, Qdiscs
<1>5. window \in Windows
    BY <1>1 DEF Unlabelled, Windows
<1>6. TypesFit
    <2>1. rows \in Seq(Row) /\ idx \in Nat /\ empty \in Int
        BY <1>1
    <2>2. pc \in Locations /\ onset \in BOOLEAN /\ lab_clean \in BOOLEAN /\ blind \in BOOLEAN
        BY <1>1 DEF Locations
    <2>3. QED
        BY <1>4, <1>5, <2>1, <2>2, Zenon DEF TypesFit
<1>7. UnderWay /\ OnsetInWindow /\ WindowUndone
    BY <1>1 DEF UnderWay, OnsetInWindow, WindowUndone
<1>8. LabelsAreTrue
    BY <1>1 DEF LabelsAreTrue
<1>9. QED
    BY <1>4, <1>6, <1>7, <1>8 DEF IInv

\* An action that leaves the lab, the rows and the incident alone, and goes to a place of which
\* nothing is claimed.
LEMMA QuietStep ==
    ASSUME IInv, UNCHANGED <<lab, rows, onset, window, empty, lab_clean, blind>>,
           idx' \in Nat, pc' \in Locations,
           pc' \in {"off", "pick"} \/ (pc' = "unlink" /\ rows # <<>>)
    PROVE  IInv'
<1>1. TypesFit'
    BY Zenon DEF IInv, TypesFit
<1>2. /\ UnderWay' /\ QdiscsStaySingle' /\ OnsetInWindow' /\ WindowUndone'
    BY DEF IInv, UnderWay, QdiscsStaySingle, OnsetInWindow, WindowUndone
<1>3. LabelsAreTrue'
    BY DEF IInv, LabelsAreTrue, IsSettled
<1>4. QED
    BY <1>1, <1>2, <1>3 DEF IInv

LEMMA StartStep == IInv /\ Start => IInv'
<1> SUFFICES ASSUME IInv, Start PROVE IInv'
    OBVIOUS
<1>1. /\ UNCHANGED <<lab, rows, onset, window, empty, lab_clean, blind>>
      /\ pc' = "pick"
    BY DEF Start, incident
<1>2. idx' \in Nat
    <2>1. rows \in Seq(Row)
        BY DEF IInv, TypesFit
    <2>2. {n \in DOMAIN rows : rows[n].status = "settled"} \in SUBSET (1 .. Len(rows))
        BY <2>1
    <2>3. IsFiniteSet(1 .. Len(rows))
        BY <2>1, FS_Interval
    <2>4. QED
        BY <2>2, <2>3, FS_Subset, FS_CardinalityType DEF Start
<1>3. QED
    BY <1>1, <1>2, QuietStep DEF Locations

LEMMA EndStep == IInv /\ (Finish \/ Die \/ Unlink) => IInv'
<1>1. ASSUME IInv, Finish \/ Die PROVE IInv'
    <2>1. /\ UNCHANGED <<lab, rows, onset, window, empty, lab_clean, blind, idx>>
          /\ pc' = "off"
        BY <1>1 DEF Finish, Die, incident, progress
    <2>2. idx' \in Nat
        BY <1>1, <2>1 DEF IInv, TypesFit
    <2>3. QED
        BY <1>1, <2>1, <2>2, QuietStep DEF Locations
<1>2. ASSUME IInv, Unlink PROVE IInv'
    <2>1. /\ UNCHANGED <<lab, rows, onset, window, empty, lab_clean, blind>>
          /\ idx' = idx + 1 /\ pc' = "pick"
        BY <1>2 DEF Unlink, incident
    <2>2. idx' \in Nat
        BY <1>2, <2>1 DEF IInv, TypesFit
    <2>3. QED
        BY <1>2, <2>1, <2>2, QuietStep DEF Locations
<1>3. QED
    BY <1>1, <1>2

LEMMA PickStep == IInv /\ PickCell => IInv'
<1> SUFFICES ASSUME IInv, PickCell PROVE IInv'
    OBVIOUS
<1> DEFINE cell == FirstOf(Wanted)
           row == [cell |-> cell, link |-> <<cell[2], idx % Uplinks>>,
                   status |-> "injecting", label |-> Unlabelled, empty |-> 0,
                   blind |-> FALSE]
<1>1. /\ UNCHANGED <<lab, onset, window, empty, lab_clean, blind, idx>>
      /\ rows' = Append(rows, row) /\ pc' = "apply"
    BY DEF PickCell, incident, progress
<1>2. cell \in Cells
    BY FirstOfBelongs DEF PickCell, GoesOn, Wanted
<1>3. row \in Row
    <2>1. <<cell[2], idx % Uplinks>> \in Links
        <3>1. cell[2] \in DOMAIN Leaves
            BY <1>2 DEF Cells
        <3>2. idx % Uplinks \in 0 .. Uplinks - 1
            BY ConstantsFit DEF IInv, TypesFit
        <3>3. QED
            BY <3>1, <3>2 DEF Links
    <2>2. Unlabelled \in Windows
        BY DEF Unlabelled, Windows
    <2>3. "injecting" \in Statuses
        BY DEF Statuses
    <2> HIDE DEF cell
    <2>4. QED
        BY <1>2, <2>1, <2>2, <2>3 DEF Row
<1> HIDE DEF cell, row
<1>4. rows \in Seq(Row)
    BY DEF IInv, TypesFit
<1>5. /\ rows' \in Seq(Row) /\ rows' # <<>> /\ Len(rows') = Len(rows) + 1
      /\ \A n \in 1 .. Len(rows) : rows'[n] = rows[n]
      /\ rows'[Len(rows) + 1] = row
    BY <1>1, <1>3, <1>4, AppendProperties
<1>6. TypesFit'
    BY <1>1, <1>5, Zenon DEF IInv, TypesFit, Locations
<1>7. LabelsAreTrue'
    <2>1. row.status = "injecting"
        BY DEF row
    <2>2. DOMAIN rows = 1 .. Len(rows) /\ DOMAIN rows' = 1 .. (Len(rows) + 1) /\ Len(rows) \in Nat
        BY <1>4, <1>5
    <2>3. ASSUME NEW n \in DOMAIN rows', rows'[n].status = "settled"
          PROVE  n \in DOMAIN rows /\ rows'[n] = rows[n]
        BY <1>5, <2>1, <2>2, <2>3
    <2>4. QED
        BY <2>3 DEF IInv, LabelsAreTrue, IsSettled
<1>8. QED
    BY <1>1, <1>5, <1>6, <1>7 DEF IInv, UnderWay, QdiscsStaySingle, OnsetInWindow, WindowUndone

\* While an incident is under way its row stays what it is.
LEMMA KeepsRows ==
    ASSUME IInv, UNCHANGED rows
    PROVE  LabelsAreTrue' /\ Class' = Class /\ Link' = Link /\ Current' = Current
BY DEF IInv, LabelsAreTrue, IsSettled, Class, Link, Current

LEMMA ApplyStep == IInv /\ Apply => IInv'
<1> SUFFICES ASSUME IInv, Apply PROVE IInv'
    OBVIOUS
<1>1. /\ UNCHANGED <<rows, onset, window, empty, lab_clean, blind, idx>>
      /\ pc = "apply" /\ pc' = "verify"
    BY DEF Apply, incident, progress
<1>2. PICK on \in Applied(Class, lab[Link]) : lab' = [lab EXCEPT ![Link] = on]
    BY DEF Apply
<1>3. rows # <<>> /\ TypesFit
    BY <1>1 DEF IInv, UnderWay
<1>4. Class \in RunClasses /\ Link \in Links
    BY <1>3, CurrentFits
<1>5. lab[Link] \in SUBSET LinkConditions /\ OneQdisc(lab[Link])
    BY <1>3, <1>4 DEF IInv, TypesFit, Windows, QdiscsStaySingle
<1>6. on \in SUBSET LinkConditions /\ OneQdisc(on)
    BY <1>2, <1>4, <1>5, AppliedFits
<1>7. lab' \in Windows /\ QdiscsStaySingle'
    BY <1>2, <1>3, <1>4, <1>6 DEF IInv, TypesFit, Windows, QdiscsStaySingle
<1>8. TypesFit'
    BY <1>1, <1>3, <1>7, Zenon DEF TypesFit, Locations
<1>9. QED
    BY <1>1, <1>3, <1>7, <1>8, KeepsRows DEF IInv, UnderWay, OnsetInWindow, WindowUndone

LEMMA VerifyStep == IInv /\ Verify => IInv'
<1> SUFFICES ASSUME IInv, Verify PROVE IInv'
    OBVIOUS
<1>1. /\ UNCHANGED <<lab, rows, window, empty, lab_clean, blind, idx>>
      /\ pc = "verify" /\ pc' = "capture"
    BY DEF Verify, progress
<1>2. PICK seen \in Observed(Class, lab[Link]) : onset' = seen
    BY DEF Verify
<1>3. rows # <<>> /\ TypesFit
    BY <1>1 DEF IInv, UnderWay
<1>4. Class \in RunClasses
    BY <1>3, CurrentFits
<1>5. onset' \in BOOLEAN /\ (onset' = TRUE => Onset(Class, lab[Link]))
    <2>1. Onset(Class, lab[Link]) \in BOOLEAN
        BY <1>4, OnsetIsBoolean
    <2>2. QED
        BY <1>2, <2>1 DEF Observed
<1>6. TypesFit'
    BY <1>1, <1>3, <1>5, Zenon DEF TypesFit, Locations
<1>7. Class' = Class /\ Link' = Link /\ LabelsAreTrue'
    BY <1>1, KeepsRows
<1>8. QED
    BY <1>1, <1>3, <1>5, <1>6, <1>7
    DEF IInv, UnderWay, QdiscsStaySingle, OnsetInWindow, WindowUndone

LEMMA CaptureStep == IInv /\ CaptureWindow => IInv'
<1> SUFFICES ASSUME IInv, CaptureWindow PROVE IInv'
    OBVIOUS
<1>1. /\ UNCHANGED <<lab, rows, onset, lab_clean, blind, idx>>
      /\ pc = "capture" /\ pc' = "clear" /\ window' = lab /\ empty' \in Int
    BY DEF CaptureWindow, progress
<1>2. rows # <<>> /\ TypesFit
    BY <1>1 DEF IInv, UnderWay
<1>3. Link \in Links
    BY <1>2, CurrentFits
<1>4. TypesFit'
    BY <1>1, <1>2, Zenon DEF TypesFit, Locations
<1>5. Class' = Class /\ Link' = Link /\ LabelsAreTrue'
    BY <1>1, KeepsRows
<1>6. QED
    BY <1>1, <1>2, <1>3, <1>4, <1>5
    DEF IInv, UnderWay, QdiscsStaySingle, OnsetInWindow, WindowUndone

LEMMA ClearStep == IInv /\ Clear => IInv'
<1> SUFFICES ASSUME IInv, Clear PROVE IInv'
    OBVIOUS
<1>1. /\ UNCHANGED <<rows, onset, window, empty, lab_clean, blind, idx>>
      /\ pc = "clear" /\ pc' = "check"
    BY DEF Clear, incident, progress
<1>2. PICK on \in Cleared(Class, lab[Link]) : lab' = [lab EXCEPT ![Link] = on]
    BY DEF Clear
<1>3. rows # <<>> /\ TypesFit /\ lab = window
    BY <1>1 DEF IInv, UnderWay, WindowUndone
<1>4. Link \in Links
    BY <1>3, CurrentFits
<1>5. lab[Link] \in SUBSET LinkConditions /\ OneQdisc(lab[Link])
    BY <1>3, <1>4 DEF IInv, TypesFit, Windows, QdiscsStaySingle
<1>6. on \in SUBSET LinkConditions /\ OneQdisc(on)
    BY <1>2, <1>5, ClearedFits
<1>7. lab' \in Windows /\ QdiscsStaySingle' /\ lab'[Link] = on
    BY <1>2, <1>3, <1>4, <1>6 DEF IInv, TypesFit, Windows, QdiscsStaySingle
<1>8. TypesFit'
    BY <1>1, <1>3, <1>7, Zenon DEF TypesFit, Locations
<1>9. Class' = Class /\ Link' = Link /\ LabelsAreTrue'
    BY <1>1, KeepsRows
<1>10. OnsetInWindow'
    BY <1>1, <1>9 DEF IInv, OnsetInWindow
<1>11. WindowUndone'
    BY <1>1, <1>2, <1>3, <1>7, <1>9 DEF WindowUndone
<1>12. QED
    BY <1>1, <1>3, <1>7, <1>8, <1>9, <1>10, <1>11 DEF IInv, UnderWay

LEMMA CheckStep == IInv /\ CleanBetween => IInv'
<1> SUFFICES ASSUME IInv, CleanBetween PROVE IInv'
    OBVIOUS
<1>1. /\ UNCHANGED <<lab, rows, onset, window, empty, idx>>
      /\ pc = "check" /\ pc' = "commit"
    BY DEF CleanBetween, progress
<1>2. /\ lab_clean' \in BOOLEAN /\ blind' \in BOOLEAN
      /\ lab_clean' = TRUE => ~OperDown(lab[Link]) /\ (blind' = TRUE \/ lab[Link] = Clean)
    BY DEF CleanBetween, OperDown
<1>3. rows # <<>> /\ TypesFit /\ lab[Link] \in Cleared(Class, window[Link])
    BY <1>1 DEF IInv, UnderWay, WindowUndone
<1>4. TypesFit'
    BY <1>1, <1>2, <1>3, Zenon DEF TypesFit, Locations
<1>5. Class' = Class /\ Link' = Link /\ LabelsAreTrue'
    BY <1>1, KeepsRows
<1>6. OnsetInWindow'
    BY <1>1, <1>5 DEF IInv, OnsetInWindow
<1>7. WindowUndone'
    <2>1. lab_clean' = TRUE => JudgedClean(Class, window[Link])'
        BY <1>1, <1>2, <1>3, <1>5 DEF JudgedClean
    <2> QED
        BY <1>1, <2>1 DEF WindowUndone
<1>8. QED
    BY <1>1, <1>3, <1>4, <1>5, <1>6, <1>7 DEF IInv, UnderWay, QdiscsStaySingle

\* A row is settled with the window in which its fault was seen, and which was undone.
LEMMA SettleStep ==
    ASSUME IInv, pc = "commit", onset = TRUE, lab_clean = TRUE,
           rows' = [rows EXCEPT ![Current] = Collected(rows[Current])]
    PROVE  rows' \in Seq(Row) /\ rows' # <<>> /\ LabelsAreTrue'
<1> DEFINE row == Collected(rows[Current])
<1>1. rows # <<>> /\ TypesFit
    BY DEF IInv, UnderWay
<1>2. /\ Current \in 1 .. Len(rows) /\ rows[Current] \in Row
      /\ Class \in RunClasses /\ Link \in Links
    BY <1>1, CurrentFits
<1>3. rows \in Seq(Row) /\ window \in Windows /\ empty \in Int /\ blind \in BOOLEAN
    BY <1>1 DEF TypesFit
<1>4. row \in Row /\ row.cell = rows[Current].cell /\ row.link = Link /\ row.label = window /\ row.blind = blind
    BY <1>2, <1>3 DEF Row, Link, Statuses, Collected
<1> HIDE DEF row
<1>5. rows' = [rows EXCEPT ![Current] = row]
    BY DEF row
<1>6. /\ rows' \in Seq(Row) /\ Len(rows') = Len(rows)
      /\ \A n \in 1 .. Len(rows) : rows'[n] = IF n = Current THEN row ELSE rows[n]
    BY <1>2, <1>3, <1>4, <1>5, ExceptSeq
<1>7. Labelled(Class, window[Link], blind)
    <2>1. window[Link] \in SUBSET LinkConditions
        BY <1>2, <1>3 DEF Windows
    <2>2. OneQdisc(window[Link]) /\ Onset(Class, window[Link])
        BY DEF IInv, OnsetInWindow
    <2>3. JudgedClean(Class, window[Link])
        BY DEF IInv, WindowUndone
    <2>4. QED
        BY <1>2, <1>3, <2>1, <2>2, <2>3, SeenAndUndone
<1>8. LabelsAreTrue'
    <2>1. DOMAIN rows = 1 .. Len(rows) /\ DOMAIN rows' = 1 .. Len(rows)
        BY <1>3, <1>6
    <2>2. SUFFICES ASSUME NEW n \in 1 .. Len(rows), rows'[n].status = "settled"
                   PROVE  Labelled(Classes[rows'[n].cell[1]], rows'[n].label[rows'[n].link],
                                   rows'[n].blind)
        BY <2>1 DEF LabelsAreTrue, IsSettled, Labelled
    <2>3. CASE n = Current
        BY <1>4, <1>6, <1>7, <2>3 DEF Class
    <2>4. CASE n # Current
        BY <1>6, <2>1, <2>2, <2>4, LabelOfRow DEF IInv, IsSettled
    <2>5. QED
        BY <2>3, <2>4
<1>9. QED
    BY <1>1, <1>3, <1>6, <1>8

\* A quarantined row is no label.
LEMMA QuarantineStep ==
    ASSUME IInv, rows # <<>>, rows' = [rows EXCEPT ![Current].status = "quarantined"]
    PROVE  rows' \in Seq(Row) /\ rows' # <<>> /\ LabelsAreTrue'
<1> DEFINE row == [rows[Current] EXCEPT !.status = "quarantined"]
<1>1. Current \in 1 .. Len(rows) /\ rows[Current] \in Row /\ rows \in Seq(Row)
    BY CurrentFits DEF IInv, TypesFit
<1>2. rows' = [rows EXCEPT ![Current] = row]
    BY <1>1
<1>3. row \in Row /\ row.status = "quarantined"
    BY <1>1 DEF Row, Statuses
<1> HIDE DEF row
<1>4. /\ rows' \in Seq(Row) /\ Len(rows') = Len(rows)
      /\ \A n \in 1 .. Len(rows) : rows'[n] = IF n = Current THEN row ELSE rows[n]
    BY <1>1, <1>2, <1>3, ExceptSeq
<1>5. DOMAIN rows = 1 .. Len(rows) /\ DOMAIN rows' = 1 .. Len(rows)
    BY <1>1, <1>4
<1>6. ASSUME NEW n \in DOMAIN rows', rows'[n].status = "settled"
      PROVE  n \in DOMAIN rows /\ rows'[n] = rows[n]
    BY <1>3, <1>4, <1>5, <1>6
<1>7. LabelsAreTrue'
    BY <1>6 DEF IInv, LabelsAreTrue, IsSettled
<1>8. QED
    BY <1>1, <1>4, <1>7

LEMMA CommitStep == IInv /\ Commit => IInv'
<1> SUFFICES ASSUME IInv, Commit PROVE IInv'
    OBVIOUS
<1>1. /\ pc = "commit" /\ UNCHANGED <<lab, onset, window, empty, lab_clean, blind>>
    BY DEF Commit, incident
<1>2. rows # <<>> /\ TypesFit /\ onset \in BOOLEAN /\ lab_clean \in BOOLEAN /\ idx \in Nat
    BY <1>1 DEF IInv, UnderWay, TypesFit
<1>3. /\ rows' \in Seq(Row) /\ rows' # <<>> /\ LabelsAreTrue'
      /\ idx' \in Nat /\ pc' \in {"pick", "off", "unlink"}
    <2>1. CASE /\ onset /\ lab_clean /\ Insertable
               /\ rows' = [rows EXCEPT ![Current] = Collected(rows[Current])]
               /\ idx' = idx + 1 /\ pc' = "pick"
        BY <1>1, <1>2, <2>1, SettleStep
    <2>2. CASE pc' = "off" /\ UNCHANGED <<rows, progress>>
        <3>1. UNCHANGED <<rows, idx>>
            BY <2>2 DEF progress
        <3>2. QED
            BY <1>2, <2>2, <3>1, KeepsRows DEF TypesFit
    <2>3. CASE /\ rows' = [rows EXCEPT ![Current].status = "quarantined"]
               /\ pc' = "unlink" /\ UNCHANGED progress
        <3>1. idx' = idx
            BY <2>3 DEF progress
        <3>2. QED
            BY <1>2, <2>3, <3>1, QuarantineStep
    <2>4. QED
        BY <2>1, <2>2, <2>3 DEF Commit
<1>4. pc' \in Locations
    BY <1>3 DEF Locations
<1>5. TypesFit'
    BY <1>1, <1>2, <1>3, <1>4, Zenon DEF TypesFit
<1>6. /\ UnderWay' /\ QdiscsStaySingle' /\ OnsetInWindow' /\ WindowUndone'
    BY <1>1, <1>3 DEF IInv, UnderWay, QdiscsStaySingle, OnsetInWindow, WindowUndone
<1>7. QED
    BY <1>3, <1>5, <1>6 DEF IInv

LEMMA StutterStep == IInv /\ UNCHANGED vars => IInv'
BY DEF IInv, vars, TypesFit, UnderWay, QdiscsStaySingle, OnsetInWindow, WindowUndone, JudgedClean, Class, Link,
       Current, LabelsAreTrue, IsSettled

\* The strengthened invariant.
THEOREM Invariance == Spec => []IInv
<1>1. IInv /\ Next => IInv'
    BY StartStep, EndStep, PickStep, ApplyStep, VerifyStep, CaptureStep, ClearStep, CheckStep,
       CommitStep DEF Next, Step
<1>2. IInv /\ [Next]_vars => IInv'
    BY <1>1, StutterStep
<1>3. QED
    BY InitHolds, <1>2, PTL DEF Spec

\* However the runs end and whatever fails or was left behind, a settled incident's label is what
\* its link carried while its window was captured; the one thing it can hide is a qdisc beneath a
\* fault of another kind, where the listing of qdiscs was not read (corpus_run.py:100-113, 187-207).
THEOREM TrueLabels == Spec => []LabelsAreTrue
<1>1. IInv => LabelsAreTrue
    BY DEF IInv
<1>2. QED
    BY <1>1, Invariance, PTL

-----------------------------------------------------------------------------
(* How many are collected. *)

Units(count) == UNION {{c} \X (1 .. count[c]) : c \in Cells}
SettledOf(c) == {n \in DOMAIN rows : rows[n].cell = c /\ rows[n].status = "settled"}
SettledCounts == [c \in Cells |-> Settled(c)]
UnderTest == {"apply", "verify", "capture", "clear", "check", "commit"}

\* A run knows the counts, and the incident that is under way has room in its cell and in total.
Counting ==
    /\ IsFiniteSet(Units(SettledCounts))
    /\ Total(SettledCounts) = Cardinality(SettledRows)
    /\ pc # "off" => counts = SettledCounts
    /\ pc \in UnderTest =>
          /\ rows[Current].status = "injecting"
          /\ counts[rows[Current].cell] < PerCell /\ Total(counts) < Target
    /\ NotOverfilled

LEMMA BoundsFit == PerCell \in Nat /\ Target \in Nat
<1>1. IsFiniteSet(Cells) /\ Cells # {}
    <2>1. IsFiniteSet(1 .. Len(Classes)) /\ IsFiniteSet(1 .. Len(Leaves))
        BY ConstantsFit, FS_Interval
    <2>2. Cells = (1 .. Len(Classes)) \X (1 .. Len(Leaves))
        BY ConstantsFit DEF Cells
    <2>3. <<1, 1>> \in Cells
        BY <2>2, ConstantsFit, CorpusRunAssumption
    <2> QED
        BY <2>1, <2>2, <2>3, FS_Product
<1>2. Cardinality(Cells) \in Nat /\ Cardinality(Cells) # 0
    BY <1>1, FS_CardinalityType, FS_EmptySet
<1>3. Target \in Nat
    BY CorpusRunAssumption
<1> QED
    BY <1>2, <1>3 DEF PerCell

\* The settled rows, in total and of a cell, can be counted.
LEMMA SettledFinite ==
    ASSUME rows \in Seq(Row)
    PROVE  /\ IsFiniteSet(SettledRows) /\ Cardinality(SettledRows) \in Nat
           /\ \A c \in Cells : IsFiniteSet(SettledOf(c)) /\ Settled(c) \in Nat
           /\ SettledCounts \in [Cells -> Nat]
<1>1. IsFiniteSet(DOMAIN rows)
    <2>1. DOMAIN rows = 1 .. Len(rows) /\ Len(rows) \in Nat
        OBVIOUS
    <2> QED
        BY <2>1, FS_Interval
<1>2. IsFiniteSet(SettledRows) /\ Cardinality(SettledRows) \in Nat
    <2>1. SettledRows \in SUBSET DOMAIN rows
        BY DEF SettledRows
    <2> QED
        BY <1>1, <2>1, FS_Subset, FS_CardinalityType
<1>3. ASSUME NEW c \in Cells
      PROVE  IsFiniteSet(SettledOf(c)) /\ Settled(c) \in Nat
    <2>1. SettledOf(c) \in SUBSET DOMAIN rows /\ Settled(c) = Cardinality(SettledOf(c))
        BY DEF SettledOf, Settled
    <2> QED
        BY <1>1, <2>1, FS_Subset, FS_CardinalityType
<1> QED
    BY <1>2, <1>3 DEF SettledCounts

\* One more in a cell is one more in total.
LEMMA OneMoreUnit ==
    ASSUME NEW count \in [Cells -> Nat], NEW cell \in Cells, IsFiniteSet(Units(count)),
           NEW more, more = [count EXCEPT ![cell] = @ + 1]
    PROVE  IsFiniteSet(Units(more)) /\ Total(more) = Total(count) + 1
<1> DEFINE unit == <<cell, count[cell] + 1>>
<1>1. count[cell] \in Nat
    OBVIOUS
<1>2. 1 .. (count[cell] + 1) = (1 .. count[cell]) \cup {count[cell] + 1}
    BY <1>1
<1>3. \A c \in Cells : {c} \X (1 .. more[c]) =
                            IF c = cell THEN ({c} \X (1 .. count[c])) \cup {unit} ELSE {c} \X (1 .. count[c])
    <2>1. ASSUME NEW c \in Cells, c # cell PROVE more[c] = count[c]
        BY <2>1
    <2>2. more[cell] = count[cell] + 1
        OBVIOUS
    <2>3. {cell} \X (1 .. more[cell]) = ({cell} \X (1 .. count[cell])) \cup {unit}
        BY <1>2, <2>2
    <2> QED
        BY <2>1, <2>3
<1>4. Units(more) = Units(count) \cup {unit}
    BY <1>3 DEF Units
<1>5. unit \notin Units(count)
    <2>1. ~(count[cell] + 1 \in 1 .. count[cell])
        BY <1>1
    <2> QED
        BY <2>1 DEF Units
<1> HIDE DEF unit
<1> QED
    BY <1>4, <1>5, FS_AddElement DEF Total, Units

\* If what is settled stays what it is, so do the counts.
LEMMA SameSettled ==
    ASSUME SettledRows' = SettledRows, \A n \in SettledRows : rows'[n].cell = rows[n].cell
    PROVE  SettledCounts' = SettledCounts /\ (NotOverfilled => NotOverfilled')
           /\ \A c : Settled(c)' = Settled(c)
<1>1. \A c : {n \in DOMAIN rows' : rows'[n].cell = c /\ rows'[n].status = "settled"}
              = {n \in DOMAIN rows : rows[n].cell = c /\ rows[n].status = "settled"}
    BY DEF SettledRows
<1>2. \A c : Settled(c)' = Settled(c)
    BY <1>1 DEF Settled
<1>3. SettledRows = {n \in DOMAIN rows : IsSettled(n)} /\ SettledRows' = {n \in DOMAIN rows : IsSettled(n)}'
    BY DEF SettledRows, IsSettled
<1> QED
    BY <1>2, <1>3 DEF SettledCounts, NotOverfilled

\* A step that leaves the rows alone, and starts no incident.
LEMMA CountsStay ==
    ASSUME Counting, UNCHANGED rows,
           pc' = "off" \/ counts' = SettledCounts,
           pc' \in UnderTest => pc \in UnderTest /\ counts' = counts
    PROVE  Counting'
<1>1. SettledRows' = SettledRows
    BY DEF SettledRows
<1>2. SettledCounts' = SettledCounts /\ NotOverfilled'
    BY <1>1, SameSettled DEF Counting
<1>3. \A c : Units(c)' = Units(c) /\ Total(c)' = Total(c)
    BY DEF Units, Total
<1>4. IsFiniteSet(Units(SettledCounts))' /\ (Total(SettledCounts) = Cardinality(SettledRows))'
    BY <1>1, <1>2 DEF Counting, Units, Total
<1>5. (pc \in UnderTest)' => (/\ rows[Current].status = "injecting"
                              /\ counts[rows[Current].cell] < PerCell /\ Total(counts) < Target)'
    BY DEF Counting, Current, Total, PerCell
<1> QED
    BY <1>2, <1>4, <1>5 DEF Counting

LEMMA CountingPick ==
    ASSUME IInv, Counting, PickCell
    PROVE  Counting' /\ SettledRows' = SettledRows /\ \A n \in SettledRows : rows'[n] = rows[n]
<1> DEFINE cell == FirstOf(Wanted)
           row == [cell |-> cell, link |-> <<cell[2], idx % Uplinks>>,
                   status |-> "injecting", label |-> Unlabelled, empty |-> 0,
                   blind |-> FALSE]
<1>1. /\ rows \in Seq(Row) /\ rows' = Append(rows, row) /\ pc' = "apply" /\ counts' = counts
      /\ pc = "pick" /\ Total(counts) < Target /\ Wanted # {}
    BY DEF PickCell, progress, IInv, TypesFit, GoesOn
<1>2. cell \in Wanted
    BY <1>1, FirstOfBelongs DEF Wanted
<1>3. row.status = "injecting" /\ row.cell = cell
    OBVIOUS
<1> HIDE DEF cell, row
<1>4. /\ DOMAIN rows = 1 .. Len(rows) /\ DOMAIN rows' = 1 .. (Len(rows) + 1) /\ Len(rows) \in Nat
      /\ \A n \in 1 .. Len(rows) : rows'[n] = rows[n]
      /\ rows'[Len(rows) + 1] = row /\ Len(rows') = Len(rows) + 1
    BY <1>1
<1>5. SettledRows' = SettledRows
    <2>1. \A n \in DOMAIN rows' : n \in DOMAIN rows \/ n = Len(rows) + 1
        BY <1>4
    <2>2. DOMAIN rows \subseteq DOMAIN rows'
        BY <1>4
    <2> QED
        BY <1>3, <1>4, <2>1, <2>2 DEF SettledRows
<1>6. \A n \in SettledRows : rows'[n] = rows[n]
    BY <1>4 DEF SettledRows
<1>7. SettledCounts' = SettledCounts /\ NotOverfilled'
    BY <1>5, <1>6, SameSettled DEF Counting
<1>8. IsFiniteSet(Units(SettledCounts))' /\ (Total(SettledCounts) = Cardinality(SettledRows))'
    BY <1>5, <1>7 DEF Counting, Units, Total
<1>9. /\ rows'[Current'] = row /\ counts[cell] < PerCell
    BY <1>2, <1>4 DEF Current, Wanted
<1>10. (counts = SettledCounts)'
    BY <1>1, <1>7 DEF Counting
<1>11. (/\ rows[Current].status = "injecting"
        /\ counts[rows[Current].cell] < PerCell /\ Total(counts) < Target)'
    BY <1>1, <1>3, <1>9 DEF Total, PerCell
<1> QED
    BY <1>5, <1>6, <1>7, <1>8, <1>10, <1>11 DEF Counting

\* The row of the current incident changes; the others stay.
LEMMA RowChanges ==
    ASSUME IInv, pc = "commit", Counting, NEW row \in Row, rows' = [rows EXCEPT ![Current] = row]
    PROVE  /\ Current \in DOMAIN rows /\ Current \notin SettledRows
           /\ DOMAIN rows' = DOMAIN rows
           /\ \A n \in DOMAIN rows : rows'[n] = IF n = Current THEN row ELSE rows[n]
           /\ SettledRows' = IF row.status = "settled" THEN SettledRows \cup {Current} ELSE SettledRows
           /\ \A n \in SettledRows : rows'[n] = rows[n]
<1>1. rows # <<>> /\ TypesFit /\ rows \in Seq(Row)
    BY DEF IInv, UnderWay, TypesFit
<1>2. Current \in 1 .. Len(rows) /\ DOMAIN rows = 1 .. Len(rows)
    BY <1>1, CurrentFits
<1>3. rows[Current].status = "injecting"
    BY DEF Counting, UnderTest
<1>4. Current \in DOMAIN rows /\ Current \notin SettledRows
    BY <1>2, <1>3 DEF SettledRows
<1>5. DOMAIN rows' = DOMAIN rows /\ \A n \in DOMAIN rows : rows'[n] = IF n = Current THEN row ELSE rows[n]
    BY <1>2
<1>6. SettledRows' = IF row.status = "settled" THEN SettledRows \cup {Current} ELSE SettledRows
    BY <1>4, <1>5 DEF SettledRows
<1> QED
    BY <1>4, <1>5, <1>6

LEMMA CountingSettle ==
    ASSUME IInv, Counting, pc = "commit", pc' = "pick",
           rows' = [rows EXCEPT ![Current] = Collected(rows[Current])],
           counts' = [counts EXCEPT ![rows[Current].cell] = @ + 1]
    PROVE  /\ Counting' /\ Current \notin SettledRows
           /\ SettledRows' = SettledRows \cup {Current}
           /\ \A n \in SettledRows : rows'[n] = rows[n]
<1> DEFINE row == Collected(rows[Current])
           cell == rows[Current].cell
<1>1. /\ rows \in Seq(Row) /\ rows[Current] \in Row /\ cell \in Cells /\ window \in Windows /\ empty \in Int
      /\ blind \in BOOLEAN
    <2>1. TypesFit /\ rows # <<>>
        BY DEF IInv, UnderWay
    <2>2. rows[Current] \in Row
        BY <2>1, CurrentFits
    <2> QED
        BY <2>1, <2>2 DEF TypesFit, Row
<1>2. row \in Row /\ row.status = "settled" /\ row.cell = cell
    BY <1>1 DEF Collected, Row, Statuses
<1> HIDE DEF row, cell
<1>3. rows' = [rows EXCEPT ![Current] = row] /\ counts' = [counts EXCEPT ![cell] = @ + 1]
    BY DEF row, cell
<1>4. /\ Current \in DOMAIN rows /\ Current \notin SettledRows
      /\ DOMAIN rows' = DOMAIN rows
      /\ \A n \in DOMAIN rows : rows'[n] = IF n = Current THEN row ELSE rows[n]
      /\ SettledRows' = SettledRows \cup {Current}
      /\ \A n \in SettledRows : rows'[n] = rows[n]
    BY <1>2, <1>3, RowChanges
<1>5. /\ counts = SettledCounts /\ counts[cell] < PerCell /\ Total(counts) < Target
    BY DEF Counting, UnderTest, cell
<1>6. /\ IsFiniteSet(SettledRows) /\ Cardinality(SettledRows) \in Nat
      /\ \A c \in Cells : IsFiniteSet(SettledOf(c)) /\ Settled(c) \in Nat
      /\ SettledCounts \in [Cells -> Nat]
    BY <1>1, SettledFinite
<1>7. \A c \in Cells : SettledOf(c)' = IF c = cell THEN SettledOf(c) \cup {Current} ELSE SettledOf(c)
    <2>1. \A n \in SettledRows' : rows'[n].cell = IF n = Current THEN cell ELSE rows[n].cell
        BY <1>2, <1>4
    <2>2. \A c : SettledOf(c) = {n \in SettledRows : rows[n].cell = c}
        BY DEF SettledOf, SettledRows
    <2>3. \A c : SettledOf(c)' = {n \in SettledRows' : rows'[n].cell = c}
        BY DEF SettledOf, SettledRows
    <2> QED
        BY <1>4, <2>1, <2>2, <2>3
<1>8. ASSUME NEW c \in Cells
      PROVE  Settled(c)' = IF c = cell THEN Settled(c) + 1 ELSE Settled(c)
    <2>1. Settled(c) = Cardinality(SettledOf(c)) /\ Settled(c)' = Cardinality(SettledOf(c)')
        BY DEF Settled, SettledOf
    <2>2. Current \notin SettledOf(c)
        BY <1>4 DEF SettledOf, SettledRows
    <2> QED
        BY <1>6, <1>7, <2>1, <2>2, FS_AddElement
<1>9. SettledCounts' = [SettledCounts EXCEPT ![cell] = @ + 1]
    <2>1. SettledCounts' = [c \in Cells |-> Settled(c)']
        BY DEF SettledCounts, Cells
    <2>2. [SettledCounts EXCEPT ![cell] = @ + 1]
              = [c \in Cells |-> IF c = cell THEN Settled(c) + 1 ELSE Settled(c)]
        BY <1>1 DEF SettledCounts
    <2> QED
        BY <1>8, <2>1, <2>2
<1>10. Cardinality(SettledRows') = Cardinality(SettledRows) + 1
    BY <1>4, <1>6, FS_AddElement
<1>11. IsFiniteSet(Units(SettledCounts')) /\ Total(SettledCounts') = Total(SettledCounts) + 1
    BY <1>1, <1>6, <1>9, OneMoreUnit DEF Counting
<1>12. IsFiniteSet(Units(SettledCounts))' /\ (Total(SettledCounts) = Cardinality(SettledRows))'
    BY <1>10, <1>11 DEF Counting, Units, Total
<1>13. NotOverfilled'
    <2>1. \A c \in Cells : Settled(c)' <= PerCell
        BY <1>1, <1>5, <1>6, <1>8, BoundsFit DEF Counting, NotOverfilled, SettledCounts
    <2>2. Cardinality(SettledRows') <= Target
        BY <1>5, <1>6, <1>10, BoundsFit DEF Counting
    <2>3. SettledRows' = {n \in DOMAIN rows : IsSettled(n)}'
        BY DEF SettledRows, IsSettled
    <2> QED
        BY <2>1, <2>2, <2>3 DEF NotOverfilled, PerCell, Cells
<1>14. (counts = SettledCounts)'
    BY <1>3, <1>5, <1>9
<1> QED
    BY <1>4, <1>12, <1>13, <1>14 DEF Counting, UnderTest

LEMMA CountingQuarantine ==
    ASSUME IInv, Counting, pc = "commit", pc' = "unlink", counts' = counts,
           rows' = [rows EXCEPT ![Current].status = "quarantined"]
    PROVE  /\ Counting' /\ Current \notin SettledRows
           /\ SettledRows' = SettledRows
           /\ \A n \in SettledRows : rows'[n] = rows[n]
<1> DEFINE row == [rows[Current] EXCEPT !.status = "quarantined"]
<1>1. rows[Current] \in Row /\ Current \in DOMAIN rows
    BY CurrentFits DEF IInv, UnderWay, TypesFit
<1>2. row \in Row /\ row.status = "quarantined"
    BY <1>1 DEF Row, Statuses
<1>3. rows' = [rows EXCEPT ![Current] = row]
    BY <1>1
<1> HIDE DEF row
<1>4. /\ Current \notin SettledRows /\ SettledRows' = SettledRows
      /\ \A n \in SettledRows : rows'[n] = rows[n]
    BY <1>2, <1>3, RowChanges
<1>5. SettledCounts' = SettledCounts /\ NotOverfilled'
    BY <1>4, SameSettled DEF Counting
<1>6. IsFiniteSet(Units(SettledCounts))' /\ (Total(SettledCounts) = Cardinality(SettledRows))'
    BY <1>4, <1>5 DEF Counting, Units, Total
<1>7. (counts = SettledCounts)'
    BY <1>5 DEF Counting
<1> QED
    BY <1>4, <1>5, <1>6, <1>7 DEF Counting, UnderTest

\* What a commit does to the rows that were settled before.
LEMMA CommitCases ==
    ASSUME IInv, Counting, Commit
    PROVE  /\ Counting' /\ UNCHANGED <<files, empty, setbacks>>
           /\ \A n \in SettledRows : rows'[n] = rows[n]
           /\ \/ /\ pc' = "pick" /\ empty <= 1
                 /\ Current \notin SettledRows /\ SettledRows' = SettledRows \cup {Current}
              \/ pc' = "off" /\ empty >= 1 /\ UNCHANGED rows /\ SettledRows' = SettledRows
              \/ /\ pc' = "unlink" /\ Current \notin SettledRows /\ SettledRows' = SettledRows
<1>1. pc = "commit" /\ UNCHANGED <<files, empty, setbacks>> /\ empty \in Int
    BY DEF Commit, incident, IInv, TypesFit
<1>2. CASE /\ Insertable /\ rows' = [rows EXCEPT ![Current] = Collected(rows[Current])]
           /\ counts' = [counts EXCEPT ![rows[Current].cell] = @ + 1] /\ pc' = "pick"
    BY <1>1, <1>2, CountingSettle DEF Insertable
<1>3. CASE ~Insertable /\ pc' = "off" /\ UNCHANGED rows
    <2>1. SettledRows' = SettledRows
        BY <1>3 DEF SettledRows
    <2>2. empty >= 1
        BY <1>1, <1>3 DEF Insertable
    <2>3. Counting'
        BY <1>3, CountsStay DEF UnderTest
    <2> QED
        BY <1>1, <1>3, <2>1, <2>2, <2>3
<1>4. CASE rows' = [rows EXCEPT ![Current].status = "quarantined"] /\ pc' = "unlink" /\ counts' = counts
    BY <1>1, <1>4, CountingQuarantine
<1> QED
    BY <1>2, <1>3, <1>4 DEF Commit, progress

LEMMA CountingSteps == IInv /\ Counting /\ [Next]_vars => Counting'
<1> SUFFICES ASSUME IInv, Counting, [Next]_vars PROVE Counting'
    OBVIOUS
<1>1. CASE Start
    BY <1>1, CountsStay DEF Start, SettledCounts, UnderTest
<1>2. CASE Finish \/ Die
    BY <1>2, CountsStay DEF Finish, Die, progress, UnderTest
<1>3. CASE Apply
    BY <1>3, CountsStay DEF Apply, progress, UnderTest, Counting
<1>4. CASE Verify
    BY <1>4, CountsStay DEF Verify, progress, UnderTest, Counting
<1>5. CASE CaptureWindow
    BY <1>5, CountsStay DEF CaptureWindow, progress, UnderTest, Counting
<1>6. CASE Clear
    BY <1>6, CountsStay DEF Clear, progress, UnderTest, Counting
<1>7. CASE CleanBetween
    BY <1>7, CountsStay DEF CleanBetween, progress, UnderTest, Counting
<1>8. CASE Unlink
    BY <1>8, CountsStay DEF Unlink, progress, UnderTest, Counting
<1>9. CASE UNCHANGED vars
    BY <1>9, CountsStay DEF vars, UnderTest, Counting
<1> QED
    BY <1>1, <1>2, <1>3, <1>4, <1>5, <1>6, <1>7, <1>8, <1>9, CountingPick, CommitCases DEF Next, Step

LEMMA CountingInit == Init => Counting
<1> SUFFICES ASSUME Init PROVE Counting
    OBVIOUS
<1>1. rows = <<>> /\ pc = "off"
    BY DEF Init
<1>2. DOMAIN rows = {}
    BY <1>1
<1>3. SettledRows = {} /\ {n \in DOMAIN rows : IsSettled(n)} = {} /\ \A c : SettledOf(c) = {}
    BY <1>2 DEF SettledRows, SettledOf
<1>4. \A c : Settled(c) = 0
    BY <1>3, FS_EmptySet DEF Settled, SettledOf
<1>5. Units(SettledCounts) = {}
    <2>1. \A c \in Cells : SettledCounts[c] = 0
        BY <1>4 DEF SettledCounts
    <2>2. \A c \in Cells : {c} \X (1 .. SettledCounts[c]) = {}
        BY <2>1
    <2> QED
        BY <2>2 DEF Units
<1>6. PerCell >= 0 /\ Target >= 0
    BY BoundsFit
<1>7. NotOverfilled
    BY <1>3, <1>4, <1>6, FS_EmptySet DEF NotOverfilled
<1>8. Total(SettledCounts) = 0 /\ Cardinality(SettledRows) = 0 /\ IsFiniteSet(Units(SettledCounts))
    BY <1>3, <1>5, FS_EmptySet DEF Total, Units
<1> QED
    BY <1>1, <1>7, <1>8 DEF Counting, UnderTest

\* However often the runner is killed and resumed, no cell and no corpus is filled beyond what was
\* asked for, whatever the target and the cells (corpus_run.py:134-147, 266-296).
THEOREM NeverTooMany == Spec => []NotOverfilled
<1>1. IInv /\ Counting /\ [Next]_vars => Counting'
    BY CountingSteps
<1>2. Counting => NotOverfilled
    BY DEF Counting
<1> QED
    BY <1>1, <1>2, CountingInit, Invariance, PTL DEF Spec

-----------------------------------------------------------------------------
(* What a run counts. *)

\* The index runs ahead of no row, and the incident that is under way is still asked for.
Asked ==
    /\ idx <= Len(rows) /\ Len(rows) <= MaxRows
    /\ pc \in UnderTest => collected < Batch
    /\ pc \in UnderTest \cup {"unlink"} => idx < Len(rows)

Bounded ==
    /\ \A n \in DOMAIN rows : rows[n].empty \in 0 .. 1
    /\ files \subseteq DOMAIN rows
    /\ empty \in 0 .. 2
    /\ collected \in 0 .. Batch
    /\ Asked

CountsFit == counts \in [Cells -> 0 .. PerCell] /\ setbacks \in 0 .. MaxSetbacks /\ lineage \in Lineages

\* A run knows how many are settled, and those are never too many.
LEMMA CountsSteps ==
    ASSUME IInv', Counting', CountsFit, [Next]_vars
    PROVE  CountsFit'
<1>1. lineage' = lineage
    BY DEF Next, Step, Start, PickCell, Finish, Apply, Verify, CaptureWindow, Clear, CleanBetween, Commit,
           Unlink, Die, vars
<1>2. setbacks' = setbacks \/ \E n \in {0, 1} : Setback(n)
    BY DEF Next, Step, Start, PickCell, Finish, Apply, Verify, CaptureWindow, Clear, CleanBetween, Commit,
           Unlink, Die, vars
<1>3. setbacks' \in 0 .. MaxSetbacks
    BY <1>2, CorpusRunAssumption DEF CountsFit, Setback
<1>4. CASE counts' = counts
    BY <1>1, <1>3, <1>4 DEF CountsFit, Cells, PerCell
<1>5. CASE pc' # "off"
    <2>1. counts' = SettledCounts' /\ NotOverfilled'
        BY <1>5 DEF Counting
    <2>2. rows' \in Seq(Row)
        BY DEF IInv, TypesFit
    <2>3. \A c \in Cells : Settled(c)' \in 0 .. PerCell
        <3>1. ASSUME NEW c \in Cells PROVE Settled(c)' \in Nat
            <4>1. IsFiniteSet(DOMAIN rows')
                <5>1. DOMAIN rows' = 1 .. Len(rows') /\ Len(rows') \in Nat
                    BY <2>2
                <5> QED
                    BY <5>1, FS_Interval
            <4>2. SettledOf(c)' \in SUBSET DOMAIN rows'
                BY DEF SettledOf
            <4> QED
                BY <4>1, <4>2, FS_Subset, FS_CardinalityType DEF Settled, SettledOf
        <3> QED
            BY <2>1, <3>1, BoundsFit DEF NotOverfilled
    <2>4. counts' \in [Cells -> 0 .. PerCell]
        BY <2>1, <2>3 DEF SettledCounts
    <2> QED
        BY <1>1, <1>3, <2>4 DEF CountsFit
<1> QED
    BY <1>4, <1>5 DEF Next, Step, Start, PickCell, Finish, Apply, Verify, CaptureWindow, Clear, CleanBetween,
           Commit, Unlink, Die, vars, progress

\* A step that leaves the rows alone, and the windows up to that of the incident under way.
LEMMA BoundedStays ==
    ASSUME IInv, Bounded, rows' = rows, files' \subseteq files \cup {Current},
           rows # <<>> \/ files' \subseteq files, empty' \in 0 .. 2,
           \/ /\ idx' = idx /\ collected' = collected
              /\ pc' \in UnderTest => pc \in UnderTest
              /\ pc' = "unlink" => pc = "unlink"
           \/ idx' \in Nat /\ idx' <= Len(rows) /\ collected' \in 0 .. Batch /\ pc' \notin UnderTest \cup {"unlink"}
    PROVE  Bounded'
<1>1. rows # <<>> => Current \in DOMAIN rows
    BY CurrentFits DEF IInv, TypesFit
<1>2. (\A n \in DOMAIN rows : rows[n].empty \in 0 .. 1)' /\ files' \subseteq DOMAIN rows'
    BY <1>1 DEF Bounded
<1>3. collected' \in 0 .. Batch /\ Asked'
    BY DEF Bounded, Asked
<1> QED
    BY <1>2, <1>3 DEF Bounded

LEMMA BoundedPick == ASSUME IInv, Bounded, PickCell PROVE Bounded'
<1>1. PICK row : rows' = Append(rows, row) /\ row.empty = 0
    BY DEF PickCell
<1>2. /\ UNCHANGED <<files, empty, idx, collected>> /\ pc' = "apply"
      /\ collected < Batch /\ Len(rows) < MaxRows
    BY DEF PickCell, GoesOn, incident, progress
<1>3. rows \in Seq(Row) /\ idx \in Nat
    BY DEF IInv, TypesFit
<1>4. /\ DOMAIN rows = 1 .. Len(rows) /\ DOMAIN rows' = 1 .. (Len(rows) + 1) /\ Len(rows) \in Nat
      /\ \A n \in 1 .. Len(rows) : rows'[n] = rows[n]
      /\ rows'[Len(rows) + 1] = row /\ Len(rows') = Len(rows) + 1
    BY <1>1, <1>3
<1>5. \A n \in DOMAIN rows' : rows'[n].empty \in 0 .. 1
    BY <1>1, <1>4 DEF Bounded
<1>6. files' \subseteq DOMAIN rows'
    BY <1>2, <1>4 DEF Bounded
<1>7. Asked'
    BY <1>2, <1>3, <1>4, CorpusRunAssumption DEF Bounded, Asked
<1> QED
    BY <1>2, <1>5, <1>6, <1>7 DEF Bounded

LEMMA BoundedCommit == ASSUME IInv, Counting, Bounded, Commit PROVE Bounded'
<1>1. pc = "commit" /\ UNCHANGED <<files, empty>> /\ empty \in 0 .. 2
    BY DEF Commit, incident, Bounded
<1>2. /\ rows # <<>> /\ rows \in Seq(Row) /\ idx \in Nat /\ Len(rows) \in Nat
      /\ idx < Len(rows) /\ collected \in 0 .. Batch /\ collected < Batch /\ Len(rows) <= MaxRows
    BY <1>1 DEF IInv, UnderWay, TypesFit, Bounded, Asked, UnderTest
<1>3. Current \in DOMAIN rows /\ rows[Current] \in Row /\ rows[Current].empty \in 0 .. 1
    BY <1>2, CurrentFits DEF Bounded, IInv
<1>4. ASSUME NEW row \in Row, rows' = [rows EXCEPT ![Current] = row], row.empty \in 0 .. 1
      PROVE  /\ (\A n \in DOMAIN rows : rows[n].empty \in 0 .. 1)' /\ files' \subseteq DOMAIN rows'
             /\ Len(rows') = Len(rows)
    <2>1. /\ DOMAIN rows' = DOMAIN rows
          /\ \A n \in DOMAIN rows : rows'[n] = IF n = Current THEN row ELSE rows[n]
        BY <1>1, <1>4, RowChanges
    <2>2. Len(rows') = Len(rows)
        BY <1>2, <1>4
    <2> QED
        BY <1>1, <1>4, <2>1, <2>2 DEF Bounded
<1>5. CASE /\ Insertable /\ rows' = [rows EXCEPT ![Current] = Collected(rows[Current])]
           /\ collected' = collected + 1 /\ idx' = idx + 1 /\ pc' = "pick"
    <2>1. Collected(rows[Current]) \in Row /\ Collected(rows[Current]).empty \in 0 .. 1
        <3>1. window \in Windows /\ empty \in Int /\ empty \in 0 .. 1 /\ blind \in BOOLEAN
            BY <1>1, <1>5 DEF IInv, TypesFit, Insertable
        <3>2. Collected(rows[Current]) \in Row
            BY <1>3, <3>1 DEF Row, Collected, Statuses
        <3>3. Collected(rows[Current]).empty = empty
            BY <1>3 DEF Row, Collected
        <3> QED
            BY <3>1, <3>2, <3>3
    <2>2. /\ (\A n \in DOMAIN rows : rows[n].empty \in 0 .. 1)' /\ files' \subseteq DOMAIN rows'
          /\ Len(rows') = Len(rows)
        BY <1>4, <1>5, <2>1
    <2>3. collected' \in 0 .. Batch /\ Asked'
        BY <1>2, <1>5, <2>2, CorpusRunAssumption DEF Asked, UnderTest
    <2> QED
        BY <1>1, <2>2, <2>3 DEF Bounded
<1>6. CASE pc' = "off" /\ UNCHANGED <<rows, progress>>
    BY <1>1, <1>6, BoundedStays DEF progress, UnderTest
<1>7. CASE rows' = [rows EXCEPT ![Current].status = "quarantined"] /\ pc' = "unlink" /\ UNCHANGED progress
    <2> DEFINE row == [rows[Current] EXCEPT !.status = "quarantined"]
    <2>1. row \in Row /\ row.empty \in 0 .. 1 /\ rows' = [rows EXCEPT ![Current] = row]
        BY <1>3, <1>7 DEF Row, Statuses
    <2> HIDE DEF row
    <2>2. /\ (\A n \in DOMAIN rows : rows[n].empty \in 0 .. 1)' /\ files' \subseteq DOMAIN rows'
          /\ Len(rows') = Len(rows)
        BY <1>4, <2>1
    <2>3. collected' \in 0 .. Batch /\ Asked'
        BY <1>2, <1>7, <2>2 DEF Asked, UnderTest, progress
    <2> QED
        BY <1>1, <2>2, <2>3 DEF Bounded
<1> QED
    BY <1>5, <1>6, <1>7 DEF Commit

LEMMA BoundedSteps == ASSUME IInv, IInv', Counting, Bounded, [Next]_vars PROVE Bounded'
<1>1. rows \in Seq(Row) /\ idx \in Nat /\ Len(rows) \in Nat /\ idx <= Len(rows)
    BY DEF IInv, TypesFit, Bounded, Asked
<1>2. CASE Start
    <2>1. idx' = Cardinality(SettledRows) /\ pc' = "pick" /\ collected' = 0 /\ UNCHANGED <<rows, files, empty>>
        BY <1>2 DEF Start, SettledRows, incident
    <2>2. idx' \in Nat /\ idx' <= Len(rows)
        <3> DEFINE n == Len(rows)
        <3>1. n \in Nat /\ DOMAIN rows = 1 .. n
            BY <1>1
        <3> HIDE DEF n
        <3>2. IsFiniteSet(1 .. n) /\ Cardinality(1 .. n) = IF 1 > n THEN 0 ELSE n - 1 + 1
            BY <3>1, FS_Interval
        <3>3. Cardinality(1 .. n) = n
            BY <3>1, <3>2
        <3>4. SettledRows \in SUBSET (1 .. n)
            BY <3>1 DEF SettledRows
        <3>5. Cardinality(SettledRows) \in Nat /\ Cardinality(SettledRows) <= n
            BY <3>2, <3>3, <3>4, FS_Subset, FS_CardinalityType
        <3> QED
            BY <2>1, <3>5 DEF n
    <2>3. 0 \in 0 .. Batch
        BY CorpusRunAssumption
    <2> QED
        BY <2>1, <2>2, <2>3, BoundedStays DEF Bounded, UnderTest
<1>3. CASE PickCell
    BY <1>3, BoundedPick
<1>4. CASE Finish
    BY <1>4, BoundedStays DEF Finish, Bounded, UnderTest, incident, progress
<1>5. CASE Apply \/ Verify \/ Clear \/ CleanBetween
    BY <1>5, BoundedStays DEF Apply, Verify, Clear, CleanBetween, Bounded, UnderTest, incident, progress
<1>6. CASE CaptureWindow
    <2>1. rows # <<>>
        BY <1>6 DEF IInv, UnderWay, CaptureWindow
    <2> QED
        BY <1>6, <2>1, BoundedStays DEF CaptureWindow, UnderTest, progress
<1>7. CASE Commit
    BY <1>7, BoundedCommit
<1>8. CASE Unlink
    <2>1. /\ UNCHANGED <<rows, empty, collected>> /\ files' \subseteq files /\ pc = "unlink" /\ pc' = "pick"
          /\ idx' = idx + 1
        BY <1>8 DEF Unlink, incident
    <2>2. idx' \in Nat /\ idx' <= Len(rows) /\ collected' \in 0 .. Batch
        BY <1>1, <2>1 DEF Bounded, Asked
    <2> QED
        BY <2>1, <2>2, BoundedStays DEF Bounded, UnderTest
<1>9. CASE Die
    <2>1. /\ UNCHANGED <<rows, empty, idx, collected>> /\ pc' = "off"
          /\ files' \subseteq files \cup {Current} /\ (pc = "capture" \/ files' \subseteq files)
        BY <1>9 DEF Die, incident, progress
    <2>2. pc = "capture" => rows # <<>>
        BY DEF IInv, UnderWay
    <2> QED
        BY <2>1, <2>2, BoundedStays DEF Bounded, UnderTest
<1>10. CASE UNCHANGED vars
    BY <1>10, BoundedStays DEF vars, Bounded, UnderTest, incident, progress
<1> QED
    BY <1>2, <1>3, <1>4, <1>5, <1>6, <1>7, <1>8, <1>9, <1>10 DEF Next, Step

LEMMA BoundedInit == Init => Bounded /\ CountsFit
<1> SUFFICES ASSUME Init PROVE Bounded /\ CountsFit
    OBVIOUS
<1>1. /\ rows = <<>> /\ files = {} /\ pc = "off" /\ idx = 0 /\ empty = 0 /\ collected = 0 /\ setbacks = 0
      /\ counts = [c \in Cells |-> 0] /\ lineage \in Lineages
    BY DEF Init
<1>2. Bounded
    BY <1>1, CorpusRunAssumption DEF Bounded, Asked, UnderTest
<1>3. CountsFit
    BY <1>1, BoundsFit, CorpusRunAssumption DEF CountsFit
<1> QED
    BY <1>2, <1>3

LEMMA TypesHold == IInv /\ Bounded /\ CountsFit => TypeOK
<1> SUFFICES ASSUME IInv, Bounded, CountsFit PROVE TypeOK
    OBVIOUS
<1> DEFINE Typed == [cell : Cells, link : Links, status : Statuses, label : Windows, empty : 0 .. 1,
                     blind : BOOLEAN]
<1>1. rows \in Seq(Row) /\ Len(rows) \in Nat /\ DOMAIN rows = 1 .. Len(rows)
    BY DEF IInv, TypesFit
<1>2. ASSUME NEW n \in 1 .. Len(rows) PROVE rows[n] \in Typed
    <2>1. rows[n] \in Row
        BY <1>1
    <2>2. rows[n].empty \in 0 .. 1
        BY <1>1 DEF Bounded
    <2> QED
        BY <2>1, <2>2 DEF Row
<1>3. rows \in Seq(Typed)
    <2> HIDE DEF Typed
    <2> QED
        BY <1>1, <1>2
<1>4. idx \in 0 .. MaxRows
    BY <1>1, CorpusRunAssumption DEF IInv, TypesFit, Bounded, Asked
<1> QED
    BY <1>3, <1>4, Zenon DEF IInv, TypesFit, Bounded, CountsFit, TypeOK

\* A run collects no more than its batch and its cells have room for, its index runs ahead of no row,
\* no incident is settled with two empty windows, and every file belongs to a row, for any number of
\* cells, kills and resumptions (corpus_run.py:134-147, 266-296).
THEOREM TypeCorrect == Spec => []TypeOK
<1>1. IInv /\ IInv' /\ Counting /\ Counting' /\ Bounded /\ CountsFit /\ [Next]_vars => Bounded' /\ CountsFit'
    BY BoundedSteps, CountsSteps
<1> QED
    BY <1>1, TypesHold, BoundedInit, CountingInit, CountingSteps, Invariance, PTL DEF Spec

-----------------------------------------------------------------------------
(* The release. *)

Capturing == {"clear", "check", "commit"}

\* The files that belong neither to a settled incident nor to the one under way.
Stray == (files \ SettledRows) \ (IF pc \in Capturing \cup {"unlink"} THEN {Current} ELSE {})

\* The window of the incident under way is empty, and that was a setback.
Pending == IF pc \in Capturing /\ empty >= 1 THEN 1 ELSE 0

FilesKept ==
    /\ IsFiniteSet(files) /\ SettledRows \subseteq files
    /\ pc \in Capturing => Current \in files
    /\ pc = "unlink" => Current \notin SettledRows
    /\ setbacks \in Nat
    /\ Cardinality(Stray) + Pending <= setbacks

Binds(m) ==
    /\ m.incidents \subseteq m.windows
    /\ m.incidents \cap m.exclusions = {}
    /\ IsFiniteSet(m.windows)
    /\ Cardinality(m.windows \ m.incidents) <= setbacks

PassEarned ==
    verdict = "pass" =>
        /\ \A c \in Cells : Settled(c) >= PerCell
        /\ \A n \in SettledRows : rows[n].empty = 0

ReleaseInv ==
    /\ IInv /\ Counting /\ FilesKept /\ PassEarned
    /\ draft # <<>> => Binds(draft[1])
    /\ manifest # <<>> => Binds(manifest[1])

\* Fewer stray files need no more setbacks, and one more needs one more.
LEMMA StrayBound ==
    ASSUME IsFiniteSet(files), NEW T, NEW x, T \subseteq Stray \cup {x}
    PROVE  /\ IsFiniteSet(Stray) /\ Cardinality(Stray) \in Nat /\ Cardinality(T) \in Nat
           /\ Cardinality(T) <= Cardinality(Stray) + 1
           /\ T \subseteq Stray => Cardinality(T) <= Cardinality(Stray)
<1>1. IsFiniteSet(Stray)
    <2>1. Stray \in SUBSET files
        BY DEF Stray
    <2> QED
        BY <2>1, FS_Subset
<1>2. IsFiniteSet(Stray \cup {x}) /\ Cardinality(Stray \cup {x}) <= Cardinality(Stray) + 1
    <2>1. IsFiniteSet(Stray \cup {x})
          /\ Cardinality(Stray \cup {x}) = IF x \in Stray THEN Cardinality(Stray) ELSE Cardinality(Stray) + 1
        BY <1>1, FS_AddElement
    <2>2. Cardinality(Stray) \in Nat
        BY <1>1, FS_CardinalityType
    <2> QED
        BY <2>1, <2>2
<1>3. T \in SUBSET (Stray \cup {x})
    OBVIOUS
<1>4. IsFiniteSet(T) /\ Cardinality(T) <= Cardinality(Stray \cup {x})
    BY <1>2, <1>3, FS_Subset
<1>5. T \subseteq Stray => Cardinality(T) <= Cardinality(Stray)
    BY <1>1, FS_Subset
<1>6. /\ Cardinality(Stray) \in Nat /\ Cardinality(T) \in Nat
      /\ Cardinality(Stray \cup {x}) \in Nat
    BY <1>1, <1>2, <1>4, FS_CardinalityType
<1> QED
    BY <1>1, <1>2, <1>4, <1>5, <1>6

\* The setbacks only grow.
LEMMA SetbacksGrow ==
    ASSUME IInv, FilesKept, [Next]_vars
    PROVE  setbacks' \in Nat /\ setbacks <= setbacks'
<1>1. setbacks \in Nat
    BY DEF FilesKept
<1>2. setbacks' = setbacks \/ setbacks' = setbacks + 1 \/ setbacks' = setbacks + 0
    BY DEF Next, Step, Start, PickCell, Finish, Apply, Verify, CaptureWindow, Clear, CleanBetween, Commit,
           Unlink, Die, vars, Setback
<1> QED
    BY <1>1, <1>2

\* A step that neither writes nor forgets a window.
LEMMA FilesStay ==
    ASSUME FilesKept, files' = files, SettledRows' = SettledRows, setbacks' \in Nat, setbacks <= setbacks',
           pc' # "unlink", pc # "unlink", pc \in Capturing <=> pc' \in Capturing,
           pc' \in Capturing => Current' = Current /\ empty' = empty
    PROVE  FilesKept'
<1>1. Stray' = Stray /\ Pending' = Pending
    BY DEF Stray, Pending, Capturing
<1>2. Cardinality(Stray) \in Nat /\ Pending \in Nat
    BY StrayBound DEF Pending, FilesKept
<1>3. Cardinality(Stray)' + Pending' <= setbacks'
    BY <1>1, <1>2 DEF FilesKept
<1> QED
    BY <1>3 DEF FilesKept, Capturing

\* A run that ends may leave one more file that belongs to no incident, which took a setback.
LEMMA FilesLeft ==
    ASSUME FilesKept, files' \subseteq files \cup {Current}, files \subseteq files', SettledRows' = SettledRows,
           pc' = "off", setbacks' \in Nat, setbacks + 1 <= setbacks' + Pending
    PROVE  FilesKept'
<1>1. Stray' \subseteq Stray \cup {Current} /\ Pending' = 0
    BY DEF Stray, Pending, Capturing
<1>2. /\ Cardinality(Stray) \in Nat /\ Cardinality(Stray') \in Nat /\ Pending \in Nat
      /\ Cardinality(Stray') <= Cardinality(Stray) + 1
    BY <1>1, StrayBound DEF Pending, FilesKept
<1>3. Cardinality(Stray)' + Pending' <= setbacks'
    <2>1. Cardinality(Stray) + Pending <= setbacks /\ setbacks \in Nat
        BY DEF FilesKept
    <2>2. ASSUME NEW less \in Nat, NEW more \in Nat, NEW due \in Nat, NEW had \in Nat, NEW has \in Nat,
                 more <= less + 1, less + due <= had, had + 1 <= has + due
          PROVE  more <= has
        BY <2>2
    <2>3. Cardinality(Stray') <= setbacks'
        BY <1>2, <2>1, <2>2
    <2> QED
        BY <1>1, <1>2, <2>3
<1>4. IsFiniteSet(files')
    <2>1. IsFiniteSet(files \cup {Current}) /\ files' \in SUBSET (files \cup {Current})
        BY FS_AddElement DEF FilesKept
    <2> QED
        BY <2>1, FS_Subset
<1> QED
    BY <1>3, <1>4 DEF FilesKept, Capturing

LEMMA FilesCapture ==
    ASSUME FilesKept, CaptureWindow
    PROVE  FilesKept'
<1>1. /\ pc = "capture" /\ pc' = "clear" /\ rows' = rows /\ files' = files \cup {Current} /\ empty' \in 0 .. 2
      /\ setbacks' = setbacks + IF empty' > 0 THEN 1 ELSE 0
    BY DEF CaptureWindow, Setback
<1>2. SettledRows' = SettledRows /\ Current' = Current
    BY <1>1 DEF SettledRows, Current
<1>3. Stray' \subseteq Stray /\ Pending = 0 /\ Pending' = IF empty' >= 1 THEN 1 ELSE 0
    BY <1>1, <1>2 DEF Stray, Pending, Capturing
<1>4. /\ Cardinality(Stray) \in Nat /\ Cardinality(Stray') \in Nat
      /\ Cardinality(Stray') <= Cardinality(Stray)
    BY <1>3, StrayBound DEF FilesKept
<1>5. Cardinality(Stray)' + Pending' <= setbacks' /\ setbacks' \in Nat
    BY <1>1, <1>3, <1>4 DEF FilesKept
<1>6. IsFiniteSet(files')
    BY <1>1, FS_AddElement DEF FilesKept
<1> QED
    BY <1>1, <1>2, <1>5, <1>6 DEF FilesKept, Capturing

LEMMA FilesCommit ==
    ASSUME IInv, Counting, FilesKept, Commit
    PROVE  FilesKept'
<1>1. pc = "commit" /\ UNCHANGED <<files, empty, setbacks>> /\ setbacks \in Nat /\ Current \in files
    BY DEF Commit, incident, FilesKept, Capturing
<1>2. Current' = Current
    <2>1. Len(rows') = Len(rows)
        <3>1. rows \in Seq(Row)
            BY DEF IInv, TypesFit
        <3> QED
            BY <3>1 DEF Commit
    <2> QED
        BY <2>1 DEF Current
<1>3. CASE pc' = "pick" /\ SettledRows' = SettledRows \cup {Current}
    <2>1. Stray' = Stray /\ Pending' = 0
        BY <1>1, <1>3 DEF Stray, Pending, Capturing
    <2>2. Cardinality(Stray) \in Nat /\ Pending \in Nat
        BY StrayBound DEF Pending, FilesKept
    <2> QED
        BY <1>1, <1>3, <2>1, <2>2 DEF FilesKept, Capturing
<1>4. CASE pc' = "off" /\ empty >= 1 /\ SettledRows' = SettledRows
    <2>1. Pending = 1
        BY <1>1, <1>4 DEF Pending, Capturing
    <2> QED
        BY <1>1, <1>4, <2>1, FilesLeft
<1>5. CASE pc' = "unlink" /\ Current \notin SettledRows /\ SettledRows' = SettledRows
    <2>1. Stray' = Stray /\ Pending' = 0
        BY <1>1, <1>2, <1>5 DEF Stray, Pending, Capturing
    <2>2. Cardinality(Stray) \in Nat /\ Pending \in Nat
        BY StrayBound DEF Pending, FilesKept
    <2> QED
        BY <1>1, <1>2, <1>5, <2>1, <2>2 DEF FilesKept, Capturing
<1> QED
    BY <1>3, <1>4, <1>5, CommitCases

LEMMA FilesUnlink ==
    ASSUME FilesKept, Unlink
    PROVE  FilesKept'
<1>1. pc = "unlink" /\ pc' = "pick" /\ files' = files \ {Current} /\ UNCHANGED <<rows, setbacks>>
    BY DEF Unlink
<1>2. SettledRows' = SettledRows /\ Stray' = Stray /\ Pending' = 0 /\ Pending = 0
    BY <1>1 DEF SettledRows, Stray, Pending, Capturing
<1>3. IsFiniteSet(files')
    BY <1>1, FS_RemoveElement DEF FilesKept
<1> QED
    BY <1>1, <1>2, <1>3 DEF FilesKept, Capturing

LEMMA FilesSteps ==
    ASSUME IInv, Counting, FilesKept, [Next]_vars
    PROVE  FilesKept'
<1>1. setbacks' \in Nat /\ setbacks <= setbacks' /\ setbacks \in Nat /\ Pending \in Nat
    BY SetbacksGrow DEF FilesKept, Pending
<1>2. rows' = rows => SettledRows' = SettledRows /\ Current' = Current
    BY DEF SettledRows, Current
<1>3. CASE Start \/ Finish
    BY <1>1, <1>2, <1>3, FilesStay DEF Start, Finish, Capturing
<1>4. CASE PickCell
    BY <1>1, <1>4, CountingPick, FilesStay DEF PickCell, Capturing
<1>5. CASE Apply \/ Verify \/ Clear \/ CleanBetween
    BY <1>1, <1>2, <1>5, FilesStay DEF Apply, Verify, Clear, CleanBetween, Capturing, incident
<1>6. CASE CaptureWindow
    BY <1>6, FilesCapture
<1>7. CASE Commit
    BY <1>7, FilesCommit
<1>8. CASE Unlink
    BY <1>8, FilesUnlink
<1>9. CASE Die
    <2>1. /\ files' \subseteq files \cup {Current} /\ files \subseteq files' /\ rows' = rows /\ pc' = "off"
          /\ setbacks' = setbacks + 1
        BY <1>9 DEF Die, Setback
    <2> QED
        BY <1>1, <1>2, <2>1, FilesLeft
<1>10. CASE UNCHANGED vars
    BY <1>10 DEF vars, FilesKept, Stray, Pending, SettledRows, Current
<1> QED
    BY <1>3, <1>4, <1>5, <1>6, <1>7, <1>8, <1>9, <1>10 DEF Next, Step

\* An incident is settled only in a cell that is short, and after a pass there is none.
LEMMA PassSteps ==
    ASSUME IInv, Counting, PassEarned, [Next]_vars, verdict' = verdict
    PROVE  PassEarned'
<1> SUFFICES ASSUME verdict = "pass"
             PROVE  /\ \A c \in Cells : Settled(c)' >= PerCell
                    /\ \A n \in SettledRows' : rows'[n].empty = 0
    BY DEF PassEarned, Cells, PerCell
<1>1. /\ \A c \in Cells : Settled(c) >= PerCell
      /\ \A n \in SettledRows : rows[n].empty = 0
    BY DEF PassEarned
<1>2. pc \notin UnderTest
    <2> SUFFICES ASSUME pc \in UnderTest PROVE FALSE
        OBVIOUS
    <2>1. rows[Current].cell \in Cells
        <3>1. rows # <<>> /\ TypesFit
            BY DEF IInv, UnderWay, UnderTest
        <3> QED
            BY <3>1, CurrentFits DEF Row
    <2>2. counts = SettledCounts /\ counts[rows[Current].cell] < PerCell
        BY DEF Counting, UnderTest
    <2>3. Settled(rows[Current].cell) \in Nat
        BY <2>1, SettledFinite DEF IInv, TypesFit
    <2> QED
        BY <1>1, <2>1, <2>2, <2>3, BoundsFit DEF SettledCounts
<1>3. SettledRows' = SettledRows /\ \A n \in SettledRows : rows'[n] = rows[n]
    <2>1. CASE rows' = rows
        BY <2>1 DEF SettledRows
    <2>2. CASE PickCell
        BY <2>2, CountingPick
    <2> QED
        BY <1>2, <2>1, <2>2
           DEF Next, Step, Start, Finish, Apply, Verify, CaptureWindow, Clear, CleanBetween, Commit, Unlink,
               Die, vars, UnderTest
<1> QED
    BY <1>1, <1>3, SameSettled

-----------------------------------------------------------------------------
\* What the collecting runner does, with the scripts in between.
LEMMA RunnerSteps ==
    ASSUME [ReleaseNext]_allVars
    PROVE  [Next]_vars
<1> QED
    BY DEF ReleaseNext, NextIncident, Inject, CaptureFabric, Restore, Settle, Stop, Resume, VerifyCorpus,
           PersistHeader, WriteManifest, allVars, Next, Step

LEMMA BuiltBinds ==
    ASSUME FilesKept, pc = "off"
    PROVE  Binds(BuildManifest)
<1>1. Stray = files \ SettledRows /\ Pending = 0
    BY DEF Stray, Pending, Capturing
<1>2. SettledRows \cap QuarantinedRows = {}
    BY DEF SettledRows, QuarantinedRows
<1>3. Cardinality(Stray) \in Nat
    BY StrayBound DEF FilesKept
<1>4. /\ BuildManifest.incidents = SettledRows /\ BuildManifest.exclusions = QuarantinedRows
      /\ BuildManifest.windows = files
    BY DEF BuildManifest, WindowsRollup
<1> QED
    BY <1>1, <1>2, <1>3, <1>4 DEF Binds, FilesKept

LEMMA StillBinds ==
    ASSUME NEW m, Binds(m), setbacks \in Nat, setbacks' \in Nat, setbacks <= setbacks'
    PROVE  Binds(m)'
<1>1. IsFiniteSet(m.windows \ m.incidents)
    <2>1. m.windows \ m.incidents \in SUBSET m.windows
        OBVIOUS
    <2> QED
        BY <2>1, FS_Subset DEF Binds
<1>2. Cardinality(m.windows \ m.incidents) \in Nat
    BY <1>1, FS_CardinalityType
<1> QED
    BY <1>2 DEF Binds

LEMMA ReleaseStarts == ReleaseInit => ReleaseInv
<1> SUFFICES ASSUME ReleaseInit PROVE ReleaseInv
    OBVIOUS
<1>1. IInv /\ Counting
    BY InitHolds, CountingInit DEF ReleaseInit
<1>2. /\ rows = <<>> /\ files = {} /\ pc = "off" /\ setbacks = 0
      /\ verdict = "none" /\ draft = <<>> /\ manifest = <<>>
    BY DEF ReleaseInit, Init
<1>3. SettledRows = {} /\ Stray = {} /\ Pending = 0
    BY <1>2 DEF SettledRows, Stray, Pending, Capturing
<1>4. FilesKept
    BY <1>2, <1>3, FS_EmptySet DEF FilesKept, Capturing
<1> QED
    BY <1>1, <1>2, <1>4 DEF ReleaseInv, PassEarned

LEMMA ReleaseSteps == ReleaseInv /\ [ReleaseNext]_allVars => ReleaseInv'
<1> SUFFICES ASSUME ReleaseInv, [ReleaseNext]_allVars PROVE ReleaseInv'
    OBVIOUS
<1>1. [Next]_vars
    BY RunnerSteps
<1>2. IInv'
    BY <1>1, StartStep, EndStep, PickStep, ApplyStep, VerifyStep, CaptureStep, ClearStep, CheckStep,
       CommitStep, StutterStep DEF Next, Step, ReleaseInv
<1>3. Counting' /\ FilesKept'
    BY <1>1, CountingSteps, FilesSteps DEF ReleaseInv
<1>4. PassEarned'
    <2>1. CASE verdict' = verdict
        BY <1>1, <2>1, PassSteps DEF ReleaseInv
    <2>2. CASE VerifyCorpus
        <3>1. UNCHANGED vars
            BY <2>2 DEF VerifyCorpus
        <3>2. verdict' = "pass" => StratumCountsMet /\ TelemetryWindowsVerify
            BY <2>2 DEF VerifyCorpus
        <3>3. rows' = rows
            BY <3>1 DEF vars
        <3> QED
            BY <3>2, <3>3 DEF PassEarned, StratumCountsMet, TelemetryWindowsVerify, SettledRows, Settled, Cells, PerCell
    <2> QED
        BY <2>1, <2>2 DEF ReleaseNext, NextIncident, Inject, CaptureFabric, Restore, Settle, Stop, Resume,
                          PersistHeader, WriteManifest, allVars, release
<1>5. setbacks \in Nat /\ setbacks' \in Nat /\ setbacks <= setbacks'
    BY <1>1, SetbacksGrow DEF ReleaseInv, FilesKept
<1>6. \A m : Binds(m) => Binds(m)'
    BY <1>5, StillBinds
<1>7. CASE UNCHANGED <<draft, manifest>>
    BY <1>2, <1>3, <1>4, <1>6, <1>7 DEF ReleaseInv, Binds
<1>8. CASE WriteManifest
    BY <1>2, <1>3, <1>4, <1>6, <1>8 DEF WriteManifest, ReleaseInv, Binds
<1>9. CASE PersistHeader
    <2>1. draft' = <<BuildManifest>> /\ manifest' = manifest /\ setbacks' = setbacks /\ pc = "off"
        BY <1>9 DEF PersistHeader, vars
    <2>2. Binds(BuildManifest)
        BY <2>1, BuiltBinds DEF ReleaseInv
    <2>3. draft'[1] = BuildManifest
        BY <2>1
    <2>4. Binds(draft[1])'
        BY <2>1, <2>2, <2>3 DEF Binds
    <2> QED
        BY <1>2, <1>3, <1>4, <1>6, <2>1, <2>4 DEF ReleaseInv, Binds
<1> QED
    BY <1>7, <1>8, <1>9
       DEF ReleaseNext, NextIncident, Inject, CaptureFabric, Restore, Settle, Stop, Resume, VerifyCorpus,
           allVars, release

THEOREM ReleaseInvariance == ReleaseSpec => []ReleaseInv
<1> QED
    BY ReleaseStarts, ReleaseSteps, PTL DEF ReleaseSpec

\* A verdict that the corpus passes stays right whatever the runner does afterwards, for any policy,
\* floor and cells (corpus_verify.py:115-218).
THEOREM PassesStand == ReleaseSpec => []VerdictStands
<1>1. ReleaseInv => VerdictStands
    <2> SUFFICES ASSUME ReleaseInv, verdict = "pass" PROVE VerdictStands
        BY DEF VerdictStands
    <2>1. \A c \in Cells : Settled(c) >= PerCell /\ Settled(c) <= PerCell /\ Settled(c) \in Nat
        BY SettledFinite DEF ReleaseInv, PassEarned, Counting, NotOverfilled, IInv, TypesFit
    <2>2. \A c \in Cells : Settled(c) = PerCell
        BY <2>1, BoundsFit
    <2> QED
        BY <2>2 DEF ReleaseInv, PassEarned, FilesKept, IInv, VerdictStands
<1> QED
    BY <1>1, ReleaseInvariance, PTL

\* A manifest covers the windows of its incidents, and each window more is the trace of a setback
\* (emit_manifest.py:67-78, 88-125).
THEOREM ManifestsBind == ReleaseSpec => []ManifestBindsCorpus
<1>1. ReleaseInv => ManifestBindsCorpus
    BY DEF ReleaseInv, Binds, ManifestBindsCorpus
<1> QED
    BY <1>1, ReleaseInvariance, PTL

-----------------------------------------------------------------------------
(* The split: what the two checks of the assembly let through. *)

LEMMA GreatestBelow ==
    ASSUME NEW T \in SUBSET Nat, T # {}, NEW n \in Nat, \A x \in T : x < n
    PROVE  Max(T) \in T /\ \A y \in T : y <= Max(T)
<1>1. PICK d \in {n - x : x \in T} : \A e \in {n - x : x \in T} : d <= e
    <2>0. \A x \in T : n - x \in Nat
        OBVIOUS
    <2>1. {n - x : x \in T} \in SUBSET Nat /\ {n - x : x \in T} # {}
        BY <2>0
    <2> QED
        BY <2>1, SmallestNat
<1>2. PICK x \in T : d = n - x
    OBVIOUS
<1>3. ASSUME NEW y \in T PROVE x >= y
    <2>1. n - x <= n - y
        BY <1>1, <1>2
    <2> QED
        BY <2>1
<1>4. \E z \in T : \A y \in T : z >= y
    BY <1>3
<1>5. Max(T) \in T /\ \A y \in T : Max(T) >= y
    BY <1>4 DEF Max
<1> QED
    BY <1>5

\* A check that compares each incident with the latest of its key compares all of the same key.
LEMMA TogetherAll ==
    ASSUME SettledRows \in SUBSET Nat, NEW key, KeptTogether(key)
    PROVE  \A m, n \in SettledRows : key[m] = key[n] => Assignment(m) = Assignment(n)
<1> DEFINE Strays == {n \in SettledRows : \E m \in SettledRows :
                          m < n /\ key[m] = key[n] /\ Assignment(m) # Assignment(n)}
<1>1. ASSUME Strays # {} PROVE FALSE
    <2>1. PICK n \in Strays : \A k \in Strays : n <= k
        BY <1>1, SmallestNat
    <2>2. PICK m \in SettledRows : m < n /\ key[m] = key[n] /\ Assignment(m) # Assignment(n)
        OBVIOUS
    <2>3. n \in SettledRows /\ n \in Nat /\ m \in Nat /\ m \in Earlier(key, n)
        BY <2>2 DEF Earlier
    <2> DEFINE last == Max(Earlier(key, n))
    <2>4. last \in Earlier(key, n) /\ m <= last
        <3>1. Earlier(key, n) \in SUBSET Nat /\ \A x \in Earlier(key, n) : x < n
            BY DEF Earlier
        <3> QED
            BY <2>3, <3>1, GreatestBelow
    <2>5. Assignment(last) = Assignment(n)
        BY <2>3 DEF KeptTogether
    <2> HIDE DEF last
    <2>6. last \in SettledRows /\ last \in Nat /\ last < n /\ key[last] = key[n]
        BY <2>4 DEF Earlier
    <2>7. m < last /\ key[m] = key[last] /\ Assignment(m) # Assignment(last)
        <3>1. m # last
            BY <2>2, <2>5
        <3> QED
            BY <2>2, <2>3, <2>4, <2>5, <2>6, <3>1
    <2>8. last \in Strays
        BY <2>2, <2>6, <2>7
    <2> QED
        BY <2>1, <2>3, <2>6, <2>8
<1>2. \A m, n \in SettledRows : m < n /\ key[m] = key[n] => Assignment(m) = Assignment(n)
    BY <1>1
<1> HIDE DEF Strays
<1> SUFFICES ASSUME NEW m \in SettledRows, NEW n \in SettledRows, key[m] = key[n]
             PROVE  Assignment(m) = Assignment(n)
    OBVIOUS
<1>3. m \in Nat /\ n \in Nat
    OBVIOUS
<1>4. m = n \/ m < n \/ n < m
    BY <1>3
<1> QED
    BY <1>2, <1>4

\* No two incidents of a manifest share a link or a seed across its splits.
NoLeak(m) ==
    /\ m.incidents \subseteq SettledRows
    /\ \A a, b \in m.incidents :
           rows[a].link = rows[b].link \/ seeds[a] = seeds[b] => Assignment(a) = Assignment(b)

SeedsFit == seeds \in Seq(Nat) /\ Len(seeds) = Len(rows)

SplitKept ==
    /\ SeedsFit
    /\ draft # <<>> => NoLeak(draft[1])
    /\ manifest # <<>> => NoLeak(manifest[1])

LEMMA SettledAreNat ==
    ASSUME rows \in Seq(Row)
    PROVE  SettledRows \in SUBSET Nat /\ SettledRows \in SUBSET (1 .. Len(rows)) /\ Len(rows) \in Nat
BY DEF SettledRows

LEMMA BuiltApart ==
    ASSUME rows \in Seq(Row), Assembles
    PROVE  NoLeak(BuildManifest)
<1>1. BuildManifest.incidents = SettledRows
    BY DEF BuildManifest
<1>2. ASSUME NEW a \in SettledRows, NEW b \in SettledRows, rows[a].link = rows[b].link
      PROVE  Assignment(a) = Assignment(b)
    <2>1. LinkOf[a] = LinkOf[b]
        BY <1>2 DEF LinkOf
    <2> QED
        BY <2>1, TogetherAll, SettledAreNat DEF Assembles
<1>3. ASSUME NEW a \in SettledRows, NEW b \in SettledRows, seeds[a] = seeds[b]
      PROVE  Assignment(a) = Assignment(b)
    <2>1. SeedFamily[a] = SeedFamily[b]
        BY <1>3 DEF SeedFamily
    <2> QED
        BY <2>1, TogetherAll, SettledAreNat DEF Assembles
<1> QED
    BY <1>1, <1>2, <1>3 DEF NoLeak

\* The rows that are settled stay settled and stay what they are.
LEMMA SettledForGood ==
    ASSUME IInv, Counting, [Next]_vars
    PROVE  SettledRows \subseteq SettledRows' /\ \A n \in SettledRows : rows'[n] = rows[n]
<1>1. CASE rows' = rows
    BY <1>1 DEF SettledRows
<1>2. CASE PickCell
    BY <1>2, CountingPick
<1>3. CASE Commit
    <2>1. \A n \in SettledRows : rows'[n] = rows[n]
        BY <1>3, CommitCases
    <2>2. SettledRows' = SettledRows \/ SettledRows' = SettledRows \cup {Current}
        BY <1>3, CommitCases
    <2> QED
        BY <2>1, <2>2
<1> QED
    BY <1>1, <1>2, <1>3
       DEF Next, Step, Start, Finish, Apply, Verify, CaptureWindow, Clear, CleanBetween, Unlink, Die, vars

\* The seeds of the rows stay what they are, and a new row gets one.
LEMMA SeedsStay ==
    ASSUME ReleaseInv, SeedsFit, [ReleaseNext]_allVars
    PROVE  SeedsFit' /\ \A n \in 1 .. Len(rows) : seeds'[n] = seeds[n]
<1>1. seeds \in Seq(Nat) /\ Len(seeds) = Len(rows) /\ rows \in Seq(Row) /\ idx \in Nat
    BY DEF SeedsFit, ReleaseInv, IInv, TypesFit
<1>2. CASE NextIncident
    <2>1. PICK row : rows' = Append(rows, row)
        BY <1>2 DEF NextIncident, PickCell
    <2>2. seeds' = Append(seeds, idx + 1)
        BY <1>2 DEF NextIncident
    <2>3. Len(rows') = Len(rows) + 1
        BY <1>1, <2>1
    <2>4. seeds' \in Seq(Nat) /\ Len(seeds') = Len(seeds) + 1 /\ \A n \in 1 .. Len(seeds) : seeds'[n] = seeds[n]
        BY <1>1, <2>2
    <2> QED
        BY <1>1, <2>3, <2>4 DEF SeedsFit
<1>3. CASE seeds' = seeds /\ Len(rows') = Len(rows)
    BY <1>1, <1>3 DEF SeedsFit
<1>4. CASE Settle
    <2>1. seeds' = seeds
        BY <1>4 DEF Settle
    <2>2. Len(rows') = Len(rows)
        BY <1>1, <1>4 DEF Settle, Commit, Unlink
    <2> QED
        BY <1>3, <2>1, <2>2
<1>5. CASE ~NextIncident /\ ~Settle
    <2>1. rows' = rows /\ seeds' = seeds
        BY <1>5 DEF ReleaseNext, Inject, CaptureFabric, Restore, Stop, Resume, VerifyCorpus, PersistHeader,
                    WriteManifest, allVars, vars, Start, Finish, Apply, Verify, CaptureWindow, Clear,
                    CleanBetween, Die
    <2> QED
        BY <1>3, <2>1
<1> QED
    BY <1>2, <1>4, <1>5

LEMMA StillApart ==
    ASSUME NEW m, NoLeak(m), rows \in Seq(Row), SettledRows \subseteq SettledRows',
           \A n \in SettledRows : rows'[n] = rows[n],
           \A n \in 1 .. Len(rows) : seeds'[n] = seeds[n]
    PROVE  NoLeak(m)'
<1>1. \A n \in SettledRows : rows'[n] = rows[n] /\ seeds'[n] = seeds[n]
    BY SettledAreNat
<1> QED
    BY <1>1 DEF NoLeak, Assignment

LEMMA SplitSteps == ReleaseInv /\ SplitKept /\ [ReleaseNext]_allVars => SplitKept'
<1> SUFFICES ASSUME ReleaseInv, SplitKept, [ReleaseNext]_allVars PROVE SplitKept'
    OBVIOUS
<1>1. rows \in Seq(Row)
    BY DEF ReleaseInv, IInv, TypesFit
<1>2. SeedsFit' /\ \A n \in 1 .. Len(rows) : seeds'[n] = seeds[n]
    BY SeedsStay DEF SplitKept
<1>3. SettledRows \subseteq SettledRows' /\ \A n \in SettledRows : rows'[n] = rows[n]
    BY RunnerSteps, SettledForGood DEF ReleaseInv
<1>4. \A m : NoLeak(m) => NoLeak(m)'
    BY <1>1, <1>2, <1>3, StillApart
<1>5. CASE UNCHANGED <<draft, manifest>>
    BY <1>2, <1>4, <1>5 DEF SplitKept, NoLeak
<1>6. CASE WriteManifest
    BY <1>2, <1>4, <1>6 DEF WriteManifest, SplitKept, NoLeak
<1>7. CASE PersistHeader
    <2>1. draft' = <<BuildManifest>> /\ manifest' = manifest
        BY <1>7 DEF PersistHeader
    <2>2. NoLeak(BuildManifest)
        BY <1>1, <1>7, BuiltApart DEF PersistHeader
    <2>3. draft'[1] = BuildManifest
        BY <2>1
    <2>4. NoLeak(draft[1])'
        BY <1>4, <2>2, <2>3 DEF NoLeak
    <2> QED
        BY <1>2, <1>4, <2>1, <2>4 DEF SplitKept, NoLeak
<1> QED
    BY <1>5, <1>6, <1>7
       DEF ReleaseNext, NextIncident, Inject, CaptureFabric, Restore, Settle, Stop, Resume, VerifyCorpus,
           allVars, release

LEMMA SplitStarts == ReleaseInit => SplitKept
BY DEF ReleaseInit, Init, SplitKept, SeedsFit

\* Whatever is emitted, at whatever moment of whatever run, no link and no seed is in two of its
\* splits: the two checks stop a corpus in which a resumed runner repeated a seed across leaves, and
\* what was checked cannot change afterwards (splits.py:82-116, corpus_run.py:264, 283).
THEOREM NoLeakage == ReleaseSpec => []EmittedWithoutLeakage
<1>1. SplitKept => EmittedWithoutLeakage
    BY DEF SplitKept, NoLeak, EmittedWithoutLeakage
<1> QED
    BY <1>1, SplitStarts, SplitSteps, ReleaseInvariance, PTL DEF ReleaseSpec
-----------------------------------------------------------------------------
(* What the release writes. *)

ReleaseFits ==
    /\ seeds \in Seq(1 .. MaxRows) /\ Len(seeds) = Len(rows)
    /\ verdict \in {"none", "pass", "fail"}
    /\ \A m \in {draft, manifest} : m # <<>> => m[1] \in Manifests
    /\ header # <<>> => header[1] \subseteq Groups

LEMMA BuiltFits ==
    ASSUME IInv, Bounded
    PROVE  BuildManifest \in Manifests /\ LinkGroups \subseteq Groups
<1>1. \A n \in DOMAIN rows : rows[n].cell \in Cells /\ rows[n].link \in Links
    <2>1. rows \in Seq(Row)
        BY DEF IInv, TypesFit
    <2>2. \A n \in DOMAIN rows : rows[n] \in Row
        BY <2>1
    <2> QED
        BY <2>2 DEF Row
<1>2. ASSUME NEW c \in Cells PROVE Policy[c[2]] \in {"train", "validation", "test"}
    BY CorpusReleaseAssumption DEF Cells
<1>3. LinkGroups \subseteq Groups
    <2>1. ASSUME NEW n \in SettledRows
          PROVE  Assignment(n) \in {"train", "validation", "test"} /\ rows[n].link \in Links
        BY <1>1, <1>2 DEF SettledRows, Assignment
    <2>2. ASSUME NEW n \in SettledRows PROVE <<Assignment(n), rows[n].link>> \in Groups
        BY <2>1 DEF Groups
    <2> QED
        BY <2>2 DEF LinkGroups
<1>4. files \subseteq DOMAIN rows /\ SettledRows \subseteq DOMAIN rows /\ QuarantinedRows \subseteq DOMAIN rows
    BY DEF Bounded, SettledRows, QuarantinedRows
<1> QED
    BY <1>3, <1>4 DEF BuildManifest, WindowsRollup, Manifests

\* No incident disappears, so what a manifest names stays.
LEMMA RowsRemain ==
    ASSUME IInv, [Next]_vars
    PROVE  DOMAIN rows \subseteq DOMAIN rows'
<1>1. rows \in Seq(Row)
    BY DEF IInv, TypesFit
<1>2. CASE PickCell
    <2>1. PICK row : rows' = Append(rows, row)
        BY <1>2 DEF PickCell
    <2>2. DOMAIN rows = 1 .. Len(rows) /\ DOMAIN rows' = 1 .. (Len(rows) + 1) /\ Len(rows) \in Nat
        BY <1>1, <2>1
    <2> QED
        BY <2>2
<1>3. CASE Commit
    BY <1>1, <1>3 DEF Commit
<1>4. CASE rows' = rows
    BY <1>4
<1> QED
    BY <1>2, <1>3, <1>4
       DEF Next, Step, Start, Finish, Apply, Verify, CaptureWindow, Clear, CleanBetween, Unlink, Die, vars

LEMMA SeedsCounted ==
    ASSUME ReleaseInv, Bounded, ReleaseFits, [ReleaseNext]_allVars
    PROVE  seeds' \in Seq(1 .. MaxRows) /\ Len(seeds') = Len(rows')
<1>1. /\ seeds \in Seq(1 .. MaxRows) /\ Len(seeds) = Len(rows) /\ rows \in Seq(Row)
      /\ idx \in Nat /\ Len(rows) \in Nat /\ MaxRows \in Nat
    BY CorpusRunAssumption DEF ReleaseFits, ReleaseInv, IInv, TypesFit
<1>2. SeedsFit
    BY <1>1 DEF SeedsFit
<1>3. Len(seeds') = Len(rows')
    BY <1>2, SeedsStay DEF SeedsFit
<1>4. CASE seeds' = seeds
    BY <1>1, <1>3, <1>4
<1>5. CASE NextIncident
    <2>1. seeds' = Append(seeds, idx + 1) /\ Len(rows) < MaxRows
        BY <1>5 DEF NextIncident, PickCell, GoesOn
    <2>2. idx + 1 \in 1 .. MaxRows
        BY <1>1, <2>1 DEF Bounded, Asked
    <2> QED
        BY <1>1, <1>3, <2>1, <2>2
<1> QED
    BY <1>4, <1>5
       DEF ReleaseNext, Inject, CaptureFabric, Restore, Settle, Stop, Resume, VerifyCorpus, PersistHeader,
           WriteManifest, allVars

LEMMA ReleaseFitsSteps ==
    ASSUME ReleaseInv, Bounded, ReleaseFits, [ReleaseNext]_allVars
    PROVE  ReleaseFits'
<1>1. seeds' \in Seq(1 .. MaxRows) /\ Len(seeds') = Len(rows')
    BY SeedsCounted
<1>2. \A m : m \in Manifests => m \in Manifests'
    <2>1. DOMAIN rows \subseteq DOMAIN rows'
        BY RunnerSteps, RowsRemain DEF ReleaseInv
    <2> QED
        BY <2>1 DEF Manifests, Groups
<1>3. Groups' = Groups
    BY DEF Groups, Links
<1>4. verdict' \in {"none", "pass", "fail"}
    BY DEF ReleaseFits, ReleaseNext, NextIncident, Inject, CaptureFabric, Restore, Settle, Stop, Resume,
           VerifyCorpus, PersistHeader, WriteManifest, allVars, release
<1>5. CASE UNCHANGED <<draft, manifest, header>>
    BY <1>1, <1>2, <1>3, <1>4, <1>5 DEF ReleaseFits
<1>6. CASE WriteManifest
    BY <1>1, <1>2, <1>3, <1>4, <1>6 DEF ReleaseFits, WriteManifest
<1>7. CASE PersistHeader
    <2>1. /\ draft' = <<BuildManifest>> /\ manifest' = manifest
          /\ header' = <<LinkGroups>> \/ header' = header
        BY <1>7 DEF PersistHeader
    <2>2. BuildManifest \in Manifests /\ LinkGroups \subseteq Groups
        BY BuiltFits DEF ReleaseInv
    <2>3. draft'[1] \in Manifests' /\ (header' # <<>> => header'[1] \subseteq Groups')
        BY <1>2, <1>3, <2>1, <2>2 DEF ReleaseFits
    <2> QED
        BY <1>1, <1>2, <1>4, <2>1, <2>3 DEF ReleaseFits
<1> QED
    BY <1>5, <1>6, <1>7
       DEF ReleaseNext, NextIncident, Inject, CaptureFabric, Restore, Settle, Stop, Resume, VerifyCorpus,
           allVars, release

\* A manifest names incidents that exist and leaves that are in the policy's three splits, the seeds a
\* resumed runner gives out stay within the incidents, and what a run counts keeps within its bounds
\* while the scripts are run between the runs (emit_manifest.py:67-125, corpus_run.py:264-296).
THEOREM ReleaseTypeCorrect == ReleaseSpec => []ReleaseTypeOK
<1>1. ReleaseInit => ReleaseFits /\ Bounded /\ CountsFit
    BY BoundedInit DEF ReleaseInit, Init, ReleaseFits
<1>2. /\ ReleaseInv /\ ReleaseInv' /\ Bounded /\ CountsFit /\ ReleaseFits /\ [ReleaseNext]_allVars
      => Bounded' /\ CountsFit' /\ ReleaseFits'
    BY RunnerSteps, BoundedSteps, CountsSteps, ReleaseFitsSteps DEF ReleaseInv
<1>3. ReleaseInv /\ Bounded /\ CountsFit /\ ReleaseFits => ReleaseTypeOK
    BY TypesHold DEF ReleaseInv, ReleaseFits, ReleaseTypeOK
<1> QED
    BY <1>1, <1>2, <1>3, ReleaseInvariance, PTL DEF ReleaseSpec
=============================================================================
