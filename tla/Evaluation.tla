----------------------------- MODULE Evaluation -----------------------------
(***************************************************************************)
(* The evaluation of the detectors over a corpus that may still be growing *)
(* (scripts/evaluate_sensors.py and evaluate_sensors_v3.py): the settled   *)
(* incidents are loaded, the thresholds chosen on training and validation  *)
(* incidents, and the report made of all of them.                          *)
(*                                                                         *)
(* What a configuration of the detectors makes of an incident is Sensors;  *)
(* here an incident has the set of configurations under which it is hit:   *)
(* detected within the horizon, or, for a healthy one, alarmed at all.     *)
(* Fractions are exact, where the code's floats round.  The confidence     *)
(* intervals and latencies of the report are left out.                     *)
(***************************************************************************)
EXTENDS Integers, Sequences, FiniteSets, SequencesExt, FiniteSetsExt

CONSTANTS GridSize,       \* the configurations of the grid, numbered in the order of its loops
          EvalClasses,    \* the fault classes
          EvalSplits,     \* the splits of the leaves that have incidents
          EvalLineages,   \* which script: "v2" or "v3"
          MaxIncidents    \* bound on the settled incidents

ASSUME EvaluationAssumption ==
    /\ GridSize \in Nat \ {0} /\ MaxIncidents \in Nat
    /\ "healthy_control" \notin EvalClasses
    /\ EvalSplits \subseteq {"train", "validation", "test"}

Healthy == "healthy_control"
Splits == {"train", "validation", "test"}
Grid == 1 .. GridSize

VARIABLES
    script,   \* the script
    settled,  \* the settled incidents, in the order in which the query answers them
    report    \* the last report, or <<>>

evaluation == <<script, settled, report>>

EvaluationInit == script \in EvalLineages /\ settled = <<>> /\ report = <<>>

\* The runner settles another incident; its window may have been lost, or be empty.
SettleIncident ==
    /\ Len(settled) < MaxIncidents
    /\ \E class \in EvalClasses \cup {Healthy}, split \in EvalSplits, window \in {"missing", "empty", "read"} :
          \E hits \in IF window = "read" THEN SUBSET Grid ELSE {{}} :
             settled' = Append(settled, [class |-> class, split |-> split, window |-> window, hits |-> hits])
    /\ UNCHANGED <<script, report>>

\* load_incidents: an incident without a window file is passed over, by v3 one without samples too.
\* The others are known by the places of their rows.
LoadIncidents(rows) ==
    Restrict(rows, {i \in DOMAIN rows : rows[i].window # "missing" /\ (script = "v3" => rows[i].window # "empty")})

-----------------------------------------------------------------------------
(* outcomes and metrics_from_outcomes *)

Hit(r, cfg) == r.class # Healthy /\ cfg \in r.hits
Fired(r, cfg) == r.class = Healthy /\ cfg \in r.hits

Score(incidents, cfg) ==
    [detected |-> Cardinality({i \in DOMAIN incidents : Hit(incidents[i], cfg)}),
     faults |-> Cardinality({i \in DOMAIN incidents : incidents[i].class # Healthy}),
     fired |-> Cardinality({i \in DOMAIN incidents : Fired(incidents[i], cfg)}),
     healthy |-> Cardinality({i \in DOMAIN incidents : incidents[i].class = Healthy})]

\* F1 is twice what was detected, over the faults, the detected and the healthy that fired.
F1(m) == <<2 * m.detected, m.faults + m.detected + m.fired>>
Above(f, g) == f[1] * g[2] > g[1] * f[2]

\* The key of the search: F1, then the fewer healthy incidents that fired.
BetterKey(m, n) == Above(F1(m), F1(n)) \/ (~Above(F1(n), F1(m)) /\ m.fired < n.fired)

-----------------------------------------------------------------------------
(* freeze_on_train_val *)

\* Mutant of Fit: the test incidents take part in the choice.
FitAll(incidents) == incidents

Fit(incidents) == Restrict(incidents, {i \in DOMAIN incidents : incidents[i].split \in {"train", "validation"}})

\* The grid is searched in its order, and only a better configuration replaces the best so far.
FreezeOnTrainVal(incidents) ==
    LET fit == Fit(incidents)
        best[cfg \in Grid] ==
            IF cfg = 1 THEN 1
            ELSE IF BetterKey(Score(fit, cfg), Score(fit, best[cfg - 1])) THEN cfg ELSE best[cfg - 1]
    IN best[GridSize]

PerClassRecall(incidents, cfg) ==
    [c \in EvalClasses |-> Cardinality({i \in DOMAIN incidents : incidents[i].class = c /\ Hit(incidents[i], cfg)})]

OfSplit(incidents, s) == Restrict(incidents, {i \in DOMAIN incidents : incidents[i].split = s})

\* run: the report replaces the one before.
Evaluate ==
    /\ LET incidents == LoadIncidents(settled)
           cfg == FreezeOnTrainVal(incidents)
       IN report' = <<[over |-> Len(settled), frozen |-> cfg,
                       bySplit |-> [s \in Splits |-> Score(OfSplit(incidents, s), cfg)],
                       byClass |-> PerClassRecall(incidents, cfg)]>>
    /\ UNCHANGED <<script, settled>>

EvaluationNext == SettleIncident \/ Evaluate

EvaluationSpec == EvaluationInit /\ [][EvaluationNext]_evaluation

-----------------------------------------------------------------------------
(* Properties. *)

\* The sum of a function's values, as the number of its units.
MapSum(f) == Cardinality(UNION {{c} \X (1 .. f[c]) : c \in DOMAIN f})

\* The frozen configuration is the first of those that do best on the incidents that are not for
\* test, and the two halves of the report agree, if these were all the incidents.
Blind(r, all) ==
    LET seen == {i \in DOMAIN all : all[i].split # "test"}
        hits == [cfg \in Grid |-> Cardinality({i \in seen : Hit(all[i], cfg)})]
        false == [cfg \in Grid |-> Cardinality({i \in seen : Fired(all[i], cfg)})]
        faults == Cardinality({i \in seen : all[i].class # Healthy})
        f1(cfg) == <<2 * hits[cfg], faults + hits[cfg] + false[cfg]>>
        best == {cfg \in Grid : \A other \in Grid : ~Above(f1(other), f1(cfg))}
        quiet == {cfg \in best : \A other \in best : false[cfg] <= false[other]}
    IN /\ r.frozen \in quiet /\ \A cfg \in quiet : r.frozen <= cfg
       /\ MapSum(r.byClass) = MapSum([s \in Splits |-> r.bySplit[s].detected])

\* No test incident has a say in the thresholds it is judged by: however many test incidents there
\* were when a report was made and whatever was settled since, its thresholds are those that the
\* other incidents choose, ties going to the first of the grid; and the two halves of the report,
\* which are computed apart, agree (evaluate_sensors.py:5, 186-199, 216-233).
ThresholdsAreBlind == \A r \in ToSet(report) : Blind(r, LoadIncidents(SubSeq(settled, 1, r.over)))
=============================================================================
