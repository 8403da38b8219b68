---------------------------- MODULE MCMeasurement ---------------------------
(* What is measured, and what is made of it: the detectors, and the parts of the evaluation's      *)
(* input and the evaluation.  They share no state here; a behaviour is one of one of them.         *)
EXTENDS Sensors, Telemetry, Localization, Evaluation

\* A counter stands still, creeps, jumps, or is reset.
MCChanges == {-1, 0, 2, 40}

\* The state of an end of a link is missing, of both ends, or of none.
MCStateGaps == {{}} \cup {{l} \X ends : l \in Links, ends \in {{"leaf"}, {"leaf", "spine"}}}

MCInit == Init /\ StreamInit /\ LocalizationInit /\ EvaluationInit

NoReadings == heard = <<>>
NoSamples == now = 0
NoPlaces == oper = [i \in Ifaces |-> <<>>] /\ incident = <<>>
NoCorpus == settled = <<>> /\ report = <<>>

\* One detector and one lineage stand for those of a part that does nothing.
Idle == kind = "fsm" /\ persistence = 1
Unscripted == script = "v2"

MCNext ==
    \/ Unscripted /\ NoSamples /\ NoPlaces /\ NoCorpus /\ Next /\ UNCHANGED <<stream, places, evaluation>>
    \/ Idle /\ Unscripted /\ NoReadings /\ NoPlaces /\ NoCorpus /\ StreamNext /\ UNCHANGED <<vars, places, evaluation>>
    \/ Idle /\ Unscripted /\ NoReadings /\ NoSamples /\ NoCorpus /\ LocalizationNext /\ UNCHANGED <<vars, stream, evaluation>>
    \/ Idle /\ NoReadings /\ NoSamples /\ NoPlaces /\ EvaluationNext /\ UNCHANGED <<vars, stream, places>>

MCSpec == MCInit /\ [][MCNext]_<<vars, stream, places, evaluation>>
=============================================================================
