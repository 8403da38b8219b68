---------------------------- MODULE MCCorrelator ----------------------------
(* Three signals that race for one incident key and one under another key. *)
EXTENDS Correlator

CONSTANTS s1, s2, s3, s4, k1, k2

MCSignals == {s1, s2, s3, s4}
MCKeyOf == [s \in MCSignals |-> IF s = s4 THEN k2 ELSE k1]
=============================================================================
