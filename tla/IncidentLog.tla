----------------------------- MODULE IncidentLog -----------------------------
(***************************************************************************)
(* What the correlator promises: per incident key, a history in which      *)
(* every signal that ever got through has exactly one numbered entry,      *)
(* without gaps, the first of which opened the incident.                   *)
(***************************************************************************)
EXTENDS Integers, FiniteSets

CONSTANTS Keys,        \* incident keys
          Signals      \* detector signals, each with the key it is correlated under

VARIABLE history       \* history[k]: entries <<number, type, signal>>

Types == {"opened", "signal_attached"}

LogInit == history = [k \in Keys |-> {}]

(* A signal of key k that has no entry gets the next number. *)
Record(k, s) ==
    LET entries == history[k]
        type    == IF entries = {} THEN "opened" ELSE "signal_attached"
    IN /\ \A e \in entries : e[3] # s
       /\ history' = [history EXCEPT ![k] = @ \cup {<<Cardinality(@) + 1, type, s>>}]

LogSpec == LogInit /\ [][\E k \in Keys, s \in Signals : Record(k, s)]_history
=============================================================================
