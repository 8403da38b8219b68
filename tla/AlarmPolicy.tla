---------------------------- MODULE AlarmPolicy ----------------------------
(***************************************************************************)
(* When a detector may alarm, and when it must, said over the whole stream *)
(* it has heard, with no counters and no memory of the last alarm: the     *)
(* latest persistence samples all cross, the unbroken run of crossings has *)
(* not alarmed before, and every earlier alarm is Cooldown old.            *)
(***************************************************************************)
EXTENDS Integers, Sequences

CONSTANT Cooldown         \* the least time between two alarms

VARIABLES persistence,   \* crossing samples in a row before an alarm
          heard,         \* the samples so far: [t |-> time, crossing |-> BOOLEAN]
          raisedAt       \* the positions in heard at which an alarm was raised

policyVars == <<persistence, heard, raisedAt>>

(* The latest k samples of h all cross. *)
HoldsFor(h, k) ==
    /\ k <= Len(h)
    /\ \A i \in (Len(h) - k + 1)..Len(h) : h[i].crossing

(* The crossing was seen to end since position i. *)
ClearedSince(h, i) == \E j \in i..Len(h) : ~h[j].crossing

(* An alarm is due on the latest sample of h, given the earlier alarms. *)
Due(h, earlier) ==
    /\ HoldsFor(h, persistence)
    /\ \A i \in earlier :
          ClearedSince(h, i) /\ h[Len(h)].t - h[i].t >= Cooldown

PolicyInit == persistence > 0 /\ heard = <<>> /\ raisedAt = {}

Hear(s) ==
    /\ \A i \in 1..Len(heard) : heard[i].t < s.t
    /\ heard' = Append(heard, s)
    /\ raisedAt' = IF Due(heard', raisedAt) THEN raisedAt \cup {Len(heard')} ELSE raisedAt
    /\ UNCHANGED persistence

(* The step to heard' and raisedAt' is the hearing of the last sample of heard'. *)
PolicyNext == heard' # <<>> /\ Hear(heard'[Len(heard')])

PolicySpec == PolicyInit /\ [][PolicyNext]_policyVars
=============================================================================
