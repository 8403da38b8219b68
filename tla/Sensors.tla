------------------------------ MODULE Sensors ------------------------------
(***************************************************************************)
(* One detector of the ensemble (sensors/) hearing one stream of telemetry *)
(* as it is read: the collapse of overlapping operational states and the   *)
(* rate of a counter (adapters.py), the crossing decision of the FSM, the  *)
(* robust EWMA or the CUSUM detector (rules/, timeseries/), the debouncer  *)
(* they share (common.py), and the verdict on an incident (evaluator.py).  *)
(*                                                                         *)
(* Rates are fixed-point numbers of Scale units per 1/s, and the weights   *)
(* alpha of the code are 1/EwmaWeight and 1/RefWeight.  Of a counter only  *)
(* its change between two readings matters; a negative one is a reset.     *)
(***************************************************************************)
EXTENDS Integers, Sequences, FiniteSets, FiniteSetsExt

CONSTANTS
    Persistences,                \* settings of the debouncer: crossings in a row it asks for
    Cooldown,                    \* and the least time between two alarms
    Warmup,                      \* samples before a statistical detector may cross
    ZThreshold, EwmaWeight,      \* of the EWMA detector
    Slack, Threshold, RefWeight, \* of the CUSUM detector, Slack and Threshold per second
    Horizon,                     \* of the evaluator
    Scale,                       \* fixed-point units per 1/s
    Gaps,                        \* times that may pass between two readings
    Changes,                     \* changes of a counter between two readings
    MaxSamples                   \* bound: length of the stream

ASSUME SensorsAssumption ==
    /\ Persistences \subseteq Nat \ {0} /\ Cooldown \in Nat
    /\ Warmup \in Nat /\ ZThreshold \in Nat \ {0}
    /\ EwmaWeight \in Nat \ {0} /\ RefWeight \in Nat \ {0}
    /\ Slack \in Nat /\ Threshold \in Nat /\ Horizon \in Nat \ {0}
    /\ Scale \in Nat \ {0} /\ MaxSamples \in Nat
    /\ Gaps \subseteq Nat /\ Changes \subseteq Int

VARIABLES
    kind,        \* which detector hears the stream
    persistence, \* how its debouncer is set
    heard,       \* history: the samples, with the crossing decided for each
    raisedAt,    \* history: the positions of heard at which an alarm was raised
    readDown,    \* history: the positions at which the link was read down, by some reading
    run, armed, lastRaise,       \* the debouncer
    mean, mad,   \* the baseline of the EWMA detector; mean also that of the CUSUM detector
    sp, sn       \* the sums of the CUSUM detector

debouncer == <<run, armed, lastRaise>>
statistics == <<mean, mad, sp, sn>>
vars == <<kind, persistence, heard, raisedAt, readDown, debouncer, statistics>>

Kinds == {"fsm", "ewma", "cusum"}
Never == -1
Samples == [t : Nat, value : Nat, crossing : BOOLEAN]

Init ==
    /\ kind \in Kinds /\ persistence \in Persistences
    /\ heard = <<>> /\ raisedAt = {} /\ readDown = {}
    /\ run = 0 /\ armed = TRUE /\ lastRaise = Never
    /\ mean = 0 /\ mad = 0 /\ sp = 0 /\ sn = 0

Now == IF heard = <<>> THEN 0 ELSE heard[Len(heard)].t
First == heard = <<>>          \* the sample that seeds a baseline
Abs(x) == IF x < 0 THEN -x ELSE x
AtLeastZero(x) == IF x < 0 THEN 0 ELSE x
AtMostZero(x) == IF x > 0 THEN 0 ELSE x
Towards(old, x, weight) == old + (x - old) \div weight
-----------------------------------------------------------------------------
(* Debouncer.observe, with the sample and the alarm it leads to. *)
Cleared ==
    /\ run' = 0 /\ armed' = TRUE
    /\ UNCHANGED <<lastRaise, raisedAt>>

(* Mutant: The gap must exceed the cooldown. *)
CoolingDownStill(t) == lastRaise # Never /\ t - lastRaise <= Cooldown

CoolingDown(t) == lastRaise # Never /\ t - lastRaise < Cooldown

Raise(t) ==
    /\ armed' = FALSE /\ lastRaise' = t
    /\ raisedAt' = raisedAt \cup {Len(heard')}

Crossed(t) ==
    /\ run' = run + 1
    /\ IF run' < persistence \/ ~armed \/ CoolingDown(t)
       THEN UNCHANGED <<armed, lastRaise, raisedAt>>
       ELSE Raise(t)

Observe(t, value, crossing) ==
    /\ heard' = Append(heard, [t |-> t, value |-> value, crossing |-> crossing])
    /\ IF crossing THEN Crossed(t) ELSE Cleared
-----------------------------------------------------------------------------
(* Mutant: A stale "up" hides a "down" read at the same time. *)
CollapseUpWins(readings) == IF 1 \in readings THEN 1 ELSE 0

(* adapters.py: a link that is read as down and up at one time is down. *)
Collapse(readings) == IF 0 \in readings THEN 0 ELSE 1

(* OperStateDetector.update *)
HearState ==
    /\ kind = "fsm"
    /\ \E gap \in Gaps \ {0}, readings \in (SUBSET {0, 1}) \ {{}} :
          LET value == Collapse(readings)
          IN  /\ Observe(Now + gap, value, 2 * value < 1)
              /\ readDown' = readDown \cup {i \in {Len(heard')} : 0 \in readings}
    /\ UNCHANGED <<kind, persistence, statistics>>

(* adapters.py: the rate over a step, in which a reset is no increase. *)
SampleRate(change, gap) == (AtLeastZero(change) * Scale) \div gap

(* RobustEwmaZScore.update: 1.4826 * mad estimates sigma. *)
Deviates(x) ==
    /\ ~First /\ Len(heard) >= Warmup /\ mad > 0
    /\ Abs(x - mean) * 10000 >= ZThreshold * 14826 * mad

FoldBaseline(x) ==
    IF First
    THEN mean' = x /\ UNCHANGED mad
    ELSE /\ mean' = Towards(mean, x, EwmaWeight)
         /\ mad' = Towards(mad, Abs(x - mean), EwmaWeight)

(* Mutant: Every sample is folded into the baseline. *)
EwmaUpdateAlways(x) == FoldBaseline(x) /\ UNCHANGED <<sp, sn>>

EwmaUpdate(x) ==
    /\ IF Deviates(x) THEN UNCHANGED <<mean, mad>> ELSE FoldBaseline(x)
    /\ UNCHANGED <<sp, sn>>

HearEwma ==
    /\ kind = "ewma"
    /\ \E gap \in Gaps, change \in Changes :
          /\ gap > 0                   \* a repeated reading is skipped
          /\ Observe(Now + gap, SampleRate(change, gap), Deviates(SampleRate(change, gap)))
          /\ EwmaUpdate(SampleRate(change, gap))
    /\ UNCHANGED <<kind, persistence, readDown>>

(* Mutant: The slack widens the upward deviation instead of narrowing it. *)
UpWidened(x) == AtLeastZero(sp + (x - mean) + Slack * Scale)

(* Cusum.update *)
Up(x) == AtLeastZero(sp + (x - mean) - Slack * Scale)
Down(x) == AtMostZero(sn + (x - mean) + Slack * Scale)
Exceeds(x) ==
    /\ ~First /\ Len(heard) >= Warmup
    /\ Up(x) > Threshold * Scale \/ -Down(x) > Threshold * Scale

CusumUpdate(x) ==
    /\ IF First
       THEN mean' = x /\ UNCHANGED <<sp, sn>>
       ELSE /\ mean' = Towards(mean, x, RefWeight)
            /\ sp' = IF Exceeds(x) THEN 0 ELSE Up(x)
            /\ sn' = IF Exceeds(x) THEN 0 ELSE Down(x)
    /\ UNCHANGED mad

HearCusum ==
    /\ kind = "cusum"
    /\ \E gap \in Gaps, change \in Changes :
          /\ gap > 0
          /\ Observe(Now + gap, SampleRate(change, gap), Exceeds(SampleRate(change, gap)))
          /\ CusumUpdate(SampleRate(change, gap))
    /\ UNCHANGED <<kind, persistence, readDown>>

Next ==
    /\ Len(heard) < MaxSamples
    /\ HearState \/ HearEwma \/ HearCusum

Spec == Init /\ [][Next]_vars
-----------------------------------------------------------------------------
(* evaluator.py: the alarms of a window against an event at onset. *)
AlarmTimes == {heard[i].t : i \in raisedAt}
InHorizon(t, onset) == onset <= t /\ t <= onset + Horizon
Detections(onset) == {t \in AlarmTimes : InHorizon(t, onset)}

Verdict(onset) ==
    [detected |-> Detections(onset) # {},
     tDetected |-> IF Detections(onset) = {} THEN Never ELSE Min(Detections(onset)),
     falsePositives |-> Cardinality(AlarmTimes \ Detections(onset))]
-----------------------------------------------------------------------------
(* Type invariant: the debouncer counts crossings it has heard, the scale  *)
(* and the upward sum are never negative, the downward sum never positive. *)
TypeOK ==
    /\ kind \in Kinds /\ persistence \in Persistences
    /\ heard \in Seq(Samples)
    /\ raisedAt \subseteq 1..Len(heard) /\ readDown \subseteq 1..Len(heard)
    /\ run \in 0..Len(heard) /\ armed \in BOOLEAN /\ lastRaise \in Nat \cup {Never}
    /\ mean \in Nat /\ mad \in Nat
    /\ sp \in Nat /\ -sn \in Nat

(* The debouncer's three fields implement the policy over the whole stream: *)
(* every alarm that is due is raised on that sample, and no other            *)
(* (common.py:1-12, 69-82).                                                  *)
Policy == INSTANCE AlarmPolicy
ImplementsPolicy == Policy!PolicySpec

(* An anomaly does not become its own baseline (statistical.py:5-6, 58-60): *)
(* a rate that was anomalous and holds for persistence samples is alarmed,   *)
(* unless the same excursion already was or an alarm is within the cooldown. *)
AnomalyIsNotMasked ==
    LET n == Len(heard)
        start == n - persistence + 1
    IN  /\ kind = "ewma" /\ start >= 1
        /\ heard[start].crossing
        /\ \A i \in start..n : heard[i].value = heard[start].value
        => \E i \in raisedAt :
              \/ ~Policy!ClearedSince(heard, i)
              \/ heard[n].t - heard[i].t < Cooldown

(* The CUSUM detector is silent on a rate that stays within its slack,       *)
(* however long it does and wherever its reference lies (statistical.py:70). *)
QuietInsideSlack ==
    /\ kind = "cusum"
    /\ \A i, j \in 1..Len(heard) : heard[i].value - heard[j].value <= Slack * Scale
    => raisedAt = {}

(* A link that is read down from the onset of its event on is detected, at   *)
(* its persistence-th sample at the latest, whatever overlapping reads say,  *)
(* if that is within the horizon and no earlier alarm holds it back: an alarm *)
(* of an episode that is still on, or one within the cooldown                *)
(* (detection.py:5-6, evaluator.py:8-14).                                    *)
OutageIsDetected ==
    \A first \in 1..Len(heard), onset \in 0..Now :
        LET last == first + persistence - 1
        IN  /\ kind = "fsm" /\ last <= Len(heard)
            /\ onset <= heard[first].t /\ (first > 1 => heard[first - 1].t < onset)
            /\ heard[last].t <= onset + Horizon
            /\ first..last \subseteq readDown
            /\ \A i \in raisedAt : heard[i].t < onset =>
                  /\ heard[last].t - heard[i].t >= Cooldown
                  /\ ~(i..first \subseteq readDown)
            => /\ Verdict(onset).detected
               /\ \E t \in Detections(onset) : t <= heard[last].t
=============================================================================
