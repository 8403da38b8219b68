----------------------------- MODULE Telemetry ------------------------------
(***************************************************************************)
(* One counter of a device on its way to a feature: the device counts, a   *)
(* scrape reads counter and link state, the samples arrive late, twice or  *)
(* not at all, and what has arrived is read by                             *)
(*   telemetry/counters.py        counter_deltas,                          *)
(*   datasets/features.py         _rate and causal_features,               *)
(*   scripts/corpus_pilot.py      the offline and the online feature, and  *)
(*   scripts/evaluate_sensors.py  load_incidents and its common window.    *)
(*                                                                         *)
(* A rate is kept as the rise and the time over which it was seen, and the *)
(* samples that a reader keeps are kept with their place in the stream.    *)
(***************************************************************************)
EXTENDS Integers, Sequences, FiniteSets, Functions

CONSTANTS MaxTicks,    \* bound on the scrapes of a behaviour
          Increments,  \* what may be counted between two scrapes
          MaxGap,      \* max_gap_s
          Width,       \* the width W of a window
          EvalWidth,   \* EVAL_WINDOW_S
          MaxCopies    \* bound on the samples that arrive a second time

ASSUME TelemetryAssumption ==
    /\ MaxTicks \in Nat /\ MaxGap \in Nat /\ Width \in Nat /\ EvalWidth \in Nat /\ MaxCopies \in Nat
    /\ Increments \subseteq Nat

VARIABLES
    now,       \* scrapes so far
    counted,   \* what the device has counted in all
    reading,   \* what its counter shows
    inFlight,  \* the samples that have not arrived
    arrived,   \* the samples in the order in which they arrived
    copies     \* samples that arrived twice

stream == <<now, counted, reading, inFlight, arrived, copies>>

Sample == [t : 1 .. MaxTicks, value : Nat, down : 0 .. 1, counted : Nat]

StreamInit ==
    /\ now = 0 /\ counted = 0 /\ reading = 0
    /\ inFlight = {} /\ arrived = <<>> /\ copies = 0

\* The counter rises, or it is reset first; then it is read, with the link up or down.
Scrape ==
    /\ now < MaxTicks
    /\ now' = now + 1
    /\ \E k \in Increments, reset \in BOOLEAN, down \in 0 .. 1 :
          /\ counted' = counted + k
          /\ reading' = IF reset THEN k ELSE reading + k
          /\ inFlight' = inFlight \cup {[t |-> now + 1, value |-> reading', down |-> down, counted |-> counted']}
    /\ UNCHANGED <<arrived, copies>>

Arrive(s) ==
    /\ arrived' = Append(arrived, s)
    /\ \/ inFlight' = inFlight \ {s} /\ UNCHANGED copies
       \/ copies < MaxCopies /\ copies' = copies + 1 /\ UNCHANGED inFlight
    /\ UNCHANGED <<now, counted, reading>>

Lose(s) == inFlight' = inFlight \ {s} /\ UNCHANGED <<now, counted, reading, arrived, copies>>

StreamNext == Scrape \/ \E s \in inFlight : Arrive(s) \/ Lose(s)

StreamSpec == StreamInit /\ [][StreamNext]_stream

-----------------------------------------------------------------------------
(* counter_deltas *)

Delta(prev, s, delta, quality) == [from |-> prev, to |-> s, delta |-> delta, quality |-> quality]

\* Mutant of Accept: an older sample becomes the previous one.
AcceptOlder(prev, s) ==
    CASE s.t <= prev.t -> [prev |-> s, out |-> Delta(prev, s, 0, "duplicate")]
      [] s.t > prev.t /\ s.value < prev.value -> [prev |-> s, out |-> Delta(prev, s, s.value, "reset")]
      [] OTHER -> [prev |-> s, out |-> Delta(prev, s, s.value - prev.value,
                                             IF s.t - prev.t > MaxGap THEN "gap" ELSE "ok")]

\* One turn of the loop.  A sample that is not newer gives no delta, and is kept if it is as new.
Accept(prev, s) ==
    CASE s.t <= prev.t ->
            [prev |-> IF s.t = prev.t THEN s ELSE prev, out |-> Delta(prev, s, 0, "duplicate")]
      [] s.t > prev.t /\ s.value < prev.value -> [prev |-> s, out |-> Delta(prev, s, s.value, "reset")]
      [] OTHER -> [prev |-> s, out |-> Delta(prev, s, s.value - prev.value,
                                             IF s.t - prev.t > MaxGap THEN "gap" ELSE "ok")]

CounterDeltas(samples) ==
    LET prev[n \in 1 .. Len(samples)] ==
            IF n = 1 THEN samples[1] ELSE Accept(prev[n - 1], samples[n]).prev
    IN [n \in 1 .. Len(samples) - 1 |-> Accept(prev[n], samples[n + 1]).out]

-----------------------------------------------------------------------------
(* _rate and causal_features *)

\* Mutant of Window: nothing bounds it above, as in _feature_leaky.
WindowUnbounded(samples, asOf) == Restrict(samples, {i \in DOMAIN samples : asOf - Width <= samples[i].t})

Window(samples, asOf) ==
    Restrict(samples, {i \in DOMAIN samples : asOf - Width <= samples[i].t /\ samples[i].t <= asOf})

\* The ends of the samples in the order of time, which keeps the order of arrival of equal times.
Earliest(w) == w[CHOOSE i \in DOMAIN w : \A j \in DOMAIN w : w[i].t < w[j].t \/ (w[i].t = w[j].t /\ i <= j)]
Latest(w) == w[CHOOSE i \in DOMAIN w : \A j \in DOMAIN w : w[i].t > w[j].t \/ (w[i].t = w[j].t /\ i >= j)]

\* The counter that fell is taken to have stood still.
Rise(first, last) == IF last.value < first.value THEN 0 ELSE last.value - first.value

Rate(w) ==
    IF Cardinality(DOMAIN w) < 2 THEN [rise |-> 0, over |-> 0, present |-> FALSE]
    ELSE LET dt == Latest(w).t - Earliest(w).t
         IN [rise |-> IF dt <= 0 THEN 0 ELSE Rise(Earliest(w), Latest(w)), over |-> dt, present |-> TRUE]

CausalFeatures(samples, asOf) ==
    LET w == Window(samples, asOf)
    IN [rate |-> Rate(w),
        age |-> IF DOMAIN w = {} THEN Width ELSE asOf - Latest(w).t,
        missing |-> <<~Rate(w).present, DOMAIN w = {}>>]

-----------------------------------------------------------------------------
(* The down fraction of the pilot, as a pair of down samples and samples. *)

DownFraction(w) == <<Cardinality({i \in DOMAIN w : w[i].down = 1}), Cardinality(DOMAIN w)>>

FeatureOffline(samples, asOf) == DownFraction(Window(samples, asOf))

\* It reads in streaming order and stops at the first sample of the future.
FeatureOnline(samples, asOf) ==
    LET seen == {i \in DOMAIN samples : \A j \in 1 .. i : samples[j].t <= asOf}
    IN DownFraction(Window(Restrict(samples, seen), asOf))

\* evaluate_sensors: the onset of an incident is its first sample, and every incident is cut to
\* a common width.
EvaluatedSamples(samples) ==
    Restrict(samples, {i \in DOMAIN samples : samples[i].t <= Earliest(samples).t + EvalWidth})

-----------------------------------------------------------------------------
(* Properties. *)

Total(ds) ==
    LET sum[n \in 0 .. Len(ds)] == IF n = 0 THEN 0 ELSE sum[n - 1] + ds[n].delta
    IN sum[Len(ds)]
Ordered == \A i, j \in DOMAIN arrived : i < j => arrived[i].t <= arrived[j].t

\* However samples are lost, repeated or overtaken and whenever the counter is reset, the deltas of
\* an interface never add up to more than the device has counted between the first sample and the
\* newest one, and the rise behind a rate never exceeds what was counted between the ends of its
\* window (counters.py:42-76, features.py:74-88).
CountersNeverInvent ==
    /\ arrived # <<>> => Total(CounterDeltas(arrived)) <= Latest(arrived).counted - Head(arrived).counted
    /\ \A asOf \in 1 .. now : LET w == Window(arrived, asOf)
                            IN DOMAIN w # {} => Rate(w).rise <= Latest(w).counted - Earliest(w).counted

\* A sample of the future changes no feature of a decision, and no sample after the common window
\* of the evaluation changes what is evaluated: a long incident is worth no more than a short one.
\* On a stream in order, what the pilot decides online is what it decides from the whole file
\* (features.py:91-139, evaluate_sensors.py:81-83, corpus_pilot.py:88-103).
FutureNeverLeaks ==
    [][\A s \in inFlight : arrived' = Append(arrived, s) =>
          /\ \A asOf \in 1 .. s.t - 1 : CausalFeatures(arrived', asOf) = CausalFeatures(arrived, asOf)
          /\ arrived # <<>> /\ s.t > Earliest(arrived).t + EvalWidth =>
                EvaluatedSamples(arrived') = EvaluatedSamples(arrived)
          /\ Ordered' => \A asOf \in 1 .. now : FeatureOnline(arrived', asOf) = FeatureOffline(arrived', asOf)]_stream
=============================================================================
