--------------------------- MODULE SensorsProofs ---------------------------
(***************************************************************************)
(* Proofs about Sensors for every setting of the detectors, every stream   *)
(* and every length of it: the debouncer implements the alarm policy, an   *)
(* anomaly is not folded into its own baseline, the CUSUM detector is      *)
(* silent inside its slack, and an outage of a link is detected.           *)
(***************************************************************************)
EXTENDS Sensors, TLAPS

-----------------------------------------------------------------------------
(* Arithmetic of the fixed-point rates. *)

(* A step of one weight's share towards x stays between the old value and x. *)
LEMMA TowardsIsBetween ==
    ASSUME NEW old \in Nat, NEW x \in Nat, NEW weight \in Nat \ {0}
    PROVE  /\ Towards(old, x, weight) \in Nat
           /\ x >= old => old <= Towards(old, x, weight) /\ Towards(old, x, weight) <= x
           /\ x <= old => x <= Towards(old, x, weight) /\ Towards(old, x, weight) <= old
<1> DEFINE d == x - old
           q == d \div weight
<1>1. d \in Int /\ q \in Int /\ weight * q <= d /\ d < weight * q + weight
  BY SMT
<1>2. d >= 0 => 0 <= q /\ q <= d
  BY <1>1, SMT
<1>3. d <= 0 => d <= q /\ q <= 0
  BY <1>1, SMT
<1>4. QED
  BY <1>1, <1>2, <1>3, SMT DEF Towards

(* A rate is a natural number: a reset counts as no increase. *)
LEMMA RateIsNat ==
    ASSUME NEW change \in Int, NEW gap \in Nat \ {0}
    PROVE  SampleRate(change, gap) \in Nat
<1>1. AtLeastZero(change) \in Nat
  BY SMT DEF AtLeastZero
<1>2. AtLeastZero(change) * Scale \in Nat
  BY <1>1, SensorsAssumption, SMT
<1>3. QED
  BY <1>2, SMT DEF SampleRate

-----------------------------------------------------------------------------
(* A step of any detector hears one sample, later than all before, with    *)
(* the crossing its detector decides.                                      *)
Hearing(t, value, crossing) ==
    /\ t \in Nat /\ Now < t
    /\ value \in Nat /\ crossing \in BOOLEAN
    /\ Observe(t, value, crossing)
    /\ UNCHANGED <<kind, persistence>>

(* The debouncer's fields against the stream: run counts the crossings at   *)
(* its end, armed says that every alarm was cleared, lastRaise is the time  *)
(* of the latest alarm.                                                     *)
TimesIncrease ==
    \A i, j \in 1..Len(heard) : i < j => heard[i].t < heard[j].t

RunIsSuffix ==
    /\ \A i \in (Len(heard) - run + 1)..Len(heard) : heard[i].crossing
    /\ run < Len(heard) => ~heard[Len(heard) - run].crossing

ArmedIsCleared ==
    armed <=> \A i \in raisedAt : Policy!ClearedSince(heard, i)

LastRaiseIsLatest ==
    /\ raisedAt = {} => lastRaise = Never
    /\ raisedAt # {} => \E i \in raisedAt :
          lastRaise = heard[i].t /\ \A j \in raisedAt : heard[j].t <= lastRaise

DebouncerInv ==
    /\ kind \in Kinds /\ persistence \in Persistences
    /\ heard \in Seq(Samples) /\ raisedAt \subseteq 1..Len(heard)
    /\ run \in 0..Len(heard) /\ armed \in BOOLEAN /\ lastRaise \in Nat \cup {Never}
    /\ TimesIncrease /\ RunIsSuffix /\ ArmedIsCleared /\ LastRaiseIsLatest

(* What a sample adds to the stream. *)
LEMMA Appending ==
    ASSUME NEW h \in Seq(Samples), NEW s \in Samples
    PROVE  /\ Append(h, s) \in Seq(Samples)
           /\ Len(h) \in Nat /\ Len(Append(h, s)) = Len(h) + 1
           /\ \A i \in 1..Len(h) : Append(h, s)[i] = h[i] /\ h[i] \in Samples
           /\ Append(h, s)[Len(h) + 1] = s
  BY SMT

LEMMA TimesAreNat ==
    ASSUME heard \in Seq(Samples), NEW i \in 1..Len(heard)
    PROVE  heard[i].t \in Nat
<1>1. heard[i] \in Samples
  OBVIOUS
<1>2. QED
  BY <1>1 DEF Samples

(* Every earlier sample is older than the new one. *)
LEMMA NewSampleIsLatest ==
    ASSUME DebouncerInv, NEW t, NEW value, NEW crossing, Hearing(t, value, crossing)
    PROVE  \A i \in 1..Len(heard) : heard[i].t < t
<1> SUFFICES ASSUME NEW i \in 1..Len(heard) PROVE heard[i].t < t
  OBVIOUS
<1>1. heard # <<>> /\ Len(heard) \in 1..Len(heard)
  BY SMT DEF DebouncerInv
<1> heard[i] \in Samples /\ heard[Len(heard)] \in Samples
  BY <1>1 DEF DebouncerInv
<1>2. heard[i].t <= heard[Len(heard)].t
  <2>1. CASE i = Len(heard)
    BY <2>1, SMT DEF Samples
  <2>2. CASE i # Len(heard)
    BY <1>1, <2>2, SMT DEF DebouncerInv, TimesIncrease, Samples
  <2>3. QED
    BY <2>1, <2>2
<1>3. heard[Len(heard)].t < t
  BY <1>1, SMT DEF Hearing, Now
<1>4. QED
  BY <1>1, <1>2, <1>3, SMT DEF DebouncerInv, Samples, Hearing

(* The last k samples cross exactly if the run of crossings at the end is as long. *)
LEMMA RunMeansHolds ==
    ASSUME NEW h \in Seq(Samples), NEW r \in 0..Len(h), NEW k \in Nat \ {0},
           \A i \in (Len(h) - r + 1)..Len(h) : h[i].crossing,
           r < Len(h) => ~h[Len(h) - r].crossing
    PROVE  Policy!HoldsFor(h, k) <=> r >= k
<1> Len(h) \in Nat
  OBVIOUS
<1>1. CASE r >= k
  <2>1. \A i \in (Len(h) - k + 1)..Len(h) : i \in (Len(h) - r + 1)..Len(h)
    BY <1>1, SMT
  <2>2. k <= Len(h)
    BY <1>1, SMT
  <2>3. QED
    BY <1>1, <2>1, <2>2 DEF Policy!HoldsFor
<1>2. CASE r < k /\ k <= Len(h)
  <2>1. Len(h) - r \in (Len(h) - k + 1)..Len(h) /\ r < Len(h) /\ ~(r >= k)
    BY <1>2, SMT
  <2>2. ~h[Len(h) - r].crossing
    BY <2>1
  <2>3. QED
    BY <2>1, <2>2 DEF Policy!HoldsFor
<1>3. CASE k > Len(h)
  BY <1>3, SMT DEF Policy!HoldsFor
<1>4. QED
  BY <1>1, <1>2, <1>3, SMT

(* The cooldown of the latest alarm is the longest to wait for. *)
LEMMA LatestAlarmDecides ==
    ASSUME DebouncerInv, NEW t \in Nat
    PROVE  ~CoolingDown(t) <=> \A i \in raisedAt : t - heard[i].t >= Cooldown
<1> Cooldown \in Nat /\ \A i \in raisedAt : heard[i].t \in Nat
  <2>1. \A i \in raisedAt : heard[i] \in Samples
    BY DEF DebouncerInv
  <2>2. QED
    BY <2>1, SensorsAssumption DEF Samples
<1>1. CASE raisedAt = {}
  BY <1>1 DEF DebouncerInv, LastRaiseIsLatest, CoolingDown
<1>2. CASE raisedAt # {}
  <2>1. PICK i \in raisedAt : lastRaise = heard[i].t /\ \A j \in raisedAt : heard[j].t <= lastRaise
    BY <1>2 DEF DebouncerInv, LastRaiseIsLatest
  <2>2. lastRaise \in Nat /\ lastRaise # Never
    BY <2>1, SMT DEF Never
  <2>3. CASE t - lastRaise < Cooldown
    BY <2>1, <2>2, <2>3 DEF CoolingDown
  <2>4. CASE t - lastRaise >= Cooldown
    <3>1. \A j \in raisedAt : t - heard[j].t >= Cooldown
      BY <2>1, <2>2, <2>4, SMT
    <3>2. ~CoolingDown(t)
      BY <2>2, <2>4, SMT DEF CoolingDown
    <3>3. QED
      BY <3>1, <3>2
  <2>5. QED
    BY <2>2, <2>3, <2>4, SMT
<1>3. QED
  BY <1>1, <1>2

-----------------------------------------------------------------------------
(* One sample: the debouncer alarms exactly if the policy says one is due.  *)
LEMMA HearingIsPolicy ==
    ASSUME DebouncerInv, NEW t, NEW value, NEW crossing, Hearing(t, value, crossing)
    PROVE  DebouncerInv' /\ Policy!PolicyNext
<1> DEFINE s == [t |-> t, value |-> value, crossing |-> crossing]
           n == Len(heard)
<1>1. s \in Samples /\ heard' = Append(heard, s)
  BY DEF Hearing, Observe, Samples
<1>2. /\ heard' \in Seq(Samples) /\ n \in Nat /\ Len(heard') = n + 1
      /\ \A i \in 1..n : heard'[i] = heard[i] /\ heard[i] \in Samples
      /\ heard'[n + 1] = s
  BY <1>1, Appending DEF DebouncerInv
<1>3. \A i \in 1..n : heard[i].t < t
  BY NewSampleIsLatest
<1>4. s.t = t /\ s.crossing = crossing /\ t \in Nat /\ crossing \in BOOLEAN
  BY DEF Hearing
<1>5. kind' \in Kinds /\ persistence' \in Persistences /\ persistence' = persistence
  BY DEF Hearing, DebouncerInv
<1>6. TimesIncrease'
  <2> SUFFICES ASSUME NEW i \in 1..(n + 1), NEW j \in 1..(n + 1), i < j
               PROVE  heard'[i].t < heard'[j].t
    BY <1>2 DEF TimesIncrease
  <2>1. i \in 1..n /\ heard'[i] = heard[i]
    BY <1>2, SMT
  <2>2. CASE j = n + 1
    BY <1>2, <1>3, <1>4, <2>1, <2>2
  <2>3. CASE j \in 1..n
    BY <1>2, <2>1, <2>3 DEF DebouncerInv, TimesIncrease
  <2>4. QED
    BY <1>2, <2>2, <2>3, SMT
<1>7. \A i \in raisedAt : i \in 1..n
  BY DEF DebouncerInv
<1>8. \A i \in 1..n : Policy!ClearedSince(heard', i) <=> ~crossing \/ Policy!ClearedSince(heard, i)
  <2> SUFFICES ASSUME NEW i \in 1..n
               PROVE (\E j \in i..(n + 1) : ~heard'[j].crossing)
                     <=> ~crossing \/ \E j \in i..n : ~heard[j].crossing
    BY <1>2 DEF Policy!ClearedSince
  <2>1. \A j \in i..n : heard'[j] = heard[j]
    BY <1>2, SMT
  <2>2. n + 1 \in i..(n + 1) /\ \A j \in i..(n + 1) : j = n + 1 \/ j \in i..n
    BY <1>2, SMT
  <2>3. \A j \in i..n : j \in i..(n + 1)
    BY <1>2, SMT
  <2>4. QED
    BY <1>2, <1>4, <2>1, <2>2, <2>3
<1>9. CASE ~crossing
  <2>1. run' = 0 /\ armed' = TRUE /\ lastRaise' = lastRaise /\ raisedAt' = raisedAt
    BY <1>9 DEF Hearing, Observe, Cleared
  <2>2. RunIsSuffix'
    BY <1>2, <1>4, <1>9, <2>1, SMT DEF RunIsSuffix
  <2>3. ArmedIsCleared'
    BY <1>7, <1>8, <1>9, <2>1 DEF ArmedIsCleared
  <2>4. LastRaiseIsLatest'
    BY <1>2, <1>7, <2>1 DEF LastRaiseIsLatest, DebouncerInv
  <2>5. DebouncerInv'
    BY <1>2, <1>5, <1>6, <2>1, <2>2, <2>3, <2>4, SMT DEF DebouncerInv
  <2>6. ~Policy!Due(heard', raisedAt)
    <3>1. persistence \in Nat \ {0}
      BY <1>5, SensorsAssumption
    <3>2. run' \in 0..Len(heard') /\ ~(run' >= persistence)
      BY <1>2, <2>1, <3>1, SMT
    <3>3. Policy!HoldsFor(heard', persistence) <=> run' >= persistence
      BY <1>2, <2>2, <3>1, <3>2, RunMeansHolds DEF RunIsSuffix
    <3>4. QED
      BY <3>2, <3>3 DEF Policy!Due
  <2>7. Policy!PolicyNext
    BY <1>2, <1>3, <1>4, <1>5, <1>1, <2>1, <2>6, SMT DEF Policy!PolicyNext, Policy!Hear
  <2>8. QED
    BY <2>5, <2>7
<1>10. CASE crossing
  <2>1. run' = run + 1
    BY <1>10 DEF Hearing, Observe, Crossed
  <2>2. run' \in 0..Len(heard') /\ run \in 0..n /\ n + 1 - run' = n - run
    BY <1>2, <2>1, SMT DEF DebouncerInv
  <2>3. RunIsSuffix'
    <3>1. \A i \in (n + 1 - run' + 1)..(n + 1) : 
            i = n + 1 \/ (i \in 1..n /\ i \in (n - run + 1)..n)
      <4>1. n \in Nat /\ run \in 0..n
        BY <1>2, <2>2
      <4>2. QED
        BY <2>1, <4>1, SMT
    <3>2. \A i \in (n + 1 - run' + 1)..(n + 1) : heard'[i].crossing
      BY <1>2, <1>4, <1>10, <3>1 DEF DebouncerInv, RunIsSuffix
    <3>3. run' < n + 1 => n - run \in 1..n /\ run < n
      BY <1>2, <2>1, <2>2, SMT
    <3>4. run' < n + 1 => ~heard'[n + 1 - run'].crossing
      BY <1>2, <2>2, <3>3 DEF DebouncerInv, RunIsSuffix
    <3>5. Len(heard') = n + 1 /\ n \in Nat /\ run' \in 0..(n + 1)
      BY <1>2, <2>2
    <3>6. /\ \A i \in (Len(heard') - run' + 1)..Len(heard') : heard'[i].crossing
          /\ run' < Len(heard') => ~heard'[Len(heard') - run'].crossing
      BY <3>2, <3>4, <3>5, SMT
    <3>7. QED
      BY <3>6 DEF RunIsSuffix
  <2>4. Policy!HoldsFor(heard', persistence) <=> run' >= persistence
    <3>1. persistence \in Nat \ {0}
      BY <1>5, SensorsAssumption
    <3>2. QED
      BY <1>2, <2>2, <2>3, <3>1, RunMeansHolds DEF RunIsSuffix
  <2>5. (\A i \in raisedAt : Policy!ClearedSince(heard', i)) <=> armed
    BY <1>7, <1>8, <1>10 DEF ArmedIsCleared, DebouncerInv
  <2>6. (\A i \in raisedAt : t - heard'[i].t >= Cooldown) <=> ~CoolingDown(t)
    BY <1>2, <1>4, <1>7, LatestAlarmDecides
  <2>7. Policy!Due(heard', raisedAt) <=> run' >= persistence /\ armed /\ ~CoolingDown(t)
    BY <1>2, <1>4, <2>4, <2>5, <2>6 DEF Policy!Due
  <2>8. run' < persistence <=> ~(run' >= persistence)
    BY <1>2, <1>5, <2>2, SensorsAssumption, SMT
  <2>9. CASE Policy!Due(heard', raisedAt)
    <3>1. armed' = FALSE /\ lastRaise' = t /\ raisedAt' = raisedAt \cup {n + 1}
      BY <1>2, <1>10, <2>7, <2>8, <2>9 DEF Hearing, Observe, Crossed, Raise
    <3>2. ArmedIsCleared'
      <4>1. ~Policy!ClearedSince(heard', n + 1)
        <5>1. \A j \in (n + 1)..(n + 1) : j = n + 1
          BY <1>2, SMT
        <5>2. QED
          BY <1>2, <1>4, <1>10, <5>1 DEF Policy!ClearedSince
      <4>2. QED
        BY <3>1, <4>1 DEF ArmedIsCleared
    <3>3. LastRaiseIsLatest'
      <4>1. n + 1 \in raisedAt' /\ heard'[n + 1].t = t /\ raisedAt' # {}
        BY <1>2, <1>4, <3>1
      <4>2. \A j \in raisedAt : heard'[j].t <= t
        BY <1>2, <1>3, <1>4, <1>7, SMT DEF Samples
      <4>3. t <= t
        BY <1>4, SMT
      <4>4. \A j \in raisedAt' : heard'[j].t <= lastRaise'
        BY <3>1, <4>1, <4>2, <4>3
      <4>5. QED
        BY <3>1, <4>1, <4>4 DEF LastRaiseIsLatest
    <3>4. raisedAt' \subseteq 1..Len(heard')
      BY <1>2, <1>7, <3>1, SMT
    <3>5. DebouncerInv'
      BY <1>2, <1>4, <1>5, <1>6, <2>2, <2>3, <3>1, <3>2, <3>3, <3>4 DEF DebouncerInv
    <3>6. QED
      BY <1>1, <1>2, <1>3, <1>4, <1>5, <2>9, <3>1, <3>5, SMT DEF Policy!PolicyNext, Policy!Hear
  <2>10. CASE ~Policy!Due(heard', raisedAt)
    <3>1. armed' = armed /\ lastRaise' = lastRaise /\ raisedAt' = raisedAt
      BY <1>10, <2>7, <2>8, <2>10 DEF Hearing, Observe, Crossed
    <3>2. ArmedIsCleared'
      BY <2>5, <3>1 DEF ArmedIsCleared
    <3>3. LastRaiseIsLatest'
      BY <1>2, <1>7, <3>1 DEF LastRaiseIsLatest, DebouncerInv
    <3>4. raisedAt' \subseteq 1..Len(heard')
      BY <1>2, <1>7, <3>1, SMT
    <3>5. DebouncerInv'
      BY <1>2, <1>5, <1>6, <2>2, <2>3, <3>1, <3>2, <3>3, <3>4 DEF DebouncerInv
    <3>6. QED
      BY <1>1, <1>2, <1>3, <1>4, <1>5, <2>10, <3>1, <3>5, SMT DEF Policy!PolicyNext, Policy!Hear
  <2>11. QED
    BY <2>9, <2>10
<1>11. QED
  BY <1>4, <1>9, <1>10

-----------------------------------------------------------------------------
(* The statistics of the detectors stay natural numbers, and every step of  *)
(* a detector is the hearing of one sample.                                 *)
StatisticsInv ==
    /\ mean \in Nat /\ mad \in Nat
    /\ sp \in Nat /\ sn \in Int /\ -sn \in Nat

LEMMA NowIsTime ==
    ASSUME heard \in Seq(Samples)
    PROVE  Now \in Nat
<1>1. CASE heard = <<>>
  BY <1>1 DEF Now
<1>2. CASE heard # <<>>
  <2>1. Len(heard) \in 1..Len(heard)
    BY <1>2, SMT
  <2>2. heard[Len(heard)] \in Samples
    BY <2>1
  <2>3. QED
    BY <1>2, <2>2 DEF Now, Samples
<1>3. QED
  BY <1>1, <1>2

LEMMA StateIsHeard ==
    ASSUME DebouncerInv, HearState
    PROVE  \E t, value, crossing : Hearing(t, value, crossing)
<1>1. PICK gap \in Gaps \ {0}, readings \in (SUBSET {0, 1}) \ {{}} :
         Observe(Now + gap, Collapse(readings), 2 * Collapse(readings) < 1)
  BY DEF HearState
<1>2. Collapse(readings) \in Nat /\ (2 * Collapse(readings) < 1) \in BOOLEAN
  BY SMT DEF Collapse
<1>3. gap \in Nat /\ gap # 0 /\ Now \in Nat
  BY NowIsTime, SensorsAssumption DEF DebouncerInv
<1>4. Now + gap \in Nat /\ Now < Now + gap
  BY <1>3, SMT
<1>5. UNCHANGED <<kind, persistence>>
  BY DEF HearState
<1>6. Hearing(Now + gap, Collapse(readings), 2 * Collapse(readings) < 1)
  BY <1>1, <1>2, <1>4, <1>5 DEF Hearing
<1>7. QED
  BY <1>6

(* A counter's reading becomes a rate at a later time. *)
LEMMA RatesAreHeard ==
    ASSUME DebouncerInv, NEW gap \in Gaps, gap > 0, NEW change \in Changes
    PROVE  /\ Now + gap \in Nat /\ Now < Now + gap
           /\ SampleRate(change, gap) \in Nat
<1>1. gap \in Nat \ {0} /\ Now \in Nat /\ change \in Int
  BY NowIsTime, SensorsAssumption, SMT DEF DebouncerInv
<1>2. QED
  BY <1>1, RateIsNat, SMT

LEMMA EwmaIsHeard ==
    ASSUME DebouncerInv, StatisticsInv, HearEwma
    PROVE  /\ StatisticsInv'
           /\ \E t, value : Hearing(t, value, Deviates(value)) /\ EwmaUpdate(value)
<1>1. PICK gap \in Gaps, change \in Changes :
         /\ gap > 0
         /\ Observe(Now + gap, SampleRate(change, gap), Deviates(SampleRate(change, gap)))
         /\ EwmaUpdate(SampleRate(change, gap))
  BY DEF HearEwma
<1> DEFINE x == SampleRate(change, gap)
<1>2. Now + gap \in Nat /\ Now < Now + gap /\ x \in Nat
  BY <1>1, RatesAreHeard
<1>3. Deviates(x) \in BOOLEAN
  BY DEF Deviates
<1>4. UNCHANGED <<kind, persistence>>
  BY DEF HearEwma
<1>5. Hearing(Now + gap, x, Deviates(x)) /\ EwmaUpdate(x)
  BY <1>1, <1>2, <1>3, <1>4 DEF Hearing
<1>6. Abs(x - mean) \in Nat
  BY <1>2, SMT DEF StatisticsInv, Abs
<1>7. Towards(mean, x, EwmaWeight) \in Nat /\ Towards(mad, Abs(x - mean), EwmaWeight) \in Nat
  BY <1>2, <1>6, TowardsIsBetween, SensorsAssumption DEF StatisticsInv
<1>8. mean' \in Nat /\ mad' \in Nat /\ sp' = sp /\ sn' = sn
  BY <1>2, <1>5, <1>7 DEF StatisticsInv, EwmaUpdate, FoldBaseline
<1>9. StatisticsInv'
  BY <1>8 DEF StatisticsInv
<1>10. QED
  BY <1>5, <1>9

LEMMA CusumIsHeard ==
    ASSUME DebouncerInv, StatisticsInv, HearCusum
    PROVE  /\ StatisticsInv'
           /\ \E t, value : value \in Nat /\ Hearing(t, value, Exceeds(value)) /\ CusumUpdate(value)
<1>1. PICK gap \in Gaps, change \in Changes :
         /\ gap > 0
         /\ Observe(Now + gap, SampleRate(change, gap), Exceeds(SampleRate(change, gap)))
         /\ CusumUpdate(SampleRate(change, gap))
  BY DEF HearCusum
<1> DEFINE x == SampleRate(change, gap)
<1>2. Now + gap \in Nat /\ Now < Now + gap /\ x \in Nat
  BY <1>1, RatesAreHeard
<1>3. Exceeds(x) \in BOOLEAN
  BY DEF Exceeds
<1>4. UNCHANGED <<kind, persistence>>
  BY DEF HearCusum
<1>5. Hearing(Now + gap, x, Exceeds(x)) /\ CusumUpdate(x)
  BY <1>1, <1>2, <1>3, <1>4 DEF Hearing
<1>6. Slack * Scale \in Nat
  BY SensorsAssumption, SMT
<1>7. Up(x) \in Nat /\ Down(x) \in Int /\ -Down(x) \in Nat
  BY <1>2, <1>6, SMT DEF StatisticsInv, Up, Down, AtLeastZero, AtMostZero
<1>8. Towards(mean, x, RefWeight) \in Nat
  BY <1>2, TowardsIsBetween, SensorsAssumption DEF StatisticsInv
<1>9. mean' \in Nat /\ mad' = mad
  BY <1>2, <1>5, <1>8 DEF CusumUpdate
<1>10. sp' \in Nat /\ sn' \in Int /\ -sn' \in Nat
  <2>1. CASE First
    BY <1>5, <2>1 DEF CusumUpdate, StatisticsInv
  <2>2. CASE ~First /\ Exceeds(x)
    <3>1. sp' = 0 /\ sn' = 0
      BY <1>5, <2>2 DEF CusumUpdate
    <3>2. QED
      BY <3>1, SMT
  <2>3. CASE ~First /\ ~Exceeds(x)
    <3>1. sp' = Up(x) /\ sn' = Down(x)
      BY <1>5, <2>3 DEF CusumUpdate
    <3>2. QED
      BY <1>7, <3>1
  <2>4. QED
    BY <2>1, <2>2, <2>3
<1>11. StatisticsInv'
  BY <1>9, <1>10 DEF StatisticsInv
<1>12. QED
  BY <1>2, <1>5, <1>11

-----------------------------------------------------------------------------
(* The policy, remembered: every alarm of the stream was due when it was    *)
(* raised, and whatever was due was raised.                                 *)
DueAt(n) ==
    /\ persistence <= n
    /\ \A i \in (n - persistence + 1)..n : heard[i].crossing
    /\ \A i \in raisedAt : i < n =>
          /\ \E j \in i..n : ~heard[j].crossing
          /\ heard[n].t - heard[i].t >= Cooldown

AlarmsWereDue == \A n \in 1..Len(heard) : n \in raisedAt <=> DueAt(n)

(* What the policy's step leaves of the stream, and what it adds. *)
LEMMA PolicyStep ==
    ASSUME DebouncerInv, Policy!PolicyNext
    PROVE  /\ Len(heard) \in Nat /\ Len(heard') = Len(heard) + 1
           /\ \A i \in 1..Len(heard) : heard'[i] = heard[i]
           /\ \A i \in 1..Len(heard) : i \in raisedAt' <=> i \in raisedAt
           /\ Len(heard) + 1 \in raisedAt' <=> Policy!Due(heard', raisedAt)
           /\ raisedAt \subseteq 1..Len(heard) /\ raisedAt' \subseteq raisedAt \cup {Len(heard) + 1}
           /\ persistence' = persistence
<1> DEFINE n == Len(heard)
           s == heard'[Len(heard')]
<1>1. heard' = Append(heard, s) /\ persistence' = persistence
  BY DEF Policy!PolicyNext, Policy!Hear
<1>2. raisedAt' = IF Policy!Due(heard', raisedAt) THEN raisedAt \cup {Len(heard')} ELSE raisedAt
  BY DEF Policy!PolicyNext, Policy!Hear
<1>3. n \in Nat /\ Len(Append(heard, s)) = n + 1 /\ \A i \in 1..n : Append(heard, s)[i] = heard[i]
  <2> HIDE DEF s
  <2>1. QED
    BY SMT DEF DebouncerInv
<1>4. Len(heard') = n + 1 /\ \A i \in 1..n : heard'[i] = heard[i]
  BY <1>1, <1>3
<1>5. raisedAt \subseteq 1..n /\ n + 1 \notin raisedAt /\ \A i \in 1..n : i # n + 1
  BY <1>3, SMT DEF DebouncerInv
<1>6. QED
  BY <1>1, <1>2, <1>3, <1>4, <1>5

LEMMA PolicyIsRemembered ==
    ASSUME DebouncerInv, AlarmsWereDue, Policy!PolicyNext
    PROVE  AlarmsWereDue'
<1> DEFINE n == Len(heard)
<1>1. /\ n \in Nat /\ Len(heard') = n + 1
      /\ \A i \in 1..n : heard'[i] = heard[i]
      /\ \A i \in 1..n : i \in raisedAt' <=> i \in raisedAt
      /\ n + 1 \in raisedAt' <=> Policy!Due(heard', raisedAt)
      /\ raisedAt \subseteq 1..n /\ raisedAt' \subseteq raisedAt \cup {n + 1}
      /\ persistence' = persistence
  BY PolicyStep
<1>2. persistence \in Nat \ {0}
  BY SensorsAssumption DEF DebouncerInv
<1>3. ASSUME NEW k \in 1..n
      PROVE  k \in raisedAt' <=> DueAt(k)'
  <2>1. k \in Nat /\ k \in 1..n /\ \A i \in (k - persistence + 1)..k : persistence <= k => i \in 1..n
    BY <1>1, <1>2, SMT
  <2>2. \A i \in raisedAt' : i < k => i \in 1..n /\ i \in raisedAt
    BY <1>1, SMT
  <2>3. \A i \in raisedAt : i \in raisedAt' /\ i \in 1..n
    BY <1>1
  <2>4. \A i \in 1..n : \A j \in i..k : j \in 1..n
    BY <1>1, <2>1, SMT
  <2>5. DueAt(k)' <=> DueAt(k)
    <3>1. (persistence <= k /\ \A i \in (k - persistence + 1)..k : heard'[i].crossing)
          <=> (persistence <= k /\ \A i \in (k - persistence + 1)..k : heard[i].crossing)
      BY <1>1, <2>1
    <3>2. (\A i \in raisedAt' : i < k =>
              (\E j \in i..k : ~heard'[j].crossing) /\ heard'[k].t - heard'[i].t >= Cooldown)
          <=> (\A i \in raisedAt : i < k =>
              (\E j \in i..k : ~heard[j].crossing) /\ heard[k].t - heard[i].t >= Cooldown)
      <4>1. \A i \in 1..n : (\E j \in i..k : ~heard'[j].crossing) <=> \E j \in i..k : ~heard[j].crossing
        BY <1>1, <2>4
      <4>2. \A i \in 1..n : heard'[k].t - heard'[i].t = heard[k].t - heard[i].t
        BY <1>1, <2>1
      <4>3. QED
        BY <2>2, <2>3, <4>1, <4>2
    <3>3. QED
      BY <1>1, <3>1, <3>2 DEF DueAt
  <2>6. QED
    BY <1>1, <2>1, <2>5 DEF AlarmsWereDue
<1>4. ASSUME NEW k, k = n + 1
      PROVE  k \in raisedAt' <=> DueAt(k)'
  <2>1. k = Len(heard') /\ \A i \in raisedAt : i < k /\ i \in raisedAt'
    BY <1>1, <1>4, SMT
  <2>2. \A i \in raisedAt' : i < k => i \in raisedAt
    BY <1>1, <1>4, SMT
  <2>3. DueAt(k)' <=> Policy!Due(heard', raisedAt)
    BY <1>1, <2>1, <2>2 DEF DueAt, Policy!Due, Policy!HoldsFor, Policy!ClearedSince
  <2>4. QED
    BY <1>1, <1>4, <2>3
<1>5. \A k \in 1..Len(heard') : k \in 1..n \/ k = n + 1
  BY <1>1, SMT
<1>6. SUFFICES ASSUME NEW k \in 1..Len(heard')
               PROVE  k \in raisedAt' <=> DueAt(k)'
  BY DEF AlarmsWereDue
<1>7. QED
  BY <1>3, <1>4, <1>5

-----------------------------------------------------------------------------
(* The FSM detector crosses on exactly the samples that some reading saw    *)
(* down.                                                                    *)
CrossingIsDown ==
    /\ readDown \subseteq 1..Len(heard)
    /\ kind = "fsm" => \A i \in 1..Len(heard) : heard[i].crossing <=> i \in readDown

LEMMA CrossingStaysDown ==
    ASSUME DebouncerInv, CrossingIsDown, HearState
    PROVE  CrossingIsDown'
<1> DEFINE n == Len(heard)
<1>1. PICK gap \in Gaps \ {0}, readings \in (SUBSET {0, 1}) \ {{}} :
         /\ Observe(Now + gap, Collapse(readings), 2 * Collapse(readings) < 1)
         /\ readDown' = readDown \cup {i \in {Len(heard')} : 0 \in readings}
  BY DEF HearState
<1>2. (2 * Collapse(readings) < 1) <=> 0 \in readings
  BY SMT DEF Collapse
<1>3. /\ n \in Nat /\ Len(heard') = n + 1
      /\ \A i \in 1..n : heard'[i] = heard[i]
      /\ heard'[n + 1].crossing <=> 0 \in readings
  <2>1. Now + gap \in Nat /\ Collapse(readings) \in Nat
    <3>1. Now \in Nat /\ gap \in Nat
      BY NowIsTime, SensorsAssumption DEF DebouncerInv
    <3>2. QED
      BY <3>1, SMT DEF Collapse
  <2> DEFINE s == [t |-> Now + gap, value |-> Collapse(readings),
                   crossing |-> 2 * Collapse(readings) < 1]
  <2>2. s \in Samples /\ heard' = Append(heard, s)
    BY <1>1, <2>1 DEF Samples, Observe
  <2>3. n \in Nat /\ Len(heard') = n + 1 /\ (\A i \in 1..n : heard'[i] = heard[i]) /\ heard'[n + 1] = s
    BY <2>2, Appending DEF DebouncerInv
  <2>4. s.crossing <=> 0 \in readings
    BY <1>2
  <2>5. QED
    BY <2>3, <2>4
<1>4. kind = "fsm" /\ readDown \subseteq 1..n
  BY DEF HearState, CrossingIsDown
<1>5. readDown' = IF 0 \in readings THEN readDown \cup {n + 1} ELSE readDown
  <2>1. readDown' = readDown \cup {i \in {n + 1} : 0 \in readings}
    BY <1>1, <1>3
  <2>2. CASE 0 \in readings
    BY <2>1, <2>2
  <2>3. CASE 0 \notin readings
    BY <2>1, <2>3
  <2>4. QED
    BY <2>2, <2>3
<1>6. readDown' \subseteq 1..Len(heard')
  <2>1. 1..n \subseteq 1..(n + 1) /\ n + 1 \in 1..(n + 1)
    BY <1>3, SMT
  <2>2. QED
    BY <1>3, <1>4, <1>5, <2>1
<1>7. ASSUME NEW i \in 1..(n + 1)
      PROVE  heard'[i].crossing <=> i \in readDown'
  <2>1. CASE i = n + 1
    <3>1. i \notin readDown
      BY <1>3, <1>4, <2>1, SMT
    <3>2. QED
      BY <1>3, <1>5, <2>1, <3>1
  <2>2. CASE i # n + 1
    <3>1. i \in 1..n
      BY <1>3, <2>2, SMT
    <3>2. heard[i].crossing <=> i \in readDown
      BY <1>4, <3>1 DEF CrossingIsDown
    <3>3. QED
      BY <1>3, <1>5, <2>2, <3>1, <3>2
  <2>3. QED
    BY <2>1, <2>2
<1>8. QED
  BY <1>3, <1>6, <1>7 DEF CrossingIsDown

-----------------------------------------------------------------------------
(* While a rate that was anomalous holds, it crosses and stays anomalous    *)
(* against the baseline, which none of it was folded into.                  *)
Holds(start) == \A i \in start..Len(heard) : heard[i].value = heard[start].value

AnomalyStands ==
    kind = "ewma" => \A start \in 1..Len(heard) :
        heard[start].crossing /\ Holds(start) =>
            /\ \A i \in start..Len(heard) : heard[i].crossing
            /\ Deviates(heard[start].value)

LEMMA AnomalyStaysApart ==
    ASSUME DebouncerInv, AnomalyStands, kind = "ewma", NEW t, NEW x,
           Hearing(t, x, Deviates(x)), EwmaUpdate(x)
    PROVE  AnomalyStands'
<1> DEFINE n == Len(heard)
           s == [t |-> t, value |-> x, crossing |-> Deviates(x)]
<1>1. s \in Samples /\ heard' = Append(heard, s)
  BY DEF Hearing, Observe, Samples
<1>2. /\ n \in Nat /\ Len(heard') = n + 1 /\ heard' # <<>>
      /\ \A i \in 1..n : heard'[i] = heard[i]
      /\ heard'[n + 1].value = x /\ heard'[n + 1].crossing = Deviates(x)
  <2>1. n \in Nat /\ Len(heard') = n + 1 /\ (\A i \in 1..n : heard'[i] = heard[i]) /\ heard'[n + 1] = s
    BY <1>1, Appending DEF DebouncerInv
  <2>2. heard' \in Seq(Samples) /\ heard' # <<>>
    BY <1>1, <2>1, Appending, SMT DEF DebouncerInv
  <2>3. QED
    BY <2>1, <2>2
<1>3. Deviates(x) => mean' = mean /\ mad' = mad
  BY DEF EwmaUpdate
<1>4. Deviates(x) =>
        /\ heard' # <<>> /\ Len(heard') >= Warmup /\ mad' > 0
        /\ Abs(x - mean') * 10000 >= ZThreshold * 14826 * mad'
  <2>1. Len(heard) >= Warmup => Len(heard') >= Warmup
    BY <1>2, SensorsAssumption, SMT
  <2>2. QED
    BY <1>2, <1>3, <2>1 DEF Deviates
<1>5. SUFFICES ASSUME NEW start \in 1..Len(heard'), heard'[start].crossing, Holds(start)'
               PROVE  /\ \A i \in start..Len(heard') : heard'[i].crossing
                      /\ Deviates(heard[start].value)'
  BY DEF AnomalyStands
<1>6. start \in 1..n \/ start = n + 1
  BY <1>2, SMT
<1>7. heard'[n + 1].value = heard'[start].value
  <2>1. n + 1 \in start..Len(heard')
    BY <1>2, <1>6, SMT
  <2>2. QED
    BY <1>5, <2>1 DEF Holds
<1>8. heard'[start].value = x /\ (Deviates(x) => Deviates(heard[start].value)')
  <2>1. heard'[start].value = x
    BY <1>2, <1>7
  <2>2. Deviates(x) => /\ heard' # <<>> /\ Len(heard') >= Warmup /\ mad' > 0
                       /\ Abs(heard'[start].value - mean') * 10000 >= ZThreshold * 14826 * mad'
    BY <1>4, <2>1
  <2>3. Deviates(x) => Deviates(heard[start].value)'
    BY <2>2 DEF Deviates, First
  <2>4. QED
    BY <2>1, <2>3
<1>9. CASE start = n + 1
  <2>1. \A i \in start..Len(heard') : i = n + 1
    BY <1>2, <1>9, SMT
  <2>2. Deviates(x)
    BY <1>2, <1>5, <1>9
  <2>3. QED
    BY <1>2, <1>8, <1>9, <2>1, <2>2
<1>10. CASE start \in 1..n
  <2>1. \A i \in start..n : i \in 1..n /\ i \in start..Len(heard')
    BY <1>2, <1>10, SMT
  <2>2. heard[start].crossing /\ heard[start].value = x
    BY <1>2, <1>5, <1>8, <1>10
  <2>3. Holds(start)
    BY <1>2, <1>5, <1>8, <1>10, <2>1, <2>2 DEF Holds
  <2>4. (\A i \in start..n : heard[i].crossing) /\ Deviates(x)
    BY <1>10, <2>2, <2>3 DEF AnomalyStands
  <2>5. \A i \in start..Len(heard') : i = n + 1 \/ i \in start..n
    BY <1>2, <1>10, SMT
  <2>6. QED
    <3>1. \A i \in start..Len(heard') : heard'[i].crossing
      BY <1>2, <2>1, <2>4, <2>5
    <3>2. QED
      BY <1>8, <2>4, <3>1
<1>11. QED
  BY <1>6, <1>9, <1>10

-----------------------------------------------------------------------------
(* While all rates lie within the slack of one another, so does the         *)
(* reference of the CUSUM detector, its sums stay empty and it is silent.   *)
Similar ==
    \A i, j \in 1..Len(heard) : heard[i].value - heard[j].value <= Slack * Scale

ReferenceIsBetween ==
    heard # <<>> => \E i, j \in 1..Len(heard) : heard[i].value <= mean /\ mean <= heard[j].value

CusumIsQuiet ==
    kind = "cusum" /\ Similar => sp = 0 /\ sn = 0 /\ raisedAt = {} /\ ReferenceIsBetween

LEMMA CusumStaysQuiet ==
    ASSUME DebouncerInv, StatisticsInv, CusumIsQuiet, kind = "cusum",
           NEW t, NEW x \in Nat, Hearing(t, x, Exceeds(x)), CusumUpdate(x)
    PROVE  CusumIsQuiet'
<1> DEFINE n == Len(heard)
           s == [t |-> t, value |-> x, crossing |-> Exceeds(x)]
           S == Slack * Scale
<1>1. S \in Nat /\ Threshold * Scale \in Nat
  BY SensorsAssumption, SMT
<1>2. s \in Samples /\ heard' = Append(heard, s)
  BY DEF Hearing, Observe, Samples
<1>3. /\ n \in Nat /\ Len(heard') = n + 1
      /\ \A i \in 1..n : heard'[i] = heard[i] /\ heard[i].value \in Nat
      /\ heard'[n + 1].value = x
  <2>1. /\ n \in Nat /\ Len(heard') = n + 1 /\ heard'[n + 1] = s
        /\ \A i \in 1..n : heard'[i] = heard[i] /\ heard[i] \in Samples
    BY <1>2, Appending DEF DebouncerInv
  <2>2. \A i \in 1..n : heard[i].value \in Nat
    BY <2>1 DEF Samples
  <2>3. QED
    BY <2>1, <2>2
<1>4. SUFFICES ASSUME Similar'
               PROVE  (sp = 0 /\ sn = 0 /\ raisedAt = {} /\ ReferenceIsBetween)'
  BY DEF CusumIsQuiet
<1>5. n + 1 \in 1..(n + 1) /\ \A i \in 1..n : i \in 1..(n + 1)
  BY <1>3, SMT
<1>6. /\ \A i, j \in 1..n : heard[i].value - heard[j].value <= S
      /\ \A i \in 1..n : x - heard[i].value <= S /\ heard[i].value - x <= S
  BY <1>3, <1>4, <1>5 DEF Similar
<1>7. sp = 0 /\ sn = 0 /\ raisedAt = {} /\ ReferenceIsBetween
  BY <1>6 DEF CusumIsQuiet, Similar
<1>8. CASE First
  <2>1. mean' = x /\ sp' = sp /\ sn' = sn
    BY <1>8 DEF CusumUpdate
  <2>2. ~Exceeds(x)
    BY <1>8 DEF Exceeds
  <2>3. raisedAt' = raisedAt
    BY <2>2 DEF Hearing, Observe, Cleared
  <2>4. x <= x
    BY SMT
  <2>5. ReferenceIsBetween'
    BY <1>3, <1>5, <2>1, <2>4 DEF ReferenceIsBetween
  <2>6. QED
    BY <1>7, <2>1, <2>3, <2>5
<1>9. CASE ~First
  <2>1. PICK i \in 1..n, j \in 1..n : heard[i].value <= mean /\ mean <= heard[j].value
    BY <1>7, <1>9 DEF ReferenceIsBetween, First
  <2>2. x - mean <= S /\ mean - x <= S /\ mean \in Nat
    <3>1. /\ heard[i].value \in Nat /\ heard[j].value \in Nat /\ mean \in Nat
          /\ x - heard[i].value <= S /\ heard[j].value - x <= S
      BY <1>3, <1>6, <2>1 DEF StatisticsInv
    <3> HIDE DEF S
    <3>2. QED
      BY <1>1, <2>1, <3>1, SMT
  <2>3. Up(x) = 0 /\ Down(x) = 0
    BY <1>1, <1>7, <2>2, SMT DEF Up, Down, AtLeastZero, AtMostZero
  <2>4. ~Exceeds(x)
    BY <1>1, <2>3, SMT DEF Exceeds
  <2>5. sp' = 0 /\ sn' = 0 /\ mean' = Towards(mean, x, RefWeight)
    BY <1>9, <2>3, <2>4 DEF CusumUpdate
  <2>6. raisedAt' = {}
    BY <1>7, <2>4 DEF Hearing, Observe, Cleared
  <2>7. /\ mean' \in Nat
        /\ x >= mean => mean <= mean' /\ mean' <= x
        /\ x <= mean => x <= mean' /\ mean' <= mean
    BY <2>2, <2>5, TowardsIsBetween, SensorsAssumption
  <2>8. \E k, l \in 1..(n + 1) : heard'[k].value <= mean' /\ mean' <= heard'[l].value
    <3>1. heard'[i].value = heard[i].value /\ heard'[j].value = heard[j].value
      BY <1>3, <2>1
    <3>2. CASE x >= mean
      <4>1. heard'[i].value <= mean' /\ mean' <= heard'[n + 1].value
        BY <1>3, <2>1, <2>2, <2>7, <3>1, <3>2, SMT
      <4>2. QED
        BY <1>5, <2>1, <4>1
    <3>3. CASE x <= mean
      <4>1. heard'[n + 1].value <= mean' /\ mean' <= heard'[j].value
        BY <1>3, <2>1, <2>2, <2>7, <3>1, <3>3, SMT
      <4>2. QED
        BY <1>5, <2>1, <4>1
    <3>4. QED
      BY <2>2, <3>2, <3>3, SMT
  <2>9. ReferenceIsBetween'
    BY <1>3, <2>8 DEF ReferenceIsBetween
  <2>10. QED
    BY <2>5, <2>6, <2>9
<1>10. QED
  BY <1>8, <1>9

-----------------------------------------------------------------------------
(* The inductive invariant. *)
IInv ==
    /\ DebouncerInv /\ StatisticsInv /\ AlarmsWereDue
    /\ CrossingIsDown /\ AnomalyStands /\ CusumIsQuiet

LEMMA InitIInv == Init => IInv
<1> SUFFICES ASSUME Init PROVE IInv
  OBVIOUS
<1>1. Len(heard) = 0 /\ heard \in Seq(Samples) /\ \A i : i \notin 1..Len(heard)
  BY SMT DEF Init
<1>2. DebouncerInv
  BY <1>1, SMT DEF Init, DebouncerInv, TimesIncrease, RunIsSuffix, ArmedIsCleared, LastRaiseIsLatest,
                    Never
<1>3. StatisticsInv
  BY SMT DEF Init, StatisticsInv
<1>4. AlarmsWereDue /\ CrossingIsDown /\ AnomalyStands /\ CusumIsQuiet
  BY <1>1 DEF Init, AlarmsWereDue, CrossingIsDown, AnomalyStands, CusumIsQuiet, ReferenceIsBetween
<1>5. QED
  BY <1>2, <1>3, <1>4 DEF IInv

LEMMA StepIInv ==
    ASSUME IInv, [Next]_vars
    PROVE  IInv' /\ [Policy!PolicyNext]_(Policy!policyVars)
<1> USE DEF IInv
<1>1. CASE HearState
  <2>1. DebouncerInv' /\ Policy!PolicyNext
    BY <1>1, StateIsHeard, HearingIsPolicy
  <2>2. AlarmsWereDue'
    BY <2>1, PolicyIsRemembered
  <2>3. CrossingIsDown'
    BY <1>1, CrossingStaysDown
  <2>4. kind' = "fsm" /\ UNCHANGED statistics
    BY <1>1 DEF HearState
  <2>5. StatisticsInv' /\ AnomalyStands' /\ CusumIsQuiet'
    BY <2>4 DEF StatisticsInv, AnomalyStands, CusumIsQuiet, statistics
  <2>6. QED
    BY <2>1, <2>2, <2>3, <2>5
<1>2. CASE HearEwma
  <2>1. PICK t, value : Hearing(t, value, Deviates(value)) /\ EwmaUpdate(value)
    BY <1>2, EwmaIsHeard
  <2>2. StatisticsInv'
    BY <1>2, EwmaIsHeard
  <2>3. DebouncerInv' /\ Policy!PolicyNext
    BY <2>1, HearingIsPolicy
  <2>4. AlarmsWereDue'
    BY <2>3, PolicyIsRemembered
  <2>5. kind = "ewma" /\ kind' = "ewma" /\ readDown' = readDown
    BY <1>2 DEF HearEwma
  <2>6. AnomalyStands'
    BY <2>1, <2>5, AnomalyStaysApart
  <2>7. CrossingIsDown'
    <3>1. Len(heard) \in Nat /\ Len(heard') = Len(heard) + 1
      BY <2>3, PolicyStep
    <3>2. 1..Len(heard) \subseteq 1..Len(heard')
      BY <3>1, SMT
    <3>3. QED
      BY <2>5, <3>2 DEF CrossingIsDown
  <2>8. CusumIsQuiet'
    BY <2>5 DEF CusumIsQuiet
  <2>9. QED
    BY <2>2, <2>3, <2>4, <2>6, <2>7, <2>8
<1>3. CASE HearCusum
  <2>1. PICK t, value : value \in Nat /\ Hearing(t, value, Exceeds(value)) /\ CusumUpdate(value)
    BY <1>3, CusumIsHeard
  <2>2. StatisticsInv'
    BY <1>3, CusumIsHeard
  <2>3. DebouncerInv' /\ Policy!PolicyNext
    BY <2>1, HearingIsPolicy
  <2>4. AlarmsWereDue'
    BY <2>3, PolicyIsRemembered
  <2>5. kind = "cusum" /\ kind' = "cusum" /\ readDown' = readDown
    BY <1>3 DEF HearCusum
  <2>6. CusumIsQuiet'
    BY <2>1, <2>5, CusumStaysQuiet
  <2>7. CrossingIsDown'
    <3>1. Len(heard) \in Nat /\ Len(heard') = Len(heard) + 1
      BY <2>3, PolicyStep
    <3>2. 1..Len(heard) \subseteq 1..Len(heard')
      BY <3>1, SMT
    <3>3. QED
      BY <2>5, <3>2 DEF CrossingIsDown
  <2>8. AnomalyStands'
    BY <2>5 DEF AnomalyStands
  <2>9. QED
    BY <2>2, <2>3, <2>4, <2>6, <2>7, <2>8
<1>4. CASE UNCHANGED vars
  <2>1. /\ UNCHANGED <<kind, persistence, heard, raisedAt, readDown, run, armed, lastRaise>>
        /\ UNCHANGED <<mean, mad, sp, sn>>
    BY <1>4 DEF vars, debouncer, statistics
  <2>2. DebouncerInv'
    BY <2>1 DEF DebouncerInv, TimesIncrease, RunIsSuffix, ArmedIsCleared, LastRaiseIsLatest,
                Policy!ClearedSince
  <2>3. StatisticsInv' /\ AlarmsWereDue' /\ CrossingIsDown'
    BY <2>1 DEF StatisticsInv, AlarmsWereDue, DueAt, CrossingIsDown
  <2>4. AnomalyStands'
    BY <2>1 DEF AnomalyStands, Holds, Deviates, First
  <2>5. CusumIsQuiet'
    BY <2>1 DEF CusumIsQuiet, Similar, ReferenceIsBetween
  <2>6. QED
    BY <2>1, <2>2, <2>3, <2>4, <2>5 DEF Policy!policyVars
<1>5. QED
  BY <1>1, <1>2, <1>3, <1>4 DEF Next

THEOREM Invariance == Spec => []IInv
<1>1. Init => IInv
  BY InitIInv
<1>2. IInv /\ [Next]_vars => IInv'
  BY StepIInv
<1>3. QED
  BY <1>1, <1>2, PTL DEF Spec

-----------------------------------------------------------------------------
(* The variables keep their types. *)
THEOREM TypeCorrect == Spec => []TypeOK
<1>1. IInv => TypeOK
  BY DEF IInv, DebouncerInv, StatisticsInv, CrossingIsDown, TypeOK
<1>2. QED
  BY <1>1, Invariance, PTL

(* The debouncer's three fields implement the alarm policy. *)
THEOREM DebouncerImplementsPolicy == Spec => ImplementsPolicy
<1>1. Init => Policy!PolicyInit
  <2>1. Init => persistence \in Nat \ {0}
    BY SensorsAssumption DEF Init
  <2>2. QED
    BY <2>1, SMT DEF Init, Policy!PolicyInit
<1>2. IInv /\ [Next]_vars => [Policy!PolicyNext]_(Policy!policyVars)
  BY StepIInv
<1>3. QED
  BY <1>1, <1>2, Invariance, PTL DEF Spec, ImplementsPolicy, Policy!PolicySpec

(* An anomaly does not become its own baseline. *)
THEOREM AnomaliesAlarm == Spec => []AnomalyIsNotMasked
<1>1. ASSUME IInv PROVE AnomalyIsNotMasked
  <2> DEFINE n == Len(heard)
             start == n - persistence + 1
  <2> SUFFICES ASSUME kind = "ewma", start >= 1, heard[start].crossing,
                      \A i \in start..n : heard[i].value = heard[start].value
               PROVE  \E i \in raisedAt :
                         \/ ~Policy!ClearedSince(heard, i)
                         \/ heard[n].t - heard[i].t < Cooldown
    BY DEF AnomalyIsNotMasked
  <2>1. n \in Nat /\ persistence \in Nat \ {0} /\ raisedAt \subseteq 1..n
    BY <1>1, SensorsAssumption DEF IInv, DebouncerInv
  <2>2. start \in 1..n /\ n \in 1..n /\ n \in start..n /\ persistence <= n
    BY <2>1, SMT
  <2>3. \A i \in start..n : heard[i].crossing
    BY <1>1, <2>2 DEF IInv, AnomalyStands, Holds
  <2>4. CASE n \in raisedAt
    <3>1. ~Policy!ClearedSince(heard, n)
      <4>1. \A j \in n..n : j = n
        BY <2>1, SMT
      <4>2. QED
        BY <2>2, <2>3, <4>1 DEF Policy!ClearedSince
    <3>2. QED
      BY <2>4, <3>1
  <2>5. CASE n \notin raisedAt
    <3>1. ~DueAt(n)
      BY <1>1, <2>2, <2>5 DEF IInv, AlarmsWereDue
    <3>2. PICK i \in raisedAt :
             /\ i < n
             /\ (\A j \in i..n : heard[j].crossing) \/ ~(heard[n].t - heard[i].t >= Cooldown)
      BY <2>2, <2>3, <3>1 DEF DueAt
    <3>3. CASE \A j \in i..n : heard[j].crossing
      BY <3>3 DEF Policy!ClearedSince
    <3>4. CASE ~(heard[n].t - heard[i].t >= Cooldown)
      <4>1. heard[n].t \in Nat /\ heard[i].t \in Nat
        BY <1>1, <2>1, <2>2, TimesAreNat DEF IInv, DebouncerInv
      <4>2. heard[n].t - heard[i].t < Cooldown
        BY <3>4, <4>1, SensorsAssumption, SMT
      <4>3. QED
        BY <4>2
    <3>5. QED
      BY <3>2, <3>3, <3>4
  <2>6. QED
    BY <2>4, <2>5
<1>2. QED
  BY <1>1, Invariance, PTL

(* The CUSUM detector is silent on a rate that stays within its slack. *)
THEOREM CusumSilence == Spec => []QuietInsideSlack
<1>1. IInv => QuietInsideSlack
  BY DEF IInv, CusumIsQuiet, Similar, QuietInsideSlack
<1>2. QED
  BY <1>1, Invariance, PTL

(* A link that is down from the onset of its event on is detected by its    *)
(* persistence-th sample, unless an earlier alarm holds it back.            *)
THEOREM OutagesDetected == Spec => []OutageIsDetected
<1>1. ASSUME IInv PROVE OutageIsDetected
  <2> DEFINE n == Len(heard)
  <2> SUFFICES ASSUME NEW first \in 1..n, NEW onset \in 0..Now, NEW last,
                      last = first + persistence - 1,
                      kind = "fsm", last <= n, onset <= heard[first].t,
                      first > 1 => heard[first - 1].t < onset,
                      heard[last].t <= onset + Horizon,
                      first..last \subseteq readDown,
                      \A i \in raisedAt : heard[i].t < onset =>
                         /\ heard[last].t - heard[i].t >= Cooldown
                         /\ ~(i..first \subseteq readDown)
               PROVE  /\ Verdict(onset).detected
                      /\ \E t \in Detections(onset) : t <= heard[last].t
    BY DEF OutageIsDetected
  <2>1. /\ n \in Nat /\ persistence \in Nat \ {0} /\ raisedAt \subseteq 1..n
        /\ heard \in Seq(Samples) /\ Now \in Nat
    BY <1>1, NowIsTime, SensorsAssumption DEF IInv, DebouncerInv
  <2>2. \A i \in 1..n : heard[i].t \in Nat
    BY <2>1, TimesAreNat
  <2>3. /\ last \in 1..n /\ first <= last /\ first \in first..last /\ last \in Nat
        /\ last - persistence + 1 = first /\ persistence <= last
    BY <2>1, SMT
  <2>4. SUFFICES \E i \in raisedAt : onset <= heard[i].t /\ heard[i].t <= heard[last].t
    <3>1. PICK i \in raisedAt : onset <= heard[i].t /\ heard[i].t <= heard[last].t
      BY <2>4
    <3>2. heard[i].t \in AlarmTimes
      BY DEF AlarmTimes
    <3>3. heard[i].t <= onset + Horizon
      <4>1. heard[i].t \in Nat /\ heard[last].t \in Nat /\ onset \in Nat /\ Horizon \in Nat
        BY <2>1, <2>2, <2>3, SensorsAssumption
      <4>2. QED
        BY <3>1, <4>1, SMT
    <3>4. heard[i].t \in Detections(onset)
      BY <3>1, <3>2, <3>3 DEF Detections, InHorizon
    <3>5. QED
      BY <3>1, <3>4 DEF Verdict
  <2>5. CASE \E i \in raisedAt : first <= i /\ i <= last
    <3>1. PICK i \in raisedAt : first <= i /\ i <= last
      BY <2>5
    <3>2. i \in 1..n
      BY <2>1
    <3>3. heard[first].t <= heard[i].t /\ heard[i].t <= heard[last].t
      <4>1. first < i => heard[first].t < heard[i].t
        BY <1>1, <3>2 DEF IInv, DebouncerInv, TimesIncrease
      <4>2. i < last => heard[i].t < heard[last].t
        BY <1>1, <2>3, <3>2 DEF IInv, DebouncerInv, TimesIncrease
      <4>3. QED
        BY <2>2, <2>3, <3>1, <3>2, <4>1, <4>2, SMT
    <3>4. onset <= heard[i].t
      BY <2>1, <2>2, <3>2, <3>3, SMT
    <3>5. QED
      BY <3>3, <3>4
  <2>6. CASE \A i \in raisedAt : ~(first <= i /\ i <= last)
    <3>1. last \notin raisedAt
      BY <2>3, <2>6, SMT
    <3>2. \A i \in 1..n : heard[i].crossing <=> i \in readDown
      BY <1>1 DEF IInv, CrossingIsDown
    <3>3. \A i \in first..last : heard[i].crossing
      <4>1. \A i \in first..last : i \in 1..n
        BY <2>3, SMT
      <4>2. QED
        BY <3>2, <4>1
    <3>4. ASSUME NEW i \in raisedAt, i < last
          PROVE  /\ \E j \in i..last : ~heard[j].crossing
                 /\ heard[last].t - heard[i].t >= Cooldown
      <4>1. i \in 1..n /\ i < first
        BY <2>1, <2>3, <2>6, <3>4, SMT
      <4>2. first > 1 /\ first - 1 \in 1..n /\ i <= first - 1
        BY <2>1, <4>1, SMT
      <4>3. i < first - 1 => heard[i].t < heard[first - 1].t
        BY <1>1, <4>1, <4>2 DEF IInv, DebouncerInv, TimesIncrease
      <4>4. heard[i].t < onset
        BY <2>1, <2>2, <4>1, <4>2, <4>3, SMT
      <4>5. heard[last].t - heard[i].t >= Cooldown /\ ~(i..first \subseteq readDown)
        BY <4>4
      <4>6. PICK j \in i..first : j \notin readDown
        BY <4>5
      <4>7. j \in 1..n /\ j \in i..last
        BY <2>3, <4>1, SMT
      <4>8. QED
        BY <3>2, <4>5, <4>6, <4>7
    <3>5. DueAt(last)
      BY <2>3, <3>3, <3>4 DEF DueAt
    <3>6. QED
      BY <1>1, <2>3, <3>1, <3>5 DEF IInv, AlarmsWereDue
  <2>7. QED
    BY <2>5, <2>6
<1>2. QED
  BY <1>1, Invariance, PTL
=============================================================================
