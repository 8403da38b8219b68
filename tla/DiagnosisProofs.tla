-------------------------- MODULE DiagnosisProofs ---------------------------
(***************************************************************************)
(* From the samples of a counter to a diagnosis, for every value of the    *)
(* constants.                                                              *)
(*                                                                         *)
(* Diagnosis: a claim about the subject of a committed diagnosis that      *)
(* entails its class is shown by a record of that subject, and the         *)
(* fallback commits the outages that there were and no others.             *)
(*                                                                         *)
(* Telemetry: deltas and rates invent nothing, and no decision reads what  *)
(* comes after it.                                                         *)
(*                                                                         *)
(* Localization: a link ranks by what the scrapes saw of it.               *)
(*                                                                         *)
(* Evaluation: the thresholds are what they would be without the test      *)
(* incidents.                                                              *)
(***************************************************************************)
EXTENDS Diagnosis, Telemetry, Localization, Evaluation, TLAPS, FiniteSetTheorems, NaturalsInduction

-----------------------------------------------------------------------------
(* Least numbers, and loops. *)

LEMMA LeastNumber ==
    ASSUME NEW T \in SUBSET Nat, T # {}
    PROVE  \E x \in T : \A y \in T : x <= y
<1> DEFINE less == {pair \in Nat \X Nat : pair[1] < pair[2]}
<1>1. PICK x \in T : \A y \in T : ~(<<y, x>> \in less)
    <2>1. IsWellFoundedOn(less, Nat)
        BY NatLessThanWellFounded DEF OpToRel
    <2> HIDE DEF less
    <2> QED
        BY <2>1, WFMin
<1>2. ASSUME NEW y \in T PROVE x <= y
    <2>1. ~(y < x)
        BY <1>1
    <2> QED
        BY <2>1
<1> QED
    BY <1>2

\* A loop over the first N numbers, which goes on from what it has: it has a result at each of them.
Looped(f, m, D, start, step) ==
    f \in [1 .. m -> D] /\ \A n \in 1 .. m : f[n] = IF n = 1 THEN start ELSE step[<<n, f[n - 1]>>]

LEMMA LoopExists ==
    ASSUME NEW N \in Nat, NEW D, NEW start \in D, NEW step \in [(1 .. N) \X D -> D], NEW m \in 1 .. N
    PROVE  \E f : Looped(f, m, D, start, step)
<1> DEFINE without == {k \in 1 .. N : ~\E f : Looped(f, k, D, start, step)}
<1>1. ASSUME without # {} PROVE FALSE
    <2>1. PICK k \in without : \A l \in without : k <= l
        <3>1. without \in SUBSET Nat
            OBVIOUS
        <3> HIDE DEF without
        <3> QED
            BY <1>1, <3>1, LeastNumber
    <2>2. CASE k = 1
        <3> DEFINE f == [n \in 1 .. k |-> start]
        <3>1. Looped(f, k, D, start, step)
            BY <2>2 DEF Looped
        <3> QED
            BY <2>1, <3>1
    <2>3. CASE k # 1
        <3>1. k - 1 \in 1 .. N /\ k - 1 \notin without
            BY <2>1, <2>3
        <3>2. PICK f : Looped(f, k - 1, D, start, step)
            BY <3>1
        <3> DEFINE g == [n \in 1 .. k |-> IF n = k THEN step[<<k, f[k - 1]>>] ELSE f[n]]
        <3>3. k \in 1 .. N /\ f[k - 1] \in D
            BY <2>1, <3>1, <3>2 DEF Looped
        <3>4. g \in [1 .. k -> D]
            BY <3>2, <3>3 DEF Looped
        <3>5. ASSUME NEW n \in 1 .. k PROVE g[n] = IF n = 1 THEN start ELSE step[<<n, g[n - 1]>>]
            <4>1. CASE n = k
                <5>1. g[n] = step[<<k, f[k - 1]>>]
                    BY <4>1
                <5>2. k - 1 \in 1 .. k /\ k - 1 # k
                    BY <2>3, <3>3
                <5>3. g[k - 1] = f[k - 1]
                    BY <5>2
                <5> HIDE DEF g
                <5> QED
                    BY <2>3, <4>1, <5>1, <5>3
            <4>2. CASE n # k
                <5>1. n \in 1 .. k - 1 /\ (n # 1 => n - 1 \in 1 .. k - 1)
                    BY <3>3, <4>2
                <5>2. f[n] = IF n = 1 THEN start ELSE step[<<n, f[n - 1]>>]
                    BY <3>2, <5>1 DEF Looped
                <5>3. g[n] = f[n] /\ (n # 1 => g[n - 1] = f[n - 1])
                    BY <3>3, <4>2, <5>1
                <5> QED
                    BY <5>2, <5>3
            <4> QED
                BY <4>1, <4>2
        <3>6. Looped(g, k, D, start, step)
            <4> HIDE DEF g
            <4> QED
                BY <3>4, <3>5 DEF Looped
        <3> HIDE DEF g
        <3> QED
            BY <2>1, <3>6
    <2> QED
        BY <2>2, <2>3
<1> QED
    BY <1>1
-----------------------------------------------------------------------------
(* The fallback.  Every record of the snapshot is one that a tool may      *)
(* return; what the rules have yet to propose is an outage each, and a     *)
(* link that was down is among them or was seen up, in a read that a claim *)
(* can cite.                                                               *)

Row == [id : UNION Tools, value : Numbers \cup Texts]

\* What is committed is committed last: nothing it was judged by changes any more.
JudgedLast == committed = <<>> \/ pc = "done"

Bundled ==
    /\ snapshot \in Seq(Row)
    /\ \A r \in Records : r.id.at <= AsOf /\ r.value \in Value(r.id)

LinksRead == {r.id.subject : r \in Records}
SeenUp(link) == \E r \in CitedReads(link) : ~(r.value < 1)
FewWereDown == Cardinality({link \in LinksRead : WasDown(link)}) <= MaxHypotheses

\* Only outages are proposed by the rules.
OutagesOffered ==
    hypothesizer = "rules" /\ pc = "test" =>
        /\ proposed \in Seq(ToSet(proposed))
        /\ \A k \in DOMAIN proposed : proposed[k] = Outage(proposed[k].subject)

\* No link that was down is lost on the way to the verdict.
NoneForgotten ==
    hypothesizer = "rules" /\ pc \in {"test", "done"} /\ committed = <<>> /\ FewWereDown =>
        \A link \in LinksRead : WasDown(link) =>
            SeenUp(link) \/ (pc = "test" /\ \E k \in DOMAIN proposed : proposed[k].subject = link)

\* What the rules committed was down at every read that can be cited.
OutageCommitted ==
    hypothesizer = "rules" => \A h \in Committed : OperRecords(h.subject) # {} /\ ~SeenUp(h.subject)

FallbackInv == JudgedLast /\ Bundled /\ OutagesOffered /\ NoneForgotten /\ OutageCommitted

-----------------------------------------------------------------------------
(* Sequences cut short, sets in some order, and ranks. *)

LEMMA AtMostKeeps ==
    ASSUME NEW S, NEW s \in Seq(S), NEW n \in Nat
    PROVE  /\ AtMost(n, s) \in Seq(S)
           /\ Len(AtMost(n, s)) = IF n <= Len(s) THEN n ELSE Len(s)
           /\ \A i \in 1 .. Len(AtMost(n, s)) : i \in DOMAIN s /\ AtMost(n, s)[i] = s[i]
<1> DEFINE m == IF n <= Len(s) THEN n ELSE Len(s)
<1>1. m \in {n, Len(s)} /\ \A y \in {n, Len(s)} : m <= y
    OBVIOUS
<1>2. \A x \in {n, Len(s)} : (\A y \in {n, Len(s)} : x <= y) => x = m
    OBVIOUS
<1>3. Min({n, Len(s)}) = m
    <2> HIDE DEF m
    <2> QED
        BY <1>1, <1>2 DEF Min
<1>4. AtMost(n, s) = SubSeq(s, 1, m)
    BY <1>3 DEF AtMost
<1>5. m \in 0 .. Len(s)
    OBVIOUS
<1> HIDE DEF m
<1>6. /\ SubSeq(s, 1, m) \in Seq(S) /\ Len(SubSeq(s, 1, m)) = m
      /\ \A i \in 1 .. m : i \in DOMAIN s /\ SubSeq(s, 1, m)[i] = s[i]
    BY <1>5
<1> QED
    BY <1>4, <1>6 DEF m

LEMMA InOwnRange == ASSUME NEW S, NEW s \in Seq(S) PROVE s \in Seq(ToSet(s))
BY DEF ToSet

\* Two members of a finite set of numbers do not have the same number of members up to them.
LEMMA RanksDiffer ==
    ASSUME NEW S \in SUBSET Nat, IsFiniteSet(S), NEW i \in S, NEW k \in S,
           Cardinality({j \in S : j <= i}) = Cardinality({j \in S : j <= k})
    PROVE  i = k
<1>1. ASSUME NEW a \in S, NEW b \in S, a < b,
             Cardinality({j \in S : j <= a}) = Cardinality({j \in S : j <= b})
      PROVE  FALSE
    <2> DEFINE A == {j \in S : j <= a}
               B == {j \in S : j <= b}
    <2>1. A \in SUBSET B /\ B \in SUBSET S /\ b \in B /\ b \notin A
        <3>1. \A j \in S : j <= a => j <= b
            BY <1>1
        <3>2. b <= b /\ ~(b <= a)
            BY <1>1
        <3> QED
            BY <3>1, <3>2
    <2>2. Cardinality(A) = Cardinality(B)
        BY <1>1
    <2> HIDE DEF A, B
    <2>3. IsFiniteSet(B)
        BY <2>1, FS_Subset
    <2>4. A = B
        BY <2>1, <2>2, <2>3, FS_Subset
    <2> QED
        BY <2>1, <2>4
<1>2. i < k \/ k < i \/ i = k
    OBVIOUS
<1> QED
    BY <1>1, <1>2

LEMMA RankInRange ==
    ASSUME NEW S \in SUBSET Nat, IsFiniteSet(S), NEW i \in S
    PROVE  Cardinality({j \in S : j <= i}) \in 1 .. Cardinality(S)
<1> DEFINE A == {j \in S : j <= i}
<1>1. A \in SUBSET S /\ A # {}
    OBVIOUS
<1> HIDE DEF A
<1>2. IsFiniteSet(A) /\ Cardinality(A) <= Cardinality(S)
    BY <1>1, FS_Subset
<1>3. Cardinality(A) \in Nat /\ Cardinality(S) \in Nat /\ Cardinality(A) # 0
    BY <1>1, <1>2, FS_CardinalityType, FS_EmptySet
<1> QED
    BY <1>2, <1>3 DEF A

-----------------------------------------------------------------------------
(* The snapshot and the links that were down. *)

LEMMA RecordsFit ==
    ASSUME Bundled, NEW r \in Records
    PROVE  r \in Row /\ r.id.at \in Nat /\ r.id.at <= AsOf /\ r.value \in Value(r.id)
<1>1. r \in Row
    BY DEF Bundled, Records
<1>2. PICK keys \in Tools : r.id \in keys
    BY <1>1 DEF Row
<1> QED
    BY <1>1, <1>2, DiagnosisAssumption DEF Bundled

LEMMA FirstRead ==
    ASSUME Bundled, NEW link, WasDown(link)
    PROVE  \E i \in DownReads : snapshot[i].id.subject = link
<1> DEFINE reads == {i \in DOMAIN snapshot : snapshot[i].id.metric = "oper_state" /\ snapshot[i].id.subject = link}
<1>1. reads \in SUBSET Nat /\ reads # {}
    BY DEF Bundled, WasDown, OperRecords, Records
<1>2. PICK i \in reads : \A j \in reads : i <= j
    BY <1>1, LeastNumber
<1>3. i \in DOMAIN snapshot /\ DOMAIN snapshot = 1 .. Len(snapshot) /\ Len(snapshot) \in Nat
    BY <1>2 DEF Bundled
<1>4. \A j \in 1 .. (i - 1) : snapshot[j].id.metric = "oper_state" => snapshot[j].id.subject # snapshot[i].id.subject
    BY <1>2, <1>3
<1>5. i \in DownReads
    BY <1>2, <1>4 DEF DownReads
<1> QED
    BY <1>2, <1>5

LEMMA DownReadsFinite ==
    ASSUME Bundled
    PROVE  /\ DownReads \in SUBSET Nat /\ IsFiniteSet(DownReads)
           /\ Cardinality(DownReads) \in Nat
           /\ Cardinality(DownReads) = Cardinality({link \in LinksRead : WasDown(link)})
<1>1. DOMAIN snapshot = 1 .. Len(snapshot) /\ Len(snapshot) \in Nat
    BY DEF Bundled
<1>2. IsFiniteSet(DOMAIN snapshot)
    BY <1>1, FS_Interval
<1>3. DownReads \in SUBSET DOMAIN snapshot
    BY DEF DownReads
<1>4. IsFiniteSet(DownReads)
    BY <1>2, <1>3, FS_Subset
<1> DEFINE down == {link \in LinksRead : WasDown(link)}
           subject == [i \in DownReads |-> snapshot[i].id.subject]
<1>5. \A i \in DownReads : subject[i] \in down
    BY <1>3 DEF DownReads, LinksRead, Records
<1>6. \A link \in down : \E i \in DownReads : subject[i] = link
    BY FirstRead
<1>7. \A i, j \in DownReads : subject[i] = subject[j] => i = j
    <2> SUFFICES ASSUME NEW i \in DownReads, NEW j \in DownReads, i < j, subject[i] = subject[j] PROVE FALSE
        BY <1>1, <1>3
    <2>1. i \in 1 .. (j - 1)
        BY <1>1, <1>3
    <2> QED
        BY <2>1 DEF DownReads
<1> HIDE DEF down
<1>8. subject \in Bijection(DownReads, down)
    BY <1>5, <1>6, <1>7 DEF Bijection, Injection, Surjection, IsInjective
<1>9. Cardinality(down) = Cardinality(DownReads)
    BY <1>4, <1>8, FS_Bijection DEF ExistsBijection
<1> QED
    BY <1>1, <1>3, <1>4, <1>9, FS_CardinalityType DEF down

\* Every link that was down has a place in the order.
LEMMA DownLinkHasPlace ==
    ASSUME Bundled, NEW link, WasDown(link)
    PROVE  \E k \in 1 .. Cardinality(DownReads) : LinksInOrder[k] = link
<1>1. PICK i \in DownReads : snapshot[i].id.subject = link
    BY FirstRead
<1> DEFINE rank(p) == Cardinality({j \in DownReads : j <= p})
<1>2. rank(i) \in 1 .. Cardinality(DownReads)
    BY <1>1, DownReadsFinite, RankInRange
<1>3. \A p \in DownReads : rank(p) = rank(i) => p = i
    BY <1>1, DownReadsFinite, RanksDiffer
<1> HIDE DEF rank
<1>4. (CHOOSE p \in DownReads : rank(p) = rank(i)) = i
    BY <1>1, <1>3
<1>5. LinksInOrder[rank(i)] = snapshot[CHOOSE p \in DownReads : rank(p) = rank(i)].id.subject
    BY <1>2 DEF LinksInOrder, rank
<1> QED
    BY <1>1, <1>2, <1>4, <1>5

-----------------------------------------------------------------------------
(* The verdict on an outage. *)

LEMMA EarliestRead ==
    ASSUME Bundled, NEW link, NEW r \in OperRecords(link)
    PROVE  Min({q.id.at : q \in OperRecords(link)}) <= r.id.at
<1> DEFINE times == {q.id.at : q \in OperRecords(link)}
<1>1. times \in SUBSET Nat /\ r.id.at \in times
    BY RecordsFit DEF OperRecords
<1>2. \E x \in times : \A y \in times : x <= y
    BY <1>1, LeastNumber
<1> HIDE DEF times
<1>3. \A y \in times : Min(times) <= y
    BY <1>2 DEF Min
<1> QED
    BY <1>1, <1>3 DEF times

\* The first record of an id is found, and it has that id.
LEMMA FirstFits ==
    ASSUME Bundled, NEW r \in Records
    PROVE  First(r.id) \in Found /\ First(r.id).id = r.id
<1> DEFINE spots == {i \in DOMAIN snapshot : snapshot[i].id = r.id}
<1>1. spots \in SUBSET Nat /\ spots # {}
    BY DEF Bundled, Records
<1>2. \E i \in spots : \A j \in spots : i <= j
    BY <1>1, LeastNumber
<1> HIDE DEF spots
<1>3. Min(spots) \in spots
    BY <1>2 DEF Min
<1>4. First(r.id) = snapshot[Min(spots)]
    BY DEF First, spots
<1>5. First(r.id).id = r.id /\ First(r.id) \in Records
    BY <1>3, <1>4 DEF spots, Records
<1> QED
    BY <1>5 DEF Found

LEMMA SomeReadIsCited ==
    ASSUME Bundled, NEW link
    PROVE  CitedReads(link) # {} <=> OperRecords(link) # {}
<1>1. ASSUME NEW r \in OperRecords(link) PROVE First(r.id) \in CitedReads(link)
    <2>1. r \in Records
        BY DEF OperRecords
    <2>2. First(r.id) \in Found /\ First(r.id).id = r.id /\ First(r.id) \in Records
        BY <2>1, FirstFits DEF Found
    <2> QED
        BY <2>2 DEF OperRecords, CitedReads
<1> QED
    BY <1>1 DEF CitedReads

LEMMA OutageMatches == ASSUME Bundled, NEW link PROVE Matched(SustainedDown(link)) = CitedReads(link)
<1>1. ASSUME NEW r \in CitedReads(link) PROVE r \in Matched(SustainedDown(link))
    <2>1. r \in Records /\ r.id.subject = link /\ r.id.metric = "oper_state" /\ r \in Found /\ r \in OperRecords(link)
        BY DEF OperRecords, CitedReads
    <2>2. r.id.at <= AsOf
        BY <2>1, RecordsFit
    <2>3. Min({q.id.at : q \in OperRecords(link)}) <= r.id.at
        BY <2>1, EarliestRead
    <2> QED
        BY <2>1, <2>2, <2>3 DEF Matched, SustainedDown
<1>2. ASSUME NEW r \in Matched(SustainedDown(link)) PROVE r \in CitedReads(link)
    BY DEF Matched, SustainedDown, OperRecords, CitedReads, Found
<1> QED
    BY <1>1, <1>2

LEMMA OutageVerdict ==
    ASSUME Bundled, NEW link
    PROVE  Committable(Outage(link)) <=> OperRecords(link) # {} /\ ~SeenUp(link)
<1> DEFINE c == SustainedDown(link)
<1>1. /\ c.polarity = TRUE /\ c.sustained = TRUE /\ c.metric = "oper_state"
      /\ c.operator = "<" /\ c.comparison = 1
    BY DEF SustainedDown
<1>2. Matched(c) = CitedReads(link) /\ (CitedReads(link) # {} <=> OperRecords(link) # {})
    BY OutageMatches, SomeReadIsCited
<1> HIDE DEF c
<1>3. \A v : Satisfies(c, v) <=> v < 1
    BY <1>1 DEF Satisfies
<1>4. Holds(c) <=> ~SeenUp(link)
    BY <1>1, <1>2, <1>3 DEF Holds, SeenUp
<1>5. ASSUME NEW r \in CitedReads(link) PROVE Comparable(c, r.value)
    <2>1. r \in Records /\ r.id.metric = "oper_state"
        BY DEF OperRecords, CitedReads
    <2>2. r.value \in Int
        BY <2>1, RecordsFit, DiagnosisAssumption DEF Value
    <2>3. \A v \in Int : v \notin Texts
        BY DiagnosisAssumption
    <2>4. r.value \notin Texts /\ 1 \notin Texts
        BY <2>2, <2>3
    <2> QED
        BY <1>1, <2>4 DEF Comparable, IsNumber
<1>6. Supported(c) <=> OperRecords(link) # {} /\ ~SeenUp(link)
    BY <1>1, <1>2, <1>4, <1>5 DEF Supported
<1>7. Verdicts(<<c>>) = {c}
    BY DEF Verdicts
<1>8. EntailedBy("link_down", c)
    BY <1>1 DEF EntailedBy
<1>9. Outage(link).class = "link_down" /\ Outage(link).claims = <<c>>
    BY DEF Outage, c
<1>10. Committable(Outage(link)) <=> Supported(c)
    <2>1. \E i \in DOMAIN <<c>> : EntailedBy("link_down", <<c>>[i])
        BY <1>8
    <2> QED
        BY <1>7, <1>9, <2>1 DEF Committable, Classes
<1> QED
    BY <1>6, <1>10

-----------------------------------------------------------------------------
(* The steps. *)

LEMMA FallbackInit == Init => FallbackInv
<1> SUFFICES ASSUME Init PROVE FallbackInv
    OBVIOUS
<1>1. Bundled
    BY DEF Init, Bundled, Records
<1> QED
    BY <1>1 DEF Init, FallbackInv, JudgedLast, OutagesOffered, NoneForgotten, OutageCommitted, Committed

\* A record that may be kept.
Admissible == {r \in Row : r.id.at <= AsOf /\ r.value \in Value(r.id)}

LEMMA KeptFits ==
    ASSUME NEW keys \in Tools, NEW kept \in Kept(keys)
    PROVE  kept \in Seq(Admissible) /\ kept \in Seq(Row)
<1> DEFINE causal == {r \in Rows(keys) : r.id.at <= AsOf}
<1>1. causal \in SUBSET Admissible /\ Admissible \in SUBSET Row
    BY DEF Rows, Row, Admissible
<1> HIDE DEF causal
<1>2. PICK n \in 0 .. Limit : kept \in [1 .. n -> causal]
    BY DEF Kept, causal
<1>3. n \in Nat
    BY <1>2, DiagnosisAssumption
<1> QED
    BY <1>1, <1>2, <1>3

LEMMA CollectStep ==
    ASSUME FallbackInv, NEW keys \in Tools, CallTool(keys)
    PROVE  FallbackInv'
<1>1. PICK kept \in Kept(keys) : snapshot' \in {snapshot, snapshot \o kept}
    BY DEF CallTool
<1>2. UNCHANGED <<pc, hypothesizer, committed>> /\ pc = "collect"
    BY DEF CallTool
<1>3. kept \in Seq(Admissible)
    BY <1>1, KeptFits
<1>4. snapshot \in Seq(Admissible)
    BY DEF FallbackInv, Bundled, Records, Admissible
<1>5. snapshot' \in Seq(Admissible)
    <2>1. snapshot \o kept \in Seq(Admissible)
        BY <1>3, <1>4
    <2> QED
        BY <1>1, <1>4, <2>1
<1>6. Bundled'
    <2>1. \A i \in DOMAIN snapshot' : snapshot'[i] \in Admissible
        BY <1>5
    <2>2. snapshot' \in Seq(Row)
        BY <1>5 DEF Admissible
    <2> QED
        BY <2>1, <2>2 DEF Bundled, Records, Value, Admissible
<1>7. committed = <<>>
    BY <1>2 DEF FallbackInv, JudgedLast
<1> QED
    BY <1>2, <1>6, <1>7 DEF FallbackInv, JudgedLast, OutagesOffered, NoneForgotten, OutageCommitted, Committed

\* What is read from a snapshot that stays stays too.
LEMMA SnapshotStays ==
    ASSUME UNCHANGED snapshot
    PROVE  /\ Bundled => Bundled'
           /\ LinksRead' = LinksRead /\ FewWereDown' = FewWereDown
           /\ \A link : WasDown(link)' = WasDown(link) /\ SeenUp(link)' = SeenUp(link) /\ Outage(link)' = Outage(link)
           /\ \A link : OperRecords(link)' = OperRecords(link)
BY DEF Bundled, LinksRead, FewWereDown, WasDown, SeenUp, CitedReads, Found, First, OperRecords, Records, Outage, SustainedDown, Value

LEMMA ModelStep ==
    ASSUME FallbackInv, UNCHANGED <<hypothesizer, snapshot, committed>>, pc # "done",
           \/ pc' \in {"hypothesize", "raised"}
           \/ hypothesizer = "model"
    PROVE  FallbackInv'
BY SnapshotStays DEF FallbackInv, JudgedLast, OutagesOffered, NoneForgotten, OutageCommitted, Committed

LEMMA RulesStep == FallbackInv /\ RulesPropose => FallbackInv'
<1> SUFFICES ASSUME FallbackInv, RulesPropose PROVE FallbackInv'
    OBVIOUS
<1> DEFINE n == Cardinality(DownReads)
           all == [k \in 1 .. n |-> Outage(LinksInOrder[k])]
           S == ToSet(all)
<1>1. /\ pc = "hypothesize" /\ pc' = "test" /\ committed = <<>>
      /\ UNCHANGED <<hypothesizer, snapshot, committed>>
    BY DEF RulesPropose, Propose, FallbackInv, JudgedLast
<1>2. DOMAIN LinksInOrder = 1 .. n /\ n \in Nat
    BY DownReadsFinite DEF LinksInOrder, FallbackInv
<1>3. proposed' = AtMost(MaxHypotheses, all)
    BY <1>2 DEF RulesPropose, Propose
<1>4. all \in Seq(S) /\ Len(all) = n /\ DOMAIN all = 1 .. n
    BY <1>2 DEF ToSet
<1>5. \A k \in 1 .. n : all[k] = Outage(LinksInOrder[k])
    OBVIOUS
<1>6. \A link : Outage(link).subject = link
    BY DEF Outage
<1> HIDE DEF n, all
<1>7. /\ proposed' \in Seq(S) /\ DOMAIN proposed' = 1 .. Len(proposed')
      /\ Len(proposed') = IF MaxHypotheses <= n THEN MaxHypotheses ELSE n
      /\ \A k \in 1 .. Len(proposed') : k \in 1 .. n /\ proposed'[k] = all[k]
    <2> DEFINE cut == AtMost(MaxHypotheses, all)
    <2>1. MaxHypotheses \in Nat
        BY DiagnosisAssumption
    <2>2. /\ cut \in Seq(S)
          /\ Len(cut) = IF MaxHypotheses <= Len(all) THEN MaxHypotheses ELSE Len(all)
          /\ \A k \in 1 .. Len(cut) : k \in DOMAIN all /\ cut[k] = all[k]
        BY <1>4, <2>1, AtMostKeeps
    <2> HIDE DEF cut, S
    <2>3. DOMAIN cut = 1 .. Len(cut)
        BY <2>2
    <2>4. proposed' = cut
        BY <1>3 DEF cut
    <2> QED
        BY <1>4, <2>2, <2>3, <2>4
<1>8. OutagesOffered'
    <2>1. proposed' \in Seq(ToSet(proposed'))
        BY <1>7, InOwnRange
    <2>2. \A k \in DOMAIN proposed' : proposed'[k] = Outage(proposed'[k].subject)
        BY <1>5, <1>6, <1>7
    <2>3. (\A k \in DOMAIN proposed : proposed[k] = Outage(proposed[k].subject))'
        BY <1>1, <2>2 DEF Outage, SustainedDown, OperRecords, Records
    <2> QED
        BY <2>1, <2>3 DEF OutagesOffered
<1>9. NoneForgotten'
    <2> SUFFICES ASSUME FewWereDown', NEW link \in LinksRead', WasDown(link)'
                 PROVE  \E k \in DOMAIN proposed' : proposed'[k].subject = link
        BY <1>1 DEF NoneForgotten
    <2>1. FewWereDown /\ WasDown(link) /\ link \in LinksRead
        BY <1>1 DEF FewWereDown, WasDown, LinksRead, OperRecords, Records
    <2>2. n <= MaxHypotheses
        BY <2>1, DownReadsFinite DEF FallbackInv, FewWereDown, n
    <2>3. PICK k \in 1 .. n : LinksInOrder[k] = link
        BY <2>1, DownLinkHasPlace DEF FallbackInv, n
    <2>4. k \in DOMAIN proposed'
        BY <1>2, <1>7, <2>2, DiagnosisAssumption
    <2> QED
        BY <1>5, <1>6, <1>7, <2>3, <2>4
<1> QED
    BY <1>1, <1>8, <1>9, SnapshotStays DEF FallbackInv, JudgedLast, OutageCommitted, Committed

LEMMA VerdictStep == FallbackInv /\ TestNext => FallbackInv'
<1> SUFFICES ASSUME FallbackInv, TestNext PROVE FallbackInv'
    OBVIOUS
<1>1. /\ pc = "test" /\ proposed # <<>> /\ committed = <<>> /\ proposed' = Tail(proposed)
      /\ UNCHANGED <<hypothesizer, snapshot>>
    BY DEF TestNext, FallbackInv, JudgedLast
<1>2. Bundled /\ Bundled'
    BY <1>1, SnapshotStays DEF FallbackInv
<1>3. CASE hypothesizer # "rules"
    BY <1>1, <1>2, <1>3 DEF TestNext, FallbackInv, JudgedLast, OutagesOffered, NoneForgotten, OutageCommitted
<1>4. CASE hypothesizer = "rules"
    <2>1. PICK S : proposed \in Seq(S) /\ S = ToSet(proposed)
        BY <1>1, <1>4 DEF FallbackInv, OutagesOffered
    <2>2. /\ 1 \in DOMAIN proposed /\ Head(proposed) = proposed[1]
          /\ Tail(proposed) \in Seq(S)
          /\ \A k \in DOMAIN Tail(proposed) : k + 1 \in DOMAIN proposed /\ Tail(proposed)[k] = proposed[k + 1]
          /\ \A k \in DOMAIN proposed : k # 1 => k - 1 \in DOMAIN Tail(proposed) /\ Tail(proposed)[k - 1] = proposed[k]
        BY <1>1, <2>1
    <2> DEFINE link == Head(proposed).subject
    <2>3. Head(proposed) = Outage(link)
        BY <1>1, <1>4, <2>2 DEF FallbackInv, OutagesOffered
    <2>4. Committable(Head(proposed)) <=> OperRecords(link) # {} /\ ~SeenUp(link)
        BY <1>2, <2>3, OutageVerdict
    <2>5. CASE Committable(Head(proposed))
        <3>1. pc' = "done" /\ committed' = <<Head(proposed)>>
            BY <2>5 DEF TestNext
        <3>2. \A h \in Committed' : h.subject = link
            BY <3>1 DEF Committed
        <3>3. OutageCommitted'
            BY <1>1, <2>4, <2>5, <3>2, SnapshotStays DEF OutageCommitted
        <3>4. committed' # <<>>
            BY <3>1
        <3> QED
            BY <1>2, <3>1, <3>3, <3>4 DEF FallbackInv, JudgedLast, OutagesOffered, NoneForgotten
    <2>6. CASE ~Committable(Head(proposed))
        <3>1. UNCHANGED <<pc, committed>>
            BY <2>6 DEF TestNext
        <3>2. OutagesOffered'
            <4>1. proposed' \in Seq(ToSet(proposed'))
                BY <1>1, <2>2, InOwnRange
            <4>2. \A k \in DOMAIN proposed' : proposed'[k] = Outage(proposed'[k].subject)
                BY <1>1, <1>4, <2>2 DEF FallbackInv, OutagesOffered
            <4>3. (\A k \in DOMAIN proposed : proposed[k] = Outage(proposed[k].subject))'
                BY <1>1, <4>2 DEF Outage, SustainedDown, OperRecords, Records
            <4> QED
                BY <4>1, <4>3 DEF OutagesOffered
        <3>3. NoneForgotten'
            <4> SUFFICES ASSUME FewWereDown', NEW l \in LinksRead', WasDown(l)', ~SeenUp(l)'
                         PROVE  \E k \in DOMAIN proposed' : proposed'[k].subject = l
                BY <1>1, <3>1 DEF NoneForgotten
            <4>1. FewWereDown /\ l \in LinksRead /\ WasDown(l) /\ ~SeenUp(l)
                BY <1>1, SnapshotStays
            <4>2. PICK k \in DOMAIN proposed : proposed[k].subject = l
                BY <1>1, <1>4, <4>1 DEF FallbackInv, NoneForgotten
            <4>3. OperRecords(l) # {}
                BY <4>1 DEF WasDown
            <4>4. k # 1
                BY <2>2, <2>4, <2>6, <4>1, <4>2, <4>3
            <4> QED
                BY <1>1, <2>2, <4>2, <4>4
        <3> QED
            BY <1>1, <1>2, <3>1, <3>2, <3>3 DEF FallbackInv, JudgedLast, OutageCommitted, Committed
    <2> QED
        BY <2>5, <2>6
<1> QED
    BY <1>3, <1>4

LEMMA EndStep == FallbackInv /\ Undiagnosed => FallbackInv'
<1> SUFFICES ASSUME FallbackInv, Undiagnosed PROVE FallbackInv'
    OBVIOUS
<1>1. /\ pc = "test" /\ proposed = <<>> /\ pc' = "done" /\ committed = <<>>
      /\ UNCHANGED <<hypothesizer, snapshot, committed>>
    BY DEF Undiagnosed, FallbackInv, JudgedLast
<1>2. NoneForgotten'
    <2>1. DOMAIN proposed = {}
        BY <1>1
    <2>2. hypothesizer = "rules" /\ FewWereDown => \A link \in LinksRead : WasDown(link) => SeenUp(link)
        BY <1>1, <2>1 DEF FallbackInv, NoneForgotten
    <2> SUFFICES ASSUME hypothesizer = "rules", FewWereDown', NEW link \in LinksRead', WasDown(link)' PROVE SeenUp(link)'
        BY <1>1 DEF NoneForgotten
    <2>3. FewWereDown /\ link \in LinksRead /\ WasDown(link)
        BY <1>1 DEF FewWereDown, LinksRead, WasDown, OperRecords, Records
    <2> QED
        BY <1>1, <2>2, <2>3 DEF SeenUp, CitedReads, Found, First, OperRecords, Records
<1> QED
    BY <1>1, <1>2, SnapshotStays DEF FallbackInv, JudgedLast, OutagesOffered, OutageCommitted, Committed, SeenUp, CitedReads, Found, First, OperRecords, Records

LEMMA FallbackStep == FallbackInv /\ [Next]_vars => FallbackInv'
<1> SUFFICES ASSUME FallbackInv, [Next]_vars PROVE FallbackInv'
    OBVIOUS
<1>1. CASE \E keys \in Tools : CallTool(keys)
    BY <1>1, CollectStep
<1>2. CASE Freeze
    BY <1>2, ModelStep DEF Freeze
<1>3. CASE Abstain \/ Answer \/ Malformed \/ Raise
    BY <1>3, ModelStep DEF Abstain, Answer, Malformed, Raise, Charge, Prompting, Propose
<1>4. CASE Undiagnosed
    BY <1>4, EndStep
<1>5. CASE UNCHANGED vars
    <2>1. UNCHANGED <<pc, hypothesizer, snapshot, proposed, committed>>
        BY <1>5 DEF vars
    <2>2. OutagesOffered'
        <3> SUFFICES ASSUME hypothesizer = "rules", pc = "test"
                     PROVE  /\ proposed \in Seq(ToSet(proposed))
                            /\ (\A k \in DOMAIN proposed : proposed[k] = Outage(proposed[k].subject))'
            BY <2>1 DEF OutagesOffered
        <3>1. /\ proposed \in Seq(ToSet(proposed))
              /\ \A k \in DOMAIN proposed : proposed[k] = Outage(proposed[k].subject)
            BY DEF FallbackInv, OutagesOffered
        <3>2. (\A k \in DOMAIN proposed : proposed[k] = Outage(proposed[k].subject))'
            <4> SUFFICES ASSUME NEW k \in DOMAIN proposed' PROVE (proposed[k] = Outage(proposed[k].subject))'
                OBVIOUS
            <4>1. proposed'[k] = Outage(proposed'[k].subject)
                BY <2>1, <3>1
            <4>2. UNCHANGED snapshot
                BY <2>1
            <4> QED
                BY <4>1, <4>2 DEF Outage, SustainedDown, OperRecords, Records
        <3> QED
            BY <3>1, <3>2
    <2>3. NoneForgotten'
        BY <2>1, SnapshotStays DEF FallbackInv, NoneForgotten
    <2>4. OutageCommitted'
        BY <2>1, SnapshotStays DEF FallbackInv, OutageCommitted, Committed
    <2> QED
        BY <2>1, <2>2, <2>3, <2>4, SnapshotStays DEF FallbackInv, JudgedLast
<1> QED
    BY <1>1, <1>2, <1>3, <1>4, <1>5, RulesStep, VerdictStep DEF Next

LEMMA FallbackImplies == FallbackInv => FallbackFindsOutage
<1> SUFFICES ASSUME FallbackInv, hypothesizer = "rules" PROVE FallbackFindsOutage
    BY DEF FallbackFindsOutage
<1>1. ASSUME NEW h \in Committed
      PROVE  WasDown(h.subject) /\ \A r \in CitedReads(h.subject) : r.value < 1
    <2>1. OperRecords(h.subject) # {} /\ \A r \in CitedReads(h.subject) : r.value < 1
        BY DEF FallbackInv, OutageCommitted, SeenUp
    <2>2. CitedReads(h.subject) # {} /\ CitedReads(h.subject) \subseteq OperRecords(h.subject)
        BY <2>1, SomeReadIsCited DEF FallbackInv, CitedReads
    <2> QED
        BY <2>1, <2>2 DEF WasDown
<1>2. pc = "done" /\ committed = <<>> /\ FewWereDown => \A link \in LinksRead : WasDown(link) => SeenUp(link)
    BY DEF FallbackInv, NoneForgotten
<1> QED
    BY <1>1, <1>2 DEF FallbackFindsOutage, FewWereDown, LinksRead, SeenUp

\* The fallback commits a link only if it was down at every read that a claim can cite, and abstains
\* only if every link that was down was up at such a read or there were more of them than it may
\* propose, for any links, tools, values and bounds, and although the ids of the evidence repeat
\* (diagnose.py:117-147, claims.py:51-52, tools.py:97).
THEOREM FallbackIsRight == Spec => []FallbackFindsOutage
BY FallbackInit, FallbackStep, FallbackImplies, PTL DEF Spec

-----------------------------------------------------------------------------
(* The budgets. *)

\* The records kept were all counted, and what is yet to be tested is a sequence.
BudgetInv ==
    /\ TypeOK
    /\ Len(snapshot) <= rows
    /\ proposed \in Seq(ToSet(proposed))

LEMMA BudgetInit == Init => BudgetInv
BY DiagnosisAssumption DEF Init, BudgetInv, TypeOK, Records, ToSet

\* What is proposed is cut to what may be tested.
LEMMA CutToTest ==
    ASSUME NEW hypotheses, hypotheses \in Seq(ToSet(hypotheses)), Propose(hypotheses)
    PROVE  Len(proposed') <= MaxHypotheses /\ (proposed \in Seq(ToSet(proposed)))'
<1> DEFINE S == ToSet(hypotheses)
           cut == AtMost(MaxHypotheses, hypotheses)
<1>1. hypotheses \in Seq(S) /\ proposed' = cut /\ MaxHypotheses \in Nat
    BY DiagnosisAssumption DEF Propose
<1> HIDE DEF S
<1>2. cut \in Seq(S) /\ Len(cut) <= MaxHypotheses
    <2>1. /\ cut \in Seq(S) /\ Len(hypotheses) \in Nat
          /\ Len(cut) = IF MaxHypotheses <= Len(hypotheses) THEN MaxHypotheses ELSE Len(hypotheses)
        BY <1>1, AtMostKeeps
    <2> QED
        BY <1>1, <2>1
<1>3. cut \in Seq(ToSet(cut))
    BY <1>2, InOwnRange
<1> QED
    BY <1>1, <1>2, <1>3

\* A call is counted before it is refused, and its records are kept only if all of them fit.
LEMMA CallStaysInBudget ==
    ASSUME BudgetInv, Bundled, Bundled', NEW keys \in Tools, CallTool(keys)
    PROVE  BudgetInv'
<1>1. PICK kept : /\ calls' = calls + 1 /\ rows' = rows + Len(kept)
                  /\ snapshot' = IF Refused THEN snapshot ELSE snapshot \o kept
                  /\ kept \in Seq(Row)
    <2>1. PICK kept \in Kept(keys) :
              /\ calls' = calls + 1 /\ rows' = rows + Len(kept)
              /\ snapshot' = IF Refused THEN snapshot ELSE snapshot \o kept
        BY DEF CallTool
    <2> QED
        BY <2>1, KeptFits
<1>2. /\ calls \in 0 .. MaxCalls /\ rows \in Nat /\ Len(snapshot) \in Nat /\ Len(kept) \in Nat
      /\ Len(snapshot) <= rows /\ Len(snapshot) <= MaxRows /\ {MaxCalls, MaxRows} \subseteq Nat
    <2>1. calls <= MaxCalls
        BY DEF CallTool
    <2>2. Len(snapshot) \in Nat /\ Len(kept) \in Nat
        BY <1>1 DEF Bundled
    <2> QED
        BY <2>1, <2>2, DiagnosisAssumption DEF BudgetInv, TypeOK
<1>3. /\ calls' \in 0 .. (MaxCalls + 1) /\ rows' \in Nat
      /\ Len(snapshot') <= MaxRows /\ Len(snapshot') <= rows'
    <2>1. CASE Refused
        BY <1>1, <1>2, <2>1
    <2>2. CASE ~Refused
        <3>1. Len(snapshot') = Len(snapshot) + Len(kept) /\ rows' <= MaxRows
            <4>1. snapshot' = snapshot \o kept /\ snapshot \in Seq(Row)
                BY <1>1, <2>2 DEF Bundled
            <4>2. rows' <= MaxRows
                BY <1>1, <1>2, <2>2 DEF Refused
            <4> QED
                BY <1>1, <4>1, <4>2
        <3> QED
            BY <1>1, <1>2, <3>1
    <2> QED
        BY <2>1, <2>2
<1>4. UNCHANGED <<pc, hypothesizer, attempt, used, proposed, committed>>
    BY DEF CallTool, llm
<1> QED
    BY <1>3, <1>4 DEF BudgetInv, TypeOK, Bundled, ToSet

LEMMA BudgetStep ==
    ASSUME BudgetInv, Bundled, Bundled', [Next]_vars
    PROVE  BudgetInv'
<1> USE DEF BudgetInv, TypeOK
<1>1. CASE \E keys \in Tools : CallTool(keys)
    BY <1>1, CallStaysInBudget
<1>2. UNCHANGED snapshot => (\A r \in Records : r.id.at <= AsOf /\ r.value \in Value(r.id))'
    BY DEF Bundled
<1>3. CASE Freeze \/ Undiagnosed \/ UNCHANGED vars
    BY <1>2, <1>3 DEF Freeze, Undiagnosed, vars, toolBudget, llm, ToSet
<1>4. CASE Abstain
    <2>1. Propose(<<>>) /\ UNCHANGED llm
        BY <1>4 DEF Abstain
    <2>2. Len(proposed') <= MaxHypotheses /\ (proposed \in Seq(ToSet(proposed)))'
        <3>1. <<>> \in Seq(ToSet(<<>>))
            BY DEF ToSet
        <3> QED
            BY <2>1, <3>1, CutToTest
    <2> QED
        BY <1>2, <2>1, <2>2 DEF Propose, toolBudget, llm
<1>5. Charge => attempt' \in 0 .. (MaxRepairs + 1) /\ used' \in Nat
    BY DiagnosisAssumption DEF Charge, Stopped
<1>6. CASE Answer
    <2>1. PICK reply \in Replies : Propose(reply)
        BY <1>6 DEF Answer
    <2>2. Len(proposed') <= MaxHypotheses /\ (proposed \in Seq(ToSet(proposed)))'
        BY <2>1, CutToTest, DiagnosisAssumption
    <2> QED
        BY <1>2, <1>5, <1>6, <2>1, <2>2 DEF Answer, Propose, toolBudget
<1>7. CASE Malformed \/ Raise
    BY <1>2, <1>5, <1>7 DEF Malformed, Raise, toolBudget, llm, ToSet
<1>8. CASE RulesPropose
    <2> DEFINE all == [k \in DOMAIN LinksInOrder |-> Outage(LinksInOrder[k])]
    <2>1. Propose(all) /\ UNCHANGED llm
        BY <1>8 DEF RulesPropose
    <2>2. all \in Seq(ToSet(all))
        <3>1. DOMAIN LinksInOrder = 1 .. Cardinality(DownReads) /\ Cardinality(DownReads) \in Nat
            BY DownReadsFinite DEF LinksInOrder
        <3> QED
            BY <3>1 DEF ToSet
    <2> HIDE DEF all
    <2>3. Len(proposed') <= MaxHypotheses /\ (proposed \in Seq(ToSet(proposed)))'
        BY <2>1, <2>2, CutToTest
    <2> QED
        BY <1>2, <2>1, <2>3 DEF Propose, toolBudget, llm
<1>9. CASE TestNext
    <2>1. /\ UNCHANGED <<hypothesizer, snapshot, calls, rows, attempt, used>>
          /\ pc' \in {"test", "done"} /\ committed' \in {committed, <<Head(proposed)>>}
        BY <1>9 DEF TestNext, toolBudget, llm
    <2>2. Len(proposed') <= MaxHypotheses /\ (proposed \in Seq(ToSet(proposed)))'
        <3> DEFINE S == ToSet(proposed)
        <3>1. proposed \in Seq(S) /\ proposed # <<>> /\ proposed' = Tail(proposed)
            BY <1>9 DEF TestNext
        <3> HIDE DEF S
        <3>2. Tail(proposed) \in Seq(S) /\ Len(Tail(proposed)) = Len(proposed) - 1 /\ Len(proposed) \in Nat
            BY <3>1
        <3>3. Tail(proposed) \in Seq(ToSet(Tail(proposed)))
            BY <3>2, InOwnRange
        <3> QED
            BY <3>1, <3>2, <3>3, DiagnosisAssumption
    <2>3. Len(committed') <= 1
        <3>1. CASE committed' = committed
            BY <3>1
        <3>2. CASE committed' = <<Head(proposed)>>
            BY <3>2
        <3> QED
            BY <2>1, <3>1, <3>2
    <2> QED
        BY <1>2, <2>1, <2>2, <2>3
<1> QED
    BY <1>1, <1>3, <1>4, <1>6, <1>7, <1>8, <1>9 DEF Next

\* The evidence of a run stays within the row budget and the causal bound, no more hypotheses than
\* allowed are tested, the model is prompted at most once more than it may repair, and at most one
\* diagnosis is committed, for any tools, costs and replies (tools.py:32-38, llm.py:129-131,
\* diagnose.py:91-94).
THEOREM WithinBudget == Spec => []TypeOK
<1>1. FallbackInv => Bundled
    BY DEF FallbackInv
<1>2. BudgetInv /\ FallbackInv /\ FallbackInv' /\ [Next]_vars => BudgetInv'
    BY <1>1, BudgetStep DEF FallbackInv
<1>3. BudgetInv => TypeOK
    BY DEF BudgetInv
<1> QED
    BY <1>2, <1>3, BudgetInit, FallbackInit, FallbackStep, PTL DEF Spec

-----------------------------------------------------------------------------
(* What is committed is grounded. *)

WellTyped(h) == \A claim \in ToSet(h.claims) : claim.comparison \in Int \cup Texts

\* What the diagnosis of h shows of its subject, by one of its claims.
ShownBy(h, claim) ==
    EntailedBy(h.class, claim) /\ claim.subject = h.subject =>
        \E r \in Records :
            /\ r.id.subject = h.subject
            /\ h.class = "link_down" =>
                   r.id.metric = "oper_state" /\ (claim.comparison <= 1 => r.value <= 1)
            /\ h.class = "bgp_session_down" =>
                   r.id.metric = "bgp_session_state" /\ r.value = claim.comparison

GroundInv ==
    /\ \A h \in ToSet(proposed) : WellTyped(h)
    /\ \A h \in Committed : \A claim \in Verdicts(h.claims) : ShownBy(h, claim)

\* A claim that is supported and entails a class holds at some record that is found by its id.
LEMMA SupportShows ==
    ASSUME NEW claim, NEW class, Supported(claim), EntailedBy(class, claim)
    PROVE  \E r \in Matched(claim) : Satisfies(claim, r.value) /\ Comparable(claim, r.value)
<1>1. /\ claim.polarity /\ Holds(claim) = claim.polarity /\ Matched(claim) # {}
      /\ \A r \in Matched(claim) : Comparable(claim, r.value)
    BY DEF Supported, EntailedBy
<1>2. Holds(claim)
    BY <1>1
<1> QED
    BY <1>1, <1>2 DEF Holds

LEMMA CommittableIsShown ==
    ASSUME Bundled, NEW h, Committable(h), WellTyped(h), NEW claim \in Verdicts(h.claims)
    PROVE  ShownBy(h, claim)
<1> SUFFICES ASSUME EntailedBy(h.class, claim), claim.subject = h.subject PROVE ShownBy(h, claim)
    BY DEF ShownBy
<1>1. PICK r \in Matched(claim) : Satisfies(claim, r.value) /\ Comparable(claim, r.value)
    BY SupportShows DEF Committable
<1>2. r \in Records /\ r.id.subject = h.subject /\ r.id.metric = claim.metric
    BY DEF Matched, Found
<1>3. CASE h.class = "link_down"
    <2>1. claim.metric = "oper_state" /\ claim.operator \in {"<", "<="}
        BY <1>3 DEF EntailedBy
    <2>2. r.value \in Int
        BY <1>2, <2>1, RecordsFit, DiagnosisAssumption DEF Value
    <2>3. claim.comparison \in Int
        <3>1. claim \in ToSet(h.claims)
            BY DEF Verdicts, ToSet
        <3>2. claim.comparison \notin Texts
            BY <1>1, <2>1 DEF Comparable, IsNumber
        <3> QED
            BY <3>1, <3>2 DEF WellTyped
    <2>4. claim.comparison <= 1 => r.value <= 1
        <3>1. r.value < claim.comparison \/ r.value <= claim.comparison
            BY <1>1, <2>1 DEF Satisfies
        <3> QED
            BY <2>2, <2>3, <3>1
    <2> QED
        BY <1>2, <1>3, <2>1, <2>4 DEF ShownBy
<1>4. CASE h.class = "bgp_session_down"
    <2>1. claim.metric = "bgp_session_state" /\ claim.operator = "=="
        BY <1>4 DEF EntailedBy
    <2>2. r.value = claim.comparison
        BY <1>1, <2>1 DEF Satisfies
    <2> QED
        BY <1>2, <1>4, <2>1, <2>2 DEF ShownBy
<1> QED
    BY <1>3, <1>4 DEF Committable, Classes

LEMMA GroundInit == Init => GroundInv
BY DEF Init, GroundInv, Committed, ToSet

LEMMA RecordsStay ==
    ASSUME UNCHANGED snapshot, NEW h, NEW claim
    PROVE  ShownBy(h, claim)' <=> ShownBy(h, claim)
<1>1. Records' = Records
    BY DEF Records
<1> QED
    BY <1>1 DEF ShownBy, EntailedBy

\* What is proposed is cut from a reply, or from the outages that the rules see.
LEMMA ProposalsTyped ==
    ASSUME NEW hypotheses, hypotheses \in Seq(ToSet(hypotheses)), Propose(hypotheses),
           \A h \in ToSet(hypotheses) : WellTyped(h)
    PROVE  \A h \in ToSet(proposed') : WellTyped(h)
<1> DEFINE S == ToSet(hypotheses)
           cut == AtMost(MaxHypotheses, hypotheses)
<1>1. hypotheses \in Seq(S) /\ proposed' = cut /\ MaxHypotheses \in Nat
    BY DiagnosisAssumption DEF Propose
<1> HIDE DEF S
<1>2. cut \in Seq(S)
    BY <1>1, AtMostKeeps
<1>3. ToSet(cut) \subseteq S
    BY <1>2 DEF ToSet
<1> QED
    BY <1>1, <1>3 DEF S

\* A step that commits nothing and leaves the evidence of what was committed.
LEMMA GroundStays ==
    ASSUME GroundInv, JudgedLast, UNCHANGED committed, UNCHANGED snapshot \/ pc # "done",
           \A h \in ToSet(proposed') : WellTyped(h)
    PROVE  GroundInv'
<1>1. committed = <<>> \/ UNCHANGED snapshot
    BY DEF JudgedLast
<1> QED
    BY <1>1 DEF GroundInv, WellTyped, Committed, Verdicts, ShownBy, EntailedBy, Records

LEMMA GroundTest ==
    ASSUME GroundInv, FallbackInv, BudgetInv, TestNext
    PROVE  GroundInv'
<1>1. committed = <<>> /\ UNCHANGED snapshot /\ proposed' = Tail(proposed) /\ proposed # <<>>
    BY DEF FallbackInv, JudgedLast, TestNext
<1> DEFINE S == ToSet(proposed)
<1>2. proposed \in Seq(S)
    BY DEF BudgetInv
<1>3. \A h \in S : WellTyped(h)
    BY DEF GroundInv
<1> HIDE DEF S
<1>4. Head(proposed) \in S /\ Tail(proposed) \in Seq(S)
    BY <1>1, <1>2
<1>5. \A h \in ToSet(proposed') : WellTyped(h)
    <2>1. ToSet(proposed') \subseteq S
        BY <1>1, <1>4 DEF ToSet
    <2> QED
        BY <1>3, <2>1
<1>6. CASE Committable(Head(proposed))
    <2> DEFINE h == Head(proposed)
    <2>1. committed' = <<h>>
        BY <1>6 DEF TestNext
    <2>2. Committed' = {h}
        BY <2>1 DEF Committed
    <2>3. WellTyped(h) /\ Committable(h)
        BY <1>3, <1>4, <1>6
    <2> HIDE DEF h
    <2>4. \A claim \in Verdicts(h.claims) : ShownBy(h, claim)
        BY <2>3, CommittableIsShown DEF FallbackInv
    <2>5. \A g, claim : ShownBy(g, claim)' <=> ShownBy(g, claim)
        BY <1>1, RecordsStay
    <2> QED
        BY <1>5, <2>2, <2>4, <2>5 DEF GroundInv, WellTyped
<1>7. CASE ~Committable(Head(proposed))
    <2>1. committed' = committed
        BY <1>7 DEF TestNext
    <2> QED
        BY <1>1, <1>5, <2>1, GroundStays DEF FallbackInv
<1> QED
    BY <1>6, <1>7

LEMMA GroundStep ==
    ASSUME GroundInv, FallbackInv, BudgetInv, [Next]_vars
    PROVE  GroundInv'
<1>1. JudgedLast
    BY DEF FallbackInv
<1>2. ASSUME UNCHANGED <<proposed, committed>>, UNCHANGED snapshot \/ pc # "done" PROVE GroundInv'
    BY <1>1, <1>2, GroundStays DEF GroundInv
<1>3. CASE \E keys \in Tools : CallTool(keys)
    BY <1>2, <1>3 DEF CallTool
<1>4. CASE Freeze \/ Malformed \/ Raise \/ Undiagnosed
    BY <1>2, <1>4 DEF Freeze, Malformed, Raise, Undiagnosed
<1>5. CASE UNCHANGED vars
    BY <1>2, <1>5 DEF vars
<1>6. ASSUME NEW hypotheses, hypotheses \in Seq(ToSet(hypotheses)), Propose(hypotheses),
             \A h \in ToSet(hypotheses) : WellTyped(h)
      PROVE  GroundInv'
    <2>1. \A h \in ToSet(proposed') : WellTyped(h)
        BY <1>6, ProposalsTyped
    <2>2. UNCHANGED <<snapshot, committed>>
        BY <1>6 DEF Propose
    <2> QED
        BY <1>1, <2>1, <2>2, GroundStays
<1>7. CASE Abstain
    <2>1. <<>> \in Seq(ToSet(<<>>)) /\ \A h \in ToSet(<<>>) : WellTyped(h)
        BY DEF ToSet
    <2> QED
        BY <1>6, <1>7, <2>1 DEF Abstain
<1>8. CASE Answer
    <2>1. PICK reply \in Replies : Propose(reply)
        BY <1>8 DEF Answer
    <2>2. reply \in Seq(ToSet(reply)) /\ \A h \in ToSet(reply) : WellTyped(h)
        BY <2>1, DiagnosisAssumption DEF WellTyped
    <2> QED
        BY <1>6, <2>1, <2>2
<1>9. CASE RulesPropose
    <2> DEFINE all == [k \in DOMAIN LinksInOrder |-> Outage(LinksInOrder[k])]
    <2>1. Propose(all)
        BY <1>9 DEF RulesPropose
    <2>2. all \in Seq(ToSet(all))
        <3>1. DOMAIN LinksInOrder = 1 .. Cardinality(DownReads) /\ Cardinality(DownReads) \in Nat
            BY DownReadsFinite DEF LinksInOrder, FallbackInv
        <3> QED
            BY <3>1 DEF ToSet
    <2>3. \A link : WellTyped(Outage(link))
        BY DEF WellTyped, Outage, SustainedDown, ToSet
    <2>4. \A h \in ToSet(all) : WellTyped(h)
        BY <2>3 DEF ToSet
    <2> HIDE DEF all
    <2> QED
        BY <1>6, <2>1, <2>2, <2>4
<1>10. CASE TestNext
    BY <1>10, GroundTest
<1> QED
    BY <1>3, <1>4, <1>5, <1>7, <1>8, <1>9, <1>10 DEF Next

\* The evidence, the budgets and the diagnosis, in every reachable state.
THEOREM Invariance == Spec => [](FallbackInv /\ BudgetInv /\ GroundInv)
<1>1. FallbackInv => Bundled
    BY DEF FallbackInv
<1>2. BudgetInv /\ FallbackInv /\ FallbackInv' /\ [Next]_vars => BudgetInv'
    BY <1>1, BudgetStep DEF FallbackInv
<1> QED
    BY <1>2, BudgetInit, FallbackInit, FallbackStep, GroundInit, GroundStep, PTL DEF Spec

\* Where a claim that was judged entails the class of a committed diagnosis and is about its subject, a
\* record of that subject in the frozen snapshot shows what it claims: no choice of ids, of cited
\* evidence or of further claims gets around it, for any replies, tools and bounds (claims.py:51-99,
\* diagnose.py:43-48, 95-110).
THEOREM GroundedDiagnosis == Spec => []DiagnosisIsGrounded
<1>1. GroundInv => DiagnosisIsGrounded
    BY DEF GroundInv, ShownBy, DiagnosisIsGrounded
<1> QED
    BY <1>1, Invariance, PTL

-----------------------------------------------------------------------------
(* The stream.  What the counter of a sample shows of what the device has  *)
(* counted since an earlier one.                                           *)

Reading == [t : Nat, value : Nat, down : 0 .. 1, counted : Nat]

Seen == inFlight \cup {arrived[i] : i \in DOMAIN arrived}

\* From one moment to a later one the counter rose by what was counted, or was reset in between.
Follows(value, total, laterValue, laterTotal) ==
    /\ total <= laterTotal
    /\ laterValue - value = laterTotal - total \/ laterValue <= laterTotal - total

StreamTypes ==
    /\ now \in Nat /\ counted \in Nat /\ reading \in Nat
    /\ inFlight \in SUBSET Reading /\ arrived \in Seq(Reading)

SeenFits(s) == s.t \in 1 .. now /\ Follows(s.value, s.counted, reading, counted)

PairFits(a, b) ==
    /\ a.t = b.t => a = b
    /\ a.t < b.t => Follows(a.value, a.counted, b.value, b.counted)

StreamInv ==
    /\ StreamTypes
    /\ \A s \in Seen : SeenFits(s)
    /\ \A a, b \in Seen : PairFits(a, b)

LEMMA StreamStarts == StreamInit => StreamInv
BY DEF StreamInit, StreamInv, StreamTypes, Seen

LEMMA StreamScrapes == StreamInv /\ Scrape => StreamInv'
<1> SUFFICES ASSUME StreamInv, Scrape PROVE StreamInv'
    OBVIOUS
<1>1. PICK k \in Increments, reset \in BOOLEAN, down \in 0 .. 1 :
          /\ counted' = counted + k
          /\ reading' = IF reset THEN k ELSE reading + k
          /\ inFlight' = inFlight \cup {[t |-> now + 1, value |-> reading', down |-> down, counted |-> counted']}
    BY DEF Scrape
<1>2. k \in Nat /\ now' = now + 1 /\ arrived' = arrived /\ StreamTypes
    BY TelemetryAssumption DEF Scrape, StreamInv
<1>3. now' \in Nat /\ counted' \in Nat /\ reading' \in Nat
    BY <1>1, <1>2 DEF StreamTypes
<1>4. PICK new \in Reading : /\ inFlight' = inFlight \cup {new}
                             /\ new.t = now + 1 /\ new.value = reading' /\ new.counted = counted'
    <2> DEFINE fresh == [t |-> now + 1, value |-> reading', down |-> down, counted |-> counted']
    <2>1. fresh \in Reading
        BY <1>1, <1>2, <1>3 DEF Reading, StreamTypes
    <2>2. /\ inFlight' = inFlight \cup {fresh}
          /\ fresh.t = now + 1 /\ fresh.value = reading' /\ fresh.counted = counted'
        BY <1>1
    <2> HIDE DEF fresh
    <2> QED
        BY <2>1, <2>2
<1>5. StreamTypes'
    BY <1>1, <1>2, <1>3, <1>4 DEF StreamTypes
<1>6. Seen' = Seen \cup {new} /\ Seen \in SUBSET Reading
    BY <1>2, <1>4 DEF Seen, StreamTypes
<1>8. ASSUME NEW s \in Seen
      PROVE  s.t \in 1 .. now /\ Follows(s.value, s.counted, reading', counted')
    <2>1. /\ s.value \in Nat /\ s.counted \in Nat /\ s.t \in 1 .. now
          /\ s.counted <= counted
          /\ reading - s.value = counted - s.counted \/ reading <= counted - s.counted
        BY <1>6 DEF StreamInv, SeenFits, Follows, Reading
    <2>2. /\ counted \in Nat /\ reading \in Nat /\ now \in Nat
          /\ counted' = counted + k /\ (reading' = k \/ reading' = reading + k)
        BY <1>1, <1>2 DEF StreamTypes
    <2>3. CASE reading' = k
        BY <1>2, <2>1, <2>2, <2>3 DEF Follows
    <2>4. CASE reading' = reading + k
        BY <1>2, <2>1, <2>2, <2>4 DEF Follows
    <2> QED
        BY <2>2, <2>3, <2>4
<1>9. \A s \in Seen' : SeenFits(s)'
    <2>1. (new.t \in 1 .. now /\ Follows(new.value, new.counted, reading, counted))'
        <3>1. new.t \in 1 .. now'
            BY <1>2, <1>4 DEF StreamTypes
        <3>2. Follows(reading', counted', reading', counted')
            <4>1. \A v, n \in Nat : Follows(v, n, v, n)
                BY DEF Follows
            <4> QED
                BY <1>3, <4>1
        <3> QED
            BY <1>4, <3>1, <3>2
    <2>2. \A s \in Seen : SeenFits(s)'
        BY <1>2, <1>8 DEF SeenFits, StreamTypes
    <2> QED
        BY <1>6, <2>1, <2>2 DEF SeenFits
<1>10. \A a, b \in Seen' : PairFits(a, b)
    <2>1. \A a, b \in Seen : PairFits(a, b)
        BY DEF StreamInv
    <2>2. \A a \in Seen : PairFits(a, new)
        BY <1>2, <1>4, <1>8 DEF PairFits, StreamTypes
    <2>3. \A b \in Seen : PairFits(new, b)
        BY <1>2, <1>4, <1>8 DEF PairFits, StreamTypes
    <2>4. PairFits(new, new)
        BY <1>4 DEF PairFits, Reading
    <2> QED
        BY <1>6, <2>1, <2>2, <2>3, <2>4
<1> QED
    BY <1>5, <1>9, <1>10 DEF StreamInv, PairFits

LEMMA StreamSteps == StreamInv /\ [StreamNext]_stream => StreamInv'
<1> SUFFICES ASSUME StreamInv, [StreamNext]_stream PROVE StreamInv'
    OBVIOUS
<1>1. CASE Scrape
    BY <1>1, StreamScrapes
<1>2. CASE UNCHANGED stream
    BY <1>2 DEF stream, StreamInv, StreamTypes, Seen, SeenFits, PairFits
<1>3. ASSUME StreamTypes', Seen' \subseteq Seen, UNCHANGED <<now, counted, reading>>
      PROVE  StreamInv'
    BY <1>3 DEF StreamInv, SeenFits, PairFits
<1>4. CASE \E s \in inFlight : Arrive(s)
    <2>1. PICK s \in inFlight : Arrive(s)
        BY <1>4
    <2>2. arrived \in Seq(Reading) /\ s \in Reading /\ arrived' = Append(arrived, s)
        BY <2>1 DEF Arrive, StreamInv, StreamTypes
    <2>3. /\ arrived' \in Seq(Reading) /\ Len(arrived) \in Nat
          /\ DOMAIN arrived' = 1 .. Len(arrived) + 1
          /\ \A i \in DOMAIN arrived' : arrived'[i] = IF i \in DOMAIN arrived THEN arrived[i] ELSE s
        BY <2>2
    <2>4. inFlight' \subseteq inFlight /\ UNCHANGED <<now, counted, reading>>
        BY <2>1 DEF Arrive
    <2>5. StreamTypes'
        BY <2>3, <2>4 DEF StreamInv, StreamTypes
    <2>6. Seen' \subseteq Seen
        BY <2>3, <2>4 DEF Seen
    <2> QED
        BY <1>3, <2>4, <2>5, <2>6
<1>5. CASE \E s \in inFlight : Lose(s)
    <2>1. inFlight' \subseteq inFlight /\ UNCHANGED <<now, counted, reading, arrived>>
        BY <1>5 DEF Lose
    <2> QED
        BY <1>3, <2>1 DEF StreamInv, StreamTypes, Seen
<1> QED
    BY <1>1, <1>2, <1>4, <1>5 DEF StreamNext

THEOREM StreamInvariance == StreamSpec => []StreamInv
BY StreamStarts, StreamSteps, PTL DEF StreamSpec

-----------------------------------------------------------------------------
(* The ends of a window. *)

LEMMA EndsOf ==
    ASSUME NEW w, NEW N \in Nat, DOMAIN w \in SUBSET (1 .. N), DOMAIN w # {},
           NEW M \in Nat, \A i \in DOMAIN w : w[i].t \in 0 .. M
    PROVE  /\ \E i \in DOMAIN w : Earliest(w) = w[i] /\ \A j \in DOMAIN w : w[i].t <= w[j].t
           /\ \E i \in DOMAIN w : Latest(w) = w[i] /\ \A j \in DOMAIN w : w[j].t <= w[i].t
<1> DEFINE NoneBefore(i) == \A j \in DOMAIN w : w[i].t < w[j].t \/ (w[i].t = w[j].t /\ i <= j)
           NoneAfter(i) == \A j \in DOMAIN w : w[i].t > w[j].t \/ (w[i].t = w[j].t /\ i >= j)
<1>1. \A i \in DOMAIN w : i \in Nat /\ i <= N /\ w[i].t \in Nat /\ w[i].t <= M
    OBVIOUS
<1>2. \E i \in DOMAIN w : NoneBefore(i)
    <2>1. PICK least \in {w[i].t : i \in DOMAIN w} : \A u \in {w[i].t : i \in DOMAIN w} : least <= u
        <3>1. {w[i].t : i \in DOMAIN w} \in SUBSET Nat /\ {w[i].t : i \in DOMAIN w} # {}
            BY <1>1
        <3> QED
            BY <3>1, LeastNumber
    <2>2. PICK i \in {k \in DOMAIN w : w[k].t = least} : \A j \in {k \in DOMAIN w : w[k].t = least} : i <= j
        <3>1. {k \in DOMAIN w : w[k].t = least} \in SUBSET Nat /\ {k \in DOMAIN w : w[k].t = least} # {}
            BY <1>1, <2>1
        <3> QED
            BY <3>1, LeastNumber
    <2>3. ASSUME NEW j \in DOMAIN w PROVE w[i].t < w[j].t \/ (w[i].t = w[j].t /\ i <= j)
        <3>1. i \in DOMAIN w /\ w[i].t = least /\ least <= w[j].t
            BY <2>1, <2>2
        <3>2. w[j].t = least => i <= j
            BY <2>2
        <3> QED
            BY <1>1, <3>1, <3>2
    <2> QED
        BY <2>2, <2>3
<1>3. \E i \in DOMAIN w : NoneAfter(i)
    <2>1. PICK least \in {M - w[i].t : i \in DOMAIN w} : \A u \in {M - w[i].t : i \in DOMAIN w} : least <= u
        <3>1. \A i \in DOMAIN w : M - w[i].t \in Nat
            BY <1>1
        <3>2. {M - w[i].t : i \in DOMAIN w} \in SUBSET Nat /\ {M - w[i].t : i \in DOMAIN w} # {}
            BY <3>1
        <3> QED
            BY <3>2, LeastNumber
    <2> DEFINE late == {k \in DOMAIN w : M - w[k].t = least}
    <2>2. PICK d \in {N - k : k \in late} : \A e \in {N - k : k \in late} : d <= e
        <3>1. \A k \in late : N - k \in Nat
            BY <1>1
        <3>2. late # {}
            BY <2>1
        <3> HIDE DEF late
        <3>3. {N - k : k \in late} \in SUBSET Nat /\ {N - k : k \in late} # {}
            BY <3>1, <3>2
        <3> QED
            BY <3>3, LeastNumber
    <2>3. PICK i \in late : d = N - i
        OBVIOUS
    <2>4. ASSUME NEW j \in DOMAIN w PROVE w[i].t > w[j].t \/ (w[i].t = w[j].t /\ i >= j)
        <3>1. M - w[i].t = least /\ least <= M - w[j].t /\ i \in DOMAIN w
            BY <2>1, <2>3
        <3>2. j \in late => N - i <= N - j
            BY <2>2, <2>3
        <3>3. w[j].t = w[i].t => j \in late
            BY <3>1
        <3> HIDE DEF late
        <3> QED
            BY <1>1, <3>1, <3>2, <3>3
    <2> QED
        BY <2>3, <2>4
<1>4. PICK i \in DOMAIN w : NoneBefore(i) /\ Earliest(w) = w[i]
    BY <1>2 DEF Earliest
<1>5. PICK k \in DOMAIN w : NoneAfter(k) /\ Latest(w) = w[k]
    BY <1>3 DEF Latest
<1>6. \A j \in DOMAIN w : w[i].t <= w[j].t
    BY <1>1, <1>4
<1>7. \A j \in DOMAIN w : w[j].t <= w[k].t
    BY <1>1, <1>5
<1> QED
    BY <1>4, <1>5, <1>6, <1>7

LEMMA WindowIs ==
    ASSUME NEW samples, NEW asOf
    PROVE  /\ DOMAIN Window(samples, asOf) = {i \in DOMAIN samples : asOf - Width <= samples[i].t /\ samples[i].t <= asOf}
           /\ \A i \in DOMAIN Window(samples, asOf) : Window(samples, asOf)[i] = samples[i]
BY DEF Window, Restrict

\* What a rate rises by is no more than what was counted between the ends of its window.
LEMMA RateBounded ==
    ASSUME StreamInv, NEW asOf \in Nat, DOMAIN Window(arrived, asOf) # {}
    PROVE  LET w == Window(arrived, asOf) IN Rate(w).rise <= Latest(w).counted - Earliest(w).counted
<1> DEFINE w == Window(arrived, asOf)
<1>1. arrived \in Seq(Reading) /\ Len(arrived) \in Nat /\ DOMAIN arrived = 1 .. Len(arrived) /\ now \in Nat
    BY DEF StreamInv, StreamTypes
<1>2. DOMAIN w \in SUBSET (1 .. Len(arrived)) /\ \A i \in DOMAIN w : w[i] = arrived[i] /\ arrived[i] \in Seen
    BY <1>1, WindowIs DEF Seen
<1>3. \A i \in DOMAIN w : w[i].t \in 0 .. now /\ w[i] \in Reading
    BY <1>1, <1>2 DEF StreamInv, SeenFits
<1>4. DOMAIN w # {}
    OBVIOUS
<1> HIDE DEF w
<1>5. PICK i \in DOMAIN w : Earliest(w) = w[i] /\ \A j \in DOMAIN w : w[i].t <= w[j].t
    BY <1>1, <1>2, <1>3, <1>4, EndsOf
<1>6. PICK k \in DOMAIN w : Latest(w) = w[k] /\ \A j \in DOMAIN w : w[j].t <= w[k].t
    BY <1>1, <1>2, <1>3, <1>4, EndsOf
<1> DEFINE a == w[i]
           b == w[k]
<1>7. a \in Reading /\ b \in Reading /\ a.t <= b.t /\ PairFits(a, b)
    BY <1>2, <1>3, <1>5, <1>6 DEF StreamInv
<1>8. Earliest(w) = a /\ Latest(w) = b
    BY <1>5, <1>6
<1> HIDE DEF a, b
<1>9. /\ a.t \in Nat /\ b.t \in Nat /\ a.value \in Nat /\ b.value \in Nat /\ a.counted \in Nat /\ b.counted \in Nat
    BY <1>7 DEF Reading
<1>10. a.counted <= b.counted
    BY <1>7, <1>9 DEF PairFits, Follows
<1>11. a.t < b.t => b.value - a.value <= b.counted - a.counted
    BY <1>7, <1>9 DEF PairFits, Follows
<1>12. Rate(w).rise = 0 \/ (b.t - a.t > 0 /\ Rate(w).rise = b.value - a.value)
    <2>1. Rate(w).rise = IF Cardinality(DOMAIN w) < 2 THEN 0
                         ELSE IF b.t - a.t <= 0 THEN 0 ELSE Rise(a, b)
        BY <1>8 DEF Rate
    <2>2. Rise(a, b) = 0 \/ Rise(a, b) = b.value - a.value
        BY DEF Rise
    <2> QED
        BY <1>9, <2>1, <2>2
<1>13. Rate(w).rise <= b.counted - a.counted
    BY <1>9, <1>10, <1>11, <1>12
<1> QED
    BY <1>8, <1>13 DEF w

-----------------------------------------------------------------------------
(* The deltas and their sum. *)

LEMMA AcceptKeeps ==
    ASSUME NEW prev \in Reading, NEW s \in Reading
    PROVE  /\ s.t <= prev.t => Accept(prev, s).prev = (IF s.t = prev.t THEN s ELSE prev) /\ Accept(prev, s).out.delta = 0
           /\ s.t > prev.t => Accept(prev, s).prev = s
                              /\ Accept(prev, s).out.delta = IF s.value < prev.value THEN s.value ELSE s.value - prev.value
           /\ Accept(prev, s).prev \in {prev, s} /\ Accept(prev, s).out.delta \in Int
<1>1. s.t \in Nat /\ prev.t \in Nat /\ s.value \in Nat /\ prev.value \in Nat
    BY DEF Reading
<1>2. CASE s.t <= prev.t
    <2>1. Accept(prev, s) = [prev |-> IF s.t = prev.t THEN s ELSE prev, out |-> Delta(prev, s, 0, "duplicate")]
        BY <1>1, <1>2 DEF Accept
    <2> QED
        BY <1>1, <1>2, <2>1 DEF Delta
<1>3. CASE s.t > prev.t /\ s.value < prev.value
    <2>1. Accept(prev, s) = [prev |-> s, out |-> Delta(prev, s, s.value, "reset")]
        BY <1>1, <1>3 DEF Accept
    <2> QED
        BY <1>1, <1>3, <2>1 DEF Delta
<1>4. CASE s.t > prev.t /\ ~(s.value < prev.value)
    <2>1. Accept(prev, s) = [prev |-> s, out |-> Delta(prev, s, s.value - prev.value,
                                                       IF s.t - prev.t > MaxGap THEN "gap" ELSE "ok")]
        BY <1>1, <1>4 DEF Accept
    <2> QED
        BY <1>1, <1>4, <2>1 DEF Delta
<1> QED
    BY <1>1, <1>2, <1>3, <1>4

LEMMA TurnsOf ==
    ASSUME NEW samples \in Seq(Reading), samples # <<>>
    PROVE  \E prev :
              /\ prev[1] = samples[1]
              /\ \A n \in 1 .. Len(samples) : prev[n] \in Reading
              /\ \A n \in 2 .. Len(samples) : prev[n] = Accept(prev[n - 1], samples[n]).prev
              /\ CounterDeltas(samples) = [n \in 1 .. Len(samples) - 1 |-> Accept(prev[n], samples[n + 1]).out]
<1> DEFINE N == Len(samples)
           Turn(b) == [n \in 1 .. N |-> IF n = 1 THEN samples[1] ELSE Accept(b[n - 1], samples[n]).prev]
           prev == CHOOSE b : b = Turn(b)
<1>1. CounterDeltas(samples) = [n \in 1 .. N - 1 |-> Accept(prev[n], samples[n + 1]).out]
    BY DEF CounterDeltas
<1>2. N \in Nat \ {0} /\ \A n \in 1 .. N : samples[n] \in Reading
    OBVIOUS
<1> HIDE DEF N
<1>3. prev = Turn(prev)
    <2> DEFINE step == [p \in (1 .. N) \X Reading |-> Accept(p[2], samples[p[1]]).prev]
    <2>1. step \in [(1 .. N) \X Reading -> Reading] /\ samples[1] \in Reading
        BY <1>2, AcceptKeeps
    <2>2. \A p \in (1 .. N) \X Reading : step[p] = Accept(p[2], samples[p[1]]).prev
        OBVIOUS
    <2> HIDE DEF step
    <2>3. PICK f \in [1 .. N -> Reading] :
              \A n \in 1 .. N : f[n] = IF n = 1 THEN samples[1] ELSE step[<<n, f[n - 1]>>]
        <3>1. N \in Nat /\ N \in 1 .. N
            BY <1>2
        <3>2. \E f : Looped(f, N, Reading, samples[1], step)
            BY <2>1, <3>1, LoopExists
        <3> QED
            BY <3>2 DEF Looped
    <2>4. ASSUME NEW n \in 1 .. N PROVE f[n] = Turn(f)[n]
        <3>1. n # 1 => n - 1 \in 1 .. N /\ f[n - 1] \in Reading
            BY <1>2, <2>3
        <3> QED
            BY <1>2, <2>2, <2>3, <3>1
    <2>5. f = Turn(f)
        BY <2>3, <2>4
    <2> HIDE DEF Turn
    <2> QED
        BY <2>5
<1>4. \A n \in 1 .. N : prev[n] = IF n = 1 THEN samples[1] ELSE Accept(prev[n - 1], samples[n]).prev
    BY <1>3
<1> HIDE DEF prev
<1> DEFINE wrong == {n \in 1 .. N : prev[n] \notin Reading}
<1>5. ASSUME wrong # {} PROVE FALSE
    <2>1. PICK n \in wrong : \A k \in wrong : n <= k
        <3>1. wrong \in SUBSET Nat
            OBVIOUS
        <3> HIDE DEF wrong
        <3> QED
            BY <1>5, <3>1, LeastNumber
    <2>2. n # 1
        BY <1>2, <1>4, <2>1
    <2>3. n - 1 \in 1 .. N /\ n - 1 \notin wrong
        BY <1>2, <2>1, <2>2
    <2>4. prev[n - 1] \in Reading /\ samples[n] \in Reading
        BY <1>2, <2>1, <2>3
    <2>5. Accept(prev[n - 1], samples[n]).prev \in Reading
        BY <2>4, AcceptKeeps
    <2> QED
        BY <1>4, <2>1, <2>2, <2>5
<1>6. prev[1] = samples[1] /\ \A n \in 2 .. N : prev[n] = Accept(prev[n - 1], samples[n]).prev
    BY <1>2, <1>4
<1> QED
    BY <1>1, <1>5, <1>6 DEF N

LEMMA TotalIs ==
    ASSUME NEW ds, Len(ds) \in Nat, \A n \in 1 .. Len(ds) : ds[n].delta \in Int
    PROVE  \E sum : /\ sum[0] = 0
                    /\ \A n \in 1 .. Len(ds) : sum[n] = sum[n - 1] + ds[n].delta
                    /\ Total(ds) = sum[Len(ds)]
<1> DEFINE N == Len(ds)
           Sum(b) == [n \in 0 .. N |-> IF n = 0 THEN 0 ELSE b[n - 1] + ds[n].delta]
           sum == CHOOSE b : b = Sum(b)
<1>1. Total(ds) = sum[N]
    BY DEF Total
<1>2. N \in Nat /\ \A n \in 1 .. N : ds[n].delta \in Int
    OBVIOUS
<1> HIDE DEF N
<1>3. sum = Sum(sum)
    <2> DEFINE step == [p \in (1 .. N + 1) \X Int |-> IF p[1] = 1 THEN p[2] ELSE p[2] + ds[p[1] - 1].delta]
    <2>1. step \in [(1 .. N + 1) \X Int -> Int]
        <3>1. \A p \in (1 .. N + 1) \X Int : p[1] # 1 => p[1] - 1 \in 1 .. N
            BY <1>2
        <3> QED
            BY <1>2, <3>1
    <2>2. \A p \in (1 .. N + 1) \X Int : step[p] = IF p[1] = 1 THEN p[2] ELSE p[2] + ds[p[1] - 1].delta
        OBVIOUS
    <2> HIDE DEF step
    <2>3. PICK f \in [1 .. N + 1 -> Int] :
              \A n \in 1 .. N + 1 : f[n] = IF n = 1 THEN 0 ELSE step[<<n, f[n - 1]>>]
        <3>1. N + 1 \in Nat /\ N + 1 \in 1 .. N + 1 /\ 0 \in Int
            BY <1>2
        <3>2. \E f : Looped(f, N + 1, Int, 0, step)
            BY <2>1, <3>1, LoopExists
        <3> QED
            BY <3>2 DEF Looped
    <2> DEFINE g == [n \in 0 .. N |-> f[n + 1]]
    <2>4. ASSUME NEW n \in 0 .. N PROVE g[n] = Sum(g)[n]
        <3>1. CASE n = 0
            <4>1. 1 \in 1 .. N + 1 /\ 0 \in 0 .. N
                BY <1>2
            <4>2. f[1] = 0
                BY <2>3, <4>1
            <4>3. g[0] = f[1] /\ Sum(g)[0] = 0
                BY <4>1
            <4> HIDE DEF g, Sum
            <4> QED
                BY <3>1, <4>2, <4>3
        <3>2. CASE n # 0
            <4>1. n + 1 \in 1 .. N + 1 /\ n \in 1 .. N + 1 /\ n + 1 # 1 /\ (n + 1) - 1 = n /\ f[n] \in Int
                BY <1>2, <2>3, <3>2
            <4>2. f[n + 1] = step[<<n + 1, f[n]>>]
                BY <2>3, <4>1
            <4>3. step[<<n + 1, f[n]>>] = f[n] + ds[n].delta
                BY SMTT(30), <2>2, <4>1
            <4>4. n - 1 \in 0 .. N /\ (n - 1) + 1 = n
                BY <1>2, <3>2
            <4>5. g[n] = f[n + 1] /\ g[n - 1] = f[n]
                BY <4>4
            <4> QED
                BY <3>2, <4>2, <4>3, <4>5
        <3> QED
            BY <3>1, <3>2
    <2>5. g = Sum(g)
        BY <2>4
    <2> HIDE DEF Sum, g
    <2> QED
        BY <2>5
<1>4. \A n \in 0 .. N : sum[n] = IF n = 0 THEN 0 ELSE sum[n - 1] + ds[n].delta
    BY <1>3
<1> HIDE DEF sum
<1>5. sum[0] = 0 /\ \A n \in 1 .. N : sum[n] = sum[n - 1] + ds[n].delta
    BY <1>2, <1>4
<1> QED
    BY <1>1, <1>5 DEF N

\* The deltas add up to no more than was counted between the first sample and the newest.
LEMMA TotalBounded ==
    ASSUME NEW samples \in Seq(Reading), samples # <<>>, NEW M \in Nat,
           \A i \in 1 .. Len(samples) : samples[i].t \in 0 .. M,
           \A i, j \in 1 .. Len(samples) : PairFits(samples[i], samples[j])
    PROVE  Total(CounterDeltas(samples)) <= Latest(samples).counted - Head(samples).counted
<1> DEFINE N == Len(samples)
           ds == CounterDeltas(samples)
<1>1. /\ N \in Nat \ {0} /\ DOMAIN samples = 1 .. N
      /\ \A i \in 1 .. N : samples[i] \in Reading /\ samples[i].t \in 0 .. M
      /\ \A i, j \in 1 .. N : PairFits(samples[i], samples[j])
      /\ Head(samples) = samples[1]
    OBVIOUS
<1>2. PICK prev : /\ prev[1] = samples[1]
                  /\ \A n \in 1 .. N : prev[n] \in Reading
                  /\ \A n \in 2 .. N : prev[n] = Accept(prev[n - 1], samples[n]).prev
                  /\ ds = [n \in 1 .. N - 1 |-> Accept(prev[n], samples[n + 1]).out]
    BY TurnsOf
<1>3. Len(ds) = N - 1 /\ \A n \in 1 .. N - 1 : ds[n].delta = Accept(prev[n], samples[n + 1]).out.delta
    BY <1>1, <1>2
<1> HIDE DEF N, ds
<1>4. ASSUME NEW n \in 1 .. N - 1 PROVE ds[n].delta \in Int
    <2>1. prev[n] \in Reading /\ samples[n + 1] \in Reading
        BY <1>1, <1>2
    <2>2. Accept(prev[n], samples[n + 1]).out.delta \in Int
        BY <2>1, AcceptKeeps
    <2> QED
        BY <1>3, <2>2
<1>5. PICK sum : /\ sum[0] = 0
                 /\ \A n \in 1 .. N - 1 : sum[n] = sum[n - 1] + ds[n].delta
                 /\ Total(ds) = sum[N - 1]
    <2>1. Len(ds) \in Nat
        BY <1>1, <1>3
    <2> QED
        BY <1>3, <1>4, <2>1, TotalIs
<1> DEFINE Bounded(n) == /\ \E i \in 1 .. n : prev[n] = samples[i]
                       /\ \A j \in 1 .. n : samples[j].t <= prev[n].t
                       /\ sum[n - 1] \in Int /\ sum[n - 1] <= prev[n].counted - samples[1].counted
           failing == {n \in 1 .. N : ~Bounded(n)}
<1>6. ASSUME failing # {} PROVE FALSE
    <2>1. PICK n \in failing : \A k \in failing : n <= k
        <3>1. failing \in SUBSET Nat
            OBVIOUS
        <3> HIDE DEF failing
        <3> QED
            BY <1>6, <3>1, LeastNumber
    <2>2. n \in 1 .. N /\ ~Bounded(n)
        OBVIOUS
    <2>3. CASE n = 1
        <3>1. /\ samples[1].t \in Nat /\ samples[1].counted \in Nat /\ \A j \in 1 .. 1 : j = 1
              /\ 1 \in 1 .. 1 /\ sum[1 - 1] = 0
            BY <1>1, <1>5 DEF Reading
        <3>2. Bounded(1)
            BY <1>2, <3>1
        <3> QED
            BY <2>2, <2>3, <3>2
    <2>4. CASE n # 1
        <3> DEFINE p == prev[n - 1]
                   s == samples[n]
                   total == sum[n - 2]
        <3>0. n \in 1 .. N
            BY <2>2
        <3>1. n - 1 \in 1 .. N /\ n - 1 \notin failing /\ n \in 2 .. N /\ n - 1 \in 1 .. N - 1
            <4> HIDE DEF failing
            <4> QED
                BY <1>1, <2>1, <2>4, <3>0
        <3>2. Bounded(n - 1) /\ (n - 1) - 1 = n - 2
            BY <3>1
        <3>3. PICK i \in 1 .. n - 1 : p = samples[i]
            BY <3>2
        <3>4. /\ \A j \in 1 .. n - 1 : samples[j].t <= p.t
              /\ total \in Int /\ total <= p.counted - samples[1].counted
            BY <3>2
        <3>5. prev[n] = Accept(p, s).prev /\ sum[n - 1] = total + Accept(p, s).out.delta
            <4>1. sum[n - 1] = sum[(n - 1) - 1] + ds[n - 1].delta
                BY <1>5, <3>1
            <4>2. ds[n - 1].delta = Accept(prev[n - 1], samples[(n - 1) + 1]).out.delta /\ (n - 1) + 1 = n
                BY <1>3, <3>1
            <4> QED
                BY <1>2, <3>1, <3>2, <4>1, <4>2
        <3>6. p \in Reading /\ s \in Reading /\ PairFits(p, s) /\ i \in 1 .. n
            BY <1>1, <2>2, <3>1, <3>3
        <3>7. \A j \in 1 .. n : j = n \/ j \in 1 .. n - 1
            BY <3>1
        <3>8. n \in 1 .. n
            BY <2>2
        <3> HIDE DEF p, total
        <3>9. /\ p.t \in Nat /\ s.t \in Nat /\ p.value \in Nat /\ s.value \in Nat
              /\ p.counted \in Nat /\ s.counted \in Nat /\ samples[1].counted \in Nat
            BY <1>1, <3>6 DEF Reading
        <3>10. CASE s.t <= p.t
            <4>1. prev[n] = p /\ sum[n - 1] = total
                <5>1. prev[n] = (IF s.t = p.t THEN s ELSE p) /\ sum[n - 1] = total + 0
                    <6> HIDE DEF s
                    <6> QED
                        BY <3>5, <3>6, <3>10, AcceptKeeps
                <5>2. s.t = p.t => s = p
                    BY <3>6 DEF PairFits
                <5> QED
                    BY <3>4, <5>1, <5>2
            <4>2. \A j \in 1 .. n : samples[j].t <= p.t
                BY <3>4, <3>7, <3>10
            <4>3. Bounded(n)
                BY <3>3, <3>4, <3>6, <4>1, <4>2
            <4> QED
                BY <2>2, <4>3
        <3>11. CASE s.t > p.t
            <4>1. /\ prev[n] = s
                  /\ sum[n - 1] = total + IF s.value < p.value THEN s.value ELSE s.value - p.value
                BY <3>5, <3>6, <3>11, AcceptKeeps
            <4>2. /\ s.counted >= p.counted
                  /\ s.value - p.value = s.counted - p.counted \/ s.value <= s.counted - p.counted
                BY <3>6, <3>9, <3>11 DEF PairFits, Follows
            <4>3. sum[n - 1] \in Int /\ sum[n - 1] <= s.counted - samples[1].counted
                <5>1. PICK d : d = IF s.value < p.value THEN s.value ELSE s.value - p.value
                    OBVIOUS
                <5>2. d \in Int /\ d <= s.counted - p.counted
                    <6> HIDE DEF s
                    <6> QED
                        BY <3>9, <4>2, <5>1
                <5>3. sum[n - 1] = total + d
                    BY <4>1, <5>1
                <5>4. total \in Int /\ total <= p.counted - samples[1].counted
                    BY <3>4
                <5>5. p.counted \in Nat /\ s.counted \in Nat /\ samples[1].counted \in Nat
                    BY <3>9
                <5> HIDE DEF s, p, total
                <5> QED
                    BY SMTT(30), <5>2, <5>3, <5>4, <5>5
            <4>4. \A j \in 1 .. n : samples[j].t <= s.t
                <5>1. \A j \in 1 .. n - 1 : samples[j].t \in Nat
                    BY <1>1, <3>1
                <5>2. ASSUME NEW j \in 1 .. n - 1 PROVE samples[j].t <= s.t
                    <6>1. samples[j].t \in Nat /\ samples[j].t <= p.t
                        BY <3>4, <5>1
                    <6>2. p.t \in Nat /\ s.t \in Nat /\ s.t > p.t
                        BY <3>9, <3>11
                    <6> HIDE DEF s, p
                    <6> QED
                        BY <6>1, <6>2
                <5>3. samples[n].t <= s.t
                    BY <3>9
                <5> QED
                    BY <3>7, <5>2, <5>3
            <4>5. Bounded(n)
                BY <3>8, <4>1, <4>3, <4>4
            <4> QED
                BY <2>2, <4>5
        <3> QED
            BY <3>9, <3>10, <3>11
    <2> QED
        BY <2>3, <2>4
<1>7. N \in 1 .. N /\ Bounded(N)
    <2>1. N \in 1 .. N
        BY <1>1
    <2>2. \A n \in 1 .. N : n \notin failing
        BY <1>6
    <2> HIDE DEF Bounded
    <2> QED
        BY <2>1, <2>2
<1> HIDE DEF Bounded
<1>8. PICK k \in 1 .. N : Latest(samples) = samples[k] /\ \A j \in 1 .. N : samples[j].t <= samples[k].t
    <2>1. DOMAIN samples \in SUBSET (1 .. N) /\ DOMAIN samples # {} /\ N \in Nat
        BY <1>1
    <2> QED
        BY <1>1, <2>1, EndsOf
<1>9. PICK i \in 1 .. N : prev[N] = samples[i]
    BY <1>7 DEF Bounded
<1>10. samples[i].t = samples[k].t
    <2>1. samples[i].t \in Nat /\ samples[k].t \in Nat
        BY <1>1
    <2>2. samples[k].t <= samples[i].t
        BY <1>7, <1>9 DEF Bounded
    <2> QED
        BY <1>8, <2>1, <2>2
<1>11. samples[i] = samples[k]
    BY <1>1, <1>10 DEF PairFits
<1>12. Total(ds) <= Latest(samples).counted - samples[1].counted
    BY <1>5, <1>7, <1>8, <1>9, <1>11 DEF Bounded
<1> QED
    BY <1>1, <1>12 DEF ds

\* However samples are lost, repeated or overtaken, and however often the counter is reset, no delta
\* and no rate rests on more than the device has counted, for any increments, gap and width
\* (counters.py:42-76, features.py:74-88).
THEOREM NothingInvented == StreamSpec => []CountersNeverInvent
<1>1. StreamInv => CountersNeverInvent
    <2> SUFFICES ASSUME StreamInv PROVE CountersNeverInvent
        OBVIOUS
    <2>1. arrived \in Seq(Reading) /\ now \in Nat
        BY DEF StreamInv, StreamTypes
    <2>2. \A i \in 1 .. Len(arrived) : arrived[i] \in Seen /\ arrived[i].t \in 0 .. now
        <3>1. \A i \in 1 .. Len(arrived) : arrived[i] \in Seen
            BY <2>1 DEF Seen
        <3> QED
            BY <2>1, <3>1 DEF StreamInv, SeenFits
    <2>3. \A i, j \in 1 .. Len(arrived) : PairFits(arrived[i], arrived[j])
        BY <2>2 DEF StreamInv
    <2>4. arrived # <<>> => Total(CounterDeltas(arrived)) <= Latest(arrived).counted - Head(arrived).counted
        BY <2>1, <2>2, <2>3, TotalBounded
    <2> QED
        BY <2>1, <2>4, RateBounded DEF CountersNeverInvent
<1> QED
    BY <1>1, StreamInvariance, PTL

-----------------------------------------------------------------------------
(* What a decision reads. *)

LEMMA FutureUnseen ==
    ASSUME NEW samples \in Seq(Reading), NEW s \in Reading, NEW asOf \in Nat, asOf < s.t
    PROVE  CausalFeatures(Append(samples, s), asOf) = CausalFeatures(samples, asOf)
<1> DEFINE more == Append(samples, s)
<1>1. /\ Len(samples) \in Nat /\ DOMAIN samples = 1 .. Len(samples) /\ DOMAIN more = 1 .. Len(samples) + 1
      /\ \A i \in DOMAIN samples : more[i] = samples[i]
      /\ more[Len(samples) + 1] = s
    OBVIOUS
<1> HIDE DEF more
<1>2. s.t \in Nat
    BY DEF Reading
<1>3. {i \in DOMAIN more : asOf - Width <= more[i].t /\ more[i].t <= asOf}
          = {i \in DOMAIN samples : asOf - Width <= samples[i].t /\ samples[i].t <= asOf}
    <2>1. \A i \in DOMAIN more : i \in DOMAIN samples \/ i = Len(samples) + 1
        BY <1>1
    <2>2. DOMAIN samples \subseteq DOMAIN more /\ ~(more[Len(samples) + 1].t <= asOf)
        BY <1>1, <1>2
    <2> QED
        BY <1>1, <2>1, <2>2
<1>4. Window(more, asOf) = Window(samples, asOf)
    BY <1>1, <1>3 DEF Window, Restrict
<1> QED
    BY <1>4 DEF CausalFeatures, more

LEMMA BeyondUnread ==
    ASSUME NEW samples \in Seq(Reading), samples # <<>>, NEW s \in Reading, NEW M \in Nat,
           \A i \in 1 .. Len(samples) : samples[i].t \in 0 .. M,
           s.t > Earliest(samples).t + EvalWidth
    PROVE  EvaluatedSamples(Append(samples, s)) = EvaluatedSamples(samples)
<1> DEFINE more == Append(samples, s)
           N == Len(samples)
<1>1. /\ N \in Nat /\ DOMAIN samples = 1 .. N /\ DOMAIN more = 1 .. N + 1
      /\ \A i \in DOMAIN samples : more[i] = samples[i]
      /\ more[N + 1] = s /\ DOMAIN samples # {}
      /\ \A i \in DOMAIN samples : samples[i].t \in 0 .. M
    OBVIOUS
<1> HIDE DEF more, N
<1>2. s.t \in Nat /\ EvalWidth \in Nat /\ M + s.t \in Nat /\ N + 1 \in Nat
    BY <1>1, TelemetryAssumption DEF Reading
<1>3. PICK i \in DOMAIN samples : Earliest(samples) = samples[i] /\ \A j \in DOMAIN samples : samples[i].t <= samples[j].t
    <2>1. DOMAIN samples \in SUBSET (1 .. N)
        BY <1>1
    <2> QED
        BY <1>1, <2>1, EndsOf
<1>4. PICK k \in DOMAIN more : Earliest(more) = more[k] /\ \A j \in DOMAIN more : more[k].t <= more[j].t
    <2>1. DOMAIN more \in SUBSET (1 .. N + 1) /\ DOMAIN more # {}
        BY <1>1
    <2>2. \A j \in DOMAIN more : more[j].t \in 0 .. M + s.t
        <3>1. \A j \in DOMAIN more : j \in DOMAIN samples \/ j = N + 1
            BY <1>1
        <3>2. more[N + 1].t \in 0 .. M + s.t
            BY <1>1, <1>2
        <3>3. ASSUME NEW j \in DOMAIN samples PROVE more[j].t \in 0 .. M + s.t
            <4>1. samples[j].t \in 0 .. M /\ more[j] = samples[j]
                BY <1>1
            <4> QED
                BY <1>2, <4>1
        <3> QED
            BY <3>1, <3>2, <3>3
    <2> QED
        BY <1>2, <2>1, <2>2, EndsOf
<1>5. Earliest(more).t = Earliest(samples).t
    <2>1. samples[i].t \in Nat /\ s.t > samples[i].t
        BY <1>1, <1>2, <1>3
    <2>2. more[i] = samples[i] /\ i \in DOMAIN more
        BY <1>1
    <2>3. more[k].t <= samples[i].t
        BY <1>4, <2>2
    <2>4. k \in DOMAIN samples \/ k = N + 1
        BY <1>1
    <2>5. k \in DOMAIN samples
        BY <1>1, <1>2, <2>1, <2>3, <2>4
    <2>6. more[k] = samples[k] /\ samples[k].t \in Nat /\ samples[i].t <= samples[k].t
        BY <1>1, <1>3, <2>5
    <2> QED
        BY <1>3, <1>4, <2>1, <2>3, <2>6
<1> DEFINE end == Earliest(samples).t + EvalWidth
<1>6. end \in Nat /\ ~(s.t <= end)
    BY <1>1, <1>2, <1>3
<1> HIDE DEF end
<1>7. {j \in DOMAIN more : more[j].t <= end} = {j \in DOMAIN samples : samples[j].t <= end}
    <2>1. \A j \in DOMAIN more : j \in DOMAIN samples \/ j = N + 1
        BY <1>1
    <2>2. DOMAIN samples \subseteq DOMAIN more
        BY <1>1
    <2> QED
        BY <1>1, <1>6, <2>1, <2>2
<1>8. EvaluatedSamples(more) = Restrict(more, {j \in DOMAIN more : more[j].t <= end})
    BY <1>5 DEF EvaluatedSamples, end
<1>9. EvaluatedSamples(samples) = Restrict(samples, {j \in DOMAIN samples : samples[j].t <= end})
    BY DEF EvaluatedSamples, end
<1> QED
    BY <1>1, <1>7, <1>8, <1>9 DEF Restrict, more

LEMMA OnlineIsOffline ==
    ASSUME NEW samples \in Seq(Reading), NEW asOf \in Nat,
           \A i, j \in DOMAIN samples : i < j => samples[i].t <= samples[j].t
    PROVE  FeatureOnline(samples, asOf) = FeatureOffline(samples, asOf)
<1> DEFINE seen == {i \in DOMAIN samples : \A j \in 1 .. i : samples[j].t <= asOf}
<1>1. /\ Len(samples) \in Nat /\ DOMAIN samples = 1 .. Len(samples)
      /\ \A i \in DOMAIN samples : samples[i].t \in Nat
    <2>1. Len(samples) \in Nat /\ DOMAIN samples = 1 .. Len(samples) /\ \A i \in DOMAIN samples : samples[i] \in Reading
        OBVIOUS
    <2> QED
        BY <2>1 DEF Reading
<1>2. ASSUME NEW i \in DOMAIN samples PROVE i \in seen <=> samples[i].t <= asOf
    <2>1. i \in 1 .. i /\ \A j \in 1 .. i : j \in DOMAIN samples /\ (j = i \/ j < i)
        BY <1>1
    <2>2. ASSUME samples[i].t <= asOf, NEW j \in 1 .. i PROVE samples[j].t <= asOf
        BY <1>1, <2>1, <2>2
    <2> QED
        BY <2>1, <2>2
<1> HIDE DEF seen
<1> DEFINE kept == Restrict(samples, seen)
<1>3. seen \subseteq DOMAIN samples
    BY DEF seen
<1>4. DOMAIN kept = seen /\ \A i \in seen : kept[i] = samples[i]
    BY DEF Restrict
<1> HIDE DEF kept
<1>5. {i \in DOMAIN kept : asOf - Width <= kept[i].t /\ kept[i].t <= asOf}
          = {i \in DOMAIN samples : asOf - Width <= samples[i].t /\ samples[i].t <= asOf}
    BY <1>2, <1>3, <1>4
<1>6. Window(kept, asOf) = Window(samples, asOf)
    BY <1>2, <1>4, <1>5 DEF Window, Restrict
<1>7. FeatureOnline(samples, asOf) = DownFraction(Window(kept, asOf))
    BY DEF FeatureOnline, kept, seen
<1> QED
    BY <1>6, <1>7 DEF FeatureOffline

\* What arrives later than a decision changes no feature of it, what comes after the common width
\* changes no evaluation, and in order the online decision is the offline one, for any width
\* (features.py:91-139, evaluate_sensors.py:81-83, corpus_pilot.py:88-103).
THEOREM FutureUnread == StreamSpec => FutureNeverLeaks
<1> DEFINE Unread(s) ==
        arrived' = Append(arrived, s) =>
          /\ \A asOf \in 1 .. s.t - 1 : CausalFeatures(arrived', asOf) = CausalFeatures(arrived, asOf)
          /\ arrived # <<>> /\ s.t > Earliest(arrived).t + EvalWidth =>
                EvaluatedSamples(arrived') = EvaluatedSamples(arrived)
          /\ Ordered' => \A asOf \in 1 .. now : FeatureOnline(arrived', asOf) = FeatureOffline(arrived', asOf)
<1>1. ASSUME StreamInv, NEW s \in inFlight PROVE Unread(s)
    <2> SUFFICES ASSUME arrived' = Append(arrived, s)
                 PROVE  /\ \A asOf \in 1 .. s.t - 1 :
                               CausalFeatures(arrived', asOf) = CausalFeatures(arrived, asOf)
                        /\ arrived # <<>> /\ s.t > Earliest(arrived).t + EvalWidth =>
                               EvaluatedSamples(arrived') = EvaluatedSamples(arrived)
                        /\ Ordered' => \A asOf \in 1 .. now :
                               FeatureOnline(arrived', asOf) = FeatureOffline(arrived', asOf)
        OBVIOUS
    <2>1. arrived \in Seq(Reading) /\ s \in Reading /\ s.t \in Nat /\ now \in Nat
        BY <1>1 DEF StreamInv, StreamTypes, Reading
    <2>2. ASSUME NEW asOf \in 1 .. s.t - 1
          PROVE  CausalFeatures(arrived', asOf) = CausalFeatures(arrived, asOf)
        <3>1. asOf \in Nat /\ asOf < s.t
            BY <2>1
        <3> QED
            BY <2>1, <3>1, FutureUnseen
    <2>3. ASSUME arrived # <<>>, s.t > Earliest(arrived).t + EvalWidth
          PROVE  EvaluatedSamples(arrived') = EvaluatedSamples(arrived)
        <3>1. \A i \in 1 .. Len(arrived) : arrived[i] \in Seen
            BY <2>1 DEF Seen
        <3>2. \A i \in 1 .. Len(arrived) : arrived[i].t \in 0 .. now
            BY <1>1, <2>1, <3>1 DEF StreamInv, SeenFits
        <3> QED
            BY <2>1, <2>3, <3>2, BeyondUnread
    <2>4. ASSUME Ordered', NEW asOf \in 1 .. now
          PROVE  FeatureOnline(arrived', asOf) = FeatureOffline(arrived', asOf)
        <3>1. PICK all \in Seq(Reading) : all = arrived'
            BY <2>1
        <3>2. \A i, j \in DOMAIN all : i < j => all[i].t <= all[j].t
            BY <2>4, <3>1 DEF Ordered
        <3>3. asOf \in Nat
            BY <2>1
        <3>4. FeatureOnline(all, asOf) = FeatureOffline(all, asOf)
            BY <3>2, <3>3, OnlineIsOffline
        <3> QED
            BY <3>1, <3>4
    <2> QED
        BY <2>2, <2>3, <2>4
<1>2. StreamInv /\ [StreamNext]_stream => [\A s \in inFlight : Unread(s)]_stream
    BY <1>1
<1> QED
    BY <1>2, StreamInvariance, PTL DEF StreamSpec, FutureNeverLeaks

-----------------------------------------------------------------------------
(* The ranking by link state.  What each incident, under way or loaded,    *)
(* says of the link states that were scraped.                              *)

States == {"up", "down"}
AllClasses == Blunt \cup Gray \cup {"healthy_control"}
Loaded == [target : Links, class : AllClasses, start : Nat, end : Nat, stateless : SUBSET Ifaces,
           down : [Ifaces -> BOOLEAN]]

\* Every scrape reads every interface.
ScrapedTogether ==
    /\ oper \in [Ifaces -> Seq(States)]
    /\ \A i \in Ifaces : Len(oper[i]) = Scrapes

UnderWay ==
    incident = <<>> \/ \E inc : incident = <<inc>> /\ inc \in [target : Links, class : AllClasses, start : Nat \ {0}]

Leaf(inc) == <<inc.target, "leaf">>

\* What is loaded of an interface is what the scrapes saw of it, and its onset was verified.
DownMeasured(inc) ==
    /\ inc \in Loaded /\ inc.end <= Scrapes
    /\ \A i \in Ifaces : inc.down[i] <=> i \in SeenDown(inc)
    /\ inc.class \in {"admin_shutdown", "carrier_loss"} /\ Leaf(inc) \notin inc.stateless => Leaf(inc) \in SeenDown(inc)

PlacesInv ==
    /\ ScrapedTogether
    /\ UnderWay
    /\ loaded = <<>> \/ \E inc : loaded = <<inc>> /\ DownMeasured(inc)

-----------------------------------------------------------------------------
LEMMA LeafIsIface == ASSUME NEW l \in Links PROVE <<l, "leaf">> \in Ifaces /\ <<l, "spine">> \in Ifaces
BY DEF Ifaces

LEMMA Appended ==
    ASSUME NEW S, NEW s \in Seq(S), NEW x \in S
    PROVE  /\ Append(s, x) \in Seq(S) /\ Len(Append(s, x)) = Len(s) + 1
           /\ \A u \in DOMAIN s : u \in DOMAIN Append(s, x) /\ Append(s, x)[u] = s[u]
           /\ \A u \in DOMAIN Append(s, x) : u \in DOMAIN s \/ (u = Len(s) + 1 /\ Append(s, x)[u] = x)
OBVIOUS

LEMMA PlacesInit == LocalizationInit => PlacesInv
<1> SUFFICES ASSUME LocalizationInit PROVE PlacesInv
    OBVIOUS
<1>1. ScrapedTogether
    <2>1. oper \in [Ifaces -> Seq(States)]
        BY DEF LocalizationInit
    <2>2. ASSUME NEW i \in Ifaces PROVE Len(oper[i]) = Scrapes
        <3>1. (CHOOSE j \in Ifaces : TRUE) \in Ifaces
            OBVIOUS
        <3> QED
            BY <3>1 DEF LocalizationInit, Scrapes
    <2> QED
        BY <2>1, <2>2 DEF ScrapedTogether
<1> QED
    BY <1>1 DEF LocalizationInit, PlacesInv, UnderWay

LEMMA ScrapesCounted ==
    ASSUME ScrapedTogether, NEW i \in Ifaces
    PROVE  Scrapes \in Nat /\ oper[i] \in Seq(States) /\ Len(oper[i]) = Scrapes
BY DEF ScrapedTogether

LEMMA SameScrapes ==
    ASSUME PlacesInv, UNCHANGED oper
    PROVE  /\ ScrapedTogether'
           /\ \A inc : DownMeasured(inc)' <=> DownMeasured(inc)
BY DEF PlacesInv, ScrapedTogether, Scrapes, DownMeasured, SeenDown, Ifaces

LEMMA OnsetStep == PlacesInv /\ Onset => PlacesInv'
<1> SUFFICES ASSUME PlacesInv, Onset PROVE PlacesInv'
    OBVIOUS
<1>1. UNCHANGED <<oper, loaded>>
    BY DEF Onset
<1>2. PICK l \in Links, c \in Injected : incident' = <<[target |-> l, class |-> c, start |-> Scrapes + 1]>>
    BY DEF Onset
<1>3. Scrapes \in Nat
    BY LeafIsIface, ScrapesCounted DEF PlacesInv
<1>4. c \in AllClasses
    BY LocalizationAssumption DEF AllClasses
<1>5. [target |-> l, class |-> c, start |-> Scrapes + 1] \in [target : Links, class : AllClasses, start : Nat \ {0}]
    BY <1>3, <1>4
<1>6. UnderWay'
    BY <1>2, <1>5 DEF UnderWay
<1> QED
    BY <1>1, <1>6, SameScrapes DEF PlacesInv

LEMMA ScrapeStep == PlacesInv /\ ScrapeAll => PlacesInv'
<1> SUFFICES ASSUME PlacesInv, ScrapeAll PROVE PlacesInv'
    OBVIOUS
<1>1. UNCHANGED <<incident, loaded>>
    BY DEF ScrapeAll
<1>2. PICK down : oper' = [i \in Ifaces |-> Append(oper[i], IF i \in down THEN "down" ELSE "up")]
    BY DEF ScrapeAll
<1>3. ASSUME NEW i \in Ifaces
      PROVE  /\ oper'[i] \in Seq(States) /\ Len(oper'[i]) = Scrapes + 1
             /\ \A u \in DOMAIN oper[i] : u \in DOMAIN oper'[i] /\ oper'[i][u] = oper[i][u]
             /\ \A u \in DOMAIN oper'[i] : u \in DOMAIN oper[i] \/ u = Scrapes + 1
    <2>1. PICK state \in States : oper'[i] = Append(oper[i], state)
        BY <1>2 DEF States
    <2>2. oper[i] \in Seq(States) /\ Len(oper[i]) = Scrapes
        BY ScrapesCounted DEF PlacesInv
    <2> QED
        BY <2>1, <2>2, Appended
<1>4. ScrapedTogether' /\ (Ifaces # {} => Scrapes' = Scrapes + 1)
    <2>1. oper' \in [Ifaces -> Seq(States)]
        BY <1>2, <1>3
    <2>2. ASSUME NEW i \in Ifaces PROVE Len(oper'[i]) = Scrapes' /\ Scrapes' = Scrapes + 1
        <3>1. (CHOOSE j \in Ifaces : TRUE) \in Ifaces
            OBVIOUS
        <3> QED
            BY <3>1, <1>3 DEF Scrapes
    <2> QED
        BY <2>1, <2>2 DEF ScrapedTogether
<1>5. ASSUME NEW inc, DownMeasured(inc) PROVE DownMeasured(inc)'
    <2>1. inc \in Loaded /\ inc.end <= Scrapes /\ inc.end \in Nat /\ inc.target \in Links
        BY <1>5 DEF DownMeasured, Loaded
    <2>2. Scrapes \in Nat /\ Scrapes' = Scrapes + 1
        BY <1>4, <2>1, LeafIsIface, ScrapesCounted DEF PlacesInv
    <2>3. ASSUME NEW i \in Ifaces
          PROVE  (\E u \in DOMAIN oper[i] : inc.start - Lookback <= u /\ u <= inc.end /\ oper[i][u] = "down")
                 <=> \E u \in DOMAIN oper'[i] : inc.start - Lookback <= u /\ u <= inc.end /\ oper'[i][u] = "down"
        <3>1. \A u \in DOMAIN oper'[i] : u <= inc.end => u \in DOMAIN oper[i]
            BY <1>3, <2>1, <2>2
        <3> QED
            BY <1>3, <3>1
    <2>4. SeenDown(inc)' = SeenDown(inc)
        BY <2>3 DEF SeenDown, Ifaces
    <2> QED
        BY <1>5, <2>1, <2>2, <2>4 DEF DownMeasured
<1> QED
    BY <1>1, <1>4, <1>5 DEF PlacesInv, UnderWay

\* A window shows an interface down if, and only if, a scrape of the window or of its lookback saw it.
LEMMA WindowShows ==
    ASSUME ScrapedTogether, NEW i \in Ifaces, NEW start \in Nat \ {0}, NEW end \in Nat, start <= end
    PROVE  OperDown(CaptureWindow(i, start, end)) <=>
              \E u \in DOMAIN oper[i] : start - Lookback <= u /\ u <= end /\ oper[i][u] = "down"
<1>1. oper[i] \in Seq(States) /\ Lookback \in Nat
    BY LocalizationAssumption DEF ScrapedTogether
<1>2. ASSUME OperDown(CaptureWindow(i, start, end))
      PROVE  \E u \in DOMAIN oper[i] : start - Lookback <= u /\ u <= end /\ oper[i][u] = "down"
    <2>1. PICK p \in (start .. end) \X {"up", "down"} :
              /\ \E u \in DOMAIN oper[i] : p[1] - Lookback <= u /\ u <= p[1] /\ oper[i][u] = p[2]
              /\ p[2] = "down"
        BY <1>2 DEF OperDown, CaptureWindow
    <2> QED
        BY <1>1, <2>1
<1>3. ASSUME NEW u \in DOMAIN oper[i], start - Lookback <= u, u <= end, oper[i][u] = "down"
      PROVE  OperDown(CaptureWindow(i, start, end))
    <2>1. PICK t \in start .. end : t - Lookback <= u /\ u <= t
        <3>1. u \in Nat
            BY <1>1
        <3>2. CASE u <= start
            BY <1>1, <1>3, <3>1, <3>2
        <3>3. CASE start <= u
            BY <1>1, <1>3, <3>1, <3>3
        <3> QED
            BY <3>1, <3>2, <3>3
    <2> DEFINE p == <<t, "down">>
    <2>2. p \in (start .. end) \X {"up", "down"} /\ p[1] = t /\ p[2] = "down"
        BY <2>1
    <2>3. p \in CaptureWindow(i, start, end)
        BY <1>3, <2>1, <2>2 DEF CaptureWindow
    <2> QED
        BY <2>2, <2>3 DEF OperDown
<1> QED
    BY <1>2, <1>3

LEMMA SettleStep == PlacesInv /\ Settle => PlacesInv'
<1> SUFFICES ASSUME PlacesInv, Settle PROVE PlacesInv'
    OBVIOUS
<1>1. PICK inc : incident = <<inc>> /\ inc \in [target : Links, class : AllClasses, start : Nat \ {0}]
    BY DEF PlacesInv, UnderWay, Settle
<1>2. incident' = <<>> /\ UNCHANGED oper /\ Scrapes >= inc.start
    BY <1>1 DEF Settle
<1>3. Leaf(inc) \in Ifaces
    BY <1>1, LeafIsIface DEF Leaf
<1>4. Scrapes \in Nat /\ ScrapedTogether
    BY <1>3, ScrapesCounted DEF PlacesInv
<1>5. CASE loaded' = loaded
    BY <1>2, <1>5, SameScrapes DEF PlacesInv, UnderWay
<1>6. CASE loaded' # loaded
    <2>1. OnsetVerified(inc)
        BY <1>1, <1>6 DEF Settle
    <2>2. PICK stateless \in StateGaps :
              LET window(i) == IF i \in stateless THEN {} ELSE CaptureWindow(i, inc.start, Scrapes)
              IN loaded' = <<[target |-> inc.target, class |-> inc.class, start |-> inc.start, end |-> Scrapes,
                              stateless |-> stateless, down |-> [i \in Ifaces |-> OperDown(window(i))]]>>
        BY <1>1, <1>6 DEF Settle
    <2> DEFINE down == [i \in Ifaces |->
                           OperDown(IF i \in stateless THEN {} ELSE CaptureWindow(i, inc.start, Scrapes))]
    <2>3. PICK more : more = [target |-> inc.target, class |-> inc.class, start |-> inc.start, end |-> Scrapes,
                              stateless |-> stateless, down |-> down]
        OBVIOUS
    <2>4. loaded' = <<more>>
        BY <2>2, <2>3
    <2>5. down \in [Ifaces -> BOOLEAN]
        BY DEF OperDown
    <2>6. ASSUME NEW i \in Ifaces
          PROVE  down[i] <=> /\ i \notin stateless
                             /\ \E u \in DOMAIN oper[i] : inc.start - Lookback <= u /\ u <= Scrapes /\ oper[i][u] = "down"
        <3>1. CASE i \in stateless
            BY <3>1 DEF OperDown
        <3>2. CASE i \notin stateless
            BY <1>1, <1>2, <1>4, <3>2, WindowShows
        <3> QED
            BY <3>1, <3>2
    <2> HIDE DEF down
    <2>7. stateless \in SUBSET Ifaces
        BY LocalizationAssumption
    <2>8. more \in Loaded /\ more.end <= Scrapes
        BY <1>1, <1>4, <2>3, <2>5, <2>7 DEF Loaded
    <2>9. \A i \in Ifaces : more.down[i] <=> i \in SeenDown(more)
        BY <2>3, <2>6 DEF SeenDown
    <2>10. more.class \in {"admin_shutdown", "carrier_loss"} /\ Leaf(more) \notin more.stateless =>
               Leaf(more) \in SeenDown(more)
        <3> SUFFICES ASSUME inc.class \in {"admin_shutdown", "carrier_loss"}, Leaf(inc) \notin stateless
                     PROVE  Leaf(more) \in SeenDown(more)
            BY <2>3 DEF Leaf
        <3>1. oper[Leaf(inc)][Scrapes] = "down"
            BY <2>1 DEF OnsetVerified, Leaf
        <3>2. Scrapes \in DOMAIN oper[Leaf(inc)]
            BY <1>1, <1>2, <1>3, <1>4, ScrapesCounted
        <3>3. inc.start - Lookback <= Scrapes
            BY <1>1, <1>2, <1>4, LocalizationAssumption
        <3>4. Leaf(more) = Leaf(inc)
            BY <2>3 DEF Leaf
        <3> QED
            BY <1>3, <1>4, <2>3, <3>1, <3>2, <3>3, <3>4 DEF SeenDown
    <2>11. DownMeasured(more)
        BY <2>8, <2>9, <2>10 DEF DownMeasured
    <2> QED
        BY <1>2, <2>4, <2>11, SameScrapes DEF PlacesInv, UnderWay
<1> QED
    BY <1>5, <1>6

-----------------------------------------------------------------------------
\* The place of a link among those that score with it and those that do not.
LEMMA RankedByScore ==
    ASSUME NEW score \in [Links -> {0, 1}], NEW target \in Links, NEW others,
           others = {l \in Links \ {target} : score[l] = 1}
    PROVE  /\ score[target] = 1 => /\ DoubledRank(score, target) = 2 + Cardinality(others)
                                   /\ DoubledWins(score, target) = 2 * (Cardinality(Links) - 1) - Cardinality(others)
           /\ score[target] = 0 => DoubledRank(score, target) = Cardinality(Links) + 1 + Cardinality(others)
<1>1. IsFiniteSet(Links) /\ Cardinality(Links) \in Nat
    BY LocalizationAssumption, FS_CardinalityType
<1>2. IsFiniteSet(others) /\ Cardinality(others) \in Nat
    BY <1>1, FS_Subset, FS_CardinalityType
<1>3. Cardinality({}) = 0
    BY FS_EmptySet
<1> DEFINE above == {l \in Links : score[l] > score[target]}
           ties == {l \in Links : score[l] = score[target]}
           won == {l \in Links \ {target} : score[target] > score[l]}
           drawn == {l \in Links \ {target} : score[target] = score[l]}
<1>4. /\ DoubledRank(score, target) = 2 * Cardinality(above) + 2 + Cardinality(ties) - 1
      /\ DoubledWins(score, target) = 2 * Cardinality(won) + Cardinality(drawn)
    BY DEF DoubledRank, DoubledWins
<1>5. IsFiniteSet(Links \ {target}) /\ Cardinality(Links \ {target}) = Cardinality(Links) - 1
    BY <1>1, FS_RemoveElement
<1>6. Cardinality((Links \ {target}) \ others) = Cardinality(Links) - 1 - Cardinality(others)
    <2>1. (Links \ {target}) \cap others = others
        OBVIOUS
    <2>2. Cardinality((Links \ {target}) \ others)
          = Cardinality(Links \ {target}) - Cardinality((Links \ {target}) \cap others)
        BY <1>5, FS_Difference, Zenon
    <2> QED
        BY <1>5, <2>1, <2>2, Zenon
<1>7. Cardinality(Links \ others) = Cardinality(Links) - Cardinality(others)
    <2>1. Links \cap others = others
        OBVIOUS
    <2>2. Cardinality(Links \ others) = Cardinality(Links) - Cardinality(Links \cap others)
        BY <1>1, FS_Difference, Zenon
    <2> QED
        BY <2>1, <2>2, Zenon
<1>8. Cardinality(others \cup {target}) = Cardinality(others) + 1
    <2>1. target \notin others
        OBVIOUS
    <2> QED
        BY <1>2, <2>1, FS_AddElement
<1>9. score[target] = 1 => /\ above = {} /\ ties = others \cup {target}
                           /\ won = (Links \ {target}) \ others /\ drawn = others
    OBVIOUS
<1>10. score[target] = 0 => above = others /\ ties = Links \ others
    OBVIOUS
<1> HIDE DEF above, ties, won, drawn
<1>11. CASE score[target] = 1
    <2>1. Cardinality(above) = 0 /\ Cardinality(ties) = Cardinality(others) + 1 /\ Cardinality(drawn) = Cardinality(others)
        BY <1>3, <1>8, <1>9, <1>11, Zenon
    <2>2. Cardinality(won) = Cardinality(Links) - 1 - Cardinality(others)
        BY <1>6, <1>9, <1>11, Zenon
    <2> QED
        BY <1>1, <1>2, <1>4, <1>11, <2>1, <2>2
<1>12. CASE score[target] = 0
    <2>1. Cardinality(above) = Cardinality(others) /\ Cardinality(ties) = Cardinality(Links) - Cardinality(others)
        BY <1>7, <1>10, <1>12, Zenon
    <2> QED
        BY <1>1, <1>2, <1>4, <1>12, <2>1
<1>13. score[target] = 1 \/ score[target] = 0
    OBVIOUS
<1> QED
    BY <1>11, <1>12, <1>13, Zenon

LEMMA PlacesImplyRanks == PlacesInv => RuleRanksWhatItSees
<1> SUFFICES ASSUME PlacesInv, NEW inc \in Range(loaded)
             PROVE  /\ IF \E end \in {"leaf", "spine"} : <<inc.target, end>> \in SeenDown(inc)
                       THEN /\ DoubledRank(RuleScore(inc), inc.target) = 2 + Cardinality(Beside(inc))
                            /\ DoubledWins(RuleScore(inc), inc.target)
                               = 2 * (Cardinality(Links) - 1) - Cardinality(Beside(inc))
                       ELSE DoubledRank(RuleScore(inc), inc.target) = Cardinality(Links) + 1 + Cardinality(Beside(inc))
                    /\ inc.class \in {"admin_shutdown", "carrier_loss"} /\ <<inc.target, "leaf">> \notin inc.stateless =>
                          <<inc.target, "leaf">> \in SeenDown(inc)
    BY DEF RuleRanksWhatItSees
<1> DEFINE score == RuleScore(inc)
<1>1. DownMeasured(inc)
    BY DEF PlacesInv, Range
<1>2. inc.target \in Links
    BY <1>1 DEF DownMeasured, Loaded
<1>3. score \in [Links -> {0, 1}]
    BY DEF RuleScore
<1>4. ASSUME NEW l \in Links
      PROVE  score[l] = 1 <=> \E end \in {"leaf", "spine"} : <<l, end>> \in SeenDown(inc)
    <2>1. inc.down[<<l, "leaf">>] <=> <<l, "leaf">> \in SeenDown(inc)
        BY <1>1, LeafIsIface DEF DownMeasured
    <2>2. inc.down[<<l, "spine">>] <=> <<l, "spine">> \in SeenDown(inc)
        BY <1>1, LeafIsIface DEF DownMeasured
    <2> QED
        BY <2>1, <2>2 DEF RuleScore
<1> HIDE DEF score
<1>5. Beside(inc) = {l \in Links \ {inc.target} : score[l] = 1}
    <2>1. SeenDown(inc) \subseteq Links \X {"leaf", "spine"}
        BY DEF SeenDown, Ifaces
    <2>2. ASSUME NEW l
          PROVE  (\E i \in SeenDown(inc) : l = i[1]) <=> l \in Links /\ \E end \in {"leaf", "spine"} : <<l, end>> \in SeenDown(inc)
        BY <2>1
    <2> QED
        BY <1>4, <2>2 DEF Beside
<1>6. /\ score[inc.target] = 1 => /\ DoubledRank(score, inc.target) = 2 + Cardinality(Beside(inc))
                                  /\ DoubledWins(score, inc.target) = 2 * (Cardinality(Links) - 1) - Cardinality(Beside(inc))
      /\ score[inc.target] = 0 => DoubledRank(score, inc.target) = Cardinality(Links) + 1 + Cardinality(Beside(inc))
    BY <1>2, <1>3, <1>5, RankedByScore
<1>7. score[inc.target] = 1 \/ score[inc.target] = 0
    BY <1>2, <1>3
<1>8. inc.class \in {"admin_shutdown", "carrier_loss"} /\ <<inc.target, "leaf">> \notin inc.stateless =>
          <<inc.target, "leaf">> \in SeenDown(inc)
    BY <1>1 DEF DownMeasured, Leaf
<1> QED
    BY <1>2, <1>4, <1>6, <1>7, <1>8 DEF score

\* The rule puts a link that the scrapes saw down before all that they did not, beside those that were
\* down with it, and any other behind them, for any number of links, any lookback, any state channels
\* that are missing and any incidents before (gate12_5_localization_ablation.py:76-101, 162-180,
\* 225-250, 288-297).
THEOREM RankedBySight == LocalizationSpec => []RuleRanksWhatItSees
<1>1. PlacesInv /\ [LocalizationNext]_places => PlacesInv'
    <2> SUFFICES ASSUME PlacesInv, [LocalizationNext]_places PROVE PlacesInv'
        OBVIOUS
    <2>1. CASE UNCHANGED places
        BY <2>1, SameScrapes DEF places, PlacesInv, UnderWay
    <2> QED
        BY <2>1, OnsetStep, ScrapeStep, SettleStep DEF LocalizationNext
<1> QED
    BY PlacesInit, <1>1, PlacesImplyRanks, PTL DEF LocalizationSpec

-----------------------------------------------------------------------------
(* The thresholds. *)

Incident == [class : EvalClasses \cup {Healthy}, split : EvalSplits, window : {"missing", "empty", "read"},
             hits : SUBSET Grid]

BlindSoFar(r) == Blind(r, LoadIncidents(SubSeq(settled, 1, r.over)))

EvaluationInv ==
    /\ settled \in Seq(Incident)
    /\ report = <<>> \/ \E r : report = <<r>> /\ r.over \in 0 .. Len(settled) /\ BlindSoFar(r)

-----------------------------------------------------------------------------
(* The order of the configurations.  Of two scores of the same corpus the  *)
(* better one is a matter of a strict weak order.                          *)

Scores(faults) == {m \in [detected : Nat, faults : {faults}, fired : Nat, healthy : Nat] : m.detected <= faults}

LEMMA AboveIs ==
    ASSUME NEW F \in Nat, NEW m \in Scores(F), NEW n \in Scores(F)
    PROVE  Above(F1(m), F1(n)) <=> m.detected * (F + n.fired) > n.detected * (F + m.fired)
<1>1. /\ m.detected \in Nat /\ n.detected \in Nat /\ m.fired \in Nat /\ n.fired \in Nat
      /\ m.faults = F /\ n.faults = F
    BY DEF Scores
<1>2. F1(m) = <<2 * m.detected, F + m.detected + m.fired>> /\ F1(n) = <<2 * n.detected, F + n.detected + n.fired>>
    BY <1>1 DEF F1
<1>3. \A a, b, x, y, f \in Nat :
          (2 * a) * (f + b + y) > (2 * b) * (f + a + x) <=> a * (f + y) > b * (f + x)
    OBVIOUS
<1> QED
    BY <1>1, <1>2, <1>3 DEF Above

LEMMA CrossMultiply ==
    ASSUME NEW a \in Nat, NEW b \in Nat, NEW c \in Nat,
           NEW x \in Nat \ {0}, NEW y \in Nat \ {0}, NEW z \in Nat \ {0},
           a * y >= b * x, b * z >= c * y
    PROVE  /\ a * z >= c * x
           /\ a * y > b * x \/ b * z > c * y => a * z > c * x
<1>1. \A p, q \in Nat, k \in Nat \ {0} : (p >= q => p * k >= q * k) /\ (p > q => p * k > q * k)
    OBVIOUS
<1>2. \A p, q \in Nat, k \in Nat \ {0} : (p * k >= q * k => p >= q) /\ (p * k > q * k => p > q)
    OBVIOUS
<1>3. a * y \in Nat /\ b * x \in Nat /\ b * z \in Nat /\ c * y \in Nat /\ a * z \in Nat /\ c * x \in Nat
    OBVIOUS
<1>4. (a * y) * z >= (b * x) * z /\ (b * z) * x >= (c * y) * x
    BY <1>1, <1>3
<1>5. (a * y > b * x => (a * y) * z > (b * x) * z) /\ (b * z > c * y => (b * z) * x > (c * y) * x)
    BY <1>1, <1>3
<1>6. (a * y) * z = (a * z) * y /\ (b * x) * z = (b * z) * x /\ (c * y) * x = (c * x) * y
    OBVIOUS
<1>7. (a * z) * y >= (c * x) * y /\ (a * y > b * x \/ b * z > c * y => (a * z) * y > (c * x) * y)
    BY <1>4, <1>5, <1>6
<1> QED
    BY <1>2, <1>3, <1>7

LEMMA WeakOrder ==
    ASSUME NEW F \in Nat, NEW m \in Scores(F), NEW n \in Scores(F), NEW k \in Scores(F)
    PROVE  /\ ~(BetterKey(m, n) /\ BetterKey(n, m))
           /\ BetterKey(m, n) /\ ~BetterKey(k, n) => BetterKey(m, k)
<1> DEFINE a == m.detected
           b == n.detected
           c == k.detected
           x == F + m.fired
           y == F + n.fired
           z == F + k.fired
<1>1. a \in Nat /\ b \in Nat /\ c \in Nat /\ x \in Nat /\ y \in Nat /\ z \in Nat
    BY DEF Scores
<1>2. /\ Above(F1(m), F1(n)) <=> a * y > b * x
      /\ Above(F1(n), F1(m)) <=> b * x > a * y
      /\ Above(F1(k), F1(n)) <=> c * y > b * z
      /\ Above(F1(n), F1(k)) <=> b * z > c * y
      /\ Above(F1(m), F1(k)) <=> a * z > c * x
      /\ Above(F1(k), F1(m)) <=> c * x > a * z
    BY AboveIs
<1>3. CASE F = 0
    <2>1. a = 0 /\ b = 0 /\ c = 0
        BY <1>1, <1>3 DEF Scores
    <2>2. \A p, q \in Nat : ~(0 * p > 0 * q)
        OBVIOUS
    <2>3. /\ BetterKey(m, n) <=> m.fired < n.fired
          /\ BetterKey(n, m) <=> n.fired < m.fired
          /\ BetterKey(k, n) <=> k.fired < n.fired
          /\ BetterKey(m, k) <=> m.fired < k.fired
        BY <1>1, <1>2, <2>1, <2>2 DEF BetterKey
    <2> QED
        BY <2>3 DEF Scores
<1>4. CASE F # 0
    <2>1. x \in Nat \ {0} /\ y \in Nat \ {0} /\ z \in Nat \ {0}
        BY <1>4 DEF Scores
    <2>2. /\ BetterKey(m, n) <=> a * y > b * x \/ (~(b * x > a * y) /\ m.fired < n.fired)
          /\ BetterKey(n, m) <=> b * x > a * y \/ (~(a * y > b * x) /\ n.fired < m.fired)
          /\ BetterKey(k, n) <=> c * y > b * z \/ (~(b * z > c * y) /\ k.fired < n.fired)
          /\ BetterKey(m, k) <=> a * z > c * x \/ (~(c * x > a * z) /\ m.fired < k.fired)
        BY <1>2 DEF BetterKey
    <2>3. m.fired \in Nat /\ n.fired \in Nat /\ k.fired \in Nat
        BY DEF Scores
    <2> HIDE DEF a, b, c, x, y, z
    <2>4. a * y \in Int /\ b * x \in Int /\ c * y \in Int /\ b * z \in Int /\ a * z \in Int /\ c * x \in Int
        BY <1>1
    <2>5. a * y >= b * x /\ b * z >= c * y =>
              /\ a * z >= c * x
              /\ a * y > b * x \/ b * z > c * y => a * z > c * x
        BY <1>1, <2>1, CrossMultiply
    <2> QED
        BY <2>2, <2>3, <2>4, <2>5
<1> QED
    BY <1>3, <1>4

LEMMA ScoresFit ==
    ASSUME NEW corpus, IsFiniteSet(DOMAIN corpus)
    PROVE  \E F \in Nat : \A cfg \in Grid : Score(corpus, cfg) \in Scores(F)
<1> DEFINE faults == {i \in DOMAIN corpus : corpus[i].class # Healthy}
<1>1. \A T \in SUBSET DOMAIN corpus : IsFiniteSet(T) /\ Cardinality(T) \in Nat
    BY FS_Subset, FS_CardinalityType
<1>2. Cardinality(faults) \in Nat
    BY <1>1
<1>3. ASSUME NEW cfg \in Grid PROVE Score(corpus, cfg) \in Scores(Cardinality(faults))
    <2> DEFINE detected == {i \in DOMAIN corpus : Hit(corpus[i], cfg)}
               fired == {i \in DOMAIN corpus : Fired(corpus[i], cfg)}
               healthy == {i \in DOMAIN corpus : corpus[i].class = Healthy}
    <2>1. Score(corpus, cfg) = [detected |-> Cardinality(detected), faults |-> Cardinality(faults),
                                   fired |-> Cardinality(fired), healthy |-> Cardinality(healthy)]
        BY DEF Score
    <2>2. detected \in SUBSET faults /\ faults \in SUBSET DOMAIN corpus
        BY DEF Hit
    <2>3. Cardinality(detected) \in Nat /\ Cardinality(fired) \in Nat /\ Cardinality(healthy) \in Nat
        BY <1>1
    <2> HIDE DEF detected, faults, fired, healthy
    <2>4. Cardinality(detected) <= Cardinality(faults)
        BY <1>1, <2>2, FS_Subset
    <2> QED
        BY <1>2, <2>1, <2>3, <2>4 DEF Scores
<1> HIDE DEF faults
<1> QED
    BY <1>2, <1>3

\* What the search over the grid has found is as good as everything it has seen, and better than what it saw first.
LEMMA SearchFindsBest ==
    ASSUME NEW corpus, IsFiniteSet(DOMAIN Fit(corpus))
    PROVE  /\ FreezeOnTrainVal(corpus) \in Grid
           /\ \A k \in Grid :
                 /\ ~BetterKey(Score(Fit(corpus), k), Score(Fit(corpus), FreezeOnTrainVal(corpus)))
                 /\ k < FreezeOnTrainVal(corpus) =>
                       BetterKey(Score(Fit(corpus), FreezeOnTrainVal(corpus)), Score(Fit(corpus), k))
<1> DEFINE of(k) == Score(Fit(corpus), k)
           Better(k, l) == BetterKey(of(k), of(l))
           Search(b) == [cfg \in Grid |-> IF cfg = 1 THEN 1 ELSE IF Better(cfg, b[cfg - 1]) THEN cfg ELSE b[cfg - 1]]
           best == CHOOSE b : b = Search(b)
<1>1. FreezeOnTrainVal(corpus) = best[GridSize]
    BY DEF FreezeOnTrainVal
<1>2. GridSize \in Nat \ {0} /\ Grid = 1 .. GridSize
    BY EvaluationAssumption DEF Grid
<1>3. \E F \in Nat : \A cfg \in Grid : of(cfg) \in Scores(F)
    BY ScoresFit
<1> HIDE DEF of
<1>4. \A k, l, m \in Grid : ~(Better(k, l) /\ Better(l, k)) /\ (Better(k, l) /\ ~Better(m, l) => Better(k, m))
    BY <1>3, WeakOrder
<1> HIDE DEF Better
<1>5. best = Search(best)
    <2> DEFINE step == [p \in (1 .. GridSize) \X Grid |-> IF Better(p[1], p[2]) THEN p[1] ELSE p[2]]
    <2>1. step \in [(1 .. GridSize) \X Grid -> Grid] /\ 1 \in Grid
        BY <1>2
    <2>2. \A p \in (1 .. GridSize) \X Grid : step[p] = IF Better(p[1], p[2]) THEN p[1] ELSE p[2]
        OBVIOUS
    <2> HIDE DEF step
    <2>3. PICK f \in [1 .. GridSize -> Grid] :
              \A n \in 1 .. GridSize : f[n] = IF n = 1 THEN 1 ELSE step[<<n, f[n - 1]>>]
        <3>1. GridSize \in Nat /\ 1 \in Grid /\ step \in [(1 .. GridSize) \X Grid -> Grid] /\ GridSize \in 1 .. GridSize
            BY <1>2, <2>1
        <3>2. \E f : Looped(f, GridSize, Grid, 1, step)
            BY <3>1, LoopExists
        <3> QED
            BY <3>2 DEF Looped
    <2>4. ASSUME NEW n \in Grid PROVE f[n] = Search(f)[n]
        <3>1. n # 1 => n - 1 \in Grid /\ f[n - 1] \in Grid
            BY <1>2, <2>3
        <3> QED
            BY <1>2, <2>2, <2>3, <3>1
    <2>5. f = Search(f)
        BY <1>2, <2>4
    <2> HIDE DEF Search
    <2> QED
        BY <2>5
<1>6. \A c \in Grid : best[c] = IF c = 1 THEN 1 ELSE IF Better(c, best[c - 1]) THEN c ELSE best[c - 1]
    BY <1>5
<1> HIDE DEF best
<1> DEFINE Leads(c) == /\ best[c] \in 1 .. c
                       /\ \A k \in 1 .. c : ~Better(k, best[c]) /\ (k < best[c] => Better(best[c], k))
           trailing == {c \in Grid : ~Leads(c)}
<1>7. ASSUME trailing # {} PROVE FALSE
    <2>1. PICK c \in trailing : \A k \in trailing : c <= k
        <3>1. trailing \in SUBSET Nat
            BY <1>2
        <3> HIDE DEF trailing
        <3> QED
            BY <1>7, <3>1, LeastNumber
    <2>2. c \in Grid /\ ~Leads(c)
        BY <2>1
    <2>3. CASE c = 1
        <3>1. best[1] = 1 /\ ~Better(1, 1)
            BY <1>4, <1>6, <2>2, <2>3
        <3> QED
            BY <2>2, <2>3, <3>1
    <2>4. CASE c # 1
        <3>1. c - 1 \in Grid /\ c - 1 \notin trailing
            BY <1>2, <2>1, <2>2, <2>4
        <3>2. Leads(c - 1)
            BY <3>1
        <3> DEFINE b == best[c - 1]
        <3>3. b \in 1 .. (c - 1) /\ \A k \in 1 .. (c - 1) : ~Better(k, b) /\ (k < b => Better(b, k))
            BY <3>2
        <3>4. best[c] = IF Better(c, b) THEN c ELSE b
            BY <1>6, <2>2, <2>4
        <3> HIDE DEF b
        <3>5. \A k \in 1 .. (c - 1) : k \in Grid /\ k < c
            BY <1>2, <2>2
        <3>6. \A k \in 1 .. c : k = c \/ k \in 1 .. (c - 1)
            BY <1>2, <2>2
        <3>7. CASE Better(c, b)
            <4>1. \A k \in 1 .. (c - 1) : Better(c, k) /\ ~Better(k, c)
                BY <1>4, <2>2, <3>3, <3>5, <3>7
            <4>2. ~Better(c, c) /\ c \in 1 .. c
                BY <1>2, <1>4, <2>2
            <4>3. Leads(c)
                BY <3>4, <3>6, <3>7, <4>1, <4>2
            <4> QED
                BY <2>2, <4>3
        <3>8. CASE ~Better(c, b)
            <4>1. best[c] = b
                BY <3>4, <3>8
            <4>2. b \in 1 .. c /\ ~(c < b)
                BY <1>2, <2>2, <3>3
            <4>3. Leads(c)
                BY <3>3, <3>6, <3>8, <4>1, <4>2
            <4> QED
                BY <2>2, <4>3
        <3> QED
            BY <3>7, <3>8
    <2> QED
        BY <2>3, <2>4
<1>8. GridSize \in Grid /\ Leads(GridSize)
    BY <1>2, <1>7
<1> QED
    BY <1>1, <1>2, <1>8 DEF Better, of

-----------------------------------------------------------------------------
\* The sizes of sets that share nothing add up to the size of their union.
LEMMA SumOfParts ==
    ASSUME NEW C, NEW U, IsFiniteSet(U), NEW A \in [C -> SUBSET U],
           \A c, d \in C : c # d => A[c] \cap A[d] = {},
           NEW f, f = [c \in C |-> Cardinality(A[c])]
    PROVE  MapSum(f) = Cardinality(UNION {A[c] : c \in C})
<1> DEFINE Units == UNION {{c} \X (1 .. f[c]) : c \in DOMAIN f}
           Whole == UNION {A[c] : c \in C}
           place == [c \in C |-> CHOOSE g \in Bijection(1 .. f[c], A[c]) : TRUE]
           at == [u \in Units |-> place[u[1]][u[2]]]
<1>1. ASSUME NEW c \in C PROVE place[c] \in Bijection(1 .. f[c], A[c])
    <2>1. IsFiniteSet(A[c])
        BY FS_Subset
    <2>2. ExistsBijection(1 .. f[c], A[c])
        BY <2>1, FS_CardinalityType
    <2> QED
        BY <2>2 DEF ExistsBijection
<1> HIDE DEF place
<1>2. ASSUME NEW c \in C
      PROVE  /\ \A k \in 1 .. f[c] : place[c][k] \in A[c]
             /\ \A k, l \in 1 .. f[c] : place[c][k] = place[c][l] => k = l
             /\ \A x \in A[c] : \E k \in 1 .. f[c] : place[c][k] = x
    <2> DEFINE g == place[c]
               n == f[c]
               S == A[c]
    <2>1. g \in Bijection(1 .. n, S)
        BY <1>1
    <2> HIDE DEF g, n, S
    <2>2. g \in [1 .. n -> S] /\ IsInjective(g) /\ \A x \in S : \E k \in 1 .. n : g[k] = x
        BY <2>1 DEF Bijection, Injection, Surjection
    <2>3. /\ \A k \in 1 .. n : g[k] \in S
          /\ \A k, l \in 1 .. n : g[k] = g[l] => k = l
        BY <2>2 DEF IsInjective
    <2> QED
        BY <2>2, <2>3 DEF g, n, S
<1>3. \A u : u \in Units <=> \E c \in C : \E k \in 1 .. f[c] : u = <<c, k>>
    OBVIOUS
<1>4. \A x : x \in Whole <=> \E c \in C : x \in A[c]
    OBVIOUS
<1>5. \A c \in C : \A k \in 1 .. f[c] : <<c, k>> \in Units /\ at[<<c, k>>] = place[c][k]
    <2> SUFFICES ASSUME NEW c \in C, NEW k \in 1 .. f[c] PROVE <<c, k>> \in Units /\ at[<<c, k>>] = place[c][k]
        OBVIOUS
    <2>1. <<c, k>> \in Units
        BY <1>3
    <2> HIDE DEF Units
    <2> QED
        BY <2>1
<1>6. at = [u \in Units |-> at[u]]
    OBVIOUS
<1> HIDE DEF Units, Whole, at
<1>7. \A u \in Units : at[u] \in Whole
    BY <1>2, <1>3, <1>4, <1>5
<1>8. ASSUME NEW u \in Units, NEW v \in Units, at[u] = at[v] PROVE u = v
    <2>1. PICK c \in C : \E k \in 1 .. f[c] : u = <<c, k>>
        BY <1>3
    <2>2. PICK k \in 1 .. f[c] : u = <<c, k>>
        BY <2>1
    <2>3. PICK d \in C : \E l \in 1 .. f[d] : v = <<d, l>>
        BY <1>3
    <2>4. PICK l \in 1 .. f[d] : v = <<d, l>>
        BY <2>3
    <2>5. at[u] = place[c][k] /\ at[v] = place[d][l]
        BY <1>5, <2>2, <2>4
    <2>6. c = d
        <3>1. place[c][k] \in A[c] /\ place[d][l] \in A[d] /\ place[c][k] = place[d][l]
            BY <1>2, <1>8, <2>5
        <3>2. A[c] \cap A[d] # {}
            BY <3>1
        <3> QED
            BY <3>2
    <2> QED
        BY <1>2, <1>8, <2>2, <2>4, <2>5, <2>6
<1>9. ASSUME NEW x \in Whole PROVE \E u \in Units : at[u] = x
    <2>1. PICK c \in C : x \in A[c]
        BY <1>4
    <2>2. PICK k \in 1 .. f[c] : place[c][k] = x
        BY <1>2, <2>1
    <2>3. <<c, k>> \in Units /\ at[<<c, k>>] = x
        BY <1>5, <2>2
    <2> QED
        BY <2>3
<1>10. at \in Bijection(Units, Whole)
    BY <1>6, <1>7, <1>8, <1>9 DEF Bijection, Injection, Surjection, IsInjective
<1>11. IsFiniteSet(Whole)
    BY FS_Subset DEF Whole
<1>12. IsFiniteSet(Units) /\ (Cardinality(Units) = Cardinality(Whole) <=> at \in Surjection(Units, Whole))
    BY <1>10, <1>11, FS_Injection DEF Bijection
<1> QED
    BY <1>10, <1>12 DEF Bijection, MapSum, Units, Whole

-----------------------------------------------------------------------------
(* The report. *)

Report(n, cfg, corpus) ==
    [over |-> n, frozen |-> cfg,
     bySplit |-> [s \in Splits |-> Score(OfSplit(corpus, s), cfg)],
     byClass |-> PerClassRecall(corpus, cfg)]

LEMMA LoadedFit ==
    ASSUME settled \in Seq(Incident)
    PROVE  /\ IsFiniteSet(DOMAIN LoadIncidents(settled))
           /\ \A i \in DOMAIN LoadIncidents(settled) : LoadIncidents(settled)[i] \in Incident
<1>1. DOMAIN LoadIncidents(settled) \in SUBSET DOMAIN settled
    BY DEF LoadIncidents, Restrict
<1>2. IsFiniteSet(DOMAIN settled)
    <2>1. DOMAIN settled = 1 .. Len(settled) /\ Len(settled) \in Nat
        OBVIOUS
    <2> QED
        BY <2>1, FS_Interval
<1>3. \A i \in DOMAIN LoadIncidents(settled) : LoadIncidents(settled)[i] = settled[i]
    BY DEF LoadIncidents, Restrict
<1> QED
    BY <1>1, <1>2, <1>3, FS_Subset

LEMMA HalvesAgree ==
    ASSUME NEW corpus, IsFiniteSet(DOMAIN corpus), \A i \in DOMAIN corpus : corpus[i] \in Incident,
           NEW cfg, NEW n
    PROVE  MapSum(Report(n, cfg, corpus).byClass)
               = MapSum([s \in Splits |-> Report(n, cfg, corpus).bySplit[s].detected])
<1> DEFINE hit == {i \in DOMAIN corpus : Hit(corpus[i], cfg)}
           ofClass == [c \in EvalClasses |-> {i \in DOMAIN corpus : corpus[i].class = c /\ Hit(corpus[i], cfg)}]
           ofSplit == [s \in Splits |-> {i \in DOMAIN corpus : corpus[i].split = s /\ Hit(corpus[i], cfg)}]
           byClass == Report(n, cfg, corpus).byClass
           bySplit == [s \in Splits |-> Report(n, cfg, corpus).bySplit[s].detected]
<1>1. byClass = [c \in EvalClasses |-> Cardinality(ofClass[c])]
    BY DEF Report, PerClassRecall
<1>2. bySplit = [s \in Splits |-> Cardinality(ofSplit[s])]
    <2>1. ASSUME NEW s \in Splits PROVE bySplit[s] = Cardinality(ofSplit[s])
        <3>1. {i \in DOMAIN OfSplit(corpus, s) : Hit(OfSplit(corpus, s)[i], cfg)} = ofSplit[s]
            BY DEF OfSplit, Restrict
        <3>2. bySplit[s] = Cardinality({i \in DOMAIN OfSplit(corpus, s) : Hit(OfSplit(corpus, s)[i], cfg)})
            BY DEF Report, Score
        <3> QED
            BY <3>1, <3>2
    <2> QED
        BY <2>1
<1>3. /\ ofClass \in [EvalClasses -> SUBSET DOMAIN corpus]
      /\ \A c, d \in EvalClasses : c # d => ofClass[c] \cap ofClass[d] = {}
    OBVIOUS
<1>4. /\ ofSplit \in [Splits -> SUBSET DOMAIN corpus]
      /\ \A c, d \in Splits : c # d => ofSplit[c] \cap ofSplit[d] = {}
    OBVIOUS
<1>5. UNION {ofClass[c] : c \in EvalClasses} = hit
    BY DEF Hit, Incident
<1>6. UNION {ofSplit[s] : s \in Splits} = hit
    <2>1. \A i \in DOMAIN corpus : corpus[i].split \in Splits
        BY EvaluationAssumption DEF Incident, Splits
    <2> QED
        BY <2>1
<1> HIDE DEF ofClass, ofSplit, byClass, bySplit, hit
<1>7. MapSum(byClass) = Cardinality(UNION {ofClass[c] : c \in EvalClasses})
    BY <1>1, <1>3, SumOfParts
<1>8. MapSum(bySplit) = Cardinality(UNION {ofSplit[s] : s \in Splits})
    BY <1>2, <1>4, SumOfParts
<1> QED
    BY <1>5, <1>6, <1>7, <1>8 DEF byClass, bySplit

\* A report of all that is settled is blind to the test corpus.
LEMMA ReportIsBlind ==
    ASSUME settled \in Seq(Incident),
           NEW r, r = Report(Len(settled), FreezeOnTrainVal(LoadIncidents(settled)), LoadIncidents(settled))
    PROVE  BlindSoFar(r)
<1> DEFINE all == LoadIncidents(settled)
           seen == {i \in DOMAIN all : all[i].split # "test"}
           hits == [cfg \in Grid |-> Cardinality({i \in seen : Hit(all[i], cfg)})]
           false == [cfg \in Grid |-> Cardinality({i \in seen : Fired(all[i], cfg)})]
           faults == Cardinality({i \in seen : all[i].class # Healthy})
           f1(cfg) == <<2 * hits[cfg], faults + hits[cfg] + false[cfg]>>
           best == {cfg \in Grid : \A other \in Grid : ~Above(f1(other), f1(cfg))}
           quiet == {cfg \in best : \A other \in best : false[cfg] <= false[other]}
           of(cfg) == Score(Fit(all), cfg)
<1>1. SubSeq(settled, 1, Len(settled)) = settled
    OBVIOUS
<1>2. r.over = Len(settled) /\ r.frozen = FreezeOnTrainVal(all)
    BY DEF Report
<1>3. IsFiniteSet(DOMAIN all) /\ \A i \in DOMAIN all : all[i] \in Incident
    BY LoadedFit
<1>4. MapSum(r.byClass) = MapSum([s \in Splits |-> r.bySplit[s].detected])
    BY <1>3, HalvesAgree
<1> HIDE DEF all
<1>5. DOMAIN Fit(all) = seen /\ \A i \in seen : Fit(all)[i] = all[i]
    <2>1. \A i \in DOMAIN all : all[i].split # "test" <=> all[i].split \in {"train", "validation"}
        BY <1>3, EvaluationAssumption DEF Incident
    <2> QED
        BY <2>1 DEF Fit, Restrict
<1>6. IsFiniteSet(DOMAIN Fit(all))
    BY <1>3, <1>5, FS_Subset
<1> HIDE DEF seen
<1>7. ASSUME NEW cfg \in Grid
      PROVE  of(cfg).detected = hits[cfg] /\ of(cfg).fired = false[cfg] /\ of(cfg).faults = faults
    <2>1. /\ {i \in DOMAIN Fit(all) : Hit(Fit(all)[i], cfg)} = {i \in seen : Hit(all[i], cfg)}
          /\ {i \in DOMAIN Fit(all) : Fired(Fit(all)[i], cfg)} = {i \in seen : Fired(all[i], cfg)}
          /\ {i \in DOMAIN Fit(all) : Fit(all)[i].class # Healthy} = {i \in seen : all[i].class # Healthy}
        BY <1>5 DEF Hit, Fired
    <2> QED
        BY <2>1 DEF Score
<1> DEFINE frozen == FreezeOnTrainVal(all)
<1>8. /\ frozen \in Grid
      /\ \A k \in Grid : ~BetterKey(of(k), of(frozen)) /\ (k < frozen => BetterKey(of(frozen), of(k)))
    BY <1>6, SearchFindsBest
<1>9. \A cfg \in Grid : F1(of(cfg)) = f1(cfg)
    BY <1>7 DEF F1
<1>10. \A cfg \in Grid : false[cfg] \in Nat
    <2>1. \A T \in SUBSET seen : IsFiniteSet(T)
        BY <1>5, <1>6, FS_Subset
    <2> QED
        BY <2>1, FS_CardinalityType
<1> HIDE DEF of, f1, hits, false, faults, frozen
<1>11. \A k, l \in Grid :
           BetterKey(of(k), of(l)) <=>
               Above(f1(k), f1(l)) \/ (~Above(f1(l), f1(k)) /\ false[k] < false[l])
    BY <1>7, <1>9 DEF BetterKey
<1>12. frozen \in best
    BY <1>8, <1>11
<1>13. ASSUME NEW other \in best PROVE false[frozen] <= false[other]
    <2>1. ~Above(f1(frozen), f1(other)) /\ ~BetterKey(of(other), of(frozen)) /\ other \in Grid
        BY <1>8, <1>12
    <2>2. ~(false[other] < false[frozen])
        BY <1>8, <1>11, <2>1
    <2> QED
        BY <1>8, <1>10, <2>1, <2>2
<1>14. frozen \in quiet
    BY <1>12, <1>13
<1>15. ASSUME NEW cfg \in quiet PROVE frozen <= cfg
    <2>1. cfg \in Grid /\ ~Above(f1(frozen), f1(cfg)) /\ false[cfg] <= false[frozen]
        BY <1>8, <1>12
    <2>2. ~BetterKey(of(frozen), of(cfg))
        BY <1>8, <1>10, <1>11, <2>1
    <2>3. ~(cfg < frozen)
        BY <1>8, <2>1, <2>2
    <2>4. Grid \subseteq Int
        BY EvaluationAssumption DEF Grid
    <2> QED
        BY <1>8, <2>1, <2>3, <2>4
<1>16. r.frozen \in quiet /\ \A cfg \in quiet : r.frozen <= cfg
    BY <1>2, <1>14, <1>15 DEF frozen
<1> HIDE DEF quiet, best
<1>17. Blind(r, all) <=>
           /\ r.frozen \in quiet /\ \A cfg \in quiet : r.frozen <= cfg
           /\ MapSum(r.byClass) = MapSum([s \in Splits |-> r.bySplit[s].detected])
    BY Zenon DEF Blind, quiet, best, f1, hits, false, faults, seen
<1> QED
    BY <1>1, <1>2, <1>4, <1>16, <1>17 DEF BlindSoFar, all

-----------------------------------------------------------------------------
LEMMA EvaluationStart == EvaluationInit => EvaluationInv
BY DEF EvaluationInit, EvaluationInv

LEMMA SettleKeeps == EvaluationInv /\ SettleIncident => EvaluationInv'
<1> SUFFICES ASSUME EvaluationInv, SettleIncident PROVE EvaluationInv'
    OBVIOUS
<1>1. UNCHANGED <<script, report>>
    BY DEF SettleIncident
<1>2. PICK more \in Incident : settled' = Append(settled, more)
    <2>1. PICK class \in EvalClasses \cup {Healthy}, split \in EvalSplits, window \in {"missing", "empty", "read"} :
              \E hits \in IF window = "read" THEN SUBSET Grid ELSE {{}} :
                 settled' = Append(settled, [class |-> class, split |-> split, window |-> window, hits |-> hits])
        BY DEF SettleIncident
    <2>2. PICK hits \in SUBSET Grid :
              settled' = Append(settled, [class |-> class, split |-> split, window |-> window, hits |-> hits])
        BY <2>1
    <2> QED
        BY <2>2 DEF Incident
<1>3. settled' \in Seq(Incident) /\ Len(settled') = Len(settled) + 1
    BY <1>2 DEF EvaluationInv
<1>4. CASE report = <<>>
    BY <1>1, <1>3, <1>4 DEF EvaluationInv
<1>5. CASE report # <<>>
    <2>1. PICK r : report = <<r>> /\ r.over \in 0 .. Len(settled) /\ BlindSoFar(r)
        BY <1>5 DEF EvaluationInv
    <2>2. SubSeq(settled', 1, r.over) = SubSeq(settled, 1, r.over)
        <3>1. settled \in Seq(Incident)
            BY DEF EvaluationInv
        <3> QED
            BY <1>2, <2>1, <3>1
    <2>3. BlindSoFar(r)'
        BY <1>1, <2>1, <2>2 DEF BlindSoFar, LoadIncidents
    <2>4. r.over \in 0 .. Len(settled')
        BY <1>3, <2>1 DEF EvaluationInv
    <2> QED
        BY <1>1, <1>3, <2>1, <2>3, <2>4 DEF EvaluationInv
<1> QED
    BY <1>4, <1>5

LEMMA EvaluateKeeps == EvaluationInv /\ Evaluate => EvaluationInv'
<1> SUFFICES ASSUME EvaluationInv, Evaluate PROVE EvaluationInv'
    OBVIOUS
<1>1. UNCHANGED <<script, settled>> /\ settled \in Seq(Incident)
    BY DEF Evaluate, EvaluationInv
<1>2. PICK r : r = Report(Len(settled), FreezeOnTrainVal(LoadIncidents(settled)), LoadIncidents(settled))
    OBVIOUS
<1>3. report' = <<r>> /\ r.over = Len(settled)
    BY <1>2 DEF Evaluate, Report
<1>4. BlindSoFar(r)
    BY <1>1, <1>2, ReportIsBlind
<1>5. BlindSoFar(r)'
    BY <1>1, <1>4 DEF BlindSoFar, LoadIncidents
<1> QED
    BY <1>1, <1>3, <1>5 DEF EvaluationInv

\* No test incident has a say in the thresholds, for any grid, any classes, any order in which
\* corpus are settled and reports made (evaluate_sensors.py:5, 186-199, 216-233).
THEOREM ThresholdsStayBlind == EvaluationSpec => []ThresholdsAreBlind
<1>1. EvaluationInv /\ [EvaluationNext]_evaluation => EvaluationInv'
    <2> SUFFICES ASSUME EvaluationInv, UNCHANGED evaluation PROVE EvaluationInv'
        BY SettleKeeps, EvaluateKeeps DEF EvaluationNext
    <2> QED
        BY DEF EvaluationInv, evaluation, BlindSoFar, LoadIncidents
<1>2. EvaluationInv => ThresholdsAreBlind
    BY DEF EvaluationInv, BlindSoFar, ThresholdsAreBlind, ToSet
<1> QED
    BY EvaluationStart, <1>1, <1>2, PTL DEF EvaluationSpec
=============================================================================
