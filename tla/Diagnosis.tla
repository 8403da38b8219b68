----------------------------- MODULE Diagnosis -----------------------------
(***************************************************************************)
(* One run of the diagnosis workflow: evidence is collected with the       *)
(* budgeted tools (evidence/tools.py) and frozen; a local model, prompted  *)
(* again when its reply is malformed (workflow/llm.py), or the rule-based  *)
(* fallback proposes hypotheses; each claim is verified against the frozen *)
(* evidence (evidence/claims.py); the first hypothesis whose claims hold   *)
(* and entail its class is committed, or none is (workflow/diagnose.py).   *)
(*                                                                         *)
(* Numbers are in halves, so that the comparison with 0.5 is one with 1.   *)
(* A text is a model value.  An evidence id is what it is made of: the     *)
(* subject, the metric and the time.  Reads that overlap repeat ids, and   *)
(* the records of one id need not agree.                                   *)
(***************************************************************************)
EXTENDS Integers, Sequences, SequencesExt

CONSTANTS
    Tools,          \* the calls of the collect stage: sets of evidence keys, read together
    Numbers, Texts, \* the values a record may have, by the type of its metric
    TextMetrics,    \* the metrics whose value is a text
    AsOf, Limit,    \* bounds of a tool call: latest time, most records
    MaxCalls, MaxRows, MaxTokens, \* budgets
    MaxRepairs,     \* prompts after the first
    MaxHypotheses,  \* hypotheses that are tested
    Costs,          \* tokens one exchange with the model may take
    Replies         \* well-formed replies of the model: sequences of hypotheses

ASSUME DiagnosisAssumption ==
    /\ {AsOf, Limit, MaxCalls, MaxRows, MaxTokens, MaxRepairs, MaxHypotheses} \subseteq Nat
    /\ Costs \subseteq Nat
    /\ \A keys \in Tools : IsFiniteSet(keys) /\ \A key \in keys : key.at \in Nat
    /\ \A reply \in Replies : reply \in Seq(ToSet(reply))
    /\ \A reply \in Replies : \A h \in ToSet(reply) : \A claim \in ToSet(h.claims) :
           claim.comparison \in Int \cup Texts
    /\ "oper_state" \notin TextMetrics /\ Numbers \subseteq Int /\ Texts \cap Int = {}

VARIABLES
    pc,             \* collect, hypothesize, test, done or raised
    hypothesizer,   \* who proposes: the model, or the rules that stand in for it
    snapshot,       \* the evidence records so far, frozen after collect
    calls, rows,    \* the tool budget's counters
    attempt, used,  \* prompts made, tokens used
    proposed,       \* the hypotheses still to test
    committed       \* the hypothesis that was committed, as a sequence of at most one

toolBudget == <<calls, rows>>
llm == <<attempt, used>>
vars == <<pc, hypothesizer, snapshot, toolBudget, llm, proposed, committed>>

Value(key) == IF key.metric \in TextMetrics THEN Texts ELSE Numbers
IsNumber(v) == v \notin Texts
AtMost(n, s) == SubSeq(s, 1, Min({n, Len(s)}))

Init ==
    /\ pc = "collect" /\ snapshot = <<>>
    /\ hypothesizer \in {"model", "rules"}
    /\ calls = 0 /\ rows = 0
    /\ attempt = 0 /\ used = 0
    /\ proposed = <<>> /\ committed = <<>>
-----------------------------------------------------------------------------
(* Budget.charge counts a call before it refuses it. *)
Refused == calls' > MaxCalls \/ rows' > MaxRows

(* What a source may hold under the keys of a call. *)
Rows(keys) == {r \in [id : keys, value : Numbers \cup Texts] : r.value \in Value(r.id)}

(* _emit drops what comes after the causal bound, then all beyond the limit of a call: what is *)
(* left of the rows of a source, which may answer any of them, in any order and repeatedly.    *)
Kept(keys) == UNION {[1..n -> {r \in Rows(keys) : r.id.at <= AsOf}] : n \in 0..Limit}

CallTool(keys) ==
    /\ pc = "collect" /\ calls <= MaxCalls
    /\ \E kept \in Kept(keys) :
          /\ calls' = calls + 1
          /\ rows' = rows + Len(kept)
          /\ snapshot' = IF Refused THEN snapshot ELSE snapshot \o kept
    /\ UNCHANGED <<pc, hypothesizer, llm, proposed, committed>>

(* The snapshot is frozen, and the model or the fallback takes over. *)
Freeze ==
    /\ pc = "collect"
    /\ pc' = "hypothesize"
    /\ UNCHANGED <<hypothesizer, snapshot, toolBudget, llm, proposed, committed>>
-----------------------------------------------------------------------------
(* LlmHypothesizer.hypothesize *)
Propose(hypotheses) ==
    /\ pc' = "test"
    /\ proposed' = AtMost(MaxHypotheses, hypotheses)
    /\ UNCHANGED <<hypothesizer, snapshot, toolBudget, committed>>

Exhausted == used >= MaxTokens

Prompting == pc = "hypothesize" /\ hypothesizer = "model"
Stopped == Exhausted \/ attempt > MaxRepairs

(* Out of tokens or of repairs: the workflow goes on with no hypothesis. *)
Abstain ==
    /\ Prompting /\ Stopped
    /\ Propose(<<>>)
    /\ UNCHANGED llm

Charge ==
    /\ Prompting /\ ~Stopped
    /\ attempt' = attempt + 1
    /\ \E cost \in Costs : used' = used + cost

Answer == Charge /\ \E reply \in Replies : Propose(reply)

Malformed == Charge /\ UNCHANGED <<pc, hypothesizer, snapshot, toolBudget, proposed, committed>>

(* A reply that is JSON of the wrong shape, charged for, or no reply at all *)
(* is an error that no handler of the workflow catches.                     *)
Raise ==
    /\ Charge \/ (Prompting /\ ~Stopped /\ UNCHANGED llm)
    /\ pc' = "raised"
    /\ UNCHANGED <<hypothesizer, snapshot, toolBudget, proposed, committed>>
-----------------------------------------------------------------------------
(* RuleHypothesizer.hypothesize: every link that was read down at some time, *)
(* in the order of the snapshot, is claimed to be down at all of its reads.  *)
(* A metric has one unit, so the units of claims and records always agree.   *)
Records == {snapshot[i] : i \in DOMAIN snapshot}
OperRecords(link) == {r \in Records : r.id.subject = link /\ r.id.metric = "oper_state"}
WasDown(link) == \E r \in OperRecords(link) : r.value < 1

(* Mutant: the claim cites the reads that support it only. *)
SustainedDownCherryPicked(link) ==
    [id |-> link, sustained |-> TRUE, subject |-> link, metric |-> "oper_state",
     operator |-> "<", comparison |-> 1, polarity |-> TRUE, from |-> 0, to |-> AsOf,
     cites |-> {r.id : r \in {q \in OperRecords(link) : q.value < 1}}]

SustainedDown(link) ==
    [id |-> link, sustained |-> TRUE, subject |-> link, metric |-> "oper_state",
     operator |-> "<", comparison |-> 1, polarity |-> TRUE,
     from |-> Min({r.id.at : r \in OperRecords(link)}), to |-> AsOf,
     cites |-> {r.id : r \in OperRecords(link)}]

(* Where a link that was down was read first, and the links in that order. *)
DownReads ==
    {i \in DOMAIN snapshot :
        /\ snapshot[i].id.metric = "oper_state" /\ WasDown(snapshot[i].id.subject)
        /\ \A j \in 1..(i - 1) : snapshot[j].id.metric = "oper_state" =>
               snapshot[j].id.subject # snapshot[i].id.subject}

LinksInOrder ==
    [k \in 1..Cardinality(DownReads) |->
        snapshot[CHOOSE i \in DownReads : Cardinality({j \in DownReads : j <= i}) = k].id.subject]

Outage(link) == [class |-> "link_down", subject |-> link, claims |-> <<SustainedDown(link)>>]

RulesPropose ==
    /\ pc = "hypothesize" /\ hypothesizer = "rules"
    /\ Propose([k \in DOMAIN LinksInOrder |-> Outage(LinksInOrder[k])])
    /\ UNCHANGED llm
-----------------------------------------------------------------------------
(* _satisfies, for a value of the operator's type. *)
Comparable(claim, v) ==
    claim.operator = "==" \/ (IsNumber(v) /\ IsNumber(claim.comparison))

Satisfies(claim, v) ==
    CASE claim.operator = "<" -> v < claim.comparison
      [] claim.operator = "<=" -> v <= claim.comparison
      [] claim.operator = ">" -> v > claim.comparison
      [] claim.operator = ">=" -> v >= claim.comparison
      [] claim.operator = "==" -> v = claim.comparison

(* Snapshot.by_id: of the records of one id it finds the first. *)
First(id) == snapshot[Min({i \in DOMAIN snapshot : snapshot[i].id = id})]
Found == {r \in Records : r = First(r.id)}

(* verify: what the claim cites and is about, then its predicate. *)
Matched(claim) ==
    {r \in Found :
        /\ r.id \in claim.cites
        /\ r.id.subject = claim.subject /\ r.id.metric = claim.metric
        /\ claim.from <= r.id.at /\ r.id.at <= claim.to}

Holds(claim) ==
    IF claim.sustained
    THEN \A r \in Matched(claim) : Satisfies(claim, r.value)
    ELSE \E r \in Matched(claim) : Satisfies(claim, r.value)

(* Mutant: a claim that matches no evidence is not insufficient. *)
SupportedVacuously(claim) ==
    /\ \A r \in Matched(claim) : Comparable(claim, r.value)
    /\ Holds(claim) = claim.polarity

Supported(claim) ==
    /\ Matched(claim) # {}
    /\ \A r \in Matched(claim) : Comparable(claim, r.value)
    /\ Holds(claim) = claim.polarity

(* diagnose keeps the verdicts by claim id: of two claims with one id the *)
(* later one counts.                                                      *)
Verdicts(claims) ==
    {claims[i] : i \in {i \in DOMAIN claims :
        \A j \in DOMAIN claims \ {i} : claims[j].id = claims[i].id => j < i}}

Classes == {"link_down", "bgp_session_down"}

(* DiagnosisDef.entailed_by: neither whom the claim is about nor what it compares with counts. *)
EntailedBy(class, claim) ==
    /\ claim.polarity
    /\ \/ class = "link_down" /\ claim.metric = "oper_state" /\ claim.operator \in {"<", "<="}
       \/ class = "bgp_session_down" /\ claim.metric = "bgp_session_state" /\ claim.operator = "=="

Committable(hypothesis) ==
    /\ hypothesis.class \in Classes
    /\ hypothesis.claims # <<>>
    /\ \A claim \in Verdicts(hypothesis.claims) : Supported(claim)
    /\ \E i \in DOMAIN hypothesis.claims : EntailedBy(hypothesis.class, hypothesis.claims[i])

TestNext ==
    /\ pc = "test" /\ proposed # <<>>
    /\ IF Committable(Head(proposed))
       THEN pc' = "done" /\ committed' = <<Head(proposed)>>
       ELSE UNCHANGED <<pc, committed>>
    /\ proposed' = Tail(proposed)
    /\ UNCHANGED <<hypothesizer, snapshot, toolBudget, llm>>

Undiagnosed ==
    /\ pc = "test" /\ proposed = <<>>
    /\ pc' = "done"
    /\ UNCHANGED <<hypothesizer, snapshot, toolBudget, llm, proposed, committed>>

Next ==
    \/ \E keys \in Tools : CallTool(keys)
    \/ Freeze
    \/ Abstain \/ Answer \/ Malformed \/ Raise
    \/ RulesPropose \/ TestNext \/ Undiagnosed

Spec == Init /\ [][Next]_vars
-----------------------------------------------------------------------------
(* Type invariant: the evidence stays within the row budget and the causal  *)
(* bound, and no more hypotheses than allowed are on the table.             *)
TypeOK ==
    /\ pc \in {"collect", "hypothesize", "test", "done", "raised"}
    /\ hypothesizer \in {"model", "rules"}
    /\ \A r \in Records : r.id.at <= AsOf /\ r.value \in Value(r.id)
    /\ Len(snapshot) <= MaxRows
    /\ calls \in 0..(MaxCalls + 1) /\ rows \in Nat
    /\ attempt \in 0..(MaxRepairs + 1) /\ used \in Nat
    /\ Len(proposed) <= MaxHypotheses
    /\ Len(committed) <= 1

Committed == {committed[i] : i \in DOMAIN committed}

(* A committed diagnosis is a fault of its subject, as far as its claims say so (claims.py:8-11,     *)
(* diagnose.py:52-54): where a claim that is not overshadowed by a later one of its id entails the   *)
(* class and is about the subject of the diagnosis, a record of that subject shows what it claims -  *)
(* the link, at most half up, unless more was allowed; the session, in the state that was named -    *)
(* whatever else the model replied and however the ids of the evidence repeat.                       *)
DiagnosisIsGrounded ==
    \A h \in Committed : \A claim \in Verdicts(h.claims) :
        EntailedBy(h.class, claim) /\ claim.subject = h.subject =>
            \E r \in Records :
                /\ r.id.subject = h.subject
                /\ h.class = "link_down" =>
                       r.id.metric = "oper_state" /\ (claim.comparison <= 1 => r.value <= 1)
                /\ h.class = "bgp_session_down" =>
                       r.id.metric = "bgp_session_state" /\ r.value = claim.comparison

(* "a fooled or adversarial model cannot fabricate a diagnosis" (llm.py:4-7): a link that is *)
(* diagnosed as down was read down.  The gates do not see to it (diagnose.py:43-48, 101-104). *)
NotFabricated == \A h \in Committed : h.class = "link_down" => WasDown(h.subject)

(* The fallback calls an outage exactly what was one: it commits a link as down only if it was down *)
(* at every read that a claim can cite, since a flap is no outage; and when it abstains although no *)
(* more links were ever down than it may propose, each of them was up at one (diagnose.py:117-147). *)
(* A read whose id was taken by an earlier one cannot be cited (claims.py:51-52, tools.py:97).      *)
CitedReads(link) == OperRecords(link) \cap Found
FallbackFindsOutage ==
    LET links == {r.id.subject : r \in Records}
    IN  hypothesizer = "rules" =>
        /\ \A h \in Committed :
              WasDown(h.subject) /\ \A r \in CitedReads(h.subject) : r.value < 1
        /\ pc = "done" /\ committed = <<>>
           /\ Cardinality({link \in links : WasDown(link)}) <= MaxHypotheses
           => \A link \in links :
                 WasDown(link) => \E r \in CitedReads(link) : ~(r.value < 1)
=============================================================================
