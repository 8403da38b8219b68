---------------------------- MODULE Localization ----------------------------
(***************************************************************************)
(* Which link is at fault: incidents of the corpus one after another on    *)
(* the links of the fabric, the windows that are captured of both ends of  *)
(* every link (datasets/telemetry_window.py, corpus_run_v3.py), and the    *)
(* ranking of the links by the rule on the operational state               *)
(* (scripts/gate12_5_localization_ablation.py).                            *)
(*                                                                         *)
(* Prometheus is external.  The state is a label of its series, so a state *)
(* that has ended is still answered for Lookback scrapes, beside the new   *)
(* one.  The fitted rankers (MLP, GNN) are left out.                       *)
(***************************************************************************)
EXTENDS Integers, Sequences, FiniteSets, SequencesExt, FiniteSetsExt

CONSTANTS Links,       \* the fabric links
          Lookback,    \* scrapes for which a series is answered after its last sample
          MaxScrapes,  \* bound on the scrapes of a behaviour
          Injected,    \* the classes of the corpus that are injected
          StateGaps    \* the sets of interfaces whose state may be missing from the windows

Blunt == {"admin_shutdown", "carrier_loss", "intermittent_link"}
Gray == {"rate_limited_uplink", "impaired_link"}
Ifaces == Links \X {"leaf", "spine"}

ASSUME LocalizationAssumption ==
    /\ Lookback \in Nat /\ MaxScrapes \in Nat /\ IsFiniteSet(Links)
    /\ Injected \subseteq Blunt \cup Gray \cup {"healthy_control"}
    /\ StateGaps \subseteq SUBSET Ifaces

VARIABLES
    oper,      \* of every interface, the state at each scrape
    incident,  \* the incident under way, or <<>>
    loaded     \* what load makes of the last incident that settled, or <<>>: each is ranked by itself

places == <<oper, incident, loaded>>

LocalizationInit ==
    /\ oper = [i \in Ifaces |-> <<>>]
    /\ incident = <<>> /\ loaded = <<>>

Scrapes == Len(oper[CHOOSE i \in Ifaces : TRUE])

Onset ==
    /\ incident = <<>> /\ Scrapes + 1 < MaxScrapes
    /\ \E l \in Links, c \in Injected : incident' = <<[target |-> l, class |-> c, start |-> Scrapes + 1]>>
    /\ UNCHANGED <<oper, loaded>>

\* A blunt fault takes the ends of its link down, from one scrape to the next or for some of them:
\* the window begins before it is applied, and a flap may fall between two scrapes.
ScrapeAll ==
    /\ Scrapes < MaxScrapes
    /\ \E down \in SUBSET {i \in Ifaces : \E inc \in Range(incident) : i[1] = inc.target /\ inc.class \in Blunt} :
          oper' = [i \in Ifaces |-> Append(oper[i], IF i \in down THEN "down" ELSE "up")]
    /\ UNCHANGED <<incident, loaded>>

-----------------------------------------------------------------------------
(* capture_window *)

\* At each step of the range, a sample of every state that a scrape of the last Lookback saw.
CaptureWindow(i, start, end) ==
    {p \in (start .. end) \X {"up", "down"} :
        \E u \in DOMAIN oper[i] : p[1] - Lookback <= u /\ u <= p[1] /\ oper[i][u] = p[2]}

\* Mutant of OperDown: every sample has to be down.
OperDownThroughout(window) == \A p \in window : p[2] = "down"

\* iface_features
OperDown(window) == \E p \in window : p[2] = "down"

\* Onset is read off the device at the end of the window, and a flap passes unread.
OnsetVerified(inc) ==
    inc.class \in {"admin_shutdown", "carrier_loss"} => oper[<<inc.target, "leaf">>][Scrapes] = "down"

\* The windows are captured, the fault is cleared, and load reads them.  An incident is quarantined,
\* or passed over because an interface has no sample at all; an interface that has counters but no
\* state is kept.
Settle ==
    /\ incident # <<>> /\ Scrapes >= incident[1].start
    /\ incident' = <<>>
    /\ \/ UNCHANGED loaded
       \/ /\ OnsetVerified(incident[1])
          /\ \E stateless \in StateGaps :
                LET window(i) == IF i \in stateless THEN {} ELSE CaptureWindow(i, incident[1].start, Scrapes)
                IN loaded' =
                       <<[target |-> incident[1].target, class |-> incident[1].class,
                         start |-> incident[1].start, end |-> Scrapes, stateless |-> stateless,
                         down |-> [i \in Ifaces |-> OperDown(window(i))]]>>
    /\ UNCHANGED oper

LocalizationNext == Onset \/ ScrapeAll \/ Settle

LocalizationSpec == LocalizationInit /\ [][LocalizationNext]_places

-----------------------------------------------------------------------------
(* rule_score_fn, eval_ranks, auroc.  Ranks and areas are doubled. *)

RuleScore(inc) == [l \in Links |-> IF inc.down[<<l, "leaf">>] \/ inc.down[<<l, "spine">>] THEN 1 ELSE 0]

\* Tied links share their average rank.
DoubledRank(score, target) ==
    2 * Cardinality({l \in Links : score[l] > score[target]}) + 2
    + Cardinality({l \in Links : score[l] = score[target]}) - 1

\* The pairs of a faulted and a peer score that are in order, a tie for half a pair.
DoubledWins(score, target) ==
    2 * Cardinality({l \in Links \ {target} : score[target] > score[l]})
    + Cardinality({l \in Links \ {target} : score[target] = score[l]})

-----------------------------------------------------------------------------
(* Properties. *)

\* The interfaces whose state is in the windows and was down at a scrape of the window or its lookback.
SeenDown(inc) ==
    {i \in Ifaces \ inc.stateless :
        \E u \in DOMAIN oper[i] : inc.start - Lookback <= u /\ u <= inc.end /\ oper[i][u] = "down"}

\* The links other than the target that were.
Beside(inc) == {i[1] : i \in SeenDown(inc)} \ {inc.target}

\* What the rule makes of an incident is settled by what the scrapes saw of the states, whatever its
\* class.  A target seen down is beaten by no link and shares its place with each other link that was
\* down in the window or the lookback: it is first, alone, only if there is none, and then it is
\* although its window begins while it is still up.  A target never seen down, because its state is
\* missing, a flap fell between two scrapes or nothing takes it down, ranks below all those and in
\* the middle of the rest.  And an admin_shutdown or a carrier_loss that settled was seen down if its
\* state was answered (gate12_5_localization_ablation.py:76-101, 162-180, 225-250, 288-297,
\* faults.py:103-107, telemetry_window.py:126-137).
RuleRanksWhatItSees ==
    \A inc \in Range(loaded) :
        LET rank == DoubledRank(RuleScore(inc), inc.target)
            wins == DoubledWins(RuleScore(inc), inc.target)
        IN /\ IF \E end \in {"leaf", "spine"} : <<inc.target, end>> \in SeenDown(inc)
              THEN /\ rank = 2 + Cardinality(Beside(inc))
                   /\ wins = 2 * (Cardinality(Links) - 1) - Cardinality(Beside(inc))
              ELSE rank = Cardinality(Links) + 1 + Cardinality(Beside(inc))
           /\ inc.class \in {"admin_shutdown", "carrier_loss"} /\ <<inc.target, "leaf">> \notin inc.stateless =>
                  <<inc.target, "leaf">> \in SeenDown(inc)
=============================================================================
