----------------------------- MODULE Correlator -----------------------------
(***************************************************************************)
(* incidents/correlator.py under concurrency: sessions that each deliver   *)
(* one detector signal, once or several times in a row, and then commit.   *)
(*                                                                         *)
(* PostgreSQL runs at READ COMMITTED: a SELECT sees committed rows and the *)
(* session's own; an INSERT that meets an unfinished insert of the same    *)
(* unique key waits for that session to end.  The rows a session inserted  *)
(* and did not commit are `own`; they appear in the tables at its commit,  *)
(* or nowhere.  Every session slot is used once.                           *)
(***************************************************************************)
EXTENDS Integers, FiniteSets

CONSTANTS Sessions,    \* database sessions, one transaction each
          Keys,        \* incident keys
          Signals,     \* detector signals, that is, pairs (source, source_event_id)
          KeyOf,       \* the incident key that a detector gives each of its signals
          MaxCalls     \* bound on correlate_signal calls in one transaction

ASSUME CorrelatorAssumption ==
    /\ KeyOf \in [Signals -> Keys]
    /\ MaxCalls \in Nat \ {0}

VARIABLES
    incidents,  \* committed incidents: [id, key]; an id is the session that made it
    signals,    \* committed incident_signals: [signal, incident]
    events,     \* committed incident_events: [incident, seq, type, signal]
    audit,      \* committed audit rows of the correlator: <<incident, seq of its event>>
    pc,         \* where each session is
    sig,        \* the signal each session delivers
    calls,      \* correlate_signal calls of each session so far
    inc,        \* the incident id of the current call
    created,    \* whether the current call found no incident
    seq,        \* the sequence number its event row carries
    own,        \* kinds of rows inserted and not committed
    answer      \* how each session ended

dbVars == <<incidents, signals, events, audit>>
vars   == <<incidents, signals, events, audit,
            pc, sig, calls, inc, created, seq, own, answer>>

Rows == {"incident", "signal", "event"}
EventTypes == {"opened", "signal_attached"}
Locations == {"new", "find", "open", "attach", "append", "flush", "close", "done"}
NoId == "no id"
NoSeq == -1

-----------------------------------------------------------------------------
Init ==
    /\ incidents = {} /\ signals = {} /\ events = {} /\ audit = {}
    /\ pc = [c \in Sessions |-> "new"]
    /\ sig \in [Sessions -> Signals]
    /\ calls = [c \in Sessions |-> 1]
    /\ inc = [c \in Sessions |-> NoId]
    /\ created = [c \in Sessions |-> FALSE]
    /\ seq = [c \in Sessions |-> NoSeq]
    /\ own = [c \in Sessions |-> {}]
    /\ answer = [c \in Sessions |-> ""]

Goto(c, l) == pc' = [pc EXCEPT ![c] = l]

Insert(c, row) == own' = [own EXCEPT ![c] = @ \cup {row}]

\* The transaction ends without effect: IntegrityError and the caller's rollback, or the
\* connection is lost.
Fail(c) ==
    /\ Goto(c, "done")
    /\ own' = [own EXCEPT ![c] = {}]
    /\ answer' = [answer EXCEPT ![c] = "failed"]

\* Mutant of KeyHeld: a failed session keeps its rows locked.
KeyHeldByFailed(c) ==
    \E d \in Sessions \ {c} : inc[d] = d /\ answer[d] # "committed" /\ KeyOf[sig[d]] = KeyOf[sig[c]]

\* Another session has inserted the same unique key and has not ended.
KeyHeld(c)    == \E d \in Sessions \ {c} : "incident" \in own[d] /\ KeyOf[sig[d]] = KeyOf[sig[c]]
SignalHeld(c) == \E d \in Sessions \ {c} : "signal" \in own[d] /\ sig[d] = sig[c]
EventHeld(c)  == \E d \in Sessions \ {c} : "event" \in own[d] /\ inc[d] = inc[c] /\ seq[d] = seq[c]

\* The SELECT by incident_key.
Find(c) ==
    LET mine == "incident" \in own[c]
    IN /\ pc[c] \in {"new", "find"}
       /\ \/ /\ ~mine /\ \A i \in incidents : i.key # KeyOf[sig[c]]
             /\ created' = [created EXCEPT ![c] = TRUE]
             /\ Goto(c, "open")
             /\ UNCHANGED inc
          \/ /\ \/ mine /\ UNCHANGED inc
                \/ \E i \in incidents : /\ i.key = KeyOf[sig[c]]
                                        /\ inc' = [inc EXCEPT ![c] = i.id]
             /\ created' = [created EXCEPT ![c] = FALSE]
             /\ Goto(c, "attach")
       /\ UNCHANGED <<dbVars, sig, calls, seq, own, answer>>

\* Mutant of OpenIncident: incident_key is not unique.
OpenIncidentUnchecked(c) ==
    /\ pc[c] = "open"
    /\ Insert(c, "incident")
    /\ inc' = [inc EXCEPT ![c] = c]
    /\ Goto(c, "attach")
    /\ UNCHANGED <<dbVars, sig, calls, created, seq, answer>>

\* The flush of a new Incident, unique on incident_key.
OpenIncident(c) ==
    /\ pc[c] = "open"
    /\ ~KeyHeld(c)
    /\ IF \E i \in incidents : i.key = KeyOf[sig[c]]
       THEN Fail(c) /\ UNCHANGED inc
       ELSE /\ Insert(c, "incident")
            /\ inc' = [inc EXCEPT ![c] = c]
            /\ Goto(c, "attach")
            /\ UNCHANGED answer
    /\ UNCHANGED <<dbVars, sig, calls, created, seq>>

Attached(c) == "signal" \in own[c] \/ \E r \in signals : r.signal = sig[c]

\* Mutant of AttachSignal: an unfinished insert of the signal counts as a duplicate.
AttachSignalSkipsHeld(c) ==
    /\ pc[c] = "attach"
    /\ LET fresh == ~Attached(c) /\ ~SignalHeld(c)
       IN /\ IF fresh THEN Insert(c, "signal") ELSE UNCHANGED own
          /\ Goto(c, IF created[c] \/ fresh THEN "append" ELSE "flush")
    /\ UNCHANGED <<dbVars, sig, calls, inc, created, seq, answer>>

\* INSERT ... ON CONFLICT (source, source_event_id) DO NOTHING.  Only a fresh signal, or a
\* new incident, gets an event.
AttachSignal(c) ==
    /\ pc[c] = "attach"
    /\ ~SignalHeld(c)
    /\ IF Attached(c) THEN UNCHANGED own ELSE Insert(c, "signal")
    /\ Goto(c, IF created[c] \/ ~Attached(c) THEN "append" ELSE "flush")
    /\ UNCHANGED <<dbVars, sig, calls, inc, created, seq, answer>>

EventsOf(i) == {e \in events : e.incident = i}

\* One more than the largest committed sequence number.
NextSeq(i) ==
    LET taken == {e.seq : e \in EventsOf(i)}
    IN IF taken = {} THEN 1 ELSE (CHOOSE m \in taken : \A n \in taken : n <= m) + 1

\* The SELECT of _append_event.  The event row waits in the session for the next flush.
AppendEvent(c) ==
    /\ pc[c] = "append"
    /\ seq' = [seq EXCEPT ![c] = NextSeq(inc[c])]
    /\ Goto(c, "flush")
    /\ UNCHANGED <<dbVars, sig, calls, inc, created, own, answer>>

\* Mutant of FlushEvent: (incident_id, sequence_no) is not unique.
FlushEventUnchecked(c) ==
    /\ pc[c] = "flush"
    /\ IF seq[c] = NoSeq THEN UNCHANGED own ELSE Insert(c, "event")
    /\ Goto(c, "close")
    /\ UNCHANGED <<dbVars, sig, calls, inc, created, seq, answer>>

\* The flush by the next call's SELECT or by the commit: unique on (incident, sequence_no).
FlushEvent(c) ==
    /\ pc[c] = "flush"
    /\ IF seq[c] = NoSeq \/ "event" \in own[c]
       THEN Goto(c, "close") /\ UNCHANGED <<own, answer>>
       ELSE /\ ~EventHeld(c)
            /\ IF \E e \in EventsOf(inc[c]) : e.seq = seq[c]
               THEN Fail(c)
               ELSE Insert(c, "event") /\ Goto(c, "close") /\ UNCHANGED answer
    /\ UNCHANGED <<dbVars, sig, calls, inc, created, seq>>

\* The caller calls correlate_signal again in the same session ...
CallAgain(c) ==
    /\ pc[c] = "close" /\ calls[c] < MaxCalls
    /\ calls' = [calls EXCEPT ![c] = @ + 1]
    /\ Goto(c, "find")
    /\ UNCHANGED <<dbVars, sig, inc, created, seq, own, answer>>

\* ... or commits.
Commit(c) ==
    LET row(kind, r) == IF kind \in own[c] THEN {r} ELSE {}
        type == IF "incident" \in own[c] THEN "opened" ELSE "signal_attached"
    IN /\ pc[c] = "close"
       /\ incidents' = incidents \cup row("incident", [id |-> inc[c], key |-> KeyOf[sig[c]]])
       /\ audit' = audit \cup row("incident", <<inc[c], seq[c]>>)
       /\ signals' = signals \cup row("signal", [signal |-> sig[c], incident |-> inc[c]])
       /\ events' = events \cup row("event", [incident |-> inc[c], seq |-> seq[c],
                                              type |-> type, signal |-> sig[c]])
       /\ own' = [own EXCEPT ![c] = {}]
       /\ answer' = [answer EXCEPT ![c] = "committed"]
       /\ Goto(c, "done")
       /\ UNCHANGED <<sig, calls, inc, created, seq>>

\* The session is lost at any point before its commit.
Lose(c) ==
    /\ pc[c] \notin {"new", "done"}
    /\ Fail(c)
    /\ UNCHANGED <<dbVars, sig, calls, inc, created, seq>>

Step(c) ==
    \/ Find(c)
    \/ OpenIncident(c)
    \/ AttachSignal(c)
    \/ AppendEvent(c)
    \/ FlushEvent(c)
    \/ CallAgain(c)
    \/ Commit(c)

Next == \E c \in Sessions : Step(c) \/ Lose(c)

Spec == Init /\ [][Next]_vars

\* PostgreSQL grants a released lock and the event loop resumes a session that can run.
FairSpec == Spec /\ \A c \in Sessions : WF_vars(Step(c) /\ pc[c] # "new")

-----------------------------------------------------------------------------
(* Properties. *)

TypeOK ==
    /\ incidents \subseteq [id : Sessions, key : Keys]
    /\ signals \subseteq [signal : Signals, incident : Sessions]
    /\ events \subseteq [incident : Sessions, seq : Nat \ {0}, type : EventTypes, signal : Signals]
    /\ audit \subseteq Sessions \X (Nat \ {0})
    /\ pc \in [Sessions -> Locations]
    /\ sig \in [Sessions -> Signals]
    /\ calls \in [Sessions -> 1 .. MaxCalls]
    /\ inc \in [Sessions -> Sessions \cup {NoId}]
    /\ created \in [Sessions -> BOOLEAN]
    /\ seq \in [Sessions -> Nat \cup {NoSeq}]
    /\ own \in [Sessions -> SUBSET Rows]
    /\ answer \in [Sessions -> {"", "committed", "failed"}]

\* Racing first signals of one key open one incident (correlator.py:33-46, incident_key unique).
OneIncidentPerKey == \A i, j \in incidents : i.key = j.key => i = j

\* The three tables tell one story: an incident has as many events as signals, numbered from
\* 1 without gap or repetition although every session picked its number from what was
\* committed when it looked (correlator.py:51-80, 91-107), and only number 1 opened it.
HistoryMatchesSignals ==
    \A i \in incidents :
        LET rows     == EventsOf(i.id)
            attached == {r.signal : r \in {q \in signals : q.incident = i.id}}
        IN /\ {e.seq : e \in rows} = 1 .. Cardinality(rows)
           /\ {e.signal : e \in rows} = attached
           /\ Cardinality(attached) = Cardinality(rows)
           /\ \A e \in rows : e.type = "opened" <=> e.seq = 1

\* A delivery whose transaction committed is never lost, even if it was the duplicate that
\* waited for another delivery: its signal is attached, to the incident that the call
\* returned, under the signal's key (correlator.py:31, 50-64).
CommittedDeliveries ==
    \A c \in Sessions : answer[c] = "committed" =>
        /\ [signal |-> sig[c], incident |-> inc[c]] \in signals
        /\ [id |-> inc[c], key |-> KeyOf[sig[c]]] \in incidents

\* No session waits for a unique key for ever.
SessionsEnd == \A c \in Sessions : pc[c] # "new" ~> pc[c] = "done"

\* The tables implement the numbered log: see IncidentLog.
Log == INSTANCE IncidentLog WITH
    history <- [k \in Keys |->
                  {<<e.seq, e.type, e.signal>> :
                     e \in {f \in events : [id |-> f.incident, key |-> k] \in incidents}}]
ImplementsLog == Log!LogSpec
=============================================================================
