-------------------------- MODULE CorrelatorProofs --------------------------
(***************************************************************************)
(* For any number of sessions, signals and keys: the tables of the         *)
(* correlator tell one story per incident, committed deliveries are kept,  *)
(* and the tables implement IncidentLog.  The invariant says what the      *)
(* uncommitted rows of a session exclude for the others.                   *)
(***************************************************************************)
EXTENDS Correlator, FiniteSetTheorems, TLAPS

TypesFit ==
    /\ incidents \subseteq [id : Sessions, key : Keys]
    /\ signals \subseteq [signal : Signals, incident : Sessions]
    /\ events \subseteq [incident : Sessions, seq : Int, type : EventTypes, signal : Signals]
    /\ pc \in [Sessions -> Locations]
    /\ sig \in [Sessions -> Signals]
    /\ inc \in [Sessions -> Sessions \cup {NoId}]
    /\ created \in [Sessions -> BOOLEAN]
    /\ seq \in [Sessions -> Int]
    /\ own \in [Sessions -> SUBSET Rows]
    /\ answer \in [Sessions -> {"", "committed", "failed"}]

IncidentOf(s, i) == [id |-> i, key |-> KeyOf[s]] \in incidents

\* What a session has inserted, by where it is.
Placed(c) ==
    /\ pc[c] \in {"new", "open"} => own[c] = {} /\ seq[c] = NoSeq
    /\ pc[c] = "done" => own[c] = {}
    /\ pc[c] # "done" => answer[c] = ""
    /\ pc[c] = "open" => created[c] = TRUE
    /\ pc[c] = "attach" /\ created[c] = TRUE => own[c] = {"incident"} /\ seq[c] = NoSeq
    /\ pc[c] \in {"find", "close"} \/ (pc[c] = "attach" /\ created[c] = FALSE) =>
          /\ "signal" \in own[c] <=> "event" \in own[c]
          /\ seq[c] # NoSeq <=> "event" \in own[c]
          /\ "incident" \in own[c] => "event" \in own[c]
    /\ pc[c] = "append" => "signal" \in own[c] /\ "event" \notin own[c] /\ seq[c] = NoSeq
    /\ pc[c] = "flush" =>
          /\ seq[c] # NoSeq <=> "signal" \in own[c]
          /\ "incident" \in own[c] \/ "event" \in own[c] => "signal" \in own[c]

\* The incident that the session works on is its own, or committed.
Grounded(c) ==
    /\ "incident" \in own[c] => inc[c] = c
    /\ pc[c] \in {"find", "attach", "append", "flush", "close"} =>
          "incident" \in own[c] \/ IncidentOf(sig[c], inc[c])
    /\ pc[c] \in {"append", "flush", "close"} => Attached(c)

\* No row of the session is in the tables.
Reserved(c) ==
    /\ "incident" \in own[c] => \A i \in incidents : i.key # KeyOf[sig[c]]
    /\ "signal" \in own[c] => \A r \in signals : r.signal # sig[c]
    /\ "event" \in own[c] => \A e \in EventsOf(inc[c]) : e.seq # seq[c]

\* The number of its event is at most the next one.
Numbered(c) ==
    pc[c] # "done" /\ seq[c] # NoSeq =>
        /\ seq[c] \in Nat \ {0}
        /\ seq[c] <= Cardinality(EventsOf(inc[c])) + 1

Delivered(c) ==
    answer[c] = "committed" =>
        /\ [signal |-> sig[c], incident |-> inc[c]] \in signals
        /\ IncidentOf(sig[c], inc[c])

\* Two sessions hold no unique key in common.
Apart(c, d) ==
    /\ "incident" \in own[c] /\ "incident" \in own[d] => KeyOf[sig[c]] # KeyOf[sig[d]]
    /\ "signal" \in own[c] /\ "signal" \in own[d] => sig[c] # sig[d]
    /\ "event" \in own[c] /\ "event" \in own[d] => inc[c] # inc[d] \/ seq[c] # seq[d]

Mine(c) == Placed(c) /\ Grounded(c) /\ Reserved(c) /\ Numbered(c) /\ Delivered(c)

\* The unique keys of the tables, and whose rows they are.
Keyed ==
    /\ \A i, j \in incidents : i.key = j.key \/ i.id = j.id => i = j
    /\ \A i \in incidents : pc[i.id] = "done"
    /\ \A r \in signals : IncidentOf(r.signal, r.incident)
    /\ \A e \in events : IncidentOf(e.signal, e.incident)

SignalsOf(i) == {r.signal : r \in {q \in signals : q.incident = i}}

\* The history of an incident, which is finite.
Told(i) ==
    /\ IsFiniteSet(EventsOf(i)) /\ IsFiniteSet(SignalsOf(i)) /\ EventsOf(i) # {}
    /\ {e.seq : e \in EventsOf(i)} = 1 .. Cardinality(EventsOf(i))
    /\ {e.signal : e \in EventsOf(i)} = SignalsOf(i)
    /\ Cardinality(SignalsOf(i)) = Cardinality(EventsOf(i))
    /\ \A e \in EventsOf(i) : e.type = "opened" <=> e.seq = 1
    /\ \A e, f \in EventsOf(i) : e.seq = f.seq => e = f

Tables == Keyed /\ \A i \in incidents : Told(i.id)

IInv ==
    /\ TypesFit
    /\ \A c \in Sessions : Mine(c)
    /\ \A c, d \in Sessions : c # d => Apart(c, d)
    /\ Tables

-----------------------------------------------------------------------------
(* A session moves. *)

OthersStay(c) ==
    \A d \in Sessions \ {c} :
        /\ pc'[d] = pc[d] /\ inc'[d] = inc[d] /\ created'[d] = created[d]
        /\ seq'[d] = seq[d] /\ own'[d] = own[d] /\ answer'[d] = answer[d]

LEMMA InitHolds == Init => IInv
<1> SUFFICES ASSUME Init PROVE IInv
    OBVIOUS
<1>1. TypesFit
    <2>1. incidents = {} /\ signals = {} /\ events = {}
        BY DEF Init
    <2>2. pc \in [Sessions -> Locations] /\ own \in [Sessions -> SUBSET Rows]
        <3>1. "new" \in Locations /\ {} \in SUBSET Rows
            BY DEF Locations
        <3>2. QED
            BY <3>1, Zenon DEF Init
    <2>3. inc \in [Sessions -> Sessions \cup {NoId}] /\ seq \in [Sessions -> Int]
        <3>1. NoSeq \in Int
            BY DEF NoSeq
        <3>2. seq \in [Sessions -> Int]
            BY <3>1, Zenon DEF Init
        <3>3. inc \in [Sessions -> Sessions \cup {NoId}]
            BY DEF Init
        <3>4. QED
            BY <3>2, <3>3
    <2>4. /\ created \in [Sessions -> BOOLEAN] /\ sig \in [Sessions -> Signals]
          /\ answer \in [Sessions -> {"", "committed", "failed"}]
        BY DEF Init
    <2>5. QED
        BY <2>1, <2>2, <2>3, <2>4 DEF TypesFit
<1>2. ASSUME NEW c \in Sessions PROVE Mine(c)
    BY DEF Init, Mine, Placed, Grounded, Reserved, Numbered, Delivered
<1>3. \A c, d \in Sessions : c # d => Apart(c, d)
    BY DEF Init, Apart
<1>4. Tables
    BY DEF Init, Tables, Keyed
<1>5. QED
    BY <1>1, <1>2, <1>3, <1>4 DEF IInv

\* A step of one session that commits nothing.
LEMMA LocalStep ==
    ASSUME IInv, NEW c \in Sessions, TypesFit', UNCHANGED dbVars, sig' = sig, pc[c] # "done",
           OthersStay(c), Mine(c)', \A d \in Sessions \ {c} : Apart(c, d)'
    PROVE  IInv'
<1>1. UNCHANGED <<incidents, signals, events>>
    BY DEF dbVars
<1>2. ASSUME NEW d \in Sessions \ {c} PROVE Mine(d)'
    <2>1. Mine(d)
        BY DEF IInv
    <2>2. Placed(d)'
        BY <2>1 DEF Mine, Placed, OthersStay
    <2>3. Grounded(d)' /\ Delivered(d)'
        BY <1>1, <2>1 DEF Mine, Grounded, Delivered, OthersStay, IncidentOf, Attached
    <2>4. EventsOf(inc[d])' = EventsOf(inc[d])
        BY <1>1 DEF OthersStay, EventsOf
    <2>5. Reserved(d)'
        BY <1>1, <2>1, <2>4 DEF Mine, Reserved, OthersStay
    <2>6. Numbered(d)'
        BY <2>1, <2>4 DEF Mine, Numbered, OthersStay
    <2>7. QED
        BY <2>2, <2>3, <2>5, <2>6 DEF Mine
<1>3. ASSUME NEW d \in Sessions, NEW e \in Sessions, d # e PROVE Apart(d, e)'
    <2>1. CASE d = c
        BY <1>3, <2>1
    <2>2. CASE e = c
        <3>1. Apart(e, d)'
            BY <1>3, <2>2
        <3>2. QED
            BY <3>1 DEF Apart
    <2>3. CASE d # c /\ e # c
        <3>1. Apart(d, e)
            BY <1>3 DEF IInv
        <3>2. QED
            BY <2>3, <3>1 DEF Apart, OthersStay
    <2>4. QED
        BY <2>1, <2>2, <2>3
<1>4. Tables'
    <2>1. \A i \in incidents : pc'[i.id] = "done"
        <3>1. SUFFICES ASSUME NEW i \in incidents PROVE pc'[i.id] = "done"
            OBVIOUS
        <3>2. i.id \in Sessions /\ pc[i.id] = "done"
            BY DEF IInv, TypesFit, Tables, Keyed
        <3>3. QED
            BY <3>2 DEF OthersStay
    <2>2. Keyed'
        BY <1>1, <2>1 DEF IInv, Tables, Keyed, IncidentOf
    <2>3. \A i \in incidents' : Told(i.id)'
        BY <1>1 DEF IInv, Tables, Told, EventsOf, SignalsOf
    <2>4. QED
        BY <2>2, <2>3 DEF Tables
<1>5. \A d \in Sessions : Mine(d)'
    BY <1>2
<1>6. QED
    BY <1>3, <1>4, <1>5 DEF IInv

\* The history of the incident a session works on: empty while the session is the one that
\* opens it, and complete otherwise.
LEMMA Numbering ==
    ASSUME IInv, NEW c \in Sessions, pc[c] \in {"find", "attach", "append", "flush", "close"}
    PROVE  LET rows == EventsOf(inc[c])
               sigs == SignalsOf(inc[c])
           IN /\ IsFiniteSet(rows) /\ IsFiniteSet(sigs)
              /\ Cardinality(rows) \in Nat /\ Cardinality(sigs) = Cardinality(rows)
              /\ {e.seq : e \in rows} = 1 .. Cardinality(rows)
              /\ {e.signal : e \in rows} = sigs
              /\ \A e \in rows : e.type = "opened" <=> e.seq = 1
              /\ \A e, f \in rows : e.seq = f.seq => e = f
              /\ "incident" \in own[c] => rows = {}
              /\ "incident" \notin own[c] => rows # {}
<1>1. CASE "incident" \in own[c]
    <2>1. inc[c] = c
        BY <1>1 DEF IInv, Mine, Grounded
    <2>2. ASSUME NEW s, IncidentOf(s, c) PROVE FALSE
        <3>1. pc[c] = "done"
            BY <2>2 DEF IncidentOf, IInv, Tables, Keyed
        <3>2. QED
            BY <3>1
    <2>3. EventsOf(inc[c]) = {}
        BY <2>1, <2>2 DEF IInv, Tables, Keyed, EventsOf
    <2>4. SignalsOf(inc[c]) = {}
        BY <2>1, <2>2 DEF IInv, Tables, Keyed, SignalsOf
    <2>5. QED
        BY <1>1, <2>3, <2>4, FS_EmptySet
<1>2. CASE "incident" \notin own[c]
    <2>1. IncidentOf(sig[c], inc[c])
        BY <1>2 DEF IInv, Mine, Grounded
    <2>2. Told(inc[c])
        BY <2>1 DEF IncidentOf, IInv, Tables
    <2>3. QED
        BY <1>2, <2>2, FS_CardinalityType DEF Told
<1>3. QED
    BY <1>1, <1>2

\* A session that lost its transaction.
LEMMA FailStep ==
    ASSUME IInv, NEW c \in Sessions, pc[c] # "done", Fail(c),
           UNCHANGED <<dbVars, sig, inc, created, seq>>
    PROVE  IInv'
<1>1. /\ pc' = [pc EXCEPT ![c] = "done"] /\ own' = [own EXCEPT ![c] = {}]
      /\ answer' = [answer EXCEPT ![c] = "failed"]
    BY DEF Fail, Goto
<1>2. TypesFit'
    BY <1>1 DEF IInv, TypesFit, Locations, dbVars
<1>3. pc'[c] = "done" /\ own'[c] = {} /\ answer'[c] = "failed"
    BY <1>1 DEF IInv, TypesFit
<1>4. OthersStay(c)
    BY <1>1 DEF OthersStay, IInv, TypesFit
<1>5. Mine(c)'
    BY <1>3 DEF Mine, Placed, Grounded, Reserved, Numbered, Delivered
<1>6. \A d \in Sessions \ {c} : Apart(c, d)'
    BY <1>3 DEF Apart
<1>7. QED
    BY <1>2, <1>4, <1>5, <1>6, LocalStep

-----------------------------------------------------------------------------
(* The steps that commit nothing. *)

LEMMA FindStep ==
    ASSUME IInv, NEW c \in Sessions, Find(c)
    PROVE  IInv'
<1> USE DEF Find
<1>1. /\ UNCHANGED <<dbVars, sig, seq, own, answer>>
      /\ TypesFit /\ Mine(c) /\ Keyed
    BY DEF IInv, Tables
<1>2. /\ pc[c] = "new" => own[c] = {} /\ seq[c] = NoSeq
      /\ pc[c] = "find" => "incident" \in own[c] \/ IncidentOf(sig[c], inc[c])
    BY <1>1 DEF Mine, Placed, Grounded
<1>3. CASE /\ "incident" \notin own[c]
           /\ \A i \in incidents : i.key # KeyOf[sig[c]]
           /\ created' = [created EXCEPT ![c] = TRUE]
           /\ Goto(c, "open")
           /\ UNCHANGED inc
    <2>1. pc' = [pc EXCEPT ![c] = "open"]
        BY <1>3 DEF Goto
    <2>2. TypesFit'
        BY <1>1, <1>3, <2>1 DEF TypesFit, Locations, dbVars
    <2>3. pc'[c] = "open" /\ created'[c] = TRUE /\ OthersStay(c)
        BY <1>1, <1>3, <2>1 DEF TypesFit, OthersStay
    <2>4. pc[c] = "new"
        BY <1>2, <1>3 DEF IncidentOf
    <2>5. Mine(c)'
        BY <1>1, <1>2, <1>3, <2>3, <2>4 DEF Mine, Placed, Grounded, Reserved, Numbered, Delivered
    <2>6. \A d \in Sessions \ {c} : Apart(c, d)'
        BY <1>1, <1>2, <2>4 DEF Apart
    <2>7. QED
        BY <1>1, <2>2, <2>3, <2>4, <2>5, <2>6, LocalStep
<1>4. CASE /\ \/ "incident" \in own[c] /\ UNCHANGED inc
              \/ \E i \in incidents : /\ i.key = KeyOf[sig[c]]
                                      /\ inc' = [inc EXCEPT ![c] = i.id]
           /\ created' = [created EXCEPT ![c] = FALSE]
           /\ Goto(c, "attach")
    <2>1. pc' = [pc EXCEPT ![c] = "attach"]
        BY <1>4 DEF Goto
    <2>2. /\ inc' \in [Sessions -> Sessions \cup {NoId}]
          /\ \A d \in Sessions \ {c} : inc'[d] = inc[d]
          /\ ("incident" \in own[c] /\ inc' = inc) \/ IncidentOf(sig[c], inc'[c])
        <3>1. CASE "incident" \in own[c] /\ UNCHANGED inc
            BY <1>1, <3>1 DEF TypesFit
        <3>2. CASE \E i \in incidents : /\ i.key = KeyOf[sig[c]]
                                        /\ inc' = [inc EXCEPT ![c] = i.id]
            <4>1. PICK i \in incidents : /\ i.key = KeyOf[sig[c]]
                                         /\ inc' = [inc EXCEPT ![c] = i.id]
                BY <3>2
            <4>2. i \in [id : Sessions, key : Keys]
                BY <1>1 DEF TypesFit
            <4>3. i = [id |-> i.id, key |-> i.key] /\ inc'[c] = i.id
                BY <1>1, <4>1, <4>2 DEF TypesFit
            <4>4. IncidentOf(sig[c], inc'[c])
                BY <4>1, <4>3 DEF IncidentOf
            <4>5. QED
                BY <1>1, <4>1, <4>2, <4>4 DEF TypesFit
        <3>3. QED
            BY <1>4, <3>1, <3>2
    <2>3. TypesFit'
        BY <1>1, <1>4, <2>1, <2>2 DEF TypesFit, Locations, dbVars
    <2>4. pc'[c] = "attach" /\ created'[c] = FALSE /\ OthersStay(c)
        BY <1>1, <1>4, <2>1, <2>2 DEF TypesFit, OthersStay
    <2>5. pc[c] = "find" => inc'[c] = inc[c]
        <3>1. SUFFICES ASSUME IncidentOf(sig[c], inc'[c]), IncidentOf(sig[c], inc[c])
                       PROVE inc'[c] = inc[c]
            <4>1. ASSUME pc[c] = "find", "incident" \in own[c], IncidentOf(sig[c], inc'[c])
                  PROVE FALSE
                BY <1>1, <4>1 DEF Mine, Reserved, IncidentOf
            <4>2. QED
                BY <1>2, <2>2, <4>1
        <3>2. QED
            BY <1>1, <3>1 DEF Keyed, IncidentOf
    <2>6. Placed(c)'
        BY <1>1, <1>2, <2>4 DEF Mine, Placed
    <2>7. Grounded(c)'
        <3>1. "incident" \in own[c] => inc[c] = c
            BY <1>1 DEF Mine, Grounded
        <3>2. "incident" \in own[c] => inc'[c] = c
            BY <1>2, <2>5, <3>1
        <3>3. "incident" \in own'[c] \/ IncidentOf(sig[c], inc[c])'
            BY <1>1, <2>2 DEF IncidentOf, dbVars
        <3>4. QED
            BY <1>1, <2>4, <3>2, <3>3 DEF Grounded
    <2>8. Reserved(c)'
        <3>1. CASE pc[c] = "new"
            BY <1>1, <1>2, <3>1 DEF Reserved
        <3>2. CASE pc[c] = "find"
            <4>1. EventsOf(inc[c])' = EventsOf(inc[c])
                BY <1>1, <2>5, <3>2 DEF EventsOf, dbVars
            <4>2. QED
                BY <1>1, <4>1 DEF Mine, Reserved, dbVars
        <3>3. QED
            BY <3>1, <3>2
    <2>9. Numbered(c)'
        <3>1. CASE pc[c] = "new"
            BY <1>1, <1>2, <3>1 DEF Numbered
        <3>2. CASE pc[c] = "find"
            <4>1. EventsOf(inc[c])' = EventsOf(inc[c])
                BY <1>1, <2>5, <3>2 DEF EventsOf, dbVars
            <4>2. QED
                BY <1>1, <3>2, <4>1 DEF Mine, Numbered
        <3>3. QED
            BY <3>1, <3>2
    <2>10. Delivered(c)'
        BY <1>1 DEF Mine, Placed, Delivered
    <2>11. ASSUME NEW d \in Sessions \ {c} PROVE Apart(c, d)'
        <3>1. Apart(c, d)
            BY DEF IInv
        <3>2. QED
            BY <1>1, <1>2, <2>2, <2>5, <3>1 DEF Apart
    <2>12. pc[c] # "done"
        OBVIOUS
    <2>13. QED
        BY <1>1, <2>3, <2>4, <2>6, <2>7, <2>8, <2>9, <2>10, <2>11, <2>12, LocalStep DEF Mine
<1>5. QED
    BY <1>3, <1>4

LEMMA OpenStep ==
    ASSUME IInv, NEW c \in Sessions, OpenIncident(c)
    PROVE  IInv'
<1>1. /\ UNCHANGED <<dbVars, sig, created, seq>> /\ pc[c] = "open" /\ ~KeyHeld(c)
      /\ TypesFit /\ Mine(c)
    BY DEF IInv, OpenIncident
<1>2. CASE \E i \in incidents : i.key = KeyOf[sig[c]]
    BY <1>1, <1>2, FailStep DEF OpenIncident
<1>3. CASE ~\E i \in incidents : i.key = KeyOf[sig[c]]
    <2>1. /\ own' = [own EXCEPT ![c] = @ \cup {"incident"}]
          /\ inc' = [inc EXCEPT ![c] = c]
          /\ pc' = [pc EXCEPT ![c] = "attach"]
          /\ answer' = answer
        BY <1>3 DEF OpenIncident, Insert, Goto
    <2>2. TypesFit'
        <3>1. own' \in [Sessions -> SUBSET Rows]
            BY <1>1, <2>1 DEF TypesFit, Rows
        <3>2. pc' \in [Sessions -> Locations] /\ inc' \in [Sessions -> Sessions \cup {NoId}]
            BY <1>1, <2>1 DEF TypesFit, Locations
        <3>3. QED
            BY <1>1, <2>1, <3>1, <3>2 DEF TypesFit, dbVars
    <2>3. /\ own[c] = {} /\ seq[c] = NoSeq /\ created[c] = TRUE /\ answer[c] = ""
        BY <1>1 DEF Mine, Placed
    <2>4. /\ own'[c] = {"incident"} /\ inc'[c] = c /\ pc'[c] = "attach" /\ OthersStay(c)
        BY <1>1, <2>1, <2>3 DEF TypesFit, OthersStay
    <2>5. Mine(c)'
        <3>1. Placed(c)'
            BY <1>1, <2>1, <2>3, <2>4 DEF Placed
        <3>2. Grounded(c)' /\ Numbered(c)' /\ Delivered(c)'
            BY <1>1, <2>1, <2>3, <2>4 DEF Grounded, Numbered, Delivered
        <3>3. Reserved(c)'
            BY <1>1, <1>3, <2>4 DEF Reserved, dbVars
        <3>4. QED
            BY <3>1, <3>2, <3>3 DEF Mine
    <2>6. \A d \in Sessions \ {c} : Apart(c, d)'
        BY <1>1, <2>4 DEF Apart, KeyHeld, OthersStay
    <2>7. QED
        BY <1>1, <2>2, <2>4, <2>5, <2>6, LocalStep
<1>4. QED
    BY <1>2, <1>3

LEMMA AttachStep ==
    ASSUME IInv, NEW c \in Sessions, AttachSignal(c)
    PROVE  IInv'
<1>1. /\ UNCHANGED <<dbVars, sig, inc, created, seq, answer>>
      /\ pc[c] = "attach" /\ ~SignalHeld(c) /\ TypesFit /\ Mine(c) /\ Keyed
    BY DEF IInv, AttachSignal, Tables
<1>2. /\ IF Attached(c) THEN own' = own ELSE own' = [own EXCEPT ![c] = @ \cup {"signal"}]
      /\ pc' = [pc EXCEPT ![c] = IF created[c] \/ ~Attached(c) THEN "append" ELSE "flush"]
    BY DEF AttachSignal, Insert, Goto
<1>3. /\ own'[c] = IF Attached(c) THEN own[c] ELSE own[c] \cup {"signal"}
      /\ pc'[c] = IF created[c] \/ ~Attached(c) THEN "append" ELSE "flush"
      /\ OthersStay(c)
    BY <1>1, <1>2 DEF TypesFit, OthersStay
<1>4. TypesFit'
    <2>1. own' \in [Sessions -> SUBSET Rows]
        <3>1. own[c] \cup {"signal"} \in SUBSET Rows
            BY <1>1 DEF TypesFit, Rows
        <3>2. QED
            BY <1>1, <1>2, <3>1 DEF TypesFit
    <2>2. pc' \in [Sessions -> Locations]
        BY <1>1, <1>2 DEF TypesFit, Locations
    <2>3. QED
        BY <1>1, <2>1, <2>2 DEF TypesFit, dbVars
<1>5. created[c] \in BOOLEAN
    BY <1>1 DEF TypesFit
\* A session that opens the incident finds no signal: nobody else could have attached one.
<1>6. created[c] = TRUE => ~Attached(c)
    <2>1. ASSUME created[c] = TRUE, NEW r \in signals, r.signal = sig[c] PROVE FALSE
        <3>1. "incident" \in own[c]
            BY <1>1, <2>1 DEF Mine, Placed
        <3>2. IncidentOf(sig[c], r.incident)
            BY <1>1, <2>1 DEF Keyed
        <3>3. QED
            BY <1>1, <3>1, <3>2 DEF Mine, Reserved, IncidentOf
    <2>2. created[c] = TRUE => own[c] = {"incident"}
        <3>1. Placed(c) /\ pc[c] = "attach"
            BY <1>1 DEF Mine
        <3>2. pc[c] = "attach" /\ created[c] = TRUE => own[c] = {"incident"} /\ seq[c] = NoSeq
            BY <3>1 DEF Placed
        <3>3. QED
            BY <3>1, <3>2
    <2>3. created[c] = TRUE => "signal" \notin own[c]
        BY <2>2
    <2>4. QED
        BY <2>1, <2>3, Zenon DEF Attached
<1>7. Placed(c)'
    <2>1. Placed(c)
        BY <1>1 DEF Mine
    <2>2. CASE created[c] = TRUE
        <3>1. pc'[c] = "append" /\ own'[c] = own[c] \cup {"signal"}
            BY <1>3, <1>6, <2>2
        <3>2. own[c] = {"incident"} /\ seq[c] = NoSeq /\ answer[c] = ""
            BY <1>1, <2>1, <2>2 DEF Placed
        <3>3. QED
            BY <1>1, <3>1, <3>2 DEF Placed
    <2>3. CASE created[c] = FALSE
        <3>1. /\ "signal" \in own[c] <=> "event" \in own[c]
              /\ seq[c] # NoSeq <=> "event" \in own[c]
              /\ "incident" \in own[c] => "event" \in own[c]
              /\ answer[c] = ""
            BY <1>1, <2>1, <2>3 DEF Placed
        <3>2. CASE Attached(c)
            <4>1. pc'[c] = "flush" /\ own'[c] = own[c]
                BY <1>3, <2>3, <3>2
            <4>2. QED
                BY <1>1, <3>1, <4>1 DEF Placed
        <3>3. CASE ~Attached(c)
            <4>1. pc'[c] = "append" /\ own'[c] = own[c] \cup {"signal"}
                BY <1>3, <3>3
            <4>2. "signal" \notin own[c]
                BY <3>3 DEF Attached
            <4>3. QED
                BY <1>1, <3>1, <4>1, <4>2 DEF Placed
        <3>4. QED
            BY <3>2, <3>3
    <2>4. QED
        BY <1>5, <2>2, <2>3
<1>8. Grounded(c)'
    <2>1. Attached(c)'
        BY <1>1, <1>3 DEF Attached, dbVars
    <2>2. QED
        BY <1>1, <1>3, <2>1 DEF Mine, Grounded, IncidentOf, dbVars
<1>9. EventsOf(inc[c])' = EventsOf(inc[c])
    BY <1>1 DEF EventsOf, dbVars
<1>10. Reserved(c)'
    BY <1>1, <1>3, <1>9 DEF Mine, Reserved, Attached, dbVars
<1>11. Numbered(c)' /\ Delivered(c)'
    BY <1>1, <1>3, <1>9 DEF Mine, Numbered, Delivered, Placed
<1>12. ASSUME NEW d \in Sessions \ {c} PROVE Apart(c, d)'
    <2>1. Apart(c, d)
        BY DEF IInv
    <2>2. QED
        BY <1>1, <1>3, <2>1 DEF Apart, SignalHeld, OthersStay
<1>13. QED
    BY <1>1, <1>3, <1>4, <1>7, <1>8, <1>10, <1>11, <1>12, LocalStep DEF Mine

\* The number that _append_event picks, when no gap precedes it.
LEMMA NextNumber ==
    ASSUME NEW i, NEW n \in Nat, {e.seq : e \in EventsOf(i)} = 1 .. n
    PROVE  NextSeq(i) = n + 1
<1>1. CASE n = 0
    <2>1. 1 .. n = {}
        BY <1>1
    <2>2. QED
        <3>1. NextSeq(i) = 1
            BY <2>1, Zenon DEF NextSeq
        <3>2. QED
            BY <1>1, <3>1
<1>2. CASE n # 0
    <2>1. 1 .. n # {}
        BY <1>2
    <2>2. n \in 1 .. n /\ \A k \in 1 .. n : k <= n
        BY <1>2
    <2>3. (CHOOSE m \in 1 .. n : \A k \in 1 .. n : k <= m) = n
        <3>1. \A m \in 1 .. n : (\A k \in 1 .. n : k <= m) => m = n
            BY <2>2
        <3>2. QED
            BY <2>2, <3>1
    <2>4. QED
        BY <2>1, <2>3, Zenon DEF NextSeq
<1>3. QED
    BY <1>1, <1>2

LEMMA AppendStep ==
    ASSUME IInv, NEW c \in Sessions, AppendEvent(c)
    PROVE  IInv'
<1> DEFINE n == Cardinality(EventsOf(inc[c]))
<1>1. /\ UNCHANGED <<dbVars, sig, inc, created, own, answer>>
      /\ pc[c] = "append" /\ TypesFit /\ Mine(c)
    BY DEF IInv, AppendEvent
<1>2. n \in Nat /\ {e.seq : e \in EventsOf(inc[c])} = 1 .. n
    BY <1>1, Numbering
<1>3. NextSeq(inc[c]) = n + 1
    BY <1>2, NextNumber
<1>4. seq' = [seq EXCEPT ![c] = n + 1] /\ pc' = [pc EXCEPT ![c] = "flush"]
    BY <1>3 DEF AppendEvent, Goto
<1>5. n + 1 \in Nat \ {0} /\ n + 1 # NoSeq /\ n + 1 \in Int
    BY <1>2 DEF NoSeq
<1>6. TypesFit'
    <2>1. seq' \in [Sessions -> Int]
        BY <1>1, <1>4, <1>5 DEF TypesFit
    <2>2. pc' \in [Sessions -> Locations]
        BY <1>1, <1>4 DEF TypesFit, Locations
    <2>3. QED
        BY <1>1, <2>1, <2>2 DEF TypesFit, dbVars
<1>7. seq'[c] = n + 1 /\ pc'[c] = "flush" /\ OthersStay(c)
    BY <1>1, <1>4 DEF TypesFit, OthersStay
<1>8. /\ "signal" \in own[c] /\ "event" \notin own[c] /\ answer[c] = ""
    BY <1>1 DEF Mine, Placed
<1>9. Placed(c)'
    BY <1>1, <1>5, <1>7, <1>8 DEF Placed
<1>10. Grounded(c)' /\ Delivered(c)'
    BY <1>1, <1>7, <1>8 DEF Mine, Grounded, Delivered, IncidentOf, Attached, dbVars
<1>11. Reserved(c)'
    BY <1>1, <1>8 DEF Mine, Reserved, dbVars
<1>12. Numbered(c)'
    <2>1. EventsOf(inc[c])' = EventsOf(inc[c])
        BY <1>1 DEF EventsOf, dbVars
    <2>2. Cardinality(EventsOf(inc[c]))' = n
        BY <2>1
    <2>3. QED
        BY <1>2, <1>5, <1>7, <2>2 DEF Numbered
<1>13. ASSUME NEW d \in Sessions \ {c} PROVE Apart(c, d)'
    <2>1. Apart(c, d)
        BY DEF IInv
    <2>2. QED
        BY <1>1, <1>8, <2>1 DEF Apart
<1>14. QED
    BY <1>1, <1>6, <1>7, <1>9, <1>10, <1>11, <1>12, <1>13, LocalStep DEF Mine

LEMMA FlushStep ==
    ASSUME IInv, NEW c \in Sessions, FlushEvent(c)
    PROVE  IInv'
<1>1. /\ UNCHANGED <<dbVars, sig, inc, created, seq>>
      /\ pc[c] = "flush" /\ TypesFit /\ Mine(c)
    BY DEF IInv, FlushEvent
<1>2. /\ seq[c] # NoSeq <=> "signal" \in own[c]
      /\ "incident" \in own[c] \/ "event" \in own[c] => "signal" \in own[c]
      /\ answer[c] = ""
    BY <1>1 DEF Mine, Placed
<1>3. EventsOf(inc[c])' = EventsOf(inc[c])
    BY <1>1 DEF EventsOf, dbVars
<1>4. ASSUME pc' = [pc EXCEPT ![c] = "close"], answer' = answer,
             own' \in [Sessions -> SUBSET Rows],
             \A d \in Sessions \ {c} : own'[d] = own[d],
             own'[c] = IF seq[c] = NoSeq THEN own[c] ELSE own[c] \cup {"event"},
             "event" \in own'[c] => \A e \in EventsOf(inc[c]) : e.seq # seq[c],
             \A d \in Sessions \ {c} : Apart(c, d)'
      PROVE  IInv'
    <2>1. TypesFit'
        <3>1. pc' \in [Sessions -> Locations]
            BY <1>1, <1>4 DEF TypesFit, Locations
        <3>2. QED
            BY <1>1, <1>4, <3>1 DEF TypesFit, dbVars
    <2>2. pc'[c] = "close" /\ OthersStay(c)
        BY <1>1, <1>4 DEF TypesFit, OthersStay
    <2>3. Placed(c)'
        BY <1>1, <1>2, <1>4, <2>2 DEF Placed
    <2>4. Grounded(c)' /\ Delivered(c)'
        <3>1. /\ "incident" \in own'[c] <=> "incident" \in own[c]
              /\ "signal" \in own'[c] <=> "signal" \in own[c]
            BY <1>4
        <3>2. Attached(c)'
            BY <1>1, <3>1 DEF Mine, Grounded, Attached, dbVars
        <3>3. Grounded(c)'
            BY <1>1, <3>1, <3>2 DEF Mine, Grounded, IncidentOf, dbVars
        <3>4. Delivered(c)'
            BY <1>2, <1>4 DEF Delivered
        <3>5. QED
            BY <3>3, <3>4
    <2>5. Reserved(c)'
        BY <1>1, <1>3, <1>4 DEF Mine, Reserved, dbVars
    <2>6. Numbered(c)'
        BY <1>1, <1>3, <2>2 DEF Mine, Numbered
    <2>7. QED
        BY <1>1, <1>4, <2>1, <2>2, <2>3, <2>4, <2>5, <2>6, LocalStep DEF Mine
<1>5. CASE seq[c] = NoSeq \/ "event" \in own[c]
    <2>1. own' = own /\ answer' = answer /\ pc' = [pc EXCEPT ![c] = "close"]
        BY <1>5 DEF FlushEvent, Goto
    <2>2. ASSUME NEW d \in Sessions \ {c} PROVE Apart(c, d)'
        <3>1. Apart(c, d)
            BY DEF IInv
        <3>2. QED
            BY <1>1, <2>1, <3>1 DEF Apart
    <2>3. own'[c] = IF seq[c] = NoSeq THEN own[c] ELSE own[c] \cup {"event"}
        BY <1>5, <2>1
    <2>4. "event" \in own'[c] => \A e \in EventsOf(inc[c]) : e.seq # seq[c]
        BY <1>1, <2>1 DEF Mine, Reserved
    <2>5. own' \in [Sessions -> SUBSET Rows] /\ \A d \in Sessions \ {c} : own'[d] = own[d]
        BY <1>1, <2>1 DEF TypesFit
    <2>6. QED
        BY <1>4, <2>1, <2>2, <2>3, <2>4, <2>5
<1>6. CASE ~(seq[c] = NoSeq \/ "event" \in own[c])
    <2>1. ~EventHeld(c)
        BY <1>6 DEF FlushEvent
    <2>2. CASE \E e \in EventsOf(inc[c]) : e.seq = seq[c]
        BY <1>1, <1>6, <2>2, FailStep DEF FlushEvent
    <2>3. CASE ~\E e \in EventsOf(inc[c]) : e.seq = seq[c]
        <3>1. /\ own' = [own EXCEPT ![c] = @ \cup {"event"}]
              /\ answer' = answer /\ pc' = [pc EXCEPT ![c] = "close"]
            BY <1>6, <2>3 DEF FlushEvent, Goto, Insert
        <3>2. own[c] \cup {"event"} \in SUBSET Rows
            BY <1>1 DEF TypesFit, Rows
        <3>3. /\ own' \in [Sessions -> SUBSET Rows] /\ own'[c] = own[c] \cup {"event"}
              /\ \A d \in Sessions \ {c} : own'[d] = own[d]
            BY <1>1, <3>1, <3>2 DEF TypesFit
        <3>4. ASSUME NEW d \in Sessions \ {c} PROVE Apart(c, d)'
            <4>1. Apart(c, d)
                BY DEF IInv
            <4>2. QED
                BY <1>1, <2>1, <3>3, <4>1 DEF Apart, EventHeld
        <3>5. QED
            BY <1>4, <1>6, <2>3, <3>1, <3>3, <3>4
    <2>4. QED
        BY <2>2, <2>3
<1>7. QED
    BY <1>5, <1>6

LEMMA AgainStep ==
    ASSUME IInv, NEW c \in Sessions, CallAgain(c)
    PROVE  IInv'
<1>1. /\ UNCHANGED <<dbVars, sig, inc, created, seq, own, answer>>
      /\ pc[c] = "close" /\ pc' = [pc EXCEPT ![c] = "find"] /\ TypesFit /\ Mine(c)
    BY DEF IInv, CallAgain, Goto
<1>2. TypesFit'
    <2>1. pc' \in [Sessions -> Locations]
        BY <1>1 DEF TypesFit, Locations
    <2>2. QED
        BY <1>1, <2>1 DEF TypesFit, dbVars
<1>3. pc'[c] = "find" /\ OthersStay(c)
    BY <1>1 DEF TypesFit, OthersStay
<1>4. Placed(c)' /\ Grounded(c)' /\ Delivered(c)'
    BY <1>1, <1>3 DEF Mine, Placed, Grounded, Delivered, IncidentOf, Attached, dbVars
<1>5. EventsOf(inc[c])' = EventsOf(inc[c])
    BY <1>1 DEF EventsOf, dbVars
<1>6. Reserved(c)' /\ Numbered(c)'
    BY <1>1, <1>3, <1>5 DEF Mine, Reserved, Numbered, dbVars
<1>7. ASSUME NEW d \in Sessions \ {c} PROVE Apart(c, d)'
    <2>1. Apart(c, d)
        BY DEF IInv
    <2>2. QED
        BY <1>1, <2>1 DEF Apart
<1>8. QED
    BY <1>1, <1>2, <1>3, <1>4, <1>6, <1>7, LocalStep DEF Mine

-----------------------------------------------------------------------------
(* The commit. *)

\* What a session that reached its commit delivers is attached, or waits in its own rows.
LEMMA Attachment ==
    ASSUME IInv, NEW c \in Sessions, pc[c] = "close", "signal" \notin own[c]
    PROVE  [signal |-> sig[c], incident |-> inc[c]] \in signals /\ IncidentOf(sig[c], inc[c])
<1>1. TypesFit /\ Mine(c) /\ Keyed
    BY DEF IInv, Tables
<1>2. "incident" \notin own[c]
    BY <1>1 DEF Mine, Placed
<1>3. IncidentOf(sig[c], inc[c])
    BY <1>1, <1>2 DEF Mine, Grounded
<1>4. PICK r \in signals : r.signal = sig[c]
    BY <1>1 DEF Mine, Grounded, Attached
<1>5. IncidentOf(sig[c], r.incident)
    BY <1>1, <1>4 DEF Keyed
<1>6. r.incident = inc[c]
    BY <1>1, <1>3, <1>5 DEF Keyed, IncidentOf
<1>7. r = [signal |-> r.signal, incident |-> r.incident]
    BY <1>1 DEF TypesFit
<1>8. QED
    BY <1>3, <1>4, <1>6, <1>7

\* A commit with nothing of its own: the signal was a duplicate.
LEMMA EmptyCommit ==
    ASSUME IInv, NEW c \in Sessions, Commit(c), "event" \notin own[c]
    PROVE  IInv'
<1>1. /\ UNCHANGED <<sig, inc, created, seq>> /\ pc[c] = "close"
      /\ pc' = [pc EXCEPT ![c] = "done"] /\ own' = [own EXCEPT ![c] = {}]
      /\ answer' = [answer EXCEPT ![c] = "committed"]
      /\ TypesFit /\ Mine(c)
    BY DEF IInv, Commit, Goto
<1>2. "incident" \notin own[c] /\ "signal" \notin own[c]
    BY <1>1 DEF Mine, Placed
<1>3. UNCHANGED dbVars
    BY <1>2 DEF Commit, dbVars
<1>4. TypesFit'
    <2>1. pc' \in [Sessions -> Locations]
        BY <1>1 DEF TypesFit, Locations
    <2>2. own' \in [Sessions -> SUBSET Rows]
        BY <1>1 DEF TypesFit
    <2>3. answer' \in [Sessions -> {"", "committed", "failed"}]
        BY <1>1 DEF TypesFit
    <2>4. QED
        BY <1>1, <1>3, <2>1, <2>2, <2>3 DEF TypesFit, dbVars
<1>5. pc'[c] = "done" /\ own'[c] = {} /\ answer'[c] = "committed" /\ OthersStay(c)
    BY <1>1 DEF TypesFit, OthersStay
<1>6. Delivered(c)'
    BY <1>1, <1>2, <1>3, Attachment DEF Delivered, IncidentOf, dbVars
<1>7. Placed(c)' /\ Grounded(c)' /\ Reserved(c)' /\ Numbered(c)'
    BY <1>5 DEF Placed, Grounded, Reserved, Numbered
<1>8. \A d \in Sessions \ {c} : Apart(c, d)'
    BY <1>5 DEF Apart
<1>9. QED
    BY <1>1, <1>3, <1>4, <1>5, <1>6, <1>7, <1>8, LocalStep DEF Mine

LEMMA SeqImage ==
    ASSUME NEW S, NEW x
    PROVE  {e.seq : e \in S \cup {x}} = {e.seq : e \in S} \cup {x.seq}
OBVIOUS

LEMMA SignalImage ==
    ASSUME NEW S, NEW x
    PROVE  {e.signal : e \in S \cup {x}} = {e.signal : e \in S} \cup {x.signal}
OBVIOUS

Opens(c) == IF EventsOf(inc[c]) = {} THEN "opened" ELSE "signal_attached"

\* The rows that a commit with an event adds: the next number of the incident's history.
LEMMA CommitRows ==
    ASSUME IInv, NEW c \in Sessions, Commit(c), "event" \in own[c]
    PROVE  LET n == Cardinality(EventsOf(inc[c]))
               k == KeyOf[sig[c]]
           IN /\ seq[c] = n + 1 /\ n \in Nat
              /\ inc[c] \in Sessions /\ sig[c] \in Signals /\ k \in Keys
              /\ incidents' = incidents \cup {[id |-> inc[c], key |-> k]}
              /\ signals' = signals \cup {[signal |-> sig[c], incident |-> inc[c]]}
              /\ events' = events \cup {[incident |-> inc[c], seq |-> n + 1,
                                         type |-> Opens(c), signal |-> sig[c]]}
              /\ \A r \in signals : r.signal # sig[c]
              /\ \A i \in incidents : (i.key = k \/ i.id = inc[c]) => i = [id |-> inc[c], key |-> k]
              /\ "incident" \notin own[c] => [id |-> inc[c], key |-> k] \in incidents
<1> DEFINE n == Cardinality(EventsOf(inc[c]))
           k == KeyOf[sig[c]]
<1>1. TypesFit /\ Mine(c) /\ Keyed /\ pc[c] = "close"
    BY DEF IInv, Tables, Commit
<1>2. "signal" \in own[c] /\ seq[c] # NoSeq
    BY <1>1 DEF Mine, Placed
<1>3. n \in Nat /\ {e.seq : e \in EventsOf(inc[c])} = 1 .. n
    BY <1>1, Numbering
<1>4. seq[c] = n + 1
    <2>1. seq[c] \in Nat \ {0} /\ seq[c] <= n + 1
        BY <1>1, <1>2 DEF Mine, Numbered
    <2>2. seq[c] \notin 1 .. n
        BY <1>1, <1>3 DEF Mine, Reserved
    <2>3. QED
        BY <1>3, <2>1, <2>2
<1>5. sig[c] \in Signals /\ k \in Keys
    BY <1>1, CorrelatorAssumption DEF TypesFit
<1>6. "incident" \notin own[c] => [id |-> inc[c], key |-> k] \in incidents
    BY <1>1 DEF Mine, Grounded, IncidentOf
<1>7. inc[c] \in Sessions
    <2>1. CASE "incident" \in own[c]
        BY <1>1, <2>1 DEF Mine, Grounded
    <2>2. CASE [id |-> inc[c], key |-> k] \in incidents
        BY <1>1, <2>2 DEF TypesFit
    <2>3. QED
        BY <1>6, <2>1, <2>2
<1>8. incidents' = incidents \cup {[id |-> inc[c], key |-> k]}
    BY <1>6 DEF Commit
<1>9. signals' = signals \cup {[signal |-> sig[c], incident |-> inc[c]]}
    BY <1>2 DEF Commit
<1>10. Opens(c) = IF "incident" \in own[c] THEN "opened" ELSE "signal_attached"
    BY <1>1, Numbering DEF Opens
<1>11. events' = events \cup {[incident |-> inc[c], seq |-> n + 1,
                               type |-> Opens(c), signal |-> sig[c]]}
    BY <1>4, <1>10 DEF Commit
<1>12. \A r \in signals : r.signal # sig[c]
    BY <1>1, <1>2 DEF Mine, Reserved
<1>13. ASSUME NEW i \in incidents, i.key = k \/ i.id = inc[c]
       PROVE  i = [id |-> inc[c], key |-> k]
    <2>1. CASE "incident" \in own[c]
        <3>1. i.key # k /\ inc[c] = c /\ pc[i.id] = "done"
            BY <1>1, <2>1 DEF Mine, Reserved, Grounded, Keyed
        <3>2. QED
            BY <1>1, <1>13, <3>1
    <2>2. CASE [id |-> inc[c], key |-> k] \in incidents
        BY <1>1, <1>13, <2>2 DEF Keyed
    <2>3. QED
        BY <1>6, <2>1, <2>2
<1>14. QED
    BY <1>3, <1>4, <1>5, <1>6, <1>7, <1>8, <1>9, <1>11, <1>12, <1>13

\* The history of the committed incident grows by one; the others stay.
LEMMA CommitTables ==
    ASSUME IInv, NEW c \in Sessions, Commit(c), "event" \in own[c]
    PROVE  /\ Tables'
           /\ \A j \in Sessions : /\ IsFiniteSet(EventsOf(j)) => IsFiniteSet(EventsOf(j)')
                                  /\ j # inc[c] => EventsOf(j)' = EventsOf(j)
           /\ Cardinality(EventsOf(inc[c])') = Cardinality(EventsOf(inc[c])) + 1
<1> DEFINE i == inc[c]
           n == Cardinality(EventsOf(i))
           k == KeyOf[sig[c]]
           row == [incident |-> i, seq |-> n + 1, type |-> Opens(c), signal |-> sig[c]]
<1>1. TypesFit /\ Mine(c) /\ Keyed /\ pc[c] = "close" /\ pc' = [pc EXCEPT ![c] = "done"]
    BY DEF IInv, Tables, Commit, Goto
<1>2. /\ n \in Nat /\ i \in Sessions /\ sig[c] \in Signals /\ k \in Keys
      /\ incidents' = incidents \cup {[id |-> i, key |-> k]}
      /\ signals' = signals \cup {[signal |-> sig[c], incident |-> i]}
      /\ events' = events \cup {row}
      /\ \A r \in signals : r.signal # sig[c]
      /\ \A j \in incidents : (j.key = k \/ j.id = i) => j = [id |-> i, key |-> k]
      /\ "incident" \notin own[c] => [id |-> i, key |-> k] \in incidents
    BY CommitRows
<1>3. /\ IsFiniteSet(EventsOf(i)) /\ IsFiniteSet(SignalsOf(i))
      /\ Cardinality(SignalsOf(i)) = n
      /\ {e.seq : e \in EventsOf(i)} = 1 .. n
      /\ {e.signal : e \in EventsOf(i)} = SignalsOf(i)
      /\ \A e \in EventsOf(i) : e.type = "opened" <=> e.seq = 1
      /\ \A e, f \in EventsOf(i) : e.seq = f.seq => e = f
    BY <1>1, Numbering
<1>4. ASSUME NEW j, j # i
      PROVE  EventsOf(j)' = EventsOf(j) /\ SignalsOf(j)' = SignalsOf(j)
    BY <1>2, <1>4 DEF EventsOf, SignalsOf
<1>5. {e \in events' : e.incident = i} = EventsOf(i) \cup {row}
    BY <1>2 DEF EventsOf
<1>6. {r.signal : r \in {q \in signals' : q.incident = i}} = SignalsOf(i) \cup {sig[c]}
    <2> DEFINE mine == {q \in signals : q.incident = i}
               new == [signal |-> sig[c], incident |-> i]
    <2>1. {q \in signals' : q.incident = i} = mine \cup {new}
        BY <1>2
    <2>2. {r.signal : r \in mine \cup {new}} = {r.signal : r \in mine} \cup {new.signal}
        BY SignalImage
    <2>3. QED
        BY <2>1, <2>2 DEF SignalsOf
<1>7. \A e \in EventsOf(i) : e.seq \in 1 .. n
    BY <1>3
<1>8. row \notin EventsOf(i)
    BY <1>2, <1>7
<1>9. sig[c] \notin SignalsOf(i)
    BY <1>2 DEF SignalsOf
<1>10. /\ IsFiniteSet(EventsOf(i) \cup {row})
       /\ Cardinality(EventsOf(i) \cup {row}) = n + 1
    BY <1>3, <1>8, FS_AddElement
<1>11. /\ IsFiniteSet(SignalsOf(i) \cup {sig[c]})
       /\ Cardinality(SignalsOf(i) \cup {sig[c]}) = n + 1
    BY <1>3, <1>9, FS_AddElement
<1>12. {e.seq : e \in EventsOf(i) \cup {row}} = 1 .. n + 1
    <2>1. {e.seq : e \in EventsOf(i) \cup {row}} = (1 .. n) \cup {n + 1}
        <3>1. row.seq = n + 1
            OBVIOUS
        <3>2. {e.seq : e \in EventsOf(i) \cup {row}} = {e.seq : e \in EventsOf(i)} \cup {row.seq}
            BY SeqImage
        <3>3. QED
            BY <1>3, <3>1, <3>2
    <2>2. QED
        BY <1>2, <2>1
<1>13. {e.signal : e \in EventsOf(i) \cup {row}} = SignalsOf(i) \cup {sig[c]}
    <2>1. {e.signal : e \in EventsOf(i) \cup {row}} = {e.signal : e \in EventsOf(i)} \cup {row.signal}
        BY SignalImage
    <2>2. row.signal = sig[c]
        OBVIOUS
    <2>3. QED
        BY <1>3, <2>1, <2>2
<1>14. \A e \in EventsOf(i) \cup {row} : e.type = "opened" <=> e.seq = 1
    <2>1. EventsOf(i) = {} <=> n = 0
        BY <1>3, FS_EmptySet
    <2>2. row.type = "opened" <=> row.seq = 1
        BY <1>2, <2>1 DEF Opens
    <2>3. QED
        BY <1>3, <2>2
<1>15. \A e, f \in EventsOf(i) \cup {row} : e.seq = f.seq => e = f
    BY <1>2, <1>3, <1>7
<1>16. EventsOf(inc[c])' = {e \in events' : e.incident = i}
    <2>1. inc' = inc
        BY DEF Commit
    <2>2. QED
        BY <2>1 DEF EventsOf
<1>17. EventsOf(i)' = EventsOf(i) \cup {row}
    BY <1>5, <1>16
<1>18. Keyed'
    <2>1. \A a, b \in incidents' : a.key = b.key \/ a.id = b.id => a = b
        BY <1>1, <1>2 DEF Keyed
    <2>2. ASSUME NEW a \in incidents' PROVE pc'[a.id] = "done"
        <3>1. CASE a \in incidents
            BY <1>1, <3>1 DEF Keyed, TypesFit
        <3>2. CASE a = [id |-> i, key |-> k] /\ "incident" \in own[c]
            BY <1>1, <3>2 DEF Mine, Grounded, TypesFit
        <3>3. QED
            BY <1>2, <3>1, <3>2
    <2>3. ASSUME NEW s, NEW j, IncidentOf(s, j)
          PROVE  [id |-> j, key |-> KeyOf[s]] \in incidents'
        BY <1>2, <2>3 DEF IncidentOf
    <2>4. \A r \in signals' : [id |-> r.incident, key |-> KeyOf[r.signal]] \in incidents'
        BY <1>1, <1>2, <2>3 DEF Keyed
    <2>5. \A e \in events' : [id |-> e.incident, key |-> KeyOf[e.signal]] \in incidents'
        BY <1>1, <1>2, <2>3 DEF Keyed
    <2>6. QED
        BY <2>1, <2>2, <2>4, <2>5 DEF Keyed, IncidentOf
<1>19. ASSUME NEW a \in incidents' PROVE Told(a.id)'
    <2>1. CASE a.id = i
        <3>1. /\ {e \in events' : e.incident = a.id} = EventsOf(i) \cup {row}
              /\ {r.signal : r \in {q \in signals' : q.incident = a.id}} = SignalsOf(i) \cup {sig[c]}
            BY <1>5, <1>6, <2>1
        <3>2. EventsOf(a.id)' = EventsOf(i) \cup {row} /\ SignalsOf(a.id)' = SignalsOf(i) \cup {sig[c]}
            BY <3>1 DEF EventsOf, SignalsOf
        <3>3. QED
            BY <1>10, <1>11, <1>12, <1>13, <1>14, <1>15, <3>2 DEF Told
    <2>2. CASE a.id # i
        <3>1. a \in incidents
            BY <1>2, <2>2
        <3>2. Told(a.id)
            BY <3>1 DEF IInv, Tables
        <3>3. EventsOf(a.id)' = EventsOf(a.id) /\ SignalsOf(a.id)' = SignalsOf(a.id)
            BY <1>4, <2>2
        <3>4. QED
            BY <3>2, <3>3 DEF Told
    <2>3. QED
        BY <2>1, <2>2
<1>20. ASSUME NEW j \in Sessions, IsFiniteSet(EventsOf(j))
       PROVE  IsFiniteSet(EventsOf(j)')
    <2>1. CASE j = i
        <3>1. EventsOf(j)' = EventsOf(i) \cup {row}
            BY <1>5, <2>1 DEF EventsOf
        <3>2. QED
            BY <1>10, <3>1
    <2>2. CASE j # i
        BY <1>4, <1>20, <2>2
    <2>3. QED
        BY <2>1, <2>2
<1>21. Cardinality(EventsOf(inc[c])') = n + 1
    BY <1>10, <1>17
<1>22. Tables'
    BY <1>18, <1>19 DEF Tables
<1>23. QED
    BY <1>4, <1>20, <1>21, <1>22

LEMMA FullCommit ==
    ASSUME IInv, NEW c \in Sessions, Commit(c), "event" \in own[c]
    PROVE  IInv'
<1> DEFINE i == inc[c]
           n == Cardinality(EventsOf(i))
           k == KeyOf[sig[c]]
           row == [incident |-> i, seq |-> n + 1, type |-> Opens(c), signal |-> sig[c]]
<1>1. /\ TypesFit /\ Keyed /\ pc[c] = "close" /\ UNCHANGED <<sig, inc, created, seq>>
      /\ pc' = [pc EXCEPT ![c] = "done"] /\ own' = [own EXCEPT ![c] = {}]
      /\ answer' = [answer EXCEPT ![c] = "committed"]
    BY DEF IInv, Tables, Commit, Goto
<1>2. /\ n \in Nat /\ i \in Sessions /\ sig[c] \in Signals /\ k \in Keys /\ seq[c] = n + 1
      /\ incidents' = incidents \cup {[id |-> i, key |-> k]}
      /\ signals' = signals \cup {[signal |-> sig[c], incident |-> i]}
      /\ events' = events \cup {row}
      /\ "incident" \notin own[c] => [id |-> i, key |-> k] \in incidents
    BY CommitRows
<1>3. /\ Tables'
      /\ \A j \in Sessions : j # i => EventsOf(j)' = EventsOf(j)
      /\ Cardinality(EventsOf(i)') = n + 1
    BY CommitTables
<1>4. TypesFit'
    <2>1. Opens(c) \in EventTypes /\ n + 1 \in Int
        BY <1>2 DEF Opens, EventTypes
    <2>2. events' \subseteq [incident : Sessions, seq : Int, type : EventTypes, signal : Signals]
        <3>1. row \in [incident : Sessions, seq : Int, type : EventTypes, signal : Signals]
            BY <1>2, <2>1
        <3>2. events \subseteq [incident : Sessions, seq : Int, type : EventTypes, signal : Signals]
            BY <1>1 DEF TypesFit
        <3>3. events' = events \cup {row}
            BY <1>2
        <3> HIDE DEF row
        <3>4. QED
            BY <3>1, <3>2, <3>3
    <2>3. /\ incidents' \subseteq [id : Sessions, key : Keys]
          /\ signals' \subseteq [signal : Signals, incident : Sessions]
        <3> DEFINE opened == [id |-> i, key |-> k]
                   attached == [signal |-> sig[c], incident |-> i]
        <3>1. /\ opened \in [id : Sessions, key : Keys]
              /\ attached \in [signal : Signals, incident : Sessions]
            BY <1>2
        <3>2. /\ incidents \subseteq [id : Sessions, key : Keys]
              /\ signals \subseteq [signal : Signals, incident : Sessions]
            BY <1>1 DEF TypesFit
        <3>3. incidents' = incidents \cup {opened} /\ signals' = signals \cup {attached}
            BY <1>2
        <3> HIDE DEF opened, attached
        <3>4. QED
            BY <3>1, <3>2, <3>3
    <2>4. pc' \in [Sessions -> Locations]
        BY <1>1 DEF TypesFit, Locations
    <2>5. /\ own' \in [Sessions -> SUBSET Rows]
          /\ answer' \in [Sessions -> {"", "committed", "failed"}]
        BY <1>1 DEF TypesFit
    <2>6. QED
        BY <1>1, <2>2, <2>3, <2>4, <2>5 DEF TypesFit
<1>5. pc'[c] = "done" /\ own'[c] = {} /\ answer'[c] = "committed" /\ OthersStay(c)
    BY <1>1 DEF TypesFit, OthersStay
<1>6. "signal" \in own[c]
    BY <1>1 DEF IInv, Mine, Placed
<1>7. Mine(c)'
    <2>1. Delivered(c)'
        BY <1>1, <1>2 DEF Delivered, IncidentOf
    <2>2. Placed(c)' /\ Grounded(c)' /\ Reserved(c)' /\ Numbered(c)'
        BY <1>5 DEF Placed, Grounded, Reserved, Numbered
    <2>3. QED
        BY <2>1, <2>2 DEF Mine
<1>8. ASSUME NEW d \in Sessions \ {c} PROVE Mine(d)'
    <2>1. Mine(d) /\ Apart(c, d)
        BY DEF IInv
    <2>2. /\ pc'[d] = pc[d] /\ inc'[d] = inc[d] /\ created'[d] = created[d] /\ seq'[d] = seq[d]
          /\ own'[d] = own[d] /\ answer'[d] = answer[d] /\ sig'[d] = sig[d]
        BY <1>1, <1>5 DEF OthersStay
    <2>3. Placed(d)'
        BY <2>1, <2>2 DEF Mine, Placed
    <2>4. /\ incidents \subseteq incidents' /\ signals \subseteq signals'
          /\ IncidentOf(sig[d], inc[d]) => IncidentOf(sig[d], inc[d])'
        BY <1>1, <1>2, <2>2 DEF IncidentOf
    <2>5. Attached(d) => Attached(d)'
        BY <2>2, <2>4 DEF Attached
    <2>6. Grounded(d)'
        BY <2>1, <2>2, <2>4, <2>5 DEF Mine, Grounded
    <2>7. Delivered(d)'
        BY <2>1, <2>2, <2>4 DEF Mine, Delivered
    <2>8. "incident" \in own[d] => \A j \in incidents' : j.key # KeyOf[sig[d]]
        <3>1. SUFFICES ASSUME "incident" \in own[d] PROVE k # KeyOf[sig[d]]
            BY <1>2, <2>1 DEF Mine, Reserved
        <3>2. CASE "incident" \in own[c]
            BY <2>1, <3>1, <3>2 DEF Apart
        <3>3. CASE [id |-> i, key |-> k] \in incidents
            BY <2>1, <3>1, <3>3 DEF Mine, Reserved
        <3>4. QED
            BY <1>2, <3>2, <3>3
    <2>9. "signal" \in own[d] => \A r \in signals' : r.signal # sig[d]
        BY <1>2, <1>6, <2>1 DEF Mine, Reserved, Apart
    <2>10. "event" \in own[d] => \A e \in {f \in events' : f.incident = inc[d]} : e.seq # seq[d]
        BY <1>2, <2>1 DEF Mine, Reserved, Apart, EventsOf
    <2>11. Reserved(d)'
        BY <2>2, <2>8, <2>9, <2>10 DEF Reserved, EventsOf
    <2>12. Numbered(d)'
        <3>1. SUFFICES ASSUME pc[d] # "done", seq[d] # NoSeq
                       PROVE  /\ seq[d] \in Nat \ {0}
                              /\ seq[d] <= Cardinality(EventsOf(inc[d])') + 1
            BY <2>2 DEF Numbered
        <3>2. seq[d] \in Nat \ {0} /\ seq[d] <= Cardinality(EventsOf(inc[d])) + 1
            BY <2>1, <3>1 DEF Mine, Numbered
        <3>3. inc[d] \in Sessions
            <4>1. pc[d] \in {"find", "attach", "append", "flush", "close"}
                BY <1>1, <2>1, <3>1 DEF Mine, Placed, TypesFit, Locations
            <4>2. "incident" \in own[d] \/ IncidentOf(sig[d], inc[d])
                BY <2>1, <4>1 DEF Mine, Grounded
            <4>3. QED
                BY <1>1, <2>1, <4>2 DEF Mine, Grounded, IncidentOf, TypesFit
        <3>4. EventsOf(inc[d])' = {e \in events' : e.incident = inc[d]}
            BY <2>2 DEF EventsOf
        <3>5. CASE inc[d] = i
            <4>1. EventsOf(i)' = {e \in events' : e.incident = i}
                BY <1>1 DEF EventsOf
            <4>2. Cardinality(EventsOf(inc[d])') = n + 1
                BY <1>3, <3>4, <3>5, <4>1
            <4>3. QED
                BY <1>2, <3>2, <3>5, <4>2
        <3>6. CASE inc[d] # i
            <4>1. {e \in events' : e.incident = inc[d]} = EventsOf(inc[d])
                BY <1>2, <3>6 DEF EventsOf
            <4>2. QED
                BY <3>2, <3>4, <4>1
        <3>7. QED
            BY <3>5, <3>6
    <2>13. QED
        BY <2>3, <2>6, <2>7, <2>11, <2>12 DEF Mine
<1>9. ASSUME NEW d \in Sessions, NEW e \in Sessions, d # e PROVE Apart(d, e)'
    <2>1. CASE d = c \/ e = c
        BY <1>5, <2>1 DEF Apart
    <2>2. CASE d # c /\ e # c
        <3>1. Apart(d, e)
            BY <1>9 DEF IInv
        <3>2. QED
            BY <1>1, <1>5, <2>2, <3>1 DEF Apart, OthersStay
    <2>3. QED
        BY <2>1, <2>2
<1>10. \A d \in Sessions : Mine(d)'
    BY <1>7, <1>8
<1>11. QED
    BY <1>3, <1>4, <1>9, <1>10 DEF IInv

-----------------------------------------------------------------------------

LEMMA NextStep == IInv /\ [Next]_vars => IInv'
<1> SUFFICES ASSUME IInv, [Next]_vars PROVE IInv'
    OBVIOUS
<1>1. ASSUME NEW c \in Sessions, Step(c) PROVE IInv'
    <2>1. CASE Commit(c)
        BY <2>1, EmptyCommit, FullCommit
    <2>2. QED
        BY <1>1, <2>1, FindStep, OpenStep, AttachStep, AppendStep, FlushStep, AgainStep DEF Step
<1>2. ASSUME NEW c \in Sessions, Lose(c) PROVE IInv'
    BY <1>2, FailStep DEF Lose
<1>3. CASE UNCHANGED vars
    <2>1. TypesFit'
        BY <1>3 DEF vars, IInv, TypesFit
    <2>2. ASSUME NEW c \in Sessions PROVE Mine(c)'
        <3>1. Mine(c)
            BY DEF IInv
        <3>2. Placed(c)' /\ Grounded(c)' /\ Delivered(c)'
            BY <1>3, <3>1 DEF vars, Mine, Placed, Grounded, Delivered, IncidentOf, Attached
        <3>3. Reserved(c)' /\ Numbered(c)'
            BY <1>3, <3>1 DEF vars, Mine, Reserved, Numbered, EventsOf
        <3>4. QED
            BY <3>2, <3>3 DEF Mine
    <2>3. \A c, d \in Sessions : c # d => Apart(c, d)'
        BY <1>3 DEF vars, IInv, Apart
    <2>4. Keyed'
        BY <1>3 DEF vars, IInv, Tables, Keyed, IncidentOf
    <2>5. \A i \in incidents' : Told(i.id)'
        BY <1>3 DEF vars, IInv, Tables, Told, EventsOf, SignalsOf
    <2>6. QED
        BY <2>1, <2>2, <2>3, <2>4, <2>5 DEF IInv, Tables
<1>4. QED
    BY <1>1, <1>2, <1>3 DEF Next

\* The tables and the uncommitted rows of the sessions satisfy the inductive invariant.
THEOREM Invariance == Spec => []IInv
BY InitHolds, NextStep, PTL DEF Spec

\* A committed delivery is attached to the incident the call returned (correlator.py:31, 50-64).
THEOREM Deliveries == Spec => []CommittedDeliveries
<1>1. IInv => CommittedDeliveries
    BY DEF IInv, Mine, Delivered, IncidentOf, CommittedDeliveries
<1>2. QED
    BY <1>1, Invariance, PTL

\* The three tables tell one story (correlator.py:51-80, 91-107).
THEOREM OneStory == Spec => []HistoryMatchesSignals
<1>1. IInv => HistoryMatchesSignals
    BY DEF IInv, Tables, Told, SignalsOf, HistoryMatchesSignals
<1>2. QED
    BY <1>1, Invariance, PTL

\* Racing first signals of one key open one incident (correlator.py:33-46).
THEOREM OneOpened == Spec => []OneIncidentPerKey
<1>1. IInv => OneIncidentPerKey
    BY DEF IInv, Tables, Keyed, OneIncidentPerKey
<1>2. QED
    BY <1>1, Invariance, PTL

\* A number is none or at least 1, whoever holds it, and calls stay within their bound.
NumbersFit ==
    /\ \A e \in events : e.seq \in Nat \ {0}
    /\ audit \subseteq Sessions \X (Nat \ {0})
    /\ calls \in [Sessions -> 1 .. MaxCalls]
    /\ seq \in [Sessions -> Nat \cup {NoSeq}]

LEMMA NumbersCommit ==
    ASSUME IInv, NumbersFit, NEW c \in Sessions, Commit(c)
    PROVE  NumbersFit'
<1>1. pc[c] = "close" /\ UNCHANGED <<calls, seq>>
    BY DEF Commit
<1>2. "event" \in own[c] => seq[c] \in Nat \ {0}
    BY <1>1 DEF IInv, Mine, Placed, Numbered
<1>3. "incident" \in own[c] => inc[c] \in Sessions /\ seq[c] \in Nat \ {0}
    BY <1>1, <1>2 DEF IInv, Mine, Placed, Grounded
<1>4. \A a \in audit' : a \in audit \/ ("incident" \in own[c] /\ a = <<inc[c], seq[c]>>)
    BY DEF Commit
<1>5. audit' \subseteq Sessions \X (Nat \ {0})
    BY <1>3, <1>4 DEF NumbersFit
<1>6. \A e \in events' : e \in events \/ ("event" \in own[c] /\ e.seq = seq[c])
    BY DEF Commit
<1> QED
    BY <1>1, <1>2, <1>5, <1>6 DEF NumbersFit

LEMMA NumbersStep ==
    ASSUME IInv, IInv', NumbersFit, NEW c \in Sessions, Step(c) \/ Lose(c)
    PROVE  NumbersFit'
<1>1. CASE Find(c) \/ OpenIncident(c) \/ AttachSignal(c) \/ FlushEvent(c) \/ Lose(c)
    BY <1>1 DEF NumbersFit, Find, OpenIncident, AttachSignal, FlushEvent, Lose, dbVars
<1>2. CASE AppendEvent(c)
    <2>1. pc' = [pc EXCEPT ![c] = "flush"] /\ seq' = [seq EXCEPT ![c] = NextSeq(inc[c])]
        BY <1>2 DEF AppendEvent, Goto
    <2>2. Numbered(c)' /\ pc'[c] = "flush"
        BY <2>1 DEF IInv, Mine, TypesFit
    <2>3. seq'[c] \in Nat \cup {NoSeq}
        BY <2>2 DEF Numbered
    <2>4. seq' \in [Sessions -> Nat \cup {NoSeq}]
        BY <2>1, <2>3 DEF NumbersFit
    <2> QED
        BY <1>2, <2>4 DEF NumbersFit, AppendEvent, dbVars
<1>3. CASE CallAgain(c)
    BY <1>3, CorrelatorAssumption DEF NumbersFit, CallAgain, dbVars
<1>4. CASE Commit(c)
    BY <1>4, NumbersCommit
<1> QED
    BY <1>1, <1>2, <1>3, <1>4 DEF Step

\* Type correctness of the tables and of the sessions.
THEOREM TypeCorrect == Spec => []TypeOK
<1>1. ASSUME Init PROVE NumbersFit
    <2>1. events = {} /\ audit = {}
        BY <1>1 DEF Init
    <2>2. calls = [c \in Sessions |-> 1] /\ seq = [c \in Sessions |-> NoSeq]
        BY <1>1 DEF Init
    <2>3. 1 \in 1 .. MaxCalls
        BY CorrelatorAssumption
    <2>4. calls \in [Sessions -> 1 .. MaxCalls] /\ seq \in [Sessions -> Nat \cup {NoSeq}]
        BY <2>2, <2>3
    <2> QED
        BY <2>1, <2>4 DEF NumbersFit
<1>2. ASSUME IInv, NumbersFit, [Next]_vars PROVE NumbersFit'
    <2>1. IInv'
        BY <1>2, NextStep
    <2>2. CASE UNCHANGED vars
        BY <1>2, <2>2 DEF NumbersFit, vars
    <2> QED
        BY <1>2, <2>1, <2>2, NumbersStep DEF Next
<1>3. ASSUME IInv, NumbersFit PROVE TypeOK
    <2>1. TypesFit
        BY <1>3 DEF IInv
    <2>2. events \subseteq [incident : Sessions, seq : Nat \ {0}, type : EventTypes, signal : Signals]
        BY <1>3, <2>1 DEF TypesFit, NumbersFit
    <2> QED
        BY <1>3, <2>1, <2>2 DEF TypesFit, NumbersFit, TypeOK
<1> QED
    BY <1>1, <1>2, <1>3, Invariance, PTL DEF Spec

-----------------------------------------------------------------------------
(* The tables implement the numbered log. *)

KeyRows(k)    == {f \in events : [id |-> f.incident, key |-> k] \in incidents}
Entries(rows) == {<<e.seq, e.type, e.signal>> : e \in rows}
histories     == [k \in Keys |-> Entries(KeyRows(k))]

LEMMA EntriesAdd ==
    ASSUME NEW S, NEW x
    PROVE  Entries(S \cup {x}) = Entries(S) \cup {<<x.seq, x.type, x.signal>>}
BY DEF Entries

\* An incident's numbers tell its entries apart.
LEMMA EntriesCount ==
    ASSUME NEW S, IsFiniteSet(S), \A e, f \in S : e.seq = f.seq => e = f
    PROVE  Cardinality(Entries(S)) = Cardinality(S)
<1> DEFINE f == [e \in S |-> <<e.seq, e.type, e.signal>>]
<1>1. f \in [S -> Entries(S)] /\ \A t \in Entries(S) : \E e \in S : f[e] = t
    BY DEF Entries
<1>2. \A e, d \in S : f[e] = f[d] => e = d
    OBVIOUS
<1>3. f \in Bijection(S, Entries(S))
    BY <1>1, <1>2 DEF Bijection, Injection, Surjection, IsInjective
<1>4. QED
    BY <1>3, FS_Bijection DEF ExistsBijection

LEMMA LogCardinality ==
    ASSUME NEW S
    PROVE  Log!Cardinality(S) = Cardinality(S)
BY Zenon DEF Cardinality, Log!Cardinality

LEMMA Recorded ==
    ASSUME NEW k, NEW s, \A e \in histories[k] : e[3] # s,
           histories' = [histories EXCEPT ![k] = @ \cup
               {<<Log!Cardinality(@) + 1,
                  IF histories[k] = {} THEN "opened" ELSE "signal_attached", s>>}]
    PROVE  Log!Record(k, s)
BY Zenon DEF Log!Record, histories, KeyRows, Entries

LEMMA InitLog == Init => Log!LogInit
<1> SUFFICES ASSUME Init PROVE Log!LogInit
    OBVIOUS
<1>1. \A k \in Keys : {<<e.seq, e.type, e.signal>> :
                         e \in {f \in events : [id |-> f.incident, key |-> k] \in incidents}} = {}
    BY DEF Init
<1>2. QED
    BY <1>1 DEF Log!LogInit

\* A commit with an event is one Record of the log.
LEMMA CommitRecords ==
    ASSUME IInv, NEW c \in Sessions, Commit(c), "event" \in own[c],
           NEW k, k = KeyOf[sig[c]], NEW s, s = sig[c]
    PROVE  Log!Record(k, s)
<1> DEFINE i == inc[c]
           n == Cardinality(EventsOf(i))
           row == [incident |-> i, seq |-> n + 1, type |-> Opens(c), signal |-> sig[c]]
<1>1. TypesFit /\ Keyed /\ pc[c] = "close"
    BY DEF IInv, Tables, Commit
<1>2. /\ n \in Nat /\ i \in Sessions /\ sig[c] \in Signals /\ k \in Keys
      /\ incidents' = incidents \cup {[id |-> i, key |-> k]}
      /\ events' = events \cup {row}
      /\ \A r \in signals : r.signal # sig[c]
      /\ \A j \in incidents : (j.key = k \/ j.id = i) => j = [id |-> i, key |-> k]
    BY CommitRows
<1>3. /\ IsFiniteSet(EventsOf(i))
      /\ {e.signal : e \in EventsOf(i)} = SignalsOf(i)
      /\ \A e, f \in EventsOf(i) : e.seq = f.seq => e = f
    BY <1>1, Numbering
<1>4. KeyRows(k) = EventsOf(i)
    <2>1. ASSUME NEW f \in events, [id |-> f.incident, key |-> k] \in incidents
          PROVE  f.incident = i
        BY <1>2, <2>1
    <2>2. ASSUME NEW f \in events, f.incident = i
          PROVE  [id |-> f.incident, key |-> k] \in incidents
        BY <1>1, <1>2, <2>2 DEF Keyed, IncidentOf
    <2>3. QED
        BY <2>1, <2>2 DEF KeyRows, EventsOf
<1>5. {f \in events' : [id |-> f.incident, key |-> k] \in incidents'} = EventsOf(i) \cup {row}
    <2>1. ASSUME NEW f \in events', [id |-> f.incident, key |-> k] \in incidents'
          PROVE  f.incident = i
        BY <1>2, <2>1
    <2>2. {f \in events' : [id |-> f.incident, key |-> k] \in incidents'}
             = {f \in events' : f.incident = i}
        BY <1>2, <2>1
    <2>3. QED
        BY <1>2, <2>2 DEF EventsOf
<1>6. ASSUME NEW j \in Keys, j # k
      PROVE  {f \in events' : [id |-> f.incident, key |-> j] \in incidents'} = KeyRows(j)
    <2>1. ASSUME NEW f PROVE [id |-> f, key |-> j] \in incidents' <=> [id |-> f, key |-> j] \in incidents
        BY <1>2, <1>6
    <2>2. [id |-> i, key |-> j] \notin incidents
        BY <1>2, <1>6
    <2>3. QED
        BY <1>2, <2>1, <2>2 DEF KeyRows
<1>7. Entries(EventsOf(i) \cup {row}) = Entries(EventsOf(i)) \cup {<<n + 1, Opens(c), sig[c]>>}
    BY EntriesAdd
<1>8. histories[k] = Entries(EventsOf(i)) /\ Cardinality(histories[k]) = n
    BY <1>2, <1>3, <1>4, EntriesCount DEF histories
<1>9. Opens(c) = IF histories[k] = {} THEN "opened" ELSE "signal_attached"
    BY <1>8 DEF Opens, Entries
<1>10. \A e \in histories[k] : e[3] # s
    <2>1. sig[c] \notin SignalsOf(i)
        BY <1>2 DEF SignalsOf
    <2>2. \A e \in EventsOf(i) : e.signal # sig[c]
        BY <1>3, <2>1
    <2>3. QED
        BY <1>8, <2>2 DEF Entries
<1>11. histories' = [histories EXCEPT ![k] = histories[k] \cup {<<n + 1, Opens(c), sig[c]>>}]
    <2> DEFINE new(j) == Entries({f \in events' : [id |-> f.incident, key |-> j] \in incidents'})
               more == histories[k] \cup {<<n + 1, Opens(c), sig[c]>>}
    <2>1. histories' = [j \in Keys |-> new(j)]
        BY DEF histories, KeyRows, Entries
    <2>2. new(k) = more
        BY <1>5, <1>7, <1>8
    <2>3. ASSUME NEW j \in Keys, j # k PROVE new(j) = histories[j]
        BY <1>6, <2>3 DEF histories
    <2>4. histories = [j \in Keys |-> histories[j]]
        BY DEF histories
    <2> HIDE DEF new, more
    <2>5. histories' = [histories EXCEPT ![k] = more]
        BY <2>1, <2>2, <2>3, <2>4
    <2>6. QED
        BY <2>5 DEF more
<1>12. n = Log!Cardinality(histories[k])
    BY <1>8, LogCardinality
<1>13. histories' = [histories EXCEPT ![k] = @ \cup
                       {<<Log!Cardinality(@) + 1,
                          IF histories[k] = {} THEN "opened" ELSE "signal_attached", s>>}]
    BY <1>9, <1>11, <1>12
<1>14. QED
    BY <1>10, <1>13, Recorded, Zenon

LEMMA RecordStep ==
    ASSUME NEW k \in Keys, NEW s \in Signals, Log!Record(k, s)
    PROVE  \E j \in Keys, t \in Signals : Log!Record(j, t)
OBVIOUS

LEMMA LogStep ==
    ASSUME IInv, [Next]_vars
    PROVE  [\E k \in Keys, s \in Signals : Log!Record(k, s)]_histories
<1>1. CASE UNCHANGED <<incidents, events>>
    BY <1>1 DEF histories, KeyRows, Entries
<1>2. ASSUME NEW c \in Sessions, Commit(c)
      PROVE  [\E k \in Keys, s \in Signals : Log!Record(k, s)]_histories
    <2>1. CASE "event" \in own[c]
        <3>1. sig[c] \in Signals /\ KeyOf[sig[c]] \in Keys
            BY <1>2, <2>1, CommitRows
        <3>2. PICK k \in Keys, s \in Signals : k = KeyOf[sig[c]] /\ s = sig[c]
            BY <3>1
        <3>3. Log!Record(k, s)
            BY <1>2, <2>1, <3>2, CommitRecords
        <3>4. QED
            BY <3>3, RecordStep
    <2>2. CASE "event" \notin own[c]
        <3>1. "incident" \notin own[c]
            BY <1>2, <2>2 DEF IInv, Mine, Placed, Commit
        <3>2. UNCHANGED <<incidents, events>>
            BY <1>2, <2>2, <3>1 DEF Commit
        <3>3. QED
            BY <1>1, <3>2
    <2>3. QED
        BY <2>1, <2>2
<1>3. ASSUME NEW c \in Sessions, Step(c) \/ Lose(c), ~Commit(c)
      PROVE  UNCHANGED <<incidents, events>>
    BY <1>3 DEF Step, Lose, Find, OpenIncident, AttachSignal, AppendEvent, FlushEvent, CallAgain,
                dbVars
<1>4. QED
    BY <1>1, <1>2, <1>3 DEF Next, vars

\* Every behaviour of the racing sessions is one of the numbered log: an entry is recorded
\* once, under the next number, at some session's commit (correlator.py:31-107).
THEOREM Refinement == Spec => ImplementsLog
<1>1. IInv /\ [Next]_vars =>
        [\E k \in Keys, s \in Signals : Log!Record(k, s)]_histories
    BY LogStep
<1>2. QED
    BY <1>1, InitLog, Invariance, PTL DEF Spec, ImplementsLog, Log!LogSpec, histories, KeyRows, Entries
=============================================================================
