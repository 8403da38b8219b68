-------------------------- MODULE OperationsProofs --------------------------
(***************************************************************************)
(* The three parts of the operators' side that MCOperations checks, each   *)
(* for every value of its constants.                                       *)
(*                                                                         *)
(* Recovery, for plans and rollbacks of any length: every mutation was     *)
(* audited and belongs to a plan that passed every check, and a rollback   *)
(* undoes a suffix of the completed steps, in reverse.                     *)
(*                                                                         *)
(* Sessions, for any users, tabs, lifetime of a token and length of a      *)
(* behaviour: the authority of a role that was taken lapses with the       *)
(* tokens that carry it, and a request that changes something acts for     *)
(* the login it was prepared under.                                        *)
(*                                                                         *)
(* VerticalSlice, for any number of runs and injections, whatever rows and *)
(* link a killed run left to the next: its verdict is right both ways.     *)
(***************************************************************************)
EXTENDS Recovery, Sessions, VerticalSlice, TLAPS

-----------------------------------------------------------------------------
(* Recovery. *)

\* Nothing is touched before the checks, and nothing without them.
CheckedFirst ==
    /\ stage \in {"planned", "refused"} => mutated = {} /\ completed = 0
    /\ stage \notin {"planned", "refused"} => checked
    /\ mutated \subseteq audited

\* Until a rollback begins, the steps that count as completed are on the device.
CompletedStand ==
    stage \in {"planned", "forward", "failed"} => reverted = 0 /\ \A i \in 1 .. completed : i \in mutated

\* What stands during a rollback is a prefix, up to the next step to be reverted.
PrefixStands ==
    stage = "rollback" => reverted <= ToRevert /\ \A i \in 1 .. ToRevert : i \in mutated <=> i <= Target

RecoveryIInv ==
    /\ RecoveryTypeOK
    /\ stage # "over" => outcome = "none"
    /\ CheckedFirst
    /\ CompletedStand
    /\ PrefixStands
    /\ UndoneInReverse

LEMMA ToRevertBounds ==
    ASSUME RecoveryTypeOK
    PROVE  ToRevert \in Nat /\ ToRevert <= completed /\ (completed = 0 => ToRevert = 0)
BY DEF RecoveryTypeOK, ToRevert

LEMMA RecoveryInitHolds == RecoveryInit => RecoveryIInv
<1> SUFFICES ASSUME RecoveryInit PROVE RecoveryIInv
    OBVIOUS
<1>1. RecoveryTypeOK
    <2>1. steps \in Nat /\ undo \in Nat
        BY RecoveryAssumption DEF RecoveryInit
    <2>2. QED
        BY <2>1 DEF RecoveryInit, RecoveryTypeOK
<1>2. QED
    BY <1>1 DEF RecoveryInit, RecoveryIInv, CheckedFirst, CompletedStand, PrefixStands, UndoneInReverse

LEMMA RecoveryTypeStep == RecoveryTypeOK /\ [RecoveryNext]_rvars => RecoveryTypeOK'
<1> SUFFICES ASSUME RecoveryTypeOK, [RecoveryNext]_rvars PROVE RecoveryTypeOK'
    OBVIOUS
<1> USE DEF RecoveryTypeOK
<1>1. CASE Precheck
    BY <1>1 DEF Precheck, Executable
<1>2. CASE GuardedMutation
    <2>1. Next1 \in Nat
        BY DEF Next1
    <2>2. QED
        BY <1>2, <2>1 DEF GuardedMutation
<1>3. CASE BeginRollback
    BY <1>3 DEF BeginRollback
<1>4. CASE RollbackStep
    <2>1. mutated' \in {mutated, mutated \ {Target}}
        BY <1>4 DEF RollbackStep
    <2>2. mutated' \in SUBSET Nat
        BY <2>1
    <2>3. QED
        BY <1>4, <2>2 DEF RollbackStep, Halt
<1>5. CASE RolledBack
    BY <1>5 DEF RolledBack
<1>6. CASE UNCHANGED rvars
    BY <1>6 DEF rvars
<1>7. QED
    BY <1>1, <1>2, <1>3, <1>4, <1>5, <1>6 DEF RecoveryNext

LEMMA RecoveryStepHolds == RecoveryIInv /\ [RecoveryNext]_rvars => RecoveryIInv'
<1> SUFFICES ASSUME RecoveryIInv, [RecoveryNext]_rvars PROVE RecoveryIInv'
    OBVIOUS
<1>t. RecoveryTypeOK /\ RecoveryTypeOK'
    BY RecoveryTypeStep DEF RecoveryIInv
<1>b. ToRevert \in Nat /\ ToRevert <= completed /\ (completed = 0 => ToRevert = 0)
    BY <1>t, ToRevertBounds
<1>1. CASE Precheck
    BY <1>1, <1>t DEF Precheck, RecoveryIInv, CheckedFirst, CompletedStand, PrefixStands, UndoneInReverse
<1>2. CASE GuardedMutation
    <2> USE <1>2, <1>t DEF GuardedMutation, RecoveryTypeOK
    <2>1. CheckedFirst'
        BY DEF RecoveryIInv, CheckedFirst
    <2>2. CompletedStand'
        BY DEF RecoveryIInv, CompletedStand, Next1
    <2>3. QED
        BY <2>1, <2>2 DEF RecoveryIInv, PrefixStands, UndoneInReverse
<1>3. CASE BeginRollback
    <2>1. ToRevert' = ToRevert
        BY <1>3 DEF BeginRollback, ToRevert
    <2>2. reverted = 0 /\ \A i \in 1 .. completed : i \in mutated
        BY <1>3 DEF BeginRollback, RecoveryIInv, CompletedStand
    <2>3. PrefixStands' /\ UndoneInReverse'
        BY <1>3, <1>t, <1>b, <2>1, <2>2
        DEF BeginRollback, RecoveryIInv, PrefixStands, UndoneInReverse, Target, RecoveryTypeOK
    <2>4. QED
        BY <1>3, <1>t, <2>3 DEF BeginRollback, RecoveryIInv, CheckedFirst, CompletedStand
<1>4. CASE RollbackStep
    <2>1. /\ ToRevert' = ToRevert /\ Target \in 1 .. ToRevert
          /\ \A i \in 1 .. ToRevert : i \in mutated <=> i <= Target
        BY <1>4, <1>t, <1>b DEF RollbackStep, ToRevert, RecoveryIInv, PrefixStands, Target, RecoveryTypeOK
    <2>2. mutated' \in {mutated, mutated \ {Target}} /\ stage' \in {"rollback", "over"}
        BY <1>4 DEF RollbackStep, Halt
    <2>3. UndoneInReverse'
        <3>1. outcome' # "rolled_back"
            BY <1>4 DEF RollbackStep, Halt, RecoveryIInv
        <3>2. \A i, j \in 1 .. ToRevert : i < j /\ j \in mutated' => i \in mutated'
            BY <2>1, <2>2, <1>b
        <3>3. QED
            BY <2>1, <3>1, <3>2 DEF UndoneInReverse
    <2>4. PrefixStands'
        BY <1>4, <1>t, <1>b, <2>1 DEF RollbackStep, Halt, PrefixStands, Target, RecoveryTypeOK
    <2>5. CheckedFirst' /\ CompletedStand'
        BY <1>4, <2>2 DEF RollbackStep, RecoveryIInv, CheckedFirst, CompletedStand
    <2>6. QED
        BY <1>4, <1>t, <2>3, <2>4, <2>5 DEF RollbackStep, Halt, RecoveryIInv
<1>5. CASE RolledBack
    <2>1. ToRevert' = ToRevert /\ \A i \in 1 .. ToRevert : i \notin mutated'
        BY <1>5, <1>t, <1>b DEF RolledBack, ToRevert, RecoveryIInv, PrefixStands, Target, RecoveryTypeOK
    <2>2. UndoneInReverse'
        BY <2>1 DEF UndoneInReverse
    <2>3. QED
        BY <1>5, <1>t, <2>2 DEF RolledBack, RecoveryIInv, CheckedFirst, CompletedStand, PrefixStands
<1>6. CASE UNCHANGED rvars
    BY <1>6, <1>t
    DEF rvars, RecoveryIInv, CheckedFirst, CompletedStand, PrefixStands, UndoneInReverse, ToRevert, Target
<1>7. QED
    BY <1>1, <1>2, <1>3, <1>4, <1>5, <1>6 DEF RecoveryNext

\* The inductive invariant of the safety path.
THEOREM RecoveryInvariance == RecoverySpec => []RecoveryIInv
BY RecoveryInitHolds, RecoveryStepHolds, PTL DEF RecoverySpec

\* The variables keep their types (executor/plan.py, rollback.py).
THEOREM RecoveryTypeCorrect == RecoverySpec => []RecoveryTypeOK
<1>1. RecoveryIInv => RecoveryTypeOK
    BY DEF RecoveryIInv
<1>2. QED
    BY RecoveryInvariance, <1>1, PTL

\* Nothing reaches the device unaudited or from a plan that failed a check
\* (audit_guard.py:18-24, prechecks.py:39-97).
THEOREM AuditedFirst == RecoverySpec => []MutationsAreAudited
<1>1. RecoveryIInv => MutationsAreAudited
    BY DEF RecoveryIInv, RecoveryTypeOK, CheckedFirst, MutationsAreAudited
<1>2. QED
    BY RecoveryInvariance, <1>1, PTL

\* A rollback of any length undoes a suffix of the completed steps, wherever it stopped, and all of
\* those that have a rollback when it says so (rollback.py:43-58).
THEOREM ReverseUndo == RecoverySpec => []UndoneInReverse
<1>1. RecoveryIInv => UndoneInReverse
    BY DEF RecoveryIInv
<1>2. QED
    BY RecoveryInvariance, <1>1, PTL

-----------------------------------------------------------------------------
(* Sessions. *)

Principals == [user : Users, role : Roles, exp : Int, login : Nat]
Requests == [user : Users, role : Roles, route : Routes, login : Nat, at : Int]

SessionsTypeOK ==
    /\ clock \in Nat
    /\ roleOf \in [Users -> Roles]
    /\ lastHeld \in [Users -> [Roles -> Int]]
    /\ session \in SUBSET Principals
    /\ csrf \in Nat
    /\ form \in [Tabs -> Nat]
    /\ acting \in [Tabs -> SUBSET Requests]
    /\ logins \in Nat

\* A user holds the role of the table now, and no role was held later than now.
HeldIsPast ==
    \A u \in Users : /\ lastHeld[u][roleOf[u]] = clock
                     /\ \A r \in Roles : lastHeld[u][r] <= clock

\* The two cookies are of the same login, and a token carries a role that was held when it was
\* minted, its lifetime before it expires.
CookiesFit ==
    \A p \in session : p.login = csrf /\ p.exp - Ttl <= lastHeld[p.user][p.role]

SessionsIInv == SessionsTypeOK /\ HeldIsPast /\ CookiesFit /\ AuthorityIsBounded /\ ActsForItsLogin

\* What the users table and the clock may do to lastHeld.
HeldGrows ==
    \A u \in Users, r \in Roles : lastHeld[u][r] <= lastHeld'[u][r]

LEMMA SessionsInitHolds == SessionsInit => SessionsIInv
<1> SUFFICES ASSUME SessionsInit PROVE SessionsIInv
    OBVIOUS
<1>1. Never \in Int /\ Never <= 0
    BY SessionsAssumption DEF Never
<1>2. SessionsTypeOK
    <2>1. lastHeld \in [Users -> [Roles -> Int]]
        BY <1>1 DEF SessionsInit
    <2>2. QED
        BY <2>1 DEF SessionsInit, SessionsTypeOK
<1>3. HeldIsPast
    BY <1>1 DEF SessionsInit, HeldIsPast
<1>4. QED
    BY <1>2, <1>3 DEF SessionsInit, SessionsIInv, CookiesFit, AuthorityIsBounded, ActsForItsLogin

\* A step that leaves cookies, forms and requests alone and lets lastHeld grow keeps what is said of
\* them.
LEMMA HeldStep ==
    ASSUME SessionsIInv, SessionsTypeOK', HeldGrows, UNCHANGED <<session, csrf, form, acting>>
    PROVE  CookiesFit' /\ AuthorityIsBounded' /\ ActsForItsLogin'
<1>1. CookiesFit'
    <2> SUFFICES ASSUME NEW p \in session PROVE p.login = csrf /\ p.exp - Ttl <= lastHeld'[p.user][p.role]
        BY DEF CookiesFit
    <2>1. p \in Principals /\ p.user \in Users /\ p.role \in Roles /\ p.exp \in Int
        BY DEF SessionsIInv, SessionsTypeOK, Principals
    <2>2. p.login = csrf /\ p.exp - Ttl <= lastHeld[p.user][p.role]
        BY DEF SessionsIInv, CookiesFit
    <2>3. lastHeld[p.user][p.role] \in Int /\ lastHeld'[p.user][p.role] \in Int
        BY <2>1 DEF SessionsIInv, SessionsTypeOK
    <2>4. lastHeld[p.user][p.role] <= lastHeld'[p.user][p.role]
        BY <2>1 DEF HeldGrows
    <2>5. QED
        BY <2>1, <2>2, <2>3, <2>4, SessionsAssumption
<1>2. AuthorityIsBounded'
    <2> SUFFICES ASSUME NEW t \in Tabs, NEW a \in acting[t]
                 PROVE  a.role \in Allowed(a.route) /\ a.at - lastHeld'[a.user][a.role] <= Ttl
        BY DEF AuthorityIsBounded
    <2>1. a \in Requests /\ a.user \in Users /\ a.role \in Roles /\ a.at \in Int
        BY DEF SessionsIInv, SessionsTypeOK, Requests
    <2>2. a.role \in Allowed(a.route) /\ a.at - lastHeld[a.user][a.role] <= Ttl
        BY DEF SessionsIInv, AuthorityIsBounded
    <2>3. lastHeld[a.user][a.role] \in Int /\ lastHeld'[a.user][a.role] \in Int
        BY <2>1 DEF SessionsIInv, SessionsTypeOK
    <2>4. lastHeld[a.user][a.role] <= lastHeld'[a.user][a.role]
        BY <2>1 DEF HeldGrows
    <2>5. QED
        BY <2>1, <2>2, <2>3, <2>4, SessionsAssumption
<1>3. ActsForItsLogin'
    BY DEF SessionsIInv, ActsForItsLogin
<1>4. QED
    BY <1>1, <1>2, <1>3

LEMMA TickStep == ASSUME SessionsIInv, Tick PROVE SessionsIInv'
<1> USE DEF SessionsIInv, SessionsTypeOK, HeldIsPast
<1>1. \A u \in Users : roleOf[u] \in Roles /\ lastHeld[u] \in [Roles -> Int]
    OBVIOUS
<1>2. \A u \in Users, r \in Roles :
        lastHeld'[u][r] = IF r = roleOf[u] THEN clock + 1 ELSE lastHeld[u][r]
    BY <1>1 DEF Tick
<1>3. SessionsTypeOK'
    BY <1>1 DEF Tick
<1>4. HeldIsPast'
    BY <1>1, <1>2 DEF Tick
<1>5. HeldGrows
    BY <1>1, <1>2 DEF HeldGrows
<1>6. UNCHANGED <<session, csrf, form, acting>>
    BY DEF Tick
<1>7. CookiesFit' /\ AuthorityIsBounded' /\ ActsForItsLogin'
    BY <1>3, <1>5, <1>6, HeldStep
<1>8. QED
    BY <1>3, <1>4, <1>7

LEMMA RoleStep == ASSUME SessionsIInv, NEW v \in Users, ChangeRole(v) PROVE SessionsIInv'
<1> USE DEF SessionsIInv, SessionsTypeOK, HeldIsPast
<1>1. PICK s \in Roles : /\ roleOf' = [roleOf EXCEPT ![v] = s]
                         /\ lastHeld' = [lastHeld EXCEPT ![v][s] = clock]
    BY DEF ChangeRole
<1>2. \A u \in Users, r \in Roles :
        lastHeld'[u][r] = IF u = v /\ r = s THEN clock ELSE lastHeld[u][r]
    BY <1>1
<1>3. SessionsTypeOK'
    BY <1>1 DEF ChangeRole
<1>4. HeldIsPast'
    BY <1>1, <1>2 DEF ChangeRole
<1>5. HeldGrows
    BY <1>2 DEF HeldGrows
<1>6. UNCHANGED <<session, csrf, form, acting>>
    BY DEF ChangeRole
<1>7. CookiesFit' /\ AuthorityIsBounded' /\ ActsForItsLogin'
    BY <1>3, <1>5, <1>6, HeldStep
<1>8. QED
    BY <1>3, <1>4, <1>7

\* Logging in and out leave the requests under way alone.
LEMMA LoginStep == ASSUME SessionsIInv, NEW u \in Users, NEW t \in Tabs, Login(u, t) PROVE SessionsIInv'
<1>1. MintToken(u) \in Principals
    BY SessionsAssumption DEF SessionsIInv, SessionsTypeOK, MintToken, Principals
<1>2. SessionsTypeOK'
    BY <1>1 DEF Login, SessionsIInv, SessionsTypeOK
<1>3. CookiesFit'
    <2>1. /\ MintToken(u).login = logins + 1 /\ MintToken(u).exp = clock + Ttl
          /\ MintToken(u).user = u /\ MintToken(u).role = roleOf[u]
        BY DEF MintToken
    <2>2. lastHeld[u][roleOf[u]] = clock
        BY DEF SessionsIInv, HeldIsPast
    <2>3. clock \in Int /\ Ttl \in Int
        BY SessionsAssumption DEF SessionsIInv, SessionsTypeOK
    <2>4. QED
        BY <2>1, <2>2, <2>3 DEF Login, CookiesFit
<1>4. HeldIsPast' /\ AuthorityIsBounded' /\ ActsForItsLogin'
    BY DEF Login, SessionsIInv, HeldIsPast, AuthorityIsBounded, ActsForItsLogin
<1>5. QED
    BY <1>2, <1>3, <1>4 DEF SessionsIInv

LEMMA LogoutStep == ASSUME SessionsIInv, NEW t \in Tabs, Logout(t) PROVE SessionsIInv'
BY DEF Logout, SessionsIInv, SessionsTypeOK, HeldIsPast, CookiesFit, AuthorityIsBounded, ActsForItsLogin

LEMMA PrepareStep == ASSUME SessionsIInv, NEW t \in Tabs, Prepare(t) PROVE SessionsIInv'
<1>1. SessionsTypeOK'
    BY DEF Prepare, SessionsIInv, SessionsTypeOK
<1>2. ActsForItsLogin'
    BY DEF Prepare, SessionsIInv, SessionsTypeOK, ActsForItsLogin
<1>3. HeldIsPast' /\ CookiesFit' /\ AuthorityIsBounded'
    BY DEF Prepare, SessionsIInv, HeldIsPast, CookiesFit, AuthorityIsBounded
<1>4. QED
    BY <1>1, <1>2, <1>3 DEF SessionsIInv

LEMMA RespondStep == ASSUME SessionsIInv, NEW t \in Tabs, Respond(t) PROVE SessionsIInv'
<1>1. SessionsTypeOK'
    BY DEF Respond, SessionsIInv, SessionsTypeOK
<1>2. \A s \in Tabs : acting'[s] = IF s = t THEN {} ELSE acting[s]
    BY DEF Respond, SessionsIInv, SessionsTypeOK
<1>3. \A s \in Tabs : s # t => form'[s] = form[s]
    BY DEF Respond, SessionsIInv, SessionsTypeOK
<1>4. ActsForItsLogin' /\ AuthorityIsBounded'
    BY <1>2, <1>3 DEF Respond, SessionsIInv, ActsForItsLogin, AuthorityIsBounded
<1>5. HeldIsPast' /\ CookiesFit'
    BY DEF Respond, SessionsIInv, HeldIsPast, CookiesFit
<1>6. QED
    BY <1>1, <1>4, <1>5 DEF SessionsIInv

\* The request that is let in held its role when its token was minted, which is no longer ago than
\* the token lives, and its form is that of the login of its token.
LEMMA AdmitStep ==
    ASSUME SessionsIInv, NEW t \in Tabs, NEW route \in Routes, Admit(t, route)
    PROVE  SessionsIInv'
<1>1. PICK p \in VerifyToken :
        /\ p.role \in Allowed(route)
        /\ ChangesState(route) => CsrfMatches(t)
        /\ acting' = [acting EXCEPT ![t] = {[user |-> p.user, role |-> p.role, route |-> route,
                                            login |-> p.login, at |-> clock]}]
    BY DEF Admit
<1> DEFINE a == [user |-> p.user, role |-> p.role, route |-> route, login |-> p.login, at |-> clock]
<1>2. /\ p \in session /\ ~(p.exp < clock)
      /\ p.user \in Users /\ p.role \in Roles /\ p.exp \in Int /\ p.login \in Nat
    BY DEF VerifyToken, SessionsIInv, SessionsTypeOK, Principals
<1>3. a \in Requests
    BY <1>2 DEF Requests, SessionsIInv, SessionsTypeOK
<1>4. \A s \in Tabs : acting'[s] = IF s = t THEN {a} ELSE acting[s]
    BY <1>1 DEF SessionsIInv, SessionsTypeOK
<1>5. SessionsTypeOK'
    BY <1>1, <1>3 DEF Admit, SessionsIInv, SessionsTypeOK
<1>6. clock - lastHeld[p.user][p.role] <= Ttl
    <2>1. p.exp - Ttl <= lastHeld[p.user][p.role]
        BY <1>2 DEF SessionsIInv, CookiesFit
    <2>2. lastHeld[p.user][p.role] \in Int /\ clock \in Int
        BY <1>2 DEF SessionsIInv, SessionsTypeOK
    <2>3. QED
        BY <1>2, <2>1, <2>2, SessionsAssumption
<1>7. AuthorityIsBounded'
    <2>1. \A s \in Tabs : s # t => \A b \in acting'[s] :
            b.role \in Allowed(b.route) /\ b.at - lastHeld[b.user][b.role] <= Ttl
        BY <1>4 DEF SessionsIInv, AuthorityIsBounded
    <2>2. a.role \in Allowed(a.route) /\ a.at - lastHeld[a.user][a.role] <= Ttl
        BY <1>1, <1>6
    <2>3. QED
        BY <1>4, <2>1, <2>2 DEF Admit, AuthorityIsBounded
<1>8. ActsForItsLogin'
    <2>1. p.login = csrf
        BY <1>2 DEF SessionsIInv, CookiesFit
    <2>2. ChangesState(a.route) => form[t] = a.login
        BY <1>1, <2>1 DEF CsrfMatches
    <2>3. QED
        BY <1>4, <2>2 DEF Admit, SessionsIInv, ActsForItsLogin
<1>9. HeldIsPast' /\ CookiesFit'
    BY DEF Admit, SessionsIInv, HeldIsPast, CookiesFit
<1>10. QED
    BY <1>5, <1>7, <1>8, <1>9 DEF SessionsIInv

LEMMA SessionsStepHolds == SessionsIInv /\ [SessionsNext]_svars => SessionsIInv'
<1> SUFFICES ASSUME SessionsIInv, [SessionsNext]_svars PROVE SessionsIInv'
    OBVIOUS
<1>1. CASE Tick
    BY <1>1, TickStep
<1>2. ASSUME NEW u \in Users, ChangeRole(u) PROVE SessionsIInv'
    BY <1>2, RoleStep
<1>3. ASSUME NEW t \in Tabs, NEW u \in Users, Login(u, t) PROVE SessionsIInv'
    BY <1>3, LoginStep
<1>4. ASSUME NEW t \in Tabs, Logout(t) \/ Prepare(t) \/ Respond(t) PROVE SessionsIInv'
    BY <1>4, LogoutStep, PrepareStep, RespondStep
<1>5. ASSUME NEW t \in Tabs, NEW route \in Routes, Admit(t, route) PROVE SessionsIInv'
    BY <1>5, AdmitStep
<1>6. CASE UNCHANGED svars
    BY <1>6 DEF svars, SessionsIInv, SessionsTypeOK, HeldIsPast, CookiesFit, AuthorityIsBounded, ActsForItsLogin
<1>7. QED
    BY <1>1, <1>2, <1>3, <1>4, <1>5, <1>6 DEF SessionsNext

\* The inductive invariant of the console's sessions.
THEOREM SessionsInvariance == SessionsSpec => []SessionsIInv
BY SessionsInitHolds, SessionsStepHolds, PTL DEF SessionsSpec

\* The variables keep their types (auth.py, app.py).
THEOREM SessionsTypeCorrect == SessionsSpec => []SessionsTypeOK
<1>1. SessionsIInv => SessionsTypeOK
    BY DEF SessionsIInv
<1>2. QED
    BY SessionsInvariance, <1>1, PTL

\* A role that was taken acts at most one token's life longer (auth.py:42-66, app.py:65-78).
THEOREM AuthorityLapses == SessionsSpec => []AuthorityIsBounded
<1>1. SessionsIInv => AuthorityIsBounded
    BY DEF SessionsIInv
<1>2. QED
    BY SessionsInvariance, <1>1, PTL

\* A request that changes something acts for the login it was prepared under, however tabs log in
\* and out meanwhile (app.py:83-86, 94-111).
THEOREM LoginsStayApart == SessionsSpec => []ActsForItsLogin
<1>1. SessionsIInv => ActsForItsLogin
    BY DEF SessionsIInv
<1>2. QED
    BY SessionsInvariance, <1>1, PTL

-----------------------------------------------------------------------------
(* VerticalSlice. *)

Stages == {"idle", "clean", "inject", "observe", "correlate", "claim", "plan", "approve", "execute",
           "judge", "trail"}
Outcomes == {"none", "succeeded", "outcome_unknown", "failed"}
Rows == [incident : BOOLEAN, signal : BOOLEAN, plan : BOOLEAN, approved : BOOLEAN,
         job : {"none", "pending", "completed", "reconciling"}, execution : Outcomes,
         audit : SUBSET {"intent", "apply"}]

SliceTypesFit ==
    /\ admin \in {"enable", "disable"} /\ oper \in {"up", "down"}
    /\ db \in Rows
    /\ at \in Stages
    /\ failed \in BOOLEAN /\ disturbed \in BOOLEAN /\ downBefore \in BOOLEAN
    /\ slices \in Int

\* The rows are those of this run, from the deletion of the others to the step that writes them.
RowsAreFresh ==
    /\ at \in {"inject", "observe", "correlate", "claim", "plan"} => db.plan = FALSE
    /\ at \in {"inject", "observe", "correlate", "claim", "plan", "approve", "execute"} =>
           db.execution = "none"
    /\ at \in {"execute", "judge", "trail"} => db.approved = TRUE

\* A link is down because it was disabled; from the stage that saw it down to the executor it
\* stays so.
FaultStands ==
    /\ oper = "down" => admin = "disable"
    /\ at \in {"correlate", "claim", "plan", "approve", "execute"} /\ failed = FALSE => oper = "down"

\* What a pass claims.
Restored ==
    /\ downBefore = TRUE /\ admin = "enable" /\ oper = "up"
    /\ db.approved = TRUE /\ db.job = "completed" /\ db.execution = "succeeded"
    /\ db.audit = {"intent", "apply"}

SuccessIsRestored ==
    /\ at = "judge" /\ failed = FALSE /\ status = "succeeded" => Restored
    /\ at = "trail" /\ failed = FALSE => Restored
    /\ at = "idle" /\ passed = "pass" => Restored

\* In a run in which nothing went wrong no stage fails.
UndisturbedSucceeds ==
    disturbed = FALSE =>
        /\ at # "idle" => failed = FALSE
        /\ at = "observe" => oper = "down"
        /\ at = "judge" => status = "succeeded"
        /\ at = "idle" /\ slices > 0 => passed = "pass"

SliceIInv == SliceTypesFit /\ RowsAreFresh /\ FaultStands /\ SuccessIsRestored /\ UndisturbedSucceeds

USE DEF SliceIInv, SliceTypesFit, RowsAreFresh, FaultStands, SuccessIsRestored, UndisturbedSucceeds, Restored,
        Stages, Outcomes, Rows

LEMMA NoRowsFit == /\ NoRows \in Rows
                   /\ NoRows.plan = FALSE /\ NoRows.execution = "none"
BY DEF NoRows

LEMMA SliceInitHolds == SliceInit => SliceIInv
<1> SUFFICES ASSUME SliceInit PROVE SliceIInv
    OBVIOUS
<1>1. db \in Rows
    BY NoRowsFit DEF SliceInit
<1>2. SliceTypesFit
    <2>1. /\ admin = "enable" /\ oper = "up" /\ at = "idle"
          /\ failed = FALSE /\ disturbed = FALSE /\ downBefore = FALSE
        BY DEF SliceInit
    <2>2. slices \in Int
        BY DEF SliceInit
    <2>3. QED
        BY <1>1, <2>1, <2>2, Zenon
<1>3. RowsAreFresh /\ FaultStands /\ SuccessIsRestored
    BY DEF SliceInit
<1>4. UndisturbedSucceeds
    BY DEF SliceInit
<1>5. QED
    BY <1>2, <1>3, <1>4

LEMMA BeginStep == SliceIInv /\ (StartSlice \/ CleanSlate) => SliceIInv'
<1>1. ASSUME SliceIInv, StartSlice PROVE SliceIInv'
    <2>1. /\ at' = "clean" /\ failed' = FALSE /\ disturbed' = FALSE /\ downBefore' = FALSE
          /\ slices' \in Int
          /\ UNCHANGED <<admin, oper, db>>
        BY <1>1 DEF StartSlice, link
    <2>2. SliceTypesFit' /\ RowsAreFresh'
        BY <1>1, <2>1
    <2>3. FaultStands' /\ SuccessIsRestored' /\ UndisturbedSucceeds'
        BY <1>1, <2>1
    <2>4. QED
        BY <2>2, <2>3
<1>2. ASSUME SliceIInv, CleanSlate PROVE SliceIInv'
    <2>1. /\ at = "clean" /\ at' = "inject" /\ db' \in Rows
          /\ db'.plan = FALSE /\ db'.execution = "none"
          /\ UNCHANGED <<admin, oper, status, failed, passed, disturbed, downBefore, slices>>
        BY <1>2, NoRowsFit DEF CleanSlate, link
    <2>2. SliceTypesFit' /\ RowsAreFresh'
        BY <1>2, <2>1
    <2>3. FaultStands' /\ SuccessIsRestored' /\ UndisturbedSucceeds'
        BY <1>2, <2>1
    <2>4. QED
        BY <2>2, <2>3
<1>3. QED
    BY <1>1, <1>2

LEMMA FaultStep == SliceIInv /\ (InjectShutdown \/ GoesDown \/ ObserveFault) => SliceIInv'
<1>1. SliceIInv /\ InjectShutdown => SliceIInv'
    BY DEF InjectShutdown
<1>2. SliceIInv /\ GoesDown => SliceIInv'
    BY DEF GoesDown
<1>3. ASSUME SliceIInv, ObserveFault PROVE SliceIInv'
    <2>1. PICK r \in {oper, "unknown"} :
            /\ disturbed' = (disturbed \/ r # oper)
            /\ \/ at' = "inject" /\ r # "down" /\ failed' = failed
               \/ at' = "correlate" /\ failed' = (failed \/ ~(r = "down"))
        BY <1>3 DEF ObserveFault, SliceReads, Misread, Emit
    <2>2. /\ at = "observe"
          /\ UNCHANGED <<admin, oper, db, status, passed, downBefore, slices>>
        BY <1>3 DEF ObserveFault, link
    <2>3. SliceTypesFit' /\ RowsAreFresh' /\ SuccessIsRestored'
        BY <1>3, <2>1, <2>2
    <2>4. FaultStands'
        BY <1>3, <2>1, <2>2
    <2>5. UndisturbedSucceeds'
        BY <1>3, <2>1, <2>2
    <2>6. QED
        BY <2>3, <2>4, <2>5
<1>4. QED
    BY <1>1, <1>2, <1>3

LEMMA PlanStep == SliceIInv /\ (CorrelateSlice \/ ClaimDown \/ StorePlan \/ ApproveTwice) => SliceIInv'
<1>1. SliceIInv /\ CorrelateSlice => SliceIInv'
    BY DEF CorrelateSlice, link
<1>2. ASSUME SliceIInv, ClaimDown PROVE SliceIInv'
    <2>1. PICK r \in {oper, "unknown"} :
            disturbed' = (disturbed \/ r # oper) /\ failed' = (failed \/ ~(r = "down")) /\ at' = "plan"
        BY <1>2 DEF ClaimDown, SliceReads, Misread, Emit
    <2>2. /\ at = "claim"
          /\ UNCHANGED <<admin, oper, db, status, passed, downBefore, slices>>
        BY <1>2 DEF ClaimDown, link
    <2>3. QED
        BY <1>2, <2>1, <2>2
<1>3. SliceIInv /\ StorePlan => SliceIInv'
    BY DEF StorePlan, link
<1>4. SliceIInv /\ ApproveTwice => SliceIInv'
    BY DEF ApproveTwice, link
<1>5. QED
    BY <1>1, <1>2, <1>3, <1>4

\* The executor comes to a job that has no Execution.
LEMMA ExecuteStep == SliceIInv /\ ExecuteSlice => SliceIInv'
<1> SUFFICES ASSUME SliceIInv, ExecuteSlice PROVE SliceIInv'
    OBVIOUS
<1>1. /\ at = "execute" /\ at' = "judge" /\ db.execution = "none"
      /\ UNCHANGED <<failed, passed, slices>>
    BY DEF ExecuteSlice
<1>2. /\ Enable
      /\ downBefore' = (admin = "disable" /\ oper = "down")
    BY <1>1 DEF ExecuteSlice
<1>3. PICK r \in {oper', "unknown"} :
        /\ disturbed' = (disturbed \/ oper' # "up" \/ r # oper')
        /\ status' = Outcome(r)
        /\ db' = [db EXCEPT !.execution = Outcome(r),
                            !.job = IF r = "up" THEN "completed" ELSE "reconciling",
                            !.audit = @ \cup {"intent", "apply"}]
    BY <1>1 DEF ExecuteSlice
<1>4. /\ admin' \in {"enable", "disable"} /\ oper' \in {"up", "down"}
      /\ oper' = "down" => admin' = "disable"
      /\ oper = "down" /\ oper' = "up" => admin' = "enable"
    BY <1>2 DEF Enable, link
<1>5. /\ Outcome(r) \in {"succeeded", "outcome_unknown", "failed"}
      /\ Outcome(r) = "succeeded" <=> r = "up"
    BY <1>3, <1>4 DEF Outcome
<1>6. db' \in Rows /\ db'.approved = TRUE
    BY <1>1, <1>3, <1>5
<1>7. status' = "succeeded" =>
        /\ oper' = "up" /\ db'.job = "completed" /\ db'.execution = "succeeded"
        /\ db'.audit = {"intent", "apply"}
    BY <1>3, <1>5
<1>8. SuccessIsRestored'
    BY <1>1, <1>2, <1>4, <1>6, <1>7
<1>9. UndisturbedSucceeds'
    BY <1>1, <1>3, <1>5
<1>10. QED
    BY <1>1, <1>2, <1>3, <1>4, <1>6, <1>8, <1>9

LEMMA JudgeStep == SliceIInv /\ (JudgeRecovery \/ JudgeTrail) => SliceIInv'
<1>1. ASSUME SliceIInv, JudgeRecovery PROVE SliceIInv'
    <2>1. PICK r \in {oper, "unknown"} :
            /\ disturbed' = (disturbed \/ r # oper)
            /\ failed' = (failed \/ ~(status = "succeeded" /\ r = "up")) /\ at' = "trail"
        BY <1>1 DEF JudgeRecovery, SliceReads, Misread, Emit
    <2>2. /\ at = "judge"
          /\ UNCHANGED <<admin, oper, db, status, passed, downBefore, slices>>
        BY <1>1 DEF JudgeRecovery, link
    <2>3. QED
        BY <1>1, <2>1, <2>2
<1>2. ASSUME SliceIInv, JudgeTrail PROVE SliceIInv'
    <2>1. /\ at = "trail" /\ at' = "idle"
          /\ failed' = (failed \/ ~(db.execution = "succeeded" /\ "apply" \in db.audit))
          /\ passed' = IF failed' THEN "fail" ELSE "pass"
          /\ UNCHANGED <<admin, oper, db, status, disturbed, downBefore, slices>>
        BY <1>2 DEF JudgeTrail, Emit, link
    <2>2. failed = FALSE => failed' = FALSE
        BY <1>2, <2>1
    <2>3. QED
        BY <1>2, <2>1, <2>2
<1>3. QED
    BY <1>1, <1>2

LEMMA DeathStep == SliceIInv /\ SliceDies => SliceIInv'
<1> SUFFICES ASSUME SliceIInv, SliceDies PROVE SliceIInv'
    OBVIOUS
<1>1. /\ at' = "idle" /\ passed' = "fail" /\ disturbed' = TRUE
      /\ UNCHANGED <<db, failed, downBefore, slices>>
    BY DEF SliceDies
<1>2. Enable \/ UNCHANGED link
    BY DEF SliceDies
<1>3. /\ admin' \in {"enable", "disable"} /\ oper' \in {"up", "down"}
      /\ oper' = "down" => admin' = "disable"
    BY <1>2 DEF Enable, link
<1>4. SuccessIsRestored' /\ UndisturbedSucceeds'
    BY <1>1
<1>5. SliceTypesFit' /\ RowsAreFresh' /\ FaultStands'
    BY <1>1, <1>3
<1>6. QED
    BY <1>4, <1>5

LEMMA SliceStepHolds == SliceIInv /\ [SliceNext]_sliceVars => SliceIInv'
<1>1. ASSUME SliceIInv, UNCHANGED sliceVars PROVE SliceIInv'
    <2>1. /\ UNCHANGED <<admin, oper, db, at, status, failed, passed, disturbed, downBefore, slices>>
        BY <1>1 DEF sliceVars
    <2>2. QED
        BY <1>1, <2>1
<1>2. QED
    BY <1>1, BeginStep, FaultStep, PlanStep, ExecuteStep, JudgeStep, DeathStep DEF SliceNext

HIDE DEF SliceIInv, SliceTypesFit, RowsAreFresh, FaultStands, SuccessIsRestored, UndisturbedSucceeds, Restored,
         Stages, Outcomes, Rows

\* The inductive invariant of the slice.
THEOREM SliceInvariance == SliceSpec => []SliceIInv
BY SliceInitHolds, SliceStepHolds, PTL DEF SliceSpec

\* However many runs were killed before it, a run that passes found the link down and restored it
\* with one complete trail, and a run in which nothing went wrong passes
\* (vertical_slice.py:8-10, 117-131, 239-250).
THEOREM RightVerdict == SliceSpec => []SliceVerdictIsRight
<1>1. SliceIInv => SliceVerdictIsRight
    BY DEF SliceIInv, SliceTypesFit, SuccessIsRestored, UndisturbedSucceeds, Restored, SliceVerdictIsRight
<1>2. QED
    BY SliceInvariance, <1>1, PTL

\* Type correctness of the slice, whose runs and injections stay within their bounds.
THEOREM SliceTypeCorrect == SliceSpec => []SliceTypeOK
<1> DEFINE Bounded == /\ passed \in {"none", "pass", "fail"}
                      /\ injected \in 0 .. MaxInject /\ slices \in 0 .. MaxSlices
<1>1. SliceInit => Bounded
    BY VerticalSliceAssumption DEF SliceInit
<1>2. ASSUME Bounded, [SliceNext]_sliceVars PROVE Bounded'
    <2> USE <1>2, VerticalSliceAssumption
    <2>1. CASE StartSlice \/ InjectShutdown
        BY <2>1 DEF StartSlice, InjectShutdown
    <2>2. CASE StorePlan \/ JudgeTrail \/ SliceDies
        BY <2>2 DEF StorePlan, JudgeTrail, SliceDies
    <2>3. CASE CleanSlate \/ GoesDown \/ ObserveFault \/ CorrelateSlice \/ ClaimDown \/ ApproveTwice
        BY <2>3 DEF CleanSlate, GoesDown, ObserveFault, CorrelateSlice, ClaimDown, ApproveTwice
    <2>4. CASE ExecuteSlice \/ JudgeRecovery \/ UNCHANGED sliceVars
        BY <2>4 DEF ExecuteSlice, JudgeRecovery, sliceVars
    <2> QED
        BY <2>1, <2>2, <2>3, <2>4 DEF SliceNext
<1> HIDE DEF Bounded
<1>3. SliceIInv /\ Bounded => SliceTypeOK
    BY DEF SliceIInv, SliceTypesFit, SliceTypeOK, Bounded
<1> QED
    BY <1>1, <1>2, <1>3, SliceInvariance, PTL DEF SliceSpec
=============================================================================
