------------------------------ MODULE Sessions ------------------------------
(***************************************************************************)
(* The sessions of the operator console: api/auth.py, api/app.py and the   *)
(* routes of api/ui.py, used from the tabs of one browser, which share its *)
(* cookies.                                                                *)
(*                                                                         *)
(* Passwords, signatures and the repositories behind the routes are        *)
(* external; what approve, reject and edit then do is Remediation.  Roles  *)
(* are changed in the user table by hand.  A token that verifies is the    *)
(* one that was minted.                                                    *)
(***************************************************************************)
EXTENDS Integers, FiniteSets

CONSTANTS Users, Tabs,
          Ttl,          \* DEFAULT_TTL_S, in ticks of the clock
          MaxClock, MaxLogins

ASSUME SessionsAssumption == Ttl \in Nat /\ MaxClock \in Nat /\ MaxLogins \in Nat

Roles == {"viewer", "operator", "approver"}

\* The kinds of route: "decide" is approve, reject or edit.
Routes == {"read", "ack", "decide"}

\* require(...) of a route
Allowed(route) ==
    CASE route = "read" -> Roles
      [] route = "ack" -> {"operator"}
      [] OTHER -> {"approver"}

ChangesState(route) == route # "read"

VARIABLES
    clock,
    roleOf,    \* the users table
    lastHeld,  \* when a user last held a role; 0 - Ttl - 1 if never
    session,   \* the session cookie, or {}
    csrf,      \* the CSRF cookie, or 0
    form,      \* in every tab, the CSRF token that its next request will carry, or 0
    acting,    \* in every tab, the principal and the route of the request under way
    logins

svars == <<clock, roleOf, lastHeld, session, csrf, form, acting, logins>>

Never == 0 - Ttl - 1

SessionsInit ==
    /\ clock = 0
    /\ roleOf \in [Users -> Roles]
    /\ lastHeld = [u \in Users |-> [r \in Roles |-> IF r = roleOf[u] THEN 0 ELSE Never]]
    /\ session = {} /\ csrf = 0
    /\ form = [t \in Tabs |-> 0] /\ acting = [t \in Tabs |-> {}]
    /\ logins = 0

Tick ==
    /\ clock < MaxClock
    /\ clock' = clock + 1
    /\ lastHeld' = [u \in Users |-> [lastHeld[u] EXCEPT ![roleOf[u]] = clock + 1]]
    /\ UNCHANGED <<roleOf, session, csrf, form, acting, logins>>

ChangeRole(u) ==
    /\ \E r \in Roles \ {roleOf[u]} :
          /\ roleOf' = [roleOf EXCEPT ![u] = r]
          /\ lastHeld' = [lastHeld EXCEPT ![u][r] = clock]
    /\ UNCHANGED <<clock, session, csrf, form, acting, logins>>

\* The number of the login, which is also its CSRF token, is not in the payload: it tells whose
\* token it is.
MintToken(u) == [user |-> u, role |-> roleOf[u], exp |-> clock + Ttl, login |-> logins + 1]

\* Mutant of VerifyToken: the expiry is not looked at.
VerifyTokenUnexpiring == session

\* The principal of the cookie, if it is not expired; the last second counts.
VerifyToken == {p \in session : ~(p.exp < clock)}

Login(u, t) ==
    /\ logins < MaxLogins
    /\ logins' = logins + 1
    /\ session' = {MintToken(u)}
    /\ csrf' = logins + 1
    /\ UNCHANGED <<clock, roleOf, lastHeld, form, acting>>

Logout(t) ==
    /\ VerifyToken # {}
    /\ session' = {} /\ csrf' = 0
    /\ UNCHANGED <<clock, roleOf, lastHeld, form, acting, logins>>

\* csrf.js: the header is filled from the cookie when the request is made, which may be a moment
\* before it is answered.
Prepare(t) ==
    /\ acting[t] = {}
    /\ form' = [form EXCEPT ![t] = csrf]
    /\ UNCHANGED <<clock, roleOf, lastHeld, session, csrf, acting, logins>>

\* Mutant of CsrfMatches: any token will do.
CsrfPresent(t) == csrf # 0 /\ form[t] # 0

CsrfMatches(t) == csrf # 0 /\ form[t] = csrf

\* The dependencies of a route, in one event of the server: principal, role, CSRF.  A request that
\* one of them refuses leaves no trace.
Admit(t, route) ==
    /\ acting[t] = {}
    /\ \E p \in VerifyToken :
          /\ p.role \in Allowed(route)
          /\ ChangesState(route) => CsrfMatches(t)
          /\ acting' = [acting EXCEPT ![t] = {[user |-> p.user, role |-> p.role, route |-> route,
                                              login |-> p.login, at |-> clock]}]
    /\ UNCHANGED <<clock, roleOf, lastHeld, session, csrf, form, logins>>

\* The handler awaits the database; meanwhile the browser and the clock go on.
Respond(t) ==
    /\ acting[t] # {}
    /\ acting' = [acting EXCEPT ![t] = {}]
    /\ form' = [form EXCEPT ![t] = 0]
    /\ UNCHANGED <<clock, roleOf, lastHeld, session, csrf, logins>>

SessionsNext ==
    \/ Tick
    \/ \E u \in Users : ChangeRole(u)
    \/ \E t \in Tabs : \/ \E u \in Users : Login(u, t)
                       \/ Logout(t) \/ Prepare(t) \/ Respond(t)
                       \/ \E route \in Routes : Admit(t, route)

SessionsSpec == SessionsInit /\ [][SessionsNext]_svars

-----------------------------------------------------------------------------
(* Properties. *)

\* A role that was taken from a user acts at most one token's life longer: whoever is admitted held,
\* no longer than Ttl ago, a role that the route allows (auth.py:42-66, app.py:65-78).
AuthorityIsBounded ==
    \A t \in Tabs : \A a \in acting[t] :
        a.role \in Allowed(a.route) /\ a.at - lastHeld[a.user][a.role] <= Ttl

\* A request that changes something acts for the login whose CSRF token it was prepared with, though
\* another tab logs in or out between its preparation and its admission (app.py:83-86, 94-111).
ActsForItsLogin ==
    \A t \in Tabs : \A a \in acting[t] : ChangesState(a.route) => form[t] = a.login
=============================================================================
