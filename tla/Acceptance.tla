----------------------------- MODULE Acceptance -----------------------------
(***************************************************************************)
(* A fabric that was just deployed is put to the test: the network         *)
(* acceptance checks (scripts/lab_check.py, B03 to B07), one after another *)
(* while the routes still converge, and then the failure measurements      *)
(* (scripts/b10_b11_convergence.py): of a link, and of a spine.            *)
(*                                                                         *)
(* The checks are taken of the prefix that is followed, and each reads all *)
(* its switches at once.  Nobody else touches a link meanwhile.  The pause *)
(* between the two measurements is taken to be long enough.  Not modelled: *)
(* B08 (the MTU), martians, and how many packets are lost.                 *)
(***************************************************************************)
EXTENDS Underlay

VARIABLES
    check,    \* the check that is next, "off" or "over"
    verdict,  \* "none", "fail" once a check has failed, or "pass"
    event     \* of the measurements: "none", "B10", "pause", "B11" or "over"

avars == <<check, verdict, event>>
labVars == <<uvars, avars>>

AcceptanceInit == UnderlayInit /\ check = "off" /\ verdict = "none" /\ event = "none"

Leaves == {x \in SwitchNames : IsLeaf(fabric, x)}
HostSubnets == {hn[2] : hn \in HostNetworks(fabric)}
FirstLeaf == fabric.leaves[1].name

\* The switches whose configuration names the prefix as their own.
Owners == {x \in SwitchNames : dest \in config[x].originates}

\* A route of the table that BGP put there.
Learned(x) == x \notin Owners /\ Best(x) # {}

-----------------------------------------------------------------------------
(* The checks. *)

\* B03: the sessions that are established and those that are configured.
SessionsAsExpected ==
    \A x \in SwitchNames :
        LET expected == IF x \in Leaves THEN 2 ELSE Cardinality(Leaves)
        IN /\ Cardinality(config[x].neighbors) = expected
           /\ Cardinality({y \in SwitchNames : Session(x, y)}) = expected

\* What a leaf should have learned: loopbacks and host subnets that are not its own.
NothingMissing == dest \in FabricPrefixes(fabric) => \A x \in Leaves \ Owners : Learned(x)

\* B04
RibMatches == NothingMissing /\ (dest \notin FabricPrefixes(fabric) => \A x \in Leaves : ~Learned(x))

\* B05: no spine has taken a foreign prefix.
ForeignRejected == dest = Foreign => \A x \in SwitchNames \ Leaves : ~Learned(x)

\* Mutant of TwoNextHops: one is enough.
ANextHop == dest \in HostSubnets => \A x \in Leaves \ Owners : NextHops(x) # {}

\* B06
TwoNextHops == dest \in HostSubnets => \A x \in Leaves \ Owners : Cardinality(NextHops(x)) = 2

\* B07: a ping arrives, whichever of the paths it takes.
HostsReachable ==
    dest \in HostSubnets => \A x \in Leaves \ Owners :
        /\ NextHops(x) # {}
        /\ \A y \in NextHops(x) : y \notin Owners => NextHops(y) # {} /\ NextHops(y) \subseteq Owners

-----------------------------------------------------------------------------
(* lab_check *)

Passes(ok, following) ==
    /\ verdict' = IF ok THEN verdict ELSE "fail"
    /\ check' = following
    /\ UNCHANGED event

StartCheck ==
    /\ stage = "rendered" /\ check = "off" /\ flaps = 0
    /\ check' = "wait"
    /\ UNCHANGED <<uvars, verdict, event>>

\* wait_converged goes on when it times out; a leaf without a host network raises.
WaitConverged ==
    /\ check = "wait"
    /\ check' = IF \A n \in DOMAIN fabric.leaves : HostOf(fabric, n) # {} THEN "B03" ELSE "over"
    /\ UNCHANGED <<uvars, verdict, event>>

CheckB03 == check = "B03" /\ Passes(SessionsAsExpected, "B04") /\ UNCHANGED uvars

CheckB04 == check = "B04" /\ Passes(RibMatches, "B05") /\ UNCHANGED uvars

\* The first leaf is made to advertise foreign prefixes, unless the commit is refused, which fails the
\* check.
InjectForeign ==
    /\ check = "B05"
    /\ \/ /\ check' = "B05 read"
          /\ config' = [config EXCEPT ![FirstLeaf].originates = @ \cup {Foreign},
                                      ![FirstLeaf].exports = @ \cup {Foreign}]
          /\ UNCHANGED <<verdict, event>>
       \/ Passes(FALSE, "B06") /\ UNCHANGED config
    /\ UNCHANGED <<fabric, stage, dest, up, heard, flaps>>

\* The prefixes may not have been advertised in time, which fails the check; the answer of the cleanup
\* is not read, and it may leave the prefixes where they are.
CheckB05 ==
    /\ check = "B05 read"
    /\ \E advertised \in BOOLEAN : Passes(advertised /\ ForeignRejected, "B06")
    /\ config' \in {config, [config EXCEPT ![FirstLeaf] = Config(fabric, FirstLeaf)]}
    /\ UNCHANGED <<fabric, stage, dest, up, heard, flaps>>

CheckB06 == check = "B06" /\ Passes(TwoNextHops, "B07") /\ UNCHANGED uvars

CheckB07 ==
    /\ check = "B07" /\ check' = "over"
    /\ verdict' = IF HostsReachable /\ verdict = "none" THEN "pass" ELSE "fail"
    /\ UNCHANGED <<uvars, event>>

\* Killed in the middle of B05, it leaves the foreign prefixes behind.
CheckDies ==
    /\ check \notin {"off", "over"}
    /\ check' = "over"
    /\ UNCHANGED <<uvars, verdict, event>>

-----------------------------------------------------------------------------
(* b10_b11_convergence *)

\* Nothing is left to be said.
Converged ==
    \A x, y \in SwitchNames : Session(x, y) =>
        heard[<<x, y>>] \in {Accepted(x, y, path) : path \in Best(y)}
                            \cup (IF Best(y) = {} THEN {{}} ELSE {})

Fail(links) ==
    /\ up' = up \ links
    /\ heard' = Cut(links)
    /\ UNCHANGED <<fabric, stage, dest, config, flaps, check, verdict>>

\* B10: a link is shut down on one end of it; B11: a spine is stopped, and with it all its links.
LinkDown ==
    /\ verdict = "pass" /\ event = "none" /\ stage = "rendered"
    /\ event' = "B10"
    /\ \E l \in FabricLinks(fabric) : Fail({l})

SpineDown ==
    /\ event = "pause" /\ stage = "rendered" /\ Converged
    /\ event' = "B11"
    /\ \E s \in SwitchNames \ Leaves : Fail({l \in FabricLinks(fabric) : l.b.node = s})

Restore ==
    /\ event \in {"B10", "B11"} /\ stage = "rendered"
    /\ event' = IF event = "B10" THEN "pause" ELSE "over"
    /\ up' = FabricLinks(fabric)
    /\ UNCHANGED <<fabric, stage, dest, config, heard, flaps, check, verdict>>

Checking ==
    /\ stage = "rendered"
    /\ \/ StartCheck \/ WaitConverged \/ CheckB03 \/ CheckB04 \/ InjectForeign \/ CheckB05
       \/ CheckB06 \/ CheckB07 \/ CheckDies \/ LinkDown \/ SpineDown \/ Restore

\* A link is touched by hand only while no check has begun.
AcceptanceNext == Checking \/ (UnderlayNext /\ (flaps' = flaps \/ check = "off") /\ UNCHANGED avars)

-----------------------------------------------------------------------------
(* Properties. *)

\* What the acceptance is for: a fabric that passed it loses packets when a link or a spine fails,
\* and never all of them: at each moment of the reconvergence some path from each leaf still
\* arrives, although the checks were made one after another of routes that were still moving
\* (lab_check.py:238-289, b10_b11_convergence.py:124-142).
OneFailureKeepsAPath ==
    stage = "rendered" /\ verdict = "pass" /\ dest \in HostSubnets =>
        \A x \in Leaves \ Owners : \E y \in NextHops(x) : NextHops(y) \cap Owners # {}
=============================================================================
