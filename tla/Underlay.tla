------------------------------ MODULE Underlay ------------------------------
(***************************************************************************)
(* A fabric from its specification to a running underlay: the validator    *)
(* answers, the renderer writes the configuration of every switch, and the *)
(* switches speak BGP over the links that are up.                          *)
(*                                                                         *)
(* The routers are external: eBGP with the rendered neighbors, import and  *)
(* export policies, shortest AS path, multipath, and no path with one's    *)
(* own AS.  Routes for one prefix do not depend on those for another, so   *)
(* one prefix, dest, is followed; every prefix of the fabric is tried, and *)
(* a foreign one.                                                          *)
(***************************************************************************)
EXTENDS Fabric

CONSTANTS Specs,    \* the fabrics that are tried
          MaxFlaps  \* bound on the changes of a link

ASSUME UnderlayAssumption == Specs \subseteq FabricSpec /\ MaxFlaps \in Nat

VARIABLES
    fabric,   \* the fabric specification
    stage,    \* "authored", "rejected", "valid", "rendered", "raised" or, under traffic, "loaded"
    dest,     \* the prefix that is followed
    up,       \* the fabric links that are up
    config,   \* the rendered configuration of every switch
    heard,    \* from each neighbor, the AS path last accepted from it, if any
    flaps     \* the changes of links so far

uvars == <<fabric, stage, dest, up, config, heard, flaps>>

\* A prefix that is not of the fabric.
Foreign == <<"foreign", 0>>

SwitchNames == {Switches(fabric)[i].name : i \in DOMAIN Switches(fabric)}

\* A session needs the link, its addresses, and each end among the neighbors of the other.
Session(x, y) ==
    \E l \in up : \E near, far \in Ends(l) :
        /\ near.node = x /\ far.node = y /\ near # far
        /\ <<near.port, near.address>> \in config[x].addresses
        /\ <<far.port, far.address>> \in config[y].addresses
        /\ <<far.address, config[y].as>> \in config[x].neighbors
        /\ <<near.address, config[x].as>> \in config[y].neighbors

UnderlayInit ==
    /\ fabric \in Specs
    /\ stage = "authored"
    /\ dest = <<>> /\ up = {} /\ config = <<>> /\ heard = <<>> /\ flaps = 0

Validate ==
    /\ stage = "authored"
    /\ stage' = CASE Validation(fabric) = {} -> "valid"
                  [] Validation(fabric) = {"raised"} -> "raised"
                  [] OTHER -> "rejected"
    /\ UNCHANGED <<fabric, dest, up, config, heard, flaps>>

\* render_all, and the lab started from what it wrote.
Render ==
    /\ stage = "valid"
    /\ stage' = IF RenderRaises(fabric) THEN "raised" ELSE "rendered"
    /\ \E p \in FabricPrefixes(fabric) \cup {Foreign} : dest' = p
    /\ up' = FabricLinks(fabric)
    /\ config' = [x \in SwitchNames |-> Config(fabric, x)]
    /\ heard' = [p \in SwitchNames \X SwitchNames |-> {}]
    /\ UNCHANGED <<fabric, flaps>>

Best(x) ==
    LET paths == UNION {heard[<<x, y>>] : y \in SwitchNames}
    IN IF dest \in config[x].originates THEN {<<>>}
       ELSE {p \in paths : \A q \in paths : Len(p) <= Len(q)}

NextHops(x) == {y \in SwitchNames : heard[<<x, y>>] \cap Best(x) # {}}

\* What x accepts from y of the path that y has chosen to advertise.
Accepted(x, y, path) ==
    IF dest \in config[y].exports /\ dest \in config[x].imports /\ config[x].as \notin Range(path)
    THEN {<<config[y].as>> \o path} ELSE {}

Advertise(x, y) ==
    /\ stage = "rendered"
    /\ Session(x, y)
    /\ \/ \E path \in Best(y) : heard' = [heard EXCEPT ![<<x, y>>] = Accepted(x, y, path)]
       \/ Best(y) = {} /\ heard' = [heard EXCEPT ![<<x, y>>] = {}]
    /\ UNCHANGED <<fabric, stage, dest, up, config, flaps>>

\* Both ends of a link drop what they heard over it.
Cut(links) ==
    [p \in DOMAIN heard |-> IF \E l \in links : {p[1], p[2]} = {e.node : e \in Ends(l)} THEN {} ELSE heard[p]]

\* A link is shut down or restored by hand.
Flap(l) ==
    /\ stage = "rendered"
    /\ flaps < MaxFlaps
    /\ flaps' = flaps + 1
    /\ up' = IF l \in up THEN up \ {l} ELSE up \cup {l}
    /\ heard' = Cut({l})
    /\ UNCHANGED <<fabric, stage, dest, config>>

Routers == Names

UnderlayNext ==
    \/ Validate \/ Render
    \/ \E x, y \in SwitchNames : Advertise(x, y)
    \/ stage = "rendered" /\ \E l \in FabricLinks(fabric) : Flap(l)

\* Keepalives and updates keep flowing on a session; nobody has to touch a link.
UnderlayFairness ==
    /\ WF_uvars(Validate) /\ WF_uvars(Render)
    /\ \A x, y \in Routers : WF_uvars(x \in SwitchNames /\ y \in SwitchNames /\ Advertise(x, y))

UnderlaySpec == UnderlayInit /\ [][UnderlayNext]_uvars /\ UnderlayFairness

-----------------------------------------------------------------------------
(* Properties. *)

UnderlayTypeOK ==
    /\ fabric \in Specs
    /\ stage \in {"authored", "rejected", "valid", "rendered", "raised", "loaded"}
    /\ flaps \in 0 .. MaxFlaps
    /\ stage = "rendered" =>
       /\ up \subseteq FabricLinks(fabric)
       /\ heard \in [SwitchNames \X SwitchNames ->
                        {{}} \cup {{p} : p \in BoundedSeq({Asn(fabric, x) : x \in SwitchNames}, 2)}]

\* The fabric is valley free at every moment of a convergence: the next hops of two switches are
\* never each other, so a failure may blackhole a prefix and never loops it (render.py:103-112).
NoForwardingLoop ==
    stage = "rendered" => \A x \in SwitchNames : \A y \in NextHops(x) : x \notin NextHops(y)

\* The graph has two directed edges for a link, and an interface that belongs to one link, whatever
\* the state of the link, when the ports of a leaf are distinct (graph.py:119-147).
GraphMatchesFabric ==
    stage = "rendered" /\ Cardinality({fabric.uplinks[1], fabric.uplinks[2], fabric.downlink}) = 3 =>
        /\ \A c \in CandidateLinks(fabric) : \A i, j \in c.ends :
              i # j => <<"link", i, j>> \in Edges(fabric) /\ <<"link", j, i>> \in Edges(fabric)
        /\ \A i \in InterfaceNodes(fabric) :
              Cardinality({c \in CandidateLinks(fabric) : i.id \in c.ends}) = 1

\* A switch can reach the prefix along links that are up, at most through one spine; a foreign
\* prefix gets no further than the switch that has it.
Connected(x, y) == \E l \in up : {x, y} = {e.node : e \in Ends(l)}
Reachable(x) ==
    \E o \in SwitchNames :
        /\ dest \in config[o].originates
        /\ \/ x = o
           \/ dest # Foreign /\ Connected(x, o)
           \/ /\ dest # Foreign /\ IsLeaf(fabric, x)
              /\ \E s \in SwitchNames : ~IsLeaf(fabric, s) /\ Connected(x, s) /\ Connected(s, o)

\* Once links are left alone, every switch has a route to the prefix exactly when one exists that
\* does not cross a leaf (render.py:97-112, fabric.py:192-212).
ConvergesToReachable ==
    <>[](stage = "rendered" => \A x \in SwitchNames : (Best(x) # {}) <=> Reachable(x))
=============================================================================
