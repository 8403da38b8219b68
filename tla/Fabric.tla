------------------------------- MODULE Fabric -------------------------------
(***************************************************************************)
(* The source of truth of the lab, as pure functions of a fabric: its      *)
(* validation (domain/validate.py), the allocation of ports and addresses  *)
(* (domain/fabric.py), the configuration of a switch and the containerlab  *)
(* file (domain/render.py), and the typed graph (datasets/graph.py).       *)
(*                                                                         *)
(* An address is a pair of a pool and an offset in it, a port a pair of a  *)
(* prefix and a number; a pool that does not parse has no addresses.       *)
(***************************************************************************)
EXTENDS Integers, FiniteSets, Sequences, SequencesExt, Functions

CONSTANTS Names, Ports

Switch == [name : Names, asn : Nat]
FabricSpec == [spines : Seq(Switch), leaves : Seq(Switch), hosts : Seq([name : Names, leaf : Names]),
               uplinks : Ports \X Ports, downlink : Ports, spinePort : STRING, hostPort : Ports,
               p2p : Nat, loopback : Nat, management : Nat, templated : BOOLEAN,
               mtu : Int, capacity : Int]

Switches(f) == f.spines \o f.leaves
NodeNames(f) == [i \in DOMAIN Switches(f) |-> Switches(f)[i].name]
                \o [i \in DOMAIN f.hosts |-> f.hosts[i].name]
LeafNames(f) == {f.leaves[n].name : n \in DOMAIN f.leaves}

-----------------------------------------------------------------------------
(* allocate *)

\* Loopbacks are numbered by one ordinal over all nodes, as management addresses are.
Loopback(i) == <<"loopback", i>>

P2pIndex(n, s) == 2 * (n - 1) + (s - 1)

FabricLink(f, n, s) ==
    [key |-> <<f.leaves[n].name, f.spines[s].name>>, kind |-> "fabric",
     a |-> [node |-> f.leaves[n].name, port |-> f.uplinks[s], address |-> <<"p2p", 2 * P2pIndex(n, s)>>],
     b |-> [node |-> f.spines[s].name, port |-> <<f.spinePort, n>>,
            address |-> <<"p2p", 2 * P2pIndex(n, s) + 1>>]]

\* host_by_leaf: the last host that names a leaf.
HostOf(f, n) ==
    LET attached == {h \in DOMAIN f.hosts : f.hosts[h].leaf = f.leaves[n].name}
    IN {h \in attached : \A g \in attached : g <= h}

Subnet(f, n) == <<"hosts", IF f.templated THEN n ELSE 0>>

AccessLink(f, n, h) ==
    [key |-> <<f.leaves[n].name, f.hosts[h].name>>, kind |-> "access",
     a |-> [node |-> f.leaves[n].name, port |-> f.downlink, address |-> Subnet(f, n) \o <<1>>],
     b |-> [node |-> f.hosts[h].name, port |-> f.hostPort, address |-> Subnet(f, n) \o <<10>>]]

FabricLinks(f) == {FabricLink(f, n, s) : n \in DOMAIN f.leaves, s \in DOMAIN f.spines}
AccessLinks(f) == UNION {{AccessLink(f, n, h) : h \in HostOf(f, n)} : n \in DOMAIN f.leaves}
Links(f) == FabricLinks(f) \cup AccessLinks(f)
Ends(l) == {l.a, l.b}

\* The dictionary of uplinks has two entries.
AllocationRaises(f) == f.leaves # <<>> /\ Len(f.spines) > 2

-----------------------------------------------------------------------------
(* validate_fabric *)

Repeats(items) == ~IsInjective(items)

SpecErrors(f) ==
    LET asns == [i \in DOMAIN Switches(f) |-> Switches(f)[i].asn]
        ports == {f.uplinks[1], f.uplinks[2], f.downlink, f.hostPort}
    IN {e \in {"names", "asns", "range", "leaf", "port", "pool", "size"} :
            CASE e = "names" -> Repeats(NodeNames(f))
              [] e = "asns" -> Repeats(asns)
              [] e = "range" -> \E i \in DOMAIN asns : asns[i] \notin 64512 .. 65534
              [] e = "leaf" -> \E h \in DOMAIN f.hosts : f.hosts[h].leaf \notin LeafNames(f)
              [] e = "port" -> f.spinePort = "" \/ \E p \in ports : p[1] = ""
              [] e = "pool" -> 0 \in {f.p2p, f.loopback, f.management}
              [] e = "size" -> f.mtu <= 0 \/ f.capacity <= 0}

PoolErrors(f) == IF Len(f.leaves) * Len(f.spines) > f.p2p \div 2 THEN {"p2p"} ELSE {}

\* The subnets of two leaves overlap when the template does not name the leaf; the other
\* comparisons of _address_collision_errors are of addresses that P2pIndex and the ordinal tell apart.
CollisionErrors(f) ==
    LET leaves == {n \in DOMAIN f.leaves : HostOf(f, n) # {}}
        p2p == [l \in FabricLinks(f) |-> l.a.address]
    IN (IF \E m, n \in leaves : m # n /\ Subnet(f, m) = Subnet(f, n) THEN {"subnet"} ELSE {})
       \cup (IF ~IsInjective(p2p) THEN {"address"} ELSE {})

\* The validator raises instead of answering when the allocation does.
Validation(f) ==
    IF SpecErrors(f) # {} THEN SpecErrors(f)
    ELSE IF PoolErrors(f) # {} THEN PoolErrors(f)
    ELSE IF AllocationRaises(f) THEN {"raised"}
    ELSE CollisionErrors(f)

-----------------------------------------------------------------------------
(* render *)

Ordinal(f, x) == CHOOSE i \in DOMAIN NodeNames(f) : NodeNames(f)[i] = x
IsLeaf(f, x) == x \in LeafNames(f)
Asn(f, x) == Switches(f)[Ordinal(f, x)].asn

HostNetworks(f) == {<<l.a.node, <<l.a.address[1], l.a.address[2]>>>> : l \in AccessLinks(f)}

Originates(f, x) == {Loopback(Ordinal(f, x))} \cup {hn[2] : hn \in {h \in HostNetworks(f) : h[1] = x}}

FabricPrefixes(f) == {Loopback(i) : i \in DOMAIN Switches(f)} \cup {hn[2] : hn \in HostNetworks(f)}

Imports(f) == FabricPrefixes(f)

\* Mutant of Exports: a leaf gives transit.
ExportsAnything(f, x) == FabricPrefixes(f)

\* Mutant of Exports: a spine gives no transit.
ExportsLocal(f, x) == Originates(f, x)

\* A leaf advertises what is its own, and a spine every prefix of the fabric.
Exports(f, x) == IF IsLeaf(f, x) THEN Originates(f, x) ELSE FabricPrefixes(f)

\* The neighbors of a switch: the address and the AS of the far end of each of its fabric links.
Neighbors(f, x) ==
    {<<l.b.address, Asn(f, l.b.node)>> : l \in {k \in FabricLinks(f) : k.a.node = x}}
    \cup {<<l.a.address, Asn(f, l.a.node)>> : l \in {k \in FabricLinks(f) : k.b.node = x}}

\* The interfaces of a switch that are enabled, with their addresses.
Addresses(f, x) == {<<e.port, e.address>> : e \in {d \in UNION {Ends(l) : l \in Links(f)} : d.node = x}}

\* render_srl_config
Config(f, x) ==
    [as |-> Asn(f, x), addresses |-> Addresses(f, x), originates |-> Originates(f, x),
     imports |-> Imports(f), exports |-> Exports(f, x), neighbors |-> Neighbors(f, x)]

\* render_clab looks every host up among the access links.
RenderRaises(f) == \E h \in DOMAIN f.hosts : \A l \in AccessLinks(f) : l.b.node # f.hosts[h].name

-----------------------------------------------------------------------------
(* build_topology_graph *)

InterfaceId(e) == <<e.node, e.port>>

InterfaceKind(f, e, l) ==
    CASE l.kind = "fabric" -> IF IsLeaf(f, e.node) THEN "uplink" ELSE "fabric_face"
      [] OTHER -> IF IsLeaf(f, e.node) THEN "downlink" ELSE "access"

\* The first link that ends at an interface decides its kind, and links come fabric first.
InterfaceNodes(f) ==
    LET of(ls) == UNION {{[id |-> InterfaceId(e), device |-> e.node, kind |-> InterfaceKind(f, e, l)] :
                              e \in Ends(l)} : l \in ls}
        fabric == of(FabricLinks(f))
    IN fabric \cup {i \in of(AccessLinks(f)) : \A j \in fabric : j.id # i.id}

CandidateLinks(f) == {[key |-> l.key, kind |-> l.kind, ends |-> {InterfaceId(e) : e \in Ends(l)}] : l \in Links(f)}

\* Mutant of Edges: a link in one direction.
EdgesOneWay(f) ==
    {<<"link", InterfaceId(l.a), InterfaceId(l.b)>> : l \in Links(f)}
    \cup {<<"contains", i.device, i.id>> : i \in InterfaceNodes(f)}

Edges(f) ==
    {<<"link", InterfaceId(l.a), InterfaceId(l.b)>> : l \in Links(f)}
    \cup {<<"link", InterfaceId(l.b), InterfaceId(l.a)>> : l \in Links(f)}
    \cup {<<"contains", i.device, i.id>> : i \in InterfaceNodes(f)}
=============================================================================
