----------------------------- MODULE MCTraffic ------------------------------
(* The fabric of lab/fabric.yaml with two or three leaves, fabrics with one spine or without a    *)
(* host, and malformed ones.                                                                       *)
EXTENDS Traffic

MCNames == {"spine1", "spine2", "spine3", "leaf1", "leaf2", "leaf3", "host1", "host2", "host3"}
MCPorts == {<<"ethernet-1/", n>> : n \in 1 .. 3} \cup {<<"eth", 1>>, <<"", 0>>}

Spines == <<[name |-> "spine1", asn |-> 65101], [name |-> "spine2", asn |-> 65102],
            [name |-> "spine3", asn |-> 65103]>>
AllLeaves == <<[name |-> "leaf1", asn |-> 65001], [name |-> "leaf2", asn |-> 65002],
               [name |-> "leaf3", asn |-> 65003]>>
AllHosts == <<[name |-> "host1", leaf |-> "leaf1"], [name |-> "host2", leaf |-> "leaf2"],
              [name |-> "host3", leaf |-> "leaf3"]>>

Clos(spines, leaves, hosts) ==
    [spines |-> SubSeq(Spines, 1, spines), leaves |-> SubSeq(AllLeaves, 1, leaves),
     hosts |-> SubSeq(AllHosts, 1, hosts),
     uplinks |-> <<<<"ethernet-1/", 1>>, <<"ethernet-1/", 2>>>>, downlink |-> <<"ethernet-1/", 3>>,
     spinePort |-> "ethernet-1/", hostPort |-> <<"eth", 1>>,
     p2p |-> 16, loopback |-> 16, management |-> 16, templated |-> TRUE, mtu |-> 1500, capacity |-> 10]

Malformed ==
    {[Clos(2, 2, 2) EXCEPT !.leaves[2].asn = 65101], [Clos(2, 2, 2) EXCEPT !.spines[1].asn = 65535],
     [Clos(2, 2, 2) EXCEPT !.hosts[2].leaf = "leaf3"], [Clos(2, 2, 2) EXCEPT !.hosts[2].name = "leaf1"],
     [Clos(2, 2, 2) EXCEPT !.downlink = <<"", 0>>], [Clos(2, 2, 2) EXCEPT !.p2p = 0],
     [Clos(2, 2, 2) EXCEPT !.mtu = 0], [Clos(2, 3, 2) EXCEPT !.p2p = 8],
     [Clos(2, 2, 2) EXCEPT !.templated = FALSE]}

MCSpecs == {Clos(2, 3, 3), Clos(2, 2, 1), Clos(1, 2, 2), Clos(3, 2, 2),
            [Clos(2, 2, 2) EXCEPT !.hosts[2].leaf = "leaf1"]} \cup Malformed

MCProfiles == {[pattern |-> "incast", target |-> 1, seed |-> 1337],
               [pattern |-> "all_to_all", target |-> 1, seed |-> 1337]}
=============================================================================
