--------------------------- MODULE TrafficProofs ----------------------------
(***************************************************************************)
(* Proofs about the loaded, tested and converging fabric, whatever its     *)
(* size, whichever links fail and whatever the checks do to its            *)
(* configurations: it never loops, it keeps a path after one failure once  *)
(* it passed the acceptance, its graph is one of its links, and a load is  *)
(* left behind or refused only where a stop failed.                        *)
(***************************************************************************)
EXTENDS Traffic, TLAPS, FiniteSetTheorems

\* No leaf has the name of a spine.
SidesApart(f) == \A s \in DOMAIN f.spines : f.spines[s].name \notin LeafNames(f)

\* A configuration to which B05 has added its foreign prefixes.
WithForeign(c) ==
    [as |-> c.as, addresses |-> c.addresses, originates |-> c.originates \cup {Foreign},
     imports |-> c.imports, exports |-> c.exports \cup {Foreign}, neighbors |-> c.neighbors]

ConfigsFit ==
    /\ config \in [SwitchNames -> UNION {{Config(fabric, x), WithForeign(Config(fabric, x))} : x \in SwitchNames}]
    /\ \A x \in SwitchNames : config[x] \in {Config(fabric, x), WithForeign(Config(fabric, x))}

AsNumbers == {Asn(fabric, x) : x \in SwitchNames}
Paths == Seq(AsNumbers)

\* Routes are heard between a leaf and a spine, of a prefix of the fabric, and from a leaf only if it
\* is the leaf's own.
HeardAcross ==
    \A x, y \in SwitchNames : heard[<<x, y>>] # {} =>
        /\ IsLeaf(fabric, x) # IsLeaf(fabric, y)
        /\ IsLeaf(fabric, y) => dest \in Originates(fabric, y)

Rendered ==
    /\ up \subseteq FabricLinks(fabric)
    /\ ConfigsFit
    /\ heard \in [SwitchNames \X SwitchNames -> SUBSET (Paths \ {<<>>})]
    /\ HeardAcross

IInv ==
    /\ fabric \in Specs
    /\ stage \in {"valid", "rendered"} => SidesApart(fabric)
    /\ stage = "rendered" => Rendered

-----------------------------------------------------------------------------
(* The fabric. *)

\* Where the elements of two sequences are in the whole.
LEMMA Concatenated ==
    ASSUME NEW S, NEW a \in Seq(S), NEW b \in Seq(S), NEW i \in DOMAIN a, NEW j \in DOMAIN b
    PROVE  /\ a \o b \in Seq(S) /\ DOMAIN (a \o b) = 1 .. Len(a \o b)
           /\ i \in DOMAIN (a \o b) /\ (a \o b)[i] = a[i]
           /\ Len(a) + j \in DOMAIN (a \o b) /\ (a \o b)[Len(a) + j] = b[j]
           /\ i # Len(a) + j
<1> QED
    OBVIOUS

LEMMA ElementsOf ==
    ASSUME NEW S, NEW a \in Seq(S)
    PROVE  DOMAIN a = 1 .. Len(a) /\ Len(a) \in Nat /\ \A i \in DOMAIN a : a[i] \in S
<1> QED
    OBVIOUS

LEMMA Prefixed ==
    ASSUME NEW S, NEW a \in Seq(S), NEW b \in Seq(S), NEW i \in DOMAIN a
    PROVE  i \in DOMAIN (a \o b) /\ (a \o b)[i] = a[i]
<1> QED
    OBVIOUS

LEMMA Longer ==
    ASSUME NEW S, NEW a \in S, NEW p \in Seq(S)
    PROVE  <<a>> \o p \in Seq(S) \ {<<>>}
<1>1. <<a>> \o p \in Seq(S) /\ Len(<<a>> \o p) = 1 + Len(p) /\ Len(p) \in Nat
    OBVIOUS
<1> QED
    BY <1>1

LEMMA FirstOfPair ==
    ASSUME NEW a, NEW b, NEW c
    PROVE  (<<a, b>> \o <<c>>)[1] = a
<1> DEFINE S == {a, b, c}
<1>1. <<a, b>> \in Seq(S) /\ <<c>> \in Seq(S) /\ 1 \in DOMAIN <<a, b>> /\ <<a, b>>[1] = a
    OBVIOUS
<1> HIDE DEF S
<1> QED
    BY <1>1, Prefixed

\* Names that the validator let pass tell leaves from spines.
LEMMA ValidNamesApart ==
    ASSUME NEW f \in FabricSpec, Validation(f) = {}
    PROVE  SidesApart(f)
<1>1. f.spines \in Seq(Switch) /\ f.leaves \in Seq(Switch) /\ f.hosts \in Seq([name : Names, leaf : Names])
    BY DEF FabricSpec
<1>2. SpecErrors(f) = {}
    BY DEF Validation
<1>3. ~Repeats(NodeNames(f))
    <2>1. "names" \notin SpecErrors(f)
        BY <1>2
    <2> QED
        BY <2>1 DEF SpecErrors
<1>4. SUFFICES ASSUME NEW s \in DOMAIN f.spines, NEW n \in DOMAIN f.leaves,
                      f.spines[s].name = f.leaves[n].name
               PROVE  FALSE
    BY DEF SidesApart, LeafNames
<1> DEFINE m == Len(f.spines) + n
           named == [i \in DOMAIN Switches(f) |-> Switches(f)[i].name]
           hosts == [i \in DOMAIN f.hosts |-> f.hosts[i].name]
<1>5. /\ Switches(f) \in Seq(Switch) /\ DOMAIN Switches(f) = 1 .. Len(Switches(f))
      /\ s \in DOMAIN Switches(f) /\ m \in DOMAIN Switches(f)
      /\ s # m /\ Switches(f)[s] = f.spines[s] /\ Switches(f)[m] = f.leaves[n]
    <2> DEFINE a == f.spines
               b == f.leaves
    <2>1. a \in Seq(Switch) /\ b \in Seq(Switch) /\ s \in DOMAIN a /\ n \in DOMAIN b
        BY <1>1
    <2>2. Switches(f) = a \o b
        BY DEF Switches
    <2> HIDE DEF a, b
    <2>3. /\ a \o b \in Seq(Switch) /\ DOMAIN (a \o b) = 1 .. Len(a \o b)
          /\ s \in DOMAIN (a \o b) /\ (a \o b)[s] = a[s]
          /\ Len(a) + n \in DOMAIN (a \o b) /\ (a \o b)[Len(a) + n] = b[n]
          /\ s # Len(a) + n
        BY <2>1, Concatenated
    <2> QED
        BY <2>2, <2>3 DEF a, b
<1>6. named \in Seq(Names) /\ s \in DOMAIN named /\ m \in DOMAIN named /\ named[s] = named[m]
    <2>1. \A i \in DOMAIN Switches(f) : Switches(f)[i] \in Switch
        BY <1>5, ElementsOf
    <2>2. \A i \in DOMAIN Switches(f) : Switches(f)[i].name \in Names
        BY <2>1 DEF Switch
    <2>3. Len(Switches(f)) \in Nat
        BY <1>5
    <2>4. named = [i \in 1 .. Len(Switches(f)) |-> Switches(f)[i].name]
        BY <1>5
    <2> QED
        BY <2>2, <2>3, <2>4, <1>4, <1>5
<1>7. hosts \in Seq(Names)
    <2>1. DOMAIN f.hosts = 1 .. Len(f.hosts) /\ Len(f.hosts) \in Nat
        BY <1>1, ElementsOf
    <2>2. \A i \in DOMAIN f.hosts : f.hosts[i] \in [name : Names, leaf : Names]
        BY <1>1, ElementsOf
    <2>3. \A i \in DOMAIN f.hosts : f.hosts[i].name \in Names
        BY <2>2
    <2> QED
        BY <2>1, <2>3
<1>8. /\ s \in DOMAIN NodeNames(f) /\ m \in DOMAIN NodeNames(f)
      /\ NodeNames(f)[s] = named[s] /\ NodeNames(f)[m] = named[m]
    <2>1. NodeNames(f) = named \o hosts
        BY DEF NodeNames
    <2> HIDE DEF named, hosts, m
    <2> QED
        BY <2>1, <1>6, <1>7, Prefixed
<1>9. s = m
    BY <1>3, <1>6, <1>8 DEF Repeats, IsInjective
<1> QED
    BY <1>5, <1>9

\* No prefix of the fabric is foreign.
LEMMA ForeignIsForeign ==
    ASSUME NEW f
    PROVE  Foreign \notin FabricPrefixes(f)
<1>1. \A i : Loopback(i) # Foreign
    BY DEF Loopback, Foreign
<1>2. ASSUME NEW hn \in HostNetworks(f) PROVE hn[2] # Foreign
    <2>1. PICK l \in AccessLinks(f) : hn = <<l.a.node, <<l.a.address[1], l.a.address[2]>>>>
        BY <1>2 DEF HostNetworks
    <2>2. PICK n \in DOMAIN f.leaves : \E h \in HostOf(f, n) : l = AccessLink(f, n, h)
        BY <2>1 DEF AccessLinks
    <2>3. l.a.address = Subnet(f, n) \o <<1>>
        BY <2>2 DEF AccessLink
    <2>4. Subnet(f, n) = <<"hosts", IF f.templated THEN n ELSE 0>>
        BY DEF Subnet
    <2>5. l.a.address[1] = "hosts"
        BY <2>3, <2>4, FirstOfPair
    <2> QED
        BY <2>1, <2>5 DEF Foreign
<1> QED
    BY <1>1, <1>2 DEF FabricPrefixes

\* The ends of a fabric link are a leaf and a spine.
LEMMA LinksCross ==
    ASSUME NEW f, SidesApart(f), NEW l \in FabricLinks(f)
    PROVE  IsLeaf(f, l.a.node) /\ ~IsLeaf(f, l.b.node)
<1>1. PICK n \in DOMAIN f.leaves, s \in DOMAIN f.spines : l = FabricLink(f, n, s)
    BY DEF FabricLinks
<1>2. l.a.node = f.leaves[n].name /\ l.b.node = f.spines[s].name
    BY <1>1 DEF FabricLink
<1> QED
    BY <1>2 DEF SidesApart, IsLeaf, LeafNames

-----------------------------------------------------------------------------
(* The routes. *)

\* What a configuration says, whether or not B05 is at it.
LEMMA ConfigFacts ==
    ASSUME ConfigsFit, NEW x \in SwitchNames
    PROVE  /\ config[x].as = Asn(fabric, x)
           /\ config[x].imports = FabricPrefixes(fabric)
           /\ Originates(fabric, x) \subseteq config[x].originates
           /\ IsLeaf(fabric, x) => config[x].exports \subseteq Originates(fabric, x) \cup {Foreign}
<1>1. Config(fabric, x).as = Asn(fabric, x) /\ Config(fabric, x).imports = FabricPrefixes(fabric)
      /\ Config(fabric, x).originates = Originates(fabric, x) /\ Config(fabric, x).exports = Exports(fabric, x)
    BY DEF Config, Imports
<1>2. IsLeaf(fabric, x) => Exports(fabric, x) = Originates(fabric, x)
    BY DEF Exports
<1>3. CASE config[x] = Config(fabric, x)
    BY <1>1, <1>2, <1>3
<1>4. CASE config[x] = WithForeign(Config(fabric, x))
    BY <1>1, <1>2, <1>4 DEF WithForeign
<1> QED
    BY <1>3, <1>4 DEF ConfigsFit

LEMMA BestIsAPath ==
    ASSUME Rendered, NEW x \in SwitchNames
    PROVE  Best(x) \subseteq Paths
<1>1. <<>> \in Paths
    BY DEF Paths
<1>2. \A y \in SwitchNames : heard[<<x, y>>] \subseteq Paths
    BY DEF Rendered
<1> QED
    BY <1>1, <1>2 DEF Best

\* What a router accepts is a path, and its prefix is of the fabric and, if a leaf told it, the leaf's.
LEMMA AcceptedFits ==
    ASSUME Rendered, NEW x \in SwitchNames, NEW y \in SwitchNames, NEW path \in Best(y)
    PROVE  /\ Accepted(x, y, path) \subseteq Paths \ {<<>>}
           /\ Accepted(x, y, path) # {} /\ IsLeaf(fabric, y) => dest \in Originates(fabric, y)
<1>1. path \in Seq(AsNumbers) /\ config[y].as \in AsNumbers
    BY BestIsAPath, ConfigFacts DEF Paths, AsNumbers, Rendered
<1>2. <<config[y].as>> \o path \in Seq(AsNumbers) \ {<<>>}
    BY <1>1, Longer
<1>3. Accepted(x, y, path) # {} => dest \in config[y].exports /\ dest \in config[x].imports
    BY DEF Accepted
<1>4. dest \in config[x].imports => dest # Foreign
    BY ConfigFacts, ForeignIsForeign DEF Rendered
<1> QED
    BY <1>2, <1>3, <1>4, ConfigFacts DEF Accepted, Paths, Rendered

\* A session joins a leaf and a spine.
LEMMA SessionsCross ==
    ASSUME SidesApart(fabric), up \subseteq FabricLinks(fabric), NEW x, NEW y, Session(x, y)
    PROVE  IsLeaf(fabric, x) # IsLeaf(fabric, y)
<1>1. PICK l \in up : \E near, far \in Ends(l) : near.node = x /\ far.node = y /\ near # far
    BY DEF Session
<1>2. \/ x = l.a.node /\ y = l.b.node
      \/ x = l.b.node /\ y = l.a.node
    BY <1>1 DEF Ends
<1>3. IsLeaf(fabric, l.a.node) /\ ~IsLeaf(fabric, l.b.node)
    BY <1>1, LinksCross
<1> QED
    BY <1>2, <1>3 DEF IsLeaf

-----------------------------------------------------------------------------
(* The steps. *)

LEMMA Steady ==
    ASSUME fabric' = fabric
    PROVE  SwitchNames' = SwitchNames /\ Paths' = Paths
<1> QED
    BY DEF SwitchNames, Paths, AsNumbers

LEMMA Initially == TrafficInit => IInv
    BY DEF TrafficInit, AcceptanceInit, UnderlayInit, IInv

LEMMA ValidateStep ==
    ASSUME IInv, Validate
    PROVE  IInv'
<1>1. fabric' = fabric /\ stage' # "rendered"
    BY DEF Validate
<1>2. stage' = "valid" => Validation(fabric) = {}
    BY DEF Validate
<1>3. fabric \in FabricSpec
    BY UnderlayAssumption DEF IInv
<1>4. stage' = "valid" => SidesApart(fabric)
    BY <1>2, <1>3, ValidNamesApart
<1> QED
    BY <1>1, <1>4 DEF IInv, SidesApart, LeafNames

LEMMA RenderStep ==
    ASSUME IInv, Render
    PROVE  IInv'
<1>1. /\ fabric' = fabric /\ SidesApart(fabric) /\ stage' # "valid"
      /\ up' = FabricLinks(fabric)
      /\ config' = [x \in SwitchNames |-> Config(fabric, x)]
      /\ heard' = [p \in SwitchNames \X SwitchNames |-> {}]
    BY DEF Render, IInv
<1>2. SwitchNames' = SwitchNames
    BY <1>1 DEF SwitchNames, Switches
<1>3. up' \subseteq FabricLinks(fabric)'
    BY <1>1 DEF FabricLinks, FabricLink, P2pIndex
<1>4. ConfigsFit'
    BY <1>1, <1>2 DEF ConfigsFit
<1>5. (heard \in [SwitchNames \X SwitchNames -> SUBSET (Paths \ {<<>>})])'
    BY <1>1, <1>2
<1>6. HeardAcross'
    BY <1>1, <1>2 DEF HeardAcross
<1> QED
    BY <1>1, <1>3, <1>4, <1>5, <1>6 DEF IInv, Rendered

\* Routes may be dropped, and links of the fabric come and go.
LEMMA Forgotten ==
    ASSUME IInv, stage = "rendered", UNCHANGED <<fabric, stage, dest, config>>,
           up' \subseteq FabricLinks(fabric),
           heard' \in [SwitchNames \X SwitchNames -> SUBSET (Paths \ {<<>>})],
           \A x, y \in SwitchNames : heard'[<<x, y>>] \subseteq heard[<<x, y>>]
    PROVE  IInv'
<1>1. Rendered /\ HeardAcross /\ ConfigsFit /\ SidesApart(fabric)
    BY DEF IInv, Rendered
<1>2. HeardAcross'
    BY <1>1 DEF HeardAcross, SwitchNames
<1>3. ConfigsFit'
    <2>1. SwitchNames' = SwitchNames /\ config' = config /\ fabric' = fabric
        BY Steady
    <2> QED
        BY <1>1, <2>1 DEF ConfigsFit
<1>4. (heard \in [SwitchNames \X SwitchNames -> SUBSET (Paths \ {<<>>})])'
    <2>1. SwitchNames' = SwitchNames /\ Paths' = Paths
        BY Steady
    <2> QED
        BY <2>1
<1> QED
    BY <1>1, <1>2, <1>3, <1>4 DEF IInv, Rendered

LEMMA CutForgets ==
    ASSUME Rendered, NEW links
    PROVE  /\ Cut(links) \in [SwitchNames \X SwitchNames -> SUBSET (Paths \ {<<>>})]
           /\ \A x, y \in SwitchNames : Cut(links)[<<x, y>>] \subseteq heard[<<x, y>>]
<1>1. DOMAIN heard = SwitchNames \X SwitchNames
    BY DEF Rendered
<1>2. \A p \in SwitchNames \X SwitchNames : Cut(links)[p] \in {{}, heard[p]}
    BY <1>1 DEF Cut
<1>3. \A p \in SwitchNames \X SwitchNames : heard[p] \in SUBSET (Paths \ {<<>>})
    BY DEF Rendered
<1>4. Cut(links) = [p \in SwitchNames \X SwitchNames |-> Cut(links)[p]]
    BY <1>1 DEF Cut
<1>5. \A p \in SwitchNames \X SwitchNames : Cut(links)[p] \in SUBSET (Paths \ {<<>>})
    BY <1>2, <1>3
<1> QED
    BY <1>2, <1>4, <1>5

LEMMA AdvertiseStep ==
    ASSUME IInv, NEW x \in SwitchNames, NEW y \in SwitchNames, Advertise(x, y)
    PROVE  IInv'
<1>1. Rendered /\ SidesApart(fabric) /\ stage = "rendered" /\ Session(x, y)
    BY DEF IInv, Advertise
<1>2. UNCHANGED <<fabric, stage, dest, up, config>>
    BY DEF Advertise
<1>3. IsLeaf(fabric, x) # IsLeaf(fabric, y)
    BY <1>1, SessionsCross DEF Rendered
<1>4. PICK told \in SUBSET (Paths \ {<<>>}) :
          /\ heard' = [heard EXCEPT ![<<x, y>>] = told]
          /\ told # {} /\ IsLeaf(fabric, y) => dest \in Originates(fabric, y)
    <2>1. CASE \E path \in Best(y) : heard' = [heard EXCEPT ![<<x, y>>] = Accepted(x, y, path)]
        <3>1. PICK path \in Best(y) : heard' = [heard EXCEPT ![<<x, y>>] = Accepted(x, y, path)]
            BY <2>1
        <3> QED
            BY <1>1, <3>1, AcceptedFits
    <2>2. CASE heard' = [heard EXCEPT ![<<x, y>>] = {}]
        BY <2>2
    <2> QED
        BY <2>1, <2>2 DEF Advertise
<1>5. \A u, v \in SwitchNames :
          heard'[<<u, v>>] = IF u = x /\ v = y THEN told ELSE heard[<<u, v>>]
    BY <1>1, <1>4 DEF Rendered
<1>6. heard' \in [SwitchNames \X SwitchNames -> SUBSET (Paths \ {<<>>})]
    BY <1>1, <1>4 DEF Rendered
<1>7. \A u, v \in SwitchNames : heard'[<<u, v>>] # {} =>
          /\ IsLeaf(fabric, u) # IsLeaf(fabric, v)
          /\ IsLeaf(fabric, v) => dest \in Originates(fabric, v)
    BY <1>1, <1>3, <1>4, <1>5 DEF Rendered, HeardAcross
<1>8. HeardAcross'
    BY <1>2, <1>7 DEF HeardAcross, SwitchNames
<1>9. ConfigsFit'
    BY <1>1, <1>2 DEF Rendered, ConfigsFit, SwitchNames
<1>10. (heard \in [SwitchNames \X SwitchNames -> SUBSET (Paths \ {<<>>})])'
    BY <1>2, <1>6, Steady
<1> QED
    BY <1>1, <1>2, <1>8, <1>9, <1>10 DEF IInv, Rendered

LEMMA FlapStep ==
    ASSUME IInv, stage = "rendered", NEW l \in FabricLinks(fabric), Flap(l)
    PROVE  IInv'
<1>1. Rendered
    BY DEF IInv
<1>2. up' \subseteq FabricLinks(fabric)
    BY <1>1 DEF Flap, Rendered
<1> QED
    BY <1>1, <1>2, CutForgets, Forgotten DEF Flap

LEMMA FailStep ==
    ASSUME IInv, stage = "rendered", NEW links, Fail(links)
    PROVE  IInv'
<1>1. Rendered
    BY DEF IInv
<1>2. up' \subseteq FabricLinks(fabric)
    BY <1>1 DEF Fail, Rendered
<1> QED
    BY <1>1, <1>2, CutForgets, Forgotten DEF Fail

LEMMA RestoreStep ==
    ASSUME IInv, Restore
    PROVE  IInv'
<1>1. Rendered /\ stage = "rendered" /\ up' \subseteq FabricLinks(fabric)
    BY DEF IInv, Restore
<1>2. heard' \in [SwitchNames \X SwitchNames -> SUBSET (Paths \ {<<>>})]
    BY <1>1 DEF Rendered, Restore
<1> QED
    BY <1>1, <1>2, Forgotten DEF Restore

\* B05 changes the configuration of one leaf by a foreign prefix, and puts it back.
LEMMA Reconfigured ==
    ASSUME IInv, stage = "rendered", UNCHANGED <<fabric, stage, dest, up, heard>>,
           config' \in [SwitchNames -> UNION {{Config(fabric, x), WithForeign(Config(fabric, x))} : x \in SwitchNames}],
           \A x \in SwitchNames : config'[x] \in {Config(fabric, x), WithForeign(Config(fabric, x))}
    PROVE  IInv'
<1>1. Rendered /\ HeardAcross /\ ConfigsFit /\ SidesApart(fabric)
    BY DEF IInv, Rendered
<1>2. HeardAcross'
    BY <1>1 DEF HeardAcross, SwitchNames
<1>3. ConfigsFit'
    BY DEF ConfigsFit, SwitchNames, WithForeign
<1>4. (heard \in [SwitchNames \X SwitchNames -> SUBSET (Paths \ {<<>>})])'
    BY Steady DEF IInv, Rendered
<1> QED
    BY <1>1, <1>2, <1>3, <1>4 DEF IInv, Rendered

LEMMA ForeignAdded ==
    ASSUME NEW a, NEW b, NEW o, NEW i, NEW e, NEW n, NEW c,
           c = [as |-> a, addresses |-> b, originates |-> o, imports |-> i, exports |-> e, neighbors |-> n]
    PROVE  [[c EXCEPT !.originates = @ \cup {Foreign}] EXCEPT !.exports = @ \cup {Foreign}] = WithForeign(c)
<1>1. \A X : [c EXCEPT !.originates = X]
              = [as |-> a, addresses |-> b, originates |-> X, imports |-> i, exports |-> e, neighbors |-> n]
    OBVIOUS
<1>2. \A X, Y :
          [[as |-> a, addresses |-> b, originates |-> X, imports |-> i, exports |-> e, neighbors |-> n]
               EXCEPT !.exports = Y]
          = [as |-> a, addresses |-> b, originates |-> X, imports |-> i, exports |-> Y, neighbors |-> n]
    OBVIOUS
<1>3. PICK d : d = [c EXCEPT !.originates = @ \cup {Foreign}]
    OBVIOUS
<1>4. d = [as |-> a, addresses |-> b, originates |-> c.originates \cup {Foreign}, imports |-> i, exports |-> e,
           neighbors |-> n]
    BY <1>1, <1>3
<1>5. [d EXCEPT !.exports = @ \cup {Foreign}]
          = [as |-> a, addresses |-> b, originates |-> c.originates \cup {Foreign}, imports |-> i,
             exports |-> d.exports \cup {Foreign}, neighbors |-> n]
    BY <1>2, <1>4
<1>6. d.exports = c.exports
    BY <1>4
<1>7. WithForeign(c) = [as |-> a, addresses |-> b, originates |-> c.originates \cup {Foreign}, imports |-> i,
                        exports |-> c.exports \cup {Foreign}, neighbors |-> n]
    BY DEF WithForeign
<1> QED
    BY <1>3, <1>5, <1>6, <1>7

LEMMA AddedAt ==
    ASSUME NEW f, NEW S, DOMAIN f = S, f = [x \in S |-> f[x]], NEW y \in S
    PROVE  [f EXCEPT ![y].originates = @ \cup {Foreign}, ![y].exports = @ \cup {Foreign}]
               = [f EXCEPT ![y] = [[f[y] EXCEPT !.originates = @ \cup {Foreign}] EXCEPT !.exports = @ \cup {Foreign}]]
OBVIOUS

LEMMA InjectForeignStep ==
    ASSUME IInv, stage = "rendered", InjectForeign
    PROVE  IInv'
<1>1. Rendered /\ ConfigsFit
    BY DEF IInv, Rendered
<1>2. CASE FirstLeaf \notin SwitchNames \/ config' = config
    <2>1. config' = config
        BY <1>1, <1>2 DEF InjectForeign, ConfigsFit
    <2> QED
        BY <1>1, <2>1, Reconfigured DEF InjectForeign, ConfigsFit
<1>3. CASE FirstLeaf \in SwitchNames /\ config' # config
    <2>1. config[FirstLeaf] \in {Config(fabric, FirstLeaf), WithForeign(Config(fabric, FirstLeaf))}
        BY <1>1, <1>3 DEF ConfigsFit
    <2>2. config[FirstLeaf] = Config(fabric, FirstLeaf) \/ config[FirstLeaf] = WithForeign(Config(fabric, FirstLeaf))
        BY <2>1
    <2>3. [[config[FirstLeaf] EXCEPT !.originates = @ \cup {Foreign}] EXCEPT !.exports = @ \cup {Foreign}]
              = WithForeign(Config(fabric, FirstLeaf))
        <3>1. CASE config[FirstLeaf] = Config(fabric, FirstLeaf)
            BY <3>1, ForeignAdded DEF Config
        <3>2. CASE config[FirstLeaf] = WithForeign(Config(fabric, FirstLeaf))
            <4>1. WithForeign(config[FirstLeaf]) = WithForeign(Config(fabric, FirstLeaf))
                BY <3>2 DEF WithForeign
            <4>2. config[FirstLeaf] =
                      [as |-> config[FirstLeaf].as, addresses |-> config[FirstLeaf].addresses,
                       originates |-> config[FirstLeaf].originates, imports |-> config[FirstLeaf].imports,
                       exports |-> config[FirstLeaf].exports, neighbors |-> config[FirstLeaf].neighbors]
                BY <3>2 DEF WithForeign
            <4> QED
                BY <4>1, <4>2, ForeignAdded
        <3> QED
            BY <2>2, <3>1, <3>2
    <2>4. /\ config' = [config EXCEPT ![FirstLeaf] =
                           [[config[FirstLeaf] EXCEPT !.originates = @ \cup {Foreign}] EXCEPT !.exports = @ \cup {Foreign}]]
          /\ UNCHANGED <<fabric, stage, dest, up, heard>>
        <3>1. config' = [config EXCEPT ![FirstLeaf].originates = @ \cup {Foreign}, ![FirstLeaf].exports = @ \cup {Foreign}]
            BY <1>3 DEF InjectForeign
        <3>2. DOMAIN config = SwitchNames /\ config = [x \in SwitchNames |-> config[x]]
            BY <1>1 DEF ConfigsFit
        <3> QED
            BY <1>3, <3>1, <3>2, AddedAt DEF InjectForeign
    <2>5. config' = [config EXCEPT ![FirstLeaf] = WithForeign(Config(fabric, FirstLeaf))]
        BY <2>3, <2>4
    <2>6. config' \in [SwitchNames -> UNION {{Config(fabric, x), WithForeign(Config(fabric, x))} : x \in SwitchNames}]
        BY <1>1, <1>3, <2>5 DEF ConfigsFit
    <2>7. \A x \in SwitchNames : config'[x] \in {Config(fabric, x), WithForeign(Config(fabric, x))}
        BY <1>1, <1>3, <2>5 DEF ConfigsFit
    <2> QED
        BY <1>1, <2>4, <2>6, <2>7, Reconfigured
<1> QED
    BY <1>2, <1>3

LEMMA CheckB05Step ==
    ASSUME IInv, stage = "rendered", CheckB05
    PROVE  IInv'
<1>1. Rendered /\ ConfigsFit
    BY DEF IInv, Rendered
<1>2. config' = config \/ config' = [config EXCEPT ![FirstLeaf] = Config(fabric, FirstLeaf)]
    BY DEF CheckB05
<1>3. \A x \in SwitchNames : config'[x] \in {Config(fabric, x), WithForeign(Config(fabric, x))}
    BY <1>1, <1>2 DEF ConfigsFit
<1>4. DOMAIN config' = SwitchNames /\ config' = [x \in SwitchNames |-> config'[x]]
    BY <1>1, <1>2 DEF ConfigsFit
<1>5. config' \in [SwitchNames -> UNION {{Config(fabric, x), WithForeign(Config(fabric, x))} : x \in SwitchNames}]
    BY <1>3, <1>4
<1> QED
    BY <1>3, <1>5, Reconfigured DEF CheckB05

\* A step that leaves the fabric and its routes alone.
LEMMA Untouched ==
    ASSUME IInv, UNCHANGED uvars
    PROVE  IInv'
<1>1. UNCHANGED <<fabric, stage, dest, up, config, heard>>
    BY DEF uvars
<1>2. SidesApart(fabric)' <=> SidesApart(fabric)
    BY <1>1 DEF SidesApart, LeafNames
<1>3. CASE stage = "rendered"
    BY <1>1, <1>2, <1>3, Forgotten DEF IInv, Rendered
<1>4. CASE stage # "rendered"
    BY <1>1, <1>2, <1>4 DEF IInv
<1> QED
    BY <1>3, <1>4

LEMMA CheckingStep ==
    ASSUME IInv, Checking
    PROVE  IInv'
<1>1. stage = "rendered"
    BY DEF Checking
<1>2. CASE UNCHANGED uvars
    BY <1>2, Untouched
<1>3. CASE InjectForeign
    BY <1>1, <1>3, InjectForeignStep
<1>4. CASE CheckB05
    BY <1>1, <1>4, CheckB05Step
<1>5. CASE LinkDown
    <2>1. PICK l : Fail({l})
        BY <1>5 DEF LinkDown
    <2> QED
        BY <1>1, <2>1, FailStep
<1>6. CASE SpineDown
    <2>1. PICK links : Fail(links)
        BY <1>6 DEF SpineDown
    <2> QED
        BY <1>1, <2>1, FailStep
<1>7. CASE Restore
    BY <1>7, RestoreStep
<1> QED
    BY <1>2, <1>3, <1>4, <1>5, <1>6, <1>7
       DEF Checking, StartCheck, WaitConverged, CheckB03, CheckB04, CheckB06, CheckB07, CheckDies

LEMMA LoadStep ==
    ASSUME IInv, Load
    PROVE  IInv'
<1> QED
    BY DEF Load, IInv

\* Routes are only ever heard across the fabric, in every reachable state.
THEOREM Invariance == TrafficSpec => []IInv
<1>1. IInv /\ [TrafficNext]_lvars => IInv'
    <2> SUFFICES ASSUME IInv, [TrafficNext]_lvars PROVE IInv'
        OBVIOUS
    <2>1. CASE AcceptanceNext
        BY <2>1, CheckingStep, ValidateStep, RenderStep, AdvertiseStep, FlapStep
           DEF AcceptanceNext, UnderlayNext
    <2>2. CASE Load
        BY <2>2, LoadStep
    <2>3. CASE UNCHANGED uvars
        BY <2>3, Untouched
    <2> QED
        BY <2>1, <2>2, <2>3
           DEF TrafficNext, StartProgram, StopTraffic, StartServers, StartFlow, FlowEnds, ExecTimesOut,
               Started, Cleanup, Killed, lvars, labVars
<1> QED
    BY <1>1, Initially, PTL DEF TrafficSpec

\* A router that was heard is not told by the one that heard it where the prefix is: one of the two is
\* a leaf, and owns the prefix (render.py:103-112).  For any fabric that the validator lets pass, any
\* failures, and any order of the updates.
THEOREM LoopFree == TrafficSpec => []NoForwardingLoop
<1>1. IInv => NoForwardingLoop
    <2> SUFFICES ASSUME IInv, stage = "rendered", NEW x \in SwitchNames, NEW y \in NextHops(x),
                        x \in NextHops(y)
                 PROVE  FALSE
        BY DEF NoForwardingLoop
    <2>1. Rendered /\ ConfigsFit /\ HeardAcross
        BY DEF IInv, Rendered
    <2>2. y \in SwitchNames /\ heard[<<x, y>>] \cap Best(x) # {} /\ heard[<<y, x>>] \cap Best(y) # {}
        BY DEF NextHops
    <2>3. \/ dest \in Originates(fabric, x)
          \/ dest \in Originates(fabric, y)
        <3>1. heard[<<x, y>>] # {} /\ heard[<<y, x>>] # {}
            BY <2>2
        <3> QED
            BY <2>1, <2>2, <3>1 DEF HeardAcross, IsLeaf
    <2>4. Best(x) = {<<>>} \/ Best(y) = {<<>>}
        BY <2>1, <2>2, <2>3, ConfigFacts DEF Best
    <2>5. <<>> \notin heard[<<x, y>>] /\ <<>> \notin heard[<<y, x>>]
        BY <2>1, <2>2 DEF Rendered
    <2> QED
        BY <2>2, <2>4, <2>5
<1> QED
    BY <1>1, Invariance, PTL

-----------------------------------------------------------------------------
(* The foreign prefix. *)

\* Nobody has a route of it.
Unheard == stage = "rendered" /\ dest = Foreign => \A x, y \in SwitchNames : heard[<<x, y>>] = {}

LEMMA UnheardStays ==
    ASSUME Unheard, stage = "rendered", UNCHANGED <<fabric, dest>>,
           \A x, y \in SwitchNames : heard'[<<x, y>>] \subseteq heard[<<x, y>>]
    PROVE  Unheard'
<1>1. SwitchNames' = SwitchNames
    BY Steady
<1> QED
    BY <1>1 DEF Unheard

\* Whatever a neighbor exports, the import policy takes the fabric's prefixes alone.
LEMMA UnheardAdvertised ==
    ASSUME IInv, Unheard, NEW x \in SwitchNames, NEW y \in SwitchNames, Advertise(x, y)
    PROVE  Unheard'
<1>1. /\ Rendered /\ stage = "rendered" /\ UNCHANGED <<fabric, stage, dest>>
      /\ DOMAIN heard = SwitchNames \X SwitchNames
    BY DEF IInv, Rendered, Advertise
<1>2. SUFFICES ASSUME dest = Foreign PROVE Unheard'
    BY <1>1 DEF Unheard
<1>3. dest \notin config[x].imports
    BY <1>1, <1>2, ConfigFacts, ForeignIsForeign DEF Rendered
<1>4. \A path : Accepted(x, y, path) = {}
    BY <1>3 DEF Accepted
<1>5. heard' = [heard EXCEPT ![<<x, y>>] = {}]
    BY <1>4 DEF Advertise
<1>6. \A u, v \in SwitchNames : heard'[<<u, v>>] \subseteq heard[<<u, v>>]
    BY <1>1, <1>5
<1> QED
    BY <1>1, <1>6, UnheardStays

LEMMA UnheardCut ==
    ASSUME IInv, Unheard, stage = "rendered", UNCHANGED <<fabric, dest>>, NEW links, heard' = Cut(links)
    PROVE  Unheard'
<1>1. \A x, y \in SwitchNames : heard'[<<x, y>>] \subseteq heard[<<x, y>>]
    BY CutForgets DEF IInv
<1> QED
    BY <1>1, UnheardStays

LEMMA UnheardStep == IInv /\ Unheard /\ [TrafficNext]_lvars => Unheard'
<1> SUFFICES ASSUME IInv, Unheard, [TrafficNext]_lvars PROVE Unheard'
    OBVIOUS
<1>1. CASE UNCHANGED <<fabric, stage, dest, heard>>
    BY <1>1 DEF Unheard, SwitchNames
<1>2. CASE Validate \/ Load
    BY <1>2 DEF Validate, Load, Unheard
<1>3. CASE Render
    <2>1. heard' = [p \in SwitchNames \X SwitchNames |-> {}] /\ SwitchNames' = SwitchNames
        BY <1>3, Steady DEF Render
    <2> QED
        BY <2>1 DEF Unheard
<1>4. CASE \E x, y \in SwitchNames : Advertise(x, y)
    BY <1>4, UnheardAdvertised
<1>5. CASE stage = "rendered" /\ \E l \in FabricLinks(fabric) : Flap(l)
    <2>1. PICK l \in FabricLinks(fabric) : heard' = Cut({l}) /\ UNCHANGED <<fabric, dest>>
        BY <1>5 DEF Flap
    <2> QED
        BY <1>5, <2>1, UnheardCut
<1>6. CASE stage = "rendered" /\ \E links : Fail(links)
    <2>1. PICK links : heard' = Cut(links) /\ UNCHANGED <<fabric, dest>>
        BY <1>6 DEF Fail
    <2> QED
        BY <1>6, <2>1, UnheardCut
<1>7. CASE Checking
    <2>1. CASE LinkDown \/ SpineDown
        <3>1. stage = "rendered" /\ \E links : Fail(links)
            BY <2>1 DEF LinkDown, SpineDown
        <3> QED
            BY <1>6, <3>1
    <2>2. CASE ~(LinkDown \/ SpineDown)
        <3>1. UNCHANGED <<fabric, stage, dest, heard>>
            BY <1>7, <2>2 DEF Checking, StartCheck, WaitConverged, CheckB03, CheckB04, InjectForeign, CheckB05,
                              CheckB06, CheckB07, CheckDies, Restore, uvars
        <3> QED
            BY <1>1, <3>1
    <2> QED
        BY <2>1, <2>2
<1>8. CASE AcceptanceNext
    BY <1>2, <1>3, <1>4, <1>5, <1>7, <1>8 DEF AcceptanceNext, UnderlayNext
<1>9. UNCHANGED uvars => UNCHANGED <<fabric, stage, dest, heard>>
    BY DEF uvars
<1> QED
    BY <1>1, <1>2, <1>8, <1>9
       DEF TrafficNext, StartProgram, StopTraffic, StartServers, StartFlow, FlowEnds, ExecTimesOut, Started,
           Cleanup, Killed, lvars, labVars

\* The foreign prefix that B05 makes a leaf advertise is taken by no spine, of any fabric, in any order of
\* the updates, whatever fails, and also when the check was killed and left it there: the check can only
\* fail for want of time (lab_check.py:166-212, render.py:84-102).
THEOREM ForeignNeverTaken == TrafficSpec => [](stage = "rendered" => ForeignRejected)
<1>1. IInv /\ Unheard => (stage = "rendered" => ForeignRejected)
    <2> SUFFICES ASSUME Unheard, stage = "rendered", dest = Foreign, NEW x \in SwitchNames, Learned(x)
                 PROVE  FALSE
        BY DEF ForeignRejected
    <2>1. dest \notin config[x].originates /\ Best(x) # {}
        BY DEF Learned, Owners
    <2>2. UNION {heard[<<x, y>>] : y \in SwitchNames} = {}
        BY DEF Unheard
    <2> QED
        BY <2>1, <2>2 DEF Best
<1>2. TrafficInit => Unheard
    BY DEF TrafficInit, AcceptanceInit, UnderlayInit, Unheard
<1> QED
    BY <1>1, <1>2, UnheardStep, Invariance, PTL DEF TrafficSpec

-----------------------------------------------------------------------------
(* The paths. *)

\* A leaf tells one path at most, of itself, and a spine one of at most two switches.
OnePath(x, y) ==
    heard[<<x, y>>] = {} \/ \E p \in Paths : heard[<<x, y>>] = {p} /\ Len(p) <= IF IsLeaf(fabric, y) THEN 1 ELSE 2

ShortPaths ==
    /\ stage \in {"authored", "rejected", "valid", "rendered", "raised", "loaded"}
    /\ flaps \in 0 .. MaxFlaps
    /\ stage = "rendered" => \A x, y \in SwitchNames : OnePath(x, y)

LEMMA PathTold ==
    ASSUME Rendered, \A x, y \in SwitchNames : OnePath(x, y), NEW x \in SwitchNames, NEW y \in SwitchNames,
           NEW path \in Best(y), Accepted(x, y, path) # {}
    PROVE  \E p \in Paths : Accepted(x, y, path) = {p} /\ Len(p) <= IF IsLeaf(fabric, y) THEN 1 ELSE 2
<1> DEFINE p == <<config[y].as>> \o path
<1>1. Accepted(x, y, path) = {p} /\ p \in Paths
    BY AcceptedFits DEF Accepted
<1>2. path \in Paths /\ config[y].as \in AsNumbers
    BY BestIsAPath, ConfigFacts DEF AsNumbers, Rendered
<1>3. Len(p) = Len(path) + 1 /\ Len(path) \in Nat
    <2>1. <<config[y].as>> \in Seq(AsNumbers) /\ Len(<<config[y].as>>) = 1
        BY <1>2
    <2> QED
        BY <1>2, <2>1 DEF Paths
<1> HIDE DEF p
<1>4. CASE dest \in config[y].originates
    <2>1. path = <<>>
        BY <1>4 DEF Best
    <2>2. Len(path) = 0
        BY <2>1
    <2>3. Len(p) = 1
        BY <1>3, <2>2
    <2>4. Len(p) <= IF IsLeaf(fabric, y) THEN 1 ELSE 2
        BY <2>3
    <2> QED
        BY <1>1, <2>4
<1>5. CASE dest \notin config[y].originates
    <2>1. ~IsLeaf(fabric, y)
        BY <1>5, AcceptedFits, ConfigFacts DEF Rendered
    <2>2. PICK z \in SwitchNames : path \in heard[<<y, z>>]
        BY <1>5 DEF Best
    <2>3. IsLeaf(fabric, z)
        BY <2>1, <2>2 DEF Rendered, HeardAcross, IsLeaf
    <2>4. Len(path) <= 1
        BY <2>2, <2>3 DEF OnePath
    <2>5. Len(p) <= 2
        BY <1>3, <2>4
    <2> QED
        BY <1>1, <2>1, <2>5
<1> QED
    BY <1>4, <1>5

LEMMA PathsStay ==
    ASSUME ShortPaths, stage = "rendered", UNCHANGED <<fabric, stage>>, flaps' \in 0 .. MaxFlaps,
           \A x, y \in SwitchNames : heard'[<<x, y>>] \in {{}, heard[<<x, y>>]}
    PROVE  ShortPaths'
<1>1. SwitchNames' = SwitchNames /\ Paths' = Paths
    BY Steady
<1> QED
    BY <1>1 DEF ShortPaths, OnePath

LEMMA PathsAdvertised ==
    ASSUME IInv, ShortPaths, NEW x \in SwitchNames, NEW y \in SwitchNames, Advertise(x, y)
    PROVE  ShortPaths'
<1>1. /\ Rendered /\ stage = "rendered" /\ UNCHANGED <<fabric, stage, flaps>>
      /\ DOMAIN heard = SwitchNames \X SwitchNames
      /\ \A u, v \in SwitchNames : OnePath(u, v)
    BY DEF IInv, Rendered, Advertise, ShortPaths
<1>2. PICK told : /\ heard' = [heard EXCEPT ![<<x, y>>] = told]
                  /\ \/ told = {}
                     \/ \E p \in Paths : told = {p} /\ Len(p) <= IF IsLeaf(fabric, y) THEN 1 ELSE 2
    <2>1. CASE \E path \in Best(y) : heard' = [heard EXCEPT ![<<x, y>>] = Accepted(x, y, path)]
        <3>1. PICK path \in Best(y) : heard' = [heard EXCEPT ![<<x, y>>] = Accepted(x, y, path)]
            BY <2>1
        <3> QED
            BY <1>1, <3>1, PathTold
    <2>2. CASE heard' = [heard EXCEPT ![<<x, y>>] = {}]
        BY <2>2
    <2> QED
        BY <2>1, <2>2 DEF Advertise
<1>3. \A u, v \in SwitchNames : heard'[<<u, v>>] = IF u = x /\ v = y THEN told ELSE heard[<<u, v>>]
    BY <1>1, <1>2
<1>4. SwitchNames' = SwitchNames /\ Paths' = Paths
    BY <1>1, Steady
<1>5. ASSUME NEW u \in SwitchNames, NEW v \in SwitchNames PROVE OnePath(u, v)'
    <2>1. IsLeaf(fabric, v)' = IsLeaf(fabric, v)
        BY <1>1 DEF IsLeaf, LeafNames
    <2>2. CASE u = x /\ v = y
        BY <1>2, <1>3, <1>4, <2>1, <2>2 DEF OnePath
    <2>3. CASE u # x \/ v # y
        BY <1>1, <1>3, <1>4, <2>1, <2>3 DEF OnePath
    <2> QED
        BY <2>2, <2>3
<1> QED
    BY <1>1, <1>4, <1>5 DEF ShortPaths

LEMMA PathsStep == IInv /\ ShortPaths /\ [TrafficNext]_lvars => ShortPaths'
<1> SUFFICES ASSUME IInv, ShortPaths, [TrafficNext]_lvars PROVE ShortPaths'
    OBVIOUS
<1>1. CASE UNCHANGED <<fabric, stage, flaps, heard>>
    BY <1>1, Steady DEF ShortPaths, OnePath
<1>2. CASE Validate \/ Load
    <2>1. stage' \in {"valid", "raised", "rejected", "loaded"} /\ flaps' = flaps
        BY <1>2 DEF Validate, Load
    <2> QED
        BY <2>1 DEF ShortPaths
<1>3. CASE Render
    <2>1. /\ heard' = [p \in SwitchNames \X SwitchNames |-> {}] /\ SwitchNames' = SwitchNames
          /\ flaps' = flaps /\ stage' \in {"rendered", "raised"}
        BY <1>3, Steady DEF Render
    <2>2. \A x, y \in SwitchNames : heard'[<<x, y>>] = {}
        BY <2>1
    <2> QED
        BY <2>1, <2>2 DEF ShortPaths, OnePath
<1>4. CASE \E x, y \in SwitchNames : Advertise(x, y)
    BY <1>4, PathsAdvertised
<1>5. ASSUME NEW links PROVE stage = "rendered" => \A x, y \in SwitchNames : Cut(links)[<<x, y>>] \in {{}, heard[<<x, y>>]}
    BY DEF Cut, IInv, Rendered
<1>6. CASE stage = "rendered" /\ \E l \in FabricLinks(fabric) : Flap(l)
    <2>1. PICK l \in FabricLinks(fabric) : /\ heard' = Cut({l}) /\ UNCHANGED <<fabric, stage>>
                                           /\ flaps < MaxFlaps /\ flaps' = flaps + 1
        BY <1>6 DEF Flap
    <2>2. flaps' \in 0 .. MaxFlaps
        BY <2>1, UnderlayAssumption DEF ShortPaths
    <2> QED
        BY <1>5, <1>6, <2>1, <2>2, PathsStay
<1>7. CASE stage = "rendered" /\ \E links : Fail(links)
    <2>1. PICK links : heard' = Cut(links) /\ UNCHANGED <<fabric, stage, flaps>>
        BY <1>7 DEF Fail
    <2>2. flaps' \in 0 .. MaxFlaps
        BY <2>1 DEF ShortPaths
    <2> QED
        BY <1>5, <1>7, <2>1, <2>2, PathsStay
<1>8. CASE Checking
    <2>1. CASE LinkDown \/ SpineDown
        <3>1. stage = "rendered" /\ \E links : Fail(links)
            BY <2>1 DEF LinkDown, SpineDown
        <3> QED
            BY <1>7, <3>1
    <2>2. CASE ~(LinkDown \/ SpineDown)
        <3>1. UNCHANGED <<fabric, stage, flaps, heard>>
            BY <1>8, <2>2 DEF Checking, StartCheck, WaitConverged, CheckB03, CheckB04, InjectForeign, CheckB05,
                              CheckB06, CheckB07, CheckDies, Restore, uvars
        <3> QED
            BY <1>1, <3>1
    <2> QED
        BY <2>1, <2>2
<1>9. CASE AcceptanceNext
    BY <1>2, <1>3, <1>4, <1>6, <1>8, <1>9 DEF AcceptanceNext, UnderlayNext
<1>10. UNCHANGED uvars => UNCHANGED <<fabric, stage, flaps, heard>>
    BY DEF uvars
<1> QED
    BY <1>1, <1>2, <1>9, <1>10
       DEF TrafficNext, StartProgram, StopTraffic, StartServers, StartFlow, FlowEnds, ExecTimesOut, Started,
           Cleanup, Killed, lvars, labVars

\* No switch ever hears more than one path from a neighbor, none longer than a spine and a leaf: the export
\* policies let no path be explored through a leaf, however the routes converge and whatever fails
\* (render.py:103-112).
THEOREM PathsStayShort == TrafficSpec => []UnderlayTypeOK
<1>1. IInv /\ ShortPaths => UnderlayTypeOK
    <2> SUFFICES ASSUME IInv, ShortPaths PROVE UnderlayTypeOK
        OBVIOUS
    <2> DEFINE Numbered == {{}} \cup {{p} : p \in BoundedSeq(AsNumbers, 2)}
    <2>1. ASSUME stage = "rendered", NEW x \in SwitchNames, NEW y \in SwitchNames
          PROVE  heard[<<x, y>>] \in Numbered
        <3>1. ASSUME NEW p \in Paths, Len(p) <= 2 PROVE p \in BoundedSeq(AsNumbers, 2)
            <4>1. Len(p) \in Nat /\ p \in [1 .. Len(p) -> AsNumbers]
                BY DEF Paths
            <4>2. Len(p) \in 0 .. 2
                BY <3>1, <4>1
            <4> QED
                BY <4>1, <4>2 DEF BoundedSeq, SeqOf
        <3>2. heard[<<x, y>>] = {} \/ \E p \in Paths : heard[<<x, y>>] = {p} /\ Len(p) <= 2
            <4>1. OnePath(x, y)
                BY <2>1 DEF ShortPaths
            <4>2. \A p \in Paths : Len(p) \in Nat
                BY DEF Paths
            <4> QED
                BY <4>1, <4>2 DEF OnePath
        <3> QED
            BY <3>1, <3>2
    <2>2. stage = "rendered" => heard \in [SwitchNames \X SwitchNames -> Numbered]
        <3> HIDE DEF Numbered
        <3> QED
            BY <2>1 DEF IInv, Rendered
    <2>3. stage = "rendered" => up \subseteq FabricLinks(fabric)
        BY DEF IInv, Rendered
    <2> QED
        BY <2>2, <2>3 DEF UnderlayTypeOK, ShortPaths, IInv, AsNumbers
<1>2. TrafficInit => ShortPaths
    BY UnderlayAssumption DEF TrafficInit, AcceptanceInit, UnderlayInit, ShortPaths
<1> QED
    BY <1>1, <1>2, PathsStep, Invariance, PTL DEF TrafficSpec

-----------------------------------------------------------------------------
(* One failure. *)

\* The leaves whose own prefix is the one that is followed.
Homes == {x \in SwitchNames : dest \in Originates(fabric, x)}

Told(x, y) == heard[<<x, y>>] # {}

\* A leaf has a route by a spine that has one.
Through(x, y) == Told(x, y) /\ \E z \in SwitchNames : Told(y, z)

\* Every path of a host subnet is that of a leaf that owns it, or that of a spine that has it from one.
Shortest ==
    \A x, y \in SwitchNames : \A p \in heard[<<x, y>>] :
        IF IsLeaf(fabric, y) THEN p = <<Asn(fabric, y)>>
        ELSE \E z \in Homes : p = <<Asn(fabric, y), Asn(fabric, z)>>

\* How far the acceptance is.
Progress ==
    /\ stage \in {"valid", "rendered"} => Validation(fabric) = {}
    /\ stage # "rendered" => check = "off"
    /\ flaps \in Nat
    /\ check = "off" => verdict = "none"
    /\ check # "off" => flaps = 0
    /\ verdict = "pass" => check = "over"
    /\ verdict # "pass" => event = "none"
    /\ event \in {"none", "B10", "pause", "B11", "over"}
    /\ event = "pause" => up = FabricLinks(fabric)

NoDeadEnd == \A x \in Leaves, y \in SwitchNames : Told(x, y) => \E z \in SwitchNames : Told(y, z)

TwoWaysOut ==
    \A x \in Leaves \ Homes : \E y, z \in SwitchNames : y # z /\ Through(x, y) /\ Through(x, z)

OneWayOut == \A x \in Leaves \ Homes : \E y \in SwitchNames : Through(x, y)

\* B06 has counted two ways out of each other leaf.
Counted == event = "none" /\ (verdict = "pass" \/ (check = "B07" /\ verdict = "none"))

\* Two ways out of every other leaf once they were counted, and one after a failure.
WaysOut ==
    /\ flaps = 0 /\ event = "none" => NoDeadEnd
    /\ Counted => TwoWaysOut
    /\ event # "none" => OneWayOut
    /\ event \in {"B10", "pause"} /\ Leaves \ Homes # {} => \E y, z \in SwitchNames \ Leaves : y # z

Surviving ==
    /\ Progress
    /\ stage = "rendered" /\ dest \in HostSubnets => Shortest /\ WaysOut

\* The names of the switches are the first of the names of the nodes.
LEMMA SwitchesFirst ==
    ASSUME NEW f \in FabricSpec, NEW k \in DOMAIN Switches(f)
    PROVE  k \in DOMAIN NodeNames(f) /\ NodeNames(f)[k] = Switches(f)[k].name
<1> DEFINE named == [i \in DOMAIN Switches(f) |-> Switches(f)[i].name]
           hosts == [i \in DOMAIN f.hosts |-> f.hosts[i].name]
<1>1. f.spines \in Seq(Switch) /\ f.leaves \in Seq(Switch) /\ f.hosts \in Seq([name : Names, leaf : Names])
    BY DEF FabricSpec
<1>2. Switches(f) \in Seq(Switch)
    <2>1. \A S : \A a, b \in Seq(S) : a \o b \in Seq(S)
        OBVIOUS
    <2> HIDE DEF Switch
    <2>2. f.spines \o f.leaves \in Seq(Switch)
        BY <1>1, <2>1
    <2> QED
        BY <2>2 DEF Switches
<1>3. named \in Seq(Names)
    <2>1. \A i \in DOMAIN Switches(f) : Switches(f)[i] \in Switch
        BY <1>2, ElementsOf
    <2>2. \A i \in DOMAIN Switches(f) : Switches(f)[i].name \in Names
        BY <2>1 DEF Switch
    <2>3. DOMAIN Switches(f) = 1 .. Len(Switches(f)) /\ Len(Switches(f)) \in Nat
        BY <1>2, ElementsOf
    <2> QED
        BY <2>2, <2>3
<1>4. hosts \in Seq(Names)
    <2>1. DOMAIN f.hosts = 1 .. Len(f.hosts) /\ Len(f.hosts) \in Nat
        BY <1>1, ElementsOf
    <2>2. \A i \in DOMAIN f.hosts : f.hosts[i] \in [name : Names, leaf : Names]
        BY <1>1, ElementsOf
    <2>3. \A i \in DOMAIN f.hosts : f.hosts[i].name \in Names
        BY <2>2
    <2> QED
        BY <2>1, <2>3
<1>5. NodeNames(f) = named \o hosts /\ k \in DOMAIN named /\ named[k] = Switches(f)[k].name
    BY DEF NodeNames
<1> HIDE DEF named, hosts
<1> QED
    BY <1>3, <1>4, <1>5, Prefixed

LEMMA ValidNumbers ==
    ASSUME NEW f \in FabricSpec, Validation(f) = {}, NEW k \in DOMAIN Switches(f)
    PROVE  Asn(f, Switches(f)[k].name) = Switches(f)[k].asn
<1>1. SpecErrors(f) = {}
    BY DEF Validation
<1>2. ~Repeats(NodeNames(f))
    <2>1. "names" \notin SpecErrors(f)
        BY <1>1
    <2> QED
        BY <2>1 DEF SpecErrors
<1>3. Ordinal(f, Switches(f)[k].name) = k
    BY <1>2, SwitchesFirst DEF Ordinal, Repeats, IsInjective
<1> QED
    BY <1>3 DEF Asn

\* The validator lets no two switches share an AS.
LEMMA AsnsApart ==
    ASSUME fabric \in FabricSpec, Validation(fabric) = {}, NEW x \in SwitchNames, NEW y \in SwitchNames, x # y
    PROVE  Asn(fabric, x) # Asn(fabric, y)
<1>1. PICK i \in DOMAIN Switches(fabric) : x = Switches(fabric)[i].name
    BY DEF SwitchNames
<1>2. PICK j \in DOMAIN Switches(fabric) : y = Switches(fabric)[j].name
    BY DEF SwitchNames
<1>3. SpecErrors(fabric) = {}
    BY DEF Validation
<1>4. ~Repeats([m \in DOMAIN Switches(fabric) |-> Switches(fabric)[m].asn])
    <2>1. "asns" \notin SpecErrors(fabric)
        BY <1>3
    <2> QED
        BY <2>1 DEF SpecErrors
<1>5. Switches(fabric)[i].asn # Switches(fabric)[j].asn
    BY <1>1, <1>2, <1>4 DEF Repeats, IsInjective
<1> QED
    BY <1>1, <1>2, <1>5, ValidNumbers

LEMMA HostNetworksFit ==
    ASSUME NEW f, NEW hn \in HostNetworks(f)
    PROVE  hn[1] \in LeafNames(f) /\ hn[2] # Foreign /\ \A i : hn[2] # Loopback(i)
<1>1. PICK l \in AccessLinks(f) : hn = <<l.a.node, <<l.a.address[1], l.a.address[2]>>>>
    BY DEF HostNetworks
<1>2. PICK n \in DOMAIN f.leaves : \E h \in HostOf(f, n) : l = AccessLink(f, n, h)
    BY <1>1 DEF AccessLinks
<1>3. l.a.address = Subnet(f, n) \o <<1>> /\ l.a.node = f.leaves[n].name
    BY <1>2 DEF AccessLink
<1>4. l.a.address[1] = "hosts"
    BY <1>3, FirstOfPair DEF Subnet
<1> QED
    BY <1>1, <1>3, <1>4 DEF Foreign, Loopback, LeafNames

\* A host subnet is a prefix of the fabric, and leaves alone own it.
LEMMA HostSubnetFacts ==
    ASSUME dest \in HostSubnets
    PROVE  /\ dest # Foreign /\ dest \in FabricPrefixes(fabric)
           /\ \A x \in Homes : IsLeaf(fabric, x)
<1>1. PICK hn \in HostNetworks(fabric) : dest = hn[2]
    BY DEF HostSubnets
<1>2. \A x : dest \in Originates(fabric, x) => IsLeaf(fabric, x)
    BY <1>1, HostNetworksFit DEF Originates, IsLeaf
<1> QED
    BY <1>1, <1>2, HostNetworksFit DEF FabricPrefixes, Homes

\* What the configurations say of a host subnet, whether or not B05 is at them.
LEMMA HostSubnetConfigs ==
    ASSUME dest \in HostSubnets, ConfigsFit, NEW x \in SwitchNames
    PROVE  /\ dest \in config[x].originates <=> x \in Homes
           /\ dest \in config[x].imports
           /\ dest \in config[x].exports <=> (x \in Homes \/ ~IsLeaf(fabric, x))
<1>1. Config(fabric, x).imports = FabricPrefixes(fabric)
      /\ Config(fabric, x).originates = Originates(fabric, x) /\ Config(fabric, x).exports = Exports(fabric, x)
    BY DEF Config, Imports
<1>2. dest \in Exports(fabric, x) <=> (x \in Homes \/ ~IsLeaf(fabric, x))
    BY HostSubnetFacts DEF Exports, Homes
<1>3. CASE config[x] = Config(fabric, x)
    BY <1>1, <1>2, <1>3, HostSubnetFacts DEF Homes
<1>4. CASE config[x] = WithForeign(Config(fabric, x))
    BY <1>1, <1>2, <1>4, HostSubnetFacts DEF WithForeign, Homes
<1> QED
    BY <1>3, <1>4 DEF ConfigsFit

LEMMA OwnersAreHomes ==
    ASSUME dest \in HostSubnets, ConfigsFit
    PROVE  Owners = Homes
<1> QED
    BY HostSubnetConfigs DEF Owners, Homes

-----------------------------------------------------------------------------
(* The routes of a host subnet. *)

LEMMA LengthOne == \A a : Len(<<a>>) = 1
    OBVIOUS
LEMMA LengthTwo == \A a, b : Len(<<a, b>>) = 2
    OBVIOUS
LEMMA SameElements ==
    ASSUME NEW S, NEW s \in Seq(S), NEW t \in Seq(S), Len(s) = Len(t), \A i \in 1 .. Len(s) : s[i] = t[i]
    PROVE  s = t
<1> QED
    OBVIOUS

LEMMA Joined ==
    ASSUME NEW a, NEW b
    PROVE  <<a>> \o <<>> = <<a>> /\ <<a>> \o <<b>> = <<a, b>>
<1> DEFINE S == {a, b}
           s == <<a>> \o <<b>>
           t == <<a, b>>
<1>1. <<a>> \in Seq(S) /\ <<b>> \in Seq(S) /\ <<>> \in Seq(S) /\ t \in Seq(S)
    OBVIOUS
<1> HIDE DEF S
<1>2. s \in Seq(S) /\ Len(s) = 2 /\ s[1] = a /\ s[2] = b
    BY <1>1
<1>3. Len(t) = 2 /\ t[1] = a /\ t[2] = b
    OBVIOUS
<1>4. s = t
    <2> HIDE DEF s, t
    <2> QED
        BY <1>1, <1>2, <1>3, SameElements
<1>5. <<a>> \o <<>> \in Seq(S) /\ Len(<<a>> \o <<>>) = 1 /\ (<<a>> \o <<>>)[1] = a
    BY <1>1
<1>6. Len(<<a>>) = 1 /\ <<a>>[1] = a
    OBVIOUS
<1> QED
    BY <1>1, <1>4, <1>5, <1>6, SameElements

\* What is heard is told, from a leaf or from a spine, and of equal length.
LEMMA HeardFacts ==
    ASSUME Rendered, Shortest, NEW x \in SwitchNames, NEW y \in SwitchNames, NEW p \in heard[<<x, y>>]
    PROVE  IF IsLeaf(fabric, y) THEN y \in Homes /\ ~IsLeaf(fabric, x) /\ p = <<Asn(fabric, y)>> /\ Len(p) = 1
           ELSE /\ IsLeaf(fabric, x) /\ Len(p) = 2
                /\ \E z \in Homes : p = <<Asn(fabric, y), Asn(fabric, z)>>
<1>1. /\ IsLeaf(fabric, x) # IsLeaf(fabric, y)
      /\ IsLeaf(fabric, y) => y \in Homes
    BY DEF Rendered, HeardAcross, Homes
<1>2. IF IsLeaf(fabric, y) THEN p = <<Asn(fabric, y)>>
      ELSE \E z \in Homes : p = <<Asn(fabric, y), Asn(fabric, z)>>
    BY DEF Shortest
<1> QED
    BY <1>1, <1>2, LengthOne, LengthTwo DEF IsLeaf

\* Every route of a switch that does not own the prefix is a best one.
LEMMA BestFacts ==
    ASSUME Rendered, Shortest, dest \in HostSubnets, NEW x \in SwitchNames
    PROVE  IF x \in Homes THEN Best(x) = {<<>>}
           ELSE Best(x) = UNION {heard[<<x, y>>] : y \in SwitchNames}
<1>1. ConfigsFit
    BY DEF Rendered
<1>2. CASE x \in Homes
    BY <1>1, <1>2, HostSubnetConfigs DEF Best
<1>3. CASE x \notin Homes
    <2> DEFINE paths == UNION {heard[<<x, y>>] : y \in SwitchNames}
    <2>1. Best(x) = {p \in paths : \A q \in paths : Len(p) <= Len(q)}
        BY <1>1, <1>3, HostSubnetConfigs DEF Best
    <2>2. \A p \in paths : Len(p) = (IF IsLeaf(fabric, x) THEN 2 ELSE 1)
        <3> TAKE p \in paths
        <3>1. PICK y \in SwitchNames : p \in heard[<<x, y>>]
            OBVIOUS
        <3>2. IF IsLeaf(fabric, y) THEN ~IsLeaf(fabric, x) /\ Len(p) = 1 ELSE IsLeaf(fabric, x) /\ Len(p) = 2
            BY <3>1, HeardFacts
        <3> QED
            BY <3>2
    <2> HIDE DEF paths
    <2>3. \A p, q \in paths : Len(p) <= Len(q)
        BY <2>2
    <2>4. Best(x) = paths
        BY <2>1, <2>3
    <2> QED
        BY <1>3, <2>4 DEF paths
<1> QED
    BY <1>2, <1>3

\* A spine takes what the leaf that owns the prefix tells it.
LEMMA SpineAccepts ==
    ASSUME Rendered, Shortest, dest \in HostSubnets, NEW y \in SwitchNames, NEW z \in Homes,
           NEW path \in Best(z)
    PROVE  Accepted(y, z, path) = {<<Asn(fabric, z)>>}
<1>1. z \in SwitchNames /\ path = <<>> /\ ConfigsFit
    BY BestFacts DEF Homes, Rendered
<1>2. config[z].as = Asn(fabric, z) /\ dest \in config[z].exports /\ dest \in config[y].imports
    BY <1>1, ConfigFacts, HostSubnetConfigs
<1>3. Range(<<>>) = {}
    BY DEF Range
<1> QED
    BY <1>1, <1>2, <1>3, Joined DEF Accepted

\* Any other leaf takes what a spine tells it.
LEMMA LeafAccepts ==
    ASSUME Rendered, Shortest, dest \in HostSubnets, fabric \in FabricSpec, Validation(fabric) = {},
           NEW x \in SwitchNames, IsLeaf(fabric, x), NEW y \in SwitchNames, ~IsLeaf(fabric, y),
           NEW path \in Best(y)
    PROVE  /\ \E z \in Homes : Told(y, z)
           /\ \E z \in Homes : Accepted(x, y, path) \subseteq {<<Asn(fabric, y), Asn(fabric, z)>>}
           /\ x \notin Homes => Accepted(x, y, path) # {}
<1>1. y \notin Homes /\ ConfigsFit
    BY HostSubnetFacts DEF Rendered
<1>2. PICK z \in SwitchNames : path \in heard[<<y, z>>]
    <2>1. Best(y) = UNION {heard[<<y, z>>] : z \in SwitchNames}
        BY <1>1, BestFacts
    <2> QED
        BY <2>1
<1>3. z \in Homes /\ path = <<Asn(fabric, z)>>
    BY <1>2, HeardFacts
<1>4. /\ config[y].as = Asn(fabric, y) /\ config[x].as = Asn(fabric, x)
      /\ dest \in config[y].exports /\ dest \in config[x].imports
    BY <1>1, ConfigFacts, HostSubnetConfigs
<1>5. Range(<<Asn(fabric, z)>>) = {Asn(fabric, z)}
    BY DEF Range
<1>6. x \notin Homes => Asn(fabric, x) # Asn(fabric, z)
    BY <1>3, AsnsApart DEF Homes
<1>7. <<config[y].as>> \o path = <<Asn(fabric, y), Asn(fabric, z)>>
    BY <1>3, <1>4, Joined
<1> QED
    BY <1>2, <1>3, <1>4, <1>5, <1>6, <1>7 DEF Accepted, Told

-----------------------------------------------------------------------------
(* The steps. *)

\* The routes of a host subnet are followed.
Followed == stage = "rendered" /\ dest \in HostSubnets

LEMMA FollowedFacts ==
    ASSUME IInv, Surviving, Followed
    PROVE  /\ Rendered /\ ConfigsFit /\ SidesApart(fabric)
           /\ fabric \in FabricSpec /\ Validation(fabric) = {}
           /\ Shortest /\ WaysOut
           /\ \A x \in Homes : x \in SwitchNames /\ IsLeaf(fabric, x)
<1>1. fabric \in FabricSpec
    BY UnderlayAssumption DEF IInv
<1>2. \A x \in Homes : x \in SwitchNames /\ IsLeaf(fabric, x)
    BY HostSubnetFacts DEF Homes, Followed
<1> QED
    BY <1>1, <1>2 DEF IInv, Rendered, Followed, Surviving, Progress

\* An update changes what one router has heard from one other.
LEMMA AdvertiseElse ==
    ASSUME IInv, NEW u \in SwitchNames, NEW v \in SwitchNames, Advertise(u, v)
    PROVE  \A x, y \in SwitchNames : x # u \/ y # v => heard'[<<x, y>>] = heard[<<x, y>>]
<1>1. PICK told : heard' = [heard EXCEPT ![<<u, v>>] = told]
    BY DEF Advertise
<1>2. DOMAIN heard = SwitchNames \X SwitchNames
    BY DEF IInv, Rendered, Advertise
<1> QED
    BY <1>1, <1>2

\* What an update leaves at u of what it was told by v: of a leaf its own prefix, of a spine paths through it.
TellsShortest(u, v) ==
    /\ IsLeaf(fabric, u) # IsLeaf(fabric, v)
    /\ IsLeaf(fabric, v) => heard'[<<u, v>>] = IF v \in Homes THEN {<<Asn(fabric, v)>>} ELSE {}
    /\ ~IsLeaf(fabric, v) =>
          /\ \A p \in heard'[<<u, v>>] : \E z \in Homes : p = <<Asn(fabric, v), Asn(fabric, z)>>
          /\ heard'[<<u, v>>] # {} => \E z \in Homes : Told(v, z)
          /\ u \notin Homes /\ (\E z \in SwitchNames : Told(v, z)) => heard'[<<u, v>>] # {}

LEMMA AdvertiseTells ==
    ASSUME IInv, Surviving, Followed, NEW u \in SwitchNames, NEW v \in SwitchNames, Advertise(u, v)
    PROVE  TellsShortest(u, v)
<1>1. /\ Rendered /\ ConfigsFit /\ SidesApart(fabric) /\ fabric \in FabricSpec /\ Validation(fabric) = {}
      /\ Shortest /\ \A x \in Homes : x \in SwitchNames /\ IsLeaf(fabric, x)
    BY FollowedFacts
<1>2. dest \in HostSubnets
    BY DEF Followed
<1>3. IsLeaf(fabric, u) # IsLeaf(fabric, v)
    BY <1>1, SessionsCross DEF Advertise, Rendered
<1>4. PICK told : /\ heard' = [heard EXCEPT ![<<u, v>>] = told]
                  /\ \/ \E path \in Best(v) : told = Accepted(u, v, path)
                     \/ Best(v) = {} /\ told = {}
    BY DEF Advertise
<1>5. DOMAIN heard = SwitchNames \X SwitchNames
    BY <1>1 DEF Rendered
<1>6. heard'[<<u, v>>] = told
    BY <1>4, <1>5
<1>7. ASSUME IsLeaf(fabric, v)
      PROVE  told = IF v \in Homes THEN {<<Asn(fabric, v)>>} ELSE {}
    <2>1. CASE v \in Homes
        <3>1. Best(v) = {<<>>}
            BY <1>1, <1>2, <2>1, BestFacts
        <3>2. PICK path \in Best(v) : told = Accepted(u, v, path)
            BY <1>4, <3>1
        <3> QED
            BY <1>1, <1>2, <2>1, <3>2, SpineAccepts
    <2>2. CASE v \notin Homes
        <3>1. dest \notin config[v].exports
            BY <1>1, <1>2, <1>7, <2>2, HostSubnetConfigs
        <3> QED
            BY <1>4, <2>2, <3>1 DEF Accepted
    <2> QED
        BY <2>1, <2>2
<1>8. ASSUME ~IsLeaf(fabric, v)
      PROVE  /\ \A p \in told : \E z \in Homes : p = <<Asn(fabric, v), Asn(fabric, z)>>
             /\ told # {} => \E z \in Homes : Told(v, z)
             /\ u \notin Homes /\ (\E z \in SwitchNames : Told(v, z)) => told # {}
    <2>1. IsLeaf(fabric, u)
        BY <1>3, <1>8 DEF IsLeaf
    <2>2. ASSUME NEW path \in Best(v), told = Accepted(u, v, path)
          PROVE  /\ \E z \in Homes : Told(v, z)
                 /\ \E z \in Homes : told \subseteq {<<Asn(fabric, v), Asn(fabric, z)>>}
                 /\ u \notin Homes => told # {}
        BY <1>1, <1>2, <1>8, <2>1, <2>2, LeafAccepts
    <2>3. CASE \E path \in Best(v) : told = Accepted(u, v, path)
        <3>1. PICK path \in Best(v) : told = Accepted(u, v, path)
            BY <2>3
        <3> QED
            BY <3>1, <2>2
    <2>4. CASE Best(v) = {} /\ told = {}
        <3>1. v \notin Homes
            BY <1>1, <1>8
        <3>2. Best(v) = UNION {heard[<<v, z>>] : z \in SwitchNames}
            BY <1>1, <1>2, <3>1, BestFacts
        <3>3. \A z \in SwitchNames : ~Told(v, z)
            BY <2>4, <3>2 DEF Told
        <3> QED
            BY <2>4, <3>3
    <2> QED
        BY <1>4, <2>3, <2>4
<1> QED
    BY <1>3, <1>6, <1>7, <1>8 DEF TellsShortest

\* No update takes away a route by which a leaf arrives.
LEMMA UpdatesKeep ==
    ASSUME IInv, Surviving, Followed, NEW u \in SwitchNames, NEW v \in SwitchNames, Advertise(u, v),
           NEW x \in Leaves \ Homes, NEW y \in SwitchNames, Through(x, y)
    PROVE  heard'[<<x, y>>] # {} /\ \E z \in SwitchNames : heard'[<<y, z>>] # {}
<1>1. Rendered /\ HeardAcross /\ \A z \in Homes : z \in SwitchNames /\ IsLeaf(fabric, z)
    BY FollowedFacts DEF Rendered
<1>2. x \in SwitchNames /\ IsLeaf(fabric, x) /\ x \notin Homes
    BY DEF Leaves
<1>3. ~IsLeaf(fabric, y)
    BY <1>1, <1>2 DEF HeardAcross, Through, Told, IsLeaf
<1>4. PICK z \in SwitchNames : Told(y, z)
    BY DEF Through
<1>5. IsLeaf(fabric, z) /\ z \in Homes
    BY <1>1, <1>3, <1>4 DEF HeardAcross, Told, Homes, IsLeaf
<1>6. \A a, b \in SwitchNames : a # u \/ b # v => heard'[<<a, b>>] = heard[<<a, b>>]
    BY AdvertiseElse
<1>t. TellsShortest(u, v)
    BY AdvertiseTells
<1>7. heard'[<<y, z>>] # {}
    <2>1. CASE u = y /\ v = z
        <3>1. heard'[<<y, z>>] = {<<Asn(fabric, z)>>}
            BY <1>5, <1>t, <2>1 DEF TellsShortest
        <3> QED
            BY <3>1
    <2>2. CASE u # y \/ v # z
        BY <1>4, <1>6, <2>2 DEF Told
    <2> QED
        BY <2>1, <2>2
<1>8. heard'[<<x, y>>] # {}
    <2>1. CASE u = x /\ v = y
        <3>1. u \notin Homes /\ (\E w \in SwitchNames : Told(v, w)) => heard'[<<u, v>>] # {}
            BY <1>3, <1>t, <2>1 DEF TellsShortest
        <3> QED
            BY <1>2, <1>4, <2>1, <3>1
    <2>2. CASE u # x \/ v # y
        BY <1>2, <1>6, <2>2 DEF Told, Through
    <2> QED
        BY <2>1, <2>2
<1> QED
    BY <1>7, <1>8

LEMMA Unmoved ==
    ASSUME UNCHANGED <<fabric, dest>>
    PROVE  SwitchNames' = SwitchNames /\ Leaves' = Leaves /\ Homes' = Homes /\ HostSubnets' = HostSubnets
<1>1. SwitchNames' = SwitchNames
    BY DEF SwitchNames
<1> QED
    BY <1>1 DEF Leaves, Homes, HostSubnets

\* A step that leaves the progress of the acceptance alone.
LEMMA NoProgress ==
    ASSUME Progress, UNCHANGED <<fabric, stage, up, flaps, avars>>
    PROVE  Progress'
<1> QED
    BY DEF Progress, avars

LEMMA AdvertiseSurvives ==
    ASSUME IInv, Surviving, NEW u \in SwitchNames, NEW v \in SwitchNames, Advertise(u, v), UNCHANGED avars
    PROVE  Surviving'
<1>1. UNCHANGED <<fabric, stage, dest, up, flaps, check, verdict, event>>
    BY DEF Advertise, avars
<1>2. Progress'
    BY <1>1, NoProgress DEF Surviving, avars
<1>3. SUFFICES ASSUME Followed PROVE Shortest' /\ WaysOut'
    BY <1>1, <1>2, Unmoved DEF Surviving, Followed
<1>4. Shortest /\ WaysOut /\ \A z \in Homes : z \in SwitchNames /\ IsLeaf(fabric, z)
    BY <1>3, FollowedFacts
<1>5. \A x, y \in SwitchNames : x # u \/ y # v => heard'[<<x, y>>] = heard[<<x, y>>]
    BY AdvertiseElse
<1>t. TellsShortest(u, v)
    BY <1>3, AdvertiseTells
<1>6. ASSUME NEW x \in SwitchNames, NEW y \in SwitchNames, NEW p \in heard'[<<x, y>>]
      PROVE  IF IsLeaf(fabric, y) THEN p = <<Asn(fabric, y)>>
             ELSE \E z \in Homes : p = <<Asn(fabric, y), Asn(fabric, z)>>
    <2>1. CASE x = u /\ y = v
        <3>1. CASE IsLeaf(fabric, v)
            <4>1. heard'[<<u, v>>] = IF v \in Homes THEN {<<Asn(fabric, v)>>} ELSE {}
                BY <1>t, <3>1 DEF TellsShortest
            <4> QED
                BY <1>6, <2>1, <3>1, <4>1
        <3>2. CASE ~IsLeaf(fabric, v)
            <4>1. \A q \in heard'[<<u, v>>] : \E z \in Homes : q = <<Asn(fabric, v), Asn(fabric, z)>>
                BY <1>t, <3>2 DEF TellsShortest
            <4> QED
                BY <1>6, <2>1, <3>2, <4>1
        <3> QED
            BY <3>1, <3>2
    <2>2. CASE x # u \/ y # v
        BY <1>4, <1>5, <1>6, <2>2 DEF Shortest
    <2> QED
        BY <2>1, <2>2
<1>7. Shortest'
    BY <1>1, <1>6, Unmoved DEF Shortest
<1>8. ASSUME NEW x \in Leaves \ Homes, NEW y \in SwitchNames, Through(x, y)
      PROVE  Through(x, y)'
    <2>1. heard'[<<x, y>>] # {} /\ \E z \in SwitchNames : heard'[<<y, z>>] # {}
        BY <1>3, <1>8, UpdatesKeep
    <2> QED
        BY <1>1, <2>1, Unmoved DEF Through, Told
<1>9. TwoWaysOut => TwoWaysOut'
    BY <1>1, <1>8, Unmoved DEF TwoWaysOut
<1>10. OneWayOut => OneWayOut'
    BY <1>1, <1>8, Unmoved DEF OneWayOut
<1>11. ASSUME NoDeadEnd, NEW x \in Leaves, NEW y \in SwitchNames, heard'[<<x, y>>] # {}
       PROVE  \E z \in SwitchNames : heard'[<<y, z>>] # {}
    <2>1. x \in SwitchNames /\ IsLeaf(fabric, x)
        BY DEF Leaves
    <2>2. CASE x \notin Homes /\ Told(x, y)
        <3>1. Through(x, y)
            BY <1>11, <2>2 DEF NoDeadEnd, Through
        <3> QED
            BY <1>3, <2>2, <3>1, UpdatesKeep
    <2>3. CASE x = u /\ y = v
        <3>1. ~IsLeaf(fabric, v)
            BY <1>t, <2>1, <2>3 DEF TellsShortest, IsLeaf
        <3>2. PICK z \in Homes : Told(v, z)
            BY <1>t, <1>11, <2>3, <3>1 DEF TellsShortest
        <3>3. z \in SwitchNames /\ v # u /\ Told(y, z)
            BY <1>4, <2>1, <2>3, <3>1, <3>2
        <3> QED
            BY <1>5, <2>3, <3>3 DEF Told
    <2>4. CASE x \in Homes /\ (x # u \/ y # v)
        <3>1. Told(x, y)
            BY <1>5, <1>11, <2>1, <2>4 DEF Told
        <3>2. PICK z \in SwitchNames : Told(y, z)
            BY <1>11, <3>1 DEF NoDeadEnd
        <3>3. CASE u # y \/ v # z
            BY <1>5, <3>2, <3>3 DEF Told
        <3>4. CASE u = y /\ v = z
            <4>1. ~IsLeaf(fabric, y) /\ IsLeaf(fabric, z) /\ z \in Homes
                BY <1>3, <2>1, <3>1, <3>2, FollowedFacts DEF Rendered, HeardAcross, Told, Homes, IsLeaf
            <4>2. heard'[<<y, z>>] = {<<Asn(fabric, z)>>}
                BY <1>t, <3>4, <4>1 DEF TellsShortest
            <4> QED
                BY <4>2
        <3> QED
            BY <3>3, <3>4
    <2>5. Told(x, y) \/ (x = u /\ y = v)
        BY <1>5, <1>11, <2>1 DEF Told
    <2> QED
        BY <2>2, <2>3, <2>4, <2>5
<1>12. NoDeadEnd => NoDeadEnd'
    BY <1>1, <1>11, Unmoved DEF NoDeadEnd, Told
<1>13. WaysOut'
    BY <1>1, <1>4, <1>9, <1>10, <1>12, Unmoved DEF WaysOut, Counted
<1> QED
    BY <1>7, <1>13

LEMMA FromEither ==
    ASSUME NEW f \in FabricSpec, NEW k \in DOMAIN Switches(f)
    PROVE  \/ \E s \in DOMAIN f.spines : Switches(f)[k] = f.spines[s]
           \/ \E n \in DOMAIN f.leaves : Switches(f)[k] = f.leaves[n]
<1> DEFINE a == f.spines
           b == f.leaves
<1>1. a \in Seq(Switch) /\ b \in Seq(Switch)
    BY DEF FabricSpec
<1>2. Switches(f) = a \o b /\ k \in DOMAIN (a \o b)
    BY DEF Switches
<1> HIDE DEF a, b
<1>3. k \in 1 .. Len(a) + Len(b) /\ Len(a) \in Nat /\ Len(b) \in Nat
    BY <1>1, <1>2
<1>4. CASE k <= Len(a)
    <2>1. k \in DOMAIN a /\ (a \o b)[k] = a[k]
        BY <1>1, <1>3, <1>4
    <2> QED
        BY <1>2, <2>1 DEF a
<1>5. CASE k > Len(a)
    <2>1. k - Len(a) \in DOMAIN b /\ (a \o b)[k] = b[k - Len(a)]
        BY <1>1, <1>3, <1>5
    <2> QED
        BY <1>2, <2>1 DEF b
<1> QED
    BY <1>3, <1>4, <1>5

LEMMA ConfigEnds ==
    ASSUME ConfigsFit, NEW x \in SwitchNames
    PROVE  config[x].addresses = Addresses(fabric, x) /\ config[x].neighbors = Neighbors(fabric, x)
<1>1. Config(fabric, x).addresses = Addresses(fabric, x) /\ Config(fabric, x).neighbors = Neighbors(fabric, x)
    BY DEF Config
<1>2. CASE config[x] = Config(fabric, x)
    BY <1>1, <1>2
<1>3. CASE config[x] = WithForeign(Config(fabric, x))
    BY <1>1, <1>3 DEF WithForeign
<1> QED
    BY <1>2, <1>3 DEF ConfigsFit

\* Any two switches of different kinds have a session when all links are up.
LEMMA AllInSession ==
    ASSUME Rendered, fabric \in FabricSpec, SidesApart(fabric), up = FabricLinks(fabric),
           NEW x \in Leaves, NEW y \in SwitchNames \ Leaves
    PROVE  Session(x, y) /\ Session(y, x)
<1>1. PICK n \in DOMAIN fabric.leaves : x = fabric.leaves[n].name
    BY DEF Leaves, IsLeaf, LeafNames
<1>2. PICK s \in DOMAIN fabric.spines : y = fabric.spines[s].name
    <2>1. PICK k \in DOMAIN Switches(fabric) : y = Switches(fabric)[k].name
        BY DEF SwitchNames
    <2>2. ~IsLeaf(fabric, y)
        BY DEF Leaves
    <2> QED
        BY <2>1, <2>2, FromEither DEF IsLeaf, LeafNames
<1> DEFINE l == FabricLink(fabric, n, s)
<1>3. l \in FabricLinks(fabric) /\ l.a.node = x /\ l.b.node = y /\ l \in Links(fabric)
    <2>1. l.a.node = x /\ l.b.node = y
        BY <1>1, <1>2 DEF FabricLink
    <2>2. l \in FabricLinks(fabric)
        BY DEF FabricLinks
    <2> QED
        BY <2>1, <2>2 DEF Links
<1> HIDE DEF l
<1>4. l \in up /\ l.a \in Ends(l) /\ l.b \in Ends(l) /\ l.a # l.b
    BY <1>3 DEF Ends, Leaves, IsLeaf
<1>5. x \in SwitchNames /\ y \in SwitchNames
    BY DEF Leaves
<1>6. <<l.a.port, l.a.address>> \in config[x].addresses /\ <<l.b.port, l.b.address>> \in config[y].addresses
    <2>1. l.a \in UNION {Ends(k) : k \in Links(fabric)} /\ l.b \in UNION {Ends(k) : k \in Links(fabric)}
        BY <1>3, <1>4
    <2>2. <<l.a.port, l.a.address>> \in Addresses(fabric, x) /\ <<l.b.port, l.b.address>> \in Addresses(fabric, y)
        BY <1>3, <2>1 DEF Addresses
    <2> QED
        BY <1>5, <2>2, ConfigEnds DEF Rendered
<1>7. /\ <<l.b.address, config[y].as>> \in config[x].neighbors
      /\ <<l.a.address, config[x].as>> \in config[y].neighbors
    <2>1. <<l.b.address, Asn(fabric, y)>> \in Neighbors(fabric, x)
          /\ <<l.a.address, Asn(fabric, x)>> \in Neighbors(fabric, y)
        BY <1>3 DEF Neighbors
    <2> QED
        BY <1>5, <2>1, ConfigEnds, ConfigFacts DEF Rendered
<1> QED
    BY <1>3, <1>4, <1>6, <1>7 DEF Session

\* When nothing is left to be said and all links are up, every leaf arrives through every spine.
LEMMA ConvergedThrough ==
    ASSUME IInv, Surviving, Followed, up = FabricLinks(fabric), Converged, Homes # {},
           NEW x \in Leaves \ Homes, NEW y \in SwitchNames \ Leaves
    PROVE  Through(x, y)
<1>1. /\ Rendered /\ SidesApart(fabric) /\ fabric \in FabricSpec /\ Validation(fabric) = {}
      /\ Shortest /\ \A z \in Homes : z \in SwitchNames /\ IsLeaf(fabric, z)
    BY FollowedFacts
<1>2. dest \in HostSubnets
    BY DEF Followed
<1>3. x \in SwitchNames /\ IsLeaf(fabric, x) /\ y \in SwitchNames /\ ~IsLeaf(fabric, y)
    BY DEF Leaves
<1>4. PICK z \in Homes : TRUE
    OBVIOUS
<1>5. z \in Leaves /\ z \in SwitchNames
    BY <1>1 DEF Leaves
<1>6. Told(y, z)
    <2>1. Session(y, z)
        BY <1>1, <1>5, AllInSession
    <2>2. Best(z) = {<<>>}
        BY <1>1, <1>2, <1>5, BestFacts
    <2>3. heard[<<y, z>>] = Accepted(y, z, <<>>)
        BY <1>3, <1>5, <2>1, <2>2 DEF Converged
    <2>4. heard[<<y, z>>] = {<<Asn(fabric, z)>>}
        BY <1>1, <1>2, <1>3, <2>2, <2>3, SpineAccepts
    <2> QED
        BY <2>4 DEF Told
<1>7. Told(x, y)
    <2>1. Session(x, y)
        BY <1>1, AllInSession
    <2>2. Best(y) = UNION {heard[<<y, w>>] : w \in SwitchNames}
        BY <1>1, <1>2, <1>3, BestFacts
    <2>3. Best(y) # {}
        BY <1>5, <1>6, <2>2 DEF Told
    <2>4. PICK path \in Best(y) : heard[<<x, y>>] = Accepted(x, y, path)
        BY <1>3, <2>1, <2>3 DEF Converged
    <2>5. Accepted(x, y, path) # {}
        BY <1>1, <1>2, <1>3, LeafAccepts
    <2> QED
        BY <2>4, <2>5 DEF Told
<1> QED
    BY <1>5, <1>6, <1>7 DEF Through

\* The routes that do not cross the spine at which links fail are still there.
LEMMA FailKeeps ==
    ASSUME IInv, Surviving, Followed, NEW links \in SUBSET FabricLinks(fabric), Fail(links),
           NEW s, \A l \in links : l.b.node = s,
           NEW x \in Leaves \ Homes, NEW y \in SwitchNames, Through(x, y), y # s
    PROVE  Through(x, y)'
<1>1. Rendered /\ HeardAcross /\ SidesApart(fabric)
    BY FollowedFacts DEF Rendered
<1>2. x \in SwitchNames /\ IsLeaf(fabric, x)
    BY DEF Leaves
<1>3. ~IsLeaf(fabric, y)
    BY <1>1, <1>2 DEF HeardAcross, Through, Told, IsLeaf
<1>4. \A l \in links : {e.node : e \in Ends(l)} = {l.a.node, s} /\ l.a.node # y
    BY <1>1, <1>3, LinksCross DEF Ends, IsLeaf
<1>5. \A l \in links : \A z : {x, y} # {e.node : e \in Ends(l)} /\ {y, z} # {e.node : e \in Ends(l)}
    BY <1>4
<1>6. \A p \in SwitchNames \X SwitchNames :
          (\A l \in links : {p[1], p[2]} # {e.node : e \in Ends(l)}) => heard'[p] = heard[p]
    BY <1>1 DEF Fail, Cut, Rendered
<1>7. heard'[<<x, y>>] = heard[<<x, y>>] /\ \A z \in SwitchNames : heard'[<<y, z>>] = heard[<<y, z>>]
    BY <1>2, <1>5, <1>6
<1> QED
    BY <1>2, <1>7, Unmoved DEF Through, Told, Fail

LEMMA CutShortens ==
    ASSUME Rendered, Shortest, NEW links, heard' = Cut(links), UNCHANGED <<fabric, dest>>
    PROVE  Shortest'
<1>1. \A x, y \in SwitchNames : heard'[<<x, y>>] \subseteq heard[<<x, y>>]
    BY CutForgets
<1> QED
    BY <1>1, Unmoved DEF Shortest

\* A way out of each leaf survives a failure when there were two, through different spines.
LEMMA LinkDownSurvives ==
    ASSUME IInv, Surviving, LinkDown
    PROVE  Surviving'
<1>1. /\ UNCHANGED <<fabric, stage, dest, flaps, check, verdict>>
      /\ verdict = "pass" /\ event = "none" /\ event' = "B10" /\ stage = "rendered"
    BY DEF LinkDown, Fail
<1>2. Progress'
    BY <1>1 DEF Surviving, Progress
<1>3. SUFFICES ASSUME Followed PROVE Shortest' /\ WaysOut'
    BY <1>1, <1>2, Unmoved DEF Surviving, Followed
<1>4. Rendered /\ HeardAcross /\ Shortest /\ WaysOut
    BY <1>3, FollowedFacts DEF Rendered
<1>5. PICK l \in FabricLinks(fabric) : Fail({l})
    BY DEF LinkDown
<1>6. Shortest'
    BY <1>1, <1>4, <1>5, CutShortens DEF Fail
<1>7. ASSUME NEW x \in Leaves \ Homes
      PROVE  /\ \E y \in SwitchNames : Through(x, y)'
             /\ \E y, z \in SwitchNames \ Leaves : y # z
    <2>1. PICK y \in SwitchNames, z \in SwitchNames : y # z /\ Through(x, y) /\ Through(x, z)
        BY <1>1, <1>4 DEF WaysOut, Counted, TwoWaysOut
    <2>2. y # l.b.node => Through(x, y)'
        BY <1>3, <1>5, <2>1, FailKeeps
    <2>3. z # l.b.node => Through(x, z)'
        BY <1>3, <1>5, <2>1, FailKeeps
    <2>4. y \notin Leaves /\ z \notin Leaves
        BY <1>4, <2>1 DEF HeardAcross, Through, Told, IsLeaf, Leaves
    <2> QED
        BY <2>1, <2>2, <2>3, <2>4
<1>8. OneWayOut' /\ (Leaves \ Homes # {} => \E y, z \in SwitchNames \ Leaves : y # z)'
    BY <1>1, <1>7, Unmoved DEF OneWayOut
<1>9. WaysOut'
    BY <1>1, <1>8 DEF WaysOut, Counted
<1> QED
    BY <1>6, <1>9

LEMMA SpineDownSurvives ==
    ASSUME IInv, Surviving, SpineDown
    PROVE  Surviving'
<1>1. /\ UNCHANGED <<fabric, stage, dest, flaps, check, verdict>>
      /\ event = "pause" /\ event' = "B11" /\ stage = "rendered" /\ Converged
    BY DEF SpineDown, Fail
<1>2. Progress'
    BY <1>1 DEF Surviving, Progress
<1>3. SUFFICES ASSUME Followed PROVE Shortest' /\ WaysOut'
    BY <1>1, <1>2, Unmoved DEF Surviving, Followed
<1>4. Rendered /\ HeardAcross /\ Shortest /\ WaysOut /\ up = FabricLinks(fabric)
    BY <1>1, <1>3, FollowedFacts DEF Rendered, Surviving, Progress
<1>5. PICK s \in SwitchNames \ Leaves : Fail({l \in FabricLinks(fabric) : l.b.node = s})
    BY DEF SpineDown
<1>6. Shortest'
    BY <1>1, <1>4, <1>5, CutShortens DEF Fail
<1>7. ASSUME NEW x \in Leaves \ Homes
      PROVE  \E y \in SwitchNames : Through(x, y)'
    <2>1. PICK y \in SwitchNames \ Leaves, z \in SwitchNames \ Leaves : y # z
        BY <1>1, <1>4, <1>7 DEF WaysOut
    <2>2. Homes # {}
        <3>1. PICK v \in SwitchNames, w \in SwitchNames : Told(x, v) /\ Told(v, w)
            BY <1>1, <1>4 DEF WaysOut, OneWayOut, Through
        <3>2. ~IsLeaf(fabric, v)
            BY <1>4, <3>1 DEF HeardAcross, Told, Leaves, IsLeaf
        <3> QED
            BY <1>4, <3>1, <3>2 DEF HeardAcross, Told, Homes, IsLeaf
    <2>3. PICK v \in SwitchNames \ Leaves : v # s
        BY <2>1
    <2>4. Through(x, v)
        BY <1>1, <1>3, <1>4, <2>2, ConvergedThrough
    <2> QED
        BY <1>3, <1>5, <2>3, <2>4, FailKeeps
<1>8. OneWayOut'
    BY <1>1, <1>7, Unmoved DEF OneWayOut
<1>9. WaysOut'
    BY <1>1, <1>8 DEF WaysOut, Counted
<1> QED
    BY <1>6, <1>9

\* Nothing that was heard is forgotten.
LEMMA SameWaysOut ==
    ASSUME UNCHANGED <<fabric, dest, heard>>
    PROVE  /\ Shortest => Shortest'
           /\ NoDeadEnd => NoDeadEnd'
           /\ TwoWaysOut => TwoWaysOut'
           /\ OneWayOut => OneWayOut'
<1>1. \A x, y : Told(x, y)' <=> Told(x, y)
    BY DEF Told
<1>2. \A x, y : Through(x, y)' <=> Through(x, y)
    BY <1>1, Unmoved DEF Through
<1> QED
    BY <1>1, <1>2, Unmoved DEF Shortest, NoDeadEnd, TwoWaysOut, OneWayOut

LEMMA RestoreSurvives ==
    ASSUME IInv, Surviving, Restore
    PROVE  Surviving'
<1>1. /\ UNCHANGED <<fabric, stage, dest, heard, flaps, check, verdict>>
      /\ event \in {"B10", "B11"} /\ event' = (IF event = "B10" THEN "pause" ELSE "over")
      /\ up' = FabricLinks(fabric)
    BY DEF Restore
<1>2. Progress'
    BY <1>1 DEF Surviving, Progress
<1>3. SUFFICES ASSUME Followed PROVE Shortest' /\ WaysOut'
    BY <1>1, <1>2, Unmoved DEF Surviving, Followed
<1>4. Shortest /\ WaysOut
    BY <1>3, FollowedFacts
<1> QED
    BY <1>1, <1>4, SameWaysOut, Unmoved DEF WaysOut, Counted

\* A check reads the routes, and the two next hops that B06 counts are two ways out.
LEMMA CheckSurvives ==
    ASSUME Surviving, UNCHANGED <<fabric, stage, dest, up, heard, flaps, event>>, Progress',
           Followed /\ Counted' => TwoWaysOut
    PROVE  Surviving'
<1>1. SUFFICES ASSUME Followed PROVE Shortest' /\ WaysOut'
    BY Unmoved DEF Surviving, Followed
<1>2. Shortest /\ WaysOut
    BY <1>1 DEF Surviving, Followed
<1>3. Shortest' /\ (NoDeadEnd => NoDeadEnd') /\ (TwoWaysOut => TwoWaysOut') /\ (OneWayOut => OneWayOut')
    BY <1>2, SameWaysOut
<1> QED
    BY <1>1, <1>2, <1>3, Unmoved DEF WaysOut

LEMMA TwoElements ==
    ASSUME NEW S, IsFiniteSet(S), Cardinality(S) = 2
    PROVE  \E y, z \in S : y # z
<1>1. SUFFICES ASSUME \A y, z \in S : y = z PROVE FALSE
    OBVIOUS
<1>2. CASE S = {}
    BY <1>2, FS_EmptySet
<1>3. CASE S # {}
    <2>1. PICK y \in S : S = {y}
        BY <1>1, <1>3
    <2> QED
        BY <2>1, FS_Singleton
<1> QED
    BY <1>2, <1>3

LEMMA FinitelyMany ==
    ASSUME fabric \in FabricSpec
    PROVE  IsFiniteSet(SwitchNames)
<1> DEFINE a == fabric.spines
           b == fabric.leaves
           n == Len(a \o b)
           named == [i \in 1 .. n |-> (a \o b)[i].name]
<1>1. a \in Seq(Switch) /\ b \in Seq(Switch) /\ Switches(fabric) = a \o b
    BY DEF FabricSpec, Switches
<1> HIDE DEF a, b
<1>2. n \in Nat /\ DOMAIN (a \o b) = 1 .. n
    BY <1>1
<1>3. SwitchNames = {named[i] : i \in 1 .. n}
    BY <1>1, <1>2 DEF SwitchNames
<1>4. IsFiniteSet(1 .. n)
    BY <1>2, FS_Interval
<1> HIDE DEF n
<1>5. named \in [1 .. n -> SwitchNames]
    BY <1>1, <1>2 DEF SwitchNames
<1>6. named \in Surjection(1 .. n, SwitchNames)
    BY <1>3, <1>5 DEF Surjection
<1> QED
    BY <1>4, <1>6, FS_Surjection

\* Two next hops are two ways out, once they have something to say.
LEMMA CountedTwo ==
    ASSUME IInv, Surviving, Followed, NoDeadEnd, TwoNextHops
    PROVE  TwoWaysOut
<1>1. ConfigsFit /\ Homes = Owners /\ fabric \in FabricSpec
    BY FollowedFacts, OwnersAreHomes DEF Followed
<1> SUFFICES ASSUME NEW x \in Leaves \ Homes
             PROVE  \E y, z \in SwitchNames : y # z /\ Through(x, y) /\ Through(x, z)
    BY DEF TwoWaysOut
<1>2. Cardinality(NextHops(x)) = 2
    BY <1>1 DEF TwoNextHops, Followed
<1>3. NextHops(x) \subseteq SwitchNames /\ \A y \in NextHops(x) : Told(x, y)
    BY DEF NextHops, Told
<1>4. IsFiniteSet(NextHops(x))
    BY <1>1, <1>3, FinitelyMany, FS_Subset
<1>5. PICK y \in NextHops(x), z \in NextHops(x) : y # z
    BY <1>2, <1>4, TwoElements
<1>6. Through(x, y) /\ Through(x, z)
    BY <1>3 DEF NoDeadEnd, Through
<1> QED
    BY <1>3, <1>5, <1>6

LEMMA CheckingSurvives ==
    ASSUME IInv, Surviving, Checking
    PROVE  Surviving'
<1>1. stage = "rendered" /\ Progress /\ (Followed => WaysOut /\ Rendered /\ ConfigsFit)
    BY FollowedFacts DEF Checking, Surviving
<1>2. CASE StartCheck
    <2>1. Progress' /\ ~Counted'
        BY <1>1, <1>2 DEF StartCheck, Progress, Counted, uvars
    <2> QED
        BY <1>2, <2>1, CheckSurvives DEF StartCheck, uvars
<1>3. CASE WaitConverged
    <2>1. Progress' /\ ~Counted'
        BY <1>1, <1>3 DEF WaitConverged, Progress, Counted, uvars
    <2> QED
        BY <1>3, <2>1, CheckSurvives DEF WaitConverged, uvars
<1>4. CASE CheckB03
    <2>1. Progress' /\ ~Counted'
        BY <1>1, <1>4 DEF CheckB03, Passes, Progress, Counted, uvars
    <2> QED
        BY <1>4, <2>1, CheckSurvives DEF CheckB03, Passes, uvars
<1>5. CASE CheckB04
    <2>1. Progress' /\ ~Counted'
        BY <1>1, <1>5 DEF CheckB04, Passes, Progress, Counted, uvars
    <2> QED
        BY <1>5, <2>1, CheckSurvives DEF CheckB04, Passes, uvars
<1>6. CASE InjectForeign
    <2>1. Progress' /\ ~Counted'
        BY <1>1, <1>6 DEF InjectForeign, Passes, Progress, Counted
    <2> QED
        BY <1>6, <2>1, CheckSurvives DEF InjectForeign, Passes
<1>7. CASE CheckB05
    <2>1. Progress' /\ ~Counted'
        BY <1>1, <1>7 DEF CheckB05, Passes, Progress, Counted
    <2>2. UNCHANGED <<fabric, stage, dest, up, heard, flaps, event>>
        BY <1>7 DEF CheckB05, Passes
    <2> QED
        BY <2>1, <2>2, CheckSurvives
<1>8. CASE CheckB06
    <2>1. Progress' /\ (Counted' => TwoNextHops) /\ event = "none" /\ flaps = 0
        BY <1>1, <1>8 DEF CheckB06, Passes, Progress, Counted, uvars
    <2>2. Followed /\ Counted' => TwoWaysOut
        BY <1>1, <2>1, CountedTwo DEF WaysOut
    <2> QED
        BY <1>8, <2>1, <2>2, CheckSurvives DEF CheckB06, Passes, uvars
<1>9. CASE CheckB07
    <2>1. Progress' /\ (Counted' => Counted)
        BY <1>1, <1>9 DEF CheckB07, Progress, Counted, uvars
    <2> QED
        BY <1>1, <1>9, <2>1, CheckSurvives DEF CheckB07, uvars, WaysOut
<1>10. CASE CheckDies
    <2>1. Progress' /\ (Counted' => Counted)
        BY <1>1, <1>10 DEF CheckDies, Progress, Counted, uvars
    <2> QED
        BY <1>1, <1>10, <2>1, CheckSurvives DEF CheckDies, uvars, WaysOut
<1> QED
    BY <1>2, <1>3, <1>4, <1>5, <1>6, <1>7, <1>8, <1>9, <1>10, LinkDownSurvives, SpineDownSurvives,
       RestoreSurvives DEF Checking

LEMMA UnderlaySurvives ==
    ASSUME IInv, Surviving, UnderlayNext, flaps' = flaps \/ check = "off", UNCHANGED avars
    PROVE  Surviving'
<1>1. Progress
    BY DEF Surviving
<1>2. CASE Validate
    <2>1. stage' # "rendered" /\ Progress'
        BY <1>1, <1>2 DEF Validate, Progress, avars
    <2> QED
        BY <2>1 DEF Surviving
<1>3. CASE Render
    <2>1. Progress'
        BY <1>1, <1>3 DEF Render, Progress, avars
    <2>2. fabric' = fabric /\ verdict' = "none" /\ event' = "none" /\ check' = "off"
          /\ heard' = [p \in SwitchNames \X SwitchNames |-> {}]
        BY <1>1, <1>3 DEF Render, Progress, avars
    <2>3. SwitchNames' = SwitchNames
        BY <2>2 DEF SwitchNames
    <2>4. \A x, y \in SwitchNames' : heard'[<<x, y>>] = {}
        BY <2>2, <2>3
    <2>5. Shortest' /\ WaysOut'
        BY <2>2, <2>4 DEF Shortest, WaysOut, Counted, NoDeadEnd, Told, Leaves
    <2> QED
        BY <2>1, <2>5 DEF Surviving
<1>4. CASE \E x, y \in SwitchNames : Advertise(x, y)
    BY <1>4, AdvertiseSurvives
<1>5. ASSUME stage = "rendered", NEW l \in FabricLinks(fabric), Flap(l)
      PROVE  Surviving'
    <2>1. flaps' = flaps + 1 /\ flaps \in Nat /\ check = "off" /\ verdict = "none" /\ event = "none"
        BY <1>1, <1>5 DEF Flap, Progress
    <2>2. /\ UNCHANGED <<fabric, stage, dest, check, verdict, event>>
          /\ heard' = Cut({l})
        BY <1>5 DEF Flap, avars
    <2>3. Progress' /\ WaysOut'
        BY <1>1, <2>1, <2>2 DEF Progress, WaysOut, Counted
    <2>4. Followed => Shortest'
        BY <2>2, FollowedFacts, CutShortens
    <2> QED
        BY <2>2, <2>3, <2>4, Unmoved DEF Surviving, Followed
<1> QED
    BY <1>2, <1>3, <1>4, <1>5 DEF UnderlayNext

\* A step that leaves the fabric and its acceptance alone.
LEMMA LabUntouched ==
    ASSUME Surviving, UNCHANGED labVars
    PROVE  Surviving'
<1>1. UNCHANGED <<fabric, stage, dest, up, config, heard, flaps, check, verdict, event>>
    BY DEF labVars, uvars, avars
<1>2. Progress'
    BY <1>1 DEF Surviving, Progress
<1>3. Followed /\ Counted' => TwoWaysOut
    BY <1>1 DEF Counted, Surviving, Followed, WaysOut
<1> QED
    BY <1>1, <1>2, <1>3, CheckSurvives

LEMMA LoadSurvives ==
    ASSUME Surviving, Load
    PROVE  Surviving'
<1> QED
    BY DEF Load, avars, Surviving, Progress

\* The acceptance leaves two ways out of each leaf, and a failure one of them.
THEOREM Survival == TrafficSpec => []Surviving
<1>1. TrafficInit => Surviving
    <2> SUFFICES ASSUME TrafficInit PROVE Surviving
        OBVIOUS
    <2>1. stage = "authored" /\ check = "off" /\ verdict = "none" /\ event = "none" /\ flaps = 0
        BY DEF TrafficInit, AcceptanceInit, UnderlayInit
    <2> QED
        BY <2>1 DEF Surviving, Progress
<1>2. IInv /\ Surviving /\ [TrafficNext]_lvars => Surviving'
    <2> SUFFICES ASSUME IInv, Surviving, [TrafficNext]_lvars PROVE Surviving'
        OBVIOUS
    <2>1. CASE AcceptanceNext
        BY <2>1, CheckingSurvives, UnderlaySurvives DEF AcceptanceNext
    <2>2. CASE Load
        BY <2>2, LoadSurvives
    <2>3. CASE UNCHANGED labVars
        BY <2>3, LabUntouched
    <2> QED
        BY <2>1, <2>2, <2>3
           DEF TrafficNext, StartProgram, StopTraffic, StartServers, StartFlow, FlowEnds, ExecTimesOut,
               Started, Cleanup, Killed, lvars
<1> QED
    BY <1>1, <1>2, Invariance, PTL DEF TrafficSpec

\* A fabric that passed the acceptance keeps, at each moment of the reconvergence after a link or a
\* spine failed, a path from each leaf that arrives (lab_check.py:238-289, b10_b11_convergence.py:124-142).
THEOREM OneFailureSurvived == TrafficSpec => []OneFailureKeepsAPath
<1>1. IInv /\ Surviving => OneFailureKeepsAPath
    <2> SUFFICES ASSUME IInv, Surviving, Followed, verdict = "pass", NEW x \in Leaves \ Owners
                 PROVE  \E y \in NextHops(x) : NextHops(y) \cap Owners # {}
        BY DEF OneFailureKeepsAPath, Followed
    <2>1. Rendered /\ HeardAcross /\ Shortest /\ WaysOut /\ \A z \in Homes : z \in SwitchNames /\ IsLeaf(fabric, z)
        BY FollowedFacts DEF Rendered
    <2>2. dest \in HostSubnets /\ Owners = Homes
        BY <2>1, OwnersAreHomes DEF Followed, Rendered
    <2>3. PICK y \in SwitchNames : Through(x, y)
        <3>1. CASE event = "none"
            BY <2>1, <2>2, <3>1 DEF WaysOut, Counted, TwoWaysOut
        <3>2. CASE event # "none"
            BY <2>1, <2>2, <3>2 DEF WaysOut, OneWayOut
        <3> QED
            BY <3>1, <3>2
    <2>4. PICK z \in SwitchNames : Told(y, z)
        BY <2>3 DEF Through
    <2>5. ~IsLeaf(fabric, y) /\ z \in Homes /\ x \in SwitchNames /\ x \notin Homes /\ y \notin Homes
        BY <2>1, <2>2, <2>3, <2>4 DEF HeardAcross, Through, Told, Leaves, Homes, IsLeaf
    <2>6. Best(x) = UNION {heard[<<x, v>>] : v \in SwitchNames}
        BY <2>1, <2>2, <2>5, BestFacts
    <2>7. Best(y) = UNION {heard[<<y, v>>] : v \in SwitchNames}
        BY <2>1, <2>2, <2>5, BestFacts
    <2>8. y \in NextHops(x)
        BY <2>3, <2>6 DEF NextHops, Through, Told
    <2>9. z \in NextHops(y)
        BY <2>4, <2>7 DEF NextHops, Told
    <2> QED
        BY <2>2, <2>5, <2>8, <2>9
<1> QED
    BY <1>1, Invariance, Survival, PTL

-----------------------------------------------------------------------------
(* The graph. *)

LEMMA HostsLast ==
    ASSUME NEW f \in FabricSpec, NEW h \in DOMAIN f.hosts
    PROVE  /\ Len(f.spines) + Len(f.leaves) + h \in DOMAIN NodeNames(f)
           /\ NodeNames(f)[Len(f.spines) + Len(f.leaves) + h] = f.hosts[h].name
<1> DEFINE named == [i \in DOMAIN Switches(f) |-> Switches(f)[i].name]
           hosts == [i \in DOMAIN f.hosts |-> f.hosts[i].name]
<1>1. f.spines \in Seq(Switch) /\ f.leaves \in Seq(Switch) /\ f.hosts \in Seq([name : Names, leaf : Names])
    BY DEF FabricSpec
<1>2. Switches(f) \in Seq(Switch) /\ Len(Switches(f)) = Len(f.spines) + Len(f.leaves)
    <2>1. \A S : \A a, b \in Seq(S) : a \o b \in Seq(S) /\ Len(a \o b) = Len(a) + Len(b)
        OBVIOUS
    <2>2. f.spines \o f.leaves \in Seq(Switch)
          /\ Len(f.spines \o f.leaves) = Len(f.spines) + Len(f.leaves)
        BY <1>1, <2>1
    <2> QED
        BY <2>2 DEF Switches
<1>3. named \in Seq(Names) /\ Len(named) = Len(Switches(f))
    <2>1. \A i \in DOMAIN Switches(f) : Switches(f)[i] \in Switch
        BY <1>2, ElementsOf
    <2>2. \A i \in DOMAIN Switches(f) : Switches(f)[i].name \in Names
        BY <2>1 DEF Switch
    <2>3. DOMAIN Switches(f) = 1 .. Len(Switches(f)) /\ Len(Switches(f)) \in Nat
        BY <1>2, ElementsOf
    <2> QED
        BY <2>2, <2>3
<1>4. hosts \in Seq(Names) /\ DOMAIN hosts = DOMAIN f.hosts
    <2>1. DOMAIN f.hosts = 1 .. Len(f.hosts) /\ Len(f.hosts) \in Nat
        BY <1>1, ElementsOf
    <2>2. \A i \in DOMAIN f.hosts : f.hosts[i] \in [name : Names, leaf : Names]
        BY <1>1, ElementsOf
    <2>3. \A i \in DOMAIN f.hosts : f.hosts[i].name \in Names
        BY <2>2
    <2> QED
        BY <2>1, <2>3
<1>5. NodeNames(f) = named \o hosts /\ h \in DOMAIN hosts /\ hosts[h] = f.hosts[h].name
    BY DEF NodeNames
<1> HIDE DEF named, hosts
<1>6. Len(named) + h \in DOMAIN (named \o hosts) /\ (named \o hosts)[Len(named) + h] = hosts[h]
    BY <1>3, <1>4, <1>5
<1> QED
    BY <1>2, <1>3, <1>5, <1>6

LEMMA SwitchesAt ==
    ASSUME NEW f \in FabricSpec
    PROVE  /\ \A s \in DOMAIN f.spines : s \in DOMAIN Switches(f) /\ Switches(f)[s] = f.spines[s]
           /\ \A n \in DOMAIN f.leaves : /\ Len(f.spines) + n \in DOMAIN Switches(f)
                                         /\ Switches(f)[Len(f.spines) + n] = f.leaves[n]
<1> DEFINE a == f.spines
           b == f.leaves
<1>1. a \in Seq(Switch) /\ b \in Seq(Switch)
    BY DEF FabricSpec
<1>2. Switches(f) = a \o b
    BY DEF Switches
<1> HIDE DEF a, b
<1>3. \A s \in DOMAIN a : s \in DOMAIN (a \o b) /\ (a \o b)[s] = a[s]
    BY <1>1
<1>4. \A n \in DOMAIN b : Len(a) + n \in DOMAIN (a \o b) /\ (a \o b)[Len(a) + n] = b[n]
    BY <1>1
<1> QED
    BY <1>2, <1>3, <1>4 DEF a, b

\* No two nodes of a valid fabric have the same name.
LEMMA NodesApart ==
    ASSUME NEW f \in FabricSpec, Validation(f) = {}
    PROVE  /\ \A s, t \in DOMAIN f.spines : f.spines[s].name = f.spines[t].name => s = t
           /\ \A m, n \in DOMAIN f.leaves : f.leaves[m].name = f.leaves[n].name => m = n
           /\ \A g, h \in DOMAIN f.hosts : f.hosts[g].name = f.hosts[h].name => g = h
           /\ \A s \in DOMAIN f.spines, n \in DOMAIN f.leaves : f.spines[s].name # f.leaves[n].name
           /\ \A s \in DOMAIN f.spines, h \in DOMAIN f.hosts : f.spines[s].name # f.hosts[h].name
           /\ \A n \in DOMAIN f.leaves, h \in DOMAIN f.hosts : f.leaves[n].name # f.hosts[h].name
<1> DEFINE ns == Len(f.spines)
           nl == Len(f.leaves)
<1>1. SpecErrors(f) = {}
    BY DEF Validation
<1>2. ~Repeats(NodeNames(f))
    <2>1. "names" \notin SpecErrors(f)
        BY <1>1
    <2> QED
        BY <2>1 DEF SpecErrors
<1>3. \A i, j \in DOMAIN NodeNames(f) : NodeNames(f)[i] = NodeNames(f)[j] => i = j
    BY <1>2 DEF Repeats, IsInjective
<1>4. /\ f.spines \in Seq(Switch) /\ f.leaves \in Seq(Switch) /\ f.hosts \in Seq([name : Names, leaf : Names])
    BY DEF FabricSpec
<1>5. /\ DOMAIN f.spines = 1 .. ns /\ DOMAIN f.leaves = 1 .. nl /\ ns \in Nat /\ nl \in Nat
      /\ DOMAIN f.hosts = 1 .. Len(f.hosts) /\ Len(f.hosts) \in Nat
    BY <1>4, ElementsOf
<1>6. \A s \in DOMAIN f.spines : s \in DOMAIN NodeNames(f) /\ NodeNames(f)[s] = f.spines[s].name
    BY SwitchesAt, SwitchesFirst
<1>7. \A n \in DOMAIN f.leaves : ns + n \in DOMAIN NodeNames(f) /\ NodeNames(f)[ns + n] = f.leaves[n].name
    BY SwitchesAt, SwitchesFirst
<1>8. \A h \in DOMAIN f.hosts :
          ns + nl + h \in DOMAIN NodeNames(f) /\ NodeNames(f)[ns + nl + h] = f.hosts[h].name
    BY HostsLast
<1> HIDE DEF ns, nl
<1>9. \A s, t \in DOMAIN f.spines : f.spines[s].name = f.spines[t].name => s = t
    BY <1>3, <1>6
<1>10. \A m, n \in DOMAIN f.leaves : f.leaves[m].name = f.leaves[n].name => m = n
    <2> TAKE m, n \in DOMAIN f.leaves
    <2>1. f.leaves[m].name = f.leaves[n].name => ns + m = ns + n
        BY <1>3, <1>7
    <2> QED
        BY <1>5, <2>1
<1>11. \A g, h \in DOMAIN f.hosts : f.hosts[g].name = f.hosts[h].name => g = h
    <2> TAKE g, h \in DOMAIN f.hosts
    <2>1. f.hosts[g].name = f.hosts[h].name => ns + nl + g = ns + nl + h
        BY <1>3, <1>8
    <2> QED
        BY <1>5, <2>1
<1>12. \A s \in DOMAIN f.spines, n \in DOMAIN f.leaves : f.spines[s].name # f.leaves[n].name
    <2> TAKE s \in DOMAIN f.spines, n \in DOMAIN f.leaves
    <2>1. f.spines[s].name = f.leaves[n].name => s = ns + n
        BY <1>3, <1>6, <1>7
    <2> QED
        BY <1>5, <2>1
<1>13. \A s \in DOMAIN f.spines, h \in DOMAIN f.hosts : f.spines[s].name # f.hosts[h].name
    <2> TAKE s \in DOMAIN f.spines, h \in DOMAIN f.hosts
    <2>1. f.spines[s].name = f.hosts[h].name => s = ns + nl + h
        BY <1>3, <1>6, <1>8
    <2> QED
        BY <1>5, <2>1
<1>14. \A n \in DOMAIN f.leaves, h \in DOMAIN f.hosts : f.leaves[n].name # f.hosts[h].name
    <2> TAKE n \in DOMAIN f.leaves, h \in DOMAIN f.hosts
    <2>1. f.leaves[n].name = f.hosts[h].name => ns + n = ns + nl + h
        BY <1>3, <1>7, <1>8
    <2> QED
        BY <1>5, <2>1
<1> QED
    BY <1>9, <1>10, <1>11, <1>12, <1>13, <1>14

LEMMA ThreeApart ==
    ASSUME NEW a, NEW b, NEW c, Cardinality({a, b, c}) = 3
    PROVE  a # b /\ b # c /\ a # c
<1>1. \A x, y : Cardinality({x, y}) <= 2
    <2> TAKE x, y
    <2>1. IsFiniteSet({x}) /\ Cardinality({x}) = 1
        BY FS_Singleton
    <2>2. {x, y} = {x} \cup {y}
        OBVIOUS
    <2>3. Cardinality({x} \cup {y}) \in {Cardinality({x}), Cardinality({x}) + 1}
        BY <2>1, FS_AddElement
    <2> QED
        BY <2>1, <2>2, <2>3
<1>2. a # b
    <2> SUFFICES ASSUME a = b PROVE FALSE
        OBVIOUS
    <2>1. {a, b, c} = {a, c}
        OBVIOUS
    <2>2. 3 <= 2
        <3>1. Cardinality({a, c}) = 3
            BY <2>1, Zenon
        <3>2. Cardinality({a, c}) <= 2
            BY <1>1, Zenon
        <3> QED
            BY <3>1, <3>2, Zenon
    <2> QED
        BY <2>2
<1>3. b # c
    <2> SUFFICES ASSUME b = c PROVE FALSE
        OBVIOUS
    <2>1. {a, b, c} = {a, b}
        OBVIOUS
    <2>2. 3 <= 2
        <3>1. Cardinality({a, b}) = 3
            BY <2>1, Zenon
        <3>2. Cardinality({a, b}) <= 2
            BY <1>1, Zenon
        <3> QED
            BY <3>1, <3>2, Zenon
    <2> QED
        BY <2>2
<1>4. a # c
    <2> SUFFICES ASSUME a = c PROVE FALSE
        OBVIOUS
    <2>1. {a, b, c} = {a, b}
        OBVIOUS
    <2>2. 3 <= 2
        <3>1. Cardinality({a, b}) = 3
            BY <2>1, Zenon
        <3>2. Cardinality({a, b}) <= 2
            BY <1>1, Zenon
        <3> QED
            BY <3>1, <3>2, Zenon
    <2> QED
        BY <2>2
<1> QED
    BY <1>2, <1>3, <1>4

\* What a link of a fabric is.
LEMMA LinkForms ==
    ASSUME NEW f, NEW l \in Links(f)
    PROVE  \/ \E n \in DOMAIN f.leaves, s \in DOMAIN f.spines : l = FabricLink(f, n, s)
           \/ \E n \in DOMAIN f.leaves : \E h \in HostOf(f, n) : l = AccessLink(f, n, h)
<1> QED
    BY DEF Links, FabricLinks, AccessLinks

\* Two links of a valid fabric that end at the same interface are the same link.
LEMMA InterfaceOfOneLink ==
    ASSUME NEW f \in FabricSpec, Validation(f) = {},
           Cardinality({f.uplinks[1], f.uplinks[2], f.downlink}) = 3,
           NEW l \in Links(f), NEW k \in Links(f), NEW d \in Ends(l), NEW e \in Ends(k),
           InterfaceId(d) = InterfaceId(e)
    PROVE  l = k
<1>1. d.node = e.node /\ d.port = e.port
    BY DEF InterfaceId
<1>2. /\ f.uplinks[1] # f.uplinks[2] /\ f.uplinks[1] # f.downlink /\ f.uplinks[2] # f.downlink
    BY ThreeApart
<1>3. \A n \in DOMAIN f.leaves, s \in DOMAIN f.spines : s \in {1, 2}
    <2>1. ~AllocationRaises(f)
        BY DEF Validation
    <2>2. f.spines \in Seq(Switch) /\ f.leaves \in Seq(Switch)
        BY DEF FabricSpec
    <2>3. f.leaves # <<>> => Len(f.spines) <= 2
        BY <2>1, <2>2 DEF AllocationRaises
    <2>4. DOMAIN f.spines = 1 .. Len(f.spines) /\ Len(f.spines) \in Nat
        BY <2>2, ElementsOf
    <2>5. \A n \in DOMAIN f.leaves : f.leaves # <<>>
        OBVIOUS
    <2> QED
        BY <2>3, <2>4, <2>5
<1>4. \A n \in DOMAIN f.leaves : \A h \in HostOf(f, n) :
          h \in DOMAIN f.hosts /\ f.hosts[h].leaf = f.leaves[n].name
    BY DEF HostOf
<1>5. \A n \in DOMAIN f.leaves : \A g, h \in HostOf(f, n) : g = h
    <2>1. f.hosts \in Seq([name : Names, leaf : Names])
        BY DEF FabricSpec
    <2>2. DOMAIN f.hosts = 1 .. Len(f.hosts) /\ Len(f.hosts) \in Nat
        BY <2>1, ElementsOf
    <2> QED
        BY <2>2 DEF HostOf
<1>6. ASSUME NEW n \in DOMAIN f.leaves, NEW s \in DOMAIN f.spines, l = FabricLink(f, n, s)
      PROVE  l = k
    <2>1. \/ d.node = f.leaves[n].name /\ d.port = f.uplinks[s]
          \/ d.node = f.spines[s].name /\ d.port = <<f.spinePort, n>>
        BY <1>6 DEF Ends, FabricLink
    <2>2. ASSUME NEW m \in DOMAIN f.leaves, NEW t \in DOMAIN f.spines, k = FabricLink(f, m, t)
          PROVE  m = n /\ t = s
        <3>1. \/ e.node = f.leaves[m].name /\ e.port = f.uplinks[t]
              \/ e.node = f.spines[t].name /\ e.port = <<f.spinePort, m>>
            BY <2>2 DEF Ends, FabricLink
        <3> QED
            BY <1>1, <1>2, <1>3, <2>1, <3>1, NodesApart
    <2>3. ASSUME NEW m \in DOMAIN f.leaves, NEW h \in HostOf(f, m), k = AccessLink(f, m, h)
          PROVE  FALSE
        <3>1. \/ e.node = f.leaves[m].name /\ e.port = f.downlink
              \/ e.node = f.hosts[h].name /\ e.port = f.hostPort
            BY <2>3 DEF Ends, AccessLink
        <3> QED
            BY <1>1, <1>2, <1>3, <1>4, <2>1, <3>1, NodesApart
    <2> QED
        BY <1>6, <2>2, <2>3, LinkForms
<1>7. ASSUME NEW n \in DOMAIN f.leaves, NEW g \in HostOf(f, n), l = AccessLink(f, n, g)
      PROVE  l = k
    <2>1. \/ d.node = f.leaves[n].name /\ d.port = f.downlink
          \/ d.node = f.hosts[g].name /\ d.port = f.hostPort
        BY <1>7 DEF Ends, AccessLink
    <2>2. ASSUME NEW m \in DOMAIN f.leaves, NEW t \in DOMAIN f.spines, k = FabricLink(f, m, t)
          PROVE  FALSE
        <3>1. \/ e.node = f.leaves[m].name /\ e.port = f.uplinks[t]
              \/ e.node = f.spines[t].name /\ e.port = <<f.spinePort, m>>
            BY <2>2 DEF Ends, FabricLink
        <3> QED
            BY <1>1, <1>2, <1>3, <1>4, <2>1, <3>1, NodesApart
    <2>3. ASSUME NEW m \in DOMAIN f.leaves, NEW h \in HostOf(f, m), k = AccessLink(f, m, h)
          PROVE  m = n /\ g = h
        <3>1. \/ e.node = f.leaves[m].name /\ e.port = f.downlink
              \/ e.node = f.hosts[h].name /\ e.port = f.hostPort
            BY <2>3 DEF Ends, AccessLink
        <3>2. m = n
            BY <1>1, <1>4, <2>1, <3>1, NodesApart
        <3> QED
            BY <1>5, <3>2
    <2> QED
        BY <1>7, <2>2, <2>3, LinkForms
<1> QED
    BY <1>6, <1>7, LinkForms

LEMMA LinkedBothWays ==
    ASSUME NEW f, NEW c \in CandidateLinks(f), NEW i \in c.ends, NEW j \in c.ends, i # j
    PROVE  <<"link", i, j>> \in Edges(f) /\ <<"link", j, i>> \in Edges(f)
<1>1. PICK l \in Links(f) : c.ends = {InterfaceId(e) : e \in Ends(l)}
    BY DEF CandidateLinks
<1>2. \/ i = InterfaceId(l.a) /\ j = InterfaceId(l.b)
      \/ i = InterfaceId(l.b) /\ j = InterfaceId(l.a)
    BY <1>1 DEF Ends
<1> QED
    BY <1>2 DEF Edges

\* Whatever the size of the fabric, the graph that is built from a valid one has each link in both
\* directions and every interface in exactly one link (graph.py:119-147).
THEOREM GraphFits == TrafficSpec => []GraphMatchesFabric
<1>1. IInv /\ Surviving => GraphMatchesFabric
    <2> SUFFICES ASSUME IInv, Surviving, stage = "rendered",
                        Cardinality({fabric.uplinks[1], fabric.uplinks[2], fabric.downlink}) = 3,
                        NEW i \in InterfaceNodes(fabric)
                 PROVE  Cardinality({c \in CandidateLinks(fabric) : i.id \in c.ends}) = 1
        BY LinkedBothWays DEF GraphMatchesFabric
    <2>1. fabric \in FabricSpec /\ Validation(fabric) = {}
        BY UnderlayAssumption DEF IInv, Surviving, Progress
    <2>2. PICK l \in Links(fabric) : \E e \in Ends(l) : i.id = InterfaceId(e)
        BY DEF InterfaceNodes, Links
    <2> DEFINE of(k) == [key |-> k.key, kind |-> k.kind, ends |-> {InterfaceId(e) : e \in Ends(k)}]
               found == {c \in CandidateLinks(fabric) : i.id \in c.ends}
    <2>3. of(l) \in found
        BY <2>2 DEF CandidateLinks
    <2>4. ASSUME NEW c \in found PROVE c = of(l)
        <3>1. PICK k \in Links(fabric) : c = of(k)
            BY DEF CandidateLinks
        <3>2. \E e \in Ends(k) : i.id = InterfaceId(e)
            BY <3>1
        <3> QED
            BY <2>1, <2>2, <3>1, <3>2, InterfaceOfOneLink
    <2> HIDE DEF of, found
    <2>5. found = {of(l)}
        BY <2>3, <2>4
    <2>6. Cardinality(found) = 1
        BY <2>5, FS_Singleton
    <2> QED
        BY <2>6 DEF found
<1> QED
    BY <1>1, Invariance, Survival, PTL

-----------------------------------------------------------------------------
(* The load. *)

\* A plan is a sequence of flows, each with a port of its own.
OwnPorts ==
    /\ Len(plan) \in Nat /\ DOMAIN plan = 1 .. Len(plan)
    /\ \A i, j \in DOMAIN plan : plan[i].port = plan[j].port => i = j

\* A flow between two hosts whose stop failed.
Unstopped(c) == {c.src, c.dst} \subseteq missed

\* What a background load has started transmits alone, but for what its stop has left.
Loaded ==
    /\ \A c \in refused : Unstopped(c)
    /\ program = "smoke" \/ phase \in {"starting", "serving"} => refused = {}
    /\ phase # "off" => OwnPorts
    /\ phase \in {"starting", "serving"} => next = 1
    /\ phase \in {"waiting", "cleanup"} => program = "smoke"
    /\ phase = "serving" => program = "background" /\ \A c \in clients : Unstopped(c)
    /\ phase \in {"running", "waiting"} => next \in Nat \ {0}
    /\ phase = "running" /\ program = "background" =>
          \A c \in clients : Unstopped(c) \/ \E i \in DOMAIN plan : i < next /\ c = plan[i]
    /\ phase = "done" /\ program = "smoke" =>
          /\ \A server \in servers : server[1] \in missed
          /\ \A c \in clients : Unstopped(c)

LEMMA PlanHasOwnPorts ==
    ASSUME fabric \in FabricSpec, NEW profile \in Profiles, plan' = PlanFlows(profile)
    PROVE  OwnPorts'
<1> DEFINE pairs == FlowPairs(profile)
           n == Cardinality(pairs)
<1>1. fabric.hosts \in Seq([name : Names, leaf : Names])
    BY DEF FabricSpec
<1>2. IsFiniteSet(Hosts)
    <2>1. Hosts = 1 .. Len(fabric.hosts) /\ Len(fabric.hosts) \in Nat
        BY <1>1, ElementsOf DEF Hosts
    <2> QED
        BY <2>1, FS_Interval
<1>3. IsFiniteSet({profile.target})
    BY FS_Singleton
<1>4. PICK S : IsFiniteSet(S) /\ pairs \subseteq Hosts \X S
    <2>1. pairs \subseteq Hosts \X {profile.target} \/ pairs \subseteq Hosts \X Hosts
        BY DEF FlowPairs
    <2> QED
        BY <1>2, <1>3, <2>1
<1>5. IsFiniteSet(Hosts \X S)
    BY <1>2, <1>4, FS_Product
<1>6. n \in Nat
    BY <1>4, <1>5, FS_Subset, FS_CardinalityType
<1> HIDE DEF n
<1>7. /\ DOMAIN plan' = 1 .. n /\ Len(plan') = n
      /\ \A i \in 1 .. n : plan'[i].port = FlowPort(profile, i)
    <2> DEFINE place(p) == Cardinality({q \in pairs : q[1] < p[1] \/ (q[1] = p[1] /\ q[2] <= p[2])})
               pair(i) == CHOOSE p \in pairs : place(p) = i
    <2>1. plan' = [i \in 1 .. n |-> [src |-> pair(i)[1], dst |-> pair(i)[2], port |-> FlowPort(profile, i)]]
        BY DEF PlanFlows, n
    <2> HIDE DEF pair
    <2> QED
        BY <1>6, <2>1
<1>8. \A i, j \in 1 .. n : FlowPort(profile, i) = FlowPort(profile, j) => i = j
    <2>1. profile.seed % 100 \in Int
        BY TrafficAssumption
    <2> QED
        BY <1>6, <2>1 DEF FlowPort
<1> QED
    BY <1>6, <1>7, <1>8 DEF OwnPorts

\* A flow of a background load meets a server that is busy only with what a stop has left.
LEMMA BusyWithLeftovers ==
    ASSUME Loaded, phase = "running", program = "background", next <= Len(plan),
           NEW c \in Busy(plan[next])
    PROVE  Unstopped(c)
<1>1. next \in DOMAIN plan /\ next \in Nat
    BY DEF Loaded, OwnPorts
<1>2. c \in clients /\ Server(c) = Server(plan[next])
    BY DEF Busy
<1> SUFFICES ASSUME NEW i \in DOMAIN plan, i < next, c = plan[i] PROVE FALSE
    BY <1>2 DEF Loaded
<1>3. plan[i].port = plan[next].port
    BY <1>2 DEF Server
<1>4. i = next
    BY <1>1, <1>3 DEF Loaded, OwnPorts
<1> QED
    BY <1>1, <1>4

LEMMA SamePlan ==
    ASSUME plan' = plan
    PROVE  OwnPorts' <=> OwnPorts
<1> QED
    BY DEF OwnPorts

\* What the stop leaves.
LEMMA StopLeaves ==
    ASSUME StopOnHosts
    PROVE  /\ \A server \in servers' : server[1] \in missed'
           /\ \A c \in clients' : Unstopped(c)'
<1>1. PICK failed \in SUBSET Hosts :
          /\ servers' = {server \in servers : server[1] \in failed}
          /\ clients' = {c \in clients : {c.src, c.dst} \subseteq failed}
          /\ missed' = failed
    BY DEF StopOnHosts
<1> QED
    BY <1>1 DEF Unstopped

LEMMA LoadedStep ==
    ASSUME IInv, Loaded, [TrafficNext]_lvars
    PROVE  Loaded'
<1>0. missed' = missed => \A c : Unstopped(c)' <=> Unstopped(c)
    BY DEF Unstopped
<1>1. CASE UNCHANGED tvars
    BY <1>0, <1>1, SamePlan DEF tvars, Loaded
<1>2. CASE Load
    BY <1>2, <1>1 DEF Load
<1>3. CASE StartProgram
    <2>1. PICK profile \in Profiles : plan' = PlanFlows(profile)
        BY <1>3 DEF StartProgram
    <2>2. OwnPorts'
        BY <2>1, PlanHasOwnPorts, UnderlayAssumption DEF IInv
    <2> QED
        BY <1>3, <2>2 DEF StartProgram, Loaded
<1>4. CASE StopTraffic
    <2>1. \A c \in clients' : Unstopped(c)'
        BY <1>4, StopLeaves DEF StopTraffic
    <2>2. refused' = {} /\ phase' = "serving" /\ program' = "background" /\ next' = 1 /\ plan' = plan
        BY <1>4 DEF StopTraffic, Loaded
    <2>3. OwnPorts'
        BY <1>4, <2>2, SamePlan DEF StopTraffic, Loaded
    <2> QED
        BY <2>1, <2>2, <2>3 DEF Loaded
<1>5. CASE StartServers
    <2>1. /\ phase' = "running" /\ UNCHANGED <<program, plan, next, clients, refused, missed>>
          /\ refused = {} /\ next = 1 /\ OwnPorts
          /\ program = "background" => phase = "serving"
        BY <1>5 DEF StartServers, Loaded
    <2>2. program = "background" => \A c \in clients' : Unstopped(c)'
        BY <1>0, <2>1 DEF Loaded
    <2>3. OwnPorts'
        BY <2>1, SamePlan
    <2> QED
        BY <2>1, <2>2, <2>3 DEF Loaded
<1>6. CASE StartFlow
    <2>0. /\ phase = "running" /\ next' = next + 1 /\ next \in Nat \ {0} /\ next <= Len(plan)
          /\ UNCHANGED <<plan, program, missed>> /\ OwnPorts
        BY <1>6 DEF StartFlow, Loaded
    <2>1. OwnPorts' /\ next' \in Nat \ {0} /\ next \in DOMAIN plan
        BY <2>0, SamePlan DEF OwnPorts
    <2>2. CASE program = "background"
        <3>1. phase' = "running"
            BY <1>6, <2>2 DEF StartFlow
        <3>2. \A c \in refused' : Unstopped(c)
            <4>1. refused' \in {refused, refused \cup Busy(plan[next])}
                BY <1>6, <2>2 DEF StartFlow
            <4>2. \A c \in Busy(plan[next]) : Unstopped(c)
                BY <2>0, <2>2, BusyWithLeftovers
            <4>3. \A c \in refused : Unstopped(c)
                BY DEF Loaded
            <4> QED
                BY <4>1, <4>2, <4>3
        <3>3. \A c \in clients' : Unstopped(c) \/ \E i \in DOMAIN plan : i < next + 1 /\ c = plan[i]
            <4>1. clients' \in {clients, clients \cup {plan[next]}}
                BY <1>6 DEF StartFlow
            <4>2. \A i \in DOMAIN plan : i < next => i < next + 1
                BY <2>0 DEF OwnPorts
            <4>3. \A c \in clients : Unstopped(c) \/ \E i \in DOMAIN plan : i < next /\ c = plan[i]
                BY <2>0, <2>2 DEF Loaded
            <4>4. next < next + 1
                BY <2>0
            <4> QED
                BY <2>1, <4>1, <4>2, <4>3, <4>4
        <3> QED
            BY <1>0, <2>0, <2>1, <2>2, <3>1, <3>2, <3>3 DEF Loaded
    <2>3. CASE program # "background"
        <3>1. /\ refused' = refused
              /\ phase' \in {"waiting", "running"} /\ (phase' = "waiting" => program = "smoke")
            BY <1>6, <2>3 DEF StartFlow
        <3> QED
            BY <1>0, <2>0, <2>1, <2>3, <3>1 DEF Loaded
    <2> QED
        BY <2>2, <2>3
<1>7. CASE FlowEnds
    <2>1. /\ clients' \subseteq clients /\ servers' \subseteq servers
          /\ UNCHANGED <<program, plan, next, refused, missed>>
          /\ phase' = phase \/ (phase = "waiting" /\ phase' = "running")
        BY <1>7 DEF FlowEnds
    <2>2. CASE phase' = phase
        BY <1>0, <2>1, <2>2, SamePlan DEF Loaded
    <2>3. CASE phase = "waiting" /\ phase' = "running"
        BY <1>0, <2>1, <2>3, SamePlan DEF Loaded
    <2> QED
        BY <2>1, <2>2, <2>3
<1>8. CASE ExecTimesOut
    BY <1>0, <1>8, SamePlan DEF ExecTimesOut, Loaded
<1>9. CASE Started
    BY <1>0, <1>9, SamePlan DEF Started, Loaded
<1>10. CASE Cleanup
    <2>1. /\ \A server \in servers' : server[1] \in missed'
          /\ \A c \in clients' : Unstopped(c)'
        BY <1>10, StopLeaves DEF Cleanup
    <2>2. phase' = "done" /\ program' = "smoke" /\ plan' = plan /\ refused' = {}
        BY <1>10 DEF Cleanup, Loaded
    <2>3. OwnPorts'
        BY <1>10, <2>2, SamePlan DEF Cleanup, Loaded
    <2> QED
        BY <2>1, <2>2, <2>3 DEF Loaded
<1>11. CASE Killed
    BY <1>0, <1>11, SamePlan DEF Killed, Loaded
<1> QED
    BY <1>1, <1>2, <1>3, <1>4, <1>5, <1>6, <1>7, <1>8, <1>9, <1>10, <1>11 DEF TrafficNext, lvars

\* A load outlives a smoke test that was not killed, or spoils a later background load, only where a
\* stop failed, whatever the profiles, the programs that ran before and how they ended
\* (traffic/lab.py:28-74, generator.py:65-83, traffic_smoke.py:42-54, 92-103).
THEOREM LoadsCleanUp == TrafficSpec => []ProgramsCleanUp
<1>1. TrafficInit => Loaded
    BY DEF TrafficInit, Loaded
<1>2. IInv /\ Loaded /\ [TrafficNext]_lvars => Loaded'
    BY LoadedStep
<1>3. Loaded => ProgramsCleanUp
    BY DEF Loaded, ProgramsCleanUp, Unstopped
<1> QED
    BY <1>1, <1>2, <1>3, Invariance, PTL DEF TrafficSpec
=============================================================================
