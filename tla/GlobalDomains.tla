---------------------------- MODULE GlobalDomains ----------------------------
(***************************************************************************)
(* Global clock and reset identities over a hierarchy of occurrences       *)
(* (src/src/frontends/systemverilog/passes/global_domain_resolve.cpp,      *)
(* clock_reset_demands.cpp, and inferTopClockResetDomains of               *)
(* top_io_domains_infer.cpp).                                              *)
(*                                                                         *)
(* Two recursive walks: the first, children before parents, finds which    *)
(* input ports are clocks and resets from what the flops below demand; the *)
(* second, parents before children, hands every clock and reset port the   *)
(* top-level input it is wired to and interns <<source, edge>> pairs as    *)
(* ClockIds and ResetIds.  Both work on port names local to a module.      *)
(*                                                                         *)
(* Occurrences are numbered in pre-order, 1 is the top.  Signal names are  *)
(* positive numbers in the order of the strings they stand for; 0 is no    *)
(* name.  Edge 0 is POSEDGE, 1 NEGEDGE, the order of edge_t.  A design is  *)
(*   parent[o]   the parent of occurrence o (0 for the top)                *)
(*   inputs[o]   its input ports                                           *)
(*   alias[o]    the transparent aliases among its other signals           *)
(*   conn[o][p]  the simple identifier of the parent connected to port p,  *)
(*               0 when the connection is any other expression             *)
(*   flops[o]    its flops: clock and edge, reset (0: none) and level      *)
(*   yaml.infer  no top-level YAML: clocks and resets are inferred         *)
(*   yaml[c][n]  port and edge that the YAML declares under name n         *)
(***************************************************************************)
EXTENDS Integers, FiniteSets, Sequences

CONSTANT Designs

Class == {"clock", "reset"}
Edge == {0, 1}
Top == 1
NoName == 0

Occs(d) == DOMAIN d.parent
Children(d, o) == {c \in Occs(d) : d.parent[c] = o}

\* The pre-order numbering: each occurrence hangs below its predecessor or
\* below one of that one's ancestors.
ParentsInPreOrder(d) ==
    LET above[o \in Occs(d)] == IF o = Top THEN {Top} ELSE {o} \cup above[d.parent[o]]
    IN  \A o \in Occs(d) \ {Top} :
            d.parent[o] \in 1 .. (o - 1) /\ d.parent[o] \in above[o - 1]

\* What io_domains_set.cpp guarantees of the YAML: declared ports are top-level
\* inputs, no port is both a clock and a reset or two resets.
YamlWellFormed(d) ==
    /\ \A c \in Class : IsFiniteSet(DOMAIN d.yaml[c]) /\ DOMAIN d.yaml[c] \subseteq Nat
    /\ \A c \in Class : \A n \in DOMAIN d.yaml[c] :
           d.yaml[c][n] \in [port : d.inputs[Top], edge : Edge]
    /\ \A n \in DOMAIN d.yaml["clock"], r \in DOMAIN d.yaml["reset"] :
           d.yaml["clock"][n].port # d.yaml["reset"][r].port
    /\ \A r, s \in DOMAIN d.yaml["reset"] :
           d.yaml["reset"][r].port = d.yaml["reset"][s].port => r = s

DesignsWellFormed ==
    \A d \in Designs :
        /\ d.parent \in Seq(Nat) /\ d.parent # <<>> /\ d.parent[Top] = 0
        /\ ParentsInPreOrder(d)
        /\ \A o \in Occs(d) :
               /\ d.inputs[o] \subseteq Nat \ {NoName}
               /\ IsFiniteSet(DOMAIN d.alias[o]) /\ DOMAIN d.alias[o] \cap d.inputs[o] = {}
               /\ \A f \in d.flops[o] : f.edge \in Edge /\ f.level \in Edge
        /\ YamlWellFormed(d)
ASSUME DesignsAssumption == DesignsWellFormed

VARIABLES
    d,          \* the design being compiled
    phase,      \* "collect" (infer mode only), "ports", "enter", "intern",
                \* then "done" or "error"
    walked,     \* occurrences the first walk has left
    demands,    \* occurrence -> clock and reset demands on its signals
    ports,      \* occurrence -> port -> class and edge (moduleFacts.ports)
    declared,   \* class -> name -> port and edge (top_inputs)
    at,         \* occurrence the second walk is in
    todo,       \* its demands that have no identity yet
    source,     \* occurrence -> <<class, port>> -> top-level input
    ids,        \* demand -> identity, of the occurrence the walk is in
    registry,   \* class -> sequence of <<source, edge>> keys; the position of
                \* a key is its ClockId or ResetId
    inputDomain,   \* occurrence -> port -> class, edge and identity
    flopDomain,    \* occurrence -> flop -> clock and reset identity
    resolvedTop    \* class -> declared name -> identity

firstWalk == <<walked, demands, ports, declared>>
identities == <<source, ids, registry, inputDomain, flopDomain, resolvedTop>>
vars == <<d, phase, firstWalk, at, todo, identities>>

-----------------------------------------------------------------------------
\* Demands.

Demand(s, c, e) == [sig |-> s, cls |-> c, edge |-> e]

\* addDemand throws on a signal demanded as a clock and a reset, and on a
\* reset demanded with both polarities.
Conflict(D) ==
    \E p, q \in D : /\ p.sig = q.sig
                    /\ \/ p.cls # q.cls
                       \/ p.cls = "reset" /\ p.edge # q.edge

\* std::map iterates in key order; without conflicts only the edge can differ
\* between the demands on one signal.
Before(p, q) == p.sig < q.sig \/ (p.sig = q.sig /\ p.edge < q.edge)

LocalDemands(o) ==
    {Demand(f.clock, "clock", f.edge) : f \in d.flops[o]}
    \cup {Demand(f.reset, "reset", f.level) : f \in {g \in d.flops[o] : g.reset # NoName}}

\* Follows transparent aliases of o from s until a signal of Stop, at most once
\* around; NoName when the chain ends elsewhere.
AliasInto(o, Stop, s) ==
    LET alias == d.alias[o]
        pos[k \in 0 .. Cardinality(DOMAIN alias)] ==
            IF k = 0 THEN s
            ELSE IF pos[k - 1] \in DOMAIN alias \ Stop THEN alias[pos[k - 1]]
            ELSE pos[k - 1]
        end == pos[Cardinality(DOMAIN alias)]
    IN  IF end \in Stop THEN end ELSE NoName

\* The parent signal connected to a port of occurrence c, NoName when there is
\* no connection fact or it is not a simple identifier.
ConnectedTo(c, port) == IF port \in d.inputs[c] THEN d.conn[c][port] ELSE NoName

\* Mutant of LiftedDemands: only direct connections to inputs are lifted.
LiftedWithoutAliases(o) ==
    {q \in UNION {{Demand(ConnectedTo(c, q.sig), q.cls, q.edge) : q \in demands[c]} :
                      c \in Children(d, o)} : q.sig \in d.inputs[o]}

\* What the children's demands ask of o.  A connection that does not come from
\* an input of o adds nothing here.
LiftedDemands(o) ==
    {q \in UNION {{Demand(AliasInto(o, d.inputs[o], ConnectedTo(c, q.sig)), q.cls, q.edge) :
                       q \in demands[c]} : c \in Children(d, o)} : q.sig # NoName}

Unconnected(o) ==
    \E c \in Children(d, o) : \E q \in demands[c] : ConnectedTo(c, q.sig) = NoName

IsDeclared(q) ==
    \E n \in DOMAIN declared[q.cls] : declared[q.cls][n] = [port |-> q.sig, edge |-> q.edge]

-----------------------------------------------------------------------------
\* Port facts: the last entry written for a port wins at the top, the first in
\* a module below it.
LastOf(S) == CHOOSE x \in S : \A y \in S : y <= x
FirstEdge(D, s) == IF Demand(s, "clock", 0) \in D \/ Demand(s, "reset", 0) \in D THEN 0 ELSE 1

DeclaredPorts(top) ==
    LET names(p, c) == {n \in DOMAIN top[c] : top[c][n].port = p}
    IN  [p \in {q \in d.inputs[Top] : \E c \in Class : names(q, c) # {}} |->
            LET c == CHOOSE c \in Class : names(p, c) # {}
            IN  [cls |-> c, edge |-> top[c][LastOf(names(p, c))].edge]]

DemandedPorts(D) ==
    [p \in {q.sig : q \in D} |->
        [cls |-> (CHOOSE q \in D : q.sig = p).cls, edge |-> FirstEdge(D, p)]]

PortDemands(o) == {Demand(p, ports[o][p].cls, ports[o][p].edge) : p \in DOMAIN ports[o]}

\* loadTopIODomains has classified the top-level inputs, or, to infer them,
\* top_inputs is empty.
Empty == [x \in {} |-> 0]

Init ==
    /\ d \in Designs
    /\ phase = IF d.yaml.infer THEN "collect" ELSE "ports"
    /\ walked = {}
    /\ demands = [o \in Occs(d) |-> {}]
    /\ declared = IF d.yaml.infer THEN [c \in Class |-> Empty] ELSE d.yaml
    /\ ports = [o \in Occs(d) |-> IF o = Top THEN DeclaredPorts(declared) ELSE Empty]
    /\ at = Top
    /\ todo = {}
    /\ source = [o \in Occs(d) |-> Empty]
    /\ ids = Empty
    /\ registry = [c \in Class |-> <<>>]
    /\ inputDomain = [o \in Occs(d) |-> Empty]
    /\ flopDomain = [o \in Occs(d) |-> Empty]
    /\ resolvedTop = [c \in Class |-> Empty]

\* A CompilerError ends the compile.
Reject == /\ phase' = "error"
          /\ UNCHANGED <<d, firstWalk, at, todo, identities>>

-----------------------------------------------------------------------------
\* The first walk.

\* The recursion leaves the occurrences in post-order.
Leaving(o) ==
    LET ready == {p \in Occs(d) \ walked : Children(d, p) \subseteq walked}
    IN  o \in ready /\ \A p \in ready : o <= p

DemandsOf(o) == LocalDemands(o) \cup LiftedDemands(o)

\* The check made when the walk leaves o: at the top a matching declaration,
\* below it an input port to demand the clock or reset of.
Admissible(o, D) ==
    \A q \in D : IF o = Top THEN IsDeclared(q) ELSE q.sig \in d.inputs[o]

\* collectInferredClockResetDemands: the same walk without facts or checks.
CollectDemands(o) ==
    /\ phase = "collect" /\ Leaving(o)
    /\ IF Unconnected(o) \/ Conflict(DemandsOf(o)) THEN Reject
       ELSE /\ demands' = [demands EXCEPT ![o] = DemandsOf(o)]
            /\ walked' = walked \cup {o}
            /\ UNCHANGED <<d, phase, ports, declared, at, todo, identities>>

\* The rest of inferTopClockResetDomains: every demand on a top-level input
\* becomes a declared clock or reset with a name of its own.
InferTopDomains ==
    /\ phase = "collect" /\ walked = Occs(d)
    /\ IF \E q \in demands[Top] : q.sig \notin d.inputs[Top] THEN Reject
       ELSE /\ declared' = [c \in Class |->
                    [n \in {<<q.sig, q.edge>> : q \in {r \in demands[Top] : r.cls = c}} |->
                        [port |-> n[1], edge |-> n[2]]]]
            /\ ports' = [ports EXCEPT ![Top] =
                    [p \in {q.sig : q \in demands[Top]} |->
                        [cls |-> (CHOOSE q \in demands[Top] : q.sig = p).cls,
                         edge |-> LastOf({q.edge : q \in {r \in demands[Top] : r.sig = p}})]]]
            /\ demands' = [o \in Occs(d) |-> {}]
            /\ walked' = {}
            /\ phase' = "ports"
            /\ UNCHANGED <<d, at, todo, identities>>

\* inferClockResetPortFacts, from the return of the last child on.
InferPorts(o) ==
    /\ phase = "ports" /\ Leaving(o)
    /\ IF Unconnected(o) \/ Conflict(DemandsOf(o)) \/ ~Admissible(o, DemandsOf(o)) THEN Reject
       ELSE /\ demands' = [demands EXCEPT ![o] = DemandsOf(o)]
            /\ walked' = walked \cup {o}
            /\ ports' = IF o = Top THEN ports
                        ELSE [ports EXCEPT ![o] = DemandedPorts(DemandsOf(o))]
            /\ phase' = IF o = Top THEN "enter" ELSE phase
            /\ UNCHANGED <<d, declared, at, todo, identities>>

-----------------------------------------------------------------------------
\* The second walk.

\* Mutant of DeclaredDemands: every domain is taken to be on the other edge.
DeclaredOtherEdges ==
    UNION {{Demand(declared[c][n].port, c, 1 - declared[c][n].edge) : n \in DOMAIN declared[c]} : c \in Class}

\* collectResolvedClockResetDemands, and at the top every declared domain.
ResolvedDemands(o) == LocalDemands(o) \cup PortDemands(o)
DeclaredDemands ==
    UNION {{Demand(declared[c][n].port, c, declared[c][n].edge) :
              n \in DOMAIN declared[c]} : c \in Class}

\* Mutant of IncomingSource: resolved by module-local names.
SourceOfSameName(c, port, cls) ==
    LET p == d.parent[c]
    IN  IF <<cls, port>> \in DOMAIN source[p] THEN source[p][<<cls, port>>] ELSE NoName

\* resolveChildInputSource: the top-level input behind a port of occurrence c,
\* found among the resolved ports of its parent, NoName when there is none.
IncomingSource(c, port, cls) ==
    LET p == d.parent[c]
        resolved == {x \in d.inputs[p] : <<cls, x>> \in DOMAIN source[p]}
        via == IF ConnectedTo(c, port) = NoName THEN NoName
               ELSE AliasInto(p, resolved, ConnectedTo(c, port))
    IN  IF via = NoName THEN NoName ELSE source[p][<<cls, via>>]

\* sourceForInput.
SourceFor(o, q) == IF o = Top THEN q.sig ELSE IncomingSource(o, q.sig, q.cls)

\* resolveModule up to its loop: the sources of the ports of `at'.
EnterModule ==
    LET D == ResolvedDemands(at) \cup (IF at = Top THEN DeclaredDemands ELSE {})
    IN  /\ phase = "enter"
        /\ IF Conflict(D) \/ \E q \in D : SourceFor(at, q) = NoName THEN Reject
           ELSE /\ source' = [source EXCEPT ![at] =
                      [x \in {<<q.cls, q.sig>> : q \in D} |->
                          SourceFor(at, [cls |-> x[1], sig |-> x[2]])]]
                /\ todo' = D
                /\ ids' = Empty
                /\ phase' = "intern"
                /\ UNCHANGED <<d, firstWalk, at, registry, inputDomain, flopDomain, resolvedTop>>

\* Mutants of Interned and IdIn: a fresh identity every time, an identity
\* counted from 0.
InternedAnew(reg, key) == Append(reg, key)
IdFromZero(reg, key) == (CHOOSE i \in DOMAIN reg : reg[i] = key) - 1

\* internClock, internReset: an existing key keeps its identity.
Interned(reg, key) == IF \E i \in DOMAIN reg : reg[i] = key THEN reg ELSE Append(reg, key)
IdIn(reg, key) == CHOOSE i \in DOMAIN reg : reg[i] = key

\* Mutant of RecordedTop: the edge is not compared.
RecordedTopAnyEdge(q, id) ==
    [n \in DOMAIN resolvedTop[q.cls]
              \cup {m \in DOMAIN declared[q.cls] : declared[q.cls][m].port = q.sig} |->
        IF declared[q.cls][n].port = q.sig THEN id ELSE resolvedTop[q.cls][n]]

\* recordTopClockDomain, recordTopResetDomain: the declared domains on a port
\* of that name and edge, whichever module the port is a port of.
RecordedTop(q, id) ==
    [n \in DOMAIN resolvedTop[q.cls]
              \cup {m \in DOMAIN declared[q.cls] :
                        declared[q.cls][m] = [port |-> q.sig, edge |-> q.edge]} |->
        IF declared[q.cls][n] = [port |-> q.sig, edge |-> q.edge]
        THEN id ELSE resolvedTop[q.cls][n]]

\* One iteration of the loop over the sorted demands.
InternDemand(q) ==
    LET key == <<source[at][<<q.cls, q.sig>>], q.edge>>
        reg == Interned(registry[q.cls], key)
        id == IdIn(reg, key)
    IN  /\ phase = "intern" /\ q \in todo
        /\ \A p \in todo \ {q} : Before(q, p)
        /\ todo' = todo \ {q}
        /\ registry' = [registry EXCEPT ![q.cls] = reg]
        /\ ids' = [x \in DOMAIN ids \cup {q} |-> IF x = q THEN id ELSE ids[x]]
        /\ inputDomain' = [inputDomain EXCEPT ![at] =
               [p \in DOMAIN inputDomain[at] \cup {q.sig} |->
                   IF p = q.sig THEN [cls |-> q.cls, edge |-> q.edge, id |-> id]
                   ELSE inputDomain[at][p]]]
        /\ resolvedTop' = [resolvedTop EXCEPT ![q.cls] = RecordedTop(q, id)]
        /\ UNCHANGED <<d, phase, firstWalk, at, source, flopDomain>>

\* resolveFlopDomains; its lookups cannot miss, the flops' own demands are in ids.
ResolveFlops ==
    /\ phase = "intern" /\ todo = {}
    /\ flopDomain' = [flopDomain EXCEPT ![at] =
           [f \in d.flops[at] |->
               [clock |-> ids[Demand(f.clock, "clock", f.edge)],
                reset |-> IF f.reset = NoName THEN 0
                          ELSE ids[Demand(f.reset, "reset", f.level)]]]]
    /\ IF at + 1 \in Occs(d) THEN at' = at + 1 /\ phase' = "enter"
                             ELSE phase' = "done" /\ UNCHANGED at
    /\ UNCHANGED <<d, firstWalk, todo, source, ids, registry, inputDomain, resolvedTop>>

Finished == phase \in {"done", "error"} /\ UNCHANGED vars

Next ==
    \/ \E o \in Occs(d) : CollectDemands(o) \/ InferPorts(o)
    \/ InferTopDomains
    \/ EnterModule
    \/ \E q \in todo : InternDemand(q)
    \/ ResolveFlops
    \/ Finished

Spec == Init /\ [][Next]_vars

-----------------------------------------------------------------------------
\* What the flat design says, without any walk: the top-level input that a
\* signal of o is the same wire as, NoName when logic lies in between.
WireOf(o, s) ==
    LET signals == {s} \cup UNION {{d.conn[c][y] : y \in d.inputs[c]} : c \in Occs(d) \ {Top}}
        wire[p \in Occs(d)] ==
            [x \in signals |->
                LET i == AliasInto(p, d.inputs[p], x)
                IN  IF i = NoName \/ p = Top THEN i
                    ELSE IF d.conn[p][i] = NoName THEN NoName
                    ELSE wire[d.parent[p]][d.conn[p][i]]]
    IN  wire[o][s]

\* Every use of a clock or reset by a flop: where, under which local name.
Uses == UNION {{[occ |-> o, sig |-> q.sig, cls |-> q.cls, edge |-> q.edge] :
                   q \in LocalDemands(o)} : o \in Occs(d)}
NetOf(u) == WireOf(u.occ, u.sig)
NetDemands == {Demand(NetOf(u), u.cls, u.edge) : u \in Uses}

\* The designs the tool is documented to take: flops clocked and reset by ports
\* of their module, wired without logic to top-level inputs that the YAML
\* declares with that edge (or that can be inferred without a conflict).
Supported ==
    /\ \A u \in Uses : u.sig \in d.inputs[u.occ] /\ NetOf(u) # NoName
    /\ IF d.yaml.infer THEN ~Conflict(NetDemands)
       ELSE \A q \in NetDemands :
                \E n \in DOMAIN d.yaml[q.cls] :
                    d.yaml[q.cls][n] = [port |-> q.sig, edge |-> q.edge]

\* Facts, sources and identities refer to signals of the design and to entries
\* of the registries.
TypeOK ==
    /\ d \in Designs
    /\ phase \in {"collect", "ports", "enter", "intern", "done", "error"}
    /\ walked \subseteq Occs(d) /\ at \in Occs(d)
    /\ \A o \in Occs(d) :
           /\ \A p \in DOMAIN ports[o] : p \in d.inputs[o] /\ ports[o][p].cls \in Class
           /\ \A x \in DOMAIN source[o] : x[2] \in d.inputs[o] /\ source[o][x] \in d.inputs[Top]
           /\ \A p \in DOMAIN inputDomain[o] :
                  inputDomain[o][p].id \in DOMAIN registry[inputDomain[o][p].cls]
    /\ \A c \in Class : \A n \in DOMAIN resolvedTop[c] :
           n \in DOMAIN declared[c] /\ resolvedTop[c][n] \in DOMAIN registry[c]

\* validateFrontendDomainFacts and every later pass rely on it: after an
\* accepted compile the ClockId and the ResetId of a flop name the top-level
\* input its clock and reset are wired to, and its edge, in every occurrence.
FlopDomainsFollowWires ==
    phase = "done" =>
        \A o \in Occs(d) : \A f \in d.flops[o] :
            /\ registry["clock"][flopDomain[o][f].clock] = <<WireOf(o, f.clock), f.edge>>
            /\ f.reset # NoName =>
                 registry["reset"][flopDomain[o][f].reset] = <<WireOf(o, f.reset), f.level>>

\* The walks throw exactly on the designs outside what is supported: no order
\* of occurrences, name shadowing or dropped demand makes the difference.
AcceptedExactly ==
    /\ phase = "done" => Supported
    /\ phase = "error" => ~Supported

\* The part of it that does not look at wires: identities say what the second
\* walk has found to be the source of the flop's clock and reset.
HasKey(c, id, key) == id \in DOMAIN registry[c] /\ registry[c][id] = key
FlopDomainsFollowSources ==
    phase = "done" =>
        \A o \in Occs(d) : \A f \in d.flops[o] :
            /\ HasKey("clock", flopDomain[o][f].clock, <<source[o][<<"clock", f.clock>>], f.edge>>)
            /\ f.reset # NoName =>
                 HasKey("reset", flopDomain[o][f].reset, <<source[o][<<"reset", f.reset>>], f.level>>)

\* "Same source plus same edge reuses an ID; same source plus different edge
\* gets a different ID" (docs/ir/domains-rework/PHASE_5.md): clocks and resets
\* are compared by identity only (cdc_check.cpp, the generated commits).
OneIdPerSourceAndEdge ==
    \A c \in Class : \A i, j \in DOMAIN registry[c] :
        registry[c][i] = registry[c][j] => i = j

\* Every clock or reset port on the way to a flop has a resolved entry with the
\* port's wire; sync propagation seeds the port from it.
PortDomainsFollowWires ==
    phase = "done" =>
        /\ \A o \in Occs(d) : \A p \in DOMAIN inputDomain[o] :
               LET e == inputDomain[o][p]
               IN  registry[e.cls][e.id] = <<WireOf(o, p), e.edge>>
        /\ \A u \in Uses : u.sig \in DOMAIN inputDomain[u.occ]
        /\ \A o \in Occs(d) \ {Top} : \A p \in DOMAIN inputDomain[o] :
               AliasInto(d.parent[o], d.inputs[d.parent[o]], d.conn[o][p])
                   \in DOMAIN inputDomain[d.parent[o]]

\* Inference declares what the flops use and nothing else, so the registries of
\* an inferred compile hold a domain per used net and edge.
InferredDomainsAreUsed ==
    d.yaml.infer /\ phase = "done" =>
        \A c \in Class :
            {registry[c][i] : i \in DOMAIN registry[c]}
                = {<<q.sig, q.edge>> : q \in {r \in NetDemands : r.cls = c}}

\* "Repeated instances are resolved by instance path, not by module-local names"
\* (docs/ir/domains-rework/PHASE_5.md): the identity recorded for a declared
\* domain is that of its own top-level port.  Sync inputs of the domain and the
\* emitted domain names are looked up there.
TopDomainsNameTheirPort ==
    phase = "done" =>
        \A c \in Class : \A n \in DOMAIN declared[c] :
            /\ n \in DOMAIN resolvedTop[c]
            /\ registry[c][resolvedTop[c][n]] = <<declared[c][n].port, declared[c][n].edge>>

\* It holds in a design in which a clock or reset port of a submodule that has
\* the name of a declared top-level port is wired to it.
NamesAgree ==
    \A o \in Occs(d), c \in Class : \A p \in DOMAIN inputDomain[o] :
        (\E n \in DOMAIN declared[c] : declared[c][n].port = p) => WireOf(o, p) = p
TopDomainsKeptWhereNamesAgree == NamesAgree => TopDomainsNameTheirPort
=============================================================================
