------------------------- MODULE GlobalDomainsProofs -------------------------
(***************************************************************************)
(* For every set of designs: an accepted compile gives every flop and      *)
(* every clock or reset port the identity of the top-level input it is     *)
(* wired to, the compile is rejected exactly for the designs that are not  *)
(* supported, inference declares what is used and nothing else, and the    *)
(* registries hold no key twice.                                           *)
(*                                                                         *)
(* In this order: aliases and wires, which are recursive definitions       *)
(* (their equations follow from SetInduction); the registries and what     *)
(* stands in them; what the first walk has found; that it rejects no       *)
(* supported design; what the second walk has found; the theorems.         *)
(***************************************************************************)
EXTENDS GlobalDomains, SetInduction

\* Occurrences are numbered from the top's 1.
LEMMA Occurrences ==
    ASSUME NEW x \in Designs
    PROVE  Occs(x) = 1 .. Len(x.parent) /\ Len(x.parent) \in Nat /\ Top \in Occs(x)
<1>1. x.parent \in Seq(Nat) /\ x.parent # <<>>
    BY DesignsAssumption DEF DesignsWellFormed
<1> QED
    BY <1>1 DEF Occs, Top

-----------------------------------------------------------------------------
(* Aliases.  Where a chain of aliases ends does not depend on the signals  *)
(* looked for, as long as no input is an alias.                            *)

\* A signal that is looked for is found at once.
LEMMA AliasFound ==
    ASSUME d \in Designs, NEW o \in Occs(d), NEW Stop, NEW s \in Stop
    PROVE  AliasInto(o, Stop, s) = s
<1> DEFINE alias == d.alias[o]
           N == Cardinality(DOMAIN alias)
           Step(pos, k) == IF k = 0 THEN s
                           ELSE IF pos[k - 1] \in DOMAIN alias \ Stop THEN alias[pos[k - 1]]
                           ELSE pos[k - 1]
           pos == CHOOSE pos : pos = [k \in 0 .. N |-> Step(pos, k)]
           still == [k \in 0 .. N |-> s]
<1>1. N \in Nat
    <2>1. IsFiniteSet(DOMAIN alias)
        BY DesignsAssumption DEF DesignsWellFormed
    <2> QED BY <2>1, FS_CardinalityType
<1> HIDE DEF N
<1>2. still = [k \in 0 .. N |-> Step(still, k)]
    <2>1. ASSUME NEW k \in 0 .. N PROVE s = Step(still, k)
        <3>1. k # 0 => k - 1 \in 0 .. N
            BY <1>1
        <3> QED BY <3>1
    <2> QED BY <2>1
<1>3. pos = [k \in 0 .. N |-> Step(pos, k)]
    BY <1>2
<1> HIDE DEF pos
<1> DEFINE S == {k \in Nat : k <= N => pos[k] = s}
<1>4. 0 \in S
    BY <1>1, <1>3
<1>5. ASSUME NEW k \in Nat, k \in S PROVE k + 1 \in S
    <2>1. CASE k + 1 <= N
        <3>1. k + 1 \in 0 .. N /\ k + 1 # 0 /\ k + 1 - 1 = k /\ k <= N
            BY <1>1, <2>1
        <3>2. pos[k] = s
            BY <1>5, <3>1
        <3>3. pos[k + 1] = Step(pos, k + 1)
            BY <1>3, <3>1
        <3> QED BY <3>1, <3>2, <3>3
    <2>2. CASE ~(k + 1 <= N)
        BY <2>2
    <2> QED BY <2>1, <2>2
<1>6. \A k \in Nat : k \in S
    <2> HIDE DEF S
    <2> QED BY <1>4, <1>5, InductionOverSet
<1>7. pos[N] = s
    BY <1>1, <1>6
<1> QED
    BY <1>7 DEF AliasInto, pos, N

\* Where the chain ends, when an alias in Through is followed.
AliasEnd(o, Through, s) ==
    LET alias == d.alias[o]
        pos[k \in 0 .. Cardinality(DOMAIN alias)] ==
            IF k = 0 THEN s
            ELSE IF pos[k - 1] \in Through THEN alias[pos[k - 1]]
            ELSE pos[k - 1]
    IN  pos[Cardinality(DOMAIN alias)]

\* AliasInto in terms of the end of the chain.
LEMMA AliasByEnd ==
    ASSUME NEW o, NEW Stop, NEW s
    PROVE  AliasInto(o, Stop, s) = IF AliasEnd(o, DOMAIN d.alias[o] \ Stop, s) \in Stop
                                   THEN AliasEnd(o, DOMAIN d.alias[o] \ Stop, s) ELSE NoName
BY DEF AliasInto, AliasEnd

\* Looking for some inputs only finds them where looking for all does.
LEMMA AliasNarrowed ==
    ASSUME d \in Designs, NEW o \in Occs(d), NEW Stop \in SUBSET d.inputs[o], NEW s
    PROVE  /\ AliasInto(o, d.inputs[o], s) \in d.inputs[o] \cup {NoName}
           /\ AliasInto(o, Stop, s) = IF AliasInto(o, d.inputs[o], s) \in Stop
                                      THEN AliasInto(o, d.inputs[o], s) ELSE NoName
<1>1. DOMAIN d.alias[o] \cap d.inputs[o] = {} /\ NoName \notin d.inputs[o]
    BY DesignsAssumption DEF DesignsWellFormed
<1>2. DOMAIN d.alias[o] \ Stop = DOMAIN d.alias[o] /\ DOMAIN d.alias[o] \ d.inputs[o] = DOMAIN d.alias[o]
    BY <1>1
<1> DEFINE e == AliasEnd(o, DOMAIN d.alias[o], s)
<1>3. AliasInto(o, Stop, s) = IF e \in Stop THEN e ELSE NoName
    BY <1>2, AliasByEnd
<1>4. AliasInto(o, d.inputs[o], s) = IF e \in d.inputs[o] THEN e ELSE NoName
    BY <1>2, AliasByEnd
<1> HIDE DEF e
<1> QED
    BY <1>1, <1>3, <1>4

-----------------------------------------------------------------------------
(* Wires.  The recursion of WireOf goes from an occurrence to its parent,  *)
(* which comes before it.                                                  *)

ConnectedSignals == UNION {{d.conn[c][y] : y \in d.inputs[c]} : c \in Occs(d) \ {Top}}

\* One step of the recursion, w giving the wires of the parent's signals.
Hop(w, p, x) ==
    LET i == AliasInto(p, d.inputs[p], x)
    IN  IF i = NoName \/ p = Top THEN i
        ELSE IF d.conn[p][i] = NoName THEN NoName
        ELSE w[d.parent[p]][d.conn[p][i]]

IsWiring(w, n, X) == w = [p \in 1 .. n |-> [x \in X |-> Hop(w, p, x)]]

\* An occurrence below the top hangs below an earlier one.
LEMMA ParentBefore ==
    ASSUME d \in Designs, NEW o \in Occs(d), o # Top
    PROVE  d.parent[o] \in Occs(d) /\ d.parent[o] \in 1 .. o - 1
<1>1. d.parent[o] \in 1 .. o - 1
    BY DesignsAssumption DEF DesignsWellFormed, ParentsInPreOrder
<1>2. Occs(d) = 1 .. Len(d.parent) /\ Len(d.parent) \in Nat
    BY Occurrences
<1> QED
    BY <1>1, <1>2

\* A step depends on the wires of earlier occurrences only.
LEMMA HopLocal ==
    ASSUME d \in Designs, NEW p \in Occs(d), NEW x, NEW v, NEW w,
           \A q \in 1 .. p - 1 : \A y \in ConnectedSignals : v[q][y] = w[q][y]
    PROVE  Hop(v, p, x) = Hop(w, p, x)
<1> DEFINE i == AliasInto(p, d.inputs[p], x)
<1>1. CASE i = NoName \/ p = Top
    BY <1>1 DEF Hop
<1>2. CASE ~(i = NoName \/ p = Top)
    <2>1. i \in d.inputs[p]
        <3>1. d.inputs[p] \in SUBSET d.inputs[p]
            OBVIOUS
        <3> QED BY <1>2, <3>1, AliasNarrowed
    <2>2. d.conn[p][i] \in ConnectedSignals
        BY <1>2, <2>1 DEF ConnectedSignals
    <2>3. d.parent[p] \in 1 .. p - 1
        BY <1>2, ParentBefore
    <2> HIDE DEF i
    <2>4. v[d.parent[p]][d.conn[p][i]] = w[d.parent[p]][d.conn[p][i]]
        BY <2>2, <2>3
    <2> QED BY <2>4 DEF Hop, i
<1> QED
    BY <1>1, <1>2

\* The recursion has a solution.
LEMMA WiringExists ==
    ASSUME d \in Designs, NEW X, ConnectedSignals \subseteq X
    PROVE  \E w : IsWiring(w, Len(d.parent), X)
<1> DEFINE N == Len(d.parent)
           S == {n \in Nat : n <= N => \E w : IsWiring(w, n, X)}
<1>1. Occs(d) = 1 .. N /\ N \in Nat
    BY Occurrences
<1> HIDE DEF N
<1>2. 0 \in S
    <2> DEFINE none == [p \in 1 .. 0 |-> 0]
    <2>1. IsWiring(none, 0, X)
        BY DEF IsWiring
    <2> QED BY <2>1
<1>3. ASSUME NEW n \in Nat, n \in S PROVE n + 1 \in S
    <2>1. SUFFICES ASSUME n + 1 <= N PROVE \E w : IsWiring(w, n + 1, X)
        OBVIOUS
    <2>2. PICK w : IsWiring(w, n, X)
        BY <1>1, <1>3, <2>1
    <2> DEFINE v == [p \in 1 .. n + 1 |-> [x \in X |-> Hop(w, p, x)]]
    <2>3. \A q \in 1 .. n : \A y \in X : v[q][y] = w[q][y]
        BY <2>2 DEF IsWiring
    <2>4. \A p \in 1 .. n + 1 : \A x \in X : Hop(w, p, x) = Hop(v, p, x)
        <3> TAKE p \in 1 .. n + 1
        <3> TAKE x \in X
        <3>1. p \in Occs(d) /\ \A q \in 1 .. p - 1 : q \in 1 .. n
            BY <1>1, <2>1
        <3>2. \A q \in 1 .. p - 1 : \A y \in ConnectedSignals : w[q][y] = v[q][y]
            BY <2>3, <3>1
        <3> HIDE DEF v
        <3> QED BY <3>1, <3>2, HopLocal
    <2>5. v = [p \in 1 .. n + 1 |-> [x \in X |-> Hop(v, p, x)]]
        BY <2>4
    <2> HIDE DEF v
    <2> QED BY <2>5 DEF IsWiring
<1>4. \A n \in Nat : n \in S
    <2> HIDE DEF S
    <2> QED BY <1>2, <1>3, InductionOverSet
<1> QED
    BY <1>1, <1>4 DEF N

\* A solution solves the equation at every signal.
LEMMA WiringAt ==
    ASSUME NEW w, NEW n, NEW X, IsWiring(w, n, X), NEW p \in 1 .. n, NEW x \in X
    PROVE  w[p][x] = Hop(w, p, x)
<1> DEFINE wires == [q \in 1 .. n |-> [y \in X |-> Hop(w, q, y)]]
<1>1. w = wires
    BY DEF IsWiring
<1>2. wires[p][x] = Hop(w, p, x)
    OBVIOUS
<1> HIDE DEF wires
<1> QED
    BY <1>1, <1>2

\* Solutions agree on the signals they share.
LEMMA WiringUnique ==
    ASSUME d \in Designs, NEW X, NEW Y, NEW w, NEW v,
           ConnectedSignals \subseteq X, ConnectedSignals \subseteq Y,
           IsWiring(w, Len(d.parent), X), IsWiring(v, Len(d.parent), Y)
    PROVE  \A p \in Occs(d) : \A x \in X \cap Y : w[p][x] = v[p][x]
<1> DEFINE N == Len(d.parent)
           S == {p \in 1 .. N : \A x \in X \cap Y : w[p][x] = v[p][x]}
<1>1. Occs(d) = 1 .. N /\ N \in Nat
    BY Occurrences
<1>2. /\ \A p \in 1 .. N : \A x \in X : w[p][x] = Hop(w, p, x)
      /\ \A p \in 1 .. N : \A x \in Y : v[p][x] = Hop(v, p, x)
    BY WiringAt
<1> HIDE DEF N
<1>3. ASSUME NEW p \in 1 .. N, \A q \in 1 .. p - 1 : q \in S PROVE p \in S
    <2>1. \A q \in 1 .. p - 1 : \A y \in ConnectedSignals : w[q][y] = v[q][y]
        BY <1>3
    <2>2. \A x \in X \cap Y : Hop(w, p, x) = Hop(v, p, x)
        BY <1>1, <2>1, HopLocal
    <2> QED BY <1>2, <2>2
<1>4. \A p \in 1 .. N : p \in S
    <2> HIDE DEF S
    <2> QED BY <1>1, <1>3, InductionFromBelow
<1> QED
    BY <1>1, <1>4

\* The recursion equation of WireOf.
LEMMA WireStep ==
    ASSUME d \in Designs, NEW o \in Occs(d), NEW s
    PROVE  WireOf(o, s) =
             LET i == AliasInto(o, d.inputs[o], s)
             IN  IF i = NoName \/ o = Top THEN i
                 ELSE IF d.conn[o][i] = NoName THEN NoName
                 ELSE WireOf(d.parent[o], d.conn[o][i])
<1> DEFINE N == Len(d.parent)
           Signals(x) == {x} \cup ConnectedSignals
           Wiring(x) == CHOOSE w : IsWiring(w, N, Signals(x))
<1>1. Occs(d) = 1 .. N /\ N \in Nat
    BY Occurrences
<1>2. ASSUME NEW p, NEW x PROVE WireOf(p, x) = Wiring(x)[p][x]
    BY <1>1 DEF WireOf, IsWiring, Hop, ConnectedSignals
<1>3. ASSUME NEW x PROVE IsWiring(Wiring(x), N, Signals(x))
    BY WiringExists
<1> HIDE DEF Wiring
<1> DEFINE i == AliasInto(o, d.inputs[o], s)
<1>4. WireOf(o, s) = Hop(Wiring(s), o, s)
    <2>1. Wiring(s)[o][s] = Hop(Wiring(s), o, s)
        <3>1. IsWiring(Wiring(s), N, Signals(s)) /\ o \in 1 .. N /\ s \in Signals(s)
            BY <1>1, <1>3
        <3> HIDE DEF N, Signals
        <3> QED BY <3>1, WiringAt
    <2> QED BY <1>2, <2>1
<1>5. CASE i = NoName \/ o = Top
    BY <1>4, <1>5 DEF Hop
<1>6. CASE ~(i = NoName \/ o = Top)
    <2>1. i \in d.inputs[o]
        <3>1. d.inputs[o] \in SUBSET d.inputs[o]
            OBVIOUS
        <3> QED BY <1>6, <3>1, AliasNarrowed
    <2> DEFINE x == d.conn[o][i]
    <2>2. x \in ConnectedSignals
        BY <1>6, <2>1 DEF ConnectedSignals
    <2>3. d.parent[o] \in Occs(d)
        BY <1>6, ParentBefore
    <2> HIDE DEF x
    <2>4. Wiring(s)[d.parent[o]][x] = Wiring(x)[d.parent[o]][x]
        <3>1. ConnectedSignals \subseteq Signals(s) /\ ConnectedSignals \subseteq Signals(x)
            OBVIOUS
        <3>2. x \in Signals(s) \cap Signals(x)
            BY <2>2
        <3>3. IsWiring(Wiring(s), Len(d.parent), Signals(s)) /\ IsWiring(Wiring(x), Len(d.parent), Signals(x))
            BY <1>3
        <3> HIDE DEF Signals
        <3> QED BY <2>3, <3>1, <3>2, <3>3, WiringUnique
    <2> QED BY <1>2, <1>4, <1>6, <2>4 DEF Hop, x
<1> QED
    BY <1>5, <1>6

\* The wire of an input port.
LEMMA WireOfInput ==
    ASSUME d \in Designs, NEW o \in Occs(d), NEW s \in d.inputs[o]
    PROVE  WireOf(o, s) = IF o = Top THEN s
                          ELSE IF d.conn[o][s] = NoName THEN NoName
                          ELSE WireOf(d.parent[o], d.conn[o][s])
<1>1. s # NoName
    BY DesignsAssumption DEF DesignsWellFormed
<1>2. AliasInto(o, d.inputs[o], s) = s
    BY AliasFound
<1> QED
    BY <1>1, <1>2, WireStep

\* The wire of a signal is that of the input its aliases end in.
LEMMA WireThroughAliases ==
    ASSUME d \in Designs, NEW o \in Occs(d), NEW s
    PROVE  WireOf(o, s) = IF AliasInto(o, d.inputs[o], s) = NoName THEN NoName
                          ELSE WireOf(o, AliasInto(o, d.inputs[o], s))
<1> DEFINE i == AliasInto(o, d.inputs[o], s)
<1>1. d.inputs[o] \in SUBSET d.inputs[o]
    OBVIOUS
<1>2. i # NoName => i \in d.inputs[o]
    BY <1>1, AliasNarrowed
<1>3. CASE i = NoName
    BY <1>3, WireStep
<1>4. CASE i # NoName
    <2> HIDE DEF i
    <2>1. WireOf(o, i) = IF o = Top THEN i
                         ELSE IF d.conn[o][i] = NoName THEN NoName
                         ELSE WireOf(d.parent[o], d.conn[o][i])
        BY <1>2, <1>4, WireOfInput
    <2>2. WireOf(o, s) = IF o = Top THEN i
                         ELSE IF d.conn[o][i] = NoName THEN NoName
                         ELSE WireOf(d.parent[o], d.conn[o][i])
        BY <1>4, WireStep DEF i
    <2> QED BY <1>4, <2>1, <2>2 DEF i
<1> QED
    BY <1>3, <1>4

\* A wire is a top-level input.
LEMMA WireRange ==
    ASSUME d \in Designs, NEW o \in Occs(d), NEW s
    PROVE  WireOf(o, s) \in d.inputs[Top] \cup {NoName}
<1> DEFINE N == Len(d.parent)
           S == {p \in 1 .. N : \A x : WireOf(p, x) \in d.inputs[Top] \cup {NoName}}
<1>1. Occs(d) = 1 .. N /\ N \in Nat
    BY Occurrences
<1> HIDE DEF N
<1>2. ASSUME NEW p \in 1 .. N, \A q \in 1 .. p - 1 : q \in S PROVE p \in S
    <2>1. ASSUME NEW x PROVE WireOf(p, x) \in d.inputs[Top] \cup {NoName}
        <3> DEFINE i == AliasInto(p, d.inputs[p], x)
        <3>1. i \in d.inputs[p] \cup {NoName}
            <4>1. d.inputs[p] \in SUBSET d.inputs[p]
                OBVIOUS
            <4> QED BY <1>1, <4>1, AliasNarrowed
        <3>2. WireOf(p, x) = IF i = NoName \/ p = Top THEN i
                             ELSE IF d.conn[p][i] = NoName THEN NoName
                             ELSE WireOf(d.parent[p], d.conn[p][i])
            BY <1>1, WireStep
        <3> HIDE DEF i
        <3>3. CASE p = Top
            BY <3>1, <3>2, <3>3
        <3>4. CASE p # Top
            <4>1. d.parent[p] \in S
                BY <1>1, <1>2, <3>4, ParentBefore
            <4> QED BY <3>1, <3>2, <3>4, <4>1
        <3> QED BY <3>3, <3>4
    <2> QED BY <2>1
<1>3. \A p \in 1 .. N : p \in S
    <2> HIDE DEF S
    <2> QED BY <1>1, <1>2, InductionFromBelow
<1> QED
    BY <1>1, <1>3

\* What is said of the design holds on.
LEMMA DesignKept ==
    ASSUME d' = d
    PROVE  /\ \A o, Stop, s : AliasInto(o, Stop, s)' = AliasInto(o, Stop, s)
           /\ \A o, s : WireOf(o, s)' = WireOf(o, s)
           /\ \A o : LocalDemands(o)' = LocalDemands(o)
           /\ Uses' = Uses /\ NetDemands' = NetDemands
           /\ Supported' = Supported
           /\ \A c, port : ConnectedTo(c, port)' = ConnectedTo(c, port)
<1>1. \A o, Stop, s : AliasInto(o, Stop, s)' = AliasInto(o, Stop, s)
    BY DEF AliasInto
<1>2. \A o, s : WireOf(o, s)' = WireOf(o, s)
    BY DEF WireOf, AliasInto, Occs
<1>3. \A o : LocalDemands(o)' = LocalDemands(o)
    BY DEF LocalDemands
<1>4. Uses' = Uses
    BY <1>3 DEF Uses
<1>5. NetDemands' = NetDemands
    BY <1>2, <1>4 DEF NetDemands, NetOf
<1>6. Supported' = Supported
    BY <1>2, <1>4, <1>5 DEF Supported, NetOf, Conflict
<1>7. \A c, port : ConnectedTo(c, port)' = ConnectedTo(c, port)
    BY DEF ConnectedTo
<1> QED
    BY <1>1, <1>2, <1>3, <1>4, <1>5, <1>6, <1>7

-----------------------------------------------------------------------------
\* Registries.
Entries(reg) == {reg[i] : i \in DOMAIN reg}
IsRegistry(reg) == reg \in Seq(Entries(reg)) /\ \A i, j \in DOMAIN reg : reg[i] = reg[j] => i = j

\* An interned key is found at its identity; entries never move or repeat.
LEMMA Interning ==
    ASSUME NEW reg, IsRegistry(reg), NEW key
    PROVE  LET new == Interned(reg, key)
           IN  /\ IsRegistry(new)
               /\ IdIn(new, key) \in DOMAIN new /\ new[IdIn(new, key)] = key
               /\ DOMAIN reg \subseteq DOMAIN new
               /\ \A i \in DOMAIN reg : new[i] = reg[i]
<1> DEFINE new == Interned(reg, key)
<1>1. CASE \E i \in DOMAIN reg : reg[i] = key
    BY <1>1 DEF Interned, IdIn
<1>2. CASE ~ \E i \in DOMAIN reg : reg[i] = key
    <2>1. new = Append(reg, key)
        BY <1>2 DEF Interned
    <2> DEFINE S == Entries(reg) \cup {key}
    <2>2. reg \in Seq(S)
        BY DEF IsRegistry
    <2>3. /\ DOMAIN new = 1 .. Len(reg) + 1
          /\ \A i \in 1 .. Len(reg) : new[i] = reg[i]
          /\ new[Len(reg) + 1] = key
          /\ DOMAIN reg = 1 .. Len(reg) /\ Len(reg) \in Nat
        BY <2>1, <2>2
    <2>4. new \in Seq(Entries(new))
        <3>1. new \in Seq(S)
            BY <2>1, <2>2
        <3>2. \A i \in 1 .. Len(new) : new[i] \in Entries(new)
            BY <3>1 DEF Entries
        <3> QED
            BY <3>1, <3>2
    <2>5. \A i, j \in DOMAIN new : new[i] = new[j] => i = j
        BY <1>2, <2>3 DEF IsRegistry
    <2>6. Len(reg) + 1 \in DOMAIN new
        BY <2>3
    <2>7. IdIn(new, key) \in DOMAIN new /\ new[IdIn(new, key)] = key
        BY <2>3, <2>6 DEF IdIn
    <2> QED
        BY <2>3, <2>4, <2>5, <2>7 DEF IsRegistry
<1> QED
    BY <1>1, <1>2

-----------------------------------------------------------------------------
\* The inductive invariant: demands name classes, so that they reach a
\* registry; the current module's identities, and those of every flop of the
\* modules left behind, are the entries of the keys they stand for.
ClassesKnown ==
    /\ \A o \in Occs(d) : \A q \in demands[o] : q.cls \in Class
    /\ \A o \in Occs(d) : \A p \in DOMAIN ports[o] : ports[o][p].cls \in Class
    /\ \A q \in todo : q.cls \in Class

Registries ==
    /\ registry = [c \in Class |-> registry[c]]
    /\ \A c \in Class : IsRegistry(registry[c])

KeyOf(o, q) == <<source[o][<<q.cls, q.sig>>], q.edge>>

IdsKnown ==
    phase = "intern" =>
        /\ LocalDemands(at) \subseteq DOMAIN ids \cup todo
        /\ \A q \in DOMAIN ids : q.cls \in Class /\ HasKey(q.cls, ids[q], KeyOf(at, q))

Left(o) == o < at \/ phase = "done"
FlopsKnown ==
    \A o \in Occs(d) : Left(o) =>
        \A f \in d.flops[o] :
            /\ HasKey("clock", flopDomain[o][f].clock, <<source[o][<<"clock", f.clock>>], f.edge>>)
            /\ f.reset # NoName =>
                 HasKey("reset", flopDomain[o][f].reset, <<source[o][<<"reset", f.reset>>], f.level>>)

Shapes ==
    /\ d \in Designs /\ at \in Occs(d) /\ Occs(d) = 1 .. Len(d.parent) /\ Len(d.parent) \in Nat
    /\ DOMAIN demands = Occs(d) /\ DOMAIN ports = Occs(d) /\ DOMAIN source = Occs(d)
    /\ DOMAIN flopDomain = Occs(d)
    /\ phase \in {"collect", "ports", "enter", "intern", "done", "error"}
    /\ phase \in {"collect", "ports"} => at = Top

IInv == Shapes /\ ClassesKnown /\ Registries /\ IdsKnown /\ FlopsKnown

\* A compile starts without demands, identities or flops' domains.
LEMMA InitIInv == Init => IInv
<1> SUFFICES ASSUME Init PROVE IInv
    OBVIOUS
<1>1. Shapes
    <2>1. d \in Designs
        BY DEF Init
    <2> QED
        BY <2>1, Occurrences DEF Init, Shapes
<1>2. ClassesKnown
    <2>1. \A p \in DOMAIN DeclaredPorts(declared) : DeclaredPorts(declared)[p].cls \in Class
        <3> SUFFICES ASSUME NEW p \in DOMAIN DeclaredPorts(declared)
                     PROVE  DeclaredPorts(declared)[p].cls \in Class
            OBVIOUS
        <3> DEFINE names(c) == {n \in DOMAIN declared[c] : declared[c][n].port = p}
        <3>1. \E c \in Class : names(c) # {}
            BY DEF DeclaredPorts
        <3>2. (CHOOSE c \in Class : names(c) # {}) \in Class
            BY <3>1
        <3> QED
            BY <3>2 DEF DeclaredPorts
    <2>2. \A o \in Occs(d) : ports[o] = IF o = Top THEN DeclaredPorts(declared) ELSE Empty
        BY DEF Init
    <2>3. DOMAIN Empty = {}
        BY DEF Empty
    <2> QED
        BY <2>1, <2>2, <2>3 DEF Init, ClassesKnown
<1>3. Registries
    <2>1. IsRegistry(<<>>)
        BY DEF IsRegistry, Entries
    <2> QED
        BY <2>1 DEF Init, Registries
<1>4. IdsKnown /\ FlopsKnown
    BY <1>1 DEF Init, IdsKnown, FlopsKnown, Left, Top, Shapes
<1> QED
    BY <1>1, <1>2, <1>3, <1>4 DEF IInv

-----------------------------------------------------------------------------
\* Steps of the first walk leave what the second has built alone.
LEMMA DemandClasses ==
    ASSUME IInv, NEW o \in Occs(d)
    PROVE  \A q \in DemandsOf(o) : q.cls \in Class
<1>1. \A q \in LocalDemands(o) : q.cls \in Class
    BY DEF LocalDemands, Demand, Class
<1>2. \A q \in LiftedDemands(o) : q.cls \in Class
    BY DEF LiftedDemands, Demand, IInv, ClassesKnown, Children
<1> QED
    BY <1>1, <1>2 DEF DemandsOf

\* A rejection leaves everything in place.
LEMMA RejectIInv == IInv /\ Reject => IInv'
<1> SUFFICES ASSUME IInv, Reject PROVE IInv'
    OBVIOUS
<1>1. /\ phase' = "error"
      /\ UNCHANGED <<d, walked, demands, ports, declared, at, todo,
                     source, ids, registry, inputDomain, flopDomain, resolvedTop>>
    BY DEF Reject, firstWalk, identities
<1>2. Shapes'
    BY <1>1 DEF IInv, Shapes, Occs
<1>3. ClassesKnown' /\ Registries' /\ IdsKnown'
    BY <1>1 DEF IInv, ClassesKnown, Registries, IdsKnown, Occs
<1>4. FlopsKnown'
    BY <1>1 DEF IInv, FlopsKnown, Left, HasKey, Occs
<1> QED
    BY <1>2, <1>3, <1>4 DEF IInv

\* Collecting demands adds none that names no class.
LEMMA CollectIInv ==
    ASSUME IInv, NEW o \in Occs(d), CollectDemands(o)
    PROVE  IInv'
<1>1. CASE Reject
    BY <1>1, RejectIInv
<1>2. CASE /\ demands' = [demands EXCEPT ![o] = DemandsOf(o)]
           /\ UNCHANGED <<d, phase, ports, declared, at, todo, identities>>
    <2>1. ClassesKnown'
        BY <1>2, DemandClasses DEF IInv, Shapes, ClassesKnown, Occs
    <2>2. Shapes'
        BY <1>2 DEF IInv, Shapes, identities, Occs
    <2>3. Registries' /\ IdsKnown' /\ FlopsKnown'
        BY <1>2 DEF IInv, Registries, IdsKnown, FlopsKnown, Left, HasKey, KeyOf, LocalDemands,
                    identities, Occs
    <2> QED
        BY <2>1, <2>2, <2>3 DEF IInv
<1> QED
    BY <1>1, <1>2 DEF CollectDemands

\* Nor does declaring what was collected.
LEMMA InferTopIInv == IInv /\ InferTopDomains => IInv'
<1> SUFFICES ASSUME IInv, InferTopDomains PROVE IInv'
    OBVIOUS
<1>1. CASE Reject
    BY <1>1, RejectIInv
<1>2. CASE ~Reject
    <2> DEFINE P == [p \in {q.sig : q \in demands[Top]} |->
                        [cls |-> (CHOOSE q \in demands[Top] : q.sig = p).cls,
                         edge |-> LastOf({q.edge : q \in {r \in demands[Top] : r.sig = p}})]]
    <2>1. /\ ports' = [ports EXCEPT ![Top] = P] /\ demands' = [o \in Occs(d) |-> {}]
          /\ phase = "collect" /\ phase' = "ports"
          /\ UNCHANGED <<d, at, todo, identities>>
        BY <1>2 DEF InferTopDomains
    <2>2. \A p \in DOMAIN P : P[p].cls \in Class
        <3>1. Top \in Occs(d)
            BY Occurrences DEF IInv, Shapes
        <3>2. \A p \in DOMAIN P : (CHOOSE q \in demands[Top] : q.sig = p) \in demands[Top]
            OBVIOUS
        <3> QED
            BY <3>1, <3>2 DEF IInv, ClassesKnown
    <2>3. ClassesKnown'
        <3> HIDE DEF P
        <3> QED
            BY <2>1, <2>2 DEF IInv, Shapes, ClassesKnown, Occs
    <2>4. Shapes'
        BY <2>1 DEF IInv, Shapes, identities, Occs
    <2>5. Registries' /\ IdsKnown' /\ FlopsKnown'
        BY <2>1 DEF IInv, Registries, IdsKnown, FlopsKnown, Left, HasKey, identities, Occs
    <2> QED
        BY <2>3, <2>4, <2>5 DEF IInv
<1> QED
    BY <1>1, <1>2

\* Nor does the walk with checks.
LEMMA InferPortsIInv ==
    ASSUME IInv, NEW o \in Occs(d), InferPorts(o)
    PROVE  IInv'
<1>1. CASE Reject
    BY <1>1, RejectIInv
<1>2. CASE ~Reject
    <2> DEFINE P == DemandedPorts(DemandsOf(o))
    <2>1. /\ demands' = [demands EXCEPT ![o] = DemandsOf(o)]
          /\ ports' = ports \/ ports' = [ports EXCEPT ![o] = P]
          /\ phase = "ports" /\ phase' \in {"ports", "enter"}
          /\ UNCHANGED <<d, at, todo, identities>>
        BY <1>2 DEF InferPorts
    <2>2. \A p \in DOMAIN P : P[p].cls \in Class
        <3>1. \A p \in DOMAIN P :
                  P[p].cls = (CHOOSE q \in DemandsOf(o) : q.sig = p).cls
            BY DEF DemandedPorts
        <3>2. \A p \in DOMAIN P :
                  (CHOOSE q \in DemandsOf(o) : q.sig = p) \in DemandsOf(o)
            BY DEF DemandedPorts
        <3> QED
            BY <3>1, <3>2, DemandClasses
    <2>3. ClassesKnown'
        <3> HIDE DEF P
        <3>1. \A p \in Occs(d) : \A q \in demands'[p] : q.cls \in Class
            BY <2>1, DemandClasses DEF IInv, Shapes, ClassesKnown
        <3>2. \A p \in Occs(d) : \A x \in DOMAIN ports'[p] : ports'[p][x].cls \in Class
            BY <2>1, <2>2 DEF IInv, Shapes, ClassesKnown
        <3> QED
            BY <2>1, <3>1, <3>2 DEF IInv, ClassesKnown, Occs
    <2>4. Shapes'
        BY <2>1 DEF IInv, Shapes, identities, Occs
    <2>5. Registries' /\ IdsKnown' /\ FlopsKnown'
        BY <2>1 DEF IInv, Registries, IdsKnown, FlopsKnown, Left, HasKey, identities, Occs
    <2> QED
        BY <2>3, <2>4, <2>5 DEF IInv
<1> QED
    BY <1>1, <1>2

-----------------------------------------------------------------------------
\* Steps of the second walk.
LEMMA EnterIInv == IInv /\ EnterModule => IInv'
<1> SUFFICES ASSUME IInv, EnterModule PROVE IInv'
    OBVIOUS
<1> DEFINE D == ResolvedDemands(at) \cup (IF at = Top THEN DeclaredDemands ELSE {})
           S == [x \in {<<q.cls, q.sig>> : q \in D} |->
                    SourceFor(at, [cls |-> x[1], sig |-> x[2]])]
<1>1. CASE Reject
    BY <1>1, RejectIInv
<1>2. CASE ~Reject
    <2>1. /\ phase = "enter" /\ phase' = "intern" /\ source' = [source EXCEPT ![at] = S]
          /\ todo' = D /\ ids' = Empty
          /\ UNCHANGED <<d, firstWalk, at, registry, inputDomain, flopDomain, resolvedTop>>
        BY <1>2 DEF EnterModule
    <2>2. \A q \in D : q.cls \in Class
        <3>1. \A q \in LocalDemands(at) : q.cls \in Class
            BY DEF LocalDemands, Demand, Class
        <3>2. \A q \in PortDemands(at) : q.cls \in Class
            BY DEF PortDemands, Demand, IInv, ClassesKnown, Shapes
        <3>3. \A q \in DeclaredDemands : q.cls \in Class
            BY DEF DeclaredDemands, Demand
        <3> QED
            BY <3>1, <3>2, <3>3 DEF ResolvedDemands
    <2>3. LocalDemands(at) \subseteq D
        BY DEF ResolvedDemands
    <2> HIDE DEF D, S
    <2>4. Shapes' /\ ClassesKnown' /\ Registries'
        BY <2>1, <2>2 DEF IInv, Shapes, ClassesKnown, Registries, firstWalk, Occs
    <2>5. IdsKnown'
        <3>1. DOMAIN ids' = {}
            BY <2>1 DEF Empty
        <3>2. LocalDemands(at)' = LocalDemands(at)
            BY <2>1 DEF LocalDemands
        <3> QED
            BY <2>1, <2>3, <3>1, <3>2 DEF IdsKnown
    <2>6. FlopsKnown'
        <3> SUFFICES ASSUME NEW o \in Occs(d), o < at
                     PROVE  \A f \in d.flops[o] :
                              /\ HasKey("clock", flopDomain[o][f].clock,
                                        <<source[o][<<"clock", f.clock>>], f.edge>>)'
                              /\ f.reset # NoName =>
                                   HasKey("reset", flopDomain[o][f].reset,
                                          <<source[o][<<"reset", f.reset>>], f.level>>)'
            BY <2>1 DEF FlopsKnown, Left, Occs
        <3>1. source'[o] = source[o]
            BY <2>1 DEF IInv, Shapes
        <3> QED
            BY <2>1, <3>1 DEF IInv, FlopsKnown, Left, HasKey
    <2> QED
        BY <2>4, <2>5, <2>6 DEF IInv
<1> QED
    BY <1>1, <1>2

\* Interning a demand gives it an identity and moves no other.
LEMMA InternIInv ==
    ASSUME IInv, NEW q \in todo, InternDemand(q)
    PROVE  IInv'
<1> DEFINE key == KeyOf(at, q)
           reg == Interned(registry[q.cls], key)
           id == IdIn(reg, key)
<1>1. /\ phase = "intern" /\ todo' = todo \ {q}
      /\ registry' = [registry EXCEPT ![q.cls] = reg]
      /\ ids' = [x \in DOMAIN ids \cup {q} |-> IF x = q THEN id ELSE ids[x]]
      /\ UNCHANGED <<d, phase, firstWalk, at, source, flopDomain>>
    BY DEF InternDemand, KeyOf
<1>2. q.cls \in Class
    BY DEF IInv, ClassesKnown
<1>3. /\ IsRegistry(reg) /\ id \in DOMAIN reg /\ reg[id] = key
      /\ \A i \in DOMAIN registry[q.cls] : i \in DOMAIN reg /\ reg[i] = registry[q.cls][i]
    BY <1>2, Interning DEF IInv, Registries
<1>4. \A i, k : \A c \in Class : HasKey(c, i, k) => HasKey(c, i, k)'
    BY <1>1, <1>2, <1>3 DEF HasKey, IInv, Registries
<1>5. id \in DOMAIN registry'[q.cls] /\ registry'[q.cls][id] = key
    BY <1>1, <1>2, <1>3 DEF IInv, Registries
<1>6. Shapes' /\ ClassesKnown'
    BY <1>1 DEF IInv, Shapes, ClassesKnown, firstWalk, Occs
<1>7. Registries'
    BY <1>1, <1>2, <1>3 DEF IInv, Registries
<1>8. IdsKnown'
    <2>1. LocalDemands(at)' = LocalDemands(at) /\ \A x : KeyOf(at, x)' = KeyOf(at, x)
        BY <1>1 DEF LocalDemands, KeyOf
    <2>2. LocalDemands(at) \subseteq DOMAIN ids' \cup todo'
        BY <1>1 DEF IInv, IdsKnown
    <2>3. ASSUME NEW x \in DOMAIN ids' PROVE x.cls \in Class /\ HasKey(x.cls, ids[x], KeyOf(at, x))'
        <3> HIDE DEF key, reg, id
        <3>1. CASE x = q
            <4>1. ids'[x] = id /\ KeyOf(at, x)' = key
                BY <1>1, <2>1, <3>1 DEF key
            <4> QED
                BY <1>2, <1>5, <3>1, <4>1 DEF HasKey
        <3>2. CASE x # q
            <4>1. x \in DOMAIN ids /\ ids'[x] = ids[x]
                BY <1>1, <3>2
            <4>2. x.cls \in Class /\ HasKey(x.cls, ids[x], KeyOf(at, x))
                BY <1>1, <4>1 DEF IInv, IdsKnown
            <4> QED
                BY <1>4, <2>1, <4>1, <4>2 DEF HasKey
        <3> QED
            BY <3>1, <3>2
    <2> QED
        BY <2>1, <2>2, <2>3 DEF IdsKnown
<1>9. FlopsKnown'
    <2> HIDE DEF key, reg, id
    <2> SUFFICES ASSUME NEW o \in Occs(d), Left(o), NEW f \in d.flops[o]
                 PROVE  /\ HasKey("clock", flopDomain[o][f].clock,
                                  <<source[o][<<"clock", f.clock>>], f.edge>>)'
                        /\ f.reset # NoName =>
                             HasKey("reset", flopDomain[o][f].reset,
                                    <<source[o][<<"reset", f.reset>>], f.level>>)'
        BY <1>1 DEF FlopsKnown, Left, Occs
    <2>1. "clock" \in Class /\ "reset" \in Class
        BY DEF Class
    <2>2. /\ HasKey("clock", flopDomain[o][f].clock,
                    <<source[o][<<"clock", f.clock>>], f.edge>>)
          /\ f.reset # NoName =>
               HasKey("reset", flopDomain[o][f].reset,
                      <<source[o][<<"reset", f.reset>>], f.level>>)
        BY DEF IInv, FlopsKnown
    <2> QED
        BY <1>1, <1>4, <2>1, <2>2 DEF HasKey
<1> QED
    BY <1>6, <1>7, <1>8, <1>9 DEF IInv

\* The flops' identities are looked up while the module's are at hand.
LEMMA ResolveFlopsIInv == IInv /\ ResolveFlops => IInv'
<1> SUFFICES ASSUME IInv, ResolveFlops PROVE IInv'
    OBVIOUS
<1> DEFINE F == [f \in d.flops[at] |->
                    [clock |-> ids[Demand(f.clock, "clock", f.edge)],
                     reset |-> IF f.reset = NoName THEN 0
                               ELSE ids[Demand(f.reset, "reset", f.level)]]]
<1>1. /\ phase = "intern" /\ todo = {} /\ flopDomain' = [flopDomain EXCEPT ![at] = F]
      /\ \/ at + 1 \in Occs(d) /\ at' = at + 1 /\ phase' = "enter"
         \/ at + 1 \notin Occs(d) /\ at' = at /\ phase' = "done"
      /\ UNCHANGED <<d, firstWalk, todo, source, ids, registry, inputDomain, resolvedTop>>
    BY DEF ResolveFlops
<1>2. ASSUME NEW f \in d.flops[at]
      PROVE  /\ HasKey("clock", F[f].clock, <<source[at][<<"clock", f.clock>>], f.edge>>)
             /\ f.reset # NoName =>
                  HasKey("reset", F[f].reset, <<source[at][<<"reset", f.reset>>], f.level>>)
    <2>1. \A q \in LocalDemands(at) : HasKey(q.cls, ids[q], KeyOf(at, q))
        BY <1>1 DEF IInv, IdsKnown
    <2>2. /\ Demand(f.clock, "clock", f.edge) \in LocalDemands(at)
          /\ f.reset # NoName => Demand(f.reset, "reset", f.level) \in LocalDemands(at)
        BY DEF LocalDemands
    <2> QED
        BY <2>1, <2>2 DEF KeyOf, Demand
<1> HIDE DEF F
<1>3. Shapes' /\ ClassesKnown' /\ Registries' /\ IdsKnown'
    BY <1>1 DEF IInv, Shapes, ClassesKnown, Registries, IdsKnown, firstWalk, Occs
<1>4. FlopsKnown'
    <2> SUFFICES ASSUME NEW o \in Occs(d), Left(o)', NEW f \in d.flops[o]
                 PROVE  /\ HasKey("clock", flopDomain[o][f].clock,
                                  <<source[o][<<"clock", f.clock>>], f.edge>>)'
                        /\ f.reset # NoName =>
                             HasKey("reset", flopDomain[o][f].reset,
                                    <<source[o][<<"reset", f.reset>>], f.level>>)'
        BY <1>1 DEF FlopsKnown, Occs
    <2>1. o = at \/ o < at
        BY <1>1 DEF Left, IInv, Shapes
    <2>2. CASE o = at
        BY <1>1, <1>2, <2>2 DEF HasKey, IInv, Shapes
    <2>3. CASE o < at
        <3>1. flopDomain'[o] = flopDomain[o]
            BY <1>1, <2>3 DEF IInv, Shapes
        <3> QED
            BY <1>1, <2>3, <3>1 DEF HasKey, IInv, FlopsKnown, Left
    <2> QED
        BY <2>1, <2>2, <2>3
<1> QED
    BY <1>3, <1>4 DEF IInv

-----------------------------------------------------------------------------
\* The invariant holds in every state of a compile, accepted or rejected.
THEOREM Inductive == Spec => []IInv
<1>1. IInv /\ [Next]_vars => IInv'
    <2> SUFFICES ASSUME IInv, [Next]_vars PROVE IInv'
        OBVIOUS
    <2>1. CASE \E o \in Occs(d) : CollectDemands(o) \/ InferPorts(o)
        BY <2>1, CollectIInv, InferPortsIInv
    <2>2. CASE InferTopDomains
        BY <2>2, InferTopIInv
    <2>3. CASE EnterModule
        BY <2>3, EnterIInv
    <2>4. CASE \E q \in todo : InternDemand(q)
        BY <2>4, InternIInv
    <2>5. CASE ResolveFlops
        BY <2>5, ResolveFlopsIInv
    <2>6. CASE UNCHANGED vars
        BY <2>6 DEF vars, firstWalk, identities, IInv, Shapes, ClassesKnown, Registries,
                    IdsKnown, FlopsKnown, Left, HasKey, KeyOf, LocalDemands, Occs
    <2> QED
        BY <2>1, <2>2, <2>3, <2>4, <2>5, <2>6 DEF Next, Finished
<1> QED
    BY <1>1, InitIInv, PTL DEF Spec

\* Two identities are two different pairs of a source and an edge
\* (internClock and internReset look a key up before they append it).
THEOREM NoDuplicateIds == Spec => []OneIdPerSourceAndEdge
<1>1. IInv => OneIdPerSourceAndEdge
    BY DEF IInv, Registries, IsRegistry, OneIdPerSourceAndEdge
<1> QED
    BY <1>1, Inductive, PTL

\* After resolveGlobalDomains returns, the identities of each flop are those of
\* the source found for its clock and reset and of their edges, although the
\* registries went on growing after the flop's module was left.
THEOREM FlopIdsSound == Spec => []FlopDomainsFollowSources
<1>1. IInv => FlopDomainsFollowSources
    BY DEF IInv, FlopsKnown, Left, FlopDomainsFollowSources
<1> QED
    BY <1>1, Inductive, PTL

-----------------------------------------------------------------------------
(* The first walk.  Where it has been, the demands of an occurrence are    *)
(* those of its flops and of its children's ports, without a conflict, and *)
(* each stands for a use of the same wire by a flop.                       *)

WalkOrder ==
    /\ walked \subseteq Occs(d)
    /\ \A o \in walked : Children(d, o) \subseteq walked
    /\ phase \in {"enter", "intern", "done"} => walked = Occs(d)

Walked ==
    /\ \A o \in walked :
           /\ demands[o] = DemandsOf(o)
           /\ ~Unconnected(o) /\ ~Conflict(demands[o])
           /\ phase \notin {"collect", "error"} => Admissible(o, demands[o])
    /\ \A o \in Occs(d) \ walked : demands[o] = {}
    /\ \A o \in Occs(d) : DOMAIN ports[o] \subseteq d.inputs[o]
    /\ phase \notin {"collect", "error"} =>
           \A o \in walked \ {Top} : ports[o] = DemandedPorts(demands[o])

StemsFromUse(o, q) ==
    \E u \in Uses : u.cls = q.cls /\ u.edge = q.edge /\ NetOf(u) = WireOf(o, q.sig)
DemandsStem == \A o \in Occs(d) : \A q \in demands[o] : StemsFromUse(o, q)

\* The top-level domains: those of the YAML, or the demands of the flops.
DeclaredKnown ==
    /\ \A c \in Class : \A n \in DOMAIN declared[c] :
           declared[c][n] \in [port : d.inputs[Top], edge : Edge]
    /\ ~Conflict(DeclaredDemands)
    /\ PortDemands(Top) \subseteq DeclaredDemands
    /\ d.yaml.infer => \A q \in DeclaredDemands : StemsFromUse(Top, q)
    /\ ~d.yaml.infer => declared = d.yaml
    /\ phase = "collect" => d.yaml.infer

FirstWalkInv == WalkOrder /\ Walked /\ DemandsStem /\ DeclaredKnown

-----------------------------------------------------------------------------
\* What a port of a child is wired to.
LEMMA WireOfChildPort ==
    ASSUME d \in Designs, NEW o \in Occs(d), NEW c \in Children(d, o), NEW p,
           ConnectedTo(c, p) # NoName
    PROVE  LET via == AliasInto(o, d.inputs[o], ConnectedTo(c, p))
           IN  /\ c \in Occs(d) /\ c # Top /\ p \in d.inputs[c] /\ d.parent[c] = o
               /\ WireOf(c, p) = IF via = NoName THEN NoName ELSE WireOf(o, via)
<1>1. c \in Occs(d) /\ d.parent[c] = o
    BY DEF Children
<1>2. c # Top
    <2>1. d.parent[Top] = 0 /\ 0 \notin Occs(d)
        BY Occurrences, DesignsAssumption DEF DesignsWellFormed
    <2> QED BY <1>1, <2>1
<1>3. p \in d.inputs[c] /\ ConnectedTo(c, p) = d.conn[c][p]
    BY DEF ConnectedTo
<1>4. WireOf(c, p) = WireOf(o, d.conn[c][p])
    BY <1>1, <1>2, <1>3, WireOfInput
<1> QED
    BY <1>1, <1>2, <1>3, <1>4, WireThroughAliases

\* Demands are records.
LEMMA DemandShape ==
    ASSUME NEW o, NEW q \in DemandsOf(o)
    PROVE  q = Demand(q.sig, q.cls, q.edge)
<1>1. CASE q \in LocalDemands(o)
    BY <1>1 DEF LocalDemands, Demand
<1>2. CASE q \in LiftedDemands(o)
    BY <1>2 DEF LiftedDemands, Demand
<1> QED
    BY <1>1, <1>2 DEF DemandsOf

\* A flop's demand is its use.
LEMMA LocalStems ==
    ASSUME NEW o \in Occs(d), NEW q \in LocalDemands(o)
    PROVE  StemsFromUse(o, q)
<1> DEFINE u == [occ |-> o, sig |-> q.sig, cls |-> q.cls, edge |-> q.edge]
<1>1. u \in Uses
    BY DEF Uses
<1>2. u.cls = q.cls /\ u.edge = q.edge /\ NetOf(u) = WireOf(o, q.sig)
    BY DEF NetOf
<1> QED
    BY <1>1, <1>2 DEF StemsFromUse

\* Demands of an occurrence stem from uses when those of its children do.
LEMMA StemsUpwards ==
    ASSUME d \in Designs, NEW o \in Occs(d), ~Unconnected(o),
           \A c \in Children(d, o) : \A q \in demands[c] : StemsFromUse(c, q)
    PROVE  \A q \in DemandsOf(o) : StemsFromUse(o, q)
<1>1. ASSUME NEW q \in LiftedDemands(o) PROVE StemsFromUse(o, q)
    <2>1. PICK c \in Children(d, o) : \E r \in demands[c] :
            q = Demand(AliasInto(o, d.inputs[o], ConnectedTo(c, r.sig)), r.cls, r.edge)
        BY <1>1 DEF LiftedDemands
    <2>2. PICK r \in demands[c] :
            q = Demand(AliasInto(o, d.inputs[o], ConnectedTo(c, r.sig)), r.cls, r.edge)
        BY <2>1
    <2>3. ConnectedTo(c, r.sig) # NoName
        BY DEF Unconnected
    <2>4. q.sig # NoName /\ q.sig = AliasInto(o, d.inputs[o], ConnectedTo(c, r.sig))
          /\ q.cls = r.cls /\ q.edge = r.edge
        BY <1>1, <2>2 DEF LiftedDemands, Demand
    <2>5. WireOf(c, r.sig) = WireOf(o, q.sig)
        BY <2>3, <2>4, WireOfChildPort
    <2> QED BY <2>4, <2>5 DEF StemsFromUse
<1> QED
    BY <1>1, LocalStems DEF DemandsOf

\* What stems from a use has a class and an edge.
LEMMA StemTyped ==
    ASSUME d \in Designs, NEW o, NEW q, StemsFromUse(o, q)
    PROVE  q.cls \in Class /\ q.edge \in Edge
<1>1. PICK u \in Uses : u.cls = q.cls /\ u.edge = q.edge
    BY DEF StemsFromUse
<1>2. PICK p \in Occs(d) : \E r \in LocalDemands(p) : u.cls = r.cls /\ u.edge = r.edge
    BY <1>1 DEF Uses
<1>3. PICK r \in LocalDemands(p) : u.cls = r.cls /\ u.edge = r.edge
    BY <1>2
<1>4. \A f \in d.flops[p] : f.edge \in Edge /\ f.level \in Edge
    BY DesignsAssumption DEF DesignsWellFormed
<1>5. r.cls \in Class /\ r.edge \in Edge
    BY <1>4 DEF LocalDemands, Demand, Class
<1> QED
    BY <1>1, <1>3, <1>5

\* The port facts written for demands without a conflict are among them, one
\* for each port.
LEMMA PortsOfDemands ==
    ASSUME NEW D, ~Conflict(D), \A q \in D : q = Demand(q.sig, q.cls, q.edge),
           \A q \in D : q.cls \in Class /\ q.edge \in Edge
    PROVE  LET P == DemandedPorts(D)
           IN  /\ DOMAIN P = {q.sig : q \in D}
               /\ \A p \in DOMAIN P : Demand(p, P[p].cls, P[p].edge) \in D
               /\ \A q \in D : P[q.sig].cls = q.cls
<1> DEFINE P == DemandedPorts(D)
           Q(p) == CHOOSE q \in D : q.sig = p
<1>1. DOMAIN P = {q.sig : q \in D}
    BY DEF DemandedPorts
<1>2. ASSUME NEW p \in DOMAIN P
      PROVE  P[p].cls = Q(p).cls /\ P[p].edge = FirstEdge(D, p) /\ Q(p) \in D /\ Q(p).sig = p
    BY <1>2 DEF DemandedPorts
<1> HIDE DEF P, Q
<1>3. ASSUME NEW p \in DOMAIN P, NEW q \in D, q.sig = p PROVE q.cls = P[p].cls
    BY <1>2, <1>3 DEF Conflict
<1>4. ASSUME NEW p \in DOMAIN P PROVE Demand(p, P[p].cls, P[p].edge) \in D
    <2>1. Q(p) \in D /\ Q(p) = Demand(p, P[p].cls, Q(p).edge) /\ Q(p).edge \in Edge /\ P[p].cls \in Class
        BY <1>2
    <2>2. CASE Demand(p, "clock", 0) \in D \/ Demand(p, "reset", 0) \in D
        <3>1. P[p].edge = 0
            BY <1>2, <2>2 DEF FirstEdge
        <3>2. \A k : Demand(p, k, 0).sig = p /\ Demand(p, k, 0).cls = k
            BY DEF Demand
        <3>3. Demand(p, P[p].cls, 0) \in D
            BY <1>3, <2>2, <3>2
        <3> QED BY <3>1, <3>3
    <2>3. CASE ~(Demand(p, "clock", 0) \in D \/ Demand(p, "reset", 0) \in D)
        <3>1. P[p].edge = 1
            BY <1>2, <2>3 DEF FirstEdge
        <3>2. Q(p).edge # 0
            BY <2>1, <2>3 DEF Class
        <3> QED BY <2>1, <3>1, <3>2 DEF Edge
    <2> QED BY <2>2, <2>3
<1> QED
    BY <1>1, <1>3, <1>4 DEF P

-----------------------------------------------------------------------------
\* Steps of the first walk.
\* The top is the last occurrence left.
LEMMA LeavingTop ==
    ASSUME d \in Designs, WalkOrder, Leaving(Top)
    PROVE  Occs(d) = walked \cup {Top}
<1> DEFINE U == Occs(d) \ (walked \cup {Top})
<1>1. Occs(d) \subseteq Nat /\ Top \in Occs(d)
    BY Occurrences
<1>2. ASSUME U # {} PROVE FALSE
    <2>1. PICK o \in U : \A p \in U : o <= p
        BY <1>1, <1>2, LeastNatural
    <2>2. d.parent[o] \in Occs(d) /\ d.parent[o] \in 1 .. o - 1
        BY <2>1, ParentBefore
    <2>3. o \in Children(d, d.parent[o]) /\ o \notin walked
        BY DEF Children
    <2>4. d.parent[o] # Top
        BY <2>3 DEF Leaving
    <2>5. d.parent[o] \notin walked
        BY <2>3 DEF WalkOrder
    <2>6. d.parent[o] \in U
        BY <2>2, <2>4, <2>5
    <2>7. o <= d.parent[o] /\ o \in Nat
        BY <2>1, <2>6, <1>1
    <2> QED BY <2>2, <2>7
<1> QED
    BY <1>1, <1>2 DEF WalkOrder

\* The demands of an occurrence look at the design and at its children's.
LEMMA DemandsKept ==
    ASSUME d' = d, NEW o, \A c \in Children(d, o) : demands'[c] = demands[c]
    PROVE  DemandsOf(o)' = DemandsOf(o) /\ Unconnected(o)' = Unconnected(o)
<1>1. \A s, t, u : AliasInto(s, t, u)' = AliasInto(s, t, u)
    BY DesignKept
<1>2. \A c, port : ConnectedTo(c, port)' = ConnectedTo(c, port)
    BY DesignKept
<1>3. Children(d, o)' = Children(d, o)
    BY DEF Children, Occs
<1>4. LocalDemands(o)' = LocalDemands(o)
    BY DesignKept
<1>5. LiftedDemands(o)' = LiftedDemands(o)
    BY <1>1, <1>2, <1>3 DEF LiftedDemands
<1>6. Unconnected(o)' = Unconnected(o)
    BY <1>2, <1>3 DEF Unconnected
<1> QED
    BY <1>4, <1>5, <1>6 DEF DemandsOf

\* Uses and wires belong to the design.
LEMMA StemsKept ==
    ASSUME d' = d, NEW o, NEW q
    PROVE  StemsFromUse(o, q)' = StemsFromUse(o, q)
<1>1. Uses' = Uses /\ \A p, s : WireOf(p, s)' = WireOf(p, s)
    BY DesignKept
<1> QED
    BY <1>1 DEF StemsFromUse, NetOf

\* Leaving one more occurrence.
LEMMA OneMoreWalked ==
    ASSUME IInv, FirstWalkInv, NEW o \in Occs(d), Leaving(o),
           ~Unconnected(o), ~Conflict(DemandsOf(o)), d' = d,
           demands' = [demands EXCEPT ![o] = DemandsOf(o)], walked' = walked \cup {o}
    PROVE  /\ walked' \subseteq Occs(d)
           /\ \A p \in walked' : Children(d, p) \subseteq walked'
           /\ \A p \in walked' : /\ demands'[p] = DemandsOf(p)'
                                 /\ ~Unconnected(p)' /\ ~Conflict(demands'[p])
           /\ \A p \in Occs(d) \ walked' : demands'[p] = {}
           /\ DemandsStem'
<1>1. o \notin walked /\ Children(d, o) \subseteq walked /\ walked \subseteq Occs(d)
      /\ \A p \in walked : Children(d, p) \subseteq walked
    BY DEF Leaving, FirstWalkInv, WalkOrder
<1>2. d \in Designs /\ DOMAIN demands = Occs(d)
    BY DEF IInv, Shapes
<1>3. \A p \in Occs(d) : p # o => demands'[p] = demands[p]
    BY <1>2
<1>4. demands'[o] = DemandsOf(o)
    BY <1>2
<1>5. ASSUME NEW p \in walked' PROVE \A c \in Children(d, p) : demands'[c] = demands[c]
    <2>1. Children(d, p) \subseteq walked
        BY <1>1
    <2> QED BY <1>1, <1>3, <2>1
<1>6. ASSUME NEW p \in walked' PROVE DemandsOf(p)' = DemandsOf(p) /\ Unconnected(p)' = Unconnected(p)
    BY <1>5, DemandsKept
<1>7. ASSUME NEW p \in walked'
      PROVE  demands'[p] = DemandsOf(p)' /\ ~Unconnected(p)' /\ ~Conflict(demands'[p])
    <2>1. CASE p = o
        BY <1>4, <1>6, <2>1
    <2>2. CASE p # o
        <3>1. p \in walked /\ p \in Occs(d)
            BY <1>1, <2>2
        <3>2. demands[p] = DemandsOf(p) /\ ~Unconnected(p) /\ ~Conflict(demands[p])
            BY <3>1 DEF FirstWalkInv, Walked
        <3>3. demands'[p] = demands[p]
            BY <1>3, <2>2, <3>1
        <3> QED BY <1>6, <3>2, <3>3
    <2> QED BY <2>1, <2>2
<1>8. \A p \in Occs(d) \ walked' : demands'[p] = {}
    BY <1>3 DEF FirstWalkInv, Walked
<1>9. DemandsStem'
    <2>1. \A p \in Occs(d) : \A q \in demands[p] : StemsFromUse(p, q)
        BY DEF FirstWalkInv, DemandsStem
    <2>2. \A c \in Children(d, o) : \A q \in demands[c] : StemsFromUse(c, q)
        BY <2>1 DEF Children
    <2>3. \A q \in DemandsOf(o) : StemsFromUse(o, q)
        BY <1>2, <2>2, StemsUpwards
    <2>4. ASSUME NEW p \in Occs(d), NEW q \in demands'[p] PROVE StemsFromUse(p, q)'
        <3>1. StemsFromUse(p, q)
            BY <1>3, <1>4, <2>1, <2>3
        <3> QED BY <3>1, StemsKept
    <2> QED BY <2>4 DEF DemandsStem, Occs
<1> QED
    BY <1>1, <1>7, <1>8, <1>9

\* What is declared depends on nothing else.
LEMMA DeclaredKept ==
    ASSUME d' = d, declared' = declared, ports'[Top] = ports[Top],
           phase' = "collect" => phase = "collect", DeclaredKnown
    PROVE  DeclaredKnown'
<1>1. DeclaredDemands' = DeclaredDemands
    BY DEF DeclaredDemands
<1>2. PortDemands(Top)' = PortDemands(Top)
    BY DEF PortDemands
<1>3. \A q : StemsFromUse(Top, q)' = StemsFromUse(Top, q)
    BY StemsKept
<1> QED
    BY <1>1, <1>2, <1>3 DEF DeclaredKnown, Conflict

\* Steps that leave what the first walk has found alone.
LEMMA FirstWalkKept ==
    ASSUME IInv, FirstWalkInv, d' = d, UNCHANGED firstWalk,
           \/ phase' \in {phase, "error"}
           \/ phase \in {"enter", "intern"} /\ phase' \in {"enter", "intern", "done"}
    PROVE  FirstWalkInv'
<1>1. walked' = walked /\ demands' = demands /\ ports' = ports /\ declared' = declared
    BY DEF firstWalk
<1>2. \A o : DemandsOf(o)' = DemandsOf(o) /\ Unconnected(o)' = Unconnected(o)
    BY <1>1, DemandsKept
<1>3. \A o, q : StemsFromUse(o, q)' = StemsFromUse(o, q)
    BY StemsKept
<1>4. WalkOrder'
    BY <1>1 DEF FirstWalkInv, WalkOrder, Occs, Children
<1>5. Walked'
    <2>1. phase' \notin {"collect", "error"} => phase \notin {"collect", "error"}
        OBVIOUS
    <2>2. ASSUME NEW o \in walked
          PROVE  /\ (demands[o] = DemandsOf(o))' /\ ~Unconnected(o)' /\ ~Conflict(demands[o])'
                 /\ phase' \notin {"collect", "error"} => Admissible(o, demands[o])'
        <3>1. /\ demands[o] = DemandsOf(o) /\ ~Unconnected(o) /\ ~Conflict(demands[o])
              /\ phase' \notin {"collect", "error"} => Admissible(o, demands[o])
            BY <2>1 DEF FirstWalkInv, Walked
        <3>2. (demands[o] = DemandsOf(o))' /\ ~Unconnected(o)'
            BY <1>1, <1>2, <3>1
        <3>3. ~Conflict(demands[o])'
            BY <1>1, <3>1 DEF Conflict
        <3>4. Admissible(o, demands[o])' <=> Admissible(o, demands[o])
            BY <1>1 DEF Admissible, IsDeclared
        <3> QED BY <3>1, <3>2, <3>3, <3>4
    <2>3. /\ \A o \in Occs(d) \ walked : demands[o] = {}
          /\ \A o \in Occs(d) : DOMAIN ports[o] \subseteq d.inputs[o]
          /\ phase' \notin {"collect", "error"} =>
                 \A o \in walked \ {Top} : ports[o] = DemandedPorts(demands[o])
        BY <2>1 DEF FirstWalkInv, Walked
    <2>4. \A o : DemandedPorts(demands[o])' = DemandedPorts(demands[o])
        BY <1>1 DEF DemandedPorts, FirstEdge
    <2>5. walked' = walked /\ Occs(d)' = Occs(d) /\ demands' = demands /\ ports' = ports
        BY <1>1 DEF Occs
    <2> QED
        BY <2>2, <2>3, <2>4, <2>5 DEF Walked
<1>6. DemandsStem'
    BY <1>1, <1>3 DEF FirstWalkInv, DemandsStem, Occs
<1>7. DeclaredKnown'
    <2>1. phase' = "collect" => phase = "collect"
        OBVIOUS
    <2> QED BY <1>1, <2>1, DeclaredKept DEF FirstWalkInv
<1> QED
    BY <1>4, <1>5, <1>6, <1>7 DEF FirstWalkInv

\* A rejection leaves what was found in place.
LEMMA RejectFirst == IInv /\ FirstWalkInv /\ Reject => FirstWalkInv'
    BY FirstWalkKept DEF Reject

\* The walk that infers.
LEMMA CollectFirst ==
    ASSUME IInv, FirstWalkInv, NEW o \in Occs(d), CollectDemands(o)
    PROVE  FirstWalkInv'
<1>1. CASE Reject
    BY <1>1, RejectFirst
<1>2. CASE ~Reject
    <2>1. /\ phase = "collect" /\ Leaving(o) /\ ~Unconnected(o) /\ ~Conflict(DemandsOf(o))
          /\ demands' = [demands EXCEPT ![o] = DemandsOf(o)] /\ walked' = walked \cup {o}
          /\ d' = d /\ phase' = phase /\ ports' = ports /\ declared' = declared
        BY <1>2 DEF CollectDemands
    <2>2. /\ walked' \subseteq Occs(d)
          /\ \A p \in walked' : Children(d, p) \subseteq walked'
          /\ \A p \in walked' : /\ demands'[p] = DemandsOf(p)'
                                /\ ~Unconnected(p)' /\ ~Conflict(demands'[p])
          /\ \A p \in Occs(d) \ walked' : demands'[p] = {}
          /\ DemandsStem'
        BY <2>1, OneMoreWalked
    <2>3. WalkOrder'
        BY <2>1, <2>2 DEF WalkOrder, Occs, Children
    <2>4. Walked'
        <3>1. \A p \in Occs(d) : DOMAIN ports[p] \subseteq d.inputs[p]
            BY DEF FirstWalkInv, Walked
        <3>2. \A p \in walked' : (demands[p] = DemandsOf(p))' /\ ~Unconnected(p)' /\ ~Conflict(demands[p])'
            BY <2>2 DEF Conflict
        <3> QED BY <2>1, <2>2, <3>1, <3>2 DEF Walked, Occs
    <2>5. DeclaredKnown'
        BY <2>1, DeclaredKept DEF FirstWalkInv
    <2> QED BY <2>2, <2>3, <2>4, <2>5 DEF FirstWalkInv
<1> QED BY <1>1, <1>2

\* The walk that checks.
LEMMA InferPortsFirst ==
    ASSUME IInv, FirstWalkInv, NEW o \in Occs(d), InferPorts(o)
    PROVE  FirstWalkInv'
<1>1. CASE Reject
    BY <1>1, RejectFirst
<1>2. CASE ~Reject
    <2>1. /\ phase = "ports" /\ Leaving(o) /\ ~Unconnected(o) /\ ~Conflict(DemandsOf(o))
          /\ Admissible(o, DemandsOf(o))
          /\ demands' = [demands EXCEPT ![o] = DemandsOf(o)] /\ walked' = walked \cup {o}
          /\ ports' = IF o = Top THEN ports ELSE [ports EXCEPT ![o] = DemandedPorts(DemandsOf(o))]
          /\ phase' = IF o = Top THEN "enter" ELSE phase
          /\ d' = d /\ declared' = declared
        BY <1>2 DEF InferPorts
    <2>2. /\ walked' \subseteq Occs(d)
          /\ \A p \in walked' : Children(d, p) \subseteq walked'
          /\ \A p \in walked' : /\ demands'[p] = DemandsOf(p)'
                                /\ ~Unconnected(p)' /\ ~Conflict(demands'[p])
          /\ \A p \in Occs(d) \ walked' : demands'[p] = {}
          /\ DemandsStem'
        BY <2>1, OneMoreWalked
    <2>3. d \in Designs /\ DOMAIN demands = Occs(d) /\ DOMAIN ports = Occs(d)
        BY DEF IInv, Shapes
    <2>4. WalkOrder'
        <3>1. o = Top => walked' = Occs(d)
            BY <2>1, <2>3, LeavingTop DEF FirstWalkInv
        <3> QED
            BY <2>1, <2>2, <3>1 DEF WalkOrder, Occs, Children
    <2>5. o \notin walked /\ walked \subseteq Occs(d)
        BY <2>1 DEF Leaving, FirstWalkInv, WalkOrder
    <2>6. Walked'
        <3> DEFINE P == DemandedPorts(DemandsOf(o))
        <3>1. \A p \in walked : Admissible(p, demands[p])
            BY <2>1 DEF FirstWalkInv, Walked
        <3>2. ASSUME NEW p \in walked' PROVE Admissible(p, demands[p])'
            <4>1. Admissible(p, demands'[p])
                <5>1. CASE p = o
                    BY <2>1, <2>3, <5>1
                <5>2. CASE p # o
                    BY <2>1, <2>3, <2>5, <3>1, <5>2
                <5> QED BY <5>1, <5>2
            <4> QED BY <2>1, <4>1 DEF Admissible, IsDeclared
        <3>3. \A p \in walked' : (demands[p] = DemandsOf(p))' /\ ~Unconnected(p)' /\ ~Conflict(demands[p])'
            BY <2>2 DEF Conflict
        <3>4. o # Top => DOMAIN P \subseteq d.inputs[o]
            BY <2>1 DEF DemandedPorts, Admissible
        <3> HIDE DEF P
        <3>5. \A p \in Occs(d) : DOMAIN ports'[p] \subseteq d.inputs[p]
            BY <2>1, <2>3, <3>4 DEF FirstWalkInv, Walked, P
        <3>6. \A p \in walked' \ {Top} : ports'[p] = DemandedPorts(demands'[p])
            <4> SUFFICES ASSUME NEW p \in walked', p # Top PROVE ports'[p] = DemandedPorts(demands'[p])
                OBVIOUS
            <4>1. CASE p = o
                BY <2>1, <2>3, <4>1
            <4>2. CASE p # o
                <5>1. p \in walked /\ p \in Occs(d)
                    BY <2>1, <2>5, <4>2
                <5>2. ports[p] = DemandedPorts(demands[p])
                    BY <2>1, <5>1 DEF FirstWalkInv, Walked
                <5> QED BY <2>1, <2>3, <4>2, <5>1, <5>2
            <4> QED BY <4>1, <4>2
        <3>7. \A p \in walked' \ {Top} : (ports[p] = DemandedPorts(demands[p]))'
            BY <3>6 DEF DemandedPorts, FirstEdge
        <3> QED BY <2>1, <2>2, <3>2, <3>3, <3>5, <3>7 DEF Walked, Occs
    <2>7. DeclaredKnown'
        <3>1. ports'[Top] = ports[Top]
            BY <2>1, <2>3
        <3> QED BY <2>1, <3>1, DeclaredKept DEF FirstWalkInv
    <2> QED BY <2>2, <2>4, <2>6, <2>7 DEF FirstWalkInv
<1> QED BY <1>1, <1>2

\* The last edge written for a port is one of its edges.
LEMMA LastOfEdges ==
    ASSUME NEW S, S \subseteq Edge, S # {}
    PROVE  LastOf(S) \in S
<1>1. \E x \in S : \A y \in S : y <= x
    <2>1. CASE 1 \in S
        BY <2>1 DEF Edge
    <2>2. CASE 1 \notin S
        <3>1. 0 \in S /\ \A y \in S : y = 0
            BY <2>2 DEF Edge
        <3> QED BY <3>1
    <2> QED BY <2>1, <2>2
<1> QED BY <1>1 DEF LastOf

\* Between them, what was collected at the top becomes the declared domains.
LEMMA InferTopFirst ==
    ASSUME IInv, FirstWalkInv, InferTopDomains
    PROVE  FirstWalkInv' /\ (phase' = "ports" => DeclaredDemands' = demands[Top])
<1>1. CASE Reject
    <2>1. phase' = "error"
        BY <1>1 DEF Reject
    <2> QED BY <1>1, <2>1, RejectFirst
<1>2. CASE ~Reject
    <2> DEFINE D == demands[Top]
               P == [p \in {q.sig : q \in D} |->
                        [cls |-> (CHOOSE q \in D : q.sig = p).cls,
                         edge |-> LastOf({q.edge : q \in {r \in D : r.sig = p}})]]
    <2>1. /\ phase = "collect" /\ walked = Occs(d)
          /\ \A q \in D : q.sig \in d.inputs[Top]
          /\ declared' = [c \in Class |->
                    [n \in {<<q.sig, q.edge>> : q \in {r \in D : r.cls = c}} |->
                        [port |-> n[1], edge |-> n[2]]]]
          /\ ports' = [ports EXCEPT ![Top] = P]
          /\ demands' = [o \in Occs(d) |-> {}] /\ walked' = {} /\ phase' = "ports" /\ d' = d
        BY <1>2 DEF InferTopDomains
    <2>2. d \in Designs /\ Top \in Occs(d) /\ DOMAIN ports = Occs(d)
        BY Occurrences DEF IInv, Shapes
    <2>3. D = DemandsOf(Top) /\ ~Conflict(D) /\ \A q \in D : StemsFromUse(Top, q)
        BY <2>1, <2>2 DEF FirstWalkInv, Walked, DemandsStem
    <2>4. \A q \in D : q.cls \in Class /\ q.edge \in Edge /\ q = Demand(q.sig, q.cls, q.edge)
        <3>1. \A q \in D : q = Demand(q.sig, q.cls, q.edge)
            BY <2>3, DemandShape
        <3>2. \A q \in D : q.cls \in Class /\ q.edge \in Edge
            BY <2>2, <2>3, StemTyped
        <3> QED BY <3>1, <3>2
    <2>5. DOMAIN P = {q.sig : q \in D} /\ \A p \in DOMAIN P : Demand(p, P[p].cls, P[p].edge) \in D
        <3> SUFFICES ASSUME NEW p \in DOMAIN P PROVE Demand(p, P[p].cls, P[p].edge) \in D
            OBVIOUS
        <3> DEFINE S == {q.edge : q \in {r \in D : r.sig = p}}
                   first == CHOOSE q \in D : q.sig = p
        <3>1. first \in D /\ first.sig = p /\ P[p].cls = first.cls /\ P[p].edge = LastOf(S)
            OBVIOUS
        <3>2. S \subseteq Edge /\ S # {}
            BY <2>4, <3>1
        <3>3. LastOf(S) \in S
            BY <3>2, LastOfEdges
        <3>4. PICK r \in D : r.sig = p /\ r.edge = LastOf(S)
            BY <3>3
        <3> HIDE DEF P, S, first
        <3>5. r.cls = first.cls
            BY <2>3, <3>1, <3>4 DEF Conflict
        <3>6. r = Demand(p, P[p].cls, P[p].edge)
            BY <2>4, <3>1, <3>4, <3>5
        <3> QED BY <3>6
    <2> HIDE DEF P
    <2>6. /\ \A c \in Class : DOMAIN declared'[c] = {<<q.sig, q.edge>> : q \in {r \in D : r.cls = c}}
          /\ \A c \in Class : \A n \in DOMAIN declared'[c] : declared'[c][n] = [port |-> n[1], edge |-> n[2]]
        BY <2>1
    <2>7. DeclaredDemands' = D
        <3>1. ASSUME NEW q \in D PROVE q \in DeclaredDemands'
            <4>1. <<q.sig, q.edge>> \in DOMAIN declared'[q.cls] /\ q.cls \in Class
                BY <2>4, <2>6
            <4>2. declared'[q.cls][<<q.sig, q.edge>>] = [port |-> q.sig, edge |-> q.edge]
                BY <2>6, <4>1
            <4>3. Demand(declared'[q.cls][<<q.sig, q.edge>>].port, q.cls,
                         declared'[q.cls][<<q.sig, q.edge>>].edge) = q
                BY <2>4, <4>2
            <4> QED BY <4>1, <4>3 DEF DeclaredDemands, Demand
        <3>2. ASSUME NEW q \in DeclaredDemands' PROVE q \in D
            <4>1. PICK c \in Class : \E n \in DOMAIN declared'[c] :
                        q = Demand(declared'[c][n].port, c, declared'[c][n].edge)
                BY <3>2 DEF DeclaredDemands, Demand
            <4>2. PICK n \in DOMAIN declared'[c] :
                        q = Demand(declared'[c][n].port, c, declared'[c][n].edge)
                BY <4>1
            <4>3. PICK r \in D : r.cls = c /\ n = <<r.sig, r.edge>>
                BY <2>6
            <4>4. declared'[c][n].port = r.sig /\ declared'[c][n].edge = r.edge
                <5>1. declared'[c][n] = [port |-> n[1], edge |-> n[2]]
                    BY <2>6
                <5>2. n[1] = r.sig /\ n[2] = r.edge
                    BY <4>3
                <5> QED BY <5>1, <5>2
            <4> QED BY <2>4, <4>2, <4>3, <4>4
        <3> QED BY <3>1, <3>2
    <2>8. PortDemands(Top)' \subseteq D
        <3>1. ports'[Top] = P
            BY <2>1, <2>2
        <3>2. PortDemands(Top)' = {Demand(p, P[p].cls, P[p].edge) : p \in DOMAIN P}
            BY <3>1 DEF PortDemands, Demand
        <3> QED BY <2>5, <3>2
    <2>9. DeclaredKnown'
        <3>1. ASSUME NEW c \in Class, NEW n \in DOMAIN declared'[c]
              PROVE  declared'[c][n] \in [port : d.inputs[Top], edge : Edge]
            <4>1. PICK r \in D : r.cls = c /\ n = <<r.sig, r.edge>>
                BY <2>6
            <4>2. declared'[c][n] = [port |-> r.sig, edge |-> r.edge]
                BY <2>6, <4>1
            <4> QED BY <2>1, <2>4, <4>2
        <3>2. \A q \in DeclaredDemands' : StemsFromUse(Top, q)'
            BY <2>1, <2>3, <2>7, StemsKept
        <3>3. ~Conflict(DeclaredDemands)'
            BY <2>3, <2>7 DEF Conflict
        <3>4. d.yaml.infer
            BY <2>1 DEF FirstWalkInv, DeclaredKnown
        <3> QED BY <2>1, <2>7, <2>8, <3>1, <3>2, <3>3, <3>4 DEF DeclaredKnown
    <2>10. Walked'
        <3>1. \A p \in Occs(d) : DOMAIN ports'[p] \subseteq d.inputs[p]
            BY <2>1, <2>2, <2>5 DEF FirstWalkInv, Walked
        <3>2. \A o \in Occs(d) : demands'[o] = {}
            BY <2>1
        <3> QED BY <2>1, <3>1, <3>2 DEF Walked, Occs
    <2>11. WalkOrder'
        BY <2>1 DEF WalkOrder
    <2>12. DemandsStem'
        BY <2>1 DEF DemandsStem, Occs
    <2> QED BY <2>7, <2>9, <2>10, <2>11, <2>12 DEF FirstWalkInv
<1> QED BY <1>1, <1>2

\* The YAML declares ports without a conflict, and the facts of the declared
\* ports are among its declarations.
LEMMA YamlPorts ==
    ASSUME NEW top, NEW x \in Designs, d = x, \A c \in Class : top[c] = x.yaml[c]
    PROVE  LET P == DeclaredPorts(top)
           IN  /\ DOMAIN P \subseteq d.inputs[Top]
               /\ \A p \in DOMAIN P : P[p].cls \in Class /\
                     \E n \in DOMAIN top[P[p].cls] : /\ top[P[p].cls][n].port = p
                                                     /\ top[P[p].cls][n].edge = P[p].edge
<1> DEFINE P == DeclaredPorts(top)
           names(p, c) == {n \in DOMAIN top[c] : top[c][n].port = p}
<1>1. DOMAIN P \subseteq d.inputs[Top]
    BY DEF DeclaredPorts
<1>2. ASSUME NEW p \in DOMAIN P
      PROVE  P[p].cls \in Class /\
                     \E n \in DOMAIN top[P[p].cls] : /\ top[P[p].cls][n].port = p
                                                     /\ top[P[p].cls][n].edge = P[p].edge
    <2> DEFINE c == CHOOSE c \in Class : names(p, c) # {}
               S == names(p, c)
    <2>1. \E k \in Class : names(p, k) # {}
        BY DEF DeclaredPorts
    <2>2. c \in Class /\ S # {}
        BY <2>1
    <2>3. P[p].cls = c /\ P[p].edge = top[c][LastOf(S)].edge
        BY DEF DeclaredPorts
    <2>4. IsFiniteSet(DOMAIN top[c]) /\ DOMAIN top[c] \subseteq Nat
        BY <2>2, DesignsAssumption DEF DesignsWellFormed, YamlWellFormed
    <2>5. S \in SUBSET Nat /\ IsFiniteSet(S)
        <3>1. S \subseteq DOMAIN top[c]
            OBVIOUS
        <3> QED BY <2>4, <3>1, FS_Subset
    <2> HIDE DEF c, S
    <2>6. \E n \in S : \A m \in S : m <= n
        BY <2>2, <2>5, GreatestNatural
    <2>7. LastOf(S) \in S
        BY <2>6 DEF LastOf
    <2>8. LastOf(S) \in DOMAIN top[c] /\ top[c][LastOf(S)].port = p
        BY <2>7 DEF S
    <2> QED BY <2>2, <2>3, <2>8
<1> QED BY <1>1, <1>2 DEF P

\* The YAML's declarations are demands without a conflict.
LEMMA YamlDemands ==
    ASSUME d \in Designs, \A c \in Class : declared[c] = d.yaml[c]
    PROVE  /\ \A c \in Class : \A n \in DOMAIN declared[c] :
                  declared[c][n] \in [port : d.inputs[Top], edge : Edge]
           /\ ~Conflict(DeclaredDemands)
<1>1. YamlWellFormed(d)
    BY DesignsAssumption DEF DesignsWellFormed
<1>2. ASSUME Conflict(DeclaredDemands) PROVE FALSE
    <2>1. PICK p \in DeclaredDemands : \E q \in DeclaredDemands :
                p.sig = q.sig /\ (p.cls # q.cls \/ (p.cls = "reset" /\ p.edge # q.edge))
        BY <1>2 DEF Conflict
    <2>2. PICK q \in DeclaredDemands :
                p.sig = q.sig /\ (p.cls # q.cls \/ (p.cls = "reset" /\ p.edge # q.edge))
        BY <2>1
    <2>3. \A x \in DeclaredDemands : x.cls \in Class /\
              \E n \in DOMAIN declared[x.cls] : x.sig = declared[x.cls][n].port /\ x.edge = declared[x.cls][n].edge
        BY DEF DeclaredDemands, Demand
    <2>4. PICK m \in DOMAIN declared[p.cls] : p.sig = declared[p.cls][m].port /\ p.edge = declared[p.cls][m].edge
        BY <2>3
    <2>5. PICK n \in DOMAIN declared[q.cls] : q.sig = declared[q.cls][n].port /\ q.edge = declared[q.cls][n].edge
        BY <2>3
    <2>6. p.cls \in Class /\ q.cls \in Class
        BY <2>3
    <2> DEFINE C == declared["clock"]
               R == declared["reset"]
    <2>0. /\ \A i \in DOMAIN C, j \in DOMAIN R : C[i].port # R[j].port
          /\ \A i, j \in DOMAIN R : R[i].port = R[j].port => i = j
        <3>1. C = d.yaml["clock"] /\ R = d.yaml["reset"]
            BY DEF Class
        <3> QED BY <1>1, <3>1 DEF YamlWellFormed
    <2>7. CASE p.cls = "clock" /\ q.cls = "reset"
        <3>1. m \in DOMAIN C /\ n \in DOMAIN R /\ p.sig = C[m].port /\ q.sig = R[n].port
            BY <2>4, <2>5, <2>7
        <3> QED BY <2>0, <2>2, <3>1
    <2>8. CASE p.cls = "reset" /\ q.cls = "clock"
        <3>1. m \in DOMAIN R /\ n \in DOMAIN C /\ p.sig = R[m].port /\ q.sig = C[n].port
            BY <2>4, <2>5, <2>8
        <3>2. C[n].port # R[m].port
            BY <2>0, <3>1
        <3> QED BY <2>2, <3>1, <3>2
    <2>9. CASE p.cls = "reset" /\ q.cls = "reset"
        <3>1. m = n
            BY <2>0, <2>2, <2>4, <2>5, <2>9
        <3> QED BY <2>2, <2>4, <2>5, <2>9, <3>1
    <2> QED BY <2>2, <2>6, <2>7, <2>8, <2>9 DEF Class
<1>3. \A c \in Class : \A n \in DOMAIN declared[c] :
                  declared[c][n] \in [port : d.inputs[Top], edge : Edge]
    BY <1>1 DEF YamlWellFormed
<1> QED BY <1>2, <1>3

\* Before the walk only the declared ports are known.
LEMMA InitFirst == Init => FirstWalkInv
<1> SUFFICES ASSUME Init PROVE FirstWalkInv
    OBVIOUS
<1>1. d \in Designs /\ Top \in Occs(d)
    BY Occurrences DEF Init
<1>2. /\ walked = {} /\ \A o \in Occs(d) : demands[o] = {}
      /\ phase = IF d.yaml.infer THEN "collect" ELSE "ports"
      /\ declared = IF d.yaml.infer THEN [c \in Class |-> Empty] ELSE d.yaml
      /\ \A o \in Occs(d) : ports[o] = IF o = Top THEN DeclaredPorts(declared) ELSE Empty
    BY DEF Init
<1>3. DOMAIN Empty = {}
    BY DEF Empty
<1>4. WalkOrder
    BY <1>2 DEF WalkOrder
<1>5. DemandsStem
    BY <1>2 DEF DemandsStem
<1>6. CASE d.yaml.infer
    <2>1. \A c \in Class : DOMAIN declared[c] = {}
        BY <1>2, <1>3, <1>6
    <2>2. DeclaredDemands = {}
        BY <2>1 DEF DeclaredDemands
    <2>3. DOMAIN ports[Top] = {}
        BY <1>1, <1>2, <2>1 DEF DeclaredPorts
    <2>4. PortDemands(Top) = {}
        BY <2>3 DEF PortDemands
    <2>5. DeclaredKnown
        BY <1>6, <2>1, <2>2, <2>4 DEF DeclaredKnown, Conflict
    <2>6. Walked
        BY <1>2, <1>3, <2>3 DEF Walked
    <2> QED BY <1>4, <1>5, <2>5, <2>6 DEF FirstWalkInv
<1>7. CASE ~d.yaml.infer
    <2>1. declared = d.yaml /\ ports[Top] = DeclaredPorts(declared)
        BY <1>1, <1>2, <1>7
    <2> DEFINE P == DeclaredPorts(declared)
    <2>2. /\ DOMAIN P \subseteq d.inputs[Top]
          /\ \A p \in DOMAIN P : P[p].cls \in Class /\
                     \E n \in DOMAIN declared[P[p].cls] : /\ declared[P[p].cls][n].port = p
                                                          /\ declared[P[p].cls][n].edge = P[p].edge
        BY <1>1, <2>1, YamlPorts
    <2> HIDE DEF P
    <2>3. PortDemands(Top) \subseteq DeclaredDemands
        BY <2>1, <2>2 DEF PortDemands, DeclaredDemands, P
    <2>4. /\ \A c \in Class : \A n \in DOMAIN declared[c] :
                  declared[c][n] \in [port : d.inputs[Top], edge : Edge]
          /\ ~Conflict(DeclaredDemands)
        BY <1>1, <2>1, YamlDemands
    <2>5. DeclaredKnown
        BY <1>2, <1>7, <2>1, <2>3, <2>4 DEF DeclaredKnown
    <2>6. Walked
        BY <1>2, <1>3, <2>1, <2>2 DEF Walked, P
    <2> QED BY <1>4, <1>5, <2>5, <2>6 DEF FirstWalkInv
<1> QED BY <1>6, <1>7

-----------------------------------------------------------------------------
\* Demands, nets and supported designs.
\* What is lifted is an input.
LEMMA LiftedIsInput ==
    ASSUME d \in Designs, NEW o \in Occs(d), NEW q \in LiftedDemands(o)
    PROVE  q.sig \in d.inputs[o]
<1>1. PICK c \in Children(d, o) : \E r \in demands[c] :
        q = Demand(AliasInto(o, d.inputs[o], ConnectedTo(c, r.sig)), r.cls, r.edge)
    BY DEF LiftedDemands
<1>2. PICK r \in demands[c] :
        q = Demand(AliasInto(o, d.inputs[o], ConnectedTo(c, r.sig)), r.cls, r.edge)
    BY <1>1
<1>3. q.sig # NoName /\ q.sig = AliasInto(o, d.inputs[o], ConnectedTo(c, r.sig))
    BY <1>2 DEF LiftedDemands, Demand
<1>4. AliasInto(o, d.inputs[o], ConnectedTo(c, r.sig)) \in d.inputs[o] \cup {NoName}
    <2>1. d.inputs[o] \in SUBSET d.inputs[o]
        OBVIOUS
    <2> QED BY <2>1, AliasNarrowed
<1> QED BY <1>3, <1>4

\* In a supported design every demand is on an input.
LEMMA DemandsOnInputs ==
    ASSUME d \in Designs, NEW o \in Occs(d), Supported
    PROVE  \A q \in DemandsOf(o) : q.sig \in d.inputs[o]
<1>1. ASSUME NEW q \in LocalDemands(o) PROVE q.sig \in d.inputs[o]
    <2> DEFINE u == [occ |-> o, sig |-> q.sig, cls |-> q.cls, edge |-> q.edge]
    <2>1. u \in Uses
        BY DEF Uses
    <2>2. u.sig \in d.inputs[u.occ]
        BY <2>1 DEF Supported
    <2> QED BY <2>2
<1> QED BY <1>1, LiftedIsInput DEF DemandsOf

\* A demand that stems from a use is, in a supported design, on a wire, and
\* the wire is demanded.
LEMMA StemsOnNet ==
    ASSUME NEW o, NEW q, StemsFromUse(o, q)
    PROVE  /\ Demand(WireOf(o, q.sig), q.cls, q.edge) \in NetDemands
           /\ Supported => WireOf(o, q.sig) # NoName
<1>1. PICK u \in Uses : u.cls = q.cls /\ u.edge = q.edge /\ NetOf(u) = WireOf(o, q.sig)
    BY DEF StemsFromUse
<1>2. Demand(NetOf(u), u.cls, u.edge) \in NetDemands
    BY DEF NetDemands
<1>3. Supported => NetOf(u) # NoName
    BY DEF Supported
<1> QED BY <1>1, <1>2, <1>3

\* Nets have classes and edges.
LEMMA NetShape ==
    ASSUME d \in Designs, NEW q \in NetDemands
    PROVE  q = Demand(q.sig, q.cls, q.edge) /\ q.cls \in Class /\ q.edge \in Edge
<1>1. PICK u \in Uses : q = Demand(NetOf(u), u.cls, u.edge)
    BY DEF NetDemands
<1>2. PICK p \in Occs(d) : \E r \in LocalDemands(p) : u.cls = r.cls /\ u.edge = r.edge
    BY DEF Uses
<1>3. PICK r \in LocalDemands(p) : u.cls = r.cls /\ u.edge = r.edge
    BY <1>2
<1>4. \A f \in d.flops[p] : f.edge \in Edge /\ f.level \in Edge
    BY DesignsAssumption DEF DesignsWellFormed
<1>5. r.cls \in Class /\ r.edge \in Edge
    BY <1>4 DEF LocalDemands, Demand, Class
<1> QED BY <1>1, <1>3, <1>5 DEF Demand

\* In a supported design no net is demanded in two ways: the YAML does not
\* declare it in two ways.
LEMMA NetsAgree ==
    ASSUME d \in Designs, Supported
    PROVE  ~Conflict(NetDemands)
<1>1. CASE d.yaml.infer
    BY <1>1 DEF Supported
<1>2. CASE ~d.yaml.infer
    <2> DEFINE C == d.yaml["clock"]
               R == d.yaml["reset"]
    <2>0. /\ \A i \in DOMAIN C, j \in DOMAIN R : C[i].port # R[j].port
          /\ \A i, j \in DOMAIN R : R[i].port = R[j].port => i = j
        BY DesignsAssumption DEF DesignsWellFormed, YamlWellFormed
    <2>1. ASSUME NEW q \in NetDemands
          PROVE  /\ q.cls = "clock" => \E n \in DOMAIN C : C[n] = [port |-> q.sig, edge |-> q.edge]
                 /\ q.cls = "reset" => \E n \in DOMAIN R : R[n] = [port |-> q.sig, edge |-> q.edge]
                 /\ q.cls \in {"clock", "reset"}
        <3>1. \E n \in DOMAIN d.yaml[q.cls] : d.yaml[q.cls][n] = [port |-> q.sig, edge |-> q.edge]
            BY <1>2 DEF Supported
        <3>2. q.cls \in {"clock", "reset"}
            BY NetShape DEF Class
        <3> QED BY <3>1, <3>2
    <2> HIDE DEF C, R
    <2>2. SUFFICES ASSUME NEW p \in NetDemands, NEW q \in NetDemands, p.sig = q.sig,
                          p.cls # q.cls \/ (p.cls = "reset" /\ p.edge # q.edge)
                   PROVE  FALSE
        BY DEF Conflict
    <2>3. CASE p.cls = "clock" /\ q.cls = "reset"
        <3>1. PICK m \in DOMAIN C : C[m] = [port |-> p.sig, edge |-> p.edge]
            BY <2>1, <2>3
        <3>2. PICK n \in DOMAIN R : R[n] = [port |-> q.sig, edge |-> q.edge]
            BY <2>1, <2>3
        <3>3. C[m].port = R[n].port
            BY <2>2, <3>1, <3>2
        <3> QED BY <2>0, <3>3
    <2>4. CASE p.cls = "reset" /\ q.cls = "clock"
        <3>1. PICK m \in DOMAIN R : R[m] = [port |-> p.sig, edge |-> p.edge]
            BY <2>1, <2>4
        <3>2. PICK n \in DOMAIN C : C[n] = [port |-> q.sig, edge |-> q.edge]
            BY <2>1, <2>4
        <3>3. C[n].port = R[m].port
            BY <2>2, <3>1, <3>2
        <3> QED BY <2>0, <3>3
    <2>5. CASE p.cls = "reset" /\ q.cls = "reset"
        <3>1. PICK m \in DOMAIN R : R[m] = [port |-> p.sig, edge |-> p.edge]
            BY <2>1, <2>5
        <3>2. PICK n \in DOMAIN R : R[n] = [port |-> q.sig, edge |-> q.edge]
            BY <2>1, <2>5
        <3>3. R[m].port = R[n].port
            BY <2>2, <3>1, <3>2
        <3>4. m = n
            BY <2>0, <3>3
        <3> QED BY <2>2, <2>5, <3>1, <3>2, <3>4
    <2>6. p.cls \in {"clock", "reset"} /\ q.cls \in {"clock", "reset"}
        BY <2>1
    <2> QED BY <2>2, <2>3, <2>4, <2>5, <2>6
<1> QED BY <1>1, <1>2

\* Demands on wires reach the top.
LEMMA DemandsReachTop ==
    ASSUME d \in Designs, Walked, walked = Occs(d)
    PROVE  \A o \in Occs(d) : \A q \in demands[o] :
               q.sig \in d.inputs[o] /\ WireOf(o, q.sig) # NoName =>
                   Demand(WireOf(o, q.sig), q.cls, q.edge) \in demands[Top]
<1> DEFINE N == Len(d.parent)
           S == {o \in 1 .. N : \A q \in demands[o] :
                   q.sig \in d.inputs[o] /\ WireOf(o, q.sig) # NoName =>
                       Demand(WireOf(o, q.sig), q.cls, q.edge) \in demands[Top]}
<1>1. Occs(d) = 1 .. N /\ N \in Nat /\ Top \in Occs(d)
    BY Occurrences
<1>2. ASSUME NEW o \in 1 .. N, \A m \in 1 .. o - 1 : m \in S PROVE o \in S
    <2>0. o \in Occs(d) /\ demands[o] = DemandsOf(o) /\ ~Unconnected(o)
        BY <1>1 DEF Walked
    <2> SUFFICES ASSUME NEW q \in demands[o], q.sig \in d.inputs[o], WireOf(o, q.sig) # NoName
                 PROVE  Demand(WireOf(o, q.sig), q.cls, q.edge) \in demands[Top]
        OBVIOUS
    <2>1. q = Demand(q.sig, q.cls, q.edge)
        BY <2>0, DemandShape
    <2>2. CASE o = Top
        <3>1. WireOf(o, q.sig) = q.sig
            BY <2>0, <2>2, WireOfInput
        <3> QED BY <2>1, <2>2, <3>1
    <2>3. CASE o # Top
        <3> DEFINE p == d.parent[o]
                   via == AliasInto(p, d.inputs[p], ConnectedTo(o, q.sig))
                   r == Demand(via, q.cls, q.edge)
        <3>1. p \in Occs(d) /\ p \in 1 .. o - 1
            BY <2>0, <2>3, ParentBefore
        <3>2. o \in Children(d, p)
            BY <2>0 DEF Children
        <3>3. demands[p] = DemandsOf(p) /\ ~Unconnected(p)
            BY <1>1, <3>1 DEF Walked
        <3>4. ConnectedTo(o, q.sig) # NoName
            BY <3>2, <3>3 DEF Unconnected
        <3>5. WireOf(o, q.sig) = IF via = NoName THEN NoName ELSE WireOf(p, via)
            BY <3>1, <3>2, <3>4, WireOfChildPort
        <3>6. via # NoName /\ WireOf(o, q.sig) = WireOf(p, via)
            BY <3>5
        <3>7. via \in d.inputs[p]
            <4>1. d.inputs[p] \in SUBSET d.inputs[p]
                OBVIOUS
            <4>2. via \in d.inputs[p] \cup {NoName}
                BY <3>1, <4>1, AliasNarrowed
            <4> QED BY <3>6, <4>2
        <3>8. r.sig = via /\ r.cls = q.cls /\ r.edge = q.edge
            BY DEF Demand
        <3>9. r \in LiftedDemands(p)
            BY <3>2, <3>6, <3>8 DEF LiftedDemands
        <3>10. r \in demands[p]
            BY <3>3, <3>9 DEF DemandsOf
        <3> HIDE DEF p, via, r
        <3>11. p \in S
            BY <1>2, <3>1
        <3> QED BY <3>6, <3>7, <3>8, <3>10, <3>11
    <2> QED BY <2>2, <2>3
<1>3. \A o \in 1 .. N : o \in S
    <2> HIDE DEF S, N
    <2> QED BY <1>1, <1>2, InductionFromBelow
<1> QED BY <1>1, <1>3

\* So the nets of a design reach it, where every use is on a wired input.
LEMMA NetsReachTop ==
    ASSUME d \in Designs, Walked, walked = Occs(d),
           \A u \in Uses : u.sig \in d.inputs[u.occ] /\ NetOf(u) # NoName
    PROVE  NetDemands \subseteq demands[Top]
<1> SUFFICES ASSUME NEW n \in NetDemands PROVE n \in demands[Top]
    OBVIOUS
<1>1. PICK u \in Uses : n = Demand(NetOf(u), u.cls, u.edge)
    BY DEF NetDemands
<1>2. PICK o \in Occs(d) : \E r \in LocalDemands(o) : u = [occ |-> o, sig |-> r.sig, cls |-> r.cls, edge |-> r.edge]
    BY DEF Uses
<1>3. PICK r \in LocalDemands(o) : u = [occ |-> o, sig |-> r.sig, cls |-> r.cls, edge |-> r.edge]
    BY <1>2
<1>4. u.occ = o /\ u.sig = r.sig /\ u.cls = r.cls /\ u.edge = r.edge
    BY <1>3
<1>5. r \in demands[o]
    BY DEF Walked, DemandsOf
<1>6. r.sig \in d.inputs[o] /\ NetOf(u) = WireOf(o, r.sig) /\ WireOf(o, r.sig) # NoName
    BY <1>4 DEF NetOf
<1>7. Demand(WireOf(o, r.sig), r.cls, r.edge) \in demands[Top]
    BY <1>5, <1>6, DemandsReachTop
<1> QED BY <1>1, <1>4, <1>6, <1>7

-----------------------------------------------------------------------------
\* The outcome of the first walk: it rejects no supported design, and finds
\* every net of a supported design declared.
FirstOutcome ==
    /\ phase = "error" => ~Supported
    /\ Supported /\ phase # "collect" => NetDemands \subseteq DeclaredDemands

\* A supported design gives neither walk a reason to reject an occurrence.
LEMMA NoReasonToReject ==
    ASSUME IInv, FirstWalkInv, Supported, NEW o \in Occs(d), Leaving(o)
    PROVE  /\ ~Unconnected(o) /\ ~Conflict(DemandsOf(o))
           /\ \A q \in DemandsOf(o) : StemsFromUse(o, q) /\ q.sig \in d.inputs[o]
<1>1. d \in Designs
    BY DEF IInv, Shapes
<1>2. ASSUME NEW c \in Children(d, o), NEW q \in demands[c]
      PROVE  StemsFromUse(c, q) /\ ConnectedTo(c, q.sig) # NoName
    <2>1. c \in Occs(d) /\ d.parent[c] = o /\ c \in walked
        BY DEF Children, Leaving
    <2>2. StemsFromUse(c, q)
        BY <2>1 DEF FirstWalkInv, DemandsStem
    <2>3. q.sig \in d.inputs[c]
        <3>1. demands[c] = DemandsOf(c)
            BY <2>1 DEF FirstWalkInv, Walked
        <3> QED BY <1>1, <2>1, <3>1, DemandsOnInputs
    <2>4. WireOf(c, q.sig) # NoName
        BY <2>2, StemsOnNet
    <2>5. c # Top
        <3>1. d.parent[Top] = 0 /\ 0 \notin Occs(d)
            BY <1>1, Occurrences, DesignsAssumption DEF DesignsWellFormed
        <3> QED BY <2>1, <3>1
    <2>6. d.conn[c][q.sig] # NoName
        BY <1>1, <2>1, <2>3, <2>4, <2>5, WireOfInput
    <2> QED BY <2>2, <2>3, <2>6 DEF ConnectedTo
<1>3. ~Unconnected(o)
    BY <1>2 DEF Unconnected
<1>4. \A q \in DemandsOf(o) : StemsFromUse(o, q)
    BY <1>1, <1>2, <1>3, StemsUpwards
<1>5. \A q \in DemandsOf(o) : q.sig \in d.inputs[o]
    BY <1>1, DemandsOnInputs
<1>6. ~Conflict(DemandsOf(o))
    <2> SUFFICES ASSUME NEW p \in DemandsOf(o), NEW q \in DemandsOf(o), p.sig = q.sig,
                        p.cls # q.cls \/ (p.cls = "reset" /\ p.edge # q.edge)
                 PROVE  FALSE
        BY DEF Conflict
    <2> DEFINE m == Demand(WireOf(o, p.sig), p.cls, p.edge)
               n == Demand(WireOf(o, q.sig), q.cls, q.edge)
    <2>1. StemsFromUse(o, p) /\ StemsFromUse(o, q)
        BY <1>4
    <2>2. m \in NetDemands /\ n \in NetDemands
        BY <2>1, StemsOnNet
    <2>3. m.sig = n.sig /\ m.cls = p.cls /\ m.edge = p.edge /\ n.cls = q.cls /\ n.edge = q.edge
        BY DEF Demand
    <2> HIDE DEF m, n
    <2>4. Conflict(NetDemands)
        BY <2>2, <2>3 DEF Conflict
    <2> QED BY <1>1, <2>4, NetsAgree
<1> QED BY <1>3, <1>4, <1>5, <1>6

\* At the top, what stems from a use is a net.
LEMMA TopStems ==
    ASSUME d \in Designs, NEW q, q = Demand(q.sig, q.cls, q.edge),
           StemsFromUse(Top, q), q.sig \in d.inputs[Top]
    PROVE  q \in NetDemands
<1>1. Top \in Occs(d)
    BY Occurrences
<1>2. WireOf(Top, q.sig) = q.sig
    BY <1>1, WireOfInput
<1>3. Demand(WireOf(Top, q.sig), q.cls, q.edge) \in NetDemands
    BY StemsOnNet
<1> QED BY <1>2, <1>3

\* What is among the declared demands is declared.
LEMMA DemandDeclared ==
    ASSUME NEW q
    PROVE  /\ q \in DeclaredDemands => q = Demand(q.sig, q.cls, q.edge) /\ q.cls \in Class
           /\ q \in DeclaredDemands /\ DeclaredKnown => IsDeclared(q) /\ q.sig \in d.inputs[Top] /\ q.edge \in Edge
           /\ DeclaredKnown /\ IsDeclared(q) /\ q.cls \in Class /\ q = Demand(q.sig, q.cls, q.edge) =>
                  q \in DeclaredDemands
<1>1. ASSUME q \in DeclaredDemands
      PROVE  /\ q = Demand(q.sig, q.cls, q.edge) /\ q.cls \in Class
             /\ \E n \in DOMAIN declared[q.cls] : declared[q.cls][n].port = q.sig /\ declared[q.cls][n].edge = q.edge
    <2>1. PICK c \in Class : \E n \in DOMAIN declared[c] : q = Demand(declared[c][n].port, c, declared[c][n].edge)
        BY <1>1 DEF DeclaredDemands
    <2>2. PICK n \in DOMAIN declared[c] : q = Demand(declared[c][n].port, c, declared[c][n].edge)
        BY <2>1
    <2>3. q.sig = declared[c][n].port /\ q.cls = c /\ q.edge = declared[c][n].edge
        BY <2>2 DEF Demand
    <2> QED BY <2>2, <2>3
<1>2. ASSUME q \in DeclaredDemands, DeclaredKnown
      PROVE  IsDeclared(q) /\ q.sig \in d.inputs[Top] /\ q.edge \in Edge
    <2>1. PICK n \in DOMAIN declared[q.cls] : declared[q.cls][n].port = q.sig /\ declared[q.cls][n].edge = q.edge
        BY <1>1, <1>2
    <2>2. declared[q.cls][n] \in [port : d.inputs[Top], edge : Edge]
        BY <1>1, <1>2 DEF DeclaredKnown
    <2>3. declared[q.cls][n] = [port |-> q.sig, edge |-> q.edge] /\ q.sig \in d.inputs[Top] /\ q.edge \in Edge
        BY <2>1, <2>2
    <2> QED BY <2>3 DEF IsDeclared
<1>3. ASSUME IsDeclared(q), q.cls \in Class, q = Demand(q.sig, q.cls, q.edge) PROVE q \in DeclaredDemands
    <2>1. PICK n \in DOMAIN declared[q.cls] : declared[q.cls][n] = [port |-> q.sig, edge |-> q.edge]
        BY <1>3 DEF IsDeclared
    <2>2. q = Demand(declared[q.cls][n].port, q.cls, declared[q.cls][n].edge)
        BY <1>3, <2>1
    <2> QED BY <1>3, <2>2 DEF DeclaredDemands
<1> QED BY <1>1, <1>2, <1>3

\* A supported design's nets are in its YAML.
LEMMA InitOutcome == Init => FirstOutcome
<1> SUFFICES ASSUME Init PROVE FirstOutcome
    OBVIOUS
<1>1. d \in Designs /\ phase = (IF d.yaml.infer THEN "collect" ELSE "ports")
      /\ (~d.yaml.infer => declared = d.yaml)
    BY DEF Init
<1>2. ASSUME ~d.yaml.infer, Supported, NEW q \in NetDemands PROVE q \in DeclaredDemands
    <2>1. q = Demand(q.sig, q.cls, q.edge) /\ q.cls \in Class
        BY <1>1, NetShape
    <2>2. IsDeclared(q)
        BY <1>1, <1>2 DEF Supported, IsDeclared
    <2>3. DeclaredKnown
        BY InitFirst DEF FirstWalkInv
    <2> QED BY <2>1, <2>2, <2>3, DemandDeclared
<1>3. CASE d.yaml.infer
    BY <1>1, <1>3 DEF FirstOutcome
<1>4. CASE ~d.yaml.infer
    BY <1>1, <1>2, <1>4 DEF FirstOutcome
<1> QED BY <1>3, <1>4

\* A step that rejects nothing and declares nothing.
LEMMA OutcomeKept ==
    ASSUME d' = d, declared' = declared, FirstOutcome, phase' # "error",
           phase = "collect" => phase' = "collect"
    PROVE  FirstOutcome'
<1>1. Supported' = Supported /\ NetDemands' = NetDemands
    BY DesignKept
<1>2. DeclaredDemands' = DeclaredDemands
    BY DEF DeclaredDemands
<1> QED BY <1>1, <1>2 DEF FirstOutcome

\* A rejection of an unsupported design.
LEMMA OutcomeRejected ==
    ASSUME ~Supported, d' = d
    PROVE  FirstOutcome'
<1>1. Supported' = Supported
    BY DesignKept
<1> QED BY <1>1 DEF FirstOutcome

\* The walk that infers rejects no supported design.
LEMMA CollectOutcome ==
    ASSUME IInv, FirstWalkInv, FirstOutcome, NEW o \in Occs(d), CollectDemands(o)
    PROVE  FirstOutcome'
<1>1. CASE Unconnected(o) \/ Conflict(DemandsOf(o))
    <2>1. ~Supported
        BY <1>1, NoReasonToReject DEF CollectDemands
    <2>2. d' = d
        BY DEF CollectDemands, Reject
    <2> QED BY <2>1, <2>2, OutcomeRejected
<1>2. CASE ~(Unconnected(o) \/ Conflict(DemandsOf(o)))
    <2>1. d' = d /\ declared' = declared /\ phase' = phase /\ phase = "collect"
        BY <1>2 DEF CollectDemands
    <2>2. phase' # "error"
        BY <2>1
    <2> QED BY <2>1, <2>2, OutcomeKept
<1> QED BY <1>1, <1>2

\* Nor does declaring what it collected, and that is every net.
LEMMA InferTopOutcome ==
    ASSUME IInv, FirstWalkInv, FirstOutcome, InferTopDomains
    PROVE  FirstOutcome'
<1>1. d \in Designs /\ Top \in Occs(d)
    BY Occurrences DEF IInv, Shapes
<1>2. d' = d /\ walked = Occs(d) /\ Walked
    BY DEF InferTopDomains, Reject, FirstWalkInv
<1>3. ASSUME Supported, NEW q \in demands[Top] PROVE q.sig \in d.inputs[Top]
    <2>1. demands[Top] = DemandsOf(Top)
        BY <1>1, <1>2 DEF Walked
    <2> QED BY <1>1, <1>3, <2>1, DemandsOnInputs
<1>4. CASE \E q \in demands[Top] : q.sig \notin d.inputs[Top]
    BY <1>2, <1>3, <1>4, OutcomeRejected
<1>5. CASE ~ \E q \in demands[Top] : q.sig \notin d.inputs[Top]
    <2>1. phase' = "ports"
        BY <1>5 DEF InferTopDomains
    <2>2. DeclaredDemands' = demands[Top]
        BY <2>1, InferTopFirst
    <2>3. Supported' = Supported /\ NetDemands' = NetDemands
        BY <1>2, DesignKept
    <2>4. Supported => NetDemands \subseteq demands[Top]
        <3> SUFFICES ASSUME Supported PROVE NetDemands \subseteq demands[Top]
            OBVIOUS
        <3>1. \A u \in Uses : u.sig \in d.inputs[u.occ] /\ NetOf(u) # NoName
            BY DEF Supported
        <3> QED BY <1>1, <1>2, <3>1, NetsReachTop
    <2> QED BY <2>1, <2>2, <2>3, <2>4 DEF FirstOutcome
<1> QED BY <1>4, <1>5

\* Nor does the walk that checks: what it demands at the top is a net.
LEMMA InferPortsOutcome ==
    ASSUME IInv, FirstWalkInv, FirstOutcome, NEW o \in Occs(d), InferPorts(o)
    PROVE  FirstOutcome'
<1>1. d' = d /\ declared' = declared /\ phase = "ports" /\ Leaving(o) /\ d \in Designs
    BY DEF InferPorts, Reject, firstWalk, IInv, Shapes
<1>2. CASE Unconnected(o) \/ Conflict(DemandsOf(o)) \/ ~Admissible(o, DemandsOf(o))
    <2>1. ASSUME Supported PROVE FALSE
        <3>1. /\ ~Unconnected(o) /\ ~Conflict(DemandsOf(o))
              /\ \A q \in DemandsOf(o) : StemsFromUse(o, q) /\ q.sig \in d.inputs[o]
            BY <1>1, <2>1, NoReasonToReject
        <3>2. PICK q \in DemandsOf(o) : ~(IF o = Top THEN IsDeclared(q) ELSE q.sig \in d.inputs[o])
            BY <1>2, <3>1 DEF Admissible
        <3>3. o = Top /\ ~IsDeclared(q)
            BY <3>1, <3>2
        <3>4. q = Demand(q.sig, q.cls, q.edge)
            BY DemandShape
        <3>5. q \in NetDemands
            BY <1>1, <3>1, <3>3, <3>4, TopStems
        <3>6. q \in DeclaredDemands
            BY <1>1, <2>1, <3>5 DEF FirstOutcome
        <3> QED BY <3>3, <3>6, DemandDeclared DEF FirstWalkInv
    <2> QED BY <1>1, <2>1, OutcomeRejected
<1>3. CASE ~(Unconnected(o) \/ Conflict(DemandsOf(o)) \/ ~Admissible(o, DemandsOf(o)))
    <2>1. phase' \in {"enter", "ports"}
        BY <1>1, <1>3 DEF InferPorts
    <2>2. phase' # "error" /\ phase # "collect"
        BY <1>1, <2>1
    <2> QED BY <1>1, <2>2, OutcomeKept
<1> QED BY <1>2, <1>3

-----------------------------------------------------------------------------
(* The second walk.  The source it finds for a port is the port's wire,    *)
(* because the parent's ports that it looks among include every port that  *)
(* the first walk lifted a demand to.                                      *)

AllDemands(o) == ResolvedDemands(o) \cup (IF o = Top THEN DeclaredDemands ELSE {})
Keys(o) == {<<q.cls, q.sig>> : q \in AllDemands(o)}

Entered(o) == o < at \/ (o = at /\ phase = "intern") \/ phase = "done"
Sources ==
    \A o \in Occs(d) :
        /\ DOMAIN source[o] = IF Entered(o) THEN Keys(o) ELSE {}
        /\ \A x \in DOMAIN source[o] :
               x[2] \in d.inputs[o] /\ source[o][x] \in d.inputs[Top] /\ source[o][x] = WireOf(o, x[2])

Facts == IInv /\ FirstWalkInv /\ phase \in {"enter", "intern", "done"}

\* What the second walk looks at in an occurrence: its flops' demands, without
\* a conflict, on inputs, and under a key for each demand of the first walk.
LEMMA DemandsOfSecondWalk ==
    ASSUME Facts, NEW o \in Occs(d)
    PROVE  /\ LocalDemands(o) \subseteq AllDemands(o) /\ ~Conflict(AllDemands(o))
           /\ \A q \in AllDemands(o) :
                  /\ q = Demand(q.sig, q.cls, q.edge) /\ q.cls \in Class /\ q.edge \in Edge
                  /\ q.sig \in d.inputs[o]
                  /\ o # Top => q \in demands[o]
                  /\ o = Top => q \in DeclaredDemands
           /\ \A q \in demands[o] : <<q.cls, q.sig>> \in Keys(o)
<1>1. d \in Designs /\ o \in walked /\ Walked /\ DeclaredKnown
    BY DEF Facts, IInv, Shapes, FirstWalkInv, WalkOrder
<1>2. demands[o] = DemandsOf(o) /\ ~Conflict(demands[o]) /\ Admissible(o, demands[o])
    BY <1>1 DEF Walked, Facts
<1>3. \A q \in demands[o] : StemsFromUse(o, q) /\ q = Demand(q.sig, q.cls, q.edge)
    BY <1>2, DemandShape DEF Facts, FirstWalkInv, DemandsStem
<1>4. \A q \in demands[o] : q.cls \in Class /\ q.edge \in Edge
    BY <1>1, <1>3, StemTyped
<1>5. LocalDemands(o) \subseteq demands[o] /\ LocalDemands(o) \subseteq AllDemands(o)
    BY <1>2 DEF DemandsOf, AllDemands, ResolvedDemands
<1>6. CASE o = Top
    <2>1. \A q \in demands[o] : q \in DeclaredDemands
        BY <1>1, <1>2, <1>3, <1>4, <1>6, DemandDeclared DEF Admissible
    <2>2. AllDemands(o) = DeclaredDemands
        <3>1. PortDemands(o) \subseteq DeclaredDemands
            BY <1>1, <1>6 DEF DeclaredKnown
        <3> QED BY <1>5, <1>6, <2>1, <3>1 DEF AllDemands, ResolvedDemands
    <2>3. \A q \in DeclaredDemands :
                  /\ q = Demand(q.sig, q.cls, q.edge) /\ q.cls \in Class /\ q.edge \in Edge
                  /\ q.sig \in d.inputs[Top]
        BY <1>1, DemandDeclared
    <2>4. \A q \in demands[o] : <<q.cls, q.sig>> \in Keys(o)
        BY <2>1, <2>2 DEF Keys
    <2>5. ~Conflict(AllDemands(o))
        BY <1>1, <2>2 DEF DeclaredKnown
    <2> QED BY <1>5, <1>6, <2>2, <2>3, <2>4, <2>5
<1>7. CASE o # Top
    <2> DEFINE P == DemandedPorts(demands[o])
    <2>1. ports[o] = P
        BY <1>1, <1>7 DEF Walked, Facts
    <2>2. /\ DOMAIN P = {q.sig : q \in demands[o]}
          /\ \A p \in DOMAIN P : Demand(p, P[p].cls, P[p].edge) \in demands[o]
          /\ \A q \in demands[o] : P[q.sig].cls = q.cls
        BY <1>2, <1>3, <1>4, PortsOfDemands
    <2> HIDE DEF P
    <2>3. PortDemands(o) \subseteq demands[o]
        BY <2>1, <2>2 DEF PortDemands
    <2>4. AllDemands(o) \subseteq demands[o]
        BY <1>5, <1>7, <2>3 DEF AllDemands, ResolvedDemands
    <2>5. ASSUME NEW q \in demands[o] PROVE <<q.cls, q.sig>> \in Keys(o)
        <3> DEFINE r == Demand(q.sig, P[q.sig].cls, P[q.sig].edge)
        <3>1. r \in PortDemands(o)
            BY <2>1, <2>2 DEF PortDemands
        <3>2. r \in AllDemands(o)
            BY <3>1 DEF AllDemands, ResolvedDemands
        <3>3. r.cls = q.cls /\ r.sig = q.sig
            BY <2>2 DEF Demand
        <3> HIDE DEF r
        <3> QED BY <3>2, <3>3 DEF Keys
    <2>6. ~Conflict(AllDemands(o))
        BY <1>2, <2>4 DEF Conflict
    <2>7. \A q \in demands[o] : q.sig \in d.inputs[o]
        BY <1>2, <1>7 DEF Admissible
    <2> QED BY <1>3, <1>4, <1>5, <1>7, <2>4, <2>5, <2>6, <2>7
<1> QED BY <1>6, <1>7

\* Where a demand of a child is lifted to, there is a key.
LEMMA LiftedKey ==
    ASSUME Facts, NEW c \in Occs(d), c # Top, NEW q \in demands[c]
    PROVE  LET p == d.parent[c]
               via == AliasInto(p, d.inputs[p], ConnectedTo(c, q.sig))
           IN  /\ p \in Occs(d) /\ p \in 1 .. c - 1 /\ ConnectedTo(c, q.sig) # NoName
               /\ WireOf(c, q.sig) = IF via = NoName THEN NoName ELSE WireOf(p, via)
               /\ via # NoName => <<q.cls, via>> \in Keys(p)
<1> DEFINE p == d.parent[c]
           via == AliasInto(p, d.inputs[p], ConnectedTo(c, q.sig))
           r == Demand(via, q.cls, q.edge)
<1>1. d \in Designs /\ walked = Occs(d) /\ Walked
    BY DEF Facts, IInv, Shapes, FirstWalkInv, WalkOrder
<1>2. p \in Occs(d) /\ p \in 1 .. c - 1
    BY <1>1, ParentBefore
<1>3. c \in Children(d, p)
    BY DEF Children
<1>4. demands[p] = DemandsOf(p) /\ ~Unconnected(p)
    BY <1>1, <1>2 DEF Walked
<1>5. ConnectedTo(c, q.sig) # NoName
    BY <1>3, <1>4 DEF Unconnected
<1>6. WireOf(c, q.sig) = IF via = NoName THEN NoName ELSE WireOf(p, via)
    BY <1>1, <1>2, <1>3, <1>5, WireOfChildPort
<1>7. ASSUME via # NoName PROVE <<q.cls, via>> \in Keys(p)
    <2>1. r.sig = via /\ r.cls = q.cls /\ r.edge = q.edge
        BY DEF Demand
    <2>2. r \in LiftedDemands(p)
        BY <1>3, <1>7, <2>1 DEF LiftedDemands
    <2>3. r \in demands[p]
        BY <1>4, <2>2 DEF DemandsOf
    <2>4. <<r.cls, r.sig>> \in Keys(p)
        BY <1>2, <2>3, DemandsOfSecondWalk
    <2> QED BY <2>1, <2>4
<1> QED BY <1>2, <1>5, <1>6, <1>7

\* resolveChildInputSource finds the wire of the port.
LEMMA SourceIsWire ==
    ASSUME Facts, Sources, phase = "enter", NEW q \in AllDemands(at)
    PROVE  SourceFor(at, q) = WireOf(at, q.sig)
<1>1. d \in Designs /\ at \in Occs(d) /\ Occs(d) \subseteq Nat /\ Top \in Occs(d)
    BY Occurrences DEF Facts, IInv, Shapes
<1>2. CASE at = Top
    <2>1. q.sig \in d.inputs[Top]
        BY <1>1, <1>2, DemandsOfSecondWalk
    <2> QED BY <1>1, <1>2, <2>1, WireOfInput DEF SourceFor
<1>3. CASE at # Top
    <2> DEFINE p == d.parent[at]
               s == ConnectedTo(at, q.sig)
               via == AliasInto(p, d.inputs[p], s)
               resolved == {x \in d.inputs[p] : <<q.cls, x>> \in DOMAIN source[p]}
    <2>1. q \in demands[at]
        BY <1>1, <1>3, DemandsOfSecondWalk
    <2>2. /\ p \in Occs(d) /\ p \in 1 .. at - 1 /\ s # NoName
          /\ WireOf(at, q.sig) = IF via = NoName THEN NoName ELSE WireOf(p, via)
          /\ via # NoName => <<q.cls, via>> \in Keys(p)
        BY <1>1, <1>3, <2>1, LiftedKey
    <2>3. p < at
        BY <1>1, <2>2
    <2>4. DOMAIN source[p] = Keys(p)
        BY <2>2, <2>3 DEF Sources, Entered
    <2>5. resolved \in SUBSET d.inputs[p]
        OBVIOUS
    <2>6. /\ via \in d.inputs[p] \cup {NoName}
          /\ AliasInto(p, resolved, s) = IF via \in resolved THEN via ELSE NoName
        <3> HIDE DEF p, s, resolved
        <3>1. /\ AliasInto(p, d.inputs[p], s) \in d.inputs[p] \cup {NoName}
              /\ AliasInto(p, resolved, s) = IF AliasInto(p, d.inputs[p], s) \in resolved
                                             THEN AliasInto(p, d.inputs[p], s) ELSE NoName
            BY <1>1, <2>2, <2>5, AliasNarrowed
        <3> QED BY <3>1
    <2>7. via # NoName => via \in resolved
        BY <2>2, <2>4, <2>6
    <2>8. via \in resolved => via # NoName
        <3>1. d.inputs[p] \subseteq Nat \ {NoName}
            BY <1>1, <2>2, DesignsAssumption DEF DesignsWellFormed
        <3> QED BY <3>1
    <2>9. AliasInto(p, resolved, s) = via
        BY <2>6, <2>7, <2>8
    <2>10. SourceFor(at, q) = IF via = NoName THEN NoName ELSE source[p][<<q.cls, via>>]
        BY <1>3, <2>2, <2>9 DEF SourceFor, IncomingSource
    <2>11. ASSUME via # NoName PROVE source[p][<<q.cls, via>>] = WireOf(p, via)
        <3> DEFINE x == <<q.cls, via>>
        <3>1. x \in DOMAIN source[p]
            BY <2>2, <2>4, <2>11
        <3>2. source[p][x] = WireOf(p, x[2])
            BY <2>2, <3>1 DEF Sources
        <3>3. x[2] = via
            OBVIOUS
        <3> QED BY <3>2, <3>3
    <2> QED BY <2>2, <2>10, <2>11
<1> QED BY <1>2, <1>3

\* The entries of the occurrences entered are those of their ports' wires.
PortEntries ==
    /\ DOMAIN inputDomain = Occs(d)
    /\ phase = "intern" => /\ DOMAIN ids \cup todo = AllDemands(at)
                           /\ DOMAIN inputDomain[at] = {q.sig : q \in DOMAIN ids}
    /\ \A o \in Occs(d) : Left(o) => DOMAIN inputDomain[o] = {q.sig : q \in AllDemands(o)}
    /\ \A o \in Occs(d) : ~Entered(o) => DOMAIN inputDomain[o] = {}
    /\ \A o \in Occs(d) : \A p \in DOMAIN inputDomain[o] :
           /\ inputDomain[o][p].cls \in Class
           /\ HasKey(inputDomain[o][p].cls, inputDomain[o][p].id, <<WireOf(o, p), inputDomain[o][p].edge>>)

\* The identity of a declared domain is that of some port of its name.
NamedEntry(c, n) ==
    \E o \in Occs(d) :
        /\ declared[c][n].port \in DOMAIN inputDomain[o]
        /\ HasKey(c, resolvedTop[c][n], <<WireOf(o, declared[c][n].port), declared[c][n].edge>>)
TopDemand(c, n) == Demand(declared[c][n].port, c, declared[c][n].edge)
TopEntries ==
    /\ DOMAIN resolvedTop = Class
    /\ \A c \in Class : \A n \in DOMAIN resolvedTop[c] : n \in DOMAIN declared[c] /\ NamedEntry(c, n)
    /\ \A c \in Class : \A n \in DOMAIN declared[c] :
           Left(Top) \/ (phase = "intern" /\ at = Top /\ TopDemand(c, n) \in DOMAIN ids) =>
               n \in DOMAIN resolvedTop[c]
    /\ phase \in {"collect", "ports"} => \A c \in Class : DOMAIN resolvedTop[c] = {}

RegistryUsed ==
    d.yaml.infer => \A c \in Class : \A i \in DOMAIN registry[c] :
        \E q \in NetDemands : q.cls = c /\ registry[c][i] = <<q.sig, q.edge>>

SecondWalkInv == Sources /\ PortEntries /\ TopEntries /\ RegistryUsed

\* Before the second walk nothing is entered.
LEMMA InitSecond == Init => SecondWalkInv
<1> SUFFICES ASSUME Init PROVE SecondWalkInv
    OBVIOUS
<1>1. d \in Designs /\ Occs(d) \subseteq Nat \ {0} /\ Top \in Occs(d)
    BY Occurrences DEF Init
<1>2. /\ phase \in {"collect", "ports"} /\ at = Top
      /\ \A o \in Occs(d) : source[o] = Empty /\ inputDomain[o] = Empty
      /\ DOMAIN inputDomain = Occs(d)
      /\ \A c \in Class : registry[c] = <<>> /\ resolvedTop[c] = Empty
      /\ DOMAIN resolvedTop = Class
    BY DEF Init
<1>3. DOMAIN Empty = {}
    BY DEF Empty
<1>4. \A o \in Occs(d) : ~Entered(o) /\ ~Left(o)
    BY <1>1, <1>2 DEF Entered, Left, Top
<1>5. Sources
    BY <1>2, <1>3, <1>4 DEF Sources
<1>6. PortEntries
    BY <1>2, <1>3, <1>4 DEF PortEntries
<1>7. TopEntries
    BY <1>1, <1>2, <1>3, <1>4 DEF TopEntries
<1>8. RegistryUsed
    BY <1>2 DEF RegistryUsed
<1> QED BY <1>5, <1>6, <1>7, <1>8 DEF SecondWalkInv

\* What the second walk looks at in the facts of the first.
LEMMA DemandsStand ==
    ASSUME d' = d, ports' = ports, declared' = declared
    PROVE  \A o : AllDemands(o)' = AllDemands(o) /\ Keys(o)' = Keys(o)
<1>1. \A o : AllDemands(o)' = AllDemands(o)
    <2>1. \A o : LocalDemands(o)' = LocalDemands(o)
        BY DesignKept
    <2>2. \A o : PortDemands(o)' = PortDemands(o)
        BY DEF PortDemands
    <2>3. DeclaredDemands' = DeclaredDemands
        BY DEF DeclaredDemands
    <2> QED BY <2>1, <2>2, <2>3 DEF AllDemands, ResolvedDemands
<1> QED BY <1>1 DEF Keys

\* Steps of the first walk.
LEMMA BeforeSecond ==
    ASSUME IInv, SecondWalkInv, UNCHANGED <<d, at, identities>>, phase \in {"collect", "ports"},
           phase' \in {"collect", "ports", "enter", "error"}
    PROVE  SecondWalkInv'
<1>1. /\ d' = d /\ at' = at /\ source' = source /\ ids' = ids /\ registry' = registry
      /\ inputDomain' = inputDomain /\ resolvedTop' = resolvedTop
    BY DEF identities
<1>2. at = Top /\ Occs(d) = 1 .. Len(d.parent) /\ Top \in Occs(d) /\ Occs(d)' = Occs(d)
    BY <1>1, Occurrences DEF IInv, Shapes, Occs
<1>3. \A o \in Occs(d) : ~Entered(o) /\ ~Left(o) /\ ~Entered(o)' /\ ~Left(o)'
    BY <1>1, <1>2 DEF Entered, Left, Top
<1>4. \A o, s : WireOf(o, s)' = WireOf(o, s)
    BY <1>1, DesignKept
<1>5. Sources'
    BY <1>1, <1>2, <1>3, <1>4 DEF SecondWalkInv, Sources
<1>6. PortEntries'
    BY <1>1, <1>2, <1>3, <1>4 DEF SecondWalkInv, PortEntries, HasKey
<1>7. TopEntries'
    <2>1. \A c \in Class : DOMAIN resolvedTop[c] = {}
        BY DEF SecondWalkInv, TopEntries
    <2> QED BY <1>1, <1>2, <1>3, <2>1 DEF SecondWalkInv, TopEntries
<1>8. RegistryUsed'
    <2>1. NetDemands' = NetDemands
        BY <1>1, DesignKept
    <2> QED BY <1>1, <2>1 DEF SecondWalkInv, RegistryUsed
<1> QED BY <1>5, <1>6, <1>7, <1>8 DEF SecondWalkInv

\* A step that changes nothing but possibly the phase, to "error".
LEMMA StopSecond ==
    ASSUME SecondWalkInv, UNCHANGED <<d, firstWalk, at, todo, identities>>,
           phase' = phase \/ (phase = "enter" /\ phase' = "error")
    PROVE  SecondWalkInv'
<1>1. /\ d' = d /\ at' = at /\ source' = source /\ ids' = ids /\ registry' = registry
      /\ inputDomain' = inputDomain /\ resolvedTop' = resolvedTop
      /\ todo' = todo /\ ports' = ports /\ declared' = declared
    BY DEF identities, firstWalk
<1>2. \A o : Entered(o)' <=> Entered(o)
    BY <1>1 DEF Entered
<1>3. \A o : Left(o)' <=> Left(o)
    BY <1>1 DEF Left
<1>4. Occs(d)' = Occs(d)
    BY <1>1 DEF Occs
<1>5. \A o, s : WireOf(o, s)' = WireOf(o, s)
    BY <1>1, DesignKept
<1>6. \A o : AllDemands(o)' = AllDemands(o) /\ Keys(o)' = Keys(o)
    BY <1>1, DemandsStand
<1>7. Sources'
    BY <1>1, <1>2, <1>4, <1>5, <1>6 DEF SecondWalkInv, Sources
<1>8. PortEntries'
    <2>1. phase' = "intern" => phase = "intern"
        OBVIOUS
    <2> QED BY <1>1, <1>2, <1>3, <1>4, <1>5, <1>6, <2>1 DEF SecondWalkInv, PortEntries, HasKey
<1>9. TopEntries'
    <2>1. \A c, n : NamedEntry(c, n)' <=> NamedEntry(c, n)
        BY <1>1, <1>4, <1>5 DEF NamedEntry, HasKey
    <2>2. \A c, n : TopDemand(c, n)' = TopDemand(c, n)
        BY <1>1 DEF TopDemand
    <2>3. (phase' = "intern" => phase = "intern") /\ (phase' \in {"collect", "ports"} => phase \in {"collect", "ports"})
        OBVIOUS
    <2> QED BY <1>1, <1>3, <2>1, <2>2, <2>3 DEF SecondWalkInv, TopEntries
<1>10. RegistryUsed'
    <2>1. NetDemands' = NetDemands
        BY <1>1, DesignKept
    <2> QED BY <1>1, <2>1 DEF SecondWalkInv, RegistryUsed
<1> QED BY <1>7, <1>8, <1>9, <1>10 DEF SecondWalkInv

-----------------------------------------------------------------------------
\* Steps of the second walk.
\* Entering an occurrence.
LEMMA EnterSecond ==
    ASSUME IInv, FirstWalkInv, SecondWalkInv, EnterModule
    PROVE  SecondWalkInv'
<1>1. CASE Reject
    BY <1>1, StopSecond DEF Reject, EnterModule
<1>2. CASE ~Reject
    <2> DEFINE K == Keys(at)
               S == [x \in K |-> SourceFor(at, [cls |-> x[1], sig |-> x[2]])]
    <2>1. /\ phase = "enter" /\ phase' = "intern"
          /\ \A q \in AllDemands(at) : SourceFor(at, q) # NoName
          /\ source' = [source EXCEPT ![at] = S] /\ todo' = AllDemands(at) /\ ids' = Empty
          /\ d' = d /\ at' = at /\ registry' = registry /\ inputDomain' = inputDomain
          /\ resolvedTop' = resolvedTop /\ ports' = ports /\ declared' = declared
        BY <1>2 DEF EnterModule, AllDemands, Keys, firstWalk
    <2>2. Facts /\ d \in Designs /\ at \in Occs(d) /\ DOMAIN source = Occs(d) /\ Occs(d) \subseteq Nat
        BY <2>1, Occurrences DEF Facts, IInv, Shapes
    <2>3. Sources
        BY DEF SecondWalkInv
    <2>4. ASSUME NEW x \in K
          PROVE  x[2] \in d.inputs[at] /\ S[x] \in d.inputs[Top] /\ S[x] = WireOf(at, x[2])
        <3>1. PICK q \in AllDemands(at) : x = <<q.cls, q.sig>>
            BY DEF Keys
        <3>2. x[1] = q.cls /\ x[2] = q.sig
            BY <3>1
        <3>3. S[x] = SourceFor(at, [cls |-> q.cls, sig |-> q.sig])
            BY <3>2
        <3>4. SourceFor(at, [cls |-> q.cls, sig |-> q.sig]) = SourceFor(at, q)
            BY DEF SourceFor
        <3>5. SourceFor(at, q) = WireOf(at, q.sig) /\ SourceFor(at, q) # NoName
            BY <2>1, <2>2, <2>3, SourceIsWire
        <3>6. q.sig \in d.inputs[at]
            BY <2>2, DemandsOfSecondWalk
        <3>7. WireOf(at, q.sig) \in d.inputs[Top] \cup {NoName}
            BY <2>2, WireRange
        <3> QED BY <3>2, <3>3, <3>4, <3>5, <3>6, <3>7
    <2>5. DOMAIN S = K
        OBVIOUS
    <2> HIDE DEF S, K
    <2>6. \A o, s : WireOf(o, s)' = WireOf(o, s)
        BY <2>1, DesignKept
    <2>7. \A o : AllDemands(o)' = AllDemands(o) /\ Keys(o)' = Keys(o)
        BY <2>1, DemandsStand
    <2>8. Occs(d)' = Occs(d)
        BY <2>1 DEF Occs
    <2>9. /\ \A o \in Occs(d) : Entered(o)' <=> Entered(o) \/ o = at
          /\ \A o \in Occs(d) : Left(o)' <=> Left(o)
          /\ ~Entered(at) /\ ~Left(at)
        BY <2>1, <2>2 DEF Entered, Left
    <2>10. Sources'
        <3> SUFFICES ASSUME NEW o \in Occs(d)
                     PROVE  /\ DOMAIN source'[o] = IF Entered(o)' THEN Keys(o) ELSE {}
                            /\ \A x \in DOMAIN source'[o] :
                                  /\ x[2] \in d.inputs[o] /\ source'[o][x] \in d.inputs[Top]
                                  /\ source'[o][x] = WireOf(o, x[2])
            BY <2>1, <2>6, <2>7, <2>8 DEF Sources
        <3>1. CASE o = at
            <4>1. source'[o] = S
                BY <2>1, <2>2, <3>1
            <4> QED BY <2>4, <2>5, <2>9, <3>1, <4>1 DEF K
        <3>2. CASE o # at
            <4>1. source'[o] = source[o]
                BY <2>1, <2>2, <3>2
            <4> QED BY <2>3, <2>9, <3>2, <4>1 DEF Sources
        <3> QED BY <3>1, <3>2
    <2>11. DOMAIN Empty = {}
        BY DEF Empty
    <2>12. PortEntries'
        <3>1. DOMAIN inputDomain[at] = {}
            BY <2>2, <2>9 DEF SecondWalkInv, PortEntries
        <3>2. (DOMAIN ids)' = {} /\ {q.sig : q \in DOMAIN ids'} = {}
            BY <2>1, <2>11
        <3>3. /\ DOMAIN inputDomain = Occs(d)
              /\ \A o \in Occs(d) : Left(o) => DOMAIN inputDomain[o] = {q.sig : q \in AllDemands(o)}
              /\ \A o \in Occs(d) : ~Entered(o) => DOMAIN inputDomain[o] = {}
              /\ \A o \in Occs(d) : \A p \in DOMAIN inputDomain[o] :
                    /\ inputDomain[o][p].cls \in Class
                    /\ HasKey(inputDomain[o][p].cls, inputDomain[o][p].id, <<WireOf(o, p), inputDomain[o][p].edge>>)
            BY DEF SecondWalkInv, PortEntries
        <3> QED BY <2>1, <2>6, <2>7, <2>8, <2>9, <3>1, <3>2, <3>3 DEF PortEntries, HasKey
    <2>13. TopEntries'
        <3>1. \A c, n : NamedEntry(c, n)' <=> NamedEntry(c, n)
            BY <2>1, <2>6, <2>8 DEF NamedEntry, HasKey
        <3>2. (DOMAIN ids)' = {}
            BY <2>1, <2>11
        <3>3. Left(Top)' <=> Left(Top)
            BY <2>1 DEF Left
        <3> QED BY <2>1, <3>1, <3>2, <3>3 DEF SecondWalkInv, TopEntries
    <2>14. RegistryUsed'
        <3>1. NetDemands' = NetDemands
            BY <2>1, DesignKept
        <3> QED BY <2>1, <3>1 DEF SecondWalkInv, RegistryUsed
    <2> QED BY <2>10, <2>12, <2>13, <2>14 DEF SecondWalkInv
<1> QED BY <1>1, <1>2

\* Entering rejects no supported design.
LEMMA EnterOutcome ==
    ASSUME IInv, FirstWalkInv, FirstOutcome, SecondWalkInv, EnterModule
    PROVE  FirstOutcome'
<1>1. /\ phase = "enter" /\ d' = d /\ declared' = declared
      /\ (Conflict(AllDemands(at)) \/ \E q \in AllDemands(at) : SourceFor(at, q) = NoName) \/ phase' = "intern"
    BY DEF EnterModule, Reject, firstWalk, AllDemands
<1>2. Facts /\ d \in Designs /\ at \in Occs(d) /\ Sources
    BY <1>1 DEF Facts, IInv, Shapes, SecondWalkInv
<1>3. CASE phase' = "intern"
    <2>1. phase' # "error" /\ phase # "collect"
        BY <1>1, <1>3
    <2> QED BY <1>1, <2>1, OutcomeKept
<1>4. CASE Conflict(AllDemands(at)) \/ \E q \in AllDemands(at) : SourceFor(at, q) = NoName
    <2>1. ~Conflict(AllDemands(at))
        BY <1>2, DemandsOfSecondWalk
    <2>2. PICK q \in AllDemands(at) : SourceFor(at, q) = NoName
        BY <1>4, <2>1
    <2>3. WireOf(at, q.sig) = NoName
        BY <1>1, <1>2, <2>2, SourceIsWire
    <2>4. CASE at = Top
        <3>1. q.sig \in d.inputs[Top]
            BY <1>2, <2>4, DemandsOfSecondWalk
        <3>2. WireOf(at, q.sig) = q.sig
            BY <1>2, <2>4, <3>1, WireOfInput
        <3>3. d.inputs[Top] \subseteq Nat \ {NoName}
            BY <1>2, <2>4, DesignsAssumption DEF DesignsWellFormed
        <3> QED BY <2>3, <3>1, <3>2, <3>3
    <2>5. CASE at # Top
        <3>1. q \in demands[at]
            BY <1>2, <2>5, DemandsOfSecondWalk
        <3>2. StemsFromUse(at, q)
            BY <1>2, <3>1 DEF FirstWalkInv, DemandsStem
        <3>3. ~Supported
            BY <2>3, <3>2, StemsOnNet
        <3> QED BY <1>1, <3>3, OutcomeRejected
    <2> QED BY <2>4, <2>5
<1> QED BY <1>1, <1>3, <1>4

\* Leaving it.
LEMMA ResolveSecond ==
    ASSUME IInv, FirstWalkInv, SecondWalkInv, ResolveFlops
    PROVE  SecondWalkInv'
<1>1. /\ phase = "intern" /\ todo = {}
      /\ \/ at + 1 \in Occs(d) /\ at' = at + 1 /\ phase' = "enter"
         \/ at + 1 \notin Occs(d) /\ at' = at /\ phase' = "done"
      /\ d' = d /\ todo' = todo /\ source' = source /\ ids' = ids /\ registry' = registry
      /\ inputDomain' = inputDomain /\ resolvedTop' = resolvedTop /\ ports' = ports /\ declared' = declared
    BY DEF ResolveFlops, firstWalk
<1>2. d \in Designs /\ at \in Occs(d) /\ Occs(d) = 1 .. Len(d.parent) /\ Len(d.parent) \in Nat /\ Top \in Occs(d)
    BY Occurrences DEF IInv, Shapes
<1>3. /\ \A o \in Occs(d) : Entered(o)' <=> Entered(o)
      /\ \A o \in Occs(d) : Left(o)' <=> (Left(o) \/ o = at)
      /\ \A o \in Occs(d) : Left(o)' => Entered(o)
    BY <1>1, <1>2 DEF Entered, Left
<1>4. \A o, s : WireOf(o, s)' = WireOf(o, s)
    BY <1>1, DesignKept
<1>5. \A o : AllDemands(o)' = AllDemands(o) /\ Keys(o)' = Keys(o)
    BY <1>1, DemandsStand
<1>6. Occs(d)' = Occs(d)
    BY <1>1 DEF Occs
<1>7. Sources'
    BY <1>1, <1>3, <1>4, <1>5, <1>6 DEF SecondWalkInv, Sources
<1>8. PortEntries'
    <2>1. /\ DOMAIN inputDomain = Occs(d)
          /\ DOMAIN ids \cup todo = AllDemands(at) /\ DOMAIN inputDomain[at] = {q.sig : q \in DOMAIN ids}
          /\ \A o \in Occs(d) : Left(o) => DOMAIN inputDomain[o] = {q.sig : q \in AllDemands(o)}
          /\ \A o \in Occs(d) : ~Entered(o) => DOMAIN inputDomain[o] = {}
          /\ \A o \in Occs(d) : \A p \in DOMAIN inputDomain[o] :
                 /\ inputDomain[o][p].cls \in Class
                 /\ HasKey(inputDomain[o][p].cls, inputDomain[o][p].id, <<WireOf(o, p), inputDomain[o][p].edge>>)
        BY <1>1 DEF SecondWalkInv, PortEntries
    <2>2. DOMAIN ids = AllDemands(at)
        BY <1>1, <2>1
    <2>3. DOMAIN inputDomain[at] = {q.sig : q \in AllDemands(at)}
        BY <2>1, <2>2
    <2> QED BY <1>1, <1>3, <1>4, <1>5, <1>6, <2>1, <2>3 DEF PortEntries, HasKey
<1>9. TopEntries'
    <2>1. \A c, n : NamedEntry(c, n)' <=> NamedEntry(c, n)
        BY <1>1, <1>4, <1>6 DEF NamedEntry, HasKey
    <2>2. at = Top => \A c \in Class : \A n \in DOMAIN declared[c] : TopDemand(c, n) \in DOMAIN ids
        <3> SUFFICES ASSUME at = Top, NEW c \in Class, NEW n \in DOMAIN declared[c]
                     PROVE  TopDemand(c, n) \in DOMAIN ids
            OBVIOUS
        <3>1. TopDemand(c, n) \in DeclaredDemands
            BY DEF TopDemand, DeclaredDemands
        <3>2. TopDemand(c, n) \in AllDemands(at)
            BY <3>1 DEF AllDemands
        <3> QED BY <1>1, <3>2 DEF SecondWalkInv, PortEntries
    <2>3. Left(Top)' <=> (Left(Top) \/ at = Top)
        BY <1>2, <1>3
    <2>4. \A c \in Class : \A n \in DOMAIN declared[c] : Left(Top)' => n \in DOMAIN resolvedTop[c]
        BY <1>1, <2>2, <2>3 DEF SecondWalkInv, TopEntries
    <2>5. phase' \in {"enter", "done"}
        BY <1>1
    <2> QED BY <1>1, <2>1, <2>4, <2>5 DEF SecondWalkInv, TopEntries
<1>10. RegistryUsed'
    <2>1. NetDemands' = NetDemands
        BY <1>1, DesignKept
    <2> QED BY <1>1, <2>1 DEF SecondWalkInv, RegistryUsed
<1> QED BY <1>7, <1>8, <1>9, <1>10 DEF SecondWalkInv

\* Interning one of its demands.
LEMMA InternSecond ==
    ASSUME IInv, FirstWalkInv, SecondWalkInv, NEW q \in todo, InternDemand(q)
    PROVE  SecondWalkInv'
<1> DEFINE key == <<source[at][<<q.cls, q.sig>>], q.edge>>
           reg == Interned(registry[q.cls], key)
           id == IdIn(reg, key)
           entry == [cls |-> q.cls, edge |-> q.edge, id |-> id]
<1>1. /\ phase = "intern" /\ phase' = "intern" /\ todo' = todo \ {q}
      /\ registry' = [registry EXCEPT ![q.cls] = reg]
      /\ ids' = [x \in DOMAIN ids \cup {q} |-> IF x = q THEN id ELSE ids[x]]
      /\ inputDomain' = [inputDomain EXCEPT ![at] =
             [p \in DOMAIN inputDomain[at] \cup {q.sig} |-> IF p = q.sig THEN entry ELSE inputDomain[at][p]]]
      /\ resolvedTop' = [resolvedTop EXCEPT ![q.cls] = RecordedTop(q, id)]
      /\ d' = d /\ at' = at /\ source' = source /\ flopDomain' = flopDomain
      /\ ports' = ports /\ declared' = declared
    BY DEF InternDemand, firstWalk
<1>2. Facts /\ d \in Designs /\ at \in Occs(d) /\ Occs(d) \subseteq Nat
    BY <1>1, Occurrences DEF Facts, IInv, Shapes
<1>3. q \in AllDemands(at)
    BY <1>1 DEF SecondWalkInv, PortEntries
<1>4. q.cls \in Class /\ q = Demand(q.sig, q.cls, q.edge)
      /\ (at # Top => q \in demands[at]) /\ (at = Top => q \in DeclaredDemands)
    BY <1>2, <1>3, DemandsOfSecondWalk
<1>5. key = <<WireOf(at, q.sig), q.edge>>
    <2> DEFINE x == <<q.cls, q.sig>>
    <2>1. Entered(at) /\ x \in Keys(at)
        BY <1>1, <1>3 DEF Entered, Keys
    <2>2. source[at][x] = WireOf(at, x[2])
        BY <1>2, <2>1 DEF SecondWalkInv, Sources
    <2> QED BY <2>2
<1> HIDE DEF key
<1>6. /\ IsRegistry(reg) /\ id \in DOMAIN reg /\ reg[id] = key
      /\ \A i \in DOMAIN registry[q.cls] : i \in DOMAIN reg /\ reg[i] = registry[q.cls][i]
    BY <1>4, Interning DEF IInv, Registries
<1>7. \A i \in DOMAIN reg : i \in DOMAIN registry[q.cls] \/ reg[i] = key
    <2>1. CASE \E i \in DOMAIN registry[q.cls] : registry[q.cls][i] = key
        BY <2>1 DEF Interned
    <2>2. CASE ~ \E i \in DOMAIN registry[q.cls] : registry[q.cls][i] = key
        <3>1. reg = Append(registry[q.cls], key)
            BY <2>2 DEF Interned
        <3>2. registry[q.cls] \in Seq(Entries(registry[q.cls]))
            BY <1>4 DEF IInv, Registries, IsRegistry
        <3> QED BY <3>1, <3>2
    <2> QED BY <2>1, <2>2
<1> HIDE DEF reg, id
<1>8. DOMAIN registry = Class
    BY DEF IInv, Registries
<1>9. registry'[q.cls] = reg /\ \A c \in Class : c # q.cls => registry'[c] = registry[c]
    BY <1>1, <1>4, <1>8
<1>10. ASSUME NEW c \in Class, NEW i, NEW k, HasKey(c, i, k) PROVE HasKey(c, i, k)'
    BY <1>6, <1>9, <1>10 DEF HasKey
<1>11. id \in DOMAIN registry'[q.cls] /\ registry'[q.cls][id] = key
    BY <1>6, <1>9
<1>12. \A o, s : WireOf(o, s)' = WireOf(o, s)
    BY <1>1, DesignKept
<1>13. \A o : AllDemands(o)' = AllDemands(o) /\ Keys(o)' = Keys(o)
    BY <1>1, DemandsStand
<1>14. Occs(d)' = Occs(d)
    BY <1>1 DEF Occs
<1>15. /\ \A o : Entered(o)' <=> Entered(o)
       /\ \A o : Left(o)' <=> Left(o)
       /\ Entered(at) /\ ~Left(at)
    BY <1>1, <1>2 DEF Entered, Left
<1>16. Sources'
    BY <1>1, <1>12, <1>13, <1>14, <1>15 DEF SecondWalkInv, Sources
<1>17. /\ DOMAIN inputDomain' = Occs(d)
       /\ DOMAIN inputDomain'[at] = DOMAIN inputDomain[at] \cup {q.sig}
       /\ inputDomain'[at][q.sig] = entry
       /\ \A p \in DOMAIN inputDomain[at] : p # q.sig => inputDomain'[at][p] = inputDomain[at][p]
       /\ \A o \in Occs(d) : o # at => inputDomain'[o] = inputDomain[o]
    <2>1. DOMAIN inputDomain = Occs(d)
        BY DEF SecondWalkInv, PortEntries
    <2> HIDE DEF entry
    <2> QED BY <1>1, <1>2, <2>1
<1>18. entry.cls = q.cls /\ entry.edge = q.edge /\ entry.id = id
    OBVIOUS
<1> HIDE DEF entry
<1>19. PortEntries'
    <2>1. DOMAIN ids' \cup todo' = AllDemands(at)
        BY <1>1 DEF SecondWalkInv, PortEntries
    <2>2. DOMAIN ids' = DOMAIN ids \cup {q}
        BY <1>1
    <2>3. DOMAIN inputDomain'[at] = {x.sig : x \in DOMAIN ids'}
        BY <1>1, <1>17, <2>2 DEF SecondWalkInv, PortEntries
    <2>4. ASSUME NEW o \in Occs(d), Left(o) PROVE DOMAIN inputDomain'[o] = {x.sig : x \in AllDemands(o)}
        BY <1>15, <1>17, <2>4 DEF SecondWalkInv, PortEntries
    <2>5. ASSUME NEW o \in Occs(d), ~Entered(o) PROVE DOMAIN inputDomain'[o] = {}
        BY <1>15, <1>17, <2>5 DEF SecondWalkInv, PortEntries
    <2>6. ASSUME NEW o \in Occs(d), NEW p \in DOMAIN inputDomain'[o]
          PROVE  /\ inputDomain'[o][p].cls \in Class
                 /\ HasKey(inputDomain[o][p].cls, inputDomain[o][p].id, <<WireOf(o, p), inputDomain[o][p].edge>>)'
        <3>1. CASE o = at /\ p = q.sig
            <4>1. inputDomain'[o][p] = entry
                BY <1>17, <3>1
            <4>2. id \in DOMAIN registry'[q.cls] /\ registry'[q.cls][id] = <<WireOf(o, p), q.edge>>
                BY <1>5, <1>11, <3>1
            <4>3. inputDomain'[o][p].cls = q.cls /\ inputDomain'[o][p].id = id /\ inputDomain'[o][p].edge = q.edge
                BY <1>18, <4>1
            <4> QED BY <1>4, <1>12, <4>2, <4>3 DEF HasKey
        <3>2. CASE ~(o = at /\ p = q.sig)
            <4>1. p \in DOMAIN inputDomain[o] /\ inputDomain'[o][p] = inputDomain[o][p]
                BY <1>17, <3>2
            <4>2. /\ inputDomain[o][p].cls \in Class
                  /\ HasKey(inputDomain[o][p].cls, inputDomain[o][p].id, <<WireOf(o, p), inputDomain[o][p].edge>>)
                BY <4>1 DEF SecondWalkInv, PortEntries
            <4> DEFINE e == inputDomain[o][p]
                       w == <<WireOf(o, p), e.edge>>
            <4>3. HasKey(e.cls, e.id, w)'
                BY <1>6, <1>9, <4>1, <4>2, <1>12 DEF HasKey
            <4> QED BY <4>1, <4>2, <4>3
        <3> QED BY <3>1, <3>2
    <2> QED BY <1>1, <1>13, <1>14, <1>15, <1>17, <2>1, <2>3, <2>4, <2>5, <2>6 DEF PortEntries
<1>20. ASSUME NEW c \in Class, NEW n, NamedEntry(c, n), resolvedTop'[c][n] = resolvedTop[c][n]
       PROVE  NamedEntry(c, n)'
    <2>1. PICK o \in Occs(d) :
            /\ declared[c][n].port \in DOMAIN inputDomain[o]
            /\ HasKey(c, resolvedTop[c][n], <<WireOf(o, declared[c][n].port), declared[c][n].edge>>)
        BY <1>20 DEF NamedEntry
    <2>2. declared[c][n].port \in DOMAIN inputDomain'[o]
        BY <1>17, <2>1
    <2>3. HasKey(c, resolvedTop[c][n], <<WireOf(o, declared[c][n].port), declared[c][n].edge>>)'
        BY <1>1, <1>6, <1>9, <1>12, <1>20, <2>1 DEF HasKey
    <2> QED BY <1>1, <1>14, <2>2, <2>3 DEF NamedEntry
<1>21. TopEntries'
    <2> DEFINE new == {m \in DOMAIN declared[q.cls] : declared[q.cls][m] = [port |-> q.sig, edge |-> q.edge]}
    <2>1. DOMAIN resolvedTop = Class /\ DOMAIN resolvedTop' = Class
        BY <1>1 DEF SecondWalkInv, TopEntries
    <2>2. \A c \in Class : c # q.cls => resolvedTop'[c] = resolvedTop[c]
        BY <1>1, <2>1
    <2>3. /\ DOMAIN resolvedTop'[q.cls] = DOMAIN resolvedTop[q.cls] \cup new
          /\ \A m \in DOMAIN resolvedTop'[q.cls] :
                resolvedTop'[q.cls][m] = IF declared[q.cls][m] = [port |-> q.sig, edge |-> q.edge]
                                         THEN id ELSE resolvedTop[q.cls][m]
        BY <1>1, <1>4, <2>1 DEF RecordedTop
    <2>4. ASSUME NEW c \in Class, NEW n \in DOMAIN resolvedTop'[c]
          PROVE  n \in DOMAIN declared[c] /\ NamedEntry(c, n)'
        <3>1. CASE c = q.cls /\ declared[c][n] = [port |-> q.sig, edge |-> q.edge]
            <4>1. resolvedTop'[c][n] = id
                BY <2>3, <3>1
            <4>2. n \in DOMAIN declared[c]
                BY <2>3, <3>1 DEF SecondWalkInv, TopEntries
            <4>3. declared[c][n].port = q.sig /\ declared[c][n].edge = q.edge
                BY <3>1
            <4>4. q.sig \in DOMAIN inputDomain'[at]
                BY <1>17
            <4>5. HasKey(c, resolvedTop[c][n], <<WireOf(at, declared[c][n].port), declared[c][n].edge>>)'
                BY <1>1, <1>5, <1>6, <1>9, <1>12, <3>1, <4>1, <4>3 DEF HasKey
            <4> QED BY <1>1, <1>2, <1>14, <4>2, <4>3, <4>4, <4>5 DEF NamedEntry
        <3>2. CASE ~(c = q.cls /\ declared[c][n] = [port |-> q.sig, edge |-> q.edge])
            <4>1. n \in DOMAIN resolvedTop[c] /\ resolvedTop'[c][n] = resolvedTop[c][n]
                BY <2>2, <2>3, <3>2
            <4>2. n \in DOMAIN declared[c] /\ NamedEntry(c, n)
                BY <4>1 DEF SecondWalkInv, TopEntries
            <4> QED BY <1>20, <4>1, <4>2
        <3> QED BY <3>1, <3>2
    <2>5. ASSUME NEW c \in Class, NEW n \in DOMAIN declared[c],
                 Left(Top) \/ (at = Top /\ TopDemand(c, n) \in DOMAIN ids')
          PROVE  n \in DOMAIN resolvedTop'[c]
        <3>1. CASE TopDemand(c, n) = q
            <4>1. q.cls = c /\ q.sig = declared[c][n].port /\ q.edge = declared[c][n].edge
                BY <3>1 DEF TopDemand, Demand
            <4>2. declared[c][n] \in [port : d.inputs[Top], edge : Edge]
                BY DEF FirstWalkInv, DeclaredKnown
            <4>3. declared[c][n] = [port |-> q.sig, edge |-> q.edge]
                BY <4>1, <4>2
            <4> QED BY <2>3, <4>1, <4>3
        <3>2. CASE TopDemand(c, n) # q
            <4>1. Left(Top) \/ (at = Top /\ TopDemand(c, n) \in DOMAIN ids)
                BY <1>1, <2>5, <3>2
            <4>2. n \in DOMAIN resolvedTop[c]
                BY <1>1, <4>1 DEF SecondWalkInv, TopEntries
            <4> QED BY <2>2, <2>3, <4>2
        <3> QED BY <3>1, <3>2
    <2>6. \A c, n : TopDemand(c, n)' = TopDemand(c, n)
        BY <1>1 DEF TopDemand
    <2> HIDE DEF new
    <2>7. /\ \A c \in Class : \A n \in DOMAIN resolvedTop'[c] : n \in DOMAIN declared'[c] /\ NamedEntry(c, n)'
          /\ \A c \in Class : \A n \in DOMAIN declared'[c] :
                Left(Top)' \/ (phase' = "intern" /\ at' = Top /\ TopDemand(c, n)' \in DOMAIN ids') =>
                    n \in DOMAIN resolvedTop'[c]
          /\ phase' \notin {"collect", "ports"}
        BY <1>1, <1>15, <2>4, <2>5, <2>6
    <2> QED BY <2>1, <2>7 DEF TopEntries
<1>22. RegistryUsed'
    <2>1. NetDemands' = NetDemands
        BY <1>1, DesignKept
    <2> SUFFICES ASSUME d.yaml.infer, NEW c \in Class, NEW i \in DOMAIN registry'[c]
                 PROVE  \E n \in NetDemands : n.cls = c /\ registry'[c][i] = <<n.sig, n.edge>>
        BY <1>1, <2>1 DEF RegistryUsed
    <2>2. CASE i \in DOMAIN registry[c]
        <3>1. registry'[c][i] = registry[c][i]
            BY <1>6, <1>9, <2>2
        <3> QED BY <2>2, <3>1 DEF SecondWalkInv, RegistryUsed
    <2>3. CASE i \notin DOMAIN registry[c]
        <3>1. c = q.cls /\ registry'[c][i] = key
            BY <1>7, <1>9, <2>3
        <3>2. StemsFromUse(at, q)
            BY <1>2, <1>4 DEF FirstWalkInv, DemandsStem, DeclaredKnown
        <3> DEFINE n == Demand(WireOf(at, q.sig), q.cls, q.edge)
        <3>3. n \in NetDemands
            BY <3>2, StemsOnNet
        <3>4. n.cls = q.cls /\ n.sig = WireOf(at, q.sig) /\ n.edge = q.edge
            BY DEF Demand
        <3> HIDE DEF n
        <3> QED BY <1>5, <3>1, <3>3, <3>4
    <2> QED BY <2>2, <2>3
<1> QED BY <1>16, <1>19, <1>21, <1>22 DEF SecondWalkInv

-----------------------------------------------------------------------------
\* Both walks together.
WalksInv == FirstWalkInv /\ FirstOutcome /\ SecondWalkInv

\* Every step, taken together.
LEMMA WalksStep == IInv /\ WalksInv /\ [Next]_vars => WalksInv'
<1> SUFFICES ASSUME IInv, WalksInv, [Next]_vars PROVE WalksInv'
    OBVIOUS
<1> USE DEF WalksInv
<1>1. ASSUME NEW o \in Occs(d), CollectDemands(o) PROVE WalksInv'
    <2>1. FirstWalkInv' /\ FirstOutcome'
        BY <1>1, CollectFirst, CollectOutcome
    <2>2. UNCHANGED <<d, at, identities>> /\ phase = "collect" /\ phase' \in {"collect", "error"}
        BY <1>1 DEF CollectDemands, Reject
    <2>3. SecondWalkInv'
        BY <2>2, BeforeSecond
    <2> QED BY <2>1, <2>3
<1>2. ASSUME NEW o \in Occs(d), InferPorts(o) PROVE WalksInv'
    <2>1. FirstWalkInv' /\ FirstOutcome'
        BY <1>2, InferPortsFirst, InferPortsOutcome
    <2>2. UNCHANGED <<d, at, identities>> /\ phase = "ports" /\ phase' \in {"ports", "enter", "error"}
        BY <1>2 DEF InferPorts, Reject
    <2>3. SecondWalkInv'
        BY <2>2, BeforeSecond
    <2> QED BY <2>1, <2>3
<1>3. CASE InferTopDomains
    <2>1. FirstWalkInv' /\ FirstOutcome'
        BY <1>3, InferTopFirst, InferTopOutcome
    <2>2. UNCHANGED <<d, at, identities>> /\ phase = "collect" /\ phase' \in {"ports", "error"}
        BY <1>3 DEF InferTopDomains, Reject
    <2>3. SecondWalkInv'
        BY <2>2, BeforeSecond
    <2> QED BY <2>1, <2>3
<1>4. CASE EnterModule
    <2>1. d' = d /\ UNCHANGED firstWalk /\ phase = "enter" /\ phase' \in {"intern", "error"}
        BY <1>4 DEF EnterModule, Reject
    <2>2. FirstWalkInv'
        BY <2>1, FirstWalkKept
    <2>3. FirstOutcome' /\ SecondWalkInv'
        BY <1>4, EnterOutcome, EnterSecond
    <2> QED BY <2>2, <2>3
<1>5. ASSUME NEW q \in todo, InternDemand(q) PROVE WalksInv'
    <2>1. d' = d /\ UNCHANGED firstWalk /\ phase = "intern" /\ phase' = phase
        BY <1>5 DEF InternDemand
    <2>2. FirstWalkInv'
        BY <2>1, FirstWalkKept
    <2>3. FirstOutcome'
        BY <2>1, OutcomeKept DEF firstWalk
    <2>4. SecondWalkInv'
        BY <1>5, InternSecond
    <2> QED BY <2>2, <2>3, <2>4
<1>6. CASE ResolveFlops
    <2>1. d' = d /\ UNCHANGED firstWalk /\ phase = "intern" /\ phase' \in {"enter", "done"}
        BY <1>6 DEF ResolveFlops
    <2>2. FirstWalkInv'
        BY <2>1, FirstWalkKept
    <2>3. phase # "collect" /\ phase' # "error" /\ declared' = declared
        BY <2>1 DEF firstWalk
    <2>4. FirstOutcome'
        BY <2>1, <2>3, OutcomeKept
    <2>5. SecondWalkInv'
        BY <1>6, ResolveSecond
    <2> QED BY <2>2, <2>4, <2>5
<1>7. CASE UNCHANGED vars
    <2>1. UNCHANGED <<d, firstWalk, at, todo, identities>> /\ phase' = phase /\ d' = d
        BY <1>7 DEF vars
    <2>2. FirstWalkInv'
        BY <2>1, FirstWalkKept
    <2>3. SecondWalkInv'
        BY <2>1, StopSecond
    <2>4. FirstOutcome'
        <3>1. declared' = declared
            BY <2>1 DEF firstWalk
        <3>2. Supported' = Supported /\ NetDemands' = NetDemands
            BY <2>1, DesignKept
        <3>3. DeclaredDemands' = DeclaredDemands
            BY <3>1 DEF DeclaredDemands
        <3> QED BY <2>1, <3>2, <3>3 DEF FirstOutcome
    <2> QED BY <2>2, <2>3, <2>4
<1> QED
    BY <1>1, <1>2, <1>3, <1>4, <1>5, <1>6, <1>7 DEF Next, Finished

\* The invariants of the two walks hold in every state of a compile.
THEOREM BothWalks == Spec => [](IInv /\ WalksInv)
<1>1. Init => WalksInv
    BY InitFirst, InitOutcome, InitSecond DEF WalksInv
<1>2. IInv /\ WalksInv /\ [Next]_vars => WalksInv'
    BY WalksStep
<1> QED
    BY <1>1, <1>2, Inductive, PTL DEF Spec

\* At the end every occurrence has been entered and left.
LEMMA AtTheEnd ==
    ASSUME IInv, WalksInv, phase = "done", NEW o \in Occs(d)
    PROVE  /\ Facts /\ Left(o) /\ Entered(o) /\ d \in Designs
           /\ DOMAIN source[o] = Keys(o) /\ DOMAIN inputDomain[o] = {q.sig : q \in AllDemands(o)}
           /\ \A q \in AllDemands(o) :
                  /\ source[o][<<q.cls, q.sig>>] = WireOf(o, q.sig) /\ WireOf(o, q.sig) # NoName
                  /\ q.sig \in d.inputs[o]
<1>1. Facts /\ Left(o) /\ Entered(o) /\ d \in Designs
    BY DEF Facts, WalksInv, Left, Entered, IInv, Shapes
<1>2. Sources /\ PortEntries
    BY DEF WalksInv, SecondWalkInv
<1>3. DOMAIN source[o] = Keys(o) /\ DOMAIN inputDomain[o] = {q.sig : q \in AllDemands(o)}
    BY <1>1, <1>2 DEF Sources, PortEntries
<1>4. ASSUME NEW q \in AllDemands(o)
      PROVE  source[o][<<q.cls, q.sig>>] = WireOf(o, q.sig) /\ WireOf(o, q.sig) # NoName
             /\ q.sig \in d.inputs[o]
    <2> DEFINE x == <<q.cls, q.sig>>
    <2>1. x \in DOMAIN source[o]
        BY <1>3 DEF Keys
    <2>2. x[2] \in d.inputs[o] /\ source[o][x] \in d.inputs[Top] /\ source[o][x] = WireOf(o, x[2])
        BY <1>2, <2>1 DEF Sources
    <2>3. x[2] = q.sig
        OBVIOUS
    <2>4. d.inputs[Top] \subseteq Nat \ {NoName}
        BY <1>1, Occurrences, DesignsAssumption DEF DesignsWellFormed
    <2> QED BY <2>2, <2>3, <2>4
<1> QED BY <1>1, <1>3, <1>4

\* A use is a local demand.
LEMMA UseIsDemand ==
    ASSUME NEW u \in Uses
    PROVE  u.occ \in Occs(d) /\ \E r \in LocalDemands(u.occ) :
               r.sig = u.sig /\ r.cls = u.cls /\ r.edge = u.edge
<1>1. PICK o \in Occs(d) : \E r \in LocalDemands(o) : u = [occ |-> o, sig |-> r.sig, cls |-> r.cls, edge |-> r.edge]
    BY DEF Uses
<1>2. PICK r \in LocalDemands(o) : u = [occ |-> o, sig |-> r.sig, cls |-> r.cls, edge |-> r.edge]
    BY <1>1
<1>3. u.occ = o /\ u.sig = r.sig /\ u.cls = r.cls /\ u.edge = r.edge
    BY <1>2
<1> QED BY <1>3

\* Facts, sources and identities refer to signals of the design and to entries
\* of the registries.
THEOREM TypeCorrect == Spec => []TypeOK
<1>1. IInv /\ WalksInv => TypeOK
    <2> SUFFICES ASSUME IInv, WalksInv PROVE TypeOK
        OBVIOUS
    <2>1. /\ d \in Designs /\ at \in Occs(d)
          /\ phase \in {"collect", "ports", "enter", "intern", "done", "error"}
        BY DEF IInv, Shapes
    <2>2. walked \subseteq Occs(d)
        BY DEF WalksInv, FirstWalkInv, WalkOrder
    <2>3. \A o \in Occs(d) : \A p \in DOMAIN ports[o] : p \in d.inputs[o] /\ ports[o][p].cls \in Class
        BY DEF WalksInv, FirstWalkInv, Walked, IInv, ClassesKnown
    <2>4. \A o \in Occs(d) : \A x \in DOMAIN source[o] : x[2] \in d.inputs[o] /\ source[o][x] \in d.inputs[Top]
        BY DEF WalksInv, SecondWalkInv, Sources
    <2>5. \A o \in Occs(d) : \A p \in DOMAIN inputDomain[o] :
              inputDomain[o][p].id \in DOMAIN registry[inputDomain[o][p].cls]
        BY DEF WalksInv, SecondWalkInv, PortEntries, HasKey
    <2>6. \A c \in Class : \A n \in DOMAIN resolvedTop[c] :
              n \in DOMAIN declared[c] /\ resolvedTop[c][n] \in DOMAIN registry[c]
        BY DEF WalksInv, SecondWalkInv, TopEntries, NamedEntry, HasKey
    <2> QED BY <2>1, <2>2, <2>3, <2>4, <2>5, <2>6 DEF TypeOK
<1> QED BY <1>1, BothWalks, PTL

\* After an accepted compile the ClockId and the ResetId of a flop name the
\* top-level input its clock and reset are wired to, and its edge, in every
\* occurrence (resolveFlopDomains, resolveChildInputSource).
THEOREM FlopsFollowWires == Spec => []FlopDomainsFollowWires
<1>1. IInv /\ WalksInv => FlopDomainsFollowWires
    <2> SUFFICES ASSUME IInv, WalksInv, phase = "done", NEW o \in Occs(d), NEW f \in d.flops[o]
                 PROVE  /\ registry["clock"][flopDomain[o][f].clock] = <<WireOf(o, f.clock), f.edge>>
                        /\ f.reset # NoName =>
                             registry["reset"][flopDomain[o][f].reset] = <<WireOf(o, f.reset), f.level>>
        BY DEF FlopDomainsFollowWires
    <2> DEFINE p == Demand(f.clock, "clock", f.edge)
               q == Demand(f.reset, "reset", f.level)
    <2>1. p \in LocalDemands(o) /\ (f.reset # NoName => q \in LocalDemands(o))
        BY DEF LocalDemands
    <2>2. p.cls = "clock" /\ p.sig = f.clock /\ q.cls = "reset" /\ q.sig = f.reset
        BY DEF Demand
    <2> HIDE DEF p, q
    <2>3. Facts
        BY AtTheEnd
    <2>4. LocalDemands(o) \subseteq AllDemands(o)
        BY <2>3, DemandsOfSecondWalk
    <2>5. \A r \in AllDemands(o) : source[o][<<r.cls, r.sig>>] = WireOf(o, r.sig)
        BY AtTheEnd
    <2>6. source[o][<<"clock", f.clock>>] = WireOf(o, f.clock)
        BY <2>1, <2>2, <2>4, <2>5
    <2>7. f.reset # NoName => source[o][<<"reset", f.reset>>] = WireOf(o, f.reset)
        BY <2>1, <2>2, <2>4, <2>5
    <2>8. /\ HasKey("clock", flopDomain[o][f].clock, <<source[o][<<"clock", f.clock>>], f.edge>>)
          /\ f.reset # NoName =>
               HasKey("reset", flopDomain[o][f].reset, <<source[o][<<"reset", f.reset>>], f.level>>)
        BY DEF IInv, FlopsKnown, Left
    <2> QED BY <2>6, <2>7, <2>8 DEF HasKey
<1> QED BY <1>1, BothWalks, PTL

\* Every clock or reset port on the way to a flop has a resolved entry with the
\* port's wire.
THEOREM PortsFollowWires == Spec => []PortDomainsFollowWires
<1>1. IInv /\ WalksInv => PortDomainsFollowWires
    <2> SUFFICES ASSUME IInv, WalksInv, phase = "done"
                 PROVE  /\ \A o \in Occs(d) : \A p \in DOMAIN inputDomain[o] :
                               registry[inputDomain[o][p].cls][inputDomain[o][p].id]
                                   = <<WireOf(o, p), inputDomain[o][p].edge>>
                        /\ \A u \in Uses : u.sig \in DOMAIN inputDomain[u.occ]
                        /\ \A o \in Occs(d) \ {Top} : \A p \in DOMAIN inputDomain[o] :
                               AliasInto(d.parent[o], d.inputs[d.parent[o]], d.conn[o][p])
                                   \in DOMAIN inputDomain[d.parent[o]]
        BY DEF PortDomainsFollowWires
    <2>1. \A o \in Occs(d) : \A p \in DOMAIN inputDomain[o] :
              registry[inputDomain[o][p].cls][inputDomain[o][p].id] = <<WireOf(o, p), inputDomain[o][p].edge>>
        BY DEF WalksInv, SecondWalkInv, PortEntries, HasKey
    <2>2. ASSUME NEW u \in Uses PROVE u.sig \in DOMAIN inputDomain[u.occ]
        <3>1. u.occ \in Occs(d) /\ \E r \in LocalDemands(u.occ) : r.sig = u.sig
            BY UseIsDemand
        <3>2. Facts /\ DOMAIN inputDomain[u.occ] = {q.sig : q \in AllDemands(u.occ)}
            BY <3>1, AtTheEnd
        <3>3. LocalDemands(u.occ) \subseteq AllDemands(u.occ)
            BY <3>1, <3>2, DemandsOfSecondWalk
        <3> QED BY <3>1, <3>2, <3>3
    <2>3. ASSUME NEW o \in Occs(d) \ {Top}, NEW p \in DOMAIN inputDomain[o]
          PROVE  AliasInto(d.parent[o], d.inputs[d.parent[o]], d.conn[o][p])
                     \in DOMAIN inputDomain[d.parent[o]]
        <3> DEFINE above == d.parent[o]
                   via == AliasInto(above, d.inputs[above], ConnectedTo(o, p))
        <3>1. PICK q \in AllDemands(o) : q.sig = p
            BY AtTheEnd
        <3>2. Facts /\ WireOf(o, p) # NoName /\ p \in d.inputs[o]
            BY <3>1, AtTheEnd
        <3>3. q \in demands[o]
            BY <3>2, DemandsOfSecondWalk
        <3>4. /\ above \in Occs(d)
              /\ WireOf(o, p) = IF via = NoName THEN NoName ELSE WireOf(above, via)
              /\ via # NoName => <<q.cls, via>> \in Keys(above)
            BY <3>1, <3>2, <3>3, LiftedKey
        <3>5. <<q.cls, via>> \in Keys(above)
            BY <3>2, <3>4
        <3>6. via \in {r.sig : r \in AllDemands(above)}
            BY <3>5 DEF Keys
        <3>7. DOMAIN inputDomain[above] = {r.sig : r \in AllDemands(above)}
            BY <3>4, AtTheEnd
        <3>8. ConnectedTo(o, p) = d.conn[o][p]
            BY <3>2 DEF ConnectedTo
        <3> QED BY <3>6, <3>7, <3>8
    <2> QED BY <2>1, <2>2, <2>3
<1> QED BY <1>1, BothWalks, PTL

\* The walks throw exactly on the designs outside what is supported.
THEOREM ExactlyTheSupported == Spec => []AcceptedExactly
<1>1. IInv /\ WalksInv => AcceptedExactly
    <2> SUFFICES ASSUME IInv, WalksInv PROVE AcceptedExactly
        OBVIOUS
    <2>1. phase = "error" => ~Supported
        BY DEF WalksInv, FirstOutcome
    <2>2. ASSUME phase = "done" PROVE Supported
        <3>1. \A o \in Occs(d) : Facts /\ d \in Designs
            BY <2>2, AtTheEnd
        <3>2. Facts /\ d \in Designs /\ Top \in Occs(d)
            BY <3>1, Occurrences DEF IInv, Shapes
        <3>3. ASSUME NEW u \in Uses PROVE u.sig \in d.inputs[u.occ] /\ NetOf(u) # NoName
            <4>1. PICK r \in LocalDemands(u.occ) : r.sig = u.sig
                BY UseIsDemand
            <4>2. u.occ \in Occs(d)
                BY UseIsDemand
            <4>3. r \in AllDemands(u.occ)
                BY <3>2, <4>2, DemandsOfSecondWalk
            <4>4. WireOf(u.occ, r.sig) # NoName /\ r.sig \in d.inputs[u.occ]
                BY <2>2, <4>2, <4>3, AtTheEnd
            <4> QED BY <4>1, <4>4 DEF NetOf
        <3>4. Walked /\ walked = Occs(d) /\ DeclaredKnown
            BY <2>2 DEF WalksInv, FirstWalkInv, WalkOrder
        <3>5. NetDemands \subseteq demands[Top]
            BY <3>2, <3>3, <3>4, NetsReachTop
        <3>6. Admissible(Top, demands[Top]) /\ ~Conflict(demands[Top])
            BY <2>2, <3>2, <3>4 DEF Walked
        <3>7. \A q \in NetDemands : IsDeclared(q)
            BY <3>5, <3>6 DEF Admissible
        <3>8. ~Conflict(NetDemands)
            BY <3>5, <3>6 DEF Conflict
        <3>9. ~d.yaml.infer => \A q \in NetDemands :
                  \E n \in DOMAIN d.yaml[q.cls] : d.yaml[q.cls][n] = [port |-> q.sig, edge |-> q.edge]
            BY <3>4, <3>7 DEF IsDeclared, DeclaredKnown
        <3> QED BY <3>3, <3>8, <3>9 DEF Supported
    <2> QED BY <2>1, <2>2 DEF AcceptedExactly
<1> QED BY <1>1, BothWalks, PTL

\* Inference declares what the flops use and nothing else
\* (inferTopClockResetDomains).
THEOREM InferredAreUsed == Spec => []InferredDomainsAreUsed
<1>1. IInv /\ WalksInv => InferredDomainsAreUsed
    <2> SUFFICES ASSUME IInv, WalksInv, d.yaml.infer, phase = "done", NEW c \in Class
                 PROVE  {registry[c][i] : i \in DOMAIN registry[c]}
                            = {<<q.sig, q.edge>> : q \in {r \in NetDemands : r.cls = c}}
        BY DEF InferredDomainsAreUsed
    <2>1. ASSUME NEW i \in DOMAIN registry[c]
          PROVE  \E q \in NetDemands : q.cls = c /\ registry[c][i] = <<q.sig, q.edge>>
        BY DEF WalksInv, SecondWalkInv, RegistryUsed
    <2>2. ASSUME NEW q \in NetDemands, q.cls = c
          PROVE  \E i \in DOMAIN registry[c] : registry[c][i] = <<q.sig, q.edge>>
        <3>1. PICK u \in Uses : q = Demand(NetOf(u), u.cls, u.edge)
            BY DEF NetDemands
        <3>2. q.sig = WireOf(u.occ, u.sig) /\ q.cls = u.cls /\ q.edge = u.edge
            BY <3>1 DEF Demand, NetOf
        <3>3. u.occ \in Occs(d)
            BY UseIsDemand
        <3>4. PICK r \in LocalDemands(u.occ) : r.sig = u.sig /\ r.cls = u.cls /\ r.edge = u.edge
            BY UseIsDemand
        <3>5. Facts
            BY <3>3, AtTheEnd
        <3>6. r \in AllDemands(u.occ)
            BY <3>3, <3>5, DemandsOfSecondWalk
        <3>7. source[u.occ][<<r.cls, r.sig>>] = WireOf(u.occ, r.sig)
            BY <3>3, <3>6, AtTheEnd
        <3>8. \A f \in d.flops[u.occ] :
                /\ HasKey("clock", flopDomain[u.occ][f].clock, <<source[u.occ][<<"clock", f.clock>>], f.edge>>)
                /\ f.reset # NoName =>
                     HasKey("reset", flopDomain[u.occ][f].reset, <<source[u.occ][<<"reset", f.reset>>], f.level>>)
            BY <3>3 DEF IInv, FlopsKnown, Left
        <3>9. \E i : HasKey(r.cls, i, <<source[u.occ][<<r.cls, r.sig>>], r.edge>>)
            <4>1. CASE \E f \in d.flops[u.occ] : r = Demand(f.clock, "clock", f.edge)
                <5>1. PICK f \in d.flops[u.occ] : r = Demand(f.clock, "clock", f.edge)
                    BY <4>1
                <5>2. r.cls = "clock" /\ r.sig = f.clock /\ r.edge = f.edge
                    BY <5>1 DEF Demand
                <5> QED BY <3>8, <5>2
            <4>2. CASE \E f \in d.flops[u.occ] : f.reset # NoName /\ r = Demand(f.reset, "reset", f.level)
                <5>1. PICK f \in d.flops[u.occ] : f.reset # NoName /\ r = Demand(f.reset, "reset", f.level)
                    BY <4>2
                <5>2. r.cls = "reset" /\ r.sig = f.reset /\ r.edge = f.level
                    BY <5>1 DEF Demand
                <5> QED BY <3>8, <5>1, <5>2
            <4> QED BY <4>1, <4>2 DEF LocalDemands
        <3>10. PICK i : HasKey(r.cls, i, <<source[u.occ][<<r.cls, r.sig>>], r.edge>>)
            BY <3>9
        <3> QED BY <2>2, <3>2, <3>4, <3>7, <3>10 DEF HasKey
    <2> QED BY <2>1, <2>2
<1> QED BY <1>1, BothWalks, PTL

\* Where ports that have the name of a declared top-level port are wired to
\* it, every declared domain ends with the identity of its own port and edge
\* (recordTopClockDomain, recordTopResetDomain).
THEOREM TopDomainsKept == Spec => []TopDomainsKeptWhereNamesAgree
<1>1. IInv /\ WalksInv => TopDomainsKeptWhereNamesAgree
    <2> SUFFICES ASSUME IInv, WalksInv, NamesAgree, phase = "done", NEW c \in Class, NEW n \in DOMAIN declared[c]
                 PROVE  /\ n \in DOMAIN resolvedTop[c]
                        /\ registry[c][resolvedTop[c][n]] = <<declared[c][n].port, declared[c][n].edge>>
        BY DEF TopDomainsKeptWhereNamesAgree, TopDomainsNameTheirPort
    <2>1. TopEntries
        BY DEF WalksInv, SecondWalkInv
    <2>2. n \in DOMAIN resolvedTop[c]
        BY <2>1 DEF TopEntries, Left
    <2>3. PICK o \in Occs(d) :
            /\ declared[c][n].port \in DOMAIN inputDomain[o]
            /\ HasKey(c, resolvedTop[c][n], <<WireOf(o, declared[c][n].port), declared[c][n].edge>>)
        BY <2>1, <2>2 DEF TopEntries, NamedEntry
    <2>4. WireOf(o, declared[c][n].port) = declared[c][n].port
        BY <2>3 DEF NamesAgree
    <2> QED BY <2>2, <2>3, <2>4 DEF HasKey
<1> QED BY <1>1, BothWalks, PTL
=============================================================================
