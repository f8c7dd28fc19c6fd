---------------------------- MODULE CodegenProofs ----------------------------
(***************************************************************************)
(* What generateDpi produces, for every graph and every width: the order   *)
(* of evaluation and the spill buffer are sound, an evaluation computes    *)
(* what the graph means, and the searches of the wrapper are exact.        *)
(***************************************************************************)
EXTENDS Codegen, SetInduction, SequenceTheorems

-----------------------------------------------------------------------------
(* Values.                                                                 *)

\* A power of two is a positive number: it counts the subsets of a finite set.
LEMMA PowerPositive ==
    \A n \in Nat : 2 ^ n \in Nat \ {0}
<1> TAKE n \in Nat
<1>1. IsFiniteSet(1 .. n) /\ Cardinality(1 .. n) = n
  BY FS_Interval
<1>2. IsFiniteSet(SUBSET (1 .. n)) /\ Cardinality(SUBSET (1 .. n)) = 2 ^ n
  BY <1>1, FS_SUBSET
<1>3. SUBSET (1 .. n) # {}
  OBVIOUS
<1> QED
  BY <1>2, <1>3, FS_CardinalityType, FS_EmptySet

\* A type takes at least one word, a type of at most a word exactly one.
LEMMA WordCountFacts ==
    ASSUME NEW w \in Nat \ {0}
    PROVE  /\ WordCount(w) \in Nat \ {0}
           /\ TopBits(w) \in 1 .. WordBits
           /\ w <= WordBits => WordCount(w) = 1 /\ TopBits(w) = w
<1>1. WordBits \in Nat \ {0}
  BY WordAssumption
<1> DEFINE q == (w + WordBits - 1) \div WordBits
<1>2. q \in Int /\ q * WordBits <= w + WordBits - 1 /\ w + WordBits - 1 < q * WordBits + WordBits
  BY <1>1
<1>3. q >= 1
  <2>1. ASSUME q <= 0 PROVE FALSE
    <3>1. q * WordBits <= 0
      BY <1>1, <1>2, <2>1
    <3> QED BY <1>1, <1>2, <3>1
  <2> QED BY <2>1, <1>2
<1>4. TopBits(w) = w - WordBits * (q - 1)
  BY DEF TopBits, WordCount
<1>5. WordBits * (q - 1) = q * WordBits - WordBits
  BY <1>1, <1>2
<1>6. TopBits(w) \in 1 .. WordBits
  BY <1>1, <1>2, <1>4, <1>5
<1>7. ASSUME w <= WordBits PROVE q = 1
  <2>1. ASSUME q >= 2 PROVE FALSE
    <3>1. q * WordBits >= 2 * WordBits
      BY <1>1, <1>2, <2>1
    <3> QED BY <1>1, <1>2, <1>7, <3>1
  <2> QED BY <2>1, <1>2, <1>3
<1>8. WordCount(w) = q
  BY DEF WordCount
<1> HIDE DEF q
<1>9. q = 1 => TopBits(w) = w
  BY <1>1, <1>4
<1> QED
  BY <1>2, <1>3, <1>6, <1>7, <1>8, <1>9

\* Zero is a value of every type.
LEMMA ZeroIsValue ==
    ASSUME NEW t \in Types
    PROVE  Zero(t) \in Values(t)
<1>1. WordCount(t.width) \in Nat \ {0} /\ TopBits(t.width) \in Nat /\ WordBits \in Nat
  BY WordCountFacts, WordAssumption DEF Types
<1>2. 2 ^ WordBits \in Nat \ {0} /\ 2 ^ TopBits(t.width) \in Nat \ {0}
  BY <1>1, PowerPositive
<1> DEFINE c == WordCount(t.width)
           p == 2 ^ WordBits
           r == 2 ^ TopBits(t.width)
<1> HIDE DEF c, p, r
<1>3. c \in Nat \ {0} /\ p \in Nat \ {0} /\ r \in Nat \ {0}
  BY <1>1, <1>2 DEF c, p, r
<1>4. [i \in 0 .. c - 1 |-> 0] \in {v \in [0 .. c - 1 -> 0 .. p - 1] : v[c - 1] \in 0 .. r - 1}
  BY <1>3
<1> QED
  BY <1>4 DEF Zero, Values, Word, c, p, r

\* The words of a value.
LEMMA ValueWords ==
    ASSUME NEW t \in Types, NEW v \in Values(t)
    PROVE  /\ WordCount(t.width) \in Nat \ {0}
           /\ v = [w \in 0 .. WordCount(t.width) - 1 |-> v[w]]
           /\ \A w \in 0 .. WordCount(t.width) - 1 : v[w] \in Word
           /\ v # NoValue
<1>1. WordCount(t.width) \in Nat \ {0}
  BY WordCountFacts DEF Types
<1>2. v \in [0 .. WordCount(t.width) - 1 -> Word]
  BY DEF Values
<1>3. DOMAIN v # {}
  BY <1>1, <1>2
<1>4. DOMAIN NoValue = {}
  BY DEF NoValue
<1> QED BY <1>1, <1>2, <1>3, <1>4

\* A value of a type of at most a word is that word.
LEMMA SmallValue ==
    ASSUME NEW t \in Types, t.width <= WordBits, NEW v \in Values(t)
    PROVE  v[0] \in 0 .. 2 ^ t.width - 1
<1>1. t.width \in Nat \ {0}
  BY DEF Types
<1>2. WordCount(t.width) = 1 /\ TopBits(t.width) = t.width
  BY <1>1, WordCountFacts
<1>3. v[WordCount(t.width) - 1] \in 0 .. 2 ^ TopBits(t.width) - 1
  BY DEF Values
<1> QED BY <1>2, <1>3

\* Membership in a set of assignments is the test.
LEMMA AssignmentTest ==
    ASSUME NEW S, NEW type, NEW v
    PROVE  v \in Assignments(S, type) <=> IsAssignment(v, S, type)
<1>1. ASSUME v \in Assignments(S, type) PROVE IsAssignment(v, S, type)
  BY <1>1 DEF Assignments, IsAssignment
<1>2. ASSUME IsAssignment(v, S, type) PROVE v \in Assignments(S, type)
  <2>1. \A n \in S : v[n] \in UNION {Values(type[m]) : m \in S}
    BY <1>2 DEF IsAssignment
  <2>2. v = [n \in S |-> v[n]]
    BY <1>2 DEF IsAssignment
  <2>3. v \in [S -> UNION {Values(type[m]) : m \in S}]
    BY <2>1, <2>2
  <2> QED BY <1>2, <2>3 DEF Assignments, IsAssignment
<1> QED BY <1>1, <1>2

-----------------------------------------------------------------------------
(* Graphs.                                                                 *)

\* The nodes of a graph and what they read.
LEMMA GraphFacts ==
    ASSUME NEW d \in Graphs
    PROVE  /\ d.size \in Nat
           /\ IsFiniteSet(Nodes(d)) /\ Cardinality(Nodes(d)) = d.size
           /\ \A n \in Nodes(d) : /\ n \in Nat \ {0}
                                  /\ d.type[n] \in Types
                                  /\ d.in[n] \in Seq(Nodes(d))
                                  /\ d.codes[n] \in Seq(Nat)
                                  /\ Reads(d, n) \subseteq Nodes(d)
                                  /\ IsOrigin(d, n) <=> Reads(d, n) = {}
                                  /\ IsMux(d, n) => ~IsOrigin(d, n)
           /\ Inputs(d) \subseteq Nodes(d)
           /\ d.data \subseteq Inputs(d) /\ d.edges \subseteq Inputs(d) /\ d.data \cap d.edges = {}
           /\ d.outputs \subseteq Nodes(d) /\ d.flopD \subseteq Nodes(d) /\ d.internal \subseteq Nodes(d)
           /\ \A n \in d.outputs \cup d.flopD : ~IsOrigin(d, n)
<1>1. d.size \in Nat /\ d.in \in [Nodes(d) -> Seq(Nodes(d))] /\ d.codes \in [Nodes(d) -> Seq(Nat)]
      /\ d.type \in [Nodes(d) -> Types]
  BY GraphsWellFormed
<1>2. IsFiniteSet(Nodes(d)) /\ Cardinality(Nodes(d)) = d.size
  <2>1. IsFiniteSet(1 .. d.size) /\ Cardinality(1 .. d.size) = IF 1 <= d.size THEN d.size - 1 + 1 ELSE 0
    BY <1>1, FS_Interval
  <2> QED BY <1>1, <2>1 DEF Nodes
<1>3. ASSUME NEW n \in Nodes(d)
      PROVE  /\ n \in Nat \ {0} /\ d.type[n] \in Types
             /\ d.in[n] \in Seq(Nodes(d)) /\ d.codes[n] \in Seq(Nat)
             /\ Reads(d, n) \subseteq Nodes(d)
             /\ IsOrigin(d, n) <=> Reads(d, n) = {}
             /\ IsMux(d, n) => ~IsOrigin(d, n)
  <2>1. n \in Nat \ {0}
    BY <1>1 DEF Nodes
  <2>2. d.in[n] \in Seq(Nodes(d))
    BY <1>1
  <2>3. \A k \in DOMAIN d.in[n] : d.in[n][k] \in Nodes(d)
    BY <2>2, ElementOfSeq, LenProperties
  <2>4. IsOrigin(d, n) <=> d.in[n] = <<>>
    BY GraphsWellFormed
  <2>5. d.in[n] = <<>> <=> DOMAIN d.in[n] = {}
    <3>1. DOMAIN d.in[n] = 1 .. Len(d.in[n]) /\ Len(d.in[n]) \in Nat
      BY <2>2, LenProperties
    <3>2. d.in[n] = <<>> <=> Len(d.in[n]) = 0
      BY <2>2, EmptySeq
    <3>3. DOMAIN d.in[n] = {} <=> Len(d.in[n]) = 0
      <4>1. \A l \in Nat : 1 .. l = {} <=> l = 0
        OBVIOUS
      <4> QED BY <3>1, <4>1
    <3> QED BY <3>2, <3>3
  <2>6. IsMux(d, n) => ~IsOrigin(d, n)
    BY DEF IsMux, IsOrigin, Origins
  <2> QED BY <1>1, <2>1, <2>2, <2>3, <2>4, <2>5, <2>6 DEF Reads
<1>4. d.data \cup d.edges \subseteq Inputs(d) /\ d.data \cap d.edges = {}
      /\ d.outputs \cup d.flopD \cup d.internal \subseteq Nodes(d)
      /\ \A n \in d.outputs \cup d.flopD : ~IsOrigin(d, n)
  BY GraphsWellFormed
<1> QED
  BY <1>1, <1>2, <1>3, <1>4 DEF Inputs

\* A word of the selector of a MUX is the code of exactly one of its arms.
LEMMA MuxFacts ==
    ASSUME NEW d \in Graphs, NEW n \in Nodes(d), IsMux(d, n)
    PROVE  /\ DOMAIN d.codes[n] = 1 .. Len(d.codes[n]) /\ Len(d.codes[n]) \in Nat
           /\ Selector(d, n) \in Reads(d, n)
           /\ \A k \in DOMAIN d.codes[n] : Arm(d, n, k) \in Reads(d, n)
           /\ \A v \in Values(d.type[Selector(d, n)]) :
                 /\ ArmFor(d, n, v[0]) \in DOMAIN d.codes[n]
                 /\ d.codes[n][ArmFor(d, n, v[0])] = v[0]
                 /\ \A k \in DOMAIN d.codes[n] : d.codes[n][k] = v[0] => k = ArmFor(d, n, v[0])
<1> DEFINE s == d.codes[n]
<1>1. /\ Len(d.in[n]) = Len(s) + 1
      /\ d.type[Selector(d, n)].width < WordBits - 1
      /\ {s[k] : k \in DOMAIN s} = 0 .. 2 ^ d.type[Selector(d, n)].width - 1
      /\ \A j, k \in DOMAIN s : s[j] = s[k] => j = k
  BY GraphsWellFormed
<1>2. d.in[n] \in Seq(Nodes(d)) /\ s \in Seq(Nat) /\ Reads(d, n) \subseteq Nodes(d)
  BY GraphFacts
<1>3. DOMAIN s = 1 .. Len(s) /\ Len(s) \in Nat /\ DOMAIN d.in[n] = 1 .. Len(d.in[n])
  BY <1>2, LenProperties
<1>4. Selector(d, n) \in Reads(d, n)
  BY <1>1, <1>3 DEF Selector, Reads
<1>5. \A k \in DOMAIN s : Arm(d, n, k) \in Reads(d, n)
  <2> TAKE k \in DOMAIN s
  <2>1. k + 1 \in DOMAIN d.in[n]
    BY <1>1, <1>3
  <2> QED BY <2>1 DEF Arm, Reads
<1>6. ASSUME NEW v \in Values(d.type[Selector(d, n)])
      PROVE  \E k \in DOMAIN s : s[k] = v[0]
  <2>1. d.type[Selector(d, n)] \in Types
    BY <1>2, <1>4, GraphFacts
  <2>2. d.type[Selector(d, n)].width <= WordBits
    BY <1>1, <2>1, WordAssumption DEF Types
  <2>3. v[0] \in 0 .. 2 ^ d.type[Selector(d, n)].width - 1
    BY <2>1, <2>2, SmallValue
  <2> QED BY <1>1, <2>3
<1>7. ASSUME NEW v \in Values(d.type[Selector(d, n)])
      PROVE  ArmFor(d, n, v[0]) \in DOMAIN s /\ s[ArmFor(d, n, v[0])] = v[0]
  BY <1>6 DEF ArmFor
<1> QED
  BY <1>1, <1>3, <1>4, <1>5, <1>7

\* In a graph without loops a property of a node that follows from that
\* property of the nodes it reads holds of every node.
LEMMA InductionBelow ==
    ASSUME NEW d \in Graphs, ~HasLoop(d), NEW S,
           \A n \in Nodes(d) : Reads(d, n) \subseteq S => n \in S
    PROVE  Nodes(d) \subseteq S
<1> DEFINE C == Nodes(d) \ S
<1>1. SUFFICES ASSUME C # {} PROVE FALSE
  OBVIOUS
<1>2. \A n \in C : \E m \in C : m \in Reads(d, n)
  BY GraphFacts
<1>3. C \in SUBSET Nodes(d)
  OBVIOUS
<1> QED
  BY <1>1, <1>2, <1>3 DEF HasLoop, IsLoop

\* Below, and in particular through one read.
LEMMA BelowFacts ==
    ASSUME NEW d \in Graphs, NEW n \in Nodes(d)
    PROVE  /\ n \in Below(d, n) /\ Below(d, n) \subseteq Nodes(d)
           /\ \A m \in Below(d, n) : Reads(d, m) \subseteq Below(d, n)
           /\ \A m \in Reads(d, n) : Below(d, m) \subseteq Below(d, n)
           /\ \A m \in Below(d, n) : m = n \/ \E r \in Reads(d, n) : m \in Below(d, r)
<1>1. n \in Below(d, n) /\ Below(d, n) \subseteq Nodes(d)
  BY DEF Below
<1>2. \A m \in Below(d, n) : Reads(d, m) \subseteq Below(d, n)
  BY GraphFacts DEF Below, ReadClosed
<1>3. \A m \in Reads(d, n) : Below(d, m) \subseteq Below(d, n)
  BY DEF Below, ReadClosed
<1>4. ASSUME NEW m \in Below(d, n), m # n
      PROVE  \E r \in Reads(d, n) : m \in Below(d, r)
  <2> DEFINE C == {n} \cup {k \in Nodes(d) : \E r \in Reads(d, n) : k \in Below(d, r)}
  <2>1. ReadClosed(d, C)
    <3>1. ASSUME NEW c \in C, NEW r \in Reads(d, c) PROVE r \in C
      <4>1. Reads(d, n) \subseteq Nodes(d)
        BY GraphFacts
      <4>2. CASE c = n
        <5>1. r \in Nodes(d) /\ r \in Reads(d, n)
          BY <4>1, <4>2
        <5>2. r \in Below(d, r)
          BY <5>1 DEF Below
        <5> QED BY <5>1, <5>2
      <4>3. CASE c # n
        <5>1. PICK q \in Reads(d, n) : c \in Below(d, q)
          BY <4>3
        <5>2. c \in Nodes(d) /\ r \in Nodes(d)
          BY <4>3, GraphFacts
        <5>3. r \in Below(d, q)
          BY <5>1, <5>2 DEF Below, ReadClosed
        <5> QED BY <5>1, <5>2, <5>3
      <4> QED BY <4>2, <4>3
    <3> QED BY <3>1 DEF ReadClosed
  <2>2. C \in SUBSET Nodes(d) /\ n \in C
    OBVIOUS
  <2>3. m \in C
    BY <2>1, <2>2 DEF Below
  <2> QED BY <1>4, <2>3
<1> QED
  BY <1>1, <1>2, <1>3, <1>4

\* What lies below a node includes all below those.
LEMMA BelowTransitive ==
    ASSUME NEW d \in Graphs, NEW n \in Nodes(d), NEW m \in Below(d, n)
    PROVE  Below(d, m) \subseteq Below(d, n)
BY DEF Below

-----------------------------------------------------------------------------
(* What a graph means.                                                     *)

\* The values of the inputs of a node that is no MUX, as Apply takes them.
OperandValues(d, val, n) == [k \in DOMAIN d.in[n] |-> val[d.in[n][k]]]

\* Values for every node that are what the graph means for `v'.
IsMeaning(d, v, f) ==
    f = [n \in Nodes(d) |-> NodeMeaning(d, v, f, n)]

\* Words given to the inputs are values of their types.
LEMMA GivenFacts ==
    ASSUME NEW d \in Graphs, NEW v \in Given(d), NEW n \in Nodes(d), d.kind[n] = "INPUT"
    PROVE  v[n] \in Values(d.type[n])
<1>1. n \in Inputs(d)
  BY DEF Inputs
<1>2. \A i \in Inputs(d) : v[i] \in Values(d.type[i])
  BY DEF Given, Assignments
<1> QED BY <1>1, <1>2

\* Typed values of the inputs of a node are operands.
LEMMA OperandsTyped ==
    ASSUME NEW d \in Graphs, NEW n \in Nodes(d), NEW val,
           \A m \in Reads(d, n) : val[m] \in Values(d.type[m])
    PROVE  OperandValues(d, val, n) \in Operands(d, n)
<1> DEFINE D == DOMAIN d.in[n]
           types == [k \in D |-> d.type[d.in[n][k]]]
           a == OperandValues(d, val, n)
<1>1. a = [k \in D |-> val[d.in[n][k]]]
  BY DEF OperandValues
<1>2. \A k \in D : a[k] \in Values(types[k])
  BY <1>1 DEF Reads
<1>3. DOMAIN a = D /\ a = [k \in D |-> a[k]]
  BY <1>1
<1>4. IsAssignment(a, D, types)
  BY <1>2, <1>3 DEF IsAssignment
<1>5. a \in Assignments(D, types)
  <2> HIDE DEF a, D, types
  <2> QED BY <1>4, AssignmentTest
<1> QED BY <1>5 DEF Operands

\* What a node means is a value of its type.
LEMMA NodeMeaningTyped ==
    ASSUME NEW d \in Graphs, NEW v \in Given(d), NEW n \in Nodes(d), NEW val,
           \A m \in Reads(d, n) : val[m] \in Values(d.type[m])
    PROVE  NodeMeaning(d, v, val, n) \in Values(d.type[n])
<1>1. CASE d.kind[n] = "INPUT"
  BY <1>1, GivenFacts DEF NodeMeaning, IsMux
<1>2. CASE d.kind[n] = "CONST"
  BY <1>2, OperationsTyped DEF NodeMeaning, IsMux
<1>3. CASE d.kind[n] = "X"
  <2>1. d.type[n] \in Types
    BY GraphFacts
  <2> QED BY <1>3, <2>1, ZeroIsValue DEF NodeMeaning, IsMux
<1>4. CASE IsMux(d, n)
  <2> DEFINE arm == Arm(d, n, ArmFor(d, n, val[Selector(d, n)][0]))
  <2>1. arm \in Reads(d, n)
    BY <1>4, MuxFacts
  <2>2. NodeMeaning(d, v, val, n) = ResizedTo(val[arm], d.type[arm], d.type[n])
    BY <1>4 DEF NodeMeaning, IsMux
  <2> HIDE DEF arm
  <2> QED BY <1>4, <2>1, <2>2, OperationsTyped
<1>5. CASE ~IsOrigin(d, n) /\ ~IsMux(d, n)
  <2>1. NodeMeaning(d, v, val, n) = Apply(d, n, OperandValues(d, val, n))
    BY <1>5 DEF NodeMeaning, IsOrigin, Origins, OperandValues
  <2>2. OperandValues(d, val, n) \in Operands(d, n)
    BY OperandsTyped
  <2> QED BY <1>5, <2>1, <2>2, OperationsTyped
<1> QED
  BY <1>1, <1>2, <1>3, <1>4, <1>5 DEF IsOrigin, Origins

\* What a node means depends on what it reads, and on the input it is.
LEMMA NodeMeaningReads ==
    ASSUME NEW d \in Graphs, NEW v, NEW w, NEW n \in Nodes(d), NEW val, NEW other,
           \A m \in Reads(d, n) : val[m] \in Values(d.type[m]) /\ val[m] = other[m],
           n \in Inputs(d) => v[n] = w[n]
    PROVE  NodeMeaning(d, v, val, n) = NodeMeaning(d, w, other, n)
<1>1. CASE IsOrigin(d, n)
  <2>1. CASE d.kind[n] = "INPUT"
    BY <2>1 DEF NodeMeaning, IsMux, Inputs
  <2>2. CASE d.kind[n] = "CONST"
    BY <2>2 DEF NodeMeaning, IsMux
  <2>3. CASE d.kind[n] = "X"
    BY <2>3 DEF NodeMeaning, IsMux
  <2> QED BY <1>1, <2>1, <2>2, <2>3 DEF IsOrigin, Origins
<1>2. CASE IsMux(d, n)
  <2> DEFINE arm == Arm(d, n, ArmFor(d, n, val[Selector(d, n)][0]))
  <2>1. arm \in Reads(d, n) /\ Selector(d, n) \in Reads(d, n)
    BY <1>2, MuxFacts
  <2>2. NodeMeaning(d, v, val, n) = ResizedTo(val[arm], d.type[arm], d.type[n])
    BY <1>2 DEF NodeMeaning, IsMux
  <2>3. NodeMeaning(d, w, other, n) = ResizedTo(other[arm], d.type[arm], d.type[n])
    BY <1>2, <2>1 DEF NodeMeaning, IsMux
  <2> HIDE DEF arm
  <2> QED BY <2>1, <2>2, <2>3
<1>3. CASE ~IsOrigin(d, n) /\ ~IsMux(d, n)
  <2>1. /\ NodeMeaning(d, v, val, n) = Apply(d, n, OperandValues(d, val, n))
        /\ NodeMeaning(d, w, other, n) = Apply(d, n, OperandValues(d, other, n))
    BY <1>3 DEF NodeMeaning, IsOrigin, Origins, OperandValues
  <2>2. OperandValues(d, val, n) = OperandValues(d, other, n)
    BY DEF OperandValues, Reads
  <2> QED BY <2>1, <2>2
<1> QED
  BY <1>1, <1>2, <1>3

\* The recursion has a solution on a graph without loops.
LEMMA MeaningExists ==
    ASSUME NEW d \in Graphs, ~HasLoop(d), NEW v \in Given(d)
    PROVE  \E f : IsMeaning(d, v, f)
<1> DEFINE Solves(f, T) == \A n \in T : f[n] = NodeMeaning(d, v, f, n) /\ f[n] \in Values(d.type[n])
           Solved == {T \in SUBSET Nodes(d) : ReadClosed(d, T) /\ \E f : Solves(f, T)}
           Sizes == {Cardinality(T) : T \in Solved}
<1>1. /\ IsFiniteSet(Nodes(d))
      /\ \A n \in Nodes(d) : Reads(d, n) \subseteq Nodes(d)
  BY GraphFacts
<1>2. \A T \in SUBSET Nodes(d) : IsFiniteSet(T) /\ Cardinality(T) \in 0 .. d.size
  <2> TAKE T \in SUBSET Nodes(d)
  <2>1. IsFiniteSet(T) /\ Cardinality(T) <= Cardinality(Nodes(d))
    BY <1>1, FS_Subset
  <2>2. Cardinality(T) \in Nat
    BY <2>1, FS_CardinalityType
  <2>3. d.size \in Nat /\ Cardinality(Nodes(d)) = d.size
    BY GraphFacts
  <2> QED BY <2>1, <2>2, <2>3
<1>3. Sizes \subseteq 0 .. d.size /\ IsFiniteSet(Sizes) /\ Sizes \in SUBSET Nat
  <2>1. Sizes \subseteq 0 .. d.size
    BY <1>2
  <2>2. d.size \in Nat
    BY GraphFacts
  <2>3. IsFiniteSet(0 .. d.size)
    BY <2>2, FS_Interval
  <2>4. IsFiniteSet(Sizes)
    BY <2>1, <2>3, FS_Subset
  <2>5. 0 .. d.size \subseteq Nat
    BY <2>2
  <2> QED BY <2>1, <2>4, <2>5
<1>4. Sizes # {}
  <2>1. {} \in Solved
    BY DEF ReadClosed
  <2> QED BY <2>1
<1>5. PICK T \in Solved : \A U \in Solved : Cardinality(U) <= Cardinality(T)
  <2>1. PICK s \in Sizes : \A t \in Sizes : t <= s
    <3> HIDE DEF Sizes
    <3> QED BY <1>3, <1>4, GreatestNatural
  <2> QED BY <2>1
<1>6. PICK f : Solves(f, T)
  OBVIOUS
<1>7. \A n \in Nodes(d) : Reads(d, n) \subseteq T => n \in T
  <2> SUFFICES ASSUME NEW n \in Nodes(d), Reads(d, n) \subseteq T, n \notin T PROVE FALSE
    OBVIOUS
  <2> DEFINE U == T \cup {n}
             g == [m \in U |-> IF m \in T THEN f[m] ELSE NodeMeaning(d, v, f, n)]
  <2>0. T \in SUBSET Nodes(d) /\ ReadClosed(d, T)
    OBVIOUS
  <2>1. U \in SUBSET Nodes(d) /\ ReadClosed(d, U)
    BY <2>0 DEF ReadClosed
  <2>2. \A m \in T : g[m] = f[m] /\ f[m] \in Values(d.type[m])
    BY <1>6
  <2>3. g[n] = NodeMeaning(d, v, f, n)
    OBVIOUS
  <2>4. ASSUME NEW m \in U PROVE NodeMeaning(d, v, f, m) = NodeMeaning(d, v, g, m)
    <3>1. Reads(d, m) \subseteq T
      BY <2>0 DEF ReadClosed
    <3>2. \A r \in Reads(d, m) : f[r] \in Values(d.type[r]) /\ f[r] = g[r]
      BY <2>2, <3>1
    <3>3. m \in Nodes(d)
      BY <2>1
    <3> HIDE DEF g
    <3> QED BY <3>2, <3>3, NodeMeaningReads
  <2>5. NodeMeaning(d, v, f, n) \in Values(d.type[n])
    BY <2>2, NodeMeaningTyped
  <2>6. Solves(g, U)
    <3> HIDE DEF g
    <3>1. \A m \in T : g[m] = NodeMeaning(d, v, g, m) /\ g[m] \in Values(d.type[m])
      BY <1>6, <2>2, <2>4
    <3>2. g[n] = NodeMeaning(d, v, g, n) /\ g[n] \in Values(d.type[n])
      BY <2>3, <2>4, <2>5
    <3> QED BY <3>1, <3>2
  <2>7. U \in Solved
    <3> HIDE DEF g, U
    <3> QED BY <2>1, <2>6
  <2>8. Cardinality(U) = Cardinality(T) + 1
    BY <2>0, <1>2, FS_AddElement
  <2>9. Cardinality(U) <= Cardinality(T)
    BY <1>5, <2>7
  <2>10. Cardinality(T) \in Nat
    BY <2>0, <1>2
  <2> QED BY <2>8, <2>9, <2>10
<1>8. T = Nodes(d)
  <2>1. Nodes(d) \subseteq T
    BY <1>7, InductionBelow
  <2> QED BY <2>1
<1> DEFINE g == [n \in Nodes(d) |-> f[n]]
<1>9. ASSUME NEW n \in Nodes(d) PROVE g[n] = NodeMeaning(d, v, g, n)
  <2>1. \A r \in Reads(d, n) : f[r] \in Values(d.type[r]) /\ f[r] = g[r]
    BY <1>1, <1>6, <1>8
  <2>2. NodeMeaning(d, v, f, n) = NodeMeaning(d, v, g, n)
    <3> HIDE DEF g
    <3> QED BY <2>1, NodeMeaningReads
  <2> QED BY <1>6, <1>8, <2>2
<1>10. IsMeaning(d, v, g)
  BY <1>9 DEF IsMeaning
<1> QED
  BY <1>10

\* What a graph without loops means: the equation of every node holds.
LEMMA MeaningSolves ==
    ASSUME NEW d \in Graphs, ~HasLoop(d), NEW v \in Given(d)
    PROVE  \A n \in Nodes(d) : /\ Meaning(d, v)[n] = NodeMeaning(d, v, Meaning(d, v), n)
                               /\ Meaning(d, v)[n] \in Values(d.type[n])
<1> DEFINE f == Meaning(d, v)
           S == {n \in Nodes(d) : f[n] \in Values(d.type[n])}
<1>1. f = CHOOSE g : IsMeaning(d, v, g)
  BY DEF Meaning, IsMeaning
<1>2. IsMeaning(d, v, f)
  BY <1>1, MeaningExists
<1> HIDE DEF f
<1>3. \A n \in Nodes(d) : f[n] = NodeMeaning(d, v, f, n)
  <2> DEFINE g == [n \in Nodes(d) |-> NodeMeaning(d, v, f, n)]
  <2>1. f = g
    BY <1>2 DEF IsMeaning
  <2>2. \A n \in Nodes(d) : g[n] = NodeMeaning(d, v, f, n)
    OBVIOUS
  <2> HIDE DEF g
  <2> QED BY <2>1, <2>2
<1>4. ASSUME NEW n \in Nodes(d), Reads(d, n) \subseteq S PROVE n \in S
  <2>1. \A m \in Reads(d, n) : f[m] \in Values(d.type[m])
    BY <1>4
  <2>2. NodeMeaning(d, v, f, n) \in Values(d.type[n])
    BY <2>1, NodeMeaningTyped
  <2> QED BY <1>3, <2>2
<1>5. Nodes(d) \subseteq S
  <2> HIDE DEF S
  <2> QED BY <1>4, InductionBelow
<1> QED
  BY <1>3, <1>5 DEF f

-----------------------------------------------------------------------------
(* The arms of a MUX.                                                      *)

\* The group of an arm is the first arm with its key.
LEMMA GroupFacts ==
    ASSUME NEW d \in Graphs, NEW n \in Nodes(d), IsMux(d, n), NEW k \in DOMAIN d.codes[n]
    PROVE  /\ GroupOf(d, n, k) \in 1 .. k /\ GroupOf(d, n, k) \in DOMAIN d.codes[n]
           /\ ArmKey(d, n, GroupOf(d, n, k)) = ArmKey(d, n, k)
<1> DEFINE Same == {j \in 1 .. k : ArmKey(d, n, j) = ArmKey(d, n, k)}
<1>1. DOMAIN d.codes[n] = 1 .. Len(d.codes[n]) /\ Len(d.codes[n]) \in Nat
  BY MuxFacts
<1>2. k \in Nat \ {0} /\ 1 .. k \subseteq DOMAIN d.codes[n]
  BY <1>1
<1>3. Same \in SUBSET Nat /\ k \in Same
  BY <1>2
<1>4. PICK j \in Same : \A i \in Same : j <= i
  <2> HIDE DEF Same
  <2> QED BY <1>3, LeastNatural
<1>5. \A i \in 1 .. j - 1 : ArmKey(d, n, i) # ArmKey(d, n, k)
  <2> SUFFICES ASSUME NEW i \in 1 .. j - 1, ArmKey(d, n, i) = ArmKey(d, n, k) PROVE FALSE
    OBVIOUS
  <2>1. j \in 1 .. k /\ j \in Nat
    BY <1>2
  <2>2. i \in 1 .. k /\ i < j
    BY <1>2, <2>1
  <2>3. j <= i
    BY <1>4, <2>2
  <2> QED BY <2>1, <2>2, <2>3
<1>6. GroupOf(d, n, k) \in 1 .. k /\ ArmKey(d, n, GroupOf(d, n, k)) = ArmKey(d, n, k)
  <2>1. j \in 1 .. k /\ ArmKey(d, n, j) = ArmKey(d, n, k)
    OBVIOUS
  <2> HIDE DEF Same
  <2> QED BY <1>5, <2>1 DEF GroupOf
<1> QED BY <1>2, <1>6

\* The lines a node costs are a number.
LEMMA NodeCostNatural ==
    ASSUME NEW d \in Graphs, NEW n \in Nodes(d)
    PROVE  NodeCost(d, n) \in Nat
<1>1. CASE ~IsMux(d, n)
  BY <1>1 DEF NodeCost
<1>2. CASE IsMux(d, n)
  <2> DEFINE D == DOMAIN d.codes[n]
             labels == {k \in D : GroupOf(d, n, k) \notin DefaultGroup(d, n)}
  <2>1. IsFiniteSet(D)
    <3>1. D = 1 .. Len(d.codes[n]) /\ Len(d.codes[n]) \in Nat
      BY <1>2, MuxFacts
    <3> HIDE DEF D
    <3> QED BY <3>1, FS_Interval
  <2>2. Groups(d, n) \subseteq D /\ labels \subseteq D
    BY <1>2, GroupFacts DEF Groups
  <2>3. Cardinality(Groups(d, n)) \in Nat /\ Cardinality(labels) \in Nat
    <3> HIDE DEF D, labels
    <3>1. IsFiniteSet(Groups(d, n)) /\ IsFiniteSet(labels)
      BY <2>1, <2>2, FS_Subset
    <3> QED BY <3>1, FS_CardinalityType
  <2>4. NodeCost(d, n) = Cardinality(labels) + Cardinality(Groups(d, n))
    BY <1>2 DEF NodeCost
  <2> HIDE DEF labels
  <2> QED BY <2>3, <2>4
<1> QED BY <1>1, <1>2

\* One group at most has the `default:'.
LEMMA DefaultGroupUnique ==
    ASSUME NEW d \in Graphs, NEW n \in Nodes(d), IsMux(d, n)
    PROVE  /\ DefaultGroup(d, n) \subseteq Groups(d, n)
           /\ \A r, s \in DefaultGroup(d, n) : r = s
<1>1. DefaultGroup(d, n) \subseteq Groups(d, n)
  BY DEF DefaultGroup
<1>2. ASSUME NEW r \in DefaultGroup(d, n), NEW s \in DefaultGroup(d, n) PROVE r = s
  <2> DEFINE mine == Cardinality(Labels(d, n, r))
             other == Cardinality(Labels(d, n, s))
  <2>1. other < mine \/ (other = mine /\ r <= s)
    BY <1>1, <1>2 DEF DefaultGroup
  <2>2. mine < other \/ (mine = other /\ s <= r)
    BY <1>1, <1>2 DEF DefaultGroup
  <2>3. DOMAIN d.codes[n] = 1 .. Len(d.codes[n]) /\ Len(d.codes[n]) \in Nat
    BY MuxFacts
  <2>4. r \in Nat /\ s \in Nat
    <3>1. Groups(d, n) \subseteq DOMAIN d.codes[n]
      BY GroupFacts DEF Groups
    <3> QED BY <1>1, <2>3, <3>1
  <2>5. \A g : Labels(d, n, g) \subseteq DOMAIN d.codes[n]
    BY DEF Labels
  <2>6. IsFiniteSet(DOMAIN d.codes[n])
    <3>1. \A l \in Nat : IsFiniteSet(1 .. l)
      BY FS_Interval
    <3> QED BY <2>3, <3>1
  <2>7. mine \in Nat /\ other \in Nat
    <3>1. IsFiniteSet(Labels(d, n, r)) /\ IsFiniteSet(Labels(d, n, s))
      BY <2>5, <2>6, FS_Subset
    <3> QED BY <3>1, FS_CardinalityType
  <2> HIDE DEF mine, other
  <2> QED BY <2>1, <2>2, <2>4, <2>7
<1> QED BY <1>1, <1>2

\* The one arm a selector takes has the key of the arm of its code, so that the
\* default that throws is never reached.
LEMMA TakenArmFacts ==
    ASSUME NEW d \in Graphs, dfg = d, NEW n \in Nodes(d), IsMux(d, n),
           NEW v \in Values(d.type[Selector(d, n)])
    PROVE  TakenArm(n, v[0]) = {GroupOf(d, n, ArmFor(d, n, v[0]))}
<1> DEFINE k == ArmFor(d, n, v[0])
           labelled == {j \in DOMAIN d.codes[n] :
                          d.codes[n][j] = v[0] /\ GroupOf(d, n, j) \notin DefaultGroup(d, n)}
<1>1. /\ k \in DOMAIN d.codes[n] /\ d.codes[n][k] = v[0]
      /\ \A j \in DOMAIN d.codes[n] : d.codes[n][j] = v[0] => j = k
  BY MuxFacts
<1>2. TakenArm(n, v[0]) = IF labelled # {} THEN {GroupOf(d, n, j) : j \in labelled}
                          ELSE DefaultGroup(d, n)
  BY DEF TakenArm
<1> HIDE DEF k
<1>3. CASE GroupOf(d, n, k) \in DefaultGroup(d, n)
  <2>1. labelled = {}
    BY <1>1, <1>3
  <2>2. DefaultGroup(d, n) = {GroupOf(d, n, k)}
    BY <1>3, DefaultGroupUnique
  <2> HIDE DEF labelled
  <2> QED BY <1>2, <2>1, <2>2 DEF k
<1>4. CASE GroupOf(d, n, k) \notin DefaultGroup(d, n)
  <2>1. labelled = {k}
    BY <1>1, <1>4
  <2>2. {GroupOf(d, n, j) : j \in labelled} = {GroupOf(d, n, k)}
    BY <2>1
  <2> HIDE DEF labelled
  <2> QED BY <1>2, <2>1, <2>2 DEF k
<1> QED BY <1>3, <1>4

\* Arms with one key are one node, or constants of one value and type.
LEMMA ArmKeyFacts ==
    ASSUME NEW d \in Graphs, NEW n \in Nodes(d), NEW j, NEW k,
           Arm(d, n, j) \in Nodes(d), Arm(d, n, k) \in Nodes(d),
           ArmKey(d, n, j) = ArmKey(d, n, k)
    PROVE  \/ Arm(d, n, j) = Arm(d, n, k)
           \/ /\ d.kind[Arm(d, n, j)] = "CONST" /\ d.kind[Arm(d, n, k)] = "CONST"
              /\ d.value[Arm(d, n, j)] = d.value[Arm(d, n, k)]
              /\ d.type[Arm(d, n, j)] = d.type[Arm(d, n, k)]
<1> DEFINE a == Arm(d, n, j)
           b == Arm(d, n, k)
<1>1. a \in Nat \ {0} /\ b \in Nat \ {0} /\ d.type[a] \in Types /\ d.type[b] \in Types
  BY GraphFacts
<1>2. /\ ArmKey(d, n, j) = IF d.kind[a] = "CONST" THEN <<0, d.value[a], d.type[a].width, d.type[a].signed>>
                           ELSE <<a, 0, 0, FALSE>>
      /\ ArmKey(d, n, k) = IF d.kind[b] = "CONST" THEN <<0, d.value[b], d.type[b].width, d.type[b].signed>>
                           ELSE <<b, 0, 0, FALSE>>
  BY DEF ArmKey
<1>3. CASE d.kind[a] = "CONST" /\ d.kind[b] = "CONST"
  <2>1. <<0, d.value[a], d.type[a].width, d.type[a].signed>> = <<0, d.value[b], d.type[b].width, d.type[b].signed>>
    BY <1>2, <1>3
  <2>2. d.value[a] = d.value[b] /\ d.type[a].width = d.type[b].width /\ d.type[a].signed = d.type[b].signed
    BY <2>1
  <2>3. d.type[a] = d.type[b]
    BY <1>1, <2>2 DEF Types
  <2> QED BY <1>3, <2>2, <2>3
<1>4. CASE d.kind[a] # "CONST" /\ d.kind[b] # "CONST"
  <2>1. <<a, 0, 0, FALSE>> = <<b, 0, 0, FALSE>>
    BY <1>2, <1>4
  <2>2. a = b
    BY <2>1
  <2> QED BY <2>2
<1>5. CASE d.kind[a] = "CONST" /\ d.kind[b] # "CONST"
  <2>1. <<0, d.value[a], d.type[a].width, d.type[a].signed>> = <<b, 0, 0, FALSE>>
    BY <1>2, <1>5
  <2>2. b = 0
    BY <2>1
  <2> QED BY <1>1, <2>2
<1>6. CASE d.kind[a] # "CONST" /\ d.kind[b] = "CONST"
  <2>1. <<a, 0, 0, FALSE>> = <<0, d.value[b], d.type[b].width, d.type[b].signed>>
    BY <1>2, <1>6
  <2>2. a = 0
    BY <2>1
  <2> QED BY <1>1, <2>2
<1> QED BY <1>3, <1>4, <1>5, <1>6

-----------------------------------------------------------------------------
(* Generation: the types of its variables, and the sort.                   *)

\* The phases, and the frames of the sort.
Phases == Generating \cup Built \cup {"loop", "unavailable", "unseeded", "thrown"}
Frames == [node : Nodes(dfg), next : Nat \ {0}]

\* The types of the variables that generation writes.
GeneratorTypeOK ==
    /\ dfg \in Graphs
    /\ phase \in Phases
    /\ at \in 1 .. dfg.size + 1
    /\ visit \in [Nodes(dfg) -> {"unvisited", "onStack", "done"}]
    /\ stack \in Seq(Frames)
    /\ order \in Seq(Nodes(dfg))
    /\ cost \in Nat /\ chunk \in Nat /\ spillWords \in Nat
    /\ chunkOf \in [Nodes(dfg) -> Nat]
    /\ spillAt \in [Nodes(dfg) -> Nat \cup {NoSpill}]

\* The order holds no node twice, and a node after those it reads.
IsInjectiveOrder == \A i, j \in 1 .. Len(order) : order[i] = order[j] => i = j
IsTopological ==
    \A i \in 1 .. Len(order) : \A m \in Reads(dfg, order[i]) : \E j \in 1 .. i - 1 : order[j] = m

\* While sorting the nodes in the order are those that are done, the frames are
\* the nodes on the stack, each read by the one below it, and what a frame has
\* passed is done.
Sorting ==
    /\ IsInjectiveOrder /\ IsTopological
    /\ \A n \in Nodes(dfg) : visit[n] = "done" <=> \E i \in 1 .. Len(order) : order[i] = n
    /\ \A i, j \in 1 .. Len(stack) : stack[i].node = stack[j].node => i = j
    /\ \A n \in Nodes(dfg) : visit[n] = "onStack" <=> \E i \in 1 .. Len(stack) : stack[i].node = n
    /\ \A i \in 1 .. Len(stack) :
          /\ stack[i].next \in 1 .. Len(dfg.in[stack[i].node]) + 1
          /\ i < Len(stack) => /\ stack[i].next > 1
                               /\ dfg.in[stack[i].node][stack[i].next - 1] = stack[i + 1].node
          /\ \A k \in 1 .. stack[i].next - 1 :
                \/ visit[dfg.in[stack[i].node][k]] = "done"
                \/ i < Len(stack) /\ k = stack[i].next - 1
    /\ \A n \in Nodes(dfg) : n < at => visit[n] # "unvisited"

\* After the sort the order is a permutation of the nodes.
Ordered ==
    /\ Len(order) = dfg.size
    /\ IsInjectiveOrder /\ IsTopological
    /\ \A n \in Nodes(dfg) : \E i \in 1 .. dfg.size : order[i] = n

\* What holds of the sort: while it runs, when it throws, and once it is over.
SortInv ==
    /\ phase = "sort" => Sorting
    /\ phase = "loop" => HasLoop(dfg)
    /\ phase \notin {"sort", "loop"} => Ordered

\* The frame on top of the stack, and the stack when the frame passes an input.
LEMMA TopFacts ==
    ASSUME GeneratorTypeOK, stack # <<>>
    PROVE  /\ Len(stack) \in Nat \ {0}
           /\ Top \in Frames /\ Top.node \in Nodes(dfg) /\ Top.next \in Nat \ {0}
           /\ [stack EXCEPT ![Len(stack)].next = @ + 1] \in Seq(Frames)
           /\ Len([stack EXCEPT ![Len(stack)].next = @ + 1]) = Len(stack)
           /\ \A i \in 1 .. Len(stack) :
                /\ [stack EXCEPT ![Len(stack)].next = @ + 1][i].node = stack[i].node
                /\ [stack EXCEPT ![Len(stack)].next = @ + 1][i].next
                     = IF i = Len(stack) THEN stack[i].next + 1 ELSE stack[i].next
<1>1. stack \in Seq(Frames)
  BY DEF GeneratorTypeOK
<1>2. Len(stack) \in Nat \ {0} /\ DOMAIN stack = 1 .. Len(stack)
  BY <1>1, EmptySeq, LenProperties
<1>3. Len(stack) \in 1 .. Len(stack)
  BY <1>2
<1>4. \A i \in 1 .. Len(stack) : stack[i] \in Frames
  BY <1>1, ElementOfSeq
<1>5. Top \in Frames
  BY <1>3, <1>4 DEF Top
<1>6. Top.node \in Nodes(dfg) /\ Top.next \in Nat \ {0}
  BY <1>5 DEF Frames
<1> DEFINE f == [Top EXCEPT !.next = @ + 1]
           passed == [stack EXCEPT ![Len(stack)].next = @ + 1]
<1>7. f \in Frames /\ f.node = Top.node /\ f.next = Top.next + 1
  BY <1>5 DEF Frames
<1>8. passed = [stack EXCEPT ![Len(stack)] = f]
  BY DEF Top
<1> HIDE DEF f, passed
<1>9. /\ passed \in Seq(Frames) /\ Len(passed) = Len(stack)
      /\ \A i \in 1 .. Len(stack) : passed[i] = IF i = Len(stack) THEN f ELSE stack[i]
  BY <1>1, <1>3, <1>7, <1>8, ExceptSeq
<1>10. \A i \in 1 .. Len(stack) :
         /\ passed[i].node = stack[i].node
         /\ passed[i].next = IF i = Len(stack) THEN stack[i].next + 1 ELSE stack[i].next
  BY <1>7, <1>9 DEF Top
<1> QED BY <1>2, <1>5, <1>6, <1>9, <1>10 DEF passed

\* The stack without its top.
LEMMA PopFacts ==
    ASSUME GeneratorTypeOK, stack # <<>>
    PROVE  /\ SubSeq(stack, 1, Len(stack) - 1) \in Seq(Frames)
           /\ Len(SubSeq(stack, 1, Len(stack) - 1)) = Len(stack) - 1
           /\ \A i \in 1 .. Len(stack) - 1 : SubSeq(stack, 1, Len(stack) - 1)[i] = stack[i]
<1>1. Len(stack) \in Nat \ {0}
  BY TopFacts
<1>2. \A i \in 1 .. Len(stack) - 1 : stack[i] \in Frames
  <2>1. stack \in Seq(Frames)
    BY DEF GeneratorTypeOK
  <2>2. \A i \in 1 .. Len(stack) : stack[i] \in Frames
    BY <2>1, ElementOfSeq
  <2> QED BY <1>1, <2>2
<1> DEFINE l == Len(stack) - 1
           s == SubSeq(stack, 1, l)
<1>3. l \in Nat
  BY <1>1
<1> HIDE DEF l
<1>4. /\ s \in Seq(Frames) /\ Len(s) = (IF 1 <= l THEN l - 1 + 1 ELSE 0)
      /\ \A i \in 1 .. l - 1 + 1 : s[i] = stack[1 + i - 1]
  BY <1>2, <1>3, SubSeqProperties DEF l
<1> HIDE DEF s
<1>5. Len(s) = l /\ \A i \in 1 .. l : s[i] = stack[i]
  BY <1>3, <1>4
<1> QED BY <1>4, <1>5 DEF l, s

\* An input of the frame on top.
LEMMA ProducerFacts ==
    ASSUME GeneratorTypeOK, stack # <<>>, Top.next <= Len(dfg.in[Top.node])
    PROVE  /\ dfg.in[Top.node][Top.next] \in Nodes(dfg)
           /\ dfg.in[Top.node][Top.next] \in Reads(dfg, Top.node)
           /\ Frame(dfg.in[Top.node][Top.next]) \in Frames
<1>1. dfg \in Graphs /\ Top.node \in Nodes(dfg)
  BY TopFacts DEF GeneratorTypeOK
<1>2. dfg.in[Top.node] \in Seq(Nodes(dfg)) /\ Reads(dfg, Top.node) \subseteq Nodes(dfg)
  BY <1>1, GraphFacts
<1>3. Top.next \in DOMAIN dfg.in[Top.node]
  BY <1>2, TopFacts, LenProperties
<1>4. dfg.in[Top.node][Top.next] \in Reads(dfg, Top.node)
  BY <1>3 DEF Reads
<1> QED BY <1>2, <1>4 DEF Frame, Frames

\* The next position is one of the order or the one after it.
LEMMA PositionFacts ==
    ASSUME GeneratorTypeOK
    PROVE  /\ dfg \in Graphs /\ dfg.size \in Nat /\ at \in Nat \ {0}
           /\ at <= dfg.size => at \in Nodes(dfg) /\ at + 1 \in 1 .. dfg.size + 1
           /\ 1 \in 1 .. dfg.size + 1
           /\ Len(order) \in Nat /\ \A i \in 1 .. Len(order) : order[i] \in Nodes(dfg)
<1>1. dfg \in Graphs /\ at \in 1 .. dfg.size + 1 /\ order \in Seq(Nodes(dfg))
  BY DEF GeneratorTypeOK
<1>2. dfg.size \in Nat
  BY <1>1, GraphFacts
<1>3. Len(order) \in Nat /\ \A i \in 1 .. Len(order) : order[i] \in Nodes(dfg)
  BY <1>1, LenProperties, ElementOfSeq
<1> QED BY <1>1, <1>2, <1>3 DEF Nodes

\* A step of the sort keeps the types.
LEMMA SortTypes ==
    ASSUME GeneratorTypeOK, Root \/ Descend \/ Leave \/ Sorted
    PROVE  GeneratorTypeOK'
<1> USE DEF Phases, Generating, Built, layout
<1>1. /\ dfg' = dfg /\ Frames' = Frames /\ Nodes(dfg)' = Nodes(dfg)
      /\ UNCHANGED layout
  BY DEF Root, Descend, Leave, Sorted, Frames, Nodes
<1>2. chunkOf' \in [Nodes(dfg') -> Nat] /\ spillAt' \in [Nodes(dfg') -> Nat \cup {NoSpill}]
      /\ cost' \in Nat /\ chunk' \in Nat /\ spillWords' \in Nat /\ dfg' \in Graphs
  BY <1>1 DEF GeneratorTypeOK
<1>3. phase' \in Phases
  BY DEF GeneratorTypeOK, Root, Descend, Leave, Sorted
<1>4. at' \in 1 .. dfg.size + 1
  BY PositionFacts DEF GeneratorTypeOK, Root, Descend, Leave, Sorted
<1>5. visit' \in [Nodes(dfg) -> {"unvisited", "onStack", "done"}]
  <2>1. visit' = visit \/ \E n \in Nodes(dfg), mark \in {"onStack", "done"} : visit' = [visit EXCEPT ![n] = mark]
    <3>1. CASE Root
      BY <3>1, PositionFacts DEF Root
    <3>2. CASE Descend
      <4>1. dfg.in[Top.node][Top.next] \in Nodes(dfg)
        BY <3>2, ProducerFacts DEF Descend
      <4> QED BY <3>2, <4>1 DEF Descend
    <3>3. CASE Leave
      <4>1. Top.node \in Nodes(dfg)
        BY <3>3, TopFacts DEF Leave
      <4> QED BY <3>3, <4>1 DEF Leave
    <3>4. CASE Sorted
      BY <3>4 DEF Sorted, sorting
    <3> QED BY <3>1, <3>2, <3>3, <3>4
  <2>2. visit \in [Nodes(dfg) -> {"unvisited", "onStack", "done"}]
    BY DEF GeneratorTypeOK
  <2> QED BY <2>1, <2>2
<1>6. order' \in Seq(Nodes(dfg))
  <2>1. CASE Leave
    <3>1. Top.node \in Nodes(dfg)
      BY <2>1, TopFacts DEF Leave
    <3> QED BY <2>1, <3>1, AppendProperties DEF Leave, GeneratorTypeOK
  <2> QED BY <2>1 DEF GeneratorTypeOK, Root, Descend, Sorted, sorting
<1>7. stack' \in Seq(Frames)
  <2>1. CASE Root
    <3>1. at \in Nodes(dfg) /\ Frame(at) \in Frames
      <4>1. at \in Nodes(dfg)
        BY <2>1, PositionFacts DEF Root
      <4> QED BY <4>1 DEF Frame, Frames
    <3>2. <<Frame(at)>> \in Seq(Frames)
      BY <3>1
    <3> QED BY <2>1, <3>2 DEF Root, GeneratorTypeOK
  <2>2. CASE Descend
    <3> DEFINE passed == [stack EXCEPT ![Len(stack)].next = @ + 1]
               producer == dfg.in[Top.node][Top.next]
    <3>1. passed \in Seq(Frames)
      BY <2>2, TopFacts DEF Descend
    <3>2. stack' = passed \/ stack' = Append(passed, Frame(producer))
      BY <2>2 DEF Descend
    <3>3. CASE stack' = passed
      BY <3>1, <3>3
    <3>4. CASE stack' = Append(passed, Frame(producer))
      <4>1. Frame(producer) \in Frames
        BY <2>2, ProducerFacts DEF Descend
      <4> HIDE DEF passed
      <4> QED BY <3>1, <3>4, <4>1, AppendProperties
    <3> QED BY <3>2, <3>3, <3>4
  <2>3. CASE Leave
    BY <2>3, PopFacts DEF Leave
  <2>4. CASE Sorted
    BY <2>4 DEF Sorted, sorting, GeneratorTypeOK
  <2> QED BY <2>1, <2>2, <2>3, <2>4
<1> QED BY <1>1, <1>2, <1>3, <1>4, <1>5, <1>6, <1>7 DEF GeneratorTypeOK

\* A step of the layout and the emission keeps the types.
LEMMA LayoutTypes ==
    ASSUME GeneratorTypeOK, Ordered,
           PlaceNode \/ ReserveSpill \/ EmitNode \/ NextPhase \/ EmitSeeds
    PROVE  GeneratorTypeOK'
<1> USE DEF Phases, Generating, Built
<1>1. /\ dfg' = dfg /\ Frames' = Frames /\ Nodes(dfg)' = Nodes(dfg)
      /\ UNCHANGED sorting
  BY DEF PlaceNode, ReserveSpill, EmitNode, NextPhase, EmitSeeds, Frames, Nodes
<1>2. /\ visit' \in [Nodes(dfg) -> {"unvisited", "onStack", "done"}]
      /\ stack' \in Seq(Frames) /\ order' \in Seq(Nodes(dfg)) /\ dfg' \in Graphs
  BY <1>1 DEF GeneratorTypeOK, sorting
<1>3. phase' \in Phases
  BY DEF GeneratorTypeOK, PlaceNode, ReserveSpill, EmitNode, NextPhase, EmitSeeds
<1>4. at' \in 1 .. dfg.size + 1
  BY PositionFacts DEF GeneratorTypeOK, PlaceNode, ReserveSpill, EmitNode, NextPhase, EmitSeeds
<1>5. CASE PlaceNode
  <2> DEFINE n == order[at]
  <2>1. n \in Nodes(dfg)
    BY <1>5, PositionFacts DEF PlaceNode, Ordered
  <2>2. NodeCost(dfg, n) \in Nat
    BY <2>1, NodeCostNatural DEF GeneratorTypeOK
  <2>3. cost' \in Nat /\ chunk' \in Nat /\ chunkOf' \in [Nodes(dfg) -> Nat]
    <3> HIDE DEF n
    <3>1. chunkOf' = [chunkOf EXCEPT ![n] = chunk]
      BY <1>5 DEF PlaceNode, n
    <3>2. (cost' = 0 /\ chunk' = chunk + 1) \/ (cost' = cost + NodeCost(dfg, n) /\ chunk' = chunk)
      BY <1>5 DEF PlaceNode, n
    <3>3. cost \in Nat /\ chunk \in Nat /\ chunkOf \in [Nodes(dfg) -> Nat]
      BY DEF GeneratorTypeOK
    <3>4. cost + NodeCost(dfg, n) \in Nat /\ chunk + 1 \in Nat
      BY <2>2, <3>3
    <3> QED BY <2>1, <3>1, <3>2, <3>3, <3>4
  <2>4. spillAt' = spillAt /\ spillWords' = spillWords
    BY <1>5 DEF PlaceNode
  <2> QED BY <1>1, <1>2, <1>3, <1>4, <2>3, <2>4 DEF GeneratorTypeOK
<1>6. CASE ReserveSpill
  <2> DEFINE n == order[at]
  <2>1. n \in Nodes(dfg)
    BY <1>6, PositionFacts DEF ReserveSpill, Ordered
  <2>2. Size(n) \in Nat
    <3>1. dfg.type[n] \in Types
      BY <2>1, GraphFacts DEF GeneratorTypeOK
    <3> QED BY <3>1, WordCountFacts DEF Size, Types
  <2>3. \/ spillAt' = [spillAt EXCEPT ![n] = spillWords] /\ spillWords' = spillWords + Size(n)
        \/ spillAt' = spillAt /\ spillWords' = spillWords
    BY <1>6 DEF ReserveSpill
  <2> HIDE DEF n
  <2>4. spillAt' \in [Nodes(dfg) -> Nat \cup {NoSpill}] /\ spillWords' \in Nat
    <3>1. spillAt \in [Nodes(dfg) -> Nat \cup {NoSpill}] /\ spillWords \in Nat
      BY DEF GeneratorTypeOK
    <3>2. spillWords + Size(n) \in Nat
      BY <2>2, <3>1
    <3> QED BY <2>1, <2>3, <3>1, <3>2
  <2>5. cost' = cost /\ chunk' = chunk /\ chunkOf' = chunkOf
    BY <1>6 DEF ReserveSpill
  <2> QED BY <1>1, <1>2, <1>3, <1>4, <2>4, <2>5 DEF GeneratorTypeOK
<1>7. CASE EmitNode \/ NextPhase \/ EmitSeeds
  <2>1. UNCHANGED layout
    BY <1>7 DEF EmitNode, NextPhase, EmitSeeds
  <2> QED BY <1>1, <1>2, <1>3, <1>4, <2>1 DEF GeneratorTypeOK, layout
<1> QED BY <1>5, <1>6, <1>7

\* An evaluation writes no variable of the generator but the phase and the
\* position.
LEMMA RunTypes ==
    ASSUME GeneratorTypeOK, Run
    PROVE  GeneratorTypeOK'
<1>1. /\ dfg' = dfg /\ Frames' = Frames /\ Nodes(dfg)' = Nodes(dfg)
      /\ UNCHANGED sorting /\ UNCHANGED layout
  BY DEF Run, Evaluate, Statement, Return, Frames, Nodes
<1>2. phase' \in Phases
  BY DEF GeneratorTypeOK, Run, Evaluate, Statement, Return, Phases, Generating, Built
<1>3. at' \in 1 .. dfg.size + 1
  BY PositionFacts DEF GeneratorTypeOK, Run, Evaluate, Statement, Return
<1> QED BY <1>1, <1>2, <1>3 DEF GeneratorTypeOK, sorting, layout

\* Nothing is on the stack when the next root is tried.
LEMMA RootSorting ==
    ASSUME GeneratorTypeOK, Sorting, Root
    PROVE  Sorting'
<1>1. /\ dfg' = dfg /\ order' = order /\ phase' = phase /\ at' = at + 1 /\ stack = <<>>
      /\ at \in Nodes(dfg) /\ at \in Nat
  BY PositionFacts DEF Root
<1>2. Len(stack) = 0 /\ \A n \in Nodes(dfg) : visit[n] # "onStack" /\ n \in Nat
  <2>1. Len(stack) = 0 /\ 1 .. Len(stack) = {}
    BY <1>1, EmptySeq
  <2> QED BY <2>1, GraphFacts DEF Sorting, GeneratorTypeOK
<1>3. visit \in [Nodes(dfg) -> {"unvisited", "onStack", "done"}]
  BY DEF GeneratorTypeOK
<1>4. CASE visit[at] = "done"
  <2>1. visit' = visit /\ stack' = stack
    BY <1>4 DEF Root
  <2>2. \A n \in Nodes(dfg) : n < at + 1 => visit[n] # "unvisited"
    BY <1>1, <1>2, <1>4 DEF Sorting
  <2>3. (IsInjectiveOrder /\ IsTopological)'
    BY <1>1 DEF Sorting, IsInjectiveOrder, IsTopological
  <2>4. /\ \A n \in Nodes(dfg) : visit[n] = "done" <=> \E i \in 1 .. Len(order) : order[i] = n
        /\ \A n \in Nodes(dfg) : visit[n] = "onStack" <=> \E i \in 1 .. Len(stack) : stack[i].node = n
    BY DEF Sorting
  <2>5. 1 .. Len(stack) = {}
    BY <1>2
  <2> QED BY <1>1, <2>1, <2>2, <2>3, <2>4, <2>5 DEF Sorting
<1>5. CASE visit[at] # "done"
  <2>1. visit[at] = "unvisited"
    BY <1>1, <1>2, <1>3, <1>5
  <2>2. visit' = [visit EXCEPT ![at] = "onStack"] /\ stack' = <<Frame(at)>>
    BY <1>5 DEF Root
  <2>3. Len(stack') = 1 /\ stack'[1].node = at /\ stack'[1].next = 1 /\ 1 .. Len(stack') = {1}
    BY <2>2 DEF Frame
  <2>4. \A n \in Nodes(dfg) : visit'[n] = IF n = at THEN "onStack" ELSE visit[n]
    BY <1>1, <1>3, <2>2
  <2>5. (IsInjectiveOrder /\ IsTopological)'
    BY <1>1 DEF Sorting, IsInjectiveOrder, IsTopological
  <2>6. \A n \in Nodes(dfg) : visit'[n] = "done" <=> \E i \in 1 .. Len(order) : order[i] = n
    BY <2>1, <2>4 DEF Sorting
  <2>7. /\ \A i, j \in 1 .. Len(stack') : stack'[i].node = stack'[j].node => i = j
        /\ \A n \in Nodes(dfg) : visit'[n] = "onStack" <=> \E i \in 1 .. Len(stack') : stack'[i].node = n
    <3>1. \A i \in 1 .. Len(stack') : i = 1
      BY <2>3
    <3>2. 1 \in 1 .. Len(stack')
      BY <2>3
    <3> QED BY <1>2, <2>3, <2>4, <3>1, <3>2
  <2>8. \A i \in 1 .. Len(stack') :
          /\ stack'[i].next \in 1 .. Len(dfg.in[stack'[i].node]) + 1
          /\ ~(i < Len(stack'))
          /\ 1 .. stack'[i].next - 1 = {}
    <3>1. dfg.in[at] \in Seq(Nodes(dfg))
      BY <1>1, GraphFacts DEF GeneratorTypeOK
    <3>2. Len(dfg.in[at]) \in Nat
      BY <3>1, LenProperties
    <3>3. 1 \in 1 .. Len(dfg.in[at]) + 1 /\ 1 .. 1 - 1 = {} /\ ~(1 < 1)
      BY <3>2
    <3>4. \A i \in 1 .. Len(stack') : i = 1
      BY <2>3
    <3> QED BY <2>3, <3>3, <3>4
  <2>9. \A n \in Nodes(dfg) : n < at + 1 => visit'[n] # "unvisited"
    BY <1>1, <1>2, <2>4 DEF Sorting
  <2>10. \A i \in 1 .. Len(stack') :
          /\ stack'[i].next \in 1 .. Len(dfg.in[stack'[i].node]) + 1
          /\ i < Len(stack') => /\ stack'[i].next > 1
                                /\ dfg.in[stack'[i].node][stack'[i].next - 1] = stack'[i + 1].node
          /\ \A k \in 1 .. stack'[i].next - 1 :
                \/ visit'[dfg.in[stack'[i].node][k]] = "done"
                \/ i < Len(stack') /\ k = stack'[i].next - 1
    BY <2>8
  <2> QED BY <1>1, <2>5, <2>6, <2>7, <2>9, <2>10 DEF Sorting
<1> QED BY <1>4, <1>5

\* A producer that is on the stack closes a loop with the frames above it.
LEMMA ProducerLoop ==
    ASSUME GeneratorTypeOK, Sorting, stack # <<>>, Top.next <= Len(dfg.in[Top.node]),
           visit[dfg.in[Top.node][Top.next]] = "onStack"
    PROVE  HasLoop(dfg)
<1> DEFINE producer == dfg.in[Top.node][Top.next]
<1>1. Len(stack) \in Nat \ {0} /\ Top = stack[Len(stack)] /\ producer \in Nodes(dfg)
      /\ producer \in Reads(dfg, Top.node)
  BY TopFacts, ProducerFacts DEF Top
<1>2. PICK p \in 1 .. Len(stack) : stack[p].node = producer
  BY <1>1 DEF Sorting
<1> DEFINE C == {stack[i].node : i \in p .. Len(stack)}
<1>3. \A i \in 1 .. Len(stack) : stack[i] \in Frames
  BY ElementOfSeq DEF GeneratorTypeOK
<1>4. \A i \in 1 .. Len(stack) : stack[i].node \in Nodes(dfg) /\ stack[i].next \in Nat \ {0}
  BY <1>3 DEF Frames
<1>5. ASSUME NEW i \in 1 .. Len(stack), i < Len(stack)
      PROVE  stack[i + 1].node \in Reads(dfg, stack[i].node)
  <2> DEFINE n == stack[i].node
             k == stack[i].next - 1
  <2>1. /\ stack[i].next \in 1 .. Len(dfg.in[n]) + 1 /\ stack[i].next > 1
        /\ dfg.in[n][k] = stack[i + 1].node
    BY <1>5 DEF Sorting
  <2>2. dfg.in[n] \in Seq(Nodes(dfg))
    BY <1>4, GraphFacts DEF GeneratorTypeOK
  <2>3. DOMAIN dfg.in[n] = 1 .. Len(dfg.in[n]) /\ Len(dfg.in[n]) \in Nat
    BY <2>2, LenProperties
  <2>4. k \in DOMAIN dfg.in[n]
    <3> HIDE DEF n
    <3> QED BY <2>1, <2>3
  <2> HIDE DEF k, n
  <2>5. dfg.in[n][k] \in Reads(dfg, n)
    BY <2>4 DEF Reads
  <2> QED BY <2>1, <2>5 DEF n, k
<1>6. C \in SUBSET Nodes(dfg) /\ C # {}
  BY <1>1, <1>2, <1>4
<1>7. ASSUME NEW n \in C PROVE \E m \in C : m \in Reads(dfg, n)
  <2>1. PICK i \in p .. Len(stack) : n = stack[i].node
    OBVIOUS
  <2>2. CASE i < Len(stack)
    <3>1. i \in 1 .. Len(stack) /\ i + 1 \in p .. Len(stack)
      BY <1>1, <2>2
    <3> QED BY <1>5, <2>1, <2>2, <3>1
  <2>3. CASE i = Len(stack)
    <3>1. producer \in C
      BY <1>1, <1>2
    <3> HIDE DEF C, producer
    <3> QED BY <1>1, <2>1, <2>3, <3>1
  <2> QED BY <1>1, <2>2, <2>3
<1> HIDE DEF C
<1> QED BY <1>6, <1>7 DEF HasLoop, IsLoop

\* A frame passes a producer that is done, or calls for one not visited yet.
LEMMA DescendSorting ==
    ASSUME GeneratorTypeOK, Sorting, Descend,
           visit[dfg.in[Top.node][Top.next]] # "onStack"
    PROVE  Sorting'
<1> DEFINE producer == dfg.in[Top.node][Top.next]
           L == Len(stack)
           passed == [stack EXCEPT ![Len(stack)].next = @ + 1]
<1>1. stack # <<>> /\ Top.next <= Len(dfg.in[Top.node]) /\ dfg' = dfg /\ order' = order /\ at' = at
  BY DEF Descend
<1>2. /\ L \in Nat \ {0} /\ Top = stack[L] /\ producer \in Nodes(dfg) /\ producer = dfg.in[stack[L].node][stack[L].next]
      /\ passed \in Seq(Frames) /\ Len(passed) = L
      /\ \A i \in 1 .. L : /\ passed[i].node = stack[i].node
                           /\ passed[i].next = IF i = L THEN stack[i].next + 1 ELSE stack[i].next
  BY <1>1, TopFacts, ProducerFacts DEF Top
<1>3. \A i \in 1 .. L : stack[i].node \in Nodes(dfg) /\ stack[i].next \in Nat \ {0}
  <2>1. \A i \in 1 .. L : stack[i] \in Frames
    BY ElementOfSeq DEF GeneratorTypeOK
  <2> QED BY <2>1 DEF Frames
<1>4. (IsInjectiveOrder /\ IsTopological)'
  BY <1>1 DEF Sorting, IsInjectiveOrder, IsTopological
<1>5. stack[L].next + 1 \in 1 .. Len(dfg.in[stack[L].node]) + 1
  <2>1. dfg.in[stack[L].node] \in Seq(Nodes(dfg))
    BY <1>2, <1>3, GraphFacts DEF GeneratorTypeOK
  <2>2. Len(dfg.in[stack[L].node]) \in Nat
    BY <2>1, LenProperties
  <2> QED BY <1>1, <1>2, <1>3, <2>2
<1>6. visit \in [Nodes(dfg) -> {"unvisited", "onStack", "done"}]
  BY DEF GeneratorTypeOK
<1>7. CASE visit[producer] = "done"
  <2>1. visit' = visit /\ stack' = passed
    BY <1>7 DEF Descend
  <2> HIDE DEF passed, producer, L
  <2>2. Len(stack') = L /\ \A i \in 1 .. L : /\ stack'[i].node = stack[i].node
                           /\ stack'[i].next = IF i = L THEN stack[i].next + 1 ELSE stack[i].next
    BY <1>2, <2>1
  <2>3. /\ \A i, j \in 1 .. L : stack'[i].node = stack'[j].node => i = j
        /\ \A n \in Nodes(dfg) : visit[n] = "onStack" <=> \E i \in 1 .. L : stack'[i].node = n
    <3>1. /\ \A i, j \in 1 .. L : stack[i].node = stack[j].node => i = j
          /\ \A n \in Nodes(dfg) : visit[n] = "onStack" <=> \E i \in 1 .. L : stack[i].node = n
      BY DEF Sorting, L
    <3>2. \A i \in 1 .. L : stack'[i].node = stack[i].node
      BY <2>2
    <3> QED BY <3>1, <3>2
  <2>4. ASSUME NEW i \in 1 .. L
        PROVE  /\ stack'[i].next \in 1 .. Len(dfg.in[stack'[i].node]) + 1
               /\ i < L => /\ stack'[i].next > 1
                           /\ dfg.in[stack'[i].node][stack'[i].next - 1] = stack'[i + 1].node
               /\ \A k \in 1 .. stack'[i].next - 1 :
                     \/ visit[dfg.in[stack'[i].node][k]] = "done"
                     \/ i < L /\ k = stack'[i].next - 1
    <3>1. CASE i < L
      <4>1. i + 1 \in 1 .. L /\ stack'[i].next = stack[i].next /\ stack'[i + 1].node = stack[i + 1].node
        BY <1>2, <2>2, <3>1
      <4>2. /\ stack[i].next \in 1 .. Len(dfg.in[stack[i].node]) + 1
            /\ stack[i].next > 1 /\ dfg.in[stack[i].node][stack[i].next - 1] = stack[i + 1].node
            /\ \A k \in 1 .. stack[i].next - 1 :
                 visit[dfg.in[stack[i].node][k]] = "done" \/ k = stack[i].next - 1
        BY <3>1 DEF Sorting, L
      <4>3. stack'[i].node = stack[i].node
        BY <2>2
      <4> QED BY <3>1, <4>1, <4>2, <4>3
    <3>2. CASE i = L
      <4>1. stack'[i].next = stack[L].next + 1 /\ stack'[i].node = stack[L].node /\ ~(i < L)
        BY <1>2, <2>2, <3>2
      <4>2. \A k \in 1 .. stack[L].next - 1 : visit[dfg.in[stack[L].node][k]] = "done"
        BY <3>2, <4>1 DEF Sorting, L
      <4>3. \A k \in 1 .. stack[L].next : visit[dfg.in[stack[L].node][k]] = "done"
        <5> TAKE k \in 1 .. stack[L].next
        <5>1. k = stack[L].next \/ k \in 1 .. stack[L].next - 1
          BY <1>2, <1>3
        <5> QED BY <1>2, <1>7, <4>2, <5>1
      <4>4. stack[L].next + 1 - 1 = stack[L].next
        BY <1>2, <1>3
      <4> DEFINE l == stack[L].next
                 n == stack[L].node
      <4> HIDE DEF l, n
      <4>5. /\ stack'[i].next = l + 1 /\ stack'[i].node = n /\ l + 1 - 1 = l /\ l \in Nat
            /\ l + 1 \in 1 .. Len(dfg.in[n]) + 1
            /\ \A k \in 1 .. l : visit[dfg.in[n][k]] = "done"
        BY <1>2, <1>3, <1>5, <4>1, <4>3, <4>4 DEF l, n
      <4>6. 1 .. stack'[i].next - 1 = 1 .. l
        BY <4>5
      <4>7. \A k \in 1 .. stack'[i].next - 1 : visit[dfg.in[stack'[i].node][k]] = "done"
        BY <4>5, <4>6
      <4> QED BY <4>1, <4>5, <4>7
    <3> QED BY <1>2, <3>1, <3>2
  <2>5. /\ \A n \in Nodes(dfg) : visit[n] = "done" <=> \E i \in 1 .. Len(order) : order[i] = n
        /\ \A n \in Nodes(dfg) : n < at => visit[n] # "unvisited"
    BY DEF Sorting
  <2> QED BY <1>1, <1>4, <2>1, <2>2, <2>3, <2>4, <2>5 DEF Sorting
<1>8. CASE visit[producer] = "unvisited"
  <2>1. visit' = [visit EXCEPT ![producer] = "onStack"] /\ stack' = Append(passed, Frame(producer))
    BY <1>8 DEF Descend
  <2>2. Frame(producer) \in Frames /\ Frame(producer).node = producer /\ Frame(producer).next = 1
    BY <1>2 DEF Frame, Frames
  <2> HIDE DEF passed, producer, L
  <2>3. /\ Len(stack') = L + 1
        /\ \A i \in 1 .. L : /\ stack'[i].node = stack[i].node
                             /\ stack'[i].next = IF i = L THEN stack[i].next + 1 ELSE stack[i].next
        /\ stack'[L + 1].node = producer /\ stack'[L + 1].next = 1
    <3>1. /\ Len(stack') = L + 1 /\ \A i \in 1 .. L : stack'[i] = passed[i]
          /\ stack'[L + 1] = Frame(producer)
      <4>1. passed \in Seq(Frames) /\ Len(passed) = L
        BY <1>2
      <4> QED BY <2>1, <2>2, <4>1, AppendProperties
    <3>2. \A i \in 1 .. L : /\ passed[i].node = stack[i].node
                            /\ passed[i].next = IF i = L THEN stack[i].next + 1 ELSE stack[i].next
      BY <1>2
    <3> QED BY <2>2, <3>1, <3>2
  <2>4. \A n \in Nodes(dfg) : visit'[n] = IF n = producer THEN "onStack" ELSE visit[n]
    BY <1>2, <1>6, <2>1
  <2>5. \A i \in 1 .. L : stack[i].node # producer
    BY <1>2, <1>8 DEF Sorting, L
  <2>6. \A i \in 1 .. L + 1 : i \in 1 .. L \/ i = L + 1
    BY <1>2
  <2>7. \A i, j \in 1 .. L + 1 : stack'[i].node = stack'[j].node => i = j
    <3> TAKE i, j \in 1 .. L + 1
    <3>1. i \in 1 .. L /\ j \in 1 .. L /\ stack[i].node = stack[j].node => i = j
      BY DEF Sorting, L
    <3> QED BY <2>3, <2>5, <2>6, <3>1
  <2>8. \A n \in Nodes(dfg) : visit'[n] = "onStack" <=> \E i \in 1 .. L + 1 : stack'[i].node = n
    <3> TAKE n \in Nodes(dfg)
    <3>1. visit[n] = "onStack" <=> \E i \in 1 .. L : stack[i].node = n
      BY DEF Sorting, L
    <3>2. \A i \in 1 .. L : i \in 1 .. L + 1
      BY <1>2
    <3>3. L + 1 \in 1 .. L + 1
      BY <1>2
    <3> QED BY <2>3, <2>4, <2>6, <3>1, <3>2, <3>3
  <2>9. ASSUME NEW i \in 1 .. L + 1
        PROVE  /\ stack'[i].next \in 1 .. Len(dfg.in[stack'[i].node]) + 1
               /\ i < L + 1 => /\ stack'[i].next > 1
                               /\ dfg.in[stack'[i].node][stack'[i].next - 1] = stack'[i + 1].node
               /\ \A k \in 1 .. stack'[i].next - 1 :
                     \/ visit'[dfg.in[stack'[i].node][k]] = "done"
                     \/ i < L + 1 /\ k = stack'[i].next - 1
    <3>0. ASSUME NEW j \in 1 .. L, NEW k \in 1 .. stack[j].next - 1, visit[dfg.in[stack[j].node][k]] = "done"
          PROVE  visit'[dfg.in[stack[j].node][k]] = "done"
      <4>1. dfg.in[stack[j].node] \in Seq(Nodes(dfg))
        BY <1>3, GraphFacts DEF GeneratorTypeOK
      <4>2. Len(dfg.in[stack[j].node]) \in Nat
        BY <4>1, LenProperties
      <4>3. stack[j].next \in 1 .. Len(dfg.in[stack[j].node]) + 1
        BY DEF Sorting, L
      <4>4. k \in 1 .. Len(dfg.in[stack[j].node])
        BY <4>2, <4>3
      <4>5. dfg.in[stack[j].node][k] \in Nodes(dfg)
        BY <4>1, <4>4, ElementOfSeq
      <4> QED BY <1>8, <2>4, <3>0, <4>5
    <3>1. CASE i < L
      <4>1. i \in 1 .. L /\ i + 1 \in 1 .. L /\ stack'[i].next = stack[i].next /\ stack'[i + 1].node = stack[i + 1].node
        BY <1>2, <2>3, <3>1
      <4>2. /\ stack[i].next \in 1 .. Len(dfg.in[stack[i].node]) + 1
            /\ stack[i].next > 1 /\ dfg.in[stack[i].node][stack[i].next - 1] = stack[i + 1].node
            /\ \A k \in 1 .. stack[i].next - 1 :
                 visit[dfg.in[stack[i].node][k]] = "done" \/ k = stack[i].next - 1
        BY <3>1, <4>1 DEF Sorting, L
      <4>3. stack'[i].node = stack[i].node /\ i < L + 1
        BY <1>2, <2>3, <4>1
      <4> QED BY <3>0, <4>1, <4>2, <4>3
    <3>2. CASE i = L
      <4>1. i \in 1 .. L /\ stack'[i].next = stack[L].next + 1 /\ stack'[i].node = stack[L].node
            /\ stack'[i + 1].node = producer /\ i < L + 1 /\ stack[L].next + 1 - 1 = stack[L].next
            /\ stack[L].next + 1 > 1
        BY <1>2, <1>3, <2>3, <3>2
      <4>2. \A k \in 1 .. stack[L].next - 1 : visit[dfg.in[stack[L].node][k]] = "done"
        <5>1. ~(L < L)
          BY <1>2
        <5> QED BY <3>2, <4>1, <5>1 DEF Sorting, L
      <4>3. \A k \in 1 .. stack[L].next : k = stack[L].next \/ k \in 1 .. stack[L].next - 1
        BY <1>2, <1>3
      <4> DEFINE l == stack[L].next
                 n == stack[L].node
      <4>4. \A k \in 1 .. l - 1 : visit'[dfg.in[n][k]] = "done"
        BY <3>0, <3>2, <4>1, <4>2
      <4> HIDE DEF l, n
      <4>5. /\ stack'[i].next = l + 1 /\ stack'[i].node = n /\ l + 1 - 1 = l /\ l \in Nat /\ l + 1 > 1
            /\ l + 1 \in 1 .. Len(dfg.in[n]) + 1 /\ dfg.in[n][l] = producer
            /\ \A k \in 1 .. l : k = l \/ k \in 1 .. l - 1
        BY <1>2, <1>3, <1>5, <4>1, <4>3 DEF l, n
      <4>6. 1 .. stack'[i].next - 1 = 1 .. l /\ stack'[i].next - 1 = l
        BY <4>5
      <4>7. \A k \in 1 .. stack'[i].next - 1 :
              visit'[dfg.in[stack'[i].node][k]] = "done" \/ (i < L + 1 /\ k = stack'[i].next - 1)
        BY <4>1, <4>4, <4>5, <4>6
      <4>8. stack'[i].next > 1 /\ dfg.in[stack'[i].node][stack'[i].next - 1] = stack'[i + 1].node
            /\ stack'[i].next \in 1 .. Len(dfg.in[stack'[i].node]) + 1
        BY <4>1, <4>5, <4>6
      <4> QED BY <4>7, <4>8
    <3>3. CASE i = L + 1
      <4>1. stack'[i].next = 1 /\ stack'[i].node = producer /\ ~(i < L + 1) /\ 1 .. 1 - 1 = {}
        BY <1>2, <2>3, <3>3
      <4>2. dfg.in[producer] \in Seq(Nodes(dfg))
        BY <1>2, GraphFacts DEF GeneratorTypeOK
      <4>3. Len(dfg.in[producer]) \in Nat
        BY <4>2, LenProperties
      <4>4. 1 \in 1 .. Len(dfg.in[producer]) + 1
        BY <4>3
      <4> QED BY <4>1, <4>4
    <3>4. i < L \/ i = L \/ i = L + 1
      BY <1>2
    <3> QED BY <3>1, <3>2, <3>3, <3>4
  <2>10. /\ \A n \in Nodes(dfg) : visit'[n] = "done" <=> \E i \in 1 .. Len(order) : order[i] = n
         /\ \A n \in Nodes(dfg) : n < at => visit'[n] # "unvisited"
    BY <1>8, <2>4 DEF Sorting
  <2> QED BY <1>1, <1>4, <2>3, <2>7, <2>8, <2>9, <2>10 DEF Sorting
<1> QED BY <1>2, <1>6, <1>7, <1>8

\* A frame that has passed all its inputs leaves the stack for the order.
LEMMA LeaveSorting ==
    ASSUME GeneratorTypeOK, Sorting, Leave
    PROVE  Sorting'
<1> DEFINE L == Len(stack)
           M == Len(order)
           n == Top.node
<1>1. stack # <<>> /\ Top.next > Len(dfg.in[n]) /\ dfg' = dfg /\ at' = at
      /\ visit' = [visit EXCEPT ![n] = "done"] /\ order' = Append(order, n)
      /\ stack' = SubSeq(stack, 1, L - 1)
  BY DEF Leave
<1>2. L \in Nat \ {0} /\ n = stack[L].node /\ n \in Nodes(dfg) /\ Top.next = stack[L].next /\ M \in Nat
  BY <1>1, TopFacts, PositionFacts DEF Top
<1>3. \A i \in 1 .. L : stack[i].node \in Nodes(dfg) /\ stack[i].next \in Nat \ {0}
  <2>1. \A i \in 1 .. L : stack[i] \in Frames
    BY ElementOfSeq DEF GeneratorTypeOK
  <2> QED BY <2>1 DEF Frames
<1>4. Len(stack') = L - 1 /\ \A i \in 1 .. L - 1 : stack'[i] = stack[i]
  BY <1>1, PopFacts
<1>5. Len(order') = M + 1 /\ (\A i \in 1 .. M : order'[i] = order[i]) /\ order'[M + 1] = n
  BY <1>1, <1>2, AppendProperties DEF GeneratorTypeOK
<1>6. \A m \in Nodes(dfg) : visit'[m] = IF m = n THEN "done" ELSE visit[m]
  BY <1>1, <1>2 DEF GeneratorTypeOK
<1>7. /\ \A i, j \in 1 .. M : order[i] = order[j] => i = j
      /\ \A i \in 1 .. M : \A m \in Reads(dfg, order[i]) : \E j \in 1 .. i - 1 : order[j] = m
      /\ \A m \in Nodes(dfg) : visit[m] = "done" <=> \E i \in 1 .. M : order[i] = m
      /\ \A i, j \in 1 .. L : stack[i].node = stack[j].node => i = j
      /\ \A m \in Nodes(dfg) : visit[m] = "onStack" <=> \E i \in 1 .. L : stack[i].node = m
      /\ \A m \in Nodes(dfg) : m < at => visit[m] # "unvisited"
  BY DEF Sorting, IsInjectiveOrder, IsTopological
<1>8. \A i \in 1 .. L :
          /\ stack[i].next \in 1 .. Len(dfg.in[stack[i].node]) + 1
          /\ i < L => /\ stack[i].next > 1
                      /\ dfg.in[stack[i].node][stack[i].next - 1] = stack[i + 1].node
          /\ \A k \in 1 .. stack[i].next - 1 :
                \/ visit[dfg.in[stack[i].node][k]] = "done"
                \/ i < L /\ k = stack[i].next - 1
  BY DEF Sorting
<1>9. visit[n] = "onStack" /\ (\A i \in 1 .. M : order[i] # n)
  <2>1. visit[n] = "onStack"
    BY <1>2, <1>7
  <2> QED BY <1>2, <1>7, <2>1
<1>10. \A m \in Reads(dfg, n) : \E j \in 1 .. M : order[j] = m
  <2>1. dfg.in[n] \in Seq(Nodes(dfg)) /\ Reads(dfg, n) \subseteq Nodes(dfg)
    BY <1>2, GraphFacts DEF GeneratorTypeOK
  <2>2. DOMAIN dfg.in[n] = 1 .. Len(dfg.in[n]) /\ Len(dfg.in[n]) \in Nat
    BY <2>1, LenProperties
  <2>3. ASSUME NEW k \in DOMAIN dfg.in[n] PROVE visit[dfg.in[n][k]] = "done"
    <3>1. L \in 1 .. L /\ ~(L < L)
      BY <1>2
    <3>2. \A j \in 1 .. stack[L].next - 1 : visit[dfg.in[n][j]] = "done"
      BY <1>2, <1>8, <3>1
    <3>3. k \in 1 .. stack[L].next - 1
      BY <1>1, <1>2, <1>3, <2>2, <3>1
    <3> QED BY <3>2, <3>3
  <2>4. \A m \in Reads(dfg, n) : visit[m] = "done"
    BY <2>3 DEF Reads
  <2> QED BY <1>7, <2>1, <2>4
<1> HIDE DEF L, M, n
<1>11. \A i \in 1 .. M + 1 : i \in 1 .. M \/ i = M + 1
  BY <1>2
<1>12. \A i, j \in 1 .. M + 1 : order'[i] = order'[j] => i = j
  BY <1>5, <1>7, <1>9, <1>11
<1>13. \A i \in 1 .. M + 1 : \A m \in Reads(dfg, order'[i]) : \E j \in 1 .. i - 1 : order'[j] = m
  <2> SUFFICES ASSUME NEW i \in 1 .. M + 1, NEW m \in Reads(dfg, order'[i])
               PROVE  \E j \in 1 .. i - 1 : order'[j] = m
    OBVIOUS
  <2>1. CASE i \in 1 .. M
    <3>1. PICK j \in 1 .. i - 1 : order[j] = m
      BY <1>5, <1>7, <2>1
    <3>2. j \in 1 .. M
      BY <1>2, <2>1
    <3> QED BY <1>5, <3>1, <3>2
  <2>2. CASE i = M + 1
    <3>1. PICK j \in 1 .. M : order[j] = m
      BY <1>5, <1>10, <2>2
    <3>2. j \in 1 .. i - 1
      BY <1>2, <2>2
    <3> QED BY <1>5, <3>1, <3>2
  <2> QED BY <1>11, <2>1, <2>2
<1>14. ASSUME NEW m \in Nodes(dfg)
       PROVE  visit'[m] = "done" <=> \E i \in 1 .. M + 1 : order'[i] = m
  <2>1. CASE m = n
    <3>1. M + 1 \in 1 .. M + 1
      BY <1>2
    <3> QED BY <1>5, <1>6, <2>1, <3>1
  <2>2. CASE m # n
    <3>1. \A i \in 1 .. M : i \in 1 .. M + 1
      BY <1>2
    <3> QED BY <1>5, <1>6, <1>7, <1>11, <2>2, <3>1
  <2> QED BY <2>1, <2>2
<1>15. \A i \in 1 .. L - 1 : i \in 1 .. L /\ i < L /\ stack[i].node # n
  <2> TAKE i \in 1 .. L - 1
  <2>1. i \in 1 .. L /\ L \in 1 .. L /\ i < L
    BY <1>2
  <2> QED BY <1>2, <1>7, <2>1
<1>16. \A i, j \in 1 .. L - 1 : stack'[i].node = stack'[j].node => i = j
  BY <1>4, <1>7, <1>15
<1>17. ASSUME NEW m \in Nodes(dfg)
       PROVE  visit'[m] = "onStack" <=> \E i \in 1 .. L - 1 : stack'[i].node = m
  <2>1. CASE m = n
    BY <1>4, <1>6, <1>15, <2>1
  <2>2. CASE m # n
    <3>1. \A i \in 1 .. L : stack[i].node = m => i \in 1 .. L - 1
      BY <1>2, <2>2
    <3> QED BY <1>4, <1>6, <1>7, <1>15, <2>2, <3>1
  <2> QED BY <2>1, <2>2
<1>18. ASSUME NEW i \in 1 .. L - 1
       PROVE  /\ stack'[i].next \in 1 .. Len(dfg.in[stack'[i].node]) + 1
              /\ i < L - 1 => /\ stack'[i].next > 1
                              /\ dfg.in[stack'[i].node][stack'[i].next - 1] = stack'[i + 1].node
              /\ \A k \in 1 .. stack'[i].next - 1 :
                    \/ visit'[dfg.in[stack'[i].node][k]] = "done"
                    \/ i < L - 1 /\ k = stack'[i].next - 1
  <2> DEFINE q == stack[i].node
             x == stack[i].next
  <2>1. stack'[i] = stack[i] /\ i \in 1 .. L /\ i < L
    BY <1>4, <1>15
  <2>2. /\ x \in 1 .. Len(dfg.in[q]) + 1 /\ x > 1 /\ dfg.in[q][x - 1] = stack[i + 1].node
        /\ \A k \in 1 .. x - 1 : visit[dfg.in[q][k]] = "done" \/ k = x - 1
    BY <1>8, <2>1
  <2>3. i < L - 1 => stack'[i + 1] = stack[i + 1]
    BY <1>2, <1>4, <2>1
  <2>4. q \in Nodes(dfg) /\ x \in Nat
    BY <1>3, <2>1 DEF L
  <2>5. \A k \in 1 .. x - 1 : dfg.in[q][k] \in Nodes(dfg)
    <3>1. dfg.in[q] \in Seq(Nodes(dfg))
      BY <2>4, GraphFacts DEF GeneratorTypeOK
    <3>2. Len(dfg.in[q]) \in Nat
      BY <3>1, LenProperties
    <3>3. \A k \in 1 .. Len(dfg.in[q]) : dfg.in[q][k] \in Nodes(dfg)
      BY <3>1, ElementOfSeq
    <3> HIDE DEF x, q
    <3>4. \A k \in 1 .. x - 1 : k \in 1 .. Len(dfg.in[q])
      BY <2>2, <2>4, <3>2
    <3> QED BY <3>3, <3>4
  <2> HIDE DEF x, q
  <2>6. \A k \in 1 .. x - 1 : visit'[dfg.in[q][k]] = "done" \/ (i < L - 1 /\ k = x - 1)
    <3> TAKE k \in 1 .. x - 1
    <3>1. CASE visit[dfg.in[q][k]] = "done"
      BY <1>6, <2>5, <3>1
    <3>2. CASE k = x - 1 /\ i = L - 1
      <4>1. dfg.in[q][k] = stack[L].node
        BY <1>2, <2>2, <3>2
      <4> QED BY <1>2, <1>6, <2>5, <4>1
    <3>3. CASE k = x - 1 /\ i < L - 1
      BY <3>3
    <3>4. i = L - 1 \/ i < L - 1
      BY <1>2, <2>1
    <3> QED BY <2>2, <3>1, <3>2, <3>3, <3>4
  <2>7. stack'[i].next = x /\ stack'[i].node = q
    BY <2>1 DEF x, q
  <2>8. i < L - 1 => dfg.in[q][x - 1] = stack'[i + 1].node
    BY <2>2, <2>3
  <2> QED BY <2>2, <2>6, <2>7, <2>8
<1>19. \A m \in Nodes(dfg) : m < at => visit'[m] # "unvisited"
  BY <1>6, <1>7
<1>20. Len(order') = M + 1 /\ Len(stack') = L - 1 /\ dfg' = dfg /\ at' = at
  BY <1>1, <1>4, <1>5
<1>21. IsInjectiveOrder' /\ IsTopological'
  BY <1>12, <1>13, <1>20 DEF IsInjectiveOrder, IsTopological
<1>22. \A m \in Nodes(dfg) : (visit'[m] = "done" <=> \E i \in 1 .. Len(order') : order'[i] = m)
  BY <1>14, <1>20
<1>23. /\ \A i, j \in 1 .. Len(stack') : stack'[i].node = stack'[j].node => i = j
       /\ \A m \in Nodes(dfg) : (visit'[m] = "onStack" <=> \E i \in 1 .. Len(stack') : stack'[i].node = m)
  BY <1>16, <1>17, <1>20
<1>24. \A i \in 1 .. Len(stack') :
          /\ stack'[i].next \in 1 .. Len(dfg.in[stack'[i].node]) + 1
          /\ i < Len(stack') => /\ stack'[i].next > 1
                                /\ dfg.in[stack'[i].node][stack'[i].next - 1] = stack'[i + 1].node
          /\ \A k \in 1 .. stack'[i].next - 1 :
                \/ visit'[dfg.in[stack'[i].node][k]] = "done"
                \/ i < Len(stack') /\ k = stack'[i].next - 1
  BY <1>18, <1>20
<1> QED
  BY <1>19, <1>20, <1>21, <1>22, <1>23, <1>24 DEF Sorting

\* When every root is done and nothing is on the stack every node is in the
\* order, once: the check of its length never fails.
LEMMA SortedOrder ==
    ASSUME GeneratorTypeOK, Sorting, Sorted
    PROVE  phase' = "chunk" /\ Ordered'
<1>1. stack = <<>> /\ at > dfg.size /\ dfg' = dfg /\ order' = order
  BY DEF Sorted, sorting
<1>2. 1 .. Len(stack) = {}
  BY <1>1, EmptySeq
<1>3. \A n \in Nodes(dfg) : n < at
  <2>1. dfg.size \in Nat /\ at \in Nat
    BY PositionFacts
  <2> QED BY <1>1, <2>1 DEF Nodes
<1>4. \A n \in Nodes(dfg) : \E i \in 1 .. Len(order) : order[i] = n
  <2>1. \A n \in Nodes(dfg) : visit[n] \in {"unvisited", "onStack", "done"}
    BY DEF GeneratorTypeOK
  <2> QED BY <1>2, <1>3, <2>1 DEF Sorting
<1>5. Len(order) = dfg.size
  <2>1. order \in [1 .. Len(order) -> Nodes(dfg)] /\ Len(order) \in Nat
    BY LenProperties DEF GeneratorTypeOK
  <2>2. order \in Bijection(1 .. Len(order), Nodes(dfg))
    <3> DEFINE I == 1 .. Len(order)
               N == Nodes(dfg)
    <3>1. order \in [I -> N] /\ (\A i, j \in I : order[i] = order[j] => i = j)
      BY <2>1 DEF Sorting, IsInjectiveOrder
    <3>2. \A n \in N : \E i \in I : order[i] = n
      BY <1>4
    <3> HIDE DEF I, N
    <3>3. order \in Injection(I, N) /\ order \in Surjection(I, N)
      BY <3>1, <3>2 DEF Injection, Surjection, IsInjective
    <3> QED BY <3>3 DEF Bijection, I, N
  <2>3. ExistsBijection(1 .. Len(order), Nodes(dfg))
    BY <2>2 DEF ExistsBijection
  <2>4. IsFiniteSet(1 .. Len(order)) /\ Cardinality(1 .. Len(order)) = Len(order)
    <3> DEFINE l == Len(order)
    <3>1. l \in Nat
      BY <2>1
    <3> HIDE DEF l
    <3>2. IsFiniteSet(1 .. l) /\ Cardinality(1 .. l) = (IF 1 > l THEN 0 ELSE l - 1 + 1)
      BY <3>1, FS_Interval
    <3>3. IsFiniteSet(1 .. l) /\ Cardinality(1 .. l) = l
      BY <3>1, <3>2
    <3> QED BY <3>3 DEF l
  <2>5. Cardinality(Nodes(dfg)) = Len(order)
    BY <2>3, <2>4, FS_Bijection
  <2> QED BY <2>5, PositionFacts, GraphFacts
<1>6. phase' = "chunk"
  BY <1>5 DEF Sorted
<1> QED
  BY <1>1, <1>4, <1>5, <1>6 DEF Ordered, Sorting, IsInjectiveOrder, IsTopological

\* A graph that could be sorted has no loop.
LEMMA OrderedNoLoop ==
    ASSUME GeneratorTypeOK, Ordered
    PROVE  ~HasLoop(dfg)
<1> SUFFICES ASSUME NEW C \in SUBSET Nodes(dfg), C # {}, \A n \in C : \E m \in C : m \in Reads(dfg, n)
             PROVE  FALSE
  BY DEF HasLoop, IsLoop
<1> DEFINE P == {i \in 1 .. dfg.size : order[i] \in C}
<1>1. P \in SUBSET Nat /\ P # {}
  <2>1. dfg.size \in Nat
    BY PositionFacts
  <2>2. \E i \in 1 .. dfg.size : order[i] \in C
    BY DEF Ordered
  <2> QED BY <2>1, <2>2
<1>2. PICK i \in P : \A j \in P : i <= j
  <2> HIDE DEF P
  <2> QED BY <1>1, LeastNatural
<1>3. PICK m \in C : m \in Reads(dfg, order[i])
  OBVIOUS
<1>4. i \in 1 .. dfg.size /\ dfg.size \in Nat
  BY PositionFacts
<1>5. PICK j \in 1 .. i - 1 : order[j] = m
  BY <1>3, <1>4 DEF Ordered, IsTopological
<1>6. j \in P /\ j < i
  BY <1>4, <1>5
<1> QED BY <1>2, <1>4, <1>6

\* The invariant of the sort.
LEMMA SortStep ==
    ASSUME GeneratorTypeOK, SortInv, Generate \/ Run, phase # "loop"
    PROVE  SortInv'
<1>1. CASE Root
  BY <1>1, RootSorting DEF SortInv, Root
<1>2. CASE Descend
  <2>1. phase = "sort" /\ stack # <<>> /\ Top.next <= Len(dfg.in[Top.node]) /\ dfg' = dfg
    BY <1>2 DEF Descend
  <2>2. CASE visit[dfg.in[Top.node][Top.next]] = "onStack"
    <3>1. HasLoop(dfg)
      BY <2>1, <2>2, ProducerLoop DEF SortInv
    <3>2. phase' = "loop"
      BY <1>2, <2>2 DEF Descend
    <3> QED BY <2>1, <3>1, <3>2 DEF SortInv
  <2>3. CASE visit[dfg.in[Top.node][Top.next]] # "onStack"
    <3>1. Sorting'
      BY <1>2, <2>1, <2>3, DescendSorting DEF SortInv
    <3>2. phase' = "sort"
      BY <1>2, <2>1, <2>3 DEF Descend
    <3> QED BY <3>1, <3>2 DEF SortInv
  <2> QED BY <2>2, <2>3
<1>3. CASE Leave
  BY <1>3, LeaveSorting DEF SortInv, Leave
<1>4. CASE Sorted
  <2>1. phase = "sort"
    BY <1>4 DEF Sorted
  <2>2. phase' = "chunk" /\ Ordered'
    BY <1>4, <2>1, SortedOrder DEF SortInv
  <2> QED BY <2>2 DEF SortInv
<1>5. CASE PlaceNode \/ ReserveSpill \/ EmitNode \/ NextPhase \/ EmitSeeds \/ Run
  <2>1. /\ dfg' = dfg /\ order' = order
        /\ phase \notin {"sort", "loop"} /\ phase' \notin {"sort", "loop"}
    BY <1>5 DEF PlaceNode, ReserveSpill, EmitNode, NextPhase, EmitSeeds, Run, Evaluate, Statement,
                Return, sorting
  <2>2. Ordered
    BY <2>1 DEF SortInv
  <2>3. Ordered'
    BY <2>1, <2>2 DEF Ordered, IsInjectiveOrder, IsTopological
  <2> QED BY <2>1, <2>3 DEF SortInv
<1> QED BY <1>1, <1>2, <1>3, <1>4, <1>5 DEF Generate

-----------------------------------------------------------------------------
(* Generation: the spill buffer.                                           *)

\* A node has room in the spill buffer; the phases before any has.
Spilled(n) == spillAt[n] # NoSpill
BeforeSpill == {"sort", "loop", "chunk"}

\* The values that another chunk reads get words of the spill buffer, in the
\* order of the nodes, and no two values share a word.
SpillInv ==
    /\ phase \in BeforeSpill => \A n \in Nodes(dfg) : ~Spilled(n)
    /\ phase = "spill" =>
         \A i \in 1 .. dfg.size : (Spilled(order[i]) <=> (i < at /\ NeedsSpill(order[i])))
    /\ phase \notin BeforeSpill \cup {"spill"} =>
         \A n \in Nodes(dfg) : (Spilled(n) <=> NeedsSpill(n))
    /\ \A n \in Nodes(dfg) : Spilled(n) => spillAt[n] + Size(n) <= spillWords
    /\ \A m, n \in Nodes(dfg) : Spilled(m) /\ Spilled(n) /\ m # n =>
         (spillAt[m] + Size(m) <= spillAt[n] \/ spillAt[n] + Size(n) <= spillAt[m])
    /\ phase # "unavailable"

\* The evaluator's part of a step.
EvaluatorStep == (phase \in Generating /\ Generate) \/ Run

\* What holds of the generator in every state.
GeneratorInv == GeneratorTypeOK /\ SortInv /\ SpillInv

\* A value takes a number of words.
LEMMA SizeFacts ==
    ASSUME GeneratorTypeOK, NEW n \in Nodes(dfg)
    PROVE  Size(n) \in Nat \ {0} /\ Size(n) = WordCount(dfg.type[n].width)
<1>1. dfg.type[n] \in Types
  BY GraphFacts DEF GeneratorTypeOK
<1> QED BY <1>1, WordCountFacts DEF Size, Types

\* What a statement reads stands before it in the order.
LEMMA ReadsBefore ==
    ASSUME GeneratorTypeOK, Ordered, NEW i \in 1 .. dfg.size, NEW m \in Reads(dfg, order[i])
    PROVE  /\ order[i] \in Nodes(dfg) /\ m \in Nodes(dfg)
           /\ \E j \in 1 .. i - 1 : order[j] = m
<1>1. order[i] \in Nodes(dfg)
  BY PositionFacts DEF Ordered
<1>2. m \in Nodes(dfg)
  BY <1>1, GraphFacts DEF GeneratorTypeOK
<1> QED BY <1>1, <1>2 DEF Ordered, IsTopological

\* Every operand of a statement is in scope, an origin or spilled.
LEMMA OperandAvailable ==
    ASSUME GeneratorTypeOK, Ordered, \A n \in Nodes(dfg) : (Spilled(n) <=> NeedsSpill(n)),
           NEW i \in 1 .. dfg.size, NEW m \in Reads(dfg, order[i])
    PROVE  Available(i, m)
<1>1. order[i] \in Nodes(dfg) /\ m \in Nodes(dfg) /\ \E j \in 1 .. i - 1 : order[j] = m
  BY ReadsBefore
<1>2. CASE IsOrigin(dfg, m)
  BY <1>2 DEF Available
<1>3. CASE ~IsOrigin(dfg, m) /\ chunkOf[m] = chunkOf[order[i]]
  BY <1>1, <1>3 DEF Available, InScope
<1>4. CASE ~IsOrigin(dfg, m) /\ chunkOf[m] # chunkOf[order[i]]
  <2>1. order[i] \in Users(dfg, m)
    BY <1>1 DEF Users
  <2>2. NeedsSpill(m)
    BY <1>4, <2>1 DEF NeedsSpill
  <2> QED BY <1>1, <2>2 DEF Available, Spilled
<1> QED BY <1>2, <1>3, <1>4

\* A place for the next value lies behind those given before.
LEMMA ReserveSpilled ==
    ASSUME GeneratorTypeOK, Ordered, SpillInv, ReserveSpill
    PROVE  SpillInv'
<1> DEFINE N == Nodes(dfg)
<1>0. PICK n \in N : n = order[at]
  <2>1. phase = "spill" /\ at <= dfg.size
    BY DEF ReserveSpill
  <2>2. at \in 1 .. Len(order)
    BY <2>1, PositionFacts DEF Ordered
  <2> QED BY <2>2, PositionFacts
<1>1. /\ phase = "spill" /\ phase' = "spill" /\ at <= dfg.size /\ at' = at + 1
      /\ dfg' = dfg /\ order' = order /\ chunkOf' = chunkOf
      /\ IF NeedsSpill(n) THEN spillAt' = [spillAt EXCEPT ![n] = spillWords] /\ spillWords' = spillWords + Size(n)
         ELSE spillAt' = spillAt /\ spillWords' = spillWords
  BY <1>0 DEF ReserveSpill, sorting
<1>2. at \in 1 .. dfg.size /\ dfg.size \in Nat /\ at \in Nat
  BY <1>1, PositionFacts
<1>3. n \in N /\ \A i \in 1 .. dfg.size : order[i] \in N
  BY <1>2, PositionFacts DEF Ordered
<1>4. \A m \in N : Size(m) \in Nat \ {0}
  BY SizeFacts
<1>5. spillWords \in Nat /\ \A m \in N : spillAt[m] \in Nat \cup {NoSpill}
  BY DEF GeneratorTypeOK
<1>6. \A m \in N : /\ Size(m)' = Size(m) /\ Nodes(dfg)' = N
                   /\ (NeedsSpill(m)' <=> NeedsSpill(m))
  BY <1>1 DEF Size, NeedsSpill, Users
<1>7. \A i \in 1 .. dfg.size : (Spilled(order[i]) <=> (i < at /\ NeedsSpill(order[i])))
  BY <1>1 DEF SpillInv
<1>8. ~Spilled(n)
  BY <1>0, <1>2, <1>7
<1>9. /\ \A m \in N : Spilled(m) => spillAt[m] + Size(m) <= spillWords
      /\ \A k, m \in N : Spilled(k) /\ Spilled(m) /\ k # m =>
         (spillAt[k] + Size(k) <= spillAt[m] \/ spillAt[m] + Size(m) <= spillAt[k])
  BY DEF SpillInv
<1>10. \A m \in N : m # n => spillAt'[m] = spillAt[m]
  BY <1>1, <1>3 DEF GeneratorTypeOK
<1>11. NeedsSpill(n) => spillAt'[n] = spillWords /\ spillWords' = spillWords + Size(n) /\ Spilled(n)'
  BY <1>1, <1>3, <1>5 DEF GeneratorTypeOK, Spilled, NoSpill
<1>12. ~NeedsSpill(n) => spillAt' = spillAt /\ spillWords' = spillWords /\ ~Spilled(n)'
  BY <1>1, <1>8 DEF Spilled
<1>13. \A m \in N : m # n => (Spilled(m)' <=> Spilled(m))
  BY <1>10 DEF Spilled
<1>14. \A i \in 1 .. dfg.size : order[i] = n => i = at
  BY <1>0, <1>2 DEF Ordered, IsInjectiveOrder
<1> HIDE DEF N
<1>15. \A i \in 1 .. dfg.size : (Spilled(order[i])' <=> (i < at + 1 /\ NeedsSpill(order[i])))
  <2> TAKE i \in 1 .. dfg.size
  <2>1. CASE i = at
    BY <1>0, <1>1, <1>2, <1>11, <1>12, <2>1
  <2>2. CASE i # at
    <3>1. order[i] # n /\ order[i] \in N
      BY <1>3, <1>14, <2>2
    <3>2. Spilled(order[i])' <=> Spilled(order[i])
      BY <1>1, <1>13, <3>1
    <3>3. i < at <=> i < at + 1
      BY <1>2, <2>2
    <3> QED BY <1>7, <3>2, <3>3
  <2> QED BY <2>1, <2>2
<1>16. \A m \in N : Spilled(m)' => spillAt'[m] + Size(m) <= spillWords'
  <2> TAKE m \in N
  <2>1. CASE m = n
    BY <1>3, <1>4, <1>5, <1>11, <1>12, <2>1
  <2>2. CASE m # n
    <3>1. Spilled(m)' => spillAt'[m] = spillAt[m] /\ spillAt[m] + Size(m) <= spillWords /\ spillAt[m] \in Nat
      BY <1>5, <1>9, <1>10, <1>13, <2>2 DEF Spilled
    <3>2. spillWords <= spillWords' /\ spillWords' \in Nat
      BY <1>3, <1>4, <1>5, <1>11, <1>12
    <3> QED BY <1>4, <1>5, <3>1, <3>2
  <2> QED BY <2>1, <2>2
<1>17. \A k, m \in N : Spilled(k)' /\ Spilled(m)' /\ k # m =>
         (spillAt'[k] + Size(k) <= spillAt'[m] \/ spillAt'[m] + Size(m) <= spillAt'[k])
  <2> SUFFICES ASSUME NEW k \in N, NEW m \in N, Spilled(k)', Spilled(m)', k # m
               PROVE  spillAt'[k] + Size(k) <= spillAt'[m] \/ spillAt'[m] + Size(m) <= spillAt'[k]
    OBVIOUS
  <2>1. CASE k # n /\ m # n
    BY <1>9, <1>10, <1>13, <2>1
  <2>2. CASE k = n /\ m # n
    BY <1>9, <1>10, <1>11, <1>12, <1>13, <2>2
  <2>3. CASE k # n /\ m = n
    BY <1>9, <1>10, <1>11, <1>12, <1>13, <2>3
  <2> QED BY <2>1, <2>2, <2>3
<1>18. Nodes(dfg)' = N
  BY <1>1 DEF N
<1>19. \A m \in N : Size(m)' = Size(m)
  BY <1>6
<1>20. \A i \in 1 .. dfg.size : (NeedsSpill(order[i])' <=> NeedsSpill(order[i]))
  BY <1>1, <1>3, <1>6
<1>21. \A i \in 1 .. dfg.size : (Spilled(order[i])' <=> (i < at' /\ NeedsSpill(order[i])'))
  BY <1>1, <1>15, <1>20
<1> QED
  BY <1>1, <1>16, <1>17, <1>18, <1>19, <1>21 DEF SpillInv, BeforeSpill

\* The invariant of the spill buffer.
LEMMA SpillStep ==
    ASSUME GeneratorTypeOK, SortInv, SpillInv, EvaluatorStep
    PROVE  SpillInv'
<1>1. CASE ReserveSpill
  <2>1. phase = "spill"
    BY <1>1 DEF ReserveSpill
  <2>2. Ordered
    BY <2>1 DEF SortInv
  <2> QED BY <1>1, <2>2, ReserveSpilled
<1>2. CASE ~ReserveSpill
  <2>1. /\ dfg' = dfg /\ spillAt' = spillAt /\ spillWords' = spillWords
        /\ Nodes(dfg)' = Nodes(dfg)
        /\ \A n : (Spilled(n)' <=> Spilled(n)) /\ Size(n)' = Size(n)
    BY <1>2 DEF EvaluatorStep, Generate, Run, Root, Descend, Leave, Sorted, PlaceNode, EmitNode, NextPhase,
                EmitSeeds, Evaluate, Statement, Return, layout, Spilled, Size
  <2>2. /\ \A n \in Nodes(dfg)' : Spilled(n)' => spillAt'[n] + Size(n)' <= spillWords'
        /\ \A m, n \in Nodes(dfg)' : Spilled(m)' /\ Spilled(n)' /\ m # n =>
           (spillAt'[m] + Size(m)' <= spillAt'[n] \/ spillAt'[n] + Size(n)' <= spillAt'[m])
    BY <2>1 DEF SpillInv
  <2>3. CASE Root \/ Descend \/ Leave \/ Sorted \/ PlaceNode
    <3>1. phase \in BeforeSpill /\ phase' \in BeforeSpill
      BY <2>3 DEF Root, Descend, Leave, Sorted, PlaceNode, BeforeSpill
    <3>2. \A n \in Nodes(dfg)' : ~Spilled(n)'
      BY <2>1, <3>1 DEF SpillInv
    <3> QED BY <2>2, <3>1, <3>2 DEF SpillInv, BeforeSpill
  <2>4. CASE NextPhase /\ phase = "chunk"
    <3>1. phase' = "spill" /\ at' = 1 /\ order' = order
      BY <2>4 DEF NextPhase, sorting
    <3>2. \A i \in 1 .. dfg.size : order[i] \in Nodes(dfg) /\ ~(i < 1)
      <4>1. Ordered
        BY <2>4 DEF SortInv
      <4>2. dfg.size \in Nat
        BY PositionFacts
      <4> QED BY <4>1, <4>2, PositionFacts DEF Ordered
    <3>3. \A i \in 1 .. dfg.size : ~Spilled(order[i])'
      BY <2>1, <2>4, <3>1, <3>2 DEF SpillInv, BeforeSpill
    <3>4. \A i \in 1 .. dfg'.size : (Spilled(order[i])' <=> (i < at' /\ NeedsSpill(order[i])'))
      BY <2>1, <3>1, <3>2, <3>3
    <3> QED BY <2>2, <3>1, <3>4 DEF SpillInv, BeforeSpill
  <2>5. \A n \in Nodes(dfg) : chunkOf' = chunkOf => (NeedsSpill(n)' <=> NeedsSpill(n))
    BY <2>1 DEF NeedsSpill, Users
  <2>6. CASE NextPhase /\ phase = "spill"
    <3>1. phase' = "emit" /\ chunkOf' = chunkOf /\ order' = order /\ at > dfg.size
      BY <2>6 DEF NextPhase, sorting, layout
    <3>2. \A i \in 1 .. dfg.size : i < at
      <4>1. dfg.size \in Nat /\ at \in Nat
        BY PositionFacts
      <4> QED BY <3>1, <4>1
    <3>3. \A i \in 1 .. dfg.size : (Spilled(order[i]) <=> NeedsSpill(order[i]))
      BY <2>6, <3>2 DEF SpillInv
    <3>4. \A n \in Nodes(dfg) : (Spilled(n) <=> NeedsSpill(n))
      <4>1. Ordered
        BY <2>6 DEF SortInv
      <4> QED BY <3>3, <4>1 DEF Ordered
    <3>5. \A n \in Nodes(dfg)' : (Spilled(n)' <=> NeedsSpill(n)')
      BY <2>1, <2>5, <3>1, <3>4
    <3> QED BY <2>2, <3>1, <3>5 DEF SpillInv, BeforeSpill
  <2>7. CASE EmitNode \/ (NextPhase /\ phase = "emit") \/ EmitSeeds \/ Run
    <3>1. /\ phase \notin BeforeSpill \cup {"spill"} /\ chunkOf' = chunkOf
          /\ phase' \notin BeforeSpill \cup {"spill"}
      BY <2>7 DEF EmitNode, NextPhase, EmitSeeds, Run, Evaluate, Statement, Return, layout, BeforeSpill
    <3>2. \A n \in Nodes(dfg) : (Spilled(n) <=> NeedsSpill(n))
      BY <3>1 DEF SpillInv
    <3>3. \A n \in Nodes(dfg)' : (Spilled(n)' <=> NeedsSpill(n)')
      BY <2>1, <2>5, <3>1, <3>2
    <3>4. phase' # "unavailable"
      <4>1. CASE EmitNode
        <5>1. phase = "emit" /\ at <= dfg.size
          BY <4>1 DEF EmitNode
        <5>2. Ordered /\ at \in 1 .. dfg.size
          <6>1. at \in Nat \ {0} /\ dfg.size \in Nat
            BY PositionFacts
          <6> QED BY <5>1, <6>1 DEF SortInv
        <5>3. \A m \in Reads(dfg, order[at]) : Available(at, m)
          BY <3>2, <5>2, OperandAvailable
        <5> QED BY <4>1, <5>1, <5>3 DEF EmitNode
      <4>2. CASE (NextPhase /\ phase = "emit") \/ EmitSeeds \/ Run
        BY <4>2 DEF NextPhase, EmitSeeds, Run, Evaluate, Statement, Return, SpillInv
      <4> QED BY <2>7, <4>1, <4>2
    <3> QED BY <2>2, <3>1, <3>3, <3>4 DEF SpillInv
  <2>8. NextPhase => phase \in {"chunk", "spill", "emit"}
    BY DEF NextPhase
  <2> QED BY <1>2, <2>3, <2>4, <2>6, <2>7, <2>8 DEF EvaluatorStep, Generate
<1> QED BY <1>1, <1>2

\* The invariant of generation.
LEMMA GeneratorStep ==
    ASSUME GeneratorInv, EvaluatorStep
    PROVE  GeneratorInv'
<1>1. phase # "loop"
  BY DEF EvaluatorStep, Generating, Run, Evaluate, Statement, Return
<1>2. SortInv'
  BY <1>1, SortStep DEF GeneratorInv, EvaluatorStep
<1>3. SpillInv'
  BY SpillStep DEF GeneratorInv
<1>4. GeneratorTypeOK'
  <2>1. CASE Run
    BY <2>1, RunTypes DEF GeneratorInv
  <2>2. CASE Root \/ Descend \/ Leave \/ Sorted
    BY <2>2, SortTypes DEF GeneratorInv
  <2>3. CASE PlaceNode \/ ReserveSpill \/ EmitNode \/ NextPhase \/ EmitSeeds
    <3>1. phase \notin {"sort", "loop"}
      BY <2>3 DEF PlaceNode, ReserveSpill, EmitNode, NextPhase, EmitSeeds
    <3> QED BY <2>3, <3>1, LayoutTypes DEF GeneratorInv, SortInv
  <2> QED BY <2>1, <2>2, <2>3 DEF EvaluatorStep, Generate
<1> QED BY <1>2, <1>3, <1>4 DEF GeneratorInv

\* It holds before anything is generated.
LEMMA GeneratorStart ==
    ASSUME Init
    PROVE  GeneratorInv
<1>1. /\ dfg \in Graphs /\ phase = "sort" /\ at = 1 /\ stack = <<>> /\ order = <<>>
      /\ visit = [n \in Nodes(dfg) |-> "unvisited"]
      /\ cost = 0 /\ chunk = 0 /\ chunkOf = [n \in Nodes(dfg) |-> 0]
      /\ spillAt = [n \in Nodes(dfg) |-> NoSpill] /\ spillWords = 0
  BY DEF Init
<1>2. dfg.size \in Nat
  BY <1>1, GraphFacts
<1>3. stack \in Seq(Frames) /\ order \in Seq(Nodes(dfg)) /\ Len(stack) = 0 /\ Len(order) = 0
  BY <1>1, EmptySeq
<1>4. GeneratorTypeOK
  <2>1. at \in 1 .. dfg.size + 1
    BY <1>1, <1>2
  <2> QED BY <1>1, <1>3, <2>1 DEF GeneratorTypeOK, Phases, Generating
<1>5. 1 .. Len(stack) = {} /\ 1 .. Len(order) = {}
  BY <1>3
<1>6. \A n \in Nodes(dfg) : visit[n] = "unvisited" /\ ~(n < at)
  BY <1>1, <1>2 DEF Nodes
<1>7. Sorting
  BY <1>5, <1>6 DEF Sorting, IsInjectiveOrder, IsTopological
<1>8. SortInv
  BY <1>1, <1>7 DEF SortInv
<1>9. \A n \in Nodes(dfg) : ~Spilled(n)
  BY <1>1 DEF Spilled
<1>10. SpillInv
  BY <1>1, <1>9 DEF SpillInv, BeforeSpill
<1> QED BY <1>4, <1>8, <1>10 DEF GeneratorInv

-----------------------------------------------------------------------------
(* An evaluation.                                                          *)

\* The model has been called.
Running == phase \in {"run", "settled"}

\* The types of the variables an evaluation writes.
WordTypes ==
    /\ given = NoValue \/ given \in Given(dfg)
    /\ local = [n \in Nodes(dfg) |-> local[n]]
    /\ \A n \in Nodes(dfg) : local[n] = NoValue \/ local[n] \in Values(dfg.type[n])
    /\ DOMAIN spills = (IF phase \in Built \cup {"unseeded", "thrown"} THEN 0 .. spillWords - 1 ELSE {})
    /\ \A i \in DOMAIN spills : spills[i] \in Word
    /\ IsAssignment(slot, dfg.internal, dfg.type)
    /\ IsAssignment(dslot, dfg.flopD, dfg.type)
    /\ IsAssignment(outs, dfg.outputs, dfg.type)

\* `value' stands wherever the statement of n puts what it computes.
Holds(n, value) ==
    /\ local[n] = value
    /\ n \in dfg.outputs => outs[n] = value
    /\ n \in dfg.flopD => dslot[n] = value
    /\ (dfg.observables /\ n \in dfg.internal) => slot[n] = value
    /\ Spilled(n) => \A w \in 0 .. Size(n) - 1 : spills[spillAt[n] + w] = value[w]

\* While an evaluation runs what its statements so far have written is what the
\* graph means, and slots of origins are seeded: what the evaluation before left
\* behind lies ahead.
RunInv ==
    /\ WordTypes
    /\ phase # "thrown"
    /\ \A n \in dfg.internal : dfg.kind[n] = "X" => slot[n] = Zero(dfg.type[n])
    /\ Running =>
         /\ given \in Given(dfg)
         /\ dfg.observables => \A n \in dfg.internal : IsOrigin(dfg, n) => slot[n] = OriginValue(given, n)
         /\ \A i \in 1 .. dfg.size : (i < at /\ ~IsOrigin(dfg, order[i])) =>
               Holds(order[i], Meaning(dfg, given)[order[i]])
    /\ phase = "settled" => at > dfg.size

\* What holds of the generator and of an evaluation in every state.
EvaluatorInv == GeneratorInv /\ RunInv

\* What is emitted for an origin is what it means.
LEMMA OriginMeaning ==
    ASSUME dfg \in Graphs, ~HasLoop(dfg), NEW v \in Given(dfg), NEW n \in Nodes(dfg), IsOrigin(dfg, n)
    PROVE  OriginValue(v, n) = Meaning(dfg, v)[n] /\ OriginValue(v, n) \in Values(dfg.type[n])
<1> DEFINE M == Meaning(dfg, v)
<1>1. M[n] = NodeMeaning(dfg, v, M, n) /\ M[n] \in Values(dfg.type[n])
  BY MeaningSolves
<1> HIDE DEF M
<1>2. OriginValue(v, n) = NodeMeaning(dfg, v, M, n)
  BY DEF OriginValue, NodeMeaning, IsOrigin, Origins, IsMux
<1> QED BY <1>1, <1>2 DEF M

\* What a statement reads is what the node it reads means.
LEMMA ReadMeaning ==
    ASSUME EvaluatorInv, phase = "run", at <= dfg.size, NEW m \in Reads(dfg, order[at])
    PROVE  Read(at, m) = Meaning(dfg, given)[m] /\ Meaning(dfg, given)[m] \in Values(dfg.type[m])
<1>1. GeneratorTypeOK /\ Ordered /\ SpillInv /\ RunInv
  BY DEF EvaluatorInv, GeneratorInv, SortInv
<1>2. at \in 1 .. dfg.size /\ dfg.size \in Nat /\ at \in Nat
  <2>1. dfg.size \in Nat /\ at \in Nat \ {0}
    BY <1>1, PositionFacts
  <2> QED BY <2>1
<1>3. order[at] \in Nodes(dfg) /\ m \in Nodes(dfg) /\ \E j \in 1 .. at - 1 : order[j] = m
  BY <1>1, <1>2, ReadsBefore
<1>4. given \in Given(dfg) /\ ~HasLoop(dfg) /\ dfg \in Graphs
  BY <1>1, OrderedNoLoop DEF RunInv, Running, GeneratorTypeOK
<1>5. PICK j \in 1 .. dfg.size : j < at /\ order[j] = m
  BY <1>2, <1>3
<1> DEFINE M == Meaning(dfg, given)
<1>6. M[m] \in Values(dfg.type[m])
  BY <1>3, <1>4, MeaningSolves
<1>7. ~IsOrigin(dfg, m) => Holds(m, M[m])
  BY <1>1, <1>5 DEF RunInv, Running
<1>8. CASE InScope(at, m)
  BY <1>6, <1>7, <1>8 DEF Read, Holds, InScope
<1>9. CASE ~InScope(at, m) /\ IsOrigin(dfg, m)
  BY <1>3, <1>4, <1>6, <1>9, OriginMeaning DEF Read
<1>10. CASE ~InScope(at, m) /\ ~IsOrigin(dfg, m)
  <2>1. \A n \in Nodes(dfg) : (Spilled(n) <=> NeedsSpill(n))
    BY <1>1 DEF SpillInv, BeforeSpill
  <2>2. Spilled(m)
    BY <1>1, <1>2, <1>10, <2>1, OperandAvailable DEF Available, Spilled
  <2>3. \A w \in 0 .. Size(m) - 1 : spills[spillAt[m] + w] = M[m][w]
    BY <1>7, <1>10, <2>2 DEF Holds
  <2>4. Size(m) = WordCount(dfg.type[m].width) /\ dfg.type[m] \in Types
    BY <1>1, <1>3, <1>4, SizeFacts, GraphFacts
  <2>5. M[m] = [w \in 0 .. Size(m) - 1 |-> M[m][w]]
    BY <1>6, <2>4, ValueWords
  <2>6. Read(at, m) = [w \in 0 .. Size(m) - 1 |-> spills[spillAt[m] + w]]
    BY <1>10 DEF Read
  <2> HIDE DEF M
  <2>7. Read(at, m) = M[m]
    BY <2>3, <2>5, <2>6
  <2> QED BY <1>6, <2>7 DEF M
<1> QED BY <1>8, <1>9, <1>10

\* What a statement computes is what its node means, and it does not throw.
LEMMA StatementMeaning ==
    ASSUME EvaluatorInv, phase = "run", at <= dfg.size, ~IsOrigin(dfg, order[at])
    PROVE  /\ ~Throws(at, order[at])
           /\ StatementValue(at, order[at]) = Meaning(dfg, given)[order[at]]
<1> DEFINE n == order[at]
           M == Meaning(dfg, given)
<1>1. GeneratorTypeOK /\ Ordered /\ RunInv
  BY DEF EvaluatorInv, GeneratorInv, SortInv
<1>2. n \in Nodes(dfg) /\ dfg \in Graphs
  <2>1. dfg.size \in Nat /\ at \in Nat \ {0}
    BY <1>1, PositionFacts
  <2>2. at \in 1 .. Len(order)
    BY <1>1, <2>1 DEF Ordered
  <2> QED BY <1>1, <2>2, PositionFacts
<1>3. given \in Given(dfg) /\ ~HasLoop(dfg)
  BY <1>1, OrderedNoLoop DEF RunInv, Running
<1>4. M[n] = NodeMeaning(dfg, given, M, n)
  BY <1>2, <1>3, MeaningSolves
<1>5. \A m \in Reads(dfg, n) : Read(at, m) = M[m] /\ M[m] \in Values(dfg.type[m])
  BY ReadMeaning
<1>6. \A m \in Nodes(dfg) : M[m] = NodeMeaning(dfg, given, M, m)
  BY <1>2, <1>3, MeaningSolves
<1> HIDE DEF M
<1>7. CASE IsMux(dfg, n)
  <2> DEFINE v == M[Selector(dfg, n)]
             k == ArmFor(dfg, n, v[0])
             g == GroupOf(dfg, n, k)
             a == Arm(dfg, n, k)
             b == Arm(dfg, n, g)
  <2>1. Selector(dfg, n) \in Reads(dfg, n) /\ v \in Values(dfg.type[Selector(dfg, n)])
    BY <1>2, <1>5, <1>7, MuxFacts
  <2>2. Taken(at, n) = TakenArm(n, v[0])
    BY <1>5, <2>1 DEF Taken
  <2>3. Taken(at, n) = {g}
    BY <1>2, <1>7, <2>1, <2>2, TakenArmFacts
  <2>4. k \in DOMAIN dfg.codes[n]
    BY <1>2, <1>7, <2>1, MuxFacts
  <2>5. g \in DOMAIN dfg.codes[n] /\ ArmKey(dfg, n, g) = ArmKey(dfg, n, k)
    BY <1>2, <1>7, <2>4, GroupFacts
  <2>6. a \in Reads(dfg, n) /\ b \in Reads(dfg, n) /\ a \in Nodes(dfg) /\ b \in Nodes(dfg)
    BY <1>2, <1>7, <2>4, <2>5, MuxFacts, GraphFacts
  <2>7. \/ b = a
        \/ /\ dfg.kind[b] = "CONST" /\ dfg.kind[a] = "CONST"
           /\ dfg.value[b] = dfg.value[a] /\ dfg.type[b] = dfg.type[a]
    BY <1>2, <2>5, <2>6, ArmKeyFacts
  <2>8. (CHOOSE j \in Taken(at, n) : TRUE) = g
    BY <2>3
  <2>9. StatementValue(at, n) = ResizedTo(Read(at, b), dfg.type[b], dfg.type[n])
    BY <1>7, <2>8 DEF StatementValue
  <2>10. NodeMeaning(dfg, given, M, n) = ResizedTo(M[a], dfg.type[a], dfg.type[n])
    BY <1>7 DEF NodeMeaning, IsMux
  <2> HIDE DEF v, k, g, a, b
  <2>11. M[a] = M[b] /\ dfg.type[a] = dfg.type[b]
    <3>1. CASE b = a
      BY <3>1
    <3>2. CASE /\ dfg.kind[b] = "CONST" /\ dfg.kind[a] = "CONST"
               /\ dfg.value[b] = dfg.value[a] /\ dfg.type[b] = dfg.type[a]
      <4>1. NodeMeaning(dfg, given, M, a) = Literal(dfg.value[a], dfg.type[a])
        BY <3>2 DEF NodeMeaning, IsMux
      <4>2. NodeMeaning(dfg, given, M, b) = Literal(dfg.value[b], dfg.type[b])
        BY <3>2 DEF NodeMeaning, IsMux
      <4> QED BY <1>6, <2>6, <3>2, <4>1, <4>2
    <3> QED BY <2>7, <3>1, <3>2
  <2>12. Read(at, b) = M[b]
    BY <1>5, <2>6
  <2>13. StatementValue(at, n) = M[n]
    BY <1>4, <2>9, <2>10, <2>11, <2>12
  <2>14. ~Throws(at, n)
    BY <2>3 DEF Throws
  <2> QED BY <2>13, <2>14 DEF M
<1>8. CASE ~IsMux(dfg, n)
  <2>1. NodeMeaning(dfg, given, M, n) = Apply(dfg, n, [k \in DOMAIN dfg.in[n] |-> M[dfg.in[n][k]]])
    BY <1>8 DEF NodeMeaning, IsOrigin, Origins, IsMux
  <2>2. StatementValue(at, n) = Apply(dfg, n, [k \in DOMAIN dfg.in[n] |-> Read(at, dfg.in[n][k])])
    BY <1>8 DEF StatementValue
  <2>3. \A k \in DOMAIN dfg.in[n] : Read(at, dfg.in[n][k]) = M[dfg.in[n][k]]
    BY <1>5 DEF Reads
  <2>4. [k \in DOMAIN dfg.in[n] |-> Read(at, dfg.in[n][k])] = [k \in DOMAIN dfg.in[n] |-> M[dfg.in[n][k]]]
    BY <2>3
  <2>5. StatementValue(at, n) = M[n]
    BY <1>4, <2>1, <2>2, <2>4
  <2> QED BY <1>8, <2>5 DEF Throws, M
<1> QED BY <1>7, <1>8

\* An assignment written at one node.
LEMMA AssignmentExcept ==
    ASSUME NEW S, NEW type, NEW f, IsAssignment(f, S, type), NEW n \in S, NEW v \in Values(type[n])
    PROVE  /\ IsAssignment([f EXCEPT ![n] = v], S, type)
           /\ [f EXCEPT ![n] = v][n] = v
           /\ \A m \in S : m # n => [f EXCEPT ![n] = v][m] = f[m]
<1> DEFINE g == [f EXCEPT ![n] = v]
<1>1. DOMAIN f = S /\ f = [m \in S |-> f[m]] /\ \A m \in S : f[m] \in Values(type[m])
  BY DEF IsAssignment
<1>2. g = [m \in S |-> IF m = n THEN v ELSE f[m]]
  BY <1>1
<1>3. \A m \in S : g[m] = IF m = n THEN v ELSE f[m]
  BY <1>2
<1>4. DOMAIN g = S /\ g = [m \in S |-> g[m]]
  BY <1>2
<1> HIDE DEF g
<1>5. \A m \in S : g[m] \in Values(type[m])
  BY <1>1, <1>3
<1>6. IsAssignment(g, S, type)
  BY <1>4, <1>5 DEF IsAssignment
<1> QED BY <1>3, <1>6 DEF g

\* Generation writes no words but the zeros of a new spill buffer.
LEMMA GenerateWords ==
    ASSUME GeneratorInv, RunInv, phase \in Generating, Generate
    PROVE  RunInv'
<1>1. /\ dfg' = dfg /\ given' = given /\ local' = local /\ slot' = slot /\ dslot' = dslot /\ outs' = outs
      /\ phase' \notin Built \cup {"unseeded", "thrown"} => spills' = spills
  BY DEF Generate, Root, Descend, Leave, Sorted, PlaceNode, ReserveSpill, EmitNode, NextPhase, EmitSeeds, words,
         Built, Generating
<1>2. phase \notin Built \cup {"unseeded", "thrown"} /\ ~Running'
  BY DEF Generate, Root, Descend, Leave, Sorted, PlaceNode, ReserveSpill, EmitNode, NextPhase, EmitSeeds, Running,
         Built, Generating
<1>3. phase' # "thrown"
  BY DEF Generate, Root, Descend, Leave, Sorted, PlaceNode, ReserveSpill, EmitNode, NextPhase, EmitSeeds, Generating
<1>4. /\ DOMAIN spills' = (IF phase' \in Built \cup {"unseeded", "thrown"} THEN 0 .. spillWords' - 1 ELSE {})
      /\ \A i \in DOMAIN spills' : spills'[i] \in Word
  <2>1. CASE phase' \in Built \cup {"unseeded", "thrown"}
    <3>1. spills' = [i \in 0 .. spillWords - 1 |-> 0] /\ spillWords' = spillWords
      BY <2>1 DEF Generate, Root, Descend, Leave, Sorted, PlaceNode, ReserveSpill, EmitNode, NextPhase, EmitSeeds,
                  layout, Built, Generating
    <3>2. 0 \in Word
      BY WordAssumption, PowerPositive DEF Word
    <3> QED BY <2>1, <3>1, <3>2
  <2>2. CASE phase' \notin Built \cup {"unseeded", "thrown"}
    BY <1>1, <1>2, <2>2 DEF RunInv, WordTypes
  <2> QED BY <2>1, <2>2
<1>5. WordTypes'
  BY <1>1, <1>4 DEF RunInv, WordTypes, Nodes, Given, Inputs, IsAssignment
<1>6. \A n \in dfg'.internal : dfg'.kind[n] = "X" => slot'[n] = Zero(dfg'.type[n])
  BY <1>1 DEF RunInv
<1>7. phase' # "settled"
  BY <1>2 DEF Running
<1> QED BY <1>2, <1>3, <1>5, <1>6, <1>7 DEF RunInv

\* A new evaluation seeds the slots of origins.
LEMMA EvaluateStep ==
    ASSUME EvaluatorInv, NEW v \in Given(dfg), Evaluate(v)
    PROVE  RunInv'
<1>1. /\ dfg' = dfg /\ given' = v /\ spills' = spills /\ dslot' = dslot /\ outs' = outs
      /\ phase \in {"built", "settled"} /\ phase' = "run" /\ at' = 1 /\ order' = order
      /\ spillWords' = spillWords
      /\ local' = [n \in Nodes(dfg) |-> NoValue]
      /\ slot' = [n \in dfg.internal |->
                    IF dfg.observables /\ dfg.kind[n] \in {"INPUT", "CONST"} THEN OriginValue(v, n) ELSE slot[n]]
  BY DEF Evaluate, sorting, layout
<1>2. GeneratorTypeOK /\ Ordered /\ RunInv /\ dfg \in Graphs /\ WordTypes
  BY <1>1 DEF EvaluatorInv, GeneratorInv, SortInv, GeneratorTypeOK, RunInv
<1>3. ~HasLoop(dfg)
  BY <1>2, OrderedNoLoop
<1>4. dfg.internal \subseteq Nodes(dfg)
  BY <1>2, GraphsWellFormed
<1>5. \A n \in dfg.internal : slot[n] \in Values(dfg.type[n])
  BY <1>2 DEF WordTypes, IsAssignment
<1>6. \A n \in dfg.internal : IsOrigin(dfg, n) => OriginValue(v, n) \in Values(dfg.type[n])
  BY <1>2, <1>3, <1>4, OriginMeaning
<1>7. \A n \in dfg.internal :
        slot'[n] = IF dfg.observables /\ dfg.kind[n] \in {"INPUT", "CONST"} THEN OriginValue(v, n) ELSE slot[n]
  BY <1>1
<1>8. \A n \in dfg.internal : slot'[n] \in Values(dfg.type[n])
  BY <1>5, <1>6, <1>7 DEF IsOrigin, Origins
<1>9. IsAssignment(slot', dfg.internal, dfg.type)
  <2>1. DOMAIN slot' = dfg.internal /\ slot' = [n \in dfg.internal |-> slot'[n]]
    BY <1>1
  <2> QED BY <1>8, <2>1 DEF IsAssignment
<1>10. WordTypes'
  <2>1. local' = [n \in Nodes(dfg) |-> local'[n]] /\ \A n \in Nodes(dfg) : local'[n] = NoValue
    BY <1>1
  <2>2. DOMAIN spills' = 0 .. spillWords' - 1 /\ \A i \in DOMAIN spills' : spills'[i] \in Word
    BY <1>1, <1>2 DEF WordTypes, Built
  <2>3. IsAssignment(dslot, dfg.flopD, dfg.type) /\ IsAssignment(outs, dfg.outputs, dfg.type)
    BY <1>2 DEF WordTypes
  <2>4. phase' \in Built
    BY <1>1 DEF Built
  <2> QED BY <1>1, <1>9, <2>1, <2>2, <2>3, <2>4 DEF WordTypes
<1>11. \A n \in dfg.internal : dfg.kind[n] = "X" => slot'[n] = Zero(dfg.type[n])
  BY <1>2, <1>7 DEF RunInv
<1>12. dfg.observables => \A n \in dfg.internal : IsOrigin(dfg, n) => slot'[n] = OriginValue(v, n)
  <2> SUFFICES ASSUME dfg.observables, NEW n \in dfg.internal, IsOrigin(dfg, n)
               PROVE  slot'[n] = OriginValue(v, n)
    OBVIOUS
  <2>1. CASE dfg.kind[n] \in {"INPUT", "CONST"}
    BY <1>7, <2>1
  <2>2. CASE dfg.kind[n] = "X"
    BY <1>11, <2>2 DEF OriginValue
  <2> QED BY <2>1, <2>2 DEF IsOrigin, Origins
<1>13. \A i \in 1 .. dfg.size : ~(i < at')
  <2>1. dfg.size \in Nat
    BY <1>2, GraphFacts
  <2> QED BY <1>1, <2>1
<1>14. \A n \in dfg.internal : OriginValue(v, n)' = OriginValue(v, n)
  BY <1>1 DEF OriginValue
<1>15. dfg'.observables =>
          \A n \in dfg'.internal : IsOrigin(dfg', n) => slot'[n] = OriginValue(given, n)'
  BY <1>1, <1>12 DEF OriginValue
<1> QED BY <1>1, <1>10, <1>11, <1>13, <1>15 DEF RunInv

\* The statement of an origin does nothing.
LEMMA OriginStatement ==
    ASSUME EvaluatorInv, Statement, IsOrigin(dfg, order[at])
    PROVE  RunInv'
<1>1. /\ dfg' = dfg /\ given' = given /\ local' = local /\ slot' = slot /\ dslot' = dslot /\ outs' = outs
      /\ spills' = spills /\ phase = "run" /\ phase' = "run" /\ at' = at + 1 /\ at <= dfg.size
      /\ order' = order /\ spillAt' = spillAt /\ spillWords' = spillWords
  BY DEF Statement, sorting, layout
<1>2. RunInv /\ GeneratorTypeOK
  BY DEF EvaluatorInv, GeneratorInv
<1>3. WordTypes'
  BY <1>1, <1>2 DEF RunInv, WordTypes, Built
<1>4. \A i \in 1 .. dfg.size : (i < at + 1 /\ ~IsOrigin(dfg, order[i])) =>
         Holds(order[i], Meaning(dfg, given)[order[i]])
  <2>1. at \in Nat /\ dfg.size \in Nat
    BY <1>2, PositionFacts
  <2>2. \A i \in 1 .. dfg.size : i < at + 1 => i < at \/ i = at
    BY <2>1
  <2> QED BY <1>1, <1>2, <2>2 DEF RunInv, Running
<1>5. \A n, w : Holds(n, w)' <=> Holds(n, w)
  BY <1>1 DEF Holds, Spilled, Size
<1>6. Meaning(dfg, given)' = Meaning(dfg, given)
  BY <1>1
<1>7. \A i \in 1 .. dfg'.size : (i < at' /\ ~IsOrigin(dfg', order'[i])) =>
         Holds(order[i], Meaning(dfg, given)[order[i]])'
  BY <1>1, <1>4, <1>5, <1>6
<1> QED BY <1>1, <1>2, <1>3, <1>7 DEF RunInv, Running, OriginValue

\* The words of a value reach the spill buffer and touch no other value's.
LEMMA SpilledWords ==
    ASSUME GeneratorTypeOK, SpillInv, NEW n \in Nodes(dfg), Spilled(n),
           DOMAIN spills = 0 .. spillWords - 1, NEW v,
           spills' = [i \in DOMAIN spills |-> IF i - spillAt[n] \in 0 .. Size(n) - 1
                                        THEN v[i - spillAt[n]] ELSE spills[i]]
    PROVE  /\ \A w \in 0 .. Size(n) - 1 : spills'[spillAt[n] + w] = v[w]
           /\ \A m \in Nodes(dfg) : (Spilled(m) /\ m # n) =>
                \A w \in 0 .. Size(m) - 1 : spills'[spillAt[m] + w] = spills[spillAt[m] + w]
<1>1. /\ \A m \in Nodes(dfg) : Spilled(m) => spillAt[m] + Size(m) <= spillWords
      /\ \A k, m \in Nodes(dfg) : Spilled(k) /\ Spilled(m) /\ k # m =>
           (spillAt[k] + Size(k) <= spillAt[m] \/ spillAt[m] + Size(m) <= spillAt[k])
  BY DEF SpillInv
<1>2. spillWords \in Nat /\ \A m \in Nodes(dfg) : Spilled(m) => spillAt[m] \in Nat
  BY DEF GeneratorTypeOK, Spilled
<1>3. \A m \in Nodes(dfg) : Size(m) \in Nat
  BY SizeFacts
<1>4. \A i \in 0 .. spillWords - 1 :
        spills'[i] = IF i - spillAt[n] \in 0 .. Size(n) - 1 THEN v[i - spillAt[n]] ELSE spills[i]
  OBVIOUS
<1>5. ASSUME NEW w \in 0 .. Size(n) - 1 PROVE spills'[spillAt[n] + w] = v[w]
  <2> DEFINE i == spillAt[n] + w
  <2>1. w \in Int /\ 0 <= w /\ w < Size(n)
    BY <1>3
  <2>2. i \in 0 .. spillWords - 1 /\ i - spillAt[n] = w
    BY <1>1, <1>2, <1>3, <2>1
  <2> HIDE DEF i
  <2>3. spills'[i] = v[i - spillAt[n]]
    BY <1>4, <2>2
  <2> QED BY <2>2, <2>3 DEF i
<1>6. ASSUME NEW m \in Nodes(dfg), Spilled(m), m # n, NEW w \in 0 .. Size(m) - 1
      PROVE  spills'[spillAt[m] + w] = spills[spillAt[m] + w]
  <2> DEFINE i == spillAt[m] + w
  <2>1. w \in Int /\ 0 <= w /\ w < Size(m)
    BY <1>3
  <2>2. spillAt[m] \in Nat /\ spillAt[n] \in Nat /\ Size(m) \in Nat /\ Size(n) \in Nat
    BY <1>2, <1>3, <1>6
  <2>3. spillAt[m] + Size(m) <= spillAt[n] \/ spillAt[n] + Size(n) <= spillAt[m]
    BY <1>1, <1>6
  <2>4. spillAt[m] + Size(m) <= spillWords
    BY <1>1, <1>6
  <2>5. i \in 0 .. spillWords - 1 /\ i - spillAt[n] \notin 0 .. Size(n) - 1
    <3> DEFINE p == spillAt[m]
               q == spillAt[n]
    <3>1. p \in Int /\ q \in Int /\ Size(m) \in Int /\ Size(n) \in Int /\ spillWords \in Int /\ 0 <= p
      BY <1>2, <2>2
    <3> HIDE DEF p, q
    <3>2. p + w \in 0 .. spillWords - 1
      BY <2>1, <2>4, <3>1 DEF p
    <3>3. (p + w) - q < 0 \/ (p + w) - q >= Size(n)
      BY <2>1, <2>3, <3>1 DEF p, q
    <3> QED BY <3>1, <3>2, <3>3 DEF p, q
  <2> HIDE DEF i
  <2>6. spills'[i] = spills[i]
    BY <1>4, <2>5
  <2> QED BY <2>6 DEF i
<1> QED BY <1>5, <1>6

\* What a statement leaves where it stores and elsewhere.
LEMMA StatementWrites ==
    ASSUME EvaluatorInv, Statement, ~IsOrigin(dfg, order[at]),
           NEW v, v = Meaning(dfg, given)[order[at]], NEW n, n = order[at]
    PROVE  /\ phase' = "run" /\ at' = at + 1 /\ UNCHANGED <<dfg, sorting, layout, given>>
           /\ local' = [local EXCEPT ![n] = v]
           /\ slot' = IF dfg.observables /\ n \in dfg.internal THEN [slot EXCEPT ![n] = v] ELSE slot
           /\ dslot' = IF n \in dfg.flopD THEN [dslot EXCEPT ![n] = v] ELSE dslot
           /\ outs' = IF n \in dfg.outputs THEN [outs EXCEPT ![n] = v] ELSE outs
           /\ spills' = IF Spilled(n)
                        THEN [i \in DOMAIN spills |-> IF i - spillAt[n] \in 0 .. Size(n) - 1
                                                      THEN v[i - spillAt[n]] ELSE spills[i]]
                        ELSE spills
<1>1. phase = "run" /\ at <= dfg.size
  BY DEF Statement
<1>2. ~Throws(at, n) /\ StatementValue(at, n) = v
  BY <1>1, StatementMeaning
<1>3. n \in Nodes(dfg)
  <2>1. Ordered /\ GeneratorTypeOK
    BY <1>1 DEF EvaluatorInv, GeneratorInv, SortInv
  <2>2. dfg.size \in Nat /\ at \in Nat \ {0}
    BY <2>1, PositionFacts
  <2>3. at \in 1 .. Len(order)
    BY <1>1, <2>1, <2>2 DEF Ordered
  <2> QED BY <2>1, <2>3, PositionFacts
<1>4. phase' = "run" /\ at' = at + 1 /\ UNCHANGED <<dfg, sorting, layout, given>>
  BY <1>1, <1>2 DEF Statement
<1>5. local' = [local EXCEPT ![n] = v]
  BY <1>2, <1>3 DEF Statement
<1>6. slot' = IF dfg.observables /\ n \in dfg.internal THEN [slot EXCEPT ![n] = v] ELSE slot
  BY <1>2 DEF Statement
<1>7. dslot' = IF n \in dfg.flopD THEN [dslot EXCEPT ![n] = v] ELSE dslot
  BY <1>2 DEF Statement
<1>8. outs' = IF n \in dfg.outputs THEN [outs EXCEPT ![n] = v] ELSE outs
  BY <1>2 DEF Statement
<1>9. spills' = IF Spilled(n)
                THEN [i \in DOMAIN spills |-> IF i - spillAt[n] \in 0 .. Size(n) - 1
                                              THEN v[i - spillAt[n]] ELSE spills[i]]
                ELSE spills
  BY <1>2 DEF Statement, Spilled
<1> QED BY <1>4, <1>5, <1>6, <1>7, <1>8, <1>9

\* A statement keeps what was computed and adds the value of its node.
LEMMA NodeStatement ==
    ASSUME EvaluatorInv, Statement, ~IsOrigin(dfg, order[at])
    PROVE  RunInv'
<1> DEFINE M == Meaning(dfg, given)
           N == Nodes(dfg)
<1>1. PICK n : n = order[at]
  OBVIOUS
<1>2. PICK v : v = M[n]
  OBVIOUS
<1>3. /\ phase' = "run" /\ at' = at + 1 /\ UNCHANGED <<dfg, sorting, layout, given>>
      /\ local' = [local EXCEPT ![n] = v]
      /\ slot' = IF dfg.observables /\ n \in dfg.internal THEN [slot EXCEPT ![n] = v] ELSE slot
      /\ dslot' = IF n \in dfg.flopD THEN [dslot EXCEPT ![n] = v] ELSE dslot
      /\ outs' = IF n \in dfg.outputs THEN [outs EXCEPT ![n] = v] ELSE outs
      /\ spills' = IF Spilled(n)
                   THEN [i \in DOMAIN spills |-> IF i - spillAt[n] \in 0 .. Size(n) - 1
                                                 THEN v[i - spillAt[n]] ELSE spills[i]]
                   ELSE spills
  BY <1>1, <1>2, StatementWrites
<1>4. /\ phase = "run" /\ at <= dfg.size /\ dfg' = dfg /\ order' = order /\ given' = given
      /\ spillAt' = spillAt /\ spillWords' = spillWords
  BY <1>3 DEF Statement, sorting, layout
<1>5. GeneratorTypeOK /\ Ordered /\ SpillInv /\ RunInv /\ WordTypes /\ dfg \in Graphs
  BY <1>4 DEF EvaluatorInv, GeneratorInv, SortInv, RunInv, GeneratorTypeOK
<1>6. dfg.size \in Nat /\ at \in Nat /\ at \in 1 .. dfg.size
  <2>1. dfg.size \in Nat /\ at \in Nat \ {0}
    BY <1>5, PositionFacts
  <2> QED BY <1>4, <2>1
<1>7. n \in N /\ \A i \in 1 .. dfg.size : order[i] \in N
  BY <1>1, <1>5, <1>6, PositionFacts DEF Ordered
<1>8. v \in Values(dfg.type[n]) /\ dfg.type[n] \in Types
  <2>1. given \in Given(dfg) /\ ~HasLoop(dfg)
    BY <1>4, <1>5, OrderedNoLoop DEF RunInv, Running
  <2> QED BY <1>2, <1>5, <1>7, <2>1, MeaningSolves, GraphFacts
<1>9. DOMAIN spills = 0 .. spillWords - 1
  BY <1>4, <1>5 DEF WordTypes, Built
<1> HIDE DEF M, N
<1>10. /\ local = [m \in N |-> local[m]]
       /\ \A m \in N : local[m] = NoValue \/ local[m] \in Values(dfg.type[m])
  BY <1>5 DEF WordTypes, N
<1>11. /\ local' = [m \in N |-> local'[m]]
       /\ \A m \in N : local'[m] = IF m = n THEN v ELSE local[m]
  <2>1. DOMAIN local = N
    BY <1>10
  <2>2. local' = [m \in N |-> IF m = n THEN v ELSE local[m]]
    BY <1>3, <2>1
  <2> QED BY <2>2
<1>12. IsAssignment(slot, dfg.internal, dfg.type) /\ IsAssignment(dslot, dfg.flopD, dfg.type)
       /\ IsAssignment(outs, dfg.outputs, dfg.type)
  BY <1>5 DEF WordTypes
<1>13. /\ IsAssignment(slot', dfg.internal, dfg.type)
       /\ dfg.observables /\ n \in dfg.internal => slot'[n] = v
       /\ \A m \in dfg.internal : m # n => slot'[m] = slot[m]
  <2>1. CASE dfg.observables
    <3>1. slot' = IF n \in dfg.internal THEN [slot EXCEPT ![n] = v] ELSE slot
      BY <1>3, <2>1
    <3>2. CASE n \in dfg.internal
      <4>1. slot' = [slot EXCEPT ![n] = v]
        BY <3>1, <3>2
      <4>2. /\ IsAssignment([slot EXCEPT ![n] = v], dfg.internal, dfg.type)
            /\ [slot EXCEPT ![n] = v][n] = v
            /\ \A m \in dfg.internal : m # n => [slot EXCEPT ![n] = v][m] = slot[m]
        BY <1>8, <1>12, <3>2, AssignmentExcept
      <4> QED BY <4>1, <4>2
    <3> QED BY <1>12, <3>1, <3>2
  <2>2. CASE ~dfg.observables
    BY <1>3, <1>12, <2>2
  <2> QED BY <2>1, <2>2
<1>14. /\ IsAssignment(dslot', dfg.flopD, dfg.type)
       /\ n \in dfg.flopD => dslot'[n] = v
       /\ \A m \in dfg.flopD : m # n => dslot'[m] = dslot[m]
  <2>1. CASE n \in dfg.flopD
    <3>1. dslot' = [dslot EXCEPT ![n] = v]
      BY <1>3, <2>1
    <3>2. /\ IsAssignment([dslot EXCEPT ![n] = v], dfg.flopD, dfg.type)
          /\ [dslot EXCEPT ![n] = v][n] = v
          /\ \A m \in dfg.flopD : m # n => [dslot EXCEPT ![n] = v][m] = dslot[m]
      BY <1>8, <1>12, <2>1, AssignmentExcept
    <3> QED BY <3>1, <3>2
  <2> QED BY <1>3, <1>12, <2>1
<1>15. /\ IsAssignment(outs', dfg.outputs, dfg.type)
       /\ n \in dfg.outputs => outs'[n] = v
       /\ \A m \in dfg.outputs : m # n => outs'[m] = outs[m]
  <2>1. CASE n \in dfg.outputs
    <3>1. outs' = [outs EXCEPT ![n] = v]
      BY <1>3, <2>1
    <3>2. /\ IsAssignment([outs EXCEPT ![n] = v], dfg.outputs, dfg.type)
          /\ [outs EXCEPT ![n] = v][n] = v
          /\ \A m \in dfg.outputs : m # n => [outs EXCEPT ![n] = v][m] = outs[m]
      BY <1>8, <1>12, <2>1, AssignmentExcept
    <3> QED BY <3>1, <3>2
  <2> QED BY <1>3, <1>12, <2>1
<1>16. DOMAIN spills' = DOMAIN spills /\ \A i \in DOMAIN spills' : spills'[i] \in Word
  <2>1. \A i \in DOMAIN spills : spills[i] \in Word
    BY <1>5 DEF WordTypes
  <2>2. \A w \in 0 .. Size(n) - 1 : v[w] \in Word
    BY <1>8, ValueWords DEF Size
  <2> QED BY <1>3, <2>1, <2>2
<1>17. /\ Spilled(n) => \A w \in 0 .. Size(n) - 1 : spills'[spillAt[n] + w] = v[w]
       /\ \A m \in N : (Spilled(m) /\ m # n) =>
            \A w \in 0 .. Size(m) - 1 : spills'[spillAt[m] + w] = spills[spillAt[m] + w]
  <2>1. CASE Spilled(n)
    <3>1. spills' = [i \in DOMAIN spills |-> IF i - spillAt[n] \in 0 .. Size(n) - 1
                                             THEN v[i - spillAt[n]] ELSE spills[i]]
      BY <1>3, <2>1
    <3>2. n \in Nodes(dfg)
      BY <1>7 DEF N
    <3> QED BY <1>5, <1>9, <2>1, <3>1, <3>2, SpilledWords DEF N
  <2>2. CASE ~Spilled(n)
    BY <1>3, <2>2
  <2> QED BY <2>1, <2>2
<1>18. WordTypes'
  <2>1. \A m \in N : local'[m] = NoValue \/ local'[m] \in Values(dfg.type[m])
    BY <1>8, <1>10, <1>11
  <2>2. given = NoValue \/ given \in Given(dfg)
    BY <1>5 DEF WordTypes
  <2>3. phase' \in Built
    BY <1>3 DEF Built
  <2> QED BY <1>4, <1>9, <1>11, <1>13, <1>14, <1>15, <1>16, <2>1, <2>2, <2>3 DEF WordTypes, N
<1>19. \A m : IsOrigin(dfg, m) => m # n
  BY <1>1
<1>20. \A m \in dfg.internal : dfg.kind[m] = "X" => slot'[m] = Zero(dfg.type[m])
  BY <1>5, <1>13, <1>19 DEF RunInv, IsOrigin, Origins
<1>21. dfg.observables => \A m \in dfg.internal : IsOrigin(dfg, m) => slot'[m] = OriginValue(given, m)
  BY <1>4, <1>5, <1>13, <1>19 DEF RunInv, Running
<1>22. ASSUME NEW m \in N, m # n, NEW x, Holds(m, x) PROVE Holds(m, x)'
  <2>1. /\ local[m] = x
        /\ m \in dfg.outputs => outs[m] = x
        /\ m \in dfg.flopD => dslot[m] = x
        /\ (dfg.observables /\ m \in dfg.internal) => slot[m] = x
        /\ Spilled(m) => \A w \in 0 .. Size(m) - 1 : spills[spillAt[m] + w] = x[w]
    BY <1>22 DEF Holds
  <2>2. /\ local'[m] = x
        /\ m \in dfg.outputs => outs'[m] = x
        /\ m \in dfg.flopD => dslot'[m] = x
        /\ (dfg.observables /\ m \in dfg.internal) => slot'[m] = x
        /\ Spilled(m) => \A w \in 0 .. Size(m) - 1 : spills'[spillAt[m] + w] = x[w]
    BY <1>11, <1>13, <1>14, <1>15, <1>17, <1>22, <2>1
  <2> QED BY <1>4, <2>2 DEF Holds, Spilled, Size
<1>23. Holds(n, v)'
  <2>1. /\ local'[n] = v
        /\ n \in dfg.outputs => outs'[n] = v
        /\ n \in dfg.flopD => dslot'[n] = v
        /\ (dfg.observables /\ n \in dfg.internal) => slot'[n] = v
        /\ Spilled(n) => \A w \in 0 .. Size(n) - 1 : spills'[spillAt[n] + w] = v[w]
    BY <1>7, <1>11, <1>13, <1>14, <1>15, <1>17
  <2> QED BY <1>4, <2>1 DEF Holds, Spilled, Size
<1>24. \A i \in 1 .. dfg.size : (i < at + 1 /\ ~IsOrigin(dfg, order[i])) => Holds(order[i], M[order[i]])'
  <2> SUFFICES ASSUME NEW i \in 1 .. dfg.size, i < at + 1, ~IsOrigin(dfg, order[i]), NEW m, m = order[i]
               PROVE  Holds(m, M[m])'
    <3>1. order' = order /\ M' = M
      BY <1>4 DEF M
    <3> QED BY <3>1
  <2> PICK x : x = M[m]
    OBVIOUS
  <2>1. M' = M
    BY <1>4 DEF M
  <2>2. Holds(m, x)'
    <3>1. CASE i = at
      BY <1>1, <1>2, <1>23, <3>1
    <3>2. CASE i # at
      <4>1. i < at /\ i \in 1 .. Len(order) /\ at \in 1 .. Len(order)
        BY <1>5, <1>6, <3>2 DEF Ordered
      <4>2. Holds(m, x)
        BY <1>4, <1>5, <4>1 DEF RunInv, Running, M
      <4>3. m # n /\ m \in N
        BY <1>1, <1>5, <1>7, <3>2, <4>1 DEF Ordered, IsInjectiveOrder
      <4> QED BY <1>22, <4>2, <4>3
    <3> QED BY <3>1, <3>2
  <2> QED BY <2>1, <2>2
<1> QED
  <2>1. Running' /\ phase' = "run"
    BY <1>3 DEF Running
  <2>2. given' \in Given(dfg')
    BY <1>4, <1>5 DEF RunInv, Running
  <2>3. dfg'.observables => \A m \in dfg'.internal : IsOrigin(dfg', m) => slot'[m] = OriginValue(given, m)'
    BY <1>4, <1>21 DEF OriginValue
  <2>4. \A i \in 1 .. dfg'.size : (i < at' /\ ~IsOrigin(dfg', order'[i])) =>
               Holds(order[i], Meaning(dfg, given)[order[i]])'
    BY <1>3, <1>4, <1>24 DEF M
  <2>5. \A m \in dfg'.internal : dfg'.kind[m] = "X" => slot'[m] = Zero(dfg'.type[m])
    BY <1>4, <1>20
  <2> QED BY <1>18, <2>1, <2>2, <2>3, <2>4, <2>5 DEF RunInv

\* An evaluation that returns has executed every statement.
LEMMA ReturnStep ==
    ASSUME EvaluatorInv, Return
    PROVE  RunInv'
<1>1. /\ phase = "run" /\ at > dfg.size /\ phase' = "settled"
      /\ UNCHANGED <<dfg, at, sorting, layout, words>>
  BY DEF Return
<1>2. RunInv /\ WordTypes
  BY DEF EvaluatorInv, RunInv
<1>3. WordTypes'
  BY <1>1, <1>2 DEF WordTypes, words, layout, Built
<1>4. Meaning(dfg, given)' = Meaning(dfg, given)
  BY <1>1 DEF words
<1>5. \A n, x : Holds(n, x)' <=> Holds(n, x)
  BY <1>1 DEF Holds, Spilled, Size, words, layout
<1>6. /\ given' = given /\ dfg' = dfg /\ order' = order /\ at' = at /\ slot' = slot
  BY <1>1 DEF words, sorting
<1>7. \A i \in 1 .. dfg.size : (i < at /\ ~IsOrigin(dfg, order[i])) => Holds(order[i], Meaning(dfg, given)[order[i]])
  BY <1>1, <1>2 DEF RunInv, Running
<1>8. \A i \in 1 .. dfg'.size : (i < at' /\ ~IsOrigin(dfg', order'[i])) =>
         Holds(order[i], Meaning(dfg, given)[order[i]])'
  BY <1>4, <1>5, <1>6, <1>7
<1> QED BY <1>1, <1>2, <1>3, <1>6, <1>8 DEF RunInv, Running, OriginValue

\* The invariant of generated evaluators.
LEMMA EvaluatorKept ==
    ASSUME EvaluatorInv, EvaluatorStep
    PROVE  EvaluatorInv'
<1>1. GeneratorInv'
  BY GeneratorStep DEF EvaluatorInv
<1>2. RunInv'
  <2>1. CASE phase \in Generating /\ Generate
    BY <2>1, GenerateWords DEF EvaluatorInv
  <2>2. CASE \E v \in Given(dfg) : Evaluate(v)
    BY <2>2, EvaluateStep
  <2>3. CASE Statement
    BY <2>3, OriginStatement, NodeStatement
  <2>4. CASE Return
    BY <2>4, ReturnStep
  <2> QED BY <2>1, <2>2, <2>3, <2>4 DEF EvaluatorStep, Run
<1> QED BY <1>1, <1>2 DEF EvaluatorInv

\* It holds before anything is generated.
LEMMA EvaluatorStart ==
    ASSUME Init
    PROVE  EvaluatorInv
<1>1. GeneratorInv /\ dfg \in Graphs
  BY GeneratorStart DEF Init
<1>2. /\ phase = "sort" /\ spillWords = 0 /\ given = NoValue
      /\ local = [n \in Nodes(dfg) |-> NoValue] /\ spills = [i \in {} |-> 0]
      /\ slot = Zeros(dfg.internal) /\ dslot = Zeros(dfg.flopD) /\ outs = Zeros(dfg.outputs)
  BY DEF Init
<1>3. dfg.outputs \subseteq Nodes(dfg) /\ dfg.flopD \subseteq Nodes(dfg) /\ dfg.internal \subseteq Nodes(dfg)
  BY <1>1, GraphsWellFormed
<1>4. \A n \in Nodes(dfg) : Zero(dfg.type[n]) \in Values(dfg.type[n])
  BY <1>1, GraphFacts, ZeroIsValue
<1>5. \A S \in SUBSET Nodes(dfg) : IsAssignment(Zeros(S), S, dfg.type)
  BY <1>4 DEF Zeros, IsAssignment
<1>6. \A n \in dfg.internal : slot[n] = Zero(dfg.type[n])
  BY <1>2 DEF Zeros
<1>7. local = [n \in Nodes(dfg) |-> local[n]] /\ \A n \in Nodes(dfg) : local[n] = NoValue
  BY <1>2
<1>8. DOMAIN spills = {}
  BY <1>2
<1>9. WordTypes
  BY <1>2, <1>3, <1>5, <1>7, <1>8 DEF WordTypes, Built
<1> QED BY <1>1, <1>2, <1>6, <1>9 DEF EvaluatorInv, RunInv, Running

\* It says nothing of the searches.
LEMMA EvaluatorUnchanged ==
    ASSUME EvaluatorInv, UNCHANGED <<dfg, evaluator>>
    PROVE  EvaluatorInv'
<1>1. /\ dfg' = dfg /\ phase' = phase /\ at' = at /\ visit' = visit /\ stack' = stack /\ order' = order
      /\ cost' = cost /\ chunk' = chunk /\ chunkOf' = chunkOf /\ spillAt' = spillAt /\ spillWords' = spillWords
      /\ given' = given /\ local' = local /\ spills' = spills /\ slot' = slot /\ dslot' = dslot /\ outs' = outs
  BY DEF evaluator, sorting, layout, words
<1>2. GeneratorTypeOK'
  BY <1>1 DEF EvaluatorInv, GeneratorInv, GeneratorTypeOK, Frames
<1>3. SortInv'
  BY <1>1 DEF EvaluatorInv, GeneratorInv, SortInv, Sorting, Ordered, IsInjectiveOrder, IsTopological
<1>4. SpillInv'
  BY <1>1 DEF EvaluatorInv, GeneratorInv, SpillInv, Spilled, NeedsSpill, Users, Size
<1>5. RunInv'
  BY <1>1 DEF EvaluatorInv, RunInv, WordTypes, Running, Holds, Spilled, Size, OriginValue
<1> QED BY <1>2, <1>3, <1>4, <1>5 DEF EvaluatorInv, GeneratorInv

\* A step of code generation or of the model is one of the evaluator, or keeps
\* its variables.
LEMMA EvaluatorNext ==
    ASSUME EvaluatorInv, [CodegenNext]_codegenVars
    PROVE  EvaluatorInv'
<1>1. CASE GenerateModel \/ Execute
  BY <1>1, EvaluatorKept DEF GenerateModel, Execute, EvaluatorStep
<1>2. CASE WriteWrapper
  <2>1. dfg' = dfg
    BY <1>2 DEF WriteWrapper, ConeNext, Ask, AskNeighbour, Answer, Note, NextSearch, Follow, Take, GiveUp
  <2>2. UNCHANGED evaluator
    BY <1>2 DEF WriteWrapper
  <2> QED BY <2>1, <2>2, EvaluatorUnchanged
<1>3. CASE UNCHANGED codegenVars
  BY <1>3, EvaluatorUnchanged DEF codegenVars
<1> QED BY <1>1, <1>2, <1>3 DEF CodegenNext

\* The invariant of generated evaluators holds throughout.
THEOREM EvaluatorInvariant == CodegenSpec => []EvaluatorInv
<1>1. CodegenInit => EvaluatorInv
  BY EvaluatorStart DEF CodegenInit
<1>2. EvaluatorInv /\ [CodegenNext]_codegenVars => EvaluatorInv'
  BY EvaluatorNext
<1> QED BY <1>1, <1>2, PTL DEF CodegenSpec

\* The invariant contains the types.
LEMMA EvaluatorTypes ==
    ASSUME EvaluatorInv
    PROVE  EvaluatorTypeOK
<1>1. GeneratorTypeOK /\ SpillInv /\ WordTypes
  BY DEF EvaluatorInv, GeneratorInv, RunInv
<1>2. stack \in Seq([node : Nodes(dfg), next : Nat])
  <2>1. stack \in Seq(Frames)
    BY <1>1 DEF GeneratorTypeOK
  <2>2. Frames \subseteq [node : Nodes(dfg), next : Nat]
    BY DEF Frames
  <2>3. Len(stack) \in Nat /\ stack = [i \in 1 .. Len(stack) |-> stack[i]]
    BY <2>1, LenProperties
  <2>4. \A i \in 1 .. Len(stack) : stack[i] \in [node : Nodes(dfg), next : Nat]
    BY <2>1, <2>2, ElementOfSeq
  <2> DEFINE R == [node : Nodes(dfg), next : Nat]
             l == Len(stack)
  <2> HIDE DEF R, l
  <2>5. stack \in [1 .. l -> R]
    BY <2>3, <2>4 DEF l, R
  <2>6. stack \in Seq(R)
    BY <2>3, <2>5 DEF l
  <2> QED BY <2>6 DEF R
<1>3. given = NoValue \/ IsAssignment(given, Inputs(dfg), dfg.type)
  BY <1>1, AssignmentTest DEF WordTypes, Given
<1>4. \A n \in Nodes(dfg) : spillAt[n] # NoSpill => spillAt[n] + Size(n) <= spillWords
  BY <1>1 DEF SpillInv, Spilled
<1> QED BY <1>1, <1>2, <1>3, <1>4 DEF EvaluatorTypeOK, GeneratorTypeOK, WordTypes, Phases

\* Every variable of the evaluator has its type: what a statement computes is a
\* value of the type of its node, and a spilled value lies inside the buffer.
THEOREM EvaluatorTypeCorrectness == CodegenSpec => []EvaluatorTypeOK
BY EvaluatorInvariant, EvaluatorTypes, PTL

\* Generation fails for a loop only, and always for one; no operand of a
\* statement is out of reach and no generated evaluator throws.
THEOREM GenerationFailsForCause == CodegenSpec => []FailsForCause
<1>1. ASSUME EvaluatorInv PROVE FailsForCause
  <2>1. GeneratorTypeOK /\ SortInv /\ SpillInv /\ RunInv
    BY <1>1 DEF EvaluatorInv, GeneratorInv
  <2>2. phase = "chunk" => ~HasLoop(dfg)
    BY <2>1, OrderedNoLoop DEF SortInv
  <2> QED BY <2>1, <2>2 DEF FailsForCause, SortInv, SpillInv, RunInv
<1> QED BY <1>1, EvaluatorInvariant, PTL

\* A generated evaluator computes what the graph means, for every graph, every
\* cut into chunks, and every sequence of evaluations.
THEOREM GeneratedEvaluatorIsCorrect == CodegenSpec => []EvaluatesTheGraph
<1>1. ASSUME EvaluatorInv PROVE EvaluatesTheGraph
  <2> SUFFICES ASSUME phase = "settled"
               PROVE  /\ \A n \in dfg.outputs : outs[n] = Meaning(dfg, given)[n]
                      /\ \A n \in dfg.flopD : dslot[n] = Meaning(dfg, given)[n]
                      /\ dfg.observables => \A n \in dfg.internal : slot[n] = Meaning(dfg, given)[n]
    BY DEF EvaluatesTheGraph
  <2>1. GeneratorTypeOK /\ Ordered /\ RunInv /\ dfg \in Graphs
    BY <1>1 DEF EvaluatorInv, GeneratorInv, SortInv, GeneratorTypeOK
  <2>2. given \in Given(dfg) /\ ~HasLoop(dfg)
    BY <2>1, OrderedNoLoop DEF RunInv, Running
  <2>3. \A n \in Nodes(dfg) : ~IsOrigin(dfg, n) => Holds(n, Meaning(dfg, given)[n])
    <3> TAKE n \in Nodes(dfg)
    <3>1. PICK i \in 1 .. dfg.size : order[i] = n
      BY <2>1 DEF Ordered
    <3>2. i < at
      <4>1. at > dfg.size /\ dfg.size \in Nat /\ at \in Nat
        BY <2>1, PositionFacts DEF RunInv
      <4> QED BY <4>1
    <3> QED BY <2>1, <3>1, <3>2 DEF RunInv, Running
  <2>4. /\ dfg.outputs \cup dfg.flopD \cup dfg.internal \subseteq Nodes(dfg)
        /\ \A n \in dfg.outputs \cup dfg.flopD : ~IsOrigin(dfg, n)
    BY <2>1, GraphsWellFormed
  <2>5. \A n \in dfg.outputs : outs[n] = Meaning(dfg, given)[n]
    BY <2>3, <2>4 DEF Holds
  <2>6. \A n \in dfg.flopD : dslot[n] = Meaning(dfg, given)[n]
    BY <2>3, <2>4 DEF Holds
  <2>7. ASSUME dfg.observables, NEW n \in dfg.internal PROVE slot[n] = Meaning(dfg, given)[n]
    <3>1. CASE IsOrigin(dfg, n)
      <4>1. slot[n] = OriginValue(given, n)
        BY <2>1, <2>7, <3>1 DEF RunInv, Running
      <4> QED BY <2>1, <2>2, <2>4, <3>1, <4>1, OriginMeaning
    <3>2. CASE ~IsOrigin(dfg, n)
      BY <2>3, <2>4, <2>7, <3>2 DEF Holds
    <3> QED BY <3>1, <3>2
  <2> QED BY <2>5, <2>6, <2>7
<1> QED BY <1>1, EvaluatorInvariant, PTL

-----------------------------------------------------------------------------
(* The searches of the wrapper: the recursion and its memo.                *)

\* What the two recursive searches look for, and the third.
ReachesIn(kind, n) ==
    IF kind = "outputs" THEN Below(dfg, n) \cap dfg.data # {} ELSE \E o \in dfg.outputs : n \in Below(dfg, o)
\* What the current search asks of a node, and what the worklist asks.
Reaches(n) == ReachesIn(search, n)
DrivesLogic(s) == \E t \in Sinks(dfg) : s \in Below(dfg, t)

\* The calls of the recursion, and the nodes that have one.
Calls == [node : Nodes(dfg), left : SUBSET Nodes(dfg), reaches : BOOLEAN]
OnCalls(cs, n) == \E i \in 1 .. Len(cs) : cs[i].node = n

\* A call is of a neighbour of its caller; its answer is true for cause, and
\* while it is false no neighbour it has asked reaches a goal, but for the one
\* it is asking.
CallOK(cs, i) ==
    /\ cs[i].left \subseteq Neighbours(cs[i].node)
    /\ i < Len(cs) => /\ ~cs[i].reaches
                      /\ cs[i + 1].node \in Neighbours(cs[i].node)
    /\ cs[i].reaches => Reaches(cs[i].node)
    /\ ~cs[i].reaches =>
         /\ cs[i].node \notin Goals
         /\ \A m \in Neighbours(cs[i].node) \ cs[i].left :
              ~Reaches(m) \/ (i < Len(cs) /\ cs[i + 1].node = m)

\* The entries of the memo are right but for the calls in progress, which have
\* the `false' they were entered with.
MemoOK(cs, entries, true) ==
    /\ cs \in Seq(Calls)
    /\ entries \subseteq Nodes(dfg) /\ true \subseteq entries
    /\ \A i \in 1 .. Len(cs) : CallOK(cs, i) /\ cs[i].node \in entries \ true
    /\ \A n \in entries : OnCalls(cs, n) \/ (n \in true <=> Reaches(n))

\* What holds of the recursion in every state.
MemoInv == MemoOK(calls, asked, reaching)

\* Below a node is what its users lie below of, and a user of that.
LEMMA BelowUsers ==
    ASSUME NEW d \in Graphs, NEW n \in Nodes(d), NEW m \in Nodes(d)
    PROVE  m \in Below(d, n) <=> (m = n \/ \E u \in Users(d, m) : u \in Below(d, n))
<1>1. ASSUME m \in Below(d, n), m # n, \A u \in Users(d, m) : u \notin Below(d, n) PROVE FALSE
  <2> DEFINE C == Below(d, n) \ {m}
  <2>1. n \in C /\ C \in SUBSET Nodes(d)
    BY <1>1, BelowFacts
  <2>2. ReadClosed(d, C)
    <3> SUFFICES ASSUME NEW x \in C, NEW r \in Reads(d, x) PROVE r \in C
      BY DEF ReadClosed
    <3>1. x \in Nodes(d) /\ x \in Below(d, n)
      BY <2>1
    <3>2. r \in Below(d, n)
      BY <3>1, BelowFacts
    <3>3. r # m
      BY <1>1, <3>1 DEF Users
    <3> QED BY <3>2, <3>3
  <2>3. m \in C
    BY <1>1, <2>1, <2>2 DEF Below
  <2> QED BY <2>3
<1>2. ASSUME NEW u \in Users(d, m), u \in Below(d, n) PROVE m \in Below(d, n)
  BY <1>2, BelowFacts DEF Users
<1>3. n \in Below(d, n)
  BY BelowFacts
<1> QED BY <1>1, <1>2, <1>3

\* A node reaches a goal if it is one or a neighbour does.
LEMMA ReachesSteps ==
    ASSUME dfg \in Graphs, search \in {"outputs", "inputs"}, NEW n \in Nodes(dfg)
    PROVE  /\ Neighbours(n) \subseteq Nodes(dfg)
           /\ Reaches(n) <=> (n \in Goals \/ \E m \in Neighbours(n) : Reaches(m))
<1>1. CASE search = "outputs"
  <2>1. Goals = dfg.data /\ Neighbours(n) = Reads(dfg, n) /\ \A m : Reaches(m) <=> Below(dfg, m) \cap dfg.data # {}
    BY <1>1 DEF Goals, Neighbours, Reaches, ReachesIn
  <2>2. Reads(dfg, n) \subseteq Nodes(dfg)
    BY GraphFacts
  <2>3. /\ n \in Below(dfg, n) /\ \A m \in Reads(dfg, n) : Below(dfg, m) \subseteq Below(dfg, n)
        /\ \A m \in Below(dfg, n) : m = n \/ \E r \in Reads(dfg, n) : m \in Below(dfg, r)
    BY BelowFacts
  <2> QED BY <2>1, <2>2, <2>3
<1>2. CASE search = "inputs"
  <2>1. Goals = dfg.outputs /\ Neighbours(n) = Users(dfg, n) /\ \A m : Reaches(m) <=> \E o \in dfg.outputs : m \in Below(dfg, o)
    BY <1>2 DEF Goals, Neighbours, Reaches, ReachesIn
  <2>2. Users(dfg, n) \subseteq Nodes(dfg) /\ dfg.outputs \subseteq Nodes(dfg)
    BY GraphsWellFormed DEF Users
  <2>3. \A o \in dfg.outputs : n \in Below(dfg, o) <=> (n = o \/ \E u \in Users(dfg, n) : u \in Below(dfg, o))
    BY <2>2, BelowUsers
  <2> QED BY <2>1, <2>2, <2>3
<1> QED BY <1>1, <1>2

\* A graph without loops has no way back to a call in progress.
LEMMA NoReturn ==
    ASSUME dfg \in Graphs, ~HasLoop(dfg), search \in {"outputs", "inputs"},
           NEW cs, NEW entries, NEW true, MemoOK(cs, entries, true),
           NEW j \in 1 .. Len(cs), NEW i \in 1 .. j, NEW m \in Neighbours(cs[j].node)
    PROVE  m # cs[i].node
<1> SUFFICES ASSUME m = cs[i].node PROVE FALSE
  OBVIOUS
<1>1. Len(cs) \in Nat /\ \A k \in 1 .. Len(cs) : cs[k] \in Calls /\ CallOK(cs, k)
  <2>1. cs \in Seq(Calls)
    BY DEF MemoOK
  <2> QED BY <2>1, LenProperties, ElementOfSeq DEF MemoOK
<1>2. \A k \in 1 .. Len(cs) : cs[k].node \in Nodes(dfg)
  BY <1>1 DEF Calls
<1>3. \A k \in 1 .. Len(cs) : k < Len(cs) => cs[k + 1].node \in Neighbours(cs[k].node)
  BY <1>1 DEF CallOK
<1>4. i \in Nat \ {0} /\ j \in Nat /\ i <= j /\ j <= Len(cs)
  BY <1>1
<1> DEFINE C == {cs[k].node : k \in i .. j}
<1>5. C \in SUBSET Nodes(dfg) /\ C # {}
  <2>1. \A k \in i .. j : k \in 1 .. Len(cs)
    BY <1>1, <1>4
  <2>2. i \in i .. j
    BY <1>4
  <2> QED BY <1>2, <2>1, <2>2
<1>6. cs[i].node \in C /\ cs[j].node \in C
  BY <1>4
<1>7. \A x \in C : \E y \in C : y \in Reads(dfg, x)
  <2> SUFFICES ASSUME NEW k \in i .. j PROVE \E y \in C : y \in Reads(dfg, cs[k].node)
    OBVIOUS
  <2>1. CASE search = "outputs"
    <3>1. \A n : Neighbours(n) = Reads(dfg, n)
      BY <2>1 DEF Neighbours
    <3>2. CASE k = j
      BY <1>6, <3>1, <3>2
    <3>3. CASE k # j
      <4>1. k \in 1 .. Len(cs) /\ k < Len(cs) /\ k + 1 \in i .. j
        BY <1>1, <1>4, <3>3
      <4> QED BY <1>3, <3>1, <4>1
    <3> QED BY <3>2, <3>3
  <2>2. CASE search = "inputs"
    <3>1. \A n, x : x \in Neighbours(n) => n \in Reads(dfg, x)
      BY <2>2 DEF Neighbours, Users
    <3>2. CASE k = i
      BY <1>6, <3>1, <3>2
    <3>3. CASE k # i
      <4>1. k - 1 \in 1 .. Len(cs) /\ k - 1 < Len(cs) /\ k - 1 \in i .. j /\ (k - 1) + 1 = k
        BY <1>1, <1>4, <3>3
      <4>2. cs[k].node \in Neighbours(cs[k - 1].node)
        BY <1>3, <4>1
      <4> QED BY <3>1, <4>1, <4>2
    <3> QED BY <3>2, <3>3
  <2> QED BY <2>1, <2>2
<1>8. IsLoop(dfg, C)
  <2> HIDE DEF C
  <2> QED BY <1>5, <1>7 DEF IsLoop
<1> QED
  <2> HIDE DEF C
  <2> QED BY <1>5, <1>8 DEF HasLoop

\* A call as it is made.
LEMMA CallFacts ==
    ASSUME dfg \in Graphs, search \in {"outputs", "inputs"}, NEW n \in Nodes(dfg)
    PROVE  /\ Call(n) \in Calls /\ Call(n).node = n /\ Call(n).left = Neighbours(n)
           /\ Call(n).reaches => Reaches(n)
           /\ ~Call(n).reaches => n \notin Goals
<1>1. Neighbours(n) \subseteq Nodes(dfg) /\ (n \in Goals => Reaches(n))
  BY ReachesSteps
<1>2. Call(n).node = n /\ Call(n).left = Neighbours(n) /\ Call(n).reaches = (n \in Goals)
  BY DEF Call
<1>3. Call(n) \in Calls
  BY <1>1 DEF Call, Calls
<1> QED BY <1>1, <1>2, <1>3

\* The memo says nothing of the rest of a search.
LEMMA MemoUnchanged ==
    ASSUME dfg' = dfg, search' = search, MemoOK(calls', asked', reaching')
    PROVE  MemoInv'
BY DEF MemoInv, MemoOK, CallOK, Calls, Nodes, Neighbours, Goals, Reaches, ReachesIn, OnCalls

\* A root is asked.
LEMMA AskMemo ==
    ASSUME dfg \in Graphs, search \in {"outputs", "inputs"}, MemoInv,
           NEW n \in todo, n \in Nodes(dfg), Ask(n)
    PROVE  MemoInv'
<1>1. /\ calls = <<>> /\ n \notin asked /\ asked' = asked \cup {n} /\ calls' = <<Call(n)>>
      /\ dfg' = dfg /\ search' = search /\ reaching' = reaching
  BY DEF Ask
<1>2. /\ asked \subseteq Nodes(dfg) /\ reaching \subseteq asked
      /\ \A x \in asked : x \in reaching <=> Reaches(x)
  BY <1>1, EmptySeq DEF MemoInv, MemoOK, OnCalls
<1>3. calls' \in Seq(Calls) /\ Len(calls') = 1 /\ calls'[1] = Call(n)
  BY <1>1, CallFacts
<1>4. CallOK(calls', 1)
  BY <1>3, CallFacts DEF CallOK
<1>5. OnCalls(calls', n)
  BY <1>3, CallFacts DEF OnCalls
<1>6. \A i \in 1 .. Len(calls') : CallOK(calls', i) /\ calls'[i].node \in asked' \ reaching'
  BY <1>1, <1>2, <1>3, <1>4, CallFacts
<1>7. MemoOK(calls', asked', reaching')
  BY <1>1, <1>2, <1>3, <1>5, <1>6 DEF MemoOK
<1> QED BY <1>1, <1>7, MemoUnchanged

\* The call in progress, and those that wait for it.
LEMMA LastFacts ==
    ASSUME MemoInv, calls # <<>>
    PROVE  /\ calls \in Seq(Calls) /\ Len(calls) \in Nat \ {0}
           /\ \A i \in 1 .. Len(calls) : /\ calls[i] \in Calls /\ calls[i].node \in Nodes(dfg)
                                         /\ calls[i].reaches \in BOOLEAN
                                         /\ CallOK(calls, i) /\ calls[i].node \in asked \ reaching
           /\ Last = calls[Len(calls)]
<1>1. calls \in Seq(Calls)
  BY DEF MemoInv, MemoOK
<1>2. Len(calls) \in Nat \ {0}
  BY <1>1, EmptySeq, LenProperties
<1>3. \A i \in 1 .. Len(calls) : calls[i] \in Calls
  BY <1>1, ElementOfSeq
<1>4. \A i \in 1 .. Len(calls) : calls[i].node \in Nodes(dfg) /\ calls[i].reaches \in BOOLEAN
  BY <1>3 DEF Calls
<1> QED BY <1>1, <1>2, <1>3, <1>4 DEF MemoInv, MemoOK, Last

\* An element of a sequence of calls replaced.
LEMMA CallExcept ==
    ASSUME NEW cs \in Seq(Calls), NEW l \in 1 .. Len(cs), NEW c \in Calls
    PROVE  /\ [cs EXCEPT ![l] = c] \in Seq(Calls) /\ Len([cs EXCEPT ![l] = c]) = Len(cs)
           /\ [cs EXCEPT ![l] = c][l] = c
           /\ \A i \in 1 .. Len(cs) : i # l => [cs EXCEPT ![l] = c][i] = cs[i]
BY ExceptSeq, LenProperties

\* The memo answers for a neighbour.
LEMMA RememberedMemo ==
    ASSUME dfg \in Graphs, ~HasLoop(dfg), search \in {"outputs", "inputs"}, MemoInv,
           calls # <<>>, NEW n \in Last.left, AskNeighbour(n), n \in asked
    PROVE  MemoInv'
<1>1. PICK r : r = (n \in reaching)
  OBVIOUS
<1>2. r \in BOOLEAN
  BY <1>1
<1> DEFINE L == Len(calls)
           c == calls[L]
           e == [node |-> c.node, left |-> c.left \ {n}, reaches |-> r]
<1>3. /\ calls \in Seq(Calls) /\ L \in Nat \ {0}
      /\ \A i \in 1 .. L : /\ calls[i] \in Calls /\ calls[i].node \in Nodes(dfg)
                           /\ CallOK(calls, i) /\ calls[i].node \in asked \ reaching
      /\ Last = c
  BY LastFacts
<1>4. L \in 1 .. L
  BY <1>3
<1>5. c \in Calls /\ c.node \in Nodes(dfg) /\ CallOK(calls, L)
  BY <1>3, <1>4
<1>6. /\ ~c.reaches /\ asked' = asked /\ reaching' = reaching /\ dfg' = dfg /\ search' = search
      /\ calls' = [[calls EXCEPT ![L].left = @ \ {n}] EXCEPT ![L].reaches = r]
  BY <1>1, <1>3 DEF AskNeighbour
<1>7. calls' = [calls EXCEPT ![L] = e]
  <2> DEFINE left == c.left \ {n}
             f == [node |-> c.node, left |-> left, reaches |-> c.reaches]
             x == [calls EXCEPT ![L] = f]
  <2>1. calls' = [[calls EXCEPT ![L].left = left] EXCEPT ![L].reaches = r]
    BY <1>6
  <2>2. c = [node |-> c.node, left |-> c.left, reaches |-> c.reaches]
    BY <1>5 DEF Calls
  <2>3. DOMAIN calls = 1 .. L
    BY <1>3, LenProperties
  <2> HIDE DEF left, L, e
  <2>4. [c EXCEPT !.left = left] = f
    <3> HIDE DEF c
    <3> QED BY <2>2
  <2>5. [calls EXCEPT ![L].left = left] = x
    <3>1. [calls EXCEPT ![L].left = left] = [calls EXCEPT ![L] = [c EXCEPT !.left = left]]
      OBVIOUS
    <3> HIDE DEF f
    <3> QED BY <2>4, <3>1
  <2>6. [f EXCEPT !.reaches = r] = e
    <3>1. e = [node |-> c.node, left |-> left, reaches |-> r]
      BY DEF e, left
    <3> HIDE DEF c
    <3>2. [[node |-> c.node, left |-> left, reaches |-> c.reaches] EXCEPT !.reaches = r]
            = [node |-> c.node, left |-> left, reaches |-> r]
      OBVIOUS
    <3> QED BY <3>1, <3>2
  <2>7. x[L] = f
    BY <1>4, <2>3
  <2> HIDE DEF f
  <2>8. [x EXCEPT ![L].reaches = r] = [x EXCEPT ![L] = e]
    <3> HIDE DEF x
    <3> QED BY <2>6, <2>7
  <2>9. [x EXCEPT ![L] = e] = [calls EXCEPT ![L] = e]
    OBVIOUS
  <2>10. calls' = [x EXCEPT ![L].reaches = r]
    <3> HIDE DEF x
    <3> QED BY <2>1, <2>5
  <2> QED BY <2>8, <2>9, <2>10
<1>8. e \in Calls
  BY <1>5, <1>2 DEF Calls
<1>9. n \in Neighbours(c.node) /\ c.left \subseteq Neighbours(c.node)
  BY <1>3, <1>5 DEF CallOK
<1> HIDE DEF L
<1>10. /\ calls' \in Seq(Calls) /\ Len(calls') = L /\ calls'[L] = e
       /\ \A i \in 1 .. L : i # L => calls'[i] = calls[i]
  <2> HIDE DEF e
  <2> QED BY <1>3, <1>4, <1>7, <1>8, CallExcept DEF L
<1>11. n \in reaching <=> Reaches(n)
  <2>1. ~OnCalls(calls, n)
    <3>1. \A i \in 1 .. L : calls[i].node # n
      BY <1>3, <1>4, <1>9, NoReturn DEF MemoInv, L
    <3> QED BY <3>1 DEF OnCalls, L
  <2> QED BY <2>1 DEF MemoInv, MemoOK
<1>12. e.node = c.node /\ e.left = c.left \ {n} /\ e.reaches = (n \in reaching)
  BY <1>1
<1> HIDE DEF c, e
<1>13. CallOK(calls', L)
  <2>1. e.left \subseteq Neighbours(e.node)
    BY <1>9, <1>12
  <2>2. e.reaches => Reaches(e.node)
    BY <1>5, <1>9, <1>11, <1>12, ReachesSteps
  <2>3. ~(L < L)
    BY <1>3
  <2>4. c.node \notin Goals /\ \A m \in Neighbours(c.node) \ c.left : ~Reaches(m)
    BY <1>5, <1>6, <2>3 DEF CallOK, c, L
  <2>5. ~e.reaches => e.node \notin Goals /\ \A m \in Neighbours(e.node) \ e.left : ~Reaches(m)
    BY <1>11, <1>12, <2>4
  <2> QED BY <1>10, <2>1, <2>2, <2>3, <2>5 DEF CallOK
<1>14. \A i \in 1 .. L : calls'[i].node = calls[i].node
  BY <1>10, <1>12 DEF c
<1>15. ASSUME NEW i \in 1 .. L, i # L PROVE CallOK(calls', i)
  <2>1. calls'[i] = calls[i] /\ i + 1 \in 1 .. L
    BY <1>3, <1>10, <1>15
  <2>2. calls'[i + 1].node = calls[i + 1].node
    BY <1>14, <2>1
  <2>3. CallOK(calls, i)
    BY <1>3
  <2> QED BY <1>10, <2>1, <2>2, <2>3 DEF CallOK, L
<1>16. \A i \in 1 .. Len(calls') : CallOK(calls', i) /\ calls'[i].node \in asked' \ reaching'
  BY <1>3, <1>6, <1>10, <1>13, <1>14, <1>15
<1>17. \A x : OnCalls(calls', x) <=> OnCalls(calls, x)
  BY <1>10, <1>14 DEF OnCalls, L
<1>18. MemoOK(calls', asked', reaching')
  BY <1>6, <1>10, <1>16, <1>17 DEF MemoInv, MemoOK
<1> QED BY <1>6, <1>18, MemoUnchanged

\* A neighbour without an entry is asked.
LEMMA CalledMemo ==
    ASSUME dfg \in Graphs, ~HasLoop(dfg), search \in {"outputs", "inputs"}, MemoInv,
           calls # <<>>, NEW n \in Last.left, AskNeighbour(n), n \notin asked
    PROVE  MemoInv'
<1> DEFINE L == Len(calls)
           c == calls[L]
           e == [node |-> c.node, left |-> c.left \ {n}, reaches |-> c.reaches]
           asking == [calls EXCEPT ![L] = e]
<1>1. /\ calls \in Seq(Calls) /\ L \in Nat \ {0}
      /\ \A i \in 1 .. L : /\ calls[i] \in Calls /\ calls[i].node \in Nodes(dfg)
                           /\ CallOK(calls, i) /\ calls[i].node \in asked \ reaching
      /\ Last = c
  BY LastFacts
<1>2. L \in 1 .. L
  BY <1>1
<1>3. c \in Calls /\ c.node \in Nodes(dfg) /\ CallOK(calls, L)
  BY <1>1, <1>2
<1>4. /\ ~c.reaches /\ asked' = asked \cup {n} /\ reaching' = reaching /\ dfg' = dfg /\ search' = search
      /\ calls' = Append([calls EXCEPT ![L].left = @ \ {n}], Call(n))
  BY <1>1 DEF AskNeighbour
<1>5. calls' = Append(asking, Call(n))
  <2>1. c = [node |-> c.node, left |-> c.left, reaches |-> c.reaches]
    BY <1>3 DEF Calls
  <2>2. DOMAIN calls = 1 .. L
    BY <1>1, LenProperties
  <2>3. asking = [calls EXCEPT ![L].left = @ \ {n}]
    BY <1>2, <2>1, <2>2
  <2> QED BY <1>4, <2>3
<1>6. e \in Calls
  BY <1>3 DEF Calls
<1>7. n \in Neighbours(c.node) /\ c.left \subseteq Neighbours(c.node) /\ n \in Nodes(dfg)
  BY <1>1, <1>3, ReachesSteps DEF CallOK
<1> HIDE DEF L
<1>8. /\ asking \in Seq(Calls) /\ Len(asking) = L /\ asking[L] = e
      /\ \A i \in 1 .. L : i # L => asking[i] = calls[i]
  <2> HIDE DEF e
  <2> QED BY <1>1, <1>2, <1>6, CallExcept DEF L
<1> HIDE DEF asking
<1>9. /\ calls' \in Seq(Calls) /\ Len(calls') = L + 1 /\ calls'[L] = e /\ calls'[L + 1] = Call(n)
      /\ \A i \in 1 .. L : i # L => calls'[i] = calls[i]
  <2>1. Call(n) \in Calls
    BY <1>7, CallFacts
  <2>2. /\ Append(asking, Call(n)) \in Seq(Calls) /\ Len(Append(asking, Call(n))) = L + 1
        /\ (\A i \in 1 .. L : Append(asking, Call(n))[i] = asking[i])
        /\ Append(asking, Call(n))[L + 1] = Call(n)
    BY <1>8, <2>1, AppendProperties
  <2> QED BY <1>2, <1>5, <1>8, <2>2
<1>10. e.node = c.node /\ e.left = c.left \ {n} /\ e.reaches = c.reaches
  OBVIOUS
<1> HIDE DEF c, e
<1>11. CallOK(calls', L)
  <2>1. ~(L < L) /\ L < L + 1
    BY <1>1
  <2>2. c.node \notin Goals /\ \A m \in Neighbours(c.node) \ c.left : ~Reaches(m)
    BY <1>3, <1>4, <2>1 DEF CallOK, c, L
  <2>3. calls'[L + 1].node = n
    BY <1>7, <1>9, CallFacts
  <2> QED BY <1>4, <1>7, <1>9, <1>10, <2>1, <2>2, <2>3 DEF CallOK
<1>12. CallOK(calls', L + 1)
  <2>1. ~(L + 1 < L + 1)
    BY <1>1
  <2> QED BY <1>7, <1>9, <2>1, CallFacts DEF CallOK
<1>13. \A i \in 1 .. L : calls'[i].node = calls[i].node
  BY <1>9, <1>10 DEF c
<1>14. ASSUME NEW i \in 1 .. L, i # L PROVE CallOK(calls', i)
  <2>1. calls'[i] = calls[i] /\ i + 1 \in 1 .. L /\ i < L /\ i < L + 1
    BY <1>1, <1>9, <1>14
  <2>2. calls'[i + 1].node = calls[i + 1].node
    BY <1>13, <2>1
  <2>3. CallOK(calls, i)
    BY <1>1
  <2> QED BY <1>9, <2>1, <2>2, <2>3 DEF CallOK, L
<1>15. \A i \in 1 .. L + 1 : i \in 1 .. L \/ i = L + 1
  BY <1>1
<1>16. calls'[L + 1].node = n
  BY <1>7, <1>9, CallFacts
<1>17. asked \subseteq Nodes(dfg) /\ reaching \subseteq asked
  BY DEF MemoInv, MemoOK
<1>18. \A i \in 1 .. Len(calls') : CallOK(calls', i) /\ calls'[i].node \in asked' \ reaching'
  <2> TAKE i \in 1 .. Len(calls')
  <2>1. CASE i \in 1 .. L
    BY <1>1, <1>4, <1>11, <1>13, <1>14, <2>1
  <2>2. CASE i = L + 1
    BY <1>4, <1>12, <1>16, <1>17, <2>2
  <2> QED BY <1>9, <1>15, <2>1, <2>2
<1>19. \A x : OnCalls(calls, x) => OnCalls(calls', x)
  <2>1. \A i \in 1 .. L : i \in 1 .. L + 1
    BY <1>1
  <2> QED BY <1>9, <1>13, <2>1 DEF OnCalls, L
<1>20. OnCalls(calls', n)
  <2>1. L + 1 \in 1 .. Len(calls')
    BY <1>1, <1>9
  <2> QED BY <1>16, <2>1 DEF OnCalls
<1>21. MemoOK(calls', asked', reaching')
  BY <1>4, <1>7, <1>9, <1>17, <1>18, <1>19, <1>20 DEF MemoInv, MemoOK
<1> QED BY <1>4, <1>21, MemoUnchanged

\* No node is on the calls twice.
LEMMA CallsDistinct ==
    ASSUME dfg \in Graphs, ~HasLoop(dfg), search \in {"outputs", "inputs"}, MemoInv, calls # <<>>,
           NEW i \in 1 .. Len(calls), i < Len(calls)
    PROVE  calls[i].node # Last.node
<1> DEFINE L == Len(calls)
<1>1. L \in Nat \ {0} /\ Last = calls[L] /\ \A k \in 1 .. L : CallOK(calls, k)
  BY LastFacts
<1>2. L - 1 \in 1 .. L /\ i \in 1 .. L - 1 /\ L - 1 < L /\ (L - 1) + 1 = L
  BY <1>1
<1>3. calls[L].node \in Neighbours(calls[L - 1].node)
  BY <1>1, <1>2 DEF CallOK
<1> QED BY <1>1, <1>2, <1>3, NoReturn DEF MemoInv

\* An answer is entered in the memo and passed to the caller.
LEMMA AnswerMemo ==
    ASSUME dfg \in Graphs, ~HasLoop(dfg), search \in {"outputs", "inputs"}, MemoInv, Answer
    PROVE  MemoInv'
<1> DEFINE L == Len(calls)
           c == calls[L]
           callers == SubSeq(calls, 1, L - 1)
<1>1. /\ calls # <<>> /\ (Last.reaches \/ Last.left = {})
      /\ reaching' = (IF Last.reaches THEN reaching \cup {Last.node} ELSE reaching)
      /\ calls' = IF callers = <<>> THEN callers
                  ELSE [callers EXCEPT ![Len(callers)].reaches = @ \/ Last.reaches]
      /\ asked' = asked /\ dfg' = dfg /\ search' = search
  BY DEF Answer
<1>2. /\ calls \in Seq(Calls) /\ L \in Nat \ {0}
      /\ \A i \in 1 .. L : /\ calls[i] \in Calls /\ calls[i].node \in Nodes(dfg)
                           /\ calls[i].reaches \in BOOLEAN
                           /\ CallOK(calls, i) /\ calls[i].node \in asked \ reaching
      /\ Last = c
  BY <1>1, LastFacts
<1>3. L \in 1 .. L /\ L - 1 \in Nat
  BY <1>2
<1>4. c \in Calls /\ c.node \in Nodes(dfg) /\ CallOK(calls, L) /\ c.node \in asked \ reaching /\ c.reaches \in BOOLEAN
  BY <1>2, <1>3
<1>5. c.reaches <=> Reaches(c.node)
  <2>1. ~(L < L)
    BY <1>2
  <2>2. CASE c.reaches
    BY <1>4, <2>2 DEF CallOK
  <2>3. CASE ~c.reaches
    <3>1. c.left = {}
      BY <1>1, <1>2, <2>3
    <3>2. c.node \notin Goals /\ \A m \in Neighbours(c.node) : ~Reaches(m)
      BY <1>4, <2>1, <2>3, <3>1 DEF CallOK
    <3> QED BY <1>4, <2>3, <3>2, ReachesSteps
  <2> QED BY <2>2, <2>3
<1>6. \A i \in 1 .. L - 1 : i \in 1 .. L /\ i < L /\ calls[i].node # c.node
  <2> TAKE i \in 1 .. L - 1
  <2>1. i \in 1 .. L /\ i < L
    BY <1>2
  <2> QED BY <1>1, <1>2, <2>1, CallsDistinct
<1>7. /\ callers \in Seq(Calls) /\ Len(callers) = L - 1
      /\ \A i \in 1 .. L - 1 : callers[i] = calls[i]
  <2> DEFINE l == L - 1
  <2>1. l \in Nat /\ \A i \in 1 .. l : calls[i] \in Calls
    BY <1>2, <1>3, <1>6
  <2> HIDE DEF l
  <2>2. /\ SubSeq(calls, 1, l) \in Seq(Calls) /\ Len(SubSeq(calls, 1, l)) = (IF 1 <= l THEN l - 1 + 1 ELSE 0)
        /\ \A i \in 1 .. l - 1 + 1 : SubSeq(calls, 1, l)[i] = calls[1 + i - 1]
    BY <2>1, SubSeqProperties
  <2>3. /\ SubSeq(calls, 1, l) \in Seq(Calls) /\ Len(SubSeq(calls, 1, l)) = l
        /\ \A i \in 1 .. l : SubSeq(calls, 1, l)[i] = calls[i]
    BY <2>1, <2>2
  <2> QED BY <2>3 DEF l
<1> HIDE DEF callers
<1>8. callers = <<>> <=> L = 1
  <2>1. callers = <<>> <=> Len(callers) = 0
    BY <1>7, EmptySeq
  <2> QED BY <1>2, <1>7, <2>1
<1>9. \A l \in Nat \ {0} : l # 1 => (l - 1 \in 1 .. l - 1 /\ l - 1 \in 1 .. l /\ l - 1 < l /\ (l - 1) + 1 = l)
  OBVIOUS
<1> DEFINE b == calls[L - 1]
           e == [node |-> b.node, left |-> b.left, reaches |-> c.reaches]
<1>10. L # 1 => /\ L - 1 \in 1 .. L - 1 /\ L - 1 \in 1 .. L
                /\ b \in Calls /\ b.node \in Nodes(dfg) /\ ~b.reaches /\ e \in Calls
                /\ CallOK(calls, L - 1) /\ c.node \in Neighbours(b.node)
  <2> SUFFICES ASSUME L # 1
               PROVE  /\ L - 1 \in 1 .. L - 1 /\ L - 1 \in 1 .. L
                      /\ b \in Calls /\ b.node \in Nodes(dfg) /\ ~b.reaches /\ e \in Calls
                      /\ CallOK(calls, L - 1) /\ c.node \in Neighbours(b.node)
    OBVIOUS
  <2>1. L - 1 \in 1 .. L - 1 /\ L - 1 \in 1 .. L /\ L - 1 < L /\ (L - 1) + 1 = L
    BY <1>2, <1>9
  <2>2. b \in Calls /\ b.node \in Nodes(dfg) /\ CallOK(calls, L - 1)
    BY <1>2, <2>1
  <2>3. ~b.reaches /\ c.node \in Neighbours(b.node)
    BY <2>1, <2>2 DEF CallOK
  <2>4. e \in Calls
    BY <1>4, <2>2 DEF Calls
  <2> QED BY <2>1, <2>2, <2>3, <2>4
<1>11. L # 1 => calls' = [callers EXCEPT ![L - 1] = e]
  <2> SUFFICES ASSUME L # 1 PROVE calls' = [callers EXCEPT ![L - 1] = e]
    OBVIOUS
  <2>1. b = [node |-> b.node, left |-> b.left, reaches |-> b.reaches]
    BY <1>10 DEF Calls
  <2>2. DOMAIN callers = 1 .. L - 1 /\ callers[L - 1] = b
    BY <1>7, <1>10, LenProperties
  <2>3. calls' = [callers EXCEPT ![L - 1].reaches = @ \/ c.reaches]
    BY <1>1, <1>2, <1>7, <1>8
  <2>4. (b.reaches \/ c.reaches) = c.reaches
    BY <1>4, <1>10
  <2>5. calls' = [callers EXCEPT ![L - 1] = [b EXCEPT !.reaches = (b.reaches \/ c.reaches)]]
    <3> HIDE DEF b, c, L
    <3> QED BY <1>10, <2>2, <2>3
  <2>6. [b EXCEPT !.reaches = c.reaches] = e
    BY <2>1
  <2> HIDE DEF e, b, c, L
  <2> QED BY <2>4, <2>5, <2>6
<1>12. e.node = b.node /\ e.left = b.left /\ e.reaches = c.reaches
  OBVIOUS
<1> HIDE DEF L, e
<1>13. /\ calls' \in Seq(Calls) /\ Len(calls') = L - 1
       /\ L # 1 => calls'[L - 1] = e
       /\ \A i \in 1 .. L - 1 : i # L - 1 => calls'[i] = calls[i]
  <2>1. CASE L = 1
    <3>1. calls' = callers
      BY <1>1, <1>8, <2>1
    <3> QED BY <1>7, <2>1, <3>1
  <2>2. CASE L # 1
    <3>1. L - 1 \in 1 .. Len(callers) /\ e \in Calls
      BY <1>7, <1>10, <2>2
    <3>2. /\ [callers EXCEPT ![L - 1] = e] \in Seq(Calls) /\ Len([callers EXCEPT ![L - 1] = e]) = Len(callers)
          /\ [callers EXCEPT ![L - 1] = e][L - 1] = e
          /\ \A i \in 1 .. Len(callers) : i # L - 1 => [callers EXCEPT ![L - 1] = e][i] = callers[i]
      BY <1>7, <3>1, CallExcept
    <3> QED BY <1>7, <1>11, <2>2, <3>2
  <2> QED BY <2>1, <2>2
<1> HIDE DEF b, c
<1>14. \A i \in 1 .. L - 1 : calls'[i].node = calls[i].node
  BY <1>6, <1>12, <1>13 DEF b
<1>15. ASSUME L # 1 PROVE CallOK(calls', L - 1)
  <2>1. ~(L - 1 < L - 1) /\ L - 1 < L /\ (L - 1) + 1 = L
    BY <1>2
  <2>2. /\ b.left \subseteq Neighbours(b.node) /\ b.node \notin Goals
        /\ \A m \in Neighbours(b.node) \ b.left : ~Reaches(m) \/ m = c.node
    BY <1>10, <1>15, <2>1 DEF CallOK, b, c
  <2>3. e.reaches => Reaches(e.node)
    BY <1>5, <1>10, <1>12, <1>15, ReachesSteps
  <2>4. ~e.reaches => \A m \in Neighbours(e.node) \ e.left : ~Reaches(m)
    BY <1>5, <1>12, <2>2
  <2> QED BY <1>12, <1>13, <1>15, <2>1, <2>2, <2>3, <2>4 DEF CallOK
<1>16. ASSUME NEW i \in 1 .. L - 1, i # L - 1 PROVE CallOK(calls', i)
  <2>1. calls'[i] = calls[i] /\ i + 1 \in 1 .. L - 1 /\ i < L - 1 /\ i < L /\ i \in 1 .. L
    BY <1>2, <1>13, <1>16
  <2>2. calls'[i + 1].node = calls[i + 1].node
    BY <1>14, <2>1
  <2>3. CallOK(calls, i)
    BY <1>2, <2>1
  <2> QED BY <1>13, <2>1, <2>2, <2>3 DEF CallOK, L
<1>17. \A i \in 1 .. Len(calls') : CallOK(calls', i) /\ calls'[i].node \in asked' \ reaching'
  <2> TAKE i \in 1 .. Len(calls')
  <2>1. i \in 1 .. L - 1 /\ L # 1
    BY <1>2, <1>13
  <2>2. calls'[i].node \in asked \ reaching /\ calls'[i].node # c.node
    BY <1>2, <1>6, <1>14, <2>1
  <2>3. CallOK(calls', i)
    BY <1>15, <1>16, <2>1
  <2> QED BY <1>1, <1>2, <2>2, <2>3
<1>18. /\ asked \subseteq Nodes(dfg) /\ reaching \subseteq asked
       /\ \A x \in asked : OnCalls(calls, x) \/ (x \in reaching <=> Reaches(x))
  BY DEF MemoInv, MemoOK
<1>19. reaching' \subseteq asked'
  BY <1>1, <1>2, <1>4, <1>18
<1>20. ASSUME NEW x \in asked PROVE OnCalls(calls', x) \/ (x \in reaching' <=> Reaches(x))
  <2>1. CASE x = c.node
    BY <1>1, <1>2, <1>4, <1>5, <2>1
  <2>2. CASE x # c.node
    <3>1. x \in reaching' <=> x \in reaching
      BY <1>1, <1>2, <2>2
    <3>2. CASE OnCalls(calls, x)
      <4>1. PICK i \in 1 .. L : calls[i].node = x
        BY <3>2 DEF OnCalls, L
      <4>2. i \in 1 .. L - 1
        BY <1>2, <2>2, <4>1 DEF c
      <4> QED BY <1>13, <1>14, <4>1, <4>2 DEF OnCalls
    <3> QED BY <1>18, <3>1, <3>2
  <2> QED BY <2>1, <2>2
<1>21. MemoOK(calls', asked', reaching')
  BY <1>1, <1>13, <1>17, <1>18, <1>19, <1>20 DEF MemoOK
<1> QED BY <1>1, <1>21, MemoUnchanged

-----------------------------------------------------------------------------
(* The searches of the wrapper: the worklist, and the answers.             *)

\* The source is no longer to be done.  The worklist holds nodes that lie above
\* it, what it has taken is no sink, and the users of that are taken or on the
\* worklist.
WorkInv ==
    /\ source = NoSource => work = {}
    /\ source # NoSource =>
         /\ search = "edges" /\ source \in dfg.edges \ todo
         /\ source \in work \cup seen
         /\ \A n \in work \cup seen : n \in Nodes(dfg) /\ source \in Below(dfg, n)
         /\ \A n \in seen : Users(dfg, n) \subseteq work \cup seen /\ n \notin Sinks(dfg)

\* The nodes a search has to answer for.
Roots == CASE search = "outputs" -> dfg.outputs [] search = "inputs" -> dfg.data
           [] search = "edges" -> dfg.edges [] search = "done" -> {}
\* the outputs, data inputs, and clocks and resets that have their answer
AnsweredOutputs == IF search = "outputs" THEN dfg.outputs \ todo ELSE dfg.outputs
AnsweredData == CASE search = "outputs" -> {} [] search = "inputs" -> dfg.data \ todo [] OTHER -> dfg.data
AnsweredEdges == IF search \in {"outputs", "inputs"} THEN {} ELSE dfg.edges \ (todo \cup {source})

\* The answers so far are exact.
AnswersInv ==
    /\ combOutputs = {o \in AnsweredOutputs : ReachesIn("outputs", o)}
    /\ conePorts = {dfg.port[x] : x \in {y \in AnsweredData : ReachesIn("inputs", y)}}
    /\ drivesLogic = {s \in AnsweredEdges : DrivesLogic(s)}

\* What holds of the searches in every state.
ConeInv ==
    /\ search \in Searches /\ todo \subseteq Roots
    /\ calls # <<>> => todo # {}
    /\ search \notin {"outputs", "inputs"} => calls = <<>> /\ asked = {}
    /\ MemoInv /\ WorkInv /\ AnswersInv

\* Roots are nodes; clocks and resets are no sinks.
LEMMA RootFacts ==
    ASSUME dfg \in Graphs
    PROVE  /\ dfg.outputs \subseteq Nodes(dfg) /\ dfg.data \subseteq Inputs(dfg) /\ dfg.edges \subseteq Inputs(dfg)
           /\ dfg.data \subseteq Nodes(dfg) /\ dfg.edges \subseteq Nodes(dfg) /\ Sinks(dfg) \subseteq Nodes(dfg)
           /\ \A s \in dfg.edges : s \notin Sinks(dfg)
           /\ NoSource \notin Nodes(dfg)
<1>1. /\ dfg.data \cup dfg.edges \subseteq Inputs(dfg)
      /\ dfg.outputs \cup dfg.flopD \subseteq Nodes(dfg)
      /\ \A n \in dfg.outputs \cup dfg.flopD : ~IsOrigin(dfg, n)
  BY GraphsWellFormed
<1>2. \A n \in Inputs(dfg) : n \in Nodes(dfg) /\ IsOrigin(dfg, n)
  BY DEF Inputs, IsOrigin, Origins
<1>3. NoSource \notin Nodes(dfg)
  BY GraphFacts DEF NoSource, Nodes
<1> QED BY <1>1, <1>2, <1>3 DEF Sinks

\* The answers of a search that goes on.
LEMMA AnswersUnchanged ==
    ASSUME AnswersInv, UNCHANGED <<dfg, search, todo, source, answers>>
    PROVE  AnswersInv'
BY DEF AnswersInv, answers, AnsweredOutputs, AnsweredData, AnsweredEdges, ReachesIn, DrivesLogic

\* A step of the recursion.
LEMMA RecursionStep ==
    ASSUME dfg \in Graphs, ~HasLoop(dfg), ConeInv,
           \/ search \in {"outputs", "inputs"} /\ \E n \in todo : Ask(n)
           \/ calls # <<>> /\ \E n \in Last.left : AskNeighbour(n)
           \/ Answer
    PROVE  ConeInv'
<1>1. /\ UNCHANGED <<dfg, search, todo, worklist, answers>>
      /\ search \in {"outputs", "inputs"}
      /\ todo # {}
  BY DEF Ask, AskNeighbour, Answer, ConeInv
<1>2. MemoInv'
  <2>1. CASE \E n \in todo : Ask(n)
    <3>1. todo \subseteq Nodes(dfg)
      BY <1>1, RootFacts DEF ConeInv, Roots
    <3> QED BY <1>1, <2>1, <3>1, AskMemo DEF ConeInv
  <2>2. CASE calls # <<>> /\ \E n \in Last.left : AskNeighbour(n)
    BY <1>1, <2>2, RememberedMemo, CalledMemo DEF ConeInv
  <2>3. CASE Answer
    BY <1>1, <2>3, AnswerMemo DEF ConeInv
  <2> QED BY <2>1, <2>2, <2>3
<1>3. WorkInv'
  BY <1>1 DEF ConeInv, WorkInv, worklist
<1>4. AnswersInv'
  BY <1>1, AnswersUnchanged DEF ConeInv, worklist
<1>5. search' \in Searches /\ todo' \subseteq Roots' /\ todo' # {} /\ search' \in {"outputs", "inputs"}
  BY <1>1 DEF ConeInv, Roots
<1> QED BY <1>2, <1>3, <1>4, <1>5 DEF ConeInv

\* The answer for a root is noted.
LEMMA NoteStep ==
    ASSUME dfg \in Graphs, ConeInv, NEW n \in todo, Note(n)
    PROVE  ConeInv'
<1>1. /\ UNCHANGED <<dfg, search, recursion, worklist, drivesLogic>>
      /\ search \in {"outputs", "inputs"} /\ calls = <<>> /\ n \in asked /\ todo' = todo \ {n}
      /\ combOutputs' = IF search = "outputs" /\ n \in reaching THEN combOutputs \cup {n} ELSE combOutputs
      /\ conePorts' = IF search = "inputs" /\ n \in reaching THEN conePorts \cup {dfg.port[n]} ELSE conePorts
  BY DEF Note
<1>2. n \in reaching <=> ReachesIn(search, n)
  <2>1. ~OnCalls(calls, n)
    BY <1>1, EmptySeq DEF OnCalls
  <2> QED BY <1>1, <2>1 DEF ConeInv, MemoInv, MemoOK, Reaches
<1>3. todo \subseteq Roots /\ AnswersInv
  BY DEF ConeInv
<1>4. \A x : /\ ReachesIn("outputs", x)' <=> ReachesIn("outputs", x)
             /\ ReachesIn("inputs", x)' <=> ReachesIn("inputs", x)
             /\ DrivesLogic(x)' <=> DrivesLogic(x)
  BY <1>1 DEF ReachesIn, DrivesLogic
<1>5. combOutputs' = {o \in AnsweredOutputs' : ReachesIn("outputs", o)}
  <2>1. CASE search = "outputs"
    <3>1. n \in dfg.outputs /\ AnsweredOutputs = dfg.outputs \ todo /\ AnsweredOutputs' = dfg.outputs \ (todo \ {n})
      BY <1>1, <1>3, <2>1 DEF Roots, AnsweredOutputs
    <3> QED BY <1>1, <1>2, <1>3, <2>1, <3>1 DEF AnswersInv
  <2>2. CASE search # "outputs"
    BY <1>1, <1>3, <2>2 DEF AnswersInv, AnsweredOutputs
  <2> QED BY <2>1, <2>2
<1>6. conePorts' = {dfg.port[x] : x \in {y \in AnsweredData' : ReachesIn("inputs", y)}}
  <2>1. CASE search = "inputs"
    <3>1. n \in dfg.data /\ AnsweredData = dfg.data \ todo /\ AnsweredData' = dfg.data \ (todo \ {n})
      BY <1>1, <1>3, <2>1 DEF Roots, AnsweredData
    <3>2. AnsweredData' = AnsweredData \cup {n}
      BY <3>1
    <3>3. n \in reaching <=> ReachesIn("inputs", n)
      BY <1>2, <2>1
    <3>4. {y \in AnsweredData' : ReachesIn("inputs", y)}
            = IF n \in reaching THEN {y \in AnsweredData : ReachesIn("inputs", y)} \cup {n}
              ELSE {y \in AnsweredData : ReachesIn("inputs", y)}
      BY <3>2, <3>3
    <3> DEFINE A == {y \in AnsweredData : ReachesIn("inputs", y)}
               B == {y \in AnsweredData' : ReachesIn("inputs", y)}
    <3>5. conePorts = {dfg.port[x] : x \in A}
      BY <1>3 DEF AnswersInv
    <3> HIDE DEF A, B
    <3>6. B = IF n \in reaching THEN A \cup {n} ELSE A
      BY <3>4 DEF A, B
    <3>7. conePorts' = IF n \in reaching THEN conePorts \cup {dfg.port[n]} ELSE conePorts
      BY <1>1, <2>1
    <3>8. conePorts' = {dfg.port[x] : x \in B}
      BY <3>5, <3>6, <3>7
    <3> QED BY <3>8 DEF B
  <2>2. CASE search # "inputs"
    <3>1. AnsweredData' = AnsweredData
      BY <1>1, <2>2 DEF AnsweredData
    <3> QED BY <1>1, <1>3, <2>2, <3>1 DEF AnswersInv
  <2> QED BY <2>1, <2>2
<1>7. drivesLogic' = {s \in AnsweredEdges' : DrivesLogic(s)}
  BY <1>1, <1>3 DEF AnswersInv, AnsweredEdges
<1>8. AnswersInv'
  <2>1. combOutputs' = {o \in AnsweredOutputs' : ReachesIn("outputs", o)'}
    BY <1>4, <1>5
  <2>2. {y \in AnsweredData' : ReachesIn("inputs", y)} = {y \in AnsweredData' : ReachesIn("inputs", y)'}
    BY <1>4
  <2>3. drivesLogic' = {s \in AnsweredEdges' : DrivesLogic(s)'}
    BY <1>4, <1>7
  <2> QED BY <1>1, <1>6, <2>1, <2>2, <2>3 DEF AnswersInv
<1>9. MemoInv'
  BY <1>1 DEF ConeInv, MemoInv, MemoOK, CallOK, Calls, Nodes, Neighbours, Goals, Reaches, ReachesIn, OnCalls, recursion
<1>10. WorkInv'
  BY <1>1 DEF ConeInv, WorkInv, worklist
<1>11. /\ search' \in Searches /\ todo' \subseteq Roots' /\ calls' = <<>>
       /\ search' \in {"outputs", "inputs"}
  BY <1>1, <1>3 DEF ConeInv, Roots, recursion
<1> QED BY <1>8, <1>9, <1>10, <1>11 DEF ConeInv

\* When every root has its answer the next search begins.
LEMMA NextSearchStep ==
    ASSUME dfg \in Graphs, ConeInv, NextSearch
    PROVE  ConeInv'
<1>1. /\ search # "done" /\ todo = {} /\ source = NoSource
      /\ search' = CASE search = "outputs" -> "inputs" [] search = "inputs" -> "edges" [] search = "edges" -> "done"
      /\ todo' = CASE search = "outputs" -> dfg.data [] search = "inputs" -> dfg.edges [] search = "edges" -> {}
      /\ asked' = {} /\ reaching' = {} /\ dfg' = dfg /\ calls' = calls
      /\ source' = source /\ work' = work /\ seen' = seen
      /\ combOutputs' = combOutputs /\ conePorts' = conePorts /\ drivesLogic' = drivesLogic
  BY DEF NextSearch, worklist, answers
<1>2. calls = <<>> /\ search \in {"outputs", "inputs", "edges"} /\ WorkInv /\ AnswersInv
  BY <1>1 DEF ConeInv, Searches
<1>3. MemoInv'
  <2>1. calls' \in Seq(Calls)' /\ Len(calls') = 0
    BY <1>1, <1>2, EmptySeq
  <2>2. 1 .. Len(calls') = {}
    BY <2>1
  <2> QED BY <1>1, <2>1, <2>2 DEF MemoInv, MemoOK
<1>4. WorkInv'
  BY <1>1, <1>2 DEF WorkInv
<1>5. search' \in Searches /\ todo' \subseteq Roots'
  BY <1>1, <1>2 DEF Searches, Roots
<1>6. \A x : /\ ReachesIn("outputs", x)' <=> ReachesIn("outputs", x)
             /\ ReachesIn("inputs", x)' <=> ReachesIn("inputs", x)
             /\ DrivesLogic(x)' <=> DrivesLogic(x)
  BY <1>1 DEF ReachesIn, DrivesLogic
<1>7. AnsweredOutputs' = AnsweredOutputs
  BY <1>1, <1>2 DEF AnsweredOutputs
<1>8. AnsweredData' = AnsweredData
  BY <1>1, <1>2 DEF AnsweredData
<1>9. AnsweredEdges' = AnsweredEdges
  <2>1. CASE search = "edges"
    BY <1>1, <2>1 DEF AnsweredEdges
  <2>2. CASE search = "inputs"
    BY <1>1, <2>2 DEF AnsweredEdges
  <2>3. CASE search = "outputs"
    BY <1>1, <2>3 DEF AnsweredEdges
  <2> QED BY <1>2, <2>1, <2>2, <2>3
<1>10. AnswersInv'
  <2>1. combOutputs' = {o \in AnsweredOutputs' : ReachesIn("outputs", o)'}
    BY <1>1, <1>2, <1>6, <1>7 DEF AnswersInv
  <2>2. {y \in AnsweredData' : ReachesIn("inputs", y)'} = {y \in AnsweredData : ReachesIn("inputs", y)}
    BY <1>6, <1>8
  <2>3. drivesLogic' = {s \in AnsweredEdges' : DrivesLogic(s)'}
    BY <1>1, <1>2, <1>6, <1>9 DEF AnswersInv
  <2>4. conePorts' = {dfg.port[x] : x \in {y \in AnsweredData' : ReachesIn("inputs", y)'}}
    BY <1>1, <1>2, <2>2 DEF AnswersInv
  <2> QED BY <1>1, <2>1, <2>3, <2>4 DEF AnswersInv
<1> QED BY <1>1, <1>2, <1>3, <1>4, <1>5, <1>10 DEF ConeInv

\* What a search that has taken every node above the source has seen.
LEMMA NothingDriven ==
    ASSUME dfg \in Graphs, WorkInv, source # NoSource, work = {}
    PROVE  ~DrivesLogic(source)
<1> SUFFICES ASSUME NEW t \in Sinks(dfg), source \in Below(dfg, t) PROVE FALSE
  BY DEF DrivesLogic
<1>1. source \in seen /\ \A n \in seen : Users(dfg, n) \subseteq seen /\ n \notin Sinks(dfg)
  BY DEF WorkInv
<1> DEFINE C == Nodes(dfg) \ seen
<1>2. t \in C /\ C \in SUBSET Nodes(dfg)
  BY <1>1, RootFacts
<1>3. ReadClosed(dfg, C)
  <2> SUFFICES ASSUME NEW n \in C, NEW r \in Reads(dfg, n) PROVE r \in C
    BY DEF ReadClosed
  <2>1. r \in Nodes(dfg) /\ n \in Users(dfg, r)
    BY GraphFacts DEF Users
  <2> QED BY <1>1, <2>1
<1> QED BY <1>1, <1>2, <1>3 DEF Below

\* A step of the worklist.
LEMMA WorklistStep ==
    ASSUME dfg \in Graphs, ConeInv,
           \/ \E s \in todo : Follow(s)
           \/ \E n \in work : Take(n)
           \/ GiveUp
    PROVE  ConeInv'
<1>1. search = "edges" /\ search' = search /\ dfg' = dfg /\ UNCHANGED recursion
      /\ combOutputs' = combOutputs /\ conePorts' = conePorts
  BY DEF ConeInv, WorkInv, Follow, Take, GiveUp, answers
<1>2. WorkInv /\ AnswersInv /\ todo \subseteq dfg.edges
  BY <1>1 DEF ConeInv, Roots
<1>3. MemoInv'
  BY <1>1 DEF ConeInv, MemoInv, MemoOK, CallOK, Calls, Nodes, Neighbours, Goals, Reaches, ReachesIn, OnCalls, recursion
<1>4. calls' = <<>> /\ asked' = {}
  BY <1>1 DEF ConeInv, recursion
<1>5. todo' \subseteq Roots'
  BY <1>1, <1>2 DEF Follow, Take, GiveUp, Roots
<1>6. \A x : /\ ReachesIn("outputs", x)' <=> ReachesIn("outputs", x)
             /\ ReachesIn("inputs", x)' <=> ReachesIn("inputs", x)
             /\ DrivesLogic(x)' <=> DrivesLogic(x)
  BY <1>1 DEF ReachesIn, DrivesLogic
<1>7. drivesLogic = {s \in dfg.edges \ (todo \cup {source}) : DrivesLogic(s)}
  BY <1>1, <1>2 DEF AnswersInv, AnsweredEdges
<1>8. WorkInv' /\ drivesLogic' = {s \in dfg.edges \ (todo' \cup {source'}) : DrivesLogic(s)}
  <2>1. CASE \E s \in todo : Follow(s)
    <3>1. PICK s \in todo : Follow(s)
      BY <2>1
    <3>2. /\ source = NoSource /\ source' = s /\ work' = {s} /\ seen' = {} /\ todo' = todo \ {s}
          /\ drivesLogic' = drivesLogic
      BY <3>1 DEF Follow, answers
    <3>3. s \in dfg.edges /\ s \in Nodes(dfg) /\ NoSource \notin dfg.edges
      BY <1>2, RootFacts
    <3>4. s \in Below(dfg, s)
      BY <3>3, BelowFacts
    <3>5. WorkInv'
      BY <1>1, <3>2, <3>3, <3>4 DEF WorkInv
    <3>6. dfg.edges \ (todo' \cup {source'}) = dfg.edges \ (todo \cup {source})
      BY <3>2, <3>3
    <3> QED BY <1>7, <3>2, <3>5, <3>6
  <2>2. CASE \E n \in work : Take(n)
    <3>1. PICK n \in work : Take(n)
      BY <2>2
    <3>2. source # NoSource
      BY <1>2, <3>1 DEF WorkInv
    <3>3. /\ source \in dfg.edges \ todo /\ source \in work \cup seen
          /\ \A m \in work \cup seen : m \in Nodes(dfg) /\ source \in Below(dfg, m)
          /\ \A m \in seen : Users(dfg, m) \subseteq work \cup seen /\ m \notin Sinks(dfg)
      BY <1>2, <3>2 DEF WorkInv
    <3>4. todo' = todo /\ seen' = seen \cup {n} /\ n \in Nodes(dfg) /\ source \in Below(dfg, n)
      BY <3>1, <3>3 DEF Take
    <3>5. CASE n \notin seen /\ n # source /\ n \in Sinks(dfg)
      <4>1. drivesLogic' = drivesLogic \cup {source} /\ source' = NoSource /\ work' = {}
        BY <3>1, <3>5 DEF Take
      <4>2. DrivesLogic(source)
        BY <3>4, <3>5 DEF DrivesLogic
      <4>3. NoSource \notin dfg.edges
        BY RootFacts
      <4> QED BY <1>7, <3>3, <3>4, <4>1, <4>2, <4>3 DEF WorkInv
    <3>6. CASE ~(n \notin seen /\ n # source /\ n \in Sinks(dfg))
      <4>1. /\ work' = (work \ {n}) \cup (IF n \in seen THEN {} ELSE Users(dfg, n))
            /\ source' = source /\ drivesLogic' = drivesLogic
        BY <3>1, <3>6 DEF Take
      <4>2. n \notin Sinks(dfg)
        BY <3>3, <3>6, RootFacts
      <4>3. \A u \in Users(dfg, n) : u \in Nodes(dfg) /\ source \in Below(dfg, u)
        <5> TAKE u \in Users(dfg, n)
        <5>1. u \in Nodes(dfg) /\ n \in Reads(dfg, u)
          BY DEF Users
        <5>2. Below(dfg, n) \subseteq Below(dfg, u)
          BY <5>1, BelowFacts
        <5> QED BY <3>4, <5>1, <5>2
      <4>4. \A m \in work' \cup seen' : m \in Nodes(dfg) /\ source \in Below(dfg, m)
        BY <3>3, <3>4, <4>1, <4>3
      <4>5. work \cup seen \subseteq work' \cup seen'
        BY <3>4, <4>1
      <4>6. \A m \in seen' : Users(dfg, m) \subseteq work' \cup seen' /\ m \notin Sinks(dfg)
        BY <3>3, <3>4, <4>1, <4>2, <4>5
      <4>7. WorkInv'
        BY <1>1, <3>2, <3>3, <3>4, <4>1, <4>4, <4>5, <4>6 DEF WorkInv
      <4> QED BY <1>7, <3>4, <4>1, <4>7
    <3> QED BY <3>5, <3>6
  <2>3. CASE GiveUp
    <3>1. source # NoSource /\ work = {} /\ source' = NoSource /\ work' = work /\ todo' = todo /\ drivesLogic' = drivesLogic
      BY <2>3 DEF GiveUp, answers
    <3>2. ~DrivesLogic(source) /\ NoSource \notin dfg.edges
      BY <1>2, <3>1, NothingDriven, RootFacts
    <3>3. WorkInv'
      BY <3>1 DEF WorkInv
    <3> QED BY <1>7, <3>1, <3>2, <3>3
  <2> QED BY <2>1, <2>2, <2>3
<1>9. AnswersInv'
  <2>1. AnsweredOutputs' = AnsweredOutputs /\ AnsweredData' = AnsweredData
    BY <1>1 DEF AnsweredOutputs, AnsweredData
  <2>2. combOutputs' = {o \in AnsweredOutputs' : ReachesIn("outputs", o)'}
    BY <1>1, <1>2, <1>6, <2>1 DEF AnswersInv
  <2>3. {y \in AnsweredData' : ReachesIn("inputs", y)'} = {y \in AnsweredData : ReachesIn("inputs", y)}
    BY <1>6, <2>1
  <2>4. conePorts' = {dfg.port[x] : x \in {y \in AnsweredData' : ReachesIn("inputs", y)'}}
    BY <1>1, <1>2, <2>3 DEF AnswersInv
  <2>5. drivesLogic' = {s \in AnsweredEdges' : DrivesLogic(s)'}
    BY <1>1, <1>6, <1>8 DEF AnsweredEdges
  <2> QED BY <1>1, <2>2, <2>4, <2>5 DEF AnswersInv
<1> QED BY <1>1, <1>3, <1>4, <1>5, <1>8, <1>9 DEF ConeInv, Searches

\* A step of the searches on a graph without loops.
LEMMA ConeStep ==
    ASSUME dfg \in Graphs, ~HasLoop(dfg), ConeInv, ConeNext
    PROVE  ConeInv'
BY RecursionStep, NoteStep, NextSearchStep, WorklistStep DEF ConeNext

\* The invariant of the searches says nothing of the evaluator.
LEMMA ConeUnchanged ==
    ASSUME ConeInv, UNCHANGED <<dfg, searching>>
    PROVE  ConeInv'
<1>1. /\ dfg' = dfg /\ search' = search /\ todo' = todo /\ calls' = calls /\ asked' = asked
      /\ reaching' = reaching /\ source' = source /\ work' = work /\ seen' = seen
      /\ UNCHANGED answers
  BY DEF searching, recursion, worklist
<1>2. MemoInv'
  <2>1. MemoOK(calls', asked', reaching')
    BY <1>1 DEF ConeInv, MemoInv
  <2> QED BY <1>1, <2>1, MemoUnchanged
<1>3. AnswersInv'
  BY <1>1, AnswersUnchanged DEF ConeInv
<1>4. WorkInv'
  BY <1>1 DEF ConeInv, WorkInv
<1>5. todo' \subseteq Roots'
  BY <1>1 DEF ConeInv, Roots
<1> QED BY <1>1, <1>2, <1>3, <1>4, <1>5 DEF ConeInv

\* The searches begin with outputs that have no answer.
LEMMA ConeStart ==
    ASSUME dfg \in Graphs, ConeInit
    PROVE  ConeInv
<1>1. /\ search = "outputs" /\ todo = dfg.outputs /\ calls = <<>> /\ asked = {} /\ reaching = {}
      /\ source = NoSource /\ work = {} /\ combOutputs = {} /\ conePorts = {} /\ drivesLogic = {}
  BY DEF ConeInit
<1>2. calls \in Seq(Calls) /\ 1 .. Len(calls) = {}
  <2>1. calls \in Seq(Calls) /\ Len(calls) = 0
    BY <1>1, EmptySeq
  <2> QED BY <2>1
<1>3. MemoInv
  BY <1>1, <1>2 DEF MemoInv, MemoOK
<1>4. AnsweredOutputs = {} /\ AnsweredData = {} /\ AnsweredEdges = {}
  BY <1>1 DEF AnsweredOutputs, AnsweredData, AnsweredEdges
<1>5. AnswersInv
  BY <1>1, <1>4 DEF AnswersInv
<1> QED BY <1>1, <1>3, <1>5 DEF ConeInv, WorkInv, Roots, Searches

\* The invariant of code generation: that of the evaluator and that of the
\* searches, which only run on a graph that could be sorted.
CodegenInv == EvaluatorInv /\ ConeInv

\* The model is built only of a graph without loops: the sort refused the others.
LEMMA BuiltNoLoop ==
    ASSUME EvaluatorInv, phase = "built"
    PROVE  dfg \in Graphs /\ ~HasLoop(dfg)
BY OrderedNoLoop DEF EvaluatorInv, GeneratorInv, SortInv, GeneratorTypeOK

\* Every step keeps the invariant.
LEMMA CodegenInvNext ==
    ASSUME CodegenInv, [CodegenNext]_codegenVars
    PROVE  CodegenInv'
<1>1. EvaluatorInv'
  BY EvaluatorNext DEF CodegenInv
<1>2. CASE WriteWrapper
  <2>1. dfg \in Graphs /\ ~HasLoop(dfg) /\ ConeNext
    BY <1>2, BuiltNoLoop DEF CodegenInv, WriteWrapper
  <2> QED BY <1>1, <2>1, ConeStep DEF CodegenInv
<1>3. CASE GenerateModel \/ Execute
  <2>1. UNCHANGED searching
    BY <1>3 DEF GenerateModel, Execute
  <2>2. dfg' = dfg
    BY <1>3 DEF GenerateModel, Execute, Generate, Run, Root, Descend, Leave, Sorted, PlaceNode, ReserveSpill, EmitNode,
                NextPhase, EmitSeeds, Evaluate, Statement, Return
  <2> QED BY <1>1, <2>1, <2>2, ConeUnchanged DEF CodegenInv
<1>4. CASE UNCHANGED codegenVars
  BY <1>1, <1>4, ConeUnchanged DEF CodegenInv, codegenVars
<1> QED BY <1>2, <1>3, <1>4 DEF CodegenNext

\* The invariant of code generation holds throughout.
THEOREM CodegenInvariant == CodegenSpec => []CodegenInv
<1>1. CodegenInit => CodegenInv
  <2> SUFFICES ASSUME CodegenInit PROVE CodegenInv
    OBVIOUS
  <2>1. dfg \in Graphs /\ ConeInit /\ Init
    BY DEF CodegenInit, Init
  <2> QED BY <2>1, EvaluatorStart, ConeStart DEF CodegenInv
<1>2. CodegenInv /\ [CodegenNext]_codegenVars => CodegenInv'
  BY CodegenInvNext
<1> QED BY <1>1, <1>2, PTL DEF CodegenSpec

\* When the searches are over every root has its answer.
LEMMA ExactAnswers ==
    ASSUME CodegenInv, Written
    PROVE  ConesAreExact
<1>1. search = "done" /\ phase = "built" /\ AnswersInv /\ WorkInv /\ todo \subseteq Roots
  BY DEF Written, CodegenInv, ConeInv
<1>2. dfg \in Graphs
  BY <1>1, BuiltNoLoop DEF CodegenInv
<1>3. todo = {} /\ source = NoSource /\ NoSource \notin dfg.edges
  BY <1>1, <1>2, RootFacts DEF Roots, WorkInv
<1>4. AnsweredOutputs = dfg.outputs /\ AnsweredData = dfg.data /\ AnsweredEdges = dfg.edges
  BY <1>1, <1>3 DEF AnsweredOutputs, AnsweredData, AnsweredEdges
<1>5. combOutputs = {o \in dfg.outputs : Below(dfg, o) \cap dfg.data # {}}
  BY <1>1, <1>4 DEF AnswersInv, ReachesIn
<1>6. conePorts = {dfg.port[x] : x \in {y \in dfg.data : \E o \in dfg.outputs : y \in Below(dfg, o)}}
  BY <1>1, <1>4 DEF AnswersInv, ReachesIn
<1>7. drivesLogic = {s \in dfg.edges : \E t \in Sinks(dfg) : s \in Below(dfg, t)}
  BY <1>1, <1>4 DEF AnswersInv, DrivesLogic
<1> QED BY <1>5, <1>6, <1>7 DEF ConesAreExact

\* The searches find what lies below an output or a sink and nothing else, in
\* whatever order they take roots, inputs and users.
THEOREM ConeExactness == CodegenSpec => []ConesAreExact
<1>1. ASSUME CodegenInv PROVE ConesAreExact
  BY <1>1, ExactAnswers DEF ConesAreExact
<1> QED BY <1>1, CodegenInvariant, PTL

\* Inputs that agree below a node give it one meaning.
LEMMA MeaningBelow ==
    ASSUME NEW d \in Graphs, ~HasLoop(d), NEW v \in Given(d), NEW w \in Given(d), NEW t \in Nodes(d),
           \A n \in Inputs(d) : n \in Below(d, t) => v[n] = w[n]
    PROVE  Meaning(d, v)[t] = Meaning(d, w)[t]
<1>1. PICK M : M = Meaning(d, v)
  OBVIOUS
<1>2. PICK W : W = Meaning(d, w)
  OBVIOUS
<1> DEFINE S == {n \in Nodes(d) : n \in Below(d, t) => M[n] = W[n]}
<1>3. \A n \in Nodes(d) : /\ M[n] = NodeMeaning(d, v, M, n) /\ M[n] \in Values(d.type[n])
                          /\ W[n] = NodeMeaning(d, w, W, n)
  BY <1>1, <1>2, MeaningSolves
<1>4. ASSUME NEW n \in Nodes(d), Reads(d, n) \subseteq S PROVE n \in S
  <2> SUFFICES ASSUME n \in Below(d, t) PROVE M[n] = W[n]
    OBVIOUS
  <2>1. Reads(d, n) \subseteq Below(d, t) /\ Reads(d, n) \subseteq Nodes(d)
    BY BelowFacts, GraphFacts
  <2>2. \A m \in Reads(d, n) : M[m] \in Values(d.type[m]) /\ M[m] = W[m]
    BY <1>3, <1>4, <2>1
  <2>3. n \in Inputs(d) => v[n] = w[n]
    OBVIOUS
  <2>4. NodeMeaning(d, v, M, n) = NodeMeaning(d, w, W, n)
    <3> HIDE DEF S
    <3>1. \A m \in Reads(d, n) : M[m] \in Values(d.type[m]) /\ M[m] = W[m]
      BY <2>2
    <3>2. PICK a : a = v
      OBVIOUS
    <3>3. PICK b : b = w
      OBVIOUS
    <3>4. n \in Inputs(d) => a[n] = b[n]
      BY <2>3, <3>2, <3>3
    <3>5. NodeMeaning(d, a, M, n) = NodeMeaning(d, b, W, n)
      BY <3>1, <3>4, NodeMeaningReads
    <3> QED BY <3>2, <3>3, <3>5
  <2> QED BY <1>3, <2>4
<1>5. Nodes(d) \subseteq S
  <2> HIDE DEF S
  <2> QED BY <1>4, InductionBelow
<1>6. t \in Below(d, t)
  BY BelowFacts
<1> QED BY <1>1, <1>2, <1>5, <1>6

\* What the wrapper does not refresh could not have changed: no input outside
\* the cones has a say in an output or in the D of a register.
THEOREM ConesAreSufficient == CodegenSpec => []ConesJustifyTheWrapper
<1>1. ASSUME CodegenInv, Written,
             NEW v \in Given(dfg), NEW w \in Given(dfg),
             \A n \in Inputs(dfg) \ (dfg.data \cup dfg.edges) : v[n] = w[n]
      PROVE  /\ (\A n \in drivesLogic \cup dfg.data : v[n] = w[n])
                  => \A t \in dfg.outputs \cup dfg.flopD : Meaning(dfg, v)[t] = Meaning(dfg, w)[t]
             /\ (\A n \in dfg.edges : v[n] = w[n])
                  => \A t \in dfg.outputs \ combOutputs : Meaning(dfg, v)[t] = Meaning(dfg, w)[t]
             /\ (\A n \in dfg.edges \cup {x \in dfg.data : dfg.port[x] \in conePorts} : v[n] = w[n])
                  => \A t \in combOutputs : Meaning(dfg, v)[t] = Meaning(dfg, w)[t]
  <2>1. dfg \in Graphs /\ ~HasLoop(dfg)
    BY <1>1, BuiltNoLoop DEF CodegenInv, Written
  <2>2. /\ combOutputs = {o \in dfg.outputs : Below(dfg, o) \cap dfg.data # {}}
        /\ conePorts = {dfg.port[x] : x \in {y \in dfg.data : \E o \in dfg.outputs : y \in Below(dfg, o)}}
        /\ drivesLogic = {s \in dfg.edges : \E t \in Sinks(dfg) : s \in Below(dfg, t)}
    BY <1>1, ExactAnswers DEF ConesAreExact
  <2>3. dfg.outputs \subseteq Nodes(dfg) /\ Sinks(dfg) \subseteq Nodes(dfg) /\ Sinks(dfg) = dfg.outputs \cup dfg.flopD
    BY <2>1, RootFacts DEF Sinks
  <2>4. ASSUME \A n \in drivesLogic \cup dfg.data : v[n] = w[n], NEW t \in dfg.outputs \cup dfg.flopD
        PROVE  Meaning(dfg, v)[t] = Meaning(dfg, w)[t]
    <3>1. \A n \in Inputs(dfg) : n \in Below(dfg, t) => v[n] = w[n]
      BY <1>1, <2>2, <2>3, <2>4
    <3> QED BY <2>1, <2>3, <3>1, MeaningBelow
  <2>5. ASSUME \A n \in dfg.edges : v[n] = w[n], NEW t \in dfg.outputs \ combOutputs
        PROVE  Meaning(dfg, v)[t] = Meaning(dfg, w)[t]
    <3>1. \A n \in Inputs(dfg) : n \in Below(dfg, t) => v[n] = w[n]
      BY <1>1, <2>2, <2>5
    <3> QED BY <2>1, <2>3, <3>1, MeaningBelow
  <2>6. ASSUME \A n \in dfg.edges \cup {x \in dfg.data : dfg.port[x] \in conePorts} : v[n] = w[n],
               NEW t \in combOutputs
        PROVE  Meaning(dfg, v)[t] = Meaning(dfg, w)[t]
    <3>1. t \in dfg.outputs
      BY <2>2
    <3>2. \A n \in dfg.data : n \in Below(dfg, t) => dfg.port[n] \in conePorts
      BY <2>2, <3>1
    <3>3. \A n \in Inputs(dfg) : n \in Below(dfg, t) => v[n] = w[n]
      BY <1>1, <2>6, <3>2
    <3> QED BY <2>1, <2>3, <3>1, <3>3, MeaningBelow
  <2> QED BY <2>4, <2>5, <2>6
<1>2. ASSUME CodegenInv PROVE ConesJustifyTheWrapper
  <2> DEFINE Meanings == [v \in Given(dfg) |-> Meaning(dfg, v)]
  <2>1. \A v \in Given(dfg) : Meanings[v] = Meaning(dfg, v)
    OBVIOUS
  <2>2. combOutputs \subseteq dfg.outputs \/ ~Written
    BY <1>2, ExactAnswers DEF ConesAreExact
  <2> HIDE DEF Meanings
  <2>3. SUFFICES ASSUME Written, NEW v \in Given(dfg), NEW w \in Given(dfg),
                        \A n \in Inputs(dfg) \ (dfg.data \cup dfg.edges) : v[n] = w[n]
                 PROVE  /\ (\A n \in drivesLogic \cup dfg.data : v[n] = w[n])
                             => \A t \in dfg.outputs \cup dfg.flopD : Meanings[v][t] = Meanings[w][t]
                        /\ (\A n \in dfg.edges : v[n] = w[n])
                             => \A t \in dfg.outputs \ combOutputs : Meanings[v][t] = Meanings[w][t]
                        /\ (\A n \in dfg.edges \cup {x \in dfg.data : dfg.port[x] \in conePorts} : v[n] = w[n])
                             => \A t \in combOutputs : Meanings[v][t] = Meanings[w][t]
    BY DEF ConesJustifyTheWrapper, Meanings
  <2> QED BY <1>1, <1>2, <2>1, <2>3
<1> QED BY <1>2, CodegenInvariant, PTL

=============================================================================
