-------------------------- MODULE SyncDomainsProofs --------------------------
(***************************************************************************)
(* For every graph, loops included, and in whatever order its nodes were   *)
(* created: the sweeps type a node at most once and end with the types of  *)
(* the cones, the recursion over the cone of a D finds the same type, what *)
(* is accepted samples its own domain and has no loop, what is rejected is *)
(* rejected for the reason given, and inference exempts the crossings and  *)
(* no other flop.                                                          *)
(*                                                                         *)
(* In this order: types are final; cones and Kahn's layers, which are      *)
(* recursive definitions (their equations follow from SetInduction); what  *)
(* a merge of types sums up; the sweep; the recursion; the check; the      *)
(* theorems.                                                               *)
(***************************************************************************)
EXTENDS SyncDomains, SetInduction

\* A node that has a type is a source or was computed from inputs that all have
\* theirs.
TypesComputed ==
    \A n \in DOMAIN nodeSync :
        /\ n \in Nodes(g)
        /\ \/ g.kind[n] # "op" /\ Read(n) = {}
           \/ /\ Read(n) \subseteq DOMAIN nodeSync
              /\ nodeSync[n] = Computed(n)

IInv == g \in Graphs /\ TypesComputed

\* Sources read nothing.
LEMMA SourcesReadNothing ==
    ASSUME NEW h \in Graphs, NEW n \in Nodes(h), h.kind[n] # "op"
    PROVE  InputsOf(h, n) = {}
<1>1. h.in[n] = <<>>
  BY GraphsAssumption DEF GraphsWellFormed
<1> QED
  BY <1>1 DEF InputsOf

\* The seeds are sources.
LEMMA InitIInv == Init => IInv
<1> SUFFICES ASSUME Init PROVE IInv
  OBVIOUS
<1>1. g \in Graphs /\ nodeSync = g.seed
  BY DEF Init
<1>2. DOMAIN nodeSync = {n \in Nodes(g) : g.kind[n] = "input"}
  BY <1>1, GraphsAssumption DEF GraphsWellFormed
<1>3. ASSUME NEW n \in DOMAIN nodeSync PROVE n \in Nodes(g) /\ g.kind[n] # "op" /\ Read(n) = {}
  BY <1>1, <1>2, SourcesReadNothing DEF Read
<1> QED
  BY <1>1, <1>3 DEF IInv, TypesComputed

\* A node found typed is not typed again: the inputs it was computed from have
\* kept their types.
LEMMA TypedIsFinal ==
    ASSUME IInv, NEW n \in DOMAIN nodeSync
    PROVE  Skipped(n) \/ nodeSync[n] = Computed(n)
BY DEF IInv, TypesComputed, Skipped

\* One node more keeps what is known of the others.
LEMMA OneMoreType ==
    ASSUME IInv, NEW n \in Nodes(g), n \notin DOMAIN nodeSync, ~Skipped(n),
           g' = g, nodeSync' = Put(nodeSync, n, Computed(n))
    PROVE  /\ TypesComputed'
           /\ DOMAIN nodeSync' = DOMAIN nodeSync \cup {n}
           /\ \A m \in DOMAIN nodeSync : nodeSync'[m] = nodeSync[m]
<1>1. /\ DOMAIN nodeSync' = DOMAIN nodeSync \cup {n}
      /\ nodeSync'[n] = Computed(n)
      /\ \A m \in DOMAIN nodeSync : nodeSync'[m] = nodeSync[m]
  BY DEF Put
<1>2. Read(n) \subseteq DOMAIN nodeSync
  BY DEF Skipped
<1>3. \A m : Read(m)' = Read(m)
  BY DEF Read, InputsOf
<1>4. ASSUME NEW m, Read(m) \subseteq DOMAIN nodeSync PROVE Computed(m)' = Computed(m)
  <2>1. {nodeSync'[k] : k \in Read(m)} = {nodeSync[k] : k \in Read(m)}
    BY <1>1, <1>4
  <2> QED BY <2>1, <1>3 DEF Computed
<1>5. ASSUME NEW m \in DOMAIN nodeSync'
      PROVE  /\ m \in Nodes(g)'
             /\ \/ g'.kind[m] # "op" /\ Read(m)' = {}
                \/ /\ Read(m)' \subseteq DOMAIN nodeSync'
                   /\ nodeSync'[m] = Computed(m)'
  <2>1. m \in Nodes(g)'
    BY <1>1, <1>5 DEF IInv, TypesComputed, Nodes
  <2>2. CASE m = n
    BY <2>1, <2>2, <1>1, <1>2, <1>3, <1>4
  <2>3. CASE m # n
    <3>1. m \in DOMAIN nodeSync
      BY <2>3, <1>1
    <3>2. \/ g.kind[m] # "op" /\ Read(m) = {}
          \/ Read(m) \subseteq DOMAIN nodeSync /\ nodeSync[m] = Computed(m)
      BY <3>1 DEF IInv, TypesComputed
    <3> QED BY <2>1, <3>1, <3>2, <1>1, <1>3, <1>4
  <2> QED BY <2>2, <2>3
<1>6. TypesComputed'
  BY <1>5 DEF TypesComputed
<1> QED
  BY <1>1, <1>6

\* What a step does to the types: nothing, or one node gets one.
TypesKept ==
    /\ \A n \in DOMAIN nodeSync : n \in DOMAIN nodeSync' /\ nodeSync'[n] = nodeSync[n]
    /\ changed' /\ ~changed => DOMAIN nodeSync' # DOMAIN nodeSync

\* Every other step leaves the types alone.
LEMMA OtherStepsKeep ==
    ASSUME IInv, g' = g, nodeSync' = nodeSync, changed' => changed
    PROVE  IInv' /\ TypesKept
<1>1. ASSUME NEW m PROVE Read(m)' = Read(m)
  BY DEF Read, InputsOf
<1>2. ASSUME NEW m PROVE Computed(m)' = Computed(m)
  <2>1. {nodeSync'[k] : k \in Read(m)'} = {nodeSync[k] : k \in Read(m)}
    BY <1>1
  <2> QED BY <2>1, <1>1 DEF Computed
<1>3. Nodes(g)' = Nodes(g)
  BY DEF Nodes
<1>4. TypesComputed'
  BY <1>1, <1>2, <1>3 DEF IInv, TypesComputed
<1> QED
  BY <1>4 DEF IInv, TypesKept

\* A visit of the sweep types the node or leaves everything as it is.
LEMMA SweepNodeKeeps ==
    ASSUME IInv, SweepNode
    PROVE  IInv' /\ TypesKept
<1>1. g' = g /\ pos \in Nodes(g)
  BY DEF SweepNode
<1>2. CASE Skipped(pos) \/ (pos \in DOMAIN nodeSync /\ nodeSync[pos] = Computed(pos))
  <2>1. nodeSync' = nodeSync /\ changed' = changed
    BY <1>2 DEF SweepNode
  <2> QED BY <1>1, <2>1, OtherStepsKeep
<1>3. CASE ~(Skipped(pos) \/ (pos \in DOMAIN nodeSync /\ nodeSync[pos] = Computed(pos)))
  <2>1. nodeSync' = Put(nodeSync, pos, Computed(pos))
    BY <1>3 DEF SweepNode
  <2>2. pos \notin DOMAIN nodeSync
    BY <1>3, TypedIsFinal
  <2>3. /\ TypesComputed'
        /\ DOMAIN nodeSync' = DOMAIN nodeSync \cup {pos}
        /\ \A m \in DOMAIN nodeSync : nodeSync'[m] = nodeSync[m]
    BY <1>1, <1>3, <2>1, <2>2, OneMoreType
  <2> QED BY <1>1, <2>2, <2>3 DEF IInv, TypesKept
<1> QED BY <1>2, <1>3

\* Every step keeps the invariant and the types found.
LEMMA StepKeeps ==
    ASSUME IInv, [Next]_vars
    PROVE  IInv' /\ TypesKept
<1>1. CASE SweepNode
  BY <1>1, SweepNodeKeeps
<1>2. CASE SweepAgain
  <2>1. g' = g /\ nodeSync' = nodeSync /\ changed' = FALSE
    BY <1>2 DEF SweepAgain
  <2> QED BY <2>1, OtherStepsKeep
<1>3. ASSUME NEW f \in DOMAIN g.flops,
             StaticD(f) \/ CallFanin(f) \/ ReturnFanin(f) \/ TypedD(f) \/ CheckFlop(f)
      PROVE  IInv' /\ TypesKept
  <2>1. g' = g /\ nodeSync' = nodeSync /\ changed' = changed
    BY <1>3 DEF StaticD, CallFanin, ReturnFanin, TypedD, CheckFlop, sweepVars
  <2> QED BY <2>1, OtherStepsKeep
<1>4. CASE AllTyped \/ AllChecked \/ ValidateNoCombLoops \/ Finished \/ UNCHANGED vars
  <2>1. g' = g /\ nodeSync' = nodeSync /\ changed' = changed
    BY <1>4 DEF AllTyped, AllChecked, ValidateNoCombLoops, Finished, vars, sweepVars
  <2> QED BY <2>1, OtherStepsKeep
<1> QED
  BY <1>1, <1>2, <1>3, <1>4 DEF Next, Steps

\* Every type found is the merge of types found before it and final.
THEOREM Inductive == Spec => []IInv
<1>1. IInv /\ [Next]_vars => IInv'
  BY StepKeeps
<1> QED
  BY <1>1, InitIInv, PTL DEF Spec

\* On every graph, with any number of nodes, in any order and with loops, the
\* sweeps end: a type once found never changes, and a sweep is repeated only
\* after one that typed a node more (propagateNodeSyncTypes).
THEOREM SweepsTerminate == Spec => SweepsEnd
<1>1. IInv /\ [Next]_vars => [TypesKept]_vars
  BY StepKeeps
<1>2. [][TypesKept]_vars => SweepsEnd
  BY PTL DEF SweepsEnd, TypesKept
<1> QED
  BY <1>1, <1>2, Inductive, PTL DEF Spec

\* What the well-formedness of the graphs says of the graph compiled.
LEMMA GraphShape ==
    ASSUME g \in Graphs
    PROVE  /\ Nodes(g) = 1 .. Len(g.kind) /\ Len(g.kind) \in Nat
           /\ IsFiniteSet(Nodes(g)) /\ Cardinality(Nodes(g)) = Len(g.kind)
           /\ \A n \in Nodes(g) : g.kind[n] \in {"input", "const", "op"}
           /\ \A n \in Nodes(g) : g.in[n] \in Seq(Nodes(g)) /\ InputsOf(g, n) \in SUBSET Nodes(g)
           /\ \A n \in Nodes(g) : g.kind[n] # "op" => g.in[n] = <<>> /\ InputsOf(g, n) = {}
<1>1. g.kind \in Seq({"input", "const", "op"})
  BY GraphsAssumption DEF GraphsWellFormed
<1>2. \A n \in Nodes(g) : g.in[n] \in Seq(Nodes(g))
  BY GraphsAssumption DEF GraphsWellFormed
<1>3. \A n \in Nodes(g) : g.kind[n] # "op" => g.in[n] = <<>>
  BY GraphsAssumption DEF GraphsWellFormed
<1>4. Nodes(g) = 1 .. Len(g.kind) /\ Len(g.kind) \in Nat
  BY <1>1 DEF Nodes
<1>5. \A n \in Nodes(g) : g.kind[n] \in {"input", "const", "op"}
  BY <1>1 DEF Nodes
<1>6. IsFiniteSet(Nodes(g)) /\ Cardinality(Nodes(g)) = Len(g.kind)
  <2>1. /\ IsFiniteSet(1 .. Len(g.kind))
        /\ Cardinality(1 .. Len(g.kind)) = IF 1 > Len(g.kind) THEN 0 ELSE Len(g.kind) - 1 + 1
    BY <1>4, FS_Interval
  <2> QED BY <1>4, <2>1
<1>7. ASSUME NEW n \in Nodes(g) PROVE InputsOf(g, n) \in SUBSET Nodes(g)
  <2>1. g.in[n] \in Seq(Nodes(g))
    BY <1>2
  <2>2. \A i \in DOMAIN g.in[n] : g.in[n][i] \in Nodes(g)
    BY <2>1
  <2> QED BY <2>2 DEF InputsOf
<1> QED BY <1>2, <1>3, <1>4, <1>5, <1>6, <1>7, SourcesReadNothing

\* A set of nodes that holds what its nodes read.
Closed(T) == \A m \in T : InputsOf(g, m) \subseteq T

-----------------------------------------------------------------------------
(* Cones.  The n-fold iteration of Cone has a solution and ends in the     *)
(* least closed set that holds the node.                                   *)

Grown(S) == S \cup UNION {InputsOf(g, m) : m \in S}

IsReach(r, n, N) == r = [k \in 0 .. N |-> IF k = 0 THEN {n} ELSE Grown(r[k - 1])]

\* A solution solves the equation at every number of steps.
LEMMA ReachAt ==
    ASSUME NEW r, NEW n, NEW N, IsReach(r, n, N), NEW k \in 0 .. N
    PROVE  r[k] = IF k = 0 THEN {n} ELSE Grown(r[k - 1])
<1> DEFINE f == [j \in 0 .. N |-> IF j = 0 THEN {n} ELSE Grown(r[j - 1])]
<1>1. r = f
  BY DEF IsReach
<1>2. f[k] = IF k = 0 THEN {n} ELSE Grown(r[k - 1])
  OBVIOUS
<1> HIDE DEF f
<1> QED BY <1>1, <1>2

\* The iteration of Cone has a solution.
LEMMA ReachExists ==
    ASSUME NEW n, NEW N \in Nat
    PROVE  \E r : IsReach(r, n, N)
<1> DEFINE S == {K \in Nat : \E r : IsReach(r, n, K)}
<1>1. 0 \in S
  <2> DEFINE one == [k \in 0 .. 0 |-> {n}]
  <2>1. one = [k \in 0 .. 0 |-> IF k = 0 THEN {n} ELSE Grown(one[k - 1])]
    OBVIOUS
  <2> HIDE DEF one
  <2>2. IsReach(one, n, 0)
    BY <2>1 DEF IsReach
  <2> QED BY <2>2
<1>2. ASSUME NEW K \in Nat, K \in S PROVE K + 1 \in S
  <2>1. PICK r : IsReach(r, n, K)
    BY <1>2
  <2> DEFINE v == [k \in 0 .. K + 1 |-> IF k = 0 THEN {n} ELSE Grown(r[k - 1])]
  <2>2. \A k \in 0 .. K : v[k] = r[k]
    <3>1. \A k \in 0 .. K : r[k] = IF k = 0 THEN {n} ELSE Grown(r[k - 1])
      BY <2>1, ReachAt
    <3>2. \A k \in 0 .. K : v[k] = IF k = 0 THEN {n} ELSE Grown(r[k - 1])
      OBVIOUS
    <3> HIDE DEF v
    <3> QED BY <3>1, <3>2
  <2>3. \A k \in 0 .. K + 1 : k # 0 => k - 1 \in 0 .. K
    OBVIOUS
  <2>4. \A k \in 0 .. K + 1 : (IF k = 0 THEN {n} ELSE Grown(r[k - 1])) = (IF k = 0 THEN {n} ELSE Grown(v[k - 1]))
    BY <2>2, <2>3
  <2>5. v = [k \in 0 .. K + 1 |-> IF k = 0 THEN {n} ELSE Grown(v[k - 1])]
    BY <2>4
  <2> HIDE DEF v
  <2>6. IsReach(v, n, K + 1)
    BY <2>5 DEF IsReach
  <2> QED BY <2>6
<1>3. \A K \in Nat : K \in S
  <2> HIDE DEF S
  <2> QED BY <1>1, <1>2, InductionOverSet
<1> QED BY <1>3

\* Cone is the last set of a solution.
LEMMA ConeIsReached ==
    ASSUME g \in Graphs, NEW n
    PROVE  \E r : /\ r[0] = {n}
                  /\ \A k \in 0 .. Len(g.kind) : k # 0 => r[k] = Grown(r[k - 1])
                  /\ Cone(n) = r[Len(g.kind)]
<1> DEFINE N == Len(g.kind)
           r == CHOOSE r : IsReach(r, n, N)
<1>1. N \in Nat /\ Cardinality(Nodes(g)) = N
  BY GraphShape
<1>2. Cone(n) = r[N]
  BY <1>1 DEF Cone, IsReach, Grown
<1>3. IsReach(r, n, N)
  BY <1>1, ReachExists
<1> HIDE DEF r, N
<1>4. \A k \in 0 .. N : r[k] = IF k = 0 THEN {n} ELSE Grown(r[k - 1])
  BY <1>3, ReachAt
<1>5. r[0] = {n} /\ \A k \in 0 .. N : k # 0 => r[k] = Grown(r[k - 1])
  BY <1>1, <1>4
<1> QED BY <1>2, <1>5 DEF N

\* The cone of a node is the least closed set that holds it.
LEMMA ConeLeast ==
    ASSUME g \in Graphs, NEW n \in Nodes(g)
    PROVE  /\ n \in Cone(n) /\ Cone(n) \in SUBSET Nodes(g)
           /\ Closed(Cone(n))
           /\ \A T : n \in T /\ Closed(T) => Cone(n) \subseteq T
<1> DEFINE N == Len(g.kind)
<1>0. PICK r : /\ r[0] = {n}
               /\ \A k \in 0 .. N : k # 0 => r[k] = Grown(r[k - 1])
               /\ Cone(n) = r[N]
  BY ConeIsReached
<1>1. N \in Nat /\ IsFiniteSet(Nodes(g)) /\ Cardinality(Nodes(g)) = N
  BY GraphShape
<1>2. \A m \in Nodes(g) : InputsOf(g, m) \in SUBSET Nodes(g)
  BY GraphShape
<1> HIDE DEF N
<1>3. \A k \in Nat : k + 1 <= N => k <= N /\ r[k + 1] = Grown(r[k])
  <2> TAKE k \in Nat
  <2> HAVE k + 1 <= N
  <2>1. k + 1 \in 0 .. N /\ k + 1 # 0 /\ k + 1 - 1 = k /\ k <= N
    BY <1>1
  <2> QED BY <1>0, <2>1
<1> DEFINE S == {k \in Nat : k <= N => /\ n \in r[k] /\ r[k] \in SUBSET Nodes(g)
                                       /\ Closed(r[k]) \/ Cardinality(r[k]) >= k + 1}
<1>4. 0 \in S
  <2>1. Cardinality({n}) = 1
    BY FS_Singleton
  <2> QED BY <1>0, <2>1
<1>5. ASSUME NEW k \in Nat, k \in S PROVE k + 1 \in S
  <2> SUFFICES ASSUME k + 1 <= N
               PROVE  /\ n \in r[k + 1] /\ r[k + 1] \in SUBSET Nodes(g)
                      /\ Closed(r[k + 1]) \/ Cardinality(r[k + 1]) >= k + 1 + 1
    OBVIOUS
  <2>1. r[k + 1] = Grown(r[k])
    BY <1>3
  <2>2. n \in r[k] /\ r[k] \in SUBSET Nodes(g) /\ (Closed(r[k]) \/ Cardinality(r[k]) >= k + 1)
    BY <1>3, <1>5
  <2>3. n \in r[k + 1] /\ r[k] \subseteq r[k + 1]
    BY <2>1, <2>2 DEF Grown
  <2>4. r[k + 1] \in SUBSET Nodes(g)
    BY <1>2, <2>1, <2>2 DEF Grown
  <2>5. CASE Closed(r[k])
    <3>1. r[k + 1] = r[k]
      BY <2>1, <2>5 DEF Closed, Grown
    <3> QED BY <2>3, <2>4, <2>5, <3>1
  <2>6. CASE ~Closed(r[k])
    <3>1. PICK m \in r[k] : \E x \in InputsOf(g, m) : x \notin r[k]
      BY <2>6 DEF Closed
    <3>2. r[k] # r[k + 1]
      BY <2>1, <3>1 DEF Grown
    <3>3. IsFiniteSet(r[k + 1]) /\ Cardinality(r[k + 1]) \in Nat
      BY <1>1, <2>4, FS_Subset, FS_CardinalityType
    <3>4. /\ Cardinality(r[k]) <= Cardinality(r[k + 1])
          /\ Cardinality(r[k]) # Cardinality(r[k + 1])
          /\ IsFiniteSet(r[k])
      BY <2>3, <3>2, <3>3, FS_Subset
    <3>5. Cardinality(r[k]) \in Nat
      BY <3>4, FS_CardinalityType
    <3>6. Cardinality(r[k + 1]) >= k + 1 + 1
      BY <2>2, <2>6, <3>3, <3>4, <3>5
    <3> QED BY <2>3, <2>4, <3>6
  <2> QED BY <2>5, <2>6
<1>6. N \in S
  <2> HIDE DEF S
  <2> QED BY <1>1, <1>4, <1>5, InductionOverSet
<1>7. n \in Cone(n) /\ Cone(n) \in SUBSET Nodes(g)
  BY <1>0, <1>1, <1>6
<1>8. Closed(Cone(n))
  <2>1. Cardinality(Cone(n)) <= N
    BY <1>1, <1>7, FS_Subset
  <2>2. IsFiniteSet(Cone(n)) /\ Cardinality(Cone(n)) \in Nat
    BY <1>1, <1>7, FS_Subset, FS_CardinalityType
  <2>3. Closed(Cone(n)) \/ Cardinality(Cone(n)) >= N + 1
    BY <1>0, <1>1, <1>6
  <2> QED BY <1>1, <2>1, <2>2, <2>3
<1>9. ASSUME NEW T, n \in T, Closed(T) PROVE Cone(n) \subseteq T
  <2> DEFINE U == {k \in Nat : k <= N => r[k] \subseteq T}
  <2>1. 0 \in U
    BY <1>0, <1>9
  <2>2. ASSUME NEW k \in Nat, k \in U PROVE k + 1 \in U
    <3> SUFFICES ASSUME k + 1 <= N PROVE r[k + 1] \subseteq T
      OBVIOUS
    <3>1. r[k + 1] = Grown(r[k]) /\ r[k] \subseteq T
      BY <1>3, <2>2
    <3> QED BY <1>9, <3>1 DEF Grown, Closed
  <2>3. N \in U
    <3> HIDE DEF U
    <3> QED BY <1>1, <2>1, <2>2, InductionOverSet
  <2> QED BY <1>0, <1>1, <2>3
<1> QED BY <1>7, <1>8, <1>9

\* The cone of a node in a cone lies in it.
LEMMA ConeWithin ==
    ASSUME g \in Graphs, NEW n \in Nodes(g), NEW m \in Cone(n)
    PROVE  m \in Nodes(g) /\ Cone(m) \subseteq Cone(n)
<1>1. m \in Nodes(g) /\ Closed(Cone(n))
  BY ConeLeast
<1> QED BY <1>1, ConeLeast

\* A cone is the node and the cones of what it reads.
LEMMA ConeStep ==
    ASSUME g \in Graphs, NEW n \in Nodes(g)
    PROVE  Cone(n) = {n} \cup UNION {Cone(m) : m \in InputsOf(g, n)}
<1> DEFINE T == {n} \cup UNION {Cone(m) : m \in InputsOf(g, n)}
<1>1. n \in Cone(n) /\ InputsOf(g, n) \subseteq Cone(n) /\ InputsOf(g, n) \subseteq Nodes(g)
  BY ConeLeast, GraphShape DEF Closed
<1>2. \A m \in InputsOf(g, n) : Cone(m) \subseteq Cone(n)
  BY <1>1, ConeWithin
<1>3. \A m \in InputsOf(g, n) : m \in Cone(m) /\ Closed(Cone(m))
  BY <1>1, ConeLeast
<1>4. Closed(T)
  BY <1>3 DEF Closed
<1>5. n \in T
  OBVIOUS
<1>6. Cone(n) \subseteq T
  <2> HIDE DEF T
  <2> QED BY <1>4, <1>5, ConeLeast
<1>7. T \subseteq Cone(n)
  BY <1>1, <1>2
<1> QED BY <1>6, <1>7

\* The cone of what a node reads, with no loop through the node, is smaller.
LEMMA ConeSmaller ==
    ASSUME g \in Graphs, NEW n \in Nodes(g), ~LoopsBack(n), NEW m \in InputsOf(g, n)
    PROVE  /\ m \in Nodes(g) /\ Cone(m) \subseteq Cone(n)
           /\ Cardinality(Cone(m)) \in Nat /\ Cardinality(Cone(n)) \in Nat
           /\ Cardinality(Cone(m)) < Cardinality(Cone(n))
<1>1. m \in Cone(n) /\ n \in Cone(n) /\ Cone(n) \in SUBSET Nodes(g)
  BY ConeLeast DEF Closed
<1>2. m \in Nodes(g) /\ Cone(m) \subseteq Cone(n)
  BY <1>1, ConeWithin
<1>3. n \notin Cone(m)
  BY DEF LoopsBack
<1>4. IsFiniteSet(Cone(n))
  BY <1>1, GraphShape, FS_Subset
<1>5. /\ IsFiniteSet(Cone(m)) /\ Cardinality(Cone(m)) <= Cardinality(Cone(n))
      /\ Cardinality(Cone(m)) # Cardinality(Cone(n))
  BY <1>1, <1>2, <1>3, <1>4, FS_Subset
<1>6. Cardinality(Cone(m)) \in Nat /\ Cardinality(Cone(n)) \in Nat
  BY <1>4, <1>5, FS_CardinalityType
<1> QED BY <1>2, <1>5, <1>6

-----------------------------------------------------------------------------
(* Loops.  Kahn's layers reach every node exactly when no node is in the   *)
(* cone of what it reads.                                                  *)

Layer(S) == {n \in Nodes(g) : InputsOf(g, n) \subseteq S}

IsSorting(r, N) == r = [k \in 0 .. N |-> IF k = 0 THEN {} ELSE Layer(r[k - 1])]

\* A solution solves the equation at every number of layers.
LEMMA SortingAt ==
    ASSUME NEW r, NEW N, IsSorting(r, N), NEW k \in 0 .. N
    PROVE  r[k] = IF k = 0 THEN {} ELSE Layer(r[k - 1])
<1> DEFINE f == [j \in 0 .. N |-> IF j = 0 THEN {} ELSE Layer(r[j - 1])]
<1>1. r = f
  BY DEF IsSorting
<1>2. f[k] = IF k = 0 THEN {} ELSE Layer(r[k - 1])
  OBVIOUS
<1> HIDE DEF f
<1> QED BY <1>1, <1>2

\* Kahn's layers have a solution.
LEMMA SortingExists ==
    ASSUME NEW N \in Nat
    PROVE  \E r : IsSorting(r, N)
<1> DEFINE S == {K \in Nat : \E r : IsSorting(r, K)}
<1>1. 0 \in S
  <2> DEFINE one == [k \in 0 .. 0 |-> {}]
  <2>1. one = [k \in 0 .. 0 |-> IF k = 0 THEN {} ELSE Layer(one[k - 1])]
    OBVIOUS
  <2> HIDE DEF one
  <2>2. IsSorting(one, 0)
    BY <2>1 DEF IsSorting
  <2> QED BY <2>2
<1>2. ASSUME NEW K \in Nat, K \in S PROVE K + 1 \in S
  <2>1. PICK r : IsSorting(r, K)
    BY <1>2
  <2> DEFINE v == [k \in 0 .. K + 1 |-> IF k = 0 THEN {} ELSE Layer(r[k - 1])]
  <2>2. \A k \in 0 .. K : v[k] = r[k]
    <3>1. \A k \in 0 .. K : r[k] = IF k = 0 THEN {} ELSE Layer(r[k - 1])
      BY <2>1, SortingAt
    <3>2. \A k \in 0 .. K : v[k] = IF k = 0 THEN {} ELSE Layer(r[k - 1])
      OBVIOUS
    <3> HIDE DEF v
    <3> QED BY <3>1, <3>2
  <2>3. \A k \in 0 .. K + 1 : k # 0 => k - 1 \in 0 .. K
    OBVIOUS
  <2>4. \A k \in 0 .. K + 1 : (IF k = 0 THEN {} ELSE Layer(r[k - 1])) = (IF k = 0 THEN {} ELSE Layer(v[k - 1]))
    BY <2>2, <2>3
  <2>5. v = [k \in 0 .. K + 1 |-> IF k = 0 THEN {} ELSE Layer(v[k - 1])]
    BY <2>4
  <2> HIDE DEF v
  <2>6. IsSorting(v, K + 1)
    BY <2>5 DEF IsSorting
  <2> QED BY <2>6
<1>3. \A K \in Nat : K \in S
  <2> HIDE DEF S
  <2> QED BY <1>1, <1>2, InductionOverSet
<1> QED BY <1>3

\* The sorted nodes are closed, loop-free, and all that can be sorted.
LEMMA SortableIsFixed ==
    ASSUME g \in Graphs
    PROVE  Sortable \in SUBSET Nodes(g) /\ Layer(Sortable) = Sortable /\ LoopFree(Sortable)
<1> DEFINE N == Len(g.kind)
           r == CHOOSE r : IsSorting(r, N)
<1>1. N \in Nat /\ IsFiniteSet(Nodes(g)) /\ Cardinality(Nodes(g)) = N
  BY GraphShape
<1>2. \A m \in Nodes(g) : InputsOf(g, m) \in SUBSET Nodes(g)
  BY GraphShape
<1>3. Sortable = r[N]
  BY <1>1 DEF Sortable, IsSorting, Layer
<1>4. IsSorting(r, N)
  BY <1>1, SortingExists
<1> HIDE DEF r, N
<1>5. \A k \in 0 .. N : r[k] = IF k = 0 THEN {} ELSE Layer(r[k - 1])
  BY <1>4, SortingAt
<1>6. r[0] = {} /\ \A k \in Nat : k + 1 <= N => k <= N /\ r[k + 1] = Layer(r[k])
  <2>1. r[0] = {}
    BY <1>1, <1>5
  <2>2. ASSUME NEW k \in Nat, k + 1 <= N PROVE k <= N /\ r[k + 1] = Layer(r[k])
    <3>1. k + 1 \in 0 .. N /\ k + 1 # 0 /\ k + 1 - 1 = k /\ k <= N
      BY <1>1, <2>2
    <3> QED BY <1>5, <3>1
  <2> QED BY <2>1, <2>2
<1> DEFINE S == {k \in Nat : k <= N => /\ r[k] \in SUBSET Nodes(g) /\ r[k] \subseteq Layer(r[k])
                                       /\ LoopFree(r[k])
                                       /\ Layer(r[k]) = r[k] \/ Cardinality(r[k]) >= k}
<1>7. 0 \in S
  <2>1. Cardinality({}) = 0
    BY FS_EmptySet
  <2> QED BY <1>6, <2>1 DEF LoopFree
<1>8. ASSUME NEW k \in Nat, k \in S PROVE k + 1 \in S
  <2> SUFFICES ASSUME k + 1 <= N
               PROVE  /\ r[k + 1] \in SUBSET Nodes(g) /\ r[k + 1] \subseteq Layer(r[k + 1])
                      /\ LoopFree(r[k + 1])
                      /\ Layer(r[k + 1]) = r[k + 1] \/ Cardinality(r[k + 1]) >= k + 1
    OBVIOUS
  <2>1. r[k + 1] = Layer(r[k])
    BY <1>6
  <2>2. /\ r[k] \in SUBSET Nodes(g) /\ r[k] \subseteq Layer(r[k]) /\ LoopFree(r[k])
        /\ Layer(r[k]) = r[k] \/ Cardinality(r[k]) >= k
    BY <1>6, <1>8
  <2>3. r[k] \subseteq r[k + 1] /\ r[k + 1] \in SUBSET Nodes(g)
    BY <2>1, <2>2 DEF Layer
  <2>4. r[k + 1] \subseteq Layer(r[k + 1])
    BY <2>1, <2>3 DEF Layer
  <2>5. Closed(r[k])
    BY <2>2 DEF Closed, Layer
  <2>6. ASSUME NEW n \in r[k + 1], NEW m \in InputsOf(g, n), n \in Cone(m) PROVE FALSE
    <3>1. m \in r[k] /\ m \in Nodes(g)
      BY <2>1, <2>2, <2>6 DEF Layer
    <3>2. Cone(m) \subseteq r[k]
      BY <2>5, <3>1, ConeLeast
    <3>3. n \in r[k]
      BY <2>6, <3>2
    <3> QED BY <2>2, <2>6, <3>3 DEF LoopFree, LoopsBack
  <2>7. LoopFree(r[k + 1])
    BY <2>6 DEF LoopFree, LoopsBack
  <2>8. CASE Layer(r[k]) = r[k]
    BY <2>1, <2>3, <2>4, <2>7, <2>8
  <2>9. CASE Layer(r[k]) # r[k]
    <3>1. IsFiniteSet(r[k + 1]) /\ Cardinality(r[k + 1]) \in Nat
      BY <1>1, <2>3, FS_Subset, FS_CardinalityType
    <3>2. /\ Cardinality(r[k]) <= Cardinality(r[k + 1])
          /\ Cardinality(r[k]) # Cardinality(r[k + 1])
          /\ IsFiniteSet(r[k])
      BY <2>1, <2>3, <2>9, <3>1, FS_Subset
    <3>3. Cardinality(r[k]) \in Nat
      BY <3>2, FS_CardinalityType
    <3>4. Cardinality(r[k + 1]) >= k + 1
      BY <2>2, <2>9, <3>1, <3>2, <3>3
    <3> QED BY <2>3, <2>4, <2>7, <3>4
  <2> QED BY <2>8, <2>9
<1>9. N \in S
  <2> HIDE DEF S
  <2> QED BY <1>1, <1>7, <1>8, InductionOverSet
<1>10. /\ Sortable \in SUBSET Nodes(g) /\ LoopFree(Sortable)
       /\ Layer(Sortable) = Sortable \/ Cardinality(Sortable) >= N
  BY <1>1, <1>3, <1>9
<1>11. CASE Cardinality(Sortable) >= N
  <2>1. Cardinality(Sortable) <= N /\ Cardinality(Sortable) \in Nat
    BY <1>1, <1>10, FS_Subset, FS_CardinalityType
  <2>2. Cardinality(Nodes(g)) = Cardinality(Sortable)
    BY <1>1, <1>11, <2>1
  <2>3. Sortable = Nodes(g)
    BY <1>1, <1>10, <2>2, FS_Subset
  <2>4. Layer(Nodes(g)) = Nodes(g)
    BY <1>2 DEF Layer
  <2> QED BY <1>10, <2>3, <2>4
<1> QED BY <1>10, <1>11

\* validateNoCombLoops finds a loop exactly when there is one.
LEMMA SortableIffLoopFree ==
    ASSUME g \in Graphs
    PROVE  Sortable = Nodes(g) <=> LoopFree(Nodes(g))
<1>1. Sortable \in SUBSET Nodes(g) /\ Layer(Sortable) = Sortable /\ LoopFree(Sortable)
  BY SortableIsFixed
<1>2. ASSUME LoopFree(Nodes(g)), Sortable # Nodes(g) PROVE FALSE
  <2> DEFINE U == Nodes(g) \ Sortable
             Sizes == {Cardinality(Cone(n)) : n \in U}
  <2>1. \A n \in U : \E m \in InputsOf(g, n) : m \in U
    <3> TAKE n \in U
    <3>1. n \notin Layer(Sortable)
      BY <1>1
    <3>2. PICK m \in InputsOf(g, n) : m \notin Sortable
      BY <3>1 DEF Layer
    <3>3. m \in Nodes(g)
      BY GraphShape
    <3> QED BY <3>2, <3>3
  <2>2. \A n \in Nodes(g) : ~LoopsBack(n)
    BY <1>2 DEF LoopFree
  <2>3. ASSUME NEW n \in U, NEW m \in InputsOf(g, n)
        PROVE  /\ Cardinality(Cone(m)) \in Nat /\ Cardinality(Cone(n)) \in Nat
               /\ Cardinality(Cone(m)) < Cardinality(Cone(n))
    BY <2>2, ConeSmaller
  <2>4. Sizes \in SUBSET Nat /\ Sizes # {}
    <3>1. \A n \in U : Cardinality(Cone(n)) \in Nat
      BY <2>1, <2>3
    <3>2. U # {}
      BY <1>1, <1>2
    <3> HIDE DEF U
    <3> QED BY <3>1, <3>2
  <2>5. PICK s \in Sizes : \A t \in Sizes : s <= t
    <3> HIDE DEF Sizes
    <3> QED BY <2>4, LeastNatural
  <2>6. PICK n \in U : s = Cardinality(Cone(n))
    BY <2>5
  <2>7. PICK m \in InputsOf(g, n) : m \in U
    BY <2>1
  <2>8. s <= Cardinality(Cone(m))
    BY <2>5, <2>7
  <2> QED BY <2>3, <2>6, <2>7, <2>8
<1> QED BY <1>1, <1>2

-----------------------------------------------------------------------------
(* Types.  A type sums up a set of sources: static for none, synchronous   *)
(* with their clock and resets if all are of one clock, and otherwise one  *)
(* that makes a merge asynchronous.                                        *)

SourceClasses == {"async", "clock", "reset", "sync"}

OneClock(X) == \A t, u \in X : t.is = "sync" /\ t.clock = u.clock

SumsUp(t, X) ==
    /\ X = {} => t = Static
    /\ X # {} /\ OneClock(X) =>
         t.is = "sync" /\ (\A u \in X : t.clock = u.clock) /\ t.resets = UNION {u.resets : u \in X}
    /\ ~OneClock(X) => t.is \in {"async", "clock", "reset"}

\* The type ConeType gives a set of sources.
TypeFrom(X) ==
    LET clocks == {t.clock : t \in {u \in X : u.is = "sync"}}
    IN  IF X = {} THEN Static
        ELSE IF (\A t \in X : t.is = "sync") /\ Cardinality(clocks) = 1
             THEN Sync(CHOOSE c \in clocks : TRUE, UNION {t.resets : t \in X})
             ELSE Async

\* The image of a finite set is finite.
LEMMA ImageFinite ==
    ASSUME NEW f, IsFiniteSet(DOMAIN f)
    PROVE  IsFiniteSet({f[x] : x \in DOMAIN f})
<1> DEFINE D == DOMAIN f
           T == {f[x] : x \in D}
           h == [x \in D |-> f[x]]
<1>1. h \in Surjection(D, T)
  BY DEF Surjection
<1> HIDE DEF D, T, h
<1>2. IsFiniteSet(T)
  BY <1>1, FS_Surjection DEF D
<1> QED BY <1>2 DEF T, D

\* The clocks of a finite set of sources are one exactly when they agree.
LEMMA ClocksAgree ==
    ASSUME NEW X, IsFiniteSet(X), X # {}, \A t \in X : t.is = "sync"
    PROVE  Cardinality({t.clock : t \in X}) = 1 <=> OneClock(X)
<1> DEFINE f == [t \in X |-> t.clock]
           C == {t.clock : t \in X}
<1>1. C = {f[t] : t \in DOMAIN f} /\ DOMAIN f = X
  OBVIOUS
<1>2. IsFiniteSet(C)
  <2>1. IsFiniteSet({f[t] : t \in DOMAIN f})
    <3> HIDE DEF f, C
    <3> QED BY <1>1, ImageFinite
  <2> QED BY <1>1, <2>1
<1>3. Cardinality(C) = 1 <=> \E c : C = {c}
  <2> HIDE DEF C
  <2> QED BY <1>2, FS_Singleton
<1>4. ASSUME NEW c, C = {c} PROVE OneClock(X)
  <2>1. \A t \in X : t.clock = c
    BY <1>4
  <2> QED BY <2>1 DEF OneClock
<1>5. ASSUME OneClock(X) PROVE \E c : C = {c}
  <2>1. PICK u \in X : TRUE
    OBVIOUS
  <2>2. \A t \in X : t.clock = u.clock
    BY <1>5 DEF OneClock
  <2>3. C = {u.clock}
    BY <2>1, <2>2
  <2> QED BY <2>3
<1> QED BY <1>3, <1>4, <1>5

\* What TypeFrom gives, case by case.
LEMMA TypeFromCases ==
    ASSUME NEW X, IsFiniteSet(X)
    PROVE  /\ X = {} => TypeFrom(X) = Static
           /\ \A c, rs : /\ X # {} /\ OneClock(X) /\ (\A u \in X : u.clock = c)
                         /\ rs = UNION {u.resets : u \in X}
                         => TypeFrom(X) = Sync(c, rs)
           /\ ~OneClock(X) => TypeFrom(X) = Async
<1> DEFINE clocks == {t.clock : t \in {u \in X : u.is = "sync"}}
<1>1. X = {} => TypeFrom(X) = Static
  BY DEF TypeFrom
<1>2. ASSUME NEW c, NEW rs, X # {}, OneClock(X), \A u \in X : u.clock = c,
             rs = UNION {u.resets : u \in X}
      PROVE  TypeFrom(X) = Sync(c, rs)
  <2>1. \A t \in X : t.is = "sync"
    BY <1>2 DEF OneClock
  <2>2. {u \in X : u.is = "sync"} = X
    BY <2>1
  <2>3. clocks = {t.clock : t \in X}
    BY <2>2
  <2>4. Cardinality(clocks) = 1
    BY <1>2, <2>1, <2>3, ClocksAgree
  <2>5. (CHOOSE x \in clocks : TRUE) = c
    <3>1. clocks = {c}
      BY <1>2, <2>3
    <3> QED BY <3>1
  <2> QED BY <1>2, <2>1, <2>4, <2>5 DEF TypeFrom
<1>3. ASSUME ~OneClock(X) PROVE TypeFrom(X) = Async
  <2>1. X # {}
    BY <1>3 DEF OneClock
  <2>2. CASE \A t \in X : t.is = "sync"
    <3>1. {u \in X : u.is = "sync"} = X
      BY <2>2
    <3>2. clocks = {t.clock : t \in X}
      BY <3>1
    <3>3. Cardinality(clocks) # 1
      BY <1>3, <2>1, <2>2, <3>2, ClocksAgree
    <3> QED BY <2>1, <3>3 DEF TypeFrom
  <2>3. CASE ~(\A t \in X : t.is = "sync")
    BY <2>1, <2>3 DEF TypeFrom
  <2> QED BY <2>2, <2>3
<1> QED BY <1>1, <1>2, <1>3

\* The type of a set of sources sums them up and is a type.
LEMMA TypeFromSumsUp ==
    ASSUME NEW X, IsFiniteSet(X)
    PROVE  SumsUp(TypeFrom(X), X) /\ TypeFrom(X) # NoType
<1>1. CASE X = {}
  <2>1. TypeFrom(X) = Static /\ OneClock(X)
    BY <1>1, TypeFromCases DEF OneClock
  <2>2. Static # NoType
    <3>1. Static.is # NoType.is
      BY DEF Static, NoType
    <3> QED BY <3>1
  <2> QED BY <1>1, <2>1, <2>2 DEF SumsUp
<1>2. CASE X # {} /\ OneClock(X)
  <2>1. PICK u \in X : TRUE
    BY <1>2
  <2>2. \A v \in X : v.clock = u.clock
    BY <1>2 DEF OneClock
  <2> DEFINE rs == UNION {v.resets : v \in X}
             c == u.clock
             t == Sync(c, rs)
  <2>3. TypeFrom(X) = t
    BY <1>2, <2>2, TypeFromCases
  <2>4. t.is = "sync" /\ t.clock = c /\ t.resets = rs
    BY DEF Sync
  <2>5. t # NoType
    <3>1. t.is # NoType.is
      BY <2>4 DEF NoType
    <3> QED BY <3>1
  <2>6. \A v \in X : t.clock = v.clock
    BY <2>2, <2>4
  <2>7. t.resets = UNION {v.resets : v \in X}
    BY <2>4
  <2> HIDE DEF t, c, rs
  <2> QED BY <1>2, <2>3, <2>4, <2>5, <2>6, <2>7 DEF SumsUp
<1>3. CASE ~OneClock(X)
  <2>1. TypeFrom(X) = Async /\ X # {}
    BY <1>3, TypeFromCases DEF OneClock
  <2>2. Async.is = "async" /\ Async # NoType
    <3>1. Async.is = "async" /\ Async.is # NoType.is
      BY DEF Async, NoType
    <3> QED BY <3>1
  <2> QED BY <1>3, <2>1, <2>2 DEF SumsUp
<1> QED BY <1>1, <1>2, <1>3

\* S holds types that sum up the sources src of the members of M, X all of them.
Pooled(M, ty, src, S, X) ==
    /\ M # {} /\ \A m \in M : SumsUp(ty[m], src[m])
    /\ \A t : t \in S <=> \E m \in M : t = ty[m]
    /\ IsFiniteSet(X) /\ \A u : u \in X <=> \E m \in M : u \in src[m]

\* Merging types that sum up sets of sources sums up their union.
LEMMA MergeSumsUp ==
    ASSUME NEW M, NEW ty, NEW src, NEW S, NEW X, Pooled(M, ty, src, S, X)
    PROVE  Merge(S) = TypeFrom(X)
<1>p. /\ M # {} /\ \A m \in M : SumsUp(ty[m], src[m])
      /\ \A t : t \in S <=> \E m \in M : t = ty[m]
      /\ IsFiniteSet(X) /\ \A u : u \in X <=> \E m \in M : u \in src[m]
  BY DEF Pooled
<1> DEFINE syncs == {t \in S : t.is = "sync"}
<1>0. Async.is = "async" /\ Static.is = "static"
  BY <1>p DEF Async, Static
<1>1. CASE X = {}
  <2>1. \A m \in M : ty[m] = Static
    <3>1. \A m \in M : src[m] = {}
      BY <1>p, <1>1
    <3> QED BY <1>p, <3>1 DEF SumsUp
  <2>2. S = {Static}
    BY <1>p, <2>1
  <2>3. Merge(S) = Static
    BY <1>p, <1>0, <2>2 DEF Merge
  <2> QED BY <1>p, <1>1, <2>3, TypeFromCases
<1>2. CASE X # {} /\ OneClock(X)
  <2>1. PICK u \in X : TRUE
    BY <1>p, <1>2
  <2>2. \A v \in X : v.clock = u.clock
    BY <1>p, <1>2 DEF OneClock
  <2>3. \A m \in M : OneClock(src[m]) /\ src[m] \subseteq X
    BY <1>p, <1>2 DEF OneClock
  <2>4. \A m \in M : IF src[m] = {} THEN ty[m] = Static
                     ELSE /\ ty[m].is = "sync" /\ ty[m].clock = u.clock
                          /\ ty[m].resets = UNION {v.resets : v \in src[m]}
    BY <1>p, <2>2, <2>3 DEF SumsUp
  <2>5. \A t \in S : t = Static \/ (t.is = "sync" /\ t.clock = u.clock)
    BY <1>p, <2>4
  <2>6. PICK k \in M : u \in src[k]
    BY <1>p, <2>1
  <2>7. ty[k] \in syncs
    BY <1>p, <2>4, <2>6
  <2>8. (CHOOSE t \in syncs : TRUE).clock = u.clock
    <3>1. \A t \in syncs : t.clock = u.clock
      BY <1>p, <1>0, <2>5
    <3>2. (CHOOSE t \in syncs : TRUE) \in syncs
      BY <1>p, <2>7
    <3> HIDE DEF syncs
    <3> QED BY <1>p, <3>1, <3>2
  <2>9. UNION {t.resets : t \in syncs} = UNION {v.resets : v \in X}
    <3>1. ASSUME NEW t \in syncs, NEW x \in t.resets PROVE x \in UNION {v.resets : v \in X}
      <4>1. PICK m \in M : t = ty[m]
        BY <1>p
      <4>2. src[m] # {}
        BY <1>p, <1>0, <2>4, <3>1, <4>1
      <4>3. x \in UNION {v.resets : v \in src[m]}
        BY <1>p, <2>4, <3>1, <4>1, <4>2
      <4> QED BY <1>p, <2>3, <4>3
    <3>2. ASSUME NEW v \in X, NEW x \in v.resets PROVE x \in UNION {t.resets : t \in syncs}
      <4>1. PICK m \in M : v \in src[m]
        BY <1>p
      <4>2. ty[m] \in syncs /\ x \in ty[m].resets
        BY <1>p, <2>4, <3>2, <4>1
      <4> QED BY <1>p, <4>2
    <3> HIDE DEF syncs
    <3>3. \A x : x \in UNION {t.resets : t \in syncs} => x \in UNION {v.resets : v \in X}
      BY <1>p, <3>1
    <3>4. \A x : x \in UNION {v.resets : v \in X} => x \in UNION {t.resets : t \in syncs}
      BY <1>p, <3>2
    <3> QED BY <1>p, <3>3, <3>4
  <2>10. ~\E t \in S : t.is \in {"async", "clock", "reset"}
    BY <1>p, <1>0, <2>5
  <2>11. ~\E t, v \in syncs : t.clock # v.clock
    BY <1>p, <1>0, <2>5
  <2>12. Merge(S) = Sync((CHOOSE t \in syncs : TRUE).clock, UNION {t.resets : t \in syncs})
    <3>1. Merge(S) = IF \/ \E t \in S : t.is \in {"async", "clock", "reset"}
                        \/ \E t, v \in syncs : t.clock # v.clock
                     THEN Async
                     ELSE IF syncs # {}
                     THEN Sync((CHOOSE t \in syncs : TRUE).clock, UNION {t.resets : t \in syncs})
                     ELSE IF Static \in S THEN Static ELSE Async
      BY <1>p DEF Merge
    <3> HIDE DEF syncs
    <3> QED BY <1>p, <2>7, <2>10, <2>11, <3>1
  <2> DEFINE rs == UNION {v.resets : v \in X}
             c == u.clock
  <2>13. Merge(S) = Sync(c, rs)
    BY <1>p, <2>8, <2>9, <2>12
  <2>14. TypeFrom(X) = Sync(c, rs)
    BY <1>p, <1>2, <2>2, TypeFromCases
  <2> QED BY <1>p, <2>13, <2>14
<1>3. CASE ~OneClock(X)
  <2>1. CASE \E m \in M : ~OneClock(src[m])
    <3>1. \E t \in S : t.is \in {"async", "clock", "reset"}
      BY <1>p, <2>1 DEF SumsUp
    <3>2. Merge(S) = Async
      BY <1>p, <3>1 DEF Merge
    <3> QED BY <1>p, <1>3, <3>2, TypeFromCases
  <2>2. CASE \A m \in M : OneClock(src[m])
    <3>1. PICK t \in X : \E u \in X : ~(t.is = "sync" /\ t.clock = u.clock)
      BY <1>p, <1>3 DEF OneClock
    <3>2. PICK u \in X : ~(t.is = "sync" /\ t.clock = u.clock)
      BY <1>p, <3>1
    <3>3. PICK k \in M : t \in src[k]
      BY <1>p
    <3>4. PICK l \in M : u \in src[l]
      BY <1>p
    <3>5. t.is = "sync"
      BY <1>p, <2>2, <3>3 DEF OneClock
    <3>6. /\ ty[k].is = "sync" /\ ty[k].clock = t.clock
          /\ ty[l].is = "sync" /\ ty[l].clock = u.clock
      BY <1>p, <2>2, <3>3, <3>4 DEF SumsUp
    <3>7. ty[k] \in syncs /\ ty[l] \in syncs /\ ty[k].clock # ty[l].clock
      BY <1>p, <3>2, <3>5, <3>6
    <3>8. Merge(S) = Async
      BY <1>p, <3>7 DEF Merge
    <3> QED BY <1>p, <1>3, <3>8, TypeFromCases
  <2> QED BY <1>p, <2>1, <2>2
<1> QED BY <1>p, <1>1, <1>2, <1>3

\* A source sums up itself.
LEMMA SourceSumsUp ==
    ASSUME NEW t, t.is \in SourceClasses
    PROVE  SumsUp(t, {t})
<1>1. UNION {u.resets : u \in {t}} = t.resets
  OBVIOUS
<1>2. OneClock({t}) <=> t.is = "sync"
  BY DEF OneClock
<1> QED BY <1>1, <1>2 DEF SumsUp, SourceClasses

\* The sources of nodes are finitely many and of the classes that are seeded.
LEMMA SourcesOfNodes ==
    ASSUME g \in Graphs, NEW S \in SUBSET Nodes(g)
    PROVE  /\ IsFiniteSet(Sources(S))
           /\ \A t \in Sources(S) : t.is \in SourceClasses
           /\ ConeType(S) = TypeFrom(Sources(S))
<1> DEFINE I == {k \in S : g.kind[k] = "input"}
           f == [k \in I |-> g.seed[k]]
<1>1. IsFiniteSet(I)
  <2>1. I \in SUBSET Nodes(g)
    OBVIOUS
  <2> QED BY <2>1, GraphShape, FS_Subset
<1>2. DOMAIN f = I /\ Sources(S) = {f[k] : k \in DOMAIN f}
  BY DEF Sources
<1>3. IsFiniteSet(Sources(S))
  <2> HIDE DEF f, I
  <2> QED BY <1>1, <1>2, ImageFinite
<1>4. \A t \in Sources(S) : t.is \in SourceClasses
  <2>1. DOMAIN g.seed = {n \in Nodes(g) : g.kind[n] = "input"}
    BY GraphsAssumption DEF GraphsWellFormed
  <2>2. \A n \in DOMAIN g.seed : g.seed[n].is \in SourceClasses
    BY GraphsAssumption DEF GraphsWellFormed, SourceClasses
  <2> QED BY <2>1, <2>2 DEF Sources
<1>5. ConeType(S) = TypeFrom(Sources(S))
  BY DEF ConeType, TypeFrom
<1> QED BY <1>3, <1>4, <1>5

\* The sources in the cone of a node, by its kind.
LEMMA SourcesOfCone ==
    ASSUME g \in Graphs, NEW n \in Nodes(g)
    PROVE  /\ g.kind[n] = "input" => Sources(Cone(n)) = {g.seed[n]}
           /\ g.kind[n] = "const" => Sources(Cone(n)) = {}
           /\ g.kind[n] = "op" => Sources(Cone(n)) = UNION {Sources(Cone(m)) : m \in Read(n)}
           /\ Read(n) \in SUBSET Nodes(g) /\ (Read(n) # {} => g.kind[n] = "op")
<1>1. Cone(n) = {n} \cup UNION {Cone(m) : m \in InputsOf(g, n)}
  BY ConeStep
<1>2. InputsOf(g, n) \in SUBSET Nodes(g) /\ (g.kind[n] # "op" => InputsOf(g, n) = {})
  BY GraphShape
<1>3. ASSUME g.kind[n] # "op" PROVE Cone(n) = {n}
  BY <1>1, <1>2, <1>3
<1>4. ASSUME g.kind[n] = "input" PROVE Sources(Cone(n)) = {g.seed[n]}
  BY <1>3, <1>4 DEF Sources
<1>5. ASSUME NEW m \in Nodes(g), g.kind[m] = "const" PROVE Sources(Cone(m)) = {}
  <2>1. InputsOf(g, m) = {}
    BY <1>5, GraphShape
  <2>2. Cone(m) = {m}
    BY <2>1, ConeStep
  <2> QED BY <1>5, <2>2 DEF Sources
<1>6. ASSUME g.kind[n] = "op" PROVE Sources(Cone(n)) = UNION {Sources(Cone(m)) : m \in Read(n)}
  <2>1. ASSUME NEW t \in Sources(Cone(n)) PROVE \E m \in Read(n) : t \in Sources(Cone(m))
    <3>1. PICK k \in Cone(n) : g.kind[k] = "input" /\ t = g.seed[k]
      BY DEF Sources
    <3>2. k # n
      BY <1>6, <3>1
    <3>3. PICK m \in InputsOf(g, n) : k \in Cone(m)
      BY <1>1, <3>2
    <3>4. t \in Sources(Cone(m))
      BY <3>1, <3>3 DEF Sources
    <3>5. g.kind[m] # "const"
      BY <1>2, <1>5, <3>4
    <3> QED BY <3>3, <3>4, <3>5 DEF Read
  <2>2. ASSUME NEW m \in Read(n), NEW t \in Sources(Cone(m)) PROVE t \in Sources(Cone(n))
    <3>1. Cone(m) \subseteq Cone(n)
      BY <1>1 DEF Read
    <3> QED BY <2>2, <3>1 DEF Sources
  <2> QED BY <2>1, <2>2
<1>7. Read(n) \in SUBSET Nodes(g) /\ (Read(n) # {} => g.kind[n] = "op")
  BY <1>2 DEF Read
<1> QED BY <1>4, <1>5, <1>6, <1>7

\* The merge of the types of what a node reads is the type of its cone.
LEMMA MergeOfRead ==
    ASSUME g \in Graphs, NEW n \in Nodes(g), Read(n) # {}, NEW ty,
           \A m \in Read(n) : SumsUp(ty[m], Sources(Cone(m)))
    PROVE  Merge({ty[m] : m \in Read(n)}) = ConeType(Cone(n))
<1>1. Read(n) \in SUBSET Nodes(g) /\ g.kind[n] = "op"
      /\ Sources(Cone(n)) = UNION {Sources(Cone(m)) : m \in Read(n)}
  BY SourcesOfCone
<1>2. Cone(n) \in SUBSET Nodes(g)
  BY ConeLeast
<1>3. IsFiniteSet(Sources(Cone(n))) /\ ConeType(Cone(n)) = TypeFrom(Sources(Cone(n)))
  BY <1>2, SourcesOfNodes
<1> DEFINE src == [m \in Read(n) |-> Sources(Cone(m))]
           X == Sources(Cone(n))
           S == {ty[m] : m \in Read(n)}
<1>4. \A u : u \in X <=> \E m \in Read(n) : u \in src[m]
  BY <1>1
<1>5. \A m \in Read(n) : SumsUp(ty[m], src[m])
  OBVIOUS
<1>6. \A t : t \in S <=> \E m \in Read(n) : t = ty[m]
  OBVIOUS
<1>7. Pooled(Read(n), ty, src, S, X)
  <2> HIDE DEF src, S
  <2> QED BY <1>3, <1>4, <1>5, <1>6 DEF Pooled
<1>8. Merge(S) = TypeFrom(X)
  <2> HIDE DEF src, X, S
  <2> QED BY <1>7, MergeSumsUp
<1> QED BY <1>3, <1>8

\* What is said of the graph stays true with it.
LEMMA GraphKept ==
    ASSUME g' = g
    PROVE  /\ Nodes(g)' = Nodes(g)
           /\ \A n : InputsOf(g, n)' = InputsOf(g, n) /\ Read(n)' = Read(n)
           /\ \A n : Cone(n)' = Cone(n) /\ LoopsBack(n)' = LoopsBack(n)
           /\ \A f : Leaves(f)' = Leaves(f) /\ ConeOfD(f)' = ConeOfD(f)
           /\ \A S : Sources(S)' = Sources(S) /\ LoopFree(S)' = LoopFree(S) /\ ConeType(S)' = ConeType(S)
           /\ \A f : Crosses(f)' = Crosses(f) /\ HasNonConstFanin(f)' = HasNonConstFanin(f)
<1>1. Nodes(g)' = Nodes(g) /\ \A n : InputsOf(g, n)' = InputsOf(g, n)
  BY DEF Nodes, InputsOf
<1>2. \A n : Read(n)' = Read(n)
  BY <1>1 DEF Read
<1>3. \A n : Cone(n)' = Cone(n)
  BY DEF Cone, Nodes, InputsOf
<1>4. \A n : LoopsBack(n)' = LoopsBack(n)
  BY <1>1, <1>3 DEF LoopsBack
<1>5. \A f : Leaves(f)' = Leaves(f)
  BY DEF Leaves
<1>6. \A f : ConeOfD(f)' = ConeOfD(f)
  BY <1>3, <1>5 DEF ConeOfD
<1>7. \A S : Sources(S)' = Sources(S)
  BY DEF Sources
<1>8. \A S : LoopFree(S)' = LoopFree(S)
  BY <1>4 DEF LoopFree
<1>9. \A S : ConeType(S)' = ConeType(S)
  <2>1. \A S : ConeType(S) = TypeFrom(Sources(S)) /\ ConeType(S)' = TypeFrom(Sources(S)')
    BY DEF ConeType, TypeFrom
  <2> QED BY <1>7, <2>1
<1>10. \A f : Crosses(f)' = Crosses(f) /\ HasNonConstFanin(f)' = HasNonConstFanin(f)
  BY <1>6, <1>7 DEF Crosses, HasNonConstFanin
<1> QED BY <1>1, <1>2, <1>3, <1>4, <1>5, <1>6, <1>7, <1>8, <1>9, <1>10

-----------------------------------------------------------------------------
(* The types of the variables.                                             *)

TypeInv == TypeOK /\ stack \in Seq(Nodes(g))

\* What the well-formedness of the graphs says of the flops.
LEMMA FlopShape ==
    ASSUME g \in Graphs
    PROVE  /\ DOMAIN g.flops = 1 .. Len(g.flops) /\ Len(g.flops) \in Nat
           /\ \A f \in DOMAIN g.flops : g.flops[f].d \in Seq(Nodes(g)) /\ Leaves(f) \in SUBSET Nodes(g)
           /\ \A f \in DOMAIN g.flops : g.flops[f].sync \in BOOLEAN
           /\ \A f \in DOMAIN g.flops : ConeOfD(f) \in SUBSET Nodes(g)
<1> DEFINE Flops == [d : Seq(Nodes(g)), clock : Nat, sync : BOOLEAN]
<1>1. g.flops \in Seq(Flops)
  BY GraphsAssumption DEF GraphsWellFormed
<1>2. \A r \in Flops : r.d \in Seq(Nodes(g)) /\ r.sync \in BOOLEAN
  OBVIOUS
<1> HIDE DEF Flops
<1>3. DOMAIN g.flops = 1 .. Len(g.flops) /\ Len(g.flops) \in Nat
  BY <1>1
<1>4. \A f \in DOMAIN g.flops : g.flops[f] \in Flops
  BY <1>1
<1>5. \A f \in DOMAIN g.flops : g.flops[f].d \in Seq(Nodes(g)) /\ g.flops[f].sync \in BOOLEAN
  BY <1>2, <1>4
<1>6. ASSUME NEW f \in DOMAIN g.flops PROVE Leaves(f) \in SUBSET Nodes(g)
  <2>1. g.flops[f].d \in Seq(Nodes(g))
    BY <1>5
  <2>2. \A i \in DOMAIN g.flops[f].d : g.flops[f].d[i] \in Nodes(g)
    BY <2>1
  <2> QED BY <2>2 DEF Leaves
<1>7. ASSUME NEW f \in DOMAIN g.flops PROVE ConeOfD(f) \in SUBSET Nodes(g)
  <2>1. \A n \in Leaves(f) : Cone(n) \in SUBSET Nodes(g)
    BY <1>6, ConeLeast
  <2> QED BY <2>1 DEF ConeOfD
<1> QED BY <1>3, <1>5, <1>6, <1>7

\* The first pending element is one.
LEMMA FirstIsPending ==
    ASSUME g \in Graphs, NEW s \in Seq(Nodes(g)), Pending(s) # {}
    PROVE  \E i \in DOMAIN s : /\ FirstPending(s) = s[i] /\ s[i] \in Nodes(g)
                               /\ g.kind[s[i]] # "const" /\ s[i] \notin DOMAIN memo
<1>1. Pending(s) \in SUBSET Nat
  BY DEF Pending
<1>2. \E i \in Pending(s) : \A j \in Pending(s) : i <= j
  BY <1>1, LeastNatural
<1> DEFINE i == CHOOSE i \in Pending(s) : \A j \in Pending(s) : i <= j
<1>3. i \in Pending(s) /\ FirstPending(s) = s[i]
  BY <1>2 DEF FirstPending
<1> HIDE DEF i
<1>4. i \in DOMAIN s /\ g.kind[s[i]] # "const" /\ s[i] \notin DOMAIN memo
  BY <1>3 DEF Pending
<1>5. s[i] \in Nodes(g)
  BY <1>4
<1> QED BY <1>3, <1>4, <1>5

\* What CallFanin puts on the stack.
LEMMA Called ==
    ASSUME g \in Graphs, stack \in Seq(Nodes(g)), NEW f \in DOMAIN g.flops, CallFanin(f)
    PROVE  \E n \in Nodes(g) :
             /\ g.kind[n] # "const" /\ n \notin DOMAIN memo
             /\ IF stack = <<>> THEN n \in Leaves(f) ELSE n \in InputsOf(g, stack[1])
             /\ \/ (\E i \in DOMAIN stack : stack[i] = n) /\ phase' = "overflow" /\ stack' = stack
                \/ ~(\E i \in DOMAIN stack : stack[i] = n) /\ phase' = phase /\ stack' = <<n>> \o stack
<1> DEFINE s == IF stack = <<>> THEN g.flops[f].d ELSE g.in[Head(stack)]
           n == FirstPending(s)
<1>1. s \in Seq(Nodes(g))
  <2>1. CASE stack = <<>>
    BY <2>1, FlopShape
  <2>2. CASE stack # <<>>
    <3>1. Head(stack) \in Nodes(g)
      BY <2>2
    <3> QED BY <2>2, <3>1, GraphShape
  <2> QED BY <2>1, <2>2
<1>2. /\ Pending(s) # {}
      /\ IF \E i \in DOMAIN stack : stack[i] = n
         THEN phase' = "overflow" /\ UNCHANGED stack
         ELSE stack' = <<n>> \o stack /\ UNCHANGED phase
  BY DEF CallFanin
<1>3. PICK i \in DOMAIN s : n = s[i] /\ s[i] \in Nodes(g) /\ g.kind[s[i]] # "const" /\ s[i] \notin DOMAIN memo
  <2> HIDE DEF s
  <2> QED BY <1>1, <1>2, FirstIsPending
<1>4. IF stack = <<>> THEN n \in Leaves(f) ELSE n \in InputsOf(g, stack[1])
  <2>1. CASE stack = <<>>
    BY <1>3, <2>1 DEF Leaves
  <2>2. CASE stack # <<>>
    <3>1. Head(stack) = stack[1]
      BY <2>2
    <3> QED BY <1>3, <2>2, <3>1 DEF InputsOf
  <2> QED BY <2>1, <2>2
<1> HIDE DEF n, s
<1> QED BY <1>2, <1>3, <1>4

\* The variables start with their types.
LEMMA InitTypes == Init => TypeInv
<1> SUFFICES ASSUME Init PROVE TypeInv
  OBVIOUS
<1>1. g \in Graphs /\ nodeSync = g.seed /\ stack = <<>> /\ phase = "sweep" /\ pos = 1 /\ flop = 1
  BY DEF Init
<1>2. DOMAIN g.seed \in SUBSET Nodes(g)
  BY <1>1, GraphsAssumption DEF GraphsWellFormed
<1>3. pos \in 1 .. Len(g.kind) + 1 /\ flop \in 1 .. Len(g.flops) + 1
  BY <1>1, GraphShape, FlopShape
<1>4. changed = FALSE /\ DOMAIN memo = {} /\ DOMAIN dSync = {} /\ synchronizers \subseteq DOMAIN g.flops
  BY DEF Init
<1>5. stack \in Seq(Nodes(g)) /\ DOMAIN stack = {}
  BY <1>1
<1> QED BY <1>1, <1>2, <1>3, <1>4, <1>5 DEF TypeInv, TypeOK

\* A step of the recursion.
LEMMA CallTypes ==
    ASSUME TypeInv, NEW f \in DOMAIN g.flops, CallFanin(f)
    PROVE  TypeInv'
<1>1. g' = g /\ UNCHANGED <<sweepVars, flop, memo, dSync, synchronizers>>
  BY DEF CallFanin
<1>2. g \in Graphs /\ stack \in Seq(Nodes(g))
  BY DEF TypeInv, TypeOK
<1>3. PICK n \in Nodes(g) :
        \/ phase' = "overflow" /\ stack' = stack
        \/ ~(\E i \in DOMAIN stack : stack[i] = n) /\ phase' = phase /\ stack' = <<n>> \o stack
  BY <1>2, Called
<1>4. Nodes(g)' = Nodes(g)
  BY <1>1, GraphKept
<1>5. /\ stack' \in Seq(Nodes(g))
      /\ \A i, j \in DOMAIN stack' : stack'[i] \in Nodes(g) /\ (stack'[i] = stack'[j] => i = j)
  <2>1. CASE stack' = stack
    BY <1>2, <2>1 DEF TypeInv, TypeOK
  <2>2. CASE ~(\E i \in DOMAIN stack : stack[i] = n) /\ stack' = <<n>> \o stack
    <3>1. \A i, j \in DOMAIN stack : stack[i] = stack[j] => i = j
      BY DEF TypeInv, TypeOK
    <3>2. stack' \in Seq(Nodes(g)) /\ DOMAIN stack' = 1 .. Len(stack) + 1 /\ DOMAIN stack = 1 .. Len(stack)
      BY <1>2, <2>2
    <3>3. \A i \in DOMAIN stack' : stack'[i] = IF i = 1 THEN n ELSE stack[i - 1]
      BY <1>2, <2>2, <3>2
    <3>4. \A i \in DOMAIN stack' : i # 1 => i - 1 \in DOMAIN stack
      BY <1>2, <3>2
    <3>5. \A i \in DOMAIN stack' : i \in Nat
      BY <3>2
    <3> QED BY <2>2, <3>1, <3>2, <3>3, <3>4, <3>5
  <2> QED BY <1>3, <2>1, <2>2
<1>6. phase' \in {"sweep", "dtypes", "cdc", "loops"} \cup Final
  BY <1>3 DEF TypeInv, TypeOK, Final
<1> QED BY <1>1, <1>4, <1>5, <1>6 DEF TypeInv, TypeOK, sweepVars

\* A return takes the node off the stack and into the memo.
LEMMA ReturnTypes ==
    ASSUME TypeInv, NEW f \in DOMAIN g.flops, ReturnFanin(f)
    PROVE  TypeInv'
<1>1. /\ g' = g /\ UNCHANGED <<phase, sweepVars, flop, dSync, synchronizers>>
      /\ stack # <<>> /\ stack' = Tail(stack)
      /\ memo' = Put(memo, Head(stack), FromInputs(Head(stack)))
  BY DEF ReturnFanin
<1>2. stack \in Seq(Nodes(g))
  BY DEF TypeInv
<1>3. /\ Head(stack) \in Nodes(g) /\ stack' \in Seq(Nodes(g))
      /\ DOMAIN stack' = 1 .. Len(stack) - 1 /\ DOMAIN stack = 1 .. Len(stack) /\ Len(stack) \in Nat
      /\ \A i \in DOMAIN stack' : stack'[i] = stack[i + 1]
  BY <1>1, <1>2
<1>4. DOMAIN memo' = DOMAIN memo \cup {Head(stack)}
  BY <1>1 DEF Put
<1>5. \A i, j \in DOMAIN stack' : stack'[i] \in Nodes(g) /\ (stack'[i] = stack'[j] => i = j)
  <2>1. \A i, j \in DOMAIN stack : stack[i] = stack[j] => i = j
    BY DEF TypeInv, TypeOK
  <2>2. \A i \in DOMAIN stack' : i + 1 \in DOMAIN stack /\ stack[i + 1] \in Nodes(g) /\ i \in Nat
    BY <1>2, <1>3
  <2> QED BY <1>3, <2>1, <2>2
<1>6. Nodes(g)' = Nodes(g)
  BY <1>1, GraphKept
<1> QED BY <1>1, <1>3, <1>4, <1>5, <1>6 DEF TypeInv, TypeOK, sweepVars

\* Every step keeps the types.
LEMMA StepTypes ==
    ASSUME TypeInv, [Next]_vars
    PROVE  TypeInv'
<1>0. /\ g \in Graphs /\ stack \in Seq(Nodes(g))
      /\ phase \in {"sweep", "dtypes", "cdc", "loops"} \cup Final
      /\ DOMAIN nodeSync \subseteq Nodes(g) /\ pos \in 1 .. Len(g.kind) + 1 /\ changed \in BOOLEAN
      /\ flop \in 1 .. Len(g.flops) + 1 /\ synchronizers \subseteq DOMAIN g.flops
      /\ DOMAIN memo \subseteq Nodes(g) /\ DOMAIN dSync \subseteq DOMAIN g.flops
      /\ \A i, j \in DOMAIN stack : stack[i] \in Nodes(g) /\ (stack[i] = stack[j] => i = j)
  BY DEF TypeInv, TypeOK
<1>n. /\ Nodes(g) = 1 .. Len(g.kind) /\ Len(g.kind) \in Nat
      /\ DOMAIN g.flops = 1 .. Len(g.flops) /\ Len(g.flops) \in Nat
  BY <1>0, GraphShape, FlopShape
<1>1. CASE SweepNode
  <2>1. /\ g' = g /\ pos \in Nodes(g) /\ pos' = pos + 1 /\ phase' = phase /\ flop' = flop
        /\ UNCHANGED coneVars /\ synchronizers' = synchronizers
        /\ \/ nodeSync' = nodeSync /\ changed' = changed
           \/ nodeSync' = Put(nodeSync, pos, Computed(pos)) /\ changed' = TRUE
    BY <1>1 DEF SweepNode
  <2>2. DOMAIN nodeSync' \subseteq Nodes(g) /\ changed' \in BOOLEAN
    BY <1>0, <2>1 DEF Put
  <2>3. pos' \in 1 .. Len(g.kind) + 1
    BY <1>n, <2>1
  <2>4. Nodes(g)' = Nodes(g)
    BY <2>1, GraphKept
  <2> QED BY <1>0, <2>1, <2>2, <2>3, <2>4 DEF TypeInv, TypeOK, coneVars
<1>2. CASE SweepAgain
  <2>1. /\ g' = g /\ pos' = 1 /\ changed' = FALSE /\ phase' \in {"sweep", "dtypes"}
        /\ UNCHANGED <<nodeSync, flop, coneVars, synchronizers>>
    BY <1>2 DEF SweepAgain
  <2>2. pos' \in 1 .. Len(g.kind) + 1 /\ Nodes(g)' = Nodes(g)
    BY <1>n, <2>1, GraphKept
  <2> QED BY <1>0, <2>1, <2>2 DEF TypeInv, TypeOK, coneVars
<1>3. ASSUME NEW f \in DOMAIN g.flops, StaticD(f) \/ TypedD(f) PROVE TypeInv'
  <2>1. /\ g' = g /\ f = flop /\ flop' = flop + 1 /\ UNCHANGED <<phase, sweepVars, stack, synchronizers>>
        /\ DOMAIN memo' = {} /\ DOMAIN dSync' = DOMAIN dSync \cup {f}
    BY <1>3 DEF StaticD, TypedD, Typing, NextFlop, Put
  <2>2. flop' \in 1 .. Len(g.flops) + 1 /\ Nodes(g)' = Nodes(g)
    BY <1>n, <2>1, GraphKept
  <2> QED BY <1>0, <2>1, <2>2 DEF TypeInv, TypeOK, sweepVars
<1>4. ASSUME NEW f \in DOMAIN g.flops, CallFanin(f) PROVE TypeInv'
  BY <1>4, CallTypes
<1>5. ASSUME NEW f \in DOMAIN g.flops, ReturnFanin(f) PROVE TypeInv'
  BY <1>5, ReturnTypes
<1>6. ASSUME NEW f \in DOMAIN g.flops, CheckFlop(f) PROVE TypeInv'
  <2>1. /\ g' = g /\ f = flop /\ UNCHANGED <<sweepVars, coneVars>>
        /\ \/ phase' = "crossing" /\ flop' = flop /\ synchronizers' = synchronizers
           \/ flop' = f + 1 /\ phase' = phase /\ synchronizers' \subseteq synchronizers \cup {f}
    BY <1>6 DEF CheckFlop
  <2>2. flop' \in 1 .. Len(g.flops) + 1 /\ Nodes(g)' = Nodes(g)
    BY <1>0, <1>n, <2>1, GraphKept
  <2>3. phase' \in {"sweep", "dtypes", "cdc", "loops"} \cup Final /\ synchronizers' \subseteq DOMAIN g.flops
    BY <1>0, <2>1 DEF Final
  <2> QED BY <1>0, <2>1, <2>2, <2>3 DEF TypeInv, TypeOK, sweepVars, coneVars
<1>7. CASE AllTyped \/ AllChecked \/ ValidateNoCombLoops
  <2>1. /\ g' = g /\ UNCHANGED <<sweepVars, coneVars, synchronizers>> /\ flop' \in {1, flop}
        /\ phase' \in {"cdc", "loops", "accepted", "loop"}
    BY <1>7 DEF AllTyped, AllChecked, ValidateNoCombLoops
  <2>2. flop' \in 1 .. Len(g.flops) + 1 /\ Nodes(g)' = Nodes(g)
    BY <1>0, <1>n, <2>1, GraphKept
  <2>3. phase' \in {"sweep", "dtypes", "cdc", "loops"} \cup Final
    BY <2>1 DEF Final
  <2> QED BY <1>0, <2>1, <2>2, <2>3 DEF TypeInv, TypeOK, sweepVars, coneVars
<1>8. CASE Finished \/ UNCHANGED vars
  <2>1. UNCHANGED vars
    BY <1>8 DEF Finished
  <2>2. g' = g /\ UNCHANGED <<phase, sweepVars, flop, coneVars, synchronizers>>
    BY <2>1 DEF vars
  <2>3. Nodes(g)' = Nodes(g)
    BY <2>2, GraphKept
  <2> QED BY <1>0, <2>2, <2>3 DEF TypeInv, TypeOK, sweepVars, coneVars
<1> QED BY <1>1, <1>2, <1>3, <1>4, <1>5, <1>6, <1>7, <1>8 DEF Next, Steps

-----------------------------------------------------------------------------
(* The sweep.                                                              *)

\* The graph compiled stays the same.
LEMMA GraphFixed == ASSUME [Next]_vars PROVE g' = g
<1>1. CASE Next
  BY <1>1 DEF Next, Steps, SweepNode, SweepAgain, StaticD, CallFanin, ReturnFanin, TypedD,
              CheckFlop, AllTyped, AllChecked, ValidateNoCombLoops, Finished, vars
<1> QED BY <1>1 DEF vars

\* A source keeps the type it was seeded with.
SeedsKept == \A n \in DOMAIN g.seed : n \in DOMAIN nodeSync /\ nodeSync[n] = g.seed[n]

\* A node is typed or waits for one that it reads.
Stuck(n) == n \in DOMAIN nodeSync \/ \E m \in Read(n) : m \notin DOMAIN nodeSync

\* What a sweep without a change has passed is stuck, and so is all at its end.
SweptUp ==
    /\ phase = "sweep" /\ ~changed => \A n \in Nodes(g) : n < pos => Stuck(n)
    /\ phase # "sweep" => \A n \in Nodes(g) : Stuck(n)

\* No step changes the type of a source.
LEMMA SeedsStep ==
    ASSUME IInv, SeedsKept, [Next]_vars
    PROVE  SeedsKept'
<1>1. TypesKept /\ g' = g
  BY StepKeeps, GraphFixed
<1> QED BY <1>1 DEF SeedsKept, TypesKept

\* Whether a node is stuck depends on the types found only.
LEMMA StuckKept ==
    ASSUME g' = g, nodeSync' = nodeSync
    PROVE  \A n : Stuck(n)' = Stuck(n)
<1>1. \A n : Read(n)' = Read(n)
  BY GraphKept
<1> QED BY <1>1 DEF Stuck

\* A sweep that ends without a change has left every node stuck.
LEMMA SweptStep ==
    ASSUME TypeInv, SweptUp, [Next]_vars
    PROVE  SweptUp'
<1>0. g \in Graphs /\ changed \in BOOLEAN /\ pos \in 1 .. Len(g.kind) + 1
  BY DEF TypeInv, TypeOK
<1>g. g' = g /\ Nodes(g)' = Nodes(g)
  BY GraphFixed, GraphKept
<1>n. Nodes(g) = 1 .. Len(g.kind) /\ Len(g.kind) \in Nat
  BY <1>0, GraphShape
<1>1. CASE SweepNode
  <2>1. phase = "sweep" /\ phase' = "sweep" /\ pos \in Nodes(g) /\ pos' = pos + 1
    BY <1>1 DEF SweepNode
  <2>2. CASE nodeSync' = nodeSync /\ changed' = changed
             /\ (Skipped(pos) \/ pos \in DOMAIN nodeSync)
    <3>1. \A n : Stuck(n)' = Stuck(n)
      BY <1>g, <2>2, StuckKept
    <3>2. Stuck(pos)
      BY <2>2 DEF Stuck, Skipped
    <3>3. \A n \in Nodes(g) : n < pos' => n < pos \/ n = pos
      BY <1>n, <2>1
    <3> QED BY <1>g, <2>1, <2>2, <3>1, <3>2, <3>3 DEF SweptUp
  <2>3. CASE changed' = TRUE
    BY <2>1, <2>3 DEF SweptUp
  <2>4. \/ nodeSync' = nodeSync /\ changed' = changed /\ (Skipped(pos) \/ pos \in DOMAIN nodeSync)
        \/ changed' = TRUE
    BY <1>1 DEF SweepNode
  <2> QED BY <2>2, <2>3, <2>4
<1>2. CASE SweepAgain
  <2>1. /\ phase = "sweep" /\ pos \notin Nodes(g) /\ pos' = 1 /\ nodeSync' = nodeSync
        /\ phase' = IF changed THEN "sweep" ELSE "dtypes"
    BY <1>2 DEF SweepAgain
  <2>2. \A n : Stuck(n)' = Stuck(n)
    BY <1>g, <2>1, StuckKept
  <2>3. \A n \in Nodes(g) : n < pos
    BY <1>0, <1>n, <2>1
  <2>4. \A n \in Nodes(g) : ~(n < 1)
    BY <1>n
  <2>5. CASE changed
    BY <1>g, <2>1, <2>4, <2>5 DEF SweptUp
  <2>6. CASE ~changed
    BY <1>g, <2>1, <2>2, <2>3, <2>6 DEF SweptUp
  <2> QED BY <2>5, <2>6
<1>3. CASE phase # "sweep" /\ phase' # "sweep" /\ nodeSync' = nodeSync
  <2>1. \A n : Stuck(n)' = Stuck(n)
    BY <1>g, <1>3, StuckKept
  <2> QED BY <1>g, <1>3, <2>1 DEF SweptUp
<1>4. CASE UNCHANGED vars
  <2>1. phase' = phase /\ nodeSync' = nodeSync /\ changed' = changed /\ pos' = pos
    BY <1>4 DEF vars, sweepVars
  <2>2. \A n : Stuck(n)' = Stuck(n)
    BY <1>g, <2>1, StuckKept
  <2> QED BY <1>g, <2>1, <2>2 DEF SweptUp
<1>5. ASSUME NEW f \in DOMAIN g.flops, StaticD(f) \/ CallFanin(f) \/ ReturnFanin(f) \/ TypedD(f) \/ CheckFlop(f)
      PROVE  phase # "sweep" /\ phase' # "sweep" /\ nodeSync' = nodeSync
  <2>1. phase \in {"dtypes", "cdc"} /\ phase' \in {phase, "overflow", "crossing"}
    BY <1>5 DEF StaticD, CallFanin, ReturnFanin, TypedD, CheckFlop, Typing
  <2>2. nodeSync' = nodeSync
    BY <1>5 DEF StaticD, CallFanin, ReturnFanin, TypedD, CheckFlop, sweepVars
  <2> QED BY <2>1, <2>2
<1>6. ASSUME AllTyped \/ AllChecked \/ ValidateNoCombLoops
      PROVE  phase # "sweep" /\ phase' # "sweep" /\ nodeSync' = nodeSync
  BY <1>6 DEF AllTyped, AllChecked, ValidateNoCombLoops, sweepVars
<1>7. ASSUME Finished PROVE UNCHANGED vars
  BY <1>7 DEF Finished
<1> QED BY <1>1, <1>2, <1>3, <1>4, <1>5, <1>6, <1>7 DEF Next, Steps

\* Once the sweeps have ended, every node that is no constant and below no loop
\* has the type of its cone.
LEMMA SweepFinds ==
    ASSUME IInv, SeedsKept, SweptUp, phase # "sweep",
           NEW n \in Nodes(g), g.kind[n] # "const", LoopFree(Cone(n))
    PROVE  /\ n \in DOMAIN nodeSync /\ SumsUp(nodeSync[n], Sources(Cone(n)))
           /\ g.kind[n] = "op" => nodeSync[n] = ConeType(Cone(n))
<1> DEFINE Found(m) == /\ m \in DOMAIN nodeSync /\ SumsUp(nodeSync[m], Sources(Cone(m)))
                       /\ g.kind[m] = "op" => nodeSync[m] = ConeType(Cone(m))
           Bad == {m \in Nodes(g) : g.kind[m] # "const" /\ LoopFree(Cone(m)) /\ ~Found(m)}
           Sizes == {Cardinality(Cone(m)) : m \in Bad}
<1>0. g \in Graphs
  BY DEF IInv
<1>1. ASSUME NEW m \in Nodes(g), g.kind[m] = "input" PROVE Found(m)
  <2>1. m \in DOMAIN g.seed /\ g.seed[m].is \in SourceClasses
    BY <1>0, <1>1, GraphsAssumption DEF GraphsWellFormed, SourceClasses
  <2>2. m \in DOMAIN nodeSync /\ nodeSync[m] = g.seed[m]
    BY <2>1 DEF SeedsKept
  <2>3. Sources(Cone(m)) = {g.seed[m]}
    BY <1>0, <1>1, SourcesOfCone
  <2>4. SumsUp(g.seed[m], {g.seed[m]})
    BY <2>1, SourceSumsUp
  <2> QED BY <1>1, <2>2, <2>3, <2>4
<1>2. ASSUME NEW m \in Nodes(g), g.kind[m] = "op", \A k \in Read(m) : Found(k), Stuck(m) PROVE Found(m)
  <2>1. \A k \in Read(m) : k \in DOMAIN nodeSync /\ SumsUp(nodeSync[k], Sources(Cone(k)))
    BY <1>2
  <2>2. m \in DOMAIN nodeSync
    BY <1>2, <2>1 DEF Stuck
  <2>3. nodeSync[m] = Computed(m)
    BY <1>2, <2>2 DEF IInv, TypesComputed
  <2>4. Cone(m) \in SUBSET Nodes(g)
    BY <1>0, ConeLeast
  <2>5. /\ IsFiniteSet(Sources(Cone(m))) /\ ConeType(Cone(m)) = TypeFrom(Sources(Cone(m)))
    BY <1>0, <2>4, SourcesOfNodes
  <2>6. Sources(Cone(m)) = UNION {Sources(Cone(k)) : k \in Read(m)}
    BY <1>0, <1>2, SourcesOfCone
  <2>7. Computed(m) = ConeType(Cone(m))
    <3>1. CASE Read(m) = {}
      <4>1. Sources(Cone(m)) = {}
        BY <2>6, <3>1
      <4>2. TypeFrom({}) = Static
        BY <2>5, <4>1, TypeFromCases
      <4> QED BY <2>5, <3>1, <4>1, <4>2 DEF Computed
    <3>2. CASE Read(m) # {}
      <4>1. Merge({nodeSync[k] : k \in Read(m)}) = ConeType(Cone(m))
        BY <1>0, <2>1, <3>2, MergeOfRead
      <4> QED BY <3>2, <4>1 DEF Computed
    <3> QED BY <3>1, <3>2
  <2>8. SumsUp(TypeFrom(Sources(Cone(m))), Sources(Cone(m)))
    BY <2>5, TypeFromSumsUp
  <2> QED BY <2>2, <2>3, <2>5, <2>7, <2>8
<1>3. ASSUME NEW m \in Nodes(g), LoopFree(Cone(m)), NEW k \in Read(m)
      PROVE  /\ k \in Nodes(g) /\ g.kind[k] # "const" /\ LoopFree(Cone(k))
             /\ Cardinality(Cone(k)) \in Nat /\ Cardinality(Cone(m)) \in Nat
             /\ Cardinality(Cone(k)) < Cardinality(Cone(m))
  <2>1. k \in InputsOf(g, m) /\ g.kind[k] # "const"
    BY <1>3 DEF Read
  <2>2. ~LoopsBack(m)
    BY <1>0, <1>3, ConeLeast DEF LoopFree
  <2>3. /\ k \in Nodes(g) /\ Cone(k) \subseteq Cone(m)
        /\ Cardinality(Cone(k)) \in Nat /\ Cardinality(Cone(m)) \in Nat
        /\ Cardinality(Cone(k)) < Cardinality(Cone(m))
    BY <1>0, <2>1, <2>2, ConeSmaller
  <2> QED BY <1>3, <2>1, <2>3 DEF LoopFree
<1>4. \A m \in Nodes(g) : Cardinality(Cone(m)) \in Nat
  <2> TAKE m \in Nodes(g)
  <2>1. Cone(m) \in SUBSET Nodes(g)
    BY <1>0, ConeLeast
  <2>2. IsFiniteSet(Cone(m))
    BY <1>0, <2>1, GraphShape, FS_Subset
  <2> QED BY <2>2, FS_CardinalityType
<1>5. \A m \in Nodes(g) : g.kind[m] \in {"input", "const", "op"}
  BY <1>0, GraphShape
<1>6. \A m \in Nodes(g) : Stuck(m)
  BY DEF SweptUp
<1> HIDE DEF Found
<1>7. Bad = {}
  <2> SUFFICES ASSUME Bad # {} PROVE FALSE
    OBVIOUS
  <2>1. Sizes \in SUBSET Nat /\ Sizes # {}
    BY <1>4
  <2>2. PICK s \in Sizes : \A t \in Sizes : s <= t
    <3> HIDE DEF Sizes
    <3> QED BY <2>1, LeastNatural
  <2>3. PICK m \in Bad : s = Cardinality(Cone(m))
    BY <2>2
  <2>4. m \in Nodes(g) /\ g.kind[m] # "const" /\ LoopFree(Cone(m)) /\ ~Found(m)
    OBVIOUS
  <2>5. g.kind[m] = "op"
    BY <1>1, <1>5, <2>4
  <2>6. ~\A k \in Read(m) : Found(k)
    BY <1>2, <1>6, <2>4, <2>5
  <2>7. PICK k \in Read(m) : ~Found(k)
    BY <2>6
  <2>8. k \in Bad /\ Cardinality(Cone(k)) < s /\ Cardinality(Cone(k)) \in Nat /\ s \in Nat
    BY <1>3, <2>3, <2>4, <2>7
  <2>9. s <= Cardinality(Cone(k))
    BY <2>2, <2>8
  <2> QED BY <2>8, <2>9
<1> QED BY <1>7 DEF Found

-----------------------------------------------------------------------------
(* The recursion over the cone of a D.                                     *)

\* A call is for a node in the cone of every call that waits for it.
StackBelow == \A i, j \in DOMAIN stack : i <= j => stack[i] \in Cone(stack[j])

\* The memo sums up the sources of a node's cone, and has no type for none.
MemoSumsUp ==
    \A n \in DOMAIN memo :
        IF Sources(Cone(n)) = {} THEN memo[n] = NoType ELSE SumsUp(memo[n], Sources(Cone(n)))

\* A call is for an input of the node on top, hence in the cones of all below.
LEMMA BelowStep ==
    ASSUME TypeInv, StackBelow, [Next]_vars
    PROVE  StackBelow'
<1>0. g \in Graphs /\ stack \in Seq(Nodes(g))
  BY DEF TypeInv, TypeOK
<1>s. DOMAIN stack = 1 .. Len(stack) /\ Len(stack) \in Nat /\ \A i \in DOMAIN stack : stack[i] \in Nodes(g)
  BY <1>0
<1>g. g' = g /\ \A n : Cone(n)' = Cone(n)
  BY GraphFixed, GraphKept
<1>1. CASE stack' = stack
  BY <1>1, <1>g DEF StackBelow
<1>2. ASSUME NEW f \in DOMAIN g.flops, CallFanin(f), stack' # stack PROVE StackBelow'
  <2>1. PICK n \in Nodes(g) : /\ IF stack = <<>> THEN n \in Leaves(f) ELSE n \in InputsOf(g, stack[1])
                              /\ stack' = <<n>> \o stack
    BY <1>0, <1>2, Called
  <2>2. \A j \in DOMAIN stack : n \in Cone(stack[j])
    <3> TAKE j \in DOMAIN stack
    <3>1. 1 \in DOMAIN stack /\ 1 <= j /\ stack # <<>>
      BY <1>s
    <3>2. stack[1] \in Cone(stack[j]) /\ stack[j] \in Nodes(g)
      BY <1>s, <3>1 DEF StackBelow
    <3>3. Closed(Cone(stack[j]))
      BY <1>0, <3>2, ConeLeast
    <3> QED BY <2>1, <3>1, <3>2, <3>3 DEF Closed
  <2>3. n \in Cone(n)
    BY <1>0, ConeLeast
  <2>4. DOMAIN stack' = 1 .. Len(stack) + 1
    BY <1>0, <2>1
  <2>5. \A i \in DOMAIN stack' : stack'[i] = IF i = 1 THEN n ELSE stack[i - 1]
    BY <1>0, <2>1, <2>4
  <2>6. \A i \in DOMAIN stack' : i \in Nat /\ (i # 1 => i - 1 \in DOMAIN stack /\ i > 1)
    BY <1>s, <2>4
  <2>7. ASSUME NEW i \in DOMAIN stack', NEW j \in DOMAIN stack', i <= j PROVE stack'[i] \in Cone(stack'[j])
    <3>1. CASE j = 1
      <4>1. i = 1
        BY <2>6, <2>7, <3>1
      <4> QED BY <2>3, <2>5, <3>1, <4>1
    <3>2. CASE j # 1 /\ i = 1
      BY <2>2, <2>5, <2>6, <3>2
    <3>3. CASE j # 1 /\ i # 1
      <4>1. i - 1 \in DOMAIN stack /\ j - 1 \in DOMAIN stack /\ i - 1 <= j - 1
        BY <2>6, <2>7, <3>3
      <4>2. stack[i - 1] \in Cone(stack[j - 1])
        BY <4>1 DEF StackBelow
      <4> QED BY <2>5, <3>3, <4>2
    <3> QED BY <3>1, <3>2, <3>3
  <2> QED BY <1>g, <2>7 DEF StackBelow
<1>3. ASSUME NEW f \in DOMAIN g.flops, ReturnFanin(f) PROVE StackBelow'
  <2>1. stack # <<>> /\ stack' = Tail(stack)
    BY <1>3 DEF ReturnFanin
  <2>2. DOMAIN stack' = 1 .. Len(stack) - 1 /\ \A i \in DOMAIN stack' : stack'[i] = stack[i + 1]
    BY <1>0, <2>1
  <2>3. \A i, j \in DOMAIN stack' : i <= j => i + 1 \in DOMAIN stack /\ j + 1 \in DOMAIN stack /\ i + 1 <= j + 1
    BY <1>s, <2>2
  <2> QED BY <1>g, <2>2, <2>3 DEF StackBelow
<1>4. ASSUME NEW f \in DOMAIN g.flops, StaticD(f) \/ TypedD(f) \/ CheckFlop(f) PROVE stack' = stack
  BY <1>4 DEF StaticD, TypedD, CheckFlop, coneVars
<1>5. ASSUME SweepNode \/ SweepAgain \/ AllTyped \/ AllChecked \/ ValidateNoCombLoops \/ Finished \/ UNCHANGED vars
      PROVE  stack' = stack
  BY <1>5 DEF SweepNode, SweepAgain, AllTyped, AllChecked, ValidateNoCombLoops, Finished, coneVars, vars
<1> QED BY <1>1, <1>2, <1>3, <1>4, <1>5 DEF Next, Steps

\* The memo's types merge to the type of what their nodes' cones hold.
LEMMA MemoMerge ==
    ASSUME g \in Graphs, MemoSumsUp, NEW K \in SUBSET Nodes(g),
           \A m \in K : g.kind[m] # "const" => m \in DOMAIN memo,
           NEW X, X = UNION {Sources(Cone(m)) : m \in K}, IsFiniteSet(X)
    PROVE  /\ X = {} => TypesOf(K) = {}
           /\ X # {} => TypesOf(K) # {} /\ Merge(TypesOf(K)) = TypeFrom(X)
<1> DEFINE M == {m \in K : Sources(Cone(m)) # {}}
           src == [m \in M |-> Sources(Cone(m))]
<1>1. \A m \in M : m \in DOMAIN memo /\ g.kind[m] # "const"
  <2> TAKE m \in M
  <2>1. g.kind[m] # "const"
    BY SourcesOfCone
  <2> QED BY <2>1
<1>2. \A m \in M : SumsUp(memo[m], src[m]) /\ memo[m] # NoType
  <2> TAKE m \in M
  <2>1. SumsUp(memo[m], Sources(Cone(m))) /\ Sources(Cone(m)) # {}
    BY <1>1 DEF MemoSumsUp
  <2>2. memo[m].is # "none"
    BY <2>1 DEF SumsUp
  <2>3. NoType.is = "none"
    BY DEF NoType
  <2>4. memo[m] # NoType
    BY <2>2, <2>3
  <2> QED BY <2>1, <2>4
<1>3. \A m \in K \ M : g.kind[m] # "const" => memo[m] = NoType
  BY DEF MemoSumsUp
<1>4. TypesOf(K) = {memo[m] : m \in M}
  BY <1>1, <1>2, <1>3 DEF TypesOf
<1>5. \A u : u \in X <=> \E m \in M : u \in src[m]
  OBVIOUS
<1>6. CASE X = {}
  <2>1. M = {}
    BY <1>6
  <2> QED BY <1>4, <1>6, <2>1
<1>7. CASE X # {}
  <2>1. M # {}
    BY <1>7
  <2>2. \A t : t \in TypesOf(K) <=> \E m \in M : t = memo[m]
    BY <1>4
  <2>p. Pooled(M, memo, src, TypesOf(K), X)
    <3> HIDE DEF M, src
    <3> QED BY <1>2, <1>5, <2>1, <2>2 DEF Pooled
  <2>3. Merge(TypesOf(K)) = TypeFrom(X)
    <3> HIDE DEF M, src
    <3> QED BY <2>p, MergeSumsUp
  <2> QED BY <1>4, <1>7, <2>1, <2>3
<1> QED BY <1>6, <1>7

\* A return gives the node the type of its cone.
LEMMA FromInputsSumsUp ==
    ASSUME g \in Graphs, SeedsKept, MemoSumsUp, NEW n \in Nodes(g),
           \A m \in Read(n) : m \in DOMAIN memo
    PROVE  IF Sources(Cone(n)) = {} THEN FromInputs(n) = NoType
           ELSE SumsUp(FromInputs(n), Sources(Cone(n)))
<1>k. g.kind[n] \in {"input", "const", "op"}
  BY GraphShape
<1>0. /\ g.kind[n] = "input" => Sources(Cone(n)) = {g.seed[n]}
      /\ g.kind[n] = "const" => Sources(Cone(n)) = {}
      /\ g.kind[n] = "op" => Sources(Cone(n)) = UNION {Sources(Cone(m)) : m \in Read(n)}
      /\ Read(n) \in SUBSET Nodes(g) /\ (Read(n) # {} => g.kind[n] = "op")
  BY SourcesOfCone
<1>1. CASE g.kind[n] = "input"
  <2>1. n \in DOMAIN g.seed /\ g.seed[n].is \in SourceClasses
    BY <1>1, GraphsAssumption DEF GraphsWellFormed, SourceClasses
  <2>2. n \in DOMAIN nodeSync /\ nodeSync[n] = g.seed[n]
    BY <2>1 DEF SeedsKept
  <2>3. FromInputs(n) = g.seed[n]
    BY <1>0, <1>1, <2>2 DEF FromInputs, FromSeed
  <2>4. SumsUp(g.seed[n], {g.seed[n]})
    BY <2>1, SourceSumsUp
  <2> QED BY <1>0, <1>1, <2>3, <2>4
<1>2. CASE g.kind[n] # "input" /\ Read(n) = {}
  <2>1. Sources(Cone(n)) = {}
    BY <1>0, <1>2, <1>k
  <2> QED BY <1>2, <2>1 DEF FromInputs, FromSeed
<1>3. CASE Read(n) # {}
  <2> DEFINE X == Sources(Cone(n))
  <2>1. X = UNION {Sources(Cone(m)) : m \in Read(n)}
    BY <1>0, <1>3
  <2>2. IsFiniteSet(X)
    BY ConeLeast, SourcesOfNodes
  <2>3. SumsUp(TypeFrom(X), X)
    <3> HIDE DEF X
    <3> QED BY <2>2, TypeFromSumsUp
  <2>4. /\ X = {} => TypesOf(Read(n)) = {}
        /\ X # {} => TypesOf(Read(n)) # {} /\ Merge(TypesOf(Read(n))) = TypeFrom(X)
    <3> HIDE DEF X
    <3> QED BY <1>0, <2>1, <2>2, MemoMerge
  <2> QED BY <1>3, <2>3, <2>4 DEF FromInputs
<1> QED BY <1>1, <1>2, <1>3

\* The memo is extended by the type of a cone, or cleared.
LEMMA MemoStep ==
    ASSUME TypeInv, SeedsKept, MemoSumsUp, [Next]_vars
    PROVE  MemoSumsUp'
<1>0. g \in Graphs /\ stack \in Seq(Nodes(g))
  BY DEF TypeInv, TypeOK
<1>g. g' = g /\ (\A n : Cone(n)' = Cone(n)) /\ (\A S : Sources(S)' = Sources(S))
  BY GraphFixed, GraphKept
<1>h. \A n : Sources(Cone(n))' = Sources(Cone(n))
  BY <1>g
<1>1. CASE memo' = memo
  BY <1>1, <1>h DEF MemoSumsUp
<1>2. CASE DOMAIN memo' = {}
  BY <1>2 DEF MemoSumsUp
<1>3. ASSUME NEW f \in DOMAIN g.flops, ReturnFanin(f) PROVE MemoSumsUp'
  <2> DEFINE n == Head(stack)
  <2>1. /\ stack # <<>> /\ Pending(g.in[n]) = {}
        /\ memo' = Put(memo, n, FromInputs(n))
    BY <1>3 DEF ReturnFanin
  <2>2. n \in Nodes(g)
    BY <1>0, <2>1
  <2> HIDE DEF n
  <2>3. \A m \in Read(n) : m \in DOMAIN memo
    BY <2>1 DEF Read, InputsOf, Pending
  <2>4. IF Sources(Cone(n)) = {} THEN FromInputs(n) = NoType
        ELSE SumsUp(FromInputs(n), Sources(Cone(n)))
    BY <1>0, <2>2, <2>3, FromInputsSumsUp
  <2>5. DOMAIN memo' = DOMAIN memo \cup {n} /\ \A m \in DOMAIN memo' : memo'[m] = IF m = n THEN FromInputs(n) ELSE memo[m]
    BY <2>1 DEF Put
  <2>6. ASSUME NEW m \in DOMAIN memo'
        PROVE  IF Sources(Cone(m)) = {} THEN memo'[m] = NoType ELSE SumsUp(memo'[m], Sources(Cone(m)))
    <3>1. CASE m = n
      BY <2>4, <2>5, <3>1
    <3>2. CASE m # n
      <4>1. m \in DOMAIN memo /\ memo'[m] = memo[m]
        BY <2>5, <3>2
      <4> QED BY <4>1 DEF MemoSumsUp
    <3> QED BY <3>1, <3>2
  <2> QED BY <1>h, <2>6 DEF MemoSumsUp
<1>4. ASSUME NEW f \in DOMAIN g.flops, StaticD(f) \/ TypedD(f) PROVE DOMAIN memo' = {}
  BY <1>4 DEF StaticD, TypedD, NextFlop
<1>5. ASSUME NEW f \in DOMAIN g.flops, CallFanin(f) \/ CheckFlop(f) PROVE memo' = memo
  BY <1>5 DEF CallFanin, CheckFlop, coneVars
<1>6. ASSUME SweepNode \/ SweepAgain \/ AllTyped \/ AllChecked \/ ValidateNoCombLoops \/ Finished \/ UNCHANGED vars
      PROVE  memo' = memo
  BY <1>6 DEF SweepNode, SweepAgain, AllTyped, AllChecked, ValidateNoCombLoops, Finished, coneVars, vars
<1> QED BY <1>1, <1>2, <1>3, <1>4, <1>5, <1>6 DEF Next, Steps

-----------------------------------------------------------------------------
(* The types of the D inputs, the check and the search for loops.          *)

Checking == {"cdc", "crossing", "loops", "accepted", "loop"}

\* Every D that has been typed has the type of its cone, and once the flops are
\* checked every D has been.
DTypesFound ==
    /\ \A f \in DOMAIN dSync : dSync[f] = ConeType(ConeOfD(f))
    /\ phase = "sweep" => flop = 1
    /\ phase = "dtypes" => \A f \in DOMAIN g.flops : f < flop => f \in DOMAIN dSync
    /\ phase \in Checking => DOMAIN dSync = DOMAIN g.flops

\* The flops that the check has passed.
Checked(f) == (phase = "cdc" /\ f < flop) \/ phase \in {"loops", "accepted", "loop"}

\* The synchronizers are the declared ones and the crossings passed, none of
\* which is passed unless synchronizers are inferred.
ExemptForCause ==
    phase # "crossing" =>
        synchronizers = {f \in DOMAIN g.flops : g.flops[f].sync \/ (Checked(f) /\ Crosses(f))}
NoneInferred == ~g.infer => \A f \in synchronizers : g.flops[f].sync

\* What a verdict rests on.
Verdicts == RejectedForCause /\ (phase = "accepted" => LoopFree(Nodes(g)))

\* The sources of a D's cone are those of the cones of its leaves.
LEMMA SourcesOfD ==
    ASSUME g \in Graphs, NEW f \in DOMAIN g.flops
    PROVE  /\ Sources(ConeOfD(f)) = UNION {Sources(Cone(m)) : m \in Leaves(f)}
           /\ IsFiniteSet(Sources(ConeOfD(f)))
           /\ ConeType(ConeOfD(f)) = TypeFrom(Sources(ConeOfD(f)))
           /\ HasNonConstFanin(f) <=> Sources(ConeOfD(f)) # {}
<1>1. ConeOfD(f) \in SUBSET Nodes(g)
  BY FlopShape
<1>2. Sources(ConeOfD(f)) = UNION {Sources(Cone(m)) : m \in Leaves(f)}
  BY DEF Sources, ConeOfD
<1>3. HasNonConstFanin(f) <=> Sources(ConeOfD(f)) # {}
  BY DEF HasNonConstFanin, Sources
<1> QED BY <1>1, <1>2, <1>3, SourcesOfNodes

\* A D is given the type of its cone, by either way of finding it.
LEMMA DTypesStep ==
    ASSUME TypeInv, MemoSumsUp, DTypesFound, [Next]_vars
    PROVE  DTypesFound'
<1>0. g \in Graphs /\ DOMAIN dSync \subseteq DOMAIN g.flops /\ flop \in 1 .. Len(g.flops) + 1
  BY DEF TypeInv, TypeOK
<1>n. DOMAIN g.flops = 1 .. Len(g.flops) /\ Len(g.flops) \in Nat
  BY <1>0, FlopShape
<1>g. g' = g /\ (\A f : ConeOfD(f)' = ConeOfD(f)) /\ (\A S : ConeType(S)' = ConeType(S))
  BY GraphFixed, GraphKept
<1>h. \A f : ConeType(ConeOfD(f))' = ConeType(ConeOfD(f))
  BY <1>g
<1>1. ASSUME NEW f \in DOMAIN g.flops, phase = "dtypes", phase' = "dtypes", f = flop, flop' = flop + 1,
             dSync' = Put(dSync, f, ConeType(ConeOfD(f)))
      PROVE  DTypesFound'
  <2>1. DOMAIN dSync' = DOMAIN dSync \cup {f}
        /\ \A x \in DOMAIN dSync' : dSync'[x] = IF x = f THEN ConeType(ConeOfD(f)) ELSE dSync[x]
    BY <1>1 DEF Put
  <2>2. \A x \in DOMAIN dSync' : dSync'[x] = ConeType(ConeOfD(x))
    BY <2>1 DEF DTypesFound
  <2>3. \A x \in DOMAIN g.flops : x < flop' => x < flop \/ x = f
    BY <1>n, <1>0, <1>1
  <2>4. \A x \in DOMAIN g.flops : x < flop' => x \in DOMAIN dSync'
    BY <1>1, <2>1, <2>3 DEF DTypesFound
  <2> QED BY <1>1, <1>g, <1>h, <2>2, <2>4 DEF DTypesFound, Checking
<1>2. ASSUME NEW f \in DOMAIN g.flops, StaticD(f) PROVE DTypesFound'
  <2>1. /\ phase = "dtypes" /\ phase' = "dtypes" /\ f = flop /\ flop' = flop + 1
        /\ ~HasNonConstFanin(f) /\ dSync' = Put(dSync, f, Static)
    BY <1>2 DEF StaticD, Typing, NextFlop
  <2>2. ConeType(ConeOfD(f)) = Static
    <3>1. Sources(ConeOfD(f)) = {}
      BY <1>0, <2>1, SourcesOfD
    <3> QED BY <3>1 DEF ConeType
  <2> QED BY <1>1, <2>1, <2>2
<1>3. ASSUME NEW f \in DOMAIN g.flops, TypedD(f) PROVE DTypesFound'
  <2>1. /\ phase = "dtypes" /\ phase' = "dtypes" /\ f = flop /\ flop' = flop + 1
        /\ HasNonConstFanin(f) /\ Pending(g.flops[f].d) = {}
        /\ dSync' = Put(dSync, f, IF TypesOf(Leaves(f)) = {} THEN NoType ELSE Merge(TypesOf(Leaves(f))))
    BY <1>3 DEF TypedD, Typing, NextFlop
  <2> DEFINE X == Sources(ConeOfD(f))
  <2>2. /\ X = UNION {Sources(Cone(m)) : m \in Leaves(f)} /\ IsFiniteSet(X)
        /\ ConeType(ConeOfD(f)) = TypeFrom(X) /\ X # {}
    BY <1>0, <2>1, SourcesOfD
  <2>3. \A m \in Leaves(f) : g.kind[m] # "const" => m \in DOMAIN memo
    BY <2>1 DEF Leaves, Pending
  <2>4. Leaves(f) \in SUBSET Nodes(g)
    BY <1>0, FlopShape
  <2>5. TypesOf(Leaves(f)) # {} /\ Merge(TypesOf(Leaves(f))) = TypeFrom(X)
    <3> HIDE DEF X
    <3> QED BY <1>0, <2>2, <2>3, <2>4, MemoMerge
  <2>6. dSync' = Put(dSync, f, ConeType(ConeOfD(f)))
    <3> HIDE DEF X
    <3> QED BY <2>1, <2>2, <2>5
  <2> QED BY <1>1, <2>1, <2>6
<1>4. CASE /\ dSync' = dSync /\ flop' = flop /\ phase # "sweep" /\ phase' # "sweep"
           /\ phase' = "dtypes" => phase = "dtypes"
           /\ phase' \in Checking => phase \in Checking
  BY <1>4, <1>g, <1>h DEF DTypesFound
<1>5. CASE dSync' = dSync /\ flop' = flop /\ phase = "sweep" /\ phase' \in {"sweep", "dtypes"}
  <2>1. \A f \in DOMAIN g.flops : ~(f < 1)
    BY <1>n
  <2> QED BY <1>5, <1>g, <1>h, <2>1 DEF DTypesFound, Checking
<1>6. CASE AllTyped
  <2>1. phase = "dtypes" /\ phase' = "cdc" /\ dSync' = dSync /\ flop \notin DOMAIN g.flops
    BY <1>6 DEF AllTyped, coneVars
  <2>2. \A f \in DOMAIN g.flops : f < flop
    BY <1>0, <1>n, <2>1
  <2>3. DOMAIN dSync = DOMAIN g.flops
    BY <1>0, <2>1, <2>2 DEF DTypesFound
  <2> QED BY <1>g, <1>h, <2>1, <2>3 DEF DTypesFound
<1>7. ASSUME NEW f \in DOMAIN g.flops, CheckFlop(f) PROVE DTypesFound'
  <2>1. phase = "cdc" /\ phase' \in {"cdc", "crossing"} /\ dSync' = dSync
    BY <1>7 DEF CheckFlop, coneVars
  <2> QED BY <1>g, <1>h, <2>1 DEF DTypesFound, Checking
<1>8. ASSUME NEW f \in DOMAIN g.flops, CallFanin(f) \/ ReturnFanin(f)
      PROVE  dSync' = dSync /\ flop' = flop /\ phase = "dtypes" /\ phase' \in {"dtypes", "overflow"}
  BY <1>8 DEF CallFanin, ReturnFanin, Typing
<1>9. ASSUME SweepNode \/ SweepAgain
      PROVE  dSync' = dSync /\ flop' = flop /\ phase = "sweep" /\ phase' \in {"sweep", "dtypes"}
  BY <1>9 DEF SweepNode, SweepAgain, coneVars
<1>10. ASSUME AllChecked \/ ValidateNoCombLoops
       PROVE  dSync' = dSync /\ flop' = flop /\ phase \in Checking /\ phase' \in {"loops", "accepted", "loop"}
  BY <1>10 DEF AllChecked, ValidateNoCombLoops, coneVars, Checking
<1>11. ASSUME Finished \/ UNCHANGED vars PROVE DTypesFound'
  <2>1. UNCHANGED vars
    BY <1>11 DEF Finished
  <2>2. dSync' = dSync /\ flop' = flop /\ phase' = phase
    BY <2>1 DEF vars, coneVars
  <2> QED BY <1>g, <1>h, <2>2 DEF DTypesFound
<1> QED BY <1>2, <1>3, <1>4, <1>5, <1>6, <1>7, <1>8, <1>9, <1>10, <1>11 DEF Next, Steps, Checking

\* The check's question is whether something sampled is of another domain.
LEMMA OwnDomainIffNotCrossing ==
    ASSUME g \in Graphs, NEW f \in DOMAIN g.flops
    PROVE  /\ OwnDomain(f, ConeType(ConeOfD(f))) <=> ~Crosses(f)
           /\ ConeType(ConeOfD(f)) # NoType
<1> DEFINE X == Sources(ConeOfD(f))
           t == TypeFrom(X)
<1>1. IsFiniteSet(X) /\ ConeType(ConeOfD(f)) = t
  BY SourcesOfD
<1>2. SumsUp(t, X) /\ t # NoType
  <2> HIDE DEF X
  <2> QED BY <1>1, TypeFromSumsUp
<1>3. Crosses(f) <=> \E u \in X : u.is # "sync" \/ u.clock # g.flops[f].clock
  BY DEF Crosses
<1>4. OwnDomain(f, t) <=> t = Static \/ (t.is = "sync" /\ t.clock = g.flops[f].clock)
  BY DEF OwnDomain
<1>5. Static.is = "static"
  BY DEF Static
<1> HIDE DEF X, t
<1>6. OwnDomain(f, t) <=> ~Crosses(f)
  <2>1. CASE X = {}
    BY <1>2, <1>3, <1>4, <2>1 DEF SumsUp
  <2>2. CASE X # {} /\ OneClock(X)
    <3>1. t.is = "sync" /\ \A u \in X : t.clock = u.clock /\ u.is = "sync"
      BY <1>2, <2>2 DEF SumsUp, OneClock
    <3> QED BY <1>3, <1>4, <1>5, <2>2, <3>1
  <2>3. CASE ~OneClock(X)
    <3>1. t.is \in {"async", "clock", "reset"}
      BY <1>2, <2>3 DEF SumsUp
    <3>2. ~OwnDomain(f, t)
      BY <1>4, <1>5, <3>1
    <3>3. Crosses(f)
      BY <1>3, <2>3 DEF OneClock
    <3> QED BY <3>2, <3>3
  <2> QED BY <2>1, <2>2, <2>3
<1> QED BY <1>1, <1>2, <1>6

\* A call for a node that is being computed goes round a loop.
LEMMA RepeatedCallLoops ==
    ASSUME TypeInv, StackBelow, NEW f \in DOMAIN g.flops, CallFanin(f), phase' = "overflow"
    PROVE  ~LoopFree(Nodes(g))
<1>0. g \in Graphs /\ stack \in Seq(Nodes(g)) /\ phase # "overflow"
  BY DEF TypeInv, TypeOK, CallFanin, Typing
<1>1. PICK n \in Nodes(g) : /\ IF stack = <<>> THEN n \in Leaves(f) ELSE n \in InputsOf(g, stack[1])
                            /\ \E i \in DOMAIN stack : stack[i] = n
  BY <1>0, Called
<1>2. PICK i \in DOMAIN stack : stack[i] = n
  BY <1>1
<1>3. 1 \in DOMAIN stack /\ 1 <= i /\ stack # <<>> /\ stack[1] \in Nodes(g)
  BY <1>0, <1>2
<1>4. n \in InputsOf(g, stack[1]) /\ stack[1] \in Cone(n)
  BY <1>1, <1>2, <1>3 DEF StackBelow
<1>5. LoopsBack(n)
  <2>1. CASE stack[1] = n
    <3>1. n \in Cone(n)
      BY <1>0, ConeLeast
    <3> QED BY <1>4, <2>1, <3>1 DEF LoopsBack
  <2>2. CASE stack[1] # n
    <3>1. Cone(n) = {n} \cup UNION {Cone(m) : m \in InputsOf(g, n)}
      BY <1>0, ConeStep
    <3>2. PICK m \in InputsOf(g, n) : stack[1] \in Cone(m)
      BY <1>4, <2>2, <3>1
    <3>3. m \in Nodes(g)
      BY <1>0, GraphShape
    <3>4. Closed(Cone(m))
      BY <1>0, <3>3, ConeLeast
    <3>5. n \in Cone(m)
      BY <1>4, <3>2, <3>4 DEF Closed
    <3> QED BY <3>2, <3>5 DEF LoopsBack
  <2> QED BY <2>1, <2>2
<1> QED BY <1>5 DEF LoopFree

\* One flop of the check.
LEMMA CheckStep ==
    ASSUME TypeInv, DTypesFound, ExemptForCause, NoneInferred, Verdicts,
           NEW f \in DOMAIN g.flops, CheckFlop(f)
    PROVE  ExemptForCause' /\ NoneInferred' /\ Verdicts'
<1>0. g \in Graphs /\ flop \in 1 .. Len(g.flops) + 1
  BY DEF TypeInv, TypeOK
<1>n. DOMAIN g.flops = 1 .. Len(g.flops) /\ Len(g.flops) \in Nat
  BY <1>0, FlopShape
<1>g. g' = g /\ (\A x : Crosses(x)' = Crosses(x))
  BY GraphFixed, GraphKept DEF CheckFlop
<1> DEFINE crosses == f \notin synchronizers /\ ~OwnDomain(f, dSync[f])
<1>1. /\ phase = "cdc" /\ f = flop
      /\ IF crosses /\ (~g.infer \/ dSync[f] = NoType)
         THEN phase' = "crossing" /\ flop' = flop /\ synchronizers' = synchronizers
         ELSE /\ flop' = f + 1 /\ phase' = phase
              /\ synchronizers' = IF crosses THEN synchronizers \cup {f} ELSE synchronizers
  BY DEF CheckFlop
<1>2. dSync[f] = ConeType(ConeOfD(f))
  <2>1. f \in DOMAIN dSync
    BY <1>1 DEF DTypesFound, Checking
  <2> QED BY <2>1 DEF DTypesFound
<1>3. (OwnDomain(f, dSync[f]) <=> ~Crosses(f)) /\ dSync[f] # NoType
  BY <1>0, <1>2, OwnDomainIffNotCrossing
<1>4. synchronizers = {x \in DOMAIN g.flops : g.flops[x].sync \/ (x < flop /\ Crosses(x))}
  BY <1>1 DEF ExemptForCause, Checked
<1>5. crosses <=> ~g.flops[f].sync /\ Crosses(f)
  BY <1>0, <1>1, <1>3, <1>4, <1>n
<1> HIDE DEF crosses
<1>6. CASE crosses /\ ~g.infer
  <2>1. phase' = "crossing" /\ synchronizers' = synchronizers
    BY <1>1, <1>6
  <2>2. ~g.infer /\ \E x \in DOMAIN g.flops : ~g.flops[x].sync /\ Crosses(x)
    BY <1>5, <1>6
  <2>3. ExemptForCause' /\ NoneInferred'
    BY <1>g, <2>1 DEF ExemptForCause, NoneInferred
  <2>4. Verdicts'
    BY <1>g, <2>1, <2>2 DEF Verdicts, RejectedForCause
  <2> QED BY <2>3, <2>4
<1>7. CASE ~(crosses /\ ~g.infer)
  <2>1. /\ flop' = f + 1 /\ phase' = "cdc"
        /\ synchronizers' = IF crosses THEN synchronizers \cup {f} ELSE synchronizers
    BY <1>1, <1>3, <1>7
  <2>2. \A x \in DOMAIN g.flops : x < flop' <=> x < flop \/ x = f
    BY <1>0, <1>1, <1>n, <2>1
  <2>3. synchronizers' = {x \in DOMAIN g.flops : g.flops[x].sync \/ (x < flop' /\ Crosses(x))}
    <3>1. \A x : x \in synchronizers' <=> x \in DOMAIN g.flops /\ (g.flops[x].sync \/ (x < flop' /\ Crosses(x)))
      <4> TAKE x
      <4>1. CASE x = f
        <5>1. x \in DOMAIN g.flops /\ x < flop' /\ ~(x < flop)
          BY <1>0, <1>1, <1>n, <2>2, <4>1
        <5>2. x \in synchronizers' <=> crosses \/ x \in synchronizers
          BY <2>1, <4>1
        <5> QED BY <1>4, <1>5, <4>1, <5>1, <5>2
      <4>2. CASE x # f
        <5>1. x \in synchronizers' <=> x \in synchronizers
          BY <2>1, <4>2
        <5> QED BY <1>4, <2>2, <4>2, <5>1
      <4> QED BY <4>1, <4>2
    <3> QED BY <3>1
  <2>4. ExemptForCause'
    BY <1>g, <2>1, <2>3 DEF ExemptForCause, Checked
  <2>5. NoneInferred'
    BY <1>7, <1>g, <2>1 DEF NoneInferred
  <2>6. Verdicts'
    BY <1>g, <2>1 DEF Verdicts, RejectedForCause
  <2> QED BY <2>4, <2>5, <2>6
<1> QED BY <1>6, <1>7

\* Every step keeps what the exemptions and the verdicts rest on.
LEMMA VerdictStep ==
    ASSUME TypeInv, StackBelow, DTypesFound, ExemptForCause, NoneInferred, Verdicts, [Next]_vars
    PROVE  ExemptForCause' /\ NoneInferred' /\ Verdicts'
<1>0. g \in Graphs /\ flop \in 1 .. Len(g.flops) + 1
  BY DEF TypeInv, TypeOK
<1>n. DOMAIN g.flops = 1 .. Len(g.flops) /\ Len(g.flops) \in Nat
  BY <1>0, FlopShape
<1>g. /\ g' = g /\ (\A x : Crosses(x)' = Crosses(x))
      /\ LoopFree(Nodes(g))' = LoopFree(Nodes(g))
  <2>1. g' = g
    BY GraphFixed
  <2>2. (\A x : Crosses(x)' = Crosses(x)) /\ Nodes(g)' = Nodes(g) /\ (\A S : LoopFree(S)' = LoopFree(S))
    BY <2>1, GraphKept
  <2> QED BY <2>1, <2>2
<1>1. ASSUME NEW f \in DOMAIN g.flops, CheckFlop(f) PROVE ExemptForCause' /\ NoneInferred' /\ Verdicts'
  BY <1>1, CheckStep
<1>2. CASE /\ synchronizers' = synchronizers /\ phase \in {"sweep", "dtypes"}
           /\ phase' \in {"sweep", "dtypes"} \/ (phase' = "cdc" /\ flop' = 1)
  <2>1. \A f \in DOMAIN g.flops : ~(f < 1)
    BY <1>n
  <2>2. \A f \in DOMAIN g.flops : ~Checked(f) /\ ~Checked(f)'
    BY <1>2, <2>1 DEF Checked
  <2>3. synchronizers' = {f \in DOMAIN g.flops : g.flops[f].sync}
    BY <1>2, <2>2 DEF ExemptForCause
  <2>4. ExemptForCause'
    BY <1>g, <2>2, <2>3 DEF ExemptForCause
  <2>5. NoneInferred' /\ Verdicts'
    BY <1>2, <1>g DEF NoneInferred, Verdicts, RejectedForCause
  <2> QED BY <2>4, <2>5
<1>3. CASE AllChecked
  <2>1. phase = "cdc" /\ phase' = "loops" /\ flop \notin DOMAIN g.flops /\ flop' = flop /\ synchronizers' = synchronizers
    BY <1>3 DEF AllChecked
  <2>2. \A f \in DOMAIN g.flops : f < flop
    BY <1>0, <1>n, <2>1
  <2>3. \A f \in DOMAIN g.flops : Checked(f) /\ Checked(f)'
    BY <2>1, <2>2 DEF Checked
  <2>4. synchronizers' = {f \in DOMAIN g.flops : g.flops[f].sync \/ Crosses(f)}
    BY <2>1, <2>3 DEF ExemptForCause
  <2>5. ExemptForCause'
    BY <1>g, <2>3, <2>4 DEF ExemptForCause
  <2>6. NoneInferred' /\ Verdicts'
    BY <2>1, <1>g DEF NoneInferred, Verdicts, RejectedForCause
  <2> QED BY <2>5, <2>6
<1>4. CASE ValidateNoCombLoops
  <2>1. /\ phase = "loops" /\ phase' = IF Sortable = Nodes(g) THEN "accepted" ELSE "loop"
        /\ synchronizers' = synchronizers
    BY <1>4 DEF ValidateNoCombLoops
  <2>2. \A f : Checked(f) /\ Checked(f)'
    BY <2>1 DEF Checked
  <2>3. synchronizers' = {f \in DOMAIN g.flops : g.flops[f].sync \/ Crosses(f)}
    BY <2>1, <2>2 DEF ExemptForCause
  <2>4. ExemptForCause'
    BY <1>g, <2>2, <2>3 DEF ExemptForCause
  <2>5. Sortable = Nodes(g) <=> LoopFree(Nodes(g))
    BY <1>0, SortableIffLoopFree
  <2>6. NoneInferred' /\ Verdicts'
    BY <2>1, <2>5, <1>g DEF NoneInferred, Verdicts, RejectedForCause
  <2> QED BY <2>4, <2>6
<1>5. ASSUME NEW f \in DOMAIN g.flops, CallFanin(f), phase' = "overflow"
      PROVE  ExemptForCause' /\ NoneInferred' /\ Verdicts'
  <2>1. phase = "dtypes" /\ synchronizers' = synchronizers
    BY <1>5 DEF CallFanin, Typing
  <2>2. ~LoopFree(Nodes(g))
    BY <1>5, RepeatedCallLoops
  <2>3. \A x : ~Checked(x) /\ ~Checked(x)'
    BY <1>5, <2>1 DEF Checked
  <2>4. synchronizers' = {x \in DOMAIN g.flops : g.flops[x].sync}
    BY <2>1, <2>3 DEF ExemptForCause
  <2>5. ExemptForCause'
    BY <1>g, <2>3, <2>4 DEF ExemptForCause
  <2>6. NoneInferred' /\ Verdicts'
    BY <1>5, <2>1, <2>2, <1>g DEF NoneInferred, Verdicts, RejectedForCause
  <2> QED BY <2>5, <2>6
<1>6. ASSUME NEW f \in DOMAIN g.flops, StaticD(f) \/ CallFanin(f) \/ ReturnFanin(f) \/ TypedD(f), phase' # "overflow"
      PROVE  synchronizers' = synchronizers /\ phase = "dtypes" /\ phase' = "dtypes"
  BY <1>6 DEF StaticD, CallFanin, ReturnFanin, TypedD, Typing
<1>7. ASSUME SweepNode \/ SweepAgain \/ AllTyped
      PROVE  /\ synchronizers' = synchronizers /\ phase \in {"sweep", "dtypes"}
             /\ phase' \in {"sweep", "dtypes"} \/ (phase' = "cdc" /\ flop' = 1)
  BY <1>7 DEF SweepNode, SweepAgain, AllTyped
<1>8. ASSUME Finished \/ UNCHANGED vars PROVE ExemptForCause' /\ NoneInferred' /\ Verdicts'
  <2>1. UNCHANGED vars
    BY <1>8 DEF Finished
  <2>2. synchronizers' = synchronizers /\ flop' = flop /\ phase' = phase
    BY <2>1 DEF vars
  <2>3. \A f : Checked(f)' = Checked(f)
    BY <2>2 DEF Checked
  <2>4. ExemptForCause'
    BY <1>g, <2>2, <2>3 DEF ExemptForCause
  <2>5. NoneInferred' /\ Verdicts'
    BY <2>2, <1>g DEF NoneInferred, Verdicts, RejectedForCause
  <2> QED BY <2>4, <2>5
<1>9. ASSUME NEW f \in DOMAIN g.flops, StaticD(f) \/ ReturnFanin(f) \/ TypedD(f) PROVE phase' # "overflow"
  BY <1>9 DEF StaticD, ReturnFanin, TypedD, Typing
<1> QED BY <1>1, <1>2, <1>3, <1>4, <1>5, <1>6, <1>7, <1>8, <1>9 DEF Next, Steps

-----------------------------------------------------------------------------
(* The theorems.                                                           *)

FullInv ==
    /\ IInv /\ TypeInv
    /\ SeedsKept /\ SweptUp
    /\ StackBelow /\ MemoSumsUp /\ DTypesFound
    /\ ExemptForCause /\ NoneInferred /\ Verdicts

\* The invariant holds at the start.
LEMMA InitFull == Init => FullInv
<1> SUFFICES ASSUME Init PROVE FullInv
  OBVIOUS
<1>1. IInv /\ TypeInv
  BY InitIInv, InitTypes
<1>2. /\ g \in Graphs /\ nodeSync = g.seed /\ phase = "sweep" /\ pos = 1 /\ changed = FALSE /\ flop = 1
      /\ stack = <<>> /\ DOMAIN memo = {} /\ DOMAIN dSync = {}
      /\ synchronizers = {f \in DOMAIN g.flops : g.flops[f].sync}
  BY DEF Init
<1>3. SeedsKept /\ StackBelow /\ MemoSumsUp
  BY <1>2 DEF SeedsKept, StackBelow, MemoSumsUp
<1>4. SweptUp
  <2>1. \A n \in Nodes(g) : ~(n < 1)
    BY <1>2, GraphShape
  <2> QED BY <1>2, <2>1 DEF SweptUp
<1>5. DTypesFound
  BY <1>2 DEF DTypesFound, Checking
<1>6. ExemptForCause /\ NoneInferred
  BY <1>2 DEF ExemptForCause, Checked, NoneInferred
<1>7. Verdicts
  BY <1>2 DEF Verdicts, RejectedForCause
<1> QED BY <1>1, <1>3, <1>4, <1>5, <1>6, <1>7 DEF FullInv

\* Every step keeps the invariant.
LEMMA StepFull == FullInv /\ [Next]_vars => FullInv'
<1> SUFFICES ASSUME FullInv, [Next]_vars PROVE FullInv'
  OBVIOUS
<1>0. /\ IInv /\ TypeInv /\ SeedsKept /\ SweptUp /\ StackBelow /\ MemoSumsUp /\ DTypesFound
      /\ ExemptForCause /\ NoneInferred /\ Verdicts
  BY DEF FullInv
<1>1. IInv' /\ TypeInv'
  BY <1>0, StepKeeps, StepTypes
<1>2. SeedsKept' /\ SweptUp'
  BY <1>0, SeedsStep, SweptStep
<1>3. StackBelow' /\ MemoSumsUp' /\ DTypesFound'
  BY <1>0, BelowStep, MemoStep, DTypesStep
<1>4. ExemptForCause' /\ NoneInferred' /\ Verdicts'
  BY <1>0, VerdictStep
<1> QED BY <1>1, <1>2, <1>3, <1>4 DEF FullInv

\* The sweeps have passed only stuck nodes since the last change, the memo sums up
\* cones, each call lies below the calls that wait for it, and the synchronizers
\* are the declared and the crossing flops passed so far.
THEOREM FullyInductive == Spec => []FullInv
BY InitFull, StepFull, PTL DEF Spec

\* On every graph the maps have nodes and flops for keys, and the recursion holds no node
\* twice: it ends on every graph or meets a node it is computing.
THEOREM TypeCorrect == Spec => []TypeOK
<1>1. FullInv => TypeOK
  BY DEF FullInv, TypeInv
<1> QED BY <1>1, FullyInductive, PTL

\* On every graph, in whatever order the nodes were created, the sweeps end with every
\* node below no loop typed by all the sources of its cone (propagateNodeSyncTypes).
THEOREM SweepIsComplete == Spec => []SweepReachesConeTypes
<1>1. FullInv => SweepReachesConeTypes
  <2> SUFFICES ASSUME FullInv, phase # "sweep", NEW n \in Nodes(g), g.kind[n] = "op", LoopFree(Cone(n))
               PROVE  n \in DOMAIN nodeSync /\ nodeSync[n] = ConeType(Cone(n))
    BY DEF SweepReachesConeTypes
  <2>1. IInv /\ SeedsKept /\ SweptUp
    BY DEF FullInv
  <2> QED BY <2>1, SweepFinds
<1> QED BY <1>1, FullyInductive, PTL

\* The recursion of collectFlopDSyncTypes gives every D the type of its cone, loops or
\* not, when it ends.
THEOREM RecursionIsExact == Spec => []RecursionAgreesWithSweep
<1>1. FullInv => RecursionAgreesWithSweep
  BY DEF FullInv, DTypesFound, Checking, RecursionAgreesWithSweep
<1> QED BY <1>1, FullyInductive, PTL

\* Whatever is accepted samples its own domain outside the synchronizers and has no
\* combinational loop (validateCdcForModule, validateNoCombLoops).
THEOREM NoUnsafeCompile == Spec => []AcceptedIsSafe
<1>1. FullInv => AcceptedIsSafe
  <2> SUFFICES ASSUME FullInv, phase = "accepted" PROVE AcceptedIsSafe
    BY DEF AcceptedIsSafe
  <2>1. synchronizers = {f \in DOMAIN g.flops : g.flops[f].sync \/ (Checked(f) /\ Crosses(f))}
    BY DEF FullInv, ExemptForCause
  <2>2. \A f : Checked(f)
    BY DEF Checked
  <2>3. \A f \in DOMAIN g.flops \ synchronizers : ~Crosses(f)
    BY <2>1, <2>2
  <2>4. LoopFree(Nodes(g))
    BY DEF FullInv, Verdicts
  <2> QED BY <2>3, <2>4 DEF AcceptedIsSafe
<1> QED BY <1>1, FullyInductive, PTL

\* Every rejection is about what its message says, and a design without loops is never
\* recursed into without end.
THEOREM NoFalseAlarm == Spec => []RejectedForCause
<1>1. FullInv => RejectedForCause
  BY DEF FullInv, Verdicts
<1> QED BY <1>1, FullyInductive, PTL

\* Inference exempts the crossing flops and not one more.
THEOREM InferenceIsExact == Spec => []InferredAreCrossings
<1>1. FullInv => InferredAreCrossings
  <2> SUFFICES ASSUME FullInv, phase = "accepted"
               PROVE  synchronizers = {f \in DOMAIN g.flops : g.flops[f].sync \/ Crosses(f)}
    BY DEF InferredAreCrossings
  <2>1. synchronizers = {f \in DOMAIN g.flops : g.flops[f].sync \/ (Checked(f) /\ Crosses(f))}
    BY DEF FullInv, ExemptForCause
  <2>2. \A f : Checked(f)
    BY DEF Checked
  <2> QED BY <2>1, <2>2
<1> QED BY <1>1, FullyInductive, PTL
=============================================================================
