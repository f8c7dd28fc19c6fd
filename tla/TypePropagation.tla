-------------------------- MODULE TypePropagation --------------------------
(***************************************************************************)
(* passes/type_propagation.cpp: a type for every node that has none, from  *)
(* the types of its inputs, then the context rule for arithmetic: a node   *)
(* that drives something wider computes at that width.                     *)
(***************************************************************************)
EXTENDS Dfg
LOCAL INSTANCE SequencesExt
LOCAL INSTANCE FiniteSetsExt

WidenTypes(s, t) == Integer(Most(s.width, t.width), s.signed /\ t.signed)
Product(dims) == FoldLeft(LAMBDA p, dim : p * (Most(dim[1], dim[2]) - Least(dim[1], dim[2]) + 1), 1, dims)
\* one element of the first packed dimension, or a range of bits
InferSliceType(source, indices) ==
  LET low == Head(indices)
      high == indices[Len(indices)]
  IN IF source.dims # <<>> /\ high = low
     THEN [width |-> Product(Tail(source.dims)), signed |-> source.signed, dims |-> Tail(source.dims)]
     ELSE Integer(high - low + 1, source.signed /\ (high # low \/ source.dims # <<>>))

\* the type of `n' whose inputs have the types `t', NoType while one it needs is missing
InferredType(n, t) ==
  LET all == \A k \in DOMAIN t : t[k].width > 0
      arms == \A k \in 2 .. Len(t) : t[k].width > 0
  IN CASE n.op = "SUB" /\ all -> Integer(Most(t[1].width, t[2].width), TRUE)
       [] n.op \in {"ADD", "MUL"} \cup Bitwises /\ all -> WidenTypes(t[1], t[2])
       [] n.op \in Compares \cup {"EQ"} \cup Reductions /\ all -> OneBit
       [] n.op \in Shifts \cup {"UNARY_NEGATE", "BITWISE_NOT"} -> t[1]
       [] n.op = "MUX" /\ arms -> FoldLeft(WidenTypes, t[2], SubSeq(t, 3, Len(t)))
       [] n.op \in {"OUTPUT", "SIGNAL"} /\ t # <<>> -> t[1]
       [] n.op = "CONCAT" /\ all -> Integer(FoldLeft(LAMBDA w, s : w + s.width, 0, t), FALSE)
       [] n.op = "SLICE" /\ all /\ IsContiguous(n) -> InferSliceType(t[1], n.data)
       [] OTHER -> NoType
InferNodeType(g, i) ==
  LET n == g.nodes[i]
  IN IF HasType(n) THEN g ELSE Set(g, i, Typed(n, InferredType(n, InputTypes(g, n))))

RECURSIVE Ascending(_)
Ascending(ids) == IF ids = {} THEN <<>> ELSE LET i == Min(ids) IN <<i>> \o Ascending(ids \ {i})
AllIds(g) == Ascending(DOMAIN g.nodes)

RECURSIVE InferAll(_)
InferAll(g) ==
  LET swept == FoldLeft(InferNodeType, g, PostOrder(g, AllIds(g)))
  IN IF swept = g THEN g ELSE InferAll(swept)

\* the width that the nodes of `ops' ask of the arithmetic node i
ContextWidth(g, i, ops) ==
  FoldSet(LAMBDA j, w : Most(w, TypeOfNode(g, j).width), 0,
          {j \in DOMAIN g.nodes : g.nodes[j].op \in ops /\ \E k \in DOMAIN g.nodes[j].ins : g.nodes[j].ins[k] = i})
WidenedBy(g, ops) ==
  [g EXCEPT !.nodes = [i \in DOMAIN @ |->
     IF @[i].op \in Arithmetic /\ @[i].type.width < ContextWidth(g, i, ops)
     THEN Typed(@[i], Integer(ContextWidth(g, i, ops), @[i].type.signed)) ELSE @[i]]]

RECURSIVE WidenAll(_)
WidenAll(g) ==
  LET widened == WidenedBy(WidenedBy(g, {"SIGNAL", "OUTPUT"}), Arithmetic)
  IN IF widened = g THEN g ELSE WidenAll(widened)

PropagateTypes(g) == WidenAll(InferAll(g))
\* the types of one cone, ahead of the pass: none when something in it stays without a type
RECURSIVE InferCone(_, _)
InferCone(g, i) ==
  LET swept == FoldLeft(InferNodeType, g, PostOrder(g, <<i>>))
  IN IF swept = g THEN g ELSE InferCone(swept, i)
ResolveNodeTypeNow(g, i) ==
  LET typed == InferCone(g, i)
  IN IF \A j \in ToSet(PostOrder(g, <<i>>)) : HasType(typed.nodes[j]) THEN {typed} ELSE {}
\* what is left without a type is an error
FullyTyped(g) == \A i \in DOMAIN g.nodes : HasType(g.nodes[i])
=============================================================================
