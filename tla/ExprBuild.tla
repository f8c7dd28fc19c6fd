------------------------------ MODULE ExprBuild ------------------------------
(***************************************************************************)
(* expr_build.cpp: an expression of the source language becomes nodes of   *)
(* the data flow graph.                                                    *)
(*                                                                         *)
(* A builder returns the set of its results [ctx, v]: empty when it        *)
(* throws, otherwise of one element.  ctx is [graph, seq, comb, decl,      *)
(* nodes, flops, params]: comb the current drivers of a combinational      *)
(* block, decl the declared types, nodes the boundary and signal nodes of  *)
(* the module, flops the base names of registers, params the constants.    *)
(* Leaves of aggregates are named by a sequence: the base name and a path. *)
(* A value is [type, leaves]; a scalar has one leaf.                       *)
(***************************************************************************)
EXTENDS ConstantEval
LOCAL INSTANCE SequencesExt
LOCAL INSTANCE FiniteSetsExt

Bind(results, F(_)) == UNION {F(r) : r \in results}
Result(ctx, v) == {[ctx |-> ctx, v |-> v]}
Emit(ctx, n) == Result([ctx EXCEPT !.graph = Made(@, n)], NextId(ctx.graph))
Retyped(ctx, i, type) == [ctx EXCEPT !.graph.nodes[i].type = type]
Expr(type, leaves) == [type |-> type, leaves |-> leaves]
NodeOf(r) == r.v.leaves[1]
\* the value a bare node is
AsValue(r) == [r EXCEPT !.v = Expr(r.ctx.graph.nodes[@].type, <<@>>)]
AllBuilt(items, F(_, _), ctx) ==
  FoldLeft(LAMBDA done, item : Bind(done, LAMBDA r :
             Bind(F(item, r.ctx), LAMBDA s : Result(s.ctx, Append(r.v, s.v)))),
           Result(ctx, <<>>), items)

-----------------------------------------------------------------------------
(* aggregates *)
RECURSIVE LeafPlan(_)
\* the scalar leaves of a type, in declaration order, with their paths
LeafPlan(t) ==
  IF IsScalarType(t) THEN <<[path |-> <<>>, type |-> t]>>
  ELSE LET parts == IF IsArray(t) THEN [k \in 1 .. SizeOf(t.dim) |-> <<ToString(IndexesOf(t.dim)[k]), t.elem>>]
                    ELSE [k \in DOMAIN t.fields |-> <<t.fields[k].name, t.fields[k].type>>]
           Under(part) == LET below == LeafPlan(part[2])
                          IN [j \in DOMAIN below |-> [below[j] EXCEPT !.path = <<part[1]>> \o @]]
       IN FlattenSeq([k \in DOMAIN parts |-> Under(parts[k])])
LeafCount(t) == Len(LeafPlan(t))
RECURSIVE HasStruct(_), SameShape(_, _)
HasStruct(t) == IsStruct(t) \/ (IsArray(t) /\ HasStruct(t.elem))
SameShape(s, t) ==
  IF IsArray(s) \/ IsArray(t) THEN IsArray(s) /\ IsArray(t) /\ s.dim = t.dim /\ SameShape(s.elem, t.elem)
  ELSE IF IsStruct(s) \/ IsStruct(t) THEN IsStruct(s) /\ IsStruct(t) /\ s.name = t.name
  ELSE TRUE
MergedType(s, t) == Integer(Most(s.width, t.width), s.signed /\ t.signed)

-----------------------------------------------------------------------------
(* identifiers *)
\* the type is that of the value, whatever the declaration says
ParameterNodes(name, ctx) ==
  LET p == ctx.params[name]
      plan == LeafPlan(p.type)
      leaves == ScalarLeaves(p)
      payload == [k \in DOMAIN leaves |-> IF IsScalarType(p.type) THEN BitPatternOf(p) ELSE IntegerOf(leaves[k])]
      Payload(k, c) == UNION {Emit(c, Typed(Constant(x), plan[k].type)) : x \in payload[k]}
  IN Bind(AllBuilt(Upto(1, Len(plan)), Payload, ctx), LAMBDA r : Result(r.ctx, Expr(p.type, r.v)))
\* inside a combinational block the driver assigned so far, of a register its output
LookupLeaf(name, ctx) ==
  IF ~ctx.seq /\ name \in DOMAIN ctx.comb THEN ctx.comb[name]
  ELSE IF name[1] \in ctx.flops THEN ctx.nodes[Append(name, ".q")]
  ELSE ctx.nodes[name]
ValueOfIdentifier(name, ctx) ==
  IF name \in DOMAIN ctx.params THEN ParameterNodes(name, ctx)
  ELSE IF name \notin DOMAIN ctx.decl THEN {}
  ELSE LET plan == LeafPlan(ctx.decl[name])
       IN Result(ctx, Expr(ctx.decl[name], [k \in DOMAIN plan |-> LookupLeaf(<<name>> \o plan[k].path, ctx)]))

-----------------------------------------------------------------------------
(* truth values *)
LowerTruth(ctx, i) ==
  IF ctx.graph.nodes[i].type.width = 1 THEN Result(ctx, i)
  ELSE Emit(ctx, Typed(Unary("REDUCTION_OR", i), OneBit))
LowerNot(ctx, i) == Bind(LowerTruth(ctx, i), LAMBDA r : Emit(r.ctx, Typed(Unary("BITWISE_NOT", r.v), OneBit)))
LowerLogical(ctx, op, x, y) ==
  Bind(LowerTruth(ctx, x), LAMBDA r :
    Bind(LowerTruth(r.ctx, y), LAMBDA s : Emit(s.ctx, Typed(BinaryOp(op, r.v, s.v), OneBit))))

-----------------------------------------------------------------------------
(* coercion and casts *)
\* a constant or a node without a type takes the type of its target, a wider node is cut
Coerced(r, t) ==
  LET i == NodeOf(r)
      n == r.ctx.graph.nodes[i]
      kept == Integer(t.width, t.signed)
  IN IF n.op = "CONST" \/ ~HasType(n) THEN Result(Retyped(r.ctx, i, t), Expr(t, <<i>>))
     ELSE IF SameValueType(n.type, t) THEN Result(r.ctx, Expr(t, <<i>>))
     ELSE IF n.type.width > t.width
     THEN Bind(Emit(r.ctx, Typed(SliceOf(i, Upto(0, t.width - 1)), kept)), LAMBDA s : Result(s.ctx, Expr(kept, <<s.v>>)))
     ELSE {r}
RECURSIVE KnownWidth(_, _)
\* the width a node will get from type propagation, 0 if that is not known yet
KnownWidth(g, i) ==
  LET n == g.nodes[i]
      w == [k \in DOMAIN n.ins |-> KnownWidth(g, n.ins[k])]
      Widest(from) == IF \E k \in from .. Len(w) : w[k] = 0 THEN 0 ELSE Max({w[k] : k \in from .. Len(w)})
  IN CASE HasType(n) -> n.type.width
       [] n.op = "CONCAT" -> IF \E k \in DOMAIN w : w[k] = 0 THEN 0 ELSE FoldLeft(LAMBDA s, x : s + x, 0, w)
       [] n.op \in Arithmetic \cup Bitwises -> Widest(1)
       [] n.op \in Shifts \cup {"BITWISE_NOT", "UNARY_NEGATE"} -> w[1]
       [] n.op \in Compares \cup Reductions \cup {"EQ"} -> 1
       [] n.op = "MUX" -> Widest(2)
       [] n.op = "SIGNAL" /\ w # <<>> -> w[1]
       [] OTHER -> 0
\* a node of the new type between the operand and its consumers
Placeholder(ctx, i, type) == Emit(ctx, Typed(Node("SIGNAL", <<i>>, <<>>, NoType), type))
CastToWidth(r, t) ==
  LET i == NodeOf(r)
      known == KnownWidth(r.ctx.graph, i)
      source == IF known > 0 THEN known ELSE r.v.type.width
      As(s) == Result(s.ctx, Expr(t, <<s.v>>))
  IN IF r.ctx.graph.nodes[i].op = "CONST" THEN As([ctx |-> Retyped(r.ctx, i, t), v |-> i])
     ELSE IF source > t.width THEN Bind(Emit(r.ctx, Typed(SliceOf(i, Upto(0, t.width - 1)), t)), As)
     ELSE Bind(Placeholder(r.ctx, i, t), As)
\* $signed, $unsigned, signed'() and unsigned'()
CastToSign(r, signed) ==
  LET i == NodeOf(r)
      known == KnownWidth(r.ctx.graph, i)
      t == [width |-> IF known > 0 THEN known ELSE r.v.type.width, signed |-> signed, dims |-> r.v.type.dims]
      As(s) == Result(s.ctx, Expr(t, <<s.v>>))
  IN IF r.ctx.graph.nodes[i].op = "CONST" THEN As([ctx |-> Retyped(r.ctx, i, t), v |-> i])
     ELSE IF known > 0 THEN Bind(Placeholder(r.ctx, i, t), As)
     ELSE As([ctx |-> r.ctx, v |-> i])
\* the leaves of a packed struct are slices of the scalar, the last one least significant
LeavesFromScalar(r, t) ==
  LET i == NodeOf(r)
      narrow == r.ctx.graph.nodes[i].op = "CONST" /\ r.v.type.width \in 1 .. BitstreamWidth(t) - 1
      source == IF narrow THEN Emit(r.ctx, Typed(Constant(r.ctx.graph.nodes[i].data[1]), Integer(BitstreamWidth(t), FALSE)))
                ELSE Result(r.ctx, i)
      plan == LeafPlan(t)
      low[k \in 1 .. Len(plan)] == IF k = Len(plan) THEN 0 ELSE low[k + 1] + plan[k + 1].type.width
  IN Bind(source, LAMBDA s :
       Bind(AllBuilt(Upto(1, Len(plan)),
                     LAMBDA k, c : Emit(c, Typed(SliceOf(s.v, Upto(low[k], low[k] + plan[k].type.width - 1)), plan[k].type)),
                     s.ctx),
            LAMBDA built : Result(built.ctx, Expr(t, built.v))))
CastToNamed(r, t) ==
  LET n == r.ctx.graph.nodes[NodeOf(r)]
      mismatch == HasType(n) /\ n.op # "CONST" /\ r.v.type.width > 0 /\ r.v.type.width # BitstreamWidth(t)
  IN IF mismatch \/ IsArray(t) THEN {}
     ELSE IF IsStruct(t) THEN LeavesFromScalar(r, t)
     ELSE Result(IF n.op = "CONST" THEN Retyped(r.ctx, NodeOf(r), t) ELSE r.ctx, Expr(t, <<NodeOf(r)>>))
\* a packed struct where a scalar is wanted is the concatenation of its leaves
Flattened(r) ==
  LET t == r.v.type
      scalar == Integer(BitstreamWidth(t), FALSE)
      joined == IF Len(r.v.leaves) = 1 THEN Result(r.ctx, NodeOf(r)) ELSE Emit(r.ctx, ConcatOf(r.v.leaves))
  IN IF IsScalarType(t) THEN {r}
     ELSE IF IsArray(t) THEN {}
     ELSE IF ~t.packed THEN {}
     ELSE Bind(joined, LAMBDA s : Result(Retyped(s.ctx, s.v, scalar), Expr(scalar, <<s.v>>)))

-----------------------------------------------------------------------------
(* selections *)
OffsetFromLsb(dim, index) == Most(index, dim[2]) - Least(index, dim[2])
ElementType(t) == [width |-> ProductOf(Tail(t.dims)), signed |-> t.signed, dims |-> Tail(t.dims)]
SelectSlice(r, low, width, type) ==
  IF low < 0 \/ width < 1 THEN {}
  ELSE Bind(Emit(r.ctx, Typed(SliceOf(NodeOf(r), Upto(low, low + width - 1)), type)),
            LAMBDA s : Result(s.ctx, Expr(type, <<s.v>>)))
SelectStaticUnpacked(r, index) ==
  LET t == r.v.type
      n == LeafCount(t.elem)
      first == PositionOf(t.dim, index) * n
  IN Result(r.ctx, Expr(t.elem, SubSeq(r.v.leaves, first + 1, first + n)))
\* the selector less the lower bound, cut to the bits that number the elements
SelectorFor(ctx, selector, low, bits) ==
  LET shifted == IF low = 0 THEN Result(ctx, selector)
                 ELSE Bind(Emit(ctx, Constant(low)), LAMBDA c : Emit(c.ctx, BinaryOp("SUB", selector, c.v)))
  IN Bind(shifted, LAMBDA s : Emit(s.ctx, SliceOf(s.v, Upto(0, bits - 1))))
\* one multiplexer per leaf; codes past the last element select a zero
SelectDynamicUnpacked(r, selector) ==
  LET t == r.v.type
      dim == t.dim
      plan == LeafPlan(t.elem)
      low == Least(dim[1], dim[2])
      bits == CeilLog2(SizeOf(dim))
      Leaf(code, k) == r.v.leaves[PositionOf(dim, low + code) * Len(plan) + k]
      Select(k, ctx, sel) ==
        Bind(Emit(ctx, Typed(Constant(0), plan[k].type)), LAMBDA z :
          Emit(z.ctx, Typed(MuxOf(sel, Upto(0, 2 ^ bits - 1),
                                  [c \in 1 .. 2 ^ bits |-> IF c <= SizeOf(dim) THEN Leaf(c - 1, k) ELSE z.v]),
                            plan[k].type)))
  IN IF bits = 0 THEN {}
     ELSE Bind(SelectorFor(r.ctx, selector, low, bits), LAMBDA s :
            Bind(AllBuilt(Upto(1, Len(plan)), LAMBDA k, c : Select(k, c, s.v), s.ctx),
                 LAMBDA built : Result(built.ctx, Expr(t.elem, built.v))))
\* one bit of a packed vector; codes outside the dimension select an unknown
SelectDynamicBit(r, selector) ==
  LET t == ElementType(r.v.type)
      dim == r.v.type.dims[1]
      width == r.ctx.graph.nodes[selector].type.width
      ArmNodes(ctx, x) == AllBuilt(Upto(0, 2 ^ width - 1),
                               LAMBDA code, c : IF ~InDim(dim, code) THEN Result(c, x)
                                 ELSE Emit(c, Typed(SliceOf(NodeOf(r), <<OffsetFromLsb(dim, code)>>), t)), ctx)
  IN IF t.width # 1 \/ width \notin 1 .. WordBits - 2 THEN {}
     ELSE Bind(Emit(r.ctx, Typed(Node("X", <<>>, <<>>, NoType), t)), LAMBDA x :
            Bind(ArmNodes(x.ctx, x.v), LAMBDA arms :
              Bind(Emit(arms.ctx, Typed(MuxOf(selector, Upto(0, 2 ^ width - 1), arms.v), t)),
                   LAMBDA m : Result(m.ctx, Expr(t, <<m.v>>)))))
\* [left:right]: bounds relative to the declared range only when that does not end at 0
SelectRange(r, left, right) ==
  LET t == r.v.type
      scaled == t.dims # <<>> /\ t.dims[1][2] # 0
      Offset(x) == IF scaled THEN OffsetFromLsb(t.dims[1], x) ELSE x
      inside == scaled => InDim(t.dims[1], left) /\ InDim(t.dims[1], right)
      high == Offset(left)
      low == Offset(right)
  IN IF ~IsScalarType(t) \/ ~inside \/ high < low THEN {}
     ELSE SelectSlice(r, low, high - low + 1, Integer(high - low + 1, t.signed))
\* [base +: width] and [base -: width]
PartLow(ascending, base, width) == IF ascending THEN base ELSE base - width + 1
SelectConstantPart(r, base, width, ascending) ==
  LET t == r.v.type
      scaled == t.dims # <<>> /\ t.dims[1][2] # 0
  IN IF scaled /\ ~InDim(t.dims[1], base) THEN {}
     ELSE SelectSlice(r, PartLow(ascending, IF scaled THEN OffsetFromLsb(t.dims[1], base) ELSE base, width), width,
                      Integer(width, t.signed))
SelectDynamicPart(r, base, width, ascending) ==
  LET t == r.v.type
      bits == Most(1, CeilLog2(t.width))
      part == Integer(width, t.signed)
      right == IF t.dims = <<>> THEN 0 ELSE t.dims[1][2]
      Relative(ctx) == IF right = 0 THEN Result(ctx, base)
                       ELSE Bind(Emit(ctx, Constant(right)), LAMBDA c :
                              Emit(c.ctx, IF t.dims[1][1] >= right THEN BinaryOp("SUB", base, c.v)
                                          ELSE BinaryOp("SUB", c.v, base)))
      Fits(code) == IF ascending THEN code <= t.width - width ELSE code >= width - 1 /\ code < t.width
      ArmNodes(ctx, zero) ==
        AllBuilt(Upto(0, 2 ^ bits - 1),
                 LAMBDA code, c : IF ~Fits(code) THEN Result(c, zero)
                   ELSE Emit(c, Typed(SliceOf(NodeOf(r), Upto(PartLow(ascending, code, width),
                                                              PartLow(ascending, code, width) + width - 1)), part)), ctx)
  IN IF width < 1 THEN {}
     ELSE Bind(Relative(r.ctx), LAMBDA b :
            Bind(Emit(b.ctx, SliceOf(b.v, Upto(0, bits - 1))), LAMBDA sel :
              Bind(Emit(sel.ctx, Typed(Constant(0), part)), LAMBDA zero :
                Bind(ArmNodes(zero.ctx, zero.v), LAMBDA arms :
                  Bind(Emit(arms.ctx, Typed(MuxOf(sel.v, Upto(0, 2 ^ bits - 1), arms.v), part)),
                       LAMBDA m : Result(m.ctx, Expr(part, <<m.v>>)))))))
SelectField(r, field) ==
  LET plan == LeafPlan(r.v.type)
      hits == SelectSeq(Upto(1, Len(plan)), LAMBDA k : plan[k].path[1] = field)
      Types == {f.type : f \in {f \in ToSet(r.v.type.fields) : f.name = field}}
  IN IF ~IsStruct(r.v.type) THEN {}
     ELSE {[r EXCEPT !.v = Expr(t, [k \in DOMAIN hits |-> r.v.leaves[hits[k]]])] : t \in Types}

-----------------------------------------------------------------------------
(* expressions *)
RECURSIVE Build(_, _), BuildFor(_, _, _, _)
BuildScalar(e, ctx) == Bind(Build(e, ctx), Flattened)
BuildNode(e, ctx) == Bind(BuildScalar(e, ctx), LAMBDA r : Result(r.ctx, NodeOf(r)))
BuildNodes(es, ctx) == AllBuilt(es, BuildNode, ctx)
\* a constant index selects statically if it is in range, any other index dynamically
BitSelect(r, index) ==
  LET t == r.v.type
      constants == Constants(index, r.ctx.params)
      static == {k \in constants : InDim(IF IsArray(t) THEN t.dim ELSE t.dims[1], k)}
      Static(k) == IF IsArray(t) THEN SelectStaticUnpacked(r, k)
                   ELSE SelectSlice(r, OffsetFromLsb(t.dims[1], k) * ElementType(t).width,
                                    ElementType(t).width, ElementType(t))
      Dynamic(s) == IF IsArray(t) THEN SelectDynamicUnpacked([r EXCEPT !.ctx = s.ctx], s.v)
                    ELSE SelectDynamicBit([r EXCEPT !.ctx = s.ctx], s.v)
  IN IF IsStruct(t) \/ (IsScalarType(t) /\ t.dims = <<>>) THEN {}
     ELSE IF static # {} THEN UNION {Static(k) : k \in static}
     ELSE Bind(BuildNode(index, r.ctx), Dynamic)
PartSelect(r, base, width, ascending) ==
  LET Selected(b, w) ==
        LET constant == UNION {SelectConstantPart([r EXCEPT !.ctx = b.ctx], k, w, ascending) :
                                 k \in Constants(base, r.ctx.params)}
        IN IF constant # {} THEN constant ELSE SelectDynamicPart([r EXCEPT !.ctx = b.ctx], b.v, w, ascending)
  IN IF ~IsScalarType(r.v.type) THEN {}
     ELSE Bind(BuildNode(base, r.ctx), LAMBDA b : UNION {Selected(b, w) : w \in Constants(width, r.ctx.params)})
\* the condition is used as it is, its arms are 1 then 0
BuildMux(condition, x, y, type, ctx) == Emit(ctx, Typed(MuxOf(condition, <<1, 0>>, <<x, y>>), type))
BuildCondition(e, ctx) ==
  Bind(Build(e, ctx), LAMBDA r : IF IsScalarType(r.v.type) THEN Result(r.ctx, NodeOf(r)) ELSE {})
LeafMuxes(condition, x, y, types, ctx) ==
  AllBuilt(Upto(1, Len(x)), LAMBDA k, c : BuildMux(condition, x[k], y[k], types[k], c), ctx)
BuildConditional(e, ctx) ==
  LET Chosen(c, x, y) ==
        LET s == x.v.type
            t == y.v.type
            type == IF HasStruct(s) THEN s ELSE MergedType(s, t)
            fits == IF HasStruct(s) \/ HasStruct(t) THEN HasStruct(s) /\ HasStruct(t) /\ SameShape(s, t)
                    ELSE IsScalarType(s) /\ IsScalarType(t)
        IN IF ~fits THEN {}
           ELSE Bind(LeafMuxes(c.v, x.v.leaves, y.v.leaves, [k \in DOMAIN x.v.leaves |-> NoType], y.ctx),
                     LAMBDA r : Result(r.ctx, Expr(type, r.v)))
  IN Bind(BuildCondition(e.args[1], ctx), LAMBDA c :
       Bind(Build(e.args[2], c.ctx), LAMBDA x : Bind(Build(e.args[3], x.ctx), LAMBDA y : Chosen(c, x, y))))
BuildConditionalFor(e, t, broadcast, ctx) ==
  LET LeafType(g, i, j) == IF HasType(g.nodes[i]) /\ HasType(g.nodes[j])
                           THEN MergedType(TypeOfNode(g, i), TypeOfNode(g, j)) ELSE NoType
      LeafTypes(g, x, y) == [k \in DOMAIN x |-> LeafType(g, x[k], y[k])]
      Chosen(c, x, y) ==
        IF ~SameShape(x.v.type, y.v.type) THEN {}
        ELSE Bind(LeafMuxes(c.v, x.v.leaves, y.v.leaves,
                            LeafTypes(y.ctx.graph, x.v.leaves, y.v.leaves), y.ctx), LAMBDA r : Result(r.ctx, Expr(t, r.v)))
  IN Bind(BuildCondition(e.args[1], ctx), LAMBDA c :
       Bind(BuildFor(e.args[2], t, broadcast, c.ctx), LAMBDA x :
         Bind(BuildFor(e.args[3], t, broadcast, x.ctx), LAMBDA y : Chosen(c, x, y))))
\* a match is an equality or, for [lo:hi], two comparisons
BuildMatch(subject, item, ctx) ==
  IF item.k = "span"
  THEN Bind(BuildNodes(item.args, ctx), LAMBDA r :
         Bind(Emit(r.ctx, Typed(BinaryOp("GE", subject, r.v[1]), OneBit)), LAMBDA ge :
           Bind(Emit(ge.ctx, Typed(BinaryOp("LE", subject, r.v[2]), OneBit)), LAMBDA le :
             Emit(le.ctx, Typed(BinaryOp("BITWISE_AND", ge.v, le.v), OneBit)))))
  ELSE Bind(BuildNode(item, ctx), LAMBDA r : Emit(r.ctx, Typed(BinaryOp("EQ", subject, r.v), OneBit)))
BuildInside(e, ctx) ==
  LET Joined(done, item, subject) ==
        Bind(done, LAMBDA r : Bind(BuildMatch(subject, item, r.ctx), LAMBDA m :
          IF r.v = 0 THEN Result(m.ctx, m.v) ELSE Emit(m.ctx, Typed(BinaryOp("BITWISE_OR", r.v, m.v), OneBit))))
  IN Bind(BuildNode(e.args[1], ctx), LAMBDA s :
       Bind(FoldLeft(LAMBDA done, item : Joined(done, item, s.v), Result(s.ctx, 0), Tail(e.args)), LAMBDA r :
         IF r.v = 0 THEN Emit(r.ctx, Typed(Constant(0), OneBit)) ELSE {r}))
\* division, remainder and power exist only between constants
BuildBinary(e, ctx) ==
  IF e.v \in {"DIV", "MOD", "POWER"}
  THEN UNION {Emit(ctx, Constant(x)) : x \in Constants(e, ctx.params)}
  ELSE Bind(BuildNodes(e.args, ctx), LAMBDA r :
         IF e.v = "NEQ" THEN Bind(Emit(r.ctx, BinaryOp("EQ", r.v[1], r.v[2])), LAMBDA eq : LowerNot(eq.ctx, eq.v))
         ELSE Emit(r.ctx, BinaryOp(e.v, r.v[1], r.v[2])))
\* the parts are built again for every repetition
BuildRepeat(e, ctx) ==
  LET Times(n) == FlattenSeq([k \in 1 .. n |-> Tail(e.args)])
      Joined(r) == IF r.v = <<>> THEN {} ELSE IF Len(r.v) = 1 THEN Result(r.ctx, r.v[1]) ELSE Emit(r.ctx, ConcatOf(r.v))
  IN UNION {Bind(BuildNodes(Times(n), ctx), Joined) : n \in Constants(e.args[1], ctx.params)}
BuildBits(e, ctx) ==
  LET Width(r) == Emit(r.ctx, Typed(Constant(BitstreamWidth(r.v.type)), Integer(IntBits, TRUE)))
  IN Bind(Build(e.args[1], ctx), Width)
BuildLiteral(e, ctx) ==
  Emit(ctx, IF e.k = "sized" THEN Typed(Constant(e.v.value), e.v.type) ELSE Constant(e.v))
BuildUnary(e, ctx) == Bind(BuildNode(e.args[1], ctx), LAMBDA r : Emit(r.ctx, Unary(e.v, r.v)))
\* the expressions that are one node
BuildOperation(e, ctx) ==
  CASE e.k \in {"int", "fill", "sized"} -> BuildLiteral(e, ctx)
    [] e.k = "unary" -> BuildUnary(e, ctx)
    [] e.k = "not" -> Bind(BuildNode(e.args[1], ctx), LAMBDA r : LowerNot(r.ctx, r.v))
    [] e.k \in {"land", "lor"} ->
         Bind(BuildNodes(e.args, ctx), LAMBDA r :
           LowerLogical(r.ctx, IF e.k = "land" THEN "BITWISE_AND" ELSE "BITWISE_OR", r.v[1], r.v[2]))
    [] e.k = "binary" -> BuildBinary(e, ctx)
    [] e.k = "concat" -> Bind(BuildNodes(e.args, ctx), LAMBDA r : Emit(r.ctx, ConcatOf(r.v)))
    [] e.k = "repeat" -> BuildRepeat(e, ctx)
    [] e.k = "inside" -> BuildInside(e, ctx)
    [] e.k = "bits" -> BuildBits(e, ctx)
    [] OTHER -> {}
Build(e, ctx) ==
  LET Ranged(r) == UNION {SelectRange(r, left, right) : left \in Constants(e.args[2], ctx.params),
                                                       right \in Constants(e.args[3], ctx.params)}
      Literal(t) == IF IsStruct(t) THEN BuildFor(e, t, FALSE, ctx) ELSE {}
  IN CASE e.k = "id" -> ValueOfIdentifier(e.v, ctx)
       [] e.k = "cast" -> Bind(BuildScalar(e.args[1], ctx), LAMBDA r : CastToWidth(r, e.v))
       [] e.k = "named" -> Bind(BuildScalar(e.args[1], ctx), LAMBDA r : CastToNamed(r, e.v))
       [] e.k = "sign" -> Bind(BuildScalar(e.args[1], ctx), LAMBDA r : CastToSign(r, e.v))
       [] e.k = "cond" -> BuildConditional(e, ctx)
       [] e.k = "bit" -> Bind(Build(e.args[1], ctx), LAMBDA r : BitSelect(r, e.args[2]))
       [] e.k = "range" -> Bind(Build(e.args[1], ctx), Ranged)
       [] e.k \in {"up", "down"} ->
            Bind(Build(e.args[1], ctx), LAMBDA r : PartSelect(r, e.args[2], e.args[3], e.k = "up"))
       [] e.k = "field" -> Bind(Build(e.args[1], ctx), LAMBDA r : SelectField(r, e.v))
       [] e.k = "literal" -> Literal(e.v)
       [] OTHER -> Bind(BuildOperation(e, ctx), LAMBDA r : {AsValue(r)})

-----------------------------------------------------------------------------
(* assignment patterns: v is empty, or the key of every item *)
Keyed(e) == e.v # <<>>
Defaults(e) == {k \in DOMAIN e.args : Keyed(e) /\ IsDefault(e.v[k])}
KeyedItems(e) == {k \in DOMAIN e.args : Keyed(e) /\ ~IsDefault(e.v[k])}
\* the item of the pattern for each key, none where the pattern is not well formed
ItemsFor(e, keys, keyOf) ==
  LET named == KeyedItems(e)
      Hits(key) == {k \in named : keyOf[k] = key}
      Item(key) == e.args[CHOOSE k \in IF Hits(key) # {} THEN Hits(key) ELSE Defaults(e) : TRUE]
      unique == Cardinality(Defaults(e)) <= 1 /\ \A k, l \in named : keyOf[k] = keyOf[l] => k = l
      covered == \A j \in DOMAIN keys : Hits(keys[j]) # {} \/ Defaults(e) # {}
  IN IF ~Keyed(e) THEN IF Len(e.args) = Len(keys) THEN {e.args} ELSE {}
     ELSE IF unique /\ covered THEN {[j \in DOMAIN keys |-> Item(keys[j])]} ELSE {}
BuildItems(items, types, broadcast, t, ctx) ==
  Bind(AllBuilt(Upto(1, Len(items)), LAMBDA k, c : BuildFor(items[k], types[k], broadcast, c), ctx),
       LAMBDA r : Result(r.ctx, Expr(t, FlattenSeq([k \in DOMAIN r.v |-> r.v[k].leaves]))))
BuildStructLiteral(e, t, ctx) ==
  LET names == [k \in DOMAIN t.fields |-> t.fields[k].name]
      types == [k \in DOMAIN t.fields |-> t.fields[k].type]
      known == Keyed(e) => \A k \in DOMAIN e.args \ Defaults(e) : \E j \in DOMAIN names : names[j] = e.v[k].v
  IN IF ~known THEN {} ELSE UNION {BuildItems(items, types, TRUE, t, ctx) : items \in ItemsFor(e, names, [k \in KeyedItems(e) |-> e.v[k].v])}
\* elements most significant first, whatever the direction of the dimension
BuildPackedPattern(e, t, ctx) ==
  LET indexes == IndexesOf(t.dims[1])
      types == [k \in DOMAIN indexes |-> ElementType(t)]
      keyed == [k \in KeyedItems(e) |-> CHOOSE x \in Constants(e.v[k], ctx.params) : TRUE]
      Joined(r) == IF Len(r.v.leaves) = 1 THEN Result(r.ctx, NodeOf(r)) ELSE Emit(r.ctx, ConcatOf(r.v.leaves))
      keys == Keyed(e) => \A k \in DOMAIN e.args \ Defaults(e) : Constants(e.v[k], ctx.params) # {}
  IN IF ~keys THEN {}
     ELSE UNION {Bind(Bind(BuildItems(items, types, FALSE, t, ctx), Joined),
                      LAMBDA r : Result(Retyped(r.ctx, r.v, t), Expr(t, <<r.v>>))) :
                   items \in ItemsFor(e, indexes, keyed)}
\* one item per element, or a single default whose one value every element shares
BuildUnpackedPattern(e, t, ctx) ==
  LET n == SizeOf(t.dim)
      element == IF IsScalarType(t.elem) THEN BuildFor(e.args[1], t.elem, FALSE, ctx) ELSE BuildFor(e, t.elem, FALSE, ctx)
  IN IF Keyed(e)
     THEN IF Len(e.args) # 1 \/ Defaults(e) = {} THEN {}
          ELSE Bind(element, LAMBDA r : Result(r.ctx, Expr(t, FlattenSeq([k \in 1 .. n |-> r.v.leaves]))))
     ELSE IF Len(e.args) # n THEN {} ELSE BuildItems(e.args, [k \in 1 .. n |-> t.elem], FALSE, t, ctx)
BuildPattern(e, t, ctx) ==
  LET pattern == IF e.k = "literal" THEN e.args[1] ELSE e
  IN IF e.k = "literal" /\ ~SameShape(e.v, t) THEN {}
     ELSE IF IsArray(t) THEN BuildUnpackedPattern(pattern, t, ctx)
     ELSE IF IsStruct(t) THEN BuildStructLiteral(pattern, t, ctx)
     ELSE IF t.dims # <<>> THEN BuildPackedPattern(pattern, t, ctx) ELSE {}
RECURSIVE Broadcast(_, _)
\* one scalar for every field: the same node is coerced to each in turn
Broadcast(r, t) ==
  LET Field(done, f) == Bind(done, LAMBDA d : Bind(Broadcast([r EXCEPT !.ctx = d.ctx], f.type),
                               LAMBDA s : Result(s.ctx, d.v \o s.v.leaves)))
  IN IF IsStruct(t) THEN Bind(FoldLeft(Field, Result(r.ctx, <<>>), t.fields), LAMBDA s : Result(s.ctx, Expr(t, s.v)))
     ELSE IF IsScalarType(t) /\ IsScalarType(r.v.type) THEN Coerced(r, t) ELSE {}
\* a value that fits its target
BuildFor(e, t, broadcast, ctx) ==
  LET Fitted(r) == IF SameShape(r.v.type, t) THEN {r}
                   ELSE IF ~HasStruct(r.v.type) /\ broadcast /\ IsStruct(t) THEN Broadcast(r, t) ELSE {}
  IN IF e.k \in {"pattern", "literal"} /\ (~IsScalarType(t) \/ t.dims # <<>>) THEN BuildPattern(e, t, ctx)
     ELSE IF IsScalarType(t) THEN Bind(BuildScalar(e, ctx), LAMBDA r : Coerced(r, t))
     ELSE IF IsStruct(t) /\ e.k = "cond" THEN BuildConditionalFor(e, t, broadcast, ctx)
     ELSE Bind(Build(e, ctx), Fitted)
=============================================================================
