---------------------------- MODULE ConstantFold ----------------------------
(***************************************************************************)
(* The rewriting passes of src/src/frontends/systemverilog/passes that     *)
(* keep a graph's nodes: constant_fold.cpp, condition_normalization.cpp,   *)
(* cse.cpp and dce.cpp.  A try operator returns [graph, changed].          *)
(***************************************************************************)
EXTENDS TypePropagation
LOCAL INSTANCE SequencesExt
LOCAL INSTANCE FiniteSetsExt

Kept(g) == [graph |-> g, changed |-> FALSE]
Changed(g) == [graph |-> g, changed |-> TRUE]
Op(g, i) == g.nodes[i].op
Lhs(g, i) == g.nodes[i].ins[1]
Rhs(g, i) == g.nodes[i].ins[2]
Width(g, i) == TypeOfNode(g, i).width
IsConst(g, i) == Op(g, i) = "CONST"
IsConstZero(g, i) == IsConst(g, i) /\ HasType(g.nodes[i]) /\ ~BvAnyOne(ConstNodeValue(g.nodes[i]))
ConstOperandEquals(g, i, width, signed, expected) ==
  IsConst(g, i) /\ HasType(g.nodes[i]) /\ BvEq(Resized(ConstNodeValue(g.nodes[i]), width, signed), expected)

\* the rewritten graphs, none when the value does not fit the payload of a CONST
RewrittenToValue(g, i, value) ==
  {Set(g, i, RewriteToConst(g.nodes[i], payload)) : payload \in ConstPayloadFor(value, TypeOfNode(g, i))}
MadeConst(g, i, opResult) ==
  LET t == TypeOfNode(g, i) IN RewrittenToValue(g, i, Resized(opResult, t.width, t.signed))
MadeZero(g, i) == MadeConst(g, i, Zero(1, FALSE))
MadeCompareResult(g, i, holds) == MadeConst(g, i, FromBool(holds))
\* a redirection is a rewrite only between nodes of one value type
RedirectTo(g, i, replacement) ==
  IF SameValueType(TypeOfNode(g, i), TypeOfNode(g, replacement))
  THEN {RedirectConsumers(g, i, replacement)} ELSE {}
\* the first of the rules, in order, that applies
FirstRule(g, rules) ==
  LET applicable == SelectSeq(rules, LAMBDA graphs : graphs # {})
  IN IF applicable = <<>> THEN Kept(g) ELSE Changed(CHOOSE h \in Head(applicable) : TRUE)
When(condition, graphs) == IF condition THEN graphs ELSE {}

TryConstantFold(g, i) ==
  LET foldable == /\ Op(g, i) \notin Leaves \cup {"OUTPUT", "SIGNAL"}
                  /\ \A k \in DOMAIN g.nodes[i].ins :
                       LET j == g.nodes[i].ins[k] IN IsConst(g, j) /\ HasType(g.nodes[j])
      h == InferNodeType(g, i)
      n == h.nodes[i]
  IN IF ~foldable THEN Kept(g)
     ELSE IF ~HasType(n) THEN Kept(h)
     ELSE FirstRule(h, <<RewrittenToValue(h, i, EvaluateDFGNode(n,
                           [k \in DOMAIN n.ins |-> ConstNodeValue(h.nodes[n.ins[k]])]))>>)

NegationOf(g, i, x, width) ==
  Op(g, i) = "UNARY_NEGATE" /\ Lhs(g, i) = x /\ Width(g, x) = width /\ Width(g, i) = width
SimplifyAdd(g, i) ==
  LET x == Lhs(g, i)
      y == Rhs(g, i)
      cancels == NegationOf(g, y, x, Width(g, i)) \/ NegationOf(g, x, y, Width(g, i))
  IN <<When(IsConstZero(g, y), RedirectTo(g, i, x)), When(IsConstZero(g, x), RedirectTo(g, i, y)),
       When(cancels, MadeZero(g, i))>>
SimplifySub(g, i) ==
  LET x == Lhs(g, i)
      y == Rhs(g, i)
      width == Width(g, i)
      Signed(j) == TypeOfNode(g, x).signed /\ TypeOfNode(g, j).signed
      plus == /\ Op(g, y) = "UNARY_NEGATE"
              /\ Width(g, Lhs(g, y)) = width /\ Width(g, y) = width
              /\ Width(g, x) >= width \/ Signed(y) = Signed(Lhs(g, y))
  IN <<When(IsConstZero(g, y), RedirectTo(g, i, x)), When(x = y, MadeZero(g, i)),
       When(IsConstZero(g, x) /\ Width(g, y) = width,
            {Set(g, i, RewriteToUnary(g.nodes[i], "UNARY_NEGATE", y))}),
       When(plus, {Set(g, i, RewriteToBinary(g.nodes[i], "ADD", x, Lhs(g, y)))})>>
SimplifyMul(g, i) ==
  LET x == Lhs(g, i)
      y == Rhs(g, i)
      width == Width(g, i)
      signed == TypeOfNode(g, x).signed /\ TypeOfNode(g, y).signed
      Is(j, value) == ConstOperandEquals(g, j, width, signed, value)
      one == FromU64(1, width, signed)
      ones == Value(width, signed, FillOnes(WordCount(width), width))
      Negation(j) == {Set(g, i, RewriteToUnary(g.nodes[i], "UNARY_NEGATE", j))}
  IN <<When(IsConstZero(g, x) \/ IsConstZero(g, y), MadeZero(g, i)),
       When(Is(y, one), RedirectTo(g, i, x)), When(Is(x, one), RedirectTo(g, i, y)),
       When(Is(y, ones) /\ Width(g, x) = width, Negation(x)),
       When(Is(x, ones) /\ Width(g, y) = width, Negation(y))>>
SimplifyCompare(g, i) ==
  <<When(Lhs(g, i) = Rhs(g, i), MadeCompareResult(g, i, Op(g, i) \in {"EQ", "LE", "GE"}))>>
SimplifyShift(g, i) ==
  <<When(IsConstZero(g, Rhs(g, i)), RedirectTo(g, i, Lhs(g, i))), When(IsConstZero(g, Lhs(g, i)), MadeZero(g, i))>>

\* arms with one value: CONSTs by payload and type, others by identity
ArmKey(g, i) ==
  IF IsConst(g, i) THEN <<0, g.nodes[i].data[1], Width(g, i), TypeOfNode(g, i).signed>> ELSE <<i, 0, 0, FALSE>>
\* a decoder with one exceptional code is an equality: MUX(EQ(sel, code), majority, minority)
NarrowedMux(g, i) ==
  LET n == g.nodes[i]
      keyOf == [k \in DOMAIN n.data |-> ArmKey(g, Arm(n, k))]
      keys == {keyOf[k] : k \in DOMAIN n.data}
      With(key) == {k \in DOMAIN n.data : keyOf[k] = key}
      rare == {key \in keys : Cardinality(With(key)) = 1}
      minority == CHOOSE k \in DOMAIN n.data : keyOf[k] \in rare
      majority == Min({k \in DOMAIN n.data : keyOf[k] \notin rare})
      selType == TypeOfNode(g, n.ins[1])
      code == CHOOSE c \in ConstPayloadFor(FromI64(n.data[minority], selType.width, selType.signed), selType) : TRUE
      c == NextId(g)
      withCode == Made(g, Typed(Constant(code), selType))
      withEq == Made(withCode, Typed(BinaryOp("EQ", n.ins[1], c), OneBit))
      narrow == Made(withEq, Typed(MuxOf(c + 1, <<0, 1>>, <<Arm(n, majority), Arm(n, minority)>>), n.type))
  IN IF Len(n.data) > 2 /\ selType.width \in 1 .. WordBits - 2 /\ Len(n.data) = 2 ^ selType.width
        /\ Cardinality(keys) = 2 /\ Cardinality(rare) = 1
     THEN {RedirectConsumers(narrow, i, c + 2)} ELSE {}
SimplifyMux(g, i) ==
  LET n == g.nodes[i]
      chosen == ArmIndexFor(n, LowU64(ConstNodeValue(g.nodes[n.ins[1]])))
  IN <<IF IsConst(g, n.ins[1]) THEN When(chosen > 0, RedirectTo(g, i, Arm(n, chosen))) ELSE {},
       When(\A k \in DOMAIN n.data : Arm(n, k) = Arm(n, 1), RedirectTo(g, i, Arm(n, 1))),
       NarrowedMux(g, i)>>
SimplifyUnary(g, i) ==
  LET inner == Lhs(g, i)
  IN <<IF Op(g, inner) = Op(g, i)
       THEN When(HasType(g.nodes[inner]) /\ Width(g, inner) = Width(g, Lhs(g, inner)),
                 RedirectTo(g, i, Lhs(g, inner)))
       ELSE {}>>
RulesFor(g, i) ==
  CASE Op(g, i) = "ADD" -> SimplifyAdd(g, i)
    [] Op(g, i) = "SUB" -> SimplifySub(g, i)
    [] Op(g, i) = "MUL" -> SimplifyMul(g, i)
    [] Op(g, i) \in Compares \cup {"EQ"} -> SimplifyCompare(g, i)
    [] Op(g, i) \in Shifts -> SimplifyShift(g, i)
    [] Op(g, i) = "MUX" -> SimplifyMux(g, i)
    [] Op(g, i) \in {"UNARY_NEGATE", "BITWISE_NOT"} -> SimplifyUnary(g, i)
    [] OTHER -> <<>>
TryAlgebraicSimplify(g, i) ==
  LET ruled == Op(g, i) \in Arithmetic \cup Compares \cup Shifts \cup {"EQ", "MUX", "UNARY_NEGATE", "BITWISE_NOT"}
      h == InferNodeType(g, i)
      n == h.nodes[i]
  IN IF ~ruled THEN Kept(g)
     ELSE IF ~HasType(n) \/ \E k \in DOMAIN n.ins : ~HasType(h.nodes[n.ins[k]]) THEN Kept(h)
     ELSE FirstRule(h, RulesFor(h, i))

\* one sweep over the live nodes, then again while something changed
Sweep(Try(_, _), g, extraRoots) ==
  FoldLeft(LAMBDA s, i : LET t == Try(s.graph, i) IN [graph |-> t.graph, changed |-> s.changed \/ t.changed],
           Kept(g), LiveOrder(g, extraRoots))
FoldOrSimplify(g, i) ==
  LET folded == TryConstantFold(g, i)
  IN IF folded.changed THEN folded ELSE TryAlgebraicSimplify(folded.graph, i)

RECURSIVE FoldConstants(_, _)
FoldConstants(g, extraRoots) ==
  LET swept == Sweep(FoldOrSimplify, g, extraRoots)
  IN IF swept.changed THEN FoldConstants(swept.graph, extraRoots) ELSE swept.graph

-----------------------------------------------------------------------------
(* condition_normalization.cpp *)
IsConstValue(g, i, v) == IsConst(g, i) /\ g.nodes[i].data[1] = v
\* EQ with a constant of a 1-bit operand: the operand or its negation
NormalizedEq(g, i) ==
  LET Side(x, c) == <<When(IsConstValue(g, c, 0) /\ Width(g, x) = 1,
                           {Set(g, i, RewriteToUnary(g.nodes[i], "BITWISE_NOT", x))}),
                      When(IsConstValue(g, c, 1) /\ Width(g, x) = 1, {RedirectConsumers(g, i, x)})>>
  IN Side(Lhs(g, i), Rhs(g, i)) \o Side(Rhs(g, i), Lhs(g, i))
\* Mutant of NormalizedMux: takes the operand of the inverted selector and leaves the arms.
NormalizedMuxUnswapped(g, i) ==
  LET n == g.nodes[i]
      s == n.ins[1]
  IN <<IF IsBinaryMux(n) /\ Op(g, s) = "BITWISE_NOT" THEN {Set(g, i, [n EXCEPT !.ins[1] = Lhs(g, s)])} ELSE {}>>

NormalizedMux(g, i) ==
  LET n == g.nodes[i]
      s == n.ins[1]
  IN <<IF IsBinaryMux(n) /\ Op(g, s) = "BITWISE_NOT"
       THEN {Set(g, i, SwapArms([n EXCEPT !.ins[1] = Lhs(g, s)], ArmIndexFor(n, 1), ArmIndexFor(n, 0)))}
       ELSE {}>>
TryNormalize(g, i) ==
  FirstRule(g, CASE Op(g, i) = "EQ" -> NormalizedEq(g, i)
                 [] Op(g, i) = "MUX" -> NormalizedMux(g, i)
                 [] Op(g, i) = "BITWISE_NOT" /\ Op(g, Lhs(g, i)) = "BITWISE_NOT" ->
                      <<{RedirectConsumers(g, i, Lhs(g, Lhs(g, i)))}>>
                 [] OTHER -> <<>>)

RECURSIVE NormalizeConditions(_, _)
NormalizeConditions(g, extraRoots) ==
  LET swept == Sweep(TryNormalize, g, extraRoots)
  IN IF swept.changed THEN NormalizeConditions(swept.graph, extraRoots) ELSE swept.graph

-----------------------------------------------------------------------------
(* cse.cpp *)
NodeKey(n, replacement) ==
  [op |-> n.op, ins |-> [k \in DOMAIN n.ins |-> IF n.ins[k] \in DOMAIN replacement THEN replacement[n.ins[k]]
                                                ELSE n.ins[k]],
   data |-> n.data, type |-> n.type]
\* boundary nodes, signals and unknowns have an identity and are never merged
Merges(g, order) ==
  FoldLeft(LAMBDA s, i :
             LET n == g.nodes[i]
                 key == NodeKey(n, s.replacement)
             IN IF n.op \in {"INPUT", "OUTPUT", "SIGNAL", "X"} THEN s
                ELSE IF key \notin DOMAIN s.canonical THEN [s EXCEPT !.canonical = @ @@ (key :> i)]
                ELSE IF n.name # <<>> THEN s
                ELSE [s EXCEPT !.replacement = @ @@ (i :> s.canonical[key])],
           [canonical |-> <<>>, replacement |-> <<>>], order).replacement
EliminateCommonSubexpressions(g, extraRoots) ==
  LET merged == Merges(g, LiveOrder(g, extraRoots))
      Final(i) == IF i \in DOMAIN merged THEN merged[i] ELSE i
  IN [nodes |-> [i \in DOMAIN g.nodes |-> [g.nodes[i] EXCEPT !.ins = [k \in DOMAIN @ |-> Final(@[k])]]],
      outs |-> [k \in DOMAIN g.outs |-> Final(g.outs[k])]]

-----------------------------------------------------------------------------
(* dce.cpp *)
EliminateDeadCode(g, extraRoots) ==
  LET alive == ToSet(LiveOrder(g, extraRoots))
  IN [g EXCEPT !.nodes = [i \in alive |-> g.nodes[i]]]
=============================================================================
