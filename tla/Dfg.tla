-------------------------------- MODULE Dfg --------------------------------
(***************************************************************************)
(* The data flow graph of src/src/mateir/dfg.h and the reference           *)
(* semantics of its nodes (src/src/mateir/dfg_eval.cpp).                   *)
(*                                                                         *)
(* A graph is [nodes, outs]: `nodes' maps an identity (the order of the    *)
(* vector the code keeps) to a node, `outs' lists the graph outputs.  A    *)
(* node is [op, ins, data, type, name]: `ins' are its inputs in order (of  *)
(* a MUX the selector, then the arms), `data' is the value of a CONST, the *)
(* bit indices of a SLICE (least significant first) or the arm codes of a  *)
(* MUX.  A type is [width, signed, dims], dims the bounds of its packed    *)
(* dimensions, outermost first; width 0 is a node that has no type yet.    *)
(***************************************************************************)
EXTENDS BitVectorValue, TLC
LOCAL INSTANCE SequencesExt
LOCAL INSTANCE FiniteSetsExt

CONSTANT IntBits             \* width of an unsized integer constant, 32 in the code

ASSUME IntBitsAssumption == IntBits \in 1 .. WordBits

Integer(width, signed) == [width |-> width, signed |-> signed, dims |-> <<>>]
NoType == Integer(0, FALSE)
OneBit == Integer(1, FALSE)
SameValueType(s, t) == s.width > 0 /\ s.width = t.width /\ s.signed = t.signed

Reductions == {"REDUCTION_AND", "REDUCTION_NAND", "REDUCTION_OR", "REDUCTION_NOR", "REDUCTION_XOR", "REDUCTION_XNOR"}
UnaryOps == {"UNARY_NEGATE", "BITWISE_NOT"} \cup Reductions
Arithmetic == {"ADD", "SUB", "MUL"}
Compares == {"LT", "LE", "GT", "GE"}
Shifts == {"SHL", "SHR", "ASR"}
Bitwises == {"BITWISE_AND", "BITWISE_OR", "BITWISE_XOR", "BITWISE_XNOR"}
BinaryOps == Arithmetic \cup Compares \cup Shifts \cup Bitwises \cup {"EQ"}
Leaves == {"INPUT", "CONST", "X"}
ExpectedInputs(op) ==
  CASE op \in Leaves -> 0
    [] op \in UnaryOps \cup {"SLICE"} -> 1
    [] op \in BinaryOps -> 2
    [] OTHER -> -1

-----------------------------------------------------------------------------
(* nodes *)
Node(op, ins, data, type) == [op |-> op, ins |-> ins, data |-> data, type |-> type, name |-> <<>>]
Named(n, name) == [n EXCEPT !.name = name]
Constant(v) == Node("CONST", <<>>, <<v>>, Integer(IntBits, FALSE))
Unary(op, x) == Node(op, <<x>>, <<>>, NoType)
BinaryOp(op, x, y) == Node(op, <<x, y>>, <<>>, NoType)
SliceOf(source, indices) == Node("SLICE", <<source>>, indices, NoType)
Upto(low, high) == [k \in 1 .. high - low + 1 |-> low + k - 1]
ConcatOf(parts) == Node("CONCAT", parts, <<>>, NoType)
MuxOf(selector, codes, arms) == Node("MUX", <<selector>> \o arms, codes, NoType)
Typed(n, type) == [n EXCEPT !.type = type]
HasType(n) == n.type.width > 0

Arm(n, k) == n.ins[k + 1]
Arms(n) == Tail(n.ins)
ArmIndexFor(n, code) ==
  LET hits == {k \in DOMAIN n.data : n.data[k] = code}
  IN IF hits = {} THEN 0 ELSE CHOOSE k \in hits : \A j \in hits : k <= j
IsBinaryMux(n) == n.op = "MUX" /\ Len(n.data) = 2 /\ ArmIndexFor(n, 0) > 0 /\ ArmIndexFor(n, 1) > 0
\* the selector is inverted: the codes stay, the data edges of the arms move
SwapArms(n, j, k) == [n EXCEPT !.ins[j + 1] = n.ins[k + 1], !.ins[k + 1] = n.ins[j + 1]]
IsContiguous(n) == \A j \in 2 .. Len(n.data) : n.data[j] = n.data[j - 1] + 1

RewriteToConst(n, v) == [n EXCEPT !.op = "CONST", !.ins = <<>>, !.data = <<v>>, !.name = <<>>]
RewriteToUnary(n, op, x) == [n EXCEPT !.op = op, !.ins = <<x>>, !.data = <<>>]
RewriteToBinary(n, op, x, y) == [n EXCEPT !.op = op, !.ins = <<x, y>>, !.data = <<>>]
ReplaceInput(n, old, new) == [n EXCEPT !.ins = [k \in DOMAIN @ |-> IF @[k] = old THEN new ELSE @[k]]]

-----------------------------------------------------------------------------
(* graphs *)
NextId(g) == 1 + Max({0} \cup DOMAIN g.nodes)
Made(g, n) == [g EXCEPT !.nodes = @ @@ (NextId(g) :> n)]
Set(g, i, n) == [g EXCEPT !.nodes[i] = n]
TypeOfNode(g, i) == g.nodes[i].type
InputTypes(g, n) == [k \in DOMAIN n.ins |-> TypeOfNode(g, n.ins[k])]
ConnectDriver(g, target, driver) == [g EXCEPT !.nodes[target].ins = <<driver>>]
\* every consumer of `old' and every entry of the named maps now refers to `new'
RedirectConsumers(g, old, new) ==
  [nodes |-> [i \in DOMAIN g.nodes |-> ReplaceInput(g.nodes[i], old, new)],
   outs |-> [k \in DOMAIN g.outs |-> IF g.outs[k] = old THEN new ELSE g.outs[k]]]

RECURSIVE Visit(_, _, _)
Visit(g, walk, i) ==
  IF i \in walk.seen THEN walk
  ELSE LET below == FoldLeft(LAMBDA w, j : Visit(g, w, j), [walk EXCEPT !.seen = @ \cup {i}], g.nodes[i].ins)
       IN [below EXCEPT !.order = Append(@, i)]
\* producers before consumers, over what the roots reach
PostOrder(g, roots) ==
  FoldLeft(LAMBDA w, i : Visit(g, w, i), [seen |-> {}, order |-> <<>>], roots).order
LiveOrder(g, extraRoots) == PostOrder(g, g.outs \o extraRoots)

ArityFits(n) ==
  \/ Len(n.ins) = 0 /\ n.op \in Leaves \cup {"OUTPUT", "SIGNAL"}
  \/ Len(n.ins) > 0 /\ ExpectedInputs(n.op) \in {-1, Len(n.ins)}
MuxIsComplete(g, n) ==
  LET selector == TypeOfNode(g, n.ins[1])
  IN /\ Len(n.ins) >= 3 /\ Len(n.ins) = Len(n.data) + 1
     /\ IsInjective(n.data)
     /\ selector.width > 0 =>
          selector.width < WordBits - 1 /\ Len(n.data) = 2 ^ selector.width
          /\ ToSet(n.data) = 0 .. 2 ^ selector.width - 1
SliceIsInside(g, n) ==
  LET source == TypeOfNode(g, n.ins[1])
  IN n.data # <<>> /\ (source.width > 0 => \A k \in DOMAIN n.data : n.data[k] \in 0 .. source.width - 1)
Validate(g) ==
  \A i \in DOMAIN g.nodes :
    LET n == g.nodes[i]
    IN /\ ArityFits(n)
       /\ \A k \in DOMAIN n.ins : n.ins[k] \in DOMAIN g.nodes
       /\ n.op \in {"OUTPUT", "SIGNAL"} => Len(n.ins) <= 1
       /\ n.op = "MUX" => MuxIsComplete(g, n)
       /\ n.op = "SLICE" => SliceIsInside(g, n)
ValidateNoOrphans(g) == \A i \in DOMAIN g.nodes : ExpectedInputs(g.nodes[i].op) > 0 => g.nodes[i].ins # <<>>
ValidateStrictLive(g) ==
  \A i \in DOMAIN g.nodes :
    /\ g.nodes[i].ins = <<>> => g.nodes[i].op \in Leaves
    /\ g.nodes[i].op = "SLICE" => HasType(g.nodes[g.nodes[i].ins[1]])

-----------------------------------------------------------------------------
(* reference semantics: `v' are the values of the node's inputs, in order *)
FromBool(b) == FromU64(IF b THEN 1 ELSE 0, 1, FALSE)
FromI64(raw, width, signed) ==
  Value(width, signed, MaskTopWord([i \in 0 .. WordCount(width) - 1 |->
                                      IF i = 0 THEN raw % Base ELSE IF raw < 0 THEN AllOnes ELSE 0], width))
ConstNodeValue(n) == FromI64(n.data[1], n.type.width, n.type.signed)
EvaluateArithmetic(n, v) ==
  LET signed == BothSigned(v[1], v[2])
      x == Resized(v[1], n.type.width, signed)
      y == Resized(v[2], n.type.width, signed)
  IN CASE n.op = "ADD" -> BvAdd(x, y)
       [] n.op = "SUB" -> BvSub(x, y)
       [] n.op = "MUL" -> BvMul(x, y)
EvaluateCompare(n, v) ==
  LET Less(x, y) == IF BothSigned(v[1], v[2]) THEN BvSignedLt(x, y) ELSE BvUnsignedLt(x, y)
  IN CASE n.op = "LT" -> Less(v[1], v[2])
       [] n.op = "LE" -> Less(v[1], v[2]) \/ BvEq(v[1], v[2])
       [] n.op = "GT" -> Less(v[2], v[1])
       [] n.op = "GE" -> ~Less(v[1], v[2])
       [] n.op = "EQ" -> BvEq(v[1], v[2])
EvaluateBitwise(n, v) ==
  CASE n.op = "BITWISE_AND" -> BvAnd(v[1], v[2])
    [] n.op = "BITWISE_OR" -> BvOr(v[1], v[2])
    [] n.op = "BITWISE_XOR" -> BvXor(v[1], v[2])
    [] n.op = "BITWISE_XNOR" -> BvXnor(v[1], v[2])
EvaluateReduction(n, v) ==
  CASE n.op = "REDUCTION_AND" -> BvAllOnes(v[1])
    [] n.op = "REDUCTION_NAND" -> ~BvAllOnes(v[1])
    [] n.op = "REDUCTION_OR" -> BvAnyOne(v[1])
    [] n.op = "REDUCTION_NOR" -> ~BvAnyOne(v[1])
    [] n.op = "REDUCTION_XOR" -> BvOddOnes(v[1])
    [] n.op = "REDUCTION_XNOR" -> ~BvOddOnes(v[1])
GatherBits(v, indices) ==
  FoldLeft(LAMBDA r, j : [r EXCEPT !.words = SetBit(@, r.width, j - 1, Bit(v, indices[j]))],
           Zero(Len(indices), FALSE), Upto(1, Len(indices)))
EvaluateOp(n, v) ==
  CASE n.op = "CONST" -> ConstNodeValue(n)
    [] n.op \in {"SIGNAL", "OUTPUT"} -> v[1]
    [] n.op \in Arithmetic -> EvaluateArithmetic(n, v)
    [] n.op \in Compares \cup {"EQ"} -> FromBool(EvaluateCompare(n, v))
    [] n.op = "SHL" -> Shl(v[1], LowU64(v[2]))
    [] n.op \in {"SHR", "ASR"} -> Shr(v[1], LowU64(v[2]), n.op = "ASR")
    [] n.op = "MUX" -> v[1 + ArmIndexFor(n, LowU64(v[1]))]
    [] n.op = "UNARY_NEGATE" -> Negated(v[1])
    [] n.op = "BITWISE_NOT" -> Inverted(v[1])
    [] n.op \in Bitwises -> EvaluateBitwise(n, v)
    [] n.op \in Reductions -> FromBool(EvaluateReduction(n, v))
    [] n.op = "SLICE" -> GatherBits(v[1], n.data)
    [] n.op = "CONCAT" -> Concat(v)
EvaluateDFGNode(n, v) == Resized(EvaluateOp(n, v), n.type.width, n.type.signed)
\* the payload of a CONST of `type' that holds the value: none when it needs more than a word
ConstPayloadFor(value, type) ==
  IF \E b \in WordBits .. type.width - 1 : Bit(value, b) THEN {}
  ELSE IF type.signed /\ type.width <= WordBits /\ Bit(value, type.width - 1)
  THEN {LowU64(value) - 2 ^ type.width}
  ELSE {IF LowU64(value) >= Base \div 2 THEN LowU64(value) - Base ELSE LowU64(value)}

\* the values of every node, `leaf' giving those of the inputs and unknowns
Evaluated(g, order, leaf) ==
  FoldLeft(LAMBDA env, i :
             LET n == g.nodes[i]
             IN env @@ (i :> IF n.op \in {"INPUT", "X"} THEN leaf[i]
                             ELSE EvaluateDFGNode(n, [k \in DOMAIN n.ins |-> env[n.ins[k]]])),
           <<>>, order)
=============================================================================
