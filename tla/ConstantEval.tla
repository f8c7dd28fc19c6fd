---------------------------- MODULE ConstantEval ----------------------------
(***************************************************************************)
(* Expressions of the source language and constant_eval.cpp: the value of  *)
(* an expression over parameters alone, in the code's 64-bit integers (a   *)
(* word here).  An operator that throws returns the empty set, otherwise   *)
(* the set of its one result.                                              *)
(*                                                                         *)
(* An expression is [k, args, v].  Parameters are a function from names to *)
(* constants.                                                              *)
(***************************************************************************)
EXTENDS ConstantValue
LOCAL INSTANCE SequencesExt

E(k, args, v) == [k |-> k, args |-> args, v |-> v]
Id(name) == E("id", <<>>, name)
Unsized(v) == E("int", <<>>, v)
\* the key of a pattern item
IsDefault(key) == key.k = "default"
\* '0 and '1: as a number all ones is -1
Fill(one) == E("fill", <<>>, IF one THEN -1 ELSE 0)
Sized(width, signed, v) == E("sized", <<>>, [value |-> v, type |-> Integer(width, signed)])

-----------------------------------------------------------------------------
(* 64-bit arithmetic *)
Wrapped(x) == AsInt64(x % Base)
Pattern(x) == x % Base
RECURSIVE Power(_, _)
Power(x, n) == IF n = 0 THEN 1 ELSE Wrapped(x * Power(x, n - 1))
Truncated(x, y) == LET q == (IF x < 0 THEN -x ELSE x) \div (IF y < 0 THEN -y ELSE y)
                   IN IF (x < 0) # (y < 0) THEN -q ELSE q
OfBool(b) == IF b THEN 1 ELSE 0
InsideWord(n) == n \in 0 .. WordBits - 1
ConstantUnary(op, x) ==
  CASE op = "UNARY_NEGATE" -> {Wrapped(-x)}
    [] op = "BITWISE_NOT" -> {-x - 1}
    [] OTHER -> {}
\* `x' and `y' in the order of the operands; of a shift by more than the word only zero remains
ConstantBinary(op, x, y) ==
  CASE op = "ADD" -> {Wrapped(x + y)}
    [] op = "SUB" -> {Wrapped(x - y)}
    [] op = "MUL" -> {Wrapped(x * y)}
    [] op = "DIV" -> IF y = 0 THEN {} ELSE {Wrapped(Truncated(x, y))}
    [] op = "MOD" -> IF y = 0 THEN {} ELSE {x - y * Truncated(x, y)}
    [] op = "POWER" -> IF y < 0 \/ (x = 0 /\ y = 0) THEN {} ELSE {Power(x, y)}
    [] op = "EQ" -> {OfBool(x = y)}
    [] op = "NEQ" -> {OfBool(x # y)}
    [] op = "LT" -> {OfBool(x < y)}
    [] op = "LE" -> {OfBool(x <= y)}
    [] op = "GT" -> {OfBool(x > y)}
    [] op = "GE" -> {OfBool(x >= y)}
    [] op = "BITWISE_AND" -> {AsInt64(Pattern(x) & Pattern(y))}
    [] op = "BITWISE_OR" -> {AsInt64(Pattern(x) | Pattern(y))}
    [] op = "BITWISE_XOR" -> {AsInt64(Pattern(x) ^^ Pattern(y))}
    [] op = "BITWISE_XNOR" -> {-AsInt64(Pattern(x) ^^ Pattern(y)) - 1}
    [] op = "SHL" -> {IF InsideWord(y) THEN Wrapped(x * 2 ^ y) ELSE 0}
    [] op = "SHR" -> {IF InsideWord(y) THEN AsInt64(Pattern(x) \div 2 ^ y) ELSE 0}
    [] op = "ASR" -> {IF InsideWord(y) THEN x \div 2 ^ y ELSE 0}
    [] OTHER -> {}
MaskToWidth(x, width) == IF width \in 1 .. WordBits THEN {AsInt64(Pattern(x) % 2 ^ width)} ELSE {}
CeilLog2(x) == CHOOSE n \in 0 .. WordBits : 2 ^ n >= x /\ (n = 0 \/ 2 ^ (n - 1) < x)

RECURSIVE Constants(_, _), ConstantWidth(_, _)
\* the items of a concatenation, most significant first, that fit in the word
ConcatenatedConstants(items, p) ==
  FoldLeft(LAMBDA acc, item :
             {[value |-> (a.value * 2 ^ w + (Pattern(x) % 2 ^ w)) % Base, width |-> a.width + w] :
                a \in acc, x \in Constants(item, p), w \in {n \in ConstantWidth(item, p) : n <= WordBits}},
           {[value |-> 0, width |-> 0]}, items)
Fitting(values) == {AsInt64(r.value) : r \in {r \in values : r.width \in 1 .. WordBits}}
Replicated(args, p) ==
  UNION {IF n < 1 \/ n > WordBits THEN {} ELSE {FlattenSeq([k \in 1 .. n |-> Tail(args)])} : n \in Constants(args[1], p)}
ConstantRange(x, left, right) ==
  LET low == Least(left, right)
      high == Most(left, right)
  IN IF low < 0 \/ high >= WordBits THEN {} ELSE {AsInt64((Pattern(x) \div 2 ^ low) % 2 ^ (high - low + 1))}
Constants(e, p) ==
  LET Of(k) == Constants(e.args[k], p)
  IN CASE e.k \in {"int", "fill"} -> {e.v}
       [] e.k = "sized" -> {e.v.value}
       [] e.k = "id" -> IF e.v \in DOMAIN p THEN IntegerOf(p[e.v]) ELSE {}
       [] e.k = "unary" -> UNION {ConstantUnary(e.v, x) : x \in Of(1)}
       [] e.k = "not" -> {OfBool(x = 0) : x \in Of(1)}
       [] e.k = "binary" -> UNION {ConstantBinary(e.v, x, y) : x \in Of(1), y \in Of(2)}
       [] e.k = "land" -> UNION {IF x = 0 THEN {0} ELSE {OfBool(y # 0) : y \in Of(2)} : x \in Of(1)}
       [] e.k = "lor" -> UNION {IF x # 0 THEN {1} ELSE {OfBool(y # 0) : y \in Of(2)} : x \in Of(1)}
       [] e.k = "cond" -> UNION {IF c # 0 THEN Of(2) ELSE Of(3) : c \in Of(1)}
       [] e.k = "bit" /\ e.args[1].k = "id" -> UNION {ConstantRange(x, n, n) : x \in Of(1), n \in Of(2)}
       [] e.k = "range" /\ e.args[1].k = "id" ->
            UNION {ConstantRange(x, l, r) : x \in Of(1), l \in Of(2), r \in Of(3)}
       [] e.k = "concat" -> Fitting(ConcatenatedConstants(e.args, p))
       [] e.k = "repeat" -> UNION {Fitting(ConcatenatedConstants(items, p)) : items \in Replicated(e.args, p)}
       [] e.k = "cast" -> UNION {MaskToWidth(x, e.v.width) : x \in Of(1)}
       [] e.k \in {"named", "sign"} -> Of(1)
       [] e.k = "bits" /\ e.args[1].k = "id" -> ConstantWidth(e.args[1], p)
       [] e.k = "clog2" -> {CeilLog2(x) : x \in {n \in Of(1) : n >= 0}}
       [] OTHER -> {}
ConstantWidth(e, p) ==
  LET Sum(items) == FoldLeft(LAMBDA acc, item : {a + w : a \in acc, w \in ConstantWidth(item, p)}, {0}, items)
  IN CASE e.k = "int" -> {IntBits}
       [] e.k = "sized" -> {e.v.type.width}
       [] e.k = "id" -> IF e.v \in DOMAIN p THEN {BitstreamWidth(p[e.v].type)} ELSE {}
       [] e.k = "bit" /\ e.args[1].k = "id" -> {1}
       [] e.k = "range" /\ e.args[1].k = "id" ->
            {SizeOf(<<l, r>>) : l \in Constants(e.args[2], p), r \in Constants(e.args[3], p)}
       [] e.k = "concat" -> Sum(e.args)
       [] e.k = "repeat" -> UNION {Sum(items) : items \in Replicated(e.args, p)}
       [] e.k \in {"cast", "named"} -> {BitstreamWidth(e.v)}
       [] OTHER -> {}
=============================================================================
