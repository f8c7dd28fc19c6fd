---------------------------- MODULE ConstantValue ----------------------------
(***************************************************************************)
(* The types of the source language (types.h) and the typed constants of   *)
(* constant_value.cpp.  An operator that throws returns the empty set,     *)
(* otherwise the set of its one result.                                    *)
(*                                                                         *)
(* A type is [width, signed, dims], a struct [name, packed, fields]        *)
(* (fields a sequence of [name, type]) or an unpacked array [dim, elem]; a *)
(* dimension is a pair of bounds.  A constant is [type, value]: the bits   *)
(* as a natural number or, of an aggregate, the sequence of the constants  *)
(* it is made of.                                                          *)
(***************************************************************************)
EXTENDS Dfg
LOCAL INSTANCE SequencesExt

IsStruct(t) == "fields" \in DOMAIN t
IsArray(t) == "elem" \in DOMAIN t
IsScalarType(t) == ~IsStruct(t) /\ ~IsArray(t)
SizeOf(dim) == Most(dim[1], dim[2]) - Least(dim[1], dim[2]) + 1
IndexesOf(dim) == [k \in 1 .. SizeOf(dim) |-> IF dim[1] <= dim[2] THEN dim[1] + k - 1 ELSE dim[1] - k + 1]
InDim(dim, index) == index \in Least(dim[1], dim[2]) .. Most(dim[1], dim[2])
\* position of an element in declaration order
PositionOf(dim, index) == IF dim[1] <= dim[2] THEN index - dim[1] ELSE dim[1] - index
ProductOf(dims) == FoldLeft(LAMBDA n, dim : n * SizeOf(dim), 1, dims)
Vector(left, right, signed) ==
  [width |-> SizeOf(<<left, right>>), signed |-> signed, dims |-> <<<<left, right>>>>]

RECURSIVE BitstreamWidth(_)
BitstreamWidth(t) ==
  IF IsArray(t) THEN SizeOf(t.dim) * BitstreamWidth(t.elem)
  ELSE IF IsStruct(t) THEN FoldLeft(LAMBDA w, f : w + BitstreamWidth(f.type), 0, t.fields)
  ELSE t.width
RECURSIVE SameType(_, _)
SameType(s, t) ==
  CASE IsArray(s) \/ IsArray(t) -> IsArray(s) /\ IsArray(t) /\ s.dim = t.dim /\ SameType(s.elem, t.elem)
    [] IsStruct(s) \/ IsStruct(t) -> IsStruct(s) /\ IsStruct(t) /\ s.name = t.name
    [] OTHER -> s = t

-----------------------------------------------------------------------------
(* making constants *)
ConstantOf(t, value) == [type |-> t, value |-> value]
IsIntegral(t) == ~IsArray(t) /\ (IsStruct(t) => t.packed) /\ BitstreamWidth(t) > 0
RECURSIVE BitWords(_, _)
\* the bits of a packed struct are cut into its fields, the last one least significant
BitWords(t, bits) ==
  LET low[k \in 1 .. Len(t.fields)] == IF k = Len(t.fields) THEN 0 ELSE low[k + 1] + BitstreamWidth(t.fields[k + 1].type)
  IN ConstantOf(t, IF IsStruct(t) THEN [k \in DOMAIN t.fields |-> BitWords(t.fields[k].type, bits \div 2 ^ low[k])]
                   ELSE bits % 2 ^ t.width)
\* of a negative number the sign fills the bits above the word
Bits(t, n) == IF IsIntegral(t) THEN {BitWords(t, n)} ELSE {}
IntegerConstant(n) == ConstantOf(Integer(WordBits, TRUE), n % Base)
PartTypes(t) == IF IsArray(t) THEN [k \in 1 .. SizeOf(t.dim) |-> t.elem] ELSE [k \in DOMAIN t.fields |-> t.fields[k].type]
\* as many parts as the aggregate has, each of exactly its type
Aggregate(t, parts) ==
  LET types == PartTypes(t)
  IN IF Len(parts) = Len(types) /\ \A k \in DOMAIN parts : SameType(types[k], parts[k].type) THEN {ConstantOf(t, parts)} ELSE {}
\* Mutant of Concatenate: the first item is taken for the least significant.
ConcatenateReversed(t, items) ==
  IF \E k \in DOMAIN items : ~IsScalarType(items[k].type) THEN {}
  ELSE Bits(t, FoldLeft(LAMBDA acc, item : acc * 2 ^ item.type.width + item.value, 0, Reverse(items)))
\* most significant first; what does not fit in the type is cut off
Concatenate(t, items) ==
  IF \E k \in DOMAIN items : ~IsScalarType(items[k].type) THEN {}
  ELSE Bits(t, FoldLeft(LAMBDA acc, item : acc * 2 ^ item.type.width + item.value, 0, items))

-----------------------------------------------------------------------------
(* reading constants *)
FieldOf(constant, name) ==
  IF ~IsStruct(constant.type) THEN {}
  ELSE {constant.value[k] : k \in {k \in DOMAIN constant.type.fields : constant.type.fields[k].name = name}}
RECURSIVE ScalarLeaves(_), FlattenToBits(_)
ScalarLeaves(constant) ==
  IF IsScalarType(constant.type) THEN <<constant>>
  ELSE FlattenSeq([k \in DOMAIN constant.value |-> ScalarLeaves(constant.value[k])])
\* the bits of a scalar or of a packed struct
FlattenToBits(constant) ==
  IF IsScalarType(constant.type) THEN {constant.value}
  ELSE IF IsArray(constant.type) THEN {}
  ELSE IF ~constant.type.packed THEN {}
  ELSE FoldLeft(LAMBDA done, part : {acc * 2 ^ BitstreamWidth(part.type) + bits : acc \in done, bits \in FlattenToBits(part)},
                {0}, constant.value)
IsSignedType(t) == IsScalarType(t) /\ t.signed
\* the number the bits stand for, if the word can hold it
IntegerOf(constant) ==
  LET half == 2 ^ (BitstreamWidth(constant.type) - 1)
      Number(bits) == IF IsSignedType(constant.type) /\ bits >= half THEN bits - 2 * half ELSE bits
  IN {n \in {Number(bits) : bits \in FlattenToBits(constant)} : -Base \div 2 <= n /\ n < Base \div 2}
\* the bits themselves, as a signed word
BitPatternOf(constant) == {AsInt64(bits) : bits \in {b \in FlattenToBits(constant) : b < Base}}
=============================================================================
