-------------------------- MODULE ValueArithmetic --------------------------
(***************************************************************************)
(* A chain of operations on a value, carried out three times: by the       *)
(* interpreter's BitVectorValue (bv), by the FixedValue of generated code  *)
(* (native), and in the integers (exact), where the value is a number      *)
(* taken modulo 2^width.  dfg_eval.cpp runs the first, the C++ printed by  *)
(* dpi_codegen.cpp the second; a simulation may mix both.                  *)
(***************************************************************************)
EXTENDS BitVectorValue

CONSTANTS Widths,      \* widths of values that operands may have
          Amounts,     \* shift amounts, beyond the widest value included
          Texts,       \* digits of constants read from text
          Gathers      \* <<offset, stride, lane width, lanes>> of strided slices

VARIABLES bv, native, exact
vars == <<bv, native, exact>>

MaxWidth == CHOOSE w \in Widths : \A other \in Widths : other <= w
Numbers == UNION {[width : {w}, signed : BOOLEAN, value : 0 .. 2 ^ w - 1] : w \in Widths}
Stored(n) == Value(n.width, n.signed, [i \in 0 .. WordCount(n.width) - 1 |-> (n.value \div Base ^ i) % Base])
Number(width, signed, value) == [width |-> width, signed |-> signed, value |-> value % 2 ^ width]
\* the integer that the bits stand for
Meaning(n) == IF n.signed /\ n.value >= 2 ^ (n.width - 1) THEN n.value - 2 ^ n.width ELSE n.value
Signed(n) == [n EXCEPT !.signed = TRUE]

Init == exact \in Numbers /\ bv = Stored(exact) /\ native = Stored(exact)

Becomes(b, f, n) == bv' = b /\ native' = f /\ exact' = n
Flag(p) == FromU64(IF p THEN 1 ELSE 0, 1, FALSE)
Truth(p) == Number(1, FALSE, IF p THEN 1 ELSE 0)

ResizeStep ==
  \E w \in Widths, s \in BOOLEAN :
    Becomes(Resized(bv, w, s), FixedResized(native, w, s),
            Number(w, s, IF s THEN Meaning(Signed(exact)) ELSE exact.value))
SliceStep ==
  \E low \in 0 .. exact.width - 1 : \E high \in low .. exact.width - 1 :
    Becomes(BvSlice(bv, high, low), FixedSlice(native, high, low),
            Number(high - low + 1, FALSE, exact.value \div 2 ^ low))
GatherStep ==
  \E g \in Gathers :
    LET From(i) == g[1] + g[2] * i
        Lane(i) == BvSlice(bv, From(i) + g[3] - 1, From(i))
        lane(i) == ((exact.value \div 2 ^ From(i)) % 2 ^ g[3]) * 2 ^ (g[3] * i)
    IN /\ \A i \in 0 .. g[4] - 1 : From(i) >= 0 /\ From(i) + g[3] <= exact.width
       /\ Becomes(Concat([k \in 1 .. g[4] |-> Lane(g[4] - k)]), FixedGatherAffine(native, g[1], g[2], g[3], g[4]),
                  Number(g[3] * g[4], FALSE, SumFunction([i \in 0 .. g[4] - 1 |-> lane(i)])))
ShiftStep ==
  \E n \in Amounts :
    \/ Becomes(Shl(bv, n), FixedShl(native, n), Number(exact.width, exact.signed, exact.value * 2 ^ n))
    \/ Becomes(Shr(bv, n, FALSE), FixedShr(native, n, FALSE), [exact EXCEPT !.value = @ \div 2 ^ n])
    \/ Becomes(Shr(bv, n, TRUE), FixedShr(native, n, TRUE),
               Number(exact.width, exact.signed, Meaning(exact) \div 2 ^ n))
UnaryStep ==
  \/ Becomes(Negated(bv), FixedNegated(native), Number(exact.width, exact.signed, -exact.value))
  \/ Becomes(Inverted(bv), FixedInverted(native), Number(exact.width, exact.signed, -exact.value - 1))
ReductionStep ==
  \/ Becomes(Flag(BvAllOnes(bv)), Flag(FixedAllOnes(native)), Truth(exact.value = 2 ^ exact.width - 1))
  \/ Becomes(Flag(BvAnyOne(bv)), Flag(FixedAnyOne(native)), Truth(exact.value # 0))
  \/ Becomes(Flag(BvOddOnes(bv)), Flag(FixedOddOnes(native)),
             Truth(Cardinality({i \in 0 .. exact.width - 1 : (exact.value \div 2 ^ i) % 2 = 1}) % 2 = 1))

\* the operand of a two-operand step, and the numbers both operands mean at the wider width
Arithmetic(n, value) == Number(Most(exact.width, n.width), exact.signed /\ n.signed, value)
Bits(n, width) == Meaning(n) % 2 ^ width
BitwiseStep ==
  \E n \in Numbers :
    LET w == Most(exact.width, n.width)
        x == Bits(exact, w)
        y == Bits(n, w)
        operand == Stored(n)
    IN \/ Becomes(BvAnd(bv, operand), FixedAnd(native, operand), Arithmetic(n, x & y))
       \/ Becomes(BvOr(bv, operand), FixedOr(native, operand), Arithmetic(n, x | y))
       \/ Becomes(BvXor(bv, operand), FixedXor(native, operand), Arithmetic(n, x ^^ y))
       \/ Becomes(BvXnor(bv, operand), FixedXnor(native, operand), Arithmetic(n, -(x ^^ y) - 1))
ArithmeticStep ==
  \E n \in Numbers :
    LET operand == Stored(n)
    IN \/ Becomes(BvAdd(bv, operand), FixedAdd(native, operand), Arithmetic(n, Meaning(exact) + Meaning(n)))
       \/ Becomes(BvSub(bv, operand), FixedSub(native, operand), Arithmetic(n, Meaning(exact) - Meaning(n)))
       \/ Becomes(BvMul(bv, operand), FixedMul(native, operand), Arithmetic(n, exact.value * n.value))
CompareStep ==
  \E n \in Numbers :
    LET operand == Stored(n)
        w == Most(exact.width, n.width)
    IN \/ Becomes(Flag(BvEq(bv, operand)), Flag(FixedEq(native, operand)), Truth(Bits(exact, w) = Bits(n, w)))
       \/ Becomes(Flag(BvUnsignedLt(bv, operand)), Flag(FixedUnsignedLt(native, operand)), Truth(exact.value < n.value))
       \/ Becomes(Flag(BvSignedLt(bv, operand)), Flag(FixedSignedLt(native, operand)),
                  Truth(Meaning(Signed(exact)) < Meaning(Signed(n))))
ConcatStep ==
  \E n \in Numbers :
    LET operand == Stored(n)
    IN /\ exact.width + n.width <= MaxWidth
       /\ Becomes(Concat(<<bv, operand>>), FixedConcat(<<native, operand>>),
                  Number(exact.width + n.width, FALSE, exact.value * 2 ^ n.width + n.value))
\* a constant of this width read from text; its integer value is the digits' sum
ParseStep ==
  \E digits \in Texts :
    LET At(radix) == LET sum[i \in 0 .. Len(digits)] == IF i = 0 THEN 0 ELSE sum[i - 1] * radix + digits[i] IN sum[Len(digits)]
        Reads(v, n) == Becomes(v, BitByBit(v), Number(exact.width, exact.signed, n))
    IN \/ \E negative \in BOOLEAN :
            Reads(FromDecimal(digits, negative, exact.width, exact.signed), IF negative THEN -At(10) ELSE At(10))
       \/ Reads(FromHex(digits, exact.width, exact.signed), At(16))
\* the value crosses the ABI as a buffer of n words
ExchangeStep ==
  \E n \in WordCount(exact.width) .. WordCount(MaxWidth) :
    Becomes(BitByBit(native), FromWords(CopyToWords(native, n), exact.width, exact.signed), exact)
GatherBitsStep ==
  \E indices \in [1 .. 3 -> 0 .. exact.width - 1] :
    Becomes(Concat([k \in 1 .. 3 |-> BvSlice(bv, indices[4 - k], indices[4 - k])]), FixedGatherBits(native, indices),
            Number(3, FALSE, SumFunction([j \in 1 .. 3 |-> ((exact.value \div 2 ^ indices[j]) % 2) * 2 ^ (j - 1)])))

Next == \/ ResizeStep \/ SliceStep \/ GatherStep \/ ShiftStep \/ UnaryStep \/ ReductionStep
        \/ BitwiseStep \/ ArithmeticStep \/ CompareStep \/ ConcatStep
        \/ ParseStep \/ ExchangeStep \/ GatherBitsStep
Spec == Init /\ [][Next]_vars

-----------------------------------------------------------------------------
\* The interpreter computes the integer result modulo 2^width, for values of
\* one word, of whole words and of several words alike (word_ops.h carries,
\* borrows and straddling shifts).
InterpreterIsExact == bv = Stored(exact)

\* Generated code computes what the interpreter computes, whichever operands
\* take the one-word fast paths (fixed_value.h) and whichever the loops.
NativeMatchesInterpreter == native = bv
=============================================================================
