--------------------------- MODULE BitVectorValue ---------------------------
(***************************************************************************)
(* BitVectorValue, the run-time sized value of the interpreter, and        *)
(* FixedValue, the compile-time sized value of generated code: the same    *)
(* record [width, signed, words], two implementations of every operation.  *)
(* The operators of FixedValue are named Fixed...; where the value fits    *)
(* one word they take the fast paths of fixed_value.h and else the shared  *)
(* word buffer algorithms.  Both keep the bits above the width zero.       *)
(***************************************************************************)
EXTENDS WordOps, Sequences
LOCAL INSTANCE SequencesExt

Value(width, signed, ws) == [width |-> width, signed |-> signed, words |-> ws]
Wider(a, b) == Most(a.width, b.width)
BothSigned(a, b) == a.signed /\ b.signed
Bit(v, i) == GetBit(v.words, v.width, i)
Zero(width, signed) == Value(width, signed, Clear(WordCount(width)))
FromU64(raw, width, signed) ==
  Value(width, signed, MaskTopWord([i \in 0 .. WordCount(width) - 1 |-> IF i = 0 THEN raw ELSE 0], width))
LowU64(v) == IF v.width = 0 THEN 0 ELSE v.words[0]
Resized(v, width, signed) ==
  Value(width, signed, IF width = v.width THEN v.words ELSE Resize(width, v.words, v.width, signed))
BvSlice(v, high, low) ==
  IF high < low THEN Zero(0, FALSE) ELSE Value(high - low + 1, FALSE, Slice(high - low + 1, v.words, v.width, low))
Concat(parts) ==
  LET width == FoldLeft(LAMBDA n, p : n + p.width, 0, parts)
      below[i \in 0 .. Len(parts)] == IF i = 0 THEN width ELSE below[i - 1] - parts[i].width
      placed[i \in 0 .. Len(parts)] ==
        IF i = 0 THEN Clear(WordCount(width))
        ELSE CopyBits(placed[i - 1], width, below[i], parts[i].words, parts[i].width, 0, parts[i].width)
  IN Value(width, FALSE, MaskTopWord(placed[Len(parts)], width))
Shl(v, amount) == [v EXCEPT !.words = ShiftLeft(@, v.width, amount)]
Shr(v, amount, arithmetic) == [v EXCEPT !.words = ShiftRight(@, v.width, amount, arithmetic, v.signed)]
Negated(v) == [v EXCEPT !.words = Negate(@, v.width)]
Inverted(v) == [v EXCEPT !.words = BitwiseNot(@, v.width)]

\* both operands brought to the wider width, each by its own signedness
Widened(v, width) == Resized(v, width, v.signed)
Binary(Op(_, _, _), a, b) ==
  LET width == Wider(a, b)
  IN Value(width, BothSigned(a, b), Op(Widened(a, width).words, Widened(b, width).words, width))
BvAnd(a, b) == Binary(BitwiseAnd, a, b)
BvOr(a, b) == Binary(BitwiseOr, a, b)
BvXor(a, b) == Binary(BitwiseXor, a, b)
BvXnor(a, b) == Binary(BitwiseXnor, a, b)
BvAdd(a, b) == Binary(Add, a, b)
BvSub(a, b) == Binary(Sub, a, b)
BvMul(a, b) ==
  LET width == Wider(a, b)
  IN Value(width, BothSigned(a, b), Mul(Resized(a, width, FALSE).words, Resized(b, width, FALSE).words, width))
Compare(Op(_, _, _), a, b, aSigned, bSigned) ==
  LET width == Wider(a, b) IN Op(Resized(a, width, aSigned).words, Resized(b, width, bSigned).words, width)
BvEq(a, b) == Compare(WordsEq, a, b, a.signed, b.signed)
BvUnsignedLt(a, b) == Compare(UnsignedLt, a, b, FALSE, FALSE)
BvSignedLt(a, b) == Compare(SignedLt, a, b, TRUE, TRUE)
BvAllOnes(v) == ReductionAnd(v.words, v.width)
BvAnyOne(v) == ~IsZero(v.words, v.width)
BvOddOnes(v) == ReductionXor(v.words, v.width)
\* text to value: the digits of a constant are appended one by one, then its sign applied
AppendDigit(v, radix, digit) == [v EXCEPT !.words = MulAddSmall(@, v.width, radix, digit)]
FromDecimal(digits, negative, width, signed) ==
  LET read == FoldLeft(LAMBDA v, d : AppendDigit(v, 10, d), Zero(width, signed), digits)
  IN IF negative THEN Negated(read) ELSE read
FromHex(digits, width, signed) == FoldLeft(LAMBDA v, d : AppendDigit(v, 16, d), Zero(width, signed), digits)

-----------------------------------------------------------------------------
(* FixedValue.  `Single' is the `if constexpr (kWords == 1)' of the code. *)
Single(width) == WordCount(width) = 1
KTopWordMask(width) == LowMask(width - WordBits * (WordCount(width) - 1))
OneWord(width, signed, word) == Value(width, signed, [i \in 0 .. 0 |-> word & KTopWordMask(width)])
\* (w ^ sign_bit) - sign_bit on a wrapping machine word
Extended(v) ==
  LET signBit == 2 ^ (v.width - 1) IN ((v.words[0] ^^ signBit) - signBit) % Base
\* the machine word read as a two's complement integer
AsInt64(word) == IF word >= Base \div 2 THEN word - Base ELSE word

\* the ABI's word buffers, which may be longer than the value
FromWords(ws, width, signed) ==
  Value(width, signed, MaskTopWord([i \in 0 .. WordCount(width) - 1 |-> IF i < Size(ws) THEN ws[i] ELSE 0], width))
CopyToWords(v, n) == [i \in 0 .. n - 1 |-> IF i < Size(v.words) THEN v.words[i] ELSE 0]
\* conversion between the two value types, bit by bit
BitByBit(v) ==
  LET set[i \in 0 .. v.width] ==
        IF i = 0 THEN Clear(WordCount(v.width)) ELSE SetBit(set[i - 1], v.width, i - 1, Bit(v, i - 1))
  IN Value(v.width, v.signed, set[v.width])

\* Mutant of FixedResized: extends by the sign of the source.
FixedResizedBySource(v, width, signed) ==
  IF width = v.width THEN [v EXCEPT !.signed = signed]
  ELSE IF Single(v.width) /\ Single(width)
       THEN OneWord(width, signed, IF v.signed /\ width > v.width THEN Extended(v) ELSE v.words[0])
       ELSE Resized(v, width, signed)

FixedResized(v, width, signed) ==
  IF width = v.width THEN [v EXCEPT !.signed = signed]
  ELSE IF Single(v.width) /\ Single(width)
       THEN OneWord(width, signed, IF signed /\ width > v.width THEN Extended(v) ELSE v.words[0])
       ELSE Resized(v, width, signed)
FixedSlice(v, high, low) ==
  LET width == high - low + 1
      lowWord == low \div WordBits
      highWord == high \div WordBits
      shift == low % WordBits
      whole == IF lowWord = highWord THEN ShiftedDown(v.words[lowWord], shift)
               ELSE ShiftedDown(v.words[lowWord], shift) | ShiftedUp(v.words[highWord], WordBits - shift)
  IN IF Single(width) /\ high < WordBits * Size(v.words) THEN OneWord(width, FALSE, whole)
     ELSE BvSlice(v, high, low)
\* bit j of lane i is bit offset + stride * i + j of v
FixedGatherBits(v, indices) ==
  Value(Len(indices), FALSE,
        [i \in 0 .. WordCount(Len(indices)) - 1 |->
           SumFunction([j \in {k \in 0 .. Len(indices) - 1 : k \div WordBits = i} |->
             (ShiftedDown(v.words[indices[j + 1] \div WordBits], indices[j + 1] % WordBits) % 2) * 2 ^ (j % WordBits)])])
FixedGatherAffine(v, offset, stride, laneWidth, lanes) ==
  LET width == laneWidth * lanes
      out[i \in 0 .. lanes] ==
        IF i = 0 THEN IF Single(v.width) /\ Single(width) THEN 0 ELSE Clear(WordCount(width))
        ELSE IF Single(v.width) /\ Single(width)
        THEN out[i - 1] | ShiftedUp(ShiftedDown(v.words[0], offset + stride * (i - 1)) & LowMask(laneWidth),
                                    laneWidth * (i - 1))
        ELSE CopyBits(out[i - 1], width, laneWidth * (i - 1), v.words, v.width, offset + stride * (i - 1), laneWidth)
  IN IF Single(v.width) /\ Single(width) THEN OneWord(width, FALSE, out[lanes]) ELSE Value(width, FALSE, out[lanes])
FixedShl(v, amount) ==
  IF ~Single(v.width) THEN Shl(v, amount)
  ELSE OneWord(v.width, v.signed, IF amount >= WordBits THEN 0 ELSE ShiftedUp(v.words[0], amount))
FixedShr(v, amount, arithmetic) ==
  IF ~Single(v.width) THEN Shr(v, amount, arithmetic)
  ELSE IF arithmetic /\ v.signed
  THEN OneWord(v.width, TRUE, (AsInt64(Extended(v)) \div 2 ^ Least(amount, WordBits - 1)) % Base)
  ELSE OneWord(v.width, v.signed, IF amount >= WordBits THEN 0 ELSE ShiftedDown(v.words[0], amount))
FixedNegated(v) == IF Single(v.width) THEN OneWord(v.width, v.signed, (-v.words[0]) % Base) ELSE Negated(v)
FixedInverted(v) == IF Single(v.width) THEN OneWord(v.width, v.signed, Complement(v.words[0])) ELSE Inverted(v)
FixedBinary(Fast(_, _), Op(_, _, _), a, b, aSigned, bSigned) ==
  LET width == Wider(a, b)
      x == FixedResized(a, width, aSigned).words
      y == FixedResized(b, width, bSigned).words
  IN IF Single(width) THEN OneWord(width, BothSigned(a, b), Fast(x[0], y[0]))
     ELSE Value(width, BothSigned(a, b), Op(x, y, width))
FixedAnd(a, b) == FixedBinary(LAMBDA x, y : x & y, BitwiseAnd, a, b, a.signed, b.signed)
FixedOr(a, b) == FixedBinary(LAMBDA x, y : x | y, BitwiseOr, a, b, a.signed, b.signed)
FixedXor(a, b) == FixedBinary(LAMBDA x, y : x ^^ y, BitwiseXor, a, b, a.signed, b.signed)
FixedXnor(a, b) == FixedBinary(LAMBDA x, y : Complement(x ^^ y), BitwiseXnor, a, b, a.signed, b.signed)
FixedAdd(a, b) == FixedBinary(LAMBDA x, y : (x + y) % Base, Add, a, b, a.signed, b.signed)
FixedSub(a, b) == FixedBinary(LAMBDA x, y : (x - y) % Base, Sub, a, b, a.signed, b.signed)
FixedMul(a, b) == FixedBinary(LAMBDA x, y : (x * y) % Base, Mul, a, b, FALSE, FALSE)
FixedCompare(Fast(_, _, _), Op(_, _, _), a, b, aSigned, bSigned) ==
  LET width == Wider(a, b)
      x == FixedResized(a, width, aSigned)
      y == FixedResized(b, width, bSigned)
  IN IF Single(width) THEN Fast(x, y, width) ELSE Op(x.words, y.words, width)
FixedEq(a, b) ==
  FixedCompare(LAMBDA x, y, n : x.words[0] = y.words[0], WordsEq, a, b, a.signed, b.signed)
FixedUnsignedLt(a, b) == FixedCompare(LAMBDA x, y, n : x.words[0] < y.words[0], UnsignedLt, a, b, FALSE, FALSE)
FixedSignedLt(a, b) ==
  FixedCompare(LAMBDA x, y, n : AsInt64(Extended(x)) < AsInt64(Extended(y)), SignedLt, a, b, TRUE, TRUE)
FixedAllOnes(v) == IF Single(v.width) THEN v.words[0] = KTopWordMask(v.width) ELSE BvAllOnes(v)
FixedAnyOne(v) == IF Single(v.width) THEN v.words[0] # 0 ELSE BvAnyOne(v)
FixedOddOnes(v) == IF Single(v.width) THEN PopCount(v.words[0]) % 2 = 1 ELSE BvOddOnes(v)
FixedConcat(parts) ==
  LET width == FoldLeft(LAMBDA n, p : n + p.width, 0, parts)
      below[i \in 0 .. Len(parts)] == IF i = 0 THEN width ELSE below[i - 1] - parts[i].width
      word[i \in 0 .. Len(parts)] ==
        IF i = 0 THEN 0 ELSE word[i - 1] | ShiftedUp(parts[i].words[0], below[i])
  IN IF Single(width) THEN OneWord(width, FALSE, word[Len(parts)]) ELSE Concat(parts)
=============================================================================
