------------------------------ MODULE WordOps ------------------------------
(***************************************************************************)
(* The word buffer algorithms of src/src/util/word_ops.h.  A value of      *)
(* `width' bits is a buffer of WordCount(width) machine words, word 0 the  *)
(* least significant; a word has WordBits bits (64 in the code) and its    *)
(* arithmetic wraps.  The buffers carry their word count as their domain.  *)
(***************************************************************************)
EXTENDS Integers, FiniteSets, Functions, Bitwise
LOCAL INSTANCE FiniteSetsExt

CONSTANT WordBits                 \* bits of a machine word

ASSUME WordBitsAssumption == WordBits \in Nat \ {0}

Base == 2 ^ WordBits
AllOnes == Base - 1
Least(a, b) == IF a <= b THEN a ELSE b
Most(a, b) == IF a <= b THEN b ELSE a
Size(ws) == Cardinality(DOMAIN ws)
ShiftedUp(word, n) == (word * 2 ^ n) % Base
ShiftedDown(word, n) == word \div 2 ^ n
Complement(word) == AllOnes - word

WordCount(width) == IF width <= 0 THEN 0 ELSE (width + WordBits - 1) \div WordBits
LowMask(bits) == IF bits <= 0 THEN 0 ELSE IF bits >= WordBits THEN AllOnes ELSE 2 ^ bits - 1
TopWordMask(width) ==
  IF width <= 0 THEN 0 ELSE IF width % WordBits = 0 THEN AllOnes ELSE LowMask(width % WordBits)
MaskTopWord(ws, width) ==
  [i \in DOMAIN ws |-> IF i = Size(ws) - 1 THEN ws[i] & TopWordMask(width) ELSE ws[i]]
Clear(n) == [i \in 0 .. n - 1 |-> 0]
FillOnes(n, width) == MaskTopWord([i \in 0 .. n - 1 |-> AllOnes], width)

GetBit(ws, width, bit) ==
  bit \in 0 .. width - 1 /\ ShiftedDown(ws[bit \div WordBits], bit % WordBits) % 2 = 1
SetBit(ws, width, bit, on) ==
  LET mask == 2 ^ (bit % WordBits)
  IN IF bit \notin 0 .. width - 1 THEN ws
     ELSE [ws EXCEPT ![bit \div WordBits] = IF on THEN @ | mask ELSE @ & Complement(mask)]

\* Mutant of ExtractBits: forgets the bits of the second word.
ExtractBitsOfOneWord(src, srcWidth, start, count) ==
  IF count <= 0 \/ start < 0 \/ start >= srcWidth THEN 0
  ELSE ShiftedDown(src[start \div WordBits], start % WordBits) & LowMask(Least(count, srcWidth - start))

\* up to one word of consecutive bits that may straddle two words of the source
ExtractBits(src, srcWidth, start, count) ==
  LET zeros == IF start < 0 THEN Least(count, -start) ELSE 0
      from == Most(start, 0)
      wanted == count - zeros
      word == from \div WordBits
      offset == from % WordBits
      low == ShiftedDown(src[word], offset)
      high == IF offset # 0 /\ word + 1 < Size(src) THEN ShiftedUp(src[word + 1], WordBits - offset)
              ELSE 0
  IN IF wanted <= 0 \/ Size(src) = 0 \/ from >= srcWidth THEN 0
     ELSE ShiftedUp((low | high) & LowMask(Least(wanted, srcWidth - from)), zeros)

\* one run of the copy loop per destination word that [from, to) meets
CopyBits(dst, dstWidth, dstStart, src, srcWidth, srcStart, count) ==
  LET from == Most(dstStart, 0)
      to == Least(dstStart + count, dstWidth)
      Run(i, word) ==
        LET first == Most(from, i * WordBits)
            run == Least(to, (i + 1) * WordBits) - first
            mask == ShiftedUp(LowMask(run), first % WordBits)
            bits == ExtractBits(src, srcWidth, srcStart + first - dstStart, run)
        IN IF run <= 0 THEN word
           ELSE (word & Complement(mask)) | (ShiftedUp(bits, first % WordBits) & mask)
  IN [i \in DOMAIN dst |-> Run(i, dst[i])]

SetRangeOnes(dst, width, from, to) ==
  LET Ones(i) == LET first == Most(Most(from, 0), i * WordBits)
                     run == Least(Least(to, width), (i + 1) * WordBits) - first
                 IN IF run <= 0 THEN 0 ELSE ShiftedUp(LowMask(run), first % WordBits)
  IN MaskTopWord([i \in DOMAIN dst |-> dst[i] | Ones(i)], width)

Resize(dstWidth, src, srcWidth, signExtend) ==
  LET low == CopyBits(Clear(WordCount(dstWidth)), dstWidth, 0, src, srcWidth, 0, Least(dstWidth, srcWidth))
  IN IF signExtend /\ dstWidth > srcWidth /\ GetBit(src, srcWidth, srcWidth - 1)
     THEN SetRangeOnes(low, dstWidth, srcWidth, dstWidth)
     ELSE MaskTopWord(low, dstWidth)
Slice(dstWidth, src, srcWidth, low) ==
  MaskTopWord(CopyBits(Clear(WordCount(dstWidth)), dstWidth, 0, src, srcWidth, low, dstWidth), dstWidth)

BitwiseNot(ws, width) == MaskTopWord([i \in DOMAIN ws |-> Complement(ws[i])], width)
BitwiseAnd(a, b, width) == MaskTopWord([i \in DOMAIN a |-> a[i] & b[i]], width)
BitwiseOr(a, b, width) == MaskTopWord([i \in DOMAIN a |-> a[i] | b[i]], width)
BitwiseXor(a, b, width) == MaskTopWord([i \in DOMAIN a |-> a[i] ^^ b[i]], width)
BitwiseXnor(a, b, width) == BitwiseNot(BitwiseXor(a, b, width), width)

\* each of the chains is the loop's carry after i words, found from wrapped sums only
Add(a, b, width) ==
  LET Sum(i, carry) == (a[i] + carry) % Base
      carry[i \in 0 .. Size(a)] ==
        IF i = 0 THEN 0
        ELSE LET c == carry[i - 1]
                 sum == Sum(i - 1, c)
             IN (IF sum < a[i - 1] THEN 1 ELSE 0) + (IF (sum + b[i - 1]) % Base < sum THEN 1 ELSE 0)
  IN MaskTopWord([i \in DOMAIN a |-> (Sum(i, carry[i]) + b[i]) % Base], width)
Sub(a, b, width) ==
  LET Subtrahend(i, borrow) == (b[i] + borrow) % Base
      borrow[i \in 0 .. Size(a)] ==
        IF i = 0 THEN 0
        ELSE LET s == Subtrahend(i - 1, borrow[i - 1])
             IN IF s < b[i - 1] \/ a[i - 1] < s THEN 1 ELSE 0
  IN MaskTopWord([i \in DOMAIN a |-> (a[i] - Subtrahend(i, borrow[i])) % Base], width)
Negate(ws, width) ==
  LET carry[i \in 0 .. Size(ws)] ==
        IF i = 0 THEN 1
        ELSE IF (Complement(ws[i - 1]) + carry[i - 1]) % Base < Complement(ws[i - 1]) THEN 1 ELSE 0
  IN MaskTopWord([i \in DOMAIN ws |-> (Complement(ws[i]) + carry[i]) % Base], width)

\* schoolbook multiplication; row i adds a[i] * b at word i with a double-word carry
MulRow(dst, factor, b, i) ==
  LET product[j \in 0 .. Size(dst) - 1 - i] ==
        factor * b[j] + dst[i + j] + (IF j = 0 THEN 0 ELSE product[j - 1] \div Base)
  IN [k \in DOMAIN dst |-> IF k < i THEN dst[k] ELSE product[k - i] % Base]
Mul(a, b, width) ==
  LET rows[i \in 0 .. Size(a)] ==
        IF i = 0 THEN Clear(Size(a)) ELSE MulRow(rows[i - 1], a[i - 1], b, i - 1)
  IN MaskTopWord(rows[Size(a)], width)
MulAddSmall(ws, width, mul, add) ==
  LET product[i \in DOMAIN ws] == ws[i] * mul + (IF i = 0 THEN add ELSE product[i - 1] \div Base)
  IN MaskTopWord([i \in DOMAIN ws |-> product[i] % Base], width)

ShiftLeft(ws, width, amount) ==
  LET word == amount \div WordBits
      bit == amount % WordBits
      Shifted(i) == ShiftedUp(ws[i - word], bit)
                    | (IF bit # 0 /\ i > word THEN ShiftedDown(ws[i - word - 1], WordBits - bit) ELSE 0)
  IN IF amount >= width THEN Clear(Size(ws))
     ELSE MaskTopWord([i \in DOMAIN ws |-> IF i < word THEN 0 ELSE Shifted(i)], width)
ShiftRight(ws, width, amount, arithmetic, signed) ==
  LET sign == arithmetic /\ signed /\ GetBit(ws, width, width - 1)
      word == amount \div WordBits
      bit == amount % WordBits
      Shifted(i) == ShiftedDown(ws[i + word], bit)
                    | (IF bit # 0 /\ i + word + 1 < Size(ws)
                       THEN ShiftedUp(ws[i + word + 1], WordBits - bit) ELSE 0)
      moved == [i \in DOMAIN ws |-> IF i + word >= Size(ws) THEN 0 ELSE Shifted(i)]
  IN IF amount >= width THEN (IF sign THEN FillOnes(Size(ws), width) ELSE Clear(Size(ws)))
     ELSE IF sign THEN SetRangeOnes(moved, width, width - amount, width)
     ELSE MaskTopWord(moved, width)

WordsEq(a, b, width) == MaskTopWord(a, width) = MaskTopWord(b, width)
UnsignedLt(a, b, width) ==
  LET x == MaskTopWord(a, width)
      y == MaskTopWord(b, width)
      differing == {i \in DOMAIN x : x[i] # y[i]}
  IN differing # {} /\ LET top == Max(differing) IN x[top] < y[top]
SignedLt(a, b, width) ==
  LET Negative(ws) == GetBit(ws, width, width - 1)
  IN IF Negative(a) # Negative(b) THEN Negative(a) ELSE UnsignedLt(a, b, width)

IsZero(ws, width) == \A i \in DOMAIN ws : MaskTopWord(ws, width)[i] = 0
ReductionAnd(ws, width) == Size(ws) > 0 /\ MaskTopWord(ws, width) = FillOnes(Size(ws), width)
PopCount(word) == Cardinality({n \in 0 .. WordBits - 1 : ShiftedDown(word, n) % 2 = 1})
ReductionXor(ws, width) == SumFunction([i \in DOMAIN ws |-> PopCount(MaskTopWord(ws, width)[i])]) % 2 = 1
=============================================================================
