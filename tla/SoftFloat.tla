----------------------------- MODULE SoftFloat -----------------------------
(***************************************************************************)
(* The double-precision addition, subtraction and comparisons of          *)
(* src/lib/rtl/base/softfp.c, with the globals they read and write:       *)
(* RtlRoundingMode, RtlTininessDetection and the sticky exception flags   *)
(* RtlSoftFloatExceptionFlags.                                            *)
(*                                                                         *)
(* A double is its bit pattern, a natural below 2^Width.  The format is   *)
(* scaled: ExpBits, FracBits and GuardBits are 11, 52 and 10 for the      *)
(* double the code handles, and every constant of the code is written in  *)
(* terms of them (0x7FF is NanExponent, 0x200 is 2^(GuardBits-1), bit 61  *)
(* is 2^(FracBits+GuardBits-1), bit 63 of the ULONGLONG significand is    *)
(* 2^(Word-1)), so a small format runs the same control with the same     *)
(* carries, jams and ties.  The routines return the exception flags they  *)
(* raise as a set of names; the global holds their SOFT_FLOAT_ bits.      *)
(***************************************************************************)
EXTENDS Integers, Bitwise, FiniteSetsExt

CONSTANTS
    ExpBits,      \* DOUBLE_EXPONENT bits (11)
    FracBits,     \* DOUBLE_EXPONENT_SHIFT, the fraction bits (52)
    GuardBits     \* bits below the fraction while rounding (10)

Width == 1 + ExpBits + FracBits             \* a double (64)
Word == FracBits + GuardBits + 2            \* a ULONGLONG significand (64)
Top == 2^(Word - 1)                         \* its bit 63: (LONGLONG)x < 0
NanExponent == 2^ExpBits - 1                \* DOUBLE_NAN_EXPONENT
QuietBit == 2^(FracBits - 1)                \* 1 << (DOUBLE_EXPONENT_SHIFT - 1)
Doubles == 0 .. 2^Width - 1

RoundingModes == {"NearestEven", "Down", "Up", "ToZero"}
TininessModes == {"AfterRounding", "BeforeRounding"}
\* SOFT_FLOAT_INEXACT ... SOFT_FLOAT_INVALID.
FlagBit == [inexact |-> 1, underflow |-> 2, overflow |-> 4, divide |-> 8, invalid |-> 16]

\* DOUBLE_GET_SIGN, DOUBLE_GET_EXPONENT, DOUBLE_GET_SIGNIFICAND.
SignOf(b) == b \div 2^(ExpBits + FracBits)
ExponentOf(b) == (b \div 2^FracBits) % 2^ExpBits
SignificandOf(b) == b % 2^FracBits

\* DOUBLE_PACK adds the fields, so a carry out of the significand moves
\* into the exponent.
Pack(s, e, f) == (s * 2^(ExpBits + FracBits) + e * 2^FracBits + f) % 2^Width

DefaultNan == Pack(1, NanExponent, QuietBit)          \* DOUBLE_DEFAULT_NAN

\* DOUBLE_IS_NAN: (Ulonglong << 1) > 0xFFE0000000000000.
IsNanBits(b) == (2 * b) % 2^Width > NanExponent * 2^(FracBits + 1)

\* DOUBLE_IS_SIGNALING_NAN: the 12 bits above bit 50 are 0xFFE and the
\* bits below are not all zero.
IsSignalingNanBits(b) ==
    /\ (b \div QuietBit) % 2^(ExpBits + 1) = 2^(ExpBits + 1) - 2
    /\ b % QuietBit # 0

\* The exponent and significand test of the comparisons.
IsNanOperand(b) == ExponentOf(b) = NanExponent /\ SignificandOf(b) # 0

\* Variant of BothZero that keeps the sign bit.
BothZeroSigned(a, b) == a = 0 /\ b = 0

\* (Parts1.Ulonglong | Parts2.Ulonglong) << 1 == 0: both are zeros.
BothZero(a, b) == a % 2^(Width - 1) = 0 /\ b % 2^(Width - 1) = 0

-----------------------------------------------------------------------------
(***************************************************************************)
(* Helpers.                                                                *)
(***************************************************************************)
\* RtlpShift64RightJamming: a shift right that ORs any bit shifted out
\* into bit 0.
Jam(v, lost) == IF lost /\ v % 2 = 0 THEN v + 1 ELSE v

\* Variant of ShiftRightJamming that drops the bits shifted out.
ShiftRightDropping(v, c) == IF c < Word THEN v \div 2^c ELSE 0

ShiftRightJamming(v, c) ==
    IF c = 0 THEN v
    ELSE IF c < Word THEN Jam(v \div 2^c, v % 2^c # 0)
    ELSE IF v # 0 THEN 1 ELSE 0

\* RtlpCountLeadingZeros64 (by way of RtlpCountLeadingZeros32): shift
\* left until the top bit is set, at most Word times.
RECURSIVE LeadingZeros(_, _)
LeadingZeros(v, n) ==
    IF n < Word /\ v < Top THEN LeadingZeros((2 * v) % 2^Word, n + 1) ELSE n

CountLeadingZeros(v) == LeadingZeros(v, 0)

\* RtlpDoublePropagateNan: quiet both, raise invalid for a signaling
\* one, and pick the NaN to return.
PropagateNan(a, b) ==
    LET aNan == IsNanBits(a)
        aSig == IsSignalingNanBits(a)
        bNan == IsNanBits(b)
        bSig == IsSignalingNanBits(b)
        qa == IF (a \div QuietBit) % 2 = 1 THEN a ELSE a + QuietBit
        qb == IF (b \div QuietBit) % 2 = 1 THEN b ELSE b + QuietBit
        larger == IF (2 * qa) % 2^Width < (2 * qb) % 2^Width THEN qb
                  ELSE IF (2 * qb) % 2^Width < (2 * qa) % 2^Width THEN qa
                  ELSE IF qa < qb THEN qa ELSE qb
        pick == IF aSig THEN (IF bSig THEN larger ELSE IF bNan THEN qb ELSE qa)
                ELSE IF aNan THEN (IF bSig \/ ~bNan THEN qa ELSE larger)
                ELSE qb
    IN [bits |-> pick, raised |-> IF aSig \/ bSig THEN {"invalid"} ELSE {}]

-----------------------------------------------------------------------------
(***************************************************************************)
(* Rounding.                                                               *)
(***************************************************************************)
\* The round increment of RtlpRoundAndPackDouble: half a unit for
\* nearest-even, none toward zero, all but one unit away from zero when
\* the mode rounds away from zero for this sign.
RoundIncrement(s, mode) ==
    CASE mode = "NearestEven" -> 2^(GuardBits - 1)
      [] mode = "ToZero"      -> 0
      [] mode = "Up"          -> IF s = 1 THEN 0 ELSE 2^GuardBits - 1
      [] mode = "Down"        -> IF s = 1 THEN 2^GuardBits - 1 ELSE 0

\* RtlpRoundAndPackDouble(s, e, sig): sig has its binary point GuardBits
\* above the fraction's, e is one less than the true exponent.  An
\* exponent at or above NanExponent - 2 (0x7FD) that carries out of the
\* word overflows to infinity, or to the largest finite value when the
\* increment is 0; a negative exponent is denormalised by a jamming shift,
\* and underflow is raised if the value was tiny (before rounding, by
\* RtlTininessDetection) and inexact.  Ties to even clear bit 0.
RoundAndPackDouble(s, e, sig, mode, tininess) ==
    LET inc == RoundIncrement(s, mode)
        overflow == e > NanExponent - 2 \/ (e = NanExponent - 2 /\ sig + inc >= Top)
        tiny == tininess = "BeforeRounding" \/ e < -1 \/ sig + inc < Top
        dsig == IF e < 0 THEN ShiftRightJamming(sig, -e) ELSE sig
        dexp == IF e < 0 THEN 0 ELSE e
        roundBits == dsig % 2^GuardBits
        rounded == (dsig + inc) \div 2^GuardBits
        z == IF roundBits = 2^(GuardBits - 1) /\ mode = "NearestEven"
             THEN rounded - (rounded % 2) ELSE rounded
    IN IF overflow
       THEN [bits |-> Pack(s, NanExponent, 0) - (IF inc = 0 THEN 1 ELSE 0),
             raised |-> {"overflow", "inexact"}]
       ELSE [bits |-> Pack(s, IF z = 0 THEN 0 ELSE dexp, z),
             raised |-> (IF e < 0 /\ tiny /\ roundBits # 0 THEN {"underflow"} ELSE {})
                        \cup (IF roundBits # 0 THEN {"inexact"} ELSE {})]

\* Significand << ShiftCount.  A negative count is undefined in C: x86
\* masks it to the low six bits (to Word - 1), the ARM sequence gives 0.
ShiftLeftOutcomes(v, c) ==
    IF c >= 0 THEN {(v * 2^c) % 2^Word}
    ELSE {(v * 2^(c % Word)) % 2^Word, 0}

\* RtlpNormalizeRoundAndPackDouble: shift the leading one up to the bit
\* below bit 63 first; the results the builds can give.  A significand
\* with bit 63 set makes the count -1.
NormalizeRoundAndPackDouble(s, e, sig, mode, tininess) ==
    LET shift == CountLeadingZeros(sig) - 1 IN
    {RoundAndPackDouble(s, e - shift, v, mode, tininess) : v \in ShiftLeftOutcomes(sig, shift)}

Exact(b) == [bits |-> b, raised |-> {}]

-----------------------------------------------------------------------------
(***************************************************************************)
(* Addition and subtraction of magnitudes.                                 *)
(***************************************************************************)
\* RtlpDoubleAdd(a, b, s): significands shifted up GuardBits - 1 (9), the
\* implicit one at bit 61, the smaller operand aligned by a jamming shift
\* (one less for a subnormal, whose exponent 0 means 1); NaN and infinity
\* first; two subnormals add exactly and may carry into the exponent.
DoubleAdd(a, b, s, mode, tininess) ==
    LET e1 == ExponentOf(a)
        e2 == ExponentOf(b)
        d == e1 - e2
        s1 == SignificandOf(a) * 2^(GuardBits - 1)
        s2 == SignificandOf(b) * 2^(GuardBits - 1)
        one == 2^(FracBits + GuardBits - 1)
        \* DoubleAddEnd after alignment: normalise the sum by one bit.
        Sum(x, y, e) ==
            LET r == 2 * (x + one + y) IN
            IF r >= Top THEN RoundAndPackDouble(s, e, x + one + y, mode, tininess)
            ELSE RoundAndPackDouble(s, e - 1, r, mode, tininess)
    IN CASE d > 0 ->
              IF e1 = NanExponent
              THEN IF s1 # 0 THEN PropagateNan(a, b) ELSE Exact(a)
              ELSE Sum(s1, ShiftRightJamming(IF e2 = 0 THEN s2 ELSE s2 + one,
                                             IF e2 = 0 THEN d - 1 ELSE d), e1)
         [] d < 0 ->
              IF e2 = NanExponent
              THEN IF s2 # 0 THEN PropagateNan(a, b) ELSE Exact(Pack(s, NanExponent, 0))
              ELSE Sum(s2, ShiftRightJamming(IF e1 = 0 THEN s1 ELSE s1 + one,
                                             IF e1 = 0 THEN -d - 1 ELSE -d), e2)
         [] OTHER ->
              IF e1 = NanExponent
              THEN IF s1 + s2 # 0 THEN PropagateNan(a, b) ELSE Exact(a)
              ELSE IF e1 = 0 THEN Exact(Pack(s, 0, (s1 + s2) \div 2^(GuardBits - 1)))
              ELSE RoundAndPackDouble(s, e1, 2 * one + s1 + s2, mode, tininess)

\* RtlpDoubleSubtract(a, b, s): significands shifted up GuardBits (10),
\* the implicit one at bit 62; the smaller magnitude is subtracted from
\* the larger, flipping the sign when b's is larger; equal magnitudes give
\* a zero that is negative only when rounding down; infinity minus
\* infinity is the default NaN and invalid.
DoubleSubtract(a, b, s, mode, tininess) ==
    LET e1 == ExponentOf(a)
        e2 == ExponentOf(b)
        d == e1 - e2
        s1 == SignificandOf(a) * 2^GuardBits
        s2 == SignificandOf(b) * 2^GuardBits
        one == 2^(FracBits + GuardBits)
        \* DoubleSubtractEnd.
        \* r is below bit 62, so there is one outcome.
        Difference(sign, e, r) ==
            CHOOSE x \in NormalizeRoundAndPackDouble(sign, e - 1, r, mode, tininess) : TRUE
        ez == IF e1 = 0 THEN 1 ELSE e1
    IN CASE d > 0 ->
              IF e1 = NanExponent
              THEN IF s1 # 0 THEN PropagateNan(a, b) ELSE Exact(a)
              ELSE Difference(s, e1, s1 + one - ShiftRightJamming(
                                         IF e2 = 0 THEN s2 ELSE s2 + one,
                                         IF e2 = 0 THEN d - 1 ELSE d))
         [] d < 0 ->
              IF e2 = NanExponent
              THEN IF s2 # 0 THEN PropagateNan(a, b) ELSE Exact(Pack(1 - s, NanExponent, 0))
              ELSE Difference(1 - s, e2, s2 + one - ShiftRightJamming(
                                         IF e1 = 0 THEN s1 ELSE s1 + one,
                                         IF e1 = 0 THEN -d - 1 ELSE -d))
         [] OTHER ->
              IF e1 = NanExponent
              THEN IF s1 + s2 # 0 THEN PropagateNan(a, b)
                   ELSE [bits |-> DefaultNan, raised |-> {"invalid"}]
              ELSE IF s2 < s1 THEN Difference(s, ez, s1 - s2)
              ELSE IF s1 < s2 THEN Difference(1 - s, ez, s2 - s1)
              ELSE Exact(Pack(IF mode = "Down" THEN 1 ELSE 0, 0, 0))

\* RtlDoubleAdd and RtlDoubleSubtract: by the signs, add or subtract the
\* magnitudes under the first operand's sign.
RtlDoubleAdd(a, b, mode, tininess) ==
    IF SignOf(a) = SignOf(b) THEN DoubleAdd(a, b, SignOf(a), mode, tininess)
    ELSE DoubleSubtract(a, b, SignOf(a), mode, tininess)

RtlDoubleSubtract(a, b, mode, tininess) ==
    IF SignOf(a) = SignOf(b) THEN DoubleSubtract(a, b, SignOf(a), mode, tininess)
    ELSE DoubleAdd(a, b, SignOf(a), mode, tininess)

-----------------------------------------------------------------------------
(***************************************************************************)
(* Multiplication.                                                         *)
(***************************************************************************)
\* Variant of Multiply64To128 that loses the carry out of the middle sum.
Multiply64To128NoCarry(x, y) ==
    LET h == 2^(Word \div 2)
        productLow == (x % h) * (y % h)
        middleA == ((x % h) * (y \div h) + (x \div h) * (y % h)) % 2^Word
        shifted == (middleA * h) % 2^Word
        low == (productLow + shifted) % 2^Word
    IN [high |-> ((x \div h) * (y \div h) + middleA \div h
                  + (IF low < shifted THEN 1 ELSE 0)) % 2^Word,
        low |-> low]

\* RtlpMultiply64To128: the double-word product from four half-word
\* products, with the carries out of the middle sum and the low word.
Multiply64To128(x, y) ==
    LET h == 2^(Word \div 2)
        productLow == (x % h) * (y % h)
        middleB == (x \div h) * (y % h)
        middleA == ((x % h) * (y \div h) + middleB) % 2^Word
        high == (x \div h) * (y \div h)
                + (IF middleA < middleB THEN h ELSE 0) + middleA \div h
        shifted == (middleA * h) % 2^Word
        low == (productLow + shifted) % 2^Word
    IN [high |-> (high + (IF low < shifted THEN 1 ELSE 0)) % 2^Word, low |-> low]

\* RtlpNormalizeDoubleSubnormal: move the leading one of a subnormal's
\* significand up to the implicit bit; the exponent becomes 1 - shift.
NormalizeDoubleSubnormal(f) ==
    LET shift == CountLeadingZeros(f) - (Word - FracBits - 1) IN
    [exp |-> 1 - shift, sig |-> f * 2^shift]

\* RtlDoubleMultiply: NaN, infinity and zero first (infinity times zero is
\* invalid), subnormals normalised, the significands shifted up GuardBits
\* and GuardBits + 1 with the implicit bit, the high word of the product
\* jammed with the low one and normalised by one bit before rounding.
RtlDoubleMultiply(a, b, mode, tininess) ==
    LET e1 == ExponentOf(a)
        e2 == ExponentOf(b)
        f1 == SignificandOf(a)
        f2 == SignificandOf(b)
        s == (SignOf(a) + SignOf(b)) % 2
        n1 == IF e1 = 0 THEN NormalizeDoubleSubnormal(f1) ELSE [exp |-> e1, sig |-> f1]
        n2 == IF e2 = 0 THEN NormalizeDoubleSubnormal(f2) ELSE [exp |-> e2, sig |-> f2]
        \* Significand | 0x0010000000000000: a normalised subnormal has
        \* the implicit bit already.
        Implicit(f) == IF (f \div 2^FracBits) % 2 = 1 THEN f ELSE f + 2^FracBits
        p == Multiply64To128(Implicit(n1.sig) * 2^GuardBits,
                             Implicit(n2.sig) * 2^(GuardBits + 1))
        z == Jam(p.high, p.low # 0)
        e == n1.exp + n2.exp - (2^(ExpBits - 1) - 1)
        Infinite(zeroOperand) ==
            IF zeroOperand THEN [bits |-> DefaultNan, raised |-> {"invalid"}]
            ELSE Exact(Pack(s, NanExponent, 0))
    IN IF e1 = NanExponent
       THEN IF f1 # 0 \/ (e2 = NanExponent /\ f2 # 0) THEN PropagateNan(a, b)
            ELSE Infinite(e2 = 0 /\ f2 = 0)
       ELSE IF e2 = NanExponent
       THEN IF f2 # 0 THEN PropagateNan(a, b) ELSE Infinite(e1 = 0 /\ f1 = 0)
       ELSE IF (e1 = 0 /\ f1 = 0) \/ (e2 = 0 /\ f2 = 0) THEN Exact(Pack(s, 0, 0))
       ELSE IF (2 * z) % 2^Word < Top
            THEN RoundAndPackDouble(s, e - 1, (2 * z) % 2^Word, mode, tininess)
            ELSE RoundAndPackDouble(s, e, z, mode, tininess)

-----------------------------------------------------------------------------
(***************************************************************************)
(* Division.                                                               *)
(***************************************************************************)
\* RtlpAdd128 and RtlpSubtract128: double-word sum and difference, the
\* carry or borrow of the low word moved into the high one.
Add128(h1, l1, h2, l2) ==
    LET low == (l1 + l2) % 2^Word IN
    [high |-> (h1 + h2 + (IF low < l1 THEN 1 ELSE 0)) % 2^Word, low |-> low]

Subtract128(h1, l1, h2, l2) ==
    [high |-> (h1 - h2 - (IF l1 < l2 THEN 1 ELSE 0)) % 2^Word,
     low |-> (l1 - l2) % 2^Word]

\* The correction loop of RtlpEstimateDivide128To64: while the remainder
\* is negative, lower the estimate by one half-word unit and add the
\* divisor shifted up a half word back.
RECURSIVE EstimateCorrection(_, _, _, _, _)
EstimateCorrection(q, rh, rl, dh, dl) ==
    IF rh >= Top
    THEN LET r == Add128(rh, rl, dh, dl) IN
         EstimateCorrection((q - 2^(Word \div 2)) % 2^Word, r.high, r.low, dh, dl)
    ELSE [q |-> q, high |-> rh, low |-> rl]

\* RtlpEstimateDivide128To64(high, low, d): the quotient estimated a half
\* word at a time from the divisor's high half; all ones when it does not
\* fit a word.
EstimateDivide128To64(high, low, d) ==
    LET h == 2^(Word \div 2)
        dh == d \div h
        q0 == IF dh * h <= high THEN (h - 1) * h ELSE (high \div dh) * h
        t == Multiply64To128(d, q0)
        r == Subtract128(high, low, t.high, t.low)
        c == EstimateCorrection(q0, r.high, r.low, dh, (d * h) % 2^Word)
        rest == ((c.high * h) % 2^Word) + c.low \div h
    IN IF d <= high THEN 2^Word - 1
       ELSE c.q + (IF dh * h <= rest THEN h - 1 ELSE rest \div dh)

\* Variant of the quotient exponent with the bias less one (0x3FE).
QuotientExponentOffByOne(e1, e2) == e1 - e2 + 2^(ExpBits - 1) - 2

\* The quotient's exponent before the halving: the difference of the
\* operands' exponents plus the bias less two (0x3FD), one for the
\* dividend shifted a bit less than the divisor and one for the implicit
\* bit that packing adds into the exponent field.
QuotientExponent(e1, e2) == e1 - e2 + 2^(ExpBits - 1) - 3

\* The loop of RtlDoubleDivide that lowers the estimate until the
\* remainder is not negative.
RECURSIVE QuotientCorrection(_, _, _, _)
QuotientCorrection(q, rh, rl, d) ==
    IF rh >= Top
    THEN LET r == Add128(rh, rl, 0, d) IN QuotientCorrection(q - 1, r.high, r.low, d)
    ELSE [q |-> q, high |-> rh, low |-> rl]

\* RtlDoubleDivide: NaN, infinity and zero first (infinity over infinity
\* and zero over zero are invalid, a finite value over zero raises
\* divide-by-zero), subnormals normalised, the dividend halved when the
\* divisor's significand does not exceed twice its own, the quotient
\* estimated and, when its low GuardBits - 1 bits are at most 2, made
\* exact by the remainder and jammed with it.
RtlDoubleDivide(a, b, mode, tininess) ==
    LET e1 == ExponentOf(a)
        e2 == ExponentOf(b)
        f1 == SignificandOf(a)
        f2 == SignificandOf(b)
        s == (SignOf(a) + SignOf(b)) % 2
        n1 == IF e1 = 0 THEN NormalizeDoubleSubnormal(f1) ELSE [exp |-> e1, sig |-> f1]
        n2 == IF e2 = 0 THEN NormalizeDoubleSubnormal(f2) ELSE [exp |-> e2, sig |-> f2]
        Implicit(f) == IF (f \div 2^FracBits) % 2 = 1 THEN f ELSE f + 2^FracBits
        x0 == Implicit(n1.sig) * 2^GuardBits
        y == Implicit(n2.sig) * 2^(GuardBits + 1)
        halve == y <= x0 + x0
        x == IF halve THEN x0 \div 2 ELSE x0
        e == QuotientExponent(n1.exp, n2.exp) + (IF halve THEN 1 ELSE 0)
        q0 == EstimateDivide128To64(x, 0, y)
        t == Multiply64To128(y, q0)
        r == Subtract128(x, 0, t.high, t.low)
        c == QuotientCorrection(q0, r.high, r.low, y)
        q == IF q0 % 2^(GuardBits - 1) <= 2 THEN Jam(c.q, c.low # 0) ELSE q0
        Invalid == [bits |-> DefaultNan, raised |-> {"invalid"}]
    IN IF e1 = NanExponent
       THEN IF f1 # 0 THEN PropagateNan(a, b)
            ELSE IF e2 = NanExponent
                 THEN IF f2 # 0 THEN PropagateNan(a, b) ELSE Invalid
            ELSE Exact(Pack(s, NanExponent, 0))
       ELSE IF e2 = NanExponent
       THEN IF f2 # 0 THEN PropagateNan(a, b) ELSE Exact(Pack(s, 0, 0))
       ELSE IF e2 = 0 /\ f2 = 0
       THEN IF e1 = 0 /\ f1 = 0 THEN Invalid
            ELSE [bits |-> Pack(s, NanExponent, 0), raised |-> {"divide"}]
       ELSE IF e1 = 0 /\ f1 = 0 THEN Exact(Pack(s, 0, 0))
       ELSE RoundAndPackDouble(s, e, q, mode, tininess)

\* RtlDoubleModulo lowers each estimate by 2 (to 0 if it is not above 2),
\* so that it is never above the true quotient.
ModuloEstimate(q) == IF q > 2 THEN q - 2 ELSE 0

\* Variant of ModuloReduce that counts Word - 1 quotient bits per pass
\* where only Word - 2 were taken.
RECURSIVE ModuloReduceLongStep(_, _, _, _)
ModuloReduceLongStep(x, q, d, y) ==
    IF d > 0
    THEN LET q1 == ModuloEstimate(EstimateDivide128To64(x, 0, y)) IN
         ModuloReduceLongStep((-((y \div 4) * q1)) % 2^Word, q1, d - (Word - 1), y)
    ELSE [x |-> x, q |-> q, d |-> d]

\* The while loop of RtlDoubleModulo: while more than a word of quotient
\* bits is left (d > 0, d counted from Word), estimate the next Word - 2
\* of them and keep the negated multiple of the divisor, in a ULONGLONG.
RECURSIVE ModuloReduce(_, _, _, _)
ModuloReduce(x, q, d, y) ==
    IF d > 0
    THEN LET q1 == ModuloEstimate(EstimateDivide128To64(x, 0, y)) IN
         ModuloReduce((-((y \div 4) * q1)) % 2^Word, q1, d - (Word - 2), y)
    ELSE [x |-> x, q |-> q, d |-> d]

\* The do-while of RtlDoubleModulo: subtract the divisor, counting, until
\* the remainder is negative as a LONGLONG; the one before is kept.
RECURSIVE ModuloSubtract(_, _, _)
ModuloSubtract(x, q, y) ==
    LET next == (x - y) % 2^Word IN
    IF next < Top THEN ModuloSubtract(next, (q + 1) % 2^Word, y)
    ELSE [x |-> next, alternate |-> x, q |-> (q + 1) % 2^Word]

\* The step after the loop and the do-while: the last quotient bits, if
\* any, are estimated and subtracted, then the divisor subtracted until
\* the remainder is negative.
ModuloLastBits(r, y0) ==
    LET d == r.d + Word
        y == y0 \div 4
        qd == ModuloEstimate(EstimateDivide128To64(r.x, 0, y0)) \div 2^(Word - d)
    IN IF d > 0
       THEN ModuloSubtract(((((r.x \div 2) * 2^(d - 1)) % 2^Word) - y * qd) % 2^Word, qd, y)
       ELSE ModuloSubtract(r.x \div 4, r.q, y)

\* The first quotient bit, the loop and the last bits, on the significands
\* shifted up to bit 63 (the dividend halved when its exponent is lower).
ModuloSignificands(x1, y0, diff) ==
    LET q0 == IF y0 <= x1 THEN 1 ELSE 0
    IN ModuloLastBits(ModuloReduce(IF q0 # 0 THEN x1 - y0 ELSE x1, q0, diff - Word, y0), y0)

\* Of the last two remainders the one nearer zero is kept (the even
\* quotient on a tie), negated if negative and packed with the divisor's
\* exponent; it is at most half the divisor, so the shift is defined and
\* there is one outcome.
ModuloPack(sign, e, t, mode, tininess) ==
    LET mean == (t.x + t.alternate) % 2^Word
        z == IF mean >= Top \/ (mean = 0 /\ t.q % 2 = 1) THEN t.alternate ELSE t.x
    IN CHOOSE v \in NormalizeRoundAndPackDouble(IF z >= Top THEN 1 - sign ELSE sign, e,
                                                IF z >= Top THEN 2^Word - z ELSE z,
                                                mode, tininess) : TRUE

\* RtlDoubleModulo: the IEEE remainder.  NaN and infinity operands first
\* (an infinite dividend or a zero divisor is invalid, an infinite divisor
\* or a zero dividend returns the dividend), subnormals normalised, the
\* significands shifted up to bit 63; a dividend below half the divisor
\* is returned; otherwise the quotient is taken Word - 2 bits at a time.
RtlDoubleModulo(a, b, mode, tininess) ==
    LET e1 == ExponentOf(a)
        e2 == ExponentOf(b)
        f1 == SignificandOf(a)
        f2 == SignificandOf(b)
        n1 == IF e1 = 0 THEN NormalizeDoubleSubnormal(f1) ELSE [exp |-> e1, sig |-> f1]
        n2 == IF e2 = 0 THEN NormalizeDoubleSubnormal(f2) ELSE [exp |-> e2, sig |-> f2]
        diff == n1.exp - n2.exp
        x0 == ((n1.sig | 2^FracBits) * 2^(Word - FracBits - 1)) % 2^Word
        y0 == ((n2.sig | 2^FracBits) * 2^(Word - FracBits - 1)) % 2^Word
    IN IF e1 = NanExponent
       THEN IF f1 # 0 \/ (e2 = NanExponent /\ f2 # 0) THEN PropagateNan(a, b)
            ELSE [bits |-> DefaultNan, raised |-> {"invalid"}]
       ELSE IF e2 = NanExponent THEN (IF f2 # 0 THEN PropagateNan(a, b) ELSE Exact(a))
       ELSE IF e2 = 0 /\ f2 = 0 THEN [bits |-> DefaultNan, raised |-> {"invalid"}]
       ELSE IF e1 = 0 /\ f1 = 0 THEN Exact(a)
       ELSE IF diff < -1 THEN Exact(a)
       ELSE ModuloPack(SignOf(a), n2.exp,
                       ModuloSignificands(IF diff < 0 THEN x0 \div 2 ELSE x0, y0, diff),
                       mode, tininess)

-----------------------------------------------------------------------------
(***************************************************************************)
(* Comparisons.  Each returns its truth value and the flags it raises.     *)
(***************************************************************************)
Answer(v, raised) == [value |-> v, raised |-> raised]

\* With a NaN operand: FALSE, and invalid for the signaling comparisons,
\* or for the quiet ones only when a NaN is signaling.
Unordered(a, b, signaling) ==
    Answer(FALSE, IF signaling \/ IsSignalingNanBits(a) \/ IsSignalingNanBits(b)
                  THEN {"invalid"} ELSE {})

\* RtlDoubleIsEqual (quiet) and RtlDoubleSignalingIsEqual: equal bits, or
\* two zeros.
IsEqual(a, b, signaling) ==
    IF IsNanOperand(a) \/ IsNanOperand(b) THEN Unordered(a, b, signaling)
    ELSE Answer(a = b \/ BothZero(a, b), {})

\* RtlDoubleIsLessThanOrEqual and its Quiet variant: with different signs
\* the negative one is smaller unless both are zeros; with equal signs the
\* bit patterns order the magnitudes, reversed for negatives.
IsLessThanOrEqual(a, b, signaling) ==
    IF IsNanOperand(a) \/ IsNanOperand(b) THEN Unordered(a, b, signaling)
    ELSE IF SignOf(a) # SignOf(b) THEN Answer(SignOf(a) = 1 \/ BothZero(a, b), {})
    ELSE Answer(a = b \/ ((SignOf(a) = 1) # (a < b)), {})

\* RtlDoubleIsLessThan and its Quiet variant.
IsLessThan(a, b, signaling) ==
    IF IsNanOperand(a) \/ IsNanOperand(b) THEN Unordered(a, b, signaling)
    ELSE IF SignOf(a) # SignOf(b) THEN Answer(SignOf(a) = 1 /\ ~BothZero(a, b), {})
    ELSE Answer(a # b /\ ((SignOf(a) = 1) # (a < b)), {})

\* RtlDoubleIsNan tests the exponent alone.
RtlDoubleIsNan(a) == ExponentOf(a) = NanExponent

-----------------------------------------------------------------------------
(***************************************************************************)
(* Reference: IEEE 754 arithmetic on the values the patterns denote,       *)
(* computed exactly on integers and rounded by choosing among the          *)
(* representable magnitudes.                                               *)
(***************************************************************************)
NaN(b) == ExponentOf(b) = NanExponent /\ SignificandOf(b) # 0
Infinity(b) == ExponentOf(b) = NanExponent /\ SignificandOf(b) = 0
Signaling(b) == NaN(b) /\ SignificandOf(b) < QuietBit
Quieted(b) == IF SignificandOf(b) >= QuietBit THEN b ELSE b + QuietBit
IsZero(b) == ExponentOf(b) = 0 /\ SignificandOf(b) = 0

\* A magnitude in units of the smallest subnormal; the pattern of infinity
\* gives the first magnitude past the largest finite one.
Magnitude(b) ==
    IF ExponentOf(b) = 0 THEN SignificandOf(b)
    ELSE (2^FracBits + SignificandOf(b)) * 2^(ExponentOf(b) - 1)
Value(b) == IF SignOf(b) = 1 THEN -Magnitude(b) ELSE Magnitude(b)
Negated(b) == (b + 2^(Width - 1)) % 2^Width

PosInfinity == Pack(0, NanExponent, 0)
MaxFinite == PosInfinity - 1
MinNormal == 2^FracBits
Grid == 0 .. PosInfinity

\* The direction the mode rounds a magnitude of sign s.
Direction(mode, s) ==
    CASE mode = "NearestEven" -> "nearest"
      [] mode = "ToZero"      -> "zero"
      [] mode = "Up"          -> IF s = 0 THEN "away" ELSE "zero"
      [] mode = "Down"        -> IF s = 1 THEN "away" ELSE "zero"

\* The magnitude m / scale rounded with an unbounded exponent; PosInfinity
\* stands for every result past the largest finite magnitude.
RoundMagnitude(m, scale, dir) ==
    IF m >= Magnitude(PosInfinity) * scale THEN PosInfinity
    ELSE LET lo == CHOOSE g \in Grid : Magnitude(g) * scale <= m
                                        /\ Magnitude(g + 1) * scale > m
             hi == IF Magnitude(lo) * scale = m THEN lo ELSE lo + 1
         IN CASE dir = "zero" -> lo
              [] dir = "away" -> hi
              [] OTHER -> IF m - Magnitude(lo) * scale < Magnitude(hi) * scale - m THEN lo
                          ELSE IF m - Magnitude(lo) * scale > Magnitude(hi) * scale - m THEN hi
                          ELSE IF lo % 2 = 0 THEN lo ELSE hi

\* With an unbounded exponent, m / scale (below MinNormal) rounds up to
\* MinNormal: the last point below it is half a unit lower.
ReachesMinNormal(m, scale, dir) ==
    CASE dir = "zero" -> FALSE
      [] dir = "away" -> 2 * m > 2 * MinNormal * scale - scale
      [] OTHER -> 4 * m >= 4 * MinNormal * scale - scale

\* The correctly rounded nonzero result of sign s and magnitude m / scale,
\* with its flags: overflow, inexact, and underflow when tiny (before or
\* after rounding, by the tininess rule) and inexact.
Rounded(s, m, scale, mode, tininess) ==
    LET dir == Direction(mode, s)
        r == RoundMagnitude(m, scale, dir)
        overflow == r = PosInfinity
        inexact == overflow \/ Magnitude(r) * scale # m
        tiny == /\ m < MinNormal * scale
                /\ tininess = "BeforeRounding" \/ ~ReachesMinNormal(m, scale, dir)
    IN [allowed |-> {s * 2^(Width - 1) + (IF overflow /\ dir = "zero" THEN MaxFinite ELSE r)},
        raised |-> (IF overflow THEN {"overflow"} ELSE {})
                   \cup (IF inexact THEN {"inexact"} ELSE {})
                   \cup (IF inexact /\ tiny THEN {"underflow"} ELSE {})]

\* A NaN operand gives one of the NaN operands, quieted; invalid if one
\* is signaling.
NanResult(a, b) ==
    [allowed |-> {Quieted(x) : x \in {y \in {a, b} : NaN(y)}},
     raised |-> IF Signaling(a) \/ Signaling(b) THEN {"invalid"} ELSE {}]

InvalidResult == [allowed |-> {b \in Doubles : NaN(b) /\ ~Signaling(b)}, raised |-> {"invalid"}]
ExactResult(b) == [allowed |-> {b}, raised |-> {}]

\* a + b: an exact zero sum is negative when both operands are, or when
\* rounding down a sum of opposite signs.
RefSum(a, b, mode, tininess) ==
    LET n == Value(a) + Value(b) IN
    IF NaN(a) \/ NaN(b) THEN NanResult(a, b)
    ELSE IF Infinity(a) /\ Infinity(b) THEN
         IF SignOf(a) = SignOf(b) THEN ExactResult(a) ELSE InvalidResult
    ELSE IF Infinity(a) THEN ExactResult(a)
    ELSE IF Infinity(b) THEN ExactResult(b)
    ELSE IF n = 0 THEN
         ExactResult(Pack(IF SignOf(a) = SignOf(b) THEN SignOf(a)
                          ELSE IF mode = "Down" THEN 1 ELSE 0, 0, 0))
    ELSE Rounded(IF n < 0 THEN 1 ELSE 0, IF n < 0 THEN -n ELSE n, 1, mode, tininess)

RefDifference(a, b, mode, tininess) ==
    IF NaN(a) \/ NaN(b) THEN NanResult(a, b) ELSE RefSum(a, Negated(b), mode, tininess)

\* a * b, with the product of the magnitudes in units of the smallest
\* subnormal squared.
RefProduct(a, b, mode, tininess) ==
    LET s == (SignOf(a) + SignOf(b)) % 2 IN
    IF NaN(a) \/ NaN(b) THEN NanResult(a, b)
    ELSE IF (Infinity(a) /\ IsZero(b)) \/ (IsZero(a) /\ Infinity(b)) THEN InvalidResult
    ELSE IF Infinity(a) \/ Infinity(b) THEN ExactResult(Pack(s, NanExponent, 0))
    ELSE IF IsZero(a) \/ IsZero(b) THEN ExactResult(Pack(s, 0, 0))
    ELSE Rounded(s, Magnitude(a) * Magnitude(b), 2^(2^(ExpBits - 1) + FracBits - 2),
                 mode, tininess)

\* a / b, with the quotient of the magnitudes as a fraction of them.
RefQuotient(a, b, mode, tininess) ==
    LET s == (SignOf(a) + SignOf(b)) % 2 IN
    IF NaN(a) \/ NaN(b) THEN NanResult(a, b)
    ELSE IF (Infinity(a) /\ Infinity(b)) \/ (IsZero(a) /\ IsZero(b)) THEN InvalidResult
    ELSE IF Infinity(a) THEN ExactResult(Pack(s, NanExponent, 0))
    ELSE IF Infinity(b) \/ IsZero(a) THEN ExactResult(Pack(s, 0, 0))
    ELSE IF IsZero(b) THEN [allowed |-> {Pack(s, NanExponent, 0)}, raised |-> {"divide"}]
    ELSE Rounded(s, Magnitude(a) * 2^(2^(ExpBits - 1) + FracBits - 2), Magnitude(b),
                 mode, tininess)

\* The IEEE remainder a - n * b, n the integer nearest a / b (the even one
\* on a tie): always exact, with a's sign when zero; invalid for an
\* infinite a or a zero b; a itself for an infinite b or a zero a.
RefRemainder(a, b, mode, tininess) ==
    IF NaN(a) \/ NaN(b) THEN NanResult(a, b)
    ELSE IF Infinity(a) \/ IsZero(b) THEN InvalidResult
    ELSE IF Infinity(b) \/ IsZero(a) THEN ExactResult(a)
    ELSE LET ma == Magnitude(a)
             mb == Magnitude(b)
             n0 == ma \div mb
             n == IF 2 * (ma - n0 * mb) > mb \/ (2 * (ma - n0 * mb) = mb /\ n0 % 2 = 1)
                  THEN n0 + 1 ELSE n0
             r == ma - n * mb
         IN IF r = 0 THEN ExactResult(Pack(SignOf(a), 0, 0))
            ELSE Rounded(IF r < 0 THEN 1 - SignOf(a) ELSE SignOf(a),
                         IF r < 0 THEN -r ELSE r, 1, mode, tininess)

Meets(r, ref) == r.bits \in ref.allowed /\ r.raised = ref.raised

\* The order of the values, infinities outside every finite value.
Extended(b) ==
    IF Infinity(b) THEN (IF SignOf(b) = 1 THEN -1 ELSE 1) * Magnitude(PosInfinity)
    ELSE Value(b)

\* A comparison's answer and flags: FALSE when unordered, and invalid for
\* a NaN when the comparison signals, for a signaling NaN otherwise.
RefCompare(a, b, signaling, rel(_, _)) ==
    IF NaN(a) \/ NaN(b)
    THEN [value |-> FALSE,
          raised |-> IF signaling \/ Signaling(a) \/ Signaling(b) THEN {"invalid"} ELSE {}]
    ELSE [value |-> rel(Extended(a), Extended(b)), raised |-> {}]

-----------------------------------------------------------------------------
(***************************************************************************)
(* The globals.  RtlRoundingMode and RtlTininessDetection are exported and *)
(* assigned by the library's callers; the exception flags only accumulate. *)
(***************************************************************************)
VARIABLES
    mode,       \* RtlRoundingMode
    tininess,   \* RtlTininessDetection
    flags       \* RtlSoftFloatExceptionFlags

vars == <<mode, tininess, flags>>

\* The initialisers at softfp.c:343-353.
Init ==
    /\ mode = "NearestEven"
    /\ tininess = "AfterRounding"
    /\ flags = 0

\* A caller stores a rounding mode or a tininess rule.
SetRoundingMode(m) ==
    /\ mode' = m
    /\ UNCHANGED <<tininess, flags>>

SetTininess(t) ==
    /\ tininess' = t
    /\ UNCHANGED <<mode, flags>>

FlagBits(r) == MapThenSumSet(LAMBDA x : FlagBit[x], r)

\* Variant of Raise that adds the flags instead of ORing them.
RaiseAdds(r) ==
    /\ flags' = flags + FlagBits(r)
    /\ UNCHANGED <<mode, tininess>>

\* RtlpSoftFloatRaise: each call of a routine ORs the flags it raises into
\* the global.
Raise(r) ==
    /\ flags' = flags | FlagBits(r)
    /\ UNCHANGED <<mode, tininess>>

Add(a, b) == Raise(RtlDoubleAdd(a, b, mode, tininess).raised)
Subtract(a, b) == Raise(RtlDoubleSubtract(a, b, mode, tininess).raised)
Multiply(a, b) == Raise(RtlDoubleMultiply(a, b, mode, tininess).raised)
Divide(a, b) == Raise(RtlDoubleDivide(a, b, mode, tininess).raised)
Modulo(a, b) == Raise(RtlDoubleModulo(a, b, mode, tininess).raised)
Compare(a, b) ==
    \E signaling \in BOOLEAN :
        \/ Raise(IsEqual(a, b, signaling).raised)
        \/ Raise(IsLessThanOrEqual(a, b, signaling).raised)
        \/ Raise(IsLessThan(a, b, signaling).raised)

CONSTANT Operands   \* the arguments the calls are made with

Next ==
    \/ \E m \in RoundingModes : SetRoundingMode(m)
    \/ \E t \in TininessModes : SetTininess(t)
    \/ \E a, b \in Operands :
         \/ Add(a, b)
         \/ Subtract(a, b)
         \/ Multiply(a, b)
         \/ Divide(a, b)
         \/ Modulo(a, b)
         \/ Compare(a, b)

Spec == Init /\ [][Next]_vars

-----------------------------------------------------------------------------
(***************************************************************************)
(* Properties.  The routines are checked on every pair of patterns, under  *)
(* the rounding mode and tininess rule stored in the globals; the callers  *)
(* can store each of them, so every one is checked.                        *)
(***************************************************************************)
TypeOK ==
    /\ mode \in RoundingModes
    /\ tininess \in TininessModes
    /\ flags \in 0 .. 31

\* RtlDoubleAdd and RtlDoubleSubtract return the correctly rounded sum and
\* difference with exactly the IEEE flags: the alignment shift jams the
\* bits it drops, the one-bit normalisation of a carry, the cancellation
\* renormalised by the leading-zero count, ties to even, overflow to
\* infinity or the largest finite value by mode, the sign of a zero, and
\* NaN and infinity operands.
SumsRound ==
    \A a, b \in Doubles :
        /\ Meets(RtlDoubleAdd(a, b, mode, tininess), RefSum(a, b, mode, tininess))
        /\ Meets(RtlDoubleSubtract(a, b, mode, tininess), RefDifference(a, b, mode, tininess))

\* Words whose half-words are each 0, 1, just below or at the middle, or
\* all ones: products of them carry between the half-word products, and
\* divisors with a small high half and a large low half send the
\* estimate through its correction loop.
HalfDigits == {0, 1, 2^(Word \div 2 - 1) - 1, 2^(Word \div 2 - 1), 2^(Word \div 2) - 1}
EdgeWords == {hi * 2^(Word \div 2) + lo : hi, lo \in HalfDigits}

\* RtlDoubleMultiply returns the correctly rounded product with exactly
\* the IEEE flags: subnormal operands normalised, the double-word product
\* of RtlpMultiply64To128 jammed into one word, results below the normal
\* range denormalised with underflow by the tininess rule.  The scaled
\* significands leave the low half of one factor zero, so
\* RtlpMultiply64To128 is also checked to return the whole double-word
\* product on the edge words, where its half-word carries happen.
ProductsRound ==
    /\ \A a, b \in Doubles :
          Meets(RtlDoubleMultiply(a, b, mode, tininess), RefProduct(a, b, mode, tininess))
    /\ \A x, y \in EdgeWords :
          LET p == Multiply64To128(x, y) IN p.high * 2^Word + p.low = x * y

\* RtlDoubleDivide returns the correctly rounded quotient with exactly the
\* IEEE flags: the estimate of RtlpEstimateDivide128To64 corrected by the
\* remainder whenever its low bits could decide the rounding, the halving
\* of the dividend, and divide-by-zero.  The scaled significands never
\* send the estimate through its correction loop, so the estimate is
\* also checked, on the edge words the division could pass it (low word
\* 0, high word below a divisor of at least 2^63), to lie between the
\* truncated quotient q and q + 2, as its header promises.
QuotientsRound ==
    /\ \A a, b \in Doubles :
          Meets(RtlDoubleDivide(a, b, mode, tininess), RefQuotient(a, b, mode, tininess))
    /\ \A d, high \in EdgeWords :
          d >= Top /\ high < d =>
             LET q == (high * 2^Word) \div d IN
             EstimateDivide128To64(high, 0, d) \in q .. q + 2

\* RtlDoubleModulo returns the exact IEEE remainder with no flag but
\* invalid: the quotient estimates lowered so they are never too high,
\* the negated partial remainders of its reduction loop, the final
\* subtractions and the choice of the nearer of the last two remainders,
\* the even quotient on a tie.
RemaindersExact ==
    \A a, b \in Doubles :
        Meets(RtlDoubleModulo(a, b, mode, tininess), RefRemainder(a, b, mode, tininess))

LessOrEqual(x, y) == x <= y
Less(x, y) == x < y
Equal(x, y) == x = y

\* The six comparisons order the values, with the two zeros equal and a
\* NaN unordered; the signaling ones (RtlDoubleIsLessThan,
\* RtlDoubleIsLessThanOrEqual, RtlDoubleSignalingIsEqual) raise invalid on
\* any NaN, the quiet ones (RtlDoubleIsEqual, the ...Quiet variants) only
\* on a signaling NaN.  What the caller sees is the answer and the
\* exception word the call leaves in RtlSoftFloatExceptionFlags.
ComparisonsOrder ==
    LET Agrees(r, ref) ==
            /\ r.value = ref.value
            /\ (flags | FlagBits(r.raised)) = (flags | FlagBits(ref.raised))
    IN \A a, b \in Doubles, signaling \in BOOLEAN :
          /\ Agrees(IsEqual(a, b, signaling), RefCompare(a, b, signaling, Equal))
          /\ Agrees(IsLessThanOrEqual(a, b, signaling), RefCompare(a, b, signaling, LessOrEqual))
          /\ Agrees(IsLessThan(a, b, signaling), RefCompare(a, b, signaling, Less))

\* RtlDoubleIsNan answers TRUE exactly for NaNs.
IsNanExact == \A a \in Doubles : RtlDoubleIsNan(a) = NaN(a)

====
