-------------------------- MODULE SoftFloatConvert --------------------------
(***************************************************************************)
(* The conversions between doubles and 32- and 64-bit integers of         *)
(* softfp.c, on the scaled format of SoftFloat.  The 64-bit integer is the *)
(* ULONGLONG word (Word bits); the 32-bit integer has Int32Bits bits and   *)
(* is rounded from a fixed point with IntRoundBits bits below it (7 in the *)
(* code).  The code needs FracBits >= IntRoundBits + Int32Bits (52 >= 7 +  *)
(* 32): a double whose exponent puts its point above that is not shifted   *)
(* at all, and is only caught as out of range because it is that large.   *)
(***************************************************************************)
EXTENDS SoftFloat

CONSTANTS
    Int32Bits,      \* bits of a LONG (32)
    IntRoundBits    \* bits below the point in RtlpRoundAndPack32 (7)

Bias == 2^(ExpBits - 1) - 1                 \* DOUBLE_EXPONENT_BIAS

\* A value stored into a signed integer of n bits, wrapping as the code
\* assumes (signed overflow is undefined in C; both targets wrap).
Signed(v, n) == LET u == v % 2^n IN IF u >= 2^(n - 1) THEN u - 2^n ELSE u

MinInt(n) == -2^(n - 1)                     \* MIN_LONG, MIN_LONGLONG
MaxInt(n) == 2^(n - 1) - 1                  \* MAX_LONG, MAX_LONGLONG

Int32Values == MinInt(Int32Bits) .. MaxInt(Int32Bits)
Uint32Values == 0 .. 2^Int32Bits - 1
Int64Values == MinInt(Word) .. MaxInt(Word)
Uint64Values == 0 .. 2^Word - 1

\* An integer result and the flags raised.
IntAnswer(v, raised) == [value |-> v, raised |-> raised]

\* An out-of-range result: invalid, and the bound on the side of the sign.
Saturated(s, n) == IntAnswer(IF s = 1 THEN MinInt(n) ELSE MaxInt(n), {"invalid"})

\* RtlpCountLeadingZeros32.
RECURSIVE BitLength(_)
BitLength(v) == IF v = 0 THEN 0 ELSE 1 + BitLength(v \div 2)
CountLeadingZeros32(v) == Int32Bits - BitLength(v)

-----------------------------------------------------------------------------
(***************************************************************************)
(* Integer to double.                                                      *)
(***************************************************************************)
\* RtlDoubleConvertFromInteger32 and ...FromUnsignedInteger32: every value
\* fits the significand, so the leading one is shifted to the implicit bit
\* (21 = FracBits + 1 - Int32Bits places plus the leading zeros) and packed
\* with exponent 0x432 less the shift, the implicit bit carrying into it.
PackInteger32(s, abs) ==
    LET shift == CountLeadingZeros32(abs) + (FracBits + 1 - Int32Bits) IN
    Exact(Pack(s, Bias + FracBits - 1 - shift, abs * 2^shift))

RtlDoubleConvertFromInteger32(i) ==
    IF i = 0 THEN Exact(0)
    ELSE PackInteger32(IF i < 0 THEN 1 ELSE 0, (IF i < 0 THEN -i ELSE i) % 2^Int32Bits)

RtlDoubleConvertFromUnsignedInteger32(u) ==
    IF u = 0 THEN Exact(0) ELSE PackInteger32(0, u)

\* Variant of RtlDoubleConvertFromInteger64 without the MIN_LONGLONG case.
ConvertFromInteger64NoMinimum(i, rmode, tmode) ==
    IF i = 0 THEN {Exact(0)}
    ELSE NormalizeRoundAndPackDouble(IF i < 0 THEN 1 ELSE 0, Bias + Word - 3,
                                     (IF i < 0 THEN -i ELSE i) % 2^Word, rmode, tmode)

\* RtlDoubleConvertFromInteger64 and ...FromUnsignedInteger64: the value
\* as a significand with its point between bits 62 and 61 (exponent
\* 0x43C), normalised, rounded and packed; MIN_LONGLONG, whose negation
\* overflows, is packed directly.  The results the builds can give.
RtlDoubleConvertFromInteger64(i, rmode, tmode) ==
    IF i = 0 THEN {Exact(0)}
    ELSE IF i = MinInt(Word) THEN {Exact(Pack(1, Bias + Word - 1, 0))}
    ELSE NormalizeRoundAndPackDouble(IF i < 0 THEN 1 ELSE 0, Bias + Word - 3,
                                     IF i < 0 THEN -i ELSE i, rmode, tmode)

RtlDoubleConvertFromUnsignedInteger64(u, rmode, tmode) ==
    IF u = 0 THEN {Exact(0)}
    ELSE NormalizeRoundAndPackDouble(0, Bias + Word - 3, u, rmode, tmode)

-----------------------------------------------------------------------------
(***************************************************************************)
(* Double to integer.                                                      *)
(***************************************************************************)
\* Variant of RtlpRoundAndPack32 whose nearest-even increment is the word
\* width, as the code writes it (sizeof(ULONGLONG) * BITS_PER_BYTE),
\* rather than the half unit that width happens to equal.
RoundAndPack32WordIncrement(s, abs, rmode) ==
    LET inc == CASE rmode = "NearestEven" -> Word
                 [] rmode = "ToZero"      -> 0
                 [] rmode = "Up"          -> IF s = 1 THEN 0 ELSE 2^IntRoundBits - 1
                 [] rmode = "Down"        -> IF s = 1 THEN 2^IntRoundBits - 1 ELSE 0
        roundBits == abs % 2^IntRoundBits
        v0 == ((abs + inc) % 2^Word) \div 2^IntRoundBits
        v == IF roundBits = 2^(IntRoundBits - 1) /\ rmode = "NearestEven" THEN v0 - (v0 % 2) ELSE v0
        result == Signed(IF s = 1 THEN -v ELSE v, Int32Bits)
    IN IF v \div 2^Int32Bits # 0 \/ (result # 0 /\ (result < 0) # (s = 1))
       THEN Saturated(s, Int32Bits)
       ELSE IntAnswer(result, IF roundBits # 0 THEN {"inexact"} ELSE {})

\* RtlpRoundAndPack32(s, abs): abs has IntRoundBits bits below its point;
\* the increment is half a unit (0x40, written as the word width) for
\* nearest-even, all but one unit away from zero, none toward zero; a tie
\* clears bit 0.  The result is stored in a LONG and negated; a value
\* with bits above 32, or whose sign then disagrees, is invalid.
RoundAndPack32(s, abs, rmode) ==
    LET inc == CASE rmode = "NearestEven" -> 2^(IntRoundBits - 1)
                 [] rmode = "ToZero"      -> 0
                 [] rmode = "Up"          -> IF s = 1 THEN 0 ELSE 2^IntRoundBits - 1
                 [] rmode = "Down"        -> IF s = 1 THEN 2^IntRoundBits - 1 ELSE 0
        roundBits == abs % 2^IntRoundBits
        v0 == ((abs + inc) % 2^Word) \div 2^IntRoundBits
        v == IF roundBits = 2^(IntRoundBits - 1) /\ rmode = "NearestEven" THEN v0 - (v0 % 2) ELSE v0
        result == Signed(IF s = 1 THEN -v ELSE v, Int32Bits)
    IN IF v \div 2^Int32Bits # 0 \/ (result # 0 /\ (result < 0) # (s = 1))
       THEN Saturated(s, Int32Bits)
       ELSE IntAnswer(result, IF roundBits # 0 THEN {"inexact"} ELSE {})

\* RtlpRoundAndPack64(s, high, low): high is the integer, low the fraction
\* below it; an increment that wraps high to 0, or a result whose sign
\* disagrees, is invalid; a tie (low = half) clears bit 0.
RoundAndPack64(s, high, low, rmode) ==
    LET nearest == rmode = "NearestEven"
        inc == CASE nearest          -> low >= Top
                 [] rmode = "ToZero"  -> FALSE
                 [] s = 1            -> rmode = "Down" /\ low # 0
                 [] OTHER            -> rmode = "Up" /\ low # 0
        h1 == (high + 1) % 2^Word
        h == IF ~inc THEN high
             ELSE IF (2 * low) % 2^Word = 0 /\ nearest THEN h1 - (h1 % 2) ELSE h1
        result == Signed(IF s = 1 THEN -h ELSE h, Word)
    IN IF inc /\ h1 = 0 THEN Saturated(s, Word)
       ELSE IF result # 0 /\ (result < 0) # (s = 1) THEN Saturated(s, Word)
       ELSE IntAnswer(result, IF low # 0 THEN {"inexact"} ELSE {})

\* RtlpShift64ExtraRightJamming(integer, fraction, count): the two-word
\* value shifted right, the bits shifted out of the fraction word jammed
\* into its bit 0.
ShiftExtraRightJamming(vi, vf, c) ==
    LET sticky == IF vf # 0 THEN 1 ELSE 0 IN
    CASE c = 0    -> [high |-> vi, low |-> vf]
      [] c < Word -> [high |-> vi \div 2^c, low |-> ((vi * 2^(Word - c)) % 2^Word) + sticky]
      [] c = Word -> [high |-> 0, low |-> vi | sticky]
      [] OTHER    -> [high |-> 0, low |-> IF vi # 0 \/ vf # 0 THEN 1 ELSE 0]

\* The significand with its implicit bit (ORed in when the exponent is not
\* zero, so a NaN or infinity keeps it too).
WithImplicit(a) ==
    IF ExponentOf(a) # 0 THEN SignificandOf(a) + 2^FracBits ELSE SignificandOf(a)

\* RtlDoubleConvertToInteger32: a NaN is made positive, the significand
\* shifted (jamming) so its point is IntRoundBits above bit 0 (0x42C is
\* the exponent that needs no shift; a larger one is not shifted at all),
\* then rounded by the rmode.
RtlDoubleConvertToInteger32(a, rmode) ==
    LET e == ExponentOf(a)
        s == IF e = NanExponent /\ SignificandOf(a) # 0 THEN 0 ELSE SignOf(a)
        shift == Bias + FracBits - IntRoundBits - e
    IN RoundAndPack32(s, IF shift > 0 THEN ShiftRightJamming(WithImplicit(a), shift)
                         ELSE WithImplicit(a), rmode)

\* RtlDoubleConvertToInteger32RoundToZero: exponents above 0x41E are
\* invalid (a NaN positive), below the bias give 0 (inexact unless zero);
\* otherwise the significand is truncated, stored in a LONG and negated,
\* and a sign that then disagrees is invalid.
RtlDoubleConvertToInteger32RoundToZero(a) ==
    LET e == ExponentOf(a)
        f == SignificandOf(a)
        sig == f + 2^FracBits
        shift == Bias + FracBits - e
        q == sig \div 2^shift
        r0 == Signed(q, Int32Bits)
        r == IF SignOf(a) = 1 THEN Signed(-r0, Int32Bits) ELSE r0
    IN IF e > Bias + Int32Bits - 1
       THEN Saturated(IF e = NanExponent /\ f # 0 THEN 0 ELSE SignOf(a), Int32Bits)
       ELSE IF e < Bias THEN IntAnswer(0, IF e # 0 \/ f # 0 THEN {"inexact"} ELSE {})
       ELSE IF (r < 0) # (SignOf(a) = 1) THEN Saturated(SignOf(a), Int32Bits)
       ELSE IntAnswer(r, IF (q * 2^shift) % 2^Word # sig THEN {"inexact"} ELSE {})

\* RtlDoubleConvertToInteger64: exponents above 0x43E are invalid, MAX
\* for a positive value or a NaN other than the one whose significand is
\* the implicit bit alone; otherwise the significand is shifted left, or
\* right into a fraction word, and rounded by the rmode.
RtlDoubleConvertToInteger64(a, rmode) ==
    LET e == ExponentOf(a)
        sig == WithImplicit(a)
        shift == Bias + FracBits - e
        x == ShiftExtraRightJamming(sig, 0, shift)
    IN IF shift <= 0
       THEN IF e > Bias + Word - 1
            THEN IntAnswer(IF SignOf(a) = 0 \/ (e = NanExponent /\ sig # 2^FracBits)
                           THEN MaxInt(Word) ELSE MinInt(Word), {"invalid"})
            ELSE RoundAndPack64(SignOf(a), (sig * 2^(-shift)) % 2^Word, 0, rmode)
       ELSE RoundAndPack64(SignOf(a), x.high, x.low, rmode)

\* RtlDoubleConvertToInteger64RoundToZero: from exponent 0x43E on, only
\* -2^63 itself is valid; below the bias less one the result is 0;
\* otherwise the significand is shifted and truncated, inexact when bits
\* below the point were set, and negated.
RtlDoubleConvertToInteger64RoundToZero(a) ==
    LET e == ExponentOf(a)
        sig == WithImplicit(a)
        shift == e - (Bias + FracBits)
        Negate(v) == Signed(IF SignOf(a) = 1 THEN -v ELSE v, Word)
    IN IF shift >= 0
       THEN IF e >= Bias + Word - 1
            THEN IF a # Pack(1, Bias + Word - 1, 0)
                 THEN IntAnswer(IF SignOf(a) = 0 \/ (e = NanExponent /\ sig # 2^FracBits)
                                THEN MaxInt(Word) ELSE MinInt(Word), {"invalid"})
                 ELSE IntAnswer(MinInt(Word), {})
            ELSE IntAnswer(Negate((sig * 2^shift) % 2^Word), {})
       ELSE IF e < Bias - 1
       THEN IntAnswer(0, IF sig # 0 THEN {"inexact"} ELSE {})
       ELSE IntAnswer(Negate(sig \div 2^(-shift)),
                      IF (sig * 2^(shift % Word)) % 2^Word # 0 THEN {"inexact"} ELSE {})

-----------------------------------------------------------------------------
(***************************************************************************)
(* Reference: IEEE 754 conversions.                                        *)
(***************************************************************************)
\* One, in units of the smallest subnormal.
Unit == 2^(Bias + FracBits - 1)

\* The integer m / Unit rounded in direction dir, ties to even.
RoundToInteger(m, dir) ==
    LET q == m \div Unit
        r == m % Unit
    IN CASE r = 0 \/ dir = "zero" -> q
         [] dir = "away"          -> q + 1
         [] 2 * r < Unit          -> q
         [] 2 * r > Unit          -> q + 1
         [] OTHER                 -> q + (q % 2)

\* The integers a conversion to n bits may return, and its flags: invalid
\* for a NaN, an infinity or a rounded value out of range (the value is
\* then unspecified), inexact for a value that is not whole.
RefToInteger(a, rmode, n) ==
    LET s == SignOf(a)
        k0 == RoundToInteger(Magnitude(a), Direction(rmode, s))
        k == IF s = 1 THEN -k0 ELSE k0
    IN IF NaN(a) \/ Infinity(a) \/ k < MinInt(n) \/ k > MaxInt(n)
       THEN [allowed |-> MinInt(n) .. MaxInt(n), raised |-> {"invalid"}]
       ELSE [allowed |-> {k},
             raised |-> IF Magnitude(a) % Unit # 0 THEN {"inexact"} ELSE {}]

IntMeets(r, ref) == r.value \in ref.allowed /\ r.raised = ref.raised

\* The double nearest the integer k by the mode.
RefFromInteger(k, rmode, tmode) ==
    IF k = 0 THEN ExactResult(0)
    ELSE Rounded(IF k < 0 THEN 1 ELSE 0, (IF k < 0 THEN -k ELSE k) * Unit, 1, rmode, tmode)

-----------------------------------------------------------------------------
(***************************************************************************)
(* The calls that raise flags.  The conversions from 32-bit integers are   *)
(* exact and raise nothing.                                                *)
(***************************************************************************)
ConvertToInteger32(a) == Raise(RtlDoubleConvertToInteger32(a, mode).raised)
ConvertToInteger32RoundToZero(a) == Raise(RtlDoubleConvertToInteger32RoundToZero(a).raised)
ConvertToInteger64(a) == Raise(RtlDoubleConvertToInteger64(a, mode).raised)
ConvertToInteger64RoundToZero(a) == Raise(RtlDoubleConvertToInteger64RoundToZero(a).raised)
ConvertFromInteger64(i) ==
    \E r \in RtlDoubleConvertFromInteger64(i, mode, tininess) : Raise(r.raised)
ConvertFromUnsignedInteger64(u) ==
    \E r \in RtlDoubleConvertFromUnsignedInteger64(u, mode, tininess) : Raise(r.raised)

ConvertNext ==
    \/ \E a \in Operands :
         \/ ConvertToInteger32(a)
         \/ ConvertToInteger32RoundToZero(a)
         \/ ConvertToInteger64(a)
         \/ ConvertToInteger64RoundToZero(a)
    \/ \E i \in Int64Values : ConvertFromInteger64(i)
    \/ \E u \in Uint64Values : ConvertFromUnsignedInteger64(u)

-----------------------------------------------------------------------------
\* Every double converts to the integer the IEEE rules give: by the stored
\* rounding mode in RtlDoubleConvertToInteger32/64, toward zero in the
\* RoundToZero variants; inexact exactly when the double is not whole,
\* invalid for NaN, infinity and values out of the LONG or LONGLONG
\* range.  This covers the unshifted large exponents, the LONG wrap and
\* sign test, the carry of RtlpRoundAndPack64 out of the word, and -2^63.
ToIntegersRound ==
    \A a \in Doubles :
        /\ IntMeets(RtlDoubleConvertToInteger32(a, mode), RefToInteger(a, mode, Int32Bits))
        /\ IntMeets(RtlDoubleConvertToInteger32RoundToZero(a), RefToInteger(a, "ToZero", Int32Bits))
        /\ IntMeets(RtlDoubleConvertToInteger64(a, mode), RefToInteger(a, mode, Word))
        /\ IntMeets(RtlDoubleConvertToInteger64RoundToZero(a), RefToInteger(a, "ToZero", Word))

\* Every integer converts to the double nearest it by the stored mode,
\* with inexact when it is not representable: the 32-bit ones exactly, the
\* 64-bit ones through the normalisation and rounding, MIN_LONGLONG by its
\* own case.  Unsigned 64-bit values are taken below 2^63 (see
\* UnsignedFromInteger64Exact).
FromIntegersRound ==
    /\ \A i \in Int32Values :
          Meets(RtlDoubleConvertFromInteger32(i), RefFromInteger(i, mode, tininess))
    /\ \A u \in Uint32Values :
          Meets(RtlDoubleConvertFromUnsignedInteger32(u), RefFromInteger(u, mode, tininess))
    /\ \A i \in Int64Values :
          \A r \in RtlDoubleConvertFromInteger64(i, mode, tininess) :
             Meets(r, RefFromInteger(i, mode, tininess))
    /\ \A u \in 0 .. Top - 1 :
          \A r \in RtlDoubleConvertFromUnsignedInteger64(u, mode, tininess) :
             Meets(r, RefFromInteger(u, mode, tininess))

\* RtlDoubleConvertFromUnsignedInteger64 returns the double nearest every
\* ULONGLONG, whatever the build does with the shift by -1 that a value
\* with bit 63 set gives RtlpNormalizeRoundAndPackDouble.
UnsignedFromInteger64Exact ==
    \A u \in Uint64Values :
        \A r \in RtlDoubleConvertFromUnsignedInteger64(u, mode, tininess) :
            Meets(r, RefFromInteger(u, mode, tininess))

====
