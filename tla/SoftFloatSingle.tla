-------------------------- MODULE SoftFloatSingle ---------------------------
(***************************************************************************)
(* The conversions between double and float of softfp.c:                  *)
(* RtlDoubleConvertToFloat, RtlFloatConvertToDouble and their helpers      *)
(* (RtlpRoundAndPackFloat, RtlpNormalizeFloatSubnormal,                    *)
(* RtlpShift32RightJamming and the common-NaN conversions).  A float has  *)
(* the layout of a double at other widths, so each format is an instance  *)
(* of SoftFloat: D for the double, F for the float (whose Word is the     *)
(* ULONG of the float routines: 32 = 23 + 7 + 2).  Every value is         *)
(* measured in units of the smallest double subnormal; a float unit is    *)
(* 2^FloatScale of them.                                                   *)
(***************************************************************************)
EXTENDS Integers

CONSTANTS
    DoubleExpBits, DoubleFracBits, DoubleGuardBits,   \* 11, 52, 10
    SingleExpBits, SingleFracBits, SingleGuardBits,   \* 8, 23, 7
    DoubleOperands,     \* the doubles RtlDoubleConvertToFloat is called on
    SingleOperands      \* the floats of the other instance's calls

VARIABLES mode, tininess, flags

D == INSTANCE SoftFloat
        WITH ExpBits <- DoubleExpBits, FracBits <- DoubleFracBits,
             GuardBits <- DoubleGuardBits, Operands <- DoubleOperands
F == INSTANCE SoftFloat
        WITH ExpBits <- SingleExpBits, FracBits <- SingleFracBits,
             GuardBits <- SingleGuardBits, Operands <- SingleOperands

FloatWord == F!Word                                          \* 32
JamShift == DoubleFracBits - SingleFracBits - SingleGuardBits \* 22
\* The difference of the biases: 0x380 (1023 - 127).
ExponentOffset == (2^(DoubleExpBits - 1) - 1) - (2^(SingleExpBits - 1) - 1)
FloatScale == ExponentOffset + DoubleFracBits - SingleFracBits

\* FLOAT_IS_SIGNALING_NAN: bits 22..30 equal to 0x1FE, and the whole word
\* equal to 0x003FFFFF (the exponent bits zero): never both.
FloatIsSignalingNan(f) ==
    /\ (f \div 2^(SingleFracBits - 1)) % 2^(SingleExpBits + 1) = 2^(SingleExpBits + 1) - 2
    /\ f = F!QuietBit - 1

\* RtlpShift32RightJamming on the float's ULONG.
Shift32RightJamming(v, c) ==
    CASE c = 0         -> v
      [] c < FloatWord -> D!Jam(v \div 2^c, v % 2^c # 0)
      [] OTHER         -> IF v # 0 THEN 1 ELSE 0

\* Variant of NormalizeFloatSubnormal that subtracts 9, one too many.
NormalizeFloatSubnormalOffByOne(f) ==
    LET shift == F!CountLeadingZeros(f) - (FloatWord - SingleFracBits) IN
    [exp |-> 1 - shift, sig |-> f * 2^shift]

\* RtlpNormalizeFloatSubnormal: the leading one moved up to the implicit
\* bit (RtlpCountLeadingZeros32 less 8); the exponent becomes 1 - shift.
NormalizeFloatSubnormal(f) ==
    LET shift == F!CountLeadingZeros(f) - (FloatWord - SingleFracBits - 1) IN
    [exp |-> 1 - shift, sig |-> f * 2^shift]

\* The common NaN: its sign and its payload at the top of a ULONGLONG, and
\* invalid when the operand was signaling (as the test of each format
\* says).  RtlpDoubleToCommonNan shifts the double left 12, RtlpFloat-
\* ToCommonNan the float left 41; the bits above the fraction fall out.
DoubleToCommonNan(a) ==
    [sign |-> D!SignOf(a),
     high |-> (a * 2^(D!Word - DoubleFracBits)) % 2^D!Word,
     raised |-> IF D!IsSignalingNanBits(a) THEN {"invalid"} ELSE {}]

FloatToCommonNan(f) ==
    [sign |-> F!SignOf(f),
     high |-> (f * 2^(D!Word - SingleFracBits)) % 2^D!Word,
     raised |-> IF FloatIsSignalingNan(f) THEN {"invalid"} ELSE {}]

\* RtlpCommonNanToFloat and RtlpCommonNanToDouble: the leading payload bits
\* under the all-ones exponent (FLOAT_NAN, NAN_HIGH_WORD), ORed with the
\* quiet bit.
CommonNanToFloat(n) ==
    [bits |-> F!Pack(n.sign, F!NanExponent,
                     F!QuietBit + ((n.high \div 2^(D!Word - SingleFracBits)) % F!QuietBit)),
     raised |-> n.raised]

CommonNanToDouble(n) ==
    [bits |-> D!Pack(n.sign, D!NanExponent,
                     D!QuietBit + ((n.high \div 2^(D!Word - DoubleFracBits)) % D!QuietBit)),
     raised |-> n.raised]

\* Variant of FloatNeedsSpecialCase comparing the exponent as signed, so
\* that a negative exponent is not denormalised.
FloatNeedsSpecialCaseSigned(e) == e >= F!NanExponent - 2

\* (USHORT)Exponent >= 0xFD: an exponent that may overflow, or a negative
\* one (through the unsigned cast) that must be denormalised.
FloatNeedsSpecialCase(e) == e % 2^16 >= F!NanExponent - 2

\* RtlpRoundAndPackFloat(s, e, sig): sig has its point SingleGuardBits
\* above the fraction's (between bits 30 and 29), e is one less than the
\* true exponent.  Overflow above 0xFD, or at 0xFD when rounding carries
\* into bit 31, gives infinity (or the largest finite float when the
\* increment is 0); a negative exponent is denormalised by a jamming
\* shift, with underflow when tiny and inexact; ties clear bit 0.
RoundAndPackFloat(s, e, sig, rmode, tmode) ==
    LET inc == F!RoundIncrement(s, rmode)
        special == FloatNeedsSpecialCase(e)
        overflow == special /\ (e > F!NanExponent - 2
                                \/ (e = F!NanExponent - 2 /\ sig + inc >= 2^(FloatWord - 1)))
        denormal == special /\ ~overflow /\ e < 0
        tiny == tmode = "BeforeRounding" \/ e < -1 \/ sig + inc < 2^(FloatWord - 1)
        dsig == IF denormal THEN Shift32RightJamming(sig, -e) ELSE sig
        dexp == IF denormal THEN 0 ELSE e
        roundBits == dsig % 2^SingleGuardBits
        rounded == (dsig + inc) \div 2^SingleGuardBits
        z == IF roundBits = 2^(SingleGuardBits - 1) /\ rmode = "NearestEven"
             THEN rounded - (rounded % 2) ELSE rounded
    IN IF overflow
       THEN [bits |-> F!Pack(s, F!NanExponent, 0) - (IF inc = 0 THEN 1 ELSE 0),
             raised |-> {"overflow", "inexact"}]
       ELSE [bits |-> F!Pack(s, IF z = 0 THEN 0 ELSE dexp, z),
             raised |-> (IF denormal /\ tiny /\ roundBits # 0 THEN {"underflow"} ELSE {})
                        \cup (IF roundBits # 0 THEN {"inexact"} ELSE {})]

\* RtlDoubleConvertToFloat: a NaN through the common NaN, infinity kept;
\* otherwise the fraction jammed right 22, the implicit bit ORed in at bit
\* 30 unless the value is zero (a subnormal too, whose jammed bits only
\* ever round to zero or the smallest float), and the exponent rebased by
\* 0x381 (the bias difference and the implicit bit) before rounding.
RtlDoubleConvertToFloat(a, rmode, tmode) ==
    LET e == D!ExponentOf(a)
        s == D!SignOf(a)
        sig == D!ShiftRightJamming(D!SignificandOf(a), JamShift)
    IN CASE e = D!NanExponent /\ D!SignificandOf(a) # 0 ->
              CommonNanToFloat(DoubleToCommonNan(a))
         [] e = D!NanExponent -> D!Exact(F!Pack(s, F!NanExponent, 0))
         [] e # 0 \/ sig # 0 ->
              RoundAndPackFloat(s, e - (ExponentOffset + 1),
                                sig + 2^(FloatWord - 2), rmode, tmode)
         [] OTHER -> RoundAndPackFloat(s, e, sig, rmode, tmode)

\* RtlFloatConvertToDouble: a NaN through the common NaN, infinity and
\* zero kept; a subnormal normalised (its implicit bit then carries into
\* the exponent); the fraction shifted up 29 and the exponent rebased by
\* 0x380.  Every float is a double, so nothing is rounded.
RtlFloatConvertToDouble(f) ==
    LET e == F!ExponentOf(f)
        s == F!SignOf(f)
        sig == F!SignificandOf(f)
        n == NormalizeFloatSubnormal(sig)
        up == 2^(DoubleFracBits - SingleFracBits)
    IN CASE e = F!NanExponent /\ sig # 0 -> CommonNanToDouble(FloatToCommonNan(f))
         [] e = F!NanExponent -> D!Exact(D!Pack(s, D!NanExponent, 0))
         [] e = 0 /\ sig = 0  -> D!Exact(D!Pack(s, 0, 0))
         [] e = 0             -> D!Exact(D!Pack(s, n.exp - 1 + ExponentOffset, n.sig * up))
         [] OTHER             -> D!Exact(D!Pack(s, e + ExponentOffset, sig * up))

-----------------------------------------------------------------------------
(***************************************************************************)
(* The calls.  RtlFloatConvertToDouble raises nothing (its only flag, for *)
(* a signaling NaN, is never raised), so it is checked as an operator.     *)
(***************************************************************************)
ConvertToFloat(a) == D!Raise(RtlDoubleConvertToFloat(a, mode, tininess).raised)

SingleNext == \E a \in DoubleOperands : ConvertToFloat(a)

-----------------------------------------------------------------------------
(***************************************************************************)
(* Reference and properties.                                               *)
(***************************************************************************)
\* The float IEEE 754 gives for a double: a NaN becomes a quiet NaN of its
\* sign (invalid if it was signaling), infinity and zero keep their sign,
\* any other value is rounded onto the float grid.
RefToFloat(a) ==
    CASE D!NaN(a) ->
           [allowed |-> {f \in F!Doubles : F!NaN(f) /\ ~F!Signaling(f)
                                            /\ F!SignOf(f) = D!SignOf(a)},
            raised |-> IF D!Signaling(a) THEN {"invalid"} ELSE {}]
      [] D!Infinity(a) -> F!ExactResult(F!Pack(D!SignOf(a), F!NanExponent, 0))
      [] D!IsZero(a)   -> F!ExactResult(F!Pack(D!SignOf(a), 0, 0))
      [] OTHER -> F!Rounded(D!SignOf(a), D!Magnitude(a), 2^FloatScale, mode, tininess)

\* RtlDoubleConvertToFloat returns, for every double and under the stored
\* rounding mode and tininess rule, the correctly rounded float with
\* exactly the IEEE flags: overflow past the float range, underflow of
\* values that are normal doubles but subnormal or zero floats (the
\* negative exponents that reach RtlpRoundAndPackFloat through its
\* unsigned cast), and invalid for a signaling NaN.
NarrowingRounds ==
    \A a \in D!Doubles : D!Meets(RtlDoubleConvertToFloat(a, mode, tininess), RefToFloat(a))

\* Widening a float that is not a signaling NaN and narrowing it back, in
\* the stored mode, gives the same float with no flag: the exponent
\* offsets 0x380 and 0x381 and the shifts 29 and 22 of the two routines
\* agree, subnormal floats are normalised to the right double, and the
\* leading payload bits of a quiet NaN survive both common-NaN trips.
\* Since the narrowing rounds correctly in every mode, this also says the
\* widened double has exactly the float's value.
WideningRoundTrips ==
    \A f \in F!Doubles :
        ~F!Signaling(f) =>
            LET w == RtlFloatConvertToDouble(f) IN
            /\ w.raised = {}
            /\ RtlDoubleConvertToFloat(w.bits, mode, tininess) = F!Exact(f)

\* IEEE 754 raises invalid when a signaling NaN is converted:
\* RtlFloatConvertToDouble should raise it for a signaling float.
WideningSignalsInvalid ==
    \A f \in F!Doubles : F!Signaling(f) => "invalid" \in RtlFloatConvertToDouble(f).raised
====
