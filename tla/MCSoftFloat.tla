---------------------------- MODULE MCSoftFloat ----------------------------
(***************************************************************************)
(* The soft-float library on two scaled formats sharing its three         *)
(* globals.  The arithmetic and the comparisons run on a format with 3    *)
(* exponent bits, 2 fraction bits and 4 guard bits: 64 patterns with      *)
(* zeros, subnormals, normals, infinities, quiet and signaling NaNs;      *)
(* significands in an 8-bit word.  The integer conversions need a         *)
(* fraction at least as wide as a LONG and its round bits together, and   *)
(* the NaN exponent above the one of 2^63, so they run on a wider format  *)
(* (4 exponent, 4 fraction, 2 guard bits; an 8-bit LONGLONG, a 2-bit LONG *)
(* with 2 round bits).                                                    *)
(***************************************************************************)
EXTENDS Integers

VARIABLES mode, tininess, flags

vars == <<mode, tininess, flags>>

NarrowExpBits == 3
NarrowFracBits == 2
NarrowGuardBits == 4

\* One pattern of each kind and sign: zero, smallest subnormal, one, the
\* largest finite value, infinity, a quiet and a signaling NaN.
NarrowOperands ==
    {s * 2^(NarrowExpBits + NarrowFracBits) + e * 2^NarrowFracBits + f :
        s \in {0, 1},
        <<e, f>> \in {<<0, 0>>, <<0, 1>>, <<3, 0>>, <<6, 3>>,
                      <<7, 0>>, <<7, 2>>, <<7, 1>>}}

WideExpBits == 4
WideFracBits == 4
WideGuardBits == 2
WideInt32Bits == 2
WideIntRoundBits == 2

\* Zero, the smallest subnormal, 0.75, 1.5, the tie 2.5, 2 (out of the
\* LONG range when positive), 2^7 (-2^7 is MIN_LONGLONG), infinity, a
\* quiet and a signaling NaN, of both signs.
WideOperands ==
    {s * 2^(WideExpBits + WideFracBits) + e * 2^WideFracBits + f :
        s \in {0, 1},
        <<e, f>> \in {<<0, 0>>, <<0, 1>>, <<6, 8>>, <<7, 8>>, <<8, 4>>,
                      <<8, 0>>, <<14, 0>>, <<15, 0>>, <<15, 8>>, <<15, 1>>}}

\* The double and float of the double-float conversions: a double of 4
\* exponent, 5 fraction and 1 guard bits (bias 7) and a float of 3, 2 and
\* 2 (bias 3), so that the fraction is jammed right one place, float
\* overflow, float subnormals and double subnormals (all below half the
\* smallest float) occur, and a float has a signaling NaN.
PairDoubleExpBits == 4
PairDoubleFracBits == 5
PairDoubleGuardBits == 1
PairSingleExpBits == 3
PairSingleFracBits == 2
PairSingleGuardBits == 2

\* Doubles for the calls: 1, 1 + 2^-5 (inexact), the largest finite double
\* (overflow), 2^-5 and 2^-6 + 2^-11 (a tie and an underflow), a
\* signaling NaN, of both signs.
PairDoubleOperands ==
    {s * 2^(PairDoubleExpBits + PairDoubleFracBits) + e * 2^PairDoubleFracBits + f :
        s \in {0, 1},
        <<e, f>> \in {<<7, 0>>, <<7, 1>>, <<14, 31>>, <<2, 0>>, <<1, 1>>, <<15, 1>>}}

\* A double of 4 exponent, 1 fraction and 3 guard bits: a 6-bit word, so
\* that exponents 7 or more apart send RtlDoubleModulo through its
\* reduction loop, once or twice.
ReducedExpBits == 4
ReducedFracBits == 1
ReducedGuardBits == 3

Reduced == INSTANCE SoftFloat
            WITH ExpBits <- ReducedExpBits, FracBits <- ReducedFracBits,
                 GuardBits <- ReducedGuardBits, Operands <- {}

Narrow == INSTANCE SoftFloat
            WITH ExpBits <- NarrowExpBits, FracBits <- NarrowFracBits,
                 GuardBits <- NarrowGuardBits, Operands <- NarrowOperands

Wide == INSTANCE SoftFloatConvert
            WITH ExpBits <- WideExpBits, FracBits <- WideFracBits,
                 GuardBits <- WideGuardBits, Int32Bits <- WideInt32Bits,
                 IntRoundBits <- WideIntRoundBits, Operands <- WideOperands

Pair == INSTANCE SoftFloatSingle
            WITH DoubleExpBits <- PairDoubleExpBits, DoubleFracBits <- PairDoubleFracBits,
                 DoubleGuardBits <- PairDoubleGuardBits, SingleExpBits <- PairSingleExpBits,
                 SingleFracBits <- PairSingleFracBits, SingleGuardBits <- PairSingleGuardBits,
                 DoubleOperands <- PairDoubleOperands, SingleOperands <- {}

\* No routine reads the exception word, and every rounding mode and
\* tininess rule a caller can store is reachable with the word clear, so
\* the properties of the calls' results are checked in those states: in
\* the others they say the same again, or (ComparisonsOrder, which ORs
\* the word into what it compares) less.
Clear == flags = 0

\* The arithmetic calls on the narrow format, the integer conversions on
\* the wide one and the double-to-float conversion on the pair.
MCNext == Narrow!Next \/ Wide!ConvertNext \/ Pair!SingleNext

MCSpec == Narrow!Init /\ [][MCNext]_vars

\* The exception word holds only the five flag bits (Narrow!TypeOK).
TypeOK == Narrow!TypeOK

\* Sums and differences are correctly rounded (Narrow!SumsRound).
SumsRound == Clear => Narrow!SumsRound

\* Products are correctly rounded, and the double-word multiply is exact
\* (Narrow!ProductsRound).
ProductsRound == Clear => Narrow!ProductsRound

\* Quotients are correctly rounded, and the quotient estimate is within
\* two (Narrow!QuotientsRound).
QuotientsRound == Clear => Narrow!QuotientsRound

\* The comparisons follow the IEEE order and signaling rules
\* (Narrow!ComparisonsOrder).
ComparisonsOrder == Clear => Narrow!ComparisonsOrder

\* Remainders are exact, on the narrow format and on the reduced one
\* where the reduction loop runs (Narrow!RemaindersExact).
RemaindersExact == Clear => (Narrow!RemaindersExact /\ Reduced!RemaindersExact)

\* RtlDoubleIsNan answers TRUE exactly for NaNs (Narrow!IsNanExact).
IsNanExact == Narrow!IsNanExact

\* The conversions to LONG and LONGLONG round as IEEE 754 says
\* (Wide!ToIntegersRound).
ToIntegersRound == Clear => Wide!ToIntegersRound

\* The conversions from integers give the nearest double
\* (Wide!FromIntegersRound).
FromIntegersRound == Clear => Wide!FromIntegersRound

\* Every ULONGLONG converts to the nearest double
\* (Wide!UnsignedFromInteger64Exact).
UnsignedFromInteger64Exact == Wide!UnsignedFromInteger64Exact

\* RtlDoubleConvertToFloat rounds every double correctly
\* (Pair!NarrowingRounds).
NarrowingRounds == Clear => Pair!NarrowingRounds

\* RtlFloatConvertToDouble and RtlDoubleConvertToFloat undo each other
\* (Pair!WideningRoundTrips).
WideningRoundTrips == Clear => Pair!WideningRoundTrips

\* A signaling float raises invalid when widened
\* (Pair!WideningSignalsInvalid).
WideningSignalsInvalid == Pair!WideningSignalsInvalid
====
