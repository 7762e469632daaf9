\* Reproduction: RtlDoubleIsNan against the definition of a NaN.
SPECIFICATION MCSpec
INVARIANT IsNanExact
