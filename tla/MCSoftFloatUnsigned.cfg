\* Reproduction: RtlDoubleConvertFromUnsignedInteger64 of values with bit
\* 63 set.
SPECIFICATION MCSpec
INVARIANT UnsignedFromInteger64Exact
