\* Reproduction: RtlFloatConvertToDouble of a signaling NaN.
SPECIFICATION MCSpec
INVARIANT WideningSignalsInvalid
