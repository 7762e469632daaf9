\* The soft-float calls on their two scaled formats; see MCSoftFloat.
SPECIFICATION MCSpec
INVARIANT TypeOK
INVARIANT SumsRound
INVARIANT ProductsRound
INVARIANT QuotientsRound
INVARIANT ComparisonsOrder
INVARIANT ToIntegersRound
INVARIANT FromIntegersRound
INVARIANT NarrowingRounds
INVARIANT WideningRoundTrips
INVARIANT RemaindersExact
