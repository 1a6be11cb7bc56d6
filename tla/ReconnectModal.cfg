CONSTANT Calls = {r1, r2, r3}
SPECIFICATION Spec
INVARIANT TypeOK
INVARIANT NeverStranded
INVARIANT DialogTellsTheTruth
INVARIANT ReloadLosesNothing
INVARIANT ListensOnlyAfterFailure
PROPERTY RecoversWhenLookedAt
CHECK_DEADLOCK FALSE
