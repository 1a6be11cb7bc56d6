CONSTANT MaxHandlers = 3
SPECIFICATION FairSpec
INVARIANT TypeOK
INVARIANT NothingLeftRunning
INVARIANT CalledInOrder
INVARIANT EveryHandlerCalled
INVARIANT FailuresReported
PROPERTY PublishesAsPromised
PROPERTY PublishEnds
