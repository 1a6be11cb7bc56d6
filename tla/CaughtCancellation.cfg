CONSTANT MaxHandlers = 2
SPECIFICATION Spec
INVARIANT CancellationNeverCaught
