CONSTANTS
  s1 = s1
  s2 = s2
  audit = audit
  cache = cache
  m1 = m1
  m2 = m2
  Invoker = Invoker
  Null = Null
  Senders = {s1, s2}
  Configurators = {audit, cache}
  Uses <- MCUses
SPECIFICATION Spec
SYMMETRY Interchangeable
CHECK_DEADLOCK FALSE
INVARIANT TypeOK
INVARIANT MiddlewareInOrder
INVARIANT StartupConfigurationHolds
PROPERTY TakesOnePipeline
