CONSTANTS
  ask = ask
  askTell = askTell
  run = run
  rerun = rerun
  hear = hear
  guard = guard
  any = any
  every = every
  base = base
  a = a
  b = b
  Types = {ask, askTell, run, rerun, hear, guard, any, every, base}
  Open = {any, every}
  Abstract = {base}
  Arguments = {a, b}
  Implements <- MCImplements
  Plain <- MCPlain
  Assemblies <- MCAssemblies
  Filters <- MCFilters
  Strategies = {sequential, parallel}
  DefaultStrategy = sequential
  NoArgument = NoArgument
  Library = Library
  MaxCalls = 2
SPECIFICATION Spec
INVARIANT OneClassHandles
