SPECIFICATION Spec
CONSTANTS
  c1 = c1
  c2 = c2
  c3 = c3
  c4 = c4
  NoCmd = NoCmd
  Cmds = {c1, c2, c3, c4}
  Configurations <- AllConfigurations
  Spawner <- MCSpawner
  SelfCanceling = {}
  FailsLate = {c1}
SYMMETRY Interchangeable
INVARIANTS
  TypeOK
  NoLostWakeup
  NoOvertaking
  OneAtATime
  RefusedNeverRuns
  NothingLost
  ProcessorSurvives
PROPERTIES
  RunsAtMostOnce
  DeliversInOrder
