SPECIFICATION Spec
CONSTANTS
  c1 = c1
  c2 = c2
  c3 = c3
  c4 = c4
  NoCmd = NoCmd
  Cmds = {c1, c2, c4}
  Configurations <- WaitConfigurations
  Spawner <- MCSpawner
  SelfCanceling = {c1}
  FailsLate = {}
INVARIANT
  ProcessorSurvives
