SPECIFICATION FairSpec
CONSTANTS
  c1 = c1
  c2 = c2
  c3 = c3
  c4 = c4
  NoCmd = NoCmd
  Cmds = {c1, c2, c4}
  Configurations <- AllConfigurations
  Spawner <- MCSpawner
  SelfCanceling = {c2}
  FailsLate = {c1}
PROPERTIES
  AcceptedIsStarted
  BlockedSenderReleased
  StopReleasesHandler
