------------------------ MODULE MCBackgroundCommands ------------------------
(* Instances of BackgroundCommands for TLC: a handler that sends commands of *)
(* its own beside commands of the application.                               *)
EXTENDS BackgroundCommands

CONSTANTS c1, c2, c3, c4

\* c1's handler sends c4; the application sends the others.
MCSpawner == [c \in Cmds |-> IF c = c4 THEN c1 ELSE NoCmd]

Bounded(mode, capacity) == [FullMode |-> mode, Capacity |-> capacity]

\* Every full mode; two places tell the drop modes apart, one place lets two
\* writers wait behind a queued command.
AllConfigurations ==
  {Bounded("Unbounded", 1), Bounded("Wait", 1), Bounded("Wait", 2),
   Bounded("DropWrite", 1), Bounded("DropOldest", 2), Bounded("DropNewest", 2)}
WaitConfigurations == {Bounded("Wait", 1)}

\* Commands nobody spawns and that spawn nothing are interchangeable.
Interchangeable == Permutations({c2, c3})
=============================================================================
