---------------------- MODULE BackgroundDeliveryProofs ----------------------
(* The channel and the service implement CommandDelivery: the initial states  *)
(* map to initial states, and every step to a step of the promise or to none. *)
EXTENDS BackgroundCommandsProofs

phases == [c \in Cmds |-> Phase(c)]

\* The phase of a command, read off its send and its handler.
LEMMA PhaseCases ==
  ASSUME IInv, NEW c \in Cmds
  PROVE  /\ Phase(c) = "new" <=> send[c] = "idle"
         /\ Phase(c) = "accepted" <=> c \in Queued
         /\ Phase(c) = "offered" <=> c \in Waiting
         /\ Phase(c) = "running" <=> fate[c] = "running"
         /\ Phase(c) = "dropped" <=> fate[c] = "dropped"
<1>1. /\ fate[c] \in Fates /\ send[c] \in SendStates
      /\ c \in Queued <=> send[c] \in Accepted /\ fate[c] = "none"
      /\ c \in Waiting <=> send[c] = "blocked"
      /\ fate[c] # "none" => send[c] \in Accepted
  BY DEF IInv, TypeOK, Placement
<1>2. QED
  BY <1>1 DEF Phase, Fates, SendStates, Accepted, Refused, Started

\* It is a function of these two alone.
LEMMA PhaseValues ==
  ASSUME NEW c \in Cmds
  PROVE  /\ fate[c] = "none" =>
              /\ send[c] = "idle" => Phase(c) = "new"
              /\ send[c] = "blocked" => Phase(c) = "offered"
              /\ send[c] \in Accepted => Phase(c) = "accepted"
              /\ send[c] \in Refused => Phase(c) = "refused"
         /\ fate[c] = "running" => Phase(c) = "running"
         /\ fate[c] = "dropped" => Phase(c) = "dropped"
         /\ fate[c] \in {"succeeded", "failed", "canceled"} => Phase(c) = "finished"
  BY DEF Phase, Started, Accepted, Refused

\* The same after a step.
LEMMA NextPhaseValues ==
  ASSUME NEW c \in Cmds
  PROVE  /\ fate'[c] = "none" =>
              /\ send'[c] = "blocked" => Phase(c)' = "offered"
              /\ send'[c] \in Accepted => Phase(c)' = "accepted"
              /\ send'[c] \in Refused => Phase(c)' = "refused"
         /\ fate'[c] = "running" => Phase(c)' = "running"
         /\ fate'[c] = "dropped" => Phase(c)' = "dropped"
         /\ fate'[c] \in {"succeeded", "failed", "canceled"} => Phase(c)' = "finished"
  BY DEF Phase, Started, Accepted, Refused

\* A command whose send and handler stay keeps its phase.
LEMMA PhaseFrame ==
  ASSUME NEW c \in Cmds, send'[c] = send[c], fate'[c] = fate[c]
  PROVE  Phase(c)' = Phase(c)
  BY DEF Phase, Started

\* Accepted commands are the buffer, offered ones the pending writes.
LEMMA InPhaseSets ==
  ASSUME IInv
  PROVE  /\ Delivery!InPhase("accepted") = Queued
         /\ Delivery!InPhase("offered") = Waiting
         /\ Delivery!InPhase("running") = {c \in Cmds : fate[c] = "running"}
         /\ Delivery!InPhase("new") = {c \in Cmds : send[c] = "idle"}
  BY PhaseCases, QueueFacts DEF Delivery!InPhase, IInv

\* The initial states are initial states of the promise.
LEMMA DeliveryInit == Init => Delivery!Init
<1> SUFFICES ASSUME Init PROVE Delivery!Init
  OBVIOUS
<1>1. \A c \in Cmds : Phase(c) = "new"
  BY PhaseValues DEF Init
<1>2. QED
  BY <1>1 DEF Init, Delivery!Init

\* A step that refuses the commands of S, which were new or waiting.
LEMMA RefuseStep ==
  ASSUME IInv, NEW S \in SUBSET Cmds, S # {},
         \A c \in S : send[c] \in {"idle", "blocked"} /\ send'[c] \in Refused,
         \A c \in Cmds \ S : send'[c] = send[c],
         UNCHANGED <<options, fate, arrival, arrivals>>
  PROVE  Delivery!Next
<1>1. \A c \in S : fate[c] = "none" /\ fate'[c] = "none"
  BY DEF IInv, Placement, TypeOK, Accepted
<1>2. \A c \in S : Phase(c)' = "refused"
  BY <1>1, NextPhaseValues
<1>3. \A c \in Cmds \ S : Phase(c)' = Phase(c)
  BY PhaseFrame
<1>4. phases' = [c \in Cmds |-> IF c \in S THEN "refused" ELSE phases[c]]
  BY <1>2, <1>3 DEF phases
<1>5. S \subseteq Delivery!InPhase("new") \cup Delivery!InPhase("offered")
  BY InPhaseSets DEF IInv, Placement
<1>6. Delivery!Refuse(S)
  BY <1>4, <1>5 DEF Delivery!Refuse, phases
<1>7. QED
  BY <1>6 DEF Delivery!Next

\* Every step is a step of the promise or leaves it as it is.
LEMMA DeliveryStep ==
  ASSUME IInv, [Next]_vars
  PROVE  [Delivery!Next]_Delivery!dvars
<1> DEFINE Lossy == options.FullMode \in {"DropWrite", "DropOldest", "DropNewest"}
<1>0. /\ send \in [Cmds -> SendStates] /\ fate \in [Cmds -> Fates]
      /\ Queued \subseteq Cmds /\ Waiting \subseteq Cmds
  BY QueueFacts DEF IInv, TypeOK
<1>a. ASSUME UNCHANGED <<options, arrival, arrivals>>, \A c \in Cmds : Phase(c)' = Phase(c)
      PROVE  UNCHANGED Delivery!dvars
  BY <1>a DEF Delivery!dvars
<1>1. CASE HostStep \/ UNCHANGED vars
  BY <1>1, <1>a, HostStepFrame, PhaseFrame
<1>2. CASE ReadCommand
  <2> DEFINE h == Head(buffer)
  <2>1. /\ h \in Queued /\ h \in Cmds /\ service = "draining"
        /\ fate' = [fate EXCEPT ![h] = "running"]
        /\ \A d \in (Queued \ {h}) \cup Waiting : arrival[h] < arrival[d]
        /\ UNCHANGED <<options, arrival, arrivals>>
    BY <1>0, <1>2, ReadQueues DEF ReadCommand, Take, tickets
  <2>2. arrival \in [Cmds -> Nat] /\ h \notin Waiting
    BY <2>1 DEF IInv, TypeOK, Placement, Accepted
  <2> HIDE DEF h
  <2>3. /\ Delivery!InPhase("running") = {}
        /\ phases[h] = "accepted"
        /\ Delivery!First(h, Delivery!InPhase("accepted") \cup Delivery!InPhase("offered"))
    <3>1. Delivery!InPhase("running") = {}
      BY <2>1, InPhaseSets DEF IInv, OneAtATime
    <3>2. phases[h] = "accepted"
      BY <2>1, PhaseCases DEF phases
    <3>3. \A d \in Queued \cup Waiting : arrival[h] <= arrival[d]
      <4> SUFFICES ASSUME NEW d \in Queued \cup Waiting PROVE arrival[h] <= arrival[d]
        OBVIOUS
      <4>1. arrival[h] \in Nat /\ arrival[d] \in Nat /\ (d = h \/ arrival[h] < arrival[d])
        BY <1>0, <2>1, <2>2
      <4>2. QED
        BY <4>1
    <3>4. QED
      BY <2>1, <3>1, <3>2, <3>3, InPhaseSets DEF Delivery!First
  <2>4. phases'[h] = "running"
    BY <1>0, <2>1, NextPhaseValues DEF phases
  <2>5. CASE blocked = <<>>
    <3>1. UNCHANGED send
      BY <1>2, <2>5 DEF ReadCommand, Take
    <3>2. \A d \in Cmds : d # h => Phase(d)' = Phase(d)
      BY <1>0, <2>1, <3>1, PhaseFrame
    <3>3. phases' = [phases EXCEPT ![h] = "running"]
      BY <2>1, <2>4, <3>2 DEF phases
    <3>4. Delivery!Run(h)
      BY <2>1, <2>3, <3>3 DEF Delivery!Run, phases
    <3>5. QED
      BY <2>1, <3>4 DEF Delivery!Next
  <2>6. CASE blocked # <<>>
    <3> DEFINE w == Head(blocked)
    <3>1. /\ w \in Waiting /\ w \in Cmds
          /\ send' = [send EXCEPT ![w] = "written"]
          /\ \A d \in Waiting \ {w} : arrival[w] < arrival[d]
      <4>1. /\ w \in Waiting /\ Waiting' = Waiting \ {w}
            /\ \A d \in Waiting' : arrival[w] < arrival[d]
        BY <1>2, <2>6, ReadQueues
      <4>2. QED
        BY <1>0, <1>2, <2>6, <4>1 DEF ReadCommand, Take, Sent
    <3> HIDE DEF w
    <3>2. w # h /\ fate[w] = "none"
      BY <2>2, <3>1 DEF IInv, TypeOK, Placement, Accepted
    <3>3. phases'[w] = "accepted"
      BY <1>0, <2>1, <3>1, <3>2, NextPhaseValues DEF phases, Accepted
    <3>4. \A d \in Cmds : d # h /\ d # w => Phase(d)' = Phase(d)
      BY <1>0, <2>1, <3>1, PhaseFrame
    <3>5. phases' = [phases EXCEPT ![h] = "running", ![w] = "accepted"]
      BY <2>1, <2>4, <3>1, <3>2, <3>3, <3>4 DEF phases
    <3>6. Delivery!First(w, Delivery!InPhase("offered"))
      <4>1. \A d \in Waiting : arrival[w] <= arrival[d]
        <5> SUFFICES ASSUME NEW d \in Waiting PROVE arrival[w] <= arrival[d]
          OBVIOUS
        <5>1. arrival[w] \in Nat /\ arrival[d] \in Nat /\ (d = w \/ arrival[w] < arrival[d])
          BY <1>0, <2>2, <3>1
        <5>2. QED
          BY <5>1
      <4>2. QED
        BY <3>1, <4>1, InPhaseSets DEF Delivery!First
    <3>7. Delivery!Run(h)
      BY <2>1, <2>3, <3>1, <3>5, <3>6 DEF Delivery!Run, phases
    <3>8. QED
      BY <2>1, <3>7 DEF Delivery!Next
  <2>7. QED
    BY <2>5, <2>6
<1>3. CASE CompleteWriter
  <2>1. /\ UNCHANGED <<options, fate, arrival, arrivals>>
        /\ \A c \in Waiting : send[c] = "blocked" /\ send'[c] = "faulted"
        /\ \A c \in Cmds \ Waiting : send'[c] = send[c]
    BY <1>0, <1>3 DEF CompleteWriter, tickets, IInv, Placement
  <2>2. CASE Waiting = {}
    BY <1>a, <2>1, <2>2, PhaseFrame
  <2>3. CASE Waiting # {}
    BY <1>0, <2>1, <2>3, RefuseStep DEF Refused
  <2>4. QED
    BY <2>2, <2>3
<1>4. ASSUME NEW c \in Cmds, SendFails(c)
      PROVE  Delivery!Next
  <2>1. /\ send[c] = "idle" /\ send'[c] \in Refused
        /\ \A d \in Cmds \ {c} : send'[d] = send[d]
        /\ UNCHANGED <<options, fate, arrival, arrivals>>
    BY <1>0, <1>4, SendFailsFrame DEF Refused
  <2> DEFINE S == {c}
  <2>2. /\ S \in SUBSET Cmds /\ S # {}
        /\ \A d \in S : send[d] \in {"idle", "blocked"} /\ send'[d] \in Refused
        /\ \A d \in Cmds \ S : send'[d] = send[d]
    BY <2>1
  <2> HIDE DEF S
  <2>3. QED
    BY <2>1, <2>2, RefuseStep
<1>5. ASSUME NEW c \in Cmds, WriteEnqueues(c)
      PROVE  Delivery!Next
  <2>1. /\ send[c] = "idle" /\ send' = [send EXCEPT ![c] = "written"]
        /\ UNCHANGED <<options, fate>> /\ DrawTicket(c)
    BY <1>5 DEF WriteEnqueues, EnterBuffer, MaySend, Sent
  <2>2. Phase(c) = "new" /\ Phase(c)' = "accepted"
    BY <1>0, <2>1, PhaseCases, IdleFacts, NextPhaseValues DEF Accepted, IInv
  <2>3. \A d \in Cmds : d # c => Phase(d)' = Phase(d)
    BY <1>0, <2>1, PhaseFrame
  <2>4. phases[c] = "new" /\ phases' = [phases EXCEPT ![c] = "accepted"]
    BY <2>2, <2>3 DEF phases
  <2>5. Delivery!Accept(c)
    BY <2>1, <2>4 DEF Delivery!Accept, Delivery!Arrive, DrawTicket, phases
  <2>6. QED
    BY <2>5 DEF Delivery!Next
<1>6. ASSUME NEW c \in Cmds, WriteBlocks(c)
      PROVE  Delivery!Next
  <2>1. /\ send[c] = "idle" /\ send' = [send EXCEPT ![c] = "blocked"]
        /\ UNCHANGED <<options, fate>> /\ DrawTicket(c)
    BY <1>6 DEF WriteBlocks, MaySend, Sent
  <2>2. Phase(c) = "new" /\ Phase(c)' = "offered"
    BY <1>0, <2>1, PhaseCases, IdleFacts, NextPhaseValues DEF IInv
  <2>3. \A d \in Cmds : d # c => Phase(d)' = Phase(d)
    BY <1>0, <2>1, PhaseFrame
  <2>4. phases[c] = "new" /\ phases' = [phases EXCEPT ![c] = "offered"]
    BY <2>2, <2>3 DEF phases
  <2>5. Delivery!Offer(c)
    BY <2>1, <2>4 DEF Delivery!Offer, Delivery!Arrive, DrawTicket, phases
  <2>6. QED
    BY <2>5 DEF Delivery!Next
<1>7. ASSUME NEW c \in Cmds, WriteDropped(c)
      PROVE  Delivery!Next
  <2>1. /\ send[c] = "idle" /\ send' = [send EXCEPT ![c] = "written"]
        /\ fate' = [fate EXCEPT ![c] = "dropped"]
        /\ Lossy /\ UNCHANGED <<options, arrival, arrivals>>
    BY <1>7 DEF WriteDropped, MaySend, Sent, tickets
  <2>2. Phase(c) = "new" /\ Phase(c)' = "dropped"
    BY <1>0, <2>1, PhaseCases, NextPhaseValues
  <2>3. \A d \in Cmds : d # c => Phase(d)' = Phase(d)
    BY <1>0, <2>1, PhaseFrame
  <2>4. phases[c] = "new" /\ phases' = [phases EXCEPT ![c] = "dropped"]
    BY <2>2, <2>3 DEF phases
  <2>5. Delivery!Discard(c)
    BY <2>1, <2>4 DEF Delivery!Discard, phases
  <2>6. QED
    BY <2>5 DEF Delivery!Next
<1>8. ASSUME NEW c \in Cmds, WriteEvicts(c)
      PROVE  Delivery!Next
  <2>0. PICK v \in Queued : v = Victim
    BY <1>8, EvictQueues
  <2>1. /\ send[c] = "idle" /\ send' = [send EXCEPT ![c] = "written"]
        /\ fate' = [fate EXCEPT ![v] = "dropped"]
        /\ Lossy /\ UNCHANGED options /\ DrawTicket(c)
    BY <1>8, <2>0 DEF WriteEvicts, EnterBuffer, MaySend, Sent
  <2>2. v \in Cmds /\ v # c /\ fate[c] = "none"
    BY <1>0, <2>1, IdleFacts DEF IInv
  <2>3. Phase(c) = "new" /\ Phase(c)' = "accepted" /\ Phase(v)' = "dropped"
    BY <1>0, <2>1, <2>2, PhaseCases, NextPhaseValues DEF Accepted
  <2>4. \A d \in Cmds : d # c /\ d # v => Phase(d)' = Phase(d)
    BY <1>0, <2>1, PhaseFrame
  <2>5. phases[c] = "new" /\ phases' = [phases EXCEPT ![c] = "accepted", ![v] = "dropped"]
    BY <2>2, <2>3, <2>4 DEF phases
  <2>6. v \in Delivery!InPhase("accepted")
    BY InPhaseSets
  <2>7. Delivery!Accept(c)
    BY <2>1, <2>5, <2>6 DEF Delivery!Accept, Delivery!Arrive, DrawTicket, phases
  <2>8. QED
    BY <2>7 DEF Delivery!Next
<1>9. ASSUME NEW c \in Cmds, SendReturns(c) \/ ConsultExceptionHandlers(c)
      PROVE  UNCHANGED Delivery!dvars
  <2>1. /\ UNCHANGED <<options, fate, arrival, arrivals>>
        /\ \A d \in Cmds : d # c => send'[d] = send[d]
        /\ \/ send[c] \in Accepted /\ send'[c] \in Accepted
           \/ send[c] = "faulted" /\ send'[c] \in Refused
    BY <1>0, <1>9, SendEndsFrame DEF Accepted, Refused
  <2>2. Phase(c)' = Phase(c)
    BY <2>1, <1>0 DEF Phase, Started, Accepted, Refused, IInv, Placement
  <2>3. \A d \in Cmds : d # c => Phase(d)' = Phase(d)
    BY <2>1, PhaseFrame
  <2>4. QED
    BY <1>a, <2>1, <2>2, <2>3
<1>10. ASSUME NEW c \in Cmds, CancelBlocked(c)
       PROVE  Delivery!Next
  <2>1. /\ send[c] = "blocked" /\ send'[c] \in Refused
        /\ \A d \in Cmds \ {c} : send'[d] = send[d]
        /\ UNCHANGED <<options, fate, arrival, arrivals>>
    BY <1>0, <1>10 DEF CancelBlocked, Sent, Refused, tickets
  <2> DEFINE S == {c}
  <2>2. /\ S \in SUBSET Cmds /\ S # {}
        /\ \A d \in S : send[d] \in {"idle", "blocked"} /\ send'[d] \in Refused
        /\ \A d \in Cmds \ S : send'[d] = send[d]
    BY <2>1
  <2> HIDE DEF S
  <2>3. QED
    BY <2>1, <2>2, RefuseStep
<1>11. ASSUME NEW c \in Cmds, HandlerReturns(c)
       PROVE  Delivery!Next
  <2>1. /\ fate[c] = "running" /\ fate'[c] \in {"succeeded", "failed", "canceled"}
        /\ \A d \in Cmds : d # c => fate'[d] = fate[d]
        /\ UNCHANGED <<options, send, arrival, arrivals>>
    BY <1>0, <1>11, HandlerReturnsFrame
  <2>2. Phase(c) = "running" /\ Phase(c)' = "finished"
    BY <2>1, PhaseCases, NextPhaseValues
  <2>3. \A d \in Cmds : d # c => Phase(d)' = Phase(d)
    BY <2>1, PhaseFrame
  <2>4. phases[c] = "running" /\ phases' = [phases EXCEPT ![c] = "finished"]
    BY <2>2, <2>3 DEF phases
  <2>5. Delivery!Finish(c)
    BY <2>1, <2>4 DEF Delivery!Finish, phases
  <2>6. QED
    BY <2>5 DEF Delivery!Next
<1>12. QED
  BY <1>1, <1>2, <1>3, <1>4, <1>5, <1>6, <1>7, <1>8, <1>9, <1>10, <1>11, StepCases

\* The background path implements the promise of CommandDelivery for every set
\* of commands, every sender structure and every channel configuration.
THEOREM ImplementsDelivery == Spec => DeliversInOrder
<1>1. IInv /\ [Next]_vars => [Delivery!Next]_Delivery!dvars
  BY DeliveryStep
<1>2. QED
  BY <1>1, DeliveryInit, Invariance, PTL DEF Spec, DeliversInOrder, Delivery!Spec
=============================================================================
