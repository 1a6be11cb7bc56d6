---------------------- MODULE BackgroundCommandsProofs ----------------------
(***************************************************************************)
(* The safety properties of BackgroundCommands for any number of commands,    *)
(* any configuration of the channel and any structure of spawned sends.       *)
(*                                                                          *)
(* They do not hold inductively one by one; IInv joins them with what they     *)
(* rest on: buffer and blocked hold exactly the accepted and the pending       *)
(* commands, each once, and the tickets grow along the one and on into the     *)
(* other.                                                                    *)
(***************************************************************************)
EXTENDS BackgroundCommands, SequenceFacts, TLAPS

\* The channel has one of the known full modes and a positive capacity.
LEMMA OptionsType ==
  ASSUME options \in Configurations
  PROVE  options.FullMode \in ChannelModes /\ options.Capacity \in Nat \ {0}
  BY ConfigurationsAssumption

\* The types hold when the application is built.
LEMMA TypeInit == Init => TypeOK
<1> SUFFICES ASSUME Init PROVE TypeOK
  OBVIOUS
<1>1. options \in Configurations /\ buffer \in Seq(Cmds) /\ blocked \in Seq(Cmds)
  BY EmptySeq DEF Init
<1>2. writerDone \in BOOLEAN /\ stopping \in BOOLEAN
  BY DEF Init
<1>3. /\ service \in ServiceStates /\ arrivals \in Nat
      /\ send \in [Cmds -> SendStates]
      /\ fate \in [Cmds -> Fates]
      /\ arrival \in [Cmds -> Nat]
  BY DEF Init, SendStates, Fates, ServiceStates
<1>4. QED
  BY <1>1, <1>2, <1>3 DEF TypeOK

\* Every step keeps the types.
LEMMA TypeStep == TypeOK /\ [Next]_vars => TypeOK'
<1> SUFFICES ASSUME TypeOK, [Next]_vars
             PROVE  TypeOK'
  OBVIOUS
<1> USE DEF TypeOK, SendStates, Fates, ServiceStates, channel, tickets, vars
<1>1. ASSUME NEW c \in Cmds, Write(c)
      PROVE  TypeOK'
  <2> USE DEF Sent, MaySend
  <2>1. CASE ResolveFails(c)
    BY <2>1 DEF ResolveFails
  <2>2. CASE WriteCanceled(c)
    BY <2>2 DEF WriteCanceled
  <2>3. CASE WriteRefused(c)
    BY <2>3 DEF WriteRefused
  <2>4. CASE WriteEnqueues(c)
    BY <2>4, AppendFacts DEF WriteEnqueues, EnterBuffer, DrawTicket, Wake
  <2>5. CASE WriteBlocks(c)
    BY <2>5, AppendFacts DEF WriteBlocks, DrawTicket
  <2>6. CASE WriteDropped(c)
    BY <2>6 DEF WriteDropped
  <2>7. CASE WriteEvicts(c)
    <3>1. buffer # <<>>
      BY <2>7, OptionsType, EmptySeq DEF WriteEvicts, EnterBuffer, Full
    <3>2. Survivors \in Seq(Cmds)
      BY <3>1, TailFacts, FrontFacts DEF Survivors
    <3>3. buffer' \in Seq(Cmds)
      BY <2>7, <3>2, AppendFacts DEF WriteEvicts, EnterBuffer
    <3>4. fate' \in [Cmds -> Fates] /\ send' \in [Cmds -> SendStates]
      BY <2>7 DEF WriteEvicts, EnterBuffer
    <3>5. arrival' \in [Cmds -> Nat] /\ arrivals' \in Nat
      BY <2>7 DEF WriteEvicts, EnterBuffer, DrawTicket
    <3>6. UNCHANGED <<options, blocked, writerDone, stopping, service>>
      BY <2>7 DEF WriteEvicts, EnterBuffer
    <3>7. QED
      BY <3>3, <3>4, <3>5, <3>6
  <2>8. QED
    BY <1>1, <2>1, <2>2, <2>3, <2>4, <2>5, <2>6, <2>7 DEF Write
<1>2. ASSUME NEW c \in Cmds, SendGoesOn(c)
      PROVE  TypeOK'
  BY <1>2 DEF SendGoesOn, SendReturns, ConsultExceptionHandlers, Sent
<1>3. ASSUME NEW c \in Cmds, CancelBlocked(c)
      PROVE  TypeOK'
  <2>1. PICK i \in DOMAIN blocked : blocked' = RemoveAt(blocked, i)
    BY <1>3 DEF CancelBlocked, Withdraw
  <2>2. blocked' \in Seq(Cmds)
    BY <2>1, RemoveAtFacts, LenProperties
  <2>3. QED
    BY <1>3, <2>2 DEF CancelBlocked, Withdraw, Sent
<1>4. ASSUME NEW c \in Cmds, HandlerReturns(c)
      PROVE  TypeOK'
  BY <1>4 DEF HandlerReturns, HandlerSucceeds, HandlerFails, HandlerCancels, HandlerEnds
<1>5. CASE StartService
  BY <1>5 DEF StartService
<1>6. CASE WaitToRead
  BY <1>6 DEF WaitToRead
<1>7. CASE ReadNothing
  BY <1>7 DEF ReadNothing
<1>8. CASE ReadCommand
  <2>1. /\ Tail(buffer) \in Seq(Cmds)
        /\ blocked # <<>> => Tail(blocked) \in Seq(Cmds) /\ Head(blocked) \in Cmds
    BY <1>8, TailFacts DEF ReadCommand, Take
  <2>2. blocked # <<>> => Append(Tail(buffer), Head(blocked)) \in Seq(Cmds)
    BY <2>1, AppendFacts
  <2>3. CASE blocked = <<>>
    BY <1>8, <2>1, <2>3 DEF ReadCommand, Take
  <2>4. CASE blocked # <<>>
    BY <1>8, <2>1, <2>2, <2>4 DEF ReadCommand, Take, Sent
  <2>5. QED
    BY <2>3, <2>4
<1>9. CASE Stop
  BY <1>9 DEF Stop
<1>10. CASE CompleteWriter
  BY <1>10, EmptySeq DEF CompleteWriter
<1>11. CASE UNCHANGED vars
  BY <1>11
<1>12. QED
  BY <1>1, <1>2, <1>3, <1>4, <1>5, <1>6, <1>7, <1>8, <1>9, <1>10, <1>11
     DEF Next, Serve, Terminated

\* BackgroundCommands keeps its types.
THEOREM TypeCorrect == Spec => []TypeOK
<1>1. QED
  BY TypeInit, TypeStep, PTL DEF Spec
-----------------------------------------------------------------------------
(* The inductive invariant.                                                 *)

DropModes == {"DropWrite", "DropOldest", "DropNewest"}

\* Where a command is follows from how far its send and its handler have come.
Placement ==
  /\ Queued = {c \in Cmds : send[c] \in Accepted /\ fate[c] = "none"}
  /\ Waiting = {c \in Cmds : send[c] = "blocked"}
  /\ \A c \in Cmds : fate[c] # "none" => send[c] \in Accepted
  /\ \A c \in Cmds : fate[c] = "dropped" => options.FullMode \in DropModes

\* Tickets grow along the buffer, then along the pending writes, and whatever
\* was started has a smaller one than all of them.
TicketOrder ==
  /\ \A c \in Cmds : arrival[c] <= arrivals
  /\ Increasing(arrival, buffer) /\ Increasing(arrival, blocked)
  /\ \A c \in Queued, d \in Waiting : arrival[c] < arrival[d]
  /\ NoOvertaking

\* The service has completed only behind a complete and drained channel.
CompletionDrains ==
  service = "completed" => writerDone /\ buffer = <<>> /\ blocked = <<>>

IInv == TypeOK /\ NoLostWakeup /\ OneAtATime /\ CompletionDrains /\ Placement /\ TicketOrder

\* What each step of a sender or of the service does to the two queues.
LEMMA QueueFacts ==
  ASSUME TypeOK
  PROVE  /\ Queued \subseteq Cmds /\ Waiting \subseteq Cmds
         /\ Len(buffer) \in Nat /\ Len(blocked) \in Nat
         /\ buffer = <<>> <=> Queued = {}
         /\ blocked = <<>> <=> Waiting = {}
         /\ buffer = <<>> <=> Len(buffer) = 0
  BY ToSetFacts, EmptySeq DEF TypeOK, Queued, Waiting

\* A command that was not sent is nowhere.
LEMMA IdleFacts ==
  ASSUME TypeOK, Placement, NEW c \in Cmds, send[c] = "idle"
  PROVE  fate[c] = "none" /\ ~Started(c) /\ c \notin Queued /\ c \notin Waiting
  BY DEF Placement, Accepted, Started

\* A new ticket is larger than all others and changes no order among them.
LEMMA NewTicket ==
  ASSUME IInv, NEW c \in Cmds, send[c] = "idle", DrawTicket(c)
  PROVE  /\ arrival' \in [Cmds -> Nat]
         /\ \A d \in Cmds : d # c => arrival'[d] = arrival[d]
         /\ \A d \in Cmds : d # c => arrival'[d] < arrival'[c]
         /\ \A d \in Cmds : arrival'[d] <= arrivals'
         /\ Increasing(arrival', buffer) /\ Increasing(arrival', blocked)
<1>1. /\ arrival' \in [Cmds -> Nat] /\ arrival'[c] = arrivals'
      /\ arrivals' = arrivals + 1 /\ arrivals \in Nat
      /\ \A d \in Cmds : d # c => arrival'[d] = arrival[d]
  BY DEF IInv, TypeOK, DrawTicket
<1>2. \A d \in Cmds : arrival[d] \in Nat /\ arrival[d] <= arrivals
  BY DEF IInv, TypeOK, TicketOrder
<1>3. \A d \in Cmds : d # c => arrival'[d] < arrival'[c]
  BY <1>1, <1>2
<1>4. \A d \in Cmds : arrival'[d] <= arrivals'
  BY <1>1, <1>2
<1>5. \A d \in Queued \cup Waiting : arrival[d] = arrival'[d]
  BY <1>1, IdleFacts, QueueFacts DEF IInv
<1>6. Increasing(arrival', buffer) /\ Increasing(arrival', blocked)
  BY <1>5, IncreasingElsewhere DEF IInv, TypeOK, TicketOrder, Queued, Waiting
<1>7. QED
  BY <1>1, <1>3, <1>4, <1>6

\* A write with room adds its command to the buffer, behind all others.
LEMMA EnqueueQueues ==
  ASSUME IInv, NEW c \in Cmds, WriteEnqueues(c)
  PROVE  /\ Queued' = Queued \cup {c} /\ Waiting' = Waiting
         /\ Len(buffer') = Len(buffer) + 1
         /\ Increasing(arrival', buffer') /\ Increasing(arrival', blocked')
<1>1. /\ send[c] = "idle" /\ DrawTicket(c) /\ buffer' = Append(buffer, c)
      /\ UNCHANGED blocked
  BY DEF WriteEnqueues, EnterBuffer, MaySend
<1>2. \A d \in Queued : arrival'[d] < arrival'[c]
  BY <1>1, NewTicket, IdleFacts, QueueFacts DEF IInv
<1>3. /\ Len(buffer') = Len(buffer) + 1 /\ ToSet(buffer') = ToSet(buffer) \cup {c}
      /\ Increasing(arrival', buffer')
  <2>1. buffer \in Seq(Cmds) /\ arrival' \in [Cmds -> Nat] /\ Increasing(arrival', buffer)
    BY <1>1, NewTicket DEF IInv, TypeOK
  <2>2. \A d \in ToSet(buffer) : arrival'[d] < arrival'[c]
    BY <1>2 DEF Queued
  <2>3. QED
    BY <1>1, <2>1, <2>2, AppendOrder
<1>4. QED
  BY <1>1, <1>3, NewTicket DEF Queued, Waiting

\* A write without room joins the pending ones, behind all others.
LEMMA BlockQueues ==
  ASSUME IInv, NEW c \in Cmds, WriteBlocks(c)
  PROVE  /\ Queued' = Queued /\ Waiting' = Waiting \cup {c}
         /\ Increasing(arrival', buffer') /\ Increasing(arrival', blocked')
<1>1. /\ send[c] = "idle" /\ DrawTicket(c) /\ blocked' = Append(blocked, c)
      /\ UNCHANGED buffer
  BY DEF WriteBlocks, MaySend
<1>2. \A d \in Waiting : arrival'[d] < arrival'[c]
  BY <1>1, NewTicket, IdleFacts, QueueFacts DEF IInv
<1>3. ToSet(blocked') = ToSet(blocked) \cup {c} /\ Increasing(arrival', blocked')
  <2>1. blocked \in Seq(Cmds) /\ arrival' \in [Cmds -> Nat] /\ Increasing(arrival', blocked)
    BY <1>1, NewTicket DEF IInv, TypeOK
  <2>2. \A d \in ToSet(blocked) : arrival'[d] < arrival'[c]
    BY <1>2 DEF Waiting
  <2>3. QED
    BY <1>1, <2>1, <2>2, AppendOrder
<1>4. QED
  BY <1>1, <1>3, NewTicket DEF Queued, Waiting

\* A write in a drop mode replaces an earlier command of the buffer.
LEMMA EvictQueues ==
  ASSUME IInv, NEW c \in Cmds, WriteEvicts(c)
  PROVE  /\ Victim \in Queued
         /\ Queued' = (Queued \ {Victim}) \cup {c} /\ Waiting' = Waiting
         /\ Len(buffer') = Len(buffer)
         /\ Increasing(arrival', buffer') /\ Increasing(arrival', blocked')
<1>1. /\ send[c] = "idle" /\ DrawTicket(c) /\ buffer' = Append(Survivors, c)
      /\ UNCHANGED blocked /\ Full
  BY DEF WriteEvicts, EnterBuffer, MaySend
<1>2. buffer # <<>>
  BY <1>1, OptionsType, QueueFacts DEF Full, IInv, TypeOK
<1>3. arrival' \in [Cmds -> Nat] /\ Increasing(arrival', buffer) /\ buffer \in Seq(Cmds)
  BY <1>1, NewTicket DEF IInv, TypeOK
<1>4. /\ Survivors \in Seq(Cmds) /\ Len(Survivors) = Len(buffer) - 1
      /\ Victim \in Queued /\ ToSet(Survivors) = Queued \ {Victim}
      /\ Increasing(arrival', Survivors)
  BY <1>2, <1>3, TailOrder, FrontOrder DEF Survivors, Victim, Queued
<1>5. \A d \in ToSet(Survivors) : arrival'[d] < arrival'[c]
  BY <1>1, <1>4, NewTicket, IdleFacts, QueueFacts DEF IInv
<1>6. /\ Len(buffer') = Len(Survivors) + 1
      /\ ToSet(buffer') = ToSet(Survivors) \cup {c}
      /\ Increasing(arrival', buffer')
  BY <1>1, <1>3, <1>4, <1>5, AppendOrder
<1>7. Len(buffer) \in Nat
  BY QueueFacts DEF IInv
<1>8. QED
  BY <1>1, <1>4, <1>6, <1>7, NewTicket DEF Queued, Waiting

\* A cancellation takes one command out of the pending writes and nothing else.
LEMMA CancelQueues ==
  ASSUME IInv, NEW c \in Cmds, CancelBlocked(c)
  PROVE  /\ Queued' = Queued /\ Waiting' = Waiting \ {c}
         /\ Increasing(arrival', buffer') /\ Increasing(arrival', blocked')
<1>1. UNCHANGED <<buffer, arrival>>
  BY DEF CancelBlocked, Withdraw, tickets
<1>2. PICK i \in DOMAIN blocked : blocked[i] = c /\ blocked' = RemoveAt(blocked, i)
  BY DEF CancelBlocked, Withdraw
<1>3. i \in 1..Len(blocked)
  BY <1>2, LenProperties DEF IInv, TypeOK
<1>4. QED
  BY <1>1, <1>2, <1>3, RemoveAtOrder DEF IInv, TypeOK, TicketOrder, Queued, Waiting

\* A read removes the front and lets the oldest pending write in.
LEMMA ReadQueues ==
  ASSUME IInv, ReadCommand
  PROVE  /\ Head(buffer) \in Queued
         /\ \A d \in (Queued \ {Head(buffer)}) \cup Waiting : arrival[Head(buffer)] < arrival[d]
         /\ blocked = <<>> =>
              /\ Queued' = Queued \ {Head(buffer)} /\ Waiting' = Waiting
              /\ Len(buffer') = Len(buffer) - 1
         /\ blocked # <<>> =>
              /\ Head(blocked) \in Waiting
              /\ Queued' = (Queued \ {Head(buffer)}) \cup {Head(blocked)}
              /\ Waiting' = Waiting \ {Head(blocked)}
              /\ Len(buffer') = Len(buffer)
              /\ \A d \in Waiting' : arrival[Head(blocked)] < arrival[d]
         /\ Increasing(arrival', buffer') /\ Increasing(arrival', blocked')
<1>1. /\ buffer # <<>> /\ UNCHANGED arrival
      /\ blocked = <<>> => buffer' = Tail(buffer) /\ UNCHANGED blocked
      /\ blocked # <<>> => buffer' = Append(Tail(buffer), Head(blocked)) /\ blocked' = Tail(blocked)
  BY DEF ReadCommand, Take, tickets
<1>2. /\ arrival \in [Cmds -> Nat] /\ buffer \in Seq(Cmds) /\ blocked \in Seq(Cmds)
      /\ Increasing(arrival, buffer) /\ Increasing(arrival, blocked)
      /\ \A c \in Queued, d \in Waiting : arrival[c] < arrival[d]
      /\ Len(buffer) \in Nat
  BY QueueFacts DEF IInv, TypeOK, TicketOrder
<1>3. /\ Tail(buffer) \in Seq(Cmds) /\ Len(Tail(buffer)) = Len(buffer) - 1
      /\ Head(buffer) \in Queued
      /\ ToSet(Tail(buffer)) = Queued \ {Head(buffer)}
      /\ Increasing(arrival, Tail(buffer))
      /\ \A d \in ToSet(Tail(buffer)) : arrival[Head(buffer)] < arrival[d]
  BY <1>1, <1>2, TailOrder DEF Queued
<1>4. \A d \in (Queued \ {Head(buffer)}) \cup Waiting : arrival[Head(buffer)] < arrival[d]
  BY <1>2, <1>3
<1>5. CASE blocked = <<>>
  BY <1>1, <1>2, <1>3, <1>4, <1>5 DEF Queued, Waiting
<1>6. CASE blocked # <<>>
  <2>1. /\ Tail(blocked) \in Seq(Cmds) /\ Head(blocked) \in Waiting
        /\ ToSet(Tail(blocked)) = Waiting \ {Head(blocked)}
        /\ Increasing(arrival, Tail(blocked))
        /\ \A d \in ToSet(Tail(blocked)) : arrival[Head(blocked)] < arrival[d]
    BY <1>2, <1>6, TailOrder DEF Waiting
  <2>2. Head(blocked) \in Cmds /\ \A d \in ToSet(Tail(buffer)) : arrival[d] < arrival[Head(blocked)]
    BY <1>2, <1>3, <2>1, QueueFacts DEF IInv
  <2> DEFINE rest == Tail(buffer)
  <2> DEFINE next == Head(blocked)
  <2>3. /\ rest \in Seq(Cmds) /\ Increasing(arrival, rest) /\ next \in Cmds
        /\ \A d \in ToSet(rest) : arrival[d] < arrival[next]
    BY <1>3, <2>2
  <2> HIDE DEF rest, next
  <2>4. /\ Len(Append(rest, next)) = Len(rest) + 1
        /\ ToSet(Append(rest, next)) = ToSet(rest) \cup {next}
        /\ Increasing(arrival, Append(rest, next))
    BY <1>2, <2>3, AppendOrder
  <2>5. /\ buffer' = Append(rest, next)
        /\ Len(rest) = Len(buffer) - 1 /\ ToSet(rest) = Queued \ {Head(buffer)}
    BY <1>1, <1>3, <1>6 DEF rest, next
  <2>6. /\ Len(buffer') = Len(buffer)
        /\ Queued' = (Queued \ {Head(buffer)}) \cup {Head(blocked)}
        /\ Increasing(arrival', buffer')
    BY <1>1, <1>2, <2>4, <2>5 DEF Queued, next
  <2>7. Waiting' = Waiting \ {Head(blocked)} /\ Increasing(arrival', blocked')
    BY <1>1, <1>6, <2>1 DEF Waiting
  <2>8. \A d \in Waiting' : arrival[Head(blocked)] < arrival[d]
    BY <2>1, <2>7
  <2>9. QED
    BY <1>3, <1>4, <1>6, <2>1, <2>6, <2>7, <2>8
<1>7. QED
  BY <1>5, <1>6
-----------------------------------------------------------------------------
(* The steps, sorted by what they do to the commands.                       *)

\* The host's steps and the service's own leave commands and queues alone.
HostStep == StartService \/ WaitToRead \/ ReadNothing \/ Stop \/ Terminated

\* A send that ends before its command reaches the channel.
SendFails(c) == ResolveFails(c) \/ WriteCanceled(c) \/ WriteRefused(c)

\* The steps, sorted by what they do to the queues.
LEMMA StepCases ==
  ASSUME [Next]_vars
  PROVE  \/ HostStep \/ UNCHANGED vars \/ ReadCommand \/ CompleteWriter
         \/ \E c \in Cmds :
              \/ SendFails(c) \/ WriteEnqueues(c) \/ WriteBlocks(c) \/ WriteDropped(c)
              \/ WriteEvicts(c) \/ SendReturns(c) \/ ConsultExceptionHandlers(c)
              \/ CancelBlocked(c) \/ HandlerReturns(c)
  BY DEF Next, Write, SendGoesOn, Serve, HostStep, SendFails

\* The service between commands and the host leave commands and queues alone.
LEMMA HostStepFrame ==
  ASSUME HostStep \/ UNCHANGED vars
  PROVE  UNCHANGED <<options, buffer, blocked, send, fate, arrival, arrivals>>
  BY DEF HostStep, StartService, WaitToRead, ReadNothing, Stop, Terminated, vars,
         channel, tickets

\* A send that fails at once writes nothing.
LEMMA SendFailsFrame ==
  ASSUME NEW c \in Cmds, SendFails(c)
  PROVE  /\ send[c] = "idle"
         /\ \E r \in {"faulted", "canceled"} : send' = [send EXCEPT ![c] = r]
         /\ UNCHANGED <<options, buffer, blocked, writerDone, stopping, service, fate,
                        arrival, arrivals>>
  BY DEF SendFails, ResolveFails, WriteCanceled, WriteRefused, MaySend, Sent, channel, tickets

\* The end of a send changes neither the channel nor a handler.
LEMMA SendEndsFrame ==
  ASSUME NEW c \in Cmds, SendReturns(c) \/ ConsultExceptionHandlers(c)
  PROVE  /\ \/ /\ send[c] = "written"
               /\ \E r \in {"returned", "misreported"} : send' = [send EXCEPT ![c] = r]
            \/ /\ send[c] = "faulted"
               /\ \E r \in {"threw", "swallowed"} : send' = [send EXCEPT ![c] = r]
         /\ UNCHANGED <<options, buffer, blocked, writerDone, stopping, service, fate,
                        arrival, arrivals>>
  BY DEF SendReturns, ConsultExceptionHandlers, Sent, channel, tickets

\* The end of a handler changes neither the channel nor a send.
LEMMA HandlerReturnsFrame ==
  ASSUME NEW c \in Cmds, HandlerReturns(c)
  PROVE  /\ service = "handling" /\ fate[c] = "running"
         /\ \E r \in {"succeeded", "failed", "canceled"} : fate' = [fate EXCEPT ![c] = r]
         /\ service' \in {"draining", "canceled"}
         /\ UNCHANGED <<options, buffer, blocked, writerDone, stopping, send, arrival, arrivals>>
  BY DEF HandlerReturns, HandlerSucceeds, HandlerFails, HandlerCancels, HandlerEnds,
         channel, tickets

\* Every step keeps the queues and the states of the commands in agreement.
LEMMA PlacementStep ==
  ASSUME IInv, [Next]_vars
  PROVE  Placement'
<1> USE DEF IInv, TypeOK, Placement, Accepted
<1>0. Queued \subseteq Cmds /\ Waiting \subseteq Cmds
  BY QueueFacts
<1>1. CASE HostStep \/ UNCHANGED vars
  BY <1>1, HostStepFrame DEF Queued, Waiting
<1>2. CASE ReadCommand
  <2>1. /\ buffer # <<>> /\ fate' = [fate EXCEPT ![Head(buffer)] = "running"]
        /\ UNCHANGED options
        /\ blocked = <<>> => UNCHANGED send
        /\ blocked # <<>> => send' = [send EXCEPT ![Head(blocked)] = "written"]
    BY <1>2 DEF ReadCommand, Take, Sent
  <2>2. CASE blocked = <<>>
    <3>1. Queued' = Queued \ {Head(buffer)} /\ Waiting' = Waiting /\ Head(buffer) \in Queued
      BY <1>2, <2>2, ReadQueues
    <3>2. QED
      BY <1>0, <2>1, <2>2, <3>1
  <2>3. CASE blocked # <<>>
    <3>1. /\ Queued' = (Queued \ {Head(buffer)}) \cup {Head(blocked)}
          /\ Waiting' = Waiting \ {Head(blocked)}
          /\ Head(buffer) \in Queued /\ Head(blocked) \in Waiting
      BY <1>2, <2>3, ReadQueues
    <3>2. QED
      BY <1>0, <2>1, <2>3, <3>1
  <2>4. QED
    BY <2>2, <2>3
<1>3. CASE CompleteWriter
  <2>1. /\ blocked' = <<>> /\ UNCHANGED <<options, buffer, fate>>
        /\ send' = [c \in Cmds |-> IF send[c] = "blocked" THEN "faulted" ELSE send[c]]
    BY <1>3 DEF CompleteWriter
  <2>2. Queued' = Queued /\ Waiting' = {}
    BY <2>1 DEF Queued, Waiting, ToSet
  <2>3. QED
    BY <2>1, <2>2
<1>4. ASSUME NEW c \in Cmds, SendFails(c)
      PROVE  Placement'
  <2>1. Queued' = Queued /\ Waiting' = Waiting
    BY <1>4, SendFailsFrame DEF Queued, Waiting
  <2>2. QED
    BY <1>4, <2>1, SendFailsFrame, IdleFacts
<1>5. ASSUME NEW c \in Cmds, WriteEnqueues(c)
      PROVE  Placement'
  <2>1. send[c] = "idle" /\ send' = [send EXCEPT ![c] = "written"] /\ UNCHANGED <<options, fate>>
    BY <1>5 DEF WriteEnqueues, EnterBuffer, MaySend, Sent
  <2>2. QED
    BY <1>5, <2>1, EnqueueQueues, IdleFacts
<1>6. ASSUME NEW c \in Cmds, WriteBlocks(c)
      PROVE  Placement'
  <2>1. send[c] = "idle" /\ send' = [send EXCEPT ![c] = "blocked"] /\ UNCHANGED <<options, fate>>
    BY <1>6 DEF WriteBlocks, MaySend, Sent
  <2>2. QED
    BY <1>6, <2>1, BlockQueues, IdleFacts
<1>7. ASSUME NEW c \in Cmds, WriteDropped(c)
      PROVE  Placement'
  <2>1. /\ send[c] = "idle" /\ send' = [send EXCEPT ![c] = "written"]
        /\ fate' = [fate EXCEPT ![c] = "dropped"]
        /\ options.FullMode \in DropModes /\ UNCHANGED <<options, buffer, blocked>>
    BY <1>7 DEF WriteDropped, MaySend, Sent, channel, DropModes
  <2>2. Queued' = Queued /\ Waiting' = Waiting
    BY <2>1 DEF Queued, Waiting
  <2>3. QED
    BY <2>1, <2>2, IdleFacts
<1>8. ASSUME NEW c \in Cmds, WriteEvicts(c)
      PROVE  Placement'
  <2>1. /\ send[c] = "idle" /\ send' = [send EXCEPT ![c] = "written"]
        /\ fate' = [fate EXCEPT ![Victim] = "dropped"]
        /\ options.FullMode \in DropModes /\ UNCHANGED options
    BY <1>8 DEF WriteEvicts, EnterBuffer, MaySend, Sent, DropModes
  <2>2. /\ Victim \in Queued
        /\ Queued' = (Queued \ {Victim}) \cup {c} /\ Waiting' = Waiting
    BY <1>8, EvictQueues
  <2>3. QED
    BY <1>0, <2>1, <2>2, IdleFacts
<1>9. ASSUME NEW c \in Cmds, SendReturns(c) \/ ConsultExceptionHandlers(c)
      PROVE  Placement'
  <2>1. Queued' = Queued /\ Waiting' = Waiting
    BY <1>9, SendEndsFrame DEF Queued, Waiting
  <2>2. QED
    BY <1>9, <2>1, SendEndsFrame
<1>10. ASSUME NEW c \in Cmds, CancelBlocked(c)
       PROVE  Placement'
  <2>1. /\ send[c] = "blocked" /\ send' = [send EXCEPT ![c] = "canceled"]
        /\ UNCHANGED <<options, fate>>
    BY <1>10 DEF CancelBlocked, Withdraw, Sent
  <2>2. QED
    BY <1>10, <2>1, CancelQueues
<1>11. ASSUME NEW c \in Cmds, HandlerReturns(c)
       PROVE  Placement'
  <2>1. Queued' = Queued /\ Waiting' = Waiting
    BY <1>11, HandlerReturnsFrame DEF Queued, Waiting
  <2>2. QED
    BY <1>11, <2>1, HandlerReturnsFrame
<1>12. QED
  BY <1>1, <1>2, <1>3, <1>4, <1>5, <1>6, <1>7, <1>8, <1>9, <1>10, <1>11, StepCases

\* A step that leaves tickets alone, queues nothing new and starts nothing keeps
\* the order.
LEMMA SameTickets ==
  ASSUME IInv, UNCHANGED <<arrival, arrivals>>,
         Queued' \subseteq Queued, Waiting' \subseteq Waiting,
         Increasing(arrival', buffer'), Increasing(arrival', blocked'),
         \A d \in Cmds : Started(d)' => Started(d)
  PROVE  TicketOrder'
  BY DEF IInv, TicketOrder, NoOvertaking

\* A step that queues c with a new ticket keeps the order if it starts nothing.
LEMMA LastTicket ==
  ASSUME IInv, NEW c \in Cmds, send[c] = "idle", DrawTicket(c),
         \/ Queued' \subseteq Queued \cup {c} /\ Waiting' = {}
         \/ Queued' \subseteq Queued /\ Waiting' \subseteq Waiting \cup {c},
         Increasing(arrival', buffer'), Increasing(arrival', blocked'),
         \A d \in Cmds : Started(d)' => Started(d)
  PROVE  TicketOrder'
<1>1. /\ \A d \in Cmds : d # c => arrival'[d] = arrival[d] /\ arrival'[d] < arrival'[c]
      /\ \A d \in Cmds : arrival'[d] <= arrivals'
  BY NewTicket
<1>2. ~Started(c) /\ c \notin Queued /\ c \notin Waiting /\ Queued \subseteq Cmds /\ Waiting \subseteq Cmds
  BY IdleFacts, QueueFacts DEF IInv
<1>3. /\ \A d \in Queued, e \in Waiting : arrival[d] < arrival[e]
      /\ \A d, e \in Cmds : Started(d) /\ e \in Queued \cup Waiting => arrival[d] < arrival[e]
  BY DEF IInv, TicketOrder, NoOvertaking
<1>4. \A d \in Queued', e \in Waiting' : arrival'[d] < arrival'[e]
  BY <1>1, <1>2, <1>3
<1>5. \A d, e \in Cmds : Started(d)' /\ e \in Queued' \cup Waiting' => arrival'[d] < arrival'[e]
  BY <1>1, <1>2, <1>3
<1>6. QED
  BY <1>1, <1>4, <1>5 DEF TicketOrder, NoOvertaking

\* Every step keeps the tickets in order.
LEMMA TicketStep ==
  ASSUME IInv, [Next]_vars
  PROVE  TicketOrder'
<1>0. /\ Increasing(arrival, buffer) /\ Increasing(arrival, blocked)
      /\ blocked = <<>> <=> Waiting = {}
      /\ Queued \subseteq Cmds /\ Waiting \subseteq Cmds
  BY QueueFacts DEF IInv, TicketOrder
<1>1. CASE HostStep \/ UNCHANGED vars
  BY <1>0, <1>1, HostStepFrame, SameTickets DEF Queued, Waiting, Started
<1>2. CASE ReadCommand
  <2> DEFINE h == Head(buffer)
  <2>1. /\ h \in Queued /\ h \in Cmds
        /\ UNCHANGED <<arrival, arrivals>>
        /\ fate' = [fate EXCEPT ![h] = "running"]
        /\ \A d \in (Queued \ {h}) \cup Waiting : arrival[h] < arrival[d]
        /\ Increasing(arrival', buffer') /\ Increasing(arrival', blocked')
    BY <1>0, <1>2, ReadQueues DEF ReadCommand, Take, tickets
  <2>2. /\ Queued' \cup Waiting' \subseteq (Queued \ {h}) \cup Waiting
        /\ \A d \in Queued', e \in Waiting' : arrival[d] < arrival[e]
    <3>1. \A d \in Queued, e \in Waiting : arrival[d] < arrival[e]
      BY DEF IInv, TicketOrder
    <3>2. CASE blocked = <<>>
      <4>1. Queued' = Queued \ {h} /\ Waiting' = Waiting
        BY <1>2, <3>2, ReadQueues
      <4>2. QED
        BY <3>1, <4>1
    <3>3. CASE blocked # <<>>
      <4>1. /\ Head(blocked) \in Waiting
            /\ Queued' = (Queued \ {h}) \cup {Head(blocked)}
            /\ Waiting' = Waiting \ {Head(blocked)}
            /\ \A d \in Waiting' : arrival[Head(blocked)] < arrival[d]
        BY <1>2, <3>3, ReadQueues
      <4> HIDE DEF h
      <4>2. h \notin Waiting
        BY <2>1 DEF IInv, Placement, Accepted
      <4>3. QED
        BY <3>1, <4>1, <4>2
    <3>4. QED
      BY <3>2, <3>3
  <2> HIDE DEF h
  <2>3. \A d \in Cmds : Started(d)' => Started(d) \/ d = h
    BY <2>1 DEF Started, IInv, TypeOK
  <2>4. \A d, e \in Cmds : Started(d) /\ e \in Queued \cup Waiting => arrival[d] < arrival[e]
    BY DEF IInv, TicketOrder, NoOvertaking
  <2>5. \A d, e \in Cmds : Started(d)' /\ e \in Queued' \cup Waiting' => arrival'[d] < arrival'[e]
    BY <2>1, <2>2, <2>3, <2>4
  <2>6. QED
    BY <2>1, <2>2, <2>5 DEF TicketOrder, NoOvertaking, IInv
<1>3. CASE CompleteWriter
  <2>1. blocked' = <<>> /\ UNCHANGED <<buffer, fate, arrival, arrivals>>
    BY <1>3 DEF CompleteWriter, tickets
  <2>2. Queued' = Queued /\ Waiting' = {} /\ Increasing(arrival', blocked')
    BY <2>1 DEF Queued, Waiting, ToSet, Increasing
  <2>3. QED
    BY <1>0, <2>1, <2>2, SameTickets DEF Started
<1>4. ASSUME NEW c \in Cmds, SendFails(c)
      PROVE  TicketOrder'
  BY <1>0, <1>4, SendFailsFrame, SameTickets DEF Queued, Waiting, Started
<1>5. ASSUME NEW c \in Cmds, WriteEnqueues(c)
      PROVE  TicketOrder'
  <2>1. /\ send[c] = "idle" /\ DrawTicket(c) /\ UNCHANGED fate /\ ~Full
    BY <1>5 DEF WriteEnqueues, EnterBuffer, MaySend
  <2>2. Waiting = {}
    BY <1>0, <2>1, OptionsType DEF IInv, TypeOK, NoLostWakeup, Full
  <2>3. QED
    BY <1>5, <2>1, <2>2, EnqueueQueues, LastTicket DEF Started
<1>6. ASSUME NEW c \in Cmds, WriteBlocks(c)
      PROVE  TicketOrder'
  <2>1. send[c] = "idle" /\ DrawTicket(c) /\ UNCHANGED fate
    BY <1>6 DEF WriteBlocks, MaySend
  <2>2. QED
    BY <1>6, <2>1, BlockQueues, LastTicket DEF Started
<1>7. ASSUME NEW c \in Cmds, WriteDropped(c)
      PROVE  TicketOrder'
  <2>1. /\ fate' = [fate EXCEPT ![c] = "dropped"]
        /\ UNCHANGED <<buffer, blocked, arrival, arrivals>>
    BY <1>7 DEF WriteDropped, channel, tickets
  <2>2. \A d \in Cmds : Started(d)' => Started(d)
    BY <2>1 DEF Started, IInv, TypeOK
  <2>3. Queued' = Queued /\ Waiting' = Waiting
    BY <2>1 DEF Queued, Waiting
  <2>4. QED
    BY <1>0, <2>1, <2>2, <2>3, SameTickets
<1>8. ASSUME NEW c \in Cmds, WriteEvicts(c)
      PROVE  TicketOrder'
  <2>1. /\ send[c] = "idle" /\ DrawTicket(c)
        /\ fate' = [fate EXCEPT ![Victim] = "dropped"]
        /\ options.FullMode \in {"DropOldest", "DropNewest"}
    BY <1>8 DEF WriteEvicts, EnterBuffer, MaySend
  <2>2. \A d \in Cmds : Started(d)' => Started(d)
    BY <2>1 DEF Started, IInv, TypeOK
  <2>3. Waiting = {}
    BY <1>0, <2>1 DEF IInv, NoLostWakeup
  <2>4. QED
    BY <1>8, <2>1, <2>2, <2>3, EvictQueues, LastTicket
<1>9. ASSUME NEW c \in Cmds, SendReturns(c) \/ ConsultExceptionHandlers(c)
      PROVE  TicketOrder'
  BY <1>0, <1>9, SendEndsFrame, SameTickets DEF Queued, Waiting, Started
<1>10. ASSUME NEW c \in Cmds, CancelBlocked(c)
       PROVE  TicketOrder'
  <2>1. UNCHANGED <<fate, arrival, arrivals>>
    BY <1>10 DEF CancelBlocked, Withdraw, tickets
  <2>2. QED
    BY <1>10, <2>1, CancelQueues, SameTickets DEF Started
<1>11. ASSUME NEW c \in Cmds, HandlerReturns(c)
       PROVE  TicketOrder'
  <2>1. \A d \in Cmds : Started(d)' => Started(d)
    BY <1>11, HandlerReturnsFrame DEF Started, IInv, TypeOK
  <2>2. QED
    BY <1>0, <1>11, <2>1, HandlerReturnsFrame, SameTickets DEF Queued, Waiting
<1>12. QED
  BY <1>1, <1>2, <1>3, <1>4, <1>5, <1>6, <1>7, <1>8, <1>9, <1>10, <1>11, StepCases
-----------------------------------------------------------------------------

\* Every step keeps what NoLostWakeup says.
LEMMA WakeupStep ==
  ASSUME IInv, [Next]_vars
  PROVE  NoLostWakeup'
<1>0. /\ options.Capacity \in Nat \ {0} /\ Len(buffer) \in Nat
      /\ buffer = <<>> <=> Len(buffer) = 0
      /\ blocked # <<>> => options.FullMode = "Wait" /\ ~writerDone /\ Len(buffer) = options.Capacity
      /\ service = "parked" => buffer = <<>> /\ blocked = <<>> /\ ~stopping /\ ~writerDone
      /\ options.FullMode # "Unbounded" => Len(buffer) <= options.Capacity
  BY OptionsType, QueueFacts DEF IInv, TypeOK, NoLostWakeup
<1>1. CASE HostStep \/ UNCHANGED vars
  <2>1. UNCHANGED <<options, buffer, blocked, writerDone>>
    BY <1>1 DEF HostStep, StartService, WaitToRead, ReadNothing, Stop, Terminated, vars, channel
  <2>2. service' = "parked" => buffer = <<>> /\ ~stopping' /\ ~writerDone
    BY <1>0, <1>1 DEF HostStep, StartService, WaitToRead, ReadNothing, Stop, Terminated, vars
  <2>3. QED
    BY <1>0, <2>1, <2>2 DEF NoLostWakeup
<1>2. CASE ReadCommand
  <2>1. service' = "handling" /\ UNCHANGED <<options, writerDone>> /\ buffer # <<>>
    BY <1>2 DEF ReadCommand, Take
  <2>2. CASE blocked = <<>>
    <3>1. blocked' = <<>> /\ Len(buffer') = Len(buffer) - 1
      BY <1>2, <2>2, ReadQueues DEF ReadCommand, Take
    <3>2. QED
      BY <1>0, <2>1, <3>1 DEF NoLostWakeup
  <2>3. CASE blocked # <<>>
    <3>1. Len(buffer') = Len(buffer)
      BY <1>2, <2>3, ReadQueues
    <3>2. QED
      BY <1>0, <2>1, <2>3, <3>1 DEF NoLostWakeup
  <2>4. QED
    BY <2>2, <2>3
<1>3. CASE CompleteWriter
  BY <1>0, <1>3 DEF CompleteWriter, NoLostWakeup
<1>4. ASSUME NEW c \in Cmds, SendFails(c)
      PROVE  NoLostWakeup'
  BY <1>0, <1>4, SendFailsFrame DEF NoLostWakeup
<1>5. ASSUME NEW c \in Cmds, WriteEnqueues(c)
      PROVE  NoLostWakeup'
  <2>1. /\ ~Full /\ UNCHANGED <<options, blocked, writerDone, stopping>> /\ service' # "parked"
        /\ Len(buffer') = Len(buffer) + 1
    BY <1>5, EnqueueQueues DEF WriteEnqueues, EnterBuffer, Wake
  <2>2. QED
    BY <1>0, <2>1 DEF Full, NoLostWakeup
<1>6. ASSUME NEW c \in Cmds, WriteBlocks(c)
      PROVE  NoLostWakeup'
  <2>1. /\ Full /\ options.FullMode = "Wait" /\ ~writerDone
        /\ UNCHANGED <<options, buffer, writerDone, stopping, service>>
    BY <1>6 DEF WriteBlocks
  <2>2. Len(buffer) = options.Capacity /\ service # "parked"
    BY <1>0, <2>1 DEF Full
  <2>3. QED
    BY <1>0, <2>1, <2>2 DEF NoLostWakeup
<1>7. ASSUME NEW c \in Cmds, WriteDropped(c)
      PROVE  NoLostWakeup'
  BY <1>0, <1>7 DEF WriteDropped, channel, NoLostWakeup
<1>8. ASSUME NEW c \in Cmds, WriteEvicts(c)
      PROVE  NoLostWakeup'
  <2>1. /\ Full /\ Len(buffer') = Len(buffer)
        /\ UNCHANGED <<options, blocked, writerDone, stopping, service>>
    BY <1>8, EvictQueues DEF WriteEvicts, EnterBuffer
  <2>2. service # "parked"
    BY <1>0, <2>1 DEF Full
  <2>3. QED
    BY <1>0, <2>1, <2>2 DEF NoLostWakeup
<1>9. ASSUME NEW c \in Cmds, SendReturns(c) \/ ConsultExceptionHandlers(c)
      PROVE  NoLostWakeup'
  BY <1>0, <1>9, SendEndsFrame DEF NoLostWakeup
<1>10. ASSUME NEW c \in Cmds, CancelBlocked(c)
       PROVE  NoLostWakeup'
  <2>1. /\ UNCHANGED <<options, buffer, writerDone, stopping, service>>
        /\ blocked # <<>>
    BY <1>10, LenProperties, EmptySeq DEF CancelBlocked, Withdraw, IInv, TypeOK
  <2>2. QED
    BY <1>0, <2>1 DEF NoLostWakeup
<1>11. ASSUME NEW c \in Cmds, HandlerReturns(c)
       PROVE  NoLostWakeup'
  BY <1>0, <1>11, HandlerReturnsFrame DEF NoLostWakeup
<1>12. QED
  BY <1>1, <1>2, <1>3, <1>4, <1>5, <1>6, <1>7, <1>8, <1>9, <1>10, <1>11, StepCases

\* Every step keeps the handlers apart.
LEMMA OneAtATimeStep ==
  ASSUME IInv, [Next]_vars
  PROVE  OneAtATime'
<1>0. /\ fate \in [Cmds -> Fates]
      /\ \A c, d \in Cmds : fate[c] = "running" /\ fate[d] = "running" => c = d
      /\ service = "handling" <=> \E c \in Cmds : fate[c] = "running"
  BY DEF IInv, TypeOK, OneAtATime
<1>1. CASE HostStep \/ UNCHANGED vars
  <2>1. /\ UNCHANGED fate
        /\ service' = "handling" <=> service = "handling"
    BY <1>1 DEF HostStep, StartService, WaitToRead, ReadNothing, Stop, Terminated, vars
  <2>2. QED
    BY <1>0, <2>1 DEF OneAtATime
<1>2. CASE ReadCommand
  <2>1. Head(buffer) \in Cmds
    BY <1>2, ReadQueues, QueueFacts DEF IInv
  <2>2. /\ service = "draining" /\ service' = "handling"
        /\ fate' = [fate EXCEPT ![Head(buffer)] = "running"]
    BY <1>2 DEF ReadCommand, Take
  <2>3. QED
    BY <1>0, <2>1, <2>2 DEF OneAtATime
<1>3. CASE CompleteWriter
  <2>1. UNCHANGED fate /\ (service' = "handling" <=> service = "handling")
    BY <1>3 DEF CompleteWriter
  <2>2. QED
    BY <1>0, <2>1 DEF OneAtATime
<1>4. ASSUME NEW c \in Cmds,
             \/ SendFails(c) \/ WriteEnqueues(c) \/ WriteBlocks(c) \/ SendReturns(c)
             \/ ConsultExceptionHandlers(c) \/ CancelBlocked(c)
      PROVE  OneAtATime'
  <2>1. UNCHANGED fate /\ (service' = "handling" <=> service = "handling")
    BY <1>4, SendFailsFrame, SendEndsFrame DEF WriteEnqueues, EnterBuffer, WriteBlocks, CancelBlocked, Withdraw, Wake
  <2>2. QED
    BY <1>0, <2>1 DEF OneAtATime
<1>5. ASSUME NEW c \in Cmds, WriteDropped(c) \/ WriteEvicts(c)
      PROVE  OneAtATime'
  <2>1. PICK v \in Cmds : fate' = [fate EXCEPT ![v] = "dropped"] /\ fate[v] = "none"
    <3>1. CASE WriteDropped(c)
      BY <3>1, IdleFacts DEF WriteDropped, MaySend, IInv
    <3>2. CASE WriteEvicts(c)
      BY <3>2, EvictQueues, QueueFacts DEF WriteEvicts, EnterBuffer, IInv, Placement
    <3>3. QED
      BY <1>5, <3>1, <3>2
  <2>2. UNCHANGED service
    BY <1>5 DEF WriteDropped, WriteEvicts, EnterBuffer
  <2>3. QED
    BY <1>0, <2>1, <2>2 DEF OneAtATime
<1>6. ASSUME NEW c \in Cmds, HandlerReturns(c)
      PROVE  OneAtATime'
  <2>1. PICK r \in {"succeeded", "failed", "canceled"} : fate' = [fate EXCEPT ![c] = r]
    BY <1>6, HandlerReturnsFrame
  <2>2. service' # "handling" /\ fate[c] = "running"
    BY <1>6, HandlerReturnsFrame
  <2>3. QED
    BY <1>0, <2>1, <2>2 DEF OneAtATime
<1>7. QED
  BY <1>1, <1>2, <1>3, <1>4, <1>5, <1>6, StepCases

\* Every step keeps a completed service drained.
LEMMA CompletionStep ==
  ASSUME IInv, [Next]_vars
  PROVE  CompletionDrains'
<1>0. /\ service = "completed" => writerDone /\ buffer = <<>> /\ blocked = <<>>
      /\ service = "parked" => buffer = <<>>
      /\ blocked # <<>> => ~writerDone
  BY DEF IInv, CompletionDrains, NoLostWakeup
<1>1. CASE HostStep \/ UNCHANGED vars
  BY <1>0, <1>1 DEF HostStep, StartService, WaitToRead, ReadNothing, Stop, Terminated, vars,
                    channel, CompletionDrains
<1>2. CASE ReadCommand
  BY <1>2 DEF ReadCommand, Take, CompletionDrains
<1>3. CASE CompleteWriter
  BY <1>0, <1>3 DEF CompleteWriter, CompletionDrains
<1>4. ASSUME NEW c \in Cmds, SendFails(c) \/ SendReturns(c) \/ ConsultExceptionHandlers(c)
      PROVE  CompletionDrains'
  BY <1>0, <1>4, SendFailsFrame, SendEndsFrame DEF CompletionDrains
<1>5. ASSUME NEW c \in Cmds,
             WriteEnqueues(c) \/ WriteBlocks(c) \/ WriteDropped(c) \/ WriteEvicts(c)
      PROVE  CompletionDrains'
  <2>1. ~writerDone /\ (service' = "completed" => service = "completed")
    BY <1>5 DEF WriteEnqueues, EnterBuffer, WriteBlocks, WriteDropped, WriteEvicts, Wake
  <2>2. QED
    BY <1>0, <2>1 DEF CompletionDrains
<1>6. ASSUME NEW c \in Cmds, CancelBlocked(c)
      PROVE  CompletionDrains'
  <2>1. UNCHANGED service /\ blocked # <<>>
    BY <1>6, LenProperties, EmptySeq DEF CancelBlocked, Withdraw, IInv, TypeOK
  <2>2. QED
    BY <1>0, <2>1 DEF CompletionDrains
<1>7. ASSUME NEW c \in Cmds, HandlerReturns(c)
      PROVE  CompletionDrains'
  BY <1>7, HandlerReturnsFrame DEF CompletionDrains
<1>8. QED
  BY <1>1, <1>2, <1>3, <1>4, <1>5, <1>6, <1>7, StepCases
-----------------------------------------------------------------------------

\* The invariant holds when the application is built.
LEMMA InvInit == Init => IInv
<1> SUFFICES ASSUME Init PROVE IInv
  OBVIOUS
<1>1. TypeOK
  BY TypeInit
<1>2. /\ buffer = <<>> /\ blocked = <<>> /\ service = "off"
      /\ \A c \in Cmds : send[c] = "idle" /\ fate[c] = "none" /\ arrival[c] = 0
      /\ arrivals = 0
  BY DEF Init
<1>3. Queued = {} /\ Waiting = {} /\ Increasing(arrival, buffer) /\ Increasing(arrival, blocked)
  BY <1>2, EmptySeq DEF Queued, Waiting, ToSet, Increasing
<1>4. NoLostWakeup
  BY <1>1, <1>2, OptionsType DEF NoLostWakeup, TypeOK
<1>5. OneAtATime /\ CompletionDrains
  BY <1>2 DEF OneAtATime, CompletionDrains
<1>6. Placement
  BY <1>2, <1>3 DEF Placement, Accepted
<1>7. TicketOrder
  BY <1>2, <1>3 DEF TicketOrder, NoOvertaking
<1>8. QED
  BY <1>1, <1>4, <1>5, <1>6, <1>7 DEF IInv

\* Every step keeps the invariant.
LEMMA InvStep == IInv /\ [Next]_vars => IInv'
<1> SUFFICES ASSUME IInv, [Next]_vars PROVE IInv'
  OBVIOUS
<1>1. TypeOK'
  BY TypeStep DEF IInv
<1>2. QED
  BY <1>1, WakeupStep, OneAtATimeStep, CompletionStep, PlacementStep, TicketStep DEF IInv

\* The inductive invariant holds in every reachable state.
THEOREM Invariance == Spec => []IInv
<1>1. QED
  BY InvInit, InvStep, PTL DEF Spec

\* Commands start in their order of arrival, whatever the channel and however
\* many senders: FIFO through pending writes, evictions and cancellations.
THEOREM StartsInOrder == Spec => []NoOvertaking
<1>1. IInv => NoOvertaking
  BY DEF IInv, TicketOrder
<1>2. QED
  BY <1>1, Invariance, PTL

\* No writer and no reader sleeps through what it waits for.
THEOREM WakeupsAreNotLost == Spec => []NoLostWakeup
<1>1. IInv => NoLostWakeup
  BY DEF IInv
<1>2. QED
  BY <1>1, Invariance, PTL

\* Background handlers never overlap.
THEOREM HandlersNeverOverlap == Spec => []OneAtATime
<1>1. IInv => OneAtATime
  BY DEF IInv
<1>2. QED
  BY <1>1, Invariance, PTL

\* A refused or withdrawn command is not in the channel and is never handled.
THEOREM RefusedStaysOut == Spec => []RefusedNeverRuns
<1>1. IInv => RefusedNeverRuns
  BY DEF IInv, TypeOK, Placement, RefusedNeverRuns, Refused, Accepted
<1>2. QED
  BY <1>1, Invariance, PTL

\* An accepted command is queued, handled, or dropped by a channel set to drop.
THEOREM AcceptedIsKept == Spec => []NothingLost
<1>1. IInv => NothingLost
  BY DEF IInv, TypeOK, Placement, CompletionDrains, NothingLost, Started, DropModes, Queued, ToSet
<1>2. QED
  BY <1>1, Invariance, PTL

\* No step changes the outcome of a command that was handled or dropped.
LEMMA OutcomesStay ==
  ASSUME IInv, [Next]_vars
  PROVE  \A c \in Cmds : fate[c] \notin {"none", "running"} => fate'[c] = fate[c]
<1> DEFINE Once == \A c \in Cmds : fate[c] \notin {"none", "running"} => fate'[c] = fate[c]
<1>0. fate \in [Cmds -> Fates]
  BY DEF IInv, TypeOK
<1>1. CASE HostStep \/ UNCHANGED vars
  BY <1>1, HostStepFrame
<1>2. CASE ReadCommand
  <2>1. fate[Head(buffer)] = "none" /\ fate' = [fate EXCEPT ![Head(buffer)] = "running"]
    BY <1>2, ReadQueues DEF ReadCommand, Take, IInv, Placement
  <2>2. QED
    BY <1>0, <2>1
<1>3. CASE CompleteWriter
  BY <1>3 DEF CompleteWriter
<1>4. ASSUME NEW c \in Cmds,
             \/ SendFails(c) \/ WriteEnqueues(c) \/ WriteBlocks(c) \/ SendReturns(c)
             \/ ConsultExceptionHandlers(c) \/ CancelBlocked(c)
      PROVE  Once
  BY <1>4, SendFailsFrame, SendEndsFrame DEF WriteEnqueues, EnterBuffer, WriteBlocks, CancelBlocked, Withdraw
<1>5. ASSUME NEW c \in Cmds, WriteDropped(c)
      PROVE  Once
  BY <1>0, <1>5, IdleFacts DEF WriteDropped, MaySend, IInv
<1>6. ASSUME NEW c \in Cmds, WriteEvicts(c)
      PROVE  Once
  <2>1. fate[Victim] = "none" /\ fate' = [fate EXCEPT ![Victim] = "dropped"]
    BY <1>6, EvictQueues DEF WriteEvicts, EnterBuffer, IInv, Placement
  <2>2. QED
    BY <1>0, <2>1
<1>7. ASSUME NEW c \in Cmds, HandlerReturns(c)
      PROVE  Once
  <2>1. fate[c] = "running" /\ \E r \in Fates : fate' = [fate EXCEPT ![c] = r]
    BY <1>7, HandlerReturnsFrame DEF Fates
  <2>2. QED
    BY <1>0, <2>1
<1>8. QED
  BY <1>1, <1>2, <1>3, <1>4, <1>5, <1>6, <1>7, StepCases

\* The handler of a command runs at most once.
THEOREM AtMostOnce == Spec => RunsAtMostOnce
<1> DEFINE Once == \A c \in Cmds : fate[c] \notin {"none", "running"} => fate'[c] = fate[c]
<1>1. IInv /\ [Next]_vars => [Once]_vars
  BY OutcomesStay
<1>2. QED
  BY <1>1, Invariance, PTL DEF Spec, RunsAtMostOnce

\* The processor ends by cancellation only when the host stops, or when a handler that
\* may throw a cancellation of its own has been run and has thrown it.
CanceledByOne == \E c \in SelfCanceling : fate[c] = "canceled"
CancellationHasACause == service = "canceled" => stopping \/ CanceledByOne

\* Nothing but the host's stop and such a handler ends the processor early, whatever
\* else senders, handlers and the channel do.
THEOREM CancellationIsCaused == Spec => []CancellationHasACause
<1>1. Init => CancellationHasACause
  BY DEF Init, CancellationHasACause
<1>2. IInv /\ CancellationHasACause /\ [Next]_vars => CancellationHasACause'
  <2> SUFFICES ASSUME IInv, CancellationHasACause, [Next]_vars PROVE CancellationHasACause'
    OBVIOUS
  <2>0. CanceledByOne => CanceledByOne'
    BY OutcomesStay, CancelAssumption DEF CanceledByOne
  <2>1. CASE HostStep \/ UNCHANGED vars
    BY <2>0, <2>1 DEF HostStep, StartService, WaitToRead, ReadNothing, Stop, Terminated, vars,
                CancellationHasACause
  <2>2. CASE ReadCommand \/ CompleteWriter
    BY <2>0, <2>2 DEF ReadCommand, Take, CompleteWriter, CancellationHasACause
  <2>3. ASSUME NEW c \in Cmds,
               \/ SendFails(c) \/ WriteEnqueues(c) \/ WriteBlocks(c) \/ WriteDropped(c)
               \/ WriteEvicts(c) \/ SendReturns(c) \/ ConsultExceptionHandlers(c)
               \/ CancelBlocked(c)
        PROVE  CancellationHasACause'
    BY <2>0, <2>3, SendFailsFrame, SendEndsFrame
       DEF WriteEnqueues, EnterBuffer, WriteBlocks, WriteDropped, WriteEvicts, CancelBlocked, Withdraw, Wake,
           CancellationHasACause
  <2>4. ASSUME NEW c \in Cmds, HandlerReturns(c)
        PROVE  CancellationHasACause'
    <3>1. CASE HandlerSucceeds(c) \/ HandlerFails(c)
      BY <3>1 DEF HandlerSucceeds, HandlerFails, HandlerEnds, CancellationHasACause
    <3>2. CASE HandlerCancels(c)
      <4>1. fate'[c] = "canceled" /\ stopping' = stopping /\ (stopping \/ c \in SelfCanceling)
        BY <3>2 DEF HandlerCancels, HandlerEnds, IInv, TypeOK
      <4>2. QED
        BY <4>1 DEF CancellationHasACause, CanceledByOne
    <3>3. QED
      BY <2>4, <3>1, <3>2 DEF HandlerReturns
  <2>5. QED
    BY <2>1, <2>2, <2>3, <2>4, StepCases
<1>3. QED
  BY <1>1, <1>2, Invariance, PTL DEF Spec

\* If no handler throws a cancellation of its own, only stopping the host ends
\* the processor early.
THEOREM OnlyStopCancels ==
  ASSUME SelfCanceling = {}
  PROVE  Spec => []ProcessorSurvives
<1>1. CancellationHasACause => ProcessorSurvives
  BY DEF CancellationHasACause, CanceledByOne, ProcessorSurvives
<1>2. QED
  BY <1>1, CancellationIsCaused, PTL
=============================================================================
