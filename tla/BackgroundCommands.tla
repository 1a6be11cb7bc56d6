------------------------- MODULE BackgroundCommands -------------------------
(***************************************************************************)
(* The background path of a command: senders that use BackgroundStrategy    *)
(* (BackgroundStrategy.cs) put commands on the channel that                 *)
(* AddBackgroundCommandProcessing registers, and the hosted service         *)
(* CommandsBackgroundService reads that channel and runs one handler at a   *)
(* time.  The channel itself is System.Threading.Channels: it is modelled   *)
(* from the calls the code makes on it.                                     *)
(*                                                                          *)
(* A command is sent once.  Its handler either belongs to the application   *)
(* (Spawner[c] = NoCmd) or is sent, and awaited, by the handler of another  *)
(* background command, which then passes on the token the service gave it.  *)
(***************************************************************************)
EXTENDS Integers, Sequences, FiniteSets, SequencesExt

CONSTANTS
  Cmds,            \* the commands that may be sent
  NoCmd,           \* no command: the sender is the application
  Configurations,  \* the channel configurations to consider
  Spawner,         \* the command whose handler sends a command, or NoCmd
  SelfCanceling,   \* commands whose handler may throw a cancellation of its own
  FailsLate        \* commands with a middleware that may fail behind the write

ChannelModes == {"Unbounded", "Wait", "DropWrite", "DropOldest", "DropNewest"}

\* BoundedChannelOptions as configureChannel leaves it (the capacity of an
\* unbounded channel means nothing).
ASSUME ConfigurationsAssumption ==
  Configurations \subseteq [FullMode : ChannelModes, Capacity : Nat \ {0}]
ASSUME SpawnerAssumption == NoCmd \notin Cmds /\ Spawner \in [Cmds -> Cmds \cup {NoCmd}]
ASSUME CancelAssumption == SelfCanceling \subseteq Cmds
ASSUME FailsLateAssumption == FailsLate \subseteq Cmds

VARIABLES
  options,       \* how the channel was created; never changes
  buffer,        \* commands in the channel, oldest first
  blocked,       \* writers waiting for room (Wait mode), oldest first
  writerDone,    \* Writer.Complete was called
  stopping,      \* the host canceled stoppingToken
  service,       \* where CommandsBackgroundService.ExecuteAsync is
  send,          \* where the SendAsync call of each command is
  fate,          \* what became of each command that was sent
  arrival,       \* ticket drawn when a command enters buffer or blocked, 0 if never
  arrivals       \* number of tickets drawn

channel == <<buffer, blocked, writerDone>>
tickets == <<arrival, arrivals>>
vars == <<options, buffer, blocked, writerDone, stopping, service, send, fate,
          arrival, arrivals>>

ServiceStates == {"off", "checking", "parked", "draining", "handling",
                  "completed", "canceled"}
SendStates == {"idle", "blocked", "written", "returned", "misreported", "canceled",
               "faulted", "threw", "swallowed"}
Fates == {"none", "dropped", "running", "succeeded", "failed", "canceled"}

\* The write succeeded.  SendAsync tells its caller so, or, misreported, throws.
Accepted == {"written", "returned", "misreported"}
\* The write failed or was withdrawn; swallowed is a failure the caller never sees.
Refused == {"canceled", "faulted", "threw", "swallowed"}

Started(c) == fate[c] \notin {"none", "dropped"}
Queued == ToSet(buffer)
Waiting == ToSet(blocked)
ServiceDown == service \in {"completed", "canceled"}

Init ==
  /\ options \in Configurations
  /\ buffer = <<>> /\ blocked = <<>> /\ writerDone = FALSE
  /\ stopping = FALSE
  /\ service = "off"
  /\ send = [c \in Cmds |-> "idle"]
  /\ fate = [c \in Cmds |-> "none"]
  /\ arrival = [c \in Cmds |-> 0]
  /\ arrivals = 0
-----------------------------------------------------------------------------
(* Senders: Mediator.SendAsync -> command pipeline -> BackgroundStrategy.   *)

\* The application sends when it likes, a handler only while it runs.
MaySend(c) ==
  /\ send[c] = "idle"
  /\ Spawner[c] \in {NoCmd} \cup {d \in Cmds : fate[d] = "running"}

Full == options.FullMode # "Unbounded" /\ Len(buffer) >= options.Capacity

\* Fault: the token a handler passes on is never canceled.
TokenIgnoresStop(c) == Spawner[c] = NoCmd

\* A sender's token: the application cancels when it likes, the token a handler
\* passes on is the service's stoppingToken.
TokenCanceled(c) == Spawner[c] = NoCmd \/ stopping

\* A write wakes the reader parked in WaitToReadAsync.
Wake == service' = IF service = "parked" THEN "draining" ELSE service

DrawTicket(c) ==
  /\ arrival' = [arrival EXCEPT ![c] = arrivals + 1]
  /\ arrivals' = arrivals + 1

\* Fault: the context of the command being handled is written instead.
EnterWrongContext(kept, c) == buffer' = Append(kept, Spawner[c]) /\ DrawTicket(c)

\* Fault: the latest command is the first to be read.
EnterFront(kept, c) == buffer' = <<c>> \o kept /\ DrawTicket(c)

EnterBuffer(kept, c) == buffer' = Append(kept, c) /\ DrawTicket(c)

Sent(c, result) == send' = [send EXCEPT ![c] = result]

\* No single handler can be resolved, or no channel is registered: nothing is written.
ResolveFails(c) ==
  /\ MaySend(c)
  /\ Sent(c, "faulted")
  /\ UNCHANGED <<options, channel, stopping, service, fate, tickets>>

\* WriteAsync looks at the token before anything else.
WriteCanceled(c) ==
  /\ MaySend(c) /\ TokenCanceled(c)
  /\ Sent(c, "canceled")
  /\ UNCHANGED <<options, channel, stopping, service, fate, tickets>>

\* The writer was completed: ChannelClosedException.
WriteRefused(c) ==
  /\ MaySend(c) /\ writerDone
  /\ Sent(c, "faulted")
  /\ UNCHANGED <<options, channel, stopping, service, fate, tickets>>

WriteEnqueues(c) ==
  /\ MaySend(c) /\ ~writerDone /\ ~Full
  /\ Sent(c, "written")
  /\ EnterBuffer(buffer, c)
  /\ Wake
  /\ UNCHANGED <<options, blocked, writerDone, stopping, fate>>

\* Wait: the write is pending until a read makes room for it.
WriteBlocks(c) ==
  /\ MaySend(c) /\ ~writerDone /\ Full /\ options.FullMode = "Wait"
  /\ Sent(c, "blocked")
  /\ blocked' = Append(blocked, c)
  /\ DrawTicket(c)
  /\ UNCHANGED <<options, buffer, writerDone, stopping, service, fate>>

\* DropWrite: the write completes and the command is gone.
WriteDropped(c) ==
  /\ MaySend(c) /\ ~writerDone /\ Full /\ options.FullMode = "DropWrite"
  /\ Sent(c, "written")
  /\ fate' = [fate EXCEPT ![c] = "dropped"]
  /\ UNCHANGED <<options, channel, stopping, service, tickets>>

Survivors == IF options.FullMode = "DropOldest" THEN Tail(buffer) ELSE Front(buffer)
Victim == IF options.FullMode = "DropOldest" THEN Head(buffer) ELSE Last(buffer)

\* DropOldest, DropNewest: an earlier command makes room for this one.
WriteEvicts(c) ==
  /\ MaySend(c) /\ ~writerDone /\ Full /\ options.FullMode \in {"DropOldest", "DropNewest"}
  /\ Sent(c, "written")
  /\ EnterBuffer(Survivors, c)
  /\ fate' = [fate EXCEPT ![Victim] = "dropped"]
  /\ UNCHANGED <<options, blocked, writerDone, stopping, service>>

\* The rest of the pipeline runs, and SendAsync completes.  What a middleware throws
\* there goes through the catch clause: an exception handler may swallow it, which
\* looks like a completed send, or the caller gets it, and the command stays queued.
SendReturns(c) ==
  /\ send[c] = "written"
  /\ Sent(c, "returned") \/ (c \in FailsLate /\ Sent(c, "misreported"))
  /\ UNCHANGED <<options, channel, stopping, service, fate, tickets>>

Withdraw(c) ==
  \E i \in DOMAIN blocked : blocked[i] = c /\ blocked' = RemoveAt(blocked, i)

\* Fault: the token ends the wait for the write, not the write.
AbandonBlocked(c) ==
  /\ send[c] = "blocked" /\ TokenCanceled(c)
  /\ Sent(c, "canceled")
  /\ UNCHANGED <<options, channel, stopping, service, fate, tickets>>

\* Cancellation takes a pending write back out of the channel.
CancelBlocked(c) ==
  /\ send[c] = "blocked" /\ TokenCanceled(c)
  /\ Withdraw(c)
  /\ Sent(c, "canceled")
  /\ UNCHANGED <<options, buffer, writerDone, stopping, service, fate, tickets>>

\* SendAsync's catch: the typed, then the global exception handler.  One that
\* returns true makes the failed send look like a completed one.
ConsultExceptionHandlers(c) ==
  /\ send[c] = "faulted"
  /\ Sent(c, "threw") \/ Sent(c, "swallowed")
  /\ UNCHANGED <<options, channel, stopping, service, fate, tickets>>
-----------------------------------------------------------------------------
(* The host and the application's own use of the channel.                   *)

\* Fault: the hosted service is not registered.
NeverHosted == FALSE /\ UNCHANGED vars

StartService ==
  /\ service = "off"
  /\ service' = "checking"
  /\ UNCHANGED <<options, channel, stopping, send, fate, tickets>>

\* StopAsync cancels stoppingToken, which a parked WaitToReadAsync observes.
Stop ==
  /\ service # "off" /\ ~stopping
  /\ stopping' = TRUE
  /\ service' = IF service = "parked" THEN "canceled" ELSE service
  /\ UNCHANGED <<options, channel, send, fate, tickets>>

\* ICommandsChannel exposes the writer, so the application may complete it:
\* pending writes fail and a parked reader learns that nothing will come.
CompleteWriter ==
  /\ ~writerDone
  /\ writerDone' = TRUE
  /\ blocked' = <<>>
  /\ send' = [c \in Cmds |-> IF send[c] = "blocked" THEN "faulted" ELSE send[c]]
  /\ service' = IF service = "parked" THEN "completed" ELSE service
  /\ UNCHANGED <<options, buffer, stopping, fate, tickets>>
-----------------------------------------------------------------------------
(* The service: await foreach over Reader.ReadAllAsync(stoppingToken), which *)
(* is "while WaitToReadAsync(token) while TryRead yield".                    *)

\* Fault: a completed writer is noticed before the commands that remain.
WaitEndsEarly ==
  /\ service = "checking"
  /\ service' = IF stopping THEN "canceled"
                ELSE IF writerDone THEN "completed"
                ELSE IF buffer # <<>> THEN "draining"
                ELSE "parked"
  /\ UNCHANGED <<options, channel, stopping, send, fate, tickets>>

WaitToRead ==
  /\ service = "checking"
  /\ service' = IF stopping THEN "canceled"
                ELSE IF buffer # <<>> THEN "draining"
                ELSE IF writerDone THEN "completed"
                ELSE "parked"
  /\ UNCHANGED <<options, channel, stopping, send, fate, tickets>>

\* Fault: the reader goes to sleep without another look at channel and token.
ParksAtOnce ==
  /\ service = "draining" /\ buffer = <<>>
  /\ service' = "parked"
  /\ UNCHANGED <<options, channel, stopping, send, fate, tickets>>

ReadNothing ==
  /\ service = "draining" /\ buffer = <<>>
  /\ service' = "checking"
  /\ UNCHANGED <<options, channel, stopping, send, fate, tickets>>

\* The front leaves the buffer; the oldest pending write enters and completes.
Take ==
  IF blocked = <<>>
  THEN buffer' = Tail(buffer) /\ UNCHANGED <<blocked, send>>
  ELSE /\ buffer' = Append(Tail(buffer), Head(blocked))
       /\ blocked' = Tail(blocked)
       /\ Sent(Head(blocked), "written")

\* Fault: TryPeek instead of TryRead.
PeekCommand ==
  /\ service = "draining" /\ buffer # <<>>
  /\ service' = "handling"
  /\ fate' = [fate EXCEPT ![Head(buffer)] = "running"]
  /\ UNCHANGED <<options, channel, stopping, send, tickets>>

\* TryRead does not look at the token; the command goes to its handler.
ReadCommand ==
  /\ service = "draining" /\ buffer # <<>>
  /\ service' = "handling"
  /\ fate' = [fate EXCEPT ![Head(buffer)] = "running"]
  /\ Take
  /\ UNCHANGED <<options, writerDone, stopping, tickets>>

\* A handler awaits the sends it makes.
AwaitsNothing(c) ==
  \A d \in Cmds : Spawner[d] = c => send[d] \notin {"blocked", "written", "faulted"}

HandlerEnds(c, outcome, next) ==
  /\ service = "handling" /\ fate[c] = "running"
  /\ AwaitsNothing(c)
  /\ fate' = [fate EXCEPT ![c] = outcome]
  /\ service' = next
  /\ UNCHANGED <<options, channel, stopping, send, tickets>>

\* Fault: the service does not await the handler's task.
HandlerNotAwaited(c) == HandlerEnds(c, "running", "draining")

HandlerSucceeds(c) == HandlerEnds(c, "succeeded", "draining")

\* Fault: the exception of a handler leaves the loop.
HandlerFaultEscapes(c) == HandlerEnds(c, "failed", "canceled")

\* Fault: a failed command goes back into the channel.
RetriesFailure(c) ==
  /\ service = "handling" /\ fate[c] = "running" /\ AwaitsNothing(c)
  /\ fate' = [fate EXCEPT ![c] = "none"]
  /\ buffer' = <<c>> \o buffer
  /\ service' = "draining"
  /\ UNCHANGED <<options, blocked, writerDone, stopping, send, tickets>>

\* The service logs the exception and goes on; no exception handler is asked.
HandlerFails(c) == HandlerEnds(c, "failed", "draining")

\* The one exception the service does not catch: it leaves ExecuteAsync.
HandlerCancels(c) ==
  /\ stopping \/ c \in SelfCanceling
  /\ HandlerEnds(c, "canceled", "canceled")
-----------------------------------------------------------------------------
\* The host stopped, the writer is complete and nobody has a step left to take.
Terminated ==
  /\ ServiceDown /\ stopping /\ writerDone
  /\ \A c \in Cmds : ~MaySend(c) /\ send[c] \notin {"written", "faulted"}
  /\ UNCHANGED vars

Write(c) ==
  \/ ResolveFails(c) \/ WriteCanceled(c) \/ WriteRefused(c) \/ WriteEnqueues(c)
  \/ WriteBlocks(c) \/ WriteDropped(c) \/ WriteEvicts(c)

SendGoesOn(c) == SendReturns(c) \/ ConsultExceptionHandlers(c)

HandlerReturns(c) == HandlerSucceeds(c) \/ HandlerFails(c) \/ HandlerCancels(c)

Serve == StartService \/ WaitToRead \/ ReadNothing \/ ReadCommand

Next ==
  \/ \E c \in Cmds : Write(c) \/ SendGoesOn(c) \/ CancelBlocked(c) \/ HandlerReturns(c)
  \/ Serve
  \/ Stop
  \/ CompleteWriter
  \/ Terminated

Spec == Init /\ [][Next]_vars

\* The host starts the service, started work goes on and handlers end.  Nobody
\* has to send, stop the host or complete the writer, and an application need
\* not cancel; the cancellation that stoppingToken triggers is not optional.
Fairness ==
  /\ WF_vars(Serve)
  /\ \A c \in Cmds :
       /\ WF_vars(SendGoesOn(c))
       /\ WF_vars(HandlerReturns(c))
       /\ WF_vars(Spawner[c] # NoCmd /\ CancelBlocked(c))

FairSpec == Spec /\ Fairness
-----------------------------------------------------------------------------
(* Properties.                                                              *)

\* Every variable keeps to its type; no more tickets than commands.
TypeOK ==
  /\ options \in Configurations
  /\ buffer \in Seq(Cmds) /\ blocked \in Seq(Cmds)
  /\ writerDone \in BOOLEAN /\ stopping \in BOOLEAN
  /\ service \in ServiceStates
  /\ send \in [Cmds -> SendStates]
  /\ fate \in [Cmds -> Fates]
  /\ arrival \in [Cmds -> Nat] /\ arrivals \in Nat

\* Nobody waits for something that is already there: a write is pending only
\* while the buffer is full, and the reader is parked only while the channel is
\* empty, open and the host runs (WriteAsync, TryRead and Complete wake them).
NoLostWakeup ==
  /\ blocked # <<>> => options.FullMode = "Wait" /\ ~writerDone /\ Len(buffer) = options.Capacity
  /\ service = "parked" => buffer = <<>> /\ blocked = <<>> /\ ~stopping /\ ~writerDone
  /\ options.FullMode # "Unbounded" => Len(buffer) <= options.Capacity

\* Commands start in the order in which they reached the channel, pending writes
\* included (ReadAllAsync with one reader): whatever started came before
\* whatever is still queued or waiting to be.
NoOvertaking ==
  \A c, d \in Cmds :
    Started(c) /\ d \in Queued \cup Waiting => arrival[c] < arrival[d]

\* The service runs one handler at a time, and exactly while it is in the loop
\* body: no two background commands ever overlap.
OneAtATime ==
  /\ \A c, d \in Cmds : fate[c] = "running" /\ fate[d] = "running" => c = d
  /\ service = "handling" <=> \E c \in Cmds : fate[c] = "running"

\* A send whose write failed or was withdrawn left nothing behind in the channel: its
\* command is not queued and is never handled (a cancellation and the read that
\* lets the pending write in exclude each other).
RefusedNeverRuns ==
  \A c \in Cmds : send[c] \in Refused =>
    c \notin Queued \cup Waiting /\ fate[c] = "none"

\* A command whose write completed is in the buffer of a service that will get to it,
\* was handled, or was dropped by a channel that is configured to drop: of its own
\* accord the service ends only once the completed channel is drained.
NothingLost ==
  \A c \in Cmds : send[c] \in Accepted =>
    \/ c \in Queued /\ fate[c] = "none" /\ service # "completed"
    \/ c \notin Queued /\ Started(c)
    \/ fate[c] = "dropped" /\ options.FullMode \in {"DropWrite", "DropOldest", "DropNewest"}

\* A command does not stop the processor: it ends by cancellation only when the
\* host is stopping ("one poisoned command won't stop the processor").
ProcessorSurvives == service = "canceled" => stopping

\* A handler runs at most once per command, whatever becomes of it: no step
\* changes the outcome of a handled command or revives a dropped one.
RunsAtMostOnce ==
  [][\A c \in Cmds : fate[c] \notin {"none", "running"} => fate'[c] = fate[c]]_vars

\* The one wait in this design that nothing in it ends: the running handler
\* waits for room that only the service it occupies can make.
SelfBlocked ==
  \E c \in Cmds : send[c] = "blocked" /\ Spawner[c] # NoCmd /\ fate[Spawner[c]] = "running"

\* An accepted command is started (or evicted), unless the service is down or
\* its handler blocks on the channel it reads.
AcceptedIsStarted ==
  \A c \in Cmds :
    send[c] \in Accepted /\ fate[c] = "none" ~> fate[c] # "none" \/ ServiceDown \/ SelfBlocked

\* A pending write ends, with the same two exceptions.
BlockedSenderReleased ==
  \A c \in Cmds : send[c] = "blocked" ~> send[c] # "blocked" \/ ServiceDown \/ SelfBlocked

\* Stopping the host ends a handler's wait for its own service.
StopReleasesHandler == (stopping /\ SelfBlocked) ~> ~SelfBlocked
-----------------------------------------------------------------------------
(* Refinement: the channel and the service deliver what CommandDelivery says. *)

Phase(c) ==
  CASE fate[c] = "running" -> "running"
    [] fate[c] = "dropped" -> "dropped"
    [] Started(c) /\ fate[c] # "running" -> "finished"
    [] fate[c] = "none" /\ send[c] = "idle" -> "new"
    [] fate[c] = "none" /\ send[c] = "blocked" -> "offered"
    [] fate[c] = "none" /\ send[c] \in Accepted -> "accepted"
    [] fate[c] = "none" /\ send[c] \in Refused -> "refused"

Delivery == INSTANCE CommandDelivery WITH
  lossy <- options.FullMode \in {"DropWrite", "DropOldest", "DropNewest"},
  phase <- [c \in Cmds |-> Phase(c)],
  ticket <- arrival,
  issued <- arrivals

\* Every behaviour of the service and its channel is one of the promise: no step
\* duplicates, reorders, overlaps or loses a command that the promise keeps.
DeliversInOrder == Delivery!Spec
=============================================================================
