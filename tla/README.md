# Lithons.Mediator: formal model

TLA+ modules, TLC configurations and TLAPS proofs about
`src/src/Lithons.Mediator`, an in-process mediator for .NET: an application
sends requests, commands and notifications; middleware pipelines and strategies
bring them to handlers; commands can be handled in the background. The script of
its Blazor example that reconnects a lost session is modelled too.

## 1. Inventory

| Component | State | Operations | Interacts with | What makes it correct |
|---|---|---|---|---|
| Background processing (`BackgroundStrategy`, `CommandsBackgroundService`, `DefaultCommandsChannel`, `AddBackgroundCommandProcessing`) | the channel, the loop of the hosted service, tasks of senders | write, cancel, read, handle, start and stop of the host, completion of the writer | senders and the service meet in the channel; handlers may send to the channel they are read from | first in, first out; one handler at a time; no accepted command lost or run twice; refused ones never run; nobody waits for what is there; the processor survives its commands |
| Notification strategies (`SequentialStrategy`, `ParallelStrategy`) | one `PublishAsync` call: the loop, the tasks | call a handler, await, collect exceptions | called by the notification invoker, report to `Mediator.SendAsync` | order; nobody left out; all failures reported; nothing left running |
| Message pipelines (`RequestPipeline`, `CommandPipeline`, `NotificationPipeline`, their builders and `UseMiddleware`) | the field `_pipeline` | `Setup`, first access, invocation | configured by the application, shared by all senders | every message takes one pipeline in the order of `Use`; configuration is not lost |
| `Mediator` | none (scoped) | five `SendAsync`, `TryHandleExceptionAsync` | runs a pipeline, resolves exception handlers | typed before global exception handler; cancellation passes; the result has the type asked for |
| Invoker middleware, `DefaultStrategy`, `HandlerResolver` | a message context | resolve, invoke, store the result, call next | service provider, strategies | exactly one handler; its result reaches the sender |
| Registration (`ServiceCollectionExtensions`, `MediatorConfiguration`) | the `IServiceCollection` | add handlers by type, by open generic, by assembly scan | decides what resolution finds | no second handler for a request or command; a handler's class is registered with it; what is left of a class that broke does not end an enumeration; a scan finds every role; what `TryAdd` registers is there once |
| Reconnect dialog (`ReconnectModal.razor.js` of the Blazor example) | the dialog, its class, a `visibilitychange` listener, calls of `retry` and `resume` that wait | clicks, looks at the page, events of Blazor, answers to `Blazor.reconnect` and `Blazor.resumeCircuit` | user, browser, Blazor runtime, server | a failed session is always tried again; the dialog is open while the session is not live; the page is reloaded only when nothing can be resumed |
| Invoker caches | two `ConcurrentDictionary` | look up or compile | all invokers | an entry is a function of its key |

Hard behaviours: many writers, one reader and the host racing on the channel;
cancellation racing a read that lets a pending write in; handlers that send to
their own service; parallel handlers that fail, cancel and succeed in any order,
in their call or later; an unlocked lazily initialised singleton; sends inside sends,
through which an exception travels out; and in the dialog, retries and resumes that overlap and whose
answers come in any order, while server and session come and go. The library itself has no time-outs,
retries, network or persistence: a queued command is lost with the process.
`hazards` in PROJECT.json lists each at its line.

## 2. Modules

| Module | Models | State and actions |
|---|---|---|
| `BackgroundCommands` | background processing | below |
| `CommandDelivery` | its promise, without channel, service or host | phase of each command; `Offer`, `Accept`, `Discard`, `Refuse`, `Run`, `Finish` |
| `MCBackgroundCommands` | instance for TLC | `c1`'s handler sends `c4`, the application the others |
| `SequenceFacts` | lemmas on sequences | what append, tail, front and removal do to order and membership |
| `BackgroundCommandsProofs`, `BackgroundDeliveryProofs` | proofs | |
| `NotificationPublish`, `NotificationPublishProofs` | one publish, its strategy and the exception handlers | below |
| `NotificationDelivery` | its promise, without the loop, tasks or exceptions on their way | state of each handler, the sender's verdict; `Begin`, `End`, `Tell` |
| `MessagePipeline`, `MCMessagePipeline`, `MessagePipelineProofs` | one middleware pipeline and its users | below |
| `MiddlewareDelivery` | its promise, without threads, delegates or reads and writes of a field | the pipeline in force, the route of each message; `EndSetup`, `Enforce`, `FindNone`, `GiveUp`, `Take`, `Visit`, `Complete` |
| `Registration`, `MCRegistration`, `RegistrationProofs` | the service collection while the application registers | below |
| `Dispatch`, `DispatchProofs` | requests and commands, sent inside each other, and the exception handlers | below |
| `ReconnectModal`, `ReconnectModalProofs` | the script of the reconnect dialog and its environment | below |

A definition with a comment that starts `Fault:` is a plausible bug that
stands beside the definition it replaces in a mutant; no specification uses it.

### BackgroundCommands

`buffer` and `blocked` are the queue and the pending writers of
`System.Threading.Channels`, which is modelled from the calls made on it;
`options` ranges over the full modes that `configureChannel` may leave.
`send[c]` is where the `SendAsync` of command `c` is, `fate[c]` what became of
it, `service` where `ExecuteAsync` is: `await foreach` over `ReadAllAsync` is
unfolded to `WaitToRead` (checking, parked), `ReadCommand` and `ReadNothing`
(draining) and the handler (handling). `arrival` and `arrivals` are history:
the order in which commands reached the channel.

The actions of a sender are the outcomes of `WriteAsync` (`WriteEnqueues`, `WriteBlocks`,
`WriteDropped`, `WriteEvicts`, `WriteCanceled`, `WriteRefused`), `CancelBlocked`,
and what `SendAsync` does with them (`SendReturns`, `ConsultExceptionHandlers`). A middleware may fail
behind the write (`FailsLate`): the caller then gets an exception for a command that is queued and will run
(`misreported`). A
handler of a background command may itself send (`Spawner`): it awaits the send
and passes the service's token on. `Stop` is the host's `StopAsync`,
`CompleteWriter` the application's own use of `ICommandsChannel.Writer`.

### NotificationPublish

One `SendAsync(notification)` from the strategy to the last exception handler.
`outcome[i]` is what handler `i` came to. A call throws (`failed`,
`threwCancel`), returns a finished task, or leaves one `running` that `TaskEnds`
finishes later. `phase` is where `SendAsync` is, `carried` whose exceptions the
one being thrown holds. A task that cancels is `canceled`; a cancellation thrown
from the call is `threwCancel`, because `Task.FromException` makes a fault of it.

`PublishesAsPromised` is refinement of `NotificationDelivery`. The mapping names each handler's state as
the sender will see it (`Seen`: a cancellation thrown from a call is a failure under `ParallelStrategy`, a
cancellation under `SequentialStrategy`) and the sender's verdict (`Told`), which is pending until the
exception handlers have answered. The loop's steps between two calls, `AllCalled`, `WhenAllEnds` with
failures and an exception handler that declines are stutters. What the promise says and the invariants of the module do
not: a step never calls a handler a second time, out of turn, or behind the verdict; the verdict is given once.

### MessagePipeline

`pipeline` is `_pipeline`. `Setup` is four steps (`CallSetup`, `Compose`, `Store`,
`Reread`), of which the getter's `??=` uses the last three and adds `AccessFirst`
and `Assign`. The reread of the plain field may give what the thread has just
stored or what is there by now. `Build` keeps what the fold makes: each
stage's `next`. `CallNext`, `EndInStage` and `Complete` run the delegate a sender
holds in `local`. The three pipelines have the same text, so their lines are
divided among the definitions.

`TakesOnePipeline` is refinement of `MiddlewareDelivery`, where one pipeline is in force and each message
takes one. `Name` names a delegate by the Setup that composed it, or as the default: which sender
composed a default is not seen, since they all use the same (`DefaultAssumption`). `SetupState` and
`Fate` forget the reads and writes of the field. `Store` puts a Setup's pipeline, or the default of a
message that found none, into force; the sender's `Assign` puts it, or what its reread found, into force once more and takes it. The
promise does not say that the pipeline in force stays: `lost_setup` is a behaviour of it too. It
says what no race changes: nothing takes a pipeline out of force without another, what a Setup that threw
has left never comes into force, a message never changes its pipeline, and every step it makes is to the next component of that one.

### Registration

`services` is the list of descriptors, each a service (an interface with its
argument, a bare interface, or the class itself) and the class that serves it. Reflection
is data: `Implements` and `Plain` give the interfaces of each class, `Open` and
`Abstract` its kind. A method of `MediatorConfiguration` (`AddRequestHandler`, ...)
puts the registrations it needs into `todo`, in the order of the code; `Add`,
`TryAddFinds` and `Duplicate` make them one by one. They are forced: nothing else
can happen before `todo` is empty. They are separate steps because `Duplicate`, a
`DuplicateHandlerException`, keeps what was added before it; the application may catch it inside the
configure delegate and go on, or lose the `AddMediator` call. A scan (`AddHandlersFromAssembly`, `ScanNext`,
`Return`) does the same class by class. `broken` is history: classes whose
registration threw. `options` and `config` are the default strategies.

The types rule out what the compiler or the CLR does: a class that implements a
generic handler interface implements its base interface, no class implements an
interface twice, and `AddExceptionHandler` takes implementations only.

### Dispatch

`SendAsync` of requests and commands. A handler may send in turn and awaits it, so the
running sends of one caller are a stack: `frame[d]` is the send at depth `d`, `at` says where its
`SendAsync` is, `result` what the context holds, `exception` what travels out of it. Only the
frame on top moves. `ResolveSingle` is `HandlerResolver`: whatever makes `GetRequiredService` throw
`InvalidOperationException`, no handler or a handler whose dependency is missing (`Unresolvable`), becomes
`HandlerNotFoundException`. `ExecuteAsync` leaves a command in the background and sets the default of its type,
which for a reference type is null. `Catch` is the exception filter; `AskTyped` and `AskGlobal` are
`TryHandleExceptionAsync`, where a handler may accept, decline, or throw an exception of its own, which
`Rethrow` throws like the original. `Return` is the cast of the result, behind the
try statement. It throws (`badCast`) when the result is of a value type and there is none, since a middleware stopped
the message or took the result away, and when a middleware left a result of another type (`mistyped`). A command without a
result (outside `Resulting`) has no cast.
`Leave` hands the outcome to the caller, in `ended`; the handler that sent it lets an exception pass or
goes on. An exception carries two sets of history: the sends it has `left` and the exception handlers that
`declined` it. Middlewares are what they may do to a message: stop it, throw, catch, replace the exception or the result. Notifications have a
model of their own.

### ReconnectModal

The script runs from one await to the next in one step. `call[c]` is the await that a call of `retry` or
`resume` is in; nothing disables the buttons, so several may wait. `shown` is the class on the dialog, which decides
what is visible (`ReconnectModal.razor.css`) and thereby what can be clicked, `modal` whether the dialog is open, `listening`
whether `retryWhenDocumentBecomesVisible` is registered. Blazor is modelled from what the script says of it
(lines 27-34): `reconnect` gives true, false when the server does not have the circuit, or throws,
at once or later, when the server is not reached; `resumeCircuit` likewise. Its environment is `circuit`, which goes from
`live` over `kept` and `stored` to `gone` while nobody comes back, and `reachable`. A `"hide"` event comes with a
session that `reconnect` or `resume` brings back; in `retry` the script closes the dialog itself after a resume.
`location.reload` ends the page, and with it the model. The script opens
the dialog only on `"show"`, so a session that the server pauses is taken to announce `"show"` before `"paused"`
(`SessionPaused`): without it nobody could reach the Resume button.

## 3. Runs

| Run | Expectation | Shows |
|---|---|---|
| `background_safety` | pass | safety and refinement of the background path |
| `background_liveness` | pass | accepted commands start, pending writes end |
| `poisoned_command` | violation | a handler's own cancellation stops the processor, against README.md:139 |
| `notification_publish` | pass | order, completeness and reporting under both strategies; refinement of `NotificationDelivery`; every publish ends |
| `caught_cancellation` | violation | a cancellation thrown from a parallel handler's call reaches the exception handlers |
| `message_pipeline` | pass | one pipeline per message, in order; start-up configuration holds; refinement of `MiddlewareDelivery` |
| `lost_setup` | violation | a first send may overwrite a configured pipeline |
| `registration` | pass | after any calls and scans, also those that threw: one closed handler per request and command, whole notification handlers, every role found, nothing half registered among what is enumerated; what `TryAdd` registered first is never joined, moved or replaced |
| `scanned_open_generics` | violation | a scan registers generic type definitions, against README.md:50 |
| `rival_open_handlers` | violation | two open handlers of one interface are registered without an exception, against README.md:67 |
| `dispatch` | pass | through sends inside sends, every exception is put to the right exception handlers in the right order, and reaches a caller only when they all declined |
| `reconnect_modal` | pass | overlapping retries and resumes leave nobody stranded, the dialog true and resumable sessions unharmed; a failed session recovers |

### Bounds

* `background_safety`: four commands (three for liveness) and channels of one and two places. Four commands are
  enough for one being handled, one queued, one pending and one arriving, and for one sent by another's
  handler; capacity two is needed to tell `DropOldest` from `DropNewest`, capacity one for
  two writers pending behind one queued command. `c2` and `c3` are symmetric. `SelfCanceling` is empty
  here, so that `ProcessorSurvives` says only the host cancels; `poisoned_command` lets `c1` cancel.
  A middleware may fail behind the write of `c1` (`FailsLate`), in both runs that pass.
* `notification_publish`: zero to three handlers, so that one lies between two others.
* `message_pipeline`: two senders for two first accesses at once, two Setups for one that fails or is overtaken;
  middleware of different lengths, one without the built-in component. Each thread acts once, so
  the run ends (`CHECK_DEADLOCK FALSE`). The senders are symmetric.
* `registration`: three calls (`MaxCalls`), which is what it takes to register a class, break
  another on it and go on after that; any number of `AddMediator` calls around them. The classes compete for one request (`ask`, `askTell`)
  and one command over both command interfaces (`run`, `rerun`), play one to three roles, and one is open, one abstract.
  Two arguments let a class be registered for the first and throw at the second.
  `scanned_open_generics` needs one call and has two; `rival_open_handlers` needs two, and a second open class (`every`), which
  the other runs leave out of `Types`.
* `dispatch`: sends three deep, so that an exception passes a send that is neither its origin nor the last;
  one message with a typed exception handler and a value as its result, one with neither, one that cannot be resolved. There is a global
  exception handler (that there is none is covered by the proof).
* `reconnect_modal`: three calls, two that overlap and one that comes after, or three retries of which each other order fails.
  The page ends with its reload (`CHECK_DEADLOCK FALSE`).

### Fairness

* `BackgroundCommands`: the host starts the service; its loop, a started send
  and a running handler go on; a handler's pending send notices its canceled token.
  Nothing obliges anyone to send, to cancel, to stop the host or to complete the writer.
  `AcceptedIsStarted` and `BlockedSenderReleased` except a service that is down
  (nothing drains a channel after `ExecuteAsync`) and `SelfBlocked`, a handler waiting
  for room in the channel only its own service empties: nothing in the code ends that wait
  except a stop (`StopReleasesHandler`) or completion.
* `NotificationPublish`: calls go on, exception handlers answer, tasks end. A
  handler that never ends keeps its publish waiting, by design.
* `ReconnectModal`: a promise settles. Nobody has to click, look at the page or keep the server up; `RecoversWhenLookedAt`
  has these as premises: the server stays reachable from some time on and the page is looked at again and again.

## 4. Proofs

All safety properties of the passing runs, action properties and the three refinements included, are proved for every value of the constants (any number of commands, channel
configurations and spawning structures; handlers; senders, configurators and middleware), under the named
assumptions of each module (`...Assumption`), which TLC evaluates in the runs.

* `BackgroundCommandsProofs`. None of the properties is inductive. `IInv` adds
  `Placement` (the buffer holds exactly the accepted commands without a fate, `blocked` exactly
  the pending ones) and `TicketOrder` (tickets grow along the buffer and on into the pending writes, and
  what was started has a smaller one). Without `Placement` a read could start a
  command twice; without `TicketOrder` the command let in by a read could overtake.
  `CompletionDrains` says that a service which has completed left nothing in the channel;
  `NothingLost` needs it for the commands of a completed writer.
  `StartsInOrder`, `WakeupsAreNotLost`, `HandlersNeverOverlap`,
  `RefusedStaysOut`, `AcceptedIsKept` and `AtMostOnce` follow. `CancellationIsCaused` says what can
  end the processor by cancellation: the host's stop, or a handler that threw a cancellation of its own;
  it needs that outcomes are final (`OutcomesStay`). `OnlyStopCancels` is the case
  `SelfCanceling = {}`, which `poisoned_command` leaves.
* `BackgroundDeliveryProofs`. `ImplementsDelivery`: each step under `IInv` is a step of
  `CommandDelivery` or leaves it unchanged, with `Phase` as the refinement mapping.
* `NotificationPublishProofs`. `Inv` says which handlers have been called (those before
  `position`), and for each strategy how their outcomes and `phase` agree. `ImplementsDelivery` rests on it:
  `CallFollowsSuccess` and `CarriedFailed` turn what `Inv` says of outcomes into what the promise asks of
  calls and of the verdict, and each action is one lemma. `OnlyThrownCancellationsCaught` says how far
  `caught_cancellation` goes: never under `SequentialStrategy`, and under `ParallelStrategy` only
  where a handler throws the cancellation out of its call.
* `MessagePipelineProofs`. `Path` places a message in its own delegate, `Owner` says which
  threads' delegates can be in the field, `Settled` what is still possible once all
  Setups have ended before the first send. `SticksBeforeFirstSend` is the bound of `lost_setup`: until a message begins beside
  a Setup, `SetupSticks` holds. `ImplementsDelivery` uses `Owner` (what comes into force was
  composed by a Setup that did not throw) and `Path` (a step goes to the next component of the route); what may
  come into force is shown once, in `MayEnforce`, and what another thread's step leaves, in `Unmoved`.
* `RegistrationProofs`. For any classes, assemblies and number of calls. `Inv` adds to the
  properties what is still to come: `Pending` (what is in `todo` belongs to one class, which
  implements it, and is in an order in which nothing that may throw stands between a notification
  handler's marker and its notifications), `SelfToCome` (a handler in `todo` has its class registered
  or in `todo`) and `MarkersServed` (a notification that is not registered yet is one that
  nothing can prevent any more) and `ClassesComeFirst` (before what is enumerated its class is registered or comes in
  `todo`). The last makes `EnumerationsResolve` hold through any exception: what a throw cuts off lies behind the class. `Sound` says the same of the sequences a method sets out with, and is shown once for each
  `Register...` operator; the steps `Add`, `TryAddFinds` and `Duplicate` then need no case per method.
  `Covered` carries a class that a scan has passed on to the end of the scan. `FirstRegistrationStays` is an action property: only `Add`
  changes the collection (`OthersKeepServices`), and by `Pending` it adds no service of `FirstServices` that is there.
* `DispatchProofs`. For any messages, registrations and depth. The properties speak of the send that ended last; `Inv` says the
  same of the exception on top of the stack (`Sound`), how far that send has come with asking (`Fits`: the global handler is
  asked only after the typed one declined, nobody is left at `rethrow`, and whoever declined did so in a deeper send or
  earlier in this one, so that nobody is asked twice), and that the sends below wait in
  their handlers. Two lemmas carry all steps: the top frame goes on, or leaves.
* `ReconnectModalProofs`. For any number of calls. `NeverStranded`, `DialogTellsTheTruth` and `ReloadLosesNothing` are inductive
  next to `TypeOK`; `ListensOnlyAfterFailure` needs `OneAtATime`: while no calls have overlapped, the one that waits sees the dialog it was
  started from, and no listener.

Only model-checked: liveness (`AcceptedIsStarted`, `BlockedSenderReleased`,
`StopReleasesHandler`, `PublishEnds`, `RecoversWhenLookedAt`), which is beyond the prover, and the
violations.

## 5. Not modelled

* In `Dispatch`: middlewares that call next twice, sends from middlewares or exception handlers, several
  sends awaited at once by one handler. A handler whose dependency is missing is reported as `HandlerNotFoundException`, whose summary
  says "no handler is registered": the model has this (`Unresolvable`), and its inner exception tells the two apart.
* In `ReconnectModal`: the seconds to the next attempt and Blazor's class for it, which the script does not see. Two overlapping retries may leave a
  listener behind that resumes a paused session without a click; nothing in the repository says what should happen then.
* In the hazards without a property: a sender that waits for a service that is down, one whose failed send an exception handler swallowed,
  and one that gets an exception for a queued command. The model has all three; nothing in the repository says they should not happen.
* Failures in the background reach the log only (README.md:139), not the exception handlers; the model stops at `fate`.
* In `Registration`: the service lifetimes, and which descriptor the container picks (the last; a closed
  one before an open one); `Dispatch` has one handler per message. No property speaks of the default strategies. A
  notification handler registered twice runs twice: so the code, and nothing documented says otherwise.
* Logging, service scopes and disposal, compiled invokers and their caches (a race compiles twice what is the same).
* `Lithons.Mediator.Abstractions` (interfaces and records), the pages and the audit log of the Blazor example, tests and benchmarks.

## 6. Plan

1. Done: `BackgroundCommands` with `CommandDelivery`, `NotificationPublish` with `NotificationDelivery`,
   `MessagePipeline` with `MiddlewareDelivery`, `Registration`, `Dispatch`, `ReconnectModal`, and their proofs.
2. Left: the composition of `Dispatch` and `NotificationPublish` over what `Registration` leaves in the
   collection (a registered handler is found, a half registered one fails when its message is sent), and notifications
   published from inside a handler on the stack of `Dispatch`.
