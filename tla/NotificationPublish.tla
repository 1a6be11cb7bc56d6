------------------------- MODULE NotificationPublish -------------------------
(***************************************************************************)
(* One notification: Mediator.SendAsync, the invoker middleware, a strategy  *)
(* that runs the registered handlers one after another or together, and the  *)
(* exception handlers that SendAsync asks when the pipeline throws.          *)
(*                                                                          *)
(* A handler is a call and, if the call returns an unfinished task, a task   *)
(* that ends later; the tasks of ParallelStrategy end in any order and in    *)
(* between the calls that start the others.                                  *)
(***************************************************************************)
EXTENDS Integers, FiniteSets

CONSTANT MaxHandlers   \* the most handlers registered for the notification

ASSUME HandlersAssumption == MaxHandlers \in Nat

Strategies == {"Sequential", "Parallel"}

VARIABLES
  strategy,     \* the strategy of this call
  handlers,     \* how many handlers are registered, in registration order
  position,     \* the handler to invoke next
  outcome,      \* what each handler has done so far
  phase,        \* where SendAsync is
  carried       \* the handlers whose exceptions the one being thrown carries

vars == <<strategy, handlers, position, outcome, phase, carried>>

Index == 1..MaxHandlers
Registered == 1..handlers

\* What a handler's task comes to: an async method that cancels ends Canceled.
TaskOutcomes == {"succeeded", "failed", "canceled"}
\* What the call comes to: its task runs on or is complete, or the call itself
\* throws (a method that is not async) a failure or a cancellation.
CallOutcomes == {"running", "threwCancel"} \cup TaskOutcomes
Outcomes == {"none"} \cup CallOutcomes

Phases == {"publishing", "awaiting", "askTyped", "askGlobal",
           "returned", "swallowed", "threw", "replaced", "canceled"}
Over == {"returned", "swallowed", "threw", "replaced", "canceled"}

Having(what) == {i \in Index : outcome[i] \in what}
Running == Having({"running"})

Init ==
  /\ strategy \in Strategies
  /\ handlers \in 0..MaxHandlers
  /\ position = 1
  /\ outcome = [i \in Index |-> "none"]
  /\ phase = "publishing"
  /\ carried = {}

Became(i, what) == outcome' = [outcome EXCEPT ![i] = what]
-----------------------------------------------------------------------------
(* SequentialStrategy: foreach handler, await the invoker.                  *)

\* An exception of handler i leaves PublishAsync and the pipeline.  SendAsync's
\* filter lets a cancellation through and catches everything else.
Escapes(i, what) ==
  /\ phase' = IF what = "failed" THEN "askTyped" ELSE "canceled"
  /\ carried' = {i}

\* Fault: the loop goes on behind a failed handler.
GoesOnAfterFailure(i, what) == UNCHANGED <<phase, carried>>

SequentialResult(i, what) ==
  IF what \in {"running", "succeeded"}
  THEN UNCHANGED <<phase, carried>>
  ELSE Escapes(i, what)

\* Fault: the loop does not await the handler before.
MayCallNext == TRUE

MayCall == strategy = "Parallel" \/ Running = {}

CallSequential ==
  /\ strategy = "Sequential" /\ phase = "publishing" /\ position <= handlers
  /\ MayCall
  /\ \E what \in CallOutcomes : Became(position, what) /\ SequentialResult(position, what)
  /\ position' = position + 1
  /\ UNCHANGED <<strategy, handlers>>

SequentialTaskEnds(i) ==
  /\ strategy = "Sequential" /\ outcome[i] = "running"
  /\ \E what \in TaskOutcomes : Became(i, what) /\ SequentialResult(i, what)
  /\ UNCHANGED <<strategy, handlers, position>>

\* The last handler is done, or there was none: the rest of the pipeline runs.
SequentialDone ==
  /\ strategy = "Sequential" /\ phase = "publishing" /\ position > handlers
  /\ Running = {}
  /\ phase' = "returned"
  /\ UNCHANGED <<strategy, handlers, position, outcome, carried>>
-----------------------------------------------------------------------------
(* ParallelStrategy: Select(invoke).ToList(), then Task.WhenAll.            *)

\* Fault: what a call throws ends the enumeration.
ThrowEndsCalls(what) ==
  IF what \in {"failed", "threwCancel"} THEN handlers + 1 ELSE position + 1

\* Fault: the enumeration passes over every second handler.
SkipsOne(what) == position + 2

\* A call that throws becomes a faulted task, and the next handler is called.
AfterCall(what) == position + 1

CallParallel ==
  /\ strategy = "Parallel" /\ phase = "publishing" /\ position <= handlers
  /\ \E what \in CallOutcomes : Became(position, what) /\ position' = AfterCall(what)
  /\ UNCHANGED <<strategy, handlers, phase, carried>>

ParallelTaskEnds(i) ==
  /\ strategy = "Parallel" /\ outcome[i] = "running"
  /\ \E what \in TaskOutcomes : Became(i, what)
  /\ UNCHANGED <<strategy, handlers, position, phase, carried>>

AllCalled ==
  /\ strategy = "Parallel" /\ phase = "publishing" /\ position > handlers
  /\ phase' = "awaiting"
  /\ UNCHANGED <<strategy, handlers, position, outcome, carried>>

\* Task.FromException makes a thrown cancellation a fault like any other.
Faulted == Having({"failed", "threwCancel"})

\* Fault: the first exception ends the wait for the other handlers.
AnyEnded == Running = {} \/ Faulted # {}

\* Fault: the wait is for the success of all.
AllSucceeded == \A i \in Registered : outcome[i] = "succeeded"

\* WhenAll waits for every task, whatever becomes of the others.
AllEnded == Running = {}

\* Fault: only the first exception is rethrown.
FirstFault == {i \in Faulted : \A j \in Faulted : i <= j}

\* WhenAll.Exception holds the exceptions of all faulted tasks.
AllFaults == Faulted

\* Faulted tasks win over canceled ones: an AggregateException, which SendAsync
\* catches; without any, awaiting again throws the cancellation.
WhenAllEnds ==
  /\ phase = "awaiting" /\ AllEnded
  /\ carried' = AllFaults
  /\ phase' = IF Faulted # {} THEN "askTyped"
              ELSE IF Having({"canceled"}) # {} THEN "canceled"
              ELSE "returned"
  /\ UNCHANGED <<strategy, handlers, position, outcome>>
-----------------------------------------------------------------------------
(* Mediator.TryHandleExceptionAsync.                                        *)

\* An exception handler may handle the exception, or decline as a missing one does,
\* or throw one of its own, which takes the place of the original.
AskTyped ==
  /\ phase = "askTyped"
  /\ phase' \in {"swallowed", "askGlobal", "replaced"}
  /\ UNCHANGED <<strategy, handlers, position, outcome, carried>>

AskGlobal ==
  /\ phase = "askGlobal"
  /\ phase' \in {"swallowed", "threw", "replaced"}
  /\ UNCHANGED <<strategy, handlers, position, outcome, carried>>
-----------------------------------------------------------------------------
TaskEnds(i) == SequentialTaskEnds(i) \/ ParallelTaskEnds(i)

Publish == CallSequential \/ SequentialDone \/ CallParallel \/ AllCalled \/ WhenAllEnds

Ended == phase \in Over /\ Running = {} /\ UNCHANGED vars

Next == Publish \/ AskTyped \/ AskGlobal \/ (\E i \in Index : TaskEnds(i)) \/ Ended

Spec == Init /\ [][Next]_vars

\* Calls go on, exception handlers answer and every handler's task ends.
Fairness ==
  /\ WF_vars(Publish) /\ WF_vars(AskTyped \/ AskGlobal)
  /\ \A i \in Index : WF_vars(TaskEnds(i))

FairSpec == Spec /\ Fairness
-----------------------------------------------------------------------------
(* Properties.                                                              *)

\* The states of one SendAsync: the loop index stays within one past the last
\* handler, and an exception carries failures of registered handlers only.
TypeOK ==
  /\ strategy \in Strategies
  /\ handlers \in 0..MaxHandlers
  /\ position \in 1..handlers + 1
  /\ outcome \in [Index -> Outcomes]
  /\ phase \in Phases
  /\ carried \subseteq Registered

\* When SendAsync is past the strategy, no handler runs any more: neither a
\* failure nor a cancellation of one lets the sender go on beside the others.
NothingLeftRunning == phase \notin {"publishing", "awaiting"} => Running = {}

\* SequentialStrategy: a handler is called only after all before it succeeded,
\* whether they ended in the call or later.
CalledInOrder ==
  strategy = "Sequential" =>
    \A i, j \in Registered : outcome[i] # "none" /\ j < i => outcome[j] = "succeeded"

\* ParallelStrategy: one handler's failure keeps no other from being called.
EveryHandlerCalled ==
  strategy = "Parallel" /\ phase # "publishing" => \A i \in Registered : outcome[i] # "none"

\* A publish that returns without an exception handler's word succeeded in every
\* handler; one that throws carries every failure, and nothing else.
FailuresReported ==
  /\ phase = "returned" => \A i \in Registered : outcome[i] = "succeeded"
  /\ phase \in {"askTyped", "askGlobal", "threw"} =>
       carried # {} /\ carried = Having({"failed", "threwCancel"})

\* Every publish comes to an end, if its handlers do.
PublishEnds == <>(phase \in Over)

\* "OperationCanceledException is never caught": the exception handlers are asked
\* only if some handler failed otherwise.
CancellationNeverCaught ==
  phase \in {"askTyped", "askGlobal"} => Having({"failed"}) # {}
-----------------------------------------------------------------------------
(* Refinement: both strategies deliver what NotificationDelivery says.       *)

\* A cancellation thrown from a parallel handler's call is a failure like any other.
Seen(what) ==
  IF what = "none" THEN "waiting"
  ELSE IF what = "threwCancel"
  THEN IF strategy = "Parallel" THEN "failed" ELSE "canceled"
  ELSE what

\* The sender is told nothing until the exception handlers have answered.
Told ==
  [kind |-> IF phase \in Over THEN phase ELSE "pending",
   of |-> IF phase \in {"swallowed", "threw"} THEN carried ELSE {}]

Delivery == INSTANCE NotificationDelivery WITH
  Handlers <- Index,
  ordered <- strategy = "Sequential",
  registered <- Registered,
  state <- [i \in Index |-> Seen(outcome[i])],
  verdict <- Told

\* Every behaviour of a publish is one of the promise: no step calls a handler twice,
\* out of turn, or after the sender has been told; and the sender is told once, only
\* when nothing can run any more, and exactly what came of the handlers.
PublishesAsPromised == Delivery!Spec
=============================================================================
