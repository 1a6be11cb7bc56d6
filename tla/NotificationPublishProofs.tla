----------------------- MODULE NotificationPublishProofs -----------------------
(***************************************************************************)
(* The safety properties of NotificationPublish for any number of handlers, and *)
(* that it implements NotificationDelivery.                                  *)
(*                                                                          *)
(* The properties speak of the end of a publish; Inv says how far it has      *)
(* come: which handlers have been called (Called), and for each strategy how   *)
(* the outcomes of those and the place of the call agree.                     *)
(***************************************************************************)
EXTENDS NotificationPublish, TLAPS

Called == \A i \in Index : outcome[i] = "none" <=> i >= position

Asked == {"askTyped", "askGlobal", "swallowed", "threw", "replaced"}

SequentialInv ==
  strategy = "Sequential" =>
    /\ phase # "awaiting"
    /\ \A i \in Index : i < position - 1 => outcome[i] = "succeeded"
    /\ phase = "publishing" /\ position > 1 =>
         outcome[position - 1] \in {"running", "succeeded"}
    /\ phase = "returned" =>
         position = handlers + 1 /\ (position > 1 => outcome[position - 1] = "succeeded")
    /\ phase \in Asked =>
         position > 1 /\ carried = {position - 1} /\ outcome[position - 1] = "failed"
    /\ phase = "canceled" =>
         position > 1 /\ outcome[position - 1] \in {"canceled", "threwCancel"}

ParallelInv ==
  strategy = "Parallel" =>
    /\ phase # "publishing" => position = handlers + 1
    /\ phase \notin {"publishing", "awaiting"} => Running = {}
    /\ phase = "returned" => Faulted = {} /\ Having({"canceled"}) = {}
    /\ phase \in Asked => carried = Faulted /\ carried # {}

Inv == TypeOK /\ Called /\ SequentialInv /\ ParallelInv
-----------------------------------------------------------------------------
(* Lemmas.                                                                  *)

\* What a set of outcomes is while one handler's outcome changes.
LEMMA BecameOutcome ==
  ASSUME TypeOK, NEW i \in Index, NEW what \in Outcomes, Became(i, what)
  PROVE  /\ outcome' \in [Index -> Outcomes]
         /\ outcome'[i] = what
         /\ \A j \in Index : j # i => outcome'[j] = outcome[j]
  BY DEF TypeOK, Became

\* Inv holds when SendAsync reaches the strategy.
LEMMA InitEstablishes == Init => Inv
  BY HandlersAssumption DEF Init, Inv, TypeOK, Called, SequentialInv, ParallelInv, Asked,
     Strategies, Index, Outcomes, CallOutcomes, TaskOutcomes, Phases, Registered, Over

\* A sequential call follows the success of all handlers before.
LEMMA CallFollowsSuccess ==
  ASSUME Inv, CallSequential
  PROVE  \A i \in Index : i < position => outcome[i] = "succeeded"
<1>1. Running = {} /\ strategy = "Sequential" /\ phase = "publishing"
  BY DEF CallSequential, MayCall
<1>2. position \in Int /\ position <= MaxHandlers
  BY HandlersAssumption DEF CallSequential, Inv, TypeOK
<1>3. SUFFICES ASSUME NEW i \in Index, i = position - 1 PROVE outcome[i] = "succeeded"
  BY <1>1, <1>2, HandlersAssumption DEF Inv, SequentialInv, Index
<1>4. position > 1 /\ outcome[i] \in {"running", "succeeded"}
  BY <1>1, <1>2, <1>3, HandlersAssumption DEF Inv, SequentialInv, Index
<1> QED
  BY <1>1, <1>4 DEF Running, Having

\* The sequential call: the handler before has succeeded, since nothing runs.
LEMMA CallSequentialPreserves == Inv /\ CallSequential => Inv'
<1> SUFFICES ASSUME Inv, CallSequential PROVE Inv'
  OBVIOUS
<1>1. PICK what \in CallOutcomes :
         Became(position, what) /\ SequentialResult(position, what)
  BY DEF CallSequential
<1>2. /\ position \in Index /\ position \in Registered /\ what \in Outcomes
      /\ position \in Int /\ handlers \in Int /\ MaxHandlers \in Int
      /\ position' = position + 1 /\ handlers' = handlers /\ strategy' = strategy
      /\ strategy = "Sequential" /\ phase = "publishing" /\ handlers <= MaxHandlers
  BY <1>1, HandlersAssumption DEF CallSequential, Inv, TypeOK, Index, Registered, Outcomes
<1>3. /\ outcome' \in [Index -> Outcomes]
      /\ outcome'[position] = what
      /\ \A j \in Index : j # position => outcome'[j] = outcome[j]
  BY <1>1, <1>2, BecameOutcome DEF Inv
<1>4. \A i \in Index : i < position => outcome[i] = "succeeded"
  BY CallFollowsSuccess
<1>5. \/ what \in {"running", "succeeded"} /\ phase' = phase /\ carried' = carried
      \/ what = "failed" /\ phase' = "askTyped" /\ carried' = {position}
      \/ what \in {"canceled", "threwCancel"} /\ phase' = "canceled" /\ carried' = {position}
  BY <1>1 DEF SequentialResult, Escapes, CallOutcomes, TaskOutcomes
<1>6. TypeOK'
  <2>1. phase' \in Phases
    BY <1>2, <1>5 DEF Phases
  <2>2. carried' \subseteq 1..handlers
    BY <1>2, <1>5 DEF Inv, TypeOK, Registered
  <2>3. handlers' \in 0..MaxHandlers /\ position' \in 1..handlers + 1
    BY <1>2 DEF Inv, TypeOK, Registered
  <2> QED
    BY <1>2, <1>3, <2>1, <2>2, <2>3 DEF Inv, TypeOK, Registered
<1>7. Called'
  BY <1>1, <1>2, <1>3, HandlersAssumption
     DEF Inv, Called, Index, CallOutcomes, TaskOutcomes
<1>8. SequentialInv'
  BY <1>2, <1>3, <1>4, <1>5, HandlersAssumption DEF SequentialInv, Index, Asked
<1>9. ParallelInv'
  BY <1>2 DEF ParallelInv
<1> QED
  BY <1>6, <1>7, <1>8, <1>9 DEF Inv

\* The end of a sequential task is that of the handler called last.
LEMMA SequentialTaskEndsPreserves ==
  ASSUME NEW i \in Index PROVE Inv /\ SequentialTaskEnds(i) => Inv'
<1> SUFFICES ASSUME Inv, SequentialTaskEnds(i) PROVE Inv'
  OBVIOUS
<1>1. PICK what \in TaskOutcomes : Became(i, what) /\ SequentialResult(i, what)
  BY DEF SequentialTaskEnds
<1>2. /\ what \in Outcomes /\ i \in Int /\ position \in Int /\ handlers \in Int
      /\ position' = position /\ handlers' = handlers /\ strategy' = strategy
      /\ strategy = "Sequential" /\ position \in 1..handlers + 1
      /\ outcome[i] = "running"
  BY <1>1, HandlersAssumption
     DEF SequentialTaskEnds, Inv, TypeOK, Index, Outcomes, CallOutcomes
<1>3. /\ outcome' \in [Index -> Outcomes]
      /\ outcome'[i] = what
      /\ \A j \in Index : j # i => outcome'[j] = outcome[j]
  BY <1>1, <1>2, BecameOutcome DEF Inv
<1>4. i = position - 1 /\ position > 1 /\ i \in Registered
  BY <1>2, HandlersAssumption DEF Inv, Called, SequentialInv, Index, Registered
<1>5. phase = "publishing"
  BY <1>2, <1>4 DEF Inv, TypeOK, SequentialInv, Phases, Over, Asked
<1>6. \/ what = "succeeded" /\ phase' = phase /\ carried' = carried
      \/ what = "failed" /\ phase' = "askTyped" /\ carried' = {i}
      \/ what = "canceled" /\ phase' = "canceled" /\ carried' = {i}
  BY <1>1 DEF SequentialResult, Escapes, TaskOutcomes
<1>7. TypeOK'
  BY <1>2, <1>3, <1>4, <1>6 DEF Inv, TypeOK, Registered, Phases, Over
<1>8. Called'
  BY <1>1, <1>2, <1>3, <1>4, HandlersAssumption DEF Inv, Called, Index, TaskOutcomes
<1>9. SequentialInv'
  BY <1>2, <1>3, <1>4, <1>5, <1>6, HandlersAssumption DEF Inv, SequentialInv, Index, Asked
<1>10. ParallelInv'
  BY <1>2 DEF ParallelInv
<1> QED
  BY <1>7, <1>8, <1>9, <1>10 DEF Inv

\* The loop ends when the last handler has succeeded.
LEMMA SequentialDonePreserves == Inv /\ SequentialDone => Inv'
<1> SUFFICES ASSUME Inv, SequentialDone PROVE Inv'
  OBVIOUS
<1>1. /\ UNCHANGED <<strategy, handlers, position, outcome, carried>>
      /\ phase' = "returned" /\ strategy = "Sequential" /\ phase = "publishing"
      /\ position = handlers + 1 /\ Running = {}
  BY HandlersAssumption DEF SequentialDone, Inv, TypeOK
<1>2. position > 1 => outcome[position - 1] = "succeeded"
  <2> SUFFICES ASSUME position > 1 PROVE outcome[position - 1] = "succeeded"
    OBVIOUS
  <2>1. position - 1 \in Index
    BY <1>1, HandlersAssumption DEF Inv, TypeOK, Index
  <2> QED
    BY <1>1, <2>1 DEF Inv, SequentialInv, Running, Having
<1> QED
  BY <1>1, <1>2 DEF Inv, TypeOK, Called, SequentialInv, ParallelInv, Phases, Over, Registered, Asked
-----------------------------------------------------------------------------
\* The parallel call goes on to the next handler, whatever it comes to.
LEMMA CallParallelPreserves == Inv /\ CallParallel => Inv'
<1> SUFFICES ASSUME Inv, CallParallel PROVE Inv'
  OBVIOUS
<1>1. PICK what \in CallOutcomes : Became(position, what) /\ position' = AfterCall(what)
  BY DEF CallParallel
<1>2. /\ position \in Index /\ what \in Outcomes /\ what # "none"
      /\ position \in Int /\ handlers \in Int
      /\ position' = position + 1 /\ position <= handlers
      /\ UNCHANGED <<strategy, handlers, phase, carried>>
      /\ strategy = "Parallel" /\ phase = "publishing"
  BY <1>1, HandlersAssumption
     DEF CallParallel, AfterCall, Inv, TypeOK, Index, Outcomes, CallOutcomes, TaskOutcomes
<1>3. /\ outcome' \in [Index -> Outcomes]
      /\ outcome'[position] = what
      /\ \A j \in Index : j # position => outcome'[j] = outcome[j]
  BY <1>1, <1>2, BecameOutcome DEF Inv
<1>4. TypeOK'
  BY <1>2, <1>3 DEF Inv, TypeOK, Registered
<1>5. Called'
  BY <1>2, <1>3, HandlersAssumption DEF Inv, Called, Index
<1>6. SequentialInv' /\ ParallelInv'
  BY <1>2 DEF SequentialInv, ParallelInv, Asked
<1> QED
  BY <1>4, <1>5, <1>6 DEF Inv

\* A parallel task ends before WhenAll does.
LEMMA ParallelTaskEndsPreserves ==
  ASSUME NEW i \in Index PROVE Inv /\ ParallelTaskEnds(i) => Inv'
<1> SUFFICES ASSUME Inv, ParallelTaskEnds(i) PROVE Inv'
  OBVIOUS
<1>1. PICK what \in TaskOutcomes : Became(i, what)
  BY DEF ParallelTaskEnds
<1>2. /\ what \in Outcomes /\ what # "none" /\ outcome[i] = "running"
      /\ UNCHANGED <<strategy, handlers, position, phase, carried>>
      /\ strategy = "Parallel"
  BY <1>1 DEF ParallelTaskEnds, Outcomes, CallOutcomes, TaskOutcomes
<1>3. /\ outcome' \in [Index -> Outcomes]
      /\ outcome'[i] = what
      /\ \A j \in Index : j # i => outcome'[j] = outcome[j]
  BY <1>1, <1>2, BecameOutcome DEF Inv
<1>4. phase \in {"publishing", "awaiting"}
  BY <1>2 DEF Inv, ParallelInv, Running, Having
<1>5. TypeOK'
  BY <1>2, <1>3 DEF Inv, TypeOK, Registered
<1>6. Called'
  BY <1>2, <1>3 DEF Inv, Called
<1>7. SequentialInv' /\ ParallelInv'
  BY <1>2, <1>4 DEF Inv, SequentialInv, ParallelInv, Asked
<1> QED
  BY <1>5, <1>6, <1>7 DEF Inv

\* WhenAll is awaited when every handler has been called.
LEMMA AllCalledPreserves == Inv /\ AllCalled => Inv'
<1> SUFFICES ASSUME Inv, AllCalled PROVE Inv'
  OBVIOUS
<1>1. /\ UNCHANGED <<strategy, handlers, position, outcome, carried>>
      /\ phase' = "awaiting" /\ strategy = "Parallel" /\ position = handlers + 1
  BY HandlersAssumption DEF AllCalled, Inv, TypeOK
<1> QED
  BY <1>1 DEF Inv, TypeOK, Called, SequentialInv, ParallelInv, Phases, Registered, Asked

\* WhenAll ends with the faults of all handlers, a cancellation or nothing.
LEMMA WhenAllEndsPreserves == Inv /\ WhenAllEnds => Inv'
<1> SUFFICES ASSUME Inv, WhenAllEnds PROVE Inv'
  OBVIOUS
<1>1. /\ UNCHANGED <<strategy, handlers, position, outcome>>
      /\ phase = "awaiting" /\ strategy = "Parallel" /\ position = handlers + 1
      /\ Running = {} /\ carried' = Faulted
      /\ Running' = Running /\ Faulted' = Faulted
      /\ Having({"canceled"})' = Having({"canceled"})
      /\ handlers \in 0..MaxHandlers
  BY DEF WhenAllEnds, AllEnded, AllFaults, Inv, TypeOK, Strategies, SequentialInv, ParallelInv,
     Running, Faulted, Having
<1>2. \/ phase' = "askTyped" /\ Faulted # {}
      \/ phase' = "canceled"
      \/ phase' = "returned" /\ Faulted = {} /\ Having({"canceled"}) = {}
  BY DEF WhenAllEnds
<1>3. Faulted \subseteq Registered
  BY <1>1, HandlersAssumption DEF Inv, Called, Faulted, Having, Registered, Index
<1>4. TypeOK'
  BY <1>1, <1>2, <1>3 DEF Inv, TypeOK, Phases, Over, Registered
<1>5. SequentialInv' /\ ParallelInv' /\ Called'
  BY <1>1, <1>2 DEF Inv, SequentialInv, ParallelInv, Called, Asked
<1> QED
  BY <1>4, <1>5 DEF Inv

\* The exception handlers change what becomes of an exception, not what it carries.
LEMMA AskPreserves == Inv /\ (AskTyped \/ AskGlobal) => Inv'
<1> SUFFICES ASSUME Inv, AskTyped \/ AskGlobal PROVE Inv'
  OBVIOUS
<1>1. /\ UNCHANGED <<strategy, handlers, position, outcome, carried>>
      /\ phase \in Asked /\ phase' \in Asked
  BY DEF AskTyped, AskGlobal, Asked
<1>2. Running' = Running /\ Faulted' = Faulted
  BY <1>1 DEF Running, Faulted, Having
<1> QED
  BY <1>1, <1>2 DEF Inv, TypeOK, Called, SequentialInv, ParallelInv, Asked, Phases, Over, Registered

\* A step of something else changes nothing.
LEMMA StutterPreserves == Inv /\ UNCHANGED vars => Inv'
  BY DEF vars, Inv, TypeOK, Called, SequentialInv, ParallelInv, Asked, Running, Faulted, Having,
     Registered

\* Every step keeps Inv.
LEMMA NextPreserves == Inv /\ [Next]_vars => Inv'
  BY CallSequentialPreserves, SequentialTaskEndsPreserves, SequentialDonePreserves,
     CallParallelPreserves, ParallelTaskEndsPreserves, AllCalledPreserves,
     WhenAllEndsPreserves, AskPreserves, StutterPreserves
     DEF Next, Publish, TaskEnds, Ended

\* The strategies and the exception handlers keep Inv.
THEOREM Invariance == Spec => []Inv
  BY InitEstablishes, NextPreserves, PTL DEF Spec
-----------------------------------------------------------------------------
(* The properties.                                                          *)

\* A handler runs only while the strategy does.
LEMMA RunningInStrategy ==
  ASSUME Inv, NEW i \in Index, outcome[i] = "running"
  PROVE  phase \in {"publishing", "awaiting"}
<1>1. CASE strategy = "Parallel"
  BY <1>1 DEF Inv, ParallelInv, Running, Having
<1>2. CASE strategy = "Sequential"
  <2>1. i = position - 1
    BY <1>2, HandlersAssumption DEF Inv, TypeOK, Called, SequentialInv, Index
  <2> QED
    BY <1>2, <2>1, HandlersAssumption DEF Inv, TypeOK, SequentialInv, Phases, Over, Asked, Index
<1> QED
  BY <1>1, <1>2 DEF Inv, TypeOK, Strategies

\* NotificationPublish keeps its types.
THEOREM TypeCorrect == Spec => []TypeOK
<1>1. Inv => TypeOK
  BY DEF Inv
<1> QED
  BY <1>1, Invariance, PTL

\* Past the strategy no handler runs any more.
THEOREM NothingRunsOn == Spec => []NothingLeftRunning
<1>1. Inv => NothingLeftRunning
  BY RunningInStrategy DEF NothingLeftRunning, Running, Having
<1> QED
  BY <1>1, Invariance, PTL

\* A sequential handler is called only behind successes.
THEOREM SequentialOrder == Spec => []CalledInOrder
<1>1. Inv => CalledInOrder
  <2> SUFFICES ASSUME Inv, strategy = "Sequential", NEW i \in Registered, NEW j \in Registered,
                      outcome[i] # "none", j < i
               PROVE  outcome[j] = "succeeded"
    BY DEF CalledInOrder
  <2>1. i \in Index /\ j \in Index /\ i < position
    BY HandlersAssumption DEF Inv, TypeOK, Called, Registered, Index
  <2> QED
    BY <2>1, HandlersAssumption DEF Inv, TypeOK, SequentialInv, Index
<1> QED
  BY <1>1, Invariance, PTL

\* The parallel strategy leaves no handler out, whatever the others do.
THEOREM NobodyLeftOut == Spec => []EveryHandlerCalled
<1>1. Inv => EveryHandlerCalled
  <2> SUFFICES ASSUME Inv, strategy = "Parallel", phase # "publishing", NEW i \in Registered
               PROVE  outcome[i] # "none"
    BY DEF EveryHandlerCalled
  <2> QED
    BY HandlersAssumption DEF Inv, TypeOK, ParallelInv, Called, Registered, Index
<1> QED
  BY <1>1, Invariance, PTL

\* No failure is lost on the way to the sender and none is invented.
THEOREM FailuresReach == Spec => []FailuresReported
<1>1. Inv => FailuresReported
  <2> SUFFICES ASSUME Inv PROVE FailuresReported
    OBVIOUS
  <2>0. /\ handlers \in Int /\ position \in Int /\ handlers <= MaxHandlers /\ MaxHandlers \in Int
        /\ outcome \in [Index -> Outcomes]
    BY HandlersAssumption DEF Inv, TypeOK
  <2>1. CASE strategy = "Sequential"
    <3>1. ASSUME phase = "returned", NEW i \in Registered PROVE outcome[i] = "succeeded"
      BY <2>0, <2>1, <3>1 DEF Inv, SequentialInv, Registered, Index
    <3>2. ASSUME phase \in {"askTyped", "askGlobal", "threw"}
          PROVE  carried # {} /\ carried = Having({"failed", "threwCancel"})
      <4>1. position > 1 /\ carried = {position - 1} /\ outcome[position - 1] = "failed"
        BY <2>1, <3>2 DEF Inv, SequentialInv, Asked
      <4>2. position - 1 \in Index
        BY <2>0, <4>1 DEF Inv, TypeOK, Index
      <4>3. \A i \in Index : outcome[i] \in {"failed", "threwCancel"} => i = position - 1
        BY <2>0, <2>1, <4>1 DEF Inv, SequentialInv, Called, Index
      <4> QED
        BY <4>1, <4>2, <4>3 DEF Having
    <3> QED
      BY <3>1, <3>2 DEF FailuresReported
  <2>2. CASE strategy = "Parallel"
    <3>1. ASSUME phase = "returned", NEW i \in Registered PROVE outcome[i] = "succeeded"
      <4>1. i \in Index /\ outcome[i] # "none"
        BY <2>0, <2>2, <3>1 DEF Inv, ParallelInv, Called, Registered, Index
      <4>2. outcome[i] \notin {"running", "failed", "threwCancel", "canceled"}
        BY <2>2, <3>1, <4>1 DEF Inv, ParallelInv, Running, Faulted, Having
      <4> QED
        BY <2>0, <4>1, <4>2 DEF Outcomes, CallOutcomes, TaskOutcomes
    <3>2. ASSUME phase \in {"askTyped", "askGlobal", "threw"}
          PROVE  carried # {} /\ carried = Having({"failed", "threwCancel"})
      BY <2>2, <3>2 DEF Inv, ParallelInv, Asked, Faulted
    <3> QED
      BY <3>1, <3>2 DEF FailuresReported
  <2> QED
    BY <2>1, <2>2 DEF Inv, TypeOK, Strategies
<1> QED
  BY <1>1, Invariance, PTL

\* A cancellation reaches the exception handlers only where a handler throws it out of
\* its call under ParallelStrategy: one that ends a task, and any under
\* SequentialStrategy, is never caught.
THEOREM OnlyThrownCancellationsCaught ==
  Spec => [](strategy = "Sequential" \/ Having({"threwCancel"}) = {} => CancellationNeverCaught)
<1>1. Inv => (strategy = "Sequential" \/ Having({"threwCancel"}) = {} => CancellationNeverCaught)
  <2> SUFFICES ASSUME Inv, phase \in {"askTyped", "askGlobal"},
                      strategy = "Sequential" \/ Having({"threwCancel"}) = {}
               PROVE  Having({"failed"}) # {}
    BY DEF CancellationNeverCaught
  <2>0. /\ handlers \in Int /\ position \in Int /\ handlers <= MaxHandlers /\ MaxHandlers \in Int
        /\ position <= handlers + 1
    BY HandlersAssumption DEF Inv, TypeOK
  <2>1. CASE strategy = "Sequential"
    <3>1. outcome[position - 1] = "failed" /\ position - 1 \in Index
      BY <2>0, <2>1 DEF Inv, SequentialInv, Asked, Index
    <3> QED
      BY <3>1 DEF Having
  <2>2. CASE strategy = "Parallel" /\ Having({"threwCancel"}) = {}
    <3>1. Faulted # {}
      BY <2>2 DEF Inv, ParallelInv, Asked
    <3> QED
      BY <2>2, <3>1 DEF Faulted, Having
  <2> QED
    BY <2>1, <2>2 DEF Inv, TypeOK, Strategies
<1> QED
  BY <1>1, Invariance, PTL
-----------------------------------------------------------------------------
(* Refinement of NotificationDelivery.                                      *)

states == [i \in Index |-> Seen(outcome[i])]

\* How the promise sees a handler.
LEMMA SeenValues ==
  ASSUME TypeOK, NEW i \in Index
  PROVE  /\ states[i] = Seen(outcome[i])
         /\ outcome[i] = "none" <=> states[i] = "waiting"
         /\ outcome[i] = "running" <=> states[i] = "running"
         /\ outcome[i] = "succeeded" <=> states[i] = "succeeded"
         /\ states[i] = "canceled" <=>
              \/ outcome[i] = "canceled"
              \/ outcome[i] = "threwCancel" /\ strategy = "Sequential"
         /\ states[i] = "failed" <=>
              \/ outcome[i] = "failed"
              \/ outcome[i] = "threwCancel" /\ strategy = "Parallel"
<1>1. outcome[i] \in Outcomes /\ strategy \in Strategies /\ states[i] = Seen(outcome[i])
  BY DEF TypeOK, states
<1> QED
  BY <1>1 DEF Seen, Outcomes, CallOutcomes, TaskOutcomes, Strategies

\* One handler's outcome changes: so does its state, and no other.
LEMMA StateBecomes ==
  ASSUME TypeOK, NEW i \in Index, NEW what \in Outcomes, Became(i, what), strategy' = strategy
  PROVE  states' = [states EXCEPT ![i] = Seen(what)]
<1>1. outcome'[i] = what /\ \A j \in Index : j # i => outcome'[j] = outcome[j]
  BY BecameOutcome
<1>2. \A w : Seen(w)' = Seen(w')
  BY DEF Seen
<1> QED
  BY <1>1 DEF states, Seen

\* No handler ends, and no other begins, once the strategy is over.
LEMMA RunningMeansUntold ==
  ASSUME Inv, NEW i \in Index, outcome[i] = "running"
  PROVE  phase \in {"publishing", "awaiting"} /\ Told = Delivery!Pending
<1>1. phase \in {"publishing", "awaiting"}
  BY RunningInStrategy
<1> QED
  BY <1>1 DEF Told, Over, Delivery!Pending, Delivery!Verdict

\* What the exception handlers are asked about is what failed, and all that will run has.
LEMMA CarriedFailed ==
  ASSUME Inv, phase \in {"askTyped", "askGlobal"}
  PROVE  /\ carried # {}
         /\ carried = {i \in Registered : states[i] = "failed"}
         /\ Delivery!Complete(states)
<1>0. /\ handlers \in Int /\ position \in Int /\ handlers <= MaxHandlers /\ MaxHandlers \in Int
      /\ position <= handlers + 1 /\ TypeOK
  BY HandlersAssumption DEF Inv, TypeOK
<1>1. \A i \in Registered : i \in Index
  BY <1>0 DEF Registered, Index
<1>2. CASE strategy = "Sequential"
  <2>1. /\ position > 1 /\ carried = {position - 1} /\ outcome[position - 1] = "failed"
        /\ position - 1 \in Registered
    BY <1>0, <1>2 DEF Inv, SequentialInv, Asked, Registered
  <2>2. \A i \in Registered : i # position - 1 => outcome[i] \in {"none", "succeeded"}
    BY <1>0, <1>1, <1>2, <2>1 DEF Inv, SequentialInv, Called, Index
  <2>3. states[position - 1] = "failed"
    BY <1>0, <1>1, <2>1, SeenValues
  <2>4. \A i \in Registered : i # position - 1 => states[i] \in {"waiting", "succeeded"}
    BY <1>0, <1>1, <2>2, SeenValues
  <2>5. Delivery!Complete(states)
    BY <1>2, <2>1, <2>3, <2>4 DEF Delivery!Complete
  <2> QED
    BY <2>1, <2>3, <2>4, <2>5
<1>3. CASE strategy = "Parallel"
  <2>1. carried = Faulted /\ carried # {} /\ Running = {} /\ position = handlers + 1
    BY <1>3 DEF Inv, ParallelInv, Asked
  <2>2. carried \subseteq Registered
    BY <1>0 DEF TypeOK
  <2>3. \A i \in Index : states[i] = "failed" <=> i \in Faulted
    BY <1>0, <1>3, SeenValues DEF Faulted, Having, Strategies
  <2>4. \A i \in Registered : outcome[i] \notin {"none", "running"}
    BY <1>0, <1>1, <2>1 DEF Inv, Called, Registered, Running, Having
  <2>5. \A i \in Registered : states[i] \in Delivery!Ends
    <3> SUFFICES ASSUME NEW i \in Registered PROVE states[i] \in Delivery!Ends
      OBVIOUS
    <3>1. i \in Index /\ outcome[i] \in Outcomes /\ outcome[i] \notin {"none", "running"}
      BY <1>0, <1>1, <2>4 DEF TypeOK
    <3> QED
      BY <1>0, <1>3, <3>1, SeenValues
         DEF Delivery!Ends, Outcomes, CallOutcomes, TaskOutcomes
  <2>6. Delivery!Complete(states)
    BY <2>5 DEF Delivery!Complete
  <2> QED
    BY <1>1, <2>1, <2>2, <2>3, <2>6
<1> QED
  BY <1>0, <1>2, <1>3 DEF TypeOK, Strategies

\* A publish begins as the promise does.
LEMMA DeliveryInit == Init => Delivery!Init
<1> SUFFICES ASSUME Init PROVE Delivery!Init
  OBVIOUS
<1>1. Registered \in SUBSET Index
  BY HandlersAssumption DEF Init, Registered, Index
<1> QED
  BY <1>1 DEF Init, Seen, Told, Over, Delivery!Init, Delivery!Pending, Delivery!Verdict

\* The sender is told what a cancellation in a sequential publish warrants.
LEMMA CancellationIsTold ==
  ASSUME Inv, NEW i \in Registered, strategy = "Sequential",
         strategy' = strategy, handlers' = handlers, phase' = "canceled",
         states'[i] = "canceled",
         \A j \in Registered : j # i => states'[j] \in {"waiting", "succeeded"}
  PROVE  Delivery!Tell
<1>1. Told' = Delivery!Verdict("canceled", {})
  BY DEF Told, Over, Delivery!Verdict
<1>2. Registered' = Registered
  BY DEF Registered
<1>3. Delivery!Complete(states')
  BY DEF Delivery!Complete
<1>4. {j \in Registered : states'[j] = "failed"} = {} /\ i \in {j \in Registered : states'[j] = "canceled"}
  OBVIOUS
<1>5. Told' \in Delivery!Warranted(states')
  BY <1>1, <1>4 DEF Delivery!Warranted
<1> QED
  BY <1>3, <1>5 DEF Delivery!Tell, states

\* A call begins a handler, in turn if the strategy is sequential.
LEMMA CallDelivers ==
  ASSUME Inv, CallSequential \/ CallParallel
  PROVE  Delivery!Next
<1>1. PICK what \in CallOutcomes :
        /\ Became(position, what)
        /\ CallSequential => SequentialResult(position, what)
  BY DEF CallSequential, CallParallel
<1>2. /\ position \in Index /\ position \in Registered /\ what \in Outcomes /\ TypeOK
      /\ strategy' = strategy /\ handlers' = handlers /\ phase = "publishing"
      /\ position \in Int /\ handlers \in Int
      /\ CallSequential <=> strategy = "Sequential"
  BY <1>1, HandlersAssumption
     DEF CallSequential, CallParallel, Inv, TypeOK, Index, Registered, Outcomes
<1>3. Told = Delivery!Pending /\ Registered' = Registered /\ Registered \subseteq Index
  BY <1>2, HandlersAssumption
     DEF Told, Over, Delivery!Pending, Delivery!Verdict, Registered, Index, Inv, TypeOK
<1>4. states' = [states EXCEPT ![position] = Seen(what)]
  BY <1>1, <1>2, StateBecomes
<1>5. Seen(what) \in {"running"} \cup Delivery!Ends
  BY <1>2 DEF Seen, Delivery!Ends, CallOutcomes, TaskOutcomes
<1>6. outcome[position] = "none" /\ states[position] = "waiting"
  BY <1>2, SeenValues DEF Inv, Called
<1>7. strategy = "Sequential" =>
        \A j \in Registered : j < position => states[j] = "succeeded"
  BY <1>2, <1>3, CallFollowsSuccess, SeenValues
<1>8. Delivery!Begin(position)
  BY <1>2, <1>4, <1>5, <1>6, <1>7 DEF Delivery!Begin, states
<1>9. Told' = Told \/ Delivery!Tell
  <2>1. CASE phase' # "canceled"
    <3>1. phase' \in {"publishing", "askTyped"}
      BY <1>1, <1>2, <2>1 DEF CallParallel, CallSequential, SequentialResult, Escapes
    <3> QED
      BY <1>2, <3>1 DEF Told, Over
  <2>2. CASE phase' = "canceled"
    <3>1. strategy = "Sequential" /\ what \in {"canceled", "threwCancel"}
      BY <1>1, <1>2, <2>2
         DEF CallParallel, CallSequential, SequentialResult, Escapes, CallOutcomes, TaskOutcomes
    <3>2. \A j \in Index : j # position => states'[j] = states[j]
      BY <1>4 DEF states
    <3>3. states'[position] = "canceled"
      BY <1>2, <1>4, <3>1 DEF Seen, states
    <3>4. \A j \in Registered : j # position => states[j] \in {"waiting", "succeeded"}
      <4> SUFFICES ASSUME NEW j \in Registered, j # position
                   PROVE  outcome[j] \in {"none", "succeeded"}
        BY <1>2, <1>3, SeenValues
      <4> QED
        BY <1>2, <1>3, <3>1, CallFollowsSuccess, HandlersAssumption DEF Inv, Called, Index
    <3> QED
      BY <1>2, <1>3, <2>2, <3>1, <3>2, <3>3, <3>4, CancellationIsTold
  <2> QED
    BY <2>1, <2>2
<1> QED
  BY <1>2, <1>3, <1>8, <1>9 DEF Delivery!Next

\* The end of a task is the end of its handler.
LEMMA TaskEndDelivers ==
  ASSUME Inv, NEW i \in Index, TaskEnds(i)
  PROVE  Delivery!Next
<1>1. PICK what \in TaskOutcomes :
        /\ Became(i, what)
        /\ strategy = "Sequential" => SequentialResult(i, what)
        /\ strategy = "Parallel" => phase' = phase
  BY DEF TaskEnds, SequentialTaskEnds, ParallelTaskEnds
<1>2. /\ what \in Outcomes /\ TypeOK /\ outcome[i] = "running"
      /\ strategy' = strategy /\ handlers' = handlers
      /\ position \in Int /\ handlers \in Int /\ handlers <= MaxHandlers
  BY <1>1, HandlersAssumption
     DEF TaskEnds, SequentialTaskEnds, ParallelTaskEnds, Inv, TypeOK, Outcomes, CallOutcomes
<1>3. /\ Told = Delivery!Pending /\ Registered' = Registered /\ Registered \subseteq Index
      /\ phase \in {"publishing", "awaiting"}
  BY <1>2, HandlersAssumption, RunningMeansUntold DEF Registered, Index
<1>4. states' = [states EXCEPT ![i] = Seen(what)]
  BY <1>1, <1>2, StateBecomes
<1>5. Seen(what) = what /\ what \in Delivery!Ends
  BY DEF Seen, Delivery!Ends, TaskOutcomes
<1>6. states[i] = "running"
  BY <1>2, SeenValues
<1>7. Delivery!End(i)
  BY <1>4, <1>5, <1>6 DEF Delivery!End, states
<1>8. Told' = Told \/ Delivery!Tell
  <2>1. CASE phase' # "canceled"
    <3>1. phase' \in {"publishing", "awaiting", "askTyped"}
      BY <1>1, <1>2, <1>3, <2>1 DEF SequentialResult, Escapes, TypeOK, Strategies
    <3> QED
      BY <1>3, <3>1 DEF Told, Over
  <2>2. CASE phase' = "canceled"
    <3>1. strategy = "Sequential" /\ what = "canceled"
      BY <1>1, <1>2, <1>3, <2>2
         DEF SequentialResult, Escapes, TaskOutcomes, TypeOK, Strategies
    <3>2. i = position - 1
      BY <1>2, <3>1, HandlersAssumption DEF Inv, Called, SequentialInv, Index
    <3>3. i \in Registered
      BY <1>2, <3>2, HandlersAssumption DEF Registered, Index, Inv, TypeOK
    <3>4. \A j \in Registered : j # i => states[j] \in {"waiting", "succeeded"}
      <4> SUFFICES ASSUME NEW j \in Registered, j # i
                   PROVE  outcome[j] \in {"none", "succeeded"}
        BY <1>2, <1>3, SeenValues
      <4> QED
        BY <1>2, <1>3, <3>1, <3>2, HandlersAssumption
           DEF Inv, Called, SequentialInv, Index, Registered
    <3>5. /\ states'[i] = "canceled"
          /\ \A j \in Index : j # i => states'[j] = states[j]
      BY <1>4, <1>5, <3>1 DEF states
    <3> QED
      BY <1>2, <1>3, <2>2, <3>1, <3>3, <3>4, <3>5, CancellationIsTold
  <2> QED
    BY <2>1, <2>2
<1> QED
  BY <1>2, <1>3, <1>7, <1>8 DEF Delivery!Next

\* A step that leaves the handlers alone and tells the sender what is warranted, or nothing.
LEMMA TellingDelivers ==
  ASSUME Inv, UNCHANGED <<strategy, handlers, outcome>>, Told = Delivery!Pending,
         \/ Told' = Told
         \/ Delivery!Complete(states) /\ Told' \in Delivery!Warranted(states)
  PROVE  [Delivery!Next]_Delivery!pvars
<1>1. states' = states /\ Registered' = Registered
  BY DEF states, Seen, Registered
<1>2. CASE Told' = Told
  BY <1>1, <1>2 DEF Delivery!pvars, states
<1>3. CASE Delivery!Complete(states) /\ Told' \in Delivery!Warranted(states)
  BY <1>1, <1>3 DEF Delivery!Next, Delivery!Tell, states
<1> QED
  BY <1>2, <1>3

\* The loop and WhenAll end: the sender is told, unless exception handlers are asked first.
LEMMA StrategyEndDelivers ==
  ASSUME Inv, SequentialDone \/ AllCalled \/ WhenAllEnds
  PROVE  [Delivery!Next]_Delivery!pvars
<1>1. /\ UNCHANGED <<strategy, handlers, outcome>> /\ TypeOK
      /\ phase \in {"publishing", "awaiting"}
  BY DEF SequentialDone, AllCalled, WhenAllEnds, Inv
<1>2. Told = Delivery!Pending
  BY <1>1 DEF Told, Over, Delivery!Pending, Delivery!Verdict
<1>3. CASE phase' \in {"awaiting", "askTyped"}
  <2>1. Told' = Told
    BY <1>1, <1>3 DEF Told, Over
  <2> QED
    BY <1>1, <1>2, <2>1, TellingDelivers
<1>4. CASE phase' \in {"returned", "canceled"}
  <2>1. /\ Running = {} /\ Registered \subseteq Index
        /\ \A i \in Registered : outcome[i] # "none"
        /\ phase' = "canceled" => Faulted = {} /\ Having({"canceled"}) # {}
        /\ phase' = "returned" =>
             IF strategy = "Parallel" THEN Faulted = {} /\ Having({"canceled"}) = {}
             ELSE \A i \in Registered : outcome[i] = "succeeded"
        /\ phase' = "canceled" => strategy = "Parallel"
    <3>1. CASE SequentialDone
      <4>1. /\ position = handlers + 1 /\ Running = {} /\ Registered \subseteq Index
            /\ strategy = "Sequential" /\ phase = "publishing" /\ phase' = "returned"
            /\ position \in Int /\ handlers \in Int
        BY <3>1, HandlersAssumption DEF SequentialDone, Inv, TypeOK, Registered, Index
      <4>2. \A i \in Registered : outcome[i] = "succeeded"
        <5> SUFFICES ASSUME NEW i \in Registered PROVE outcome[i] = "succeeded"
          OBVIOUS
        <5>1. CASE i = position - 1
          BY <4>1, <5>1 DEF Inv, SequentialInv, Running, Having, Registered
        <5>2. CASE i # position - 1
          BY <4>1, <5>2 DEF Inv, SequentialInv, Registered
        <5> QED
          BY <5>1, <5>2
      <4> QED
        BY <4>1, <4>2
    <3>2. CASE WhenAllEnds
      <4>1. /\ strategy = "Parallel" /\ Running = {} /\ position = handlers + 1
            /\ Registered \subseteq Index /\ position \in Int /\ handlers \in Int
        BY <3>2, HandlersAssumption
           DEF WhenAllEnds, AllEnded, Inv, TypeOK, SequentialInv, ParallelInv, Strategies,
               Registered, Index
      <4>2. \A i \in Registered : outcome[i] # "none"
        BY <4>1 DEF Inv, Called, Registered
      <4> QED
        BY <3>2, <4>1, <4>2 DEF WhenAllEnds
    <3>3. CASE AllCalled
      BY <1>4, <3>3 DEF AllCalled
    <3> QED
      BY <3>1, <3>2, <3>3
  <2>2. ASSUME NEW i \in Registered
        PROVE  /\ states[i] \in {"succeeded", "canceled"}
               /\ phase' = "returned" => states[i] = "succeeded"
    <3>1. i \in Index /\ outcome[i] \in Outcomes /\ outcome[i] \notin {"none", "running"}
      BY <1>1, <2>1, <2>2 DEF Running, Having, TypeOK
    <3>2. CASE strategy = "Parallel"
      <4>1. /\ outcome[i] \notin {"failed", "threwCancel"}
            /\ phase' = "returned" => outcome[i] # "canceled"
        BY <1>4, <2>1, <3>1, <3>2 DEF Faulted, Having
      <4> QED
        BY <1>1, <3>1, <4>1, SeenValues DEF Outcomes, CallOutcomes, TaskOutcomes
    <3>3. CASE strategy # "Parallel"
      BY <1>1, <1>4, <2>1, <2>2, <3>1, <3>3, SeenValues
    <3> QED
      BY <3>2, <3>3
  <2>3. phase' = "canceled" => \E i \in Registered : states[i] = "canceled"
    <3> SUFFICES ASSUME phase' = "canceled" PROVE \E i \in Registered : states[i] = "canceled"
      OBVIOUS
    <3>1. PICK i \in Index : outcome[i] = "canceled"
      BY <2>1 DEF Having
    <3>2. i \in Registered
      BY <2>1, <3>1, HandlersAssumption DEF Inv, TypeOK, Called, Registered, Index
    <3> QED
      BY <1>1, <2>1, <3>1, <3>2, SeenValues
  <2>4. Delivery!Complete(states)
    BY <2>2 DEF Delivery!Complete, Delivery!Ends
  <2>5. Told' = Delivery!Verdict(phase', {})
    BY <1>4 DEF Told, Over, Delivery!Verdict
  <2>6. /\ {i \in Registered : states[i] = "failed"} = {}
        /\ phase' = "canceled" <=> {i \in Registered : states[i] = "canceled"} # {}
    BY <1>4, <2>2, <2>3
  <2>7. Told' \in Delivery!Warranted(states)
    BY <1>4, <2>5, <2>6 DEF Delivery!Warranted
  <2> QED
    BY <1>1, <1>2, <2>4, <2>7, TellingDelivers
<1> QED
  BY <1>3, <1>4 DEF SequentialDone, AllCalled, WhenAllEnds

\* The last exception handler to be asked decides what the sender is told of the failures.
LEMMA AskDelivers ==
  ASSUME Inv, AskTyped \/ AskGlobal
  PROVE  [Delivery!Next]_Delivery!pvars
<1>1. /\ UNCHANGED <<strategy, handlers, outcome, carried>>
      /\ phase \in {"askTyped", "askGlobal"}
      /\ phase' \in {"swallowed", "threw", "replaced", "askGlobal"}
  BY DEF AskTyped, AskGlobal
<1>2. Told = Delivery!Pending
  BY <1>1 DEF Told, Over, Delivery!Pending, Delivery!Verdict
<1>3. /\ carried # {}
      /\ carried = {i \in Registered : states[i] = "failed"}
      /\ Delivery!Complete(states)
  BY <1>1, CarriedFailed
<1>4. CASE phase' = "askGlobal"
  <2>1. Told' = Told
    BY <1>1, <1>4 DEF Told, Over
  <2> QED
    BY <1>1, <1>2, <2>1, TellingDelivers
<1>5. CASE phase' # "askGlobal"
  <2>1. Told' = Delivery!Verdict(phase', IF phase' = "replaced" THEN {} ELSE carried)
    BY <1>1, <1>5 DEF Told, Over, Delivery!Verdict
  <2>2. Told' \in Delivery!Warranted(states)
    BY <1>1, <1>3, <1>5, <2>1 DEF Delivery!Warranted
  <2> QED
    BY <1>1, <1>2, <1>3, <2>2, TellingDelivers
<1> QED
  BY <1>4, <1>5

\* Every step of a publish is a step of the promise or leaves it as it is.
LEMMA DeliveryStep ==
  ASSUME Inv, [Next]_vars
  PROVE  [Delivery!Next]_Delivery!pvars
<1>1. CASE CallSequential \/ CallParallel
  BY <1>1, CallDelivers
<1>2. ASSUME NEW i \in Index, TaskEnds(i) PROVE Delivery!Next
  BY <1>2, TaskEndDelivers
<1>3. CASE SequentialDone \/ AllCalled \/ WhenAllEnds
  BY <1>3, StrategyEndDelivers
<1>4. CASE AskTyped \/ AskGlobal
  BY <1>4, AskDelivers
<1>5. CASE UNCHANGED vars
  BY <1>5 DEF vars, Delivery!pvars, Seen, Told, Registered
<1> QED
  BY <1>1, <1>2, <1>3, <1>4, <1>5 DEF Next, Publish, Ended

\* Both strategies, with the exception handlers behind them, deliver a notification as
\* NotificationDelivery promises.
THEOREM ImplementsDelivery == Spec => PublishesAsPromised
<1>1. Inv /\ [Next]_vars => [Delivery!Next]_Delivery!pvars
  BY DeliveryStep
<1> QED
  BY <1>1, DeliveryInit, Invariance, PTL DEF Spec, Delivery!Spec, PublishesAsPromised
=============================================================================
