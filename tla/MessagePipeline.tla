---------------------------- MODULE MessagePipeline ----------------------------
(***************************************************************************)
(* One middleware pipeline, a singleton shared by all senders: requests,     *)
(* commands and notifications each have one of this shape.  Its field         *)
(* _pipeline is written by Setup and, on first use, by whoever reads null,    *)
(* without a lock.                                                           *)
(*                                                                          *)
(* Configurators call Setup with middleware of their own; senders call        *)
(* InvokeAsync, which reads the property Pipeline and runs the delegate.      *)
(***************************************************************************)
EXTENDS Integers, Sequences

CONSTANTS
  Senders,         \* threads that send one message each
  Configurators,   \* threads that call Setup once each
  Uses,            \* what each of them passes to Use, in order; senders: the default
  Invoker,         \* the built-in component that calls the handlers
  Null             \* _pipeline before anything is stored

Threads == Senders \cup Configurators

ASSUME ThreadsAssumption == Senders \cap Configurators = {}

Components == UNION {{Uses[t][i] : i \in DOMAIN Uses[t]} : t \in Threads}

ASSUME UsesAssumption == \A t \in Threads : Uses[t] \in Seq(Components)

VARIABLES
  pipeline,   \* _pipeline
  pc,         \* where each thread is
  local,      \* the delegate each thread built, returned or runs
  at,         \* the stage a sender's delegate calls next
  entered,    \* the components a sender's message has entered
  early       \* whether a sender began while a Setup was still to end

vars == <<pipeline, pc, local, at, entered, early>>

SetupStates == {"idle", "setup", "store", "reread"}
SenderStates == SetupStates \cup
  {"assign", "running", "completed", "stopped", "threw", "failed"}
ConfiguratorStates == SetupStates \cup {"returned", "failed"}

\* Fault: Build folds from the first component to the last.
BuildForward(t) ==
  [owner |-> t, entry |-> Len(Uses[t]), next |-> [i \in DOMAIN Uses[t] |-> i - 1]]

\* A composed delegate: who composed it, the stage it calls first, and the next of
\* each stage.  Build folds from the last component to the first, so each is handed
\* what was built of those behind it; what is no stage completes at once.
Build(t) == [owner |-> t, entry |-> 1, next |-> [i \in DOMAIN Uses[t] |-> i + 1]]

Delegates == {Build(t) : t \in Threads}

ASSUME NullAssumption == Null \notin Delegates

Init ==
  /\ pipeline = Null
  /\ pc = [t \in Threads |-> "idle"]
  /\ local = [t \in Threads |-> Null]
  /\ at = [s \in Senders |-> 0]
  /\ entered = [s \in Senders |-> <<>>]
  /\ early = FALSE

Goto(t, state) == pc' = [pc EXCEPT ![t] = state]
Keep(t, delegate) == local' = [local EXCEPT ![t] = delegate]

SetupsOver == \A c \in Configurators : pc[c] \in {"returned", "failed"}
-----------------------------------------------------------------------------
(* Setup, called by a configurator or by the getter of Pipeline.            *)

CallSetup(c) ==
  /\ pc[c] = "idle"
  /\ Goto(c, "setup")
  /\ UNCHANGED <<pipeline, local, at, entered, early>>

Compose(t) ==
  /\ pc[t] = "setup"
  /\ Keep(t, Build(t))
  /\ Goto(t, "store")
  /\ UNCHANGED <<pipeline, at, entered, early>>

\* Fault: the field is cleared before the new pipeline is composed.
AfterThrow == Null

\* The setup action or a component's construction throws; _pipeline stays.
KeptByThrow == pipeline

ComposeThrows(t) ==
  /\ pc[t] = "setup"
  /\ pipeline' = KeptByThrow
  /\ Goto(t, "failed")
  /\ UNCHANGED <<local, at, entered, early>>

Store(t) ==
  /\ pc[t] = "store"
  /\ pipeline' = local[t]
  /\ Goto(t, "reread")
  /\ UNCHANGED <<local, at, entered, early>>

\* "return _pipeline" is a second read of a plain field: it gives what is there
\* now, or what this thread has just stored.
Reread(t) ==
  /\ pc[t] = "reread"
  /\ \E delegate \in {local[t], pipeline} : Keep(t, delegate)
  /\ Goto(t, IF t \in Senders THEN "assign" ELSE "returned")
  /\ UNCHANGED <<pipeline, at, entered, early>>
-----------------------------------------------------------------------------
(* InvokeAsync: _pipeline ??= Setup(default), then the delegate runs.       *)

\* Fault: the default replaces what is there.
WantsDefault == TRUE

FoundNull == pipeline = Null

Start(s, delegate) ==
  /\ Keep(s, delegate)
  /\ at' = [at EXCEPT ![s] = delegate.entry]
  /\ Goto(s, "running")
  /\ UNCHANGED entered

Begins == early' = (early \/ ~SetupsOver)

AccessBuilt(s) ==
  /\ pc[s] = "idle" /\ ~FoundNull
  /\ Start(s, pipeline)
  /\ Begins
  /\ UNCHANGED pipeline

AccessFirst(s) ==
  /\ pc[s] = "idle" /\ FoundNull
  /\ Goto(s, "setup")
  /\ Begins
  /\ UNCHANGED <<pipeline, local, at, entered>>

\* The assignment of ??= stores once more what Setup returned.
Assign(s) ==
  /\ pc[s] = "assign"
  /\ pipeline' = local[s]
  /\ Start(s, local[s])
  /\ UNCHANGED early
-----------------------------------------------------------------------------
(* The delegate runs.                                                       *)

\* Fault: a stage looks up the pipeline again to find the next.
LooksUpAgain(s) == pipeline

Runs(s) == local[s]

Stage(s) == Uses[Runs(s).owner][at[s]]

InStage(s) == pc[s] = "running" /\ at[s] \in DOMAIN Runs(s).next

Enter(s) == entered' = [entered EXCEPT ![s] = Append(@, Stage(s))]

\* A component calls next, as the built-in one does when the handlers are done.
CallNext(s) ==
  /\ InStage(s)
  /\ Enter(s)
  /\ at' = [at EXCEPT ![s] = Runs(s).next[@]]
  /\ UNCHANGED <<pipeline, pc, local, early>>

\* A component throws.  Only one that is not built in may return without next.
EndInStage(s) ==
  /\ InStage(s)
  /\ Enter(s)
  /\ \/ Goto(s, "threw")
     \/ Stage(s) # Invoker /\ Goto(s, "stopped")
  /\ UNCHANGED <<pipeline, local, at, early>>

\* The innermost delegate does nothing.
Complete(s) ==
  /\ pc[s] = "running" /\ at[s] \notin DOMAIN Runs(s).next
  /\ Goto(s, "completed")
  /\ UNCHANGED <<pipeline, local, at, entered, early>>
-----------------------------------------------------------------------------
Setup(t) == Compose(t) \/ ComposeThrows(t) \/ Store(t) \/ Reread(t)

Invoke(s) ==
  \/ AccessBuilt(s) \/ AccessFirst(s) \/ Assign(s)
  \/ CallNext(s) \/ EndInStage(s) \/ Complete(s)

Next ==
  \/ \E c \in Configurators : CallSetup(c)
  \/ \E t \in Threads : Setup(t)
  \/ \E s \in Senders : Invoke(s)

Spec == Init /\ [][Next]_vars
-----------------------------------------------------------------------------
(* Properties.                                                              *)

Begun(s) == pc[s] \in {"running", "completed", "stopped", "threw"}

Composed(t) == pc[t] \in {"store", "reread", "assign"} \/ (t \in Senders /\ Begun(t))

\* Whoever reads _pipeline after a Setup has stored into it finds a delegate, and a
\* sender never runs null: nothing takes a stored pipeline away.
TypeOK ==
  /\ pipeline \in Delegates \cup {Null}
  /\ pc \in [Threads -> SenderStates \cup ConfiguratorStates]
  /\ local \in [Threads -> Delegates \cup {Null}]
  /\ at \in [Senders -> Int]
  /\ entered \in [Senders -> Seq(Components)]
  /\ early \in BOOLEAN
  /\ \A t \in Threads : Composed(t) => local[t] # Null
  /\ \A t \in Threads : pc[t] \in {"reread", "assign", "returned"} => pipeline # Null

\* A message goes through the components of one pipeline, in the order of the calls
\* of Use, whatever Setup or other senders do to the field meanwhile, and through
\* all of them when it completes.
MiddlewareInOrder ==
  \A s \in Senders : Begun(s) =>
    LET uses == Uses[local[s].owner] IN
      /\ Len(entered[s]) <= Len(uses)
      /\ \A i \in DOMAIN entered[s] : entered[s][i] = uses[i]
      /\ pc[s] = "completed" => Len(entered[s]) = Len(uses)

\* "Pipelines are singletons configured once at startup": if every Setup ended
\* before the first send, every message runs a pipeline that a Setup which did
\* not throw composed, if there is one, and all messages run the same.
StartupConfigurationHolds ==
  ~early /\ (\E c \in Configurators : pc[c] = "returned") =>
    \A s, r \in Senders : Begun(s) =>
      /\ local[s].owner \in Configurators
      /\ pc[local[s].owner] = "returned"
      /\ Begun(r) => local[r] = local[s]

\* "Configures the pipeline": when some Setup has returned and none is under way,
\* the pipeline is one that a Setup composed.
SetupSticks ==
  SetupsOver /\ (\E c \in Configurators : pc[c] = "returned") =>
    pipeline.owner \in Configurators
-----------------------------------------------------------------------------
(* Refinement: the field and its users deliver what MiddlewareDelivery says.  *)

\* The default configures the same for all who fall back on it.
ASSUME DefaultAssumption == \A s, r \in Senders : Uses[s] = Uses[r]

Name(delegate) ==
  IF delegate = Null THEN [kind |-> "none"]
  ELSE IF delegate.owner \in Configurators THEN [kind |-> "setup", setup |-> delegate.owner]
  ELSE [kind |-> "default"]

SetupState(c) ==
  IF pc[c] \in {"idle", "setup"} THEN "open" ELSE IF pc[c] = "failed" THEN "failed" ELSE "made"

\* A sender that found null has a message of its own under way once it has assigned.
Fate(s) ==
  IF pc[s] = "idle" THEN "new"
  ELSE IF pc[s] \in {"setup", "store", "reread", "assign"} THEN "first"
  ELSE IF pc[s] = "running" THEN "under way"
  ELSE pc[s]

Delivery == INSTANCE MiddlewareDelivery WITH
  Messages <- Senders,
  Setups <- Configurators,
  DefaultUses <- Uses[CHOOSE s \in Senders : TRUE],
  setup <- [c \in Configurators |-> SetupState(c)],
  inForce <- Name(pipeline),
  fate <- [s \in Senders |-> Fate(s)],
  route <- [s \in Senders |-> IF Begun(s) THEN Name(local[s]) ELSE [kind |-> "none"]],
  visited <- entered

\* Every behaviour of the pipeline is one of the promise: no thread takes a pipeline
\* out of force or puts into force what a Setup that threw has left, no message changes
\* its pipeline, and each step of a message is to the next component of that one.
TakesOnePipeline == Delivery!Spec
=============================================================================
