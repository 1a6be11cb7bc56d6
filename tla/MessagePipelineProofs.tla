------------------------- MODULE MessagePipelineProofs -------------------------
(***************************************************************************)
(* The safety properties of MessagePipeline for any senders, configurators    *)
(* and middleware.                                                           *)
(*                                                                          *)
(* Path says where a message is in its own delegate; Owner, which Setup the    *)
(* field comes from; Settled, what the end of all Setups before the first     *)
(* send leaves no thread to change.                                          *)
(***************************************************************************)
EXTENDS MessagePipeline, TLAPS

States ==
  /\ \A s \in Senders : pc[s] \in SenderStates
  /\ \A c \in Configurators : pc[c] \in ConfiguratorStates

\* A message has entered the components before the stage it is at.
PathOf(s) ==
  LET uses == Uses[local[s].owner] IN
    /\ Len(entered[s]) <= Len(uses)
    /\ \A i \in 1..Len(entered[s]) : entered[s][i] = uses[i]
    /\ pc[s] = "running" => at[s] = Len(entered[s]) + 1
    /\ pc[s] = "completed" => Len(entered[s]) = Len(uses)

Path ==
  \A s \in Senders : IF Begun(s) THEN PathOf(s) ELSE entered[s] = <<>>

\* A delegate that a configurator composed and that is not its own any more.
Origin(delegate) ==
  delegate # Null /\ delegate.owner \in Configurators =>
    pc[delegate.owner] \in {"reread", "returned"}

Owner ==
  /\ Origin(pipeline)
  /\ \A t \in Threads : IF pc[t] = "store" THEN local[t] = Build(t) ELSE Origin(local[t])

SomeReturned == \E c \in Configurators : pc[c] = "returned"

Configured == pipeline # Null /\ pipeline.owner \in Configurators

SendersIdle == \A s \in Senders : pc[s] = "idle"

\* While no sender has begun only a Setup has stored; later all are over.
Settled ==
  ~early =>
    \/ SendersIdle /\ (pipeline = Null \/ Configured)
    \/ /\ SetupsOver
       /\ SomeReturned =>
            /\ Configured
            /\ \A s \in Senders : pc[s] = "idle" \/ (Begun(s) /\ local[s] = pipeline)

Inv == TypeOK /\ States /\ Path /\ Owner /\ Settled
-----------------------------------------------------------------------------
(* Lemmas.                                                                  *)

\* What Build makes of a thread's components.
LEMMA BuildFacts ==
  ASSUME NEW t \in Threads
  PROVE  /\ Build(t) \in Delegates /\ Build(t) # Null
         /\ Build(t).owner = t /\ Build(t).entry = 1
         /\ DOMAIN Build(t).next = 1..Len(Uses[t])
         /\ \A i \in 1..Len(Uses[t]) : Build(t).next[i] = i + 1
  BY NullAssumption, UsesAssumption DEF Build, Delegates

\* The same, of a delegate whose composer is not known.
LEMMA DelegateFacts ==
  ASSUME NEW d \in Delegates
  PROVE  /\ d # Null /\ d.owner \in Threads /\ d = Build(d.owner) /\ d.entry = 1
         /\ DOMAIN d.next = 1..Len(Uses[d.owner])
         /\ \A i \in 1..Len(Uses[d.owner]) : d.next[i] = i + 1
  BY BuildFacts DEF Delegates

\* Inv holds before the first Setup and the first send.
LEMMA InitEstablishes == Init => Inv
<1> SUFFICES ASSUME Init PROVE Inv
  OBVIOUS
<1>1. TypeOK
  <2>1. entered \in [Senders -> Seq(Components)] /\ at \in [Senders -> Int]
    BY DEF Init
  <2>2. pc \in [Threads -> SenderStates \cup ConfiguratorStates]
    BY DEF Init, SenderStates, SetupStates
  <2>3. \A t \in Threads : pc[t] = "idle" /\ ~Composed(t)
    BY DEF Init, Composed, Begun, Threads
  <2> QED
    BY <2>1, <2>2, <2>3 DEF Init, TypeOK
<1>2. States /\ Path /\ Owner /\ Settled
  BY DEF Init, States, Path, Owner, Origin, Settled, SendersIdle, SenderStates, ConfiguratorStates,
     SetupStates, Begun, Threads
<1> QED
  BY <1>1, <1>2 DEF Inv

\* A configurator calls Setup: from here on not all Setups are over.
LEMMA CallSetupPreserves ==
  ASSUME Inv, NEW c \in Configurators, CallSetup(c) PROVE Inv'
<1>1. /\ c \in Threads /\ c \notin Senders /\ pc[c] = "idle"
      /\ pc' = [pc EXCEPT ![c] = "setup"] /\ pc \in [Threads -> SenderStates \cup ConfiguratorStates]
      /\ UNCHANGED <<pipeline, local, at, entered, early>>
  BY ThreadsAssumption DEF CallSetup, Goto, Threads, Inv, TypeOK
<1>2. \A t \in Threads : t # c => pc'[t] = pc[t]
  BY <1>1
<1>3. \A s \in Senders : s \in Threads /\ pc'[s] = pc[s]
  BY <1>1 DEF Threads
<1>4. TypeOK'
  BY <1>1, <1>2, <1>3 DEF Inv, TypeOK, Composed, Begun, SenderStates, SetupStates
<1>5. States'
  BY <1>1, <1>2, <1>3 DEF Inv, States, ConfiguratorStates, SetupStates, Threads
<1>6. Path'
  BY <1>1, <1>3 DEF Inv, Path, PathOf, Begun
<1>7. Owner'
  BY <1>1, <1>2 DEF Inv, Owner, Origin, Threads
<1>8. Settled'
  <2>1. ~SetupsOver
    BY <1>1 DEF SetupsOver
  <2> QED
    BY <2>1, <1>1, <1>3 DEF Inv, Settled, SendersIdle, Configured
<1> QED
  BY <1>4, <1>5, <1>6, <1>7, <1>8 DEF Inv

\* What the four steps of Setup have in common: only its thread moves, and it is
\* not one that runs a delegate.
LEMMA SetupStep ==
  ASSUME Inv, NEW t \in Threads, Setup(t)
  PROVE  /\ \A u \in Threads : u # t => pc'[u] = pc[u] /\ local'[u] = local[u]
         /\ pc' \in [Threads -> SenderStates \cup ConfiguratorStates]
         /\ pc[t] \in {"setup", "store", "reread"}
         /\ ~Begun(t) /\ ~Begun(t)'
         /\ UNCHANGED <<at, entered, early>>
  BY DEF Setup, Compose, ComposeThrows, Store, Reread, Goto, Keep, Inv, TypeOK, Begun,
     SenderStates, SetupStates, ConfiguratorStates

\* Setup moves no message along its delegate.
LEMMA SetupKeepsPath ==
  ASSUME Inv, NEW t \in Threads, Setup(t) PROVE Path' /\ States'
<1>1. Path'
  BY SetupStep DEF Inv, Path, PathOf, Begun, Threads
<1>2. States'
  BY SetupStep, ThreadsAssumption DEF Setup, Compose, ComposeThrows, Store, Reread, Goto, Inv,
     TypeOK, States, SenderStates, ConfiguratorStates, SetupStates, Threads
<1> QED
  BY <1>1, <1>2

\* Setup stores delegates only, its own ones.
LEMMA SetupKeepsType ==
  ASSUME Inv, NEW t \in Threads, Setup(t) PROVE TypeOK' /\ Owner'
<1>1. /\ pc \in [Threads -> SenderStates \cup ConfiguratorStates]
      /\ local \in [Threads -> Delegates \cup {Null}]
      /\ pipeline \in Delegates \cup {Null}
      /\ \A u \in Threads : u # t => pc'[u] = pc[u] /\ local'[u] = local[u]
      /\ UNCHANGED <<at, entered, early>>
  BY SetupStep DEF Inv, TypeOK
<1>2. Build(t) \in Delegates /\ Build(t) # Null /\ Build(t).owner = t
  BY BuildFacts
<1>3. CASE Compose(t)
  <2>1. /\ pipeline' = pipeline /\ pc'[t] = "store" /\ local'[t] = Build(t)
        /\ pc[t] = "setup" /\ local' \in [Threads -> Delegates \cup {Null}]
    BY <1>1, <1>2, <1>3 DEF Compose, Keep, Goto
  <2>2. TypeOK'
    BY <1>1, <1>2, <2>1, SetupStep DEF Inv, TypeOK, Composed, Begun
  <2>3. Owner'
    BY <1>1, <1>2, <2>1 DEF Inv, Owner, Origin, Threads
  <2> QED
    BY <2>2, <2>3
<1>4. CASE ComposeThrows(t)
  <2>1. pipeline' = pipeline /\ pc'[t] = "failed" /\ local' = local /\ pc[t] = "setup"
    BY <1>1, <1>4 DEF ComposeThrows, KeptByThrow, Goto
  <2>2. TypeOK'
    BY <1>1, <2>1, SetupStep DEF Inv, TypeOK, Composed, Begun
  <2>3. Owner'
    BY <1>1, <2>1 DEF Inv, Owner, Origin, Threads
  <2> QED
    BY <2>2, <2>3
<1>5. CASE Store(t)
  <2>1. pipeline' = Build(t) /\ pc'[t] = "reread" /\ local' = local /\ pc[t] = "store"
    BY <1>1, <1>5 DEF Store, Goto, Inv, Owner
  <2>2. TypeOK'
    BY <1>1, <1>2, <2>1, SetupStep DEF Inv, TypeOK, Composed, Begun
  <2>3. Owner'
    BY <1>1, <1>2, <2>1 DEF Inv, Owner, Origin, Threads
  <2> QED
    BY <2>2, <2>3
<1>6. CASE Reread(t)
  <2>1. /\ pipeline' = pipeline /\ pipeline # Null /\ pc[t] = "reread"
        /\ pc'[t] = (IF t \in Senders THEN "assign" ELSE "returned")
        /\ local'[t] \in Delegates /\ local'[t] # Null
        /\ local' \in [Threads -> Delegates \cup {Null}]
        /\ local'[t] \in {local[t], pipeline}
    <3>1. pc[t] = "reread" /\ pipeline # Null /\ local[t] # Null
      BY <1>6 DEF Reread, Inv, TypeOK, Composed
    <3> QED
      BY <1>1, <1>6, <3>1, NullAssumption DEF Reread, Keep, Goto
  <2>2. TypeOK'
    BY <1>1, <2>1, SetupStep DEF Inv, TypeOK, Composed, Begun
  <2>3. Owner'
    <3>1. \A e : Origin(e) => Origin(e)'
      BY <1>1, <2>1, ThreadsAssumption DEF Origin, Threads
    <3>2. Origin(local'[t]) /\ Origin(pipeline)
      BY <2>1 DEF Inv, Owner
    <3>3. pc'[t] # "store"
      BY <2>1
    <3> QED
      BY <1>1, <2>1, <3>1, <3>2, <3>3 DEF Inv, Owner
  <2> QED
    BY <2>2, <2>3
<1> QED
  BY <1>3, <1>4, <1>5, <1>6 DEF Setup

\* A Setup before the first send, or a default where no Setup returned.
LEMMA SetupKeepsSettled ==
  ASSUME Inv, NEW t \in Threads, Setup(t) PROVE Settled'
<1> SUFFICES ASSUME ~early PROVE Settled'
  BY SetupStep DEF Settled
<1>1. CASE t \in Configurators
  <2>1. ~SetupsOver /\ SendersIdle /\ (pipeline = Null \/ Configured)
    BY <1>1, SetupStep DEF SetupsOver, Inv, Settled
  <2>2. SendersIdle'
    BY <1>1, <2>1, SetupStep, ThreadsAssumption DEF SendersIdle, Threads
  <2>3. (pipeline = Null \/ Configured)'
    <3>1. CASE Store(t)
      BY <1>1, <3>1, BuildFacts DEF Store, Inv, Owner, Configured
    <3>2. CASE ~Store(t)
      BY <2>1, <3>2 DEF Setup, Compose, ComposeThrows, Reread, KeptByThrow, Configured
    <3> QED
      BY <3>1, <3>2
  <2> QED
    BY <2>2, <2>3, SetupStep DEF Settled
<1>2. CASE t \in Senders
  <2>1. SetupsOver /\ ~SomeReturned
    BY <1>2, SetupStep DEF Inv, Settled, SendersIdle, Begun
  <2>2. SetupsOver' /\ ~SomeReturned'
    BY <1>2, <2>1, SetupStep, ThreadsAssumption DEF SetupsOver, SomeReturned, Threads
  <2> QED
    BY <2>2 DEF Settled
<1> QED
  BY <1>1, <1>2 DEF Threads
-----------------------------------------------------------------------------
\* What the steps of InvokeAsync have in common: they are a sender's, and no other
\* thread moves.
LEMMA InvokeStep ==
  ASSUME Inv, NEW s \in Senders, Invoke(s)
  PROVE  /\ s \in Threads /\ s \notin Configurators
         /\ \A u \in Threads : u # s => pc'[u] = pc[u] /\ local'[u] = local[u]
         /\ \A r \in Senders : r # s => at'[r] = at[r] /\ entered'[r] = entered[r]
         /\ \A c \in Configurators : c \in Threads /\ pc'[c] = pc[c]
         /\ SetupsOver' = SetupsOver /\ SomeReturned' = SomeReturned
         /\ pc' \in [Threads -> SenderStates \cup ConfiguratorStates]
<1>1. /\ s \in Threads /\ s \notin Configurators
      /\ pc \in [Threads -> SenderStates \cup ConfiguratorStates]
      /\ local \in [Threads -> Delegates \cup {Null}]
      /\ at \in [Senders -> Int]
      /\ entered \in [Senders -> Seq(Components)]
  BY ThreadsAssumption DEF Threads, Inv, TypeOK
<1>2. /\ \A u \in Threads : u # s => pc'[u] = pc[u] /\ local'[u] = local[u]
      /\ \A r \in Senders : r # s => at'[r] = at[r] /\ entered'[r] = entered[r]
      /\ pc' \in [Threads -> SenderStates \cup ConfiguratorStates]
  BY <1>1 DEF Invoke, AccessBuilt, AccessFirst, Assign, CallNext, EndInStage, Complete, Start,
     Goto, Keep, Enter, SenderStates, SetupStates
<1>3. \A c \in Configurators : c \in Threads /\ pc'[c] = pc[c]
  BY <1>1, <1>2 DEF Threads
<1> QED
  BY <1>1, <1>2, <1>3 DEF SetupsOver, SomeReturned

\* A sender starts a delegate: the one stored, or the one it stores itself.
LEMMA StartPreserves ==
  ASSUME Inv, NEW s \in Senders, AccessBuilt(s) \/ Assign(s) PROVE Inv'
<1>1. Invoke(s)
  BY DEF Invoke
<1>2. PICK d \in Delegates : Start(s, d) /\ pipeline' = d
  BY ThreadsAssumption
     DEF AccessBuilt, Assign, FoundNull, Inv, TypeOK, Composed, Threads
<1>3. /\ pc'[s] = "running" /\ local'[s] = d /\ at'[s] = 1 /\ entered' = entered
      /\ local' \in [Threads -> Delegates \cup {Null}] /\ at' \in [Senders -> Int]
      /\ d # Null /\ d.owner \in Threads
  BY <1>2, <1>1, InvokeStep, DelegateFacts DEF Start, Keep, Goto, Inv, TypeOK
<1>4. /\ early' \in BOOLEAN
      /\ pc[s] \in {"idle", "assign"} /\ ~Begun(s)
  BY DEF AccessBuilt, Assign, Begins, Inv, TypeOK, Begun
<1>5. TypeOK'
  BY <1>1, <1>2, <1>3, <1>4, InvokeStep DEF Inv, TypeOK, Composed, Begun, Threads
<1>6. States'
  BY <1>1, <1>3, InvokeStep, ThreadsAssumption DEF Inv, States, SenderStates, Threads
<1>7. Path'
  <2>1. Len(entered'[s]) = 0 /\ entered'[s] = <<>> /\ Len(Uses[d.owner]) >= 0
    BY <1>3, <1>4, UsesAssumption DEF Inv, Path
  <2>2. PathOf(s)'
    BY <1>3, <2>1 DEF PathOf
  <2>3. \A r \in Senders : r # s => (Begun(r)' <=> Begun(r)) /\ (PathOf(r)' <=> PathOf(r))
    BY <1>1, InvokeStep DEF PathOf, Begun, Threads
  <2> QED
    BY <1>1, <1>3, <2>1, <2>2, <2>3, InvokeStep DEF Inv, Path, Begun
<1>8. Owner'
  <2>1. Origin(d)
    BY <1>2, <1>4 DEF AccessBuilt, Assign, Inv, Owner, Threads
  <2>2. \A e : Origin(e) => Origin(e)'
    BY <1>1, InvokeStep DEF Origin
  <2> QED
    BY <1>1, <1>2, <1>3, <2>1, <2>2, InvokeStep DEF Inv, Owner
<1>9. Settled'
  <2> SUFFICES ASSUME ~early' PROVE Settled'
    BY DEF Settled
  <2>1. SetupsOver /\ ~early
    BY <1>1, <1>4, InvokeStep
       DEF AccessBuilt, Assign, Begins, Inv, TypeOK, Settled, SendersIdle
  <2>2. ASSUME SomeReturned
        PROVE  /\ Configured
               /\ \A r \in Senders : pc[r] = "idle" \/ (Begun(r) /\ local[r] = pipeline)
    <3>1. pipeline # Null
      BY <2>2 DEF SomeReturned, Inv, TypeOK, Threads
    <3> QED
      BY <2>1, <2>2, <3>1, <1>4 DEF Inv, Settled, SendersIdle
  <2>3. ASSUME SomeReturned PROVE pipeline' = pipeline
    BY <2>2, <2>3, <1>2, <1>4 DEF AccessBuilt, Assign, Begun
  <2>4. ASSUME SomeReturned, NEW r \in Senders
        PROVE  pc'[r] = "idle" \/ (Begun(r)' /\ local'[r] = pipeline')
    <3>1. CASE r = s
      BY <3>1, <1>2, <1>3 DEF Begun
    <3>2. CASE r # s
      <4>1. pc'[r] = pc[r] /\ local'[r] = local[r]
        BY <3>2, <1>1, InvokeStep DEF Threads
      <4> QED
        BY <2>2, <2>3, <2>4, <4>1 DEF Begun
    <3> QED
      BY <3>1, <3>2
  <2> QED
    BY <2>1, <2>2, <2>3, <2>4, <1>1, InvokeStep DEF Settled, Configured
<1> QED
  BY <1>5, <1>6, <1>7, <1>8, <1>9 DEF Inv

\* A sender finds null: no Setup has returned.
LEMMA AccessFirstPreserves ==
  ASSUME Inv, NEW s \in Senders, AccessFirst(s) PROVE Inv'
<1>1. /\ Invoke(s) /\ pipeline = Null /\ pc[s] = "idle" /\ pc'[s] = "setup"
      /\ UNCHANGED <<pipeline, local, at, entered>> /\ early' \in BOOLEAN
  BY InvokeStep DEF Invoke, AccessFirst, FoundNull, Goto, Begins, Inv, TypeOK, Threads
<1>2. TypeOK'
  BY <1>1, InvokeStep DEF Inv, TypeOK, Composed, Begun, Threads
<1>3. States' /\ Path'
  BY <1>1, InvokeStep DEF Inv, States, Path, PathOf, Begun, SenderStates, SetupStates, Threads
<1>4. Owner'
  BY <1>1, InvokeStep DEF Inv, Owner, Origin
<1>5. Settled'
  <2> SUFFICES ASSUME ~early' PROVE Settled'
    BY DEF Settled
  <2>1. SetupsOver
    BY DEF AccessFirst, Begins
  <2>2. ~SomeReturned
    BY <1>1 DEF SomeReturned, Inv, TypeOK, Threads
  <2> QED
    BY <2>1, <2>2, <1>1, InvokeStep DEF Settled
<1> QED
  BY <1>2, <1>3, <1>4, <1>5 DEF Inv

\* A stage is entered: it is the one behind those entered before.
LEMMA StageFacts ==
  ASSUME Inv, NEW s \in Senders, InStage(s)
  PROVE  LET k == Len(entered[s]) uses == Uses[local[s].owner] IN
           /\ k \in Nat /\ at[s] = k + 1 /\ k + 1 <= Len(uses)
           /\ entered[s] \in Seq(Components) /\ uses[k + 1] \in Components
           /\ Stage(s) = uses[k + 1]
           /\ local[s].next[at[s]] = k + 2
           /\ Begun(s) /\ local[s] \in Delegates
<1>1. /\ Begun(s) /\ s \in Threads /\ local[s] \in Delegates
      /\ at[s] \in DOMAIN local[s].next
  BY DEF InStage, Runs, Begun, Inv, TypeOK, Composed, Threads
<1>2. /\ DOMAIN local[s].next = 1..Len(Uses[local[s].owner])
      /\ \A i \in 1..Len(Uses[local[s].owner]) : local[s].next[i] = i + 1
      /\ local[s].owner \in Threads
      /\ Uses[local[s].owner] \in Seq(Components)
  BY <1>1, DelegateFacts, UsesAssumption
<1>3. entered[s] \in Seq(Components) /\ at[s] = Len(entered[s]) + 1
  BY <1>1 DEF InStage, Inv, TypeOK, Path, PathOf
<1> QED
  BY <1>1, <1>2, <1>3 DEF Stage, Runs

\* A message enters the next stage, and ends there or goes on.
LEMMA StagePreserves ==
  ASSUME Inv, NEW s \in Senders, CallNext(s) \/ EndInStage(s) PROVE Inv'
<1>1. InStage(s) /\ Enter(s) /\ Invoke(s) /\ UNCHANGED <<pipeline, local, early>>
  BY DEF CallNext, EndInStage, Invoke
<1> DEFINE k == Len(entered[s])
           uses == Uses[local[s].owner]
<1>2. /\ k \in Nat /\ at[s] = k + 1 /\ k + 1 <= Len(uses)
      /\ entered[s] \in Seq(Components) /\ uses[k + 1] \in Components
      /\ Stage(s) = uses[k + 1] /\ local[s].next[at[s]] = k + 2 /\ Begun(s)
  BY <1>1, StageFacts
<1>3. /\ entered'[s] = Append(entered[s], uses[k + 1])
      /\ entered' \in [Senders -> Seq(Components)]
  BY <1>1, <1>2 DEF Enter, Inv, TypeOK
<1>4. /\ Len(entered'[s]) = k + 1
      /\ \A i \in 1..k : entered'[s][i] = entered[s][i]
      /\ entered'[s][k + 1] = uses[k + 1]
  BY <1>2, <1>3
<1>5. /\ at' \in [Senders -> Int]
      /\ pc'[s] \in {"running", "stopped", "threw"}
      /\ pc'[s] = "running" => at'[s] = k + 2
  BY <1>1, <1>2, InvokeStep DEF CallNext, EndInStage, InStage, Goto, Runs, Inv, TypeOK
<1>6. Begun(s)'
  BY <1>5 DEF Begun
<1>7. TypeOK'
  BY <1>1, <1>2, <1>3, <1>5, <1>6, InvokeStep DEF Inv, TypeOK, Composed, Begun, Threads
<1>8. States'
  BY <1>1, <1>5, InvokeStep DEF Inv, States, SenderStates, Threads
<1>9. Path'
  <2>1. PathOf(s)'
    <3>1. \A i \in 1..k + 1 : entered'[s][i] = uses[i]
      BY <1>2, <1>4 DEF Inv, Path, PathOf
    <3> QED
      BY <3>1, <1>1, <1>2, <1>4, <1>5 DEF PathOf
  <2>2. \A r \in Senders : r # s => (Begun(r)' <=> Begun(r)) /\ (PathOf(r)' <=> PathOf(r))
    BY <1>1, InvokeStep DEF PathOf, Begun, Threads
  <2> QED
    BY <2>1, <2>2, <1>1, <1>6, InvokeStep DEF Inv, Path
<1>10. Owner'
  <2>1. \A e : Origin(e) => Origin(e)'
    BY <1>1, InvokeStep DEF Origin
  <2>2. pc[s] # "store" /\ pc'[s] # "store"
    BY <1>1, <1>5 DEF InStage
  <2> QED
    BY <1>1, <2>1, <2>2, InvokeStep DEF Inv, Owner
<1>11. Settled'
  BY <1>1, <1>2, <1>6, InvokeStep DEF Inv, Settled, SendersIdle, Begun, Configured, Threads
<1> QED
  BY <1>7, <1>8, <1>9, <1>10, <1>11 DEF Inv

\* A message that completes has passed the last stage.
LEMMA CompletePreserves ==
  ASSUME Inv, NEW s \in Senders, Complete(s) PROVE Inv'
<1>1. /\ Invoke(s) /\ UNCHANGED <<pipeline, local, at, entered, early>>
      /\ pc[s] = "running" /\ pc'[s] = "completed" /\ Begun(s) /\ Begun(s)'
  BY InvokeStep DEF Invoke, Complete, Goto, Begun, Inv, TypeOK
<1>2. TypeOK'
  BY <1>1, InvokeStep DEF Inv, TypeOK, Composed, Begun, Threads
<1>3. States'
  BY <1>1, InvokeStep DEF Inv, States, SenderStates, Threads
<1>4. Path'
  <2>1. PathOf(s) /\ entered[s] \in Seq(Components) /\ local[s] \in Delegates
    BY <1>1 DEF Inv, Path, TypeOK, Composed, Threads
  <2>2. Len(entered[s]) = Len(Uses[local[s].owner])
    <3>1. /\ Len(entered[s]) \in Nat /\ Len(Uses[local[s].owner]) \in Nat
          /\ at[s] = Len(entered[s]) + 1
          /\ at[s] \notin 1..Len(Uses[local[s].owner])
          /\ Len(entered[s]) <= Len(Uses[local[s].owner])
      BY <1>1, <2>1, DelegateFacts, UsesAssumption DEF Complete, Runs, PathOf
    <3> QED
      BY <3>1
  <2>3. PathOf(s)'
    BY <1>1, <2>1, <2>2 DEF PathOf
  <2>4. \A r \in Senders : r # s => (Begun(r)' <=> Begun(r)) /\ (PathOf(r)' <=> PathOf(r))
    BY <1>1, InvokeStep DEF PathOf, Begun, Threads
  <2> QED
    BY <1>1, <2>3, <2>4 DEF Inv, Path
<1>5. Owner'
  BY <1>1, InvokeStep DEF Inv, Owner, Origin
<1>6. Settled'
  BY <1>1, InvokeStep DEF Inv, Settled, SendersIdle, Begun, Configured, Threads
<1> QED
  BY <1>2, <1>3, <1>4, <1>5, <1>6 DEF Inv

\* A step of something else changes nothing.
LEMMA StutterPreserves == ASSUME Inv, UNCHANGED vars PROVE Inv'
  BY DEF vars, Inv, TypeOK, States, Path, PathOf, Owner, Origin, Settled, SendersIdle, SetupsOver,
     SomeReturned, Configured, Composed, Begun

\* Every step keeps Inv.
LEMMA NextPreserves == Inv /\ [Next]_vars => Inv'
<1> SUFFICES ASSUME Inv, [Next]_vars PROVE Inv'
  OBVIOUS
<1>1. ASSUME NEW c \in Configurators, CallSetup(c) PROVE Inv'
  BY <1>1, CallSetupPreserves
<1>2. ASSUME NEW t \in Threads, Setup(t) PROVE Inv'
  BY <1>2, SetupKeepsPath, SetupKeepsType, SetupKeepsSettled DEF Inv
<1>3. ASSUME NEW s \in Senders, Invoke(s) PROVE Inv'
  BY <1>3, StartPreserves, AccessFirstPreserves, StagePreserves, CompletePreserves DEF Invoke
<1>4. CASE UNCHANGED vars
  BY <1>4, StutterPreserves
<1> QED
  BY <1>1, <1>2, <1>3, <1>4 DEF Next

\* Setup, the getter and the running delegates keep Inv.
THEOREM Invariance == Spec => []Inv
  BY InitEstablishes, NextPreserves, PTL DEF Spec
-----------------------------------------------------------------------------
(* The properties.                                                          *)

\* MessagePipeline keeps its types: in particular no sender runs null.
THEOREM TypeCorrect == Spec => []TypeOK
<1>1. Inv => TypeOK
  BY DEF Inv
<1> QED
  BY <1>1, Invariance, PTL

\* Every message goes through one pipeline in the order of the calls of Use.
THEOREM InOrder == Spec => []MiddlewareInOrder
<1>1. Inv => MiddlewareInOrder
  BY DEF Inv, TypeOK, Path, PathOf, MiddlewareInOrder
<1> QED
  BY <1>1, Invariance, PTL

\* What is configured before the first send is what every message runs.
THEOREM StartupHolds == Spec => []StartupConfigurationHolds
<1>1. Inv => StartupConfigurationHolds
  <2> SUFFICES ASSUME Inv, ~early, SomeReturned, NEW s \in Senders, NEW r \in Senders, Begun(s)
               PROVE  /\ local[s].owner \in Configurators
                      /\ pc[local[s].owner] = "returned"
                      /\ Begun(r) => local[r] = local[s]
    BY DEF StartupConfigurationHolds, SomeReturned
  <2>1. /\ SetupsOver /\ Configured
        /\ \A q \in Senders : Begun(q) => local[q] = pipeline
    BY DEF Inv, Settled, SendersIdle, Begun
  <2>2. pc[pipeline.owner] \in {"reread", "returned"}
    BY <2>1 DEF Inv, Owner, Origin, Configured
  <2>3. pc[pipeline.owner] = "returned"
    BY <2>1, <2>2 DEF SetupsOver, Configured
  <2> QED
    BY <2>1, <2>3 DEF Configured
<1> QED
  BY <1>1, Invariance, PTL

\* The first access takes a Setup's pipeline away only where it races that Setup: as
\* long as no message begins before every Setup has ended, what Setup configured is in
\* the field.
THEOREM SticksBeforeFirstSend == Spec => [](~early => SetupSticks)
<1>1. Inv => (~early => SetupSticks)
  <2> SUFFICES ASSUME Inv, ~early, SetupsOver, SomeReturned
               PROVE  pipeline.owner \in Configurators
    BY DEF SetupSticks, SomeReturned
  <2>1. pipeline # Null
    BY DEF Inv, TypeOK, SomeReturned, Threads
  <2> QED
    BY <2>1 DEF Inv, Settled, Configured
<1> QED
  BY <1>1, Invariance, PTL
-----------------------------------------------------------------------------
(* Refinement of MiddlewareDelivery.                                        *)

setups == [c \in Configurators |-> SetupState(c)]
fates == [s \in Senders |-> Fate(s)]
routes == [s \in Senders |-> IF Begun(s) THEN Name(local[s]) ELSE [kind |-> "none"]]

\* The promise tells the pipelines apart that configurators compose, and has one default.
LEMMA NameFacts ==
  ASSUME NEW d \in Delegates
  PROVE  /\ Name(d) # Delivery!None
         /\ Name(d) \in Delivery!Pipelines
         /\ d.owner \in Configurators => Name(d) = Delivery!Made(d.owner)
         /\ d.owner \in Senders => Name(d) = Delivery!Default
         /\ Delivery!Components(Name(d)) = Uses[d.owner]
<1>1. d # Null /\ d.owner \in Threads
  BY DelegateFacts
<1>2. CASE d.owner \in Configurators
  <2>1. Name(d) = Delivery!Made(d.owner)
    BY <1>1, <1>2 DEF Name, Delivery!Made
  <2>2. Delivery!Made(d.owner).setup = d.owner /\ Delivery!Made(d.owner).kind = "setup"
    BY DEF Delivery!Made
  <2>3. Name(d) # Delivery!None /\ Name(d) # Delivery!Default
    BY <2>1, <2>2 DEF Delivery!None, Delivery!Default
  <2> QED
    BY <1>2, <2>1, <2>2, <2>3, ThreadsAssumption DEF Delivery!Pipelines, Delivery!Components
<1>3. CASE d.owner \in Senders
  <2>1. Name(d) = Delivery!Default /\ d.owner \notin Configurators
    BY <1>1, <1>3, ThreadsAssumption DEF Name, Delivery!Default
  <2>2. Delivery!Default # Delivery!None
    BY DEF Delivery!Default, Delivery!None
  <2>3. Uses[CHOOSE s \in Senders : TRUE] = Uses[d.owner]
    BY <1>3, DefaultAssumption
  <2> QED
    BY <2>1, <2>2, <2>3 DEF Delivery!Pipelines, Delivery!Components
<1> QED
  BY <1>1, <1>2, <1>3 DEF Threads

\* A thread that does not move looks the same to the promise.
LEMMA Unmoved ==
  /\ \A c \in Configurators : pc'[c] = pc[c] => setups'[c] = setups[c]
  /\ \A s \in Senders : pc'[s] = pc[s] => fates'[s] = fates[s]
  /\ \A s \in Senders : pc'[s] = pc[s] /\ local'[s] = local[s] => routes'[s] = routes[s]
  BY DEF setups, fates, routes, SetupState, Fate, Begun

\* The initial states are those of the promise.
LEMMA DeliveryInit == Init => Delivery!Init
  BY ThreadsAssumption
     DEF Init, Delivery!Init, Delivery!None, SetupState, Fate, Begun, Name, Threads

\* What a Setup puts into force, or a sender that comes late assigns, may be in force.
LEMMA MayEnforce ==
  ASSUME Inv, NEW d \in Delegates,
         Origin(d) \/ (\E c \in Configurators : d.owner = c /\ pc[c] = "store"),
         d.owner \in Senders => \E s \in Senders : fates[s] = "first"
  PROVE  Delivery!Enforceable(Name(d))
<1>1. d # Null /\ d.owner \in Threads
  BY DelegateFacts
<1>2. CASE d.owner \in Configurators
  <2>1. pc[d.owner] \in {"store", "reread", "returned"}
    BY <1>1, <1>2 DEF Origin
  <2>2. setups[d.owner] = "made"
    BY <1>2, <2>1 DEF setups, SetupState
  <2> QED
    BY <1>2, <2>2, NameFacts DEF Delivery!Enforceable, setups
<1>3. CASE d.owner \in Senders
  BY <1>3, NameFacts DEF Delivery!Enforceable, fates
<1> QED
  BY <1>1, <1>2, <1>3 DEF Threads

\* Setup ends, puts a pipeline into force, or goes on unseen.
LEMMA SetupDelivers ==
  ASSUME Inv, NEW t \in Threads, Setup(t)
  PROVE  [Delivery!Next]_Delivery!mvars
<1>1. /\ \A u \in Threads : u # t => pc'[u] = pc[u] /\ local'[u] = local[u]
      /\ pc \in [Threads -> SenderStates \cup ConfiguratorStates]
      /\ UNCHANGED entered
      /\ ~Begun(t) /\ ~Begun(t)'
  BY SetupStep DEF Inv, TypeOK
<1>2. /\ \A c \in Configurators : c # t => setups'[c] = setups[c]
      /\ \A s \in Senders : s # t => fates'[s] = fates[s]
      /\ routes' = routes
  <2>1. \A s \in Senders : routes'[s] = routes[s]
    BY <1>1, Unmoved DEF routes, Threads
  <2> QED
    BY <1>1, <2>1, Unmoved DEF routes, Threads
<1>3. CASE Store(t)
  <2>1. pipeline' = Build(t) /\ pc[t] = "store" /\ pc'[t] = "reread"
    BY <1>1, <1>3 DEF Store, Goto, Inv, Owner
  <2>2. Build(t) \in Delegates /\ Build(t).owner = t
    BY BuildFacts
  <2>3. setups' = setups /\ fates' = fates
    BY <1>2, <2>1, ThreadsAssumption DEF setups, fates, SetupState, Fate
  <2>4. t \in Senders => fates[t] = "first"
    BY <2>1 DEF fates, Fate
  <2>5. Delivery!Enforceable(Name(Build(t)))
    BY <2>1, <2>2, <2>4, MayEnforce DEF Threads, Origin
  <2>6. Delivery!Enforce(Name(Build(t)))
    BY <1>1, <1>2, <2>1, <2>3, <2>5 DEF Delivery!Enforce, setups, fates, routes
  <2> QED
    BY <2>2, <2>6, NameFacts DEF Delivery!Next
<1>4. CASE ~Store(t) /\ t \in Configurators
  <2>1. pipeline' = pipeline /\ fates' = fates
    BY <1>2, <1>4, ThreadsAssumption
       DEF Setup, Compose, ComposeThrows, KeptByThrow, Reread, fates
  <2>2. CASE Reread(t)
    <3>1. pc[t] = "reread" /\ pc'[t] = "returned"
      BY <1>1, <1>4, <2>2, ThreadsAssumption DEF Reread, Goto
    <3>2. setups' = setups
      BY <1>2, <3>1 DEF setups, SetupState
    <3> QED
      BY <1>1, <1>2, <2>1, <3>2 DEF Delivery!mvars, setups, fates, routes
  <2>3. CASE Compose(t) \/ ComposeThrows(t)
    <3>1. pc[t] = "setup" /\ pc'[t] \in {"store", "failed"}
      BY <1>1, <2>3 DEF Compose, ComposeThrows, Goto
    <3>2. setups[t] = "open" /\ setups'[t] \in {"made", "failed"}
      BY <1>4, <3>1 DEF setups, SetupState
    <3>3. setups' = [setups EXCEPT ![t] = setups'[t]]
      BY <1>2 DEF setups
    <3>4. Delivery!EndSetup(t)
      BY <1>1, <1>2, <2>1, <3>2, <3>3 DEF Delivery!EndSetup, setups, fates, routes
    <3> QED
      BY <1>4, <3>4 DEF Delivery!Next
  <2> QED
    BY <1>4, <2>2, <2>3 DEF Setup
<1>5. CASE ~Store(t) /\ t \in Senders
  <2>1. pipeline' = pipeline /\ setups' = setups
    BY <1>2, <1>5, ThreadsAssumption
       DEF Setup, Compose, ComposeThrows, KeptByThrow, Reread, setups
  <2>2. CASE Reread(t) \/ Compose(t)
    <3>1. pc[t] \in {"setup", "reread"} /\ pc'[t] \in {"store", "assign"}
      BY <1>1, <1>5, <2>2 DEF Reread, Compose, Goto
    <3>2. fates' = fates
      BY <1>2, <3>1 DEF fates, Fate
    <3> QED
      BY <1>1, <1>2, <2>1, <3>2 DEF Delivery!mvars, setups, fates, routes
  <2>3. CASE ComposeThrows(t)
    <3>1. pc[t] = "setup" /\ pc'[t] = "failed"
      BY <1>1, <2>3 DEF ComposeThrows, Goto
    <3>2. fates[t] = "first" /\ fates' = [fates EXCEPT ![t] = "failed"]
      BY <1>2, <1>5, <3>1 DEF fates, Fate
    <3>3. Delivery!GiveUp(t)
      BY <1>1, <1>2, <2>1, <3>2 DEF Delivery!GiveUp, setups, fates, routes
    <3> QED
      BY <1>5, <3>3 DEF Delivery!Next
  <2> QED
    BY <1>5, <2>2, <2>3 DEF Setup
<1> QED
  BY <1>3, <1>4, <1>5 DEF Threads

\* InvokeAsync takes one pipeline and goes through it.
LEMMA InvokeDelivers ==
  ASSUME Inv, NEW s \in Senders, Invoke(s)
  PROVE  Delivery!Next
<1>1. /\ s \in Threads /\ pc \in [Threads -> SenderStates \cup ConfiguratorStates]
      /\ local \in [Threads -> Delegates \cup {Null}]
      /\ entered \in [Senders -> Seq(Components)]
      /\ \A r \in Senders : r # s => pc'[r] = pc[r] /\ local'[r] = local[r]
  BY InvokeStep DEF Inv, TypeOK, Threads
<1>2. /\ setups' = setups
      /\ \A r \in Senders : r # s => fates'[r] = fates[r] /\ routes'[r] = routes[r]
  BY <1>1, InvokeStep, Unmoved DEF setups
<1>3. CASE AccessBuilt(s) \/ Assign(s)
  <2>1. PICK d \in Delegates : Start(s, d) /\ pipeline' = d /\ Origin(d)
    BY <1>3, ThreadsAssumption
       DEF AccessBuilt, Assign, FoundNull, Inv, TypeOK, Composed, Owner, Threads
  <2>2. /\ pc'[s] = "running" /\ local'[s] = d /\ entered' = entered /\ ~Begun(s)
        /\ AccessBuilt(s) => pc[s] = "idle" /\ d = pipeline
        /\ Assign(s) => pc[s] = "assign"
    BY <1>1, <1>3, <2>1 DEF Start, Keep, Goto, AccessBuilt, Assign, Begun
  <2>3. /\ fates' = [fates EXCEPT ![s] = "under way"]
        /\ routes' = [routes EXCEPT ![s] = Name(d)]
        /\ AccessBuilt(s) => fates[s] = "new"
        /\ Assign(s) => fates[s] = "first"
    <3>1. Begun(s)'
      BY <2>2 DEF Begun
    <3> QED
      BY <1>2, <2>2, <3>1 DEF fates, routes, Fate
  <2>4. Assign(s) => Delivery!Enforceable(Name(d))
    BY <2>1, <2>3, MayEnforce
  <2>5. Delivery!Take(s, Name(d))
    BY <1>2, <1>3, <2>1, <2>2, <2>3, <2>4, NameFacts
       DEF Delivery!Take, setups, fates, routes
  <2> QED
    BY <2>1, <2>5, NameFacts DEF Delivery!Next
<1>4. CASE AccessFirst(s)
  <2>1. /\ pc[s] = "idle" /\ pc'[s] = "setup" /\ pipeline = Null
        /\ UNCHANGED <<pipeline, local, entered>>
    BY <1>1, <1>4 DEF AccessFirst, FoundNull, Goto
  <2>2. fates[s] = "new" /\ fates' = [fates EXCEPT ![s] = "first"] /\ routes' = routes
    BY <1>2, <2>1 DEF fates, routes, Fate, Begun
  <2>3. Name(pipeline) = Delivery!None
    BY <2>1 DEF Name, Delivery!None
  <2>4. Delivery!FindNone(s)
    BY <1>2, <2>1, <2>2, <2>3 DEF Delivery!FindNone, setups, fates, routes
  <2> QED
    BY <2>4 DEF Delivery!Next
<1>5. CASE CallNext(s) \/ EndInStage(s)
  <2>1. InStage(s) /\ Enter(s) /\ UNCHANGED <<pipeline, local>>
    BY <1>5 DEF CallNext, EndInStage
  <2> DEFINE k == Len(entered[s])
             uses == Uses[local[s].owner]
  <2>2. /\ k \in Nat /\ k + 1 <= Len(uses) /\ Len(uses) \in Int /\ Stage(s) = uses[k + 1]
        /\ Begun(s) /\ local[s] \in Delegates /\ local[s].owner \in Threads
    BY <2>1, StageFacts, DelegateFacts, UsesAssumption
  <2>3. /\ pc[s] = "running" /\ pc'[s] \in {"running", "threw", "stopped"}
        /\ pc'[s] = "stopped" => uses[k + 1] # Invoker
        /\ entered' = [entered EXCEPT ![s] = Append(@, uses[k + 1])]
    BY <1>1, <1>5, <2>1, <2>2 DEF CallNext, EndInStage, InStage, Goto, Enter
  <2>4. /\ fates[s] = "under way" /\ fates'[s] \in {"under way", "threw", "stopped"}
        /\ fates'[s] = "stopped" => uses[k + 1] # Invoker
        /\ fates' = [fates EXCEPT ![s] = fates'[s]]
    BY <1>2, <2>3 DEF fates, Fate
  <2>5. routes' = routes /\ routes[s] = Name(local[s])
    <3>1. Begun(s)' /\ local'[s] = local[s]
      BY <2>1, <2>3 DEF Begun
    <3> QED
      BY <1>2, <2>2, <3>1 DEF routes
  <2>6. Delivery!Components(routes[s]) = uses
    BY <2>2, <2>5, NameFacts
  <2> DEFINE component == Delivery!Components(routes[s])[Len(entered[s]) + 1]
             ends == {"under way", "threw"} \cup (IF component = Invoker THEN {} ELSE {"stopped"})
  <2>7. /\ component = uses[k + 1]
        /\ Len(entered[s]) < Len(Delivery!Components(routes[s]))
    BY <2>2, <2>6
  <2>8. entered' = [entered EXCEPT ![s] = Append(@, component)]
    BY <2>3, <2>7
  <2>9. \E end \in ends : fates' = [fates EXCEPT ![s] = end]
    <3>1. fates'[s] \in ends
      BY <2>4, <2>7
    <3> QED
      BY <2>4, <3>1
  <2>10. UNCHANGED <<setups, Name(pipeline), routes>>
    BY <1>2, <2>1, <2>5
  <2>11. Delivery!Visit(s)
    BY <2>4, <2>7, <2>8, <2>9, <2>10 DEF Delivery!Visit, setups, fates, routes
  <2> QED
    BY <2>11 DEF Delivery!Next
<1>6. CASE Complete(s)
  <2>1. /\ pc[s] = "running" /\ pc'[s] = "completed" /\ Begun(s) /\ Begun(s)'
        /\ UNCHANGED <<pipeline, local, entered>>
    BY <1>1, <1>6 DEF Complete, Goto, Begun
  <2>2. /\ fates[s] = "under way" /\ fates' = [fates EXCEPT ![s] = "completed"]
        /\ routes' = routes /\ routes[s] = Name(local[s])
    BY <1>2, <2>1 DEF fates, routes, Fate
  <2>3. Len(entered[s]) = Len(Uses[local[s].owner]) /\ local[s] \in Delegates
    <3>1. PathOf(s)' /\ local[s] \in Delegates
      BY <1>1, <1>6, <2>1, CompletePreserves DEF Inv, Path, TypeOK, Composed
    <3> QED
      BY <2>1, <3>1 DEF PathOf
  <2>4. Delivery!Complete(s)
    BY <1>2, <2>1, <2>2, <2>3, NameFacts DEF Delivery!Complete, setups, fates, routes
  <2> QED
    BY <2>4 DEF Delivery!Next
<1> QED
  BY <1>3, <1>4, <1>5, <1>6 DEF Invoke

\* Every step is a step of the promise or leaves it as it is.
LEMMA DeliveryStep ==
  ASSUME Inv, [Next]_vars
  PROVE  [Delivery!Next]_Delivery!mvars
<1>1. ASSUME NEW c \in Configurators, CallSetup(c) PROVE UNCHANGED Delivery!mvars
  <2>1. /\ pc[c] = "idle" /\ pc' = [pc EXCEPT ![c] = "setup"]
        /\ UNCHANGED <<pipeline, local, entered>>
        /\ pc \in [Threads -> SenderStates \cup ConfiguratorStates] /\ c \in Threads
    BY <1>1 DEF CallSetup, Goto, Inv, TypeOK, Threads
  <2>2. setups' = setups
    BY <2>1 DEF setups, SetupState, Threads
  <2>3. \A s \in Senders : pc'[s] = pc[s]
    BY <2>1, <1>1, ThreadsAssumption DEF Threads
  <2>4. fates' = fates /\ routes' = routes
    BY <2>1, <2>3 DEF fates, routes, Fate, Begun
  <2> QED
    BY <2>1, <2>2, <2>4 DEF Delivery!mvars, setups, fates, routes
<1>2. ASSUME NEW t \in Threads, Setup(t) PROVE [Delivery!Next]_Delivery!mvars
  BY <1>2, SetupDelivers
<1>3. ASSUME NEW s \in Senders, Invoke(s) PROVE Delivery!Next
  BY <1>3, InvokeDelivers
<1>4. CASE UNCHANGED vars
  BY <1>4 DEF vars, Delivery!mvars, SetupState, Fate, Begun
<1> QED
  BY <1>1, <1>2, <1>3, <1>4 DEF Next

\* The unlocked field, its getter and Setup, and the delegates deliver every message as
\* MiddlewareDelivery promises.
THEOREM ImplementsDelivery == Spec => TakesOnePipeline
<1>1. Inv /\ [Next]_vars => [Delivery!Next]_Delivery!mvars
  BY DeliveryStep
<1> QED
  BY <1>1, DeliveryInit, Invariance, PTL DEF Spec, Delivery!Spec, TakesOnePipeline
=============================================================================
