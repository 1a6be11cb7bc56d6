---------------------------- MODULE MiddlewareDelivery ----------------------------
(***************************************************************************)
(* What a middleware pipeline promises, without threads, reads and writes of a  *)
(* field, or delegates: one pipeline is in force; every message takes one and    *)
(* goes through its components in the order in which they were used, whatever     *)
(* is in force meanwhile.  The default comes into force only through a message    *)
(* that found none.                                                         *)
(***************************************************************************)
EXTENDS Integers, Sequences

CONSTANTS
  Messages,
  Setups,        \* calls of Setup
  Uses,          \* the components each of them uses, in order
  DefaultUses,   \* those of the default pipeline
  Invoker        \* the component that calls the handlers

VARIABLES
  setup,     \* of each Setup: "open", "made" or "failed"
  inForce,   \* the pipeline in force
  fate,      \* of each message
  route,     \* the pipeline it takes
  visited    \* the components it has entered

mvars == <<setup, inForce, fate, route, visited>>

None == [kind |-> "none"]
Default == [kind |-> "default"]
Made(c) == [kind |-> "setup", setup |-> c]

Components(p) == IF p = Default THEN DefaultUses ELSE Uses[p.setup]

Init ==
  /\ setup = [c \in Setups |-> "open"]
  /\ inForce = None
  /\ fate = [m \in Messages |-> "new"]
  /\ route = [m \in Messages |-> None]
  /\ visited = [m \in Messages |-> <<>>]

\* A Setup that throws makes nothing that could come into force.
EndSetup(c) ==
  /\ setup[c] = "open"
  /\ \E end \in {"made", "failed"} : setup' = [setup EXCEPT ![c] = end]
  /\ UNCHANGED <<inForce, fate, route, visited>>

Enforceable(p) ==
  \/ \E c \in Setups : setup[c] = "made" /\ p = Made(c)
  \/ p = Default /\ \E m \in Messages : fate[m] = "first"

Enforce(p) ==
  /\ Enforceable(p)
  /\ inForce' = p
  /\ UNCHANGED <<setup, fate, route, visited>>

FindNone(m) ==
  /\ fate[m] = "new" /\ inForce = None
  /\ fate' = [fate EXCEPT ![m] = "first"]
  /\ UNCHANGED <<setup, inForce, route, visited>>

GiveUp(m) ==
  /\ fate[m] = "first"
  /\ fate' = [fate EXCEPT ![m] = "failed"]
  /\ UNCHANGED <<setup, inForce, route, visited>>

\* A message takes what is in force; one that found nothing decides what that is.
Take(m, p) ==
  /\ \/ fate[m] = "new" /\ inForce # None /\ p = inForce
     \/ fate[m] = "first" /\ Enforceable(p)
  /\ inForce' = p
  /\ route' = [route EXCEPT ![m] = p]
  /\ fate' = [fate EXCEPT ![m] = "under way"]
  /\ UNCHANGED <<setup, visited>>

\* A component calls the next one, returns without that, or throws; the one that
\* calls the handlers does not stop a message.
Visit(m) ==
  /\ fate[m] = "under way"
  /\ Len(visited[m]) < Len(Components(route[m]))
  /\ LET component == Components(route[m])[Len(visited[m]) + 1] IN
       /\ visited' = [visited EXCEPT ![m] = Append(@, component)]
       /\ \E end \in {"under way", "threw"} \cup (IF component = Invoker THEN {} ELSE {"stopped"}) :
            fate' = [fate EXCEPT ![m] = end]
  /\ UNCHANGED <<setup, inForce, route>>

Complete(m) ==
  /\ fate[m] = "under way"
  /\ Len(visited[m]) = Len(Components(route[m]))
  /\ fate' = [fate EXCEPT ![m] = "completed"]
  /\ UNCHANGED <<setup, inForce, route, visited>>

Pipelines == {Default} \cup {Made(c) : c \in Setups}

Next ==
  \/ \E c \in Setups : EndSetup(c)
  \/ \E p \in Pipelines : Enforce(p)
  \/ \E m \in Messages : FindNone(m) \/ GiveUp(m) \/ Visit(m) \/ Complete(m)
  \/ \E m \in Messages, p \in Pipelines : Take(m, p)

Spec == Init /\ [][Next]_mvars
=============================================================================
