--------------------------- MODULE CommandDelivery ---------------------------
(***************************************************************************)
(* What background processing promises, without channel, service loop or    *)
(* host: a command is refused, or handled at most once, one at a time and   *)
(* in order of arrival; it is dropped only by a lossy channel.              *)
(***************************************************************************)
EXTENDS Integers

CONSTANT Cmds

VARIABLES
  lossy,    \* the channel may drop commands
  phase,    \* of each command
  ticket,   \* order of arrival, 0 for a command that has not arrived
  issued    \* tickets given out

dvars == <<lossy, phase, ticket, issued>>

Phases == {"new", "offered", "accepted", "refused", "dropped", "running", "finished"}

InPhase(p) == {c \in Cmds : phase[c] = p}

Init ==
  /\ lossy \in BOOLEAN
  /\ phase = [c \in Cmds |-> "new"]
  /\ ticket = [c \in Cmds |-> 0]
  /\ issued = 0

Arrive(c) ==
  /\ ticket' = [ticket EXCEPT ![c] = issued + 1]
  /\ issued' = issued + 1

\* A sender whose command is not taken at once queues up with it.
Offer(c) ==
  /\ phase[c] = "new"
  /\ phase' = [phase EXCEPT ![c] = "offered"]
  /\ Arrive(c)
  /\ UNCHANGED lossy

Accept(c) ==
  /\ phase[c] = "new"
  /\ \/ phase' = [phase EXCEPT ![c] = "accepted"]
     \/ /\ lossy
        /\ \E v \in InPhase("accepted") :
             phase' = [phase EXCEPT ![c] = "accepted", ![v] = "dropped"]
  /\ Arrive(c)
  /\ UNCHANGED lossy

\* A lossy channel may take a command only to forget it.
Discard(c) ==
  /\ phase[c] = "new" /\ lossy
  /\ phase' = [phase EXCEPT ![c] = "dropped"]
  /\ UNCHANGED <<lossy, ticket, issued>>

\* Sends fail or are withdrawn, alone or all those that are waiting together.
Refuse(S) ==
  /\ S # {} /\ S \subseteq InPhase("new") \cup InPhase("offered")
  /\ phase' = [c \in Cmds |-> IF c \in S THEN "refused" ELSE phase[c]]
  /\ UNCHANGED <<lossy, ticket, issued>>

First(c, S) == c \in S /\ \A d \in S : ticket[c] <= ticket[d]

\* The earliest accepted command runs when nothing else does; its place may go
\* to the first sender in the queue.
Run(c) ==
  /\ InPhase("running") = {}
  /\ phase[c] = "accepted"
  /\ First(c, InPhase("accepted") \cup InPhase("offered"))
  /\ \/ phase' = [phase EXCEPT ![c] = "running"]
     \/ \E d \in Cmds :
          /\ First(d, InPhase("offered"))
          /\ phase' = [phase EXCEPT ![c] = "running", ![d] = "accepted"]
  /\ UNCHANGED <<lossy, ticket, issued>>

Finish(c) ==
  /\ phase[c] = "running"
  /\ phase' = [phase EXCEPT ![c] = "finished"]
  /\ UNCHANGED <<lossy, ticket, issued>>

Next ==
  \/ \E c \in Cmds : Offer(c) \/ Accept(c) \/ Discard(c) \/ Run(c) \/ Finish(c)
  \/ \E S \in SUBSET Cmds : Refuse(S)

Spec == Init /\ [][Next]_dvars
=============================================================================
