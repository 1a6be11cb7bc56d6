--------------------------- MODULE NotificationDelivery ---------------------------
(***************************************************************************)
(* What publishing a notification promises, without strategies, tasks and      *)
(* exception handlers: each handler begins at most once and ends as it ends, in *)
(* turn if the publish is ordered; and the sender is told once, after all that  *)
(* will ever run has ended, a verdict that the ends of the handlers warrant.    *)
(***************************************************************************)
EXTENDS Integers

CONSTANT Handlers   \* in the order in which an ordered publish calls them

VARIABLES
  ordered,      \* whether a handler waits for the success of those before it
  registered,   \* the handlers of this notification
  state,        \* of each handler
  verdict       \* what the sender has been told, and whose failures it was told of

pvars == <<ordered, registered, state, verdict>>

Ends == {"succeeded", "failed", "canceled"}
Verdict(kind, of) == [kind |-> kind, of |-> of]
Pending == Verdict("pending", {})

Init ==
  /\ ordered \in BOOLEAN
  /\ registered \in SUBSET Handlers
  /\ state = [i \in Handlers |-> "waiting"]
  /\ verdict = Pending

Begin(i) ==
  /\ i \in registered /\ state[i] = "waiting"
  /\ ordered => \A j \in registered : j < i => state[j] = "succeeded"
  /\ \E s \in {"running"} \cup Ends : state' = [state EXCEPT ![i] = s]

End(i) ==
  /\ state[i] = "running"
  /\ \E s \in Ends : state' = [state EXCEPT ![i] = s]

\* Everything that will run has: all handlers, or those up to the first in the order
\* that did not succeed.
Complete(now) ==
  \/ \A i \in registered : now[i] \in Ends
  \/ /\ ordered
     /\ \A i \in registered : now[i] # "running"
     /\ \E i \in registered : now[i] \in {"failed", "canceled"}

\* A failure is thrown, with all others, unless it is swallowed or replaced by
\* another; it wins over a cancellation, and a cancellation over success.
Warranted(now) ==
  LET Ended(end) == {i \in registered : now[i] = end} IN
    IF Ended("failed") # {}
    THEN {Verdict("threw", Ended("failed")), Verdict("swallowed", Ended("failed")),
          Verdict("replaced", {})}
    ELSE IF Ended("canceled") # {} THEN {Verdict("canceled", {})}
    ELSE {Verdict("returned", {})}

Tell ==
  /\ Complete(state')
  /\ verdict' \in Warranted(state')

\* The sender may be told in the moment in which the last handler ends.
Next ==
  /\ verdict = Pending
  /\ (\E i \in Handlers : Begin(i) \/ End(i)) \/ UNCHANGED state
  /\ Tell \/ UNCHANGED verdict
  /\ UNCHANGED <<ordered, registered>>

Spec == Init /\ [][Next]_pvars
=============================================================================
