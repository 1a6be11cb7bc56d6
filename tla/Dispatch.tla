-------------------------------- MODULE Dispatch --------------------------------
(***************************************************************************)
(* SendAsync of requests and commands, and what it gives its caller: a result   *)
(* or an exception.  A handler may send in turn, so a send is a frame on a       *)
(* stack; each frame asks the exception handlers of its own message.            *)
(*                                                                          *)
(* The middlewares are those of one pipeline, already composed (MessagePipeline  *)
(* is about their order): here they may stop a message, throw, and catch.       *)
(***************************************************************************)
EXTENDS Integers

CONSTANTS
  Messages,
  Requests,       \* the others are commands, and may be sent in the background
  Unresolvable,   \* GetRequiredService throws InvalidOperationException: there is
                  \* no handler, or a service that the handler needs is missing
  Resulting,      \* the send gives a result; the others are commands without one
  ValueResult,    \* the result is of a value type
  Typed,          \* messages with an IExceptionHandler<TMessage>
  HasGlobal,      \* whether there is an IExceptionHandler
  MaxDepth,       \* bound: sends running inside each other
  None

Handlers == {"typed", "global"}
Sends == (1..MaxDepth) \X Messages

\* An exception, the send it was raised in, the sends it has ended, and the exception
\* handlers that declined it (the last two are history).
Kinds == {"failed", "canceled", "notFound", "replaced", "badCast"}
Exceptions ==
  [kind : Kinds, origin : Sends, left : SUBSET Sends, declined : SUBSET (Sends \X Handlers)]

ASSUME MessagesAssumption ==
  /\ Requests \subseteq Resulting /\ ValueResult \subseteq Resulting
  /\ Resulting \subseteq Messages
  /\ Unresolvable \subseteq Messages /\ Typed \subseteq Messages
  /\ HasGlobal \in BOOLEAN /\ MaxDepth \in Nat
  /\ None \notin Exceptions

VARIABLES
  depth,   \* how many sends are running
  frame,   \* per depth: the message, where its send is, its result and exception
  ended    \* the send that ended last: its result, and what it threw or swallowed

vars == <<depth, frame, ended>>

Places ==
  {"unused", "entering", "handling", "returning", "unwinding", "askTyped", "askGlobal", "rethrow"}

\* What the context holds: null or nothing, a result of the type asked for, or a
\* middleware's of another type.
Results == {"none", "default", "handler", "middleware", "mistyped"}
Frames ==
  [message : Messages \cup {None}, at : Places, result : Results,
   exception : Exceptions \cup {None}]

Frame(m, place) == [message |-> m, at |-> place, result |-> "none", exception |-> None]

Init ==
  /\ depth = 0
  /\ frame = [d \in 1..MaxDepth |-> Frame(None, "unused")]
  /\ ended = [send |-> None, result |-> "none", thrown |-> None,
              swallowed |-> None, by |-> None]

Top == frame[depth]
Send == <<depth, Top.message>>
Is(place) == depth > 0 /\ Top.at = place

Goes(top) == frame' = [frame EXCEPT ![depth] = top] /\ UNCHANGED <<depth, ended>>
GoesTo(place, result) == Goes([Top EXCEPT !.at = place, !.result = result])
Raised(kind) == [kind |-> kind, origin |-> Send, left |-> {}, declined |-> {}]
Raises(kind, place) == Goes([Top EXCEPT !.at = place, !.exception = Raised(kind)])

\* What SendAsync finds registered for the exceptions of a message.
Asked(m) == (IF m \in Typed THEN {"typed"} ELSE {}) \cup (IF HasGlobal THEN {"global"} ELSE {})
-----------------------------------------------------------------------------
(* SendAsync, called by the application or by the handler on top.             *)

SendAsync(m) ==
  /\ depth < MaxDepth /\ (depth = 0 \/ Is("handling"))
  /\ depth' = depth + 1
  /\ frame' = [frame EXCEPT ![depth + 1] = Frame(m, "entering")]
  /\ UNCHANGED ended

\* A send ends: its caller gets the outcome.  The handler that called it goes on, or
\* lets the exception pass.
Leave(outcome) ==
  /\ ended' = outcome
  /\ depth' = depth - 1
  /\ \E passes \in {FALSE} \cup {depth > 1 /\ outcome.thrown # None} :
       frame' = [d \in 1..MaxDepth |->
                   IF d = depth THEN Frame(None, "unused")
                   ELSE IF passes /\ d = depth - 1
                   THEN [frame[d] EXCEPT !.at = "unwinding", !.exception = outcome.thrown]
                   ELSE frame[d]]

Outcome(result, thrown, swallowed, by) ==
  [send |-> Send, result |-> result, thrown |-> thrown, swallowed |-> swallowed, by |-> by]

Throws(e) == Leave(Outcome("none", [e EXCEPT !.left = @ \cup {Send}], None, None))

\* What default! is for the message on top.
Default == IF Top.message \in ValueResult THEN "default" ELSE "none"

\* Null is no value, and a result of another type no result; a command without result
\* is not cast.
CastFails ==
  \/ Top.message \in ValueResult /\ Top.result = "none"
  \/ Top.message \in Resulting /\ Top.result = "mistyped"

\* The cast of the result stands after the try statement.
Return ==
  /\ Is("returning")
  /\ IF CastFails
     THEN Throws(Raised("badCast"))
     ELSE Leave(Outcome(IF Top.message \in Resulting THEN Top.result ELSE "none",
                        None, None, None))
-----------------------------------------------------------------------------
(* The pipeline.                                                            *)

\* The result that a middleware leaves: what it found, or its own, of any type.
LeftByMiddleware == {Top.result, "none", "middleware", "mistyped"}

\* A middleware does not call next, or next has returned to it.
MiddlewareReturns ==
  /\ Is("entering") \/ Is("returning")
  /\ \E result \in LeftByMiddleware : GoesTo("returning", result)

\* A middleware throws, or the channel that BackgroundStrategy writes to.
MiddlewareThrows ==
  /\ Is("entering") \/ Is("returning")
  /\ \E kind \in {"failed", "canceled"} : Raises(kind, "unwinding")

\* A middleware catches the exception, and returns, or throws another one.
MiddlewareCatches ==
  /\ Is("unwinding")
  /\ \/ \E result \in LeftByMiddleware :
          Goes([Top EXCEPT !.at = "returning", !.result = result, !.exception = None])
     \/ Raises("failed", "unwinding")

\* HandlerResolver: InvalidOperationException becomes HandlerNotFoundException.
ResolveSingle ==
  /\ Is("entering")
  /\ IF Top.message \in Unresolvable
     THEN Raises("notFound", "unwinding")
     ELSE GoesTo("handling", Top.result)

\* BackgroundStrategy: the handler is resolved, and left to the worker.
ExecuteAsync ==
  /\ Is("entering") /\ Top.message \notin Unresolvable \cup Requests
  /\ GoesTo("returning", Default)

\* Fault: the result is not taken out of the handler's task.
ReturnsTask == Is("handling") /\ GoesTo("returning", "task")
HandlerReturns ==
  Is("handling") /\ GoesTo("returning", IF Top.message \in Resulting THEN "handler" ELSE "none")

HandlerThrows ==
  /\ Is("handling")
  /\ \E kind \in {"failed", "canceled"} : Raises(kind, "unwinding")
-----------------------------------------------------------------------------
(* The catch clause and TryHandleExceptionAsync.                              *)

\* Fault: every exception is caught.
AnyException(e) == TRUE
Caught(e) == e.kind # "canceled"

\* Fault: the global handler is asked first.
GlobalFirst ==
  Is("unwinding") /\ GoesTo(IF Caught(Top.exception) THEN "askGlobal" ELSE "rethrow", Top.result)

Catch ==
  /\ Is("unwinding")
  /\ GoesTo(IF Caught(Top.exception) THEN "askTyped" ELSE "rethrow", Top.result)

Declines(h, next) ==
  Goes([Top EXCEPT !.at = next, !.exception.declined = @ \cup {<<Send, h>>}])

\* An exception handler that throws does so out of SendAsync's catch clause.
Ask(h, next) ==
  \/ h \notin Asked(Top.message) /\ GoesTo(next, Top.result)
  \/ /\ h \in Asked(Top.message)
     /\ \/ Leave(Outcome(Default, None, Top.exception, h))
        \/ Declines(h, next)
        \/ \E kind \in {"replaced", "canceled"} : Raises(kind, "rethrow")

\* Fault: what the typed handler declines is rethrown.
AskTypedOnly == Is("askTyped") /\ Ask("typed", "rethrow")
AskTyped == Is("askTyped") /\ Ask("typed", "askGlobal")

AskGlobal == Is("askGlobal") /\ Ask("global", "rethrow")

Rethrow == Is("rethrow") /\ Throws(Top.exception)
-----------------------------------------------------------------------------
Next ==
  \/ \E m \in Messages : SendAsync(m)
  \/ MiddlewareReturns \/ MiddlewareThrows \/ MiddlewareCatches
  \/ ResolveSingle \/ ExecuteAsync \/ HandlerReturns \/ HandlerThrows
  \/ Return \/ Catch \/ AskTyped \/ AskGlobal \/ Rethrow

Spec == Init /\ [][Next]_vars
-----------------------------------------------------------------------------
(* Properties.                                                              *)

Outcomes ==
  [send : Sends \cup {None}, result : Results, thrown : Exceptions \cup {None},
   swallowed : Exceptions \cup {None}, by : Handlers \cup {None}]

TypeOK ==
  /\ depth \in 0..MaxDepth
  /\ frame \in [1..MaxDepth -> Frames]
  /\ ended \in Outcomes

\* Raised where no exception handler of the send itself is asked any more.
Late(e) == IF e.kind \in {"replaced", "badCast"} THEN {e.origin} ELSE {}

\* Every exception handler of every send that an exception has ended declined it.
Declined(e) ==
  \A s \in e.left \ Late(e) : \A h \in Asked(s[2]) : <<s, h>> \in e.declined

\* "If neither returns true, the original exception propagates": whoever sees an
\* exception, however many sends it has come through, sees one that every exception
\* handler of each of those sends has declined.
OnlyDeclinedExceptionsEscape ==
  ended.thrown # None /\ ended.thrown.kind # "canceled" => Declined(ended.thrown)

\* An exception is swallowed by the first that may: the innermost send first, and in
\* each send the typed handler before the global one.  Nobody is asked again about an
\* exception that has come up from below.
SwallowedInOrder ==
  ended.swallowed # None =>
    /\ Declined(ended.swallowed)
    /\ ended.by = "global" /\ ended.send[2] \in Typed =>
         <<ended.send, "typed">> \in ended.swallowed.declined
    /\ <<ended.send, ended.by>> \notin ended.swallowed.declined

\* A cancellation ends every send it comes through, and no exception handler sees it.
CancellationIsNotSwallowed ==
  /\ ended.swallowed # None => ended.swallowed.kind # "canceled"
  /\ ended.thrown # None /\ ended.thrown.kind = "canceled" => ended.thrown.declined = {}
=============================================================================
