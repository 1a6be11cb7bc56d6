----------------------------- MODULE DispatchProofs -----------------------------
(***************************************************************************)
(* The safety properties of Dispatch for any messages, registrations and depth   *)
(* of sends.                                                                *)
(*                                                                          *)
(* The properties speak of the send that ended last.  Inv says the same of the    *)
(* exception that the send on top carries (Sound), how far that send has come      *)
(* with asking (Fits), and that the sends below wait in their handlers.           *)
(***************************************************************************)
EXTENDS Dispatch, TLAPS

Carrying == {"unwinding", "askTyped", "askGlobal", "rethrow"}

Sound(e) ==
  /\ e.kind = "canceled" => e.declined = {}
  /\ e.kind # "canceled" => Declined(e)

\* Only sends deeper than d have been asked about the exception.
Deeper(e, d) == \A p \in e.declined : p[1][1] > d

\* Nobody is left to be asked in this send.
Done(e, send) ==
  \/ e.kind = "canceled"
  \/ send \in Late(e)
  \/ \A h \in Asked(send[2]) : <<send, h>> \in e.declined

Fits(top, send) ==
  top.at \in Carrying =>
    /\ top.exception # None
    /\ Sound(top.exception)
    /\ top.at \in {"askTyped", "askGlobal"} => top.exception.kind # "canceled"
    /\ top.at = "askGlobal" /\ "typed" \in Asked(send[2]) =>
         <<send, "typed">> \in top.exception.declined
    /\ top.at \in {"unwinding", "askTyped"} => Deeper(top.exception, send[1])
    /\ top.at = "askGlobal" => <<send, "global">> \notin top.exception.declined
    /\ Deeper(top.exception, send[1] - 1)
    /\ top.at = "rethrow" => Done(top.exception, send)

Below ==
  \A d \in 1..depth :
    /\ frame[d].message \in Messages
    /\ d < depth => frame[d].at = "handling"

TopFits == depth > 0 => Fits(Top, Send)

EndedFits(outcome) ==
  /\ outcome.thrown # None =>
       Sound(outcome.thrown) /\ Deeper(outcome.thrown, outcome.send[1] - 1)
  /\ outcome.swallowed # None =>
       /\ outcome.swallowed.kind # "canceled"
       /\ Declined(outcome.swallowed)
       /\ outcome.by = "global" /\ outcome.send[2] \in Typed =>
            <<outcome.send, "typed">> \in outcome.swallowed.declined
       /\ <<outcome.send, outcome.by>> \notin outcome.swallowed.declined

Inv == TypeOK /\ Below /\ TopFits /\ EndedFits(ended)
-----------------------------------------------------------------------------
(* Lemmas.                                                                  *)

\* The send on top has a frame of its own.
LEMMA TopFacts ==
  ASSUME Inv, depth > 0
  PROVE  /\ depth \in 1..MaxDepth
         /\ Top \in Frames /\ Top.message \in Messages
         /\ Send \in Sends /\ Send = <<depth, Top.message>> /\ Send[2] = Top.message
         /\ Send[1] = depth /\ depth \in Int
         /\ Fits(Top, Send)
<1>1. depth \in 1..MaxDepth
  BY MessagesAssumption DEF Inv, TypeOK
<1>2. Top \in Frames /\ Top.message \in Messages
  BY <1>1 DEF Inv, TypeOK, Below, Top
<1> QED
  BY <1>1, <1>2 DEF Inv, TopFits, Send, Sends

\* The send on top goes on in a frame that fits: everything else stays.
LEMMA GoesPreserves ==
  ASSUME Inv, depth > 0, NEW top \in Frames, Goes(top),
         top.message = Top.message, Fits(top, Send)
  PROVE  Inv'
<1>1. /\ depth \in 1..MaxDepth /\ Top.message \in Messages
      /\ Send = <<depth, Top.message>>
  BY TopFacts
<1>2. /\ depth' = depth /\ ended' = ended
      /\ frame' \in [1..MaxDepth -> Frames]
      /\ frame'[depth] = top
      /\ \A d \in 1..MaxDepth : d # depth => frame'[d] = frame[d]
  BY <1>1 DEF Goes, Inv, TypeOK
<1>3. TypeOK'
  BY <1>2 DEF Inv, TypeOK
<1>4. Below'
  <2> SUFFICES ASSUME NEW d \in 1..depth
      PROVE  frame'[d].message \in Messages /\ (d < depth => frame'[d].at = "handling")
    BY <1>2 DEF Below
  <2>1. d \in 1..MaxDepth
    BY <1>1, MessagesAssumption
  <2>2. CASE d = depth
    BY <1>1, <1>2, <2>2
  <2>3. CASE d # depth
    BY <1>2, <2>1, <2>3 DEF Inv, Below
  <2> QED
    BY <2>2, <2>3
<1>5. Top' = top /\ Send' = Send
  BY <1>1, <1>2 DEF Top, Send
<1>6. TopFits'
  BY <1>2, <1>5 DEF TopFits, Fits, Sound, Done, Declined, Late, Asked, Deeper
<1>7. EndedFits(ended)'
  BY <1>2 DEF Inv, EndedFits, Sound, Declined, Late, Asked, Deeper
<1> QED
  BY <1>3, <1>4, <1>6, <1>7 DEF Inv

\* A send ends with an outcome that fits: the one below goes on in its handler, or
\* carries the exception.
LEMMA LeavePreserves ==
  ASSUME Inv, depth > 0, NEW outcome \in Outcomes, Leave(outcome), EndedFits(outcome),
         outcome.send = Send
  PROVE  Inv'
<1>1. depth \in 1..MaxDepth
  BY TopFacts
<1>2. PICK passes \in {FALSE} \cup {depth > 1 /\ outcome.thrown # None} :
         frame' = [d \in 1..MaxDepth |->
                     IF d = depth THEN Frame(None, "unused")
                     ELSE IF passes /\ d = depth - 1
                     THEN [frame[d] EXCEPT !.at = "unwinding", !.exception = outcome.thrown]
                     ELSE frame[d]]
  BY DEF Leave
<1>3. depth' = depth - 1 /\ ended' = outcome
  BY DEF Leave
<1>4. passes => depth > 1 /\ outcome.thrown # None /\ outcome.thrown \in Exceptions
  BY <1>2 DEF Outcomes
<1>5. Frame(None, "unused") \in Frames
  BY DEF Frame, Frames, Places, Results
<1>6. \A d \in 1..MaxDepth :
        frame[d] \in Frames /\ (passes =>
          [frame[d] EXCEPT !.at = "unwinding", !.exception = outcome.thrown] \in Frames)
  BY <1>4 DEF Inv, TypeOK, Frames, Places
<1>7. TypeOK'
  <2>1. frame' \in [1..MaxDepth -> Frames]
    BY <1>2, <1>5, <1>6
  <2> QED
    BY <1>1, <1>3, <2>1, MessagesAssumption DEF TypeOK
<1>8. \A d \in 1..depth - 1 :
        /\ frame'[d].message \in Messages
        /\ d < depth - 1 => frame'[d].at = "handling"
        /\ d = depth - 1 =>
             \/ frame'[d].at = "handling"
             \/ frame'[d].at = "unwinding" /\ frame'[d].exception = outcome.thrown
                  /\ outcome.thrown # None
  <2> SUFFICES ASSUME NEW d \in 1..depth - 1
      PROVE  /\ frame'[d].message \in Messages
             /\ d < depth - 1 => frame'[d].at = "handling"
             /\ d = depth - 1 =>
                  \/ frame'[d].at = "handling"
                  \/ frame'[d].at = "unwinding" /\ frame'[d].exception = outcome.thrown
                       /\ outcome.thrown # None
    OBVIOUS
  <2>1. d \in 1..MaxDepth /\ d \in 1..depth /\ d < depth /\ d # depth
    BY <1>1, MessagesAssumption
  <2>2. frame[d].message \in Messages /\ frame[d].at = "handling" /\ frame[d] \in Frames
    BY <2>1 DEF Inv, Below, TypeOK
  <2>3. CASE passes /\ d = depth - 1
    <3>1. frame'[d] = [frame[d] EXCEPT !.at = "unwinding", !.exception = outcome.thrown]
      BY <1>2, <2>1, <2>3
    <3> QED
      BY <1>4, <2>2, <2>3, <3>1 DEF Frames
  <2>4. CASE ~(passes /\ d = depth - 1)
    <3>1. frame'[d] = frame[d]
      BY <1>2, <2>1, <2>4
    <3> QED
      BY <2>2, <3>1
  <2> QED
    BY <2>3, <2>4
<1>9. Below'
  BY <1>3, <1>8, <1>1 DEF Below
<1>10. TopFits'
  <2> SUFFICES ASSUME depth - 1 > 0 PROVE Fits(Top', Send')
    BY <1>3 DEF TopFits, Fits, Sound, Done, Declined, Late, Asked, Deeper
  <2>1. depth - 1 \in 1..depth - 1
    BY <1>1, MessagesAssumption
  <2>2. Top' = frame'[depth - 1] /\ Send'[1] = depth - 1 /\ Send[1] = depth
    BY <1>3 DEF Top, Send
  <2>3. Top'.at = "unwinding" => Top'.exception = outcome.thrown /\ outcome.thrown # None
    BY <1>8, <2>1, <2>2
  <2>4. outcome.thrown # None =>
           /\ Sound(outcome.thrown) /\ Deeper(outcome.thrown, depth - 1)
           /\ Deeper(outcome.thrown, depth - 2)
    <3>1. outcome.thrown # None => outcome.thrown \in Exceptions
      BY DEF Outcomes
    <3> QED
      BY <1>1, <2>2, <3>1, MessagesAssumption DEF EndedFits, Deeper, Exceptions, Sends
  <2> QED
    BY <1>1, <1>8, <2>1, <2>2, <2>3, <2>4, MessagesAssumption DEF Fits, Carrying
<1>11. EndedFits(ended)'
  BY <1>3 DEF EndedFits, Sound, Declined, Late, Asked, Deeper
<1> QED
  BY <1>7, <1>9, <1>10, <1>11 DEF Inv

\* The send on top moves on with what it carries, to a place that fits.
LEMMA GoesToPreserves ==
  ASSUME Inv, depth > 0, NEW place \in Places, NEW result \in Results, GoesTo(place, result),
         place \in Carrying =>
           /\ Top.at \in Carrying
           /\ place \in {"askTyped", "askGlobal"} => Top.exception.kind # "canceled"
           /\ place = "askGlobal" =>
                /\ "typed" \notin Asked(Top.message)
                /\ <<Send, "global">> \notin Top.exception.declined
           /\ place \in {"unwinding", "askTyped"} => Deeper(Top.exception, Send[1])
           /\ place = "rethrow" => Done(Top.exception, Send)
  PROVE  Inv'
<1> DEFINE top == [Top EXCEPT !.at = place, !.result = result]
<1>1. Top \in Frames /\ Send[2] = Top.message /\ Fits(Top, Send)
  BY TopFacts
<1>2. /\ top \in Frames /\ top.at = place /\ top.message = Top.message
      /\ top.exception = Top.exception
  BY <1>1 DEF Frames
<1>3. Goes(top)
  BY DEF GoesTo
<1> HIDE DEF top
<1>4. Fits(top, Send)
  BY <1>1, <1>2 DEF Fits
<1> QED
  BY <1>2, <1>3, <1>4, GoesPreserves

\* A new exception has come through nothing yet.
LEMMA RaisedFacts ==
  ASSUME Inv, depth > 0, NEW kind \in Kinds
  PROVE  /\ Raised(kind) \in Exceptions /\ Raised(kind) # None
         /\ Sound(Raised(kind)) /\ \A d : Deeper(Raised(kind), d)
         /\ Raised(kind).kind = kind
         /\ kind \in {"replaced", "badCast", "canceled"} => Done(Raised(kind), Send)
<1>1. Send \in Sends /\ Send[2] = Top.message
  BY TopFacts
<1>2. Raised(kind) \in Exceptions
  BY <1>1 DEF Raised, Exceptions
<1> QED
  BY <1>1, <1>2, MessagesAssumption DEF Raised, Sound, Declined, Done, Late, Deeper

\* The send on top raises an exception where it may be handled, or where it is late.
LEMMA RaisesPreserves ==
  ASSUME Inv, depth > 0, NEW kind \in Kinds, NEW place \in {"unwinding", "rethrow"},
         Raises(kind, place),
         place = "rethrow" => kind \in {"replaced", "canceled"}
  PROVE  Inv'
<1> DEFINE top == [Top EXCEPT !.at = place, !.exception = Raised(kind)]
<1>1. Top \in Frames
  BY TopFacts
<1>2. /\ Raised(kind) \in Exceptions /\ Raised(kind) # None /\ Sound(Raised(kind))
      /\ \A d : Deeper(Raised(kind), d) /\ Raised(kind).declined = {}
      /\ place = "rethrow" => Done(Raised(kind), Send)
  BY RaisedFacts DEF Raised
<1>3. /\ top \in Frames /\ top.at = place /\ top.message = Top.message
      /\ top.exception = Raised(kind)
  BY <1>1, <1>2 DEF Frames, Places
<1>4. Goes(top)
  BY DEF Raises
<1> HIDE DEF top
<1>5. Fits(top, Send)
  BY <1>2, <1>3 DEF Fits
<1> QED
  BY <1>3, <1>4, <1>5, GoesPreserves

\* The send on top throws an exception that nobody is left to be asked about.
LEMMA ThrowsPreserves ==
  ASSUME Inv, depth > 0, NEW e \in Exceptions, Sound(e), Done(e, Send), Throws(e),
         Deeper(e, depth - 1)
  PROVE  Inv'
<1> DEFINE thrown == [e EXCEPT !.left = @ \cup {Send}]
<1> DEFINE outcome == Outcome("none", thrown, None, None)
<1>1. Send \in Sends /\ Send[1] = depth
  BY TopFacts
<1>2. /\ thrown \in Exceptions /\ thrown.left = e.left \cup {Send}
      /\ thrown.kind = e.kind /\ thrown.origin = e.origin /\ thrown.declined = e.declined
  BY <1>1 DEF Exceptions
<1>3. Leave(outcome)
  BY DEF Throws
<1> HIDE DEF thrown
<1>4. Sound(thrown)
  BY <1>2 DEF Sound, Declined, Done, Late
<1>5. outcome \in Outcomes
  BY <1>1, <1>2 DEF Outcome, Outcomes, Results
<1>6. EndedFits(outcome) /\ outcome.send = Send
  BY <1>1, <1>2, <1>4 DEF EndedFits, Outcome, Deeper
<1> HIDE DEF outcome
<1> QED
  BY <1>3, <1>5, <1>6, LeavePreserves

\* A send begins.
LEMMA SendPreserves ==
  ASSUME Inv, NEW m \in Messages, SendAsync(m)
  PROVE  Inv'
<1>1. /\ depth \in Nat /\ depth < MaxDepth /\ depth + 1 \in 1..MaxDepth
      /\ depth' = depth + 1 /\ ended' = ended
      /\ depth > 0 => Top.at = "handling"
  BY MessagesAssumption DEF Inv, TypeOK, SendAsync, Is
<1>2. Frame(m, "entering") \in Frames
  BY DEF Frame, Frames, Places, Results
<1>3. /\ frame' \in [1..MaxDepth -> Frames]
      /\ frame'[depth + 1] = Frame(m, "entering")
      /\ \A d \in 1..MaxDepth : d # depth + 1 => frame'[d] = frame[d]
  BY <1>1, <1>2 DEF SendAsync, Inv, TypeOK
<1>4. TypeOK'
  BY <1>1, <1>3, MessagesAssumption DEF Inv, TypeOK
<1>5. Below'
  <2> SUFFICES ASSUME NEW d \in 1..depth + 1
      PROVE  frame'[d].message \in Messages /\ (d < depth + 1 => frame'[d].at = "handling")
    BY <1>1 DEF Below
  <2>1. CASE d = depth + 1
    BY <1>3, <2>1 DEF Frame
  <2>2. CASE d # depth + 1
    <3>1. d \in 1..depth /\ frame'[d] = frame[d]
      BY <1>1, <1>3, <2>2, MessagesAssumption
    <3> QED
      BY <1>1, <3>1 DEF Inv, Below, Top
  <2> QED
    BY <2>1, <2>2
<1>6. TopFits'
  <2>1. Top'.at = "entering"
    BY <1>1, <1>3 DEF Top, Frame
  <2> QED
    BY <2>1 DEF TopFits, Fits, Carrying
<1>7. EndedFits(ended)'
  BY <1>1 DEF Inv, EndedFits, Sound, Declined, Late, Asked, Deeper
<1> QED
  BY <1>4, <1>5, <1>6, <1>7 DEF Inv

\* The pipeline, in and out.
LEMMA PipelinePreserves ==
  ASSUME Inv, \/ MiddlewareReturns \/ MiddlewareThrows \/ MiddlewareCatches \/ ResolveSingle
              \/ ExecuteAsync \/ HandlerReturns \/ HandlerThrows
  PROVE  Inv'
<1>1. depth > 0
  BY DEF MiddlewareReturns, MiddlewareThrows, MiddlewareCatches, ResolveSingle, ExecuteAsync,
     HandlerReturns, HandlerThrows, Is
<1>2. Top \in Frames /\ Top.result \in Results /\ Top.message \in Messages
  BY <1>1, TopFacts DEF Frames
<1>3. CASE MiddlewareReturns
  BY <1>1, <1>2, <1>3, GoesToPreserves
     DEF MiddlewareReturns, LeftByMiddleware, Places, Results, Carrying
<1>4. CASE MiddlewareThrows
  BY <1>1, <1>4, RaisesPreserves DEF MiddlewareThrows, Kinds
<1>5. CASE MiddlewareCatches
  <2>1. CASE Raises("failed", "unwinding")
    BY <1>1, <2>1, RaisesPreserves DEF Kinds
  <2>2. ASSUME NEW result \in LeftByMiddleware,
               Goes([Top EXCEPT !.at = "returning", !.result = result, !.exception = None])
        PROVE  Inv'
    <3> DEFINE top == [Top EXCEPT !.at = "returning", !.result = result, !.exception = None]
    <3>1. top \in Frames /\ top.at = "returning" /\ top.message = Top.message
      BY <1>2 DEF Frames, Places, Results, LeftByMiddleware
    <3>2. Goes(top)
      BY <2>2
    <3> HIDE DEF top
    <3> QED
      BY <1>1, <3>1, <3>2, GoesPreserves DEF Fits, Carrying
  <2> QED
    BY <1>5, <2>1, <2>2 DEF MiddlewareCatches
<1>6. CASE ResolveSingle
  BY <1>1, <1>2, <1>6, RaisesPreserves, GoesToPreserves
     DEF ResolveSingle, Kinds, Places, Carrying
<1>7. CASE ExecuteAsync
  BY <1>1, <1>7, GoesToPreserves DEF ExecuteAsync, Default, Places, Results, Carrying
<1>8. CASE HandlerReturns
  BY <1>1, <1>8, GoesToPreserves DEF HandlerReturns, Places, Results, Carrying
<1>9. CASE HandlerThrows
  BY <1>1, <1>9, RaisesPreserves DEF HandlerThrows, Kinds
<1> QED
  BY <1>3, <1>4, <1>5, <1>6, <1>7, <1>8, <1>9

\* A send returns, or its result cannot be cast.
LEMMA ReturnPreserves ==
  ASSUME Inv, Return
  PROVE  Inv'
<1>1. depth > 0
  BY DEF Return, Is
<1>2. Send \in Sends /\ Top.result \in Results
  BY <1>1, TopFacts DEF Frames
<1>3. CASE Throws(Raised("badCast"))
  BY <1>1, <1>3, RaisedFacts, ThrowsPreserves DEF Kinds
<1>4. ASSUME NEW result \in Results, Leave(Outcome(result, None, None, None))
      PROVE  Inv'
  <2> DEFINE outcome == Outcome(result, None, None, None)
  <2>1. outcome \in Outcomes /\ EndedFits(outcome) /\ outcome.send = Send
    BY <1>2 DEF Outcome, Outcomes, EndedFits
  <2> QED
    BY <1>1, <1>4, <2>1, LeavePreserves
<1>5. "none" \in Results
  BY DEF Results
<1> QED
  BY <1>2, <1>3, <1>4, <1>5 DEF Return

\* The catch clause lets a cancellation pass.
LEMMA CatchPreserves ==
  ASSUME Inv, Catch
  PROVE  Inv'
<1>1. depth > 0 /\ Top.at = "unwinding"
  BY DEF Catch, Is
<1>2. Top.result \in Results
  BY <1>1, TopFacts DEF Frames
<1>3. CASE Caught(Top.exception)
  <2>1. Deeper(Top.exception, Send[1])
    BY <1>1, TopFacts DEF Fits, Carrying
  <2> QED
    BY <1>1, <1>2, <1>3, <2>1, GoesToPreserves DEF Catch, Caught, Places, Carrying
<1>4. CASE ~Caught(Top.exception)
  BY <1>1, <1>2, <1>4, GoesToPreserves DEF Catch, Caught, Places, Carrying, Done
<1> QED
  BY <1>3, <1>4

\* An exception handler that declines: nothing that was settled is unsettled.
LEMMA DeclinesPreserves ==
  ASSUME Inv, depth > 0, NEW h \in Handlers, NEW next \in {"askGlobal", "rethrow"},
         Top.at \in {"askTyped", "askGlobal"}, Declines(h, next),
         next = "askGlobal" => h = "typed" /\ Top.at = "askTyped",
         next = "rethrow" => \A g \in Asked(Top.message) \ {h} :
                               <<Send, g>> \in Top.exception.declined
  PROVE  Inv'
<1> DEFINE e == Top.exception
<1> DEFINE told == [e EXCEPT !.declined = @ \cup {<<Send, h>>}]
<1> DEFINE top == [Top EXCEPT !.at = next, !.exception = told]
<1>1. /\ Top \in Frames /\ Send \in Sends /\ Send[2] = Top.message
      /\ e # None /\ Sound(e) /\ e.kind # "canceled"
  BY TopFacts DEF Fits, Carrying
<1>2. e \in Exceptions
  BY <1>1 DEF Frames
<1>3. /\ told \in Exceptions
      /\ told.kind = e.kind /\ told.origin = e.origin /\ told.left = e.left
      /\ told.declined = e.declined \cup {<<Send, h>>}
  BY <1>1, <1>2 DEF Exceptions
<1>4. Goes(top)
  BY DEF Declines
<1> HIDE DEF told
<1>5. Sound(told) /\ told # None
  BY <1>1, <1>3, MessagesAssumption DEF Sound, Declined, Late
<1>6. /\ top \in Frames /\ top.at = next /\ top.message = Top.message
      /\ top.exception = told
  BY <1>1, <1>3 DEF Frames, Places
<1> HIDE DEF top, e
<1>7. Fits(top, Send)
  <2>1. next = "askGlobal" => <<Send, "typed">> \in told.declined
    BY <1>3
  <2>2. next = "rethrow" => Done(told, Send)
    BY <1>1, <1>3 DEF Done, e
  <2>3. Deeper(told, Send[1] - 1)
    BY <1>1, <1>3, TopFacts DEF Fits, Carrying, Deeper, e
  <2>4. next = "askGlobal" => <<Send, "global">> \notin told.declined
    BY <1>3, TopFacts DEF Fits, Carrying, Deeper, e
  <2> QED
    BY <1>1, <1>3, <1>5, <1>6, <2>1, <2>2, <2>3, <2>4 DEF Fits
<1> QED
  BY <1>4, <1>6, <1>7, GoesPreserves

\* An exception handler that accepts: the send returns the default.
LEMMA AcceptsPreserves ==
  ASSUME Inv, depth > 0, NEW h \in Handlers,
         Top.at = IF h = "typed" THEN "askTyped" ELSE "askGlobal",
         Leave(Outcome(Default, None, Top.exception, h))
  PROVE  Inv'
<1> DEFINE outcome == Outcome(Default, None, Top.exception, h)
<1>1. /\ Top \in Frames /\ Send \in Sends /\ Send[2] = Top.message /\ Fits(Top, Send)
      /\ Top.at \in {"askTyped", "askGlobal"}
  BY TopFacts DEF Handlers
<1>2. outcome \in Outcomes
  BY <1>1 DEF Outcome, Outcomes, Default, Results, Frames
<1>3. <<Send, h>> \notin Top.exception.declined
  BY <1>1, TopFacts DEF Fits, Carrying, Deeper, Handlers
<1>4. EndedFits(outcome) /\ outcome.send = Send
  BY <1>1, <1>3 DEF Outcome, EndedFits, Fits, Carrying, Sound, Asked
<1> HIDE DEF outcome
<1> QED
  BY <1>2, <1>4, LeavePreserves DEF outcome

\* The typed exception handler is asked.
LEMMA AskTypedPreserves ==
  ASSUME Inv, AskTyped
  PROVE  Inv'
<1>1. depth > 0 /\ Top.at = "askTyped" /\ Ask("typed", "askGlobal")
  BY DEF AskTyped, Is
<1>2. Top.result \in Results /\ Fits(Top, Send)
  BY <1>1, TopFacts DEF Frames
<1>3. CASE "typed" \notin Asked(Top.message) /\ GoesTo("askGlobal", Top.result)
  <2>1. <<Send, "global">> \notin Top.exception.declined
    BY <1>1, TopFacts DEF Fits, Carrying, Deeper
  <2> QED
    BY <1>1, <1>2, <1>3, <2>1, GoesToPreserves DEF Places, Carrying, Fits
<1>4. CASE Leave(Outcome(Default, None, Top.exception, "typed"))
  BY <1>1, <1>4, AcceptsPreserves DEF Handlers
<1>5. CASE Declines("typed", "askGlobal")
  BY <1>1, <1>5, DeclinesPreserves DEF Handlers
<1>6. ASSUME NEW kind \in {"replaced", "canceled"}, Raises(kind, "rethrow") PROVE Inv'
  BY <1>1, <1>6, RaisesPreserves DEF Kinds
<1> QED
  BY <1>1, <1>3, <1>4, <1>5, <1>6 DEF Ask

\* The global exception handler is asked: it is the last.
LEMMA AskGlobalPreserves ==
  ASSUME Inv, AskGlobal
  PROVE  Inv'
<1>1. depth > 0 /\ Top.at = "askGlobal" /\ Ask("global", "rethrow")
  BY DEF AskGlobal, Is
<1>2. Top.result \in Results /\ Fits(Top, Send) /\ Send[2] = Top.message
  BY <1>1, TopFacts DEF Frames
<1>3. \A g \in Asked(Top.message) \ {"global"} : <<Send, g>> \in Top.exception.declined
  BY <1>1, <1>2 DEF Asked, Fits, Carrying
<1>4. CASE "global" \notin Asked(Top.message) /\ GoesTo("rethrow", Top.result)
  <2>1. Done(Top.exception, Send)
    BY <1>2, <1>3, <1>4 DEF Done
  <2> QED
    BY <1>1, <1>2, <1>4, <2>1, GoesToPreserves DEF Places, Carrying
<1>5. CASE Leave(Outcome(Default, None, Top.exception, "global"))
  BY <1>1, <1>5, AcceptsPreserves DEF Handlers
<1>6. CASE Declines("global", "rethrow")
  BY <1>1, <1>3, <1>6, DeclinesPreserves DEF Handlers
<1>7. ASSUME NEW kind \in {"replaced", "canceled"}, Raises(kind, "rethrow") PROVE Inv'
  BY <1>1, <1>7, RaisesPreserves DEF Kinds
<1> QED
  BY <1>1, <1>4, <1>5, <1>6, <1>7 DEF Ask

\* What was carried this far is thrown to the caller.
LEMMA RethrowPreserves ==
  ASSUME Inv, Rethrow
  PROVE  Inv'
<1>1. depth > 0 /\ Top.at = "rethrow" /\ Throws(Top.exception)
  BY DEF Rethrow, Is
<1>2. /\ Top.exception \in Exceptions /\ Sound(Top.exception) /\ Done(Top.exception, Send)
      /\ Deeper(Top.exception, depth - 1)
  BY <1>1, TopFacts DEF Frames, Fits, Carrying
<1> QED
  BY <1>1, <1>2, ThrowsPreserves

\* Inv holds before anything is sent, and every step preserves it.
LEMMA SpecInv == Spec => []Inv
<1>1. Init => Inv
  <2> SUFFICES ASSUME Init PROVE Inv
    OBVIOUS
  <2>1. Frame(None, "unused") \in Frames
    BY DEF Frame, Frames, Places, Results
  <2>2. TypeOK
    BY <2>1, MessagesAssumption DEF Init, TypeOK, Outcomes, Results
  <2> QED
    BY <2>2 DEF Init, Inv, Below, TopFits, EndedFits
<1>2. Inv /\ [Next]_vars => Inv'
  <2> SUFFICES ASSUME Inv, [Next]_vars PROVE Inv'
    OBVIOUS
  <2>1. ASSUME NEW m \in Messages, SendAsync(m) PROVE Inv'
    BY <2>1, SendPreserves
  <2>2. CASE \/ MiddlewareReturns \/ MiddlewareThrows \/ MiddlewareCatches \/ ResolveSingle
             \/ ExecuteAsync \/ HandlerReturns \/ HandlerThrows
    BY <2>2, PipelinePreserves
  <2>3. CASE Return
    BY <2>3, ReturnPreserves
  <2>4. CASE Catch \/ AskTyped \/ AskGlobal \/ Rethrow
    BY <2>4, CatchPreserves, AskTypedPreserves, AskGlobalPreserves, RethrowPreserves
  <2>5. CASE UNCHANGED vars
    BY <2>5 DEF vars, Inv, TypeOK, Below, TopFits, EndedFits, Fits, Top, Send, Sound, Done,
       Declined, Late, Asked, Deeper
  <2> QED
    BY <2>1, <2>2, <2>3, <2>4, <2>5 DEF Next
<1> QED
  BY <1>1, <1>2, PTL DEF Spec
-----------------------------------------------------------------------------
(* Theorems.                                                                *)

\* Every frame and outcome holds the values SendAsync gives it, at any depth of sends.
THEOREM DispatchTyped == Spec => []TypeOK
<1>1. Inv => TypeOK
  BY DEF Inv
<1> QED
  BY <1>1, SpecInv, PTL

\* Through however many sends an exception has come, whoever sees it sees one that
\* every exception handler on its way has declined.
THEOREM OnlyDeclinedEscape == Spec => []OnlyDeclinedExceptionsEscape
<1>1. Inv => OnlyDeclinedExceptionsEscape
  BY DEF Inv, EndedFits, Sound, OnlyDeclinedExceptionsEscape
<1> QED
  BY <1>1, SpecInv, PTL

\* The innermost send that may swallow an exception is asked first, its typed handler
\* before the global one.
THEOREM FirstMaySwallow == Spec => []SwallowedInOrder
<1>1. Inv => SwallowedInOrder
  BY DEF Inv, EndedFits, SwallowedInOrder
<1> QED
  BY <1>1, SpecInv, PTL

\* No exception handler ever sees a cancellation.
THEOREM CancellationPasses == Spec => []CancellationIsNotSwallowed
<1>1. Inv => CancellationIsNotSwallowed
  BY DEF Inv, EndedFits, Sound, CancellationIsNotSwallowed
<1> QED
  BY <1>1, SpecInv, PTL
=============================================================================
