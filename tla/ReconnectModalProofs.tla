------------------------- MODULE ReconnectModalProofs -------------------------
(***************************************************************************)
(* The safety properties of ReconnectModal for any number of calls.           *)
(*                                                                          *)
(* ListensOnlyAfterFailure is not inductive: it needs OneAtATime.  As long as   *)
(* no two calls have overlapped, the one that waits still sees the dialog it was   *)
(* started from, and a retry that waits has taken its listener along.            *)
(***************************************************************************)
EXTENDS ReconnectModal, TLAPS

OneAtATime ==
  ~overlapped =>
    \A c \in Calls : call[c] # "idle" =>
      /\ \A d \in Calls \ {c} : call[d] = "idle"
      /\ call[c] # "resuming" => shown = "failed" /\ ~listening
      /\ call[c] = "resuming" => shown \in {"paused", "resume-failed"}

Inv ==
  /\ TypeOK
  /\ NeverStranded
  /\ DialogTellsTheTruth
  /\ ReloadLosesNothing
  /\ ListensOnlyAfterFailure
  /\ OneAtATime
-----------------------------------------------------------------------------
(* Lemmas.                                                                  *)

\* A call changes its own await and no other.
LEMMA OneCallMoves ==
  ASSUME TypeOK, NEW c \in Calls,
         NEW for \in {"idle", "reconnecting", "retryResuming", "resuming"}, Waits(c, for)
  PROVE  /\ call' \in [Calls -> {"idle", "reconnecting", "retryResuming", "resuming"}]
         /\ call'[c] = for
         /\ \A d \in Calls \ {c} : call'[d] = call[d]
  BY DEF TypeOK, Waits

\* Inv holds when the page is loaded.
LEMMA InitEstablishes == Init => Inv
  BY DEF Init, Inv, TypeOK, NeverStranded, DialogTellsTheTruth, ReloadLosesNothing,
     ListensOnlyAfterFailure, OneAtATime, Retrying

\* What a failed session needs is still there when one call has ended and has left
\* the listener in place, or was no retry.
LEMMA StillTries ==
  ASSUME TypeOK, NeverStranded, NEW c \in Calls, ~reloading, shown' = "failed" => shown = "failed",
         Waits(c, "idle"), listening' \/ (call[c] = "resuming" /\ listening' = listening)
  PROVE  NeverStranded'
<1>1. \A d \in Calls \ {c} : call'[d] = call[d]
  BY OneCallMoves
<1> QED
  BY <1>1 DEF NeverStranded, Retrying

\* A retry that starts waits, or listens again: from a failed session, or from a
\* page that is looked at while it listens.
LEMMA RetryPreserves ==
  ASSUME Inv, NEW c \in Calls, retry(c), shown = "failed" \/ listening,
         UNCHANGED <<circuit, reachable>>, visible' \in BOOLEAN
  PROVE  Inv'
<1>1. /\ shown' = shown /\ modal' = modal /\ reloading' = reloading
      /\ call[c] = "idle" /\ ~reloading
      /\ circuit' = circuit /\ reachable' = reachable
      /\ overlapped' \in BOOLEAN /\ (~overlapped' => ~overlapped)
      /\ ~overlapped' => \A d \in Calls \ {c} : call[d] = "idle"
  BY DEF retry, NotAlone, Inv, TypeOK
<1>2. CASE StopListening /\ Waits(c, "reconnecting")
  <2>1. /\ call' \in [Calls -> {"idle", "reconnecting", "retryResuming", "resuming"}]
        /\ call'[c] = "reconnecting"
        /\ \A d \in Calls \ {c} : call'[d] = call[d]
        /\ listening' = FALSE
    BY <1>2, OneCallMoves DEF Inv, StopListening
  <2> QED
    BY <1>1, <2>1 DEF Inv, TypeOK, NeverStranded, DialogTellsTheTruth, ReloadLosesNothing,
       ListensOnlyAfterFailure, OneAtATime, Retrying
<1>3. CASE ListenAgain /\ UNCHANGED call
  BY <1>1, <1>3 DEF Inv, TypeOK, NeverStranded, DialogTellsTheTruth, ReloadLosesNothing,
     ListensOnlyAfterFailure, OneAtATime, Retrying, ListenAgain
<1> QED
  BY <1>2, <1>3 DEF retry

\* A click on Resume.
LEMMA ClickResumePreserves ==
  ASSUME Inv, NEW c \in Calls, ClickResume(c)
  PROVE  Inv'
<1>1. /\ modal' = modal /\ reloading' = reloading /\ listening' = listening
      /\ call[c] = "idle" /\ ~reloading /\ shown \in {"paused", "resume-failed"}
      /\ circuit' = circuit /\ reachable' = reachable /\ visible' = visible
      /\ overlapped' \in BOOLEAN /\ (~overlapped' => ~overlapped)
      /\ ~overlapped' => \A d \in Calls \ {c} : call[d] = "idle"
  BY DEF ClickResume, Others, resume, NotAlone, Inv, TypeOK
<1>2. CASE Waits(c, "resuming") /\ UNCHANGED shown
  <2>1. /\ call' \in [Calls -> {"idle", "reconnecting", "retryResuming", "resuming"}]
        /\ call'[c] = "resuming"
        /\ \A d \in Calls \ {c} : call'[d] = call[d]
    BY <1>2, OneCallMoves DEF Inv
  <2> QED
    BY <1>1, <1>2, <2>1 DEF Inv, TypeOK, NeverStranded, DialogTellsTheTruth,
       ReloadLosesNothing, ListensOnlyAfterFailure, OneAtATime, Retrying
<1>3. CASE ShowResumeFailed /\ UNCHANGED call
  BY <1>1, <1>3 DEF Inv, TypeOK, NeverStranded, DialogTellsTheTruth, ReloadLosesNothing,
     ListensOnlyAfterFailure, OneAtATime, Retrying, ShowResumeFailed
<1> QED
  BY <1>2, <1>3 DEF ClickResume, resume

\* A call that cannot reach the server: a retry listens again.
LEMMA UnreachablePreserves ==
  ASSUME Inv, NEW c \in Calls, Unreachable(c)
  PROVE  Inv'
<1>1. /\ call' \in [Calls -> {"idle", "reconnecting", "retryResuming", "resuming"}]
      /\ call'[c] = "idle"
      /\ \A d \in Calls \ {c} : call'[d] = call[d]
      /\ modal' = modal /\ reloading' = reloading /\ ~reloading /\ call[c] # "idle"
      /\ overlapped' = overlapped
      /\ circuit' = circuit /\ reachable' = reachable /\ visible' = visible
  BY OneCallMoves DEF Unreachable, Ends, Others, Inv
<1>2. CASE call[c] = "resuming" /\ ShowResumeFailed /\ UNCHANGED listening
  <2>1. NeverStranded'
    BY <1>2, StillTries DEF ShowResumeFailed, Unreachable, Ends, Inv
  <2> QED
    BY <1>1, <1>2, <2>1 DEF Inv, TypeOK, DialogTellsTheTruth, ReloadLosesNothing,
       ListensOnlyAfterFailure, OneAtATime, ShowResumeFailed
<1>3. CASE call[c] # "resuming" /\ ListenAgain /\ UNCHANGED shown
  BY <1>1, <1>3 DEF Inv, TypeOK, NeverStranded, DialogTellsTheTruth, ReloadLosesNothing,
     ListensOnlyAfterFailure, OneAtATime, Retrying, ListenAgain
<1> QED
  BY <1>2, <1>3 DEF Unreachable

\* A reconnect brings the session back.  Only a retry that was overlapped finds the
\* listener in place.
LEMMA ReconnectedPreserves ==
  ASSUME Inv, NEW c \in Calls, Reconnected(c)
  PROVE  Inv'
<1>1. /\ call' \in [Calls -> {"idle", "reconnecting", "retryResuming", "resuming"}]
      /\ call'[c] = "idle"
      /\ \A d \in Calls \ {c} : call'[d] = call[d]
      /\ call[c] = "reconnecting"
  BY OneCallMoves DEF Reconnected, Ends, Inv
<1>2. /\ circuit' = "live" /\ shown' = "hide" /\ modal' = FALSE /\ reloading' = FALSE
      /\ listening' = listening /\ overlapped' = overlapped
      /\ reachable' = reachable /\ visible' = visible
  BY DEF Reconnected, StateChanged, Inv, TypeOK
<1> QED
  BY <1>1, <1>2 DEF Inv, TypeOK, NeverStranded,
     DialogTellsTheTruth, ReloadLosesNothing, ListensOnlyAfterFailure, OneAtATime

\* A refused reconnect goes on to resume, or fails at once.
LEMMA RefusedPreserves ==
  ASSUME Inv, NEW c \in Calls, Refused(c)
  PROVE  Inv'
<1>1. /\ shown' = shown /\ modal' = modal /\ overlapped' = overlapped
      /\ circuit' = circuit /\ reachable' = reachable /\ visible' = visible
      /\ reloading' = reloading /\ ~reloading /\ call[c] = "reconnecting"
  BY DEF Refused, AskToResume, Others
<1>2. CASE Waits(c, "retryResuming") /\ UNCHANGED <<listening, reloading>>
  <2>1. /\ call' \in [Calls -> {"idle", "reconnecting", "retryResuming", "resuming"}]
        /\ call'[c] = "retryResuming"
        /\ \A d \in Calls \ {c} : call'[d] = call[d]
    BY <1>2, OneCallMoves DEF Inv
  <2> QED
    BY <1>1, <1>2, <2>1 DEF Inv, TypeOK, NeverStranded, DialogTellsTheTruth,
       ReloadLosesNothing, ListensOnlyAfterFailure, OneAtATime, Retrying
<1>3. CASE Ends(c) /\ ListenAgain
  <2>1. /\ call' \in [Calls -> {"idle", "reconnecting", "retryResuming", "resuming"}]
        /\ call'[c] = "idle"
        /\ \A d \in Calls \ {c} : call'[d] = call[d]
    BY <1>3, OneCallMoves DEF Inv, Ends
  <2> QED
    BY <1>1, <1>3, <2>1 DEF Inv, TypeOK, NeverStranded, DialogTellsTheTruth,
       ReloadLosesNothing, ListensOnlyAfterFailure, OneAtATime, Retrying, ListenAgain
<1> QED
  BY <1>2, <1>3 DEF Refused, AskToResume

\* A resume brings the session back.
LEMMA ResumedPreserves ==
  ASSUME Inv, NEW c \in Calls, Resumed(c)
  PROVE  Inv'
<1>1. /\ call' \in [Calls -> {"idle", "reconnecting", "retryResuming", "resuming"}]
      /\ call'[c] = "idle"
      /\ \A d \in Calls \ {c} : call'[d] = call[d]
      /\ call[c] \in {"retryResuming", "resuming"} /\ ~reloading
  BY OneCallMoves DEF Resumed, Ends, Inv
<1>2. /\ circuit' = "live" /\ shown' = "hide" /\ modal' = FALSE /\ reloading' = FALSE
      /\ listening' = listening /\ overlapped' = overlapped
      /\ reachable' = reachable /\ visible' = visible
  BY <1>1 DEF Resumed, StateChanged, CloseDialog, Inv, TypeOK
<1> QED
  BY <1>1, <1>2 DEF Inv, TypeOK, NeverStranded,
     DialogTellsTheTruth, ReloadLosesNothing, ListensOnlyAfterFailure, OneAtATime

\* A refused resume reloads a page whose session is gone.
LEMMA ResumeRefusedPreserves ==
  ASSUME Inv, NEW c \in Calls, ResumeRefused(c)
  PROVE  Inv'
<1>1. /\ call' \in [Calls -> {"idle", "reconnecting", "retryResuming", "resuming"}]
      /\ call'[c] = "idle"
      /\ \A d \in Calls \ {c} : call'[d] = call[d]
  BY OneCallMoves DEF ResumeRefused, Ends, Inv
<1> QED
  BY <1>1 DEF ResumeRefused, Reload, Others, Inv, TypeOK, NeverStranded,
     DialogTellsTheTruth, ReloadLosesNothing, ListensOnlyAfterFailure, OneAtATime

\* The connection and Blazor's own attempts, which no call takes part in.
LEMMA RuntimePreserves ==
  ASSUME Inv,
         \/ ConnectionLost \/ SessionPaused \/ ReconnectsItself \/ FailsToReconnect
         \/ IsRejected \/ SessionExpires \/ ServerComesOrGoes
  PROVE  Inv'
<1> USE DEF Inv, TypeOK, NeverStranded, DialogTellsTheTruth, ReloadLosesNothing,
        ListensOnlyAfterFailure, OneAtATime, Retrying
<1>1. CASE ConnectionLost
  BY <1>1 DEF ConnectionLost, Announce, StateChanged
<1>2. CASE SessionPaused
  BY <1>2 DEF SessionPaused
<1>3. CASE ReconnectsItself
  BY <1>3 DEF ReconnectsItself, Announce, StateChanged
<1>4. CASE FailsToReconnect
  BY <1>4 DEF FailsToReconnect, Announce, StateChanged
<1>5. CASE IsRejected
  BY <1>5 DEF IsRejected, Announce, StateChanged
<1>6. CASE SessionExpires
  BY <1>6 DEF SessionExpires, page
<1>7. CASE ServerComesOrGoes
  BY <1>7 DEF ServerComesOrGoes, page
<1> QED
  BY <1>1, <1>2, <1>3, <1>4, <1>5, <1>6, <1>7

\* Every step of the page, its user and its server preserves Inv.
LEMMA NextPreserves == Inv /\ [Next]_vars => Inv'
<1> SUFFICES ASSUME Inv, [Next]_vars PROVE Inv'
  OBVIOUS
<1>1. ASSUME NEW c \in Calls, ClickRetry(c) PROVE Inv'
  BY <1>1, RetryPreserves DEF ClickRetry, Others, Inv, TypeOK
<1>2. ASSUME NEW c \in Calls, ClickResume(c) PROVE Inv'
  BY <1>2, ClickResumePreserves
<1>3. ASSUME NEW c \in Calls, Answer(c) PROVE Inv'
  BY <1>3, UnreachablePreserves, ReconnectedPreserves, RefusedPreserves, ResumedPreserves,
     ResumeRefusedPreserves DEF Answer
<1>4. CASE VisibilityChanges
  <2>1. visible' \in BOOLEAN /\ UNCHANGED <<circuit, reachable>>
    BY <1>4 DEF VisibilityChanges
  <2>2. CASE listening /\ visible'
    BY <1>4, <2>1, <2>2, RetryPreserves DEF VisibilityChanges
  <2>3. CASE ~(listening /\ visible')
    <3>1. UNCHANGED page
      BY <1>4, <2>3 DEF VisibilityChanges
    <3> QED
      BY <2>1, <3>1 DEF page, Inv, TypeOK, NeverStranded, DialogTellsTheTruth,
         ReloadLosesNothing, ListensOnlyAfterFailure, OneAtATime, Retrying
  <2> QED
    BY <2>2, <2>3
<1>5. CASE \/ ConnectionLost \/ SessionPaused \/ ReconnectsItself \/ FailsToReconnect
           \/ IsRejected \/ SessionExpires \/ ServerComesOrGoes
  BY <1>5, RuntimePreserves
<1>6. CASE UNCHANGED vars
  BY <1>6 DEF vars, Inv, TypeOK, NeverStranded, DialogTellsTheTruth, ReloadLosesNothing,
     ListensOnlyAfterFailure, OneAtATime, Retrying
<1> QED
  BY <1>1, <1>2, <1>3, <1>4, <1>5, <1>6 DEF Next

\* Inv is an invariant of the page.
LEMMA SpecInv == Spec => []Inv
<1>1. Init => Inv
  BY InitEstablishes
<1>2. Inv /\ [Next]_vars => Inv'
  BY NextPreserves
<1> QED
  BY <1>1, <1>2, PTL DEF Spec
-----------------------------------------------------------------------------
(* Theorems.                                                                *)

\* The dialog, the listener and the calls hold the values the script gives them, for
\* any number of overlapping calls.
THEOREM PageTyped == Spec => []TypeOK
<1>1. Inv => TypeOK
  BY DEF Inv
<1> QED
  BY <1>1, SpecInv, PTL

\* However many retries overlap and in whatever order they fail, a failed session is
\* always one that something still tries to bring back.
THEOREM NobodyIsStranded == Spec => []NeverStranded
<1>1. Inv => NeverStranded
  BY DEF Inv
<1> QED
  BY <1>1, SpecInv, PTL

\* The dialog is open exactly as long as the session is not live, in whatever order the
\* answers come in.
THEOREM DialogIsTrue == Spec => []DialogTellsTheTruth
<1>1. Inv => DialogTellsTheTruth
  BY DEF Inv
<1> QED
  BY <1>1, SpecInv, PTL

\* The page is reloaded only when there is nothing left to resume.
THEOREM ReloadIsTheLastResort == Spec => []ReloadLosesNothing
<1>1. Inv => ReloadLosesNothing
  BY DEF Inv
<1> QED
  BY <1>1, SpecInv, PTL

\* Only overlapping calls leave a listener behind.
THEOREM ListenerIsTakenAlong == Spec => []ListensOnlyAfterFailure
<1>1. Inv => ListensOnlyAfterFailure
  BY DEF Inv
<1> QED
  BY <1>1, SpecInv, PTL
=============================================================================
