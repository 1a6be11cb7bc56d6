----------------------------- MODULE ReconnectModal -----------------------------
(***************************************************************************)
(* The dialog of the Blazor example that tells of a lost connection: its       *)
(* script, between the user, the browser and the Blazor runtime.              *)
(*                                                                          *)
(* A script runs to its next await in one step.  Any number of calls of retry   *)
(* and resume may be waiting for Blazor at once: the buttons stay while they    *)
(* wait.  Blazor and the server are modelled from what the script expects of    *)
(* them: an event when the connection goes or comes back, a reconnect that is   *)
(* refused when the circuit is not there, a resume that is refused when nothing  *)
(* is left of it.                                                            *)
(***************************************************************************)
EXTENDS Naturals

CONSTANT Calls   \* bound: calls of retry and resume that wait at the same time

VARIABLES
  circuit,     \* the session: "live", "kept" (lost), "stored" (evicted) or "gone"
  reachable,   \* whether the server can be reached
  shown,       \* what the classes on the dialog make visible
  modal,       \* whether the dialog is open
  listening,   \* whether visibilitychange calls retryWhenDocumentBecomesVisible
  visible,     \* document.visibilityState
  call,        \* per call: the await it is in
  reloading,   \* location.reload has been called: this page is over
  overlapped   \* two calls have been waiting at the same time (history)

vars == <<circuit, reachable, shown, modal, listening, visible, call, reloading, overlapped>>
page == <<shown, modal, listening, call, reloading, overlapped>>

Init ==
  /\ circuit = "live" /\ reachable = TRUE
  /\ shown = "hide" /\ modal = FALSE
  /\ listening = FALSE /\ visible = TRUE
  /\ call = [c \in Calls |-> "idle"]
  /\ reloading = FALSE /\ overlapped = FALSE
-----------------------------------------------------------------------------
(* The parts of the script.                                                 *)

Others == <<circuit, reachable, visible>>

Waits(c, for) == call' = [call EXCEPT ![c] = for]
Ends(c) == Waits(c, "idle")

NotAlone(c) == overlapped' = (overlapped \/ \E d \in Calls \ {c} : call[d] # "idle")

\* Fault: retry keeps the listener while it runs.
KeepsListener == UNCHANGED listening
StopListening == listening' = FALSE

\* Fault: a retry that fails is the last one.
TriesOnce == UNCHANGED listening
ListenAgain == listening' = TRUE

\* retry() up to its first await; Blazor.reconnect may throw at once.
retry(c) ==
  /\ call[c] = "idle" /\ ~reloading
  /\ \/ StopListening /\ Waits(c, "reconnecting")
     \/ ~reachable /\ ListenAgain /\ UNCHANGED call
  /\ NotAlone(c)
  /\ UNCHANGED <<shown, modal, reloading>>

\* resume() up to its await; Blazor.resumeCircuit may throw at once.
\* Fault: the class of the failure is added to that of the pause.
AddsClass == shown' = IF shown = "paused" THEN "paused resume-failed" ELSE shown
ShowResumeFailed == shown' = IF shown = "paused" THEN "resume-failed" ELSE shown

resume(c) ==
  /\ call[c] = "idle" /\ ~reloading
  /\ \/ Waits(c, "resuming") /\ UNCHANGED shown
     \/ ~reachable /\ ShowResumeFailed /\ UNCHANGED call
  /\ NotAlone(c)
  /\ UNCHANGED <<modal, listening, reloading>>

\* handleReconnectStateChanged; "paused" and others leave it to the style sheet.
StateChanged(state) ==
  /\ shown' = state
  /\ modal' = IF state = "show" THEN TRUE ELSE IF state = "hide" THEN FALSE ELSE modal
  /\ listening' = (listening \/ state = "failed")
  /\ reloading' = (state = "rejected")

\* Fault: the dialog is left to Blazor.
StaysOpen == UNCHANGED modal
CloseDialog == modal' = FALSE
-----------------------------------------------------------------------------
(* The user and the browser.                                                *)

ClickRetry(c) == shown = "failed" /\ retry(c) /\ UNCHANGED Others

ClickResume(c) == shown \in {"paused", "resume-failed"} /\ resume(c) /\ UNCHANGED Others

VisibilityChanges ==
  /\ ~reloading
  /\ visible' = ~visible
  /\ IF listening /\ visible' THEN \E c \in Calls : retry(c) ELSE UNCHANGED page
  /\ UNCHANGED <<circuit, reachable>>
-----------------------------------------------------------------------------
(* What Blazor answers.                                                     *)

\* The promise is rejected: the catch clauses.
Unreachable(c) ==
  /\ call[c] # "idle" /\ ~reloading /\ ~reachable
  /\ Ends(c)
  /\ \/ call[c] = "resuming" /\ ShowResumeFailed /\ UNCHANGED listening
     \/ call[c] # "resuming" /\ ListenAgain /\ UNCHANGED shown
  /\ UNCHANGED <<modal, reloading, overlapped, Others>>

\* The circuit is back: Blazor announces it before the promise is fulfilled.
Reconnected(c) ==
  /\ call[c] = "reconnecting" /\ ~reloading /\ reachable
  /\ circuit \in {"live", "kept"} /\ circuit' = "live"
  /\ StateChanged("hide") /\ Ends(c)
  /\ UNCHANGED <<reachable, visible, overlapped>>

\* Fault: a refused reconnect reloads the page.
ReloadsAtOnce(c) == Ends(c) /\ reloading' = TRUE /\ UNCHANGED listening

\* retry() from a refused reconnect on; Blazor.resumeCircuit may throw at once.
AskToResume(c) ==
  \/ Waits(c, "retryResuming") /\ UNCHANGED <<listening, reloading>>
  \/ ~reachable /\ Ends(c) /\ ListenAgain /\ UNCHANGED reloading

\* The answer may be the last thing heard of the server.
Refused(c) ==
  /\ call[c] = "reconnecting" /\ ~reloading
  /\ circuit \in {"stored", "gone"}
  /\ AskToResume(c)
  /\ UNCHANGED <<shown, modal, overlapped, Others>>

\* Blazor clears the class of the dialog.  Nothing in resume closes it, so there
\* Blazor's event has to; in retry the script does.
Resumed(c) ==
  /\ call[c] \in {"retryResuming", "resuming"} /\ ~reloading /\ reachable
  /\ circuit # "gone" /\ circuit' = "live"
  /\ \/ call[c] = "resuming" /\ StateChanged("hide")
     \/ /\ call[c] = "retryResuming" /\ CloseDialog
        /\ shown' = "hide" /\ UNCHANGED <<listening, reloading>>
  /\ Ends(c)
  /\ UNCHANGED <<reachable, visible, overlapped>>

\* Fault: a refused resume ends in silence.
GivesUp == UNCHANGED reloading
Reload == reloading' = TRUE

ResumeRefused(c) ==
  /\ call[c] \in {"retryResuming", "resuming"} /\ ~reloading /\ reachable
  /\ circuit = "gone"
  /\ Reload /\ Ends(c)
  /\ UNCHANGED <<shown, modal, listening, overlapped, Others>>
-----------------------------------------------------------------------------
(* The connection, and Blazor's own attempts to reconnect.                   *)

Announce(state) == ~reloading /\ StateChanged(state) /\ UNCHANGED <<visible, call, overlapped>>

ConnectionLost ==
  /\ circuit = "live" /\ circuit' = "kept"
  /\ Announce("show") /\ UNCHANGED reachable

\* The server stores the session and closes the connection: "show", then "paused".
SessionPaused ==
  /\ circuit = "live" /\ circuit' = "stored"
  /\ ~reloading /\ shown' = "paused" /\ modal' = TRUE
  /\ UNCHANGED <<reachable, visible, listening, call, reloading, overlapped>>

ReconnectsItself ==
  /\ shown = "show" /\ reachable
  /\ circuit # "gone" /\ circuit' = "live"
  /\ Announce("hide") /\ UNCHANGED reachable

FailsToReconnect ==
  /\ shown = "show"
  /\ Announce("failed") /\ UNCHANGED <<circuit, reachable>>

IsRejected ==
  /\ shown = "show" /\ reachable /\ circuit = "gone"
  /\ Announce("rejected") /\ UNCHANGED <<circuit, reachable>>

\* The server forgets a session nobody comes back to, in two steps.
SessionExpires ==
  /\ ~reloading
  /\ \/ circuit = "kept" /\ circuit' = "stored"
     \/ circuit = "stored" /\ circuit' = "gone"
  /\ UNCHANGED <<reachable, visible, page>>

ServerComesOrGoes ==
  /\ ~reloading
  /\ reachable' = ~reachable
  /\ UNCHANGED <<circuit, visible, page>>
-----------------------------------------------------------------------------
Answer(c) ==
  Unreachable(c) \/ Reconnected(c) \/ Refused(c) \/ Resumed(c) \/ ResumeRefused(c)

Next ==
  \/ \E c \in Calls : ClickRetry(c) \/ ClickResume(c) \/ Answer(c)
  \/ VisibilityChanges
  \/ ConnectionLost \/ SessionPaused \/ ReconnectsItself \/ FailsToReconnect \/ IsRejected
  \/ SessionExpires \/ ServerComesOrGoes

\* Promises settle.  Nobody has to click, to look, or to come back.
Fairness == \A c \in Calls : WF_vars(Answer(c))

Spec == Init /\ [][Next]_vars /\ Fairness
-----------------------------------------------------------------------------
(* Properties.                                                              *)

TypeOK ==
  /\ circuit \in {"live", "kept", "stored", "gone"}
  /\ reachable \in BOOLEAN /\ visible \in BOOLEAN /\ overlapped \in BOOLEAN
  /\ shown \in {"hide", "show", "failed", "rejected", "paused", "resume-failed"}
  /\ modal \in BOOLEAN /\ listening \in BOOLEAN /\ reloading \in BOOLEAN
  /\ call \in [Calls -> {"idle", "reconnecting", "retryResuming", "resuming"}]

Retrying == \E c \in Calls : call[c] \in {"reconnecting", "retryResuming"}

\* After "Failed to rejoin" something still tries: a retry is waiting, or the next
\* look at the page starts one, however many retries overlapped and failed.
NeverStranded == shown = "failed" /\ ~reloading => listening \/ Retrying

\* The dialog covers the page as long as the session is not live, and no longer,
\* also when an answer comes late, after another call has brought the session back.
DialogTellsTheTruth ==
  ~reloading => /\ modal <=> circuit # "live"
                /\ shown = "hide" <=> circuit = "live"

\* "the circuit is no longer available": the page is reloaded, and what the user
\* entered lost, only when nothing is left that could be resumed.
ReloadLosesNothing == reloading => circuit = "gone"

\* A retry that is not overtaken by another takes its listener along: the page does
\* not go on retrying behind the user's back once the session is back or paused.
ListensOnlyAfterFailure == listening /\ ~overlapped => shown = "failed"

\* If the server stays reachable and the user looks at the page now and then, a
\* failed session is back, or the page reloaded, without a click.
RecoversWhenLookedAt ==
  (<>[]reachable /\ []<>visible /\ []<>~visible)
    => [](shown = "failed" => <>(circuit = "live" \/ reloading))
=============================================================================
