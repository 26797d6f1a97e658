----------------------------- MODULE CallStatus -----------------------------
(***************************************************************************)
(* The call statuses of model/core.go and the pure decisions that          *)
(* engine/engine.go takes about them: which status an update really        *)
(* produces and whether a status is announced to the status callback URL.  *)
(***************************************************************************)

TerminalStatuses == {"completed", "canceled", "failed", "no-answer", "busy"}

\* "queued" is declared by the code but no call ever gets it; "answered" only
\* names an event a client may subscribe to.
Statuses == {"initiated", "ringing", "in-progress"} \union TerminalStatuses

EventNames == Statuses \union {"queued", "answered"}

IsTerminal(s) == s \in TerminalStatuses

\* updateCallStatusLocked's early returns: the status stays as it is.
IgnoredUnlessTerminal(old, new) == old = new   \* a mutant of Ignored

Ignored(old, new) == old = new \/ IsTerminal(old)

\* The status that updateCallStatusLocked stores when a call that is not
\* terminal is moved from `old` to `new`.
Resolve(old, new) ==
  IF old = "ringing" /\ new = "completed" THEN "canceled" ELSE new

\* shouldSendStatusCallback: `events` are the events the client asked for.
ShouldSend(events, s) ==
  \/ events = {}
  \/ s \in events
  \/ "answered" \in events /\ s = "in-progress"
  \/ IsTerminal(s) /\ \E e \in events : IsTerminal(e)

\* The last status of a call closes its callback queue.
ClosesOnlyCompleted(s) == s = "completed"   \* a mutant of ClosesCallbacks

ClosesCallbacks(s) == IsTerminal(s)

\* How far a call has come in its life: every change of status moves it up.
Rank(s) ==
  CASE s = "initiated"   -> 0
    [] s = "ringing"     -> 1
    [] s = "in-progress" -> 2
    [] OTHER             -> 3
=============================================================================
