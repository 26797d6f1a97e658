--------------------------- MODULE CallLifecycle ---------------------------
(***************************************************************************)
(* One simulated call: the goroutine that runs it (CallRunner.Run and      *)
(* answer in engine/runner.go), the Engine methods that applications and   *)
(* tests call on it at any time (engine/engine.go), and the worker         *)
(* goroutine that posts its status callbacks.                              *)
(*                                                                         *)
(* A step is one critical section of state.mu, one channel operation or    *)
(* one choice of a select statement.  The TwiML document that the call     *)
(* executes is chosen node by node; Dial and Enqueue have modules of their *)
(* own, and nodes that neither wait nor fetch leave this state unchanged.  *)
(***************************************************************************)
EXTENDS CallStatus, Naturals, Sequences

CONSTANTS
  Urls,          \* the TwiML URLs an application serves
  NoUrl,         \* the empty URL
  Keep,          \* an UpdateCall parameter that is absent
  InterestSets,  \* the StatusCallbackEvents that calls are created with
  CallbackParams \* the StatusCallback parameters of UpdateCall

ASSUME UrlAssumption      == NoUrl \notin Urls /\ Keep \notin Urls /\ Keep # NoUrl
ASSUME InterestAssumption == InterestSets \subseteq SUBSET EventNames
ASSUME CallbackAssumption == CallbackParams \subseteq {"set", "unset", Keep}

VARIABLES
  direction, child,    \* "inbound" or "outbound"; has it a parent call?
  interest,            \* StatusCallbackEvents
  status, url,         \* Status, Url
  hasCallback,         \* is StatusCallback set?
  answeredAt, endedAt, \* are the time stamps set?
  lateVerbs,           \* how many verbs ExecutedTwiML got since the call ended
  cbq, cbClosed,       \* CallbackQueue: the event each queued callback is for
  endDue,              \* history: was a callback wanted for the end of the call?
  worker, posting,     \* the worker goroutine and the event it is handling
  reports,             \* the callbacks posted: the event, the status said
  closed,              \* which of hangupCh, answerCh, busyCh, failedCh are closed
  urlCh,               \* does urlUpdateCh hold a token?
  shutdown,            \* is the engine's context cancelled?
  pc, outcome,         \* where the runner is, the status it is about to set
  execUrl,             \* the URL it last read
  timer,               \* has the clock.After of the current select fired?
  fault                \* "panic": the process died; "blocked": state.mu is
                       \* held for ever by a send on a full CallbackQueue

callVars   == <<direction, child, interest>>
infoVars   == <<url, hasCallback, answeredAt, endedAt, lateVerbs>>
statusVars == <<status, cbq, cbClosed, endDue, fault>>
workerVars == <<worker, posting, reports>>
signalVars == <<closed, urlCh, shutdown>>
runnerVars == <<pc, outcome, execUrl, timer>>
vars == <<callVars, infoVars, statusVars, workerVars, signalVars, runnerVars>>

Signals == {"hangup", "answer", "busy", "failed"}

RunnerPoints ==
  {"created", "ringing", "answering", "stamping", "reading", "fetching",
   "exec", "node", "playing", "looping", "prompting", "promptLoop", "gather", "record",
   "redirect", "action", "idle", "completing", "ending", "settling", "done"}

\* The points whose select statement contains a clock.After.
TimedPoints == {"ringing", "gather", "record"}

OneCallback == 1   \* a mutant of CallbackQueueCap

CallbackQueueCap == 10

\* createCall and createIncomingCallWithParams: the call, its runner and its
\* worker come into being under state.mu.  Only <Dial> creates child calls,
\* and these are outbound; an application's inbound calls only announce
\* their end.
Init ==
  /\ direction \in {"inbound", "outbound"}
  /\ child \in IF direction = "inbound" THEN {FALSE} ELSE BOOLEAN
  /\ interest \in IF direction = "inbound" THEN {{"completed"}} ELSE InterestSets
  /\ url \in Urls \union {NoUrl}
  /\ hasCallback \in BOOLEAN
  /\ status = "initiated"
  /\ answeredAt = FALSE /\ endedAt = FALSE /\ lateVerbs = 0
  /\ cbq = <<>> /\ cbClosed = FALSE /\ endDue = FALSE
  /\ worker = "receiving" /\ posting = "initiated" /\ reports = <<>>
  /\ closed = {} /\ urlCh = FALSE /\ shutdown = FALSE
  /\ pc = "created" /\ outcome = "completed" /\ execUrl = NoUrl /\ timer = FALSE
  /\ fault = "none"
-----------------------------------------------------------------------------
(* updateCallStatusLocked, called with state.mu held *)

\* Sending on a closed channel or closing it again panics; a send on a full
\* one blocks with state.mu held.
UpdateStatus(new, callback) ==
  IF Ignored(status, new)
  THEN UNCHANGED statusVars
  ELSE LET s     == Resolve(status, new)
           sends == callback /\ ShouldSend(interest, s)
           full  == Len(cbq) >= CallbackQueueCap
       IN /\ status' = s
          /\ cbq' = IF sends /\ ~cbClosed /\ ~full THEN Append(cbq, s) ELSE cbq
          /\ cbClosed' = IF ClosesCallbacks(s) THEN TRUE ELSE cbClosed
          /\ endDue' = (endDue \/ (IsTerminal(s) /\ sends))
          /\ fault' = CASE cbClosed /\ (sends \/ ClosesCallbacks(s)) -> "panic"
                        [] sends /\ full /\ ~cbClosed -> "blocked"
                        [] OTHER -> fault
-----------------------------------------------------------------------------
(* The worker goroutine: `for fn := range call.CallbackQueue { fn() }` *)

WorkerReceiveLast ==   \* a mutant of WorkerReceive
  /\ worker = "receiving" /\ cbq # <<>>
  /\ worker' = "posting"
  /\ posting' = cbq[Len(cbq)]
  /\ cbq' = SubSeq(cbq, 1, Len(cbq) - 1)
  /\ UNCHANGED <<callVars, infoVars, status, cbClosed, endDue, fault, reports,
                 signalVars, runnerVars>>

WorkerReceive ==
  /\ worker = "receiving" /\ cbq # <<>>
  /\ worker' = "posting"
  /\ posting' = Head(cbq)
  /\ cbq' = Tail(cbq)
  /\ UNCHANGED <<callVars, infoVars, status, cbClosed, endDue, fault, reports,
                 signalVars, runnerVars>>

\* sendCallStatusCallback: the form is built from the call as it is now, not
\* as it was when the callback was queued.
WorkerPost ==
  /\ worker = "posting"
  /\ worker' = "receiving"
  /\ reports' = Append(reports, [event |-> posting, said |-> status])
  /\ UNCHANGED <<callVars, infoVars, statusVars, posting, signalVars, runnerVars>>

WorkerExitsUndrained ==   \* a mutant of WorkerExit
  /\ worker = "receiving" /\ cbClosed
  /\ worker' = "exited"
  /\ UNCHANGED <<callVars, infoVars, statusVars, posting, reports, signalVars,
                 runnerVars>>

WorkerExit ==
  /\ worker = "receiving" /\ cbq = <<>> /\ cbClosed
  /\ worker' = "exited"
  /\ UNCHANGED <<callVars, infoVars, statusVars, posting, reports, signalVars,
                 runnerVars>>
-----------------------------------------------------------------------------
(* CallRunner.Run *)

\* The runner moves from one point to another; arriving at a select with a
\* timer arms a new one.
Goto(from, to) ==
  /\ pc = from /\ pc' = to
  /\ timer' = FALSE

\* The runner moves and touches nothing that is shared.
Silent == UNCHANGED <<callVars, infoVars, statusVars, workerVars, signalVars>>

\* An inbound call is answered by its backend at once.
StartRinging ==
  /\ Goto("created", IF direction = "inbound" THEN "reading" ELSE "ringing")
  /\ UpdateStatus("ringing", hasCallback)
  /\ UNCHANGED <<callVars, infoVars, workerVars, signalVars, outcome, execUrl>>

\* Run's select: any case that is ready may be chosen.
RingingShutdown ==
  /\ shutdown
  /\ Goto("ringing", "done")
  /\ Silent /\ UNCHANGED <<outcome, execUrl>>

\* hangupCh, busyCh, failedCh or the timeout: the status is set afterwards.
RingingEnds(s) ==
  /\ \/ s = "completed" /\ "hangup" \in closed
     \/ s = "busy"      /\ "busy"   \in closed
     \/ s = "failed"    /\ "failed" \in closed
     \/ s = "no-answer" /\ timer
  /\ Goto("ringing", "settling")
  /\ outcome' = s
  /\ Silent /\ UNCHANGED execUrl

RingingAnswered ==
  /\ "answer" \in closed
  /\ Goto("ringing", "answering")
  /\ Silent /\ UNCHANGED <<outcome, execUrl>>

\* The last updateStatus before Run returns.
SettleSilently ==   \* a mutant of Settle
  /\ Goto("settling", "done")
  /\ Silent /\ UNCHANGED <<outcome, execUrl>>

Settle ==
  /\ Goto("settling", "done")
  /\ UpdateStatus(outcome, hasCallback)
  /\ UNCHANGED <<callVars, infoVars, workerVars, signalVars, outcome, execUrl>>
-----------------------------------------------------------------------------
(* CallRunner.answer *)

\* answerNow takes state.mu twice.
Answer ==
  /\ Goto("answering", "stamping")
  /\ UpdateStatus("in-progress", hasCallback)
  /\ UNCHANGED <<callVars, infoVars, workerVars, signalVars, outcome, execUrl>>

\* An outbound call is answered before its URL is fetched, an inbound one
\* after.
StampAnswered ==
  /\ Goto("stamping", IF direction = "inbound" THEN "exec" ELSE "reading")
  /\ answeredAt' = TRUE
  /\ UNCHANGED <<callVars, url, hasCallback, endedAt, lateVerbs, statusVars, workerVars,
                 signalVars, outcome, execUrl>>

\* The head of the main loop reads Url under state.mu; an empty one goes
\* straight to the select at its end.
ReadUrl ==
  /\ Goto("reading", IF url = NoUrl THEN "idle" ELSE "fetching")
  /\ execUrl' = url
  /\ Silent /\ UNCHANGED outcome

FetchedTwiML ==
  /\ Goto("fetching", IF direction = "inbound" /\ status # "in-progress"
                      THEN "answering" ELSE "exec")
  /\ Silent /\ UNCHANGED <<outcome, execUrl>>

\* recordError, then the call is failed: the webhook or its TwiML is broken
\* (fetching, redirect, action), the media of a Play cannot be reached
\* (playing, prompting), or the engine shut down.
Fail(from) ==
  /\ from \in {"exec", "looping", "promptLoop", "gather"} => shutdown
  /\ Goto(from, "settling")
  /\ outcome' = "failed"
  /\ Silent /\ UNCHANGED execUrl

FailurePoints == {"fetching", "redirect", "action", "exec", "playing",
                  "looping", "prompting", "promptLoop", "gather"}
-----------------------------------------------------------------------------
(* executeTwiML and the verbs *)

\* executeTwiML looks at the context and at hangupCh before each node, and
\* holds no lock: the call may end before the node is executed.
NextNodeUnchecked ==   \* a mutant of NextNode
  /\ Goto("exec", "node")
  /\ Silent /\ UNCHANGED <<outcome, execUrl>>

NextNode ==
  /\ ~shutdown /\ "hangup" \notin closed
  /\ Goto("exec", "node")
  /\ Silent /\ UNCHANGED <<outcome, execUrl>>

\* executeNode: each verb begins with trackCallTwiML, which appends it to
\* ExecutedTwiML.  A Gather with nested verbs continues with "prompting".
StartVerb(to) ==
  /\ Goto("node", to)
  /\ lateVerbs' = lateVerbs + (IF IsTerminal(status) THEN 1 ELSE 0)
  /\ UNCHANGED <<callVars, url, hasCallback, answeredAt, endedAt, statusVars,
                 workerVars, signalVars, outcome, execUrl>>

\* A node that is no verb is passed over.
SkipNode ==
  /\ Goto("node", "exec")
  /\ Silent /\ UNCHANGED <<outcome, execUrl>>

VerbPoints == {"playing", "prompting", "gather", "record", "redirect", "completing"}

\* Say, Play and Pause, alone or nested in Gather: they end at once, unless
\* loop="0" makes them wait in busyLoop.
PlayEnds ==
  /\ \/ Goto("playing", "exec") \/ Goto("playing", "looping")
     \/ Goto("prompting", "gather") \/ Goto("prompting", "promptLoop")
  /\ Silent /\ UNCHANGED <<outcome, execUrl>>

\* The document is over, or hangupCh is closed: unless the call is a child,
\* the runner hangs itself up.
DocumentEnds ==
  /\ Goto("exec", "idle")
  /\ closed' = IF child THEN closed ELSE closed \union {"hangup"}
  /\ UNCHANGED <<callVars, infoVars, statusVars, workerVars, urlCh, shutdown,
                 outcome, execUrl>>

\* busyLoop, Gather: hangupCh ends the verb without an error.
VerbHangupUnlessGather ==   \* a mutant of VerbHangup
  /\ "hangup" \in closed
  /\ Goto("looping", "exec") \/ Goto("promptLoop", "gather")
  /\ Silent /\ UNCHANGED <<outcome, execUrl>>

VerbHangup ==
  /\ "hangup" \in closed
  /\ \/ Goto("looping", "exec")
     \/ Goto("promptLoop", "gather")
     \/ Goto("gather", "exec")
  /\ Silent /\ UNCHANGED <<outcome, execUrl>>

\* busyLoop, Gather and the select at the end of the main loop take the token
\* from urlUpdateCh: the URL is read again.
UrlUpdatedStale(from) ==   \* a mutant of UrlUpdated
  /\ urlCh
  /\ Goto(from, "fetching")
  /\ urlCh' = FALSE
  /\ UNCHANGED <<callVars, infoVars, statusVars, workerVars, closed, shutdown,
                 outcome, execUrl>>

UrlUpdated(from) ==
  /\ urlCh
  /\ Goto(from, "reading")
  /\ urlCh' = FALSE
  /\ UNCHANGED <<callVars, infoVars, statusVars, workerVars, closed, shutdown,
                 outcome, execUrl>>

InterruptiblePoints == {"looping", "promptLoop", "gather", "idle"}

\* Enough digits, the finish key or the timeout: the action URL is asked if
\* there are digits and an action.
GatherEnds(to) ==
  /\ Goto("gather", to)
  /\ Silent /\ UNCHANGED <<outcome, execUrl>>

\* Record ends on shutdown, hangup or its maximum length and ignores
\* urlUpdateCh.
RecordEnds(to) ==
  /\ shutdown \/ "hangup" \in closed \/ timer
  /\ Goto("record", to)
  /\ Silent /\ UNCHANGED <<outcome, execUrl>>

\* The response to Redirect, or to an action callback, is executed.
SubdocumentFetched(from) ==
  /\ Goto(from, "exec")
  /\ Silent /\ UNCHANGED <<outcome, execUrl>>

\* An empty response to an action callback hangs up.
EmptyActionResponse ==
  /\ Goto("action", "completing")
  /\ Silent /\ UNCHANGED <<outcome, execUrl>>

\* executeHangup, and the hangup case at the end of the main loop: status
\* and EndedAt are set in two critical sections.
Complete ==
  /\ Goto("completing", "ending")
  /\ UpdateStatus("completed", hasCallback)
  /\ UNCHANGED <<callVars, infoVars, workerVars, signalVars, outcome, execUrl>>

StampEnded ==
  /\ Goto("ending", "done")
  /\ endedAt' = TRUE
  /\ UNCHANGED <<callVars, url, hasCallback, answeredAt, lateVerbs, statusVars, workerVars,
                 signalVars, outcome, execUrl>>

\* The select at the end of the main loop.
IdleHangup ==
  /\ "hangup" \in closed
  /\ Goto("idle", "completing")
  /\ Silent /\ UNCHANGED <<outcome, execUrl>>

IdleShutdown ==
  /\ shutdown
  /\ Goto("idle", "done")
  /\ Silent /\ UNCHANGED <<outcome, execUrl>>
-----------------------------------------------------------------------------
(* The Engine's methods and the world around *)

\* AnswerCall, SetCallBusy, SetCallFailed: only while the call is ringing.
Signal(ch) ==
  /\ status = "ringing"
  /\ closed' = closed \union {ch}
  /\ UNCHANGED <<callVars, infoVars, statusVars, workerVars, urlCh, shutdown,
                 runnerVars>>

Hangup ==
  /\ UpdateStatus("completed", hasCallback)
  /\ endedAt' = (endedAt \/ status # "completed")
  /\ closed' = closed \union {"hangup"}
  /\ UNCHANGED <<callVars, url, hasCallback, answeredAt, lateVerbs, workerVars, urlCh,
                 shutdown, runnerVars>>

\* `end` stands for Status = completed or canceled; any other is ignored.
UpdateCall(newUrl, callback, end) ==
  LET needHangup == end /\ status # "completed"
      configured == IF callback = Keep THEN hasCallback ELSE callback = "set"
  IN /\ url' = IF newUrl = Keep THEN url ELSE newUrl
     /\ hasCallback' = configured
     /\ IF needHangup
        THEN /\ UpdateStatus("completed", configured)
             /\ endedAt' = TRUE
             /\ closed' = closed \union {"hangup"}
             /\ UNCHANGED urlCh
        ELSE /\ urlCh' = (urlCh \/ newUrl # Keep)
             /\ UNCHANGED <<statusVars, endedAt, closed>>
     /\ UNCHANGED <<callVars, answeredAt, lateVerbs, workerVars, shutdown, runnerVars>>

\* Close cancels the context that every runner selects on.
Close ==
  /\ shutdown' = TRUE
  /\ UNCHANGED <<callVars, infoVars, statusVars, workerVars, closed, urlCh,
                 runnerVars>>

\* The clock reaches the deadline of the timer of the current select.
TimerFires ==
  /\ pc \in TimedPoints
  /\ timer' = TRUE
  /\ UNCHANGED <<callVars, infoVars, statusVars, workerVars, signalVars, pc,
                 outcome, execUrl>>
-----------------------------------------------------------------------------
Worker == WorkerReceive \/ WorkerPost \/ WorkerExit

Runner ==
  \/ StartRinging
  \/ RingingShutdown \/ RingingAnswered
  \/ \E s \in TerminalStatuses : RingingEnds(s)
  \/ Settle
  \/ Answer \/ StampAnswered
  \/ ReadUrl \/ FetchedTwiML
  \/ \E p \in FailurePoints : Fail(p)
  \/ NextNode \/ SkipNode
  \/ \E p \in VerbPoints : StartVerb(p)
  \/ PlayEnds \/ VerbHangup
  \/ DocumentEnds
  \/ \E p \in InterruptiblePoints : UrlUpdated(p)
  \/ \E p \in {"action", "exec"} : GatherEnds(p) \/ RecordEnds(p)
  \/ \E p \in {"redirect", "action"} : SubdocumentFetched(p)
  \/ EmptyActionResponse
  \/ Complete \/ StampEnded
  \/ IdleHangup \/ IdleShutdown

Api ==
  \/ \E ch \in Signals \ {"hangup"} : Signal(ch)
  \/ Hangup
  \/ \E u \in Urls \union {NoUrl, Keep}, cb \in CallbackParams, end \in BOOLEAN :
        UpdateCall(u, cb, end)
  \/ Close

\* A fault ends everything: a panic kills the process, and a goroutine that
\* blocks with state.mu held stops all others.
Next == fault = "none" /\ (Worker \/ Runner \/ Api \/ TimerFires)

Spec == Init /\ [][Next]_vars

\* A Gather is not ended by digits that nobody is bound to send.
Unattended ==
  /\ Runner /\ fault = "none"
  /\ pc = "gather" /\ ~timer => VerbHangup \/ UrlUpdated("gather") \/ Fail("gather")

\* The goroutines are scheduled; select chooses among the ready cases at
\* random, so a hangup that stays ready is not passed over for ever.  Nothing
\* is assumed of the clock nor of the application.
FairSpec ==
  /\ Spec
  /\ WF_vars(Unattended)
  /\ WF_vars(Worker /\ fault = "none")
  /\ SF_vars(IdleHangup /\ fault = "none")
-----------------------------------------------------------------------------
TypeOK ==
  /\ direction \in {"inbound", "outbound"} /\ child \in BOOLEAN
  /\ interest \subseteq EventNames
  /\ status \in Statuses
  /\ url \in Urls \union {NoUrl} /\ execUrl \in Urls \union {NoUrl}
  /\ hasCallback \in BOOLEAN /\ answeredAt \in BOOLEAN /\ endedAt \in BOOLEAN
  /\ lateVerbs \in Nat
  /\ cbClosed \in BOOLEAN /\ endDue \in BOOLEAN /\ urlCh \in BOOLEAN /\ shutdown \in BOOLEAN /\ timer \in BOOLEAN
  /\ cbq \in Seq(Statuses) /\ posting \in Statuses
  /\ worker \in {"receiving", "posting", "exited"}
  /\ reports \in Seq([event : Statuses, said : Statuses])
  /\ closed \subseteq Signals
  /\ pc \in RunnerPoints /\ outcome \in TerminalStatuses
  /\ fault \in {"none", "panic", "blocked"}

\* No goroutine ever sends on a closed CallbackQueue, closes it twice, or
\* blocks on a full one while it holds state.mu, whatever the order of the
\* runner, the worker and the Engine's methods (updateCallStatusLocked).
NoFault == fault = "none"

\* The callback queue of a call is closed when, and only when, the call has
\* ended, so that the worker neither leaks nor leaves early.
QueueClosedAtEnd == cbClosed <=> IsTerminal(status)

\* A runner that returns leaves its call ended, unless Close stopped it: no
\* path through Run, answer and the verbs abandons a live call.
RunnerEndsItsCall == pc = "done" /\ ~shutdown => IsTerminal(status)

\* The points of the main loop after Url was read for the current document.
LoopPoints ==
  RunnerPoints \ {"created", "ringing", "answering", "stamping", "reading",
                  "completing", "ending", "settling", "done"}

\* UpdateCall's new URL is not lost on the way: while the runner works from
\* another URL, a token waits in urlUpdateCh, whatever verb ignores it for now,
\* unless the call has ended.  The read of Url in the main loop and the token
\* are not one atomic step.  (At the end of the document the runner's own
\* hangup may win over the token: EndLosesNoUpdate below.)
NoLostUrlUpdate ==
  pc \in LoopPoints /\ url # execUrl => urlCh \/ IsTerminal(status)

\* executeTwiML's look at hangupCh comes before the verb it guards, and a hangup
\* may come between them: one verb may begin on a call that has ended.  No
\* second one does, whatever the first fetches or waits for and however many
\* documents UpdateCall makes the ended call fetch.
OneVerbAfterEnd == lateVerbs <= 1

\* Callbacks are posted in the order of the changes they announce, and none of
\* them claims a status that the call had not reached or had left before an
\* earlier one was posted.
Announced ==
  [i \in 1..Len(reports) |-> reports[i].event]
    \o (IF worker = "posting" THEN <<posting>> ELSE <<>>) \o cbq

ReportsInOrder ==
  /\ \A i, j \in 1..Len(Announced) : i < j => Rank(Announced[i]) < Rank(Announced[j])
  /\ \A i \in 1..Len(reports) : Rank(reports[i].event) <= Rank(reports[i].said)
  /\ \A i, j \in 1..Len(reports) : i < j => Rank(reports[i].said) <= Rank(reports[j].said)

\* The callback for the end of a call says how it ended and is the last; when
\* the worker exits it was posted, if it was wanted as the call ended.
ReportOfTheEnd ==
  /\ \A i \in 1..Len(reports) : IsTerminal(reports[i].event) =>
       reports[i].said = reports[i].event /\ reports[i].said = status /\ i = Len(reports)
  /\ worker = "exited" /\ endDue =>
       reports # <<>> /\ IsTerminal(reports[Len(reports)].event)

\* Once hangupCh is closed the runner returns, from whatever verb or wait it
\* is in and whatever else its selects could choose.
HangupEndsRunner == "hangup" \in closed ~> pc = "done"

\* The worker goroutine of a call that ended exits.
WorkerExits == IsTerminal(status) ~> worker = "exited"

\* The lifecycle implements what CallProtocol promises the application.
Protocol == INSTANCE CallProtocol WITH
  owed <- Len(cbq) + (IF worker = "posting" THEN 1 ELSE 0),
  told <- [i \in 1..Len(reports) |-> reports[i].said]

ImplementsProtocol == Protocol!FairSpec
-----------------------------------------------------------------------------
(* Not true of the code *)

\* shouldSendStatusCallback: the application is told only of what it asked for.
ToldOnlyWhatWasAsked ==
  \A i \in 1..Len(reports) : ShouldSend(interest, reports[i].said)

\* A call whose document is over does not end by itself while a new URL waits to
\* be fetched: the select at the end of the main loop finds both cases ready.
EndLosesNoUpdate ==
  [][pc = "idle" /\ pc' = "completing" /\ ~IsTerminal(status) => ~urlCh]_vars
=============================================================================
