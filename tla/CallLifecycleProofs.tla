------------------------ MODULE CallLifecycleProofs ------------------------
(***************************************************************************)
(* Proofs about CallLifecycle, for every set of URLs, every choice of      *)
(* StatusCallbackEvents and every StatusCallback parameter.                *)
(*                                                                         *)
(* The inductive invariant ties the status of the call to the point its    *)
(* runner is at (PhaseInv): without it StartRinging could move a call      *)
(* backwards, and the bound on the callback queue (QueueInv) would not be  *)
(* inductive.                                                              *)
(***************************************************************************)
EXTENDS CallLifecycle, SequenceTheorems, TLAPS

\* Every change of status raises the rank of the call and queues at most one
\* callback, so the queue never holds more than the rank, which is at most 3.
QueueInv ==
  /\ NoFault
  /\ QueueClosedAtEnd
  /\ Len(cbq) <= Rank(status)

\* The points at which the runner executes a document.
DocumentPoints ==
  {"stamping", "exec", "node", "playing", "looping", "prompting", "promptLoop",
   "gather", "record", "redirect", "action"}

\* Where the runner is tells the status, unless the call was hung up.
PhaseInv ==
  /\ pc = "created" => status = "initiated" \/ IsTerminal(status)
  /\ pc = "ending" => IsTerminal(status)
  /\ pc = "done" => IsTerminal(status) \/ shutdown
  /\ "hangup" \notin closed =>
       /\ pc = "created" => status = "initiated"
       /\ pc \in {"ringing", "answering"} => status = "ringing"
       /\ pc \in {"reading", "fetching", "idle"} =>
            \/ status = "in-progress"
            \/ direction = "inbound" /\ status = "ringing"
       /\ pc \in DocumentPoints => status = "in-progress"

IInv == TypeOK /\ QueueInv /\ PhaseInv
-----------------------------------------------------------------------------
\* What updateCallStatusLocked does to the status, given that the callback
\* queue is open while the call is live.
LEMMA UpdateStatusEffect ==
  ASSUME NEW new, NEW callback, UpdateStatus(new, callback)
  PROVE  status' = IF Ignored(status, new) THEN status ELSE Resolve(status, new)
BY DEF UpdateStatus, statusVars

\* It never sends on a closed or full queue, and keeps the queue's bound.
LEMMA UpdateStatusKeepsQueue ==
  ASSUME status \in Statuses, cbq \in Seq(Statuses), cbClosed \in BOOLEAN,
         endDue \in BOOLEAN, QueueInv,
         NEW new \in Statuses, NEW callback, UpdateStatus(new, callback),
         new # "initiated",
         new = "ringing" => status = "initiated" \/ IsTerminal(status)
  PROVE  /\ status' \in Statuses /\ cbq' \in Seq(Statuses) /\ cbClosed' \in BOOLEAN
         /\ endDue' \in BOOLEAN
         /\ QueueInv'
<1>1. CASE Ignored(status, new)
  BY <1>1 DEF UpdateStatus, statusVars, QueueInv, NoFault, QueueClosedAtEnd
<1>2. CASE ~Ignored(status, new)
  <2> DEFINE s == Resolve(status, new)
             sends == callback /\ ShouldSend(interest, s)
  <2>1. /\ s \in Statuses /\ status' = s
        /\ Rank(status) < Rank(s) /\ Rank(status) \in 0..2 /\ Rank(s) \in 0..3
    BY <1>2 DEF Ignored, Resolve, Rank, IsTerminal, TerminalStatuses, Statuses, UpdateStatus
  <2>2. ~cbClosed /\ ~(Len(cbq) >= CallbackQueueCap)
    BY <1>2, <2>1 DEF QueueInv, QueueClosedAtEnd, Ignored, CallbackQueueCap
  <2>3. cbq' = IF sends THEN Append(cbq, s) ELSE cbq
    BY <1>2, <2>2 DEF UpdateStatus
  <2>4. fault' = "none"
    BY <1>2, <2>2 DEF UpdateStatus, QueueInv, NoFault
  <2>5. cbq' \in Seq(Statuses) /\ Len(cbq') <= Len(cbq) + 1
    BY <2>1, <2>3
  <2>6. Len(cbq') <= Rank(status')
    BY <2>1, <2>5 DEF QueueInv
  <2>7. cbClosed' \in BOOLEAN /\ QueueClosedAtEnd'
    <3>1. CASE ClosesCallbacks(s)
      <4>1. cbClosed' = TRUE
        BY <1>2, <3>1 DEF UpdateStatus
      <4> QED
        BY <2>1, <3>1, <4>1 DEF QueueClosedAtEnd, ClosesCallbacks
    <3>2. CASE ~ClosesCallbacks(s)
      <4>1. cbClosed' = cbClosed
        BY <1>2, <3>2 DEF UpdateStatus
      <4> QED
        BY <2>1, <2>2, <3>2, <4>1 DEF QueueClosedAtEnd, ClosesCallbacks
    <3> QED
      BY <3>1, <3>2
  <2>8. endDue' \in BOOLEAN
    BY <1>2 DEF UpdateStatus
  <2> QED
    BY <2>1, <2>4, <2>5, <2>6, <2>7, <2>8 DEF QueueInv, NoFault
<1> QED
  BY <1>1, <1>2
-----------------------------------------------------------------------------
\* The initial states satisfy the invariant.
LEMMA InitInv == Init => IInv
<1> SUFFICES ASSUME Init PROVE IInv
  OBVIOUS
<1>1. TypeOK
  <2>1. child \in BOOLEAN
    BY DEF Init
  <2>2. interest \subseteq EventNames
    <3>1. CASE direction = "inbound"
      BY <3>1 DEF Init, EventNames, Statuses, TerminalStatuses
    <3>2. CASE direction = "outbound"
      BY <3>2, InterestAssumption DEF Init
    <3> QED
      BY <3>1, <3>2 DEF Init
  <2>3. cbq \in Seq(Statuses) /\ reports \in Seq([event : Statuses, said : Statuses])
    BY DEF Init
  <2> QED
    BY <2>1, <2>2, <2>3
    DEF Init, TypeOK, Statuses, TerminalStatuses, Signals, RunnerPoints
<1>2. QueueInv
  BY DEF Init, QueueInv, NoFault, QueueClosedAtEnd, Rank, IsTerminal, TerminalStatuses
<1>3. PhaseInv
  BY DEF Init, PhaseInv, DocumentPoints
<1> QED
  BY <1>1, <1>2, <1>3 DEF IInv

\* The worker does not touch the status nor the runner.
LEMMA WorkerStep == IInv /\ Worker => IInv'
<1> SUFFICES ASSUME IInv, Worker PROVE IInv'
  OBVIOUS
<1> USE DEF IInv, TypeOK
<1>1. CASE WorkerReceive
  <2>1. /\ posting' \in Statuses /\ cbq' \in Seq(Statuses)
        /\ Len(cbq') <= Len(cbq)
    BY <1>1 DEF WorkerReceive
  <2>2. TypeOK'
    BY <1>1, <2>1
    DEF WorkerReceive, callVars, infoVars, signalVars, runnerVars
  <2>3. QueueInv'
    BY <1>1, <2>1 DEF WorkerReceive, QueueInv, NoFault, QueueClosedAtEnd, IsTerminal, Rank
  <2>4. PhaseInv'
    BY <1>1 DEF WorkerReceive, PhaseInv, callVars, signalVars, runnerVars, IsTerminal
  <2> QED
    BY <2>2, <2>3, <2>4
<1>2. CASE WorkerPost
  <2>1. TypeOK'
    BY <1>2
    DEF WorkerPost, callVars, infoVars, statusVars, signalVars, runnerVars
  <2>2. QueueInv' /\ PhaseInv'
    BY <1>2 DEF WorkerPost, QueueInv, NoFault, QueueClosedAtEnd, IsTerminal, Rank,
                PhaseInv, callVars, statusVars, signalVars, runnerVars
  <2> QED
    BY <2>1, <2>2
<1>3. CASE WorkerExit
  BY <1>3 DEF WorkerExit, QueueInv, NoFault, QueueClosedAtEnd, IsTerminal, Rank, PhaseInv,
              callVars, infoVars, statusVars, signalVars, runnerVars
<1> QED
  BY <1>1, <1>2, <1>3 DEF Worker

\* Steps of the runner that only move it, or touch nothing but urlUpdateCh,
\* hangupCh and the time stamps.
LEMMA QuietRunnerStep ==
  ASSUME IInv,
         \/ RingingShutdown \/ RingingAnswered
         \/ \E s \in TerminalStatuses : RingingEnds(s)
         \/ StampAnswered \/ ReadUrl \/ FetchedTwiML
         \/ \E p \in FailurePoints : Fail(p)
         \/ NextNode \/ SkipNode
         \/ \E p \in VerbPoints : StartVerb(p)
         \/ PlayEnds \/ VerbHangup \/ DocumentEnds
         \/ \E p \in InterruptiblePoints : UrlUpdated(p)
         \/ \E p \in {"action", "exec"} : GatherEnds(p) \/ RecordEnds(p)
         \/ \E p \in {"redirect", "action"} : SubdocumentFetched(p)
         \/ EmptyActionResponse \/ StampEnded
         \/ IdleHangup \/ IdleShutdown
  PROVE  IInv'
<1> USE DEF IInv, Goto, Silent, callVars, infoVars, statusVars, workerVars, signalVars,
         RingingShutdown, RingingAnswered, RingingEnds, StampAnswered, ReadUrl,
         FetchedTwiML, Fail, NextNode, SkipNode, StartVerb, PlayEnds, VerbHangup, DocumentEnds, UrlUpdated,
         GatherEnds, RecordEnds, SubdocumentFetched, EmptyActionResponse, StampEnded,
         IdleHangup, IdleShutdown
<1>1. UNCHANGED statusVars /\ direction' = direction
  OBVIOUS
<1>2. QueueInv'
  BY <1>1 DEF QueueInv, NoFault, QueueClosedAtEnd, IsTerminal, Rank
<1>3. TypeOK'
  <2>1. /\ UNCHANGED <<callVars, url, hasCallback, statusVars, workerVars, shutdown>>
        /\ answeredAt' \in BOOLEAN /\ endedAt' \in BOOLEAN
    BY DEF TypeOK
  <2>4. lateVerbs' \in Nat
    <3>1. lateVerbs' \in {lateVerbs, lateVerbs + 0, lateVerbs + 1}
      OBVIOUS
    <3> QED
      BY <3>1 DEF TypeOK
  <2>2. pc' \in RunnerPoints /\ timer' \in BOOLEAN
    BY DEF RunnerPoints, FailurePoints, VerbPoints, InterruptiblePoints
  <2>3. /\ outcome' \in TerminalStatuses /\ execUrl' \in Urls \union {NoUrl}
        /\ closed' \subseteq Signals /\ urlCh' \in BOOLEAN
    BY DEF TypeOK, Signals, TerminalStatuses
  <2> QED
    BY <2>1, <2>2, <2>3, <2>4 DEF TypeOK
<1>4. PhaseInv'
  BY DEF PhaseInv, DocumentPoints, TypeOK, FailurePoints, VerbPoints, InterruptiblePoints,
         IsTerminal
<1> QED
  BY <1>2, <1>3, <1>4

\* The steps of the runner that set the status.
LEMMA StatusRunnerStep ==
  ASSUME IInv, StartRinging \/ Settle \/ Answer \/ Complete
  PROVE  IInv'
<1> USE DEF IInv, Goto, callVars, infoVars, workerVars, signalVars
<1>1. PICK new \in Statuses :
        /\ UpdateStatus(new, hasCallback)
        /\ new # "initiated"
        /\ new = "ringing" => pc = "created"
        /\ \/ pc = "created"    /\ new = "ringing"     /\ pc' \in {"ringing", "reading"}
                               /\ (pc' = "reading" => direction = "inbound")
           \/ pc = "answering"  /\ new = "in-progress" /\ pc' = "stamping"
           \/ pc = "completing" /\ new = "completed"   /\ pc' = "ending"
           \/ pc = "settling"   /\ IsTerminal(new)     /\ pc' = "done"
  BY DEF StartRinging, Settle, Answer, Complete, TypeOK, Statuses, TerminalStatuses, IsTerminal
<1>2. /\ UNCHANGED <<callVars, infoVars, workerVars, signalVars, outcome, execUrl>>
      /\ timer' = FALSE
  BY DEF StartRinging, Settle, Answer, Complete
<1>3. /\ status' \in Statuses /\ cbq' \in Seq(Statuses) /\ cbClosed' \in BOOLEAN
      /\ endDue' \in BOOLEAN
      /\ QueueInv'
  BY <1>1, UpdateStatusKeepsQueue DEF TypeOK, PhaseInv
<1>4. status' = IF Ignored(status, new) THEN status ELSE Resolve(status, new)
  BY <1>1, UpdateStatusEffect
<1>5. TypeOK'
  <2>1. pc' \in RunnerPoints /\ timer' \in BOOLEAN
    BY <1>1, <1>2 DEF RunnerPoints
  <2>2. fault' = "none"
    BY <1>3 DEF QueueInv, NoFault
  <2> QED
    BY <1>2, <1>3, <2>1, <2>2 DEF TypeOK
<1>6. PhaseInv'
  <2> USE DEF PhaseInv, DocumentPoints, Ignored, Resolve, IsTerminal, TerminalStatuses
  <2>1. CASE pc = "created"
    BY <1>1, <1>2, <1>4, <2>1
  <2>2. CASE pc = "answering"
    BY <1>1, <1>2, <1>4, <2>2
  <2>3. CASE pc \in {"completing", "settling"}
    BY <1>1, <1>2, <1>4, <2>3
  <2> QED
    BY <1>1, <2>1, <2>2, <2>3
<1> QED
  BY <1>3, <1>5, <1>6

\* An Engine method that ends the call: it moves the status, closes hangupCh
\* and leaves the runner where it is.
LEMMA EndCallStep ==
  ASSUME IInv, NEW callback, UpdateStatus("completed", callback),
         closed' = closed \union {"hangup"},
         UNCHANGED <<callVars, answeredAt, lateVerbs, workerVars, shutdown, runnerVars>>,
         url' \in Urls \union {NoUrl}, hasCallback' \in BOOLEAN,
         endedAt' \in BOOLEAN, urlCh' \in BOOLEAN
  PROVE  IInv'
<1> USE DEF IInv, callVars, workerVars, runnerVars
<1>1. /\ status' \in Statuses /\ cbq' \in Seq(Statuses) /\ cbClosed' \in BOOLEAN
      /\ endDue' \in BOOLEAN
      /\ QueueInv'
  <2>1. "completed" \in Statuses
    BY DEF Statuses, TerminalStatuses
  <2> QED
    BY <2>1, UpdateStatusKeepsQueue DEF TypeOK
<1>2. IsTerminal(status')
  BY UpdateStatusEffect DEF Ignored, Resolve, IsTerminal, TerminalStatuses
<1>3. TypeOK'
  BY <1>1 DEF TypeOK, Signals, QueueInv, NoFault
<1>4. PhaseInv'
  BY <1>2 DEF PhaseInv
<1> QED
  BY <1>1, <1>3, <1>4

\* The Engine's methods and the clock keep the invariant.
LEMMA ApiStep == IInv /\ (Api \/ TimerFires) => IInv'
<1> SUFFICES ASSUME IInv, Api \/ TimerFires PROVE IInv'
  OBVIOUS
<1> USE DEF IInv
<1>1. ASSUME NEW ch \in Signals \ {"hangup"}, Signal(ch) PROVE IInv'
  BY <1>1 DEF Signal, TypeOK, Signals, QueueInv, NoFault, QueueClosedAtEnd, PhaseInv,
              callVars, infoVars, statusVars, workerVars, runnerVars
<1>2. CASE Hangup
  <2>1. endedAt' \in BOOLEAN
    BY <1>2 DEF Hangup, TypeOK
  <2> QED
    BY <1>2, <2>1, EndCallStep DEF Hangup, TypeOK
<1>3. ASSUME NEW u \in Urls \union {NoUrl, Keep}, NEW cb \in CallbackParams,
             NEW end \in BOOLEAN, UpdateCall(u, cb, end)
      PROVE  IInv'
  <2> DEFINE configured == IF cb = Keep THEN hasCallback ELSE cb = "set"
  <2>1. /\ url' \in Urls \union {NoUrl} /\ hasCallback' \in BOOLEAN
        /\ UNCHANGED <<callVars, answeredAt, lateVerbs, workerVars, shutdown, runnerVars>>
    BY <1>3 DEF UpdateCall, TypeOK
  <2>2. CASE end /\ status # "completed"
    <3>1. /\ UpdateStatus("completed", configured)
          /\ endedAt' = TRUE /\ closed' = closed \union {"hangup"} /\ urlCh' = urlCh
      BY <1>3, <2>2 DEF UpdateCall
    <3> QED
      BY <2>1, <3>1, EndCallStep DEF TypeOK
  <2>3. CASE ~(end /\ status # "completed")
    <3>1. /\ UNCHANGED <<statusVars, endedAt, closed>>
          /\ urlCh' \in BOOLEAN
      BY <1>3, <2>3 DEF UpdateCall, TypeOK
    <3> QED
      BY <2>1, <3>1 DEF TypeOK, QueueInv, NoFault, QueueClosedAtEnd, PhaseInv, callVars,
                        statusVars, workerVars, runnerVars
  <2> QED
    BY <2>2, <2>3
<1>4. CASE Close \/ TimerFires
  <2> USE <1>4 DEF Close, TimerFires, callVars, infoVars, statusVars, workerVars,
                   signalVars, runnerVars
  <2>1. TypeOK'
    <3>1. timer' \in BOOLEAN /\ shutdown' \in BOOLEAN
      BY DEF TypeOK
    <3> QED
      BY <3>1 DEF TypeOK
  <2>2. QueueInv' /\ PhaseInv'
    BY DEF QueueInv, NoFault, QueueClosedAtEnd, PhaseInv, IsTerminal
  <2> QED
    BY <2>1, <2>2
<1> QED
  BY <1>1, <1>2, <1>3, <1>4 DEF Api

\* IInv is inductive.
LEMMA StepInv == IInv /\ [Next]_vars => IInv'
<1> SUFFICES ASSUME IInv, [Next]_vars PROVE IInv'
  OBVIOUS
<1>1. CASE Worker
  BY <1>1, WorkerStep
<1>2. CASE Runner
  BY <1>2, QuietRunnerStep, StatusRunnerStep DEF Runner
<1>3. CASE Api \/ TimerFires
  BY <1>3, ApiStep
<1>4. CASE UNCHANGED vars
  BY <1>4 DEF vars, callVars, infoVars, statusVars, workerVars, signalVars, runnerVars,
              IInv, TypeOK, QueueInv, NoFault, QueueClosedAtEnd, PhaseInv
<1> QED
  BY <1>1, <1>2, <1>3, <1>4 DEF Next

\* The inductive invariant of the call, its runner and its worker.
THEOREM Invariant == Spec => []IInv
<1>1. Init => IInv
  BY InitInv
<1>2. IInv /\ [Next]_vars => IInv'
  BY StepInv
<1> QED
  BY <1>1, <1>2, PTL DEF Spec

\* The types of the variables (CallLifecycle's state) hold in every behaviour.
THEOREM TypeCorrect == Spec => []TypeOK
BY Invariant, PTL DEF IInv

\* updateCallStatusLocked never sends on a closed callback queue, never closes
\* it twice and never blocks on a full one with state.mu held.
THEOREM NeverFaults == Spec => []NoFault
BY Invariant, PTL DEF IInv, QueueInv

\* The callback queue is closed exactly when the call has ended, so the worker
\* goroutine of createCall ends with its call and not before.
THEOREM QueueClosesWithCall == Spec => []QueueClosedAtEnd
BY Invariant, PTL DEF IInv, QueueInv

\* CallRunner.Run returns only when the call has ended or the engine has been
\* closed.
THEOREM RunnerEnds == Spec => []RunnerEndsItsCall
<1>1. IInv => RunnerEndsItsCall
  BY DEF IInv, PhaseInv, RunnerEndsItsCall
<1> QED
  BY <1>1, Invariant, PTL

\* Only a verb whose check of hangupCh came before the end begins after it.
LateInv ==
  /\ lateVerbs \in {0, 1}
  /\ lateVerbs = 1 => IsTerminal(status) /\ pc # "node"

\* Whoever ends a call while its runner executes a document closes hangupCh, too.
LEMMA EndedIsHungUp ==
  ASSUME IInv, pc \in DocumentPoints, IsTerminal(status)
  PROVE  "hangup" \in closed
BY DEF IInv, PhaseInv, IsTerminal, TerminalStatuses

\* A call that has ended stays as it is.
LEMMA EndIsForEver == IInv /\ [Next]_vars /\ IsTerminal(status) => status' = status
<1> SUFFICES ASSUME IInv, [Next]_vars, IsTerminal(status) PROVE status' = status
  OBVIOUS
<1>1. ASSUME NEW new, NEW callback, UpdateStatus(new, callback) PROVE status' = status
  BY <1>1, UpdateStatusEffect DEF Ignored
<1>2. CASE Worker \/ TimerFires \/ UNCHANGED vars
  BY <1>2 DEF Worker, WorkerReceive, WorkerPost, WorkerExit, TimerFires, vars, statusVars
<1>3. CASE Runner
  <2>1. CASE StartRinging \/ Settle \/ Answer \/ Complete
    BY <1>1, <2>1 DEF StartRinging, Settle, Answer, Complete
  <2>2. CASE ~(StartRinging \/ Settle \/ Answer \/ Complete)
    BY <1>3, <2>2
    DEF Runner, RingingShutdown, RingingAnswered, RingingEnds, StampAnswered, ReadUrl,
        FetchedTwiML, Fail, NextNode, SkipNode, StartVerb, PlayEnds, VerbHangup,
        DocumentEnds, UrlUpdated, GatherEnds, RecordEnds, SubdocumentFetched,
        EmptyActionResponse, StampEnded, IdleHangup, IdleShutdown, Silent, statusVars
  <2> QED
    BY <2>1, <2>2
<1>4. CASE Api
  <2>1. ASSUME NEW u, NEW cb, NEW end, UpdateCall(u, cb, end) PROVE status' = status
    BY <1>1, <2>1 DEF UpdateCall, statusVars
  <2> QED
    BY <1>1, <1>4, <2>1 DEF Api, Signal, Hangup, Close, statusVars
<1> QED
  BY <1>2, <1>3, <1>4 DEF Next

\* LateInv is inductive, given IInv.
LEMMA LateStep == IInv /\ LateInv /\ [Next]_vars => LateInv'
<1> SUFFICES ASSUME IInv, LateInv, [Next]_vars PROVE LateInv'
  OBVIOUS
<1>1. IsTerminal(status) => IsTerminal(status')
  BY EndIsForEver
<1>2. CASE NextNode
  <2>1. pc = "exec" /\ "hangup" \notin closed /\ lateVerbs' = lateVerbs
    BY <1>2 DEF NextNode, Goto, Silent, infoVars
  <2>2. ~IsTerminal(status)
    BY <2>1, EndedIsHungUp DEF DocumentPoints
  <2> QED
    BY <2>1, <2>2 DEF LateInv
<1>3. ASSUME NEW p \in VerbPoints, StartVerb(p) PROVE LateInv'
  <2>1. /\ pc = "node" /\ pc' = p /\ p # "node" /\ status' = status
        /\ lateVerbs' = lateVerbs + (IF IsTerminal(status) THEN 1 ELSE 0)
    BY <1>3 DEF StartVerb, Goto, VerbPoints, statusVars
  <2> QED
    BY <2>1 DEF LateInv
<1>4. CASE ~NextNode /\ ~\E p \in VerbPoints : StartVerb(p)
  <2>1. lateVerbs' = lateVerbs /\ (pc' = "node" => pc = "node")
    <3>1. CASE Worker \/ TimerFires \/ UNCHANGED vars
      BY <3>1 DEF Worker, WorkerReceive, WorkerPost, WorkerExit, TimerFires, vars, infoVars,
                  runnerVars
    <3>2. CASE Runner
      BY <1>4, <3>2
      DEF Runner, StartRinging, RingingShutdown, RingingAnswered, RingingEnds, Settle, Answer,
          StampAnswered, ReadUrl, FetchedTwiML, Fail, SkipNode, PlayEnds, VerbHangup,
          DocumentEnds, UrlUpdated, GatherEnds, RecordEnds, SubdocumentFetched,
          EmptyActionResponse, Complete, StampEnded, IdleHangup, IdleShutdown, Goto, Silent,
          infoVars
    <3>3. CASE Api
      BY <3>3 DEF Api, Signal, Hangup, UpdateCall, Close, infoVars, runnerVars
    <3> QED
      BY <3>1, <3>2, <3>3 DEF Next
  <2> QED
    BY <1>1, <2>1 DEF LateInv
<1> QED
  BY <1>2, <1>3, <1>4

\* At most one verb is tracked in ExecutedTwiML after the end of its call, the
\* one that executeTwiML had let pass before.
THEOREM VerbsStopAtTheEnd == Spec => []OneVerbAfterEnd
<1>1. Init => LateInv
  BY DEF Init, LateInv
<1>2. IInv /\ LateInv /\ [Next]_vars => LateInv'
  BY LateStep
<1>3. LateInv => OneVerbAfterEnd
  BY DEF LateInv, OneVerbAfterEnd
<1> QED
  BY <1>1, <1>2, <1>3, Invariant, PTL DEF Spec
-----------------------------------------------------------------------------
\* An inbound call is answered between the fetch of its document and the
\* execution, so the argument about its URL must reach over these points.
UrlInv ==
  /\ pc = "ringing" => direction = "outbound"
  /\ pc \in LoopPoints \/ (direction = "inbound" /\ pc \in {"answering", "stamping"})
       => url = execUrl \/ urlCh \/ IsTerminal(status)

\* UrlInv is inductive, given IInv: UpdateCall stores the URL and its token
\* together, or else ends the call for ever.
LEMMA UrlStep == IInv /\ UrlInv /\ [Next]_vars => UrlInv'
<1> SUFFICES ASSUME IInv, UrlInv, [Next]_vars PROVE UrlInv'
  OBVIOUS
<1>4. IsTerminal(status) => IsTerminal(status')
  BY EndIsForEver
<1>5. ASSUME NEW callback, UpdateStatus("completed", callback) PROVE IsTerminal(status')
  BY <1>5, UpdateStatusEffect DEF Ignored, Resolve, IsTerminal, TerminalStatuses
<1> USE <1>4 DEF UrlInv, LoopPoints, RunnerPoints, callVars, infoVars, statusVars, workerVars,
            signalVars, runnerVars
<1>1. CASE Worker \/ TimerFires \/ UNCHANGED vars
  BY <1>1 DEF Worker, WorkerReceive, WorkerPost, WorkerExit, TimerFires, vars
<1>2. CASE Runner
  <2> USE DEF Goto, Silent
  <2>1. CASE ReadUrl
    BY <2>1 DEF ReadUrl
  <2>2. CASE \E p \in InterruptiblePoints : UrlUpdated(p)
    BY <2>2 DEF UrlUpdated
  <2>4. CASE ~(ReadUrl \/ \E p \in InterruptiblePoints : UrlUpdated(p))
    <3>1. UNCHANGED <<direction, url, execUrl, urlCh>>
      BY <1>2, <2>4
      DEF Runner, StartRinging, RingingShutdown, RingingAnswered, RingingEnds, Settle,
          Answer, StampAnswered, FetchedTwiML, Fail, NextNode, SkipNode, StartVerb, PlayEnds, VerbHangup,
          DocumentEnds, GatherEnds, RecordEnds, SubdocumentFetched, EmptyActionResponse, Complete,
          StampEnded, IdleHangup, IdleShutdown
    <3>2. pc' = "ringing" => direction = "outbound"
      BY <1>2, <2>4
      DEF Runner, StartRinging, RingingShutdown, RingingAnswered, RingingEnds, Settle,
          Answer, StampAnswered, FetchedTwiML, Fail, NextNode, SkipNode, StartVerb, PlayEnds, VerbHangup,
          DocumentEnds, GatherEnds, RecordEnds, SubdocumentFetched, EmptyActionResponse, Complete,
          StampEnded, IdleHangup, IdleShutdown, VerbPoints, IInv, TypeOK
    <3>3. pc' \in LoopPoints \/ (direction = "inbound" /\ pc' \in {"answering", "stamping"})
          => \/ pc \in LoopPoints
             \/ direction = "inbound" /\ pc \in {"answering", "stamping"}
      BY <1>2, <2>4
      DEF Runner, StartRinging, RingingShutdown, RingingAnswered, RingingEnds, Settle,
          Answer, StampAnswered, FetchedTwiML, Fail, NextNode, SkipNode, StartVerb, PlayEnds, VerbHangup,
          DocumentEnds, GatherEnds, RecordEnds, SubdocumentFetched, EmptyActionResponse, Complete,
          StampEnded, IdleHangup, IdleShutdown, FailurePoints, VerbPoints
    <3> QED
      BY <3>1, <3>2, <3>3
  <2> QED
    BY <2>1, <2>2, <2>4
<1>3. CASE Api
  <2>1. CASE \E ch \in Signals \ {"hangup"} : Signal(ch)
    BY <2>1 DEF Signal
  <2>2. CASE Hangup
    BY <1>5, <2>2 DEF Hangup
  <2>4. CASE Close
    BY <2>4 DEF Close
  <2>3. ASSUME NEW u, NEW cb, NEW end, UpdateCall(u, cb, end)
        PROVE  UrlInv'
    <3>1. UNCHANGED <<direction, pc, execUrl>>
      BY <2>3 DEF UpdateCall
    <3>2. CASE end /\ status # "completed"
      <4>1. IsTerminal(status')
        BY <1>5, <2>3, <3>2 DEF UpdateCall
      <4> QED
        BY <3>1, <4>1
    <3>3. CASE ~(end /\ status # "completed")
      <4>1. url' = url \/ urlCh'
        BY <2>3, <3>3 DEF UpdateCall
      <4>2. urlCh => urlCh'
        BY <2>3, <3>3 DEF UpdateCall
      <4> QED
        BY <3>1, <4>1, <4>2
    <3> QED
      BY <3>2, <3>3
  <2> QED
    BY <1>3, <2>1, <2>2, <2>3, <2>4 DEF Api
<1> QED
  BY <1>1, <1>2, <1>3 DEF Next

\* UpdateCall's new URL is not lost between the main loop's read of Url and its
\* selects on urlUpdateCh.
THEOREM UrlUpdatesAreNotLost == Spec => []NoLostUrlUpdate
<1>1. Init => UrlInv
  BY DEF Init, UrlInv, LoopPoints
<1>2. IInv /\ UrlInv /\ [Next]_vars => UrlInv'
  BY UrlStep
<1>3. UrlInv => NoLostUrlUpdate
  BY DEF UrlInv, NoLostUrlUpdate
<1> QED
  BY <1>1, <1>2, <1>3, Invariant, PTL DEF Spec
-----------------------------------------------------------------------------
\* The status a runner is about to set is one its call may move to.
PathInv ==
  /\ pc # "created" => status # "initiated"
  /\ pc = "ringing" => status = "ringing" \/ IsTerminal(status)
  /\ pc = "settling" /\ outcome \notin {"failed", "completed"} =>
       status = "ringing" \/ IsTerminal(status)

\* PathInv is inductive, given IInv.
LEMMA PathStep == IInv /\ PathInv /\ [Next]_vars => PathInv'
<1> SUFFICES ASSUME IInv, PathInv, [Next]_vars PROVE PathInv'
  OBVIOUS
<1> USE DEF PathInv, callVars, infoVars, statusVars, workerVars, signalVars, runnerVars
<1>1. CASE Worker \/ TimerFires \/ Close \/ UNCHANGED vars
  BY <1>1 DEF Worker, WorkerReceive, WorkerPost, WorkerExit, TimerFires, Close, vars, IsTerminal
<1>2. CASE \E ch \in Signals \ {"hangup"} : Signal(ch)
  BY <1>2 DEF Signal, IsTerminal
<1>3. ASSUME NEW callback, UpdateStatus("completed", callback), UNCHANGED runnerVars
      PROVE  PathInv'
  BY <1>3, UpdateStatusEffect
  DEF Ignored, Resolve, IsTerminal, TerminalStatuses
<1>4. CASE Hangup
  BY <1>3, <1>4 DEF Hangup
<1>5. ASSUME NEW u, NEW cb, NEW end, UpdateCall(u, cb, end)
      PROVE  PathInv'
  <2>1. UNCHANGED runnerVars
    BY <1>5 DEF UpdateCall
  <2>2. CASE end /\ status # "completed"
    BY <1>3, <1>5, <2>1, <2>2 DEF UpdateCall
  <2>3. CASE ~(end /\ status # "completed")
    BY <1>5, <2>1, <2>3 DEF UpdateCall, IsTerminal
  <2> QED
    BY <2>2, <2>3
<1>6. CASE Runner
  <2> USE <1>6 DEF Goto, Silent
  <2>1. CASE StartRinging
    BY <2>1, UpdateStatusEffect
    DEF StartRinging, Ignored, Resolve, IsTerminal, TerminalStatuses, IInv, PhaseInv
  <2>2. CASE Answer
    BY <2>2, UpdateStatusEffect
    DEF Answer, Ignored, Resolve, IsTerminal, TerminalStatuses
  <2>3. CASE Settle
    BY <2>3, UpdateStatusEffect
    DEF Settle, Ignored, Resolve, IsTerminal, TerminalStatuses, IInv, TypeOK
  <2>4. CASE Complete
    BY <2>4, UpdateStatusEffect
    DEF Complete, Ignored, Resolve, IsTerminal, TerminalStatuses
  <2>5. ASSUME NEW s \in TerminalStatuses, RingingEnds(s) PROVE PathInv'
    BY <2>5 DEF RingingEnds, IsTerminal
  <2>6. ASSUME NEW p \in FailurePoints, Fail(p) PROVE PathInv'
    BY <2>6 DEF Fail, FailurePoints
  <2>7. CASE /\ ~StartRinging /\ ~Answer /\ ~Settle /\ ~Complete
             /\ ~\E s \in TerminalStatuses : RingingEnds(s)
             /\ ~\E p \in FailurePoints : Fail(p)
    <3>1. /\ pc # "created" /\ status' = status
          /\ pc' \notin {"ringing", "settling"}
      BY <2>7
      DEF Runner, RingingShutdown, RingingAnswered, StampAnswered, ReadUrl, FetchedTwiML,
          NextNode, SkipNode, StartVerb, PlayEnds, VerbHangup, DocumentEnds, UrlUpdated, GatherEnds,
          RecordEnds, SubdocumentFetched, EmptyActionResponse, StampEnded, IdleHangup,
          IdleShutdown, VerbPoints, InterruptiblePoints
    <3> QED
      BY <3>1
  <2> QED
    BY <2>1, <2>2, <2>3, <2>4, <2>5, <2>6, <2>7
<1> QED
  BY <1>1, <1>2, <1>4, <1>5, <1>6 DEF Next, Api

\* A status that updateCallStatusLocked may be asked for in the present state.
Asked(new) ==
  /\ new # "initiated"
  /\ new = "ringing" => status = "initiated" \/ IsTerminal(status)
  /\ new # "ringing" /\ new # "completed" => status # "initiated"
  /\ new \in {"busy", "no-answer", "canceled"} => status = "ringing" \/ IsTerminal(status)

\* The steps as the status and its callbacks see them: the worker's, one
\* updateCallStatusLocked, or neither.
LEMMA StepKinds ==
  IInv /\ PathInv /\ [Next]_vars =>
    \/ Worker
    \/ /\ UNCHANGED workerVars
       /\ \E new \in Statuses, callback \in BOOLEAN :
            Asked(new) /\ UpdateStatus(new, callback)
    \/ UNCHANGED <<statusVars, workerVars>>
<1> SUFFICES ASSUME IInv, PathInv, [Next]_vars
             PROVE  \/ Worker
                    \/ /\ UNCHANGED workerVars
                       /\ \E new \in Statuses, callback \in BOOLEAN :
                            Asked(new) /\ UpdateStatus(new, callback)
                    \/ UNCHANGED <<statusVars, workerVars>>
  OBVIOUS
<1>1. hasCallback \in BOOLEAN /\ {"ringing", "in-progress", "completed"} \subseteq Statuses
  BY DEF IInv, TypeOK, Statuses, TerminalStatuses
<1>2. CASE Runner
  <2>1. CASE StartRinging
    BY <1>1, <2>1 DEF StartRinging, Goto, IInv, PhaseInv, Asked
  <2>2. CASE Answer
    BY <1>1, <2>2 DEF Answer, Goto, PathInv, Asked
  <2>3. CASE Settle
    <3>1. outcome \in Statuses /\ outcome \notin {"initiated", "ringing"}
      BY DEF IInv, TypeOK, Statuses, TerminalStatuses
    <3> QED
      BY <1>1, <2>3, <3>1 DEF Settle, Goto, PathInv, Asked
  <2>4. CASE Complete
    BY <1>1, <2>4 DEF Complete, Goto, PathInv, Asked
  <2>5. CASE ~StartRinging /\ ~Answer /\ ~Settle /\ ~Complete
    BY <1>2, <2>5
    DEF Runner, RingingShutdown, RingingAnswered, RingingEnds, StampAnswered, ReadUrl,
        FetchedTwiML, Fail, NextNode, SkipNode, StartVerb, PlayEnds, VerbHangup, DocumentEnds, UrlUpdated,
        GatherEnds, RecordEnds, SubdocumentFetched, EmptyActionResponse, StampEnded,
        IdleHangup, IdleShutdown, Silent
  <2> QED
    BY <2>1, <2>2, <2>3, <2>4, <2>5
<1>3. Asked("completed")
  BY DEF Asked
<1>4. CASE Api
  <2>1. CASE \E ch \in Signals \ {"hangup"} : Signal(ch)
    BY <2>1 DEF Signal
  <2>2. CASE Hangup
    BY <1>1, <1>3, <2>2 DEF Hangup
  <2>3. ASSUME NEW u, NEW cb, NEW end, UpdateCall(u, cb, end)
        PROVE  \/ /\ UNCHANGED workerVars
                  /\ \E new \in Statuses, callback \in BOOLEAN :
                       Asked(new) /\ UpdateStatus(new, callback)
               \/ UNCHANGED <<statusVars, workerVars>>
    <3> DEFINE configured == IF cb = Keep THEN hasCallback ELSE cb = "set"
    <3>1. UNCHANGED workerVars /\ configured \in BOOLEAN
      BY <1>1, <2>3 DEF UpdateCall
    <3>2. CASE end /\ status # "completed"
      <4>1. UpdateStatus("completed", configured)
        BY <2>3, <3>2 DEF UpdateCall
      <4> HIDE DEF configured
      <4> QED
        BY <1>1, <1>3, <3>1, <4>1
    <3>3. CASE ~(end /\ status # "completed")
      BY <2>3, <3>1, <3>3 DEF UpdateCall
    <3> QED
      BY <3>2, <3>3
  <2>4. CASE Close
    BY <2>4 DEF Close
  <2> QED
    BY <1>4, <2>1, <2>2, <2>3, <2>4 DEF Api
<1>5. CASE TimerFires \/ UNCHANGED vars
  BY <1>5 DEF TimerFires, vars
<1> QED
  BY <1>2, <1>4, <1>5 DEF Next

\* The elements of a sequence over S are in S.
LEMMA ElementsOf ==
  ASSUME NEW S, NEW q \in Seq(S)
  PROVE  \A i \in 1..Len(q) : q[i] \in S
OBVIOUS

\* The refinement mapping of Protocol in CallLifecycle.
Owed == Len(cbq) + (IF worker = "posting" THEN 1 ELSE 0)
Told == [i \in 1..Len(reports) |-> reports[i].said]

\* Taking a callback from the queue is hidden, posting it is a Tell.
LEMMA WorkerRefines ==
  ASSUME IInv, Worker
  PROVE  Protocol!Tell \/ UNCHANGED <<status, Owed, Told>>
<1> USE DEF IInv, TypeOK, Owed, Told, statusVars
<1>1. CASE WorkerReceive
  <2>1. Len(cbq') = Len(cbq) - 1 /\ worker = "receiving" /\ worker' = "posting"
    BY <1>1 DEF WorkerReceive
  <2> QED
    BY <1>1, <2>1 DEF WorkerReceive
<1>2. CASE WorkerPost
  <2> DEFINE r == [event |-> posting, said |-> status]
  <2>1. /\ reports' = Append(reports, r) /\ r \in [event : Statuses, said : Statuses]
        /\ UNCHANGED statusVars /\ worker = "posting" /\ worker' = "receiving"
    BY <1>2 DEF WorkerPost
  <2>2. Owed \in Nat /\ Owed > 0 /\ Owed' = Owed - 1
    BY <2>1
  <2>3. Told' = Append(Told, status)
    <3>1. /\ Len(reports') = Len(reports) + 1 /\ Len(reports) \in Nat
          /\ \A i \in 1..Len(reports) : reports'[i] = reports[i]
          /\ reports'[Len(reports) + 1] = r
      BY <2>1
    <3>2. Told \in Seq(Statuses) /\ Len(Told) = Len(reports)
      <4>1. \A i \in 1..Len(reports) : reports[i].said \in Statuses
        <5>1. \A i \in 1..Len(reports) : reports[i] \in [event : Statuses, said : Statuses]
          BY ElementsOf
        <5> QED
          BY <5>1
      <4> QED
        BY <3>1, <4>1
    <3>3. Append(Told, status) = [i \in 1..(Len(reports) + 1) |->
                                    IF i = Len(reports) + 1 THEN status ELSE Told[i]]
      BY <3>1, <3>2
    <3> QED
      BY <3>1, <3>3
  <2> QED
    BY <2>1, <2>2, <2>3 DEF Protocol!Tell
<1>3. CASE WorkerExit
  BY <1>3 DEF WorkerExit
<1> QED
  BY <1>1, <1>2, <1>3 DEF Worker

\* How UpdateStatus looks from outside: a move along CallProtocol's arrows that
\* owes the application at most one more callback, or nothing.
LEMMA UpdateStatusProgresses ==
  ASSUME IInv, NEW new \in Statuses, NEW callback, UpdateStatus(new, callback),
         Asked(new)
  PROVE  \/ UNCHANGED statusVars
         \/ /\ status' \in Protocol!Successors(status)
            /\ Len(cbq') \in {Len(cbq), Len(cbq) + 1}
<1>1. CASE Ignored(status, new)
  BY <1>1 DEF UpdateStatus
<1>2. CASE ~Ignored(status, new)
  <2>1. status' = Resolve(status, new)
    BY <1>2, UpdateStatusEffect
  <2>2. status' \in Protocol!Successors(status)
    BY <1>2, <2>1
    DEF Asked, Ignored, Resolve, IsTerminal, TerminalStatuses, Statuses, Protocol!Successors,
        IInv, TypeOK
  <2>3. cbq' \in {cbq, Append(cbq, Resolve(status, new))}
    BY <1>2 DEF UpdateStatus
  <2>4. Resolve(status, new) \in Statuses
    BY DEF Resolve, Statuses, TerminalStatuses
  <2> QED
    BY <2>2, <2>3, <2>4 DEF IInv, TypeOK
<1> QED
  BY <1>1, <1>2

\* A change of status is a Progress.
LEMMA UpdateRefines ==
  ASSUME IInv, UNCHANGED workerVars,
         \/ UNCHANGED statusVars
         \/ /\ status' \in Protocol!Successors(status)
            /\ Len(cbq') \in {Len(cbq), Len(cbq) + 1}
  PROVE  Protocol!Progress \/ UNCHANGED <<status, Owed, Told>>
<1> USE DEF Owed, Told, workerVars, statusVars
<1>1. Len(cbq) \in Nat
  BY DEF IInv, TypeOK
<1> QED
  BY <1>1 DEF Protocol!Progress

\* Every step maps to a step of CallProtocol or to a stutter.
LEMMA StepRefines ==
  IInv /\ PathInv /\ [Next]_vars => [Protocol!Next]_(Protocol!vars)
<1> SUFFICES ASSUME IInv, PathInv, [Next]_vars
             PROVE  Protocol!Next \/ UNCHANGED <<status, Owed, Told>>
  BY DEF Protocol!vars, Owed, Told
<1>1. CASE Worker
  BY <1>1, WorkerRefines DEF Protocol!Next
<1>2. ASSUME UNCHANGED workerVars, NEW new \in Statuses, NEW callback \in BOOLEAN,
             Asked(new), UpdateStatus(new, callback)
      PROVE  Protocol!Next \/ UNCHANGED <<status, Owed, Told>>
  BY <1>2, UpdateStatusProgresses, UpdateRefines DEF Protocol!Next
<1>3. CASE UNCHANGED <<statusVars, workerVars>>
  BY <1>3, UpdateRefines DEF Protocol!Next
<1> QED
  BY <1>1, <1>2, <1>3, StepKinds

\* The safety part of ImplementsProtocol: every behaviour of the call, its
\* runner, its worker and the Engine's methods is one that CallProtocol allows.
THEOREM RefinesProtocol == Spec => Protocol!Spec
<1>1. Init => IInv /\ PathInv /\ Protocol!Init
  <2>1. Init => Protocol!Init
    BY DEF Init, Protocol!Init
  <2> QED
    BY <2>1, InitInv DEF Init, PathInv
<1>2. IInv /\ [Next]_vars => IInv'
  BY StepInv
<1>3. IInv /\ PathInv /\ [Next]_vars => PathInv'
  BY PathStep
<1>4. IInv /\ PathInv /\ [Next]_vars => [Protocol!Next]_(Protocol!vars)
  BY StepRefines
<1> QED
  BY <1>1, <1>2, <1>3, <1>4, PTL DEF Spec, Protocol!Spec
-----------------------------------------------------------------------------
\* What is posted, being posted or waiting in the queue rises with the life of
\* the call and has come no further than its status; the end of a call is
\* announced as the end it has.
AnnouncedInv ==
  /\ \A i, j \in 1..Len(Announced) : i < j => Rank(Announced[i]) < Rank(Announced[j])
  /\ \A i \in 1..Len(Announced) :
       /\ Rank(Announced[i]) <= Rank(status)
       /\ IsTerminal(Announced[i]) => Announced[i] = status

\* A callback says a status between the event it is for and the status of now.
SaidInv ==
  /\ \A i \in 1..Len(reports) :
       /\ Rank(reports[i].event) <= Rank(reports[i].said)
       /\ Rank(reports[i].said) <= Rank(status)
       /\ IsTerminal(reports[i].event) => reports[i].said = reports[i].event
  /\ \A i, j \in 1..Len(reports) : i < j => Rank(reports[i].said) <= Rank(reports[j].said)

\* Announced begins with the events of the callbacks that were posted.
LEMMA AnnouncedParts ==
  ASSUME TypeOK
  PROVE  LET posted == [i \in 1..Len(reports) |-> reports[i].event]
             now    == IF worker = "posting" THEN <<posting>> ELSE <<>>
         IN  /\ posted \in Seq(Statuses) /\ now \in Seq(Statuses)
             /\ posted \o now \in Seq(Statuses)
             /\ Announced \in Seq(Statuses)
             /\ Len(posted) = Len(reports) /\ Len(reports) \in Nat
             /\ Len(Announced) >= Len(reports)
             /\ \A i \in 1..Len(reports) : Announced[i] = reports[i].event
             /\ worker = "posting" =>
                  /\ Len(Announced) >= Len(reports) + 1
                  /\ Announced[Len(reports) + 1] = posting
             /\ worker # "posting" /\ cbq = <<>> => Len(Announced) = Len(reports)
<1> DEFINE posted == [i \in 1..Len(reports) |-> reports[i].event]
           now    == IF worker = "posting" THEN <<posting>> ELSE <<>>
<1>1. Len(reports) \in Nat
  BY DEF TypeOK
<1>2. posted \in Seq(Statuses) /\ Len(posted) = Len(reports)
  <2>1. \A i \in 1..Len(reports) : reports[i] \in [event : Statuses, said : Statuses]
    BY ElementsOf DEF TypeOK
  <2>2. \A i \in 1..Len(reports) : reports[i].event \in Statuses
    BY <2>1
  <2> QED
    BY <1>1, <2>2
<1>3. now \in Seq(Statuses)
  BY DEF TypeOK
<1>4. cbq \in Seq(Statuses)
  BY DEF TypeOK
<1> HIDE DEF posted, now
<1>5. /\ posted \o now \in Seq(Statuses)
      /\ Len(posted \o now) = Len(posted) + Len(now)
      /\ \A i \in 1..Len(posted) + Len(now) : (posted \o now)[i] =
           IF i <= Len(posted) THEN posted[i] ELSE now[i - Len(posted)]
  BY <1>2, <1>3, ConcatProperties
<1>6. Announced = (posted \o now) \o cbq
  BY DEF Announced, posted, now
<1>7. /\ Announced \in Seq(Statuses)
      /\ Len(Announced) = Len(posted \o now) + Len(cbq)
      /\ \A i \in 1..Len(posted \o now) + Len(cbq) : Announced[i] =
           IF i <= Len(posted \o now) THEN (posted \o now)[i]
                                      ELSE cbq[i - Len(posted \o now)]
  BY <1>4, <1>5, <1>6, ConcatProperties
<1>8. Len(now) \in Nat /\ Len(cbq) \in Nat
  BY <1>3, <1>4
<1>9. \A i \in 1..Len(reports) : Announced[i] = reports[i].event
  <2>1. \A i \in 1..Len(reports) : Announced[i] = posted[i]
    BY <1>1, <1>2, <1>5, <1>7, <1>8
  <2> QED
    BY <2>1 DEF posted
<1>10. worker = "posting" =>
         /\ Len(Announced) >= Len(reports) + 1
         /\ Announced[Len(reports) + 1] = posting
  <2>1. SUFFICES ASSUME worker = "posting"
                 PROVE  /\ Len(Announced) >= Len(reports) + 1
                        /\ Announced[Len(reports) + 1] = posting
    OBVIOUS
  <2>2. Len(now) = 1 /\ now[1] = posting
    BY <2>1 DEF now
  <2>3. Announced[Len(reports) + 1] = now[1]
    BY <1>1, <1>2, <1>5, <1>7, <1>8, <2>2
  <2> QED
    BY <1>1, <1>2, <1>5, <1>7, <1>8, <2>2, <2>3
<1>11. Len(Announced) >= Len(reports)
  BY <1>1, <1>2, <1>5, <1>7, <1>8
<1>12. worker # "posting" /\ cbq = <<>> => Len(Announced) = Len(reports)
  <2>1. worker # "posting" => Len(now) = 0
    BY DEF now
  <2> QED
    BY <1>1, <1>2, <1>5, <1>7, <2>1
<1> QED
  BY <1>1, <1>2, <1>3, <1>5, <1>7, <1>9, <1>10, <1>11, <1>12 DEF posted, now

\* The worker moves a callback along; what is announced stays the same.
LEMMA WorkerAnnouncesNothing ==
  ASSUME TypeOK, Worker
  PROVE  Announced' = Announced
<1> DEFINE posted == [i \in 1..Len(reports) |-> reports[i].event]
<1>1. posted \in Seq(Statuses) /\ posting \in Statuses /\ cbq \in Seq(Statuses)
  BY AnnouncedParts DEF TypeOK
<1>2. CASE WorkerReceive
  <2>1. /\ worker = "receiving" /\ cbq # <<>>
        /\ worker' = "posting" /\ posting' = Head(cbq) /\ cbq' = Tail(cbq)
        /\ reports' = reports
    BY <1>2 DEF WorkerReceive
  <2>2. cbq = <<posting'>> \o cbq' /\ posting' \in Statuses /\ cbq' \in Seq(Statuses)
    BY <1>1, <2>1
  <2>3. Announced = posted \o (<<posting'>> \o cbq')
    <3>1. posted \o <<>> = posted
      BY <1>1, ConcatEmptySeq
    <3> QED
      BY <2>1, <2>2, <3>1 DEF Announced
  <2>4. Announced' = (posted \o <<posting'>>) \o cbq'
    BY <2>1 DEF Announced
  <2>5. <<posting'>> \in Seq(Statuses)
    BY <2>2
  <2>6. (posted \o <<posting'>>) \o cbq' = posted \o (<<posting'>> \o cbq')
    BY <1>1, <2>2, <2>5, ConcatAssociative
  <2> QED
    BY <2>3, <2>4, <2>6
<1>3. CASE WorkerPost
  <2>1. /\ worker = "posting" /\ worker' = "receiving"
        /\ reports' = Append(reports, [event |-> posting, said |-> status])
        /\ cbq' = cbq
    BY <1>3 DEF WorkerPost, statusVars
  <2>2. posted' = posted \o <<posting>>
    <3>1. /\ Len(reports') = Len(reports) + 1 /\ Len(reports) \in Nat
          /\ \A i \in 1..Len(reports) : reports'[i] = reports[i]
          /\ reports'[Len(reports) + 1].event = posting
      BY <2>1 DEF TypeOK
    <3>2. posted \o <<posting>> = [i \in 1..(Len(reports) + 1) |->
                                     IF i = Len(reports) + 1 THEN posting ELSE posted[i]]
      BY <1>1, <3>1
    <3> QED
      BY <3>1, <3>2
  <2>3. Announced' = (posted' \o <<>>) \o cbq
    BY <2>1 DEF Announced
  <2>4. posted' \o <<>> = posted'
    <3>1. posted \o <<posting>> \in Seq(Statuses)
      BY <1>1
    <3> HIDE DEF posted
    <3> QED
      BY <2>2, <3>1, ConcatEmptySeq
  <2> QED
    BY <2>1, <2>2, <2>3, <2>4 DEF Announced
<1>4. CASE WorkerExit
  <2>1. worker # "posting" /\ worker' # "posting" /\ reports' = reports /\ cbq' = <<>> /\ cbq = <<>>
    BY <1>4 DEF WorkerExit, statusVars
  <2> QED
    BY <2>1 DEF Announced
<1> QED
  BY <1>2, <1>3, <1>4 DEF Worker

\* A change of status announces itself behind all others, or nothing.
LEMMA UpdateAnnounces ==
  ASSUME TypeOK, UNCHANGED workerVars,
         NEW new \in Statuses, NEW callback, UpdateStatus(new, callback)
  PROVE  \/ cbq' = cbq /\ Announced' = Announced
         \/ /\ ~Ignored(status, new)
            /\ Announced' = Append(Announced, status')
<1> DEFINE before == [i \in 1..Len(reports) |-> reports[i].event]
                       \o (IF worker = "posting" THEN <<posting>> ELSE <<>>)
<1>1. before \in Seq(Statuses) /\ cbq \in Seq(Statuses)
  BY AnnouncedParts DEF TypeOK
<1>2. Announced = before \o cbq /\ Announced' = before \o cbq'
  BY DEF Announced, workerVars
<1> HIDE DEF before
<1>3. CASE cbq' = cbq
  BY <1>2, <1>3
<1>4. CASE cbq' # cbq
  <2>1. ~Ignored(status, new) /\ cbq' = Append(cbq, status')
    BY <1>4 DEF UpdateStatus, statusVars
  <2>2. status' \in Statuses
    BY <2>1, UpdateStatusEffect DEF Resolve, Statuses, TerminalStatuses
  <2>3. before \o Append(cbq, status') = Append(before \o cbq, status')
    BY <1>1
  <2> QED
    BY <1>2, <2>1, <2>3
<1> QED
  BY <1>3, <1>4

\* updateCallStatusLocked keeps the order: the status it announces is higher
\* than all before it, and no call that ended changes any more.
LEMMA UpdateKeepsOrder ==
  ASSUME IInv, AnnouncedInv, SaidInv, UNCHANGED workerVars,
         NEW new \in Statuses, NEW callback, Asked(new), UpdateStatus(new, callback)
  PROVE  AnnouncedInv' /\ SaidInv'
<1>1. CASE Ignored(status, new)
  <2>1. UNCHANGED <<status, reports, cbq, worker, posting>>
    BY <1>1 DEF UpdateStatus, statusVars, workerVars
  <2>2. Announced' = Announced
    BY <2>1 DEF Announced
  <2> QED
    BY <2>1, <2>2 DEF AnnouncedInv, SaidInv
<1>2. CASE ~Ignored(status, new)
  <2>1. /\ status' \in Statuses /\ Rank(status) < Rank(status')
        /\ Rank(status) \in 0..2 /\ Rank(status') \in 0..3
        /\ ~IsTerminal(status)
    BY <1>2, UpdateStatusEffect
    DEF Asked, Ignored, Resolve, Rank, IsTerminal, TerminalStatuses, Statuses, IInv, TypeOK
  <2>2. Announced \in Seq(Statuses)
    BY AnnouncedParts DEF IInv
  <2>3. \A i \in 1..Len(Announced) : Announced[i] \in Statuses /\ ~IsTerminal(Announced[i])
    BY <2>1, <2>2, ElementsOf DEF AnnouncedInv
  <2>4. \A s \in Statuses : Rank(s) \in 0..3
    BY DEF Rank
  <2>5. AnnouncedInv'
    <3>1. CASE Announced' = Announced
      BY <2>1, <2>2, <2>3, <2>4, <3>1 DEF AnnouncedInv
    <3>2. CASE Announced' = Append(Announced, status')
      <4>1. /\ Len(Announced') = Len(Announced) + 1 /\ Len(Announced) \in Nat
            /\ \A i \in 1..Len(Announced) : Announced'[i] = Announced[i]
            /\ Announced'[Len(Announced) + 1] = status'
        BY <2>1, <2>2, <3>2, AppendProperties
      <4>2. \A i \in 1..Len(Announced) : Rank(Announced[i]) < Rank(status')
        BY <2>1, <2>3, <2>4 DEF AnnouncedInv
      <4> QED
        BY <2>1, <2>3, <2>4, <4>1, <4>2 DEF AnnouncedInv
    <3> QED
      BY <3>1, <3>2, UpdateAnnounces DEF IInv
  <2>6. SaidInv'
    <3>1. reports' = reports /\ \A i \in 1..Len(reports) : reports[i].said \in Statuses
      <4>1. \A i \in 1..Len(reports) : reports[i] \in [event : Statuses, said : Statuses]
        BY ElementsOf DEF IInv, TypeOK
      <4> QED
        BY <4>1 DEF workerVars
    <3> QED
      BY <2>1, <2>4, <3>1 DEF SaidInv
  <2> QED
    BY <2>5, <2>6
<1> QED
  BY <1>1, <1>2

\* sendCallStatusCallback says the status of now, which is the one announced or
\* a later one, and the one announced if that was the end.
LEMMA WorkerKeepsOrder ==
  ASSUME IInv, AnnouncedInv, SaidInv, Worker
  PROVE  AnnouncedInv' /\ SaidInv'
<1>1. Announced' = Announced /\ status' = status
  BY WorkerAnnouncesNothing DEF IInv, Worker, WorkerReceive, WorkerPost, WorkerExit, statusVars
<1>2. AnnouncedInv'
  BY <1>1 DEF AnnouncedInv
<1>3. CASE reports' = reports
  BY <1>1, <1>2, <1>3 DEF SaidInv
<1>4. CASE WorkerPost
  <2> DEFINE r == [event |-> posting, said |-> status]
  <2>1. /\ reports' = Append(reports, r) /\ r \in [event : Statuses, said : Statuses]
        /\ worker = "posting"
    BY <1>4 DEF WorkerPost, IInv, TypeOK
  <2>2. /\ Len(reports') = Len(reports) + 1 /\ Len(reports) \in Nat
        /\ \A i \in 1..Len(reports) : reports'[i] = reports[i]
        /\ reports'[Len(reports) + 1] = r
    BY <2>1 DEF IInv, TypeOK
  <2>3. Rank(posting) <= Rank(status) /\ (IsTerminal(posting) => posting = status)
    <3>1. /\ Len(reports) + 1 \in 1..Len(Announced)
          /\ Announced[Len(reports) + 1] = posting
      BY <2>1, <2>2, AnnouncedParts DEF IInv
    <3> QED
      BY <3>1 DEF AnnouncedInv
  <2>4. Rank(status) \in Nat
    BY DEF Rank
  <2> QED
    BY <1>1, <1>2, <2>2, <2>3, <2>4 DEF SaidInv
<1> QED
  BY <1>2, <1>3, <1>4 DEF Worker, WorkerReceive, WorkerExit

\* The order of the callbacks is inductive.
LEMMA OrderStep ==
  IInv /\ PathInv /\ AnnouncedInv /\ SaidInv /\ [Next]_vars => AnnouncedInv' /\ SaidInv'
<1> SUFFICES ASSUME IInv, PathInv, AnnouncedInv, SaidInv, [Next]_vars
             PROVE  AnnouncedInv' /\ SaidInv'
  OBVIOUS
<1>1. CASE UNCHANGED <<statusVars, workerVars>>
  <2>1. UNCHANGED <<status, reports, cbq, worker, posting>>
    BY <1>1 DEF statusVars, workerVars
  <2>2. Announced' = Announced
    BY <2>1 DEF Announced
  <2> QED
    BY <2>1, <2>2 DEF AnnouncedInv, SaidInv
<1> QED
  BY <1>1, StepKinds, WorkerKeepsOrder, UpdateKeepsOrder

\* The callback that is due for the end of the call is on its way or posted,
\* and the worker leaves nothing behind.
EndInv ==
  /\ endDue =>
       /\ IsTerminal(status)
       /\ \E i \in 1..Len(Announced) : IsTerminal(Announced[i])
  /\ worker = "exited" => cbq = <<>> /\ cbClosed

\* EndInv is inductive, given IInv: the worker keeps what is announced, the end
\* of the call announces itself, and a call that ended announces nothing more.
LEMMA EndStep ==
  IInv /\ PathInv /\ EndInv /\ [Next]_vars => EndInv'
<1> SUFFICES ASSUME IInv, PathInv, EndInv, [Next]_vars PROVE EndInv'
  OBVIOUS
<1>1. CASE UNCHANGED <<statusVars, workerVars>>
  <2>1. UNCHANGED <<status, reports, cbq, cbClosed, endDue, worker, posting>>
    BY <1>1 DEF statusVars, workerVars
  <2>2. Announced' = Announced
    BY <2>1 DEF Announced
  <2> QED
    BY <2>1, <2>2 DEF EndInv
<1>2. CASE Worker
  <2>1. Announced' = Announced
    BY <1>2, WorkerAnnouncesNothing DEF IInv
  <2>2. UNCHANGED <<status, cbClosed, endDue>>
    BY <1>2 DEF Worker, WorkerReceive, WorkerPost, WorkerExit, statusVars
  <2>3. worker' = "exited" => cbq' = <<>> /\ cbClosed
    BY <1>2 DEF Worker, WorkerReceive, WorkerPost, WorkerExit, statusVars
  <2> QED
    BY <2>1, <2>2, <2>3 DEF EndInv
<1>3. ASSUME UNCHANGED workerVars, NEW new \in Statuses, NEW callback \in BOOLEAN,
             Asked(new), UpdateStatus(new, callback)
      PROVE  EndInv'
  <2>1. CASE Ignored(status, new)
    BY <1>1, <1>3, <2>1 DEF UpdateStatus
  <2>2. CASE ~Ignored(status, new)
    <3> DEFINE s     == Resolve(status, new)
               sends == callback /\ ShouldSend(interest, s)
    <3>1. /\ ~IsTerminal(status) /\ status' = s
          /\ ~cbClosed /\ ~endDue /\ worker # "exited" /\ worker' = worker
      BY <1>3, <2>2 DEF Ignored, UpdateStatus, IInv, QueueInv, QueueClosedAtEnd, EndInv,
                        workerVars
    <3>2. Len(cbq) \in Nat /\ Len(cbq) < CallbackQueueCap
      BY DEF IInv, TypeOK, QueueInv, Rank, CallbackQueueCap
    <3>3. ~(Len(cbq) >= CallbackQueueCap)
      BY <3>2 DEF CallbackQueueCap
    <3>4. endDue' = (IsTerminal(s) /\ sends)
      BY <2>2, <1>3, <3>1 DEF UpdateStatus
    <3>5. CASE endDue'
      <4>1. IsTerminal(status') /\ sends
        BY <3>1, <3>4, <3>5
      <4>2. cbq' = Append(cbq, s)
        BY <1>3, <2>2, <3>1, <3>3, <4>1 DEF UpdateStatus
      <4>3. cbq \in Seq(Statuses) /\ s \in Statuses
        BY DEF IInv, TypeOK, Resolve, Statuses, TerminalStatuses
      <4>4. Len(cbq') = Len(cbq) + 1 /\ cbq'[Len(cbq) + 1] = s
        BY <4>2, <4>3
      <4>5. \E i \in 1..Len(Announced') : IsTerminal(Announced'[i])
        <5>1. Announced \in Seq(Statuses)
          BY AnnouncedParts DEF IInv
        <5>2. CASE Announced' = Append(Announced, status')
          <6>1. Len(Announced') = Len(Announced) + 1 /\ Len(Announced) \in Nat
                /\ Announced'[Len(Announced) + 1] = status'
            BY <3>1, <4>3, <5>1, <5>2
          <6> QED
            BY <4>1, <6>1
        <5> QED
          BY <1>3, <4>4, <5>2, UpdateAnnounces DEF IInv, TypeOK
      <4> QED
        BY <3>1, <4>1, <4>5 DEF EndInv
    <3> QED
      BY <3>1, <3>5 DEF EndInv
  <2> QED
    BY <2>1, <2>2
<1> QED
  BY <1>1, <1>2, <1>3, StepKinds

\* What is announced and what is said about it, in every behaviour.
THEOREM OrderInvariant == Spec => [](IInv /\ AnnouncedInv /\ SaidInv /\ EndInv)
<1>1. Init => IInv /\ PathInv /\ AnnouncedInv /\ SaidInv /\ EndInv
  <2>1. SUFFICES ASSUME Init PROVE AnnouncedInv /\ SaidInv /\ EndInv
    BY InitInv DEF Init, PathInv
  <2>2. reports = <<>> /\ cbq = <<>> /\ worker = "receiving" /\ Len(reports) = 0 /\ ~endDue
    BY <2>1 DEF Init
  <2>3. Announced = [i \in 1..0 |-> reports[i].event] \o <<>> \o <<>>
    BY <2>2 DEF Announced
  <2>4. Len(Announced) = 0
    BY <2>3
  <2> QED
    BY <2>2, <2>4 DEF AnnouncedInv, SaidInv, EndInv
<1>2. IInv /\ [Next]_vars => IInv'
  BY StepInv
<1>3. IInv /\ PathInv /\ [Next]_vars => PathInv'
  BY PathStep
<1>4. IInv /\ PathInv /\ AnnouncedInv /\ SaidInv /\ [Next]_vars => AnnouncedInv' /\ SaidInv'
  BY OrderStep
<1>5. IInv /\ PathInv /\ EndInv /\ [Next]_vars => EndInv'
  BY EndStep
<1> QED
  BY <1>1, <1>2, <1>3, <1>4, <1>5, PTL DEF Spec

\* Callbacks are posted in the order of the changes of status, and none says
\* what the call had not reached or had left before an earlier one was posted.
THEOREM CallbacksAreOrdered == Spec => []ReportsInOrder
<1>1. IInv /\ AnnouncedInv /\ SaidInv => ReportsInOrder
  BY DEF AnnouncedInv, SaidInv, ReportsInOrder
<1> QED
  BY <1>1, OrderInvariant, PTL

\* The callback for the end of a call says how it ended and no other follows;
\* the worker exits only after it posted the one that was due.
THEOREM TheEndIsReportedLast == Spec => []ReportOfTheEnd
<1>1. ASSUME IInv, AnnouncedInv, SaidInv, EndInv PROVE ReportOfTheEnd
  <2>1. /\ Len(reports) \in Nat /\ Announced \in Seq(Statuses)
        /\ Len(Announced) >= Len(reports)
        /\ \A k \in 1..Len(reports) : Announced[k] = reports[k].event
        /\ worker # "posting" /\ cbq = <<>> => Len(Announced) = Len(reports)
    BY <1>1, AnnouncedParts DEF IInv
  <2>2. ASSUME NEW i \in 1..Len(reports), IsTerminal(reports[i].event)
        PROVE  /\ reports[i].said = reports[i].event
               /\ reports[i].said = status /\ i = Len(reports)
    <3>1. reports[i].said = reports[i].event /\ reports[i].event = status
      BY <1>1, <2>1, <2>2 DEF AnnouncedInv, SaidInv
    <3>2. Rank(reports[i].event) = 3
      BY <2>2 DEF Rank, IsTerminal, TerminalStatuses
    <3>3. ASSUME i < Len(reports) PROVE FALSE
      <4>1. Rank(Announced[i]) < Rank(Announced[i + 1])
        BY <1>1, <2>1, <3>3 DEF AnnouncedInv
      <4>2. Rank(Announced[i + 1]) <= 3
        BY DEF Rank
      <4> QED
        BY <2>1, <3>2, <4>1, <4>2 DEF Rank
    <3> QED
      BY <2>1, <3>1, <3>3
  <2>3. ASSUME worker = "exited", endDue
        PROVE  reports # <<>> /\ IsTerminal(reports[Len(reports)].event)
    <3>1. Len(Announced) = Len(reports)
      BY <1>1, <2>1, <2>3 DEF EndInv
    <3>2. PICK i \in 1..Len(reports) : IsTerminal(reports[i].event)
      BY <1>1, <2>1, <2>3, <3>1 DEF EndInv
    <3> QED
      BY <2>1, <2>2, <3>2
  <2> QED
    BY <2>2, <2>3 DEF ReportOfTheEnd
<1> QED
  BY <1>1, OrderInvariant, PTL
=============================================================================
