----------------------------- MODULE DialNumber -----------------------------
(***************************************************************************)
(* <Dial> with numbers, clients or SIP addresses (executeDialNumber in     *)
(* engine/runner.go): the call dials its legs in parallel, is bridged with *)
(* the first that answers, and hangs up the others.                        *)
(*                                                                         *)
(* The goroutines are the runner of the dialing call, one that creates     *)
(* each leg, one that monitors its channels, and the runner of each leg.   *)
(* The channels of a leg are closed, never sent on, so the monitor and the *)
(* leg's own runner may take different cases of the same select.           *)
(***************************************************************************)
EXTENDS CallStatus, Naturals, Sequences, FiniteSets

CONSTANTS
  Legs,         \* the Number, Client and Sip nodes of the Dial
  Documents,    \* those with a url, whose document the leg executes
  BadUrls,      \* those whose url may turn out not to be resolvable
  HangupOnStar, \* has the Dial hangupOnStar?
  Requests,     \* a bound: what applications do besides hanging up the call
  None          \* no leg

ASSUME LegsAssumption ==
  IsFiniteSet(Legs) /\ Documents \union BadUrls \subseteq Legs /\ None \notin Legs
ASSUME StarAssumption == HangupOnStar \in BOOLEAN
ASSUME RequestsAssumption ==
  Requests \subseteq {"answer", "busy", "failed", "hangup", "url", "close"}

VARIABLES
  dial, told,          \* where the Dial is, the DialCallStatus it reports
  answered,            \* answeredRunner
  heard,               \* completedChildren
  made,                \* how far the creation of each leg is
  monitor,             \* the goroutine that monitors each leg
  statusCh,            \* childStatusCh
  run, status, closed, \* each leg: its runner, Status, and closed channels
  hungup, urlCh,       \* hangupCh and urlUpdateCh of the dialing call
  shutdown             \* is the engine's context cancelled?

dialVars == <<dial, told, answered, heard>>
legVars  == <<run, status, closed>>
outVars  == <<hungup, urlCh, shutdown>>
vars == <<dialVars, made, monitor, statusCh, legVars, outVars>>

DialPoints == {"spawning", "joining", "waiting", "talking", "reporting", "over"}
Signals    == {"hangup", "answer", "busy", "failed"}

\* The legs in childCalls.
Tracked == {l \in Legs : made[l] = "tracked"}

Init ==
  /\ dial = "spawning" /\ told = "none" /\ answered = None
  /\ heard = [l \in Legs |-> "none"]
  /\ made = [l \in Legs |-> "none"]
  /\ monitor = [l \in Legs |-> "none"] /\ statusCh = <<>>
  /\ run = [l \in Legs |-> "none"]
  /\ status = [l \in Legs |-> "initiated"]
  /\ closed = [l \in Legs |-> {}]
  /\ hungup = FALSE /\ urlCh = FALSE /\ shutdown = FALSE
-----------------------------------------------------------------------------
(* The creation of the legs *)

HangupLegs(ls) ==
  closed' = [l \in Legs |-> IF l \in ls THEN closed[l] \union {"hangup"} ELSE closed[l]]

Spawn(l) ==
  /\ dial = "spawning" /\ made[l] = "none"
  /\ made' = [made EXCEPT ![l] = "creating"]
  /\ UNCHANGED <<dialVars, monitor, statusCh, legVars, outVars>>

\* An early return, as all below: the deferred hangupAllChildren runs.
SpawnFails(l) ==
  /\ dial = "spawning" /\ made[l] = "none" /\ l \in BadUrls
  /\ dial' = "over"
  /\ HangupLegs(Tracked)
  /\ UNCHANGED <<told, answered, heard, made, monitor, statusCh, run, status, outVars>>

Spawned ==
  /\ dial = "spawning" /\ \A l \in Legs : made[l] # "none"
  /\ dial' = "joining"
  /\ UNCHANGED <<told, answered, heard, made, monitor, statusCh, legVars, outVars>>

\* createCall starts the runner of the leg, or refuses the number.
Create(l) ==
  /\ made[l] = "creating"
  /\ \/ /\ made' = [made EXCEPT ![l] = "created"]
        /\ run' = [run EXCEPT ![l] = "created"]
     \/ made' = [made EXCEPT ![l] = "refused"] /\ UNCHANGED run
  /\ UNCHANGED <<dialVars, monitor, statusCh, status, closed, outVars>>

Track(l) ==
  /\ made[l] = "created"
  /\ made' = [made EXCEPT ![l] = "tracked"]
  /\ UNCHANGED <<dialVars, monitor, statusCh, legVars, outVars>>

\* wg.Wait is over: start the monitors, or report that there is no leg.
Joined ==
  /\ dial = "joining" /\ \A l \in Legs : made[l] \in {"tracked", "refused"}
  /\ dial' = IF Tracked = {} THEN "reporting" ELSE "waiting"
  /\ told' = IF Tracked = {} THEN "no-answer" ELSE told
  /\ monitor' = [l \in Legs |-> IF l \in Tracked THEN "watching" ELSE "none"]
  /\ UNCHANGED <<answered, heard, made, statusCh, legVars, outVars>>
-----------------------------------------------------------------------------
(* The monitors: childStatusCh has room for each *)

MonitorSeesAnswer(l, s) ==   \* a mutant of MonitorSees
  /\ monitor[l] = "watching" /\ s = "answer" /\ s \in closed[l]
  /\ monitor' = [monitor EXCEPT ![l] = "gone"]
  /\ statusCh' = Append(statusCh, [leg |-> l, saw |-> s])
  /\ UNCHANGED <<dialVars, made, legVars, outVars>>

MonitorSees(l, s) ==
  /\ monitor[l] = "watching" /\ s \in closed[l] \ {"hangup"}
  /\ monitor' = [monitor EXCEPT ![l] = "gone"]
  /\ statusCh' = Append(statusCh, [leg |-> l, saw |-> s])
  /\ UNCHANGED <<dialVars, made, legVars, outVars>>

MonitorStopsOnShutdown(l) ==   \* a mutant of MonitorStops
  /\ monitor[l] = "watching" /\ shutdown
  /\ monitor' = [monitor EXCEPT ![l] = "gone"]
  /\ UNCHANGED <<dialVars, made, statusCh, legVars, outVars>>

MonitorStops(l) ==
  /\ monitor[l] = "watching" /\ (hungup \/ shutdown)
  /\ monitor' = [monitor EXCEPT ![l] = "gone"]
  /\ UNCHANGED <<dialVars, made, statusCh, legVars, outVars>>
-----------------------------------------------------------------------------
(* waitLoop *)

\* hangupCh, the context: nothing is reported.
WaitEndsOnShutdown ==   \* a mutant of WaitEnds
  /\ dial = "waiting" /\ shutdown
  /\ dial' = "over"
  /\ HangupLegs(Tracked)
  /\ UNCHANGED <<told, answered, heard, made, monitor, statusCh, run, status, outVars>>

WaitEnds ==
  /\ dial = "waiting" /\ (hungup \/ shutdown)
  /\ dial' = "over"
  /\ HangupLegs(Tracked)
  /\ UNCHANGED <<told, answered, heard, made, monitor, statusCh, run, status, outVars>>

Timeout ==
  /\ dial = "waiting"
  /\ dial' = "reporting" /\ told' = "no-answer"
  /\ UNCHANGED <<answered, heard, made, monitor, statusCh, legVars, outVars>>

\* The first that answers is bridged, the others are hung up.
HearAnswerLeavesOthers ==   \* a mutant of HearAnswer
  /\ dial = "waiting" /\ statusCh # <<>> /\ Head(statusCh).saw = "answer"
  /\ statusCh' = Tail(statusCh)
  /\ heard' = [heard EXCEPT ![Head(statusCh).leg] = "answer"]
  /\ answered' = Head(statusCh).leg
  /\ dial' = "talking"
  /\ UNCHANGED <<told, made, monitor, legVars, outVars>>

HearAnswer ==
  /\ dial = "waiting" /\ statusCh # <<>> /\ Head(statusCh).saw = "answer"
  /\ statusCh' = Tail(statusCh)
  /\ heard' = [heard EXCEPT ![Head(statusCh).leg] = "answer"]
  /\ answered' = Head(statusCh).leg
  /\ dial' = "talking"
  /\ HangupLegs(Tracked \ {Head(statusCh).leg})
  /\ UNCHANGED <<told, made, monitor, run, status, outVars>>

\* The DialCallStatus when every leg has been heard and none answered.
OutcomeByAny(h) ==   \* a mutant of Outcome
  IF \E l \in Tracked : h[l] = "busy" THEN "busy" ELSE "failed"

Outcome(h) ==
  CASE \A l \in Tracked : h[l] = "busy"   -> "busy"
    [] \E l \in Tracked : h[l] = "failed" -> "failed"
    [] OTHER -> "no-answer"

HearRefusal ==
  /\ dial = "waiting" /\ statusCh # <<>> /\ Head(statusCh).saw # "answer"
  /\ statusCh' = Tail(statusCh)
  /\ heard' = [heard EXCEPT ![Head(statusCh).leg] = Head(statusCh).saw]
  /\ IF \A l \in Tracked : heard'[l] # "none"
     THEN dial' = "reporting" /\ told' = Outcome(heard')
     ELSE UNCHANGED <<dial, told>>
  /\ UNCHANGED <<answered, made, monitor, legVars, outVars>>
-----------------------------------------------------------------------------
(* The bridge *)

BridgeEnds ==
  /\ dial = "talking" /\ (hungup \/ "hangup" \in closed[answered])
  /\ dial' = "reporting" /\ told' = "answered"
  /\ HangupLegs({answered})
  /\ UNCHANGED <<answered, heard, made, monitor, statusCh, run, status, outVars>>

BridgeShutdown ==
  /\ dial = "talking" /\ shutdown
  /\ dial' = "over"
  /\ HangupLegs(Tracked)
  /\ UNCHANGED <<told, answered, heard, made, monitor, statusCh, run, status, outVars>>

\* The star key, which may have waited in gatherCh: executeHangup completes
\* the call, and nothing is reported.
Star ==
  /\ HangupOnStar /\ dial = "talking"
  /\ dial' = "over"
  /\ HangupLegs(Tracked)
  /\ UNCHANGED <<told, answered, heard, made, monitor, statusCh, run, status, outVars>>

\* executeActionCallback fetches the action URL and executes its document;
\* only then does the deferred hangupAllChildren run.
ReportedAnswered ==   \* a mutant of Reported
  /\ dial = "reporting"
  /\ dial' = "over"
  /\ HangupLegs(IF answered = None THEN {} ELSE {answered})
  /\ UNCHANGED <<told, answered, heard, made, monitor, statusCh, run, status, outVars>>

Reported ==
  /\ dial = "reporting"
  /\ dial' = "over"
  /\ HangupLegs(Tracked)
  /\ UNCHANGED <<told, answered, heard, made, monitor, statusCh, run, status, outVars>>
-----------------------------------------------------------------------------
(* The runner of a leg, as CallLifecycle has it in detail *)

SetStatus(l, new) ==
  status' = [status EXCEPT ![l] = IF Ignored(@, new) THEN @ ELSE Resolve(@, new)]

LegGoes(l, from, to, new) ==
  /\ run[l] = from
  /\ run' = [run EXCEPT ![l] = to]
  /\ SetStatus(l, new)
  /\ UNCHANGED <<dialVars, made, monitor, statusCh, closed, outVars>>

LegRings(l) == LegGoes(l, "created", "ringing", "ringing")

LegAnswered(l) == "answer" \in closed[l] /\ LegGoes(l, "ringing", "playing", "in-progress")

LegRefuses(l) ==
  \/ "busy"   \in closed[l] /\ LegGoes(l, "ringing", "done", "busy")
  \/ "failed" \in closed[l] /\ LegGoes(l, "ringing", "done", "failed")

LegTimeout(l) == LegGoes(l, "ringing", "done", "no-answer")

\* hangupCh, also after its document.
LegHungUp(l) ==
  /\ "hangup" \in closed[l]
  /\ \E p \in {"ringing", "playing"} : LegGoes(l, p, "done", "completed")

\* <Hangup/> in the document of the leg, or an error: hangupCh stays open.
LegStops(l) ==
  /\ l \in Documents
  /\ \E s \in {"completed", "failed"} : LegGoes(l, "playing", "done", s)

LegShutdown(l) ==
  /\ shutdown
  /\ \E p \in {"ringing", "playing"} : LegGoes(l, p, "done", status[l])
-----------------------------------------------------------------------------
(* The Engine's methods *)

\* AnswerCall, SetCallBusy, SetCallFailed
Signal(l, ch) ==
  /\ ch \in Requests
  /\ run[l] # "none" /\ status[l] = "ringing"
  /\ closed' = [closed EXCEPT ![l] = @ \union {ch}]
  /\ UNCHANGED <<dialVars, made, monitor, statusCh, run, status, outVars>>

HangupLeg(l) ==
  /\ "hangup" \in Requests
  /\ run[l] # "none"
  /\ SetStatus(l, "completed")
  /\ HangupLegs({l})
  /\ UNCHANGED <<dialVars, made, monitor, statusCh, run, outVars>>

Hangup ==
  /\ hungup' = TRUE
  /\ UNCHANGED <<dialVars, made, monitor, statusCh, legVars, urlCh, shutdown>>

\* UpdateCall with a new URL: no select of executeDialNumber takes the token.
UpdateUrl ==
  /\ "url" \in Requests
  /\ urlCh' = TRUE
  /\ UNCHANGED <<dialVars, made, monitor, statusCh, legVars, hungup, shutdown>>

Close ==
  /\ "close" \in Requests
  /\ shutdown' = TRUE
  /\ UNCHANGED <<dialVars, made, monitor, statusCh, legVars, hungup, urlCh>>
-----------------------------------------------------------------------------
\* What the goroutine of the dialing call does of itself.
Dialing ==
  \/ \E l \in Legs : Spawn(l) \/ SpawnFails(l)
  \/ Spawned \/ Joined
  \/ WaitEnds \/ HearAnswer \/ HearRefusal
  \/ BridgeEnds \/ BridgeShutdown
  \/ (hungup \/ shutdown) /\ Reported

Creating(l) == Create(l) \/ Track(l)

Monitoring(l) == (\E s \in Signals : MonitorSees(l, s)) \/ MonitorStops(l)

LegStep(l) ==
  LegRings(l) \/ LegAnswered(l) \/ LegRefuses(l) \/ LegHungUp(l) \/ LegShutdown(l)

\* Keys, the clock, and how long documents last.
Choice == Timeout \/ Star \/ Reported \/ \E l \in Legs : LegTimeout(l) \/ LegStops(l)

Api ==
  \/ \E l \in Legs : HangupLeg(l) \/ \E ch \in Signals \ {"hangup"} : Signal(l, ch)
  \/ Hangup \/ UpdateUrl \/ Close

Next ==
  \/ Dialing \/ Choice \/ Api
  \/ \E l \in Legs : Creating(l) \/ Monitoring(l) \/ LegStep(l)

Spec == Init /\ [][Next]_vars

\* The goroutines are scheduled.  Keys, timeouts and the progress of
\* documents are not assumed, but the document of the action is left when the
\* call is hung up, as executeTwiML looks at hangupCh before each node.
FairSpec ==
  /\ Spec
  /\ WF_vars(Dialing)
  /\ \A l \in Legs : WF_vars(Creating(l)) /\ WF_vars(Monitoring(l)) /\ WF_vars(LegStep(l))
-----------------------------------------------------------------------------
\* childStatusCh has room for every monitor, so that none of them blocks.
TypeOK ==
  /\ dial \in DialPoints
  /\ told \in {"none", "no-answer", "busy", "failed", "answered"}
  /\ answered \in Legs \union {None}
  /\ heard \in [Legs -> {"none", "answer", "busy", "failed"}]
  /\ made \in [Legs -> {"none", "creating", "created", "tracked", "refused"}]
  /\ monitor \in [Legs -> {"none", "watching", "gone"}]
  /\ statusCh \in Seq([leg : Legs, saw : Signals \ {"hangup"}])
  /\ Len(statusCh) <= Cardinality(Tracked)
  /\ run \in [Legs -> {"none", "created", "ringing", "playing", "done"}]
  /\ status \in [Legs -> Statuses]
  /\ closed \in [Legs -> SUBSET Signals]
  /\ hungup \in BOOLEAN /\ urlCh \in BOOLEAN /\ shutdown \in BOOLEAN

Living == {l \in Legs : run[l] \in {"created", "ringing", "playing"}}

\* When the Dial is over, every leg that it waited for and that still runs has
\* been told to hang up, whichever way the Dial and the other legs ended.
LegsAreHungUp ==
  dial = "over" => \A l \in Living : monitor[l] # "none" => "hangup" \in closed[l]

\* The DialCallStatus that the action URL is told rests on what was done to
\* the legs: busy when all of them were, failed when one was and all of them
\* refused, answered when the leg it is bridged with was.
OutcomeHasReason ==
  /\ told = "busy" => \A l \in Tracked : "busy" \in closed[l]
  /\ told = "failed" => /\ \E l \in Tracked : "failed" \in closed[l]
                        /\ \A l \in Tracked : closed[l] \intersect {"busy", "failed"} # {}
  /\ told = "answered" => "answer" \in closed[answered]

\* Every monitor is heard: when each leg was answered or has refused, the
\* wait is over.
RefusalsEndWait ==
  (dial = "waiting" /\ \A l \in Tracked : closed[l] \ {"hangup"} # {}) ~> dial # "waiting"

\* The legs that lost the race for the answer end while the winner talks.
LosersEnd ==
  \A l \in Legs :
    (dial = "talking" /\ l \in Tracked \ {answered}) ~> run[l] = "done"

\* A hangup of the dialing call ends the Dial from every point, and then all
\* of its legs: nobody is left ringing.
HangupEndsDial == hungup ~> dial = "over" /\ \A l \in Legs : run[l] \in {"none", "done"}

\* No monitor outlives a call that was hung up.
MonitorsExit == hungup ~> [](\A l \in Legs : monitor[l] # "watching")
-----------------------------------------------------------------------------
(* What the comments of the code say, and it does not do *)

\* "Cleanup function to hangup all child calls": the legs include those that
\* were being created when the url of another did not resolve.
NoOrphanLegs == dial = "over" => \A l \in Living : "hangup" \in closed[l]

\* "Wait for first answer or all children to complete": when no leg lives any
\* more the wait ends, without the help of the clock.
CompletedLegsEndWait ==
  (dial = "waiting" /\ \A l \in Tracked : run[l] = "done") ~> dial # "waiting"

\* "Wait for bridge to end (either party hangs up or HangupOnStar)": a bridge
\* ends with the leg that it is with.
LegEndsBridge ==
  (dial = "talking" /\ run[answered] = "done") ~> dial # "talking"

\* "One call answered! Break out and proceed with bridging": the leg that the
\* call is bridged with has not refused it.
AnsweredLegIsNotBusy == dial = "talking" => status[answered] # "busy"

\* "If URL was updated, signal the runner to fetch and execute new TwiML":
\* UpdateCall gets a call out of a bridge, as it does out of a queue.
UrlUpdateEndsBridge == (dial = "talking" /\ urlCh) ~> dial # "talking"

\* A leg does not answer when the Dial has said that none did.
NoLateAnswer ==
  [][\A l \in Legs :
       told \in {"no-answer", "busy", "failed"} /\ status'[l] = "in-progress"
         => status[l] = "in-progress"]_vars
=============================================================================
