----------------------------- MODULE VerbRunner -----------------------------
(***************************************************************************)
(* What the runners of several calls do around the verbs that connect      *)
(* calls with each other (engine/runner.go).  QueueBridge and              *)
(* ConferenceRoom extend this module with the points of their verbs; what  *)
(* a call does from one such verb to the next is the point "running" here  *)
(* and is modelled in CallLifecycle.                                       *)
(***************************************************************************)
EXTENDS Naturals

CONSTANTS
  Calls,         \* the calls of one subaccount
  HangupInWait,  \* those whose wait document has a <Hangup/>
  MaxVerbs       \* a bound: the connecting verbs that a call executes

ASSUME WaitAssumption  == HangupInWait \subseteq Calls
ASSUME BoundAssumption == MaxVerbs \in Nat

VARIABLES
  pc,        \* where each call's runner is
  urlCh,     \* the calls with a token in urlUpdateCh
  hungup,    \* the calls whose hangupCh is closed
  stopped,   \* the calls that a <Hangup/> in a wait document completed
  shutdown,  \* is the engine's context cancelled?
  verbs      \* how many connecting verbs each call has reached

runnerVars == <<pc, urlCh, hungup, stopped, shutdown, verbs>>

InitRunners ==
  /\ pc = [c \in Calls |-> "running"]
  /\ urlCh = {} /\ hungup = {} /\ stopped = {} /\ shutdown = FALSE
  /\ verbs = [c \in Calls |-> 0]

Goto(c, from, to) == pc[c] = from /\ pc' = [pc EXCEPT ![c] = to]

\* The runner goes on without touching what it shares with the Engine.
Move(c, from, to) ==
  /\ Goto(c, from, to)
  /\ UNCHANGED <<urlCh, hungup, stopped, shutdown, verbs>>

\* A select takes the token from urlUpdateCh.
TakeUrl(c, from, to) ==
  /\ c \in urlCh
  /\ Goto(c, from, to)
  /\ urlCh' = urlCh \ {c}
  /\ UNCHANGED <<hungup, stopped, shutdown, verbs>>

-----------------------------------------------------------------------------
(* Between the verbs *)

\* executeTwiML looks at the context and at hangupCh before each verb.
ReachVerb(c, to) ==
  /\ ~shutdown /\ c \notin hungup /\ verbs[c] < MaxVerbs
  /\ Goto(c, "running", to)
  /\ verbs' = [verbs EXCEPT ![c] = @ + 1]
  /\ UNCHANGED <<urlCh, hungup, stopped, shutdown>>

\* The document is over: the runner hangs itself up.
DocumentEnds(c) ==
  /\ Goto(c, "running", "running")
  /\ hungup' = hungup \union {c}
  /\ UNCHANGED <<urlCh, stopped, shutdown, verbs>>

HangsUp(c) == c \in hungup /\ Move(c, "running", "gone")

\* An error fails the call, or its document says <Hangup/>.
Breaks(c) == Move(c, "running", "gone")

ShutsDown(c) == shutdown /\ Move(c, "running", "gone")

Between(c) ==
  \/ DocumentEnds(c) \/ HangsUp(c) \/ Breaks(c) \/ ShutsDown(c)
  \/ TakeUrl(c, "running", "running")
-----------------------------------------------------------------------------
(* executeWait, which Enqueue and Dial Conference start with *)

\* The wait document is over, or interrupted by a hangup or by Close.
HoldEnds(c, to) == Move(c, "holding", to)

\* A <Hangup/> in it completes the call, and then executeWait swallows the
\* error that should stop the runner.
HoldHangup(c, to) ==
  /\ c \in HangupInWait \ hungup /\ ~shutdown
  /\ Goto(c, "holding", to)
  /\ stopped' = stopped \union {c}
  /\ UNCHANGED <<urlCh, hungup, shutdown, verbs>>

\* A new URL goes up to the main loop; a wait URL that cannot be fetched
\* fails the call.
Hold(c, to) ==
  \/ HoldEnds(c, to) \/ HoldHangup(c, to)
  \/ TakeUrl(c, "holding", "running")
  \/ Move(c, "holding", "gone")
-----------------------------------------------------------------------------
(* Engine.Hangup, UpdateCall and Close *)

Hangup(c) ==
  /\ hungup' = hungup \union {c}
  /\ UNCHANGED <<pc, urlCh, stopped, shutdown, verbs>>

UpdateUrl(c) ==
  /\ urlCh' = urlCh \union {c}
  /\ UNCHANGED <<pc, hungup, stopped, shutdown, verbs>>

Close ==
  /\ shutdown' = TRUE
  /\ UNCHANGED <<pc, urlCh, hungup, stopped, verbs>>

Api == (\E c \in Calls : Hangup(c) \/ UpdateUrl(c)) \/ Close
-----------------------------------------------------------------------------
\* The type of the runners, for the points of the module that extends this.
RunnersOK(points) ==
  /\ pc \in [Calls -> points]
  /\ urlCh \subseteq Calls /\ hungup \subseteq Calls /\ stopped \subseteq Calls
  /\ shutdown \in BOOLEAN
  /\ verbs \in [Calls -> 0..MaxVerbs]
=============================================================================
