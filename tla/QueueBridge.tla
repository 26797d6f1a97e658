---------------------------- MODULE QueueBridge ----------------------------
(***************************************************************************)
(* One call queue and the calls that meet in it (engine/runner.go):        *)
(* dialers execute <Dial><Queue>, callers execute <Enqueue>.  Either looks *)
(* for a waiting member and bridges with it, or joins the queue and waits. *)
(*                                                                         *)
(* The lookup and the join are separate critical sections of state.mu, and *)
(* the two ends of a bridge talk through channels of capacity one with     *)
(* sends that never block.                                                 *)
(***************************************************************************)
EXTENDS VerbRunner, SequencesExt

CONSTANTS
  Dialers,       \* the calls whose TwiML dials the queue
  HangupOnStar,  \* the dialers whose Dial has hangupOnStar
  None           \* no call

Callers == Calls \ Dialers

ASSUME CallsAssumption == Dialers \subseteq Calls /\ None \notin Calls
ASSUME StarAssumption  == HangupOnStar \subseteq Dialers

VARIABLES
  members,      \* Queue.Members
  partner,      \* targetCallSID, or the partnerSID of a dequeueResult
  dequeueCh,    \* who has put a dequeueResult into a call's dequeueCh
  bridgeEndCh   \* the calls with a token in bridgeEndCh

queueVars == <<members, partner, dequeueCh, bridgeEndCh>>
vars == <<runnerVars, queueVars>>

Points == {"running", "holding", "looking", "signalling", "talking",
           "joining", "waiting", "leaving", "bridged", "gone"}

Init ==
  /\ InitRunners
  /\ members = <<>>
  /\ partner = [c \in Calls |-> None]
  /\ dequeueCh = [c \in Calls |-> None]
  /\ bridgeEndCh = {}
-----------------------------------------------------------------------------
(* executeDialQueue and executeEnqueue *)

\* An Enqueue executes its wait document before anything else.
StartVerb(c) ==
  /\ ReachVerb(c, IF c \in Dialers THEN "looking" ELSE "holding")
  /\ UNCHANGED queueVars

\* Under RLock: is anyone waiting?
Look(c) ==
  /\ Move(c, "looking", IF members = <<>> THEN "joining" ELSE "signalling")
  /\ partner' = [partner EXCEPT ![c] = IF members = <<>> THEN None ELSE Head(members)]
  /\ UNCHANGED <<members, dequeueCh, bridgeEndCh>>

\* bridgeWithQueueMember, bridgeEnqueueWithAgent: the send is dropped when
\* the member has a dequeueResult already, and the call talks to it anyway.
Signal(c) ==
  /\ Move(c, "signalling", "talking")
  /\ dequeueCh' = [dequeueCh EXCEPT ![partner[c]] = IF @ = None THEN c ELSE @]
  /\ UNCHANGED <<members, partner, bridgeEndCh>>

\* waitInDialQueue, waitInEnqueue
Join(c) ==
  /\ Move(c, "joining", "waiting")
  /\ members' = Append(members, c)
  /\ UNCHANGED <<partner, dequeueCh, bridgeEndCh>>

\* The select of a waiting member.
WaitEndsOnHangup(c) ==   \* a mutant of WaitEnds
  /\ c \in hungup
  /\ Move(c, "waiting", "leaving")
  /\ UNCHANGED queueVars

WaitEndsOnShutdown(c) ==   \* a mutant of WaitEnds
  /\ shutdown
  /\ Move(c, "waiting", "leaving")
  /\ UNCHANGED queueVars

WaitEnds(c) ==
  /\ shutdown \/ c \in hungup
  /\ Move(c, "waiting", "leaving")
  /\ UNCHANGED queueVars

\* Dial only: its timeout, or the star key.
WaitGivenUp(c) ==
  /\ c \in Dialers
  /\ Move(c, "waiting", "leaving")
  /\ UNCHANGED queueVars

WaitUrlUpdated(c) == TakeUrl(c, "waiting", "leaving") /\ UNCHANGED queueVars

Dequeued(c) ==
  /\ dequeueCh[c] # None
  /\ Move(c, "waiting", "leaving")
  /\ partner' = [partner EXCEPT ![c] = dequeueCh[c]]
  /\ dequeueCh' = [dequeueCh EXCEPT ![c] = None]
  /\ UNCHANGED <<members, bridgeEndCh>>

\* removeFromQueue; a member that was dequeued goes on to the bridge.
LeaveForBridgeOnly(c) ==   \* a mutant of Leave
  /\ Move(c, "leaving", IF partner[c] = None THEN "running" ELSE "bridged")
  /\ members' = IF partner[c] = None THEN members ELSE RemoveFirst(members, c)
  /\ UNCHANGED <<partner, dequeueCh, bridgeEndCh>>

Leave(c) ==
  /\ Move(c, "leaving", IF partner[c] = None THEN "running" ELSE "bridged")
  /\ members' = RemoveFirst(members, c)
  /\ UNCHANGED <<partner, dequeueCh, bridgeEndCh>>
-----------------------------------------------------------------------------
(* The selects of the two ends of a bridge; the recording and action       *)
(* callbacks that follow are part of "running".                            *)

BridgePoints == {"talking", "bridged"}

NotifyNobody(c) == bridgeEndCh' = bridgeEndCh   \* a mutant of NotifyPartner

NotifyPartner(c) == bridgeEndCh' = bridgeEndCh \union {partner[c]}

\* hangupCh, or the star key.
BridgeHangup(c, p) ==
  /\ c \in hungup \/ c \in HangupOnStar
  /\ Move(c, p, "running")
  /\ NotifyPartner(c)
  /\ UNCHANGED <<members, partner, dequeueCh>>

BridgeUrlUpdated(c, p) ==
  /\ TakeUrl(c, p, "running")
  /\ NotifyPartner(c)
  /\ UNCHANGED <<members, partner, dequeueCh>>

PartnerHungUp(c, p) ==
  /\ c \in bridgeEndCh
  /\ Move(c, p, "running")
  /\ bridgeEndCh' = bridgeEndCh \ {c}
  /\ UNCHANGED <<members, partner, dequeueCh>>

BridgeShutdown(c, p) ==
  /\ shutdown
  /\ Move(c, p, "running")
  /\ UNCHANGED queueVars
-----------------------------------------------------------------------------
BridgeEnds(c) ==
  \E p \in BridgePoints :
    \/ BridgeHangup(c, p) /\ c \in hungup
    \/ BridgeUrlUpdated(c, p) \/ PartnerHungUp(c, p) \/ BridgeShutdown(c, p)

\* What the goroutine of a call does of itself ...
Step(c) ==
  \/ HoldEnds(c, "looking") /\ (shutdown \/ c \in hungup) /\ UNCHANGED queueVars
  \/ Look(c) \/ Signal(c) \/ Join(c)
  \/ WaitEnds(c) \/ WaitUrlUpdated(c) \/ Dequeued(c) \/ Leave(c)
  \/ BridgeEnds(c)
  \/ (HangsUp(c) \/ ShutsDown(c)) /\ UNCHANGED queueVars

\* ... and what depends on documents, webhooks, keys and the clock.
Choice(c) ==
  \/ StartVerb(c)
  \/ (Between(c) \/ Hold(c, "looking")) /\ UNCHANGED queueVars
  \/ WaitGivenUp(c)
  \/ \E p \in BridgePoints : BridgeHangup(c, p)

Next ==
  \/ \E c \in Calls : Step(c) \/ Choice(c)
  \/ Api /\ UNCHANGED queueVars

Spec == Init /\ [][Next]_vars

\* Goroutines are scheduled, and select does not pass over a ready case for
\* ever.  Keys, timeouts and the progress of documents are not assumed.
FairSpec ==
  /\ Spec
  /\ \A c \in Calls : WF_vars(Step(c)) /\ SF_vars(HangsUp(c) /\ UNCHANGED queueVars)
-----------------------------------------------------------------------------
\* No call is ever its own partner: it looks only while it is not a member.
TypeOK ==
  /\ RunnersOK(Points)
  /\ members \in Seq(Calls)
  /\ partner \in [Calls -> Calls \union {None}]
  /\ \A c \in Calls : partner[c] # c
  /\ dequeueCh \in [Calls -> Calls \union {None}]
  /\ bridgeEndCh \subseteq Calls

\* Queue.Members lists exactly the calls that wait in the queue, each once,
\* however the waits end: removeFromQueue deletes only one occurrence.
MembersAreWaiting ==
  /\ ToSet(members) = {c \in Calls : pc[c] \in {"waiting", "leaving"}}
  /\ IsInjective(members)

\* A call that was dequeued into a bridge is never left alone in it: its
\* partner is talking to it, or the token that ends the bridge has arrived.
\* (When it is the first bridge of both; StaleBridgeEnd below shows why.)
NotLeftAlone ==
  \A c, d \in Calls :
    /\ pc[c] = "bridged" /\ partner[c] = d /\ ~shutdown
    /\ verbs[c] = 1 /\ verbs[d] = 1
    => c \in bridgeEndCh \/ (pc[d] = "talking" /\ partner[d] = c)

\* A call that is hung up returns, wherever it is in the queue or in a bridge.
HangupEndsCall == \A c \in Calls : c \in hungup ~> pc[c] = "gone"

\* Close empties the queue for good: no member waits for a dead engine.
ShutdownEmptiesQueue == shutdown ~> [](members = <<>>)
-----------------------------------------------------------------------------
(* What the comments of the code say, and it does not do *)

\* bridgeEndCh "signals bridge partner has hung up": a call that talks to a
\* member leaves the bridge when that member is hung up.
HangupEndsBridge ==
  \A c, d \in Calls :
    pc[c] = "talking" /\ partner[c] = d /\ d \in hungup ~> pc[c] # "talking"

\* A waiting call is bridged with one other call: executeDialQueue takes "the
\* first waiting caller" for each dialer.
OneBridgePerMember ==
  \A c, d \in Calls :
    c # d /\ pc[c] = "talking" /\ pc[d] = "talking" => partner[c] # partner[d]

\* executeEnqueue bridges with "waiting agents (from Dial Queue)".
CallersMeetAgents ==
  \A c \in Callers : pc[c] = "talking" => partner[c] \in Dialers

\* executeDialQueue, "If there's a waiting caller, bridge with them; if no
\* waiting caller, join queue and wait": the two kinds never wait together.
NoMissedMatch ==
  ~ \E d \in Dialers, c \in Callers : {c, d} \subseteq ToSet(members)

\* "Target call hung up, end this bridge": a call does not take a token from
\* bridgeEndCh while the member that it bridged with stays with it.
StaleBridgeEnd ==
  [][\A c \in Calls :
       pc[c] = "talking" /\ c \in bridgeEndCh /\ c \notin bridgeEndCh' =>
         LET d == partner[c] IN pc[d] = "bridged" => partner[d] # c]_vars

\* The error of executeHangup is the "signal to stop execution": a call that
\* its own document completed does not wait in the queue.
CompletedCallsStop == \A c \in stopped : pc[c] # "waiting"
=============================================================================
