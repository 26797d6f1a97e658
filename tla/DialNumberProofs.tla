--------------------------- MODULE DialNumberProofs ---------------------------
(***************************************************************************)
(* Proofs about DialNumber for any number of legs: the type invariant with *)
(* the room in childStatusCh, what the reported DialCallStatus rests on,   *)
(* and that the legs are hung up.                                          *)
(***************************************************************************)
EXTENDS DialNumber, Functions, SequenceTheorems, FiniteSetTheorems, TLAPS

\* What a monitor has reported, and the Dial has heard of it, was so.
Reports ==
  /\ \A i \in 1..Len(statusCh) :
       /\ statusCh[i].saw \in closed[statusCh[i].leg]
       /\ monitor[statusCh[i].leg] = "gone"
  /\ \A i, j \in 1..Len(statusCh) : statusCh[i].leg = statusCh[j].leg => i = j
  /\ \A l \in Legs : heard[l] # "none" => heard[l] \in closed[l]

\* What is settled when the legs are created, and while the Dial waits.
Phases ==
  /\ \A l \in Legs : monitor[l] # "none" => made[l] = "tracked"
  /\ dial \in {"spawning", "joining"} => told = "none" /\ \A l \in Legs : monitor[l] = "none"
  /\ dial \in {"waiting", "talking", "reporting"} \/ told # "none" =>
       \A l \in Legs : made[l] \in {"tracked", "refused"}
  /\ dial \in {"waiting", "talking"} => told = "none"
  /\ dial \in {"spawning", "joining", "waiting"} => \A l \in Legs : heard[l] # "answer"
  /\ dial = "talking" => answered \in Legs /\ "answer" \in closed[answered]
  /\ told = "answered" => answered \in Legs

Sightings == [leg : Legs, saw : Signals \ {"hangup"}]

Types ==
  /\ dial \in DialPoints
  /\ told \in {"none", "no-answer", "busy", "failed", "answered"}
  /\ answered \in Legs \union {None}
  /\ heard \in [Legs -> {"none", "answer", "busy", "failed"}]
  /\ made \in [Legs -> {"none", "creating", "created", "tracked", "refused"}]
  /\ monitor \in [Legs -> {"none", "watching", "gone"}]
  /\ statusCh \in Seq(Sightings)
  /\ run \in [Legs -> {"none", "created", "ringing", "playing", "done"}]
  /\ status \in [Legs -> Statuses]
  /\ closed \in [Legs -> SUBSET Signals]
  /\ hungup \in BOOLEAN /\ urlCh \in BOOLEAN /\ shutdown \in BOOLEAN

IInv == Types /\ Reports /\ Phases /\ OutcomeHasReason /\ LegsAreHungUp
-----------------------------------------------------------------------------
(* The runner of a leg and the requests change nothing of the Dial but     *)
(* what the channels of the legs are closed with.                          *)

Outside == UNCHANGED <<dial, told, answered, heard, made, monitor, statusCh>>

LEMMA StatusType ==
  ASSUME status \in [Legs -> Statuses], NEW l \in Legs, NEW new \in Statuses,
         SetStatus(l, new)
  PROVE  status' \in [Legs -> Statuses]
BY DEF SetStatus, Resolve, Statuses, TerminalStatuses

\* A leg's runner: no leg begins to live.
LEMMA LegSteps ==
  ASSUME Types, NEW l \in Legs, LegStep(l) \/ LegTimeout(l) \/ LegStops(l)
  PROVE  /\ Outside /\ UNCHANGED <<closed, hungup, urlCh, shutdown>>
         /\ run' \in [Legs -> {"none", "created", "ringing", "playing", "done"}]
         /\ status' \in [Legs -> Statuses]
         /\ Living' \subseteq Living
<1>1. ASSUME NEW f \in {"created", "ringing", "playing"}, NEW t \in {"ringing", "playing", "done"},
             NEW new \in Statuses, LegGoes(l, f, t, new)
      PROVE  /\ Outside /\ UNCHANGED <<closed, hungup, urlCh, shutdown>>
             /\ run' \in [Legs -> {"none", "created", "ringing", "playing", "done"}]
             /\ status' \in [Legs -> Statuses]
             /\ Living' \subseteq Living
  BY <1>1, StatusType DEF LegGoes, Types, Living, Outside, dialVars, outVars
<1>2. /\ {"ringing", "in-progress", "busy", "failed", "no-answer", "completed"} \subseteq Statuses
      /\ status[l] \in Statuses
  BY DEF Types, Statuses, TerminalStatuses
<1> QED BY <1>1, <1>2 DEF LegStep, LegTimeout, LegStops, LegRings, LegAnswered, LegRefuses,
                          LegHungUp, LegShutdown

\* A request closes channels, and opens none.
LEMMA RequestSteps ==
  ASSUME Types, Api
  PROVE  /\ Outside /\ run' = run
         /\ closed' \in [Legs -> SUBSET Signals]
         /\ \A l \in Legs : closed[l] \subseteq closed'[l]
         /\ status' \in [Legs -> Statuses]
         /\ hungup' \in BOOLEAN /\ urlCh' \in BOOLEAN /\ shutdown' \in BOOLEAN
<1> USE DEF Types, Outside, dialVars, legVars, outVars
<1>1. ASSUME NEW l \in Legs, HangupLeg(l)
      PROVE  /\ Outside /\ run' = run
             /\ closed' \in [Legs -> SUBSET Signals]
             /\ \A m \in Legs : closed[m] \subseteq closed'[m]
             /\ status' \in [Legs -> Statuses]
             /\ UNCHANGED <<hungup, urlCh, shutdown>>
  <2>1. "completed" \in Statuses /\ "hangup" \in Signals
    BY DEF Statuses, TerminalStatuses, Signals
  <2> QED BY <1>1, <2>1, StatusType DEF HangupLeg, HangupLegs
<1>2. ASSUME NEW l \in Legs, NEW ch \in Signals, Signal(l, ch)
      PROVE  /\ Outside /\ run' = run
             /\ closed' \in [Legs -> SUBSET Signals]
             /\ \A m \in Legs : closed[m] \subseteq closed'[m]
             /\ status' = status
             /\ UNCHANGED <<hungup, urlCh, shutdown>>
  BY <1>2 DEF Signal
<1>3. CASE Hangup \/ UpdateUrl \/ Close
  BY <1>3 DEF Hangup, UpdateUrl, Close
<1> QED BY <1>1, <1>2, <1>3 DEF Api

\* Neither disturbs the invariant.
LEMMA OutsideStep ==
  ASSUME IInv, Outside, Types', Living' \subseteq Living,
         \A l \in Legs : closed[l] \subseteq closed'[l]
  PROVE  IInv'
<1>1. Reports' /\ Phases'
  <2>1. ASSUME NEW i \in 1..Len(statusCh)  PROVE statusCh[i].leg \in Legs
    <3>1. statusCh[i] \in Sightings
      BY ElementOfSeq DEF IInv, Types
    <3> QED BY <3>1 DEF Sightings
  <2> QED BY <2>1 DEF IInv, Reports, Phases, Outside
<1>2. OutcomeHasReason'
  <2>1. Tracked' = Tracked /\ Tracked \subseteq Legs
    BY DEF Tracked, Outside
  <2> QED BY <2>1 DEF IInv, Phases, OutcomeHasReason, Outside
<1>3. LegsAreHungUp'
  <2>1. Living \subseteq Legs
    BY DEF Living
  <2> QED BY <2>1 DEF IInv, LegsAreHungUp, Outside
<1> QED BY <1>1, <1>2, <1>3 DEF IInv
-----------------------------------------------------------------------------
(* The steps of the Dial, and of the goroutines that it starts *)

LEMMA HangupLegsType ==
  ASSUME Types, NEW ls \in SUBSET Legs, HangupLegs(ls)
  PROVE  /\ closed' \in [Legs -> SUBSET Signals]
         /\ \A l \in Legs : closed[l] \subseteq closed'[l]
         /\ \A l \in ls : "hangup" \in closed'[l]
BY DEF HangupLegs, Types, Signals

\* Whichever way the Dial ends, it hangs up the legs that it tracks.
LEMMA OverStep ==
  ASSUME IInv, dial \in {"spawning", "waiting", "talking", "reporting"}, dial' = "over",
         HangupLegs(Tracked),
         UNCHANGED <<told, answered, heard, made, monitor, statusCh, run, status, outVars>>
  PROVE  IInv'
<1>1. /\ Tracked \in SUBSET Legs
      /\ closed' \in [Legs -> SUBSET Signals]
      /\ \A l \in Legs : closed[l] \subseteq closed'[l]
      /\ \A l \in Tracked : "hangup" \in closed'[l]
  BY HangupLegsType DEF Tracked, IInv
<1>2. Types'
  BY <1>1 DEF IInv, Types, outVars, DialPoints
<1>3. Reports' /\ Phases'
  <2>1. ASSUME NEW i \in 1..Len(statusCh)  PROVE statusCh[i].leg \in Legs
    <3>1. statusCh[i] \in Sightings
      BY ElementOfSeq DEF IInv, Types
    <3> QED BY <3>1 DEF Sightings
  <2> QED BY <1>1, <2>1 DEF IInv, Reports, Phases
<1>4. OutcomeHasReason'
  <2>1. Tracked' = Tracked
    BY DEF Tracked
  <2> QED BY <1>1, <2>1 DEF IInv, Phases, OutcomeHasReason
<1>5. LegsAreHungUp'
  <2>1. \A l \in Legs : monitor[l] # "none" => l \in Tracked
    BY DEF IInv, Phases, Tracked
  <2> QED BY <1>1, <2>1 DEF LegsAreHungUp, Living
<1> QED BY <1>2, <1>3, <1>4, <1>5 DEF IInv

\* The legs are created.
LEMMA CreationStep ==
  ASSUME IInv, \/ \E l \in Legs : Spawn(l) \/ Create(l) \/ Track(l)
               \/ Spawned \/ Joined
  PROVE  IInv'
<1> USE DEF IInv, dialVars, legVars, outVars
<1>1. ASSUME NEW l \in Legs, Spawn(l) \/ Create(l) \/ Track(l)  PROVE IInv'
  <2>1. Types' /\ Reports' /\ Phases'
    BY <1>1 DEF Spawn, Create, Track, Types, Reports, Phases
  <2>2. OutcomeHasReason'
    <3>1. told = "none"
      BY <1>1 DEF Spawn, Create, Track, Types, Phases
    <3> QED BY <1>1, <3>1 DEF Spawn, Create, Track, OutcomeHasReason
  <2>3. LegsAreHungUp'
    <3>1. monitor[l] = "none"
      BY <1>1 DEF Spawn, Create, Track, Phases, Types
    <3>2. /\ UNCHANGED <<dial, monitor, closed>>
          /\ Living' \subseteq Living \union {l}
      BY <1>1 DEF Spawn, Create, Track, Living, Types
    <3> QED BY <3>1, <3>2 DEF LegsAreHungUp
  <2> QED BY <2>1, <2>2, <2>3
<1>2. CASE Spawned
  BY <1>2 DEF Spawned, Types, Reports, Phases, OutcomeHasReason, LegsAreHungUp, DialPoints,
              Tracked
<1>3. CASE Joined
  <2>1. Types'
    BY <1>3 DEF Joined, Types, DialPoints
  <2>2. Reports' /\ Phases'
    <3>1. \A i \in 1..Len(statusCh) : statusCh[i].leg \in Legs
      <4>1. \A i \in 1..Len(statusCh) : statusCh[i] \in Sightings
        BY ElementOfSeq DEF Types
      <4> QED BY <4>1 DEF Sightings
    <3>2. \A i \in 1..Len(statusCh) : FALSE
      BY <1>3, <3>1 DEF Joined, Reports, Phases
    <3> QED BY <1>3, <3>2 DEF Joined, Reports, Phases, Tracked, Types
  <2>3. OutcomeHasReason' /\ LegsAreHungUp'
    BY <1>3 DEF Joined, Phases, OutcomeHasReason, LegsAreHungUp
  <2> QED BY <2>1, <2>2, <2>3
<1> QED BY <1>1, <1>2, <1>3

\* The head of childStatusCh is a true report of a leg; the rest stay true.
LEMMA Sighted ==
  ASSUME Types, Reports, statusCh # <<>>
  PROVE  /\ Head(statusCh) \in Sightings /\ Tail(statusCh) \in Seq(Sightings)
         /\ Head(statusCh).saw \in closed[Head(statusCh).leg]
         /\ \A i \in 1..Len(Tail(statusCh)) :
              /\ Tail(statusCh)[i].leg \in Legs
              /\ Tail(statusCh)[i].saw \in closed[Tail(statusCh)[i].leg]
              /\ monitor[Tail(statusCh)[i].leg] = "gone"
         /\ \A i, j \in 1..Len(Tail(statusCh)) :
              Tail(statusCh)[i].leg = Tail(statusCh)[j].leg => i = j
<1>1. /\ Head(statusCh) \in Sightings /\ Tail(statusCh) \in Seq(Sightings)
      /\ Len(Tail(statusCh)) = Len(statusCh) - 1 /\ Len(statusCh) \in Nat
      /\ \A i \in 1..Len(Tail(statusCh)) : Tail(statusCh)[i] = statusCh[i + 1]
  BY HeadTailProperties, LenProperties DEF Types
<1>2. Len(statusCh) # 0 /\ Head(statusCh) = statusCh[1]
  BY EmptySeq DEF Types
<1>3. \A i \in 1..Len(Tail(statusCh)) : i + 1 \in 1..Len(statusCh)
  BY <1>1
<1>4. \A i \in 1..Len(Tail(statusCh)) : Tail(statusCh)[i] \in Sightings
  BY <1>1, ElementOfSeq
<1>5. 1 \in 1..Len(statusCh)
  BY <1>1, <1>2
<1> HIDE DEF Types
<1>6. Head(statusCh).saw \in closed[Head(statusCh).leg]
  BY <1>2, <1>5 DEF Reports
<1>7. ASSUME NEW i \in 1..Len(Tail(statusCh))
      PROVE  /\ Tail(statusCh)[i].leg \in Legs
             /\ Tail(statusCh)[i].saw \in closed[Tail(statusCh)[i].leg]
             /\ monitor[Tail(statusCh)[i].leg] = "gone"
  BY <1>1, <1>3, <1>4 DEF Reports, Sightings
<1>8. ASSUME NEW i \in 1..Len(Tail(statusCh)), NEW j \in 1..Len(Tail(statusCh)),
             Tail(statusCh)[i].leg = Tail(statusCh)[j].leg
      PROVE  i = j
  <2>1. i + 1 = j + 1
    BY <1>1, <1>3, <1>8 DEF Reports
  <2> QED BY <2>1
<1> QED BY <1>1, <1>6, <1>7, <1>8

LEMMA MonitorStep ==
  ASSUME IInv, NEW l \in Legs, Monitoring(l)
  PROVE  IInv'
<1> USE DEF IInv, dialVars, legVars, outVars
<1>1. CASE MonitorStops(l)
  <2>1. Types'
    BY <1>1 DEF MonitorStops, Types
  <2>2. Reports'
    BY <1>1 DEF MonitorStops, Reports, Types
  <2>3. Phases' /\ OutcomeHasReason' /\ LegsAreHungUp'
    BY <1>1 DEF MonitorStops, Types, Phases, OutcomeHasReason, LegsAreHungUp, Tracked, Living
  <2> QED BY <2>1, <2>2, <2>3
<1>2. ASSUME NEW s \in Signals, MonitorSees(l, s)  PROVE IInv'
  <2> DEFINE e == [leg |-> l, saw |-> s]
  <2>1. e \in Sightings /\ e.leg = l /\ e.saw = s
    BY <1>2 DEF MonitorSees, Sightings
  <2>2. /\ statusCh' \in Seq(Sightings) /\ Len(statusCh') = Len(statusCh) + 1
        /\ Len(statusCh) \in Nat
        /\ \A i \in 1..Len(statusCh) : statusCh'[i] = statusCh[i]
        /\ statusCh'[Len(statusCh) + 1] = e
    BY <1>2, <2>1, AppendProperties, LenProperties DEF MonitorSees, Types
  <2>3. \A i \in 1..Len(statusCh) : statusCh[i].leg # l
    BY <1>2 DEF MonitorSees, Reports
  <2>4. \A i \in 1..Len(statusCh') : i \in 1..Len(statusCh) \/ i = Len(statusCh) + 1
    BY <2>2
  <2> HIDE DEF e
  <2>5. Types'
    BY <1>2, <2>2 DEF MonitorSees, Types
  <2>6. Reports'
    <3>1. /\ monitor' = [monitor EXCEPT ![l] = "gone"] /\ s \in closed[l]
          /\ UNCHANGED <<closed, heard>> /\ monitor \in [Legs -> {"none", "watching", "gone"}]
      BY <1>2 DEF MonitorSees, Types
    <3>2. ASSUME NEW i \in 1..Len(statusCh')
          PROVE  /\ statusCh'[i].saw \in closed[statusCh'[i].leg]
                 /\ monitor'[statusCh'[i].leg] = "gone"
      <4>1. CASE i \in 1..Len(statusCh)
        BY <2>2, <3>1, <4>1 DEF Reports
      <4>2. CASE i = Len(statusCh) + 1
        BY <2>1, <2>2, <3>1, <4>2
      <4> QED BY <2>4, <4>1, <4>2
    <3>3. ASSUME NEW i \in 1..Len(statusCh'), NEW j \in 1..Len(statusCh'),
                 statusCh'[i].leg = statusCh'[j].leg
          PROVE  i = j
      <4>1. CASE i \in 1..Len(statusCh) /\ j \in 1..Len(statusCh)
        BY <2>2, <3>3, <4>1 DEF Reports
      <4>2. CASE i = Len(statusCh) + 1 \/ j = Len(statusCh) + 1
        BY <2>1, <2>2, <2>3, <2>4, <3>3, <4>2
      <4> QED BY <2>4, <4>1, <4>2
    <3> QED BY <3>1, <3>2, <3>3 DEF Reports
  <2>7. Phases' /\ OutcomeHasReason' /\ LegsAreHungUp'
    BY <1>2 DEF MonitorSees, Types, Phases, OutcomeHasReason, LegsAreHungUp, Tracked, Living
  <2> QED BY <2>5, <2>6, <2>7
<1> QED BY <1>1, <1>2 DEF Monitoring

LEMMA HearAnswerStep == ASSUME IInv, HearAnswer  PROVE IInv'
<1> DEFINE e == Head(statusCh)
<1>0. /\ e \in Sightings /\ e.leg \in Legs /\ e.saw = "answer"
      /\ Tail(statusCh) \in Seq(Sightings)
      /\ "answer" \in closed[e.leg]
  BY Sighted DEF IInv, HearAnswer, Sightings
<1>1. /\ Tracked \ {e.leg} \in SUBSET Legs
      /\ closed' \in [Legs -> SUBSET Signals]
      /\ \A l \in Legs : closed[l] \subseteq closed'[l]
  BY HangupLegsType DEF HearAnswer, IInv, Tracked
<1> USE DEF IInv
<1>2. Types'
  BY <1>0, <1>1 DEF HearAnswer, Types, DialPoints, outVars
<1>3. Reports'
  <2>1. ASSUME NEW i \in 1..Len(Tail(statusCh))
        PROVE  /\ Tail(statusCh)[i].saw \in closed'[Tail(statusCh)[i].leg]
               /\ monitor'[Tail(statusCh)[i].leg] = "gone"
    BY <1>1, Sighted DEF HearAnswer
  <2>2. ASSUME NEW l \in Legs, heard'[l] # "none"  PROVE heard'[l] \in closed'[l]
    BY <1>0, <1>1, <2>2 DEF HearAnswer, Reports, Types
  <2> QED BY <2>1, <2>2, Sighted DEF HearAnswer, Reports
<1>4. Phases' /\ OutcomeHasReason' /\ LegsAreHungUp'
  <2> HIDE DEF e
  <2>1. /\ dial = "waiting" /\ dial' = "talking" /\ answered' = e.leg
        /\ UNCHANGED <<told, made, monitor>>
    BY DEF HearAnswer, e
  <2> QED BY <1>0, <1>1, <2>1 DEF Phases, OutcomeHasReason, LegsAreHungUp
<1> QED BY <1>2, <1>3, <1>4

LEMMA HearRefusalStep == ASSUME IInv, HearRefusal  PROVE IInv'
<1> DEFINE e == Head(statusCh)
<1>0. /\ e \in Sightings /\ e.leg \in Legs /\ e.saw \in {"busy", "failed"}
      /\ Tail(statusCh) \in Seq(Sightings)
      /\ e.saw \in closed[e.leg]
  BY Sighted DEF IInv, HearRefusal, Sightings, Signals
<1> USE DEF IInv, legVars, outVars
<1>1. /\ heard' = [heard EXCEPT ![e.leg] = e.saw]
      /\ heard' \in [Legs -> {"none", "answer", "busy", "failed"}]
      /\ \A l \in Legs : heard'[l] # "answer"
      /\ \A l \in Legs : heard'[l] # "none" => heard'[l] \in closed[l]
      /\ dial = "waiting" /\ told = "none"
  BY <1>0 DEF HearRefusal, Types, Phases, Reports
<1>2. Types'
  BY <1>0, <1>1 DEF HearRefusal, Types, DialPoints, Outcome
<1>3. Reports'
  BY <1>1, Sighted DEF HearRefusal, Reports
<1>4. Phases'
  BY <1>1 DEF HearRefusal, Phases, Outcome
<1>5. OutcomeHasReason'
  <2>1. Tracked' = Tracked /\ Tracked \subseteq Legs /\ closed' = closed
    BY DEF HearRefusal, Tracked
  <2>2. CASE told' = told
    BY <1>1, <2>2 DEF OutcomeHasReason
  <2>3. CASE /\ \A l \in Tracked : heard'[l] # "none"
             /\ told' = Outcome(heard')
    <3>1. \A l \in Tracked : heard'[l] \in {"busy", "failed"} /\ heard'[l] \in closed[l]
      BY <1>1, <2>1, <2>3
    <3>2. told' = "busy" => \A l \in Tracked : heard'[l] = "busy"
      BY <2>3 DEF Outcome
    <3>3. told' = "failed" => \E l \in Tracked : heard'[l] = "failed"
      BY <2>3 DEF Outcome
    <3>4. told' # "answered"
      BY <2>3 DEF Outcome
    <3> QED BY <2>1, <3>1, <3>2, <3>3, <3>4 DEF OutcomeHasReason
  <2> QED BY <2>2, <2>3 DEF HearRefusal
<1>6. LegsAreHungUp'
  BY <1>1 DEF HearRefusal, LegsAreHungUp
<1> QED BY <1>2, <1>3, <1>4, <1>5, <1>6

LEMMA TimeoutStep == ASSUME IInv, Timeout  PROVE IInv'
<1> USE DEF IInv, Timeout, legVars, outVars
<1>1. Types' /\ Reports' /\ Phases'
  BY DEF Types, Reports, Phases, DialPoints
<1>2. OutcomeHasReason' /\ LegsAreHungUp'
  BY DEF OutcomeHasReason, LegsAreHungUp, Tracked
<1> QED BY <1>1, <1>2

LEMMA BridgeEndsStep == ASSUME IInv, BridgeEnds  PROVE IInv'
<1> USE DEF IInv, BridgeEnds, outVars
<1>1. /\ {answered} \in SUBSET Legs /\ "answer" \in closed[answered]
      /\ closed' \in [Legs -> SUBSET Signals]
      /\ \A l \in Legs : closed[l] \subseteq closed'[l]
  BY HangupLegsType DEF Phases
<1>2. Types' /\ Phases'
  BY <1>1 DEF Types, Phases, DialPoints
<1>3. Reports'
  <2>1. ASSUME NEW i \in 1..Len(statusCh)  PROVE statusCh[i].leg \in Legs
    <3>1. statusCh[i] \in Sightings
      BY ElementOfSeq DEF Types
    <3> QED BY <3>1 DEF Sightings
  <2> QED BY <1>1, <2>1 DEF Reports
<1>4. OutcomeHasReason' /\ LegsAreHungUp'
  BY <1>1 DEF OutcomeHasReason, LegsAreHungUp
<1> QED BY <1>2, <1>3, <1>4
-----------------------------------------------------------------------------
LEMMA InitIInv == ASSUME Init  PROVE IInv
<1>1. Types
  <2>1. statusCh \in Seq(Sightings)
    BY EmptySeq DEF Init
  <2> QED BY <2>1 DEF Init, Types, DialPoints, Statuses, Signals
<1>2. Reports
  BY EmptySeq DEF Init, Reports
<1> QED BY <1>1, <1>2 DEF Init, IInv, Phases, OutcomeHasReason, LegsAreHungUp

LEMMA NextIInv == ASSUME IInv, [Next]_vars  PROVE IInv'
<1>1. CASE Dialing \/ Timeout \/ Star \/ Reported
  <2>1. CASE \/ \E l \in Legs : SpawnFails(l)
             \/ WaitEnds \/ BridgeShutdown \/ Star \/ Reported
    BY <2>1, OverStep DEF SpawnFails, WaitEnds, BridgeShutdown, Star, Reported
  <2> QED BY <1>1, <2>1, CreationStep, HearAnswerStep, HearRefusalStep, TimeoutStep,
             BridgeEndsStep DEF Dialing
<1>2. ASSUME NEW l \in Legs, LegStep(l) \/ LegTimeout(l) \/ LegStops(l)  PROVE IInv'
  <2>1. Outside /\ Types' /\ Living' \subseteq Living /\ closed' = closed
    BY <1>2, LegSteps DEF IInv, Types, Outside
  <2> QED BY <2>1, OutsideStep
<1>3. CASE Api
  <2>1. /\ Outside /\ Types' /\ Living' \subseteq Living
        /\ \A l \in Legs : closed[l] \subseteq closed'[l]
    BY <1>3, RequestSteps DEF IInv, Types, Outside, Living
  <2> QED BY <2>1, OutsideStep
<1>4. CASE UNCHANGED vars
  <2>1. Outside /\ Types' /\ Living' \subseteq Living /\ closed' = closed
    BY <1>4 DEF vars, dialVars, legVars, outVars, IInv, Types, Outside, Living
  <2> QED BY <2>1, OutsideStep
<1>5. ASSUME NEW l \in Legs, Creating(l) \/ Monitoring(l)  PROVE IInv'
  BY <1>5, CreationStep, MonitorStep DEF Creating
<1> QED BY <1>1, <1>2, <1>3, <1>4, <1>5 DEF Next, Choice

\* The invariant, from which the theorems below follow.
THEOREM Invariant == Spec => []IInv
<1>1. Init => IInv
  BY InitIInv
<1>2. IInv /\ [Next]_vars => IInv'
  BY NextIInv
<1> QED BY <1>1, <1>2, PTL DEF Spec

\* Every monitor reports once, about a leg of its own.
LEMMA EveryReportHasRoom == ASSUME IInv  PROVE Len(statusCh) <= Cardinality(Tracked)
<1> DEFINE n == Len(statusCh)
           leg == [i \in 1..n |-> statusCh[i].leg]
<1>1. n \in Nat /\ IsFiniteSet(1..n) /\ Cardinality(1..n) = n
  <2>1. n \in Nat
    BY LenProperties DEF IInv, Types
  <2> HIDE DEF n
  <2>2. IsFiniteSet(1..n) /\ Cardinality(1..n) = IF 1 > n THEN 0 ELSE n - 1 + 1
    BY <2>1, FS_Interval
  <2> QED BY <2>1, <2>2
<1>2. IsFiniteSet(Tracked)
  BY LegsAssumption, FS_Subset DEF Tracked
<1>3. ASSUME NEW i \in 1..n  PROVE statusCh[i].leg \in Tracked
  <2>1. statusCh[i] \in Sightings
    BY ElementOfSeq DEF IInv, Types
  <2> QED BY <2>1 DEF IInv, Reports, Phases, Sightings, Tracked
<1>4. leg \in Injection(1..n, Tracked)
  BY <1>3 DEF Injection, IsInjective, IInv, Reports
<1> HIDE DEF n, leg
<1> QED BY <1>1, <1>2, <1>4, FS_Injection DEF n

\* Every variable keeps its type, and childStatusCh has room for what every
\* monitor reports, for any number of legs: no monitor blocks.
THEOREM TypeCorrect == Spec => []TypeOK
<1>1. IInv => TypeOK
  BY EveryReportHasRoom DEF IInv, Types, TypeOK, Sightings
<1> QED BY <1>1, Invariant, PTL

\* The DialCallStatus that the action URL is told rests on what was done to
\* the legs, for any number of legs and whatever the order of their verdicts.
THEOREM OutcomesHaveReasons == Spec => []OutcomeHasReason
BY Invariant, PTL DEF IInv

\* However the Dial ends, every leg that it waited for and that still runs has
\* been told to hang up, for any number of legs.
THEOREM LegsOfADialAreHungUp == Spec => []LegsAreHungUp
BY Invariant, PTL DEF IInv
=============================================================================
