-------------------------- MODULE QueueBridgeProofs --------------------------
(***************************************************************************)
(* Proofs about QueueBridge for any number of calls: the type invariant,   *)
(* that the queue lists exactly the calls that wait in it, and that a call *)
(* that was dequeued into its first bridge is not left alone in it.        *)
(*                                                                         *)
(* A step of the specification has one of a few forms (StepForms), which   *)
(* forget why the step is taken; the invariants are shown to be kept by    *)
(* each form.                                                              *)
(***************************************************************************)
EXTENDS QueueBridge, SequenceTheorems, TLAPS

(* Queue.Members is a list in which nobody is twice: what appending a call *)
(* and removing one do to it.                                              *)

LEMMA AppendToList ==
  ASSUME NEW S, NEW s \in Seq(S), NEW e \in S, IsInjective(s), e \notin ToSet(s)
  PROVE  /\ Append(s, e) \in Seq(S)
         /\ ToSet(Append(s, e)) = ToSet(s) \cup {e}
         /\ IsInjective(Append(s, e))
<1> DEFINE t == Append(s, e)
<1>1. /\ t \in Seq(S) /\ Len(t) = Len(s) + 1
      /\ \A i \in 1..Len(s) : t[i] = s[i]
      /\ t[Len(s) + 1] = e
  BY AppendProperties
<1>2. DOMAIN s = 1..Len(s) /\ DOMAIN t = 1..(Len(s) + 1) /\ Len(s) \in Nat
  BY <1>1, LenProperties
<1>3. \A i \in 1..Len(s) : s[i] # e
  BY <1>2 DEF ToSet
<1> HIDE DEF t
<1>4. ToSet(t) = ToSet(s) \cup {e}
  BY <1>1, <1>2 DEF ToSet
<1>5. IsInjective(t)
  BY <1>1, <1>2, <1>3 DEF IsInjective
<1> QED BY <1>1, <1>4, <1>5 DEF t

\* The list without the element at one place.
LEMMA WithoutPlace ==
  ASSUME NEW S, NEW s \in Seq(S), NEW k \in 1..Len(s)
  PROVE  LET t == RemoveAt(s, k) IN
         /\ t \in Seq(S) /\ DOMAIN t = 1..(Len(s) - 1)
         /\ \A i \in 1..(Len(s) - 1) : t[i] = s[IF i < k THEN i ELSE i + 1]
<1> DEFINE a == SubSeq(s, 1, k - 1)
           b == SubSeq(s, k + 1, Len(s))
<1>1. PICK n \in Nat : n = Len(s) /\ DOMAIN s = 1..n /\ k \in 1..n
  BY LenProperties
<1>2. \A i \in 1..n : s[i] \in S
  BY <1>1, ElementOfSeq
<1>3. /\ a \in Seq(S) /\ Len(a) = IF 1 <= k - 1 THEN k - 1 - 1 + 1 ELSE 0
      /\ \A i \in 1..(k - 1 - 1 + 1) : a[i] = s[1 + i - 1]
  BY <1>1, <1>2, SubSeqProperties
<1>4. /\ b \in Seq(S) /\ Len(b) = IF k + 1 <= n THEN n - (k + 1) + 1 ELSE 0
      /\ \A i \in 1..(n - (k + 1) + 1) : b[i] = s[k + 1 + i - 1]
  BY <1>1, <1>2, SubSeqProperties
<1> HIDE DEF a, b
<1>5. /\ a \o b \in Seq(S) /\ Len(a \o b) = Len(a) + Len(b)
      /\ \A i \in 1..(Len(a) + Len(b)) : (a \o b)[i] = IF i <= Len(a) THEN a[i] ELSE b[i - Len(a)]
  BY <1>3, <1>4, ConcatProperties
<1> DEFINE t == a \o b
<1>6. RemoveAt(s, k) = t
  BY DEF RemoveAt, a, b
<1> HIDE DEF t
<1>7. Len(a) = k - 1 /\ Len(b) = n - k /\ Len(a) + Len(b) = n - 1
  <2>1. k \in Int /\ n \in Int /\ 1 <= k /\ k <= n
    BY <1>1
  <2>2. Len(a) = k - 1
    BY <1>3, <2>1
  <2>3. Len(b) = n - k
    BY <1>4, <2>1
  <2> QED BY <2>1, <2>2, <2>3
<1>8. \A i \in 1..(k - 1) : a[i] = s[i]
  BY <1>1, <1>3
<1>9. \A i \in 1..(n - k) : b[i] = s[k + i]
  BY <1>1, <1>4
<1>10. ASSUME NEW i \in 1..(n - 1)  PROVE t[i] = s[IF i < k THEN i ELSE i + 1]
  <2>1. t[i] = IF i <= k - 1 THEN a[i] ELSE b[i - (k - 1)]
    BY <1>5, <1>7 DEF t
  <2>2. CASE i < k
    BY <1>1, <1>8, <2>1, <2>2
  <2>3. CASE i >= k
    <3>1. PICK j \in 1..(n - k) : j = i - (k - 1) /\ k + j = i + 1
      BY <1>1, <2>3
    <3> QED BY <1>1, <1>9, <2>1, <2>3, <3>1
  <2> QED BY <1>1, <2>2, <2>3
<1>11. t \in Seq(S) /\ DOMAIN t = 1..(n - 1)
  BY <1>5, <1>7, LenProperties DEF t
<1> QED BY <1>1, <1>6, <1>10, <1>11

\* RemoveFirst takes out all there is of a member that is there once.
LEMMA RemoveFromList ==
  ASSUME NEW S, NEW s \in Seq(S), NEW e, IsInjective(s)
  PROVE  /\ RemoveFirst(s, e) \in Seq(S)
         /\ ToSet(RemoveFirst(s, e)) = ToSet(s) \ {e}
         /\ IsInjective(RemoveFirst(s, e))
<1> DEFINE I == {i \in 1..Len(s) : s[i] = e}
<1>0. Len(s) \in Nat /\ DOMAIN s = 1..Len(s)
  BY LenProperties
<1>1. CASE I = {}
  BY <1>0, <1>1 DEF RemoveFirst, ToSet
<1>2. CASE I # {}
  <2>1. PICK k \in I : I = {k}
    BY <1>0, <1>2 DEF IsInjective
  <2>2. Min(I) = k
    BY <2>1 DEF Min
  <2>3. RemoveFirst(s, e) = RemoveAt(s, k)
    BY <1>2, <2>2 DEF RemoveFirst, SelectInSeq
  <2> DEFINE t == RemoveAt(s, k)
             at(i) == IF i < k THEN i ELSE i + 1
  <2>4. /\ t \in Seq(S) /\ DOMAIN t = 1..(Len(s) - 1)
        /\ \A i \in 1..(Len(s) - 1) : t[i] = s[at(i)]
    BY WithoutPlace
  <2>5. /\ \A i \in 1..(Len(s) - 1) : at(i) \in 1..Len(s) /\ at(i) # k
        /\ \A j \in 1..Len(s) \ {k} : \E i \in 1..(Len(s) - 1) : at(i) = j
        /\ \A i, j \in 1..(Len(s) - 1) : at(i) = at(j) => i = j
    <3>1. ASSUME NEW j \in 1..Len(s) \ {k}  PROVE \E i \in 1..(Len(s) - 1) : at(i) = j
      <4>1. j < k => j \in 1..(Len(s) - 1) /\ at(j) = j
        BY <1>0
      <4>2. j > k => j - 1 \in 1..(Len(s) - 1) /\ at(j - 1) = j
        BY <1>0
      <4> QED BY <1>0, <4>1, <4>2
    <3> QED BY <1>0, <3>1
  <2>6. \A j \in 1..Len(s) : s[j] = e <=> j = k
    BY <2>1
  <2> HIDE DEF t, at
  <2>7. ToSet(t) = ToSet(s) \ {e}
    <3>1. \A i \in DOMAIN t : t[i] \in ToSet(s) \ {e}
      BY <1>0, <2>4, <2>5, <2>6 DEF ToSet
    <3>2. \A j \in DOMAIN s : s[j] # e => \E i \in DOMAIN t : t[i] = s[j]
      BY <1>0, <2>4, <2>5, <2>6
    <3> QED BY <3>1, <3>2 DEF ToSet
  <2>8. IsInjective(t)
    <3>1. ASSUME NEW i \in 1..(Len(s) - 1), NEW j \in 1..(Len(s) - 1), t[i] = t[j]  PROVE i = j
      <4>1. s[at(i)] = s[at(j)] /\ at(i) \in 1..Len(s) /\ at(j) \in 1..Len(s)
        BY <2>4, <2>5, <3>1
      <4> QED BY <1>0, <2>5, <4>1 DEF IsInjective
    <3> QED BY <2>4, <3>1 DEF IsInjective
  <2> QED BY <2>3, <2>4, <2>7, <2>8 DEF t
<1> QED BY <1>1, <1>2
-----------------------------------------------------------------------------
(* The invariant *)

PartnersExist ==
  \A c \in Calls : pc[c] \in {"signalling", "talking", "bridged"} => partner[c] \in Calls

NoSelfSignal == \A c \in Calls : dequeueCh[c] # c

IInv == TypeOK /\ PartnersExist /\ NoSelfSignal /\ MembersAreWaiting
-----------------------------------------------------------------------------
(* The forms of a step *)

Rest == <<verbs, shutdown>>

\* Outside of the queue and of bridges.
Drifts(c) ==
  /\ \/ Goto(c, "running", "running") \/ Goto(c, "running", "gone")
     \/ Goto(c, "holding", "looking") \/ Goto(c, "holding", "running")
     \/ Goto(c, "holding", "gone")
  /\ UNCHANGED <<Rest, queueVars>>

GivesUp(c) == Goto(c, "waiting", "leaving") /\ UNCHANGED <<Rest, queueVars>>

\* Out of a bridge: with a token for the partner, with one's own token, or
\* because the engine is closed.
Exits(c) ==
  /\ Goto(c, "talking", "running") \/ Goto(c, "bridged", "running")
  /\ \/ NotifyPartner(c)
     \/ c \in bridgeEndCh /\ bridgeEndCh' = bridgeEndCh \ {c}
     \/ shutdown /\ bridgeEndCh' = bridgeEndCh
  /\ UNCHANGED <<Rest, members, partner, dequeueCh>>

Rests == UNCHANGED <<pc, verbs, queueVars>> /\ (shutdown => shutdown')

\* The form of every step.
LEMMA StepForms ==
  ASSUME [Next]_vars
  PROVE  \/ Rests
         \/ \E c \in Calls :
              \/ Drifts(c) \/ StartVerb(c) \/ Look(c) \/ Signal(c) \/ Join(c)
              \/ GivesUp(c) \/ Dequeued(c) \/ Leave(c) \/ Exits(c)
<1> USE DEF Rest, queueVars
<1>1. ASSUME NEW c \in Calls, Step(c)
      PROVE  \/ Drifts(c) \/ Look(c) \/ Signal(c) \/ Join(c) \/ GivesUp(c)
             \/ Dequeued(c) \/ Leave(c) \/ Exits(c)
  <2>1. CASE HoldEnds(c, "looking") /\ UNCHANGED queueVars
    BY <2>1 DEF HoldEnds, Move, Drifts
  <2>2. CASE WaitEnds(c) \/ WaitUrlUpdated(c)
    BY <2>2 DEF WaitEnds, WaitUrlUpdated, TakeUrl, Move, GivesUp
  <2>3. CASE BridgeEnds(c)
    BY <2>3 DEF BridgeEnds, BridgePoints, BridgeHangup, BridgeUrlUpdated, PartnerHungUp,
                BridgeShutdown, TakeUrl, Move, Exits
  <2>4. CASE (HangsUp(c) \/ ShutsDown(c)) /\ UNCHANGED queueVars
    BY <2>4 DEF HangsUp, ShutsDown, Move, Drifts
  <2> QED BY <1>1, <2>1, <2>2, <2>3, <2>4 DEF Step
<1>2. ASSUME NEW c \in Calls, Choice(c)
      PROVE  Drifts(c) \/ StartVerb(c) \/ GivesUp(c) \/ Exits(c)
  <2>1. CASE Between(c) /\ UNCHANGED queueVars
    BY <2>1 DEF Between, DocumentEnds, HangsUp, Breaks, ShutsDown, TakeUrl, Move, Drifts
  <2>2. CASE Hold(c, "looking") /\ UNCHANGED queueVars
    BY <2>2 DEF Hold, HoldEnds, HoldHangup, TakeUrl, Move, Drifts
  <2>3. CASE WaitGivenUp(c)
    BY <2>3 DEF WaitGivenUp, Move, GivesUp
  <2>4. CASE \E p \in BridgePoints : BridgeHangup(c, p)
    BY <2>4 DEF BridgePoints, BridgeHangup, Move, Exits
  <2> QED BY <1>2, <2>1, <2>2, <2>3, <2>4 DEF Choice
<1>3. CASE Api /\ UNCHANGED queueVars
  BY <1>3 DEF Api, Hangup, UpdateUrl, Close, Rests
<1>4. CASE UNCHANGED vars
  BY <1>4 DEF vars, runnerVars, Rests
<1> QED BY <1>1, <1>2, <1>3, <1>4 DEF Next
-----------------------------------------------------------------------------
(* Types *)

LEMMA RunnersStep ==
  ASSUME RunnersOK(Points), [Next]_vars
  PROVE  RunnersOK(Points)'
<1> USE BoundAssumption DEF RunnersOK, Points, Goto
<1>1. ASSUME NEW c \in Calls, Step(c)  PROVE RunnersOK(Points)'
  <2>1. ASSUME NEW f \in Points, NEW t \in Points, Move(c, f, t)  PROVE RunnersOK(Points)'
    BY <2>1 DEF Move
  <2>2. ASSUME NEW f \in Points, NEW t \in Points, TakeUrl(c, f, t)  PROVE RunnersOK(Points)'
    BY <2>2 DEF TakeUrl
  <2> QED BY <1>1, <2>1, <2>2
       DEF Step, HoldEnds, Look, Signal, Join, WaitEnds, WaitUrlUpdated, Dequeued, Leave,
           BridgeEnds, BridgePoints, BridgeHangup, BridgeUrlUpdated, PartnerHungUp,
           BridgeShutdown, HangsUp, ShutsDown
<1>2. ASSUME NEW c \in Calls, Choice(c)  PROVE RunnersOK(Points)'
  <2>1. CASE StartVerb(c)
    BY <2>1 DEF StartVerb, ReachVerb
  <2>2. CASE Between(c)
    BY <2>2 DEF Between, DocumentEnds, HangsUp, Breaks, ShutsDown, TakeUrl, Move
  <2>3. CASE Hold(c, "looking")
    BY <2>3, WaitAssumption DEF Hold, HoldEnds, HoldHangup, TakeUrl, Move
  <2>4. CASE WaitGivenUp(c) \/ \E p \in BridgePoints : BridgeHangup(c, p)
    BY <2>4 DEF WaitGivenUp, BridgePoints, BridgeHangup, Move
  <2> QED BY <1>2, <2>1, <2>2, <2>3, <2>4 DEF Choice
<1>3. CASE Api
  BY <1>3 DEF Api, Hangup, UpdateUrl, Close
<1>4. CASE UNCHANGED vars
  BY <1>4 DEF vars, runnerVars
<1> QED BY <1>1, <1>2, <1>3, <1>4 DEF Next

-----------------------------------------------------------------------------
LEMMA InitIInv == ASSUME Init  PROVE IInv
<1> USE BoundAssumption, CallsAssumption DEF Init, InitRunners
<1>1. TypeOK
  <2>1. RunnersOK(Points)
    <3>1. "running" \in Points /\ 0 \in 0..MaxVerbs
      BY DEF Points
    <3> QED BY <3>1 DEF RunnersOK
  <2>2. members \in Seq(Calls)
    BY EmptySeq
  <2> QED BY <2>1, <2>2 DEF TypeOK
<1>2. PartnersExist /\ NoSelfSignal
  BY DEF PartnersExist, NoSelfSignal
<1>3. MembersAreWaiting
  BY DEF MembersAreWaiting, ToSet, IsInjective
<1> QED BY <1>1, <1>2, <1>3 DEF IInv

\* The types of the queue and of the bridges.
LEMMA QueueStep ==
  ASSUME IInv, [Next]_vars
  PROVE  /\ members' \in Seq(Calls)
         /\ partner' \in [Calls -> Calls \union {None}]
         /\ dequeueCh' \in [Calls -> Calls \union {None}]
         /\ bridgeEndCh' \subseteq Calls
         /\ (\A c \in Calls : partner[c] # c)'
         /\ PartnersExist' /\ NoSelfSignal'
         /\ MembersAreWaiting'
<1> DEFINE Goal == /\ members' \in Seq(Calls)
                   /\ partner' \in [Calls -> Calls \union {None}]
                   /\ dequeueCh' \in [Calls -> Calls \union {None}]
                   /\ bridgeEndCh' \subseteq Calls
                   /\ \A c \in Calls : partner'[c] # c
                   /\ \A c \in Calls : pc'[c] \in {"signalling", "talking", "bridged"} =>
                                         partner'[c] \in Calls
                   /\ \A c \in Calls : dequeueCh'[c] # c
                   /\ ToSet(members') = {c \in Calls : pc'[c] \in {"waiting", "leaving"}}
                   /\ IsInjective(members')
<1> SUFFICES Goal
  BY DEF PartnersExist, NoSelfSignal, MembersAreWaiting
<1>0. /\ pc \in [Calls -> Points]
      /\ members \in Seq(Calls)
      /\ partner \in [Calls -> Calls \union {None}]
      /\ dequeueCh \in [Calls -> Calls \union {None}]
      /\ bridgeEndCh \subseteq Calls
      /\ \A c \in Calls : partner[c] # c
      /\ \A c \in Calls : pc[c] \in {"signalling", "talking", "bridged"} => partner[c] \in Calls
      /\ \A c \in Calls : dequeueCh[c] # c
      /\ ToSet(members) = {c \in Calls : pc[c] \in {"waiting", "leaving"}}
      /\ IsInjective(members)
  BY DEF IInv, TypeOK, RunnersOK, PartnersExist, NoSelfSignal, MembersAreWaiting
<1> USE CallsAssumption DEF Goto, Move, queueVars, Rest
<1>1. CASE Rests
  BY <1>0, <1>1 DEF Rests
<1>2. ASSUME NEW c \in Calls, Drifts(c)  PROVE Goal
  BY <1>0, <1>2 DEF Drifts
<1>3. ASSUME NEW c \in Calls, StartVerb(c)  PROVE Goal
  BY <1>0, <1>3 DEF StartVerb, ReachVerb
<1>4. ASSUME NEW c \in Calls, Look(c)  PROVE Goal
  <2>1. members # <<>> => Head(members) \in ToSet(members)
    BY <1>0, EmptySeq, HeadTailProperties, LenProperties DEF ToSet
  <2>2. members # <<>> => Head(members) \in Calls /\ Head(members) # c
    BY <1>0, <1>4, <2>1 DEF Look
  <2> QED BY <1>0, <1>4, <2>2 DEF Look
<1>5. ASSUME NEW c \in Calls, Signal(c)  PROVE Goal
  BY <1>0, <1>5 DEF Signal
<1>6. ASSUME NEW c \in Calls, Join(c)  PROVE Goal
  <2>1. c \notin ToSet(members)
    BY <1>0, <1>6 DEF Join
  <2>2. /\ members' \in Seq(Calls) /\ ToSet(members') = ToSet(members) \union {c}
        /\ IsInjective(members')
    BY <1>0, <1>6, <2>1, AppendToList DEF Join
  <2> QED BY <1>0, <1>6, <2>2 DEF Join
<1>7. ASSUME NEW c \in Calls, GivesUp(c)  PROVE Goal
  BY <1>0, <1>7 DEF GivesUp
<1>8. ASSUME NEW c \in Calls, Dequeued(c)  PROVE Goal
  BY <1>0, <1>8 DEF Dequeued
<1>9. ASSUME NEW c \in Calls, Leave(c)  PROVE Goal
  <2>1. /\ members' \in Seq(Calls) /\ ToSet(members') = ToSet(members) \ {c}
        /\ IsInjective(members')
    BY <1>0, <1>9, RemoveFromList DEF Leave
  <2> QED BY <1>0, <1>9, <2>1 DEF Leave
<1>10. ASSUME NEW c \in Calls, Exits(c)  PROVE Goal
  BY <1>0, <1>10 DEF Exits, NotifyPartner
<1> HIDE DEF Goal
<1> QED BY <1>1, <1>2, <1>3, <1>4, <1>5, <1>6, <1>7, <1>8, <1>9, <1>10, StepForms

LEMMA NextIInv == ASSUME IInv, [Next]_vars  PROVE IInv'
BY QueueStep, RunnersStep DEF IInv, TypeOK

\* The invariant, from which the theorems below follow.
THEOREM Invariant == Spec => []IInv
<1>1. Init => IInv
  BY InitIInv
<1>2. IInv /\ [Next]_vars => IInv'
  BY NextIInv
<1> QED BY <1>1, <1>2, PTL DEF Spec

\* Every variable keeps its type, and no call is its own partner.
THEOREM TypeCorrect == Spec => []TypeOK
BY Invariant, PTL DEF IInv

\* Queue.Members lists exactly the calls that wait in the queue, each once,
\* for any number of calls and verbs.
THEOREM QueueHoldsItsWaiters == Spec => []MembersAreWaiting
BY Invariant, PTL DEF IInv
-----------------------------------------------------------------------------
(* The first visits to the queue *)

\* It has gone on to another visit.
Later(c) == verbs[c] \notin {0, 1}

\* A call that is in its first wait, or past it; and a call whose first bridge
\* was, or is, with c.
HasWaited(c) ==
  \/ Later(c)
  \/ verbs[c] = 1 /\ pc[c] \in {"waiting", "leaving", "bridged", "running", "gone"}

HasSignalled(p, c) ==
  \/ Later(p)
  \/ verbs[p] = 1 /\ pc[p] \in {"talking", "running", "gone"} /\ partner[p] = c

\* c is on the way into a bridge with p, or in it.
Expects(c, p) ==
  \/ pc[c] = "waiting" /\ dequeueCh[c] = p
  \/ pc[c] \in {"leaving", "bridged"} /\ partner[c] = p

FirstInv ==
  /\ \A c \in Calls : pc[c] \notin {"running", "gone"} => verbs[c] # 0
  /\ \A c \in Calls : pc[c] \in {"joining", "waiting"} => partner[c] = None
  /\ \A p \in Calls : pc[p] \in {"signalling", "talking"} => HasWaited(partner[p])
  /\ \A c, p \in Calls : dequeueCh[c] = p => HasWaited(c) /\ HasSignalled(p, c)
  /\ \A c, p \in Calls : Expects(c, p) => HasSignalled(p, c)
  /\ \A c, p \in Calls :
       Expects(c, p) /\ verbs[c] = 1 /\ verbs[p] = 1 /\ ~shutdown
         => c \in bridgeEndCh \/ pc[p] = "talking"
  /\ \A p \in Calls :
       p \in bridgeEndCh /\ pc[p] = "talking" /\ verbs[p] = 1
         => Later(partner[p]) \/ pc[partner[p]] \in {"running", "gone"}
  /\ \A p \in bridgeEndCh :
       Later(p) \/ (verbs[p] = 1 /\ pc[p] \notin {"holding", "looking", "signalling", "joining"})

LEMMA FirstStep ==
  ASSUME IInv, FirstInv, [Next]_vars
  PROVE  FirstInv'
<1>0. /\ pc \in [Calls -> Points]
      /\ members \in Seq(Calls)
      /\ partner \in [Calls -> Calls \union {None}]
      /\ dequeueCh \in [Calls -> Calls \union {None}]
      /\ bridgeEndCh \subseteq Calls
      /\ \A c \in Calls : partner[c] # c
      /\ \A c \in Calls : pc[c] \in {"signalling", "talking", "bridged"} => partner[c] \in Calls
      /\ \A c \in Calls : dequeueCh[c] # c
      /\ ToSet(members) = {c \in Calls : pc[c] \in {"waiting", "leaving"}}
  BY DEF IInv, TypeOK, RunnersOK, PartnersExist, NoSelfSignal, MembersAreWaiting
<1> USE <1>0, CallsAssumption
    DEF FirstInv, Later, HasWaited, HasSignalled, Expects, Goto, Move, queueVars, Rest
<1>1. CASE Rests
  BY <1>1 DEF Rests
<1>2. ASSUME NEW c \in Calls, Drifts(c)  PROVE FirstInv'
  BY <1>2 DEF Drifts
<1>3. ASSUME NEW c \in Calls, StartVerb(c)  PROVE FirstInv'
  <2>1. verbs \in [Calls -> Nat]
    BY BoundAssumption DEF IInv, TypeOK, RunnersOK
  <2>2. verbs'[c] # 0 /\ (verbs'[c] = 1 => verbs[c] = 0)
    BY <1>3, <2>1 DEF StartVerb, ReachVerb
  <2> QED BY <1>3, <2>1, <2>2 DEF StartVerb, ReachVerb
<1>4. ASSUME NEW c \in Calls, Look(c)  PROVE FirstInv'
  <2>1. members # <<>> => Head(members) \in ToSet(members)
    BY EmptySeq, HeadTailProperties, LenProperties DEF ToSet
  <2>2. CASE members = <<>>
    BY <1>4, <2>2 DEF Look
  <2>3. CASE members # <<>>
    <3>1. /\ Head(members) \in Calls /\ pc[Head(members)] \in {"waiting", "leaving"}
          /\ HasWaited(Head(members))
      BY <2>1, <2>3
    <3> QED BY <1>4, <2>3, <3>1 DEF Look
  <2> QED BY <2>2, <2>3
<1>5. ASSUME NEW c \in Calls, Signal(c)  PROVE FirstInv'
  BY <1>5 DEF Signal
<1>6. ASSUME NEW c \in Calls, Join(c)  PROVE FirstInv'
  BY <1>6 DEF Join
<1>7. ASSUME NEW c \in Calls, GivesUp(c)  PROVE FirstInv'
  BY <1>7 DEF GivesUp
<1>8. ASSUME NEW c \in Calls, Dequeued(c)  PROVE FirstInv'
  BY <1>8 DEF Dequeued
<1>9. ASSUME NEW c \in Calls, Leave(c)  PROVE FirstInv'
  BY <1>9 DEF Leave
<1>10. ASSUME NEW c \in Calls, Exits(c)  PROVE FirstInv'
  <2>1. CASE NotifyPartner(c)
    BY <1>10, <2>1 DEF Exits, NotifyPartner
  <2>2. CASE c \in bridgeEndCh /\ bridgeEndCh' = bridgeEndCh \ {c}
    BY <1>10, <2>2 DEF Exits
  <2>3. CASE shutdown /\ bridgeEndCh' = bridgeEndCh
    BY <1>10, <2>3 DEF Exits
  <2> QED BY <1>10, <2>1, <2>2, <2>3 DEF Exits
<1> HIDE DEF FirstInv, Goto, Move, queueVars, Rest
<1> QED BY <1>1, <1>2, <1>3, <1>4, <1>5, <1>6, <1>7, <1>8, <1>9, <1>10, StepForms

\* For any number of calls and verbs, a call that was dequeued into its first
\* bridge by a call in its first is not left alone in it.  In a later bridge
\* a token of an earlier one may (StaleBridgeEnd).
THEOREM DequeuedCallIsNotLeftAlone == Spec => []NotLeftAlone
<1>1. Init => FirstInv
  BY CallsAssumption DEF Init, InitRunners, FirstInv, Later, HasWaited, HasSignalled, Expects
<1>2. IInv /\ FirstInv /\ [Next]_vars => FirstInv'
  BY FirstStep
<1>3. IInv /\ FirstInv => NotLeftAlone
  <2> SUFFICES ASSUME IInv, FirstInv, NEW c \in Calls, NEW d \in Calls,
                      pc[c] = "bridged", partner[c] = d, ~shutdown,
                      verbs[c] = 1, verbs[d] = 1
               PROVE  c \in bridgeEndCh \/ (pc[d] = "talking" /\ partner[d] = c)
    BY DEF NotLeftAlone
  <2>1. Expects(c, d)
    BY DEF Expects
  <2> QED BY <2>1 DEF FirstInv, HasSignalled, Later
<1> QED BY <1>1, <1>2, <1>3, Invariant, PTL DEF Spec
=============================================================================
