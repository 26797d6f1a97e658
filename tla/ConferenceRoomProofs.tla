------------------------- MODULE ConferenceRoomProofs -------------------------
(***************************************************************************)
(* Proofs about ConferenceRoom for any number of calls: the type           *)
(* invariant, that the conference lists exactly the calls that are in the  *)
(* room, and that the callbacks tell the application who they are and come *)
(* in their order: the start once, the end last.                           *)
(***************************************************************************)
EXTENDS ConferenceRoom, SequenceTheorems, FiniteSetTheorems, TLAPS

(* The Participants are a list in which nobody is twice, as the members of *)
(* a queue: what appending a call and removing one do to it.               *)

LEMMA AppendToList ==
  ASSUME NEW S, NEW s \in Seq(S), NEW e \in S, IsInjective(s), e \notin ToSet(s)
  PROVE  /\ Append(s, e) \in Seq(S)
         /\ ToSet(Append(s, e)) = ToSet(s) \cup {e}
         /\ IsInjective(Append(s, e))
<1> DEFINE t == Append(s, e)
<1>1. /\ t \in Seq(S) /\ Len(t) = Len(s) + 1
      /\ \A i \in 1..Len(s) : t[i] = s[i]
      /\ t[Len(s) + 1] = e
  BY AppendProperties
<1>2. DOMAIN s = 1..Len(s) /\ DOMAIN t = 1..(Len(s) + 1) /\ Len(s) \in Nat
  BY <1>1, LenProperties
<1>3. \A i \in 1..Len(s) : s[i] # e
  BY <1>2 DEF ToSet
<1> HIDE DEF t
<1>4. ToSet(t) = ToSet(s) \cup {e}
  BY <1>1, <1>2 DEF ToSet
<1>5. IsInjective(t)
  BY <1>1, <1>2, <1>3 DEF IsInjective
<1> QED BY <1>1, <1>4, <1>5 DEF t

\* The list without the element at one place.
LEMMA WithoutPlace ==
  ASSUME NEW S, NEW s \in Seq(S), NEW k \in 1..Len(s)
  PROVE  LET t == RemoveAt(s, k) IN
         /\ t \in Seq(S) /\ DOMAIN t = 1..(Len(s) - 1)
         /\ \A i \in 1..(Len(s) - 1) : t[i] = s[IF i < k THEN i ELSE i + 1]
<1> DEFINE a == SubSeq(s, 1, k - 1)
           b == SubSeq(s, k + 1, Len(s))
<1>1. PICK n \in Nat : n = Len(s) /\ DOMAIN s = 1..n /\ k \in 1..n
  BY LenProperties
<1>2. \A i \in 1..n : s[i] \in S
  BY <1>1, ElementOfSeq
<1>3. /\ a \in Seq(S) /\ Len(a) = IF 1 <= k - 1 THEN k - 1 - 1 + 1 ELSE 0
      /\ \A i \in 1..(k - 1 - 1 + 1) : a[i] = s[1 + i - 1]
  BY <1>1, <1>2, SubSeqProperties
<1>4. /\ b \in Seq(S) /\ Len(b) = IF k + 1 <= n THEN n - (k + 1) + 1 ELSE 0
      /\ \A i \in 1..(n - (k + 1) + 1) : b[i] = s[k + 1 + i - 1]
  BY <1>1, <1>2, SubSeqProperties
<1> HIDE DEF a, b
<1>5. /\ a \o b \in Seq(S) /\ Len(a \o b) = Len(a) + Len(b)
      /\ \A i \in 1..(Len(a) + Len(b)) : (a \o b)[i] = IF i <= Len(a) THEN a[i] ELSE b[i - Len(a)]
  BY <1>3, <1>4, ConcatProperties
<1> DEFINE t == a \o b
<1>6. RemoveAt(s, k) = t
  BY DEF RemoveAt, a, b
<1> HIDE DEF t
<1>7. Len(a) = k - 1 /\ Len(b) = n - k /\ Len(a) + Len(b) = n - 1
  <2>1. k \in Int /\ n \in Int /\ 1 <= k /\ k <= n
    BY <1>1
  <2>2. Len(a) = k - 1
    BY <1>3, <2>1
  <2>3. Len(b) = n - k
    BY <1>4, <2>1
  <2> QED BY <2>1, <2>2, <2>3
<1>8. \A i \in 1..(k - 1) : a[i] = s[i]
  BY <1>1, <1>3
<1>9. \A i \in 1..(n - k) : b[i] = s[k + i]
  BY <1>1, <1>4
<1>10. ASSUME NEW i \in 1..(n - 1)  PROVE t[i] = s[IF i < k THEN i ELSE i + 1]
  <2>1. t[i] = IF i <= k - 1 THEN a[i] ELSE b[i - (k - 1)]
    BY <1>5, <1>7 DEF t
  <2>2. CASE i < k
    BY <1>1, <1>8, <2>1, <2>2
  <2>3. CASE i >= k
    <3>1. PICK j \in 1..(n - k) : j = i - (k - 1) /\ k + j = i + 1
      BY <1>1, <2>3
    <3> QED BY <1>1, <1>9, <2>1, <2>3, <3>1
  <2> QED BY <1>1, <2>2, <2>3
<1>11. t \in Seq(S) /\ DOMAIN t = 1..(n - 1)
  BY <1>5, <1>7, LenProperties DEF t
<1> QED BY <1>1, <1>6, <1>10, <1>11

\* RemoveFirst takes out all there is of a participant that is there once.
LEMMA RemoveFromList ==
  ASSUME NEW S, NEW s \in Seq(S), NEW e, IsInjective(s)
  PROVE  /\ RemoveFirst(s, e) \in Seq(S)
         /\ ToSet(RemoveFirst(s, e)) = ToSet(s) \ {e}
         /\ IsInjective(RemoveFirst(s, e))
<1> DEFINE I == {i \in 1..Len(s) : s[i] = e}
<1>0. Len(s) \in Nat /\ DOMAIN s = 1..Len(s)
  BY LenProperties
<1>1. CASE I = {}
  BY <1>0, <1>1 DEF RemoveFirst, ToSet
<1>2. CASE I # {}
  <2>1. PICK k \in I : I = {k}
    BY <1>0, <1>2 DEF IsInjective
  <2>2. Min(I) = k
    BY <2>1 DEF Min
  <2>3. RemoveFirst(s, e) = RemoveAt(s, k)
    BY <1>2, <2>2 DEF RemoveFirst, SelectInSeq
  <2> DEFINE t == RemoveAt(s, k)
             at(i) == IF i < k THEN i ELSE i + 1
  <2>4. /\ t \in Seq(S) /\ DOMAIN t = 1..(Len(s) - 1)
        /\ \A i \in 1..(Len(s) - 1) : t[i] = s[at(i)]
    BY WithoutPlace
  <2>5. /\ \A i \in 1..(Len(s) - 1) : at(i) \in 1..Len(s) /\ at(i) # k
        /\ \A j \in 1..Len(s) \ {k} : \E i \in 1..(Len(s) - 1) : at(i) = j
        /\ \A i, j \in 1..(Len(s) - 1) : at(i) = at(j) => i = j
    <3>1. ASSUME NEW j \in 1..Len(s) \ {k}  PROVE \E i \in 1..(Len(s) - 1) : at(i) = j
      <4>1. j < k => j \in 1..(Len(s) - 1) /\ at(j) = j
        BY <1>0
      <4>2. j > k => j - 1 \in 1..(Len(s) - 1) /\ at(j - 1) = j
        BY <1>0
      <4> QED BY <1>0, <4>1, <4>2
    <3> QED BY <1>0, <3>1
  <2>6. \A j \in 1..Len(s) : s[j] = e <=> j = k
    BY <2>1
  <2> HIDE DEF t, at
  <2>7. ToSet(t) = ToSet(s) \ {e}
    <3>1. \A i \in DOMAIN t : t[i] \in ToSet(s) \ {e}
      BY <1>0, <2>4, <2>5, <2>6 DEF ToSet
    <3>2. \A j \in DOMAIN s : s[j] # e => \E i \in DOMAIN t : t[i] = s[j]
      BY <1>0, <2>4, <2>5, <2>6
    <3> QED BY <3>1, <3>2 DEF ToSet
  <2>8. IsInjective(t)
    <3>1. ASSUME NEW i \in 1..(Len(s) - 1), NEW j \in 1..(Len(s) - 1), t[i] = t[j]  PROVE i = j
      <4>1. s[at(i)] = s[at(j)] /\ at(i) \in 1..Len(s) /\ at(j) \in 1..Len(s)
        BY <2>4, <2>5, <3>1
      <4> QED BY <1>0, <2>5, <4>1 DEF IsInjective
    <3> QED BY <2>4, <3>1 DEF IsInjective
  <2> QED BY <2>3, <2>4, <2>7, <2>8 DEF t
<1> QED BY <1>1, <1>2

\* How often x is in the list s.
Count(s, x) == Cardinality({i \in 1..Len(s) : s[i] = x})

LEMMA CountAppend ==
  ASSUME NEW S, NEW s \in Seq(S), NEW e \in S, NEW x
  PROVE  /\ Count(s, x) \in Nat
         /\ Count(Append(s, e), x) = Count(s, x) + (IF e = x THEN 1 ELSE 0)
<1> DEFINE I == {i \in 1..Len(s) : s[i] = x}
           t == Append(s, e)
           J == {i \in 1..Len(t) : t[i] = x}
<1>1. Len(s) \in Nat /\ Len(s) + 1 \notin I
  BY LenProperties
<1>2. IsFiniteSet(I) /\ Cardinality(I) \in Nat
  <2>1. IsFiniteSet(1..Len(s))
    BY <1>1, FS_Interval
  <2>2. IsFiniteSet(I)
    BY <2>1, FS_Subset
  <2> QED BY <2>2, FS_CardinalityType
<1>3. /\ Len(t) = Len(s) + 1 /\ t[Len(s) + 1] = e
      /\ \A i \in 1..Len(s) : t[i] = s[i]
  BY AppendProperties
<1> HIDE DEF t
<1>4. J = IF e = x THEN I \union {Len(s) + 1} ELSE I
  <2>1. 1..Len(t) = (1..Len(s)) \union {Len(s) + 1}
    BY <1>1, <1>3
  <2> QED BY <1>3, <2>1
<1> HIDE DEF I, J
<1>5. Cardinality(J) = Cardinality(I) + (IF e = x THEN 1 ELSE 0)
  <2>1. CASE e = x
    BY <1>1, <1>2, <1>4, <2>1, FS_AddElement
  <2>2. CASE e # x
    BY <1>2, <1>4, <2>2
  <2> QED BY <2>1, <2>2
<1> QED BY <1>2, <1>5 DEF Count, I, J, t
-----------------------------------------------------------------------------
(* The invariant *)

IInv == TypeOK /\ ParticipantsAreInside
-----------------------------------------------------------------------------
(* The callback queue *)

LEMMA NewsType ==
  ASSUME NEW e \in Events, NEW who \in Calls \union {RoomEvent}
  PROVE  News(e, who) \in Seq(Announcements) /\ Len(News(e, who)) <= 1
<1>1. Announcement(e, who) \in Announcements
  BY DEF Announcement, Announcements
<1> QED BY <1>1 DEF News

\* Everything that is sent is a sequence of announcements.
LEMMA SentTypes ==
  ASSUME NEW c \in Calls, NEW b \in BOOLEAN
  PROVE  /\ News("join", c) \o (IF b THEN News("start", RoomEvent) ELSE <<>>)
              \in Seq(Announcements)
         /\ Farewell(c, b) \in Seq(Announcements)
<1>1. /\ News("join", c) \in Seq(Announcements) /\ News("leave", c) \in Seq(Announcements)
      /\ News("start", RoomEvent) \in Seq(Announcements)
      /\ News("end", RoomEvent) \in Seq(Announcements)
  BY NewsType DEF Events
<1>2. <<>> \in Seq(Announcements)
  BY EmptySeq
<1> QED BY <1>1, <1>2, ConcatProperties DEF Farewell

LEMMA SendAllTypes ==
  ASSUME TypeOK, NEW sent \in Seq(Announcements), NEW closes \in BOOLEAN,
         SendAll(sent, closes)
  PROVE  /\ cbq' \in Seq(Announcements) /\ Len(cbq') <= CallbackQueueCap
         /\ cbClosed' \in BOOLEAN
         /\ fault' \in {"none", "panic", "blocked"}
<1> USE DEF TypeOK
<1>1. CASE UNCHANGED <<cbq, cbClosed>> /\ fault' \in {"panic", "blocked"}
  BY <1>1
<1>2. CASE /\ sent = <<>> \/ Len(cbq) + Len(sent) <= CallbackQueueCap
           /\ cbq' = cbq \o sent /\ cbClosed' = (cbClosed \/ closes) /\ UNCHANGED fault
  <2>1. /\ cbq' \in Seq(Announcements) /\ Len(cbq') = Len(cbq) + Len(sent)
    BY <1>2, ConcatProperties
  <2>2. Len(cbq') <= CallbackQueueCap
    <3>1. CASE sent = <<>>
      BY <1>2, <3>1, ConcatEmptySeq
    <3>2. CASE Len(cbq) + Len(sent) <= CallbackQueueCap
      BY <2>1, <3>2
    <3> QED BY <1>2, <3>1, <3>2
  <2> QED BY <1>2, <2>1, <2>2
<1> QED BY <1>1, <1>2 DEF SendAll
-----------------------------------------------------------------------------
(* The runners *)

LEMMA RunnersStep ==
  ASSUME RunnersOK(Points), [Next]_vars
  PROVE  RunnersOK(Points)'
<1> USE BoundAssumption DEF RunnersOK, Points, Goto
<1>1. ASSUME NEW c \in Calls, Step(c)  PROVE RunnersOK(Points)'
  <2>1. ASSUME NEW f \in Points, NEW t \in Points, Move(c, f, t)  PROVE RunnersOK(Points)'
    BY <2>1 DEF Move
  <2>2. ASSUME NEW f \in Points, NEW t \in Points, TakeUrl(c, f, t)  PROVE RunnersOK(Points)'
    BY <2>2 DEF TakeUrl
  <2> QED BY <1>1, <2>1, <2>2
       DEF Step, HoldEnds, Join, Interrupted, UrlUpdated, CompletedViaApi, Leave,
           HangsUp, ShutsDown
<1>2. ASSUME NEW c \in Calls, Choice(c)  PROVE RunnersOK(Points)'
  <2>1. CASE StartVerb(c)
    BY <2>1 DEF StartVerb, ReachVerb
  <2>2. CASE Between(c)
    BY <2>2 DEF Between, DocumentEnds, HangsUp, Breaks, ShutsDown, TakeUrl, Move
  <2>3. CASE Hold(c, "joining")
    BY <2>3, WaitAssumption DEF Hold, HoldEnds, HoldHangup, TakeUrl, Move
  <2>4. CASE StarPressed(c)
    BY <2>4 DEF StarPressed, Move
  <2> QED BY <1>2, <2>1, <2>2, <2>3, <2>4 DEF Choice
<1>3. CASE Api
  BY <1>3 DEF Api, Hangup, UpdateUrl, Close
<1>4. CASE Worker \/ Complete \/ Resume
  BY <1>4 DEF Worker, WorkerReceive, WorkerPost, WorkerExit, Complete, Resume, runnerVars
<1>5. CASE UNCHANGED vars
  BY <1>5 DEF vars, runnerVars
<1> QED BY <1>1, <1>2, <1>3, <1>4, <1>5 DEF Next
-----------------------------------------------------------------------------
(* The forms of a step *)

\* Nothing of the conference changes.
Drifts(c) ==
  /\ \/ Goto(c, "running", "running") \/ Goto(c, "running", "gone")
     \/ Goto(c, "holding", "joining") \/ Goto(c, "holding", "running")
     \/ Goto(c, "holding", "gone") \/ Goto(c, "inside", "leaving")
  /\ UNCHANGED confVars

Rests == UNCHANGED <<pc, confVars>>

\* The form of every step.
LEMMA StepForms ==
  ASSUME [Next]_vars
  PROVE  \/ Rests \/ Worker \/ Complete \/ Resume
         \/ \E c \in Calls :
              Drifts(c) \/ StartVerb(c) \/ Join(c) \/ CompletedViaApi(c) \/ Leave(c)
<1>1. ASSUME NEW c \in Calls, Step(c)
      PROVE  Drifts(c) \/ Join(c) \/ CompletedViaApi(c) \/ Leave(c)
  BY <1>1 DEF Step, HoldEnds, Interrupted, UrlUpdated, HangsUp, ShutsDown, TakeUrl, Move,
              Drifts
<1>2. ASSUME NEW c \in Calls, Choice(c)  PROVE Drifts(c) \/ StartVerb(c)
  BY <1>2 DEF Choice, Between, DocumentEnds, HangsUp, Breaks, ShutsDown, Hold, HoldEnds,
              HoldHangup, StarPressed, TakeUrl, Move, Drifts
<1>3. CASE Api /\ UNCHANGED confVars
  BY <1>3 DEF Api, Hangup, UpdateUrl, Close, Rests
<1>4. CASE UNCHANGED vars
  BY <1>4 DEF vars, runnerVars, Rests
<1> QED BY <1>1, <1>2, <1>3, <1>4 DEF Next
-----------------------------------------------------------------------------
(* Types, and who is in the room *)

LEMMA InitIInv == ASSUME Init  PROVE IInv
<1> USE BoundAssumption DEF Init, InitRunners
<1>1. RunnersOK(Points)
  <2>1. "running" \in Points /\ 0 \in 0..MaxVerbs
    BY DEF Points
  <2> QED BY <2>1 DEF RunnersOK
<1>2. participants \in Seq(Calls) /\ cbq \in Seq(Announcements) /\ posted \in Seq(Announcements)
  BY EmptySeq
<1>3. posting \in Announcements
  BY DEF Announcement, Announcements, Events
<1>4. Len(cbq) <= CallbackQueueCap
  BY EmptySeq DEF CallbackQueueCap
<1>5. ParticipantsAreInside
  BY DEF ParticipantsAreInside, ToSet, IsInjective
<1> QED BY <1>1, <1>2, <1>3, <1>4, <1>5 DEF TypeOK, IInv

LEMMA RoomStep ==
  ASSUME IInv, [Next]_vars
  PROVE  ParticipantsAreInside' /\ participants' \in Seq(Calls)
<1> DEFINE Goal == /\ participants' \in Seq(Calls)
                   /\ ToSet(participants') = {c \in Calls : pc'[c] \in {"inside", "leaving"}}
                   /\ IsInjective(participants')
<1> SUFFICES Goal
  BY DEF ParticipantsAreInside
<1>0. /\ pc \in [Calls -> Points] /\ participants \in Seq(Calls)
      /\ ToSet(participants) = {c \in Calls : pc[c] \in {"inside", "leaving"}}
      /\ IsInjective(participants)
  BY DEF IInv, TypeOK, RunnersOK, ParticipantsAreInside
<1> USE DEF Goto, Move, confVars, roomVars
<1>1. CASE Rests
  BY <1>0, <1>1 DEF Rests
<1>2. CASE Worker \/ Complete \/ Resume
  BY <1>0, <1>2 DEF Worker, WorkerReceive, WorkerPost, WorkerExit, Complete, Resume, runnerVars
<1>3. ASSUME NEW c \in Calls, Drifts(c)  PROVE Goal
  BY <1>0, <1>3 DEF Drifts
<1>4. ASSUME NEW c \in Calls, StartVerb(c)  PROVE Goal
  BY <1>0, <1>4 DEF StartVerb, ReachVerb
<1>5. ASSUME NEW c \in Calls, Join(c)  PROVE Goal
  <2>1. /\ pc[c] = "joining" /\ pc' = [pc EXCEPT ![c] = "inside"]
        /\ participants' = Append(participants, c)
    BY <1>5 DEF Join
  <2>2. /\ participants' \in Seq(Calls) /\ IsInjective(participants')
        /\ ToSet(participants') = ToSet(participants) \union {c}
    BY <1>0, <2>1, AppendToList
  <2> QED BY <1>0, <2>1, <2>2
<1>6. ASSUME NEW c \in Calls, CompletedViaApi(c)  PROVE Goal
  BY <1>0, <1>6 DEF CompletedViaApi
<1>7. ASSUME NEW c \in Calls, Leave(c)  PROVE Goal
  <2>1. /\ pc[c] = "leaving" /\ pc' = [pc EXCEPT ![c] = "running"]
        /\ participants' = RemoveFirst(participants, c)
    BY <1>7 DEF Leave, Removed
  <2>2. /\ participants' \in Seq(Calls) /\ IsInjective(participants')
        /\ ToSet(participants') = ToSet(participants) \ {c}
    BY <1>0, <2>1, RemoveFromList
  <2> QED BY <1>0, <2>1, <2>2
<1> HIDE DEF Goal
<1> QED BY <1>1, <1>2, <1>3, <1>4, <1>5, <1>6, <1>7, StepForms

LEMMA NextIInv == ASSUME IInv, [Next]_vars  PROVE IInv'
<1>1. TypeOK /\ RunnersOK(Points)' /\ ParticipantsAreInside' /\ participants' \in Seq(Calls)
  BY RunnersStep, RoomStep DEF IInv, TypeOK
<1> DEFINE Rest == /\ status' \in {"none", "created", "in-progress", "completed"}
                   /\ interest' \in Interests /\ hasCallback' \in BOOLEAN
                   /\ cbq' \in Seq(Announcements) /\ Len(cbq') <= CallbackQueueCap
                   /\ cbClosed' \in BOOLEAN
                   /\ worker' \in {"receiving", "posting", "exited"}
                   /\ posting' \in Announcements /\ posted' \in Seq(Announcements)
                   /\ completeCh' \subseteq Calls
                   /\ fault' \in {"none", "panic", "blocked"}
<1> SUFFICES Rest
  BY <1>1 DEF IInv, TypeOK
<1> USE DEF roomVars, cbVars, confVars
<1>2. CASE Rests
  BY <1>1, <1>2 DEF Rests, TypeOK
<1>3. CASE Worker
  <2>1. CASE WorkerReceive
    <3>1. Head(cbq) \in Announcements /\ Tail(cbq) \in Seq(Announcements)
          /\ Len(Tail(cbq)) <= CallbackQueueCap
      BY <1>1, <2>1, HeadTailProperties DEF WorkerReceive, TypeOK, CallbackQueueCap
    <3> QED BY <1>1, <2>1, <3>1 DEF WorkerReceive, TypeOK
  <2>2. CASE WorkerPost
    <3>1. Append(posted, posting) \in Seq(Announcements)
      BY <1>1, AppendProperties DEF TypeOK
    <3> QED BY <1>1, <2>2, <3>1 DEF WorkerPost, TypeOK
  <2>3. CASE WorkerExit
    BY <1>1, <2>3 DEF WorkerExit, TypeOK
  <2> QED BY <1>3, <2>1, <2>2, <2>3 DEF Worker
<1>4. CASE Complete
  <2>1. ToSet(participants) \subseteq Calls
    BY <1>1, LenProperties DEF TypeOK, ToSet
  <2> QED BY <1>1, <1>4, <2>1 DEF Complete, TypeOK
<1>5. CASE Resume
  BY <1>1, <1>5 DEF Resume, TypeOK
<1>6. ASSUME NEW c \in Calls, Drifts(c)  PROVE Rest
  BY <1>1, <1>6 DEF Drifts, TypeOK
<1>7. ASSUME NEW c \in Calls, StartVerb(c)  PROVE Rest
  BY <1>1, <1>7 DEF StartVerb, TypeOK
<1>8. ASSUME NEW c \in Calls, Join(c)  PROVE Rest
  <2>1. PICK sent \in Seq(Announcements) : SendAll(sent, FALSE)
    <3> DEFINE b == ShouldStart(Append(participants, c))
    <3>1. b \in BOOLEAN
      BY DEF ShouldStart
    <3>2. News("join", c) \o (IF b THEN News("start", RoomEvent) ELSE <<>>)
            \in Seq(Announcements)
      BY <3>1, SentTypes
    <3> QED BY <1>8, <3>2 DEF Join
  <2>2. /\ cbq' \in Seq(Announcements) /\ Len(cbq') <= CallbackQueueCap
        /\ cbClosed' \in BOOLEAN /\ fault' \in {"none", "panic", "blocked"}
    BY <1>1, <2>1, SendAllTypes
  <2> QED BY <1>1, <1>8, <2>2 DEF Join, TypeOK
<1>9. ASSUME NEW c \in Calls, CompletedViaApi(c)  PROVE Rest
  BY <1>1, <1>9 DEF CompletedViaApi, TypeOK
<1>10. ASSUME NEW c \in Calls, Leave(c)  PROVE Rest
  <2>1. PICK b \in BOOLEAN : SendAll(Farewell(c, b), b)
    BY <1>10 DEF Leave, EndsTheRoom
  <2>2. /\ cbq' \in Seq(Announcements) /\ Len(cbq') <= CallbackQueueCap
        /\ cbClosed' \in BOOLEAN /\ fault' \in {"none", "panic", "blocked"}
    BY <1>1, <2>1, SentTypes, SendAllTypes
  <2> QED BY <1>1, <1>10, <2>2 DEF Leave, TypeOK
<1> HIDE DEF Rest
<1> QED BY <1>2, <1>3, <1>4, <1>5, <1>6, <1>7, <1>8, <1>9, <1>10, StepForms

\* The invariant, from which the theorems below follow.
THEOREM Invariant == Spec => []IInv
<1>1. Init => IInv
  BY InitIInv
<1>2. IInv /\ [Next]_vars => IInv'
  BY NextIInv
<1> QED BY <1>1, <1>2, PTL DEF Spec

\* Every variable keeps its type, and the callback queue its capacity.
THEOREM TypeCorrect == Spec => []TypeOK
BY Invariant, PTL DEF IInv

\* Conference.Participants lists exactly the calls that are in the room, each
\* once, for any number of calls, verbs and requests.
THEOREM RoomHoldsItsParticipants == Spec => []ParticipantsAreInside
BY Invariant, PTL DEF IInv
-----------------------------------------------------------------------------
(* What the callbacks tell *)

\* The conference has its callback before anybody is in it.
HasListener ==
  /\ status # "none" => hasCallback
  /\ \A c \in Calls : pc[c] \notin {"running", "gone"} => status # "none"

Balanced(s, present) ==
  \A c \in Calls :
    Count(s, Announcement("join", c)) =
      Count(s, Announcement("leave", c)) + (IF c \in present THEN 1 ELSE 0)

Tells == fault = "none" => Balanced(Announced, ToSet(participants))

LEMMA AnnouncedType == ASSUME TypeOK  PROVE Announced \in Seq(Announcements)
<1>1. (IF worker = "posting" THEN <<posting>> ELSE <<>>) \in Seq(Announcements)
  BY EmptySeq DEF TypeOK
<1> QED BY <1>1, ConcatProperties DEF TypeOK, Announced

LEMMA AnnouncementsDiffer ==
  ASSUME NEW e, NEW f, NEW c, NEW d, Announcement(e, c) = Announcement(f, d)
  PROVE  e = f /\ c = d
BY DEF Announcement

\* What is sent without a fault is announced after all the rest.
LEMMA SentIsAnnounced ==
  ASSUME TypeOK, NEW sent \in Seq(Announcements), NEW closes \in BOOLEAN,
         SendAll(sent, closes), fault' = "none", UNCHANGED <<worker, posting, posted>>
  PROVE  Announced' = Announced \o sent
<1> DEFINE now == IF worker = "posting" THEN <<posting>> ELSE <<>>
<1>1. cbq' = cbq \o sent
  BY DEF SendAll, TypeOK
<1>2. now \in Seq(Announcements) /\ posted \o now \in Seq(Announcements)
  BY EmptySeq, ConcatProperties DEF TypeOK
<1>3. Announced = (posted \o now) \o cbq /\ Announced' = (posted \o now) \o (cbq \o sent)
  <2>1. Announced' = posted \o now \o cbq'
    BY DEF Announced
  <2> QED BY <1>1, <2>1 DEF Announced
<1> HIDE DEF now
<1>4. ((posted \o now) \o cbq) \o sent = (posted \o now) \o (cbq \o sent)
  BY <1>2, ConcatAssociative DEF TypeOK
<1> QED BY <1>3, <1>4

\* The worker announces nothing new.
LEMMA WorkerAnnouncesNothing ==
  ASSUME TypeOK, Worker
  PROVE  Announced' = Announced
<1>1. CASE WorkerReceive
  <2>1. cbq = <<posting'>> \o cbq'
    <3>1. cbq = <<Head(cbq)>> \o Tail(cbq)
      BY <1>1 DEF WorkerReceive, TypeOK
    <3> QED BY <1>1, <3>1 DEF WorkerReceive
  <2>2. Announced = posted \o <<>> \o cbq /\ Announced' = posted \o <<posting'>> \o cbq'
    BY <1>1 DEF WorkerReceive, Announced
  <2>3. posted \o <<>> = posted
    BY ConcatEmptySeq DEF TypeOK
  <2>4. posting' \in Announcements /\ cbq' \in Seq(Announcements)
    BY <1>1, HeadTailProperties DEF WorkerReceive, TypeOK
  <2>5. (posted \o <<posting'>>) \o cbq' = posted \o (<<posting'>> \o cbq')
    <3>1. <<posting'>> \in Seq(Announcements)
      BY <2>4
    <3> QED BY <2>4, <3>1, ConcatAssociative DEF TypeOK
  <2> QED BY <2>1, <2>2, <2>3, <2>5
<1>2. CASE WorkerPost
  <2>1. /\ Announced = posted \o <<posting>> \o cbq
        /\ Announced' = Append(posted, posting) \o <<>> \o cbq
    BY <1>2 DEF WorkerPost, Announced
  <2>2. Append(posted, posting) = posted \o <<posting>>
        /\ Append(posted, posting) \in Seq(Announcements)
    BY AppendIsConcat, AppendProperties DEF TypeOK
  <2>3. Append(posted, posting) \o <<>> = Append(posted, posting)
    BY <2>2, ConcatEmptySeq
  <2> QED BY <2>1, <2>2, <2>3
<1>3. CASE WorkerExit
  BY <1>3 DEF WorkerExit, Announced
<1> QED BY <1>1, <1>2, <1>3 DEF Worker

LEMMA BalanceKept ==
  ASSUME NEW s \in Seq(Announcements), NEW P, Balanced(s, P), NEW c \in Calls
  PROVE  /\ c \notin P => Balanced(Append(s, Announcement("join", c)), P \union {c})
         /\ c \in P => Balanced(Append(s, Announcement("leave", c)), P \ {c})
         /\ \A e \in {"start", "end"} : Balanced(Append(s, Announcement(e, RoomEvent)), P)
<1>1. ASSUME NEW e \in Events, NEW w \in Calls \union {RoomEvent},
             NEW f \in Events, NEW d \in Calls
      PROVE  /\ Count(s, Announcement(f, d)) \in Nat
             /\ Count(Append(s, Announcement(e, w)), Announcement(f, d)) =
                  Count(s, Announcement(f, d)) + (IF e = f /\ w = d THEN 1 ELSE 0)
  <2>1. Announcement(e, w) \in Announcements
    BY DEF Announcement, Announcements
  <2>2. Announcement(e, w) = Announcement(f, d) <=> e = f /\ w = d
    BY AnnouncementsDiffer
  <2> QED BY <2>1, <2>2, CountAppend
<1> DEFINE joins(t, d) == Count(t, Announcement("join", d))
           leaves(t, d) == Count(t, Announcement("leave", d))
<1>2. ASSUME NEW e \in Events, NEW w \in Calls \union {RoomEvent}, NEW d \in Calls
      PROVE  LET t == Append(s, Announcement(e, w)) IN
             /\ joins(s, d) \in Nat /\ leaves(s, d) \in Nat
             /\ joins(t, d) = joins(s, d) + (IF e = "join" /\ w = d THEN 1 ELSE 0)
             /\ leaves(t, d) = leaves(s, d) + (IF e = "leave" /\ w = d THEN 1 ELSE 0)
  <2> DEFINE t == Append(s, Announcement(e, w))
  <2>1. "join" \in Events /\ "leave" \in Events
    BY DEF Events
  <2>2. /\ joins(s, d) \in Nat
        /\ joins(t, d) = joins(s, d) + (IF e = "join" /\ w = d THEN 1 ELSE 0)
    BY <1>1, <2>1
  <2>3. /\ leaves(s, d) \in Nat
        /\ leaves(t, d) = leaves(s, d) + (IF e = "leave" /\ w = d THEN 1 ELSE 0)
    BY <1>1, <2>1
  <2> HIDE DEF joins, leaves
  <2> QED BY <2>2, <2>3
<1>3. \A d \in Calls : joins(s, d) = leaves(s, d) + (IF d \in P THEN 1 ELSE 0)
  BY DEF Balanced
<1>4. \A t, Q : (\A d \in Calls : joins(t, d) = leaves(t, d) + (IF d \in Q THEN 1 ELSE 0))
                  => Balanced(t, Q)
  BY DEF Balanced
<1> HIDE DEF joins, leaves
<1>5. ASSUME c \notin P  PROVE Balanced(Append(s, Announcement("join", c)), P \union {c})
  <2> SUFFICES ASSUME NEW d \in Calls
               PROVE  LET t == Append(s, Announcement("join", c)) IN
                      joins(t, d) = leaves(t, d) + (IF d \in P \union {c} THEN 1 ELSE 0)
    BY <1>4
  <2> QED BY <1>2, <1>3, <1>5 DEF Events
<1>6. ASSUME c \in P  PROVE Balanced(Append(s, Announcement("leave", c)), P \ {c})
  <2> SUFFICES ASSUME NEW d \in Calls
               PROVE  LET t == Append(s, Announcement("leave", c)) IN
                      joins(t, d) = leaves(t, d) + (IF d \in P \ {c} THEN 1 ELSE 0)
    BY <1>4
  <2> QED BY <1>2, <1>3, <1>6 DEF Events
<1>7. ASSUME NEW e \in {"start", "end"}
      PROVE  Balanced(Append(s, Announcement(e, RoomEvent)), P)
  <2> SUFFICES ASSUME NEW d \in Calls
               PROVE  LET t == Append(s, Announcement(e, RoomEvent)) IN
                      joins(t, d) = leaves(t, d) + (IF d \in P THEN 1 ELSE 0)
    BY <1>4
  <2> QED BY <1>2, <1>3 DEF Events
<1> QED BY <1>5, <1>6, <1>7

\* One announcement after the other.
LEMMA SentInTurn ==
  ASSUME NEW s \in Seq(Announcements), NEW a \in Announcements, NEW b \in Announcements
  PROVE  /\ s \o (<<a>> \o <<>>) = Append(s, a)
         /\ s \o (<<a>> \o <<b>>) = Append(Append(s, a), b)
         /\ Append(s, a) \in Seq(Announcements)
<1>1. <<a>> \in Seq(Announcements) /\ <<b>> \in Seq(Announcements)
  OBVIOUS
<1>2. <<a>> \o <<>> = <<a>>
  BY <1>1, ConcatEmptySeq
<1>3. s \o (<<a>> \o <<b>>) = (s \o <<a>>) \o <<b>>
  BY <1>1, ConcatAssociative
<1>4. s \o <<a>> = Append(s, a) /\ Append(s, a) \in Seq(Announcements)
  BY AppendIsConcat, AppendProperties
<1>5. Append(s, a) \o <<b>> = Append(Append(s, a), b)
  BY <1>4, AppendIsConcat
<1> QED BY <1>2, <1>3, <1>4, <1>5

LEMMA ListenerStep ==
  ASSUME WithCallback = Calls, HasListener, TypeOK, [Next]_vars
  PROVE  HasListener'
<1>0. pc \in [Calls -> Points]
  BY DEF TypeOK, RunnersOK
<1> USE <1>0 DEF HasListener, Goto, Move, confVars, roomVars
<1>1. CASE Rests
  BY <1>1 DEF Rests
<1>2. CASE Worker \/ Complete \/ Resume
  BY <1>2 DEF Worker, WorkerReceive, WorkerPost, WorkerExit, Complete, Resume, runnerVars
<1>3. ASSUME NEW c \in Calls, Drifts(c)  PROVE HasListener'
  BY <1>3 DEF Drifts
<1>4. ASSUME NEW c \in Calls, StartVerb(c)  PROVE HasListener'
  BY <1>4 DEF StartVerb, ReachVerb
<1>5. ASSUME NEW c \in Calls, Join(c)  PROVE HasListener'
  BY <1>5 DEF Join
<1>6. ASSUME NEW c \in Calls, CompletedViaApi(c)  PROVE HasListener'
  BY <1>6 DEF CompletedViaApi
<1>7. ASSUME NEW c \in Calls, Leave(c)  PROVE HasListener'
  BY <1>7 DEF Leave
<1> HIDE DEF HasListener
<1> QED BY <1>1, <1>2, <1>3, <1>4, <1>5, <1>6, <1>7, StepForms

LEMMA TellsStep ==
  ASSUME IInv, interest = {}, HasListener, Tells, [Next]_vars
  PROVE  Tells'
<1> DEFINE P == ToSet(participants)
<1>0. /\ TypeOK /\ Announced \in Seq(Announcements)
      /\ P = {c \in Calls : pc[c] \in {"inside", "leaving"}}
  BY AnnouncedType DEF IInv, ParticipantsAreInside
<1>1. ASSUME UNCHANGED <<posted, worker, posting, cbq, participants, fault>>
      PROVE  Tells'
  BY <1>1 DEF Tells, Announced
<1>2. CASE Worker
  <2>1. Announced' = Announced /\ UNCHANGED <<participants, fault>>
    BY <1>0, <1>2, WorkerAnnouncesNothing
    DEF Worker, WorkerReceive, WorkerPost, WorkerExit, roomVars
  <2> QED BY <2>1 DEF Tells
<1>3. ASSUME NEW c \in Calls, Join(c), fault = "none", fault' = "none"
      PROVE  Tells'
  <2> DEFINE a == Announcement("join", c)
             b == Announcement("start", RoomEvent)
             starts == ShouldStart(Append(participants, c))
             sent == <<a>> \o (IF starts THEN <<b>> ELSE <<>>)
  <2>1. pc[c] = "joining" /\ hasCallback
    BY <1>3 DEF Join, Move, Goto, HasListener
  <2>2. News("join", c) = <<a>> /\ News("start", RoomEvent) = <<b>>
    BY <2>1 DEF News, Wanted, HasListener
  <2>3. sent \in Seq(Announcements) /\ SendAll(sent, FALSE)
    <3>1. starts \in BOOLEAN
      BY DEF ShouldStart
    <3>2. News("join", c) \o (IF starts THEN News("start", RoomEvent) ELSE <<>>)
            \in Seq(Announcements)
      BY <3>1, SentTypes
    <3>3. SendAll(News("join", c) \o (IF starts THEN News("start", RoomEvent) ELSE <<>>), FALSE)
      BY <1>3 DEF Join
    <3> QED BY <2>2, <3>2, <3>3
  <2>4. Announced' = Announced \o sent
    BY <1>0, <1>3, <2>3, SentIsAnnounced DEF Join
  <2>5. c \notin P /\ ToSet(participants') = P \union {c}
    <3>1. c \notin P
      BY <1>0, <2>1
    <3> QED BY <1>3, <3>1, AppendToList DEF Join, IInv, TypeOK, ParticipantsAreInside
  <2>6. a \in Announcements /\ b \in Announcements
    BY DEF Announcement, Announcements, Events
  <2>7. /\ Balanced(Append(Announced, a), P \union {c})
        /\ Append(Announced, a) \in Seq(Announcements)
    BY <1>0, <1>3, <2>5, <2>6, BalanceKept, SentInTurn DEF Tells
  <2>8. Balanced(Append(Append(Announced, a), b), P \union {c})
    BY <2>7, BalanceKept
  <2>9. Announced' = IF starts THEN Append(Append(Announced, a), b) ELSE Append(Announced, a)
    BY <1>0, <2>4, <2>6, SentInTurn
  <2> QED BY <2>5, <2>7, <2>8, <2>9 DEF Tells
<1>4. ASSUME NEW c \in Calls, Leave(c), fault = "none", fault' = "none"
      PROVE  Tells'
  <2> DEFINE a == Announcement("leave", c)
             b == Announcement("end", RoomEvent)
  <2>1. pc[c] = "leaving" /\ hasCallback
    BY <1>4 DEF Leave, Move, Goto, HasListener
  <2>2. News("leave", c) = <<a>> /\ News("end", RoomEvent) = <<b>>
    BY <2>1 DEF News, Wanted, HasListener
  <2>3. PICK ends \in BOOLEAN : SendAll(Farewell(c, ends), ends)
    BY <1>4 DEF Leave, EndsTheRoom
  <2>4. Announced' = Announced \o Farewell(c, ends)
    BY <1>0, <1>4, <2>3, SentTypes, SentIsAnnounced DEF Leave
  <2>5. c \in P /\ ToSet(participants') = P \ {c}
    <3>1. c \in P
      BY <1>0, <2>1
    <3> QED BY <1>4, <3>1, RemoveFromList DEF Leave, Removed, IInv, TypeOK, ParticipantsAreInside
  <2>6. a \in Announcements /\ b \in Announcements
    BY DEF Announcement, Announcements, Events
  <2>7. /\ Balanced(Append(Announced, a), P \ {c})
        /\ Append(Announced, a) \in Seq(Announcements)
    BY <1>0, <1>4, <2>5, <2>6, BalanceKept, SentInTurn DEF Tells
  <2>8. Balanced(Append(Append(Announced, a), b), P \ {c})
    BY <2>7, BalanceKept
  <2>9. Announced' = IF ends THEN Append(Append(Announced, a), b) ELSE Append(Announced, a)
    <3>1. Farewell(c, ends) = <<a>> \o (IF ends THEN <<b>> ELSE <<>>)
      BY <2>2 DEF Farewell
    <3> HIDE DEF a, b
    <3>2. /\ Announced \o (<<a>> \o <<>>) = Append(Announced, a)
          /\ Announced \o (<<a>> \o <<b>>) = Append(Append(Announced, a), b)
      BY <1>0, <2>6, SentInTurn
    <3>3. CASE ends
      BY <2>4, <3>1, <3>2, <3>3
    <3>4. CASE ~ ends
      BY <2>4, <3>1, <3>2, <3>4
    <3> QED BY <3>3, <3>4
  <2> QED BY <2>5, <2>7, <2>8, <2>9 DEF Tells
<1>5. CASE \E c \in Calls : Join(c) \/ Leave(c)
  <2>1. CASE fault # "none"
    BY <2>1 DEF Next, vars, confVars, Tells
  <2>2. CASE fault' # "none"
    BY <2>2 DEF Tells
  <2> QED BY <1>3, <1>4, <1>5, <2>1, <2>2
<1>6. CASE \/ Rests \/ Complete \/ Resume
           \/ \E c \in Calls : Drifts(c) \/ StartVerb(c) \/ CompletedViaApi(c)
  BY <1>1, <1>6 DEF Rests, Complete, Resume, Drifts, StartVerb, CompletedViaApi,
                    confVars, roomVars, cbVars
<1> QED BY <1>2, <1>5, <1>6, StepForms

\* An application that takes every callback, and gets it with every noun,
\* knows who is in the room: for any number of calls that join and leave, in
\* any order, until the process is stopped by a panic or a full queue.
THEOREM CallbacksAreTrue ==
  ASSUME WithCallback = Calls, Interests = {{}}
  PROVE  Spec => []CallbacksTellTheRoom
<1>1. Init => HasListener /\ Tells
  <2> SUFFICES ASSUME Init  PROVE HasListener /\ Tells
    OBVIOUS
  <2>1. HasListener
    BY DEF Init, InitRunners, HasListener
  <2>2. Announced = <<>> /\ ToSet(participants) = {}
    BY DEF Init, Announced, ToSet
  <2>3. \A x : {i \in 1..Len(<<>>) : <<>>[i] = x} = {}
    BY EmptySeq
  <2>4. Tells
    BY <2>2, <2>3, FS_EmptySet DEF Tells, Balanced, Count
  <2> QED BY <2>1, <2>4
<1>2. IInv /\ HasListener /\ Tells /\ [Next]_vars => HasListener' /\ Tells'
  BY ListenerStep, TellsStep DEF IInv, TypeOK
<1>3. IInv /\ Tells => CallbacksTellTheRoom
  <2> SUFFICES ASSUME IInv, Tells, fault = "none", NEW c \in Calls
               PROVE  CountOf("join", c) - CountOf("leave", c) =
                        IF c \in ToSet(participants) THEN 1 ELSE 0
    BY DEF CallbacksTellTheRoom
  <2>1. \A e : CountOf(e, c) = Count(Announced, Announcement(e, c))
    BY DEF CountOf, Count
  <2>2. /\ Announced \in Seq(Announcements)
        /\ Announcement("join", c) \in Announcements
    BY AnnouncedType DEF IInv, Announcement, Announcements, Events
  <2>3. Count(Announced, Announcement("leave", c)) \in Nat
    BY <2>2, CountAppend
  <2>4. Count(Announced, Announcement("join", c)) =
          Count(Announced, Announcement("leave", c))
            + (IF c \in ToSet(participants) THEN 1 ELSE 0)
    BY DEF Tells, Balanced
  <2> QED BY <2>1, <2>3, <2>4
<1> QED BY <1>1, <1>2, <1>3, Invariant, PTL DEF Spec
-----------------------------------------------------------------------------
(* The order of the callbacks *)

EventAt(i) == Announced[i].event

\* The room starts once: its status never goes back to "created".  Its end
\* closes the queue, so that nothing can be announced after it.
OnceAndLast ==
  /\ \A i \in 1..Len(Announced) :
       EventAt(i) = "start" => Announced[i].call = RoomEvent /\ status \notin {"none", "created"}
  /\ \A i, j \in 1..Len(Announced) : EventAt(i) = "start" /\ EventAt(j) = "start" => i = j
  /\ \A i \in 1..Len(Announced) : EventAt(i) = "end" => i = Len(Announced) /\ cbClosed

\* Whoever hears of the start has heard of everybody in the room ...
JoinsTold ==
  fault = "none" /\ (interest = {} \/ "start" \in interest) =>
    \A d \in ToSet(participants) :
      \E j \in 1..Len(Announced) : Announced[j] = Announcement("join", d)

\* ... and there were two.
TwoBeforeStart ==
  \A i \in 1..Len(Announced) : EventAt(i) = "start" =>
    \E j, k \in 1..(i - 1) : j # k /\ EventAt(j) = "join" /\ EventAt(k) = "join"

\* The news that c joins or leaves, and of what it means for the room.
NewsOf(e, c, f, b) == News(e, c) \o (IF b THEN News(f, RoomEvent) ELSE <<>>)

LEMMA NewsOfTwo ==
  ASSUME NEW e \in Events, NEW f \in Events, e # f, NEW c \in Calls, NEW b \in BOOLEAN
  PROVE  LET s == NewsOf(e, c, f, b)
         IN  /\ s \in Seq(Announcements)
             /\ \A i \in 1..Len(s) :
                  \/ s[i] = Announcement(e, c)
                  \/ b /\ Wanted(f) /\ i = Len(s) /\ s[i] = Announcement(f, RoomEvent)
             /\ Wanted(e) => Len(s) >= 1 /\ s[1] = Announcement(e, c)
             /\ Wanted(e) => \A i \in 1..Len(s) : s[i].event = f => i = 2
<1> DEFINE x == Announcement(e, c)
           y == Announcement(f, RoomEvent)
           s == NewsOf(e, c, f, b)
<1>1. x \in Announcements /\ y \in Announcements /\ x.event = e /\ y.event = f
  BY DEF Announcement, Announcements
<1>2. s = (IF Wanted(e) THEN <<x>> ELSE <<>>) \o (IF b /\ Wanted(f) THEN <<y>> ELSE <<>>)
  BY DEF News, NewsOf
<1> HIDE DEF x, y, s
<1>3. <<x>> \in Seq(Announcements) /\ <<y>> \in Seq(Announcements)
  BY <1>1
<1>4. CASE Wanted(e) /\ b /\ Wanted(f)
  <2>1. s = Append(<<x>>, y)
    BY <1>1, <1>2, <1>3, <1>4, AppendIsConcat
  <2>2. s \in Seq(Announcements) /\ Len(s) = 2 /\ s[1] = x /\ s[2] = y
    BY <1>1, <2>1
  <2>3. \A i \in 1..Len(s) : i = 1 \/ i = 2
    BY <2>2
  <2>4. /\ \A i \in 1..Len(s) : s[i] = x \/ (i = Len(s) /\ s[i] = y)
        /\ \A i \in 1..Len(s) : s[i].event = f => i = 2
    BY <1>1, <2>2, <2>3
  <2>5. Len(s) >= 1
    BY <2>2
  <2>6. \A i \in 1..Len(s) : s[i] = x \/ (b /\ Wanted(f) /\ i = Len(s) /\ s[i] = y)
    BY <1>4, <2>4, Zenon
  <2>7. \A i \in 1..Len(s) : s[i].event = f => i = 2
    BY <2>4
  <2> QED BY <2>2, <2>5, <2>6, <2>7, Zenon DEF s, x, y
<1>5. CASE Wanted(e) /\ ~(b /\ Wanted(f))
  <2>1. s = <<x>>
    BY <1>2, <1>3, <1>5, ConcatEmptySeq
  <2>2. s \in Seq(Announcements) /\ Len(s) = 1 /\ s[1] = x
    BY <1>1, <2>1
  <2>3. \A i \in 1..Len(s) : i = 1
    BY <2>2
  <2> QED BY <1>1, <2>2, <2>3 DEF s, x, y
<1>6. CASE ~Wanted(e) /\ b /\ Wanted(f)
  <2>1. s = <<y>>
    BY <1>2, <1>3, <1>6, ConcatEmptySeq
  <2>2. s \in Seq(Announcements) /\ Len(s) = 1 /\ s[1] = y
    BY <1>1, <2>1
  <2>3. \A i \in 1..Len(s) : i = 1
    BY <2>2
  <2> QED BY <1>6, <2>2, <2>3 DEF s, x, y
<1>7. CASE ~Wanted(e) /\ ~(b /\ Wanted(f))
  <2>1. s = <<>>
    BY <1>2, <1>7
  <2>2. s \in Seq(Announcements) /\ Len(s) = 0
    BY <2>1
  <2>3. 1..Len(s) = {}
    BY <2>2
  <2> QED BY <1>7, <2>2, <2>3 DEF s, x, y
<1> QED BY <1>4, <1>5, <1>6, <1>7

\* What is sent is announced behind the rest, or there was a fault; nothing is
\* announced when the queue is closed.
LEMMA SentOrFault ==
  ASSUME TypeOK, NEW sent \in Seq(Announcements), NEW closes \in BOOLEAN,
         SendAll(sent, closes), fault = "none", UNCHANGED <<worker, posting, posted>>
  PROVE  \/ Announced' = Announced /\ cbClosed' = cbClosed /\ fault' # "none"
         \/ /\ Announced' = Announced \o sent /\ fault' = "none"
            /\ cbClosed' = (cbClosed \/ closes)
            /\ sent # <<>> => ~cbClosed
<1>1. CASE UNCHANGED <<cbq, cbClosed>> /\ fault' # "none"
  BY <1>1 DEF Announced
<1>2. CASE fault' = "none"
  <2>1. Announced' = Announced \o sent
    BY <1>2, SentIsAnnounced
  <2>2. cbClosed' = (cbClosed \/ closes) /\ (sent # <<>> => ~cbClosed)
    BY <1>2 DEF SendAll, TypeOK
  <2> QED BY <1>2, <2>1, <2>2
<1> QED BY <1>1, <1>2 DEF SendAll

\* The places of a sequence of announcements and of what comes behind it.
LEMMA Places ==
  ASSUME NEW s \in Seq(Announcements), NEW t \in Seq(Announcements)
  PROVE  /\ Len(s) \in Nat /\ Len(t) \in Nat
         /\ Len(s \o t) = Len(s) + Len(t)
         /\ \A i \in 1..Len(s) : (s \o t)[i] = s[i]
         /\ \A i \in 1..Len(t) : (s \o t)[Len(s) + i] = t[i]
         /\ \A i \in 1..Len(s \o t) : i \in 1..Len(s) \/ i - Len(s) \in 1..Len(t)
<1>1. Len(s) \in Nat /\ Len(t) \in Nat /\ s \o t \in Seq(Announcements)
      /\ Len(s \o t) = Len(s) + Len(t)
      /\ \A i \in 1..Len(s) + Len(t) :
           (s \o t)[i] = IF i <= Len(s) THEN s[i] ELSE t[i - Len(s)]
  BY ConcatProperties
<1>2. ASSUME NEW i \in 1..Len(t)  PROVE (s \o t)[Len(s) + i] = t[i]
  <2>1. Len(s) + i \in 1..Len(s) + Len(t) /\ ~(Len(s) + i <= Len(s)) /\ (Len(s) + i) - Len(s) = i
    BY <1>1
  <2> QED BY <1>1, <2>1
<1> QED BY <1>1, <1>2

\* Sending keeps OnceAndLast when the start is sent at the end, by the room that
\* starts, and the end of the room closes the queue.
LEMMA SendKeepsOrder ==
  ASSUME TypeOK, OnceAndLast, fault = "none",
         NEW sent \in Seq(Announcements), NEW closes \in BOOLEAN,
         SendAll(sent, closes), UNCHANGED <<worker, posting, posted>>,
         status \notin {"none", "created"} => status' \notin {"none", "created"},
         \A i \in 1..Len(sent) : sent[i].event = "start" =>
           /\ i = Len(sent) /\ sent[i].call = RoomEvent
           /\ status \in {"none", "created"} /\ status' \notin {"none", "created"},
         \A i \in 1..Len(sent) : sent[i].event = "end" => i = Len(sent) /\ closes
  PROVE  OnceAndLast'
<1> DEFINE A == Announced
           B == A \o sent
<1>1. A \in Seq(Announcements)
  BY AnnouncedType
<1>2. \/ Announced' = Announced /\ cbClosed' = cbClosed
      \/ /\ Announced' = B /\ cbClosed' = (cbClosed \/ closes)
         /\ sent # <<>> => ~cbClosed
  BY SentOrFault
<1>3. CASE Announced' = Announced /\ cbClosed' = cbClosed
  BY <1>3 DEF OnceAndLast, EventAt
<1>4. CASE /\ Announced' = B /\ cbClosed' = (cbClosed \/ closes)
           /\ sent # <<>> => ~cbClosed
  <2>1. /\ \A i \in 1..Len(A) : A[i].event = "start" =>
             A[i].call = RoomEvent /\ status \notin {"none", "created"}
        /\ \A i, j \in 1..Len(A) : A[i].event = "start" /\ A[j].event = "start" => i = j
        /\ \A i \in 1..Len(A) : A[i].event = "end" => i = Len(A) /\ cbClosed
    BY DEF OnceAndLast, EventAt
  <2>2. /\ Len(A) \in Nat /\ Len(sent) \in Nat /\ Len(B) = Len(A) + Len(sent)
        /\ \A i \in 1..Len(A) : B[i] = A[i]
        /\ \A i \in 1..Len(sent) : B[Len(A) + i] = sent[i]
        /\ \A i \in 1..Len(B) : i \in 1..Len(A) \/ i - Len(A) \in 1..Len(sent)
    BY <1>1, Places
  <2>3. cbClosed => Len(sent) = 0
    BY <1>4
  <2>4. Announced' = B
    BY <1>4
  <2> HIDE DEF A, B
  <2>5. ASSUME NEW i \in 1..Len(B)
        PROVE  \/ i \in 1..Len(A) /\ B[i] = A[i]
               \/ i > Len(A) /\ i - Len(A) \in 1..Len(sent) /\ B[i] = sent[i - Len(A)]
    <3>1. CASE i \in 1..Len(A)
      BY <2>2, <3>1
    <3>2. CASE i - Len(A) \in 1..Len(sent)
      <4>1. Len(A) + (i - Len(A)) = i /\ i > Len(A)
        BY <2>2, <3>2
      <4>2. B[Len(A) + (i - Len(A))] = sent[i - Len(A)]
        BY <2>2, <3>2
      <4> QED BY <3>2, <4>1, <4>2
    <3> QED BY <2>2, <3>1, <3>2
  <2>6. ASSUME NEW i \in 1..Len(B), B[i].event = "start"
        PROVE  B[i].call = RoomEvent /\ status' \notin {"none", "created"}
    BY <2>1, <2>5, <2>6
  <2>7. ASSUME NEW i \in 1..Len(B), NEW j \in 1..Len(B), B[i].event = "start", B[j].event = "start"
        PROVE  i = j
    <3>1. CASE i \in 1..Len(A) /\ B[i] = A[i]
      BY <2>1, <2>5, <2>7, <3>1
    <3>2. CASE i > Len(A) /\ i - Len(A) \in 1..Len(sent) /\ B[i] = sent[i - Len(A)]
      <4>1. i - Len(A) = Len(sent) /\ status \in {"none", "created"}
        BY <2>7, <3>2
      <4>2. j > Len(A) /\ j - Len(A) = Len(sent)
        BY <2>1, <2>5, <2>7, <4>1
      <4> QED BY <2>2, <4>1, <4>2
    <3> QED BY <2>5, <3>1, <3>2
  <2>8. ASSUME NEW i \in 1..Len(B), B[i].event = "end"
        PROVE  i = Len(B) /\ cbClosed'
    <3>1. CASE i \in 1..Len(A) /\ B[i] = A[i]
      <4>1. i = Len(A) /\ cbClosed
        BY <2>1, <2>8, <3>1
      <4>2. i = Len(B)
        BY <2>2, <2>3, <4>1
      <4> QED BY <1>4, <4>1, <4>2
    <3>2. CASE i > Len(A) /\ i - Len(A) \in 1..Len(sent) /\ B[i] = sent[i - Len(A)]
      <4>1. i - Len(A) = Len(sent) /\ closes
        BY <2>8, <3>2
      <4>2. i = Len(B)
        BY <2>2, <4>1
      <4> QED BY <1>4, <4>1, <4>2
    <3> QED BY <2>5, <3>1, <3>2
  <2> QED BY <2>4, <2>6, <2>7, <2>8 DEF OnceAndLast, EventAt
<1> QED BY <1>2, <1>3, <1>4

LEMMA OnceAndLastStep == ASSUME TypeOK, OnceAndLast, [Next]_vars  PROVE OnceAndLast'
<1> USE DEF confVars, roomVars, cbVars
<1>1. ASSUME Announced' = Announced, cbClosed' = cbClosed,
             status \notin {"none", "created"} => status' \notin {"none", "created"}
      PROVE  OnceAndLast'
  BY <1>1 DEF OnceAndLast, EventAt
<1>2. CASE Worker
  <2>1. UNCHANGED <<status, cbClosed>>
    BY <1>2 DEF Worker, WorkerReceive, WorkerPost, WorkerExit
  <2> QED BY <1>1, <1>2, <2>1, WorkerAnnouncesNothing
<1>3. CASE \/ Rests \/ Complete \/ Resume
           \/ \E c \in Calls : Drifts(c) \/ StartVerb(c) \/ CompletedViaApi(c)
  <2>1. UNCHANGED <<posted, worker, posting, cbq, cbClosed>>
    BY <1>3 DEF Rests, Complete, Resume, Drifts, StartVerb, CompletedViaApi
  <2>2. Announced' = Announced
    BY <2>1 DEF Announced
  <2>3. status \notin {"none", "created"} => status' \notin {"none", "created"}
    BY <1>3 DEF Rests, Complete, Resume, Drifts, StartVerb, CompletedViaApi
  <2> QED BY <1>1, <2>1, <2>2, <2>3
<1>4. ASSUME NEW c \in Calls, Join(c), fault = "none"  PROVE OnceAndLast'
  <2> DEFINE b == ShouldStart(Append(participants, c))
             sent == NewsOf("join", c, "start", b)
  <2>1. b \in BOOLEAN /\ (b => status = "created")
        /\ status' = (IF b THEN "in-progress" ELSE status)
    BY <1>4 DEF Join, ShouldStart
  <2>2. SendAll(sent, FALSE) /\ UNCHANGED <<worker, posting, posted>>
    BY <1>4 DEF Join, NewsOf
  <2> HIDE DEF b
  <2>3. /\ sent \in Seq(Announcements)
        /\ \A i \in 1..Len(sent) :
             \/ sent[i] = Announcement("join", c)
             \/ b /\ i = Len(sent) /\ sent[i] = Announcement("start", RoomEvent)
    <3>1. "join" \in Events /\ "start" \in Events
      BY DEF Events
    <3> QED BY <2>1, <3>1, NewsOfTwo
  <2> HIDE DEF sent
  <2>4. \A i \in 1..Len(sent) :
          /\ sent[i].event = "start" => b /\ i = Len(sent) /\ sent[i].call = RoomEvent
          /\ sent[i].event # "end"
    BY <2>3 DEF Announcement
  <2>5. \A i \in 1..Len(sent) : sent[i].event = "start" =>
          /\ i = Len(sent) /\ sent[i].call = RoomEvent
          /\ status \in {"none", "created"} /\ status' \notin {"none", "created"}
    BY <2>1, <2>4
  <2>6. status \notin {"none", "created"} => status' \notin {"none", "created"}
    BY <2>1
  <2> QED BY <1>4, <2>2, <2>3, <2>4, <2>5, <2>6, SendKeepsOrder
<1>5. ASSUME NEW c \in Calls, Leave(c), fault = "none"  PROVE OnceAndLast'
  <2>1. PICK b \in BOOLEAN : /\ SendAll(NewsOf("leave", c, "end", b), b)
                             /\ status' = IF b THEN "completed" ELSE status
    BY <1>5 DEF Leave, Farewell, NewsOf, EndsTheRoom
  <2> DEFINE sent == NewsOf("leave", c, "end", b)
  <2>2. SendAll(sent, b) /\ UNCHANGED <<worker, posting, posted>>
    BY <1>5, <2>1 DEF Leave
  <2>3. /\ sent \in Seq(Announcements)
        /\ \A i \in 1..Len(sent) :
             \/ sent[i] = Announcement("leave", c)
             \/ b /\ i = Len(sent) /\ sent[i] = Announcement("end", RoomEvent)
    <3>1. "leave" \in Events /\ "end" \in Events
      BY DEF Events
    <3> QED BY <2>1, <3>1, NewsOfTwo
  <2> HIDE DEF sent
  <2>4. \A i \in 1..Len(sent) :
          /\ sent[i].event # "start"
          /\ sent[i].event = "end" => i = Len(sent) /\ b
    BY <2>3 DEF Announcement
  <2>5. status \notin {"none", "created"} => status' \notin {"none", "created"}
    BY <2>1
  <2> QED BY <1>5, <2>2, <2>3, <2>4, <2>5, SendKeepsOrder
<1>6. CASE fault # "none"
  <2>1. UNCHANGED vars
    BY <1>6 DEF Next
  <2>2. Announced' = Announced
    BY <2>1 DEF vars, Announced
  <2> QED BY <1>1, <2>1, <2>2 DEF vars
<1> QED BY <1>2, <1>3, <1>4, <1>5, <1>6, StepForms

\* The start of a conference is announced at most once and its end last, for
\* any nouns, events wanted and requests.
THEOREM StartsOnceEndsLast == Spec => []OnceAndLast
<1>1. Init => OnceAndLast
  <2> SUFFICES ASSUME Init  PROVE OnceAndLast
    OBVIOUS
  <2>1. Announced = <<>>
    BY DEF Init, Announced
  <2>2. Len(Announced) = 0
    BY <2>1
  <2> QED BY <2>2 DEF OnceAndLast
<1>2. TypeOK /\ OnceAndLast /\ [Next]_vars => OnceAndLast'
  BY OnceAndLastStep
<1> QED BY <1>1, <1>2, TypeCorrect, PTL DEF Spec

\* A start comes second, behind the join of a call that finds somebody in the
\* room, who has been announced before.
LEMMA ToldStep ==
  ASSUME IInv, HasListener, JoinsTold, TwoBeforeStart,
         "start" \in interest => "join" \in interest, [Next]_vars
  PROVE  JoinsTold' /\ TwoBeforeStart'
<1> DEFINE P == ToSet(participants)
           A == Announced
           follows == interest = {} \/ "start" \in interest
<1> USE DEF confVars, roomVars, cbVars
<1>0. /\ TypeOK /\ A \in Seq(Announcements) /\ Len(A) \in Nat
      /\ P = {c \in Calls : pc[c] \in {"inside", "leaving"}}
  BY AnnouncedType DEF IInv, ParticipantsAreInside
<1>1. ASSUME Announced' = Announced, interest' = interest,
             fault' = "none" => fault = "none" /\ ToSet(participants') \subseteq P
      PROVE  JoinsTold' /\ TwoBeforeStart'
  <2>1. TwoBeforeStart'
    BY <1>1 DEF TwoBeforeStart, EventAt
  <2>2. JoinsTold'
    BY <1>1 DEF JoinsTold
  <2> QED BY <2>1, <2>2
<1>2. CASE Worker
  <2>1. Announced' = Announced /\ UNCHANGED <<interest, participants, fault>>
    BY <1>0, <1>2, WorkerAnnouncesNothing
    DEF Worker, WorkerReceive, WorkerPost, WorkerExit
  <2> QED BY <1>1, <2>1
<1>3. CASE \/ Rests \/ Complete \/ Resume
           \/ \E c \in Calls : Drifts(c) \/ StartVerb(c) \/ CompletedViaApi(c)
  <2>1. UNCHANGED <<posted, worker, posting, cbq, interest, participants, fault>>
    BY <1>3 DEF Rests, Complete, Resume, Drifts, StartVerb, CompletedViaApi
  <2>2. Announced' = Announced
    BY <2>1 DEF Announced
  <2> QED BY <1>1, <2>1, <2>2
<1>4. ASSUME NEW sent \in Seq(Announcements), Announced' = A \o sent, interest' = interest
      PROVE  /\ \A j \in 1..Len(A) : j \in 1..Len(Announced') /\ Announced'[j] = A[j]
             /\ \A m \in 1..Len(sent) : Len(A) + m \in 1..Len(Announced')
                                        /\ Announced'[Len(A) + m] = sent[m]
             /\ \A i \in 1..Len(Announced') : \/ i \in 1..Len(A)
                                              \/ \E m \in 1..Len(sent) : i = Len(A) + m
  <2>1. /\ Len(sent) \in Nat /\ Len(A \o sent) = Len(A) + Len(sent)
        /\ \A i \in 1..Len(A) : (A \o sent)[i] = A[i]
        /\ \A i \in 1..Len(sent) : (A \o sent)[Len(A) + i] = sent[i]
        /\ \A i \in 1..Len(A \o sent) : i \in 1..Len(A) \/ i - Len(A) \in 1..Len(sent)
    BY <1>0, <1>4, Places
  <2> DEFINE B == A \o sent
  <2>2. Announced' = B
    BY <1>4
  <2> HIDE DEF A, B
  <2>3. /\ Len(A) \in Nat /\ Len(sent) \in Nat /\ Len(B) = Len(A) + Len(sent)
        /\ \A i \in 1..Len(A) : B[i] = A[i]
        /\ \A i \in 1..Len(sent) : B[Len(A) + i] = sent[i]
    BY <1>0, <2>1 DEF B
  <2>4. ASSUME NEW i \in 1..Len(B), i \notin 1..Len(A)
        PROVE  \E m \in 1..Len(sent) : i = Len(A) + m
    <3>1. i - Len(A) \in 1..Len(sent) /\ i = Len(A) + (i - Len(A))
      BY <2>3, <2>4
    <3> QED BY <3>1
  <2> QED BY <2>2, <2>3, <2>4
<1>5. ASSUME NEW c \in Calls, Join(c), fault = "none"
      PROVE  JoinsTold' /\ TwoBeforeStart'
  <2> DEFINE b == ShouldStart(Append(participants, c))
             sent == NewsOf("join", c, "start", b)
  <2>1. /\ b \in BOOLEAN /\ SendAll(sent, FALSE)
        /\ UNCHANGED <<worker, posting, posted, interest>>
        /\ participants' = Append(participants, c)
    BY <1>5 DEF Join, ShouldStart, NewsOf
  <2>2. hasCallback
    BY <1>5 DEF Join, Move, Goto, HasListener
  <2>3. /\ sent \in Seq(Announcements)
        /\ \A m \in 1..Len(sent) : sent[m].event = "start" => b /\ Wanted("start")
        /\ Wanted("join") => Len(sent) >= 1 /\ sent[1] = Announcement("join", c)
        /\ Wanted("join") => \A m \in 1..Len(sent) : sent[m].event = "start" => m = 2
    <3>1. "join" \in Events /\ "start" \in Events
      BY DEF Events
    <3> HIDE DEF b
    <3>2. /\ sent \in Seq(Announcements)
          /\ \A m \in 1..Len(sent) :
               \/ sent[m] = Announcement("join", c)
               \/ b /\ Wanted("start") /\ m = Len(sent) /\ sent[m] = Announcement("start", RoomEvent)
          /\ Wanted("join") => Len(sent) >= 1 /\ sent[1] = Announcement("join", c)
          /\ Wanted("join") => \A m \in 1..Len(sent) : sent[m].event = "start" => m = 2
      BY <2>1, <3>1, NewsOfTwo
    <3> HIDE DEF sent
    <3> QED BY <3>2 DEF Announcement
  <2>4. follows => Wanted("join")
    BY <2>2 DEF Wanted
  <2>5. Wanted("start") => follows
    BY DEF Wanted
  <2>6. b => participants[1] \in P
    <3>1. ASSUME b  PROVE Len(participants) >= 1
      BY <1>0, <3>1 DEF ShouldStart, TypeOK
    <3> QED BY <1>0, <3>1, LenProperties DEF ToSet, TypeOK
  <2>7. ToSet(participants') = P \union {c}
    <3>1. c \notin P
      BY <1>0, <1>5 DEF Join, Move, Goto
    <3> QED BY <1>0, <2>1, <3>1, AppendToList DEF IInv, TypeOK, ParticipantsAreInside
  <2> HIDE DEF b, sent, P, follows
  <2>8. CASE Announced' = Announced /\ fault' # "none"
    BY <1>1, <2>1, <2>8
  <2>9. CASE Announced' = A \o sent /\ fault' = "none"
    <3>1. /\ \A j \in 1..Len(A) : j \in 1..Len(Announced') /\ Announced'[j] = A[j]
          /\ \A m \in 1..Len(sent) : Len(A) + m \in 1..Len(Announced')
                                     /\ Announced'[Len(A) + m] = sent[m]
          /\ \A i \in 1..Len(Announced') : \/ i \in 1..Len(A)
                                           \/ \E m \in 1..Len(sent) : i = Len(A) + m
      BY <1>4, <2>1, <2>3, <2>9
    <3>2. follows => \A d \in P : \E j \in 1..Len(A) : A[j] = Announcement("join", d)
      BY <1>5 DEF JoinsTold, P, follows
    <3>3. \A i \in 1..Len(A) : A[i].event = "start" =>
            \E j, k \in 1..(i - 1) : j # k /\ A[j].event = "join" /\ A[k].event = "join"
      BY DEF TwoBeforeStart, EventAt
    <3>4. follows => 1 \in 1..Len(sent) /\ sent[1] = Announcement("join", c)
      BY <2>3, <2>4
    <3> HIDE DEF A
    <3>5. JoinsTold'
      <4>1. SUFFICES ASSUME follows, NEW d \in P \union {c}
                     PROVE  \E j \in 1..Len(Announced') : Announced'[j] = Announcement("join", d)
        BY <2>1, <2>7 DEF JoinsTold, follows
      <4>2. CASE d \in P
        BY <3>1, <3>2, <4>1, <4>2
      <4>3. CASE d = c
        BY <3>1, <3>4, <4>1, <4>3
      <4> QED BY <4>2, <4>3
    <3>6. ASSUME NEW i \in 1..Len(Announced'), Announced'[i].event = "start"
          PROVE  \E j, k \in 1..(i - 1) :
                   j # k /\ Announced'[j].event = "join" /\ Announced'[k].event = "join"
      <4>1. CASE i \in 1..Len(A)
        <5>1. PICK j \in 1..(i - 1), k \in 1..(i - 1) :
                j # k /\ A[j].event = "join" /\ A[k].event = "join"
          BY <3>1, <3>3, <3>6, <4>1
        <5>2. j \in 1..Len(A) /\ k \in 1..Len(A)
          BY <1>0, <4>1
        <5> QED BY <3>1, <5>1, <5>2
      <4>2. ASSUME NEW m \in 1..Len(sent), i = Len(A) + m
            PROVE  \E j, k \in 1..(i - 1) :
                     j # k /\ Announced'[j].event = "join" /\ Announced'[k].event = "join"
        <5>1. sent[m].event = "start"
          BY <3>1, <3>6, <4>2
        <5>2. b /\ follows /\ m = 2
          BY <2>3, <2>4, <2>5, <5>1
        <5>3. PICK j \in 1..Len(A) : A[j] = Announcement("join", participants[1])
          BY <2>6, <3>2, <5>2
        <5>4. /\ j \in 1..(i - 1) /\ Len(A) + 1 \in 1..(i - 1) /\ j # Len(A) + 1
          BY <1>0, <4>2, <5>2
        <5>5. Announced'[j].event = "join" /\ Announced'[Len(A) + 1].event = "join"
          BY <3>1, <3>4, <5>2, <5>3 DEF Announcement
        <5> QED BY <5>4, <5>5
      <4> QED BY <3>1, <4>1, <4>2
    <3> QED BY <3>5, <3>6 DEF TwoBeforeStart, EventAt
  <2> QED BY <1>0, <1>5, <2>1, <2>3, <2>8, <2>9, SentOrFault
<1>6. ASSUME NEW c \in Calls, Leave(c), fault = "none"
      PROVE  JoinsTold' /\ TwoBeforeStart'
  <2>1. PICK b \in BOOLEAN : SendAll(NewsOf("leave", c, "end", b), b)
    BY <1>6 DEF Leave, Farewell, NewsOf, EndsTheRoom
  <2> DEFINE sent == NewsOf("leave", c, "end", b)
  <2>2. /\ SendAll(sent, b) /\ UNCHANGED <<worker, posting, posted, interest>>
        /\ ToSet(participants') = P \ {c}
    BY <1>0, <1>6, <2>1, RemoveFromList
    DEF Leave, Removed, IInv, TypeOK, ParticipantsAreInside
  <2>3. /\ sent \in Seq(Announcements)
        /\ \A m \in 1..Len(sent) : sent[m].event # "start"
    <3>1. "leave" \in Events /\ "end" \in Events
      BY DEF Events
    <3>2. /\ sent \in Seq(Announcements)
          /\ \A m \in 1..Len(sent) :
               \/ sent[m] = Announcement("leave", c)
               \/ b /\ Wanted("end") /\ m = Len(sent) /\ sent[m] = Announcement("end", RoomEvent)
      BY <3>1, NewsOfTwo
    <3> HIDE DEF sent
    <3> QED BY <3>2 DEF Announcement
  <2> HIDE DEF sent
  <2>4. CASE Announced' = Announced /\ fault' # "none"
    BY <1>1, <2>2, <2>4
  <2>5. CASE Announced' = A \o sent /\ fault' = "none"
    <3>1. /\ \A j \in 1..Len(A) : j \in 1..Len(Announced') /\ Announced'[j] = A[j]
          /\ \A m \in 1..Len(sent) : Len(A) + m \in 1..Len(Announced')
                                     /\ Announced'[Len(A) + m] = sent[m]
          /\ \A i \in 1..Len(Announced') : \/ i \in 1..Len(A)
                                           \/ \E m \in 1..Len(sent) : i = Len(A) + m
      BY <1>4, <2>2, <2>3, <2>5
    <3>2. follows => \A d \in P : \E j \in 1..Len(A) : A[j] = Announcement("join", d)
      BY <1>6 DEF JoinsTold
    <3>3. \A i \in 1..Len(A) : A[i].event = "start" =>
            \E j, k \in 1..(i - 1) : j # k /\ A[j].event = "join" /\ A[k].event = "join"
      BY DEF TwoBeforeStart, EventAt
    <3> HIDE DEF A, P
    <3>4. JoinsTold'
      BY <2>2, <3>1, <3>2 DEF JoinsTold
    <3>5. ASSUME NEW i \in 1..Len(Announced'), Announced'[i].event = "start"
          PROVE  \E j, k \in 1..(i - 1) :
                   j # k /\ Announced'[j].event = "join" /\ Announced'[k].event = "join"
      <4>1. i \in 1..Len(A)
        <5>1. ASSUME NEW m \in 1..Len(sent), i = Len(A) + m  PROVE FALSE
          <6>1. Announced'[Len(A) + m] = sent[m]
            BY <3>1
          <6> QED BY <2>3, <3>5, <5>1, <6>1
        <5> QED BY <3>1, <5>1
      <4>2. PICK j \in 1..(i - 1), k \in 1..(i - 1) :
              j # k /\ A[j].event = "join" /\ A[k].event = "join"
        BY <3>1, <3>3, <3>5, <4>1
      <4>3. j \in 1..Len(A) /\ k \in 1..Len(A)
        BY <1>0, <4>1
      <4> QED BY <3>1, <4>2, <4>3
    <3> QED BY <3>4, <3>5 DEF TwoBeforeStart, EventAt
  <2> QED BY <1>0, <1>6, <2>2, <2>3, <2>4, <2>5, SentOrFault
<1>7. CASE fault # "none"
  <2>1. UNCHANGED vars
    BY <1>7 DEF Next
  <2>2. Announced' = Announced
    BY <2>1 DEF vars, Announced
  <2> QED BY <1>1, <1>7, <2>1, <2>2 DEF vars
<1> QED BY <1>2, <1>3, <1>5, <1>6, <1>7, StepForms

\* The start is announced at most once and after two joins, and nothing after
\* the end: when every noun brings the callback, and whoever asks for the start
\* asks for the joins, too.
THEOREM CallbacksAreOrdered ==
  ASSUME WithCallback = Calls, \A I \in Interests : "start" \in I => "join" \in I
  PROVE  Spec => []CallbacksInOrder
<1>1. Init => HasListener /\ JoinsTold /\ TwoBeforeStart
  <2> SUFFICES ASSUME Init  PROVE HasListener /\ JoinsTold /\ TwoBeforeStart
    OBVIOUS
  <2>1. HasListener
    BY DEF Init, InitRunners, HasListener
  <2>2. Announced = <<>> /\ ToSet(participants) = {}
    BY DEF Init, Announced, ToSet
  <2>3. Len(Announced) = 0
    BY <2>2
  <2> QED BY <2>1, <2>2, <2>3 DEF JoinsTold, TwoBeforeStart
<1>2. IInv /\ HasListener /\ JoinsTold /\ TwoBeforeStart /\ [Next]_vars
        => HasListener' /\ JoinsTold' /\ TwoBeforeStart'
  BY ListenerStep, ToldStep DEF IInv, TypeOK
<1>3. ASSUME TypeOK, OnceAndLast, TwoBeforeStart  PROVE CallbacksInOrder
  <2>0. Announced \in Seq(Announcements) /\ Len(Announced) \in Nat
    BY <1>3, AnnouncedType
  <2>1. ASSUME NEW i \in 1..Len(Announced), Announced[i].event = "start"
        PROVE  Cardinality({j \in 1..(i - 1) : Announced[j].event = "join"}) >= 2
    <3> DEFINE J == {j \in 1..(i - 1) : Announced[j].event = "join"}
    <3>1. PICK j \in 1..(i - 1), k \in 1..(i - 1) :
            j # k /\ Announced[j].event = "join" /\ Announced[k].event = "join"
      BY <1>3, <2>1 DEF TwoBeforeStart, EventAt
    <3>2. {j, k} \in SUBSET J
      BY <3>1
    <3>3. IsFiniteSet(J)
      <4>1. IsFiniteSet(1..(i - 1))
        BY <2>0, FS_Interval
      <4> QED BY <4>1, FS_Subset
    <3>4. Cardinality({j, k}) = 2
      <4>1. {j, k} = {j} \union {k} /\ k \notin {j}
        BY <3>1
      <4>2. IsFiniteSet({j}) /\ Cardinality({j}) = 1
        BY FS_Singleton
      <4>3. Cardinality({j} \union {k}) = Cardinality({j}) + 1
        BY <4>1, <4>2, FS_AddElement
      <4> QED BY <4>1, <4>2, <4>3
    <3> HIDE DEF J
    <3>5. 2 <= Cardinality(J)
      BY <3>2, <3>3, <3>4, FS_Subset
    <3>6. Cardinality(J) \in Nat
      BY <3>3, FS_CardinalityType
    <3> QED BY <3>5, <3>6 DEF J
  <2>2. ASSUME NEW i \in 1..Len(Announced), Announced[i].event = "start"
        PROVE  CountOf("start", RoomEvent) = 1
    <3>1. \A k \in 1..Len(Announced) :
            Announced[k] = Announcement("start", RoomEvent) <=> Announced[k].event = "start"
      <4>1. \A k \in 1..Len(Announced) : Announced[k] \in Announcements
        BY <2>0, ElementOfSeq
      <4> QED BY <1>3, <4>1 DEF OnceAndLast, EventAt, Announcement, Announcements
    <3>2. {k \in 1..Len(Announced) : Announced[k] = Announcement("start", RoomEvent)} = {i}
      BY <1>3, <2>2, <3>1 DEF OnceAndLast, EventAt
    <3> QED BY <3>2, FS_Singleton DEF CountOf
  <2> QED BY <1>3, <2>1, <2>2 DEF CallbacksInOrder, OnceAndLast, EventAt
<1> QED BY <1>1, <1>2, <1>3, Invariant, TypeCorrect, StartsOnceEndsLast, PTL DEF Spec
=============================================================================
