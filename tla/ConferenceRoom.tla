--------------------------- MODULE ConferenceRoom ---------------------------
(***************************************************************************)
(* One conference room and the calls that execute <Dial><Conference> for   *)
(* it (engine/runner.go, engine/engine.go): who is in the room, its        *)
(* status, the completion by UpdateConference, and the worker goroutine    *)
(* that posts the conference's status callbacks from a bounded queue which *)
(* is written and closed with state.mu held.                               *)
(***************************************************************************)
EXTENDS VerbRunner, SequencesExt

CONSTANTS
  StartsOnEnter,  \* the calls whose noun has startConferenceOnEnter
  EndsOnExit,     \* the calls whose noun has endConferenceOnExit
  WithCallback,   \* the calls whose noun has a statusCallback
  HangupOnStar,   \* the calls whose Dial has hangupOnStar
  Interests,      \* the sets of events that statusCallbackEvent may list
  ApiStatuses     \* the statuses that the application asks UpdateConference for

Events == {"join", "leave", "start", "end"}

ASSUME NounAssumption ==
  /\ StartsOnEnter \subseteq Calls /\ EndsOnExit \subseteq Calls
  /\ WithCallback \subseteq Calls /\ HangupOnStar \subseteq Calls
ASSUME InterestAssumption == Interests \subseteq SUBSET Events
ASSUME ApiAssumption      == ApiStatuses \subseteq {"completed", "in-progress"}

VARIABLES
  status,        \* Conference.Status, "none" before the first call names it
  participants,  \* Conference.Participants
  interest,      \* StatusCallbackEvents, once a call has brought a callback
  hasCallback,   \* is StatusCallback set?
  cbq, cbClosed, \* CallbackQueue: what each queued callback announces
  worker,        \* the worker goroutine
  posting,       \* what it is posting
  posted,        \* the callbacks posted, a history
  completeCh,    \* the calls with a token in conferenceCompleteCh
  fault          \* "panic": the process died; "blocked": state.mu is held
                 \* for ever by a send on a full CallbackQueue

roomVars == <<status, participants, interest, hasCallback>>
cbVars   == <<cbq, cbClosed, worker, posting, posted>>
confVars == <<roomVars, cbVars, completeCh, fault>>
vars     == <<runnerVars, confVars>>

Points == {"running", "holding", "joining", "inside", "leaving", "gone"}

CallbackQueueCap == 10

RoomEvent == "room"   \* the subject of an event of the conference itself

Announcement(e, who) == [event |-> e, call |-> who]

Init ==
  /\ InitRunners
  /\ status = "none" /\ participants = <<>>
  /\ interest \in Interests /\ hasCallback = FALSE
  /\ cbq = <<>> /\ cbClosed = FALSE
  /\ worker = "receiving" /\ posting = Announcement("end", RoomEvent)
  /\ posted = <<>>
  /\ completeCh = {}
  /\ fault = "none"
-----------------------------------------------------------------------------
(* The callback queue *)

\* shouldSendConferenceStatusCallback, and "if conf.StatusCallback # ''".
Wanted(e) == hasCallback /\ (interest = {} \/ e \in interest)

\* What a goroutine has to send when the event e happens to `who`.
News(e, who) == IF Wanted(e) THEN <<Announcement(e, who)>> ELSE <<>>

\* A goroutine sends what it has, one after the other, and then closes the
\* queue if `closes`, all with state.mu held.  To send on a closed
\* channel, or to close it again, panics.  When the queue is full the goroutine
\* waits for the worker; the worker, once it has received, needs state.mu to
\* log its post, so a second wait is for ever.
SendAll(sent, closes) ==
  LET fits == Len(cbq) + Len(sent) <= CallbackQueueCap
  IN IF cbClosed /\ (sent # <<>> \/ closes)
     THEN fault' = "panic" /\ UNCHANGED <<cbq, cbClosed>>
     ELSE IF sent = <<>> \/ fits
     THEN cbq' = cbq \o sent /\ cbClosed' = (cbClosed \/ closes) /\ UNCHANGED fault
     ELSE worker = "posting" /\ fault' = "blocked" /\ UNCHANGED <<cbq, cbClosed>>

\* `for fn := range conf.CallbackQueue { fn() }`
WorkerReceiveUntilClosed ==   \* a mutant of WorkerReceive
  /\ worker = "receiving" /\ cbq # <<>> /\ ~cbClosed
  /\ worker' = "posting" /\ posting' = Head(cbq) /\ cbq' = Tail(cbq)
  /\ UNCHANGED <<runnerVars, roomVars, cbClosed, posted, completeCh, fault>>

WorkerReceive ==
  /\ worker = "receiving" /\ cbq # <<>>
  /\ worker' = "posting" /\ posting' = Head(cbq) /\ cbq' = Tail(cbq)
  /\ UNCHANGED <<runnerVars, roomVars, cbClosed, posted, completeCh, fault>>

WorkerPost ==
  /\ worker = "posting"
  /\ worker' = "receiving" /\ posted' = Append(posted, posting)
  /\ UNCHANGED <<runnerVars, roomVars, cbq, cbClosed, posting, completeCh, fault>>

WorkerExit ==
  /\ worker = "receiving" /\ cbq = <<>> /\ cbClosed
  /\ worker' = "exited"
  /\ UNCHANGED <<runnerVars, roomVars, cbq, cbClosed, posting, posted,
                 completeCh, fault>>

Worker == WorkerReceive \/ WorkerPost \/ WorkerExit
-----------------------------------------------------------------------------
(* executeDialConference *)

\* getOrCreateConference: a completed conference of that name is used again.
StartVerb(c) ==
  /\ ReachVerb(c, "holding")
  /\ status' = IF status = "none" THEN "created" ELSE status
  /\ hasCallback' = (hasCallback \/ c \in WithCallback)
  /\ UNCHANGED <<participants, interest, cbVars, completeCh, fault>>

\* Two participants, one of them with StartConferenceOnEnter.
ShouldStart(present) ==
  /\ status = "created"
  /\ Len(present) >= 2
  /\ \E i \in 1..Len(present) : present[i] \in StartsOnEnter

Join(c) ==
  LET present == Append(participants, c)
      started == IF ShouldStart(present)
                 THEN News("start", RoomEvent) ELSE <<>>
  IN /\ Move(c, "joining", "inside")
     /\ participants' = present
     /\ status' = IF ShouldStart(present) THEN "in-progress" ELSE status
     /\ SendAll(News("join", c) \o started, FALSE)
     /\ UNCHANGED <<interest, hasCallback, worker, posting, posted, completeCh>>

\* The select of a participant.
InterruptedByClose(c) ==   \* a mutant of Interrupted
  /\ shutdown
  /\ Move(c, "inside", "leaving")
  /\ UNCHANGED confVars

Interrupted(c) ==
  /\ shutdown \/ c \in hungup
  /\ Move(c, "inside", "leaving")
  /\ UNCHANGED confVars

StarPressed(c) ==
  /\ c \in HangupOnStar
  /\ Move(c, "inside", "leaving")
  /\ UNCHANGED confVars

UrlUpdated(c) == TakeUrl(c, "inside", "leaving") /\ UNCHANGED confVars

CompletedStays(c) ==   \* a mutant of CompletedViaApi
  /\ c \in completeCh
  /\ Move(c, "inside", "inside")
  /\ completeCh' = completeCh \ {c}
  /\ UNCHANGED <<roomVars, cbVars, fault>>

CompletedViaApi(c) ==
  /\ c \in completeCh
  /\ Move(c, "inside", "leaving")
  /\ completeCh' = completeCh \ {c}
  /\ UNCHANGED <<roomVars, cbVars, fault>>

\* removeFromConference: the conference ends with its last participant or one
\* with EndConferenceOnExit, unless it is completed already.
EndsTheRoom(c, left) ==
  status # "completed" /\ (c \in EndsOnExit \/ left = <<>>)

RemovedOnHangup(c) ==   \* a mutant of Removed
  IF c \in hungup THEN RemoveFirst(participants, c) ELSE participants

Removed(c) == RemoveFirst(participants, c)

\* The leave is announced, and then the end.
FarewellEndFirst(c, ends) ==   \* a mutant of Farewell
  (IF ends THEN News("end", RoomEvent) ELSE <<>>) \o News("leave", c)

Farewell(c, ends) ==
  News("leave", c) \o (IF ends THEN News("end", RoomEvent) ELSE <<>>)

Leave(c) ==
  LET left == Removed(c)
      ends == EndsTheRoom(c, left)
  IN /\ Move(c, "leaving", "running")
     /\ participants' = left
     /\ status' = IF ends THEN "completed" ELSE status
     /\ SendAll(Farewell(c, ends), ends)
     /\ UNCHANGED <<interest, hasCallback, worker, posting, posted, completeCh>>
-----------------------------------------------------------------------------
(* UpdateConference *)

Complete ==
  /\ status # "none" /\ "completed" \in ApiStatuses
  /\ status' = "completed"
  /\ completeCh' = completeCh \union ToSet(participants)
  /\ UNCHANGED <<runnerVars, participants, interest, hasCallback, cbVars, fault>>

Resume ==
  /\ status # "none" /\ "in-progress" \in ApiStatuses
  /\ status' = "in-progress"
  /\ UNCHANGED <<runnerVars, participants, interest, hasCallback, cbVars,
                 completeCh, fault>>
-----------------------------------------------------------------------------
\* What the goroutine of a call does of itself ...
Step(c) ==
  \/ HoldEnds(c, "joining") /\ (shutdown \/ c \in hungup) /\ UNCHANGED confVars
  \/ Join(c) \/ Interrupted(c) \/ UrlUpdated(c) \/ CompletedViaApi(c) \/ Leave(c)
  \/ (HangsUp(c) \/ ShutsDown(c)) /\ UNCHANGED confVars

\* ... and what depends on documents, webhooks and keys.
Choice(c) ==
  \/ StartVerb(c)
  \/ (Between(c) \/ Hold(c, "joining")) /\ UNCHANGED confVars
  \/ StarPressed(c)

\* A fault ends everything.
Next ==
  /\ fault = "none"
  /\ \/ Worker
     \/ \E c \in Calls : Step(c) \/ Choice(c)
     \/ Api /\ UNCHANGED confVars
     \/ Complete \/ Resume

Spec == Init /\ [][Next]_vars

\* Goroutines are scheduled, and select does not pass over a ready case for
\* ever.  Keys and the progress of documents are not assumed.
FairSpec ==
  /\ Spec
  /\ WF_vars(Worker /\ fault = "none")
  /\ \A c \in Calls : /\ WF_vars(Step(c) /\ fault = "none")
                      /\ SF_vars(HangsUp(c) /\ UNCHANGED confVars /\ fault = "none")
-----------------------------------------------------------------------------
Announcements == [event : Events, call : Calls \union {RoomEvent}]

TypeOK ==
  /\ RunnersOK(Points)
  /\ status \in {"none", "created", "in-progress", "completed"}
  /\ participants \in Seq(Calls)
  /\ interest \in Interests /\ hasCallback \in BOOLEAN
  /\ cbq \in Seq(Announcements) /\ Len(cbq) <= CallbackQueueCap
  /\ cbClosed \in BOOLEAN
  /\ worker \in {"receiving", "posting", "exited"}
  /\ posting \in Announcements /\ posted \in Seq(Announcements)
  /\ completeCh \subseteq Calls
  /\ fault \in {"none", "panic", "blocked"}

\* Conference.Participants lists exactly the calls that are in the room, each
\* once, through every way to leave it.
ParticipantsAreInside ==
  /\ ToSet(participants) = {c \in Calls : pc[c] \in {"inside", "leaving"}}
  /\ IsInjective(participants)

\* What has been announced to the application so far, and what will be.
Announced ==
  posted \o (IF worker = "posting" THEN <<posting>> ELSE <<>>) \o cbq

CountOf(e, c) ==
  Cardinality({i \in 1..Len(Announced) : Announced[i] = Announcement(e, c)})

\* An application that follows the join and leave callbacks knows who is in
\* the room: every announcement made with state.mu held reaches the queue in
\* the order of the changes.  (Every noun brings the callback.)
CallbacksTellTheRoom ==
  fault = "none" =>
    \A c \in Calls :
      CountOf("join", c) - CountOf("leave", c) = IF c \in ToSet(participants) THEN 1 ELSE 0

\* The start is announced at most once and after two joins; nothing is
\* announced after the end.
CallbacksInOrder ==
  /\ \A i \in 1..Len(Announced) :
       Announced[i].event = "start" =>
         /\ Cardinality({j \in 1..(i - 1) : Announced[j].event = "join"}) >= 2
         /\ CountOf("start", RoomEvent) = 1
  /\ \A i \in 1..Len(Announced) : Announced[i].event = "end" => i = Len(Announced)

\* A closed queue is drained and its worker exits.
ClosedQueueDrains == cbClosed ~> worker = "exited" \/ fault # "none"

\* A call that is hung up returns, wherever it is.
HangupEndsCall == \A c \in Calls : c \in hungup ~> pc[c] = "gone" \/ fault # "none"

\* UpdateConference(completed) sends everybody in the room away, though each
\* token may meet a hangup, a new URL or an exit of its own.
CompletionEmptiesRoom ==
  \A c \in Calls : c \in completeCh /\ pc[c] = "inside" ~> pc[c] # "inside" \/ fault # "none"
-----------------------------------------------------------------------------
(* What the comments of the code say, and it does not do *)

\* "Close the callback queue after the conference ends": nobody uses it then.
NoPanic == fault # "panic"

\* The CallbackQueue is "buffered to avoid blocking".
NeverBlocked == fault # "blocked"

\* "Close the callback queue after the conference ends; this allows the worker
\* goroutine to exit cleanly".
EndedRoomReleasesWorker == status = "completed" ~> worker = "exited" \/ fault # "none"

\* conferenceCompleteCh "signals conference completion via API": a call that
\* joins has no token of an earlier visit, which would send it away at once.
JoinsAfresh ==
  [][\A c \in Calls : pc[c] = "joining" /\ pc'[c] = "inside" => c \notin completeCh]_vars

\* "If this participant has EndConferenceOnExit=true, end the conference": the
\* others are notified to exit, as UpdateConference does.
EndNotifiesParticipants ==
  [][status # "completed" /\ status' = "completed" =>
       ToSet(participants') \subseteq completeCh']_vars
=============================================================================
