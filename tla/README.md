# A formal model of Twimulator

Twimulator simulates the voice API of Twilio: an application creates calls, the
simulator executes the TwiML that the application serves, and the application is
told of what happens through webhooks. Everything runs in one process, in many
goroutines, around maps that hang off one lock per subaccount. This directory
holds TLA+ models of its core (`engine/runner.go`, `engine/engine.go`,
`engine/clock.go`, `twiml/parser.go`), the TLC configurations that check them,
and TLAPS proofs.

## 1. Inventory

| part | state | operations | interacts with |
|---|---|---|---|
| call lifecycle (`runner.go` 84-203, `engine.go` 365-560, 1630-1990, 2755-2810) | `Status`, `Url`, `AnsweredAt`, `EndedAt`; the channels of its `CallRunner`; where the runner is | `CreateCall`, `CreateIncomingCall`, `AnswerCall`, `SetCallBusy`, `SetCallFailed`, `Hangup`, `UpdateCall`, `Close`; the runner's own steps | everything below, through `hangupCh`, `answerCh`, `busyCh`, `failedCh`, `urlUpdateCh` |
| status callbacks (`engine.go` 2783-2936) | `CallbackQueue` (capacity 10), one worker goroutine per call | send and close under `state.mu`; receive, build the form, post | call lifecycle, webhook client |
| queues (`runner.go` 628-1028, 1578-1808) | `Queue.Members`, `dequeueCh`, `bridgeEndCh` | `<Dial><Queue>`, `<Enqueue>`, `removeFromQueue` | two runners at a time |
| conferences (`runner.go` 1031-1194, 2215-2304; `engine.go` 2132-2300, 2938-3100) | `Status`, `Participants`, participant states, a callback queue and its worker, `conferenceCompleteCh` | `<Dial><Conference>`, `UpdateConference`, `UpdateParticipant` | all runners in the room |
| Dial Number, Client, Sip (`runner.go` 1196-1576) | `childCalls`, `completedChildren`, `childStatusCh`, the legs | create, monitor, bridge, hang up | the dialing call and its child calls |
| Gather, SendDigits (`runner.go` 434-576; `engine.go` 1996-2045) | `gatherCh`, `Variables["Digits"]` | digits, finish key, timeout | call lifecycle |
| Record, recordings (`runner.go` 1977-2052, 2306-2387; `engine.go` 3135-3230) | `recordings`, `callVoicemails` | `<Record>`, `SetCallVoicemail`, `SetCallRecording` | dial, lifecycle |
| clocks (`clock.go`) | time, a heap of timers, a ticker | `After`, `AfterFunc`, `Stop`, `Advance` | every wait |
| TwiML parser (`twiml/`) | the position in the document | `Parse`: the tokens of a document to a tree of nodes | runner |
| account resources (`engine.go`) | accounts, numbers, applications, addresses, keys, SIP domains and credentials | create, read, update, delete | call creation |
| locking | `subAccountsMu`, one `state.mu` per subaccount | | everything |
| access tokens, webhook client, REST adapter, console, example | | I/O, pure functions, forwarding | |

What is hard in this code: each call is a goroutine that selects on up to eight
channels; statuses are changed by the runner and by API calls at the same time;
a lookup and the action on its result are often two critical sections; sends are
either dropped (`default:`) or made with `state.mu` held; several queues are
closed by whoever ends their owner; hangups, URL updates, completions and
shutdown must get a goroutine out of every wait; timers are run outside the lock
by whichever thread moved the clock; account resources are stored twice and
looked up in one place to be changed in the other. `PROJECT.json` lists these
hazards line by line with the properties that watch them. The properties that
make each part correct are in section 4.

## 2. Modules

| module | what it is | extends |
|---|---|---|
| `CallStatus` | statuses; `updateCallStatusLocked`'s decisions; `shouldSendStatusCallback` | |
| `CallProtocol` | abstract: what a call promises its application | `CallStatus` |
| `CallLifecycle` | one call, its runner, its worker, the API | `CallStatus` |
| `VerbRunner` | what several runners do around the connecting verbs | |
| `QueueBridge` | one queue and the calls that meet in it | `VerbRunner` |
| `ConferenceRoom` | one conference, its participants and its worker | `VerbRunner` |
| `DialNumber` | one Dial with legs: creators, monitors, legs' runners | `CallStatus` |
| `CallerInput` | what one call hears of its caller: digits and recordings | |
| `AdvancableClock` | the clock, its ticker and other threads, its timers | |
| `NumberRegistry` | abstract: what an account promises of its phone numbers | |
| `AccountResources` | the resources of a subaccount and the calls they let in | |
| `TwimlParser` | `twiml.Parse` over the tokens of the XML decoder | |
| `...Proofs` | the theorems of section 6 | the module of that name, `TLAPS` |
| `MC...` | definitions for TLC's constants | the module of that name |

**CallLifecycle.** `pc` is where `Run`, `answer` or a verb is; each select, each
critical section and each fetch is a step. Closed channels are a set (`closed`);
`urlUpdateCh`, a channel of capacity one with dropped sends, is a Boolean. The
document is chosen node by node. `executeTwiML` looks at the context and at
`hangupCh` without a lock (`NextNode`, to the point `node`), and what the node does
comes in later sections, so that a hangup may come in between: `StartVerb` is the
`trackCallTwiML` every verb begins with, `SkipNode` a node that is no verb.
`lateVerbs` counts the verbs that `ExecutedTwiML` got after the end of the call. Say,
Play and Pause are `playing`, `loop="0"` is `looping`, a Gather with nested verbs starts at `prompting`. An action
callback or Redirect that is fetched continues at `exec`. `UpdateStatus` is
`updateCallStatusLocked` with its send and close; `fault` records a panic or a
send that blocks with the lock held, and then everything stops. `reports` is what
the application received: which event a callback was queued for and which status
it said. One variable is history: `endDue`, whether the end of the call was to be
reported when it came. Connecting verbs (Dial, Enqueue) are not among its nodes; their modules
take the rest of the call as the point `running`, which may be left for the next
verb, for the end or by an error at any time.

**QueueBridge.** A call goes `looking` (under RLock), `signalling` (the target
gets a `dequeueResult`), `talking`; or `joining`, `waiting` (the select),
`leaving` (`removeFromQueue`), `bridged`. An Enqueue is `holding` before that:
`executeWait` runs the wait document once. `partner` is what a local variable or
the received `dequeueResult` names. `dequeueCh` and `bridgeEndCh` have capacity one
and drop. The action and recording callbacks after a bridge belong to `running`.
A Dial or Enqueue nested in a wait document is not modelled. The first bridge of
a call and the ones after it are told apart by `verbs`.

**ConferenceRoom.** `holding`, `joining`, `inside`, `leaving`. `SendAll` sends
announcements and closes the queue in one critical section, and records a panic
(closed queue) or a deadlock (full queue while the worker has received and needs
`state.mu`). When the queue is full and the worker is about to receive, the sender
waits: the step is not enabled until there is room. A conference is never
deleted: a completed one is used again by the next call that names it, as
`getOrCreateConferenceLocked` does. Mute, hold and a second room are not modelled.

**DialNumber.** `dial` is where `executeDialNumber` is: `spawning` the creator
goroutines, `joining` (wg.Wait), `waiting` (waitLoop), `talking`, `reporting` (the
action callback and its document), `over` (the deferred `hangupAllChildren` has
run). `made[l]` is the creator's progress, `monitor[l]` the goroutine that selects on
the leg's channels, `run[l]` the leg's runner, condensed from CallLifecycle: the
select of `Run` and the status update that follows it are one step, which hides
nothing because the verdict channels stay closed. `Documents` are the legs whose
node has a `url`. The nodes may come in any order.

**CallerInput.** One runner goes through verbs of its choice: Gather, Record, Dial,
Redirect. `gatherCh` holds one message; `sending[s]` is a
thread that blocks in the select of `SendDigits` because there is no room.
`executeGather` is `prompting`, `collecting` (the select, with its inner loop over
the keys of a message), `gathered` (the action). `digits` is `Variables["Digits"]`
with the verb that collected it, a history that the code does not have; `requests`
is what the application was sent. `recordings` are those that `SetCallVoicemail` and
`SetCallRecording` made, in their order: `callVoicemails` and `callRecordings` name
the last one of their kind (`LastSet`). A Dial is `dialing` (its modules say what
happens), `dialed` (`invokeRecordingCallback`), `told` (its action). `leaked` is the
read lock that `SendDigits` keeps when it does not know the call: from then on
nothing that writes goes on.

**AdvancableClock.** `AutoAdvancableClock` and the `ManualClock` in it. A call reads
real time (`Begin`), claims the interval under `clock.mu` (`Sync`), adds it under
`manual.mu` and pops the first due timer (`Move`), runs its function without a lock
(`Run`), pops the next one (`FireNext`), and at last does what it was for (`Return`,
`Arm`). `Cancel` writes `stopped` of a timer at any moment.

**AccountResources.** One action per method and critical section; requests that are
refused change nothing and are no steps. Numbers are kept in `incomingNumbers` (for
routing) and in `accountNumbers` (for snapshots); mappings of credential lists are
kept with the account and with their domain. `UpdateIncomingPhoneNumber` is two
steps: `FindNumber` under RLock, `UpdateNumber` under Lock, where the number may have
been released, and its phone provisioned anew. `calls` is what let each call in.

**TwimlParser.** `stack` has a frame for each parse function that is active, `open`
is the decoder's stack of elements, `skipping` how many of them are inside of an
element that `Skip` or `DecodeElement` consumes. The tokens come in any order that
is well-formed. The attributes of an element are valid or not (`wrong`), words are
told apart, white space and comments are left out. Input that ends inside of an
element is a syntax error of the decoder, so that the `io.EOF` breaks of the loops
are never taken; that a function returns with its own element is proved. What a
document means is defined apart from all this at the end of the module (`Relevant`,
`Faulty`, `Meaning`), by recursion over its items, as one would read it with the whole
tree at hand; `CharData`, which stands for a word, is no name of an element.

## 3. Plan

1. *Done:* the call lifecycle with its protocol; queues; conferences; Dial with
   legs; the caller's input; the clock; account resources with their registry; the
   parser. Proofs about each of them: of every invariant and every safety property of
   the runs.
2. *Left:* calls that go from one conference to another; the order of
   `subAccountsMu` and `state.mu`.
3. *Left:* an abstract bridge (two ends, both leave) that QueueBridge and DialNumber
   implement under the conditions in which they do. Section 5 shows that neither
   does without such conditions, which is why the bridge is stated as separate
   properties for now.
4. *Left:* proofs that say under which conditions on the constants the departures of
   section 5 do not happen, as `CallbacksAreTrue` does for the applications that take
   every callback.

## 4. Runs

| run | instance | what it shows |
|---|---|---|
| `call_safety` | one URL, callers that want every event or only ringing, callbacks set and unset by `UpdateCall` | no panic and no blocking send; the queue is closed exactly at the end; a returning runner leaves its call ended; a new URL is not lost while the call is live; callbacks are in order; the end is reported last, with the status the call ended with, and has been when the worker exits if it was wanted; at most one verb, which had been let pass before, begins on an ended call |
| `call_liveness` | one URL, every event wanted | a hangup ends the runner; the worker exits after the end; the call implements `CallProtocol`, fairness included |
| `queue` | a dialer with the star key, a caller with `<Hangup/>` in its wait document, two verbs each | `Members` is exactly who waits, through every exit; nobody is left alone in its first bridge; hangups end calls and Close empties the queue |
| `conference` | a call that starts the room and another, completion by the API | a closed callback queue is drained; hangups and `UpdateConference` get every call out |
| `conference_told` | one call that starts the room and one that ends it, twice each, resumed by the API, every callback wanted | `Participants` is who is inside; whoever follows the callbacks knows who is inside; the start comes once and after two joins, the end last |
| `conference_panic` | two calls that come once each, every callback wanted | the departure of section 5 that a run is kept for |
| `dial` | two legs with documents and urls that may be bad, the star key, every verdict | the DialCallStatus rests on what was done to the legs; no leg that was waited for is forgotten |
| `dial_liveness` | two legs that race | every verdict is heard; losers end; a hangup ends the Dial, the legs and the monitors |
| `input` | two verbs, two messages of up to three keys, two recordings, a Gather of each kind | a Gather hears exactly its keys however they were sent; its action is the only one told of them; a Record or a Dial reports a recording of its kind that was set during it, or a later one; a hangup ends the call |
| `clock` | the ticker and another thread, two timers that wait zero or two, one `Advance` | no time is lost or added twice; a timer is run once; none that is due is left behind; each fires while the clock ticks |
| `resources` | two phones, two SIDs, two SIP domains of one name, two calls | both copies of the numbers agree, also through stale updates; only softphones reach an application that does not exist; caller ids and SIP callers are known; numbers implement `NumberRegistry` |
| `twiml` | documents of six elements and words, a name of each kind and an unknown one | `Parse` refuses exactly the documents with a faulty element and returns the TwiML of the others |

*Bounds.* `MaxVerbs` bounds how often a call comes to the queue or the room, or how
many verbs it gathers and records in: two visits are what it takes to meet what the
first one left behind. `CallbackQueueCap` is the code's 10. `Requests` says which
API calls a run of DialNumber makes besides hanging up the dialing call. Outside of
AdvancableClock time is not counted: a timer may fire at any moment after it is
armed. In it, `MaxReal` is 3 and `MaxAdvanced` 1, enough for a timer of duration two
to be armed late, and for the ticker to be overtaken by `Advance` while it runs
timers. One URL is enough for `NoLostUrlUpdate` because `NoUrl` is the second
value. Two SIDs and two phones are enough for a number to be found, released, and
its phone given to another number before the update. Six items are enough for a
Response, a Dial in it, a Client in that, an Identity with a word, and one more. The
proofs do without these bounds.

*Deadlock.* The conference runs set `CHECK_DEADLOCK FALSE`: a panic stops the
process and a blocked lock stops every goroutine that needs it, and these states
are reachable (section 5). So does `twiml`: Parse returns. In all other runs TLC
checks for deadlock.

*Symmetry* is used in `dial` and `resources` only: safety runs, of legs, phones, SIDs
and domains that the constants do not distinguish.

*Fairness.* Goroutines that can run do (`WF` of each goroutine's own steps), which
is the Go scheduler. Go's select picks among ready cases at random, so a case that
is ready again and again is taken: `SF` of the hangup case of the main loop, which
competes with URL updates that the application may send for ever. Nothing is
assumed of applications, keys and digits, or how long a document lasts, except that
a document is left once the call was hung up: executeTwiML looks at `hangupCh` before
each node and every wait selects on it. In CallerInput (`MustGoOn`) prompts end, a Gather
goes on once it was hung up, shut down or given a new URL, a Record or Dial once it
was hung up or shut down; nobody has to type. In the clock, real time passes (up to its bound) and the ticker, a
`time.Ticker`, begins again and again.

## 5. Where the code departs from its comments

`conference_panic` (`NoPanic`) has TLC find that the callback queue is closed when a
conference ends, and the conference is used again by name, or still has people
inside; the next join or leave sends on the closed channel and the process dies.

The modules state more of the same kind at their end, under "Not true of the code".
A `Departures` configuration holds the ones of a module, all commented out but the
first, since TLC stops at the first one that is violated (`tlc -config <cfg> <module>`):

| cfg, module | definition | behaviour |
|---|---|---|
| MCCallLifecycleTold, MCCallLifecycle | `ToldOnlyWhatWasAsked` | the form is built when it is posted: who asked for ringing is told canceled |
| | `EndLosesNoUpdate` | at the end of its document the runner closes its own `hangupCh` and selects on it and on `urlUpdateCh`: a URL set before, during a Record for example, may be lost |
| MCQueueShared, MCQueueBridge | `OneBridgePerMember` | `executeDialQueue` picks `Members[0]` and leaves it in the list: two dialers bridge with one member |
| MCQueueCallers, MCQueueBridge | `CallersMeetAgents` | the second of two Enqueues bridges with the first |
| MCQueueDepartures, MCQueueBridge | `HangupEndsBridge` | a member that is hung up before it takes its `dequeueResult` never tells its partner |
| | `NoMissedMatch` | a dialer and a caller both find the queue empty and wait side by side |
| | `StaleBridgeEnd` | a token of an earlier bridge ends a later one |
| | `CompletedCallsStop` | after `<Hangup/>` in the wait document the completed call joins the queue |
| MCConfBlocked, MCConferenceRoom | `NeverBlocked` | with a slow webhook the queue fills up; the sender holds `state.mu`, which the worker needs to go on |
| MCConfDepartures, MCConferenceRoom | `EndNotifiesParticipants` | endConferenceOnExit leaves the others inside |
| | `EndedRoomReleasesWorker` | `UpdateConference` does not close the callback queue |
| | `JoinsAfresh` | a token in `conferenceCompleteCh` that was not taken throws the call out of the room at its next visit |
| MCDialOrphan, MCDialNumber | `NoOrphanLegs` | a url that does not resolve returns before wg.Wait; the leg being created rings for ever |
| MCDialDepartures, MCDialNumber | `LegEndsBridge` | the bridge watches the leg's `hangupCh`; a leg that ends by `<Hangup/>` or by an error does not close it |
| | `CompletedLegsEndWait` | legs that are hung up or time out are not heard |
| | `AnsweredLegIsNotBusy` | monitor and leg take different cases: bridged with a busy leg |
| | `UrlUpdateEndsBridge` | no select of executeDialNumber takes from `urlUpdateCh` |
| | `NoLateAnswer` | legs can be answered while the action's document is executed |
| MCInputDepartures, MCCallerInput | `DigitsSentOnce` | the digits of a Gather without action go into every request until an action was fetched |
| | `RecordingIsOfItsVerb` | a Record or a Dial reports the recording of an earlier one |
| | `LockIsReleased` | SendDigits to a call that is not known keeps the read lock |
| | `SendersReturn` | a second message waits for a Gather that may never come |
| MCClockDepartures, AdvancableClock | `FiresInOrder` | two threads pop timers and race to run them |
| | `NowKeepsUp` | a claim that is not added yet makes another reader's time stale |
| | `StopPrevents` | a timer that was popped runs after Stop said that it would not |
| MCResourcesDepartures, MCAccountResources | `AdmissionIsDetermined` | of two SIP domains of one name, the order of a map decides |
| | `NoPanic` | the application in a softphone's token is not looked up before it is used |
| | `UpdatesAreOfNumbers` | an update of a number that was released in between answers success |

Two smaller ones, which no run is about: `<Reject>`, and nouns outside of a Dial, are
parsed, but `executeNode` (`runner.go` 297-324) has no case for them: it records an error and
goes on; and `ast.go:59`
gives `finishOnKey` the default `#`, but the parser leaves it empty.

## 6. Proofs

All theorems hold for every value of the constants that the ASSUMEs of the modules
allow. TLC checked each formula before it was proved.

`CallLifecycleProofs`, for every set of URLs, every choice of
`StatusCallbackEvents` and every callback parameter (`NoUrl` and `Keep` are no
URLs, events are event names):

- `Invariant`: `Spec => []IInv`. `IInv` is `TypeOK`, `QueueInv` and `PhaseInv`.
  `NoFault` alone is not inductive: that the queue has room needs that it never
  holds more callbacks than the status has moved (`Len(cbq) <= Rank(status)`), since
  each change sends at most one and `Rank` is at most 3; that it is not closed
  twice needs that it is closed exactly when the status is terminal; and that a
  change always moves the status up needs to know the status from where the runner
  is (`PhaseInv`), which holds unless somebody has hung up.
- `TypeCorrect`, `NeverFaults`, `QueueClosesWithCall`, `RunnerEnds`: consequences.
- `VerbsStopAtTheEnd`: `OneVerbAfterEnd`. Whoever completes a call from outside closes
  `hangupCh` in the same critical section (`EndedIsHungUp`), so no node is let pass
  after the end, and a call that ended stays so (`EndIsForEver`). What remains is the
  node that was let pass before: `LateInv` says that once a verb has begun late, the
  runner is not at `node` any more.
- `UrlUpdatesAreNotLost`: `NoLostUrlUpdate`, with its own invariant `UrlInv`, which
  reaches over the answering of an inbound call between fetch and execution.
- `CallbacksAreOrdered` and `TheEndIsReportedLast`: `ReportsInOrder`, `ReportOfTheEnd`.
  They are about what was posted, but what keeps them true is the whole way of a
  callback: posted, held by the worker or still queued (`Announced`). `AnnouncedInv`
  says that the ranks of these statuses rise strictly and end at most at that of the
  call, and that a terminal one is the call's own; `SaidInv` that a form, which is built
  when it is posted, says a status between its event and the call's. A change of status
  appends the highest rank there is, and the worker only moves the border. That the
  end is reported when the worker exits is `EndInv`: from the moment the report is due
  a terminal status is among the announced ones, and the worker exits from a closed and
  empty queue, when all that is announced is posted.
- `RefinesProtocol`: `Spec => Protocol!Spec`. Every change of status is a `Progress`
  of CallProtocol, every post a `Tell`, everything else a stutter; `PathInv` says
  that the status is where an arrow of `Successors` starts.

`QueueBridgeProofs`, for any calls, dialers and `MaxVerbs`:

- `QueueHoldsItsWaiters`: `MembersAreWaiting`. Leaving the queue removes the first
  occurrence of a call; a lemma says that this removes the call, because
  no call is there twice, and that no call is there twice needs that only a call
  that joins, and is therefore not waiting, is appended.
- `DequeuedCallIsNotLeftAlone`: `NotLeftAlone`, with `FirstInv`: who expects a partner
  in its first bridge has been waited for or signalled by it. Later bridges are left
  out, as tokens of earlier ones are really there (`StaleBridgeEnd`).

`ConferenceRoomProofs`, for any calls, interests and requests:

- `RoomHoldsItsParticipants`: `ParticipantsAreInside`, along the same lines.
- `CallbacksAreTrue`: `CallbacksTellTheRoom`, when every noun brings a callback and
  wants every event: an announcement is sent in the section that changes the room.
- `StartsOnceEndsLast`: over all that was announced, posted or not, the start comes at
  most once and the end last, for any nouns and events: the status never returns to
  "created", and the end closes the queue (`OnceAndLast`).
- `CallbacksAreOrdered`: `CallbacksInOrder`, which says besides that two joins come before
  the start. That is so when every noun brings the callback and whoever wants the
  start wants the joins; without that a room may have filled before anybody listened.
  `JoinsTold` is the strengthening: who can hear of the start has heard of everybody in
  the room (`ToSet(participants)`), and there are two when it starts.

`DialNumberProofs`, for any finite set of legs: `OutcomesHaveReasons` and
`LegsOfADialAreHungUp`. The inductive invariant ties the phase of each creator,
monitor and leg to the phase of the Dial (`Phases`), and says that each report in
`childStatusCh` is of a monitor that has returned (`Reports`), which is why the
channel, with room for every leg, never blocks one (`TypeCorrect`).

`AccountResourcesProofs`, for any resources and `MaxCalls`: `SnapshotsAreTrue`,
`NumbersNeverPanic`, `SipCallersAreKnown`, `CallerIdsAreKnown`. The invariant says
that a phone is mapped to a record of that phone, that the list has an entry for
exactly these, and that the applications in it were created; an update of a record
that is no longer mapped therefore finds no entry of its own to change.
`NumbersImplementRegistry` maps `FindNumber` to a stutter and `UpdateNumber` to an
`Assign`, or to a stutter when the number is gone.

`CallerInputProofs`, for any keys, messages, Gathers, bounds and orders of verbs:

- `EveryKeyIsHeard`: `GatherHearsItsKeys`. `HearInv` compares what was collected with the
  concatenation of the messages taken (`Stream`): while a Gather goes on it has all keys
  and is not complete, at its end they are cut at the first key that completes it.
  `FlattenSeq` and the fold of the inner loop over the keys are unfolded by lemmas.
- `DigitsOfAnActionAreSentOnce`: `ActionDigitsSentOnce`. The digits carry the number of
  the verb that collected them, a history: no request and no digits have the number of
  a verb that is still busy (`NumberInv`), and digits that went to an action are no longer
  in `Variables["Digits"]` unless the call is over (`SentInv`).
- `EveryRecordingIsReported`: `RecordingsAreReported`, with `ReportedInv`.

`ClockProofs`, for any finite set of threads, any timers and durations: `TimersRunOnce`;
`ClockConservesTime`, that the clock and what threads have claimed make up the real and
the advanced time, where the sum over the threads (`MapThenSumSet`) is unfolded to show
that a change of one of its terms changes it by as much; and `NoTimerIsOverdue`, for which a thread that leaves `Fire` without a timer must know
that no live timer is due: that a set of due timers has a first one is a lemma by
the least-number principle.

`TwimlParserProofs`, for any names and documents of any size:

- `ParserStaysInStep`, that the active functions are at open elements, one inside of the
  other, and all that is open beyond them is being skipped; and `FunctionsReturnInTime`,
  that the end tag a loop compares with its name is its own and the input does not end
  before it.
- `DocumentsAreReadAsWritten`: `ParsedAsWritten`. `ReadInv` relates the stacks to the part
  of the document that was read: the frames are at relevant elements, nothing that is
  skipped is relevant, and none is faulty, so that `Accepts` decides at each start tag
  whether the next one is. `TreeInv` says what each frame has in its hands: the words
  of its element so far, the last Identity that has ended, and the meaning (`Node`) of
  each child that has (`FrameOf`). An item that is delivered changes the meaning of
  no element that has ended (`EndedMeans`), and an element that ends is complete, so
  that the node its function returns is what it means (`NodeOfFrame`).

Type correctness (`TypeCorrect`) is proved wherever a module has a `TypeOK`, which
is why the runs do not list it.

The induction theorems of the library take a predicate as a parameter. Where an
induction is needed (listings in the order of the document, the meaning of the elements
from the last to the first, sums, folds), it is over a set of numbers instead, with the
lemma `Numbers`: a set with 0 that is closed under the successor has every number, as
a least number outside of it would contradict that. That functions defined by recursion
(`InOrder`, `Relevant`, `Meaning`) exist and what they compute is shown in the same way.

Only model-checked: liveness and refinement of it (`HangupEndsRunner`, `WorkerExits`,
the fairness of `ImplementsProtocol`, and the liveness of the other modules), since it
rests on fairness and ENABLED.

## 7. Not modelled

- `UpdateParticipant`: it writes fields of the participant's state (muted, hold, urls)
  that nothing reads, and keeps them for the call's next visit. A second conference
  room.
- `CreateAccount`, `CreateQueue`, `CreateAddress`: they write what nothing modelled
  reads.
- The order of `subAccountsMu` and `state.mu`: the first is held only for a map access.
- `SetAutoTime` and `SetClockForAccount`: they replace the clock of an account, and
  timers that are armed stay with the old one.
- Values of TwiML attributes, forms, the timeline of events and time stamps beyond
  whether they are set: no property needs them.
- Decoding of access tokens (a library), HTTP, the REST adapter, the console and the
  example: pure functions or I/O.
