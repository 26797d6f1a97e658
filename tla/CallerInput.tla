---------------------------- MODULE CallerInput -----------------------------
(***************************************************************************)
(* What a call hears of its caller (engine/runner.go): the digits that     *)
(* SendDigits puts into gatherCh and a Gather collects, the recordings     *)
(* that SetCallVoicemail leaves for a Record and SetCallRecording for a    *)
(* Dial, and the requests that tell the application of them.  Documents    *)
(* are chosen verb by verb.                                                *)
(*                                                                         *)
(* gatherCh holds one message, and the send has no default: who sends      *)
(* another waits.  The digits of a Gather stay in Variables["Digits"],     *)
(* from where every request takes them, until an action was fetched.       *)
(*                                                                         *)
(* SendDigits returns with state.mu read-locked when it does not know the  *)
(* call (leaked); from then on no step that takes the lock is finished.    *)
(***************************************************************************)
EXTENDS Integers, FiniteSetsExt, SequencesExt

CONSTANTS
  Keys,        \* the keys of a telephone
  Messages,    \* what one SendDigits may send: sequences of keys
  Gathers,     \* the Gathers of the documents
  Senders,     \* threads that call SendDigits
  NoKey, NoMessage,
  MaxVerbs, MaxMessages, MaxRecordings    \* bounds

\* num and finish are NumDigits (0: none) and FinishOnKey.
Gather == [num : Nat, finish : Keys \cup {NoKey}, action : BOOLEAN]

ASSUME InputAssumption ==
  /\ NoKey \notin Keys /\ NoMessage \notin Messages
  /\ Messages \subseteq Seq(Keys) /\ Gathers \subseteq Gather
  /\ {MaxVerbs, MaxMessages, MaxRecordings} \subseteq Nat

VARIABLES
  pc,          \* where the runner is
  verbs,       \* how many verbs it has reached
  gather,      \* the Gather it executes
  collected,   \* collectedDigits
  received,    \* the messages that this Gather took from gatherCh
  digits,      \* Variables["Digits"], and the verb that collected them
  requests,    \* the requests that carried digits or a recording (by its number)
  gatherCh, sending, messages,    \* the channel, the blocked sends, how many were made
  recordings,  \* those that were set: for which kind of verb, and during which verb
  hungup, urlCh, shutdown, leaked

senderVars == <<gatherCh, sending, messages>>
apiVars == <<recordings, hungup, urlCh, shutdown, leaked>>
gatherVars == <<gather, collected, received>>
vars == <<pc, verbs, gatherVars, digits, requests, senderVars, apiVars>>

None == [keys |-> <<>>, verb |-> 0]
NoGather == [num |-> 0, finish |-> NoKey, action |-> FALSE]

TypeOK ==
  /\ pc \in {"exec", "prompting", "collecting", "gathered", "recording", "recorded",
            "dialing", "dialed", "told", "redirect", "ended"}
  /\ verbs \in 0..MaxVerbs
  /\ gather \in Gathers \cup {NoGather}
  /\ collected \in Seq(Keys) /\ received \in Seq(Messages)
  /\ digits \in [keys : Seq(Keys), verb : 0..MaxVerbs]
  /\ \A i \in DOMAIN requests : requests[i].verb \in 1..MaxVerbs
  /\ gatherCh \in Messages \cup {NoMessage}
  /\ sending \in [Senders -> Messages \cup {NoMessage}]
  /\ messages \in 0..MaxMessages
  /\ recordings \in Seq([for : {"record", "dial"}, verb : 0..MaxVerbs])
  /\ {hungup, urlCh, shutdown, leaked} \subseteq BOOLEAN

Init ==
  /\ pc = "exec" /\ verbs = 0
  /\ gather = NoGather /\ collected = <<>> /\ received = <<>>
  /\ digits = None /\ requests = <<>>
  /\ gatherCh = NoMessage /\ sending = [s \in Senders |-> NoMessage] /\ messages = 0
  /\ recordings = <<>>
  /\ hungup = FALSE /\ urlCh = FALSE /\ shutdown = FALSE /\ leaked = FALSE

Goto(from, to) == ~leaked /\ pc = from /\ pc' = to
-----------------------------------------------------------------------------
(* executeTwiML *)

NextVerb(to) ==
  /\ Goto("exec", to)
  /\ ~hungup /\ ~shutdown /\ verbs < MaxVerbs
  /\ verbs' = verbs + 1
  /\ UNCHANGED <<digits, requests, senderVars, apiVars>>

StartGather ==
  /\ gather' \in Gathers
  /\ NextVerb("prompting")
  /\ UNCHANGED <<collected, received>>

StartRecord == NextVerb("recording") /\ UNCHANGED gatherVars
StartDial == NextVerb("dialing") /\ UNCHANGED gatherVars
StartRedirect == NextVerb("redirect") /\ UNCHANGED gatherVars

\* The call is over: hung up, shut down, at the end of its document or failed.
Ends ==
  /\ Goto("exec", "ended")
  /\ UNCHANGED <<verbs, gatherVars, digits, requests, senderVars, apiVars>>

-----------------------------------------------------------------------------
(* executeGather *)

\* Its variables are gone.
Forget == gather' = NoGather /\ collected' = <<>> /\ received' = <<>>

\* Its Say, Play and Pause are over (or the hangup ended one that loops).  A
\* prompt that fails ends the call.
PromptsEnd ==
  /\ Goto("prompting", "collecting")
  /\ UNCHANGED <<verbs, gatherVars, digits, requests, senderVars, apiVars>>

PromptFails ==
  /\ Goto("prompting", "ended") /\ Forget
  /\ UNCHANGED <<verbs, digits, requests, senderVars, apiVars>>

\* One character of a message.
CountAfterKey(g, taken, k) ==   \* a mutant of TakeKey
  IF taken.done THEN taken
  ELSE IF k = g.finish THEN [keys |-> taken.keys, done |-> TRUE]
  ELSE [keys |-> Append(taken.keys, k), done |-> g.num > 0 /\ Len(taken.keys) >= g.num]

TakeKey(g, taken, k) ==
  IF taken.done THEN taken
  ELSE IF k = g.finish THEN [keys |-> taken.keys, done |-> TRUE]
  ELSE LET keys == Append(taken.keys, k)
       IN  [keys |-> keys, done |-> g.num > 0 /\ Len(keys) >= g.num]

\* The rest of a message is thrown away when the Gather is complete.
TakeMessage(g, keys, message) ==
  FoldLeft(LAMBDA taken, k : TakeKey(g, taken, k), [keys |-> keys, done |-> FALSE], message)

ReceiveDigits ==
  LET taken == TakeMessage(gather, collected, gatherCh)
  IN  /\ gatherCh # NoMessage
      /\ Goto("collecting", IF taken.done THEN "gathered" ELSE "collecting")
      /\ collected' = taken.keys
      /\ received' = Append(received, gatherCh)
      /\ gatherCh' = NoMessage
      /\ UNCHANGED <<verbs, gather, digits, requests, sending, messages, apiVars>>

GatherTimeout ==
  /\ Goto("collecting", "gathered")
  /\ UNCHANGED <<verbs, gatherVars, digits, requests, senderVars, apiVars>>

HangupAfterAKey ==   \* a mutant of GatherHangup
  /\ hungup /\ received # <<>> /\ Goto("collecting", "exec") /\ Forget
  /\ UNCHANGED <<verbs, digits, requests, senderVars, apiVars>>

GatherHangup ==
  /\ hungup /\ Goto("collecting", "exec") /\ Forget
  /\ UNCHANGED <<verbs, digits, requests, senderVars, apiVars>>

GatherShutdown ==
  /\ shutdown /\ Goto("collecting", "ended") /\ Forget
  /\ UNCHANGED <<verbs, digits, requests, senderVars, apiVars>>

\* The new document is fetched, as by a Redirect, instead of the action.
GatherUrlUpdated ==
  /\ urlCh /\ Goto("collecting", "redirect") /\ Forget
  /\ urlCh' = FALSE
  /\ UNCHANGED <<verbs, digits, requests, senderVars, recordings, hungup, shutdown, leaked>>

\* No digits, no action.
NothingGathered ==
  /\ collected = <<>> /\ Goto("gathered", "exec") /\ Forget
  /\ UNCHANGED <<verbs, digits, requests, senderVars, apiVars>>

Gathered == [keys |-> collected, verb |-> verbs]

\* A Gather without action leaves its digits for the next request.
GatheredForLater ==
  /\ collected # <<>> /\ ~gather.action
  /\ Goto("gathered", "exec") /\ Forget
  /\ digits' = Gathered
  /\ UNCHANGED <<verbs, requests, senderVars, apiVars>>

\* executeActionCallback: the request carries the digits and clears them; a
\* request that fails ends the call, an answer without verbs hangs up.
ActionKeepsDigits ==   \* a mutant of GatherAction
  /\ collected # <<>> /\ gather.action
  /\ Goto("gathered", "exec") /\ Forget
  /\ requests' = Append(requests, [of |-> "gather", verb |-> verbs, digits |-> Gathered, recording |-> 0])
  /\ digits' = Gathered
  /\ UNCHANGED <<verbs, senderVars, apiVars>>

GatherAction ==
  /\ collected # <<>> /\ gather.action
  /\ Goto("gathered", "exec") \/ Goto("gathered", "ended")
  /\ requests' = Append(requests, [of |-> "gather", verb |-> verbs, digits |-> Gathered, recording |-> 0])
  /\ digits' = IF pc' = "exec" THEN None ELSE Gathered
  /\ Forget
  /\ UNCHANGED <<verbs, senderVars, apiVars>>
-----------------------------------------------------------------------------
(* executeRedirect, executeRecord *)

\* The form of a Redirect has the digits, too, and does not clear them.
RedirectRequest ==
  /\ Goto("redirect", "exec") \/ Goto("redirect", "ended")
  /\ requests' = IF digits = None THEN requests
       ELSE Append(requests, [of |-> "redirect", verb |-> verbs, digits |-> digits, recording |-> 0])
  /\ UNCHANGED <<verbs, gatherVars, digits, senderVars, apiVars>>

\* The select: maximum length, hangup or shutdown.
RecordingEnds ==
  /\ Goto("recording", "recorded")
  /\ UNCHANGED <<verbs, gatherVars, digits, requests, senderVars, apiVars>>

\* What callVoicemails or callRecordings has: the recording that was set last,
\* whenever that was, or 0.
FirstSet(kind) ==   \* a mutant of LastSet
  LET those == {i \in DOMAIN recordings : recordings[i].for = kind}
  IN  IF those = {} THEN 0 ELSE Min(those)

LastSet(kind) == Max({i \in DOMAIN recordings : recordings[i].for = kind} \union {0})

\* executeActionCallback with the recording r, in a request that may fail.
Request(kind, r, fetched) ==
  /\ requests' = Append(requests, [of |-> kind, verb |-> verbs, digits |-> digits, recording |-> r])
  /\ digits' = IF fetched THEN None ELSE digits
  /\ UNCHANGED <<verbs, gatherVars, senderVars, apiVars>>

NoRequest == UNCHANGED <<verbs, gatherVars, digits, requests, senderVars, apiVars>>

\* Under the lock the recording (0: a SID that is made up); then the action.
RecordAction ==
  \/ Goto("recorded", "exec") /\ Request("record", LastSet("record"), TRUE)
  \/ Goto("recorded", "ended") /\ Request("record", LastSet("record"), FALSE)
  \/ Goto("recorded", "exec") /\ NoRequest
-----------------------------------------------------------------------------
(* executeDial, whose connections are in modules of their own *)

\* With hangupOnStar it takes what is typed.
DialTakesDigits ==
  /\ Goto("dialing", "dialing")
  /\ gatherCh # NoMessage /\ gatherCh' = NoMessage
  /\ UNCHANGED <<verbs, gatherVars, digits, requests, sending, messages, apiVars>>

DialEnds == Goto("dialing", "dialed") /\ NoRequest

\* Its nouns do not go together, or the engine is closed.
DialFails == Goto("dialing", "ended") /\ NoRequest

DialUrlUpdated ==
  /\ urlCh /\ Goto("dialing", "dialed")
  /\ urlCh' = FALSE
  /\ UNCHANGED <<verbs, gatherVars, digits, requests, senderVars, recordings, hungup, shutdown, leaked>>

\* invokeRecordingCallback: only for a recording that was set.  A request that
\* fails is recorded, and the Dial goes on.
DialRecording ==
  \/ Goto("dialed", "told") /\ NoRequest
  \/ /\ LastSet("dial") # 0 /\ Goto("dialed", "told")
     /\ \E fetched \in BOOLEAN : Request("dial recording", LastSet("dial"), fetched)

\* Then its action, if there is one.
DialAction ==
  \/ Goto("told", "exec") /\ (Request("dial", 0, TRUE) \/ NoRequest)
  \/ Goto("told", "ended") /\ Request("dial", 0, FALSE)
-----------------------------------------------------------------------------
(* Engine.SendDigits, SetCallVoicemail and the rest of the API *)

SendDigits(s, m) ==
  /\ sending[s] = NoMessage /\ messages < MaxMessages
  /\ messages' = messages + 1
  /\ sending' = [sending EXCEPT ![s] = m]
  /\ UNCHANGED <<pc, verbs, gatherVars, digits, requests, gatherCh, apiVars>>

\* CallRunner.SendDigits
PutDigits(s) ==
  /\ sending[s] # NoMessage /\ gatherCh = NoMessage
  /\ gatherCh' = sending[s]
  /\ sending' = [sending EXCEPT ![s] = NoMessage]
  /\ UNCHANGED <<pc, verbs, gatherVars, digits, requests, messages, apiVars>>

SendToUnknownCall ==
  /\ leaked' = TRUE
  /\ UNCHANGED <<pc, verbs, gatherVars, digits, requests, senderVars, recordings, hungup, urlCh, shutdown>>

\* SetCallVoicemail, SetCallRecording
SetRecording(kind, during) ==
  /\ ~leaked /\ Len(recordings) < MaxRecordings
  /\ recordings' = Append(recordings, [for |-> kind, verb |-> IF pc = during THEN verbs ELSE 0])
  /\ UNCHANGED <<pc, verbs, gatherVars, digits, requests, senderVars, hungup, urlCh, shutdown, leaked>>

SetCallVoicemail == SetRecording("record", "recording")
SetCallRecording == SetRecording("dial", "dialing")

Hangup ==
  /\ ~leaked /\ hungup' = TRUE
  /\ UNCHANGED <<pc, verbs, gatherVars, digits, requests, senderVars, recordings, urlCh, shutdown, leaked>>

UpdateUrl ==
  /\ ~leaked /\ urlCh' = TRUE
  /\ UNCHANGED <<pc, verbs, gatherVars, digits, requests, senderVars, recordings, hungup, shutdown, leaked>>

Close ==
  /\ shutdown' = TRUE
  /\ UNCHANGED <<pc, verbs, gatherVars, digits, requests, senderVars, recordings, hungup, urlCh, leaked>>
-----------------------------------------------------------------------------
Runner ==
  \/ StartGather \/ StartRecord \/ StartDial \/ StartRedirect \/ Ends
  \/ PromptsEnd \/ PromptFails \/ ReceiveDigits
  \/ GatherTimeout \/ GatherHangup \/ GatherShutdown \/ GatherUrlUpdated
  \/ NothingGathered \/ GatheredForLater \/ GatherAction
  \/ RedirectRequest \/ RecordingEnds \/ RecordAction
  \/ DialTakesDigits \/ DialEnds \/ DialFails \/ DialUrlUpdated \/ DialRecording \/ DialAction

Api ==
  \/ \E s \in Senders : PutDigits(s) \/ \E m \in Messages : SendDigits(s, m)
  \/ SendToUnknownCall \/ SetCallVoicemail \/ SetCallRecording \/ Hangup \/ UpdateUrl \/ Close

Next == Runner \/ Api

Spec == Init /\ [][Next]_vars

\* Prompts and documents are finite; a Gather, a Record or a Dial is not ended by
\* digits that nobody is bound to type, by a clock that nobody advances, or by
\* the other end of a connection.
MustGoOn ==
  /\ Runner
  /\ pc = "collecting" => GatherHangup \/ GatherShutdown \/ GatherUrlUpdated
  /\ pc = "recording" => hungup \/ shutdown
  /\ pc = "dialing" => (hungup \/ shutdown) /\ pc' # "dialing"

FairSpec == Spec /\ WF_vars(MustGoOn)
-----------------------------------------------------------------------------
(* Properties *)

Stream == FlattenSeq(received)

\* The digits of a Gather, of all the keys it was given: up to the first finish
\* key, which does not count, or up to the number of digits it waits for.
Complete(g, keys) == {n \in DOMAIN keys : keys[n] = g.finish \/ n = g.num}
Cut(g, keys) ==
  IF Complete(g, keys) = {} THEN keys
  ELSE LET n == Min(Complete(g, keys))
       IN  SubSeq(keys, 1, IF keys[n] = g.finish THEN n - 1 ELSE n)

\* However the keys are spread over messages, and whatever was typed before,
\* a Gather has collected the digits it should have of what it received, and
\* does not wait any longer when it has them all.
GatherHearsItsKeys ==
  /\ pc \in {"collecting", "gathered"} => collected = Cut(gather, Stream)
  /\ pc = "collecting" => Complete(gather, Stream) = {}

\* Digits that were sent to the action of their Gather are in no other request,
\* whether a Redirect, a Record or a new URL follows (runner.go:2173).
ActionDigitsSentOnce ==
  \A i, j \in DOMAIN requests :
    i # j /\ requests[i].of = "gather" => requests[i].digits # requests[j].digits

\* A Record and a Dial report a recording that was set for them while they went
\* on, unless one that was set later, and never one that is for the other kind.
RecordingsAreReported ==
  \A i \in DOMAIN requests :
    LET q == requests[i]
        kind == IF q.of = "record" THEN "record" ELSE "dial"
    IN  q.of \in {"record", "dial recording"} =>
          /\ q.recording # 0 => recordings[q.recording].for = kind
          /\ \A n \in DOMAIN recordings :
               recordings[n] = [for |-> kind, verb |-> q.verb] => q.recording >= n

\* Whatever the caller types or does not type, a hangup ends the call, if the
\* lock of its account was not lost.
HangupEndsCall == hungup ~> pc = "ended" \/ leaked
-----------------------------------------------------------------------------
(* Not true of the code *)

\* "clear collected digits to avoid sending them again" (runner.go:2173)
DigitsSentOnce ==
  \A i, j \in DOMAIN requests :
    i # j /\ requests[i].digits # None => requests[i].digits # requests[j].digits

\* A Record or a Dial reports what was recorded during it.
RecordingIsOfItsVerb ==
  \A i \in DOMAIN requests :
    requests[i].recording = 0 \/ recordings[requests[i].recording].verb = requests[i].verb

\* SendDigits returns.
SendersReturn ==
  \A s \in Senders : sending[s] # NoMessage ~> sending[s] = NoMessage

\* SendDigits releases the lock.
LockIsReleased == ~leaked
=============================================================================
