--------------------------- MODULE AdvancableClock ---------------------------
(***************************************************************************)
(* AutoAdvancableClock and the ManualClock inside it (engine/clock.go).    *)
(* The manual clock has the time and a heap of timers.  Its ticker, and    *)
(* every thread that asks for the time or for a timer, first brings it up  *)
(* to real time; Advance moves it further.  Who moves it runs the          *)
(* functions of the timers that became due, one after the other and        *)
(* without the lock, while other threads move it, too.                     *)
(*                                                                         *)
(* A step is a critical section of clock.mu or manual.mu, or the call of a *)
(* function between two of them.                                           *)
(***************************************************************************)
EXTENDS Integers, FiniteSetsExt

CONSTANTS
  Threads,       \* the goroutines that use the clock
  Ticker,        \* the one that NewAutoAdvancableClock starts
  Timers,        \* the timers that may be armed
  NoTimer,
  Durations,     \* what After and AfterFunc are called with
  Steps,         \* what Advance is called with
  MaxReal, MaxAdvanced    \* bounds

ASSUME ThreadAssumption == IsFiniteSet(Threads) /\ Ticker \in Threads /\ NoTimer \notin Timers
ASSUME DurationAssumption == Durations \subseteq Nat /\ Steps \subseteq Nat \ {0}
ASSUME BoundAssumption == MaxReal \in Nat /\ MaxAdvanced \in Nat

VARIABLES
  real,        \* time.Now()
  lastReal,    \* up to which real time the clock has been moved, or will be
  now,         \* the time of the manual clock
  advanced,    \* how much Advance was asked for, a history
  stopped,     \* was the clock stopped?
  pc,          \* where each thread is in its call
  current,     \* its reading of real time
  delta,       \* by how much it will move the clock
  calling,     \* the timer whose function it is about to run
  timer,       \* when each timer is due, and the duration it was armed with
  heap,        \* the timers that were armed and not taken to run
  cancelled,   \* the timers that were stopped
  ran          \* how often the function of each was run

timeVars == <<real, lastReal, now, advanced, stopped>>
threadVars == <<pc, current, delta, calling>>
timerVars == <<timer, heap, cancelled, ran>>
vars == <<timeVars, threadVars, timerVars>>

TypeOK ==
  /\ {real, lastReal, now, advanced} \subseteq Nat /\ stopped \in BOOLEAN
  /\ pc \in [Threads -> {"idle", "syncing", "moving", "firing", "calling", "using"}]
  /\ current \in [Threads -> Nat] /\ delta \in [Threads -> Nat]
  /\ calling \in [Threads -> Timers \cup {NoTimer}]
  /\ timer \in [Timers -> [due : Nat, wait : Nat]]
  /\ heap \subseteq Timers /\ cancelled \subseteq Timers
  /\ ran \in [Timers -> Nat]

Init ==
  /\ real = 0 /\ lastReal = 0 /\ now = 0 /\ advanced = 0 /\ stopped = FALSE
  /\ pc = [x \in Threads |-> "idle"]
  /\ current = [x \in Threads |-> 0] /\ delta = [x \in Threads |-> 0]
  /\ calling = [x \in Threads |-> NoTimer]
  /\ timer = [t \in Timers |-> [due |-> 0, wait |-> 0]]
  /\ heap = {} /\ cancelled = {}
  /\ ran = [t \in Timers |-> 0]

Goto(x, from, to) == pc[x] = from /\ pc' = [pc EXCEPT ![x] = to]
-----------------------------------------------------------------------------
(* Time *)

RealTimePasses ==
  /\ real < MaxReal
  /\ real' = real + 1
  /\ UNCHANGED <<lastReal, now, advanced, stopped, threadVars, timerVars>>

\* Now, After, AfterFunc and the ticker begin with syncToRealTime, which reads
\* the time before it takes the lock.
Begin(x) ==
  /\ x = Ticker => ~stopped
  /\ Goto(x, "idle", "syncing")
  /\ current' = [current EXCEPT ![x] = real]
  /\ UNCHANGED <<timeVars, delta, calling, timerVars>>

\* Somebody else may have brought the clock further than this reading.
SyncAlways(x) ==   \* a mutant of Sync
  /\ lastReal' = current[x]
  /\ Goto(x, "syncing", IF current[x] > lastReal THEN "moving" ELSE "using")
  /\ delta' = [delta EXCEPT ![x] = IF current[x] > lastReal THEN current[x] - lastReal ELSE 0]
  /\ UNCHANGED <<real, now, advanced, stopped, current, calling, timerVars>>

Sync(x) ==
  /\ IF current[x] > lastReal
       THEN /\ lastReal' = current[x]
            /\ delta' = [delta EXCEPT ![x] = current[x] - lastReal]
            /\ Goto(x, "syncing", "moving")
       ELSE /\ Goto(x, "syncing", "using")
            /\ UNCHANGED <<lastReal, delta>>
  /\ UNCHANGED <<real, now, advanced, stopped, current, calling, timerVars>>

Advance(x, d) ==
  /\ x # Ticker /\ advanced + d <= MaxAdvanced
  /\ Goto(x, "idle", "moving")
  /\ delta' = [delta EXCEPT ![x] = d]
  /\ advanced' = advanced + d
  /\ UNCHANGED <<real, lastReal, now, stopped, current, calling, timerVars>>

\* AutoAdvancableClock.Stop: the ticker ends, the clock goes on.
StopClock ==
  /\ stopped' = TRUE
  /\ UNCHANGED <<real, lastReal, now, advanced, threadVars, timerVars>>
-----------------------------------------------------------------------------
(* fireDueTimers *)

Live == heap \ cancelled

\* The top of the heap, when it is due at that time.  Cancelled timers stay in
\* the heap until they come to its top, where they are passed over.
BlockedByCancelled(time) ==   \* a mutant of Top
  {t \in Live : timer[t].due <= time /\ \A u \in heap : timer[t].due <= timer[u].due}

Top(time) ==
  {t \in Live : timer[t].due <= time /\ \A u \in Live : timer[t].due <= timer[u].due}

\* Under the lock: take the next timer, or return.
FireWithoutPop(x, time) ==   \* a mutant of Fire
  /\ IF Top(time) = {}
       THEN /\ pc' = [pc EXCEPT ![x] = "using"]
            /\ UNCHANGED calling
       ELSE \E t \in Top(time) :
              /\ pc' = [pc EXCEPT ![x] = "calling"]
              /\ calling' = [calling EXCEPT ![x] = t]
  /\ UNCHANGED timerVars

Fire(x, time) ==
  /\ IF Top(time) = {}
       THEN /\ pc' = [pc EXCEPT ![x] = "using"]
            /\ UNCHANGED <<calling, heap>>
       ELSE \E t \in Top(time) :
              /\ pc' = [pc EXCEPT ![x] = "calling"]
              /\ calling' = [calling EXCEPT ![x] = t]
              /\ heap' = heap \ {t}
  /\ UNCHANGED <<timer, cancelled, ran>>

\* ManualClock.Advance; AdvanceTo takes the difference under the same lock.
Move(x) ==
  /\ pc[x] = "moving"
  /\ now' = now + delta[x]
  /\ delta' = [delta EXCEPT ![x] = 0]
  /\ Fire(x, now')
  /\ UNCHANGED <<real, lastReal, advanced, stopped, current>>

\* mt.fn(), which for After sends the time to a channel with room for it
RunLast(x) ==   \* a mutant of Run
  /\ Goto(x, "calling", "using")
  /\ ran' = [ran EXCEPT ![calling[x]] = @ + 1]
  /\ calling' = [calling EXCEPT ![x] = NoTimer]
  /\ UNCHANGED <<timeVars, current, delta, timer, heap, cancelled>>

Run(x) ==
  /\ Goto(x, "calling", "firing")
  /\ ran' = [ran EXCEPT ![calling[x]] = @ + 1]
  /\ calling' = [calling EXCEPT ![x] = NoTimer]
  /\ UNCHANGED <<timeVars, current, delta, timer, heap, cancelled>>

FireNext(x) ==
  /\ pc[x] = "firing"
  /\ Fire(x, now)
  /\ UNCHANGED <<timeVars, current, delta>>
-----------------------------------------------------------------------------
(* What the call was for *)

\* Now, Advance and the ticker have nothing more to do.
Return(x) ==
  /\ Goto(x, "using", "idle")
  /\ current' = [current EXCEPT ![x] = 0]
  /\ UNCHANGED <<timeVars, delta, calling, timerVars>>

\* AfterFunc, After and Sleep, which waits for what After gives it
Arm(x, t, d) ==
  /\ x # Ticker /\ t \notin heap /\ ran[t] = 0 /\ \A y \in Threads : calling[y] # t
  /\ now + d < MaxReal
  /\ Goto(x, "using", "idle")
  /\ timer' = [timer EXCEPT ![t] = [due |-> now + d, wait |-> d]]
  /\ heap' = heap \cup {t}
  /\ current' = [current EXCEPT ![x] = 0]
  /\ UNCHANGED <<timeVars, delta, calling, cancelled, ran>>

\* manualTimer.Stop writes without the lock and takes it before it returns:
\* it has its effect at some moment in between.
Cancel(t) ==
  /\ t \in heap \/ ran[t] > 0 \/ \E x \in Threads : calling[x] = t
  /\ cancelled' = cancelled \cup {t}
  /\ UNCHANGED <<timeVars, threadVars, timer, heap, ran>>
-----------------------------------------------------------------------------
Goes(x) == Sync(x) \/ Move(x) \/ Run(x) \/ FireNext(x)

Next ==
  \/ RealTimePasses \/ StopClock
  \/ \E x \in Threads :
       \/ Begin(x) \/ Goes(x) \/ Return(x)
       \/ \E d \in Steps : Advance(x, d)
       \/ \E t \in Timers, d \in Durations : Arm(x, t, d)
  \/ \E t \in Timers : Cancel(t)

Spec == Init /\ [][Next]_vars

\* Real time passes, threads are scheduled, and time.Ticker keeps ticking.
FairSpec ==
  /\ Spec
  /\ WF_vars(RealTimePasses)
  /\ WF_vars(Begin(Ticker))
  /\ \A x \in Threads : WF_vars(Goes(x)) /\ WF_vars(Return(x))
-----------------------------------------------------------------------------
(* Properties *)

\* No moment of real time and nothing that Advance was asked for is lost or
\* counted twice, though threads read, claim and add it in different sections
\* and in any order: what is missing is what threads are about to add.
TimeIsConserved ==
  now + MapThenSumSet(LAMBDA x : delta[x], Threads) = lastReal + advanced

\* Every timer that was armed is either in the heap, or about to be run by one
\* thread, or was run once.
RunsOnce ==
  \A t \in Timers :
    /\ ran[t] <= 1
    /\ t \in heap => ran[t] = 0
    /\ \A x \in Threads : calling[x] = t =>
         ran[t] = 0 /\ t \notin heap /\ \A y \in Threads \ {x} : calling[y] # t

\* A timer that is due waits for nothing but a thread that is running the
\* functions of timers.  (One of duration zero waits for the next Advance.)
Overdue(t) == timer[t].due < now \/ (timer[t].due = now /\ timer[t].wait > 0)
NothingIsOverdue ==
  (\E t \in Live : Overdue(t)) => \E x \in Threads : pc[x] \in {"calling", "firing"}

\* A timer runs, if it is not cancelled and as long as the clock ticks.
TimersFire == \A t \in Timers : t \in heap ~> ran[t] = 1 \/ t \in cancelled \/ stopped
-----------------------------------------------------------------------------
(* Not true of the code *)

\* "Fire timers in order" (clock.go:231)
FiresInOrder ==
  \A x \in Threads : \A t \in Timers :
    calling[x] \in Timers /\ ran[t] = 1 => timer[t].due <= timer[calling[x]].due

\* A clock that is "automatically synchronised with wall-clock time" is not
\* behind the real time at which it was asked (clock.go:59).
NowKeepsUp == \A x \in Threads : pc[x] = "using" => now >= current[x]

\* Stop "returns true": the function does not run any more.
StopPrevents == [][\A t \in cancelled : ran'[t] = ran[t]]_vars
=============================================================================
