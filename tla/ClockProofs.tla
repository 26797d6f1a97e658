----------------------------- MODULE ClockProofs -----------------------------
(***************************************************************************)
(* Theorems about AdvancableClock, for any number of threads and timers.   *)
(***************************************************************************)
EXTENDS AdvancableClock, FiniteSetTheorems, WellFoundedInduction, TLAPS

\* A set of numbers has a least one.
LEMMA Least ==
  ASSUME NEW T \in SUBSET Nat, T # {}
  PROVE  \E n \in T : \A m \in T : n <= m
<1>1. \E n \in T : \A m \in T : ~ (<<m, n>> \in OpToRel(<, Nat))
  BY NatLessThanWellFounded, WFMin
<1>2. \A m, n \in Nat : m < n => <<m, n>> \in OpToRel(<, Nat)
  BY DEF OpToRel
<1>3. PICK n \in T : \A m \in T : ~ (<<m, n>> \in OpToRel(<, Nat))
  BY <1>1
<1>4. ASSUME NEW m \in T  PROVE n <= m
  <2>1. ~ (m < n)
    BY <1>2, <1>3
  <2> QED BY <2>1
<1> QED BY <1>4
-----------------------------------------------------------------------------
(* Sums over the threads.  MapThenSumSet is a recursive function on sets:  *)
(* it exists, its values are numbers, and changing one term changes the    *)
(* sum by the difference.                                                  *)

Total(d) == MapThenSumSet(LAMBDA x : d[x], Threads)

One(s) == CHOOSE x \in s : TRUE

IsSum(d, f) ==
  f = [s \in SUBSET Threads |-> IF s = {} THEN 0 ELSE d[One(s)] + f[s \ {One(s)}]]

LEMMA Smaller ==
  ASSUME NEW s \in SUBSET Threads
  PROVE  /\ Cardinality(s) \in Nat
         /\ s # {} => /\ One(s) \in s
                      /\ s \ {One(s)} \in SUBSET Threads
                      /\ Cardinality(s \ {One(s)}) = Cardinality(s) - 1
         /\ Cardinality(s) = 0 => s = {}
<1>1. IsFiniteSet(s) /\ Cardinality(s) \in Nat
  BY ThreadAssumption, FS_Subset, FS_CardinalityType
<1>2. s # {} => One(s) \in s
  BY DEF One
<1>3. s # {} => Cardinality(s \ {One(s)}) = Cardinality(s) - 1
  BY <1>1, <1>2, FS_RemoveElement
<1>4. Cardinality(s) = 0 => s = {}
  BY <1>1, FS_EmptySet
<1> QED BY <1>1, <1>2, <1>3, <1>4

\* The sum exists: a function that is right for sets of fewer than n threads
\* gives one that is right for those of n.
LEMMA SumExists ==
  ASSUME NEW d \in [Threads -> Nat]
  PROVE  \E f : IsSum(d, f)
<1> DEFINE Body(f, s) == IF s = {} THEN 0 ELSE d[One(s)] + f[s \ {One(s)}]
           Upto(n) == \E f \in [SUBSET Threads -> Nat] :
                        \A s \in SUBSET Threads : Cardinality(s) <= n => f[s] = Body(f, s)
           Bad == {n \in Nat : ~ Upto(n)}
<1>1. Upto(0)
  <2> DEFINE f == [s \in SUBSET Threads |-> 0]
  <2>1. ASSUME NEW s \in SUBSET Threads, Cardinality(s) <= 0  PROVE s = {}
    <3>1. Cardinality(s) \in Nat
      BY Smaller
    <3>2. Cardinality(s) = 0
      BY <2>1, <3>1
    <3> QED BY <3>2, Smaller
  <2>2. f \in [SUBSET Threads -> Nat]
    OBVIOUS
  <2>3. \A s \in SUBSET Threads : Cardinality(s) <= 0 => f[s] = Body(f, s)
    BY <2>1
  <2> QED BY <2>2, <2>3
<1>2. ASSUME NEW n \in Nat, Upto(n)  PROVE Upto(n + 1)
  <2>1. PICK f \in [SUBSET Threads -> Nat] :
             \A s \in SUBSET Threads : Cardinality(s) <= n => f[s] = Body(f, s)
    BY <1>2
  <2> DEFINE g == [s \in SUBSET Threads |-> Body(f, s)]
  <2>2. g \in [SUBSET Threads -> Nat]
    <3>1. ASSUME NEW s \in SUBSET Threads, s # {}
          PROVE  One(s) \in Threads /\ s \ {One(s)} \in SUBSET Threads
      BY <3>1, Smaller
    <3>2. \A s \in SUBSET Threads : Body(f, s) \in Nat
      BY <3>1
    <3> HIDE DEF Body
    <3> QED BY <3>2
  <2>3. ASSUME NEW s \in SUBSET Threads, Cardinality(s) <= n + 1  PROVE g[s] = Body(g, s)
    <3>1. CASE s = {}
      BY <3>1
    <3>2. CASE s # {}
      <4> DEFINE r == s \ {One(s)}
      <4>1. r \in SUBSET Threads /\ Cardinality(r) <= n
        BY <2>3, <3>2, Smaller
      <4>2. f[r] = Body(f, r)
        BY <2>1, <4>1
      <4>3. g[r] = f[r]
        BY <4>1, <4>2
      <4> QED BY <3>2, <4>3
    <3> QED BY <3>1, <3>2
  <2> HIDE DEF Body, g
  <2> QED BY <2>2, <2>3
<1>3. Bad = {}
  <2> SUFFICES ASSUME Bad # {}  PROVE FALSE
    OBVIOUS
  <2> HIDE DEF Upto
  <2>1. PICK n \in Bad : \A m \in Bad : n <= m
    BY Least
  <2>2. n \in Nat /\ ~ Upto(n) /\ n # 0
    BY <1>1
  <2>3. n - 1 \in Nat /\ n - 1 \notin Bad
    BY <2>1, <2>2
  <2>4. Upto((n - 1) + 1)
    BY <1>2, <2>3
  <2> QED BY <2>2, <2>4
<1>4. Cardinality(Threads) \in Nat /\ \A s \in SUBSET Threads : Cardinality(s) <= Cardinality(Threads)
  BY ThreadAssumption, FS_Subset, FS_CardinalityType
<1>5. Upto(Cardinality(Threads))
  <2> HIDE DEF Upto
  <2> QED BY <1>3, <1>4
<1>6. PICK f \in [SUBSET Threads -> Nat] : \A s \in SUBSET Threads : f[s] = Body(f, s)
  BY <1>4, <1>5
<1>7. f = [s \in SUBSET Threads |-> Body(f, s)]
  <2> HIDE DEF Body
  <2> QED BY <1>6
<1> QED BY <1>7 DEF IsSum

LEMMA TotalIsASum ==
  ASSUME NEW d \in [Threads -> Nat]
  PROVE  \E f : IsSum(d, f) /\ Total(d) = f[Threads]
<1> DEFINE iter == CHOOSE f : IsSum(d, f)
<1>1. IsSum(d, iter)
  BY SumExists
<1>2. Total(d) = iter[Threads]
  BY DEF Total, MapThenSumSet, MapThenFoldSet, IsSum, One
<1> QED BY <1>1, <1>2

\* Induction over the sets of threads.
LEMMA ThreadSets ==
  ASSUME NEW W,
         \A s \in SUBSET Threads : s = {} \/ s \ {One(s)} \in W => s \in W
  PROVE  \A s \in SUBSET Threads : s \in W
<1> DEFINE Bad == {n \in Nat : \E s \in SUBSET Threads : Cardinality(s) = n /\ s \notin W}
<1>1. Bad = {}
  <2> SUFFICES ASSUME Bad # {}  PROVE FALSE
    OBVIOUS
  <2>1. PICK n \in Bad : \A m \in Bad : n <= m
    <3> HIDE DEF Bad
    <3>1. Bad \in SUBSET Nat
      BY DEF Bad
    <3> QED BY <3>1, Least
  <2>2. PICK s \in SUBSET Threads : Cardinality(s) = n /\ s \notin W
    BY <2>1
  <2>3. s # {} /\ s \ {One(s)} \notin W
    BY <2>2
  <2>4. /\ s \ {One(s)} \in SUBSET Threads
        /\ Cardinality(s \ {One(s)}) = n - 1 /\ Cardinality(s \ {One(s)}) \in Nat
    <3>1. s \ {One(s)} \in SUBSET Threads
      OBVIOUS
    <3> QED BY <2>2, <2>3, <3>1, Smaller
  <2>5. n - 1 \in Bad
    BY <2>3, <2>4
  <2> QED BY <2>1, <2>5
<1> QED BY <1>1, Smaller

\* A sum is a number, and changes with one of its terms by the difference.
LEMMA SumIsANumber ==
  ASSUME NEW d \in [Threads -> Nat], NEW f, IsSum(d, f)
  PROVE  \A s \in SUBSET Threads : f[s] \in Nat
<1> DEFINE W == {s \in SUBSET Threads : f[s] \in Nat}
<1>1. ASSUME NEW s \in SUBSET Threads, s = {} \/ s \ {One(s)} \in W  PROVE s \in W
  <2>1. f[s] = IF s = {} THEN 0 ELSE d[One(s)] + f[s \ {One(s)}]
    BY DEF IsSum
  <2>2. s # {} => One(s) \in Threads
    BY Smaller
  <2> QED BY <1>1, <2>1, <2>2
<1>2. \A s \in SUBSET Threads : s \in W
  <2> HIDE DEF W
  <2> QED BY <1>1, ThreadSets
<1> QED BY <1>2

LEMMA SumOfOther ==
  ASSUME NEW d \in [Threads -> Nat], NEW e \in [Threads -> Nat], NEW f, NEW g,
         IsSum(d, f), IsSum(e, g),
         NEW x \in Threads, \A y \in Threads \ {x} : e[y] = d[y]
  PROVE  \A s \in SUBSET Threads : g[s] = f[s] + (IF x \in s THEN e[x] - d[x] ELSE 0)
<1> DEFINE More(s) == IF x \in s THEN e[x] - d[x] ELSE 0
           W == {s \in SUBSET Threads : g[s] = f[s] + More(s)}
<1>1. ASSUME NEW s \in SUBSET Threads, s = {} \/ s \ {One(s)} \in W  PROVE s \in W
  <2>1. /\ f[s] = IF s = {} THEN 0 ELSE d[One(s)] + f[s \ {One(s)}]
        /\ g[s] = IF s = {} THEN 0 ELSE e[One(s)] + g[s \ {One(s)}]
    BY DEF IsSum
  <2>2. CASE s = {}
    BY <2>1, <2>2
  <2>3. CASE s # {}
    <3> DEFINE y == One(s)
               r == s \ {y}
    <3>1. y \in s /\ y \in Threads /\ r \in SUBSET Threads
      BY <2>3, Smaller
    <3>2. g[r] = f[r] + More(r)
      BY <1>1, <2>3
    <3>3. f[r] \in Nat /\ g[r] \in Nat
      BY <3>1, SumIsANumber
    <3>4. f[s] = d[y] + f[r] /\ g[s] = e[y] + g[r]
      BY <2>1, <2>3
    <3>5. CASE y = x
      <4>1. More(r) = 0 /\ More(s) = e[x] - d[x] /\ d[x] \in Nat /\ e[x] \in Nat
        BY <3>1, <3>5
      <4> HIDE DEF r, More
      <4> QED BY <3>2, <3>3, <3>4, <3>5, <4>1
    <3>6. CASE y # x
      <4>1. More(r) = More(s) /\ e[y] = d[y] /\ More(s) \in Int /\ d[y] \in Nat
        BY <3>1, <3>6
      <4> HIDE DEF r, y, More
      <4> QED BY <3>2, <3>3, <3>4, <4>1
    <3> QED BY <3>5, <3>6
  <2> QED BY <2>2, <2>3
<1>2. \A s \in SUBSET Threads : s \in W
  <2> HIDE DEF W
  <2> QED BY <1>1, ThreadSets
<1> QED BY <1>2

LEMMA TotalChanges ==
  ASSUME NEW d \in [Threads -> Nat], NEW e \in [Threads -> Nat], NEW x \in Threads,
         \A y \in Threads \ {x} : e[y] = d[y]
  PROVE  /\ Total(d) \in Nat
         /\ Total(e) = Total(d) + e[x] - d[x]
<1>1. PICK f : IsSum(d, f) /\ Total(d) = f[Threads]
  BY TotalIsASum
<1>2. PICK g : IsSum(e, g) /\ Total(e) = g[Threads]
  BY TotalIsASum
<1>3. f[Threads] \in Nat
  BY <1>1, SumIsANumber
<1>4. g[Threads] = f[Threads] + (e[x] - d[x])
  <2>1. g[Threads] = f[Threads] + (IF x \in Threads THEN e[x] - d[x] ELSE 0)
    BY <1>1, <1>2, SumOfOther
  <2> QED BY <2>1
<1>5. d[x] \in Nat /\ e[x] \in Nat
  OBVIOUS
<1> QED BY <1>1, <1>2, <1>3, <1>4, <1>5

LEMMA TotalOfNothing ==
  ASSUME NEW d \in [Threads -> Nat], \A x \in Threads : d[x] = 0
  PROVE  Total(d) = 0
<1>1. PICK f : IsSum(d, f) /\ Total(d) = f[Threads]
  BY TotalIsASum
<1> DEFINE W == {s \in SUBSET Threads : f[s] = 0}
<1>2. ASSUME NEW s \in SUBSET Threads, s = {} \/ s \ {One(s)} \in W  PROVE s \in W
  <2>1. f[s] = IF s = {} THEN 0 ELSE d[One(s)] + f[s \ {One(s)}]
    BY <1>1 DEF IsSum
  <2>2. s # {} => One(s) \in Threads
    BY Smaller
  <2> QED BY <1>2, <2>1, <2>2
<1>3. \A s \in SUBSET Threads : s \in W
  <2> HIDE DEF W
  <2> QED BY <1>2, ThreadSets
<1> QED BY <1>1, <1>3
-----------------------------------------------------------------------------
(* The invariant: who is about to run a timer has it, alone, and no timer  *)
(* is overdue unless somebody is at it.                                    *)

CallInv == \A x \in Threads : pc[x] = "calling" <=> calling[x] \in Timers

IInv == TypeOK /\ CallInv /\ RunsOnce /\ NothingIsOverdue

\* What taking the next timer, or finding none, does to the threads and heap.
Fired(x, time) ==
  \/ /\ \A t \in Live : timer[t].due > time
     /\ pc' = [pc EXCEPT ![x] = "using"] /\ calling' = calling /\ heap' = heap
  \/ \E t \in Live :
       /\ pc' = [pc EXCEPT ![x] = "calling"]
       /\ calling' = [calling EXCEPT ![x] = t] /\ heap' = heap \ {t}

\* When no timer is at the top, none is due: of those that are, one would be
\* due first.
LEMMA FireFires ==
  ASSUME TypeOK, NEW x \in Threads, NEW time \in Nat, Fire(x, time)
  PROVE  Fired(x, time)
<1>1. CASE Top(time) = {}
  <2>1. pc' = [pc EXCEPT ![x] = "using"] /\ calling' = calling /\ heap' = heap
    BY <1>1 DEF Fire
  <2>2. ASSUME NEW t \in Live, timer[t].due <= time  PROVE FALSE
    <3> DEFINE Due == {u \in Live : timer[u].due <= time}
    <3> DEFINE Times == {timer[u].due : u \in Due}
    <3>1. \A u \in Live : timer[u].due \in Nat
      BY DEF TypeOK, Live
    <3>2. Times \in SUBSET Nat /\ Times # {}
      BY <2>2, <3>1
    <3>3. PICK n \in Times : \A m \in Times : n <= m
      <4> HIDE DEF Times
      <4> QED BY <3>2, Least
    <3>4. PICK u \in Due : timer[u].due = n
      BY <3>3
    <3>5. ASSUME NEW v \in Live  PROVE timer[u].due <= timer[v].due
      <4>1. CASE v \in Due
        BY <3>3, <3>4, <4>1
      <4>2. CASE v \notin Due
        BY <3>1, <3>4, <4>2
      <4> QED BY <4>1, <4>2
    <3>6. u \in Top(time)
      BY <3>4, <3>5 DEF Top
    <3> QED BY <1>1, <3>6
  <2>3. \A t \in Live : timer[t].due > time
    BY <2>2 DEF TypeOK, Live
  <2> QED BY <2>1, <2>3 DEF Fired
<1>2. CASE Top(time) # {}
  BY <1>2 DEF Fire, Fired, Top
<1> QED BY <1>1, <1>2

LEMMA Start == Init => IInv
<1> SUFFICES ASSUME Init  PROVE IInv
  OBVIOUS
<1>1. TypeOK
  <2>1. timer \in [Timers -> [due : Nat, wait : Nat]]
    BY DEF Init
  <2>2. ran \in [Timers -> Nat] /\ calling \in [Threads -> Timers \cup {NoTimer}]
    BY DEF Init
  <2>3. pc \in [Threads -> {"idle", "syncing", "moving", "firing", "calling", "using"}]
    BY DEF Init
  <2>4. {real, lastReal, now, advanced} \subseteq Nat
    BY DEF Init
  <2>5. current \in [Threads -> Nat] /\ delta \in [Threads -> Nat]
    BY DEF Init
  <2>6. stopped \in BOOLEAN /\ heap \subseteq Timers /\ cancelled \subseteq Timers
    BY DEF Init
  <2> QED BY <2>1, <2>2, <2>3, <2>4, <2>5, <2>6 DEF TypeOK
<1>2. CallInv /\ RunsOnce
  BY ThreadAssumption DEF Init, CallInv, RunsOnce
<1>3. NothingIsOverdue
  BY DEF Init, NothingIsOverdue, Live
<1> QED BY <1>1, <1>2, <1>3 DEF IInv

\* The parts of a step of Fire, for Move and FireNext.
LEMMA FiredKeeps ==
  ASSUME IInv, NEW x \in Threads, NEW time \in Nat, time = now', Fired(x, time),
         pc[x] \in {"moving", "firing"},
         UNCHANGED <<timer, cancelled, ran>>
  PROVE  /\ CallInv' /\ RunsOnce' /\ NothingIsOverdue'
         /\ pc' \in [Threads -> {"idle", "syncing", "moving", "firing", "calling", "using"}]
         /\ calling' \in [Threads -> Timers \cup {NoTimer}] /\ heap' \subseteq Timers
<1> USE DEF IInv, TypeOK
<1>0. calling[x] = NoTimer
  BY ThreadAssumption DEF CallInv
<1>1. CASE /\ \A t \in Live : timer[t].due > time
           /\ pc' = [pc EXCEPT ![x] = "using"] /\ calling' = calling /\ heap' = heap
  <2>1. CallInv'
    BY <1>0, <1>1, ThreadAssumption DEF CallInv
  <2>2. RunsOnce'
    BY <1>1 DEF RunsOnce
  <2>3. \A t \in Live' : ~ Overdue(t)'
    <3>1. Live' = Live /\ timer' = timer
      BY <1>1 DEF Live
    <3>2. SUFFICES ASSUME NEW t \in Live  PROVE ~ Overdue(t)'
      BY <3>1
    <3>3. timer[t].due \in Nat /\ timer[t].due > now'
      BY <1>1 DEF Live
    <3> QED BY <3>1, <3>3 DEF Overdue
  <2> QED BY <1>1, <2>1, <2>2, <2>3 DEF NothingIsOverdue
<1>2. ASSUME NEW t \in Live,
             pc' = [pc EXCEPT ![x] = "calling"],
             calling' = [calling EXCEPT ![x] = t], heap' = heap \ {t}
      PROVE  /\ CallInv' /\ RunsOnce' /\ NothingIsOverdue'
             /\ pc' \in [Threads -> {"idle", "syncing", "moving", "firing", "calling", "using"}]
             /\ calling' \in [Threads -> Timers \cup {NoTimer}] /\ heap' \subseteq Timers
  <2>0. t \in heap /\ t \in Timers
    BY <1>2 DEF Live
  <2>1. CallInv'
    BY <1>2, <2>0 DEF CallInv
  <2>2. RunsOnce'
    BY <1>2, <2>0 DEF RunsOnce
  <2>3. pc'[x] = "calling"
    BY <1>2
  <2> QED BY <1>2, <2>0, <2>1, <2>2, <2>3 DEF NothingIsOverdue
<1> QED BY <1>1, <1>2 DEF Fired
-----------------------------------------------------------------------------
LEMMA Step == IInv /\ [Next]_vars => IInv'
<1> SUFFICES ASSUME IInv, [Next]_vars  PROVE IInv'
  OBVIOUS
<1> USE DEF IInv
<1>1. CASE RealTimePasses
  BY <1>1, BoundAssumption
  DEF RealTimePasses, threadVars, timerVars, TypeOK, CallInv, RunsOnce, NothingIsOverdue, Live, Overdue
<1>2. CASE StopClock
  BY <1>2
  DEF StopClock, threadVars, timerVars, TypeOK, CallInv, RunsOnce, NothingIsOverdue, Live, Overdue
<1>3. ASSUME NEW x \in Threads, Begin(x)  PROVE IInv'
  BY <1>3, ThreadAssumption
  DEF Begin, Goto, timeVars, timerVars, TypeOK, CallInv, RunsOnce, NothingIsOverdue, Live, Overdue
<1>4. ASSUME NEW x \in Threads, Sync(x)  PROVE IInv'
  <2>1. TypeOK'
    BY <1>4 DEF Sync, Goto, timerVars, TypeOK
  <2>2. CallInv' /\ RunsOnce' /\ NothingIsOverdue'
    BY <1>4 DEF Sync, Goto, timerVars, TypeOK, CallInv, RunsOnce, NothingIsOverdue, Live, Overdue
  <2> QED BY <2>1, <2>2
<1>5. ASSUME NEW x \in Threads, NEW d \in Steps, Advance(x, d)  PROVE IInv'
  BY <1>5, DurationAssumption
  DEF Advance, Goto, timerVars, TypeOK, CallInv, RunsOnce, NothingIsOverdue, Live, Overdue
<1>6. ASSUME NEW x \in Threads, Move(x)  PROVE IInv'
  <2>1. now' \in Nat /\ delta' \in [Threads -> Nat]
    BY <1>6 DEF Move, TypeOK
  <2>2. Fired(x, now')
    BY <1>6, <2>1, FireFires DEF Move
  <2>3. UNCHANGED <<timer, cancelled, ran>>
    BY <1>6 DEF Move, Fire
  <2>4. /\ CallInv' /\ RunsOnce' /\ NothingIsOverdue'
        /\ pc' \in [Threads -> {"idle", "syncing", "moving", "firing", "calling", "using"}]
        /\ calling' \in [Threads -> Timers \cup {NoTimer}] /\ heap' \subseteq Timers
    BY <1>6, <2>1, <2>2, <2>3, FiredKeeps DEF Move
  <2>5. TypeOK'
    BY <1>6, <2>1, <2>3, <2>4 DEF Move, TypeOK
  <2> QED BY <2>4, <2>5
<1>7. ASSUME NEW x \in Threads, FireNext(x)  PROVE IInv'
  <2>1. now' = now /\ now \in Nat
    BY <1>7 DEF FireNext, timeVars, TypeOK
  <2>2. Fired(x, now')
    BY <1>7, <2>1, FireFires DEF FireNext
  <2>3. UNCHANGED <<timer, cancelled, ran>>
    BY <1>7 DEF FireNext, Fire
  <2>4. /\ CallInv' /\ RunsOnce' /\ NothingIsOverdue'
        /\ pc' \in [Threads -> {"idle", "syncing", "moving", "firing", "calling", "using"}]
        /\ calling' \in [Threads -> Timers \cup {NoTimer}] /\ heap' \subseteq Timers
    BY <1>7, <2>1, <2>2, <2>3, FiredKeeps DEF FireNext
  <2>5. TypeOK'
    BY <1>7, <2>1, <2>3, <2>4 DEF FireNext, timeVars, TypeOK
  <2> QED BY <2>4, <2>5
<1>8. ASSUME NEW x \in Threads, Run(x)  PROVE IInv'
  <2>0. calling[x] \in Timers /\ pc[x] = "calling"
    BY <1>8 DEF Run, Goto, CallInv
  <2>1. TypeOK'
    BY <1>8, <2>0 DEF Run, Goto, timeVars, TypeOK
  <2>2. CallInv'
    BY <1>8, <2>0, ThreadAssumption DEF Run, Goto, CallInv, TypeOK
  <2>3. RunsOnce'
    BY <1>8, <2>0, ThreadAssumption DEF Run, Goto, RunsOnce, TypeOK
  <2>4. pc'[x] = "firing"
    BY <1>8 DEF Run, Goto, TypeOK
  <2>5. NothingIsOverdue'
    BY <2>4 DEF NothingIsOverdue
  <2> QED BY <2>1, <2>2, <2>3, <2>5
<1>9. ASSUME NEW x \in Threads, Return(x)  PROVE IInv'
  BY <1>9
  DEF Return, Goto, timeVars, timerVars, TypeOK, CallInv, RunsOnce, NothingIsOverdue, Live, Overdue
<1>10. ASSUME NEW x \in Threads, NEW t \in Timers, NEW d \in Durations, Arm(x, t, d)
       PROVE  IInv'
  <2>0. d \in Nat /\ now \in Nat
    BY DurationAssumption DEF TypeOK
  <2>1. TypeOK'
    BY <1>10, <2>0 DEF Arm, Goto, timeVars, TypeOK
  <2>2. CallInv' /\ RunsOnce'
    BY <1>10 DEF Arm, Goto, TypeOK, CallInv, RunsOnce
  <2>3. ASSUME NEW u \in Live', Overdue(u)'  PROVE u \in Live /\ Overdue(u)
    <3>1. now' = now /\ cancelled' = cancelled /\ heap' = heap \cup {t}
      BY <1>10 DEF Arm, timeVars
    <3>2. timer' = [timer EXCEPT ![t] = [due |-> now + d, wait |-> d]]
      BY <1>10 DEF Arm
    <3>3. u # t
      <4> SUFFICES ASSUME u = t  PROVE FALSE
        OBVIOUS
      <4>1. timer'[u].due = now + d /\ timer'[u].wait = d
        BY <3>2 DEF TypeOK
      <4> QED BY <2>0, <2>3, <3>1, <4>1 DEF Overdue
    <3>4. timer'[u] = timer[u]
      BY <3>2, <3>3 DEF TypeOK
    <3> QED BY <2>3, <3>1, <3>3, <3>4 DEF Live, Overdue
  <2>4. \A y \in Threads : pc[y] \in {"calling", "firing"} => pc'[y] = pc[y]
    BY <1>10 DEF Arm, Goto, TypeOK
  <2>5. NothingIsOverdue'
    BY <2>3, <2>4 DEF NothingIsOverdue
  <2> QED BY <2>1, <2>2, <2>5
<1>11. ASSUME NEW t \in Timers, Cancel(t)  PROVE IInv'
  BY <1>11
  DEF Cancel, timeVars, threadVars, TypeOK, CallInv, RunsOnce, NothingIsOverdue, Live, Overdue
<1>12. CASE UNCHANGED vars
  BY <1>12
  DEF vars, timeVars, threadVars, timerVars, TypeOK, CallInv, RunsOnce, NothingIsOverdue, Live, Overdue
<1> QED
  BY <1>1, <1>2, <1>3, <1>4, <1>5, <1>6, <1>7, <1>8, <1>9, <1>10, <1>11, <1>12 DEF Next, Goes

\* The inductive invariant of the clocks, their threads and their timers.
THEOREM Invariant == Spec => []IInv
  BY Start, Step, PTL DEF Spec

\* Every variable of the clock keeps its type.
THEOREM TypeCorrect == Spec => []TypeOK
  BY Invariant, PTL DEF IInv

\* Whatever threads move the clock at the same time, a timer is run once.
THEOREM TimersRunOnce == Spec => []RunsOnce
  BY Invariant, PTL DEF IInv

\* A timer that is due is waiting for a thread that runs timers, always.
THEOREM NoTimerIsOverdue == Spec => []NothingIsOverdue
  BY Invariant, PTL DEF IInv
-----------------------------------------------------------------------------
(* Conservation of time.  A thread that is about to move the clock has     *)
(* claimed an amount, and nobody else has.                                 *)

ClaimInv == \A x \in Threads : pc[x] # "moving" => delta[x] = 0

TimeInv == IInv /\ ClaimInv /\ TimeIsConserved

LEMMA TotalInTime ==
  TimeIsConserved <=> now + Total(delta) = lastReal + advanced
BY DEF TimeIsConserved, Total, MapThenSumSet, MapThenFoldSet

\* A thread claims time that passed or was asked for, or moves the clock by what
\* it claimed, or no time is claimed and none is given.
Claims(x, n) ==
  /\ pc[x] # "moving" /\ pc' = [pc EXCEPT ![x] = "moving"]
  /\ delta' = [delta EXCEPT ![x] = n]
  /\ now' = now /\ lastReal' + advanced' = lastReal + advanced + n

Moves(x) ==
  /\ \A y \in Threads \ {x} : pc'[y] = pc[y]
  /\ delta' = [delta EXCEPT ![x] = 0]
  /\ now' = now + delta[x] /\ lastReal' = lastReal /\ advanced' = advanced

KeepsTime ==
  /\ \A x \in Threads : pc'[x] # "moving" => pc[x] # "moving"
  /\ UNCHANGED <<delta, now, lastReal, advanced>>

LEMMA TimeKinds ==
  ASSUME IInv, [Next]_vars
  PROVE  \/ \E x \in Threads, n \in Nat : Claims(x, n)
         \/ \E x \in Threads : Moves(x)
         \/ KeepsTime
<1> USE DEF IInv, TypeOK, KeepsTime, Goto
<1>1. CASE RealTimePasses \/ StopClock \/ (\E t \in Timers : Cancel(t)) \/ UNCHANGED vars
  BY <1>1 DEF RealTimePasses, StopClock, Cancel, vars, timeVars, threadVars
<1>2. ASSUME NEW x \in Threads, Begin(x) \/ Return(x) \/ Run(x)  PROVE KeepsTime
  BY <1>2 DEF Begin, Return, Run, timeVars
<1>3. ASSUME NEW x \in Threads, NEW t \in Timers, NEW d \in Durations, Arm(x, t, d)
      PROVE  KeepsTime
  BY <1>3 DEF Arm, timeVars
<1>4. ASSUME NEW x \in Threads, FireNext(x)  PROVE KeepsTime
  <2>1. UNCHANGED <<delta, now, lastReal, advanced>> /\ pc[x] = "firing"
    BY <1>4 DEF FireNext, timeVars
  <2>2. \A y \in Threads \ {x} : pc'[y] = pc[y]
    BY <1>4 DEF FireNext, Fire
  <2> QED BY <2>1, <2>2
<1>5. ASSUME NEW x \in Threads, Sync(x)  PROVE KeepsTime \/ \E n \in Nat : Claims(x, n)
  <2>1. CASE current[x] > lastReal
    <3> DEFINE n == current[x] - lastReal
    <3>1. current[x] \in Nat /\ lastReal \in Nat /\ now \in Nat /\ advanced \in Nat /\ n \in Nat
      BY <2>1
    <3>2. /\ lastReal' = current[x] /\ delta' = [delta EXCEPT ![x] = n]
          /\ pc[x] = "syncing" /\ pc' = [pc EXCEPT ![x] = "moving"]
          /\ now' = now /\ advanced' = advanced
      BY <1>5, <2>1 DEF Sync
    <3>3. lastReal' + advanced' = lastReal + advanced + n
      BY <3>1, <3>2
    <3> HIDE DEF n
    <3> QED BY <3>1, <3>2, <3>3 DEF Claims
  <2>2. CASE ~ (current[x] > lastReal)
    BY <1>5, <2>2 DEF Sync
  <2> QED BY <2>1, <2>2
<1>6. ASSUME NEW x \in Threads, NEW d \in Steps, Advance(x, d)  PROVE Claims(x, d)
  <2>1. d \in Nat /\ lastReal \in Nat /\ advanced \in Nat
    BY DurationAssumption
  <2>2. lastReal' + advanced' = lastReal + advanced + d
    BY <1>6, <2>1 DEF Advance
  <2> QED BY <1>6, <2>2 DEF Advance, Claims
<1>7. ASSUME NEW x \in Threads, Move(x)  PROVE Moves(x)
  BY <1>7 DEF Move, Fire, Moves
<1>8. Steps \subseteq Nat
  BY DurationAssumption
<1> QED BY <1>1, <1>2, <1>3, <1>4, <1>5, <1>6, <1>7, <1>8 DEF Next, Goes

LEMMA TimeStep == TimeInv /\ [Next]_vars => TimeInv'
<1> SUFFICES ASSUME TimeInv, [Next]_vars  PROVE TimeInv'
  OBVIOUS
<1>1. IInv /\ ClaimInv /\ now + Total(delta) = lastReal + advanced
  BY TotalInTime DEF TimeInv
<1>2. IInv'
  BY <1>1, Step
<1>3. /\ {now, lastReal, advanced} \subseteq Nat /\ delta \in [Threads -> Nat]
      /\ {now', lastReal', advanced'} \subseteq Nat /\ delta' \in [Threads -> Nat]
      /\ DOMAIN pc = Threads
  BY <1>1, <1>2 DEF IInv, TypeOK
<1>4. ASSUME NEW x \in Threads, NEW n \in Nat, Claims(x, n)
      PROVE  ClaimInv' /\ now' + Total(delta') = lastReal' + advanced'
  <2>1. delta[x] = 0 /\ delta'[x] = n /\ \A y \in Threads \ {x} : delta'[y] = delta[y]
    BY <1>1, <1>3, <1>4 DEF Claims, ClaimInv
  <2>2. Total(delta) \in Nat /\ Total(delta') = Total(delta) + n - 0
    BY <1>3, <2>1, TotalChanges
  <2>3. now' = now /\ lastReal' + advanced' = lastReal + advanced + n
    BY <1>4 DEF Claims
  <2>4. ClaimInv'
    BY <1>1, <1>3, <1>4 DEF Claims, ClaimInv
  <2> QED BY <1>1, <1>3, <2>2, <2>3, <2>4
<1>5. ASSUME NEW x \in Threads, Moves(x)
      PROVE  ClaimInv' /\ now' + Total(delta') = lastReal' + advanced'
  <2>1. delta'[x] = 0 /\ \A y \in Threads \ {x} : delta'[y] = delta[y]
    BY <1>3, <1>5 DEF Moves
  <2>2. Total(delta) \in Nat /\ Total(delta') = Total(delta) + 0 - delta[x] /\ delta[x] \in Nat
    BY <1>3, <2>1, TotalChanges
  <2>3. now' = now + delta[x] /\ lastReal' = lastReal /\ advanced' = advanced
    BY <1>5 DEF Moves
  <2>4. ClaimInv'
    BY <1>1, <1>5, <2>1 DEF Moves, ClaimInv
  <2>5. now' + Total(delta') = lastReal' + advanced'
    BY <1>1, <1>3, <2>2, <2>3
  <2> QED BY <2>4, <2>5
<1>6. ASSUME KeepsTime
      PROVE  ClaimInv' /\ now' + Total(delta') = lastReal' + advanced'
  BY <1>1, <1>6 DEF KeepsTime, ClaimInv
<1>7. ClaimInv' /\ now' + Total(delta') = lastReal' + advanced'
  BY <1>1, <1>4, <1>5, <1>6, TimeKinds
<1>8. (now + Total(delta) = lastReal + advanced)' => TimeIsConserved'
  BY TotalInTime, PTL
<1> QED BY <1>2, <1>7, <1>8 DEF TimeInv

\* No time is lost or counted twice, by however many threads that read real time,
\* claim the difference and move the clock in different critical sections.
THEOREM ClockConservesTime == Spec => []TimeIsConserved
<1>1. Init => TimeInv
  <2> SUFFICES ASSUME Init  PROVE TimeInv
    OBVIOUS
  <2>1. IInv
    BY Start
  <2>2. delta \in [Threads -> Nat] /\ \A x \in Threads : delta[x] = 0
    BY DEF Init
  <2>3. Total(delta) = 0
    BY <2>2, TotalOfNothing
  <2>4. TimeIsConserved
    BY <2>3, TotalInTime DEF Init
  <2> QED BY <2>1, <2>2, <2>4 DEF TimeInv, ClaimInv
<1>2. TimeInv => TimeIsConserved
  BY DEF TimeInv
<1> QED BY <1>1, <1>2, TimeStep, PTL DEF Spec
=============================================================================
