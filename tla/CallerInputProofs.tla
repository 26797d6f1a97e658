------------------------- MODULE CallerInputProofs -------------------------
(***************************************************************************)
(* Theorems about CallerInput, for any keys, messages, Gathers and numbers *)
(* of senders.                                                             *)
(***************************************************************************)
EXTENDS CallerInput, SequenceTheorems, FiniteSetTheorems, WellFoundedInduction, TLAPS

(* Numbers *)

\* Induction, for a set in place of a predicate.
LEMMA Numbers ==
  ASSUME NEW W, 0 \in W, \A n \in Nat : n \in W => n + 1 \in W
  PROVE  \A n \in Nat : n \in W
<1> DEFINE Bad == {n \in Nat : n \notin W}
<1> SUFFICES ASSUME Bad # {}  PROVE FALSE
  OBVIOUS
<1>1. \E n \in Bad : \A m \in Bad : ~ (<<m, n>> \in OpToRel(<, Nat))
  BY NatLessThanWellFounded, WFMin
<1>2. PICK n \in Bad : \A m \in Bad : ~ (<<m, n>> \in OpToRel(<, Nat))
  BY <1>1
<1>3. n # 0 /\ n \in Nat
  OBVIOUS
<1>4. n - 1 \in Nat /\ n - 1 \notin W
  BY <1>3
<1>5. <<n - 1, n>> \in OpToRel(<, Nat)
  BY <1>3, <1>4 DEF OpToRel
<1> QED BY <1>2, <1>4, <1>5

\* A set of numbers that has a bound has a greatest one, and one that is not
\* empty a least one.
LEMMA Greatest ==
  ASSUME NEW T \in SUBSET Nat, T # {}, NEW b \in Nat, \A t \in T : t <= b
  PROVE  Max(T) \in T /\ \A t \in T : Max(T) >= t
<1> DEFINE W == {n \in Nat : (\E t \in T : t >= b - n) => \E m \in T : \A t \in T : m >= t}
<1>1. 0 \in W
  <2> SUFFICES ASSUME NEW m \in T, m >= b - 0  PROVE \A t \in T : m >= t
    OBVIOUS
  <2>1. m = b
    OBVIOUS
  <2> QED BY <2>1
<1>2. ASSUME NEW n \in Nat, n \in W  PROVE n + 1 \in W
  <2> SUFFICES ASSUME NEW m \in T, m >= b - (n + 1)  PROVE \E u \in T : \A t \in T : u >= t
    OBVIOUS
  <2>1. CASE \E t \in T : t >= b - n
    BY <1>2, <2>1
  <2>2. CASE \A t \in T : ~ (t >= b - n)
    <3>1. ASSUME NEW t \in T  PROVE m >= t
      <4>1. t \in Nat /\ m \in Nat /\ ~ (t >= b - n)
        BY <2>2
      <4> QED BY <4>1
    <3> QED BY <3>1
  <2> QED BY <2>1, <2>2
<1>3. b \in W
  <2> HIDE DEF W
  <2> QED BY <1>1, <1>2, Numbers
<1>4. PICK m \in T : \A t \in T : m >= t
  <2>1. PICK t \in T : TRUE
    OBVIOUS
  <2>2. t >= b - b
    OBVIOUS
  <2> QED BY <1>3, <2>2
<1> QED BY <1>4 DEF Max

LEMMA Lowest ==
  ASSUME NEW T \in SUBSET Nat, T # {}
  PROVE  Min(T) \in T /\ \A t \in T : Min(T) <= t
<1>1. \E n \in T : \A m \in T : ~ (<<m, n>> \in OpToRel(<, Nat))
  BY NatLessThanWellFounded, WFMin
<1>2. \A m, n \in Nat : m < n => <<m, n>> \in OpToRel(<, Nat)
  BY DEF OpToRel
<1>3. PICK n \in T : \A m \in T : ~ (<<m, n>> \in OpToRel(<, Nat))
  BY <1>1
<1>4. ASSUME NEW m \in T  PROVE n <= m
  <2>1. ~ (m < n)
    BY <1>2, <1>3
  <2> QED BY <2>1
<1> QED BY <1>4 DEF Min
-----------------------------------------------------------------------------
(* FoldLeft over a message is a recursive function on sets of places; on   *)
(* the first places of the message it takes key by key.                    *)

IsFold(g, base, m, f) ==
  f = [s \in SUBSET DOMAIN m |->
         IF s = {} THEN base ELSE TakeKey(g, f[s \ {Max(s)}], m[Max(s)])]

LEMMA FoldExists ==
  ASSUME NEW g, NEW base, NEW m \in Seq(Keys)
  PROVE  \E f : IsFold(g, base, m, f)
<1> DEFINE P == SUBSET DOMAIN m
           Body(f, s) == IF s = {} THEN base ELSE TakeKey(g, f[s \ {Max(s)}], m[Max(s)])
           Upto(n) == \E f : \A s \in P : Cardinality(s) <= n => f[s] = Body(f, s)
           W == {n \in Nat : Upto(n)}
<1>0. DOMAIN m = 1..Len(m) /\ Len(m) \in Nat
  BY LenProperties
<1>1. ASSUME NEW s \in P
      PROVE  /\ IsFiniteSet(s) /\ Cardinality(s) \in Nat
             /\ s # {} => Max(s) \in s
  <2>1. IsFiniteSet(1..Len(m))
    BY <1>0, FS_Interval
  <2>2. IsFiniteSet(s) /\ Cardinality(s) \in Nat
    BY <1>0, <2>1, FS_Subset, FS_CardinalityType
  <2>3. s # {} => Max(s) \in s
    <3> SUFFICES ASSUME s # {}  PROVE Max(s) \in s
      OBVIOUS
    <3>1. s \in SUBSET Nat /\ \A t \in s : t <= Len(m)
      BY <1>0
    <3> QED BY <1>0, <3>1, Greatest
  <2> QED BY <2>2, <2>3
<1>2. 0 \in W
  <2> DEFINE f == [s \in P |-> base]
  <2>1. ASSUME NEW s \in P, Cardinality(s) <= 0  PROVE f[s] = Body(f, s)
    <3>1. IsFiniteSet(s) /\ Cardinality(s) \in Nat
      BY <1>1
    <3>2. Cardinality(s) = 0
      BY <2>1, <3>1
    <3>3. s = {}
      BY <3>1, <3>2, FS_EmptySet
    <3> QED BY <3>3
  <2> HIDE DEF Body, f
  <2> QED BY <2>1
<1>3. ASSUME NEW n \in Nat, n \in W  PROVE n + 1 \in W
  <2>1. PICK f : \A s \in P : Cardinality(s) <= n => f[s] = Body(f, s)
    BY <1>3
  <2> DEFINE h == [s \in P |-> Body(f, s)]
  <2>2. ASSUME NEW s \in P, Cardinality(s) <= n + 1  PROVE h[s] = Body(h, s)
    <3>1. CASE s = {}
      BY <3>1
    <3>2. CASE s # {}
      <4> DEFINE r == s \ {Max(s)}
      <4>1. r \in P /\ IsFiniteSet(s) /\ Cardinality(s) \in Nat /\ Max(s) \in s
        BY <1>1, <3>2
      <4>2. Cardinality(r) = Cardinality(s) - 1
        BY <4>1, FS_RemoveElement
      <4>3. f[r] = Body(f, r)
        <5>1. Cardinality(r) <= n
          BY <2>2, <4>1, <4>2
        <5> HIDE DEF Body, r
        <5> QED BY <2>1, <4>1, <5>1
      <4>4. h[r] = f[r]
        BY <4>1, <4>3
      <4>5. h[s] = TakeKey(g, f[r], m[Max(s)])
        BY <3>2
      <4> QED BY <3>2, <4>4, <4>5
    <3> QED BY <3>1, <3>2
  <2> HIDE DEF Body, h
  <2> QED BY <2>2
<1>4. \A n \in Nat : n \in W
  <2> HIDE DEF W
  <2> QED BY <1>2, <1>3, Numbers
<1>5. IsFiniteSet(DOMAIN m) /\ Cardinality(DOMAIN m) \in Nat
  BY <1>1
<1>6. PICK f : \A s \in P : Cardinality(s) <= Cardinality(DOMAIN m) => f[s] = Body(f, s)
  BY <1>4, <1>5
<1>7. ASSUME NEW s \in P  PROVE f[s] = Body(f, s)
  <2>1. Cardinality(s) <= Cardinality(DOMAIN m)
    BY <1>5, FS_Subset
  <2> HIDE DEF Body
  <2> QED BY <1>6, <2>1
<1> DEFINE h == [s \in P |-> f[s]]
<1>8. ASSUME NEW s \in P  PROVE h[s] = Body(h, s)
  <2>1. f[s] = Body(f, s)
    BY <1>7
  <2>2. s \ {Max(s)} \in P
    OBVIOUS
  <2>3. h[s \ {Max(s)}] = f[s \ {Max(s)}]
    BY <2>2
  <2> QED BY <2>1, <2>3
<1>9. h = [s \in P |-> Body(h, s)]
  <2>1. h = [s \in P |-> h[s]]
    OBVIOUS
  <2> HIDE DEF h, Body
  <2> QED BY <1>8, <2>1
<1> HIDE DEF h
<1>10. IsFold(g, base, m, h)
  BY <1>9 DEF IsFold
<1> QED BY <1>10

\* What was taken after each key.
KeyByKey(g, keys, m, p) ==
  /\ p[0] = [keys |-> keys, done |-> FALSE]
  /\ \A n \in 1..Len(m) : p[n] = TakeKey(g, p[n - 1], m[n])
  /\ TakeMessage(g, keys, m) = p[Len(m)]

LEMMA FoldByKeys ==
  ASSUME NEW g, NEW keys, NEW m \in Seq(Keys)
  PROVE  \E p : KeyByKey(g, keys, m, p)
<1> DEFINE base == [keys |-> keys, done |-> FALSE]
           iter == CHOOSE f : IsFold(g, base, m, f)
           p == [n \in 0..Len(m) |-> iter[1..n]]
<1>0. DOMAIN m = 1..Len(m) /\ Len(m) \in Nat
  BY LenProperties
<1>1. IsFold(g, base, m, iter)
  <2> HIDE DEF base
  <2> QED BY FoldExists
<1>2. TakeMessage(g, keys, m) = iter[DOMAIN m]
  BY DEF TakeMessage, FoldLeft, MapThenFoldSet, IsFold
<1> HIDE DEF iter
<1>3. p[0] = base
  <2>1. 1..0 = {} /\ {} \in SUBSET DOMAIN m
    OBVIOUS
  <2>2. iter[{}] = base
    BY <1>1, <2>1 DEF IsFold
  <2> QED BY <1>0, <2>1, <2>2
<1>4. ASSUME NEW n \in 1..Len(m)  PROVE p[n] = TakeKey(g, p[n - 1], m[n])
  <2>1. 1..n \in SUBSET DOMAIN m /\ 1..n # {}
    <3>1. 1..n \subseteq 1..Len(m) /\ n \in 1..n
      BY <1>0
    <3> QED BY <1>0, <3>1
  <2>2. Max(1..n) = n
    BY <1>0 DEF Max
  <2>3. (1..n) \ {n} = 1..(n - 1)
    BY <1>0
  <2>4. iter[1..n] = TakeKey(g, iter[1..(n - 1)], m[n])
    BY <1>1, <2>1, <2>2, <2>3 DEF IsFold
  <2> QED BY <1>0, <2>4
<1>5. TakeMessage(g, keys, m) = p[Len(m)]
  BY <1>0, <1>2
<1> HIDE DEF p
<1> QED BY <1>3, <1>4, <1>5 DEF KeyByKey
-----------------------------------------------------------------------------
(* What a Gather hears of the keys t: its digits, and is it complete?      *)

Heard(g, t) == [keys |-> Cut(g, t), done |-> Complete(g, t) # {}]

LEMMA FirstComplete ==
  ASSUME NEW g, NEW t \in Seq(Keys), Complete(g, t) # {}
  PROVE  /\ Min(Complete(g, t)) \in 1..Len(t)
         /\ Min(Complete(g, t)) \in Complete(g, t)
         /\ \A n \in Complete(g, t) : Min(Complete(g, t)) <= n
<1>1. DOMAIN t = 1..Len(t) /\ Len(t) \in Nat
  BY LenProperties
<1>2. Complete(g, t) \in SUBSET Nat /\ Complete(g, t) \in SUBSET (1..Len(t))
  BY <1>1 DEF Complete
<1> QED BY <1>2, Lowest

LEMMA CutIsKeys ==
  ASSUME NEW g, NEW t \in Seq(Keys)
  PROVE  Cut(g, t) \in Seq(Keys)
<1>1. CASE Complete(g, t) = {}
  BY <1>1 DEF Cut
<1>2. CASE Complete(g, t) # {}
  <2>1. PICK n \in 1..Len(t) : n = Min(Complete(g, t))
    BY <1>2, FirstComplete
  <2>2. Cut(g, t) = SubSeq(t, 1, IF t[n] = g.finish THEN n - 1 ELSE n)
    BY <1>2, <2>1 DEF Cut
  <2>3. PICK k \in 0..n : k = IF t[n] = g.finish THEN n - 1 ELSE n
    BY <2>1
  <2>4. k \in Int /\ \A i \in 1..k : t[i] \in Keys
    BY <2>1, <2>3, LenProperties, ElementOfSeq
  <2> QED BY <2>2, <2>3, <2>4, SubSeqProperties
<1> QED BY <1>1, <1>2

\* A key more.  When the Gather was complete it does not count, and otherwise
\* the Gather is complete by this key or not at all.
LEMMA OneMoreKey ==
  ASSUME NEW g, g.num \in Nat, NEW t \in Seq(Keys), NEW k \in Keys
  PROVE  TakeKey(g, Heard(g, t), k) = Heard(g, Append(t, k))
<1> DEFINE u == Append(t, k)
<1>1. /\ u \in Seq(Keys) /\ Len(u) = Len(t) + 1 /\ u[Len(t) + 1] = k
      /\ \A i \in 1..Len(t) : u[i] = t[i]
  BY AppendProperties
<1>2. /\ Len(t) \in Nat /\ DOMAIN t = 1..Len(t) /\ DOMAIN u = 1..(Len(t) + 1)
  BY <1>1, LenProperties
<1>3. \A n \in 0..Len(t) : SubSeq(u, 1, n) = SubSeq(t, 1, n)
  <2> SUFFICES ASSUME NEW n \in 0..Len(t)  PROVE SubSeq(u, 1, n) = SubSeq(t, 1, n)
    OBVIOUS
  <2>1. n \in Int /\ \A i \in 1..n : t[i] \in Keys /\ u[i] \in Keys /\ u[i] = t[i]
    BY <1>1, <1>2, ElementOfSeq
  <2>2. /\ SubSeq(t, 1, n) \in Seq(Keys) /\ Len(SubSeq(t, 1, n)) = IF 1 <= n THEN n - 1 + 1 ELSE 0
        /\ \A i \in 1..(n - 1 + 1) : SubSeq(t, 1, n)[i] = t[1 + i - 1]
    BY <2>1, SubSeqProperties
  <2>3. /\ SubSeq(u, 1, n) \in Seq(Keys) /\ Len(SubSeq(u, 1, n)) = IF 1 <= n THEN n - 1 + 1 ELSE 0
        /\ \A i \in 1..(n - 1 + 1) : SubSeq(u, 1, n)[i] = u[1 + i - 1]
    BY <2>1, SubSeqProperties
  <2> DEFINE v == SubSeq(t, 1, n)
             w == SubSeq(u, 1, n)
  <2> HIDE DEF u, v, w
  <2>4. Len(v) = n /\ Len(w) = n
    BY <2>2, <2>3 DEF v, w
  <2>5. ASSUME NEW i \in 1..n  PROVE v[i] = w[i]
    <3>1. i \in 1..(n - 1 + 1) /\ 1 + i - 1 = i
      OBVIOUS
    <3>2. v[i] = t[i] /\ w[i] = u[i]
      BY <2>2, <2>3, <3>1 DEF v, w
    <3> QED BY <2>1, <3>2
  <2>6. v = w
    BY <2>2, <2>3, <2>4, <2>5, SeqEqual DEF v, w
  <2> QED BY <2>6 DEF v, w
<1> HIDE DEF u
<1>4. Complete(g, u) = Complete(g, t) \union {n \in {Len(t) + 1} : k = g.finish \/ n = g.num}
  BY <1>1, <1>2 DEF Complete
<1>5. CASE Complete(g, t) # {}
  <2>1. PICK n \in 1..Len(t) : n = Min(Complete(g, t)) /\ n \in Complete(g, t)
                               /\ \A i \in Complete(g, t) : n <= i
    BY <1>5, FirstComplete
  <2>2. Complete(g, u) # {} /\ n \in Complete(g, u) /\ \A i \in Complete(g, u) : n <= i
    BY <1>2, <1>4, <2>1
  <2>3. Min(Complete(g, u)) = n
    <3>1. Complete(g, u) \subseteq Nat
      BY <1>2 DEF Complete
    <3> QED BY <2>2, <3>1 DEF Min
  <2>4. u[n] = t[n]
    BY <1>1
  <2>5. PICK i \in 0..Len(t) : i = IF t[n] = g.finish THEN n - 1 ELSE n
    BY <2>1
  <2>6. Cut(g, t) = SubSeq(t, 1, i) /\ Cut(g, u) = SubSeq(u, 1, i)
    BY <1>5, <2>1, <2>2, <2>3, <2>4, <2>5 DEF Cut
  <2>7. Cut(g, u) = Cut(g, t)
    BY <1>3, <2>6
  <2>8. TakeKey(g, Heard(g, t), k) = Heard(g, t)
    BY <1>5 DEF TakeKey, Heard
  <2>9. Heard(g, u) = Heard(g, t)
    BY <1>5, <2>2, <2>7 DEF Heard
  <2> QED BY <2>8, <2>9 DEF u
<1>6. CASE Complete(g, t) = {}
  <2>1. Cut(g, t) = t /\ Heard(g, t) = [keys |-> t, done |-> FALSE]
    BY <1>6 DEF Cut, Heard
  <2>2. CASE k = g.finish
    <3>1. Complete(g, u) = {Len(t) + 1}
      BY <1>4, <1>6, <2>2
    <3>2. Min(Complete(g, u)) = Len(t) + 1
      BY <1>2, <3>1 DEF Min
    <3>3. Cut(g, u) = SubSeq(u, 1, Len(t) + 1 - 1)
      <4>1. Complete(g, u) # {} /\ u[Min(Complete(g, u))] = g.finish
        BY <1>1, <2>2, <3>1, <3>2
      <4> QED BY <3>2, <4>1 DEF Cut
    <3>4. Cut(g, u) = t
      <4>1. Len(t) + 1 - 1 = Len(t) /\ Len(t) \in 0..Len(t)
        BY <1>2
      <4> QED BY <1>3, <3>3, <4>1, SubSeqFull
    <3>5. Heard(g, u) = [keys |-> t, done |-> TRUE]
      BY <3>1, <3>4 DEF Heard
    <3>6. TakeKey(g, Heard(g, t), k) = [keys |-> t, done |-> TRUE]
      BY <2>1, <2>2 DEF TakeKey
    <3> QED BY <3>5, <3>6 DEF u
  <2>3. CASE k # g.finish
    <3>1. g.num \notin 1..Len(t)
      BY <1>2, <1>6 DEF Complete
    <3>2. (g.num > 0 /\ Len(u) >= g.num) <=> g.num = Len(t) + 1
      BY <1>1, <1>2, <3>1
    <3>3. TakeKey(g, Heard(g, t), k) = [keys |-> u, done |-> g.num > 0 /\ Len(u) >= g.num]
      BY <2>1, <2>3 DEF TakeKey, u
    <3>4. Complete(g, u) = IF g.num = Len(t) + 1 THEN {Len(t) + 1} ELSE {}
      BY <1>4, <1>6, <2>3
    <3>5. Cut(g, u) = u
      <4>1. CASE g.num = Len(t) + 1
        <5>1. Complete(g, u) = {Len(t) + 1} /\ Min(Complete(g, u)) = Len(t) + 1
          BY <1>2, <3>4, <4>1 DEF Min
        <5>2. Cut(g, u) = SubSeq(u, 1, Len(u))
          BY <1>1, <2>3, <5>1 DEF Cut
        <5> QED BY <1>1, <5>2, SubSeqFull
      <4>2. CASE g.num # Len(t) + 1
        BY <3>4, <4>2 DEF Cut
      <4> QED BY <4>1, <4>2
    <3>6. (Complete(g, u) # {}) = (g.num > 0 /\ Len(u) >= g.num)
      BY <3>2, <3>4
    <3> QED BY <3>3, <3>5, <3>6 DEF Heard, u
  <2> QED BY <2>2, <2>3
<1> QED BY <1>5, <1>6

LEMMA KeysConcat ==
  ASSUME NEW x \in Seq(Keys), NEW y \in Seq(Keys), NEW z \in Seq(Keys)
  PROVE  (x \o y) \o z = x \o (y \o z)
BY ConcatAssociative

\* However the keys are spread over messages: after a message, a Gather that
\* heard all keys before it has heard those of the message.
LEMMA MessageHeard ==
  ASSUME NEW g, g.num \in Nat, NEW t \in Seq(Keys), Complete(g, t) = {}, NEW m \in Seq(Keys)
  PROVE  TakeMessage(g, t, m) = Heard(g, t \o m)
<1>1. PICK p : KeyByKey(g, t, m, p)
  BY FoldByKeys
<1>2. Len(m) \in Nat
  BY LenProperties
<1> DEFINE W == {n \in Nat : n <= Len(m) => p[n] = Heard(g, t \o SubSeq(m, 1, n))}
<1>3. 0 \in W
  <2>1. SubSeq(m, 1, 0) = <<>>
    BY SubSeqEmpty
  <2>2. t \o <<>> = t
    BY ConcatEmptySeq
  <2>3. Heard(g, t) = [keys |-> t, done |-> FALSE]
    BY DEF Heard, Cut
  <2> QED BY <1>1, <2>1, <2>2, <2>3 DEF KeyByKey
<1>4. ASSUME NEW i \in Nat, i \in W  PROVE i + 1 \in W
  <2> SUFFICES ASSUME i + 1 <= Len(m)
               PROVE  p[i + 1] = Heard(g, t \o SubSeq(m, 1, i + 1))
    OBVIOUS
  <2> DEFINE r == SubSeq(m, 1, i)
             s == SubSeq(m, 1, i + 1)
  <2>1. i + 1 \in 1..Len(m) /\ 1 \in 1..Len(m) /\ i + 1 \in 1..Len(m) /\ i + 1 - 1 = i
    BY <1>2
  <2>2. s = r \o <<m[i + 1]>>
    <3>1. i + 1 \in 1..Len(m) /\ 1 \in 1..Len(m)
      BY <2>1
    <3>2. SubSeq(m, 1, i + 1) = SubSeq(m, 1, i + 1 - 1) \o <<m[i + 1]>>
      BY <3>1, SubSeqRecursiveSecond
    <3> QED BY <2>1, <3>2
  <2>3. r \in Seq(Keys) /\ m[i + 1] \in Keys
    <3>1. \A j \in 1..i : m[j] \in Keys
      BY <2>1, <1>2, ElementOfSeq
    <3> QED BY <2>1, <3>1, SubSeqProperties, ElementOfSeq
  <2>4. t \o s = Append(t \o r, m[i + 1]) /\ t \o r \in Seq(Keys)
    <3>1. t \o r \in Seq(Keys)
      BY <2>3, ConcatProperties
    <3>2. Append(t \o r, m[i + 1]) = (t \o r) \o <<m[i + 1]>>
      BY <2>3, <3>1, AppendIsConcat
    <3>3. <<m[i + 1]>> \in Seq(Keys)
      BY <2>3
    <3> DEFINE one == <<m[i + 1]>>
    <3>4. (t \o r) \o one = t \o (r \o one)
      <4> HIDE DEF r, one
      <4>1. one \in Seq(Keys)
        BY <3>3 DEF one
      <4> QED BY <2>3, <4>1, KeysConcat, Zenon
    <3> QED BY <2>2, <3>1, <3>2, <3>4
  <2>5. p[i] = Heard(g, t \o r)
    BY <1>4, <2>1
  <2>6. p[i + 1] = TakeKey(g, p[i], m[i + 1])
    BY <1>1, <2>1 DEF KeyByKey
  <2> HIDE DEF r, s
  <2>7. TakeKey(g, Heard(g, t \o r), m[i + 1]) = Heard(g, Append(t \o r, m[i + 1]))
    BY <2>3, <2>4, OneMoreKey
  <2>8. p[i + 1] = Heard(g, t \o s)
    BY <2>4, <2>5, <2>6, <2>7
  <2> QED BY <2>8 DEF s
<1>5. Len(m) \in W
  <2> HIDE DEF W
  <2> QED BY <1>2, <1>3, <1>4, Numbers
<1>6. SubSeq(m, 1, Len(m)) = m
  BY SubSeqFull
<1>7. p[Len(m)] = Heard(g, t \o SubSeq(m, 1, Len(m)))
  BY <1>2, <1>5
<1> QED BY <1>1, <1>6, <1>7 DEF KeyByKey
-----------------------------------------------------------------------------
(* FlattenSeq is a recursive function, too: the keys of the messages.      *)

IsFlat(s, f) ==
  f = [i \in 1..Len(s) |-> IF i = 1 THEN s[i] ELSE f[i - 1] \o s[i]]

LEMMA FlatExists ==
  ASSUME NEW s \in Seq(Messages)
  PROVE  \E f : IsFlat(s, f)
<1> DEFINE P == 1..Len(s)
           Body(f, i) == IF i = 1 THEN s[i] ELSE f[i - 1] \o s[i]
           W == {n \in Nat : \E f : \A i \in P : i <= n => f[i] = Body(f, i)}
<1>1. Len(s) \in Nat
  BY LenProperties
<1>2. 0 \in W
  OBVIOUS
<1>3. ASSUME NEW n \in Nat, n \in W  PROVE n + 1 \in W
  <2>1. PICK f : \A i \in P : i <= n => f[i] = Body(f, i)
    BY <1>3
  <2> DEFINE h == [i \in P |-> Body(f, i)]
  <2>2. ASSUME NEW i \in P, i <= n + 1  PROVE h[i] = Body(h, i)
    <3>1. CASE i = 1
      BY <3>1
    <3>2. CASE i # 1
      <4>1. i - 1 \in P /\ i - 1 <= n
        BY <2>2, <3>2
      <4>2. f[i - 1] = Body(f, i - 1)
        <5> HIDE DEF Body
        <5> QED BY <2>1, <4>1
      <4>3. h[i - 1] = f[i - 1]
        BY <4>1, <4>2
      <4> QED BY <3>2, <4>3
    <3> QED BY <3>1, <3>2
  <2> HIDE DEF Body, h
  <2> QED BY <2>2
<1>4. Len(s) \in W
  <2> HIDE DEF W
  <2> QED BY <1>1, <1>2, <1>3, Numbers
<1>5. PICK f : \A i \in P : f[i] = Body(f, i)
  BY <1>4
<1> DEFINE h == [i \in P |-> f[i]]
<1>6. ASSUME NEW i \in P  PROVE h[i] = Body(h, i)
  <2>1. f[i] = Body(f, i)
    BY <1>5
  <2>2. i # 1 => h[i - 1] = f[i - 1]
    BY <1>1
  <2> QED BY <2>1, <2>2
<1>7. h = [i \in P |-> Body(h, i)]
  <2>1. h = [i \in P |-> h[i]]
    OBVIOUS
  <2> HIDE DEF h, Body
  <2> QED BY <1>6, <2>1
<1> HIDE DEF h
<1>8. IsFlat(s, h)
  BY <1>7 DEF IsFlat
<1> QED BY <1>8

LEMMA FlatIsFlat ==
  ASSUME NEW s \in Seq(Messages)
  PROVE  \E f : /\ IsFlat(s, f)
                /\ FlattenSeq(s) = IF Len(s) = 0 THEN <<>> ELSE f[Len(s)]
                /\ \A i \in 1..Len(s) : f[i] \in Seq(Keys)
<1> DEFINE f == CHOOSE f : IsFlat(s, f)
<1>1. IsFlat(s, f)
  BY FlatExists
<1>2. FlattenSeq(s) = IF Len(s) = 0 THEN s ELSE f[Len(s)]
  BY DEF FlattenSeq, IsFlat
<1> HIDE DEF f
<1>3. Len(s) \in Nat /\ (Len(s) = 0 => s = <<>>)
  BY LenProperties, EmptySeq
<1>4. \A i \in 1..Len(s) : s[i] \in Seq(Keys)
  BY ElementOfSeq, InputAssumption
<1> DEFINE W == {n \in Nat : \A i \in 1..Len(s) : i <= n => f[i] \in Seq(Keys)}
<1>5. 0 \in W
  OBVIOUS
<1>6. ASSUME NEW n \in Nat, n \in W  PROVE n + 1 \in W
  <2> SUFFICES ASSUME NEW i \in 1..Len(s), i <= n + 1  PROVE f[i] \in Seq(Keys)
    OBVIOUS
  <2>1. f[i] = IF i = 1 THEN s[i] ELSE f[i - 1] \o s[i]
    BY <1>1 DEF IsFlat
  <2>2. CASE i = 1
    BY <1>4, <2>1, <2>2
  <2>3. CASE i # 1
    <3>1. i - 1 \in 1..Len(s) /\ i - 1 <= n
      BY <1>3, <2>3
    <3>2. f[i - 1] \in Seq(Keys) /\ s[i] \in Seq(Keys)
      BY <1>4, <1>6, <3>1
    <3> QED BY <2>1, <2>3, <3>2, ConcatProperties
  <2> QED BY <2>2, <2>3
<1>7. Len(s) \in W
  <2> HIDE DEF W
  <2> QED BY <1>3, <1>5, <1>6, Numbers
<1>8. \A i \in 1..Len(s) : f[i] \in Seq(Keys)
  BY <1>7
<1> QED BY <1>1, <1>2, <1>3, <1>8

LEMMA FlattenAppend ==
  ASSUME NEW s \in Seq(Messages), NEW m \in Messages
  PROVE  /\ FlattenSeq(s) \in Seq(Keys)
         /\ FlattenSeq(Append(s, m)) = FlattenSeq(s) \o m
<1> DEFINE u == Append(s, m)
<1>1. /\ u \in Seq(Messages) /\ Len(u) = Len(s) + 1 /\ u[Len(s) + 1] = m
      /\ \A i \in 1..Len(s) : u[i] = s[i]
  BY AppendProperties
<1>2. Len(s) \in Nat /\ m \in Seq(Keys)
  BY LenProperties, InputAssumption
<1>3. PICK f : /\ IsFlat(s, f)
               /\ FlattenSeq(s) = IF Len(s) = 0 THEN <<>> ELSE f[Len(s)]
               /\ \A i \in 1..Len(s) : f[i] \in Seq(Keys)
  BY FlatIsFlat
<1> HIDE DEF u
<1>4. PICK h : IsFlat(u, h) /\ FlattenSeq(u) = IF Len(u) = 0 THEN <<>> ELSE h[Len(u)]
  BY <1>1, FlatIsFlat
<1> DEFINE W == {n \in Nat : \A i \in 1..Len(s) : i <= n => h[i] = f[i]}
<1>5. 0 \in W
  OBVIOUS
<1>6. ASSUME NEW n \in Nat, n \in W  PROVE n + 1 \in W
  <2> SUFFICES ASSUME NEW i \in 1..Len(s), i <= n + 1  PROVE h[i] = f[i]
    OBVIOUS
  <2>1. f[i] = IF i = 1 THEN s[i] ELSE f[i - 1] \o s[i]
    BY <1>3 DEF IsFlat
  <2>2. h[i] = IF i = 1 THEN u[i] ELSE h[i - 1] \o u[i]
    <3>1. i \in 1..Len(u)
      BY <1>1, <1>2
    <3> QED BY <1>4, <3>1 DEF IsFlat
  <2>3. i # 1 => h[i - 1] = f[i - 1]
    <3> SUFFICES ASSUME i # 1  PROVE h[i - 1] = f[i - 1]
      OBVIOUS
    <3>1. i - 1 \in 1..Len(s) /\ i - 1 <= n
      BY <1>2
    <3> QED BY <1>6, <3>1
  <2>4. u[i] = s[i]
    BY <1>1
  <2> QED BY <2>1, <2>2, <2>3, <2>4
<1>7. Len(s) \in W
  <2> HIDE DEF W
  <2> QED BY <1>2, <1>5, <1>6, Numbers
<1>8. \A i \in 1..Len(s) : h[i] = f[i]
  BY <1>7
<1>9. FlattenSeq(u) = h[Len(s) + 1]
  BY <1>1, <1>2, <1>4
<1>10. h[Len(s) + 1] = IF Len(s) + 1 = 1 THEN u[Len(s) + 1] ELSE h[Len(s) + 1 - 1] \o u[Len(s) + 1]
  <2>1. Len(s) + 1 \in 1..Len(u)
    BY <1>1, <1>2
  <2>2. \A i \in 1..Len(u) : h[i] = IF i = 1 THEN u[i] ELSE h[i - 1] \o u[i]
    BY <1>4 DEF IsFlat
  <2> QED BY <2>1, <2>2
<1>11. CASE Len(s) = 0
  <2>1. FlattenSeq(s) = <<>> /\ FlattenSeq(u) = m
    BY <1>1, <1>3, <1>9, <1>10, <1>11
  <2>2. <<>> \in Seq(Keys) /\ <<>> \o m = m
    BY <1>2, ConcatEmptySeq, EmptySeq
  <2> QED BY <2>1, <2>2 DEF u
<1>12. CASE Len(s) # 0
  <2>1. Len(s) \in 1..Len(s) /\ Len(s) + 1 # 1 /\ Len(s) + 1 - 1 = Len(s)
    BY <1>2, <1>12
  <2>2. FlattenSeq(s) = f[Len(s)] /\ h[Len(s)] = f[Len(s)] /\ f[Len(s)] \in Seq(Keys)
    BY <1>3, <1>8, <1>12, <2>1
  <2>3. FlattenSeq(u) = h[Len(s)] \o m
    BY <1>1, <1>9, <1>10, <2>1
  <2> QED BY <2>2, <2>3 DEF u
<1> QED BY <1>11, <1>12

LEMMA FlattenNothing == FlattenSeq(<<>>) = <<>>
<1>1. Len(<<>>) = 0
  BY EmptySeq
<1> QED BY <1>1 DEF FlattenSeq
-----------------------------------------------------------------------------
(* What the runner of a Gather has heard, and the types. *)

HearInv ==
  /\ pc \notin {"collecting", "gathered"} => received = <<>> /\ collected = <<>>
  /\ pc = "collecting" => collected = Stream /\ Complete(gather, Stream) = {}
  /\ pc = "gathered" => collected = Cut(gather, Stream)

Reports ==
  [of : {"gather", "redirect", "record", "dial recording", "dial"}, verb : 1..MaxVerbs,
   digits : [keys : Seq(Keys), verb : 0..MaxVerbs], recording : Nat]

RequestType == requests \in Seq(Reports)

ReachedInv == pc \notin {"exec", "ended"} => verbs > 0

InputInv == TypeOK /\ RequestType /\ ReachedInv /\ HearInv

LEMMA GatherTypes ==
  ASSUME TypeOK
  PROVE  /\ gather.num \in Nat /\ gather \in Gathers \union {NoGather}
         /\ received \in Seq(Messages) /\ Stream \in Seq(Keys) /\ collected \in Seq(Keys)
<1>1. gather.num \in Nat
  BY InputAssumption DEF TypeOK, NoGather, Gather
<1>2. Stream \in Seq(Keys)
  <2>1. CASE Messages = {}
    <3>1. received = <<>>
      <4>1. received \in Seq(Messages) /\ Len(received) \in Nat
        BY LenProperties DEF TypeOK
      <4>2. Len(received) = 0
        <5> SUFFICES ASSUME Len(received) # 0  PROVE FALSE
          OBVIOUS
        <5>1. 1 \in 1..Len(received)
          BY <4>1
        <5> QED BY <2>1, <4>1, <5>1, ElementOfSeq
      <4> QED BY <4>1, <4>2, EmptySeq
    <3> QED BY <3>1, FlattenNothing, EmptySeq DEF Stream
  <2>2. CASE Messages # {}
    BY <2>2, FlattenAppend DEF Stream, TypeOK
  <2> QED BY <2>1, <2>2
<1> QED BY <1>1, <1>2 DEF TypeOK
LEMMA LastSetIsLast ==
  ASSUME TypeOK, NEW kind
  PROVE  /\ LastSet(kind) \in Nat
         /\ LastSet(kind) # 0 =>
              LastSet(kind) \in DOMAIN recordings /\ recordings[LastSet(kind)].for = kind
         /\ \A n \in DOMAIN recordings : recordings[n].for = kind => LastSet(kind) >= n
<1> DEFINE I == {i \in DOMAIN recordings : recordings[i].for = kind} \union {0}
<1>1. DOMAIN recordings = 1..Len(recordings) /\ Len(recordings) \in Nat
  BY LenProperties DEF TypeOK
<1>2. I \in SUBSET Nat /\ I # {} /\ \A i \in I : i <= Len(recordings)
  BY <1>1
<1>3. Max(I) \in I /\ \A i \in I : Max(I) >= i
  <2> HIDE DEF I
  <2> QED BY <1>1, <1>2, Greatest
<1>4. LastSet(kind) = Max(I)
  BY DEF LastSet
<1> QED BY <1>2, <1>3, <1>4

\* What each step does to the verbs, the requests, the digits and recordings.
Quiet == UNCHANGED <<verbs, requests, digits, recordings>>

Reaches ==
  /\ pc = "exec" /\ pc' \in {"prompting", "recording", "dialing", "redirect"}
  /\ verbs' = verbs + 1 /\ verbs < MaxVerbs
  /\ UNCHANGED <<requests, digits, recordings>>

KeepsDigits ==
  /\ pc = "gathered" /\ pc' = "exec" /\ collected # <<>> /\ digits' = Gathered
  /\ UNCHANGED <<verbs, requests, recordings>>

SendsDigits ==
  /\ pc = "gathered" /\ collected # <<>>
  /\ requests' = Append(requests, [of |-> "gather", verb |-> verbs, digits |-> Gathered, recording |-> 0])
  /\ \/ pc' = "exec" /\ digits' = None
     \/ pc' = "ended" /\ digits' = Gathered
  /\ UNCHANGED <<verbs, recordings>>

\* From where each other request is made, and the recording it reports.
Asks ==
  /\ \E of \in {"redirect", "record", "dial recording", "dial"}, n \in Nat :
       /\ requests' = Append(requests, [of |-> of, verb |-> verbs, digits |-> digits, recording |-> n])
       /\ of = "record" => pc = "recorded" /\ n = LastSet("record")
       /\ of = "dial recording" => pc = "dialed" /\ n = LastSet("dial")
       /\ of = "redirect" => pc = "redirect"
       /\ of = "dial" => pc = "told"
  /\ pc' \in {"exec", "told", "ended"} /\ (pc' = "told" => pc = "dialed")
  /\ digits' \in {None, digits}
  /\ UNCHANGED <<verbs, recordings>>

Records ==
  /\ \/ \E n \in {0, verbs} :
          /\ recordings' = Append(recordings, [for |-> "record", verb |-> n])
          /\ pc # "recording" => n = 0
     \/ \E n \in {0, verbs} :
          /\ recordings' = Append(recordings, [for |-> "dial", verb |-> n])
          /\ pc # "dialing" => n = 0
  /\ UNCHANGED <<pc, verbs, requests, digits>>

\* Within a verb, before its request; a step that ends a verb goes on or ends.
Within ==
  /\ Quiet
  /\ \/ pc' = pc
     \/ pc' \in {"exec", "ended"} /\ pc # "ended"
     \/ pc = "prompting" /\ pc' = "collecting"
     \/ pc = "collecting" /\ pc' \in {"gathered", "redirect"}
     \/ pc = "recording" /\ pc' = "recorded"
     \/ pc = "dialing" /\ pc' = "dialed"
     \/ pc = "dialed" /\ pc' = "told"

LEMMA InputKinds ==
  ASSUME TypeOK, [Next]_vars
  PROVE  Reaches \/ KeepsDigits \/ SendsDigits \/ Asks \/ Records \/ Within
<1> USE DEF Goto, senderVars, apiVars, gatherVars
<1>1. CASE StartGather \/ StartRecord \/ StartDial \/ StartRedirect
  BY <1>1 DEF StartGather, StartRecord, StartDial, StartRedirect, NextVerb, Reaches
<1>2. CASE Ends \/ PromptsEnd \/ PromptFails \/ ReceiveDigits \/ GatherTimeout
           \/ GatherHangup \/ GatherShutdown \/ GatherUrlUpdated \/ NothingGathered
  BY <1>2
  DEF Ends, PromptsEnd, PromptFails, ReceiveDigits, GatherTimeout, GatherHangup, GatherShutdown,
      GatherUrlUpdated, NothingGathered, Within, Quiet
<1>3. CASE GatheredForLater
  BY <1>3 DEF GatheredForLater, KeepsDigits
<1>4. CASE GatherAction
  BY <1>4 DEF GatherAction, SendsDigits
<1>5. CASE RedirectRequest
  <2>1. CASE digits = None
    BY <1>5, <2>1 DEF RedirectRequest, Within, Quiet
  <2>2. CASE digits # None
    BY <1>5, <2>2 DEF RedirectRequest, Asks
  <2> QED BY <2>1, <2>2
<1>6. CASE RecordingEnds \/ DialTakesDigits \/ DialEnds \/ DialFails \/ DialUrlUpdated
  BY <1>6
  DEF RecordingEnds, DialTakesDigits, DialEnds, DialFails, DialUrlUpdated, NoRequest, Within, Quiet
<1>7. CASE RecordAction
  <2>1. LastSet("record") \in Nat
    BY LastSetIsLast
  <2> QED BY <1>7, <2>1 DEF RecordAction, Request, NoRequest, Asks, Within, Quiet
<1>8. CASE DialRecording
  <2>1. LastSet("dial") \in Nat
    BY LastSetIsLast
  <2> QED BY <1>8, <2>1 DEF DialRecording, Request, NoRequest, Asks, Within, Quiet
<1>9. CASE DialAction
  BY <1>9 DEF DialAction, Request, NoRequest, Asks, Within, Quiet
<1>10. CASE (\E s \in Senders : PutDigits(s) \/ \E m \in Messages : SendDigits(s, m))
            \/ SendToUnknownCall \/ Hangup \/ UpdateUrl \/ Close \/ UNCHANGED vars
  BY <1>10 DEF PutDigits, SendDigits, SendToUnknownCall, Hangup, UpdateUrl, Close, vars, Within, Quiet
<1>11. CASE SetCallVoicemail
  BY <1>11 DEF SetCallVoicemail, SetRecording, Records
<1>12. CASE SetCallRecording
  BY <1>12 DEF SetCallRecording, SetRecording, Records
<1> QED
  BY <1>1, <1>2, <1>3, <1>4, <1>5, <1>6, <1>7, <1>8, <1>9, <1>10, <1>11, <1>12
  DEF Next, Runner, Api
-----------------------------------------------------------------------------
LEMMA AddReport ==
  ASSUME RequestType, NEW q \in Reports
  PROVE  /\ Append(requests, q) \in Seq(Reports)
         /\ DOMAIN requests = 1..Len(requests) /\ Len(requests) \in Nat
         /\ DOMAIN Append(requests, q) = 1..(Len(requests) + 1)
         /\ \A i \in 1..Len(requests) : Append(requests, q)[i] = requests[i]
         /\ Append(requests, q)[Len(requests) + 1] = q
<1>1. requests \in Seq(Reports)
  BY DEF RequestType
<1>2. /\ Append(requests, q) \in Seq(Reports) /\ Len(Append(requests, q)) = Len(requests) + 1
      /\ \A i \in 1..Len(requests) : Append(requests, q)[i] = requests[i]
      /\ Append(requests, q)[Len(requests) + 1] = q
  BY <1>1, AppendProperties
<1> QED BY <1>1, <1>2, LenProperties

\* What a request says is of its type, when it is made.
LEMMA ReportsAreTyped ==
  ASSUME TypeOK, ReachedInv, pc \notin {"exec", "ended"}
  PROVE  /\ verbs \in 1..MaxVerbs
         /\ Gathered \in [keys : Seq(Keys), verb : 0..MaxVerbs]
         /\ \A of \in {"gather", "redirect", "record", "dial recording", "dial"},
               d \in [keys : Seq(Keys), verb : 0..MaxVerbs], n \in Nat :
                 [of |-> of, verb |-> verbs, digits |-> d, recording |-> n] \in Reports
<1>1. verbs \in 1..MaxVerbs
  BY InputAssumption DEF TypeOK, ReachedInv
<1>2. Gathered \in [keys : Seq(Keys), verb : 0..MaxVerbs]
  BY DEF TypeOK, Gathered
<1> QED BY <1>1, <1>2 DEF Reports

LEMMA CoreTypes ==
  ASSUME InputInv, [Next]_vars
  PROVE  /\ verbs' \in 0..MaxVerbs
         /\ digits' \in [keys : Seq(Keys), verb : 0..MaxVerbs]
         /\ RequestType' /\ ReachedInv'
         /\ recordings' \in Seq([for : {"record", "dial"}, verb : 0..MaxVerbs])
         /\ pc' \in {"exec", "prompting", "collecting", "gathered", "recording", "recorded",
                     "dialing", "dialed", "told", "redirect", "ended"}
<1> USE DEF InputInv
<1>0. /\ verbs \in 0..MaxVerbs /\ MaxVerbs \in Nat
      /\ digits \in [keys : Seq(Keys), verb : 0..MaxVerbs]
      /\ requests \in Seq(Reports)
      /\ recordings \in Seq([for : {"record", "dial"}, verb : 0..MaxVerbs])
      /\ pc \in {"exec", "prompting", "collecting", "gathered", "recording", "recorded",
                 "dialing", "dialed", "told", "redirect", "ended"}
  BY InputAssumption DEF TypeOK, RequestType
<1>1. None \in [keys : Seq(Keys), verb : 0..MaxVerbs]
  BY <1>0, EmptySeq DEF None
<1>2. CASE Reaches
  BY <1>0, <1>2 DEF Reaches, RequestType, ReachedInv
<1>3. CASE KeepsDigits
  <2>1. Gathered \in [keys : Seq(Keys), verb : 0..MaxVerbs]
    BY <1>3, ReportsAreTyped DEF KeepsDigits
  <2> QED BY <1>0, <1>3, <2>1 DEF KeepsDigits, RequestType, ReachedInv
<1>4. CASE SendsDigits
  <2>1. /\ Gathered \in [keys : Seq(Keys), verb : 0..MaxVerbs]
        /\ [of |-> "gather", verb |-> verbs, digits |-> Gathered, recording |-> 0] \in Reports
    BY <1>4, ReportsAreTyped DEF SendsDigits
  <2>2. requests' \in Seq(Reports)
    BY <1>4, <2>1, AddReport DEF SendsDigits
  <2> QED BY <1>0, <1>1, <1>4, <2>1, <2>2 DEF SendsDigits, RequestType, ReachedInv
<1>5. CASE Asks
  <2>1. PICK of \in {"redirect", "record", "dial recording", "dial"}, n \in Nat :
          /\ requests' = Append(requests, [of |-> of, verb |-> verbs, digits |-> digits, recording |-> n])
          /\ of = "record" => pc = "recorded" /\ n = LastSet("record")
          /\ of = "dial recording" => pc = "dialed" /\ n = LastSet("dial")
          /\ of = "redirect" => pc = "redirect"
          /\ of = "dial" => pc = "told"
    BY <1>5 DEF Asks
  <2>2. pc \notin {"exec", "ended"}
    BY <2>1
  <2>3. [of |-> of, verb |-> verbs, digits |-> digits, recording |-> n] \in Reports
    BY <1>0, <2>1, <2>2, ReportsAreTyped
  <2>4. requests' \in Seq(Reports)
    BY <2>1, <2>3, AddReport
  <2>5. /\ pc' \in {"exec", "told", "ended"} /\ (pc' = "told" => pc = "dialed")
        /\ digits' \in {None, digits} /\ UNCHANGED <<verbs, recordings>>
    BY <1>5 DEF Asks
  <2> QED BY <1>0, <1>1, <2>2, <2>4, <2>5 DEF RequestType, ReachedInv
<1>6. CASE Records
  <2>1. PICK kind \in {"record", "dial"}, n \in {0, verbs} :
          recordings' = Append(recordings, [for |-> kind, verb |-> n])
    BY <1>6 DEF Records
  <2>2. [for |-> kind, verb |-> n] \in [for : {"record", "dial"}, verb : 0..MaxVerbs]
    BY <1>0, <2>1
  <2>3. recordings' \in Seq([for : {"record", "dial"}, verb : 0..MaxVerbs])
    BY <1>0, <2>1, <2>2, AppendProperties
  <2>4. UNCHANGED <<pc, verbs, requests, digits>>
    BY <1>6 DEF Records
  <2> QED BY <1>0, <2>3, <2>4 DEF RequestType, ReachedInv
<1>7. CASE Within
  BY <1>0, <1>7 DEF Within, Quiet, RequestType, ReachedInv
<1> QED BY <1>2, <1>3, <1>4, <1>5, <1>6, <1>7, InputKinds

LEMMA OtherTypes ==
  ASSUME InputInv, [Next]_vars
  PROVE  /\ gather' \in Gathers \union {NoGather}
         /\ collected' \in Seq(Keys) /\ received' \in Seq(Messages)
         /\ gatherCh' \in Messages \union {NoMessage}
         /\ sending' \in [Senders -> Messages \union {NoMessage}]
         /\ messages' \in 0..MaxMessages
         /\ {hungup', urlCh', shutdown', leaked'} \subseteq BOOLEAN
<1> USE DEF InputInv, TypeOK, Goto, senderVars, apiVars, gatherVars
<1>0. <<>> \in Seq(Keys) /\ <<>> \in Seq(Messages)
  BY EmptySeq
<1>1. CASE StartGather \/ StartRecord \/ StartDial \/ StartRedirect
  BY <1>1 DEF StartGather, StartRecord, StartDial, StartRedirect, NextVerb
<1>2. CASE Ends \/ PromptsEnd \/ PromptFails \/ GatherTimeout
           \/ GatherHangup \/ GatherShutdown \/ GatherUrlUpdated \/ NothingGathered
  BY <1>0, <1>2
  DEF Ends, PromptsEnd, PromptFails, GatherTimeout, GatherHangup, GatherShutdown,
      GatherUrlUpdated, NothingGathered, Forget
<1>3. CASE GatheredForLater \/ GatherAction \/ RedirectRequest
  BY <1>0, <1>3 DEF GatheredForLater, GatherAction, RedirectRequest, Forget
<1>4. CASE RecordingEnds \/ DialTakesDigits \/ DialEnds \/ DialFails \/ DialUrlUpdated
           \/ RecordAction \/ DialRecording \/ DialAction
  BY <1>4
  DEF RecordingEnds, DialTakesDigits, DialEnds, DialFails, DialUrlUpdated, NoRequest,
      RecordAction, DialRecording, DialAction, Request
<1>5. ASSUME NEW s \in Senders, PutDigits(s) \/ \E m \in Messages : SendDigits(s, m)
      PROVE  /\ gatherCh' \in Messages \union {NoMessage}
             /\ sending' \in [Senders -> Messages \union {NoMessage}]
             /\ messages' \in 0..MaxMessages
             /\ UNCHANGED <<gather, collected, received, hungup, urlCh, shutdown, leaked>>
  <2>0. messages \in 0..MaxMessages /\ MaxMessages \in Nat
    BY InputAssumption
  <2>1. CASE PutDigits(s)
    BY <2>0, <2>1 DEF PutDigits
  <2>2. ASSUME NEW m \in Messages, SendDigits(s, m)
        PROVE  /\ sending' = [sending EXCEPT ![s] = m] /\ messages' \in 0..MaxMessages
               /\ UNCHANGED <<gatherCh, gather, collected, received, hungup, urlCh, shutdown, leaked>>
    BY <2>0, <2>2 DEF SendDigits
  <2> QED BY <1>5, <2>1, <2>2
<1>6. CASE SendToUnknownCall \/ Hangup \/ UpdateUrl \/ Close \/ UNCHANGED vars
           \/ SetCallVoicemail \/ SetCallRecording
  BY <1>6
  DEF SendToUnknownCall, Hangup, UpdateUrl, Close, vars, SetCallVoicemail, SetCallRecording, SetRecording
<1>7. CASE ReceiveDigits
  <2>1. gatherCh \in Messages /\ gatherCh \in Seq(Keys)
    BY <1>7, InputAssumption DEF ReceiveDigits
  <2>2. received' \in Seq(Messages)
    BY <1>7, <2>1, AppendProperties DEF ReceiveDigits
  <2>3. collected' = TakeMessage(gather, collected, gatherCh).keys
    BY <1>7 DEF ReceiveDigits
  <2>4. pc = "collecting" /\ collected = Stream /\ Complete(gather, Stream) = {}
    BY <1>7 DEF ReceiveDigits, HearInv
  <2>5. collected' = Cut(gather, Stream \o gatherCh)
    <3>1. gather.num \in Nat /\ Stream \in Seq(Keys)
      BY GatherTypes
    <3>2. TakeMessage(gather, Stream, gatherCh) = Heard(gather, Stream \o gatherCh)
      BY <2>1, <2>4, <3>1, MessageHeard
    <3> QED BY <2>3, <2>4, <3>2 DEF Heard
  <2>6. collected' \in Seq(Keys)
    BY <2>1, <2>5, GatherTypes, ConcatProperties, CutIsKeys
  <2> QED BY <1>7, <2>2, <2>6 DEF ReceiveDigits
<1> QED BY <1>1, <1>2, <1>3, <1>4, <1>5, <1>6, <1>7 DEF Next, Runner, Api

LEMMA Hearing ==
  ASSUME InputInv, [Next]_vars
  PROVE  HearInv'
<1> USE DEF InputInv, Goto, senderVars, apiVars, gatherVars, HearInv
<1>1. CASE /\ UNCHANGED <<received, collected>>
           /\ pc \notin {"prompting", "collecting", "gathered"}
           /\ pc' \notin {"collecting", "gathered"}
  BY <1>1
<1>2. CASE pc' \notin {"collecting", "gathered"} /\ Forget
  BY <1>2 DEF Forget
<1>3. CASE UNCHANGED <<pc, gather, collected, received>>
  BY <1>3 DEF Stream
<1>4. CASE PromptsEnd
  <2>1. received' = <<>> /\ collected' = <<>> /\ pc' = "collecting" /\ gather' = gather
    BY <1>4 DEF PromptsEnd
  <2>2. Stream' = <<>>
    BY <2>1, FlattenNothing DEF Stream
  <2>3. Complete(gather, <<>>) = {}
    BY DEF Complete
  <2> QED BY <2>1, <2>2, <2>3
<1>5. CASE GatherTimeout
  <2>1. /\ UNCHANGED <<gather, collected, received>> /\ pc' = "gathered"
        /\ collected = Stream /\ Complete(gather, Stream) = {}
    BY <1>5 DEF GatherTimeout
  <2>2. Stream' = Stream /\ Cut(gather, Stream) = Stream
    BY <2>1 DEF Stream, Cut
  <2> QED BY <2>1, <2>2
<1>6. CASE ReceiveDigits
  <2> DEFINE taken == TakeMessage(gather, collected, gatherCh)
  <2>1. gatherCh \in Messages /\ gatherCh \in Seq(Keys)
    BY <1>6, InputAssumption DEF ReceiveDigits, TypeOK
  <2>2. /\ pc' = IF taken.done THEN "gathered" ELSE "collecting"
        /\ collected' = taken.keys /\ received' = Append(received, gatherCh) /\ gather' = gather
        /\ collected = Stream /\ Complete(gather, Stream) = {}
    BY <1>6 DEF ReceiveDigits
  <2>3. taken = Heard(gather, Stream \o gatherCh)
    BY <2>1, <2>2, GatherTypes, MessageHeard
  <2>4. Stream' = Stream \o gatherCh
    BY <2>1, <2>2, GatherTypes, FlattenAppend DEF Stream
  <2> HIDE DEF taken
  <2>5. collected' = Cut(gather, Stream') /\ (taken.done <=> Complete(gather, Stream') # {})
    BY <2>2, <2>3, <2>4 DEF Heard
  <2>6. CASE taken.done
    BY <2>2, <2>5, <2>6
  <2>7. CASE ~ taken.done
    BY <2>2, <2>5, <2>7 DEF Cut
  <2> QED BY <2>6, <2>7
<1>7. CASE StartGather
  BY <1>7 DEF StartGather, NextVerb
<1>8. CASE StartRecord \/ StartDial \/ StartRedirect \/ Ends \/ RedirectRequest
           \/ RecordingEnds \/ RecordAction \/ DialTakesDigits \/ DialEnds \/ DialFails
           \/ DialUrlUpdated \/ DialRecording \/ DialAction
  BY <1>1, <1>8
  DEF StartRecord, StartDial, StartRedirect, NextVerb, Ends, RedirectRequest, RecordingEnds,
      RecordAction, DialTakesDigits, DialEnds, DialFails, DialUrlUpdated, DialRecording,
      DialAction, Request, NoRequest
<1>9. CASE PromptFails \/ GatherHangup \/ GatherShutdown \/ GatherUrlUpdated \/ NothingGathered
           \/ GatheredForLater \/ GatherAction
  BY <1>2, <1>9
  DEF PromptFails, GatherHangup, GatherShutdown, GatherUrlUpdated, NothingGathered,
      GatheredForLater, GatherAction
<1>10. CASE Api \/ UNCHANGED vars
  BY <1>3, <1>10
  DEF Api, PutDigits, SendDigits, SendToUnknownCall, SetCallVoicemail, SetCallRecording,
      SetRecording, Hangup, UpdateUrl, Close, vars
<1> QED BY <1>4, <1>5, <1>6, <1>7, <1>8, <1>9, <1>10 DEF Next, Runner

LEMMA InputStart == Init => InputInv
<1> SUFFICES ASSUME Init  PROVE InputInv
  OBVIOUS
<1>1. TypeOK
  <2>1. <<>> \in Seq(Keys) /\ <<>> \in Seq(Messages) /\ DOMAIN <<>> = {}
        /\ <<>> \in Seq([for : {"record", "dial"}, verb : 0..MaxVerbs])
    BY EmptySeq
  <2>2. digits \in [keys : Seq(Keys), verb : 0..MaxVerbs]
    BY <2>1, InputAssumption DEF Init, None
  <2>3. /\ pc \in {"exec", "prompting", "collecting", "gathered", "recording", "recorded",
                   "dialing", "dialed", "told", "redirect", "ended"}
        /\ verbs \in 0..MaxVerbs /\ messages \in 0..MaxMessages
    BY InputAssumption DEF Init
  <2>4. /\ gather \in Gathers \union {NoGather} /\ gatherCh \in Messages \union {NoMessage}
        /\ sending \in [Senders -> Messages \union {NoMessage}]
        /\ {hungup, urlCh, shutdown, leaked} \subseteq BOOLEAN
    BY DEF Init
  <2>5. /\ collected \in Seq(Keys) /\ received \in Seq(Messages)
        /\ recordings \in Seq([for : {"record", "dial"}, verb : 0..MaxVerbs])
        /\ \A i \in DOMAIN requests : requests[i].verb \in 1..MaxVerbs
    BY <2>1 DEF Init
  <2> QED BY <2>2, <2>3, <2>4, <2>5 DEF TypeOK
<1>2. RequestType
  BY EmptySeq DEF Init, RequestType
<1> QED BY <1>1, <1>2 DEF Init, InputInv, ReachedInv, HearInv

LEMMA InputStep == InputInv /\ [Next]_vars => InputInv'
<1> SUFFICES ASSUME InputInv, [Next]_vars  PROVE InputInv'
  OBVIOUS
<1>1. HearInv' /\ RequestType' /\ ReachedInv'
  BY CoreTypes, Hearing
<1>2. \A i \in DOMAIN requests' : requests'[i].verb \in 1..MaxVerbs
  <2>1. requests' \in Seq(Reports)
    BY <1>1 DEF RequestType
  <2>2. \A i \in DOMAIN requests' : requests'[i] \in Reports
    BY <2>1, LenProperties, ElementOfSeq
  <2> QED BY <2>2 DEF Reports
<1>3. TypeOK'
  BY <1>2, CoreTypes, OtherTypes DEF TypeOK
<1> QED BY <1>1, <1>3 DEF InputInv

\* The types of what callers and tests put in, and what a Gather has heard of it.
THEOREM Invariant == Spec => []InputInv
  BY InputStart, InputStep, PTL DEF Spec

\* Every variable of a call's input keeps its type.
THEOREM TypeCorrect == Spec => []TypeOK
  BY Invariant, PTL DEF InputInv

\* However the keys are spread over messages, whatever was typed before a Gather,
\* and whenever the next message comes, it collects the digits it should.
THEOREM EveryKeyIsHeard == Spec => []GatherHearsItsKeys
<1>1. InputInv => GatherHearsItsKeys
  BY DEF InputInv, HearInv, GatherHearsItsKeys, Cut
<1> QED BY <1>1, Invariant, PTL
-----------------------------------------------------------------------------
(* The digits of a Gather carry the number of its verb.  While a verb has  *)
(* not made its request, no digits and no request have its number; and what *)
(* was sent to an action is not in Variables["Digits"] any longer, unless  *)
(* the call is over.                                                       *)

Busy == pc \notin {"exec", "told", "ended"}

\* The last verb whose request may have been made.
Done == IF Busy THEN verbs - 1 ELSE verbs

NumberInv ==
  /\ digits.verb <= Done
  /\ \A i \in DOMAIN requests : requests[i].verb <= Done /\ requests[i].digits.verb <= Done

SentInv ==
  \A i \in DOMAIN requests :
    requests[i].of = "gather" =>
      requests[i].digits.keys # <<>> /\ (pc # "ended" => requests[i].digits # digits)

\* A request that reports a recording reports one that there is.
ReportedInv ==
  \A i \in DOMAIN requests :
    requests[i].of \in {"record", "dial recording"} /\ requests[i].recording # 0 =>
      requests[i].recording \in DOMAIN recordings

SentOnceInv ==
  /\ InputInv /\ NumberInv /\ SentInv /\ ActionDigitsSentOnce
  /\ ReportedInv /\ RecordingsAreReported

\* When a request is made.
Reported(q) == RequestType' /\ requests' = Append(requests, q) /\ q \in Reports

LEMMA ReportAdded ==
  ASSUME RequestType, NEW q, Reported(q)
  PROVE  /\ DOMAIN requests = 1..Len(requests) /\ Len(requests) \in Nat
         /\ DOMAIN requests' = 1..(Len(requests) + 1)
         /\ \A i \in 1..Len(requests) : requests'[i] = requests[i]
         /\ requests'[Len(requests) + 1] = q
BY AddReport DEF Reported

\* The kinds of steps that make a request, with what it says.
LEMMA WhatIsReported ==
  ASSUME InputInv, [Next]_vars, SendsDigits \/ Asks
  PROVE  \E q : /\ Reported(q) /\ q.verb = verbs
                /\ \/ SendsDigits /\ q.of = "gather" /\ q.digits = Gathered
                   \/ /\ Asks /\ q.of # "gather" /\ q.digits = digits
                      /\ q.of = "record" => pc = "recorded" /\ q.recording = LastSet("record")
                      /\ q.of = "dial recording" => pc = "dialed" /\ q.recording = LastSet("dial")
                      /\ pc \in {"redirect", "recorded", "dialed", "told"}
<1>0. RequestType' /\ TypeOK /\ ReachedInv
  BY CoreTypes DEF InputInv
<1>1. CASE SendsDigits
  <2> DEFINE q == [of |-> "gather", verb |-> verbs, digits |-> Gathered, recording |-> 0]
  <2>1. q \in Reports
    BY <1>0, <1>1, ReportsAreTyped DEF SendsDigits
  <2>2. Reported(q)
    BY <1>0, <1>1, <2>1 DEF SendsDigits, Reported
  <2>3. q.verb = verbs /\ q.of = "gather" /\ q.digits = Gathered
    OBVIOUS
  <2> HIDE DEF q
  <2> QED BY <1>1, <2>2, <2>3
<1>2. CASE Asks
  <2>1. PICK of \in {"redirect", "record", "dial recording", "dial"}, n \in Nat :
          /\ requests' = Append(requests, [of |-> of, verb |-> verbs, digits |-> digits, recording |-> n])
          /\ of = "record" => pc = "recorded" /\ n = LastSet("record")
          /\ of = "dial recording" => pc = "dialed" /\ n = LastSet("dial")
          /\ of = "redirect" => pc = "redirect"
          /\ of = "dial" => pc = "told"
    BY <1>2 DEF Asks
  <2> DEFINE q == [of |-> of, verb |-> verbs, digits |-> digits, recording |-> n]
  <2>2. pc \in {"redirect", "recorded", "dialed", "told"}
    BY <2>1
  <2>3. q \in Reports
    BY <1>0, <2>1, <2>2, ReportsAreTyped DEF TypeOK
  <2>4. Reported(q)
    BY <1>0, <2>1, <2>3 DEF Reported
  <2>5. q.verb = verbs /\ q.of = of /\ q.digits = digits /\ q.recording = n /\ of # "gather"
    BY <2>1
  <2> HIDE DEF q
  <2> QED BY <1>2, <2>1, <2>2, <2>4, <2>5
<1> QED BY <1>1, <1>2

LEMMA NumbersAre ==
  ASSUME InputInv
  PROVE  /\ verbs \in Nat /\ Done \in Int /\ Done <= verbs /\ digits.verb \in Nat
         /\ \A i \in DOMAIN requests :
              requests[i] \in Reports /\ requests[i].verb \in Nat \ {0} /\ requests[i].digits.verb \in Nat
         /\ DOMAIN requests = 1..Len(requests) /\ Len(requests) \in Nat
<1>1. requests \in Seq(Reports)
  BY DEF InputInv, RequestType
<1>2. DOMAIN requests = 1..Len(requests) /\ \A i \in DOMAIN requests : requests[i] \in Reports
  BY <1>1, LenProperties, ElementOfSeq
<1>3. Len(requests) \in Nat
  BY <1>1, LenProperties
<1>4. verbs \in Nat /\ digits.verb \in Nat /\ MaxVerbs \in Nat
  BY InputAssumption DEF InputInv, TypeOK
<1>5. Done \in Int /\ Done <= verbs
  BY <1>4 DEF Done
<1>6. \A i \in DOMAIN requests : requests[i].verb \in Nat \ {0} /\ requests[i].digits.verb \in Nat
  <2>1. \A q \in Reports : q.verb \in 1..MaxVerbs /\ q.digits.verb \in 0..MaxVerbs
    BY DEF Reports
  <2>2. 1..MaxVerbs \subseteq Nat \ {0} /\ 0..MaxVerbs \subseteq Nat
    BY <1>4
  <2> QED BY <1>2, <2>1, <2>2
<1> QED BY <1>2, <1>3, <1>4, <1>5, <1>6

LEMMA NumbersStep ==
  ASSUME SentOnceInv, [Next]_vars
  PROVE  NumberInv'
<1> USE DEF SentOnceInv
<1>0. /\ verbs \in Nat /\ Done \in Int /\ Done <= verbs /\ digits.verb \in Nat
      /\ \A i \in DOMAIN requests : requests[i].verb \in Nat /\ requests[i].digits.verb \in Nat
      /\ DOMAIN requests = 1..Len(requests) /\ Len(requests) \in Nat
  BY NumbersAre
<1>1. CASE Reaches \/ Records \/ Within
  <2>1. UNCHANGED <<requests, digits>>
    BY <1>1 DEF Reaches, Records, Within, Quiet
  <2>2. Done' \in Int /\ Done <= Done'
    <3>1. CASE Reaches
      BY <1>0, <3>1 DEF Reaches, Busy, Done
    <3>2. CASE Records \/ Within
      BY <1>0, <3>2 DEF Records, Within, Quiet, Busy, Done
    <3> QED BY <1>1, <3>1, <3>2
  <2> QED BY <1>0, <2>1, <2>2 DEF NumberInv
<1>2. CASE KeepsDigits
  <2>1. UNCHANGED requests /\ digits'.verb = verbs /\ Done' = verbs
    BY <1>2 DEF KeepsDigits, Busy, Done, Gathered
  <2> QED BY <1>0, <2>1 DEF NumberInv
<1>3. CASE SendsDigits \/ Asks
  <2>1. PICK q : /\ Reported(q) /\ q.verb = verbs
                 /\ \/ SendsDigits /\ q.of = "gather" /\ q.digits = Gathered
                    \/ Asks /\ q.of # "gather" /\ q.digits = digits
    BY <1>3, WhatIsReported
  <2>2. Done' = verbs
    BY <1>3 DEF SendsDigits, Asks, Busy, Done
  <2>3. digits'.verb <= verbs /\ q.digits.verb <= verbs
    <3>1. digits' \in {None, Gathered, digits} /\ q.digits \in {Gathered, digits}
      BY <1>3, <2>1 DEF SendsDigits, Asks
    <3>2. Gathered.verb = verbs /\ None.verb = 0
      BY DEF Gathered, None
    <3>3. digits.verb <= verbs
      BY <1>0 DEF NumberInv
    <3> QED BY <1>0, <3>1, <3>2, <3>3
  <2>4. ASSUME NEW i \in DOMAIN requests'
        PROVE  requests'[i].verb <= verbs /\ requests'[i].digits.verb <= verbs
    <3>0. /\ DOMAIN requests' = 1..(Len(requests) + 1)
          /\ \A j \in 1..Len(requests) : requests'[j] = requests[j]
          /\ requests'[Len(requests) + 1] = q
      BY <2>1, ReportAdded DEF InputInv
    <3>1. CASE i = Len(requests) + 1
      BY <1>0, <2>1, <2>3, <3>0, <3>1
    <3>2. CASE i # Len(requests) + 1
      <4>1. i \in DOMAIN requests /\ requests'[i] = requests[i]
        BY <1>0, <3>0, <3>2
      <4>2. requests[i].verb <= Done /\ requests[i].digits.verb <= Done
        BY <4>1 DEF NumberInv
      <4> QED BY <1>0, <4>1, <4>2
    <3> QED BY <3>1, <3>2
  <2> QED BY <2>2, <2>3, <2>4 DEF NumberInv
<1> QED BY <1>1, <1>2, <1>3, InputKinds DEF InputInv

LEMMA SentStep ==
  ASSUME SentOnceInv, [Next]_vars
  PROVE  SentInv' /\ ActionDigitsSentOnce'
<1> USE DEF SentOnceInv
<1>0. /\ verbs \in Nat /\ DOMAIN requests = 1..Len(requests) /\ Len(requests) \in Nat
      /\ \A i \in DOMAIN requests : requests[i].digits.verb \in Nat
  BY NumbersAre
<1>1. CASE Reaches \/ Records \/ Within
  <2>1. UNCHANGED <<requests, digits>> /\ (pc' # "ended" => pc # "ended")
    BY <1>1 DEF Reaches, Records, Within, Quiet
  <2> QED BY <2>1 DEF SentInv, ActionDigitsSentOnce
<1>2. ASSUME pc = "gathered"
      PROVE  \A i \in DOMAIN requests : requests[i].digits # Gathered
  <2> SUFFICES ASSUME NEW i \in DOMAIN requests, requests[i].digits = Gathered  PROVE FALSE
    OBVIOUS
  <2>1. requests[i].digits.verb <= verbs - 1
    BY <1>2 DEF NumberInv, Done, Busy
  <2>2. requests[i].digits.verb = verbs
    BY DEF Gathered
  <2> QED BY <1>0, <2>1, <2>2
<1>3. CASE KeepsDigits
  <2>1. UNCHANGED requests /\ digits' = Gathered /\ pc = "gathered"
    BY <1>3 DEF KeepsDigits
  <2> QED BY <1>2, <2>1 DEF SentInv, ActionDigitsSentOnce
<1>4. CASE SendsDigits \/ Asks
  <2>1. PICK q : /\ Reported(q) /\ q.verb = verbs
                 /\ \/ SendsDigits /\ q.of = "gather" /\ q.digits = Gathered
                    \/ /\ Asks /\ q.of # "gather" /\ q.digits = digits
                       /\ pc \in {"redirect", "recorded", "dialed", "told"}
    BY <1>4, WhatIsReported
  <2> DEFINE new == Len(requests) + 1
  <2>2. /\ DOMAIN requests' = 1..new
        /\ \A j \in 1..Len(requests) : requests'[j] = requests[j]
        /\ requests'[new] = q
    BY <2>1, ReportAdded DEF InputInv
  <2>3. /\ 1..new = DOMAIN requests \union {new} /\ new \notin DOMAIN requests
        /\ \A j \in DOMAIN requests : requests'[j] = requests[j]
    BY <1>0, <2>2
  <2> HIDE DEF new
  \* The new digits are not those of an earlier action, and those of a new
  \* action are not those of an earlier request.
  <2>4. \A i \in DOMAIN requests :
          q.of = "gather" \/ requests[i].of = "gather" => requests[i].digits # q.digits
    <3>1. CASE SendsDigits /\ q.of = "gather" /\ q.digits = Gathered
      BY <1>2, <3>1 DEF SendsDigits
    <3>2. CASE q.of # "gather" /\ q.digits = digits /\ pc # "ended"
      BY <3>2 DEF SentInv
    <3> QED BY <2>1, <3>1, <3>2
  <2>5. ActionDigitsSentOnce'
    BY <2>2, <2>3, <2>4 DEF ActionDigitsSentOnce
  <2>6. q.of = "gather" => q.digits.keys # <<>>
    BY <2>1 DEF SendsDigits, Gathered
  <2>7. CASE pc' = "ended"
    BY <2>2, <2>3, <2>5, <2>6, <2>7 DEF SentInv
  <2>8. CASE pc' # "ended"
    <3>1. digits' = None \/ (q.of # "gather" /\ digits' = digits /\ pc # "ended")
      BY <2>1, <2>8 DEF SendsDigits, Asks
    <3>2. ASSUME NEW i \in DOMAIN requests', requests'[i].of = "gather"
          PROVE  requests'[i].digits.keys # <<>> /\ requests'[i].digits # digits'
      <4>1. requests'[i].digits.keys # <<>>
        BY <2>2, <2>3, <2>6, <3>2 DEF SentInv
      <4>2. None.keys = <<>>
        BY DEF None
      <4> QED BY <2>2, <2>3, <3>1, <3>2, <4>1, <4>2 DEF SentInv
    <3> QED BY <2>5, <3>2 DEF SentInv
  <2> QED BY <2>7, <2>8
<1> QED BY <1>1, <1>3, <1>4, InputKinds DEF InputInv
LEMMA ReportedStep ==
  ASSUME SentOnceInv, [Next]_vars
  PROVE  ReportedInv' /\ RecordingsAreReported'
<1> USE DEF SentOnceInv
<1> DEFINE kind(of) == IF of = "record" THEN "record" ELSE "dial"
           Right(q, rs) ==
             q.of \in {"record", "dial recording"} =>
               /\ q.recording # 0 => q.recording \in DOMAIN rs /\ rs[q.recording].for = kind(q.of)
               /\ \A n \in DOMAIN rs : rs[n] = [for |-> kind(q.of), verb |-> q.verb] => q.recording >= n
<1>0. /\ verbs \in Nat /\ DOMAIN requests = 1..Len(requests) /\ Len(requests) \in Nat
      /\ \A i \in DOMAIN requests : requests[i] \in Reports /\ requests[i].verb \in Nat \ {0}
      /\ DOMAIN recordings = 1..Len(recordings) /\ Len(recordings) \in Nat
      /\ TypeOK
  BY NumbersAre, LenProperties DEF InputInv, TypeOK
<1>1. \A i \in DOMAIN requests : Right(requests[i], recordings)
  BY DEF ReportedInv, RecordingsAreReported
<1>2. SUFFICES \A i \in DOMAIN requests' : Right(requests'[i], recordings')
  BY DEF ReportedInv, RecordingsAreReported
<1> HIDE DEF Right, kind
<1>3. CASE Reaches \/ KeepsDigits \/ Within
  BY <1>1, <1>3 DEF Reaches, KeepsDigits, Within, Quiet
<1>4. CASE SendsDigits \/ Asks
  <2>1. PICK q : /\ Reported(q) /\ q.verb = verbs
                 /\ \/ q.of = "gather"
                    \/ /\ q.of = "record" => pc = "recorded" /\ q.recording = LastSet("record")
                       /\ q.of = "dial recording" => pc = "dialed" /\ q.recording = LastSet("dial")
    BY <1>4, WhatIsReported
  <2>2. recordings' = recordings
    BY <1>4 DEF SendsDigits, Asks
  <2>3. Right(q, recordings)
    <3>1. CASE q.of = "record"
      <4>1. q.recording = LastSet("record") /\ kind(q.of) = "record"
        BY <2>1, <3>1 DEF kind
      <4>2. /\ LastSet("record") # 0 =>
                 LastSet("record") \in DOMAIN recordings /\ recordings[LastSet("record")].for = "record"
            /\ \A n \in DOMAIN recordings : recordings[n].for = "record" => LastSet("record") >= n
        BY <1>0, LastSetIsLast
      <4>3. \A n \in DOMAIN recordings :
              recordings[n] = [for |-> "record", verb |-> q.verb] => recordings[n].for = "record"
        OBVIOUS
      <4> QED BY <4>1, <4>2, <4>3 DEF Right
    <3>2. CASE q.of = "dial recording"
      <4>1. q.recording = LastSet("dial") /\ kind(q.of) = "dial"
        BY <2>1, <3>2 DEF kind
      <4>2. /\ LastSet("dial") # 0 =>
                 LastSet("dial") \in DOMAIN recordings /\ recordings[LastSet("dial")].for = "dial"
            /\ \A n \in DOMAIN recordings : recordings[n].for = "dial" => LastSet("dial") >= n
        BY <1>0, LastSetIsLast
      <4>3. \A n \in DOMAIN recordings :
              recordings[n] = [for |-> "dial", verb |-> q.verb] => recordings[n].for = "dial"
        OBVIOUS
      <4> QED BY <4>1, <4>2, <4>3 DEF Right
    <3> QED BY <3>1, <3>2 DEF Right
  <2>4. /\ DOMAIN requests' = 1..(Len(requests) + 1)
        /\ \A j \in 1..Len(requests) : requests'[j] = requests[j]
        /\ requests'[Len(requests) + 1] = q
    BY <2>1, ReportAdded DEF InputInv
  <2>5. ASSUME NEW i \in DOMAIN requests'  PROVE requests'[i] = q \/ \E j \in DOMAIN requests : requests'[i] = requests[j]
    BY <1>0, <2>4
  <2> QED BY <1>1, <2>2, <2>3, <2>5
<1>5. ASSUME NEW k \in {"record", "dial"}, NEW n \in {0, verbs},
             recordings' = Append(recordings, [for |-> k, verb |-> n]),
             k = "record" /\ pc # "recording" => n = 0,
             k = "dial" /\ pc # "dialing" => n = 0,
             UNCHANGED <<pc, verbs, requests, digits>>
      PROVE  \A i \in DOMAIN requests' : Right(requests'[i], recordings')
  <2> DEFINE new == Len(recordings) + 1
             rec == [for |-> k, verb |-> n]
  <2>1. /\ DOMAIN recordings' = 1..new /\ recordings'[new] = rec
        /\ \A j \in 1..Len(recordings) : recordings'[j] = recordings[j]
    <3>1. rec \in [for : {"record", "dial"}, verb : 0..MaxVerbs]
      BY <1>0, InputAssumption DEF TypeOK
    <3>2. recordings \in Seq([for : {"record", "dial"}, verb : 0..MaxVerbs])
      BY <1>0 DEF TypeOK
    <3> HIDE DEF rec
    <3>3. recordings' = Append(recordings, rec)
      BY <1>5 DEF rec
    <3> QED BY <3>1, <3>2, <3>3, AppendProperties, LenProperties
  <2> SUFFICES ASSUME NEW i \in DOMAIN requests  PROVE Right(requests[i], recordings')
    BY <1>5
  <2> DEFINE q == requests[i]
  <2>2. q.verb <= Done /\ q.verb # 0 /\ q.verb \in Nat
    BY <1>0 DEF NumberInv
  \* The new recording is not one that this request should have reported.
  <2>3. n # q.verb
    <3>1. CASE n = 0
      BY <2>2, <3>1
    <3>2. CASE n # 0
      <4>1. n = verbs /\ pc \in {"recording", "dialing"}
        BY <1>5, <3>2
      <4>2. Done = verbs - 1
        BY <4>1 DEF Done, Busy
      <4> QED BY <1>0, <2>2, <4>1, <4>2
    <3> QED BY <3>1, <3>2
  <2>4. recordings'[new] # [for |-> kind(q.of), verb |-> q.verb]
    BY <2>1, <2>3
  <2>5. 1..new = (1..Len(recordings)) \union {new}
    BY <1>0
  <2>6. Right(q, recordings)
    BY <1>1
  <2> HIDE DEF q, new
  <2>7. Right(q, recordings')
    BY <1>0, <2>1, <2>4, <2>5, <2>6 DEF Right
  <2> QED BY <2>7 DEF q
<1>6. CASE Records
  BY <1>5, <1>6 DEF Records
<1> QED BY <1>3, <1>4, <1>6, InputKinds DEF InputInv

LEMMA SentOnceStep == SentOnceInv /\ [Next]_vars => SentOnceInv'
  BY InputStep, NumbersStep, SentStep, ReportedStep DEF SentOnceInv

\* What has been sent and recorded, of which the last two theorems are parts.
THEOREM RequestInvariant == Spec => []SentOnceInv
<1>1. Init => SentOnceInv
  <2> SUFFICES ASSUME Init  PROVE SentOnceInv
    OBVIOUS
  <2>1. DOMAIN requests = {}
    BY DEF Init
  <2>2. InputInv /\ digits.verb <= Done
    BY InputStart DEF Init, None, Done, Busy
  <2> QED BY <2>1, <2>2
           DEF SentOnceInv, NumberInv, SentInv, ActionDigitsSentOnce, ReportedInv, RecordingsAreReported
<1> QED BY <1>1, SentOnceStep, PTL DEF Spec

\* Digits go to the action of their Gather and into no other request, whatever
\* verbs, new URLs and requests that fail come before and after.
THEOREM DigitsOfAnActionAreSentOnce == Spec => []ActionDigitsSentOnce
<1>1. SentOnceInv => ActionDigitsSentOnce
  BY DEF SentOnceInv
<1> QED BY <1>1, RequestInvariant, PTL

\* No Record and no Dial misses a recording that was set while it went on, or
\* takes one of the other kind, whenever tests set them.
THEOREM EveryRecordingIsReported == Spec => []RecordingsAreReported
<1>1. SentOnceInv => RecordingsAreReported
  BY DEF SentOnceInv
<1> QED BY <1>1, RequestInvariant, PTL
=============================================================================
