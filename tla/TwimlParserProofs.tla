------------------------- MODULE TwimlParserProofs -------------------------
(***************************************************************************)
(* Proofs about TwimlParser for documents of any size with any names: the  *)
(* active parse functions and the elements that the decoder has open stay  *)
(* in step, so that each function returns at the end of its own element;   *)
(* Parse refuses the documents with an element that TwiML may not have,    *)
(* and returns the TwiML of the others.                                    *)
(***************************************************************************)
EXTENDS TwimlParser, SequenceTheorems, WellFoundedInduction, TLAPS

(* Sequences of anything *)

IsList(s) == s \in Seq(ToSet(s))

LEMMA AnySequence == ASSUME NEW S, NEW s \in Seq(S)  PROVE IsList(s)
<1>1. Len(s) \in Nat /\ DOMAIN s = 1..Len(s) /\ \A i \in 1..Len(s) : s[i] \in ToSet(s)
  BY LenProperties DEF ToSet
<1>2. SubSeq(s, 1, Len(s)) \in Seq(ToSet(s))
  BY <1>1, SubSeqProperties
<1>3. SubSeq(s, 1, Len(s)) = s
  BY SubSeqFull
<1> QED BY <1>2, <1>3 DEF IsList

LEMMA ListLength ==
  ASSUME NEW s, IsList(s)
  PROVE  Len(s) \in Nat /\ (s # <<>> <=> Len(s) > 0)
BY EmptySeq, LenProperties DEF IsList

LEMMA PushOnList ==
  ASSUME NEW s, IsList(s), NEW e
  PROVE  /\ IsList(Append(s, e))
         /\ Len(Append(s, e)) = Len(s) + 1
         /\ \A k \in 1..Len(s) : Append(s, e)[k] = s[k]
         /\ Append(s, e)[Len(s) + 1] = e
<1>1. s \in Seq(ToSet(s) \union {e})
  <2>1. \A k \in 1..Len(s) : s[k] \in ToSet(s) \union {e}
    BY ElementOfSeq DEF IsList
  <2>2. SubSeq(s, 1, Len(s)) \in Seq(ToSet(s) \union {e})
    BY <2>1, ListLength, SubSeqProperties
  <2> QED BY <2>2, SubSeqFull DEF IsList
<1>2. e \in ToSet(s) \union {e}
  OBVIOUS
<1>3. /\ Append(s, e) \in Seq(ToSet(s) \union {e})
      /\ Len(Append(s, e)) = Len(s) + 1
      /\ \A k \in 1..Len(s) : Append(s, e)[k] = s[k]
      /\ Append(s, e)[Len(s) + 1] = e
  BY <1>1, <1>2, AppendProperties
<1>4. IsList(Append(s, e))
  BY <1>3, AnySequence
<1> QED BY <1>3, <1>4

LEMMA PopFromList ==
  ASSUME NEW s, IsList(s), s # <<>>
  PROVE  /\ IsList(Front(s))
         /\ Len(Front(s)) = Len(s) - 1
         /\ \A k \in 1..(Len(s) - 1) : Front(s)[k] = s[k]
<1>1. PICK n \in Nat : n = Len(s) /\ n > 0
  BY ListLength
<1>2. \A k \in 1..(n - 1) : s[k] \in ToSet(s)
  BY <1>1, ElementOfSeq DEF IsList
<1>3. /\ Front(s) \in Seq(ToSet(s))
      /\ Len(Front(s)) = IF 1 <= n - 1 THEN n - 1 - 1 + 1 ELSE 0
      /\ \A k \in 1..(n - 1 - 1 + 1) : Front(s)[k] = s[1 + k - 1]
  BY <1>1, <1>2, SubSeqProperties DEF Front
<1>4. IsList(Front(s))
  BY <1>3, AnySequence
<1>5. (IF 1 <= n - 1 THEN n - 1 - 1 + 1 ELSE 0) = n - 1
  BY <1>1
<1>6. \A k \in 1..(n - 1) : k \in 1..(n - 1 - 1 + 1) /\ 1 + k - 1 = k
  OBVIOUS
<1> DEFINE t == Front(s)
<1> HIDE DEF t
<1>7. Len(t) = n - 1
  BY <1>3, <1>5 DEF t
<1>8. ASSUME NEW k \in 1..(n - 1)  PROVE t[k] = s[k]
  <2>1. k \in 1..(n - 1 - 1 + 1) /\ 1 + k - 1 = k
    BY <1>6
  <2>2. t[k] = s[1 + k - 1]
    BY <1>3, <2>1, Zenon DEF t
  <2> QED BY <2>1, <2>2, Zenon
<1>9. n - 1 = Len(s) - 1
  BY <1>1
<1> QED BY <1>4, <1>7, <1>8, <1>9, Zenon DEF t

\* Changing elements of a list does not change its length.
LEMMA SameLength ==
  ASSUME NEW s, IsList(s), NEW t, t = [k \in DOMAIN s |-> t[k]]
  PROVE  IsList(t) /\ Len(t) = Len(s)
<1>1. Len(s) \in Nat /\ DOMAIN s = 1..Len(s)
  BY LenProperties DEF IsList
<1>2. t \in [1..Len(s) -> ToSet(t)]
  BY <1>1 DEF ToSet
<1>3. t \in Seq(ToSet(t))
  BY <1>1, <1>2, SeqDef
<1>4. Len(t) \in Nat /\ 1..Len(t) = 1..Len(s)
  BY <1>1, <1>2, <1>3, LenProperties
<1>5. Len(t) = Len(s)
  BY <1>1, <1>4
<1> QED BY <1>3, <1>5 DEF IsList
-----------------------------------------------------------------------------
(* The invariant *)

\* A frame records where its element is.
Frames == \A k \in 1..Len(stack) : "at" \in DOMAIN stack[k]

IInv ==
  /\ IsList(doc) /\ IsList(open) /\ IsList(stack)
  /\ skipping \in Nat
  /\ stack = <<>> => skipping = 0
  /\ Frames
  /\ InStep

LEMMA LoopEnds ==
  ASSUME IInv, outcome = "reading", stack # <<>>
  PROVE  /\ Len(open) >= Len(stack) + skipping
         /\ open # <<>>
         /\ skipping = 0 => Last(open) = Last(stack).at /\ Leaves
<1>1. Len(stack) \in Nat /\ Len(stack) > 0 /\ Len(open) \in Nat /\ skipping \in Nat
  BY ListLength DEF IInv
<1>2. Len(open) >= Len(stack) + skipping
  BY <1>1 DEF IInv, InStep
<1>3. open # <<>>
  BY <1>1, <1>2, ListLength DEF IInv
<1>4. ASSUME skipping = 0  PROVE Last(open) = Last(stack).at
  <2>1. \A k \in 1..Len(stack) : open[Len(open) - (Len(stack) + 0) + k] = stack[k].at
    BY <1>4 DEF IInv, InStep
  <2>2. open[Len(open) - (Len(stack) + 0) + Len(stack)] = stack[Len(stack)].at
    BY <1>1, <2>1
  <2> QED BY <1>1, <2>2 DEF Last
<1> QED BY <1>2, <1>3, <1>4 DEF Leaves, NameOf

LEMMA Step == ASSUME IInv, [Next]_vars  PROVE IInv'
<1> DEFINE around == Len(open) - (Len(stack) + skipping)
<1>1. /\ IsList(doc) /\ IsList(open) /\ IsList(stack)
      /\ skipping \in Nat /\ (stack = <<>> => skipping = 0)
      /\ Len(stack) \in Nat /\ Len(open) \in Nat /\ (stack # <<>> <=> Len(stack) > 0)
      /\ \A k \in 1..Len(stack) : "at" \in DOMAIN stack[k]
      /\ outcome = "reading" /\ stack # <<>> =>
           around >= 0 /\ \A k \in 1..Len(stack) : open[around + k] = stack[k].at
  BY ListLength DEF IInv, Frames, InStep
\* It is enough to follow the stacks while the document is read.
<1>2. ASSUME IsList(doc'), IsList(open'), IsList(stack'),
             skipping' \in Nat, stack' = <<>> => skipping' = 0,
             \A k \in 1..Len(stack') : "at" \in DOMAIN stack'[k],
             NEW a, Len(open') - (Len(stack') + skipping') = a,
             outcome' = "reading" /\ stack' # <<>> =>
               a >= 0 /\ \A k \in 1..Len(stack') : open'[a + k] = stack'[k].at
      PROVE  IInv'
  BY <1>2 DEF IInv, Frames, InStep
<1>3. ASSUME NEW n, NEW wrong, StartTag(n, wrong)
      PROVE  /\ IsList(doc') /\ IsList(open') /\ outcome = "reading"
             /\ open' = Append(open, Len(doc) + 1)
             /\ Len(open') = Len(open) + 1
             /\ \A k \in 1..Len(open) : open'[k] = open[k]
             /\ open'[Len(open) + 1] = Len(doc) + 1
  BY <1>1, <1>3, PushOnList DEF StartTag, Deliver
<1>4. ASSUME EndTag
      PROVE  /\ IsList(doc') /\ IsList(open') /\ outcome = "reading"
             /\ Len(open') = Len(open) - 1
             /\ \A k \in 1..(Len(open) - 1) : open'[k] = open[k]
  BY <1>1, <1>4, PopFromList DEF EndTag
<1>5. ASSUME NEW n, Ignore(n)  PROVE IInv'
  BY <1>1, <1>2, <1>3, <1>5 DEF Ignore
<1>6. ASSUME NEW n, Swallow(n)  PROVE IInv'
  <2>1. /\ StartTag(n, FALSE) /\ stack' = stack /\ skipping' = skipping + 1
        /\ stack # <<>> /\ outcome' = outcome
    BY <1>6 DEF Swallow
  <2>2. /\ IsList(doc') /\ IsList(open') /\ outcome = "reading"
        /\ Len(open') = Len(open) + 1
        /\ \A k \in 1..Len(open) : open'[k] = open[k]
    BY <1>3, <2>1
  <2>3. Len(open') - (Len(stack') + skipping') = around
    BY <1>1, <2>1, <2>2
  <2>4. around >= 0 /\ \A k \in 1..Len(stack) : around + k \in 1..Len(open)
    BY <1>1, <2>1, <2>2
  <2>5. \A k \in 1..Len(stack) : open'[around + k] = stack[k].at
    BY <1>1, <2>1, <2>2, <2>4
  <2> HIDE DEF around
  <2> QED BY <1>1, <1>2, <2>1, <2>2, <2>3, <2>4, <2>5
<1>7. ASSUME NEW n, NEW wrong, Call(n, wrong)  PROVE IInv'
  <2> DEFINE f == [at |-> Len(doc) + 1, text |-> <<>>, identity |-> <<>>, children |-> <<>>]
  <2>1. StartTag(n, wrong) /\ stack' = Append(stack, f) /\ skipping' = skipping /\ skipping = 0
        /\ outcome' = outcome
    BY <1>1, <1>7 DEF Call, SeesTag
  <2>2. "at" \in DOMAIN f /\ f.at = Len(doc) + 1
    OBVIOUS
  <2> HIDE DEF f
  <2>3. /\ IsList(stack') /\ Len(stack') = Len(stack) + 1
        /\ \A k \in 1..Len(stack) : stack'[k] = stack[k]
        /\ stack'[Len(stack) + 1] = f
    BY <1>1, <2>1, PushOnList
  <2>4. stack' # <<>>
    BY <1>1, <2>3, ListLength
  <2>5. Len(open') - (Len(stack') + skipping') = Len(open) - Len(stack)
    BY <1>1, <1>3, <2>1, <2>3
  <2>6. Len(open) - Len(stack) >= 0
    BY <1>1, <1>3, <2>1
  <2>7. ASSUME NEW k \in 1..Len(stack')
        PROVE  open'[Len(open) - Len(stack) + k] = stack'[k].at
    <3>1. CASE k = Len(stack) + 1
      BY <1>1, <1>3, <2>1, <2>2, <2>3, <3>1
    <3>2. CASE k \in 1..Len(stack)
      <4>1. around = Len(open) - Len(stack) /\ Len(open) - Len(stack) + k \in 1..Len(open)
        BY <1>1, <2>1, <2>6, <3>2
      <4> QED BY <1>1, <1>3, <2>1, <2>3, <3>2, <4>1
    <3> QED BY <1>1, <2>3, <3>1, <3>2
  <2>8. \A k \in 1..Len(stack') : "at" \in DOMAIN stack'[k]
    <3> SUFFICES ASSUME NEW k \in 1..Len(stack')  PROVE "at" \in DOMAIN stack'[k]
      OBVIOUS
    <3>1. k \in 1..Len(stack) \/ k = Len(stack) + 1
      BY <1>1, <2>3
    <3> QED BY <1>1, <2>2, <2>3, <3>1
  <2> QED BY <1>1, <1>2, <1>3, <2>1, <2>3, <2>4, <2>5, <2>6, <2>7, <2>8
<1>8. ASSUME NEW n, NEW wrong, Refuse(n, wrong)  PROVE IInv'
  BY <1>1, <1>2, <1>3, <1>8 DEF Refuse
<1>9. CASE Text
  <2>1. IsList(doc') /\ UNCHANGED <<open, skipping, outcome>>
    BY <1>1, <1>9, PushOnList DEF Text, Deliver
  <2>2. CASE stack' = stack
    BY <1>1, <1>2, <2>1, <2>2
  <2>3. CASE /\ stack # <<>>
             /\ stack' = [stack EXCEPT ![Len(stack)].text = Append(@, Len(doc) + 1)]
    <3> DEFINE f == [stack[Len(stack)] EXCEPT !.text = Append(@, Len(doc) + 1)]
    <3>1. stack' = [stack EXCEPT ![Len(stack)] = f]
      BY <2>3
    <3>2. "at" \in DOMAIN f /\ f.at = stack[Len(stack)].at
      BY <1>1, <2>3
    <3> HIDE DEF f
    <3>3. DOMAIN stack = 1..Len(stack)
      BY <1>1, LenProperties DEF IsList
    <3>4. /\ stack' = [k \in DOMAIN stack |-> stack'[k]]
          /\ \A k \in 1..Len(stack) : stack'[k] = IF k = Len(stack) THEN f ELSE stack[k]
      BY <3>1, <3>3
    <3>5. IsList(stack') /\ Len(stack') = Len(stack)
      BY <1>1, <3>4, SameLength
    <3>6. \A k \in 1..Len(stack) : "at" \in DOMAIN stack'[k] /\ stack'[k].at = stack[k].at
      BY <1>1, <3>2, <3>4
    <3> QED BY <1>1, <1>2, <2>1, <2>3, <3>5, <3>6
  <2> QED BY <1>9, <2>2, <2>3 DEF Text
<1>10. CASE EndOfSwallowed
  <2>1. EndTag /\ skipping > 0 /\ skipping' = skipping - 1 /\ stack' = stack /\ outcome' = outcome
    BY <1>10 DEF EndOfSwallowed
  <2>2. stack # <<>> /\ Len(open') - (Len(stack') + skipping') = around
    BY <1>1, <1>4, <2>1
  <2>3. around >= 0 /\ \A k \in 1..Len(stack) : around + k \in 1..(Len(open) - 1)
    BY <1>1, <1>4, <2>1, <2>2
  <2>4. \A k \in 1..Len(stack) : open'[around + k] = stack[k].at
    BY <1>1, <1>4, <2>1, <2>2, <2>3
  <2> HIDE DEF around
  <2> QED BY <1>1, <1>2, <1>4, <2>1, <2>2, <2>3, <2>4
<1>11. CASE Return
  <2> DEFINE callers == Front(stack)
  <2>1. EndTag /\ stack # <<>> /\ skipping = 0 /\ skipping' = 0
    BY <1>11 DEF Return
  <2>2. /\ IsList(callers) /\ Len(callers) = Len(stack) - 1
        /\ \A k \in 1..(Len(stack) - 1) : callers[k] = stack[k]
    BY <1>1, <2>1, PopFromList
  <2>3. CASE callers = <<>>
    <3>1. stack' = <<>> /\ outcome' = "parsed"
      BY <1>11, <2>3 DEF Return
    <3>2. IsList(<<>>)
      BY EmptySeq, AnySequence
    <3>3. Len(stack') = 0
      BY <3>1, EmptySeq
    <3> QED BY <1>2, <1>4, <2>1, <3>1, <3>2, <3>3
  <2>4. CASE callers # <<>>
    <3> DEFINE f == Attach(callers[Len(callers)], Last(stack))
    <3>1. stack' = [callers EXCEPT ![Len(callers)] = f] /\ outcome' = outcome
      BY <1>11, <2>4 DEF Return
    <3>2. Len(callers) \in Nat /\ Len(callers) > 0
      BY <2>2, <2>4, ListLength
    <3>3. "at" \in DOMAIN callers[Len(callers)]
      BY <1>1, <2>2, <3>2
    <3>4. "at" \in DOMAIN f /\ f.at = callers[Len(callers)].at
      BY <3>3 DEF Attach
    <3> HIDE DEF f, callers
    <3>5. /\ IsList(stack') /\ Len(stack') = Len(callers)
          /\ \A k \in 1..Len(callers) : stack'[k] = IF k = Len(callers) THEN f ELSE callers[k]
      <4>1. DOMAIN callers = 1..Len(callers)
        BY <2>2, LenProperties DEF IsList
      <4>2. /\ stack' = [k \in DOMAIN callers |-> stack'[k]]
            /\ \A k \in 1..Len(callers) : stack'[k] = IF k = Len(callers) THEN f ELSE callers[k]
        BY <3>1, <4>1
      <4> QED BY <2>2, <4>2, SameLength
    <3>6. \A k \in 1..Len(callers) :
            "at" \in DOMAIN stack'[k] /\ stack'[k].at = stack[k].at
      BY <1>1, <2>2, <3>2, <3>4, <3>5
    <3>7. Len(open') - (Len(stack') + skipping') = around
      BY <1>1, <1>4, <2>1, <2>2, <3>5
    <3>8. around >= 0 /\ \A k \in 1..Len(callers) : around + k \in 1..(Len(open) - 1)
      BY <1>1, <1>4, <2>1, <2>2
    <3>9. \A k \in 1..Len(callers) : open'[around + k] = stack'[k].at
      BY <1>1, <1>4, <2>1, <2>2, <3>6, <3>8
    <3>10. stack' # <<>>
      BY <3>2, <3>5, ListLength
    <3> HIDE DEF around
    <3> QED BY <1>2, <1>4, <2>1, <3>1, <3>5, <3>6, <3>7, <3>8, <3>9, <3>10
  <2> QED BY <2>3, <2>4
<1>12. CASE IgnoreEnd
  <2>1. EndTag /\ UNCHANGED <<stack, skipping, outcome>>
    BY <1>12 DEF IgnoreEnd
  <2>2. stack = <<>>
    BY <1>4, <1>12, <2>1, LoopEnds DEF IgnoreEnd
  <2> QED BY <1>1, <1>2, <1>4, <2>1, <2>2
<1>13. CASE EndOfInput
  BY <1>1, <1>2, <1>13 DEF EndOfInput
<1>14. CASE UNCHANGED vars
  BY <1>1, <1>2, <1>14 DEF vars
<1> QED BY <1>5, <1>6, <1>7, <1>8, <1>9, <1>10, <1>11, <1>12, <1>13, <1>14 DEF Next

\* The parser and the decoder in step: the invariant of the two theorems below.
THEOREM Invariant == Spec => []IInv
<1>1. Init => IInv
  <2>1. IsList(<<>>)
    BY EmptySeq, AnySequence
  <2> QED BY <2>1, EmptySeq DEF Init, IInv, Frames, InStep
<1>2. IInv /\ [Next]_vars => IInv'
  BY Step
<1> QED BY <1>1, <1>2, PTL DEF Spec

\* For documents of any size: the elements of the active parse functions are
\* open, one inside of the other, and beyond the last only skipped ones are.
THEOREM ParserStaysInStep == Spec => []InStep
BY Invariant, PTL DEF IInv

\* For documents of any size: no parse function reads past its own element.
THEOREM FunctionsReturnInTime == Spec => []FunctionsEndWithElements
<1>1. IInv => FunctionsEndWithElements
  BY LoopEnds DEF FunctionsEndWithElements
<1> QED BY <1>1, Invariant, PTL
-----------------------------------------------------------------------------
(* Numbers *)

\* Induction, for a set in place of a predicate.
LEMMA Numbers ==
  ASSUME NEW W, 0 \in W, \A n \in Nat : n \in W => n + 1 \in W
  PROVE  \A n \in Nat : n \in W
<1> DEFINE Bad == {n \in Nat : n \notin W}
<1> SUFFICES ASSUME Bad # {}  PROVE FALSE
  OBVIOUS
<1>1. \E n \in Bad : \A m \in Bad : ~ (<<m, n>> \in OpToRel(<, Nat))
  BY NatLessThanWellFounded, WFMin
<1>2. PICK n \in Bad : \A m \in Bad : ~ (<<m, n>> \in OpToRel(<, Nat))
  BY <1>1
<1>3. n # 0 /\ n \in Nat
  OBVIOUS
<1>4. n - 1 \in Nat /\ n - 1 \notin W
  BY <1>3
<1>5. <<n - 1, n>> \in OpToRel(<, Nat)
  BY <1>3, <1>4 DEF OpToRel
<1> QED BY <1>2, <1>4, <1>5

\* A set of numbers that has a bound has a greatest one, and one that is not
\* empty a least one.
LEMMA Greatest ==
  ASSUME NEW T \in SUBSET Nat, T # {}, NEW b \in Nat, \A t \in T : t <= b
  PROVE  Max(T) \in T /\ \A t \in T : Max(T) >= t
<1> DEFINE W == {n \in Nat : (\E t \in T : t >= b - n) => \E m \in T : \A t \in T : m >= t}
<1>1. 0 \in W
  <2> SUFFICES ASSUME NEW m \in T, m >= b - 0  PROVE \A t \in T : m >= t
    OBVIOUS
  <2>1. m = b
    OBVIOUS
  <2> QED BY <2>1
<1>2. ASSUME NEW n \in Nat, n \in W  PROVE n + 1 \in W
  <2> SUFFICES ASSUME NEW m \in T, m >= b - (n + 1)  PROVE \E u \in T : \A t \in T : u >= t
    OBVIOUS
  <2>1. CASE \E t \in T : t >= b - n
    BY <1>2, <2>1
  <2>2. CASE \A t \in T : ~ (t >= b - n)
    <3>1. ASSUME NEW t \in T  PROVE m >= t
      <4>1. t \in Nat /\ m \in Nat /\ ~ (t >= b - n)
        BY <2>2
      <4> QED BY <4>1
    <3> QED BY <3>1
  <2> QED BY <2>1, <2>2
<1>3. b \in W
  <2> HIDE DEF W
  <2> QED BY <1>1, <1>2, Numbers
<1>4. PICK m \in T : \A t \in T : m >= t
  <2>1. PICK t \in T : TRUE
    OBVIOUS
  <2>2. t >= b - b
    OBVIOUS
  <2> QED BY <1>3, <2>2
<1> QED BY <1>4 DEF Max

LEMMA Lowest ==
  ASSUME NEW T \in SUBSET Nat, T # {}
  PROVE  Min(T) \in T /\ \A t \in T : Min(T) <= t
<1>1. \E n \in T : \A m \in T : ~ (<<m, n>> \in OpToRel(<, Nat))
  BY NatLessThanWellFounded, WFMin
<1>2. \A m, n \in Nat : m < n => <<m, n>> \in OpToRel(<, Nat)
  BY DEF OpToRel
<1>3. PICK n \in T : \A m \in T : ~ (<<m, n>> \in OpToRel(<, Nat))
  BY <1>1
<1>4. ASSUME NEW m \in T  PROVE n <= m
  <2>1. ~ (m < n)
    BY <1>2, <1>3
  <2> QED BY <2>1
<1> QED BY <1>4 DEF Min
-----------------------------------------------------------------------------
(* InOrder lists the numbers of a set that are at most the length of the   *)
(* document.                                                               *)

IsListing(n, S, f) ==
  f = [m \in 0..n |->
         IF m = 0 THEN <<>> ELSE IF m \in S THEN Append(f[m - 1], m) ELSE f[m - 1]]

Listing(n, S) == CHOOSE f : IsListing(n, S, f)

Listed(n, S) == Listing(n, S)[n]

LEMMA ListingExists ==
  ASSUME NEW S, NEW n \in Nat
  PROVE  IsListing(n, S, Listing(n, S))
<1> DEFINE W == {m \in Nat : \E f : IsListing(m, S, f)}
<1>1. 0 \in W
  <2> DEFINE f == [m \in 0..0 |-> <<>>]
  <2>1. IsListing(0, S, f)
    BY DEF IsListing
  <2> HIDE DEF f
  <2> QED BY <2>1
<1>2. ASSUME NEW m \in Nat, m \in W  PROVE m + 1 \in W
  <2>1. PICK f : IsListing(m, S, f)
    BY <1>2
  <2> DEFINE last == IF m + 1 \in S THEN Append(f[m], m + 1) ELSE f[m]
             g == [i \in 0..(m + 1) |-> IF i = m + 1 THEN last ELSE f[i]]
             Next1(i) == IF i = 0 THEN <<>> ELSE IF i \in S THEN Append(g[i - 1], i) ELSE g[i - 1]
  <2>2. ASSUME NEW i \in 0..(m + 1)  PROVE g[i] = Next1(i)
    <3>1. CASE i = m + 1
      <4>1. m + 1 # 0 /\ m + 1 - 1 = m /\ m \in 0..(m + 1) /\ m # m + 1
        OBVIOUS
      <4> QED BY <3>1, <4>1
    <3>2. CASE i = 0
      BY <2>1, <3>2 DEF IsListing
    <3>3. CASE i \in 1..m
      <4>1. i \in 0..m /\ i - 1 \in 0..m /\ i # 0 /\ i # m + 1 /\ i - 1 # m + 1
        BY <3>3
      <4>2. f[i] = IF i \in S THEN Append(f[i - 1], i) ELSE f[i - 1]
        BY <2>1, <4>1 DEF IsListing
      <4>3. g[i] = f[i] /\ g[i - 1] = f[i - 1]
        BY <4>1
      <4> QED BY <4>1, <4>2, <4>3
    <3> QED BY <3>1, <3>2, <3>3
  <2>3. g = [i \in 0..(m + 1) |-> g[i]]
    OBVIOUS
  <2> HIDE DEF g
  <2>4. IsListing(m + 1, S, g)
    BY <2>2, <2>3 DEF IsListing
  <2> QED BY <2>4
<1>3. n \in W
  <2> HIDE DEF W
  <2> QED BY <1>1, <1>2, Numbers
<1> QED BY <1>3 DEF Listing

LEMMA ListingSteps ==
  ASSUME NEW S, NEW n \in Nat
  PROVE  /\ Listing(n, S)[0] = <<>>
         /\ \A m \in 1..n : Listing(n, S)[m] = IF m \in S THEN Append(Listing(n, S)[m - 1], m)
                                               ELSE Listing(n, S)[m - 1]
<1> DEFINE f == Listing(n, S)
<1>1. IsListing(n, S, f)
  BY ListingExists
<1> HIDE DEF f
<1>2. f[0] = <<>>
  BY <1>1 DEF IsListing
<1>3. ASSUME NEW m \in 1..n
      PROVE  f[m] = IF m \in S THEN Append(f[m - 1], m) ELSE f[m - 1]
  <2>1. m \in 0..n /\ m # 0
    OBVIOUS
  <2> QED BY <1>1, <2>1 DEF IsListing
<1> QED BY <1>2, <1>3 DEF f

\* Only the members up to the length count.
LEMMA ListedAgree ==
  ASSUME NEW n \in Nat, NEW m \in Nat, n <= m, NEW S, NEW T,
         \A i \in 1..n : i \in S <=> i \in T,
         \A i \in 1..m : i \in T => i <= n
  PROVE  Listed(n, S) = Listed(m, T)
<1> DEFINE f == Listing(n, S)
           g == Listing(m, T)
           W == {k \in Nat : /\ k <= n => g[k] = f[k]
                             /\ n <= k /\ k <= m => g[k] = f[n]}
<1>1. /\ f[0] = <<>>
      /\ \A i \in 1..n : f[i] = IF i \in S THEN Append(f[i - 1], i) ELSE f[i - 1]
  BY ListingSteps
<1>2. /\ g[0] = <<>>
      /\ \A i \in 1..m : g[i] = IF i \in T THEN Append(g[i - 1], i) ELSE g[i - 1]
  BY ListingSteps
<1> HIDE DEF f, g
<1>3. 0 \in W
  BY <1>1, <1>2
<1>4. ASSUME NEW k \in Nat, k \in W  PROVE k + 1 \in W
  <2>1. k + 1 - 1 = k
    OBVIOUS
  <2>2. ASSUME k + 1 <= n  PROVE g[k + 1] = f[k + 1]
    <3>1. k + 1 \in 1..n /\ k + 1 \in 1..m /\ g[k] = f[k]
      BY <1>4, <2>2
    <3> QED BY <1>1, <1>2, <2>1, <3>1
  <2>3. ASSUME n <= k, k + 1 <= m  PROVE g[k + 1] = f[n]
    <3>1. k + 1 \in 1..m /\ g[k] = f[n] /\ k + 1 \notin T
      BY <1>4, <2>3
    <3> QED BY <1>2, <2>1, <3>1
  <2>4. ASSUME n <= k + 1, k + 1 <= m  PROVE g[k + 1] = f[n]
    BY <2>2, <2>3, <2>4
  <2> QED BY <2>2, <2>4
<1>5. m \in W
  <2> HIDE DEF W
  <2> QED BY <1>3, <1>4, Numbers
<1> QED BY <1>5 DEF Listed, f, g

\* A list with its greatest member is the list without it, and the member.
LEMMA ListedWith ==
  ASSUME NEW n \in Nat, NEW a \in 1..n, NEW S, \A i \in S : i \in 1..(a - 1)
  PROVE  Listed(n, S \union {a}) = Append(Listed(n, S), a)
<1> DEFINE T == S \union {a}
<1>1. a \in Nat /\ a - 1 \in Nat /\ a # 0
  OBVIOUS
<1>2. Listed(a, T) = Listed(n, T)
  <2>1. \A i \in 1..n : i \in T => i <= a
    OBVIOUS
  <2> QED BY <1>1, <2>1, ListedAgree
<1>3. Listed(a - 1, S) = Listed(n, S)
  <2>1. a - 1 <= n /\ \A i \in 1..n : i \in S => i <= a - 1
    OBVIOUS
  <2> QED BY <1>1, <2>1, ListedAgree
<1>4. Listed(a, T) = Append(Listing(a, T)[a - 1], a)
  <2>1. \A i \in 1..a : Listing(a, T)[i] = IF i \in T THEN Append(Listing(a, T)[i - 1], i)
                                           ELSE Listing(a, T)[i - 1]
    BY <1>1, ListingSteps
  <2>2. a \in 1..a /\ a \in T
    BY <1>1
  <2> HIDE DEF T
  <2> QED BY <2>1, <2>2 DEF Listed
<1>5. Listing(a, T)[a - 1] = Listed(a - 1, S)
  <2> DEFINE f == Listing(a, T)
             g == Listing(a - 1, S)
             W == {k \in Nat : k <= a - 1 => f[k] = g[k]}
  <2>1. /\ f[0] = <<>>
        /\ \A i \in 1..a : f[i] = IF i \in T THEN Append(f[i - 1], i) ELSE f[i - 1]
    BY <1>1, ListingSteps
  <2>2. /\ g[0] = <<>>
        /\ \A i \in 1..(a - 1) : g[i] = IF i \in S THEN Append(g[i - 1], i) ELSE g[i - 1]
    BY <1>1, ListingSteps
  <2> HIDE DEF f, g
  <2>3. 0 \in W
    BY <2>1, <2>2
  <2>4. ASSUME NEW k \in Nat, k \in W  PROVE k + 1 \in W
    <3> SUFFICES ASSUME k + 1 <= a - 1  PROVE f[k + 1] = g[k + 1]
      OBVIOUS
    <3>1. /\ k + 1 - 1 = k /\ k + 1 \in 1..a /\ k + 1 \in 1..(a - 1) /\ f[k] = g[k]
          /\ (k + 1 \in T <=> k + 1 \in S)
      BY <1>1, <2>4
    <3> QED BY <2>1, <2>2, <3>1
  <2>5. a - 1 \in W
    <3> HIDE DEF W
    <3> QED BY <1>1, <2>3, <2>4, Numbers
  <2> QED BY <1>1, <2>5 DEF Listed, f, g
<1> QED BY <1>2, <1>3, <1>4, <1>5

LEMMA ListedMembers ==
  ASSUME NEW n \in Nat, NEW S \in SUBSET (1..n)
  PROVE  Listed(n, S) \in Seq(S) /\ (Listed(n, S) = <<>> <=> S = {})
<1> DEFINE f == Listing(n, S)
           W == {k \in Nat : k <= n => f[k] \in Seq(S) /\ (f[k] = <<>> <=> \A i \in S : i > k)}
<1>1. /\ f[0] = <<>>
      /\ \A i \in 1..n : f[i] = IF i \in S THEN Append(f[i - 1], i) ELSE f[i - 1]
  BY ListingSteps
<1> HIDE DEF f
<1>2. 0 \in W
  <2>1. <<>> \in Seq(S) /\ \A i \in S : i > 0
    BY EmptySeq
  <2> QED BY <1>1, <2>1
<1>3. ASSUME NEW k \in Nat, k \in W  PROVE k + 1 \in W
  <2> SUFFICES ASSUME k + 1 <= n
               PROVE  f[k + 1] \in Seq(S) /\ (f[k + 1] = <<>> <=> \A i \in S : i > k + 1)
    OBVIOUS
  <2>1. /\ k + 1 \in 1..n /\ k + 1 - 1 = k /\ k <= n
        /\ f[k] \in Seq(S) /\ (f[k] = <<>> <=> \A i \in S : i > k)
    BY <1>3
  <2>2. CASE k + 1 \in S
    <3>1. f[k + 1] = Append(f[k], k + 1)
      <4>1. f[k + 1] = Append(f[k + 1 - 1], k + 1)
        <5> DEFINE j == k + 1
        <5>1. j \in 1..n /\ j \in S
          BY <2>1, <2>2
        <5>2. f[j] = IF j \in S THEN Append(f[j - 1], j) ELSE f[j - 1]
          <6> HIDE DEF j
          <6> QED BY <1>1, <5>1
        <5> HIDE DEF j
        <5>3. f[j] = Append(f[j - 1], j)
          BY <5>1, <5>2
        <5> QED BY <5>3 DEF j
      <4> QED BY <2>1, <4>1, Zenon
    <3>2. /\ Append(f[k], k + 1) \in Seq(S)
          /\ Len(Append(f[k], k + 1)) = Len(f[k]) + 1 /\ Len(f[k]) \in Nat
      BY <2>1, <2>2, AppendProperties, LenProperties
    <3>3. f[k + 1] # <<>>
      BY <3>1, <3>2, EmptySeq
    <3>4. ~ (k + 1 > k + 1)
      OBVIOUS
    <3> QED BY <2>2, <3>1, <3>2, <3>3, <3>4
  <2>3. CASE k + 1 \notin S
    <3>1. f[k + 1] = f[k]
      BY <1>1, <2>1, <2>3
    <3>2. (\A i \in S : i > k) <=> (\A i \in S : i > k + 1)
      BY <2>3
    <3> QED BY <2>1, <3>1, <3>2
  <2> QED BY <2>2, <2>3
<1>4. n \in W
  <2> HIDE DEF W
  <2> QED BY <1>2, <1>3, Numbers
<1>5. (\A i \in S : i > n) <=> S = {}
  OBVIOUS
<1> QED BY <1>4, <1>5 DEF Listed, f

LEMMA InOrderIs == \A S : InOrder(S) = Listed(Len(doc), S)
  BY DEF InOrder, Listed, Listing, IsListing
-----------------------------------------------------------------------------
(* Which elements are part of the TwiML, as the document grows             *)

LEMMA RootIs ==
  ASSUME IsList(doc)
  PROVE  \/ Root = 0 /\ \A i \in 1..Len(doc) : doc[i].name # "Response"
         \/ /\ Root \in 1..Len(doc) /\ doc[Root].name = "Response"
            /\ \A i \in 1..Len(doc) : doc[i].name = "Response" => Root <= i
<1> DEFINE I == {i \in 1..Len(doc) : doc[i].name = "Response"}
<1>1. Root = IF I # {} THEN Min(I) ELSE 0
  BY DEF Root, SelectInSeq
<1>2. I \in SUBSET Nat /\ Len(doc) \in Nat
  BY ListLength
<1>3. CASE I = {}
  BY <1>1, <1>3
<1>4. CASE I # {}
  <2>1. Min(I) \in I /\ \A t \in I : Min(I) <= t
    BY <1>2, <1>4, Lowest
  <2> QED BY <1>1, <1>4, <2>1
<1> QED BY <1>3, <1>4

Numbered == \A i \in 1..Len(doc) : doc[i].parent \in 0..(i - 1)

\* An element is relevant when the one around it is, if relevant ones are S.
Counts(i, S) ==
  /\ doc[i].name # CharData
  /\ i = Root \/ (doc[i].parent \in S /\ doc[doc[i].parent].name \in Loops)

IsRelevant(S) == S \in SUBSET (1..Len(doc)) /\ \A i \in 1..Len(doc) : i \in S <=> Counts(i, S)

LEMMA RelevantIs ==
  ASSUME IsList(doc), Numbered, NEW S, IsRelevant(S)
  PROVE  Relevant = S
<1> DEFINE Holds(g, i) == /\ i > 0 /\ doc[i].name # CharData
                          /\ i = Root \/ (g[doc[i].parent] /\ doc[doc[i].parent].name \in Loops)
           IsIt(g) == g = [i \in 0..Len(doc) |-> Holds(g, i)]
           f == [i \in 0..Len(doc) |-> IF i \in S THEN TRUE ELSE FALSE]
           h == CHOOSE g : IsIt(g)
<1>0. Len(doc) \in Nat
  BY ListLength
<1>1. IsIt(f)
  <2>1. ASSUME NEW i \in 0..Len(doc)  PROVE f[i] = Holds(f, i)
    <3>1. f[i] \in BOOLEAN /\ (f[i] <=> i \in S)
      <4>1. f[i] = IF i \in S THEN TRUE ELSE FALSE
        OBVIOUS
      <4> HIDE DEF f
      <4> QED BY <4>1
    <3>2. Holds(f, i) <=> i \in S
      <4>1. CASE i = 0
        <5>1. i \notin S
          BY <4>1 DEF IsRelevant
        <5> QED BY <4>1, <5>1
      <4>2. CASE i \in 1..Len(doc)
        <5>1. doc[i].parent \in 0..Len(doc) /\ i > 0
          BY <1>0, <4>2 DEF Numbered
        <5>2. f[doc[i].parent] <=> doc[i].parent \in S
          BY <5>1
        <5>3. i \in S <=> Counts(i, S)
          BY <4>2 DEF IsRelevant
        <5> HIDE DEF f
        <5> QED BY <5>1, <5>2, <5>3 DEF Counts
      <4> QED BY <1>0, <4>1, <4>2
    <3>3. Holds(f, i) \in BOOLEAN
      OBVIOUS
    <3> HIDE DEF f, Holds
    <3> QED BY <3>1, <3>2, <3>3
  <2>2. f = [i \in 0..Len(doc) |-> f[i]]
    OBVIOUS
  <2> HIDE DEF f, Holds
  <2> QED BY <2>1, <2>2
<1>2. IsIt(h)
  <2> HIDE DEF f, Holds, IsIt
  <2> QED BY <1>1
<1>3. Relevant = {i \in 1..Len(doc) : h[i]}
  BY DEF Relevant
<1>4. \A i \in 0..Len(doc) : h[i] = Holds(h, i)
  <2> HIDE DEF h, Holds
  <2> QED BY <1>2
<1> DEFINE W == {k \in Nat : \A i \in 1..Len(doc) : i <= k => (h[i] <=> i \in S)}
<1> HIDE DEF h
<1>5. 0 \in W
  BY <1>0
<1>6. ASSUME NEW k \in Nat, k \in W  PROVE k + 1 \in W
  <2> SUFFICES ASSUME k + 1 \in 1..Len(doc)  PROVE h[k + 1] <=> k + 1 \in S
    BY <1>0, <1>6
  <2>1. k + 1 \in 0..Len(doc) /\ k + 1 > 0
    BY <1>0
  <2>2. doc[k + 1].parent \in 0..k
    BY DEF Numbered
  <2>3. h[doc[k + 1].parent] <=> doc[k + 1].parent \in S
    <3>1. CASE doc[k + 1].parent = 0
      <4>1. ~h[0]
        <5>1. 0 \in 0..Len(doc) /\ ~Holds(h, 0)
          BY <1>0
        <5> HIDE DEF Holds
        <5> QED BY <1>4, <5>1, Zenon
      <4> QED BY <3>1, <4>1 DEF IsRelevant
    <3>2. CASE doc[k + 1].parent # 0
      BY <1>0, <1>6, <2>2, <3>2
    <3> QED BY <3>1, <3>2
  <2>4. k + 1 \in S <=> Counts(k + 1, S)
    BY DEF IsRelevant
  <2> QED BY <1>4, <2>1, <2>3, <2>4 DEF Counts
<1>7. \A k \in Nat : k \in W
  <2> HIDE DEF W
  <2> QED BY <1>5, <1>6, Numbers
<1>8. \A i \in 1..Len(doc) : h[i] <=> i \in S
  BY <1>0, <1>7
<1> QED BY <1>3, <1>8 DEF IsRelevant

LEMMA Primed ==
  /\ IsList(doc)' => \/ Root' = 0 /\ \A i \in 1..Len(doc') : doc'[i].name # "Response"
                     \/ /\ Root' \in 1..Len(doc') /\ doc'[Root'].name = "Response"
                        /\ \A i \in 1..Len(doc') : doc'[i].name = "Response" => Root' <= i
  /\ IsList(doc)' /\ Numbered' => \A S : IsRelevant(S)' => Relevant' = S
<1>1. (IsList(doc) => \/ Root = 0 /\ \A i \in 1..Len(doc) : doc[i].name # "Response"
                      \/ /\ Root \in 1..Len(doc) /\ doc[Root].name = "Response"
                         /\ \A i \in 1..Len(doc) : doc[i].name = "Response" => Root <= i)'
  BY RootIs, PTL
<1>2. IsList(doc) /\ Numbered => \A S : IsRelevant(S) => Relevant = S
  BY RelevantIs
<1>3. (IsList(doc) /\ Numbered => \A S : IsRelevant(S) => Relevant = S)'
  BY <1>2, PTL
<1> QED BY <1>1, <1>3

\* The decoder delivers an item.
LEMMA Grows ==
  ASSUME IsList(doc), Numbered, IsRelevant(Relevant), NEW e, e.parent \in 0..Len(doc),
         doc' = Append(doc, e)
  PROVE  /\ IsList(doc') /\ Numbered'
         /\ Root' = IF Root # 0 THEN Root
                    ELSE IF e.name = "Response" THEN Len(doc) + 1 ELSE 0
         /\ Relevant' = Relevant \union
              {i \in {Len(doc) + 1} :
                 /\ e.name # CharData
                 /\ i = Root' \/ (e.parent \in Relevant /\ doc[e.parent].name \in Loops)}
         /\ IsRelevant(Relevant)'
<1>len. PICK n : n = Len(doc)
  OBVIOUS
<1> USE <1>len
<1> DEFINE more == {i \in {n + 1} :
                      /\ e.name # CharData
                      /\ i = Root' \/ (e.parent \in Relevant /\ doc[e.parent].name \in Loops)}
<1>0. PICK R : R = Relevant \union more
  OBVIOUS
<1>1. /\ n \in Nat /\ IsList(doc') /\ Len(doc') = n + 1 /\ doc'[n + 1] = e
      /\ \A i \in 1..n : doc'[i] = doc[i]
  BY ListLength, PushOnList
<1>2. Numbered'
  BY <1>1 DEF Numbered
<1>3. Root' = IF Root # 0 THEN Root ELSE IF e.name = "Response" THEN n + 1 ELSE 0
  <2>1. \/ Root = 0 /\ \A i \in 1..n : doc[i].name # "Response"
        \/ /\ Root \in 1..n /\ doc[Root].name = "Response"
           /\ \A i \in 1..n : doc[i].name = "Response" => Root <= i
    BY RootIs
  <2>2. \/ Root' = 0 /\ \A i \in 1..(n + 1) : doc'[i].name # "Response"
        \/ /\ Root' \in 1..(n + 1) /\ doc'[Root'].name = "Response"
           /\ \A i \in 1..(n + 1) : doc'[i].name = "Response" => Root' <= i
    BY <1>1, Primed
  <2> QED BY <1>1, <2>1, <2>2
<1>4. IsRelevant(R)'
  <2>1. Relevant \in SUBSET (1..n) /\ \A i \in 1..n : i \in Relevant <=> Counts(i, Relevant)
    BY DEF IsRelevant
  <2>2. R \in SUBSET (1..(n + 1))
    <3>1. more \in SUBSET {n + 1} /\ n + 1 \in 1..(n + 1) /\ 1..n \in SUBSET (1..(n + 1))
      BY <1>1
    <3> HIDE DEF more
    <3> QED BY <1>0, <2>1, <3>1
  <2>3. ASSUME NEW i \in 1..n  PROVE i \in R <=> Counts(i, R)'
    <3>1. i \in R <=> i \in Relevant
      BY <1>0, <1>1
    <3>2. doc[i].parent \in 0..(i - 1) /\ doc'[i] = doc[i]
      BY <1>1 DEF Numbered
    <3>3. i = Root' <=> i = Root
      BY <1>1, <1>3
    <3>4. doc[i].parent \in R <=> doc[i].parent \in Relevant
      BY <1>0, <1>1, <3>2
    <3>5. doc[i].parent \in Relevant => doc'[doc[i].parent] = doc[doc[i].parent]
      BY <1>1, <2>1
    <3> QED BY <2>1, <3>1, <3>2, <3>3, <3>4, <3>5 DEF Counts
  <2>4. n + 1 \in R <=> Counts(n + 1, R)'
    <3>1. n + 1 \notin Relevant /\ doc'[n + 1] = e
      BY <1>1, <2>1
    <3>2. e.parent \in R <=> e.parent \in Relevant
      BY <1>0, <1>1
    <3>3. e.parent \in Relevant => doc'[e.parent] = doc[e.parent]
      BY <1>1, <2>1
    <3>4. n + 1 \in R <=> /\ e.name # CharData
                          /\ n + 1 = Root' \/ (e.parent \in Relevant /\ doc[e.parent].name \in Loops)
      BY <1>0, <3>1
    <3> QED BY <3>1, <3>2, <3>3, <3>4 DEF Counts
  <2>5. \A i \in 1..(n + 1) : i \in 1..n \/ i = n + 1
    BY <1>1
  <2> QED BY <1>1, <2>2, <2>3, <2>4, <2>5 DEF IsRelevant
<1>5. Relevant' = R
  <2>1. IsList(doc)'
    BY <1>1 DEF IsList
  <2> QED BY <1>2, <1>4, <2>1, Primed
<1>6. IsRelevant(Relevant)'
  BY <1>4, <1>5 DEF IsRelevant, Counts
<1> QED BY <1>0, <1>1, <1>2, <1>3, <1>5, <1>6

LEMMA Stays ==
  ASSUME IsList(doc), Numbered, IsRelevant(Relevant), doc' = doc
  PROVE  Numbered' /\ Root' = Root /\ Relevant' = Relevant /\ IsRelevant(Relevant)'
<1>1. PICK R : R = Relevant
  OBVIOUS
<1>2. Len(doc) \in Nat /\ IsList(doc)' /\ Numbered'
  BY ListLength DEF IsList, Numbered
<1>3. Root' = Root
  BY <1>2, RootIs, Primed
<1>4. IsRelevant(R)'
  BY <1>1, <1>3 DEF IsRelevant, Counts
<1>5. Relevant' = R
  BY <1>2, <1>4, Primed
<1> QED BY <1>1, <1>2, <1>3, <1>4, <1>5 DEF IsRelevant, Counts

\* What makes an element faulty.
Bad(i) ==
  \/ i # Root /\ doc[doc[i].parent].name # "Client" /\ doc[i].name \notin Nodes
  \/ i # Root /\ doc[doc[i].parent].name = "Client"
     /\ doc[i].name \notin {"Parameter", "Identity"}
  \/ doc[i].wrong /\ doc[i].name \notin {"Hangup", "Identity"}

LEMMA FaultyIs == Faulty = {i \in Relevant : Bad(i)}
  BY DEF Faulty, Bad

\* Elements are inside of each other as they are open, and what an open element
\* has inside of it began no later than the next open one.
Opened ==
  /\ \A q \in 1..Len(open) :
       /\ open[q] \in 1..Len(doc)
       /\ doc[open[q]].parent = IF q = 1 THEN 0 ELSE open[q - 1]
  /\ \A q, r \in 1..Len(open) : q < r => open[q] < open[r]
  /\ \A q \in 1..(Len(open) - 1), j \in 1..Len(doc) :
       doc[j].parent = open[q] => j <= open[q + 1]

\* The active functions are at relevant elements, and nothing that is skipped
\* is relevant.
Reading ==
  /\ Root = IF stack = <<>> THEN 0 ELSE stack[1].at
  /\ stack = <<>> => Relevant = {}
  /\ \A k \in 1..Len(stack) : stack[k].at \in Relevant
  /\ \A k \in 1..(Len(stack) - 1) : NameOf(stack[k]) \in Loops
  /\ skipping > 0 => NameOf(stack[Len(stack)]) \notin Loops
  /\ \A q \in 1..Len(open) : q > Len(open) - skipping => open[q] \notin Relevant
  /\ Faulty = {}

Verdict ==
  /\ outcome = "refused" => Faulty # {} \/ Root = 0
  /\ outcome = "parsed" => Faulty = {}

ReadInv ==
  /\ Numbered /\ Opened /\ IsRelevant(Relevant)
  /\ outcome = "reading" => Reading
  /\ Verdict

\* The innermost open element is relevant, and so is what is inside of it.
InsideLoop ==
  open # <<>> /\ open[Len(open)] \in Relevant /\ doc[open[Len(open)]].name \in Loops

LEMMA Delivered ==
  ASSUME IInv, ReadInv, NEW n, NEW wrong, Deliver(n, wrong)
  PROVE  /\ outcome = "reading" /\ Reading
         /\ Numbered' /\ IsRelevant(Relevant)' /\ Len(doc') = Len(doc) + 1
         /\ \A i \in 1..Len(doc) : doc'[i] = doc[i]
         /\ doc'[Len(doc) + 1].name = n /\ doc'[Len(doc) + 1].wrong = wrong
         /\ doc'[Len(doc) + 1].parent = IF open = <<>> THEN 0 ELSE open[Len(open)]
         /\ Root' = IF Root # 0 THEN Root
                    ELSE IF n = "Response" THEN Len(doc) + 1 ELSE 0
         /\ Relevant' = IF n # CharData /\ (Len(doc) + 1 = Root' \/ InsideLoop)
                       THEN Relevant \union {Len(doc) + 1} ELSE Relevant
         /\ \A i \in Relevant : ~Bad(i)'
<1>1. outcome = "reading" /\ Reading
  BY DEF Deliver, ReadInv
<1>2. /\ IsList(doc) /\ Len(doc) \in Nat /\ IsList(open) /\ Len(open) \in Nat
      /\ open # <<>> => Len(open) > 0
      /\ Numbered /\ IsRelevant(Relevant)
  BY ListLength DEF IInv, ReadInv
<1>3. PICK p : p = IF open = <<>> THEN 0 ELSE open[Len(open)]
  OBVIOUS
<1>4. p \in 0..Len(doc) /\ (open # <<>> => p \in 1..Len(doc))
  BY <1>2, <1>3 DEF ReadInv, Opened
<1>5. PICK e : e = [name |-> n, wrong |-> wrong, parent |-> p]
  OBVIOUS
<1>6. doc' = Append(doc, e) /\ e.parent \in 0..Len(doc) /\ e.name = n
  BY <1>3, <1>4, <1>5 DEF Deliver, Last
<1>7. /\ Len(doc') = Len(doc) + 1 /\ doc'[Len(doc) + 1] = e
      /\ \A i \in 1..Len(doc) : doc'[i] = doc[i]
  BY <1>2, <1>6, PushOnList
<1>8. /\ Numbered' /\ IsRelevant(Relevant)'
      /\ Root' = IF Root # 0 THEN Root ELSE IF n = "Response" THEN Len(doc) + 1 ELSE 0
      /\ Relevant' = Relevant \union
           {i \in {Len(doc) + 1} :
              /\ n # CharData
              /\ i = Root' \/ (p \in Relevant /\ doc[p].name \in Loops)}
  BY <1>2, <1>5, <1>6, Grows
<1>9. (p \in Relevant /\ doc[p].name \in Loops) <=> InsideLoop
  <2>1. 0 \notin Relevant
    BY <1>2 DEF IsRelevant
  <2> QED BY <1>3, <2>1 DEF InsideLoop
<1>10. Relevant' = IF n # CharData /\ (Len(doc) + 1 = Root' \/ InsideLoop)
                   THEN Relevant \union {Len(doc) + 1} ELSE Relevant
  <2> HIDE DEF InsideLoop
  <2> QED BY <1>8, <1>9
<1>11. ASSUME NEW i \in Relevant  PROVE ~Bad(i)'
  <2>1. i \in 1..Len(doc) /\ Counts(i, Relevant) /\ doc'[i] = doc[i]
    BY <1>2, <1>7 DEF IsRelevant
  <2>2. ~Bad(i)
    BY <1>1, FaultyIs DEF Reading
  <2>3. Root' = Root
    <3>1. Root # 0
      <4>1. stack # <<>>
        BY <1>1 DEF Reading
      <4>2. Len(stack) \in Nat /\ Len(stack) > 0
        BY <4>1, ListLength DEF IInv
      <4>3. Root = stack[1].at /\ stack[1].at \in Relevant
        BY <1>1, <4>1, <4>2 DEF Reading
      <4> QED BY <1>2, <4>3 DEF IsRelevant
    <3> QED BY <1>8, <3>1
  <2>4. i # Root => doc'[doc[i].parent] = doc[doc[i].parent]
    BY <1>2, <1>7, <2>1 DEF Counts, IsRelevant
  <2> QED BY <2>1, <2>2, <2>3, <2>4 DEF Bad
<1>12. e.name = n /\ e.wrong = wrong /\ e.parent = IF open = <<>> THEN 0 ELSE open[Len(open)]
  BY <1>3, <1>5
<1> QED BY <1>1, <1>7, <1>8, <1>10, <1>11, <1>12

LEMMA OpenedStep ==
  ASSUME IInv, ReadInv, [Next]_vars
  PROVE  Opened'
<1>1. /\ Len(doc) \in Nat /\ IsList(open) /\ Len(open) \in Nat
      /\ IsList(doc) /\ (open # <<>> <=> Len(open) > 0) /\ Opened
      /\ Numbered
  BY ListLength DEF IInv, ReadInv
<1>2. ASSUME NEW n, NEW wrong, StartTag(n, wrong)  PROVE Opened'
  <2>1. /\ Len(open') = Len(open) + 1 /\ open'[Len(open) + 1] = Len(doc) + 1
        /\ \A q \in 1..Len(open) : open'[q] = open[q]
    BY <1>1, <1>2, PushOnList DEF StartTag
  <2>2. /\ Len(doc') = Len(doc) + 1
        /\ \A i \in 1..Len(doc) : doc'[i] = doc[i]
        /\ doc'[Len(doc) + 1].parent = IF open = <<>> THEN 0 ELSE open[Len(open)]
    BY <1>2, Delivered DEF StartTag
  <2>3. ASSUME NEW q \in 1..Len(open')
        PROVE  /\ open'[q] \in 1..Len(doc')
               /\ doc'[open'[q]].parent = IF q = 1 THEN 0 ELSE open'[q - 1]
    <3>1. CASE q \in 1..Len(open)
      <4>1. open[q] \in 1..Len(doc) /\ doc[open[q]].parent = IF q = 1 THEN 0 ELSE open[q - 1]
        BY <1>1, <3>1 DEF Opened
      <4>2. q # 1 => q - 1 \in 1..Len(open)
        BY <3>1
      <4>3. /\ open'[q] = open[q] /\ doc'[open[q]] = doc[open[q]] /\ open[q] \in 1..Len(doc')
            /\ q # 1 => open'[q - 1] = open[q - 1]
        BY <1>1, <2>1, <2>2, <3>1, <4>1, <4>2
      <4> QED BY <4>1, <4>3
    <3>2. CASE q = Len(open) + 1
      BY <1>1, <2>1, <2>2, <3>2 DEF Opened
    <3> QED BY <1>1, <2>1, <3>1, <3>2
  <2>4. ASSUME NEW q \in 1..Len(open'), NEW r \in 1..Len(open'), q < r
        PROVE  open'[q] < open'[r]
    <3>1. q \in 1..Len(open) /\ open'[q] = open[q] /\ open[q] \in 1..Len(doc)
      BY <1>1, <2>1, <2>4 DEF Opened
    <3>2. CASE r \in 1..Len(open)
      <4>1. open'[r] = open[r]
        BY <2>1, <3>2
      <4>2. open[q] < open[r]
        BY <1>1, <2>4, <3>1, <3>2 DEF Opened
      <4> QED BY <3>1, <4>1, <4>2
    <3>3. CASE r = Len(open) + 1
      BY <1>1, <2>1, <3>1, <3>3
    <3> QED BY <1>1, <2>1, <2>4, <3>2, <3>3
  <2>5. ASSUME NEW q \in 1..(Len(open') - 1), NEW j \in 1..Len(doc'), doc'[j].parent = open'[q]
        PROVE  j <= open'[q + 1]
    <3>1. q \in 1..Len(open) /\ open'[q] = open[q] /\ open[q] \in 1..Len(doc)
      BY <1>1, <2>1 DEF Opened
    <3>2. CASE q = Len(open)
      BY <1>1, <2>1, <2>2, <3>2
    <3>3. CASE q < Len(open) /\ j \in 1..Len(doc)
      <4>1. q \in 1..(Len(open) - 1) /\ q + 1 \in 1..Len(open)
        BY <1>1, <3>1, <3>3
      <4>2. doc[j].parent = open[q]
        BY <2>2, <2>5, <3>1, <3>3
      <4> QED BY <1>1, <2>1, <3>3, <4>1, <4>2 DEF Opened
    <3>4. CASE q < Len(open) /\ j = Len(doc) + 1
      <4>1. doc'[j].parent = open[Len(open)] /\ open[q] < open[Len(open)]
        BY <1>1, <2>2, <3>1, <3>4 DEF Opened
      <4> QED BY <2>5, <3>1, <4>1
    <3> QED BY <1>1, <2>2, <3>1, <3>2, <3>3, <3>4
  <2> QED BY <2>3, <2>4, <2>5 DEF Opened
<1>3. CASE Text
  <2>1. /\ Len(doc') = Len(doc) + 1 /\ open' = open /\ open # <<>>
        /\ \A i \in 1..Len(doc) : doc'[i] = doc[i]
        /\ doc'[Len(doc) + 1].parent = open[Len(open)]
    BY <1>3, Delivered DEF Text
  <2>2. ASSUME NEW q \in 1..(Len(open) - 1), NEW j \in 1..Len(doc'), doc'[j].parent = open[q]
        PROVE  j <= open[q + 1]
    <3>1. CASE j \in 1..Len(doc)
      BY <1>1, <2>1, <2>2, <3>1 DEF Opened
    <3>2. CASE j = Len(doc) + 1
      <4>1. open[q] < open[Len(open)] /\ open[q] \in Nat
        BY <1>1 DEF Opened
      <4> QED BY <2>1, <2>2, <3>2, <4>1
    <3> QED BY <1>1, <2>1, <3>1, <3>2
  <2> QED BY <1>1, <2>1, <2>2 DEF Opened
<1>4. CASE EndTag
  <2>1. /\ Len(open') = Len(open) - 1 /\ doc' = doc
        /\ \A q \in 1..(Len(open) - 1) : open'[q] = open[q]
    BY <1>1, <1>4, PopFromList DEF EndTag
  <2>2. ASSUME NEW q \in 1..Len(open')
        PROVE  /\ open'[q] \in 1..Len(doc')
               /\ doc'[open'[q]].parent = IF q = 1 THEN 0 ELSE open'[q - 1]
    <3>1. q \in 1..(Len(open) - 1) /\ q \in 1..Len(open) /\ (q # 1 => q - 1 \in 1..(Len(open) - 1))
      BY <1>1, <2>1
    <3>2. open[q] \in 1..Len(doc) /\ doc[open[q]].parent = IF q = 1 THEN 0 ELSE open[q - 1]
      BY <1>1, <3>1 DEF Opened
    <3> QED BY <2>1, <3>1, <3>2
  <2>3. ASSUME NEW q \in 1..Len(open'), NEW r \in 1..Len(open'), q < r
        PROVE  open'[q] < open'[r]
    BY <1>1, <2>1, <2>3 DEF Opened
  <2>4. ASSUME NEW q \in 1..(Len(open') - 1), NEW j \in 1..Len(doc'), doc'[j].parent = open'[q]
        PROVE  j <= open'[q + 1]
    BY <1>1, <2>1, <2>4 DEF Opened
  <2> QED BY <2>2, <2>3, <2>4 DEF Opened
<1>5. CASE UNCHANGED <<doc, open>>
  BY <1>1, <1>5 DEF Opened
<1> QED BY <1>2, <1>3, <1>4, <1>5
    DEF Next, vars, Call, Refuse, Ignore, Swallow, EndOfSwallowed, Return, IgnoreEnd, EndOfInput

LEMMA FaultyPrimed == Faulty' = {i \in Relevant' : Bad(i)'}
  BY DEF Faulty, Bad

\* Steps after which the same elements are relevant.
LEMMA ReadsOn ==
  ASSUME IInv, Reading, Root' = Root, Relevant' = Relevant,
         \A i \in Relevant : doc'[i].name = doc[i].name /\ ~Bad(i)',
         Len(stack') \in Nat, Len(stack') <= Len(stack),
         stack' = <<>> <=> stack = <<>>, stack' # <<>> => Len(stack') > 0,
         \A k \in 1..Len(stack') : stack'[k].at = stack[k].at,
         skipping' > 0 => Len(stack') = Len(stack) /\ Len(stack) > 0
                          /\ NameOf(stack[Len(stack)]) \notin Loops,
         \A q \in 1..Len(open') : q > Len(open') - skipping' => open'[q] \notin Relevant
  PROVE  Reading'
<1>1. Len(stack) \in Nat /\ \A k \in 1..Len(stack) : stack[k].at \in Relevant
  BY ListLength DEF IInv, Reading
<1>2. Root' = IF stack' = <<>> THEN 0 ELSE stack'[1].at
  BY <1>1 DEF Reading
<1>3. \A k \in 1..Len(stack') : stack'[k].at \in Relevant' /\ NameOf(stack[k])' = NameOf(stack[k])
  BY <1>1 DEF NameOf
<1>4. \A k \in 1..(Len(stack') - 1) : NameOf(stack[k])' \in Loops
  BY <1>1, <1>3 DEF Reading
<1>5. skipping' > 0 => NameOf(stack[Len(stack)])' \notin Loops
  BY <1>1 DEF NameOf
<1>6. Faulty' = {}
  BY FaultyPrimed
<1>7. stack' = <<>> => Relevant' = {}
  BY DEF Reading
<1> QED BY <1>2, <1>3, <1>4, <1>5, <1>6, <1>7 DEF Reading

\* A new item that is not relevant.
LEMMA IgnoredItem ==
  ASSUME IInv, ReadInv, NEW n, NEW wrong, Deliver(n, wrong),
         n = CharData \/ (stack = <<>> /\ n # "Response") \/ (stack # <<>> /\ ~InsideLoop)
  PROVE  /\ Root' = Root /\ Relevant' = Relevant /\ Reading
         /\ \A i \in Relevant : doc'[i].name = doc[i].name /\ ~Bad(i)'
<1>1. Reading /\ Len(stack) \in Nat /\ Len(doc) \in Nat /\ (stack # <<>> => Len(stack) > 0)
      /\ Relevant \in SUBSET (1..Len(doc))
  BY Delivered, ListLength DEF IInv, ReadInv, IsRelevant
<1>2. stack # <<>> => Root \in 1..Len(doc)
  BY <1>1 DEF Reading
<1>3. Root' = Root
  <2>1. CharData # "Response"
    BY DEF CharData
  <2> QED BY <1>1, <1>2, <2>1, Delivered DEF Reading
<1>4. Relevant' = Relevant
  <2>1. Len(doc) + 1 # Root'
    BY <1>1, <1>2, <1>3 DEF Reading
  <2>2. stack = <<>> => ~InsideLoop
    BY <1>1 DEF Reading, InsideLoop
  <2> QED BY <2>1, <2>2, Delivered
<1>5. \A i \in Relevant : doc'[i] = doc[i] /\ ~Bad(i)'
  BY <1>1, Delivered
<1> QED BY <1>1, <1>3, <1>4, <1>5

\* A new element that is relevant.
LEMMA RelevantItem ==
  ASSUME IInv, ReadInv, NEW n, NEW wrong, Deliver(n, wrong), n # CharData,
         IF stack = <<>> THEN n = "Response" ELSE InsideLoop
  PROVE  /\ Root' = IF stack = <<>> THEN Len(doc) + 1 ELSE Root
         /\ Relevant' = Relevant \union {Len(doc) + 1} /\ Reading
         /\ \A i \in Relevant : doc'[i].name = doc[i].name /\ ~Bad(i)'
<1>1. Reading /\ Len(stack) \in Nat /\ Len(doc) \in Nat /\ (stack # <<>> => Len(stack) > 0)
      /\ Relevant \in SUBSET (1..Len(doc))
  BY Delivered, ListLength DEF IInv, ReadInv, IsRelevant
<1>2. stack # <<>> => Root \in 1..Len(doc)
  BY <1>1 DEF Reading
<1>3. Root' = IF stack = <<>> THEN Len(doc) + 1 ELSE Root
  BY <1>1, <1>2, Delivered DEF Reading
<1>4. Relevant' = Relevant \union {Len(doc) + 1}
  BY <1>3, Delivered
<1>5. \A i \in Relevant : doc'[i] = doc[i] /\ ~Bad(i)'
  BY <1>1, Delivered
<1> QED BY <1>1, <1>3, <1>4, <1>5

\* Accepts tells the faulty elements from the others.
LEMMA AcceptsTells ==
  ASSUME IInv, ReadInv, NEW n, NEW wrong, wrong \in BOOLEAN, n # CharData, Deliver(n, wrong), SeesTag(n),
         NEW m, m = Len(doc) + 1
  PROVE  /\ IF stack = <<>> THEN n = "Response" ELSE InsideLoop
         /\ Bad(m)' <=> ~Accepts(n, wrong)
<1>1. Reading /\ Len(stack) \in Nat /\ Len(doc) \in Nat /\ (stack # <<>> <=> Len(stack) > 0)
      /\ Relevant \in SUBSET (1..Len(doc)) /\ outcome = "reading"
      /\ (open # <<>> <=> Len(open) > 0) /\ Len(open) \in Nat
  BY Delivered, ListLength DEF IInv, ReadInv, IsRelevant
<1>2. /\ doc'[m].name = n /\ doc'[m].wrong = wrong
      /\ doc'[m].parent = IF open = <<>> THEN 0 ELSE open[Len(open)]
      /\ \A i \in 1..Len(doc) : doc'[i] = doc[i]
  BY Delivered
<1>3. CASE stack = <<>>
  <2>1. n = "Response"
    BY <1>3 DEF SeesTag
  <2>2. Root' = m
    BY <1>3, <2>1, RelevantItem
  <2>3. Bad(m)' <=> wrong
    BY <1>2, <2>1, <2>2 DEF Bad
  <2> QED BY <1>3, <2>1, <2>3 DEF Accepts
<1>4. CASE stack # <<>>
  <2>1. skipping = 0 /\ NameOf(stack[Len(stack)]) \in Loops
    BY <1>4 DEF SeesTag, Last
  <2>2. open # <<>> /\ open[Len(open)] = stack[Len(stack)].at
    BY <1>1, <1>4, <2>1, LoopEnds DEF Last
  <2>3. open[Len(open)] \in Relevant /\ open[Len(open)] \in 1..Len(doc)
    <3>1. Len(stack) \in 1..Len(stack) /\ \A k \in 1..Len(stack) : stack[k].at \in Relevant
      BY <1>1, <1>4 DEF Reading
    <3> QED BY <1>1, <2>2, <3>1
  <2>4. InsideLoop
    BY <2>1, <2>2, <2>3 DEF InsideLoop, NameOf
  <2>5. Root' # m
    <3>1. Root' = Root /\ Root = stack[1].at /\ Root \in Relevant
      BY <1>1, <1>4, <2>4, RelevantItem DEF Reading
    <3> QED BY <1>1, <3>1
  <2>6. doc'[doc'[m].parent].name = NameOf(stack[Len(stack)])
    BY <1>2, <2>2, <2>3 DEF NameOf
  <2> DEFINE around == NameOf(stack[Len(stack)])
  <2>7. Accepts(n, wrong) <=> IF around = "Client" THEN n = "Identity" \/ (n = "Parameter" /\ ~wrong)
                             ELSE n \in Nodes /\ (wrong => n = "Hangup")
    BY <1>4 DEF Accepts, Last
  <2>8. Bad(m)' <=> \/ around # "Client" /\ n \notin Nodes
                    \/ around = "Client" /\ n \notin {"Parameter", "Identity"}
                    \/ wrong /\ n \notin {"Hangup", "Identity"}
    BY <1>2, <2>5, <2>6 DEF Bad
  <2>9. "Identity" \notin Nodes
    BY DEF Nodes, TextLeaves, Voices, Targets, Addresses, Rooms, Skipped
  <2> HIDE DEF around
  <2>10. Bad(m)' <=> ~Accepts(n, wrong)
    BY <2>7, <2>8, <2>9
  <2> QED BY <1>4, <2>4, <2>10
<1> QED BY <1>3, <1>4

LEMMA ReadStep ==
  ASSUME IInv, ReadInv, [Next]_vars
  PROVE  ReadInv'
<1>1. /\ Len(doc) \in Nat /\ Len(open) \in Nat /\ Len(stack) \in Nat /\ skipping \in Nat
      /\ IsList(doc) /\ IsList(open) /\ IsList(stack)
      /\ (stack # <<>> <=> Len(stack) > 0) /\ (open # <<>> <=> Len(open) > 0)
      /\ (stack = <<>> => skipping = 0)
      /\ Numbered /\ IsRelevant(Relevant) /\ Relevant \in SUBSET (1..Len(doc))
  BY ListLength DEF IInv, ReadInv, IsRelevant
<1>2. Opened'
  BY OpenedStep
\* What is left to show, when an item is delivered and when none is.
<1>3. ASSUME NEW n, NEW wrong, Deliver(n, wrong), outcome' = "reading", Reading'
      PROVE  ReadInv'
  BY <1>2, <1>3, Delivered DEF ReadInv, Verdict
<1>4. ASSUME doc' = doc, (outcome' = "reading" => Reading'), Verdict'
      PROVE  ReadInv'
  BY <1>1, <1>2, <1>4, Stays DEF ReadInv
<1>5. ASSUME doc' = doc
      PROVE  /\ Root' = Root /\ Relevant' = Relevant /\ Faulty' = Faulty
             /\ \A i \in Relevant : doc'[i].name = doc[i].name /\ (Bad(i)' <=> Bad(i))
  <2>1. Root' = Root /\ Relevant' = Relevant
    BY <1>1, <1>5, Stays
  <2>2. \A i : Bad(i)' <=> Bad(i)
    BY <1>5, <2>1 DEF Bad
  <2> QED BY <1>5, <2>1, <2>2, FaultyIs, FaultyPrimed
<1>6. ASSUME NEW n \in Stray, Ignore(n)  PROVE ReadInv'
  <2>1. /\ Deliver(n, FALSE) /\ stack = <<>> /\ n # "Response" /\ UNCHANGED <<stack, skipping, outcome>>
        /\ outcome = "reading"
    BY <1>6 DEF Ignore, StartTag, SeesTag, Deliver
  <2>2. /\ Root' = Root /\ Relevant' = Relevant /\ Reading
        /\ \A i \in Relevant : doc'[i].name = doc[i].name /\ ~Bad(i)'
    BY <2>1, IgnoredItem
  <2>3. Relevant = {}
    BY <2>1, <2>2 DEF Reading
  <2>4. Reading'
    BY <1>1, <2>1, <2>2, <2>3, ReadsOn
  <2> QED BY <1>3, <2>1, <2>4
<1>7. ASSUME NEW n \in Stray, Swallow(n)  PROVE ReadInv'
  <2>1. /\ Deliver(n, FALSE) /\ stack # <<>> /\ UNCHANGED <<stack, outcome>>
        /\ skipping' = skipping + 1 /\ outcome = "reading"
        /\ skipping = 0 => NameOf(stack[Len(stack)]) \notin Loops
        /\ open' = Append(open, Len(doc) + 1)
    BY <1>7 DEF Swallow, StartTag, SeesTag, Deliver, Last
  <2>2. Reading
    BY <2>1 DEF ReadInv
  <2>3. open # <<>> /\ (skipping = 0 => open[Len(open)] = stack[Len(stack)].at)
    BY <2>1, LoopEnds DEF Last
  <2>4. ~InsideLoop
    <3>1. CASE skipping = 0
      BY <2>1, <2>3, <3>1 DEF InsideLoop, NameOf
    <3>2. CASE skipping > 0
      <4>1. Len(open) \in 1..Len(open) /\ Len(open) > Len(open) - skipping
        BY <1>1, <2>3, <3>2
      <4> QED BY <2>2, <4>1 DEF InsideLoop, Reading
    <3> QED BY <1>1, <3>1, <3>2
  <2>5. /\ Root' = Root /\ Relevant' = Relevant
        /\ \A i \in Relevant : doc'[i].name = doc[i].name /\ ~Bad(i)'
    BY <2>1, <2>4, IgnoredItem
  <2>6. /\ Len(open') = Len(open) + 1 /\ open'[Len(open) + 1] = Len(doc) + 1
        /\ \A q \in 1..Len(open) : open'[q] = open[q]
    BY <1>1, <2>1, PushOnList
  <2>7. ASSUME NEW q \in 1..Len(open'), q > Len(open') - skipping'  PROVE open'[q] \notin Relevant
    <3>1. CASE q = Len(open) + 1
      BY <1>1, <2>6, <3>1
    <3>2. CASE q \in 1..Len(open)
      <4>1. q > Len(open) - skipping
        BY <1>1, <2>1, <2>6, <2>7, <3>2
      <4> QED BY <2>2, <2>6, <3>2, <4>1 DEF Reading
    <3> QED BY <1>1, <2>6, <3>1, <3>2
  <2>8. NameOf(stack[Len(stack)]) \notin Loops
    BY <1>1, <2>1, <2>2 DEF Reading
  <2>9. Reading'
    BY <1>1, <2>1, <2>2, <2>5, <2>7, <2>8, ReadsOn
  <2> QED BY <1>3, <2>1, <2>9
<1>8. ASSUME NEW n \in Names, NEW wrong \in BOOLEAN, Call(n, wrong)  PROVE ReadInv'
  <2>1. /\ Deliver(n, wrong) /\ SeesTag(n) /\ Accepts(n, wrong) /\ n # CharData
        /\ UNCHANGED <<skipping, outcome>> /\ outcome = "reading"
        /\ open' = Append(open, Len(doc) + 1)
        /\ skipping = 0
    BY <1>1, <1>8, NamesAssumption DEF Call, StartTag, SeesTag, Deliver
  <2>2. PICK m : m = Len(doc) + 1
    OBVIOUS
  <2>3. PICK f : f = [at |-> m, text |-> <<>>, identity |-> <<>>, children |-> <<>>]
    OBVIOUS
  <2>4. stack' = Append(stack, f) /\ f.at = m
    BY <1>8, <2>2, <2>3 DEF Call
  <2>5. /\ Len(stack') = Len(stack) + 1 /\ stack'[Len(stack) + 1] = f
        /\ \A k \in 1..Len(stack) : stack'[k] = stack[k]
        /\ Len(open') = Len(open) + 1 /\ open'[Len(open) + 1] = m
    BY <1>1, <2>1, <2>2, <2>4, PushOnList
  <2>6. /\ IF stack = <<>> THEN n = "Response" ELSE InsideLoop
        /\ ~Bad(m)'
    BY <2>1, <2>2, AcceptsTells
  <2>7. /\ Root' = IF stack = <<>> THEN m ELSE Root
        /\ Relevant' = Relevant \union {m} /\ Reading
        /\ \A i \in Relevant : doc'[i].name = doc[i].name /\ ~Bad(i)'
    BY <2>1, <2>2, <2>6, RelevantItem
  <2>8. stack' # <<>>
    BY <1>1, <2>5, EmptySeq
  <2>9. Root' = stack'[1].at
    BY <1>1, <2>4, <2>5, <2>7 DEF Reading
  <2>10. \A k \in 1..Len(stack') : stack'[k].at \in Relevant'
    <3>1. \A k \in 1..Len(stack) : stack[k].at \in Relevant
      BY <2>7 DEF Reading
    <3> QED BY <1>1, <2>4, <2>5, <2>7, <3>1
  <2>11. ASSUME NEW k \in 1..(Len(stack') - 1)  PROVE NameOf(stack[k])' \in Loops
    <3>1. k \in 1..Len(stack) /\ stack[k].at \in Relevant
      BY <1>1, <2>5, <2>7 DEF Reading
    <3>2. NameOf(stack[k])' = NameOf(stack[k])
      BY <2>5, <2>7, <3>1 DEF NameOf
    <3>3. CASE k < Len(stack)
      BY <1>1, <2>7, <3>1, <3>2, <3>3 DEF Reading
    <3>4. CASE k = Len(stack)
      BY <1>1, <2>1, <3>1, <3>2, <3>4 DEF SeesTag, Last
    <3> QED BY <1>1, <3>1, <3>3, <3>4
  <2>12. Faulty' = {}
    BY <2>6, <2>7, FaultyPrimed
  <2>13. ~ (skipping' > 0) /\ \A q \in 1..Len(open') : ~ (q > Len(open') - skipping')
    BY <1>1, <2>1, <2>5
  <2>14. Reading'
    BY <2>8, <2>9, <2>10, <2>11, <2>12, <2>13 DEF Reading
  <2> QED BY <1>3, <2>1, <2>14
<1>9. ASSUME NEW n \in Names, NEW wrong \in BOOLEAN, Refuse(n, wrong)  PROVE ReadInv'
  <2>1. /\ Deliver(n, wrong) /\ SeesTag(n) /\ ~Accepts(n, wrong) /\ n # CharData
        /\ outcome' = "refused"
    BY <1>1, <1>9, NamesAssumption DEF Refuse, StartTag
  <2>2. PICK m : m = Len(doc) + 1
    OBVIOUS
  <2>3. /\ IF stack = <<>> THEN n = "Response" ELSE InsideLoop
        /\ Bad(m)'
    BY <2>1, <2>2, AcceptsTells
  <2>4. m \in Relevant'
    BY <2>1, <2>2, <2>3, RelevantItem
  <2>5. Faulty' # {}
    BY <2>3, <2>4, FaultyPrimed
  <2>6. Verdict'
    BY <2>1, <2>5 DEF Verdict
  <2> QED BY <1>2, <2>1, <2>6, Delivered DEF ReadInv
<1>10. CASE Text
  <2>1. /\ Deliver(CharData, FALSE) /\ UNCHANGED <<open, skipping, outcome>> /\ outcome = "reading"
    BY <1>10 DEF Text, Deliver
  <2>2. Len(stack') = Len(stack) /\ \A k \in 1..Len(stack) : stack'[k].at = stack[k].at
    <3>1. CASE stack' = stack
      BY <3>1
    <3>2. CASE stack # <<>> /\ stack' = [stack EXCEPT ![Len(stack)].text = Append(@, Len(doc) + 1)]
      <4>1. DOMAIN stack = 1..Len(stack) /\ DOMAIN stack' = DOMAIN stack
        BY <1>1, <3>2, LenProperties DEF IsList
      <4>2. stack' = [k \in DOMAIN stack |-> stack'[k]]
        BY <3>2
      <4>3. Len(stack') = Len(stack)
        BY <1>1, <4>2, SameLength
      <4>4. \A k \in 1..Len(stack) : stack'[k].at = stack[k].at
        BY <3>2, <4>1
      <4> QED BY <4>3, <4>4
    <3> QED BY <1>10, <3>1, <3>2 DEF Text
  <2>3. stack = <<>> \/ ~InsideLoop \/ CharData = CharData
    OBVIOUS
  <2>4. /\ Root' = Root /\ Relevant' = Relevant /\ Reading
        /\ \A i \in Relevant : doc'[i].name = doc[i].name /\ ~Bad(i)'
    BY <2>1, IgnoredItem
  <2>5. IsList(stack')
    BY Step DEF IInv
  <2>6. stack' = <<>> <=> stack = <<>>
    BY <1>1, <2>2, <2>5, ListLength
  <2>7. Reading'
    BY <1>1, <2>1, <2>2, <2>4, <2>6, ReadsOn DEF Reading
  <2> QED BY <1>3, <2>1, <2>7
<1>11. CASE EndOfSwallowed
  <2>1. /\ EndTag /\ skipping > 0 /\ skipping' = skipping - 1 /\ UNCHANGED <<stack, outcome, doc>>
        /\ outcome = "reading" /\ open # <<>>
    BY <1>11 DEF EndOfSwallowed, EndTag
  <2>2. Len(open') = Len(open) - 1 /\ \A q \in 1..(Len(open) - 1) : open'[q] = open[q]
    BY <1>1, <2>1, PopFromList DEF EndTag
  <2>3. Reading
    BY <2>1 DEF ReadInv
  <2>4. \A i \in Relevant : ~Bad(i)
    BY <2>3, FaultyIs DEF Reading
  <2>5. \A q \in 1..Len(open') : q > Len(open') - skipping' => open'[q] \notin Relevant
    <3>1. Len(open') - skipping' = Len(open) - skipping
      BY <1>1, <2>1, <2>2
    <3>2. \A q \in 1..Len(open') : q \in 1..Len(open) /\ open'[q] = open[q]
      BY <1>1, <2>2
    <3> QED BY <2>3, <3>1, <3>2 DEF Reading
  <2>6. Reading'
    <3>1. stack # <<>> /\ NameOf(stack[Len(stack)]) \notin Loops
      BY <1>1, <2>1, <2>3 DEF Reading
    <3> QED BY <1>1, <1>5, <2>1, <2>3, <2>4, <2>5, <3>1, ReadsOn
  <2> QED BY <1>4, <2>1, <2>6 DEF Verdict
<1>12. CASE Return
  <2> DEFINE callers == Front(stack)
  <2>1. EndTag /\ stack # <<>> /\ skipping = 0 /\ skipping' = 0 /\ doc' = doc /\ outcome = "reading"
    BY <1>12 DEF Return, EndTag
  <2>2. Reading
    BY <2>1 DEF ReadInv
  <2>3. /\ IsList(callers) /\ Len(callers) = Len(stack) - 1
        /\ \A k \in 1..(Len(stack) - 1) : callers[k] = stack[k]
    BY <1>1, <2>1, PopFromList
  <2>4. CASE callers = <<>>
    <3>1. outcome' = "parsed"
      BY <1>12, <2>4 DEF Return
    <3>2. Faulty' = {}
      BY <1>5, <2>1, <2>2 DEF Reading
    <3> QED BY <1>4, <2>1, <3>1, <3>2 DEF Verdict
  <2>5. CASE callers # <<>>
    <3>1. PICK f : f = Attach(callers[Len(callers)], Last(stack))
      OBVIOUS
    <3>2. stack' = [callers EXCEPT ![Len(callers)] = f] /\ outcome' = outcome
      BY <1>12, <2>5, <3>1 DEF Return
    <3>3. f.at = callers[Len(callers)].at
      <4>1. "at" \in DOMAIN callers[Len(callers)]
        <5>1. Len(callers) \in 1..(Len(stack) - 1)
          BY <1>1, <2>1, <2>3, <2>5, ListLength
        <5> QED BY <1>1, <2>3, <5>1 DEF IInv, Frames
      <4> QED BY <3>1, <4>1 DEF Attach
    <3> HIDE DEF callers
    <3>4. /\ DOMAIN callers = 1..Len(callers) /\ Len(callers) \in Nat /\ Len(callers) > 0
      BY <2>3, <2>5, ListLength, LenProperties DEF IsList
    <3>5. /\ stack' = [k \in DOMAIN callers |-> stack'[k]]
          /\ \A k \in 1..Len(callers) : stack'[k] = IF k = Len(callers) THEN f ELSE callers[k]
      BY <3>2, <3>4
    <3>6. IsList(stack') /\ Len(stack') = Len(callers)
      BY <2>3, <3>5, SameLength
    <3>7. stack' # <<>>
      BY <3>4, <3>6, EmptySeq
    <3>8. \A k \in 1..Len(stack') : stack'[k].at = stack[k].at
      BY <2>3, <3>3, <3>5, <3>6
    <3>9. \A i \in Relevant : ~Bad(i)
      BY <2>2, FaultyIs DEF Reading
    <3>10. Len(open') = Len(open) - 1
      BY <1>1, <2>1, PopFromList DEF EndTag
    <3>11. ~ (skipping' > 0) /\ \A q \in 1..Len(open') : ~ (q > Len(open') - skipping')
      BY <1>1, <2>1, <3>10
    <3>12. Reading'
      BY <1>1, <1>5, <2>1, <2>2, <2>3, <3>4, <3>6, <3>7, <3>8, <3>9, <3>11, ReadsOn
    <3> QED BY <1>4, <2>1, <3>2, <3>12 DEF Verdict
  <2> QED BY <2>4, <2>5
<1>13. CASE IgnoreEnd
  <2>1. EndTag /\ UNCHANGED <<stack, skipping, outcome, doc>> /\ outcome = "reading"
    BY <1>13 DEF IgnoreEnd, EndTag
  <2>2. stack = <<>> /\ Reading
    BY <1>13, <2>1, LoopEnds DEF IgnoreEnd, ReadInv
  <2>3. Relevant = {}
    BY <2>2 DEF Reading
  <2>4. Reading'
    BY <1>1, <1>5, <2>1, <2>2, <2>3, ReadsOn
  <2> QED BY <1>4, <2>1, <2>4 DEF Verdict
<1>14. CASE EndOfInput
  <2>1. /\ outcome = "reading" /\ doc' = doc
        /\ outcome' = IF open = <<>> THEN "refused" ELSE "syntax error"
    BY <1>14 DEF EndOfInput
  <2>2. open = <<>> => Root = 0
    BY <2>1, LoopEnds DEF ReadInv, Reading
  <2> QED BY <1>4, <1>5, <2>1, <2>2 DEF Verdict
<1>15. CASE UNCHANGED vars
  <2>1. UNCHANGED <<doc, open, stack, skipping, outcome>>
    BY <1>15 DEF vars
  <2>2. outcome = "reading" => Reading'
    <3>1. SUFFICES ASSUME outcome = "reading"  PROVE Reading'
      OBVIOUS
    <3>2. Reading /\ \A i \in Relevant : ~Bad(i)
      BY <3>1, FaultyIs DEF ReadInv, Reading
    <3> QED BY <1>1, <1>5, <2>1, <3>2, ReadsOn DEF Reading
  <2> QED BY <1>4, <1>5, <2>1, <2>2 DEF ReadInv, Verdict
<1> QED BY <1>6, <1>7, <1>8, <1>9, <1>10, <1>11, <1>12, <1>13, <1>14, <1>15 DEF Next
-----------------------------------------------------------------------------
(* The TwiML of each element                                               *)

Words(i) == {j \in Inside(i) : doc[j].name = CharData}

Parts(i) == ElementsIn(i) \ Ids(i)

LEMMA WordsAre ==
  \A i : /\ WordsIn(i) = Listed(Len(doc), Words(i))
         /\ WordsIn(i)' = Listed(Len(doc'), Words(i)')
  BY DEF WordsIn, InOrder, Words, Listed, Listing, IsListing

LEMMA PartsAre ==
  \A i : /\ PartsOf(i) = IF doc[i].name \in Loops THEN Listed(Len(doc), Parts(i)) ELSE <<>>
         /\ PartsOf(i)' = IF doc'[i].name \in Loops THEN Listed(Len(doc'), Parts(i)') ELSE <<>>
  BY DEF PartsOf, InOrder, Parts, Listed, Listing, IsListing

IsNode(node) == node = [i \in 1..Len(doc) |-> Written(i, node)]

Node == CHOOSE node : IsNode(node)

LEMMA MeaningIs == Meaning = Node[Root]
  BY DEF Meaning, Node, IsNode

\* What is inside of an element comes after it.
LEMMA InsideComesLater ==
  ASSUME IsList(doc), Numbered, NEW i \in 1..Len(doc)
  PROVE  /\ ElementsIn(i) \in SUBSET ((i + 1)..Len(doc))
         /\ Words(i) \in SUBSET ((i + 1)..Len(doc))
         /\ Ids(i) \in SUBSET ElementsIn(i) /\ Parts(i) \in SUBSET ElementsIn(i)
<1>1. Len(doc) \in Nat
  BY ListLength
<1>2. ASSUME NEW j \in Inside(i)  PROVE j \in (i + 1)..Len(doc)
  BY <1>1 DEF Inside, Numbered
<1> QED BY <1>2 DEF ElementsIn, Words, Ids, Parts

LEMMA PartsAreElements ==
  ASSUME IsList(doc), Numbered, NEW i \in 1..Len(doc)
  PROVE  /\ Len(PartsOf(i)) \in Nat
         /\ \A k \in 1..Len(PartsOf(i)) : PartsOf(i)[k] \in ElementsIn(i)
<1>1. Len(doc) \in Nat /\ Parts(i) \in SUBSET (1..Len(doc)) /\ Parts(i) \in SUBSET ElementsIn(i)
  BY ListLength, InsideComesLater
<1>2. CASE doc[i].name \in Loops
  <2>1. PartsOf(i) = Listed(Len(doc), Parts(i))
    BY <1>2, PartsAre
  <2>2. PartsOf(i) \in Seq(Parts(i))
    BY <1>1, <2>1, ListedMembers
  <2> QED BY <1>1, <2>2, LenProperties, ElementOfSeq
<1>3. CASE doc[i].name \notin Loops
  <2>1. PartsOf(i) = <<>>
    BY <1>3, PartsAre
  <2> QED BY <2>1, EmptySeq
<1> QED BY <1>2, <1>3

LEMMA WrittenAgree ==
  ASSUME IsList(doc), Numbered, NEW i \in 1..Len(doc), NEW f, NEW g,
         \A j \in ElementsIn(i) : f[j] = g[j]
  PROVE  Written(i, f) = Written(i, g)
<1>1. [k \in 1..Len(PartsOf(i)) |-> f[PartsOf(i)[k]]] = [k \in 1..Len(PartsOf(i)) |-> g[PartsOf(i)[k]]]
  BY PartsAreElements
<1> QED BY <1>1 DEF Written

\* The recursion of Meaning has a solution: from the last item to the first.
LEMMA NodeExists ==
  ASSUME IsList(doc), Numbered
  PROVE  IsNode(Node)
<1> DEFINE n == Len(doc)
           From(m) == {i \in 1..n : i > n - m}
           W == {m \in Nat : \E f : \A i \in From(m) : f[i] = Written(i, f)}
<1>0. n \in Nat
  BY ListLength
<1>1. 0 \in W
  <2>1. From(0) = {}
    BY <1>0
  <2> HIDE DEF From
  <2> QED BY <2>1
<1>2. ASSUME NEW m \in Nat, m \in W  PROVE m + 1 \in W
  <2>1. PICK f : \A i \in From(m) : f[i] = Written(i, f)
    BY <1>2
  <2> DEFINE g == [i \in 1..n |-> Written(i, f)]
  <2>2. ASSUME NEW i \in From(m + 1)  PROVE g[i] = Written(i, g)
    <3>1. i \in 1..n /\ \A j \in (i + 1)..n : j \in From(m) /\ j \in 1..n
      BY <1>0
    <3>2. ElementsIn(i) \in SUBSET ((i + 1)..n)
      BY <3>1, InsideComesLater
    <3>3. \A j \in ElementsIn(i) : f[j] = Written(j, f) /\ g[j] = Written(j, f)
      BY <2>1, <3>1, <3>2
    <3>4. g[i] = Written(i, f)
      BY <3>1
    <3> HIDE DEF g, n, From
    <3>5. Written(i, f) = Written(i, g)
      BY <3>1, <3>3, WrittenAgree DEF n
    <3> QED BY <3>4, <3>5
  <2> HIDE DEF g, From
  <2> QED BY <2>2
<1>3. n \in W
  <2> HIDE DEF W
  <2> QED BY <1>0, <1>1, <1>2, Numbers
<1>4. PICK f : \A i \in 1..n : f[i] = Written(i, f)
  <2>1. From(n) = 1..n
    BY <1>0
  <2> HIDE DEF From
  <2> QED BY <1>3, <2>1
<1> DEFINE g == [i \in 1..n |-> f[i]]
<1>5. ASSUME NEW i \in 1..n  PROVE g[i] = Written(i, g)
  <2>1. ElementsIn(i) \in SUBSET ((i + 1)..n) /\ i \in Nat
    BY <1>0, InsideComesLater
  <2>2. \A j \in ElementsIn(i) : f[j] = g[j]
    BY <1>0, <2>1
  <2>3. g[i] = Written(i, f)
    BY <1>4
  <2> HIDE DEF g
  <2> QED BY <2>2, <2>3, WrittenAgree
<1>6. g = [i \in 1..n |-> g[i]]
  OBVIOUS
<1> HIDE DEF g
<1>7. IsNode(g)
  BY <1>5, <1>6 DEF IsNode
<1> QED BY <1>7 DEF Node

LEMMA NodeExistsNext == IsList(doc)' /\ Numbered' => IsNode(Node)'
<1>1. IsList(doc) /\ Numbered => IsNode(Node)
  BY NodeExists
<1>2. (IsList(doc) /\ Numbered => IsNode(Node))'
  BY <1>1, PTL
<1> QED BY <1>2

\* An element that is as it was, with all that is inside of it, means what it
\* meant.
LEMMA NodeStays ==
  ASSUME IsList(doc), Numbered, IsList(doc)', Numbered', Len(doc) <= Len(doc'),
         NEW D \in SUBSET (1..Len(doc)),
         \A i \in D : /\ doc'[i].name = doc[i].name
                       /\ TextOf(i)' = TextOf(i) /\ PartsOf(i)' = PartsOf(i)
                       /\ WordsIn(i)' = WordsIn(i) /\ ElementsIn(i)' = ElementsIn(i)
                       /\ ElementsIn(i) \subseteq D
  PROVE  \A i \in D : Node'[i] = Node[i]
<1> DEFINE W == {m \in Nat : \A i \in D : i > Len(doc) - m => Node'[i] = Node[i]}
<1>0. Len(doc) \in Nat /\ Len(doc') \in Nat
  <2>1. IsList(doc')
    BY DEF IsList
  <2> QED BY <2>1, ListLength
<1>1. IsNode(Node) /\ IsNode(Node)'
  BY NodeExists, NodeExistsNext
<1>2. \A i \in D : Node[i] = Written(i, Node)
  BY <1>1 DEF IsNode
<1>3. \A i \in D : Node'[i] = Written(i, Node)'
  BY <1>0, <1>1 DEF IsNode
<1>4. 0 \in W
  BY <1>0
<1>5. ASSUME NEW m \in Nat, m \in W  PROVE m + 1 \in W
  <2> SUFFICES ASSUME NEW i \in D, i > Len(doc) - (m + 1)  PROVE Node'[i] = Node[i]
    OBVIOUS
  <2>1. /\ Len(PartsOf(i)) \in Nat
        /\ \A k \in 1..Len(PartsOf(i)) : PartsOf(i)[k] \in ElementsIn(i)
        /\ ElementsIn(i) \in SUBSET ((i + 1)..Len(doc))
    BY PartsAreElements, InsideComesLater
  <2>2. \A j \in ElementsIn(i) : Node'[j] = Node[j]
    <3>1. \A j \in ElementsIn(i) : j \in D /\ j > Len(doc) - m
      BY <1>0, <2>1
    <3> QED BY <1>5, <3>1
  <2>3. [k \in 1..Len(PartsOf(i)) |-> Node'[PartsOf(i)[k]]]
        = [k \in 1..Len(PartsOf(i)) |-> Node[PartsOf(i)[k]]]
    BY <2>1, <2>2
  <2>4. Written(i, Node)' = Written(i, Node)
    BY <2>3 DEF Written
  <2> QED BY <1>2, <1>3, <2>4
<1>6. Len(doc) \in W
  <2> HIDE DEF W
  <2> QED BY <1>0, <1>4, <1>5, Numbers
<1>7. \A i \in D : i > Len(doc) - Len(doc)
  BY <1>0
<1> QED BY <1>6, <1>7
-----------------------------------------------------------------------------
(* Each frame holds what its element has inside of it that has ended       *)

Opens == {open[q] : q \in 1..Len(open)}

LastId(i) == Max(Ids(i))

EndedIds(a) == Ids(a) \ Opens

LastEndedId(a) == Max(EndedIds(a))

EndedParts(a) == Listed(Len(doc), Parts(a) \ Opens)

FrameOf(a) ==
  [at |-> a,
   text |-> IF doc[a].name \in TextReaders THEN WordsIn(a) ELSE <<>>,
   identity |-> IF doc[a].name # "Client" \/ EndedIds(a) = {} THEN <<>>
                ELSE WordsIn(LastEndedId(a)),
   children |-> IF doc[a].name \in Loops
                THEN [k \in 1..Len(EndedParts(a)) |-> Node[EndedParts(a)[k]]] ELSE <<>>]

FramesAre ==
  \A k \in 1..Len(stack), a \in 1..Len(doc) : stack[k].at = a => stack[k] = FrameOf(a)

\* These operators after a step, for an element that is given.
LEMMA TextIs ==
  \A i, x : x = LastId(i) =>
    TextOf(i) = IF doc[i].name = "Client" /\ Ids(i) # {} /\ WordsIn(x) # <<>> THEN WordsIn(x)
                ELSE IF doc[i].name \in TextLeaves \union {"Client"} THEN WordsIn(i) ELSE <<>>
  BY DEF TextOf, LastId

LEMMA TextIsNext ==
  \A i, x : x = Max(Ids(i)') =>
    TextOf(i)' = IF doc'[i].name = "Client" /\ Ids(i)' # {} /\ WordsIn(x)' # <<>> THEN WordsIn(x)'
                 ELSE IF doc'[i].name \in TextLeaves \union {"Client"} THEN WordsIn(i)' ELSE <<>>
<1>1. (\A i, x : x = LastId(i) =>
        TextOf(i) = IF doc[i].name = "Client" /\ Ids(i) # {} /\ WordsIn(x) # <<>> THEN WordsIn(x)
                    ELSE IF doc[i].name \in TextLeaves \union {"Client"} THEN WordsIn(i) ELSE <<>>)'
  BY TextIs, PTL
<1>2. \A i : LastId(i)' = Max(Ids(i)')
  BY DEF LastId, Max
<1> QED BY <1>1, <1>2

LEMMA FrameIs ==
  \A a, x : x = LastEndedId(a) =>
    FrameOf(a) = [at |-> a,
       text |-> IF doc[a].name \in TextReaders THEN WordsIn(a) ELSE <<>>,
       identity |-> IF doc[a].name # "Client" \/ EndedIds(a) = {} THEN <<>> ELSE WordsIn(x),
       children |-> IF doc[a].name \in Loops
                    THEN [k \in 1..Len(EndedParts(a)) |-> Node[EndedParts(a)[k]]] ELSE <<>>]
  BY DEF FrameOf

LEMMA FrameIsNext ==
  \A a, x, s, E : E = Ids(a)' \ Opens' /\ x = Max(E) /\ s = Listed(Len(doc'), Parts(a)' \ Opens') =>
    FrameOf(a)' = [at |-> a,
       text |-> IF doc'[a].name \in TextReaders THEN WordsIn(a)' ELSE <<>>,
       identity |-> IF doc'[a].name # "Client" \/ E = {} THEN <<>> ELSE WordsIn(x)',
       children |-> IF doc'[a].name \in Loops THEN [k \in 1..Len(s) |-> Node'[s[k]]] ELSE <<>>]
<1>1. (\A a, x : x = LastEndedId(a) =>
    FrameOf(a) = [at |-> a,
       text |-> IF doc[a].name \in TextReaders THEN WordsIn(a) ELSE <<>>,
       identity |-> IF doc[a].name # "Client" \/ EndedIds(a) = {} THEN <<>> ELSE WordsIn(x),
       children |-> IF doc[a].name \in Loops
                    THEN [k \in 1..Len(EndedParts(a)) |-> Node[EndedParts(a)[k]]] ELSE <<>>])'
  BY FrameIs, PTL
<1>2. \A a : LastEndedId(a)' = Max(Ids(a)' \ Opens') /\ EndedIds(a)' = Ids(a)' \ Opens'
  BY DEF LastEndedId, EndedIds, Max
<1>3. \A a : EndedParts(a)' = Listed(Len(doc'), Parts(a)' \ Opens')
  BY DEF EndedParts, Listed, Listing, IsListing
<1> QED BY <1>1, <1>2, <1>3

\* What is inside of the elements when item m is delivered inside of p.
LEMMA ItemInside ==
  ASSUME IInv, ReadInv, NEW n, NEW wrong, Deliver(n, wrong),
         NEW m, m = Len(doc) + 1, NEW p, p = IF open = <<>> THEN 0 ELSE open[Len(open)]
  PROVE  \A a :
           /\ Words(a)' = Words(a) \union {i \in {m} : a = p /\ n = CharData}
           /\ ElementsIn(a)' = ElementsIn(a) \union {i \in {m} : a = p /\ n # CharData}
           /\ Ids(a)' = Ids(a) \union {i \in {m} : a = p /\ n # CharData /\ n = "Identity"}
           /\ Parts(a)' = Parts(a) \union {i \in {m} : a = p /\ n # CharData /\ n # "Identity"}
<1>1. /\ Len(doc) \in Nat /\ Len(doc') = m /\ doc'[m].name = n /\ doc'[m].parent = p
      /\ \A i \in 1..Len(doc) : doc'[i] = doc[i]
  BY Delivered, ListLength DEF IInv
<1>2. SUFFICES ASSUME NEW a
               PROVE  /\ Words(a)' = Words(a) \union {i \in {m} : a = p /\ n = CharData}
                      /\ ElementsIn(a)' = ElementsIn(a) \union {i \in {m} : a = p /\ n # CharData}
                      /\ Ids(a)' = Ids(a) \union {i \in {m} : a = p /\ n # CharData /\ n = "Identity"}
                      /\ Parts(a)' = Parts(a) \union {i \in {m} : a = p /\ n # CharData /\ n # "Identity"}
  OBVIOUS
<1>3. m \notin 1..Len(doc) /\ \A i : i \in 1..m <=> i \in 1..Len(doc) \/ i = m
  BY <1>1
<1>4. \A i : i \in Inside(a)' <=> i \in Inside(a) \/ (i = m /\ a = p)
  BY <1>1, <1>3 DEF Inside
<1>5. \A i : i \in Words(a)' <=> i \in Words(a) \/ (i = m /\ a = p /\ n = CharData)
  BY <1>1, <1>3, <1>4 DEF Words, Inside
<1>6. \A i : i \in ElementsIn(a)' <=> i \in ElementsIn(a) \/ (i = m /\ a = p /\ n # CharData)
  BY <1>1, <1>3, <1>4 DEF ElementsIn, Inside
<1>7. \A i \in ElementsIn(a) : i \in 1..Len(doc)
  BY DEF ElementsIn, Inside
<1>8. \A i : i \in Ids(a)' <=> i \in Ids(a) \/ (i = m /\ a = p /\ n # CharData /\ n = "Identity")
  BY <1>1, <1>3, <1>6, <1>7 DEF Ids
<1>9. \A i : i \in Parts(a)' <=> i \in Parts(a) \/ (i = m /\ a = p /\ n # CharData /\ n # "Identity")
  <2>1. \A i : i \in Parts(a)' <=> i \in ElementsIn(a)' /\ i \notin Ids(a)'
    BY DEF Parts
  <2>2. \A i : i \in Parts(a) <=> i \in ElementsIn(a) /\ i \notin Ids(a)
    BY DEF Parts
  <2>3. m \notin ElementsIn(a) /\ m \notin Ids(a)
    BY <1>3, <1>7 DEF Ids
  <2>4. ASSUME NEW i, i # m
        PROVE  i \in Parts(a)' <=> i \in Parts(a)
    <3>1. (i \in ElementsIn(a)' <=> i \in ElementsIn(a)) /\ (i \in Ids(a)' <=> i \in Ids(a))
      BY <1>6, <1>8, <2>4
    <3> QED BY <2>1, <2>2, <3>1
  <2>5. m \in Parts(a)' <=> a = p /\ n # CharData /\ n # "Identity"
    BY <1>6, <1>8, <2>1, <2>3, Zenon
  <2>6. m \notin Parts(a)
    BY <2>2, <2>3
  <2> QED BY <2>4, <2>5, <2>6
<1> QED BY <1>5, <1>6, <1>8, <1>9

\* The words of the elements.
LEMMA WordsGrow ==
  ASSUME IInv, ReadInv, NEW n, NEW wrong, Deliver(n, wrong),
         NEW m, m = Len(doc) + 1, NEW p, p = IF open = <<>> THEN 0 ELSE open[Len(open)],
         NEW a \in 1..m
  PROVE  WordsIn(a)' = IF a = m THEN <<>>
                       ELSE IF a = p /\ n = CharData THEN Append(WordsIn(a), m) ELSE WordsIn(a)
<1>1. Len(doc) \in Nat /\ Len(doc') = m /\ m \in Nat /\ p \in 0..Len(doc)
  <2>1. open # <<>> => Len(open) \in 1..Len(open)
    BY ListLength DEF IInv
  <2>2. Len(doc) \in Nat /\ Len(doc') = m
    BY Delivered, ListLength DEF IInv
  <2>3. \A q \in 1..Len(open) : open[q] \in 1..Len(doc)
    BY DEF ReadInv, Opened
  <2> QED BY <2>1, <2>2, <2>3
<1>2. WordsIn(a)' = Listed(m, Words(a)') /\ WordsIn(a) = Listed(Len(doc), Words(a))
  BY <1>1, WordsAre
<1>3. Words(a)' = Words(a) \union {i \in {m} : a = p /\ n = CharData}
  BY ItemInside
<1>4. Words(a) \in SUBSET (1..Len(doc))
  BY DEF Words, Inside
<1>5. Listed(m, Words(a)) = Listed(Len(doc), Words(a))
  BY <1>1, <1>4, ListedAgree
<1>6. CASE a = m
  <2>1. Words(a) = {}
    <3>1. \A i \in 1..Len(doc) : doc[i].parent # m
      BY <1>1 DEF ReadInv, Numbered
    <3> QED BY <1>6, <3>1 DEF Words, Inside
  <2>2. Words(a)' = {}
    BY <1>1, <1>3, <1>6, <2>1
  <2>3. Listed(m, {}) = <<>>
    BY <1>1, ListedMembers
  <2> QED BY <1>2, <1>6, <2>2, <2>3
<1>7. CASE a # m /\ a = p /\ n = CharData
  <2>1. Words(a)' = Words(a) \union {m}
    BY <1>3, <1>7
  <2>2. Listed(m, Words(a) \union {m}) = Append(Listed(m, Words(a)), m)
    <3>1. m \in 1..m /\ \A i \in Words(a) : i \in 1..(m - 1)
      BY <1>1, <1>4
    <3> QED BY <1>1, <3>1, ListedWith
  <2> QED BY <1>2, <1>5, <1>7, <2>1, <2>2
<1>8. CASE a # m /\ ~ (a = p /\ n = CharData)
  <2>1. Words(a)' = Words(a)
    BY <1>3, <1>8
  <2> QED BY <1>2, <1>5, <1>8, <2>1
<1> QED BY <1>6, <1>7, <1>8

\* What an element that has ended has inside of it has ended.
LEMMA EndedInside ==
  ASSUME IInv, ReadInv, NEW i \in (1..Len(doc)) \ Opens
  PROVE  ElementsIn(i) \subseteq (1..Len(doc)) \ Opens
<1>1. SUFFICES ASSUME NEW q \in 1..Len(open), open[q] \in ElementsIn(i)  PROVE FALSE
  BY DEF ElementsIn, Inside, Opens
<1>2. doc[open[q]].parent = i /\ doc[open[q]].parent = (IF q = 1 THEN 0 ELSE open[q - 1])
  BY <1>1 DEF ElementsIn, Inside, ReadInv, Opened
<1>3. Len(open) \in Nat /\ Len(doc) \in Nat
  BY ListLength DEF IInv
<1>4. q # 1 /\ q - 1 \in 1..Len(open)
  BY <1>2, <1>3
<1> QED BY <1>2, <1>4 DEF Opens

LEMMA EndedMeans ==
  ASSUME IInv, ReadInv, NEW n, NEW wrong, Deliver(n, wrong)
  PROVE  \A i \in (1..Len(doc)) \ Opens : Node'[i] = Node[i]
<1> DEFINE D == (1..Len(doc)) \ Opens
<1>1. PICK m : m = Len(doc) + 1
  OBVIOUS
<1>2. PICK p : p = IF open = <<>> THEN 0 ELSE open[Len(open)]
  OBVIOUS
<1>3. /\ Len(doc) \in Nat /\ Len(doc') = m /\ IsList(doc) /\ Numbered /\ Numbered' /\ IsList(doc)'
      /\ \A i \in 1..Len(doc) : doc'[i] = doc[i]
  <2>1. IsList(doc')
    BY PushOnList DEF Deliver, IInv
  <2> QED BY <1>1, <2>1, Delivered, ListLength DEF IInv, ReadInv, IsList
<1>4. \A i \in D : i # p
  <2>1. open # <<>> => Len(open) \in 1..Len(open)
    BY ListLength DEF IInv
  <2> QED BY <1>2, <1>3, <2>1 DEF Opens
<1>5. ASSUME NEW i \in D
      PROVE  /\ doc'[i].name = doc[i].name
             /\ TextOf(i)' = TextOf(i) /\ PartsOf(i)' = PartsOf(i)
             /\ WordsIn(i)' = WordsIn(i) /\ ElementsIn(i)' = ElementsIn(i)
             /\ ElementsIn(i) \subseteq D
  <2>1. i # p /\ doc'[i] = doc[i] /\ i \in 1..Len(doc)
    BY <1>3, <1>4
  <2>2. \A j \in D : WordsIn(j)' = WordsIn(j)
    <3>1. \A j \in D : j \in 1..m /\ j # m /\ j # p
      BY <1>1, <1>3, <1>4
    <3> QED BY <1>1, <1>2, <3>1, WordsGrow
  <2>3. Ids(i)' = Ids(i) /\ Parts(i)' = Parts(i) /\ ElementsIn(i)' = ElementsIn(i)
    <3>1. /\ ElementsIn(i)' = ElementsIn(i) \union {j \in {m} : i = p /\ n # CharData}
          /\ Ids(i)' = Ids(i) \union {j \in {m} : i = p /\ n # CharData /\ n = "Identity"}
          /\ Parts(i)' = Parts(i) \union {j \in {m} : i = p /\ n # CharData /\ n # "Identity"}
      BY <1>1, <1>2, ItemInside
    <3> QED BY <2>1, <3>1
  <2>4. PartsOf(i)' = PartsOf(i)
    <3>1. Parts(i) \in SUBSET (1..Len(doc))
      BY DEF Parts, ElementsIn, Inside
    <3>2. Listed(m, Parts(i)) = Listed(Len(doc), Parts(i))
      BY <1>1, <1>3, <3>1, ListedAgree
    <3> QED BY <1>3, <2>1, <2>3, <3>2, PartsAre
  <2>5. ElementsIn(i) \subseteq D
    BY EndedInside
  <2>6. TextOf(i)' = TextOf(i)
    <3>1. PICK x : x = LastId(i)
      OBVIOUS
    <3>2. x = Max(Ids(i)')
      BY <2>3, <3>1 DEF LastId
    <3>3. CASE Ids(i) = {}
      BY <2>1, <2>2, <2>3, <3>1, <3>2, <3>3, TextIs, TextIsNext
    <3>4. CASE Ids(i) # {}
      <4>1. Ids(i) \in SUBSET Nat /\ \A t \in Ids(i) : t <= Len(doc)
        BY <1>3 DEF Ids, ElementsIn, Inside
      <4>2. x \in Ids(i)
        BY <1>3, <3>1, <3>4, <4>1, Greatest DEF LastId
      <4>3. WordsIn(x)' = WordsIn(x)
        BY <2>2, <2>5, <4>2 DEF Ids
      <4> QED BY <2>1, <2>2, <2>3, <3>1, <3>2, <4>3, TextIs, TextIsNext
    <3> QED BY <3>3, <3>4
  <2> QED BY <2>1, <2>2, <2>3, <2>4, <2>5, <2>6
<1>6. Len(doc) <= Len(doc')
  BY <1>1, <1>3
<1>7. D \in SUBSET (1..Len(doc))
  OBVIOUS
<1> HIDE DEF D
<1>8. \A i \in D : Node'[i] = Node[i]
  BY <1>3, <1>5, <1>6, <1>7, NodeStays
<1> QED BY <1>8 DEF D

LEMMA EmptyFunction == ASSUME NEW F(_)  PROVE [k \in 1..0 |-> F(k)] = <<>>
OBVIOUS

\* The frame of an element when the decoder delivers an item.
LEMMA FrameAfterItem ==
  ASSUME IInv, ReadInv, NEW n, NEW wrong, Deliver(n, wrong),
         NEW m, m = Len(doc) + 1, NEW p, p = IF open = <<>> THEN 0 ELSE open[Len(open)],
         open' = IF n = CharData THEN open ELSE Append(open, m),
         NEW a \in 1..Len(doc)
  PROVE  FrameOf(a)' = IF a = p /\ n = CharData /\ doc[a].name \in TextReaders
                       THEN [FrameOf(a) EXCEPT !.text = Append(@, m)] ELSE FrameOf(a)
<1>1. /\ Len(doc) \in Nat /\ Len(doc') = m /\ m \in Nat /\ doc'[a] = doc[a]
      /\ Len(open) \in Nat /\ (open # <<>> => Len(open) \in 1..Len(open))
  BY Delivered, ListLength DEF IInv
<1>2. Opens' = Opens \union {i \in {m} : n # CharData}
  <2>1. CASE n = CharData
    BY <2>1 DEF Opens
  <2>2. CASE n # CharData
    <3>1. open' = Append(open, m)
      BY <2>2
    <3>2. /\ Len(open') = Len(open) + 1 /\ open'[Len(open) + 1] = m
          /\ \A q \in 1..Len(open) : open'[q] = open[q]
      BY <3>1, PushOnList DEF IInv
    <3>3. \A q : q \in 1..Len(open') <=> q \in 1..Len(open) \/ q = Len(open) + 1
      BY <1>1, <3>2
    <3>4. Len(open) + 1 \in 1..Len(open')
      BY <1>1, <3>2
    <3> QED BY <2>2, <3>2, <3>3, <3>4 DEF Opens
  <2> QED BY <2>1, <2>2
<1>3. /\ Ids(a) \in SUBSET (1..Len(doc)) /\ Parts(a) \in SUBSET (1..Len(doc))
      /\ m \notin Ids(a) /\ m \notin Parts(a)
  BY <1>1 DEF Parts, Ids, ElementsIn, Inside
<1>4. /\ Ids(a)' = Ids(a) \union {i \in {m} : a = p /\ n # CharData /\ n = "Identity"}
      /\ Parts(a)' = Parts(a) \union {i \in {m} : a = p /\ n # CharData /\ n # "Identity"}
  BY ItemInside
<1>5. Ids(a)' \ Opens' = EndedIds(a)
  BY <1>2, <1>3, <1>4 DEF EndedIds
<1>6. Parts(a)' \ Opens' = Parts(a) \ Opens
  BY <1>2, <1>3, <1>4
<1>7. Listed(Len(doc'), Parts(a)' \ Opens') = EndedParts(a)
  <2>1. Listed(m, Parts(a) \ Opens) = Listed(Len(doc), Parts(a) \ Opens)
    BY <1>1, <1>3, ListedAgree
  <2> QED BY <1>1, <1>6, <2>1 DEF EndedParts
<1>8. /\ Len(EndedParts(a)) \in Nat
      /\ \A k \in 1..Len(EndedParts(a)) : EndedParts(a)[k] \in (1..Len(doc)) \ Opens
  <2>1. EndedParts(a) \in Seq(Parts(a) \ Opens)
    BY <1>1, <1>3, ListedMembers DEF EndedParts
  <2> QED BY <1>3, <2>1, LenProperties, ElementOfSeq
<1>9. [k \in 1..Len(EndedParts(a)) |-> Node'[EndedParts(a)[k]]]
      = [k \in 1..Len(EndedParts(a)) |-> Node[EndedParts(a)[k]]]
  BY <1>8, EndedMeans
<1>10. PICK x : x = LastEndedId(a)
  OBVIOUS
<1>11. EndedIds(a) # {} => WordsIn(x)' = WordsIn(x)
  <2>1. SUFFICES ASSUME EndedIds(a) # {}  PROVE WordsIn(x)' = WordsIn(x)
    OBVIOUS
  <2>2. EndedIds(a) \in SUBSET Nat /\ \A t \in EndedIds(a) : t <= Len(doc)
    BY <1>1, <1>3 DEF EndedIds
  <2>3. x \in EndedIds(a)
    BY <1>1, <1>10, <2>1, <2>2, Greatest DEF LastEndedId
  <2>4. p # x
    <3>1. open # <<>> => p \in Opens
      BY <1>1 DEF Opens
    <3> QED BY <1>3, <2>3, <3>1 DEF EndedIds
  <2>5. x \in 1..m /\ x # m
    BY <1>1, <1>3, <2>3 DEF EndedIds
  <2> QED BY <2>4, <2>5, WordsGrow
<1>12. WordsIn(a)' = IF a = p /\ n = CharData THEN Append(WordsIn(a), m) ELSE WordsIn(a)
  <2>1. a \in 1..m /\ a # m
    BY <1>1
  <2> QED BY <2>1, WordsGrow
<1>13. x = Max(EndedIds(a))
  BY <1>10 DEF LastEndedId
<1>14. FrameOf(a)' =
         [at |-> a,
          text |-> IF doc'[a].name \in TextReaders THEN WordsIn(a)' ELSE <<>>,
          identity |-> IF doc'[a].name # "Client" \/ EndedIds(a) = {} THEN <<>> ELSE WordsIn(x)',
          children |-> IF doc'[a].name \in Loops
                       THEN [k \in 1..Len(EndedParts(a)) |-> Node'[EndedParts(a)[k]]] ELSE <<>>]
  BY <1>5, <1>7, <1>13, FrameIsNext
<1>15. FrameOf(a) =
         [at |-> a,
          text |-> IF doc[a].name \in TextReaders THEN WordsIn(a) ELSE <<>>,
          identity |-> IF doc[a].name # "Client" \/ EndedIds(a) = {} THEN <<>> ELSE WordsIn(x),
          children |-> IF doc[a].name \in Loops
                       THEN [k \in 1..Len(EndedParts(a)) |-> Node[EndedParts(a)[k]]] ELSE <<>>]
  BY <1>10, FrameIs
<1>16. PICK c : c = IF doc[a].name \in Loops
                    THEN [k \in 1..Len(EndedParts(a)) |-> Node[EndedParts(a)[k]]] ELSE <<>>
  OBVIOUS
<1>17. PICK d : d = IF doc[a].name # "Client" \/ EndedIds(a) = {} THEN <<>> ELSE WordsIn(x)
  OBVIOUS
<1>18. PICK w : w = IF doc[a].name \in TextReaders THEN WordsIn(a) ELSE <<>>
  OBVIOUS
<1>19. FrameOf(a) = [at |-> a, text |-> w, identity |-> d, children |-> c]
  BY <1>15, <1>16, <1>17, <1>18
<1>20. PICK v : v = IF doc'[a].name \in TextReaders THEN WordsIn(a)' ELSE <<>>
  OBVIOUS
<1>21. FrameOf(a)' = [at |-> a, text |-> v, identity |-> d, children |-> c]
  BY <1>1, <1>9, <1>11, <1>14, <1>16, <1>17, <1>20
<1>22. v = IF a = p /\ n = CharData /\ doc[a].name \in TextReaders THEN Append(w, m) ELSE w
  BY <1>1, <1>12, <1>18, <1>20
<1>23. PICK f : f = FrameOf(a)
  OBVIOUS
<1>24. [f EXCEPT !.text = Append(@, m)] = [at |-> a, text |-> Append(w, m), identity |-> d, children |-> c]
  <2>1. f = [at |-> a, text |-> w, identity |-> d, children |-> c]
    BY <1>19, <1>23
  <2>2. PICK u : u = Append(w, m)
    OBVIOUS
  <2>3. f.text = w
    BY <2>1
  <2>4. [f EXCEPT !.text = Append(f.text, m)] = [f EXCEPT !.text = u]
    BY <2>2, <2>3
  <2>5. [f EXCEPT !.text = u] = [at |-> a, text |-> u, identity |-> d, children |-> c]
    BY <2>1
  <2> QED BY <2>2, <2>4, <2>5
<1> QED BY <1>19, <1>21, <1>22, <1>23, <1>24

\* The frame of a new element is empty.
LEMMA FrameOfNew ==
  ASSUME IInv, ReadInv, NEW n, NEW wrong, Deliver(n, wrong),
         NEW m, m = Len(doc) + 1
  PROVE  FrameOf(m)' = [at |-> m, text |-> <<>>, identity |-> <<>>, children |-> <<>>]
<1>1. PICK p : p = IF open = <<>> THEN 0 ELSE open[Len(open)]
  OBVIOUS
<1>2. Len(doc) \in Nat /\ Len(doc') = m /\ m \in Nat
  BY Delivered, ListLength DEF IInv
<1>3. p # m
  <2>1. open # <<>> => Len(open) \in 1..Len(open)
    BY ListLength DEF IInv
  <2>2. \A q \in 1..Len(open) : open[q] \in 1..Len(doc)
    BY DEF ReadInv, Opened
  <2> QED BY <1>1, <1>2, <2>1, <2>2
<1>4. Ids(m) = {} /\ Parts(m) = {}
  <2>1. \A i \in 1..Len(doc) : doc[i].parent # m
    BY <1>2 DEF ReadInv, Numbered
  <2> QED BY <2>1 DEF Parts, Ids, ElementsIn, Inside
<1>5. Ids(m)' = {} /\ Parts(m)' = {}
  <2>1. /\ Ids(m)' = Ids(m) \union {i \in {m} : m = p /\ n # CharData /\ n = "Identity"}
        /\ Parts(m)' = Parts(m) \union {i \in {m} : m = p /\ n # CharData /\ n # "Identity"}
    BY <1>1, ItemInside
  <2> QED BY <1>3, <1>4, <2>1
<1>6. PICK E : E = Ids(m)' \ Opens'
  OBVIOUS
<1>7. PICK s : s = Listed(Len(doc'), Parts(m)' \ Opens')
  OBVIOUS
<1>8. E = {}
  BY <1>5, <1>6
<1>9. s = <<>>
  <2>1. Parts(m)' \ Opens' = {}
    BY <1>5
  <2>2. Listed(m, {}) = <<>>
    BY <1>2, ListedMembers
  <2> QED BY <1>2, <1>7, <2>1, <2>2
<1>10. WordsIn(m)' = <<>>
  <2>1. m \in 1..m
    BY <1>2
  <2> QED BY <1>1, <2>1, WordsGrow
<1>11. [k \in 1..Len(s) |-> Node'[s[k]]] = <<>>
  BY <1>9, EmptyFunction
<1>12. PICK x : x = Max(E)
  OBVIOUS
<1>13. FrameOf(m)' =
         [at |-> m,
          text |-> IF doc'[m].name \in TextReaders THEN WordsIn(m)' ELSE <<>>,
          identity |-> IF doc'[m].name # "Client" \/ E = {} THEN <<>> ELSE WordsIn(x)',
          children |-> IF doc'[m].name \in Loops THEN [k \in 1..Len(s) |-> Node'[s[k]]] ELSE <<>>]
  BY <1>6, <1>7, <1>12, FrameIsNext
<1> QED BY <1>8, <1>10, <1>11, <1>13

\* What a list of elements with one more is mapped to.
LEMMA MapAppended ==
  ASSUME NEW S, NEW u \in Seq(S), NEW p, NEW M, NEW N, M[p] = N[p],
         \A k \in 1..Len(u) : M[u[k]] = N[u[k]]
  PROVE  [k \in 1..Len(Append(u, p)) |-> M[Append(u, p)[k]]]
         = Append([k \in 1..Len(u) |-> N[u[k]]], N[p])
<1>1. /\ Len(u) \in Nat /\ Len(Append(u, p)) = Len(u) + 1
      /\ \A k \in 1..Len(u) : Append(u, p)[k] = u[k]
      /\ Append(u, p)[Len(u) + 1] = p
  <2>1. IsList(u)
    BY AnySequence
  <2> QED BY <2>1, ListLength, PushOnList
<1>2. PICK c : c = [k \in 1..Len(u) |-> N[u[k]]]
  OBVIOUS
<1>3. DOMAIN c = 1..Len(u) /\ Len(c) = Len(u) /\ IsList(c)
  <2>1. c \in [1..Len(u) -> ToSet(c)]
    BY <1>2 DEF ToSet
  <2>2. c \in Seq(ToSet(c))
    BY <1>1, <2>1, SeqDef
  <2>3. Len(c) \in Nat /\ 1..Len(c) = 1..Len(u)
    BY <2>1, <2>2, LenProperties
  <2> QED BY <1>1, <2>1, <2>2, <2>3 DEF IsList
<1>4. PICK d : d = Append(c, N[p])
  OBVIOUS
<1>5. /\ IsList(d) /\ Len(d) = Len(u) + 1 /\ d[Len(u) + 1] = N[p]
      /\ \A k \in 1..Len(u) : d[k] = N[u[k]]
  BY <1>2, <1>3, <1>4, PushOnList
<1>6. d = [k \in 1..(Len(u) + 1) |-> d[k]]
  BY <1>5, LenProperties DEF IsList
<1>7. \A k \in 1..(Len(u) + 1) : d[k] = M[Append(u, p)[k]]
  <2>1. ASSUME NEW k \in 1..(Len(u) + 1)  PROVE d[k] = M[Append(u, p)[k]]
    <3>1. CASE k = Len(u) + 1
      BY <1>1, <1>5, <3>1
    <3>2. CASE k \in 1..Len(u)
      BY <1>1, <1>5, <3>2
    <3> QED BY <1>1, <3>1, <3>2
  <2> QED BY <2>1
<1>8. d = [k \in 1..(Len(u) + 1) |-> M[Append(u, p)[k]]]
  BY <1>6, <1>7
<1> QED BY <1>1, <1>2, <1>4, <1>8

\* Nothing means anything else while the document does not grow.
LEMMA SameDocument ==
  ASSUME IsList(doc), Numbered, doc' = doc
  PROVE  /\ \A i : /\ WordsIn(i)' = WordsIn(i) /\ ElementsIn(i)' = ElementsIn(i)
                  /\ Ids(i)' = Ids(i) /\ Parts(i)' = Parts(i)
         /\ \A i \in 1..Len(doc) : Node'[i] = Node[i]
<1>1. ASSUME NEW i
      PROVE  /\ Words(i)' = Words(i) /\ ElementsIn(i)' = ElementsIn(i)
             /\ Ids(i)' = Ids(i) /\ Parts(i)' = Parts(i)
  BY DEF Words, ElementsIn, Ids, Parts, Inside
<1>2. ASSUME NEW i  PROVE WordsIn(i)' = WordsIn(i)
  BY <1>1, WordsAre
<1>3. ASSUME NEW i  PROVE PartsOf(i)' = PartsOf(i)
  BY <1>1, PartsAre
<1>4. ASSUME NEW i  PROVE TextOf(i)' = TextOf(i)
  <2>1. PICK x : x = LastId(i)
    OBVIOUS
  <2>2. x = Max(Ids(i)')
    BY <1>1, <2>1 DEF LastId
  <2>3. TextOf(i) = IF doc[i].name = "Client" /\ Ids(i) # {} /\ WordsIn(x) # <<>> THEN WordsIn(x)
                    ELSE IF doc[i].name \in TextLeaves \union {"Client"} THEN WordsIn(i) ELSE <<>>
    BY <2>1, TextIs
  <2>4. TextOf(i)' = IF doc'[i].name = "Client" /\ Ids(i)' # {} /\ WordsIn(x)' # <<>> THEN WordsIn(x)'
                     ELSE IF doc'[i].name \in TextLeaves \union {"Client"} THEN WordsIn(i)' ELSE <<>>
    BY <2>2, TextIsNext
  <2>5. WordsIn(x)' = WordsIn(x) /\ WordsIn(i)' = WordsIn(i) /\ Ids(i)' = Ids(i)
    BY <1>1, <1>2
  <2> QED BY <2>3, <2>4, <2>5
<1>5. IsList(doc)' /\ Numbered' /\ Len(doc) <= Len(doc')
  BY ListLength DEF IsList, Numbered
<1>6. \A i \in 1..Len(doc) : ElementsIn(i) \subseteq 1..Len(doc)
  BY DEF ElementsIn, Inside
<1>7. PICK D : D = 1..Len(doc)
  OBVIOUS
<1>8. \A i \in D : Node'[i] = Node[i]
  BY <1>1, <1>2, <1>3, <1>4, <1>5, <1>6, <1>7, NodeStays
<1> QED BY <1>1, <1>2, <1>7, <1>8

\* The frame of an element stays the same if what has ended inside of it does.
LEMMA FrameAgain ==
  ASSUME IsList(doc), Numbered, doc' = doc, NEW a \in 1..Len(doc),
         doc[a].name \in Loops => ElementsIn(a) \ Opens' = ElementsIn(a) \ Opens
  PROVE  FrameOf(a)' = FrameOf(a)
<1>1. /\ Len(doc) \in Nat
      /\ Ids(a) \in SUBSET (1..Len(doc)) /\ Parts(a) \in SUBSET (1..Len(doc))
      /\ Ids(a) \in SUBSET ElementsIn(a) /\ Parts(a) \in SUBSET ElementsIn(a)
  BY ListLength DEF Parts, Ids, ElementsIn, Inside
<1>2. PICK E : E = Ids(a)' \ Opens'
  OBVIOUS
<1>3. PICK s : s = Listed(Len(doc'), Parts(a)' \ Opens')
  OBVIOUS
<1>4. PICK x : x = Max(E)
  OBVIOUS
<1>5. FrameOf(a)' =
         [at |-> a,
          text |-> IF doc'[a].name \in TextReaders THEN WordsIn(a)' ELSE <<>>,
          identity |-> IF doc'[a].name # "Client" \/ E = {} THEN <<>> ELSE WordsIn(x)',
          children |-> IF doc'[a].name \in Loops THEN [k \in 1..Len(s) |-> Node'[s[k]]] ELSE <<>>]
  BY <1>2, <1>3, <1>4, FrameIsNext
<1>6. WordsIn(a)' = WordsIn(a) /\ WordsIn(x)' = WordsIn(x)
  BY SameDocument
<1>7. CASE doc[a].name \notin Loops
  <2>1. doc[a].name # "Client"
    BY <1>7 DEF Loops
  <2> QED BY <1>5, <1>6, <1>7, <2>1 DEF FrameOf
<1>8. CASE doc[a].name \in Loops
  <2>1. E = EndedIds(a) /\ Parts(a)' \ Opens' = Parts(a) \ Opens
    <3>1. \A i \in ElementsIn(a) : i \in Opens' <=> i \in Opens
      BY <1>8
    <3> QED BY <1>1, <1>2, <3>1, SameDocument DEF EndedIds
  <2>2. s = EndedParts(a)
    BY <1>3, <2>1 DEF EndedParts
  <2>3. \A k \in 1..Len(s) : s[k] \in 1..Len(doc)
    <3>1. s \in Seq(Parts(a) \ Opens)
      BY <1>1, <2>2, ListedMembers DEF EndedParts
    <3> QED BY <1>1, <3>1, ElementOfSeq
  <2>4. [k \in 1..Len(s) |-> Node'[s[k]]] = [k \in 1..Len(s) |-> Node[s[k]]]
    BY <2>3, SameDocument
  <2>5. x = LastEndedId(a)
    BY <1>4, <2>1 DEF LastEndedId
  <2>6. FrameOf(a) =
         [at |-> a,
          text |-> IF doc[a].name \in TextReaders THEN WordsIn(a) ELSE <<>>,
          identity |-> IF doc[a].name # "Client" \/ E = {} THEN <<>> ELSE WordsIn(x),
          children |-> IF doc[a].name \in Loops THEN [k \in 1..Len(s) |-> Node[s[k]]] ELSE <<>>]
    BY <2>1, <2>2, <2>5, FrameIs
  <2>7. PICK c : c = [k \in 1..Len(s) |-> Node[s[k]]]
    OBVIOUS
  <2>8. PICK d : d = IF doc[a].name # "Client" \/ E = {} THEN <<>> ELSE WordsIn(x)
    OBVIOUS
  <2>9. PICK t : t = IF doc[a].name \in TextReaders THEN WordsIn(a) ELSE <<>>
    OBVIOUS
  <2>10. FrameOf(a) = [at |-> a, text |-> t, identity |-> d, children |-> c]
    BY <1>8, <2>6, <2>7, <2>8, <2>9
  <2>11. FrameOf(a)' = [at |-> a, text |-> t, identity |-> d, children |-> c]
    BY <1>5, <1>6, <1>8, <2>4, <2>7, <2>8, <2>9
  <2> QED BY <2>10, <2>11
<1> QED BY <1>7, <1>8

LEMMA ElementEnds ==
  ASSUME IInv, ReadInv, EndTag, NEW p, p = open[Len(open)]
  PROVE  Opens' = Opens \ {p} /\ p \in Opens
<1>1. /\ Len(open) \in Nat /\ Len(open) > 0 /\ Len(open') = Len(open) - 1
      /\ \A q \in 1..(Len(open) - 1) : open'[q] = open[q]
  BY ListLength, PopFromList DEF IInv, EndTag
<1>2. \A q \in 1..(Len(open) - 1) : open[q] # p
  <2>1. /\ \A q, r \in 1..Len(open) : q < r => open[q] < open[r]
        /\ \A q \in 1..Len(open) : open[q] \in Nat
    BY DEF ReadInv, Opened
  <2>2. ASSUME NEW q \in 1..(Len(open) - 1)  PROVE open[q] # p
    <3>1. open[q] < open[Len(open)] /\ open[q] \in Nat /\ open[Len(open)] \in Nat
      BY <1>1, <2>1
    <3> QED BY <3>1
  <2> QED BY <2>2
<1>3. \A q : q \in 1..Len(open) <=> q \in 1..(Len(open) - 1) \/ q = Len(open)
  BY <1>1
<1>4. Opens' = {open[q] : q \in 1..(Len(open) - 1)}
  BY <1>1 DEF Opens
<1>5. Opens = {open[q] : q \in 1..(Len(open) - 1)} \union {p}
  BY <1>3 DEF Opens
<1> QED BY <1>2, <1>4, <1>5

\* The frame of a loop when the element that is innermost ends inside of it.
LEMMA FrameAfterEnd ==
  ASSUME IInv, ReadInv, EndTag, NEW p, p = open[Len(open)],
         NEW a \in 1..Len(doc), doc[a].name \in Loops, p \in ElementsIn(a),
         doc[p].name = "Identity" => doc[a].name = "Client"
  PROVE  FrameOf(a)' = IF doc[p].name = "Identity" THEN [FrameOf(a) EXCEPT !.identity = WordsIn(p)]
                       ELSE [FrameOf(a) EXCEPT !.children = Append(@, Node[p])]
<1>1. /\ Len(doc) \in Nat /\ IsList(doc) /\ Numbered /\ doc' = doc
      /\ Ids(a) \in SUBSET (1..Len(doc)) /\ Parts(a) \in SUBSET (1..Len(doc))
      /\ Ids(a) \in SUBSET ElementsIn(a) /\ Parts(a) \in SUBSET ElementsIn(a)
  BY ListLength DEF IInv, ReadInv, EndTag, Parts, Ids, ElementsIn, Inside
<1>2. /\ Len(open) \in Nat /\ Len(open) > 0 /\ Len(open') = Len(open) - 1
      /\ \A q \in 1..(Len(open) - 1) : open'[q] = open[q]
  BY ListLength, PopFromList DEF IInv, EndTag
<1>3. Opens' = Opens \ {p} /\ p \in Opens
  BY ElementEnds
\* What has ended inside of a began before p.
<1>4. \A i \in ElementsIn(a) : i <= p
  <2>1. a = IF Len(open) = 1 THEN 0 ELSE open[Len(open) - 1]
    <3>1. \A q \in 1..Len(open) : doc[open[q]].parent = IF q = 1 THEN 0 ELSE open[q - 1]
      BY DEF ReadInv, Opened
    <3>2. doc[p].parent = a
      BY DEF ElementsIn, Inside
    <3> QED BY <1>2, <3>1, <3>2
  <2>2. Len(open) - 1 \in 1..(Len(open) - 1) /\ Len(open) - 1 + 1 = Len(open)
    BY <1>2, <2>1
  <2>3. open[Len(open) - 1] = a
    BY <2>1, <2>2
  <2>4. \A q \in 1..(Len(open) - 1), j \in 1..Len(doc) : doc[j].parent = open[q] => j <= open[q + 1]
    BY DEF ReadInv, Opened
  <2>5. \A j \in 1..Len(doc) : doc[j].parent = open[Len(open) - 1] => j <= open[Len(open)]
    BY <2>2, <2>4
  <2> QED BY <2>3, <2>5 DEF ElementsIn, Inside
<1>5. p \in 1..Len(doc)
  BY DEF ElementsIn, Inside
<1>6. PICK E : E = Ids(a)' \ Opens'
  OBVIOUS
<1>7. PICK s : s = Listed(Len(doc'), Parts(a)' \ Opens')
  OBVIOUS
<1>8. PICK x : x = Max(E)
  OBVIOUS
<1>9. FrameOf(a)' =
         [at |-> a,
          text |-> IF doc'[a].name \in TextReaders THEN WordsIn(a)' ELSE <<>>,
          identity |-> IF doc'[a].name # "Client" \/ E = {} THEN <<>> ELSE WordsIn(x)',
          children |-> IF doc'[a].name \in Loops THEN [k \in 1..Len(s) |-> Node'[s[k]]] ELSE <<>>]
  <2>1. \A y, r, D : D = Ids(a)' \ Opens' /\ y = Max(D) /\ r = Listed(Len(doc'), Parts(a)' \ Opens') =>
          FrameOf(a)' =
            [at |-> a,
             text |-> IF doc'[a].name \in TextReaders THEN WordsIn(a)' ELSE <<>>,
             identity |-> IF doc'[a].name # "Client" \/ D = {} THEN <<>> ELSE WordsIn(y)',
             children |-> IF doc'[a].name \in Loops THEN [k \in 1..Len(r) |-> Node'[r[k]]] ELSE <<>>]
    BY FrameIsNext
  <2> QED BY <1>6, <1>7, <1>8, <2>1
<1>10. PICK y : y = LastEndedId(a)
  OBVIOUS
<1>11. PICK u : u = EndedParts(a)
  OBVIOUS
<1>12. FrameOf(a) =
         [at |-> a,
          text |-> IF doc[a].name \in TextReaders THEN WordsIn(a) ELSE <<>>,
          identity |-> IF doc[a].name # "Client" \/ EndedIds(a) = {} THEN <<>> ELSE WordsIn(y),
          children |-> IF doc[a].name \in Loops THEN [k \in 1..Len(u) |-> Node[u[k]]] ELSE <<>>]
  BY <1>10, <1>11, FrameIs
<1>13. WordsIn(a)' = WordsIn(a) /\ WordsIn(x)' = WordsIn(x) /\ Ids(a)' = Ids(a) /\ Parts(a)' = Parts(a)
  BY <1>1, SameDocument
<1>14. u \in Seq(Parts(a) \ Opens) /\ Len(u) \in Nat /\ \A k \in 1..Len(u) : u[k] \in 1..Len(doc)
  <2>1. u \in Seq(Parts(a) \ Opens)
    BY <1>1, <1>11, ListedMembers DEF EndedParts
  <2> QED BY <1>1, <2>1, LenProperties, ElementOfSeq
<1>15. [k \in 1..Len(u) |-> Node'[u[k]]] = [k \in 1..Len(u) |-> Node[u[k]]]
  BY <1>1, <1>14, SameDocument
<1>16. PICK t : t = IF doc[a].name \in TextReaders THEN WordsIn(a) ELSE <<>>
  OBVIOUS
<1>17. PICK c : c = [k \in 1..Len(u) |-> Node[u[k]]]
  OBVIOUS
<1>18. PICK d : d = IF doc[a].name # "Client" \/ EndedIds(a) = {} THEN <<>> ELSE WordsIn(y)
  OBVIOUS
<1>19. PICK f : f = FrameOf(a)
  OBVIOUS
<1>20. f = [at |-> a, text |-> t, identity |-> d, children |-> c]
  BY <1>12, <1>16, <1>17, <1>18, <1>19
<1>21. CASE doc[p].name = "Identity"
  <2>1. p \in Ids(a) /\ p \notin Parts(a)
    BY <1>21 DEF Ids, Parts
  <2>2. p \in E /\ E \in SUBSET Ids(a)
    BY <1>3, <1>6, <1>13, <2>1
  <2>3. x = p
    <3>1. E \in SUBSET Nat /\ E # {} /\ \A i \in E : i <= p
      BY <1>1, <1>4, <2>2
    <3>2. x \in E /\ \A i \in E : x >= i
      <4>1. p \in Nat
        BY <1>1, <1>5
      <4> QED BY <1>8, <3>1, <4>1, Greatest
    <3> QED BY <1>4, <1>5, <2>2, <3>1, <3>2
  <2>4. s = u
    <3>1. Parts(a) \ Opens' = Parts(a) \ Opens
      BY <1>3, <2>1
    <3> QED BY <1>1, <1>7, <1>11, <1>13, <3>1 DEF EndedParts
  <2>5. FrameOf(a)' = [at |-> a, text |-> t, identity |-> WordsIn(p), children |-> c]
    BY <1>1, <1>9, <1>13, <1>15, <1>16, <1>17, <1>21, <2>2, <2>3, <2>4
  <2>6. PICK w : w = WordsIn(p)
    OBVIOUS
  <2>7. [f EXCEPT !.identity = w] = [at |-> a, text |-> t, identity |-> w, children |-> c]
    BY <1>20
  <2> QED BY <1>19, <1>21, <2>5, <2>6, <2>7
<1>22. CASE doc[p].name # "Identity"
  <2>1. p \notin Ids(a) /\ p \in Parts(a)
    BY <1>22 DEF Ids, Parts
  <2>2. E = EndedIds(a) /\ x = y
    BY <1>3, <1>6, <1>8, <1>10, <1>13, <2>1 DEF EndedIds, LastEndedId
  <2>3. s = Append(u, p)
    <3>1. Parts(a) \ Opens' = (Parts(a) \ Opens) \union {p}
      BY <1>3, <2>1
    <3>2. \A i \in Parts(a) \ Opens : i \in 1..(p - 1)
      <4>1. ASSUME NEW i \in Parts(a) \ Opens  PROVE i \in 1..(p - 1)
        <5>1. i \in 1..Len(doc) /\ i <= p /\ i # p
          BY <1>1, <1>3, <1>4
        <5> QED BY <1>1, <1>5, <5>1
      <4> QED BY <4>1
    <3>3. PICK T : T = Parts(a) \ Opens
      OBVIOUS
    <3>4. Listed(Len(doc), T \union {p}) = Append(Listed(Len(doc), T), p)
      BY <1>1, <1>5, <3>2, <3>3, ListedWith
    <3> QED BY <1>1, <1>7, <1>11, <1>13, <3>1, <3>3, <3>4 DEF EndedParts
  <2>4. [k \in 1..Len(s) |-> Node'[s[k]]] = Append(c, Node[p])
    <3>1. PICK N, M : N = Node /\ M = Node'
      OBVIOUS
    <3>2. M[p] = N[p] /\ \A k \in 1..Len(u) : M[u[k]] = N[u[k]]
      BY <1>1, <1>5, <1>14, <3>1, SameDocument
    <3> QED BY <1>14, <1>17, <2>3, <3>1, <3>2, MapAppended
  <2>5. FrameOf(a)' = [at |-> a, text |-> t, identity |-> d, children |-> Append(c, Node[p])]
    BY <1>1, <1>9, <1>13, <1>16, <1>18, <2>2, <2>4
  <2>6. PICK v : v = Append(c, Node[p])
    OBVIOUS
  <2>7. f.children = c
    BY <1>20
  <2>8. [f EXCEPT !.children = Append(f.children, Node[p])] = [f EXCEPT !.children = v]
    BY <2>6, <2>7
  <2>9. [f EXCEPT !.children = v] = [at |-> a, text |-> t, identity |-> d, children |-> v]
    BY <1>20
  <2> QED BY <1>19, <1>22, <2>5, <2>6, <2>8, <2>9
<1> QED BY <1>21, <1>22

\* Where the elements of the frames are, and the innermost one that is open.
LEMMA FramesInside ==
  ASSUME IInv, ReadInv, outcome = "reading", NEW k \in 1..Len(stack), NEW p, p = open[Len(open)]
  PROVE  /\ stack[k].at \in 1..Len(doc) /\ stack[k].at \in Relevant /\ p \in 1..Len(doc)
         /\ skipping > 0 \/ k < Len(stack) => stack[k].at # p
         /\ doc[p].parent = stack[k].at => IF skipping = 0 THEN k = Len(stack) - 1
                                            ELSE skipping = 1 /\ k = Len(stack)
         /\ skipping = 0 /\ k = Len(stack) - 1 => doc[p].parent = stack[k].at
<1>1. PICK w : w = Len(open) - (Len(stack) + skipping)
  OBVIOUS
<1>2. /\ Len(stack) \in Nat /\ Len(open) \in Nat /\ skipping \in Nat /\ stack # <<>>
  BY ListLength DEF IInv
<1>3. w \in Nat /\ open[w + k] = stack[k].at /\ w + k \in 1..Len(open)
  <2>1. w >= 0 /\ \A j \in 1..Len(stack) : open[w + j] = stack[j].at
    BY <1>1, <1>2 DEF IInv, InStep
  <2> QED BY <1>1, <1>2, <2>1
<1>4. /\ \A q \in 1..Len(open) : /\ open[q] \in 1..Len(doc)
                                 /\ doc[open[q]].parent = IF q = 1 THEN 0 ELSE open[q - 1]
      /\ \A q, r \in 1..Len(open) : q < r => open[q] < open[r]
  BY DEF ReadInv, Opened
<1>5. Len(doc) \in Nat /\ stack[k].at \in Relevant
  BY ListLength DEF IInv, ReadInv, Reading
<1>6. Len(open) \in 1..Len(open)
  BY <1>2, <1>3
<1>7. \A q \in 1..Len(open) : q < Len(open) => open[q] # p
  <2>1. ASSUME NEW q \in 1..Len(open), q < Len(open)  PROVE open[q] # p
    <3>1. open[q] < p /\ open[q] \in 1..Len(doc)
      BY <1>4, <1>6, <2>1
    <3> QED BY <1>5, <3>1
  <2> QED BY <2>1
<1>8. ASSUME skipping > 0 \/ k < Len(stack)  PROVE stack[k].at # p
  <2>1. w + k < Len(open)
    BY <1>1, <1>2, <1>8
  <2> QED BY <1>3, <1>7, <2>1
<1>9. doc[p].parent = IF Len(open) = 1 THEN 0 ELSE open[Len(open) - 1]
  BY <1>4, <1>6
<1>10. ASSUME doc[p].parent = stack[k].at  PROVE w + k = Len(open) - 1
  <2>1. stack[k].at \in 1..Len(doc)
    BY <1>3, <1>4
  <2>2. Len(open) # 1 /\ open[Len(open) - 1] = open[w + k]
    BY <1>3, <1>5, <1>9, <1>10, <2>1
  <2>3. Len(open) - 1 \in 1..Len(open)
    BY <1>2, <1>6, <2>2
  <2>4. ~ (w + k < Len(open) - 1)
    <3>1. w + k < Len(open) - 1 => open[w + k] < open[Len(open) - 1]
      BY <1>3, <1>4, <2>3
    <3>2. open[w + k] \in Nat
      BY <1>3, <1>4
    <3> QED BY <2>2, <3>1, <3>2
  <2>5. w + k # Len(open)
    <3>1. open[Len(open) - 1] < open[Len(open)] /\ open[Len(open)] \in Nat /\ open[Len(open) - 1] \in Nat
      BY <1>4, <1>6, <2>3
    <3> QED BY <2>2, <3>1
  <2> QED BY <1>2, <1>3, <2>4, <2>5
<1>11. doc[p].parent = stack[k].at => IF skipping = 0 THEN k = Len(stack) - 1
                                      ELSE skipping = 1 /\ k = Len(stack)
  <2>1. w + k = Len(open) - 1 => IF skipping = 0 THEN k = Len(stack) - 1
                                 ELSE skipping = 1 /\ k = Len(stack)
    BY <1>1, <1>2
  <2> QED BY <1>10, <2>1
<1>12. ASSUME skipping = 0, k = Len(stack) - 1  PROVE doc[p].parent = stack[k].at
  <2>1. w + k = Len(open) - 1
    BY <1>1, <1>2, <1>12
  <2>2. Len(open) # 1
    BY <1>2, <1>3, <2>1
  <2>3. open[w + k] = open[Len(open) - 1]
    BY <2>1
  <2> QED BY <1>3, <1>9, <2>2, <2>3
<1>13. stack[k].at \in 1..Len(doc) /\ p \in 1..Len(doc)
  BY <1>3, <1>4, <1>6
<1> QED BY <1>5, <1>8, <1>11, <1>12, <1>13

\* A function whose element ends returns what the element means.
LEMMA NodeOfFrame ==
  ASSUME IInv, ReadInv, outcome = "reading", open # <<>>, NEW a, a = open[Len(open)],
         a \in Relevant, NEW f, f.at = a, f = FrameOf(a), doc[a].name # "Identity"
  PROVE  NodeOf(f) = Node[a]
<1>1. /\ Len(doc) \in Nat /\ IsList(doc) /\ Numbered /\ a \in 1..Len(doc) /\ Reading
      /\ Len(open) \in Nat /\ Len(open) > 0
      /\ \A i \in 1..Len(doc) : i \in Relevant <=> Counts(i, Relevant)
  BY ListLength DEF IInv, ReadInv, IsRelevant
<1>2. ElementsIn(a) \intersect Opens = {}
  <2>1. SUFFICES ASSUME NEW q \in 1..Len(open), open[q] \in ElementsIn(a)  PROVE FALSE
    BY DEF Opens
  <2>2. /\ \A r \in 1..Len(open) : /\ open[r] \in 1..Len(doc)
                                   /\ doc[open[r]].parent = IF r = 1 THEN 0 ELSE open[r - 1]
        /\ \A r, s \in 1..Len(open) : r < s => open[r] < open[s]
    BY DEF ReadInv, Opened
  <2>3. doc[open[q]].parent = a
    BY <2>1 DEF ElementsIn, Inside
  <2>4. q # 1 /\ open[q - 1] = open[Len(open)]
    BY <1>1, <2>2, <2>3
  <2>5. q - 1 \in 1..Len(open) /\ q - 1 < Len(open) /\ Len(open) \in 1..Len(open)
    BY <1>1, <2>4
  <2>6. open[q - 1] < open[Len(open)] /\ open[Len(open)] \in Nat
    BY <2>2, <2>5
  <2> QED BY <2>4, <2>6
<1>3. EndedIds(a) = Ids(a) /\ Parts(a) \ Opens = Parts(a)
  BY <1>2 DEF EndedIds, Ids, Parts
<1>4. PICK x : x = LastId(a)
  OBVIOUS
<1>5. PICK s : s = PartsOf(a)
  OBVIOUS
<1>6. PICK c : c = [k \in 1..Len(s) |-> Node[s[k]]]
  OBVIOUS
<1>7. (IF doc[a].name \in Loops
       THEN [k \in 1..Len(EndedParts(a)) |-> Node[EndedParts(a)[k]]] ELSE <<>>) = c
  <2>1. CASE doc[a].name \in Loops
    <3>1. EndedParts(a) = s
      BY <1>3, <1>5, <2>1, PartsAre DEF EndedParts
    <3> QED BY <1>6, <2>1, <3>1
  <2>2. CASE doc[a].name \notin Loops
    <3>1. s = <<>> /\ Len(s) = 0
      BY <1>5, <2>2, PartsAre, EmptySeq
    <3>2. c = [k \in 1..0 |-> Node[s[k]]]
      BY <1>6, <3>1
    <3> QED BY <2>2, <3>2, EmptyFunction
  <2> QED BY <2>1, <2>2
<1>8. PICK d : d = IF doc[a].name # "Client" \/ Ids(a) = {} THEN <<>> ELSE WordsIn(x)
  OBVIOUS
<1>9. PICK w : w = IF doc[a].name \in TextReaders THEN WordsIn(a) ELSE <<>>
  OBVIOUS
<1>10. f = [at |-> a, text |-> w, identity |-> d, children |-> c]
  <2>1. x = LastEndedId(a)
    BY <1>3, <1>4 DEF LastId, LastEndedId
  <2>2. FrameOf(a) = [at |-> a,
          text |-> IF doc[a].name \in TextReaders THEN WordsIn(a) ELSE <<>>,
          identity |-> IF doc[a].name # "Client" \/ EndedIds(a) = {} THEN <<>> ELSE WordsIn(x),
          children |-> IF doc[a].name \in Loops
                       THEN [k \in 1..Len(EndedParts(a)) |-> Node[EndedParts(a)[k]]] ELSE <<>>]
    BY <2>1, FrameIs
  <2> QED BY <1>3, <1>7, <1>8, <1>9, <2>2
<1>11. f.at = a /\ f.text = w /\ f.identity = d /\ f.children = c
  BY <1>10
<1>12. NodeOf(f) =
         [name |-> doc[a].name,
          text |-> IF doc[a].name = "Dial" THEN <<>> ELSE IF d # <<>> THEN d ELSE w,
          children |-> IF doc[a].name = "Dial" /\ c = <<>> /\ w # <<>>
                       THEN <<[name |-> "Number", text |-> w, children |-> <<>>]>> ELSE c]
  BY <1>11 DEF NodeOf, NameOf
<1>13. Node[a] =
         [name |-> doc[a].name,
          text |-> TextOf(a),
          children |-> IF doc[a].name = "Dial" /\ ElementsIn(a) = {} /\ WordsIn(a) # <<>>
                       THEN <<[name |-> "Number", text |-> WordsIn(a), children |-> <<>>]>> ELSE c]
  <2>1. Node[a] = Written(a, Node)
    BY <1>1, NodeExists DEF IsNode
  <2> QED BY <1>5, <1>6, <2>1 DEF Written
<1>14. TextOf(a) = IF doc[a].name = "Dial" THEN <<>> ELSE IF d # <<>> THEN d ELSE w
  <2>1. TextOf(a) = IF doc[a].name = "Client" /\ Ids(a) # {} /\ WordsIn(x) # <<>> THEN WordsIn(x)
                    ELSE IF doc[a].name \in TextLeaves \union {"Client"} THEN WordsIn(a) ELSE <<>>
    BY <1>4, TextIs
  <2>2. /\ "Dial" \notin TextLeaves \union {"Client"} /\ "Client" \in TextReaders
        /\ doc[a].name # "Dial" => (doc[a].name \in TextReaders <=> doc[a].name \in TextLeaves \union {"Client"})
    BY DEF TextReaders, TextLeaves, Voices, Targets, Addresses, Rooms
  <2>3. CASE doc[a].name = "Dial"
    BY <2>1, <2>2, <2>3
  <2>4. CASE doc[a].name = "Client"
    BY <1>8, <1>9, <2>1, <2>2, <2>4
  <2>5. CASE doc[a].name # "Dial" /\ doc[a].name # "Client"
    BY <1>8, <1>9, <2>1, <2>2, <2>5
  <2> QED BY <2>3, <2>4, <2>5
<1>15. ASSUME doc[a].name = "Dial"
       PROVE  w = WordsIn(a) /\ (c = <<>> <=> ElementsIn(a) = {})
  <2>1. doc[a].name \in TextReaders /\ doc[a].name \in Loops
    BY <1>15 DEF TextReaders, Loops
  <2>2. Ids(a) = {}
    <3>1. SUFFICES ASSUME NEW i \in Ids(a)  PROVE FALSE
      OBVIOUS
    <3>2. i \in 1..Len(doc) /\ doc[i].parent = a /\ doc[i].name # CharData /\ doc[i].name = "Identity"
      BY DEF Ids, ElementsIn, Inside
    <3>3. i \in Relevant
      BY <1>1, <2>1, <3>2 DEF Counts
    <3>4. ~Bad(i)
      BY <1>1, <3>3, FaultyIs DEF Reading
    <3>5. i # Root
      BY <1>1, <3>2, RootIs
    <3>6. "Identity" \notin Nodes
      BY DEF Nodes, TextLeaves, Voices, Targets, Addresses, Rooms, Skipped
    <3> QED BY <1>15, <3>2, <3>4, <3>5, <3>6 DEF Bad
  <2>3. Parts(a) = ElementsIn(a) /\ Parts(a) \in SUBSET (1..Len(doc))
    BY <2>2 DEF Parts, ElementsIn, Inside
  <2>4. s = Listed(Len(doc), Parts(a))
    BY <1>5, <2>1, PartsAre
  <2>5. s \in Seq(Parts(a)) /\ (s = <<>> <=> Parts(a) = {})
    BY <1>1, <2>3, <2>4, ListedMembers
  <2>6. Len(s) \in Nat /\ (s = <<>> <=> Len(s) = 0)
    BY <2>5, EmptySeq, LenProperties
  <2>7. Len(s) # 0 => c # <<>>
    <3>1. SUFFICES ASSUME Len(s) # 0, c = <<>>  PROVE FALSE
      OBVIOUS
    <3>2. 1 \in DOMAIN c
      BY <1>6, <2>6, <3>1
    <3>3. DOMAIN <<>> = {}
      OBVIOUS
    <3> QED BY <3>1, <3>2, <3>3
  <2>8. Len(s) = 0 => c = <<>>
    BY <1>6, EmptyFunction
  <2> QED BY <1>9, <2>1, <2>3, <2>5, <2>6, <2>7, <2>8
<1> QED BY <1>12, <1>13, <1>14, <1>15
-----------------------------------------------------------------------------
(* The tree that Parse returns                                             *)

TreeInv ==
  /\ outcome = "reading" => FramesAre
  /\ outcome = "parsed" => Root \in 1..Len(doc) /\ tree = Meaning

\* A start tag leaves the frames as they are.
LEMMA FramesAtTag ==
  ASSUME IInv, ReadInv, FramesAre, NEW n \in Names \union Stray, NEW wrong, StartTag(n, wrong),
         NEW k \in 1..Len(stack), NEW a, a = stack[k].at
  PROVE  stack[k] = FrameOf(a)'
<1>1. PICK m : m = Len(doc) + 1
  OBVIOUS
<1>2. PICK p : p = IF open = <<>> THEN 0 ELSE open[Len(open)]
  OBVIOUS
<1>3. n # CharData
  BY NamesAssumption
<1>4. Deliver(n, wrong) /\ open' = IF n = CharData THEN open ELSE Append(open, m)
  BY <1>1, <1>3 DEF StartTag
<1>5. a \in 1..Len(doc)
  BY <1>4, FramesInside DEF Deliver
<1>6. FrameOf(a)' = FrameOf(a)
  BY <1>1, <1>2, <1>3, <1>4, <1>5, FrameAfterItem
<1> QED BY <1>5, <1>6 DEF FramesAre

LEMMA FramesStep ==
  ASSUME IInv, ReadInv, outcome = "reading" => FramesAre, [Next]_vars
  PROVE  outcome' = "reading" => FramesAre'
<1> SUFFICES ASSUME outcome' = "reading"  PROVE FramesAre'
  OBVIOUS
<1>1. outcome = "reading" /\ FramesAre
  BY DEF Next, vars, Call, Refuse, Ignore, Swallow, Text, StartTag, Deliver, EndOfSwallowed, Return,
         IgnoreEnd, EndTag, EndOfInput
<1>2. /\ Len(stack) \in Nat /\ (stack # <<>> <=> Len(stack) > 0) /\ Len(doc) \in Nat
      /\ IsList(stack) /\ IsList(doc) /\ Numbered /\ Reading /\ Relevant \in SUBSET (1..Len(doc))
  BY <1>1, ListLength DEF IInv, ReadInv, IsRelevant
<1>3. SUFFICES ASSUME NEW k \in 1..Len(stack'), NEW a \in 1..Len(doc'), stack'[k].at = a
               PROVE  stack'[k] = FrameOf(a)'
  BY DEF FramesAre
<1>4. PICK p : p = open[Len(open)]
  OBVIOUS
<1>5. CASE stack' = <<>>
  BY <1>3, <1>5, EmptySeq
<1>6. ASSUME NEW n \in Stray, Ignore(n)  PROVE stack'[k] = FrameOf(a)'
  BY <1>5, <1>6 DEF Ignore
<1>7. ASSUME NEW n \in Stray, Swallow(n)  PROVE stack'[k] = FrameOf(a)'
  BY <1>1, <1>3, <1>7, FramesAtTag DEF Swallow
<1>8. ASSUME NEW n \in Names, NEW wrong \in BOOLEAN, Call(n, wrong)  PROVE stack'[k] = FrameOf(a)'
  <2>1. PICK m : m = Len(doc) + 1
    OBVIOUS
  <2>2. PICK f : f = [at |-> m, text |-> <<>>, identity |-> <<>>, children |-> <<>>]
    OBVIOUS
  <2>3. StartTag(n, wrong) /\ stack' = Append(stack, f)
    BY <1>8, <2>1, <2>2 DEF Call
  <2>4. /\ Len(stack') = Len(stack) + 1 /\ stack'[Len(stack) + 1] = f
        /\ \A j \in 1..Len(stack) : stack'[j] = stack[j]
    BY <1>2, <2>3, PushOnList
  <2>5. CASE k \in 1..Len(stack)
    <3>1. stack'[k] = stack[k]
      BY <2>4, <2>5
    <3> QED BY <1>1, <1>3, <2>3, <2>5, <3>1, FramesAtTag
  <2>6. CASE k = Len(stack) + 1
    <3>1. a = m /\ stack'[k] = f
      BY <1>3, <2>2, <2>4, <2>6
    <3>2. FrameOf(m)' = f
      BY <2>1, <2>2, <2>3, FrameOfNew DEF StartTag
    <3> QED BY <3>1, <3>2
  <2> QED BY <1>2, <2>4, <2>5, <2>6
<1>9. CASE Text
  <2>1. /\ Deliver(CharData, FALSE) /\ open' = open /\ open # <<>> /\ skipping' = skipping
        /\ stack' = IF stack # <<>> /\ skipping = 0 /\ NameOf(Last(stack)) \in TextReaders
                    THEN [stack EXCEPT ![Len(stack)].text = Append(@, Len(doc) + 1)]
                    ELSE stack
    BY <1>9 DEF Text
  <2>2. PICK m : m = Len(doc) + 1
    OBVIOUS
  <2>3. p = IF open = <<>> THEN 0 ELSE open[Len(open)]
    BY <1>4, <2>1
  <2>4. ASSUME NEW b \in 1..Len(doc)
        PROVE  FrameOf(b)' = IF b = p /\ doc[b].name \in TextReaders
                             THEN [FrameOf(b) EXCEPT !.text = Append(@, m)] ELSE FrameOf(b)
    BY <2>1, <2>2, <2>3, FrameAfterItem
  <2>5. ASSUME NEW j \in 1..Len(stack)
        PROVE  /\ stack[j].at \in 1..Len(doc)
               /\ skipping > 0 \/ j < Len(stack) => stack[j].at # p
    BY <1>1, <1>4, FramesInside
  <2>6. CASE stack # <<>> /\ skipping = 0 /\ NameOf(Last(stack)) \in TextReaders
    <3>1. PICK w : w = Append(stack[Len(stack)].text, m)
      OBVIOUS
    <3>2. stack' = [stack EXCEPT ![Len(stack)].text = w]
      BY <2>1, <2>2, <2>6, <3>1
    <3>3. DOMAIN stack = 1..Len(stack) /\ DOMAIN stack' = DOMAIN stack
      BY <1>2, <3>2, LenProperties DEF IsList
    <3>4. stack' = [j \in DOMAIN stack |-> stack'[j]]
      BY <3>2
    <3>5. Len(stack') = Len(stack)
      BY <1>2, <3>4, SameLength
    <3>6. CASE k < Len(stack)
      <4>1. k \in 1..Len(stack) /\ k # Len(stack)
        BY <1>2, <3>5, <3>6
      <4>2. stack'[k] = stack[k]
        BY <3>2, <3>3, <4>1
      <4>3. a \in 1..Len(doc) /\ a # p /\ stack[k] = FrameOf(a)
        BY <1>1, <1>3, <2>5, <3>6, <4>1, <4>2 DEF FramesAre
      <4> QED BY <2>4, <4>2, <4>3
    <3>7. CASE k = Len(stack)
      <4>1. stack'[k] = [stack[k] EXCEPT !.text = w]
        BY <1>2, <2>6, <3>2, <3>3, <3>7
      <4>2. k \in 1..Len(stack) /\ stack[k].at = a
        <5>1. "at" \in DOMAIN stack[k]
          BY <1>2, <3>5 DEF IInv, Frames
        <5> QED BY <1>3, <3>5, <4>1, <5>1
      <4>3. a \in 1..Len(doc) /\ stack[k] = FrameOf(a)
        BY <1>1, <2>5, <4>2 DEF FramesAre
      <4>4. a = p
        BY <1>1, <1>4, <2>6, <3>7, <4>2, LoopEnds DEF Last
      <4>5. doc[a].name \in TextReaders
        BY <2>6, <3>7, <4>2 DEF NameOf, Last
      <4>6. FrameOf(a)' = [FrameOf(a) EXCEPT !.text = Append(@, m)]
        BY <2>4, <4>3, <4>4, <4>5
      <4> QED BY <3>1, <3>7, <4>1, <4>3, <4>6
    <3> QED BY <1>2, <3>5, <3>6, <3>7
  <2>7. CASE ~ (stack # <<>> /\ skipping = 0 /\ NameOf(Last(stack)) \in TextReaders)
    <3>1. stack' = stack
      BY <2>1, <2>7
    <3>2. a \in 1..Len(doc) /\ stack[k] = FrameOf(a)
      BY <1>1, <1>3, <2>5, <3>1 DEF FramesAre
    <3>3. ~ (a = p /\ doc[a].name \in TextReaders)
      <4>1. CASE skipping > 0 \/ k < Len(stack)
        BY <1>3, <2>5, <3>1, <4>1
      <4>2. CASE skipping = 0 /\ k = Len(stack)
        <5>1. stack # <<>> /\ Last(stack).at = a
          BY <1>2, <1>3, <3>1, <4>2 DEF Last
        <5> QED BY <2>7, <4>2, <5>1 DEF NameOf
      <4>3. skipping \in Nat /\ k \in 1..Len(stack)
        BY <1>3, <3>1 DEF IInv
      <4> QED BY <1>2, <4>1, <4>2, <4>3
    <3> QED BY <2>4, <3>1, <3>2, <3>3
  <2> QED BY <2>6, <2>7
<1>10. CASE EndOfSwallowed
  <2>1. EndTag /\ skipping > 0 /\ stack' = stack /\ doc' = doc
    BY <1>10 DEF EndOfSwallowed, EndTag
  <2>2. /\ a \in 1..Len(doc) /\ stack[k] = FrameOf(a)
        /\ doc[p].parent = a => k = Len(stack)
    <3>1. /\ stack[k].at \in 1..Len(doc)
          /\ doc[p].parent = stack[k].at => IF skipping = 0 THEN k = Len(stack) - 1
                                            ELSE skipping = 1 /\ k = Len(stack)
      BY <1>1, <1>3, <1>4, <2>1, FramesInside
    <3> QED BY <1>1, <1>3, <2>1, <3>1 DEF FramesAre
  <2>3. doc[a].name \in Loops => p \notin ElementsIn(a)
    <3>1. doc[p].parent = a => NameOf(stack[k]) \notin Loops
      BY <1>2, <2>1, <2>2 DEF Reading
    <3> QED BY <1>3, <2>1, <3>1 DEF NameOf, ElementsIn, Inside
  <2>4. Opens' = Opens \ {p}
    BY <1>4, <2>1, ElementEnds
  <2>5. doc[a].name \in Loops => ElementsIn(a) \ Opens' = ElementsIn(a) \ Opens
    BY <2>3, <2>4
  <2> QED BY <1>2, <2>1, <2>2, <2>5, FrameAgain
<1>11. CASE Return
  <2>1. PICK callers : callers = Front(stack)
    OBVIOUS
  <2>2. PICK f : f = Last(stack)
    OBVIOUS
  <2>3. /\ EndTag /\ stack # <<>> /\ skipping = 0 /\ doc' = doc /\ callers # <<>>
        /\ stack' = [callers EXCEPT ![Len(callers)] = Attach(@, f)]
    BY <1>3, <1>11, <2>1, <2>2 DEF Return, EndTag
  <2>4. /\ IsList(callers) /\ Len(callers) = Len(stack) - 1 /\ Len(callers) \in Nat /\ Len(callers) > 0
        /\ \A j \in 1..(Len(stack) - 1) : callers[j] = stack[j]
    BY <1>2, <2>1, <2>3, PopFromList, ListLength
  <2>5. PICK g : g = Attach(callers[Len(callers)], f)
    OBVIOUS
  <2>6. DOMAIN callers = 1..Len(callers) /\ stack' = [callers EXCEPT ![Len(callers)] = g]
    BY <2>3, <2>4, <2>5, LenProperties DEF IsList
  <2>7. /\ stack' = [j \in DOMAIN callers |-> stack'[j]]
        /\ \A j \in 1..Len(callers) : stack'[j] = IF j = Len(callers) THEN g ELSE callers[j]
    BY <2>6
  <2>8. Len(stack') = Len(callers)
    BY <2>4, <2>7, SameLength
  <2>9. k \in 1..Len(stack) /\ k < Len(stack) /\ stack[k].at = a
    <3>1. k \in 1..Len(callers) /\ k \in 1..Len(stack) /\ k < Len(stack) /\ callers[k] = stack[k]
      BY <1>2, <2>4, <2>8
    <3>2. "at" \in DOMAIN stack[k]
      BY <3>1 DEF IInv, Frames
    <3>3. CASE k = Len(callers)
      <4>1. g.at = stack[k].at
        BY <2>5, <3>1, <3>2, <3>3 DEF Attach
      <4> QED BY <1>3, <2>7, <3>1, <3>3, <4>1
    <3>4. CASE k # Len(callers)
      BY <1>3, <2>7, <3>1, <3>4
    <3> QED BY <3>3, <3>4
  <2>10. /\ a \in 1..Len(doc) /\ p \in 1..Len(doc) /\ stack[k] = FrameOf(a)
         /\ doc[p].parent = a <=> k = Len(stack) - 1
    <3>1. /\ stack[k].at \in 1..Len(doc) /\ p \in 1..Len(doc)
          /\ doc[p].parent = stack[k].at => IF skipping = 0 THEN k = Len(stack) - 1
                                            ELSE skipping = 1 /\ k = Len(stack)
          /\ skipping = 0 /\ k = Len(stack) - 1 => doc[p].parent = stack[k].at
      BY <1>1, <1>4, <2>9, FramesInside
    <3> QED BY <1>1, <2>3, <2>9, <3>1 DEF FramesAre
  <2>11. Opens' = Opens \ {p}
    BY <1>4, <2>3, ElementEnds
  <2>12. CASE k # Len(callers)
    <3>1. p \notin ElementsIn(a)
      BY <2>4, <2>10, <2>12 DEF ElementsIn, Inside
    <3>2. ElementsIn(a) \ Opens' = ElementsIn(a) \ Opens
      BY <2>11, <3>1
    <3>3. FrameOf(a)' = FrameOf(a)
      BY <1>2, <2>3, <2>10, <3>2, FrameAgain
    <3>4. stack'[k] = stack[k]
      BY <1>2, <2>4, <2>7, <2>8, <2>9, <2>12
    <3> QED BY <2>10, <3>3, <3>4
  <2>13. CASE k = Len(callers)
    <3>1. stack'[k] = Attach(stack[k], f) /\ k = Len(stack) - 1
      BY <2>4, <2>5, <2>7, <2>9, <2>13
    <3>2. Len(stack) \in 1..Len(stack) /\ f = stack[Len(stack)]
      BY <1>2, <2>2, <2>3 DEF Last
    <3>3. f.at = p /\ p \in Relevant /\ doc[a].name \in Loops
      <4>1. f.at = p
        BY <1>1, <1>4, <2>2, <2>3, LoopEnds DEF Last
      <4>2. stack[Len(stack)].at \in Relevant
        BY <1>2, <3>2 DEF Reading
      <4>3. NameOf(stack[k]) \in Loops
        BY <1>2, <2>9, <3>1 DEF Reading
      <4> QED BY <2>9, <3>2, <4>1, <4>2, <4>3 DEF NameOf
    <3>4. f = FrameOf(p)
      BY <1>1, <2>10, <3>2, <3>3 DEF FramesAre
    <3>5. p \in ElementsIn(a) /\ doc[p].name # CharData
      <4>1. doc[p].name # CharData
        BY <3>3 DEF ReadInv, IsRelevant, Counts
      <4> QED BY <2>10, <3>1, <4>1 DEF ElementsIn, Inside
    <3>6. doc[p].name = "Identity" => doc[a].name = "Client"
      <4>1. ~Bad(p)
        BY <1>2, <3>3, FaultyIs DEF Reading
      <4>2. doc[p].name = "Identity" => p # Root
        BY <1>2, <2>10, RootIs
      <4>3. "Identity" \notin Nodes
        BY DEF Nodes, TextLeaves, Voices, Targets, Addresses, Rooms, Skipped
      <4>4. doc[p].parent = a
        BY <2>10, <3>1
      <4> QED BY <4>1, <4>2, <4>3, <4>4 DEF Bad
    <3>7. FrameOf(a)' = IF doc[p].name = "Identity" THEN [FrameOf(a) EXCEPT !.identity = WordsIn(p)]
                        ELSE [FrameOf(a) EXCEPT !.children = Append(@, Node[p])]
      BY <1>4, <2>3, <2>10, <3>3, <3>5, <3>6, FrameAfterEnd
    <3>8. CASE doc[p].name = "Identity"
      <4>1. f.text = WordsIn(p)
        <5>1. f.text = IF doc[p].name \in TextReaders THEN WordsIn(p) ELSE <<>>
          BY <3>4 DEF FrameOf
        <5> QED BY <3>8, <5>1 DEF TextReaders
      <4>2. stack'[k] = [stack[k] EXCEPT !.identity = f.text]
        BY <3>1, <3>3, <3>8 DEF Attach, NameOf
      <4> QED BY <2>10, <3>7, <3>8, <4>1, <4>2
    <3>9. CASE doc[p].name # "Identity"
      <4>1. NodeOf(f) = Node[p]
        BY <1>1, <1>4, <2>3, <3>3, <3>4, <3>9, NodeOfFrame DEF EndTag
      <4>2. stack'[k] = [stack[k] EXCEPT !.children = Append(@, NodeOf(f))]
        BY <3>1, <3>3, <3>9 DEF Attach, NameOf
      <4> QED BY <2>10, <3>7, <3>9, <4>1, <4>2
    <3> QED BY <3>8, <3>9
  <2> QED BY <2>12, <2>13
<1>12. CASE IgnoreEnd
  <2>1. stack = <<>> /\ stack' = stack
    BY <1>1, <1>12, LoopEnds DEF IgnoreEnd
  <2> QED BY <1>5, <2>1
<1>13. CASE UNCHANGED vars
  <2>1. doc' = doc /\ open' = open /\ stack' = stack
    BY <1>13 DEF vars
  <2>2. FrameOf(a)' = FrameOf(a)
    BY <1>2, <2>1, FrameAgain DEF Opens
  <2> QED BY <1>1, <1>3, <2>1, <2>2 DEF FramesAre
<1>14. ~EndOfInput /\ \A n \in Names, wrong \in BOOLEAN : ~Refuse(n, wrong)
  BY DEF EndOfInput, Refuse
<1> QED BY <1>6, <1>7, <1>8, <1>9, <1>10, <1>11, <1>12, <1>13, <1>14 DEF Next

\* What Parse returns is what the document means.
LEMMA TreeStep ==
  ASSUME IInv, ReadInv, TreeInv, [Next]_vars
  PROVE  TreeInv'
<1>1. outcome' = "reading" => FramesAre'
  BY FramesStep DEF TreeInv
<1>2. /\ IsList(doc) /\ Numbered /\ IsRelevant(Relevant)
      /\ Len(stack) \in Nat /\ (stack # <<>> <=> Len(stack) > 0)
  BY ListLength DEF IInv, ReadInv
<1>3. ASSUME doc' = doc  PROVE Root' = Root /\ Meaning' = Node'[Root']
                               /\ (Root \in 1..Len(doc) => Node'[Root] = Node[Root])
  <2>1. Meaning' = Node'[Root']
    <3>1. (Meaning = Node[Root])'
      BY MeaningIs, PTL
    <3> QED BY <3>1
  <2> QED BY <1>2, <1>3, <2>1, Stays, SameDocument
<1>4. SUFFICES ASSUME outcome' = "parsed"  PROVE Root' \in 1..Len(doc') /\ tree' = Meaning'
  BY <1>1 DEF TreeInv
<1>5. CASE Return /\ Front(stack) = <<>>
  <2>1. PICK f : f = Last(stack)
    OBVIOUS
  <2>2. PICK p : p = open[Len(open)]
    OBVIOUS
  <2>3. /\ EndTag /\ stack # <<>> /\ skipping = 0 /\ doc' = doc /\ outcome = "reading" /\ open # <<>>
        /\ tree' = NodeOf(f)
    BY <1>5, <2>1 DEF Return, EndTag
  <2>4. Len(stack) = 1 /\ f = stack[1]
    <3>1. Len(Front(stack)) = Len(stack) - 1
      BY <2>3, PopFromList DEF IInv
    <3>2. Len(Front(stack)) = 0
      BY <1>5, EmptySeq
    <3>3. Len(stack) = 1
      BY <1>2, <3>1, <3>2
    <3> QED BY <2>1, <3>3 DEF Last
  <2>5. Reading /\ FramesAre
    BY <2>3 DEF ReadInv, TreeInv
  <2>6. f.at = p /\ p = Root /\ p \in Relevant /\ p \in 1..Len(doc)
    <3>1. f.at = p
      BY <2>1, <2>2, <2>3, LoopEnds DEF Last
    <3>2. Root = stack[1].at /\ stack[1].at \in Relevant
      BY <2>3, <2>4, <2>5 DEF Reading
    <3> QED BY <1>2, <2>4, <3>1, <3>2 DEF IsRelevant
  <2>7. f = FrameOf(p)
    BY <2>4, <2>5, <2>6 DEF FramesAre
  <2>8. doc[p].name # "Identity"
    BY <1>2, <2>6, RootIs
  <2>9. NodeOf(f) = Node[p]
    BY <2>2, <2>3, <2>6, <2>7, <2>8, NodeOfFrame
  <2> QED BY <1>3, <2>3, <2>6, <2>9
<1>6. CASE UNCHANGED vars
  <2>1. doc' = doc /\ tree' = tree /\ tree = Meaning /\ outcome = "parsed"
    BY <1>4, <1>6 DEF vars, TreeInv
  <2>2. Root \in 1..Len(doc)
    BY <2>1 DEF TreeInv
  <2> QED BY <1>3, <2>1, <2>2, MeaningIs
<1>7. (Return /\ Front(stack) = <<>>) \/ UNCHANGED vars
  BY <1>4 DEF Next, vars, Call, Refuse, Ignore, Swallow, Text, StartTag, Deliver, EndOfSwallowed, Return,
              IgnoreEnd, EndTag, EndOfInput
<1> QED BY <1>5, <1>6, <1>7

\* For documents of any size with any names: Parse refuses a document only for
\* an element that TwiML may not have, or for want of a Response, and returns
\* the TwiML of any other.
THEOREM DocumentsAreReadAsWritten == Spec => []ParsedAsWritten
<1>1. Init => IInv
  <2>1. IsList(<<>>)
    BY EmptySeq, AnySequence
  <2> QED BY <2>1, EmptySeq DEF Init, IInv, Frames, InStep
<1>2. Init => ReadInv
  <2> SUFFICES ASSUME Init  PROVE ReadInv
    OBVIOUS
  <2>1. /\ doc = <<>> /\ open = <<>> /\ stack = <<>> /\ skipping = 0 /\ outcome = "reading"
        /\ Len(doc) = 0 /\ Len(open) = 0 /\ Len(stack) = 0 /\ IsList(doc)
    BY <1>1, EmptySeq DEF Init, IInv
  <2>2. Numbered /\ Opened
    BY <2>1 DEF Numbered, Opened
  <2>3. IsRelevant({})
    BY <2>1 DEF IsRelevant
  <2>4. Relevant = {}
    BY <2>1, <2>2, <2>3, RelevantIs
  <2>5. Root = 0
    BY <2>1, RootIs
  <2>6. Faulty = {}
    BY <2>4, FaultyIs
  <2> QED BY <2>1, <2>2, <2>3, <2>4, <2>5, <2>6 DEF ReadInv, Reading, Verdict
<1>3. Init => TreeInv
  BY EmptySeq DEF Init, TreeInv, FramesAre
<1>4. IInv /\ ReadInv /\ TreeInv /\ [Next]_vars => (IInv /\ ReadInv /\ TreeInv)'
  BY Step, ReadStep, TreeStep
<1>5. IInv /\ ReadInv /\ TreeInv => ParsedAsWritten
  BY DEF ReadInv, Reading, Verdict, TreeInv, ParsedAsWritten
<1> QED BY <1>1, <1>2, <1>3, <1>4, <1>5, PTL DEF Spec
=============================================================================
