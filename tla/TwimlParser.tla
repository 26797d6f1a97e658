---------------------------- MODULE TwimlParser ----------------------------
(***************************************************************************)
(* twiml.Parse: a recursive descent over the tokens of an XML decoder.     *)
(*                                                                         *)
(* The decoder (encoding/xml) delivers a document token by token and sees  *)
(* to it that tags match.  Each active parse function is a frame of the    *)
(* stack.  Functions that loop over tokens see the tokens of their         *)
(* children; decoder.Skip and DecodeElement consume an element whole.      *)
(*                                                                         *)
(* A document is the list of its elements and words in the order in which  *)
(* they begin.  White space and comments are left out.                     *)
(***************************************************************************)
EXTENDS Integers, SequencesExt

CONSTANTS
  Names,     \* the names of elements in the documents
  Stray,     \* those of elements that Parse does not look at
  MaxItems   \* a bound: the elements and words of a document

\* The name of a word in a document, which is no element.
CharData == "a word"

ASSUME NamesAssumption == CharData \notin Names \union Stray

VARIABLES
  doc,       \* the elements and words so far: name, parent, and whether an
             \* attribute of it is unknown or has an invalid value
  open,      \* the decoder's stack: the elements that have not ended
  stack,     \* the parse functions that are active
  skipping,  \* the open elements that Skip or DecodeElement passes over
  outcome,   \* what Parse returned
  tree       \* the Response it returned

vars == <<doc, open, stack, skipping, outcome, tree>>

\* DecodeElement takes the text of these elements.
Voices == {"Say", "Play"}
Targets == {"Enqueue", "Redirect"}
Addresses == {"Number", "Sip"}
Rooms == {"Queue", "Conference"}
TextLeaves == Voices \union Targets \union Addresses \union Rooms

\* Skip passes over the content of these.
Skipped == {"Pause", "Hangup", "Record", "Reject"}

\* parseNode knows these, at any place.
Nodes == {"Gather", "Dial", "Client"} \union TextLeaves \union Skipped

\* The functions that loop over the tokens of their children.
Loops == {"Response", "Gather", "Dial", "Client"}

\* The functions that keep text.
TextReaders == TextLeaves \union {"Dial", "Client", "Identity"}

Init ==
  /\ doc = <<>> /\ open = <<>>
  /\ stack = <<>> /\ skipping = 0
  /\ outcome = "reading" /\ tree = <<>>
-----------------------------------------------------------------------------
(* Start tags *)

NameOf(frame) == doc[frame.at].name

SeesEveryTag(n) ==   \* a mutant of SeesTag
  IF stack = <<>> THEN n = "Response" ELSE skipping = 0

\* Parse waits for a Response; after that, does a function look at the tag?
SeesTag(n) ==
  IF stack = <<>> THEN n = "Response"
  ELSE skipping = 0 /\ NameOf(Last(stack)) \in Loops

\* parseNode, and the switch of parseClient; a Hangup and an Identity may have
\* any attributes.
Accepts(n, wrong) ==
  IF stack = <<>> THEN ~wrong
  ELSE IF NameOf(Last(stack)) = "Client"
       THEN n = "Identity" \/ (n = "Parameter" /\ ~wrong)
       ELSE n \in Nodes /\ (wrong => n = "Hangup")

\* The decoder delivers something that is inside the innermost open element.
Deliver(n, wrong) ==
  /\ outcome = "reading" /\ Len(doc) < MaxItems
  /\ doc' = Append(doc, [name |-> n, wrong |-> wrong,
                         parent |-> IF open = <<>> THEN 0 ELSE Last(open)])

StartTag(n, wrong) == Deliver(n, wrong) /\ open' = Append(open, Len(doc) + 1)

\* An element around Response, or before it.
Ignore(n) ==
  /\ StartTag(n, FALSE)
  /\ stack = <<>> /\ ~SeesTag(n)
  /\ UNCHANGED <<stack, skipping, outcome, tree>>

\* Inside of an element that Skip or DecodeElement consumes.
Swallow(n) ==
  /\ StartTag(n, FALSE)
  /\ stack # <<>> /\ ~SeesTag(n)
  /\ skipping' = skipping + 1
  /\ UNCHANGED <<stack, outcome, tree>>

\* A parse function is called, which begins with the attributes.
Call(n, wrong) ==
  /\ StartTag(n, wrong)
  /\ SeesTag(n) /\ Accepts(n, wrong)
  /\ stack' = Append(stack, [at |-> Len(doc) + 1, text |-> <<>>, identity |-> <<>>,
                             children |-> <<>>])
  /\ UNCHANGED <<skipping, outcome, tree>>

Refuse(n, wrong) ==
  /\ StartTag(n, wrong)
  /\ SeesTag(n) /\ ~Accepts(n, wrong)
  /\ outcome' = "refused"
  /\ UNCHANGED <<stack, skipping, tree>>
-----------------------------------------------------------------------------
(* Text and end tags *)

Text ==
  /\ open # <<>>
  /\ Deliver(CharData, FALSE)
  /\ stack' = IF stack # <<>> /\ skipping = 0 /\ NameOf(Last(stack)) \in TextReaders
              THEN [stack EXCEPT ![Len(stack)].text = Append(@, Len(doc) + 1)]
              ELSE stack
  /\ UNCHANGED <<open, skipping, outcome, tree>>

\* The node that a function returns.  The text of a Dial without children is
\* a Number; the Identity of a Client takes precedence over its text.
NodeOf(f) ==
  LET n == NameOf(f) IN
  [name |-> n,
   text |-> IF n = "Dial" THEN <<>>
            ELSE IF f.identity # <<>> THEN f.identity ELSE f.text,
   children |-> IF n = "Dial" /\ f.children = <<>> /\ f.text # <<>>
                THEN <<[name |-> "Number", text |-> f.text, children |-> <<>>]>>
                ELSE f.children]

\* What the caller of a function does with the node; a later Identity
\* replaces an earlier one.
Attach(caller, f) ==
  IF NameOf(f) = "Identity" THEN [caller EXCEPT !.identity = f.text]
  ELSE [caller EXCEPT !.children = Append(@, NodeOf(f))]

EndTag ==
  /\ outcome = "reading" /\ open # <<>>
  /\ open' = Front(open)
  /\ UNCHANGED doc

EndOfSwallowed ==
  /\ EndTag
  /\ skipping > 0
  /\ skipping' = skipping - 1
  /\ UNCHANGED <<stack, outcome, tree>>

\* A loop leaves at an end tag with its own name; Skip and DecodeElement leave
\* at the end tag of their element.
Leaves == LET n == NameOf(Last(stack)) IN n \in Loops => doc[Last(open)].name = n

Return ==
  /\ EndTag
  /\ stack # <<>> /\ skipping = 0 /\ Leaves
  /\ LET f == Last(stack)  callers == Front(stack) IN
       IF callers = <<>>
       THEN stack' = <<>> /\ outcome' = "parsed" /\ tree' = NodeOf(f)
       ELSE /\ stack' = [callers EXCEPT ![Len(callers)] = Attach(@, f)]
            /\ UNCHANGED <<outcome, tree>>
  /\ UNCHANGED skipping

IgnoreEnd ==
  /\ EndTag
  /\ stack # <<>> => skipping = 0 /\ ~Leaves
  /\ UNCHANGED <<stack, skipping, outcome, tree>>

\* io.EOF without a Response.  Inside of an element the decoder reports a
\* syntax error instead, which every loop returns.
EndOfInput ==
  /\ outcome = "reading"
  /\ outcome' = IF open = <<>> THEN "refused" ELSE "syntax error"
  /\ UNCHANGED <<doc, open, stack, skipping, tree>>

Next ==
  \/ \E n \in Names, wrong \in BOOLEAN : Call(n, wrong) \/ Refuse(n, wrong)
  \/ \E n \in Stray : Ignore(n) \/ Swallow(n)
  \/ Text \/ EndOfSwallowed \/ Return \/ IgnoreEnd \/ EndOfInput

Spec == Init /\ [][Next]_vars
-----------------------------------------------------------------------------
(* The document as a tree, which the parser never has in its hands *)

Root == SelectInSeq(doc, LAMBDA e : e.name = "Response")

\* Items in the order of the document.
InOrder(S) ==
  LET upto[n \in 0..Len(doc)] ==
        IF n = 0 THEN <<>>
        ELSE IF n \in S THEN Append(upto[n - 1], n) ELSE upto[n - 1]
  IN upto[Len(doc)]

\* The words, and the elements, that are directly inside of an element.
Inside(i) == {j \in 1..Len(doc) : doc[j].parent = i}

WordsIn(i) == InOrder({j \in Inside(i) : doc[j].name = CharData})

ElementsIn(i) == {j \in Inside(i) : doc[j].name # CharData}

\* The elements that are part of the TwiML: the first Response, and what is
\* directly inside of elements that have TwiML in them.
Relevant ==
  LET relevant[i \in 0..Len(doc)] ==
        /\ i > 0 /\ doc[i].name # CharData
        /\ i = Root \/ (relevant[doc[i].parent] /\ doc[doc[i].parent].name \in Loops)
  IN {i \in 1..Len(doc) : relevant[i]}

\* The elements that TwiML may not have there.
Faulty ==
  {i \in Relevant :
     \/ i # Root /\ doc[doc[i].parent].name # "Client" /\ doc[i].name \notin Nodes
     \/ i # Root /\ doc[doc[i].parent].name = "Client"
        /\ doc[i].name \notin {"Parameter", "Identity"}
     \/ doc[i].wrong /\ doc[i].name \notin {"Hangup", "Identity"}}

Ids(i) == {j \in ElementsIn(i) : doc[j].name = "Identity"}

\* The last Identity of a Client, if it has words, comes before its own words.
TextOf(i) ==
  IF doc[i].name = "Client" /\ Ids(i) # {} /\ WordsIn(Max(Ids(i))) # <<>>
  THEN WordsIn(Max(Ids(i)))
  ELSE IF doc[i].name \in TextLeaves \union {"Client"} THEN WordsIn(i) ELSE <<>>

PartsOf(i) == IF doc[i].name \in Loops THEN InOrder(ElementsIn(i) \ Ids(i)) ELSE <<>>

\* The TwiML of an element, from that of the elements inside of it.
Written(i, node) ==
  [name |-> doc[i].name,
   text |-> TextOf(i),
   children |-> IF doc[i].name = "Dial" /\ ElementsIn(i) = {} /\ WordsIn(i) # <<>>
                THEN <<[name |-> "Number", text |-> WordsIn(i), children |-> <<>>]>>
                ELSE [k \in 1..Len(PartsOf(i)) |-> node[PartsOf(i)[k]]]]

Meaning == LET node[i \in 1..Len(doc)] == Written(i, node) IN node[Root]
-----------------------------------------------------------------------------
\* Each active function is at an element that is open, each inside of the one
\* that called it, and what is open beyond the last one is being skipped.
InStep ==
  outcome = "reading" /\ stack # <<>> =>
    LET around == Len(open) - (Len(stack) + skipping) IN
    around >= 0 /\ \A k \in 1..Len(stack) : open[around + k] = stack[k].at

\* No function reads on after its element: the input cannot end while one is
\* active, and the end tag that a loop compares with its name is its own.
FunctionsEndWithElements ==
  outcome = "reading" /\ stack # <<>> => open # <<>> /\ (skipping = 0 => Leaves)

\* Parse refuses a document only for an element that TwiML may not have, or
\* for want of a Response, and returns the TwiML of any other: nothing inside
\* of text or of skipped elements counts, and nothing else is lost.
ParsedAsWritten ==
  /\ outcome = "parsed" => Faulty = {} /\ tree = Meaning
  /\ outcome = "refused" => Faulty # {} \/ Root = 0
  /\ outcome = "reading" => Faulty = {}
=============================================================================
