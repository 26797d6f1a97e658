---------------------------- MODULE MCCallerInput ---------------------------
(***************************************************************************)
(* Instances of CallerInput for TLC.                                       *)
(***************************************************************************)
EXTENDS CallerInput

CONSTANTS k1, pound

Telephone == {k1, pound}

\* One key; the finish key and one after it; more than a Gather waits for.
Typed == {<<k1>>, <<pound, k1>>, <<k1, k1, k1>>}

\* One that counts, one that waits for the finish key, and one that does both
\* and has no action.
Asked == {[num |-> 2, finish |-> NoKey, action |-> TRUE],
          [num |-> 0, finish |-> pound, action |-> TRUE],
          [num |-> 2, finish |-> pound, action |-> FALSE]}
=============================================================================
