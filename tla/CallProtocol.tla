---------------------------- MODULE CallProtocol ----------------------------
(***************************************************************************)
(* What a call promises the application that placed it, whatever its       *)
(* goroutines do: its status only moves forward, along the arrows below,   *)
(* and what the application is told of it is true when it is told, never   *)
(* goes back, and ends with every callback that is owed.                   *)
(***************************************************************************)
EXTENDS CallStatus, Naturals, Sequences

VARIABLES
  status,   \* the status of the call
  owed,     \* callbacks announced and not yet posted
  told      \* the statuses posted to the application

vars == <<status, owed, told>>

\* A call hung up before it rings is completed, one hung up while it rings is
\* canceled.
Successors(s) ==
  CASE s = "initiated"   -> {"ringing", "completed"}
    [] s = "ringing"     -> {"in-progress", "canceled", "busy", "failed", "no-answer"}
    [] s = "in-progress" -> {"completed", "failed"}
    [] OTHER             -> {}

Init == status = "initiated" /\ owed = 0 /\ told = <<>>

Progress ==
  /\ status' \in Successors(status)
  /\ owed' \in {owed, owed + 1}
  /\ UNCHANGED told

Tell ==
  /\ owed > 0
  /\ owed' = owed - 1
  /\ told' = Append(told, status)
  /\ UNCHANGED status

Next == Progress \/ Tell

Spec == Init /\ [][Next]_vars

\* Every callback that is owed is posted in the end.
FairSpec == Spec /\ WF_vars(Tell)
=============================================================================
