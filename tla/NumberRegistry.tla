--------------------------- MODULE NumberRegistry ---------------------------
(***************************************************************************)
(* What an account promises of its phone numbers: a phone belongs to one   *)
(* number at a time, a number is known by a SID that is given out once,    *)
(* and a number that was released is never heard of again.                 *)
(***************************************************************************)
CONSTANTS Phones, Sids, Apps, NoSid, NoApp

VARIABLES
  owner,    \* the SID of the number a phone is provisioned as, or NoSid
  app,      \* the voice application calls to a phone are routed to, or NoApp
  issued    \* the SIDs given out so far

vars == <<owner, app, issued>>

Init ==
  /\ owner = [p \in Phones |-> NoSid]
  /\ app = [p \in Phones |-> NoApp]
  /\ issued = {}

Provision(p, s) ==
  /\ owner[p] = NoSid /\ s \notin issued
  /\ owner' = [owner EXCEPT ![p] = s]
  /\ \E a \in Apps \cup {NoApp} : app' = [app EXCEPT ![p] = a]
  /\ issued' = issued \cup {s}

Assign(p) ==
  /\ owner[p] # NoSid
  /\ \E a \in Apps \cup {NoApp} : app' = [app EXCEPT ![p] = a]
  /\ UNCHANGED <<owner, issued>>

Release(p) ==
  /\ owner[p] # NoSid
  /\ owner' = [owner EXCEPT ![p] = NoSid]
  /\ app' = [app EXCEPT ![p] = NoApp]
  /\ UNCHANGED issued

Next == \E p \in Phones : Assign(p) \/ Release(p) \/ \E s \in Sids : Provision(p, s)

Spec == Init /\ [][Next]_vars
=============================================================================
