-------------------------- MODULE MCCallLifecycle --------------------------
(***************************************************************************)
(* Instances of CallLifecycle for TLC.                                     *)
(***************************************************************************)
EXTENDS CallLifecycle

\* No preference, and an event before the end.
MCInterestSets == {{}, {"ringing"}}
MCNoPreference == {{}}
MCRingingOnly == {{"ringing"}}
MCCallbackParams == {"set", "unset", Keep}
=============================================================================
