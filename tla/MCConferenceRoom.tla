-------------------------- MODULE MCConferenceRoom --------------------------
(***************************************************************************)
(* Instances of ConferenceRoom for TLC.                                    *)
(***************************************************************************)
EXTENDS ConferenceRoom

NoCalls == {}
NoStatus == {}

\* Every event, or only the end of the conference.
AllEvents == {{}}
EndOnly == {{"end"}}
CompleteOnly == {"completed"}
=============================================================================
