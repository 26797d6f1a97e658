--------------------------- MODULE MCTwimlParser ---------------------------
(***************************************************************************)
(* Instances of TwimlParser for TLC.                                       *)
(***************************************************************************)
EXTENDS TwimlParser

\* One name of each kind, and one that no TwiML has.
SomeNames == {"Response", "Gather", "Dial", "Say", "Hangup",
              "Client", "Parameter", "Identity", "Foo"}
=============================================================================
