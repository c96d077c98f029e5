----------------------------- MODULE MCEventLog -----------------------------
(***************************************************************************)
(* A small instance of the event log for TLC.                              *)
(***************************************************************************)
EXTENDS EventLog

CONSTANTS c1, c2

\* Two clients with an order each, and the other kinds of frames.
TwoClients == (c1 :> <<"binary", "order">>) @@ (c2 :> <<"order", "bad json">>)

=============================================================================
