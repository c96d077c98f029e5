----------------------------- MODULE MCStamping -----------------------------
(***************************************************************************)
(* Small instances of the stamping path for TLC.                           *)
(***************************************************************************)
EXTENDS StampClock, TLC

GatewaySymmetry == Permutations(Gateways)

=============================================================================
