----------------------------- MODULE MCHotPath -----------------------------
(***************************************************************************)
(* Small instances of the hot path for TLC.                                *)
(***************************************************************************)
EXTENDS HotPath

\* Two orders of one bot that cross.
TwoOrders ==
    << [offsetNs |-> 0, botId |-> 8, side |-> "bid", orderType |-> "limit", tif |-> "gtc",
        qty |-> 20, price |-> 109],
       [offsetNs |-> SlotNs, botId |-> 8, side |-> "ask", orderType |-> "limit", tif |-> "gtc",
        qty |-> 1, price |-> 90] >>

=============================================================================
