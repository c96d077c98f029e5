---------------------------- MODULE MCOrderBook ----------------------------
(***************************************************************************)
(* Small instances of the order book for TLC.                              *)
(***************************************************************************)
EXTENDS OrderBook

\* Ids are compared only for equality.
IdSymmetry == Permutations(Ids)

=============================================================================
