---------------------------- MODULE MCOrderBookRefinement ----------------------------
(***************************************************************************)
(* Small instances of the refinement for TLC.                              *)
(***************************************************************************)
EXTENDS OrderBookRefinement

=============================================================================
