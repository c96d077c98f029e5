------------------------------- MODULE Orders -------------------------------
(***************************************************************************)
(* The vocabulary of crates/matching-engine/src/types.rs and the price     *)
(* comparisons of match_engine.rs: sides, order kinds, orders, and which   *)
(* price levels a taker may trade with.                                    *)
(*                                                                         *)
(* An order keeps the fields the matcher branches on, and an identity.     *)
(* platform_seq, the timestamp and the session token are copied from the   *)
(* order into its fills and never read by the matcher: orders may reach    *)
(* it with any platform_seq, in any order.  They are left out.  What       *)
(* identifies an order here is its rank, the number of the match_order     *)
(* call it came with; a fill names the orders of its two sides by rank     *)
(* where the code copies their platform_seqs.  An OrderType and its        *)
(* TimeInForce are one field, kind: "Gtc", "Ioc", "Fok" are limit orders.  *)
(***************************************************************************)
EXTENDS Integers

CONSTANTS
    Prices,      \* the prices (ticks) an order may carry
    Ids,         \* client order ids
    MaxQty,      \* largest quantity of an order (a bound of the model)
    MaxOrders    \* how many orders the platform sends (a bound of the model)

\* Ticks are 64-bit integers, so there is a highest price.
ASSUME PricesAssumption ==
    Prices \subseteq Int /\ \E top \in Prices : \A p \in Prices : p <= top
ASSUME MaxQtyAssumption == MaxQty \in Nat
ASSUME MaxOrdersAssumption == MaxOrders \in Nat

Sides == {"Bid", "Ask"}

Kinds == {"Gtc", "Ioc", "Fok", "Market"}

\* A market order has no price: every market order carries the same value
\* here, and no operator below reads it.
NoLimit == CHOOSE p \in Prices : TRUE

\* Ranks of orders: 1 is the order of the first match_order call, and so on.
Ranks == 1 .. MaxOrders

\* An order of quantity 0 reaches the matcher: no layer above rejects it.
OrderTypes ==
    [rank : Ranks, id : Ids, side : Sides, qty : 0 .. MaxQty,
     kind : Kinds, price : Prices]

\* The orders that the n-th match_order call may bring.
OrdersWithRank(n) ==
    {o \in [rank : {n}, id : Ids, side : Sides, qty : 0 .. MaxQty,
            kind : Kinds, price : Prices] : o.kind = "Market" => o.price = NoLimit}

NoOrder == [rank |-> 0, side |-> "Bid"]      \* no order yet, or none running

Opposite(side) == IF side = "Bid" THEN "Ask" ELSE "Bid"

\* Faulty variant: an equal price does not cross.
CrossesPriceStrict(side, level, limit) ==
    IF side = "Bid" THEN level < limit ELSE level > limit

\* A taker on `side` trades at `level` only if it is at least as good as limit.
CrossesPrice(side, level, limit) ==
    IF side = "Bid" THEN level <= limit ELSE level >= limit

Crosses(o, level) ==
    o.kind = "Market" \/ CrossesPrice(o.side, level, o.price)

\* The walk of best_for: a bid takes the lowest ask first, an ask the
\* highest bid.
WalkedBefore(side, p, q) == IF side = "Bid" THEN p < q ELSE p > q

=============================================================================
