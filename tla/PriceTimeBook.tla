--------------------------- MODULE PriceTimeBook ---------------------------
(***************************************************************************)
(* What the matching engine promises, with nothing of how it does it: a    *)
(* set of resting orders, and one atomic step per order.  Candidates are   *)
(* served in price-time priority; a candidate receives what is left after  *)
(* everyone ahead of it, up to its own quantity.  The trades of an order   *)
(* are numbered in that priority.                                          *)
(***************************************************************************)
EXTENDS Orders, FiniteSetsExt

VARIABLES
    resting,         \* the resting orders
    order,           \* the last order
    result,          \* its trades
    next_trade_id,
    arrived

absVars == <<resting, order, result, next_trade_id, arrived>>

AbsInit ==
    /\ resting = {}
    /\ order = NoOrder
    /\ result = {}
    /\ next_trade_id = 0
    /\ arrived = 0

\* m is served before n when a taker on `side` trades.
ServedBefore(side, m, n) ==
    \/ WalkedBefore(side, m.price, n.price)
    \/ m.price = n.price /\ m.rank < n.rank

Candidates(o) == {m \in resting : m.side = Opposite(o.side) /\ Crosses(o, m.price)}

Ahead(o, m) == {n \in Candidates(o) : ServedBefore(o.side, n, m)}

TotalQty(orders) == MapThenSumSet(LAMBDA m : m.qty, orders)

\* What candidate m trades with o.
Share(o, m) == Min({m.qty, Max({0, o.qty - TotalQty(Ahead(o, m))})})

Served(o) == {m \in Candidates(o) : Share(o, m) > 0}

Leftover(o) == o.qty - MapThenSumSet(LAMBDA m : Share(o, m), Served(o))

Killed(o) == o.kind = "Fok" /\ TotalQty(Candidates(o)) < o.qty

Match(o) ==
    /\ ~ Killed(o)
    /\ result' = {[trade_id |-> next_trade_id + Cardinality(Ahead(o, m)),
                   taker |-> o.rank, maker |-> m.rank, price |-> m.price,
                   qty |-> Share(o, m)] : m \in Served(o)}
    /\ next_trade_id' = next_trade_id + Cardinality(Served(o))
    /\ resting' =
          (resting \ Served(o))
          \cup {[m EXCEPT !.qty = @ - Share(o, m)] :
                   m \in {n \in Served(o) : Share(o, n) < n.qty}}
          \cup (IF o.kind = "Gtc" /\ Leftover(o) > 0
                THEN {[rank |-> o.rank, id |-> o.id, side |-> o.side,
                       price |-> o.price, qty |-> Leftover(o)]}
                ELSE {})

Kill(o) == Killed(o) /\ result' = {} /\ UNCHANGED <<resting, next_trade_id>>

Submit(o) == arrived' = o.rank /\ order' = o /\ (Match(o) \/ Kill(o))

CancelOrder(id) ==
    /\ resting' = {m \in resting : m.id # id}
    /\ UNCHANGED <<order, result, next_trade_id, arrived>>

AbsNext ==
    \/ arrived < MaxOrders /\ \E o \in OrdersWithRank(arrived + 1) : Submit(o)
    \/ \E id \in Ids : CancelOrder(id)

AbsSpec == AbsInit /\ [][AbsNext]_absVars

=============================================================================
