----------------------------- MODULE OrderBook -----------------------------
(***************************************************************************)
(* The order book of crates/matching-engine (book.rs, match_engine.rs,     *)
(* snapshot.rs), one step per iteration of match_order's loops.            *)
(*                                                                         *)
(* A side of the book is a BTreeMap<Price, VecDeque<Resting>>: levels[s]   *)
(* is its set of keys and queue[s][p] the deque stored under key p (empty  *)
(* when p is not a key).  Keeping the keys apart from the deques keeps the *)
(* difference between "no level" and "an empty level", on which the outer  *)
(* loop of match_order depends.                                            *)
(***************************************************************************)
EXTENDS Orders, FiniteSetsExt, SequencesExt

CONSTANT ReuseIds    \* may an arriving order carry the id of a resting one?

ASSUME ReuseIdsAssumption == ReuseIds \in BOOLEAN

VARIABLES
    levels,          \* keys of self.bids and self.asks
    queue,           \* the deques, front first
    by_id,           \* self.by_id
    next_trade_id,   \* self.next_trade_id
    pc,              \* where the running match_order call is
    taker,           \* the call's argument
    remaining,       \* local: quantity not traded yet
    price,           \* local: the level being drained
    emptied,         \* local: emptied_ids of that level
    fills,           \* local: fills produced so far, trade ids not assigned
    result,          \* the Vec<Fill> the last call returned
    arrived,         \* history: how many calls of match_order there have been
    submitted,       \* history: quantity order n arrived with
    filled           \* history: quantity order n has traded

bookVars == <<levels, queue, by_id, next_trade_id>>
callVars == <<pc, taker, remaining, price, emptied, fills>>
historyVars == <<arrived, submitted, filled>>
vars == <<bookVars, callVars, result, historyVars>>

-----------------------------------------------------------------------------
NoEntry == <<"none", NoLimit>>       \* by_id has no entry for the id

Resting == [rank : Ranks, id : Ids, qty : Nat]

IndexEntries == (Sides \X Prices) \cup {NoEntry}

Fills == [maker : Ranks, price : Prices, qty : Nat]

Trades == [trade_id : Nat, taker : Ranks, maker : Ranks, price : Prices, qty : Nat]

RestingIds ==
    {queue[x[1]][x[2]][x[3]].id :
        x \in {y \in Sides \X Prices \X Ranks : y[3] \in DOMAIN queue[y[1]][y[2]]}}

Init ==
    /\ levels = [s \in Sides |-> {}]
    /\ queue = [s \in Sides |-> [p \in Prices |-> << >>]]
    /\ by_id = [id \in Ids |-> NoEntry]
    /\ next_trade_id = 0
    /\ pc = "idle"
    /\ taker = NoOrder
    /\ remaining = 0
    /\ price = NoLimit
    /\ emptied = {}
    /\ fills = << >>
    /\ result = << >>
    /\ arrived = 0
    /\ submitted = [n \in Ranks |-> 0]
    /\ filled = [n \in Ranks |-> 0]

-----------------------------------------------------------------------------
(***************************************************************************)
(* Reading and editing the book.                                           *)
(***************************************************************************)

\* best_for: p is the level that a taker on `side` meets first.
IsBest(side, p) ==
    /\ p \in levels[Opposite(side)]
    /\ \A q \in levels[Opposite(side)] : ~ WalkedBefore(side, q, p)

\* The positions of the resting orders a taker can reach within its limit.
Reachable(side, limit) ==
    {x \in levels[Opposite(side)] \X Ranks :
        /\ x[2] \in DOMAIN queue[Opposite(side)][x[1]]
        /\ CrossesPrice(side, x[1], limit)}

\* Faulty variant: the limit is not looked at.
CanFillAtAnyPrice(side, qty, limit) ==
    LET s == Opposite(side)
        all == {x \in levels[s] \X Ranks : x[2] \in DOMAIN queue[s][x[1]]}
    IN  all # {} /\ MapThenSumSet(LAMBDA x : queue[s][x[1]][x[2]].qty, all) >= qty

\* FOK pre-flight.  The loop answers true at the first order that brings the
\* remainder to zero, so it needs one reachable order even for quantity 0.
CanFillFull(side, qty, limit) ==
    LET depth == MapThenSumSet(LAMBDA x : queue[Opposite(side)][x[1]][x[2]].qty,
                               Reachable(side, limit))
    IN  Reachable(side, limit) # {} /\ depth >= qty

\* Faulty variant: the whole order rests, not its remainder.
RestWhole(o, qty) ==
    /\ levels' = [levels EXCEPT ![o.side] = @ \cup {o.price}]
    /\ queue' = [queue EXCEPT ![o.side][o.price] =
                    Append(@, [rank |-> o.rank, id |-> o.id, qty |-> o.qty])]
    /\ by_id' = [by_id EXCEPT ![o.id] = <<o.side, o.price>>]

\* Faulty variant: push_front for push_back.
RestAtFront(o, qty) ==
    /\ levels' = [levels EXCEPT ![o.side] = @ \cup {o.price}]
    /\ queue' = [queue EXCEPT ![o.side][o.price] =
                    <<[rank |-> o.rank, id |-> o.id, qty |-> qty]>> \o @]
    /\ by_id' = [by_id EXCEPT ![o.id] = <<o.side, o.price>>]

\* rest: append to the level, creating it if missing, and index the id.
Rest(o, qty) ==
    /\ levels' = [levels EXCEPT ![o.side] = @ \cup {o.price}]
    /\ queue' = [queue EXCEPT ![o.side][o.price] =
                    Append(@, [rank |-> o.rank, id |-> o.id, qty |-> qty])]
    /\ by_id' = [by_id EXCEPT ![o.id] = <<o.side, o.price>>]

\* Faulty variant: the ids of filled orders stay indexed.
ForgetNoIds(ids) == by_id

\* The loop over `emptied_ids` that calls forget_id.
ForgetIds(ids) == [id \in Ids |-> IF id \in ids THEN NoEntry ELSE by_id[id]]

\* Faulty variant: the emptied level stays.
KeepLevel(s, p) == levels

DropLevelIfEmpty(s, p) ==
    IF queue[s][p] = << >> THEN [levels EXCEPT ![s] = @ \ {p}] ELSE levels

-----------------------------------------------------------------------------
(***************************************************************************)
(* match_order.                                                            *)
(***************************************************************************)

\* The order of the next match_order call.  Nothing relates the calls to the
\* platform_seqs of their orders: rank only numbers the calls as they come.
Arrive(o) ==
    /\ o.rank = arrived + 1
    /\ ReuseIds \/ o.id \notin RestingIds
    /\ arrived' = o.rank
    /\ submitted' = [submitted EXCEPT ![o.rank] = o.qty]
    /\ UNCHANGED filled

\* The call starts: locals are initialised and the sweep begins.
BeginMatch(o) ==
    /\ pc = "idle"
    /\ Arrive(o)
    /\ o.kind = "Fok" => CanFillFull(o.side, o.qty, o.price)
    /\ pc' = "sweep"
    /\ taker' = o
    /\ remaining' = o.qty
    /\ fills' = << >>
    /\ UNCHANGED <<bookVars, price, emptied, result>>

\* The early return of the FOK pre-flight.
RejectFok(o) ==
    /\ pc = "idle"
    /\ Arrive(o)
    /\ o.kind = "Fok"
    /\ ~ CanFillFull(o.side, o.qty, o.price)
    /\ result' = << >>
    /\ UNCHANGED <<bookVars, callVars>>

\* Outer loop: take the best level if the taker still crosses it.
EnterLevel(p) ==
    /\ pc = "sweep"
    /\ remaining > 0
    /\ IsBest(taker.side, p)
    /\ Crosses(taker, p)
    /\ pc' = "drain"
    /\ price' = p
    /\ emptied' = {}
    /\ UNCHANGED <<bookVars, taker, remaining, fills, result, historyVars>>

\* Faulty variant: no min() with the taker's remainder.
TradedWholeFront(front) == front.qty

Traded(front) == IF remaining < front.qty THEN remaining ELSE front.qty

\* Inner loop: trade with the front of the level, popping it when emptied.
DrainFront ==
    LET s == Opposite(taker.side)
        front == Head(queue[s][price])
        t == Traded(front)
    IN  /\ pc = "drain"
        /\ remaining > 0
        /\ queue[s][price] # << >>
        /\ fills' = Append(fills, [maker |-> front.rank, price |-> price, qty |-> t])
        /\ remaining' = remaining - t
        /\ queue' = [queue EXCEPT ![s][price] =
                        IF t = front.qty THEN Tail(@)
                        ELSE <<[front EXCEPT !.qty = @ - t]>> \o Tail(@)]
        /\ emptied' = IF t = front.qty THEN emptied \cup {front.id} ELSE emptied
        /\ filled' = [filled EXCEPT ![front.rank] = @ + t, ![taker.rank] = @ + t]
        /\ UNCHANGED <<levels, by_id, next_trade_id, pc, taker, price, result,
                       arrived, submitted>>

\* The inner loop ends: forget the emptied ids, then drop the level if empty.
LeaveLevel ==
    LET s == Opposite(taker.side)
    IN  /\ pc = "drain"
        /\ remaining = 0 \/ queue[s][price] = << >>
        /\ by_id' = ForgetIds(emptied)
        /\ levels' = DropLevelIfEmpty(s, price)
        /\ pc' = "sweep"
        /\ emptied' = {}
        /\ UNCHANGED <<queue, next_trade_id, taker, remaining, price, fills, result,
                       historyVars>>

\* The three ways out of the outer loop.
SweepDone ==
    \/ remaining = 0
    \/ levels[Opposite(taker.side)] = {}
    \/ \E p \in Prices : IsBest(taker.side, p) /\ ~ Crosses(taker, p)

\* Faulty variant: an IOC remainder rests too.
RestsUnlessFok(o) == o.kind \in {"Gtc", "Ioc"}

Rests(o) == o.kind = "Gtc"

\* After the loop: number the fills, rest a GTC remainder, return the fills.
ReturnFills ==
    /\ pc = "sweep"
    /\ SweepDone
    /\ result' = [i \in 1 .. Len(fills) |->
                     [trade_id |-> next_trade_id + i - 1, taker |-> taker.rank,
                      maker |-> fills[i].maker, price |-> fills[i].price,
                      qty |-> fills[i].qty]]
    /\ next_trade_id' = next_trade_id + Len(fills)
    /\ IF remaining > 0 /\ Rests(taker)
       THEN Rest(taker, remaining)
       ELSE UNCHANGED <<levels, queue, by_id>>
    /\ pc' = "idle"
    /\ taker' = NoOrder
    /\ remaining' = 0
    /\ price' = NoLimit
    /\ fills' = << >>
    /\ UNCHANGED <<emptied, historyVars>>

-----------------------------------------------------------------------------
(***************************************************************************)
(* cancel, and restore(snapshot()).                                        *)
(***************************************************************************)

\* position(): the first order of the level that carries the id.
PositionOf(id, q) == SelectInSeq(q, LAMBDA r : r.id = id)

\* cancel of an indexed id: the entry goes, and the first order of that level
\* with the id, and the level when it was the last one.
Cancel(id) ==
    /\ pc = "idle"
    /\ by_id[id] # NoEntry
    /\ by_id' = [by_id EXCEPT ![id] = NoEntry]
    /\ LET s == by_id[id][1]
           p == by_id[id][2]
           idx == PositionOf(id, queue[s][p])
       IN  IF idx = 0
           THEN UNCHANGED <<levels, queue>>
           ELSE /\ queue' = [queue EXCEPT ![s][p] = RemoveAt(@, idx)]
                /\ levels' = IF Len(queue[s][p]) = 1
                             THEN [levels EXCEPT ![s] = @ \ {p}] ELSE levels
    /\ UNCHANGED <<next_trade_id, callVars, result, historyVars>>

\* cancel of an id that is not indexed returns false and changes nothing.
CancelUnknown(id) ==
    /\ pc = "idle"
    /\ by_id[id] = NoEntry
    /\ UNCHANGED vars

\* The (side, price) pairs at which the id rests.
Places(id) ==
    {x \in Sides \X Prices : \E i \in DOMAIN queue[x[1]][x[2]] : queue[x[1]][x[2]][i].id = id}

\* restore inserts bids then asks, each in ascending price: the last insert of
\* an id wins.
LastInserted(places) ==
    CHOOSE x \in places : \A y \in places :
        \/ x[1] = "Ask" /\ y[1] = "Bid"
        \/ x[1] = y[1] /\ x[2] >= y[2]

\* Faulty variant: restore indexes the bids only.
RebuiltIndexOfBids ==
    [id \in Ids |-> LET bids == {x \in Places(id) : x[1] = "Bid"}
                    IN  IF bids = {} THEN NoEntry ELSE LastInserted(bids)]

RebuiltIndex ==
    [id \in Ids |-> IF Places(id) = {} THEN NoEntry ELSE LastInserted(Places(id))]

\* The book is replaced by restore(snapshot()): the deques and the trade-id
\* counter are in the snapshot, keys and by_id are rebuilt from the deques.
RestoreSnapshot ==
    /\ pc = "idle"
    /\ levels' = [s \in Sides |-> {p \in Prices : queue[s][p] # << >>}]
    /\ by_id' = RebuiltIndex
    /\ UNCHANGED <<queue, next_trade_id, callVars, result, historyVars>>

-----------------------------------------------------------------------------
MatchStep ==
    (\E p \in Prices : EnterLevel(p)) \/ DrainFront \/ LeaveLevel \/ ReturnFills

NextOrders == IF arrived < MaxOrders THEN OrdersWithRank(arrived + 1) ELSE {}

Next ==
    \/ \E o \in NextOrders : BeginMatch(o) \/ RejectFok(o)
    \/ MatchStep
    \/ \E id \in Ids : Cancel(id) \/ CancelUnknown(id)
    \/ RestoreSnapshot

\* A running call runs on: the engine never blocks inside match_order.
Spec == Init /\ [][Next]_vars /\ WF_vars(MatchStep)

-----------------------------------------------------------------------------
(***************************************************************************)
(* Properties.                                                             *)
(***************************************************************************)

\* Every variable has its type; a running call has a taker and a level.
TypeOK ==
    /\ levels \in [Sides -> SUBSET Prices]
    /\ queue \in [Sides -> [Prices -> Seq(Resting)]]
    /\ by_id \in [Ids -> IndexEntries]
    /\ next_trade_id \in Nat
    /\ pc \in {"idle", "sweep", "drain"}
    /\ pc # "idle" => taker \in OrderTypes
    /\ remaining \in Nat
    /\ price \in Prices
    /\ emptied \in SUBSET Ids
    /\ fills \in Seq(Fills)
    /\ result \in Seq(Trades)
    /\ arrived \in 0 .. MaxOrders
    /\ submitted \in [Ranks -> Nat]
    /\ filled \in [Ranks -> Nat]

\* The book is never crossed, not even between two iterations of match_order:
\* a GTC remainder rests only after every ask (bid) it could trade with is
\* gone (match_engine.rs, the loop's exits and the rest call after it).
NotCrossed ==
    \A bid \in levels["Bid"], ask \in levels["Ask"] : bid < ask

\* Outside the inner loop a price is a key of its side exactly when an order
\* rests there; an empty level left behind would make best_for return it for
\* ever (rest, cancel, drop_level_if_empty, restore).
LevelsExact ==
    \A s \in Sides, p \in Prices :
        (pc = "drain" /\ s = Opposite(taker.side) /\ p = price)
            \/ (p \in levels[s] <=> queue[s][p] # << >>)

\* Between calls by_id locates every resting order and nothing else, whatever
\* mix of fills, partial fills, cancels and restores came before.
IndexExact ==
    pc = "idle" =>
        \A id \in Ids :
            Places(id) = (IF by_id[id] = NoEntry THEN {} ELSE {by_id[id]})

\* C2: what an order has traded never exceeds what it was submitted with, and
\* a resting order, like the running taker, still holds exactly the rest.
FillConservation ==
    /\ \A n \in Ranks : filled[n] <= submitted[n]
    /\ \A s \in Sides, p \in Prices : \A i \in DOMAIN queue[s][p] :
           LET r == queue[s][p][i]
           IN  r.qty > 0 /\ r.qty + filled[r.rank] = submitted[r.rank]
    /\ pc # "idle" => remaining + filled[taker.rank] = submitted[taker.rank]

\* A fill-or-kill order that passed the pre-flight is filled in full when the
\* sweep ends: the discard branch is "unreachable" for it (match_engine.rs,
\* comment in the remainder's match).
FokAllOrNothing ==
    (pc = "sweep" /\ SweepDone /\ taker.kind = "Fok") => remaining = 0

\* C1 by arrival: an order trades only while no opposite order of a better
\* price, or of the same price and brought by an earlier call, rests.  The
\* matcher knows no other time: it is priority by platform_seq, as the design
\* words C1, only as far as orders reach the book in platform_seq order.
PriceTimePriority ==
    [][Len(fills') > Len(fills) =>
          LET f == fills'[Len(fills')]
              s == Opposite(taker.side)
          IN  \A p \in Prices : \A i \in DOMAIN queue[s][p] :
                 \/ queue[s][p][i].rank = f.maker
                 \/ WalkedBefore(taker.side, f.price, p)
                 \/ p = f.price /\ f.maker < queue[s][p][i].rank]_vars

\* Restoring a snapshot gives the book it was taken from, by_id included
\* (snapshot.rs: "identical state on restore").
SnapshotRoundTrip ==
    [][RestoreSnapshot => UNCHANGED bookVars]_vars

\* Every match_order call returns (both loops end).
MatchTerminates == pc # "idle" ~> pc = "idle"

=============================================================================
