-------------------------- MODULE OrderBookProofs --------------------------
(***************************************************************************)
(* Theorems about OrderBook, for any prices, ids and bounds.               *)
(***************************************************************************)
EXTENDS OrderBook, SumTheorems, SequenceTheorems

-----------------------------------------------------------------------------
(***************************************************************************)
(* Queues.                                                                 *)
(***************************************************************************)

\* push_back (rest): the queue keeps its type and is not empty.
LEMMA PushedBack ==
    ASSUME NEW S, NEW q \in Seq(S), NEW x \in S
    PROVE  Append(q, x) \in Seq(S) /\ Append(q, x) # << >>
BY AppendProperties, EmptySeq

\* front_mut and pop_front (match_order): what is left has the queue's type.
LEMMA PoppedFront ==
    ASSUME NEW S, NEW q \in Seq(S), q # << >>
    PROVE  /\ Head(q) \in S
           /\ Tail(q) \in Seq(S)
           /\ \A y \in S : <<y>> \o Tail(q) \in Seq(S)
<1>1. Head(q) \in S /\ Tail(q) \in Seq(S)
  BY HeadTailProperties
<1>2. \A y \in S : <<y>> \in Seq(S)
  OBVIOUS
<1>. QED
  BY <1>1, <1>2, ConcatProperties

\* Joining two queues.
LEMMA Joined ==
    ASSUME NEW S, NEW a \in Seq(S), NEW b \in Seq(S),
           NEW m \in Nat, NEW n \in Nat, Len(a) = m, Len(b) = n
    PROVE  /\ a \o b \in Seq(S)
           /\ a \o b = << >> <=> m + n = 0
<1>1. a \o b \in Seq(S) /\ Len(a \o b) = m + n
  BY ConcatProperties
<1>. QED
  BY <1>1, EmptySeq

\* The lengths of what precedes and what follows position k.
LEMMA Split ==
    ASSUME NEW n \in Nat, NEW k \in Nat, 1 <= k, k <= n
    PROVE  /\ k - 1 \in Nat /\ n - k \in Nat
           /\ (k - 1) + (n - k) = 0 <=> n = 1
OBVIOUS

\* remove (cancel): the queue keeps its type and is empty if it had one order.
LEMMA Removed ==
    ASSUME NEW S, NEW q \in Seq(S), NEW i \in 1 .. Len(q)
    PROVE  /\ RemoveAt(q, i) \in Seq(S)
           /\ RemoveAt(q, i) = << >> <=> Len(q) = 1
<1>1. Len(q) \in Nat /\ i \in Nat /\ 1 <= i /\ i <= Len(q)
  BY LenProperties
<1>2. PICK a, b : a = SubSeq(q, 1, i - 1) /\ b = SubSeq(q, i + 1, Len(q))
  OBVIOUS
<1>3. a \in Seq(S) /\ Len(a) = i - 1
  <2>1. \A k \in 1 .. i - 1 : q[k] \in S
    BY <1>1, ElementOfSeq
  <2>. QED
    BY <1>1, <1>2, <2>1, SubSeqProperties
<1>4. b \in Seq(S) /\ Len(b) = Len(q) - i
  <2>1. \A k \in i + 1 .. Len(q) : q[k] \in S
    BY <1>1, ElementOfSeq
  <2>. QED
    BY <1>1, <1>2, <2>1, SubSeqProperties
<1>5. /\ i - 1 \in Nat /\ Len(q) - i \in Nat
      /\ (i - 1) + (Len(q) - i) = 0 <=> Len(q) = 1
  BY <1>1, Split, Zenon
<1>6. a \o b \in Seq(S) /\ (a \o b = << >> <=> (i - 1) + (Len(q) - i) = 0)
  BY <1>3, <1>4, <1>5, Joined, Zenon
<1>. QED
  BY <1>2, <1>5, <1>6, Zenon DEF RemoveAt

\* Min, which SelectInSeq uses, is that element.
LEMMA MinIn ==
    ASSUME NEW I, I \subseteq Nat, I # {}
    PROVE  Min(I) \in I
BY Smallest DEF Min

\* position (cancel) answers a position of the queue, or none.
LEMMA PositionInQueue ==
    ASSUME NEW S, NEW q \in Seq(S), NEW id
    PROVE  PositionOf(id, q) \in 0 .. Len(q)
<1>. DEFINE I == {i \in 1 .. Len(q) : q[i].id = id}
<1>1. Len(q) \in Nat
  BY LenProperties
<1>2. PositionOf(id, q) = IF I # {} THEN Min(I) ELSE 0
  BY DEF PositionOf, SelectInSeq
<1>3. I \subseteq 1 .. Len(q)
  OBVIOUS
<1>. HIDE DEF I
<1>4. I \subseteq Nat
  BY <1>1, <1>3
<1>5. I # {} => Min(I) \in 1 .. Len(q)
  BY <1>3, <1>4, MinIn, Zenon
<1>6. CASE I # {}
  <2>1. PositionOf(id, q) = Min(I)
    BY <1>2, <1>6, Zenon
  <2>. QED
    BY <1>1, <1>5, <1>6, <2>1
<1>7. CASE I = {}
  <2>1. PositionOf(id, q) = 0
    BY <1>2, <1>7, Zenon
  <2>. QED
    BY <1>1, <2>1
<1>. QED
  BY <1>6, <1>7

\* restore inserts an id last at one of the places where it rests.
LEMMA LastInsertedIn ==
    ASSUME NEW places \in SUBSET (Sides \X Prices), places # {}
    PROVE  LastInserted(places) \in places
<1>1. PICK top \in Prices : \A p \in Prices : p <= top
  BY PricesAssumption
<1>2. ASSUME NEW s \in Sides, \E x \in places : x[1] = s
      PROVE  \E x \in places : x[1] = s /\ \A y \in places : y[1] = s => x[2] >= y[2]
  <2>. DEFINE I == {top - x[2] : x \in {y \in places : y[1] = s}}
  <2>1. I \subseteq Nat /\ I # {}
    BY <1>1, <1>2, PricesAssumption
  <2>2. PICK d \in I : \A e \in I : d =< e
    <3>. HIDE DEF I
    <3>. QED
      BY <2>1, Smallest
  <2>3. PICK x \in places : x[1] = s /\ d = top - x[2]
    BY <2>2
  <2>4. ASSUME NEW y \in places, y[1] = s
        PROVE  x[2] >= y[2]
    <3>1. d =< top - y[2]
      BY <2>2, <2>4
    <3>2. top \in Int /\ x[2] \in Int /\ y[2] \in Int
      BY PricesAssumption
    <3>3. top - x[2] =< top - y[2]
      BY <2>3, <3>1, Zenon
    <3>. QED
      BY <3>2, <3>3
  <2>. QED
    BY <2>3, <2>4
<1>3. \E x \in places : \A y \in places :
        \/ x[1] = "Ask" /\ y[1] = "Bid"
        \/ x[1] = y[1] /\ x[2] >= y[2]
  <2>1. \A y \in places : y[1] = "Bid" \/ y[1] = "Ask"
    BY DEF Sides
  <2>2. CASE \E x \in places : x[1] = "Ask"
    BY <1>2, <2>1, <2>2 DEF Sides
  <2>3. CASE ~ \E x \in places : x[1] = "Ask"
    BY <1>2, <2>1, <2>3 DEF Sides
  <2>. QED
    BY <2>2, <2>3
<1>. QED
  BY <1>3 DEF LastInserted

\* One deque of the book is replaced, the others stay.
LEMMA Replaced ==
    ASSUME NEW T, NEW F \in [Sides -> [Prices -> T]],
           NEW s \in Sides, NEW p \in Prices, NEW v \in T,
           NEW G, G = [F EXCEPT ![s][p] = v]
    PROVE  /\ G \in [Sides -> [Prices -> T]]
           /\ G[s][p] = v
           /\ \A t \in Sides, r \in Prices : (t # s \/ r # p) => G[t][r] = F[t][r]
<1>1. PICK f : f = [F[s] EXCEPT ![p] = v]
  OBVIOUS
<1>2. /\ f \in [Prices -> T] /\ f[p] = v
      /\ \A r \in Prices : r # p => f[r] = F[s][r]
  BY <1>1
<1>3. G = [F EXCEPT ![s] = f]
  BY <1>1
<1>. QED
  BY <1>2, <1>3

-----------------------------------------------------------------------------
(***************************************************************************)
(* Type correctness.                                                       *)
(***************************************************************************)

\* The price of a market order, which nothing reads, is a price.
LEMMA NoLimitIn == NoLimit \in Prices
BY PricesAssumption DEF NoLimit

\* What is known of an arriving order.
LEMMA OrderFacts ==
    ASSUME arrived \in 0 .. MaxOrders, NEW o \in NextOrders
    PROVE  /\ o \in OrderTypes /\ o.rank \in Ranks /\ o.qty \in Nat
           /\ o.rank = arrived + 1 /\ o.side \in Sides
<1>1. arrived < MaxOrders /\ o \in OrdersWithRank(arrived + 1)
  BY DEF NextOrders
<1>2. /\ o.rank = arrived + 1 /\ o.qty \in 0 .. MaxQty /\ o.side \in Sides
      /\ o \in [rank : {arrived + 1}, id : Ids, side : Sides, qty : 0 .. MaxQty,
                kind : Kinds, price : Prices]
  BY <1>1 DEF OrdersWithRank
<1>3. arrived + 1 \in Ranks
  BY <1>1, MaxOrdersAssumption DEF Ranks
<1>4. o \in OrderTypes
  BY <1>2, <1>3 DEF OrderTypes
<1>. QED
  BY <1>2, <1>3, <1>4, MaxQtyAssumption

\* An empty book (OrderBook::new) is well typed.
LEMMA TypeInit == Init => TypeOK
<1>. SUFFICES ASSUME Init
              PROVE  TypeOK
  OBVIOUS
<1>1. levels \in [Sides -> SUBSET Prices] /\ queue \in [Sides -> [Prices -> Seq(Resting)]]
  BY DEF Init
<1>2. by_id \in [Ids -> IndexEntries] /\ price \in Prices
  BY NoLimitIn DEF Init, IndexEntries
<1>3. arrived \in 0 .. MaxOrders
  BY MaxOrdersAssumption DEF Init
<1>4. fills \in Seq(Fills) /\ result \in Seq(Trades)
  BY EmptySeq DEF Init
<1>. QED
  BY <1>1, <1>2, <1>3, <1>4 DEF Init, TypeOK

\* TypeOK in three parts: the book, the running call, and the rest.
BookTypeOK ==
    /\ levels \in [Sides -> SUBSET Prices]
    /\ queue \in [Sides -> [Prices -> Seq(Resting)]]
    /\ by_id \in [Ids -> IndexEntries]
    /\ next_trade_id \in Nat

CallTypeOK ==
    /\ pc \in {"idle", "sweep", "drain"}
    /\ pc # "idle" => taker \in OrderTypes
    /\ remaining \in Nat
    /\ price \in Prices
    /\ emptied \in SUBSET Ids
    /\ fills \in Seq(Fills)

OutputTypeOK ==
    /\ result \in Seq(Trades)
    /\ arrived \in 0 .. MaxOrders
    /\ submitted \in [Ranks -> Nat]
    /\ filled \in [Ranks -> Nat]

\* The three parts make up TypeOK.
LEMMA TypeParts == TypeOK <=> BookTypeOK /\ CallTypeOK /\ OutputTypeOK
BY DEF TypeOK, BookTypeOK, CallTypeOK, OutputTypeOK

\* The fields of a running taker, and the side it trades with.
LEMMA TakerFacts ==
    ASSUME NEW o \in OrderTypes
    PROVE  /\ o.rank \in Ranks /\ o.id \in Ids /\ o.side \in Sides
           /\ o.price \in Prices /\ Opposite(o.side) \in Sides
           /\ Opposite(o.side) # o.side
BY DEF OrderTypes, Opposite, Sides

\* rest: one level gains an order, nothing else changes.
LEMMA RestFacts ==
    ASSUME BookTypeOK, NEW o \in OrderTypes, NEW qty \in Nat, Rest(o, qty)
    PROVE  /\ levels' \in [Sides -> SUBSET Prices]
           /\ queue' \in [Sides -> [Prices -> Seq(Resting)]]
           /\ by_id' \in [Ids -> IndexEntries]
           /\ levels'[o.side] = levels[o.side] \cup {o.price}
           /\ levels'[Opposite(o.side)] = levels[Opposite(o.side)]
           /\ queue'[o.side][o.price] # << >>
           /\ \A t \in Sides, r \in Prices :
                 (t # o.side \/ r # o.price) => queue'[t][r] = queue[t][r]
<1>1. /\ o.rank \in Ranks /\ o.id \in Ids /\ o.side \in Sides
      /\ o.price \in Prices /\ Opposite(o.side) \in Sides
      /\ Opposite(o.side) # o.side
  BY TakerFacts
<1>2. PICK v : v = Append(queue[o.side][o.price], [rank |-> o.rank, id |-> o.id, qty |-> qty])
  OBVIOUS
<1>3. v \in Seq(Resting) /\ v # << >>
  <2>1. [rank |-> o.rank, id |-> o.id, qty |-> qty] \in Resting
    BY <1>1 DEF Resting
  <2>2. queue[o.side][o.price] \in Seq(Resting)
    BY <1>1 DEF BookTypeOK
  <2>. QED
    BY <1>2, <2>1, <2>2, PushedBack
<1>4. queue' = [queue EXCEPT ![o.side][o.price] = v]
  BY <1>2 DEF Rest
<1>5. /\ queue' \in [Sides -> [Prices -> Seq(Resting)]]
      /\ queue'[o.side][o.price] = v
      /\ \A t \in Sides, r \in Prices :
            (t # o.side \/ r # o.price) => queue'[t][r] = queue[t][r]
  <2>1. queue \in [Sides -> [Prices -> Seq(Resting)]]
    BY DEF BookTypeOK
  <2>. QED
    BY <1>1, <1>3, <1>4, <2>1, Replaced
<1>6. /\ levels' \in [Sides -> SUBSET Prices]
      /\ levels'[o.side] = levels[o.side] \cup {o.price}
      /\ levels'[Opposite(o.side)] = levels[Opposite(o.side)]
  BY <1>1 DEF Rest, BookTypeOK
<1>7. by_id' \in [Ids -> IndexEntries]
  <2>1. <<o.side, o.price>> \in IndexEntries
    BY <1>1 DEF IndexEntries
  <2>. QED
    BY <1>1, <2>1 DEF Rest, BookTypeOK
<1>. QED
  BY <1>3, <1>5, <1>6, <1>7

\* The inner loop: the front of one level shrinks or goes, and only there.
LEMMA DrainFacts ==
    ASSUME BookTypeOK, CallTypeOK, OutputTypeOK, DrainFront
    PROVE  /\ queue' \in [Sides -> [Prices -> Seq(Resting)]]
           /\ remaining' \in Nat
           /\ emptied' \in SUBSET Ids
           /\ fills' \in Seq(Fills)
           /\ filled' \in [Ranks -> Nat]
           /\ \A t \in Sides, r \in Prices :
                 (t # Opposite(taker.side) \/ r # price) => queue'[t][r] = queue[t][r]
<1>. DEFINE s == Opposite(taker.side)
            q == queue[s][price]
            front == Head(q)
            t == Traded(front)
<1>1. /\ taker \in OrderTypes /\ taker.rank \in Ranks
      /\ s \in Sides /\ price \in Prices /\ remaining \in Nat
  BY TakerFacts DEF DrainFront, CallTypeOK
<1>2. q \in Seq(Resting) /\ q # << >>
  BY <1>1 DEF BookTypeOK, DrainFront
<1>3. /\ front \in Resting /\ Tail(q) \in Seq(Resting)
      /\ \A y \in Resting : <<y>> \o Tail(q) \in Seq(Resting)
  BY <1>2, PoppedFront
<1>4. front.rank \in Ranks /\ front.id \in Ids /\ front.qty \in Nat
  BY <1>3 DEF Resting
<1>5. t \in Nat /\ remaining - t \in Nat /\ front.qty - t \in Nat
  BY <1>1, <1>4 DEF Traded
<1>6. PICK v : v = IF t = front.qty THEN Tail(q)
                   ELSE <<[front EXCEPT !.qty = @ - t]>> \o Tail(q)
  OBVIOUS
<1>7. v \in Seq(Resting)
  <2>1. [front EXCEPT !.qty = @ - t] \in Resting
    BY <1>3, <1>5 DEF Resting
  <2>. QED
    BY <1>3, <1>6, <2>1, Zenon
<1>8. queue' = [queue EXCEPT ![s][price] = v]
  BY <1>6 DEF DrainFront
<1>9. /\ queue' \in [Sides -> [Prices -> Seq(Resting)]]
      /\ \A u \in Sides, r \in Prices :
            (u # s \/ r # price) => queue'[u][r] = queue[u][r]
  <2>1. queue \in [Sides -> [Prices -> Seq(Resting)]]
    BY DEF BookTypeOK
  <2>. QED
    BY <1>1, <1>7, <1>8, <2>1, Replaced
<1>10. fills' \in Seq(Fills)
  <2>1. [maker |-> front.rank, price |-> price, qty |-> t] \in Fills
    BY <1>1, <1>4, <1>5 DEF Fills
  <2>2. fills' = Append(fills, [maker |-> front.rank, price |-> price, qty |-> t])
    BY DEF DrainFront
  <2>3. fills \in Seq(Fills)
    BY DEF CallTypeOK
  <2>. QED
    BY <2>1, <2>2, <2>3, AppendProperties
<1>11. remaining' \in Nat /\ emptied' \in SUBSET Ids
  BY <1>4, <1>5 DEF DrainFront, CallTypeOK
<1>12. filled' \in [Ranks -> Nat]
  <2>1. filled \in [Ranks -> Nat]
    BY DEF OutputTypeOK
  <2>2. filled' = [filled EXCEPT ![front.rank] = @ + t, ![taker.rank] = @ + t]
    BY DEF DrainFront
  <2>. HIDE DEF t, front
  <2>. QED
    BY <1>1, <1>4, <1>5, <2>1, <2>2
<1>. QED
  BY <1>9, <1>10, <1>11, <1>12

\* The inner loop ends: the level goes if it is empty, and no other.
LEMMA LeaveFacts ==
    ASSUME BookTypeOK, CallTypeOK, LeaveLevel
    PROVE  /\ levels' \in [Sides -> SUBSET Prices]
           /\ by_id' \in [Ids -> IndexEntries]
           /\ \A t \in Sides : levels'[t] =
                 IF t = Opposite(taker.side) /\ queue[t][price] = << >>
                 THEN levels[t] \ {price} ELSE levels[t]
<1>1. Opposite(taker.side) \in Sides
  BY TakerFacts DEF LeaveLevel, CallTypeOK
<1>2. by_id' \in [Ids -> IndexEntries]
  BY DEF LeaveLevel, ForgetIds, IndexEntries, BookTypeOK
<1>3. CASE queue[Opposite(taker.side)][price] = << >>
  <2>1. levels' = [levels EXCEPT ![Opposite(taker.side)] = @ \ {price}]
    BY <1>3 DEF LeaveLevel, DropLevelIfEmpty
  <2>. QED
    BY <1>1, <1>2, <1>3, <2>1 DEF BookTypeOK
<1>4. CASE queue[Opposite(taker.side)][price] # << >>
  <2>1. levels' = levels
    BY <1>4 DEF LeaveLevel, DropLevelIfEmpty
  <2>. QED
    BY <1>2, <1>4, <2>1 DEF BookTypeOK
<1>. QED
  BY <1>3, <1>4

\* cancel: an order leaves one level, which goes with its last order.
LEMMA CancelFacts ==
    ASSUME BookTypeOK, NEW id \in Ids, Cancel(id)
    PROVE  /\ levels' \in [Sides -> SUBSET Prices]
           /\ queue' \in [Sides -> [Prices -> Seq(Resting)]]
           /\ by_id' \in [Ids -> IndexEntries]
           /\ \A t \in Sides : levels'[t] \subseteq levels[t]
           /\ \A t \in Sides, r \in Prices :
                 (r \in levels[t] <=> queue[t][r] # << >>)
                    => (r \in levels'[t] <=> queue'[t][r] # << >>)
<1>. DEFINE s == by_id[id][1]
            p == by_id[id][2]
            idx == PositionOf(id, queue[s][p])
<1>1. by_id' \in [Ids -> IndexEntries]
  BY DEF Cancel, IndexEntries, BookTypeOK
<1>2. s \in Sides /\ p \in Prices
  <2>1. by_id[id] \in Sides \X Prices
    BY DEF Cancel, IndexEntries, BookTypeOK
  <2>. QED
    BY <2>1
<1>3. queue[s][p] \in Seq(Resting)
  BY <1>2 DEF BookTypeOK
<1>4. CASE idx = 0
  <2>1. levels' = levels /\ queue' = queue
    BY <1>4 DEF Cancel
  <2>. QED
    BY <1>1, <2>1 DEF BookTypeOK
<1>5. CASE idx # 0
  <2>1. PICK v : v = RemoveAt(queue[s][p], idx)
    OBVIOUS
  <2>2. v \in Seq(Resting) /\ (v = << >> <=> Len(queue[s][p]) = 1)
    <3>1. PICK q : q = queue[s][p]
      OBVIOUS
    <3>2. PICK i : i = idx
      OBVIOUS
    <3>3. i \in 1 .. Len(q)
      <4>1. i \in 0 .. Len(q) /\ i # 0
        BY <1>3, <1>5, <3>1, <3>2, PositionInQueue, Zenon
      <4>2. Len(q) \in Nat
        BY <1>3, <3>1, LenProperties
      <4>. QED
        BY <4>1, <4>2
    <3>4. v = RemoveAt(q, i) /\ q \in Seq(Resting)
      BY <1>3, <2>1, <3>1, <3>2
    <3>5. v \in Seq(Resting) /\ (v = << >> <=> Len(q) = 1)
      BY <3>3, <3>4, Removed, Zenon
    <3>. QED
      BY <3>1, <3>5, Zenon
  <2>3. queue' = [queue EXCEPT ![s][p] = v]
    BY <1>5, <2>1 DEF Cancel
  <2>4. /\ queue' \in [Sides -> [Prices -> Seq(Resting)]]
        /\ queue'[s][p] = v
        /\ \A t \in Sides, r \in Prices :
              (t # s \/ r # p) => queue'[t][r] = queue[t][r]
    <3>1. queue \in [Sides -> [Prices -> Seq(Resting)]]
      BY DEF BookTypeOK
    <3>. HIDE DEF s, p
    <3>. QED
      BY <1>2, <2>2, <2>3, <3>1, Replaced
  <2>5. levels' = IF Len(queue[s][p]) = 1 THEN [levels EXCEPT ![s] = @ \ {p}] ELSE levels
    BY <1>5 DEF Cancel
  <2>6. queue[s][p] # << >>
    <3>1. idx \in 0 .. Len(queue[s][p])
      BY <1>3, PositionInQueue, Zenon
    <3>. HIDE DEF idx
    <3>. QED
      BY <1>3, <1>5, <3>1
  <2>. HIDE DEF s, p, idx
  <2>7. /\ levels' \in [Sides -> SUBSET Prices]
        /\ \A t \in Sides : levels'[t] =
              IF t = s /\ v = << >> THEN levels[t] \ {p} ELSE levels[t]
    BY <1>2, <2>2, <2>5 DEF BookTypeOK
  <2>. QED
    BY <1>1, <1>2, <2>2, <2>4, <2>6, <2>7
<1>. QED
  BY <1>4, <1>5

\* restore: the keys are the prices at which something rests.
LEMMA RestoreFacts ==
    ASSUME BookTypeOK, RestoreSnapshot
    PROVE  /\ levels' \in [Sides -> SUBSET Prices]
           /\ by_id' \in [Ids -> IndexEntries]
           /\ \A t \in Sides, r \in Prices : r \in levels'[t] <=> queue'[t][r] # << >>
<1>1. by_id' = [id \in Ids |-> IF Places(id) = {} THEN NoEntry ELSE LastInserted(Places(id))]
  BY DEF RestoreSnapshot, RebuiltIndex
<1>2. ASSUME NEW id \in Ids, Places(id) # {}
      PROVE  LastInserted(Places(id)) \in Sides \X Prices
  <2>1. Places(id) \in SUBSET (Sides \X Prices)
    BY DEF Places
  <2>. QED
    BY <1>2, <2>1, LastInsertedIn
<1>3. by_id' \in [Ids -> IndexEntries]
  BY <1>1, <1>2 DEF IndexEntries
<1>4. levels' = [s \in Sides |-> {p \in Prices : queue[s][p] # << >>}] /\ queue' = queue
  BY DEF RestoreSnapshot
<1>. QED
  BY <1>3, <1>4

\* The fills a call returns, numbered.
LEMMA ReturnedType ==
    ASSUME CallTypeOK, next_trade_id \in Nat, ReturnFills
    PROVE  result' \in Seq(Trades) /\ next_trade_id' \in Nat
<1>1. fills \in Seq(Fills) /\ Len(fills) \in Nat
  BY LenProperties DEF CallTypeOK
<1>2. taker.rank \in Ranks
  BY TakerFacts DEF CallTypeOK, ReturnFills
<1>3. ASSUME NEW i \in 1 .. Len(fills)
      PROVE  [trade_id |-> next_trade_id + i - 1, taker |-> taker.rank,
              maker |-> fills[i].maker, price |-> fills[i].price,
              qty |-> fills[i].qty] \in Trades
  <2>1. fills[i] \in Fills
    BY <1>1, ElementOfSeq
  <2>2. fills[i].maker \in Ranks /\ fills[i].price \in Prices /\ fills[i].qty \in Nat
    BY <2>1 DEF Fills
  <2>3. next_trade_id + i - 1 \in Nat
    BY <1>1
  <2>. QED
    BY <1>2, <2>2, <2>3 DEF Trades
<1>4. result' \in Seq(Trades)
  <2>1. result' = [i \in 1 .. Len(fills) |->
                     [trade_id |-> next_trade_id + i - 1, taker |-> taker.rank,
                      maker |-> fills[i].maker, price |-> fills[i].price,
                      qty |-> fills[i].qty]]
    BY DEF ReturnFills
  <2>. QED
    BY <1>1, <1>3, <2>1, IsASeq
<1>. QED
  BY <1>1, <1>4 DEF ReturnFills

\* Every operation keeps the types: one step per action.
LEMMA TypeStep == TypeOK /\ [Next]_vars => TypeOK'
<1>. SUFFICES ASSUME TypeOK, [Next]_vars
              PROVE  BookTypeOK' /\ CallTypeOK' /\ OutputTypeOK'
  BY TypeParts DEF TypeOK, BookTypeOK, CallTypeOK, OutputTypeOK
<1>. BookTypeOK /\ CallTypeOK /\ OutputTypeOK
  BY TypeParts
<1>1. ASSUME NEW o \in NextOrders, BeginMatch(o)
      PROVE  BookTypeOK' /\ CallTypeOK' /\ OutputTypeOK'
  <2>1. o \in OrderTypes /\ o.rank \in Ranks /\ o.qty \in Nat
    BY OrderFacts DEF OutputTypeOK
  <2>2. CallTypeOK'
    BY <1>1, <2>1, EmptySeq DEF BeginMatch, CallTypeOK
  <2>3. OutputTypeOK'
    BY <1>1, <2>1 DEF BeginMatch, Arrive, OutputTypeOK, Ranks
  <2>. QED
    BY <1>1, <2>2, <2>3 DEF BeginMatch, bookVars, BookTypeOK
<1>2. ASSUME NEW o \in NextOrders, RejectFok(o)
      PROVE  BookTypeOK' /\ CallTypeOK' /\ OutputTypeOK'
  <2>1. o \in OrderTypes /\ o.rank \in Ranks /\ o.qty \in Nat
    BY OrderFacts DEF OutputTypeOK
  <2>2. OutputTypeOK'
    BY <1>2, <2>1, EmptySeq DEF RejectFok, Arrive, OutputTypeOK, Ranks
  <2>. QED
    BY <1>2, <2>2 DEF RejectFok, bookVars, callVars, BookTypeOK, CallTypeOK
<1>3. ASSUME NEW p \in Prices, EnterLevel(p)
      PROVE  BookTypeOK' /\ CallTypeOK' /\ OutputTypeOK'
  BY <1>3 DEF EnterLevel, bookVars, historyVars, BookTypeOK, CallTypeOK, OutputTypeOK
<1>4. CASE DrainFront
  <2>1. /\ queue' \in [Sides -> [Prices -> Seq(Resting)]]
        /\ remaining' \in Nat /\ emptied' \in SUBSET Ids
        /\ fills' \in Seq(Fills) /\ filled' \in [Ranks -> Nat]
    BY <1>4, DrainFacts
  <2>2. UNCHANGED <<levels, by_id, next_trade_id, pc, taker, price, result, arrived, submitted>>
    BY <1>4 DEF DrainFront
  <2>. QED
    BY <2>1, <2>2 DEF BookTypeOK, CallTypeOK, OutputTypeOK
<1>5. CASE LeaveLevel
  <2>1. levels' \in [Sides -> SUBSET Prices] /\ by_id' \in [Ids -> IndexEntries]
    BY <1>5, LeaveFacts
  <2>. QED
    BY <1>5, <2>1 DEF LeaveLevel, historyVars, BookTypeOK, CallTypeOK, OutputTypeOK
<1>6. CASE ReturnFills
  <2>1. result' \in Seq(Trades) /\ next_trade_id' \in Nat
    BY <1>6, ReturnedType DEF BookTypeOK
  <2>2. /\ levels' \in [Sides -> SUBSET Prices]
        /\ queue' \in [Sides -> [Prices -> Seq(Resting)]]
        /\ by_id' \in [Ids -> IndexEntries]
    <3>1. taker \in OrderTypes /\ remaining \in Nat
      BY <1>6 DEF ReturnFills, CallTypeOK
    <3>2. CASE Rest(taker, remaining)
      BY <3>1, <3>2, RestFacts
    <3>3. CASE UNCHANGED <<levels, queue, by_id>>
      BY <3>3 DEF BookTypeOK
    <3>. QED
      BY <1>6, <3>2, <3>3 DEF ReturnFills
  <2>3. CallTypeOK'
    BY <1>6, NoLimitIn, EmptySeq DEF ReturnFills, CallTypeOK
  <2>. QED
    BY <1>6, <2>1, <2>2, <2>3 DEF ReturnFills, historyVars, BookTypeOK, OutputTypeOK
<1>7. ASSUME NEW id \in Ids, Cancel(id)
      PROVE  BookTypeOK' /\ CallTypeOK' /\ OutputTypeOK'
  <2>1. /\ levels' \in [Sides -> SUBSET Prices]
        /\ queue' \in [Sides -> [Prices -> Seq(Resting)]]
        /\ by_id' \in [Ids -> IndexEntries]
    BY <1>7, CancelFacts
  <2>2. UNCHANGED <<next_trade_id, callVars, result, historyVars>>
    BY <1>7 DEF Cancel
  <2>. QED
    BY <2>1, <2>2 DEF callVars, historyVars, BookTypeOK, CallTypeOK, OutputTypeOK
<1>8. CASE RestoreSnapshot
  <2>1. levels' \in [Sides -> SUBSET Prices] /\ by_id' \in [Ids -> IndexEntries]
    BY <1>8, RestoreFacts
  <2>2. UNCHANGED <<queue, next_trade_id, callVars, result, historyVars>>
    BY <1>8 DEF RestoreSnapshot
  <2>. QED
    BY <2>1, <2>2 DEF callVars, historyVars, BookTypeOK, CallTypeOK, OutputTypeOK
<1>9. CASE UNCHANGED vars
  BY <1>9 DEF vars, bookVars, callVars, historyVars, BookTypeOK, CallTypeOK, OutputTypeOK
<1>. QED
  BY <1>1, <1>2, <1>3, <1>4, <1>5, <1>6, <1>7, <1>8, <1>9 DEF Next, MatchStep, CancelUnknown

\* Every variable of the book and of a running match_order call keeps its type:
\* no quantity goes negative, no trade leaves the book's prices.
THEOREM BookTypeCorrect == Spec => []TypeOK
<1>. QED
  BY TypeInit, TypeStep, PTL DEF Spec

-----------------------------------------------------------------------------
(***************************************************************************)
(* The keys of the book.                                                   *)
(***************************************************************************)

\* The level being drained is a key: LeaveLevel relies on it when the level
\* is not emptied.
DrainsKey == pc = "drain" => price \in levels[Opposite(taker.side)]

BookInv == TypeOK /\ NotCrossed /\ LevelsExact /\ DrainsKey

\* A book with fewer keys is not crossed if the larger one was not.
LEMMA FewerKeys ==
    ASSUME NotCrossed, \A t \in Sides : levels'[t] \subseteq levels[t]
    PROVE  NotCrossed'
<1>1. levels'["Bid"] \subseteq levels["Bid"] /\ levels'["Ask"] \subseteq levels["Ask"]
  BY DEF Sides
<1>. QED
  BY <1>1 DEF NotCrossed

\* When the outer loop of a limit order ends with a remainder, the opposite
\* side has no price the order crosses.
LEMMA SweptClean ==
    ASSUME TypeOK, pc = "sweep", SweepDone, remaining > 0, taker.kind = "Gtc"
    PROVE  \A q \in levels[Opposite(taker.side)] : ~ CrossesPrice(taker.side, q, taker.price)
<1>1. taker \in OrderTypes /\ levels \in [Sides -> SUBSET Prices]
  BY DEF TypeOK
<1>2. /\ taker.side \in Sides /\ taker.price \in Prices
      /\ Opposite(taker.side) \in Sides
  BY <1>1, TakerFacts
<1>. SUFFICES ASSUME NEW q \in levels[Opposite(taker.side)]
              PROVE  ~ CrossesPrice(taker.side, q, taker.price)
  OBVIOUS
<1>3. PICK p \in Prices : IsBest(taker.side, p) /\ ~ Crosses(taker, p)
  BY DEF SweepDone
<1>4. ~ CrossesPrice(taker.side, p, taker.price) /\ ~ WalkedBefore(taker.side, q, p)
  BY <1>3 DEF IsBest, Crosses
<1>5. p \in Int /\ q \in Int /\ taker.price \in Int
  BY <1>1, <1>2, PricesAssumption
<1>. QED
  BY <1>2, <1>4, <1>5 DEF CrossesPrice, WalkedBefore, Sides

\* rest does not cross the book.
LEMMA RestNotCrossed ==
    ASSUME TypeOK, NotCrossed, NEW o \in OrderTypes, NEW qty \in Nat, Rest(o, qty),
           \A q \in levels[Opposite(o.side)] : ~ CrossesPrice(o.side, q, o.price)
    PROVE  NotCrossed'
<1>1. /\ levels'[o.side] = levels[o.side] \cup {o.price}
      /\ levels'[Opposite(o.side)] = levels[Opposite(o.side)]
  BY TypeParts, RestFacts
<1>2. o.side \in Sides /\ o.price \in Prices
  BY TakerFacts
<1>3. levels["Bid"] \subseteq Int /\ levels["Ask"] \subseteq Int /\ o.price \in Int
  BY <1>2, PricesAssumption DEF TypeOK, Sides
<1>4. CASE o.side = "Bid"
  BY <1>1, <1>3, <1>4 DEF NotCrossed, CrossesPrice, Opposite
<1>5. CASE o.side = "Ask"
  BY <1>1, <1>3, <1>5 DEF NotCrossed, CrossesPrice, Opposite
<1>. QED
  BY <1>2, <1>4, <1>5 DEF Sides

\* An empty book satisfies the invariant.
LEMMA BookInit == Init => BookInv
<1>. SUFFICES ASSUME Init
              PROVE  BookInv
  OBVIOUS
<1>1. NotCrossed /\ LevelsExact /\ DrainsKey
  BY DEF Init, NotCrossed, LevelsExact, DrainsKey, Sides
<1>. QED
  BY <1>1, TypeInit DEF BookInv

\* One step per action; TypeOK' comes from TypeStep.
LEMMA BookStep == BookInv /\ [Next]_vars => BookInv'
<1>. SUFFICES ASSUME BookInv, [Next]_vars
              PROVE  NotCrossed' /\ LevelsExact' /\ DrainsKey'
  BY TypeStep DEF BookInv
<1>0. TypeOK /\ TypeOK' /\ BookTypeOK /\ CallTypeOK /\ OutputTypeOK
  BY TypeParts, TypeStep DEF BookInv
<1>1. CASE UNCHANGED <<levels, queue>> /\ pc # "drain" /\ pc' # "drain"
  BY <1>1 DEF BookInv, NotCrossed, LevelsExact, DrainsKey
<1>2. ASSUME NEW p \in Prices, EnterLevel(p)
      PROVE  NotCrossed' /\ LevelsExact' /\ DrainsKey'
  <2>1. /\ UNCHANGED <<levels, queue, taker>> /\ price' = p
        /\ p \in levels[Opposite(taker.side)] /\ pc = "sweep"
    BY <1>2 DEF EnterLevel, bookVars, IsBest
  <2>. QED
    BY <2>1 DEF BookInv, NotCrossed, LevelsExact, DrainsKey
<1>3. CASE DrainFront
  <2>1. \A t \in Sides, r \in Prices :
          (t # Opposite(taker.side) \/ r # price) => queue'[t][r] = queue[t][r]
    BY <1>0, <1>3, DrainFacts
  <2>2. UNCHANGED <<levels, pc, taker, price>> /\ pc = "drain"
    BY <1>3 DEF DrainFront
  <2>. QED
    BY <2>1, <2>2 DEF BookInv, NotCrossed, LevelsExact, DrainsKey
<1>4. CASE LeaveLevel
  <2>1. \A t \in Sides : levels'[t] =
          IF t = Opposite(taker.side) /\ queue[t][price] = << >>
          THEN levels[t] \ {price} ELSE levels[t]
    BY <1>0, <1>4, LeaveFacts
  <2>2. queue' = queue /\ pc = "drain" /\ pc' = "sweep"
    BY <1>4 DEF LeaveLevel
  <2>3. NotCrossed'
    BY <2>1, FewerKeys DEF BookInv
  <2>4. LevelsExact'
    BY <2>1, <2>2 DEF BookInv, LevelsExact, DrainsKey
  <2>. QED
    BY <2>2, <2>3, <2>4 DEF DrainsKey
<1>5. CASE ReturnFills
  <2>1. pc = "sweep" /\ pc' = "idle" /\ taker \in OrderTypes /\ remaining \in Nat
    BY <1>0, <1>5 DEF ReturnFills, CallTypeOK
  <2>2. CASE remaining > 0 /\ Rests(taker)
    <3>1. Rest(taker, remaining)
      BY <1>5, <2>2 DEF ReturnFills
    <3>2. NotCrossed'
      <4>1. \A q \in levels[Opposite(taker.side)] :
              ~ CrossesPrice(taker.side, q, taker.price)
        BY <1>0, <1>5, <2>1, <2>2, SweptClean DEF ReturnFills, Rests
      <4>. QED
        BY <1>0, <2>1, <3>1, <4>1, RestNotCrossed DEF BookInv
    <3>3. /\ levels'[taker.side] = levels[taker.side] \cup {taker.price}
          /\ levels'[Opposite(taker.side)] = levels[Opposite(taker.side)]
          /\ queue'[taker.side][taker.price] # << >>
          /\ \A t \in Sides, r \in Prices :
                (t # taker.side \/ r # taker.price) => queue'[t][r] = queue[t][r]
      BY <1>0, <2>1, <3>1, RestFacts
    <3>4. \A t \in Sides : t = taker.side \/ t = Opposite(taker.side)
      BY <2>1, TakerFacts DEF Sides, Opposite
    <3>5. LevelsExact'
      BY <2>1, <3>3, <3>4, TakerFacts DEF BookInv, LevelsExact
    <3>. QED
      BY <2>1, <3>2, <3>5 DEF DrainsKey
  <2>3. CASE ~ (remaining > 0 /\ Rests(taker))
    BY <1>1, <1>5, <2>1, <2>3 DEF ReturnFills
  <2>. QED
    BY <2>2, <2>3
<1>6. ASSUME NEW id \in Ids, Cancel(id)
      PROVE  NotCrossed' /\ LevelsExact' /\ DrainsKey'
  <2>1. /\ \A t \in Sides : levels'[t] \subseteq levels[t]
        /\ \A t \in Sides, r \in Prices :
              (r \in levels[t] <=> queue[t][r] # << >>)
                 => (r \in levels'[t] <=> queue'[t][r] # << >>)
    BY <1>0, <1>6, CancelFacts
  <2>2. pc = "idle" /\ pc' = "idle"
    BY <1>6 DEF Cancel, callVars
  <2>. QED
    BY <2>1, <2>2, FewerKeys DEF BookInv, LevelsExact, DrainsKey
<1>7. CASE RestoreSnapshot
  <2>1. \A t \in Sides, r \in Prices : r \in levels'[t] <=> queue'[t][r] # << >>
    BY <1>0, <1>7, RestoreFacts
  <2>2. pc = "idle" /\ pc' = "idle" /\ queue' = queue
    BY <1>7 DEF RestoreSnapshot, callVars
  <2>3. LevelsExact' /\ DrainsKey'
    BY <2>1, <2>2 DEF LevelsExact, DrainsKey
  <2>4. \A t \in Sides : levels'[t] \subseteq levels[t]
    BY <1>0, <2>1, <2>2 DEF BookInv, LevelsExact, TypeOK
  <2>. QED
    BY <2>3, <2>4, FewerKeys DEF BookInv
<1>8. CASE UNCHANGED vars
  BY <1>8 DEF vars, bookVars, callVars, BookInv, NotCrossed, LevelsExact, DrainsKey
<1>9. ASSUME NEW o \in NextOrders, BeginMatch(o) \/ RejectFok(o)
      PROVE  NotCrossed' /\ LevelsExact' /\ DrainsKey'
  BY <1>1, <1>9 DEF BeginMatch, RejectFok, bookVars, callVars
<1>. QED
  BY <1>2, <1>3, <1>4, <1>5, <1>6, <1>7, <1>8, <1>9 DEF Next, MatchStep, CancelUnknown

\* The book is never crossed, at any iteration of match_order's loops.
THEOREM NeverCrossed == Spec => []NotCrossed
<1>1. BookInv => NotCrossed
  BY DEF BookInv
<1>. QED
  BY <1>1, BookInit, BookStep, PTL DEF Spec

\* A price is a key of the book exactly when an order rests there, whatever
\* match_order, cancel and restore have done; the level being drained excepted.
THEOREM KeysExact == Spec => []LevelsExact
<1>1. BookInv => LevelsExact
  BY DEF BookInv
<1>. QED
  BY <1>1, BookInit, BookStep, PTL DEF Spec


-----------------------------------------------------------------------------
(***************************************************************************)
(* How a step changes the deques, order by order.                          *)
(***************************************************************************)

\* v is q with its k-th order taken out.
TakenOut(q, k, v) ==
    /\ Len(v) = Len(q) - 1
    /\ \A j \in 1 .. Len(v) : v[j] = q[IF j < k THEN j ELSE j + 1]

\* pop_front.
LEMMA PoppedShape ==
    ASSUME NEW S, NEW q \in Seq(S), q # << >>
    PROVE  TakenOut(q, 1, Tail(q)) /\ 1 \in 1 .. Len(q) /\ q[1] = Head(q)
<1>1. /\ Len(q) \in Nat /\ Len(q) # 0
      /\ Tail(q) \in Seq(S) /\ Len(Tail(q)) = Len(q) - 1
      /\ \A j \in 1 .. Len(Tail(q)) : Tail(q)[j] = q[j + 1]
  BY HeadTailProperties, LenProperties, EmptySeq
<1> QED
  BY <1>1 DEF TakenOut

\* remove.
LEMMA RemovedShape ==
    ASSUME NEW S, NEW q \in Seq(S), NEW k \in 1 .. Len(q)
    PROVE  TakenOut(q, k, RemoveAt(q, k))
<1>1. PICK n \in Nat : n = Len(q)
  BY LenProperties
<1>2. PICK a, b : a = SubSeq(q, 1, k - 1) /\ b = SubSeq(q, k + 1, n)
  OBVIOUS
<1>3. k \in Nat /\ 1 <= k /\ k <= n /\ \A j \in 1 .. n : q[j] \in S
  BY <1>1, ElementOfSeq
<1>4. /\ a \in Seq(S) /\ Len(a) = k - 1
      /\ \A j \in 1 .. k - 1 : a[j] = q[j]
  <2>1. \A j \in 1 .. k - 1 : q[j] \in S
    BY <1>3
  <2> QED
    BY <1>1, <1>2, <1>3, <2>1, SubSeqProperties
<1>5. /\ b \in Seq(S) /\ Len(b) = n - k
      /\ \A j \in 1 .. n - k : b[j] = q[k + j]
  <2>1. \A j \in k + 1 .. n : q[j] \in S
    BY <1>3
  <2> QED
    BY <1>1, <1>2, <1>3, <2>1, SubSeqProperties
<1>6. PICK v : v = a \o b
  OBVIOUS
<1>7. Len(v) = n - 1 /\ \A j \in 1 .. n - 1 : v[j] = IF j <= k - 1 THEN a[j] ELSE b[j - (k - 1)]
  <2>1. PICK m \in Nat, l \in Nat : m = k - 1 /\ l = n - k
    BY <1>3
  <2>2. Len(v) = m + l /\ \A j \in 1 .. m + l : v[j] = IF j <= m THEN a[j] ELSE b[j - m]
    <3>1. a \in Seq(S) /\ b \in Seq(S) /\ Len(a) = m /\ Len(b) = l
      BY <1>4, <1>5, <2>1
    <3>2. /\ Len(a \o b) = m + l
          /\ \A j \in 1 .. m + l : (a \o b)[j] = IF j <= m THEN a[j] ELSE b[j - m]
      BY <3>1, ConcatProperties
    <3> QED
      BY <1>6, <3>2, Zenon
  <2>3. m + l = n - 1
    BY <1>3, <2>1
  <2> QED
    BY <2>1, <2>2, <2>3
<1>8. \A j \in 1 .. n - 1 : v[j] = q[IF j < k THEN j ELSE j + 1]
  <2> SUFFICES ASSUME NEW j \in 1 .. n - 1
               PROVE  v[j] = q[IF j < k THEN j ELSE j + 1]
    OBVIOUS
  <2>1. CASE j < k
    BY <1>3, <1>4, <1>7, <2>1
  <2>2. CASE ~ j < k
    <3>1. PICK i \in 1 .. n - k : i = j - (k - 1)
      BY <1>3, <2>2
    <3>2. v[j] = b[i] /\ k + i = j + 1
      BY <1>3, <1>7, <2>2, <3>1
    <3> QED
      BY <1>5, <2>2, <3>2
  <2> QED
    BY <2>1, <2>2
<1>9. RemoveAt(q, k) = v
  BY <1>1, <1>2, <1>6, Zenon DEF RemoveAt
<1> QED
  BY <1>1, <1>7, <1>8, <1>9 DEF TakenOut

\* All deques but one stay as they are.
Elsewhere(s, p) ==
    \A t \in Sides, r \in Prices : (t # s \/ r # p) => queue'[t][r] = queue[t][r]

\* The k-th order leaves the deque of a level (pop_front, cancel).
Leaves(s, p, k) ==
    /\ s \in Sides /\ p \in Prices /\ k \in DOMAIN queue[s][p]
    /\ TakenOut(queue[s][p], k, queue'[s][p])
    /\ Elsewhere(s, p)

\* The front of a level loses quantity t (a partial fill).
Shrinks(s, p, t) ==
    /\ s \in Sides /\ p \in Prices /\ 1 \in DOMAIN queue[s][p]
    /\ DOMAIN queue'[s][p] = DOMAIN queue[s][p]
    /\ queue'[s][p][1].rank = queue[s][p][1].rank
    /\ queue'[s][p][1].id = queue[s][p][1].id
    /\ queue'[s][p][1].qty = queue[s][p][1].qty - t
    /\ \A j \in DOMAIN queue[s][p] : j # 1 => queue'[s][p][j] = queue[s][p][j]
    /\ Elsewhere(s, p)

\* An order joins a level at the back (rest).
Joins(s, p, x) ==
    /\ s \in Sides /\ p \in Prices /\ x \in Resting
    /\ DOMAIN queue'[s][p] = 1 .. Len(queue[s][p]) + 1
    /\ queue'[s][p][Len(queue[s][p]) + 1] = x
    /\ \A j \in DOMAIN queue[s][p] : queue'[s][p][j] = queue[s][p][j]
    /\ Elsewhere(s, p)

LEMMA QueueFacts ==
    ASSUME BookTypeOK, NEW s \in Sides, NEW p \in Prices
    PROVE  /\ queue[s][p] \in Seq(Resting) /\ Len(queue[s][p]) \in Nat
           /\ DOMAIN queue[s][p] = 1 .. Len(queue[s][p])
           /\ \A i \in DOMAIN queue[s][p] :
                 /\ queue[s][p][i].rank \in Ranks /\ queue[s][p][i].rank \in Nat
                 /\ queue[s][p][i].id \in Ids /\ queue[s][p][i].qty \in Nat
<1>1. queue[s][p] \in Seq(Resting)
  BY DEF BookTypeOK
<1>2. Len(queue[s][p]) \in Nat /\ DOMAIN queue[s][p] = 1 .. Len(queue[s][p])
  BY <1>1, LenProperties
<1>3. \A i \in 1 .. Len(queue[s][p]) : queue[s][p][i] \in Resting
  BY <1>1, ElementOfSeq
<1> QED
  BY <1>1, <1>2, <1>3 DEF Resting, Ranks

\* The order at the front, as the inner loop sees it.
FrontOrder == queue[Opposite(taker.side)][price][1]

\* The inner loop takes the front out or makes it smaller.
LEMMA DrainMoves ==
    ASSUME BookTypeOK, CallTypeOK, OutputTypeOK, DrainFront
    PROVE  LET s == Opposite(taker.side)
               t == Traded(FrontOrder)
           IN  /\ 1 \in DOMAIN queue[s][price] /\ s \in Sides /\ price \in Prices
               /\ t \in Nat /\ t <= remaining /\ t <= FrontOrder.qty /\ remaining' = remaining - t
               /\ filled' = [filled EXCEPT ![FrontOrder.rank] = @ + t, ![taker.rank] = @ + t]
               /\ fills' = Append(fills, [maker |-> FrontOrder.rank, price |-> price, qty |-> t])
               /\ \/ Leaves(s, price, 1) /\ t = FrontOrder.qty
                     /\ emptied' = emptied \cup {FrontOrder.id}
                  \/ Shrinks(s, price, t) /\ t < FrontOrder.qty /\ emptied' = emptied
<1> DEFINE s == Opposite(taker.side)
           q == queue[s][price]
           front == Head(q)
           t == Traded(front)
<1>1. /\ taker \in OrderTypes /\ taker.rank \in Ranks
      /\ s \in Sides /\ price \in Prices /\ remaining \in Nat
  BY TakerFacts DEF DrainFront, CallTypeOK
<1>2. q \in Seq(Resting) /\ q # << >>
  BY <1>1 DEF BookTypeOK, DrainFront
<1>3. /\ front \in Resting /\ Tail(q) \in Seq(Resting)
      /\ \A y \in Resting : <<y>> \o Tail(q) \in Seq(Resting)
  BY <1>2, PoppedFront
<1>4. TakenOut(q, 1, Tail(q)) /\ 1 \in 1 .. Len(q) /\ q[1] = front
  BY <1>2, PoppedShape
<1>5. Len(q) \in Nat /\ DOMAIN q = 1 .. Len(q) /\ FrontOrder = front
  BY <1>2, <1>4, LenProperties DEF FrontOrder
<1>6. front.qty \in Nat
  BY <1>3 DEF Resting
<1>7. t \in Nat /\ t <= remaining /\ t <= front.qty /\ front.qty - t \in Nat
      /\ (t = front.qty \/ t < front.qty)
  BY <1>1, <1>6 DEF Traded
<1>8. PICK v : v = IF t = front.qty THEN Tail(q)
                   ELSE <<[front EXCEPT !.qty = @ - t]>> \o Tail(q)
  OBVIOUS
<1>9. queue' = [queue EXCEPT ![s][price] = v]
  BY <1>8 DEF DrainFront
<1>10. PICK y : y = [front EXCEPT !.qty = @ - t]
  OBVIOUS
<1>11. y \in Resting /\ y.rank = front.rank /\ y.id = front.id /\ y.qty = front.qty - t
  BY <1>3, <1>7, <1>10 DEF Resting
<1>12. PICK w : w = <<y>> \o Tail(q)
  OBVIOUS
<1>13. /\ w \in Seq(Resting) /\ Len(w) = Len(q) /\ w[1] = y
       /\ \A j \in 1 .. Len(q) : j # 1 => w[j] = q[j]
  <2>0. PICK n \in Nat : n = Len(q) /\ 1 <= n
    BY <1>4, <1>5
  <2>1. PICK m \in Nat : m + 1 = Len(q)
    BY <2>0
  <2>2. <<y>> \in Seq(Resting) /\ Len(<<y>>) = 1 /\ <<y>>[1] = y
    BY <1>11
  <2>3. Len(Tail(q)) = m /\ \A j \in 1 .. m : Tail(q)[j] = q[j + 1]
    BY <1>4, <2>1 DEF TakenOut
  <2>4. /\ w \in Seq(Resting) /\ Len(w) = 1 + m
        /\ \A j \in 1 .. 1 + m : w[j] = IF j <= 1 THEN <<y>>[j] ELSE Tail(q)[j - 1]
    BY <1>3, <1>12, <2>2, <2>3, ConcatProperties
  <2>5. w[1] = y
    BY <2>2, <2>4
  <2>6. ASSUME NEW j \in 1 .. Len(q), j # 1
        PROVE  w[j] = q[j]
    <3>1. PICK i \in 1 .. m : j = i + 1
      BY <2>1, <2>6
    <3>2. w[j] = Tail(q)[i]
      BY <2>4, <3>1
    <3> QED
      BY <2>3, <3>1, <3>2
  <2> QED
    BY <2>1, <2>4, <2>5, <2>6
<1>14. v = Tail(q) \/ v = w
  BY <1>8, <1>10, <1>12
<1>15. /\ queue'[s][price] = v
       /\ Elsewhere(s, price)
  <2>1. queue \in [Sides -> [Prices -> Seq(Resting)]] /\ v \in Seq(Resting)
    BY <1>3, <1>13, <1>14 DEF BookTypeOK
  <2> HIDE DEF s
  <2> QED
    BY <1>1, <1>9, <2>1, Replaced DEF Elsewhere
<1>16. /\ remaining' = remaining - t
       /\ filled' = [filled EXCEPT ![front.rank] = @ + t, ![taker.rank] = @ + t]
       /\ fills' = Append(fills, [maker |-> front.rank, price |-> price, qty |-> t])
       /\ emptied' = IF t = front.qty THEN emptied \cup {front.id} ELSE emptied
  BY DEF DrainFront
<1>17. CASE t = front.qty
  <2>1. v = Tail(q)
    BY <1>8, <1>17
  <2>2. Leaves(s, price, 1)
    BY <1>1, <1>4, <1>5, <1>15, <2>1 DEF Leaves
  <2> QED
    BY <1>1, <1>4, <1>5, <1>7, <1>16, <1>17, <2>2
<1>18. CASE t < front.qty
  <2>0. t # front.qty
    BY <1>6, <1>7, <1>18
  <2>1. v = w
    BY <1>8, <1>10, <1>12, <2>0
  <2>2. DOMAIN w = 1 .. Len(q)
    BY <1>13, LenProperties
  <2>3. Shrinks(s, price, t)
    BY <1>1, <1>4, <1>5, <1>11, <1>13, <1>15, <2>1, <2>2 DEF Shrinks
  <2> QED
    <3>1. emptied' = emptied
      BY <1>16, <2>0, Zenon
    <3>2. t = Traded(FrontOrder)
      BY <1>5
    <3> HIDE DEF t, front
    <3> QED
      BY <1>1, <1>4, <1>5, <1>7, <1>16, <1>18, <2>3, <3>1, <3>2
<1> QED
  BY <1>7, <1>17, <1>18

\* cancel takes an order with the id out of its level, or finds none there.
LEMMA CancelMoves ==
    ASSUME BookTypeOK, NEW id \in Ids, Cancel(id)
    PROVE  LET s == by_id[id][1]
               p == by_id[id][2]
           IN  /\ s \in Sides /\ p \in Prices /\ by_id[id] = <<s, p>>
               /\ by_id' = [by_id EXCEPT ![id] = NoEntry]
               /\ \/ queue' = queue /\ \A i \in DOMAIN queue[s][p] : queue[s][p][i].id # id
                  \/ \E k \in DOMAIN queue[s][p] : Leaves(s, p, k) /\ queue[s][p][k].id = id
<1> DEFINE s == by_id[id][1]
           p == by_id[id][2]
           idx == PositionOf(id, queue[s][p])
           I == {i \in 1 .. Len(queue[s][p]) : queue[s][p][i].id = id}
<1>1. s \in Sides /\ p \in Prices /\ by_id[id] = <<s, p>>
  <2>1. by_id[id] \in Sides \X Prices
    BY DEF Cancel, IndexEntries, BookTypeOK
  <2> QED
    BY <2>1
<1>2. /\ queue[s][p] \in Seq(Resting) /\ Len(queue[s][p]) \in Nat
      /\ DOMAIN queue[s][p] = 1 .. Len(queue[s][p])
  BY <1>1, QueueFacts
<1>3. idx = IF I # {} THEN Min(I) ELSE 0
  BY DEF PositionOf, SelectInSeq
<1>4. I \subseteq Nat /\ I \subseteq 1 .. Len(queue[s][p])
  BY <1>2
<1>5. by_id' = [by_id EXCEPT ![id] = NoEntry]
  BY DEF Cancel
<1>6. CASE I = {}
  <2>1. idx = 0
    BY <1>3, <1>6, Zenon
  <2>2. queue' = queue
    BY <2>1 DEF Cancel
  <2>3. \A i \in DOMAIN queue[s][p] : queue[s][p][i].id # id
    BY <1>2, <1>6
  <2> QED
    BY <1>1, <1>5, <2>2, <2>3
<1>7. CASE I # {}
  <2>1. PICK k : k = idx
    OBVIOUS
  <2>2. k \in I
    <3>1. k = Min(I)
      BY <1>3, <1>7, <2>1, Zenon
    <3> HIDE DEF I
    <3> QED
      BY <1>4, <1>7, <3>1, MinIn
  <2>3. k \in 1 .. Len(queue[s][p]) /\ queue[s][p][k].id = id /\ k # 0
    BY <2>2
  <2>4. PICK v : v = RemoveAt(queue[s][p], k)
    OBVIOUS
  <2>5. queue' = [queue EXCEPT ![s][p] = v]
    <3>1. idx # 0
      BY <2>1, <2>3
    <3>2. queue' = [queue EXCEPT ![s][p] = RemoveAt(@, idx)]
      BY <3>1 DEF Cancel
    <3> QED
      BY <2>1, <2>4, <3>2
  <2>6. PICK q : q = queue[s][p]
    OBVIOUS
  <2>7. v \in Seq(Resting) /\ TakenOut(q, k, v)
    <3>1. q \in Seq(Resting) /\ k \in 1 .. Len(q) /\ v = RemoveAt(q, k)
      BY <1>2, <2>3, <2>4, <2>6
    <3> QED
      BY <3>1, Removed, RemovedShape, Zenon
  <2>8. queue'[s][p] = v /\ Elsewhere(s, p)
    <3>1. queue \in [Sides -> [Prices -> Seq(Resting)]]
      BY DEF BookTypeOK
    <3> HIDE DEF s, p
    <3> QED
      BY <1>1, <2>5, <2>7, <3>1, Replaced DEF Elsewhere
  <2>9. Leaves(s, p, k)
    BY <1>1, <1>2, <2>3, <2>6, <2>7, <2>8 DEF Leaves
  <2>10. k \in DOMAIN queue[s][p]
    BY <1>2, <2>3
  <2> QED
    BY <1>1, <1>5, <2>3, <2>9, <2>10
<1> QED
  BY <1>6, <1>7

\* rest puts the order at the back of its level.
LEMMA RestMoves ==
    ASSUME BookTypeOK, NEW o \in OrderTypes, NEW qty \in Nat, Rest(o, qty)
    PROVE  /\ Joins(o.side, o.price, [rank |-> o.rank, id |-> o.id, qty |-> qty])
           /\ by_id' = [by_id EXCEPT ![o.id] = <<o.side, o.price>>]
<1>1. o.rank \in Ranks /\ o.id \in Ids /\ o.side \in Sides /\ o.price \in Prices
  BY TakerFacts
<1>2. PICK x : x = [rank |-> o.rank, id |-> o.id, qty |-> qty]
  OBVIOUS
<1>3. x \in Resting
  BY <1>1, <1>2 DEF Resting
<1>4. PICK q : q = queue[o.side][o.price]
  OBVIOUS
<1>5. PICK v : v = Append(q, x)
  OBVIOUS
<1>6. q \in Seq(Resting) /\ Len(q) \in Nat /\ DOMAIN q = 1 .. Len(q)
  BY <1>1, <1>4, QueueFacts
<1>7. /\ v \in Seq(Resting) /\ Len(v) = Len(q) + 1 /\ v[Len(q) + 1] = x
      /\ \A j \in 1 .. Len(q) : v[j] = q[j]
  BY <1>3, <1>5, <1>6, AppendProperties
<1>8. DOMAIN v = 1 .. Len(q) + 1
  BY <1>7, LenProperties
<1>9. queue' = [queue EXCEPT ![o.side][o.price] = v]
  BY <1>2, <1>4, <1>5 DEF Rest
<1>10. queue'[o.side][o.price] = v /\ Elsewhere(o.side, o.price)
  <2>1. queue \in [Sides -> [Prices -> Seq(Resting)]]
    BY DEF BookTypeOK
  <2> QED
    BY <1>1, <1>7, <1>9, <2>1, Replaced DEF Elsewhere
<1>11. Joins(o.side, o.price, x)
  BY <1>1, <1>3, <1>4, <1>6, <1>7, <1>8, <1>10 DEF Joins
<1> QED
  BY <1>2, <1>11 DEF Rest

\* What a step does to the deques.
LEMMA BookMoves ==
    ASSUME TypeOK, [Next]_vars
    PROVE  \/ queue' = queue
           \/ DrainFront
           \/ /\ ReturnFills /\ remaining > 0 /\ Rests(taker)
              /\ Joins(taker.side, taker.price,
                       [rank |-> taker.rank, id |-> taker.id, qty |-> remaining])
              /\ by_id' = [by_id EXCEPT ![taker.id] = <<taker.side, taker.price>>]
           \/ \E id \in Ids : Cancel(id)
<1>1. ASSUME NEW o \in NextOrders, BeginMatch(o) \/ RejectFok(o)
      PROVE  queue' = queue
  BY <1>1 DEF BeginMatch, RejectFok, bookVars
<1>2. ASSUME NEW p \in Prices, EnterLevel(p)
      PROVE  queue' = queue
  BY <1>2 DEF EnterLevel, bookVars
<1>3. CASE LeaveLevel
  BY <1>3 DEF LeaveLevel
<1>4. CASE ReturnFills
  <2>1. CASE remaining > 0 /\ Rests(taker)
    <3>1. taker \in OrderTypes /\ remaining \in Nat /\ Rest(taker, remaining)
      BY <1>4, <2>1 DEF ReturnFills, TypeOK
    <3> QED
      BY <1>4, <2>1, <3>1, RestMoves, TypeParts
  <2>2. CASE ~ (remaining > 0 /\ Rests(taker))
    BY <1>4, <2>2 DEF ReturnFills
  <2> QED
    BY <2>1, <2>2
<1>5. CASE RestoreSnapshot
  BY <1>5 DEF RestoreSnapshot
<1>6. CASE UNCHANGED vars
  BY <1>6 DEF vars, bookVars
<1> QED
  BY <1>1, <1>2, <1>3, <1>4, <1>5, <1>6 DEF Next, MatchStep, CancelUnknown

-----------------------------------------------------------------------------
(***************************************************************************)
(* Seniority: the resting orders in the order of their arrival.            *)
(***************************************************************************)

\* Every resting order is older than this: than the running taker, or than
\* the next order to arrive.
Youngest == IF pc = "idle" THEN arrived + 1 ELSE arrived

RestedEarlier ==
    \A s \in Sides, p \in Prices : \A i \in DOMAIN queue[s][p] : queue[s][p][i].rank < Youngest

\* A deque holds its orders in the order of their arrival.
DequesInOrder ==
    \A s \in Sides, p \in Prices : \A i, j \in DOMAIN queue[s][p] :
        i < j => queue[s][p][i].rank < queue[s][p][j].rank

\* No order rests at two levels.
RestsOnce ==
    \A s, t \in Sides, p, r \in Prices :
        \A i \in DOMAIN queue[s][p], j \in DOMAIN queue[t][r] :
            queue[s][p][i].rank = queue[t][r][j].rank => s = t /\ p = r

LEMMA SameLevel ==
    ASSUME RestsOnce, NEW s \in Sides, NEW t \in Sides, NEW p \in Prices, NEW r \in Prices,
           NEW i \in DOMAIN queue[s][p], NEW j \in DOMAIN queue[t][r],
           queue[s][p][i].rank = queue[t][r][j].rank
    PROVE  s = t /\ p = r
BY DEF RestsOnce

TakerIsLast == pc # "idle" => taker.rank = arrived

Seniority == TakerIsLast /\ RestedEarlier /\ DequesInOrder /\ RestsOnce

\* Every order of the deques was there before the step, and they keep their
\* order: from the k-th on they may have moved up by one in one deque.
Thinned(s, p, k) ==
    \A t \in Sides, r \in Prices : \A j \in DOMAIN queue'[t][r] :
        \E i \in DOMAIN queue[t][r] :
            /\ i = IF t = s /\ r = p /\ j >= k THEN j + 1 ELSE j
            /\ queue'[t][r][j].rank = queue[t][r][i].rank
            /\ queue'[t][r][j].id = queue[t][r][i].id

LEMMA LeavesThins ==
    ASSUME BookTypeOK, BookTypeOK', NEW s, NEW p, NEW k, Leaves(s, p, k)
    PROVE  k \in Nat /\ Thinned(s, p, k)
<1>1. /\ s \in Sides /\ p \in Prices /\ k \in 1 .. Len(queue[s][p]) /\ Len(queue[s][p]) \in Nat
      /\ DOMAIN queue[s][p] = 1 .. Len(queue[s][p])
      /\ DOMAIN queue'[s][p] = 1 .. Len(queue[s][p]) - 1
      /\ \A j \in 1 .. Len(queue[s][p]) - 1 :
            queue'[s][p][j] = queue[s][p][IF j < k THEN j ELSE j + 1]
  <2>1. /\ s \in Sides /\ p \in Prices /\ k \in DOMAIN queue[s][p]
        /\ TakenOut(queue[s][p], k, queue'[s][p])
    BY DEF Leaves
  <2>2. /\ Len(queue[s][p]) \in Nat /\ DOMAIN queue[s][p] = 1 .. Len(queue[s][p])
    BY <2>1, QueueFacts
  <2>3. queue'[s][p] \in Seq(Resting)
    BY <2>1 DEF BookTypeOK
  <2>4. DOMAIN queue'[s][p] = 1 .. Len(queue'[s][p])
    BY <2>3, LenProperties
  <2> QED
    BY <2>1, <2>2, <2>4 DEF TakenOut
<1>2. ASSUME NEW t \in Sides, NEW r \in Prices, NEW j \in DOMAIN queue'[t][r]
      PROVE  \E i \in DOMAIN queue[t][r] :
                 /\ i = IF t = s /\ r = p /\ j >= k THEN j + 1 ELSE j
                 /\ queue'[t][r][j] = queue[t][r][i]
  <2>1. CASE t # s \/ r # p
    BY <1>2, <2>1 DEF Leaves, Elsewhere
  <2>2. CASE t = s /\ r = p
    <3>1. j \in 1 .. Len(queue[s][p]) - 1
      BY <1>1, <1>2, <2>2
    <3>2. PICK i \in 1 .. Len(queue[s][p]) : i = IF j >= k THEN j + 1 ELSE j
      BY <1>1, <3>1
    <3>3. queue'[s][p][j] = queue[s][p][i]
      BY <1>1, <3>1, <3>2
    <3> QED
      BY <1>1, <2>2, <3>2, <3>3
  <2> QED
    BY <2>1, <2>2
<1> QED
  BY <1>1, <1>2 DEF Thinned

LEMMA ShrinksThins ==
    ASSUME BookTypeOK, BookTypeOK', NEW s, NEW p, NEW t, Shrinks(s, p, t)
    PROVE  \E k \in Nat : Thinned(s, p, k)
<1>1. s \in Sides /\ p \in Prices
  BY DEF Shrinks
<1>2. PICK n \in Nat : DOMAIN queue[s][p] = 1 .. n
  BY <1>1, QueueFacts
<1>3. ASSUME NEW u \in Sides, NEW r \in Prices, NEW j \in DOMAIN queue'[u][r]
      PROVE  /\ j \in DOMAIN queue[u][r]
             /\ ~ (u = s /\ r = p /\ j >= n + 1)
             /\ queue'[u][r][j].rank = queue[u][r][j].rank
             /\ queue'[u][r][j].id = queue[u][r][j].id
  <2>1. CASE u # s \/ r # p
    BY <1>3, <2>1 DEF Shrinks, Elsewhere
  <2>2. CASE u = s /\ r = p
    <3>1. j \in DOMAIN queue[s][p] /\ j \in 1 .. n
      BY <1>2, <1>3, <2>2 DEF Shrinks
    <3>2. CASE j = 1
      BY <1>2, <2>2, <3>1, <3>2 DEF Shrinks
    <3>3. CASE j # 1
      BY <1>2, <2>2, <3>1, <3>3 DEF Shrinks
    <3> QED
      BY <3>2, <3>3
  <2> QED
    BY <2>1, <2>2
<1>4. Thinned(s, p, n + 1)
  BY <1>3 DEF Thinned
<1>5. PICK k \in Nat : k = n + 1
  OBVIOUS
<1> QED
  BY <1>4, <1>5

\* A step that writes the deques other than rest takes orders out.
LEMMA ThinnedBy ==
    ASSUME TypeOK, TypeOK', DrainFront \/ \E id \in Ids : Cancel(id), queue' # queue
    PROVE  \E s \in Sides, p \in Prices, k \in Nat : Thinned(s, p, k)
<1>0. BookTypeOK /\ BookTypeOK' /\ CallTypeOK /\ OutputTypeOK
  BY TypeParts DEF TypeOK, BookTypeOK
<1>1. CASE DrainFront
  <2>1. \/ Leaves(Opposite(taker.side), price, 1)
        \/ Shrinks(Opposite(taker.side), price, Traded(FrontOrder))
    BY <1>0, <1>1, DrainMoves
  <2>2. Opposite(taker.side) \in Sides /\ price \in Prices
    BY <2>1 DEF Leaves, Shrinks
  <2> QED
    BY <1>0, <2>1, <2>2, LeavesThins, ShrinksThins
<1>2. ASSUME NEW id \in Ids, Cancel(id)
      PROVE  \E s \in Sides, p \in Prices, k \in Nat : Thinned(s, p, k)
  <2>1. \E s \in Sides, p \in Prices : \E k \in DOMAIN queue[s][p] : Leaves(s, p, k)
    BY <1>0, <1>2, CancelMoves
  <2> QED
    BY <1>0, <2>1, LeavesThins
<1> QED
  BY <1>1, <1>2

\* The running call is about the last order that arrived.
LEMMA CallStep ==
    ASSUME TypeOK, TakerIsLast, [Next]_vars
    PROVE  TakerIsLast' /\ Youngest \in Nat /\ Youngest' \in Nat /\ Youngest <= Youngest'
<1>0. arrived \in Nat
  BY MaxOrdersAssumption DEF TypeOK
<1>1. ASSUME NEW o \in NextOrders, BeginMatch(o)
      PROVE  /\ TakerIsLast' /\ arrived' = arrived + 1 /\ pc = "idle"
  BY <1>1 DEF BeginMatch, Arrive, TakerIsLast
<1>2. ASSUME NEW o \in NextOrders, RejectFok(o)
      PROVE  /\ TakerIsLast' /\ arrived' = arrived + 1 /\ pc = "idle" /\ pc' = "idle"
  BY <1>2 DEF RejectFok, Arrive, TakerIsLast, callVars
<1>3. ASSUME NEW p \in Prices, EnterLevel(p)
      PROVE  arrived' = arrived /\ pc # "idle" /\ pc' # "idle" /\ taker' = taker
  BY <1>3 DEF EnterLevel, historyVars
<1>4. CASE DrainFront \/ LeaveLevel
  <2>1. arrived' = arrived /\ pc # "idle" /\ pc' # "idle" /\ taker' = taker
    BY <1>4 DEF DrainFront, LeaveLevel, historyVars
  <2> QED
    BY <1>0, <2>1 DEF TakerIsLast, Youngest
<1>5. CASE ReturnFills
  BY <1>0, <1>5 DEF ReturnFills, historyVars, TakerIsLast, Youngest
<1>6. CASE (\E id \in Ids : Cancel(id) \/ CancelUnknown(id)) \/ RestoreSnapshot \/ UNCHANGED vars
  <2>1. arrived' = arrived /\ pc' = pc /\ taker' = taker
    BY <1>6 DEF Cancel, CancelUnknown, RestoreSnapshot, vars, callVars, historyVars
  <2> QED
    BY <1>0, <2>1 DEF TakerIsLast, Youngest
<1> QED
  BY <1>0, <1>1, <1>2, <1>3, <1>4, <1>5, <1>6 DEF Next, MatchStep, TakerIsLast, Youngest

LEMMA SeniorityInit == Init => Seniority
<1> SUFFICES ASSUME Init PROVE Seniority
  OBVIOUS
<1>1. \A s \in Sides, p \in Prices : DOMAIN queue[s][p] = {}
  BY DEF Init
<1> QED
  BY <1>1 DEF Init, Seniority, TakerIsLast, RestedEarlier, DequesInOrder, RestsOnce

LEMMA SeniorityStep ==
    ASSUME TypeOK, TypeOK', Seniority, [Next]_vars
    PROVE  Seniority'
<1>0. /\ BookTypeOK /\ BookTypeOK' /\ TakerIsLast' /\ Youngest \in Nat /\ Youngest' \in Nat
      /\ Youngest <= Youngest'
  BY CallStep, TypeParts DEF TypeOK, BookTypeOK, Seniority
<1>1. \A s \in Sides, p \in Prices : \A i \in DOMAIN queue[s][p] :
          i \in Nat /\ queue[s][p][i].rank \in Nat
  BY <1>0, QueueFacts
<1>2. CASE queue' = queue
  <2>1. RestedEarlier'
    BY <1>0, <1>1, <1>2 DEF Seniority, RestedEarlier
  <2> QED
    BY <1>0, <1>2, <2>1 DEF Seniority, DequesInOrder, RestsOnce
<1>3. ASSUME NEW s \in Sides, NEW p \in Prices, NEW k \in Nat, Thinned(s, p, k)
      PROVE  Seniority'
  <2>1. RestedEarlier'
    BY <1>0, <1>1, <1>3 DEF Seniority, RestedEarlier, Thinned
  <2>2. DequesInOrder'
    <3> SUFFICES ASSUME NEW t \in Sides, NEW r \in Prices,
                        NEW i \in DOMAIN queue'[t][r], NEW j \in DOMAIN queue'[t][r], i < j
                 PROVE  queue'[t][r][i].rank < queue'[t][r][j].rank
      BY DEF DequesInOrder
    <3>1. PICK a \in DOMAIN queue[t][r] :
              /\ a = IF t = s /\ r = p /\ i >= k THEN i + 1 ELSE i
              /\ queue'[t][r][i].rank = queue[t][r][a].rank
      BY <1>3 DEF Thinned
    <3>2. PICK b \in DOMAIN queue[t][r] :
              /\ b = IF t = s /\ r = p /\ j >= k THEN j + 1 ELSE j
              /\ queue'[t][r][j].rank = queue[t][r][b].rank
      BY <1>3 DEF Thinned
    <3>3. i \in Nat /\ j \in Nat
      <4>1. queue'[t][r] \in Seq(Resting)
        BY <1>0 DEF BookTypeOK
      <4>2. DOMAIN queue'[t][r] = 1 .. Len(queue'[t][r])
        BY <4>1, LenProperties
      <4> QED
        BY <4>2
    <3>4. a < b
      BY <3>1, <3>2, <3>3
    <3> QED
      BY <3>1, <3>2, <3>4 DEF Seniority, DequesInOrder
  <2>3. RestsOnce'
    <3> SUFFICES ASSUME NEW t \in Sides, NEW u \in Sides, NEW r \in Prices, NEW q \in Prices,
                        NEW i \in DOMAIN queue'[t][r], NEW j \in DOMAIN queue'[u][q],
                        queue'[t][r][i].rank = queue'[u][q][j].rank
                 PROVE  t = u /\ r = q
      BY DEF RestsOnce
    <3>1. PICK a \in DOMAIN queue[t][r] : queue'[t][r][i].rank = queue[t][r][a].rank
      BY <1>3 DEF Thinned
    <3>2. PICK b \in DOMAIN queue[u][q] : queue'[u][q][j].rank = queue[u][q][b].rank
      BY <1>3 DEF Thinned
    <3>3. queue[t][r][a].rank = queue[u][q][b].rank
      BY <3>1, <3>2
    <3> QED
      BY <3>1, <3>2, <3>3, SameLevel DEF Seniority
  <2> QED
    BY <1>0, <2>1, <2>2, <2>3 DEF Seniority
<1>4. CASE /\ ReturnFills
           /\ Joins(taker.side, taker.price,
                    [rank |-> taker.rank, id |-> taker.id, qty |-> remaining])
  <2> DEFINE s == taker.side
             p == taker.price
  <2>1. PICK x : x = [rank |-> taker.rank, id |-> taker.id, qty |-> remaining]
    OBVIOUS
  <2>2. Joins(s, p, x)
    BY <1>4, <2>1
  <2>3. /\ x.rank = arrived /\ Youngest = arrived /\ Youngest' = arrived + 1 /\ arrived \in Nat
    BY <1>0, <1>4, <2>1 DEF ReturnFills, historyVars, Seniority, TakerIsLast, Youngest
  <2>4. PICK n \in Nat : n = Len(queue[s][p]) /\ DOMAIN queue[s][p] = 1 .. n
    BY <1>0, <2>2, QueueFacts DEF Joins
  <2> HIDE DEF s, p
  <2>5. ASSUME NEW t \in Sides, NEW r \in Prices, NEW j \in DOMAIN queue'[t][r]
        PROVE  \/ j \in DOMAIN queue[t][r] /\ queue'[t][r][j] = queue[t][r][j]
               \/ t = s /\ r = p /\ j = n + 1 /\ queue'[t][r][j] = x
    <3>1. CASE t # s \/ r # p
      BY <2>2, <2>5, <3>1 DEF Joins, Elsewhere
    <3>2. CASE t = s /\ r = p
      <4>1. /\ DOMAIN queue'[s][p] = 1 .. n + 1 /\ queue'[s][p][n + 1] = x
            /\ \A i \in 1 .. n : queue'[s][p][i] = queue[s][p][i]
        BY <2>2, <2>4 DEF Joins
      <4>2. j \in 1 .. n \/ j = n + 1
        BY <2>5, <3>2, <4>1
      <4> QED
        BY <2>4, <3>2, <4>1, <4>2
    <3> QED
      BY <3>1, <3>2
  <2>6. RestedEarlier'
    BY <1>1, <2>3, <2>5 DEF Seniority, RestedEarlier
  <2>7. DequesInOrder'
    <3> SUFFICES ASSUME NEW t \in Sides, NEW r \in Prices,
                        NEW i \in DOMAIN queue'[t][r], NEW j \in DOMAIN queue'[t][r], i < j
                 PROVE  queue'[t][r][i].rank < queue'[t][r][j].rank
      BY DEF DequesInOrder
    <3>1. CASE j \in DOMAIN queue[t][r] /\ queue'[t][r][j] = queue[t][r][j]
      <4>1. i \in DOMAIN queue[t][r] /\ queue'[t][r][i] = queue[t][r][i]
        <5>1. ~ (t = s /\ r = p /\ i = n + 1)
          BY <2>4, <3>1
        <5> QED
          BY <2>5, <5>1
      <4> QED
        BY <3>1, <4>1 DEF Seniority, DequesInOrder
    <3>2. CASE t = s /\ r = p /\ j = n + 1 /\ queue'[t][r][j] = x
      <4>1. i # n + 1
        BY <3>2
      <4>2. i \in DOMAIN queue[t][r] /\ queue'[t][r][i] = queue[t][r][i]
        BY <2>5, <4>1
      <4>3. queue[t][r][i].rank < arrived
        BY <2>3, <4>2 DEF Seniority, RestedEarlier
      <4> QED
        BY <2>3, <3>2, <4>2, <4>3
    <3> QED
      BY <2>5, <3>1, <3>2
  <2>8. RestsOnce'
    BY <1>1, <2>3, <2>5 DEF Seniority, RestedEarlier, RestsOnce
  <2> QED
    BY <1>0, <2>6, <2>7, <2>8 DEF Seniority
<1> QED
  BY <1>2, <1>3, <1>4, BookMoves, ThinnedBy

-----------------------------------------------------------------------------
(***************************************************************************)
(* Quantities are conserved.                                               *)
(***************************************************************************)

\* FillConservation in parts, and what it needs: an order that has not arrived
\* has traded nothing.
NotOverfilled == \A n \in Ranks : filled[n] <= submitted[n]

RestingConserved ==
    \A s \in Sides, p \in Prices : \A i \in DOMAIN queue[s][p] :
        /\ queue[s][p][i].qty > 0
        /\ queue[s][p][i].qty + filled[queue[s][p][i].rank] = submitted[queue[s][p][i].rank]

TakerConserved == pc # "idle" => remaining + filled[taker.rank] = submitted[taker.rank]

NothingYet == \A n \in Ranks : n > arrived => filled[n] = 0

Conserved == NotOverfilled /\ RestingConserved /\ TakerConserved /\ NothingYet

LEMMA ConservedInit == Init => Conserved
<1> SUFFICES ASSUME Init PROVE Conserved
  OBVIOUS
<1>1. \A s \in Sides, p \in Prices : DOMAIN queue[s][p] = {}
  BY DEF Init
<1> QED
  BY <1>1 DEF Init, Conserved, NotOverfilled, RestingConserved, TakerConserved, NothingYet

\* Two orders trade: their entries, and no others, grow.
LEMMA TradedEntries ==
    ASSUME NEW f \in [Ranks -> Nat], NEW a \in Ranks, NEW b \in Ranks, a # b, NEW t \in Nat
    PROVE  LET g == [f EXCEPT ![a] = @ + t, ![b] = @ + t]
           IN  g[a] = f[a] + t /\ g[b] = f[b] + t /\ \A n \in Ranks : n # a /\ n # b => g[n] = f[n]
OBVIOUS

\* A step that leaves the quantities alone and takes orders out at most.
LEMMA FewerConserved ==
    ASSUME TypeOK, Conserved, UNCHANGED <<filled, submitted, arrived>>,
           queue' = queue \/ \E s, p, k : Leaves(s, p, k),
           pc' # "idle" => pc # "idle" /\ UNCHANGED <<remaining, taker>>,
           BookTypeOK'
    PROVE  Conserved'
<1>1. ASSUME NEW t \in Sides, NEW r \in Prices, NEW j \in DOMAIN queue'[t][r]
      PROVE  \E i \in DOMAIN queue[t][r] : queue'[t][r][j] = queue[t][r][i]
  <2>1. CASE queue' = queue
    BY <1>1, <2>1
  <2>2. ASSUME NEW s, NEW p, NEW k, Leaves(s, p, k)
        PROVE  \E i \in DOMAIN queue[t][r] : queue'[t][r][j] = queue[t][r][i]
    <3>1. CASE t # s \/ r # p
      BY <1>1, <2>2, <3>1 DEF Leaves, Elsewhere
    <3>2. CASE t = s /\ r = p
      <4>1. queue'[t][r] \in Seq(Resting) /\ queue[t][r] \in Seq(Resting)
        BY DEF BookTypeOK, TypeOK
      <4>2. PICK n \in Nat : n = Len(queue[t][r]) /\ DOMAIN queue[t][r] = 1 .. n
        BY <4>1, LenProperties
      <4>3. k \in 1 .. n /\ DOMAIN queue'[t][r] = 1 .. n - 1
            /\ \A i \in 1 .. n - 1 : queue'[t][r][i] = queue[t][r][IF i < k THEN i ELSE i + 1]
        BY <2>2, <3>2, <4>1, <4>2, LenProperties DEF Leaves, TakenOut
      <4>4. PICK i \in 1 .. n : i = IF j < k THEN j ELSE j + 1
        BY <1>1, <4>3
      <4> QED
        BY <1>1, <4>2, <4>3, <4>4
    <3> QED
      BY <3>1, <3>2
  <2> QED
    BY <2>1, <2>2
<1>2. RestingConserved'
  BY <1>1 DEF Conserved, RestingConserved
<1> QED
  BY <1>2 DEF Conserved, NotOverfilled, TakerConserved, NothingYet

\* An order arrives.
LEMMA ArrivalConserved ==
    ASSUME TypeOK, Seniority, Conserved, NEW o \in NextOrders, pc = "idle", Arrive(o),
           queue' = queue,
           pc' # "idle" => taker' = o /\ remaining' = o.qty
    PROVE  Conserved'
<1>1. /\ o.rank \in Ranks /\ o.qty \in Nat /\ o.rank = arrived + 1 /\ arrived \in Nat
      /\ filled \in [Ranks -> Nat] /\ submitted \in [Ranks -> Nat]
  BY OrderFacts, MaxOrdersAssumption DEF TypeOK
<1>2. /\ filled' = filled /\ arrived' = o.rank
      /\ submitted'[o.rank] = o.qty
      /\ \A n \in Ranks : n # o.rank => submitted'[n] = submitted[n]
  BY <1>1 DEF Arrive
<1>3. filled[o.rank] = 0
  BY <1>1 DEF Conserved, NothingYet
<1>4. ASSUME NEW s \in Sides, NEW p \in Prices, NEW i \in DOMAIN queue[s][p]
      PROVE  queue[s][p][i].rank \in Ranks /\ queue[s][p][i].rank # o.rank
  <2>1. queue[s][p][i].rank \in Ranks /\ queue[s][p][i].rank \in Nat
    BY <1>4, QueueFacts, TypeParts
  <2>2. queue[s][p][i].rank < arrived + 1
    BY <1>4 DEF Seniority, RestedEarlier, Youngest
  <2> QED
    BY <1>1, <2>1, <2>2
<1>5. NotOverfilled'
  BY <1>1, <1>2, <1>3 DEF Conserved, NotOverfilled
<1>6. RestingConserved'
  BY <1>2, <1>4 DEF Conserved, RestingConserved
<1>7. TakerConserved'
  BY <1>1, <1>2, <1>3 DEF TakerConserved
<1>8. NothingYet'
  <2> SUFFICES ASSUME NEW n \in Ranks, n > o.rank
               PROVE  filled[n] = 0
    BY <1>2 DEF NothingYet
  <2> QED
    BY <1>1 DEF Conserved, NothingYet, Ranks
<1> QED
  BY <1>5, <1>6, <1>7, <1>8 DEF Conserved

\* The taker trades with the front of a level.
LEMMA TradeConserved ==
    ASSUME TypeOK, TypeOK', Seniority, Conserved, DrainFront
    PROVE  Conserved'
<1> DEFINE s == Opposite(taker.side)
           t == Traded(FrontOrder)
           m == FrontOrder.rank
           n == taker.rank
<1>0. BookTypeOK /\ BookTypeOK' /\ CallTypeOK /\ OutputTypeOK
  BY TypeParts DEF TypeOK, BookTypeOK
<1>1. /\ 1 \in DOMAIN queue[s][price] /\ s \in Sides /\ price \in Prices
      /\ t \in Nat /\ t <= remaining /\ t <= FrontOrder.qty /\ remaining' = remaining - t
      /\ filled' = [filled EXCEPT ![m] = @ + t, ![n] = @ + t]
      /\ \/ Leaves(s, price, 1) /\ t = FrontOrder.qty
         \/ Shrinks(s, price, t) /\ t < FrontOrder.qty
  BY <1>0, DrainMoves
<1>2. pc = "drain" /\ UNCHANGED <<pc, taker, arrived, submitted>>
  BY DEF DrainFront
<1>3. /\ filled \in [Ranks -> Nat] /\ submitted \in [Ranks -> Nat] /\ remaining \in Nat
      /\ n \in Ranks /\ arrived \in Nat /\ n = arrived
  BY <1>2, TakerFacts, MaxOrdersAssumption DEF TypeOK, Seniority, TakerIsLast
<1>4. /\ m \in Ranks /\ FrontOrder.qty \in Nat /\ m < arrived /\ m \in Nat
      /\ FrontOrder.qty > 0 /\ FrontOrder.qty + filled[m] = submitted[m]
  <2>1. m \in Ranks /\ FrontOrder.qty \in Nat /\ m \in Nat
    BY <1>0, <1>1, QueueFacts DEF FrontOrder
  <2>2. m < arrived
    BY <1>1, <1>2 DEF Seniority, RestedEarlier, Youngest, FrontOrder
  <2>3. FrontOrder.qty > 0 /\ FrontOrder.qty + filled[m] = submitted[m]
    BY <1>1 DEF Conserved, RestingConserved, FrontOrder
  <2> QED
    BY <2>1, <2>2, <2>3
<1>5. /\ filled'[m] = filled[m] + t /\ filled'[n] = filled[n] + t
      /\ \A k \in Ranks : k # m /\ k # n => filled'[k] = filled[k]
  <2>1. m # n
    BY <1>3, <1>4
  <2> HIDE DEF m, n, t
  <2> QED
    BY <1>1, <1>3, <1>4, <2>1, TradedEntries
<1>6. remaining + filled[n] = submitted[n]
  BY <1>2 DEF Conserved, TakerConserved
<1>7. \A k \in Ranks : filled[k] \in Nat /\ submitted[k] \in Nat
  BY <1>3
<1> HIDE DEF m, n, t
<1>8. NotOverfilled'
  BY <1>1, <1>2, <1>3, <1>4, <1>5, <1>6, <1>7 DEF Conserved, NotOverfilled
<1>9. TakerConserved'
  BY <1>1, <1>2, <1>3, <1>5, <1>6, <1>7 DEF TakerConserved, n
<1>10. NothingYet'
  BY <1>2, <1>3, <1>4, <1>5 DEF Conserved, NothingYet, Ranks
<1>11. RestingConserved'
  <2> SUFFICES ASSUME NEW u \in Sides, NEW r \in Prices, NEW j \in DOMAIN queue'[u][r]
               PROVE  /\ queue'[u][r][j].qty > 0
                      /\ queue'[u][r][j].qty + filled'[queue'[u][r][j].rank]
                            = submitted[queue'[u][r][j].rank]
    BY <1>2 DEF RestingConserved
  <2>1. ASSUME NEW i \in DOMAIN queue[u][r], queue'[u][r][j] = queue[u][r][i],
               u # s \/ r # price \/ i # 1
        PROVE  /\ queue'[u][r][j].qty > 0
               /\ queue'[u][r][j].qty + filled'[queue'[u][r][j].rank]
                     = submitted[queue'[u][r][j].rank]
    <3>1. /\ queue[u][r][i].rank \in Ranks /\ queue[u][r][i].rank \in Nat
          /\ i \in Nat /\ 1 <= i
      BY <1>0, <2>1, QueueFacts
    <3>2. queue[u][r][i].rank # n
      <4>1. queue[u][r][i].rank < arrived
        BY <1>2, <2>1 DEF Seniority, RestedEarlier, Youngest
      <4> QED
        BY <1>3, <3>1, <4>1
    <3>3. queue[u][r][i].rank # m
      <4>1. SUFFICES ASSUME queue[u][r][i].rank = m
                     PROVE  FALSE
        OBVIOUS
      <4>2. queue[s][price][1].rank = queue[u][r][i].rank
        BY <4>1 DEF m, FrontOrder
      <4>3. u = s /\ r = price
        BY <1>1, <2>1, <4>2, SameLevel DEF Seniority
      <4>4. 1 < i
        BY <2>1, <3>1, <4>3
      <4>5. queue[s][price][1].rank < queue[s][price][i].rank
        BY <1>1, <2>1, <4>3, <4>4 DEF Seniority, DequesInOrder
      <4> QED
        BY <1>4, <4>2, <4>3, <4>5 DEF m, FrontOrder
    <3>4. /\ queue[u][r][i].qty > 0
          /\ queue[u][r][i].qty + filled[queue[u][r][i].rank] = submitted[queue[u][r][i].rank]
      BY <2>1 DEF Conserved, RestingConserved
    <3> QED
      BY <1>5, <2>1, <3>1, <3>2, <3>3, <3>4
  <2>2. CASE u # s \/ r # price
    <3>1. queue'[u][r] = queue[u][r]
      BY <1>1, <2>2 DEF Leaves, Shrinks, Elsewhere
    <3> QED
      BY <2>1, <2>2, <3>1
  <2>3. CASE u = s /\ r = price /\ Leaves(s, price, 1)
    <3>1. queue'[u][r] \in Seq(Resting) /\ queue[u][r] \in Seq(Resting)
      BY <1>0 DEF BookTypeOK
    <3>2. PICK l \in Nat : l = Len(queue[u][r]) /\ DOMAIN queue[u][r] = 1 .. l
      BY <3>1, LenProperties
    <3>3. /\ DOMAIN queue'[u][r] = 1 .. l - 1
          /\ \A k \in 1 .. l - 1 : queue'[u][r][k] = queue[u][r][IF k < 1 THEN k ELSE k + 1]
      BY <2>3, <3>1, <3>2, LenProperties DEF Leaves, TakenOut
    <3>4. PICK i \in 1 .. l : i = j + 1 /\ i # 1 /\ queue'[u][r][j] = queue[u][r][i]
      BY <3>3
    <3> QED
      BY <2>1, <3>2, <3>4
  <2>4. CASE u = s /\ r = price /\ Shrinks(s, price, t) /\ t < FrontOrder.qty
    <3>1. j \in DOMAIN queue[u][r]
      BY <2>4 DEF Shrinks
    <3>2. CASE j # 1
      <4>1. queue'[u][r][j] = queue[u][r][j]
        BY <2>4, <3>1, <3>2 DEF Shrinks
      <4> QED
        BY <2>1, <3>1, <3>2, <4>1
    <3>3. CASE j = 1
      <4>1. queue'[u][r][j].rank = m /\ queue'[u][r][j].qty = FrontOrder.qty - t
        BY <2>4, <3>3 DEF Shrinks, m, FrontOrder
      <4> QED
        BY <1>1, <1>4, <1>5, <1>7, <2>4, <4>1
    <3> QED
      BY <3>2, <3>3
  <2> QED
    BY <1>1, <2>2, <2>3, <2>4
<1> QED
  BY <1>8, <1>9, <1>10, <1>11 DEF Conserved

\* The call returns: a remainder may rest.
LEMMA RestConserved ==
    ASSUME TypeOK, Seniority, Conserved, ReturnFills, remaining > 0,
           Joins(taker.side, taker.price,
                 [rank |-> taker.rank, id |-> taker.id, qty |-> remaining])
    PROVE  Conserved'
<1> DEFINE s == taker.side
           p == taker.price
<1>1. PICK x : x = [rank |-> taker.rank, id |-> taker.id, qty |-> remaining]
  OBVIOUS
<1>2. Joins(s, p, x) /\ x.rank = taker.rank /\ x.qty = remaining
  BY <1>1
<1>3. pc = "sweep" /\ pc' = "idle" /\ UNCHANGED <<filled, submitted, arrived>>
  BY DEF ReturnFills, historyVars
<1>4. PICK n \in Nat : n = Len(queue[s][p]) /\ DOMAIN queue[s][p] = 1 .. n
  BY <1>2, QueueFacts, TypeParts DEF Joins
<1> HIDE DEF s, p
<1>5. ASSUME NEW t \in Sides, NEW r \in Prices, NEW j \in DOMAIN queue'[t][r]
      PROVE  \/ j \in DOMAIN queue[t][r] /\ queue'[t][r][j] = queue[t][r][j]
             \/ queue'[t][r][j] = x
  <2>1. CASE t # s \/ r # p
    BY <1>2, <1>5, <2>1 DEF Joins, Elsewhere
  <2>2. CASE t = s /\ r = p
    <3>1. /\ DOMAIN queue'[s][p] = 1 .. n + 1 /\ queue'[s][p][n + 1] = x
          /\ \A i \in 1 .. n : queue'[s][p][i] = queue[s][p][i]
      BY <1>2, <1>4 DEF Joins
    <3>2. j \in 1 .. n \/ j = n + 1
      BY <1>5, <2>2, <3>1
    <3> QED
      BY <1>4, <2>2, <3>1, <3>2
  <2> QED
    BY <2>1, <2>2
<1>6. x.qty > 0 /\ x.qty + filled[x.rank] = submitted[x.rank]
  BY <1>2, <1>3 DEF Conserved, TakerConserved
<1>7. RestingConserved'
  BY <1>3, <1>5, <1>6 DEF Conserved, RestingConserved
<1> QED
  BY <1>3, <1>7 DEF Conserved, NotOverfilled, TakerConserved, NothingYet

LEMMA ConservedStep ==
    ASSUME TypeOK, TypeOK', Seniority, Conserved, [Next]_vars
    PROVE  Conserved'
<1>0. BookTypeOK /\ BookTypeOK'
  BY TypeParts DEF TypeOK, BookTypeOK
<1>1. ASSUME NEW o \in NextOrders, BeginMatch(o) \/ RejectFok(o)
      PROVE  Conserved'
  BY <1>1, ArrivalConserved DEF BeginMatch, RejectFok, bookVars, callVars
<1>2. ASSUME NEW p \in Prices, EnterLevel(p)
      PROVE  Conserved'
  BY <1>0, <1>2, FewerConserved DEF EnterLevel, bookVars, historyVars
<1>3. CASE DrainFront
  BY <1>3, TradeConserved
<1>4. CASE LeaveLevel
  BY <1>0, <1>4, FewerConserved DEF LeaveLevel, historyVars
<1>5. CASE ReturnFills
  <2>1. pc' = "idle" /\ UNCHANGED <<filled, submitted, arrived>>
    BY <1>5 DEF ReturnFills, historyVars
  <2>2. CASE queue' = queue
    BY <1>0, <2>1, <2>2, FewerConserved
  <2>3. CASE queue' # queue
    <3>1. taker \in OrderTypes /\ remaining \in Nat
      BY <1>5 DEF ReturnFills, TypeOK
    <3>2. remaining > 0 /\ Rest(taker, remaining)
      BY <1>5, <2>3 DEF ReturnFills
    <3> QED
      BY <1>0, <1>5, <3>1, <3>2, RestMoves, RestConserved
  <2> QED
    BY <2>2, <2>3
<1>6. ASSUME NEW id \in Ids, Cancel(id)
      PROVE  Conserved'
  <2>1. queue' = queue \/ \E s, p, k : Leaves(s, p, k)
    BY <1>0, <1>6, CancelMoves
  <2> QED
    BY <1>0, <1>6, <2>1, FewerConserved DEF Cancel, callVars, historyVars
<1>7. CASE RestoreSnapshot
  BY <1>0, <1>7, FewerConserved DEF RestoreSnapshot, callVars, historyVars
<1>8. CASE UNCHANGED vars
  BY <1>0, <1>8, FewerConserved DEF vars, bookVars, callVars, historyVars
<1> QED
  BY <1>1, <1>2, <1>3, <1>4, <1>5, <1>6, <1>7, <1>8 DEF Next, MatchStep, CancelUnknown

LEMMA SeniorTypes ==
    /\ Init => TypeOK /\ Seniority
    /\ TypeOK /\ Seniority /\ [Next]_vars => TypeOK' /\ Seniority'
BY TypeInit, TypeStep, SeniorityInit, SeniorityStep

\* C2: what orders have traded is never more than what they were submitted
\* with, and what they still hold is the difference, after any sequence of
\* matches, cancels and restores.
THEOREM QuantitiesConserved == Spec => []FillConservation
<1>1. Init => TypeOK /\ Seniority /\ Conserved
  BY SeniorTypes, ConservedInit
<1>2. TypeOK /\ Seniority /\ Conserved /\ [Next]_vars => (TypeOK /\ Seniority /\ Conserved)'
  BY SeniorTypes, ConservedStep
<1>3. Conserved => FillConservation
  BY DEF Conserved, NotOverfilled, RestingConserved, TakerConserved, FillConservation
<1> QED
  BY <1>1, <1>2, <1>3, PTL DEF Spec

-----------------------------------------------------------------------------
(***************************************************************************)
(* Price-time priority.                                                    *)
(***************************************************************************)

\* While a level is drained, orders rest only there and at worse prices.
DrainsBest ==
    pc = "drain" =>
        \A p \in Prices : \A i \in DOMAIN queue[Opposite(taker.side)][p] :
            p = price \/ WalkedBefore(taker.side, price, p)

LEMMA DrainsBestStep ==
    ASSUME BookInv, DrainsBest, [Next]_vars
    PROVE  DrainsBest'
<1>0. TypeOK /\ BookTypeOK /\ CallTypeOK /\ OutputTypeOK
  BY TypeParts DEF BookInv
<1>1. ASSUME NEW p \in Prices, EnterLevel(p)
      PROVE  DrainsBest'
  <2>1. /\ pc = "sweep" /\ UNCHANGED <<queue, taker>> /\ price' = p
        /\ IsBest(taker.side, p)
    BY <1>1 DEF EnterLevel, bookVars
  <2>2. Opposite(taker.side) \in Sides
    BY <1>0, <2>1, TakerFacts DEF CallTypeOK
  <2>3. PICK s \in Sides : s = Opposite(taker.side)
    BY <2>2
  <2>4. ASSUME NEW q \in Prices, NEW i \in DOMAIN queue[s][q]
        PROVE  q = p \/ WalkedBefore(taker.side, p, q)
    <3>1. queue[s][q] # << >>
      BY <2>4
    <3>2. q \in levels[s]
      BY <2>1, <3>1 DEF BookInv, LevelsExact
    <3>3. ~ WalkedBefore(taker.side, q, p)
      BY <2>1, <2>3, <3>2 DEF IsBest
    <3>4. p \in Int /\ q \in Int
      BY PricesAssumption
    <3> QED
      BY <3>3, <3>4 DEF WalkedBefore
  <2> QED
    BY <2>1, <2>3, <2>4 DEF DrainsBest
<1>2. CASE DrainFront
  <2>1. pc = "drain" /\ UNCHANGED <<pc, taker, price>>
    BY <1>2 DEF DrainFront
  <2>2. \A t \in Sides, r \in Prices :
            (t # Opposite(taker.side) \/ r # price) => queue'[t][r] = queue[t][r]
    BY <1>0, <1>2, DrainFacts
  <2>3. Opposite(taker.side) \in Sides
    BY <1>0, <2>1, TakerFacts DEF CallTypeOK
  <2> QED
    BY <2>1, <2>2, <2>3 DEF DrainsBest
<1>3. CASE LeaveLevel \/ ReturnFills
  BY <1>3 DEF LeaveLevel, ReturnFills, DrainsBest
<1>4. CASE /\ \/ \E o \in NextOrders : BeginMatch(o) \/ RejectFok(o)
              \/ \E id \in Ids : Cancel(id)
              \/ RestoreSnapshot
  BY <1>4 DEF BeginMatch, RejectFok, Cancel, RestoreSnapshot, callVars, DrainsBest
<1>5. CASE UNCHANGED vars
  BY <1>5 DEF vars, bookVars, callVars, DrainsBest
<1> QED
  BY <1>1, <1>2, <1>3, <1>4, <1>5 DEF Next, MatchStep, CancelUnknown

\* Only the inner loop adds a fill.
LEMMA OnlyDrainFills ==
    ASSUME TypeOK, [Next]_vars, Len(fills') > Len(fills)
    PROVE  DrainFront
<1>1. Len(fills) \in Nat
  BY LenProperties DEF TypeOK
<1>2. fills' # fills /\ fills' # << >>
  BY <1>1, EmptySeq
<1>3. ~ \E o \in NextOrders : BeginMatch(o) \/ RejectFok(o)
  BY <1>2 DEF BeginMatch, RejectFok, callVars
<1>4. ~ \E p \in Prices : EnterLevel(p)
  BY <1>2 DEF EnterLevel
<1>5. ~ LeaveLevel /\ ~ ReturnFills
  BY <1>2 DEF LeaveLevel, ReturnFills
<1>6. ~ \E id \in Ids : Cancel(id) \/ CancelUnknown(id)
  BY <1>2 DEF Cancel, CancelUnknown, vars, callVars
<1>7. ~ RestoreSnapshot /\ ~ UNCHANGED vars
  BY <1>2 DEF RestoreSnapshot, vars, callVars
<1> QED
  BY <1>3, <1>4, <1>5, <1>6, <1>7 DEF Next, MatchStep

\* The fill a step adds is with the best and oldest order.
LEMMA FillsBestAndOldest ==
    ASSUME BookInv, Seniority, DrainsBest, [Next]_vars, Len(fills') > Len(fills),
           NEW p \in Prices, NEW i \in DOMAIN queue[Opposite(taker.side)][p]
    PROVE  LET f == fills'[Len(fills')]
               q == queue[Opposite(taker.side)][p]
           IN  \/ q[i].rank = f.maker
               \/ WalkedBefore(taker.side, f.price, p)
               \/ p = f.price /\ f.maker < q[i].rank
<1>0. TypeOK /\ BookTypeOK /\ CallTypeOK /\ OutputTypeOK
  BY TypeParts DEF BookInv
<1>1. DrainFront /\ pc = "drain"
  BY <1>0, OnlyDrainFills DEF DrainFront
<1>2. PICK s \in Sides :
          /\ s = Opposite(taker.side)
          /\ 1 \in DOMAIN queue[s][price] /\ price \in Prices
          /\ fills' = Append(fills, [maker |-> FrontOrder.rank, price |-> price,
                                     qty |-> Traded(FrontOrder)])
          /\ Traded(FrontOrder) \in Nat
  BY <1>0, <1>1, DrainMoves
<1>3. PICK f : f = [maker |-> FrontOrder.rank, price |-> price, qty |-> Traded(FrontOrder)]
  OBVIOUS
<1>4. f.maker = queue[s][price][1].rank /\ f.price = price
  BY <1>2, <1>3 DEF FrontOrder
<1>5. f \in Fills
  BY <1>0, <1>2, <1>3, QueueFacts DEF Fills, FrontOrder
<1>6. fills'[Len(fills')] = f
  <2>1. fills \in Seq(Fills)
    BY <1>0 DEF CallTypeOK
  <2> QED
    BY <1>2, <1>3, <1>5, <2>1, AppendProperties
<1>7. CASE p = price
  <2>1. i \in DOMAIN queue[s][price]
    BY <1>2, <1>7
  <2>2. i = 1 \/ 1 < i
    BY <1>0, <1>2, <2>1, QueueFacts
  <2>3. 1 < i => queue[s][price][1].rank < queue[s][price][i].rank
    BY <1>2, <2>1 DEF Seniority, DequesInOrder
  <2> QED
    BY <1>2, <1>4, <1>6, <1>7, <2>2, <2>3
<1>8. CASE p # price
  <2>1. WalkedBefore(taker.side, price, p)
    BY <1>1, <1>8 DEF DrainsBest
  <2> QED
    BY <1>4, <1>6, <2>1
<1> QED
  BY <1>7, <1>8

\* C1 by arrival: every fill is with the order of the best price on the other
\* side that arrived first at that price, whatever platform_seqs the orders
\* carry.
THEOREM BestAndOldestFirst == Spec => PriceTimePriority
<1> DEFINE I == BookInv /\ Seniority /\ DrainsBest
<1>1. Init => I
  BY BookInit, SeniorityInit DEF Init, DrainsBest
<1>2. I /\ [Next]_vars => I'
  BY BookStep, SeniorTypes, DrainsBestStep DEF BookInv
<1>3. I /\ [Next]_vars =>
        (Len(fills') > Len(fills) =>
          LET f == fills'[Len(fills')]
              s == Opposite(taker.side)
          IN  \A p \in Prices : \A i \in DOMAIN queue[s][p] :
                 \/ queue[s][p][i].rank = f.maker
                 \/ WalkedBefore(taker.side, f.price, p)
                 \/ p = f.price /\ f.maker < queue[s][p][i].rank)
  BY FillsBestAndOldest
<1> QED
  BY <1>1, <1>2, <1>3, PTL DEF Spec, PriceTimePriority

-----------------------------------------------------------------------------
(***************************************************************************)
(* by_id, when no order arrives with the id of a resting one.              *)
(***************************************************************************)

RestsAt(id, s, p) == \E i \in DOMAIN queue[s][p] : queue[s][p][i].id = id

\* A resting order is indexed where it rests.
Located == \A id \in Ids, s \in Sides, p \in Prices : RestsAt(id, s, p) => by_id[id] = <<s, p>>

\* The ids by_id holds although their orders are gone: the inner loop forgets
\* them when it leaves the level.
Stale == IF pc = "drain" THEN emptied ELSE {}

\* Any other indexed id rests where by_id says.
Indexed ==
    \A id \in Ids, s \in Sides, p \in Prices :
        by_id[id] = <<s, p>> /\ id \notin Stale => RestsAt(id, s, p)

StaleGone == \A id \in Stale, s \in Sides, p \in Prices : ~ RestsAt(id, s, p)

\* A level holds an id once.
IdOnce ==
    \A s \in Sides, p \in Prices : \A i, j \in DOMAIN queue[s][p] :
        queue[s][p][i].id = queue[s][p][j].id => i = j

\* The id of the running taker does not rest.
TakerIsNew == pc # "idle" => \A s \in Sides, p \in Prices : ~ RestsAt(taker.id, s, p)

IndexInv == Located /\ Indexed /\ StaleGone /\ IdOnce /\ TakerIsNew

\* An order leaves its level: its id rests nowhere any more, the others rest
\* where they did.
LEMMA LeavesRests ==
    ASSUME BookTypeOK, BookTypeOK', Located, IdOnce, NEW s, NEW p, NEW k, Leaves(s, p, k),
           NEW id \in Ids, NEW t \in Sides, NEW r \in Prices
    PROVE  RestsAt(id, t, r)' <=> RestsAt(id, t, r) /\ id # queue[s][p][k].id
<1>1. /\ s \in Sides /\ p \in Prices /\ k \in DOMAIN queue[s][p]
      /\ TakenOut(queue[s][p], k, queue'[s][p]) /\ Elsewhere(s, p)
  BY DEF Leaves
<1>2. PICK n \in Nat : n = Len(queue[s][p]) /\ DOMAIN queue[s][p] = 1 .. n
  BY <1>1, QueueFacts
<1>3. /\ k \in 1 .. n
      /\ DOMAIN queue'[s][p] = 1 .. n - 1
      /\ \A j \in 1 .. n - 1 : queue'[s][p][j] = queue[s][p][IF j < k THEN j ELSE j + 1]
  <2>1. queue'[s][p] \in Seq(Resting)
    BY <1>1 DEF BookTypeOK
  <2>2. DOMAIN queue'[s][p] = 1 .. Len(queue'[s][p])
    BY <2>1, LenProperties
  <2> QED
    BY <1>1, <1>2, <2>2 DEF TakenOut
<1>4. CASE t # s \/ r # p
  <2>1. queue'[t][r] = queue[t][r]
    BY <1>1, <1>4 DEF Elsewhere
  <2>2. RestsAt(id, t, r) => id # queue[s][p][k].id
    <3>1. RestsAt(queue[s][p][k].id, s, p) /\ queue[s][p][k].id \in Ids
      BY <1>1, QueueFacts DEF RestsAt
    <3>2. by_id[queue[s][p][k].id] = <<s, p>>
      BY <1>1, <3>1 DEF Located
    <3>3. RestsAt(id, t, r) => by_id[id] = <<t, r>>
      BY DEF Located
    <3> QED
      BY <1>4, <3>2, <3>3
  <2> QED
    BY <2>1, <2>2 DEF RestsAt
<1>5. CASE t = s /\ r = p
  <2>1. ASSUME NEW i \in 1 .. n, queue[s][p][i].id = id, id # queue[s][p][k].id
        PROVE  \E j \in 1 .. n - 1 : queue'[s][p][j].id = id
    <3>1. i # k
      BY <2>1
    <3>2. CASE i < k
      <4>1. i \in 1 .. n - 1
        BY <1>3, <3>2
      <4>2. queue'[s][p][i] = queue[s][p][i]
        BY <1>3, <3>2, <4>1
      <4> QED
        BY <2>1, <4>1, <4>2
    <3>3. CASE k < i
      <4>1. PICK j \in 1 .. n - 1 : i = j + 1 /\ ~ j < k
        BY <1>3, <3>3
      <4>2. queue'[s][p][j] = queue[s][p][i]
        BY <1>3, <4>1
      <4> QED
        BY <2>1, <4>2
    <3> QED
      BY <1>3, <3>1, <3>2, <3>3
  <2>2. ASSUME NEW j \in 1 .. n - 1, queue'[s][p][j].id = id
        PROVE  (\E i \in 1 .. n : queue[s][p][i].id = id) /\ id # queue[s][p][k].id
    <3>1. PICK i \in 1 .. n : i = (IF j < k THEN j ELSE j + 1) /\ i # k
      BY <1>3
    <3>2. queue[s][p][i].id = id
      BY <1>3, <2>2, <3>1
    <3>3. queue[s][p][k].id # queue[s][p][i].id
      BY <1>1, <1>2, <3>1 DEF IdOnce
    <3> QED
      BY <3>2, <3>3
  <2> QED
    BY <1>2, <1>3, <1>5, <2>1, <2>2 DEF RestsAt
<1> QED
  BY <1>4, <1>5

\* A partial fill changes no id.
LEMMA ShrinksRests ==
    ASSUME BookTypeOK, NEW s, NEW p, NEW a, Shrinks(s, p, a)
    PROVE  /\ \A id \in Ids, t \in Sides, r \in Prices : RestsAt(id, t, r)' <=> RestsAt(id, t, r)
           /\ IdOnce => IdOnce'
<1>1. ASSUME NEW t \in Sides, NEW r \in Prices
      PROVE  /\ DOMAIN queue'[t][r] = DOMAIN queue[t][r]
             /\ \A i \in DOMAIN queue[t][r] : queue'[t][r][i].id = queue[t][r][i].id
  BY DEF Shrinks, Elsewhere
<1>2. ASSUME NEW id \in Ids, NEW t \in Sides, NEW r \in Prices
      PROVE  RestsAt(id, t, r)' <=> RestsAt(id, t, r)
  BY <1>1 DEF RestsAt
<1>3. IdOnce => IdOnce'
  BY <1>1 DEF IdOnce
<1> QED
  BY <1>2, <1>3

\* An order joins a level: its id rests there too.
LEMMA JoinsRests ==
    ASSUME BookTypeOK, NEW s, NEW p, NEW x, Joins(s, p, x),
           NEW id \in Ids, NEW t \in Sides, NEW r \in Prices
    PROVE  RestsAt(id, t, r)' <=> RestsAt(id, t, r) \/ (id = x.id /\ t = s /\ r = p)
<1>1. PICK n \in Nat : n = Len(queue[s][p]) /\ DOMAIN queue[s][p] = 1 .. n
  BY QueueFacts DEF Joins
<1>2. CASE t # s \/ r # p
  BY <1>2 DEF Joins, Elsewhere, RestsAt
<1>3. CASE t = s /\ r = p
  <2>1. /\ DOMAIN queue'[s][p] = 1 .. n + 1 /\ queue'[s][p][n + 1] = x
        /\ \A i \in 1 .. n : queue'[s][p][i] = queue[s][p][i]
    BY <1>1 DEF Joins
  <2>2. \A j \in 1 .. n + 1 : j \in 1 .. n \/ j = n + 1
    OBVIOUS
  <2>3. n + 1 \in 1 .. n + 1 /\ \A j \in 1 .. n : j \in 1 .. n + 1
    OBVIOUS
  <2> QED
    BY <1>1, <1>3, <2>1, <2>2, <2>3 DEF RestsAt
<1> QED
  BY <1>2, <1>3

\* An order taken out leaves every id at most once in its level.
LEMMA LeavesOnce ==
    ASSUME BookTypeOK, BookTypeOK', IdOnce, NEW s, NEW p, NEW k, Leaves(s, p, k)
    PROVE  IdOnce'
<1>1. k \in Nat /\ Thinned(s, p, k)
  BY LeavesThins
<1> SUFFICES ASSUME NEW t \in Sides, NEW r \in Prices,
                    NEW i \in DOMAIN queue'[t][r], NEW j \in DOMAIN queue'[t][r],
                    queue'[t][r][i].id = queue'[t][r][j].id
             PROVE  i = j
  BY DEF IdOnce
<1>2. PICK a \in DOMAIN queue[t][r] :
          /\ a = IF t = s /\ r = p /\ i >= k THEN i + 1 ELSE i
          /\ queue'[t][r][i].id = queue[t][r][a].id
  BY <1>1 DEF Thinned
<1>3. PICK b \in DOMAIN queue[t][r] :
          /\ b = IF t = s /\ r = p /\ j >= k THEN j + 1 ELSE j
          /\ queue'[t][r][j].id = queue[t][r][b].id
  BY <1>1 DEF Thinned
<1>4. i \in Nat /\ j \in Nat
  <2>1. queue'[t][r] \in Seq(Resting)
    BY DEF BookTypeOK
  <2>2. DOMAIN queue'[t][r] = 1 .. Len(queue'[t][r])
    BY <2>1, LenProperties
  <2> QED
    BY <2>2
<1>5. a = b
  BY <1>2, <1>3 DEF IdOnce
<1> QED
  BY <1>1, <1>2, <1>3, <1>4, <1>5

\* The k-th order of a deque has at least rank k: so no deque is longer
\* than the orders that have arrived.
DeepByAge ==
    \A s \in Sides, p \in Prices : \A i \in DOMAIN queue[s][p] : i <= queue[s][p][i].rank

LEMMA DeepByAgeStep ==
    ASSUME TypeOK, TypeOK', Seniority, DeepByAge, [Next]_vars
    PROVE  DeepByAge'
<1>0. BookTypeOK /\ BookTypeOK'
  BY TypeParts DEF TypeOK, BookTypeOK
<1>1. CASE queue' = queue
  BY <1>1 DEF DeepByAge
<1>2. ASSUME NEW s \in Sides, NEW p \in Prices, NEW k \in Nat, Thinned(s, p, k)
      PROVE  DeepByAge'
  <2> SUFFICES ASSUME NEW t \in Sides, NEW r \in Prices, NEW j \in DOMAIN queue'[t][r]
               PROVE  j <= queue'[t][r][j].rank
    BY DEF DeepByAge
  <2>1. PICK i \in DOMAIN queue[t][r] :
            /\ i = IF t = s /\ r = p /\ j >= k THEN j + 1 ELSE j
            /\ queue'[t][r][j].rank = queue[t][r][i].rank
    BY <1>2 DEF Thinned
  <2>2. i <= queue[t][r][i].rank /\ queue[t][r][i].rank \in Nat /\ i \in Nat
    BY <1>0, <2>1, QueueFacts DEF DeepByAge
  <2>3. j \in Nat
    <3>1. queue'[t][r] \in Seq(Resting)
      BY <1>0 DEF BookTypeOK
    <3>2. DOMAIN queue'[t][r] = 1 .. Len(queue'[t][r])
      BY <3>1, LenProperties
    <3> QED
      BY <3>2
  <2> QED
    BY <2>1, <2>2, <2>3
<1>3. CASE /\ ReturnFills
           /\ Joins(taker.side, taker.price,
                    [rank |-> taker.rank, id |-> taker.id, qty |-> remaining])
  <2>1. PICK x : x = [rank |-> taker.rank, id |-> taker.id, qty |-> remaining]
    OBVIOUS
  <2>2. PICK s \in Sides, p \in Prices : Joins(s, p, x)
    BY <1>3, <2>1 DEF Joins
  <2>3. /\ x.rank = arrived /\ Youngest = arrived /\ arrived \in Nat /\ arrived >= 1
    <3>1. pc # "idle" /\ taker.rank = arrived
      BY <1>3 DEF ReturnFills, Seniority, TakerIsLast
    <3>2. arrived \in Ranks
      BY <3>1, TakerFacts DEF TypeOK
    <3> QED
      BY <2>1, <3>1, <3>2 DEF Youngest, Ranks
  <2>4. PICK n \in Nat : n = Len(queue[s][p]) /\ DOMAIN queue[s][p] = 1 .. n
    BY <1>0, QueueFacts
  <2>5. n + 1 <= arrived
    <3>1. CASE n = 0
      BY <2>3, <3>1
    <3>2. CASE n # 0
      <4>1. n \in DOMAIN queue[s][p]
        BY <2>4, <3>2
      <4>2. PICK m \in Nat : m = queue[s][p][n].rank
        BY <1>0, <4>1, QueueFacts
      <4>3. n <= m /\ m < arrived
        BY <2>3, <4>1, <4>2 DEF DeepByAge, Seniority, RestedEarlier
      <4> QED
        BY <2>3, <4>3
    <3> QED
      BY <3>1, <3>2
  <2> SUFFICES ASSUME NEW t \in Sides, NEW r \in Prices, NEW j \in DOMAIN queue'[t][r]
               PROVE  j <= queue'[t][r][j].rank
    BY DEF DeepByAge
  <2>6. CASE t # s \/ r # p
    BY <2>2, <2>6 DEF Joins, Elsewhere, DeepByAge
  <2>7. CASE t = s /\ r = p
    <3>1. /\ DOMAIN queue'[s][p] = 1 .. n + 1 /\ queue'[s][p][n + 1] = x
          /\ \A i \in 1 .. n : queue'[s][p][i] = queue[s][p][i]
      BY <2>2, <2>4 DEF Joins
    <3>2. j \in 1 .. n \/ j = n + 1
      BY <2>7, <3>1
    <3>3. CASE j \in 1 .. n
      BY <2>4, <2>7, <3>1, <3>3 DEF DeepByAge
    <3>4. CASE j = n + 1
      BY <2>3, <2>5, <2>7, <3>1, <3>4
    <3> QED
      BY <3>2, <3>3, <3>4
  <2> QED
    BY <2>6, <2>7
<1> QED
  BY <1>1, <1>2, <1>3, BookMoves, ThinnedBy

\* A step that moves no order and writes no index entry, and starts no call.
LEMMA IndexKept ==
    ASSUME IndexInv, UNCHANGED <<queue, by_id>>, Stale' = Stale,
           pc' # "idle" => pc # "idle" /\ taker' = taker
    PROVE  IndexInv'
BY DEF IndexInv, Located, Indexed, StaleGone, IdOnce, TakerIsNew, RestsAt

\* A call starts with an id that does not rest.
LEMMA BeginIndexed ==
    ASSUME ReuseIds = FALSE, TypeOK, IndexInv, DeepByAge, NEW o \in OrderTypes, BeginMatch(o)
    PROVE  IndexInv'
<1>1. /\ o.id \notin RestingIds /\ UNCHANGED <<queue, by_id>> /\ taker' = o
      /\ Stale = {} /\ Stale' = {}
  BY DEF BeginMatch, Arrive, bookVars, Stale
<1>2. ASSUME NEW s \in Sides, NEW p \in Prices
      PROVE  ~ RestsAt(o.id, s, p)
  <2> SUFFICES ASSUME NEW i \in DOMAIN queue[s][p], queue[s][p][i].id = o.id
               PROVE  FALSE
    BY DEF RestsAt
  <2>1. i \in Ranks
    <3>1. i \in 1 .. Len(queue[s][p]) /\ Len(queue[s][p]) \in Nat /\ queue[s][p][i].rank \in Ranks
      BY QueueFacts, TypeParts
    <3>2. i <= queue[s][p][i].rank
      BY DEF DeepByAge
    <3> QED
      BY <3>1, <3>2, MaxOrdersAssumption DEF Ranks
  <2>2. PICK x \in Sides \X Prices \X Ranks : x = <<s, p, i>>
    BY <2>1
  <2>3. x[1] = s /\ x[2] = p /\ x[3] = i
    BY <2>2
  <2>4. queue[x[1]][x[2]][x[3]].id \in RestingIds
    BY <2>3 DEF RestingIds
  <2> QED
    BY <1>1, <2>3, <2>4
<1> QED
  BY <1>1, <1>2 DEF IndexInv, Located, Indexed, StaleGone, IdOnce, TakerIsNew, RestsAt

\* A trade: an order that is filled waits among the emptied ids.
LEMMA DrainIndexed ==
    ASSUME TypeOK, TypeOK', IndexInv, DrainFront
    PROVE  IndexInv'
<1>0. BookTypeOK /\ BookTypeOK' /\ CallTypeOK /\ OutputTypeOK
  BY TypeParts DEF TypeOK, BookTypeOK
<1>1. /\ pc = "drain" /\ UNCHANGED <<pc, taker, by_id>>
      /\ Stale = emptied /\ Stale' = emptied' /\ taker.id \in Ids
  BY <1>0, TakerFacts DEF DrainFront, CallTypeOK, Stale
<1>2. PICK s \in Sides : s = Opposite(taker.side)
  BY <1>0, DrainMoves
<1>3. FrontOrder = queue[s][price][1]
  BY <1>2 DEF FrontOrder
<1>4. CASE Leaves(s, price, 1) /\ emptied' = emptied \cup {FrontOrder.id}
  <2>1. PICK x : x = FrontOrder.id
    OBVIOUS
  <2>2. \A id \in Ids, t \in Sides, r \in Prices :
            RestsAt(id, t, r)' <=> RestsAt(id, t, r) /\ id # x
    BY <1>0, <1>3, <1>4, <2>1, LeavesRests DEF IndexInv
  <2>3. Stale' = Stale \cup {x} /\ Stale' \subseteq Ids
    BY <1>0, <1>1, <1>4, <2>1 DEF TypeOK
  <2>4. IdOnce'
    BY <1>0, <1>4, LeavesOnce DEF IndexInv
  <2>5. Located'
    BY <1>1, <2>2 DEF IndexInv, Located
  <2>6. Indexed'
    BY <1>1, <2>2, <2>3 DEF IndexInv, Indexed
  <2>7. StaleGone'
    BY <2>2, <2>3 DEF IndexInv, StaleGone
  <2>8. TakerIsNew'
    BY <1>1, <2>2 DEF IndexInv, TakerIsNew
  <2> QED
    BY <2>4, <2>5, <2>6, <2>7, <2>8 DEF IndexInv
<1>5. CASE Shrinks(s, price, Traded(FrontOrder)) /\ emptied' = emptied
  <2>1. /\ \A id \in Ids, t \in Sides, r \in Prices : RestsAt(id, t, r)' <=> RestsAt(id, t, r)
        /\ IdOnce'
    BY <1>0, <1>5, ShrinksRests DEF IndexInv
  <2>2. Stale' = Stale /\ Stale \subseteq Ids
    BY <1>0, <1>1, <1>5 DEF CallTypeOK
  <2>3. Located' /\ Indexed'
    BY <1>1, <2>1, <2>2 DEF IndexInv, Located, Indexed
  <2>4. StaleGone' /\ TakerIsNew'
    BY <1>1, <2>1, <2>2 DEF IndexInv, StaleGone, TakerIsNew
  <2> QED
    BY <2>1, <2>3, <2>4 DEF IndexInv
<1> QED
  BY <1>0, <1>2, <1>4, <1>5, DrainMoves

\* The inner loop ends: the emptied ids are forgotten.
LEMMA LeaveIndexed ==
    ASSUME TypeOK, IndexInv, LeaveLevel
    PROVE  IndexInv'
<1>1. /\ queue' = queue /\ taker' = taker /\ pc # "idle"
      /\ Stale = emptied /\ Stale' = {} /\ by_id \in [Ids -> IndexEntries]
      /\ by_id' = [id \in Ids |-> IF id \in emptied THEN NoEntry ELSE by_id[id]]
  BY DEF LeaveLevel, ForgetIds, Stale, TypeOK
<1>2. ASSUME NEW id \in Ids, NEW s \in Sides, NEW p \in Prices
      PROVE  RestsAt(id, s, p)' <=> RestsAt(id, s, p)
  BY <1>1 DEF RestsAt
<1>3. \A s \in Sides, p \in Prices : NoEntry # <<s, p>>
  BY DEF NoEntry, Sides
<1>4. Located'
  BY <1>1, <1>2 DEF IndexInv, Located, StaleGone
<1>5. Indexed'
  BY <1>1, <1>2, <1>3 DEF IndexInv, Indexed
<1>6. StaleGone'
  BY <1>1 DEF StaleGone
<1>7. IdOnce'
  BY <1>1 DEF IndexInv, IdOnce
<1>8. TakerIsNew'
  BY <1>1 DEF IndexInv, TakerIsNew, RestsAt
<1> QED
  BY <1>4, <1>5, <1>6, <1>7, <1>8 DEF IndexInv

\* A remainder rests and is indexed.
LEMMA RestIndexed ==
    ASSUME TypeOK, IndexInv, ReturnFills, NEW x,
           x.id = taker.id, Joins(taker.side, taker.price, x),
           by_id' = [by_id EXCEPT ![taker.id] = <<taker.side, taker.price>>]
    PROVE  IndexInv'
<1>1. /\ pc = "sweep" /\ pc' = "idle" /\ Stale = {} /\ Stale' = {}
      /\ taker.id \in Ids /\ by_id \in [Ids -> IndexEntries]
  BY TakerFacts DEF ReturnFills, Stale, TypeOK
<1>2. PICK s \in Sides, p \in Prices : s = taker.side /\ p = taker.price /\ Joins(s, p, x)
  BY DEF Joins
<1>3. \A id \in Ids, t \in Sides, r \in Prices :
          RestsAt(id, t, r)' <=> RestsAt(id, t, r) \/ (id = taker.id /\ t = s /\ r = p)
  BY <1>2, JoinsRests, TypeParts
<1>4. \A t \in Sides, r \in Prices : ~ RestsAt(taker.id, t, r)
  BY <1>1 DEF IndexInv, TakerIsNew
<1>5. /\ by_id'[taker.id] = <<s, p>>
      /\ \A id \in Ids : id # taker.id => by_id'[id] = by_id[id]
  BY <1>1, <1>2
<1>6. Located'
  BY <1>3, <1>4, <1>5 DEF IndexInv, Located
<1>7. Indexed'
  BY <1>1, <1>3, <1>5 DEF IndexInv, Indexed
<1>8. StaleGone' /\ TakerIsNew'
  BY <1>1 DEF StaleGone, TakerIsNew
<1>9. IdOnce'
  <2>1. PICK n \in Nat : n = Len(queue[s][p]) /\ DOMAIN queue[s][p] = 1 .. n
    BY QueueFacts, TypeParts
  <2>2. /\ DOMAIN queue'[s][p] = 1 .. n + 1 /\ queue'[s][p][n + 1] = x
        /\ \A i \in 1 .. n : queue'[s][p][i] = queue[s][p][i]
    BY <1>2, <2>1 DEF Joins
  <2>3. \A i \in 1 .. n : queue[s][p][i].id # x.id
    BY <1>4, <2>1 DEF RestsAt
  <2>4. \A j \in 1 .. n + 1 : j \in 1 .. n \/ j = n + 1
    OBVIOUS
  <2>5. \A i, j \in 1 .. n : queue[s][p][i].id = queue[s][p][j].id => i = j
    BY <2>1 DEF IndexInv, IdOnce
  <2>6. \A i, j \in 1 .. n + 1 : queue'[s][p][i].id = queue'[s][p][j].id => i = j
    BY <2>2, <2>3, <2>4, <2>5
  <2>7. ASSUME NEW t \in Sides, NEW r \in Prices
        PROVE  \A i, j \in DOMAIN queue'[t][r] :
                   queue'[t][r][i].id = queue'[t][r][j].id => i = j
    <3>1. CASE t # s \/ r # p
      BY <1>2, <3>1 DEF Joins, Elsewhere, IndexInv, IdOnce
    <3>2. CASE t = s /\ r = p
      BY <2>2, <2>6, <3>2
    <3> QED
      BY <3>1, <3>2
  <2> QED
    BY <2>7 DEF IdOnce
<1> QED
  BY <1>6, <1>7, <1>8, <1>9 DEF IndexInv

\* cancel finds the order and takes out order and entry.
LEMMA CancelIndexed ==
    ASSUME TypeOK, TypeOK', IndexInv, NEW x \in Ids, Cancel(x)
    PROVE  IndexInv'
<1>0. BookTypeOK /\ BookTypeOK'
  BY TypeParts DEF TypeOK, BookTypeOK
<1>1. /\ pc = "idle" /\ pc' = "idle" /\ Stale = {} /\ Stale' = {}
      /\ by_id \in [Ids -> IndexEntries]
  BY DEF Cancel, callVars, Stale, TypeOK
<1>2. PICK s \in Sides, p \in Prices :
          /\ by_id[x] = <<s, p>>
          /\ by_id' = [by_id EXCEPT ![x] = NoEntry]
          /\ \/ queue' = queue /\ \A i \in DOMAIN queue[s][p] : queue[s][p][i].id # x
             \/ \E k \in DOMAIN queue[s][p] : Leaves(s, p, k) /\ queue[s][p][k].id = x
  BY <1>0, CancelMoves
<1>3. PICK k \in DOMAIN queue[s][p] : Leaves(s, p, k) /\ queue[s][p][k].id = x
  <2>1. RestsAt(x, s, p)
    BY <1>1, <1>2 DEF IndexInv, Indexed
  <2> QED
    BY <1>2, <2>1 DEF RestsAt
<1>4. \A id \in Ids, t \in Sides, r \in Prices :
          RestsAt(id, t, r)' <=> RestsAt(id, t, r) /\ id # x
  BY <1>0, <1>3, LeavesRests DEF IndexInv
<1>5. by_id'[x] = NoEntry /\ \A id \in Ids : id # x => by_id'[id] = by_id[id]
  BY <1>1, <1>2
<1>6. \A t \in Sides, r \in Prices : NoEntry # <<t, r>>
  BY DEF NoEntry, Sides
<1>7. Located'
  BY <1>4, <1>5 DEF IndexInv, Located
<1>8. Indexed'
  BY <1>1, <1>4, <1>5, <1>6 DEF IndexInv, Indexed
<1>9. StaleGone' /\ TakerIsNew'
  BY <1>1 DEF StaleGone, TakerIsNew
<1>10. IdOnce'
  BY <1>0, <1>3, LeavesOnce DEF IndexInv
<1> QED
  BY <1>7, <1>8, <1>9, <1>10 DEF IndexInv

\* Between calls the invariant is IndexExact.
LEMMA PlacesExact ==
    ASSUME TypeOK, IndexInv, pc = "idle", NEW id \in Ids
    PROVE  Places(id) = IF by_id[id] = NoEntry THEN {} ELSE {by_id[id]}
<1>1. Stale = {} /\ by_id[id] \in IndexEntries
  BY DEF Stale, TypeOK
<1>2. \A x \in Sides \X Prices : x \in Places(id) <=> RestsAt(id, x[1], x[2])
  BY DEF Places, RestsAt
<1>3. \A x \in Sides \X Prices : x \in Places(id) <=> by_id[id] = x
  <2> SUFFICES ASSUME NEW x \in Sides \X Prices
               PROVE  RestsAt(id, x[1], x[2]) <=> by_id[id] = x
    BY <1>2
  <2>1. PICK s \in Sides, p \in Prices : x = <<s, p>>
    OBVIOUS
  <2>2. RestsAt(id, s, p) => by_id[id] = <<s, p>>
    BY DEF IndexInv, Located
  <2>3. by_id[id] = <<s, p>> => RestsAt(id, s, p)
    BY <1>1 DEF IndexInv, Indexed
  <2> QED
    BY <2>1, <2>2, <2>3
<1>4. Places(id) \subseteq Sides \X Prices
  BY DEF Places
<1>5. CASE by_id[id] = NoEntry
  <2>1. NoEntry \notin Sides \X Prices
    BY DEF NoEntry, Sides
  <2>2. Places(id) = {}
    BY <1>3, <1>4, <1>5, <2>1
  <2> QED
    BY <1>5, <2>2
<1>6. CASE by_id[id] # NoEntry
  <2>1. by_id[id] \in Sides \X Prices
    BY <1>1, <1>6 DEF IndexEntries
  <2>2. Places(id) = {by_id[id]}
    BY <1>3, <1>4, <2>1
  <2> QED
    BY <1>6, <2>2
<1> QED
  BY <1>5, <1>6

\* restore rebuilds the index the engine had.
LEMMA RestoredIndex ==
    ASSUME TypeOK, IndexInv, RestoreSnapshot
    PROVE  by_id' = by_id
<1>1. pc = "idle" /\ by_id \in [Ids -> IndexEntries]
      /\ by_id' = [id \in Ids |-> IF Places(id) = {} THEN NoEntry ELSE LastInserted(Places(id))]
  BY DEF RestoreSnapshot, RebuiltIndex, TypeOK
<1>2. ASSUME NEW id \in Ids
      PROVE  by_id'[id] = by_id[id]
  <2>1. Places(id) = IF by_id[id] = NoEntry THEN {} ELSE {by_id[id]}
    BY <1>1, PlacesExact
  <2>2. CASE by_id[id] = NoEntry
    BY <1>1, <2>1, <2>2
  <2>3. CASE by_id[id] # NoEntry
    <3>1. Places(id) = {by_id[id]} /\ Places(id) # {}
      BY <2>1, <2>3
    <3>2. Places(id) \in SUBSET (Sides \X Prices)
      BY DEF Places
    <3>3. LastInserted(Places(id)) \in Places(id)
      BY <3>1, <3>2, LastInsertedIn
    <3> QED
      BY <1>1, <3>1, <3>3
  <2> QED
    BY <2>2, <2>3
<1> QED
  BY <1>1, <1>2

LEMMA IndexStep ==
    ASSUME ReuseIds = FALSE, TypeOK, TypeOK', IndexInv, DeepByAge, [Next]_vars
    PROVE  IndexInv'
<1>1. ASSUME NEW o \in NextOrders, BeginMatch(o)
      PROVE  IndexInv'
  <2>1. o \in OrderTypes
    BY <1>1, OrderFacts DEF TypeOK
  <2> QED
    BY <1>1, <2>1, BeginIndexed
<1>2. ASSUME NEW o \in NextOrders, RejectFok(o)
      PROVE  IndexInv'
  BY <1>2, IndexKept DEF RejectFok, bookVars, callVars, Stale
<1>3. ASSUME NEW p \in Prices, EnterLevel(p)
      PROVE  IndexInv'
  BY <1>3, IndexKept DEF EnterLevel, bookVars, Stale
<1>4. CASE DrainFront
  BY <1>4, DrainIndexed
<1>5. CASE LeaveLevel
  BY <1>5, LeaveIndexed
<1>6. CASE ReturnFills
  <2>1. CASE remaining > 0 /\ Rests(taker)
    <3>1. taker \in OrderTypes /\ remaining \in Nat /\ Rest(taker, remaining)
      BY <1>6, <2>1 DEF ReturnFills, TypeOK
    <3>2. PICK x : x = [rank |-> taker.rank, id |-> taker.id, qty |-> remaining]
      OBVIOUS
    <3>3. /\ Joins(taker.side, taker.price, x) /\ x.id = taker.id
          /\ by_id' = [by_id EXCEPT ![taker.id] = <<taker.side, taker.price>>]
      BY <3>1, <3>2, RestMoves, TypeParts
    <3> QED
      BY <1>6, <3>3, RestIndexed
  <2>2. CASE ~ (remaining > 0 /\ Rests(taker))
    BY <1>6, <2>2, IndexKept DEF ReturnFills, Stale
  <2> QED
    BY <2>1, <2>2
<1>7. ASSUME NEW id \in Ids, Cancel(id)
      PROVE  IndexInv'
  BY <1>7, CancelIndexed
<1>8. CASE RestoreSnapshot
  <2>1. by_id' = by_id
    BY <1>8, RestoredIndex
  <2> QED
    BY <1>8, <2>1, IndexKept DEF RestoreSnapshot, callVars, Stale
<1>9. CASE UNCHANGED vars
  BY <1>9, IndexKept DEF vars, bookVars, callVars, Stale
<1> QED
  BY <1>1, <1>2, <1>3, <1>4, <1>5, <1>6, <1>7, <1>8, <1>9 DEF Next, MatchStep, CancelUnknown

\* What is known of the index and of the ages of resting orders.
IdInv == TypeOK /\ Seniority /\ DeepByAge /\ IndexInv

LEMMA IdInit == Init => IdInv
<1> SUFFICES ASSUME Init PROVE IdInv
  OBVIOUS
<1>1. \A s \in Sides, p \in Prices : DOMAIN queue[s][p] = {}
  BY DEF Init
<1>2. \A id \in Ids, s \in Sides, p \in Prices : ~ RestsAt(id, s, p)
  BY <1>1 DEF RestsAt
<1>3. \A s \in Sides, p \in Prices : NoEntry # <<s, p>>
  BY DEF NoEntry, Sides
<1>4. pc = "idle" /\ by_id = [id \in Ids |-> NoEntry] /\ Stale = {}
  BY DEF Init, Stale
<1>5. Indexed
  BY <1>3, <1>4 DEF Indexed
<1>6. IndexInv
  BY <1>1, <1>2, <1>4, <1>5 DEF IndexInv, Located, StaleGone, IdOnce, TakerIsNew
<1>7. DeepByAge
  BY <1>1 DEF DeepByAge
<1> QED
  BY <1>6, <1>7, SeniorTypes DEF IdInv

LEMMA IdStep ==
    ASSUME ReuseIds = FALSE, IdInv, [Next]_vars
    PROVE  IdInv'
<1>1. TypeOK' /\ Seniority'
  BY SeniorTypes DEF IdInv
<1>2. DeepByAge'
  BY <1>1, DeepByAgeStep DEF IdInv
<1>3. IndexInv'
  BY <1>1, IndexStep DEF IdInv
<1> QED
  BY <1>1, <1>2, <1>3 DEF IdInv

\* Between calls by_id locates every resting order and no other, when clients
\* do not send an id that rests.
THEOREM IndexLocatesOrders ==
    ASSUME ReuseIds = FALSE
    PROVE  Spec => []IndexExact
<1>1. IdInv /\ [Next]_vars => IdInv'
  BY IdStep
<1>2. IdInv => IndexExact
  BY PlacesExact DEF IdInv, IndexExact
<1> QED
  BY <1>1, <1>2, IdInit, PTL DEF Spec

\* restore(snapshot()) is the engine it was taken from: keys, deques, by_id and
\* the trade-id counter; under the same condition on the ids.
THEOREM SnapshotsRestore ==
    ASSUME ReuseIds = FALSE
    PROVE  Spec => SnapshotRoundTrip
<1>1. BookInv /\ IdInv /\ [Next]_vars => BookInv' /\ IdInv'
  BY IdStep, BookStep
<1>2. Init => BookInv /\ IdInv
  BY BookInit, IdInit
<1>3. ASSUME BookInv, IdInv
      PROVE  RestoreSnapshot => UNCHANGED bookVars
  <2> SUFFICES ASSUME RestoreSnapshot
               PROVE  UNCHANGED bookVars
    OBVIOUS
  <2>1. by_id' = by_id
    BY <1>3, RestoredIndex DEF IdInv
  <2>2. levels' = levels
    <3>1. pc = "idle" /\ levels \in [Sides -> SUBSET Prices]
          /\ levels' = [s \in Sides |-> {p \in Prices : queue[s][p] # << >>}]
      BY <1>3 DEF RestoreSnapshot, IdInv, TypeOK
    <3>2. \A s \in Sides, p \in Prices : p \in levels[s] <=> queue[s][p] # << >>
      BY <1>3, <3>1 DEF BookInv, LevelsExact
    <3>3. \A s \in Sides : levels'[s] = levels[s]
      BY <3>1, <3>2
    <3> QED
      BY <3>1, <3>3
  <2> QED
    BY <2>1, <2>2 DEF RestoreSnapshot, bookVars
<1>4. BookInv /\ IdInv /\ [Next]_vars => [RestoreSnapshot => UNCHANGED bookVars]_vars
  BY <1>3
<1> QED
  BY <1>1, <1>2, <1>4, PTL DEF Spec, SnapshotRoundTrip

-----------------------------------------------------------------------------
(***************************************************************************)
(* Fill-or-kill: what a taker can reach covers what it has left.           *)
(***************************************************************************)

KeysFinite == \A s \in Sides : IsFiniteSet(levels[s])

\* The quantity at each position of a side.
PosQty(s) == [x \in Prices \X Ranks |-> queue[s][x[1]][x[2]].qty]

\* What order o can reach within its limit.
Cover(o) == SumOver(PosQty(Opposite(o.side)), Reachable(o.side, o.price))

LEMMA KeysFiniteStep ==
    ASSUME BookInv, KeysFinite, [Next]_vars
    PROVE  KeysFinite'
<1>0. BookTypeOK /\ CallTypeOK /\ OutputTypeOK
  BY TypeParts DEF BookInv
<1>1. CASE \A s \in Sides : levels'[s] \in SUBSET levels[s]
  BY <1>1, FS_Subset DEF KeysFinite
<1>2. CASE levels' = levels
  BY <1>1, <1>2
<1>3. CASE LeaveLevel
  BY <1>0, <1>1, <1>3, LeaveFacts
<1>4. CASE ReturnFills
  <2>1. CASE remaining > 0 /\ Rests(taker)
    <3>1. taker \in OrderTypes /\ remaining \in Nat /\ Rest(taker, remaining)
      BY <1>0, <1>4, <2>1 DEF ReturnFills, CallTypeOK
    <3>2. /\ levels'[taker.side] = levels[taker.side] \cup {taker.price}
          /\ levels'[Opposite(taker.side)] = levels[Opposite(taker.side)]
      BY <1>0, <3>1, RestFacts
    <3>3. \A s \in Sides : s = taker.side \/ s = Opposite(taker.side)
      BY <3>1, TakerFacts DEF Sides, Opposite
    <3>4. taker.side \in Sides /\ Opposite(taker.side) \in Sides
      BY <3>1, TakerFacts
    <3>5. IsFiniteSet(levels[taker.side] \cup {taker.price})
      BY <3>4, FS_AddElement DEF KeysFinite
    <3>6. IsFiniteSet(levels'[taker.side]) /\ IsFiniteSet(levels'[Opposite(taker.side)])
      BY <3>2, <3>4, <3>5 DEF KeysFinite
    <3> QED
      BY <3>3, <3>6 DEF KeysFinite
  <2>2. CASE ~ (remaining > 0 /\ Rests(taker))
    BY <1>2, <1>4, <2>2 DEF ReturnFills
  <2> QED
    BY <2>1, <2>2
<1>5. ASSUME NEW id \in Ids, Cancel(id)
      PROVE  KeysFinite'
  BY <1>0, <1>1, <1>5, CancelFacts
<1>6. CASE RestoreSnapshot
  <2>1. \A s \in Sides, p \in Prices : p \in levels'[s] => p \in levels[s]
    <3>1. pc = "idle" /\ queue' = queue
      BY <1>6 DEF RestoreSnapshot
    <3> QED
      BY <1>0, <1>6, <3>1, RestoreFacts DEF BookInv, LevelsExact
  <2>2. \A s \in Sides : levels'[s] \subseteq Prices
    BY <1>0, <1>6, RestoreFacts
  <2> QED
    BY <1>1, <2>1, <2>2
<1>7. CASE (\E o \in NextOrders : BeginMatch(o) \/ RejectFok(o)) \/ UNCHANGED vars
  BY <1>2, <1>7 DEF BeginMatch, RejectFok, bookVars, vars
<1>8. CASE (\E p \in Prices : EnterLevel(p)) \/ DrainFront
  BY <1>2, <1>8 DEF EnterLevel, DrainFront, bookVars
<1> QED
  BY <1>3, <1>4, <1>5, <1>6, <1>7, <1>8, <1>2 DEF Next, MatchStep, CancelUnknown, vars, bookVars

\* The reachable orders are finitely many positions, with quantities.
LEMMA ReachableFacts ==
    ASSUME BookTypeOK, KeysFinite, NEW side \in Sides, NEW limit
    PROVE  /\ Reachable(side, limit) \subseteq Prices \X Ranks
           /\ IsFiniteSet(Reachable(side, limit))
           /\ \A x \in Reachable(side, limit) : PosQty(Opposite(side))[x] \in Nat
<1>1. PICK s \in Sides : s = Opposite(side)
  BY DEF Opposite, Sides
<1>2. PICK R : R = Reachable(side, limit)
  OBVIOUS
<1>3. R \subseteq levels[s] \X Ranks /\ levels[s] \subseteq Prices
  BY <1>1, <1>2 DEF Reachable, BookTypeOK
<1>4. IsFiniteSet(R)
  <2>1. IsFiniteSet(levels[s]) /\ IsFiniteSet(Ranks)
    BY FS_Interval, MaxOrdersAssumption DEF KeysFinite, Ranks
  <2>2. IsFiniteSet(levels[s] \X Ranks)
    BY <2>1, FS_Product
  <2> QED
    BY <1>3, <2>2, FS_Subset
<1>5. ASSUME NEW x \in R
      PROVE  PosQty(s)[x] \in Nat
  <2>1. x[2] \in DOMAIN queue[s][x[1]] /\ x[1] \in Prices /\ x \in Prices \X Ranks
    BY <1>1, <1>2, <1>3, <1>5 DEF Reachable
  <2>2. queue[s][x[1]][x[2]].qty \in Nat
    BY <2>1, QueueFacts
  <2> QED
    BY <2>1, <2>2 DEF PosQty
<1> QED
  BY <1>1, <1>2, <1>3, <1>4, <1>5

\* The pre-flight adds up what the order can reach, and wants somebody there.
LEMMA PreflightDepth ==
    ASSUME BookTypeOK, KeysFinite, NEW o \in OrderTypes
    PROVE  CanFillFull(o.side, o.qty, o.price)
               <=> Reachable(o.side, o.price) # {} /\ Cover(o) >= o.qty
<1>1. PICK side \in Sides, limit \in Prices : side = o.side /\ limit = o.price
  BY TakerFacts
<1>2. PICK s \in Sides : s = Opposite(side)
  BY DEF Opposite, Sides
<1>3. PICK R : R = Reachable(side, limit)
  OBVIOUS
<1>4. PICK F : F = PosQty(s)
  OBVIOUS
<1>5. /\ R \subseteq Prices \X Ranks /\ IsFiniteSet(R) /\ R \in SUBSET R
      /\ \A x \in R : F[x] \in Nat
  BY <1>2, <1>3, <1>4, ReachableFacts
<1>6. Integral(F, R)
  BY <1>5 DEF Integral
<1>7. PICK g \in [SUBSET R -> Int] : Adds(g, F, R) /\ SumOver(F, R) = g[R]
  BY <1>5, <1>6, SumIsAdded
<1> DEFINE P(h) == h = [t \in SUBSET R |->
                          IF t = {} THEN 0
                          ELSE queue[s][(CHOOSE x \in t : TRUE)[1]][(CHOOSE x \in t : TRUE)[2]].qty
                               + h[t \ {CHOOSE x \in t : TRUE}]]
           iter == CHOOSE h : P(h)
<1>8. \A t \in SUBSET R :
          t # {} => F[First(t)] =
                      queue[s][(CHOOSE x \in t : TRUE)[1]][(CHOOSE x \in t : TRUE)[2]].qty
  <2>1. \A t \in SUBSET R : t # {} => First(t) \in Prices \X Ranks
    BY <1>5, FirstIn
  <2>2. \A x \in Prices \X Ranks : F[x] = queue[s][x[1]][x[2]].qty
    BY <1>4 DEF PosQty
  <2> QED
    BY <2>1, <2>2 DEF First
<1>9. P(g)
  <2>1. g = [t \in SUBSET R |-> Added(g, F, t)]
    BY <1>7, AsFunction
  <2>2. \A t \in SUBSET R : Added(g, F, t) =
           IF t = {} THEN 0
           ELSE queue[s][(CHOOSE x \in t : TRUE)[1]][(CHOOSE x \in t : TRUE)[2]].qty
                + g[t \ {CHOOSE x \in t : TRUE}]
    <3> SUFFICES ASSUME NEW t \in SUBSET R
                 PROVE  Added(g, F, t) =
                          IF t = {} THEN 0
                          ELSE queue[s][(CHOOSE x \in t : TRUE)[1]][(CHOOSE x \in t : TRUE)[2]].qty
                               + g[t \ {CHOOSE x \in t : TRUE}]
      OBVIOUS
    <3>1. CASE t = {}
      BY <3>1 DEF Added
    <3>2. CASE t # {}
      BY <1>8, <3>2 DEF Added, First
    <3> QED
      BY <3>1, <3>2
  <2> QED
    BY <2>1, <2>2
<1>10. P(iter)
  <2> HIDE DEF P
  <2> QED
    BY <1>9
<1>11. Adds(iter, F, R)
  <2>1. \A t \in SUBSET R : iter[t] =
           IF t = {} THEN 0
           ELSE queue[s][(CHOOSE x \in t : TRUE)[1]][(CHOOSE x \in t : TRUE)[2]].qty
                + iter[t \ {CHOOSE x \in t : TRUE}]
    <3> HIDE DEF iter
    <3> QED
      BY <1>10
  <2> HIDE DEF iter
  <2> QED
    BY <1>8, <2>1, Zenon DEF Adds, Added, First
<1>12. iter[R] = g[R]
  <2> HIDE DEF iter
  <2> QED
    BY <1>5, <1>7, <1>11, AddsAgree
<1>13. CanFillFull(o.side, o.qty, o.price) <=> R # {} /\ iter[R] >= o.qty
  <2>1. CanFillFull(o.side, o.qty, o.price)
            <=> R # {} /\ MapThenSumSet(LAMBDA x : queue[s][x[1]][x[2]].qty, R) >= o.qty
    BY <1>1, <1>2, <1>3 DEF CanFillFull
  <2> QED
    BY <2>1 DEF MapThenSumSet, MapThenFoldSet
<1> QED
  BY <1>1, <1>2, <1>3, <1>4, <1>7, <1>12, <1>13 DEF Cover

LEMMA PreflightCovers ==
    ASSUME BookTypeOK, KeysFinite, NEW o \in OrderTypes, CanFillFull(o.side, o.qty, o.price)
    PROVE  Cover(o) >= o.qty
BY PreflightDepth

\* While a level is drained it is one the taker crosses.
DrainCrosses == pc = "drain" => Crosses(taker, price)

\* A running fill-or-kill order can still reach what it has left.
FokCovered == pc # "idle" /\ taker.kind = "Fok" => Cover(taker) >= remaining

DepthInv == KeysFinite /\ DeepByAge /\ DrainCrosses /\ FokCovered

\* Every position of a deque is one of the positions Reachable looks at.
LEMMA InRanks ==
    ASSUME BookTypeOK, DeepByAge, NEW s \in Sides, NEW p \in Prices
    PROVE  \A i \in DOMAIN queue[s][p] : i \in Ranks
<1> SUFFICES ASSUME NEW i \in DOMAIN queue[s][p]
             PROVE  i \in Ranks
  OBVIOUS
<1>1. i \in 1 .. Len(queue[s][p]) /\ Len(queue[s][p]) \in Nat /\ queue[s][p][i].rank \in Ranks
  BY QueueFacts
<1>2. i <= queue[s][p][i].rank
  BY DEF DeepByAge
<1> QED
  BY <1>1, <1>2, MaxOrdersAssumption DEF Ranks

\* The cover of an order depends on the other side of the book only.
LEMMA SameCover ==
    ASSUME BookTypeOK, KeysFinite, NEW o, o.side \in Sides, queue' = queue,
           \A x \in Prices \X Ranks :
               /\ x[2] \in DOMAIN queue[Opposite(o.side)][x[1]]
               => (x[1] \in levels'[Opposite(o.side)] <=> x[1] \in levels[Opposite(o.side)]),
           levels' \in [Sides -> SUBSET Prices]
    PROVE  Cover(o)' = Cover(o)
<1>1. PICK s \in Sides, side \in Sides : s = Opposite(o.side) /\ side = o.side
  BY DEF Opposite, Sides
<1>2. Reachable(o.side, o.price)' = Reachable(o.side, o.price)
  <2>1. levels[s] \subseteq Prices /\ levels'[s] \subseteq Prices
    BY DEF BookTypeOK
  <2> QED
    BY <1>1, <2>1 DEF Reachable
<1>3. PosQty(s)' = PosQty(s)
  BY DEF PosQty
<1> QED
  BY <1>1, <1>2, <1>3 DEF Cover

\* A trade takes from the cover what it takes from the remainder.
LEMMA DrainCover ==
    ASSUME TypeOK, TypeOK', KeysFinite, KeysFinite', DrainsKey, DeepByAge, DeepByAge',
           DrainCrosses, DrainFront, taker.kind = "Fok"
    PROVE  Cover(taker)' = Cover(taker) - Traded(FrontOrder)
<1>0. BookTypeOK /\ BookTypeOK' /\ CallTypeOK /\ OutputTypeOK
  BY TypeParts DEF TypeOK, BookTypeOK
<1>1. /\ pc = "drain" /\ taker' = taker /\ levels' = levels
      /\ taker.side \in Sides /\ price \in levels[Opposite(taker.side)]
      /\ CrossesPrice(taker.side, price, taker.price)
  BY <1>0, TakerFacts DEF DrainFront, CallTypeOK, DrainsKey, DrainCrosses, Crosses
<1>2. PICK side \in Sides, limit \in Prices : side = taker.side /\ limit = taker.price
  BY <1>0, <1>1, TakerFacts DEF CallTypeOK
<1>3. PICK s \in Sides : s = Opposite(side)
  BY DEF Opposite, Sides
<1>4. PICK t \in Nat : /\ t = Traded(FrontOrder) /\ 1 \in DOMAIN queue[s][price]
                       /\ price \in Prices /\ FrontOrder = queue[s][price][1]
                       /\ \/ Leaves(s, price, 1) /\ t = FrontOrder.qty
                          \/ Shrinks(s, price, t)
  BY <1>0, <1>2, <1>3, DrainMoves DEF FrontOrder
<1>5. PICK R, S : R = Reachable(side, limit) /\ S = Reachable(side, limit)'
  OBVIOUS
<1>6. PICK F, E : F = PosQty(s) /\ E = PosQty(s)'
  OBVIOUS
<1>7. /\ IsFiniteSet(R) /\ IsFiniteSet(S)
      /\ R \subseteq Prices \X Ranks /\ S \subseteq Prices \X Ranks
      /\ \A x \in R : F[x] \in Int
      /\ \A x \in S : E[x] \in Int
  <2>1. /\ IsFiniteSet(R) /\ R \subseteq Prices \X Ranks /\ \A x \in R : F[x] \in Nat
    BY <1>0, <1>3, <1>5, <1>6, ReachableFacts
  <2>2. /\ S \subseteq levels[s] \X Ranks /\ levels[s] \subseteq Prices
        /\ \A x \in S : x[2] \in DOMAIN queue'[s][x[1]]
    BY <1>0, <1>1, <1>3, <1>5 DEF Reachable, BookTypeOK
  <2>3. IsFiniteSet(S)
    <3>1. IsFiniteSet(levels[s]) /\ IsFiniteSet(Ranks)
      BY FS_Interval, MaxOrdersAssumption DEF KeysFinite, Ranks
    <3>2. IsFiniteSet(levels[s] \X Ranks)
      BY <3>1, FS_Product
    <3> QED
      BY <2>2, <3>2, FS_Subset
  <2>4. ASSUME NEW x \in S
        PROVE  E[x] \in Int
    <3>1. x \in Prices \X Ranks /\ x[1] \in Prices /\ x[2] \in DOMAIN queue'[s][x[1]]
      BY <2>2, <2>4
    <3>2. queue'[s][x[1]] \in Seq(Resting)
      BY <1>0, <3>1 DEF BookTypeOK
    <3>3. queue'[s][x[1]][x[2]] \in Resting
      BY <3>1, <3>2, ElementOfSeq, LenProperties
    <3> QED
      BY <1>6, <3>1, <3>3 DEF PosQty, Resting
  <2> QED
    BY <2>1, <2>2, <2>3, <2>4
<1>8. PICK x0 \in Prices \X Ranks : x0 = <<price, 1>>
  BY <1>0, <1>4, InRanks
<1>9. /\ \A x \in Prices \X Ranks : x \in R <=>
            x[1] \in levels[s] /\ x[2] \in DOMAIN queue[s][x[1]] /\ CrossesPrice(side, x[1], limit)
      /\ \A x \in Prices \X Ranks : x \in S <=>
            x[1] \in levels[s] /\ x[2] \in DOMAIN queue'[s][x[1]] /\ CrossesPrice(side, x[1], limit)
  BY <1>1, <1>3, <1>5 DEF Reachable
<1>10. /\ \A x \in Prices \X Ranks : F[x] = queue[s][x[1]][x[2]].qty
       /\ \A x \in Prices \X Ranks : E[x] = queue'[s][x[1]][x[2]].qty
  BY <1>6 DEF PosQty
<1>11. x0 \in R /\ F[x0] = FrontOrder.qty
  BY <1>1, <1>2, <1>3, <1>4, <1>8, <1>9, <1>10
<1>12. SumOver(F, R) = F[x0] + SumOver(F, R \ {x0})
  BY <1>7, <1>11, SumRemove
<1>13. Cover(taker) = SumOver(F, R) /\ Cover(taker)' = SumOver(E, S)
  BY <1>1, <1>2, <1>3, <1>5, <1>6 DEF Cover
<1>14. PICK T : T = R \ {x0}
  OBVIOUS
<1>15. IsFiniteSet(T) /\ \A x \in T : x \in R /\ x # x0
  BY <1>7, <1>14, FS_RemoveElement
<1>16. \A x \in Prices \X Ranks : x[1] # price => queue'[s][x[1]] = queue[s][x[1]]
  BY <1>4 DEF Leaves, Shrinks, Elsewhere
<1>17. CASE Shrinks(s, price, t)
  <2>1. DOMAIN queue'[s][price] = DOMAIN queue[s][price]
    BY <1>17 DEF Shrinks
  <2>2. S = R
    <3>1. \A x \in Prices \X Ranks : x \in S <=> x \in R
      BY <1>9, <1>16, <2>1
    <3> QED
      BY <1>7, <3>1
  <2>3. E[x0] = F[x0] - t
    BY <1>4, <1>8, <1>10, <1>17 DEF Shrinks
  <2>4. \A x \in T : E[x] = F[x]
    <3> SUFFICES ASSUME NEW x \in T
                 PROVE  E[x] = F[x]
      OBVIOUS
    <3>1. x \in Prices \X Ranks /\ x \in R /\ x # x0
      BY <1>7, <1>15
    <3>2. CASE x[1] # price
      BY <1>10, <1>16, <3>1, <3>2
    <3>3. CASE x[1] = price
      <4>1. x[2] # 1 /\ x[2] \in DOMAIN queue[s][price]
        BY <1>8, <1>9, <3>1, <3>3
      <4>2. queue'[s][price][x[2]] = queue[s][price][x[2]]
        BY <1>17, <4>1 DEF Shrinks
      <4> QED
        BY <1>10, <3>1, <3>3, <4>2
    <3> QED
      BY <3>2, <3>3
  <2>5. SumOver(E, S) = E[x0] + SumOver(E, T)
    BY <1>7, <1>11, <1>14, <2>2, SumRemove
  <2>6. SumOver(E, T) = SumOver(F, T)
    BY <1>7, <1>15, <2>4, SumEqual
  <2>7. SumOver(F, T) \in Int /\ F[x0] \in Int
    BY <1>7, <1>11, <1>15, SumType
  <2> QED
    BY <1>4, <1>12, <1>13, <1>14, <2>3, <2>5, <2>6, <2>7
<1>18. CASE Leaves(s, price, 1) /\ t = FrontOrder.qty
  <2> DEFINE b == [x \in S |-> IF x[1] = price THEN <<price, x[2] + 1>> ELSE x]
  <2>1. PICK n \in Nat : /\ DOMAIN queue[s][price] = 1 .. n
                         /\ DOMAIN queue'[s][price] = 1 .. n - 1
                         /\ \A j \in 1 .. n - 1 : queue'[s][price][j] = queue[s][price][j + 1]
    <3>1. TakenOut(queue[s][price], 1, queue'[s][price])
      BY <1>18 DEF Leaves
    <3>2. Len(queue[s][price]) \in Nat /\ DOMAIN queue[s][price] = 1 .. Len(queue[s][price])
      BY <1>0, <1>4, QueueFacts
    <3>3. queue'[s][price] \in Seq(Resting)
      BY <1>0, <1>4 DEF BookTypeOK
    <3>4. DOMAIN queue'[s][price] = 1 .. Len(queue'[s][price])
      BY <3>3, LenProperties
    <3>5. PICK n \in Nat : n = Len(queue[s][price])
      BY <3>2
    <3>6. DOMAIN queue'[s][price] = 1 .. n - 1
      BY <3>1, <3>4, <3>5 DEF TakenOut
    <3>7. ASSUME NEW j \in 1 .. n - 1
          PROVE  queue'[s][price][j] = queue[s][price][j + 1]
      <4>1. ~ j < 1 /\ j \in 1 .. Len(queue'[s][price])
        BY <3>1, <3>5 DEF TakenOut
      <4> QED
        BY <3>1, <4>1 DEF TakenOut
    <3> QED
      BY <3>2, <3>5, <3>6, <3>7
  <2>2. \A j \in 1 .. n : j \in Ranks
    BY <1>0, <1>4, <2>1, InRanks
  <2>3. \A x \in S : b[x] \in T /\ E[x] = F[b[x]]
    <3> SUFFICES ASSUME NEW x \in S
                 PROVE  b[x] \in T /\ E[x] = F[b[x]]
      OBVIOUS
    <3>1. /\ x \in Prices \X Ranks /\ x[1] \in levels[s] /\ x[2] \in DOMAIN queue'[s][x[1]]
          /\ CrossesPrice(side, x[1], limit)
      BY <1>7, <1>9
    <3>2. CASE x[1] # price
      <4>1. b[x] = x
        BY <3>2
      <4>2. x \in R /\ x # x0
        BY <1>8, <1>9, <1>16, <3>1, <3>2
      <4>3. E[x] = F[x]
        BY <1>10, <1>16, <3>1, <3>2
      <4> QED
        BY <1>14, <4>1, <4>2, <4>3
    <3>3. CASE x[1] = price
      <4>1. PICK j \in 1 .. n - 1 : j = x[2]
        BY <2>1, <3>1, <3>3
      <4>7. j + 1 \in 1 .. n
        BY <4>1
      <4>8. j + 1 \in Ranks
        BY <2>2, <4>7
      <4>2. PICK y \in Prices \X Ranks : y = <<price, j + 1>>
        BY <1>4, <4>8
      <4>3. b[x] = y
        BY <3>3, <4>1, <4>2
      <4>4. y[1] = price /\ y[2] = j + 1 /\ y[2] \in 1 .. n /\ y # x0
        BY <1>8, <4>1, <4>2
      <4>5. y \in R
        BY <1>1, <1>2, <1>3, <1>9, <2>1, <4>4
      <4>9. queue'[s][price][j] = queue[s][price][j + 1]
        BY <2>1, <4>1
      <4>10. E[x] = queue'[s][price][j].qty /\ F[y] = queue[s][price][j + 1].qty
        BY <1>10, <3>1, <3>3, <4>1, <4>4
      <4>6. E[x] = F[y]
        BY <4>9, <4>10
      <4> QED
        BY <1>14, <4>3, <4>4, <4>5, <4>6
    <3> QED
      BY <3>2, <3>3
  <2>4. \A x, y \in S : b[x] = b[y] => x = y
    <3> SUFFICES ASSUME NEW x \in S, NEW y \in S, b[x] = b[y]
                 PROVE  x = y
      OBVIOUS
    <3>1. x \in Prices \X Ranks /\ y \in Prices \X Ranks
      BY <1>7
    <3>2. x[2] \in Nat /\ y[2] \in Nat
      BY <3>1 DEF Ranks
    <3>3. \A z \in S : /\ z[1] = price => b[z] = <<price, z[2] + 1>>
                       /\ z[1] # price => b[z] = z
      OBVIOUS
    <3>4. x = <<x[1], x[2]>> /\ y = <<y[1], y[2]>>
      BY <3>1
    <3> HIDE DEF b
    <3>5. \A z \in S : b[z][1] = z[1]
      <4> SUFFICES ASSUME NEW z \in S
                   PROVE  b[z][1] = z[1]
        OBVIOUS
      <4>1. CASE z[1] = price
        BY <3>3, <4>1
      <4>2. CASE z[1] # price
        BY <3>3, <4>2
      <4> QED
        BY <4>1, <4>2
    <3>6. x[1] = y[1]
      BY <3>5
    <3>7. CASE x[1] = price
      <4>1. PICK i \in Nat, j \in Nat : i = x[2] + 1 /\ j = y[2] + 1
        BY <3>2
      <4>2. b[x] = <<price, i>> /\ b[y] = <<price, j>>
        BY <3>3, <3>6, <3>7, <4>1
      <4>3. i = j
        <5>1. b[x] = b[y]
          OBVIOUS
        <5>2. <<price, i>> = <<price, j>>
          BY <4>2, <5>1, Zenon
        <5> QED
          BY <5>2
      <4>4. x[2] = y[2]
        BY <3>2, <4>1, <4>3
      <4> QED
        BY <3>4, <3>6, <4>4, Zenon
    <3>8. CASE x[1] # price
      BY <3>3, <3>6, <3>8
    <3> QED
      BY <3>7, <3>8
  <2>5. \A y \in T : \E x \in S : b[x] = y
    <3> SUFFICES ASSUME NEW y \in T
                 PROVE  \E x \in S : b[x] = y
      OBVIOUS
    <3>1. /\ y \in Prices \X Ranks /\ y[1] \in levels[s] /\ y[2] \in DOMAIN queue[s][y[1]]
          /\ CrossesPrice(side, y[1], limit) /\ y # x0
      BY <1>7, <1>9, <1>15
    <3>2. CASE y[1] # price
      <4>1. y \in S
        BY <1>9, <1>16, <3>1, <3>2
      <4> QED
        BY <3>2, <4>1
    <3>3. CASE y[1] = price
      <4>1. y[2] \in 1 .. n /\ y[2] # 1
        BY <1>8, <2>1, <3>1, <3>3
      <4>2. PICK j \in 1 .. n - 1 : y[2] = j + 1
        BY <4>1
      <4>8. j \in 1 .. n
        BY <4>2
      <4>9. j \in Ranks
        BY <2>2, <4>8
      <4>3. PICK x \in Prices \X Ranks : x = <<price, j>>
        BY <1>4, <4>9
      <4>4. x[1] = price /\ x[2] = j
        BY <4>3
      <4>5. x \in S
        BY <1>1, <1>2, <1>3, <1>9, <2>1, <4>2, <4>4
      <4>6. b[x] = <<price, j + 1>>
        BY <4>4, <4>5
      <4>7. y = <<price, j + 1>>
        BY <3>1, <3>3, <4>2
      <4> QED
        BY <4>5, <4>6, <4>7
    <3> QED
      BY <3>2, <3>3
  <2>6. SumOver(E, S) = SumOver(F, T)
    <3> HIDE DEF b
    <3>1. Integral(F, T)
      BY <1>7, <1>15 DEF Integral
    <3>2. Renames(b, S, T, E, F)
      BY <2>3, <2>4, <2>5 DEF Renames
    <3> QED
      BY <1>7, <1>15, <3>1, <3>2, SumRenamed
  <2>7. SumOver(F, T) \in Int /\ F[x0] \in Int
    BY <1>7, <1>11, <1>15, SumType
  <2> QED
    BY <1>4, <1>11, <1>12, <1>13, <1>14, <1>18, <2>6, <2>7
<1> QED
  BY <1>4, <1>17, <1>18


LEMMA DepthInit == Init => DepthInv
<1> SUFFICES ASSUME Init PROVE DepthInv
  OBVIOUS
<1>1. \A s \in Sides : levels[s] = {} /\ \A p \in Prices : DOMAIN queue[s][p] = {}
  BY DEF Init
<1>2. pc = "idle"
  BY DEF Init
<1> QED
  BY <1>1, <1>2, FS_EmptySet DEF DepthInv, KeysFinite, DeepByAge, DrainCrosses, FokCovered

LEMMA DepthStep ==
    ASSUME BookInv, BookInv', Seniority, DepthInv, [Next]_vars
    PROVE  DepthInv'
<1>0. /\ TypeOK /\ TypeOK' /\ BookTypeOK /\ BookTypeOK' /\ CallTypeOK /\ OutputTypeOK
      /\ KeysFinite' /\ DeepByAge'
  <2>1. TypeOK /\ TypeOK' /\ KeysFinite /\ DeepByAge
    BY DEF BookInv, DepthInv
  <2>2. BookTypeOK'
    BY <2>1 DEF TypeOK, BookTypeOK
  <2> QED
    BY <2>1, <2>2, KeysFiniteStep, DeepByAgeStep, TypeParts
<1> SUFFICES DrainCrosses' /\ FokCovered'
  BY <1>0 DEF DepthInv
<1>1. ASSUME NEW o \in NextOrders, BeginMatch(o)
      PROVE  DrainCrosses' /\ FokCovered'
  <2>1. o \in OrderTypes /\ o.side \in Sides
    BY <1>0, OrderFacts DEF OutputTypeOK
  <2>2. /\ levels' = levels /\ queue' = queue /\ taker' = o /\ remaining' = o.qty /\ pc' = "sweep"
        /\ o.kind = "Fok" => CanFillFull(o.side, o.qty, o.price)
    BY <1>1 DEF BeginMatch, bookVars
  <2>3. o.kind = "Fok" => Cover(o) >= o.qty
    BY <1>0, <2>1, <2>2, PreflightCovers DEF DepthInv
  <2>4. Cover(taker)' = Cover(o)
    BY <2>2 DEF Cover, PosQty, Reachable
  <2> QED
    BY <2>2, <2>3, <2>4 DEF DrainCrosses, FokCovered
<1>2. ASSUME NEW p \in Prices, EnterLevel(p)
      PROVE  DrainCrosses' /\ FokCovered'
  <2>1. /\ levels' = levels /\ queue' = queue /\ taker' = taker /\ remaining' = remaining
        /\ pc = "sweep" /\ price' = p /\ Crosses(taker, p)
    BY <1>2 DEF EnterLevel, bookVars
  <2>2. Cover(taker)' = Cover(taker)
    BY <2>1 DEF Cover, PosQty, Reachable
  <2>3. DrainCrosses'
    BY <2>1 DEF DrainCrosses, Crosses
  <2> QED
    BY <2>1, <2>2, <2>3 DEF DepthInv, FokCovered
<1>3. CASE DrainFront
  <2>1. /\ taker' = taker /\ price' = price /\ pc = "drain" /\ pc' = "drain"
    BY <1>3 DEF DrainFront
  <2>2. DrainCrosses'
    BY <2>1 DEF DepthInv, DrainCrosses, Crosses
  <2>3. CASE taker.kind = "Fok"
    <3>1. Cover(taker)' = Cover(taker) - Traded(FrontOrder)
      BY <1>0, <1>3, <2>3, DrainCover DEF DepthInv, BookInv
    <3>2. PICK t \in Nat : t = Traded(FrontOrder) /\ remaining' = remaining - t
      BY <1>0, <1>3, DrainMoves
    <3>3. Cover(taker) >= remaining
      BY <2>1, <2>3 DEF DepthInv, FokCovered
    <3>4. Cover(taker) \in Int /\ remaining \in Nat
      <4>1. taker.side \in Sides
        BY <1>0, <2>1, TakerFacts DEF CallTypeOK
      <4>2. PICK F, R : F = PosQty(Opposite(taker.side)) /\ R = Reachable(taker.side, taker.price)
        OBVIOUS
      <4>3. IsFiniteSet(R) /\ \A x \in R : F[x] \in Int
        BY <1>0, <4>1, <4>2, ReachableFacts DEF DepthInv
      <4> QED
        BY <1>0, <4>2, <4>3, SumType DEF Cover, CallTypeOK
    <3> QED
      BY <2>2, <3>1, <3>2, <3>3, <3>4 DEF FokCovered
  <2>4. CASE taker.kind # "Fok"
    BY <2>1, <2>2, <2>4 DEF FokCovered
  <2> QED
    BY <2>3, <2>4
<1>4. CASE LeaveLevel
  <2>1. /\ queue' = queue /\ taker' = taker /\ remaining' = remaining
        /\ pc = "drain" /\ pc' = "sweep"
    BY <1>4 DEF LeaveLevel
  <2>2. taker.side \in Sides
    BY <1>0, <2>1, TakerFacts DEF CallTypeOK
  <2>3. PICK s \in Sides : s = Opposite(taker.side)
    BY <2>2, TakerFacts DEF Opposite, Sides
  <2>4. levels' \in [Sides -> SUBSET Prices]
        /\ levels'[s] = IF queue[s][price] = << >> THEN levels[s] \ {price} ELSE levels[s]
    BY <1>0, <1>4, <2>3, LeaveFacts
  <2>5. \A x \in Prices \X Ranks :
            x[2] \in DOMAIN queue[s][x[1]] => (x[1] \in levels'[s] <=> x[1] \in levels[s])
    BY <2>4
  <2>6. PICK o : o = taker
    OBVIOUS
  <2>7. Cover(o)' = Cover(o)
    BY <1>0, <2>1, <2>2, <2>3, <2>4, <2>5, <2>6, SameCover DEF DepthInv
  <2>8. Cover(taker)' = Cover(taker)
    BY <2>1, <2>6, <2>7 DEF Cover, PosQty, Reachable
  <2> QED
    BY <2>1, <2>8 DEF DepthInv, DrainCrosses, FokCovered
<1>5. CASE pc' = "idle"
  BY <1>5 DEF DrainCrosses, FokCovered
<1>6. CASE ReturnFills \/ RestoreSnapshot \/ \E id \in Ids : Cancel(id)
  BY <1>5, <1>6 DEF ReturnFills, RestoreSnapshot, Cancel, callVars
<1>7. CASE \E o \in NextOrders : RejectFok(o)
  BY <1>5, <1>7 DEF RejectFok, callVars
<1>8. CASE UNCHANGED vars
  <2>1. /\ levels' = levels /\ queue' = queue /\ taker' = taker /\ remaining' = remaining
        /\ pc' = pc /\ price' = price
    BY <1>8 DEF vars, bookVars, callVars
  <2>2. Cover(taker)' = Cover(taker)
    BY <2>1 DEF Cover, PosQty, Reachable
  <2> QED
    BY <2>1, <2>2 DEF DepthInv, DrainCrosses, FokCovered, Crosses
<1> QED
  BY <1>1, <1>2, <1>3, <1>4, <1>6, <1>7, <1>8 DEF Next, MatchStep, CancelUnknown

\* When the sweep ends with a remainder, nothing is left within the limit.
LEMMA NothingReachable ==
    ASSUME TypeOK, pc = "sweep", SweepDone, remaining > 0, taker.kind = "Fok"
    PROVE  Reachable(taker.side, taker.price) = {}
<1>1. taker \in OrderTypes /\ levels \in [Sides -> SUBSET Prices]
  BY DEF TypeOK
<1>2. taker.side \in Sides /\ taker.price \in Prices /\ Opposite(taker.side) \in Sides
  BY <1>1, TakerFacts
<1>3. \A q \in levels[Opposite(taker.side)] : ~ CrossesPrice(taker.side, q, taker.price)
  <2> SUFFICES ASSUME NEW q \in levels[Opposite(taker.side)]
               PROVE  ~ CrossesPrice(taker.side, q, taker.price)
    OBVIOUS
  <2>1. PICK p \in Prices : IsBest(taker.side, p) /\ ~ Crosses(taker, p)
    BY <1>1, <1>2 DEF SweepDone, TypeOK
  <2>2. ~ CrossesPrice(taker.side, p, taker.price) /\ ~ WalkedBefore(taker.side, q, p)
    BY <2>1 DEF IsBest, Crosses
  <2>3. p \in Int /\ q \in Int /\ taker.price \in Int
    BY <1>1, <1>2, PricesAssumption
  <2> QED
    BY <1>2, <2>2, <2>3 DEF CrossesPrice, WalkedBefore, Sides
<1> QED
  BY <1>3 DEF Reachable

\* A fill-or-kill order that passed the pre-flight is filled in full: the
\* discard branch after the sweep is unreachable for it.
THEOREM FokFilledInFull == Spec => []FokAllOrNothing
<1> DEFINE I == BookInv /\ Seniority /\ DepthInv
<1>1. Init => I
  BY BookInit, SeniorityInit, DepthInit
<1>2. I /\ [Next]_vars => I'
  BY BookStep, SeniorTypes, DepthStep DEF BookInv
<1>3. I => FokAllOrNothing
  <2> SUFFICES ASSUME I, pc = "sweep", SweepDone, taker.kind = "Fok"
               PROVE  remaining = 0
    BY DEF FokAllOrNothing
  <2>1. TypeOK /\ remaining \in Nat
    BY DEF BookInv, TypeOK
  <2>2. ASSUME remaining > 0
        PROVE  FALSE
    <3>1. Cover(taker) = 0
      BY <2>1, <2>2, NothingReachable, SumEmpty DEF Cover
    <3>2. Cover(taker) >= remaining
      BY DEF DepthInv, FokCovered
    <3> QED
      BY <2>1, <2>2, <3>1, <3>2
  <2> QED
    BY <2>1, <2>2
<1> QED
  BY <1>1, <1>2, <1>3, PTL DEF Spec

=============================================================================
