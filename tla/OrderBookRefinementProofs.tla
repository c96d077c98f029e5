---------------------- MODULE OrderBookRefinementProofs ----------------------
(***************************************************************************)
(* match_order, cancel and restore implement the price-time book, for any  *)
(* prices, ids, quantities and number of orders, when no client reuses the *)
(* id of a resting order.  A call's fills are compared, one by one while   *)
(* it runs, with what the declarative definition says each order is due    *)
(* out of the book that the call began with.                               *)
(***************************************************************************)
EXTENDS OrderBookRefinement, OrderBookProofs

-----------------------------------------------------------------------------
(***************************************************************************)
(* What an order gets out of a book B, a set of resting orders.            *)
(***************************************************************************)

BookOrders == [rank : Ranks, id : Ids, side : Sides, price : Prices, qty : Nat]

\* A finite set of orders with quantities and different ranks.
IsBook(B) ==
    /\ IsFiniteSet(B) /\ B \subseteq BookOrders
    /\ \A m \in B : m.qty > 0
    /\ \A m, n \in B : m.rank = n.rank => m = n

\* The orders that taker o may trade with.
Meets(o, B) == {m \in B : m.side = Opposite(o.side) /\ Crosses(o, m.price)}

\* m is served before n.
Sooner(side, m, n) ==
    \/ WalkedBefore(side, m.price, n.price)
    \/ m.price = n.price /\ m.rank < n.rank

InFront(o, B, m) == {n \in Meets(o, B) : Sooner(o.side, n, m)}

QtyIn(B) == [m \in B |-> m.qty]

Depth(B, S) == SumOver(QtyIn(B), S)

\* What m trades with o, when all in front of it are served.
Due(o, B, m) ==
    LET left == o.qty - Depth(B, InFront(o, B, m))
    IN  IF left <= 0 THEN 0 ELSE IF m.qty <= left THEN m.qty ELSE left

DueIn(o, B) == [m \in B |-> Due(o, B, m)]

\* Nobody in S stands behind somebody who is not in S.
Frontmost(o, B, S) ==
    /\ S \subseteq Meets(o, B)
    /\ \A m \in S, n \in Meets(o, B) : Sooner(o.side, n, m) => n \in S

-----------------------------------------------------------------------------
(***************************************************************************)
(* How far a call is that began with book B, has produced the fills f and  *)
(* left the book R.                                                        *)
(***************************************************************************)

\* The orders it has traded with.
Met(o, B, f) == {m \in Meets(o, B) : \E i \in DOMAIN f : f[i].maker = m.rank}

\* Fill i is what the order in the i-th place is due.
FillsDue(o, B, f) ==
    \A i \in DOMAIN f : \E m \in Meets(o, B) :
        /\ f[i] = [maker |-> m.rank, price |-> m.price, qty |-> Due(o, B, m)]
        /\ Due(o, B, m) > 0
        /\ Cardinality(InFront(o, B, m)) = i - 1

\* They have been served in their order, one fill each.
InTurn(o, B, f) == Frontmost(o, B, Met(o, B, f)) /\ Cardinality(Met(o, B, f)) = Len(f)

\* The taker still wants what they did not have.
Wants(o, B, S, rest) ==
    /\ rest = IF o.qty >= Depth(B, S) THEN o.qty - Depth(B, S) ELSE 0
    /\ SumOver(DueIn(o, B), S) = o.qty - rest
    /\ rest > 0 => \A m \in S : Due(o, B, m) = m.qty

\* What is left of those it has traded with: at most of the last.
Rump(o, B, S) ==
    {[m EXCEPT !.qty = @ - Due(o, B, m)] : m \in {n \in S : Due(o, B, n) < n.qty}}

Progress(o, B, f, rest, R) ==
    /\ FillsDue(o, B, f) /\ InTurn(o, B, f) /\ Wants(o, B, Met(o, B, f), rest)
    /\ R = (B \ Met(o, B, f)) \cup Rump(o, B, Met(o, B, f))

\* A fill-or-kill order passes the pre-flight only if the book is deep enough.
DeepEnough(o, B) == o.kind = "Fok" => Depth(B, Meets(o, B)) >= o.qty

Underway ==
    pc # "idle" =>
        /\ taker \in OrdersWithRank(arrived) /\ IsBook(before) /\ DeepEnough(taker, before)
        /\ Progress(taker, before, fills, remaining, RestingOrders)

-----------------------------------------------------------------------------
(***************************************************************************)
(* The order of service.                                                   *)
(***************************************************************************)

LEMMA BookFields ==
    ASSUME NEW B, IsBook(B), NEW m \in B
    PROVE  /\ m.rank \in Nat /\ m.price \in Int /\ m.qty \in Nat /\ m.qty > 0
           /\ m \in BookOrders
<1>1. m \in BookOrders /\ m.qty > 0
  BY DEF IsBook
<1>2. m.rank \in Ranks /\ m.price \in Prices /\ m.qty \in Nat
  BY <1>1 DEF BookOrders
<1> QED
  <2>1. m.price \in Int
    BY <1>2, PricesAssumption
  <2>2. m.rank \in Nat
    BY <1>2, MaxOrdersAssumption DEF Ranks
  <2> QED
    BY <1>1, <1>2, <2>1, <2>2

\* Service is a strict order on the orders of a book.
LEMMA SoonerOrder ==
    ASSUME NEW B, IsBook(B), NEW side, NEW m \in B, NEW n \in B
    PROVE  /\ ~ Sooner(side, m, m)
           /\ ~ (Sooner(side, m, n) /\ Sooner(side, n, m))
           /\ m = n \/ Sooner(side, m, n) \/ Sooner(side, n, m)
<1>1. /\ m.rank \in Nat /\ m.price \in Int /\ n.rank \in Nat /\ n.price \in Int
      /\ m.rank = n.rank => m = n
  BY BookFields DEF IsBook
<1> QED
  BY <1>1 DEF Sooner, WalkedBefore

LEMMA SoonerChain ==
    ASSUME NEW B, IsBook(B), NEW side, NEW m \in B, NEW n \in B, NEW k \in B,
           Sooner(side, m, n), Sooner(side, n, k)
    PROVE  Sooner(side, m, k)
<1>1. /\ m.rank \in Nat /\ m.price \in Int /\ n.rank \in Nat /\ n.price \in Int
      /\ k.rank \in Nat /\ k.price \in Int
  BY BookFields
<1> QED
  BY <1>1 DEF Sooner, WalkedBefore

\* Whoever is not in a prefix stands behind all of it.
LEMMA BehindPrefix ==
    ASSUME NEW B, IsBook(B), NEW o, NEW S, Frontmost(o, B, S),
           NEW m \in Meets(o, B), m \notin S
    PROVE  S \subseteq InFront(o, B, m)
<1> SUFFICES ASSUME NEW n \in S
             PROVE  n \in InFront(o, B, m)
  OBVIOUS
<1>1. n \in Meets(o, B) /\ n # m /\ ~ Sooner(o.side, m, n)
  BY DEF Frontmost
<1>2. m \in B /\ n \in B
  BY <1>1 DEF Meets
<1>3. Sooner(o.side, n, m)
  BY <1>1, <1>2, SoonerOrder
<1> QED
  BY <1>1, <1>3 DEF InFront

\* The one who is next has exactly the prefix in front, and prolongs it.
LEMMA NextInLine ==
    ASSUME NEW B, IsBook(B), NEW o, NEW S, Frontmost(o, B, S),
           NEW m \in Meets(o, B), m \notin S,
           \A n \in Meets(o, B) \ S : n = m \/ Sooner(o.side, m, n)
    PROVE  InFront(o, B, m) = S /\ Frontmost(o, B, S \cup {m})
<1>1. ASSUME NEW n \in Meets(o, B), Sooner(o.side, n, m)
      PROVE  n \in S
  <2>1. m \in B /\ n \in B
    BY DEF Meets
  <2>2. n # m /\ ~ Sooner(o.side, m, n)
    BY <1>1, <2>1, SoonerOrder
  <2> QED
    BY <2>2
<1>2. InFront(o, B, m) = S
  BY <1>1, BehindPrefix DEF InFront
<1>3. Frontmost(o, B, S \cup {m})
  BY <1>1 DEF Frontmost
<1> QED
  BY <1>2, <1>3

-----------------------------------------------------------------------------
(***************************************************************************)
(* Depths and dues.                                                        *)
(***************************************************************************)

LEMMA MeetsIn == ASSUME NEW B, NEW o PROVE Meets(o, B) \subseteq B
BY DEF Meets

LEMMA InFrontIn == ASSUME NEW B, NEW o, NEW m PROVE InFront(o, B, m) \subseteq B
BY DEF InFront, Meets

LEMMA DepthFacts ==
    ASSUME NEW B, IsBook(B), NEW S, S \subseteq B
    PROVE  /\ Depth(B, S) \in Nat
           /\ \A T \in SUBSET S : Depth(B, T) <= Depth(B, S)
           /\ \A m \in B \ S : Depth(B, S \cup {m}) = m.qty + Depth(B, S)
<1>1. PICK F : F = QtyIn(B)
  OBVIOUS
<1>2. \A m \in B : F[m] = m.qty /\ F[m] \in Nat
  BY <1>1, BookFields DEF QtyIn
<1>3. IsFiniteSet(S) /\ (\A m \in S : F[m] \in Nat)
  BY <1>2, FS_Subset DEF IsBook
<1>4. SumOver(F, S) \in Nat /\ \A T \in SUBSET S : SumOver(F, T) <= SumOver(F, S)
  BY <1>3, SumNat, SumMonotone
<1>5. ASSUME NEW m \in B \ S
      PROVE  SumOver(F, S \cup {m}) = m.qty + SumOver(F, S)
  <2>1. m \notin S /\ F[m] \in Int /\ F[m] = m.qty /\ \A y \in S : F[y] \in Int
    BY <1>2, <1>3
  <2>2. SumOver(F, S \cup {m}) = F[m] + SumOver(F, S)
    BY <1>3, <2>1, SumAdd
  <2> QED
    BY <2>1, <2>2
<1> QED
  BY <1>1, <1>4, <1>5 DEF Depth

\* Nobody is due more than its quantity.
LEMMA DueFacts ==
    ASSUME NEW B, IsBook(B), NEW o, o.qty \in Nat, NEW m \in B
    PROVE  Due(o, B, m) \in Nat /\ Due(o, B, m) <= m.qty
<1>1. PICK d : d = Depth(B, InFront(o, B, m))
  OBVIOUS
<1>2. d \in Nat /\ m.qty \in Nat
  BY <1>1, InFrontIn, DepthFacts, BookFields
<1>3. Due(o, B, m) = IF o.qty - d <= 0 THEN 0
                     ELSE IF m.qty <= o.qty - d THEN m.qty ELSE o.qty - d
  BY <1>1 DEF Due
<1> QED
  BY <1>2, <1>3

\* Dues add up like depths.
LEMMA DuesFacts ==
    ASSUME NEW B, IsBook(B), NEW o, o.qty \in Nat, NEW S, S \subseteq B
    PROVE  /\ SumOver(DueIn(o, B), S) \in Nat
           /\ \A m \in B \ S :
                 SumOver(DueIn(o, B), S \cup {m}) = Due(o, B, m) + SumOver(DueIn(o, B), S)
<1>1. PICK F : F = DueIn(o, B)
  OBVIOUS
<1>2. \A m \in B : F[m] = Due(o, B, m) /\ F[m] \in Nat
  BY <1>1, DueFacts DEF DueIn
<1>3. IsFiniteSet(S) /\ (\A m \in S : F[m] \in Nat)
  BY <1>2, FS_Subset DEF IsBook
<1>4. SumOver(F, S) \in Nat
  BY <1>3, SumNat
<1>5. ASSUME NEW m \in B \ S
      PROVE  SumOver(F, S \cup {m}) = Due(o, B, m) + SumOver(F, S)
  <2>1. m \notin S /\ F[m] \in Int /\ F[m] = Due(o, B, m) /\ \A y \in S : F[y] \in Int
    BY <1>2, <1>3
  <2>2. SumOver(F, S \cup {m}) = F[m] + SumOver(F, S)
    BY <1>3, <2>1, SumAdd
  <2> QED
    BY <2>1, <2>2
<1> QED
  BY <1>1, <1>4, <1>5

-----------------------------------------------------------------------------
(***************************************************************************)
(* The resting orders, and what happens to them.                           *)
(***************************************************************************)

\* The order in the i-th place of the deque at price p.
At(s, p, i) ==
    [rank |-> queue[s][p][i].rank, id |-> queue[s][p][i].id,
     side |-> s, price |-> p, qty |-> queue[s][p][i].qty]

LEMMA AtFields ==
    ASSUME BookTypeOK, NEW s \in Sides, NEW p \in Prices, NEW i \in DOMAIN queue[s][p]
    PROVE  /\ At(s, p, i) \in BookOrders
           /\ At(s, p, i).rank = queue[s][p][i].rank /\ At(s, p, i).id = queue[s][p][i].id
           /\ At(s, p, i).qty = queue[s][p][i].qty
           /\ At(s, p, i).side = s /\ At(s, p, i).price = p
<1>1. queue[s][p][i].rank \in Ranks /\ queue[s][p][i].id \in Ids /\ queue[s][p][i].qty \in Nat
  BY QueueFacts
<1> QED
  BY <1>1 DEF At, BookOrders

\* RestingOrders holds the order of every place.
AllPlaces ==
    /\ \A s \in Sides, p \in Prices : \A i \in DOMAIN queue[s][p] : At(s, p, i) \in RestingOrders
    /\ \A m \in RestingOrders : \E s \in Sides, p \in Prices :
           \E i \in DOMAIN queue[s][p] : m = At(s, p, i)

LEMMA PlacesOfOrders ==
    ASSUME BookTypeOK, DeepByAge
    PROVE  AllPlaces
<1> DEFINE Y == {y \in Sides \X Prices \X Ranks : y[3] \in DOMAIN queue[y[1]][y[2]]}
<1>0. RestingOrders = {At(x[1], x[2], x[3]) : x \in Y}
  BY DEF RestingOrders, At
<1>1. ASSUME NEW s \in Sides, NEW p \in Prices, NEW i \in DOMAIN queue[s][p]
      PROVE  At(s, p, i) \in RestingOrders
  <2>1. PICK x : x = <<s, p, i>>
    OBVIOUS
  <2>2. i \in Ranks
    BY InRanks
  <2>3. x \in Y /\ x[1] = s /\ x[2] = p /\ x[3] = i
    BY <2>1, <2>2
  <2> QED
    BY <1>0, <2>3
<1>2. ASSUME NEW m \in RestingOrders
      PROVE  \E s \in Sides, p \in Prices : \E i \in DOMAIN queue[s][p] : m = At(s, p, i)
  <2>1. PICK x \in Y : m = At(x[1], x[2], x[3])
    BY <1>0
  <2>2. x[1] \in Sides /\ x[2] \in Prices /\ x[3] \in DOMAIN queue[x[1]][x[2]]
    OBVIOUS
  <2> QED
    BY <2>1, <2>2
<1> QED
  BY <1>1, <1>2 DEF AllPlaces

\* Two places hold the same number only if they are the same.
LEMMA OnePlace ==
    ASSUME BookTypeOK, RestsOnce, DequesInOrder,
           NEW s \in Sides, NEW p \in Prices, NEW i \in DOMAIN queue[s][p],
           NEW t \in Sides, NEW r \in Prices, NEW j \in DOMAIN queue[t][r],
           queue[s][p][i].rank = queue[t][r][j].rank
    PROVE  s = t /\ p = r /\ i = j
<1>1. s = t /\ p = r
  BY SameLevel
<1>2. i \in Nat /\ j \in Nat /\ queue[s][p][i].rank \in Nat
  BY QueueFacts
<1>3. ~ (i < j) /\ ~ (j < i)
  BY <1>1, <1>2 DEF DequesInOrder
<1> QED
  BY <1>1, <1>2, <1>3

\* The resting orders are a book.
LEMMA RestingIsBook ==
    ASSUME BookTypeOK, DeepByAge, RestsOnce, DequesInOrder, RestingConserved
    PROVE  IsBook(RestingOrders)
<1>0. AllPlaces
  BY PlacesOfOrders
<1>1. ASSUME NEW m \in RestingOrders
      PROVE  m \in BookOrders /\ m.qty > 0
  <2>1. PICK s \in Sides, p \in Prices : \E i \in DOMAIN queue[s][p] : m = At(s, p, i)
    BY <1>0 DEF AllPlaces
  <2>2. PICK i \in DOMAIN queue[s][p] : m = At(s, p, i)
    BY <2>1
  <2> QED
    BY <2>2, AtFields DEF RestingConserved
<1>2. ASSUME NEW m \in RestingOrders, NEW n \in RestingOrders, m.rank = n.rank
      PROVE  m = n
  <2>1. PICK s \in Sides, p \in Prices : \E i \in DOMAIN queue[s][p] : m = At(s, p, i)
    BY <1>0 DEF AllPlaces
  <2>2. PICK i \in DOMAIN queue[s][p] : m = At(s, p, i)
    BY <2>1
  <2>3. PICK t \in Sides, r \in Prices : \E j \in DOMAIN queue[t][r] : n = At(t, r, j)
    BY <1>0 DEF AllPlaces
  <2>4. PICK j \in DOMAIN queue[t][r] : n = At(t, r, j)
    BY <2>3
  <2>5. queue[s][p][i].rank = queue[t][r][j].rank
    BY <1>2, <2>2, <2>4, AtFields
  <2> QED
    BY <2>2, <2>4, <2>5, OnePlace
<1>3. IsFiniteSet(RestingOrders)
  <2>1. PICK f : f = [m \in RestingOrders |-> m.rank]
    OBVIOUS
  <2>2. \A m \in RestingOrders : m.rank \in Ranks
    BY <1>1 DEF BookOrders
  <2>3. f \in Injection(RestingOrders, Ranks)
    <3>1. f \in [RestingOrders -> Ranks]
      BY <2>1, <2>2
    <3>2. IsInjective(f)
      BY <1>2, <2>1 DEF IsInjective
    <3> QED
      BY <3>1, <3>2 DEF Injection
  <2>4. IsFiniteSet(Ranks)
    BY FS_Interval, MaxOrdersAssumption DEF Ranks
  <2> QED
    BY <2>3, <2>4, FS_Injection
<1> QED
  BY <1>1, <1>2, <1>3 DEF IsBook

LEMMA PlacesNow == BookTypeOK /\ DeepByAge => AllPlaces
BY PlacesOfOrders

LEMMA PlacesNext == BookTypeOK' /\ DeepByAge' => AllPlaces'
BY PlacesNow, PTL

\* Who leaves a deque, and no one else, is gone.
LEMMA OthersStay ==
    ASSUME BookTypeOK, BookTypeOK', NEW s, NEW p, NEW k, Leaves(s, p, k),
           NEW t \in Sides, NEW r \in Prices
    PROVE  /\ \A j \in DOMAIN queue'[t][r] : \E i \in DOMAIN queue[t][r] :
                 queue'[t][r][j] = queue[t][r][i] /\ ~ (t = s /\ r = p /\ i = k)
           /\ \A i \in DOMAIN queue[t][r] : ~ (t = s /\ r = p /\ i = k) =>
                 \E j \in DOMAIN queue'[t][r] : queue'[t][r][j] = queue[t][r][i]
<1>1. s \in Sides /\ p \in Prices /\ k \in DOMAIN queue[s][p]
      /\ TakenOut(queue[s][p], k, queue'[s][p]) /\ Elsewhere(s, p)
  BY DEF Leaves
<1>2. CASE t = s /\ r = p
  <2>1. PICK n \in Nat : n = Len(queue[t][r]) /\ DOMAIN queue[t][r] = 1 .. n
    BY QueueFacts
  <2>2. /\ DOMAIN queue'[t][r] = 1 .. n - 1 /\ k \in 1 .. n
        /\ \A j \in 1 .. n - 1 : queue'[t][r][j] = queue[t][r][IF j < k THEN j ELSE j + 1]
    <3>1. queue'[t][r] \in Seq(Resting)
      BY DEF BookTypeOK
    <3>2. DOMAIN queue'[t][r] = 1 .. Len(queue'[t][r])
      BY <3>1, LenProperties
    <3> QED
      BY <1>1, <1>2, <2>1, <3>2 DEF TakenOut
  <2>3. ASSUME NEW j \in 1 .. n - 1
        PROVE  \E i \in 1 .. n : queue'[t][r][j] = queue[t][r][i] /\ i # k
    <3>1. PICK i \in 1 .. n : i = IF j < k THEN j ELSE j + 1
      BY <2>1, <2>2
    <3>2. i # k
      BY <2>2, <3>1
    <3> QED
      BY <2>2, <3>1, <3>2
  <2>4. ASSUME NEW i \in 1 .. n, i # k
        PROVE  \E j \in 1 .. n - 1 : queue'[t][r][j] = queue[t][r][i]
    <3>1. PICK j \in 1 .. n - 1 : j = IF i < k THEN i ELSE i - 1
      <4>1. CASE i < k
        BY <2>1, <2>2, <4>1
      <4>2. CASE k < i
        BY <2>1, <2>2, <4>2
      <4> QED
        BY <2>1, <2>2, <2>4, <4>1, <4>2
    <3>2. i = IF j < k THEN j ELSE j + 1
      BY <2>2, <2>4, <3>1
    <3> QED
      BY <2>2, <3>1, <3>2
  <2>5. \A j \in DOMAIN queue'[t][r] : \E i \in DOMAIN queue[t][r] :
            queue'[t][r][j] = queue[t][r][i] /\ ~ (t = s /\ r = p /\ i = k)
    <3> SUFFICES ASSUME NEW j \in DOMAIN queue'[t][r]
                 PROVE  \E i \in DOMAIN queue[t][r] :
                            queue'[t][r][j] = queue[t][r][i] /\ ~ (t = s /\ r = p /\ i = k)
      OBVIOUS
    <3>1. PICK i \in 1 .. n : queue'[t][r][j] = queue[t][r][i] /\ i # k
      BY <2>2, <2>3
    <3> QED
      BY <2>1, <3>1
  <2>6. ASSUME NEW i \in DOMAIN queue[t][r], i # k
        PROVE  \E j \in DOMAIN queue'[t][r] : queue'[t][r][j] = queue[t][r][i]
    <3>1. PICK j \in 1 .. n - 1 : queue'[t][r][j] = queue[t][r][i]
      BY <2>1, <2>4, <2>6
    <3> QED
      BY <2>2, <3>1
  <2> QED
    BY <1>2, <2>5, <2>6
<1>3. CASE ~ (t = s /\ r = p)
  <2>1. queue'[t][r] = queue[t][r]
    BY <1>1, <1>3 DEF Elsewhere
  <2> QED
    BY <1>3, <2>1
<1> QED
  BY <1>2, <1>3

\* An order taken out of its deque rests no more; all others do.
LEMMA LeavesResting ==
    ASSUME BookTypeOK, BookTypeOK', DeepByAge, DeepByAge', RestsOnce, DequesInOrder,
           NEW s, NEW p, NEW k, Leaves(s, p, k)
    PROVE  RestingOrders' = RestingOrders \ {At(s, p, k)}
<1>0. AllPlaces /\ AllPlaces' /\ s \in Sides /\ p \in Prices /\ k \in DOMAIN queue[s][p]
  BY PlacesNow, PlacesNext DEF Leaves
<1>1. ASSUME NEW m \in RestingOrders'
      PROVE  m \in RestingOrders /\ m # At(s, p, k)
  <2>1. PICK t \in Sides, r \in Prices : \E j \in DOMAIN queue'[t][r] : m = At(t, r, j)'
    BY <1>0 DEF AllPlaces
  <2>2. PICK j \in DOMAIN queue'[t][r] : m = At(t, r, j)'
    BY <2>1
  <2>3. PICK i \in DOMAIN queue[t][r] :
            queue'[t][r][j] = queue[t][r][i] /\ ~ (t = s /\ r = p /\ i = k)
    BY OthersStay
  <2>4. m = At(t, r, i)
    BY <2>2, <2>3 DEF At
  <2>5. m # At(s, p, k)
    BY <1>0, <2>3, <2>4, AtFields, OnePlace
  <2> QED
    BY <1>0, <2>4, <2>5 DEF AllPlaces
<1>2. ASSUME NEW m \in RestingOrders, m # At(s, p, k)
      PROVE  m \in RestingOrders'
  <2>1. PICK t \in Sides, r \in Prices : \E i \in DOMAIN queue[t][r] : m = At(t, r, i)
    BY <1>0 DEF AllPlaces
  <2>2. PICK i \in DOMAIN queue[t][r] : m = At(t, r, i)
    BY <2>1
  <2>3. PICK j \in DOMAIN queue'[t][r] : queue'[t][r][j] = queue[t][r][i]
    BY <1>2, <2>2, OthersStay
  <2>4. m = At(t, r, j)'
    BY <2>2, <2>3 DEF At
  <2> QED
    BY <1>0, <2>4 DEF AllPlaces
<1> QED
  BY <1>1, <1>2

\* The front of a deque rests on with less; all others rest unchanged.
LEMMA ShrinksResting ==
    ASSUME BookTypeOK, BookTypeOK', DeepByAge, DeepByAge', RestsOnce, DequesInOrder,
           NEW s, NEW p, NEW a, Shrinks(s, p, a)
    PROVE  RestingOrders' =
               (RestingOrders \ {At(s, p, 1)}) \cup {[At(s, p, 1) EXCEPT !.qty = @ - a]}
<1>0. /\ AllPlaces /\ AllPlaces' /\ s \in Sides /\ p \in Prices /\ 1 \in DOMAIN queue[s][p]
      /\ Elsewhere(s, p)
      /\ \A j \in DOMAIN queue[s][p] : j # 1 => queue'[s][p][j] = queue[s][p][j]
  BY PlacesNow, PlacesNext DEF Shrinks
<1>1. PICK x : x = [At(s, p, 1) EXCEPT !.qty = @ - a]
  OBVIOUS
<1>2. At(s, p, 1)' = x
  BY <1>1 DEF At, Shrinks
<1>3. \A t \in Sides, r \in Prices : DOMAIN queue'[t][r] = DOMAIN queue[t][r]
  BY DEF Shrinks, Elsewhere
<1>4. ASSUME NEW t \in Sides, NEW r \in Prices, NEW i \in DOMAIN queue[t][r],
             ~ (t = s /\ r = p /\ i = 1)
      PROVE  At(t, r, i)' = At(t, r, i) /\ At(t, r, i) # At(s, p, 1)
  <2>1. queue'[t][r][i] = queue[t][r][i]
    BY <1>0, <1>4 DEF Elsewhere
  <2>2. At(t, r, i) # At(s, p, 1)
    BY <1>0, <1>4, AtFields, OnePlace
  <2> QED
    BY <2>1, <2>2 DEF At
<1>5. ASSUME NEW m \in RestingOrders'
      PROVE  m = x \/ (m \in RestingOrders /\ m # At(s, p, 1))
  <2>1. PICK t \in Sides, r \in Prices : \E j \in DOMAIN queue'[t][r] : m = At(t, r, j)'
    BY <1>0 DEF AllPlaces
  <2>2. PICK j \in DOMAIN queue'[t][r] : m = At(t, r, j)'
    BY <2>1
  <2>3. CASE t = s /\ r = p /\ j = 1
    BY <1>2, <2>2, <2>3
  <2>4. CASE ~ (t = s /\ r = p /\ j = 1)
    BY <1>0, <1>3, <1>4, <2>2, <2>4 DEF AllPlaces
  <2> QED
    BY <2>3, <2>4
<1>6. ASSUME NEW m \in RestingOrders, m # At(s, p, 1)
      PROVE  m \in RestingOrders'
  <2>1. PICK t \in Sides, r \in Prices : \E i \in DOMAIN queue[t][r] : m = At(t, r, i)
    BY <1>0 DEF AllPlaces
  <2>2. PICK i \in DOMAIN queue[t][r] : m = At(t, r, i)
    BY <2>1
  <2>3. ~ (t = s /\ r = p /\ i = 1)
    BY <1>6, <2>2
  <2>4. m = At(t, r, i)' /\ i \in DOMAIN queue'[t][r]
    BY <1>3, <1>4, <2>2, <2>3
  <2> QED
    BY <1>0, <2>4 DEF AllPlaces
<1>7. x \in RestingOrders'
  BY <1>0, <1>2, <1>3 DEF AllPlaces
<1> QED
  BY <1>1, <1>5, <1>6, <1>7

\* An order more rests.
LEMMA JoinsResting ==
    ASSUME BookTypeOK, BookTypeOK', DeepByAge, DeepByAge', NEW s, NEW p, NEW x, Joins(s, p, x)
    PROVE  RestingOrders' =
               RestingOrders \cup
                   {[rank |-> x.rank, id |-> x.id, side |-> s, price |-> p, qty |-> x.qty]}
<1>0. /\ AllPlaces /\ AllPlaces' /\ s \in Sides /\ p \in Prices /\ Elsewhere(s, p)
  BY PlacesNow, PlacesNext DEF Joins
<1>1. PICK n \in Nat : n = Len(queue[s][p]) /\ DOMAIN queue[s][p] = 1 .. n
  BY <1>0, QueueFacts
<1>2. /\ DOMAIN queue'[s][p] = 1 .. n + 1 /\ queue'[s][p][n + 1] = x
      /\ \A j \in 1 .. n : queue'[s][p][j] = queue[s][p][j]
  BY <1>1 DEF Joins
<1>3. PICK y : y = [rank |-> x.rank, id |-> x.id, side |-> s, price |-> p, qty |-> x.qty]
  OBVIOUS
<1>4. At(s, p, n + 1)' = y
  BY <1>2, <1>3 DEF At
<1>5. ASSUME NEW t \in Sides, NEW r \in Prices, NEW i \in DOMAIN queue[t][r]
      PROVE  At(t, r, i)' = At(t, r, i) /\ i \in DOMAIN queue'[t][r]
  <2>1. CASE t = s /\ r = p
    BY <1>1, <1>2, <2>1 DEF At
  <2>2. CASE ~ (t = s /\ r = p)
    <3>1. queue'[t][r] = queue[t][r]
      BY <1>0, <2>2 DEF Elsewhere
    <3> QED
      BY <3>1 DEF At
  <2> QED
    BY <2>1, <2>2
<1>6. ASSUME NEW m \in RestingOrders'
      PROVE  m = y \/ m \in RestingOrders
  <2>1. PICK t \in Sides, r \in Prices : \E j \in DOMAIN queue'[t][r] : m = At(t, r, j)'
    BY <1>0 DEF AllPlaces
  <2>2. PICK j \in DOMAIN queue'[t][r] : m = At(t, r, j)'
    BY <2>1
  <2>3. CASE j \in DOMAIN queue[t][r]
    BY <1>0, <1>5, <2>2, <2>3 DEF AllPlaces
  <2>4. CASE j \notin DOMAIN queue[t][r]
    <3>1. t = s /\ r = p
      BY <1>0, <2>4 DEF Elsewhere
    <3>2. j = n + 1
      BY <1>1, <1>2, <2>4, <3>1
    <3> QED
      BY <1>4, <2>2, <3>1, <3>2
  <2> QED
    BY <2>3, <2>4
<1>7. ASSUME NEW m \in RestingOrders
      PROVE  m \in RestingOrders'
  <2>1. PICK t \in Sides, r \in Prices : \E i \in DOMAIN queue[t][r] : m = At(t, r, i)
    BY <1>0 DEF AllPlaces
  <2>2. PICK i \in DOMAIN queue[t][r] : m = At(t, r, i)
    BY <2>1
  <2> QED
    BY <1>0, <1>5, <2>2 DEF AllPlaces
<1>8. y \in RestingOrders'
  <2>1. n + 1 \in DOMAIN queue'[s][p]
    BY <1>2
  <2> QED
    BY <1>0, <1>4, <2>1 DEF AllPlaces
<1> QED
  BY <1>3, <1>6, <1>7, <1>8


-----------------------------------------------------------------------------
(***************************************************************************)
(* A fill with the order that is next in line is the fill that is due.     *)
(***************************************************************************)

LEMMA AppendedFill ==
    ASSUME NEW T, NEW f \in Seq(T), NEW x
    PROVE  /\ Len(f) \in Nat /\ DOMAIN f = 1 .. Len(f)
           /\ Len(Append(f, x)) = Len(f) + 1 /\ DOMAIN Append(f, x) = 1 .. Len(f) + 1
           /\ \A i \in 1 .. Len(f) : Append(f, x)[i] = f[i]
           /\ Append(f, x)[Len(f) + 1] = x
<1>1. PICK U : U = T \cup {x}
  OBVIOUS
<1>2. f \in Seq(U) /\ x \in U
  BY <1>1
<1> QED
  BY <1>2, AppendProperties, LenProperties

LEMMA DueNext ==
    ASSUME NEW B, IsBook(B), NEW o, o.qty \in Nat, NEW S, NEW rest \in Nat, rest > 0,
           S \subseteq B, Wants(o, B, S, rest), NEW r \in B, InFront(o, B, r) = S
    PROVE  /\ Due(o, B, r) = IF rest < r.qty THEN rest ELSE r.qty
           /\ rest = o.qty - Depth(B, S)
<1>1. PICK d \in Nat : d = Depth(B, S)
  BY DepthFacts
<1>2. rest = IF o.qty >= d THEN o.qty - d ELSE 0
  BY <1>1 DEF Wants
<1>3. rest = o.qty - d
  BY <1>1, <1>2
<1>4. r.qty \in Nat
  BY BookFields
<1>5. Due(o, B, r) = IF rest <= 0 THEN 0 ELSE IF r.qty <= rest THEN r.qty ELSE rest
  BY <1>1, <1>3 DEF Due
<1> QED
  BY <1>1, <1>3, <1>4, <1>5

LEMMA WantsNext ==
    ASSUME NEW B, IsBook(B), NEW o, o.qty \in Nat, NEW S, NEW rest \in Nat, rest > 0,
           S \subseteq B, Wants(o, B, S, rest), NEW r \in B \ S, InFront(o, B, r) = S
    PROVE  Wants(o, B, S \cup {r}, rest - Due(o, B, r))
<1>0. r \in B /\ S \cup {r} \subseteq B
  OBVIOUS
<1>1. PICK d \in Nat, e \in Nat, t \in Nat, q \in Nat, u \in Nat, w \in Nat :
          /\ d = Depth(B, S) /\ e = Depth(B, S \cup {r}) /\ t = Due(o, B, r) /\ q = r.qty
          /\ u = SumOver(DueIn(o, B), S) /\ w = SumOver(DueIn(o, B), S \cup {r})
  <2>1. Depth(B, S) \in Nat /\ Depth(B, S \cup {r}) \in Nat
    BY <1>0, DepthFacts
  <2>2. SumOver(DueIn(o, B), S) \in Nat /\ SumOver(DueIn(o, B), S \cup {r}) \in Nat
    BY <1>0, DuesFacts
  <2>3. Due(o, B, r) \in Nat /\ r.qty \in Nat
    BY <1>0, DueFacts, BookFields
  <2> QED
    BY <2>1, <2>2, <2>3
<1>2. /\ e = q + d /\ w = t + u /\ u = o.qty - rest /\ rest = o.qty - d
      /\ t = IF rest < q THEN rest ELSE q
  <2>1. e = q + d
    BY <1>1, DepthFacts
  <2>2. w = t + u
    BY <1>1, DuesFacts
  <2>3. u = o.qty - rest
    BY <1>1 DEF Wants
  <2>4. rest = o.qty - d /\ t = IF rest < q THEN rest ELSE q
    BY <1>0, <1>1, DueNext
  <2> QED
    BY <2>1, <2>2, <2>3, <2>4
<1>3. PICK z \in Nat : z = o.qty
  OBVIOUS
<1>5. /\ rest - t = IF z >= e THEN z - e ELSE 0
      /\ w = z - (rest - t)
      /\ rest - t > 0 => t = q
  <2>1. e = q + d /\ w = t + u /\ u = z - rest /\ rest = z - d
    BY <1>2, <1>3
  <2>2. CASE rest < q
    <3>1. t = rest /\ ~ (z >= e)
      BY <1>2, <2>1, <2>2
    <3>2. rest - t = 0 /\ w = z
      BY <2>1, <3>1
    <3> QED
      BY <3>1, <3>2
  <2>3. CASE ~ (rest < q)
    <3>1. t = q /\ z >= e
      BY <1>2, <2>1, <2>3
    <3> QED
      BY <2>1, <3>1
  <2> QED
    BY <2>2, <2>3
<1>4. \A m \in S : Due(o, B, m) = m.qty
  BY DEF Wants
<1> QED
  BY <1>1, <1>3, <1>4, <1>5 DEF Wants

\* A taker that wants more has emptied everyone it has traded with.
LEMMA Emptied ==
    ASSUME NEW B, IsBook(B), NEW o, NEW f, NEW rest \in Nat, rest > 0,
           NEW R, Progress(o, B, f, rest, R)
    PROVE  /\ \A m \in Met(o, B, f) : ~ (Due(o, B, m) < m.qty)
           /\ R = B \ Met(o, B, f)
<1>1. \A m \in Met(o, B, f) : Due(o, B, m) = m.qty /\ m.qty \in Nat
  BY BookFields DEF Progress, Wants, Met, Meets
<1>2. \A m \in Met(o, B, f) : ~ (Due(o, B, m) < m.qty)
  BY <1>1
<1>3. Rump(o, B, Met(o, B, f)) = {}
  BY <1>2 DEF Rump
<1> QED
  BY <1>2, <1>3 DEF Progress

LEMMA ServeNext ==
    ASSUME NEW B, IsBook(B), NEW o, o.qty \in Nat, NEW f \in Seq(Fills),
           NEW rest \in Nat, rest > 0, NEW R, Progress(o, B, f, rest, R),
           NEW r \in Meets(o, B) \ Met(o, B, f),
           \A n \in Meets(o, B) \ Met(o, B, f) : n = r \/ Sooner(o.side, r, n),
           NEW t, t = (IF rest < r.qty THEN rest ELSE r.qty),
           NEW g, g = Append(f, [maker |-> r.rank, price |-> r.price, qty |-> t]),
           NEW Q, \/ t = r.qty /\ Q = R \ {r}
                  \/ t < r.qty /\ Q = (R \ {r}) \cup {[r EXCEPT !.qty = @ - t]}
    PROVE  Progress(o, B, g, rest - t, Q)
<1> DEFINE S == Met(o, B, f)
           x == [maker |-> r.rank, price |-> r.price, qty |-> t]
<1>1. /\ S \subseteq Meets(o, B) /\ S \subseteq B /\ r \in B /\ r \notin S
      /\ r.qty \in Nat /\ r.qty > 0
      /\ Frontmost(o, B, S) /\ Wants(o, B, S, rest)
  <2>1. r \in B /\ S \subseteq B /\ S \subseteq Meets(o, B)
    BY DEF Met, Meets
  <2> QED
    BY <2>1, BookFields DEF Progress, InTurn
<1>2. InFront(o, B, r) = S /\ Frontmost(o, B, S \cup {r})
  BY <1>1, NextInLine
<1>3. Due(o, B, r) = t /\ t \in Nat /\ t > 0
  BY <1>1, <1>2, DueNext
<1>4. PICK n \in Nat : /\ Len(f) = n /\ DOMAIN f = 1 .. n /\ Len(g) = n + 1 /\ DOMAIN g = 1 .. n + 1
                       /\ \A i \in 1 .. n : g[i] = f[i]
                       /\ g[n + 1] = x
  <2>1. g = Append(f, x)
    OBVIOUS
  <2> HIDE DEF x
  <2>2. /\ Len(f) \in Nat /\ DOMAIN f = 1 .. Len(f)
        /\ Len(Append(f, x)) = Len(f) + 1 /\ DOMAIN Append(f, x) = 1 .. Len(f) + 1
        /\ \A i \in 1 .. Len(f) : Append(f, x)[i] = f[i]
        /\ Append(f, x)[Len(f) + 1] = x
    BY AppendedFill
  <2> QED
    BY <2>1, <2>2, Zenon
<1>5. Met(o, B, g) = S \cup {r}
  <2>1. ASSUME NEW m \in Meets(o, B), NEW i \in 1 .. n + 1, g[i].maker = m.rank
        PROVE  m \in S \cup {r}
    <3>1. CASE i \in 1 .. n
      BY <1>4, <2>1, <3>1 DEF Met
    <3>2. CASE i = n + 1
      <4>1. m.rank = r.rank /\ m \in B
        BY <1>4, <2>1, <3>2 DEF Meets
      <4>2. m = r
        BY <1>1, <4>1 DEF IsBook
      <4> QED
        BY <4>2
    <3> QED
      BY <3>1, <3>2
  <2>2. ASSUME NEW m \in S
        PROVE  m \in Met(o, B, g)
    <3>1. PICK i \in 1 .. n : f[i].maker = m.rank
      BY <1>4 DEF Met
    <3>2. i \in 1 .. n + 1 /\ g[i].maker = m.rank
      BY <1>4, <3>1
    <3>3. m \in Meets(o, B) /\ i \in DOMAIN g
      BY <1>1, <1>4, <3>2
    <3> QED
      BY <3>2, <3>3 DEF Met
  <2>3. r \in Met(o, B, g)
    <3>1. n + 1 \in 1 .. n + 1 /\ g[n + 1].maker = r.rank
      BY <1>4
    <3> QED
      BY <1>4, <3>1 DEF Met
  <2>4. Met(o, B, g) \subseteq S \cup {r}
    BY <1>4, <2>1 DEF Met
  <2> QED
    BY <2>2, <2>3, <2>4
<1>6. Cardinality(S) = n /\ Cardinality(S \cup {r}) = n + 1
  <2>1. IsFiniteSet(S)
    BY <1>1, FS_Subset DEF IsBook
  <2>2. Cardinality(S) = n
    BY <1>4 DEF Progress, InTurn
  <2> QED
    BY <1>1, <2>1, <2>2, FS_AddElement
<1>7. FillsDue(o, B, g)
  <2> SUFFICES ASSUME NEW i \in 1 .. n + 1
               PROVE  \E m \in Meets(o, B) :
                        /\ g[i] = [maker |-> m.rank, price |-> m.price, qty |-> Due(o, B, m)]
                        /\ Due(o, B, m) > 0
                        /\ Cardinality(InFront(o, B, m)) = i - 1
    BY <1>4 DEF FillsDue
  <2>1. CASE i \in 1 .. n
    <3>1. i \in DOMAIN f /\ g[i] = f[i]
      BY <1>4, <2>1
    <3>2. FillsDue(o, B, f)
      BY DEF Progress
    <3> QED
      BY <3>1, <3>2 DEF FillsDue
  <2>2. CASE i = n + 1
    BY <1>2, <1>3, <1>4, <1>6, <2>2
  <2>3. i \in 1 .. n \/ i = n + 1
    BY <1>4
  <2> QED
    BY <2>1, <2>2, <2>3
<1>8. InTurn(o, B, g)
  BY <1>2, <1>4, <1>5, <1>6 DEF InTurn
<1>9. Wants(o, B, S \cup {r}, rest - t)
  BY <1>1, <1>2, <1>3, WantsNext
<1>10. Q = (B \ (S \cup {r})) \cup Rump(o, B, S \cup {r})
  <2>1. \A m \in S : ~ (Due(o, B, m) < m.qty)
    BY Emptied
  <2>2. R = B \ S
    BY Emptied
  <2>3. CASE t = r.qty /\ Q = R \ {r}
    <3>1. ~ (Due(o, B, r) < r.qty)
      BY <1>1, <1>3, <2>3
    <3>2. Rump(o, B, S \cup {r}) = {}
      BY <2>1, <3>1 DEF Rump
    <3> QED
      BY <2>2, <2>3, <3>2
  <2>4. CASE t < r.qty /\ Q = (R \ {r}) \cup {[r EXCEPT !.qty = @ - t]}
    <3>1. {m \in S \cup {r} : Due(o, B, m) < m.qty} = {r}
      BY <1>3, <2>1, <2>4
    <3>2. Rump(o, B, S \cup {r}) = {[r EXCEPT !.qty = @ - t]}
      BY <1>3, <3>1 DEF Rump
    <3> QED
      BY <2>2, <2>4, <3>2
  <2> QED
    BY <2>3, <2>4
<1> QED
  BY <1>5, <1>7, <1>8, <1>9, <1>10 DEF Progress

-----------------------------------------------------------------------------
(***************************************************************************)
(* The abstract book's definitions, read on a book B.                      *)
(***************************************************************************)

\* The book that the abstract specification sees.
AbsBook == IF pc = "idle" THEN RestingOrders ELSE before

LEMMA TotalQtyIsDepth ==
    ASSUME NEW B, IsBook(B), NEW S, S \subseteq B
    PROVE  Abstract!TotalQty(S) = Depth(B, S)
<1>1. PICK F : F = QtyIn(B)
  OBVIOUS
<1>2. IsFiniteSet(S) /\ S \in SUBSET S /\ (\A m \in S : F[m] = m.qty /\ F[m] \in Int)
  BY <1>1, FS_Subset, BookFields DEF IsBook, QtyIn
<1>3. PICK g \in [SUBSET S -> Int] : Adds(g, F, S) /\ SumOver(F, S) = g[S]
  BY <1>2, SumIsAdded DEF Integral
<1> DEFINE P(h) == h = [t \in SUBSET S |->
                          IF t = {} THEN 0
                          ELSE (CHOOSE m \in t : TRUE).qty + h[t \ {CHOOSE m \in t : TRUE}]]
           iter == CHOOSE h : P(h)
<1>4. \A t \in SUBSET S : t # {} => F[First(t)] = (CHOOSE m \in t : TRUE).qty
  <2>1. \A t \in SUBSET S : t # {} => First(t) \in S
    BY FirstIn
  <2> QED
    BY <1>2, <2>1 DEF First
<1>5. P(g)
  <2>1. g = [t \in SUBSET S |-> Added(g, F, t)]
    BY <1>3, AsFunction
  <2>2. \A t \in SUBSET S : Added(g, F, t) =
           IF t = {} THEN 0
           ELSE (CHOOSE m \in t : TRUE).qty + g[t \ {CHOOSE m \in t : TRUE}]
    BY <1>4 DEF Added, First
  <2> QED
    BY <2>1, <2>2
<1>6. P(iter)
  <2> HIDE DEF P
  <2> QED
    BY <1>5
<1>7. Adds(iter, F, S)
  <2>1. \A t \in SUBSET S : iter[t] =
           IF t = {} THEN 0
           ELSE (CHOOSE m \in t : TRUE).qty + iter[t \ {CHOOSE m \in t : TRUE}]
    <3> HIDE DEF iter
    <3> QED
      BY <1>6
  <2> HIDE DEF iter
  <2> QED
    BY <1>4, <2>1, Zenon DEF Adds, Added, First
<1>8. iter[S] = g[S]
  <2> HIDE DEF iter
  <2> QED
    BY <1>2, <1>3, <1>7, AddsAgree
<1>9. Abstract!TotalQty(S) = iter[S]
  BY Zenon DEF Abstract!TotalQty, Abstract!MapThenSumSet, Abstract!MapThenFoldSet
<1> QED
  BY <1>1, <1>3, <1>8, <1>9 DEF Depth

LEMMA AbstractCandidates == \A o : Abstract!Candidates(o) = Meets(o, AbsBook)
BY DEF Abstract!Candidates, Abstract!Opposite, Abstract!Crosses, Abstract!CrossesPrice,
       Meets, Opposite, Crosses, CrossesPrice, AbsBook

LEMMA AbstractAhead == \A o, m : Abstract!Ahead(o, m) = InFront(o, AbsBook, m)
BY AbstractCandidates
   DEF Abstract!Ahead, Abstract!ServedBefore, Abstract!WalkedBefore, InFront, Sooner, WalkedBefore

LEMMA AbstractShare ==
    ASSUME IsBook(AbsBook), NEW o, o.qty \in Nat, NEW m \in AbsBook
    PROVE  Abstract!Share(o, m) = Due(o, AbsBook, m)
<1>1. PICK d \in Nat, q \in Nat, z \in Nat :
          d = Depth(AbsBook, InFront(o, AbsBook, m)) /\ q = m.qty /\ z = o.qty
  BY InFrontIn, DepthFacts, BookFields
<1>2. Abstract!TotalQty(Abstract!Ahead(o, m)) = d
  BY <1>1, AbstractAhead, InFrontIn, TotalQtyIsDepth
<1>3. Abstract!Share(o, m) = Abstract!Min({q, Abstract!Max({0, z - d})})
  BY <1>1, <1>2 DEF Abstract!Share
<1>4. PICK e : e = IF z - d <= 0 THEN 0 ELSE z - d
  OBVIOUS
<1>5. Abstract!Max({0, z - d}) = e
  BY <1>4 DEF Abstract!Max
<1>6. Abstract!Min({q, e}) = IF q <= e THEN q ELSE e
  <2>1. e \in Int
    BY <1>4
  <2> QED
    BY <2>1 DEF Abstract!Min
<1>7. Due(o, AbsBook, m) = IF z - d <= 0 THEN 0 ELSE IF q <= z - d THEN q ELSE z - d
  BY <1>1 DEF Due
<1>8. CASE z - d <= 0
  BY <1>3, <1>4, <1>5, <1>6, <1>7, <1>8
<1>9. CASE ~ (z - d <= 0)
  BY <1>3, <1>4, <1>5, <1>6, <1>7, <1>9
<1> QED
  BY <1>8, <1>9

LEMMA AbstractServed ==
    ASSUME IsBook(AbsBook), NEW o, o.qty \in Nat
    PROVE  /\ Abstract!Served(o) = {m \in Meets(o, AbsBook) : Due(o, AbsBook, m) > 0}
           /\ Abstract!Served(o) \subseteq AbsBook
<1>1. \A m \in Meets(o, AbsBook) : m \in AbsBook
  BY DEF Meets
<1>2. \A m \in Meets(o, AbsBook) : Abstract!Share(o, m) = Due(o, AbsBook, m)
  BY <1>1, AbstractShare
<1> QED
  BY <1>1, <1>2, AbstractCandidates DEF Abstract!Served

LEMMA AbstractLeftover ==
    ASSUME IsBook(AbsBook), NEW o, o.qty \in Nat, NEW S, S = Abstract!Served(o)
    PROVE  Abstract!Leftover(o) = o.qty - SumOver(DueIn(o, AbsBook), S)
<1>1. PICK F : F = DueIn(o, AbsBook)
  OBVIOUS
<1>2. IsFiniteSet(S) /\ S \in SUBSET S
      /\ (\A m \in S : F[m] = Abstract!Share(o, m) /\ F[m] \in Int)
  <2>1. S \subseteq AbsBook
    BY AbstractServed
  <2>2. \A m \in S : Abstract!Share(o, m) = Due(o, AbsBook, m) /\ Due(o, AbsBook, m) \in Int
    BY <2>1, AbstractShare, DueFacts
  <2> QED
    BY <1>1, <2>1, <2>2, FS_Subset DEF IsBook, DueIn
<1>3. PICK g \in [SUBSET S -> Int] : Adds(g, F, S) /\ SumOver(F, S) = g[S]
  BY <1>2, SumIsAdded DEF Integral
<1> DEFINE P(h) == h = [t \in SUBSET S |->
                          IF t = {} THEN 0
                          ELSE Abstract!Share(o, CHOOSE m \in t : TRUE)
                               + h[t \ {CHOOSE m \in t : TRUE}]]
           iter == CHOOSE h : P(h)
<1>4. \A t \in SUBSET S : t # {} => F[First(t)] = Abstract!Share(o, CHOOSE m \in t : TRUE)
  <2>1. \A t \in SUBSET S : t # {} => First(t) \in S
    BY FirstIn
  <2> QED
    BY <1>2, <2>1 DEF First
<1>5. P(g)
  <2>1. g = [t \in SUBSET S |-> Added(g, F, t)]
    BY <1>3, AsFunction
  <2>2. \A t \in SUBSET S : Added(g, F, t) =
           IF t = {} THEN 0
           ELSE Abstract!Share(o, CHOOSE m \in t : TRUE) + g[t \ {CHOOSE m \in t : TRUE}]
    BY <1>4 DEF Added, First
  <2> QED
    BY <2>1, <2>2
<1>6. P(iter)
  <2> HIDE DEF P
  <2> QED
    BY <1>5
<1>7. Adds(iter, F, S)
  <2>1. \A t \in SUBSET S : iter[t] =
           IF t = {} THEN 0
           ELSE Abstract!Share(o, CHOOSE m \in t : TRUE) + iter[t \ {CHOOSE m \in t : TRUE}]
    <3> HIDE DEF iter
    <3> QED
      BY <1>6
  <2> HIDE DEF iter
  <2> QED
    BY <1>4, <2>1, Zenon DEF Adds, Added, First
<1>8. iter[S] = g[S]
  <2> HIDE DEF iter
  <2> QED
    BY <1>2, <1>3, <1>7, AddsAgree
<1>9. Abstract!Leftover(o) = o.qty - iter[S]
  BY Zenon DEF Abstract!Leftover, Abstract!MapThenSumSet, Abstract!MapThenFoldSet
<1> QED
  BY <1>1, <1>3, <1>8, <1>9

-----------------------------------------------------------------------------
(***************************************************************************)
(* The steps of a call.                                                    *)
(***************************************************************************)

\* The front of the best level is the next order that the taker has to trade
\* with.
LEMMA FrontIsNext ==
    ASSUME BookTypeOK, CallTypeOK, DeepByAge, DequesInOrder, DrainsBest, DrainCrosses, Underway,
           pc = "drain", remaining > 0,
           NEW s \in Sides, s = Opposite(taker.side), 1 \in DOMAIN queue[s][price],
           NEW r, r = At(s, price, 1)
    PROVE  /\ r \in Meets(taker, before) \ Met(taker, before, fills)
           /\ \A n \in Meets(taker, before) \ Met(taker, before, fills) :
                 n = r \/ Sooner(taker.side, r, n)
<1>0. /\ AllPlaces /\ price \in Prices /\ taker \in OrderTypes
      /\ Progress(taker, before, fills, remaining, RestingOrders)
      /\ IsBook(before)
  BY PlacesOfOrders DEF CallTypeOK, Underway
<1>1. RestingOrders = before \ Met(taker, before, fills)
  <2>1. remaining \in Nat
    BY DEF CallTypeOK
  <2> QED
    BY <1>0, <2>1, Emptied
<1>2. /\ r \in RestingOrders /\ r.side = s /\ r.price = price
      /\ r.rank = queue[s][price][1].rank
  BY <1>0, AtFields DEF AllPlaces
<1>3. r \in Meets(taker, before)
  BY <1>1, <1>2 DEF Meets, DrainCrosses
<1>4. ASSUME NEW n \in Meets(taker, before) \ Met(taker, before, fills)
      PROVE  n = r \/ Sooner(taker.side, r, n)
  <2>1. n \in RestingOrders /\ n.side = s
    BY <1>1 DEF Meets
  <2>2. PICK t \in Sides, q \in Prices : \E i \in DOMAIN queue[t][q] : n = At(t, q, i)
    BY <1>0, <2>1 DEF AllPlaces
  <2>3. PICK i \in DOMAIN queue[t][q] : n = At(t, q, i)
    BY <2>2
  <2>4. t = s /\ n.price = q /\ n.rank = queue[s][q][i].rank
    BY <2>1, <2>3, AtFields
  <2>5. CASE q = price
    <3>1. i \in Nat /\ (i = 1 \/ 1 < i)
      BY <2>3, QueueFacts
    <3>2. i \in DOMAIN queue[s][price]
      BY <2>3, <2>4, <2>5
    <3>3. 1 < i => queue[s][price][1].rank < queue[s][price][i].rank
      BY <1>0, <3>2 DEF DequesInOrder
    <3> QED
      BY <1>2, <2>3, <2>4, <2>5, <3>1, <3>3 DEF Sooner
  <2>6. CASE q # price
    <3>1. WalkedBefore(taker.side, price, q)
      BY <2>3, <2>4, <2>6 DEF DrainsBest
    <3> QED
      BY <1>2, <2>4, <3>1 DEF Sooner
  <2> QED
    BY <2>5, <2>6
<1> QED
  BY <1>1, <1>2, <1>3, <1>4

LEMMA DrainUnderway ==
    ASSUME TypeOK, TypeOK', Seniority, DeepByAge, DeepByAge', DrainsBest, DrainCrosses, Underway,
           DrainFront, before' = before
    PROVE  Underway'
<1>0. BookTypeOK /\ BookTypeOK' /\ CallTypeOK /\ OutputTypeOK /\ DequesInOrder /\ RestsOnce
  BY TypeParts DEF TypeOK, BookTypeOK, Seniority
<1>1. /\ pc = "drain" /\ remaining > 0 /\ taker' = taker /\ arrived' = arrived /\ pc' = pc
      /\ remaining \in Nat /\ fills \in Seq(Fills) /\ taker \in OrderTypes
      /\ price \in Prices
  BY <1>0 DEF DrainFront, CallTypeOK
<1>2. PICK s \in Sides, t \in Nat :
          /\ s = Opposite(taker.side) /\ t = Traded(FrontOrder)
          /\ 1 \in DOMAIN queue[s][price] /\ FrontOrder = queue[s][price][1]
          /\ fills' = Append(fills, [maker |-> FrontOrder.rank, price |-> price, qty |-> t])
          /\ remaining' = remaining - t
          /\ \/ Leaves(s, price, 1) /\ t = FrontOrder.qty
             \/ Shrinks(s, price, t) /\ t < FrontOrder.qty
  BY <1>0, DrainMoves DEF FrontOrder
<1>3. PICK r : r = At(s, price, 1)
  OBVIOUS
<1>4. /\ r.rank = FrontOrder.rank /\ r.qty = FrontOrder.qty /\ r.price = price
  BY <1>0, <1>1, <1>2, <1>3, AtFields
<1>5. /\ r \in Meets(taker, before) \ Met(taker, before, fills)
      /\ \A n \in Meets(taker, before) \ Met(taker, before, fills) :
            n = r \/ Sooner(taker.side, r, n)
  BY <1>0, <1>1, <1>2, <1>3, FrontIsNext
<1>6. \/ t = r.qty /\ RestingOrders' = RestingOrders \ {r}
      \/ t < r.qty /\ RestingOrders' = (RestingOrders \ {r}) \cup {[r EXCEPT !.qty = @ - t]}
  <2>1. CASE Leaves(s, price, 1) /\ t = FrontOrder.qty
    BY <1>0, <1>3, <1>4, <2>1, LeavesResting
  <2>2. CASE Shrinks(s, price, t) /\ t < FrontOrder.qty
    BY <1>0, <1>3, <1>4, <2>2, ShrinksResting
  <2> QED
    BY <1>2, <2>1, <2>2
<1>7. t = (IF remaining < r.qty THEN remaining ELSE r.qty)
  BY <1>2, <1>4 DEF Traded
<1>8. /\ taker \in OrdersWithRank(arrived) /\ IsBook(before) /\ DeepEnough(taker, before)
      /\ Progress(taker, before, fills, remaining, RestingOrders)
  BY <1>1 DEF Underway
<1>9. taker.qty \in Nat
  BY <1>1, MaxQtyAssumption DEF OrderTypes
<1>10. fills' = Append(fills, [maker |-> r.rank, price |-> r.price, qty |-> t])
  BY <1>2, <1>4
<1>11. Progress(taker, before, fills', remaining - t, RestingOrders')
  BY <1>1, <1>5, <1>6, <1>7, <1>8, <1>9, <1>10, ServeNext
<1> QED
  BY <1>1, <1>2, <1>8, <1>11 DEF Underway

\* What a fill-or-kill order can reach, and the orders it may trade with.
LEMMA ReachableMeets ==
    ASSUME BookTypeOK, KeysFinite, LevelsExact, pc = "idle", DeepByAge, Seniority,
           RestingConserved, NEW o \in OrderTypes, o.kind = "Fok"
    PROVE  /\ Cover(o) = Depth(RestingOrders, Meets(o, RestingOrders))
           /\ Reachable(o.side, o.price) = {} => Meets(o, RestingOrders) = {}
<1>1. PICK side \in Sides, limit \in Prices : side = o.side /\ limit = o.price
  BY TakerFacts
<1>2. PICK s \in Sides : s = Opposite(side)
  BY DEF Opposite, Sides
<1>3. PICK R : R = Reachable(side, limit)
  OBVIOUS
<1>4. PICK e : e = PosQty(s)
  OBVIOUS
<1>5. /\ R \subseteq Prices \X Ranks /\ IsFiniteSet(R)
      /\ \A x \in Prices \X Ranks : x \in R <=>
            /\ x[1] \in levels[s] /\ x[2] \in DOMAIN queue[s][x[1]]
            /\ CrossesPrice(side, x[1], limit)
      /\ \A x \in Prices \X Ranks : e[x] = queue[s][x[1]][x[2]].qty
  BY <1>2, <1>3, <1>4, ReachableFacts DEF Reachable, PosQty
<1>6. PICK B : B = RestingOrders
  OBVIOUS
<1>7. IsBook(B) /\ AllPlaces /\ RestsOnce /\ DequesInOrder
  BY <1>6, RestingIsBook, PlacesOfOrders DEF Seniority
<1>8. PICK T : T = Meets(o, B)
  OBVIOUS
<1>9. PICK f : f = QtyIn(B)
  OBVIOUS
<1>10. T \subseteq B /\ IsFiniteSet(T) /\ (\A m \in T : f[m] = m.qty /\ f[m] \in Int)
  BY <1>7, <1>8, <1>9, MeetsIn, FS_Subset, BookFields DEF IsBook, QtyIn
<1>11. \A m : m \in T <=> m \in B /\ m.side = s /\ CrossesPrice(side, m.price, limit)
  BY <1>1, <1>2, <1>8 DEF Meets, Crosses
<1>12. PICK b : b = [x \in R |-> At(s, x[1], x[2])]
  OBVIOUS
<1>13. ASSUME NEW x \in R
       PROVE  b[x] \in T /\ e[x] = f[b[x]]
  <2>1. /\ x[1] \in Prices /\ x[2] \in DOMAIN queue[s][x[1]]
        /\ CrossesPrice(side, x[1], limit) /\ e[x] = queue[s][x[1]][x[2]].qty
    BY <1>5
  <2>2. /\ At(s, x[1], x[2]) \in B /\ At(s, x[1], x[2]).side = s
        /\ At(s, x[1], x[2]).price = x[1] /\ At(s, x[1], x[2]).qty = e[x]
    BY <1>6, <1>7, <2>1, AtFields DEF AllPlaces
  <2>3. b[x] = At(s, x[1], x[2])
    BY <1>12
  <2>4. b[x] \in T
    BY <1>11, <2>1, <2>2, <2>3
  <2> QED
    BY <1>10, <2>2, <2>3, <2>4
<1>14. ASSUME NEW x \in R, NEW y \in R, b[x] = b[y]
       PROVE  x = y
  <2>1. /\ x[1] \in Prices /\ x[2] \in DOMAIN queue[s][x[1]]
        /\ y[1] \in Prices /\ y[2] \in DOMAIN queue[s][y[1]]
        /\ x \in Prices \X Ranks /\ y \in Prices \X Ranks
    BY <1>5
  <2>2. At(s, x[1], x[2]) = At(s, y[1], y[2])
    BY <1>12, <1>14
  <2>3. queue[s][x[1]][x[2]].rank = queue[s][y[1]][y[2]].rank
    BY <2>1, <2>2, AtFields
  <2>4. x[1] = y[1] /\ x[2] = y[2]
    BY <1>7, <2>1, <2>3, OnePlace
  <2> QED
    BY <2>1, <2>4
<1>15. ASSUME NEW m \in T
       PROVE  \E x \in R : b[x] = m
  <2>1. m \in B /\ m.side = s /\ CrossesPrice(side, m.price, limit)
    BY <1>11
  <2>2. PICK t \in Sides, p \in Prices : \E i \in DOMAIN queue[t][p] : m = At(t, p, i)
    BY <1>6, <1>7, <2>1 DEF AllPlaces
  <2>3. PICK i \in DOMAIN queue[t][p] : m = At(t, p, i)
    BY <2>2
  <2>4. t = s /\ m.price = p
    BY <2>1, <2>3, AtFields
  <2>5. i \in Ranks
    BY <2>3, InRanks
  <2>6. queue[s][p] # << >>
    BY <2>3, <2>4
  <2>7. p \in levels[s]
    BY <2>6 DEF LevelsExact
  <2>8. PICK x \in Prices \X Ranks : x = <<p, i>>
    BY <2>5
  <2>9. x \in R /\ x[1] = p /\ x[2] = i
    BY <1>5, <2>1, <2>3, <2>4, <2>7, <2>8
  <2> QED
    BY <1>12, <2>3, <2>4, <2>9
<1>16. Renames(b, R, T, e, f)
  BY <1>13, <1>14, <1>15 DEF Renames
<1>17. SumOver(e, R) = SumOver(f, T)
  BY <1>5, <1>10, <1>16, SumRenamed DEF Integral
<1>18. R = {} => T = {}
  BY <1>15
<1> QED
  BY <1>1, <1>2, <1>3, <1>4, <1>6, <1>8, <1>9, <1>17, <1>18 DEF Cover, Depth

\* A call begins with nothing traded.
LEMMA NothingMet ==
    ASSUME NEW B, IsBook(B), NEW o, o.qty \in Nat
    PROVE  Progress(o, B, << >>, o.qty, B)
<1>1. Met(o, B, << >>) = {}
  BY DEF Met
<1>2. Rump(o, B, {}) = {}
  BY DEF Rump
<1>3. Cardinality({}) = 0 /\ Len(<< >>) = 0
  BY FS_EmptySet, EmptySeq
<1>4. FillsDue(o, B, << >>) /\ InTurn(o, B, << >>)
  <2>1. DOMAIN << >> = {}
    OBVIOUS
  <2>2. FillsDue(o, B, << >>)
    BY <2>1 DEF FillsDue
  <2>3. InTurn(o, B, << >>)
    BY <1>1, <1>3 DEF InTurn, Frontmost
  <2> QED
    BY <2>2, <2>3
<1>5. Wants(o, B, {}, o.qty)
  <2>1. Depth(B, {}) = 0 /\ SumOver(DueIn(o, B), {}) = 0
    BY SumEmpty DEF Depth
  <2> QED
    BY <2>1 DEF Wants
<1> QED
  BY <1>1, <1>2, <1>4, <1>5 DEF Progress

LEMMA BeginUnderway ==
    ASSUME TypeOK, LevelsExact, KeysFinite, DeepByAge, Seniority, RestingConserved,
           NEW o \in NextOrders, Called(o)
    PROVE  Underway'
<1>0. BookTypeOK /\ pc = "idle" /\ arrived \in 0 .. MaxOrders
  BY TypeParts DEF Called, BeginMatch, TypeOK
<1>1. /\ o \in OrderTypes /\ o.qty \in Nat /\ o \in OrdersWithRank(arrived + 1)
      /\ o.rank = arrived + 1
  BY <1>0, OrderFacts DEF NextOrders
<1>2. /\ taker' = o /\ remaining' = o.qty /\ fills' = << >> /\ queue' = queue
      /\ arrived' = arrived + 1 /\ before' = RestingOrders
      /\ o.kind = "Fok" => CanFillFull(o.side, o.qty, o.price)
  BY <1>1 DEF Called, BeginMatch, Arrive, bookVars
<1>3. RestingOrders' = RestingOrders
  BY <1>2 DEF RestingOrders
<1>4. IsBook(RestingOrders)
  BY <1>0, RestingIsBook DEF Seniority
<1>5. DeepEnough(o, RestingOrders)
  <2> SUFFICES ASSUME o.kind = "Fok"
               PROVE  Depth(RestingOrders, Meets(o, RestingOrders)) >= o.qty
    BY DEF DeepEnough
  <2> QED
    BY <1>0, <1>1, <1>2, PreflightCovers, ReachableMeets
<1>6. Progress(o, RestingOrders, << >>, o.qty, RestingOrders)
  BY <1>1, <1>4, NothingMet
<1> QED
  BY <1>1, <1>2, <1>3, <1>4, <1>5, <1>6 DEF Underway

LEMMA UnderwayKept ==
    ASSUME Underway, pc # "idle", UNCHANGED <<queue, taker, remaining, fills, arrived, before>>
    PROVE  Underway'
<1>1. RestingOrders' = RestingOrders
  BY DEF RestingOrders
<1>2. /\ taker \in OrdersWithRank(arrived) /\ IsBook(before) /\ DeepEnough(taker, before)
      /\ Progress(taker, before, fills, remaining, RestingOrders)
  BY DEF Underway
<1> QED
  BY <1>1, <1>2 DEF Underway

\* Between any two steps, a call's fills are the ones that are due.
LEMMA UnderwayStep ==
    ASSUME TypeOK, TypeOK', LevelsExact, KeysFinite, Seniority, DeepByAge, DeepByAge',
           RestingConserved, DrainsBest, DrainCrosses, Underway, [RefNext]_refVars
    PROVE  Underway'
<1>1. ASSUME NEW o \in NextOrders, Called(o)
      PROVE  Underway'
  BY <1>1, BeginUnderway
<1>2. ASSUME NEW o \in NextOrders, Refused(o)
      PROVE  Underway'
  BY <1>2 DEF Refused, RejectFok, callVars, Underway
<1>3. ASSUME InternalStep
      PROVE  Underway'
  <2>1. CASE DrainFront
    BY <1>3, <2>1, DrainUnderway DEF InternalStep
  <2>2. CASE LeaveLevel
    BY <1>3, <2>2, UnderwayKept DEF InternalStep, LeaveLevel, historyVars
  <2>3. CASE \E p \in Prices : EnterLevel(p)
    BY <1>3, <2>3, UnderwayKept DEF InternalStep, EnterLevel, bookVars, historyVars
  <2> QED
    BY <1>3, <2>1, <2>2, <2>3 DEF InternalStep
<1>4. ASSUME Returned
      PROVE  Underway'
  BY <1>4 DEF Returned, ReturnFills, Underway
<1>5. ASSUME BetweenCalls
      PROVE  Underway'
  BY <1>5 DEF BetweenCalls, Cancel, CancelUnknown, RestoreSnapshot, callVars, vars, Underway
<1>6. ASSUME UNCHANGED refVars
      PROVE  Underway'
  <2>1. UNCHANGED <<pc, queue, taker, remaining, fills, arrived, before>>
    BY <1>6 DEF refVars, vars, bookVars, callVars, historyVars
  <2>2. CASE pc = "idle"
    BY <2>1, <2>2 DEF Underway
  <2>3. CASE pc # "idle"
    BY <2>1, <2>3, UnderwayKept
  <2> QED
    BY <2>2, <2>3
<1> QED
  BY <1>1, <1>2, <1>3, <1>4, <1>5, <1>6 DEF RefNext

-----------------------------------------------------------------------------
(***************************************************************************)
(* At the end of a call, everybody has had what they are due.              *)
(***************************************************************************)

LEMMA FillOf ==
    ASSUME NEW B, IsBook(B), NEW o, NEW f, FillsDue(o, B, f)
    PROVE  \A m \in Met(o, B, f) : \E i \in DOMAIN f :
               /\ f[i] = [maker |-> m.rank, price |-> m.price, qty |-> Due(o, B, m)]
               /\ Due(o, B, m) > 0
               /\ Cardinality(InFront(o, B, m)) = i - 1
<1> SUFFICES ASSUME NEW m \in Met(o, B, f)
             PROVE  \E i \in DOMAIN f :
                       /\ f[i] = [maker |-> m.rank, price |-> m.price, qty |-> Due(o, B, m)]
                       /\ Due(o, B, m) > 0
                       /\ Cardinality(InFront(o, B, m)) = i - 1
  OBVIOUS
<1>1. PICK i \in DOMAIN f : f[i].maker = m.rank
  BY DEF Met
<1>2. PICK n \in Meets(o, B) :
          /\ f[i] = [maker |-> n.rank, price |-> n.price, qty |-> Due(o, B, n)]
          /\ Due(o, B, n) > 0
          /\ Cardinality(InFront(o, B, n)) = i - 1
  BY DEF FillsDue
<1>3. n.rank = m.rank /\ m \in B /\ n \in B
  BY <1>1, <1>2 DEF Met, Meets
<1>4. n = m
  BY <1>3 DEF IsBook
<1> QED
  BY <1>2, <1>4

LEMMA AllServed ==
    ASSUME NEW B, IsBook(B), NEW o, o.qty \in Nat, NEW f, NEW rest \in Nat, NEW R,
           Progress(o, B, f, rest, R),
           rest > 0 => Meets(o, R) = {}
    PROVE  Met(o, B, f) = {m \in Meets(o, B) : Due(o, B, m) > 0}
<1> DEFINE S == Met(o, B, f)
<1>1. /\ FillsDue(o, B, f) /\ Frontmost(o, B, S) /\ Wants(o, B, S, rest)
      /\ S \subseteq Meets(o, B) /\ S \subseteq B
  BY DEF Progress, InTurn, Met, Meets
<1>2. \A m \in S : Due(o, B, m) > 0
  BY <1>1, FillOf
<1>3. ASSUME NEW m \in Meets(o, B), Due(o, B, m) > 0, m \notin S
      PROVE  FALSE
  <2>1. CASE rest > 0
    <3>1. R = B \ S
      BY <2>1, Emptied
    <3>2. m \in Meets(o, R)
      BY <1>3, <3>1 DEF Meets
    <3> QED
      BY <2>1, <3>2
  <2>2. CASE rest = 0
    <3>1. S \subseteq InFront(o, B, m) /\ InFront(o, B, m) \subseteq B
      BY <1>1, <1>3, BehindPrefix, InFrontIn
    <3>2. PICK d \in Nat, e \in Nat, z \in Nat :
              d = Depth(B, S) /\ e = Depth(B, InFront(o, B, m)) /\ z = o.qty
      BY <1>1, <3>1, DepthFacts
    <3>3. d <= e
      <4>1. S \in SUBSET InFront(o, B, m)
        BY <3>1
      <4> QED
        BY <3>1, <3>2, <4>1, DepthFacts
    <3>4. 0 = IF z >= d THEN z - d ELSE 0
      BY <1>1, <2>2, <3>2 DEF Wants
    <3>5. z - e <= 0
      BY <3>3, <3>4
    <3>6. Due(o, B, m) = 0
      BY <3>2, <3>5 DEF Due
    <3> QED
      BY <1>3, <3>6
  <2> QED
    BY <2>1, <2>2
<1> QED
  BY <1>1, <1>2, <1>3

\* The loop ends with a remainder only if nobody is left to trade with.
LEMMA NobodyLeft ==
    ASSUME TypeOK, DeepByAge, LevelsExact, pc = "sweep", SweepDone, remaining > 0
    PROVE  Meets(taker, RestingOrders) = {}
<1>0. BookTypeOK /\ AllPlaces /\ taker \in OrderTypes /\ levels \in [Sides -> SUBSET Prices]
  BY TypeParts, PlacesOfOrders DEF TypeOK
<1>1. /\ taker.side \in Sides /\ taker.price \in Prices /\ Opposite(taker.side) \in Sides
  BY <1>0, TakerFacts
<1> SUFFICES ASSUME NEW m \in Meets(taker, RestingOrders)
             PROVE  FALSE
  OBVIOUS
<1>2. m \in RestingOrders /\ m.side = Opposite(taker.side) /\ Crosses(taker, m.price)
  BY DEF Meets
<1>3. PICK t \in Sides, r \in Prices : \E i \in DOMAIN queue[t][r] : m = At(t, r, i)
  BY <1>0, <1>2 DEF AllPlaces
<1>4. PICK i \in DOMAIN queue[t][r] : m = At(t, r, i)
  BY <1>3
<1>5. t = Opposite(taker.side) /\ m.price = r /\ queue[t][r] # << >>
  BY <1>0, <1>2, <1>4, AtFields
<1>6. r \in levels[Opposite(taker.side)]
  BY <1>5 DEF LevelsExact
<1>7. PICK p \in Prices : IsBest(taker.side, p) /\ ~ Crosses(taker, p)
  BY <1>6 DEF SweepDone, TypeOK
<1>8. ~ WalkedBefore(taker.side, r, p) /\ Crosses(taker, r) /\ ~ Crosses(taker, p)
  BY <1>2, <1>5, <1>6, <1>7 DEF IsBest
<1>9. p \in Int /\ r \in Int /\ taker.price \in Int
  BY <1>1, PricesAssumption
<1> QED
  BY <1>1, <1>8, <1>9 DEF Crosses, CrossesPrice, WalkedBefore, Sides

-----------------------------------------------------------------------------
(***************************************************************************)
(* Every step is a step of the abstract book or leaves it alone.           *)
(***************************************************************************)

AbsArrived == IF pc = "idle" THEN arrived ELSE arrived - 1

LEMMA AbstractVars ==
    /\ Abstract!absVars = <<AbsBook, answered, ToSet(result), next_trade_id, AbsArrived>>
    /\ Abstract!absVars' = <<AbsBook, answered, ToSet(result), next_trade_id, AbsArrived>>'
BY DEF Abstract!absVars, AbsBook, AbsArrived

LEMMA AbstractOrders == \A n : Abstract!OrdersWithRank(n) = OrdersWithRank(n)
BY DEF Abstract!OrdersWithRank, OrdersWithRank, Abstract!Sides, Sides, Abstract!Kinds, Kinds,
       Abstract!NoLimit, NoLimit

LEMMA SameResting == queue' = queue => RestingOrders' = RestingOrders
BY DEF RestingOrders

LEMMA InitAbstract == RefInit => Abstract!AbsInit
<1> SUFFICES ASSUME RefInit
             PROVE  Abstract!AbsInit
  OBVIOUS
<1>1. /\ queue = [s \in Sides |-> [p \in Prices |-> << >>]] /\ pc = "idle"
      /\ answered = NoOrder /\ result = << >> /\ next_trade_id = 0 /\ arrived = 0
  BY DEF RefInit, Init
<1>2. RestingOrders = {}
  <2>1. \A y \in Sides \X Prices \X Ranks : DOMAIN queue[y[1]][y[2]] = {}
    BY <1>1
  <2> QED
    BY <2>1 DEF RestingOrders
<1>3. ToSet(result) = {}
  BY <1>1 DEF ToSet
<1> QED
  BY <1>1, <1>2, <1>3 DEF Abstract!AbsInit, Abstract!NoOrder, NoOrder

\* The steps inside a call, a call's beginning, cancel of an unknown id and
\* restore.
LEMMA Stutters ==
    ASSUME TypeOK,
           \/ \E o \in NextOrders : Called(o)
           \/ InternalStep
           \/ RestoreSnapshot /\ UNCHANGED <<before, answered>>
           \/ UNCHANGED refVars
    PROVE  UNCHANGED Abstract!absVars
<1> SUFFICES UNCHANGED <<AbsBook, answered, ToSet(result), next_trade_id, AbsArrived>>
  BY AbstractVars
<1>0. arrived \in Nat
  BY MaxOrdersAssumption DEF TypeOK
<1>1. ASSUME NEW o \in NextOrders, Called(o)
      PROVE  UNCHANGED <<AbsBook, answered, ToSet(result), next_trade_id, AbsArrived>>
  <2>1. /\ pc = "idle" /\ pc' = "sweep" /\ before' = RestingOrders
        /\ o.rank = arrived + 1 /\ arrived' = o.rank
        /\ UNCHANGED <<answered, result, next_trade_id>>
    BY <1>1 DEF Called, BeginMatch, Arrive, bookVars
  <2>2. arrived' - 1 = arrived
    BY <1>0, <2>1
  <2>3. AbsBook' = AbsBook /\ AbsArrived' = AbsArrived
    BY <2>1, <2>2 DEF AbsBook, AbsArrived
  <2> QED
    BY <2>1, <2>3
<1>2. ASSUME InternalStep
      PROVE  UNCHANGED <<AbsBook, answered, ToSet(result), next_trade_id, AbsArrived>>
  <2>1. /\ pc # "idle" /\ pc' # "idle"
        /\ UNCHANGED <<before, answered, result, next_trade_id, arrived>>
    BY <1>2 DEF InternalStep, EnterLevel, DrainFront, LeaveLevel, bookVars, historyVars
  <2> QED
    BY <2>1 DEF AbsBook, AbsArrived
<1>3. ASSUME RestoreSnapshot, UNCHANGED <<before, answered>>
      PROVE  UNCHANGED <<AbsBook, answered, ToSet(result), next_trade_id, AbsArrived>>
  <2>1. UNCHANGED <<pc, queue, before, answered, result, next_trade_id, arrived>>
    BY <1>3 DEF RestoreSnapshot, callVars, historyVars
  <2> QED
    BY <2>1, SameResting DEF AbsBook, AbsArrived
<1>4. ASSUME UNCHANGED refVars
      PROVE  UNCHANGED <<AbsBook, answered, ToSet(result), next_trade_id, AbsArrived>>
  <2>1. UNCHANGED <<pc, queue, before, answered, result, next_trade_id, arrived>>
    BY <1>4 DEF refVars, vars, bookVars, callVars, historyVars
  <2> QED
    BY <2>1, SameResting DEF AbsBook, AbsArrived
<1> QED
  BY <1>1, <1>2, <1>3, <1>4

LEMMA CancelAbstract ==
    ASSUME IdInv, IdInv', RestingConserved, NEW id \in Ids, Cancel(id),
           UNCHANGED <<before, answered>>
    PROVE  Abstract!CancelOrder(id)
<1>0. /\ TypeOK /\ BookTypeOK /\ BookTypeOK' /\ DeepByAge /\ DeepByAge'
      /\ RestsOnce /\ DequesInOrder /\ Located /\ IdOnce /\ AllPlaces
  BY TypeParts, PlacesOfOrders DEF IdInv, IndexInv, Seniority, TypeOK, BookTypeOK
<1>1. /\ pc = "idle" /\ pc' = "idle"
      /\ UNCHANGED <<answered, result, next_trade_id, arrived>>
  BY DEF Cancel, callVars, historyVars
<1>2. PICK s \in Sides, p \in Prices :
          /\ by_id[id] = <<s, p>>
          /\ \/ queue' = queue /\ \A i \in DOMAIN queue[s][p] : queue[s][p][i].id # id
             \/ \E k \in DOMAIN queue[s][p] : Leaves(s, p, k) /\ queue[s][p][k].id = id
  BY <1>0, CancelMoves
<1>3. ASSUME NEW m \in RestingOrders, m.id = id
      PROVE  \E i \in DOMAIN queue[s][p] : m = At(s, p, i) /\ queue[s][p][i].id = id
  <2>1. PICK t \in Sides, r \in Prices : \E i \in DOMAIN queue[t][r] : m = At(t, r, i)
    BY <1>0, <1>3 DEF AllPlaces
  <2>2. PICK i \in DOMAIN queue[t][r] : m = At(t, r, i)
    BY <2>1
  <2>3. queue[t][r][i].id = id
    BY <1>0, <1>3, <2>2, AtFields
  <2>4. RestsAt(id, t, r)
    BY <2>2, <2>3 DEF RestsAt
  <2>5. by_id[id] = <<t, r>>
    BY <1>0, <2>4 DEF Located
  <2>6. t = s /\ r = p
    BY <1>2, <2>5
  <2> QED
    BY <2>2, <2>3, <2>6
<1>4. RestingOrders' = {m \in RestingOrders : m.id # id}
  <2>1. CASE queue' = queue /\ \A i \in DOMAIN queue[s][p] : queue[s][p][i].id # id
    BY <1>3, <2>1, SameResting
  <2>2. CASE \E k \in DOMAIN queue[s][p] : Leaves(s, p, k) /\ queue[s][p][k].id = id
    <3>1. PICK k \in DOMAIN queue[s][p] : Leaves(s, p, k) /\ queue[s][p][k].id = id
      BY <2>2
    <3>2. RestingOrders' = RestingOrders \ {At(s, p, k)}
      BY <1>0, <3>1, LeavesResting
    <3>3. At(s, p, k).id = id
      BY <1>0, <3>1, AtFields
    <3>4. \A m \in RestingOrders : m.id = id => m = At(s, p, k)
      BY <1>0, <1>3, <3>1 DEF IdOnce
    <3> QED
      BY <3>2, <3>3, <3>4
  <2> QED
    BY <1>2, <2>1, <2>2
<1> QED
  BY <1>1, <1>4 DEF Abstract!CancelOrder

\* A rejected fill-or-kill order is killed, or wants nothing and gets nothing.
LEMMA RefusedAbstract ==
    ASSUME TypeOK, LevelsExact, KeysFinite, Seniority, DeepByAge, RestingConserved,
           NEW o \in NextOrders, Refused(o)
    PROVE  Abstract!Submit(o)
<1>0. BookTypeOK /\ o \in OrderTypes /\ o.qty \in Nat /\ o.rank = arrived + 1
  BY TypeParts, OrderFacts DEF TypeOK
<1>1. /\ pc = "idle" /\ pc' = "idle" /\ arrived' = o.rank /\ answered' = o
      /\ result' = << >> /\ UNCHANGED <<queue, next_trade_id>>
      /\ o.kind = "Fok" /\ ~ CanFillFull(o.side, o.qty, o.price)
  BY DEF Refused, RejectFok, Arrive, bookVars, callVars
<1>2. AbsBook = RestingOrders /\ RestingOrders' = RestingOrders
  BY <1>1, SameResting DEF AbsBook
<1>3. IsBook(AbsBook)
  BY <1>0, <1>2, RestingIsBook DEF Seniority
<1>4. ToSet(result') = {}
  BY <1>1 DEF ToSet
<1>5. PICK d \in Nat, z \in Nat : d = Depth(AbsBook, Meets(o, AbsBook)) /\ z = o.qty
  BY <1>0, <1>3, DepthFacts, MeetsIn
<1>6. Abstract!TotalQty(Abstract!Candidates(o)) = d
  BY <1>3, <1>5, MeetsIn, TotalQtyIsDepth, AbstractCandidates
<1>7. CASE d < z
  <2>1. Abstract!Killed(o)
    BY <1>1, <1>5, <1>6, <1>7 DEF Abstract!Killed
  <2> QED
    BY <1>1, <1>2, <1>4, <2>1 DEF Abstract!Submit, Abstract!Kill
<1>8. CASE ~ (d < z)
  <2>1. ~ Abstract!Killed(o)
    BY <1>1, <1>5, <1>6, <1>8 DEF Abstract!Killed
  <2>2. Cover(o) = d
    BY <1>0, <1>1, <1>2, <1>5, ReachableMeets
  <2>3. Reachable(o.side, o.price) = {}
    <3>1. Cover(o) >= o.qty
      BY <1>5, <1>8, <2>2
    <3> QED
      BY <1>0, <1>1, <3>1, PreflightDepth
  <2>4. Meets(o, AbsBook) = {}
    BY <1>0, <1>1, <1>2, <2>3, ReachableMeets
  <2>5. Abstract!Served(o) = {}
    BY <2>4, AbstractCandidates DEF Abstract!Served
  <2>6. Abstract!Match(o)
    <3>1. Abstract!Cardinality({}) = 0
      <4>1. \A S : Abstract!Cardinality(S) = Cardinality(S)
        BY DEF Abstract!Cardinality, Cardinality
      <4> QED
        BY <4>1, FS_EmptySet
    <3>2. next_trade_id' = next_trade_id + 0
      BY <1>1 DEF TypeOK
    <3> QED
      BY <1>1, <1>2, <1>4, <2>1, <2>5, <3>1, <3>2 DEF Abstract!Match
  <2> QED
    BY <1>1, <1>2, <1>4, <2>6 DEF Abstract!Submit
<1> QED
  BY <1>5, <1>7, <1>8

\* The fills f of order c, numbered from k.
Numbered(f, k, c) ==
    [i \in 1 .. Len(f) |->
        [trade_id |-> k + i - 1, taker |-> c, maker |-> f[i].maker,
         price |-> f[i].price, qty |-> f[i].qty]]

\* The trades that the orders in S are due, numbered from k.
TradesDue(o, B, S, k) ==
    {[trade_id |-> k + Cardinality(InFront(o, B, m)), taker |-> o.rank, maker |-> m.rank,
      price |-> m.price, qty |-> Due(o, B, m)] : m \in S}

\* What a returning call has numbered are the trades that were due.
LEMMA ReturnedTrades ==
    ASSUME NEW B, IsBook(B), NEW o, NEW f \in Seq(Fills), FillsDue(o, B, f), NEW k \in Nat
    PROVE  ToSet(Numbered(f, k, o.rank)) = TradesDue(o, B, Met(o, B, f), k)
<1> DEFINE c == o.rank
           trade(i) == [trade_id |-> k + i - 1, taker |-> c, maker |-> f[i].maker,
                        price |-> f[i].price, qty |-> f[i].qty]
           due(m) == [trade_id |-> k + Cardinality(InFront(o, B, m)), taker |-> c,
                      maker |-> m.rank, price |-> m.price, qty |-> Due(o, B, m)]
<1>1. PICK n \in Nat : n = Len(f) /\ DOMAIN f = 1 .. n
  BY AppendedFill
<1>2. ASSUME NEW i \in 1 .. n, NEW m \in Meets(o, B),
             f[i] = [maker |-> m.rank, price |-> m.price, qty |-> Due(o, B, m)],
             Cardinality(InFront(o, B, m)) = i - 1
      PROVE  trade(i) = due(m)
  <2>1. k + i - 1 = k + Cardinality(InFront(o, B, m))
    BY <1>2
  <2>2. f[i].maker = m.rank /\ f[i].price = m.price /\ f[i].qty = Due(o, B, m)
    BY <1>2
  <2> QED
    BY <2>1, <2>2
<1>3. \A i \in 1 .. n : \E m \in Met(o, B, f) : trade(i) = due(m)
  <2> SUFFICES ASSUME NEW i \in 1 .. n
               PROVE  \E m \in Met(o, B, f) : trade(i) = due(m)
    OBVIOUS
  <2>1. PICK m \in Meets(o, B) :
            /\ f[i] = [maker |-> m.rank, price |-> m.price, qty |-> Due(o, B, m)]
            /\ Cardinality(InFront(o, B, m)) = i - 1
    BY <1>1 DEF FillsDue
  <2>2. m \in Met(o, B, f)
    BY <1>1, <2>1 DEF Met
  <2> QED
    BY <1>2, <2>1, <2>2
<1>4. \A m \in Met(o, B, f) : \E i \in 1 .. n : trade(i) = due(m)
  <2> SUFFICES ASSUME NEW m \in Met(o, B, f)
               PROVE  \E i \in 1 .. n : trade(i) = due(m)
    OBVIOUS
  <2>1. PICK i \in 1 .. n :
            /\ f[i] = [maker |-> m.rank, price |-> m.price, qty |-> Due(o, B, m)]
            /\ Cardinality(InFront(o, B, m)) = i - 1
    BY <1>1, FillOf
  <2>2. m \in Meets(o, B)
    BY DEF Met
  <2> QED
    BY <1>2, <2>1, <2>2
<1>5. ToSet([i \in 1 .. n |-> trade(i)]) = {trade(i) : i \in 1 .. n}
  BY DEF ToSet
<1> HIDE DEF trade, due
<1>6. {trade(i) : i \in 1 .. n} = {due(m) : m \in Met(o, B, f)}
  BY <1>3, <1>4
<1>7. ToSet([i \in 1 .. n |-> trade(i)]) = {due(m) : m \in Met(o, B, f)}
  BY <1>5, <1>6
<1> QED
  BY <1>1, <1>7 DEF trade, due, Numbered, TradesDue

\* What rests when the call has returned.
LEMMA ReturnedBook ==
    ASSUME TypeOK, TypeOK', DeepByAge, DeepByAge', ReturnFills
    PROVE  RestingOrders' =
               RestingOrders
               \cup (IF taker.kind = "Gtc" /\ remaining > 0
                     THEN {[rank |-> taker.rank, id |-> taker.id, side |-> taker.side,
                            price |-> taker.price, qty |-> remaining]}
                     ELSE {})
<1>0. /\ BookTypeOK /\ BookTypeOK' /\ taker \in OrderTypes /\ remaining \in Nat
  BY TypeParts DEF TypeOK, BookTypeOK, ReturnFills
<1>1. CASE remaining > 0 /\ taker.kind = "Gtc"
  <2>1. Rest(taker, remaining)
    BY <1>1 DEF ReturnFills, Rests
  <2>2. PICK x : x = [rank |-> taker.rank, id |-> taker.id, qty |-> remaining]
    OBVIOUS
  <2>3. Joins(taker.side, taker.price, x)
    BY <1>0, <2>1, <2>2, RestMoves
  <2>4. RestingOrders' =
            RestingOrders \cup
                {[rank |-> x.rank, id |-> x.id, side |-> taker.side, price |-> taker.price,
                  qty |-> x.qty]}
    BY <1>0, <2>3, JoinsResting
  <2>5. x.rank = taker.rank /\ x.id = taker.id /\ x.qty = remaining
    BY <2>2
  <2> QED
    BY <1>1, <2>4, <2>5
<1>2. CASE ~ (remaining > 0 /\ taker.kind = "Gtc")
  <2>1. queue' = queue
    BY <1>2 DEF ReturnFills, Rests
  <2> QED
    BY <1>2, <2>1, SameResting
<1> QED
  BY <1>1, <1>2

\* A call returns with what the abstract book answers in one step.
LEMMA ReturnAbstract ==
    ASSUME TypeOK, TypeOK', DeepByAge, DeepByAge', LevelsExact, Underway, Returned
    PROVE  Abstract!Submit(taker)
<1>0. /\ pc = "sweep" /\ pc' = "idle" /\ SweepDone /\ ReturnFills
      /\ answered' = taker /\ arrived' = arrived
      /\ result' = [i \in 1 .. Len(fills) |->
                       [trade_id |-> next_trade_id + i - 1, taker |-> taker.rank,
                        maker |-> fills[i].maker, price |-> fills[i].price,
                        qty |-> fills[i].qty]]
      /\ next_trade_id' = next_trade_id + Len(fills)
  BY DEF Returned, ReturnFills, historyVars
<1>1. /\ taker \in OrderTypes /\ taker.qty \in Nat /\ remaining \in Nat
      /\ fills \in Seq(Fills) /\ next_trade_id \in Nat
  BY <1>0, MaxQtyAssumption DEF TypeOK, OrderTypes
<1>2. PICK B : B = AbsBook
  OBVIOUS
<1>3. B = before
  BY <1>0, <1>2 DEF AbsBook
<1>4. PICK o : o = taker
  OBVIOUS
<1>5. /\ IsBook(B) /\ DeepEnough(o, B) /\ o \in OrdersWithRank(arrived) /\ o.qty \in Nat
      /\ Progress(o, B, fills, remaining, RestingOrders)
  BY <1>0, <1>1, <1>3, <1>4 DEF Underway
<1>6. PICK S : S = Met(o, B, fills)
  OBVIOUS
<1>7. /\ FillsDue(o, B, fills) /\ Cardinality(S) = Len(fills) /\ Wants(o, B, S, remaining)
      /\ RestingOrders = (B \ S) \cup Rump(o, B, S)
  BY <1>5, <1>6 DEF Progress, InTurn
<1>8. remaining > 0 => Meets(o, RestingOrders) = {}
  BY <1>0, <1>4, NobodyLeft
<1>9. S = Abstract!Served(o) /\ S \subseteq B
  <2>1. S = {m \in Meets(o, B) : Due(o, B, m) > 0}
    BY <1>1, <1>5, <1>6, <1>8, AllServed
  <2> QED
    BY <1>2, <1>5, <2>1, AbstractServed
<1>10. \A m \in S : Abstract!Share(o, m) = Due(o, B, m)
  BY <1>2, <1>5, <1>9, AbstractShare
<1>11. ~ Abstract!Killed(o)
  <2>1. Abstract!TotalQty(Abstract!Candidates(o)) = Depth(B, Meets(o, B))
    BY <1>2, <1>5, MeetsIn, TotalQtyIsDepth, AbstractCandidates
  <2>2. PICK d \in Nat, z \in Nat : d = Depth(B, Meets(o, B)) /\ z = o.qty
    BY <1>5, DepthFacts, MeetsIn
  <2>3. o.kind = "Fok" => ~ (d < z)
    BY <1>5, <2>2 DEF DeepEnough
  <2> QED
    BY <2>1, <2>2, <2>3 DEF Abstract!Killed
<1>12. Abstract!Leftover(o) = remaining
  <2>1. Abstract!Leftover(o) = o.qty - SumOver(DueIn(o, B), S)
    BY <1>2, <1>5, <1>9, AbstractLeftover
  <2>2. SumOver(DueIn(o, B), S) = o.qty - remaining
    BY <1>7 DEF Wants
  <2> QED
    BY <1>1, <1>5, <2>1, <2>2
<1>13. ToSet(result') =
           {[trade_id |-> next_trade_id + Abstract!Cardinality(Abstract!Ahead(o, m)),
             taker |-> o.rank, maker |-> m.rank, price |-> m.price,
             qty |-> Abstract!Share(o, m)] : m \in Abstract!Served(o)}
  <2>1. ToSet(result') =
           {[trade_id |-> next_trade_id + Cardinality(InFront(o, B, m)), taker |-> o.rank,
             maker |-> m.rank, price |-> m.price, qty |-> Due(o, B, m)] : m \in S}
    <3>1. result' = Numbered(fills, next_trade_id, o.rank)
      BY <1>0, <1>4 DEF Numbered
    <3>2. ToSet(Numbered(fills, next_trade_id, o.rank)) = TradesDue(o, B, S, next_trade_id)
      BY <1>1, <1>5, <1>6, <1>7, ReturnedTrades
    <3> QED
      BY <3>1, <3>2 DEF TradesDue
  <2>2. \A m : Abstract!Cardinality(Abstract!Ahead(o, m)) = Cardinality(InFront(o, B, m))
    <3>1. \A T : Abstract!Cardinality(T) = Cardinality(T)
      BY DEF Abstract!Cardinality, Cardinality
    <3> QED
      BY <1>2, <3>1, AbstractAhead
  <2> QED
    BY <1>9, <1>10, <2>1, <2>2
<1>14. next_trade_id' = next_trade_id + Abstract!Cardinality(Abstract!Served(o))
  <2>1. \A T : Abstract!Cardinality(T) = Cardinality(T)
    BY DEF Abstract!Cardinality, Cardinality
  <2> QED
    BY <1>0, <1>7, <1>9, <2>1
<1>15. Rump(o, B, S) =
           {[m EXCEPT !.qty = @ - Abstract!Share(o, m)] :
               m \in {n \in Abstract!Served(o) : Abstract!Share(o, n) < n.qty}}
  BY <1>9, <1>10 DEF Rump
<1>16. RestingOrders' =
           (AbsBook \ Abstract!Served(o))
           \cup {[m EXCEPT !.qty = @ - Abstract!Share(o, m)] :
                    m \in {n \in Abstract!Served(o) : Abstract!Share(o, n) < n.qty}}
           \cup (IF o.kind = "Gtc" /\ Abstract!Leftover(o) > 0
                 THEN {[rank |-> o.rank, id |-> o.id, side |-> o.side,
                        price |-> o.price, qty |-> Abstract!Leftover(o)]}
                 ELSE {})
  BY <1>0, <1>2, <1>4, <1>7, <1>9, <1>12, <1>15, ReturnedBook
<1>17. AbsBook' = RestingOrders'
  BY <1>0 DEF AbsBook
<1>18. Abstract!Match(o)
  BY <1>11, <1>13, <1>14, <1>16, <1>17 DEF Abstract!Match, AbsBook
<1>19. o.rank = arrived
  BY <1>5 DEF OrdersWithRank
<1> QED
  BY <1>0, <1>4, <1>18, <1>19 DEF Abstract!Submit

-----------------------------------------------------------------------------
(***************************************************************************)
(* The refinement.                                                         *)
(***************************************************************************)

\* What holds of every reachable state, when no id of a resting order is
\* reused.
CallInv ==
    /\ BookInv /\ Seniority /\ Conserved /\ DrainsBest /\ IdInv /\ DepthInv
    /\ Underway

LEMMA CallInit == RefInit => CallInv
<1> SUFFICES ASSUME RefInit
             PROVE  CallInv
  OBVIOUS
<1>1. Init /\ pc = "idle"
  BY DEF RefInit, Init
<1>2. DrainsBest /\ Underway
  BY <1>1 DEF DrainsBest, Underway
<1> QED
  BY <1>1, <1>2, BookInit, SeniorityInit, ConservedInit, IdInit, DepthInit DEF CallInv

\* The history variables record and do not restrict.
LEMMA StepOfBook == [RefNext]_refVars => [Next]_vars
BY DEF RefNext, Called, Refused, InternalStep, Returned, BetweenCalls, refVars, Next, MatchStep

LEMMA CallInvStep ==
    ASSUME ReuseIds = FALSE, CallInv, [RefNext]_refVars
    PROVE  CallInv'
<1>1. [Next]_vars
  BY StepOfBook
<1>2. TypeOK /\ TypeOK' /\ BookInv' /\ Seniority' /\ IdInv' /\ DrainsBest'
  BY <1>1, TypeStep, BookStep, SeniorTypes, IdStep, DrainsBestStep DEF CallInv, BookInv
<1>3. Conserved' /\ DepthInv'
  BY <1>1, <1>2, ConservedStep, DepthStep DEF CallInv
<1>4. Underway'
  BY <1>2, UnderwayStep DEF CallInv, BookInv, Conserved, IdInv, DepthInv
<1> QED
  BY <1>2, <1>3, <1>4 DEF CallInv

LEMMA StepAbstract ==
    ASSUME CallInv, CallInv', [RefNext]_refVars
    PROVE  [Abstract!AbsNext]_Abstract!absVars
<1>0. /\ TypeOK /\ TypeOK' /\ LevelsExact /\ KeysFinite /\ Seniority /\ DeepByAge /\ DeepByAge'
      /\ RestingConserved /\ IdInv /\ IdInv' /\ Underway /\ arrived \in 0 .. MaxOrders
  BY DEF CallInv, BookInv, DepthInv, Conserved, IdInv, TypeOK
<1>1. ASSUME NEW o \in NextOrders, Called(o)
      PROVE  UNCHANGED Abstract!absVars
  BY <1>0, <1>1, Stutters
<1>2. ASSUME NEW o \in NextOrders, Refused(o)
      PROVE  Abstract!AbsNext
  <2>1. Abstract!Submit(o)
    BY <1>0, <1>2, RefusedAbstract
  <2>2. pc = "idle" /\ arrived < MaxOrders /\ o \in OrdersWithRank(arrived + 1)
    BY <1>2 DEF Refused, RejectFok, NextOrders
  <2> QED
    BY <2>1, <2>2, AbstractOrders DEF Abstract!AbsNext
<1>3. ASSUME Returned
      PROVE  Abstract!AbsNext
  <2>1. Abstract!Submit(taker)
    BY <1>0, <1>3, ReturnAbstract
  <2>2. pc = "sweep"
    BY <1>3 DEF Returned, ReturnFills
  <2>3. taker \in OrdersWithRank(arrived)
    BY <1>0, <2>2 DEF Underway
  <2>4. arrived - 1 < MaxOrders /\ arrived - 1 + 1 = arrived
    BY <1>0, MaxOrdersAssumption
  <2> QED
    BY <2>1, <2>2, <2>3, <2>4, AbstractOrders DEF Abstract!AbsNext
<1>4. ASSUME BetweenCalls
      PROVE  Abstract!AbsNext \/ UNCHANGED Abstract!absVars
  <2>1. ASSUME NEW id \in Ids, Cancel(id), UNCHANGED <<before, answered>>
        PROVE  Abstract!AbsNext
    BY <1>0, <2>1, CancelAbstract DEF Abstract!AbsNext
  <2>2. ASSUME NEW id \in Ids, CancelUnknown(id), UNCHANGED <<before, answered>>
        PROVE  UNCHANGED Abstract!absVars
    <3>1. UNCHANGED refVars
      BY <2>2 DEF CancelUnknown, refVars
    <3> QED
      BY <1>0, <3>1, Stutters
  <2>3. ASSUME RestoreSnapshot, UNCHANGED <<before, answered>>
        PROVE  UNCHANGED Abstract!absVars
    BY <1>0, <2>3, Stutters
  <2> QED
    BY <1>4, <2>1, <2>2, <2>3 DEF BetweenCalls
<1>5. ASSUME InternalStep \/ UNCHANGED refVars
      PROVE  UNCHANGED Abstract!absVars
  BY <1>0, <1>5, Stutters
<1> QED
  BY <1>1, <1>2, <1>3, <1>4, <1>5 DEF RefNext

\* match_order, cancel and restore implement the atomic price-time book:
\* every call's fills and trade ids and the orders it leaves are the ones
\* that the declarative definition prescribes.
THEOREM BookImplementsPriceTime ==
    ASSUME ReuseIds = FALSE
    PROVE  RefSpec => ImplementsPriceTimeBook
<1>1. RefInit => CallInv /\ Abstract!AbsInit
  BY CallInit, InitAbstract
<1>2. CallInv /\ [RefNext]_refVars => CallInv'
  BY CallInvStep
<1>3. CallInv /\ CallInv' /\ [RefNext]_refVars => [Abstract!AbsNext]_Abstract!absVars
  BY StepAbstract
<1> QED
  BY <1>1, <1>2, <1>3, PTL DEF RefSpec, ImplementsPriceTimeBook, Abstract!AbsSpec
=============================================================================
