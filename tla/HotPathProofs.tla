--------------------------- MODULE HotPathProofs ---------------------------
(***************************************************************************)
(* The path of an order, for a schedule of any length, any number of       *)
(* timeouts and any number of failures: no engine matches an order twice   *)
(* or one the gateway never wrote, an order that went through was matched  *)
(* by both engines, and an undisturbed run gives both the schedule itself. *)
(* Before that, what the conversions on the path do to an order.           *)
(***************************************************************************)
EXTENDS HotPath, FiniteSetTheorems, TLAPS

-----------------------------------------------------------------------------
(***************************************************************************)
(* What the conversions of WireOrders preserve, for every order.           *)
(***************************************************************************)

\* Two numbers written in base w agree only if their digits do.
LEMMA Digits ==
    ASSUME NEW w \in Nat \ {0}, NEW b \in Nat, NEW c \in Nat,
           NEW s \in 0 .. w - 1, NEW t \in 0 .. w - 1, b * w + s = c * w + t
    PROVE  b = c /\ s = t
<1>1. ASSUME NEW x \in Nat, NEW y \in Nat, NEW u \in 0 .. w - 1, NEW v \in 0 .. w - 1,
             x < y, x * w + u = y * w + v
      PROVE  FALSE
  <2>1. PICK d \in Nat : y = x + 1 + d
    <3>1. y - x - 1 \in Nat /\ y = x + 1 + (y - x - 1)
      BY <1>1
    <3> QED
      BY <3>1
  <2>2. y * w = x * w + w + d * w
    BY <2>1
  <2>3. d * w \in Nat /\ x * w \in Nat
    BY <2>1
  <2> QED
    BY <1>1, <2>2, <2>3
<1>2. ~ (b < c) /\ ~ (c < b)
  BY <1>1
<1>3. b = c
  BY <1>2
<1>4. b * w \in Nat
  OBVIOUS
<1> QED
  BY <1>3, <1>4

\* PackClientOrderID and from_be_bytes together are injective: two orders have
\* the same ClientOrderId only if bot and local_seq are the same ("independent
\* bot sequences never collide").
THEOREM IdsDistinct ==
    ASSUME NEW b \in Nat, NEW c \in Nat,
           NEW s \in 0 .. Word - 1, NEW t \in 0 .. Word - 1,
           FromBeBytes(PackClientOrderID(b, s)) = FromBeBytes(PackClientOrderID(c, t))
    PROVE  b = c /\ s = t
<1>1. b * Word + s = c * Word + t
  BY DEF FromBeBytes, PackClientOrderID
<1> QED
  BY <1>1, Digits, WordAssumption

\* No event Compile can make is rejected on its way, and the order the matcher
\* gets is the event: its side, quantity and price, good till cancelled, with
\* the stamp it was given and the id of its bot and slot.
THEOREM ScheduledOrderArrives ==
    ASSUME NEW i \in Nat, NEW ev \in EventsOfSlot(i), NEW stamp, NEW secret
    PROVE  LET n == Normalize(Body(ev), stamp, secret) IN
           /\ ~ Rejects(n)
           /\ WireToOrder(n) =
                 [seq |-> stamp, id |-> ev.botId * Word + i * SlotNs,
                  side |-> IF ev.side = "bid" THEN "Bid" ELSE "Ask",
                  qty |-> ev.qty, kind |-> "Gtc", price |-> ev.price]
<1> DEFINE n == Normalize(Body(ev), stamp, secret)
<1>1. /\ ev.offsetNs = i * SlotNs /\ ev.side \in {"bid", "ask"}
      /\ ev.orderType = "limit" /\ ev.tif = "gtc"
  BY DEF EventsOfSlot
<1>2. /\ n.platform_seq = stamp /\ n.client_order_id = <<ev.botId, i * SlotNs>>
      /\ n.qty = ev.qty /\ n.price = ev.price
      /\ n.side = (IF ev.side = "bid" THEN "SIDE_BID" ELSE "SIDE_ASK")
      /\ n.order_type = "ORDER_TYPE_LIMIT" /\ n.tif = "TIME_IN_FORCE_GTC"
  BY <1>1 DEF Normalize, Body, SideFromString, OrderTypeFromString, TifFromString,
              PackClientOrderID
<1> SUFFICES /\ ~ Rejects(n)
             /\ WireToOrder(n) =
                   [seq |-> stamp, id |-> ev.botId * Word + i * SlotNs,
                    side |-> IF ev.side = "bid" THEN "Bid" ELSE "Ask",
                    qty |-> ev.qty, kind |-> "Gtc", price |-> ev.price]
  OBVIOUS
<1> HIDE DEF n
<1>3. ~ Rejects(n)
  BY <1>1, <1>2 DEF Rejects
<1>4. KindOf(n) = "Gtc"
  BY <1>2 DEF KindOf
<1>5. FromBeBytes(n.client_order_id) = ev.botId * Word + i * SlotNs
  BY <1>2 DEF FromBeBytes
<1> QED
  BY <1>1, <1>2, <1>3, <1>4, <1>5 DEF WireToOrder

-----------------------------------------------------------------------------
(***************************************************************************)
(* The parts of the invariant.                                             *)
(***************************************************************************)

\* The order the matcher gets for event e, and whether engine c has it.
OrderOf(e) == WireToOrder(Normalized(e))
Made(e, c) == \E i \in DOMAIN applied[c] : applied[c][i] = OrderOf(e)

OrderRecord ==
    [seq : 1 .. Length, id : Nat, side : {"Bid", "Ask"}, qty : Nat, kind : {"Gtc"}, price : Nat]

\* Stamper: an event is stamped at most once, with a number of its own.
StampedOnce ==
    /\ \A e \in Events :
           /\ handler[e] \in {"none", "arrived"} => seq[e] = 0
           /\ handler[e] \in {"stamped", "forked", "ok"} => seq[e] # 0
           /\ seq[e] <= stamps
    /\ \A e, f \in Events : seq[e] = seq[f] /\ seq[e] # 0 => e = f
    /\ stamps = Cardinality({e \in Events : seq[e] # 0})

\* Run: an event has no handler before it is posted.
NotPosted ==
    /\ waiting => next \in Events /\ ~ exited
    /\ ~ exited => \A e \in Events : e > next \/ (e = next /\ ~ waiting) => handler[e] = "none"

\* Process: a call is made after OnIn, and its order is on the wire or matched
\* while its outcome is open or good.
CallsMade ==
    \A e \in Events, c \in Engines :
        /\ handler[e] \in {"none", "arrived", "stamped"} => call[e][c] = "none"
        /\ handler[e] = "ok" => call[e][c] = "replied"
        /\ call[e][c] = "none" => <<e, c>> \notin wire
        /\ call[e][c] # "none" => seq[e] # 0 /\ <<e, "in">> \in Offered
        /\ call[e][c] \in {"waiting", "replied"} => <<e, c>> \in wire \/ Made(e, c)
        /\ call[e][c] = "replied" => <<e, c>> \notin wire /\ <<e, c>> \in Offered

\* submit: what is matched was called for and is no longer on the wire.
MatchedOnce ==
    /\ applied \in [Engines -> Seq(OrderRecord)]
    /\ \A c \in Engines : \A i \in DOMAIN applied[c] :
           \E e \in Events :
               applied[c][i] = OrderOf(e) /\ call[e][c] # "none" /\ <<e, c>> \notin wire
    /\ \A c \in Engines : \A i, j \in DOMAIN applied[c] :
           applied[c][i].seq = applied[c][j].seq => i = j

Inv == TypeOK /\ StampedOnce /\ NotPosted /\ CallsMade /\ MatchedOnce

-----------------------------------------------------------------------------
\* The schedule is a finite sequence of compiled events.
LEMMA ScheduleFacts ==
    /\ Length \in Nat
    /\ \A e \in Events : /\ Schedule[e] \in EventsOfSlot(e - 1)
                         /\ Schedule[e].offsetNs = (e - 1) * SlotNs
                         /\ Schedule[e].offsetNs \in 0 .. Word - 1
                         /\ Schedule[e].botId \in 1 .. 8
                         /\ Schedule[e].side \in {"bid", "ask"}
                         /\ Schedule[e].qty \in Nat /\ Schedule[e].price \in Nat
<1>1. Length \in Nat /\ DOMAIN Schedule = Events
  BY ScheduleAssumption DEF Length, Events
<1>2. ASSUME NEW e \in Events
      PROVE  Schedule[e] \in EventsOfSlot(e - 1) /\ Schedule[e].offsetNs < Word
  BY <1>1, ScheduleAssumption DEF IsCompiled
<1>3. ASSUME NEW e \in Events
      PROVE  /\ Schedule[e].offsetNs = (e - 1) * SlotNs
             /\ Schedule[e].botId \in 1 .. 8
             /\ Schedule[e].side \in {"bid", "ask"}
             /\ Schedule[e].qty \in Nat /\ Schedule[e].price \in Nat
  BY <1>2 DEF EventsOfSlot
<1>4. ASSUME NEW e \in Events
      PROVE  Schedule[e].offsetNs \in 0 .. Word - 1
  <2>1. e \in Nat /\ e >= 1
    BY <1>1 DEF Events
  <2>2. (e - 1) * SlotNs \in Nat
    BY <2>1 DEF SlotNs
  <2> QED
    BY <1>2, <1>3, <2>2, WordAssumption
<1> QED
  BY <1>1, <1>2, <1>3, <1>4

\* Packing and unpacking an id gives its parts back.
LEMMA Unpack ==
    ASSUME NEW b \in Nat, NEW s \in 0 .. Word - 1
    PROVE  /\ b * Word + s \in Nat
           /\ BotIdOf(b * Word + s) = b /\ LocalSeqOf(b * Word + s) = s
<1> DEFINE n == b * Word + s
<1>1. b * Word \in Nat /\ n \in Nat
  BY WordAssumption
<1>2. n \div Word \in Nat /\ n % Word \in 0 .. Word - 1 /\ ((n \div Word) * Word) + (n % Word) = n
  BY <1>1, WordAssumption
<1>3. n \div Word = b /\ n % Word = s
  BY <1>2, Digits, WordAssumption
<1> QED
  BY <1>1, <1>3 DEF BotIdOf, LocalSeqOf

\* What the matcher gets for a stamped event.
LEMMA OrderFacts ==
    ASSUME NEW e \in Events, seq[e] \in 1 .. Length
    PROVE  /\ ~ Rejects(Normalized(e)) /\ OrderOf(e) \in OrderRecord
           /\ OrderOf(e).seq = seq[e]
           /\ OrderOf(e).id =
                  FromBeBytes(PackClientOrderID(Schedule[e].botId, Schedule[e].offsetNs))
           /\ IsOrderOf(OrderOf(e), e)
<1> DEFINE ev == Schedule[e]
<1>1. /\ e - 1 \in Nat /\ ev \in EventsOfSlot(e - 1) /\ ev.offsetNs = (e - 1) * SlotNs
      /\ ev.offsetNs \in 0 .. Word - 1 /\ ev.botId \in Nat
      /\ ev.side \in {"bid", "ask"} /\ ev.qty \in Nat /\ ev.price \in Nat
  BY ScheduleFacts DEF Events
<1> HIDE DEF ev
<1>2. /\ ~ Rejects(Normalize(Body(ev), seq[e], RunSecret))
      /\ WireToOrder(Normalize(Body(ev), seq[e], RunSecret)) =
             [seq |-> seq[e], id |-> ev.botId * Word + (e - 1) * SlotNs,
              side |-> IF ev.side = "bid" THEN "Bid" ELSE "Ask",
              qty |-> ev.qty, kind |-> "Gtc", price |-> ev.price]
  BY <1>1, ScheduledOrderArrives
<1>3. /\ ~ Rejects(Normalized(e))
      /\ OrderOf(e) =
             [seq |-> seq[e], id |-> ev.botId * Word + ev.offsetNs,
              side |-> IF ev.side = "bid" THEN "Bid" ELSE "Ask",
              qty |-> ev.qty, kind |-> "Gtc", price |-> ev.price]
  BY <1>1, <1>2 DEF Normalized, OrderOf, ev
<1>4. /\ ev.botId * Word + ev.offsetNs \in Nat
      /\ BotIdOf(ev.botId * Word + ev.offsetNs) = ev.botId
      /\ LocalSeqOf(ev.botId * Word + ev.offsetNs) = ev.offsetNs
  BY <1>1, Unpack
<1> DEFINE id == ev.botId * Word + ev.offsetNs
<1>5. id = FromBeBytes(PackClientOrderID(ev.botId, ev.offsetNs))
  BY DEF FromBeBytes, PackClientOrderID
<1> HIDE DEF id
<1>6. OrderOf(e) \in OrderRecord
  BY <1>1, <1>3, <1>4 DEF OrderRecord, id
<1>7. IsOrderOf(OrderOf(e), e)
  BY <1>1, <1>3, <1>4 DEF IsOrderOf, ev, id
<1> QED
  BY <1>3, <1>5, <1>6, <1>7 DEF id, ev

\* Two events have different ids.
LEMMA IdsOfEvents ==
    ASSUME NEW e \in Events, NEW f \in Events,
           FromBeBytes(PackClientOrderID(Schedule[e].botId, Schedule[e].offsetNs))
               = FromBeBytes(PackClientOrderID(Schedule[f].botId, Schedule[f].offsetNs))
    PROVE  e = f
<1>1. Schedule[e].offsetNs = Schedule[f].offsetNs
  <2>1. PICK a, b, s, t : /\ a = Schedule[e].botId /\ s = Schedule[e].offsetNs
                          /\ b = Schedule[f].botId /\ t = Schedule[f].offsetNs
    OBVIOUS
  <2>2. a \in Nat /\ b \in Nat /\ s \in 0 .. Word - 1 /\ t \in 0 .. Word - 1
    BY <2>1, ScheduleFacts
  <2>3. FromBeBytes(PackClientOrderID(a, s)) = FromBeBytes(PackClientOrderID(b, t))
    BY <2>1
  <2>4. s = t
    BY <2>2, <2>3, IdsDistinct
  <2> QED
    BY <2>1, <2>4
<1>2. (e - 1) * SlotNs = (f - 1) * SlotNs /\ e \in Int /\ f \in Int
  BY <1>1, ScheduleFacts DEF Events
<1> QED
  BY <1>2 DEF SlotNs

\* An order does not change once its event is stamped.
LEMMA OrderStable == ASSUME NEW e \in Events, seq'[e] = seq[e] PROVE OrderOf(e)' = OrderOf(e)
  BY DEF OrderOf, Normalized

\* What Append does.
LEMMA AppendFacts ==
    ASSUME NEW S, NEW s \in Seq(S), NEW x \in S
    PROVE  /\ Append(s, x) \in Seq(S) /\ Len(s) \in Nat
           /\ DOMAIN s = 1 .. Len(s) /\ DOMAIN Append(s, x) = 1 .. Len(s) + 1
           /\ Len(Append(s, x)) = Len(s) + 1
           /\ \A i \in 1 .. Len(s) : Append(s, x)[i] = s[i]
           /\ Append(s, x)[Len(s) + 1] = x
  OBVIOUS

-----------------------------------------------------------------------------
HandlerState == {"none", "arrived", "stamped", "forked", "ok", "error"}
CallState == {"none", "waiting", "replied", "failed"}

\* TypeOK, without the orders: MatchedOnce says more of them.
Typed ==
    /\ next \in 1 .. Length + 1 /\ waiting \in BOOLEAN /\ exited \in BOOLEAN
    /\ handler \in [Events -> HandlerState]
    /\ cancelled \subseteq Events
    /\ seq \in [Events -> 0 .. Length] /\ stamps \in 0 .. Length
    /\ call \in [Events -> [Engines -> CallState]]
    /\ wire \subseteq Events \X Engines
    /\ alive \in [Engines -> BOOLEAN]
    /\ Offered \subseteq Events \X (Engines \cup {"in"})
    /\ timeouts \in 0 .. MaxTimeouts /\ faults \in 0 .. MaxFaults

LEMMA TypeSplit ==
    /\ TypeOK => Typed
    /\ Typed /\ MatchedOnce => TypeOK
    /\ Typed' /\ MatchedOnce' => TypeOK'
<1>1. TypeOK => Typed
  BY DEF TypeOK, Typed, HandlerState, CallState, logVars, Offered
<1>2. ASSUME MatchedOnce, NEW c \in Engines, NEW o \in ToSet(applied[c])
      PROVE  o.side \in {"Bid", "Ask"} /\ o.seq \in 1 .. Length /\ o.qty \in Nat
  <2>1. applied[c] \in Seq(OrderRecord)
    BY <1>2 DEF MatchedOnce
  <2>2. o \in OrderRecord
    BY <1>2, <2>1 DEF ToSet
  <2> QED
    BY <2>2 DEF OrderRecord
<1>3. Typed /\ MatchedOnce => TypeOK
  BY <1>2 DEF TypeOK, Typed, HandlerState, CallState, logVars, Offered
<1>4. Typed' /\ MatchedOnce' => TypeOK'
  BY <1>3, PTL
<1> QED
  BY <1>1, <1>3, <1>4

LEMMA InvInit == Init => Inv
<1> SUFFICES ASSUME Init
             PROVE  Inv
  OBVIOUS
<1>1. Typed
  <2>1. /\ next \in 1 .. Length + 1 /\ stamps \in 0 .. Length
        /\ timeouts \in 0 .. MaxTimeouts /\ faults \in 0 .. MaxFaults
    BY ScheduleFacts, BoundsAssumption DEF Init
  <2>2. handler \in [Events -> HandlerState] /\ call \in [Events -> [Engines -> CallState]]
    BY DEF Init, HandlerState, CallState
  <2>3. seq \in [Events -> 0 .. Length]
    BY ScheduleFacts DEF Init
  <2> QED
    BY <2>1, <2>2, <2>3 DEF Init, Typed, logVars, Offered
<1>2. StampedOnce
  <2>1. Cardinality({e \in Events : seq[e] # 0}) = 0
    <3>1. {e \in Events : seq[e] # 0} = {}
      BY DEF Init
    <3> QED
      BY <3>1, FS_EmptySet
  <2>2. stamps = 0 /\ \A e \in Events : handler[e] = "none" /\ seq[e] = 0
    BY DEF Init
  <2> QED
    BY <2>1, <2>2 DEF StampedOnce
<1>3. NotPosted /\ CallsMade
  BY DEF Init, NotPosted, CallsMade
<1>4. MatchedOnce
  BY DEF Init, MatchedOnce
<1> QED
  BY <1>1, <1>2, <1>3, <1>4, TypeSplit DEF Inv

\* What a typed state gives of each stamped event.
LEMMA StampFacts ==
    ASSUME Typed, NEW e \in Events, seq[e] # 0
    PROVE  seq[e] \in 1 .. Length
  BY ScheduleFacts DEF Typed

-----------------------------------------------------------------------------
\* A step that stamps, calls, matches and logs nothing: handlers arrive, fail
\* and join.
LEMMA QuietStep ==
    ASSUME Inv, Typed', NotPosted', UNCHANGED <<seq, stamps, call, logVars, wire, applied>>,
           \A e \in Events :
               \/ handler'[e] = handler[e]
               \/ handler[e] = "none" /\ handler'[e] = "arrived"
               \/ handler'[e] = "error"
               \/ /\ handler[e] = "forked" /\ handler'[e] = "ok"
                  /\ \A c \in Engines : call[e][c] = "replied"
    PROVE  Inv'
<1>1. StampedOnce'
  <2>1. /\ \A e \in Events :
               /\ handler'[e] \in {"none", "arrived"} => seq[e] = 0
               /\ handler'[e] \in {"stamped", "forked", "ok"} => seq[e] # 0
               /\ seq[e] <= stamps
    BY DEF Inv, StampedOnce
  <2> QED
    BY <2>1 DEF Inv, StampedOnce
<1>2. \A e \in Events : OrderOf(e)' = OrderOf(e)
  BY OrderStable
<1>3. \A e \in Events, c \in Engines : Made(e, c)' <=> Made(e, c)
  BY <1>2 DEF Made
<1>4. CallsMade'
  <2> SUFFICES ASSUME NEW e \in Events, NEW c \in Engines
               PROVE  /\ handler'[e] \in {"none", "arrived", "stamped"} => call[e][c] = "none"
                      /\ handler'[e] = "ok" => call[e][c] = "replied"
                      /\ call[e][c] = "none" => <<e, c>> \notin wire
                      /\ call[e][c] # "none" => seq[e] # 0 /\ <<e, "in">> \in Offered
                      /\ call[e][c] \in {"waiting", "replied"} => <<e, c>> \in wire \/ Made(e, c)
                      /\ call[e][c] = "replied" => <<e, c>> \notin wire /\ <<e, c>> \in Offered
    BY <1>3 DEF CallsMade, logVars, Offered
  <2> QED
    BY DEF Inv, CallsMade
<1>5. MatchedOnce'
  <2>1. \A c \in Engines : \A i \in DOMAIN applied[c] :
            \E e \in Events :
                applied[c][i] = OrderOf(e) /\ call[e][c] # "none" /\ <<e, c>> \notin wire
    BY DEF Inv, MatchedOnce
  <2> QED
    BY <1>2, <2>1 DEF Inv, MatchedOnce
<1> QED
  BY <1>1, <1>4, <1>5, TypeSplit DEF Inv

\* A handler's step leaves the dispatcher alone.
LEMMA HandlerNotPosted ==
    ASSUME Inv, UNCHANGED dispatchVars,
           \A e \in Events : handler[e] = "none" => handler'[e] = "none"
    PROVE  NotPosted'
  BY DEF Inv, NotPosted, dispatchVars

\* A typed state's Fault stays within its bound.
LEMMA FaultBound == Typed /\ Fault => faults' \in 0 .. MaxFaults
  BY BoundsAssumption DEF Typed, Fault

\* A row is handed to the sink once, whether its write fails or not.
LEMMA WriteOffers ==
    ASSUME Typed, NEW row, Write(row)
    PROVE  /\ Offered' = Offered \cup {row} /\ faults' \in 0 .. MaxFaults
           /\ faults' = faults \/ faults' = faults + 1
  BY FaultBound DEF Write, Fault, Offered, Typed

LEMMA PostStep == Inv /\ Post => Inv'
<1> SUFFICES ASSUME Inv, Post
             PROVE  Inv'
  OBVIOUS
<1>1. Typed /\ handler[next] = "none" /\ next \in Events
  BY TypeSplit DEF Inv, NotPosted, Post
<1>2. Typed'
  BY <1>1 DEF Typed, Post, engineVars, HandlerState, logVars, Offered
<1>3. NotPosted'
  BY <1>1 DEF Inv, NotPosted, Post, Typed
<1>4. \A e \in Events : handler'[e] = handler[e] \/ (handler[e] = "none" /\ handler'[e] = "arrived")
  BY <1>1 DEF Typed, Post
<1> QED
  BY <1>2, <1>3, <1>4, QuietStep DEF Post, engineVars

LEMMA DispatcherStep ==
    Inv /\ (PostFails \/ PostReturns \/ PostTimesOut \/ Complete \/ Terminate) => Inv'
<1> SUFFICES ASSUME Inv, PostFails \/ PostReturns \/ PostTimesOut \/ Complete \/ Terminate
             PROVE  Inv'
  OBVIOUS
<1>0. Typed /\ (waiting => next \in Events)
  BY TypeSplit DEF Inv, NotPosted
<1>1. UNCHANGED <<seq, stamps, call, logVars, wire, applied, alive, handler>>
  BY DEF PostFails, PostReturns, PostTimesOut, Complete, Terminate, gatewayVars, logVars, engineVars
<1>2. next' \in 1 .. Length + 1 /\ waiting' = FALSE /\ exited' \in BOOLEAN
  <2>1. CASE PostFails \/ PostReturns \/ PostTimesOut
    BY <1>0, <2>1, ScheduleFacts DEF PostFails, PostReturns, PostTimesOut, Typed, Events
  <2>2. CASE Complete \/ Terminate
    BY <1>0, <2>2 DEF Complete, Terminate, Typed
  <2> QED
    BY <2>1, <2>2
<1>3. cancelled' \subseteq Events
  BY <1>0 DEF PostFails, PostReturns, PostTimesOut, Complete, Terminate, Typed
<1>4. timeouts' \in 0 .. MaxTimeouts /\ faults' \in 0 .. MaxFaults
  BY <1>0, FaultBound, BoundsAssumption
  DEF PostFails, PostReturns, PostTimesOut, Complete, Terminate, Typed
<1>5. Typed'
  BY <1>0, <1>1, <1>2, <1>3, <1>4 DEF Typed, logVars, Offered
<1>6. NotPosted'
  <2>1. CASE PostFails \/ PostReturns \/ PostTimesOut
    <3>1. next' = next + 1 /\ (~ exited' => ~ exited) /\ next \in Int
      BY <1>0, <2>1 DEF PostFails, PostReturns, PostTimesOut, Typed
    <3> QED
      BY <1>1, <1>2, <3>1 DEF Inv, NotPosted, Events
  <2>2. CASE Complete \/ Terminate
    BY <1>1, <1>2, <2>2 DEF Complete, Terminate, NotPosted
  <2> QED
    BY <2>1, <2>2
<1> QED
  BY <1>1, <1>5, <1>6, QuietStep

-----------------------------------------------------------------------------
(***************************************************************************)
(* The gateway's handlers.                                                 *)
(***************************************************************************)

\* Stamper.Next: one more event has a number, so there are at most Length.
LEMMA StampStep == ASSUME NEW e \in Events, Inv, Stamp(e) PROVE Inv'
<1> DEFINE S == {f \in Events : seq[f] # 0}
<1>0. Typed /\ handler[e] = "arrived" /\ seq[e] = 0
  BY TypeSplit DEF Inv, StampedOnce, Stamp
<1>1. /\ \A f \in Events : f # e => seq'[f] = seq[f] /\ handler'[f] = handler[f]
      /\ handler' \in [Events -> HandlerState] /\ handler'[e] = "stamped"
      /\ seq'[e] = stamps + 1 /\ stamps' = stamps + 1 /\ stamps \in Nat
  BY <1>0 DEF Stamp, Typed, HandlerState
<1>2. Length \in Nat /\ IsFiniteSet(Events) /\ Cardinality(Events) = Length
  <2>1. Length \in Nat /\ Events = 1 .. Length
    BY ScheduleFacts DEF Events
  <2>2. IsFiniteSet(1 .. Length)
        /\ Cardinality(1 .. Length) = IF 1 > Length THEN 0 ELSE Length - 1 + 1
    BY <2>1, FS_Interval
  <2> QED
    BY <2>1, <2>2
<1>3. S \subseteq Events /\ IsFiniteSet(S) /\ stamps = Cardinality(S) /\ e \notin S
  BY <1>0, <1>2, FS_Subset DEF Inv, StampedOnce
<1>4. (S \cup {e}) \subseteq Events /\ Cardinality(S \cup {e}) = stamps + 1
  BY <1>3, FS_AddElement
<1>5. stamps + 1 <= Length
  BY <1>2, <1>4, FS_Subset
<1>6. {f \in Events : seq'[f] # 0} = S \cup {e}
  BY <1>0, <1>1
<1>7. Typed'
  <2>1. stamps' \in 0 .. Length /\ stamps + 1 \in 0 .. Length
    BY <1>1, <1>2, <1>5
  <2>2. seq' \in [Events -> 0 .. Length]
    BY <1>0, <2>1 DEF Typed, Stamp
  <2> QED
    BY <1>0, <1>1, <2>1, <2>2 DEF Typed, Stamp, dispatchVars, engineVars, logVars, Offered
<1>8. StampedOnce'
  <2>1. \A f \in Events : seq[f] <= stamps /\ seq[f] \in Nat
    BY <1>0 DEF Inv, StampedOnce, Typed
  <2>2. \A f \in Events :
            /\ handler'[f] \in {"none", "arrived"} => seq'[f] = 0
            /\ handler'[f] \in {"stamped", "forked", "ok"} => seq'[f] # 0
            /\ seq'[f] <= stamps'
    BY <1>1, <2>1 DEF Inv, StampedOnce
  <2>3. \A f, g \in Events : seq'[f] = seq'[g] /\ seq'[f] # 0 => f = g
    BY <1>1, <2>1 DEF Inv, StampedOnce
  <2>4. stamps' = Cardinality({f \in Events : seq'[f] # 0})
    BY <1>1, <1>4, <1>6
  <2> QED
    BY <2>2, <2>3, <2>4 DEF StampedOnce
<1>9. NotPosted'
  BY <1>0, <1>1, HandlerNotPosted DEF Stamp
<1>10. UNCHANGED <<call, logVars, wire, applied>>
  BY DEF Stamp, engineVars
<1>11. \A c \in Engines : call[e][c] = "none"
  BY <1>0 DEF Inv, CallsMade
<1>12. \A f \in Events : f # e => OrderOf(f)' = OrderOf(f)
  BY <1>1, OrderStable
<1>13. CallsMade'
  <2> SUFFICES ASSUME NEW f \in Events, NEW c \in Engines
               PROVE  /\ handler'[f] \in {"none", "arrived", "stamped"} => call[f][c] = "none"
                      /\ handler'[f] = "ok" => call[f][c] = "replied"
                      /\ call[f][c] = "none" => <<f, c>> \notin wire
                      /\ call[f][c] # "none" => seq'[f] # 0 /\ <<f, "in">> \in Offered
                      /\ call[f][c] \in {"waiting", "replied"} => <<f, c>> \in wire \/ Made(f, c)'
                      /\ call[f][c] = "replied" => <<f, c>> \notin wire /\ <<f, c>> \in Offered
    BY <1>10 DEF CallsMade, logVars, Offered
  <2>1. CASE f = e
    BY <1>1, <1>11, <2>1 DEF Inv, CallsMade
  <2>2. CASE f # e
    <3>1. Made(f, c) => Made(f, c)'
      BY <1>10, <1>12, <2>2 DEF Made
    <3> QED
      BY <1>1, <2>2, <3>1 DEF Inv, CallsMade
  <2> QED
    BY <2>1, <2>2
<1>14. MatchedOnce'
  <2>1. ASSUME NEW c \in Engines, NEW i \in DOMAIN applied[c]
        PROVE  \E f \in Events :
                   applied[c][i] = OrderOf(f)' /\ call[f][c] # "none" /\ <<f, c>> \notin wire
    <3>1. PICK f \in Events :
              applied[c][i] = OrderOf(f) /\ call[f][c] # "none" /\ <<f, c>> \notin wire
      BY DEF Inv, MatchedOnce
    <3>2. f # e
      BY <1>11, <3>1
    <3> QED
      BY <1>12, <3>1, <3>2
  <2> QED
    BY <1>10, <2>1 DEF Inv, MatchedOnce
<1> QED
  BY <1>7, <1>8, <1>9, <1>13, <1>14, TypeSplit DEF Inv

LEMMA StampFailsStep == ASSUME NEW e \in Events, Inv, StampFails(e) PROVE Inv'
<1>0. Typed
  BY TypeSplit DEF Inv
<1>1. /\ handler' \in [Events -> HandlerState]
      /\ \A f \in Events : handler'[f] = handler[f] \/ handler'[f] = "error"
      /\ handler[e] = "arrived" /\ \A f \in Events : f # e => handler'[f] = handler[f]
  BY <1>0 DEF StampFails, Typed, HandlerState
<1>2. faults' \in 0 .. MaxFaults
  BY <1>0, FaultBound DEF StampFails, Typed
<1>3. Typed'
  BY <1>0, <1>1, <1>2 DEF StampFails, Typed, dispatchVars, engineVars, logVars, Offered
<1>4. NotPosted'
  BY <1>1, HandlerNotPosted DEF StampFails
<1> QED
  BY <1>1, <1>3, <1>4, QuietStep DEF StampFails, engineVars

LEMMA JoinStep == ASSUME NEW e \in Events, Inv, Join(e) PROVE Inv'
<1>0. Typed
  BY TypeSplit DEF Inv
<1>1. /\ handler' \in [Events -> HandlerState] /\ handler[e] = "forked"
      /\ handler'[e] \in {"ok", "error"}
      /\ handler'[e] = "ok" => \A c \in Engines : call[e][c] = "replied"
      /\ \A f \in Events : f # e => handler'[f] = handler[f]
  BY <1>0 DEF Join, Typed, HandlerState
<1>3. Typed'
  BY <1>0, <1>1 DEF Join, Typed, dispatchVars, engineVars, logVars, Offered
<1>4. NotPosted'
  BY <1>1, HandlerNotPosted DEF Join
<1> QED
  BY <1>1, <1>3, <1>4, QuietStep DEF Join, engineVars

\* Process: OnIn, then the calls.  No order of an event that was not called
\* for is matched yet.
LEMMA ForkStep == ASSUME NEW e \in Events, Inv, Fork(e) PROVE Inv'
<1>0. Typed /\ handler[e] = "stamped" /\ seq[e] # 0 /\ \A c \in Engines : call[e][c] = "none"
  BY TypeSplit DEF Inv, StampedOnce, CallsMade, Fork
<1>1. /\ handler' \in [Events -> HandlerState] /\ handler'[e] = "forked"
      /\ \A f \in Events : f # e => handler'[f] = handler[f]
  BY <1>0 DEF Typed, Fork, HandlerState
<1>2. /\ call' \in [Events -> [Engines -> CallState]]
      /\ \A c \in Engines : call'[e][c] = "waiting"
      /\ \A f \in Events : f # e => call'[f] = call[f]
  <2>1. [c \in Engines |-> "waiting"] \in [Engines -> CallState]
    BY DEF CallState
  <2> QED
    BY <1>0, <2>1 DEF Typed, Fork
<1>3. /\ Offered' = Offered \cup {<<e, "in">>}
      /\ wire' = wire \cup {<<e, c>> : c \in Engines}
      /\ UNCHANGED <<dispatchVars, seq, stamps, applied, alive, cancelled, timeouts>>
      /\ faults' \in 0 .. MaxFaults
  BY <1>0, WriteOffers, FaultBound DEF Fork, Typed
<1>4. \A f \in Events, c \in Engines : <<f, c>> \in wire' <=> (f = e \/ <<f, c>> \in wire)
  BY <1>3
<1>5. Typed'
  <2>1. wire' \subseteq Events \X Engines /\ Offered' \subseteq Events \X (Engines \cup {"in"})
    BY <1>0, <1>3 DEF Typed
  <2> QED
    BY <1>0, <1>1, <1>2, <1>3, <2>1 DEF Typed, dispatchVars
<1>6. StampedOnce'
  BY <1>0, <1>1, <1>3 DEF Inv, StampedOnce
<1>7. NotPosted'
  BY <1>0, <1>1, <1>3, HandlerNotPosted
<1>8. \A f \in Events : OrderOf(f)' = OrderOf(f)
  BY <1>3, OrderStable
<1>9. CallsMade'
  <2> SUFFICES ASSUME NEW f \in Events, NEW c \in Engines
               PROVE  /\ handler'[f] \in {"none", "arrived", "stamped"} => call'[f][c] = "none"
                      /\ handler'[f] = "ok" => call'[f][c] = "replied"
                      /\ call'[f][c] = "none" => <<f, c>> \notin wire'
                      /\ call'[f][c] # "none" => seq'[f] # 0 /\ <<f, "in">> \in Offered'
                      /\ call'[f][c] \in {"waiting", "replied"} => <<f, c>> \in wire' \/ Made(f, c)'
                      /\ call'[f][c] = "replied" => <<f, c>> \notin wire' /\ <<f, c>> \in Offered'
    BY DEF CallsMade
  <2>1. CASE f = e
    BY <1>0, <1>1, <1>2, <1>3, <1>4, <2>1
  <2>2. CASE f # e
    <3>1. Made(f, c) => Made(f, c)'
      BY <1>3, <1>8 DEF Made
    <3> QED
      BY <1>1, <1>2, <1>3, <1>4, <2>2, <3>1 DEF Inv, CallsMade
  <2> QED
    BY <2>1, <2>2
<1>10. MatchedOnce'
  <2>1. ASSUME NEW c \in Engines, NEW i \in DOMAIN applied[c]
        PROVE  \E f \in Events :
                   applied[c][i] = OrderOf(f)' /\ call'[f][c] # "none" /\ <<f, c>> \notin wire'
    <3>1. PICK f \in Events :
              applied[c][i] = OrderOf(f) /\ call[f][c] # "none" /\ <<f, c>> \notin wire
      BY DEF Inv, MatchedOnce
    <3>2. f # e
      BY <1>0, <3>1
    <3> QED
      BY <1>2, <1>4, <1>8, <3>1, <3>2
  <2> QED
    BY <1>3, <2>1 DEF Inv, MatchedOnce
<1> QED
  BY <1>5, <1>6, <1>7, <1>9, <1>10, TypeSplit DEF Inv

\* A call of event e to engine c gets its outcome.
LEMMA CallEnds ==
    ASSUME Inv, NEW e \in Events, NEW c \in Engines, NEW outcome \in {"replied", "failed"},
           call[e][c] = "waiting",
           call' = [call EXCEPT ![e][c] = outcome],
           outcome = "replied" => <<e, c>> \notin wire /\ Offered' = Offered \cup {<<e, c>>},
           outcome = "failed" => Offered' = Offered,
           faults' \in 0 .. MaxFaults,
           UNCHANGED <<dispatchVars, handler, seq, stamps, engineVars, cancelled, timeouts>>
    PROVE  Inv'
<1>0. Typed /\ UNCHANGED <<wire, applied, alive, next, waiting, exited>>
  BY TypeSplit DEF Inv, engineVars, dispatchVars
<1>1. /\ call' \in [Events -> [Engines -> CallState]] /\ call'[e][c] = outcome
      /\ \A f \in Events, d \in Engines : f # e \/ d # c => call'[f][d] = call[f][d]
  BY <1>0 DEF Typed, CallState
<1>2. Offered \subseteq Offered' /\ Offered' \subseteq Events \X (Engines \cup {"in"})
  BY <1>0 DEF Typed
<1>3. Typed'
  BY <1>0, <1>1, <1>2 DEF Typed
<1>4. StampedOnce' /\ NotPosted'
  BY <1>0 DEF Inv, StampedOnce, NotPosted
<1>5. \A f \in Events : OrderOf(f)' = OrderOf(f)
  BY OrderStable
<1>6. CallsMade'
  <2> SUFFICES ASSUME NEW f \in Events, NEW d \in Engines
               PROVE  /\ handler[f] \in {"none", "arrived", "stamped"} => call'[f][d] = "none"
                      /\ handler[f] = "ok" => call'[f][d] = "replied"
                      /\ call'[f][d] = "none" => <<f, d>> \notin wire
                      /\ call'[f][d] # "none" => seq[f] # 0 /\ <<f, "in">> \in Offered'
                      /\ call'[f][d] \in {"waiting", "replied"} => <<f, d>> \in wire \/ Made(f, d)'
                      /\ call'[f][d] = "replied" => <<f, d>> \notin wire /\ <<f, d>> \in Offered'
    BY <1>0 DEF CallsMade
  <2>0. Made(f, d) => Made(f, d)'
    BY <1>0, <1>5 DEF Made
  <2>1. CASE f = e /\ d = c
    <3>1. /\ handler[e] \notin {"none", "arrived", "stamped", "ok"}
          /\ seq[e] # 0 /\ <<e, "in">> \in Offered
          /\ <<e, c>> \in wire \/ Made(e, c)
      BY DEF Inv, CallsMade
    <3> QED
      BY <1>1, <1>2, <2>0, <2>1, <3>1
  <2>2. CASE f # e \/ d # c
    BY <1>1, <1>2, <2>0, <2>2 DEF Inv, CallsMade
  <2> QED
    BY <2>1, <2>2
<1>7. MatchedOnce'
  <2>1. ASSUME NEW d \in Engines, NEW i \in DOMAIN applied[d]
        PROVE  \E f \in Events :
                   applied[d][i] = OrderOf(f)' /\ call'[f][d] # "none" /\ <<f, d>> \notin wire
    <3>1. PICK f \in Events :
              applied[d][i] = OrderOf(f) /\ call[f][d] # "none" /\ <<f, d>> \notin wire
      BY DEF Inv, MatchedOnce
    <3>2. call'[f][d] # "none"
      BY <1>1, <3>1
    <3> QED
      BY <1>5, <3>1, <3>2
  <2> QED
    BY <1>0, <2>1 DEF Inv, MatchedOnce
<1> QED
  BY <1>3, <1>4, <1>6, <1>7, TypeSplit DEF Inv

LEMMA CallReturnsStep ==
    ASSUME NEW e \in Events, NEW c \in Engines, Inv, CallReturns(e, c) PROVE Inv'
<1>1. /\ Offered' = Offered \cup {<<e, c>>} /\ faults' \in 0 .. MaxFaults
  BY TypeSplit, WriteOffers DEF Inv, Typed, CallReturns
<1> QED
  BY <1>1, CallEnds DEF CallReturns

LEMMA CallFailsStep ==
    ASSUME NEW e \in Events, NEW c \in Engines, Inv, CallFails(e, c) PROVE Inv'
<1>1. faults' \in 0 .. MaxFaults /\ Offered' = Offered
  BY TypeSplit, FaultBound DEF Inv, Typed, CallFails, logVars, Offered
<1> QED
  BY <1>1, CallEnds DEF CallFails

-----------------------------------------------------------------------------
(***************************************************************************)
(* The engines.                                                            *)
(***************************************************************************)

\* What Deliver does: the order of e is matched last.
LEMMA DeliverFacts ==
    ASSUME Inv, NEW e \in Events, NEW c \in Engines, Deliver(e, c)
    PROVE  \E n \in Nat :
               /\ n = Len(applied[c]) /\ Len(applied'[c]) = n + 1
               /\ applied' \in [Engines -> Seq(OrderRecord)]
               /\ \A d \in Engines : d # c => applied'[d] = applied[d]
               /\ DOMAIN applied[c] = 1 .. n /\ DOMAIN applied'[c] = 1 .. n + 1
               /\ \A i \in 1 .. n : applied'[c][i] = applied[c][i]
               /\ applied'[c][n + 1] = OrderOf(e)
               /\ seq[e] \in 1 .. Length /\ OrderOf(e).seq = seq[e]
               /\ call[e][c] # "none" /\ <<e, c>> \in wire
               /\ \A f \in Events, d \in Engines :
                      <<f, d>> \in wire' <=> <<f, d>> \in wire /\ ~ (f = e /\ d = c)
               /\ \A f \in Events : OrderOf(f)' = OrderOf(f)
<1>1. <<e, c>> \in wire /\ call[e][c] # "none" /\ seq[e] # 0 /\ Typed
  BY TypeSplit DEF Deliver, Inv, CallsMade
<1>2. seq[e] \in 1 .. Length
  BY <1>1, StampFacts
<1>3. ~ Rejects(Normalized(e)) /\ OrderOf(e) \in OrderRecord /\ OrderOf(e).seq = seq[e]
  BY <1>2, OrderFacts
<1>4. applied \in [Engines -> Seq(OrderRecord)]
  BY DEF Inv, MatchedOnce
<1>5. applied' = [applied EXCEPT ![c] = Append(applied[c], OrderOf(e))]
  BY <1>3 DEF Deliver, OrderOf
<1>6. applied[c] \in Seq(OrderRecord)
  BY <1>4
<1> DEFINE longer == Append(applied[c], OrderOf(e))
<1>7. /\ longer \in Seq(OrderRecord) /\ Len(applied[c]) \in Nat
      /\ DOMAIN applied[c] = 1 .. Len(applied[c])
      /\ DOMAIN longer = 1 .. Len(applied[c]) + 1
      /\ Len(longer) = Len(applied[c]) + 1
      /\ \A i \in 1 .. Len(applied[c]) : longer[i] = applied[c][i]
      /\ longer[Len(applied[c]) + 1] = OrderOf(e)
  BY <1>3, <1>6, AppendFacts
<1>8. applied' = [applied EXCEPT ![c] = longer]
  BY <1>5
<1> HIDE DEF longer
<1>9. /\ applied' \in [Engines -> Seq(OrderRecord)] /\ applied'[c] = longer
      /\ \A d \in Engines : d # c => applied'[d] = applied[d]
  BY <1>4, <1>7, <1>8
<1>10. \A f \in Events, d \in Engines :
           <<f, d>> \in wire' <=> <<f, d>> \in wire /\ ~ (f = e /\ d = c)
  BY DEF Deliver
<1>11. \A f \in Events : OrderOf(f)' = OrderOf(f)
  BY OrderStable DEF Deliver, gatewayVars, logVars
<1> WITNESS Len(applied[c]) \in Nat
<1> QED
  BY <1>1, <1>2, <1>3, <1>7, <1>9, <1>10, <1>11

\* An order that is on the wire is not matched yet, and its stamp is its own.
LEMMA DeliverStep == ASSUME NEW e \in Events, NEW c \in Engines, Inv, Deliver(e, c) PROVE Inv'
<1>0. Typed /\ UNCHANGED <<handler, seq, stamps, call, logVars, next, waiting, exited, alive,
                           cancelled, timeouts, faults>>
  BY TypeSplit DEF Inv, Deliver, gatewayVars, logVars, dispatchVars
<1>1. PICK n \in Nat :
          /\ n = Len(applied[c]) /\ Len(applied'[c]) = n + 1
          /\ applied' \in [Engines -> Seq(OrderRecord)]
          /\ \A d \in Engines : d # c => applied'[d] = applied[d]
          /\ DOMAIN applied[c] = 1 .. n /\ DOMAIN applied'[c] = 1 .. n + 1
          /\ \A i \in 1 .. n : applied'[c][i] = applied[c][i]
          /\ applied'[c][n + 1] = OrderOf(e)
          /\ seq[e] \in 1 .. Length /\ OrderOf(e).seq = seq[e]
          /\ call[e][c] # "none" /\ <<e, c>> \in wire
          /\ \A f \in Events, d \in Engines :
                 <<f, d>> \in wire' <=> <<f, d>> \in wire /\ ~ (f = e /\ d = c)
          /\ \A f \in Events : OrderOf(f)' = OrderOf(f)
  BY DeliverFacts
<1>2. Typed'
  <2>1. wire' \subseteq Events \X Engines
    BY <1>0 DEF Typed, Deliver
  <2> QED
    BY <1>0, <2>1 DEF Typed, logVars, Offered
<1>3. StampedOnce' /\ NotPosted'
  BY <1>0 DEF Inv, StampedOnce, NotPosted
<1>4. \A f \in Events, d \in Engines : Made(f, d) => Made(f, d)'
  <2>1. ASSUME NEW f \in Events, NEW d \in Engines, NEW i \in DOMAIN applied[d],
               applied[d][i] = OrderOf(f)
        PROVE  i \in DOMAIN applied'[d] /\ applied'[d][i] = OrderOf(f)'
    <3>1. CASE d # c
      BY <1>1, <2>1, <3>1
    <3>2. CASE d = c
      <4>1. i \in 1 .. n /\ i \in 1 .. n + 1
        BY <1>1, <2>1, <3>2
      <4> QED
        BY <1>1, <2>1, <3>2, <4>1
    <3> QED
      BY <3>1, <3>2
  <2> QED
    BY <2>1 DEF Made
<1>5. Made(e, c)'
  <2>1. n + 1 \in DOMAIN applied'[c] /\ applied'[c][n + 1] = OrderOf(e)'
    BY <1>1
  <2> QED
    BY <2>1 DEF Made
<1>6. CallsMade'
  <2> SUFFICES ASSUME NEW f \in Events, NEW d \in Engines
               PROVE  /\ handler[f] \in {"none", "arrived", "stamped"} => call[f][d] = "none"
                      /\ handler[f] = "ok" => call[f][d] = "replied"
                      /\ call[f][d] = "none" => <<f, d>> \notin wire'
                      /\ call[f][d] # "none" => seq[f] # 0 /\ <<f, "in">> \in Offered
                      /\ call[f][d] \in {"waiting", "replied"} => <<f, d>> \in wire' \/ Made(f, d)'
                      /\ call[f][d] = "replied" => <<f, d>> \notin wire' /\ <<f, d>> \in Offered
    BY <1>0 DEF CallsMade, logVars, Offered
  <2> QED
    BY <1>1, <1>4, <1>5 DEF Inv, CallsMade
<1>7. \A i \in 1 .. n :
          /\ applied[c][i].seq # seq[e]
          /\ \E f \in Events :
                 applied[c][i] = OrderOf(f) /\ call[f][c] # "none" /\ <<f, c>> \notin wire /\ f # e
  <2> SUFFICES ASSUME NEW i \in 1 .. n
               PROVE  /\ applied[c][i].seq # seq[e]
                      /\ \E f \in Events :
                             applied[c][i] = OrderOf(f) /\ call[f][c] # "none"
                                 /\ <<f, c>> \notin wire /\ f # e
    OBVIOUS
  <2>1. PICK f \in Events :
            applied[c][i] = OrderOf(f) /\ call[f][c] # "none" /\ <<f, c>> \notin wire
    BY <1>1 DEF Inv, MatchedOnce
  <2>2. f # e
    BY <1>1, <2>1
  <2>3. seq[f] # 0 /\ seq[f] \in 1 .. Length
    BY <1>0, <2>1, StampFacts DEF Inv, CallsMade
  <2>4. OrderOf(f).seq = seq[f]
    BY <2>3, OrderFacts
  <2>5. seq[f] # seq[e]
    BY <2>2, <2>3 DEF Inv, StampedOnce
  <2> QED
    BY <2>1, <2>2, <2>4, <2>5
<1>8. MatchedOnce'
  <2>1. ASSUME NEW d \in Engines, NEW i \in DOMAIN applied'[d]
        PROVE  \E f \in Events :
                   applied'[d][i] = OrderOf(f)' /\ call'[f][d] # "none" /\ <<f, d>> \notin wire'
    <3>1. CASE d # c
      <4>1. i \in DOMAIN applied[d] /\ applied'[d][i] = applied[d][i]
        BY <1>1, <2>1, <3>1
      <4>2. PICK f \in Events :
                applied[d][i] = OrderOf(f) /\ call[f][d] # "none" /\ <<f, d>> \notin wire
        BY <4>1 DEF Inv, MatchedOnce
      <4> QED
        BY <1>0, <1>1, <4>1, <4>2
    <3>2. CASE d = c /\ i = n + 1
      BY <1>0, <1>1, <3>2
    <3>3. CASE d = c /\ i # n + 1
      <4>1. i \in 1 .. n
        BY <1>1, <2>1, <3>3
      <4> QED
        BY <1>0, <1>1, <1>7, <3>3, <4>1
    <3> QED
      BY <3>1, <3>2, <3>3
  <2>2. ASSUME NEW d \in Engines, NEW i \in DOMAIN applied'[d], NEW j \in DOMAIN applied'[d],
               applied'[d][i].seq = applied'[d][j].seq
        PROVE  i = j
    <3>1. CASE d # c
      BY <1>1, <2>2, <3>1 DEF Inv, MatchedOnce
    <3>2. CASE d = c
      <4>1. \A k \in DOMAIN applied'[c] : k = n + 1 \/ k \in 1 .. n
        BY <1>1
      <4>2. \A k \in 1 .. n : applied'[c][k].seq # seq[e]
        BY <1>1, <1>7
      <4>3. \A k, m \in 1 .. n : applied[c][k].seq = applied[c][m].seq => k = m
        BY <1>1 DEF Inv, MatchedOnce
      <4> QED
        BY <1>1, <2>2, <3>2, <4>1, <4>2, <4>3
    <3> QED
      BY <3>1, <3>2
  <2> QED
    BY <1>1, <2>1, <2>2 DEF MatchedOnce
<1> QED
  BY <1>2, <1>3, <1>6, <1>8, TypeSplit DEF Inv

\* What is lost was given up.
LEMMA LoseStep == ASSUME NEW e \in Events, NEW c \in Engines, Inv, Lose(e, c) PROVE Inv'
<1>0. Typed /\ UNCHANGED <<handler, seq, stamps, call, logVars, next, waiting, exited, alive,
                           cancelled, timeouts, faults, applied>>
  BY TypeSplit DEF Inv, Lose, gatewayVars, logVars, dispatchVars
<1>1. /\ wire' \subseteq wire /\ call[e][c] = "failed"
      /\ \A f \in Events, d \in Engines :
             <<f, d>> \in wire /\ ~ (f = e /\ d = c) => <<f, d>> \in wire'
  BY DEF Lose
<1>2. Typed'
  BY <1>0, <1>1 DEF Typed, logVars, Offered
<1>3. StampedOnce' /\ NotPosted'
  BY <1>0 DEF Inv, StampedOnce, NotPosted
<1>4. \A f \in Events : OrderOf(f)' = OrderOf(f)
  BY <1>0, OrderStable
<1>5. \A f \in Events, d \in Engines : Made(f, d) => Made(f, d)'
  BY <1>0, <1>4 DEF Made
<1>6. CallsMade'
  <2> SUFFICES ASSUME NEW f \in Events, NEW d \in Engines
               PROVE  /\ handler[f] \in {"none", "arrived", "stamped"} => call[f][d] = "none"
                      /\ handler[f] = "ok" => call[f][d] = "replied"
                      /\ call[f][d] = "none" => <<f, d>> \notin wire'
                      /\ call[f][d] # "none" => seq[f] # 0 /\ <<f, "in">> \in Offered
                      /\ call[f][d] \in {"waiting", "replied"} => <<f, d>> \in wire' \/ Made(f, d)'
                      /\ call[f][d] = "replied" => <<f, d>> \notin wire' /\ <<f, d>> \in Offered
    BY <1>0 DEF CallsMade, logVars, Offered
  <2> QED
    BY <1>1, <1>5 DEF Inv, CallsMade
<1>7. MatchedOnce'
  <2>1. ASSUME NEW d \in Engines, NEW i \in DOMAIN applied[d]
        PROVE  \E f \in Events :
                   applied[d][i] = OrderOf(f)' /\ call[f][d] # "none" /\ <<f, d>> \notin wire'
    BY <1>1, <1>4 DEF Inv, MatchedOnce
  <2> QED
    BY <1>0, <2>1 DEF Inv, MatchedOnce
<1> QED
  BY <1>2, <1>3, <1>6, <1>7, TypeSplit DEF Inv

LEMMA EngineDiesStep == ASSUME NEW c \in Engines, Inv, EngineDies(c) PROVE Inv'
<1>0. Typed
  BY TypeSplit DEF Inv
<1>1. faults' \in 0 .. MaxFaults /\ alive' \in [Engines -> BOOLEAN]
  BY <1>0, FaultBound DEF EngineDies, Typed
<1>2. Typed' /\ NotPosted'
  BY <1>0, <1>1 DEF Typed, Inv, NotPosted, EngineDies, gatewayVars, logVars, dispatchVars, Offered
<1> QED
  BY <1>2, QuietStep DEF EngineDies, gatewayVars, logVars

-----------------------------------------------------------------------------
LEMMA InvStep == Inv /\ [Next]_vars => Inv'
<1> SUFFICES ASSUME Inv, [Next]_vars
             PROVE  Inv'
  OBVIOUS
<1>1. CASE Dispatcher
  BY <1>1, PostStep, DispatcherStep DEF Dispatcher
<1>2. ASSUME NEW e \in Events, Handler(e)
      PROVE  Inv'
  BY <1>2, StampStep, StampFailsStep, ForkStep, JoinStep, CallReturnsStep, CallFailsStep DEF Handler
<1>3. ASSUME NEW c \in Engines, Engine(c)
      PROVE  Inv'
  BY <1>3, EngineDiesStep, DeliverStep, LoseStep DEF Engine
<1>4. CASE UNCHANGED vars
  <2>1. Typed' /\ NotPosted'
    BY <1>4, TypeSplit DEF vars, gatewayVars, logVars, dispatchVars, engineVars, Inv, Typed, NotPosted, Offered
  <2> QED
    BY <1>4, <2>1, QuietStep DEF vars, gatewayVars, logVars, engineVars
<1> QED
  BY <1>1, <1>2, <1>3, <1>4 DEF Next

LEMMA InvAlways == Spec => []Inv
  BY InvInit, InvStep, PTL DEF Spec

\* Every variable keeps its type: the dispatcher does not run past its
\* schedule, and no more stamps are drawn than there are events.
THEOREM HotPathTypeCorrect == Spec => []TypeOK
<1>1. Inv => TypeOK
  BY DEF Inv
<1> QED
  BY <1>1, InvAlways, PTL

\* Fork.Process never repeats a call and writes the order to its sink before
\* it calls, so an engine matches each scheduled order at most once, field by
\* field, and an order whose row is missing in the log is one whose write
\* failed, for any schedule and any number of timeouts, lost calls, crashed
\* engines and failed writes.
THEOREM AppliedOnce == Spec => []AppliedAtMostOnce
<1>1. ASSUME Inv
      PROVE  AppliedAtMostOnce
  <2>0. Typed
    BY <1>1, TypeSplit DEF Inv
  <2>1. ASSUME NEW c \in Engines, NEW i \in DOMAIN applied[c]
        PROVE  \E e \in Events : /\ applied[c][i] = OrderOf(e)
                                 /\ seq[e] \in 1 .. Length /\ <<e, "in">> \in Offered
                                 /\ OrderOf(e).seq = seq[e] /\ IsOrderOf(OrderOf(e), e)
                                 /\ OrderOf(e).id = FromBeBytes(PackClientOrderID(
                                        Schedule[e].botId, Schedule[e].offsetNs))
    <3>1. PICK e \in Events : applied[c][i] = OrderOf(e) /\ call[e][c] # "none"
      BY <1>1 DEF Inv, MatchedOnce
    <3>2. seq[e] \in 1 .. Length /\ <<e, "in">> \in Offered
      BY <1>1, <2>0, <3>1, StampFacts DEF Inv, CallsMade
    <3> QED
      BY <3>1, <3>2, OrderFacts
  <2>2. ASSUME NEW c \in Engines, NEW i \in DOMAIN applied[c], NEW j \in DOMAIN applied[c],
               applied[c][i].id = applied[c][j].id \/ applied[c][i].seq = applied[c][j].seq
        PROVE  i = j
    <3>1. PICK e \in Events : /\ applied[c][i] = OrderOf(e)
                              /\ OrderOf(e).id = FromBeBytes(PackClientOrderID(
                                     Schedule[e].botId, Schedule[e].offsetNs))
      BY <2>1
    <3>2. PICK f \in Events : /\ applied[c][j] = OrderOf(f)
                              /\ OrderOf(f).id = FromBeBytes(PackClientOrderID(
                                     Schedule[f].botId, Schedule[f].offsetNs))
      BY <2>1
    <3>3. applied[c][i].seq = applied[c][j].seq
      <4>1. CASE applied[c][i].id = applied[c][j].id
        <5>1. e = f
          BY <3>1, <3>2, <4>1, IdsOfEvents
        <5> QED
          BY <3>1, <3>2, <5>1
      <4> QED
        BY <2>2, <4>1
    <3> QED
      BY <1>1, <3>3 DEF Inv, MatchedOnce
  <2>3. ASSUME NEW c \in Engines, NEW o \in ToSet(applied[c])
        PROVE  \E e \in Events : IsOrderOf(o, e) /\ seq[e] > 0 /\ <<e, "in">> \in Offered
    <3>1. PICK i \in DOMAIN applied[c] : o = applied[c][i]
      BY <2>3 DEF ToSet
    <3>2. PICK e \in Events : /\ applied[c][i] = OrderOf(e)
                              /\ seq[e] \in 1 .. Length /\ <<e, "in">> \in Offered
                              /\ IsOrderOf(OrderOf(e), e)
      BY <2>1
    <3>3. seq[e] > 0
      BY <3>2, ScheduleFacts
    <3> QED
      BY <3>1, <3>2, <3>3
  <2> QED
    BY <2>2, <2>3 DEF AppliedAtMostOnce
<1> QED
  BY <1>1, InvAlways, PTL

\* Fork.Process reports success only if both calls succeeded, and a call
\* succeeds only after its engine's Submit ran with that order; a reply that
\* is missing in the log is one whose write failed.
THEOREM OkMeansDelivered == Spec => []DeliveredToBoth
<1>1. ASSUME Inv
      PROVE  DeliveredToBoth
  <2>0. Typed
    BY <1>1, TypeSplit DEF Inv
  <2> SUFFICES ASSUME NEW e \in Events, handler[e] = "ok", NEW c \in Engines
               PROVE  Applied(e, c) /\ <<e, c>> \in Offered
    BY DEF DeliveredToBoth
  <2>1. seq[e] \in 1 .. Length /\ <<e, c>> \in Offered /\ Made(e, c)
    BY <1>1, <2>0, StampFacts DEF Inv, CallsMade
  <2>2. PICK i \in DOMAIN applied[c] : applied[c][i] = OrderOf(e)
    BY <2>1 DEF Made
  <2>3. OrderOf(e) \in ToSet(applied[c])
    BY <2>2 DEF ToSet
  <2>4. IsOrderOf(OrderOf(e), e)
    BY <2>1, OrderFacts
  <2> QED
    BY <2>1, <2>3, <2>4 DEF Applied
<1> QED
  BY <1>1, InvAlways, PTL

-----------------------------------------------------------------------------
(***************************************************************************)
(* An undisturbed run.                                                     *)
(***************************************************************************)

\* The gateway has one event in hand, the dispatcher's next one: those before
\* it went through, those after it have not been posted.
OneInHand ==
    \A e \in Events :
        /\ handler[e] # "error" /\ \A c \in Engines : call[e][c] # "failed"
        /\ e < next => handler[e] = "ok"
        /\ e > next \/ (e = next /\ ~ waiting) => handler[e] = "none"

\* The stamps are drawn in the order of the schedule.
StampsInOrder ==
    /\ \A e \in Events : seq[e] # 0 => seq[e] = e
    /\ stamps = IF next \in Events /\ seq[next] # 0 THEN next ELSE next - 1

\* Engine c has the orders up to the one in hand, and has matched that one
\* once it left the wire.
InHandMatched(c) == next \in Events /\ call[next][c] # "none" /\ <<next, c>> \notin wire
MatchedInOrder ==
    \A c \in Engines :
        /\ Len(applied[c]) = IF InHandMatched(c) THEN next ELSE next - 1
        /\ \A i \in 1 .. Len(applied[c]) : applied[c][i] = OrderOf(i) /\ seq[i] = i

InStepNow == (\A c \in Engines : alive[c]) /\ OneInHand /\ StampsInOrder /\ MatchedInOrder

InStep == Undisturbed => InStepNow

\* Disturbances are counted, and never forgotten.
LEMMA StaysUndisturbed ==
    ASSUME Typed, [Next]_vars, Undisturbed'
    PROVE  /\ Undisturbed
           /\ \/ Post \/ PostReturns \/ Complete \/ (Terminate /\ ~ waiting)
              \/ \E e \in Events : Stamp(e) \/ Fork(e) \/ Join(e)
              \/ \E e \in Events, c \in Engines :
                     \/ CallReturns(e, c) \/ Deliver(e, c) \/ Lose(e, c)
                     \/ CallFails(e, c) /\ ~ alive[c]
              \/ UNCHANGED vars
<1>0. timeouts \in Nat /\ faults \in Nat /\ next \in Nat
  BY ScheduleFacts, BoundsAssumption DEF Typed
<1>00. timeouts' = 0 /\ faults' = 0 /\ cancelled' = {}
  BY DEF Undisturbed
<1>1. CASE Post \/ PostReturns \/ Complete
  BY <1>00, <1>1 DEF Post, PostReturns, Complete, Undisturbed
<1>2. CASE PostFails \/ PostTimesOut
  BY <1>0, <1>00, <1>2 DEF PostFails, PostTimesOut, Fault
<1>3. CASE Terminate
  <2>1. timeouts = 0 /\ faults = 0
    BY <1>00, <1>3 DEF Terminate
  <2>2. cancelled = {} /\ ~ waiting
    BY <1>00, <1>3 DEF Terminate
  <2> QED
    BY <1>3, <2>1, <2>2 DEF Undisturbed
<1>4. ASSUME NEW e \in Events, Stamp(e) \/ Fork(e) \/ Join(e)
      PROVE  Undisturbed
  <2>1. timeouts = 0 /\ cancelled = {}
    BY <1>00, <1>4 DEF Stamp, Fork, Join
  <2>2. faults = 0
    BY <1>0, <1>00, <1>4, WriteOffers DEF Stamp, Fork, Join
  <2> QED
    BY <2>1, <2>2 DEF Undisturbed
<1>5. ASSUME NEW e \in Events, StampFails(e)
      PROVE  FALSE
  <2>1. e \notin cancelled
    BY <1>00, <1>5 DEF StampFails
  <2> QED
    BY <1>0, <1>00, <1>5, <2>1 DEF StampFails, Fault
<1>6. ASSUME NEW e \in Events, NEW c \in Engines, CallFails(e, c)
      PROVE  Undisturbed /\ ~ alive[c]
  <2>1. e \notin cancelled /\ cancelled = {} /\ timeouts = 0
    BY <1>00, <1>6 DEF CallFails
  <2> QED
    BY <1>0, <1>00, <1>6, <2>1 DEF CallFails, Fault, Undisturbed
<1>7. ASSUME NEW e \in Events, NEW c \in Engines,
             CallReturns(e, c) \/ Deliver(e, c) \/ Lose(e, c)
      PROVE  Undisturbed
  <2>1. timeouts = 0 /\ cancelled = {}
    BY <1>00, <1>7 DEF CallReturns, Deliver, Lose
  <2>2. faults = 0
    BY <1>0, <1>00, <1>7, WriteOffers DEF CallReturns, Deliver, Lose
  <2> QED
    BY <2>1, <2>2 DEF Undisturbed
<1>8. ASSUME NEW c \in Engines, EngineDies(c)
      PROVE  FALSE
  BY <1>0, <1>00, <1>8 DEF EngineDies, Fault
<1>9. CASE UNCHANGED vars
  BY <1>00, <1>9 DEF vars, Undisturbed
<1> QED
  BY <1>1, <1>2, <1>3, <1>4, <1>5, <1>6, <1>7, <1>8, <1>9
  DEF Next, Dispatcher, Handler, Engine

LEMMA InStepInit == Init => InStep
<1> SUFFICES ASSUME Init
             PROVE  InStepNow
  BY DEF InStep
<1>1. OneInHand
  BY DEF Init, OneInHand, Events
<1>2. StampsInOrder
  BY ScheduleFacts DEF Init, StampsInOrder
<1>3. MatchedInOrder
  <2>1. \A c \in Engines : Len(applied[c]) = 0 /\ ~ InHandMatched(c)
    BY DEF Init, InHandMatched
  <2> QED
    BY <2>1 DEF Init, MatchedInOrder
<1> QED
  BY <1>1, <1>2, <1>3 DEF Init, InStepNow

\* The orders matched so far are those of posted events.
LEMMA MatchedArePosted ==
    ASSUME Inv, InStepNow
    PROVE  \A c \in Engines : /\ Len(applied[c]) \in Nat
                              /\ \A i \in 1 .. Len(applied[c]) :
                                     i \in Events /\ i <= next /\ OrderOf(i) = applied[c][i]
<1> SUFFICES ASSUME NEW c \in Engines
             PROVE  /\ Len(applied[c]) \in Nat
                    /\ \A i \in 1 .. Len(applied[c]) :
                           i \in Events /\ i <= next /\ OrderOf(i) = applied[c][i]
  OBVIOUS
<1>1. next \in 1 .. Length + 1 /\ Length \in Nat
  BY ScheduleFacts, TypeSplit DEF Inv, Typed
<1>2. Len(applied[c]) \in {next, next - 1} /\ (Len(applied[c]) = next => next \in Events)
  <2>1. CASE InHandMatched(c)
    <3>1. Len(applied[c]) = next
      BY <2>1 DEF InStepNow, MatchedInOrder
    <3> QED
      BY <2>1, <3>1 DEF InHandMatched
  <2>2. CASE ~ InHandMatched(c)
    <3>1. Len(applied[c]) = next - 1
      BY <2>2 DEF InStepNow, MatchedInOrder
    <3> QED
      BY <1>1, <3>1
  <2> QED
    BY <2>1, <2>2
<1>3. Len(applied[c]) \in Nat /\ Len(applied[c]) <= Length /\ Len(applied[c]) <= next
  BY <1>1, <1>2 DEF Events
<1> QED
  BY <1>1, <1>3 DEF InStepNow, MatchedInOrder, Events

\* A step that matches and stamps nothing and does not move next.
LEMMA InStepQuiet ==
    ASSUME Inv, InStepNow, OneInHand',
           UNCHANGED <<seq, stamps, applied, alive, next>>,
           \A c \in Engines : InHandMatched(c)' <=> InHandMatched(c)
    PROVE  InStepNow'
<1>1. StampsInOrder'
  BY DEF InStepNow, StampsInOrder
<1>2. \A e \in Events : OrderOf(e)' = OrderOf(e)
  BY OrderStable
<1>3. MatchedInOrder'
  <2> SUFFICES ASSUME NEW c \in Engines
               PROVE  /\ Len(applied[c]) = IF InHandMatched(c) THEN next ELSE next - 1
                      /\ \A i \in 1 .. Len(applied[c]) : applied[c][i] = OrderOf(i)' /\ seq[i] = i
    BY DEF MatchedInOrder
  <2> QED
    BY <1>2, MatchedArePosted DEF InStepNow, MatchedInOrder
<1> QED
  BY <1>1, <1>3 DEF InStepNow

\* Only the event in hand has an open handler.
LEMMA InHand ==
    ASSUME Typed, InStepNow, NEW e \in Events, handler[e] \notin {"none", "ok"}
    PROVE  e = next /\ waiting
  BY ScheduleFacts DEF Typed, InStepNow, OneInHand, Events

LEMMA InStepPost == Inv /\ InStepNow /\ Post => InStepNow'
<1> SUFFICES ASSUME Inv, InStepNow, Post
             PROVE  InStepNow'
  OBVIOUS
<1>1. Typed
  BY TypeSplit DEF Inv
<1>2. /\ handler' = [handler EXCEPT ![next] = "arrived"] /\ waiting' /\ next' = next
      /\ UNCHANGED <<seq, stamps, call, wire, applied, alive>>
  BY DEF Post, engineVars
<1>3. OneInHand'
  BY <1>1, <1>2 DEF Typed, InStepNow, OneInHand
<1> QED
  BY <1>2, <1>3, InStepQuiet DEF InHandMatched

\* The answer of the event in hand is good, and both engines have matched it.
LEMMA InStepReturns == Inv /\ InStepNow /\ PostReturns => InStepNow'
<1> SUFFICES ASSUME Inv, InStepNow, PostReturns
             PROVE  InStepNow'
  OBVIOUS
<1>1. Typed /\ next \in Events /\ next \in Nat /\ Length \in Nat
  BY TypeSplit, ScheduleFacts DEF Inv, NotPosted, PostReturns, Events
<1>2. /\ handler' = handler /\ waiting' = FALSE /\ next' = next + 1
      /\ UNCHANGED <<seq, stamps, call, wire, applied, alive>>
  BY DEF PostReturns, gatewayVars, logVars, engineVars
<1>3. handler[next] = "ok"
  BY <1>1 DEF PostReturns, InStepNow, OneInHand
<1>4. OneInHand'
  BY <1>1, <1>2, <1>3 DEF InStepNow, OneInHand, Events
<1>5. StampsInOrder'
  <2>1. stamps = next
    BY <1>1, <1>3 DEF InStepNow, StampsInOrder, Inv, StampedOnce
  <2>2. next + 1 \in Events => seq[next + 1] = 0
    BY <1>1 DEF InStepNow, OneInHand, Inv, StampedOnce
  <2>3. stamps' = IF next' \in Events /\ seq'[next'] # 0 THEN next' ELSE next' - 1
    BY <1>1, <1>2, <2>1, <2>2
  <2> QED
    BY <1>2, <2>3 DEF InStepNow, StampsInOrder
<1>6. MatchedInOrder'
  <2> SUFFICES ASSUME NEW c \in Engines
               PROVE  /\ Len(applied[c]) = IF InHandMatched(c)' THEN next' ELSE next' - 1
                      /\ \A i \in 1 .. Len(applied[c]) : applied[c][i] = OrderOf(i)' /\ seq[i] = i
    BY <1>2 DEF MatchedInOrder
  <2>1. InHandMatched(c)
    BY <1>1, <1>3 DEF InHandMatched, Inv, CallsMade
  <2>2. Len(applied[c]) = next
    BY <2>1 DEF InStepNow, MatchedInOrder
  <2>3. ~ InHandMatched(c)'
    <3>1. next + 1 \in Events => call[next + 1][c] = "none"
      <4>1. next + 1 \in Events => handler[next + 1] = "none"
        BY <1>1 DEF InStepNow, OneInHand
      <4> QED
        BY <4>1 DEF Inv, CallsMade
    <3> QED
      BY <1>2, <3>1 DEF InHandMatched
  <2>4. \A i \in 1 .. Len(applied[c]) : OrderOf(i)' = OrderOf(i)
    BY <1>2, MatchedArePosted, OrderStable
  <2> QED
    BY <1>1, <1>2, <2>2, <2>3, <2>4 DEF InStepNow, MatchedInOrder
<1> QED
  BY <1>2, <1>4, <1>5, <1>6 DEF InStepNow

LEMMA InStepStamp == ASSUME NEW e \in Events, Inv, InStepNow, Stamp(e) PROVE InStepNow'
<1>1. Typed /\ handler[e] = "arrived" /\ seq[e] = 0 /\ next \in Nat
  BY TypeSplit, ScheduleFacts DEF Inv, StampedOnce, Stamp, Typed
<1>2. e = next /\ waiting
  BY <1>1, InHand
<1>3. /\ handler' \in [Events -> HandlerState] /\ handler'[e] = "stamped"
      /\ \A f \in Events : f # e => handler'[f] = handler[f] /\ seq'[f] = seq[f]
      /\ seq'[e] = stamps + 1 /\ stamps' = stamps + 1
      /\ UNCHANGED <<call, wire, applied, alive, next, waiting>>
  BY <1>1 DEF Stamp, Typed, HandlerState, engineVars, dispatchVars
<1>4. stamps = next - 1
  BY <1>1, <1>2 DEF InStepNow, StampsInOrder
<1>5. OneInHand'
  BY <1>2, <1>3 DEF InStepNow, OneInHand
<1>6. StampsInOrder'
  <2>1. seq'[e] = next /\ stamps' = next /\ next' \in Events /\ next # 0
    BY <1>1, <1>2, <1>3, <1>4, ScheduleFacts DEF Events
  <2>2. \A f \in Events : seq'[f] # 0 => seq'[f] = f
    BY <1>2, <1>3, <2>1 DEF InStepNow, StampsInOrder
  <2> QED
    BY <1>2, <1>3, <2>1, <2>2 DEF StampsInOrder
<1>7. MatchedInOrder'
  <2> SUFFICES ASSUME NEW c \in Engines
               PROVE  /\ Len(applied[c]) = IF InHandMatched(c) THEN next ELSE next - 1
                      /\ \A i \in 1 .. Len(applied[c]) : applied[c][i] = OrderOf(i)' /\ seq'[i] = i
    BY <1>3 DEF MatchedInOrder, InHandMatched
  <2>1. \A i \in 1 .. Len(applied[c]) : i \in Events /\ seq[i] = i /\ i # 0
    BY MatchedArePosted DEF InStepNow, MatchedInOrder
  <2>2. \A i \in 1 .. Len(applied[c]) : i # e
    BY <1>1, <2>1
  <2>3. \A i \in 1 .. Len(applied[c]) : seq'[i] = i /\ OrderOf(i)' = OrderOf(i)
    BY <1>3, <2>1, <2>2, OrderStable
  <2> QED
    BY <2>3 DEF InStepNow, MatchedInOrder
<1> QED
  BY <1>3, <1>5, <1>6, <1>7 DEF InStepNow

LEMMA InStepFork == ASSUME NEW e \in Events, Inv, InStepNow, Fork(e) PROVE InStepNow'
<1>1. Typed /\ handler[e] = "stamped" /\ \A c \in Engines : call[e][c] = "none"
  BY TypeSplit DEF Inv, CallsMade, Fork
<1>2. e = next /\ waiting
  BY <1>1, InHand
<1>3. /\ handler' \in [Events -> HandlerState] /\ handler'[e] = "forked"
      /\ \A f \in Events : f # e => handler'[f] = handler[f] /\ call'[f] = call[f]
      /\ \A c \in Engines : call'[e][c] = "waiting" /\ <<e, c>> \in wire'
      /\ UNCHANGED <<seq, stamps, applied, alive, next, waiting>>
  BY <1>1 DEF Fork, Typed, HandlerState, dispatchVars
<1>4. OneInHand'
  <2>1. \A f \in Events, c \in Engines : call'[f][c] # "failed"
    BY <1>3 DEF InStepNow, OneInHand
  <2> QED
    BY <1>2, <1>3, <2>1 DEF InStepNow, OneInHand
<1>5. \A c \in Engines : InHandMatched(c)' <=> InHandMatched(c)
  BY <1>1, <1>2, <1>3 DEF InHandMatched
<1> QED
  BY <1>3, <1>4, <1>5, InStepQuiet

LEMMA InStepCallReturns ==
    ASSUME NEW e \in Events, NEW c \in Engines, Inv, InStepNow, CallReturns(e, c) PROVE InStepNow'
<1>1. Typed
  BY TypeSplit DEF Inv
<1>2. /\ \A f \in Events, d \in Engines : \/ call'[f][d] = call[f][d]
                                          \/ call[f][d] = "waiting" /\ call'[f][d] = "replied"
      /\ UNCHANGED <<handler, seq, stamps, wire, applied, alive, next, waiting>>
  BY <1>1 DEF CallReturns, Typed, dispatchVars, engineVars
<1>3. OneInHand'
  BY <1>2 DEF InStepNow, OneInHand
<1>4. \A d \in Engines : InHandMatched(d)' <=> InHandMatched(d)
  BY <1>2 DEF InHandMatched
<1> QED
  BY <1>2, <1>3, <1>4, InStepQuiet

LEMMA InStepJoin == ASSUME NEW e \in Events, Inv, InStepNow, Join(e) PROVE InStepNow'
<1>1. Typed /\ handler[e] = "forked"
  BY TypeSplit DEF Inv, Join
<1>2. e = next /\ waiting
  BY <1>1, InHand
<1>3. \A c \in Engines : call[e][c] = "replied"
  BY DEF Join, InStepNow, OneInHand
<1>4. /\ handler'[e] = "ok" /\ \A f \in Events : f # e => handler'[f] = handler[f]
      /\ UNCHANGED <<seq, stamps, call, wire, applied, alive, next, waiting>>
  BY <1>1, <1>3 DEF Join, Typed, dispatchVars, engineVars
<1>5. OneInHand'
  BY <1>2, <1>4 DEF InStepNow, OneInHand
<1> QED
  BY <1>4, <1>5, InStepQuiet DEF InHandMatched

LEMMA InStepDeliver ==
    ASSUME NEW e \in Events, NEW c \in Engines, Inv, InStepNow, Deliver(e, c) PROVE InStepNow'
<1>0. Typed /\ UNCHANGED <<handler, seq, stamps, call, next, waiting, alive>>
  BY TypeSplit DEF Inv, Deliver, gatewayVars, logVars, dispatchVars
<1>1. PICK n \in Nat :
          /\ n = Len(applied[c]) /\ Len(applied'[c]) = n + 1
          /\ applied' \in [Engines -> Seq(OrderRecord)]
          /\ \A d \in Engines : d # c => applied'[d] = applied[d]
          /\ DOMAIN applied[c] = 1 .. n /\ DOMAIN applied'[c] = 1 .. n + 1
          /\ \A i \in 1 .. n : applied'[c][i] = applied[c][i]
          /\ applied'[c][n + 1] = OrderOf(e)
          /\ seq[e] \in 1 .. Length /\ OrderOf(e).seq = seq[e]
          /\ call[e][c] # "none" /\ <<e, c>> \in wire
          /\ \A f \in Events, d \in Engines :
                 <<f, d>> \in wire' <=> <<f, d>> \in wire /\ ~ (f = e /\ d = c)
          /\ \A f \in Events : OrderOf(f)' = OrderOf(f)
  BY DeliverFacts
<1>2. e = next /\ next \in Nat /\ next \in Events
  <2>1. handler[e] \notin {"none", "ok"}
    BY <1>1 DEF Inv, CallsMade
  <2> QED
    BY <1>0, <2>1, InHand, ScheduleFacts DEF Events
<1>3. ~ InHandMatched(c) /\ InHandMatched(c)'
  BY <1>0, <1>1, <1>2 DEF InHandMatched
<1>4. \A d \in Engines : d # c => (InHandMatched(d)' <=> InHandMatched(d))
  BY <1>0, <1>1 DEF InHandMatched
<1>5. n = next - 1
  BY <1>1, <1>3 DEF InStepNow, MatchedInOrder
<1>6. seq[e] = e
  BY <1>1, ScheduleFacts DEF InStepNow, StampsInOrder
<1>7. OneInHand' /\ StampsInOrder'
  BY <1>0 DEF InStepNow, OneInHand, StampsInOrder
<1>8. MatchedInOrder'
  <2> SUFFICES ASSUME NEW d \in Engines
               PROVE  /\ Len(applied'[d]) = IF InHandMatched(d)' THEN next ELSE next - 1
                      /\ \A i \in 1 .. Len(applied'[d]) : applied'[d][i] = OrderOf(i)' /\ seq[i] = i
    BY <1>0 DEF MatchedInOrder
  <2>1. CASE d # c
    <3>1. \A i \in 1 .. Len(applied[d]) : OrderOf(i)' = OrderOf(i)
      BY <1>1, MatchedArePosted
    <3>2. applied'[d] = applied[d]
      BY <1>1, <2>1
    <3> QED
      BY <1>4, <2>1, <3>1, <3>2 DEF InStepNow, MatchedInOrder
  <2>2. CASE d = c
    <3>1. Len(applied'[c]) = next
      BY <1>1, <1>2, <1>5
    <3>2. ASSUME NEW i \in 1 .. n
          PROVE  applied'[c][i] = OrderOf(i)' /\ seq[i] = i
      <4>1. i \in 1 .. Len(applied[c]) /\ applied'[c][i] = applied[c][i]
        BY <1>1
      <4>2. i \in Events /\ OrderOf(i) = applied[c][i]
        BY <4>1, MatchedArePosted
      <4>3. OrderOf(i)' = OrderOf(i)
        BY <1>1, <4>2
      <4>4. seq[i] = i
        BY <4>1 DEF InStepNow, MatchedInOrder
      <4> QED
        BY <4>1, <4>2, <4>3, <4>4
    <3>3. applied'[c][e] = OrderOf(e)' /\ seq[e] = e
      <4>1. n + 1 = e
        BY <1>2, <1>5
      <4> QED
        BY <1>1, <1>6, <4>1
    <3>4. \A i \in 1 .. next : i \in 1 .. n \/ i = e
      BY <1>2, <1>5
    <3> QED
      BY <1>3, <2>2, <3>1, <3>2, <3>3, <3>4
  <2> QED
    BY <2>1, <2>2
<1> QED
  BY <1>0, <1>7, <1>8 DEF InStepNow

LEMMA InStepStep == Inv /\ InStep /\ [Next]_vars => InStep'
<1> SUFFICES ASSUME Inv, InStep, [Next]_vars, Undisturbed'
             PROVE  InStepNow'
  BY DEF InStep
<1>0. Typed
  BY TypeSplit DEF Inv
<1>1. Undisturbed /\ InStepNow
  BY <1>0, StaysUndisturbed DEF InStep
<1>2. CASE Post \/ PostReturns
  BY <1>1, <1>2, InStepPost, InStepReturns
<1>3. CASE Complete \/ (Terminate /\ ~ waiting) \/ UNCHANGED vars
  <2>1. UNCHANGED <<next, waiting, handler, seq, stamps, call, wire, applied, alive>>
    BY <1>0, <1>3 DEF Complete, Terminate, vars, dispatchVars, gatewayVars, logVars, engineVars, Typed
  <2>2. OneInHand'
    BY <1>1, <2>1 DEF InStepNow, OneInHand
  <2> QED
    BY <1>1, <2>1, <2>2, InStepQuiet DEF InHandMatched
<1>4. ASSUME NEW e \in Events, Stamp(e) \/ Fork(e) \/ Join(e)
      PROVE  InStepNow'
  BY <1>1, <1>4, InStepStamp, InStepFork, InStepJoin
<1>5. ASSUME NEW e \in Events, NEW c \in Engines, CallReturns(e, c) \/ Deliver(e, c)
      PROVE  InStepNow'
  BY <1>1, <1>5, InStepCallReturns, InStepDeliver
<1>6. ASSUME NEW e \in Events, NEW c \in Engines, Lose(e, c)
      PROVE  FALSE
  BY <1>1, <1>6 DEF Lose, InStepNow, OneInHand
<1>7. ASSUME NEW e \in Events, NEW c \in Engines, ~ alive[c]
      PROVE  FALSE
  BY <1>1, <1>7 DEF InStepNow
<1> QED
  BY <1>0, <1>2, <1>3, <1>4, <1>5, <1>6, <1>7, StaysUndisturbed

\* Run posts an event when the one before is answered, and Process answers when
\* both engines have: without timeouts and failures both engines match the
\* schedule itself, in the order of its stamps, at most one order apart.
THEOREM UndisturbedIsSchedule == Spec => []SameOrdersSameSequence
<1>1. ASSUME Inv, InStep
      PROVE  SameOrdersSameSequence
  <2> SUFFICES ASSUME Undisturbed
               PROVE  /\ \A c \in Engines : \A i \in DOMAIN applied[c] :
                             applied[c][i].seq = i /\ IsOrderOf(applied[c][i], i)
                      /\ Len(applied["oracle"]) - Len(applied["submission"]) \in {-1, 0, 1}
    BY DEF SameOrdersSameSequence
  <2>0. InStepNow /\ Typed /\ next \in Nat
    BY <1>1, TypeSplit, ScheduleFacts DEF InStep, Inv, Typed
  <2>1. ASSUME NEW c \in Engines, NEW i \in DOMAIN applied[c]
        PROVE  applied[c][i].seq = i /\ IsOrderOf(applied[c][i], i)
    <3>1. i \in 1 .. Len(applied[c])
      BY <1>1 DEF Inv, MatchedOnce
    <3>2. i \in Events /\ seq[i] = i /\ applied[c][i] = OrderOf(i)
      BY <1>1, <2>0, <3>1, MatchedArePosted DEF InStepNow, MatchedInOrder
    <3>3. seq[i] \in 1 .. Length
      BY <3>2 DEF Events
    <3> QED
      BY <3>2, <3>3, OrderFacts
  <2>2. ASSUME NEW c \in Engines
        PROVE  Len(applied[c]) = next \/ Len(applied[c]) = next - 1
    BY <2>0 DEF InStepNow, MatchedInOrder
  <2>3. /\ Len(applied["oracle"]) = next \/ Len(applied["oracle"]) = next - 1
        /\ Len(applied["submission"]) = next \/ Len(applied["submission"]) = next - 1
    BY <2>2 DEF Engines
  <2> QED
    BY <2>0, <2>1, <2>3
<1>2. Init => Inv /\ InStep
  BY InvInit, InStepInit
<1>3. Inv /\ InStep /\ [Next]_vars => (Inv /\ InStep)'
  BY InvStep, InStepStep
<1> QED
  BY <1>1, <1>2, <1>3, PTL DEF Spec
=============================================================================
