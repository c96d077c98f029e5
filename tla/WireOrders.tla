----------------------------- MODULE WireOrders -----------------------------
(***************************************************************************)
(* What becomes of an order's fields on their way from the schedule to an  *)
(* engine: the event Compile makes (bot-coordinator), the JSON body post   *)
(* sends, the NormalizedOrder Handle builds from it (fairness-gateway) and *)
(* the Order wire_to_order hands to the matcher (reference-oracle).        *)
(*                                                                         *)
(* A client_order_id is 16 bytes, modelled as the two big-endian words it  *)
(* is packed from; a session token is the bot and the secret it is a hash  *)
(* of.  The timestamp is StampClock's.                                     *)
(***************************************************************************)
EXTENDS Integers, Sequences

CONSTANT Word      \* 2^64 in the code: bot_id and local_seq are below it

ASSUME WordAssumption == Word \in Nat \ {0}

SlotNs == 1000000

\* The events Compile can make for slot i (0, 1, ...): the generator picks bot,
\* side, quantity and price.
EventsOfSlot(i) ==
    [offsetNs : {i * SlotNs}, botId : 1 .. 8, side : {"bid", "ask"},
     orderType : {"limit"}, tif : {"gtc"}, qty : 1 .. 20, price : 90 .. 109]

\* A schedule has an event for every slot.
IsCompiled(schedule) == \A i \in DOMAIN schedule : schedule[i] \in EventsOfSlot(i - 1)

\* Faulty variant: the bot's number is sent as local_seq.
BodyWithoutOffset(e) ==
    [bot_id |-> e.botId, local_seq |-> e.botId, side |-> e.side, qty |-> e.qty,
     price |-> e.price, order_type |-> e.orderType, tif |-> e.tif]

\* post: the offset serves as local_seq, so no id comes twice in a schedule.
Body(e) ==
    [bot_id |-> e.botId, local_seq |-> e.offsetNs, side |-> e.side, qty |-> e.qty,
     price |-> e.price, order_type |-> e.orderType, tif |-> e.tif]

-----------------------------------------------------------------------------
(***************************************************************************)
(* Server.Handle.  A string that is not recognised means the default.      *)
(***************************************************************************)

SideFromString(s) == IF s = "ask" THEN "SIDE_ASK" ELSE "SIDE_BID"

OrderTypeFromString(s) == IF s = "market" THEN "ORDER_TYPE_MARKET" ELSE "ORDER_TYPE_LIMIT"

TifFromString(s) ==
    CASE s = "ioc" -> "TIME_IN_FORCE_IOC"
      [] s = "fok" -> "TIME_IN_FORCE_FOK"
      [] OTHER -> "TIME_IN_FORCE_GTC"

PackClientOrderID(botID, localSeq) == <<botID, localSeq>>

SessionTokenFor(botID, runSecret) == [bot |-> botID, secret |-> runSecret]

Normalize(ro, seq, secret) ==
    [platform_seq |-> seq,
     client_order_id |-> PackClientOrderID(ro.bot_id, ro.local_seq),
     session_token |-> SessionTokenFor(ro.bot_id, secret),
     side |-> SideFromString(ro.side), qty |-> ro.qty, price |-> ro.price,
     order_type |-> OrderTypeFromString(ro.order_type), tif |-> TifFromString(ro.tif)]

-----------------------------------------------------------------------------
(***************************************************************************)
(* submit and wire_to_order.  The result has the fields of Orders.         *)
(***************************************************************************)

\* u128::from_be_bytes, and the parts ClientOrderId packs.
FromBeBytes(words) == words[1] * Word + words[2]
BotIdOf(id) == id \div Word
LocalSeqOf(id) == id % Word

\* The orders that are answered with status 1 and never reach the book.  A
\* session token is always 32 bytes here, and every tif one of the enum.
Rejects(n) ==
    \/ n.side = "SIDE_UNSPECIFIED"
    \/ n.order_type = "ORDER_TYPE_UNSPECIFIED"
    \/ Len(n.client_order_id) # 2

KindOf(n) ==
    CASE n.order_type = "ORDER_TYPE_MARKET" -> "Market"
      [] n.tif = "TIME_IN_FORCE_IOC" -> "Ioc"
      [] n.tif = "TIME_IN_FORCE_FOK" -> "Fok"
      [] OTHER -> "Gtc"

WireToOrder(n) ==
    [seq |-> n.platform_seq, id |-> FromBeBytes(n.client_order_id),
     side |-> IF n.side = "SIDE_BID" THEN "Bid" ELSE "Ask",
     qty |-> n.qty, kind |-> KindOf(n), price |-> n.price]

=============================================================================
