------------------------ MODULE OrderBookRefinement ------------------------
(***************************************************************************)
(* The matching loop implements PriceTimeBook.  A call takes effect, for   *)
(* the abstract book, when it returns: while it runs the abstract book is  *)
(* the one it started from, which the history variable `before` keeps.     *)
(***************************************************************************)
EXTENDS OrderBook

VARIABLES
    before,          \* history: the resting orders when the running call began
    answered         \* history: the order of the last call that returned

refVars == <<vars, before, answered>>

RestingOrders ==
    {[rank |-> queue[x[1]][x[2]][x[3]].rank, id |-> queue[x[1]][x[2]][x[3]].id,
      side |-> x[1], price |-> x[2], qty |-> queue[x[1]][x[2]][x[3]].qty] :
        x \in {y \in Sides \X Prices \X Ranks : y[3] \in DOMAIN queue[y[1]][y[2]]}}

RefInit == Init /\ before = {} /\ answered = NoOrder

Called(o) == BeginMatch(o) /\ before' = RestingOrders /\ UNCHANGED answered

Refused(o) == RejectFok(o) /\ answered' = o /\ UNCHANGED before

Returned == ReturnFills /\ answered' = taker /\ before' = {}

InternalStep ==
    /\ (\E p \in Prices : EnterLevel(p)) \/ DrainFront \/ LeaveLevel
    /\ UNCHANGED <<before, answered>>

BetweenCalls ==
    /\ (\E id \in Ids : Cancel(id) \/ CancelUnknown(id)) \/ RestoreSnapshot
    /\ UNCHANGED <<before, answered>>

\* The steps of OrderBook's Next, each with what it does to the history.
RefNext ==
    \/ \E o \in NextOrders : Called(o) \/ Refused(o)
    \/ InternalStep \/ Returned
    \/ BetweenCalls

\* The fairness of OrderBook's Spec.
RefSpec == RefInit /\ [][RefNext]_refVars /\ WF_refVars(InternalStep \/ Returned)

Abstract ==
    INSTANCE PriceTimeBook WITH
        resting <- IF pc = "idle" THEN RestingOrders ELSE before,
        order <- answered,
        result <- ToSet(result),
        arrived <- IF pc = "idle" THEN arrived ELSE arrived - 1

\* match_order, cancel and restore together behave as an atomic price-time
\* book: every call's fills, trade ids and resting orders are the ones the
\* declarative definition prescribes.
ImplementsPriceTimeBook == Abstract!AbsSpec

=============================================================================
