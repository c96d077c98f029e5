------------------------------ MODULE HotPath ------------------------------
(***************************************************************************)
(* The path of an order during a run: the bot-coordinator posts the        *)
(* schedule one event after the other, the fairness-gateway stamps each    *)
(* order and forks it to the submission and to the reference oracle, and   *)
(* logs what it sees.                                                      *)
(*                                                                         *)
(* The coordinator waits for an answer for at most 5 s and then goes on to *)
(* the next event, so the handlers of several events may be running in the *)
(* gateway at once.  A gRPC call that its caller gave up may still reach   *)
(* the engine.  An engine is the sequence of orders it has matched, each   *)
(* made from its event as WireOrders says; what the matcher does with them *)
(* is OrderBook's matter.  The submission is a contestant's program: of it *)
(* `applied' says with which orders its Submit ran to an end.  The stamps  *)
(* are the ones Stamping hands out to one gateway, and the log is here the *)
(* set of its whole rows, which EventLog takes apart into bytes.           *)
(***************************************************************************)
EXTENDS WireOrders, SequencesExt

CONSTANTS
    Schedule,      \* the events of the run (in the code some thousands)
    RunSecret,     \* the gateway's secret, drawn when its process starts
    MaxTimeouts,   \* posts that time out (a bound)
    MaxFaults      \* broken connections, engine crashes, failed refills and log
                   \* writes (a bound)

ASSUME BoundsAssumption == {MaxTimeouts, MaxFaults} \subseteq Nat
ASSUME ScheduleAssumption ==
    /\ Schedule \in Seq(UNION {EventsOfSlot(i - 1) : i \in DOMAIN Schedule})
    /\ IsCompiled(Schedule) /\ \A i \in DOMAIN Schedule : Schedule[i].offsetNs < Word

Length == Len(Schedule)
Events == 1 .. Length
Engines == {"submission", "oracle"}

VARIABLES
    next,        \* the event the dispatcher posts next
    waiting,     \* is the dispatcher waiting for the answer to event next?
    exited,      \* has the coordinator's process ended?
    handler,     \* the gateway's handler of each event
    cancelled,   \* events whose client has gone: their context is cancelled,
                 \* or will be once the gateway notices
    seq,         \* platform_seq of each event; 0 before it is stamped
    stamps,      \* stamps issued so far
    call,        \* the Submit call of each handler to each engine
    wire,        \* Submit requests on their way to an engine
    applied,     \* the orders each engine has matched, in order
    alive,       \* is the engine's process running?
    log,         \* rows of the gateway's event log
    dropped,     \* rows whose write failed (a history variable)
    timeouts, faults

dispatchVars == <<next, waiting, exited>>
logVars == <<log, dropped>>
gatewayVars == <<handler, seq, stamps, call, logVars>>
engineVars == <<wire, applied, alive>>
vars == <<dispatchVars, gatewayVars, engineVars, cancelled, timeouts, faults>>

Init ==
    /\ next = 1 /\ waiting = FALSE /\ exited = FALSE
    /\ handler = [e \in Events |-> "none"]
    /\ cancelled = {}
    /\ seq = [e \in Events |-> 0]
    /\ stamps = 0
    /\ call = [e \in Events |-> [c \in Engines |-> "none"]]
    /\ wire = {}
    /\ applied = [c \in Engines |-> << >>]
    /\ alive = [c \in Engines |-> TRUE]
    /\ log = {} /\ dropped = {}
    /\ timeouts = 0 /\ faults = 0

Fault == faults < MaxFaults /\ faults' = faults + 1

-----------------------------------------------------------------------------
(***************************************************************************)
(* Dispatcher.Run and post.                                                *)
(***************************************************************************)

Post ==
    /\ ~ exited /\ ~ waiting
    /\ next \in Events
    /\ waiting' = TRUE
    /\ handler' = [handler EXCEPT ![next] = "arrived"]
    /\ UNCHANGED <<next, exited, seq, stamps, call, logVars, engineVars, cancelled, timeouts, faults>>

\* The request never reaches the gateway; Run ignores the error.
PostFails ==
    /\ Fault
    /\ ~ exited /\ ~ waiting
    /\ next \in Events
    /\ next' = next + 1
    /\ UNCHANGED <<waiting, exited, gatewayVars, engineVars, cancelled, timeouts>>

\* Faulty variant: the dispatcher does not wait for the answer.
PostReturnsAtOnce ==
    /\ waiting
    /\ waiting' = FALSE
    /\ next' = next + 1
    /\ UNCHANGED <<exited, gatewayVars, engineVars, cancelled, timeouts, faults>>

\* An answer, good or bad: Run does not look at it.
PostReturns ==
    /\ waiting
    /\ handler[next] \in {"ok", "error"}
    /\ waiting' = FALSE
    /\ next' = next + 1
    /\ UNCHANGED <<exited, gatewayVars, engineVars, cancelled, timeouts, faults>>

\* Faulty variant: an http.Client without timeout.
NeverTimesOut == FALSE

\* Faulty variant: the event is posted again.
PostRetried ==
    /\ waiting
    /\ handler[next] \notin {"ok", "error"}
    /\ timeouts < MaxTimeouts
    /\ timeouts' = timeouts + 1
    /\ cancelled' = cancelled \cup {next}
    /\ waiting' = FALSE
    /\ UNCHANGED <<next, exited, gatewayVars, engineVars, faults>>

\* Faulty variant: a timeout that leaves the handler's context alone.
TimesOutUncancelled ==
    /\ waiting
    /\ handler[next] \notin {"ok", "error"}
    /\ timeouts < MaxTimeouts
    /\ timeouts' = timeouts + 1
    /\ waiting' = FALSE
    /\ next' = next + 1
    /\ UNCHANGED <<exited, gatewayVars, engineVars, cancelled, faults>>

\* The client's timeout: the connection closes, which cancels the handler's
\* context, and Run goes on.
PostTimesOut ==
    /\ waiting
    /\ handler[next] \notin {"ok", "error"}
    /\ timeouts < MaxTimeouts
    /\ timeouts' = timeouts + 1
    /\ cancelled' = cancelled \cup {next}
    /\ waiting' = FALSE
    /\ next' = next + 1
    /\ UNCHANGED <<exited, gatewayVars, engineVars, faults>>

\* The schedule is done: main returns.
Complete ==
    /\ ~ exited /\ ~ waiting
    /\ next > Length
    /\ exited' = TRUE
    /\ UNCHANGED <<next, waiting, gatewayVars, engineVars, cancelled, timeouts, faults>>

\* SIGTERM ends Run at any point, the wait for an answer included.
Terminate ==
    /\ ~ exited
    /\ exited' = TRUE
    /\ waiting' = FALSE
    /\ cancelled' = IF waiting THEN cancelled \cup {next} ELSE cancelled
    /\ UNCHANGED <<next, gatewayVars, engineVars, timeouts, faults>>

-----------------------------------------------------------------------------
(***************************************************************************)
(* Server.Handle and Fork.Process.                                         *)
(***************************************************************************)

\* Stamper.Next under its mutex.
Stamp(e) ==
    /\ handler[e] = "arrived"
    /\ stamps' = stamps + 1
    /\ seq' = [seq EXCEPT ![e] = stamps + 1]
    /\ handler' = [handler EXCEPT ![e] = "stamped"]
    /\ UNCHANGED <<dispatchVars, call, logVars, engineVars, cancelled, timeouts, faults>>

\* The refill fails: an answer of 502, and no stamp.
StampFails(e) ==
    /\ handler[e] = "arrived"
    /\ IF e \in cancelled THEN UNCHANGED faults ELSE Fault
    /\ handler' = [handler EXCEPT ![e] = "error"]
    /\ UNCHANGED <<dispatchVars, seq, stamps, call, logVars, engineVars, cancelled, timeouts>>

\* FileSink.write drops the error of a write that fails.
Write(row) ==
    \/ log' = log \cup {row} /\ UNCHANGED <<dropped, faults>>
    \/ Fault /\ dropped' = dropped \cup {row} /\ UNCHANGED log

\* Sink.OnIn, then both calls at once.
Fork(e) ==
    /\ handler[e] = "stamped"
    /\ handler' = [handler EXCEPT ![e] = "forked"]
    /\ Write(<<e, "in">>)
    /\ call' = [call EXCEPT ![e] = [c \in Engines |-> "waiting"]]
    /\ wire' = wire \cup {<<e, c>> : c \in Engines}
    /\ UNCHANGED <<dispatchVars, seq, stamps, applied, alive, cancelled, timeouts>>

\* The reply of an engine arrives and goes to the sink.  A rejection (status
\* 1) is a reply like any other.
CallReturns(e, c) ==
    /\ call[e][c] = "waiting"
    /\ <<e, c>> \notin wire
    /\ call' = [call EXCEPT ![e][c] = "replied"]
    /\ Write(<<e, c>>)
    /\ UNCHANGED <<dispatchVars, handler, seq, stamps, engineVars, cancelled, timeouts>>

\* The context is cancelled, the engine is down, or the connection breaks.
CallFails(e, c) ==
    /\ call[e][c] = "waiting"
    /\ IF e \in cancelled \/ ~ alive[c] THEN UNCHANGED faults ELSE Fault
    /\ call' = [call EXCEPT ![e][c] = "failed"]
    /\ UNCHANGED <<dispatchVars, handler, seq, stamps, logVars, engineVars, cancelled, timeouts>>

\* Faulty variant: only the submission's error counts.
JoinOnSubmission(e) ==
    /\ handler[e] = "forked"
    /\ \A c \in Engines : call[e][c] \in {"replied", "failed"}
    /\ handler' = [handler EXCEPT ![e] =
                      IF call[e]["submission"] = "replied" THEN "ok" ELSE "error"]
    /\ UNCHANGED <<dispatchVars, seq, stamps, call, logVars, engineVars, cancelled, timeouts, faults>>

\* wg.Wait, then one error if either call failed.
Join(e) ==
    /\ handler[e] = "forked"
    /\ \A c \in Engines : call[e][c] \in {"replied", "failed"}
    /\ handler' = [handler EXCEPT ![e] =
                      IF \A c \in Engines : call[e][c] = "replied" THEN "ok" ELSE "error"]
    /\ UNCHANGED <<dispatchVars, seq, stamps, call, logVars, engineVars, cancelled, timeouts, faults>>

-----------------------------------------------------------------------------
(***************************************************************************)
(* The engines and the network.  Requests on one connection are served by  *)
(* a task each, so they reach the book in any order.                       *)
(***************************************************************************)

\* The NormalizedOrder of a stamped event.
Normalized(e) == Normalize(Body(Schedule[e]), seq[e], RunSecret)

\* submit: the order is rejected, or matched under the book's mutex.  For the
\* submission: its Submit has run with this order.
Deliver(e, c) ==
    /\ <<e, c>> \in wire
    /\ alive[c]
    /\ wire' = wire \ {<<e, c>>}
    /\ applied' = IF Rejects(Normalized(e)) THEN applied
                  ELSE [applied EXCEPT ![c] = Append(@, WireToOrder(Normalized(e)))]
    /\ UNCHANGED <<dispatchVars, gatewayVars, alive, cancelled, timeouts, faults>>

\* A request whose call has failed need not arrive.
Lose(e, c) ==
    /\ <<e, c>> \in wire
    /\ call[e][c] = "failed"
    /\ wire' = wire \ {<<e, c>>}
    /\ UNCHANGED <<dispatchVars, gatewayVars, applied, alive, cancelled, timeouts, faults>>

\* Pods have restartPolicy Never: an engine that dies stays dead.
EngineDies(c) ==
    /\ Fault
    /\ alive[c]
    /\ alive' = [alive EXCEPT ![c] = FALSE]
    /\ UNCHANGED <<dispatchVars, gatewayVars, wire, applied, cancelled, timeouts>>

-----------------------------------------------------------------------------
Dispatcher == Post \/ PostFails \/ PostReturns \/ PostTimesOut \/ Complete \/ Terminate

Handler(e) ==
    \/ Stamp(e) \/ StampFails(e) \/ Fork(e) \/ Join(e)
    \/ \E c \in Engines : CallReturns(e, c) \/ CallFails(e, c)

Engine(c) == EngineDies(c) \/ \E e \in Events : Deliver(e, c) \/ Lose(e, c)

Next == Dispatcher \/ (\E e \in Events : Handler(e)) \/ (\E c \in Engines : Engine(c))

\* The coordinator and the gateway run on.  Nothing is assumed of the engines:
\* a submission may never answer.
Fairness ==
    /\ WF_vars(Post \/ PostReturns \/ PostTimesOut \/ Complete)
    /\ \A e \in Events : WF_vars(Handler(e))

Spec == Init /\ [][Next]_vars /\ Fairness

-----------------------------------------------------------------------------
(***************************************************************************)
(* Properties.                                                             *)
(***************************************************************************)

\* Every variable has its type.
TypeOK ==
    /\ next \in 1 .. Length + 1 /\ waiting \in BOOLEAN /\ exited \in BOOLEAN
    /\ handler \in [Events -> {"none", "arrived", "stamped", "forked", "ok", "error"}]
    /\ cancelled \subseteq Events
    /\ seq \in [Events -> 0 .. Length]
    /\ stamps \in 0 .. Length
    /\ call \in [Events -> [Engines -> {"none", "waiting", "replied", "failed"}]]
    /\ wire \subseteq Events \X Engines
    /\ \A c \in Engines : \A o \in ToSet(applied[c]) :
           o.side \in {"Bid", "Ask"} /\ o.seq \in 1 .. Length /\ o.qty \in Nat
    /\ alive \in [Engines -> BOOLEAN]
    /\ log \cup dropped \subseteq Events \X (Engines \cup {"in"})
    /\ timeouts \in 0 .. MaxTimeouts /\ faults \in 0 .. MaxFaults

\* The order of event e, field by field.
IsOrderOf(o, e) ==
    /\ o.seq = seq[e]
    /\ BotIdOf(o.id) = Schedule[e].botId /\ LocalSeqOf(o.id) = Schedule[e].offsetNs
    /\ o.side = (IF Schedule[e].side = "bid" THEN "Bid" ELSE "Ask")
    /\ o.kind = "Gtc" /\ o.qty = Schedule[e].qty /\ o.price = Schedule[e].price

Applied(e, c) == \E o \in ToSet(applied[c]) : IsOrderOf(o, e)

\* The rows the gateway has handed to its sink.
Offered == log \cup dropped

\* No engine matches an order, an id or a stamp twice, whatever timeouts,
\* failures and late deliveries there are, and every order it matches is one of
\* the schedule, field by field, with an id that names its bot and slot, which
\* the gateway stamped and handed to its sink before: if the row is not in the
\* log, its write failed (Process: OnIn before the calls, no retries;
\* FileSink.write; identity.go: "matching the matching engine's
\* ClientOrderId(u128)").
AppliedAtMostOnce ==
    \A c \in Engines :
        /\ \A i, j \in DOMAIN applied[c] :
               applied[c][i].id = applied[c][j].id \/ applied[c][i].seq = applied[c][j].seq => i = j
        /\ \A o \in ToSet(applied[c]) :
               \E e \in Events : IsOrderOf(o, e) /\ seq[e] > 0 /\ <<e, "in">> \in Offered

\* The bot is told that its order went through only if the Submit of both
\* engines ran with that very order to an end, and both replies were handed to
\* the sink: one that is not in the log is one whose write failed (Process:
\* "Both fan-out calls must succeed for the order to be considered delivered").
DeliveredToBoth ==
    \A e \in Events :
        handler[e] = "ok" => \A c \in Engines : Applied(e, c) /\ <<e, c>> \in Offered

Undisturbed == timeouts = 0 /\ faults = 0 /\ cancelled = {}

\* In a run without timeouts and failures both engines match the schedule in
\* its own order, which is the order of the stamps, and are never more than
\* one order apart.
SameOrdersSameSequence ==
    Undisturbed =>
        /\ \A c \in Engines : \A i \in DOMAIN applied[c] :
               applied[c][i].seq = i /\ IsOrderOf(applied[c][i], i)
        /\ Len(applied["oracle"]) - Len(applied["submission"]) \in {-1, 0, 1}

\* The coordinator's process ends, even if an engine never answers.
DispatchEnds == <>exited

\* Every handler ends, even if an engine never answers: the calls have no
\* deadline of their own, and end when the client gives up.
HandlersEnd ==
    \A e \in Events : (handler[e] = "arrived") ~> (handler[e] \in {"ok", "error"})

\* Orders reach the book in platform_seq order (book.rs: "orders arrive in
\* platform_seq order, push_back").
ArriveInSeqOrder ==
    \A c \in Engines : \A i, j \in DOMAIN applied[c] :
        i < j => applied[c][i].seq < applied[c][j].seq

=============================================================================
