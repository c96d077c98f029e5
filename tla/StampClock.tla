----------------------------- MODULE StampClock -----------------------------
(***************************************************************************)
(* The timestamps that go with the sequence numbers of Stamping.           *)
(*                                                                         *)
(* The time-service reads the wall clock once, when it starts, and then    *)
(* adds what its own monotonic clock has elapsed.  A Stamper keeps the     *)
(* first_ts_ns of its window and the moment it received it, and adds what  *)
(* the monotonic clock of its machine has elapsed since to every stamp.    *)
(* These clocks do not run at one rate.  A request and its response may    *)
(* take any time, and a restarted service starts from whatever the wall    *)
(* clock says then.                                                        *)
(*                                                                         *)
(* Every action is one of Stamping's with what it does to the clocks.      *)
(***************************************************************************)
EXTENDS Stamping

CONSTANTS
    MaxTime,     \* how far the service's monotonic clock advances (a bound)
    MaxRate,     \* ticks of a gateway's clock in one of the service's (a bound)
    MaxWall      \* latest wall clock at a boot (a bound)

ASSUME ClockAssumption == {MaxTime, MaxRate, MaxWall} \subseteq Nat

VARIABLES
    now,         \* the service's monotonic clock
    local,       \* the monotonic clock of each gateway
    bootTs,      \* Clock.boot_ts_ns
    bootAt,      \* Clock.start_instant
    firstTs,     \* first_ts_ns of the response on its way to a Stamper
    originTs,    \* Stamper.originTs
    originAt,    \* Stamper.originAt
    lastTs,      \* history: each gateway's last platform_ts_ns
    setback,     \* history: by how much restarts have set the service back
    gained       \* history: what each local clock has gained on the service's

bootVars == <<bootTs, bootAt, setback>>
windowVars == <<originTs, originAt, lastTs>>
timeVars == <<now, local, gained>>
clockVars == <<timeVars, bootVars, firstTs, windowVars>>

ClockInit ==
    /\ Init
    /\ now = 0 /\ bootAt = 0 /\ bootTs \in 0 .. MaxWall /\ setback = 0
    /\ local = [g \in Gateways |-> 0]
    /\ firstTs = [g \in Gateways |-> 0]
    /\ originTs = [g \in Gateways |-> 0]
    /\ originAt = [g \in Gateways |-> 0]
    /\ lastTs = [g \in Gateways |-> 0]
    /\ gained = [g \in Gateways |-> 0]

\* Clock::reserve: boot_ts_ns plus what has elapsed since.
ServiceTime == bootTs + (now - bootAt)

\* Time passes.  A local clock may stand still, keep pace or run ahead.
Tick ==
    /\ now < MaxTime
    /\ now' = now + 1
    /\ \E rate \in [Gateways -> 0 .. MaxRate] :
          /\ local' = [g \in Gateways |-> local[g] + rate[g]]
          /\ gained' = [g \in Gateways |->
                           IF rate[g] > 1 THEN gained[g] + (rate[g] - 1) ELSE gained[g]]
    /\ UNCHANGED <<vars, bootVars, firstTs, windowVars>>

\* Next: the origin of the window plus the time since it was installed.
StampFromWindow(g) ==
    /\ NextFromWindow(g)
    /\ lastTs' = [lastTs EXCEPT ![g] = originTs[g] + (local[g] - originAt[g])]
    /\ UNCHANGED <<timeVars, bootVars, firstTs, originTs, originAt>>

RequestWindow(g) == RequestBatch(g) /\ UNCHANGED clockVars

\* Faulty variant: the window's age is counted from the last one's origin.
KeepOriginAt(g) ==
    /\ InstallBatch(g)
    /\ originTs' = [originTs EXCEPT ![g] = firstTs[g]]
    /\ lastTs' = [lastTs EXCEPT ![g] = firstTs[g] + (local[g] - originAt[g])]
    /\ firstTs' = [firstTs EXCEPT ![g] = 0]
    /\ UNCHANGED <<timeVars, bootVars, originAt>>

\* The response is installed and its first stamp issued, with no time elapsed.
InstallWindow(g) ==
    /\ InstallBatch(g)
    /\ originTs' = [originTs EXCEPT ![g] = firstTs[g]]
    /\ originAt' = [originAt EXCEPT ![g] = local[g]]
    /\ lastTs' = [lastTs EXCEPT ![g] = firstTs[g]]
    /\ firstTs' = [firstTs EXCEPT ![g] = 0]
    /\ UNCHANGED <<timeVars, bootVars>>

WindowFails(g) ==
    /\ RequestFails(g)
    /\ firstTs' = [firstTs EXCEPT ![g] = 0]
    /\ UNCHANGED <<timeVars, bootVars, windowVars>>

\* next_stamps: the clock is read after the numbers are drawn.
GrantWindow(g) ==
    /\ NextStamps(g)
    /\ firstTs' = [firstTs EXCEPT ![g] = ServiceTime]
    /\ UNCHANGED <<timeVars, bootVars, windowVars>>

\* Clock::new reads the wall clock again, and nothing compares it with what
\* the last life of the service handed out.
Reboot ==
    /\ Restart
    /\ bootTs' \in 0 .. MaxWall
    /\ bootAt' = now
    /\ setback' = IF bootTs' < ServiceTime THEN setback + (ServiceTime - bootTs') ELSE setback
    /\ UNCHANGED <<timeVars, firstTs, windowVars>>

Untimed ==
    /\ \/ NextStampsUnheard \/ PersistWakes \/ PersistTruncates \/ PersistWrites
       \/ PersistFails \/ Crash
    /\ UNCHANGED clockVars

ClockNext ==
    \/ Tick \/ Reboot \/ Untimed
    \/ \E g \in Gateways :
          \/ StampFromWindow(g) \/ RequestWindow(g) \/ InstallWindow(g)
          \/ WindowFails(g) \/ GrantWindow(g)

ClockSpec == ClockInit /\ [][ClockNext]_<<vars, clockVars>>

-----------------------------------------------------------------------------
(***************************************************************************)
(* Properties.                                                             *)
(***************************************************************************)

\* What the clocks themselves account for: restarts that set the service
\* back, and a local clock that outran the service's.
ClockError(g) == setback + gained[g]

\* A gateway's timestamps go back only where a window is installed
\* (stamper.go: "so it stays monotonic between refills"), and there, over
\* responses that are already old, failed calls and restarts of the service,
\* by no more than the clocks account for; nor is a stamp dated later than the
\* service's time by more than that.
TimestampsForward ==
    [][\A g \in Gateways :
          /\ lastTs'[g] < lastTs[g] => call[g] = "granted"
          /\ lastTs'[g] + ClockError(g)' >= lastTs[g]
          /\ lastTs'[g] <= ServiceTime' + ClockError(g)']_<<vars, clockVars>>

=============================================================================
