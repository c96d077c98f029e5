------------------------------ MODULE Stamping ------------------------------
(***************************************************************************)
(* Where platform_seq comes from: the time-service (crates/time-service)   *)
(* hands out blocks of sequence numbers, and the Stamper of each           *)
(* fairness-gateway (apps/fairness-gateway/gateway/stamper.go) spends its  *)
(* block one number per order.                                             *)
(*                                                                         *)
(* The service keeps its counter in memory.  A background task writes it   *)
(* to a file every second, and a restarted service resumes SAFETY_GAP      *)
(* above what the file says.  Between two writes any number of blocks may  *)
(* be handed out, and the process may die at any point, the middle of a    *)
(* write included.  StampClock adds the timestamps.                        *)
(***************************************************************************)
EXTENDS Integers, Sequences

CONSTANTS
    Gateways,      \* the gateways, each with one Stamper
    BatchSize,     \* the batch a Stamper asks for (NewStamper never settles on 0)
    BatchMax,      \* DEFAULT_BATCH_MAX, the server's clamp
    SafetyGap,     \* SAFETY_GAP
    WithinGap,     \* TRUE: the service only dies while SAFETY_GAP covers it
    MaxSeq,        \* the counter stops below this (a bound)
    MaxStamps,     \* how many orders are stamped (a bound)
    MaxCrashes,    \* how often the service dies (a bound)
    MaxOrphans     \* abandoned requests still on their way (a bound)

ASSUME SizesAssumption ==
    /\ BatchSize \in Nat \ {0} /\ BatchMax \in Nat \ {0} /\ SafetyGap \in Nat
    /\ {MaxSeq, MaxStamps, MaxCrashes, MaxOrphans} \subseteq Nat
ASSUME WithinGapAssumption == WithinGap \in BOOLEAN

VARIABLES
    up,            \* is the time-service process running?
    next_seq,      \* Clock.next_seq, meaningful while up
    file,          \* the high-watermark file; Unreadable: missing or truncated
    persister,     \* where the persister is in its loop
    loaded,        \* the high-watermark the persister is writing
    nextSeq,       \* Stamper.nextSeq
    endSeq,        \* Stamper.endSeq
    call,          \* the Stamper's NextStamps call, if any
    first,         \* first_seq of the response on its way to the Stamper
    orphans,       \* requests given up by their caller, not yet served
    stamped,       \* history: the stamps issued, in order
    crashes

persistVars == <<file, persister, loaded>>
serviceVars == <<up, next_seq, persistVars>>
stamperVars == <<nextSeq, endSeq, call, first>>
vars == <<serviceVars, stamperVars, orphans, stamped, crashes>>

Unreadable == -1

\* read_to_string, parse: anything unreadable counts as 0.
ParsedHwm == IF file = Unreadable THEN 0 ELSE file

\* What a restart would resume from.
StartingSeq == ParsedHwm + SafetyGap

Clamp(n) == IF n < 1 THEN 1 ELSE IF n > BatchMax THEN BatchMax ELSE n

\* The service starts without a file and reads 0.
Init ==
    /\ up = TRUE
    /\ file = Unreadable
    /\ next_seq = SafetyGap
    /\ persister = "asleep"
    /\ loaded = 0
    /\ nextSeq = [g \in Gateways |-> 0]
    /\ endSeq = [g \in Gateways |-> 0]
    /\ call = [g \in Gateways |-> "none"]
    /\ first = [g \in Gateways |-> 0]
    /\ orphans = 0
    /\ stamped = << >>
    /\ crashes = 0

-----------------------------------------------------------------------------
(***************************************************************************)
(* Stamper.Next.  The mutex is held from the test of the window to the     *)
(* return, the RPC included, so a Stamper has at most one call in flight.  *)
(***************************************************************************)

Issue(g, seq) == stamped' = Append(stamped, [gateway |-> g, seq |-> seq])

\* The window has a stamp left.
NextFromWindow(g) ==
    /\ call[g] = "none"
    /\ nextSeq[g] < endSeq[g]
    /\ Len(stamped) < MaxStamps
    /\ Issue(g, nextSeq[g])
    /\ nextSeq' = [nextSeq EXCEPT ![g] = @ + 1]
    /\ UNCHANGED <<serviceVars, endSeq, call, first, orphans, crashes>>

\* The window is spent: ask for a new one.
RequestBatch(g) ==
    /\ call[g] = "none"
    /\ nextSeq[g] >= endSeq[g]
    /\ Len(stamped) < MaxStamps
    /\ call' = [call EXCEPT ![g] = "requested"]
    /\ UNCHANGED <<serviceVars, nextSeq, endSeq, first, orphans, stamped, crashes>>

\* The response arrives: install the window and take its first stamp.
InstallBatch(g) ==
    /\ call[g] = "granted"
    /\ Len(stamped) < MaxStamps
    /\ Issue(g, first[g])
    /\ nextSeq' = [nextSeq EXCEPT ![g] = first[g] + 1]
    /\ endSeq' = [endSeq EXCEPT ![g] = first[g] + Clamp(BatchSize)]
    /\ call' = [call EXCEPT ![g] = "none"]
    /\ first' = [first EXCEPT ![g] = 0]
    /\ UNCHANGED <<serviceVars, orphans, crashes>>

\* Faulty variant: Next returns the error without ending its call.
RequestFailsHeld(g) ==
    /\ call[g] \in {"requested", "granted"}
    /\ call' = [call EXCEPT ![g] = "failed"]
    /\ UNCHANGED <<serviceVars, nextSeq, endSeq, first, orphans, stamped, crashes>>

\* The call fails (deadline, broken connection): Next returns the error and
\* keeps the spent window.  The server may yet serve the request.
RequestFails(g) ==
    /\ call[g] \in {"requested", "granted"}
    /\ call' = [call EXCEPT ![g] = "none"]
    /\ first' = [first EXCEPT ![g] = 0]
    /\ \/ orphans' = orphans
       \/ call[g] = "requested" /\ orphans < MaxOrphans /\ orphans' = orphans + 1
    /\ UNCHANGED <<serviceVars, nextSeq, endSeq, stamped, crashes>>

-----------------------------------------------------------------------------
(***************************************************************************)
(* The time-service.                                                       *)
(***************************************************************************)

\* Faulty variant: the counter is left at the last number of the block.
ReserveToLast ==
    /\ up
    /\ next_seq + Clamp(BatchSize) <= MaxSeq
    /\ next_seq' = next_seq + (Clamp(BatchSize) - 1)

\* Clock::reserve: one atomic fetch_add.
Reserve ==
    /\ up
    /\ next_seq + Clamp(BatchSize) <= MaxSeq
    /\ next_seq' = next_seq + Clamp(BatchSize)

\* next_stamps for a waiting Stamper.
NextStamps(g) ==
    /\ call[g] = "requested"
    /\ Reserve
    /\ call' = [call EXCEPT ![g] = "granted"]
    /\ first' = [first EXCEPT ![g] = next_seq]
    /\ UNCHANGED <<up, persistVars, nextSeq, endSeq, orphans, stamped, crashes>>

\* next_stamps for a caller that has gone: the block is spent all the same.
NextStampsUnheard ==
    /\ orphans > 0
    /\ Reserve
    /\ orphans' = orphans - 1
    /\ UNCHANGED <<up, persistVars, stamperVars, stamped, crashes>>

\* The persister wakes up and loads the high-watermark.
PersistWakes ==
    /\ up
    /\ persister = "asleep"
    /\ persister' = "loaded"
    /\ loaded' = next_seq
    /\ UNCHANGED <<up, next_seq, file, stamperVars, orphans, stamped, crashes>>

\* fs::write opens the file with truncation, then writes it.
PersistTruncates ==
    /\ up
    /\ persister = "loaded"
    /\ persister' = "truncated"
    /\ file' = Unreadable
    /\ UNCHANGED <<up, next_seq, loaded, stamperVars, orphans, stamped, crashes>>

PersistWrites ==
    /\ up
    /\ persister = "truncated"
    /\ persister' = "asleep"
    /\ file' = loaded
    /\ loaded' = 0
    /\ UNCHANGED <<up, next_seq, stamperVars, orphans, stamped, crashes>>

\* An error of fs::write is dropped (`let _ =`), before or after truncation.
PersistFails ==
    /\ up
    /\ persister \in {"loaded", "truncated"}
    /\ persister' = "asleep"
    /\ loaded' = 0
    /\ UNCHANGED <<up, next_seq, file, stamperVars, orphans, stamped, crashes>>

\* The process dies: the counter and the persister's value are lost.
Crash ==
    /\ up
    /\ crashes < MaxCrashes
    /\ WithinGap => next_seq <= StartingSeq
    /\ crashes' = crashes + 1
    /\ up' = FALSE
    /\ next_seq' = 0
    /\ persister' = "asleep"
    /\ loaded' = 0
    /\ UNCHANGED <<file, stamperVars, orphans, stamped>>

\* Faulty variant: the safety gap is forgotten.
RestartWithoutGap ==
    /\ ~ up
    /\ up' = TRUE
    /\ next_seq' = ParsedHwm
    /\ UNCHANGED <<persistVars, stamperVars, orphans, stamped, crashes>>

\* main: read the file, resume SAFETY_GAP above it.
Restart ==
    /\ ~ up
    /\ up' = TRUE
    /\ next_seq' = StartingSeq
    /\ UNCHANGED <<persistVars, stamperVars, orphans, stamped, crashes>>

-----------------------------------------------------------------------------
Next ==
    \/ \E g \in Gateways :
          \/ NextFromWindow(g) \/ RequestBatch(g) \/ InstallBatch(g)
          \/ RequestFails(g) \/ NextStamps(g)
    \/ NextStampsUnheard
    \/ PersistWakes \/ PersistTruncates \/ PersistWrites \/ PersistFails
    \/ Crash \/ Restart

Spec == Init /\ [][Next]_vars

-----------------------------------------------------------------------------
(***************************************************************************)
(* Properties.                                                             *)
(***************************************************************************)

\* Every variable has its type.
TypeOK ==
    /\ up \in BOOLEAN
    /\ next_seq \in Nat
    /\ file \in Nat \cup {Unreadable}
    /\ persister \in {"asleep", "loaded", "truncated"}
    /\ loaded \in Nat
    /\ nextSeq \in [Gateways -> Nat]
    /\ endSeq \in [Gateways -> Nat]
    /\ call \in [Gateways -> {"none", "requested", "granted"}]
    /\ first \in [Gateways -> Nat]
    /\ orphans \in Nat
    /\ stamped \in Seq([gateway : Gateways, seq : Nat])
    /\ crashes \in Nat

\* No two orders get the same platform_seq, whichever gateways stamped them
\* and however often the service restarted in between (time-service main.rs:
\* "so restarts never collide with sequence numbers already handed out").
StampsUnique ==
    \A i, j \in DOMAIN stamped : stamped[i].seq = stamped[j].seq => i = j

\* The stamps of one gateway increase (design 2.3: "Strict monotonicity of
\* platform_seq within a run").
StampsIncrease ==
    \A i, j \in DOMAIN stamped :
        i < j /\ stamped[i].gateway = stamped[j].gateway => stamped[i].seq < stamped[j].seq

=============================================================================
