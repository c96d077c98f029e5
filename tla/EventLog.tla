------------------------------ MODULE EventLog ------------------------------
(***************************************************************************)
(* The gateway's event log, from the WebSocket connections that make       *)
(* orders to the telemetry-sidecar that follows the file.                  *)
(*                                                                         *)
(* Each connection (transport/ws.go) is a loop that reads a frame, runs    *)
(* Server.Handle and writes an answer.  Handle hands three rows of an      *)
(* order to the FileSink (gateway/sink_file.go): the order, and the reply  *)
(* of each engine.  A row is one line; it is written under the sink's      *)
(* mutex, but neither at once nor surely: a reader of the file may see the *)
(* head of a row without its tail, and a write that fails leaves nothing   *)
(* or the head.  The sidecar reads lines up to the end of the file, and a  *)
(* line without its end counts when there is nothing more to read.         *)
(*                                                                         *)
(* What the engines do with an order is HotPath's matter.                  *)
(***************************************************************************)
EXTENDS Integers, SequencesExt

CONSTANTS
    Conns,       \* the WebSocket connections
    Sent,        \* the frames the client of each connection sends, in order
    MaxFaults    \* failed writes, stamps, calls, reads and connections (a bound)

Engines == {"submission", "oracle"}
FrameKinds == {"order", "bad json", "binary"}

ASSUME SentAssumption == Sent \in [Conns -> Seq(FrameKinds)]
ASSUME FaultsAssumption == MaxFaults \in Nat

\* eventRow: the order of one frame on its way in, or one engine's reply.
Rows == UNION {{c} \X (1 .. Len(Sent[c])) \X (Engines \cup {"in"}) : c \in Conns}

VARIABLES
    serving,     \* has the gateway opened the file and begun to serve?
    step,        \* where each connection's loop is
    got,         \* how many frames it has read
    call,        \* its Submit call to each engine
    gone,        \* connections whose client has gone
    answers,     \* the answers each client was sent: frame and outcome
    writing,     \* rows being written by someone who holds the sink's mutex
    returned,    \* rows whose write has returned, well or badly
    file,        \* the event log: heads and tails of rows
    lost,        \* writes that failed
    reader,      \* what the sidecar does
    pos,         \* how much of the file it has read
    line,        \* the line it is reading
    echoed,      \* what it has echoed, one line after the other
    faults

connVars == <<serving, step, got, call, gone, answers>>
sinkVars == <<writing, returned, file, lost>>
sidecarVars == <<reader, pos, line, echoed>>
vars == <<connVars, sinkVars, sidecarVars, faults>>

NoCall == [e \in Engines |-> "none"]

Init ==
    /\ serving = FALSE
    /\ step = [c \in Conns |-> "connecting"]
    /\ got = [c \in Conns |-> 0]
    /\ call = [c \in Conns |-> NoCall]
    /\ gone = {}
    /\ answers = [c \in Conns |-> << >>]
    /\ writing = {} /\ returned = {} /\ file = << >> /\ lost = 0
    /\ reader = "opening" /\ pos = 0 /\ line = << >> /\ echoed = << >>
    /\ faults = 0

Fault == faults < MaxFaults /\ faults' = faults + 1

-----------------------------------------------------------------------------
(***************************************************************************)
(* FileSink.                                                               *)
(***************************************************************************)

\* NewFileSink creates the file before the gateway serves.
OpenSink ==
    /\ ~ serving
    /\ serving' = TRUE
    /\ UNCHANGED <<step, got, call, gone, answers, sinkVars, sidecarVars, faults>>

\* Faulty variant: the mutex is not taken.
WriteHeadUnlocked(row) ==
    \/ /\ file' = Append(file, <<row, "head">>)
       /\ writing' = writing \cup {row}
       /\ UNCHANGED <<returned, lost, faults>>
    \/ /\ Fault
       /\ lost' = lost + 1
       /\ returned' = returned \cup {row}
       /\ UNCHANGED <<writing, file>>

\* write takes the mutex and begins; or it fails with nothing written, and
\* the error is dropped.
WriteHead(row) ==
    /\ writing = {}
    /\ \/ /\ file' = Append(file, <<row, "head">>)
          /\ writing' = {row}
          /\ UNCHANGED <<returned, lost, faults>>
       \/ /\ Fault
          /\ lost' = lost + 1
          /\ returned' = returned \cup {row}
          /\ UNCHANGED <<writing, file>>

\* write ends with the rest of the row and its newline, or fails before it.
WriteTail(row) ==
    /\ row \in writing
    /\ writing' = writing \ {row}
    /\ returned' = returned \cup {row}
    /\ \/ file' = Append(file, <<row, "tail">>) /\ UNCHANGED <<lost, faults>>
       \/ Fault /\ lost' = lost + 1 /\ UNCHANGED file
    /\ UNCHANGED <<connVars, sidecarVars>>

-----------------------------------------------------------------------------
(***************************************************************************)
(* WSHandler.                                                              *)
(***************************************************************************)

RowOf(c, kind) == <<c, got[c], kind>>

\* c.Write; its error is dropped.
Answer(c, frame, outcome) ==
    answers' = IF c \in gone THEN answers
               ELSE [answers EXCEPT ![c] = Append(@, [frame |-> frame, outcome |-> outcome])]

Accept(c) ==
    /\ serving
    /\ step[c] = "connecting"
    /\ step' = [step EXCEPT ![c] = "reading"]
    /\ UNCHANGED <<serving, got, call, gone, answers, sinkVars, sidecarVars, faults>>

\* The loop's reaction to a frame: binary frames are skipped, bad JSON is
\* answered at once, an order goes to Handle.
TakeFrame(c) ==
    LET k == got[c] + 1 IN
    /\ k <= Len(Sent[c])
    /\ got' = [got EXCEPT ![c] = k]
    /\ step' = IF Sent[c][k] = "order" THEN [step EXCEPT ![c] = "stamping"] ELSE step
    /\ IF Sent[c][k] = "bad json" THEN Answer(c, k, "error") ELSE UNCHANGED answers
    /\ UNCHANGED <<serving, call, gone, sinkVars, sidecarVars, faults>>

\* Faulty variant: a frame is read while an order is being handled.
ReadFrameAhead(c) == step[c] \notin {"connecting", "closed"} /\ TakeFrame(c)

ReadFrame(c) == step[c] = "reading" /\ TakeFrame(c)

\* The client closes its side.  The request's context was hijacked with the
\* connection and is not cancelled: a running Handle goes on.
ClientLeaves(c) ==
    /\ Fault
    /\ step[c] \notin {"connecting", "closed"}
    /\ c \notin gone
    /\ gone' = gone \cup {c}
    /\ UNCHANGED <<serving, step, got, call, answers, sinkVars, sidecarVars>>

\* c.Read fails: the handler returns.
ReadFails(c) ==
    /\ step[c] = "reading"
    /\ c \in gone
    /\ step' = [step EXCEPT ![c] = "closed"]
    /\ UNCHANGED <<serving, got, call, gone, answers, sinkVars, sidecarVars, faults>>

\* Handle gets no stamp: an error answer.
StampFails(c) ==
    /\ Fault
    /\ step[c] = "stamping"
    /\ Answer(c, got[c], "error")
    /\ step' = [step EXCEPT ![c] = "reading"]
    /\ UNCHANGED <<serving, got, call, gone, sinkVars, sidecarVars>>

\* Handle stamps the order and hands it to the sink (OnIn).
OnIn(c) ==
    /\ step[c] = "stamping"
    /\ WriteHead(RowOf(c, "in"))
    /\ step' = [step EXCEPT ![c] = "logging"]
    /\ UNCHANGED <<serving, got, call, gone, answers, sidecarVars>>

\* OnIn has returned: both engines are called.
CallEngines(c) ==
    /\ step[c] = "logging"
    /\ RowOf(c, "in") \in returned
    /\ step' = [step EXCEPT ![c] = "calling"]
    /\ call' = [call EXCEPT ![c] = [e \in Engines |-> "waiting"]]
    /\ UNCHANGED <<serving, got, gone, answers, sinkVars, sidecarVars, faults>>

\* A reply arrives and is handed to the sink (OnReply).
OnReply(c, e) ==
    /\ call[c][e] = "waiting"
    /\ WriteHead(RowOf(c, e))
    /\ call' = [call EXCEPT ![c][e] = "replied"]
    /\ UNCHANGED <<serving, step, got, gone, answers, sidecarVars>>

CallFails(c, e) ==
    /\ Fault
    /\ call[c][e] = "waiting"
    /\ call' = [call EXCEPT ![c][e] = "failed"]
    /\ UNCHANGED <<serving, step, got, gone, answers, sinkVars, sidecarVars>>

\* wg.Wait is over: the submission's reply, or the error.
Finish(c) ==
    /\ step[c] = "calling"
    /\ \A e \in Engines :
           call[c][e] = "failed" \/ (call[c][e] = "replied" /\ RowOf(c, e) \in returned)
    /\ Answer(c, got[c], IF \E e \in Engines : call[c][e] = "failed" THEN "error" ELSE "ok")
    /\ step' = [step EXCEPT ![c] = "reading"]
    /\ call' = [call EXCEPT ![c] = NoCall]
    /\ UNCHANGED <<serving, got, gone, sinkVars, sidecarVars, faults>>

-----------------------------------------------------------------------------
(***************************************************************************)
(* The telemetry-sidecar.                                                  *)
(***************************************************************************)

\* The file is polled for until it exists.
OpenLog ==
    /\ reader = "opening"
    /\ serving
    /\ reader' = "reading"
    /\ UNCHANGED <<pos, line, echoed, connVars, sinkVars, faults>>

\* read_line goes on to the newline; a whole line is echoed and cleared.
ReadMore ==
    /\ reader = "reading"
    /\ pos < Len(file)
    /\ pos' = pos + 1
    /\ LET chunk == file[pos + 1]
           all == Append(line, chunk)
       IN  IF chunk[2] = "tail"
           THEN echoed' = echoed \o all /\ line' = << >>
           ELSE line' = all /\ UNCHANGED echoed
    /\ UNCHANGED <<reader, connVars, sinkVars, faults>>

\* Faulty variant: line.clear() is missing.
EchoPartialUncleared ==
    /\ reader = "reading"
    /\ pos = Len(file)
    /\ line # << >>
    /\ echoed' = echoed \o line
    /\ reader' = "asleep"
    /\ UNCHANGED <<pos, line, connVars, sinkVars, faults>>

\* read_line meets the end of the file within a line: what there is of it is
\* echoed as a line.
EchoPartial ==
    /\ reader = "reading"
    /\ pos = Len(file)
    /\ line # << >>
    /\ echoed' = echoed \o line
    /\ line' = << >>
    /\ UNCHANGED <<reader, pos, connVars, sinkVars, faults>>

\* Faulty variant: the loop ends at the end of the file.
StopAtEnd ==
    /\ reader = "reading"
    /\ pos = Len(file)
    /\ line = << >>
    /\ reader' = "ended"
    /\ UNCHANGED <<pos, line, echoed, connVars, sinkVars, faults>>

\* Nothing to read: sleep 100 ms.
SleepAtEnd ==
    /\ reader = "reading"
    /\ pos = Len(file)
    /\ line = << >>
    /\ reader' = "asleep"
    /\ UNCHANGED <<pos, line, echoed, connVars, sinkVars, faults>>

Wake ==
    /\ reader = "asleep"
    /\ reader' = "reading"
    /\ UNCHANGED <<pos, line, echoed, connVars, sinkVars, faults>>

\* read_line fails: main returns the error.
SidecarFails ==
    /\ Fault
    /\ reader = "reading"
    /\ reader' = "failed"
    /\ UNCHANGED <<pos, line, echoed, connVars, sinkVars>>

-----------------------------------------------------------------------------
Connection(c) ==
    \/ Accept(c) \/ ReadFrame(c) \/ ClientLeaves(c) \/ ReadFails(c)
    \/ StampFails(c) \/ OnIn(c) \/ CallEngines(c) \/ Finish(c)
    \/ \E e \in Engines : OnReply(c, e) \/ CallFails(c, e)

Follow == OpenLog \/ ReadMore \/ EchoPartial \/ SleepAtEnd \/ Wake

Next ==
    \/ OpenSink
    \/ \E c \in Conns : Connection(c)
    \/ \E row \in writing : WriteTail(row)
    \/ Follow \/ SidecarFails

\* The gateway starts, a write that has begun returns, and the sidecar runs on.
\* Clients and engines may stop at any point.
Fairness ==
    /\ WF_vars(OpenSink)
    /\ WF_vars(\E row \in writing : WriteTail(row))
    /\ WF_vars(Follow)

Spec == Init /\ [][Next]_vars /\ Fairness

-----------------------------------------------------------------------------
(***************************************************************************)
(* Properties.                                                             *)
(***************************************************************************)

\* Every variable has its type.
TypeOK ==
    /\ serving \in BOOLEAN
    /\ step \in [Conns -> {"connecting", "reading", "stamping", "logging", "calling", "closed"}]
    /\ \A c \in Conns : got[c] \in 0 .. Len(Sent[c])
    /\ call \in [Conns -> [Engines -> {"none", "waiting", "replied", "failed"}]]
    /\ gone \subseteq Conns
    /\ writing \subseteq Rows /\ returned \subseteq Rows
    /\ \A i \in DOMAIN file : file[i][1] \in Rows /\ file[i][2] \in {"head", "tail"}
    /\ lost \in 0 .. MaxFaults /\ faults \in 0 .. MaxFaults
    /\ reader \in {"opening", "reading", "asleep", "failed"}
    /\ pos \in 0 .. Len(file)

IsLineEnd(i) == i = 0 \/ file[i][2] = "tail"

\* A row is whole in the file if it is a line of its own.
Whole(row) ==
    \E i \in DOMAIN file :
        /\ IsLineEnd(i - 1) /\ file[i] = <<row, "head">>
        /\ i < Len(file) /\ file[i + 1] = <<row, "tail">>

\* A write that fails, and whose error is dropped, costs at most two rows: its
\* own, and the next one, which goes on the torn line.  All other rows whose
\* write has returned are lines of their own, although the handlers of all
\* connections and both of their calls write at once.
DamageBounded ==
    Cardinality({row \in returned : ~ Whole(row)}) <= 2 * lost

\* The sidecar echoes the log: its lines, one after the other, are what it has
\* read of the file, nothing left out and nothing twice, however its reads
\* fall between the writes and however the rows are cut.
EchoFollowsLog == echoed \o line = SubSeq(file, 1, pos)

TextFrames(c) == {k \in 1 .. got[c] : Sent[c][k] # "binary"}
Busy(c) == step[c] \in {"stamping", "logging", "calling"}

\* A connection answers its text frames one by one, in the order they were
\* sent, and leaves none out while its client is there.
RepliesInOrder ==
    \A c \in Conns :
        /\ \A i, j \in DOMAIN answers[c] : i < j => answers[c][i].frame < answers[c][j].frame
        /\ c \notin gone =>
               {answers[c][i].frame : i \in DOMAIN answers[c]} =
                   TextFrames(c) \ (IF Busy(c) THEN {got[c]} ELSE {})

\* All that reaches the file is echoed in the end, unless reading it fails: the
\* sidecar is never behind for good.
AllEchoed == []<>(Len(echoed) = Len(file) \/ reader = "failed")

=============================================================================
