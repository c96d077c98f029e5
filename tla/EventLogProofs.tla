--------------------------- MODULE EventLogProofs ---------------------------
(***************************************************************************)
(* The log keeps its promises for any connections and frames and any       *)
(* number of failures: clients are answered in order, the sidecar echoes   *)
(* what it has read of the file, and a failed write costs two rows.        *)
(*                                                                         *)
(* A connection works on at most one frame, the last it has read, and no   *)
(* answer is for that one or a later one.  Of the sink it is enough to     *)
(* know the end of the file: whoever holds the mutex has just written the  *)
(* head of his row there, and when nobody does a head at the end is torn.  *)
(***************************************************************************)
EXTENDS EventLog, FiniteSetTheorems, SequenceTheorems, TLAPS

Chunks == Rows \X {"head", "tail"}
Answers == [frame : Nat, outcome : {"ok", "error"}]

Typed ==
    /\ serving \in BOOLEAN
    /\ step \in [Conns -> {"connecting", "reading", "stamping", "logging", "calling", "closed"}]
    /\ got \in [Conns -> Nat] /\ \A c \in Conns : got[c] <= Len(Sent[c])
    /\ call \in [Conns -> [Engines -> {"none", "waiting", "replied", "failed"}]]
    /\ gone \subseteq Conns
    /\ writing \subseteq Rows /\ returned \subseteq Rows
    /\ lost \in Nat /\ faults \in Nat /\ lost <= faults /\ faults <= MaxFaults
    /\ reader \in {"opening", "reading", "asleep", "failed"}

\* A connection that handles a frame handles the order it read last, and calls
\* the engines for no other.
InHand ==
    \A c \in Conns :
        /\ Busy(c) => got[c] \in 1 .. Len(Sent[c]) /\ Sent[c][got[c]] = "order"
        /\ step[c] # "calling" => \A e \in Engines : call[c][e] = "none"

\* The file is a sequence of heads and tails, and is only read up to its end.
FileTyped ==
    /\ file \in Seq(Chunks) /\ pos \in 0 .. Len(file)
    /\ line \in Seq(Chunks) /\ echoed \in Seq(Chunks)

\* One connection's answers: those of its text frames, in order, up to the
\* frame in hand.
RepliesOf(c) ==
    /\ \A i \in DOMAIN answers[c] :
           answers[c][i].frame <= got[c] /\ (Busy(c) => answers[c][i].frame # got[c])
    /\ \A i, j \in DOMAIN answers[c] : i < j => answers[c][i].frame < answers[c][j].frame
    /\ c \notin gone =>
           {answers[c][i].frame : i \in DOMAIN answers[c]} =
               TextFrames(c) \ (IF Busy(c) THEN {got[c]} ELSE {})

Replies == answers \in [Conns -> Seq(Answers)] /\ \A c \in Conns : RepliesOf(c)

\* At most one row is being written, and its head is the end of the file.
OneWriter ==
    writing # {} =>
        \E row \in Rows : writing = {row} /\ Len(file) > 0 /\ file[Len(file)] = <<row, "head">>

\* The last line is spoilt: the next row written, or the one being written, is
\* not a line of its own.
Spoilt ==
    /\ Len(file) > 0
    /\ IF writing = {} THEN file[Len(file)][2] = "head" ELSE ~ IsLineEnd(Len(file) - 1)

Torn == {row \in returned : ~ Whole(row)}

\* Every lost write pays for two torn rows: a spoilt line has one to come.
Damage ==
    /\ IsFiniteSet(returned)
    /\ Cardinality(Torn) <= 2 * lost
    /\ Spoilt => Cardinality(Torn) + 1 <= 2 * lost

Inv ==
    Typed /\ InHand /\ FileTyped /\ EchoFollowsLog /\ Replies /\ OneWriter /\ Damage

-----------------------------------------------------------------------------
\* The frames a connection sends are a finite sequence.
LEMMA SentFacts ==
    ASSUME NEW c \in Conns
    PROVE  /\ Len(Sent[c]) \in Nat
           /\ \A k \in 1 .. Len(Sent[c]) : Sent[c][k] \in FrameKinds
<1>1. Sent[c] \in Seq(FrameKinds)
  BY SentAssumption
<1> QED
  BY <1>1, LenProperties, ElementOfSeq

\* Every row of a frame that was read is a row of the log.
LEMMA RowFacts ==
    ASSUME NEW c \in Conns, got[c] \in 1 .. Len(Sent[c]), NEW kind \in Engines \cup {"in"}
    PROVE  RowOf(c, kind) \in Rows
BY DEF RowOf, Rows

\* What a write appends to the file.
LEMMA AppendFacts ==
    ASSUME NEW S, NEW q \in Seq(S), NEW x \in S
    PROVE  \E n \in Nat :
               /\ n = Len(q) /\ DOMAIN q = 1 .. n
               /\ Append(q, x) \in Seq(S)
               /\ Len(Append(q, x)) = n + 1 /\ DOMAIN Append(q, x) = 1 .. n + 1
               /\ \A i \in 1 .. n : Append(q, x)[i] = q[i]
               /\ Append(q, x)[n + 1] = x
<1>1. Len(q) \in Nat /\ DOMAIN q = 1 .. Len(q)
  BY LenProperties
<1>2. /\ Append(q, x) \in Seq(S) /\ Len(Append(q, x)) = Len(q) + 1
      /\ \A i \in 1 .. Len(q) : Append(q, x)[i] = q[i]
      /\ Append(q, x)[Len(q) + 1] = x
  BY AppendProperties
<1>3. DOMAIN Append(q, x) = 1 .. Len(q) + 1
  BY <1>2, LenProperties
<1> WITNESS Len(q) \in Nat
<1> QED
  BY <1>1, <1>2, <1>3

-----------------------------------------------------------------------------
(***************************************************************************)
(* Types, and the frame in hand.                                           *)
(***************************************************************************)

\* FileSink.write, begun: the types of the sink's variables.
LEMMA HeadTyped ==
    ASSUME Typed, NEW row \in Rows, WriteHead(row)
    PROVE  /\ writing' \subseteq Rows /\ returned' \subseteq Rows
           /\ lost' \in Nat /\ faults' \in Nat /\ lost' <= faults' /\ faults' <= MaxFaults
BY FaultsAssumption DEF Typed, WriteHead, Fault

\* An action that takes one connection from one step to the next, and leaves
\* its frame in hand.
LEMMA HandMoves ==
    ASSUME Typed, InHand, NEW c \in Conns,
           step[c] = "reading" \/ Busy(c),
           NEW s \in {"connecting", "reading", "stamping", "logging", "calling", "closed"},
           step' = [step EXCEPT ![c] = s],
           got' = got,
           s \in {"stamping", "logging", "calling"} => Busy(c),
           \A d \in Conns \ {c} : call'[d] = call[d],
           s # "calling" => \A e \in Engines : call'[c][e] = "none"
    PROVE  InHand'
<1>1. step'[c] = s /\ \A d \in Conns \ {c} : step'[d] = step[d]
  BY DEF Typed
<1> SUFFICES ASSUME NEW d \in Conns
             PROVE  /\ Busy(d)' => got[d] \in 1 .. Len(Sent[d]) /\ Sent[d][got[d]] = "order"
                    /\ step'[d] # "calling" => \A e \in Engines : call'[d][e] = "none"
  BY DEF InHand
<1>2. CASE d = c
  BY <1>1, <1>2 DEF InHand, Busy
<1>3. CASE d # c
  BY <1>1, <1>3 DEF InHand, Busy
<1> QED
  BY <1>2, <1>3

\* ReadFrame: an order is in hand.
LEMMA HandReads ==
    ASSUME Typed, InHand, NEW c \in Conns, ReadFrame(c)
    PROVE  Typed' /\ InHand'
<1>1. /\ got[c] \in Nat /\ got[c] + 1 \in 1 .. Len(Sent[c])
      /\ got' = [got EXCEPT ![c] = got[c] + 1]
  <2>1. got[c] + 1 <= Len(Sent[c]) /\ got' = [got EXCEPT ![c] = got[c] + 1]
    BY DEF ReadFrame, TakeFrame
  <2>2. got[c] \in Nat /\ Len(Sent[c]) \in Nat
    BY SentFacts DEF Typed
  <2> QED
    BY <2>1, <2>2
<1>2. /\ got' \in [Conns -> Nat] /\ got'[c] = got[c] + 1
      /\ \A d \in Conns : d # c => got'[d] = got[d]
  BY <1>1 DEF Typed
<1>3. /\ UNCHANGED <<serving, call, gone, writing, returned, lost, reader, faults>>
      /\ step[c] = "reading"
  BY DEF ReadFrame, TakeFrame, sinkVars, sidecarVars
<1>4. /\ step' \in [Conns -> {"connecting", "reading", "stamping", "logging", "calling", "closed"}]
      /\ step'[c] = IF Sent[c][got[c] + 1] = "order" THEN "stamping" ELSE "reading"
      /\ \A d \in Conns : d # c => step'[d] = step[d]
  <2>1. CASE Sent[c][got[c] + 1] = "order"
    BY <1>3, <2>1 DEF Typed, ReadFrame, TakeFrame
  <2>2. CASE Sent[c][got[c] + 1] # "order"
    BY <1>3, <2>2 DEF Typed, ReadFrame, TakeFrame
  <2> QED
    BY <2>1, <2>2
<1>5. Typed'
  BY <1>1, <1>2, <1>3, <1>4 DEF Typed
<1>6. InHand'
  <2> SUFFICES ASSUME NEW d \in Conns
               PROVE  /\ Busy(d)' => got'[d] \in 1 .. Len(Sent[d]) /\ Sent[d][got'[d]] = "order"
                      /\ step'[d] # "calling" => \A e \in Engines : call[d][e] = "none"
    BY <1>3 DEF InHand
  <2>1. CASE d = c
    BY <1>1, <1>2, <1>3, <1>4, <2>1 DEF InHand, Busy
  <2>2. CASE d # c
    BY <1>2, <1>4, <2>2 DEF InHand, Busy
  <2> QED
    BY <2>1, <2>2
<1> QED
  BY <1>5, <1>6

\* Every other step of a connection keeps the types and the frame in hand.
LEMMA HandConnection ==
    ASSUME Typed, InHand, NEW c \in Conns, Connection(c)
    PROVE  Typed' /\ InHand'
<1> DEFINE Steps == {"connecting", "reading", "stamping", "logging", "calling", "closed"}
<1> DEFINE Calls == [Engines -> {"none", "waiting", "replied", "failed"}]
<1>1. CASE Accept(c)
  <2>1. step' = [step EXCEPT ![c] = "reading"] /\ step[c] = "connecting"
        /\ UNCHANGED <<got, call, gone, writing, returned, lost, reader, faults, serving>>
    BY <1>1 DEF Accept, sinkVars, sidecarVars
  <2>2. Typed'
    BY <2>1 DEF Typed
  <2>3. step'[c] = "reading" /\ \A d \in Conns : d # c => step'[d] = step[d]
    BY <2>1 DEF Typed
  <2> QED
    BY <2>1, <2>2, <2>3 DEF InHand, Busy
<1>2. CASE ReadFrame(c)
  BY <1>2, HandReads
<1>3. CASE ClientLeaves(c)
  <2>1. UNCHANGED <<serving, step, got, call, writing, returned, lost, reader>>
        /\ gone' \subseteq Conns /\ faults' = faults + 1 /\ faults < MaxFaults
    BY <1>3 DEF ClientLeaves, Fault, sinkVars, sidecarVars, Typed
  <2> QED
    BY <2>1, FaultsAssumption DEF Typed, InHand, Busy
<1>4. CASE ReadFails(c)
  <2>1. step[c] = "reading" /\ step' = [step EXCEPT ![c] = "closed"]
        /\ UNCHANGED <<got, call, gone, writing, returned, lost, reader, faults, serving>>
    BY <1>4 DEF ReadFails, sinkVars, sidecarVars
  <2>2. Typed'
    BY <2>1 DEF Typed
  <2>3. \A e \in Engines : call'[c][e] = "none"
    BY <2>1 DEF InHand
  <2> QED
    BY <2>1, <2>2, <2>3, HandMoves
<1>5. CASE StampFails(c)
  <2>1. step[c] = "stamping" /\ step' = [step EXCEPT ![c] = "reading"]
        /\ UNCHANGED <<got, call, gone, writing, returned, lost, reader, serving>>
        /\ faults' = faults + 1 /\ faults < MaxFaults
    BY <1>5 DEF StampFails, Fault, sinkVars, sidecarVars
  <2>2. Typed'
    BY <2>1, FaultsAssumption DEF Typed
  <2>3. Busy(c) /\ \A e \in Engines : call'[c][e] = "none"
    BY <2>1 DEF InHand, Busy
  <2> QED
    BY <2>1, <2>2, <2>3, HandMoves
<1>6. CASE OnIn(c)
  <2>1. step[c] = "stamping" /\ step' = [step EXCEPT ![c] = "logging"] /\ WriteHead(RowOf(c, "in"))
        /\ UNCHANGED <<got, call, gone, reader, serving>>
    BY <1>6 DEF OnIn, sidecarVars
  <2>2. Busy(c) /\ \A e \in Engines : call'[c][e] = "none"
    BY <2>1 DEF InHand, Busy
  <2>3. RowOf(c, "in") \in Rows
    BY <2>2, RowFacts DEF InHand
  <2>4. /\ writing' \subseteq Rows /\ returned' \subseteq Rows
        /\ lost' \in Nat /\ faults' \in Nat /\ lost' <= faults' /\ faults' <= MaxFaults
    BY <2>1, <2>3, HeadTyped
  <2>5. Typed'
    BY <2>1, <2>4 DEF Typed
  <2> QED
    BY <2>1, <2>2, <2>5, HandMoves
<1>7. CASE CallEngines(c)
  <2>1. step[c] = "logging" /\ step' = [step EXCEPT ![c] = "calling"]
        /\ call' = [call EXCEPT ![c] = [e \in Engines |-> "waiting"]]
        /\ UNCHANGED <<got, gone, writing, returned, lost, reader, faults, serving>>
    BY <1>7 DEF CallEngines, sinkVars, sidecarVars
  <2>2. [e \in Engines |-> "waiting"] \in Calls
    OBVIOUS
  <2>3. Typed' /\ \A d \in Conns \ {c} : call'[d] = call[d]
    BY <2>1, <2>2 DEF Typed
  <2> QED
    BY <2>1, <2>3, HandMoves DEF Busy
<1>8. CASE Finish(c)
  <2>1. step[c] = "calling" /\ step' = [step EXCEPT ![c] = "reading"]
        /\ call' = [call EXCEPT ![c] = NoCall]
        /\ UNCHANGED <<got, gone, writing, returned, lost, reader, faults, serving>>
    BY <1>8 DEF Finish, sinkVars, sidecarVars
  <2>2. NoCall \in Calls /\ \A e \in Engines : NoCall[e] = "none"
    BY DEF NoCall
  <2>3. Typed' /\ call'[c] = NoCall /\ \A d \in Conns \ {c} : call'[d] = call[d]
    BY <2>1, <2>2 DEF Typed
  <2> QED
    BY <2>1, <2>2, <2>3, HandMoves DEF Busy
<1>9. ASSUME NEW e \in Engines, OnReply(c, e) \/ CallFails(c, e)
      PROVE  Typed' /\ InHand'
  <2>1. PICK v \in {"replied", "failed"} : call' = [call EXCEPT ![c][e] = v]
    BY <1>9 DEF OnReply, CallFails
  <2>2. call[c][e] = "waiting" /\ UNCHANGED <<step, got, gone, reader, serving>>
    BY <1>9 DEF OnReply, CallFails, sinkVars, sidecarVars
  <2>3. step[c] = "calling"
    BY <2>2 DEF InHand
  <2>4. got[c] \in 1 .. Len(Sent[c])
    BY <2>3 DEF InHand, Busy
  <2>5. /\ writing' \subseteq Rows /\ returned' \subseteq Rows
        /\ lost' \in Nat /\ faults' \in Nat /\ lost' <= faults' /\ faults' <= MaxFaults
    <3>1. CASE OnReply(c, e)
      <4>1. RowOf(c, e) \in Rows
        BY <2>4, RowFacts
      <4> QED
        BY <3>1, <4>1, HeadTyped DEF OnReply
    <3>2. CASE CallFails(c, e)
      BY <3>2, FaultsAssumption DEF CallFails, Fault, sinkVars, Typed
    <3> QED
      BY <1>9, <3>1, <3>2
  <2>6. call' \in [Conns -> Calls] /\ \A d \in Conns \ {c} : call'[d] = call[d]
    <3> DEFINE new == [call[c] EXCEPT ![e] = v]
    <3>1. call[c] \in Calls /\ new \in Calls
      BY DEF Typed
    <3>2. call' = [call EXCEPT ![c] = new]
      BY <2>1
    <3> HIDE DEF new
    <3> QED
      BY <3>1, <3>2 DEF Typed
  <2>7. Typed'
    BY <2>2, <2>5, <2>6 DEF Typed
  <2>8. InHand'
    BY <2>2, <2>3, <2>6 DEF InHand, Busy
  <2> QED
    BY <2>7, <2>8
<1> QED
  BY <1>1, <1>2, <1>3, <1>4, <1>5, <1>6, <1>7, <1>8, <1>9 DEF Connection

\* Every step keeps the types and the frame in hand.
LEMMA HandStep ==
    ASSUME Typed, InHand, [Next]_vars
    PROVE  Typed' /\ InHand'
<1>1. CASE OpenSink
  BY <1>1 DEF OpenSink, sinkVars, sidecarVars, Typed, InHand, Busy
<1>2. ASSUME NEW c \in Conns, Connection(c)
      PROVE  Typed' /\ InHand'
  BY <1>2, HandConnection
<1>3. ASSUME NEW row \in writing, WriteTail(row)
      PROVE  Typed' /\ InHand'
  <2>1. /\ writing' \subseteq Rows /\ returned' \subseteq Rows
        /\ lost' \in Nat /\ faults' \in Nat /\ lost' <= faults' /\ faults' <= MaxFaults
        /\ UNCHANGED <<serving, step, got, call, gone, reader>>
    BY <1>3, FaultsAssumption DEF WriteTail, Fault, Typed, connVars, sidecarVars
  <2> QED
    BY <2>1 DEF Typed, InHand, Busy
<1>4. CASE Follow \/ SidecarFails
  <2>1. /\ reader' \in {"opening", "reading", "asleep", "failed"}
        /\ faults' \in Nat /\ lost <= faults' /\ faults' <= MaxFaults
        /\ UNCHANGED <<serving, step, got, call, gone, writing, returned, lost>>
    BY <1>4, FaultsAssumption
    DEF Follow, SidecarFails, OpenLog, ReadMore, EchoPartial, SleepAtEnd, Wake, Fault, Typed,
        connVars, sinkVars
  <2> QED
    BY <2>1 DEF Typed, InHand, Busy
<1>5. CASE UNCHANGED vars
  BY <1>5 DEF vars, connVars, sinkVars, sidecarVars, Typed, InHand, Busy
<1> QED
  BY <1>1, <1>2, <1>3, <1>4, <1>5 DEF Next

-----------------------------------------------------------------------------
(***************************************************************************)
(* The file only grows, by a head or a tail at a time, and by one row's    *)
(* writer at a time.                                                       *)
(***************************************************************************)

\* What a step does to the sink: nothing, or what one write of one row does.
LEMMA SinkStep ==
    ASSUME Typed, InHand, [Next]_vars
    PROVE  \/ UNCHANGED sinkVars
           \/ \E row \in Rows : WriteHead(row) /\ UNCHANGED sidecarVars
           \/ \E row \in Rows : WriteTail(row)
<1>1. ASSUME NEW c \in Conns, OnIn(c)
      PROVE  \E row \in Rows : WriteHead(row) /\ UNCHANGED sidecarVars
  <2>1. WriteHead(RowOf(c, "in")) /\ Busy(c) /\ UNCHANGED sidecarVars
    BY <1>1 DEF OnIn, Busy
  <2>2. RowOf(c, "in") \in Rows
    BY <2>1, RowFacts DEF InHand
  <2> QED
    BY <2>1, <2>2
<1>2. ASSUME NEW c \in Conns, NEW e \in Engines, OnReply(c, e)
      PROVE  \E row \in Rows : WriteHead(row) /\ UNCHANGED sidecarVars
  <2>1. WriteHead(RowOf(c, e)) /\ step[c] = "calling" /\ UNCHANGED sidecarVars
    BY <1>2 DEF OnReply, InHand
  <2>2. RowOf(c, e) \in Rows
    BY <2>1, RowFacts DEF InHand, Busy
  <2> QED
    BY <2>1, <2>2
<1>3. ASSUME NEW c \in Conns, Connection(c), ~ OnIn(c), \A e \in Engines : ~ OnReply(c, e)
      PROVE  UNCHANGED sinkVars
  BY <1>3 DEF Connection, Accept, ReadFrame, TakeFrame, ClientLeaves, ReadFails, StampFails,
              CallEngines, Finish, CallFails
<1>4. OpenSink \/ Follow \/ SidecarFails \/ UNCHANGED vars => UNCHANGED sinkVars
  BY DEF OpenSink, Follow, OpenLog, ReadMore, EchoPartial, SleepAtEnd, Wake, SidecarFails, vars
<1>5. writing \subseteq Rows
  BY DEF Typed
<1> QED
  BY <1>1, <1>2, <1>3, <1>4, <1>5 DEF Next

\* A write leaves what was read of the file as it was.
LEMMA PrefixStays ==
    ASSUME NEW S, NEW q \in Seq(S), NEW x \in S, NEW n \in 0 .. Len(q)
    PROVE  n \in 0 .. Len(Append(q, x)) /\ SubSeq(Append(q, x), 1, n) = SubSeq(q, 1, n)
<1>1. PICK m \in Nat : /\ m = Len(q) /\ Append(q, x) \in Seq(S) /\ Len(Append(q, x)) = m + 1
                       /\ \A i \in 1 .. m : Append(q, x)[i] = q[i]
  BY AppendFacts
<1> DEFINE longer == Append(q, x)
<1>2. /\ longer \in Seq(S) /\ n \in Int /\ n \in 0 .. m + 1 /\ n <= m
      /\ \A i \in 1 .. n : longer[i] = q[i]
  BY <1>1
<1>3. \A i \in 1 .. n : q[i] \in S /\ longer[i] \in S
  BY <1>1, <1>2, ElementOfSeq
<1> HIDE DEF longer
<1>4. /\ SubSeq(longer, 1, n) \in Seq(S) /\ SubSeq(q, 1, n) \in Seq(S)
      /\ Len(SubSeq(longer, 1, n)) = n /\ Len(SubSeq(q, 1, n)) = n
      /\ \A i \in 1 .. n : SubSeq(longer, 1, n)[i] = longer[i] /\ SubSeq(q, 1, n)[i] = q[i]
  <2>1. \A s : (\A i \in 1 .. n : s[i] \in S) =>
            /\ SubSeq(s, 1, n) \in Seq(S)
            /\ Len(SubSeq(s, 1, n)) = IF 1 <= n THEN n - 1 + 1 ELSE 0
            /\ \A i \in 1 .. n - 1 + 1 : SubSeq(s, 1, n)[i] = s[1 + i - 1]
    BY <1>2, SubSeqProperties
  <2>2. n - 1 + 1 = n /\ n >= 0 /\ \A i \in 1 .. n : 1 + i - 1 = i
    BY <1>2
  <2> QED
    BY <1>2, <1>3, <2>1, <2>2
<1>5. SubSeq(longer, 1, n) = SubSeq(q, 1, n)
  BY <1>2, <1>4, SeqEqual
<1> QED
  BY <1>1, <1>2, <1>5 DEF longer

\* A chunk joins the line, or what is echoed and the line.
LEMMA JoinedLast ==
    ASSUME NEW S, NEW e \in Seq(S), NEW s \in Seq(S), NEW x \in S
    PROVE  e \o Append(s, x) = (e \o s) \o <<x>>
<1> DEFINE one == <<x>>
<1>1. Append(s, x) = s \o one
  BY AppendIsConcat
<1>2. one \in Seq(S)
  OBVIOUS
<1> HIDE DEF one
<1>3. (e \o s) \o one = e \o (s \o one)
  BY <1>2, ConcatAssociative
<1> QED
  BY <1>1, <1>3 DEF one

\* read_line takes the next chunk of the file.
LEMMA OneMoreRead ==
    ASSUME NEW S, NEW q \in Seq(S), NEW n \in Nat, n < Len(q),
           NEW e \in Seq(S), NEW s \in Seq(S)
    PROVE  /\ q[n + 1] \in S /\ Append(s, q[n + 1]) \in Seq(S)
           /\ e \o s = SubSeq(q, 1, n) => e \o Append(s, q[n + 1]) = SubSeq(q, 1, n + 1)
<1>1. Len(q) \in Nat /\ n + 1 \in 1 .. Len(q) /\ n + 1 \in 1 .. n + 1 /\ 1 \in 1 .. Len(q)
      /\ n + 1 \in 1 .. Len(q) /\ n + 1 - 1 = n
  BY LenProperties
<1>2. q[n + 1] \in S
  BY <1>1, ElementOfSeq
<1>3. Append(s, q[n + 1]) \in Seq(S)
  BY <1>2, AppendProperties
<1>4. e \o Append(s, q[n + 1]) = (e \o s) \o <<q[n + 1]>>
  BY <1>2, JoinedLast
<1>5. SubSeq(q, 1, n + 1) = SubSeq(q, 1, n) \o <<q[n + 1]>>
  BY <1>1, SubSeqRecursiveSecond
<1> QED
  BY <1>2, <1>3, <1>4, <1>5

\* The file's growth leaves what the sidecar has read as it was.
LEMMA EchoSink ==
    ASSUME FileTyped, EchoFollowsLog, NEW chunk \in Chunks, file' = Append(file, chunk),
           UNCHANGED sidecarVars
    PROVE  FileTyped' /\ EchoFollowsLog'
<1>1. file' \in Seq(Chunks)
  BY AppendProperties DEF FileTyped
<1>2. pos \in 0 .. Len(file') /\ SubSeq(file', 1, pos) = SubSeq(file, 1, pos)
  BY PrefixStays DEF FileTyped
<1> QED
  BY <1>1, <1>2 DEF FileTyped, EchoFollowsLog, sidecarVars

\* The sidecar echoes what it reads, once.
LEMMA EchoSidecar ==
    ASSUME FileTyped, EchoFollowsLog, Follow \/ SidecarFails
    PROVE  FileTyped' /\ EchoFollowsLog'
<1>0. file' = file
  BY DEF Follow, SidecarFails, OpenLog, ReadMore, EchoPartial, SleepAtEnd, Wake, sinkVars
<1>e. << >> \in Seq(Chunks) /\ \A s \in Seq(Chunks) : s \o << >> = s
  BY EmptySeq, ConcatEmptySeq
<1>1. CASE ReadMore
  <2> DEFINE chunk == file[pos + 1]
  <2> DEFINE all == Append(line, chunk)
  <2>1. pos \in Nat /\ pos < Len(file) /\ pos' = pos + 1 /\ Len(file) \in Nat
    BY <1>1, LenProperties DEF ReadMore, FileTyped
  <2>2. /\ chunk \in Chunks /\ all \in Seq(Chunks)
        /\ echoed \o all = SubSeq(file, 1, pos + 1)
    BY <2>1, OneMoreRead DEF FileTyped, EchoFollowsLog
  <2>3. IF chunk[2] = "tail" THEN echoed' = echoed \o all /\ line' = << >>
        ELSE line' = all /\ echoed' = echoed
    BY <1>1 DEF ReadMore
  <2> HIDE DEF chunk, all
  <2>4. pos' \in 0 .. Len(file')
    BY <1>0, <2>1
  <2>5. CASE chunk[2] = "tail"
    <3>1. echoed' = echoed \o all /\ line' = << >>
      BY <2>3, <2>5
    <3>2. echoed' \in Seq(Chunks)
      BY <2>2, <3>1, ConcatProperties DEF FileTyped
    <3>3. echoed' \o line' = echoed \o all
      BY <1>e, <3>1, <3>2
    <3> QED
      BY <1>0, <1>e, <2>1, <2>2, <2>4, <3>1, <3>2, <3>3 DEF FileTyped, EchoFollowsLog
  <2>6. CASE chunk[2] # "tail"
    BY <1>0, <2>1, <2>2, <2>3, <2>4, <2>6 DEF FileTyped, EchoFollowsLog
  <2> QED
    BY <2>5, <2>6
<1>2. CASE EchoPartial
  <2>1. echoed' = echoed \o line /\ line' = << >> /\ pos' = pos
    BY <1>2 DEF EchoPartial
  <2>2. echoed' \in Seq(Chunks)
    BY <2>1, ConcatProperties DEF FileTyped
  <2>3. echoed' \o line' = echoed \o line
    BY <1>e, <2>1, <2>2
  <2> QED
    BY <1>0, <1>e, <2>1, <2>2, <2>3 DEF FileTyped, EchoFollowsLog
<1>3. CASE OpenLog \/ SleepAtEnd \/ Wake \/ SidecarFails
  <2>1. UNCHANGED <<pos, line, echoed>>
    BY <1>3 DEF OpenLog, SleepAtEnd, Wake, SidecarFails
  <2> QED
    BY <1>0, <2>1 DEF FileTyped, EchoFollowsLog
<1> QED
  BY <1>1, <1>2, <1>3 DEF Follow

\* Every step keeps the file and what is echoed of it.
LEMMA EchoStep ==
    ASSUME Typed, InHand, FileTyped, EchoFollowsLog, [Next]_vars
    PROVE  FileTyped' /\ EchoFollowsLog'
<1>1. ASSUME NEW row \in Rows, WriteHead(row), UNCHANGED sidecarVars
      PROVE  FileTyped' /\ EchoFollowsLog'
  <2>1. <<row, "head">> \in Chunks
    BY DEF Chunks
  <2>2. file' = Append(file, <<row, "head">>) \/ file' = file
    BY <1>1 DEF WriteHead
  <2>3. CASE file' = file
    BY <1>1, <2>3 DEF FileTyped, EchoFollowsLog, sidecarVars
  <2> QED
    BY <1>1, <2>1, <2>2, <2>3, EchoSink
<1>2. ASSUME NEW row \in Rows, WriteTail(row)
      PROVE  FileTyped' /\ EchoFollowsLog'
  <2>1. <<row, "tail">> \in Chunks
    BY DEF Chunks
  <2>2. (file' = Append(file, <<row, "tail">>) \/ file' = file) /\ UNCHANGED sidecarVars
    BY <1>2 DEF WriteTail
  <2>3. CASE file' = file
    BY <2>2, <2>3 DEF FileTyped, EchoFollowsLog, sidecarVars
  <2> QED
    BY <2>1, <2>2, <2>3, EchoSink
<1>3. CASE UNCHANGED sinkVars
  <2>1. CASE Follow \/ SidecarFails
    BY <2>1, EchoSidecar
  <2>2. CASE ~ (Follow \/ SidecarFails)
    <3>1. UNCHANGED sidecarVars
      <4>1. ASSUME NEW c \in Conns, Connection(c)
            PROVE  UNCHANGED sidecarVars
        BY <4>1 DEF Connection, Accept, ReadFrame, TakeFrame, ClientLeaves, ReadFails, StampFails,
                    OnIn, CallEngines, Finish, OnReply, CallFails
      <4>2. OpenSink \/ (\E row \in writing : WriteTail(row)) \/ UNCHANGED vars =>
                UNCHANGED sidecarVars
        BY DEF OpenSink, WriteTail, vars
      <4> QED
        BY <2>2, <4>1, <4>2 DEF Next
    <3> QED
      BY <1>3, <3>1 DEF FileTyped, EchoFollowsLog, sinkVars, sidecarVars
  <2> QED
    BY <2>1, <2>2
<1> QED
  BY <1>1, <1>2, <1>3, SinkStep

-----------------------------------------------------------------------------
(***************************************************************************)
(* The answers.                                                            *)
(***************************************************************************)

\* c.Write: one answer more, or none when the client has gone.
LEMMA AnswerFacts ==
    ASSUME answers \in [Conns -> Seq(Answers)], NEW c \in Conns, NEW k \in Nat,
           NEW o \in {"ok", "error"}, Answer(c, k, o)
    PROVE  /\ answers' \in [Conns -> Seq(Answers)]
           /\ \A d \in Conns : d # c => answers'[d] = answers[d]
           /\ c \in gone => answers'[c] = answers[c]
           /\ c \notin gone =>
                  \E n \in Nat : /\ DOMAIN answers[c] = 1 .. n /\ DOMAIN answers'[c] = 1 .. n + 1
                                 /\ \A i \in 1 .. n : answers'[c][i] = answers[c][i]
                                 /\ answers'[c][n + 1].frame = k
<1>1. CASE c \in gone
  BY <1>1 DEF Answer
<1>2. CASE c \notin gone
  <2> DEFINE r == [frame |-> k, outcome |-> o]
  <2> DEFINE longer == Append(answers[c], r)
  <2>1. r \in Answers /\ r.frame = k
    BY DEF Answers
  <2>2. answers' = [answers EXCEPT ![c] = longer]
    BY <1>2 DEF Answer
  <2> HIDE DEF r
  <2>3. answers[c] \in Seq(Answers)
    OBVIOUS
  <2>4. PICK n \in Nat :
            /\ DOMAIN answers[c] = 1 .. n /\ longer \in Seq(Answers)
            /\ DOMAIN longer = 1 .. n + 1
            /\ \A i \in 1 .. n : longer[i] = answers[c][i]
            /\ longer[n + 1] = r
    BY <2>1, <2>3, AppendFacts
  <2> HIDE DEF longer
  <2>5. /\ answers' \in [Conns -> Seq(Answers)] /\ answers'[c] = longer
        /\ \A d \in Conns : d # c => answers'[d] = answers[d]
    BY <2>2, <2>4
  <2> QED
    BY <1>2, <2>1, <2>4, <2>5
<1> QED
  BY <1>1, <1>2

\* A connection whose frames, answers and business do not change.
LEMMA RepliesQuiet ==
    ASSUME NEW c \in Conns, RepliesOf(c), got'[c] = got[c], answers'[c] = answers[c],
           Busy(c)' <=> Busy(c), c \in gone => c \in gone'
    PROVE  RepliesOf(c)'
<1>1. TextFrames(c)' = TextFrames(c)
  BY DEF TextFrames
<1> QED
  BY <1>1 DEF RepliesOf

\* The frame in hand is answered, and it is the last one read.
LEMMA RepliesEnd ==
    ASSUME Typed, InHand, answers \in [Conns -> Seq(Answers)], NEW c \in Conns, RepliesOf(c),
           Busy(c), NEW o \in {"ok", "error"}, Answer(c, got[c], o),
           got' = got, gone' = gone, ~ Busy(c)'
    PROVE  RepliesOf(c)'
<1>1. got[c] \in Nat /\ got[c] \in TextFrames(c) /\ TextFrames(c)' = TextFrames(c)
  BY DEF InHand, TextFrames, Typed
<1>2. CASE c \in gone
  <2>1. answers'[c] = answers[c]
    BY <1>1, <1>2, AnswerFacts
  <2> QED
    BY <1>2, <2>1 DEF RepliesOf
<1>3. CASE c \notin gone
  <2>1. PICK n \in Nat : /\ DOMAIN answers[c] = 1 .. n /\ DOMAIN answers'[c] = 1 .. n + 1
                         /\ \A i \in 1 .. n : answers'[c][i] = answers[c][i]
                         /\ answers'[c][n + 1].frame = got[c]
    BY <1>1, <1>3, AnswerFacts
  <2>2. answers[c] \in Seq(Answers)
    OBVIOUS
  <2>3. \A i \in 1 .. n : answers[c][i].frame \in Nat /\ answers[c][i].frame < got[c]
    <3> SUFFICES ASSUME NEW i \in 1 .. n
                 PROVE  answers[c][i].frame \in Nat /\ answers[c][i].frame < got[c]
      OBVIOUS
    <3>1. answers[c][i] \in Answers
      BY <2>1, <2>2, LenProperties, ElementOfSeq
    <3>2. answers[c][i].frame \in Nat
      BY <3>1 DEF Answers
    <3> QED
      BY <1>1, <2>1, <3>2 DEF RepliesOf
  <2>4. \A i \in 1 .. n + 1 : i = n + 1 \/ i \in 1 .. n
    OBVIOUS
  <2>5. {answers'[c][i].frame : i \in DOMAIN answers'[c]} =
            {answers[c][i].frame : i \in DOMAIN answers[c]} \cup {got[c]}
    <3>1. \A i \in 1 .. n : i \in 1 .. n + 1 /\ n + 1 \in 1 .. n + 1
      OBVIOUS
    <3>2. n + 1 \in 1 .. n + 1
      OBVIOUS
    <3> QED
      BY <2>1, <2>4, <3>1, <3>2
  <2>6. \A i \in DOMAIN answers'[c] :
            answers'[c][i].frame <= got[c]
    BY <1>1, <2>1, <2>3, <2>4
  <2>7. \A i, j \in DOMAIN answers'[c] : i < j => answers'[c][i].frame < answers'[c][j].frame
    <3> SUFFICES ASSUME NEW i \in 1 .. n + 1, NEW j \in 1 .. n + 1, i < j
                 PROVE  answers'[c][i].frame < answers'[c][j].frame
      BY <2>1
    <3>1. i \in 1 .. n
      OBVIOUS
    <3>2. CASE j = n + 1
      BY <2>1, <2>3, <3>1, <3>2
    <3>3. CASE j # n + 1
      <4>1. j \in 1 .. n
        BY <3>3
      <4>2. \A x, y \in 1 .. n : x < y => answers[c][x].frame < answers[c][y].frame
        BY <2>1 DEF RepliesOf
      <4> QED
        BY <2>1, <3>1, <4>1, <4>2
    <3> QED
      BY <3>2, <3>3
  <2>8. {answers'[c][i].frame : i \in DOMAIN answers'[c]} = TextFrames(c)
    <3>1. {answers[c][i].frame : i \in DOMAIN answers[c]} = TextFrames(c) \ {got[c]}
      BY <1>3 DEF RepliesOf
    <3> QED
      BY <1>1, <2>5, <3>1
  <2> QED
    BY <1>1, <2>6, <2>7, <2>8 DEF RepliesOf
<1> QED
  BY <1>2, <1>3

\* A frame is read: skipped, answered at once or taken in hand.
LEMMA RepliesRead ==
    ASSUME Typed, InHand, answers \in [Conns -> Seq(Answers)], NEW c \in Conns, RepliesOf(c),
           ReadFrame(c)
    PROVE  RepliesOf(c)'
<1>0. got[c] \in Nat /\ Len(Sent[c]) \in Nat
  BY SentFacts DEF Typed
<1>k. PICK k \in Nat : k = got[c] + 1
  BY <1>0
<1>1. /\ k <= Len(Sent[c])
      /\ got' = [got EXCEPT ![c] = k] /\ gone' = gone
      /\ step[c] = "reading"
      /\ step' = IF Sent[c][k] = "order" THEN [step EXCEPT ![c] = "stamping"] ELSE step
      /\ IF Sent[c][k] = "bad json" THEN Answer(c, k, "error") ELSE answers' = answers
  BY <1>k, Zenon DEF ReadFrame, TakeFrame
<1>2. k \in 1 .. Len(Sent[c]) /\ got'[c] = k /\ k \in Nat /\ got[c] < k
  <2>1. got'[c] = k
    BY <1>1 DEF Typed
  <2>2. k <= Len(Sent[c])
    BY <1>1
  <2> QED
    BY <1>0, <1>k, <2>1, <2>2
<1>3. Sent[c][k] \in {"order", "bad json", "binary"}
  BY <1>2, SentFacts DEF FrameKinds
<1>4. \A i \in DOMAIN answers[c] : answers[c][i].frame \in Nat /\ answers[c][i].frame < k
  <2> SUFFICES ASSUME NEW i \in DOMAIN answers[c]
               PROVE  answers[c][i].frame \in Nat /\ answers[c][i].frame < k
    OBVIOUS
  <2>1. answers[c] \in Seq(Answers)
    OBVIOUS
  <2>2. answers[c][i] \in Answers
    BY <2>1, LenProperties, ElementOfSeq
  <2>3. answers[c][i].frame \in Nat
    BY <2>2 DEF Answers
  <2>4. answers[c][i].frame <= got[c]
    BY DEF RepliesOf
  <2> QED
    BY <1>0, <1>k, <2>3, <2>4
<1>5. TextFrames(c)' = TextFrames(c) \cup (IF Sent[c][k] = "binary" THEN {} ELSE {k})
  <2>1. 1 .. k = (1 .. got[c]) \cup {k}
    BY <1>0, <1>k
  <2>2. TextFrames(c)' = {i \in 1 .. k : Sent[c][i] # "binary"}
    BY <1>2 DEF TextFrames
  <2> QED
    BY <2>1, <2>2 DEF TextFrames
<1>6. ~ Busy(c) /\ k \notin TextFrames(c)
  <2>1. ~ Busy(c)
    BY <1>1 DEF Busy
  <2>2. k \notin 1 .. got[c]
    BY <1>0, <1>k
  <2> QED
    BY <2>1, <2>2 DEF TextFrames
<1>7. CASE Sent[c][k] = "order"
  <2>1. answers' = answers /\ Busy(c)'
    BY <1>1, <1>7 DEF Busy, Typed
  <2>2. TextFrames(c)' \ {k} = TextFrames(c)
    BY <1>5, <1>6, <1>7
  <2>3. \A i \in DOMAIN answers[c] : answers[c][i].frame <= k /\ answers[c][i].frame # k
    BY <1>2, <1>4
  <2> QED
    BY <1>1, <1>2, <1>6, <2>1, <2>2, <2>3 DEF RepliesOf
<1>8. CASE Sent[c][k] = "binary"
  <2>1. answers' = answers /\ ~ Busy(c)'
    BY <1>1, <1>8 DEF Busy
  <2>2. TextFrames(c)' = TextFrames(c)
    BY <1>5, <1>8
  <2>3. \A i \in DOMAIN answers[c] : answers[c][i].frame <= k
    BY <1>2, <1>4
  <2> QED
    BY <1>1, <1>2, <1>6, <2>1, <2>2, <2>3 DEF RepliesOf
<1>9. CASE Sent[c][k] = "bad json"
  <2>1. Answer(c, k, "error") /\ ~ Busy(c)'
    BY <1>1, <1>9 DEF Busy
  <2>2. TextFrames(c)' = TextFrames(c) \cup {k}
    BY <1>5, <1>9
  <2>3. CASE c \in gone
    <3>1. answers'[c] = answers[c]
      BY <1>2, <2>1, <2>3, AnswerFacts
    <3>2. \A i \in DOMAIN answers[c] : answers[c][i].frame <= k
      BY <1>2, <1>4
    <3> QED
      BY <1>1, <1>2, <2>1, <2>3, <3>1, <3>2 DEF RepliesOf
  <2>4. CASE c \notin gone
    <3>1. PICK n \in Nat : /\ DOMAIN answers[c] = 1 .. n /\ DOMAIN answers'[c] = 1 .. n + 1
                           /\ \A i \in 1 .. n : answers'[c][i] = answers[c][i]
                           /\ answers'[c][n + 1].frame = k
      BY <1>2, <2>1, <2>4, AnswerFacts
    <3>2. \A i \in 1 .. n + 1 : i = n + 1 \/ i \in 1 .. n
      OBVIOUS
    <3>3. n + 1 \in 1 .. n + 1 /\ \A i \in 1 .. n : i \in 1 .. n + 1
      OBVIOUS
    <3>4. {answers'[c][i].frame : i \in DOMAIN answers'[c]} =
              {answers[c][i].frame : i \in DOMAIN answers[c]} \cup {k}
      BY <3>1, <3>2, <3>3
    <3>5. {answers'[c][i].frame : i \in DOMAIN answers'[c]} = TextFrames(c)'
      BY <1>6, <2>2, <2>4, <3>4 DEF RepliesOf
    <3>6. \A i \in DOMAIN answers'[c] : answers'[c][i].frame <= k
      BY <1>2, <1>4, <3>1, <3>2
    <3>7. \A i, j \in DOMAIN answers'[c] : i < j => answers'[c][i].frame < answers'[c][j].frame
      <4> SUFFICES ASSUME NEW i \in 1 .. n + 1, NEW j \in 1 .. n + 1, i < j
                   PROVE  answers'[c][i].frame < answers'[c][j].frame
        BY <3>1
      <4>1. i \in 1 .. n
        OBVIOUS
      <4>2. CASE j = n + 1
        BY <1>4, <3>1, <4>1, <4>2
      <4>3. CASE j # n + 1
        <5>1. j \in 1 .. n
          BY <4>3
        <5>2. \A x, y \in 1 .. n : x < y => answers[c][x].frame < answers[c][y].frame
          BY <3>1 DEF RepliesOf
        <5> QED
          BY <3>1, <4>1, <5>1, <5>2
      <4> QED
        BY <4>2, <4>3
    <3> QED
      BY <1>1, <1>2, <2>1, <3>5, <3>6, <3>7 DEF RepliesOf
  <2> QED
    BY <2>3, <2>4
<1> QED
  BY <1>3, <1>7, <1>8, <1>9

\* Every step keeps the answers of every connection in order and complete.
LEMMA RepliesStep ==
    ASSUME Typed, InHand, Replies, [Next]_vars
    PROVE  Replies'
<1>0. answers \in [Conns -> Seq(Answers)]
  BY DEF Replies
<1>q. ASSUME NEW d \in Conns, got'[d] = got[d], answers'[d] = answers[d],
             step'[d] = step[d], d \in gone => d \in gone'
      PROVE  RepliesOf(d)'
  <2>1. Busy(d)' <=> Busy(d)
    BY <1>q DEF Busy
  <2> QED
    BY <1>q, <2>1, RepliesQuiet DEF Replies
<1>1. ASSUME NEW c \in Conns, StampFails(c) \/ Finish(c)
      PROVE  Replies'
  <2>1. /\ Busy(c) /\ step' = [step EXCEPT ![c] = "reading"]
        /\ got' = got /\ gone' = gone
    BY <1>1 DEF StampFails, Finish, Busy
  <2>2. PICK o \in {"ok", "error"} : Answer(c, got[c], o)
    BY <1>1 DEF StampFails, Finish
  <2>3. got[c] \in Nat
    BY DEF Typed
  <2>4. /\ answers' \in [Conns -> Seq(Answers)]
        /\ \A d \in Conns : d # c => answers'[d] = answers[d]
    BY <1>0, <2>2, <2>3, AnswerFacts
  <2>5. step'[c] = "reading" /\ \A d \in Conns : d # c => step'[d] = step[d]
    BY <2>1 DEF Typed
  <2>6. ~ Busy(c)'
    BY <2>5 DEF Busy
  <2>7. RepliesOf(c)'
    BY <1>0, <2>1, <2>2, <2>6, RepliesEnd DEF Replies
  <2>8. ASSUME NEW d \in Conns, d # c
        PROVE  RepliesOf(d)'
    BY <1>q, <2>1, <2>4, <2>5, <2>8
  <2> QED
    BY <2>4, <2>7, <2>8 DEF Replies
<1>2. ASSUME NEW c \in Conns, ReadFrame(c)
      PROVE  Replies'
  <2>1. RepliesOf(c)'
    BY <1>0, <1>2, RepliesRead DEF Replies
  <2>2. /\ got' = [got EXCEPT ![c] = got[c] + 1] /\ gone' = gone
        /\ step' = step \/ step' = [step EXCEPT ![c] = "stamping"]
        /\ answers' = answers \/ Answer(c, got[c] + 1, "error")
    BY <1>2 DEF ReadFrame, TakeFrame
  <2>3. got[c] + 1 \in Nat
    BY DEF Typed
  <2>4. /\ answers' \in [Conns -> Seq(Answers)]
        /\ \A d \in Conns : d # c => answers'[d] = answers[d]
    <3>1. CASE answers' = answers
      BY <1>0, <3>1
    <3>2. CASE Answer(c, got[c] + 1, "error")
      BY <1>0, <2>3, <3>2, AnswerFacts
    <3> QED
      BY <2>2, <3>1, <3>2
  <2>5. \A d \in Conns : d # c => step'[d] = step[d] /\ got'[d] = got[d]
    BY <2>2 DEF Typed
  <2>6. ASSUME NEW d \in Conns, d # c
        PROVE  RepliesOf(d)'
    BY <1>q, <2>2, <2>4, <2>5, <2>6
  <2> QED
    BY <2>1, <2>4, <2>6 DEF Replies
<1>3. ASSUME UNCHANGED <<got, answers>>, gone \subseteq gone',
             \A d \in Conns : Busy(d)' <=> Busy(d)
      PROVE  Replies'
  BY <1>3, RepliesQuiet DEF Replies
<1> DEFINE Steps == {"reading", "closed", "logging", "calling"}
<1>4. ASSUME NEW c \in Conns, NEW s \in Steps, step' = [step EXCEPT ![c] = s],
             s \in {"logging", "calling"} <=> Busy(c)
      PROVE  \A d \in Conns : Busy(d)' <=> Busy(d)
  <2>1. step'[c] = s /\ \A d \in Conns : d # c => step'[d] = step[d]
    BY <1>4 DEF Typed
  <2> QED
    BY <1>4, <2>1 DEF Busy
<1>5. ASSUME NEW c \in Conns, Accept(c) \/ ReadFails(c) \/ OnIn(c) \/ CallEngines(c)
      PROVE  Replies'
  <2>1. UNCHANGED <<got, answers>> /\ gone' = gone
    BY <1>5 DEF Accept, ReadFails, OnIn, CallEngines
  <2>2. \A d \in Conns : Busy(d)' <=> Busy(d)
    <3>1. CASE Accept(c)
      <4>1. step' = [step EXCEPT ![c] = "reading"] /\ ~ Busy(c)
        BY <3>1 DEF Accept, Busy
      <4> QED
        BY <1>4, <4>1
    <3>2. CASE ReadFails(c)
      <4>1. step' = [step EXCEPT ![c] = "closed"] /\ ~ Busy(c)
        BY <3>2 DEF ReadFails, Busy
      <4> QED
        BY <1>4, <4>1
    <3>3. CASE OnIn(c)
      <4>1. step' = [step EXCEPT ![c] = "logging"] /\ Busy(c)
        BY <3>3 DEF OnIn, Busy
      <4> QED
        BY <1>4, <4>1
    <3>4. CASE CallEngines(c)
      <4>1. step' = [step EXCEPT ![c] = "calling"] /\ Busy(c)
        BY <3>4 DEF CallEngines, Busy
      <4> QED
        BY <1>4, <4>1
    <3> QED
      BY <1>5, <3>1, <3>2, <3>3, <3>4
  <2>3. gone \subseteq gone'
    BY <2>1
  <2> QED
    BY <1>3, <2>1, <2>2, <2>3
<1>6. ASSUME NEW c \in Conns,
             ClientLeaves(c) \/ \E e \in Engines : OnReply(c, e) \/ CallFails(c, e)
      PROVE  Replies'
  <2>1. UNCHANGED <<got, answers, step>> /\ gone \subseteq gone'
    BY <1>6 DEF ClientLeaves, OnReply, CallFails
  <2> QED
    BY <1>3, <2>1 DEF Busy
<1>7. CASE OpenSink \/ (\E row \in writing : WriteTail(row)) \/ Follow \/ SidecarFails
               \/ UNCHANGED vars
  <2>1. UNCHANGED <<got, answers, step, gone>>
    BY <1>7 DEF OpenSink, WriteTail, Follow, SidecarFails, OpenLog, ReadMore, EchoPartial,
                SleepAtEnd, Wake, vars, connVars
  <2> QED
    BY <1>3, <2>1 DEF Busy
<1> QED
  BY <1>1, <1>2, <1>5, <1>6, <1>7 DEF Next, Connection

-----------------------------------------------------------------------------
(***************************************************************************)
(* The damage of lost writes.                                              *)
(***************************************************************************)

\* A line of the file stays one when the file grows.
LEMMA WholeStays ==
    ASSUME file \in Seq(Chunks), NEW chunk \in Chunks, file' = Append(file, chunk),
           NEW row, Whole(row)
    PROVE  Whole(row)'
<1>1. PICK n \in Nat : /\ n = Len(file) /\ DOMAIN file = 1 .. n
                       /\ Len(file') = n + 1 /\ DOMAIN file' = 1 .. n + 1
                       /\ \A i \in 1 .. n : file'[i] = file[i]
  BY AppendFacts
<1>2. PICK i \in 1 .. n : /\ i - 1 = 0 \/ file[i - 1][2] = "tail"
                          /\ file[i] = <<row, "head">> /\ i < n /\ file[i + 1] = <<row, "tail">>
  BY <1>1 DEF Whole, IsLineEnd
<1>3. i \in 1 .. n + 1 /\ i + 1 \in 1 .. n /\ (i - 1 = 0 \/ i - 1 \in 1 .. n) /\ i < n + 1
  BY <1>2
<1>4. /\ i - 1 = 0 \/ file'[i - 1][2] = "tail"
      /\ file'[i] = <<row, "head">> /\ file'[i + 1] = <<row, "tail">>
  BY <1>1, <1>2, <1>3
<1> QED
  BY <1>1, <1>3, <1>4 DEF Whole, IsLineEnd

\* Torn rows are counted: those there were, and at most the one whose write
\* returns.
LEMMA TornGrows ==
    ASSUME IsFiniteSet(returned), NEW row, returned' \subseteq returned \cup {row},
           \A r \in returned : Whole(r) => Whole(r)'
    PROVE  /\ IsFiniteSet(returned')
           /\ Cardinality(Torn) \in Nat /\ Cardinality(Torn') \in Nat
           /\ Cardinality(Torn') <= Cardinality(Torn) + 1
           /\ Whole(row)' \/ row \notin returned' \/ row \in Torn =>
                  Cardinality(Torn') <= Cardinality(Torn)
<1>1. IsFiniteSet(returned \cup {row})
  BY FS_AddElement
<1>2. IsFiniteSet(returned')
  BY <1>1, FS_Subset
<1>3. IsFiniteSet(Torn) /\ IsFiniteSet(Torn')
  BY <1>2, FS_Subset DEF Torn
<1>4. Cardinality(Torn) \in Nat /\ Cardinality(Torn') \in Nat
  BY <1>3, FS_CardinalityType
<1>5. Torn' \subseteq Torn \cup {row}
  BY DEF Torn
<1>6. /\ IsFiniteSet(Torn \cup {row})
      /\ Cardinality(Torn \cup {row}) =
             IF row \in Torn THEN Cardinality(Torn) ELSE Cardinality(Torn) + 1
  BY <1>3, FS_AddElement
<1>7. Cardinality(Torn') <= Cardinality(Torn \cup {row})
  BY <1>5, <1>6, FS_Subset
<1>8. ASSUME Whole(row)' \/ row \notin returned' \/ row \in Torn
      PROVE  Cardinality(Torn') <= Cardinality(Torn)
  <2>1. Torn' \subseteq Torn
    BY <1>5, <1>8 DEF Torn
  <2> QED
    BY <1>3, <2>1, FS_Subset
<1> QED
  BY <1>2, <1>4, <1>6, <1>7, <1>8

\* The head of a row: it joins a spoilt line, or begins one of its own; or it
\* is lost.
LEMMA DamageHead ==
    ASSUME Typed, FileTyped, OneWriter, Damage, NEW row \in Rows, WriteHead(row)
    PROVE  OneWriter' /\ Damage'
<1>1. <<row, "head">> \in Chunks /\ file \in Seq(Chunks) /\ writing = {}
  BY DEF Chunks, FileTyped, WriteHead
<1>2. CASE file' = Append(file, <<row, "head">>) /\ writing' = {row}
           /\ returned' = returned /\ lost' = lost
  <2>1. PICK n \in Nat : /\ n = Len(file) /\ Len(file') = n + 1 /\ DOMAIN file = 1 .. n
                         /\ \A i \in 1 .. n : file'[i] = file[i]
                         /\ file'[n + 1] = <<row, "head">>
    BY <1>1, <1>2, AppendFacts
  <2>2. OneWriter'
    BY <1>2, <2>1 DEF OneWriter
  <2>3. \A r \in returned : Whole(r) => Whole(r)'
    BY <1>1, <1>2, WholeStays
  <2>4. /\ IsFiniteSet(returned') /\ Torn' \subseteq Torn
    BY <1>2, <2>3 DEF Torn, Damage
  <2>5. IsFiniteSet(Torn)
    BY FS_Subset DEF Torn, Damage
  <2>6. Cardinality(Torn') <= Cardinality(Torn) /\ Cardinality(Torn) \in Nat
        /\ Cardinality(Torn') \in Nat
    BY <2>4, <2>5, FS_Subset, FS_CardinalityType
  <2>7. Spoilt' => Spoilt
    <3> SUFFICES ASSUME Spoilt'
                 PROVE  Spoilt
      OBVIOUS
    <3>1. ~ (n = 0 \/ file'[n][2] = "tail")
      BY <1>2, <2>1 DEF Spoilt, IsLineEnd
    <3>2. n \in 1 .. n /\ n > 0
      BY <3>1
    <3>3. file[n] \in Chunks
      BY <1>1, <2>1, <3>2, ElementOfSeq
    <3>4. file[n][2] = "head"
      BY <2>1, <3>1, <3>2, <3>3 DEF Chunks
    <3> QED
      BY <1>1, <2>1, <3>2, <3>4 DEF Spoilt
  <2>8. lost \in Nat
    BY DEF Typed
  <2> QED
    BY <1>2, <2>2, <2>4, <2>6, <2>7, <2>8 DEF Damage
<1>3. CASE /\ lost' = lost + 1 /\ returned' = returned \cup {row}
           /\ writing' = writing /\ file' = file
  <2>1. \A r \in returned : Whole(r) => Whole(r)'
    BY <1>3 DEF Whole, IsLineEnd
  <2>2. /\ IsFiniteSet(returned')
        /\ Cardinality(Torn) \in Nat /\ Cardinality(Torn') \in Nat
        /\ Cardinality(Torn') <= Cardinality(Torn) + 1
    BY <1>3, <2>1, TornGrows DEF Damage
  <2>3. lost \in Nat
    BY DEF Typed
  <2> QED
    BY <1>1, <1>3, <2>2, <2>3 DEF OneWriter, Damage
<1> QED
  BY <1>2, <1>3 DEF WriteHead

\* The tail of a row: it ends the line, or it is lost.
LEMMA DamageTail ==
    ASSUME Typed, FileTyped, OneWriter, Damage, NEW row \in Rows, WriteTail(row)
    PROVE  OneWriter' /\ Damage'
<1>1. /\ <<row, "tail">> \in Chunks /\ file \in Seq(Chunks)
      /\ returned' = returned \cup {row} /\ lost \in Nat
  BY DEF Chunks, FileTyped, Typed, WriteTail
<1>2. /\ writing = {row} /\ writing' = {} /\ Len(file) > 0
      /\ file[Len(file)] = <<row, "head">>
  BY DEF OneWriter, WriteTail
<1>3. OneWriter'
  BY <1>2 DEF OneWriter
<1>4. CASE file' = Append(file, <<row, "tail">>) /\ lost' = lost
  <2>1. PICK n \in Nat : /\ n = Len(file) /\ Len(file') = n + 1
                         /\ DOMAIN file = 1 .. n /\ DOMAIN file' = 1 .. n + 1
                         /\ \A i \in 1 .. n : file'[i] = file[i]
                         /\ file'[n + 1] = <<row, "tail">>
    BY <1>1, <1>4, AppendFacts
  <2>2. \A r \in returned : Whole(r) => Whole(r)'
    BY <1>1, <1>4, WholeStays
  <2>3. /\ IsFiniteSet(returned')
        /\ Cardinality(Torn) \in Nat /\ Cardinality(Torn') \in Nat
        /\ Cardinality(Torn') <= Cardinality(Torn) + 1
        /\ Whole(row)' => Cardinality(Torn') <= Cardinality(Torn)
    BY <1>1, <2>2, TornGrows DEF Damage
  <2>4. ~ Spoilt'
    BY <1>2, <2>1 DEF Spoilt
  <2>5. ~ Spoilt => Whole(row)'
    <3> SUFFICES ASSUME ~ Spoilt
                 PROVE  Whole(row)'
      OBVIOUS
    <3>1. n > 0 /\ n \in 1 .. n /\ n \in 1 .. n + 1 /\ n < n + 1
      BY <1>2, <2>1
    <3>2. n - 1 = 0 \/ file[n - 1][2] = "tail"
      BY <1>2, <2>1 DEF Spoilt, IsLineEnd
    <3>3. n - 1 = 0 \/ file'[n - 1][2] = "tail"
      <4>1. n - 1 = 0 \/ n - 1 \in 1 .. n
        BY <3>1
      <4> QED
        BY <2>1, <3>2, <4>1
    <3>4. file'[n] = <<row, "head">>
      BY <1>2, <2>1, <3>1
    <3> QED
      BY <2>1, <3>1, <3>3, <3>4 DEF Whole, IsLineEnd
  <2>6. Cardinality(Torn') <= 2 * lost
    BY <1>1, <2>3, <2>5 DEF Damage
  <2> QED
    BY <1>3, <1>4, <2>3, <2>4, <2>6 DEF Damage
<1>5. CASE lost' = lost + 1 /\ file' = file
  <2>1. \A r \in returned : Whole(r) => Whole(r)'
    BY <1>5 DEF Whole, IsLineEnd
  <2>2. /\ IsFiniteSet(returned')
        /\ Cardinality(Torn) \in Nat /\ Cardinality(Torn') \in Nat
        /\ Cardinality(Torn') <= Cardinality(Torn) + 1
    BY <1>1, <2>1, TornGrows DEF Damage
  <2>3. Cardinality(Torn') + 1 <= 2 * lost'
    BY <1>1, <1>5, <2>2 DEF Damage
  <2>4. Cardinality(Torn') <= 2 * lost'
    BY <1>1, <1>5, <2>2, <2>3
  <2> QED
    BY <1>3, <2>2, <2>3, <2>4 DEF Damage
<1> QED
  BY <1>4, <1>5 DEF WriteTail

\* Every step.
LEMMA DamageStep ==
    ASSUME Typed, InHand, FileTyped, OneWriter, Damage, [Next]_vars
    PROVE  OneWriter' /\ Damage'
<1>1. CASE UNCHANGED sinkVars
  BY <1>1 DEF sinkVars, OneWriter, Damage, Spoilt, IsLineEnd, Torn, Whole
<1> QED
  BY <1>1, SinkStep, DamageHead, DamageTail

-----------------------------------------------------------------------------
(***************************************************************************)
(* The theorems.                                                           *)
(***************************************************************************)

\* A log that nothing was written to keeps its promises.
LEMMA InvInit == Init => Inv
<1> SUFFICES ASSUME Init
             PROVE  Inv
  OBVIOUS
<1>1. Typed
  <2>1. got \in [Conns -> Nat] /\ \A c \in Conns : got[c] <= Len(Sent[c])
    BY SentFacts DEF Init
  <2>2. call \in [Conns -> [Engines -> {"none", "waiting", "replied", "failed"}]]
    BY DEF Init, NoCall
  <2>3. lost \in Nat /\ faults \in Nat /\ lost <= faults /\ faults <= MaxFaults
    BY FaultsAssumption DEF Init
  <2> QED
    BY <2>1, <2>2, <2>3 DEF Init, Typed
<1>2. InHand
  BY DEF Init, InHand, Busy, NoCall
<1>3. FileTyped /\ Len(file) = 0
  BY DEF Init, FileTyped
<1>4. EchoFollowsLog
  <2>1. << >> \o << >> = << >> /\ SubSeq(<< >>, 1, 0) = << >>
    BY SubSeqEmpty, ConcatEmptySeq, EmptySeq
  <2> QED
    BY <2>1 DEF Init, EchoFollowsLog
<1>5. Replies
  <2>1. answers \in [Conns -> Seq(Answers)] /\ \A c \in Conns : DOMAIN answers[c] = {}
    BY DEF Init
  <2>2. \A c \in Conns : TextFrames(c) = {} /\ ~ Busy(c)
    BY DEF Init, TextFrames, Busy
  <2> QED
    BY <2>1, <2>2 DEF Replies, RepliesOf
<1>6. OneWriter
  BY DEF Init, OneWriter
<1>7. Damage
  <2>1. returned = {} /\ Torn = {} /\ ~ Spoilt /\ lost = 0
    BY <1>3 DEF Init, Torn, Spoilt
  <2> QED
    BY <2>1, FS_EmptySet DEF Damage
<1> QED
  BY <1>1, <1>2, <1>3, <1>4, <1>5, <1>6, <1>7 DEF Inv

\* Every step keeps them.
LEMMA InvStep == Inv /\ [Next]_vars => Inv'
<1> SUFFICES ASSUME Inv, [Next]_vars
             PROVE  Inv'
  OBVIOUS
<1>1. Typed' /\ InHand'
  BY HandStep DEF Inv
<1>2. FileTyped' /\ EchoFollowsLog'
  BY EchoStep DEF Inv
<1>3. Replies'
  BY RepliesStep DEF Inv
<1>4. OneWriter' /\ Damage'
  BY DamageStep DEF Inv
<1> QED
  BY <1>1, <1>2, <1>3, <1>4 DEF Inv

LEMMA InvHolds == Spec => []Inv
BY InvInit, InvStep, PTL DEF Spec

\* Every variable of the log has its type, for any connections and frames.
THEOREM LogTypeCorrect == Spec => []TypeOK
<1>1. Inv => TypeOK
  <2> SUFFICES ASSUME Inv
               PROVE  TypeOK
    OBVIOUS
  <2>1. \A c \in Conns : got[c] \in 0 .. Len(Sent[c])
    BY SentFacts DEF Inv, Typed
  <2>2. \A i \in DOMAIN file : file[i] \in Chunks
    BY LenProperties, ElementOfSeq DEF Inv, FileTyped
  <2>3. \A i \in DOMAIN file : file[i][1] \in Rows /\ file[i][2] \in {"head", "tail"}
    BY <2>2 DEF Chunks
  <2>4. lost \in 0 .. MaxFaults /\ faults \in 0 .. MaxFaults
    BY FaultsAssumption DEF Inv, Typed
  <2> QED
    BY <2>1, <2>3, <2>4 DEF Inv, Typed, FileTyped, TypeOK
<1> QED
  BY <1>1, InvHolds, PTL

\* What the sidecar echoes, line after line, is what it has read of the log,
\* however its polls fall between the sink's writes.
THEOREM SidecarFollows == Spec => []EchoFollowsLog
<1>1. Inv => EchoFollowsLog
  BY DEF Inv
<1> QED
  BY <1>1, InvHolds, PTL

\* A client gets the answers of its text frames in the order it sent them and
\* none is left out, whatever the other connections and the engines do.
THEOREM AnswersInOrder == Spec => []RepliesInOrder
<1>1. Inv => RepliesInOrder
  BY DEF Inv, Replies, RepliesOf, RepliesInOrder
<1> QED
  BY <1>1, InvHolds, PTL

\* n failed writes of the FileSink spoil at most 2n of the rows whose write
\* has returned.
THEOREM LostWritesCostTwo == Spec => []DamageBounded
<1>1. Inv => DamageBounded
  BY DEF Inv, Damage, Torn, DamageBounded
<1> QED
  BY <1>1, InvHolds, PTL

=============================================================================
