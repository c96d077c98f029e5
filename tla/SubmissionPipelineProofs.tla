---------------------- MODULE SubmissionPipelineProofs ----------------------
(***************************************************************************)
(* However many uploads of however many archives run side by side, and     *)
(* however many calls fail: identical uploads dedupe to one id and one     *)
(* Job, a Job never meets a missing archive or row, and a submission is    *)
(* READY only with its image pushed.                                       *)
(***************************************************************************)
EXTENDS SubmissionPipeline, TLAPS

\* An upload past PutContentAddressed has its archive in MinIO.
ArchiveStored ==
    \A u \in Uploads :
        upload[u].pc \in {"stored", "inserted", "duplicate", "ok"} => upload[u].src \in stored

\* The row is inserted before the Job is created, and the request ends with
\* the Job's creation.
NoJobYet ==
    \A u \in Uploads :
        upload[u].pc \in {"idle", "stored", "inserted", "duplicate"} => job[u].state = "absent"

\* What an upload learned of the table stays true.
RowKnown ==
    \A u \in Uploads :
        /\ upload[u].pc = "inserted" => row[upload[u].src].id = u
        /\ upload[u].pc \in {"duplicate", "ok"} => row[upload[u].src].id \in Uploads

\* A row belongs to the upload that inserted it, under that upload's archive.
RowsOwned ==
    \A s \in Sources : \A u \in Uploads :
        row[s].id = u => upload[u].src = s /\ upload[u].pc # "idle"

\* A row without an id does not exist.
RowOrNone == \A s \in Sources : row[s].id = None => row[s] = NoRow

\* A Job runs one pod at a time, and only while it is active.
JobBounds ==
    \A u \in Uploads :
        /\ runner[u] # "none" => job[u].state = "active"
        /\ job[u].state = "active" => job[u].failed <= BackoffLimit
        /\ job[u].state = "absent" => job[u].failed = 0

\* A build-runner that finished its build has pushed.
BuiltPushed == \A u \in Uploads : runner[u] = "built" => SourceOf(u) \in pushed

Inv ==
    /\ TypeOK /\ ArchiveStored /\ NoJobYet /\ RowKnown /\ RowsOwned /\ RowOrNone
    /\ JobBounds /\ BuiltPushed
    /\ UploadsDedupe /\ JobHasInputs /\ ReadyHasImage

-----------------------------------------------------------------------------
\* The initial state.
LEMMA InvInit == Init => Inv
<1> SUFFICES ASSUME Init
             PROVE  Inv
  OBVIOUS
<1> USE BoundsAssumption, NoneAssumption DEF Init
<1>1. TypeOK
  BY DEF TypeOK, NoRow
<1>2. ArchiveStored /\ NoJobYet /\ RowKnown /\ JobBounds /\ BuiltPushed
  BY DEF ArchiveStored, NoJobYet, RowKnown, JobBounds, BuiltPushed
<1>3. RowsOwned /\ RowOrNone
  BY DEF RowsOwned, RowOrNone, NoRow
<1>4. UploadsDedupe /\ JobHasInputs /\ ReadyHasImage
  BY DEF UploadsDedupe, JobHasInputs, ReadyHasImage, NoRow
<1> QED
  BY <1>1, <1>2, <1>3, <1>4 DEF Inv

\* A step of submission-api that touches neither table, Job nor registry.
LEMMA ApiStep ==
    ASSUME Inv, api' \in {"down", "connected", "up"}, inCluster' = inCluster,
           bucket' \in BOOLEAN, faults' \in 0 .. MaxFaults,
           UNCHANGED <<upload, stored, row, job, runner, pushed>>
    PROVE  Inv'
<1>1. TypeOK'
  BY DEF Inv, TypeOK
<1>2. (ArchiveStored /\ NoJobYet /\ RowKnown /\ JobBounds /\ BuiltPushed)'
  BY DEF Inv, ArchiveStored, NoJobYet, RowKnown, JobBounds, BuiltPushed, SourceOf
<1>3. (RowsOwned /\ RowOrNone)'
  BY DEF Inv, RowsOwned, RowOrNone
<1>4. (UploadsDedupe /\ JobHasInputs /\ ReadyHasImage)'
  BY DEF Inv, UploadsDedupe, JobHasInputs, ReadyHasImage, SourceOf
<1> QED
  BY <1>1, <1>2, <1>3, <1>4 DEF Inv

\* A fault stays within its bound.
LEMMA FaultBound == TypeOK /\ Fault => faults' \in 0 .. MaxFaults
  BY BoundsAssumption DEF TypeOK, Fault

-----------------------------------------------------------------------------
\* What an upload is made of.
LEMMA UploadParts ==
    ASSUME TypeOK, NEW u \in Uploads
    PROVE  /\ upload[u] = [pc |-> upload[u].pc, src |-> upload[u].src, answer |-> upload[u].answer]
           /\ upload[u].pc \in {"idle", "stored", "inserted", "duplicate", "ok", "failed"}
           /\ upload[u].src \in Sources \cup {None}
           /\ upload[u].answer \in Uploads \cup {None}
  BY DEF TypeOK

\* The records of the uploads.
UploadState == {"idle", "stored", "inserted", "duplicate", "ok", "failed"}
UploadRecord == [pc : UploadState, src : Sources \cup {None}, answer : Uploads \cup {None}]

\* Two fields of a record are updated one after the other.
LEMMA UpdateAnswer ==
    ASSUME NEW r \in UploadRecord, NEW id \in Uploads
    PROVE  [r EXCEPT !.pc = "ok", !.answer = id] = [pc |-> "ok", src |-> r.src, answer |-> id]
<1>1. [r EXCEPT !.pc = "ok", !.answer = id] = [[r EXCEPT !.pc = "ok"] EXCEPT !.answer = id]
  BY Zenon
<1>2. [r EXCEPT !.pc = "ok"] = [pc |-> "ok", src |-> r.src, answer |-> r.answer]
  BY DEF UploadRecord
<1>3. [r EXCEPT !.pc = "ok"] \in UploadRecord
  BY <1>2 DEF UploadRecord, UploadState
<1>4. \A q \in UploadRecord : [q EXCEPT !.answer = id] = [pc |-> q.pc, src |-> q.src, answer |-> id]
  BY DEF UploadRecord
<1> QED
  BY <1>1, <1>2, <1>3, <1>4

LEMMA UpdateSource ==
    ASSUME NEW r \in UploadRecord, NEW s \in Sources
    PROVE  [r EXCEPT !.pc = "stored", !.src = s] = [pc |-> "stored", src |-> s, answer |-> r.answer]
<1>1. [r EXCEPT !.pc = "stored", !.src = s] = [[r EXCEPT !.pc = "stored"] EXCEPT !.src = s]
  BY Zenon
<1>2. [r EXCEPT !.pc = "stored"] = [pc |-> "stored", src |-> r.src, answer |-> r.answer]
  BY DEF UploadRecord
<1>3. [r EXCEPT !.pc = "stored"] \in UploadRecord
  BY <1>2 DEF UploadRecord, UploadState
<1>4. \A q \in UploadRecord : [q EXCEPT !.src = s] = [pc |-> q.pc, src |-> s, answer |-> q.answer]
  BY DEF UploadRecord
<1> QED
  BY <1>1, <1>2, <1>3, <1>4

\* What Goto and Answer do to the uploads.
LEMMA GotoFacts ==
    ASSUME TypeOK, NEW u \in Uploads, NEW pc \in UploadState, Goto(u, pc)
    PROVE  /\ upload' \in [Uploads -> UploadRecord]
           /\ upload'[u].pc = pc
           /\ \A v \in Uploads : /\ upload'[v].src = upload[v].src
                                 /\ upload'[v].answer = upload[v].answer
                                 /\ v # u => upload'[v].pc = upload[v].pc
<1>1. upload \in [Uploads -> UploadRecord]
  BY DEF TypeOK, UploadRecord, UploadState
<1>2. upload' = [upload EXCEPT ![u] = [upload[u] EXCEPT !.pc = pc]]
  BY DEF Goto
<1>3. [upload[u] EXCEPT !.pc = pc] = [pc |-> pc, src |-> upload[u].src, answer |-> upload[u].answer]
  BY <1>1 DEF UploadRecord
<1>4. [upload[u] EXCEPT !.pc = pc] \in UploadRecord
  BY <1>1, <1>3 DEF UploadRecord
<1> QED
  BY <1>1, <1>2, <1>3, <1>4

LEMMA AnswerFacts ==
    ASSUME TypeOK, NEW u \in Uploads, NEW id \in Uploads, Answer(u, id)
    PROVE  /\ upload' \in [Uploads -> UploadRecord]
           /\ upload'[u].pc = "ok" /\ upload'[u].answer = id
           /\ upload'[u].src = upload[u].src
           /\ \A v \in Uploads : v # u => upload'[v] = upload[v]
<1>1. upload \in [Uploads -> UploadRecord]
  BY DEF TypeOK, UploadRecord, UploadState
<1>2. upload' = [upload EXCEPT ![u] = [upload[u] EXCEPT !.pc = "ok", !.answer = id]]
  BY <1>1 DEF Answer
<1>3. [upload[u] EXCEPT !.pc = "ok", !.answer = id]
          = [pc |-> "ok", src |-> upload[u].src, answer |-> id]
  BY <1>1, UpdateAnswer
<1>4. [upload[u] EXCEPT !.pc = "ok", !.answer = id] \in UploadRecord
  BY <1>1, <1>3 DEF UploadRecord, UploadState
<1> QED
  BY <1>1, <1>2, <1>3, <1>4

LEMMA PutStep == ASSUME NEW u \in Uploads, NEW s \in Sources, Inv, PutArchive(u, s) PROVE Inv'
<1>0. TypeOK /\ upload[u].pc = "idle"
  BY DEF Inv, PutArchive
<1>1. /\ upload' \in [Uploads -> UploadRecord]
      /\ upload'[u].pc = "stored" /\ upload'[u].src = s
      /\ \A v \in Uploads : v # u => upload'[v] = upload[v]
  <2>1. upload \in [Uploads -> UploadRecord]
    BY <1>0 DEF TypeOK, UploadRecord, UploadState
  <2>2. upload' = [upload EXCEPT ![u] = [upload[u] EXCEPT !.pc = "stored", !.src = s]]
    BY <2>1 DEF PutArchive
  <2>3. [upload[u] EXCEPT !.pc = "stored", !.src = s]
            = [pc |-> "stored", src |-> s, answer |-> upload[u].answer]
    BY <2>1, UpdateSource
  <2>4. [upload[u] EXCEPT !.pc = "stored", !.src = s] \in UploadRecord
    BY <2>1, <2>3 DEF UploadRecord, UploadState
  <2> QED
    BY <2>1, <2>2, <2>3, <2>4
<1>2. stored' = stored \cup {s} /\ UNCHANGED <<apiVars, row, job, runner, pushed, faults>>
  BY DEF PutArchive
<1>3. job[u].state = "absent"
  BY <1>0 DEF Inv, NoJobYet
<1>4. TypeOK'
  BY <1>0, <1>1, <1>2 DEF TypeOK, apiVars, UploadRecord, UploadState
<1>5. ArchiveStored' /\ NoJobYet'
  BY <1>1, <1>2, <1>3 DEF Inv, ArchiveStored, NoJobYet
<1>6. RowKnown'
  BY <1>1, <1>2 DEF Inv, RowKnown
<1>7. RowsOwned' /\ RowOrNone'
  BY <1>0, <1>1, <1>2 DEF Inv, RowsOwned, RowOrNone
<1>8. JobBounds' /\ BuiltPushed'
  BY <1>1, <1>2, <1>3 DEF Inv, JobBounds, BuiltPushed, SourceOf
<1>9. UploadsDedupe'
  BY <1>1, <1>2, <1>3 DEF Inv, UploadsDedupe, SourceOf
<1>10. JobHasInputs' /\ ReadyHasImage'
  BY <1>1, <1>2, <1>3 DEF Inv, JobHasInputs, ReadyHasImage, SourceOf
<1> QED
  BY <1>4, <1>5, <1>6, <1>7, <1>8, <1>9, <1>10 DEF Inv

\* A step of one upload u that changes no archive's, row's or Job's meaning:
\* u goes on to a state its facts allow.
LEMMA UploadMoves ==
    ASSUME Inv, NEW u \in Uploads, upload[u].pc # "ok",
           upload' \in [Uploads -> UploadRecord],
           \A v \in Uploads : /\ upload'[v].src = upload[v].src
                              /\ v # u => upload'[v] = upload[v],
           \/ upload'[u].pc = "failed"
           \/ /\ upload[u].pc = "stored" /\ upload'[u].pc = "duplicate"
              /\ row[upload[u].src].id # None
           \/ /\ upload[u].pc \in {"inserted", "duplicate"} /\ upload'[u].pc = "ok"
              /\ upload'[u].answer = row[upload[u].src].id,
           stored \subseteq stored', stored' \subseteq Sources,
           faults' \in 0 .. MaxFaults,
           UNCHANGED <<apiVars, row, job, runner, pushed>>
    PROVE  Inv'
<1>0. TypeOK
  BY DEF Inv
<1>1. TypeOK'
  BY <1>0 DEF TypeOK, apiVars, UploadRecord, UploadState
<1>2. ArchiveStored'
  BY DEF Inv, ArchiveStored
<1>3. NoJobYet'
  BY DEF Inv, NoJobYet
<1>4. RowKnown'
  <2>1. CASE upload'[u].pc = "failed"
    BY <2>1 DEF Inv, RowKnown
  <2>2. CASE upload[u].pc = "stored"
    <3>1. upload[u].src \in Sources
      BY <1>0, <2>2 DEF Inv, ArchiveStored, TypeOK
    <3>2. row[upload[u].src].id \in Uploads \cup {None}
      BY <1>0, <3>1 DEF TypeOK
    <3> QED
      BY <2>2, <3>2 DEF Inv, RowKnown
  <2>3. CASE upload[u].pc \in {"inserted", "duplicate"}
    BY <2>3 DEF Inv, RowKnown
  <2> QED
    BY <2>1, <2>2, <2>3
<1>5. RowsOwned' /\ RowOrNone'
  BY DEF Inv, RowsOwned, RowOrNone
<1>6. JobBounds' /\ BuiltPushed'
  BY DEF Inv, JobBounds, BuiltPushed, SourceOf
<1>7. UploadsDedupe'
  BY DEF Inv, UploadsDedupe, SourceOf
<1>8. JobHasInputs' /\ ReadyHasImage'
  BY DEF Inv, JobHasInputs, ReadyHasImage, SourceOf
<1> QED
  BY <1>1, <1>2, <1>3, <1>4, <1>5, <1>6, <1>7, <1>8 DEF Inv

\* Goto, as the change of one upload.
LEMMA GotoMoves ==
    ASSUME TypeOK, NEW u \in Uploads, NEW pc \in UploadState, Goto(u, pc)
    PROVE  /\ upload' \in [Uploads -> UploadRecord]
           /\ upload'[u].pc = pc
           /\ \A v \in Uploads : /\ upload'[v].src = upload[v].src
                                 /\ v # u => upload'[v] = upload[v]
<1>1. upload \in [Uploads -> UploadRecord]
  BY DEF TypeOK, UploadRecord, UploadState
<1> QED
  BY <1>1, GotoFacts DEF Goto

LEMMA PutFailsStep == ASSUME NEW u \in Uploads, NEW s \in Sources, Inv, PutFails(u, s) PROVE Inv'
<1>1. TypeOK /\ upload[u].pc # "ok" /\ "failed" \in UploadState
  BY DEF Inv, PutFails, UploadState
<1>2. /\ upload' \in [Uploads -> UploadRecord] /\ upload'[u].pc = "failed"
      /\ \A v \in Uploads : upload'[v].src = upload[v].src /\ (v # u => upload'[v] = upload[v])
  BY <1>1, GotoMoves DEF PutFails
<1>3. stored \subseteq stored' /\ stored' \subseteq Sources
  BY <1>1 DEF TypeOK, PutFails
<1>4. faults' \in 0 .. MaxFaults /\ UNCHANGED <<apiVars, row, job, runner, pushed>>
  BY <1>1, FaultBound DEF PutFails
<1> QED
  BY <1>1, <1>2, <1>3, <1>4, UploadMoves

LEMMA InsertRefusedStep == ASSUME NEW u \in Uploads, Inv, InsertRefused(u) PROVE Inv'
<1>1. TypeOK /\ upload[u].pc = "stored" /\ "duplicate" \in UploadState
  BY DEF Inv, InsertRefused, UploadState
<1>2. /\ upload' \in [Uploads -> UploadRecord] /\ upload'[u].pc = "duplicate"
      /\ \A v \in Uploads : upload'[v].src = upload[v].src /\ (v # u => upload'[v] = upload[v])
  BY <1>1, GotoMoves DEF InsertRefused
<1>3. row[upload[u].src].id # None
  BY <1>1 DEF Inv, InsertRefused, ArchiveStored, RowOrNone, TypeOK
<1>4. /\ faults' \in 0 .. MaxFaults /\ stored' = stored /\ stored \subseteq Sources
      /\ UNCHANGED <<apiVars, row, job, runner, pushed>>
  BY <1>1 DEF InsertRefused, TypeOK
<1> QED
  BY <1>1, <1>2, <1>3, <1>4, UploadMoves

LEMMA AnswerExistingStep == ASSUME NEW u \in Uploads, Inv, AnswerExisting(u) PROVE Inv'
<1>1. TypeOK /\ upload[u].pc = "duplicate" /\ row[upload[u].src].id \in Uploads
  BY DEF Inv, AnswerExisting, RowKnown
<1>2. /\ upload' \in [Uploads -> UploadRecord] /\ upload'[u].pc = "ok"
      /\ upload'[u].answer = row[upload[u].src].id
      /\ \A v \in Uploads : upload'[v].src = upload[v].src /\ (v # u => upload'[v] = upload[v])
  BY <1>1, AnswerFacts DEF AnswerExisting
<1>3. /\ faults' \in 0 .. MaxFaults /\ stored' = stored /\ stored \subseteq Sources
      /\ UNCHANGED <<apiVars, row, job, runner, pushed>>
  BY <1>1 DEF AnswerExisting, TypeOK
<1> QED
  BY <1>1, <1>2, <1>3, UploadMoves

LEMMA SkipDispatchStep == ASSUME NEW u \in Uploads, Inv, SkipDispatch(u) PROVE Inv'
<1>1. TypeOK /\ upload[u].pc = "inserted" /\ row[upload[u].src].id = u
  BY DEF Inv, SkipDispatch, RowKnown
<1>2. /\ upload' \in [Uploads -> UploadRecord] /\ upload'[u].pc = "ok"
      /\ upload'[u].answer = u
      /\ \A v \in Uploads : upload'[v].src = upload[v].src /\ (v # u => upload'[v] = upload[v])
  BY <1>1, AnswerFacts DEF SkipDispatch
<1>3. /\ faults' \in 0 .. MaxFaults /\ stored' = stored /\ stored \subseteq Sources
      /\ UNCHANGED <<apiVars, row, job, runner, pushed>>
  BY <1>1 DEF SkipDispatch, TypeOK
<1> QED
  BY <1>1, <1>2, <1>3, UploadMoves

-----------------------------------------------------------------------------
(***************************************************************************)
(* Calls that take effect.  R is the set of uploads whose INSERT is        *)
(* committed in this step, J the set of those whose Job is created.        *)
(***************************************************************************)

RowRecord ==
    [id : Uploads \cup {None}, image : BOOLEAN,
     status : {"NONE", "PENDING", "BUILDING", "READY", "REJECTED"}]
JobRecord == [state : {"absent", "active", "complete", "failed"}, failed : 0 .. BackoffLimit + 1]

\* The rows of R are inserted where there was none, and no other row changes.
RowsInserted(R) ==
    /\ row' \in [Sources -> RowRecord]
    /\ \A u \in R : /\ upload[u].pc = "stored"
                    /\ row[upload[u].src] = NoRow
                    /\ row'[upload[u].src] = NewRow(u)
    /\ \A s \in Sources : (\A u \in R : upload[u].src # s) => row'[s] = row[s]

\* The Jobs of J are created, and no other Job changes.
JobsCreated(J) ==
    /\ job' \in [Uploads -> JobRecord]
    /\ \A u \in J : upload[u].pc = "inserted" /\ job'[u].state = "active" /\ job'[u].failed = 0
    /\ \A u \in Uploads \ J : job'[u] = job[u]

\* An upload whose call took effect goes on or ends; the others go on as they
\* are or end.
UploadsGoOn(R, J) ==
    /\ upload' \in [Uploads -> UploadRecord]
    /\ \A v \in Uploads :
           /\ upload'[v].src = upload[v].src
           /\ \/ upload'[v].pc = "failed"
              \/ v \in R /\ upload'[v].pc = "inserted"
              \/ v \in J /\ upload'[v].pc = "ok" /\ upload'[v].answer = v
              \/ v \notin R \cup J /\ upload'[v] = upload[v]

LEMMA CallsLand ==
    ASSUME Inv, NEW R \in SUBSET Uploads, NEW J \in SUBSET Uploads,
           RowsInserted(R), JobsCreated(J), UploadsGoOn(R, J),
           api' \in {"down", "connected", "up"}, faults' \in 0 .. MaxFaults,
           UNCHANGED <<inCluster, bucket, stored, runner, pushed>>
    PROVE  Inv'
<1>0. TypeOK
  BY DEF Inv
<1>1. TypeOK'
  BY <1>0 DEF TypeOK, RowsInserted, JobsCreated, UploadsGoOn, UploadRecord, UploadState, RowRecord,
     JobRecord
<1>2. \A u \in Uploads : upload'[u].src = upload[u].src
  BY DEF UploadsGoOn
<1>3. \A u \in R : upload[u].src \in Sources /\ upload[u].src \in stored
  BY <1>0 DEF RowsInserted, Inv, ArchiveStored, TypeOK
<1>4. ASSUME NEW s \in Sources
      PROVE  \/ row'[s] = row[s]
             \/ row[s] = NoRow /\ \E u \in R : upload[u].src = s /\ row'[s] = NewRow(u)
  BY DEF RowsInserted
<1>40. \A u \in R : u \in Uploads /\ NewRow(u).id = u /\ NewRow(u).status = "PENDING"
  BY DEF NewRow
<1>5. \A s \in Sources : row[s].id # None => row'[s] = row[s]
  BY <1>4 DEF NoRow
<1>6. ASSUME NEW u \in Uploads, job'[u].state # "absent"
      PROVE  \/ job'[u] = job[u]
             \/ /\ upload[u].pc = "inserted" /\ job[u].state = "absent"
                /\ job'[u].state = "active" /\ job'[u].failed = 0
  BY <1>6 DEF JobsCreated, Inv, NoJobYet
<1>7. ArchiveStored'
  <2> SUFFICES ASSUME NEW u \in Uploads,
                      upload'[u].pc \in {"stored", "inserted", "duplicate", "ok"}
               PROVE  upload[u].src \in stored
    BY <1>2 DEF ArchiveStored
  <2>1. upload[u].pc \in {"stored", "inserted", "duplicate", "ok"}
    BY DEF UploadsGoOn, RowsInserted, JobsCreated
  <2> QED
    BY <2>1 DEF Inv, ArchiveStored
<1>8. NoJobYet'
  <2> SUFFICES ASSUME NEW u \in Uploads,
                      upload'[u].pc \in {"idle", "stored", "inserted", "duplicate"}
               PROVE  job'[u].state = "absent"
    BY DEF NoJobYet
  <2>1. u \notin J
    BY DEF UploadsGoOn, RowsInserted, JobsCreated
  <2>2. upload[u].pc \in {"idle", "stored", "inserted", "duplicate"}
    BY DEF UploadsGoOn, RowsInserted
  <2> QED
    BY <2>1, <2>2 DEF JobsCreated, Inv, NoJobYet
<1>9. RowKnown'
  <2> SUFFICES ASSUME NEW u \in Uploads
               PROVE  /\ upload'[u].pc = "inserted" => row'[upload[u].src].id = u
                      /\ upload'[u].pc \in {"duplicate", "ok"} => row'[upload[u].src].id \in Uploads
    BY <1>2 DEF RowKnown
  <2>1. CASE upload'[u].pc = "failed"
    BY <2>1
  <2>2. CASE u \in R /\ upload'[u].pc = "inserted"
    <3>1. row'[upload[u].src] = NewRow(u)
      BY <2>2 DEF RowsInserted
    <3> QED
      BY <1>40, <2>2, <3>1
  <2>3. CASE upload[u].pc \in {"inserted", "duplicate", "ok"}
    <3>1. upload[u].src \in Sources
      BY <1>0, <2>3 DEF Inv, ArchiveStored, TypeOK
    <3>2. /\ upload[u].pc = "inserted" => row[upload[u].src].id = u
          /\ upload[u].pc \in {"duplicate", "ok"} => row[upload[u].src].id \in Uploads
      BY DEF Inv, RowKnown
    <3>3. row'[upload[u].src] = row[upload[u].src]
      BY <1>5, <2>3, <3>1, <3>2, NoneAssumption
    <3>4. \/ upload'[u].pc = "failed"
          \/ upload[u].pc = "inserted" /\ upload'[u].pc = "ok"
          \/ upload'[u].pc = upload[u].pc
      BY <2>3 DEF UploadsGoOn, RowsInserted, JobsCreated
    <3> QED
      BY <3>2, <3>3, <3>4
  <2>4. CASE upload[u].pc \notin {"inserted", "duplicate", "ok"} /\ u \notin R
    BY <2>4 DEF UploadsGoOn, JobsCreated
  <2> QED
    BY <2>1, <2>2, <2>3, <2>4 DEF UploadsGoOn, RowsInserted, JobsCreated
<1>10. RowsOwned'
  <2> SUFFICES ASSUME NEW s \in Sources, NEW u \in Uploads, row'[s].id = u
               PROVE  upload'[u].src = s /\ upload'[u].pc # "idle"
    BY DEF RowsOwned
  <2>1. upload[u].src = s /\ upload[u].pc # "idle"
    <3>1. CASE row'[s] = row[s]
      BY <3>1 DEF Inv, RowsOwned
    <3>2. CASE \E v \in R : upload[v].src = s /\ row'[s] = NewRow(v)
      BY <3>2 DEF NewRow, RowsInserted
    <3> QED
      BY <1>4, <3>1, <3>2
  <2> QED
    BY <1>2, <2>1 DEF UploadsGoOn
<1>11. RowOrNone'
  <2> SUFFICES ASSUME NEW s \in Sources, row'[s].id = None
               PROVE  row'[s] = NoRow
    BY DEF RowOrNone
  <2>1. row'[s] = row[s]
    BY <1>4, <1>40, NoneAssumption
  <2> QED
    BY <2>1 DEF Inv, RowOrNone
<1>12. JobBounds'
  <2> SUFFICES ASSUME NEW u \in Uploads
               PROVE  /\ runner'[u] # "none" => job'[u].state = "active"
                      /\ job'[u].state = "active" => job'[u].failed <= BackoffLimit
                      /\ job'[u].state = "absent" => job'[u].failed = 0
    BY DEF JobBounds
  <2>1. CASE u \in J
    BY <2>1, BoundsAssumption DEF JobsCreated
  <2>2. CASE u \notin J
    BY <2>2 DEF JobsCreated, Inv, JobBounds
  <2> QED
    BY <2>1, <2>2
<1>13. BuiltPushed'
  BY <1>2 DEF Inv, BuiltPushed, SourceOf
<1>14. ASSUME NEW u \in Uploads, job'[u].state # "absent"
       PROVE  upload[u].src \in stored /\ row'[upload[u].src].id = u
  <2>1. upload[u].src \in stored /\ row[upload[u].src].id = u
    <3>1. CASE job'[u] = job[u]
      BY <1>14, <3>1 DEF Inv, JobHasInputs, SourceOf
    <3>2. CASE upload[u].pc = "inserted"
      BY <3>2 DEF Inv, ArchiveStored, RowKnown
    <3> QED
      BY <1>6, <1>14, <3>1, <3>2
  <2> QED
    BY <1>0, <1>5, <2>1, NoneAssumption DEF TypeOK
<1>15. JobHasInputs'
  BY <1>2, <1>14 DEF JobHasInputs, SourceOf
<1>16. UploadsDedupe'
  <2>1. ASSUME NEW u \in Uploads, NEW v \in Uploads, job'[u].state # "absent",
               job'[v].state # "absent", upload[u].src = upload[v].src
        PROVE  u = v
    BY <1>14, <2>1
  <2>2. ASSUME NEW u \in Uploads, upload'[u].pc = "ok"
        PROVE  upload'[u].answer = row'[upload[u].src].id
    <3>1. CASE u \in J
      <4>1. upload'[u].answer = u
        BY <2>2, <3>1 DEF UploadsGoOn, JobsCreated, RowsInserted
      <4>2. job'[u].state # "absent"
        BY <3>1 DEF JobsCreated
      <4> QED
        BY <1>14, <4>1, <4>2
    <3>2. CASE u \notin J
      <4>1. upload'[u] = upload[u]
        BY <2>2, <3>2 DEF UploadsGoOn, RowsInserted
      <4>2. /\ upload[u].answer = row[upload[u].src].id /\ row[upload[u].src].id # None
            /\ upload[u].src \in Sources
        BY <1>0, <2>2, <4>1, NoneAssumption
        DEF Inv, UploadsDedupe, RowKnown, ArchiveStored, SourceOf, TypeOK
      <4> QED
        BY <1>5, <4>1, <4>2
    <3> QED
      BY <3>1, <3>2
  <2> QED
    BY <1>2, <2>1, <2>2 DEF UploadsDedupe, SourceOf
<1>17. ReadyHasImage'
  <2>1. ASSUME NEW s \in Sources, row'[s].status = "READY"
        PROVE  s \in pushed /\ row'[s].image
    <3>1. row'[s] = row[s]
      BY <1>4, <1>40, <2>1
    <3> QED
      BY <2>1, <3>1 DEF Inv, ReadyHasImage
  <2>2. ASSUME NEW u \in Uploads, job'[u].state = "complete"
        PROVE  row'[upload[u].src].status = "READY"
    <3>1. job[u].state = "complete"
      BY <1>6, <2>2
    <3>2. /\ row[upload[u].src].status = "READY" /\ row[upload[u].src].id = u
          /\ upload[u].src \in Sources
      BY <1>0, <3>1 DEF Inv, ReadyHasImage, JobHasInputs, SourceOf, TypeOK
    <3> QED
      BY <1>5, <3>2, NoneAssumption
  <2> QED
    BY <1>2, <2>1, <2>2 DEF ReadyHasImage, SourceOf
<1> QED
  BY <1>1, <1>7, <1>8, <1>9, <1>10, <1>11, <1>12, <1>13, <1>15, <1>16, <1>17 DEF Inv

LEMMA InsertRowStep == ASSUME NEW u \in Uploads, Inv, InsertRow(u) PROVE Inv'
<1>1. TypeOK /\ upload[u].pc = "stored" /\ row[upload[u].src] = NoRow /\ "inserted" \in UploadState
  BY DEF Inv, InsertRow, UploadState
<1>2. upload[u].src \in Sources
  BY <1>1 DEF Inv, ArchiveStored, TypeOK
<1>3. RowsInserted({u})
  <2>1. row \in [Sources -> RowRecord] /\ NewRow(u) \in RowRecord
    BY <1>1 DEF TypeOK, RowRecord, NewRow
  <2>2. row' = [row EXCEPT ![upload[u].src] = NewRow(u)]
    BY DEF InsertRow
  <2> QED
    BY <1>1, <1>2, <2>1, <2>2 DEF RowsInserted
<1>4. JobsCreated({})
  BY <1>1 DEF JobsCreated, InsertRow, TypeOK, JobRecord
<1>5. UploadsGoOn({u}, {})
  <2>1. Goto(u, "inserted")
    BY DEF InsertRow
  <2> QED
    BY <1>1, <2>1, GotoMoves DEF UploadsGoOn
<1>6. /\ api' \in {"down", "connected", "up"} /\ faults' \in 0 .. MaxFaults
      /\ UNCHANGED <<inCluster, bucket, stored, runner, pushed>>
  BY <1>1 DEF InsertRow, apiVars, TypeOK
<1>7. {u} \in SUBSET Uploads /\ {} \in SUBSET Uploads
  OBVIOUS
<1> QED
  BY <1>3, <1>4, <1>5, <1>6, <1>7, CallsLand

LEMMA DispatchJobStep == ASSUME NEW u \in Uploads, Inv, DispatchJob(u) PROVE Inv'
<1>1. TypeOK /\ upload[u].pc = "inserted"
  BY DEF Inv, DispatchJob
<1>2. job[u].state = "absent" /\ job[u].failed = 0
  BY <1>1 DEF Inv, NoJobYet, JobBounds
<1>3. RowsInserted({})
  BY <1>1 DEF RowsInserted, DispatchJob, TypeOK, RowRecord
<1>4. JobsCreated({u})
  <2>1. job \in [Uploads -> JobRecord]
    BY <1>1 DEF TypeOK, JobRecord
  <2>2. job' = [job EXCEPT ![u] = [job[u] EXCEPT !.state = "active"]]
    BY DEF DispatchJob
  <2>3. [job[u] EXCEPT !.state = "active"] = [state |-> "active", failed |-> job[u].failed]
    BY <2>1 DEF JobRecord
  <2>4. [job[u] EXCEPT !.state = "active"] \in JobRecord
    BY <2>1, <2>3 DEF JobRecord
  <2> QED
    BY <1>1, <1>2, <2>1, <2>2, <2>3, <2>4 DEF JobsCreated
<1>5. UploadsGoOn({}, {u})
  <2>1. Answer(u, u)
    BY DEF DispatchJob
  <2> QED
    BY <1>1, <2>1, AnswerFacts DEF UploadsGoOn
<1>6. /\ api' \in {"down", "connected", "up"} /\ faults' \in 0 .. MaxFaults
      /\ UNCHANGED <<inCluster, bucket, stored, runner, pushed>>
  BY <1>1 DEF DispatchJob, apiVars, TypeOK
<1>7. {u} \in SUBSET Uploads /\ {} \in SUBSET Uploads
  OBVIOUS
<1> QED
  BY <1>3, <1>4, <1>5, <1>6, <1>7, CallsLand

\* Calls that take effect unheard insert rows and create Jobs like the others.
LEMMA LandFacts ==
    ASSUME Inv, NEW L \in SUBSET Uploads, Land(L)
    PROVE  \E R, J \in SUBSET L :
               /\ RowsInserted(R) /\ JobsCreated(J)
               /\ \A u \in R : upload[u].pc = "stored"
               /\ \A u \in J : upload[u].pc = "inserted"
<1> DEFINE R == {u \in L : upload[u].pc = "stored"}
           J == {u \in L : upload[u].pc = "inserted" /\ inCluster}
<1>0. TypeOK
  BY DEF Inv
<1>1. /\ \A u \in R : row[upload[u].src] = NoRow
      /\ \A u, v \in R : upload[u].src = upload[v].src => u = v
      /\ row' = [s \in Sources |->
                    IF \E u \in R : upload[u].src = s
                    THEN NewRow(CHOOSE u \in R : upload[u].src = s) ELSE row[s]]
      /\ job' = [u \in Uploads |->
                    IF u \in J THEN [job[u] EXCEPT !.state = "active"] ELSE job[u]]
  BY Zenon DEF Land
<1>2. /\ R \in SUBSET L /\ \A u \in R : u \in Uploads /\ upload[u].pc = "stored"
      /\ J \in SUBSET L /\ \A u \in J : u \in Uploads /\ upload[u].pc = "inserted"
  OBVIOUS
<1> HIDE DEF R, J
<1>3. \A u \in R : upload[u].src \in Sources
  BY <1>0, <1>2 DEF Inv, ArchiveStored, TypeOK
<1>4. \A u \in R : (CHOOSE v \in R : upload[v].src = upload[u].src) = u
  BY <1>1
<1>5. \A u \in R : row'[upload[u].src] = NewRow(u)
  BY <1>1, <1>3, <1>4
<1>6. \A s \in Sources : (\A u \in R : upload[u].src # s) => row'[s] = row[s]
  BY <1>1
<1>7. row' \in [Sources -> RowRecord]
  <2>1. \A s \in Sources : row'[s] \in RowRecord
    <3>1. \A u \in R : NewRow(u) \in RowRecord
      BY <1>2 DEF NewRow, RowRecord
    <3>2. \A s \in Sources : row[s] \in RowRecord
      BY <1>0 DEF TypeOK, RowRecord
    <3> QED
      BY <1>5, <1>6, <3>1, <3>2
  <2>2. DOMAIN row' = Sources /\ row' = [s \in Sources |-> row'[s]]
    BY <1>1
  <2> QED
    BY <2>1, <2>2
<1>8. RowsInserted(R)
  BY <1>1, <1>2, <1>5, <1>6, <1>7 DEF RowsInserted
<1>9. JobsCreated(J)
  <2>1. \A u \in Uploads : job[u] \in JobRecord
    BY <1>0 DEF TypeOK, JobRecord
  <2>2. \A u \in J : job[u].state = "absent" /\ job[u].failed = 0
    BY <1>2 DEF Inv, NoJobYet, JobBounds
  <2>3. \A u \in Uploads : /\ [job[u] EXCEPT !.state = "active"] \in JobRecord
                           /\ [job[u] EXCEPT !.state = "active"].state = "active"
                           /\ [job[u] EXCEPT !.state = "active"].failed = job[u].failed
    BY <2>1 DEF JobRecord
  <2>4. /\ \A u \in J : job'[u] = [job[u] EXCEPT !.state = "active"]
        /\ \A u \in Uploads \ J : job'[u] = job[u]
        /\ job' = [u \in Uploads |-> job'[u]]
    BY <1>1, <1>2
  <2>5. \A u \in Uploads : job'[u] \in JobRecord
    BY <2>1, <2>3, <2>4
  <2>6. job' \in [Uploads -> JobRecord]
    BY <2>4, <2>5
  <2>7. ASSUME NEW u \in J
        PROVE  job'[u].state = "active" /\ job'[u].failed = 0
    <3>1. u \in Uploads /\ job'[u] = [job[u] EXCEPT !.state = "active"]
      BY <1>2, <2>4
    <3>2. job[u].failed = 0 /\ job[u] \in JobRecord
      BY <2>1, <2>2, <3>1
    <3> QED
      BY <3>1, <3>2 DEF JobRecord
  <2> QED
    BY <1>2, <2>4, <2>6, <2>7 DEF JobsCreated
<1> QED
  BY <1>2, <1>8, <1>9

LEMMA UploadFailsStep == ASSUME NEW u \in Uploads, Inv, UploadFails(u) PROVE Inv'
<1>1. TypeOK /\ "failed" \in UploadState
  BY DEF Inv, UploadState
<1>2. /\ upload' \in [Uploads -> UploadRecord] /\ upload'[u].pc = "failed"
      /\ \A v \in Uploads : upload'[v].src = upload[v].src /\ (v # u => upload'[v] = upload[v])
  BY <1>1, GotoMoves DEF UploadFails
<1>3. PICK L \in SUBSET {u} : Land(L)
  BY DEF UploadFails
<1>4. PICK R \in SUBSET L, J \in SUBSET L : RowsInserted(R) /\ JobsCreated(J)
  BY <1>3, LandFacts
<1>5. R \subseteq {u} /\ J \subseteq {u} /\ R \in SUBSET Uploads /\ J \in SUBSET Uploads
  BY <1>3, <1>4
<1>6. UploadsGoOn(R, J)
  BY <1>2, <1>5 DEF UploadsGoOn
<1>7. faults' \in 0 .. MaxFaults
  BY <1>1, FaultBound DEF UploadFails
<1>8. /\ api' \in {"down", "connected", "up"}
      /\ UNCHANGED <<inCluster, bucket, stored, runner, pushed>>
  BY <1>1 DEF UploadFails, apiVars, TypeOK
<1> QED
  BY <1>4, <1>5, <1>6, <1>7, <1>8, CallsLand

LEMMA ApiCrashStep == Inv /\ ApiCrash => Inv'
<1> SUFFICES ASSUME Inv, ApiCrash
             PROVE  Inv'
  OBVIOUS
<1>1. TypeOK
  BY DEF Inv
<1>2. upload \in [Uploads -> UploadRecord]
  BY <1>1 DEF TypeOK, UploadRecord, UploadState
<1>3. upload' = [u \in Uploads |->
                    IF u \in InFlight THEN [upload[u] EXCEPT !.pc = "failed"] ELSE upload[u]]
  BY DEF ApiCrash
<1>4. \A u \in Uploads : /\ [upload[u] EXCEPT !.pc = "failed"] \in UploadRecord
                         /\ [upload[u] EXCEPT !.pc = "failed"].pc = "failed"
                         /\ [upload[u] EXCEPT !.pc = "failed"].src = upload[u].src
  BY <1>2 DEF UploadRecord, UploadState
<1>5. PICK L \in SUBSET InFlight : Land(L)
  BY DEF ApiCrash
<1>6. L \in SUBSET Uploads
  BY <1>5 DEF InFlight
<1>7. PICK R \in SUBSET L, J \in SUBSET L : RowsInserted(R) /\ JobsCreated(J)
  BY <1>5, <1>6, LandFacts
<1>8. R \subseteq InFlight /\ J \subseteq InFlight /\ R \in SUBSET Uploads /\ J \in SUBSET Uploads
  BY <1>5, <1>6, <1>7
<1>9. UploadsGoOn(R, J)
  <2>1. upload' \in [Uploads -> UploadRecord]
    BY <1>2, <1>3, <1>4
  <2> QED
    BY <1>2, <1>3, <1>4, <1>8, <2>1 DEF UploadsGoOn
<1>10. faults' \in 0 .. MaxFaults
  BY <1>1, FaultBound DEF ApiCrash
<1>11. /\ api' \in {"down", "connected", "up"}
       /\ UNCHANGED <<inCluster, bucket, stored, runner, pushed>>
  BY <1>1 DEF ApiCrash
<1> QED
  BY <1>7, <1>8, <1>9, <1>10, <1>11, CallsLand

-----------------------------------------------------------------------------
(***************************************************************************)
(* The Job and its build-runner.                                           *)
(***************************************************************************)

\* The Job of u moves on, and with it the pod of u and the row of u's archive.
\* No other Job's row is touched.
LEMMA RunnerMoves ==
    ASSUME Inv, NEW u \in Uploads, job[u].state = "active",
           row' \in [Sources -> RowRecord],
           \A s \in Sources : /\ row'[s].id = row[s].id
                              /\ s # upload[u].src => row'[s] = row[s],
           row'[upload[u].src].status = "READY"
               => upload[u].src \in pushed' /\ row'[upload[u].src].image,
           job' \in [Uploads -> JobRecord],
           \A v \in Uploads : v # u => job'[v] = job[v],
           job'[u].state # "absent",
           job'[u].state = "active" => job'[u].failed <= BackoffLimit,
           job'[u].state = "complete" => row'[upload[u].src].status = "READY",
           runner' \in [Uploads -> {"none", "started", "building", "compiled", "built", "rejecting"}],
           \A v \in Uploads : v # u => runner'[v] = runner[v],
           runner'[u] # "none" => job'[u].state = "active",
           runner'[u] = "built" => upload[u].src \in pushed',
           pushed \subseteq pushed', pushed' \subseteq Sources,
           faults' \in 0 .. MaxFaults,
           UNCHANGED <<apiVars, upload, stored>>
    PROVE  Inv'
<1>0. TypeOK
  BY DEF Inv
<1>1. upload[u].src \in Sources /\ upload[u].src \in stored /\ row[upload[u].src].id = u
  BY <1>0 DEF Inv, JobHasInputs, SourceOf, TypeOK
<1>2. TypeOK'
  BY <1>0 DEF TypeOK, apiVars, RowRecord, JobRecord
<1>3. ArchiveStored'
  BY DEF Inv, ArchiveStored
<1>4. NoJobYet'
  BY DEF Inv, NoJobYet
<1>5. RowKnown'
  BY <1>0 DEF Inv, RowKnown, ArchiveStored, TypeOK
<1>6. RowsOwned'
  BY DEF Inv, RowsOwned
<1>7. RowOrNone'
  BY <1>1, NoneAssumption DEF Inv, RowOrNone
<1>8. JobBounds'
  BY DEF Inv, JobBounds
<1>9. BuiltPushed'
  BY DEF Inv, BuiltPushed, SourceOf
<1>10. \A v \in Uploads : job[v].state # "absent" => upload[v].src \in Sources
  BY <1>0 DEF Inv, JobHasInputs, SourceOf, TypeOK
<1>11. \A v \in Uploads : job'[v].state # "absent" => job[v].state # "absent"
  OBVIOUS
<1>12. UploadsDedupe'
  <2>1. \A v \in Uploads : upload[v].pc = "ok" => upload[v].src \in Sources
    BY <1>0 DEF Inv, ArchiveStored, TypeOK
  <2>2. \A v \in Uploads : upload[v].pc = "ok" => upload[v].answer = row'[upload[v].src].id
    BY <2>1 DEF Inv, UploadsDedupe, SourceOf
  <2>3. \A v, w \in Uploads : job'[v].state # "absent" /\ job'[w].state # "absent"
                                  /\ upload[v].src = upload[w].src => v = w
    BY <1>11 DEF Inv, UploadsDedupe, SourceOf
  <2> QED
    BY <2>2, <2>3 DEF UploadsDedupe, SourceOf
<1>13. JobHasInputs'
  BY <1>10, <1>11 DEF Inv, JobHasInputs, SourceOf
<1>14. ReadyHasImage'
  <2>1. ASSUME NEW s \in Sources, row'[s].status = "READY"
        PROVE  s \in pushed' /\ row'[s].image
    BY <2>1 DEF Inv, ReadyHasImage
  <2>2. ASSUME NEW v \in Uploads, job'[v].state = "complete"
        PROVE  row'[upload[v].src].status = "READY"
    <3>1. CASE v = u
      BY <2>2, <3>1
    <3>2. CASE v # u
      <4>1. job[v].state = "complete" /\ upload[v].src \in Sources /\ row[upload[v].src].id = v
        BY <1>10, <2>2, <3>2 DEF Inv, JobHasInputs, SourceOf
      <4>2. upload[v].src # upload[u].src
        BY <1>1, <3>2, <4>1
      <4>3. row[upload[v].src].status = "READY"
        BY <4>1 DEF Inv, ReadyHasImage, SourceOf
      <4> QED
        BY <4>1, <4>2, <4>3
    <3> QED
      BY <3>1, <3>2
  <2> QED
    BY <2>1, <2>2 DEF ReadyHasImage, SourceOf
<1> QED
  BY <1>2, <1>3, <1>4, <1>5, <1>6, <1>7, <1>8, <1>9, <1>12, <1>13, <1>14 DEF Inv

\* Single-field and double-field updates of a row and of a Job.
LEMMA RowUpdates ==
    ASSUME NEW r \in RowRecord, NEW status \in {"BUILDING", "REJECTED"}
    PROVE  /\ [r EXCEPT !.status = status] = [id |-> r.id, status |-> status, image |-> r.image]
           /\ [r EXCEPT !.status = status] \in RowRecord
           /\ [r EXCEPT !.status = "READY", !.image = TRUE]
                  = [id |-> r.id, status |-> "READY", image |-> TRUE]
           /\ [r EXCEPT !.status = "READY", !.image = TRUE] \in RowRecord
<1>1. [r EXCEPT !.status = status] = [id |-> r.id, status |-> status, image |-> r.image]
  BY DEF RowRecord
<1>2. [r EXCEPT !.status = status] \in RowRecord
  BY <1>1 DEF RowRecord
<1>3. [r EXCEPT !.status = "READY", !.image = TRUE]
          = [[r EXCEPT !.status = "READY"] EXCEPT !.image = TRUE]
  BY Zenon
<1>4. [r EXCEPT !.status = "READY"] = [id |-> r.id, status |-> "READY", image |-> r.image]
  BY DEF RowRecord
<1>5. [r EXCEPT !.status = "READY"] \in RowRecord
  BY <1>4 DEF RowRecord
<1>60. \A q \in RowRecord, b \in BOOLEAN :
           [q EXCEPT !.image = b] = [id |-> q.id, status |-> q.status, image |-> b]
  BY DEF RowRecord
<1>6. \A q \in RowRecord :
          [q EXCEPT !.image = TRUE] = [id |-> q.id, status |-> q.status, image |-> TRUE]
  BY <1>60, Zenon
<1>7. [r EXCEPT !.status = "READY", !.image = TRUE]
          = [id |-> r.id, status |-> "READY", image |-> TRUE]
  BY <1>3, <1>4, <1>5, <1>6
<1>8. [r EXCEPT !.status = "READY", !.image = TRUE] \in RowRecord
  BY <1>7 DEF RowRecord
<1> QED
  BY <1>1, <1>2, <1>7, <1>8

LEMMA SetStatusFacts ==
    ASSUME TypeOK, NEW u \in Uploads, upload[u].src \in Sources,
           NEW status \in {"BUILDING", "REJECTED"}, SetStatus(u, status)
    PROVE  /\ row' \in [Sources -> RowRecord]
           /\ \A s \in Sources : /\ row'[s].id = row[s].id
                                 /\ s # upload[u].src => row'[s] = row[s]
           /\ row'[upload[u].src].status = status
<1>1. row \in [Sources -> RowRecord]
  BY DEF TypeOK, RowRecord
<1>2. row' = [row EXCEPT ![upload[u].src] = [row[upload[u].src] EXCEPT !.status = status]]
  BY DEF SetStatus, SourceOf
<1>3. row[upload[u].src] \in RowRecord
  BY <1>1
<1> DEFINE new == [row[upload[u].src] EXCEPT !.status = status]
<1>4. new \in RowRecord /\ new.status = status /\ new.id = row[upload[u].src].id
  <2>1. new = [id |-> row[upload[u].src].id, status |-> status, image |-> row[upload[u].src].image]
    BY <1>3, RowUpdates
  <2>2. new \in RowRecord
    BY <1>3, RowUpdates
  <2> QED
    BY <2>1, <2>2
<1>5. row' = [row EXCEPT ![upload[u].src] = new]
  BY <1>2
<1> HIDE DEF new
<1> QED
  BY <1>1, <1>4, <1>5

LEMMA SetReadyFacts ==
    ASSUME TypeOK, NEW u \in Uploads, upload[u].src \in Sources, SetReady(u)
    PROVE  /\ row' \in [Sources -> RowRecord]
           /\ \A s \in Sources : /\ row'[s].id = row[s].id
                                 /\ s # upload[u].src => row'[s] = row[s]
           /\ row'[upload[u].src].status = "READY" /\ row'[upload[u].src].image
<1>1. row \in [Sources -> RowRecord]
  BY DEF TypeOK, RowRecord
<1>2. row' = [row EXCEPT ![upload[u].src] =
                  [row[upload[u].src] EXCEPT !.status = "READY", !.image = TRUE]]
  BY <1>1 DEF SetReady, SourceOf
<1>3. row[upload[u].src] \in RowRecord /\ "BUILDING" \in {"BUILDING", "REJECTED"}
  BY <1>1
<1> DEFINE new == [row[upload[u].src] EXCEPT !.status = "READY", !.image = TRUE]
<1>4. new \in RowRecord /\ new = [id |-> row[upload[u].src].id, status |-> "READY", image |-> TRUE]
  BY <1>3, RowUpdates
<1>5. row' = [row EXCEPT ![upload[u].src] = new]
  BY <1>2
<1> HIDE DEF new
<1>6. new.status = "READY" /\ new.image /\ new.id = row[upload[u].src].id
  BY <1>4
<1> QED
  BY <1>1, <1>4, <1>5, <1>6

\* The pod of u exits with an error.
LEMMA PodFailedFacts ==
    ASSUME Inv, NEW u \in Uploads, runner[u] # "none", PodFailed(u)
    PROVE  /\ job' \in [Uploads -> JobRecord]
           /\ \A v \in Uploads : v # u => job'[v] = job[v] /\ runner'[v] = runner[v]
           /\ job'[u].state \in {"active", "failed"}
           /\ job'[u].state = "active" => job'[u].failed <= BackoffLimit
           /\ runner' \in [Uploads -> {"none", "started", "building", "compiled", "built", "rejecting"}]
           /\ runner'[u] = "none"
<1> DEFINE state == IF job[u].failed < BackoffLimit THEN "active" ELSE "failed"
<1>1. job \in [Uploads -> JobRecord] /\ job[u] \in JobRecord
  BY DEF Inv, TypeOK, JobRecord
<1>2. job[u].failed \in Nat /\ job[u].failed <= BackoffLimit /\ BackoffLimit \in Nat
  BY <1>1, BoundsAssumption DEF Inv, JobBounds, JobRecord
<1>3. state \in {"active", "failed"} /\ (state = "active" => job[u].failed < BackoffLimit)
  OBVIOUS
<1>4. job' = [job EXCEPT ![u] = [job[u] EXCEPT !.failed = @ + 1, !.state = state]]
  BY <1>1 DEF PodFailed
<1> HIDE DEF state
<1>5. [job[u] EXCEPT !.failed = @ + 1, !.state = state]
          = [state |-> state, failed |-> job[u].failed + 1]
  <2>1. [job[u] EXCEPT !.failed = @ + 1, !.state = state]
            = [[job[u] EXCEPT !.failed = job[u].failed + 1] EXCEPT !.state = state]
    BY Zenon
  <2>2. [job[u] EXCEPT !.failed = job[u].failed + 1]
            = [state |-> job[u].state, failed |-> job[u].failed + 1]
    BY <1>1 DEF JobRecord
  <2>3. [job[u] EXCEPT !.failed = job[u].failed + 1] \in JobRecord
    BY <1>1, <1>2, <2>2 DEF JobRecord
  <2>4. \A q \in JobRecord : [q EXCEPT !.state = state] = [state |-> state, failed |-> q.failed]
    BY DEF JobRecord
  <2> QED
    BY <2>1, <2>2, <2>3, <2>4
<1>6. [state |-> state, failed |-> job[u].failed + 1] \in JobRecord
  BY <1>2, <1>3 DEF JobRecord
<1>7. job' = [job EXCEPT ![u] = [state |-> state, failed |-> job[u].failed + 1]]
  BY <1>4, <1>5
<1>8. job'[u].state = state /\ job'[u].failed = job[u].failed + 1
  BY <1>1, <1>7
<1>9. job' \in [Uploads -> JobRecord] /\ \A v \in Uploads : v # u => job'[v] = job[v]
  BY <1>1, <1>6, <1>7
<1>10. /\ runner' \in [Uploads -> {"none", "started", "building", "compiled", "built", "rejecting"}]
       /\ runner'[u] = "none" /\ \A v \in Uploads : v # u => runner'[v] = runner[v]
  BY DEF Inv, TypeOK, PodFailed
<1>11. job'[u].state = "active" => job'[u].failed <= BackoffLimit
  BY <1>2, <1>3, <1>8
<1> QED
  BY <1>3, <1>8, <1>9, <1>10, <1>11

\* A Job with a pod: its archive and its row are there.
LEMMA ActiveFacts ==
    ASSUME Inv, NEW u \in Uploads, job[u].state = "active"
    PROVE  /\ TypeOK /\ upload[u].src \in Sources
           /\ row \in [Sources -> RowRecord] /\ job \in [Uploads -> JobRecord]
           /\ job[u].failed <= BackoffLimit
           /\ row[upload[u].src].status = "READY" =>
                  upload[u].src \in pushed /\ row[upload[u].src].image
  BY DEF Inv, TypeOK, JobHasInputs, SourceOf, RowRecord, JobRecord, JobBounds, ReadyHasImage

\* The pod of u goes on: what starts, what a build pushes, what is written.
LEMMA PodMoves ==
    ASSUME Inv, NEW u \in Uploads, job[u].state = "active",
           NEW next \in {"started", "building", "compiled", "built", "rejecting"},
           runner' = [runner EXCEPT ![u] = next],
           \/ row' = row
           \/ SetStatus(u, "BUILDING") /\ pushed' = pushed,
           next = "built" => upload[u].src \in pushed',
           pushed \subseteq pushed', pushed' \subseteq Sources,
           UNCHANGED <<apiVars, upload, stored, job, faults>>
    PROVE  Inv'
<1>1. /\ TypeOK /\ upload[u].src \in Sources
      /\ row \in [Sources -> RowRecord] /\ job \in [Uploads -> JobRecord]
      /\ job[u].failed <= BackoffLimit
      /\ row[upload[u].src].status = "READY" => upload[u].src \in pushed /\ row[upload[u].src].image
  BY ActiveFacts
<1>2. /\ runner' \in [Uploads -> {"none", "started", "building", "compiled", "built", "rejecting"}]
      /\ runner'[u] = next /\ \A v \in Uploads : v # u => runner'[v] = runner[v]
  BY <1>1 DEF TypeOK
<1>3. /\ row' \in [Sources -> RowRecord]
      /\ \A s \in Sources : /\ row'[s].id = row[s].id
                            /\ s # upload[u].src => row'[s] = row[s]
      /\ row'[upload[u].src].status = "READY"
             => upload[u].src \in pushed' /\ row'[upload[u].src].image
  <2>1. CASE row' = row
    BY <1>1, <2>1
  <2>2. CASE SetStatus(u, "BUILDING")
    BY <1>1, <2>2, SetStatusFacts
  <2> QED
    BY <2>1, <2>2
<1>4. faults' \in 0 .. MaxFaults
  BY <1>1 DEF TypeOK
<1>5. /\ job' \in [Uploads -> JobRecord] /\ \A v \in Uploads : job'[v] = job[v]
      /\ job'[u].state = "active" /\ job'[u].failed <= BackoffLimit
  BY <1>1
<1> QED
  BY <1>2, <1>3, <1>4, <1>5, RunnerMoves

LEMMA StartRunnerStep == ASSUME NEW u \in Uploads, Inv, StartRunner(u) PROVE Inv'
  BY PodMoves DEF StartRunner, Inv, TypeOK

LEMMA MarkBuildingStep == ASSUME NEW u \in Uploads, Inv, MarkBuilding(u) PROVE Inv'
<1>1. job[u].state = "active" /\ pushed \subseteq Sources
  BY DEF MarkBuilding, Inv, JobBounds, TypeOK
<1> QED
  BY <1>1, PodMoves DEF MarkBuilding

LEMMA CompilerMoves == ASSUME NEW u \in Uploads, Inv, CompilerStep(u) PROVE Inv'
<1>1. job[u].state = "active" /\ pushed \subseteq Sources
  BY DEF CompilerStep, Compile, CompileFails, Inv, JobBounds, TypeOK
<1> QED
  BY <1>1, PodMoves DEF CompilerStep, Compile, CompileFails

LEMMA PushStep == ASSUME NEW u \in Uploads, Inv, Push(u) \/ PushFails(u) PROVE Inv'
<1>0. job[u].state = "active" /\ pushed \subseteq Sources
  BY DEF Push, PushFails, Inv, JobBounds, TypeOK
<1>1. upload[u].src \in Sources
  BY <1>0, ActiveFacts
<1>2. CASE Push(u)
  <2>1. upload[u].src \in pushed' /\ pushed \subseteq pushed' /\ pushed' \subseteq Sources
    BY <1>0, <1>1, <1>2 DEF Push, SourceOf
  <2> QED
    BY <1>0, <1>2, <2>1, PodMoves DEF Push
<1>3. CASE PushFails(u)
  <2>1. pushed \subseteq pushed' /\ pushed' \subseteq Sources
    BY <1>0, <1>1, <1>3 DEF PushFails, SourceOf
  <2> QED
    BY <1>0, <1>3, <2>1, PodMoves DEF PushFails
<1> QED
  BY <1>2, <1>3

\* The pushed image of a finished build makes READY true.
LEMMA MarkReadyStep == ASSUME NEW u \in Uploads, Inv, MarkReady(u) PROVE Inv'
<1>0. job[u].state = "active" /\ upload[u].src \in pushed /\ pushed \subseteq Sources
  BY DEF MarkReady, Inv, JobBounds, BuiltPushed, SourceOf, TypeOK
<1>1. /\ TypeOK /\ upload[u].src \in Sources /\ job \in [Uploads -> JobRecord]
  BY <1>0, ActiveFacts
<1>2. /\ row' \in [Sources -> RowRecord]
      /\ \A s \in Sources : /\ row'[s].id = row[s].id
                            /\ s # upload[u].src => row'[s] = row[s]
      /\ row'[upload[u].src].status = "READY" /\ row'[upload[u].src].image
  BY <1>1, SetReadyFacts DEF MarkReady
<1>3. /\ job' \in [Uploads -> JobRecord] /\ \A v \in Uploads : v # u => job'[v] = job[v]
      /\ job'[u].state = "complete"
  <2>1. job' = [job EXCEPT ![u] = [job[u] EXCEPT !.state = "complete"]]
    BY DEF MarkReady
  <2>2. [job[u] EXCEPT !.state = "complete"] = [state |-> "complete", failed |-> job[u].failed]
    BY <1>1 DEF JobRecord
  <2>3. [job[u] EXCEPT !.state = "complete"] \in JobRecord
    BY <1>1, <2>2 DEF JobRecord
  <2> QED
    BY <1>1, <2>1, <2>2, <2>3
<1>4. /\ runner' \in [Uploads -> {"none", "started", "building", "compiled", "built", "rejecting"}]
      /\ runner'[u] = "none" /\ \A v \in Uploads : v # u => runner'[v] = runner[v]
  BY <1>1 DEF MarkReady, TypeOK
<1>5. faults' \in 0 .. MaxFaults /\ pushed' = pushed /\ UNCHANGED <<apiVars, upload, stored>>
  BY <1>1 DEF MarkReady, TypeOK
<1> QED
  BY <1>0, <1>2, <1>3, <1>4, <1>5, RunnerMoves

\* The pod fails; what it was writing may have been written.
LEMMA PodFailedStep ==
    ASSUME NEW u \in Uploads, Inv, runner[u] # "none", PodFailed(u),
           \/ row' = row
           \/ SetStatus(u, "BUILDING")
           \/ SetStatus(u, "REJECTED")
           \/ runner[u] = "built" /\ SetReady(u),
           pushed' \in {pushed, pushed \cup {SourceOf(u)}},
           faults' \in 0 .. MaxFaults,
           UNCHANGED <<apiVars, upload, stored>>
    PROVE  Inv'
<1>0. job[u].state = "active" /\ pushed \subseteq Sources
  BY DEF Inv, JobBounds, TypeOK
<1>1. /\ TypeOK /\ upload[u].src \in Sources /\ row \in [Sources -> RowRecord]
      /\ row[upload[u].src].status = "READY" => upload[u].src \in pushed /\ row[upload[u].src].image
  BY <1>0, ActiveFacts
<1>2. /\ row' \in [Sources -> RowRecord]
      /\ \A s \in Sources : /\ row'[s].id = row[s].id
                            /\ s # upload[u].src => row'[s] = row[s]
      /\ row'[upload[u].src].status = "READY"
             => upload[u].src \in pushed /\ row'[upload[u].src].image
  <2>1. CASE row' = row
    BY <1>1, <2>1
  <2>2. CASE SetStatus(u, "BUILDING")
    BY <1>1, <2>2, SetStatusFacts
  <2>3. CASE SetStatus(u, "REJECTED")
    BY <1>1, <2>3, SetStatusFacts
  <2>4. CASE runner[u] = "built" /\ SetReady(u)
    <3>1. upload[u].src \in pushed
      BY <2>4 DEF Inv, BuiltPushed, SourceOf
    <3> QED
      BY <1>1, <2>4, <3>1, SetReadyFacts
  <2> QED
    BY <2>1, <2>2, <2>3, <2>4
<1>3. /\ job' \in [Uploads -> JobRecord]
      /\ \A v \in Uploads : v # u => job'[v] = job[v] /\ runner'[v] = runner[v]
      /\ job'[u].state \in {"active", "failed"}
      /\ job'[u].state = "active" => job'[u].failed <= BackoffLimit
      /\ runner' \in [Uploads -> {"none", "started", "building", "compiled", "built", "rejecting"}]
      /\ runner'[u] = "none"
  BY PodFailedFacts
<1>4. pushed \subseteq pushed' /\ pushed' \subseteq Sources
  BY <1>0, <1>1 DEF SourceOf
<1> QED
  BY <1>0, <1>2, <1>3, <1>4, RunnerMoves

LEMMA MarkRejectedStep == ASSUME NEW u \in Uploads, Inv, MarkRejected(u) PROVE Inv'
<1>1. faults' \in 0 .. MaxFaults /\ runner[u] # "none"
  BY DEF MarkRejected, Inv, TypeOK
<1> QED
  BY <1>1, PodFailedStep DEF MarkRejected

LEMMA RunnerFailsStep == ASSUME NEW u \in Uploads, Inv, RunnerFails(u) PROVE Inv'
<1>1. faults' \in 0 .. MaxFaults /\ runner[u] # "none"
  BY FaultBound DEF RunnerFails, Inv
<1> QED
  BY <1>1, PodFailedStep DEF RunnerFails

-----------------------------------------------------------------------------
\* Every step keeps the invariant.
LEMMA InvStep == Inv /\ [Next]_vars => Inv'
<1> SUFFICES ASSUME Inv, [Next]_vars
             PROVE  Inv'
  OBVIOUS
<1>1. CASE ConnectPostgres
  BY <1>1, ApiStep DEF ConnectPostgres, Inv, TypeOK
<1>2. CASE EnsureBucket
  BY <1>2, ApiStep DEF EnsureBucket, Inv, TypeOK
<1>3. CASE StartFails
  <2>1. faults' \in 0 .. MaxFaults
    BY <1>3, FaultBound DEF StartFails, Inv
  <2>2. bucket' \in BOOLEAN
    BY <1>3 DEF StartFails, Inv, TypeOK
  <2> QED
    BY <1>3, <2>1, <2>2, ApiStep DEF StartFails
<1>4. CASE ApiCrash
  BY <1>4, ApiCrashStep
<1>5. ASSUME NEW u \in Uploads, NEW s \in Sources, PutArchive(u, s) \/ PutFails(u, s)
      PROVE  Inv'
  BY <1>5, PutStep, PutFailsStep
<1>6. ASSUME NEW u \in Uploads, UploadStep(u) \/ UploadFails(u)
      PROVE  Inv'
  BY <1>6, InsertRowStep, InsertRefusedStep, AnswerExistingStep, DispatchJobStep, SkipDispatchStep,
     UploadFailsStep DEF UploadStep
<1>7. ASSUME NEW u \in Uploads, RunnerStep(u) \/ CompilerStep(u) \/ RunnerFails(u)
      PROVE  Inv'
  BY <1>7, StartRunnerStep, MarkBuildingStep, CompilerMoves, PushStep, MarkReadyStep,
     MarkRejectedStep, RunnerFailsStep DEF RunnerStep
<1>8. CASE UNCHANGED vars
  BY <1>8, ApiStep DEF vars, apiVars, Inv, TypeOK
<1> QED
  BY <1>1, <1>2, <1>3, <1>4, <1>5, <1>6, <1>7, <1>8 DEF Next, Start

LEMMA InvAlways == Spec => []Inv
  BY InvInit, InvStep, PTL DEF Spec

\* Every variable keeps its type: no Job counts more than 1 + BackoffLimit
\* failed pods, because a pod runs only while its Job is active.
THEOREM PipelineTypeCorrect == Spec => []TypeOK
<1>1. Inv => TypeOK
  BY DEF Inv
<1> QED
  BY <1>1, InvAlways, PTL

\* Identical uploads dedupe (submission-api's Upload), however they interleave
\* and whichever calls fail: one Job per archive, one id for every answer.
THEOREM DedupeHolds == Spec => []UploadsDedupe
<1>1. Inv => UploadsDedupe
  BY DEF Inv
<1> QED
  BY <1>1, InvAlways, PTL

\* A Job that exists finds its archive in MinIO and its row in Postgres, also
\* one whose creation was not heard of.
THEOREM JobsFindInputs == Spec => []JobHasInputs
<1>1. Inv => JobHasInputs
  BY DEF Inv
<1> QED
  BY <1>1, InvAlways, PTL

\* READY means pushed and recorded, and a completed Job's submission stays
\* READY (build-runner's main), also over retries and unheard updates.
THEOREM ReadyIsBuilt == Spec => []ReadyHasImage
<1>1. Inv => ReadyHasImage
  BY DEF Inv
<1> QED
  BY <1>1, InvAlways, PTL
=============================================================================
