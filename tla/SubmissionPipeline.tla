------------------------- MODULE SubmissionPipeline -------------------------
(***************************************************************************)
(* From an upload to a built image: submission-api's Upload (the archive   *)
(* to MinIO, the row to Postgres, a Job to Kubernetes) and the build-      *)
(* runner the Job starts, up to 1 + BackoffLimit times.                    *)
(*                                                                         *)
(* An archive is known by its sha256: Sources is the set of archives.  A   *)
(* row, and the Job named after it, carry the id drawn by the upload that  *)
(* inserted the row, so the upload itself stands for its id.  Every remote *)
(* call may fail, and one that fails may have taken effect.  submission-   *)
(* api may die at any time; it serves again once it reached Postgres and   *)
(* made sure of its bucket.                                                *)
(***************************************************************************)
EXTENDS Integers, FiniteSets

CONSTANTS
    Uploads,        \* POST requests, each with a fresh uuid
    Sources,        \* archives, by their sha256
    BackoffLimit,   \* retries of a Job (2 in the source)
    MaxFaults       \* failing calls and killed processes (a bound)

ASSUME BoundsAssumption == BackoffLimit \in Nat /\ MaxFaults \in Nat

None == "none"
ASSUME NoneAssumption == None \notin Uploads /\ None \notin Sources

VARIABLES
    api,        \* submission-api: "down", "connected" to Postgres, or "up"
    inCluster,  \* whether it found a Kubernetes API to dispatch Jobs to
    bucket,     \* whether the MinIO bucket exists
    upload,     \* where each upload is: its step, its archive and its answer
    stored,     \* the archives in MinIO
    row,        \* the submissions table, one row per sha256
    job,        \* the Job of each id: its state and how many pods failed
    runner,     \* the build-runner pod of each Job
    pushed,     \* the archives whose image is in the registry
    faults

apiVars == <<api, inCluster, bucket>>
vars == <<apiVars, upload, stored, row, job, runner, pushed, faults>>

NewRow(u) == [id |-> u, status |-> "PENDING", image |-> FALSE]

NoRow == [id |-> None, status |-> "NONE", image |-> FALSE]

Settled == {"READY", "REJECTED"}

Init ==
    /\ api = "down"
    /\ inCluster \in BOOLEAN
    /\ bucket \in BOOLEAN
    /\ upload = [u \in Uploads |-> [pc |-> "idle", src |-> None, answer |-> None]]
    /\ stored = {}
    /\ row = [s \in Sources |-> NoRow]
    /\ job = [u \in Uploads |-> [state |-> "absent", failed |-> 0]]
    /\ runner = [u \in Uploads |-> "none"]
    /\ pushed = {}
    /\ faults = 0

Fault == faults < MaxFaults /\ faults' = faults + 1

-----------------------------------------------------------------------------
(***************************************************************************)
(* submission-api starts, and dies.                                        *)
(***************************************************************************)

\* postgresclient.New: the pool answers a ping.
ConnectPostgres ==
    /\ api = "down"
    /\ api' = "connected"
    /\ UNCHANGED <<inCluster, bucket, upload, stored, row, job, runner, pushed, faults>>

\* EnsureBucket, then ListenAndServe.
EnsureBucket ==
    /\ api = "connected"
    /\ api' = "up"
    /\ bucket' = TRUE
    /\ UNCHANGED <<inCluster, upload, stored, row, job, runner, pushed, faults>>

\* log.Fatalf: the process exits and is started again.  MakeBucket may have
\* taken effect.
StartFails ==
    /\ Fault
    /\ api # "up"
    /\ api' = "down"
    /\ bucket' \in {bucket, bucket \/ api = "connected"}
    /\ UNCHANGED <<inCluster, upload, stored, row, job, runner, pushed>>

-----------------------------------------------------------------------------
(***************************************************************************)
(* Upload.                                                                 *)
(***************************************************************************)

Goto(u, pc) == upload' = [upload EXCEPT ![u].pc = pc]

Answer(u, id) == upload' = [upload EXCEPT ![u].pc = "ok", ![u].answer = id]

\* PutContentAddressed: hash, then write under the hash.  A request that
\* HandleUpload refuses (its method, its language) does not get here.
PutArchive(u, s) ==
    /\ api = "up" /\ bucket
    /\ upload[u].pc = "idle"
    /\ upload' = [upload EXCEPT ![u].pc = "stored", ![u].src = s]
    /\ stored' = stored \cup {s}
    /\ UNCHANGED <<apiVars, row, job, runner, pushed, faults>>

\* The upload to MinIO fails, whether or not the archive arrived.
PutFails(u, s) ==
    /\ Fault
    /\ api = "up"
    /\ upload[u].pc = "idle"
    /\ Goto(u, "failed")
    /\ stored' \in {stored, stored \cup {s}}
    /\ UNCHANGED <<apiVars, row, job, runner, pushed>>

\* Faulty variant: an insert that overwrites.
InsertOrReplaceRow(u) ==
    /\ upload[u].pc = "stored"
    /\ row' = [row EXCEPT ![upload[u].src] = NewRow(u)]
    /\ Goto(u, "inserted")
    /\ UNCHANGED <<apiVars, stored, job, runner, pushed, faults>>

\* Insert: the sha256 column is unique.
InsertRow(u) ==
    /\ upload[u].pc = "stored"
    /\ row[upload[u].src] = NoRow
    /\ row' = [row EXCEPT ![upload[u].src] = NewRow(u)]
    /\ Goto(u, "inserted")
    /\ UNCHANGED <<apiVars, stored, job, runner, pushed, faults>>

\* A unique violation: the upload is a duplicate.
InsertRefused(u) ==
    /\ upload[u].pc = "stored"
    /\ row[upload[u].src] # NoRow
    /\ Goto(u, "duplicate")
    /\ UNCHANGED <<apiVars, stored, row, job, runner, pushed, faults>>

\* BySha256: the answer is the id of the first upload, whatever became of it.
AnswerExisting(u) ==
    /\ upload[u].pc = "duplicate"
    /\ Answer(u, row[upload[u].src].id)
    /\ UNCHANGED <<apiVars, stored, row, job, runner, pushed, faults>>

\* Faulty variant: the Job is created before the row.
DispatchJobEarly(u) ==
    /\ upload[u].pc \in {"stored", "inserted"}
    /\ job' = [job EXCEPT ![u].state = "active"]
    /\ Answer(u, u)
    /\ UNCHANGED <<apiVars, stored, row, runner, pushed, faults>>

\* Dispatch: the Job does not exist yet, create it.
DispatchJob(u) ==
    /\ inCluster
    /\ upload[u].pc = "inserted"
    /\ job' = [job EXCEPT ![u].state = "active"]
    /\ Answer(u, u)
    /\ UNCHANGED <<apiVars, stored, row, runner, pushed, faults>>

\* Disp is nil outside a cluster: the upload is accepted and not built.
SkipDispatch(u) ==
    /\ ~inCluster
    /\ upload[u].pc = "inserted"
    /\ Answer(u, u)
    /\ UNCHANGED <<apiVars, stored, row, job, runner, pushed, faults>>

InFlight == {u \in Uploads : upload[u].pc \in {"stored", "inserted", "duplicate"}}

\* The pending call of each upload in L takes effect although nobody hears of
\* it: the INSERT, or the creation of the Job.
Land(L) ==
    LET inserts == {u \in L : upload[u].pc = "stored"}
        creates == {u \in L : upload[u].pc = "inserted" /\ inCluster}
    IN  /\ L = inserts \cup creates
        /\ \A u \in inserts : row[upload[u].src] = NoRow
        /\ \A u, v \in inserts : upload[u].src = upload[v].src => u = v
        /\ row' = [s \in Sources |->
                      IF \E u \in inserts : upload[u].src = s
                      THEN NewRow(CHOOSE u \in inserts : upload[u].src = s) ELSE row[s]]
        /\ job' = [u \in Uploads |->
                      IF u \in creates THEN [job[u] EXCEPT !.state = "active"] ELSE job[u]]

\* An error or a cancelled request ends the upload.
UploadFails(u) ==
    /\ Fault
    /\ u \in InFlight
    /\ Goto(u, "failed")
    /\ \E L \in SUBSET {u} : Land(L)
    /\ UNCHANGED <<apiVars, stored, runner, pushed>>

\* submission-api dies, and every upload it was serving with it.
ApiCrash ==
    /\ Fault
    /\ api = "up"
    /\ api' = "down"
    /\ upload' = [u \in Uploads |->
                     IF u \in InFlight THEN [upload[u] EXCEPT !.pc = "failed"] ELSE upload[u]]
    /\ \E L \in SUBSET InFlight : Land(L)
    /\ UNCHANGED <<inCluster, bucket, stored, runner, pushed>>

-----------------------------------------------------------------------------
(***************************************************************************)
(* The Job and its build-runner.                                           *)
(***************************************************************************)

SourceOf(u) == upload[u].src

SetStatus(u, status) == row' = [row EXCEPT ![SourceOf(u)].status = status]

\* setStatusReady and setStatusReject: UPDATE ... WHERE sha256, no look at the
\* status it replaces.
SetReady(u) == row' = [row EXCEPT ![SourceOf(u)].status = "READY", ![SourceOf(u)].image = TRUE]

\* Faulty variant: no backoff limit.
PodFailedRetried(u) ==
    /\ job' = [job EXCEPT ![u].failed = @ + 1]
    /\ runner' = [runner EXCEPT ![u] = "none"]

\* The pod exits with an error: the Job counts it, and gives up after
\* 1 + BackoffLimit of them.
PodFailed(u) ==
    /\ job' = [job EXCEPT ![u].failed = @ + 1,
                          ![u].state = IF job[u].failed < BackoffLimit THEN "active" ELSE "failed"]
    /\ runner' = [runner EXCEPT ![u] = "none"]

StartRunner(u) ==
    /\ job[u].state = "active"
    /\ runner[u] = "none"
    /\ runner' = [runner EXCEPT ![u] = "started"]
    /\ UNCHANGED <<apiVars, upload, stored, row, job, pushed, faults>>

MarkBuilding(u) ==
    /\ runner[u] = "started"
    /\ SetStatus(u, "BUILDING")
    /\ runner' = [runner EXCEPT ![u] = "building"]
    /\ UNCHANGED <<apiVars, upload, stored, job, pushed, faults>>

\* runBuild: fetch, extract and compile.  The compiler works on the contestant's
\* archive, with neither a deadline nor an ActiveDeadlineSeconds of the Job.
Compile(u) ==
    /\ runner[u] = "building"
    /\ SourceOf(u) \in stored
    /\ runner' = [runner EXCEPT ![u] = "compiled"]
    /\ UNCHANGED <<apiVars, upload, stored, row, job, pushed, faults>>

CompileFails(u) ==
    /\ runner[u] = "building"
    /\ runner' = [runner EXCEPT ![u] = "rejecting"]
    /\ UNCHANGED <<apiVars, upload, stored, row, job, pushed, faults>>

\* builder.Build: package, and push.
Push(u) ==
    /\ runner[u] = "compiled"
    /\ pushed' = pushed \cup {SourceOf(u)}
    /\ runner' = [runner EXCEPT ![u] = "built"]
    /\ UNCHANGED <<apiVars, upload, stored, row, job, faults>>

\* remote.Write fails, whether or not the image arrived.
PushFails(u) ==
    /\ runner[u] = "compiled"
    /\ pushed' \in {pushed, pushed \cup {SourceOf(u)}}
    /\ runner' = [runner EXCEPT ![u] = "rejecting"]
    /\ UNCHANGED <<apiVars, upload, stored, row, job, faults>>

\* Faulty variant: READY before the push.
MarkReadyEarly(u) ==
    /\ runner[u] \in {"compiled", "built"}
    /\ SetReady(u)
    /\ job' = [job EXCEPT ![u].state = "complete"]
    /\ runner' = [runner EXCEPT ![u] = "none"]
    /\ UNCHANGED <<apiVars, upload, stored, pushed, faults>>

MarkReady(u) ==
    /\ runner[u] = "built"
    /\ SetReady(u)
    /\ job' = [job EXCEPT ![u].state = "complete"]
    /\ runner' = [runner EXCEPT ![u] = "none"]
    /\ UNCHANGED <<apiVars, upload, stored, pushed, faults>>

\* Faulty variant: exit without setStatusReject.
ExitUnmarked(u) ==
    /\ runner[u] = "rejecting"
    /\ PodFailed(u)
    /\ UNCHANGED <<apiVars, upload, stored, row, pushed, faults>>

\* setStatusReject, then exit status 1.
MarkRejected(u) ==
    /\ runner[u] = "rejecting"
    /\ SetStatus(u, "REJECTED")
    /\ PodFailed(u)
    /\ UNCHANGED <<apiVars, upload, stored, pushed, faults>>

\* A Postgres call fails or the pod is killed.  setStatusReject's error is
\* dropped, every other one is fatal: in each case the pod fails.  The UPDATE
\* may have been committed, or the image pushed.
RunnerFails(u) ==
    /\ Fault
    /\ runner[u] # "none"
    /\ PodFailed(u)
    /\ \/ UNCHANGED row
       \/ runner[u] = "started" /\ SetStatus(u, "BUILDING")
       \/ runner[u] = "rejecting" /\ SetStatus(u, "REJECTED")
       \/ runner[u] = "built" /\ SetReady(u)
    /\ \/ UNCHANGED pushed
       \/ runner[u] = "compiled" /\ pushed' = pushed \cup {SourceOf(u)}
    /\ UNCHANGED <<apiVars, upload, stored>>

-----------------------------------------------------------------------------
Start == ConnectPostgres \/ EnsureBucket

UploadStep(u) ==
    \/ InsertRow(u) \/ InsertRefused(u) \/ AnswerExisting(u)
    \/ DispatchJob(u) \/ SkipDispatch(u)

\* A compiler need not end: no fairness is asked of it.
CompilerStep(u) == Compile(u) \/ CompileFails(u)

RunnerStep(u) ==
    \/ StartRunner(u) \/ MarkBuilding(u) \/ Push(u) \/ PushFails(u)
    \/ MarkReady(u) \/ MarkRejected(u)

Next ==
    \/ Start \/ StartFails \/ ApiCrash
    \/ \E u \in Uploads :
           \/ \E s \in Sources : PutArchive(u, s) \/ PutFails(u, s)
           \/ UploadStep(u) \/ UploadFails(u)
           \/ RunnerStep(u) \/ CompilerStep(u) \/ RunnerFails(u)

Fairness ==
    /\ WF_vars(Start)
    /\ \A u \in Uploads : WF_vars(UploadStep(u)) /\ WF_vars(RunnerStep(u))

Spec == Init /\ [][Next]_vars /\ Fairness

-----------------------------------------------------------------------------
(***************************************************************************)
(* Properties.                                                             *)
(***************************************************************************)

\* Every variable has its type.
TypeOK ==
    /\ api \in {"down", "connected", "up"}
    /\ inCluster \in BOOLEAN /\ bucket \in BOOLEAN
    /\ upload \in [Uploads -> [pc : {"idle", "stored", "inserted", "duplicate", "ok", "failed"},
                               src : Sources \cup {None}, answer : Uploads \cup {None}]]
    /\ stored \subseteq Sources
    /\ row \in [Sources -> [id : Uploads \cup {None}, image : BOOLEAN,
                            status : {"NONE", "PENDING", "BUILDING", "READY", "REJECTED"}]]
    /\ job \in [Uploads -> [state : {"absent", "active", "complete", "failed"},
                            failed : 0 .. BackoffLimit + 1]]
    /\ runner \in [Uploads -> {"none", "started", "building", "compiled", "built", "rejecting"}]
    /\ pushed \subseteq Sources
    /\ faults \in 0 .. MaxFaults

\* Identical uploads dedupe, also when they run side by side: at most one Job
\* is ever created for an archive, and every accepted upload of it is told the
\* same id, the one its row has (Upload, Insert's unique violation).
UploadsDedupe ==
    /\ \A u, v \in Uploads :
           job[u].state # "absent" /\ job[v].state # "absent" /\ SourceOf(u) = SourceOf(v) => u = v
    /\ \A u \in Uploads : upload[u].pc = "ok" => upload[u].answer = row[SourceOf(u)].id

\* A Job never meets a missing archive or row: both are written before it is
\* created (the order of Upload's calls).
JobHasInputs ==
    \A u \in Uploads :
        job[u].state # "absent" => SourceOf(u) \in stored /\ row[SourceOf(u)].id = u

\* A submission is READY only if its image has been pushed and its reference
\* recorded (build-runner main: push before setStatusReady), and a Job that
\* completed leaves its submission READY for good.
ReadyHasImage ==
    /\ \A s \in Sources : row[s].status = "READY" => s \in pushed /\ row[s].image
    /\ \A u \in Uploads : job[u].state = "complete" => row[SourceOf(u)].status = "READY"

\* Unless a call fails or a compiler never ends, a submission with a Job ends
\* READY or REJECTED and stays so, through every retry of a build that is
\* rejected: a retry moves it out of REJECTED for a while only (build-runner
\* main, under a Job that is retried and has no deadline).
BuildsSettle ==
    \A u \in Uploads :
        (job[u].state = "active") ~>
            \/ faults > 0
            \/ [](runner[u] = "building")
            \/ [](SourceOf(u) # None /\ row[SourceOf(u)].status \in Settled)

\* In a cluster an accepted upload has a Job, created or about to be created by the upload
\* that owns the row (Upload: a duplicate is not dispatched again because
\* "the original Job's TTL/result is authoritative").
AcceptedHasJob ==
    \A u \in Uploads :
        inCluster /\ upload[u].pc = "ok" =>
            LET owner == upload[u].answer
            IN  job[owner].state # "absent" \/ upload[owner].pc = "inserted"

=============================================================================
