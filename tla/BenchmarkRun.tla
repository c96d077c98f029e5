---------------------------- MODULE BenchmarkRun ----------------------------
(***************************************************************************)
(* The BenchmarkRun reconciler of apps/benchmark-operator                  *)
(* (internal/controller/benchmarkrun_controller.go) driving one named      *)
(* BenchmarkRun against a Kubernetes API server.                           *)
(*                                                                         *)
(* The manager's client writes to the API server and reads from informer   *)
(* caches, one per kind, each some earlier version of that kind.  A write  *)
(* of the BenchmarkRun carries the resourceVersion that was read and is    *)
(* refused when the object has changed since; a refused write changes      *)
(* nothing and the key is requeued, so it is not a step here.  A reconcile *)
(* that writes once is one step: what may happen between its read and its  *)
(* write is covered by the cache lagging.  toPriming and handleDelete      *)
(* write several objects and are one step per write; an error or a crash   *)
(* may end them after any of these.                                        *)
(***************************************************************************)
EXTENDS Integers, FiniteSets, AdmissionPolicy

CONSTANTS
    Namespace,       \* the namespace of the run
    Servers,         \* the roles with a service, in the order of creation
    FreshCache,      \* TRUE: reads see the API server's current state
    MaxCreates,      \* how often the user creates the run (a bound)
    MaxFaults,       \* operator crashes, failed API reads and writes (a bound)
    MaxPodFailures,  \* pods whose container fails (a bound)
    MaxRefDeletes,   \* referenced objects the user deletes (a bound)
    InitialRefs      \* the referenced objects that exist at the start

ASSUME BoundsAssumption ==
    /\ FreshCache \in BOOLEAN
    /\ {MaxCreates, MaxFaults, MaxPodFailures, MaxRefDeletes} \subseteq Nat

Coordinator == "bot-coordinator"

\* toPriming creates the pods of all roles, then the services.  In the source
\* Servers is reference-oracle, submission, fairness-gateway.
PodOrder == Append(Servers, Coordinator)
ServiceOrder == Servers

ServiceRoles == {Servers[i] : i \in DOMAIN Servers}
Roles == ServiceRoles \cup {Coordinator}

ASSUME ServersAssumption ==
    /\ Servers \in Seq({"reference-oracle", "submission", "fairness-gateway"})
    /\ \A i, j \in DOMAIN Servers : Servers[i] = Servers[j] => i = j

Phases == {"", "PENDING", "ALLOCATING", "PRIMING", "RUNNING", "DRAINING",
           "COMPLETE", "INVALID"}

\* The phases Reconcile leaves alone that some transition writes; it names
\* three more (ABORTED, INSUFFICIENT_CAPACITY, GATEWAY_REJECT) nothing writes.
Terminal == {"COMPLETE", "INVALID"}

\* The phase of the Submission, the content hash of the Scenario, the BotSwarm,
\* which has no state, and whether the object exists.
SubmissionStates == {"absent", "new", "PENDING", "BUILDING", "READY", "REJECTED"}
ScenarioStates == {"absent", "new", "hashed"}
SwarmStates == {"absent", "present"}

RefStates == [sub : SubmissionStates, scn : ScenarioStates, swarm : SwarmStates]

\* The references, and those of a state that toAllocating is content with.
Kinds == {"sub", "scn", "swarm"}
InOrder(rs) == {kind \in Kinds : rs[kind] \in {"READY", "hashed", "present"}}

ASSUME InitialRefsAssumption == InitialRefs \subseteq RefStates

PodStates ==
    [status : {"absent", "Pending", "Running", "Succeeded", "Failed"},
     terminating : BOOLEAN, owner : 0 .. MaxCreates]

NoPod == [status |-> "absent", terminating |-> FALSE, owner |-> 0]

Runs ==
    [uid : 0 .. MaxCreates, rv : Nat, phase : Phases,
     finalizer : BOOLEAN, deleting : BOOLEAN]

NoRun == [uid |-> 0, rv |-> 0, phase |-> "", finalizer |-> FALSE, deleting |-> FALSE]

VARIABLES
    run,          \* the BenchmarkRun in the API server; NoRun when it is not there
    revision,     \* the API server's resourceVersion counter
    creates,      \* how many runs of this name have been created (last uid)
    pods,         \* the pod of each role (pod names are role-run)
    services,     \* owner uid of each role's service; 0 when there is none
    refs,         \* Submission, Scenario and BotSwarm the run names
    settled,      \* the references that have once been in order (a history variable)
    cache,        \* the informer caches: run, pods and refs as last seen
    rc,           \* the reconcile in progress, if it writes several objects
    faults, podFailures, refDeletes

apiVars == <<run, revision, creates, pods, services, refs, settled>>
boundVars == <<faults, podFailures, refDeletes>>
vars == <<apiVars, cache, rc, boundVars>>

Idle == [pc |-> "idle", br |-> NoRun, done |-> 0, todo |-> {}]

Init ==
    /\ run = NoRun
    /\ revision = 0
    /\ creates = 0
    /\ pods = [r \in Roles |-> NoPod]
    /\ services = [r \in ServiceRoles |-> 0]
    /\ refs \in InitialRefs /\ settled = InOrder(refs)
    /\ cache = [run |-> run, pods |-> pods, refs |-> refs]
    /\ rc = Idle
    /\ faults = 0 /\ podFailures = 0 /\ refDeletes = 0

-----------------------------------------------------------------------------
(***************************************************************************)
(* Reading through the manager's client, writing to the API server.        *)
(***************************************************************************)

Current == [run |-> run, pods |-> pods, refs |-> refs]

Fault == faults < MaxFaults /\ faults' = faults + 1

Seen == IF FreshCache THEN Current ELSE cache

Found(state) == state # "absent"

\* Get of the run returns an object that is not being deleted and holds the
\* finalizer: the guards Reconcile passes before its switch on the phase.
ReadsPhase(phase) ==
    /\ rc.pc = "idle"
    /\ Seen.run.uid # 0
    /\ ~ Seen.run.deleting
    /\ Seen.run.finalizer
    /\ Seen.run.phase = phase

\* Faulty variant: a write without resourceVersion.
UnchangedUid(br) == br.uid = run.uid

\* Optimistic concurrency: the object read is the object written.
Unchanged(br) == br.uid = run.uid /\ br.rv = run.rv

WriteRun(br) ==
    /\ revision' = revision + 1
    /\ run' = [br EXCEPT !.rv = revision + 1]

\* Status().Update with a new phase.
SetPhase(br, phase) == Unchanged(br) /\ WriteRun([br EXCEPT !.phase = phase])

\* listOwnedPods: pods are matched by the run's name, not by its uid.
ListedPods(podsOf) == {r \in Roles : podsOf[r].status # "absent"}

\* There is no readiness probe: a pod is Ready while its container runs.
PodReady(pod) == pod.status = "Running"

\* Faulty variant: the pods are counted, their state is not looked at.
AllOwnedPodsExist(podsOf) == Cardinality(ListedPods(podsOf)) >= Len(PodOrder)

\* Faulty variant: no exception for a coordinator that has already finished.
AllOwnedPodsRunning(podsOf) ==
    /\ Cardinality(ListedPods(podsOf)) >= Len(PodOrder)
    /\ \A r \in ListedPods(podsOf) : PodReady(podsOf[r])

AllOwnedPodsReady(podsOf) ==
    /\ Cardinality(ListedPods(podsOf)) >= Len(PodOrder)
    /\ \A r \in ListedPods(podsOf) :
           IF r = Coordinator THEN podsOf[r].status # "Pending" ELSE PodReady(podsOf[r])

-----------------------------------------------------------------------------
(***************************************************************************)
(* The transitions of Reconcile that write once.                           *)
(***************************************************************************)

AddFinalizer ==
    /\ rc.pc = "idle"
    /\ Seen.run.uid # 0
    /\ ~ Seen.run.deleting
    /\ ~ Seen.run.finalizer
    /\ Unchanged(Seen.run)
    /\ WriteRun([Seen.run EXCEPT !.finalizer = TRUE])
    /\ UNCHANGED <<creates, pods, services, refs, settled, cache, rc, boundVars>>

ToPending ==
    /\ ReadsPhase("")
    /\ SetPhase(Seen.run, "PENDING")
    /\ UNCHANGED <<creates, pods, services, refs, settled, cache, rc, boundVars>>

\* The checks of toAllocating, in its order: a missing reference is fatal,
\* a submission that is not READY or a scenario without hash is waited for.
RefMissing(rs) ==
    \/ ~ Found(rs.sub)
    \/ rs.sub = "READY" /\ ~ Found(rs.scn)
    \/ rs.sub = "READY" /\ rs.scn = "hashed" /\ ~ Found(rs.swarm)

\* Faulty variant: only a rejected submission is held back.
RefsExist(rs) == Found(rs.sub) /\ rs.sub # "REJECTED" /\ rs.scn = "hashed" /\ Found(rs.swarm)

RefsValidated(rs) == rs.sub = "READY" /\ rs.scn = "hashed" /\ Found(rs.swarm)

ToAllocating ==
    /\ ReadsPhase("PENDING")
    /\ RefsValidated(Seen.refs)
    /\ SetPhase(Seen.run, "ALLOCATING")
    /\ UNCHANGED <<creates, pods, services, refs, settled, cache, rc, boundVars>>

\* Any error of one of the reads is taken for a missing object, be it NotFound
\* or not; the first read, of the submission, is always made.
ToInvalid ==
    /\ ReadsPhase("PENDING")
    /\ (RefMissing(Seen.refs) /\ UNCHANGED faults) \/ Fault
    /\ SetPhase(Seen.run, "INVALID")
    /\ UNCHANGED <<creates, pods, services, refs, settled, cache, rc, podFailures, refDeletes>>

ObservePriming ==
    /\ ReadsPhase("PRIMING")
    /\ AllOwnedPodsReady(Seen.pods)
    /\ SetPhase(Seen.run, "RUNNING")
    /\ UNCHANGED <<creates, pods, services, refs, settled, cache, rc, boundVars>>

ObserveRunning ==
    /\ ReadsPhase("RUNNING")
    /\ Seen.pods[Coordinator].status = "Succeeded"
    /\ SetPhase(Seen.run, "DRAINING")
    /\ UNCHANGED <<creates, pods, services, refs, settled, cache, rc, boundVars>>

\* Faulty variant: a phase Reconcile does not know.
ToCompleted ==
    /\ ReadsPhase("DRAINING")
    /\ SetPhase(Seen.run, "COMPLETED")
    /\ UNCHANGED <<creates, pods, services, refs, settled, cache, rc, boundVars>>

ToComplete ==
    /\ ReadsPhase("DRAINING")
    /\ SetPhase(Seen.run, "COMPLETE")
    /\ UNCHANGED <<creates, pods, services, refs, settled, cache, rc, boundVars>>

-----------------------------------------------------------------------------
(***************************************************************************)
(* toPriming: the pods, the services, then the status.                     *)
(***************************************************************************)

\* toPriming re-reads submission and scenario, and only needs them to exist:
\* they may have been replaced since toAllocating looked at them.  (The API
\* server refuses the pod of a submission without image: a failed write.)
BeginPriming ==
    /\ ReadsPhase("ALLOCATING")
    /\ Found(Seen.refs.sub) /\ Found(Seen.refs.scn)
    /\ rc' = [pc |-> "priming", br |-> Seen.run, done |-> 0, todo |-> {}]
    /\ UNCHANGED <<apiVars, cache, boundVars>>

\* ensurePod: create, AlreadyExists is success; a pod the admission-webhook
\* denies ends the reconcile with an error.
EnsurePod ==
    /\ rc.pc = "priming"
    /\ rc.done < Len(PodOrder)
    /\ LET role == PodOrder[rc.done + 1]
           admitted == Allowed({"request", "pod"}, PodTemplate(role, Namespace))
       IN  /\ pods' = IF admitted /\ pods[role].status = "absent"
                      THEN [pods EXCEPT ![role] = [status |-> "Pending", terminating |-> FALSE,
                                                   owner |-> rc.br.uid]]
                      ELSE pods
           /\ rc' = IF admitted THEN [rc EXCEPT !.done = @ + 1] ELSE Idle
    /\ UNCHANGED <<run, revision, creates, services, refs, settled, cache, boundVars>>

EnsureService ==
    /\ rc.pc = "priming"
    /\ rc.done \in Len(PodOrder) .. Len(PodOrder) + Len(ServiceOrder) - 1
    /\ LET role == ServiceOrder[rc.done + 1 - Len(PodOrder)]
       IN  services' = IF services[role] = 0
                       THEN [services EXCEPT ![role] = rc.br.uid]
                       ELSE services
    /\ rc' = [rc EXCEPT !.done = @ + 1]
    /\ UNCHANGED <<run, revision, creates, pods, refs, settled, cache, boundVars>>

\* Faulty variant: the status is updated before the services are created.
FinishPrimingEarly ==
    /\ rc.pc = "priming"
    /\ rc.done = Len(PodOrder)
    /\ rc' = Idle
    /\ IF Unchanged(rc.br)
       THEN SetPhase(rc.br, "PRIMING")
       ELSE UNCHANGED <<run, revision>>
    /\ UNCHANGED <<creates, pods, services, refs, settled, cache, boundVars>>

\* The status update that ends toPriming, accepted or refused.
FinishPriming ==
    /\ rc.pc = "priming"
    /\ rc.done = Len(PodOrder) + Len(ServiceOrder)
    /\ rc' = Idle
    /\ IF Unchanged(rc.br)
       THEN SetPhase(rc.br, "PRIMING")
       ELSE UNCHANGED <<run, revision>>
    /\ UNCHANGED <<creates, pods, services, refs, settled, cache, boundVars>>

-----------------------------------------------------------------------------
(***************************************************************************)
(* handleDelete.                                                           *)
(***************************************************************************)

\* Owned pods are listed: the ones not terminating yet are to be deleted.
BeginDelete ==
    /\ rc.pc = "idle"
    /\ Seen.run.uid # 0
    /\ Seen.run.deleting
    /\ ListedPods(Seen.pods) # {}
    /\ rc' = [pc |-> "deleting", br |-> Seen.run, done |-> 0,
              todo |-> {r \in ListedPods(Seen.pods) : ~ Seen.pods[r].terminating}]
    /\ UNCHANGED <<apiVars, cache, boundVars>>

\* Faulty variant: the listed pods are waited for and never deleted.
SkipPod(r) ==
    /\ rc.pc = "deleting"
    /\ r \in rc.todo
    /\ rc' = [rc EXCEPT !.todo = @ \ {r}]
    /\ UNCHANGED <<apiVars, cache, boundVars>>

\* Delete of one listed pod; NotFound is ignored.
DeletePod(r) ==
    /\ rc.pc = "deleting"
    /\ r \in rc.todo
    /\ pods' = IF pods[r].status = "absent" THEN pods
               ELSE [pods EXCEPT ![r].terminating = TRUE]
    /\ rc' = [rc EXCEPT !.todo = @ \ {r}]
    /\ UNCHANGED <<run, revision, creates, services, refs, settled, cache, boundVars>>

\* The requeue after the loop.
EndDelete ==
    /\ rc.pc = "deleting"
    /\ rc.todo = {}
    /\ rc' = Idle
    /\ UNCHANGED <<apiVars, cache, boundVars>>

\* Faulty variant: the finalizer is dropped at once.
RemoveFinalizerAtOnce ==
    /\ rc.pc = "idle"
    /\ Seen.run.uid # 0
    /\ Seen.run.deleting
    /\ Unchanged(Seen.run)
    /\ run' = NoRun
    /\ revision' = revision + 1
    /\ UNCHANGED <<creates, pods, services, refs, settled, cache, rc, boundVars>>

\* No pod listed: the finalizer is dropped, and with it the object goes.
RemoveFinalizer ==
    /\ rc.pc = "idle"
    /\ Seen.run.uid # 0
    /\ Seen.run.deleting
    /\ ListedPods(Seen.pods) = {}
    /\ Unchanged(Seen.run)
    /\ run' = NoRun
    /\ revision' = revision + 1
    /\ UNCHANGED <<creates, pods, services, refs, settled, cache, rc, boundVars>>

-----------------------------------------------------------------------------
(***************************************************************************)
(* What the operator suffers.                                              *)
(***************************************************************************)

\* A write of a multi-write reconcile fails: the error ends the reconcile.
WriteFails ==
    /\ rc.pc # "idle"
    /\ Fault
    /\ rc' = Idle
    /\ UNCHANGED <<apiVars, cache, podFailures, refDeletes>>

\* The operator restarts: in-memory state is lost and the caches are listed
\* anew before the first reconcile.
OperatorRestart ==
    /\ Fault
    /\ rc' = Idle
    /\ cache' = IF FreshCache THEN cache ELSE Current
    /\ UNCHANGED <<apiVars, podFailures, refDeletes>>

\* Watch events of one kind arrive.
SyncRun ==
    /\ ~ FreshCache
    /\ cache.run # run
    /\ cache' = [cache EXCEPT !.run = run]
    /\ UNCHANGED <<apiVars, rc, boundVars>>

SyncPods ==
    /\ ~ FreshCache
    /\ cache.pods # pods
    /\ cache' = [cache EXCEPT !.pods = pods]
    /\ UNCHANGED <<apiVars, rc, boundVars>>

SyncRefs(kind) ==
    /\ ~ FreshCache
    /\ cache.refs[kind] # refs[kind]
    /\ cache' = [cache EXCEPT !.refs[kind] = refs[kind]]
    /\ UNCHANGED <<apiVars, rc, boundVars>>

-----------------------------------------------------------------------------
(***************************************************************************)
(* The user, the kubelet and the garbage collector.                        *)
(***************************************************************************)

CreateRun ==
    /\ run.uid = 0
    /\ creates < MaxCreates
    /\ creates' = creates + 1
    /\ revision' = revision + 1
    /\ run' = [NoRun EXCEPT !.uid = creates + 1, !.rv = revision + 1]
    /\ UNCHANGED <<pods, services, refs, settled, cache, rc, boundVars>>

\* kubectl delete: at once without finalizer, else a deletion timestamp.
DeleteRun ==
    /\ run.uid # 0
    /\ ~ run.deleting
    /\ IF run.finalizer
       THEN WriteRun([run EXCEPT !.deleting = TRUE])
       ELSE run' = NoRun /\ revision' = revision + 1
    /\ UNCHANGED <<creates, pods, services, refs, settled, cache, rc, boundVars>>

ChangeRef(kind, from, to) ==
    /\ refs[kind] = from
    /\ refs' = [refs EXCEPT ![kind] = to]
    /\ settled' = settled \cup InOrder(refs')
    /\ UNCHANGED <<run, revision, creates, pods, services, cache, rc, boundVars>>

\* The user creates the objects the run names, also again under the same name.
CreateRef ==
    \/ ChangeRef("sub", "absent", "new")
    \/ ChangeRef("scn", "absent", "new")
    \/ ChangeRef("swarm", "absent", "present")

\* SubmissionReconciler: an empty phase becomes PENDING.
SubmissionToPending == ChangeRef("sub", "new", "PENDING")

\* Someone settles the Submission object.  The operator only reads it, and
\* build-runner writes its verdict to Postgres (SubmissionPipeline).
BuildSettles ==
    \/ ChangeRef("sub", "PENDING", "BUILDING")
    \/ ChangeRef("sub", "BUILDING", "READY")
    \/ ChangeRef("sub", "BUILDING", "REJECTED")

\* ScenarioReconciler: the content hash is stamped once.
HashScenario == ChangeRef("scn", "new", "hashed")

DeleteRef(kind) ==
    /\ Found(refs[kind])
    /\ refDeletes < MaxRefDeletes
    /\ refDeletes' = refDeletes + 1
    /\ refs' = [refs EXCEPT ![kind] = "absent"]
    /\ UNCHANGED <<run, revision, creates, pods, services, settled, cache, rc, faults, podFailures>>

\* RestartPolicyNever: containers start once and never restart.
PodStatus(r, from, to) ==
    /\ pods[r].status = from
    /\ pods' = [pods EXCEPT ![r].status = to]
    /\ UNCHANGED <<run, revision, creates, services, refs, settled, cache, rc, faults, refDeletes>>

StartPod(r) ==
    /\ ~ pods[r].terminating
    /\ PodStatus(r, "Pending", "Running")
    /\ UNCHANGED podFailures

\* The coordinator's main returns, at the end of the schedule or on SIGTERM:
\* dispatch errors and a cancelled context alike end in exit status 0.
CoordinatorExits ==
    PodStatus(Coordinator, "Running", "Succeeded") /\ UNCHANGED podFailures

FailPod(r) ==
    /\ podFailures < MaxPodFailures
    /\ podFailures' = podFailures + 1
    /\ PodStatus(r, "Running", "Failed")

\* The kubelet removes a terminating pod once its containers are gone.
RemovePod(r) ==
    /\ pods[r].terminating
    /\ pods' = [pods EXCEPT ![r] = NoPod]
    /\ UNCHANGED <<run, revision, creates, services, refs, settled, cache, rc, boundVars>>

\* Owner references: an object whose owner is gone is collected.
CollectPod(r) ==
    /\ pods[r].status # "absent"
    /\ ~ pods[r].terminating
    /\ pods[r].owner # run.uid
    /\ pods' = [pods EXCEPT ![r].terminating = TRUE]
    /\ UNCHANGED <<run, revision, creates, services, refs, settled, cache, rc, boundVars>>

CollectService(r) ==
    /\ services[r] # 0
    /\ services[r] # run.uid
    /\ services' = [services EXCEPT ![r] = 0]
    /\ UNCHANGED <<run, revision, creates, pods, refs, settled, cache, rc, boundVars>>

-----------------------------------------------------------------------------
SingleWrite ==
    \/ AddFinalizer \/ ToPending \/ ToAllocating \/ ToInvalid
    \/ ObservePriming \/ ObserveRunning \/ ToComplete

Priming == BeginPriming \/ EnsurePod \/ EnsureService \/ FinishPriming

Deleting ==
    BeginDelete \/ (\E r \in Roles : DeletePod(r)) \/ EndDelete \/ RemoveFinalizer

Reconcile == SingleWrite \/ Priming \/ Deleting

Sync == SyncRun \/ SyncPods \/ \E kind \in Kinds : SyncRefs(kind)

User ==
    \/ CreateRun \/ DeleteRun \/ CreateRef
    \/ \E kind \in Kinds : DeleteRef(kind)

Cluster ==
    \/ SubmissionToPending \/ BuildSettles \/ HashScenario \/ CoordinatorExits
    \/ \E r \in Roles : StartPod(r) \/ FailPod(r) \/ RemovePod(r) \/ CollectPod(r)
    \/ \E r \in ServiceRoles : CollectService(r)

Next == Reconcile \/ Sync \/ User \/ Cluster \/ WriteFails \/ OperatorRestart

Fairness ==
    /\ WF_vars(Reconcile)
    /\ WF_vars(SyncRun) /\ WF_vars(SyncPods)
    /\ \A kind \in Kinds : WF_vars(SyncRefs(kind))
    /\ WF_vars(CoordinatorExits)
    /\ \A r \in Roles : WF_vars(StartPod(r)) /\ WF_vars(RemovePod(r)) /\ WF_vars(CollectPod(r))

Spec == Init /\ [][Next]_vars /\ Fairness

-----------------------------------------------------------------------------
(***************************************************************************)
(* Properties.                                                             *)
(***************************************************************************)

\* Every variable has its type.
TypeOK ==
    /\ run \in Runs
    /\ revision \in Nat
    /\ creates \in 0 .. MaxCreates
    /\ pods \in [Roles -> PodStates]
    /\ services \in [ServiceRoles -> 0 .. MaxCreates]
    /\ refs \in RefStates /\ settled \subseteq Kinds
    /\ cache \in [run : Runs, pods : [Roles -> PodStates], refs : RefStates]
    /\ rc \in [pc : {"idle", "priming", "deleting"}, br : Runs,
               done : 0 .. Len(PodOrder) + Len(ServiceOrder), todo : SUBSET Roles]
    /\ faults \in 0 .. MaxFaults
    /\ podFailures \in 0 .. MaxPodFailures
    /\ refDeletes \in 0 .. MaxRefDeletes

Successors ==
    [phase \in Phases |->
        CASE phase = "" -> {"PENDING"}
          [] phase = "PENDING" -> {"ALLOCATING", "INVALID"}
          [] phase = "ALLOCATING" -> {"PRIMING"}
          [] phase = "PRIMING" -> {"RUNNING"}
          [] phase = "RUNNING" -> {"DRAINING"}
          [] phase = "DRAINING" -> {"COMPLETE"}
          [] OTHER -> {}]

\* A run's phase only moves along the documented edges, and never out of a
\* terminal phase, although every transition is decided on a cached copy of
\* the run that may be any number of transitions old ("Transitions are
\* one-way", benchmarkrun_types.go).
PhasesOneWay ==
    [][run'.uid = run.uid /\ run'.phase # run.phase
           => run'.phase \in Successors[run.phase]]_vars

\* No pod exists before the submission has been READY, the scenario hashed
\* and the swarm there: whatever versions of them toAllocating reads, and
\* although they may be deleted and created anew before toPriming reads them
\* again (SubmissionRef: "The reconciler stalls (re-queues) until the build
\* pipeline produces an ImageDigest").  It is not claimed that they are in
\* order when the pods are created: toPriming does not look.
NoPodBeforeReady ==
    \A r \in Roles : pods[r].status # "absent" => settled = Kinds

PastPriming == run.phase \in {"PRIMING", "RUNNING", "DRAINING", "COMPLETE"}

\* From PRIMING on, and until the run is deleted, all of its pods exist:
\* toPriming reaches its status update only through all the creations, in
\* one reconcile or in several after failures and restarts.
PrimedHasPods ==
    PastPriming /\ ~ run.deleting =>
        \A r \in Roles : pods[r].status # "absent" /\ pods[r].owner = run.uid

\* From PRIMING on, and until the run is deleted, its pods exist and so do the
\* services that give them their DNS names (toPriming: "the coordinator and
\* the gateway both rely on cluster DNS to reach their peers").
PrimedIsComplete ==
    /\ PrimedHasPods
    /\ PastPriming /\ ~ run.deleting => \A r \in ServiceRoles : services[r] = run.uid

\* A run drains and completes only if its coordinator has succeeded, and runs
\* only if no pod is still pending.
PhaseMatchesPods ==
    ~ run.deleting =>
        /\ run.phase \in {"DRAINING", "COMPLETE"} => pods[Coordinator].status = "Succeeded"
        /\ run.phase \in {"RUNNING", "DRAINING", "COMPLETE"} =>
               \A r \in Roles : pods[r].status # "Pending"

\* The finalizer keeps the run until its pods are gone (handleDelete: "drop
\* the finalizer once the API server confirms they're gone").
PodsNeverOutliveRun ==
    \A r \in Roles : pods[r].status # "absent" => pods[r].owner = run.uid

Outlives(r) == pods[r].status # "absent" /\ pods[r].owner # run.uid

\* A pod comes to outlive its run in one way only: it was there, and not yet
\* in the informer's list, when handleDelete dropped the finalizer.  No
\* reconcile that lags behind creates a pod for a run that is gone, and no
\* run goes without its finalizer while it has pods.
OnlyUnseenPodsOutlive ==
    [][\A r \in Roles :
           ~ Outlives(r) /\ Outlives(r)' =>
               pods[r].status # "absent" /\ r \notin ListedPods(Seen.pods)]_vars

\* Deleting a run ends: its pods are removed and the object goes.
DeletionCompletes ==
    \A uid \in 1 .. MaxCreates :
        (run.uid = uid /\ run.deleting) ~> (run.uid # uid)

\* An allocated run reaches a terminal phase, unless it is deleted, a container
\* fails or a reference is deleted, although the coordinator may end before
\* allOwnedPodsReady has seen it run.
RunFinishes ==
    (run.phase = "ALLOCATING") ~>
        (run.phase \in Terminal \/ run.deleting \/ run.uid = 0 \/ refDeletes > 0 \/ podFailures > 0)

=============================================================================
