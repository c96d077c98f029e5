------------------------- MODULE BenchmarkRunProofs -------------------------
(***************************************************************************)
(* The reconciler's invariants, for any server roles and any number of     *)
(* runs, restarts, failures and deletions.  What a cache may show is       *)
(* limited by the order of the API server's writes: whoever writes the run *)
(* has read its last version.  Where the caches may lie about the pods of  *)
(* an earlier run of the same name (listOwnedPods goes by the name), the   *)
(* theorem says so: it is about fresh caches or about a single run.        *)
(***************************************************************************)
EXTENDS BenchmarkRun, FiniteSetTheorems, FunctionTheorems, SequenceTheorems, TLAPS

-----------------------------------------------------------------------------
(***************************************************************************)
(* The admission policy, which the API server asks about every pod.        *)
(***************************************************************************)

\* The production pod a test pod stands for: run under gVisor, every image
\* named by its digest, nothing else changed.
Hardened(pod) ==
    [pod EXCEPT !.test = FALSE, !.runtimeClass = "gvisor",
                !.containers = [i \in DOMAIN pod.containers |->
                                   [pod.containers[i] EXCEPT !.digest = TRUE]]]

\* What Hardened leaves alone and what it sets.
LEMMA HardenedFields ==
    ASSUME NEW pod \in Pods
    PROVE  LET h == Hardened(pod) IN
           /\ h.app = pod.app /\ h.namespace = pod.namespace /\ h.host = pod.host
           /\ h.nonRoot = pod.nonRoot /\ h.hostPath = pod.hostPath
           /\ h.test = FALSE /\ h.runtimeClass = "gvisor"
           /\ h.containers = [i \in DOMAIN pod.containers |->
                                 [pod.containers[i] EXCEPT !.digest = TRUE]]
BY DEF Hardened, Pods

\* A container of a test pod is allowed exactly when the same container with a
\* pinned image is allowed in production.
LEMMA ContainerExemption ==
    ASSUME NEW c \in Containers
    PROVE  ContainerAllowed(c, TRUE) <=> ContainerAllowed([c EXCEPT !.digest = TRUE], FALSE)
BY DEF Containers, ContainerAllowed

\* The label ironbook.io/test=true exempts from the runtimeClass and the digest
\* checks and from nothing else (policy.go: "exempted from the runtimeClass +
\* image-digest checks"): a test pod is admitted exactly when the production
\* pod it stands for is.
THEOREM ExemptionIsNarrow ==
    ASSUME NEW pod \in Pods, pod.test = TRUE
    PROVE  Validate(pod) <=> Validate(Hardened(pod))
<1> DEFINE h == Hardened(pod)
<1>1. /\ h.app = pod.app /\ h.namespace = pod.namespace /\ h.host = pod.host
      /\ h.nonRoot = pod.nonRoot /\ h.hostPath = pod.hostPath
      /\ h.test = FALSE /\ h.runtimeClass = "gvisor"
      /\ h.containers = [i \in DOMAIN pod.containers |->
                            [pod.containers[i] EXCEPT !.digest = TRUE]]
  BY HardenedFields
<1>2. pod.containers \in Seq(Containers)
  BY DEF Pods
<1>3. DOMAIN h.containers = DOMAIN pod.containers
  BY <1>1
<1>4. h.containers # << >> <=> pod.containers # << >>
  BY <1>1, <1>2
<1>5. ASSUME NEW i \in DOMAIN pod.containers
      PROVE  ContainerAllowed(pod.containers[i], pod.test)
                 <=> ContainerAllowed(h.containers[i], h.test)
  <2>1. pod.containers[i] \in Containers
    BY <1>2
  <2>2. h.containers[i] = [pod.containers[i] EXCEPT !.digest = TRUE]
    BY <1>1
  <2> QED
    BY <1>1, <2>1, <2>2, ContainerExemption
<1>6. (\A i \in DOMAIN pod.containers : ContainerAllowed(pod.containers[i], pod.test))
          <=> (\A i \in DOMAIN h.containers : ContainerAllowed(h.containers[i], h.test))
  BY <1>3, <1>5
<1>7. pod.hostPath \in BOOLEAN
  BY DEF Pods
<1> SUFFICES Validate(pod) <=> Validate(h)
  OBVIOUS
<1> HIDE DEF h
<1>8. /\ h.app = pod.app /\ h.namespace = pod.namespace /\ h.host = pod.host
      /\ h.nonRoot = pod.nonRoot /\ h.hostPath = pod.hostPath
      /\ h.test = FALSE /\ h.runtimeClass = "gvisor"
  BY <1>1
<1> QED
  BY <1>4, <1>6, <1>7, <1>8 DEF Validate

-----------------------------------------------------------------------------
(***************************************************************************)
(* The run.                                                                *)
(***************************************************************************)

NumServers == Len(Servers)

\* The run is there and nobody has deleted it.
Alive == run.uid # 0 /\ ~ run.deleting

-----------------------------------------------------------------------------
(***************************************************************************)
(* The roles.                                                              *)
(***************************************************************************)

\* toPriming's two lists: every role has one pod, every server one service.
LEMMA OrderFacts ==
    /\ NumServers \in Nat
    /\ Len(ServiceOrder) = NumServers /\ Len(PodOrder) = NumServers + 1
    /\ \A i \in 1 .. NumServers : PodOrder[i] = Servers[i] /\ ServiceOrder[i] = Servers[i]
    /\ PodOrder[NumServers + 1] = Coordinator
    /\ ServiceRoles = {Servers[i] : i \in 1 .. NumServers}
    /\ Coordinator \notin ServiceRoles
<1> DEFINE T == {"reference-oracle", "submission", "fairness-gateway"}
<1> DEFINE U == T \cup {Coordinator}
<1>1. Servers \in Seq(T) /\ Servers \in Seq(U) /\ Coordinator \in U /\ Coordinator \notin T
  BY ServersAssumption, SeqMonotonic DEF Coordinator
<1>2. NumServers \in Nat /\ DOMAIN Servers = 1 .. NumServers
      /\ \A i \in 1 .. NumServers : Servers[i] \in T
  BY <1>1, LenProperties, ElementOfSeq DEF NumServers
<1> HIDE DEF T, U
<1>3. /\ Len(PodOrder) = NumServers + 1
      /\ \A i \in 1 .. NumServers : PodOrder[i] = Servers[i]
      /\ PodOrder[NumServers + 1] = Coordinator
  BY <1>1, AppendProperties DEF PodOrder, NumServers
<1>4. Coordinator \notin ServiceRoles /\ ServiceRoles = {Servers[i] : i \in 1 .. NumServers}
  BY <1>1, <1>2 DEF ServiceRoles
<1> QED
  BY <1>2, <1>3, <1>4 DEF ServiceOrder, NumServers

\* Every role is in toPriming's list of pods, and the list names only roles.
LEMMA RoleFacts ==
    /\ \A i \in 1 .. NumServers + 1 : PodOrder[i] \in Roles
    /\ \A r \in Roles : \E i \in 1 .. NumServers + 1 : PodOrder[i] = r
    /\ \A i \in 1 .. NumServers : ServiceOrder[i] \in ServiceRoles
    /\ \A r \in ServiceRoles : r \in Roles /\ \E i \in 1 .. NumServers : ServiceOrder[i] = r
    /\ Coordinator \in Roles
<1>1. \A i \in 1 .. NumServers + 1 : i \in 1 .. NumServers \/ i = NumServers + 1
  BY OrderFacts
<1>2. NumServers + 1 \in 1 .. NumServers + 1 /\ \A i \in 1 .. NumServers : i \in 1 .. NumServers + 1
  BY OrderFacts
<1> QED
  BY <1>1, <1>2, OrderFacts DEF Roles

\* There are no more roles than toPriming creates pods, so as many pods as
\* that are one of every role (allOwnedPodsReady).
LEMMA AllListed ==
    ASSUME NEW listed \in SUBSET Roles, Cardinality(listed) >= Len(PodOrder)
    PROVE  listed = Roles
<1> DEFINE n == NumServers + 1
<1> DEFINE f == [i \in 1 .. n |-> PodOrder[i]]
<1>1. n \in Nat /\ Len(PodOrder) = n
  BY OrderFacts
<1>2. f \in Surjection(1 .. n, Roles)
  BY RoleFacts DEF Surjection
<1>3. ExistsSurjection(1 .. n, Roles)
  BY <1>2 DEF ExistsSurjection
<1>4. IsFiniteSet(Roles)
  BY <1>1, <1>3, FS_NatSurjection
<1>5. Cardinality(Roles) <= n
  BY <1>1, <1>3, FS_SurjCardinalityBound
<1>6. IsFiniteSet(listed) /\ Cardinality(listed) <= Cardinality(Roles)
      /\ (Cardinality(Roles) = Cardinality(listed) => Roles = listed)
  BY <1>4, FS_Subset
<1>7. Cardinality(listed) \in Nat /\ Cardinality(Roles) \in Nat
  BY <1>4, <1>6, FS_CardinalityType
<1> HIDE DEF n
<1> QED
  BY <1>1, <1>5, <1>6, <1>7

-----------------------------------------------------------------------------
(***************************************************************************)
(* Which actions write what.                                               *)
(***************************************************************************)

LEMMA RunWriters ==
    ASSUME [Next]_vars
    PROVE  \/ UNCHANGED <<run, revision, creates>>
           \/ SingleWrite \/ FinishPriming \/ RemoveFinalizer \/ CreateRun \/ DeleteRun
BY DEF Next, vars, apiVars, Reconcile, Priming, Deleting, BeginPriming, EnsurePod, EnsureService,
       BeginDelete, DeletePod, EndDelete, Sync, SyncRun, SyncPods, SyncRefs, User, CreateRef,
       ChangeRef, DeleteRef, Cluster, SubmissionToPending, BuildSettles, HashScenario,
       CoordinatorExits, PodStatus, StartPod, FailPod, RemovePod, CollectPod, CollectService,
       WriteFails, OperatorRestart

LEMMA PodWriters ==
    ASSUME [Next]_vars
    PROVE  \/ pods' = pods \/ EnsurePod \/ CoordinatorExits
           \/ \E r \in Roles :
                 DeletePod(r) \/ StartPod(r) \/ FailPod(r) \/ RemovePod(r) \/ CollectPod(r)
BY DEF Next, vars, apiVars, Reconcile, SingleWrite, AddFinalizer, ToPending, ToAllocating,
       ToInvalid, ObservePriming, ObserveRunning, ToComplete, Priming, BeginPriming,
       EnsureService, FinishPriming, Deleting, BeginDelete, EndDelete, RemoveFinalizer,
       Sync, SyncRun, SyncPods, SyncRefs, User, CreateRun, DeleteRun, CreateRef,
       ChangeRef, DeleteRef, Cluster, SubmissionToPending, BuildSettles, HashScenario,
       CollectService, WriteFails, OperatorRestart

LEMMA ServiceWriters ==
    ASSUME [Next]_vars
    PROVE  services' = services \/ EnsureService \/ \E r \in ServiceRoles : CollectService(r)
BY DEF Next, vars, apiVars, Reconcile, SingleWrite, AddFinalizer, ToPending, ToAllocating,
       ToInvalid, ObservePriming, ObserveRunning, ToComplete, Priming, BeginPriming, EnsurePod,
       FinishPriming, Deleting, BeginDelete, DeletePod, EndDelete, RemoveFinalizer,
       Sync, SyncRun, SyncPods, SyncRefs, User, CreateRun, DeleteRun, CreateRef,
       ChangeRef, DeleteRef, Cluster, SubmissionToPending, BuildSettles, HashScenario,
       CoordinatorExits, PodStatus, StartPod, FailPod, RemovePod, CollectPod,
       WriteFails, OperatorRestart

LEMMA RefWriters ==
    ASSUME [Next]_vars
    PROVE  \/ UNCHANGED <<refs, settled>>
           \/ CreateRef \/ SubmissionToPending \/ BuildSettles \/ HashScenario
           \/ \E kind \in Kinds : DeleteRef(kind)
BY DEF Next, vars, apiVars, Reconcile, SingleWrite, AddFinalizer, ToPending, ToAllocating,
       ToInvalid, ObservePriming, ObserveRunning, ToComplete, Priming, BeginPriming, EnsurePod,
       EnsureService, FinishPriming, Deleting, BeginDelete, DeletePod, EndDelete, RemoveFinalizer,
       Sync, SyncRun, SyncPods, SyncRefs, User, CreateRun, DeleteRun, Cluster,
       CoordinatorExits, PodStatus, StartPod, FailPod, RemovePod, CollectPod, CollectService,
       WriteFails, OperatorRestart

LEMMA CacheWriters ==
    ASSUME [Next]_vars
    PROVE  cache' = cache \/ OperatorRestart \/ Sync
BY DEF Next, vars, apiVars, Reconcile, SingleWrite, AddFinalizer, ToPending, ToAllocating,
       ToInvalid, ObservePriming, ObserveRunning, ToComplete, Priming, BeginPriming, EnsurePod,
       EnsureService, FinishPriming, Deleting, BeginDelete, DeletePod, EndDelete, RemoveFinalizer,
       User, CreateRun, DeleteRun, CreateRef, ChangeRef, DeleteRef, Cluster, SubmissionToPending,
       BuildSettles, HashScenario, CoordinatorExits, PodStatus, StartPod, FailPod, RemovePod,
       CollectPod, CollectService, WriteFails

LEMMA RcWriters ==
    ASSUME [Next]_vars
    PROVE  \/ rc' = rc \/ rc' = Idle
           \/ BeginPriming \/ EnsurePod \/ EnsureService \/ BeginDelete
           \/ \E r \in Roles : DeletePod(r)
BY DEF Next, vars, apiVars, Reconcile, SingleWrite, AddFinalizer, ToPending, ToAllocating,
       ToInvalid, ObservePriming, ObserveRunning, ToComplete, Priming, FinishPriming,
       Deleting, EndDelete, RemoveFinalizer, Sync, SyncRun, SyncPods, SyncRefs,
       User, CreateRun, DeleteRun, CreateRef, ChangeRef, DeleteRef, Cluster, SubmissionToPending,
       BuildSettles, HashScenario, CoordinatorExits, PodStatus, StartPod, FailPod, RemovePod,
       CollectPod, CollectService, WriteFails, OperatorRestart

-----------------------------------------------------------------------------
(***************************************************************************)
(* Writing the run.                                                        *)
(***************************************************************************)

\* A copy of the run was read from the API server: it is the run itself if it
\* still has its resourceVersion, and what it is marked with stays.
CopyOf(br) ==
    /\ br.rv <= revision /\ br.uid <= creates
    /\ br.uid = 0 => br = NoRun
    /\ br.uid = run.uid /\ br.rv = run.rv => br = run
    /\ br.uid = run.uid /\ br.deleting => run.deleting
    /\ br.uid = run.uid /\ br.finalizer => run.finalizer

Copies ==
    /\ CopyOf(run) /\ CopyOf(cache.run) /\ CopyOf(rc.br)
    /\ rc.pc = "idle" => rc = Idle
    /\ rc.pc = "priming" =>
           rc.br.uid # 0 /\ ~ rc.br.deleting /\ rc.br.finalizer /\ rc.br.phase = "ALLOCATING"
    /\ rc.pc = "deleting" => rc.br.uid # 0 /\ rc.br.deleting

\* The phase changes, and what the reconciler saw when it changed it.
PhaseMoves ==
    \/ run.phase = "" /\ run'.phase = "PENDING"
    \/ run.phase = "PENDING" /\ run'.phase = "ALLOCATING" /\ RefsValidated(Seen.refs)
    \/ run.phase = "PENDING" /\ run'.phase = "INVALID"
    \/ /\ run.phase = "ALLOCATING" /\ run'.phase = "PRIMING"
       /\ rc.pc = "priming" /\ rc.br = run /\ rc.done = Len(PodOrder) + Len(ServiceOrder)
    \/ run.phase = "PRIMING" /\ run'.phase = "RUNNING" /\ AllOwnedPodsReady(Seen.pods)
    \/ /\ run.phase = "RUNNING" /\ run'.phase = "DRAINING"
       /\ Seen.pods[Coordinator].status = "Succeeded"
    \/ run.phase = "DRAINING" /\ run'.phase = "COMPLETE"

\* The run is written: marked, given its finalizer or moved to a new phase.
Updated ==
    /\ run.uid # 0 /\ revision' = revision + 1 /\ creates' = creates
    /\ run' \in Runs /\ run'.uid = run.uid /\ run'.rv = revision + 1
    /\ run.finalizer => run'.finalizer
    /\ run.deleting => run'.deleting
    /\ run'.phase = run.phase \/ (~ run.deleting /\ run.finalizer /\ PhaseMoves)
    /\ rc' = rc \/ rc' = Idle
    /\ UNCHANGED <<pods, services, refs, cache>>

\* The run goes: no finalizer holds it, or no pod was listed.
Gone ==
    /\ run.uid # 0 /\ revision' = revision + 1 /\ creates' = creates
    /\ run' = NoRun
    /\ \/ ~ run.finalizer /\ ~ run.deleting
       \/ /\ rc.pc = "idle" /\ run.deleting /\ Seen.run = run
          /\ ListedPods(Seen.pods) = {}
    /\ UNCHANGED <<pods, services, refs, cache, rc>>

\* A run of the name is created.
Born ==
    /\ run.uid = 0 /\ creates < MaxCreates
    /\ revision' = revision + 1 /\ creates' = creates + 1
    /\ run' \in Runs /\ run'.uid = creates + 1 /\ run'.rv = revision + 1
    /\ run'.phase = "" /\ ~ run'.finalizer /\ ~ run'.deleting
    /\ UNCHANGED <<pods, services, refs, cache, rc>>

\* The fields of a run after one of them is set.
LEMMA SetRv ==
    ASSUME NEW br \in Runs, NEW n \in Nat, NEW w, w = [br EXCEPT !.rv = n]
    PROVE  /\ w \in Runs /\ w.rv = n /\ w.uid = br.uid /\ w.phase = br.phase
           /\ w.finalizer = br.finalizer /\ w.deleting = br.deleting
BY DEF Runs

LEMMA SetUid ==
    ASSUME NEW br \in Runs, NEW u \in 0 .. MaxCreates, NEW w, w = [br EXCEPT !.uid = u]
    PROVE  /\ w \in Runs /\ w.uid = u /\ w.phase = br.phase
           /\ w.finalizer = br.finalizer /\ w.deleting = br.deleting
BY DEF Runs

LEMMA SetPhaseField ==
    ASSUME NEW br \in Runs, NEW p \in Phases, NEW w, w = [br EXCEPT !.phase = p]
    PROVE  /\ w \in Runs /\ w.phase = p /\ w.uid = br.uid
           /\ w.finalizer = br.finalizer /\ w.deleting = br.deleting
BY DEF Runs

LEMMA SetFinalizer ==
    ASSUME NEW br \in Runs, NEW w, w = [br EXCEPT !.finalizer = TRUE]
    PROVE  /\ w \in Runs /\ w.finalizer /\ w.uid = br.uid /\ w.phase = br.phase
           /\ w.deleting = br.deleting
BY DEF Runs

LEMMA SetDeleting ==
    ASSUME NEW br \in Runs, NEW w, w = [br EXCEPT !.deleting = TRUE]
    PROVE  /\ w \in Runs /\ w.deleting /\ w.uid = br.uid /\ w.phase = br.phase
           /\ w.finalizer = br.finalizer
BY DEF Runs

\* A new run has a uid and a resourceVersion, and nothing else.
IsNewRun(w, u, n) ==
    /\ w = [NoRun EXCEPT !.uid = u, !.rv = n]
    /\ w.uid = u /\ w.rv = n /\ w.phase = "" /\ ~ w.finalizer /\ ~ w.deleting

LEMMA NewRun ==
    ASSUME NEW u \in 0 .. MaxCreates, NEW n \in Nat
    PROVE  \E w \in Runs : IsNewRun(w, u, n)
<1> DEFINE v == [NoRun EXCEPT !.uid = u]
<1> DEFINE w == [v EXCEPT !.rv = n]
<1>1. w = [NoRun EXCEPT !.uid = u, !.rv = n]
  BY Zenon
<1>2. /\ NoRun \in Runs /\ NoRun.phase = "" /\ ~ NoRun.finalizer /\ ~ NoRun.deleting
  BY BoundsAssumption DEF NoRun, Runs, Phases
<1>3. /\ v \in Runs /\ v.uid = u /\ v.phase = NoRun.phase
      /\ v.finalizer = NoRun.finalizer /\ v.deleting = NoRun.deleting
  BY <1>2, SetUid
<1> HIDE DEF v
<1>4. /\ w \in Runs /\ w.rv = n /\ w.uid = v.uid /\ w.phase = v.phase
      /\ w.finalizer = v.finalizer /\ w.deleting = v.deleting
  BY <1>3, SetRv
<1> HIDE DEF w
<1> QED
  BY <1>1, <1>2, <1>3, <1>4 DEF IsNewRun

\* What the client reads has the types of what it reads from.
LEMMA SeenFacts ==
    ASSUME TypeOK
    PROVE  /\ Seen.run \in Runs /\ Seen.pods \in [Roles -> PodStates] /\ Seen.refs \in RefStates
           /\ FreshCache => Seen.run = run /\ Seen.pods = pods /\ Seen.refs = refs
           /\ ~ FreshCache =>
                  Seen.run = cache.run /\ Seen.pods = cache.pods /\ Seen.refs = cache.refs
<1>1. /\ Current.run = run /\ Current.pods = pods /\ Current.refs = refs
  BY DEF Current
<1>2. /\ cache.run \in Runs /\ cache.pods \in [Roles -> PodStates] /\ cache.refs \in RefStates
      /\ run \in Runs /\ pods \in [Roles -> PodStates] /\ refs \in RefStates
  BY DEF TypeOK
<1>3. FreshCache \in BOOLEAN
  BY BoundsAssumption
<1>4. CASE FreshCache
  BY <1>1, <1>2, <1>4 DEF Seen
<1>5. CASE ~ FreshCache
  BY <1>1, <1>2, <1>5 DEF Seen
<1> QED
  BY <1>3, <1>4, <1>5

\* What is read of the run is a copy of it.
LEMMA SeenCopy ==
    ASSUME TypeOK, Copies
    PROVE  CopyOf(Seen.run) /\ (Seen.run.uid = run.uid /\ Seen.run.rv = run.rv => Seen.run = run)
<1>1. CASE FreshCache
  BY <1>1, SeenFacts DEF Copies, CopyOf
<1>2. CASE ~ FreshCache
  BY <1>2, SeenFacts DEF Copies, CopyOf
<1> QED
  BY <1>1, <1>2

\* Update and Status().Update write what was read with one field changed.
LEMMA Written ==
    ASSUME TypeOK, NEW br \in Runs, br.uid = run.uid, WriteRun(br)
    PROVE  /\ revision' = revision + 1
           /\ run' \in Runs /\ run'.uid = run.uid /\ run'.rv = revision + 1
           /\ run'.phase = br.phase /\ run'.finalizer = br.finalizer
           /\ run'.deleting = br.deleting
<1>1. revision + 1 \in Nat
  BY DEF TypeOK
<1> QED
  BY <1>1, SetRv DEF WriteRun

\* A status update that is accepted.
LEMMA PhaseSet ==
    ASSUME TypeOK, NEW br \in Runs, br = run, NEW p \in Phases,
           WriteRun([br EXCEPT !.phase = p])
    PROVE  /\ revision' = revision + 1
           /\ run' \in Runs /\ run'.uid = run.uid /\ run'.rv = revision + 1
           /\ run'.phase = p /\ run'.finalizer = run.finalizer
           /\ run'.deleting = run.deleting
<1> DEFINE w == [br EXCEPT !.phase = p]
<1>1. /\ w \in Runs /\ w.phase = p /\ w.uid = br.uid
      /\ w.finalizer = br.finalizer /\ w.deleting = br.deleting
  BY SetPhaseField
<1>2. WriteRun(w)
  OBVIOUS
<1> HIDE DEF w
<1> QED
  BY <1>1, <1>2, Written

\* A transition of Reconcile's switch, decided on what was read.
LEMMA Transition ==
    ASSUME TypeOK, Copies, NEW p \in Phases, NEW q \in Phases, ReadsPhase(p),
           SetPhase(Seen.run, q)
    PROVE  /\ run.uid # 0 /\ revision' = revision + 1
           /\ run' \in Runs /\ run'.uid = run.uid /\ run'.rv = revision + 1
           /\ run.phase = p /\ run'.phase = q
           /\ run.finalizer /\ run'.finalizer /\ ~ run.deleting /\ ~ run'.deleting
<1>1. Seen.run = run /\ Seen.run \in Runs
  BY SeenCopy, SeenFacts DEF SetPhase, Unchanged
<1>2. run.uid # 0 /\ run.phase = p /\ run.finalizer /\ ~ run.deleting
  BY <1>1 DEF ReadsPhase
<1>3. /\ revision' = revision + 1
      /\ run' \in Runs /\ run'.uid = run.uid /\ run'.rv = revision + 1
      /\ run'.phase = q /\ run'.finalizer = run.finalizer
      /\ run'.deleting = run.deleting
  BY <1>1, PhaseSet DEF SetPhase
<1> QED
  BY <1>2, <1>3

\* Every step leaves the run alone, writes its last version, drops or creates
\* it.
LEMMA RunStep ==
    ASSUME TypeOK, Copies, [Next]_vars
    PROVE  UNCHANGED <<run, revision, creates>> \/ Updated \/ Gone \/ Born
<1>1. CASE SingleWrite
  <2>1. CASE AddFinalizer
    <3>1. Seen.run = run /\ Seen.run \in Runs /\ run.uid # 0
      BY <2>1, SeenCopy, SeenFacts DEF AddFinalizer, Unchanged
    <3> DEFINE w == [Seen.run EXCEPT !.finalizer = TRUE]
    <3>2. w \in Runs /\ w.finalizer /\ w.uid = run.uid /\ w.phase = run.phase
          /\ w.deleting = run.deleting
      BY <3>1, SetFinalizer
    <3>3. WriteRun(w) /\ UNCHANGED <<creates, pods, services, refs, cache, rc>>
      BY <2>1 DEF AddFinalizer
    <3> HIDE DEF w
    <3>4. /\ revision' = revision + 1
          /\ run' \in Runs /\ run'.uid = run.uid /\ run'.rv = revision + 1
          /\ run'.phase = w.phase /\ run'.finalizer = w.finalizer /\ run'.deleting = w.deleting
      BY <3>2, <3>3, Written
    <3> QED
      BY <3>1, <3>2, <3>3, <3>4 DEF Updated
  <2>2. ASSUME NEW p \in Phases, NEW q \in Phases, ReadsPhase(p), SetPhase(Seen.run, q),
               run.phase = p /\ run'.phase = q => PhaseMoves,
               UNCHANGED <<creates, pods, services, refs, cache, rc>>
        PROVE  Updated
    BY <2>2, Transition DEF Updated
  <2>3. CASE ToPending
    BY <2>2, <2>3 DEF ToPending, Phases, PhaseMoves
  <2>4. CASE ToAllocating
    BY <2>2, <2>4 DEF ToAllocating, Phases, PhaseMoves
  <2>5. CASE ToInvalid
    BY <2>2, <2>5 DEF ToInvalid, Phases, PhaseMoves
  <2>6. CASE ObservePriming
    BY <2>2, <2>6 DEF ObservePriming, Phases, PhaseMoves
  <2>7. CASE ObserveRunning
    BY <2>2, <2>7 DEF ObserveRunning, Phases, PhaseMoves
  <2>8. CASE ToComplete
    BY <2>2, <2>8 DEF ToComplete, Phases, PhaseMoves
  <2> QED
    BY <1>1, <2>1, <2>3, <2>4, <2>5, <2>6, <2>7, <2>8 DEF SingleWrite
<1>2. CASE FinishPriming
  <2>1. /\ rc.pc = "priming" /\ rc.done = Len(PodOrder) + Len(ServiceOrder)
        /\ rc' = Idle /\ UNCHANGED <<creates, pods, services, refs, cache>>
    BY <1>2 DEF FinishPriming
  <2>2. CASE ~ Unchanged(rc.br)
    BY <1>2, <2>1, <2>2 DEF FinishPriming
  <2>3. CASE Unchanged(rc.br)
    <3>1. rc.br = run /\ rc.br \in Runs /\ "PRIMING" \in Phases
      BY <2>3 DEF Copies, CopyOf, Unchanged, TypeOK, Phases
    <3>2. run.uid # 0 /\ ~ run.deleting /\ run.finalizer /\ run.phase = "ALLOCATING"
      BY <2>1, <3>1 DEF Copies
    <3>3. WriteRun([rc.br EXCEPT !.phase = "PRIMING"])
      BY <1>2, <2>3 DEF FinishPriming, SetPhase
    <3>4. /\ revision' = revision + 1
          /\ run' \in Runs /\ run'.uid = run.uid /\ run'.rv = revision + 1
          /\ run'.phase = "PRIMING" /\ run'.finalizer = run.finalizer
          /\ run'.deleting = run.deleting
      BY <3>1, <3>3, PhaseSet
    <3> QED
      BY <2>1, <3>1, <3>2, <3>4 DEF Updated, PhaseMoves
  <2> QED
    BY <2>2, <2>3
<1>3. CASE RemoveFinalizer
  <2>1. Seen.run = run
    BY <1>3, SeenCopy DEF RemoveFinalizer, Unchanged
  <2> QED
    BY <1>3, <2>1 DEF RemoveFinalizer, Gone
<1>4. CASE CreateRun
  <2>1. /\ creates + 1 \in 0 .. MaxCreates /\ revision + 1 \in Nat /\ run.uid = 0
        /\ creates < MaxCreates
    BY <1>4, BoundsAssumption DEF CreateRun, TypeOK
  <2>2. PICK u \in 0 .. MaxCreates, n \in Nat : u = creates + 1 /\ n = revision + 1
    BY <2>1
  <2>3. PICK w \in Runs : IsNewRun(w, u, n)
    BY NewRun
  <2>4. /\ run' = w /\ revision' = revision + 1 /\ creates' = creates + 1
        /\ UNCHANGED <<pods, services, refs, cache, rc>>
    BY <1>4, <2>2, <2>3 DEF CreateRun, IsNewRun
  <2> QED
    BY <2>1, <2>2, <2>3, <2>4 DEF Born, IsNewRun
<1>5. CASE DeleteRun
  <2>1. /\ run.uid # 0 /\ UNCHANGED <<creates, pods, services, refs, cache, rc>>
        /\ run \in Runs
    BY <1>5 DEF DeleteRun, TypeOK
  <2>2. CASE run.finalizer
    <3> DEFINE w == [run EXCEPT !.deleting = TRUE]
    <3>1. w \in Runs /\ w.deleting /\ w.uid = run.uid /\ w.phase = run.phase
          /\ w.finalizer = run.finalizer
      BY <2>1, SetDeleting
    <3>2. WriteRun(w)
      BY <1>5, <2>2 DEF DeleteRun
    <3> HIDE DEF w
    <3>3. /\ revision' = revision + 1
          /\ run' \in Runs /\ run'.uid = run.uid /\ run'.rv = revision + 1
          /\ run'.phase = w.phase /\ run'.finalizer = w.finalizer /\ run'.deleting = w.deleting
      BY <3>1, <3>2, Written
    <3> QED
      BY <2>1, <3>1, <3>3 DEF Updated
  <2>3. CASE ~ run.finalizer
    BY <1>5, <2>1, <2>3 DEF DeleteRun, Gone
  <2> QED
    BY <2>2, <2>3
<1> QED
  BY <1>1, <1>2, <1>3, <1>4, <1>5, RunWriters

-----------------------------------------------------------------------------
(***************************************************************************)
(* The life of a pod and of a service, and the reconcile in progress.      *)
(***************************************************************************)

Statuses == {"absent", "Pending", "Running", "Succeeded", "Failed"}

\* A step creates the pod of r, marks it for removal, moves its container on,
\* removes it, or leaves it alone.
PodMoves(r) ==
    \/ pods'[r] = pods[r]
    \/ /\ rc.pc = "priming" /\ pods[r].status = "absent"
       /\ pods'[r].status = "Pending" /\ ~ pods'[r].terminating /\ pods'[r].owner = rc.br.uid
    \/ /\ pods[r].status # "absent" /\ pods'[r].status = pods[r].status
       /\ pods'[r].terminating /\ pods'[r].owner = pods[r].owner
       /\ rc.pc = "deleting" \/ pods[r].owner # run.uid
    \/ /\ <<pods[r].status, pods'[r].status>> \in
              {<<"Pending", "Running">>, <<"Running", "Succeeded">>, <<"Running", "Failed">>}
       /\ pods'[r].terminating = pods[r].terminating /\ pods'[r].owner = pods[r].owner
    \/ /\ pods[r].terminating
       /\ pods'[r].status = "absent" /\ ~ pods'[r].terminating

\* The same for the service of r.
ServiceMoves(r) ==
    \/ services'[r] = services[r]
    \/ services[r] = 0 /\ rc.pc = "priming" /\ services'[r] = rc.br.uid
    \/ services[r] # run.uid /\ services'[r] = 0

\* A reconcile begins on what it reads, goes on with what it has read, or ends.
RcMoves ==
    \/ rc' = rc
    \/ rc' = Idle
    \/ /\ rc.pc = "idle" /\ rc'.pc = "priming" /\ rc'.br = Seen.run /\ rc'.done = 0
       /\ ReadsPhase("ALLOCATING")
       /\ UNCHANGED <<apiVars, cache>>
    \/ /\ rc.pc = "priming" /\ rc'.pc = "priming" /\ rc'.br = rc.br /\ rc'.done = rc.done + 1
       /\ \/ rc.done < Len(PodOrder) /\ pods'[PodOrder[rc.done + 1]].status # "absent"
          \/ /\ rc.done \in Len(PodOrder) .. Len(PodOrder) + Len(ServiceOrder) - 1
             /\ services'[ServiceOrder[rc.done + 1 - Len(PodOrder)]] # 0
             /\ pods' = pods
       /\ UNCHANGED <<run, revision, creates, refs, cache>>
    \/ /\ rc.pc = "idle" /\ rc'.pc = "deleting" /\ rc'.br = Seen.run
       /\ Seen.run.uid # 0 /\ Seen.run.deleting
       /\ UNCHANGED <<apiVars, cache>>
    \/ /\ rc.pc = "deleting" /\ rc'.pc = "deleting" /\ rc'.br = rc.br
       /\ UNCHANGED <<run, revision, creates, refs, cache>>

LEMMA SetStatus ==
    ASSUME NEW pod \in PodStates, NEW s \in Statuses, NEW w, w = [pod EXCEPT !.status = s]
    PROVE  w \in PodStates /\ w.status = s /\ w.terminating = pod.terminating /\ w.owner = pod.owner
BY DEF PodStates, Statuses

LEMMA SetTerminating ==
    ASSUME NEW pod \in PodStates, NEW w, w = [pod EXCEPT !.terminating = TRUE]
    PROVE  w \in PodStates /\ w.status = pod.status /\ w.terminating /\ w.owner = pod.owner
BY DEF PodStates

\* One pod is written.
LEMMA OnePod ==
    ASSUME pods \in [Roles -> PodStates], NEW r \in Roles, NEW w \in PodStates,
           pods' = [pods EXCEPT ![r] = w]
    PROVE  /\ pods' \in [Roles -> PodStates] /\ pods'[r] = w
           /\ \A q \in Roles : q # r => pods'[q] = pods[q]
OBVIOUS

\* A container moves on.
LEMMA ContainerMoves ==
    ASSUME pods \in [Roles -> PodStates], NEW r \in Roles, NEW s \in Statuses, NEW t \in Statuses,
           PodStatus(r, s, t),
           <<s, t>> \in
               {<<"Pending", "Running">>, <<"Running", "Succeeded">>, <<"Running", "Failed">>}
    PROVE  /\ pods' \in [Roles -> PodStates] /\ \A q \in Roles : PodMoves(q)
           /\ UNCHANGED <<run, revision, creates, services, refs, cache, rc>>
<1> DEFINE w == [pods[r] EXCEPT !.status = t]
<1>1. pods[r] \in PodStates /\ pods[r].status = s
  BY DEF PodStatus
<1>2. w \in PodStates /\ w.status = t /\ w.terminating = pods[r].terminating
      /\ w.owner = pods[r].owner
  BY <1>1, SetStatus
<1>3. pods' = [pods EXCEPT ![r] = w]
  BY DEF PodStatus
<1> HIDE DEF w
<1>4. /\ pods' \in [Roles -> PodStates] /\ pods'[r] = w
      /\ \A q \in Roles : q # r => pods'[q] = pods[q]
  BY <1>2, <1>3, OnePod
<1>5. PodMoves(r)
  BY <1>1, <1>2, <1>4 DEF PodMoves
<1>6. \A q \in Roles : q # r => PodMoves(q)
  BY <1>4 DEF PodMoves
<1> QED
  BY <1>4, <1>5, <1>6 DEF PodStatus

\* Every step moves every pod along its life; a step that writes a pod writes
\* nothing else of the API server.
LEMMA PodStep ==
    ASSUME TypeOK, [Next]_vars
    PROVE  /\ pods' \in [Roles -> PodStates] /\ \A r \in Roles : PodMoves(r)
           /\ pods' = pods \/ UNCHANGED <<run, revision, creates, services, refs, cache>>
<1>0. pods \in [Roles -> PodStates]
  BY DEF TypeOK
<1> DEFINE Same == UNCHANGED <<run, revision, creates, services, refs, cache>>
<1> DEFINE Goal == pods' \in [Roles -> PodStates] /\ (\A r \in Roles : PodMoves(r)) /\ Same
<1>1. CASE pods' = pods
  BY <1>0, <1>1 DEF PodMoves
<1>2. CASE EnsurePod
  <2> DEFINE role == PodOrder[rc.done + 1]
  <2> DEFINE w == [status |-> "Pending", terminating |-> FALSE, owner |-> rc.br.uid]
  <2>1. /\ rc.pc = "priming" /\ rc.done < Len(PodOrder) /\ Same
        /\ \/ pods' = pods
           \/ pods[role].status = "absent" /\ pods' = [pods EXCEPT ![role] = w]
    BY <1>2 DEF EnsurePod
  <2>2. rc.done + 1 \in 1 .. NumServers + 1
    BY <2>1, OrderFacts DEF TypeOK
  <2>3. role \in Roles
    BY <2>2, RoleFacts
  <2>4. w \in PodStates /\ w.status = "Pending" /\ ~ w.terminating /\ w.owner = rc.br.uid
    BY DEF TypeOK, Runs, PodStates
  <2> HIDE DEF role, w
  <2>5. CASE pods' = pods
    BY <1>1, <2>5
  <2>6. CASE pods[role].status = "absent" /\ pods' = [pods EXCEPT ![role] = w]
    <3>1. /\ pods' \in [Roles -> PodStates] /\ pods'[role] = w
          /\ \A q \in Roles : q # role => pods'[q] = pods[q]
      BY <1>0, <2>3, <2>4, <2>6, OnePod
    <3>2. PodMoves(role)
      BY <2>1, <2>4, <2>6, <3>1 DEF PodMoves
    <3>3. \A q \in Roles : q # role => PodMoves(q)
      BY <3>1 DEF PodMoves
    <3> QED
      BY <2>1, <3>1, <3>2, <3>3
  <2> QED
    BY <2>1, <2>5, <2>6
<1>3. CASE CoordinatorExits
  BY <1>0, <1>3, RoleFacts, ContainerMoves DEF CoordinatorExits, Statuses
<1>4. ASSUME NEW r \in Roles, StartPod(r) \/ FailPod(r)
      PROVE  Goal
  BY <1>0, <1>4, ContainerMoves DEF StartPod, FailPod, Statuses
<1>5. ASSUME NEW r \in Roles, DeletePod(r) \/ CollectPod(r), pods' # pods
      PROVE  Goal
  <2> DEFINE w == [pods[r] EXCEPT !.terminating = TRUE]
  <2>1. /\ pods[r].status # "absent" /\ Same
        /\ rc.pc = "deleting" \/ pods[r].owner # run.uid
        /\ pods' = [pods EXCEPT ![r] = w]
    BY <1>5 DEF DeletePod, CollectPod
  <2>2. pods[r] \in PodStates
    BY <1>0
  <2>3. w \in PodStates /\ w.status = pods[r].status /\ w.terminating /\ w.owner = pods[r].owner
    BY <2>2, SetTerminating
  <2> HIDE DEF w
  <2>4. /\ pods' \in [Roles -> PodStates] /\ pods'[r] = w
        /\ \A q \in Roles : q # r => pods'[q] = pods[q]
    BY <1>0, <2>1, <2>3, OnePod
  <2>5. PodMoves(r)
    BY <2>1, <2>3, <2>4 DEF PodMoves
  <2>6. \A q \in Roles : q # r => PodMoves(q)
    BY <2>4 DEF PodMoves
  <2> QED
    BY <2>1, <2>4, <2>5, <2>6
<1>6. ASSUME NEW r \in Roles, RemovePod(r)
      PROVE  Goal
  <2>1. pods[r].terminating /\ pods' = [pods EXCEPT ![r] = NoPod] /\ Same
    BY <1>6 DEF RemovePod
  <2>2. NoPod \in PodStates /\ NoPod.status = "absent" /\ ~ NoPod.terminating
    BY BoundsAssumption DEF NoPod, PodStates
  <2>3. /\ pods' \in [Roles -> PodStates] /\ pods'[r] = NoPod
        /\ \A q \in Roles : q # r => pods'[q] = pods[q]
    BY <1>0, <2>1, <2>2, OnePod
  <2>4. PodMoves(r)
    BY <2>1, <2>2, <2>3 DEF PodMoves
  <2>5. \A q \in Roles : q # r => PodMoves(q)
    BY <2>3 DEF PodMoves
  <2> QED
    BY <2>1, <2>3, <2>4, <2>5
<1> QED
  BY <1>1, <1>2, <1>3, <1>4, <1>5, <1>6, PodWriters

\* Every step moves every service along its life.
LEMMA ServiceStep ==
    ASSUME TypeOK, Copies, [Next]_vars
    PROVE  /\ services' \in [ServiceRoles -> 0 .. MaxCreates]
           /\ \A r \in ServiceRoles : ServiceMoves(r)
           /\ services' = services \/ UNCHANGED <<run, revision, creates, pods, refs, cache>>
<1>0. services \in [ServiceRoles -> 0 .. MaxCreates]
  BY DEF TypeOK
<1>1. CASE services' = services
  BY <1>0, <1>1 DEF ServiceMoves
<1>2. CASE EnsureService /\ services' # services
  <2> DEFINE role == ServiceOrder[rc.done + 1 - Len(PodOrder)]
  <2>1. /\ rc.pc = "priming"
        /\ rc.done \in Len(PodOrder) .. Len(PodOrder) + Len(ServiceOrder) - 1
        /\ services[role] = 0 /\ services' = [services EXCEPT ![role] = rc.br.uid]
        /\ UNCHANGED <<run, revision, creates, pods, refs, cache>>
    BY <1>2 DEF EnsureService
  <2>2. rc.done + 1 - Len(PodOrder) \in 1 .. NumServers
    BY <2>1, OrderFacts DEF TypeOK
  <2>3. role \in ServiceRoles
    BY <2>2, RoleFacts
  <2>4. rc.br.uid \in 0 .. MaxCreates
    BY DEF TypeOK, Runs
  <2> HIDE DEF role
  <2>5. /\ services' \in [ServiceRoles -> 0 .. MaxCreates] /\ services'[role] = rc.br.uid
        /\ \A q \in ServiceRoles : q # role => services'[q] = services[q]
    BY <1>0, <2>1, <2>3, <2>4
  <2> QED
    BY <2>1, <2>5 DEF ServiceMoves
<1>3. ASSUME NEW r \in ServiceRoles, CollectService(r)
      PROVE  /\ services' \in [ServiceRoles -> 0 .. MaxCreates]
             /\ \A q \in ServiceRoles : ServiceMoves(q)
             /\ UNCHANGED <<run, revision, creates, pods, refs, cache>>
  <2>1. /\ services[r] # run.uid /\ services' = [services EXCEPT ![r] = 0]
        /\ UNCHANGED <<run, revision, creates, pods, refs, cache>>
    BY <1>3 DEF CollectService
  <2>2. 0 \in 0 .. MaxCreates
    BY BoundsAssumption
  <2>3. /\ services' \in [ServiceRoles -> 0 .. MaxCreates] /\ services'[r] = 0
        /\ \A q \in ServiceRoles : q # r => services'[q] = services[q]
    BY <1>0, <2>1, <2>2
  <2> QED
    BY <2>1, <2>3 DEF ServiceMoves
<1> QED
  BY <1>1, <1>2, <1>3, ServiceWriters

LEMMA OneMore ==
    ASSUME NEW r \in [pc : {"idle", "priming", "deleting"}, br : Runs,
                      done : 0 .. Len(PodOrder) + Len(ServiceOrder), todo : SUBSET Roles],
           r.done < Len(PodOrder) + Len(ServiceOrder)
    PROVE  LET w == [r EXCEPT !.done = @ + 1]
           IN  /\ w \in [pc : {"idle", "priming", "deleting"}, br : Runs,
                         done : 0 .. Len(PodOrder) + Len(ServiceOrder), todo : SUBSET Roles]
               /\ w.pc = r.pc /\ w.br = r.br /\ w.done = r.done + 1
<1>1. PICK m \in Nat : m = Len(PodOrder) + Len(ServiceOrder)
  BY OrderFacts
<1>2. PICK d \in 0 .. m : d = r.done + 1
  BY <1>1
<1>3. [r EXCEPT !.done = @ + 1] = [r EXCEPT !.done = d]
  BY <1>2
<1> QED
  BY <1>1, <1>2, <1>3

LEMMA OneLess ==
    ASSUME NEW r \in [pc : {"idle", "priming", "deleting"}, br : Runs,
                      done : 0 .. Len(PodOrder) + Len(ServiceOrder), todo : SUBSET Roles],
           NEW q
    PROVE  LET w == [r EXCEPT !.todo = @ \ {q}]
           IN  /\ w \in [pc : {"idle", "priming", "deleting"}, br : Runs,
                         done : 0 .. Len(PodOrder) + Len(ServiceOrder), todo : SUBSET Roles]
               /\ w.pc = r.pc /\ w.br = r.br
OBVIOUS

\* The reconcile in progress after a step.
LEMMA RcStep ==
    ASSUME TypeOK, Copies, [Next]_vars
    PROVE  /\ rc' \in [pc : {"idle", "priming", "deleting"}, br : Runs,
                       done : 0 .. Len(PodOrder) + Len(ServiceOrder), todo : SUBSET Roles]
           /\ RcMoves
<1> DEFINE T == [pc : {"idle", "priming", "deleting"}, br : Runs,
                 done : 0 .. Len(PodOrder) + Len(ServiceOrder), todo : SUBSET Roles]
<1>0. /\ rc \in T /\ Seen.run \in Runs /\ Seen.pods \in [Roles -> PodStates]
      /\ Len(PodOrder) \in Nat /\ Len(ServiceOrder) \in Nat
  BY SeenFacts, OrderFacts DEF TypeOK
<1>1. CASE rc' = rc
  BY <1>0, <1>1 DEF RcMoves
<1>2. CASE rc' = Idle
  <2>1. NoRun \in Runs
    BY BoundsAssumption DEF NoRun, Runs, Phases
  <2>2. 0 \in 0 .. Len(PodOrder) + Len(ServiceOrder)
    BY <1>0
  <2>3. Idle \in T
    BY <2>1, <2>2 DEF Idle
  <2> QED
    BY <1>2, <2>3 DEF RcMoves
<1>3. CASE BeginPriming
  <2>1. /\ ReadsPhase("ALLOCATING") /\ UNCHANGED <<apiVars, cache>>
        /\ rc' = [pc |-> "priming", br |-> Seen.run, done |-> 0, todo |-> {}]
    BY <1>3 DEF BeginPriming
  <2>2. rc.pc = "idle"
    BY <2>1 DEF ReadsPhase
  <2>3. rc' \in T /\ rc'.pc = "priming" /\ rc'.br = Seen.run /\ rc'.done = 0
    BY <1>0, <2>1
  <2> QED
    BY <2>1, <2>2, <2>3 DEF RcMoves
<1>4. CASE EnsurePod
  <2> DEFINE role == PodOrder[rc.done + 1]
  <2> DEFINE admitted == Allowed({"request", "pod"}, PodTemplate(role, Namespace))
  <2> DEFINE pod == [status |-> "Pending", terminating |-> FALSE, owner |-> rc.br.uid]
  <2>1. /\ rc.pc = "priming" /\ rc.done < Len(PodOrder)
        /\ pods' = IF admitted /\ pods[role].status = "absent"
                   THEN [pods EXCEPT ![role] = pod] ELSE pods
        /\ rc' = IF admitted THEN [rc EXCEPT !.done = @ + 1] ELSE Idle
        /\ UNCHANGED <<run, revision, creates, services, refs, cache>>
    BY <1>4 DEF EnsurePod
  <2>2. rc.done < Len(PodOrder) + Len(ServiceOrder) /\ rc.done + 1 \in 1 .. NumServers + 1
    BY <1>0, <2>1, OrderFacts
  <2>3. role \in Roles
    BY <2>2, RoleFacts
  <2>4. pods \in [Roles -> PodStates] /\ pod.status # "absent"
    BY DEF TypeOK
  <2> HIDE DEF admitted, pod
  <2>5. CASE ~ admitted
    BY <1>2, <2>1, <2>5
  <2>6. CASE admitted
    <3>1. rc' = [rc EXCEPT !.done = @ + 1]
      BY <2>1, <2>6
    <3>2. rc' \in T /\ rc'.pc = rc.pc /\ rc'.br = rc.br /\ rc'.done = rc.done + 1
      BY <1>0, <2>2, <3>1, OneMore
    <3> HIDE DEF role
    <3>3. pods'[role].status # "absent"
      BY <2>1, <2>3, <2>4, <2>6
    <3> USE DEF role
    <3> QED
      BY <2>1, <3>2, <3>3 DEF RcMoves
  <2> QED
    BY <2>5, <2>6
<1>5. CASE EnsureService
  <2> DEFINE role == ServiceOrder[rc.done + 1 - Len(PodOrder)]
  <2>1. /\ rc.pc = "priming"
        /\ rc.done \in Len(PodOrder) .. Len(PodOrder) + Len(ServiceOrder) - 1
        /\ services' = IF services[role] = 0
                       THEN [services EXCEPT ![role] = rc.br.uid] ELSE services
        /\ rc' = [rc EXCEPT !.done = @ + 1]
        /\ UNCHANGED <<run, revision, creates, pods, refs, cache>>
    BY <1>5 DEF EnsureService
  <2>2. /\ rc.done < Len(PodOrder) + Len(ServiceOrder)
        /\ rc.done + 1 - Len(PodOrder) \in 1 .. NumServers
    BY <1>0, <2>1, OrderFacts
  <2>3. role \in ServiceRoles
    BY <2>2, RoleFacts
  <2>4. services \in [ServiceRoles -> 0 .. MaxCreates] /\ rc.br.uid # 0
    BY <2>1 DEF TypeOK, Copies
  <2>5. rc' \in T /\ rc'.pc = rc.pc /\ rc'.br = rc.br /\ rc'.done = rc.done + 1
    BY <1>0, <2>1, <2>2, OneMore
  <2> HIDE DEF role
  <2>6. services'[role] # 0
    BY <2>1, <2>3, <2>4
  <2> USE DEF role
  <2> QED
    BY <2>1, <2>5, <2>6 DEF RcMoves
<1>6. CASE BeginDelete
  <2> DEFINE todo == {r \in ListedPods(Seen.pods) : ~ Seen.pods[r].terminating}
  <2>1. /\ rc.pc = "idle" /\ Seen.run.uid # 0 /\ Seen.run.deleting
        /\ rc' = [pc |-> "deleting", br |-> Seen.run, done |-> 0, todo |-> todo]
        /\ UNCHANGED <<apiVars, cache>>
    BY <1>6 DEF BeginDelete
  <2>2. todo \in SUBSET Roles
    BY DEF ListedPods
  <2> HIDE DEF todo
  <2>3. rc' \in T /\ rc'.pc = "deleting" /\ rc'.br = Seen.run
    BY <1>0, <2>1, <2>2
  <2> QED
    BY <2>1, <2>3 DEF RcMoves
<1>7. ASSUME NEW r \in Roles, DeletePod(r)
      PROVE  rc' \in T /\ RcMoves
  <2>1. /\ rc.pc = "deleting" /\ rc' = [rc EXCEPT !.todo = @ \ {r}]
        /\ UNCHANGED <<run, revision, creates, services, refs, cache>>
    BY <1>7 DEF DeletePod
  <2>2. rc' \in T /\ rc'.pc = rc.pc /\ rc'.br = rc.br
    BY <1>0, <2>1, OneLess
  <2> QED
    BY <2>1, <2>2 DEF RcMoves
<1> QED
  BY <1>1, <1>2, <1>3, <1>4, <1>5, <1>6, <1>7, RcWriters

-----------------------------------------------------------------------------
(***************************************************************************)
(* The references, the caches and the bounds.                              *)
(***************************************************************************)

\* What it is for each reference to be in order.
LEMMA InOrderFacts ==
    ASSUME NEW rs \in RefStates
    PROVE  /\ InOrder(rs) \subseteq Kinds
           /\ "sub" \in InOrder(rs) <=> rs.sub = "READY"
           /\ "scn" \in InOrder(rs) <=> rs.scn = "hashed"
           /\ "swarm" \in InOrder(rs) <=> rs.swarm = "present"
  BY DEF RefStates, SubmissionStates, ScenarioStates, SwarmStates, InOrder, Kinds

LEMMA SetRef ==
    ASSUME NEW rs \in RefStates
    PROVE  /\ \A s \in SubmissionStates :
                  LET w == [rs EXCEPT !["sub"] = s]
                  IN  w \in RefStates /\ w.sub = s /\ w.scn = rs.scn /\ w.swarm = rs.swarm
           /\ \A s \in ScenarioStates :
                  LET w == [rs EXCEPT !["scn"] = s]
                  IN  w \in RefStates /\ w.sub = rs.sub /\ w.scn = s /\ w.swarm = rs.swarm
           /\ \A s \in SwarmStates :
                  LET w == [rs EXCEPT !["swarm"] = s]
                  IN  w \in RefStates /\ w.sub = rs.sub /\ w.scn = rs.scn /\ w.swarm = s
BY DEF RefStates

\* A reference that is gone is not in order, and the others are what they were.
LEMMA RemovedRef ==
    ASSUME NEW rs \in RefStates, NEW kind \in Kinds
    PROVE  LET w == [rs EXCEPT ![kind] = "absent"]
           IN  w \in RefStates /\ InOrder(w) \subseteq InOrder(rs)
<1> DEFINE w == [rs EXCEPT ![kind] = "absent"]
<1>1. "absent" \in SubmissionStates /\ "absent" \in ScenarioStates /\ "absent" \in SwarmStates
  BY DEF SubmissionStates, ScenarioStates, SwarmStates
<1>2. CASE kind = "sub"
  <2>1. w \in RefStates /\ w.sub = "absent" /\ w.scn = rs.scn /\ w.swarm = rs.swarm
    BY <1>1, <1>2, SetRef
  <2> QED
    BY <2>1, InOrderFacts DEF Kinds
<1>3. CASE kind = "scn"
  <2>1. w \in RefStates /\ w.sub = rs.sub /\ w.scn = "absent" /\ w.swarm = rs.swarm
    BY <1>1, <1>3, SetRef
  <2> QED
    BY <2>1, InOrderFacts DEF Kinds
<1>4. CASE kind = "swarm"
  <2>1. w \in RefStates /\ w.sub = rs.sub /\ w.scn = rs.scn /\ w.swarm = "absent"
    BY <1>1, <1>4, SetRef
  <2> QED
    BY <2>1, InOrderFacts DEF Kinds
<1> QED
  BY <1>2, <1>3, <1>4 DEF Kinds

\* What has been in order stays noted, though the references come and go.
LEMMA RefStep ==
    ASSUME TypeOK, [Next]_vars
    PROVE  /\ refs' \in RefStates /\ settled' \subseteq Kinds /\ settled \subseteq settled'
           /\ InOrder(refs) \subseteq settled => InOrder(refs)' \subseteq settled'
           /\ \/ UNCHANGED <<refs, settled>>
              \/ UNCHANGED <<run, revision, creates, pods, services, cache, rc>>
<1> DEFINE Same == UNCHANGED <<run, revision, creates, pods, services, cache, rc>>
<1> DEFINE Goal == /\ refs' \in RefStates /\ settled' \subseteq Kinds /\ settled \subseteq settled'
                   /\ InOrder(refs) \subseteq settled => InOrder(refs)' \subseteq settled'
<1>0. refs \in RefStates /\ settled \subseteq Kinds
  BY DEF TypeOK
<1>1. CASE UNCHANGED <<refs, settled>>
  <2>1. InOrder(refs)' = InOrder(refs)
    BY <1>1 DEF InOrder
  <2> QED
    BY <1>0, <1>1, <2>1
<1>2. ASSUME NEW kind \in Kinds, NEW s, NEW t, ChangeRef(kind, s, t),
             [refs EXCEPT ![kind] = t] \in RefStates
      PROVE  Goal /\ Same
  <2>1. /\ refs' \in RefStates /\ settled' = settled \cup InOrder(refs')
        /\ Same
    BY <1>2 DEF ChangeRef
  <2>2. InOrder(refs)' = InOrder(refs')
    BY DEF InOrder
  <2> QED
    BY <1>0, <2>1, <2>2, InOrderFacts
<1>3. ASSUME NEW s, NEW t,
             \/ t \in SubmissionStates /\ ChangeRef("sub", s, t)
             \/ t \in ScenarioStates /\ ChangeRef("scn", s, t)
             \/ t \in SwarmStates /\ ChangeRef("swarm", s, t)
      PROVE  Goal /\ Same
  BY <1>0, <1>2, <1>3, SetRef DEF Kinds
<1>4. CASE CreateRef
  BY <1>3, <1>4 DEF CreateRef, SubmissionStates, ScenarioStates, SwarmStates
<1>5. CASE SubmissionToPending \/ BuildSettles
  BY <1>3, <1>5 DEF SubmissionToPending, BuildSettles, SubmissionStates
<1>6. CASE HashScenario
  BY <1>3, <1>6 DEF HashScenario, ScenarioStates
<1>7. ASSUME NEW kind \in Kinds, DeleteRef(kind)
      PROVE  Goal /\ Same
  <2>1. refs' = [refs EXCEPT ![kind] = "absent"] /\ settled' = settled /\ Same
    BY <1>7 DEF DeleteRef
  <2>2. refs' \in RefStates /\ InOrder(refs') \subseteq InOrder(refs)
    BY <1>0, <2>1, RemovedRef
  <2>3. InOrder(refs)' = InOrder(refs')
    BY DEF InOrder
  <2> QED
    BY <1>0, <2>1, <2>2, <2>3
<1> QED
  BY <1>1, <1>4, <1>5, <1>6, <1>7, RefWriters

\* Watch events and restarts replace parts of the caches by what is there now.
CacheMoves ==
    /\ cache'.run = cache.run \/ cache'.run = run
    /\ cache'.pods = cache.pods \/ cache'.pods = pods
    /\ InOrder(cache'.refs) \subseteq InOrder(cache.refs) \cup InOrder(refs)
    /\ cache' = cache \/ (UNCHANGED apiVars /\ (rc' = rc \/ rc' = Idle))

LEMMA SyncedRefs ==
    ASSUME NEW old \in RefStates, NEW new \in RefStates, NEW kind \in Kinds,
           NEW w, w = [old EXCEPT ![kind] = new[kind]]
    PROVE  w \in RefStates /\ InOrder(w) \subseteq InOrder(old) \cup InOrder(new)
<1>1. CASE kind = "sub"
  <2>1. PICK s \in SubmissionStates : s = new.sub
    BY DEF RefStates
  <2>2. w = [old EXCEPT !["sub"] = s]
    BY <1>1, <2>1
  <2>3. w \in RefStates /\ w.sub = new.sub /\ w.scn = old.scn /\ w.swarm = old.swarm
    BY <2>1, <2>2 DEF RefStates
  <2> QED
    BY <2>3, InOrderFacts DEF Kinds
<1>2. CASE kind = "scn"
  <2>1. PICK s \in ScenarioStates : s = new.scn
    BY DEF RefStates
  <2>2. w = [old EXCEPT !["scn"] = s]
    BY <1>2, <2>1
  <2>3. w \in RefStates /\ w.scn = new.scn /\ w.sub = old.sub /\ w.swarm = old.swarm
    BY <2>1, <2>2 DEF RefStates
  <2> QED
    BY <2>3, InOrderFacts DEF Kinds
<1>3. CASE kind = "swarm"
  <2>1. PICK s \in SwarmStates : s = new.swarm
    BY DEF RefStates
  <2>2. w = [old EXCEPT !["swarm"] = s]
    BY <1>3, <2>1
  <2>3. w \in RefStates /\ w.swarm = new.swarm /\ w.sub = old.sub /\ w.scn = old.scn
    BY <2>1, <2>2 DEF RefStates
  <2> QED
    BY <2>3, InOrderFacts DEF Kinds
<1> QED
  BY <1>1, <1>2, <1>3 DEF Kinds

LEMMA CacheStep ==
    ASSUME TypeOK, [Next]_vars
    PROVE  /\ cache' \in [run : Runs, pods : [Roles -> PodStates], refs : RefStates]
           /\ CacheMoves
<1> DEFINE C == [run : Runs, pods : [Roles -> PodStates], refs : RefStates]
<1>0. /\ cache \in C /\ run \in Runs /\ pods \in [Roles -> PodStates] /\ refs \in RefStates
  BY DEF TypeOK
<1>1. CASE cache' = cache
  BY <1>0, <1>1 DEF CacheMoves
<1>2. CASE OperatorRestart
  <2>1. cache' = cache \/ cache' = Current
    BY <1>2 DEF OperatorRestart
  <2>2. Current \in C /\ Current.run = run /\ Current.pods = pods /\ Current.refs = refs
    BY <1>0 DEF Current
  <2>3. UNCHANGED apiVars /\ rc' = Idle
    BY <1>2 DEF OperatorRestart
  <2> QED
    BY <1>1, <2>1, <2>2, <2>3 DEF CacheMoves
<1>3. CASE SyncRun
  <2>1. cache' = [cache EXCEPT !.run = run] /\ UNCHANGED <<apiVars, rc>>
    BY <1>3 DEF SyncRun
  <2>2. cache' \in C /\ cache'.run = run /\ cache'.pods = cache.pods /\ cache'.refs = cache.refs
    BY <1>0, <2>1
  <2> QED
    BY <2>1, <2>2 DEF CacheMoves
<1>4. CASE SyncPods
  <2>1. cache' = [cache EXCEPT !.pods = pods] /\ UNCHANGED <<apiVars, rc>>
    BY <1>4 DEF SyncPods
  <2>2. cache' \in C /\ cache'.run = cache.run /\ cache'.pods = pods /\ cache'.refs = cache.refs
    BY <1>0, <2>1
  <2> QED
    BY <2>1, <2>2 DEF CacheMoves
<1>5. ASSUME NEW kind \in Kinds, SyncRefs(kind)
      PROVE  cache' \in C /\ CacheMoves
  <2> DEFINE w == [cache.refs EXCEPT ![kind] = refs[kind]]
  <2>1. cache' = [cache EXCEPT !.refs[kind] = refs[kind]] /\ UNCHANGED <<apiVars, rc>>
    BY <1>5 DEF SyncRefs
  <2>2. cache' = [cache EXCEPT !.refs = w]
    BY <2>1, Zenon
  <2>3. cache.refs \in RefStates
    BY <1>0
  <2>4. w \in RefStates /\ InOrder(w) \subseteq InOrder(cache.refs) \cup InOrder(refs)
    BY <1>0, <2>3, SyncedRefs
  <2> HIDE DEF w
  <2>5. cache' \in C /\ cache'.run = cache.run /\ cache'.pods = cache.pods /\ cache'.refs = w
    BY <1>0, <2>2, <2>4
  <2> QED
    BY <2>1, <2>4, <2>5 DEF CacheMoves
<1> QED
  BY <1>1, <1>2, <1>3, <1>4, <1>5, CacheWriters DEF Sync

\* Faults and failures stay within their bounds.
LEMMA BoundStep ==
    ASSUME TypeOK, [Next]_vars
    PROVE  /\ faults' \in 0 .. MaxFaults /\ podFailures' \in 0 .. MaxPodFailures
           /\ refDeletes' \in 0 .. MaxRefDeletes
<1>0. /\ faults \in 0 .. MaxFaults /\ podFailures \in 0 .. MaxPodFailures
      /\ refDeletes \in 0 .. MaxRefDeletes
      /\ MaxFaults \in Nat /\ MaxPodFailures \in Nat /\ MaxRefDeletes \in Nat
  BY BoundsAssumption DEF TypeOK
<1>1. \/ faults' = faults
      \/ faults < MaxFaults /\ faults' = faults + 1
  BY DEF Next, vars, boundVars, Reconcile, SingleWrite, AddFinalizer, ToPending, ToAllocating,
         ToInvalid, ObservePriming, ObserveRunning, ToComplete, Priming, BeginPriming,
         EnsurePod, EnsureService, FinishPriming, Deleting, BeginDelete, DeletePod, EndDelete,
         RemoveFinalizer, Sync, SyncRun, SyncPods, SyncRefs, User, CreateRun, DeleteRun,
         CreateRef, ChangeRef, DeleteRef, Cluster, SubmissionToPending, BuildSettles,
         HashScenario, CoordinatorExits, PodStatus, StartPod, FailPod, RemovePod, CollectPod,
         CollectService, WriteFails, OperatorRestart, Fault
<1>2. \/ podFailures' = podFailures
      \/ podFailures < MaxPodFailures /\ podFailures' = podFailures + 1
  BY DEF Next, vars, boundVars, Reconcile, SingleWrite, AddFinalizer, ToPending, ToAllocating,
         ToInvalid, ObservePriming, ObserveRunning, ToComplete, Priming, BeginPriming,
         EnsurePod, EnsureService, FinishPriming, Deleting, BeginDelete, DeletePod, EndDelete,
         RemoveFinalizer, Sync, SyncRun, SyncPods, SyncRefs, User, CreateRun, DeleteRun,
         CreateRef, ChangeRef, DeleteRef, Cluster, SubmissionToPending, BuildSettles,
         HashScenario, CoordinatorExits, PodStatus, StartPod, FailPod, RemovePod, CollectPod,
         CollectService, WriteFails, OperatorRestart, Fault
<1>3. \/ refDeletes' = refDeletes
      \/ refDeletes < MaxRefDeletes /\ refDeletes' = refDeletes + 1
  BY DEF Next, vars, boundVars, Reconcile, SingleWrite, AddFinalizer, ToPending, ToAllocating,
         ToInvalid, ObservePriming, ObserveRunning, ToComplete, Priming, BeginPriming,
         EnsurePod, EnsureService, FinishPriming, Deleting, BeginDelete, DeletePod, EndDelete,
         RemoveFinalizer, Sync, SyncRun, SyncPods, SyncRefs, User, CreateRun, DeleteRun,
         CreateRef, ChangeRef, DeleteRef, Cluster, SubmissionToPending, BuildSettles,
         HashScenario, CoordinatorExits, PodStatus, StartPod, FailPod, RemovePod, CollectPod,
         CollectService, WriteFails, OperatorRestart, Fault
<1> QED
  BY <1>0, <1>1, <1>2, <1>3

-----------------------------------------------------------------------------
(***************************************************************************)
(* Types and copies.                                                       *)
(***************************************************************************)

LEMMA TypeInit == Init => TypeOK
<1> SUFFICES ASSUME Init PROVE TypeOK
  OBVIOUS
<1>1. NoRun \in Runs /\ NoPod \in PodStates /\ {} \in SUBSET Roles /\ 0 \in 0 .. MaxCreates
  BY BoundsAssumption DEF NoRun, Runs, Phases, NoPod, PodStates
<1>2. 0 \in 0 .. Len(PodOrder) + Len(ServiceOrder)
  BY OrderFacts
<1>3. refs \in RefStates /\ settled \subseteq Kinds
  BY InitialRefsAssumption, InOrderFacts DEF Init
<1>4. rc \in [pc : {"idle", "priming", "deleting"}, br : Runs,
              done : 0 .. Len(PodOrder) + Len(ServiceOrder), todo : SUBSET Roles]
  BY <1>1, <1>2 DEF Init, Idle
<1>5. cache \in [run : Runs, pods : [Roles -> PodStates], refs : RefStates]
  BY <1>1, <1>3 DEF Init
<1> QED
  BY <1>1, <1>3, <1>4, <1>5, BoundsAssumption DEF Init, TypeOK

LEMMA TypeStep ==
    ASSUME TypeOK, Copies, [Next]_vars
    PROVE  TypeOK'
<1>0. run \in Runs /\ revision \in Nat /\ creates \in 0 .. MaxCreates /\ MaxCreates \in Nat
  BY BoundsAssumption DEF TypeOK
<1>1. run' \in Runs /\ revision' \in Nat /\ creates' \in 0 .. MaxCreates
  <2>1. NoRun \in Runs
    BY BoundsAssumption DEF NoRun, Runs, Phases
  <2>2. CASE UNCHANGED <<run, revision, creates>>
    BY <1>0, <2>2
  <2>3. CASE Updated
    BY <1>0, <2>3 DEF Updated
  <2>4. CASE Gone
    BY <1>0, <2>1, <2>4 DEF Gone
  <2>5. CASE Born
    <3>1. /\ run' \in Runs /\ revision' = revision + 1 /\ creates' = creates + 1
          /\ creates < MaxCreates
      BY <2>5 DEF Born
    <3> QED
      BY <1>0, <3>1
  <2> QED
    BY <2>2, <2>3, <2>4, <2>5, RunStep
<1> QED
  BY <1>1, PodStep, ServiceStep, RefStep, CacheStep, RcStep, BoundStep DEF TypeOK

LEMMA NoRunFields ==
    NoRun.uid = 0 /\ NoRun.rv = 0 /\ Idle.pc = "idle" /\ Idle.br = NoRun
BY DEF NoRun, Idle

LEMMA CopiesInit == Init => Copies
<1> SUFFICES ASSUME Init PROVE Copies
  OBVIOUS
<1>1. /\ run = NoRun /\ revision = 0 /\ creates = 0 /\ rc = Idle /\ cache.run = NoRun
  BY DEF Init
<1> QED
  BY <1>1, NoRunFields DEF Copies, CopyOf

\* A copy stays one: the run gets a resourceVersion no copy has.
LEMMA CopyKept ==
    ASSUME TypeOK, Copies, [Next]_vars, NEW br \in Runs, CopyOf(br)
    PROVE  br.rv <= revision' /\ br.uid <= creates'
           /\ (br.uid = 0 => br = NoRun)
           /\ (br.uid = run'.uid /\ br.rv = run'.rv => br = run')
           /\ (br.uid = run'.uid /\ br.deleting => run'.deleting)
           /\ (br.uid = run'.uid /\ br.finalizer => run'.finalizer)
<1>0. /\ br.rv \in Nat /\ br.uid \in Nat /\ revision \in Nat /\ creates \in Nat
      /\ br.rv <= revision /\ br.uid <= creates /\ (br.uid = 0 => br = NoRun)
      /\ (br.uid = run.uid /\ br.rv = run.rv => br = run)
      /\ (br.uid = run.uid /\ br.deleting => run.deleting)
      /\ (br.uid = run.uid /\ br.finalizer => run.finalizer)
  BY DEF TypeOK, Runs, CopyOf
<1>1. CASE UNCHANGED <<run, revision, creates>>
  BY <1>0, <1>1
<1>2. CASE Updated
  BY <1>0, <1>2 DEF Updated
<1>3. CASE Gone
  <2>1. run' = NoRun /\ revision' = revision + 1 /\ creates' = creates
    BY <1>3 DEF Gone
  <2> QED
    BY <1>0, <2>1, NoRunFields
<1>4. CASE Born
  <2>1. run'.uid = creates + 1 /\ revision' = revision + 1 /\ creates' = creates + 1
    BY <1>4 DEF Born
  <2> QED
    BY <1>0, <2>1
<1> QED
  BY <1>1, <1>2, <1>3, <1>4, RunStep

LEMMA CopiesStep ==
    ASSUME TypeOK, Copies, [Next]_vars
    PROVE  Copies'
<1>0. /\ run \in Runs /\ cache.run \in Runs /\ rc.br \in Runs /\ Seen.run \in Runs
      /\ CopyOf(run) /\ CopyOf(cache.run) /\ CopyOf(rc.br) /\ CopyOf(Seen.run)
  BY SeenFacts, SeenCopy DEF TypeOK, Copies
<1>1. CopyOf(run)'
  <2>1. CASE UNCHANGED <<run, revision, creates>>
    BY <1>0, <2>1 DEF CopyOf
  <2>2. CASE Updated
    <3>1. /\ run.uid # 0 /\ run'.uid = run.uid /\ run'.rv = revision + 1
          /\ revision' = revision + 1 /\ creates' = creates /\ run.uid <= creates
      BY <1>0, <2>2 DEF Updated, CopyOf
    <3> QED
      BY <3>1 DEF CopyOf, TypeOK
  <2>3. CASE Gone
    <3>1. /\ run' = NoRun /\ revision' = revision + 1 /\ creates' = creates
      BY <2>3 DEF Gone
    <3> QED
      BY <3>1, NoRunFields DEF CopyOf, TypeOK
  <2>4. CASE Born
    <3>1. /\ run'.uid = creates + 1 /\ run'.rv = revision + 1
          /\ revision' = revision + 1 /\ creates' = creates + 1
      BY <2>4 DEF Born
    <3> QED
      BY <3>1 DEF CopyOf, TypeOK
  <2> QED
    BY <2>1, <2>2, <2>3, <2>4, RunStep
<1>2. ASSUME NEW br \in Runs, CopyOf(br)
      PROVE  br.rv <= revision' /\ br.uid <= creates'
             /\ (br.uid = 0 => br = NoRun)
             /\ (br.uid = run'.uid /\ br.rv = run'.rv => br = run')
             /\ (br.uid = run'.uid /\ br.deleting => run'.deleting)
             /\ (br.uid = run'.uid /\ br.finalizer => run'.finalizer)
  BY <1>2, CopyKept
<1>3. CopyOf(cache.run)'
  <2>1. cache'.run = cache.run \/ cache'.run = run
    BY CacheStep DEF CacheMoves
  <2> QED
    BY <1>0, <1>2, <2>1 DEF CopyOf
<1>4. NoRun \in Runs /\ CopyOf(NoRun)
  <2>1. NoRun \in Runs
    BY BoundsAssumption DEF NoRun, Runs, Phases
  <2>2. revision >= 0 /\ creates >= 0 /\ (run.uid = 0 => run = NoRun)
    BY <1>0 DEF CopyOf, TypeOK
  <2> QED
    BY <2>1, <2>2, NoRunFields DEF CopyOf
<1>5. RcMoves
  BY RcStep
<1>6. CASE rc' = rc
  <2>1. CopyOf(rc.br)'
    BY <1>0, <1>2, <1>6 DEF CopyOf
  <2> QED
    BY <1>1, <1>3, <1>6, <2>1 DEF Copies
<1>7. CASE rc' = Idle
  <2>1. rc'.br = NoRun /\ rc'.pc = "idle"
    BY <1>7 DEF Idle
  <2>2. CopyOf(rc.br)'
    BY <1>2, <1>4, <2>1 DEF CopyOf
  <2> QED
    BY <1>1, <1>3, <1>7, <2>1, <2>2 DEF Copies, Idle
<1>8. CASE rc'.br = Seen.run /\ rc'.pc = "priming" /\ ReadsPhase("ALLOCATING")
  <2>1. CopyOf(rc.br)'
    BY <1>0, <1>2, <1>8 DEF CopyOf
  <2> QED
    BY <1>1, <1>3, <1>8, <2>1 DEF Copies, ReadsPhase
<1>9. CASE rc'.br = Seen.run /\ rc'.pc = "deleting" /\ Seen.run.uid # 0 /\ Seen.run.deleting
  <2>1. CopyOf(rc.br)'
    BY <1>0, <1>2, <1>9 DEF CopyOf
  <2> QED
    BY <1>1, <1>3, <1>9, <2>1 DEF Copies
<1>10. CASE rc'.br = rc.br /\ rc'.pc = rc.pc /\ rc.pc # "idle"
  <2>1. CopyOf(rc.br)'
    BY <1>0, <1>2, <1>10 DEF CopyOf
  <2> QED
    BY <1>1, <1>3, <1>10, <2>1 DEF Copies
<1> QED
  BY <1>5, <1>6, <1>7, <1>8, <1>9, <1>10 DEF RcMoves

\* Every variable has its type, whatever the roles and the bounds.
THEOREM RunTypeCorrect == Spec => []TypeOK
<1>1. Init => TypeOK /\ Copies
  BY TypeInit, CopiesInit
<1>2. TypeOK /\ Copies /\ [Next]_vars => TypeOK' /\ Copies'
  BY TypeStep, CopiesStep
<1> QED
  BY <1>1, <1>2, PTL DEF Spec

\* The phase moves along the documented edges only, however old the copy is
\* that a transition was decided on: the resourceVersion makes an accepted
\* write the write of the last version.
THEOREM PhasesForward == Spec => PhasesOneWay
<1>1. Init => TypeOK /\ Copies
  BY TypeInit, CopiesInit
<1>2. TypeOK /\ Copies /\ [Next]_vars => TypeOK' /\ Copies'
  BY TypeStep, CopiesStep
<1>3. TypeOK /\ Copies /\ [Next]_vars
      => [run'.uid = run.uid /\ run'.phase # run.phase => run'.phase \in Successors[run.phase]]_vars
  <2> SUFFICES ASSUME TypeOK, Copies, [Next]_vars, run'.uid = run.uid, run'.phase # run.phase
               PROVE  run'.phase \in Successors[run.phase]
    OBVIOUS
  <2>1. CASE Updated
    BY <2>1 DEF Updated, PhaseMoves, Successors, Phases
  <2>2. CASE UNCHANGED <<run, revision, creates>>
    BY <2>2
  <2>3. CASE Gone
    BY <2>3 DEF Gone, NoRun
  <2>4. CASE Born
    <3>1. run.uid = 0 /\ run'.uid = creates + 1
      BY <2>4 DEF Born
    <3> QED
      BY <3>1 DEF TypeOK
  <2> QED
    BY <2>1, <2>2, <2>3, <2>4, RunStep
<1> QED
  BY <1>1, <1>2, <1>3, PTL DEF Spec, PhasesOneWay

-----------------------------------------------------------------------------
(***************************************************************************)
(* What the invariants say.                                                *)
(***************************************************************************)

Allocated == {"ALLOCATING", "PRIMING", "RUNNING", "DRAINING", "COMPLETE"}

\* Whoever believes the run allocated is right that its references have been
\* valid, although the references may be gone by now.
SettledOnce ==
    /\ run.phase \in Allocated => settled = Kinds
    /\ cache.run.phase \in Allocated => settled = Kinds
    /\ rc.br.phase \in Allocated => settled = Kinds
    /\ InOrder(refs) \subseteq settled
    /\ InOrder(cache.refs) \subseteq settled
    /\ NoPodBeforeReady

\* Pods and services were created for some run, and a pod that is gone is not
\* on its way out.
Owned ==
    /\ \A r \in Roles : pods[r].status # "absent" => pods[r].owner \in 1 .. creates
    /\ \A r \in Roles : pods[r].status = "absent" => ~ pods[r].terminating
    /\ \A r \in ServiceRoles : services[r] \in 0 .. creates
    /\ \A r \in Roles : cache.pods[r].status # "absent" => creates # 0

\* With fresh caches the reconcile in progress is about the run that is there,
\* and so are the pods; it holds the finalizer as long as there are any.
OfThisRun ==
    FreshCache =>
        /\ \A r \in Roles :
               pods[r].status # "absent" => pods[r].owner = run.uid /\ run.finalizer
        /\ rc.pc = "priming" => rc.br.uid = run.uid /\ run.finalizer
        /\ rc.pc = "deleting" => rc.br.uid = run.uid /\ run.deleting

Started == {"Running", "Succeeded", "Failed"}

\* Nobody removes the pods of a live run, so what has been created is there
\* and what has been seen of a container is behind what it does now.
PodsKept ==
    Alive =>
        /\ \A r \in Roles :
               /\ ~ pods[r].terminating
               /\ pods[r].status # "absent" => pods[r].owner = run.uid
               /\ Seen.pods[r].status \in Started => pods[r].status \in Started
               /\ Seen.pods[r].status = "Succeeded" => pods[r].status = "Succeeded"
        /\ rc.pc = "priming" =>
               /\ rc.br.uid = run.uid
               /\ \A i \in 1 .. Len(PodOrder) :
                      i <= rc.done => pods[PodOrder[i]].status # "absent"
        /\ PastPriming => \A r \in Roles : pods[r].status # "absent"
        /\ PhaseMatchesPods

\* The same for the services, which are matched by name alone: a service an
\* earlier run of the name left behind would be taken for this run's.
ServicesKept ==
    Alive =>
        /\ rc.pc = "priming" =>
               \A i \in 1 .. Len(ServiceOrder) :
                   i <= rc.done - Len(PodOrder) => services[ServiceOrder[i]] # 0
        /\ PastPriming => \A r \in ServiceRoles : services[r] # 0

-----------------------------------------------------------------------------
(***************************************************************************)
(* References.                                                             *)
(***************************************************************************)

LEMMA SettledStays ==
    ASSUME TypeOK, [Next]_vars
    PROVE  settled \subseteq settled' /\ (settled = Kinds => settled' = Kinds)
  BY RefStep

LEMMA SettledInit == Init => SettledOnce
<1> SUFFICES ASSUME Init PROVE SettledOnce
  OBVIOUS
<1>1. /\ run.phase = "" /\ cache.run.phase = "" /\ rc.br.phase = "" /\ cache.refs = refs
      /\ settled = InOrder(refs)
  BY DEF Init, NoRun, Idle
<1>2. \A r \in Roles : pods[r].status = "absent"
  BY DEF Init, NoPod
<1> QED
  BY <1>1, <1>2 DEF SettledOnce, Allocated, NoPodBeforeReady

LEMMA SettledStep ==
    ASSUME TypeOK, Copies, SettledOnce, [Next]_vars
    PROVE  SettledOnce'
<1>1. /\ run.phase \in Allocated => settled' = Kinds
      /\ cache.run.phase \in Allocated => settled' = Kinds
      /\ rc.br.phase \in Allocated => settled' = Kinds
  BY SettledStays DEF SettledOnce
<1>2. Seen.run.phase \in Allocated => settled' = Kinds
  BY <1>1, SeenFacts
<1>3. NoRun.phase = "" /\ "" \notin Allocated
  BY DEF NoRun, Allocated
<1>4. run'.phase \in Allocated => settled' = Kinds
  <2>1. RefsValidated(Seen.refs) => settled = Kinds
    <3>1. Seen.refs \in RefStates /\ InOrder(Seen.refs) \subseteq settled
      BY SeenFacts, BoundsAssumption DEF SettledOnce
    <3>2. ASSUME RefsValidated(Seen.refs)
          PROVE  settled = Kinds
      <4>1. Seen.refs.sub = "READY" /\ Seen.refs.scn = "hashed" /\ Seen.refs.swarm = "present"
        BY <3>1, <3>2 DEF RefsValidated, Found, RefStates, SwarmStates
      <4>2. "sub" \in InOrder(Seen.refs) /\ "scn" \in InOrder(Seen.refs) /\ "swarm" \in InOrder(Seen.refs)
        BY <3>1, <4>1, InOrderFacts
      <4>3. Kinds \subseteq settled
        BY <3>1, <4>2 DEF Kinds
      <4> QED
        BY <4>3 DEF TypeOK
    <3> QED
      BY <3>2
  <2>2. CASE Updated
    BY <1>1, <2>1, <2>2, SettledStays DEF Updated, PhaseMoves, Allocated
  <2>3. CASE UNCHANGED <<run, revision, creates>>
    BY <1>1, <2>3
  <2>4. CASE Gone
    BY <1>3, <2>4 DEF Gone
  <2>5. CASE Born
    BY <1>3, <2>5 DEF Born
  <2> QED
    BY <2>2, <2>3, <2>4, <2>5, RunStep
<1>5. cache'.run.phase \in Allocated => settled' = Kinds
  BY <1>1, CacheStep DEF CacheMoves
<1>6. rc'.br.phase \in Allocated => settled' = Kinds
  BY <1>1, <1>2, <1>3, RcStep, NoRunFields DEF RcMoves
<1>7. InOrder(refs)' \subseteq settled' /\ InOrder(cache.refs)' \subseteq settled'
  <2>1. InOrder(refs) \subseteq settled' /\ InOrder(cache.refs) \subseteq settled'
    BY SettledStays DEF SettledOnce
  <2>2. InOrder(cache.refs)' = InOrder(cache'.refs)
    BY DEF InOrder
  <2> QED
    BY <2>1, <2>2, RefStep, CacheStep DEF CacheMoves, SettledOnce
<1>8. NoPodBeforeReady'
  <2> SUFFICES ASSUME NEW r \in Roles, pods'[r].status # "absent"
               PROVE  settled' = Kinds
    BY DEF NoPodBeforeReady
  <2>1. CASE pods[r].status # "absent"
    BY <2>1, SettledStays DEF SettledOnce, NoPodBeforeReady
  <2>2. CASE pods[r].status = "absent"
    <3>1. rc.pc = "priming"
      BY <2>2, PodStep DEF PodMoves
    <3> QED
      BY <1>1, <3>1 DEF Copies, Allocated
  <2> QED
    BY <2>1, <2>2
<1> QED
  BY <1>4, <1>5, <1>6, <1>7, <1>8 DEF SettledOnce

\* No pod exists before the submission has been READY, the scenario hashed and
\* the swarm there, however old the references and the run are that a reconcile
\* has read, and however often the references are deleted and created anew.
THEOREM PodsAfterReady == Spec => []NoPodBeforeReady
<1>1. Init => TypeOK /\ Copies /\ SettledOnce
  BY TypeInit, CopiesInit, SettledInit
<1>2. TypeOK /\ Copies /\ SettledOnce /\ [Next]_vars => TypeOK' /\ Copies' /\ SettledOnce'
  BY TypeStep, CopiesStep, SettledStep
<1>3. SettledOnce => NoPodBeforeReady
  BY DEF SettledOnce
<1> QED
  BY <1>1, <1>2, <1>3, PTL DEF Spec

-----------------------------------------------------------------------------
(***************************************************************************)
(* Whose pods they are.                                                    *)
(***************************************************************************)

LEMMA OwnedInit == Init => Owned /\ OfThisRun
<1> SUFFICES ASSUME Init PROVE Owned /\ OfThisRun
  OBVIOUS
<1>1. \A r \in Roles : pods[r] = NoPod /\ cache.pods[r] = NoPod
  BY DEF Init
<1>2. \A r \in ServiceRoles : services[r] = 0
  BY DEF Init
<1>3. NoPod.status = "absent" /\ ~ NoPod.terminating /\ rc.pc = "idle" /\ creates = 0
  BY DEF NoPod, Init, Idle
<1> QED
  BY <1>1, <1>2, <1>3 DEF Owned, OfThisRun

\* The number of runs created only grows.
LEMMA CreatesGrows ==
    ASSUME TypeOK, Copies, [Next]_vars
    PROVE  /\ creates \in Nat /\ creates' \in Nat /\ creates <= creates'
           /\ creates' # creates => Born
<1>1. creates \in Nat
  BY BoundsAssumption DEF TypeOK
<1>2. creates' = creates \/ (Born /\ creates' = creates + 1)
  BY RunStep DEF Updated, Gone, Born
<1> QED
  BY <1>1, <1>2

LEMMA OwnedStep ==
    ASSUME TypeOK, Copies, Owned, [Next]_vars
    PROVE  Owned'
<1>0. /\ creates \in Nat /\ creates' \in Nat /\ creates <= creates'
  BY CreatesGrows
<1>1. /\ rc.br.uid \in Nat /\ rc.br.uid <= creates
      /\ rc.pc = "priming" => rc.br.uid \in 1 .. creates
  BY <1>0 DEF Copies, CopyOf, TypeOK, Runs
<1>2. ASSUME NEW r \in Roles, pods'[r].status # "absent"
      PROVE  pods'[r].owner \in 1 .. creates'
  <2>1. pods[r].status # "absent" => pods[r].owner \in 1 .. creates
    BY DEF Owned
  <2>2. pods'[r].owner \in 1 .. creates
    BY <1>1, <1>2, <2>1, PodStep DEF PodMoves
  <2> QED
    BY <1>0, <2>2
<1>3. ASSUME NEW r \in Roles, pods'[r].status = "absent"
      PROVE  ~ pods'[r].terminating
  <2>1. pods[r].status = "absent" => ~ pods[r].terminating
    BY DEF Owned
  <2> QED
    BY <1>3, <2>1, PodStep DEF PodMoves
<1>4. ASSUME NEW r \in ServiceRoles
      PROVE  services'[r] \in 0 .. creates'
  <2>1. services[r] \in 0 .. creates
    BY DEF Owned
  <2>2. services'[r] \in 0 .. creates
    BY <1>0, <1>1, <2>1, ServiceStep DEF ServiceMoves
  <2> QED
    BY <1>0, <2>2
<1>5. ASSUME NEW r \in Roles, cache'.pods[r].status # "absent"
      PROVE  creates' # 0
  <2>1. cache.pods[r].status # "absent" => creates # 0
    BY DEF Owned
  <2>2. pods[r].status # "absent" => creates # 0
    BY <1>0 DEF Owned
  <2> QED
    BY <1>0, <1>5, <2>1, <2>2, CacheStep DEF CacheMoves
<1> QED
  BY <1>2, <1>3, <1>4, <1>5 DEF Owned

LEMMA OfThisRunStep ==
    ASSUME TypeOK, Copies, OfThisRun, [Next]_vars
    PROVE  OfThisRun'
<1> SUFFICES ASSUME FreshCache PROVE OfThisRun'
  BY DEF OfThisRun
<1>0. /\ \A r \in Roles : pods[r].status # "absent" => pods[r].owner = run.uid /\ run.finalizer
      /\ rc.pc = "priming" => rc.br.uid = run.uid /\ run.finalizer
      /\ rc.pc = "deleting" => rc.br.uid = run.uid /\ run.deleting
      /\ Seen.run = run /\ Seen.pods = pods
  BY SeenFacts DEF OfThisRun
<1>1. run.uid = 0 => ~ run.finalizer /\ ~ run.deleting
  <2>1. run.uid = 0 => run = NoRun
    BY DEF Copies, CopyOf
  <2>2. ~ NoRun.finalizer /\ ~ NoRun.deleting
    BY DEF NoRun
  <2> QED
    BY <2>1, <2>2
<1>2. CASE UNCHANGED <<run, revision, creates>>
  <2>1. ASSUME NEW r \in Roles, pods'[r].status # "absent"
        PROVE  pods'[r].owner = run.uid /\ run.finalizer
    BY <1>0, <2>1, PodStep DEF PodMoves
  <2>2. /\ rc'.pc = "priming" => rc'.br.uid = run.uid /\ run.finalizer
        /\ rc'.pc = "deleting" => rc'.br.uid = run.uid /\ run.deleting
    BY <1>0, RcStep, NoRunFields DEF RcMoves, ReadsPhase
  <2> QED
    BY <1>2, <2>1, <2>2 DEF OfThisRun
<1>3. CASE Updated
  <2>1. /\ pods' = pods /\ run'.uid = run.uid
        /\ run.finalizer => run'.finalizer
        /\ run.deleting => run'.deleting
        /\ rc' = rc \/ rc' = Idle
    BY <1>3 DEF Updated
  <2> QED
    BY <1>0, <2>1, NoRunFields DEF OfThisRun
<1>4. CASE Gone
  <2>1. /\ pods' = pods /\ rc' = rc
        /\ (~ run.finalizer /\ ~ run.deleting) \/ (rc.pc = "idle" /\ ListedPods(pods) = {})
    BY <1>0, <1>4 DEF Gone
  <2>2. rc.pc # "priming" /\ rc.pc # "deleting"
    BY <1>0, <2>1
  <2>3. \A r \in Roles : pods[r].status = "absent"
    BY <1>0, <2>1 DEF ListedPods
  <2> QED
    BY <2>1, <2>2, <2>3 DEF OfThisRun
<1>5. CASE Born
  <2>1. pods' = pods /\ rc' = rc /\ run.uid = 0
    BY <1>5 DEF Born
  <2> QED
    BY <1>0, <1>1, <2>1 DEF OfThisRun
<1> QED
  BY <1>2, <1>3, <1>4, <1>5, RunStep

\* Whatever copies the reconciler reads, it creates pods for the run that is
\* there, and only a run that holds the finalizer has any.
HeldRun ==
    /\ \A r \in Roles :
           pods[r].status # "absent" /\ pods[r].owner = run.uid => run.finalizer
    /\ rc.pc = "priming" => rc.br.uid = run.uid
    /\ ~ FreshCache /\ cache.run.uid # 0 /\ cache.run.finalizer /\ ~ cache.run.deleting
           => cache.run.uid = run.uid

\* What is read as a run to be primed is the run that is there.
LEMMA SeenIsHeld ==
    ASSUME TypeOK, Copies, HeldRun, NEW phase, ReadsPhase(phase)
    PROVE  Seen.run.uid = run.uid
<1>1. Seen.run.uid # 0 /\ Seen.run.finalizer /\ ~ Seen.run.deleting
  BY DEF ReadsPhase
<1>2. CASE FreshCache
  BY <1>2, SeenFacts
<1>3. CASE ~ FreshCache
  BY <1>1, <1>3, SeenFacts DEF HeldRun
<1> QED
  BY <1>2, <1>3

LEMMA HeldInit == Init => HeldRun
<1> SUFFICES ASSUME Init PROVE HeldRun
  OBVIOUS
<1>1. /\ \A r \in Roles : pods[r].status = "absent"
      /\ rc.pc = "idle" /\ cache.run.uid = 0
  BY DEF Init, NoPod, Idle, NoRun
<1> QED
  BY <1>1 DEF HeldRun

LEMMA HeldStep ==
    ASSUME TypeOK, Copies, Owned, HeldRun, [Next]_vars
    PROVE  HeldRun'
<1>0. /\ rc.pc = "priming" => rc.br.uid = run.uid /\ run.uid # 0 /\ run.finalizer
      /\ \A r \in Roles : pods[r].status # "absent" => pods[r].owner \in 1 .. creates
      /\ creates \in Nat /\ run.uid \in Nat
  BY BoundsAssumption DEF Copies, CopyOf, HeldRun, Owned, TypeOK, Runs
<1>1. CASE UNCHANGED <<run, revision, creates>>
  <2>1. ASSUME NEW r \in Roles, pods'[r].status # "absent", pods'[r].owner = run.uid
        PROVE  run.finalizer
    BY <1>0, <2>1, PodStep DEF PodMoves, HeldRun
  <2>2. rc'.pc = "priming" => rc'.br.uid = run.uid
    BY <1>0, RcStep, SeenIsHeld, NoRunFields DEF RcMoves
  <2>3. ~ FreshCache /\ cache'.run.uid # 0 /\ cache'.run.finalizer /\ ~ cache'.run.deleting
            => cache'.run.uid = run.uid
    BY CacheStep DEF CacheMoves, HeldRun
  <2> QED
    BY <1>1, <2>1, <2>2, <2>3 DEF HeldRun
<1>2. CASE Updated
  <2>1. /\ pods' = pods /\ cache' = cache /\ run'.uid = run.uid
        /\ run.finalizer => run'.finalizer
        /\ rc' = rc \/ rc' = Idle
    BY <1>2 DEF Updated
  <2> QED
    BY <2>1, NoRunFields DEF HeldRun
<1>3. CASE Gone
  <2>1. /\ pods' = pods /\ cache' = cache /\ rc' = rc /\ run'.uid = 0 /\ run.uid # 0
        /\ \/ ~ run.finalizer /\ ~ run.deleting
           \/ rc.pc = "idle" /\ run.deleting /\ Seen.run = run
    BY <1>3, NoRunFields DEF Gone
  <2>2. rc.pc # "priming"
    BY <1>0, <2>1
  <2>3. ~ (~ FreshCache /\ cache.run.uid # 0 /\ cache.run.finalizer /\ ~ cache.run.deleting)
    <3>1. SUFFICES ASSUME ~ FreshCache, cache.run.uid # 0, cache.run.finalizer,
                          ~ cache.run.deleting
                   PROVE  FALSE
      OBVIOUS
    <3>2. cache.run.uid = run.uid /\ run.finalizer
      BY <3>1 DEF HeldRun, Copies, CopyOf
    <3> QED
      BY <2>1, <3>1, <3>2, SeenFacts
  <2>4. \A r \in Roles : pods[r].status # "absent" => pods[r].owner # 0
    BY <1>0
  <2> QED
    BY <2>1, <2>2, <2>3, <2>4 DEF HeldRun
<1>4. CASE Born
  <2>1. /\ pods' = pods /\ cache' = cache /\ rc' = rc /\ run.uid = 0
        /\ run'.uid = creates + 1
    BY <1>4 DEF Born
  <2>2. \A r \in Roles : pods[r].status # "absent" => pods[r].owner # creates + 1
    BY <1>0
  <2> QED
    BY <1>0, <2>1, <2>2 DEF HeldRun
<1> QED
  BY <1>1, <1>2, <1>3, <1>4, RunStep

\* With caches of any age, a pod outlives its run only if it was there and the
\* informer's list did not show it when handleDelete dropped the finalizer: no
\* reconcile that is behind creates a pod for a run that is gone.
THEOREM PodsWithinRun == Spec => OnlyUnseenPodsOutlive
<1> DEFINE I == TypeOK /\ Copies /\ Owned /\ HeldRun
<1>1. Init => I
  BY TypeInit, CopiesInit, OwnedInit, HeldInit
<1>2. I /\ [Next]_vars => I'
  BY TypeStep, CopiesStep, OwnedStep, HeldStep
<1>3. I /\ [Next]_vars
      => [\A r \in Roles :
              ~ Outlives(r) /\ Outlives(r)' =>
                  pods[r].status # "absent" /\ r \notin ListedPods(Seen.pods)]_vars
  <2> SUFFICES ASSUME I, [Next]_vars, NEW r \in Roles, ~ Outlives(r), Outlives(r)'
               PROVE  pods[r].status # "absent" /\ r \notin ListedPods(Seen.pods)
    OBVIOUS
  <2>0. pods'[r].status # "absent" /\ pods'[r].owner # run'.uid
    BY DEF Outlives
  <2>1. pods[r].status = "absent" \/ pods[r].owner = run.uid
    BY DEF Outlives
  <2>2. CASE UNCHANGED <<run, revision, creates>>
    <3>1. rc.pc = "priming" => rc.br.uid = run.uid
      BY DEF HeldRun
    <3> QED
      BY <2>0, <2>1, <2>2, <3>1, PodStep DEF PodMoves
  <2>3. CASE Updated
    BY <2>0, <2>1, <2>3 DEF Updated
  <2>4. CASE Gone
    <3>1. pods[r].status # "absent" /\ run.finalizer
      BY <2>0, <2>1, <2>4 DEF Gone, HeldRun
    <3>2. ListedPods(Seen.pods) = {}
      BY <2>4, <3>1 DEF Gone
    <3> QED
      BY <3>1, <3>2
  <2>5. CASE Born
    <3>1. pods' = pods /\ run.uid = 0
      BY <2>5 DEF Born
    <3>2. pods[r].owner \in 1 .. creates
      BY <2>0, <3>1 DEF Owned
    <3> QED
      BY <2>0, <2>1, <3>1, <3>2
  <2> QED
    BY <2>2, <2>3, <2>4, <2>5, RunStep
<1> QED
  BY <1>1, <1>2, <1>3, PTL DEF Spec, OnlyUnseenPodsOutlive

-----------------------------------------------------------------------------
(***************************************************************************)
(* A live run keeps what it has created.                                   *)
(***************************************************************************)

\* Fresh caches or a single run: no pod of another run is in sight.
OneAtATime == FreshCache \/ MaxCreates <= 1

\* What the hypothesis is needed for.
LEMMA AliveFacts ==
    ASSUME OneAtATime, TypeOK, Copies, Owned, OfThisRun, Alive
    PROVE  /\ rc.pc = "priming" => rc.br.uid = run.uid
           /\ rc.pc # "deleting"
           /\ Seen.run.uid # 0 => Seen.run.uid = run.uid
           /\ \A r \in Roles : pods[r].status # "absent" => pods[r].owner = run.uid
<1>0. /\ run.uid \in Nat /\ run.uid # 0 /\ run.uid <= creates /\ creates \in Nat
      /\ creates <= MaxCreates /\ MaxCreates \in Nat
      /\ rc.br.uid \in Nat /\ rc.br.uid <= creates /\ ~ run.deleting
      /\ rc.br.uid = run.uid /\ rc.br.deleting => run.deleting
  BY BoundsAssumption DEF TypeOK, Runs, Copies, CopyOf, Alive
<1>1. /\ rc.pc = "priming" => rc.br.uid # 0
      /\ rc.pc = "deleting" => rc.br.uid # 0 /\ rc.br.deleting
  BY DEF Copies
<1>2. \A r \in Roles : pods[r].status # "absent" => pods[r].owner \in 1 .. creates
  BY DEF Owned
<1>3. CASE FreshCache
  BY <1>0, <1>3, SeenFacts DEF OfThisRun
<1>4. CASE MaxCreates <= 1
  <2>1. run.uid = 1 /\ creates = 1
    BY <1>0, <1>4
  <2>2. Seen.run.uid # 0 => Seen.run.uid = 1
    <3>1. Seen.run.uid \in Nat /\ Seen.run.uid <= creates
      BY SeenFacts, SeenCopy DEF Runs, CopyOf
    <3> QED
      BY <2>1, <3>1
  <2>3. rc.br.uid # 0 => rc.br.uid = 1
    BY <1>0, <2>1
  <2> QED
    BY <1>0, <1>1, <1>2, <2>1, <2>2, <2>3
<1> QED
  BY <1>3, <1>4 DEF OneAtATime

\* When a run is created there is no pod, no service of a previous run and no
\* reconcile in progress.
LEMMA BornFacts ==
    ASSUME OneAtATime, TypeOK, Copies, Owned, OfThisRun, Born
    PROVE  /\ rc.pc # "priming" /\ \A r \in Roles : pods[r].status = "absent"
           /\ MaxCreates <= 1 => creates = 0
           /\ ~ FreshCache => \A r \in Roles : cache.pods[r].status = "absent"
<1>0. /\ run.uid = 0 /\ creates \in Nat /\ creates < MaxCreates /\ MaxCreates \in Nat
      /\ rc.br.uid \in Nat /\ rc.br.uid <= creates /\ (rc.pc = "priming" => rc.br.uid # 0)
      /\ CopyOf(run)
  <2>1. run.uid = 0 /\ creates < MaxCreates
    BY DEF Born
  <2>2. creates \in Nat /\ MaxCreates \in Nat /\ rc.br.uid \in Nat
    BY BoundsAssumption DEF TypeOK, Runs
  <2>3. rc.br.uid <= creates /\ CopyOf(run) /\ (rc.pc = "priming" => rc.br.uid # 0)
    BY DEF Copies, CopyOf
  <2> QED
    BY <2>1, <2>2, <2>3
<1>1. ~ run.finalizer
  <2>1. run = NoRun
    BY <1>0 DEF CopyOf
  <2> QED
    BY <2>1 DEF NoRun
<1>2. MaxCreates <= 1 => creates = 0
  BY <1>0
<1>3. CASE FreshCache
  BY <1>0, <1>1, <1>2, <1>3 DEF OfThisRun
<1>4. CASE MaxCreates <= 1
  <2>1. 1 .. creates = {} /\ creates = 0
    BY <1>0, <1>4
  <2> QED
    BY <1>0, <1>2, <2>1 DEF Owned
<1> QED
  BY <1>3, <1>4 DEF OneAtATime

\* While the run is alive its pods stay, and their containers only move on.
LEMMA PodsStay ==
    ASSUME OneAtATime, TypeOK, Copies, Owned, OfThisRun, PodsKept, [Next]_vars, Alive,
           NEW r \in Roles
    PROVE  /\ ~ pods'[r].terminating
           /\ pods[r].status # "absent" => pods'[r].status # "absent"
           /\ pods'[r].status # "absent" => pods'[r].owner = run.uid
           /\ pods[r].status \in Started => pods'[r].status \in Started
           /\ pods[r].status = "Succeeded" => pods'[r].status = "Succeeded"
           /\ pods[r].status # "absent" /\ pods[r].status # "Pending" => pods'[r].status # "Pending"
<1>1. /\ ~ pods[r].terminating /\ rc.pc # "deleting"
      /\ pods[r].status # "absent" => pods[r].owner = run.uid
      /\ rc.pc = "priming" => rc.br.uid = run.uid
  BY AliveFacts DEF PodsKept
<1>2. PodMoves(r)
  BY PodStep
<1> QED
  BY <1>1, <1>2 DEF PodMoves, Started

\* The run was alive before a step that leaves it so, or was just created.
LEMMA AliveBefore ==
    ASSUME TypeOK, Copies, [Next]_vars, Alive'
    PROVE  /\ (Alive /\ run'.uid = run.uid) \/ Born
           /\ (Alive /\ ~ Born) => (run'.phase = run.phase \/ (Updated /\ PhaseMoves))
<1>1. run'.uid # 0 /\ ~ run'.deleting
  BY DEF Alive
<1>2. CASE UNCHANGED <<run, revision, creates>>
  BY <1>1, <1>2 DEF Alive
<1>3. CASE Updated
  BY <1>1, <1>3 DEF Updated, Alive
<1>4. CASE Gone
  BY <1>1, <1>4, NoRunFields DEF Gone
<1>5. CASE Born
  BY <1>5
<1> QED
  BY <1>2, <1>3, <1>4, <1>5, RunStep

LEMMA PodsKeptInit == Init => PodsKept
BY NoRunFields DEF Init, PodsKept, Alive

LEMMA PodsKeptStep ==
    ASSUME OneAtATime, TypeOK, Copies, Owned, OfThisRun, PodsKept, [Next]_vars
    PROVE  PodsKept'
<1> SUFFICES ASSUME Alive' PROVE PodsKept'
  BY DEF PodsKept
<1>1. CASE Born
  <2>1. /\ rc.pc # "priming" /\ \A r \in Roles : pods[r].status = "absent"
        /\ ~ FreshCache => \A r \in Roles : cache.pods[r].status = "absent"
        /\ \A r \in Roles : ~ pods[r].terminating
    BY <1>1, BornFacts DEF Owned
  <2>2. UNCHANGED <<pods, rc, cache>> /\ run'.phase = ""
    BY <1>1 DEF Born
  <2>3. \A r \in Roles : Seen'.pods[r].status = "absent"
    BY <2>1, <2>2 DEF Seen, Current
  <2> QED
    BY <2>1, <2>2, <2>3 DEF PodsKept, PastPriming, PhaseMatchesPods, Started
<1>2. CASE Alive /\ ~ Born
  <2>0. /\ run'.uid = run.uid /\ (run'.phase = run.phase \/ (Updated /\ PhaseMoves))
    BY <1>2, AliveBefore
  <2>1. ASSUME NEW r \in Roles
        PROVE  /\ ~ pods'[r].terminating
               /\ pods[r].status # "absent" => pods'[r].status # "absent"
               /\ pods'[r].status # "absent" => pods'[r].owner = run.uid
               /\ pods[r].status \in Started => pods'[r].status \in Started
               /\ pods[r].status = "Succeeded" => pods'[r].status = "Succeeded"
               /\ pods[r].status # "absent" /\ pods[r].status # "Pending"
                      => pods'[r].status # "Pending"
    BY <1>2, PodsStay
  <2>2. ASSUME NEW r \in Roles
        PROVE  /\ Seen'.pods[r].status \in Started => pods'[r].status \in Started
               /\ Seen'.pods[r].status = "Succeeded" => pods'[r].status = "Succeeded"
    <3>1. CASE FreshCache
      BY <3>1 DEF Seen, Current
    <3>2. CASE ~ FreshCache
      <4>1. Seen.pods = cache.pods /\ Seen'.pods = cache'.pods
        BY <3>2 DEF Seen
      <4>2. cache'.pods = cache.pods \/ cache'.pods = pods
        BY CacheStep DEF CacheMoves
      <4>3. /\ Seen.pods[r].status \in Started => pods[r].status \in Started
            /\ Seen.pods[r].status = "Succeeded" => pods[r].status = "Succeeded"
        BY <1>2 DEF PodsKept
      <4> QED
        BY <2>1, <4>1, <4>2, <4>3
    <3> QED
      BY <3>1, <3>2
  <2>3. rc'.pc = "priming" =>
            /\ rc'.br.uid = run'.uid
            /\ \A i \in 1 .. Len(PodOrder) : i <= rc'.done => pods'[PodOrder[i]].status # "absent"
    <3> SUFFICES ASSUME rc'.pc = "priming"
                 PROVE  /\ rc'.br.uid = run'.uid
                        /\ \A i \in 1 .. Len(PodOrder) :
                               i <= rc'.done => pods'[PodOrder[i]].status # "absent"
      OBVIOUS
    <3>1. rc'.br.uid = run'.uid
      <4>1. rc.pc = "priming" => rc.br.uid = run.uid
        BY <1>2 DEF PodsKept
      <4>2. Seen.run.uid # 0 => Seen.run.uid = run.uid
        BY <1>2, AliveFacts
      <4> QED
        BY <2>0, <4>1, <4>2, RcStep, NoRunFields DEF RcMoves, ReadsPhase
    <3>2. ASSUME NEW i \in 1 .. Len(PodOrder), i <= rc'.done
          PROVE  pods'[PodOrder[i]].status # "absent"
      <4>0. /\ PodOrder[i] \in Roles /\ rc.done \in Nat /\ Len(PodOrder) \in Nat
        BY OrderFacts, RoleFacts DEF TypeOK
      <4>1. CASE rc' = rc
        BY <1>2, <2>1, <3>2, <4>0, <4>1 DEF PodsKept
      <4>2. CASE rc'.done = 0
        BY <3>2, <4>2
      <4>3. CASE rc.pc = "priming" /\ rc'.done = rc.done + 1
        <5>1. i <= rc.done \/ i = rc.done + 1
          BY <3>2, <4>0, <4>3
        <5>2. CASE i <= rc.done
          BY <1>2, <2>1, <4>0, <4>3, <5>2 DEF PodsKept
        <5>3. CASE i = rc.done + 1
          BY <3>2, <4>0, <4>3, <5>3, RcStep, NoRunFields DEF RcMoves
        <5> QED
          BY <5>1, <5>2, <5>3
      <4> QED
        BY <4>1, <4>2, <4>3, RcStep, NoRunFields DEF RcMoves
    <3> QED
      BY <3>1, <3>2
  <2>4. PastPriming' => \A r \in Roles : pods'[r].status # "absent"
    <3>1. CASE PastPriming
      BY <1>2, <2>1, <3>1 DEF PodsKept
    <3>2. CASE PastPriming' /\ ~ PastPriming
      <4>1. rc.pc = "priming" /\ rc.done = Len(PodOrder) + Len(ServiceOrder)
        BY <2>0, <3>2 DEF PastPriming, PhaseMoves
      <4>2. \A i \in 1 .. Len(PodOrder) : pods[PodOrder[i]].status # "absent"
        BY <1>2, <4>1, OrderFacts DEF PodsKept
      <4>3. \A r \in Roles : \E i \in 1 .. Len(PodOrder) : PodOrder[i] = r
        BY OrderFacts, RoleFacts
      <4> QED
        BY <2>1, <4>2, <4>3
    <3> QED
      BY <3>1, <3>2
  <2>5. PhaseMatchesPods'
    <3>1. run'.phase \in {"DRAINING", "COMPLETE"} => pods'[Coordinator].status = "Succeeded"
      <4> SUFFICES ASSUME run'.phase \in {"DRAINING", "COMPLETE"}
                   PROVE  pods[Coordinator].status = "Succeeded"
        BY <2>1, RoleFacts
      <4>1. CASE run.phase \in {"DRAINING", "COMPLETE"}
        BY <1>2, <4>1 DEF PodsKept, PhaseMatchesPods, Alive
      <4>2. CASE run.phase \notin {"DRAINING", "COMPLETE"}
        BY <1>2, <2>0, <4>2, RoleFacts DEF PhaseMoves, PodsKept
      <4> QED
        BY <4>1, <4>2
    <3>2. run'.phase \in {"RUNNING", "DRAINING", "COMPLETE"} =>
              \A r \in Roles : pods'[r].status # "Pending"
      <4> SUFFICES ASSUME run'.phase \in {"RUNNING", "DRAINING", "COMPLETE"}, NEW r \in Roles
                   PROVE  pods[r].status # "absent" /\ pods[r].status # "Pending"
        BY <2>1
      <4>1. CASE run.phase \in {"RUNNING", "DRAINING", "COMPLETE"}
        BY <1>2, <4>1 DEF PodsKept, PhaseMatchesPods, PastPriming, Alive
      <4>2. CASE run.phase \notin {"RUNNING", "DRAINING", "COMPLETE"}
        <5>1. AllOwnedPodsReady(Seen.pods)
          BY <2>0, <4>2 DEF PhaseMoves
        <5>2. ListedPods(Seen.pods) = Roles
          BY <5>1, AllListed DEF AllOwnedPodsReady, ListedPods
        <5>3. Seen.pods[r].status \in Statuses /\ Seen.pods[r].status # "absent"
          BY <5>2, SeenFacts DEF ListedPods, PodStates, Statuses
        <5>4. Seen.pods[r].status # "Pending"
          BY <5>1, <5>2 DEF AllOwnedPodsReady, PodReady
        <5> QED
          BY <1>2, <5>3, <5>4 DEF PodsKept, Started, Statuses
      <4> QED
        BY <4>1, <4>2
    <3> QED
      BY <3>1, <3>2 DEF PhaseMatchesPods
  <2> QED
    BY <2>0, <2>1, <2>2, <2>3, <2>4, <2>5 DEF PodsKept
<1> QED
  BY <1>1, <1>2, AliveBefore

-----------------------------------------------------------------------------
(***************************************************************************)
(* Services, and the theorems.                                             *)
(***************************************************************************)

LEMMA ServicesKeptInit == Init => ServicesKept
BY NoRunFields DEF Init, ServicesKept, Alive

LEMMA ServicesKeptStep ==
    ASSUME MaxCreates <= 1, TypeOK, Copies, Owned, OfThisRun, ServicesKept, [Next]_vars
    PROVE  ServicesKept'
<1> SUFFICES ASSUME Alive' PROVE ServicesKept'
  BY DEF ServicesKept
<1>0. OneAtATime
  BY DEF OneAtATime
<1>1. CASE Born
  <2>1. rc.pc # "priming"
    BY <1>0, <1>1, BornFacts
  <2>2. rc' = rc /\ run'.phase = ""
    BY <1>1 DEF Born
  <2> QED
    BY <2>1, <2>2 DEF ServicesKept, PastPriming
<1>2. CASE Alive /\ ~ Born
  <2>0. /\ run'.phase = run.phase \/ (Updated /\ PhaseMoves)
    BY <1>2, AliveBefore
  <2>1. ASSUME NEW r \in ServiceRoles, services[r] # 0
        PROVE  services'[r] # 0
    <3>1. /\ run.uid \in Nat /\ run.uid # 0 /\ run.uid <= creates /\ creates \in Nat
          /\ creates <= MaxCreates /\ MaxCreates \in Nat /\ services[r] \in 0 .. creates
      BY <1>2, BoundsAssumption DEF TypeOK, Runs, Copies, CopyOf, Alive, Owned
    <3>2. services[r] = run.uid
      BY <2>1, <3>1
    <3> QED
      BY <2>1, <3>2, ServiceStep DEF ServiceMoves
  <2>2. ASSUME rc'.pc = "priming", NEW i \in 1 .. Len(ServiceOrder), i <= rc'.done - Len(PodOrder)
        PROVE  services'[ServiceOrder[i]] # 0
    <3>0. /\ ServiceOrder[i] \in ServiceRoles /\ rc.done \in Nat /\ Len(PodOrder) \in Nat
      <4>1. i \in 1 .. NumServers
        BY OrderFacts
      <4>2. rc.done \in Nat /\ Len(PodOrder) \in Nat
        BY OrderFacts DEF TypeOK
      <4> QED
        BY <4>1, <4>2, RoleFacts
    <3>1. CASE rc' = rc
      BY <1>2, <2>1, <2>2, <3>0, <3>1 DEF ServicesKept
    <3>2. CASE rc'.done = 0
      BY <2>2, <3>0, <3>2
    <3>3. CASE /\ rc.pc = "priming" /\ rc'.done = rc.done + 1
               /\ \/ rc.done < Len(PodOrder)
                  \/ services'[ServiceOrder[rc.done + 1 - Len(PodOrder)]] # 0
      <4>1. i <= rc.done - Len(PodOrder) \/ i = rc.done + 1 - Len(PodOrder)
        BY <2>2, <3>0, <3>3
      <4>2. CASE i <= rc.done - Len(PodOrder)
        BY <1>2, <2>1, <3>0, <3>3, <4>2 DEF ServicesKept
      <4>3. CASE i = rc.done + 1 - Len(PodOrder)
        BY <3>0, <3>3, <4>3
      <4> QED
        BY <4>1, <4>2, <4>3
    <3> QED
      BY <2>2, <3>1, <3>2, <3>3, RcStep, NoRunFields DEF RcMoves
  <2>3. ASSUME PastPriming', NEW r \in ServiceRoles
        PROVE  services'[r] # 0
    <3>1. CASE PastPriming
      BY <1>2, <2>1, <3>1 DEF ServicesKept
    <3>2. CASE ~ PastPriming
      <4>1. rc.pc = "priming" /\ rc.done = Len(PodOrder) + Len(ServiceOrder)
        BY <2>0, <2>3, <3>2 DEF PastPriming, PhaseMoves
      <4>2. \A i \in 1 .. Len(ServiceOrder) : services[ServiceOrder[i]] # 0
        BY <1>2, <4>1, OrderFacts DEF ServicesKept
      <4>3. \A q \in ServiceRoles : \E i \in 1 .. Len(ServiceOrder) : ServiceOrder[i] = q
        BY OrderFacts, RoleFacts
      <4> QED
        BY <2>1, <4>2, <4>3
    <3> QED
      BY <3>1, <3>2
  <2> QED
    BY <2>2, <2>3 DEF ServicesKept
<1> QED
  BY <1>1, <1>2, AliveBefore

\* The invariant of the theorems below.
Inv == TypeOK /\ Copies /\ Owned /\ OfThisRun /\ PodsKept

LEMMA InvHolds ==
    ASSUME OneAtATime
    PROVE  Spec => []Inv
<1>1. Init => Inv
  BY TypeInit, CopiesInit, OwnedInit, PodsKeptInit DEF Inv
<1>2. Inv /\ [Next]_vars => Inv'
  BY TypeStep, CopiesStep, OwnedStep, OfThisRunStep, PodsKeptStep DEF Inv
<1> QED
  BY <1>1, <1>2, PTL DEF Spec

\* A run past ALLOCATING that nobody deletes is there.
LEMMA PastPrimingLives ==
    ASSUME Copies, ~ run.deleting,
           run.phase \in {"PRIMING", "RUNNING", "DRAINING", "COMPLETE"}
    PROVE  Alive
<1>1. run.uid = 0 => run = NoRun
  BY DEF Copies, CopyOf
<1>2. NoRun.phase = ""
  BY DEF NoRun
<1> QED
  BY <1>1, <1>2 DEF Alive

LEMMA InvHasPods == ASSUME Inv PROVE PrimedHasPods
<1> SUFFICES ASSUME PastPriming, ~ run.deleting, NEW r \in Roles
             PROVE  pods[r].status # "absent" /\ pods[r].owner = run.uid
  BY DEF PrimedHasPods
<1>1. Alive
  BY PastPrimingLives DEF PastPriming, Inv
<1> QED
  BY <1>1 DEF Inv, PodsKept

\* From PRIMING on a run that nobody deletes has all of its pods, however the
\* reconciles that created them failed, restarted or lagged.
THEOREM PrimedPods ==
    ASSUME FreshCache \/ MaxCreates <= 1
    PROVE  Spec => []PrimedHasPods
<1>1. Spec => []Inv
  BY InvHolds DEF OneAtATime
<1>2. Inv => PrimedHasPods
  BY InvHasPods
<1> QED
  BY <1>1, <1>2, PTL

\* A run is RUNNING only when no pod is pending any more, and drains only when
\* its coordinator has succeeded, although both are decided on cached pods.
THEOREM PhasesMatchPods ==
    ASSUME FreshCache \/ MaxCreates <= 1
    PROVE  Spec => []PhaseMatchesPods
<1>1. Spec => []Inv
  BY InvHolds DEF OneAtATime
<1>2. Inv => PhaseMatchesPods
  BY PastPrimingLives DEF Inv, PodsKept, PhaseMatchesPods
<1> QED
  BY <1>1, <1>2, PTL

\* From PRIMING on the only run of its name has all of its pods and services.
THEOREM PrimedComplete ==
    ASSUME MaxCreates <= 1
    PROVE  Spec => []PrimedIsComplete
<1>1. Spec => []Inv
  BY InvHolds DEF OneAtATime
<1>2. Init => ServicesKept
  BY ServicesKeptInit
<1>3. Inv /\ ServicesKept /\ [Next]_vars => ServicesKept'
  BY ServicesKeptStep DEF Inv
<1>4. Inv /\ ServicesKept => PrimedIsComplete
  <2> SUFFICES ASSUME Inv, ServicesKept, PastPriming, ~ run.deleting, NEW r \in ServiceRoles
               PROVE  services[r] = run.uid
    BY InvHasPods DEF PrimedIsComplete
  <2>1. Alive
    BY PastPrimingLives DEF PastPriming, Inv
  <2>2. /\ run.uid \in Nat /\ run.uid # 0 /\ run.uid <= creates /\ creates \in Nat
        /\ creates <= MaxCreates /\ MaxCreates \in Nat /\ services[r] \in 0 .. creates
    BY <2>1, BoundsAssumption DEF Inv, TypeOK, Runs, Copies, CopyOf, Alive, Owned
  <2>3. services[r] # 0
    BY <2>1 DEF ServicesKept
  <2> QED
    BY <2>2, <2>3
<1> QED
  BY <1>1, <1>2, <1>3, <1>4, PTL DEF Spec

=============================================================================
