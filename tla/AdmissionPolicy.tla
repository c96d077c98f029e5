-------------------------- MODULE AdmissionPolicy --------------------------
(***************************************************************************)
(* The admission-webhook: which pods the API server may create in a        *)
(* sandbox namespace (apps/admission-webhook).  A pod keeps the fields the *)
(* policy looks at; an optional Boolean is "unset", "true" or "false".     *)
(***************************************************************************)
EXTENDS Sequences

Tristate == {"unset", "true", "false"}

Containers ==
    [digest : BOOLEAN,       \* is the image named by its digest?
     context : BOOLEAN,      \* is there a securityContext?
     escalation : Tristate, readOnly : Tristate, dropsAll : BOOLEAN]

Pods ==
    [app : STRING, test : BOOLEAN, namespace : STRING,
     host : SUBSET {"network", "pid", "ipc"},
     runtimeClass : STRING, nonRoot : Tristate,
     containers : Seq(Containers), hostPath : BOOLEAN]

ContainerAllowed(c, isTest) ==
    /\ isTest \/ c.digest
    /\ c.context
    /\ c.escalation = "false"
    /\ c.readOnly = "true"
    /\ c.dropsAll

\* Validate: only pods labelled app=submission are examined.
Validate(pod) ==
    \/ pod.app # "submission"
    \/ /\ pod.namespace = "submissions"
       /\ pod.host = {}
       /\ pod.test \/ pod.runtimeClass = "gvisor"
       /\ pod.nonRoot = "true"
       /\ pod.containers # << >>
       /\ \A i \in DOMAIN pod.containers : ContainerAllowed(pod.containers[i], pod.test)
       /\ ~ pod.hostPath

\* handle: a review without a request is refused with an HTTP error, which the
\* API server treats as a denial (failurePolicy Fail); a pod that cannot be
\* decoded is denied.  `found` is the set of what the review holds.
Allowed(found, pod) == "request" \in found /\ "pod" \in found /\ Validate(pod)

-----------------------------------------------------------------------------
(***************************************************************************)
(* The pods the benchmark-operator creates: podMeta, nonRootPodSecurity-   *)
(* Context and hardenedContainerSecurityContext.                           *)
(***************************************************************************)

\* Labels are the run and the role; the submission's image is a digest, the
\* images of the platform are tags.
PodTemplate(role, ns) ==
    [app |-> "", test |-> FALSE, namespace |-> ns, host |-> {}, runtimeClass |-> "",
     nonRoot |-> "true", hostPath |-> FALSE,
     containers |-> << [digest |-> role = "submission", context |-> TRUE,
                        escalation |-> "false", readOnly |-> "true", dropsAll |-> TRUE] >>]

=============================================================================
