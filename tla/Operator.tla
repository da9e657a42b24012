-------------------------------- MODULE Operator --------------------------------
(***************************************************************************)
(* The Kubernetes operator: cmd/fiso-operator in its controller mode, the  *)
(* two reconcilers (internal/operator/controller) with their validation    *)
(* (internal/operator), and the webhook that injects the fiso-link sidecar *)
(* (internal/operator/webhook).  Users create, change and delete resources *)
(* at the API server; each replica of the operator follows them through an *)
(* informer's cache that lags, reconciles one resource of a kind at a time *)
(* out of a queue, and writes the verdict to the resource's status.        *)
(*                                                                         *)
(* The API server refuses a status whose resource version is not the       *)
(* stored one, and stores nothing when nothing changes; an error makes     *)
(* controller-runtime queue the resource again.  A resource whose config   *)
(* is no map of texts cannot be decoded: its kind's cache does not fill,   *)
(* and the manager ends after two minutes of that.  Every replica          *)
(* reconciles, as without FISO_ENABLE_LEADER_ELECTION; with it the replicas *)
(* that do are fewer, a former leader being one that has not noticed yet.  *)
(***************************************************************************)
EXTENDS Integers, Sequences, FiniteSets

CONSTANTS
    Resources,   \* names of resources
    KindOf,      \* KindOf[n]: "FlowDefinition" or "LinkTarget"
    Specs,       \* Specs[k]: what users write and the CRDs of deploy/crds let through
    Replicas,    \* the operator's replicas
    Inputs       \* what is there, the edits of each resource and the crashes that
                 \* follow (model bounds), and a pod that is submitted or none: [stored, edits, crashes, pods]

Kinds == {"FlowDefinition", "LinkTarget"}

\* A pod has its fields, and its annotations are one map at most.
IsPod(p) ==
    /\ p = [annotations |-> p.annotations, containers |-> p.containers, decodes |-> p.decodes]
    /\ p.decodes \in BOOLEAN
    /\ \A a, b \in p.annotations : a = b

ASSUME OperatorAssumption ==
    /\ KindOf \in [Resources -> Kinds]
    /\ \A i \in Inputs :
         /\ i.edits \in [Resources -> Nat] /\ i.crashes \in Nat
         /\ \A n \in Resources : i.stored[n] \in {{}} \cup {{spec} : spec \in Specs[KindOf[n]]}
         /\ \A p, o \in i.pods : p = o /\ IsPod(p)

VARIABLES
    store,    \* store[n]: {} or {[spec, status, version]}, the API server's
    version,  \* version[n]: the last resource version given to n
    edits,    \* edits[n]: number of edits of n that follow
    synced,   \* synced[r]: the kinds whose cache has filled
    informer, \* informer[r][n]: what replica r believes store[n] to be
    queue,    \* queue[r]: the resources to reconcile
    work,     \* work[r]: the Reconcile calls past Get, [name, seen]
    crashes,  \* number of crashes of replicas that follow
    pods,     \* the pod, as it is
    origin    \* the pod as it was submitted (history)

resourceVars == <<store, version, edits>>
replicaVars == <<synced, informer, queue, work, crashes>>
podVars == <<pods, origin>>
operatorVars == <<resourceVars, replicaVars, podVars>>

-----------------------------------------------------------------------------
(* Validation: the status a spec gets.                                     *)

\* What a message says is wrong, and with which value.
Error(message, value) == [phase |-> "Error", message |-> message, value |-> value]
Ready == [phase |-> "Ready", message |-> "validated and active", value |-> ""]
Pending == [phase |-> "", message |-> "", value |-> ""]

\* ValidateFlowSpec.
FlowVerdict(spec) ==
    CASE spec.source = "" -> Error("source type is required", "")
      [] spec.source # "" /\ spec.sink = "" -> Error("sink type is required", "")
      [] spec.source \notin {"", "kafka", "grpc", "http"} /\ spec.sink # "" ->
           Error("unsupported source type", spec.source)
      [] spec.source \in {"kafka", "grpc", "http"}
           /\ spec.sink \notin {"", "http", "grpc", "temporal", "kafka"} ->
           Error("unsupported sink type", spec.sink)
      [] OTHER -> Ready

\* ValidateLinkSpec.
LinkVerdict(spec) ==
    CASE spec.host = "" -> Error("host is required", "")
      [] spec.host # "" /\ spec.protocol = "" -> Error("protocol is required", "")
      [] spec.host # "" /\ spec.protocol \notin {"", "http", "https", "grpc"} ->
           Error("unsupported protocol", spec.protocol)
      [] OTHER -> Ready

Verdict(n, spec) == IF KindOf[n] = "FlowDefinition" THEN FlowVerdict(spec) ELSE LinkVerdict(spec)

\* All stored resources of a kind decode into the Go type.
Decodes(kind) == \A n \in Resources : KindOf[n] = kind => \A s \in store[n] : s.spec.decodes

-----------------------------------------------------------------------------
(* The webhook.                                                            *)

\* The annotations are a set of at most one map: none when the pod has none.
Annotation(p, key) == UNION {{a[key] : k \in {key} \cap DOMAIN a} : a \in p.annotations}

\* JSON Patch, as the API server applies it.
Apply(p, op) ==
    CASE op.path = "/spec/containers" -> [p EXCEPT !.containers = <<op.value>>]
      [] op.path = "/spec/containers/-" -> [p EXCEPT !.containers = Append(@, op.value)]
      [] op.path = "/metadata/annotations" -> [p EXCEPT !.annotations = {[k \in {"status"} |-> op.value]}]
      [] op.path = "/metadata/annotations/status" ->
           [p EXCEPT !.annotations =
              {[k \in DOMAIN a \cup {"status"} |-> IF k = "status" THEN op.value ELSE a[k]] : a \in @}]

\* buildPatch.
BuildPatch(p) ==
    <<[path |-> IF p.containers = <<>> THEN "/spec/containers" ELSE "/spec/containers/-", value |-> "fiso-link"],
      [path |-> IF p.annotations = {} THEN "/metadata/annotations" ELSE "/metadata/annotations/status",
       value |-> "injected"]>>

\* Mutant: the status annotation is not looked at.
HandleAdmission_Again(p) == IF p.decodes /\ Annotation(p, "inject") = {"true"} THEN BuildPatch(p) ELSE <<>>

\* handleAdmission: the patch, empty when the pod is left as it is.
HandleAdmission(p) ==
    IF p.decodes /\ Annotation(p, "inject") = {"true"} /\ Annotation(p, "status") # {"injected"}
    THEN BuildPatch(p) ELSE <<>>

-----------------------------------------------------------------------------

OperatorInit ==
    /\ \E i \in Inputs :
         /\ store = [n \in Resources |->
                       {[spec |-> spec, status |-> Pending, version |-> 1] : spec \in i.stored[n]}]
         /\ version = [n \in Resources |-> Cardinality(i.stored[n])]
         /\ edits = i.edits /\ crashes = i.crashes
         /\ pods = i.pods /\ origin = i.pods
    /\ synced = [r \in Replicas |-> {}]
    /\ informer = [r \in Replicas |-> [n \in Resources |-> {}]]
    /\ queue = [r \in Replicas |-> {}] /\ work = [r \in Replicas |-> {}]

-----------------------------------------------------------------------------
(* Users at the API server.                                                *)

\* A resource is created, or its spec changes: the status stays.
Write(n, spec) ==
    /\ edits[n] > 0
    /\ \A s \in store[n] : s.spec # spec
    /\ version' = [version EXCEPT ![n] = @ + 1]
    /\ store' = [store EXCEPT ![n] = {[spec |-> spec, version |-> version'[n],
                    status |-> IF @ = {} THEN Pending ELSE (CHOOSE s \in @ : TRUE).status]}]
    /\ edits' = [edits EXCEPT ![n] = @ - 1]
    /\ UNCHANGED <<replicaVars, podVars>>

Delete(n) ==
    /\ edits[n] > 0
    /\ store[n] # {}
    /\ store' = [store EXCEPT ![n] = {}]
    /\ edits' = [edits EXCEPT ![n] = @ - 1]
    /\ UNCHANGED <<version, replicaVars, podVars>>

\* The pod is admitted: the first time, or again when another webhook changed it.
\* The API server is one that takes the text of the patch as it is, not in base64.
Admit ==
    /\ \E p \in pods :
         LET patch == HandleAdmission(p)
         IN  patch # <<>> /\ pods' = {Apply(Apply(p, patch[1]), patch[2])}
    /\ UNCHANGED <<resourceVars, replicaVars, origin>>

-----------------------------------------------------------------------------
(* A replica of the operator.                                              *)

\* The process ends and forgets everything; the next one does as runController
\* says and waits for its caches.
Restart(r) ==
    /\ synced' = [synced EXCEPT ![r] = {}]
    /\ informer' = [informer EXCEPT ![r] = [n \in Resources |-> {}]]
    /\ queue' = [queue EXCEPT ![r] = {}]
    /\ work' = [work EXCEPT ![r] = {}]

Crash(r) ==
    /\ crashes > 0
    /\ crashes' = crashes - 1
    /\ Restart(r)
    /\ UNCHANGED <<resourceVars, podVars>>

\* A cache has not filled in two minutes: mgr.Start returns an error.
SyncTimesOut(r) ==
    /\ \E k \in Kinds \ synced[r] : ~Decodes(k)
    /\ Restart(r)
    /\ UNCHANGED <<resourceVars, crashes, podVars>>

\* The cache of a kind fills and its controller starts: what is there is queued.
Sync(r, k) ==
    /\ k \notin synced[r]
    /\ Decodes(k)
    /\ synced' = [synced EXCEPT ![r] = @ \cup {k}]
    /\ informer' = [informer EXCEPT ![r] = [n \in Resources |-> IF KindOf[n] = k THEN store[n] ELSE @[n]]]
    /\ queue' = [queue EXCEPT ![r] = @ \cup {n \in Resources : KindOf[n] = k /\ store[n] # {}}]
    /\ UNCHANGED <<resourceVars, work, crashes, podVars>>

\* The watch brings the cache up to date with a resource and queues it.
Observe(r, n) ==
    /\ KindOf[n] \in synced[r]
    /\ informer[r][n] # store[n] /\ \A s \in store[n] : s.spec.decodes
    /\ informer' = [informer EXCEPT ![r][n] = store[n]]
    /\ queue' = [queue EXCEPT ![r] = @ \cup {n}]
    /\ UNCHANGED <<resourceVars, synced, work, crashes, podVars>>

\* Reconcile reads the resource from the cache; a deleted one is done.  Each
\* controller has one worker.
Get(r, n) ==
    /\ n \in queue[r] /\ \A w \in work[r] : KindOf[w.name] # KindOf[n]
    /\ queue' = [queue EXCEPT ![r] = @ \ {n}]
    /\ work' = [work EXCEPT ![r] = @ \cup {[name |-> n, seen |-> s] : s \in informer[r][n]}]
    /\ UNCHANGED <<resourceVars, synced, informer, crashes, podVars>>

\* The call returns: an error makes it come again.
Returns(r, w, error) ==
    /\ work' = [work EXCEPT ![r] = @ \ {w}]
    /\ queue' = IF error THEN [queue EXCEPT ![r] = @ \cup {w.name}] ELSE queue

\* The status of a resource is stored, if there is anything new in it.
Stores(n, s, status) ==
    IF s.status = status THEN UNCHANGED <<store, version>>
    ELSE /\ version' = [version EXCEPT ![n] = @ + 1]
         /\ store' = [store EXCEPT ![n] = {[s EXCEPT !.status = status, !.version = version'[n]]}]

\* The versions of the stored resource that the call's copy still is.
Current(w) == {s \in store[w.name] : s.version = w.seen.version}

\* Mutant: a conflict is resolved by writing the verdict over the newer resource.
UpdateStatus_Overwrites(r, w) ==
    /\ \E s \in store[w.name] : Stores(w.name, s, Verdict(w.name, w.seen.spec))
    /\ Returns(r, w, FALSE)
    /\ UNCHANGED <<edits, synced, informer, crashes, podVars>>

\* Status().Update with the resource as it was read.
UpdateStatus(r, w) ==
    /\ \E s \in Current(w) : Stores(w.name, s, Verdict(w.name, w.seen.spec))
    /\ Returns(r, w, FALSE)
    /\ UNCHANGED <<edits, synced, informer, crashes, podVars>>

\* Mutant: an error status that cannot be written is only logged.
UpdateFails_LogOnly(r, w) ==
    /\ \/ UNCHANGED <<store, version>>
       \/ \E s \in Current(w) : Stores(w.name, s, Verdict(w.name, w.seen.spec))
    /\ Returns(r, w, Verdict(w.name, w.seen.spec).phase = "Ready")
    /\ UNCHANGED <<edits, synced, informer, crashes, podVars>>

\* The update is refused, for its version or because the resource is gone, or
\* fails, stored or not: Reconcile returns the error.
UpdateFails(r, w) ==
    /\ \/ UNCHANGED <<store, version>>
       \/ \E s \in Current(w) : Stores(w.name, s, Verdict(w.name, w.seen.spec))
    /\ Returns(r, w, TRUE)
    /\ UNCHANGED <<edits, synced, informer, crashes, podVars>>

Users == \E n \in Resources : Delete(n) \/ \E spec \in Specs[KindOf[n]] : Write(n, spec)

Replica(r) ==
    \/ Crash(r) \/ SyncTimesOut(r)
    \/ \E k \in Kinds : Sync(r, k)
    \/ \E n \in Resources : Observe(r, n) \/ Get(r, n)
    \/ \E w \in work[r] : UpdateStatus(r, w) \/ UpdateFails(r, w)

OperatorNext == Users \/ Admit \/ \E r \in Replicas : Replica(r)

\* A replica runs and is told of changes; a worker takes what is queued; an
\* update that is tried again and again, with the right version, is served now
\* and then.  Users and failures owe nothing.
Fairness ==
    \A r \in Replicas :
        /\ \A k \in Kinds : WF_operatorVars(Sync(r, k))
        /\ \A n \in Resources :
             /\ WF_operatorVars(Observe(r, n))
             /\ SF_operatorVars(Get(r, n))
             /\ WF_operatorVars(\E w \in work[r] : w.name = n /\ (UpdateStatus(r, w) \/ UpdateFails(r, w)))
             /\ SF_operatorVars(\E w \in work[r] : w.name = n /\ UpdateStatus(r, w))

OperatorSpec == OperatorInit /\ [][OperatorNext]_operatorVars /\ Fairness

-----------------------------------------------------------------------------
(* Correctness.                                                            *)

OperatorTypeOK ==
    /\ version \in [Resources -> Nat]
    /\ \A n \in Resources : \A s \in store[n] : s.version \in 1..version[n]
    /\ synced \in [Replicas -> SUBSET Kinds]
    /\ queue \in [Replicas -> SUBSET Resources]
    /\ \A r \in Replicas : \A w \in work[r] : w.name \in Resources /\ Cardinality(work[r]) <= 2

\* README.md:1502: once users leave a resource alone, its status is the verdict on
\* its spec for good, through stale caches, conflicts between replicas, failed
\* updates and crashes, unless some resource cannot be decoded (Reconcile).
StatusSettles ==
    \A n \in Resources :
        <>[](\/ \E k \in Kinds : ~Decodes(k)
             \/ \A s \in store[n] : s.status = Verdict(n, s.spec))

\* A status is only ever changed to the verdict on the spec it is stored with,
\* never to that on a spec the writer saw earlier or on a resource of that name
\* that is gone (Reconcile updates the copy it read).
VerdictOfItsSpec ==
    [][\A n \in Resources : \A old \in store[n], new \in store'[n] :
          new.status # old.status => new.spec = old.spec /\ new.status = Verdict(n, new.spec)]_operatorVars

\* README.md:1525: however often a pod is admitted, it keeps its containers and
\* annotations and gets at most one sidecar, and only when it asked for it
\* (handleAdmission, buildPatch).
SidecarOnce ==
    pods # origin => \A p \in pods, o \in origin :
        /\ Annotation(o, "inject") = {"true"}
        /\ p.containers = Append(o.containers, "fiso-link")
        /\ Annotation(p, "inject") = {"true"} /\ Annotation(p, "status") = {"injected"}
=============================================================================
