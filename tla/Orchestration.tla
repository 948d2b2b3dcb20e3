---------------------------- MODULE Orchestration ----------------------------
(***************************************************************************)
(* OrchestratorManager.create_infrastructure and                           *)
(* delete_orchestration_network (src/retina/orchestrator), run by several  *)
(* processes against one Kubernetes namespace.                             *)
(*                                                                         *)
(* The processes share nothing but the API server.  A ConfigMap whose name *)
(* is derived from a resource, a resource space or a port is the lock of   *)
(* that resource: the name is unique, so the create call is the test and   *)
(* set, and the annotation orch_id is the owner.  One action is one API    *)
(* call, or one step of the environment (the kubelets, the clock).         *)
(***************************************************************************)
EXTENDS Naturals, Sequences, FiniteSets

CONSTANTS
    Orch,             \* calls of create_infrastructure, one per process
    NoOne,            \* the owner of a ConfigMap that does not exist
    ClusterResource,  \* licences, remote radios, APIs: one lock each
    Space,            \* resource spaces: one lock for all their node resources
    Port,             \* the port numbers of the port service
    Pod,              \* the request_reservations of all the requests
    PodsOf,           \* PodsOf[o]: the request_reservation_list of o
    Wanted,           \* Wanted[p]: per cluster resource asked, what may serve it
    NodeItems,        \* NodeItems[o]: the pod of each node resource o asks for
    Fits,             \* Fits[o]: the spaces that can serve all of NodeItems[o]
    NofPorts,         \* NofPorts[p]: the agent ports of p
    NofExtraPorts,    \* MAX_NUMBER_OF_EXTRA_PORTS: more ports for every pod
    FaultKinds,       \* the kinds of failure that happen (see Fault)
    MaxFaults         \* bound: how many of them

Lock == ClusterResource \cup Space \cup Port

ASSUME OrchAssumption == NoOne \notin Orch

ASSUME RequestAssumption ==
    /\ PodsOf \in [Orch -> Seq(Pod)]
    /\ \A o1, o2 \in Orch : \A i \in DOMAIN PodsOf[o1], j \in DOMAIN PodsOf[o2] :
            PodsOf[o1][i] = PodsOf[o2][j] => o1 = o2 /\ i = j
    /\ Wanted \in [Pod -> Seq(SUBSET ClusterResource)]
    /\ NodeItems \in [Orch -> Seq(Pod)]
    /\ \A o \in Orch : \A i \in DOMAIN NodeItems[o] : \E j \in DOMAIN PodsOf[o] :
            NodeItems[o][i] = PodsOf[o][j]
    /\ Fits \in [Orch -> SUBSET Space]
    /\ NofPorts \in [Pod -> Nat]
    /\ NofExtraPorts \in Nat
    /\ MaxFaults \in Nat

\* The names of the ConfigMaps that are not locks.  The name of a resource
\* data ConfigMap is a salted hash, so it belongs to one process.
OrchId(o)       == <<"orchid", o>>
DataOf(o, x)    == <<"rdata", o, x>>
NodeData(o)     == Space \X DOMAIN NodeItems[o]
Name == Lock \cup {OrchId(o) : o \in Orch}
             \cup UNION {{DataOf(o, x) : x \in ClusterResource \cup Pod \cup NodeData(o)} : o \in Orch}

\* The prefix, or for ids and ports the suffix, of a name says what it is for: no id
\* and no data ConfigMap is named as a lock.
ASSUME NameAssumption ==
    \A o \in Orch :
        /\ OrchId(o) \notin Lock
        /\ \A x \in ClusterResource \cup Pod \cup NodeData(o) : DataOf(o, x) \notin Lock

VARIABLES
    cm,         \* the ConfigMaps: name -> orch_id of its annotation, or NoOne
    faults,     \* failures so far
    pc,         \* where the main thread of each process is
    cur,        \* index of the request_reservation being served
    unseen,     \* resources whose availability this pass has not read yet
    free,       \* resources read as available (then: spaces left to try)
    plan,       \* the matched resources, in the order of the request
    item,       \* index of the matched resource being reserved
    expired,    \* the deadline of the TimeoutHandler has passed, or cancel()
    attempts,   \* cleanups the process still makes if one raises
    victims,    \* what the cleanup has listed and not deleted yet
    reserved,   \* add_reserved_resource_list: what each pod was given
    worker,     \* the thread that creates each pod
    ports,      \* the ports each pod was given
    asking,     \* the threads of get_ports that have no port yet
    tried,      \* what each of them has popped from its possible_ports
    object,     \* the Pod object in the API server
    container   \* the containers of the pod run on the node

passVars   == <<unseen, free>>
planVars   == <<plan, item>>
workerVars == <<worker, ports, asking, tried>>
podVars    == <<object, container>>
vars == <<cm, faults, pc, cur, passVars, planVars, expired, attempts, victims,
          reserved, workerVars, podVars>>

MyPods(o) == {PodsOf[o][i] : i \in DOMAIN PodsOf[o]}
CurPod(o) == PodsOf[o][cur[o]]
SpaceUsers(o) == {NodeItems[o][i] : i \in DOMAIN NodeItems[o]}

Phase == {"id", "request", "cluster", "look", "lock", "data",
          "node", "nodelook", "nodelock", "nodedata", "service",
          "pods", "shutdown", "up", "cleanup", "delpods", "delcm",
          "done", "crashed"}
WorkerState == {"queued", "ports", "extra", "data", "create", "sched", "copy", "check",
                "ready", "raised", "cancelled"}
PodState == {"none", "pending", "failed", "running", "terminating"}

Init ==
    /\ cm = [n \in Name |-> NoOne]
    /\ faults = 0
    /\ pc = [o \in Orch |-> "id"]
    /\ cur = [o \in Orch |-> 1]
    /\ unseen = [o \in Orch |-> {}]
    /\ free = [o \in Orch |-> {}]
    /\ plan = [o \in Orch |-> <<>>]
    /\ item = [o \in Orch |-> 1]
    /\ expired = [o \in Orch |-> FALSE]
    /\ attempts = [o \in Orch |-> 0]
    /\ victims = [o \in Orch |-> {}]
    /\ reserved = [p \in Pod |-> {}]
    /\ worker = [p \in Pod |-> "queued"]
    /\ ports = [p \in Pod |-> {}]
    /\ asking = [p \in Pod |-> {}]
    /\ tried = [p \in Pod |-> {}]
    /\ object = [p \in Pod |-> "none"]
    /\ container = [p \in Pod |-> FALSE]

-----------------------------------------------------------------------------
(* The API server.                                                         *)

\* A failure of kind k, while the budget lasts:
\*   "status"  a call is answered with an error status, nothing is applied
\*   "lost"    a call raises, whether or not it was applied
\*   "list"    a list call raises in the cleanup
\*   "delete"  a delete is refused and reported as OK
\*   "slow"    a pod outlives its grace period and is deleted by force
\*   "reject"  the kubelet refuses a pod, or an image cannot be pulled
\*   "crash"   a process dies
Fault(k) == k \in FaultKinds /\ faults < MaxFaults /\ faults' = faults + 1

\* Variant for the mutation runs: a create that replaces what is there.
CreatedOrReplaced(o, n) ==
    /\ cm' = [cm EXCEPT ![n] = o]
    /\ UNCHANGED faults

\* The create was applied and answered OK.
Created(o, n) ==
    /\ cm[n] = NoOne
    /\ cm' = [cm EXCEPT ![n] = o]
    /\ UNCHANGED faults

\* The create was answered NAME_DUPLICATED or OTHER.
Refused(n) ==
    /\ \/ cm[n] # NoOne /\ UNCHANGED faults
       \/ Fault("status")
    /\ UNCHANGED cm

\* The create raised; the server may have applied it.
CreateRaised(o, n) ==
    /\ Fault("lost")
    /\ \/ UNCHANGED cm
       \/ cm[n] = NoOne /\ cm' = [cm EXCEPT ![n] = o]

\* Variant for the mutation runs: the loops do not look at the clock.
NeverReached(o) == TRUE

\* TimeoutHandler.not_reached and get_remaining_timeout: FALSE stands for the
\* TimeoutError they raise.
NotReached(o) == ~expired[o]

Goto(o, phase) == pc' = [pc EXCEPT ![o] = phase]

\* Variant for the mutation runs: the cleanup is retried once too often.
RaiseAndRetry(o) ==
    /\ pc' = [pc EXCEPT ![o] = "cleanup"]
    /\ attempts' = [attempts EXCEPT ![o] = 3]

\* An exception leaves the try of create_infrastructure: one cleanup there, and
\* a second one by the caller's finally if the first one raises.
Raise(o) ==
    /\ pc' = [pc EXCEPT ![o] = "cleanup"]
    /\ attempts' = [attempts EXCEPT ![o] = 2]

-----------------------------------------------------------------------------
(* The main thread: reserving cluster resources, one request after another, *)
(* keeping what it has while it waits for more.                            *)

\* get_orchestration_network_id: a refused create is retried with another
\* random id.  Outside the try: an exception here is followed by no cleanup.
CreateOrchId(o) ==
    /\ pc[o] = "id"
    /\ \/ Created(o, OrchId(o)) /\ Goto(o, "request")
       \/ Fault("status") /\ UNCHANGED <<cm, pc>>
       \/ CreateRaised(o, OrchId(o)) /\ Goto(o, "done")
    /\ UNCHANGED <<cur, passVars, planVars, expired, attempts, victims, reserved, workerVars, podVars>>

\* parse_request and get_pool_request_reservation_from_config.
ParseRequest(o) ==
    /\ pc[o] = "request"
    /\ \/ Goto(o, "cluster") /\ UNCHANGED <<faults, attempts>>
       \/ Fault("lost") /\ Raise(o)
    /\ UNCHANGED <<cm, cur, passVars, planVars, expired, victims, reserved, workerVars, podVars>>

\* The head of the loop of reserve_cluster_resources.
StartClusterPass(o) ==
    /\ pc[o] = "cluster"
    /\ \/ /\ cur[o] > Len(PodsOf[o])
          /\ Goto(o, "node")
          /\ UNCHANGED <<cur, passVars, attempts>>
       \/ /\ cur[o] <= Len(PodsOf[o]) /\ Wanted[CurPod(o)] = <<>>
          /\ cur' = [cur EXCEPT ![o] = @ + 1]
          /\ UNCHANGED <<pc, passVars, attempts>>
       \/ /\ cur[o] <= Len(PodsOf[o]) /\ Wanted[CurPod(o)] # <<>> /\ ~NotReached(o)
          /\ Raise(o)
          /\ UNCHANGED <<cur, passVars>>
       \/ /\ cur[o] <= Len(PodsOf[o]) /\ Wanted[CurPod(o)] # <<>> /\ NotReached(o)
          /\ Goto(o, "look")
          /\ unseen' = [unseen EXCEPT ![o] = ClusterResource]
          /\ free' = [free EXCEPT ![o] = {}]
          /\ UNCHANGED <<cur, attempts>>
    /\ UNCHANGED <<cm, faults, planVars, expired, victims, reserved, workerVars, podVars>>

\* get_available_resources: is_available lists the ConfigMaps once for each
\* resource, so a pass mixes answers of different moments.
ReadAvailability(o) ==
    /\ pc[o] \in {"look", "nodelook"}
    /\ \/ \E x \in unseen[o] :
            /\ unseen' = [unseen EXCEPT ![o] = @ \ {x}]
            /\ free' = [free EXCEPT ![o] = IF cm[x] = NoOne THEN @ \cup {x} ELSE @]
            /\ UNCHANGED <<pc, faults, attempts>>
       \/ unseen[o] # {} /\ Fault("lost") /\ Raise(o) /\ UNCHANGED passVars
    /\ UNCHANGED <<cm, cur, planVars, expired, victims, reserved, workerVars, podVars>>

\* get_match_resources: a distinct resource of S for every resource asked.
Matches(p, S) ==
    {m \in [DOMAIN Wanted[p] -> S] :
        /\ \A i \in DOMAIN Wanted[p] : m[i] \in Wanted[p][i]
        /\ \A i, j \in DOMAIN Wanted[p] : i # j => m[i] # m[j]}

MatchCluster(o) ==
    /\ pc[o] = "look" /\ unseen[o] = {}
    /\ \/ /\ Matches(CurPod(o), ClusterResource) = {}
          /\ Raise(o)
          /\ UNCHANGED planVars
       \/ /\ Matches(CurPod(o), ClusterResource) # {}
          /\ Matches(CurPod(o), free[o]) = {}
          /\ Goto(o, "cluster")
          /\ UNCHANGED <<planVars, attempts>>
       \/ /\ Matches(CurPod(o), free[o]) # {} /\ ~NotReached(o)
          /\ Raise(o)
          /\ UNCHANGED planVars
       \/ /\ NotReached(o)
          /\ \E m \in Matches(CurPod(o), free[o]) : plan' = [plan EXCEPT ![o] = m]
          /\ item' = [item EXCEPT ![o] = 1]
          /\ Goto(o, "lock")
          /\ UNCHANGED attempts
    /\ UNCHANGED <<cm, faults, cur, passVars, expired, victims, reserved, workerVars, podVars>>

\* ResourceList.reserve stops at the first failure and gives nothing back: the
\* next pass finds the resources it holds itself not available.
LockResource(o) ==
    /\ pc[o] = "lock"
    /\ LET r == plan[o][item[o]] IN
        \/ Created(o, r) /\ Goto(o, "data") /\ UNCHANGED attempts
        \/ Refused(r) /\ Goto(o, "cluster") /\ UNCHANGED attempts
        \/ CreateRaised(o, r) /\ Raise(o)
    /\ UNCHANGED <<cur, passVars, planVars, expired, victims, reserved, workerVars, podVars>>

\* What the plan of o names.
Planned(o) == {plan[o][i] : i \in DOMAIN plan[o]}

\* The data ConfigMap of the resource just locked; after the last resource,
\* add_reserved_resource_list and the next request.
CreateResourceData(o) ==
    /\ pc[o] = "data"
    /\ LET d == DataOf(o, plan[o][item[o]]) IN
        \/ /\ Created(o, d) /\ item[o] < Len(plan[o])
           /\ item' = [item EXCEPT ![o] = @ + 1]
           /\ Goto(o, "lock")
           /\ UNCHANGED <<cur, attempts, reserved>>
        \/ /\ Created(o, d) /\ item[o] >= Len(plan[o])
           /\ reserved' = [reserved EXCEPT ![CurPod(o)] = @ \cup Planned(o)]
           /\ cur' = [cur EXCEPT ![o] = @ + 1]
           /\ Goto(o, "cluster")
           /\ UNCHANGED <<item, attempts>>
        \/ Refused(d) /\ Goto(o, "cluster") /\ UNCHANGED <<item, cur, attempts, reserved>>
        \/ CreateRaised(o, d) /\ Raise(o) /\ UNCHANGED <<item, cur, reserved>>
    /\ UNCHANGED <<passVars, plan, expired, victims, workerVars, podVars>>

-----------------------------------------------------------------------------
(* The main thread: one resource space for all the node resources.         *)

\* The head of the loop of reserve_node_resources.
StartNodePass(o) ==
    /\ pc[o] = "node"
    /\ \/ NodeItems[o] = <<>> /\ Goto(o, "service") /\ UNCHANGED <<passVars, attempts>>
       \/ NodeItems[o] # <<>> /\ ~NotReached(o) /\ Raise(o) /\ UNCHANGED passVars
       \/ /\ NodeItems[o] # <<>> /\ NotReached(o)
          /\ Goto(o, "nodelook")
          /\ unseen' = [unseen EXCEPT ![o] = Space]
          /\ free' = [free EXCEPT ![o] = {}]
          /\ UNCHANGED attempts
    /\ UNCHANGED <<cm, faults, cur, planVars, expired, victims, reserved, workerVars, podVars>>

\* _calculate_resource_space_from_request: the available spaces that serve the
\* whole request, tried in a random order.
MatchSpaces(o) ==
    /\ pc[o] = "nodelook" /\ unseen[o] = {}
    /\ free' = [free EXCEPT ![o] = @ \cap Fits[o]]
    /\ Goto(o, "nodelock")
    /\ UNCHANGED <<cm, faults, cur, unseen, planVars, expired, attempts, victims,
                   reserved, workerVars, podVars>>

\* reserve_space_configmap on the next space of the list; after the last one,
\* sleep and another pass.
LockSpace(o) ==
    /\ pc[o] = "nodelock"
    /\ \/ free[o] = {} /\ Goto(o, "node") /\ UNCHANGED <<cm, faults, free, planVars, attempts>>
       \/ free[o] # {} /\ ~NotReached(o) /\ Raise(o) /\ UNCHANGED <<cm, faults, free, planVars>>
       \/ /\ NotReached(o)
          /\ \E s \in free[o] :
              /\ free' = [free EXCEPT ![o] = @ \ {s}]
              /\ \/ /\ Created(o, s)
                    /\ plan' = [plan EXCEPT ![o] = <<s>>]
                    /\ item' = [item EXCEPT ![o] = 1]
                    /\ Goto(o, "nodedata")
                    /\ UNCHANGED attempts
                 \/ Refused(s) /\ UNCHANGED <<pc, planVars, attempts>>
                 \/ CreateRaised(o, s) /\ Raise(o) /\ UNCHANGED planVars
    /\ UNCHANGED <<cur, unseen, expired, victims, reserved, workerVars, podVars>>

\* The data ConfigMaps of the node resources in the space just locked.  If one
\* is refused, the next space of the list is tried and this one stays locked.
CreateNodeData(o) ==
    /\ pc[o] = "nodedata"
    /\ LET d == DataOf(o, <<plan[o][1], item[o]>>) IN
        \/ /\ item[o] = 1 /\ ~NotReached(o)
           /\ Raise(o)
           /\ UNCHANGED <<cm, faults, item, reserved>>
        \/ /\ (item[o] = 1 => NotReached(o))
           /\ \/ /\ Created(o, d) /\ item[o] < Len(NodeItems[o])
                 /\ item' = [item EXCEPT ![o] = @ + 1]
                 /\ UNCHANGED <<pc, attempts, reserved>>
              \/ /\ Created(o, d) /\ item[o] >= Len(NodeItems[o])
                 /\ reserved' = [p \in Pod |-> IF p \in SpaceUsers(o)
                                               THEN reserved[p] \cup Planned(o) ELSE reserved[p]]
                 /\ Goto(o, "service")
                 /\ UNCHANGED <<item, attempts>>
              \/ Refused(d) /\ Goto(o, "nodelock") /\ UNCHANGED <<item, attempts, reserved>>
              \/ CreateRaised(o, d) /\ Raise(o) /\ UNCHANGED <<item, reserved>>
    /\ UNCHANGED <<cur, passVars, plan, expired, victims, workerVars, podVars>>

\* create_port_infrastructure.
EnsurePortService(o) ==
    /\ pc[o] = "service"
    /\ \/ Goto(o, "pods") /\ UNCHANGED <<faults, attempts>>
       \/ Fault("lost") /\ Raise(o)
    /\ cur' = [cur EXCEPT ![o] = 1]
    /\ UNCHANGED <<cm, passVars, planVars, expired, victims, reserved, workerVars, podVars>>

-----------------------------------------------------------------------------
(* The threads that create the pods, side by side.                         *)

SetWorker(p, state) == worker' = [worker EXCEPT ![p] = state]

\* Threads go on wherever the main thread is, as long as the process lives.
Running(o) == pc[o] # "crashed"

\* The executor of get_ports: one thread for each of n ports.
AskPorts(p, n) == asking' = [asking EXCEPT ![p] = 1..n]

StartWorker(o, p) ==
    /\ pc[o] = "pods" /\ worker[p] = "queued"
    /\ SetWorker(p, "ports")
    /\ AskPorts(p, NofPorts[p])
    /\ UNCHANGED <<cm, faults, pc, cur, passVars, planVars, expired, attempts, victims,
                   reserved, ports, tried, podVars>>

\* The thread i has returned or raised.
StopAsking(p, i) ==
    /\ asking' = [asking EXCEPT ![p] = @ \ {i}]
    /\ tried' = [tried EXCEPT ![p] = {t \in @ : t[1] # i}]

\* reserve_port: random ports until a create succeeds; randint raises when no
\* port is left.  No step of this loop looks at the timeout.
ReservePort(o, p) ==
    /\ Running(o)
    /\ \E i \in asking[p] :
        \/ \E x \in Port :
            /\ <<i, x>> \notin tried[p]
            /\ \/ /\ Created(o, x)
                  /\ ports' = [ports EXCEPT ![p] = @ \cup {x}]
                  /\ StopAsking(p, i)
               \/ /\ Refused(x)
                  /\ tried' = [tried EXCEPT ![p] = @ \cup {<<i, x>>}]
                  /\ UNCHANGED <<asking, ports>>
               \/ CreateRaised(o, x) /\ StopAsking(p, i) /\ UNCHANGED ports
        \/ /\ \A x \in Port : <<i, x>> \in tried[p]
           /\ StopAsking(p, i)
           /\ UNCHANGED <<cm, faults, ports>>
    /\ UNCHANGED <<pc, cur, passVars, planVars, expired, attempts, victims, reserved, worker, podVars>>

\* get_ports returns, or raises if a thread did, when all threads are done: first
\* the agent ports, then the extra ports.
GetPorts(o, p) ==
    /\ Running(o) /\ asking[p] = {}
    /\ \/ /\ worker[p] = "ports" /\ Cardinality(ports[p]) = NofPorts[p]
          /\ SetWorker(p, "extra")
          /\ AskPorts(p, NofExtraPorts)
       \/ /\ worker[p] = "extra" /\ Cardinality(ports[p]) = NofPorts[p] + NofExtraPorts
          /\ SetWorker(p, "data")
          /\ UNCHANGED asking
       \/ /\ \/ worker[p] = "ports" /\ Cardinality(ports[p]) # NofPorts[p]
             \/ worker[p] = "extra" /\ Cardinality(ports[p]) # NofPorts[p] + NofExtraPorts
          /\ SetWorker(p, "raised")
          /\ UNCHANGED asking
    /\ UNCHANGED <<cm, faults, pc, cur, passVars, planVars, expired, attempts, victims,
                   reserved, ports, tried, podVars>>

\* create_resource_data_configmap of the pod; the result is not looked at.
CreatePodData(o, p) ==
    /\ Running(o) /\ worker[p] = "data"
    /\ \/ ~NotReached(o) /\ SetWorker(p, "raised") /\ UNCHANGED <<cm, faults>>
       \/ /\ NotReached(o)
          /\ LET d == DataOf(o, p) IN
              \/ (Created(o, d) \/ Refused(d)) /\ SetWorker(p, "create")
              \/ CreateRaised(o, d) /\ SetWorker(p, "raised")
    /\ UNCHANGED <<pc, cur, passVars, planVars, expired, attempts, victims, reserved,
                   ports, asking, tried, podVars>>

\* create_pod_until_scheduled, the outer loop: the result of the create is not
\* looked at either, a pod that is not there is created again.
CreatePod(o, p) ==
    /\ Running(o) /\ worker[p] = "create"
    /\ \/ ~NotReached(o) /\ SetWorker(p, "raised") /\ UNCHANGED <<faults, object>>
       \/ /\ NotReached(o)
          /\ object' = [object EXCEPT ![p] = IF @ = "none" THEN "pending" ELSE @]
          /\ SetWorker(p, "sched")
          /\ UNCHANGED faults
       \/ NotReached(o) /\ Fault("status") /\ SetWorker(p, "sched") /\ UNCHANGED object
       \/ /\ NotReached(o) /\ Fault("lost")
          /\ object' \in {object, [object EXCEPT ![p] = IF @ = "none" THEN "pending" ELSE @]}
          /\ SetWorker(p, "raised")
    /\ UNCHANGED <<cm, pc, cur, passVars, planVars, expired, attempts, victims, reserved,
                   ports, asking, tried, container>>

\* create_pod_until_scheduled, the inner loop: a failed pod is deleted and
\* awaited, a pod that is gone is created again, one that runs is returned.
WatchPod(o, p) ==
    /\ Running(o) /\ worker[p] = "sched"
    /\ \/ ~NotReached(o) /\ SetWorker(p, "raised") /\ UNCHANGED <<faults, object>>
       \/ NotReached(o) /\ object[p] = "none" /\ SetWorker(p, "create") /\ UNCHANGED <<faults, object>>
       \/ NotReached(o) /\ object[p] = "running" /\ SetWorker(p, "copy") /\ UNCHANGED <<faults, object>>
       \/ /\ NotReached(o) /\ object[p] = "failed"
          /\ object' = [object EXCEPT ![p] = "terminating"]
          /\ UNCHANGED <<faults, worker>>
       \/ /\ NotReached(o)
          /\ (object[p] = "pending" /\ Fault("reject")) \/ Fault("lost")
          /\ SetWorker(p, "raised")
          /\ UNCHANGED object
    /\ UNCHANGED <<cm, pc, cur, passVars, planVars, expired, attempts, victims, reserved,
                   ports, asking, tried, container>>

\* get_pod_ip, the address of the service and copy_binaries.
CopyBinaries(o, p) ==
    /\ Running(o) /\ worker[p] = "copy"
    /\ \/ SetWorker(p, "check") /\ UNCHANGED faults
       \/ Fault("lost") /\ SetWorker(p, "raised")
    /\ UNCHANGED <<cm, pc, cur, passVars, planVars, expired, attempts, victims, reserved,
                   ports, asking, tried, podVars>>

\* check_pod_port_list: until the agent listens or the time is over.
CheckPodPorts(o, p) ==
    /\ Running(o) /\ worker[p] = "check"
    /\ \/ ~NotReached(o) /\ SetWorker(p, "raised")
       \/ NotReached(o) /\ container[p] /\ SetWorker(p, "ready")
    /\ UNCHANGED <<cm, faults, pc, cur, passVars, planVars, expired, attempts, victims,
                   reserved, ports, asking, tried, podVars>>

-----------------------------------------------------------------------------
(* The main thread: waiting for the pods, the use, the cleanup.            *)

\* shutdown(cancel_futures=True) cancels the threads that have not started.
CancelFutures(o) ==
    worker' = [p \in Pod |-> IF p \in MyPods(o) /\ worker[p] = "queued"
                             THEN "cancelled" ELSE worker[p]]

\* Variant for the mutation runs: an exception of the thread is dropped.
HasResultOrRaised(p) == worker[p] \in {"ready", "raised"}

\* future.result() returns a pod.
HasResult(p) == worker[p] = "ready"

\* The results are awaited in the order of the request; after the last one, or
\* at the first exception, the timeout is cancelled for the other threads.
AwaitPods(o) ==
    /\ pc[o] = "pods"
    /\ \/ /\ cur[o] <= Len(PodsOf[o]) /\ HasResult(CurPod(o))
          /\ cur' = [cur EXCEPT ![o] = @ + 1]
          /\ UNCHANGED <<pc, expired, worker>>
       \/ /\ cur[o] <= Len(PodsOf[o]) => worker[CurPod(o)] = "raised"
          /\ Goto(o, "shutdown")
          /\ expired' = [expired EXCEPT ![o] = TRUE]
          /\ CancelFutures(o)
          /\ UNCHANGED cur
    /\ UNCHANGED <<cm, faults, passVars, planVars, attempts, victims, reserved, ports, asking, tried, podVars>>

\* Variant for the mutation runs: shutdown(wait=False).
WorkersNotAwaited(o) == TRUE

\* shutdown(wait=True).
WorkersStopped(o) == \A p \in MyPods(o) : worker[p] \in {"ready", "raised", "cancelled"}

Shutdown(o) ==
    /\ pc[o] = "shutdown" /\ WorkersStopped(o)
    /\ \/ cur[o] > Len(PodsOf[o]) /\ Goto(o, "up") /\ UNCHANGED attempts
       \/ cur[o] <= Len(PodsOf[o]) /\ Raise(o)
    /\ UNCHANGED <<cm, faults, cur, passVars, planVars, expired, victims, reserved, workerVars, podVars>>

\* The caller is done with the network: delete_orchestration_network.
Finish(o) ==
    /\ pc[o] = "up"
    /\ Goto(o, "cleanup")
    /\ attempts' = [attempts EXCEPT ![o] = 1]
    /\ UNCHANGED <<cm, faults, cur, passVars, planVars, expired, victims, reserved, workerVars, podVars>>

\* A list call of delete_all_by_orchid raises.
CleanupRaises(o) ==
    /\ Fault("list")
    /\ Goto(o, IF attempts[o] > 1 THEN "cleanup" ELSE "done")
    /\ attempts' = [attempts EXCEPT ![o] = 1]
    /\ victims' = [victims EXCEPT ![o] = {}]

\* delete_all_by_orchid: first the pods whose annotation is the id.
ListPods(o) ==
    /\ pc[o] = "cleanup"
    /\ \/ /\ Goto(o, "delpods")
          /\ victims' = [victims EXCEPT ![o] = {p \in MyPods(o) : object[p] # "none"}]
          /\ UNCHANGED <<faults, attempts>>
       \/ CleanupRaises(o)
    /\ UNCHANGED <<cm, cur, passVars, planVars, expired, reserved, workerVars, podVars>>

\* _delete_pod_and_wait: the delete, the wait, and by force after the grace
\* period, which removes the object whatever the containers do; an error of the
\* forced deletion is suppressed.
DeletePod(o, p) ==
    /\ pc[o] = "delpods" /\ p \in victims[o]
    /\ \/ /\ object[p] \in {"pending", "failed", "running"}
          /\ object' = [object EXCEPT ![p] = "terminating"]
          /\ UNCHANGED <<faults, victims>>
       \/ /\ object[p] = "none"
          /\ victims' = [victims EXCEPT ![o] = @ \ {p}]
          /\ UNCHANGED <<faults, object>>
       \/ /\ object[p] # "none" /\ Fault("slow")
          /\ object' \in {object, [object EXCEPT ![p] = "none"]}
          /\ victims' = [victims EXCEPT ![o] = @ \ {p}]
    /\ UNCHANGED <<cm, pc, cur, passVars, planVars, expired, attempts, reserved, workerVars, container>>

\* Variant for the mutation runs: the futures of the deletions are not awaited.
PodsNotAwaited(o) == TRUE

\* The deletions run side by side and are all awaited.
PodsDeleted(o) == victims[o] = {}

\* Variant for the mutation runs: the annotation is not compared.
AllConfigMaps(o) == {n \in Name : cm[n] # NoOne}

\* The ConfigMaps whose annotation orch_id is the id.
OwnConfigMaps(o) == {n \in Name : cm[n] = o}

\* Then the ConfigMaps, in one list.
ListConfigMaps(o) ==
    /\ pc[o] = "delpods" /\ PodsDeleted(o)
    /\ \/ /\ Goto(o, "delcm")
          /\ victims' = [victims EXCEPT ![o] = OwnConfigMaps(o)]
          /\ UNCHANGED <<faults, attempts>>
       \/ CleanupRaises(o)
    /\ UNCHANGED <<cm, cur, passVars, planVars, expired, reserved, workerVars, podVars>>

\* Each is deleted by its name; nobody looks at the results.
DeleteConfigMap(o) ==
    /\ pc[o] = "delcm"
    /\ \E n \in victims[o] :
        /\ \/ cm' = [cm EXCEPT ![n] = NoOne] /\ UNCHANGED faults
           \/ Fault("delete") /\ UNCHANGED cm
        /\ victims' = [victims EXCEPT ![o] = @ \ {n}]
    /\ UNCHANGED <<pc, cur, passVars, planVars, expired, attempts, reserved, workerVars, podVars>>

CleanupDone(o) ==
    /\ pc[o] = "delcm" /\ victims[o] = {}
    /\ Goto(o, "done")
    /\ UNCHANGED <<cm, faults, cur, passVars, planVars, expired, attempts, victims,
                   reserved, workerVars, podVars>>

-----------------------------------------------------------------------------
(* The environment.                                                        *)

Expire(o) ==
    /\ ~expired[o]
    /\ expired' = [expired EXCEPT ![o] = TRUE]
    /\ UNCHANGED <<cm, faults, pc, cur, passVars, planVars, attempts, victims,
                   reserved, workerVars, podVars>>

\* The process dies between two of its calls.
Crash(o) ==
    /\ pc[o] \notin {"id", "done", "crashed"}
    /\ Fault("crash")
    /\ Goto(o, "crashed")
    /\ UNCHANGED <<cm, cur, passVars, planVars, expired, attempts, victims,
                   reserved, workerVars, podVars>>

\* The data ConfigMaps that the pod mounts.
Mounted(o, p) ==
    {DataOf(o, p)}
        \cup {DataOf(o, r) : r \in reserved[p] \cap ClusterResource}
        \cup {DataOf(o, d) : d \in {x \in NodeData(o) : x[1] \in reserved[p] /\ NodeItems[o][x[2]] = p}}

\* A pod with a volume that does not exist stays pending.
KubeletStart(o, p) ==
    /\ object[p] = "pending"
    /\ \A d \in Mounted(o, p) : cm[d] # NoOne
    /\ object' = [object EXCEPT ![p] = "running"]
    /\ container' = [container EXCEPT ![p] = TRUE]
    /\ UNCHANGED <<cm, faults, pc, cur, passVars, planVars, expired, attempts, victims,
                   reserved, workerVars>>

\* The pod names its node, so the kubelet may refuse it (OutOfcpu, ...).
KubeletReject(p) ==
    /\ object[p] = "pending" /\ Fault("reject")
    /\ object' = [object EXCEPT ![p] = "failed"]
    /\ UNCHANGED <<cm, pc, cur, passVars, planVars, expired, attempts, victims,
                   reserved, workerVars, container>>

\* The containers have ended: a deleted pod goes, and what a forced deletion
\* left behind ends too.
KubeletStop(p) ==
    /\ \/ object[p] = "terminating"
       \/ object[p] = "none" /\ container[p]
    /\ object' = [object EXCEPT ![p] = "none"]
    /\ container' = [container EXCEPT ![p] = FALSE]
    /\ UNCHANGED <<cm, faults, pc, cur, passVars, planVars, expired, attempts, victims,
                   reserved, workerVars>>

MainThread(o) ==
    \/ CreateOrchId(o) \/ ParseRequest(o)
    \/ StartClusterPass(o) \/ ReadAvailability(o) \/ MatchCluster(o)
    \/ LockResource(o) \/ CreateResourceData(o)
    \/ StartNodePass(o) \/ MatchSpaces(o) \/ LockSpace(o) \/ CreateNodeData(o)
    \/ EnsurePortService(o) \/ AwaitPods(o) \/ Shutdown(o) \/ Finish(o)
    \/ ListPods(o) \/ (\E p \in MyPods(o) : DeletePod(o, p))
    \/ ListConfigMaps(o) \/ DeleteConfigMap(o) \/ CleanupDone(o)

Worker(o, p) ==
    \/ StartWorker(o, p) \/ ReservePort(o, p) \/ GetPorts(o, p)
    \/ CreatePodData(o, p) \/ CreatePod(o, p) \/ WatchPod(o, p) \/ CopyBinaries(o, p) \/ CheckPodPorts(o, p)

Kubelet(o, p) == KubeletStart(o, p) \/ KubeletReject(p) \/ KubeletStop(p)

Next ==
    \E o \in Orch :
        \/ MainThread(o)
        \/ Expire(o)
        \/ Crash(o)
        \/ \E p \in MyPods(o) : Worker(o, p) \/ Kubelet(o, p)

Spec == Init /\ [][Next]_vars

\* Time passes, every thread keeps running, and a kubelet ends what it was told
\* to end.  Nothing makes the caller finish, a pod start or a fault happen.
Fairness ==
    \A o \in Orch :
        /\ WF_vars(pc[o] # "up" /\ MainThread(o))
        /\ WF_vars(Expire(o))
        /\ \A p \in MyPods(o) : WF_vars(Worker(o, p)) /\ WF_vars(KubeletStop(p))

FairSpec == Spec /\ Fairness

-----------------------------------------------------------------------------
(* Properties.                                                             *)

TypeOK ==
    /\ cm \in [Name -> Orch \cup {NoOne}]
    /\ faults \in Nat
    /\ pc \in [Orch -> Phase]
    /\ cur \in [Orch -> Nat \ {0}]
    /\ unseen \in [Orch -> SUBSET Lock]
    /\ free \in [Orch -> SUBSET Lock]
    /\ plan \in [Orch -> Seq(Lock)]
    /\ item \in [Orch -> Nat \ {0}]
    /\ expired \in [Orch -> BOOLEAN]
    /\ attempts \in [Orch -> {0, 1, 2}]
    /\ victims \in [Orch -> SUBSET (Pod \cup Name)]
    /\ reserved \in [Pod -> SUBSET Lock]
    /\ worker \in [Pod -> WorkerState]
    /\ ports \in [Pod -> SUBSET Port]
    /\ asking \in [Pod -> SUBSET Nat]
    /\ tried \in [Pod -> SUBSET (Nat \X Port)]
    /\ object \in [Pod -> PodState]
    /\ container \in [Pod -> BOOLEAN]

\* What a pod was given.
Given(p) == reserved[p] \cup ports[p]

\* o lives and has not begun to delete its ConfigMaps.  (What a process that
\* died still uses, its containers, is the subject of UsedWhileLocked.)
Booked(o) == pc[o] \notin {"delcm", "done", "crashed"}

\* No cluster resource and no port is given to two pods, and no resource space
\* to pods of two orchestrations, however the processes interleave, whatever
\* create calls fail and whoever crashes (reserve_cluster_resources,
\* reserve_node_resources, reserve_port).
Exclusive ==
    \A o1, o2 \in Orch : \A p1 \in MyPods(o1), p2 \in MyPods(o2) :
        (p1 # p2 /\ Booked(o1) /\ Booked(o2)) =>
            Given(p1) \cap Given(p2) \subseteq (IF o1 = o2 THEN Space ELSE {})

\* While the containers of a pod run, the locks of all it was given are held by
\* its orchestration: the cleanup of delete_all_by_orchid frees a resource only
\* after its user is gone.  Not so when a deletion is forced (kind "slow").
UsedWhileLocked ==
    \A o \in Orch : \A p \in MyPods(o) :
        container[p] => \A n \in Given(p) : cm[n] = o

\* When create_infrastructure returns a network, every pod of it runs with a
\* distinct resource for each one asked, with its ports, with a space that fits,
\* and with the data ConfigMaps of all of them.
ReadyMeansBacked ==
    \A o \in Orch : pc[o] = "up" =>
        \A p \in MyPods(o) :
            /\ container[p]
            /\ Matches(p, reserved[p] \cap ClusterResource) # {}
            /\ Cardinality(ports[p]) = NofPorts[p] + NofExtraPorts
            /\ p \in SpaceUsers(o) => reserved[p] \cap Fits[o] # {}
            /\ \A d \in Mounted(o, p) : cm[d] = o
            /\ \A n \in Given(p) : cm[n] = o

\* Whichever call failed and wherever the request stopped, an orchestration that
\* is over has left no pod and no ConfigMap behind, as long as the calls of the
\* cleanup itself succeed.  The id is the exception: when its own create raises,
\* no cleanup follows (create_infrastructure before its try).
NothingLeft ==
    \A o \in Orch : pc[o] = "done" =>
        /\ \A n \in Name \ {OrchId(o)} : cm[n] # o
        /\ \A p \in MyPods(o) : object[p] = "none" /\ ~container[p]

\* A ConfigMap that exists is never taken over, and only the cleanup of its own
\* orchestration, once its pods are deleted, removes it.
OnlyOwnerFrees ==
    [][\A n \in Name : cm'[n] # cm[n] =>
            \/ cm[n] = NoOne
            \/ cm'[n] = NoOne /\ pc[cm[n]] = "delcm"]_vars

\* Every call of create_infrastructure ends, with a network or cleaned up, even
\* when orchestrations hold what each other needs (or what they need themselves).
EveryoneEnds == \A o \in Orch : <>(pc[o] \in {"up", "done", "crashed"})

\* The customers of ResourcePool are the orchestrations, its resources the locks, its
\* jobs the pods, which use what they were given while their containers run.
Pool == INSTANCE ResourcePool WITH
    Customer <- Orch, Resource <- Lock, Shared <- Space, Job <- Pod, Nobody <- NoOne,
    JobOf <- [p \in Pod |-> CHOOSE o \in Orch : p \in MyPods(o)],
    owner <- [n \in Lock |-> cm[n]],
    phase <- [o \in Orch |-> CASE pc[o] = "delcm" -> "giving"
                               [] pc[o] \in {"done", "crashed"} -> "gone"
                               [] OTHER -> "taking"],
    uses <- [p \in Pod |-> IF container[p] THEN Given(p) ELSE {}]

\* create_infrastructure and delete_orchestration_network, over all their calls, threads
\* and retries, share the resources as ResourcePool says, as long as no pod is deleted
\* by force (kind "slow").
SharesResources == Pool!Spec
=============================================================================
