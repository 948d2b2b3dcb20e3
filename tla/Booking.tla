------------------------------- MODULE Booking -------------------------------
(***************************************************************************)
(* The commands that book and free resources next to running tests: retina *)
(* reserve, retina release by name or by user, the demolition of the       *)
(* garbage collector, and create_infrastructure as their rival, all of     *)
(* them processes over one cluster (entry_points/, the deletions of        *)
(* orchestration_network.py, the deployments of retina_kubernetes.py).     *)
(*                                                                         *)
(* The creation of a network is cut to what the commands can meet: its id, *)
(* its lock with the data that goes with it, and its pod.  The rest of it  *)
(* is in Orchestration.  A network is named by its process and its place   *)
(* in the process.                                                         *)
(***************************************************************************)
EXTENDS Integers, FiniteSets, Sequences

CONSTANTS
    Process,    \* processes: each runs one job
    Jobs,       \* the jobs a process may run
    Nodes,      \* the names that are nodes; any other name is a lock's
    MaxCrashes

VARIABLES
    job,         \* the job of each process
    pc,          \* where it is
    at,          \* which of the names of its job it is busy with
    alive,       \* the class-wide list of the networks of the process
    doomed,      \* the networks it still has to delete
    current,     \* the one of them it is deleting
    listed,      \* the ConfigMaps of the last list it has still to delete
    configMaps,  \* the cluster: ConfigMaps
    deployments, \*   deployments
    pods,        \*   pods
    claims,      \* what users were told is theirs: [user, name, orch, safe]
    quiet,       \* demolitions that began after the processes of their users were over
    crashes

procs == <<job, pc, at, alive, doomed, current, listed>>
cluster == <<configMaps, deployments, pods>>
vars == <<procs, cluster, claims, quiet, crashes>>

NoOrch == <<>>
Nobody == "nobody"

User(p) == job[p].user
Item(p) == job[p].names[at[p]]

-----------------------------------------------------------------------------
(* ConfigMaps: the annotations name the network and the user; the locks    *)
(* and the ids say so in their data as well, the resource data do not.     *)

Lock(name, orch, user) == [kind |-> "lock", name |-> name, orch |-> orch, user |-> user]
IdMap(orch, user) == [kind |-> "id", name |-> "id", orch |-> orch, user |-> user]
DataMap(name, orch, user) == [kind |-> "data", name |-> name, orch |-> orch, user |-> user]

SaysUser(c) == c.kind # "data"

LocksOf(name) == {c \in configMaps : c.kind = "lock" /\ c.name = name}
\* One id or data per network; a lock is its name.
SameName(c, d) == c.kind = d.kind /\ c.name = d.name /\ (c.kind # "lock" => c.orch = d.orch)

\* _delete, by name.
Deleted(c) == {d \in configMaps : ~ SameName(c, d)}

Exists(c) == \E d \in configMaps : SameName(c, d)

\* Wrong: the server takes the new ConfigMap for the old one.
CreatedOver(c) == Deleted(c) \union {c}

\* The server refuses a name that exists; the others are created.
Created(c) == IF Exists(c) THEN configMaps ELSE configMaps \union {c}

\* check_space_user_reservation, check_cluster_resource_user_reservation
OwnerOf(name) == IF LocksOf(name) = {} THEN Nobody ELSE (CHOOSE c \in LocksOf(name) : TRUE).user

Go(p, step) == pc' = [pc EXCEPT ![p] = step]

Over == {"ok", "failed", "dead"}

Stays == UNCHANGED <<job, quiet, crashes>>

-----------------------------------------------------------------------------
(* retina reserve: the names of the command, one after another. *)

\* The name is done: the next one, or the end of the command.
NextName(p) ==
    IF at[p] = Len(job[p].names)
    THEN Go(p, "ok") /\ UNCHANGED at
    ELSE Go(p, job[p].kind) /\ at' = [at EXCEPT ![p] = @ + 1]

\* A deletion that was on its way, by name or of the network, when the user is told.
Threatened(name, orch) == \E q \in Process :
    orch \in doomed[q] \/ \E c \in listed[q] : c.kind = "lock" /\ c.name = name

Reserved(p, orch) ==
    /\ claims' = claims \union {[user |-> User(p), name |-> Item(p), orch |-> orch, safe |-> ~ Threatened(Item(p), orch)]}
    /\ NextName(p)

\* A lock: a user who has it already has reserved it.
ReserveLock(p) ==
    /\ pc[p] = "reserve" /\ Item(p) \notin Nodes
    /\ CASE OwnerOf(Item(p)) = Nobody -> Go(p, "create") /\ UNCHANGED <<at, claims>>
         [] OwnerOf(Item(p)) = User(p) -> Reserved(p, (CHOOSE c \in LocksOf(Item(p)) : TRUE).orch)
         [] OTHER -> Go(p, "failed") /\ UNCHANGED <<at, claims>>
    /\ Stays /\ UNCHANGED <<alive, doomed, listed, cluster, current>>

\* reserve_cluster_resource, reserve_resource_space: the lock of no network.
CreateLock(p) ==
    /\ pc[p] = "create"
    /\ LET lock == Lock(Item(p), NoOrch, User(p))
       IN  /\ configMaps' = Created(lock)
           /\ IF Exists(lock) THEN Go(p, "failed") /\ UNCHANGED <<at, claims>> ELSE Reserved(p, NoOrch)
    /\ Stays /\ UNCHANGED <<alive, doomed, listed, deployments, pods, current>>

\* _get_reserved_info_from_node: the running pods of deployments tell who has the node.
HoldersOf(node) == {d \in pods : d.node = node /\ d.dev /\ d.state = "running"}

ReserveNode(p) ==
    /\ pc[p] = "reserve" /\ Item(p) \in Nodes
    /\ Go(p, IF HoldersOf(Item(p)) # {} THEN "failed" ELSE "id")
    /\ Stays /\ UNCHANGED <<at, alive, doomed, listed, cluster, claims, current>>

-----------------------------------------------------------------------------
(* create_infrastructure: for a test that wants one lock, or for a node. *)

Network(p) == <<p, at[p]>>

CreateId(p) ==
    /\ pc[p] = "id"
    /\ configMaps' = Created(IdMap(Network(p), User(p)))
    /\ alive' = [alive EXCEPT ![p] = @ \union {Network(p)}]
    /\ Go(p, IF Item(p) \in Nodes THEN "deploy" ELSE "lock")
    /\ Stays /\ UNCHANGED <<at, doomed, listed, deployments, pods, claims, current>>

\* The lock and the data of the resource, when it is free; else another pass.
TakeLock(p) ==
    /\ pc[p] = "lock"
    /\ LocksOf(Item(p)) = {}
    /\ configMaps' = Created(Lock(Item(p), Network(p), User(p))) \union {DataMap(Item(p), Network(p), User(p))}
    /\ Go(p, "deploy")
    /\ Stays /\ UNCHANGED <<at, alive, doomed, listed, deployments, pods, claims, current>>

\* A pod of the test on its node, or a deployment that asks for the whole of a node.
NewPod(p) == [orch |-> Network(p), user |-> User(p), node |-> IF Item(p) \in Nodes THEN Item(p) ELSE job[p].node,
              dev |-> Item(p) \in Nodes, state |-> "pending"]

Deploy(p) ==
    /\ pc[p] = "deploy"
    /\ LET pod == NewPod(p)
       IN  /\ deployments' = IF pod.dev THEN deployments \union {pod} ELSE deployments
           /\ pods' = IF pod.dev THEN pods ELSE pods \union {pod}
    /\ Go(p, "await")
    /\ Stays /\ UNCHANGED <<at, alive, doomed, listed, configMaps, claims, current>>

PodsOf(orch) == {d \in pods : d.orch = orch}

Await(p) ==
    /\ pc[p] = "await"
    /\ \E d \in PodsOf(Network(p)) : d.state = "running"
    /\ IF Item(p) \in Nodes
       THEN Reserved(p, Network(p))
       ELSE Go(p, "test") /\ UNCHANGED <<at, claims>>
    /\ Stays /\ UNCHANGED <<alive, doomed, listed, cluster, current>>

\* The whole of the alive list goes down with the network that fails.
DeleteNetworks(p) == doomed' = [doomed EXCEPT ![p] = alive[p]] /\ Go(p, "down")

\* The deadline, or a pod that its node refuses.
CreationFails(p) ==
    /\ pc[p] \in {"lock", "await"}
    /\ DeleteNetworks(p)
    /\ Stays /\ UNCHANGED <<at, alive, listed, cluster, claims, current>>

TestEnds(p) ==
    /\ pc[p] = "test"
    /\ DeleteNetworks(p)
    /\ Stays /\ UNCHANGED <<at, alive, listed, cluster, claims, current>>

-----------------------------------------------------------------------------
(* delete_all_by_orchid for one network after another. *)

\* Wrong: only the pods are deleted.
NoDeploymentsOf(orch) == {}

DeploymentsOf(orch) == {d \in deployments : d.orch = orch}

DeleteDeployments(p) ==
    /\ pc[p] = "down" /\ doomed[p] # {}
    /\ \E orch \in doomed[p] :
          /\ deployments' = deployments \ DeploymentsOf(orch)
          /\ current' = [current EXCEPT ![p] = orch]
    /\ Go(p, "pods")
    /\ Stays /\ UNCHANGED <<at, alive, doomed, listed, configMaps, pods, claims>>

Doomed(p) == current[p]

Terminating(d) == [d EXCEPT !.state = "terminating"]

DeletePods(p) ==
    /\ pc[p] = "pods"
    /\ pods' = {IF d.orch = Doomed(p) THEN Terminating(d) ELSE d : d \in pods}
    /\ Go(p, "wait")
    /\ Stays /\ UNCHANGED <<at, alive, doomed, listed, configMaps, deployments, claims, current>>

\* _delete_pod_and_wait of the pods that were listed, then the list of the ConfigMaps.
ListConfigMaps(p) ==
    /\ pc[p] = "wait"
    /\ \A d \in PodsOf(Doomed(p)) : d.state # "terminating"
    /\ listed' = [listed EXCEPT ![p] = {c \in configMaps : c.orch = Doomed(p)}]
    /\ Go(p, "maps")
    /\ Stays /\ UNCHANGED <<at, alive, doomed, current, cluster, claims>>

\* Deletions by name, of whatever has the name by then.
DeleteConfigMap(p) ==
    /\ pc[p] \in {"maps", "userMaps"}
    /\ \E c \in listed[p] :
          /\ configMaps' = Deleted(c)
          /\ listed' = [listed EXCEPT ![p] = @ \ {c}]
    /\ Stays /\ UNCHANGED <<pc, at, alive, doomed, deployments, pods, claims, current>>

NextNetwork(p) ==
    /\ pc[p] = "maps" /\ listed[p] = {}
    /\ doomed' = [doomed EXCEPT ![p] = @ \ {Doomed(p)}]
    /\ alive' = [alive EXCEPT ![p] = @ \ {Doomed(p)}]
    /\ current' = [current EXCEPT ![p] = NoOrch]
    /\ Go(p, "down")
    /\ Stays /\ UNCHANGED <<at, listed, cluster, claims>>

\* After the last network: the demolition goes on with the ConfigMaps of the user.
NetworksDeleted(p) ==
    /\ pc[p] = "down" /\ doomed[p] = {}
    /\ CASE job[p].kind = "demolish" -> Go(p, "user") /\ UNCHANGED at
         [] job[p].kind = "release" -> NextName(p)
         [] job[p].kind = "reserve" -> Go(p, "failed") /\ UNCHANGED at
         [] job[p].kind = "test" -> Go(p, "ok") /\ UNCHANGED at
    /\ Stays /\ UNCHANGED <<alive, doomed, listed, cluster, claims, current>>

-----------------------------------------------------------------------------
(* retina release of names, of a user, and the demolition of everything. *)

\* A claim ends with the first command that may free what it is about.
Without(user, name) == {c \in claims : ~ (c.user \in user /\ c.name \in name)}
Everyone == {job[p].user : p \in Process}
Everything == UNION {{job[p].names[i] : i \in DOMAIN job[p].names} : p \in Process}

\* Whoever holds it and whatever uses it; a deletion of what is not there is a success.
ReleaseLock(p) ==
    /\ pc[p] = "release" /\ Item(p) \notin Nodes
    /\ configMaps' = configMaps \ LocksOf(Item(p))
    /\ claims' = Without(Everyone, {Item(p)})
    /\ NextName(p)
    /\ Stays /\ UNCHANGED <<alive, doomed, listed, deployments, pods, current>>

\* release_node: the network of the first pod found on it.
ReleaseNode(p) ==
    /\ pc[p] = "release" /\ Item(p) \in Nodes
    /\ claims' = Without(Everyone, {Item(p)})
    /\ IF HoldersOf(Item(p)) = {}
       THEN NextName(p) /\ UNCHANGED doomed
       ELSE /\ \E d \in HoldersOf(Item(p)) : doomed' = [doomed EXCEPT ![p] = {d.orch}]
            /\ Go(p, "down") /\ UNCHANGED at
    /\ Stays /\ UNCHANGED <<alive, listed, cluster, current>>

Matches(p, user) == job[p].of = "everyone" \/ job[p].of = user

Of(p) == IF job[p].of = "everyone" THEN Everyone ELSE {job[p].of}

\* The processes of its users are over, and no deployment is without an id and a pod to be found by.
Quiet(p) ==
    /\ \A q \in Process \ {p} : Matches(p, User(q)) => pc[q] \in Over
    /\ \A d \in deployments : Matches(p, d.user) =>
          PodsOf(d.orch) # {} \/ \E c \in configMaps : c.orch = d.orch /\ SaysUser(c)

\* get_orch_id_list_by_username: what the data of the ConfigMaps and the annotations of the pods say.
ListNetworks(p) ==
    /\ pc[p] = "demolish"
    /\ doomed' = [doomed EXCEPT ![p] =
          {c.orch : c \in {c \in configMaps : SaysUser(c) /\ c.orch # NoOrch /\ Matches(p, c.user)}}
            \union {d.orch : d \in {d \in pods : Matches(p, d.user)}}]
    /\ claims' = Without(Of(p), Everything)
    /\ quiet' = IF Quiet(p) THEN quiet \union {p} ELSE quiet
    /\ Go(p, "down")
    /\ UNCHANGED <<job, crashes, at, alive, current, listed, cluster>>

\* delete_config_map_by_user_name: the locks of no network as well.
ListByUser(p) ==
    /\ pc[p] = "user"
    /\ listed' = [listed EXCEPT ![p] = {c \in configMaps : SaysUser(c) /\ Matches(p, c.user)}]
    /\ claims' = Without(Of(p), Everything)
    /\ Go(p, "userMaps")
    /\ Stays /\ UNCHANGED <<at, alive, doomed, cluster, current>>

Demolished(p) ==
    /\ pc[p] = "userMaps" /\ listed[p] = {}
    /\ Go(p, "ok")
    /\ Stays /\ UNCHANGED <<at, alive, doomed, listed, cluster, claims, current>>

-----------------------------------------------------------------------------
(* The cluster. *)

\* A ReplicaSet makes a pod for a deployment that has none.
Replicate(d) ==
    /\ d \in deployments
    /\ ~ \E e \in PodsOf(d.orch) : e.state \in {"pending", "running"}
    /\ pods' = pods \union {d}

\* The pod of a deployment asks for all the CPUs of its node.
KubeletStart(d) ==
    /\ d \in pods /\ d.state = "pending"
    /\ \A e \in pods : e.node = d.node /\ e.state \in {"running", "terminating"} => ~ d.dev /\ ~ e.dev
    /\ pods' = (pods \ {d}) \union {[d EXCEPT !.state = "running"]}

KubeletStop(d) ==
    /\ d \in pods /\ d.state = "terminating"
    /\ pods' = pods \ {d}

Cluster ==
    /\ \E d \in pods \union deployments : Replicate(d) \/ KubeletStart(d) \/ KubeletStop(d)
    /\ UNCHANGED <<procs, configMaps, deployments, claims, quiet, crashes>>

Crash(p) ==
    /\ crashes < MaxCrashes
    /\ job[p].kind # "demolish" /\ pc[p] \notin Over
    /\ crashes' = crashes + 1
    /\ Go(p, "dead")
    /\ UNCHANGED <<job, at, alive, doomed, current, listed, cluster, claims, quiet>>

-----------------------------------------------------------------------------

First(kind) == CASE kind = "test" -> "id" [] OTHER -> kind

Init ==
    /\ job \in [Process -> Jobs]
    /\ pc = [p \in Process |-> First(job[p].kind)]
    /\ at = [p \in Process |-> 1]
    /\ alive = [p \in Process |-> {}]
    /\ doomed = [p \in Process |-> {}]
    /\ current = [p \in Process |-> NoOrch]
    /\ listed = [p \in Process |-> {}]
    /\ configMaps = {} /\ deployments = {} /\ pods = {}
    /\ claims = {}
    /\ quiet = {}
    /\ crashes = 0

Step(p) ==
    \/ ReserveLock(p) \/ CreateLock(p) \/ ReserveNode(p)
    \/ CreateId(p) \/ TakeLock(p) \/ Deploy(p) \/ Await(p) \/ CreationFails(p) \/ TestEnds(p)
    \/ DeleteDeployments(p) \/ DeletePods(p) \/ ListConfigMaps(p) \/ DeleteConfigMap(p)
    \/ NextNetwork(p) \/ NetworksDeleted(p)
    \/ ReleaseLock(p) \/ ReleaseNode(p) \/ ListNetworks(p) \/ ListByUser(p) \/ Demolished(p)

Next == Cluster \/ \E p \in Process : Step(p) \/ Crash(p)

Spec == Init /\ [][Next]_vars

-----------------------------------------------------------------------------
(* Properties. *)

\* What a user was told is reserved is there: the lock, or the deployment that fills the node.
Held(c) ==
    IF c.name \in Nodes
    THEN \E d \in deployments : d.node = c.name /\ d.orch = c.orch
    ELSE \E d \in LocksOf(c.name) : d.user = c.user /\ d.orch = c.orch

\* What retina reserve created for a user stays until somebody releases it, by name or by user:
\* other commands that ask for the same name do not get it and the tests that end do not take it
\* along.  Left out are the exceptions of the code: a deletion that was on its way when the
\* name was reserved, the nodes of a command whose next name fails, and a lock that was a
\* test's of the same user (reserve).
CreatedIsKept == \A c \in claims :
    /\ c.safe
    /\ c.name \in Nodes => c.orch \in alive[c.orch[1]] \ doomed[c.orch[1]]
    /\ c.name \notin Nodes => c.orch = NoOrch
    => Held(c)

\* A demolition that found the processes of its users over, crashed or not, leaves no lock, no id,
\* no deployment and no pod of them (delete_orchestration_network_by_username,
\* delete_all_orchestration_network).  Left out: the data of resources, which have no user to be
\* found by, and a deployment whose id an earlier demolition took and that has no pod yet.
DemolishedMeansFree == \A p \in quiet : pc[p] = "ok" =>
    /\ \A c \in configMaps : SaysUser(c) => ~ Matches(p, c.user)
    /\ \A d \in deployments \union pods : ~ Matches(p, d.user)

\* What is reserved by hand is nobody else's before it is released: "When a resource is reserved,
\* it ensures that no other user or external system (such as GitLab) can use it"
\* (src/retina/_docs/04_reserve_resources.md).
ReservedIsKept == \A c \in claims : Held(c)
=============================================================================
