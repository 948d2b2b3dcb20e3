------------------------------ MODULE Matching ------------------------------
(***************************************************************************)
(* What a pool of requests is given and where its pods go: the resources   *)
(* of the cluster definition, the match of the resources asked for, the    *)
(* choice of one resource space, the node of each pod and the              *)
(* specification its pod is created with (reservation/resources.py,        *)
(* transformations.py, managers.py).                                       *)
(*                                                                         *)
(* One process is followed.  The locks of the others come and go between   *)
(* its passes, and so do the nodes; the steps inside a pass, and what is   *)
(* left of one that is cut short, are the business of Orchestration.       *)
(* Expressions for models are the sets of models they match; a label is    *)
(* the pair of its key and its value.                                      *)
(***************************************************************************)
EXTENDS Integers, FiniteSets, SequencesExt

CONSTANTS
    Infos,      \* the cluster definitions: cluster resources, nodes and their devices
    Pools,      \* the requests of a process: sequences of requests
    SkipTaints, \* the taints of a node that must not be used
    MaxChanges  \* the changes of nodes and of other processes' locks

VARIABLES
    info,    \* the retina-info ConfigMap
    pool,    \* the requests
    dict,    \* what Kubernetes says of the nodes: labels and taints of those it lists
    others,  \* the locks of the other processes
    locks,   \* the locks of this process
    given,   \* per request: its reserved resources, in order
    specs,   \* per request: the specification of its pod, or <<>>
    place,   \* the request or the pass being served
    changes

matchingVars == <<info, pool, dict, others, locks, given, specs, place, changes>>

\* What the parsed files hold: the names of the requests of a pool are those of its pods, and differ.
PoolsAreRequests == \A p \in Pools :
    /\ p \in Seq([name : STRING, resources : Seq([type : STRING, models : SUBSET STRING, dummy : BOOLEAN]),
                  labels : SUBSET (STRING \X STRING), shares : Seq([percentage : Nat, rounding : STRING]),
                  hostNetwork : BOOLEAN, backhaul : BOOLEAN])
    /\ \A i, j \in DOMAIN p : p[i].name = p[j].name => i = j

InfosAreDefinitions == \A f \in Infos : \A n \in DOMAIN f.nodes : f.nodes[n].cores \in Nat

ASSUME FilesAssumption == PoolsAreRequests /\ InfosAreDefinitions

-----------------------------------------------------------------------------
(* The devices of the definition and what identifies one. *)

ClusterTypes == {"license", "remote", "api", "core"}
NodeTypes == {"sdr", "ru", "accelerator", "android", "zmq"}

\* Devices of a node that Kubernetes does not list are left out.
Devices == info.cluster \union UNION {info.nodes[n].devices : n \in DOMAIN info.nodes \intersect DOMAIN dict}
ClusterDevices == {d \in Devices : d.type \in ClusterTypes}
NodeDevices == {d \in Devices : d.type \in NodeTypes}

\* __hash__ of each class: accelerators and ZMQ forget which unit they are.
Identity(r) == <<r.device.type, r.device.model, r.capacity, r.device.space,
                 IF r.device.type \in {"accelerator", "zmq"} THEN "any" ELSE r.device.unit>>

LockOf(d) == IF d.type \in ClusterTypes THEN <<d.type, d.model>> ELSE <<"space", d.space>>
Taken == others \union locks

\* The taints are a list, and a list is none of the names of the skip array.
TaintsAreSkipped(taints) == FALSE

IsAvailable(d) ==
    IF d.type \in ClusterTypes
    THEN LockOf(d) \notin Taken
    ELSE /\ d.space # 0
         /\ d.node \in DOMAIN dict => ~ TaintsAreSkipped(dict[d.node].taints)
         /\ LockOf(d) \notin Taken

\* skip_not_available goes on with the next taint, not with the next node.
NodeDict(skip) == DOMAIN dict

-----------------------------------------------------------------------------
(* The request. *)

\* RequirementManager adds the label of the members, so every resource gets the node with the labels.
LabelsOf(q) == {<<"member", "true">>} \union q.labels

\* get_resource_from_config: any model by default, no capacity for a dummy, and the name of the
\* request and its labels.
FromConfig(q, c) == [type |-> c.type, models |-> c.models, capacity |-> IF c.dummy THEN 0 ELSE 1,
                     id |-> q.name, labels |-> LabelsOf(q)]

\* get_resources and get_all_resources of one request.
Inputs(q) == [i \in DOMAIN q.resources |-> FromConfig(q, q.resources[i])]

\* SelectSeq, without the recursive function of its own that no prover expands.
Those(s, Test(_)) == FlattenSeq([i \in DOMAIN s |-> IF Test(s[i]) THEN <<s[i]>> ELSE <<>>])

OfTypes(types, inputs) == Those(inputs, LAMBDA input : input.type \in types)

\* get_all_resources: the inputs of every request, one after another.
AllInputs == FlattenSeq([i \in DOMAIN pool |-> Inputs(pool[i])])

-----------------------------------------------------------------------------
(* get_match_resources *)

Serves(input, d) == input.type = d.type /\ d.model \in input.models

CheckLabelList(labels, n) == n \in DOMAIN dict /\ labels \subseteq dict[n].labels

\* Wrong: dummies are not told apart.
DummiesAlike(inputs, i) == inputs[i].capacity

\* A dummy of a node takes a copy, told apart by the place of the input.
CapacityFor(inputs, i) == IF inputs[i].capacity = 0 /\ inputs[i].type \in NodeTypes THEN 1 - i ELSE 1

Candidates(inputs, i, devices) ==
    {[device |-> d, capacity |-> CapacityFor(inputs, i), id |-> inputs[i].id] :
        d \in {d \in devices : /\ Serves(inputs[i], d)
                               /\ d.type \in ClusterTypes \/ CheckLabelList(inputs[i].labels, d.node)}}

\* Wrong: the filter of the duplicates is lost.
NotDistinct(choice) == TRUE

Distinct(choice) == \A i, j \in DOMAIN choice : i # j => Identity(choice[i]) # Identity(choice[j])

Combinations(inputs, devices) ==
    LET candidates == UNION {Candidates(inputs, i, devices) : i \in DOMAIN inputs}
    IN  {choice \in [DOMAIN inputs -> candidates] :
            /\ \A i \in DOMAIN inputs : choice[i] \in Candidates(inputs, i, devices)
            /\ Distinct(choice)}

-----------------------------------------------------------------------------
(* The steps of the process. *)

\* get_retina_node_dict: the nodes that Kubernetes lists and the labels of the definition.
Listed == [n \in DOMAIN info.nodes |-> [labels |-> info.nodes[n].labels, taints |-> {}]]

MatchingInit ==
    /\ info \in Infos
    /\ pool \in Pools
    /\ dict = Listed
    /\ others \in {{LockOf(d)} : d \in Devices} \union {{}}
    /\ locks = {}
    /\ given = [i \in DOMAIN pool |-> <<>>]
    /\ specs = [i \in DOMAIN pool |-> <<>>]
    /\ place = 1
    /\ changes = 0

ToPods == Len(pool) + 2
Failed == 0

Unchanged == UNCHANGED <<info, pool, dict, others, changes>>

\* RuntimeError or TimeoutError: create_infrastructure gives everything back.
Raise == place' = Failed /\ locks' = {} /\ Unchanged /\ UNCHANGED <<given, specs>>

\* reserve_cluster_resources of one request: whatever is free, if the definition can serve it at all.
ClusterPass ==
    /\ place \in DOMAIN pool
    /\ LET inputs == OfTypes(ClusterTypes, Inputs(pool[place]))
       IN  \/ /\ inputs = <<>>
              /\ place' = place + 1
              /\ Unchanged /\ UNCHANGED <<locks, given, specs>>
           \/ inputs # <<>> /\ Combinations(inputs, ClusterDevices) = {} /\ Raise
           \/ /\ inputs # <<>>
              /\ \E choice \in Combinations(inputs, {d \in ClusterDevices : IsAvailable(d)}) :
                    /\ locks' = locks \union {LockOf(choice[i].device) : i \in DOMAIN choice}
                    /\ given' = [given EXCEPT ![place] = @ \o choice]
              /\ place' = place + 1
              /\ Unchanged /\ UNCHANGED specs

\* _calculate_resource_space_from_request: any space whose free resources serve all the inputs.
SpacesFor(inputs, devices) ==
    {s \in {d.space : d \in devices} : s # 0 /\ Combinations(inputs, {d \in devices : d.space = s}) # {}}

GetResourcesById(choice, name) == Those(choice, LAMBDA r : r.id = name)

\* reserve_node_resources of the whole pool, and its division among the requests.
NodePass ==
    /\ place = Len(pool) + 1
    /\ LET inputs == OfTypes(NodeTypes, AllInputs)
           free == {d \in NodeDevices : IsAvailable(d)}
       IN  \/ /\ inputs = <<>>
              /\ place' = ToPods
              /\ Unchanged /\ UNCHANGED <<locks, given, specs>>
           \/ /\ inputs # <<>>
              /\ \E s \in SpacesFor(inputs, free) :
                 \E choice \in Combinations(inputs, {d \in free : d.space = s}) :
                    /\ locks' = locks \union {<<"space", s>>}
                    /\ given' = [i \in DOMAIN pool |-> given[i] \o GetResourcesById(choice, pool[i].name)]
              /\ place' = ToPods
              /\ Unchanged /\ UNCHANGED specs

\* The deadline of the passes, which otherwise go on looking.
Expire == place \in 1 .. Len(pool) + 1 /\ Raise

-----------------------------------------------------------------------------
(* The pod of a request. *)

OnNodes(i) == Those(given[i], LAMBDA r : r.device.type \in NodeTypes)

Hosts(q) == {l[2] : l \in {l \in LabelsOf(q) : l[1] = "host"}} \intersect NodeDict(TRUE)

\* _match_node: the host asked for, else that of the first device, else any with the labels.
MatchNode(i) ==
    IF Hosts(pool[i]) # {} THEN Hosts(pool[i])
    ELSE IF OnNodes(i) # <<>> THEN {OnNodes(i)[1].device.node}
    ELSE {n \in NodeDict(TRUE) : CheckLabelList(LabelsOf(pool[i]), n)}

Real(i) == Those(given[i], LAMBDA r : r.device.type # "zmq" /\ r.capacity > 0)

\* Any of the devices of the node, with capacity and other than ZMQ, has one of the connections.
Connects(i, connections) ==
    \E k \in DOMAIN Real(i) : /\ Real(i)[k].device.type \in NodeTypes
                              /\ Real(i)[k].device.connection \in connections

\* Wrong: every part of a core counts as one.
RoundUp(quantity, rounding) == IF rounding = "fractional" THEN quantity ELSE 100 * ((quantity + 99) \div 100)

\* round_cpu_quantity: hundredths of a core, and never none.
RoundCpu(quantity, rounding) ==
    LET atLeastOne(cores) == IF cores < 1 THEN 100 ELSE 100 * cores
    IN  CASE rounding = "fractional" -> quantity
          [] rounding = "round" -> atLeastOne((quantity + 50) \div 100)
          [] rounding = "truncate" -> atLeastOne(quantity \div 100)

\* scale_quantity of the cores of the node, in hundredths.
Scale(cores, percentage) == cores * percentage

\* Percentages need the compute resources of the node in the cluster definition.
CanResolve(i, n) ==
    pool[i].shares # <<>> => n \in DOMAIN info.nodes /\ info.nodes[n].cores > 0

Resolve(i, n) == [k \in DOMAIN pool[i].shares |->
    RoundCpu(Scale(info.nodes[n].cores, pool[i].shares[k].percentage), pool[i].shares[k].rounding)]

Backhaul(i, n) == pool[i].backhaul /\ n \in DOMAIN info.nodes

\* _create_pod_or_deployment_infrastructure up to the creation: what the pod is created with.
PodSpec(i, n) ==
    [node        |-> n,
     tolerations |-> IF n \in DOMAIN dict THEN dict[n].taints ELSE {},
     volumes     |-> {Identity(Real(i)[k]) : k \in DOMAIN Real(i)},
     usb         |-> Connects(i, {"usb"}),
     pci         |-> Connects(i, {"pci"}),
     network     |-> pool[i].hostNetwork \/ Backhaul(i, n) \/ Connects(i, {"network", "pci"}),
     cpu         |-> Resolve(i, n)]

CreatePod(i) ==
    /\ place = ToPods
    /\ specs[i] = <<>>
    /\ \E n \in MatchNode(i) :
          /\ CanResolve(i, n)
          /\ specs' = [specs EXCEPT ![i] = <<PodSpec(i, n)>>]
    /\ Unchanged /\ UNCHANGED <<locks, given, place>>

\* No node with the labels, or percentages of a node that is not known.
CannotPlace(i) ==
    /\ place = ToPods
    /\ specs[i] = <<>>
    /\ MatchNode(i) = {} \/ \E n \in MatchNode(i) : ~ CanResolve(i, n)
    /\ Raise

-----------------------------------------------------------------------------
(* What happens around the process. *)

Change(next) == changes < MaxChanges /\ place # Failed /\ changes' = changes + 1 /\ next
                /\ UNCHANGED <<info, pool, locks, given, specs, place>>

OthersLock == \E d \in Devices : LockOf(d) \notin Taken /\ others' = others \union {LockOf(d)} /\ UNCHANGED dict

OthersUnlock == \E l \in others : others' = others \ {l} /\ UNCHANGED dict

NodeTainted == \E n \in DOMAIN dict, t \in SkipTaints :
    /\ t \notin dict[n].taints
    /\ dict' = [dict EXCEPT ![n].taints = @ \union {t}]
    /\ UNCHANGED others

NodeLeaves == \E n \in DOMAIN dict : dict' = [m \in DOMAIN dict \ {n} |-> dict[m]] /\ UNCHANGED others

MatchingNext ==
    \/ ClusterPass \/ NodePass \/ Expire
    \/ \E i \in DOMAIN pool : CreatePod(i) \/ CannotPlace(i)
    \/ Change(OthersLock) \/ Change(OthersUnlock) \/ Change(NodeTainted) \/ Change(NodeLeaves)

MatchingSpec == MatchingInit /\ [][MatchingNext]_matchingVars

-----------------------------------------------------------------------------
(* Properties. *)

InSpaces == UNION {{given[i][k].device.space :
                        k \in {k \in DOMAIN given[i] : given[i][k].device.type \in NodeTypes}} : i \in DOMAIN pool}

Slots == UNION {{<<i, k>> : k \in DOMAIN given[i]} : i \in DOMAIN pool}
At(slot) == given[slot[1]][slot[2]]

\* What a process is given is what its requests asked for, in the order of their inputs (those of
\* the cluster first): each device serves its input and obeys the labels, none is given twice
\* but to a dummy, those of the nodes come from one resource space, and the process holds the
\* locks of all of them.  Nothing is left out by the division of the match among the requests
\* (get_match_resources, reserve_node_resources).
ServedAsAsked == place = ToPods =>
    /\ \A i \in DOMAIN pool :
          LET asked == OfTypes(ClusterTypes, Inputs(pool[i])) \o OfTypes(NodeTypes, Inputs(pool[i]))
          IN  /\ Len(given[i]) = Len(asked)
              /\ \A k \in DOMAIN asked : /\ Serves(asked[k], given[i][k].device)
                                         /\ asked[k].capacity = 1 => given[i][k].capacity = 1
    /\ \A a, b \in Slots :
          a # b /\ At(a).capacity = 1 /\ At(b).capacity = 1 => At(a).device # At(b).device
    /\ Cardinality(InSpaces) <= 1
    /\ \A a \in Slots : LockOf(At(a).device) \in locks /\ LockOf(At(a).device) \notin others

Twins == \E d, e \in Devices :
    d # e /\ Identity([device |-> d, capacity |-> 1]) = Identity([device |-> e, capacity |-> 1])

\* The pass over the nodes finds a space as soon as one exists that can serve the whole pool:
\* an assignment that gives every real input a device of its own and a dummy any that fits,
\* whether or not it is given to another.  Two devices that hash alike are an exception, and
\* the clusters of this property have none (get_match_resources, __hash__).
MatchIsComplete == place = Len(pool) + 1 /\ ~ Twins =>
    LET inputs == OfTypes(NodeTypes, AllInputs)
        free == {d \in NodeDevices : LockOf(d) \notin Taken}
        Fits(i, d) == Serves(inputs[i], d) /\ CheckLabelList(inputs[i].labels, d.node)
        CanServe(s) == \E f \in [DOMAIN inputs -> {d \in free : d.space = s}] :
            /\ \A i \in DOMAIN inputs : Fits(i, f[i])
            /\ \A i, j \in DOMAIN inputs :
                  i # j /\ inputs[i].capacity = 1 /\ inputs[j].capacity = 1 => f[i] # f[j]
    IN  inputs # <<>> => SpacesFor(inputs, free) = {s \in {d.space : d \in free} \ {0} : CanServe(s)}

\* A pod that shares its node between a container whose part is truncated and one whose part is
\* rounded asks for no more than the node has, if no part is less than the one core that a
\* container always gets, and a pod mounts no more data than its process wrote, with the
\* connection of each of its devices (_resolve_node_requirements_in_place, _create_pod_spec).
PodFits == \A i \in DOMAIN pool : specs[i] # <<>> =>
    LET pod == specs[i][1]
        shares == pool[i].shares
        Shared == /\ Len(shares) = 2 /\ shares[1].rounding = "truncate" /\ shares[2].rounding = "round"
                  /\ shares[1].percentage + shares[2].percentage <= 100
                  /\ \A k \in 1 .. 2 : Scale(info.nodes[pod.node].cores, shares[k].percentage) >= 100
    IN  /\ Shared => pod.cpu[1] + pod.cpu[2] <= 100 * info.nodes[pod.node].cores
        /\ Cardinality(pod.volumes) = Len(Real(i))
        /\ \A k \in DOMAIN Real(i) : Real(i)[k].device.type \in NodeTypes =>
              /\ Real(i)[k].device.connection = "usb" => pod.usb
              /\ Real(i)[k].device.connection = "pci" => pod.pci /\ pod.network
              /\ Real(i)[k].device.connection = "network" => pod.network

\* No device is given of a node that carries a taint which makes it unavailable
\* (NodeResource.is_available, KUBERNETES_SKIP_TAINT_ARRAY).
UnavailableIsSkipped == [][
    \A i \in DOMAIN pool : \A k \in DOMAIN given'[i] \ DOMAIN given[i] :
        given'[i][k].device.type \in NodeTypes =>
            dict[given'[i][k].device.node].taints \intersect SkipTaints = {}]_matchingVars

=============================================================================
