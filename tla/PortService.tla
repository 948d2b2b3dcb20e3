----------------------------- MODULE PortService -----------------------------
(***************************************************************************)
(* The service through which clients outside the cluster reach the agents: *)
(* create_port_infrastructure, run at the start of every                   *)
(* create_infrastructure, and the wait of a pod thread for the address and *)
(* the ports, by several processes while the cluster definition may be     *)
(* deployed again with another networking mode.                            *)
(*                                                                         *)
(* All processes share one object, retina-service; every step looks at it  *)
(* with a call of its own.  Orchestration has all this as EnsurePortService*)
(* and CopyBinaries, which succeed or raise.                               *)
(***************************************************************************)
EXTENDS Naturals

CONSTANTS
    Orch,         \* calls of create_infrastructure, one per process
    First,        \* the services that may be there before the first of them
    MaxDeploys    \* bound: how often the cluster definition is deployed again

Mode == {"loadBalancer", "nodePort"}

ASSUME PortServiceAssumption == First \subseteq Mode \cup {"none"} /\ MaxDeploys \in Nat

VARIABLES
    config,     \* networking-mode in retina-info, "none" while it is replaced
    deploys,    \* deployments so far
    service,    \* the type of retina-service, or "none"
    doomed,     \* retina-service has been deleted and is still there
    pc,         \* where each process is
    wanted,     \* the mode read by create_port_infrastructure
    address,    \* the mode read by the pod thread
    expired     \* the deadline of the TimeoutHandler has passed

clusterVars == <<config, deploys>>
vars == <<clusterVars, service, doomed, pc, wanted, address, expired>>

Ensuring == {"ensure", "look", "other", "delete", "gone", "create"}
Waiting  == {"thread", "pod", "address", "check"}
Over     == {"up", "refused", "gaveup", "raised"}

Init ==
    /\ config \in Mode
    /\ deploys = 0
    /\ service \in First
    /\ doomed = FALSE
    /\ pc = [o \in Orch |-> "ensure"]
    /\ wanted = [o \in Orch |-> "none"]
    /\ address = [o \in Orch |-> "none"]
    /\ expired = [o \in Orch |-> FALSE]

Goto(o, phase) == pc' = [pc EXCEPT ![o] = phase]

-----------------------------------------------------------------------------
(* create_port_infrastructure.                                             *)

\* get_cluster_configuration raises when retina-info does not exist.
HasConfig == config # "none"

ReadMode(o) ==
    /\ pc[o] = "ensure"
    /\ \/ HasConfig /\ wanted' = [wanted EXCEPT ![o] = config] /\ Goto(o, "look")
       \/ ~HasConfig /\ Goto(o, "raised") /\ UNCHANGED wanted
    /\ UNCHANGED <<clusterVars, service, doomed, address, expired>>

\* get_load_balancer_service or get_node_port_service, for the mode wanted.  A
\* service that has been deleted is found as long as it is there.
FindWanted(o) ==
    /\ pc[o] = "look"
    /\ Goto(o, IF service = wanted[o] THEN "thread" ELSE "other")
    /\ UNCHANGED <<clusterVars, service, doomed, wanted, address, expired>>

\* The same for the other mode, with a list call of its own.
FindOther(o) ==
    /\ pc[o] = "other"
    /\ Goto(o, IF service \in Mode \ {wanted[o]} THEN "delete" ELSE "create")
    /\ UNCHANGED <<clusterVars, service, doomed, wanted, address, expired>>

\* delete_port_service deletes by name, whatever the service is by now.  An
\* error status counts as OK; the call may also raise, applied or not.
DeleteService(o) ==
    /\ pc[o] = "delete"
    /\ doomed' \in {doomed, service # "none"}
    /\ \E phase \in {"gone", "gaveup"} : Goto(o, phase)
    /\ UNCHANGED <<clusterVars, service, wanted, address, expired>>

\* Variant for the mutation runs: wait_for_deletion=False.
GoneUnchecked == TRUE

\* get_port_service finds nothing.
Gone == service = "none"

\* The loop looks once a second, so it may miss that the service was gone.
AwaitGone(o) ==
    /\ pc[o] = "gone" /\ Gone
    /\ Goto(o, "create")
    /\ UNCHANGED <<clusterVars, service, doomed, wanted, address, expired>>

\* Variant for the mutation runs: the loop has no end of its own.
WaitsForEver(o) == FALSE

\* The wait for the deletion has lasted timeout_seconds.
WaitedTooLong(o) == pc[o] = "gone"

GiveUp(o) ==
    /\ WaitedTooLong(o)
    /\ Goto(o, "gaveup")
    /\ UNCHANGED <<clusterVars, service, doomed, wanted, address, expired>>

\* create_loadbalancer_service, create_nodeport_service: NAME_DUPLICATED is an
\* error like any other; the call may also fail for another reason.
CreateService(o) ==
    /\ pc[o] = "create"
    /\ \/ service = "none" /\ service' = wanted[o] /\ Goto(o, "thread")
       \/ service # "none" /\ Goto(o, "refused") /\ UNCHANGED service
       \/ /\ service' \in {service, IF service = "none" THEN wanted[o] ELSE service}
          /\ Goto(o, "gaveup")
    /\ UNCHANGED <<clusterVars, doomed, wanted, address, expired>>

Ensure(o) ==
    \/ ReadMode(o) \/ FindWanted(o) \/ FindOther(o)
    \/ DeleteService(o) \/ AwaitGone(o) \/ GiveUp(o) \/ CreateService(o)

-----------------------------------------------------------------------------
(* The pod thread of a process outside the cluster.                        *)

\* The thread reads the mode again, after its ports are reserved.
ReadModeAgain(o) ==
    /\ pc[o] = "thread"
    /\ \/ HasConfig /\ address' = [address EXCEPT ![o] = config] /\ Goto(o, "pod")
       \/ ~HasConfig /\ Goto(o, "raised") /\ UNCHANGED address
    /\ UNCHANGED <<clusterVars, service, doomed, wanted, expired>>

\* create_pod_until_scheduled: the pod runs, or the deadline ends the wait.
AwaitPod(o) ==
    /\ pc[o] = "pod"
    /\ Goto(o, IF expired[o] THEN "raised" ELSE "address")
    /\ UNCHANGED <<clusterVars, service, doomed, wanted, address, expired>>

\* get_load_balancer_ip looks until it finds a LoadBalancer service; no turn of
\* its loop looks at the deadline.
GetAddress(o) ==
    /\ pc[o] = "address"
    /\ address[o] = "loadBalancer" => service = "loadBalancer"
    /\ Goto(o, "check")
    /\ UNCHANGED <<clusterVars, service, doomed, wanted, address, expired>>

\* check_pod_port_list: the ports are open through a service of that mode.
CheckPorts(o) ==
    /\ pc[o] = "check"
    /\ \/ expired[o] /\ Goto(o, "raised")
       \/ ~expired[o] /\ service = address[o] /\ Goto(o, "up")
    /\ UNCHANGED <<clusterVars, service, doomed, wanted, address, expired>>

PodThread(o) == ReadModeAgain(o) \/ AwaitPod(o) \/ GetAddress(o) \/ CheckPorts(o)

-----------------------------------------------------------------------------
(* The environment.                                                        *)

\* The deadline passes while the call is not over.
Expire(o) ==
    /\ ~expired[o] /\ pc[o] \notin Over
    /\ expired' = [expired EXCEPT ![o] = TRUE]
    /\ UNCHANGED <<clusterVars, service, doomed, pc, wanted, address>>

\* The API server removes a deleted service when its finalizers are done.
Reap ==
    /\ doomed
    /\ doomed' = FALSE
    /\ service' = "none"
    /\ UNCHANGED <<clusterVars, pc, wanted, address, expired>>

\* _deploy_config_map deletes retina-info, waits until it is gone...
RemoveConfig ==
    /\ config # "none" /\ deploys < MaxDeploys
    /\ config' = "none"
    /\ deploys' = deploys + 1
    /\ UNCHANGED <<service, doomed, pc, wanted, address, expired>>

\* ...and creates it from the new file.
DeployConfig ==
    /\ config = "none"
    /\ config' \in Mode
    /\ UNCHANGED <<deploys, service, doomed, pc, wanted, address, expired>>

Next ==
    \/ \E o \in Orch : Ensure(o) \/ PodThread(o) \/ Expire(o)
    \/ Reap \/ RemoveConfig \/ DeployConfig

Spec == Init /\ [][Next]_vars

\* The threads run, time passes and the API server finishes its deletions.
Fairness ==
    /\ \A o \in Orch : WF_vars(Ensure(o)) /\ WF_vars(PodThread(o)) /\ WF_vars(Expire(o))
    /\ WF_vars(Reap) /\ WF_vars(DeployConfig)

FairSpec == Spec /\ Fairness

-----------------------------------------------------------------------------
(* Properties.                                                             *)

\* A process has a mode of the cluster definition as soon as it looks for a
\* service, and only a service that exists is being deleted.
TypeOK ==
    /\ config \in Mode \cup {"none"}
    /\ deploys \in 0..MaxDeploys
    /\ service \in Mode \cup {"none"}
    /\ doomed \in BOOLEAN
    /\ doomed => service # "none"
    /\ pc \in [Orch -> Ensuring \cup Waiting \cup Over]
    /\ wanted \in [Orch -> Mode \cup {"none"}]
    /\ address \in [Orch -> Mode \cup {"none"}]
    /\ expired \in [Orch -> BOOLEAN]
    /\ \A o \in Orch : pc[o] \notin {"ensure", "raised"} => wanted[o] # "none"

\* o has returned from create_port_infrastructure.
Ensured(o) == pc[o] \in Waiting \cup {"up"}

\* However the checks, deletions and creations of the processes interleave, and
\* whatever modes they have read: when the last of them has left
\* create_port_infrastructure, and none gave up in the middle, there is a service,
\* it stays, and it is what one of them wants.
Settled ==
    (/\ \A o \in Orch : pc[o] \notin Ensuring \cup {"gaveup"}
     /\ \E o \in Orch : Ensured(o)) =>
        service # "none" /\ ~doomed /\ \E o \in Orch : service = wanted[o]

\* create_port_infrastructure ends: its only loop has a limit of its own, also
\* when other processes create the service as fast as it is deleted.
EnsureEnds == \A o \in Orch : <>(pc[o] \notin Ensuring)

\* "Ensures LoadBalancer or NodePort service exists": the call does not fail
\* because the service it wants exists (docstring of create_port_infrastructure).
NoFailureForService ==
    [][\A o \in Orch : pc[o] = "create" /\ pc'[o] = "refused" => service # wanted[o]]_vars
=============================================================================
