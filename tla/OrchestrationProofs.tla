------------------------- MODULE OrchestrationProofs -------------------------
(***************************************************************************)
(* Proofs about Orchestration, for every set of orchestrations, requests   *)
(* and resources and for every kind and number of failures.  First the     *)
(* types, who may free a lock (OnlyOwnerFrees), and that nothing is given  *)
(* twice (Exclusive).                                                      *)
(*                                                                         *)
(* Exclusive is not inductive.  What makes it so is where the locks of a   *)
(* resource are known to be held before the resource is given (PlanHeld,   *)
(* SpaceHeld), that they stay held once it is (GivenHeld), and that a      *)
(* cleanup deletes nothing that is not its own (CleanOwn), although it     *)
(* works from a list it made earlier.                                      *)
(*                                                                         *)
(* Then what a network has while it lives and leaves when it is over: that *)
(* a network that is up is backed by all it asked for                      *)
(* (ReadyMeansBacked, under every kind of failure), that what a container  *)
(* uses stays locked (UsedWhileLocked, unless a pod is deleted by force),  *)
(* that nothing is left behind (NothingLeft, unless a call of the cleanup  *)
(* fails), and that Orchestration implements ResourcePool                  *)
(* (SharesResources, unless a pod is deleted by force).                    *)
(*                                                                         *)
(* They rest on the invariant of Exclusive, and on where the main thread   *)
(* is while the threads of the pods run: they start after the reservations *)
(* and have stopped before the network is up or the cleanup begins, so     *)
(* that the cleanup lists all there will ever be.                          *)
(*                                                                         *)
(* The refinement needs two facts more: that the pods of an orchestration  *)
(* that has crashed or is over share nothing either (AlwaysApart), because *)
(* they may still start and run, and that only the pods of a request run   *)
(* (NoStrangers). Then each step of a process, a thread, a kubelet or the  *)
(* clock is one step of the pool, or none.                                 *)
(***************************************************************************)
EXTENDS Orchestration, TLAPS

-----------------------------------------------------------------------------
(* Facts about the requests.                                               *)

\* A matching is a sequence of resources as long as what is wanted.
LEMMA MatchesType ==
    ASSUME NEW p \in Pod, NEW S \in SUBSET Lock, NEW m \in Matches(p, S)
    PROVE  /\ m \in Seq(Lock)
           /\ Len(m) = Len(Wanted[p])
<1>1. Wanted[p] \in Seq(SUBSET ClusterResource)
  BY RequestAssumption
<1>2. DOMAIN Wanted[p] = 1..Len(Wanted[p]) /\ Len(Wanted[p]) \in Nat
  BY <1>1
<1>3. m \in [1..Len(Wanted[p]) -> S]
  BY <1>2 DEF Matches
<1>4. m \in Seq(Lock) /\ Len(m) = Len(Wanted[p])
  BY <1>2, <1>3
<1>5. \A i \in 1..Len(m) : m[i] \in Wanted[p][i]
  BY <1>2, <1>4 DEF Matches
<1> QED
  BY <1>1, <1>2, <1>4, <1>5

\* The pods of the requests are pods, and no pod is of two requests.
LEMMA MyPodsType == \A o \in Orch : MyPods(o) \subseteq Pod
  BY RequestAssumption DEF MyPods

\* A pod is of one request.
LEMMA OwnPods ==
    ASSUME NEW o \in Orch, NEW q \in Orch, NEW p \in MyPods(o), p \in MyPods(q) PROVE o = q
  BY RequestAssumption DEF MyPods

-----------------------------------------------------------------------------
(* The inductive invariant.                                                *)

\* The request that the main thread is at exists and asks for something, and
\* the resource it is at is one of the plan.
Serving ==
    \A o \in Orch :
        /\ pc[o] \in {"look", "lock", "data"} =>
                /\ cur[o] \in DOMAIN PodsOf[o]
                /\ Wanted[CurPod(o)] # <<>>
        /\ pc[o] \in {"lock", "data"} => item[o] \in DOMAIN plan[o]

\* While a plan is being reserved, what is before the current resource, and
\* once it is locked the resource too, is held and given to no pod.
PlanHeld ==
    \A o \in Orch : pc[o] \in {"lock", "data"} =>
        \A i \in DOMAIN plan[o] :
            (i < item[o] \/ (i = item[o] /\ pc[o] = "data")) =>
                /\ cm[plan[o][i]] = o
                /\ \A p \in MyPods(o) : plan[o][i] \notin Given(p)

\* Spaces are tried, and the one being written down is held.
SpaceHeld ==
    \A o \in Orch :
        /\ pc[o] \in {"nodelock", "nodedata"} => free[o] \subseteq Space
        /\ pc[o] = "nodedata" => Planned(o) \subseteq Space /\ \A n \in Planned(o) : cm[n] = o

\* What is given is held.
GivenHeld ==
    \A o \in Orch : Booked(o) => \A p \in MyPods(o) : \A n \in Given(p) : cm[n] = o

\* The pods of an orchestration share nothing but spaces.
GivenApart ==
    \A o \in Orch : Booked(o) =>
        \A p, q \in MyPods(o) : p # q => Given(p) \cap Given(q) \subseteq Space

\* A cleanup has only ConfigMaps of its own on its list.
CleanOwn == \A o \in Orch : pc[o] = "delcm" => \A n \in victims[o] : n \in Name /\ cm[n] = o

IInv ==
    /\ TypeOK /\ Serving /\ PlanHeld /\ SpaceHeld
    /\ GivenHeld /\ GivenApart /\ CleanOwn

\* The body of OnlyOwnerFrees.
OnlyOwner == \A n \in Name : cm'[n] # cm[n] =>
                \/ cm[n] = NoOne
                \/ cm'[n] = NoOne /\ pc[cm[n]] = "delcm"

\* In the phases that serve a request there is one.
LEMMA ServingPod ==
    ASSUME Serving, NEW o \in Orch, pc[o] \in {"look", "lock", "data"}
    PROVE  CurPod(o) \in MyPods(o) /\ CurPod(o) \in Pod
  BY MyPodsType DEF Serving, CurPod, MyPods

-----------------------------------------------------------------------------
(* Type correctness.                                                       *)

\* What the answers of the API server leave of the ConfigMaps is typed.
LEMMA CallTypes ==
    ASSUME TypeOK, NEW o \in Orch
    PROVE  /\ \A n : Created(o, n) => cm' \in [Name -> Orch \cup {NoOne}] /\ faults' \in Nat
           /\ \A n : Refused(n) => cm' \in [Name -> Orch \cup {NoOne}] /\ faults' \in Nat
           /\ \A n : CreateRaised(o, n) => cm' \in [Name -> Orch \cup {NoOne}] /\ faults' \in Nat
           /\ \A k : Fault(k) => faults' \in Nat
<1>1. ASSUME NEW n, Created(o, n) PROVE cm' \in [Name -> Orch \cup {NoOne}] /\ faults' \in Nat
  BY <1>1 DEF TypeOK, Created
<1>2. ASSUME NEW n, Refused(n) PROVE cm' \in [Name -> Orch \cup {NoOne}] /\ faults' \in Nat
  BY <1>2 DEF TypeOK, Refused, Fault
<1>3. ASSUME NEW n, CreateRaised(o, n) PROVE cm' \in [Name -> Orch \cup {NoOne}] /\ faults' \in Nat
  <2>1. faults' \in Nat
    BY <1>3 DEF TypeOK, CreateRaised, Fault
  <2>2. CASE UNCHANGED cm
    BY <2>1, <2>2 DEF TypeOK
  <2>3. CASE cm' = [cm EXCEPT ![n] = o]
    BY <2>1, <2>3 DEF TypeOK
  <2> QED
    BY <1>3, <2>2, <2>3 DEF CreateRaised
<1>4. ASSUME NEW k, Fault(k) PROVE faults' \in Nat
  BY <1>4 DEF TypeOK, Fault
<1> QED
  BY <1>1, <1>2, <1>3, <1>4

\* What a jump and an exception of the main thread leave is typed.
LEMMA PhaseTypes ==
    ASSUME TypeOK, NEW o \in Orch
    PROVE  /\ \A ph \in Phase : Goto(o, ph) => pc' \in [Orch -> Phase]
           /\ Raise(o) => pc' \in [Orch -> Phase] /\ attempts' \in [Orch -> {0, 1, 2}]
<1>1. ASSUME NEW ph \in Phase, Goto(o, ph) PROVE pc' \in [Orch -> Phase]
  BY <1>1 DEF TypeOK, Goto
<1>2. ASSUME Raise(o) PROVE pc' \in [Orch -> Phase] /\ attempts' \in [Orch -> {0, 1, 2}]
  BY <1>2 DEF TypeOK, Raise, Phase
<1> QED
  BY <1>1, <1>2

\* What a cleanup that raises leaves is typed.
LEMMA CleanupTypes ==
    ASSUME TypeOK, NEW o \in Orch, CleanupRaises(o)
    PROVE  /\ pc' \in [Orch -> Phase] /\ attempts' \in [Orch -> {0, 1, 2}]
           /\ victims' \in [Orch -> SUBSET (Pod \cup Name)] /\ faults' \in Nat
<1>1. faults' \in Nat
  BY CallTypes DEF CleanupRaises
<1>2. pc' \in [Orch -> Phase]
  BY PhaseTypes DEF CleanupRaises, Phase
<1>3. attempts' \in [Orch -> {0, 1, 2}]
  BY DEF TypeOK, CleanupRaises
<1>4. victims' \in [Orch -> SUBSET (Pod \cup Name)]
  BY DEF TypeOK, CleanupRaises
<1> QED
  BY <1>1, <1>2, <1>3, <1>4

\* A thread that goes to another state is typed.
LEMMA WorkerTypes ==
    ASSUME TypeOK, NEW p \in Pod, NEW s \in WorkerState, SetWorker(p, s)
    PROVE  worker' \in [Pod -> WorkerState]
  BY DEF TypeOK, SetWorker

\* The threads of get_ports are numbered.
LEMMA AskTypes ==
    ASSUME TypeOK, NEW p \in Pod
    PROVE  /\ AskPorts(p, NofPorts[p]) => asking' \in [Pod -> SUBSET Nat]
           /\ AskPorts(p, NofExtraPorts) => asking' \in [Pod -> SUBSET Nat]
<1>1. ASSUME NEW n \in Nat, AskPorts(p, n) PROVE asking' \in [Pod -> SUBSET Nat]
  <2>1. 1..n \in SUBSET Nat
    OBVIOUS
  <2> QED
    BY <1>1, <2>1 DEF TypeOK, AskPorts
<1>2. NofPorts[p] \in Nat /\ NofExtraPorts \in Nat
  BY RequestAssumption
<1> QED
  BY <1>1, <1>2

\* The initial states have their types.
LEMMA TypeInit == Init => TypeOK
  BY OrchAssumption, RequestAssumption DEF Init, TypeOK, Phase, WorkerState, PodState

\* Every step of the main thread keeps the types.
LEMMA TypeMain == ASSUME TypeOK, Serving, NEW o \in Orch, MainThread(o) PROVE TypeOK'
<1> USE DEF passVars, planVars, workerVars, podVars
<1>1. ASSUME CreateOrchId(o) PROVE TypeOK'
  BY <1>1, CallTypes, PhaseTypes DEF TypeOK, CreateOrchId, Phase
<1>2. ASSUME ParseRequest(o) PROVE TypeOK'
  BY <1>2, CallTypes, PhaseTypes DEF TypeOK, ParseRequest, Phase
<1>3. ASSUME StartClusterPass(o) PROVE TypeOK'
  <2>1. cur[o] + 1 \in Nat \ {0}
    BY DEF TypeOK
  <2>2. unseen' \in [Orch -> SUBSET Lock]
    BY <1>3 DEF TypeOK, StartClusterPass, Lock
  <2>4. free' \in [Orch -> SUBSET Lock] 
    BY <1>3 DEF TypeOK, StartClusterPass, Lock
  <2>3. cur' \in [Orch -> Nat \ {0}]
    BY <1>3, <2>1 DEF TypeOK, StartClusterPass
  <2> QED
    BY <1>3, <2>2, <2>3, <2>4, PhaseTypes DEF TypeOK, StartClusterPass, Phase
<1>4. ASSUME ReadAvailability(o) PROVE TypeOK'
  <2>1. CASE UNCHANGED passVars
    BY <2>1, <1>4, CallTypes, PhaseTypes DEF TypeOK, ReadAvailability
  <2>2. ASSUME NEW x \in unseen[o], UNCHANGED <<pc, faults, attempts>>,
               unseen' = [unseen EXCEPT ![o] = unseen[o] \ {x}],
               free' = [free EXCEPT ![o] = IF cm[x] = NoOne THEN free[o] \cup {x} ELSE free[o]]
        PROVE  TypeOK'
    <3>1. x \in Lock /\ unseen[o] \subseteq Lock /\ free[o] \subseteq Lock
      BY DEF TypeOK
    <3>2. unseen' \in [Orch -> SUBSET Lock]
      BY <2>2, <3>1 DEF TypeOK
    <3>3. free' \in [Orch -> SUBSET Lock]
      BY <2>2, <3>1 DEF TypeOK
    <3> QED
      BY <1>4, <2>2, <3>2, <3>3 DEF TypeOK, ReadAvailability
  <2> QED
    BY <1>4, <2>1, <2>2 DEF ReadAvailability
<1>5. ASSUME MatchCluster(o) PROVE TypeOK'
  <2>1. CASE UNCHANGED <<plan, item>>
    BY <1>5, <2>1, PhaseTypes DEF TypeOK, MatchCluster, Phase
  <2>2. ASSUME NEW m \in Matches(CurPod(o), free[o]), plan' = [plan EXCEPT ![o] = m],
               item' = [item EXCEPT ![o] = 1], Goto(o, "lock"), UNCHANGED attempts
        PROVE  TypeOK'
    <3>1. CurPod(o) \in Pod
      BY <1>5, ServingPod DEF MatchCluster
    <3>2. m \in Seq(Lock)
      BY <3>1, MatchesType DEF TypeOK
    <3>3. plan' \in [Orch -> Seq(Lock)] /\ item' \in [Orch -> Nat \ {0}]
      BY <2>2, <3>2 DEF TypeOK
    <3> QED
      BY <1>5, <2>2, <3>3, PhaseTypes DEF TypeOK, MatchCluster, Phase
  <2> QED
    BY <1>5, <2>1, <2>2 DEF MatchCluster
<1>6. ASSUME LockResource(o) PROVE TypeOK'
  BY <1>6, CallTypes, PhaseTypes DEF TypeOK, LockResource, Phase
<1>7. ASSUME CreateResourceData(o) PROVE TypeOK'
  <2>1. item[o] + 1 \in Nat \ {0} /\ cur[o] + 1 \in Nat \ {0} /\ Planned(o) \subseteq Lock
    BY DEF TypeOK, Planned
  <2>2. cur' \in [Orch -> Nat \ {0}]
    BY <1>7, <2>1 DEF TypeOK, CreateResourceData
  <2>4. item' \in [Orch -> Nat \ {0}]
    BY <1>7, <2>1 DEF TypeOK, CreateResourceData
  <2>3. reserved' \in [Pod -> SUBSET Lock]
    <3>1. CASE UNCHANGED reserved
      BY <3>1 DEF TypeOK
    <3>2. CASE reserved' = [reserved EXCEPT ![CurPod(o)] = reserved[CurPod(o)] \cup Planned(o)]
      BY <2>1, <3>2 DEF TypeOK
    <3> QED
      BY <1>7, <3>1, <3>2 DEF CreateResourceData
  <2> QED
    BY <1>7, <2>2, <2>3, <2>4, CallTypes, PhaseTypes DEF TypeOK, CreateResourceData, Phase
<1>8. ASSUME StartNodePass(o) PROVE TypeOK'
  <2>1. unseen' \in [Orch -> SUBSET Lock]
    BY <1>8 DEF TypeOK, StartNodePass, Lock
  <2>2. free' \in [Orch -> SUBSET Lock]
    BY <1>8 DEF TypeOK, StartNodePass, Lock
  <2> QED
    BY <1>8, <2>1, <2>2, PhaseTypes DEF TypeOK, StartNodePass, Phase
<1>9. ASSUME MatchSpaces(o) PROVE TypeOK'
  BY <1>9, PhaseTypes DEF TypeOK, MatchSpaces, Phase
<1>10. ASSUME LockSpace(o) PROVE TypeOK'
  <2>1. CASE UNCHANGED <<free, plan, item>>
    BY <2>1, <1>10, CallTypes, PhaseTypes DEF TypeOK, LockSpace, Phase
  <2>2. ASSUME NEW s \in free[o], free' = [free EXCEPT ![o] = free[o] \ {s}]
        PROVE  free' \in [Orch -> SUBSET Lock] /\ <<s>> \in Seq(Lock)
    BY <2>2 DEF TypeOK
  <2>3. plan' \in [Orch -> Seq(Lock)]
    <3>1. CASE UNCHANGED plan
      BY <3>1 DEF TypeOK
    <3>2. ASSUME NEW s \in free[o], plan' = [plan EXCEPT ![o] = <<s>>]
          PROVE  plan' \in [Orch -> Seq(Lock)]
      <4>1. <<s>> \in Seq(Lock)
        BY DEF TypeOK
      <4> QED
        BY <3>2, <4>1 DEF TypeOK
    <3> QED
      BY <1>10, <3>1, <3>2 DEF LockSpace
  <2>4. item' \in [Orch -> Nat \ {0}]
    <3>1. UNCHANGED item \/ item' = [item EXCEPT ![o] = 1]
      BY <1>10 DEF LockSpace
    <3> QED
      BY <3>1 DEF TypeOK
  <2> QED
    BY <1>10, <2>1, <2>2, <2>3, <2>4, CallTypes, PhaseTypes DEF TypeOK, LockSpace, Phase
<1>11. ASSUME CreateNodeData(o) PROVE TypeOK'
  <2>1. item[o] + 1 \in Nat \ {0} /\ Planned(o) \subseteq Lock
    BY DEF TypeOK, Planned
  <2>2. item' \in [Orch -> Nat \ {0}]
    BY <1>11, <2>1 DEF TypeOK, CreateNodeData
  <2>3. reserved' \in [Pod -> SUBSET Lock]
    <3>1. CASE UNCHANGED reserved
      BY <3>1 DEF TypeOK
    <3>2. CASE reserved' = [p \in Pod |-> IF p \in SpaceUsers(o)
                                          THEN reserved[p] \cup Planned(o) ELSE reserved[p]]
      BY <2>1, <3>2 DEF TypeOK
    <3> QED
      BY <1>11, <3>1, <3>2 DEF CreateNodeData
  <2> QED
    BY <1>11, <2>2, <2>3, CallTypes, PhaseTypes DEF TypeOK, CreateNodeData, Phase
<1>12. ASSUME EnsurePortService(o) PROVE TypeOK'
  <2>1. pc' \in [Orch -> Phase] /\ attempts' \in [Orch -> {0, 1, 2}] /\ faults' \in Nat
    <3>1. CASE Goto(o, "pods") /\ UNCHANGED <<faults, attempts>>
      BY <3>1, PhaseTypes DEF TypeOK, Phase
    <3>2. CASE Fault("lost") /\ Raise(o)
      BY <3>2, CallTypes, PhaseTypes
    <3> QED
      BY <1>12, <3>1, <3>2 DEF EnsurePortService
  <2>2. cur' \in [Orch -> Nat \ {0}]
    BY <1>12 DEF TypeOK, EnsurePortService
  <2>3. UNCHANGED <<cm, unseen, free, plan, item, expired, victims, reserved, worker, ports, asking, tried,
                    object, container>>
    BY <1>12 DEF EnsurePortService
  <2> QED
    BY <2>1, <2>2, <2>3 DEF TypeOK
<1>13. ASSUME AwaitPods(o) PROVE TypeOK'
  <2>1. cur[o] + 1 \in Nat \ {0}
    BY DEF TypeOK
  <2>2. cur' \in [Orch -> Nat \ {0}]
    BY <1>13, <2>1 DEF TypeOK, AwaitPods
  <2>3. worker' \in [Pod -> WorkerState]
    BY <1>13 DEF TypeOK, AwaitPods, CancelFutures, WorkerState
  <2>4. expired' \in [Orch -> BOOLEAN]
    BY <1>13 DEF TypeOK, AwaitPods
  <2> QED
    BY <1>13, <2>2, <2>3, <2>4, PhaseTypes DEF TypeOK, AwaitPods, Phase
<1>14. ASSUME Shutdown(o) PROVE TypeOK'
  BY <1>14, PhaseTypes DEF TypeOK, Shutdown, Phase
<1>15. ASSUME Finish(o) PROVE TypeOK'
  BY <1>15, PhaseTypes DEF TypeOK, Finish, Phase
<1>16. ASSUME ListPods(o) PROVE TypeOK'
  <2>1. {p \in MyPods(o) : object[p] # "none"} \subseteq Pod
    BY MyPodsType
  <2>2. CASE CleanupRaises(o)
    BY <1>16, <2>2, CleanupTypes DEF TypeOK, ListPods
  <2>3. CASE Goto(o, "delpods") /\ UNCHANGED <<faults, attempts>>
             /\ victims' = [victims EXCEPT ![o] = {p \in MyPods(o) : object[p] # "none"}]
    BY <1>16, <2>1, <2>3, PhaseTypes DEF TypeOK, ListPods, Phase
  <2> QED
    BY <1>16, <2>2, <2>3 DEF ListPods
<1>17. ASSUME NEW p \in MyPods(o), DeletePod(o, p) PROVE TypeOK'
  <2>1. object' \in [Pod -> PodState]
    BY <1>17, MyPodsType DEF TypeOK, DeletePod, PodState
  <2>2. victims' \in [Orch -> SUBSET (Pod \cup Name)]
    BY <1>17 DEF TypeOK, DeletePod
  <2> QED
    BY <1>17, <2>1, <2>2, CallTypes DEF TypeOK, DeletePod
<1>18. ASSUME ListConfigMaps(o) PROVE TypeOK'
  <2>1. OwnConfigMaps(o) \subseteq Name
    BY DEF OwnConfigMaps
  <2>2. CASE CleanupRaises(o)
    BY <1>18, <2>2, CleanupTypes DEF TypeOK, ListConfigMaps
  <2>3. CASE Goto(o, "delcm") /\ UNCHANGED <<faults, attempts>>
             /\ victims' = [victims EXCEPT ![o] = OwnConfigMaps(o)]
    BY <1>18, <2>1, <2>3, PhaseTypes DEF TypeOK, ListConfigMaps, Phase
  <2> QED
    BY <1>18, <2>2, <2>3 DEF ListConfigMaps
<1>19. ASSUME DeleteConfigMap(o) PROVE TypeOK'
  <2>1. cm' \in [Name -> Orch \cup {NoOne}]
    BY <1>19 DEF TypeOK, DeleteConfigMap
  <2>2. victims' \in [Orch -> SUBSET (Pod \cup Name)]
    BY <1>19 DEF TypeOK, DeleteConfigMap
  <2> QED
    BY <1>19, <2>1, <2>2, CallTypes DEF TypeOK, DeleteConfigMap
<1>20. ASSUME CleanupDone(o) PROVE TypeOK'
  BY <1>20, PhaseTypes DEF TypeOK, CleanupDone, Phase
<1> QED
  BY <1>1, <1>2, <1>3, <1>4, <1>5, <1>6, <1>7, <1>8, <1>9, <1>10, <1>11,
     <1>12, <1>13, <1>14, <1>15, <1>16, <1>17, <1>18, <1>19, <1>20 DEF MainThread

\* Every step of a thread or of a kubelet keeps the types.
LEMMA TypePod ==
    ASSUME TypeOK, NEW o \in Orch, NEW p \in MyPods(o), Worker(o, p) \/ Kubelet(o, p)
    PROVE  TypeOK'
<1> USE DEF passVars, planVars, workerVars, podVars
<1>0. p \in Pod
  BY MyPodsType
<1>1. ASSUME StartWorker(o, p) PROVE TypeOK'
  BY <1>0, <1>1, WorkerTypes, AskTypes DEF TypeOK, StartWorker, WorkerState
<1>2. ASSUME ReservePort(o, p) PROVE TypeOK'
  <2>1. ports' \in [Pod -> SUBSET Port]
    <3>1. CASE UNCHANGED ports
      BY <3>1 DEF TypeOK
    <3>2. ASSUME NEW x \in Port, ports' = [ports EXCEPT ![p] = ports[p] \cup {x}]
          PROVE  ports' \in [Pod -> SUBSET Port]
      BY <1>0, <3>2 DEF TypeOK
    <3> QED
      BY <1>2, <3>1, <3>2 DEF ReservePort
  <2>2. ASSUME NEW i, StopAsking(p, i)
        PROVE  asking' \in [Pod -> SUBSET Nat] /\ tried' \in [Pod -> SUBSET (Nat \X Port)]
    BY <1>0, <2>2 DEF TypeOK, StopAsking
  <2>3. ASSUME NEW i \in asking[p], NEW x \in Port, UNCHANGED asking,
               tried' = [tried EXCEPT ![p] = tried[p] \cup {<<i, x>>}]
        PROVE  asking' \in [Pod -> SUBSET Nat] /\ tried' \in [Pod -> SUBSET (Nat \X Port)]
    <3>1. <<i, x>> \in Nat \X Port
      BY <1>0 DEF TypeOK
    <3> QED
      BY <1>0, <2>3, <3>1 DEF TypeOK
  <2>4. asking' \in [Pod -> SUBSET Nat] /\ tried' \in [Pod -> SUBSET (Nat \X Port)]
    BY <1>2, <2>2, <2>3 DEF ReservePort
  <2>5. cm' \in [Name -> Orch \cup {NoOne}] /\ faults' \in Nat
    BY <1>2, CallTypes DEF TypeOK, ReservePort
  <2> QED
    BY <1>2, <2>1, <2>4, <2>5 DEF TypeOK, ReservePort
<1>3. ASSUME CreatePodData(o, p) PROVE TypeOK'
  BY <1>0, <1>3, CallTypes, WorkerTypes DEF TypeOK, CreatePodData, WorkerState
<1>4. ASSUME CreatePod(o, p) PROVE TypeOK'
  BY <1>0, <1>4, CallTypes, WorkerTypes DEF TypeOK, CreatePod, WorkerState, PodState
<1>5. ASSUME WatchPod(o, p) PROVE TypeOK'
  BY <1>0, <1>5, CallTypes, WorkerTypes DEF TypeOK, WatchPod, WorkerState, PodState
<1>6. ASSUME CopyBinaries(o, p) PROVE TypeOK'
  BY <1>0, <1>6, CallTypes, WorkerTypes DEF TypeOK, CopyBinaries, WorkerState
<1>7. ASSUME CheckPodPorts(o, p) PROVE TypeOK'
  BY <1>0, <1>7, WorkerTypes DEF TypeOK, CheckPodPorts, WorkerState
<1>8. ASSUME KubeletStart(o, p) PROVE TypeOK'
  BY <1>0, <1>8 DEF TypeOK, KubeletStart, PodState
<1>9. ASSUME KubeletReject(p) PROVE TypeOK'
  BY <1>0, <1>9, CallTypes DEF TypeOK, KubeletReject, PodState
<1>10. ASSUME KubeletStop(p) PROVE TypeOK'
  BY <1>0, <1>10 DEF TypeOK, KubeletStop, PodState
<1>11. ASSUME GetPorts(o, p) PROVE TypeOK'
  BY <1>0, <1>11, WorkerTypes, AskTypes DEF TypeOK, GetPorts, WorkerState
<1> QED
  BY <1>1, <1>2, <1>3, <1>4, <1>5, <1>6, <1>7, <1>8, <1>9, <1>10, <1>11 DEF Worker, Kubelet

\* Every step keeps the types.
LEMMA TypeStep == TypeOK /\ Serving /\ [Next]_vars => TypeOK'
<1> SUFFICES ASSUME TypeOK, Serving, [Next]_vars PROVE TypeOK'
  OBVIOUS
<1>1. ASSUME NEW o \in Orch, Expire(o) PROVE TypeOK'
  BY <1>1 DEF TypeOK, Expire, passVars, planVars, workerVars, podVars
<1>2. ASSUME NEW o \in Orch, Crash(o) PROVE TypeOK'
  BY <1>2, CallTypes, PhaseTypes DEF TypeOK, Crash, Phase, passVars, planVars, workerVars, podVars
<1>3. CASE UNCHANGED vars
  BY <1>3 DEF TypeOK, vars, passVars, planVars, workerVars, podVars
<1> QED
  BY <1>1, <1>2, <1>3, TypeMain, TypePod DEF Next

-----------------------------------------------------------------------------
(* What the steps have in common.                                          *)

\* At most ConfigMaps that did not exist are created, for o.
Gains(o) == \A n \in Name : cm'[n] # cm[n] => cm[n] = NoOne /\ cm'[n] = o

\* What the other orchestrations see of a step of o: nothing.
Apart(o) ==
    \A q \in Orch \ {o} :
        /\ pc'[q] = pc[q] /\ cur'[q] = cur[q] /\ free'[q] = free[q]
        /\ plan'[q] = plan[q] /\ item'[q] = item[q] /\ victims'[q] = victims[q]

\* Which step of the main thread leads where, and changes what.
Leads(o) ==
    /\ pc'[o] = "look" => StartClusterPass(o) \/ ReadAvailability(o)
    /\ pc'[o] = "lock" => MatchCluster(o) \/ CreateResourceData(o)
    /\ pc'[o] = "data" => LockResource(o)
    /\ pc'[o] = "nodelock" => MatchSpaces(o) \/ LockSpace(o) \/ CreateNodeData(o)
    /\ pc'[o] = "nodedata" => LockSpace(o) \/ CreateNodeData(o)
    /\ pc'[o] = "delcm" => ListConfigMaps(o) \/ DeleteConfigMap(o)
    /\ pc[o] \in {"delcm", "done", "crashed"} => pc'[o] \in {"delcm", "done", "crashed"}
    /\ UNCHANGED reserved \/ CreateResourceData(o) \/ CreateNodeData(o)
    /\ Gains(o) \/ DeleteConfigMap(o)
    /\ UNCHANGED ports

\* A port is taken for one of the pods of o.
TakesPort(o) ==
    \E p \in MyPods(o), x \in Port :
        /\ cm[x] = NoOne /\ cm'[x] = o
        /\ ports' = [ports EXCEPT ![p] = ports[p] \cup {x}]

\* What a step of a thread, a kubelet, the clock or a crash leaves alone.
Stays(o) ==
    /\ pc'[o] = pc[o] \/ pc'[o] = "crashed"
    /\ UNCHANGED <<cur, plan, item, free, victims, reserved>>
    /\ Gains(o)
    /\ UNCHANGED ports \/ TakesPort(o)

\* A call that creates a ConfigMap changes nothing but that ConfigMap.
LEMMA CallGains ==
    ASSUME TypeOK, NEW o \in Orch
    PROVE  /\ \A n : Created(o, n) => Gains(o)
           /\ \A n : Refused(n) => Gains(o)
           /\ \A n : CreateRaised(o, n) => Gains(o)
           /\ UNCHANGED cm => Gains(o)
<1>1. ASSUME NEW n, Created(o, n) PROVE Gains(o)
  BY <1>1 DEF TypeOK, Created, Gains
<1>2. ASSUME NEW n, Refused(n) PROVE Gains(o)
  BY <1>2 DEF TypeOK, Refused, Gains
<1>3. ASSUME NEW n, CreateRaised(o, n) PROVE Gains(o)
  <2>1. CASE UNCHANGED cm
    BY <2>1 DEF Gains
  <2>2. CASE cm[n] = NoOne /\ cm' = [cm EXCEPT ![n] = o]
    BY <2>2 DEF TypeOK, Gains
  <2> QED
    BY <1>3, <2>1, <2>2 DEF CreateRaised
<1>4. UNCHANGED cm => Gains(o)
  BY DEF Gains
<1> QED
  BY <1>1, <1>2, <1>3, <1>4

\* The steps of the main thread lead where Leads says.
LEMMA MainLeads ==
    ASSUME TypeOK, NEW o \in Orch, MainThread(o)
    PROVE  Leads(o)
<1> USE DEF passVars, planVars, workerVars, podVars
<1>1. ASSUME CreateOrchId(o) PROVE Leads(o)
  BY <1>1, CallGains DEF TypeOK, CreateOrchId, Goto, Leads
<1>2. ASSUME ParseRequest(o) PROVE Leads(o)
  BY <1>2, CallGains DEF TypeOK, ParseRequest, Goto, Raise, Leads
<1>3. ASSUME StartClusterPass(o) PROVE Leads(o)
  BY <1>3, CallGains DEF TypeOK, StartClusterPass, Goto, Raise, Leads
<1>4. ASSUME ReadAvailability(o) PROVE Leads(o)
  BY <1>4, CallGains DEF TypeOK, ReadAvailability, Raise, Leads
<1>5. ASSUME MatchCluster(o) PROVE Leads(o)
  BY <1>5, CallGains DEF TypeOK, MatchCluster, Goto, Raise, Leads
<1>6. ASSUME LockResource(o) PROVE Leads(o)
  BY <1>6, CallGains DEF TypeOK, LockResource, Goto, Raise, Leads
<1>7. ASSUME CreateResourceData(o) PROVE Leads(o)
  BY <1>7, CallGains DEF TypeOK, CreateResourceData, Goto, Raise, Leads
<1>8. ASSUME StartNodePass(o) PROVE Leads(o)
  BY <1>8, CallGains DEF TypeOK, StartNodePass, Goto, Raise, Leads
<1>9. ASSUME MatchSpaces(o) PROVE Leads(o)
  BY <1>9, CallGains DEF TypeOK, MatchSpaces, Goto, Leads
<1>10. ASSUME LockSpace(o) PROVE Leads(o)
  BY <1>10, CallGains DEF TypeOK, LockSpace, Goto, Raise, Leads
<1>11. ASSUME CreateNodeData(o) PROVE Leads(o)
  BY <1>11, CallGains DEF TypeOK, CreateNodeData, Goto, Raise, Leads
<1>12. ASSUME EnsurePortService(o) PROVE Leads(o)
  BY <1>12, CallGains DEF TypeOK, EnsurePortService, Goto, Raise, Leads
<1>13. ASSUME AwaitPods(o) PROVE Leads(o)
  BY <1>13, CallGains DEF TypeOK, AwaitPods, Goto, Leads
<1>14. ASSUME Shutdown(o) PROVE Leads(o)
  BY <1>14, CallGains DEF TypeOK, Shutdown, Goto, Raise, Leads
<1>15. ASSUME Finish(o) PROVE Leads(o)
  BY <1>15, CallGains DEF TypeOK, Finish, Goto, Leads
<1>16. ASSUME ListPods(o) PROVE Leads(o)
  BY <1>16, CallGains DEF TypeOK, ListPods, Goto, CleanupRaises, Leads
<1>17. ASSUME NEW p \in MyPods(o), DeletePod(o, p) PROVE Leads(o)
  BY <1>17, CallGains DEF TypeOK, DeletePod, Leads
<1>18. ASSUME ListConfigMaps(o) PROVE Leads(o)
  BY <1>18, CallGains DEF TypeOK, ListConfigMaps, Goto, CleanupRaises, Leads
<1>19. ASSUME DeleteConfigMap(o) PROVE Leads(o)
  BY <1>19, CallGains DEF TypeOK, DeleteConfigMap, Leads
<1>20. ASSUME CleanupDone(o) PROVE Leads(o)
  BY <1>20, CallGains DEF TypeOK, CleanupDone, Goto, Leads
<1> QED
  BY <1>1, <1>2, <1>3, <1>4, <1>5, <1>6, <1>7, <1>8, <1>9, <1>10, <1>11,
     <1>12, <1>13, <1>14, <1>15, <1>16, <1>17, <1>18, <1>19, <1>20 DEF MainThread

\* The steps of the main thread concern one orchestration.
LEMMA MainApart ==
    ASSUME TypeOK, NEW o \in Orch, MainThread(o)
    PROVE  Apart(o)
<1> USE DEF passVars, planVars, workerVars, podVars
<1>1. ASSUME CreateOrchId(o) PROVE Apart(o)
  BY <1>1 DEF TypeOK, CreateOrchId, Goto, Apart
<1>2. ASSUME ParseRequest(o) PROVE Apart(o)
  BY <1>2 DEF TypeOK, ParseRequest, Goto, Raise, Apart
<1>3. ASSUME StartClusterPass(o) PROVE Apart(o)
  BY <1>3 DEF TypeOK, StartClusterPass, Goto, Raise, Apart
<1>4. ASSUME ReadAvailability(o) PROVE Apart(o)
  BY <1>4 DEF TypeOK, ReadAvailability, Raise, Apart
<1>5. ASSUME MatchCluster(o) PROVE Apart(o)
  BY <1>5 DEF TypeOK, MatchCluster, Goto, Raise, Apart
<1>6. ASSUME LockResource(o) PROVE Apart(o)
  BY <1>6 DEF TypeOK, LockResource, Goto, Raise, Apart
<1>7. ASSUME CreateResourceData(o) PROVE Apart(o)
  BY <1>7 DEF TypeOK, CreateResourceData, Goto, Raise, Apart
<1>8. ASSUME StartNodePass(o) PROVE Apart(o)
  BY <1>8 DEF TypeOK, StartNodePass, Goto, Raise, Apart
<1>9. ASSUME MatchSpaces(o) PROVE Apart(o)
  BY <1>9 DEF TypeOK, MatchSpaces, Goto, Apart
<1>10. ASSUME LockSpace(o) PROVE Apart(o)
  BY <1>10 DEF TypeOK, LockSpace, Goto, Raise, Apart
<1>11. ASSUME CreateNodeData(o) PROVE Apart(o)
  BY <1>11 DEF TypeOK, CreateNodeData, Goto, Raise, Apart
<1>12. ASSUME EnsurePortService(o) PROVE Apart(o)
  BY <1>12 DEF TypeOK, EnsurePortService, Goto, Raise, Apart
<1>13. ASSUME AwaitPods(o) PROVE Apart(o)
  BY <1>13 DEF TypeOK, AwaitPods, Goto, Apart
<1>14. ASSUME Shutdown(o) PROVE Apart(o)
  BY <1>14 DEF TypeOK, Shutdown, Goto, Raise, Apart
<1>15. ASSUME Finish(o) PROVE Apart(o)
  BY <1>15 DEF TypeOK, Finish, Goto, Apart
<1>16. ASSUME ListPods(o) PROVE Apart(o)
  BY <1>16 DEF TypeOK, ListPods, Goto, CleanupRaises, Apart
<1>17. ASSUME NEW p \in MyPods(o), DeletePod(o, p) PROVE Apart(o)
  BY <1>17 DEF TypeOK, DeletePod, Apart
<1>18. ASSUME ListConfigMaps(o) PROVE Apart(o)
  BY <1>18 DEF TypeOK, ListConfigMaps, Goto, CleanupRaises, Apart
<1>19. ASSUME DeleteConfigMap(o) PROVE Apart(o)
  BY <1>19 DEF TypeOK, DeleteConfigMap, Apart
<1>20. ASSUME CleanupDone(o) PROVE Apart(o)
  BY <1>20 DEF TypeOK, CleanupDone, Goto, Apart
<1> QED
  BY <1>1, <1>2, <1>3, <1>4, <1>5, <1>6, <1>7, <1>8, <1>9, <1>10, <1>11,
     <1>12, <1>13, <1>14, <1>15, <1>16, <1>17, <1>18, <1>19, <1>20 DEF MainThread

\* The threads and the kubelets leave the main thread alone.
LEMMA PodStays ==
    ASSUME TypeOK, NEW o \in Orch, NEW p \in MyPods(o), Worker(o, p) \/ Kubelet(o, p)
    PROVE  Stays(o) /\ UNCHANGED pc
<1> USE DEF passVars, planVars, workerVars, podVars
<1>0. p \in Pod
  BY MyPodsType
<1>1. ASSUME StartWorker(o, p) PROVE Stays(o) /\ UNCHANGED pc
  BY <1>1, CallGains DEF StartWorker, Stays
<1>2. ASSUME ReservePort(o, p) PROVE Stays(o) /\ UNCHANGED pc
  <2>1. ASSUME NEW x \in Port, Created(o, x), ports' = [ports EXCEPT ![p] = ports[p] \cup {x}]
        PROVE  TakesPort(o)
    <3>1. x \in Name
      BY DEF Name, Lock
    <3>2. cm[x] = NoOne /\ cm'[x] = o
      BY <2>1, <3>1 DEF TypeOK, Created
    <3> QED
      BY <2>1, <3>2 DEF TakesPort
  <2>2. UNCHANGED ports \/ TakesPort(o)
    BY <1>2, <2>1 DEF ReservePort
  <2>3. Gains(o)
    BY <1>2, CallGains DEF ReservePort
  <2> QED
    BY <1>2, <2>2, <2>3 DEF ReservePort, Stays
<1>3. ASSUME CreatePodData(o, p) PROVE Stays(o) /\ UNCHANGED pc
  BY <1>3, CallGains DEF CreatePodData, Stays
<1>4. ASSUME CreatePod(o, p) PROVE Stays(o) /\ UNCHANGED pc
  BY <1>4, CallGains DEF CreatePod, Stays
<1>5. ASSUME WatchPod(o, p) PROVE Stays(o) /\ UNCHANGED pc
  BY <1>5, CallGains DEF WatchPod, Stays
<1>6. ASSUME CopyBinaries(o, p) PROVE Stays(o) /\ UNCHANGED pc
  BY <1>6, CallGains DEF CopyBinaries, Stays
<1>7. ASSUME CheckPodPorts(o, p) PROVE Stays(o) /\ UNCHANGED pc
  BY <1>7, CallGains DEF CheckPodPorts, Stays
<1>8. ASSUME KubeletStart(o, p) PROVE Stays(o) /\ UNCHANGED pc
  BY <1>8, CallGains DEF KubeletStart, Stays
<1>9. ASSUME KubeletReject(p) PROVE Stays(o) /\ UNCHANGED pc
  BY <1>9, CallGains DEF KubeletReject, Stays
<1>10. ASSUME KubeletStop(p) PROVE Stays(o) /\ UNCHANGED pc
  BY <1>10, CallGains DEF KubeletStop, Stays
<1>11. ASSUME GetPorts(o, p) PROVE Stays(o) /\ UNCHANGED pc
  BY <1>11, CallGains DEF GetPorts, Stays
<1> QED
  BY <1>1, <1>2, <1>3, <1>4, <1>5, <1>6, <1>7, <1>8, <1>9, <1>10, <1>11 DEF Worker, Kubelet

\* Every step is one of the main thread of one orchestration, or leaves its
\* main thread where it is (or dead).
LEMMA StepOf ==
    ASSUME TypeOK, [Next]_vars, Orch # {}
    PROVE  \E o \in Orch : Apart(o) /\ ((MainThread(o) /\ Leads(o)) \/ Stays(o))
<1> USE DEF passVars, planVars, workerVars, podVars
<1>1. ASSUME NEW o \in Orch, MainThread(o) PROVE Apart(o) /\ Leads(o)
  BY <1>1, MainApart, MainLeads
<1>2. ASSUME NEW o \in Orch, Expire(o) PROVE Apart(o) /\ Stays(o)
  BY <1>2, CallGains DEF Expire, Apart, Stays
<1>3. ASSUME NEW o \in Orch, Crash(o) PROVE Apart(o) /\ Stays(o)
  BY <1>3, CallGains DEF TypeOK, Crash, Goto, Apart, Stays
<1>4. ASSUME NEW o \in Orch, NEW p \in MyPods(o), Worker(o, p) \/ Kubelet(o, p)
      PROVE  Apart(o) /\ Stays(o)
  BY <1>4, PodStays DEF Apart, Stays
<1>5. ASSUME UNCHANGED vars, NEW o \in Orch PROVE Apart(o) /\ Stays(o)
  BY <1>5, CallGains DEF vars, Apart, Stays
<1> QED
  BY <1>1, <1>2, <1>3, <1>4, <1>5 DEF Next

\* An orchestration that is booked was booked before.
LEMMA BookedBefore ==
    ASSUME NEW o \in Orch, Apart(o), Leads(o) \/ Stays(o), NEW q \in Orch, Booked(q)'
    PROVE  Booked(q)
  BY DEF Apart, Leads, Stays, Booked

-----------------------------------------------------------------------------
(* The locks.                                                              *)

\* What is given, and what is planned, has a lock.
LEMMA GivenType == ASSUME TypeOK, NEW o \in Orch, NEW p \in MyPods(o) PROVE Given(p) \subseteq Name
  BY MyPodsType DEF TypeOK, Given, Name, Lock

\* What is planned is a set of ConfigMaps.
LEMMA PlannedType == ASSUME TypeOK, NEW o \in Orch PROVE Planned(o) \subseteq Name
  BY DEF TypeOK, Planned, Name

\* No step takes a ConfigMap over, and none frees one but its owner's cleanup.
LEMMA OwnerStep ==
    ASSUME TypeOK, CleanOwn, [Next]_vars PROVE OnlyOwner
<1>1. CASE Orch = {}
  BY <1>1 DEF Next, vars, OnlyOwner
<1>2. CASE Orch # {}
  <2>1. PICK o \in Orch : Apart(o) /\ ((MainThread(o) /\ Leads(o)) \/ Stays(o))
    BY <1>2, StepOf
  <2>2. CASE Gains(o)
    BY <2>2 DEF Gains, OnlyOwner
  <2>3. CASE DeleteConfigMap(o)
    <3>1. PICK n \in victims[o] : cm' = [cm EXCEPT ![n] = NoOne] \/ UNCHANGED cm
      BY <2>3 DEF DeleteConfigMap
    <3>2. cm[n] = o /\ pc[o] = "delcm"
      BY <2>3 DEF CleanOwn, DeleteConfigMap
    <3> QED
      BY <3>1, <3>2 DEF TypeOK, OnlyOwner
  <2> QED
    BY <2>1, <2>2, <2>3 DEF Leads, Stays
<1> QED
  BY <1>1, <1>2

\* So what an orchestration holds it keeps until its cleanup.
LEMMA HeldStep ==
    ASSUME TypeOK, OnlyOwner, NEW o \in Orch, pc[o] # "delcm", NEW n \in Name, cm[n] = o
    PROVE  cm'[n] = o
  BY OrchAssumption DEF OnlyOwner

\* The list of a cleanup stays its own, whatever the others do meanwhile.
LEMMA CleanOwnStep ==
    ASSUME TypeOK, CleanOwn, [Next]_vars PROVE CleanOwn'
<1> SUFFICES ASSUME NEW q \in Orch, pc'[q] = "delcm", NEW n \in victims'[q]
             PROVE  n \in Name /\ cm'[n] = q
  BY DEF CleanOwn
<1>1. PICK o \in Orch : Apart(o) /\ ((MainThread(o) /\ Leads(o)) \/ Stays(o))
  BY StepOf
<1>2. CASE pc[q] = "delcm" /\ n \in victims[q] /\ Gains(o)
  BY <1>2, OrchAssumption DEF CleanOwn, Gains
<1>3. CASE ListConfigMaps(q)
  BY <1>3 DEF TypeOK, ListConfigMaps, OwnConfigMaps, CleanupRaises, Goto
<1>4. CASE o = q /\ DeleteConfigMap(q)
  <2>1. PICK m \in victims[q] : /\ cm' = [cm EXCEPT ![m] = NoOne] \/ UNCHANGED cm
                                /\ victims' = [victims EXCEPT ![q] = victims[q] \ {m}]
    BY <1>4 DEF DeleteConfigMap
  <2>2. n \in victims[q] /\ n # m
    BY <2>1 DEF TypeOK
  <2> QED
    BY <1>4, <2>1, <2>2 DEF TypeOK, CleanOwn, DeleteConfigMap
<1>5. CASE o # q /\ DeleteConfigMap(o)
  <2>1. PICK m \in victims[o] : cm' = [cm EXCEPT ![m] = NoOne] \/ UNCHANGED cm
    BY <1>5 DEF DeleteConfigMap
  <2>2. cm[m] = o /\ pc[o] = "delcm"
    BY <1>5 DEF CleanOwn, DeleteConfigMap
  <2>3. pc[q] = "delcm" /\ n \in victims[q]
    BY <1>1, <1>5 DEF Apart
  <2> QED
    BY <1>5, <2>1, <2>2, <2>3 DEF TypeOK, CleanOwn
<1>6. CASE o = q /\ Stays(o)
  BY <1>2, <1>6 DEF Stays
<1>7. CASE o # q /\ ~DeleteConfigMap(o)
  BY <1>1, <1>2, <1>7 DEF Apart, Leads, Stays
<1>8. CASE o = q /\ MainThread(o) /\ Leads(o)
  BY <1>3, <1>4, <1>8 DEF Leads
<1> QED
  BY <1>1, <1>5, <1>6, <1>7, <1>8

\* Every step keeps Serving.
LEMMA ServingStep == ASSUME TypeOK, Serving, [Next]_vars PROVE Serving'
<1> SUFFICES ASSUME NEW q \in Orch
             PROVE  /\ pc'[q] \in {"look", "lock", "data"} =>
                            /\ cur'[q] \in DOMAIN PodsOf[q]
                            /\ Wanted[PodsOf[q][cur'[q]]] # <<>>
                    /\ pc'[q] \in {"lock", "data"} => item'[q] \in DOMAIN plan'[q]
  BY DEF Serving, CurPod
<1> USE DEF passVars, planVars
<1>1. PICK o \in Orch : Apart(o) /\ ((MainThread(o) /\ Leads(o)) \/ Stays(o))
  BY StepOf
<1>2. CASE o # q \/ Stays(o)
  BY <1>1, <1>2 DEF Serving, CurPod, Apart, Stays
<1>3. CASE o = q /\ MainThread(q) /\ Leads(q)
  <2>1. CASE StartClusterPass(q) /\ pc'[q] = "look"
    <3>1. PodsOf[q] \in Seq(Pod)
      BY RequestAssumption
    <3>2. cur[q] \in DOMAIN PodsOf[q] /\ Wanted[PodsOf[q][cur[q]]] # <<>> /\ UNCHANGED cur
      BY <2>1, <3>1 DEF TypeOK, StartClusterPass, Goto, Raise, CurPod
    <3> QED
      BY <2>1, <3>2
  <2>2. CASE ReadAvailability(q) /\ pc'[q] = "look"
    BY <2>2 DEF TypeOK, Serving, ReadAvailability, Raise, CurPod
  <2>3. CASE MatchCluster(q) /\ pc'[q] = "lock"
    <3>1. PICK m \in Matches(CurPod(q), free[q]) :
             plan' = [plan EXCEPT ![q] = m] /\ item' = [item EXCEPT ![q] = 1]
      BY <2>3 DEF TypeOK, MatchCluster, Goto, Raise
    <3>2. CurPod(q) \in Pod /\ free[q] \in SUBSET Lock
      BY <2>3, ServingPod DEF TypeOK, MatchCluster
    <3>3. Wanted[CurPod(q)] \in Seq(SUBSET ClusterResource) /\ Wanted[CurPod(q)] # <<>>
      BY <2>3, <3>2, RequestAssumption DEF Serving, MatchCluster
    <3>4. m \in Seq(Lock) /\ Len(m) = Len(Wanted[CurPod(q)])
      BY <3>2, MatchesType
    <3>5. 1 \in DOMAIN m
      BY <3>3, <3>4
    <3>6. item'[q] \in DOMAIN plan'[q]
      BY <3>1, <3>5 DEF TypeOK
    <3> QED
      BY <2>3, <3>6 DEF Serving, MatchCluster, CurPod
  <2>4. CASE CreateResourceData(q) /\ pc'[q] = "lock"
    <3>1. item[q] < Len(plan[q]) /\ item' = [item EXCEPT ![q] = item[q] + 1] /\ UNCHANGED <<cur, plan>>
      BY <2>4 DEF TypeOK, CreateResourceData, Goto, Raise
    <3>2. plan[q] \in Seq(Lock) /\ item[q] \in Nat \ {0}
      BY DEF TypeOK
    <3>3. item[q] + 1 \in DOMAIN plan[q]
      BY <3>1, <3>2
    <3> QED
      BY <2>4, <3>1, <3>3 DEF TypeOK, Serving, CreateResourceData, CurPod
  <2>5. CASE LockResource(q) /\ pc'[q] = "data"
    BY <2>5 DEF Serving, LockResource, CurPod
  <2> QED
    BY <1>3, <2>1, <2>2, <2>3, <2>4, <2>5 DEF Leads
<1> QED
  BY <1>1, <1>2, <1>3

\* The three ways in which a pod is given something.
LEMMA GivenGrows ==
    ASSUME TypeOK, Serving, NEW o \in Orch, (MainThread(o) /\ Leads(o)) \/ Stays(o),
           NEW q \in Orch, NEW p \in MyPods(q), NEW n \in Given(p)', n \notin Given(p)
    PROVE  /\ o = q
           /\ \/ /\ n \in Port /\ cm[n] = NoOne /\ cm'[n] = q
                 /\ \A r \in MyPods(q) : r # p => Given(r)' = Given(r)
              \/ /\ CreateResourceData(q) /\ p = CurPod(q)
                 /\ n \in Planned(q) /\ item[q] >= Len(plan[q])
              \/ CreateNodeData(q) /\ n \in Planned(q)
<1>0. p \in Pod
  BY MyPodsType
<1>1. CASE ports[p] # ports'[p]
  <2>1. TakesPort(o) /\ UNCHANGED reserved
    BY <1>1 DEF Leads, Stays
  <2>2. PICK r \in MyPods(o), x \in Port :
           /\ cm[x] = NoOne /\ cm'[x] = o
           /\ ports' = [ports EXCEPT ![r] = ports[r] \cup {x}]
    BY <2>1 DEF TakesPort
  <2>3. r = p /\ o = q
    BY <1>0, <1>1, <2>2, OwnPods DEF TypeOK
  <2>4. n = x
    BY <1>0, <2>1, <2>2, <2>3 DEF TypeOK, Given
  <2>5. \A s \in MyPods(q) : s # p => Given(s)' = Given(s)
    BY <2>1, <2>2, <2>3, MyPodsType DEF TypeOK, Given
  <2> QED
    BY <2>2, <2>3, <2>4, <2>5
<1>2. CASE ports[p] = ports'[p]
  <2>1. n \in reserved'[p] /\ n \notin reserved[p]
    BY <1>2 DEF Given
  <2>2. CASE CreateResourceData(o)
    <3>1. /\ reserved' = [reserved EXCEPT ![CurPod(o)] = reserved[CurPod(o)] \cup Planned(o)]
          /\ item[o] >= Len(plan[o]) /\ pc[o] = "data"
      BY <2>1, <2>2 DEF CreateResourceData
    <3>2. CurPod(o) \in MyPods(o) /\ CurPod(o) \in Pod
      BY <3>1, ServingPod
    <3>3. p = CurPod(o) /\ n \in Planned(o)
      BY <1>0, <2>1, <3>1, <3>2 DEF TypeOK
    <3> QED
      BY <2>2, <3>1, <3>2, <3>3, OwnPods
  <2>3. CASE CreateNodeData(o)
    <3>1. reserved' = [r \in Pod |-> IF r \in SpaceUsers(o)
                                      THEN reserved[r] \cup Planned(o) ELSE reserved[r]]
      BY <2>1, <2>3 DEF CreateNodeData
    <3>2. p \in SpaceUsers(o) /\ n \in Planned(o)
      BY <1>0, <2>1, <3>1
    <3>3. p \in MyPods(o)
      BY <3>2, RequestAssumption DEF SpaceUsers, MyPods
    <3> QED
      BY <2>3, <3>2, <3>3, OwnPods
  <2> QED
    BY <2>1, <2>2, <2>3 DEF Leads, Stays
<1> QED
  BY <1>1, <1>2

\* Every step keeps PlanHeld.
LEMMA PlanHeldStep ==
    ASSUME TypeOK, Serving, PlanHeld, SpaceHeld, GivenHeld, CleanOwn, [Next]_vars
    PROVE  PlanHeld'
<1> SUFFICES ASSUME NEW q \in Orch, pc'[q] \in {"lock", "data"}, NEW i \in DOMAIN plan'[q],
                    i < item'[q] \/ (i = item'[q] /\ pc'[q] = "data")
             PROVE  /\ cm'[plan'[q][i]] = q
                    /\ \A p \in MyPods(q) : plan'[q][i] \notin Given(p)'
  BY DEF PlanHeld
<1> USE DEF passVars, planVars
<1>1. PICK o \in Orch : Apart(o) /\ ((MainThread(o) /\ Leads(o)) \/ Stays(o))
  BY StepOf
<1>2. plan[q] \in Seq(Lock) /\ item[q] \in Nat \ {0}
  BY DEF TypeOK
\* What was held and not given stays so, unless a pod of q is given it now.
<1>3. ASSUME i \in DOMAIN plan[q], plan'[q] = plan[q], pc[q] \in {"lock", "data"},
             cm[plan[q][i]] = q, \A p \in MyPods(q) : plan[q][i] \notin Given(p),
             ~(o = q /\ CreateResourceData(q) /\ item[q] >= Len(plan[q]))
      PROVE  /\ cm'[plan'[q][i]] = q
             /\ \A p \in MyPods(q) : plan'[q][i] \notin Given(p)'
  <2>1. plan[q][i] \in Name
    BY <1>2, <1>3 DEF Name
  <2>2. cm'[plan[q][i]] = q
    BY <1>3, <2>1, OwnerStep, HeldStep
  <2>3. ~CreateNodeData(q)
    BY <1>3 DEF CreateNodeData
  <2> QED
    BY <1>1, <1>3, <2>2, <2>3, OrchAssumption, GivenGrows
<1>4. CASE o # q \/ Stays(o)
  <2>1. pc'[q] = pc[q] /\ plan'[q] = plan[q] /\ item'[q] = item[q]
    BY <1>1, <1>4 DEF Apart, Stays
  <2>2. /\ cm[plan[q][i]] = q
        /\ \A p \in MyPods(q) : plan[q][i] \notin Given(p)
    BY <2>1 DEF PlanHeld
  <2>3. CASE o # q
    BY <1>3, <2>1, <2>2, <2>3
  <2>4. CASE Stays(o) /\ ~(CreateResourceData(o) /\ item[o] >= Len(plan[o]))
    BY <1>3, <2>1, <2>2, <2>4
  <2>5. CASE Stays(o) /\ o = q /\ CreateResourceData(q) /\ item[q] >= Len(plan[q])
    <3>1. pc'[q] # pc[q]
      BY <2>5 DEF TypeOK, CreateResourceData, Goto, Raise
    <3> QED
      BY <2>1, <3>1
  <2> QED
    BY <1>4, <2>3, <2>4, <2>5
<1>5. CASE o = q /\ MainThread(q) /\ Leads(q)
  <2>1. CASE MatchCluster(q) /\ pc'[q] = "lock"
    <3>1. PICK m \in Matches(CurPod(q), free[q]) :
             plan' = [plan EXCEPT ![q] = m] /\ item' = [item EXCEPT ![q] = 1]
      BY <2>1 DEF TypeOK, MatchCluster, Goto, Raise
    <3>2. m \in Seq(Lock)
      BY <2>1, ServingPod, MatchesType DEF TypeOK, MatchCluster
    <3> QED
      BY <2>1, <3>1, <3>2 DEF TypeOK
  <2>2. CASE CreateResourceData(q) /\ pc'[q] = "lock"
    <3>1. item[q] < Len(plan[q]) /\ item' = [item EXCEPT ![q] = item[q] + 1] /\ UNCHANGED plan
      BY <2>2 DEF TypeOK, CreateResourceData, Goto, Raise
    <3>2. pc[q] = "data" /\ i \in DOMAIN plan[q] /\ item'[q] = item[q] + 1
      BY <2>2, <3>1 DEF TypeOK, CreateResourceData
    <3>3. i < item[q] \/ i = item[q]
      BY <1>2, <2>2, <3>2
    <3>4. cm[plan[q][i]] = q /\ \A p \in MyPods(q) : plan[q][i] \notin Given(p)
      BY <3>2, <3>3 DEF PlanHeld
    <3>5. ~(item[q] >= Len(plan[q]))
      BY <1>2, <3>1
    <3> QED
      BY <1>3, <3>1, <3>2, <3>4, <3>5
  <2>3. CASE LockResource(q) /\ pc'[q] = "data"
    <3>1. /\ pc[q] = "lock" /\ UNCHANGED <<plan, item, reserved, ports>>
          /\ Created(q, plan[q][item[q]])
      BY <2>3 DEF TypeOK, LockResource, Goto, Raise, workerVars
    <3>2. CASE i < item[q]
      <4>0. i \in DOMAIN plan[q]
        BY <3>1
      <4>1. cm[plan[q][i]] = q /\ \A p \in MyPods(q) : plan[q][i] \notin Given(p)
        BY <3>1, <3>2, <4>0 DEF PlanHeld
      <4>2. ~CreateResourceData(q)
        BY <3>1 DEF CreateResourceData
      <4> QED
        BY <1>3, <3>1, <4>0, <4>1, <4>2
    <3>3. CASE i = item[q]
      <4>1. plan[q][i] \in Name /\ cm[plan[q][i]] = NoOne
        BY <1>2, <3>1, <3>3 DEF Name, Created
      <4>2. cm'[plan[q][i]] = q
        BY <3>1, <3>3, <4>1 DEF TypeOK, Created
      <4>3. \A p \in MyPods(q) : Given(p)' = Given(p) /\ plan[q][i] \notin Given(p)
        BY <3>1, <4>1, OrchAssumption DEF GivenHeld, Booked, Given
      <4> QED
        BY <3>1, <4>2, <4>3
    <3> QED
      BY <3>1, <3>2, <3>3
  <2> QED
    BY <1>5, <2>1, <2>2, <2>3 DEF Leads
<1> QED
  BY <1>1, <1>4, <1>5

\* Every step keeps SpaceHeld.
LEMMA SpaceHeldStep ==
    ASSUME TypeOK, SpaceHeld, CleanOwn, [Next]_vars PROVE SpaceHeld'
<1> SUFFICES ASSUME NEW q \in Orch
             PROVE  /\ pc'[q] \in {"nodelock", "nodedata"} => free'[q] \subseteq Space
                    /\ pc'[q] = "nodedata" => Planned(q)' \subseteq Space /\ \A n \in Planned(q)' : cm'[n] = q
  BY DEF SpaceHeld
<1>1. PICK o \in Orch : Apart(o) /\ ((MainThread(o) /\ Leads(o)) \/ Stays(o))
  BY StepOf
<1>2. ASSUME pc[q] = "nodedata", NEW n \in Planned(q) PROVE cm'[n] = q
  BY <1>2, PlannedType, OwnerStep, HeldStep DEF SpaceHeld
<1>3. CASE o # q \/ Stays(o)
  <2>1. CASE pc'[q] = "crashed"
    BY <2>1
  <2>2. CASE pc'[q] # "crashed"
    <3>1. pc'[q] = pc[q] /\ free'[q] = free[q] /\ plan'[q] = plan[q]
      BY <1>1, <1>3, <2>2 DEF Apart, Stays
    <3> QED
      BY <1>2, <3>1 DEF SpaceHeld, Planned
  <2> QED
    BY <2>1, <2>2
<1>4. CASE o = q /\ MainThread(q) /\ Leads(q)
  <2>1. CASE MatchSpaces(q)
    <3>1. Fits[q] \subseteq Space
      BY RequestAssumption
    <3> QED
      BY <2>1, <3>1 DEF TypeOK, MatchSpaces, Goto
  <2>2. CASE LockSpace(q) /\ pc'[q] \in {"nodelock", "nodedata"}
    <3>1. free[q] \subseteq Space
      BY <2>2 DEF SpaceHeld, LockSpace
    <3>2. PICK s \in free[q] :
             /\ free' = [free EXCEPT ![q] = free[q] \ {s}]
             /\ \/ Created(q, s) /\ plan' = [plan EXCEPT ![q] = <<s>>] /\ Goto(q, "nodedata")
                \/ UNCHANGED pc
      BY <2>2 DEF TypeOK, LockSpace, Goto, Raise
    <3>3. free'[q] \subseteq Space
      BY <3>1, <3>2 DEF TypeOK
    <3>4. CASE Created(q, s) /\ plan' = [plan EXCEPT ![q] = <<s>>] /\ Goto(q, "nodedata")
      <4>1. s \in Name
        BY <3>1 DEF Name, Lock
      <4>2. cm'[s] = q
        BY <3>4, <4>1 DEF TypeOK, Created
      <4>3. Planned(q)' = {s}
        BY <3>4 DEF TypeOK, Planned
      <4> QED
        BY <3>1, <3>3, <4>2, <4>3
    <3>5. CASE UNCHANGED pc
      BY <2>2, <3>3, <3>5 DEF LockSpace
    <3> QED
      BY <3>2, <3>4, <3>5
  <2>3. CASE CreateNodeData(q)
    <3>1. UNCHANGED <<plan, free>> /\ pc[q] = "nodedata"
      BY <2>3 DEF CreateNodeData, passVars
    <3> QED
      BY <1>2, <3>1 DEF SpaceHeld, Planned
  <2> QED
    BY <1>4, <2>1, <2>2, <2>3 DEF Leads
<1> QED
  BY <1>1, <1>3, <1>4

\* Every step keeps GivenHeld.
LEMMA GivenHeldStep ==
    ASSUME TypeOK, Serving, PlanHeld, SpaceHeld, GivenHeld, CleanOwn, [Next]_vars
    PROVE  GivenHeld'
<1> SUFFICES ASSUME NEW q \in Orch, Booked(q)', NEW p \in MyPods(q), NEW n \in Given(p)'
             PROVE  cm'[n] = q
  BY DEF GivenHeld
<1>1. PICK o \in Orch : Apart(o) /\ ((MainThread(o) /\ Leads(o)) \/ Stays(o))
  BY StepOf
<1>2. Booked(q) /\ pc[q] # "delcm"
  BY <1>1, BookedBefore DEF Booked
<1>3. CASE n \in Name /\ cm[n] = q
  BY <1>2, <1>3, OwnerStep, HeldStep
<1>4. CASE n \in Given(p)
  BY <1>2, <1>3, <1>4, GivenType DEF GivenHeld
<1>5. CASE CreateResourceData(q) /\ n \in Planned(q) /\ item[q] >= Len(plan[q])
  <2>1. PICK i \in DOMAIN plan[q] : n = plan[q][i]
    BY <1>5 DEF Planned
  <2>2. pc[q] = "data" /\ (i < item[q] \/ i = item[q])
    BY <1>5 DEF TypeOK, CreateResourceData
  <2> QED
    BY <1>3, <1>5, <2>1, <2>2, PlannedType DEF PlanHeld
<1>6. CASE CreateNodeData(q) /\ n \in Planned(q)
  BY <1>3, <1>6, PlannedType DEF SpaceHeld, CreateNodeData
<1> QED
  BY <1>1, <1>4, <1>5, <1>6, GivenGrows

\* Every step keeps GivenApart.
LEMMA GivenApartStep ==
    ASSUME TypeOK, Serving, PlanHeld, SpaceHeld, GivenHeld, GivenApart, CleanOwn, [Next]_vars
    PROVE  GivenApart'
<1> SUFFICES ASSUME NEW q \in Orch, Booked(q)', NEW p \in MyPods(q), NEW r \in MyPods(q), p # r,
                    NEW n \in Given(p)' \cap Given(r)'
             PROVE  n \in Space
  BY DEF GivenApart
<1>1. PICK o \in Orch : Apart(o) /\ ((MainThread(o) /\ Leads(o)) \/ Stays(o))
  BY StepOf
<1>2. Booked(q)
  BY <1>1, BookedBefore
<1>3. CASE n \in Given(p) /\ n \in Given(r)
  BY <1>2, <1>3 DEF GivenApart
<1>4. ASSUME NEW s \in MyPods(q), NEW t \in MyPods(q), s # t,
             n \in Given(s)', n \in Given(t)', n \notin Given(s)
      PROVE  n \in Space
  <2>1. CASE /\ n \in Port /\ cm[n] = NoOne
             /\ \A u \in MyPods(q) : u # s => Given(u)' = Given(u)
    BY <1>2, <1>4, <2>1, OrchAssumption DEF GivenHeld
  <2>2. CASE /\ CreateResourceData(q) /\ s = CurPod(q)
             /\ n \in Planned(q) /\ item[q] >= Len(plan[q])
    <3>1. PICK i \in DOMAIN plan[q] : n = plan[q][i]
      BY <2>2 DEF Planned
    <3>2. pc[q] = "data" /\ (i < item[q] \/ i = item[q])
      BY <2>2 DEF TypeOK, CreateResourceData
    <3>3. n \notin Given(t) /\ cm[n] = q
      BY <3>1, <3>2 DEF PlanHeld
    <3>4. ~CreateNodeData(q)
      BY <3>2 DEF CreateNodeData
    <3> QED
      BY <1>1, <1>4, <2>2, <3>3, <3>4, OrchAssumption, GivenGrows
  <2>3. CASE CreateNodeData(q) /\ n \in Planned(q)
    BY <2>3 DEF SpaceHeld, CreateNodeData
  <2> QED
    BY <1>1, <1>4, <2>1, <2>2, <2>3, GivenGrows
<1> QED
  BY <1>3, <1>4

-----------------------------------------------------------------------------
(* The theorems.                                                           *)

\* The initial states satisfy the invariant.
LEMMA IInvInit == Init => IInv
<1> SUFFICES ASSUME Init PROVE IInv
  OBVIOUS
<1>1. \A o \in Orch : pc[o] = "id"
  BY DEF Init
<1>2. \A p \in Pod : Given(p) = {}
  BY DEF Init, Given
<1>3. Serving /\ PlanHeld /\ SpaceHeld /\ CleanOwn
  BY <1>1 DEF Serving, PlanHeld, SpaceHeld, CleanOwn
<1>4. GivenHeld /\ GivenApart
  BY <1>2, MyPodsType DEF GivenHeld, GivenApart
<1> QED
  BY <1>3, <1>4, TypeInit DEF IInv

\* Every step keeps the invariant.
LEMMA IInvStep == IInv /\ [Next]_vars => IInv'
<1> SUFFICES ASSUME IInv, [Next]_vars PROVE IInv'
  OBVIOUS
<1>1. TypeOK /\ Serving /\ PlanHeld /\ SpaceHeld /\ GivenHeld /\ GivenApart /\ CleanOwn
  BY DEF IInv
<1>2. TypeOK' /\ Serving'
  BY <1>1, TypeStep, ServingStep
<1>3. PlanHeld' /\ SpaceHeld'
  BY <1>1, PlanHeldStep, SpaceHeldStep
<1>4. GivenHeld' /\ GivenApart' /\ CleanOwn'
  BY <1>1, GivenHeldStep, GivenApartStep, CleanOwnStep
<1> QED
  BY <1>2, <1>3, <1>4 DEF IInv

\* The invariant holds in every behaviour.
THEOREM Invariance == Spec => []IInv
  BY IInvInit, IInvStep, PTL DEF Spec

\* Locks that are held exclude: the invariant implies Exclusive.
LEMMA IInvExclusive == IInv => Exclusive
<1> SUFFICES ASSUME IInv, NEW o1 \in Orch, NEW o2 \in Orch, NEW p1 \in MyPods(o1), NEW p2 \in MyPods(o2),
                    p1 # p2, Booked(o1), Booked(o2), NEW n \in Given(p1) \cap Given(p2)
             PROVE  o1 = o2 /\ n \in Space
  BY DEF Exclusive
<1>1. cm[n] = o1 /\ cm[n] = o2
  BY DEF IInv, GivenHeld
<1> QED
  BY <1>1 DEF IInv, GivenApart

\* The variables of the model keep their types in every behaviour, whoever
\* fails or crashes.
THEOREM TypeCorrect == Spec => []TypeOK
<1>1. IInv => TypeOK
  BY DEF IInv
<1> QED
  BY <1>1, Invariance, PTL

\* Nothing is given to two pods (a space: to two orchestrations), for any
\* number of orchestrations, with any requests and any failures.
THEOREM MutualExclusion == Spec => []Exclusive
  BY Invariance, IInvExclusive, PTL

\* No ConfigMap is taken over, and none is removed but by the cleanup of the
\* orchestration that owns it.
THEOREM FreedByOwner == Spec => OnlyOwnerFrees
<1>1. IInv /\ [Next]_vars => [OnlyOwner]_vars
  BY OwnerStep DEF IInv
<1> QED
  BY <1>1, Invariance, PTL DEF Spec, OnlyOwnerFrees, OnlyOwner
-----------------------------------------------------------------------------
(* Phases of the main thread and states of the threads.                    *)

\* Serving the requests one after another, and all that comes before the pods.
ServingPhase == {"id", "request", "cluster", "look", "lock", "data"}
Before == ServingPhase \cup {"node", "nodelook", "nodelock", "nodedata", "service"}

\* From the pods to the network; and the phases in which no thread runs.
Network == {"pods", "shutdown", "up"}
Quiet == {"up", "cleanup", "delpods", "delcm", "done"}

\* A thread that does nothing more, and one that has called create.
Stopped == {"queued", "ready", "raised", "cancelled"}
Delivered == {"sched", "copy", "check", "ready", "raised"}

-----------------------------------------------------------------------------
(* What a step does to one orchestration and one of its pods.              *)

\* The main thread of q is where it was, or dead.
MainKept(q) ==
    /\ pc'[q] = pc[q] \/ pc'[q] = "crashed"
    /\ cur'[q] = cur[q] /\ free'[q] = free[q] /\ plan'[q] = plan[q]
    /\ item'[q] = item[q] /\ victims'[q] = victims[q]

\* The pod p and its thread are as they were.
PodKept(p) ==
    /\ worker'[p] = worker[p] /\ ports'[p] = ports[p] /\ asking'[p] = asking[p]
    /\ object'[p] = object[p] /\ container'[p] = container[p]

\* The main thread leaves the pods and their threads alone, but for five steps.
LEMMA MainPods ==
    ASSUME NEW o \in Orch, MainThread(o)
    PROVE  \/ UNCHANGED <<reserved, workerVars, podVars>>
           \/ CreateResourceData(o) /\ UNCHANGED <<workerVars, podVars>>
           \/ CreateNodeData(o) /\ UNCHANGED <<workerVars, podVars>>
           \/ AwaitPods(o) /\ UNCHANGED <<reserved, ports, asking, tried, podVars>>
           \/ (\E p \in MyPods(o) : DeletePod(o, p)) /\ UNCHANGED <<reserved, workerVars, container>>
  BY Zenon DEF MainThread, CreateOrchId, ParseRequest, StartClusterPass, ReadAvailability, MatchCluster,
     LockResource, CreateResourceData, StartNodePass, MatchSpaces, LockSpace, CreateNodeData,
     EnsurePortService, AwaitPods, Shutdown, Finish, ListPods, DeletePod, ListConfigMaps,
     DeleteConfigMap, CleanupDone

\* A thread or a kubelet of one pod leaves the others alone.
LEMMA OtherPods ==
    ASSUME TypeOK, NEW o \in Orch, NEW r \in MyPods(o), Worker(o, r) \/ Kubelet(o, r),
           NEW p \in Pod, p # r
    PROVE  PodKept(p)
<1> USE DEF workerVars, podVars, PodKept, TypeOK
<1>0. r \in Pod
  BY MyPodsType
<1>1. ASSUME StartWorker(o, r) PROVE PodKept(p)
  BY <1>0, <1>1 DEF StartWorker, SetWorker, AskPorts
<1>2. ASSUME ReservePort(o, r) PROVE PodKept(p)
  <2>1. ports'[p] = ports[p]
    BY <1>0, <1>2 DEF ReservePort
  <2>2. asking'[p] = asking[p]
    BY <1>0, <1>2 DEF ReservePort, StopAsking
  <2> QED
    BY <1>2, <2>1, <2>2 DEF ReservePort
<1>3. ASSUME CreatePodData(o, r) PROVE PodKept(p)
  BY <1>0, <1>3 DEF CreatePodData, SetWorker
<1>4. ASSUME CreatePod(o, r) PROVE PodKept(p)
  BY <1>0, <1>4 DEF CreatePod, SetWorker
<1>5. ASSUME WatchPod(o, r) PROVE PodKept(p)
  BY <1>0, <1>5 DEF WatchPod, SetWorker
<1>6. ASSUME CopyBinaries(o, r) PROVE PodKept(p)
  BY <1>0, <1>6 DEF CopyBinaries, SetWorker
<1>7. ASSUME CheckPodPorts(o, r) PROVE PodKept(p)
  BY <1>0, <1>7 DEF CheckPodPorts, SetWorker
<1>8. ASSUME KubeletStart(o, r) PROVE PodKept(p)
  BY <1>0, <1>8 DEF KubeletStart
<1>9. ASSUME KubeletReject(r) PROVE PodKept(p)
  BY <1>0, <1>9 DEF KubeletReject
<1>10. ASSUME KubeletStop(r) PROVE PodKept(p)
  BY <1>0, <1>10 DEF KubeletStop
<1>11. ASSUME GetPorts(o, r) PROVE PodKept(p)
  BY <1>0, <1>11 DEF GetPorts, SetWorker, AskPorts
<1> QED
  BY <1>1, <1>2, <1>3, <1>4, <1>5, <1>6, <1>7, <1>8, <1>9, <1>10, <1>11 DEF Worker, Kubelet

\* The main thread of one orchestration leaves the pods of the others alone.
LEMMA OthersPods ==
    ASSUME TypeOK, Serving, NEW o \in Orch, MainThread(o), NEW q \in Orch, q # o, NEW p \in MyPods(q)
    PROVE  PodKept(p) /\ reserved'[p] = reserved[p]
<1> USE DEF workerVars, podVars, PodKept, TypeOK
<1>0. p \in Pod /\ p \notin MyPods(o)
  BY MyPodsType, OwnPods
<1>1. CASE UNCHANGED <<reserved, workerVars, podVars>>
  BY <1>1
<1>2. CASE CreateResourceData(o) /\ UNCHANGED <<workerVars, podVars>>
  <2>1. pc[o] = "data"
    BY <1>2 DEF CreateResourceData
  <2>2. CurPod(o) # p /\ CurPod(o) \in Pod
    BY <1>0, <2>1, ServingPod
  <2>3. reserved'[p] = reserved[p]
    BY <1>0, <1>2, <2>2 DEF CreateResourceData
  <2> QED
    BY <1>2, <2>3
<1>3. CASE CreateNodeData(o) /\ UNCHANGED <<workerVars, podVars>>
  <2>1. p \notin SpaceUsers(o)
    BY <1>0, RequestAssumption DEF SpaceUsers, MyPods
  <2>2. reserved'[p] = reserved[p]
    BY <1>0, <1>3, <2>1 DEF CreateNodeData
  <2> QED
    BY <1>3, <2>2
<1>4. CASE AwaitPods(o) /\ UNCHANGED <<reserved, ports, asking, tried, podVars>>
  <2>1. worker'[p] = worker[p]
    BY <1>0, <1>4 DEF AwaitPods, CancelFutures
  <2> QED
    BY <1>4, <2>1
<1>5. CASE (\E r \in MyPods(o) : DeletePod(o, r)) /\ UNCHANGED <<reserved, workerVars, container>>
  <2>1. PICK r \in MyPods(o) : DeletePod(o, r)
    BY <1>5
  <2>2. r # p
    BY <1>0
  <2>3. object'[p] = object[p]
    BY <1>0, <2>1, <2>2, MyPodsType DEF DeletePod
  <2> QED
    BY <1>5, <2>3
<1> QED
  BY <1>1, <1>2, <1>3, <1>4, <1>5, MainPods

\* A step is one of the main thread of q, one of the pod p of q, or leaves both
\* alone.
LEMMA StepAt ==
    ASSUME TypeOK, Serving, [Next]_vars, NEW q \in Orch, NEW p \in MyPods(q)
    PROVE  \/ MainThread(q) /\ Leads(q)
           \/ (Worker(q, p) \/ Kubelet(q, p)) /\ MainKept(q) /\ UNCHANGED <<pc, reserved>>
           \/ MainKept(q) /\ PodKept(p) /\ reserved'[p] = reserved[p]
<1> USE DEF passVars, planVars, workerVars, podVars
<1>0. p \in Pod
  BY MyPodsType
<1>1. ASSUME NEW o \in Orch, MainThread(o)
      PROVE  \/ MainThread(q) /\ Leads(q)
             \/ MainKept(q) /\ PodKept(p) /\ reserved'[p] = reserved[p]
  <2>1. CASE o = q
    BY <1>1, <2>1, MainLeads
  <2>2. CASE o # q
    BY <1>1, <2>2, MainApart, OthersPods DEF Apart, MainKept
  <2> QED
    BY <2>1, <2>2
<1>2. ASSUME NEW o \in Orch, NEW r \in MyPods(o), Worker(o, r) \/ Kubelet(o, r)
      PROVE  /\ MainKept(q) /\ UNCHANGED <<pc, reserved>>
             /\ r = p => Worker(q, p) \/ Kubelet(q, p)
             /\ r # p => PodKept(p)
  <2>1. r = p => o = q
    BY <1>2, OwnPods
  <2>2. MainKept(q) /\ UNCHANGED <<pc, reserved>>
    BY <1>2, PodStays DEF Stays, MainKept
  <2> QED
    BY <1>0, <1>2, <2>1, <2>2, OtherPods
<1>3. ASSUME NEW o \in Orch, Expire(o) PROVE MainKept(q) /\ PodKept(p) /\ reserved'[p] = reserved[p]
  BY <1>3 DEF Expire, MainKept, PodKept
<1>4. ASSUME NEW o \in Orch, Crash(o) PROVE MainKept(q) /\ PodKept(p) /\ reserved'[p] = reserved[p]
  BY <1>4 DEF TypeOK, Crash, Goto, MainKept, PodKept
<1>5. CASE UNCHANGED vars
  BY <1>5 DEF vars, MainKept, PodKept
<1> QED
  BY <1>1, <1>2, <1>3, <1>4, <1>5 DEF Next

-----------------------------------------------------------------------------
(* Where the threads run, and what they leave.                             *)

\* Threads start after the reservations, and have stopped when the network is
\* up and when it is cleaned up; only two states of a thread ask for ports.
Threads ==
    \A o \in Orch : \A p \in MyPods(o) :
        /\ pc[o] \in Before => worker[p] = "queued"
        /\ pc[o] \in Quiet => worker[p] \in Stopped
        /\ worker[p] \notin {"ports", "extra"} => asking[p] = {}

\* A Pod object is there only after its thread has called create, and containers
\* run in one that runs or ends, but for those that a forced deletion left.
Objects ==
    \A o \in Orch : \A p \in MyPods(o) :
        /\ object[p] # "none" => worker[p] \in Delivered
        /\ container[p] => worker[p] \in Delivered
        /\ container[p] => object[p] \in {"running", "terminating"} \/ worker[p] \in Stopped
        /\ object[p] = "running" => container[p]

\* How the main thread gets to where it is.
Paths(o) ==
    /\ pc'[o] \in Before => pc[o] \in Before /\ UNCHANGED <<workerVars, podVars>>
    /\ pc'[o] \in ServingPhase =>
            /\ pc[o] \in ServingPhase
            /\ cur'[o] = cur[o] \/ StartClusterPass(o) \/ CreateResourceData(o)
    /\ pc'[o] \in (Before \cup Network) \ ServingPhase =>
            pc[o] \in (Before \cup Network) \ ServingPhase \/ StartClusterPass(o)
    /\ pc'[o] = "service" => StartNodePass(o) \/ CreateNodeData(o)
    /\ pc'[o] = "pods" => EnsurePortService(o) \/ AwaitPods(o)
    /\ pc'[o] = "shutdown" => AwaitPods(o)
    /\ pc'[o] = "up" => Shutdown(o)
    /\ pc'[o] = "cleanup" => /\ pc[o] \in Before \cup Quiet \/ Shutdown(o)
                             /\ UNCHANGED <<workerVars, podVars>>
    /\ pc'[o] = "delpods" => ListPods(o) \/ \E p \in MyPods(o) : DeletePod(o, p)
    /\ pc'[o] = "delcm" => ListConfigMaps(o) \/ DeleteConfigMap(o)
    /\ pc'[o] = "done" => /\ \/ CreateOrchId(o)
                             \/ CleanupDone(o)
                             \/ pc[o] \in {"cleanup", "delpods"} /\ CleanupRaises(o) /\ UNCHANGED cm
                          /\ UNCHANGED <<workerVars, podVars>>
    /\ pc'[o] # "crashed"

\* The main thread takes one of these ways.
LEMMA MainPaths ==
    ASSUME TypeOK, NEW o \in Orch, MainThread(o)
    PROVE  Paths(o)
<1> USE DEF TypeOK, Goto, Raise, Before, ServingPhase, Network, Quiet, Paths, passVars
<1>1. ASSUME CreateOrchId(o) PROVE Paths(o)
  BY <1>1 DEF CreateOrchId
<1>2. ASSUME ParseRequest(o) PROVE Paths(o)
  BY <1>2 DEF ParseRequest
<1>3. ASSUME StartClusterPass(o) PROVE Paths(o)
  BY <1>3 DEF StartClusterPass
<1>4. ASSUME ReadAvailability(o) PROVE Paths(o)
  BY <1>4 DEF ReadAvailability
<1>5. ASSUME MatchCluster(o) PROVE Paths(o)
  BY <1>5 DEF MatchCluster
<1>6. ASSUME LockResource(o) PROVE Paths(o)
  BY <1>6 DEF LockResource
<1>7. ASSUME CreateResourceData(o) PROVE Paths(o)
  BY <1>7 DEF CreateResourceData
<1>8. ASSUME StartNodePass(o) PROVE Paths(o)
  BY <1>8 DEF StartNodePass
<1>9. ASSUME MatchSpaces(o) PROVE Paths(o)
  BY <1>9 DEF MatchSpaces
<1>10. ASSUME LockSpace(o) PROVE Paths(o)
  BY <1>10 DEF LockSpace
<1>11. ASSUME CreateNodeData(o) PROVE Paths(o)
  BY <1>11 DEF CreateNodeData
<1>12. ASSUME EnsurePortService(o) PROVE Paths(o)
  BY <1>12 DEF EnsurePortService
<1>13. ASSUME AwaitPods(o) PROVE Paths(o)
  BY <1>13 DEF AwaitPods
<1>14. ASSUME Shutdown(o) PROVE Paths(o)
  BY <1>14 DEF Shutdown
<1>15. ASSUME Finish(o) PROVE Paths(o)
  BY <1>15 DEF Finish
<1>16. ASSUME ListPods(o) PROVE Paths(o)
  BY <1>16 DEF ListPods, CleanupRaises
<1>17. ASSUME NEW p \in MyPods(o), DeletePod(o, p) PROVE Paths(o)
  BY <1>17 DEF DeletePod
<1>18. ASSUME ListConfigMaps(o) PROVE Paths(o)
  BY <1>18 DEF ListConfigMaps, CleanupRaises
<1>19. ASSUME DeleteConfigMap(o) PROVE Paths(o)
  BY <1>19 DEF DeleteConfigMap
<1>20. ASSUME CleanupDone(o) PROVE Paths(o)
  BY <1>20 DEF CleanupDone
<1> QED
  BY <1>1, <1>2, <1>3, <1>4, <1>5, <1>6, <1>7, <1>8, <1>9, <1>10, <1>11,
     <1>12, <1>13, <1>14, <1>15, <1>16, <1>17, <1>18, <1>19, <1>20 DEF MainThread

\* Every step keeps Threads.
LEMMA ThreadsStep == ASSUME TypeOK, Serving, Threads, [Next]_vars PROVE Threads'
<1> SUFFICES ASSUME NEW q \in Orch, NEW p \in MyPods(q)
             PROVE  /\ pc'[q] \in Before => worker'[p] = "queued"
                    /\ pc'[q] \in Quiet => worker'[p] \in Stopped
                    /\ worker'[p] \notin {"ports", "extra"} => asking'[p] = {}
  BY DEF Threads
<1>0. p \in Pod
  BY MyPodsType
<1>1. /\ pc[q] \in Before => worker[p] = "queued"
      /\ pc[q] \in Quiet => worker[p] \in Stopped
      /\ worker[p] \notin {"ports", "extra"} => asking[p] = {}
  BY DEF Threads
<1>2. CASE MainKept(q) /\ PodKept(p)
  BY <1>1, <1>2 DEF MainKept, PodKept, Before, ServingPhase, Quiet
<1>3. CASE Worker(q, p) /\ UNCHANGED pc
  <2> USE DEF TypeOK, SetWorker, Before, ServingPhase, Quiet, Stopped
  <2>1. CASE StartWorker(q, p)
    BY <1>0, <1>1, <2>1 DEF StartWorker
  <2>2. CASE ReservePort(q, p)
    <3>1. worker[p] \in {"ports", "extra"} /\ UNCHANGED worker
      BY <1>1, <2>2 DEF ReservePort
    <3> QED
      BY <1>1, <1>3, <3>1
  <2>3. CASE GetPorts(q, p)
    BY <1>0, <1>1, <1>3, <2>3 DEF GetPorts
  <2>4. CASE CreatePodData(q, p)
    BY <1>0, <1>1, <1>3, <2>4 DEF CreatePodData
  <2>5. CASE CreatePod(q, p)
    BY <1>0, <1>1, <1>3, <2>5 DEF CreatePod
  <2>6. CASE WatchPod(q, p)
    BY <1>0, <1>1, <1>3, <2>6 DEF WatchPod
  <2>7. CASE CopyBinaries(q, p)
    BY <1>0, <1>1, <1>3, <2>7 DEF CopyBinaries
  <2>8. CASE CheckPodPorts(q, p)
    BY <1>0, <1>1, <1>3, <2>8 DEF CheckPodPorts
  <2> QED
    BY <1>3, <2>1, <2>2, <2>3, <2>4, <2>5, <2>6, <2>7, <2>8 DEF Worker
<1>4. CASE Kubelet(q, p) /\ UNCHANGED pc
  <2>1. UNCHANGED <<worker, asking>>
    BY <1>4 DEF Kubelet, KubeletStart, KubeletReject, KubeletStop, workerVars
  <2> QED
    BY <1>1, <1>4, <2>1
<1>5. CASE MainThread(q)
  <2> USE DEF Before, ServingPhase, Quiet, Stopped
  <2>1. Paths(q)
    BY <1>5, MainPaths
  <2>2. UNCHANGED <<worker, asking>> \/ (AwaitPods(q) /\ UNCHANGED asking)
    BY <1>5, MainPods DEF workerVars
  <2>3. CASE AwaitPods(q) /\ UNCHANGED asking
    <3>1. pc[q] = "pods" /\ pc'[q] \in {"pods", "shutdown"}
      BY <2>3 DEF TypeOK, AwaitPods, Goto
    <3>2. worker'[p] = worker[p] \/ (worker[p] = "queued" /\ worker'[p] = "cancelled")
      BY <1>0, <2>3 DEF AwaitPods, CancelFutures
    <3> QED
      BY <1>1, <2>3, <3>1, <3>2
  <2>4. CASE Shutdown(q) /\ UNCHANGED <<worker, asking>>
    BY <1>1, <2>4 DEF TypeOK, Shutdown, WorkersStopped, Goto, Raise
  <2>5. CASE ~Shutdown(q) /\ UNCHANGED <<worker, asking>>
    <3>1. pc'[q] \in Quiet => pc[q] \in Before \cup Quiet
      BY <2>1, <2>5 DEF Paths, CreateOrchId, CleanupDone, ListPods, DeletePod, ListConfigMaps, DeleteConfigMap
    <3>2. pc'[q] \in Before => pc[q] \in Before
      BY <2>1 DEF Paths
    <3> QED
      BY <1>1, <2>5, <3>1, <3>2
  <2> QED
    BY <2>2, <2>3, <2>4, <2>5
<1> QED
  BY <1>2, <1>3, <1>4, <1>5, StepAt

\* Every step keeps Objects.
LEMMA ObjectsStep == ASSUME TypeOK, Serving, Threads, Objects, [Next]_vars PROVE Objects'
<1> SUFFICES ASSUME NEW q \in Orch, NEW p \in MyPods(q)
             PROVE  /\ object'[p] # "none" => worker'[p] \in Delivered
                    /\ container'[p] => worker'[p] \in Delivered
                    /\ container'[p] => object'[p] \in {"running", "terminating"} \/ worker'[p] \in Stopped
                    /\ object'[p] = "running" => container'[p]
  BY DEF Objects
<1>0. p \in Pod
  BY MyPodsType
<1>1. /\ object[p] # "none" => worker[p] \in Delivered
      /\ container[p] => worker[p] \in Delivered
      /\ container[p] => object[p] \in {"running", "terminating"} \/ worker[p] \in Stopped
      /\ object[p] = "running" => container[p]
  BY DEF Objects
<1>2. CASE PodKept(p)
  BY <1>1, <1>2 DEF PodKept
<1>3. CASE Worker(q, p)
  <2> USE DEF TypeOK, SetWorker, Stopped, Delivered, podVars
  <2>1. CASE StartWorker(q, p)
    BY <1>0, <1>1, <2>1 DEF StartWorker
  <2>2. CASE ReservePort(q, p)
    BY <1>1, <2>2 DEF ReservePort
  <2>3. CASE GetPorts(q, p)
    BY <1>0, <1>1, <2>3 DEF GetPorts
  <2>4. CASE CreatePodData(q, p)
    BY <1>0, <1>1, <2>4 DEF CreatePodData
  <2>5. CASE CreatePod(q, p)
    BY <1>0, <1>1, <2>5 DEF CreatePod
  <2>6. CASE WatchPod(q, p)
    BY <1>0, <1>1, <2>6 DEF WatchPod
  <2>7. CASE CopyBinaries(q, p)
    BY <1>0, <1>1, <2>7 DEF CopyBinaries
  <2>8. CASE CheckPodPorts(q, p)
    BY <1>0, <1>1, <2>8 DEF CheckPodPorts
  <2> QED
    BY <1>3, <2>1, <2>2, <2>3, <2>4, <2>5, <2>6, <2>7, <2>8 DEF Worker
<1>4. CASE Kubelet(q, p)
  BY <1>0, <1>1, <1>4 DEF TypeOK, Kubelet, KubeletStart, KubeletReject, KubeletStop, workerVars
<1>5. CASE MainThread(q)
  <2>1. CASE UNCHANGED <<worker, object, container>>
    BY <1>1, <2>1
  <2>2. CASE AwaitPods(q) /\ UNCHANGED podVars
    <3>1. worker'[p] = worker[p] \/ (worker[p] = "queued" /\ worker'[p] = "cancelled")
      BY <1>0, <2>2 DEF AwaitPods, CancelFutures
    <3> QED
      BY <1>1, <2>2, <3>1 DEF podVars, Delivered, Stopped
  <2>3. ASSUME NEW r \in MyPods(q), DeletePod(q, r), UNCHANGED <<worker, container>>
        PROVE  /\ object'[p] # "none" => worker'[p] \in Delivered
               /\ container'[p] => worker'[p] \in Delivered
               /\ container'[p] => object'[p] \in {"running", "terminating"} \/ worker'[p] \in Stopped
               /\ object'[p] = "running" => container'[p]
    <3>1. worker[p] \in Stopped
      BY <2>3 DEF DeletePod, Threads, Quiet
    <3>2. object'[p] = object[p] \/ (object[p] # "none" /\ object'[p] \in {"terminating", "none"})
      BY <1>0, <2>3, MyPodsType DEF TypeOK, DeletePod
    <3> QED
      BY <1>1, <2>3, <3>1, <3>2
  <2> QED
    BY <1>5, <2>1, <2>2, <2>3, MainPods DEF workerVars, podVars
<1> QED
  BY <1>2, <1>3, <1>4, <1>5, StepAt

-----------------------------------------------------------------------------
(* What a network was promised, while it is made.                          *)

\* What a pod was given can serve all it wants.
Served(p) == Matches(p, reserved[p] \cap ClusterResource) # {}

\* The plan serves the request it is for, and every request passed is served.
ServedSoFar ==
    \A o \in Orch :
        /\ pc[o] \in {"lock", "data"} => plan[o] \in Matches(CurPod(o), ClusterResource)
        /\ \A i \in DOMAIN PodsOf[o] :
            \/ pc[o] \in ServingPhase /\ i < cur[o]
            \/ pc[o] \in (Before \cup Network) \ ServingPhase
            => Served(PodsOf[o][i])

\* Only spaces that fit are tried, and once one is given its users have it.
SpaceServed ==
    \A o \in Orch :
        /\ pc[o] \in {"nodelock", "nodedata"} => free[o] \subseteq Fits[o]
        /\ pc[o] = "nodedata" => Planned(o) # {} /\ Planned(o) \subseteq Fits[o]
        /\ pc[o] \in Network \cup {"service"} =>
                \A p \in SpaceUsers(o) : reserved[p] \cap Fits[o] # {}

\* A thread that has passed get_ports has all its ports.
PortsServed ==
    \A o \in Orch : \A p \in MyPods(o) :
        worker[p] \in {"data", "create", "sched", "copy", "check", "ready"} =>
            Cardinality(ports[p]) = NofPorts[p] + NofExtraPorts

\* A thread that has seen its pod run is right about it until the cleanup, and the
\* main thread has passed only pods that are ready.
Awaited ==
    \A o \in Orch :
        /\ \A p \in MyPods(o) :
            pc[o] \in Network /\ worker[p] \in {"copy", "check", "ready"} => object[p] = "running"
        /\ \A i \in DOMAIN PodsOf[o] :
            (pc[o] \in {"pods", "shutdown"} /\ i < cur[o]) \/ pc[o] = "up" => worker[PodsOf[o][i]] = "ready"

\* More resources serve what fewer do.
LEMMA MatchesGrow ==
    ASSUME NEW p, NEW S, NEW T, S \subseteq T
    PROVE  Matches(p, S) \subseteq Matches(p, T)
  BY DEF Matches

\* A pod keeps what it has reserved.
LEMMA ReservedGrows ==
    ASSUME TypeOK, Serving, [Next]_vars, NEW q \in Orch, NEW p \in MyPods(q)
    PROVE  /\ reserved[p] \subseteq reserved'[p]
           /\ pc[q] \notin {"data", "nodedata"} => reserved'[p] = reserved[p]
           /\ Served(p) => Served(p)'
<1>0. p \in Pod
  BY MyPodsType
<1>1. reserved[p] \subseteq reserved'[p] /\ (pc[q] \notin {"data", "nodedata"} => reserved'[p] = reserved[p])
  <2>1. CASE reserved'[p] = reserved[p]
    BY <2>1
  <2>2. CASE CreateResourceData(q)
    <3>1. pc[q] = "data" /\ CurPod(q) \in Pod
      BY <2>2, ServingPod DEF CreateResourceData
    <3>2. \/ UNCHANGED reserved
          \/ reserved' = [reserved EXCEPT ![CurPod(q)] = reserved[CurPod(q)] \cup Planned(q)]
      BY <2>2 DEF CreateResourceData
    <3>3. reserved'[p] \in {reserved[p], reserved[p] \cup Planned(q)}
      BY <1>0, <3>1, <3>2 DEF TypeOK
    <3> QED
      BY <3>1, <3>3
  <2>3. CASE CreateNodeData(q)
    BY <1>0, <2>3 DEF TypeOK, CreateNodeData
  <2> QED
    BY <2>1, <2>2, <2>3, StepAt, MainPods
<1>2. Served(p) => Served(p)'
  <2>1. Matches(p, reserved[p] \cap ClusterResource) \subseteq Matches(p, reserved'[p] \cap ClusterResource)
    BY <1>1, MatchesGrow
  <2> QED
    BY <2>1 DEF Served, Matches
<1> QED
  BY <1>1, <1>2

\* Every step keeps PortsServed.
LEMMA PortsServedStep == ASSUME TypeOK, Serving, Threads, PortsServed, [Next]_vars PROVE PortsServed'
<1> DEFINE Past == {"data", "create", "sched", "copy", "check", "ready"}
<1> SUFFICES ASSUME NEW q \in Orch, NEW p \in MyPods(q), worker'[p] \in Past
             PROVE  Cardinality(ports'[p]) = NofPorts[p] + NofExtraPorts
  BY DEF PortsServed
<1>0. p \in Pod
  BY MyPodsType
<1>1. CASE worker[p] \in Past /\ ports'[p] = ports[p]
  BY <1>1 DEF PortsServed
<1>2. CASE Worker(q, p)
  <2> USE DEF TypeOK, SetWorker
  <2>1. CASE StartWorker(q, p)
    BY <1>0, <2>1 DEF StartWorker
  <2>2. CASE ReservePort(q, p)
    <3>1. worker[p] \in {"ports", "extra"} /\ UNCHANGED worker
      BY <2>2 DEF ReservePort, Threads
    <3> QED
      BY <3>1
  <2>3. CASE GetPorts(q, p)
    BY <1>0, <2>3 DEF GetPorts
  <2>4. CASE CreatePodData(q, p)
    BY <1>0, <1>1, <2>4 DEF CreatePodData
  <2>5. CASE CreatePod(q, p)
    BY <1>0, <1>1, <2>5 DEF CreatePod
  <2>6. CASE WatchPod(q, p)
    BY <1>0, <1>1, <2>6 DEF WatchPod
  <2>7. CASE CopyBinaries(q, p)
    BY <1>0, <1>1, <2>7 DEF CopyBinaries
  <2>8. CASE CheckPodPorts(q, p)
    BY <1>0, <1>1, <2>8 DEF CheckPodPorts
  <2> QED
    BY <1>2, <2>1, <2>2, <2>3, <2>4, <2>5, <2>6, <2>7, <2>8 DEF Worker
<1>3. CASE Kubelet(q, p)
  BY <1>1, <1>3 DEF Kubelet, KubeletStart, KubeletReject, KubeletStop, workerVars
<1>4. CASE PodKept(p)
  BY <1>1, <1>4 DEF PodKept
<1>5. CASE MainThread(q)
  <2>1. CASE AwaitPods(q) /\ UNCHANGED ports
    BY <1>0, <1>1, <2>1 DEF AwaitPods, CancelFutures
  <2>2. CASE UNCHANGED <<worker, ports>>
    BY <1>1, <2>2
  <2> QED
    BY <1>5, <2>1, <2>2, MainPods DEF workerVars
<1> QED
  BY <1>2, <1>3, <1>4, <1>5, StepAt

\* Every step keeps Awaited.
LEMMA AwaitedStep == ASSUME TypeOK, Serving, Threads, Objects, Awaited, [Next]_vars PROVE Awaited'
<1>1. ASSUME NEW q \in Orch, NEW p \in MyPods(q), pc'[q] \in Network, worker'[p] \in {"copy", "check", "ready"}
      PROVE  object'[p] = "running"
  <2>0. p \in Pod
    BY MyPodsType
  <2> USE DEF Network
  <2>1. CASE pc[q] \in Network /\ worker[p] \in {"copy", "check", "ready"} /\ object'[p] = object[p]
    BY <2>1 DEF Awaited
  <2>2. CASE MainKept(q) /\ PodKept(p)
    BY <1>1, <2>1, <2>2 DEF MainKept, PodKept
  <2>3. CASE Worker(q, p) /\ UNCHANGED pc
    <3> USE DEF TypeOK, SetWorker, podVars
    <3>1. CASE StartWorker(q, p)
      BY <1>1, <2>0, <3>1 DEF StartWorker
    <3>2. CASE ReservePort(q, p)
      BY <1>1, <2>1, <2>3, <3>2 DEF ReservePort
    <3>3. CASE GetPorts(q, p)
      BY <1>1, <2>0, <3>3 DEF GetPorts
    <3>4. CASE CreatePodData(q, p)
      BY <1>1, <2>0, <3>4 DEF CreatePodData
    <3>5. CASE CreatePod(q, p)
      BY <1>1, <2>0, <3>5 DEF CreatePod
    <3>6. CASE WatchPod(q, p)
      BY <1>1, <2>0, <3>6 DEF WatchPod
    <3>7. CASE CopyBinaries(q, p)
      BY <1>1, <2>0, <2>1, <2>3, <3>7 DEF CopyBinaries
    <3>8. CASE CheckPodPorts(q, p)
      BY <1>1, <2>0, <2>1, <2>3, <3>8 DEF CheckPodPorts
    <3> QED
      BY <2>3, <3>1, <3>2, <3>3, <3>4, <3>5, <3>6, <3>7, <3>8 DEF Worker
  <2>4. CASE Kubelet(q, p) /\ UNCHANGED pc
    <3>1. UNCHANGED worker
      BY <2>4 DEF Kubelet, KubeletStart, KubeletReject, KubeletStop, workerVars
    <3>2. object[p] = "running"
      BY <1>1, <2>4, <3>1 DEF Awaited
    <3> QED
      BY <2>0, <2>4, <3>2 DEF TypeOK, Kubelet, KubeletStart, KubeletReject, KubeletStop
  <2>5. CASE MainThread(q)
    <3>1. Paths(q)
      BY <2>5, MainPaths
    <3>2. CASE EnsurePortService(q)
      BY <1>1, <3>2 DEF EnsurePortService, Threads, Before, workerVars
    <3>3. CASE AwaitPods(q)
      BY <1>1, <2>0, <2>1, <3>3 DEF AwaitPods, CancelFutures, podVars
    <3>4. CASE Shutdown(q)
      BY <1>1, <2>1, <3>4 DEF Shutdown, workerVars, podVars
    <3> QED
      BY <1>1, <3>1, <3>2, <3>3, <3>4 DEF Paths
  <2> QED
    BY <2>2, <2>3, <2>4, <2>5, StepAt
<1>2. ASSUME NEW q \in Orch, NEW i \in DOMAIN PodsOf[q],
             (pc'[q] \in {"pods", "shutdown"} /\ i < cur'[q]) \/ pc'[q] = "up"
      PROVE  worker'[PodsOf[q][i]] = "ready"
  <2> DEFINE p == PodsOf[q][i]
  <2>0. p \in MyPods(q) /\ p \in Pod /\ DOMAIN PodsOf[q] = 1..Len(PodsOf[q])
    BY MyPodsType, RequestAssumption DEF MyPods
  <2> HIDE DEF p
  <2>1. worker[p] = "ready" => worker'[p] = "ready"
    <3>1. CASE PodKept(p)
      BY <3>1 DEF PodKept
    <3>2. CASE Worker(q, p)
      BY <3>2 DEF Worker, StartWorker, ReservePort, GetPorts, CreatePodData, CreatePod, WatchPod,
                  CopyBinaries, CheckPodPorts
    <3>3. CASE Kubelet(q, p)
      BY <3>3 DEF Kubelet, KubeletStart, KubeletReject, KubeletStop, workerVars
    <3>4. CASE MainThread(q)
      BY <2>0, <3>4, MainPods DEF AwaitPods, CancelFutures, workerVars
    <3> QED
      BY <2>0, <3>1, <3>2, <3>3, <3>4, StepAt
  <2>2. (pc[q] \in {"pods", "shutdown"} /\ i < cur[q]) \/ pc[q] = "up" => worker[p] = "ready"
    BY DEF Awaited, p
  <2>3. CASE MainKept(q)
    BY <1>2, <2>1, <2>2, <2>3 DEF MainKept, p
  <2>4. CASE MainThread(q)
    <3>1. Paths(q)
      BY <2>4, MainPaths
    <3>2. CASE EnsurePortService(q)
      BY <1>2, <2>0, <3>2 DEF TypeOK, EnsurePortService, Goto, Raise
    <3>3. CASE AwaitPods(q)
      <4>1. pc[q] = "pods" /\ cur[q] \in Nat
        BY <3>3 DEF TypeOK, AwaitPods
      <4>2. pc'[q] \in {"pods", "shutdown"}
        BY <3>3 DEF TypeOK, AwaitPods, Goto
      <4>3. \/ cur'[q] = cur[q]
            \/ cur'[q] = cur[q] + 1 /\ worker[CurPod(q)] = "ready"
        BY <3>3 DEF TypeOK, AwaitPods, HasResult
      <4>4. i < cur[q] \/ (i = cur[q] /\ worker[CurPod(q)] = "ready")
        BY <1>2, <2>0, <4>1, <4>2, <4>3
      <4> QED
        BY <2>1, <2>2, <4>1, <4>4 DEF CurPod, p
    <3>4. CASE Shutdown(q)
      BY <1>2, <2>0, <2>1, <2>2, <3>4 DEF TypeOK, Shutdown, Goto, Raise, p
    <3> QED
      BY <1>2, <3>1, <3>2, <3>3, <3>4 DEF Paths
  <2> QED
    BY <2>0, <2>3, <2>4, StepAt
<1> QED
  BY <1>1, <1>2 DEF Awaited

\* The main thread of q takes a step, or it is kept.
LEMMA MainAt ==
    ASSUME TypeOK, [Next]_vars, NEW q \in Orch
    PROVE  (MainThread(q) /\ Leads(q)) \/ MainKept(q)
<1>1. PICK o \in Orch : Apart(o) /\ ((MainThread(o) /\ Leads(o)) \/ Stays(o))
  BY StepOf
<1> QED
  BY <1>1 DEF Apart, Stays, MainKept

\* Every step keeps ServedSoFar.
LEMMA ServedStep == ASSUME TypeOK, Serving, ServedSoFar, [Next]_vars PROVE ServedSoFar'
<1>1. ASSUME NEW q \in Orch, pc'[q] \in {"lock", "data"}
      PROVE  plan'[q] \in Matches(PodsOf[q][cur'[q]], ClusterResource)
  <2>1. CASE /\ pc[q] \in {"lock", "data"}
             /\ plan'[q] = plan[q] /\ cur'[q] = cur[q]
    BY <2>1 DEF ServedSoFar, CurPod
  <2>2. CASE MainKept(q)
    BY <1>1, <2>1, <2>2 DEF MainKept
  <2>3. CASE MatchCluster(q) /\ pc'[q] = "lock"
    <3>1. PICK m \in Matches(CurPod(q), free[q]) : plan' = [plan EXCEPT ![q] = m]
      BY <2>3 DEF TypeOK, MatchCluster, Goto, Raise
    <3>2. UNCHANGED cur /\ CurPod(q) \in Pod
      BY <2>3, ServingPod DEF MatchCluster
    <3>3. Wanted[CurPod(q)] \in Seq(SUBSET ClusterResource)
      BY <3>2, RequestAssumption
    <3>4. m \in Matches(CurPod(q), ClusterResource)
      BY <3>3 DEF Matches
    <3> QED
      BY <3>1, <3>2, <3>4 DEF TypeOK, CurPod
  <2>4. CASE CreateResourceData(q) /\ pc'[q] = "lock"
    BY <2>1, <2>4 DEF TypeOK, CreateResourceData, Goto, Raise
  <2>5. CASE LockResource(q)
    BY <2>1, <2>5 DEF LockResource, planVars
  <2> QED
    BY <1>1, <2>2, <2>3, <2>4, <2>5, MainAt DEF Leads
<1>2. ASSUME NEW q \in Orch, NEW i \in DOMAIN PodsOf[q],
             \/ pc'[q] \in ServingPhase /\ i < cur'[q]
             \/ pc'[q] \in (Before \cup Network) \ ServingPhase
      PROVE  Served(PodsOf[q][i])'
  <2> DEFINE p == PodsOf[q][i]
  <2>0. p \in MyPods(q) /\ p \in Pod /\ PodsOf[q] \in Seq(Pod) /\ cur[q] \in Nat
    BY MyPodsType, RequestAssumption DEF MyPods, TypeOK
  <2>1. \/ pc[q] \in ServingPhase /\ i < cur[q]
        \/ pc[q] \in (Before \cup Network) \ ServingPhase
        => Served(p)
    BY DEF ServedSoFar
  <2> HIDE DEF p
  <2>2. Served(p) => Served(PodsOf[q][i])'
    BY <2>0, ReservedGrows DEF p
  <2>3. CASE MainKept(q)
    BY <1>2, <2>1, <2>2, <2>3 DEF MainKept, Before, Network, ServingPhase
  <2>4. CASE MainThread(q)
    <3>1. Paths(q)
      BY <2>4, MainPaths
    <3>2. CASE StartClusterPass(q)
      <4>1. CASE i < cur[q] /\ pc[q] \in ServingPhase
        BY <2>1, <2>2, <4>1
      <4>2. CASE i >= cur[q]
        <5>1. i \in 1..Len(PodsOf[q])
          BY <2>0
        <5>2. cur[q] <= Len(PodsOf[q]) /\ pc[q] = "cluster"
          BY <2>0, <3>2, <4>2, <5>1 DEF StartClusterPass
        <5>3. pc'[q] \in {"cluster", "cleanup", "look"}
          BY <2>0, <3>2, <5>2 DEF TypeOK, StartClusterPass, Goto, Raise
        <5>4. i < cur'[q]
          BY <1>2, <5>3 DEF ServingPhase, Before, Network
        <5>5. Wanted[CurPod(q)] = <<>> /\ cur' = [cur EXCEPT ![q] = cur[q] + 1]
          BY <2>0, <3>2, <4>2, <5>2, <5>4 DEF StartClusterPass
        <5>6. i = cur[q]
          BY <2>0, <4>2, <5>4, <5>5 DEF TypeOK
        <5>7. Wanted[p] = <<>>
          BY <5>5, <5>6 DEF CurPod, p
        <5>8. <<>> \in Matches(p, reserved[p] \cap ClusterResource)
          BY <5>7 DEF Matches
        <5> QED
          BY <2>2, <5>8 DEF Served
      <4>3. pc[q] \in ServingPhase
        BY <3>2 DEF StartClusterPass, ServingPhase
      <4> QED
        BY <2>0, <4>1, <4>2, <4>3
    <3>3. CASE CreateResourceData(q)
      <4>1. CASE i < cur[q]
        BY <2>1, <2>2, <3>3, <4>1 DEF CreateResourceData, ServingPhase
      <4>2. CASE ~(i < cur[q])
        <5>1. pc'[q] \in ServingPhase /\ i < cur'[q]
          BY <1>2, <3>3 DEF TypeOK, CreateResourceData, Goto, Raise, ServingPhase, Before, Network
        <5>2. /\ cur' = [cur EXCEPT ![q] = cur[q] + 1]
              /\ reserved' = [reserved EXCEPT ![CurPod(q)] = reserved[CurPod(q)] \cup Planned(q)]
          BY <4>2, <5>1, <3>3 DEF CreateResourceData
        <5>3. i = cur[q]
          BY <2>0, <4>2, <5>1, <5>2 DEF TypeOK
        <5>4. p = CurPod(q) /\ plan[q] \in Matches(p, ClusterResource)
          BY <3>3, <5>3 DEF ServedSoFar, CreateResourceData, CurPod, p
        <5>5. reserved'[p] = reserved[p] \cup Planned(q)
          BY <2>0, <5>2, <5>4 DEF TypeOK
        <5>6. plan[q] \in Matches(p, reserved'[p] \cap ClusterResource)
          BY <5>4, <5>5 DEF Matches, Planned
        <5> QED
          BY <5>6 DEF Served, Matches, p
      <4> QED
        BY <4>1, <4>2
    <3>4. CASE ~StartClusterPass(q) /\ ~CreateResourceData(q)
      BY <1>2, <2>1, <2>2, <3>1, <3>4 DEF Paths
    <3> QED
      BY <3>2, <3>3, <3>4
  <2> QED
    BY <2>3, <2>4, MainAt
<1> QED
  BY <1>1, <1>2 DEF ServedSoFar, CurPod

\* Every step keeps SpaceServed.
LEMMA SpaceServedStep == ASSUME TypeOK, Serving, SpaceServed, [Next]_vars PROVE SpaceServed'
<1> SUFFICES ASSUME NEW q \in Orch
             PROVE  /\ pc'[q] \in {"nodelock", "nodedata"} => free'[q] \subseteq Fits[q]
                    /\ pc'[q] = "nodedata" => Planned(q)' # {} /\ Planned(q)' \subseteq Fits[q]
                    /\ pc'[q] \in Network \cup {"service"} =>
                            \A p \in SpaceUsers(q) : reserved'[p] \cap Fits[q] # {}
  BY DEF SpaceServed
<1>1. /\ pc[q] \in {"nodelock", "nodedata"} => free[q] \subseteq Fits[q]
      /\ pc[q] = "nodedata" => Planned(q) # {} /\ Planned(q) \subseteq Fits[q]
      /\ pc[q] \in Network \cup {"service"} => \A p \in SpaceUsers(q) : reserved[p] \cap Fits[q] # {}
  BY DEF SpaceServed
<1>2. SpaceUsers(q) \subseteq MyPods(q) /\ MyPods(q) \subseteq Pod
  BY MyPodsType, RequestAssumption DEF SpaceUsers, MyPods
<1>3. ASSUME pc[q] \in Network \cup {"service"}, NEW p \in SpaceUsers(q)
      PROVE  reserved'[p] \cap Fits[q] # {}
  BY <1>1, <1>2, <1>3, ReservedGrows
<1>4. CASE MainKept(q)
  <2>1. pc'[q] # "crashed" => Planned(q)' = Planned(q)
    BY <1>4 DEF MainKept, Planned
  <2> QED
    BY <1>1, <1>3, <1>4, <2>1 DEF MainKept, Network
<1>5. CASE MainThread(q) /\ Leads(q)
  <2>1. Paths(q)
    BY <1>5, MainPaths
  <2>2. CASE MatchSpaces(q)
    <3>1. free'[q] \subseteq Fits[q] /\ pc'[q] = "nodelock"
      BY <2>2 DEF TypeOK, MatchSpaces, Goto
    <3> QED
      BY <3>1 DEF Network
  <2>3. CASE LockSpace(q) /\ pc'[q] \in {"nodelock", "nodedata"}
    <3>1. PICK s \in free[q] :
             /\ free' = [free EXCEPT ![q] = free[q] \ {s}]
             /\ \/ plan' = [plan EXCEPT ![q] = <<s>>]
                \/ UNCHANGED pc
      BY <2>3 DEF TypeOK, LockSpace, Goto, Raise
    <3>2. free[q] \subseteq Fits[q] /\ pc[q] = "nodelock"
      BY <1>1, <2>3 DEF LockSpace
    <3>3. free'[q] \subseteq Fits[q]
      BY <3>1, <3>2 DEF TypeOK
    <3>4. plan' = [plan EXCEPT ![q] = <<s>>] => Planned(q)' = {s}
      BY DEF TypeOK, Planned
    <3> QED
      BY <2>3, <3>1, <3>2, <3>3, <3>4 DEF Network
  <2>4. CASE CreateNodeData(q)
    <3>1. UNCHANGED <<plan, free>> /\ pc[q] = "nodedata"
      BY <2>4 DEF CreateNodeData, passVars
    <3>2. pc'[q] \in {"nodedata", "service", "nodelock", "cleanup"}
      BY <2>4 DEF TypeOK, CreateNodeData, Goto, Raise
    <3>3. ASSUME pc'[q] = "service", NEW p \in SpaceUsers(q) PROVE reserved'[p] = reserved[p] \cup Planned(q)
      BY <1>2, <2>4, <3>1, <3>3 DEF TypeOK, CreateNodeData, Goto, Raise
    <3>4. Planned(q)' = Planned(q)
      BY <3>1 DEF Planned
    <3> QED
      BY <1>1, <3>1, <3>2, <3>3, <3>4 DEF Network
  <2>5. CASE StartNodePass(q)
    <3>1. pc'[q] \in {"service", "cleanup", "nodelook"}
      BY <2>5 DEF TypeOK, StartNodePass, Goto, Raise
    <3>2. pc'[q] = "service" => SpaceUsers(q) = {}
      BY <2>5 DEF TypeOK, StartNodePass, Goto, Raise, SpaceUsers
    <3> QED
      BY <3>1, <3>2 DEF Network
  <2>6. CASE EnsurePortService(q) \/ AwaitPods(q) \/ Shutdown(q)
    <3>1. pc[q] \in Network \cup {"service"} /\ pc'[q] \notin {"nodelock", "nodedata"}
      BY <2>6 DEF TypeOK, EnsurePortService, AwaitPods, Shutdown, Goto, Raise, Network
    <3> QED
      BY <1>3, <3>1
  <2> QED
    BY <1>5, <2>1, <2>2, <2>3, <2>4, <2>5, <2>6 DEF Leads, Paths, Network
<1> QED
  BY <1>4, <1>5, MainAt

-----------------------------------------------------------------------------
(* The data ConfigMaps.                                                    *)

\* A resource data ConfigMap belongs to the process that names it.
DataNames(o) == {DataOf(o, x) : x \in ClusterResource \cup Pod \cup NodeData(o)}
DataOwn == \A o \in Orch : \A d \in DataNames(o) : cm[d] \in {o, NoOne}

\* What the containers of a pod have mounted is there.
MountedHeld ==
    \A o \in Orch : Booked(o) =>
        \A p \in MyPods(o) : container[p] => \A d \in Mounted(o, p) : cm[d] = o

\* The ConfigMaps with data are ConfigMaps.
LEMMA DataNamesType == \A o \in Orch : DataNames(o) \subseteq Name
  BY DEF DataNames, Name

\* A pod mounts ConfigMaps with data of its own network only.
LEMMA MountedType ==
    ASSUME NEW o \in Orch, NEW p \in Pod
    PROVE  Mounted(o, p) \subseteq DataNames(o)
  BY DEF Mounted, DataNames

\* A call that creates a ConfigMap leaves the others as they are.
LEMMA CallOnly ==
    ASSUME TypeOK, NEW o \in Orch, NEW n, NEW m \in Name, m # n,
           Created(o, n) \/ Refused(n) \/ CreateRaised(o, n)
    PROVE  cm'[m] = cm[m]
<1>1. cm' = [cm EXCEPT ![n] = o] \/ UNCHANGED cm
  BY DEF Created, Refused, CreateRaised
<1> QED
  BY <1>1 DEF TypeOK

\* No orchestration makes a ConfigMap with a data name of another.
LEMMA DataNotMine ==
    ASSUME TypeOK, Serving, NEW o \in Orch, NEW q \in Orch, o # q, NEW d \in DataNames(q),
           MainThread(o) \/ \E p \in MyPods(o) : Worker(o, p)
    PROVE  cm'[d] \in {cm[d], NoOne}
<1>1. d \in Name /\ d \notin Lock
  BY DataNamesType, NameAssumption DEF DataNames
<1>2. \A x : DataOf(o, x) # d
  BY DEF DataNames, DataOf
<1>3. OrchId(o) # d
  BY DEF DataNames, DataOf, OrchId
<1>4. CASE UNCHANGED cm
  BY <1>4
<1>5. CASE CreateOrchId(o)
  BY <1>1, <1>3, <1>5, CallOnly DEF CreateOrchId
<1>6. CASE LockResource(o)
  <2>1. plan[o][item[o]] \in Lock
    BY <1>6 DEF TypeOK, Serving, LockResource
  <2> QED
    BY <1>1, <1>6, <2>1, CallOnly DEF LockResource
<1>7. CASE CreateResourceData(o)
  BY <1>1, <1>2, <1>7, CallOnly DEF CreateResourceData
<1>8. CASE LockSpace(o)
  <2>1. free[o] \subseteq Lock
    BY DEF TypeOK
  <2>2. UNCHANGED cm \/ \E s \in free[o] : Created(o, s) \/ Refused(s) \/ CreateRaised(o, s)
    BY <1>8 DEF LockSpace
  <2> QED
    BY <1>1, <1>4, <2>1, <2>2, CallOnly
<1>9. CASE CreateNodeData(o)
  <2>1. UNCHANGED cm \/ \E x : Created(o, DataOf(o, x)) \/ Refused(DataOf(o, x)) \/ CreateRaised(o, DataOf(o, x))
    BY <1>9 DEF CreateNodeData
  <2> QED
    BY <1>1, <1>2, <1>4, <2>1, CallOnly
<1>10. CASE DeleteConfigMap(o)
  BY <1>1, <1>10 DEF TypeOK, DeleteConfigMap
<1>11. ASSUME NEW p \in MyPods(o), Worker(o, p) PROVE cm'[d] = cm[d]
  <2>1. CASE ReservePort(o, p)
    <3>1. UNCHANGED cm \/ \E x \in Port : Created(o, x) \/ Refused(x) \/ CreateRaised(o, x)
      BY <2>1 DEF ReservePort
    <3> QED
      BY <1>1, <3>1, CallOnly DEF Lock
  <2>2. CASE CreatePodData(o, p)
    BY <1>1, <1>2, <2>2, CallOnly DEF CreatePodData
  <2>3. CASE UNCHANGED cm
    BY <2>3
  <2> QED
    BY <1>11, <2>1, <2>2, <2>3 DEF Worker, StartWorker, GetPorts, CreatePod, WatchPod, CopyBinaries,
       CheckPodPorts
<1>12. MainThread(o) => \/ UNCHANGED cm \/ CreateOrchId(o) \/ LockResource(o) \/ CreateResourceData(o)
                        \/ LockSpace(o) \/ CreateNodeData(o) \/ DeleteConfigMap(o)
  BY Zenon DEF MainThread, ParseRequest, StartClusterPass, ReadAvailability, MatchCluster, StartNodePass,
     MatchSpaces, EnsurePortService, AwaitPods, Shutdown, Finish, ListPods, DeletePod, ListConfigMaps,
     CleanupDone
<1> QED
  BY <1>4, <1>5, <1>6, <1>7, <1>8, <1>9, <1>10, <1>11, <1>12

\* Every step keeps DataOwn.
LEMMA DataOwnStep == ASSUME TypeOK, Serving, DataOwn, [Next]_vars PROVE DataOwn'
<1> SUFFICES ASSUME NEW q \in Orch, NEW d \in DataNames(q) PROVE cm'[d] \in {q, NoOne}
  BY DEF DataOwn, DataNames
<1>1. d \in Name /\ cm[d] \in {q, NoOne}
  BY DataNamesType DEF DataOwn
<1>2. ASSUME NEW o \in Orch, MainThread(o) PROVE cm'[d] \in {q, NoOne}
  <2>1. CASE o # q
    BY <1>1, <1>2, <2>1, DataNotMine
  <2>2. CASE o = q /\ Gains(q)
    BY <1>1, <2>2 DEF Gains
  <2>3. CASE o = q /\ DeleteConfigMap(q)
    BY <1>1, <2>3 DEF TypeOK, DeleteConfigMap
  <2> QED
    BY <1>2, <2>1, <2>2, <2>3, MainLeads DEF Leads
<1>3. ASSUME NEW o \in Orch, NEW p \in MyPods(o), Worker(o, p) PROVE cm'[d] \in {q, NoOne}
  <2>1. CASE o # q
    BY <1>1, <1>3, <2>1, DataNotMine
  <2>2. CASE o = q
    BY <1>1, <1>3, <2>2, PodStays DEF Stays, Gains
  <2> QED
    BY <2>1, <2>2
<1>4. CASE UNCHANGED cm
  BY <1>1, <1>4
<1>5. \/ UNCHANGED cm
      \/ \E o \in Orch : MainThread(o) \/ \E p \in MyPods(o) : Worker(o, p)
  BY DEF Next, vars, Expire, Crash, Kubelet, KubeletStart, KubeletReject, KubeletStop
<1> QED
  BY <1>2, <1>3, <1>4, <1>5

\* Once a Pod object is there, or its containers run, the pod is given nothing more.
LEMMA GivenFixed ==
    ASSUME TypeOK, Serving, Threads, Objects, [Next]_vars, NEW q \in Orch, NEW p \in MyPods(q),
           object[p] # "none" \/ container[p]
    PROVE  reserved'[p] = reserved[p] /\ Given(p)' = Given(p)
<1>1. worker[p] \in Delivered
  BY DEF Objects
<1>2. pc[q] \notin Before /\ asking[p] = {}
  BY <1>1 DEF Threads, Delivered
<1>3. reserved'[p] = reserved[p]
  BY <1>2, ReservedGrows DEF Before, ServingPhase
<1>4. ports'[p] = ports[p]
  <2>1. CASE PodKept(p)
    BY <2>1 DEF PodKept
  <2>2. CASE Worker(q, p)
    <3>1. ~ReservePort(q, p)
      BY <1>2 DEF ReservePort
    <3> QED
      BY <2>2, <3>1 DEF Worker, StartWorker, GetPorts, CreatePodData, CreatePod, WatchPod, CopyBinaries,
         CheckPodPorts
  <2>3. CASE Kubelet(q, p)
    BY <2>3 DEF Kubelet, KubeletStart, KubeletReject, KubeletStop, workerVars
  <2>4. CASE MainThread(q)
    BY <2>4, MainPods DEF workerVars
  <2> QED
    BY <2>1, <2>2, <2>3, <2>4, StepAt
<1> QED
  BY <1>3, <1>4 DEF Given

\* Every step keeps MountedHeld.
LEMMA MountedStep ==
    ASSUME TypeOK, Serving, CleanOwn, Threads, Objects, DataOwn, MountedHeld, [Next]_vars
    PROVE  MountedHeld'
<1> SUFFICES ASSUME NEW q \in Orch, Booked(q)', NEW p \in MyPods(q), container'[p], NEW d \in Mounted(q, p)'
             PROVE  cm'[d] = q
  BY DEF MountedHeld
<1>0. p \in Pod
  BY MyPodsType
<1>1. Booked(q) /\ pc[q] # "delcm"
  <2>1. PICK o \in Orch : Apart(o) /\ ((MainThread(o) /\ Leads(o)) \/ Stays(o))
    BY StepOf
  <2> QED
    BY <2>1, BookedBefore DEF Booked
<1>2. ASSUME reserved'[p] = reserved[p] PROVE d \in Mounted(q, p) /\ d \in Name
  BY <1>0, <1>2, MountedType, DataNamesType DEF Mounted
<1>3. CASE container[p]
  BY <1>1, <1>2, <1>3, GivenFixed, OwnerStep, HeldStep DEF MountedHeld
<1>4. CASE ~container[p]
  <2>1. KubeletStart(q, p)
    <3>1. PodKept(p) => container'[p] = container[p]
      BY DEF PodKept
    <3>2. Worker(q, p) => UNCHANGED container
      BY DEF Worker, StartWorker, ReservePort, GetPorts, CreatePodData, CreatePod, WatchPod, CopyBinaries,
         CheckPodPorts, podVars
    <3>3. MainThread(q) => UNCHANGED container
      BY MainPods DEF podVars
    <3>4. KubeletReject(p) => UNCHANGED container
      BY DEF KubeletReject
    <3>5. KubeletStop(p) => ~container'[p]
      BY <1>0 DEF TypeOK, KubeletStop
    <3> QED
      BY <1>4, <3>1, <3>2, <3>3, <3>4, <3>5, StepAt DEF Kubelet
  <2>2. UNCHANGED <<cm, reserved>> /\ \A e \in Mounted(q, p) : cm[e] # NoOne
    BY <2>1 DEF KubeletStart
  <2> QED
    BY <1>0, <1>2, <2>2, MountedType DEF DataOwn
<1> QED
  BY <1>3, <1>4

-----------------------------------------------------------------------------
(* A network that is up is backed.                                         *)

NetInv ==
    /\ Threads /\ Objects /\ Awaited
    /\ ServedSoFar /\ SpaceServed /\ PortsServed
    /\ DataOwn /\ MountedHeld

\* The invariant of the network holds initially.
LEMMA NetInvInit == Init => NetInv
<1> SUFFICES ASSUME Init PROVE NetInv
  OBVIOUS
<1>1. \A o \in Orch : pc[o] = "id" /\ cur[o] = 1
  BY DEF Init
<1>2. \A p \in Pod : worker[p] = "queued" /\ asking[p] = {} /\ object[p] = "none" /\ container[p] = FALSE
  BY DEF Init
<1>3. Threads /\ Objects /\ MountedHeld
  BY <1>1, <1>2, MyPodsType DEF Threads, Objects, MountedHeld, Quiet, Stopped
<1>4. Awaited /\ PortsServed
  BY <1>1, <1>2, MyPodsType DEF Awaited, PortsServed, Network
<1>5. SpaceServed
  BY <1>1 DEF SpaceServed, Network
<1>6. ServedSoFar
  <2>1. \A o \in Orch : \A i \in DOMAIN PodsOf[o] : ~(i < cur[o])
    BY <1>1, RequestAssumption
  <2> QED
    BY <1>1, <2>1 DEF ServedSoFar, ServingPhase
<1>7. DataOwn
  BY DataNamesType DEF Init, DataOwn
<1> QED
  BY <1>3, <1>4, <1>5, <1>6, <1>7 DEF NetInv

\* Every step keeps the invariant of the network.
LEMMA NetInvStep == IInv /\ NetInv /\ [Next]_vars => NetInv'
<1> SUFFICES ASSUME IInv, NetInv, [Next]_vars PROVE NetInv'
  OBVIOUS
<1>1. TypeOK /\ Serving /\ CleanOwn
  BY DEF IInv
<1>2. /\ Threads /\ Objects /\ Awaited
      /\ ServedSoFar /\ SpaceServed /\ PortsServed
      /\ DataOwn /\ MountedHeld
  BY DEF NetInv
<1>3. Threads' /\ Objects' /\ Awaited'
  BY <1>1, <1>2, ThreadsStep, ObjectsStep, AwaitedStep
<1>4. ServedSoFar' /\ SpaceServed' /\ PortsServed'
  BY <1>1, <1>2, ServedStep, SpaceServedStep, PortsServedStep
<1>5. DataOwn' /\ MountedHeld'
  BY <1>1, <1>2, DataOwnStep, MountedStep
<1> QED
  BY <1>3, <1>4, <1>5 DEF NetInv

\* What is known while a network is made holds in every behaviour.
THEOREM NetInvariance == Spec => [](IInv /\ NetInv)
<1>1. Init => IInv /\ NetInv
  BY IInvInit, NetInvInit
<1>2. (IInv /\ NetInv) /\ [Next]_vars => (IInv /\ NetInv)'
  BY IInvStep, NetInvStep
<1> QED
  BY <1>1, <1>2, PTL DEF Spec

\* The network that create_infrastructure returns has all that was asked for, for
\* any requests, under every kind and number of failures.
THEOREM ReadyBacked == Spec => []ReadyMeansBacked
<1>1. IInv /\ NetInv => ReadyMeansBacked
  <2> SUFFICES ASSUME IInv, NetInv, NEW o \in Orch, pc[o] = "up", NEW p \in MyPods(o)
               PROVE  /\ container[p]
                      /\ Matches(p, reserved[p] \cap ClusterResource) # {}
                      /\ Cardinality(ports[p]) = NofPorts[p] + NofExtraPorts
                      /\ p \in SpaceUsers(o) => reserved[p] \cap Fits[o] # {}
                      /\ \A d \in Mounted(o, p) : cm[d] = o
                      /\ \A n \in Given(p) : cm[n] = o
    BY DEF ReadyMeansBacked
  <2>1. PICK i \in DOMAIN PodsOf[o] : p = PodsOf[o][i]
    BY DEF MyPods
  <2>2. worker[p] = "ready" /\ object[p] = "running" /\ container[p]
    BY <2>1 DEF NetInv, Awaited, Objects, Network
  <2>3. Matches(p, reserved[p] \cap ClusterResource) # {}
    BY <2>1 DEF NetInv, ServedSoFar, Served, Network, Before, ServingPhase
  <2>4. Cardinality(ports[p]) = NofPorts[p] + NofExtraPorts
    BY <2>2 DEF NetInv, PortsServed
  <2>5. p \in SpaceUsers(o) => reserved[p] \cap Fits[o] # {}
    BY DEF NetInv, SpaceServed, Network
  <2>6. \A d \in Mounted(o, p) : cm[d] = o
    BY <2>2 DEF NetInv, MountedHeld, Booked
  <2>7. \A n \in Given(p) : cm[n] = o
    BY DEF IInv, GivenHeld, Booked
  <2> QED
    BY <2>2, <2>3, <2>4, <2>5, <2>6, <2>7
<1> QED
  BY <1>1, NetInvariance, PTL

-----------------------------------------------------------------------------
(* The cleanup.                                                            *)

\* As long as no pod is deleted by force, containers run only in a Pod object that
\* the API server knows; the cleanup waits for every pod there is, and begins with
\* the ConfigMaps when there is none.
Watched ==
    \A o \in Orch : \A p \in MyPods(o) :
        /\ container[p] => object[p] \in {"running", "terminating"}
        /\ pc[o] = "delpods" /\ object[p] # "none" => p \in victims[o]
        /\ pc[o] = "delcm" => object[p] = "none"

\* As long as a Pod object is there, what the pod was given is held: also by an
\* orchestration that has crashed or given up.
UsedHeld ==
    \A o \in Orch : \A p \in MyPods(o) :
        object[p] # "none" => \A n \in Given(p) : cm[n] = o

\* Every step but a forced deletion keeps Watched.
LEMMA WatchedStep ==
    ASSUME "slow" \notin FaultKinds, TypeOK, Serving, Threads, Objects, Watched, [Next]_vars
    PROVE  Watched'
<1> SUFFICES ASSUME NEW q \in Orch, NEW p \in MyPods(q)
             PROVE  /\ container'[p] => object'[p] \in {"running", "terminating"}
                    /\ pc'[q] = "delpods" /\ object'[p] # "none" => p \in victims'[q]
                    /\ pc'[q] = "delcm" => object'[p] = "none"
  BY DEF Watched
<1>0. p \in Pod
  BY MyPodsType
<1>1. /\ container[p] => object[p] \in {"running", "terminating"}
      /\ pc[q] = "delpods" /\ object[p] # "none" => p \in victims[q]
      /\ pc[q] = "delcm" => object[p] = "none"
  BY DEF Watched
<1>2. pc[q] \in {"delpods", "delcm"} => worker[p] \in Stopped /\ asking[p] = {}
  BY DEF Threads, Quiet, Stopped
<1>3. CASE MainKept(q) /\ PodKept(p)
  BY <1>1, <1>3 DEF MainKept, PodKept
<1>4. CASE Worker(q, p) /\ MainKept(q) /\ UNCHANGED pc
  <2>1. pc[q] \notin {"delpods", "delcm"}
    BY <1>2, <1>4 DEF Worker, StartWorker, ReservePort, GetPorts, CreatePodData, CreatePod, WatchPod,
       CopyBinaries, CheckPodPorts, Stopped
  <2>2. UNCHANGED container
    BY <1>4 DEF Worker, StartWorker, ReservePort, GetPorts, CreatePodData, CreatePod, WatchPod,
       CopyBinaries, CheckPodPorts, podVars
  <2>3. object'[p] = object[p] \/ object[p] = "none" \/ object'[p] = "terminating"
    BY <1>0, <1>4 DEF TypeOK, Worker, StartWorker, ReservePort, GetPorts, CreatePodData, CreatePod, WatchPod,
       CopyBinaries, CheckPodPorts, podVars
  <2> QED
    BY <1>1, <1>4, <2>1, <2>2, <2>3
<1>5. CASE Kubelet(q, p) /\ MainKept(q) /\ UNCHANGED pc
  BY <1>0, <1>1, <1>5 DEF TypeOK, MainKept, Kubelet, KubeletStart, KubeletReject, KubeletStop
<1>6. CASE MainThread(q)
  <2>1. Paths(q)
    BY <1>6, MainPaths
  <2>2. CASE \E r \in MyPods(q) : DeletePod(q, r)
    <3>1. PICK r \in MyPods(q) : DeletePod(q, r)
      BY <2>2
    <3>2. CASE r = p
      BY <1>0, <1>1, <3>1, <3>2 DEF TypeOK, DeletePod, Fault
    <3>3. CASE r # p
      <4>1. object'[p] = object[p] /\ UNCHANGED <<pc, container>> /\ (p \in victims[q] => p \in victims'[q])
        BY <1>0, <3>1, <3>3, MyPodsType DEF TypeOK, DeletePod
      <4> QED
        BY <1>1, <4>1
    <3> QED
      BY <3>2, <3>3
  <2>3. CASE ~(\E r \in MyPods(q) : DeletePod(q, r))
    <3>1. UNCHANGED <<object, container>>
      BY <1>6, <2>3, MainPods DEF podVars, CreateResourceData, CreateNodeData, AwaitPods
    <3>2. CASE ListPods(q) /\ pc'[q] = "delpods"
      BY <1>1, <3>1, <3>2 DEF TypeOK, ListPods, CleanupRaises, Goto
    <3>3. CASE ListConfigMaps(q)
      BY <1>1, <3>1, <3>3 DEF TypeOK, ListConfigMaps, CleanupRaises, PodsDeleted, Goto
    <3>4. CASE DeleteConfigMap(q)
      BY <1>1, <3>1, <3>4 DEF TypeOK, DeleteConfigMap
    <3> QED
      BY <1>1, <2>1, <2>3, <3>1, <3>2, <3>3, <3>4 DEF Paths
  <2> QED
    BY <2>2, <2>3
<1> QED
  BY <1>3, <1>4, <1>5, <1>6, StepAt

\* Every step but a forced deletion keeps UsedHeld.
LEMMA UsedHeldStep ==
    ASSUME "slow" \notin FaultKinds, IInv, Threads, Objects, Watched, UsedHeld, [Next]_vars
    PROVE  UsedHeld'
<1> SUFFICES ASSUME NEW q \in Orch, NEW p \in MyPods(q), object'[p] # "none", NEW n \in Given(p)'
             PROVE  cm'[n] = q
  BY DEF UsedHeld
<1>0. p \in Pod /\ TypeOK /\ Serving /\ CleanOwn /\ GivenHeld
  BY MyPodsType DEF IInv
<1>1. CASE object[p] # "none"
  <2>1. n \in Given(p) /\ n \in Name
    BY <1>0, <1>1, GivenFixed, GivenType
  <2>2. pc[q] # "delcm" /\ cm[n] = q
    BY <1>1, <2>1 DEF Watched, UsedHeld
  <2> QED
    BY <1>0, <2>1, <2>2, OwnerStep, HeldStep
<1>2. CASE object[p] = "none"
  <2>1. CreatePod(q, p)
    <3>1. PodKept(p) => object'[p] = object[p]
      BY DEF PodKept
    <3>2. Worker(q, p) /\ ~CreatePod(q, p) => object'[p] = object[p]
      BY <1>0, <1>2 DEF Worker, StartWorker, ReservePort, GetPorts, CreatePodData, WatchPod, CopyBinaries,
         CheckPodPorts, podVars
    <3>3. Kubelet(q, p) => object'[p] = "none"
      BY <1>0, <1>2 DEF TypeOK, Kubelet, KubeletStart, KubeletReject, KubeletStop
    <3>4. ASSUME MainThread(q) PROVE object'[p] = "none"
      <4>1. CASE UNCHANGED podVars
        BY <1>2, <4>1 DEF podVars
      <4>2. ASSUME NEW r \in MyPods(q), DeletePod(q, r) PROVE object'[p] = "none"
        BY <1>0, <1>2, <4>2, MyPodsType DEF TypeOK, DeletePod
      <4> QED
        BY <3>4, <4>1, <4>2, MainPods
    <3> QED
      BY <1>0, <1>2, <3>1, <3>2, <3>3, <3>4, StepAt
  <2>2. worker[p] = "create" /\ pc[q] # "crashed"
    BY <2>1 DEF CreatePod, Running
  <2>3. Booked(q)
    BY <2>2 DEF Threads, Quiet, Stopped, Booked
  <2>4. Given(p)' = Given(p) /\ UNCHANGED cm
    BY <2>1 DEF CreatePod, Given
  <2> QED
    BY <1>0, <2>3, <2>4 DEF GivenHeld
<1> QED
  BY <1>1, <1>2

\* Nothing is used initially.
LEMMA UseInit == Init => Watched /\ UsedHeld
  BY MyPodsType DEF Init, Watched, UsedHeld

\* What is known while pods are deleted in time.
LEMMA UseInvariance ==
    ASSUME "slow" \notin FaultKinds
    PROVE  Spec => [](IInv /\ NetInv /\ Watched /\ UsedHeld)
<1>1. (IInv /\ NetInv /\ Watched /\ UsedHeld) /\ [Next]_vars => (Watched /\ UsedHeld)'
  BY WatchedStep, UsedHeldStep DEF IInv, NetInv
<1> QED
  BY <1>1, UseInit, NetInvariance, PTL DEF Spec

\* What the containers of a pod use is locked by its orchestration, dead or alive,
\* however calls fail and whoever crashes, as long as no pod is deleted by force.
THEOREM UsedLocked ==
    ASSUME "slow" \notin FaultKinds
    PROVE  Spec => []UsedWhileLocked
<1>1. Watched /\ UsedHeld => UsedWhileLocked
  BY DEF Watched, UsedHeld, UsedWhileLocked
<1> QED
  BY <1>1, UseInvariance, PTL

\* Before its first call an orchestration has nothing; what it has when it deletes
\* its ConfigMaps is on its list; and when it is over it has nothing but its id.
NothingKept ==
    \A o \in Orch :
        /\ pc[o] = "id" => \A n \in Name : cm[n] # o
        /\ pc[o] = "delcm" => \A n \in Name : cm[n] = o => n \in victims[o]
        /\ pc[o] = "done" => \A n \in Name \ {OrchId(o)} : cm[n] # o
        /\ pc[o] = "done" => \A p \in MyPods(o) : object[p] = "none"

\* Only a call of q itself makes a ConfigMap of q: none does in these phases but
\* the create of the id.
LEMMA MadeByOwner ==
    ASSUME IInv, Threads, [Next]_vars, NEW q \in Orch, pc[q] \in {"id", "delcm", "done"},
           NEW n \in Name, cm[n] # q, cm'[n] = q
    PROVE  CreateOrchId(q) /\ n = OrchId(q)
<1>0. TypeOK /\ Serving /\ CleanOwn
  BY DEF IInv
<1>1. ASSUME NEW o \in Orch, MainThread(o) PROVE o = q /\ MainThread(q)
  <2>1. CASE Gains(o)
    BY <1>1, <2>1 DEF Gains
  <2>2. CASE DeleteConfigMap(o)
    BY <2>2, <1>0, OrchAssumption DEF TypeOK, DeleteConfigMap
  <2> QED
    BY <1>0, <1>1, <2>1, <2>2, MainLeads DEF Leads
<1>2. CASE MainThread(q)
  <2>1. CASE pc[q] = "id"
    <3>1. CreateOrchId(q)
      BY <1>2, <2>1 DEF MainThread, ParseRequest, StartClusterPass, ReadAvailability, MatchCluster,
         LockResource, CreateResourceData, StartNodePass, MatchSpaces, LockSpace, CreateNodeData,
         EnsurePortService, AwaitPods, Shutdown, Finish, ListPods, DeletePod, ListConfigMaps,
         DeleteConfigMap, CleanupDone
    <3>2. n = OrchId(q)
      BY <1>0, <3>1, CallOnly DEF CreateOrchId
    <3> QED
      BY <3>1, <3>2
  <2>2. CASE pc[q] \in {"delcm", "done"}
    <3>1. DeleteConfigMap(q) \/ CleanupDone(q)
      BY <1>2, <2>2 DEF MainThread, CreateOrchId, ParseRequest, StartClusterPass, ReadAvailability, MatchCluster,
         LockResource, CreateResourceData, StartNodePass, MatchSpaces, LockSpace, CreateNodeData,
         EnsurePortService, AwaitPods, Shutdown, Finish, ListPods, DeletePod, ListConfigMaps
    <3>2. cm'[n] \in {cm[n], NoOne}
      BY <1>0, <3>1 DEF TypeOK, DeleteConfigMap, CleanupDone
    <3> QED
      BY <3>2, OrchAssumption
  <2> QED
    BY <2>1, <2>2
<1>3. ASSUME NEW o \in Orch, NEW p \in MyPods(o), Worker(o, p) PROVE FALSE
  <2>1. o = q
    BY <1>0, <1>3, PodStays DEF Stays, Gains
  <2>2. worker[p] \in Stopped /\ asking[p] = {}
    BY <2>1 DEF Threads, Quiet, Stopped, Before, ServingPhase
  <2> QED
    BY <1>3, <2>1, <2>2 DEF Worker, StartWorker, ReservePort, GetPorts, CreatePodData, CreatePod, WatchPod,
       CopyBinaries, CheckPodPorts, Stopped
<1>4. \/ UNCHANGED cm
      \/ \E o \in Orch : MainThread(o) \/ \E p \in MyPods(o) : Worker(o, p)
  BY DEF Next, vars, Expire, Crash, Kubelet, KubeletStart, KubeletReject, KubeletStop
<1> QED
  BY <1>1, <1>2, <1>3, <1>4

\* No Pod object appears when the threads have stopped.
LEMMA NoNewPods ==
    ASSUME TypeOK, Serving, Threads, [Next]_vars, NEW q \in Orch, pc[q] \in {"id", "delcm", "done"},
           NEW p \in MyPods(q), object[p] = "none"
    PROVE  object'[p] = "none"
<1>0. p \in Pod /\ worker[p] \in Stopped /\ asking[p] = {}
  BY MyPodsType DEF Threads, Quiet, Stopped, Before, ServingPhase
<1>1. PodKept(p) => object'[p] = object[p]
  BY DEF PodKept
<1>2. Worker(q, p) => UNCHANGED object
  BY <1>0 DEF Worker, StartWorker, ReservePort, GetPorts, CreatePodData, CreatePod, WatchPod, CopyBinaries,
     CheckPodPorts, Stopped, podVars
<1>3. Kubelet(q, p) => object'[p] = "none"
  BY <1>0 DEF TypeOK, Kubelet, KubeletStart, KubeletReject, KubeletStop
<1>4. MainThread(q) => UNCHANGED object
  BY MainPods DEF podVars, DeletePod
<1> QED
  BY <1>1, <1>2, <1>3, <1>4, StepAt

\* Every step keeps NothingKept, if the calls of the cleanup do what they are asked.
LEMMA NothingKeptStep ==
    ASSUME FaultKinds \cap {"list", "delete", "slow"} = {},
           IInv, Threads, Objects, Watched, NothingKept, [Next]_vars
    PROVE  NothingKept'
<1> SUFFICES ASSUME NEW q \in Orch
             PROVE  /\ pc'[q] = "id" => \A n \in Name : cm'[n] # q
                    /\ pc'[q] = "delcm" => \A n \in Name : cm'[n] = q => n \in victims'[q]
                    /\ pc'[q] = "done" => \A n \in Name \ {OrchId(q)} : cm'[n] # q
                    /\ pc'[q] = "done" => \A p \in MyPods(q) : object'[p] = "none"
  BY DEF NothingKept
<1>0. TypeOK /\ Serving /\ CleanOwn
  BY DEF IInv
<1>1. /\ pc[q] = "id" => \A n \in Name : cm[n] # q
      /\ pc[q] = "delcm" => \A n \in Name : cm[n] = q => n \in victims[q]
      /\ pc[q] = "done" => \A n \in Name \ {OrchId(q)} : cm[n] # q
      /\ pc[q] = "done" => \A p \in MyPods(q) : object[p] = "none"
  BY DEF NothingKept
<1>2. CASE MainKept(q) /\ ~CreateOrchId(q)
  <2>1. pc[q] \in {"id", "delcm", "done"} => \A n \in Name : cm'[n] = q => cm[n] = q
    BY <1>2, MadeByOwner
  <2>2. pc[q] = "done" => \A p \in MyPods(q) : object'[p] = "none"
    BY <1>0, <1>1, NoNewPods
  <2> QED
    BY <1>1, <1>2, <2>1, <2>2 DEF MainKept
<1>3. CASE CreateOrchId(q)
  <2>1. pc[q] = "id" /\ pc'[q] \in {"id", "request", "done"} /\ (pc'[q] = "id" => UNCHANGED cm)
    BY <1>0, <1>3 DEF TypeOK, CreateOrchId, Goto
  <2>2. \A n \in Name \ {OrchId(q)} : cm'[n] # q
    BY <1>0, <1>1, <1>3, <2>1, CallOnly DEF CreateOrchId
  <2>3. \A p \in MyPods(q) : object[p] = "none"
    BY <2>1 DEF Threads, Objects, Before, ServingPhase, Delivered
  <2> QED
    BY <1>0, <1>1, <2>1, <2>2, <2>3, NoNewPods
<1>4. CASE MainThread(q) /\ Leads(q) /\ ~CreateOrchId(q)
  <2>1. Paths(q)
    BY <1>0, <1>4, MainPaths
  <2>2. pc'[q] # "id"
    <3>1. ~CreateOrchId(q) /\ MainThread(q) => pc[q] # "id"
      BY DEF MainThread, ParseRequest, StartClusterPass, ReadAvailability, MatchCluster,
         LockResource, CreateResourceData, StartNodePass, MatchSpaces, LockSpace, CreateNodeData,
         EnsurePortService, AwaitPods, Shutdown, Finish, ListPods, DeletePod, ListConfigMaps,
         DeleteConfigMap, CleanupDone
    <3>2. pc'[q] = pc[q] \/ pc'[q] # "id"
      BY <1>0, <1>4, Zenon DEF TypeOK, MainThread, ParseRequest, StartClusterPass, ReadAvailability, MatchCluster,
         LockResource, CreateResourceData, StartNodePass, MatchSpaces, LockSpace, CreateNodeData,
         EnsurePortService, AwaitPods, Shutdown, Finish, ListPods, DeletePod, ListConfigMaps,
         DeleteConfigMap, CleanupDone, CleanupRaises, Goto, Raise
    <3> QED
      BY <1>4, <3>1, <3>2
  <2>3. CASE ListConfigMaps(q) /\ pc'[q] = "delcm"
    <3>1. UNCHANGED cm /\ victims'[q] = OwnConfigMaps(q)
      BY <1>0, <2>3 DEF TypeOK, ListConfigMaps, CleanupRaises, Fault
    <3> QED
      BY <2>3, <3>1 DEF OwnConfigMaps
  <2>4. CASE DeleteConfigMap(q)
    <3>1. PICK m \in victims[q] : cm' = [cm EXCEPT ![m] = NoOne] /\ victims' = [victims EXCEPT ![q] = victims[q] \ {m}]
      BY <2>4 DEF DeleteConfigMap, Fault
    <3>2. \A n \in Name : cm'[n] = q => cm[n] = q /\ n # m
      BY <1>0, <3>1, OrchAssumption DEF TypeOK
    <3>3. pc[q] = "delcm" /\ UNCHANGED pc
      BY <2>4 DEF DeleteConfigMap
    <3> QED
      BY <1>0, <1>1, <3>1, <3>2, <3>3 DEF TypeOK
  <2>5. CASE CleanupDone(q)
    <3>1. \A n \in Name : cm[n] # q
      BY <1>1, <2>5 DEF CleanupDone
    <3>2. \A p \in MyPods(q) : object[p] = "none"
      BY <2>5 DEF CleanupDone, Watched
    <3>3. pc'[q] = "done" /\ UNCHANGED <<cm, object>>
      BY <1>0, <2>5 DEF TypeOK, CleanupDone, Goto, podVars
    <3> QED
      BY <3>1, <3>2, <3>3
  <2>6. ~CleanupRaises(q)
    BY DEF CleanupRaises, Fault
  <2> QED
    BY <1>4, <2>1, <2>2, <2>3, <2>4, <2>5, <2>6 DEF Paths
<1> QED
  BY <1>0, <1>2, <1>3, <1>4, MainAt

\* Whatever fails while a network is made, and whoever crashes, an orchestration that
\* is over has left nothing behind, if the calls of its cleanup succeed.
THEOREM LeavesNothing ==
    ASSUME FaultKinds \cap {"list", "delete", "slow"} = {}
    PROVE  Spec => []NothingLeft
<1>1. Init => NothingKept
  BY OrchAssumption, MyPodsType DEF Init, NothingKept
<1>2. (IInv /\ NetInv /\ Watched /\ UsedHeld) /\ NothingKept /\ [Next]_vars => NothingKept'
  BY NothingKeptStep DEF NetInv
<1>3. Watched /\ NothingKept => NothingLeft
  BY DEF Watched, NothingKept, NothingLeft
<1>4. Spec => [](IInv /\ NetInv /\ Watched /\ UsedHeld)
  BY UseInvariance
<1> QED
  BY <1>1, <1>2, <1>3, <1>4, PTL DEF Spec

-----------------------------------------------------------------------------
(* What only the refinement needs.                                         *)

\* Two pods of one orchestration never share anything but a space.
AlwaysApart ==
    \A o \in Orch : \A p, q \in MyPods(o) : p # q => Given(p) \cap Given(q) \subseteq Space

\* A pod that runs is one of a request.
NoStrangers == \A p \in Pod : container[p] => \E o \in Orch : p \in MyPods(o)

\* Only an orchestration that is booked, and stays so, gives a pod something.
LEMMA GrowsBooked ==
    ASSUME TypeOK, Serving, Threads, [Next]_vars, NEW q \in Orch, NEW p \in MyPods(q), Given(p)' # Given(p)
    PROVE  Booked(q)'
<1>1. ~(PodKept(p) /\ reserved'[p] = reserved[p])
  BY DEF PodKept, Given
<1>2. CASE Worker(q, p) /\ UNCHANGED <<pc, reserved>>
  <2>1. ReservePort(q, p)
    BY <1>2 DEF Given, Worker, StartWorker, GetPorts, CreatePodData, CreatePod, WatchPod, CopyBinaries,
       CheckPodPorts
  <2>2. pc[q] # "crashed" /\ worker[p] \notin Stopped
    BY <2>1 DEF ReservePort, Running, Threads, Stopped
  <2> QED
    BY <1>2, <2>2 DEF Threads, Quiet, Booked
<1>3. CASE Kubelet(q, p) /\ UNCHANGED reserved
  BY <1>3 DEF Given, Kubelet, KubeletStart, KubeletReject, KubeletStop, workerVars
<1>4. CASE MainThread(q)
  <2>1. CreateResourceData(q) \/ CreateNodeData(q)
    BY <1>4, MainPods DEF Given, workerVars
  <2>2. pc'[q] \notin {"delcm", "done", "crashed"}
    BY <2>1 DEF TypeOK, CreateResourceData, CreateNodeData, Goto, Raise
  <2> QED
    BY <2>2 DEF Booked
<1> QED
  BY <1>1, <1>2, <1>3, <1>4, StepAt

\* Every step keeps the pods of a network apart.
LEMMA AlwaysApartStep ==
    ASSUME IInv, Threads, AlwaysApart, [Next]_vars PROVE AlwaysApart'
<1> SUFFICES ASSUME NEW q \in Orch, NEW p \in MyPods(q), NEW r \in MyPods(q), p # r
             PROVE  Given(p)' \cap Given(r)' \subseteq Space
  BY DEF AlwaysApart
<1>1. TypeOK /\ Serving
  BY DEF IInv
<1>2. CASE Given(p)' = Given(p) /\ Given(r)' = Given(r)
  BY <1>2 DEF AlwaysApart
<1>3. CASE Booked(q)'
  BY <1>3, IInvStep DEF IInv, GivenApart
<1> QED
  BY <1>1, <1>2, <1>3, GrowsBooked

\* No step starts a pod of no network.
LEMMA NoStrangersStep ==
    ASSUME TypeOK, Serving, NoStrangers, [Next]_vars PROVE NoStrangers'
<1> SUFFICES ASSUME NEW p \in Pod, container'[p], ~container[p] PROVE \E o \in Orch : p \in MyPods(o)
  BY DEF NoStrangers
<1>1. ASSUME NEW o \in Orch, NEW r \in MyPods(o), Worker(o, r) \/ Kubelet(o, r) PROVE r = p
  BY <1>1, OtherPods DEF PodKept
<1>2. ASSUME NEW o \in Orch, MainThread(o) PROVE FALSE
  BY <1>2, MainPods DEF podVars
<1> QED
  BY <1>1, <1>2 DEF Next, vars, Expire, Crash, podVars

SharingInv == IInv /\ NetInv /\ Watched /\ UsedHeld /\ AlwaysApart /\ NoStrangers

\* The invariants hold together.
LEMMA SharingInvariance ==
    ASSUME "slow" \notin FaultKinds
    PROVE  Spec => []SharingInv
<1>1. Init => AlwaysApart /\ NoStrangers
  BY MyPodsType DEF Init, AlwaysApart, NoStrangers, Given
<1>2. (IInv /\ NetInv /\ Watched /\ UsedHeld) /\ (AlwaysApart /\ NoStrangers) /\ [Next]_vars
        => (AlwaysApart /\ NoStrangers)'
  BY AlwaysApartStep, NoStrangersStep DEF IInv, NetInv
<1> QED
  BY <1>1, <1>2, UseInvariance, PTL DEF Spec, SharingInv

-----------------------------------------------------------------------------
(* The state of the pool.                                                  *)

Owners == [n \in Lock |-> cm[n]]
PhaseOf(o) == CASE pc[o] = "delcm" -> "giving"
                [] pc[o] \in {"done", "crashed"} -> "gone"
                [] OTHER -> "taking"
Phases == [o \in Orch |-> PhaseOf(o)]
Using(p) == IF container[p] THEN Given(p) ELSE {}
Uses == [p \in Pod |-> Using(p)]
JobOfPod == [p \in Pod |-> CHOOSE o \in Orch : p \in MyPods(o)]

\* The network of a pod is the one whose request has it.
LEMMA JobOfPodIs == ASSUME NEW o \in Orch, NEW p \in MyPods(o) PROVE JobOfPod[p] = o
  BY MyPodsType, OwnPods DEF JobOfPod

\* The actions of the pool in these terms.
LEMMA PoolTake ==
    ASSUME NEW o \in Orch, NEW n \in Lock, Phases[o] = "taking", Owners[n] = NoOne,
           Owners' = [Owners EXCEPT ![n] = o], UNCHANGED <<Phases, Uses>>
    PROVE  Pool!Next
<1>1. Pool!Take(o, n)
  BY DEF Pool!Take, Owners, Phases, PhaseOf, Uses, Using
<1> QED
  BY <1>1 DEF Pool!Next

\* A resource is given back by its owner, used by nobody.
LEMMA PoolGive ==
    ASSUME NEW o \in Orch, NEW n \in Lock, Phases[o] = "giving", Owners[n] = o,
           \A p \in Pod : n \notin Uses[p],
           Owners' = [Owners EXCEPT ![n] = NoOne], UNCHANGED <<Phases, Uses>>
    PROVE  Pool!Next
<1>1. Pool!Give(o, n)
  BY DEF Pool!Give, Owners, Phases, PhaseOf, Uses, Using
<1> QED
  BY <1>1 DEF Pool!Next

\* A network begins to give back.
LEMMA PoolStartGiving ==
    ASSUME NEW o \in Orch, Phases[o] = "taking", Phases' = [Phases EXCEPT ![o] = "giving"],
           UNCHANGED <<Owners, Uses>>
    PROVE  Pool!Next
<1>1. Pool!StartGiving(o)
  BY DEF Pool!StartGiving, Owners, Phases, PhaseOf, Uses, Using
<1> QED
  BY <1>1 DEF Pool!Next

\* A network is gone.
LEMMA PoolGo ==
    ASSUME NEW o \in Orch, Phases[o] # "gone", Phases' = [Phases EXCEPT ![o] = "gone"],
           UNCHANGED <<Owners, Uses>>
    PROVE  Pool!Next
<1>1. Pool!Go(o)
  BY DEF Pool!Go, Owners, Phases, PhaseOf, Uses, Using
<1> QED
  BY <1>1 DEF Pool!Next

\* A pod begins to use what its network has.
LEMMA PoolRun ==
    ASSUME NEW p \in Pod, NEW R \in SUBSET Lock, Uses[p] = {},
           \A n \in R : /\ Owners[n] = JobOfPod[p]
                        /\ n \in Space \/ \A r \in Pod \ {p} : n \notin Uses[r],
           Uses' = [Uses EXCEPT ![p] = R], UNCHANGED <<Owners, Phases>>
    PROVE  Pool!Next
<1>1. Pool!Run(p, R)
  BY DEF Pool!Run, Owners, Phases, PhaseOf, Uses, Using, JobOfPod
<1> QED
  BY <1>1 DEF Pool!Next

\* A pod stops using.
LEMMA PoolEnd ==
    ASSUME NEW p \in Pod, Uses' = [Uses EXCEPT ![p] = {}], UNCHANGED <<Owners, Phases>>
    PROVE  Pool!Next
<1>1. Pool!End(p)
  BY DEF Pool!End, Owners, Phases, PhaseOf, Uses, Using
<1> QED
  BY <1>1 DEF Pool!Next

\* A step that changes none of this is none of the pool.
LEMMA PoolStutter == UNCHANGED <<Owners, Phases, Uses>> => UNCHANGED Pool!poolVars
  BY DEF Pool!poolVars, Owners, Phases, PhaseOf, Uses, Using

-----------------------------------------------------------------------------
(* Each step of Orchestration is one of the pool, or none.                 *)

\* A call makes one ConfigMap or none.
Makes(o) == UNCHANGED cm \/ \E n : cm[n] = NoOne /\ cm' = [cm EXCEPT ![n] = o]

\* A call to create a ConfigMap does.
LEMMA CallMakes ==
    ASSUME NEW o \in Orch, NEW n, Created(o, n) \/ Refused(n) \/ CreateRaised(o, n)
    PROVE  Makes(o)
  BY DEF Created, Refused, CreateRaised, Makes

\* So does every step of a worker.
LEMMA WorkerMakes ==
    ASSUME NEW o \in Orch, NEW p \in MyPods(o), Worker(o, p)
    PROVE  Makes(o)
<1>1. CASE ReservePort(o, p)
  BY <1>1, CallMakes DEF ReservePort, Makes
<1>2. CASE CreatePodData(o, p)
  BY <1>2, CallMakes DEF CreatePodData, Makes
<1>3. CASE UNCHANGED cm
  BY <1>3 DEF Makes
<1> QED
  BY <1>1, <1>2, <1>3 DEF Worker, StartWorker, GetPorts, CreatePod, WatchPod, CopyBinaries, CheckPodPorts

\* So does every step of the main thread, but for the deletions.
LEMMA MainMakes ==
    ASSUME NEW o \in Orch, MainThread(o)
    PROVE  Makes(o) \/ DeleteConfigMap(o)
<1>1. CASE CreateOrchId(o)
  BY <1>1, CallMakes DEF CreateOrchId, Makes
<1>2. CASE LockResource(o)
  BY <1>2, CallMakes DEF LockResource
<1>3. CASE CreateResourceData(o)
  BY <1>3, CallMakes DEF CreateResourceData
<1>4. CASE LockSpace(o)
  BY <1>4, CallMakes DEF LockSpace, Makes
<1>5. CASE CreateNodeData(o)
  BY <1>5, CallMakes DEF CreateNodeData, Makes
<1>6. CASE UNCHANGED cm
  BY <1>6 DEF Makes
<1>7. \/ UNCHANGED cm \/ CreateOrchId(o) \/ LockResource(o) \/ CreateResourceData(o)
      \/ LockSpace(o) \/ CreateNodeData(o) \/ DeleteConfigMap(o)
  BY Zenon DEF MainThread, ParseRequest, StartClusterPass, ReadAvailability, MatchCluster, StartNodePass,
     MatchSpaces, EnsurePortService, AwaitPods, Shutdown, Finish, ListPods, DeletePod, ListConfigMaps,
     CleanupDone
<1> QED
  BY <1>1, <1>2, <1>3, <1>4, <1>5, <1>6, <1>7

\* What a pod runs with does not change while it runs.
LEMMA UsesKept ==
    ASSUME SharingInv, [Next]_vars, NEW p \in Pod, container'[p] = container[p]
    PROVE  Using(p)' = Using(p)
<1>1. CASE container[p]
  <2>1. PICK o \in Orch : p \in MyPods(o)
    BY <1>1 DEF SharingInv, NoStrangers
  <2>2. Given(p)' = Given(p)
    BY <1>1, <2>1, GivenFixed DEF SharingInv, IInv, NetInv
  <2> QED
    BY <2>2 DEF Using
<1>2. CASE ~container[p]
  BY <1>2 DEF Using
<1> QED
  BY <1>1, <1>2

\* One lock at most is taken, by an orchestration that is booked.
LEMMA MakesTakes ==
    ASSUME TypeOK, NEW o \in Orch, Makes(o), Booked(o), UNCHANGED <<Phases, Uses>>
    PROVE  Pool!Next \/ UNCHANGED Pool!poolVars
<1>1. Phases[o] = "taking"
  BY DEF Phases, PhaseOf, Booked
<1>2. CASE UNCHANGED Owners
  BY <1>2, PoolStutter
<1>3. ASSUME NEW n \in Lock, cm[n] = NoOne, cm' = [cm EXCEPT ![n] = o]
      PROVE  Pool!Next
  <2>1. Owners[n] = NoOne /\ Owners' = [Owners EXCEPT ![n] = o]
    BY <1>3 DEF TypeOK, Owners, Name
  <2> QED
    BY <1>1, <2>1, PoolTake
<1>4. ASSUME NEW n, n \notin Lock, cm' = [cm EXCEPT ![n] = o] PROVE UNCHANGED Owners
  BY <1>4 DEF TypeOK, Owners, Name
<1>5. UNCHANGED cm => UNCHANGED Owners
  BY DEF Owners
<1> QED
  BY <1>2, <1>3, <1>4, <1>5 DEF Makes

\* The steps of a thread.
LEMMA WorkerShares ==
    ASSUME SharingInv, [Next]_vars, NEW o \in Orch, NEW p \in MyPods(o), Worker(o, p)
    PROVE  Pool!Next \/ UNCHANGED Pool!poolVars
<1>1. TypeOK /\ Threads
  BY DEF SharingInv, IInv, NetInv
<1>2. UNCHANGED <<pc, container>>
  <2>1. UNCHANGED container
    BY DEF Worker, StartWorker, ReservePort, GetPorts, CreatePodData, CreatePod, WatchPod, CopyBinaries,
       CheckPodPorts, podVars
  <2> QED
    BY <1>1, <2>1, PodStays
<1>3. UNCHANGED <<Phases, Uses>>
  BY <1>2, UsesKept DEF Phases, PhaseOf, Uses
<1>4. pc[o] # "crashed" /\ (worker[p] \notin Stopped \/ pc[o] = "pods" \/ UNCHANGED cm)
  BY <1>1 DEF Threads, Worker, StartWorker, ReservePort, GetPorts, CreatePodData, CreatePod, WatchPod,
     CopyBinaries, CheckPodPorts, Running, Stopped
<1>5. CASE UNCHANGED cm
  BY <1>3, <1>5, PoolStutter DEF Owners
<1>6. CASE ~UNCHANGED cm
  <2>1. Booked(o)
    BY <1>1, <1>4, <1>6 DEF Threads, Quiet, Booked
  <2> QED
    BY <1>1, <1>3, <2>1, WorkerMakes, MakesTakes
<1> QED
  BY <1>5, <1>6

\* The steps of a kubelet.
LEMMA KubeletShares ==
    ASSUME SharingInv, [Next]_vars, NEW o \in Orch, NEW p \in MyPods(o), Kubelet(o, p)
    PROVE  Pool!Next \/ UNCHANGED Pool!poolVars
<1>0. p \in Pod /\ TypeOK
  BY MyPodsType DEF SharingInv, IInv
<1>1. UNCHANGED <<cm, pc, reserved, ports>>
  BY DEF Kubelet, KubeletStart, KubeletReject, KubeletStop, workerVars
<1>2. UNCHANGED <<Owners, Phases>>
  BY <1>1 DEF Owners, Phases, PhaseOf
<1>3. CASE KubeletStart(o, p)
  <2>1. /\ object[p] = "pending" /\ ~container[p]
        /\ container' = [container EXCEPT ![p] = TRUE]
    BY <1>3 DEF SharingInv, Watched, KubeletStart
  <2>2. Given(p) \in SUBSET Lock
    BY <1>0 DEF TypeOK, Given, Lock
  <2>3. Uses[p] = {} /\ Uses' = [Uses EXCEPT ![p] = Given(p)]
    BY <1>0, <1>1, <2>1 DEF TypeOK, Uses, Using, Given
  <2>4. ASSUME NEW n \in Given(p) PROVE Owners[n] = JobOfPod[p]
    BY <2>1, <2>2, JobOfPodIs DEF SharingInv, UsedHeld, Owners
  <2>5. ASSUME NEW n \in Given(p), n \notin Space, NEW r \in Pod \ {p} PROVE n \notin Uses[r]
    <3>1. CASE container[r]
      <4>1. PICK q \in Orch : r \in MyPods(q)
        BY <3>1 DEF SharingInv, NoStrangers
      <4>2. CASE q = o
        BY <2>5, <3>1, <4>1, <4>2 DEF SharingInv, AlwaysApart, Uses, Using
      <4>3. CASE q # o
        <5>1. \A m \in Given(r) : cm[m] = q
          BY <3>1, <4>1 DEF SharingInv, Watched, UsedHeld
        <5>2. cm[n] = o
          BY <2>1 DEF SharingInv, UsedHeld
        <5> QED
          BY <4>3, <5>1, <5>2 DEF Uses, Using
      <4> QED
        BY <4>2, <4>3
    <3>2. CASE ~container[r]
      BY <3>2 DEF Uses, Using
    <3> QED
      BY <3>1, <3>2
  <2> QED
    BY <1>0, <1>2, <2>2, <2>3, <2>4, <2>5, PoolRun
<1>4. CASE KubeletReject(p)
  <2>1. UNCHANGED Uses
    BY <1>4, UsesKept DEF KubeletReject, Uses
  <2> QED
    BY <1>2, <2>1, PoolStutter
<1>5. CASE KubeletStop(p)
  <2>1. Uses' = [Uses EXCEPT ![p] = {}]
    BY <1>0, <1>1, <1>5 DEF TypeOK, KubeletStop, Uses, Using, Given
  <2> QED
    BY <1>0, <1>2, <2>1, PoolEnd
<1> QED
  BY <1>3, <1>4, <1>5 DEF Kubelet

\* The steps of the main thread.
LEMMA MainShares ==
    ASSUME SharingInv, [Next]_vars, NEW o \in Orch, MainThread(o)
    PROVE  Pool!Next \/ UNCHANGED Pool!poolVars
<1>0. TypeOK /\ Serving /\ CleanOwn
  BY DEF SharingInv, IInv
<1>1. Leads(o) /\ Paths(o) /\ Apart(o)
  BY <1>0, MainLeads, MainPaths, MainApart
<1>2. UNCHANGED Uses
  <2>1. UNCHANGED container
    BY MainPods DEF podVars
  <2> QED
    BY <2>1, UsesKept DEF Uses
<1>3. \A q \in Orch \ {o} : PhaseOf(q)' = PhaseOf(q)
  BY <1>1 DEF Apart, PhaseOf
<1>4. CASE Booked(o) /\ Booked(o)'
  <2>1. PhaseOf(o)' = PhaseOf(o)
    BY <1>4 DEF PhaseOf, Booked
  <2>2. UNCHANGED Phases
    BY <1>3, <2>1 DEF Phases
  <2>3. Makes(o)
    BY <1>4, MainMakes DEF DeleteConfigMap, Booked
  <2> QED
    BY <1>0, <1>2, <1>4, <2>2, <2>3, MakesTakes
<1>5. CASE pc[o] # "delcm" /\ pc'[o] = "delcm"
  <2>1. ListConfigMaps(o) /\ pc[o] = "delpods" /\ UNCHANGED cm
    BY <1>1, <1>5 DEF Paths, ListConfigMaps, DeleteConfigMap
  <2>2. PhaseOf(o) = "taking" /\ PhaseOf(o)' = "giving"
    BY <1>5, <2>1 DEF PhaseOf
  <2>3. Phases[o] = "taking" /\ Phases' = [Phases EXCEPT ![o] = "giving"]
    BY <1>3, <2>2 DEF Phases
  <2> QED
    BY <1>2, <2>1, <2>3, PoolStartGiving DEF Owners
<1>6. CASE pc[o] = "delcm" /\ pc'[o] = "delcm"
  <2>1. DeleteConfigMap(o)
    BY <1>1, <1>6 DEF Paths, ListConfigMaps
  <2>2. UNCHANGED Phases
    BY <1>3, <1>6 DEF Phases, PhaseOf
  <2>3. PICK n \in victims[o] : cm' = [cm EXCEPT ![n] = NoOne] \/ UNCHANGED cm
    BY <2>1 DEF DeleteConfigMap
  <2>4. n \in Name /\ cm[n] = o
    BY <1>0, <1>6 DEF CleanOwn
  <2>5. CASE n \in Lock /\ cm' = [cm EXCEPT ![n] = NoOne]
    <3>1. Owners[n] = o /\ Owners' = [Owners EXCEPT ![n] = NoOne]
      BY <1>0, <2>4, <2>5 DEF TypeOK, Owners, Name
    <3>2. Phases[o] = "giving"
      BY <1>6 DEF Phases, PhaseOf
    <3>3. ASSUME NEW p \in Pod, container[p] PROVE n \notin Given(p)
      <4>1. PICK q \in Orch : p \in MyPods(q)
        BY <3>3 DEF SharingInv, NoStrangers
      <4>2. object[p] # "none" /\ q # o
        BY <1>6, <3>3, <4>1 DEF SharingInv, Watched
      <4> QED
        BY <2>4, <4>1, <4>2 DEF SharingInv, UsedHeld
    <3>4. \A p \in Pod : n \notin Uses[p]
      BY <3>3 DEF Uses, Using
    <3> QED
      BY <1>2, <2>2, <2>5, <3>1, <3>2, <3>4, PoolGive
  <2>6. CASE n \notin Lock \/ UNCHANGED cm
    <3>1. UNCHANGED Owners
      BY <1>0, <2>3, <2>6 DEF TypeOK, Owners, Name
    <3> QED
      BY <1>2, <2>2, <3>1, PoolStutter
  <2> QED
    BY <2>3, <2>5, <2>6
<1>7. CASE pc'[o] = "done"
  <2>1. pc[o] \notin {"done", "crashed"}
    BY <1>1, <1>7 DEF Paths, CreateOrchId, CleanupDone
  <2>2. Phases[o] # "gone" /\ Phases' = [Phases EXCEPT ![o] = "gone"]
    BY <1>3, <1>7, <2>1 DEF Phases, PhaseOf
  <2>3. UNCHANGED Owners
    <3>1. CASE CreateOrchId(o)
      <4>1. ASSUME NEW n \in Lock PROVE n \in Name /\ n # OrchId(o)
        BY NameAssumption DEF Name
      <4>2. \A n \in Lock : cm'[n] = cm[n]
        BY <1>0, <1>7, <3>1, <4>1, CallOnly DEF CreateOrchId
      <4> QED
        BY <4>2 DEF Owners
    <3>2. CASE UNCHANGED cm
      BY <3>2 DEF Owners
    <3> QED
      BY <1>1, <1>7, <3>1, <3>2 DEF Paths, CleanupDone
  <2> QED
    BY <1>2, <2>2, <2>3, PoolGo
<1>8. Booked(o) \/ pc[o] = "delcm"
  BY DEF Booked, MainThread, CreateOrchId, ParseRequest, StartClusterPass, ReadAvailability, MatchCluster,
     LockResource, CreateResourceData, StartNodePass, MatchSpaces, LockSpace, CreateNodeData,
     EnsurePortService, AwaitPods, Shutdown, Finish, ListPods, DeletePod, ListConfigMaps,
     DeleteConfigMap, CleanupDone
<1>9. pc[o] = "delcm" => pc'[o] \in {"delcm", "done"}
  BY <1>1 DEF Leads, Paths
<1> QED
  BY <1>1, <1>4, <1>5, <1>6, <1>7, <1>8, <1>9 DEF Booked, Paths

\* Every step.
LEMMA StepShares ==
    ASSUME SharingInv, [Next]_vars
    PROVE  Pool!Next \/ UNCHANGED Pool!poolVars
<1>1. ASSUME NEW o \in Orch, Expire(o) PROVE UNCHANGED Pool!poolVars
  BY <1>1, PoolStutter DEF Expire, podVars, workerVars, Owners, Phases, PhaseOf, Uses, Using, Given
<1>2. ASSUME NEW o \in Orch, Crash(o) PROVE Pool!Next
  <2>1. UNCHANGED <<Owners, Uses>>
    BY <1>2 DEF Crash, podVars, workerVars, Owners, Uses, Using, Given
  <2>2. pc[o] \notin {"done", "crashed"} /\ pc' = [pc EXCEPT ![o] = "crashed"]
    BY <1>2 DEF Crash, Goto
  <2>3. Phases[o] # "gone" /\ Phases' = [Phases EXCEPT ![o] = "gone"]
    BY <2>2 DEF SharingInv, IInv, TypeOK, Phases, PhaseOf
  <2> QED
    BY <2>1, <2>3, PoolGo
<1>3. CASE UNCHANGED vars
  BY <1>3, PoolStutter DEF vars, podVars, workerVars, Owners, Phases, PhaseOf, Uses, Using, Given
<1> QED
  BY <1>1, <1>2, <1>3, MainShares, WorkerShares, KubeletShares DEF Next

\* create_infrastructure and delete_orchestration_network, with all their calls, threads,
\* retries, crashes and failures but forced deletions, share resources as the pool says.
THEOREM Sharing ==
    ASSUME "slow" \notin FaultKinds
    PROVE  Spec => SharesResources
<1>1. Init => Pool!Init
  BY DEF Init, Pool!Init, Given, Name
<1>2. SharingInv /\ [Next]_vars => [Pool!Next]_(Pool!poolVars)
  BY StepShares
<1> QED
  BY <1>1, <1>2, SharingInvariance, PTL DEF Spec, SharesResources, Pool!Spec
=============================================================================
