---------------------------- MODULE BookingProofs ----------------------------
(***************************************************************************)
(* Proofs about Booking, for any set of processes, users, resources and    *)
(* nodes: that a reservation stays until its user gives it up, and that a  *)
(* demolition which is alone with its users frees all of theirs.           *)
(*                                                                         *)
(* The two properties speak of what users have been told (claims) and of a *)
(* demolition that is done (quiet).  Neither is inductive.  A deletion     *)
(* that is on its way - a network among the doomed of a process, a         *)
(* ConfigMap that it has listed - removes things several steps after it    *)
(* was decided, so the invariant says of each process what it is about to  *)
(* delete and that none of it is claimed (LockKept, NodeKept). For that it *)
(* says whose each object is (Owned), whose each claimed network is        *)
(* (Claimed), that what is waited for is there (Awaited) and, of a         *)
(* demolition, that what it has not deleted yet is in its lists            *)
(* (Demolishes).                                                           *)
(***************************************************************************)
EXTENDS Booking, TLAPS

-----------------------------------------------------------------------------
(* What the jobs are.                                                      *)

\* The commands and the tests: each has a user; all but a demolition name what
\* they are about, and a test asks for locks.
JobsAreCommands ==
    \A j \in Jobs :
        /\ j.kind \in {"test", "reserve", "release", "demolish"}
        /\ j.user # Nobody
        /\ j.kind # "demolish" =>
              /\ Len(j.names) \in Nat \ {0}
              /\ DOMAIN j.names = 1 .. Len(j.names)
        /\ j.kind = "test" => \A i \in DOMAIN j.names : j.names[i] \notin Nodes

\* The jobs that create networks.
Creates(p) == job[p].kind \in {"test", "reserve"}

-----------------------------------------------------------------------------
(* The types.                                                              *)

\* The networks a process can create, and the nodes that pods can be on.
Networks == Process \X (Nat \ {0})
Places == Everything \cup {job[p].node : p \in {q \in Process : job[q].kind = "test"}}

\* The objects of the cluster, and what a user has been told.
ConfigMap == [kind : {"lock", "id", "data"}, name : Everything \cup {"id"},
              orch : Networks \cup {NoOrch}, user : Everyone]
Pod == [orch : Networks, user : Everyone, node : Places, dev : BOOLEAN,
        state : {"pending", "running", "terminating"}]
Claim == [user : Everyone, name : Everything, orch : Networks \cup {NoOrch}, safe : BOOLEAN]

\* Where a process can be.
Steps == {"reserve", "create", "id", "lock", "deploy", "await", "test", "down", "pods", "wait",
          "maps", "release", "demolish", "user", "userMaps"} \cup Over

\* Every variable has its type.
TypeOK ==
    /\ job \in [Process -> Jobs] /\ pc \in [Process -> Steps] /\ at \in [Process -> Nat \ {0}]
    /\ alive \in [Process -> SUBSET Networks] /\ doomed \in [Process -> SUBSET Networks]
    /\ current \in [Process -> Networks \cup {NoOrch}]
    /\ listed \in [Process -> SUBSET ConfigMap]
    /\ configMaps \subseteq ConfigMap /\ deployments \subseteq Pod /\ pods \subseteq Pod
    /\ claims \subseteq Claim /\ quiet \subseteq Process

-----------------------------------------------------------------------------
(* Where a process is in its job.                                          *)

\* The steps of each kind of job, and what they have at hand.
Place(p) ==
    /\ job[p].kind # "demolish" => at[p] <= Len(job[p].names)
    /\ pc[p] \in {"id", "lock", "deploy", "await"} =>
          Creates(p) /\ (job[p].kind = "reserve" <=> Item(p) \in Nodes)
    /\ pc[p] \in {"reserve", "create"} => job[p].kind = "reserve"
    /\ pc[p] \in {"create", "lock"} => Item(p) \notin Nodes
    /\ pc[p] = "test" => job[p].kind = "test"
    /\ pc[p] = "release" => job[p].kind = "release"
    /\ pc[p] \in {"demolish", "user", "userMaps"} => job[p].kind = "demolish"
    /\ alive[p] # {} => Creates(p)
    /\ \A orch \in alive[p] : orch[1] = p
    /\ pc[p] \in {"pods", "wait", "maps"} => current[p] \in doomed[p]

\* So it is for every process.
Placed == \A p \in Process : Place(p)

-----------------------------------------------------------------------------
(* Whose the things in the cluster are.                                    *)

\* What a network was created for.
NameOf(orch) == job[orch[1]].names[orch[2]]

\* A pod or a deployment is of the user of its network, and a deployment fills the
\* node that retina reserve was asked for.
OwnPod(d) ==
    /\ Creates(d.orch[1]) /\ d.user = User(d.orch[1])
    /\ d.dev <=> NameOf(d.orch) \in Nodes
    /\ d.dev => d.node = NameOf(d.orch)

\* A ConfigMap is of the user of its network, and a name has one lock.
OwnMap(c) == c.orch # NoOrch => Creates(c.orch[1]) /\ c.user = User(c.orch[1])

\* So it is for all there is in the cluster.
Owned ==
    /\ \A d \in pods \cup deployments : OwnPod(d)
    /\ \A d \in deployments : d.dev
    /\ \A c \in configMaps : OwnMap(c)
    /\ \A c, d \in configMaps : c.kind = "lock" /\ d.kind = "lock" /\ c.name = d.name => c = d

\* A claim to a node is of the network that was made for it, which is done.
OwnClaim(c) ==
    c.name \in Nodes =>
        /\ c.orch \in Networks /\ job[c.orch[1]].kind = "reserve"
        /\ c.name = NameOf(c.orch) /\ c.user = User(c.orch[1])
        /\ c.orch[2] <= at[c.orch[1]]
        /\ c.orch[2] = at[c.orch[1]] => pc[c.orch[1]] \in Over

\* So it is for all that users have been told.
Claimed == \A c \in claims : OwnClaim(c)

-----------------------------------------------------------------------------
(* What was created is kept.                                               *)

\* A network still has a deployment.
HasDeployment(orch) == \E d \in deployments : d.orch = orch

\* The deployment a process waits for is there, or it has been deleted by one
\* that is about to end its pods, or they are ending.
Awaited ==
    \A p \in Process : pc[p] = "await" /\ Item(p) \in Nodes =>
        \/ HasDeployment(Network(p))
        \/ \A d \in PodsOf(Network(p)) : d.state = "terminating"
        \/ \E q \in Process : pc[q] \in {"pods", "dead"} /\ current[q] = Network(p)
                              /\ Network(p) \in doomed[q]

\* A lock that was created for a user: no deletion that is on its way has its name.
LockKept ==
    \A c \in claims : c.safe /\ c.name \notin Nodes /\ c.orch = NoOrch =>
        /\ Held(c)
        /\ \A q \in Process : \A d \in listed[q] : d.kind = "lock" => d.name # c.name

\* A node that was filled for a user, as long as its process keeps the network: no
\* deletion that is on its way is of the network.
NodeKept ==
    \A c \in claims : c.safe /\ c.name \in Nodes /\ c.orch \in alive[c.orch[1]] \ doomed[c.orch[1]] =>
        /\ HasDeployment(c.orch)
        /\ \A q \in Process : c.orch \notin doomed[q]

-----------------------------------------------------------------------------
(* A quiet demolition.                                                     *)

\* While it deletes the networks of its users, all of theirs are among those it has
\* to delete; afterwards nothing of its users is left but what it has listed.
DeletesAll(p) ==
    /\ job[p].kind = "demolish"
    /\ \A q \in Process \ {p} : Matches(p, User(q)) => pc[q] \in Over
    /\ pc[p] \in {"down", "pods", "wait", "maps", "user", "userMaps", "ok"}
    /\ \A orch \in doomed[p] : Matches(p, User(orch[1]))
    /\ pc[p] \in {"down", "pods", "wait", "maps"} =>
          \A d \in deployments \cup pods : Matches(p, d.user) => d.orch \in doomed[p]
    /\ pc[p] \in {"pods", "wait", "maps"} => ~ HasDeployment(current[p])
    /\ pc[p] = "wait" => \A d \in PodsOf(current[p]) : d.state = "terminating"
    /\ pc[p] = "maps" => PodsOf(current[p]) = {}
    /\ pc[p] \in {"user", "userMaps", "ok"} => \A d \in deployments \cup pods : ~ Matches(p, d.user)
    /\ pc[p] = "userMaps" => \A c \in configMaps : SaysUser(c) /\ Matches(p, c.user) => c \in listed[p]
    /\ pc[p] = "ok" => \A c \in configMaps : SaysUser(c) => ~ Matches(p, c.user)

\* So it is for every demolition that was alone with its users.
Demolishes == \A p \in quiet : DeletesAll(p)

\* The inductive invariant.
IInv == TypeOK /\ Placed /\ Owned /\ Claimed /\ Awaited /\ LockKept /\ NodeKept /\ Demolishes

-----------------------------------------------------------------------------
(* What a step leaves alone.                                               *)

\* The lock of no network is no network's.
LEMMA NoNetwork == NoOrch \notin Networks
  BY DEF NoOrch, Networks

\* The place in a process and the process tell a network.
LEMMA NetworkIs ==
    ASSUME TypeOK, NEW p \in Process
    PROVE  Network(p) \in Networks /\ Network(p)[1] = p /\ Network(p)[2] = at[p]
  BY DEF TypeOK, Network, Networks

\* What the jobs say does not change.
LEMMA SameJobs ==
    ASSUME job' = job
    PROVE  /\ Everyone' = Everyone /\ Everything' = Everything
           /\ ConfigMap' = ConfigMap /\ Pod' = Pod /\ Claim' = Claim
<1>1. Everyone' = Everyone
  BY DEF Everyone
<1>2. Everything' = Everything
  BY DEF Everything
<1>3. Places' = Places
  BY <1>2 DEF Places
<1> QED
  BY <1>1, <1>2, <1>3 DEF ConfigMap, Pod, Claim

\* What a job names: a test names locks.
LEMMA Items ==
    ASSUME JobsAreCommands, TypeOK, Placed, NEW p \in Process
    PROVE  /\ job[p].kind \in {"test", "reserve", "release", "demolish"}
           /\ User(p) \in Everyone /\ User(p) # Nobody
           /\ job[p].kind # "demolish" => Item(p) \in Everything /\ Len(job[p].names) \in Nat
           /\ Creates(p) /\ Item(p) \in Nodes => job[p].kind = "reserve"
<1>1. job[p] \in Jobs
  BY DEF TypeOK
<1>2. job[p].kind \in {"test", "reserve", "release", "demolish"} /\ User(p) # Nobody
  BY <1>1 DEF JobsAreCommands, User
<1>3. User(p) \in Everyone
  BY DEF User, Everyone
<1>4. ASSUME job[p].kind # "demolish"
      PROVE  at[p] \in DOMAIN job[p].names /\ Len(job[p].names) \in Nat
  BY <1>1, <1>4 DEF JobsAreCommands, TypeOK, Placed, Place
<1>5. ASSUME job[p].kind # "demolish" PROVE Item(p) \in Everything
  BY <1>4, <1>5 DEF Item, Everything
<1>6. ASSUME Creates(p), Item(p) \in Nodes PROVE job[p].kind = "reserve"
  BY <1>1, <1>4, <1>6 DEF JobsAreCommands, Creates, Item
<1> QED
  BY <1>2, <1>3, <1>4, <1>5, <1>6

\* What follows the last network of a deletion.
LEMMA AfterDeletion ==
    ASSUME JobsAreCommands, TypeOK, NEW p \in Process, NetworksDeleted(p)
    PROVE  \/ job[p].kind = "demolish" /\ Go(p, "user") /\ UNCHANGED at
           \/ job[p].kind = "release" /\ NextName(p)
           \/ job[p].kind = "reserve" /\ Go(p, "failed") /\ UNCHANGED at
           \/ job[p].kind = "test" /\ Go(p, "ok") /\ UNCHANGED at
<1>1. job[p].kind \in {"test", "reserve", "release", "demolish"}
  BY DEF JobsAreCommands, TypeOK
<1>2. CASE job[p].kind = "demolish"
  BY <1>2 DEF NetworksDeleted
<1>3. CASE job[p].kind = "release"
  BY <1>3 DEF NetworksDeleted
<1>4. CASE job[p].kind = "reserve"
  BY <1>4 DEF NetworksDeleted
<1>5. CASE job[p].kind = "test"
  BY <1>5 DEF NetworksDeleted
<1> QED
  BY <1>1, <1>2, <1>3, <1>4, <1>5

\* A step of a process changes that process only, which is not over.
Apart(p) ==
    /\ job' = job /\ pc[p] \notin Over
    /\ \A q \in Process \ {p} :
          /\ pc'[q] = pc[q] /\ at'[q] = at[q] /\ alive'[q] = alive[q]
          /\ doomed'[q] = doomed[q] /\ current'[q] = current[q] /\ listed'[q] = listed[q]

\* A step changes where its own process is, and leaves the other processes where they are.
LEMMA StepApart ==
    ASSUME JobsAreCommands, TypeOK, NEW p \in Process, Step(p) PROVE Apart(p)
<1> USE DEF TypeOK, Stays, Apart, Go, Over
<1>1. CASE ReserveLock(p)
  BY <1>1 DEF ReserveLock, Reserved, NextName, cluster
<1>2. CASE CreateLock(p)
  BY <1>2 DEF CreateLock, Reserved, NextName
<1>3. CASE ReserveNode(p)
  BY <1>3 DEF ReserveNode
<1>4. CASE CreateId(p)
  BY <1>4 DEF CreateId
<1>5. CASE TakeLock(p)
  BY <1>5 DEF TakeLock
<1>6. CASE Deploy(p)
  BY <1>6 DEF Deploy
<1>7. CASE Await(p)
  BY <1>7 DEF Await, Reserved, NextName
<1>8. CASE CreationFails(p)
  BY <1>8 DEF CreationFails, DeleteNetworks
<1>9. CASE TestEnds(p)
  BY <1>9 DEF TestEnds, DeleteNetworks
<1>10. CASE DeleteDeployments(p)
  BY <1>10 DEF DeleteDeployments
<1>11. CASE DeletePods(p)
  BY <1>11 DEF DeletePods
<1>12. CASE ListConfigMaps(p)
  BY <1>12 DEF ListConfigMaps
<1>13. CASE DeleteConfigMap(p)
  BY <1>13 DEF DeleteConfigMap
<1>14. CASE NextNetwork(p)
  BY <1>14 DEF NextNetwork
<1>15. CASE NetworksDeleted(p)
  <2>1. \/ UNCHANGED at /\ \E step : Go(p, step)
        \/ NextName(p)
    BY <1>15, AfterDeletion, Zenon
  <2>2. /\ pc[p] = "down" /\ UNCHANGED <<job, alive, doomed, listed, current>>
        /\ \E step : Go(p, step)
        /\ UNCHANGED at \/ at' = [at EXCEPT ![p] = @ + 1]
    BY <1>15, <2>1 DEF NetworksDeleted, NextName
  <2> QED
    BY <2>2
<1>16. CASE ReleaseLock(p)
  BY <1>16 DEF ReleaseLock, NextName
<1>17. CASE ReleaseNode(p)
  BY <1>17 DEF ReleaseNode, NextName
<1>18. CASE ListNetworks(p)
  BY <1>18 DEF ListNetworks
<1>19. CASE ListByUser(p)
  BY <1>19 DEF ListByUser
<1>20. CASE Demolished(p)
  BY <1>20 DEF Demolished
<1> QED
  BY <1>1, <1>2, <1>3, <1>4, <1>5, <1>6, <1>7, <1>8, <1>9, <1>10, <1>11, <1>12, <1>13,
     <1>14, <1>15, <1>16, <1>17, <1>18, <1>19, <1>20, Zenon DEF Step

-----------------------------------------------------------------------------
(* Type correctness.                                                       *)

\* The next name of a command, or its end.
LEMMA NextNameIs ==
    ASSUME JobsAreCommands, TypeOK, Placed, NEW p \in Process,
           job[p].kind \in {"reserve", "release"}, NextName(p)
    PROVE  /\ \/ at' = at /\ pc' = [pc EXCEPT ![p] = "ok"]
              \/ at' = [at EXCEPT ![p] = @ + 1] /\ pc' = [pc EXCEPT ![p] = job[p].kind]
                 /\ at[p] + 1 <= Len(job[p].names)
           /\ pc' \in [Process -> Steps] /\ at' \in [Process -> Nat \ {0}]
<1>1. at[p] \in Nat /\ at[p] <= Len(job[p].names) /\ Len(job[p].names) \in Nat
  BY Items DEF TypeOK, Placed, Place
<1>2. CASE at[p] = Len(job[p].names)
  <2>1. at' = at /\ pc' = [pc EXCEPT ![p] = "ok"]
    BY <1>2 DEF NextName, Go
  <2> QED
    BY <2>1 DEF TypeOK, Steps, Over
<1>3. CASE at[p] # Len(job[p].names)
  <2>1. at' = [at EXCEPT ![p] = @ + 1] /\ pc' = [pc EXCEPT ![p] = job[p].kind]
    BY <1>3 DEF NextName, Go
  <2>2. at[p] + 1 <= Len(job[p].names)
    BY <1>1, <1>3
  <2>3. pc' \in [Process -> Steps]
    BY <2>1 DEF TypeOK, Steps
  <2>4. at' \in [Process -> Nat \ {0}]
    BY <2>1 DEF TypeOK
  <2> QED
    BY <2>1, <2>2, <2>3, <2>4
<1> QED
  BY <1>2, <1>3

\* What a user is told.
NewClaim(p, orch) ==
    [user |-> User(p), name |-> Item(p), orch |-> orch, safe |-> ~ Threatened(Item(p), orch)]

\* What Reserved does: the user has one claim more, and the process goes to its next name.
LEMMA ReservedIs ==
    ASSUME JobsAreCommands, TypeOK, Placed, NEW p \in Process, job[p].kind = "reserve",
           NEW orch \in Networks \cup {NoOrch}, Reserved(p, orch)
    PROVE  /\ claims' = claims \cup {NewClaim(p, orch)} /\ claims' \subseteq Claim
           /\ NextName(p)
           /\ pc' \in [Process -> Steps] /\ at' \in [Process -> Nat \ {0}]
<1>1. claims' = claims \cup {NewClaim(p, orch)} /\ NextName(p)
  BY DEF Reserved, NewClaim
<1>2. User(p) \in Everyone /\ Item(p) \in Everything
  BY Items
<1>3. Threatened(Item(p), orch) \in BOOLEAN
  BY DEF Threatened
<1>4. NewClaim(p, orch) \in Claim
  BY <1>2, <1>3 DEF NewClaim, Claim
<1> QED
  BY <1>1, <1>4, NextNameIs DEF TypeOK

\* A ConfigMap is created or is there.
LEMMA CreatedIs ==
    ASSUME NEW c
    PROVE  /\ configMaps \subseteq Created(c) /\ Created(c) \subseteq configMaps \cup {c}
           /\ Exists(c) \/ c \in Created(c)
  BY DEF Created

\* The lock that a claim takes from is a ConfigMap, with the user and the network it names.
LEMMA LockIs ==
    ASSUME JobsAreCommands, TypeOK, Placed, NEW p \in Process,
           NEW lock \in LocksOf(Item(p)), lock = CHOOSE c \in LocksOf(Item(p)) : TRUE
    PROVE  OwnerOf(Item(p)) = lock.user /\ lock.orch \in Networks \cup {NoOrch}
<1>1. lock \in ConfigMap
  BY DEF LocksOf, TypeOK
<1> QED
  BY <1>1 DEF OwnerOf, ConfigMap
\* The three answers to a user who asks for a lock.
LEMMA ReserveLockIs ==
    ASSUME JobsAreCommands, TypeOK, Placed, NEW p \in Process, ReserveLock(p)
    PROVE  \/ Go(p, "create") /\ UNCHANGED <<at, claims>>
           \/ /\ job[p].kind = "reserve"
              /\ \E lock \in LocksOf(Item(p)) :
                    /\ lock.user = User(p) /\ lock.orch \in Networks \cup {NoOrch}
                    /\ Reserved(p, lock.orch)
           \/ Go(p, "failed") /\ UNCHANGED <<at, claims>>
<1>1. CASE OwnerOf(Item(p)) = Nobody
  BY <1>1, Items DEF ReserveLock
<1>2. CASE OwnerOf(Item(p)) # Nobody /\ OwnerOf(Item(p)) = User(p)
  <2> DEFINE lock == CHOOSE c \in LocksOf(Item(p)) : TRUE
  <2>1. lock \in LocksOf(Item(p))
    BY <1>2 DEF OwnerOf
  <2>2. lock.user = User(p) /\ lock.orch \in Networks \cup {NoOrch}
    BY <1>2, <2>1, LockIs
  <2>3. job[p].kind = "reserve"
    BY DEF ReserveLock, Placed, Place
  <2>4. Reserved(p, lock.orch)
    BY <1>2 DEF ReserveLock
  <2> HIDE DEF lock
  <2> QED
    BY <2>1, <2>2, <2>3, <2>4
<1>3. CASE OwnerOf(Item(p)) # Nobody /\ OwnerOf(Item(p)) # User(p)
  BY <1>3 DEF ReserveLock
<1> QED
  BY <1>1, <1>2, <1>3

\* Every step keeps the types.
LEMMA TypeStep ==
    ASSUME JobsAreCommands, TypeOK, Placed, NEW p \in Process, Step(p) PROVE TypeOK'
<1> DEFINE Rest == /\ UNCHANGED <<job, quiet, crashes>>
                   /\ alive' \in [Process -> SUBSET Networks] /\ doomed' \in [Process -> SUBSET Networks]
                   /\ current' \in [Process -> Networks \cup {NoOrch}]
                   /\ listed' \in [Process -> SUBSET ConfigMap]
                   /\ configMaps' \subseteq ConfigMap /\ deployments' \subseteq Pod /\ pods' \subseteq Pod
           Point == pc' \in [Process -> Steps] /\ at' \in [Process -> Nat \ {0}]
<1>1. job' = job /\ Apart(p)
  BY StepApart DEF Apart
<1>2. ConfigMap' = ConfigMap /\ Pod' = Pod /\ Claim' = Claim
  BY <1>1, SameJobs
<1>3. ASSUME Rest, Point, claims' \subseteq Claim PROVE TypeOK'
  BY <1>2, <1>3 DEF TypeOK
<1>4. ASSUME NEW step \in Steps, Go(p, step) PROVE pc' \in [Process -> Steps]
  BY <1>4 DEF TypeOK, Go
<1>5. User(p) \in Everyone /\ (job[p].kind # "demolish" => Item(p) \in Everything)
  BY Items
<1>6. CASE ReserveLock(p)
  <2>1. job[p].kind = "reserve"
    BY <1>6 DEF ReserveLock, Placed, Place
  <2>2. Rest
    BY <1>6 DEF ReserveLock, TypeOK, Stays, cluster
  <2>3. ASSUME NEW step \in {"create", "failed"}, Go(p, step), UNCHANGED <<at, claims>> PROVE TypeOK'
    BY <1>3, <1>4, <2>2, <2>3 DEF TypeOK, Steps, Over
  <2>4. ASSUME NEW lock \in LocksOf(Item(p)), lock.orch \in Networks \cup {NoOrch}, Reserved(p, lock.orch)
        PROVE  TypeOK'
    BY <1>3, <2>1, <2>2, <2>4, ReservedIs
  <2> QED
    BY <1>6, <2>3, <2>4, ReserveLockIs
<1>7. CASE CreateLock(p)
  <2> DEFINE lock == Lock(Item(p), NoOrch, User(p))
  <2>1. Creates(p) /\ job[p].kind = "reserve"
    BY <1>7 DEF CreateLock, Placed, Place, Creates
  <2>2. lock \in ConfigMap
    BY <1>5, <2>1 DEF Lock, ConfigMap
  <2>3. configMaps' \subseteq ConfigMap
    BY <1>7, <2>2, CreatedIs DEF CreateLock, TypeOK
  <2>4. Rest
    BY <1>7, <2>3 DEF CreateLock, TypeOK, Stays
  <2>5. CASE Exists(lock)
    <3>1. Go(p, "failed") /\ UNCHANGED <<at, claims>>
      BY <1>7, <2>5 DEF CreateLock
    <3> QED
      BY <1>3, <1>4, <2>4, <3>1 DEF TypeOK, Steps, Over
  <2>6. CASE ~ Exists(lock)
    <3>1. Reserved(p, NoOrch)
      BY <1>7, <2>6 DEF CreateLock
    <3> QED
      BY <1>3, <2>1, <2>4, <3>1, ReservedIs
  <2> QED
    BY <2>5, <2>6
<1>8. CASE ReserveNode(p)
  <2>1. PICK step \in {"failed", "id"} : Go(p, step)
    BY <1>8 DEF ReserveNode
  <2>2. step \in Steps
    BY DEF Steps, Over
  <2> QED
    BY <1>3, <1>4, <1>8, <2>1, <2>2 DEF ReserveNode, TypeOK, Stays, cluster
<1>9. CASE CreateId(p)
  <2>1. IdMap(Network(p), User(p)) \in ConfigMap
    BY <1>5, NetworkIs DEF IdMap, ConfigMap
  <2>2. configMaps' \subseteq ConfigMap
    BY <1>9, <2>1, CreatedIs DEF CreateId, TypeOK
  <2>3. alive' \in [Process -> SUBSET Networks]
    BY <1>9, NetworkIs DEF CreateId, TypeOK
  <2>4. PICK step \in {"deploy", "lock"} : Go(p, step)
    BY <1>9 DEF CreateId
  <2>5. step \in Steps
    BY DEF Steps
  <2>6. UNCHANGED <<job, quiet, crashes, at, doomed, listed, deployments, pods, claims, current>>
    BY <1>9 DEF CreateId, Stays
  <2> QED
    BY <1>3, <1>4, <2>2, <2>3, <2>4, <2>5, <2>6 DEF TypeOK
<1>10. CASE TakeLock(p)
  <2> DEFINE lock == Lock(Item(p), Network(p), User(p))
             data == DataMap(Item(p), Network(p), User(p))
  <2>1. Item(p) \in Everything
    BY <1>5, <1>10 DEF TakeLock, Placed, Place, Creates
  <2>2. lock \in ConfigMap /\ data \in ConfigMap
    BY <1>5, <2>1, NetworkIs DEF Lock, DataMap, ConfigMap
  <2>3. configMaps' \subseteq ConfigMap
    BY <1>10, <2>2, CreatedIs DEF TakeLock, TypeOK
  <2>4. "deploy" \in Steps /\ Go(p, "deploy")
    BY <1>10 DEF TakeLock, Steps
  <2> QED
    BY <1>3, <1>4, <1>10, <2>3, <2>4 DEF TakeLock, TypeOK, Stays
<1>11. CASE Deploy(p)
  <2>1. Creates(p) /\ (job[p].kind = "reserve" <=> Item(p) \in Nodes)
    BY <1>11 DEF Deploy, Placed, Place
  <2>2. Item(p) \in Everything /\ (Item(p) \notin Nodes => job[p].kind = "test")
    BY <1>5, <2>1 DEF Creates
  <2>3. (IF Item(p) \in Nodes THEN Item(p) ELSE job[p].node) \in Places
    <3>1. CASE Item(p) \in Nodes
      BY <2>2, <3>1 DEF Places
    <3>2. CASE Item(p) \notin Nodes
      BY <2>2, <3>2 DEF Places
    <3> QED
      BY <3>1, <3>2
  <2>4. NewPod(p) \in Pod
    BY <1>5, <2>3, NetworkIs DEF NewPod, Pod
  <2>5. deployments' \subseteq Pod /\ pods' \subseteq Pod
    BY <1>11, <2>4 DEF Deploy, TypeOK
  <2>6. "await" \in Steps /\ Go(p, "await")
    BY <1>11 DEF Deploy, Steps
  <2>7. UNCHANGED <<job, quiet, crashes, at, alive, doomed, listed, configMaps, claims, current>>
    BY <1>11 DEF Deploy, Stays
  <2> QED
    BY <1>3, <1>4, <2>5, <2>6, <2>7 DEF TypeOK
<1>12. CASE Await(p)
  <2>1. Creates(p)
    BY <1>12 DEF Await, Placed, Place
  <2>2. Rest
    BY <1>12 DEF Await, TypeOK, Stays, cluster
  <2>3. CASE Item(p) \in Nodes
    BY <1>3, <1>12, <2>1, <2>2, <2>3, Items, NetworkIs, ReservedIs DEF Await
  <2>4. CASE Item(p) \notin Nodes
    <3>1. Go(p, "test") /\ UNCHANGED <<at, claims>> /\ "test" \in Steps
      BY <1>12, <2>4 DEF Await, Steps
    <3> QED
      BY <1>3, <1>4, <2>2, <3>1 DEF TypeOK
  <2> QED
    BY <2>3, <2>4
<1>13. CASE CreationFails(p) \/ TestEnds(p)
  <2>1. "down" \in Steps /\ Go(p, "down") /\ doomed' = [doomed EXCEPT ![p] = alive[p]]
    BY <1>13 DEF CreationFails, TestEnds, DeleteNetworks, Steps
  <2>2. doomed' \in [Process -> SUBSET Networks]
    BY <2>1 DEF TypeOK
  <2>3. UNCHANGED <<job, quiet, crashes, at, alive, listed, cluster, claims, current>>
    BY <1>13 DEF CreationFails, TestEnds, Stays
  <2> QED
    BY <1>3, <1>4, <2>1, <2>2, <2>3 DEF TypeOK, cluster
<1>14. CASE DeleteDeployments(p)
  <2>1. "pods" \in Steps /\ Go(p, "pods")
    BY <1>14 DEF DeleteDeployments, Steps
  <2>2. deployments' \subseteq Pod /\ current' \in [Process -> Networks \cup {NoOrch}]
    BY <1>14 DEF DeleteDeployments, TypeOK
  <2> QED
    BY <1>3, <1>4, <1>14, <2>1, <2>2 DEF DeleteDeployments, TypeOK, Stays
<1>15. CASE DeletePods(p)
  <2>1. "wait" \in Steps /\ Go(p, "wait")
    BY <1>15 DEF DeletePods, Steps
  <2>2. \A d \in Pod : Terminating(d) \in Pod
    BY DEF Terminating, Pod
  <2>3. pods' \subseteq Pod
    BY <1>15, <2>2 DEF DeletePods, TypeOK
  <2> QED
    BY <1>3, <1>4, <1>15, <2>1, <2>3 DEF DeletePods, TypeOK, Stays
<1>16. CASE ListConfigMaps(p)
  <2>1. "maps" \in Steps /\ Go(p, "maps")
    BY <1>16 DEF ListConfigMaps, Steps
  <2>2. listed' \in [Process -> SUBSET ConfigMap]
    BY <1>16 DEF ListConfigMaps, TypeOK
  <2> QED
    BY <1>3, <1>4, <1>16, <2>1, <2>2 DEF ListConfigMaps, TypeOK, Stays, cluster
<1>17. CASE DeleteConfigMap(p)
  <2>1. configMaps' \subseteq configMaps /\ listed' \in [Process -> SUBSET ConfigMap]
    BY <1>17 DEF DeleteConfigMap, Deleted, TypeOK
  <2>2. UNCHANGED <<job, quiet, crashes, pc, at, alive, doomed, deployments, pods, claims, current>>
    BY <1>17 DEF DeleteConfigMap, Stays
  <2> QED
    BY <1>3, <2>1, <2>2 DEF TypeOK
<1>18. CASE NextNetwork(p)
  <2>1. "down" \in Steps /\ Go(p, "down")
    BY <1>18 DEF NextNetwork, Steps
  <2>2. doomed' \in [Process -> SUBSET Networks] /\ alive' \in [Process -> SUBSET Networks]
    BY <1>18 DEF NextNetwork, TypeOK
  <2>3. current' \in [Process -> Networks \cup {NoOrch}]
    BY <1>18 DEF NextNetwork, TypeOK
  <2> QED
    BY <1>3, <1>4, <1>18, <2>1, <2>2, <2>3 DEF NextNetwork, TypeOK, Stays, cluster
<1>19. CASE NetworksDeleted(p)
  <2>1. Rest /\ UNCHANGED claims
    BY <1>19 DEF NetworksDeleted, TypeOK, Stays, cluster
  <2>2. CASE job[p].kind = "release" /\ NextName(p)
    BY <1>3, <2>1, <2>2, NextNameIs DEF TypeOK
  <2>3. CASE UNCHANGED at /\ \E step \in {"user", "failed", "ok"} : Go(p, step)
    <3>1. PICK step \in {"user", "failed", "ok"} : Go(p, step)
      BY <2>3
    <3>2. step \in Steps
      BY DEF Steps, Over
    <3> QED
      BY <1>3, <1>4, <2>1, <2>3, <3>1, <3>2 DEF TypeOK
  <2> QED
    BY <1>19, <2>2, <2>3, AfterDeletion
<1>20. CASE ReleaseLock(p)
  <2>1. job[p].kind = "release" /\ NextName(p)
    BY <1>20 DEF ReleaseLock, Placed, Place
  <2>2. configMaps' \subseteq ConfigMap /\ claims' \subseteq Claim
    BY <1>20 DEF ReleaseLock, Without, TypeOK
  <2> QED
    BY <1>3, <1>20, <2>1, <2>2, NextNameIs DEF ReleaseLock, TypeOK, Stays
<1>21. CASE ReleaseNode(p)
  <2>1. job[p].kind = "release"
    BY <1>21 DEF ReleaseNode, Placed, Place
  <2>2. claims' \subseteq Claim
    BY <1>21 DEF ReleaseNode, Without, TypeOK
  <2>3. UNCHANGED <<job, quiet, crashes, alive, listed, configMaps, deployments, pods, current>>
    BY <1>21 DEF ReleaseNode, Stays, cluster
  <2>4. CASE HoldersOf(Item(p)) = {}
    <3>1. NextName(p) /\ UNCHANGED doomed
      BY <1>21, <2>4 DEF ReleaseNode
    <3> QED
      BY <1>3, <2>1, <2>2, <2>3, <3>1, NextNameIs DEF TypeOK
  <2>5. CASE HoldersOf(Item(p)) # {}
    <3>1. PICK d \in HoldersOf(Item(p)) : doomed' = [doomed EXCEPT ![p] = {d.orch}]
      BY <1>21, <2>5 DEF ReleaseNode
    <3>2. d \in Pod
      BY DEF HoldersOf, TypeOK
    <3>3. doomed' \in [Process -> SUBSET Networks]
      BY <3>1, <3>2 DEF Pod, TypeOK
    <3>4. Go(p, "down") /\ UNCHANGED at /\ "down" \in Steps
      BY <1>21, <2>5 DEF ReleaseNode, Steps
    <3> QED
      BY <1>3, <1>4, <2>2, <2>3, <3>3, <3>4 DEF TypeOK
  <2> QED
    BY <2>4, <2>5
<1>22. CASE ListNetworks(p)
  <2>1. claims' \subseteq Claim /\ quiet' \subseteq Process
    BY <1>22 DEF ListNetworks, Without, TypeOK
  <2>2. \A c \in configMaps : c.orch # NoOrch => c.orch \in Networks
    BY DEF TypeOK, ConfigMap
  <2>3. \A d \in pods : d.orch \in Networks
    BY DEF TypeOK, Pod
  <2>4. doomed' \in [Process -> SUBSET Networks]
    BY <1>22, <2>2, <2>3 DEF ListNetworks, TypeOK
  <2>5. "down" \in Steps /\ Go(p, "down")
    BY <1>22 DEF ListNetworks, Steps
  <2>6. UNCHANGED <<job, crashes, at, alive, current, listed, configMaps, deployments, pods>>
    BY <1>22 DEF ListNetworks, cluster
  <2> QED
    BY <1>2, <1>4, <2>1, <2>4, <2>5, <2>6 DEF TypeOK
<1>23. CASE ListByUser(p)
  <2>1. "userMaps" \in Steps /\ Go(p, "userMaps")
    BY <1>23 DEF ListByUser, Steps
  <2>2. listed' \in [Process -> SUBSET ConfigMap] /\ claims' \subseteq Claim
    BY <1>23 DEF ListByUser, Without, TypeOK
  <2> QED
    BY <1>3, <1>4, <1>23, <2>1, <2>2 DEF ListByUser, TypeOK, Stays, cluster
<1>24. CASE Demolished(p)
  <2>1. "ok" \in Steps /\ Go(p, "ok")
    BY <1>24 DEF Demolished, Steps, Over
  <2> QED
    BY <1>3, <1>4, <1>24, <2>1 DEF Demolished, TypeOK, Stays, cluster
<1> HIDE DEF Rest, Point
<1> QED
  BY <1>6, <1>7, <1>8, <1>9, <1>10, <1>11, <1>12, <1>13, <1>14, <1>15, <1>16, <1>17,
     <1>18, <1>19, <1>20, <1>21, <1>22, <1>23, <1>24, Zenon DEF Step
-----------------------------------------------------------------------------
(* Where a process is in its job.                                          *)

\* Every step leaves a process at a place of its job.
LEMMA PlacedStep ==
    ASSUME JobsAreCommands, TypeOK, Placed, NEW p \in Process, Step(p) PROVE Placed'
<1>1. Apart(p)
  BY StepApart
<1>2. job' = job
  BY <1>1 DEF Apart
<1>3. ASSUME NEW q \in Process \ {p} PROVE Place(q)'
  <2>1. Place(q) /\ pc'[q] = pc[q] /\ at'[q] = at[q] /\ alive'[q] = alive[q]
        /\ doomed'[q] = doomed[q] /\ current'[q] = current[q]
    BY <1>1 DEF Apart, Placed
  <2> QED
    BY <1>2, <2>1 DEF Place, Creates, Item
<1>4. Place(p) /\ job[p].kind \in {"test", "reserve", "release", "demolish"}
  BY Items DEF Placed
<1> DEFINE Lists == UNCHANGED <<alive, doomed, current>>
<1>5. ASSUME UNCHANGED at, Lists, NEW step, Go(p, step),
             step \in {"ok", "failed", "dead", "down"} \/ (step = "test" /\ job[p].kind = "test")
      PROVE  Place(p)'
  <2>1. pc'[p] = step
    BY <1>5 DEF Go, TypeOK
  <2> QED
    BY <1>2, <1>4, <1>5, <2>1 DEF Place, Creates, Item
<1>6. ASSUME Lists, NextName(p), job[p].kind \in {"reserve", "release"} PROVE Place(p)'
  <2>1. CASE at' = at /\ pc' = [pc EXCEPT ![p] = "ok"]
    BY <1>5, <1>6, <2>1 DEF Go
  <2>2. CASE /\ at' = [at EXCEPT ![p] = @ + 1] /\ pc' = [pc EXCEPT ![p] = job[p].kind]
             /\ at[p] + 1 <= Len(job[p].names)
    <3>1. at'[p] <= Len(job[p].names) /\ pc'[p] = job[p].kind
      BY <2>2 DEF TypeOK
    <3> QED
      BY <1>2, <1>4, <1>6, <3>1 DEF Place, Creates
  <2> QED
    BY <1>6, <2>1, <2>2, NextNameIs
<1> SUFFICES Place(p)'
  BY <1>3 DEF Placed
<1>7. CASE ReserveLock(p)
  <2>1. job[p].kind = "reserve" /\ Item(p) \notin Nodes /\ Lists
    BY <1>4, <1>7 DEF ReserveLock, Place
  <2>2. CASE Go(p, "create") /\ UNCHANGED at
    <3>1. pc'[p] = "create"
      BY <2>2 DEF Go, TypeOK
    <3> QED
      BY <1>2, <1>4, <2>1, <2>2, <3>1 DEF Place, Creates, Item
  <2>3. CASE NextName(p)
    BY <1>6, <2>1, <2>3
  <2>4. CASE Go(p, "failed") /\ UNCHANGED at
    BY <1>5, <2>1, <2>4
  <2> QED
    BY <1>7, <2>2, <2>3, <2>4, ReserveLockIs DEF Reserved
<1>8. CASE CreateLock(p)
  <2>1. job[p].kind = "reserve" /\ Lists
    BY <1>4, <1>8 DEF CreateLock, Place
  <2>2. NextName(p) \/ (Go(p, "failed") /\ UNCHANGED at)
    BY <1>8 DEF CreateLock, Reserved
  <2> QED
    BY <1>5, <1>6, <2>1, <2>2
<1>9. CASE ReserveNode(p)
  <2>1. job[p].kind = "reserve" /\ Item(p) \in Nodes /\ Lists /\ UNCHANGED at
    BY <1>4, <1>9 DEF ReserveNode, Place
  <2>2. pc'[p] = "failed" \/ pc'[p] = "id"
    BY <1>9 DEF ReserveNode, Go, TypeOK
  <2> QED
    BY <1>2, <1>4, <2>1, <2>2 DEF Place, Creates, Item
<1>10. CASE CreateId(p)
  <2>1. pc[p] = "id" /\ UNCHANGED <<at, doomed, current>>
        /\ alive'[p] = alive[p] \cup {Network(p)} /\ Network(p)[1] = p
    BY <1>10, NetworkIs DEF CreateId, TypeOK
  <2>2. pc'[p] = IF Item(p) \in Nodes THEN "deploy" ELSE "lock"
    BY <1>10 DEF CreateId, Go, TypeOK
  <2> QED
    BY <1>2, <1>4, <2>1, <2>2 DEF Place, Creates, Item
<1>11. CASE TakeLock(p)
  <2>1. pc[p] = "lock" /\ pc'[p] = "deploy" /\ Lists /\ UNCHANGED at
    BY <1>11 DEF TakeLock, Go, TypeOK
  <2> QED
    BY <1>2, <1>4, <2>1 DEF Place, Creates, Item
<1>12. CASE Deploy(p)
  <2>1. pc[p] = "deploy" /\ pc'[p] = "await" /\ Lists /\ UNCHANGED at
    BY <1>12 DEF Deploy, Go, TypeOK
  <2> QED
    BY <1>2, <1>4, <2>1 DEF Place, Creates, Item
<1>13. CASE Await(p)
  <2>1. pc[p] = "await" /\ Lists
    BY <1>13 DEF Await
  <2>2. CASE Item(p) \in Nodes
    BY <1>4, <1>6, <1>13, <2>1, <2>2 DEF Await, Reserved, Place
  <2>3. CASE Item(p) \notin Nodes
    <3>1. job[p].kind = "test"
      BY <1>4, <2>1, <2>3 DEF Place, Creates
    <3> QED
      BY <1>5, <1>13, <2>1, <2>3, <3>1 DEF Await
  <2> QED
    BY <2>2, <2>3
<1>14. CASE CreationFails(p) \/ TestEnds(p)
  <2>1. pc'[p] = "down" /\ UNCHANGED <<at, alive>>
    BY <1>14 DEF CreationFails, TestEnds, DeleteNetworks, Go, TypeOK
  <2> QED
    BY <1>2, <1>4, <2>1 DEF Place, Creates, Item
<1>15. CASE DeleteDeployments(p)
  <2>1. pc'[p] = "pods" /\ UNCHANGED <<at, alive, doomed>> /\ current'[p] \in doomed[p]
    BY <1>15 DEF DeleteDeployments, Go, TypeOK
  <2> QED
    BY <1>2, <1>4, <2>1 DEF Place, Creates, Item
<1>16. CASE DeletePods(p)
  <2>1. pc[p] = "pods" /\ pc'[p] = "wait" /\ UNCHANGED at /\ Lists
    BY <1>16 DEF DeletePods, Go, TypeOK
  <2> QED
    BY <1>2, <1>4, <2>1 DEF Place, Creates, Item
<1>17. CASE ListConfigMaps(p)
  <2>1. pc[p] = "wait" /\ pc'[p] = "maps" /\ UNCHANGED at /\ Lists
    BY <1>17 DEF ListConfigMaps, Go, TypeOK
  <2> QED
    BY <1>2, <1>4, <2>1 DEF Place, Creates, Item
<1>18. CASE DeleteConfigMap(p)
  <2>1. UNCHANGED <<pc, at>> /\ Lists
    BY <1>18 DEF DeleteConfigMap
  <2> QED
    BY <1>2, <1>4, <2>1 DEF Place, Creates, Item
<1>19. CASE NextNetwork(p)
  <2>1. pc'[p] = "down" /\ UNCHANGED at /\ alive'[p] \subseteq alive[p]
    BY <1>19 DEF NextNetwork, Go, TypeOK
  <2> QED
    BY <1>2, <1>4, <2>1 DEF Place, Creates, Item
<1>20. CASE NetworksDeleted(p)
  <2>1. Lists
    BY <1>20 DEF NetworksDeleted
  <2>2. CASE job[p].kind = "demolish" /\ Go(p, "user") /\ UNCHANGED at
    <3>1. pc'[p] = "user"
      BY <2>2 DEF Go, TypeOK
    <3> QED
      BY <1>2, <1>4, <2>1, <2>2, <3>1 DEF Place, Creates, Item
  <2> QED
    BY <1>5, <1>6, <1>20, <2>1, <2>2, AfterDeletion
<1>21. CASE ReleaseLock(p)
  BY <1>4, <1>6, <1>21 DEF ReleaseLock, Place
<1>22. CASE ReleaseNode(p)
  <2>1. job[p].kind = "release" /\ UNCHANGED <<alive, current>>
    BY <1>4, <1>22 DEF ReleaseNode, Place
  <2>2. CASE NextName(p) /\ UNCHANGED doomed
    BY <1>6, <2>1, <2>2
  <2>3. CASE Go(p, "down") /\ UNCHANGED at
    <3>1. pc'[p] = "down"
      BY <2>3 DEF Go, TypeOK
    <3> QED
      BY <1>2, <1>4, <2>1, <2>3, <3>1 DEF Place, Creates, Item
  <2> QED
    BY <1>22, <2>2, <2>3 DEF ReleaseNode
<1>23. CASE ListNetworks(p)
  <2>1. pc'[p] = "down" /\ UNCHANGED <<at, alive>>
    BY <1>23 DEF ListNetworks, Go, TypeOK
  <2> QED
    BY <1>2, <1>4, <2>1 DEF Place, Creates, Item
<1>24. CASE ListByUser(p)
  <2>1. pc[p] = "user" /\ pc'[p] = "userMaps" /\ UNCHANGED at /\ Lists
    BY <1>24 DEF ListByUser, Go, TypeOK
  <2> QED
    BY <1>2, <1>4, <2>1 DEF Place, Creates, Item
<1>25. CASE Demolished(p)
  BY <1>5, <1>25 DEF Demolished
<1> HIDE DEF Lists
<1> QED
  BY <1>7, <1>8, <1>9, <1>10, <1>11, <1>12, <1>13, <1>14, <1>15, <1>16, <1>17, <1>18,
     <1>19, <1>20, <1>21, <1>22, <1>23, <1>24, <1>25, Zenon DEF Step
-----------------------------------------------------------------------------
(* Which step changes what.                                                *)

\* What each variable needs to change.
Frames(p) ==
    /\ deployments' = deployments \/ Deploy(p) \/ DeleteDeployments(p)
    /\ pods' = pods \/ Deploy(p) \/ DeletePods(p)
    /\ configMaps' = configMaps \/ CreateLock(p) \/ CreateId(p) \/ TakeLock(p)
          \/ DeleteConfigMap(p) \/ ReleaseLock(p)
    /\ claims' = claims \/ ReserveLock(p) \/ CreateLock(p) \/ Await(p)
          \/ ReleaseLock(p) \/ ReleaseNode(p) \/ ListNetworks(p) \/ ListByUser(p)
    /\ alive' = alive \/ CreateId(p) \/ NextNetwork(p)
    /\ doomed' = doomed \/ CreationFails(p) \/ TestEnds(p) \/ NextNetwork(p)
          \/ ReleaseNode(p) \/ ListNetworks(p)
    /\ current' = current \/ DeleteDeployments(p) \/ NextNetwork(p)
    /\ listed' = listed \/ ListConfigMaps(p) \/ DeleteConfigMap(p) \/ ListByUser(p)
    /\ quiet' = quiet \/ ListNetworks(p)

\* No step changes a variable but these.
LEMMA StepFrames == ASSUME NEW p \in Process, Step(p) PROVE Frames(p)
<1> USE DEF Frames, Stays, cluster
<1>1. CASE ReserveLock(p)
  BY <1>1 DEF ReserveLock
<1>2. CASE CreateLock(p)
  BY <1>2 DEF CreateLock
<1>3. CASE ReserveNode(p)
  BY <1>3 DEF ReserveNode
<1>4. CASE CreateId(p)
  BY <1>4 DEF CreateId
<1>5. CASE TakeLock(p)
  BY <1>5 DEF TakeLock
<1>6. CASE Deploy(p)
  BY <1>6 DEF Deploy
<1>7. CASE Await(p)
  BY <1>7 DEF Await
<1>8. CASE CreationFails(p)
  BY <1>8 DEF CreationFails
<1>9. CASE TestEnds(p)
  BY <1>9 DEF TestEnds
<1>10. CASE DeleteDeployments(p)
  BY <1>10 DEF DeleteDeployments
<1>11. CASE DeletePods(p)
  BY <1>11 DEF DeletePods
<1>12. CASE ListConfigMaps(p)
  BY <1>12 DEF ListConfigMaps
<1>13. CASE DeleteConfigMap(p)
  BY <1>13 DEF DeleteConfigMap
<1>14. CASE NextNetwork(p)
  BY <1>14 DEF NextNetwork
<1>15. CASE NetworksDeleted(p)
  BY <1>15 DEF NetworksDeleted
<1>16. CASE ReleaseLock(p)
  BY <1>16 DEF ReleaseLock
<1>17. CASE ReleaseNode(p)
  BY <1>17 DEF ReleaseNode
<1>18. CASE ListNetworks(p)
  BY <1>18 DEF ListNetworks
<1>19. CASE ListByUser(p)
  BY <1>19 DEF ListByUser
<1>20. CASE Demolished(p)
  BY <1>20 DEF Demolished
<1> QED
  BY <1>1, <1>2, <1>3, <1>4, <1>5, <1>6, <1>7, <1>8, <1>9, <1>10, <1>11, <1>12,
     <1>13, <1>14, <1>15, <1>16, <1>17, <1>18, <1>19, <1>20, Zenon DEF Step

-----------------------------------------------------------------------------
(* Whose the things in the cluster are.                                    *)

\* Whose a pod or a ConfigMap is does not depend on the step.
LEMMA SameOwners ==
    ASSUME job' = job
    PROVE  /\ \A d : OwnPod(d)' <=> OwnPod(d)
           /\ \A c : OwnMap(c)' <=> OwnMap(c)
  BY DEF OwnPod, OwnMap, Creates, User, NameOf

\* What Owned says of pods and deployments, and of ConfigMaps.
LEMMA OwnedOf ==
    ASSUME job' = job,
           \A d \in pods' \cup deployments' : OwnPod(d), \A d \in deployments' : d.dev,
           \A c \in configMaps' : OwnMap(c),
           \A c, d \in configMaps' : c.kind = "lock" /\ d.kind = "lock" /\ c.name = d.name => c = d
    PROVE  Owned'
  BY SameOwners DEF Owned

\* The pod of a network is of its user.
LEMMA NewPodOwn ==
    ASSUME JobsAreCommands, TypeOK, Placed, NEW p \in Process, pc[p] = "deploy"
    PROVE  /\ OwnPod(NewPod(p)) /\ NewPod(p).orch = Network(p) /\ NewPod(p).user = User(p)
           /\ NewPod(p).state = "pending" /\ (NewPod(p).dev <=> Item(p) \in Nodes)
<1>1. Creates(p)
  BY DEF Placed, Place
<1>2. Network(p)[1] = p /\ NameOf(Network(p)) = Item(p)
  BY NetworkIs DEF NameOf, Item
<1> QED
  BY <1>1, <1>2 DEF NewPod, OwnPod

\* Every step keeps what is known of owners.
LEMMA OwnedStep ==
    ASSUME JobsAreCommands, TypeOK, Placed, Owned, NEW p \in Process, Step(p) PROVE Owned'
<1>1. Frames(p) /\ job' = job
  BY StepFrames, StepApart DEF Apart
<1>2. /\ \A d \in pods' \cup deployments' : OwnPod(d)
      /\ \A d \in deployments' : d.dev
  <2>1. CASE Deploy(p)
    <3>1. OwnPod(NewPod(p))
      BY <2>1, NewPodOwn DEF Deploy
    <3> QED
      BY <2>1, <3>1 DEF Deploy, Owned
  <2>2. CASE DeleteDeployments(p)
    BY <2>2 DEF DeleteDeployments, Owned
  <2>3. CASE DeletePods(p)
    <3>1. \A d \in Pod : OwnPod(d) => OwnPod(Terminating(d))
      BY DEF Pod, OwnPod, Terminating
    <3>2. \A d \in pods' : \E e \in pods : d = e \/ d = Terminating(e)
      BY <2>3 DEF DeletePods
    <3>3. deployments' = deployments
      BY <2>3 DEF DeletePods
    <3> QED
      BY <3>1, <3>2, <3>3 DEF Owned, TypeOK
  <2>4. CASE deployments' = deployments /\ pods' = pods
    BY <2>4 DEF Owned
  <2> QED
    BY <1>1, <2>1, <2>2, <2>3, <2>4, Zenon DEF Frames
<1>3. /\ \A c \in configMaps' : OwnMap(c)
      /\ \A c, d \in configMaps' : c.kind = "lock" /\ d.kind = "lock" /\ c.name = d.name => c = d
  <2>1. CASE configMaps' \subseteq configMaps
    BY <2>1 DEF Owned
  <2>2. CASE CreateLock(p)
    <3> DEFINE lock == Lock(Item(p), NoOrch, User(p))
    <3>1. configMaps' = Created(lock)
      BY <2>2 DEF CreateLock
    <3>2. OwnMap(lock) /\ lock.kind = "lock" /\ lock.name = Item(p)
      BY DEF OwnMap, Lock
    <3>3. CASE Exists(lock)
      BY <2>1, <3>1, <3>3 DEF Created
    <3>4. CASE ~ Exists(lock)
      <4>1. configMaps' = configMaps \cup {lock}
        BY <3>1, <3>4 DEF Created
      <4>2. \A d \in configMaps : d.kind = "lock" => d.name # Item(p)
        BY <3>2, <3>4 DEF Exists, SameName
      <4> HIDE DEF lock
      <4> QED
        BY <3>2, <4>1, <4>2 DEF Owned
    <3> QED
      BY <3>3, <3>4
  <2>3. CASE CreateId(p)
    <3> DEFINE id == IdMap(Network(p), User(p))
    <3>1. configMaps' \subseteq configMaps \cup {id}
      BY <2>3, CreatedIs DEF CreateId
    <3>2. Creates(p)
      BY <2>3 DEF CreateId, Placed, Place
    <3>3. OwnMap(id) /\ id.kind = "id"
      BY <3>2, NetworkIs DEF OwnMap, IdMap
    <3> HIDE DEF id
    <3> QED
      BY <3>1, <3>3 DEF Owned
  <2>4. CASE TakeLock(p)
    <3> DEFINE lock == Lock(Item(p), Network(p), User(p))
               data == DataMap(Item(p), Network(p), User(p))
    <3>1. configMaps' \subseteq configMaps \cup {lock, data}
      BY <2>4, CreatedIs DEF TakeLock
    <3>2. Creates(p)
      BY <2>4 DEF TakeLock, Placed, Place
    <3>3. OwnMap(lock) /\ OwnMap(data) /\ lock.kind = "lock" /\ lock.name = Item(p) /\ data.kind = "data"
      BY <3>2, NetworkIs DEF OwnMap, Lock, DataMap
    <3>4. \A d \in configMaps : d.kind = "lock" => d.name # Item(p)
      BY <2>4 DEF TakeLock, LocksOf
    <3> HIDE DEF lock, data
    <3> QED
      BY <3>1, <3>3, <3>4 DEF Owned
  <2>5. CASE DeleteConfigMap(p)
    BY <2>1, <2>5 DEF DeleteConfigMap, Deleted
  <2>6. CASE ReleaseLock(p)
    BY <2>1, <2>6 DEF ReleaseLock
  <2> QED
    BY <1>1, <2>1, <2>2, <2>3, <2>4, <2>5, <2>6 DEF Frames
<1> QED
  BY <1>1, <1>2, <1>3, OwnedOf
-----------------------------------------------------------------------------
(* What users were told.                                                   *)

\* A user is told of a lock that is there, or of a node that runs the pod of the network.
LEMMA NewClaims ==
    ASSUME JobsAreCommands, TypeOK, Placed, NEW p \in Process, Step(p), NEW c \in claims'
    PROVE  \/ c \in claims
           \/ /\ Item(p) \notin Nodes /\ c = NewClaim(p, c.orch) /\ UNCHANGED listed
              /\ \E lock \in configMaps' : lock.kind = "lock" /\ lock.name = Item(p)
                                         /\ lock.user = User(p) /\ lock.orch = c.orch
           \/ /\ Item(p) \in Nodes /\ Await(p) /\ c = NewClaim(p, Network(p))
              /\ job[p].kind = "reserve" /\ NextName(p)
<1>1. Frames(p)
  BY StepFrames
<1>2. CASE ReserveLock(p)
  <2>1. UNCHANGED <<listed, configMaps>> /\ Item(p) \notin Nodes
    BY <1>2 DEF ReserveLock, cluster
  <2>2. ASSUME NEW lock \in LocksOf(Item(p)), lock.user = User(p), Reserved(p, lock.orch),
               c \notin claims
        PROVE  /\ c = NewClaim(p, c.orch)
               /\ \E l \in configMaps' : l.kind = "lock" /\ l.name = Item(p)
                                       /\ l.user = User(p) /\ l.orch = c.orch
    <3>1. c = NewClaim(p, lock.orch)
      BY <2>2 DEF Reserved, NewClaim
    <3>2. c.orch = lock.orch
      BY <3>1 DEF NewClaim
    <3>3. lock \in configMaps' /\ lock.kind = "lock" /\ lock.name = Item(p)
      BY <2>1 DEF LocksOf
    <3> QED
      BY <2>2, <3>1, <3>2, <3>3
  <2> QED
    BY <1>2, <2>1, <2>2, ReserveLockIs
<1>3. CASE CreateLock(p)
  <2> DEFINE lock == Lock(Item(p), NoOrch, User(p))
  <2>1. configMaps' = Created(lock) /\ UNCHANGED listed
    BY <1>3 DEF CreateLock
  <2>2. Item(p) \notin Nodes
    BY <1>3 DEF CreateLock, Placed, Place
  <2>3. CASE Exists(lock)
    BY <1>3, <2>3 DEF CreateLock
  <2>4. CASE ~ Exists(lock)
    <3>1. Reserved(p, NoOrch)
      BY <1>3, <2>4 DEF CreateLock
    <3>2. c \in claims \/ c = NewClaim(p, NoOrch)
      BY <3>1 DEF Reserved, NewClaim
    <3>3. NewClaim(p, NoOrch).orch = NoOrch
      BY DEF NewClaim
    <3>4. lock \in configMaps' /\ lock.kind = "lock" /\ lock.name = Item(p)
          /\ lock.user = User(p) /\ lock.orch = NoOrch
      BY <2>1, <2>4, CreatedIs DEF Lock
    <3> HIDE DEF lock
    <3> QED
      BY <2>1, <2>2, <3>2, <3>3, <3>4
  <2> QED
    BY <2>3, <2>4
<1>4. CASE Await(p)
  <2>1. CASE Item(p) \in Nodes
    <3>1. Reserved(p, Network(p))
      BY <1>4, <2>1 DEF Await
    <3>2. (c \in claims \/ c = NewClaim(p, Network(p))) /\ NextName(p)
      BY <3>1 DEF Reserved, NewClaim
    <3>3. job[p].kind = "reserve"
      BY <1>4, <2>1 DEF Await, Placed, Place
    <3> QED
      BY <1>4, <2>1, <3>2, <3>3
  <2>2. CASE Item(p) \notin Nodes
    BY <1>4, <2>2 DEF Await
  <2> QED
    BY <2>1, <2>2
<1>5. CASE ReleaseLock(p) \/ ReleaseNode(p)
  BY <1>5 DEF ReleaseLock, ReleaseNode, Without
<1>6. CASE ListNetworks(p) \/ ListByUser(p)
  BY <1>6 DEF ListNetworks, ListByUser, Without
<1> QED
  BY <1>1, <1>2, <1>3, <1>4, <1>5, <1>6 DEF Frames

\* A process goes on to the next name of its job or stays where it is.
LEMMA AtGrows ==
    ASSUME JobsAreCommands, TypeOK, Placed, NEW p \in Process, Step(p)
    PROVE  at' = at \/ at' = [at EXCEPT ![p] = @ + 1]
<1>1. ASSUME NextName(p) PROVE at' = at \/ at' = [at EXCEPT ![p] = @ + 1]
  BY <1>1 DEF NextName
<1>2. CASE ReserveLock(p)
  BY <1>1, <1>2, ReserveLockIs DEF Reserved
<1>3. CASE CreateLock(p)
  BY <1>1, <1>3 DEF CreateLock, Reserved
<1>4. CASE Await(p)
  BY <1>1, <1>4 DEF Await, Reserved
<1>5. CASE NetworksDeleted(p)
  BY <1>1, <1>5, AfterDeletion
<1>6. CASE ReleaseLock(p) \/ ReleaseNode(p)
  BY <1>1, <1>6 DEF ReleaseLock, ReleaseNode
<1>7. CASE ReserveNode(p) \/ CreateId(p) \/ TakeLock(p) \/ Deploy(p) \/ CreationFails(p) \/ TestEnds(p)
  BY <1>7 DEF ReserveNode, CreateId, TakeLock, Deploy, CreationFails, TestEnds
<1>8. CASE \/ DeleteDeployments(p) \/ DeletePods(p) \/ ListConfigMaps(p) \/ DeleteConfigMap(p)
           \/ NextNetwork(p) \/ ListNetworks(p) \/ ListByUser(p) \/ Demolished(p)
  BY <1>8 DEF DeleteDeployments, DeletePods, ListConfigMaps, DeleteConfigMap, NextNetwork,
              ListNetworks, ListByUser, Demolished
<1> QED
  BY <1>2, <1>3, <1>4, <1>5, <1>6, <1>7, <1>8, Zenon DEF Step

\* Every step keeps what is known of claims to nodes.
LEMMA ClaimedStep ==
    ASSUME JobsAreCommands, TypeOK, Placed, Claimed, NEW p \in Process, Step(p) PROVE Claimed'
<1>1. Apart(p) /\ job' = job
  BY StepApart DEF Apart
<1>2. \A q \in Process : at'[q] \in Nat /\ at[q] \in Nat /\ at'[q] >= at[q]
  BY AtGrows DEF TypeOK
<1>3. SUFFICES ASSUME NEW c \in claims', c.name \in Nodes
               PROVE  /\ c.orch \in Networks /\ job[c.orch[1]].kind = "reserve"
                      /\ c.name = NameOf(c.orch) /\ c.user = User(c.orch[1])
                      /\ c.orch[2] <= at'[c.orch[1]]
                      /\ c.orch[2] = at'[c.orch[1]] => pc'[c.orch[1]] \in Over
  BY <1>1 DEF Claimed, OwnClaim, NameOf, User
<1>4. CASE c \in claims
  <2>1. OwnClaim(c)
    BY <1>4 DEF Claimed
  <2>2. c.orch[1] \in Process /\ c.orch[2] \in Nat
    BY <1>3, <2>1 DEF OwnClaim, Networks
  <2>3. CASE c.orch[1] = p
    BY <1>1, <1>2, <1>3, <2>1, <2>2, <2>3 DEF OwnClaim, Apart
  <2>4. CASE c.orch[1] # p
    BY <1>1, <1>2, <1>3, <2>1, <2>2, <2>4 DEF OwnClaim, Apart
  <2> QED
    BY <2>3, <2>4
<1>5. CASE Item(p) \notin Nodes /\ c = NewClaim(p, c.orch)
  BY <1>3, <1>5 DEF NewClaim
<1>6. CASE c = NewClaim(p, Network(p)) /\ job[p].kind = "reserve" /\ NextName(p)
  <2>1. c.orch = Network(p) /\ c.name = Item(p) /\ c.user = User(p)
    BY <1>6 DEF NewClaim
  <2>2. c.orch \in Networks /\ c.orch[1] = p /\ c.orch[2] = at[p]
    BY <2>1, NetworkIs
  <2>3. c.name = NameOf(c.orch)
    BY <2>1, <2>2 DEF NameOf, Item
  <2>4. at'[p] = at[p] => pc'[p] \in Over
    BY <1>6, NextNameIs DEF TypeOK, Over
  <2> QED
    BY <1>2, <1>6, <2>1, <2>2, <2>3, <2>4
<1> QED
  BY <1>4, <1>5, <1>6, NewClaims, Zenon
-----------------------------------------------------------------------------
(* A lock that was created for a user is kept.                             *)

\* What is claimed and free of a demolition or release is of another user or name.
LEMMA FreedOf ==
    ASSUME TypeOK, NEW p \in Process, NEW c \in claims, c \in claims'
    PROVE  /\ ReleaseLock(p) \/ ReleaseNode(p) => c.name # Item(p)
           /\ ListNetworks(p) \/ ListByUser(p) => ~ Matches(p, c.user)
<1>1. c.user \in Everyone /\ c.name \in Everything
  BY DEF TypeOK, Claim
<1>2. ASSUME ReleaseLock(p) \/ ReleaseNode(p) PROVE c.name # Item(p)
  <2>1. claims' = Without(Everyone, {Item(p)})
    BY <1>2 DEF ReleaseLock, ReleaseNode
  <2> QED
    BY <1>1, <2>1 DEF Without
<1>3. ASSUME ListNetworks(p) \/ ListByUser(p) PROVE ~ Matches(p, c.user)
  <2>1. claims' = Without(Of(p), Everything)
    BY <1>3 DEF ListNetworks, ListByUser
  <2>2. c.user \notin Of(p)
    BY <1>1, <2>1 DEF Without
  <2> QED
    BY <1>1, <2>2 DEF Of, Matches
<1> QED
  BY <1>2, <1>3

\* The lock of no network goes with a release of its name or a demolition of its user only.
LEMMA LockKeptStep ==
    ASSUME JobsAreCommands, TypeOK, Placed, Owned, LockKept, NEW p \in Process, Step(p)
    PROVE  LockKept'
<1>1. Frames(p) /\ Apart(p)
  BY StepFrames, StepApart
<1>2. SUFFICES ASSUME NEW c \in claims', c.safe, c.name \notin Nodes, c.orch = NoOrch
               PROVE  /\ \E l \in configMaps' : l.kind = "lock" /\ l.name = c.name
                                              /\ l.user = c.user /\ l.orch = c.orch
                      /\ \A q \in Process : \A d \in listed'[q] : d.kind = "lock" => d.name # c.name
  BY DEF LockKept, Held, LocksOf
<1>3. CASE c \in claims
  <2>1. PICK l \in configMaps : l.kind = "lock" /\ l.name = c.name /\ l.user = c.user /\ l.orch = c.orch
    BY <1>2, <1>3 DEF LockKept, Held, LocksOf
  <2>2. \A q \in Process : \A d \in listed[q] : d.kind = "lock" => d.name # c.name
    BY <1>2, <1>3 DEF LockKept
  <2>3. \A d \in configMaps : d.kind = "lock" /\ d.name = c.name => d = l
    BY <2>1 DEF Owned
  <2>4. l \in configMaps'
    <3>1. CASE CreateLock(p) \/ CreateId(p) \/ TakeLock(p)
      <4>1. configMaps \subseteq configMaps'
        BY <3>1, CreatedIs DEF CreateLock, CreateId, TakeLock
      <4> QED
        BY <2>1, <4>1
    <3>2. CASE DeleteConfigMap(p)
      <4>1. PICK d \in listed[p] : configMaps' = Deleted(d)
        BY <3>2 DEF DeleteConfigMap
      <4> QED
        BY <2>1, <2>2, <4>1 DEF Deleted, SameName
    <3>3. CASE ReleaseLock(p)
      <4>1. c.name # Item(p) /\ configMaps' = configMaps \ LocksOf(Item(p))
        BY <1>3, <3>3, FreedOf DEF ReleaseLock
      <4> QED
        BY <2>1, <4>1 DEF LocksOf
    <3> QED
      BY <1>1, <2>1, <3>1, <3>2, <3>3 DEF Frames
  <2>5. ASSUME NEW q \in Process, NEW d \in listed'[q], d.kind = "lock" PROVE d.name # c.name
    <3>1. CASE q # p
      BY <1>1, <2>2, <2>5, <3>1 DEF Apart
    <3>2. CASE q = p /\ ListConfigMaps(p)
      <4>1. d \in configMaps /\ d.orch = current[p]
        BY <2>5, <3>2 DEF ListConfigMaps, Doomed, TypeOK
      <4>2. current[p] \in Networks
        BY <3>2 DEF ListConfigMaps, Placed, Place, TypeOK
      <4> QED
        BY <1>2, <2>1, <2>3, <2>5, <4>1, <4>2, NoNetwork
    <3>3. CASE q = p /\ ListByUser(p)
      <4>1. d \in configMaps /\ Matches(p, d.user)
        BY <2>5, <3>3 DEF ListByUser, TypeOK
      <4>2. ~ Matches(p, c.user)
        BY <1>3, <3>3, FreedOf
      <4> QED
        BY <2>1, <2>3, <2>5, <4>1, <4>2
    <3>4. CASE q = p /\ DeleteConfigMap(p)
      <4>1. d \in listed[p]
        BY <2>5, <3>4 DEF DeleteConfigMap, TypeOK
      <4> QED
        BY <2>2, <2>5, <4>1
    <3> QED
      BY <1>1, <2>2, <2>5, <3>1, <3>2, <3>3, <3>4 DEF Frames
  <2> QED
    BY <2>1, <2>4, <2>5
<1>4. CASE /\ Item(p) \notin Nodes /\ c = NewClaim(p, c.orch) /\ UNCHANGED listed
           /\ \E lock \in configMaps' : lock.kind = "lock" /\ lock.name = Item(p)
                                      /\ lock.user = User(p) /\ lock.orch = c.orch
  <2>1. c.name = Item(p) /\ c.user = User(p) /\ c.safe = ~ Threatened(Item(p), c.orch)
    BY <1>4 DEF NewClaim
  <2>2. ~ Threatened(Item(p), c.orch)
    BY <1>2, <2>1
  <2> QED
    BY <1>4, <2>1, <2>2 DEF Threatened
<1>5. CASE Item(p) \in Nodes /\ c = NewClaim(p, Network(p))
  BY <1>2, <1>5 DEF NewClaim
<1> QED
  BY <1>3, <1>4, <1>5, NewClaims, Zenon

-----------------------------------------------------------------------------
(* The deployment of a node is kept.                                       *)

\* A process comes to wait by its deployment, and deletes the pods after the deployment.
LEMMA Moves ==
    ASSUME JobsAreCommands, TypeOK, Placed, NEW p \in Process, Step(p)
    PROVE  /\ pc'[p] = "await" => Deploy(p)
           /\ pc[p] = "pods" => DeletePods(p)
<1> DEFINE Thus == (pc'[p] = "await" => Deploy(p)) /\ (pc[p] = "pods" => DeletePods(p))
<1> SUFFICES Thus
  OBVIOUS
<1>1. ASSUME NEW step, Go(p, step), step # "await", pc[p] # "pods" PROVE Thus
  BY <1>1 DEF Go, TypeOK
<1>2. ASSUME NextName(p), pc[p] \in {"reserve", "create", "await", "release", "down"},
             job[p].kind \in {"reserve", "release"}
      PROVE  Thus
  BY <1>2, NextNameIs DEF TypeOK
<1>3. CASE ReserveLock(p)
  <2>1. pc[p] = "reserve"
    BY <1>3 DEF ReserveLock
  <2> QED
    BY <1>1, <1>2, <1>3, <2>1, ReserveLockIs DEF Reserved
<1>4. CASE CreateLock(p)
  <2>1. pc[p] = "create" /\ job[p].kind = "reserve"
    BY <1>4 DEF CreateLock, Placed, Place
  <2>2. NextName(p) \/ Go(p, "failed")
    BY <1>4 DEF CreateLock, Reserved
  <2> QED
    BY <1>1, <1>2, <2>1, <2>2
<1>5. CASE ReserveNode(p)
  BY <1>5 DEF ReserveNode, Go, TypeOK
<1>6. CASE CreateId(p)
  BY <1>6 DEF CreateId, Go, TypeOK
<1>7. CASE TakeLock(p)
  BY <1>1, <1>7 DEF TakeLock
<1>8. CASE Deploy(p)
  BY <1>8 DEF Deploy
<1>9. CASE Await(p)
  <2>1. pc[p] = "await"
    BY <1>9 DEF Await
  <2>2. CASE Item(p) \in Nodes
    <3>1. job[p].kind = "reserve" /\ NextName(p)
      BY <1>9, <2>1, <2>2 DEF Await, Reserved, Placed, Place
    <3> QED
      BY <1>2, <2>1, <3>1
  <2>3. CASE Item(p) \notin Nodes
    BY <1>1, <1>9, <2>1, <2>3 DEF Await
  <2> QED
    BY <2>2, <2>3
<1>10. CASE CreationFails(p) \/ TestEnds(p)
  BY <1>1, <1>10 DEF CreationFails, TestEnds, DeleteNetworks
<1>11. CASE DeleteDeployments(p)
  BY <1>1, <1>11 DEF DeleteDeployments
<1>12. CASE DeletePods(p)
  BY <1>12 DEF DeletePods, Go, TypeOK
<1>13. CASE ListConfigMaps(p) \/ NextNetwork(p)
  BY <1>1, <1>13 DEF ListConfigMaps, NextNetwork
<1>14. CASE DeleteConfigMap(p)
  BY <1>14 DEF DeleteConfigMap
<1>15. CASE NetworksDeleted(p)
  <2>1. pc[p] = "down"
    BY <1>15 DEF NetworksDeleted
  <2> QED
    BY <1>1, <1>2, <1>15, <2>1, AfterDeletion
<1>16. CASE ReleaseLock(p) \/ ReleaseNode(p)
  <2>1. pc[p] = "release" /\ job[p].kind = "release"
    BY <1>16 DEF ReleaseLock, ReleaseNode, Placed, Place
  <2>2. NextName(p) \/ Go(p, "down")
    BY <1>16 DEF ReleaseLock, ReleaseNode
  <2> QED
    BY <1>1, <1>2, <2>1, <2>2
<1>17. CASE ListNetworks(p) \/ ListByUser(p) \/ Demolished(p)
  BY <1>1, <1>17 DEF ListNetworks, ListByUser, Demolished
<1> HIDE DEF Thus
<1> QED
  BY <1>3, <1>4, <1>5, <1>6, <1>7, <1>8, <1>9, <1>10, <1>11, <1>12, <1>13, <1>14, <1>15,
     <1>16, <1>17, Zenon DEF Step

\* A process that waits for its node finds its deployment, or a deletion of it that is
\* on its way, or its pods are ending.
LEMMA AwaitedStep ==
    ASSUME JobsAreCommands, TypeOK, Placed, Awaited, NEW p \in Process, Step(p)
    PROVE  Awaited'
<1>1. Frames(p) /\ Apart(p) /\ job' = job
  BY StepFrames, StepApart DEF Apart
<1> DEFINE Has(N) == \E d \in deployments' : d.orch = N
           Ends(N) == \A d \in pods' : d.orch = N => d.state = "terminating"
           Goes(N) == \E r \in Process : pc'[r] \in {"pods", "dead"} /\ current'[r] = N /\ N \in doomed'[r]
<1>2. SUFFICES ASSUME NEW q \in Process, pc'[q] = "await", Item(q)' \in Nodes
               PROVE  Has(Network(q)') \/ Ends(Network(q)') \/ Goes(Network(q)')
  BY DEF Awaited, HasDeployment, PodsOf
<1>3. CASE q = p
  <2>1. Deploy(p)
    BY <1>2, <1>3, Moves
  <2>2. Network(q)' = Network(p) /\ Item(q)' = Item(p)
    BY <1>1, <1>3, <2>1 DEF Deploy, Network, Item
  <2>3. NewPod(p).orch = Network(p) /\ NewPod(p).dev
    BY <1>2, <2>1, <2>2, NewPodOwn DEF Deploy
  <2>4. NewPod(p) \in deployments'
    BY <2>1, <2>3 DEF Deploy
  <2> QED
    BY <2>2, <2>3, <2>4
<1>4. CASE q # p
  <2> DEFINE N == Network(q)
  <2>1. pc[q] = "await" /\ Item(q) \in Nodes /\ Network(q)' = N
    BY <1>1, <1>2, <1>4 DEF Apart, Item, Network
  <2>2. N # Network(p) /\ N[1] = q
    BY <1>4, NetworkIs
  <2> HIDE DEF N
  <2>3. CASE HasDeployment(N)
    <3>1. PICK d \in deployments : d.orch = N
      BY <2>3 DEF HasDeployment
    <3>2. CASE DeleteDeployments(p)
      <4>1. PICK orch \in doomed[p] : deployments' = deployments \ DeploymentsOf(orch)
                                     /\ current' = [current EXCEPT ![p] = orch]
        BY <3>2 DEF DeleteDeployments
      <4>2. CASE orch = N
        <5>1. pc'[p] = "pods" /\ current'[p] = N /\ N \in doomed'[p]
          BY <3>2, <4>1, <4>2 DEF DeleteDeployments, Go, TypeOK
        <5> QED
          BY <2>1, <5>1
      <4>3. CASE orch # N
        BY <2>1, <3>1, <4>1, <4>3 DEF DeploymentsOf
      <4> QED
        BY <4>2, <4>3
    <3>3. CASE deployments' = deployments \/ Deploy(p)
      BY <2>1, <3>1, <3>3 DEF Deploy
    <3> QED
      BY <1>1, <3>2, <3>3 DEF Frames
  <2>4. CASE \A d \in PodsOf(N) : d.state = "terminating"
    <3>1. CASE Deploy(p)
      <4>1. NewPod(p).orch # N /\ pods' \subseteq pods \cup {NewPod(p)}
        BY <2>2, <3>1, NewPodOwn DEF Deploy
      <4> QED
        BY <2>1, <2>4, <4>1 DEF PodsOf
    <3>2. CASE DeletePods(p)
      <4>1. \A d \in Pod : Terminating(d).orch = d.orch /\ Terminating(d).state = "terminating"
        BY DEF Pod, Terminating
      <4>2. \A d \in pods' : \E e \in pods : d = e \/ d = Terminating(e)
        BY <3>2 DEF DeletePods
      <4> QED
        BY <2>1, <2>4, <4>1, <4>2 DEF PodsOf, TypeOK
    <3>3. CASE pods' = pods
      BY <2>1, <2>4, <3>3 DEF PodsOf
    <3> QED
      BY <1>1, <3>1, <3>2, <3>3 DEF Frames
  <2>5. CASE \E r \in Process : pc[r] \in {"pods", "dead"} /\ current[r] = N /\ N \in doomed[r]
    <3>1. PICK r \in Process : pc[r] \in {"pods", "dead"} /\ current[r] = N /\ N \in doomed[r]
      BY <2>5
    <3>2. CASE r = p
      <4>1. DeletePods(p)
        BY <1>1, <3>1, <3>2, Moves DEF Apart, Over
      <4>2. \A d \in Pod : Terminating(d).orch = d.orch /\ Terminating(d).state = "terminating"
        BY DEF Pod, Terminating
      <4>3. \A d \in pods' : \E e \in pods : d = IF e.orch = N THEN Terminating(e) ELSE e
        BY <3>1, <3>2, <4>1 DEF DeletePods, Doomed
      <4> QED
        BY <2>1, <4>2, <4>3 DEF TypeOK
    <3>3. CASE r # p
      BY <1>1, <2>1, <3>1, <3>3 DEF Apart
    <3> QED
      BY <3>2, <3>3
  <2> QED
    BY <2>1, <2>3, <2>4, <2>5 DEF Awaited, N
<1> QED
  BY <1>3, <1>4
\* The deployment of a network that its process keeps, and a user was told of, goes with a
\* release of the node or a demolition of the user only.
LEMMA NodeKeptStep ==
    ASSUME JobsAreCommands, TypeOK, Placed, Owned, Claimed, Awaited, NodeKept,
           NEW p \in Process, Step(p)
    PROVE  NodeKept'
<1>1. Frames(p) /\ Apart(p) /\ job' = job
  BY StepFrames, StepApart DEF Apart
<1>2. SUFFICES ASSUME NEW c \in claims', c.safe, c.name \in Nodes,
                      c.orch \in alive'[c.orch[1]], c.orch \notin doomed'[c.orch[1]]
               PROVE  /\ \E d \in deployments' : d.orch = c.orch
                      /\ \A q \in Process : c.orch \notin doomed'[q]
  BY DEF NodeKept, HasDeployment
<1>3. CASE c \in claims
  <2> DEFINE o == c.orch[1]
  <2>1. /\ c.orch \in Networks /\ o \in Process /\ job[o].kind = "reserve"
        /\ c.name = NameOf(c.orch) /\ c.user = User(o)
        /\ c.orch[2] = at[o] => pc[o] \in Over
    BY <1>2, <1>3 DEF Claimed, OwnClaim, Networks
  <2> HIDE DEF o
  <2>2. c.orch \in alive[o] \ doomed[o]
    <3>1. CASE o # p
      BY <1>1, <1>2, <2>1, <3>1 DEF Apart, o
    <3>2. CASE o = p
      <4>1. c.orch \in alive'[p] /\ c.orch \notin doomed'[p]
        BY <1>2, <3>2 DEF o
      <4>2. c.orch # Network(p)
        BY <1>1, <2>1, <3>2, NetworkIs DEF Apart
      <4>3. c.orch \in alive[p]
        <5>1. CASE CreateId(p)
          BY <4>1, <4>2, <5>1 DEF CreateId, TypeOK
        <5>2. CASE NextNetwork(p)
          BY <4>1, <5>2 DEF NextNetwork, TypeOK
        <5> QED
          BY <1>1, <4>1, <5>1, <5>2 DEF Frames
      <4>4. c.orch \notin doomed[p]
        <5>1. CASE CreationFails(p) \/ TestEnds(p)
          <6>1. doomed'[p] = alive[p]
            BY <5>1 DEF CreationFails, TestEnds, DeleteNetworks, TypeOK
          <6> QED
            BY <4>1, <4>3, <6>1
        <5>2. CASE NextNetwork(p)
          BY <4>1, <5>2 DEF NextNetwork, TypeOK
        <5>3. CASE ReleaseNode(p) \/ ListNetworks(p)
          BY <2>1, <3>2, <5>3 DEF ReleaseNode, ListNetworks, Placed, Place
        <5> QED
          BY <1>1, <4>1, <5>1, <5>2, <5>3 DEF Frames
      <4> QED
        BY <3>2, <4>3, <4>4
    <3> QED
      BY <3>1, <3>2
  <2>3. /\ \E d \in deployments : d.orch = c.orch
        /\ \A q \in Process : c.orch \notin doomed[q]
    BY <1>2, <1>3, <2>2 DEF NodeKept, HasDeployment, o
  <2>4. \E d \in deployments' : d.orch = c.orch
    <3>1. PICK d \in deployments : d.orch = c.orch
      BY <2>3
    <3>2. CASE DeleteDeployments(p)
      BY <2>3, <3>1, <3>2 DEF DeleteDeployments, DeploymentsOf
    <3>3. CASE Deploy(p)
      BY <3>1, <3>3 DEF Deploy
    <3> QED
      BY <1>1, <3>1, <3>2, <3>3 DEF Frames
  <2>5. c.orch \notin doomed'[p]
    <3>1. CASE CreationFails(p) \/ TestEnds(p)
      <4>1. doomed'[p] = alive[p] /\ alive' = alive
        BY <3>1 DEF CreationFails, TestEnds, DeleteNetworks, TypeOK
      <4>2. c.orch \in alive[p] => o = p
        BY DEF Placed, Place, o
      <4> QED
        BY <1>2, <4>1, <4>2 DEF o
    <3>2. CASE NextNetwork(p)
      BY <2>3, <3>2 DEF NextNetwork, TypeOK
    <3>3. CASE ReleaseNode(p)
      <4>1. CASE HoldersOf(Item(p)) = {}
        BY <2>3, <3>3, <4>1 DEF ReleaseNode
      <4>2. CASE HoldersOf(Item(p)) # {}
        <5>1. PICK d \in HoldersOf(Item(p)) : doomed'[p] = {d.orch}
          BY <3>3, <4>2 DEF ReleaseNode, TypeOK
        <5>2. Item(p) = NameOf(d.orch)
          BY DEF HoldersOf, Owned, OwnPod
        <5>3. c.name # Item(p)
          BY <1>3, <3>3, FreedOf
        <5> QED
          BY <2>1, <5>1, <5>2, <5>3
      <4> QED
        BY <4>1, <4>2
    <3>4. CASE ListNetworks(p)
      <4>1. ~ Matches(p, User(o))
        BY <1>3, <2>1, <3>4, FreedOf
      <4>2. \A d \in configMaps : d.orch = c.orch => d.user = User(o)
        BY <2>1, NoNetwork DEF Owned, OwnMap, o
      <4>3. \A d \in pods : d.orch = c.orch => d.user = User(o)
        BY DEF Owned, OwnPod, o
      <4> QED
        BY <3>4, <4>1, <4>2, <4>3 DEF ListNetworks, TypeOK
    <3> QED
      BY <1>1, <2>3, <3>1, <3>2, <3>3, <3>4 DEF Frames
  <2> QED
    BY <1>1, <2>3, <2>4, <2>5 DEF Apart
<1>4. CASE Item(p) \notin Nodes /\ c = NewClaim(p, c.orch)
  <2>1. c.name = Item(p)
    BY <1>4 DEF NewClaim
  <2> QED
    BY <1>2, <1>4, <2>1
<1>5. CASE Item(p) \in Nodes /\ Await(p) /\ c = NewClaim(p, Network(p))
  <2>1. c.orch = Network(p) /\ c.safe = ~ Threatened(Item(p), Network(p))
    BY <1>5 DEF NewClaim
  <2>2. \A q \in Process : Network(p) \notin doomed[q]
    BY <1>2, <2>1 DEF Threatened
  <2>3. pc[p] = "await" /\ \E d \in PodsOf(Network(p)) : d.state = "running"
    BY <1>5 DEF Await
  <2>4. HasDeployment(Network(p))
    BY <1>5, <2>2, <2>3 DEF Awaited
  <2>5. UNCHANGED <<deployments, doomed>>
    BY <1>5 DEF Await, cluster
  <2> QED
    BY <2>1, <2>2, <2>4, <2>5 DEF HasDeployment
<1> QED
  BY <1>3, <1>4, <1>5, NewClaims, Zenon

-----------------------------------------------------------------------------
(* A quiet demolition.                                                     *)

\* What others do to the things of other users, and the cluster to all of them, takes
\* nothing back from a demolition.
LEMMA OthersKeep ==
    ASSUME NEW r \in Process, DeletesAll(r), Place(r), job' = job,
           pc'[r] = pc[r], doomed'[r] = doomed[r], current'[r] = current[r], listed'[r] = listed[r],
           \A q \in Process : pc[q] \in Over => pc'[q] \in Over,
           \A d \in deployments' : d \in deployments
              \/ (d.user = User(d.orch[1]) /\ ~ Matches(r, d.user)),
           \A d \in pods' :
              \/ d.user = User(d.orch[1]) /\ ~ Matches(r, d.user)
              \/ \E e \in pods : e.orch = d.orch /\ e.user = d.user
                                /\ (e.state = "terminating" => d.state = "terminating")
              \/ \E e \in deployments : e.orch = d.orch /\ e.user = d.user,
           \A c \in configMaps' : c \in configMaps \/ ~ Matches(r, c.user)
    PROVE  DeletesAll(r)'
<1>1. /\ \A x : Matches(r, x)' <=> Matches(r, x)
      /\ \A q : User(q)' = User(q)
  BY DEF Matches, User
<1>2. pc[r] \in {"pods", "wait", "maps"} => Matches(r, User(current[r][1]))
  BY DEF DeletesAll, Place
<1>3. /\ job'[r].kind = "demolish"
      /\ \A q \in Process \ {r} : Matches(r, User(q)) => pc'[q] \in Over
      /\ pc'[r] \in {"down", "pods", "wait", "maps", "user", "userMaps", "ok"}
      /\ \A orch \in doomed'[r] : Matches(r, User(orch[1]))
  BY DEF DeletesAll
<1>4. pc[r] \in {"down", "pods", "wait", "maps"} =>
          \A d \in deployments' \cup pods' : Matches(r, d.user) => d.orch \in doomed[r]
  BY DEF DeletesAll
<1>5. pc[r] \in {"pods", "wait", "maps"} => ~ \E d \in deployments' : d.orch = current[r]
  BY <1>2 DEF DeletesAll, HasDeployment
<1>6. pc[r] = "wait" => \A d \in pods' : d.orch = current[r] => d.state = "terminating"
  BY <1>2 DEF DeletesAll, HasDeployment, PodsOf
<1>7. pc[r] = "maps" => \A d \in pods' : d.orch # current[r]
  BY <1>2 DEF DeletesAll, HasDeployment, PodsOf
<1>8. pc[r] \in {"user", "userMaps", "ok"} => \A d \in deployments' \cup pods' : ~ Matches(r, d.user)
  BY DEF DeletesAll
<1>9. /\ pc[r] = "userMaps" => \A c \in configMaps' : SaysUser(c) /\ Matches(r, c.user) => c \in listed[r]
      /\ pc[r] = "ok" => \A c \in configMaps' : SaysUser(c) => ~ Matches(r, c.user)
  BY DEF DeletesAll
<1> QED
  BY <1>1, <1>3, <1>4, <1>5, <1>6, <1>7, <1>8, <1>9 DEF DeletesAll, HasDeployment, PodsOf
\* What a demolition does keeps what it has done.
LEMMA OwnKeep ==
    ASSUME JobsAreCommands, TypeOK, Placed, Owned, NEW p \in Process, Step(p), DeletesAll(p)
    PROVE  DeletesAll(p)'
<1>1. Frames(p) /\ Apart(p) /\ job' = job
  BY StepFrames, StepApart DEF Apart
<1>2. /\ \A x : Matches(p, x)' <=> Matches(p, x)
      /\ \A q : User(q)' = User(q)
  BY <1>1 DEF Matches, User
<1>3. /\ job'[p].kind = "demolish"
      /\ \A q \in Process \ {p} : Matches(p, User(q)) => pc'[q] \in Over
  BY <1>1 DEF DeletesAll, Apart
<1>4. /\ pc[p] \in {"down", "pods", "wait", "maps", "user", "userMaps"}
      /\ \A orch \in doomed[p] : Matches(p, User(orch[1]))
      /\ pc[p] \in {"pods", "wait", "maps"} => current[p] \in doomed[p]
  BY <1>1 DEF DeletesAll, Apart, Over, Placed, Place
<1>5. CASE DeleteDeployments(p)
  <2>1. PICK orch \in doomed[p] : deployments' = deployments \ DeploymentsOf(orch)
                                 /\ current' = [current EXCEPT ![p] = orch]
    BY <1>5 DEF DeleteDeployments
  <2>2. pc[p] = "down" /\ pc'[p] = "pods" /\ current'[p] = orch /\ doomed' = doomed /\ pods' = pods
    BY <1>5, <2>1 DEF DeleteDeployments, Go, TypeOK
  <2>3. ~ HasDeployment(current[p])'
    BY <2>1, <2>2 DEF HasDeployment, DeploymentsOf
  <2>4. \A d \in deployments' \cup pods' : Matches(p, d.user) => d.orch \in doomed'[p]
    BY <2>1, <2>2 DEF DeletesAll
  <2> QED
    BY <1>2, <1>3, <1>4, <2>2, <2>3, <2>4 DEF DeletesAll
<1>6. CASE DeletePods(p)
  <2>1. pc[p] = "pods" /\ pc'[p] = "wait" /\ UNCHANGED <<doomed, current, deployments>>
    BY <1>6 DEF DeletePods, Go, TypeOK
  <2>2. \A d \in Pod : Terminating(d).orch = d.orch /\ Terminating(d).user = d.user
                      /\ Terminating(d).state = "terminating"
    BY DEF Pod, Terminating
  <2>3. \A d \in pods' : \E e \in pods : d = IF e.orch = current[p] THEN Terminating(e) ELSE e
    BY <1>6 DEF DeletePods, Doomed
  <2>4. \A d \in pods' : d.orch = current[p] => d.state = "terminating"
    BY <2>2, <2>3 DEF TypeOK
  <2>5. \A d \in pods' : \E e \in pods : d.orch = e.orch /\ d.user = e.user
    BY <2>2, <2>3 DEF TypeOK
  <2>6. \A d \in deployments' \cup pods' : Matches(p, d.user) => d.orch \in doomed'[p]
    BY <2>1, <2>5 DEF DeletesAll
  <2>7. ~ HasDeployment(current[p])'
    BY <2>1 DEF DeletesAll, HasDeployment
  <2> QED
    BY <1>2, <1>3, <1>4, <2>1, <2>4, <2>6, <2>7 DEF DeletesAll, PodsOf
<1>7. CASE ListConfigMaps(p)
  <2>1. /\ pc[p] = "wait" /\ pc'[p] = "maps"
        /\ UNCHANGED <<doomed, current, deployments, pods>>
    BY <1>7 DEF ListConfigMaps, Go, TypeOK, cluster
  <2>2. PodsOf(current[p]) = {}
    BY <1>7, <2>1 DEF ListConfigMaps, Doomed, DeletesAll
  <2>3. PodsOf(current[p])' = {} /\ ~ HasDeployment(current[p])'
    BY <2>1, <2>2 DEF DeletesAll, HasDeployment, PodsOf
  <2> QED
    BY <1>2, <1>3, <1>4, <2>1, <2>3 DEF DeletesAll
<1>8. CASE DeleteConfigMap(p)
  <2>1. UNCHANGED <<pc, doomed, current, deployments, pods>>
    BY <1>8 DEF DeleteConfigMap
  <2>2. PICK c \in listed[p] : configMaps' = Deleted(c) /\ listed' = [listed EXCEPT ![p] = @ \ {c}]
    BY <1>8 DEF DeleteConfigMap
  <2>3. \A d \in configMaps' : d \in configMaps /\ d # c
    BY <2>2 DEF Deleted, SameName
  <2>4. listed'[p] = listed[p] \ {c}
    BY <2>2 DEF TypeOK
  <2>5. pc[p] = "userMaps" =>
          \A d \in configMaps' : SaysUser(d) /\ Matches(p, d.user) => d \in listed'[p]
    BY <2>3, <2>4 DEF DeletesAll
  <2>6. pc[p] # "ok"
    BY <1>4
  <2>7. /\ PodsOf(current[p])' = PodsOf(current[p])
        /\ HasDeployment(current[p])' = HasDeployment(current[p])
    BY <2>1 DEF PodsOf, HasDeployment
  <2> QED
    BY <1>2, <1>3, <1>4, <2>1, <2>5, <2>6, <2>7 DEF DeletesAll
<1>9. CASE NextNetwork(p)
  <2>1. /\ pc[p] = "maps" /\ pc'[p] = "down" /\ UNCHANGED <<deployments, pods>>
        /\ doomed'[p] = doomed[p] \ {current[p]}
    BY <1>9 DEF NextNetwork, Go, TypeOK, Doomed, cluster
  <2>2. \A d \in deployments \cup pods : d.orch # current[p]
    BY <2>1 DEF DeletesAll, HasDeployment, PodsOf
  <2>3. \A d \in deployments' \cup pods' : Matches(p, d.user) => d.orch \in doomed'[p]
    BY <2>1, <2>2 DEF DeletesAll
  <2> QED
    BY <1>2, <1>3, <1>4, <2>1, <2>3 DEF DeletesAll
<1>10. CASE NetworksDeleted(p)
  <2>1. pc[p] = "down" /\ doomed[p] = {} /\ UNCHANGED <<doomed, deployments, pods>>
    BY <1>10 DEF NetworksDeleted, cluster
  <2>2. pc'[p] = "user"
    BY <1>10, AfterDeletion DEF DeletesAll, Go, TypeOK
  <2>3. \A d \in deployments' \cup pods' : ~ Matches(p, d.user)
    BY <2>1 DEF DeletesAll
  <2> QED
    BY <1>2, <1>3, <1>4, <2>1, <2>2, <2>3 DEF DeletesAll
<1>11. CASE ListByUser(p)
  <2>1. /\ pc[p] = "user" /\ pc'[p] = "userMaps" /\ UNCHANGED <<doomed, deployments, pods, configMaps>>
        /\ listed'[p] = {c \in configMaps : SaysUser(c) /\ Matches(p, c.user)}
    BY <1>11 DEF ListByUser, Go, TypeOK, cluster
  <2>2. \A d \in deployments' \cup pods' : ~ Matches(p, d.user)
    BY <2>1 DEF DeletesAll
  <2> QED
    BY <1>2, <1>3, <1>4, <2>1, <2>2 DEF DeletesAll
<1>12. CASE Demolished(p)
  <2>1. /\ pc[p] = "userMaps" /\ pc'[p] = "ok" /\ listed[p] = {}
        /\ UNCHANGED <<doomed, deployments, pods, configMaps>>
    BY <1>12 DEF Demolished, Go, TypeOK, cluster
  <2>2. \A d \in deployments' \cup pods' : ~ Matches(p, d.user)
    BY <2>1 DEF DeletesAll
  <2>3. \A c \in configMaps' : SaysUser(c) => ~ Matches(p, c.user)
    BY <2>1 DEF DeletesAll
  <2> QED
    BY <1>2, <1>3, <1>4, <2>1, <2>2, <2>3 DEF DeletesAll
<1>13. CASE ReserveLock(p) \/ CreateLock(p) \/ ReserveNode(p) \/ CreateId(p) \/ TakeLock(p)
  BY <1>4, <1>13 DEF ReserveLock, CreateLock, ReserveNode, CreateId, TakeLock
<1>14. CASE Deploy(p) \/ Await(p) \/ CreationFails(p) \/ TestEnds(p)
  BY <1>4, <1>14 DEF Deploy, Await, CreationFails, TestEnds
<1>15. CASE ReleaseLock(p) \/ ReleaseNode(p) \/ ListNetworks(p)
  BY <1>4, <1>15 DEF ReleaseLock, ReleaseNode, ListNetworks
<1> QED
  BY <1>5, <1>6, <1>7, <1>8, <1>9, <1>10, <1>11, <1>12, <1>13, <1>14, <1>15, Zenon DEF Step

\* A demolition that finds its users over, and every deployment by an id or a pod, has
\* the networks of all their things to delete.
LEMMA QuietStarts ==
    ASSUME JobsAreCommands, TypeOK, Placed, Owned, NEW p \in Process, ListNetworks(p), Quiet(p)
    PROVE  DeletesAll(p)'
<1>1. Apart(p) /\ job' = job
  BY StepApart DEF Step, Apart
<1>2. /\ \A x : Matches(p, x)' <=> Matches(p, x)
      /\ \A q : User(q)' = User(q)
  BY <1>1 DEF Matches, User
<1>3. /\ pc'[p] = "down" /\ job[p].kind = "demolish" /\ UNCHANGED <<deployments, pods>>
      /\ doomed'[p] =
            {c.orch : c \in {c \in configMaps : SaysUser(c) /\ c.orch # NoOrch /\ Matches(p, c.user)}}
              \cup {d.orch : d \in {d \in pods : Matches(p, d.user)}}
  BY DEF ListNetworks, Go, TypeOK, cluster, Placed, Place
<1>4. \A q \in Process \ {p} : Matches(p, User(q)) => pc'[q] \in Over
  BY <1>1 DEF Quiet, Apart
<1>5. \A orch \in doomed'[p] : Matches(p, User(orch[1]))
  <2>1. \A c \in configMaps : c.orch # NoOrch => c.user = User(c.orch[1])
    BY DEF Owned, OwnMap
  <2>2. \A d \in pods : d.user = User(d.orch[1])
    BY DEF Owned, OwnPod
  <2> QED
    BY <1>3, <2>1, <2>2
<1>6. ASSUME NEW d \in deployments \cup pods, Matches(p, d.user) PROVE d.orch \in doomed'[p]
  <2>1. d.user = User(d.orch[1]) /\ d.orch \in Networks
    BY DEF Owned, OwnPod, TypeOK, Pod
  <2>2. CASE d \in pods
    BY <1>3, <1>6, <2>2
  <2>3. CASE PodsOf(d.orch) # {}
    <3>1. PICK e \in pods : e.orch = d.orch
      BY <2>3 DEF PodsOf
    <3>2. e.user = d.user
      BY <2>1, <3>1 DEF Owned, OwnPod
    <3> QED
      BY <1>3, <1>6, <3>1, <3>2
  <2>4. CASE \E c \in configMaps : c.orch = d.orch /\ SaysUser(c)
    <3>1. PICK c \in configMaps : c.orch = d.orch /\ SaysUser(c)
      BY <2>4
    <3>2. c.orch # NoOrch /\ c.user = d.user
      BY <2>1, <3>1, NoNetwork DEF Owned, OwnMap
    <3> QED
      BY <1>3, <1>6, <3>1, <3>2
  <2> QED
    BY <1>6, <2>2, <2>3, <2>4 DEF Quiet
<1> QED
  BY <1>1, <1>2, <1>3, <1>4, <1>5, <1>6 DEF DeletesAll

\* Every step keeps what quiet demolitions have done.
LEMMA DemolishesStep ==
    ASSUME JobsAreCommands, TypeOK, Placed, Owned, Demolishes, NEW p \in Process, Step(p)
    PROVE  Demolishes'
<1>1. Frames(p) /\ Apart(p) /\ job' = job
  BY StepFrames, StepApart DEF Apart
<1>2. SUFFICES ASSUME NEW r \in quiet' PROVE DeletesAll(r)'
  BY DEF Demolishes
<1>3. CASE r \in quiet /\ r = p
  BY <1>3, OwnKeep DEF Demolishes
<1>4. CASE r \in quiet /\ r # p
  <2>1. r \in Process /\ DeletesAll(r) /\ Place(r)
    BY <1>4 DEF Demolishes, Placed, TypeOK
  <2>2. ~ Matches(r, User(p))
    BY <1>1, <1>4, <2>1 DEF DeletesAll, Apart
  <2>3. \A d \in deployments' : d \in deployments \/ (d.user = User(d.orch[1]) /\ ~ Matches(r, d.user))
    <3>1. CASE Deploy(p)
      BY <2>2, <3>1, NewPodOwn, NetworkIs DEF Deploy
    <3>2. CASE DeleteDeployments(p)
      BY <3>2 DEF DeleteDeployments
    <3> QED
      BY <1>1, <3>1, <3>2 DEF Frames
  <2>4. \A d \in pods' :
              \/ d.user = User(d.orch[1]) /\ ~ Matches(r, d.user)
              \/ \E e \in pods : e.orch = d.orch /\ e.user = d.user
                                /\ (e.state = "terminating" => d.state = "terminating")
    <3>1. CASE Deploy(p)
      BY <2>2, <3>1, NewPodOwn, NetworkIs DEF Deploy
    <3>2. CASE DeletePods(p)
      <4>1. \A d \in Pod : Terminating(d).orch = d.orch /\ Terminating(d).user = d.user
                          /\ Terminating(d).state = "terminating"
        BY DEF Pod, Terminating
      <4>2. \A d \in pods' : \E e \in pods : d = e \/ d = Terminating(e)
        BY <3>2 DEF DeletePods
      <4> QED
        BY <4>1, <4>2 DEF TypeOK
    <3> QED
      BY <1>1, <3>1, <3>2 DEF Frames
  <2>5. \A c \in configMaps' : c \in configMaps \/ ~ Matches(r, c.user)
    <3>1. CASE CreateLock(p)
      BY <2>2, <3>1, CreatedIs DEF CreateLock, Lock
    <3>2. CASE CreateId(p)
      BY <2>2, <3>2, CreatedIs DEF CreateId, IdMap
    <3>3. CASE TakeLock(p)
      BY <2>2, <3>3, CreatedIs DEF TakeLock, Lock, DataMap
    <3>4. CASE DeleteConfigMap(p) \/ ReleaseLock(p)
      BY <3>4 DEF DeleteConfigMap, Deleted, ReleaseLock
    <3> QED
      BY <1>1, <3>1, <3>2, <3>3, <3>4 DEF Frames
  <2>6. /\ pc'[r] = pc[r] /\ doomed'[r] = doomed[r] /\ current'[r] = current[r] /\ listed'[r] = listed[r]
        /\ \A q \in Process : pc[q] \in Over => pc'[q] \in Over
    BY <1>1, <1>4, <2>1 DEF Apart
  <2> QED
    BY <1>1, <2>1, <2>3, <2>4, <2>5, <2>6, OthersKeep
<1>5. CASE r \notin quiet
  <2>1. ListNetworks(p)
    BY <1>1, <1>5 DEF Frames
  <2>2. r = p /\ Quiet(p)
    BY <1>5, <2>1 DEF ListNetworks
  <2> QED
    BY <2>1, <2>2, QuietStarts
<1> QED
  BY <1>3, <1>4, <1>5
-----------------------------------------------------------------------------
(* The cluster and the crashes.                                            *)

\* Where the pods come from that are there after a step of the cluster.
LEMMA ClusterPods ==
    ASSUME TypeOK, Cluster
    PROVE  /\ UNCHANGED <<procs, configMaps, deployments, claims, quiet, crashes>>
           /\ pods' \subseteq Pod
           /\ \A d \in pods' :
                 \/ d \in deployments
                 \/ \E e \in pods : /\ e.orch = d.orch /\ e.user = d.user /\ (OwnPod(e) => OwnPod(d))
                                   /\ (e.state = "terminating" => d.state = "terminating")
<1>1. PICK d \in pods \cup deployments : Replicate(d) \/ KubeletStart(d) \/ KubeletStop(d)
  BY DEF Cluster
<1>2. UNCHANGED <<procs, configMaps, deployments, claims, quiet, crashes>>
  BY DEF Cluster
<1>3. CASE Replicate(d)
  BY <1>2, <1>3 DEF Replicate, TypeOK
<1>4. CASE KubeletStart(d)
  <2> DEFINE started == [d EXCEPT !.state = "running"]
  <2>1. d \in Pod /\ d \in pods /\ d.state = "pending" /\ pods' = (pods \ {d}) \cup {started}
    BY <1>4 DEF KubeletStart, TypeOK
  <2>2. started \in Pod /\ started.orch = d.orch /\ started.user = d.user
        /\ (OwnPod(d) => OwnPod(started))
    BY <2>1 DEF Pod, OwnPod
  <2> HIDE DEF started
  <2> QED
    BY <1>2, <2>1, <2>2 DEF TypeOK
<1>5. CASE KubeletStop(d)
  BY <1>2, <1>5 DEF KubeletStop, TypeOK
<1> QED
  BY <1>1, <1>3, <1>4, <1>5

\* The cluster keeps the invariant.
LEMMA ClusterStep == ASSUME IInv, Cluster PROVE IInv'
<1> USE DEF IInv
<1>1. UNCHANGED <<job, pc, at, alive, doomed, current, listed, configMaps, deployments, claims, quiet>>
  BY ClusterPods DEF procs
<1>2. ConfigMap' = ConfigMap /\ Pod' = Pod /\ Claim' = Claim
  BY <1>1, SameJobs
<1>3. TypeOK'
  BY <1>1, <1>2, ClusterPods DEF TypeOK
<1>4. Placed'
  BY <1>1 DEF Placed, Place, Creates, Item
<1>5. Owned'
  <2>1. \A d \in pods' : OwnPod(d)
    BY ClusterPods DEF Owned
  <2> QED
    BY <1>1, <2>1, OwnedOf DEF Owned
<1>6. Claimed'
  BY <1>1 DEF Claimed, OwnClaim, NameOf, User
<1>7. Awaited'
  <2>1. SUFFICES ASSUME NEW q \in Process, pc[q] = "await", Item(q) \in Nodes
                 PROVE  \/ HasDeployment(Network(q))
                        \/ \A d \in pods' : d.orch = Network(q) => d.state = "terminating"
                        \/ \E r \in Process : pc[r] \in {"pods", "dead"} /\ current[r] = Network(q)
                                              /\ Network(q) \in doomed[r]
    BY <1>1 DEF Awaited, HasDeployment, PodsOf, Network, Item
  <2>2. CASE ~ HasDeployment(Network(q)) /\ \A d \in PodsOf(Network(q)) : d.state = "terminating"
    BY <2>2, ClusterPods DEF HasDeployment, PodsOf
  <2> QED
    BY <2>1, <2>2 DEF Awaited
<1>8. LockKept'
  BY <1>1 DEF LockKept, Held, LocksOf
<1>9. NodeKept'
  BY <1>1 DEF NodeKept, HasDeployment
<1>10. Demolishes'
  <2>1. SUFFICES ASSUME NEW r \in quiet PROVE DeletesAll(r)'
    BY <1>1 DEF Demolishes
  <2>2. r \in Process /\ DeletesAll(r) /\ Place(r)
    BY DEF Demolishes, Placed, TypeOK
  <2>3. \A d \in pods' :
              \/ \E e \in pods : e.orch = d.orch /\ e.user = d.user
                                /\ (e.state = "terminating" => d.state = "terminating")
              \/ \E e \in deployments : e.orch = d.orch /\ e.user = d.user
    BY ClusterPods
  <2> QED
    BY <1>1, <2>2, <2>3, OthersKeep
<1> QED
  BY <1>3, <1>4, <1>5, <1>6, <1>7, <1>8, <1>9, <1>10

\* A crash keeps the invariant.
LEMMA CrashStep == ASSUME IInv, NEW p \in Process, Crash(p) PROVE IInv'
<1> USE DEF IInv
<1>1. /\ UNCHANGED <<job, at, alive, doomed, current, listed, configMaps, deployments, pods, claims, quiet>>
      /\ pc[p] \notin Over /\ job[p].kind # "demolish"
      /\ pc'[p] = "dead" /\ \A q \in Process \ {p} : pc'[q] = pc[q]
      /\ pc' \in [Process -> Steps]
  BY DEF Crash, cluster, Go, TypeOK, Steps, Over
<1>2. ConfigMap' = ConfigMap /\ Pod' = Pod /\ Claim' = Claim
  BY <1>1, SameJobs
<1>3. TypeOK'
  BY <1>1, <1>2 DEF TypeOK
<1>4. Placed'
  <2>1. ASSUME NEW q \in Process PROVE Place(q)'
    <3>1. Place(q) /\ (pc'[q] = pc[q] \/ pc'[q] = "dead")
      BY <1>1 DEF Placed
    <3> QED
      BY <1>1, <3>1 DEF Place, Creates, Item
  <2> QED
    BY <2>1 DEF Placed
<1>5. Owned'
  BY <1>1, OwnedOf DEF Owned
<1>6. Claimed'
  <2>1. \A q \in Process : pc[q] \in Over => pc'[q] \in Over
    BY <1>1
  <2>2. ASSUME NEW c \in claims PROVE OwnClaim(c)'
    <3>1. OwnClaim(c)
      BY DEF Claimed
    <3>2. c.orch \in Networks => c.orch[1] \in Process
      BY DEF Networks
    <3> QED
      BY <1>1, <2>1, <3>1, <3>2 DEF OwnClaim, NameOf, User
  <2> QED
    BY <1>1, <2>2 DEF Claimed
<1>7. Awaited'
  <2>1. SUFFICES ASSUME NEW q \in Process, pc'[q] = "await", Item(q) \in Nodes
                 PROVE  \/ HasDeployment(Network(q))
                        \/ \A d \in PodsOf(Network(q)) : d.state = "terminating"
                        \/ \E r \in Process : pc'[r] \in {"pods", "dead"} /\ current[r] = Network(q)
                                              /\ Network(q) \in doomed[r]
    BY <1>1 DEF Awaited, HasDeployment, PodsOf, Network, Item
  <2>2. pc[q] = "await" /\ \A r \in Process : pc[r] \in {"pods", "dead"} => pc'[r] \in {"pods", "dead"}
    BY <1>1, <2>1
  <2> QED
    BY <2>1, <2>2 DEF Awaited
<1>8. LockKept'
  BY <1>1 DEF LockKept, Held, LocksOf
<1>9. NodeKept'
  BY <1>1 DEF NodeKept, HasDeployment
<1>10. Demolishes'
  <2>1. SUFFICES ASSUME NEW r \in quiet PROVE DeletesAll(r)'
    BY <1>1 DEF Demolishes
  <2>2. r \in Process /\ DeletesAll(r) /\ Place(r) /\ r # p
    BY <1>1 DEF Demolishes, Placed, TypeOK, DeletesAll
  <2>3. \A q \in Process : pc[q] \in Over => pc'[q] \in Over
    BY <1>1
  <2> QED
    BY <1>1, <2>2, <2>3, OthersKeep
<1> QED
  BY <1>3, <1>4, <1>5, <1>6, <1>7, <1>8, <1>9, <1>10

-----------------------------------------------------------------------------
(* The theorems.                                                           *)

\* Every run of commands keeps the invariant.
THEOREM Invariance == ASSUME JobsAreCommands PROVE Spec => []IInv
<1>1. Init => IInv
  <2> SUFFICES ASSUME Init PROVE IInv
    OBVIOUS
  <2>1. job \in [Process -> Jobs] /\ \A p \in Process : job[p] \in Jobs
    BY DEF Init
  <2>2. \A p \in Process : /\ pc[p] = First(job[p].kind) /\ at[p] = 1
                          /\ alive[p] = {} /\ doomed[p] = {} /\ listed[p] = {}
    BY DEF Init
  <2>3. \A p \in Process : job[p].kind \in {"test", "reserve", "release", "demolish"}
                          /\ pc[p] \in {"id", "reserve", "release", "demolish"}
    BY <2>1, <2>2 DEF JobsAreCommands, First
  <2>4. TypeOK
    <3>1. pc \in [Process -> Steps]
      BY <2>3 DEF Init, Steps
    <3> QED
      BY <3>1 DEF Init, TypeOK
  <2>5. Placed
    <3>1. ASSUME NEW p \in Process PROVE Place(p)
      <4>1. job[p].kind # "demolish" =>
              /\ at[p] <= Len(job[p].names) /\ at[p] \in DOMAIN job[p].names
              /\ job[p].kind = "test" => Item(p) \notin Nodes
        BY <2>1, <2>2 DEF JobsAreCommands, Item
      <4>2. pc[p] = First(job[p].kind) /\ alive[p] = {}
        BY <2>2
      <4>3. pc[p] = IF job[p].kind = "test" THEN "id" ELSE job[p].kind
        BY <4>2 DEF First
      <4> QED
        BY <2>3, <4>1, <4>2, <4>3 DEF Place, Creates
    <3> QED
      BY <3>1 DEF Placed
  <2>6. Owned /\ Claimed /\ LockKept /\ NodeKept /\ Demolishes
    BY DEF Init, Owned, Claimed, LockKept, NodeKept, Demolishes
  <2>7. Awaited
    BY <2>3 DEF Awaited
  <2> QED
    BY <2>4, <2>5, <2>6, <2>7 DEF IInv
<1>2. IInv /\ [Next]_vars => IInv'
  <2> SUFFICES ASSUME IInv, [Next]_vars PROVE IInv'
    OBVIOUS
  <2>1. CASE Cluster
    BY <2>1, ClusterStep
  <2>2. ASSUME NEW p \in Process, Step(p) PROVE IInv'
    BY <2>2, TypeStep, PlacedStep, OwnedStep, ClaimedStep, AwaitedStep, LockKeptStep,
       NodeKeptStep, DemolishesStep DEF IInv
  <2>3. ASSUME NEW p \in Process, Crash(p) PROVE IInv'
    BY <2>3, CrashStep
  <2>4. CASE UNCHANGED vars
    <3>1. UNCHANGED <<job, pc, at, alive, doomed, current, listed, configMaps, deployments, pods, claims, quiet>>
      BY <2>4 DEF vars, procs, cluster
    <3>2. ConfigMap' = ConfigMap /\ Pod' = Pod /\ Claim' = Claim
      BY <3>1, SameJobs
    <3>3. TypeOK'
      BY <3>1, <3>2 DEF IInv, TypeOK
    <3>4. Placed'
      BY <3>1 DEF IInv, Placed, Place, Creates, Item
    <3>5. Owned'
      BY <3>1, OwnedOf DEF IInv, Owned
    <3>6. Claimed'
      BY <3>1 DEF IInv, Claimed, OwnClaim, NameOf, User
    <3>7. Awaited'
      BY <3>1 DEF IInv, Awaited, HasDeployment, PodsOf, Network, Item
    <3>8. LockKept' /\ NodeKept'
      BY <3>1 DEF IInv, LockKept, NodeKept, Held, LocksOf, HasDeployment
    <3>9. Demolishes'
      BY <3>1 DEF IInv, Demolishes, DeletesAll, Matches, User, HasDeployment, PodsOf
    <3> QED
      BY <3>3, <3>4, <3>5, <3>6, <3>7, <3>8, <3>9 DEF IInv
  <2> QED
    BY <2>1, <2>2, <2>3, <2>4 DEF Next
<1> QED
  BY <1>1, <1>2, PTL DEF Spec

\* What retina reserve created for a user stays until somebody releases it, by name or by user,
\* whatever the other commands and the tests do and wherever they crash.
THEOREM ReservationsStay == ASSUME JobsAreCommands PROVE Spec => []CreatedIsKept
<1>1. IInv => CreatedIsKept
  <2> SUFFICES ASSUME IInv, NEW c \in claims, c.safe,
                      c.name \in Nodes => c.orch \in alive[c.orch[1]] \ doomed[c.orch[1]],
                      c.name \notin Nodes => c.orch = NoOrch
               PROVE  Held(c)
    BY DEF CreatedIsKept
  <2>1. CASE c.name \notin Nodes
    BY <2>1 DEF IInv, LockKept
  <2>2. CASE c.name \in Nodes
    <3>1. PICK d \in deployments : d.orch = c.orch
      BY <2>2 DEF IInv, NodeKept, HasDeployment
    <3>2. d.node = NameOf(d.orch)
      BY DEF IInv, Owned, OwnPod
    <3>3. c.name = NameOf(c.orch)
      BY <2>2 DEF IInv, Claimed, OwnClaim
    <3> QED
      BY <2>2, <3>1, <3>2, <3>3 DEF Held
  <2> QED
    BY <2>1, <2>2
<1> QED
  BY <1>1, Invariance, PTL

\* A demolition that found the processes of its users over leaves nothing of theirs.
THEOREM DemolitionFrees == ASSUME JobsAreCommands PROVE Spec => []DemolishedMeansFree
<1>1. IInv => DemolishedMeansFree
  BY DEF IInv, Demolishes, DeletesAll, DemolishedMeansFree
<1> QED
  BY <1>1, Invariance, PTL
=============================================================================
