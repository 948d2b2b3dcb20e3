------------------------------ MODULE CoreDriver ------------------------------
(***************************************************************************)
(* The drivers of the core network (agent/drivers/fivegc.py,               *)
(* amarisoft_5gc.py and open5gs_5gc.py): the subscribers, the programs, and *)
(* the iperf servers that the tests start in parallel.                     *)
(*                                                                         *)
(* The test adds the UEs, starts the core, runs its traffic and stops the  *)
(* core; after a Stop that failed it tries no other start (e2e/tests/steps). *)
(***************************************************************************)
EXTENDS Naturals, FiniteSets

CONSTANTS
    CoreKinds,   \* subset of {"mme", "ims", "open5gs"}
    Ue,          \* the UEs
    Traffic,     \* the threads that run iperf
    MaxRounds,   \* bound: starts of the core
    MaxServers,  \* bound: iperf servers
    MaxFaults    \* bound: calls that time out, programs that die

VARIABLES
    core,      \* the kind of core
    round,     \* starts so far
    phase,     \* of the test: "setup", "running", "ending", "failed"
    call,      \* the Start or Stop that runs, and the program it is at
    api,       \* testbed_defaults.api_port
    prog,      \* each program: whether it runs, its port, and whom its websocket reached
    metrics,   \* _metrics of each program: of which program, in which round
    added,     \* the UEs of this round
    address,   \* the subnet of each subscriber in the data base
    offset,    \* _ue_ip_offset
    services,  \* _iperf_process_dict and _iperf_log_dict: port -> server
    servers,   \* the iperf servers: port, whether it runs, whether its log is complete
    iperf,     \* what each thread of the traffic does
    found,     \* the services that the last Stop found
    faults,
    clean      \* the core has started in this round, and nothing has crashed

coreVars == <<core, round, phase, call, api, prog, metrics, added, address, offset,
              services, servers, iperf, found, faults, clean>>

Off == [up |-> FALSE, port |-> 0, ws |-> "none"]
NoCall == [op |-> "none", step |-> "none", at |-> "none"]
Waits == [step |-> "idle", port |-> 0, id |-> 0]

\* Amarisoft5gc is two programs when it has an IMS.
Programs == CASE core = "mme" -> {"mme"} [] core = "ims" -> {"mme", "ims"} [] OTHER -> {"open5gs"}

Init ==
    /\ core \in CoreKinds
    /\ round = 1 /\ phase = "setup" /\ call = NoCall
    /\ api = 1 /\ prog = [p \in {"mme", "ims", "open5gs"} |-> Off]
    /\ metrics = [p \in {"mme", "ims", "open5gs"} |-> <<"none", 0>>]
    /\ added = {} /\ address = <<>> /\ offset = 0
    /\ services = <<>> /\ servers = <<>> /\ iperf = [t \in Traffic |-> Waits] /\ found = 0
    /\ faults = 0 /\ clean = FALSE

Ports == 1 .. Cardinality(Traffic) + 1
InUse(n) == \E i \in DOMAIN servers : servers[i].port = n /\ servers[i].up
Calm == \A t \in Traffic : iperf[t].step = "idle"

Fault == faults < MaxFaults /\ faults' = faults + 1
NoFault == UNCHANGED faults

At(step, p) == call' = [call EXCEPT !.step = step, !.at = p]
Done(next) == call' = NoCall /\ phase' = next

\* After a Start that failed the test stops the core; after a Stop that failed
\* it only stops it again.
Raise ==
    /\ Done(IF call.op = "Start" THEN "ending" ELSE "failed")
    /\ clean' = (clean /\ call.op = "Stop")

trafficVars == <<services, servers, iperf>>
ueVars == <<added, address, offset>>

-----------------------------------------------------------------------------
(* AddUESubscriber.                                                        *)

\* Variant for the mutation runs: a subscriber that is there takes no address.
OffsetOfNew(u) == IF u \in DOMAIN address THEN offset ELSE offset + 1

\* "For each UE, we assign it an IP in another subnet".
NextOffset(u) == offset + 1

AddUESubscriber(u) ==
    /\ phase = "setup" /\ call = NoCall /\ u \notin added
    /\ added' = added \cup {u}
    /\ IF core = "open5gs"
       THEN /\ address' = [v \in DOMAIN address \cup {u} |-> IF v = u THEN offset ELSE address[v]]
            /\ offset' = NextOffset(u)
       ELSE UNCHANGED <<address, offset>>
    /\ UNCHANGED <<core, round, phase, call, api, prog, metrics, trafficVars, found, faults, clean>>

-----------------------------------------------------------------------------
(* Start and Stop.                                                         *)

\* Every program is stopped before it is started; Stop begins with the IMS.
CallStart ==
    /\ phase = "setup" /\ call = NoCall /\ added # {} /\ round <= MaxRounds
    /\ call' = [op |-> "Start", step |-> IF core = "open5gs" THEN "services" ELSE "stop",
                at |-> IF core = "open5gs" THEN core ELSE "mme"]
    /\ clean' = TRUE
    /\ UNCHANGED <<core, round, phase, api, prog, metrics, ueVars, trafficVars, found, faults>>

CallStop ==
    /\ phase \in {"running", "ending", "failed"} /\ call = NoCall /\ Calm
    /\ call' = [op |-> "Stop", step |-> IF core = "open5gs" THEN "services" ELSE "stop",
                at |-> CASE core = "ims" -> "ims" [] OTHER -> core]
    /\ found' = Cardinality(DOMAIN services)
    /\ UNCHANGED <<core, round, phase, api, prog, metrics, ueVars, trafficVars, faults, clean>>

\* Variant for the mutation runs: a service goes when its log has been read.
ReadFirst(n) == IF servers[services[n]].complete THEN {n} ELSE {}

\* StopIPerfService takes the service out before it looks at its log.
Popped(n) == {n}

Without(S) == [n \in DOMAIN services \ S |-> services[n]]
EndServer(i) == [servers EXCEPT ![i].up = FALSE]

\* FiveGCDriver.Stop ends the services one by one: the first whose log is not
\* valid raises.  (Amarisoft5gc has a Stop of its own, which leaves them.)
StopServices ==
    /\ call.step = "services"
    /\ \/ /\ services = <<>> /\ At("stop", core)
          /\ UNCHANGED <<phase, services, servers, clean>>
       \/ \E n \in DOMAIN services :
            /\ services' = Without(Popped(n)) /\ servers' = EndServer(services[n])
            /\ IF servers[services[n]].complete THEN UNCHANGED <<call, phase, clean>> ELSE Raise
    /\ UNCHANGED <<core, round, api, prog, metrics, ueVars, iperf, found, faults>>

\* The program that answers the statistics of p.
Answers(p) == prog[p].ws

\* With a connection: the statistics, quit; then stop_sut.
StopProgram ==
    /\ call.step = "stop"
    /\ LET p == call.at
       IN  \/ /\ NoFault /\ UNCHANGED clean
              /\ metrics' = IF Answers(p) = "none" THEN metrics
                            ELSE [metrics EXCEPT ![p] = <<Answers(p), round>>]
              /\ prog' = [q \in DOMAIN prog |->
                            IF q = p THEN Off
                            ELSE IF q = Answers(p) THEN [prog[q] EXCEPT !.up = FALSE, !.port = 0]
                            ELSE prog[q]]
              /\ IF call.op = "Start" THEN At("launch", p) /\ UNCHANGED <<phase, added, round>>
                 ELSE IF p = "ims" THEN At("stop", "mme") /\ UNCHANGED <<phase, added, round>>
                 ELSE Done("setup") /\ added' = {} /\ round' = round + 1
           \/ prog[p].ws # "none" /\ Fault /\ Raise /\ UNCHANGED <<metrics, prog, added, round>>
    /\ UNCHANGED <<core, api, address, offset, trafficVars, found>>

\* A port that another program has is not free.
Bound(n) == \E q \in DOMAIN prog : prog[q].port = n

Launch ==
    /\ call.step = "launch"
    /\ LET p == call.at
       IN  /\ prog' = [prog EXCEPT ![p] = [up |-> TRUE, port |-> IF p = "open5gs" \/ Bound(api) THEN 0 ELSE api,
                                           ws |-> "none"]]
           /\ offset' = IF p = "open5gs" THEN 0 ELSE offset
           /\ At(IF p = "open5gs" THEN "udr" ELSE "license", p)
    /\ UNCHANGED <<core, round, phase, api, metrics, added, address, trafficVars, found, faults, clean>>

\* Open5gs is up when its UDR listens, until the time is up.
AwaitUdr ==
    /\ call.step = "udr"
    /\ \/ prog["open5gs"].up /\ Done("running") /\ NoFault /\ UNCHANGED clean
       \/ prog["open5gs"].up /\ Fault /\ Raise
       \/ ~prog["open5gs"].up /\ Raise /\ NoFault
    /\ UNCHANGED <<core, round, api, prog, metrics, ueVars, trafficVars, found>>

\* A licence in use starts the program again, until the time is up.
License ==
    /\ call.step = "license"
    /\ \/ At("connect", call.at) /\ NoFault /\ UNCHANGED <<phase, clean>>
       \/ Fault /\ At("stop", call.at) /\ UNCHANGED <<phase, clean>>
       \/ Fault /\ Raise
    /\ UNCHANGED <<core, round, api, prog, metrics, ueVars, trafficVars, found>>

\* Variant for the mutation runs: the IMS takes the port of the MME.
SamePort == api

\* The next program has the next port.
NextPort == api + 1

\* Whoever listens at the port answers.  A program that has died meanwhile is
\* "Process has died".
Connect ==
    /\ call.step = "connect"
    /\ LET p == call.at
           listeners == {q \in DOMAIN prog : prog[q].port = api}
       IN  IF listeners = {}
           THEN Raise /\ UNCHANGED <<api, prog>>
           ELSE /\ prog' = [prog EXCEPT ![p].ws = CHOOSE q \in listeners : TRUE]
                /\ IF ~prog[p].up THEN Raise /\ UNCHANGED api
                   ELSE IF core = "ims" /\ p = "mme" THEN At("stop", "ims") /\ api' = NextPort /\ UNCHANGED <<phase, clean>>
                   ELSE Done("running") /\ UNCHANGED <<api, clean>>
    /\ UNCHANGED <<core, round, metrics, ueVars, trafficVars, found, faults>>

\* A program crashes: whoever was connected to it is no longer.
Dies(p) ==
    /\ prog[p].up /\ Fault
    /\ clean' = FALSE
    /\ prog' = [q \in DOMAIN prog |-> IF q = p THEN [prog[q] EXCEPT !.up = FALSE, !.port = 0, !.ws = "none"]
                                      ELSE IF prog[q].ws = p THEN [prog[q] EXCEPT !.ws = "none"] ELSE prog[q]]
    /\ UNCHANGED <<core, round, phase, call, api, metrics, ueVars, trafficVars, found>>

-----------------------------------------------------------------------------
(* StartIPerfService and StopIPerfService, by threads of the test.         *)

Go(t, step, n, i) == iperf' = [iperf EXCEPT ![t] = [step |-> step, port |-> n, id |-> i]]
othersOfTraffic == <<core, round, phase, call, api, prog, metrics, ueVars, found, faults, clean>>

\* _get_free_port.
FreePort(t) ==
    /\ phase = "running" /\ call = NoCall /\ iperf[t].step = "idle"
    /\ Cardinality(DOMAIN servers) < MaxServers
    /\ \E n \in Ports : ~InUse(n) /\ (\A m \in 1 .. n - 1 : InUse(m)) /\ Go(t, "clean", n, 0)
    /\ UNCHANGED <<services, servers, othersOfTraffic>>

\* A service of a former server at this port is stopped first, and its bad log
\* fails this call.
Clean(t) ==
    /\ iperf[t].step = "clean"
    /\ LET n == iperf[t].port
       IN  IF n \notin DOMAIN services THEN Go(t, "create", n, 0) /\ UNCHANGED <<services, servers>>
           ELSE /\ services' = Without({n}) /\ servers' = EndServer(services[n])
                /\ IF servers[services[n]].complete THEN Go(t, "create", n, 0)
                   ELSE iperf' = [iperf EXCEPT ![t] = Waits]
    /\ UNCHANGED othersOfTraffic

\* A server whose port is taken meanwhile ends at once.
Create(t) ==
    /\ iperf[t].step = "create"
    /\ LET i == Cardinality(DOMAIN servers) + 1
           n == iperf[t].port
       IN  /\ servers' = [j \in 1 .. i |-> IF j < i THEN servers[j] ELSE [port |-> n, up |-> ~InUse(n), complete |-> FALSE]]
           /\ Go(t, "put", n, i)
    /\ UNCHANGED <<services, othersOfTraffic>>

Put(t) ==
    /\ iperf[t].step = "put"
    /\ LET n == iperf[t].port
       IN  /\ services' = [m \in DOMAIN services \cup {n} |-> IF m = n THEN iperf[t].id ELSE services[m]]
           /\ Go(t, "serving", n, iperf[t].id)
    /\ UNCHANGED <<servers, othersOfTraffic>>

\* The client has finished (--one-off), or it never came.
Serve(i) ==
    /\ servers[i].up
    /\ servers' = [servers EXCEPT ![i].up = FALSE, ![i].complete = TRUE]
    /\ UNCHANGED <<services, iperf, othersOfTraffic>>

\* The results, or "IPerf Data Invalid"; a traffic whose client failed does not
\* ask for them.
StopIPerf(t) ==
    /\ iperf[t].step = "serving"
    /\ LET n == iperf[t].port
       IN  IF n \in DOMAIN services
           THEN services' = Without({n}) /\ servers' = EndServer(services[n])
           ELSE UNCHANGED <<services, servers>>
    /\ iperf' = [iperf EXCEPT ![t] = Waits]
    /\ UNCHANGED othersOfTraffic

GiveUp(t) ==
    /\ iperf[t].step = "serving"
    /\ iperf' = [iperf EXCEPT ![t] = Waits]
    /\ UNCHANGED <<services, servers, othersOfTraffic>>

-----------------------------------------------------------------------------
Next ==
    \/ \E u \in Ue : AddUESubscriber(u)
    \/ CallStart \/ CallStop \/ StopServices \/ StopProgram \/ Launch \/ AwaitUdr \/ License \/ Connect
    \/ \E p \in Programs : Dies(p)
    \/ \E t \in Traffic : FreePort(t) \/ Clean(t) \/ Create(t) \/ Put(t) \/ StopIPerf(t) \/ GiveUp(t)
    \/ \E i \in DOMAIN servers : Serve(i)

Spec == Init /\ [][Next]_coreVars

-----------------------------------------------------------------------------
(* Properties.                                                             *)

\* The metrics that a test reads after its Stop are those of its own core, of
\* each program the ones it counted itself: not those of a former test, nor of
\* the program next door, when the core started and nothing crashed (else the test fails).
MetricsAreOwn ==
    phase = "setup" /\ call = NoCall /\ clean =>
        \A p \in Programs \ {"open5gs"} : metrics[p] = <<p, round - 1>>

\* "For each UE, we assign it an IP in another subnet" (open5gs_5gc.py): the UEs
\* of a test never share one, whatever former tests left in the data base.
AddressesAreOwn ==
    core = "open5gs" => \A u, v \in added : u # v => address[u] # address[v]

\* A Stop that fails has done part of its work: fewer iperf services are left
\* than it found, so that Stop gets through after so many calls at most.
FailedStopShrinks ==
    core = "open5gs" /\ phase = "failed" /\ call = NoCall => Cardinality(DOMAIN services) < found
=============================================================================
