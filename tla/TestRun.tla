------------------------------- MODULE TestRun -------------------------------
(***************************************************************************)
(* One test against its agents, from the first fixture to the verdict:     *)
(* the fixtures of the launcher (launcher/public.py, artifacts.py), the    *)
(* clients and their keep-alive threads (client/), the steps of the test   *)
(* templates (e2e/tests) and the criteria that judge it.                   *)
(*                                                                         *)
(* The test is one thread: `stage' says in which block of which function   *)
(* it is, and `todo' what is left of that block, one call to an agent      *)
(* after the other.  Beside it run the keep-alive threads, and the agents  *)
(* with the software under test (SUT), which may fail at any time.         *)
(***************************************************************************)
EXTENDS Criteria

CONSTANT
    Templates     \* the tests: [test, fixtures, ims, attaches, criteria, seen, faults];
                  \* `seen' is what the captures show of each bearer, and
                  \* `faults' bounds what goes wrong around the test

VARIABLES
    template,     \* the test of this behaviour
    up,           \* the agents whose server answers
    sut,          \* the SUT of each agent: its last run
    client, made, \* the clients, and the fixtures that returned their stubs
    thread,       \* the keep-alive thread of each client
    stage, todo,  \* where the test is
    exc,          \* the exception that it has raised
    messages,     \* the step in progress has collected error messages
    download,     \* retina_data.download_artifacts
    failures,     \* criteria that were not met, once validate() has judged
    logged,       \* an error was logged during the teardown
    kept,         \* agents whose artifacts are in the report
    faults        \* what has gone wrong so far

agentVars  == <<up, sut>>
clientVars == <<client, made, thread>>
testVars   == <<stage, todo, exc, messages, download, failures, logged, kept>>
vars == <<template, agentVars, clientVars, testVars, faults>>

-----------------------------------------------------------------------------
(* The agents of a template.  A fixture has one kind of agents; a `late'   *)
(* one is a factory that the test function calls itself.                   *)

For(as, Block(_)) == FlattenSeq([i \in DOMAIN as |-> Block(as[i])])
InOrder(Block(_)) ==
    For(template.fixtures, LAMBDA f : IF f.late THEN <<>> ELSE Block(f))
    \o For(template.fixtures, LAMBDA f : IF f.late THEN Block(f) ELSE <<>>)
Agents == UNION {ToSet(template.fixtures[i].agents) : i \in DOMAIN template.fixtures}
Of(kind) == For(template.fixtures, LAMBDA f : IF f.kind = kind THEN f.agents ELSE <<>>)

\* What is known of a run: where it is, its exit code, and the errors, warnings
\* and KOs that its log and its captures show.
NotRun == [at |-> "none", code |-> 0, errors |-> 0, warnings |-> 0, kos |-> 0]
NewRun == [NotRun EXCEPT !.at = "on"]
Crashed(run) == [run EXCEPT !.at = "dead", !.code = 1]

\* Stop of an agent: a run that is over keeps its result.
Stopped(run) == IF run.at = "none" THEN run ELSE [run EXCEPT !.at = "ended"]

-----------------------------------------------------------------------------
(* The calls of each block.                                                *)

Call(what, a) == [do |-> what, to |-> a]
Calls(what, as) == [i \in DOMAIN as |-> Call(what, as[i])]
CallsTo(whats, a) == [i \in DOMAIN whats |-> Call(whats[i], a)]
Check == <<Call("Check", "test")>>

\* A factory makes its clients, gets the version, pushes the configuration, and
\* registers the criteria.
Factory(f) == For(f.agents, LAMBDA a : CallsTo(<<"Connect", "Push">>, a)) \o <<Call("Made", f.kind)>>
Fixtures == InOrder(Factory)

StartAndGet(a) == <<Call("Start", a), Call("Get", a)>>

StartNetwork ==
    For(Of("ue"), LAMBDA a : <<Call("Get", a)>> \o Calls("Add", Of("fivegc")))
    \o For(Of("fivegc"), StartAndGet)
    \o For(Of("ric"), StartAndGet)
    \o Calls("Get", Of("gnb")) \o For(Of("gnb"), StartAndGet)
    \o For(Of("cu"), LAMBDA a : <<Call("Get", a), Call("Start", a)>>)
    \o Calls("Get", Of("cu_cp")) \o Calls("Start", Of("cu_cp"))
    \o Calls("Start", Of("cu_up"))
    \o Calls("Start", Of("du"))

\* mocn starts two cores on its own, test_mode has no UE.
StartTwoCores ==
    For(Of("fivegc"), StartAndGet) \o Calls("Get", Of("ue")) \o For(Of("gnb"), StartAndGet)
    \o Calls("Get", Of("ue")) \o Calls("Add", Of("fivegc"))
StartTestMode ==
    For(Of("fivegc"), StartAndGet) \o Calls("Get", Of("gnb")) \o For(Of("gnb"), StartAndGet)

UeStart == Calls("Get", Of("fivegc")) \o Calls("Start", Of("ue"))
StartAndAttach == Calls("Get", Of("gnb")) \o UeStart \o Calls("Attach", Of("ue"))
Pings == For(Of("fivegc"), LAMBDA c : For(Of("ue"), LAMBDA a : <<Call("Ping", a), Call("Ping", c)>>)) \o Check

\* ping: the UE is stopped and attached again between two pings.
Attaches ==
    FlattenSeq([i \in 1..template.attaches |->
        (IF i = 1 THEN <<>> ELSE Calls("StopUe", Of("ue")) \o Check) \o StartAndAttach \o Pings])
Paging == StartAndAttach \o Pings \o Calls("Ping", Of("fivegc")) \o Check
Simulator ==
    Calls("Get", Of("gnb")) \o Calls("Get", Of("du")) \o UeStart \o Calls("Watch", Of("ue"))
Mocn == UeStart \o Calls("Wait", Of("ue")) \o Pings
IPerf ==
    StartAndAttach \o Calls("Xapp", Of("ric")) \o Calls("Xapp", Of("ric"))
    \o Calls("IPerf", Of("ue")) \o Calls("Xapp", Of("ric")) \o Calls("Xapp", Of("ric"))

NetworkOf(test) ==
    CASE test = "mocn"      -> StartTwoCores
      [] test = "test_mode" -> StartTestMode
      [] OTHER              -> StartNetwork
TrafficOf(test) ==
    CASE test = "ping"         -> Attaches
      [] test = "paging"       -> Paging
      [] test = "ue_simulator" -> Simulator
      [] test = "mocn"         -> Mocn
      [] test = "iperf"        -> IPerf
      [] test = "test_mode"    -> <<>>

Stops ==
    LET order == <<"ue", "gnb", "du", "cu", "cu_up", "cu_cp", "fivegc", "ric">>
    IN For(order, LAMBDA k : Calls("Stop", Of(k))) \o Check

\* The finalizers run in the opposite order of the fixtures.
EndStubs ==
    For(Reverse(template.fixtures), LAMBDA f : IF f.kind \in made THEN Calls("End", f.agents) ELSE <<>>)

\* The calls to each client that is open, in the order of the fixtures.
ForOpen(whats) ==
    InOrder(LAMBDA f : For(f.agents, LAMBDA a : IF client[a] = "open" THEN CallsTo(whats, a) ELSE <<>>))

\* Variant for the mutation runs: the agent is told to end first.
ShutdownFirst == <<"Shutdown", "Tell", "Join">>

\* close_client ends every keep-alive thread before the agent.
CloseClient == <<"Tell", "Join", "Shutdown">>

Artifacts == IF exc # "none" \/ download THEN ForOpen(<<"Id">>) \o ForOpen(<<"Fetch">>) ELSE <<>>

-----------------------------------------------------------------------------
(* The blocks.                                                             *)

Script(s) ==
    CASE s = "config"   -> ForOpen(<<"Push">>)
      [] s = "network"  -> NetworkOf(template.test)
      [] s = "traffic"  -> TrafficOf(template.test)
      [] s = "ims"      -> IF template.ims = "" THEN <<>> ELSE Calls("Ims", Of("fivegc"))
      [] s = "stop"     -> Stops
      [] s = "validate" -> [i \in DOMAIN template.criteria |-> Call("Judge", i)] \o <<Call("Verdict", 0)>>
      [] s = "traced"   -> IF template.test = "iperf" /\ exc = "none" THEN Calls("Traced", Of("gnb")) ELSE <<>>
      [] s = "teardown" -> EndStubs
      [] s = "artifacts" -> Artifacts
      [] s = "close"    -> ForOpen(CloseClient)
      [] s = "done"     -> <<>>

AfterBlock == [setup |-> "config", config |-> "network", network |-> "traffic", traffic |-> "ims",
    ims |-> "stop", stop |-> "validate", validate |-> "traced", traced |-> "teardown",
    teardown |-> "artifacts", artifacts |-> "close", close |-> "done"]

\* Where an exception leaves to: the `finally' of the test, or its end.  The
\* traffic may fail when the test expects no registration in IMS.
Awaited(e) == stage = "traffic" /\ e = "Failed" /\ template.ims \notin {"", "enabled"}
Handler(e) ==
    IF Awaited(e) THEN "ims"
    ELSE CASE stage \in {"network", "traffic", "ims"} -> "stop"
           [] stage = "stop"                          -> "validate"
           [] OTHER                                   -> "teardown"

Init ==
    /\ template \in Templates
    /\ up = Agents
    /\ sut = [a \in Agents |-> NotRun]
    /\ client = [a \in Agents |-> "none"] /\ made = {}
    /\ thread = [a \in Agents |-> "off"]
    /\ stage = "setup" /\ todo = Fixtures
    /\ exc = "none" /\ messages = FALSE /\ download = FALSE
    /\ failures = {} /\ logged = FALSE /\ kept = {} /\ faults = 0

-----------------------------------------------------------------------------
(* How a call ends.                                                        *)

Fault == faults < template.faults /\ faults' = faults + 1

Now(what) == todo # <<>> /\ todo[1].do \in what
To == todo[1].to

GoOn == todo' = Tail(todo) /\ UNCHANGED <<stage, exc>>
Leave(e) ==
    /\ stage' = Handler(e) /\ todo' = Script(Handler(e))
    /\ exc' = IF Awaited(e) THEN exc ELSE e

\* The end of a block.
EndBlock ==
    /\ todo = <<>> /\ stage # "done"
    /\ stage' = AfterBlock[stage] /\ todo' = Script(AfterBlock[stage])
    /\ download' = (download \/ stage = "config")
    /\ UNCHANGED <<template, agentVars, clientVars, exc, messages, failures, logged, kept, faults>>

\* What Start and Stop do to the SUT.
After(what, run) ==
    CASE what = "Start"                  -> NewRun
      [] what \in {"Stop", "StopUe", "End"} -> Stopped(run)
      [] OTHER                           -> run

\* A call raises because the agent is gone or the call failed, before or after
\* it was carried out.
CallFails ==
    \/ To \notin up /\ UNCHANGED <<sut, faults>>
    \/ /\ To \in up /\ Fault
       /\ \/ UNCHANGED sut
          \/ sut' = [sut EXCEPT ![To] = After(todo[1].do, @)]

-----------------------------------------------------------------------------
(* Fixtures and configuration.                                             *)

\* create_client waits for the agent and starts the keep-alive thread.
Connect ==
    /\ Now({"Connect"})
    /\ \/ /\ To \in up
          /\ client' = [client EXCEPT ![To] = "open"]
          /\ thread' = [thread EXCEPT ![To] = "on"]
          /\ GoOn /\ UNCHANGED <<sut, faults>>
       \/ CallFails /\ Leave("Error") /\ UNCHANGED <<client, thread>>
    /\ UNCHANGED <<template, up, made, messages, download, failures, logged, kept>>

MadeFixture ==
    /\ Now({"Made"})
    /\ made' = made \cup {To}
    /\ GoOn
    /\ UNCHANGED <<template, agentVars, client, thread, messages, download, failures, logged, kept, faults>>

-----------------------------------------------------------------------------
(* The steps of a test.                                                    *)

Alone == {"Push", "Get", "Add", "Xapp"}
OnAir == {"Attach", "Wait", "IPerf", "Ims", "Traced"}

\* What a step raises: pytest's Failed, or the error of the call.
Raised(what) ==
    CASE what \in {"Attach", "IPerf"}           -> {"Failed"}
      [] what \in {"Start", "Ims", "Traced"}    -> {"Failed", "Error"}
      [] OTHER                                  -> {"Error"}

\* The radio needs every SUT; without IMS the UE is not expected to attach.
OffAir ==
    \/ \E a \in Agents : sut[a].at \in {"dead", "gone"}
    \/ template.ims = "disabled" /\ stage = "traffic"

StepAnswered ==
    /\ Now({"Start"} \cup Alone \cup OnAir) /\ To \in up
    /\ sut' = [sut EXCEPT ![To] = After(todo[1].do, @)]
    /\ GoOn
    /\ UNCHANGED <<template, up, clientVars, messages, download, failures, logged, kept, faults>>

\* A SUT that does not start may have died.
StepRaises ==
    /\ Now({"Start"} \cup Alone \cup OnAir)
    /\ \/ CallFails
       \/ To \in up /\ Now(OnAir) /\ OffAir /\ UNCHANGED <<sut, faults>>
       \/ To \in up /\ Now({"Start"}) /\ Fault /\ sut' = [sut EXCEPT ![To] = Crashed(NewRun)]
    /\ \E e \in Raised(todo[1].do) : Leave(e)
    /\ UNCHANGED <<template, up, clientVars, messages, download, failures, logged, kept>>

\* Both ends ping at the same time; a lost packet is looked at when all ended.
Ping ==
    /\ Now({"Ping"})
    /\ \/ To \in up /\ GoOn /\ UNCHANGED <<sut, messages, faults>>
       \/ /\ To \in up /\ messages' = TRUE
          /\ IF OffAir THEN UNCHANGED faults ELSE Fault
          /\ GoOn /\ UNCHANGED sut
       \/ CallFails /\ Leave("Error") /\ UNCHANGED messages
    /\ UNCHANGED <<template, up, clientVars, download, failures, logged, kept>>

\* IsRunning until the simulator ends; an error ends the wait as well.
Watch ==
    /\ Now({"Watch"})
    /\ \/ To \in up /\ sut[To].at # "on" /\ UNCHANGED <<sut, faults>>
       \/ CallFails
    /\ GoOn
    /\ UNCHANGED <<template, up, clientVars, messages, download, failures, logged, kept>>

\* Stop at the end of the test counts no warnings, the one between two attaches does.
Bad(what, run) == run.code # 0 \/ run.errors > 0 \/ (what = "StopUe" /\ run.warnings > 0)

StopAnswered ==
    /\ Now({"Stop", "StopUe"}) /\ To \in up
    /\ sut' = [sut EXCEPT ![To] = Stopped(@)]
    /\ messages' = (messages \/ Bad(todo[1].do, sut[To]))
    /\ download' = (download \/ Bad(todo[1].do, sut[To]))
    /\ GoOn
    /\ UNCHANGED <<template, up, clientVars, failures, logged, kept, faults>>

\* Nobody hears of it.
StopRaises ==
    /\ Now({"Stop", "StopUe"}) /\ CallFails
    /\ GoOn
    /\ UNCHANGED <<template, up, clientVars, messages, download, failures, logged, kept>>

CheckMessages ==
    /\ Now({"Check"})
    /\ messages' = FALSE
    /\ IF messages THEN Leave("Failed") ELSE GoOn
    /\ UNCHANGED <<template, agentVars, clientVars, download, failures, logged, kept, faults>>

-----------------------------------------------------------------------------
(* validate().                                                             *)

KindsInOrder == InOrder(LAMBDA f : <<f.kind>>)

\* The rows that a criterion reads, of the fixtures of these kinds: an alias the
\* first one it finds.
RowsOf(c, kinds) ==
    CASE c.layer = "all"            -> AllRows(kinds, c.name)
      [] c.layer \in {"cu", "gnb"} -> SubSeq(AliasRows(kinds, c.layer, c.name), 1, 1)
      [] OTHER -> For(Rows(kinds), LAMBDA row : IF row.layer = c.layer THEN <<row>> ELSE <<>>)

Read(rows) == For(rows, LAMBDA row : Of(row.kind))
Entry(c, rows) ==
    IF c.layer = "all" THEN [name |-> c.name, fold |-> "sum", op |-> "le"]
    ELSE CHOOSE entry \in CriteriaOf[rows[1].layer] : entry.name = c.name
Reported(name, run) ==
    CASE name = "errors_le" -> run.errors [] name = "warnings_le" -> run.warnings [] OTHER -> run.kos

\* errors_le and warnings_le call Stop, the others GetMetrics.
ReadBy(c, read, a) ==
    IF c.name \in {"errors_le", "warnings_le"} /\ \E i \in DOMAIN read : read[i] = a
    THEN Stopped(sut[a]) ELSE sut[a]

\* The criterion of that entry reads these agents.
Judged(c, entry, read) ==
    LET rs == [i \in DOMAIN read |-> IF IsList(entry) THEN template.seen ELSE Reported(c.name, sut[read[i]])]
        met == IsOk(entry, rs, IF IsList(entry) THEN c.bearers ELSE c.value)
    IN \/ /\ \A i \in DOMAIN read : read[i] \in up
          /\ sut' = [a \in Agents |-> ReadBy(c, read, a)]
          /\ failures' = IF met THEN failures ELSE failures \cup {To}
          /\ GoOn /\ UNCHANGED faults
       \/ /\ \/ (\E i \in DOMAIN read : read[i] \notin up) /\ UNCHANGED faults
             \/ Fault
          /\ Leave("Error") /\ UNCHANGED <<sut, failures>>

Judge ==
    /\ Now({"Judge"})
    /\ \E kinds \in {KindsInOrder} : \E rows \in {RowsOf(template.criteria[To], kinds)} :
       \E read \in {Read(rows)} :
            Judged(template.criteria[To], Entry(template.criteria[To], rows), read)
    /\ UNCHANGED <<template, up, clientVars, messages, download, logged, kept>>

\* The criteria fail a test that has not failed.
Verdict ==
    /\ Now({"Verdict"})
    /\ IF failures # {} /\ exc = "none" THEN Leave("Failed") ELSE GoOn
    /\ UNCHANGED <<template, agentVars, clientVars, messages, download, failures, logged, kept, faults>>

-----------------------------------------------------------------------------
(* The teardown.                                                           *)

\* Variant for the mutation runs: a stop that fails is only logged as a warning.
NotLogged == logged

\* _stop_stub logs a crash, and a stop that fails.
StopFailed == TRUE

EndAnswered ==
    /\ Now({"End"}) /\ To \in up
    /\ sut' = [sut EXCEPT ![To] = Stopped(@)]
    /\ download' = (download \/ sut[To].code # 0)
    /\ logged' = (logged \/ sut[To].code # 0)
    /\ GoOn
    /\ UNCHANGED <<template, up, clientVars, messages, failures, kept, faults>>

EndRaises ==
    /\ Now({"End"}) /\ CallFails
    /\ logged' = StopFailed
    /\ GoOn
    /\ UNCHANGED <<template, up, clientVars, messages, download, failures, kept>>

\* GetArtifactsId: an error is logged, and the client is an agent of its own.
ArtifactId ==
    /\ Now({"Id"})
    /\ \/ To \in up /\ UNCHANGED <<sut, faults, logged>>
       \/ CallFails /\ logged' = TRUE
    /\ GoOn
    /\ UNCHANGED <<template, up, clientVars, messages, download, failures, kept>>

\* The third attempt that fails is logged; an archive that cannot be unpacked
\* leaves the loop, and the artifacts of the agents after it.
Fetch ==
    /\ Now({"Fetch"})
    /\ \/ To \in up /\ kept' = kept \cup {To} /\ GoOn /\ UNCHANGED <<sut, faults, logged>>
       \/ CallFails /\ logged' = TRUE /\ GoOn /\ UNCHANGED kept
       \/ /\ To \in up /\ Fault /\ logged' = TRUE
          /\ todo' = <<>> /\ UNCHANGED <<stage, exc, sut, kept>>
    /\ UNCHANGED <<template, up, clientVars, messages, download, failures>>

\* Variant for the mutation runs: the events are not set.
NotTold == thread

\* _close_all_keep_alive sets the events and joins the threads that are alive.
Told == [a \in Agents |-> IF thread[a] = "on" THEN "told" ELSE thread[a]]

TellThreads ==
    /\ Now({"Tell"})
    /\ thread' = Told
    /\ GoOn
    /\ UNCHANGED <<template, agentVars, client, made, messages, download, failures, logged, kept, faults>>

JoinThreads ==
    /\ Now({"Join"}) /\ \A a \in Agents : thread[a] = "off"
    /\ GoOn
    /\ UNCHANGED <<template, agentVars, clientVars, messages, download, failures, logged, kept, faults>>

\* The agent ends, or nobody hears that it does not; then the channel is closed.
ShutdownAgent ==
    /\ Now({"Shutdown"})
    /\ \/ up' = up \ {To} /\ UNCHANGED faults
       \/ To \in up /\ Fault /\ UNCHANGED up
    /\ client' = [client EXCEPT ![To] = "closed"]
    /\ GoOn
    /\ UNCHANGED <<template, sut, made, thread, messages, download, failures, logged, kept>>

Test ==
    \/ EndBlock \/ Connect \/ MadeFixture \/ StepAnswered \/ StepRaises \/ Ping \/ Watch
    \/ StopAnswered \/ StopRaises \/ CheckMessages \/ Judge \/ Verdict
    \/ EndAnswered \/ EndRaises \/ ArtifactId \/ Fetch \/ TellThreads \/ JoinThreads \/ ShutdownAgent

-----------------------------------------------------------------------------
(* The keep-alive threads, the SUTs and the agents.                        *)

Teardown == {"teardown", "artifacts", "close"}

\* Check fails: the thread logs it and ends.  What is logged before the
\* teardown does not count.
Notice(a) ==
    /\ thread[a] \in {"on", "told"} /\ a \notin up
    /\ thread' = [thread EXCEPT ![a] = "off"]
    /\ logged' = (logged \/ stage \in Teardown)
    /\ UNCHANGED <<template, agentVars, client, made, stage, todo, exc, messages, download, failures, kept, faults>>

ThreadEnds(a) ==
    /\ thread[a] = "told"
    /\ thread' = [thread EXCEPT ![a] = "off"]
    /\ UNCHANGED <<template, agentVars, client, made, testVars, faults>>

KeepAlive(a) == Notice(a) \/ ThreadEnds(a)

\* The simulator has played its scenario.
SimulationEnds(a) ==
    /\ template.test = "ue_simulator" /\ Of("ue")[1] = a
    /\ sut[a].at = "on"
    /\ sut' = [sut EXCEPT ![a].at = "over"]
    /\ UNCHANGED <<template, up, clientVars, testVars, faults>>

SutCrashes(a) ==
    /\ sut[a].at = "on" /\ Fault
    /\ sut' = [sut EXCEPT ![a] = Crashed(@)]
    /\ UNCHANGED <<template, up, clientVars, testVars>>

SutComplains(a) ==
    /\ sut[a].at = "on" /\ Fault
    /\ \E what \in {"errors", "warnings", "kos"} : sut' = [sut EXCEPT ![a][what] = @ + 1]
    /\ UNCHANGED <<template, up, clientVars, testVars>>

\* With the agent goes what it knows of a run that nobody has stopped.
AgentDies(a) ==
    /\ a \in up /\ Fault
    /\ up' = up \ {a}
    /\ sut' = [sut EXCEPT ![a].at = IF @ \in {"none", "ended"} THEN @ ELSE "gone"]
    /\ UNCHANGED <<template, clientVars, testVars>>

Surroundings ==
    \E a \in Agents : SimulationEnds(a) \/ SutCrashes(a) \/ SutComplains(a) \/ AgentDies(a)

Next == Test \/ Surroundings \/ \E a \in Agents : KeepAlive(a)

Spec == Init /\ [][Next]_vars

\* The test and its threads run, and a simulator ends.
Fairness ==
    /\ WF_vars(Test)
    /\ WF_vars(\E a \in Agents : KeepAlive(a))
    /\ WF_vars(\E a \in Agents : SimulationEnds(a))

-----------------------------------------------------------------------------
(* Properties.                                                             *)

\* no_logs_in_error fails a test that has passed when its teardown logged an error.
Passed == stage = "done" /\ exc = "none" /\ ~logged

\* Whatever was lost, and although the errors of Stop are swallowed at the end of
\* the test: a test that passes has heard from every agent that its last run
\* ended, with exit code 0.
PassedMeansStopped == Passed => \A a \in Agents : sut[a].at \in {"none", "ended"} /\ sut[a].code = 0

\* The agents that a criterion of the test is about; errors of the UEs have no
\* criterion.
About(c) ==
    LET kinds == CASE c.layer = "all"  -> {"gnb", "cu", "cu_cp", "cu_up", "du", "fivegc"}
                                              \cup (IF c.name = "errors_le" THEN {} ELSE {"ue"})
                   [] c.layer = "du"   -> {"gnb", "du"}
                   [] c.layer = "core" -> {"fivegc"}
                   [] OTHER            -> {c.layer}
    IN {a \in Agents : \E k \in kinds : \E i \in DOMAIN Of(k) : Of(k)[i] = a}

\* validate() finds the criteria that are not met, and no other, when each run
\* counts once: a gNB holds three layers of criteria and has one log.
JudgedOnce ==
    Now({"Verdict"}) =>
        \A i \in DOMAIN template.criteria :
            LET c == template.criteria[i] IN
            c.bearers = <<>> /\ (\A a \in About(c) : sut[a].at \in {"none", "ended"}) =>
                (i \in failures <=> MapThenSumSet(LAMBDA a : Reported(c.name, sut[a]), About(c)) > c.value)

\* A bearer that the captures never saw counts as carrying nothing, rather than
\* going unchecked (drb_dl_bitrate_gt).
BearersAreJudged ==
    Now({"Verdict"}) =>
        \A i \in DOMAIN template.criteria :
            LET wanted == template.criteria[i].bearers IN
            wanted # <<>> =>
                (i \in failures <=>
                    \E b \in DOMAIN wanted :
                        wanted[b].id \in DOMAIN template.seen => template.seen[wanted[b].id] <= wanted[b].value)

\* A test during which nothing went wrong passes, unless a bearer carried too
\* little: the teardown itself logs no error ("to avoid fake comm error
\* messages", close_client).
QuietTestsPass ==
    stage = "done" /\ faults = 0 /\ (\A i \in failures : template.criteria[i].bearers = <<>>)
        => Passed

\* However the agents fail, the test ends, and with it its keep-alive threads.
TestEnds == <>(stage = "done" /\ \A a \in Agents : thread[a] = "off")
=============================================================================
