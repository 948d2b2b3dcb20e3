-------------------------------- MODULE Agent --------------------------------
(***************************************************************************)
(* One agent (src/retina/agent) with the driver of the OCUDU DU: the       *)
(* handlers of Start, Stop and Shutdown in the threads of the gRPC server, *)
(* the close() of a signal in the main thread, the thread that watches the *)
(* software under test (SUT), the thread that listens to its metrics, the  *)
(* keep-alive thread, and the SUT processes themselves.                    *)
(*                                                                         *)
(* No handler takes a lock: a call, a close() or a signal may fall between *)
(* any two steps of a Start, and of each other.  Each Start that creates a *)
(* process has a number; process, log file, watcher thread, event,         *)
(* listener and capture folder of that Start have the same number, and 0   *)
(* is none.                                                                *)
(***************************************************************************)
EXTENDS Naturals, Sequences, FiniteSets

CONSTANTS
    Rpc,          \* the threads of the server that run a handler
    MaxStarts,    \* bound: processes created
    MaxSignals    \* bound: SIGTERMs sent to the agent from outside

ASSUME AgentAssumption ==
    MaxStarts \in Nat /\ MaxSignals \in Nat

\* A signal handler runs in the main thread, on top of what runs there.
Main == {"outer", "inner"}
Thread == Rpc \cup Main
Sender == {"keepalive", "outside"}
Run == 1 .. MaxStarts

\* A capture folder that was not opened by a Start.
EmptyFolder == MaxStarts + 1

ASSUME RpcAssumption == Rpc \cap Main = {}

VARIABLES
    call,             \* what each thread is doing: see Idle
    process,          \* _process
    sut,              \* the state of each SUT process
    logfile, open,    \* _logfile_descriptor, and the files that are open
    watcher, event,   \* _check_alive_thread, _check_alive_event
    stop, watch,      \* the events that are set, and where each watcher is
    folder,           \* _current_report_folder
    metrics, done,    \* _metrics, _metrics_parsing_done
    records,          \* what the _ws_analyzers have counted
    listener, quit,   \* _metrics_thread, and the stoppers that are set
    listening, hears, \* _metrics_listening, and where each listener is
    alive,            \* where the keep-alive thread is
    signals,          \* how many signals of each sender are not handled yet
    crossed,          \* history: the runs whose Start met another handler
    serving, main     \* the server accepts calls, and the main thread

sutVars     == <<process, sut, logfile, open>>
watchVars   == <<watcher, event, stop, watch>>
metricVars  == <<folder, metrics, done, records>>
listenVars  == <<listener, quit, listening, hears>>
agentVars   == <<alive, signals, crossed, serving, main>>
vars == <<call, sutVars, watchVars, metricVars, listenVars, agentVars>>

\* Naming a file in the report folder opens a folder when there is none.
Opened == IF folder = 0 THEN EmptyFolder ELSE folder

Created == Cardinality({r \in Run : sut[r] # "none"})
Running(r) == sut[r] = "up"
Dead(r)    == sut[r] = "dead"

\* Where a thread is, in which handler, whether start_sut has called stop_sut,
\* the captures it will read, the thread it joins or the process it ends, and
\* (history) whether a Start has met another handler.
Idle == [at |-> "idle", op |-> "none", sut |-> FALSE, args |-> 0, victim |-> 0, met |-> FALSE]

Init ==
    /\ call = [t \in Thread |-> Idle]
    /\ process = 0 /\ sut = [r \in Run |-> "none"]
    /\ logfile = 0 /\ open = {}
    /\ watcher = 0 /\ event = 0 /\ stop = {} /\ watch = [r \in Run |-> "none"]
    /\ folder = 0 /\ metrics = <<>> /\ done = TRUE /\ records = 0
    /\ listener = 0 /\ quit = {} /\ listening = FALSE
    /\ hears = [r \in Run |-> "none"]
    /\ alive = "runs" /\ signals = [s \in Sender |-> IF s = "outside" THEN MaxSignals ELSE 0]
    /\ crossed = {} /\ serving = TRUE /\ main = "serves"

Goto(t, step) ==
    call' = [call EXCEPT ![t] = IF step = "idle" THEN Idle ELSE [@ EXCEPT !.at = step]]
GotoWith(t, step, v) == call' = [call EXCEPT ![t].at = step, ![t].victim = v]

\* The main thread is one thread: what a signal interrupted waits for its
\* handler to return.
At(t, step) == call[t].at = step /\ (t = "outer" => call["inner"] = Idle)

\* A handler is left by an exception, which the server reports to the client.
\* In the main thread it leaves the code the signal interrupted as well, and
\* then wait_for_termination and main().
Raise(t) ==
    /\ call' = [u \in Thread |-> IF u = t \/ {t, u} \subseteq Main THEN Idle ELSE call[u]]
    /\ main' = IF t \in Rpc THEN main ELSE IF main = "serves" THEN "leaves" ELSE "ended"
    /\ UNCHANGED <<alive, signals, crossed, serving>>

-----------------------------------------------------------------------------
(* The calls.                                                              *)

Busy(t) == call[t] # Idle

\* A Start that has created its process, and is not over yet.
Launching(t) == call[t].at \in {"thread", "event", "await", "hear", "heard"}

Others(t) == \E u \in Thread \ {t} : Busy(u)

Begin(t, what) ==
    /\ ~Busy(t)
    /\ call' = [u \in Thread |->
                    IF u = t THEN [Idle EXCEPT !.at = "args", !.op = what, !.met = what = "Start" /\ Others(t)]
                    ELSE [call[u] EXCEPT !.met = @ \/ call[u].op = "Start"]]
    /\ crossed' = crossed \cup {call[u].victim : u \in {w \in Thread : Launching(w)}}
    /\ UNCHANGED <<sutVars, watchVars, metricVars, listenVars, alive, serving, main>>

\* The client or another one may call while a handler is running, and repeats a
\* call whose answer it has not got.
ServeCall(t, what) ==
    /\ t \in Rpc /\ serving /\ main = "serves"
    /\ Begin(t, what)
    /\ UNCHANGED signals

CallStart(t) == ServeCall(t, "Start")
CallStop(t) == ServeCall(t, "Stop")

\* close(): the Shutdown call runs it in a thread of the server.
CallShutdown(t) == ServeCall(t, "Close")

\* A signal runs it in the main thread, also while the interpreter waits for
\* the other threads at its end: the keep-alive's, or a SIGTERM of outside.
HandleSignal(t, sender) ==
    /\ t \in Main /\ main # "ended"
    /\ t = "inner" <=> Busy("outer")
    /\ signals[sender] > 0 /\ signals' = [signals EXCEPT ![sender] = @ - 1]
    /\ Begin(t, "Close")

-----------------------------------------------------------------------------
(* Stop.                                                                   *)

\* Variants for the mutation runs: the process is forgotten before it is asked
\* to end; it is never killed; it is given up instead of being killed.
ForgottenFirst == 0
NeverKilled == "wait"
GivenUp == "forget"

\* _process keeps its value until the process has ended.
WhileEnding == process

\* What follows the timeouts of exit_process.
AfterTimeout == "kill"

\* get_metrics_parsing_arguments: nothing when the captures have been read.
\* A path in the report folder opens a new folder when there is none.
GetArguments(t) ==
    /\ At(t, "args")
    /\ folder' = IF done THEN folder ELSE Opened
    /\ call' = [call EXCEPT ![t].at = "set", ![t].args = IF done THEN 0 ELSE folder']
    /\ UNCHANGED <<sutVars, watchVars, metrics, done, records,
                   listenVars, agentVars>>

\* stop_sut sets the event of the moment, then joins the thread of the moment.
SetEvent(t) ==
    /\ At(t, "set")
    /\ stop' = stop \cup {event}
    /\ Goto(t, "join")
    /\ UNCHANGED <<sutVars, watcher, event, watch,
                   metricVars, listenVars, agentVars>>

JoinWatcher(t) ==
    /\ At(t, "join")
    /\ GotoWith(t, "joins", watcher)
    /\ UNCHANGED <<sutVars, watchVars, metricVars, listenVars, agentVars>>

\* Not is_alive(): ended, or not started yet.
Ended(r) == r \notin {q \in Run : watch[q] \in {"looks", "flushes"}}

Joined(t) ==
    /\ At(t, "joins") /\ Ended(call[t].victim)
    /\ GotoWith(t, "check", 0)
    /\ UNCHANGED <<sutVars, watchVars, metricVars, listenVars, agentVars>>

\* _stop_binary with nothing to stop returns the result of the last one.
NothingToStop(t) ==
    /\ At(t, "check") /\ process = 0
    /\ Goto(t, "listen")
    /\ UNCHANGED <<sutVars, watchVars, metricVars, listenVars, agentVars>>

\* exit_process: SIGTERM, then a wait; a process that is gone is not an error.
Terminate(t) ==
    /\ At(t, "check") /\ process # 0
    /\ GotoWith(t, "wait", process)
    /\ process' = WhileEnding
    /\ UNCHANGED <<sut, logfile, open, watchVars,
                   metricVars, listenVars, agentVars>>

\* The timeout of the wait; with gdb installed there is a second wait after
\* the backtrace, then SIGKILL.
TimeOut(t) ==
    /\ At(t, "wait")
    /\ Running(call[t].victim)
    /\ Goto(t, AfterTimeout)
    /\ UNCHANGED <<sutVars, watchVars, metricVars, listenVars, agentVars>>

Kill(t) ==
    /\ At(t, "kill")
    /\ sut' = [sut EXCEPT ![call[t].victim] = "dead"]
    /\ Goto(t, "forget")
    /\ UNCHANGED <<process, logfile, open, watchVars, metricVars, listenVars, agentVars>>

Reap(t) ==
    /\ At(t, "wait")
    /\ Dead(call[t].victim)
    /\ Goto(t, "forget")
    /\ UNCHANGED <<sutVars, watchVars, metricVars, listenVars, agentVars>>

Forget(t) ==
    /\ At(t, "forget")
    /\ process' = 0
    /\ GotoWith(t, "close", 0)
    /\ UNCHANGED <<sut, logfile, open, watchVars, metricVars, listenVars, agentVars>>

\* The log of the moment is closed.  A log another stop has closed cannot be
\* flushed: ValueError.
CloseLog(t) ==
    /\ At(t, "close")
    /\ \/ /\ logfile \in open
          /\ open' = open \ {logfile}
          /\ Goto(t, "listen")
          /\ UNCHANGED agentVars
       \/ /\ logfile \notin open
          /\ Raise(t)
          /\ UNCHANGED open
    /\ UNCHANGED <<process, sut, logfile, watchVars, metricVars, listenVars>>

\* Where stop_sut returns to: the Stop of a call, or start_sut.
StopReturns(t) == Goto(t, IF call[t].sut THEN "create" ELSE "fold")

\* stop_listening_metrics.
StopListening(t) ==
    /\ At(t, "listen")
    /\ listening' = FALSE
    /\ IF listening THEN quit' = quit \cup {listener} /\ Goto(t, "unlisten")
                    ELSE StopReturns(t) /\ UNCHANGED quit
    /\ UNCHANGED <<sutVars, watchVars, metricVars,
                   listener, hears, agentVars>>

JoinListener(t) ==
    /\ At(t, "unlisten") /\ hears[listener] # "runs"
    /\ folder' = Opened
    /\ StopReturns(t)
    /\ UNCHANGED <<sutVars, watchVars, metrics, done, records, listenVars, agentVars>>

\* Base.Stop: close_previous_report_folder.
CloseFolder(t) ==
    /\ At(t, "fold")
    /\ folder' = 0
    /\ Goto(t, "extract")
    /\ UNCHANGED <<sutVars, watchVars, metrics, done, records,
                   listenVars, agentVars>>

\* Where the Stop of the driver returns to.
Returned(t) == CASE call[t].op = "Start" -> "render" [] call[t].op = "Close" -> "shut" [] OTHER -> "idle"

\* extract_metrics looks at _metrics_parsing_done once more, and cannot unpack
\* the arguments of a Stop that found the captures read.
Extract(t) ==
    /\ At(t, "extract")
    /\ IF ~done /\ call[t].args = 0
       THEN Raise(t)
       ELSE Goto(t, IF done THEN Returned(t) ELSE "merge") /\ UNCHANGED agentVars
    /\ UNCHANGED <<sutVars, watchVars, metricVars, listenVars>>

\* What was heard and what the captures hold is added to _metrics; only then
\* are they marked as read.
Merge(t) ==
    /\ At(t, "merge")
    /\ metrics' = Append(metrics, <<records, call[t].args>>)
    /\ done' = TRUE
    /\ Goto(t, Returned(t))
    /\ UNCHANGED <<sutVars, watchVars, folder, records,
                   listenVars, agentVars>>

-----------------------------------------------------------------------------
(* Start, from where its Stop has returned.                                *)

\* Variant for the mutation runs: the metrics of the run before are not thrown away.
OldMetrics == metrics

NewRun == Created + 1

NewMetrics == <<>>

\* The files of the configuration open a report folder.
Render(t) ==
    /\ At(t, "render")
    /\ folder' = IF folder = 0 /\ Created < MaxStarts THEN Created + 1 ELSE folder
    /\ call' = [call EXCEPT ![t].at = "set", ![t].sut = TRUE, ![t].args = 0]
    /\ UNCHANGED <<sutVars, watchVars, metrics, done, records,
                   listenVars, agentVars>>

\* A dry run ends here, with the Start.
DryRun(t) ==
    /\ At(t, "create")
    /\ Goto(t, "idle")
    /\ UNCHANGED <<sutVars, watchVars, metricVars, listenVars, agentVars>>

\* _start_binary opens the log, then creates the process, which may not be in
\* the path.
Create(t) ==
    /\ At(t, "create") /\ Created < MaxStarts
    /\ LET new == NewRun IN
       /\ logfile' = new
       /\ open' = open \cup {new}
       /\ \/ /\ process' = new
             /\ sut' = [sut EXCEPT ![new] = "up"]
             /\ GotoWith(t, "thread", new)
             /\ crossed' = IF call[t].met THEN crossed \cup {new} ELSE crossed
             /\ UNCHANGED <<alive, signals, serving, main>>
          \/ Raise(t) /\ UNCHANGED <<process, sut>>
    /\ UNCHANGED <<watchVars, metricVars, listenVars>>

\* The watcher and its event are replaced one after the other; then it starts.
NewThread(t) ==
    /\ At(t, "thread")
    /\ watcher' = call[t].victim
    /\ Goto(t, "event")
    /\ UNCHANGED <<sutVars, event, stop, watch,
                   metricVars, listenVars, agentVars>>

NewEvent(t) ==
    /\ At(t, "event")
    /\ event' = call[t].victim
    /\ watch' = [watch EXCEPT ![watcher] = "looks"]
    /\ Goto(t, "await")
    /\ UNCHANGED <<sutVars, watcher, stop, metricVars,
                   listenVars, agentVars>>

\* read_from_log: the message, "Process is dead" once the watcher has ended, or
\* the timeout.
AwaitStarted(t) ==
    /\ At(t, "await")
    /\ \/ ~Ended(watcher) /\ Goto(t, "hear") /\ UNCHANGED agentVars
       \/ Raise(t)
    /\ UNCHANGED <<sutVars, watchVars, metricVars, listenVars>>

\* start_listening_metrics; _metrics_listening is set last.
StartListening(t) ==
    /\ At(t, "hear")
    /\ metrics' = NewMetrics /\ done' = FALSE /\ records' = call[t].victim
    /\ listener' = call[t].victim
    /\ hears' = [hears EXCEPT ![call[t].victim] = "runs"]
    /\ Goto(t, "heard")
    /\ UNCHANGED <<sutVars, watchVars, folder, quit, listening,
                   agentVars>>

Started(t) ==
    /\ At(t, "heard")
    /\ listening' = TRUE
    /\ Goto(t, "idle")
    /\ UNCHANGED <<sutVars, watchVars, metricVars,
                   listener, quit, hears, agentVars>>

-----------------------------------------------------------------------------
(* close(), from where its Stop has returned.                              *)

\* enter_graceful_shutdown tells the keep-alive thread, waits for it, and then
\* server.stop.
TellAlive(t) ==
    /\ At(t, "shut")
    /\ alive' = IF alive = "runs" THEN "told" ELSE alive
    /\ Goto(t, "shuts")
    /\ UNCHANGED <<sutVars, watchVars, metricVars, listenVars,
                   signals, crossed, serving, main>>

StopServer(t) ==
    /\ At(t, "shuts") /\ alive = "ended"
    /\ serving' = FALSE
    /\ Goto(t, "idle")
    /\ UNCHANGED <<sutVars, watchVars, metricVars, listenVars,
                   alive, signals, crossed, main>>

-----------------------------------------------------------------------------
(* The threads of the agent that no call runs in.                          *)

\* _check_alive, up to the wait: it reads the event, process and log file of
\* the moment.  A command of _write_ps_info that fails ends the thread.
LooksAtProcess(r) ==
    \/ /\ process # 0 /\ Dead(process)
       /\ stop' = stop \cup {event} /\ watch' = [watch EXCEPT ![r] = "flushes"]
       /\ UNCHANGED folder
    \/ /\ process # 0 /\ ~Dead(process)
       /\ folder' = Opened
       /\ \E next \in {"flushes", "ended"} : watch' = [watch EXCEPT ![r] = next]
       /\ UNCHANGED stop
    \/ /\ process = 0
       /\ watch' = [watch EXCEPT ![r] = "flushes"]
       /\ UNCHANGED <<stop, folder>>

Look(r) ==
    /\ watch[r] = "looks"
    /\ \/ event \in stop /\ watch' = [watch EXCEPT ![r] = "ended"] /\ UNCHANGED <<stop, folder>>
       \/ event \notin stop /\ LooksAtProcess(r)
    /\ UNCHANGED <<call, sutVars, watcher, event, metrics, done, records, listenVars, agentVars>>

\* A log that is closed cannot be flushed, which ends the thread as well.
Flush(r) ==
    /\ watch[r] = "flushes"
    /\ watch' = [watch EXCEPT ![r] = IF logfile \in open THEN "looks" ELSE "ended"]
    /\ UNCHANGED <<call, sutVars, watcher, event, stop, metricVars, listenVars, agentVars>>

\* _metrics_listener completes the file of the metrics.
ListenerEnds(r) ==
    /\ hears[r] = "runs"
    /\ hears' = [hears EXCEPT ![r] = "ended"]
    /\ folder' = Opened
    /\ UNCHANGED <<call, sutVars, watchVars, metrics, done, records, listener, quit,
                   listening, agentVars>>

\* It reconnects until the stopper of the moment is set.
ListenerQuits(r) ==
    /\ listener \in quit
    /\ ListenerEnds(r)

\* The SUT has closed the connection in good order.
ListenerCloses(r) ==
    /\ ~Running(r)
    /\ ListenerEnds(r)


\* signal.raise_signal.
OneSignal == [signals EXCEPT !["keepalive"] = @ + 1]

\* _still_alive: no Check for the time of the keep-alive.
KeepAliveExpires ==
    /\ alive = "runs"
    /\ alive' = "ended"
    /\ signals' = OneSignal
    /\ UNCHANGED <<call, sutVars, watchVars, metricVars, listenVars,
                   crossed, serving, main>>

KeepAliveEnds ==
    /\ alive = "told"
    /\ alive' = "ended"
    /\ UNCHANGED <<call, sutVars, watchVars, metricVars, listenVars, signals,
                   crossed, serving, main>>

\* wait_for_termination returns once the server has stopped.
MainLeaves ==
    /\ main = "serves" /\ ~serving /\ ~Busy("outer")
    /\ main' = "leaves"
    /\ UNCHANGED <<call, sutVars, watchVars, metricVars, listenVars, alive,
                   signals, crossed, serving>>

\* The interpreter waits for every thread that is not a daemon.
MainEnds ==
    /\ main = "leaves" /\ alive = "ended" /\ \A t \in Thread : ~Busy(t)
    /\ \A r \in Run : Ended(r) /\ hears[r] # "runs"
    /\ main' = "ended"
    /\ UNCHANGED <<call, sutVars, watchVars, metricVars, listenVars, alive,
                   signals, crossed, serving>>

-----------------------------------------------------------------------------
(* The environment.                                                        *)

SutEnds(r) ==
    /\ Running(r)
    /\ sut' = [sut EXCEPT ![r] = "dead"]
    /\ UNCHANGED <<call, process, logfile, open, watchVars, metricVars,
                   listenVars, agentVars>>

-----------------------------------------------------------------------------
Calls(t) == CallStart(t) \/ CallStop(t) \/ CallShutdown(t)

\* What a thread does in a call it has begun.
Proceed(t) ==
    \/ GetArguments(t) \/ SetEvent(t) \/ JoinWatcher(t) \/ Joined(t)
    \/ NothingToStop(t) \/ Terminate(t) \/ TimeOut(t) \/ Kill(t) \/ Reap(t) \/ Forget(t) \/ CloseLog(t)
    \/ StopListening(t) \/ JoinListener(t) \/ CloseFolder(t) \/ Extract(t) \/ Merge(t)
    \/ Render(t) \/ DryRun(t) \/ Create(t) \/ NewThread(t) \/ NewEvent(t)
    \/ AwaitStarted(t) \/ StartListening(t) \/ Started(t)
    \/ TellAlive(t) \/ StopServer(t)

Watches(r) == Look(r) \/ Flush(r)

Next ==
    /\ main # "ended"
    /\ \/ \E t \in Thread : Calls(t) \/ Proceed(t)
       \/ \E t \in Main, sender \in Sender : HandleSignal(t, sender)
       \/ \E r \in Run : Watches(r) \/ ListenerQuits(r) \/ ListenerCloses(r)
                         \/ SutEnds(r)
       \/ KeepAliveExpires \/ KeepAliveEnds \/ MainLeaves \/ MainEnds

Spec == Init /\ [][Next]_vars

\* The main thread: the handlers of the signals, and what follows the server.
MainSteps == (\E t \in Main : Proceed(t) \/ HandleSignal(t, "keepalive")) \/ MainLeaves \/ MainEnds

\* What a thread does when it has been told to end, once.
Quits == KeepAliveEnds \/ \E r \in Run : ListenerQuits(r)

\* Every thread of the agent runs.  Nothing is assumed of the SUT, which may
\* ignore SIGTERM, nor of the client, which may fall silent.
Fairness ==
    /\ WF_vars(main # "ended" /\ MainSteps)
    /\ WF_vars(main # "ended" /\ Quits)
    /\ \A t \in Rpc : WF_vars(main # "ended" /\ Proceed(t))
    /\ \A r \in Run : WF_vars(main # "ended" /\ Watches(r))

FairSpec == Spec /\ Fairness

-----------------------------------------------------------------------------
(* Properties.                                                             *)

Step == {"idle", "args", "set", "join", "joins", "check", "wait", "kill", "forget",
         "close", "listen", "unlisten", "fold", "extract", "merge", "render",
         "create", "thread", "event", "await", "hear", "heard", "shut", "shuts"}

\* The types of the variables.
TypeOK ==
    /\ call \in [Thread -> [at : Step, op : {"none", "Start", "Stop", "Close"},
                            sut : BOOLEAN, args : 0 .. EmptyFolder, victim : 0 .. MaxStarts, met : BOOLEAN]]
    /\ process \in 0 .. MaxStarts /\ logfile \in 0 .. MaxStarts /\ open \subseteq Run
    /\ sut \in [Run -> {"none", "up", "dead"}]
    /\ watcher \in 0 .. MaxStarts /\ event \in 0 .. MaxStarts
    /\ stop \subseteq 0 .. MaxStarts
    /\ watch \in [Run -> {"none", "looks", "flushes", "ended"}]
    /\ folder \in 0 .. EmptyFolder /\ done \in BOOLEAN
    /\ metrics \in Seq((0 .. MaxStarts) \X (0 .. EmptyFolder))
    /\ records \in 0 .. MaxStarts
    /\ listener \in 0 .. MaxStarts /\ quit \subseteq 0 .. MaxStarts
    /\ listening \in BOOLEAN /\ hears \in [Run -> {"none", "runs", "ended"}]
    /\ alive \in {"runs", "told", "ended"}
    /\ signals \in [Sender -> Nat]
    /\ crossed \subseteq 0 .. MaxStarts /\ serving \in BOOLEAN
    /\ main \in {"serves", "leaves", "ended"}

\* The only SUT that runs is the one _process names, whatever Starts failed and
\* whatever Stops overlapped.  Excepted are SUTs whose Start met another handler.
NoStray == \A r \in Run \ crossed : Running(r) => process = r

\* "Stop the sut and close the agent server" (base.proto): once the server has
\* been stopped no SUT is running.
ShutdownStops == ~serving => \A r \in Run : ~Running(r)

\* It is so for the SUTs whose Start met no other handler, however many close()
\* and Stops overlapped, and whatever raised.
ClosedMeansStopped == ~serving => \A r \in Run \ crossed : ~Running(r)

\* GetMetrics never mixes two runs of the SUT: what was heard is of one run,
\* and so are the captures (of a run whose Start met no other handler), unless
\* they were looked for in a folder that no Start has opened.
OneRun ==
    \A i, j \in DOMAIN metrics :
        metrics[i][1] \notin crossed
            => metrics[j][1] = metrics[i][1] /\ metrics[j][2] \in {metrics[i][1], EmptyFolder}

\* A Start that met another handler has left a thread of its SUT or of an earlier one
\* that nobody tells to end.
HeldUp == \E q \in crossed : \E r \in 1 .. q : ~Ended(r) \/ hears[r] = "runs"

\* Every call ends, however many stop at once and whatever the SUT does with SIGTERM.
CallsEnd == \A t \in Rpc : Busy(t) ~> (~Busy(t) \/ main = "ended" \/ HeldUp)

=============================================================================
