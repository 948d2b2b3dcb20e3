------------------------------- MODULE Reports -------------------------------
(***************************************************************************)
(* The captures of the drivers that are made of others, call by call: the  *)
(* CU-CP reads its own, the CU has a CU-CP read them, the gNB a CU and a    *)
(* DU, and the CU-UP none (ocudu_cu_cp.py, ocudu_cu.py, ocudu_gnb.py,       *)
(* ocudu_cu_up.py).  The calls come one at a time; Agent has the DU with    *)
(* overlapping ones.                                                       *)
(*                                                                         *)
(* A folder is the run whose captures it holds.  The CU forgets the last   *)
(* run before it starts the next, the gNB once the next one has started.   *)
(***************************************************************************)
EXTENDS Integers, Sequences

CONSTANTS
    DriverKinds,   \* which of "cucp", "cu", "cuup", "gnb" are explored
    MaxRuns,       \* bound: calls of Start
    MaxRaised      \* bound: steps that raise

VARIABLES
    driver,
    report   \* the driver and the call under way: see Init

reportsVars == <<driver, report>>

\* The drivers whose captures are read, in the order of Stop.
PartsOf(d) == CASE d = "gnb" -> <<"du", "cu">> [] d = "cuup" -> <<>> [] OTHER -> <<"cu">>
Parts == {"du", "cu"}

NoFolder == 0
EmptyFolder == -1

\* at        the next step               op       the call
\* todo      the parts to read           args     what get_metrics_parsing_arguments returned
\* folder    the report folder           running  the program runs
\* done      _metrics_parsing_done       metrics  what _metrics was merged from
\* hears     the DU listens              json     _metrics_json_path
\* plotted   the runs with a page        runs, raised  the counters of the bounds
\* good      the run that has started, unless what it measured was lost
\* stopped   its Stop has returned
Init ==
    /\ driver \in DriverKinds
    /\ report = [at |-> "idle", op |-> "none", todo |-> <<>>, args |-> [p \in Parts |-> NoFolder],
                 folder |-> NoFolder, running |-> FALSE,
                 done |-> [p \in Parts |-> TRUE], metrics |-> [p \in Parts |-> <<>>],
                 hears |-> FALSE, json |-> NoFolder, plotted |-> {}, runs |-> 0, raised |-> 0,
                 good |-> 0, stopped |-> FALSE]

At(step) == report.at = step
Opened(folder) == IF folder = NoFolder THEN EmptyFolder ELSE folder
Do(r) == report' = r /\ UNCHANGED driver

\* A step that raises ends the call.
Raised(r) == report.raised < MaxRaised /\ Do([r EXCEPT !.at = "idle", !.raised = @ + 1])

-----------------------------------------------------------------------------
(* Stop, of the test or at the head of Start.                              *)

Call(op) ==
    /\ op = "Start" => report.runs < MaxRuns
    /\ At("idle")
    /\ Do([report EXCEPT !.at = "args", !.op = op,
                         !.good = IF op = "Start" THEN 0 ELSE @, !.stopped = IF op = "Start" THEN FALSE ELSE @])

\* get_metrics_parsing_arguments: the paths of the captures open a folder if there is none.
GetArguments ==
    /\ At("args")
    /\ LET parts == PartsOf(driver)
           folder == IF \E i \in DOMAIN parts : ~report.done[parts[i]] THEN Opened(report.folder) ELSE report.folder
       IN  Do([report EXCEPT !.at = "sut", !.folder = folder,
                             !.args = [p \in Parts |-> IF report.done[p] THEN NoFolder ELSE folder]])

\* stop_sut of the gNB: the DU stops listening once the program has ended.
StopListening(r) == [r EXCEPT !.hears = FALSE, !.json = IF r.hears THEN r.folder ELSE NoFolder]

\* stop_sut, which may raise with the program gone, and BaseDriver.Stop, which closes the folder.
StopSut ==
    /\ At("sut")
    /\ LET stopped == [report EXCEPT !.running = FALSE]
       IN  \/ report.running /\ Raised(stopped)
           \/ Do([StopListening(stopped) EXCEPT !.at = "extract", !.folder = NoFolder, !.todo = PartsOf(driver)])

\* extract_metrics of one part.  A report that raises leaves the captures unread, of a folder that is closed.
Extract ==
    /\ At("extract") /\ report.todo # <<>>
    /\ LET p == Head(report.todo)
           read == IF report.args[p] > 0 THEN Append(report.metrics[p], report.args[p]) ELSE report.metrics[p]
       IN  \/ report.done[p] /\ Do([report EXCEPT !.todo = Tail(@)])
           \/ ~report.done[p] /\ Do([report EXCEPT !.todo = Tail(@), !.done[p] = TRUE, !.metrics[p] = read])
           \/ ~report.done[p] /\ Raised([report EXCEPT !.good = 0])

\* transform_metrics of the gNB, and the end of Stop.
EndStop ==
    /\ At("extract") /\ report.todo = <<>>
    /\ Do([report EXCEPT !.at = IF report.op = "Stop" THEN "idle" ELSE "reset", !.stopped = report.op = "Stop",
                         !.plotted = IF report.json > 0 THEN @ \cup {report.json} ELSE @])

-----------------------------------------------------------------------------
(* Start, after its Stop.                                                  *)

\* Variant for the mutation runs: the metrics of the run before stay.
NotForgotten(r) == [r EXCEPT !.done = [p \in Parts |-> FALSE]]

\* reset_pcap_metrics.
Forgotten(r) == [r EXCEPT !.done = [p \in Parts |-> FALSE], !.metrics = [p \in Parts |-> <<>>]]

\* The CU-CP and the CU reset first; the gNB checks its radio units.  Then the configuration is
\* rendered into a folder.
Prepare ==
    /\ At("reset")
    /\ LET reset == IF driver \in {"cucp", "cu"} THEN Forgotten(report) ELSE report
       IN  \/ Raised(reset)
           \/ Do([reset EXCEPT !.at = "create", !.folder = Opened(@)])

\* start_sut stops what may be there, then creates the process; a dry run ends here.  The CU-UP waits
\* for its CU-CP before it, with the connect of a UDP socket, which succeeds whether anything listens.
StartSut ==
    /\ At("create")
    /\ LET clear == [StopListening(report) EXCEPT !.runs = @ + 1]
       IN  \/ Raised(clear)
           \/ Do([clear EXCEPT !.at = "idle"])
           \/ Do([clear EXCEPT !.at = "await", !.running = TRUE, !.folder = clear.runs])

\* read_from_log: the line that says it has started, or a TimeoutError with the program left running.
\* Then the gNB listens to its DU and resets.
AwaitStarted ==
    /\ At("await")
    /\ \/ Raised(report)
       \/ LET started == [report EXCEPT !.at = "idle", !.good = report.runs]
          IN  Do(IF driver = "gnb" THEN [Forgotten(started) EXCEPT !.hears = TRUE] ELSE started)

Next ==
    \/ \E op \in {"Start", "Stop"} : Call(op)
    \/ GetArguments \/ StopSut \/ Extract \/ EndStop
    \/ Prepare \/ StartSut \/ AwaitStarted

Spec == Init /\ [][Next]_reportsVars

-----------------------------------------------------------------------------
(* Properties.                                                             *)

\* Whatever calls failed before, the metrics of a run that has started are its own: none while it
\* runs, and once its Stop has returned its captures, read once however often Stop is called, with
\* the page of plots of a gNB.  A run whose report raised is left out.
ReportIsOfRun ==
    At("idle") /\ report.good # 0 =>
        /\ \A i \in DOMAIN PartsOf(driver) :
            report.metrics[PartsOf(driver)[i]] = IF report.stopped THEN <<report.good>> ELSE <<>>
        /\ driver = "gnb" /\ report.stopped => report.good \in report.plotted
=============================================================================
