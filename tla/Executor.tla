------------------------------- MODULE Executor -------------------------------
(***************************************************************************)
(* A program that the agent runs to its end (LocalExecutor.run_binary of    *)
(* agent/features/executor.py, and _RemoteProcess for a program on another  *)
(* machine), with two of its callers: Ping of drivers/base.py and           *)
(* _run_iperf of drivers/ue.py.                                             *)
(*                                                                         *)
(* run_binary is a generator: a thread reads the output into a queue, the   *)
(* loop hands its lines out until it is over, the time is up or the caller  *)
(* wants no more; in the end the process is waited for, or ended by force.  *)
(***************************************************************************)
EXTENDS Naturals, Integers

CONSTANTS
    Machines,   \* subset of {"local", "remote"}
    MaxLines,   \* bound: lines that a program prints
    MaxTries    \* _IPERF_RETRIES

\* The exit code of a process that had to be killed.
Killed == -9

VARIABLES
    machine, caller,   \* "ping", "iperf", or one that may leave the loop
    pid,               \* whom a signal reaches: "own", "other", "none"
    proc, code,        \* "running", "exited"; its exit code
    stubborn,          \* SIGTERM does not end it
    killed,            \* it has been sent SIGKILL
    printed, pipe, queue, read,  \* lines: printed, not yet read, in the queue, handed out
    reader,            \* thread_obj is alive
    step, outcome, result, tries

execVars == <<machine, caller, pid, proc, code, stubborn, killed, printed, pipe, queue, read,
              reader, step, outcome, result, tries>>

procVars == <<machine, caller, pid, stubborn>>
lineVars == <<printed, pipe, queue, read, reader>>
endVars  == <<outcome, result, tries>>

\* A process on another machine is found by its name, which another one may
\* have, or nobody any more.
Init ==
    /\ machine \in Machines /\ caller \in {"ping", "iperf", "other"}
    /\ pid \in IF machine = "local" THEN {"own"} ELSE {"own", "other", "none"}
    /\ stubborn \in BOOLEAN
    /\ proc = "running" /\ code = 0 /\ killed = FALSE
    /\ printed = 0 /\ pipe = 0 /\ queue = 0 /\ read = 0 /\ reader = TRUE
    /\ step = "check" /\ outcome = "none" /\ result = 0 /\ tries = 1

-----------------------------------------------------------------------------
(* The process.                                                            *)

Prints ==
    /\ proc = "running" /\ printed < MaxLines
    /\ printed' = printed + 1 /\ pipe' = pipe + 1
    /\ UNCHANGED <<procVars, proc, code, killed, queue, read, reader, step, endVars>>

\* By itself, with or without success.
Exits ==
    /\ proc = "running" /\ step # "done"
    /\ proc' = "exited" /\ code' \in {0, 1}
    /\ UNCHANGED <<procVars, killed, lineVars, step, endVars>>

\* SIGKILL takes its time.
Dies ==
    /\ proc = "running" /\ killed
    /\ proc' = "exited" /\ code' = Killed
    /\ UNCHANGED <<procVars, killed, lineVars, step, endVars>>

\* _enqueue_output, until the end of the output.
Enqueue ==
    /\ reader /\ pipe > 0
    /\ pipe' = pipe - 1 /\ queue' = queue + 1
    /\ UNCHANGED <<procVars, proc, code, killed, printed, read, reader, step, endVars>>

ReaderEnds ==
    /\ reader /\ pipe = 0 /\ proc = "exited"
    /\ reader' = FALSE
    /\ UNCHANGED <<procVars, proc, code, killed, printed, pipe, queue, read, step, endVars>>

-----------------------------------------------------------------------------
(* read_from_process_stdout.                                               *)

Goto(s) == step' = s /\ UNCHANGED endVars
End(how) == step' = "wait" /\ outcome' = how /\ UNCHANGED <<result, tries>>
processVars == <<procVars, proc, code, killed>>

\* Variant for the mutation runs: an empty queue is the end.
HasLines == queue > 0

\* The thread is looked at before the queue.
MayHaveMore == reader

\* Only iperf has a timeout.
Check ==
    /\ step = "check"
    /\ \/ Goto(IF MayHaveMore THEN "get" ELSE "last")
       \/ caller = "iperf" /\ End("TimeoutError")
    /\ UNCHANGED <<processVars, lineVars>>

LastCheck ==
    /\ step = "last"
    /\ IF queue > 0 THEN Goto("get") ELSE End("ended")
    /\ UNCHANGED <<processVars, lineVars>>

\* A line, which may be the last one that the caller wants; or none so far.
Get ==
    /\ step = "get"
    /\ \/ /\ queue > 0 /\ queue' = queue - 1 /\ read' = read + 1
          /\ \/ Goto("check")
             \/ caller = "other" /\ End("left")
       \/ queue = 0 /\ Goto("check") /\ UNCHANGED <<queue, read>>
    /\ UNCHANGED <<processVars, printed, pipe, reader>>

-----------------------------------------------------------------------------
(* The end of run_binary, and exit_process.                                *)

Over(n) == step' = "over" /\ result' = n /\ UNCHANGED <<outcome, tries>>

\* wait: the code of a process that has ended, or TimeoutExpired.
WaitOr(next) ==
    \/ proc = "exited" /\ Over(code)
    \/ proc = "running" /\ Goto(next)

Wait ==
    /\ step = "wait" /\ WaitOr("signal")
    /\ UNCHANGED <<processVars, lineVars>>

\* SIGTERM: NoSuchProcess when it has ended meanwhile on the other machine.
Signal ==
    /\ step = "signal"
    /\ IF pid = "own" /\ proc = "running" /\ ~stubborn
       THEN proc' = "exited" /\ code' = -15 /\ Goto("await")
       ELSE /\ Goto(IF machine = "remote" /\ pid = "own" /\ proc = "exited" THEN "gdb" ELSE "await")
            /\ UNCHANGED <<proc, code>>
    /\ UNCHANGED <<procVars, killed, lineVars>>

Await ==
    /\ step = "await" /\ WaitOr("gdb")
    /\ UNCHANGED <<processVars, lineVars>>

\* The backtrace of gdb, and as much time again; without gdb, or with a gdb that
\* fails, neither.
Gdb ==
    /\ step = "gdb"
    /\ Goto("await again") \/ Goto("kill")
    /\ UNCHANGED <<processVars, lineVars>>

AwaitAgain ==
    /\ step = "await again" /\ WaitOr("kill")
    /\ UNCHANGED <<processVars, lineVars>>

\* Variant for the mutation runs: the second SIGTERM instead of a SIGKILL.
TermAgain == killed

\* process.kill().
SendKill == killed \/ pid = "own"

Kill ==
    /\ step = "kill"
    /\ killed' = SendKill
    /\ Goto("reap")
    /\ UNCHANGED <<procVars, proc, code, lineVars>>

Reap ==
    /\ step = "reap"
    /\ IF proc = "exited" THEN Over(code) ELSE Over(Killed)
    /\ UNCHANGED <<processVars, lineVars>>

-----------------------------------------------------------------------------
(* The callers.                                                            *)

\* A code is an exception, unless there is one already or the caller does not
\* want it.
Fails == result # 0 /\ outcome # "TimeoutError" /\ caller = "iperf"

Return ==
    /\ step = "over"
    /\ caller = "iperf" /\ Fails => tries = MaxTries
    /\ step' = "done"
    /\ outcome' = IF Fails THEN "IPerf can not run" ELSE outcome
    /\ UNCHANGED <<processVars, lineVars, result, tries>>

\* _run_iperf: a client that died is run again.
Retry ==
    /\ step = "over" /\ caller = "iperf" /\ Fails /\ tries < MaxTries
    /\ tries' = tries + 1 /\ step' = "check" /\ outcome' = "none" /\ result' = 0
    /\ proc' = "running" /\ code' = 0 /\ killed' = FALSE
    /\ printed' = 0 /\ pipe' = 0 /\ queue' = 0 /\ read' = 0 /\ reader' = TRUE
    /\ UNCHANGED procVars

Next == \/ Prints \/ Exits \/ Dies \/ Enqueue \/ ReaderEnds
        \/ Check \/ LastCheck \/ Get \/ Wait \/ Signal \/ Await \/ Gdb \/ AwaitAgain \/ Kill \/ Reap
        \/ Return \/ Retry

Spec == Init /\ [][Next]_execVars

-----------------------------------------------------------------------------
(* Properties.                                                             *)

\* A caller that went to the end of the output has had all of it, the lines that
\* the program printed just before it ended included.
AllOutputRead == outcome = "ended" => read = printed

\* No program outlives its call: it has ended, or it is being killed; a code
\* other than -9 is that of a process that has ended.  On another machine this
\* needs the process to be found by its name.
NothingOutlives ==
    step \in {"over", "done"} =>
        /\ result # Killed => proc = "exited"
        /\ pid = "own" => proc = "exited" \/ killed
=============================================================================
