----------------------------- MODULE AgentProofs -----------------------------
(***************************************************************************)
(* Proofs about Agent, for any number of server threads, Starts and        *)
(* signals, and any interleaving of them.                                  *)
(***************************************************************************)
EXTENDS Agent, FiniteSetTheorems, TLAPS

Calling == [at : Step, op : {"none", "Start", "Stop", "Close"},
            sut : BOOLEAN, args : 0 .. EmptyFolder, victim : 0 .. MaxStarts, met : BOOLEAN]

-----------------------------------------------------------------------------
(* How the call of a thread changes.                                       *)

\* Idle is the call of no thread that is in a handler.
LEMMA IdleIs ==
  /\ Idle.at = "idle" /\ Idle.op = "none" /\ Idle.sut = FALSE /\ Idle.args = 0 /\ Idle.victim = 0
  /\ Idle.met = FALSE
  /\ Idle \in Calling
  BY AgentAssumption DEF Idle, Calling, Step, EmptyFolder

\* Goto changes where one thread is, or ends its call.
LEMMA GotoIs ==
  ASSUME TypeOK, NEW t \in Thread, NEW step \in Step, Goto(t, step)
  PROVE  /\ call' \in [Thread -> Calling]
         /\ \A u \in Thread : u # t => call'[u] = call[u]
         /\ step = "idle" => call'[t] = Idle
         /\ step # "idle" => /\ call'[t].at = step /\ call'[t].op = call[t].op
                             /\ call'[t].sut = call[t].sut /\ call'[t].args = call[t].args
                             /\ call'[t].victim = call[t].victim /\ call'[t].met = call[t].met
<1>1. call \in [Thread -> Calling]
  BY DEF TypeOK, Calling
<1> DEFINE c == IF step = "idle" THEN Idle ELSE [call[t] EXCEPT !.at = step]
<1>2. call' = [call EXCEPT ![t] = c]
  BY DEF Goto
<1>3. c \in Calling /\ (step # "idle" => /\ c.at = step /\ c.op = call[t].op /\ c.sut = call[t].sut
                                         /\ c.args = call[t].args /\ c.victim = call[t].victim
                                         /\ c.met = call[t].met)
  BY <1>1, IdleIs DEF Calling
<1>4. step = "idle" => c = Idle
  OBVIOUS
<1> HIDE DEF c
<1> QED BY <1>1, <1>2, <1>3, <1>4

\* GotoWith changes where one thread is, and its victim.
LEMMA GotoWithIs ==
  ASSUME TypeOK, NEW t \in Thread, NEW step \in Step, NEW v \in 0 .. MaxStarts, GotoWith(t, step, v)
  PROVE  /\ call' \in [Thread -> Calling]
         /\ \A u \in Thread : u # t => call'[u] = call[u]
         /\ call'[t].at = step /\ call'[t].op = call[t].op /\ call'[t].sut = call[t].sut
         /\ call'[t].args = call[t].args /\ call'[t].victim = v /\ call'[t].met = call[t].met
<1>1. call \in [Thread -> Calling]
  BY DEF TypeOK, Calling
<1> DEFINE c == [call[t] EXCEPT !.at = step, !.victim = v]
<1>2. call' = [call EXCEPT ![t] = c]
  BY <1>1 DEF GotoWith, Calling
<1>3. c \in Calling /\ c.at = step /\ c.op = call[t].op /\ c.sut = call[t].sut
      /\ c.args = call[t].args /\ c.victim = v /\ c.met = call[t].met
  BY <1>1 DEF Calling
<1> HIDE DEF c
<1> QED BY <1>1, <1>2, <1>3

\* What GetArguments and Render do: a call goes on to stop the SUT.
LEMMA GoesOnIs ==
  ASSUME TypeOK, NEW t \in Thread, NEW b \in BOOLEAN, NEW a \in 0 .. EmptyFolder,
         call' = [call EXCEPT ![t] = [call[t] EXCEPT !.at = "set", !.sut = b, !.args = a]]
  PROVE  /\ call' \in [Thread -> Calling]
         /\ \A u \in Thread : u # t => call'[u] = call[u]
         /\ call'[t].at = "set" /\ call'[t].op = call[t].op /\ call'[t].sut = b
         /\ call'[t].args = a /\ call'[t].victim = call[t].victim /\ call'[t].met = call[t].met
<1>1. call \in [Thread -> Calling]
  BY DEF TypeOK, Calling
<1> DEFINE c == [call[t] EXCEPT !.at = "set", !.sut = b, !.args = a]
<1>2. call' = [call EXCEPT ![t] = c]
  OBVIOUS
<1>3. c \in Calling /\ c.at = "set" /\ c.op = call[t].op /\ c.sut = b
      /\ c.args = a /\ c.victim = call[t].victim /\ c.met = call[t].met
  BY <1>1 DEF Calling, Step
<1> HIDE DEF c
<1> QED BY <1>1, <1>2, <1>3

\* GetArguments reads the folder of the moment, or nothing.
LEMMA GetArgumentsIs ==
  ASSUME TypeOK, NEW t \in Thread, GetArguments(t)
  PROVE  /\ folder' = IF done THEN folder ELSE Opened
         /\ folder' \in 0 .. EmptyFolder
         /\ call' \in [Thread -> Calling]
         /\ \A u \in Thread : u # t => call'[u] = call[u]
         /\ call'[t].at = "set" /\ call'[t].op = call[t].op /\ call'[t].sut = call[t].sut
         /\ call'[t].args = (IF done THEN 0 ELSE folder') /\ call'[t].victim = call[t].victim
         /\ call'[t].met = call[t].met
<1>1. call \in [Thread -> Calling]
  BY DEF TypeOK, Calling
<1>2. EmptyFolder \in 0 .. EmptyFolder /\ 0 \in 0 .. EmptyFolder
  BY AgentAssumption DEF EmptyFolder
<1>3. folder' = IF done THEN folder ELSE Opened
  BY DEF GetArguments
<1>4. folder' \in 0 .. EmptyFolder
  BY <1>2, <1>3 DEF TypeOK, Opened
<1> DEFINE a == IF done THEN 0 ELSE folder'
<1>5. a \in 0 .. EmptyFolder
  BY <1>2, <1>4
<1>6. call' = [call EXCEPT ![t].at = "set", ![t].args = a]
  BY DEF GetArguments
<1>7. call' = [call EXCEPT ![t] = [call[t] EXCEPT !.at = "set", !.sut = call[t].sut, !.args = a]]
  <2>1. [call[t] EXCEPT !.at = "set", !.sut = call[t].sut, !.args = a]
          = [call[t] EXCEPT !.at = "set", !.args = a]
    BY <1>1 DEF Calling
  <2> QED BY <1>1, <1>6, <2>1
<1>8. call[t].sut \in BOOLEAN
  BY <1>1 DEF Calling
<1> HIDE DEF a
<1>9. /\ call' \in [Thread -> Calling]
      /\ \A u \in Thread : u # t => call'[u] = call[u]
      /\ call'[t].at = "set" /\ call'[t].op = call[t].op /\ call'[t].sut = call[t].sut
      /\ call'[t].args = a /\ call'[t].victim = call[t].victim /\ call'[t].met = call[t].met
  BY <1>5, <1>7, <1>8, GoesOnIs
<1> QED BY <1>3, <1>4, <1>9 DEF a

\* Render has nothing to read any more, and calls stop_sut.
LEMMA RenderIs ==
  ASSUME TypeOK, NEW t \in Thread, Render(t)
  PROVE  /\ call' \in [Thread -> Calling]
         /\ \A u \in Thread : u # t => call'[u] = call[u]
         /\ call'[t].at = "set" /\ call'[t].op = call[t].op /\ call'[t].sut = TRUE
         /\ call'[t].args = 0 /\ call'[t].victim = call[t].victim /\ call'[t].met = call[t].met
<1>1. call' = [call EXCEPT ![t] = [call[t] EXCEPT !.at = "set", !.sut = TRUE, !.args = 0]]
  BY DEF Render, TypeOK
<1>2. 0 \in 0 .. EmptyFolder
  BY AgentAssumption DEF EmptyFolder
<1> QED BY <1>1, <1>2, GoesOnIs

\* Begin starts the call of one thread; the Starts in progress have met it, and it
\* has met what is in progress.
LEMMA BeginIs ==
  ASSUME TypeOK, NEW t \in Thread, NEW what \in {"Start", "Stop", "Close"}, Begin(t, what)
  PROVE  /\ call' \in [Thread -> Calling]
         /\ call[t] = Idle
         /\ \A u \in Thread \ {t} :
               /\ call'[u].at = call[u].at /\ call'[u].op = call[u].op /\ call'[u].sut = call[u].sut
               /\ call'[u].args = call[u].args /\ call'[u].victim = call[u].victim
               /\ call'[u].met = (call[u].met \/ call[u].op = "Start")
               /\ call[u].op # "Start" => call'[u] = call[u]
         /\ call'[t].at = "args" /\ call'[t].op = what /\ call'[t].sut = FALSE
         /\ call'[t].args = 0 /\ call'[t].victim = 0
         /\ call'[t].met = (what = "Start" /\ Others(t))
<1>1. call \in [Thread -> Calling] /\ call[t] = Idle
  BY DEF TypeOK, Calling, Begin, Busy
<1> DEFINE c == [Idle EXCEPT !.at = "args", !.op = what, !.met = what = "Start" /\ Others(t)]
           d(u) == [call[u] EXCEPT !.met = call[u].met \/ call[u].op = "Start"]
<1>2. call' = [u \in Thread |-> IF u = t THEN c ELSE d(u)]
  BY <1>1 DEF Begin, Calling
<1>3. c \in Calling /\ c.at = "args" /\ c.op = what /\ c.sut = FALSE /\ c.args = 0 /\ c.victim = 0
      /\ c.met = (what = "Start" /\ Others(t))
  BY IdleIs DEF Calling, Step
<1>4. ASSUME NEW u \in Thread
      PROVE  /\ d(u) \in Calling
             /\ d(u).at = call[u].at /\ d(u).op = call[u].op /\ d(u).sut = call[u].sut
             /\ d(u).args = call[u].args /\ d(u).victim = call[u].victim
             /\ d(u).met = (call[u].met \/ call[u].op = "Start")
             /\ call[u].op # "Start" => d(u) = call[u]
  <2>1. call[u] \in Calling
    BY <1>1
  <2> QED BY <2>1 DEF Calling
<1> HIDE DEF c, d
<1> QED BY <1>1, <1>2, <1>3, <1>4

\* Raise ends the call of one thread, and with it what it interrupted.
LEMMA RaiseIs ==
  ASSUME TypeOK, NEW t \in Thread, Raise(t)
  PROVE  /\ call' \in [Thread -> Calling]
         /\ call'[t] = Idle
         /\ \A u \in Thread : call'[u] \in {Idle, call[u]}
         /\ \A u \in Thread : u # t /\ ~({t, u} \subseteq Main) => call'[u] = call[u]
         /\ main' \in {"serves", "leaves", "ended"}
         /\ UNCHANGED <<alive, signals, crossed, serving>>
  BY IdleIs DEF Raise, TypeOK, Calling

-----------------------------------------------------------------------------
(* The types.                                                              *)

\* There are not more processes than Starts, and the next number is free.
LEMMA CreatedIs == Created \in Nat /\ (Created < MaxStarts => NewRun \in Run)
<1>1. IsFiniteSet(Run)
  BY AgentAssumption, FS_Interval DEF Run
<1>2. IsFiniteSet({r \in Run : sut[r] # "none"})
  BY <1>1, FS_Subset
<1>3. Created \in Nat
  BY <1>2, FS_CardinalityType DEF Created
<1> QED BY <1>3, AgentAssumption DEF NewRun, Run

\* A folder is opened when there is none.
LEMMA OpenedIs == ASSUME TypeOK PROVE Opened \in 0 .. EmptyFolder /\ Opened # 0
  BY AgentAssumption DEF TypeOK, Opened, EmptyFolder

\* A call that begins is of its type; so is what a signal leaves to be handled.
LEMMA TypeCalls ==
  ASSUME TypeOK, NEW t \in Thread,
         Calls(t) \/ \E sender \in Sender : HandleSignal(t, sender)
  PROVE  TypeOK'
<1>1. PICK what \in {"Start", "Stop", "Close"} : Begin(t, what)
  BY DEF Calls, CallStart, CallStop, CallShutdown, ServeCall, HandleSignal
<1>2. call' \in [Thread -> Calling]
  BY <1>1, BeginIs
<1>3. UNCHANGED <<sutVars, watchVars, metricVars, listenVars, alive, serving, main>>
  BY <1>1 DEF Begin
<1>4. crossed' \subseteq 0 .. MaxStarts
  <2>1. crossed' = crossed \cup {call[u].victim : u \in {w \in Thread : Launching(w)}}
    BY <1>1 DEF Begin
  <2>2. \A u \in Thread : call[u].victim \in 0 .. MaxStarts
    BY DEF TypeOK
  <2>3. crossed \subseteq 0 .. MaxStarts
    BY DEF TypeOK
  <2> QED BY <2>1, <2>2, <2>3
<1>5. signals' \in [Sender -> Nat]
  <2>1. CASE Calls(t)
    BY <2>1 DEF Calls, CallStart, CallStop, CallShutdown, ServeCall, TypeOK
  <2>2. CASE \E sender \in Sender : HandleSignal(t, sender)
    <3>1. PICK sender \in Sender : signals[sender] > 0
                                   /\ signals' = [signals EXCEPT ![sender] = signals[sender] - 1]
      BY <2>2 DEF HandleSignal
    <3>2. signals \in [Sender -> Nat] /\ signals[sender] - 1 \in Nat
      BY <3>1 DEF TypeOK
    <3> QED BY <3>1, <3>2
  <2> QED BY <2>1, <2>2
<1> QED BY <1>2, <1>3, <1>4, <1>5 DEF TypeOK, Calling, sutVars, watchVars, metricVars, listenVars

\* The steps of Stop.
LEMMA TypeStop ==
  ASSUME TypeOK, NEW t \in Thread,
         \/ GetArguments(t) \/ SetEvent(t) \/ JoinWatcher(t) \/ Joined(t)
         \/ NothingToStop(t) \/ Terminate(t) \/ TimeOut(t) \/ Kill(t) \/ Reap(t) \/ Forget(t)
         \/ CloseLog(t) \/ StopListening(t) \/ JoinListener(t) \/ CloseFolder(t) \/ Extract(t) \/ Merge(t)
  PROVE  TypeOK'
<1>s. {"set", "join", "joins", "check", "wait", "kill", "forget", "close", "listen", "unlisten", "fold",
       "extract", "merge", "render", "create", "shut", "idle"} \subseteq Step
  BY DEF Step
<1>w. watcher \in 0 .. MaxStarts /\ process \in 0 .. MaxStarts /\ 0 \in 0 .. MaxStarts
  BY AgentAssumption DEF TypeOK
<1>r. Returned(t) \in {"render", "shut", "idle"}
  BY DEF Returned
<1>o. Opened \in 0 .. EmptyFolder
  BY OpenedIs
<1>1. CASE GetArguments(t)
  <2>1. call' \in [Thread -> Calling]
    BY <1>1, GetArgumentsIs
  <2> QED BY <2>1, <1>1, GetArgumentsIs DEF GetArguments,
               TypeOK, Calling, sutVars, watchVars, metricVars, listenVars, agentVars
<1>2. CASE SetEvent(t)
  <2>1. call' \in [Thread -> Calling]
    BY <1>2, <1>s, <1>r, GotoIs DEF SetEvent
  <2> QED BY <2>1, <1>2 DEF SetEvent,
               TypeOK, Calling, sutVars, watchVars, metricVars, listenVars, agentVars
<1>3. CASE JoinWatcher(t)
  <2>1. call' \in [Thread -> Calling]
    BY <1>3, <1>s, <1>r, <1>w, GotoWithIs DEF JoinWatcher
  <2> QED BY <2>1, <1>3 DEF JoinWatcher,
               TypeOK, Calling, sutVars, watchVars, metricVars, listenVars, agentVars
<1>4. CASE Joined(t)
  <2>1. call' \in [Thread -> Calling]
    BY <1>4, <1>s, <1>r, <1>w, GotoWithIs DEF Joined
  <2> QED BY <2>1, <1>4 DEF Joined,
               TypeOK, Calling, sutVars, watchVars, metricVars, listenVars, agentVars
<1>5. CASE NothingToStop(t)
  <2>1. call' \in [Thread -> Calling]
    BY <1>5, <1>s, <1>r, GotoIs DEF NothingToStop
  <2> QED BY <2>1, <1>5 DEF NothingToStop,
               TypeOK, Calling, sutVars, watchVars, metricVars, listenVars, agentVars
<1>6. CASE Terminate(t)
  <2>1. call' \in [Thread -> Calling]
    BY <1>6, <1>s, <1>r, <1>w, GotoWithIs DEF Terminate, WhileEnding
  <2> QED BY <2>1, <1>6 DEF Terminate, WhileEnding,
               TypeOK, Calling, sutVars, watchVars, metricVars, listenVars, agentVars
<1>7. CASE TimeOut(t)
  <2>1. call' \in [Thread -> Calling]
    BY <1>7, <1>s, <1>r, GotoIs DEF TimeOut, AfterTimeout
  <2> QED BY <2>1, <1>7 DEF TimeOut, AfterTimeout,
               TypeOK, Calling, sutVars, watchVars, metricVars, listenVars, agentVars
<1>8. CASE Kill(t)
  <2>1. call' \in [Thread -> Calling]
    BY <1>8, <1>s, <1>r, GotoIs DEF Kill
  <2> QED BY <2>1, <1>8 DEF Kill,
               TypeOK, Calling, sutVars, watchVars, metricVars, listenVars, agentVars
<1>9. CASE Reap(t)
  <2>1. call' \in [Thread -> Calling]
    BY <1>9, <1>s, <1>r, GotoIs DEF Reap
  <2> QED BY <2>1, <1>9 DEF Reap,
               TypeOK, Calling, sutVars, watchVars, metricVars, listenVars, agentVars
<1>10. CASE Forget(t)
  <2>1. call' \in [Thread -> Calling]
    BY <1>10, <1>s, <1>w, GotoWithIs DEF Forget
  <2> QED BY <2>1, <1>10, <1>w DEF Forget,
               TypeOK, Calling, sutVars, watchVars, metricVars, listenVars, agentVars
<1>16. CASE CloseLog(t)
  <2>1. call' \in [Thread -> Calling]
    BY <1>16, <1>s, GotoIs, RaiseIs DEF CloseLog
  <2>2. open' \subseteq Run
    BY <1>16 DEF CloseLog, TypeOK
  <2>3. main' \in {"serves", "leaves", "ended"} /\ UNCHANGED <<alive, signals, crossed, serving>>
    BY <1>16, RaiseIs DEF CloseLog, agentVars, TypeOK
  <2> QED BY <2>1, <2>2, <2>3, <1>16 DEF CloseLog,
               TypeOK, Calling, watchVars, metricVars, listenVars
<1>11. CASE StopListening(t)
  <2>1. call' \in [Thread -> Calling]
    BY <1>11, <1>s, <1>r, GotoIs DEF StopListening, StopReturns
  <2> QED BY <2>1, <1>11 DEF StopListening, StopReturns,
               TypeOK, Calling, sutVars, watchVars, metricVars, listenVars, agentVars
<1>12. CASE JoinListener(t)
  <2>1. call' \in [Thread -> Calling]
    BY <1>12, <1>s, <1>r, GotoIs DEF JoinListener, StopReturns
  <2> QED BY <2>1, <1>12, <1>o DEF JoinListener, StopReturns,
               TypeOK, Calling, sutVars, watchVars, metricVars, listenVars, agentVars
<1>13. CASE CloseFolder(t)
  <2>1. call' \in [Thread -> Calling]
    BY <1>13, <1>s, <1>r, GotoIs DEF CloseFolder
  <2>2. folder' \in 0 .. EmptyFolder
    BY <1>13, AgentAssumption DEF CloseFolder, EmptyFolder
  <2> QED BY <2>1, <2>2, <1>13 DEF CloseFolder,
               TypeOK, Calling, sutVars, watchVars, metricVars, listenVars, agentVars
<1>14. CASE Extract(t)
  <2>1. call' \in [Thread -> Calling]
    BY <1>14, <1>s, <1>r, GotoIs, RaiseIs DEF Extract
  <2> QED BY <2>1, <1>14 DEF Extract, Raise,
               TypeOK, Calling, sutVars, watchVars, metricVars, listenVars, agentVars
<1>15. CASE Merge(t)
  <2>1. call' \in [Thread -> Calling]
    BY <1>15, <1>s, <1>r, GotoIs DEF Merge
  <2>2. metrics' \in Seq((0 .. MaxStarts) \X (0 .. EmptyFolder))
    BY <1>15 DEF Merge, TypeOK
  <2>3. done' \in BOOLEAN
    BY <1>15 DEF Merge
  <2> QED BY <2>1, <2>2, <2>3, <1>15 DEF Merge,
               TypeOK, Calling, sutVars, watchVars, metricVars, listenVars, agentVars
<1> QED BY <1>1, <1>2, <1>3, <1>4, <1>5, <1>6, <1>7, <1>8, <1>9, <1>10, <1>11, <1>12, <1>13, <1>14, <1>15, <1>16

\* The steps of Start and of close() after Stop.
LEMMA TypeStart ==
  ASSUME TypeOK, NEW t \in Thread,
         \/ Render(t) \/ DryRun(t) \/ Create(t) \/ NewThread(t) \/ NewEvent(t)
         \/ AwaitStarted(t) \/ StartListening(t) \/ Started(t)
         \/ TellAlive(t) \/ StopServer(t)
  PROVE  TypeOK'
<1>s. {"idle", "set", "thread", "event", "await", "hear", "heard", "shuts"} \subseteq Step
  BY DEF Step
<1>c. Created \in Nat /\ (Created < MaxStarts => NewRun \in Run)
  BY CreatedIs
<1>1. CASE Render(t)
  <2>1. call' \in [Thread -> Calling]
    BY <1>1, RenderIs
  <2>2. folder' \in 0 .. EmptyFolder
    BY <1>1, <1>c, AgentAssumption DEF Render, EmptyFolder, TypeOK
  <2> QED BY <2>1, <2>2, <1>1 DEF Render,
               TypeOK, Calling, sutVars, watchVars, metricVars, listenVars, agentVars
<1>2. CASE DryRun(t)
  <2>1. call' \in [Thread -> Calling]
    BY <1>2, <1>s, <1>c, GotoIs DEF DryRun, Run
  <2> QED BY <2>1, <1>2, <1>c, AgentAssumption DEF DryRun, Run, EmptyFolder, NewRun,
               TypeOK, Calling, sutVars, watchVars, metricVars, listenVars, agentVars
<1>3. CASE Create(t)
  <2>1. call' \in [Thread -> Calling]
    BY <1>3, <1>s, <1>c, GotoWithIs, RaiseIs DEF Create, Run
  <2>2. NewRun \in Run /\ NewRun \in 0 .. MaxStarts
    BY <1>3, <1>c DEF Create, Run
  <2>3. logfile' = NewRun /\ open' = open \cup {NewRun} /\ process' \in {process, NewRun}
        /\ sut' \in {sut, [sut EXCEPT ![NewRun] = "up"]}
    BY <1>3 DEF Create
  <2>4. /\ main' \in {"serves", "leaves", "ended"} /\ UNCHANGED <<alive, signals, serving>>
        /\ crossed' \in {crossed, crossed \cup {NewRun}}
    BY <1>3, RaiseIs DEF Create, TypeOK
  <2> HIDE DEF NewRun
  <2> QED BY <2>1, <2>2, <2>3, <2>4, <1>3 DEF Create,
               TypeOK, Calling, watchVars, metricVars, listenVars
<1>4. CASE NewThread(t)
  <2>1. call' \in [Thread -> Calling]
    BY <1>4, <1>s, <1>c, GotoIs DEF NewThread, Run
  <2> QED BY <2>1, <1>4, <1>c, AgentAssumption DEF NewThread, Run, EmptyFolder, NewRun,
               TypeOK, Calling, sutVars, watchVars, metricVars, listenVars, agentVars
<1>5. CASE NewEvent(t)
  <2>1. call' \in [Thread -> Calling]
    BY <1>5, <1>s, <1>c, GotoIs DEF NewEvent, Run
  <2> QED BY <2>1, <1>5, <1>c, AgentAssumption DEF NewEvent, Run, EmptyFolder, NewRun,
               TypeOK, Calling, sutVars, watchVars, metricVars, listenVars, agentVars
<1>6. CASE AwaitStarted(t)
  <2>1. call' \in [Thread -> Calling]
    BY <1>6, <1>s, <1>c, GotoIs, RaiseIs DEF AwaitStarted, Run
  <2> QED BY <2>1, <1>6, <1>c, AgentAssumption DEF AwaitStarted, Run, EmptyFolder, NewRun, Raise,
               TypeOK, Calling, sutVars, watchVars, metricVars, listenVars, agentVars
<1>7. CASE StartListening(t)
  <2>1. call' \in [Thread -> Calling]
    BY <1>7, <1>s, <1>c, GotoIs DEF StartListening, Run, NewMetrics
  <2>2. metrics' \in Seq((0 .. MaxStarts) \X (0 .. EmptyFolder)) /\ done' \in BOOLEAN
    <3>1. metrics' = << >> /\ done' = FALSE
      BY <1>7 DEF StartListening, NewMetrics
    <3>2. << >> \in Seq((0 .. MaxStarts) \X (0 .. EmptyFolder)) /\ FALSE \in BOOLEAN
      OBVIOUS
    <3> QED BY <3>1, <3>2, Zenon
  <2>3. call[t].victim \in 0 .. MaxStarts
    BY DEF TypeOK
  <2>4. hears' \in [Run -> {"none", "runs", "ended"}]
    BY <1>7 DEF StartListening, TypeOK
  <2> QED BY <2>1, <2>2, <2>3, <2>4, <1>7 DEF StartListening,
               TypeOK, Calling, sutVars, watchVars, listenVars, agentVars
<1>8. CASE Started(t)
  <2>1. call' \in [Thread -> Calling]
    BY <1>8, <1>s, <1>c, GotoIs DEF Started, Run
  <2> QED BY <2>1, <1>8, <1>c, AgentAssumption DEF Started, Run, EmptyFolder, NewRun,
               TypeOK, Calling, sutVars, watchVars, metricVars, listenVars, agentVars
<1>9. CASE TellAlive(t)
  <2>1. call' \in [Thread -> Calling]
    BY <1>9, <1>s, <1>c, GotoIs DEF TellAlive, Run
  <2> QED BY <2>1, <1>9, <1>c, AgentAssumption DEF TellAlive, Run, EmptyFolder, NewRun,
               TypeOK, Calling, sutVars, watchVars, metricVars, listenVars, agentVars
<1>10. CASE StopServer(t)
  <2>1. call' \in [Thread -> Calling]
    BY <1>10, <1>s, <1>c, GotoIs DEF StopServer, Run
  <2> QED BY <2>1, <1>10, <1>c, AgentAssumption DEF StopServer, Run, EmptyFolder, NewRun,
               TypeOK, Calling, sutVars, watchVars, metricVars, listenVars, agentVars
<1> QED BY <1>1, <1>2, <1>3, <1>4, <1>5, <1>6, <1>7, <1>8, <1>9, <1>10

\* The threads without a call, the SUT processes and the environment.
LEMMA TypeOthers ==
  ASSUME TypeOK,
         \/ \E r \in Run : Watches(r) \/ ListenerQuits(r) \/ ListenerCloses(r) \/ SutEnds(r)
         \/ KeepAliveExpires \/ KeepAliveEnds \/ MainLeaves \/ MainEnds
  PROVE  TypeOK'
<1> USE DEF TypeOK, Calling, sutVars, watchVars, metricVars, listenVars, agentVars
<1>o. Opened \in 0 .. EmptyFolder
  BY OpenedIs
<1>1. CASE \E r \in Run : Look(r) \/ Flush(r)
  <2>1. stop' \subseteq 0 .. MaxStarts
    <3>1. stop' \in {stop, stop \cup {event}}
      BY <1>1 DEF Look, LooksAtProcess, Flush
    <3> QED BY <3>1
  <2>2. watch' \in [Run -> {"none", "looks", "flushes", "ended"}]
    <3>1. PICK r \in Run, next \in {"looks", "flushes", "ended"} : watch' = [watch EXCEPT ![r] = next]
      BY <1>1 DEF Look, LooksAtProcess, Flush
    <3> QED BY <3>1
  <2>3. folder' \in {folder, Opened}
    BY <1>1 DEF Look, LooksAtProcess, Flush
  <2>4. UNCHANGED <<call, sutVars, watcher, event, metrics, done, records, listenVars, agentVars>>
    BY <1>1 DEF Look, Flush
  <2> QED BY <2>1, <2>2, <2>3, <2>4, <1>o
<1>2. CASE \E r \in Run : ListenerQuits(r) \/ ListenerCloses(r)
  <2>1. PICK r \in Run : ListenerEnds(r)
    BY <1>2 DEF ListenerQuits, ListenerCloses
  <2> QED BY <2>1, <1>o DEF ListenerEnds
<1>3. CASE \E r \in Run : SutEnds(r)
  BY <1>3 DEF SutEnds
<1>4. CASE KeepAliveExpires \/ KeepAliveEnds
  <2>1. alive' = "ended" /\ signals' \in {signals, OneSignal}
    BY <1>4 DEF KeepAliveExpires, KeepAliveEnds
  <2>2. OneSignal \in [Sender -> Nat]
    <3>1. "keepalive" \in Sender /\ signals \in [Sender -> Nat]
      BY DEF Sender
    <3>2. signals["keepalive"] + 1 \in Nat
      BY <3>1
    <3> QED BY <3>1, <3>2 DEF OneSignal
  <2> QED BY <1>4, <2>1, <2>2 DEF KeepAliveExpires, KeepAliveEnds
<1>5. CASE MainLeaves \/ MainEnds
  BY <1>5 DEF MainLeaves, MainEnds
<1> QED BY <1>1, <1>2, <1>3, <1>4, <1>5 DEF Watches

\* Every step keeps the types.
LEMMA TypeStep == ASSUME TypeOK, [Next]_vars PROVE TypeOK'
<1>1. CASE Next
  <2>1. CASE \E t \in Thread : Calls(t) \/ \E sender \in Sender : HandleSignal(t, sender)
    BY <2>1, TypeCalls
  <2>2. CASE \E t \in Thread : Proceed(t)
    BY <2>2, TypeStop, TypeStart, Zenon DEF Proceed
  <2>3. CASE ~(\E t \in Thread : Calls(t) \/ Proceed(t) \/ \E sender \in Sender : HandleSignal(t, sender))
    <3>1. \A t \in Main : t \in Thread
      BY DEF Thread
    <3> QED BY <1>1, <2>3, <3>1, TypeOthers, Zenon DEF Next
  <2> QED BY <2>1, <2>2, <2>3
<1>2. CASE UNCHANGED vars
  BY <1>2 DEF vars, TypeOK, sutVars, watchVars, metricVars, listenVars, agentVars
<1> QED BY <1>1, <1>2

\* Every variable keeps its type.
THEOREM TypeCorrect == Spec => []TypeOK
<1>1. ASSUME Init PROVE TypeOK
  <2>1. call \in [Thread -> Calling]
    BY <1>1, IdleIs DEF Init
  <2>2. 0 \in 0 .. MaxStarts /\ 0 \in 0 .. EmptyFolder
    BY AgentAssumption DEF EmptyFolder
  <2>6. signals \in [Sender -> Nat]
    BY <1>1, AgentAssumption DEF Init
  <2>3. metrics \in Seq((0 .. MaxStarts) \X (0 .. EmptyFolder))
    BY <1>1 DEF Init
  <2>4. done \in BOOLEAN /\ listening \in BOOLEAN /\ serving \in BOOLEAN
    BY <1>1 DEF Init
  <2>5. /\ sut \in [Run -> {"none", "up", "dead"}]
        /\ watch \in [Run -> {"none", "looks", "flushes", "ended"}]
        /\ hears \in [Run -> {"none", "runs", "ended"}]
    BY <1>1 DEF Init
  <2> QED BY <1>1, <2>1, <2>2, <2>3, <2>4, <2>5, <2>6 DEF Init, TypeOK, Calling
<1> QED BY <1>1, TypeStep, PTL DEF Spec

-----------------------------------------------------------------------------
(* The inductive invariant.                                                *)

\* A Start has created the process.
Launched == {"thread", "event", "await", "hear", "heard"}

\* A stop waits for the process it has read to end.
Ending == {"wait", "kill"}

\* The stop of a call has seen the process end, or there was nothing to stop.
Stopped(t) ==
    \/ call[t].at \in {"forget", "close", "listen", "unlisten", "fold", "extract", "merge",
                       "render", "create", "shut", "shuts"}
    \/ call[t].sut /\ call[t].at \notin Launched

\* The SUTs that are promised not to stray: no other handler ran during their Start.
Uncrossed == Run \ crossed

\* Which steps belong to which call.
Shape(t) ==
    /\ call[t].at = "idle" \/ call[t].op = "none" => call[t] = Idle
    /\ call[t].sut \/ call[t].at = "render" => call[t].op = "Start"
    /\ call[t].at \in Launched \cup {"create"} => call[t].sut
    /\ call[t].at \in {"args", "fold", "extract", "merge", "render"} => ~call[t].sut
    /\ call[t].sut => call[t].args = 0
    /\ call[t].at = "merge" => call[t].args # 0

\* What a call knows of the processes.  A stop waits for the only one of them that
\* may run, and after it none does: one that is created meanwhile is crossed.
Holds(t) ==
    /\ call[t].at \in Ending =>
          /\ call[t].victim \in Run /\ sut[call[t].victim] # "none"
          /\ \A r \in Uncrossed : Running(r) => r = call[t].victim
    /\ Stopped(t) => \A r \in Uncrossed : ~Running(r)
    /\ call[t].at \in Launched => /\ call[t].victim \in Run
                                  /\ call[t].met => call[t].victim \in crossed

\* What a call will read: captures of the run whose metrics are counted, or of a
\* folder opened too late.
Reads(t) ==
    /\ records \in crossed \/ call[t].args \in {0, records, EmptyFolder}
    /\ call[t].at = "render" => done \/ records \in crossed

\* The folder of a Start that has met no other handler: none, the one of its run,
\* or one that a thread of the run before opened too late.
Folder(t) ==
    call[t].op = "Start" /\ ~call[t].met =>
        /\ call[t].at \in {"extract", "merge", "render"} => folder \in {0, EmptyFolder}
        /\ call[t].sut /\ call[t].at \notin Launched /\ Created < MaxStarts
              => folder \in {Created + 1, EmptyFolder}
        /\ call[t].at \in Launched => folder \in {call[t].victim, EmptyFolder}

CallIs(t) == Shape(t) /\ Holds(t) /\ Reads(t) /\ Folder(t)

CallInv == \A t \in Thread : CallIs(t)

\* No other call runs next to a Start that has met none.
Alone == \A t, u \in Thread : call[t].op = "Start" /\ ~call[t].met /\ u # t => call[u] = Idle

\* The processes are numbered in order, and of those that are not crossed only the
\* one _process names may run.
Processes ==
    /\ {r \in Run : sut[r] # "none"} = 1 .. Created
    /\ \A r \in Uncrossed : Running(r) => process = r
    /\ process # 0 => sut[process] # "none"

\* What is in _metrics is of the run that is counted, and so is what is still to
\* be read.
Counted ==
    /\ ~done /\ records \notin crossed => folder \in {0, records, EmptyFolder}
    /\ \A i \in DOMAIN metrics :
          /\ metrics[i][1] = records
          /\ records \notin crossed => metrics[i][2] \in {records, EmptyFolder}

\* In a server that has been stopped none of them runs, and every Start that is
\* still running has met the close() that stopped it.
Served ==
    ~serving => /\ \A r \in Uncrossed : ~Running(r)
                /\ \A t \in Thread : call[t].op = "Start" => call[t].met

IInv == CallInv /\ Alone /\ Processes /\ Counted /\ Served

-----------------------------------------------------------------------------
(* What the steps have in common.                                          *)

\* No process is created or forgotten as a number when none leaves "none".
LEMMA SameCreated ==
  ASSUME \A r \in Run : (sut'[r] = "none") <=> (sut[r] = "none")
  PROVE  Created' = Created /\ {r \in Run : sut'[r] # "none"} = {r \in Run : sut[r] # "none"}
<1>1. {r \in Run : sut'[r] # "none"} = {r \in Run : sut[r] # "none"}
  OBVIOUS
<1> QED BY <1>1 DEF Created

\* A thread without a call satisfies what is asked of a call.
LEMMA IdleIsFine == ASSUME NEW t \in Thread, call'[t] = Idle PROVE CallIs(t)'
  BY IdleIs DEF CallIs, Shape, Holds, Reads, Folder, Stopped, Ending, Launched

\* Next to a call in progress every Start has met another handler.
LEMMA OthersHaveMet ==
  ASSUME Alone, NEW t \in Thread, call[t].at # "idle"
  PROVE  \A u \in Thread \ {t} : call[u].op = "Start" => call[u].met
  BY IdleIs DEF Alone

\* A step of one call keeps what is asked of the others, and leaves the Starts
\* that have met no other handler alone.  Either there is no other call, or no SUT
\* that is not crossed begins to run, and no run that is not crossed is counted.
LEMMA CallsKeep ==
  ASSUME CallInv, Alone, NEW t \in Thread, call[t].at # "idle", CallIs(t)',
         \A u \in Thread \ {t} : call'[u] \in {Idle, call[u]},
         call'[t] = Idle \/ (call'[t].op = call[t].op /\ call'[t].met = call[t].met),
         \/ \A u \in Thread \ {t} : call[u] = Idle
         \/ /\ crossed \subseteq crossed'
            /\ \A r \in Run : sut[r] # "none" => sut'[r] # "none"
            /\ \A r \in Run \ crossed' : Running(r)' => Running(r)
            /\ records' \in crossed' \/ (records' = records /\ (done => done'))
  PROVE  CallInv' /\ Alone'
<1>1. ASSUME NEW u \in Thread \ {t}, call'[u] # Idle PROVE CallIs(u)'
  <2>1. call'[u] = call[u] /\ CallIs(u)
    BY <1>1 DEF CallInv
  <2>2. call[u].op = "Start" => call[u].met
    BY OthersHaveMet
  <2>3. /\ crossed \subseteq crossed'
        /\ \A r \in Run : sut[r] # "none" => sut'[r] # "none"
        /\ \A r \in Run \ crossed' : Running(r)' => Running(r)
        /\ records' \in crossed' \/ (records' = records /\ (done => done'))
    BY <1>1, <2>1
  <2>4. Shape(u)'
    BY <2>1 DEF CallIs, Shape
  <2>5. Holds(u)'
    BY <2>1, <2>3 DEF CallIs, Holds, Stopped, Uncrossed
  <2>6. Reads(u)'
    BY <2>1, <2>3 DEF CallIs, Reads
  <2>7. Folder(u)'
    BY <2>1, <2>2 DEF Folder
  <2> QED BY <2>4, <2>5, <2>6, <2>7 DEF CallIs
<1>2. CallInv'
  BY <1>1, IdleIsFine DEF CallInv
<1>3. Alone'
  <2> SUFFICES ASSUME NEW v \in Thread, NEW u \in Thread, call'[v].op = "Start", ~call'[v].met, u # v
               PROVE  call'[u] = Idle
    BY DEF Alone
  <2>1. call[v].op = "Start" /\ ~call[v].met
    BY IdleIs
  <2>2. call[u] = Idle
    BY <2>1 DEF Alone
  <2>3. u # t
    BY <2>2, IdleIs
  <2> QED BY <2>2, <2>3
<1> QED BY <1>2, <1>3

\* What a step of a call leaves alone when it only changes where the call is: a
\* process may end, and a folder be opened.
Quiet(t) ==
    /\ UNCHANGED <<process, crossed, metrics, done, records, serving>>
    /\ folder' \in {folder, Opened}
    /\ \A r \in Run : sut'[r] = sut[r] \/ (sut[r] # "none" /\ sut'[r] = "dead")
    /\ \A u \in Thread \ {t} : call'[u] \in {Idle, call[u]}

\* Such a step keeps the invariant when the call stays one of its kind.
LEMMA Moves ==
  ASSUME TypeOK, IInv, NEW t \in Thread, call[t].at # "idle", Quiet(t), CallIs(t)',
         call'[t] = Idle \/ (call'[t].op = call[t].op /\ call'[t].met = call[t].met)
  PROVE  IInv'
<1> USE DEF IInv
<1>1. \A r \in Run : /\ (sut'[r] = "none") <=> (sut[r] = "none")
                     /\ Running(r)' => Running(r)
  BY DEF Quiet, Running
<1>2. CallInv' /\ Alone'
  BY <1>1, CallsKeep DEF Quiet
<1>3. Processes'
  <2>1. process # 0 => process \in Run
    BY DEF TypeOK, Run
  <2> QED BY <1>1, <2>1, SameCreated DEF Quiet, Processes, Uncrossed
<1>4. Counted'
  BY DEF Quiet, Counted, Opened
<1>5. Served'
  <2>1. \A u \in Thread : call'[u].op = "Start" => call[u].op = "Start" /\ call'[u].met = call[u].met
    BY IdleIs DEF Quiet
  <2> QED BY <1>1, <2>1 DEF Quiet, Served, Uncrossed
<1> QED BY <1>2, <1>3, <1>4, <1>5

\* Where a call may go without reading or stopping anything new.
LEMMA MovesOn ==
  ASSUME TypeOK, IInv, NEW t \in Thread, NEW a \in Step \ {"idle"}, NEW b \in Step \ {"idle"},
         call[t].at = a, Quiet(t),
         call'[t].at = b, call'[t].op = call[t].op, call'[t].sut = call[t].sut,
         call'[t].met = call[t].met, call'[t].args = call[t].args,
         b = "render" => call[t].op = "Start" /\ (done \/ records \in crossed),
         b = "merge" => call[t].args # 0,
         b = "create" => call[t].sut,
         b \in {"args", "fold", "extract", "merge", "render"} => ~call[t].sut,
         b \in {"extract", "merge", "render"} => a \in {"extract", "merge", "render"},
         b \in Launched <=> a \in Launched,
         b \in Launched => call'[t].victim = call[t].victim,
         b \in Ending => /\ call'[t].victim \in Run /\ sut[call'[t].victim] # "none"
                         /\ \A r \in Uncrossed : Running(r) => r = call'[t].victim,
         Stopped(t)' => Stopped(t) \/ \A r \in Uncrossed : ~Running(r)'
  PROVE  IInv'
<1>0. CallIs(t)
  BY DEF IInv, CallInv
<1>1. /\ \A r \in Run : (sut'[r] = "none" <=> sut[r] = "none") /\ (Running(r)' => Running(r))
      /\ Uncrossed' = Uncrossed
  BY DEF Quiet, Running, Uncrossed
<1>2. Created' = Created
  BY <1>1, SameCreated
<1>3. Shape(t)'
  BY <1>0, IdleIs DEF CallIs, Shape
<1>4. Holds(t)'
  <2>1. call'[t].at \in Ending => /\ call'[t].victim \in Run /\ sut'[call'[t].victim] # "none"
                                  /\ \A r \in Uncrossed' : Running(r)' => r = call'[t].victim
    BY <1>1 DEF Uncrossed
  <2>2. Stopped(t)' => \A r \in Uncrossed' : ~Running(r)'
    BY <1>0, <1>1 DEF CallIs, Holds, Uncrossed
  <2>3. call'[t].at \in Launched => /\ call'[t].victim \in Run
                                    /\ call'[t].met => call'[t].victim \in crossed'
    BY <1>0 DEF CallIs, Holds, Quiet
  <2> QED BY <2>1, <2>2, <2>3 DEF Holds, Ending, Launched
<1>5. Reads(t)'
  BY <1>0 DEF CallIs, Reads, Quiet
<1>6. Folder(t)'
  <2>1. folder \in {0, EmptyFolder} => folder' \in {0, EmptyFolder}
    BY DEF Quiet, Opened
  <2>2. folder # 0 => folder' = folder
    BY DEF Quiet, Opened
  <2>3. Created + 1 # 0 /\ (call[t].at \in Launched => call[t].victim # 0)
    BY <1>0, CreatedIs DEF CallIs, Holds, Run
  <2>4. EmptyFolder # 0
    BY AgentAssumption DEF EmptyFolder
  <2> QED BY <1>0, <1>2, <2>1, <2>2, <2>3, <2>4 DEF CallIs, Folder
<1> QED BY <1>3, <1>4, <1>5, <1>6, Moves DEF CallIs


-----------------------------------------------------------------------------
(* The steps that only change where a call is.                             *)

\* Of the steps of Stop: those that wait, look, or find nothing to do.
LEMMA QuietStop ==
  ASSUME TypeOK, IInv, NEW t \in Thread,
         \/ SetEvent(t) \/ JoinWatcher(t) \/ Joined(t) \/ NothingToStop(t)
         \/ TimeOut(t) \/ StopListening(t) \/ JoinListener(t)
  PROVE  IInv'
<1>0. CallIs(t)
  BY DEF IInv, CallInv
<1>s. {"set", "join", "joins", "check", "wait", "kill", "listen", "unlisten", "fold", "create"}
         \subseteq Step \ {"idle"}
  BY DEF Step
<1>w. watcher \in 0 .. MaxStarts /\ 0 \in 0 .. MaxStarts
  BY AgentAssumption DEF TypeOK
<1> DEFINE To(b, from) ==
      /\ call[t].at \in from
      /\ Goto(t, b) \/ (b \in {"joins", "check"} /\ \E v \in 0 .. MaxStarts : GotoWith(t, b, v))
<1>1. \/ To("join", {"set"}) \/ To("joins", {"join"}) \/ To("check", {"joins"}) \/ To("kill", {"wait"})
      \/ To("listen", {"check"}) /\ process = 0
      \/ To("unlisten", {"listen"})
      \/ To("create", {"listen", "unlisten"}) /\ call[t].sut
      \/ To("fold", {"listen", "unlisten"}) /\ ~call[t].sut
  BY <1>w DEF SetEvent, JoinWatcher, Joined, NothingToStop, TimeOut, AfterTimeout, StopListening,
              JoinListener, StopReturns, At
<1>2. PICK a \in Step \ {"idle"}, b \in Step \ {"idle"} :
        /\ call[t].at = a /\ To(b, {a})
        /\ \/ a \in {"set", "join", "joins"} /\ b \in {"join", "joins", "check"}
           \/ a = "wait" /\ b = "kill"
           \/ a = "check" /\ b = "listen" /\ process = 0
           \/ a \in {"listen", "unlisten"} /\ b = "unlisten"
           \/ a \in {"listen", "unlisten"} /\ b = "create" /\ call[t].sut
           \/ a \in {"listen", "unlisten"} /\ b = "fold" /\ ~call[t].sut
  BY <1>1, <1>s
<1>3. /\ \A u \in Thread : u # t => call'[u] = call[u]
      /\ call'[t].at = b /\ call'[t].op = call[t].op /\ call'[t].sut = call[t].sut
      /\ call'[t].met = call[t].met /\ call'[t].args = call[t].args
      /\ b \notin {"joins", "check"} => call'[t].victim = call[t].victim
  <2>1. CASE Goto(t, b)
    BY <2>1, GotoIs
  <2>2. CASE b \in {"joins", "check"} /\ \E v \in 0 .. MaxStarts : GotoWith(t, b, v)
    BY <2>2, GotoWithIs
  <2> QED BY <1>2, <2>1, <2>2
<1>4. Quiet(t)
  <2>1. UNCHANGED <<sut, process, crossed, metrics, done, records, serving>>
    BY DEF SetEvent, JoinWatcher, Joined, NothingToStop, TimeOut, StopListening, JoinListener,
           sutVars, metricVars, agentVars
  <2>2. folder' \in {folder, Opened}
    BY DEF SetEvent, JoinWatcher, Joined, NothingToStop, TimeOut, StopListening, JoinListener, metricVars
  <2> QED BY <1>3, <2>1, <2>2 DEF Quiet
<1>5. Stopped(t)' => Stopped(t) \/ \A r \in Uncrossed : ~Running(r)'
  <2>1. CASE b = "listen"
    <3>1. process = 0 /\ \A r \in Uncrossed : Running(r) => process = r
      BY <1>2, <2>1 DEF IInv, Processes
    <3>2. \A r \in Uncrossed : Running(r)' => Running(r)
      BY <1>4 DEF Quiet, Running, Uncrossed
    <3> QED BY <3>1, <3>2 DEF Uncrossed, Run
  <2>2. CASE b # "listen"
    BY <1>2, <1>3, <2>2 DEF Stopped, Launched
  <2> QED BY <2>1, <2>2
<1>6. b \in Ending => /\ call'[t].victim \in Run /\ sut[call'[t].victim] # "none"
                      /\ \A r \in Uncrossed : Running(r) => r = call'[t].victim
  BY <1>0, <1>2, <1>3 DEF CallIs, Holds, Ending
<1> HIDE DEF To
<1> QED BY <1>2, <1>3, <1>4, <1>5, <1>6, MovesOn DEF Launched

\* Of the steps of Stop: the process of the moment is asked to end, and it is the
\* only one that may run.
LEMMA TerminateStep == ASSUME TypeOK, IInv, NEW t \in Thread, Terminate(t) PROVE IInv'
<1>1. call[t].at = "check" /\ process # 0 /\ GotoWith(t, "wait", process) /\ process' = process
      /\ UNCHANGED <<sut, crossed, metrics, done, records, folder, serving>>
  BY DEF Terminate, WhileEnding, At, metricVars, agentVars
<1>2. process \in Run /\ process \in 0 .. MaxStarts /\ {"check", "wait"} \subseteq Step \ {"idle"}
  BY <1>1, AgentAssumption DEF TypeOK, Run, Step
<1>3. /\ \A u \in Thread : u # t => call'[u] = call[u]
      /\ call'[t].at = "wait" /\ call'[t].op = call[t].op /\ call'[t].sut = call[t].sut
      /\ call'[t].met = call[t].met /\ call'[t].args = call[t].args /\ call'[t].victim = process
  BY <1>1, <1>2, GotoWithIs
<1>4. Quiet(t)
  BY <1>1, <1>3 DEF Quiet
<1>5. sut[process] # "none" /\ \A r \in Uncrossed : Running(r) => r = process
  BY <1>1 DEF IInv, Processes
<1>6. Stopped(t)' => Stopped(t)
  BY <1>1, <1>3 DEF Stopped, Launched
<1> QED BY <1>1, <1>2, <1>3, <1>4, <1>5, <1>6, MovesOn DEF Launched

\* Of the steps of Stop: the process has ended, or is killed.
LEMMA EndedStep == ASSUME TypeOK, IInv, NEW t \in Thread, Reap(t) \/ Kill(t) PROVE IInv'
<1>0. CallIs(t)
  BY DEF IInv, CallInv
<1>1. call[t].at \in Ending /\ Goto(t, "forget")
      /\ UNCHANGED <<process, crossed, metrics, done, records, folder, serving>>
  BY DEF Reap, Kill, At, Ending, sutVars, metricVars, agentVars
<1>2. PICK a \in Step \ {"idle"} : call[t].at = a /\ a \in Ending
  BY <1>1 DEF Step, Ending
<1>3. /\ \A u \in Thread : u # t => call'[u] = call[u]
      /\ call'[t].at = "forget" /\ call'[t].op = call[t].op /\ call'[t].sut = call[t].sut
      /\ call'[t].met = call[t].met /\ call'[t].args = call[t].args
      /\ call'[t].victim = call[t].victim /\ "forget" \in Step \ {"idle"}
  <2>1. "forget" \in Step
    BY DEF Step
  <2> QED BY <1>1, <2>1, GotoIs
<1>4. /\ call[t].victim \in Run /\ sut[call[t].victim] # "none"
      /\ \A r \in Uncrossed : Running(r) => r = call[t].victim
  BY <1>0, <1>1 DEF CallIs, Holds
<1>5. /\ \A r \in Run \ {call[t].victim} : sut'[r] = sut[r]
      /\ sut'[call[t].victim] = "dead"
  <2>1. sut \in [Run -> {"none", "up", "dead"}]
    BY DEF TypeOK
  <2>2. CASE Reap(t)
    BY <1>4, <2>2 DEF Reap, Dead, sutVars
  <2>3. CASE Kill(t)
    BY <1>4, <2>1, <2>3 DEF Kill
  <2> QED BY <2>2, <2>3
<1>6. Quiet(t)
  BY <1>1, <1>3, <1>4, <1>5 DEF Quiet
<1>7. \A r \in Uncrossed : ~Running(r)'
  BY <1>4, <1>5 DEF Running, Uncrossed
<1> QED BY <1>2, <1>3, <1>6, <1>7, MovesOn DEF Launched, Ending

\* Of the steps of Stop: the log is closed, or another stop has closed it.
LEMMA CloseLogStep == ASSUME TypeOK, IInv, NEW t \in Thread, CloseLog(t) PROVE IInv'
<1>1. call[t].at = "close" /\ UNCHANGED <<process, sut, metrics, done, records, folder, crossed, serving>>
  BY RaiseIs DEF CloseLog, At, metricVars, agentVars
<1>s. {"close", "listen"} \subseteq Step \ {"idle"}
  BY DEF Step
<1>2. CASE Goto(t, "listen")
  <2>1. /\ \A u \in Thread : u # t => call'[u] = call[u]
        /\ call'[t].at = "listen" /\ call'[t].op = call[t].op /\ call'[t].sut = call[t].sut
        /\ call'[t].met = call[t].met /\ call'[t].args = call[t].args
    BY <1>2, <1>s, GotoIs
  <2>2. Quiet(t)
    BY <1>1, <2>1 DEF Quiet
  <2>3. Stopped(t)
    BY <1>1 DEF Stopped
  <2> QED BY <1>1, <1>s, <2>1, <2>2, <2>3, MovesOn DEF Launched, Ending
<1>3. CASE Raise(t)
  <2>1. call'[t] = Idle /\ \A u \in Thread : call'[u] \in {Idle, call[u]}
    BY <1>3, RaiseIs
  <2>2. Quiet(t)
    BY <1>1, <2>1 DEF Quiet
  <2> QED BY <1>1, <2>1, <2>2, IdleIsFine, Moves
<1> QED BY <1>2, <1>3 DEF CloseLog

\* Of the steps of Stop: the call looks whether the captures have been read.
LEMMA ExtractStep == ASSUME TypeOK, IInv, NEW t \in Thread, Extract(t) PROVE IInv'
<1>0. CallIs(t)
  BY DEF IInv, CallInv
<1>1. call[t].at = "extract" /\ UNCHANGED <<process, sut, metrics, done, records, folder, crossed, serving>>
  BY RaiseIs DEF Extract, At, sutVars, metricVars, agentVars
<1>s. {"extract", "merge", "render", "shut"} \subseteq Step \ {"idle"} /\ "idle" \in Step
  BY DEF Step
<1>2. CASE Raise(t) \/ Goto(t, "idle")
  <2>1. call'[t] = Idle /\ \A u \in Thread \ {t} : call'[u] \in {Idle, call[u]}
    BY <1>2, <1>s, GotoIs, RaiseIs
  <2>2. Quiet(t)
    BY <1>1, <2>1 DEF Quiet
  <2> QED BY <1>1, <2>1, <2>2, IdleIsFine, Moves
<1>3. CASE \/ Goto(t, "merge") /\ call[t].args # 0
           \/ Goto(t, "render") /\ done /\ call[t].op = "Start"
           \/ Goto(t, "shut")
  <2>1. PICK b \in {"merge", "render", "shut"} :
          /\ Goto(t, b)
          /\ b = "merge" => call[t].args # 0
          /\ b = "render" => done /\ call[t].op = "Start"
    BY <1>3
  <2>2. /\ \A u \in Thread : u # t => call'[u] = call[u]
        /\ call'[t].at = b /\ call'[t].op = call[t].op /\ call'[t].sut = call[t].sut
        /\ call'[t].met = call[t].met /\ call'[t].args = call[t].args
    BY <2>1, <1>s, GotoIs
  <2>3. Quiet(t)
    BY <1>1, <2>2 DEF Quiet
  <2>4. Stopped(t) /\ ~call[t].sut
    BY <1>0, <1>1 DEF Stopped, CallIs, Shape
  <2> QED BY <1>1, <1>s, <2>1, <2>2, <2>3, <2>4, MovesOn DEF Launched, Ending
<1> QED BY <1>2, <1>3 DEF Extract, Returned

\* Of the steps of Start: a dry run, the watcher and its event, the message that
\* the SUT has started, and the last one; and close() tells the keep-alive thread.
LEMMA QuietStart ==
  ASSUME TypeOK, IInv, NEW t \in Thread,
         DryRun(t) \/ NewThread(t) \/ NewEvent(t) \/ AwaitStarted(t) \/ Started(t) \/ TellAlive(t)
  PROVE  IInv'
<1>s. {"thread", "event", "await", "hear", "heard", "shut", "shuts"} \subseteq Step \ {"idle"}
      /\ "idle" \in Step
  BY DEF Step
<1>1. /\ call[t].at # "idle"
      /\ UNCHANGED <<sut, process, crossed, folder, metrics, done, records, serving>>
  <2>1. CASE AwaitStarted(t)
    BY <2>1, RaiseIs DEF AwaitStarted, At, sutVars, metricVars, agentVars
  <2> QED BY <2>1 DEF DryRun, NewThread, NewEvent, Started, TellAlive, At, sutVars, metricVars, agentVars
<1>2. CASE Raise(t) \/ Goto(t, "idle")
  <2>1. call'[t] = Idle /\ \A u \in Thread \ {t} : call'[u] \in {Idle, call[u]}
    BY <1>2, <1>s, GotoIs, RaiseIs
  <2>2. Quiet(t)
    BY <1>1, <2>1 DEF Quiet
  <2> QED BY <1>1, <2>1, <2>2, IdleIsFine, Moves
<1>3. CASE \E a, b \in Step \ {"idle"} : /\ call[t].at = a /\ Goto(t, b)
                                         /\ \/ a \in Launched /\ b \in Launched
                                            \/ a = "shut" /\ b = "shuts"
  <2>1. PICK a \in Step \ {"idle"}, b \in Step \ {"idle"} :
          /\ call[t].at = a /\ Goto(t, b)
          /\ \/ a \in Launched /\ b \in Launched
             \/ a = "shut" /\ b = "shuts"
    BY <1>3
  <2>2. /\ \A u \in Thread : u # t => call'[u] = call[u]
        /\ call'[t].at = b /\ call'[t].op = call[t].op /\ call'[t].sut = call[t].sut
        /\ call'[t].met = call[t].met /\ call'[t].args = call[t].args
        /\ call'[t].victim = call[t].victim
    BY <2>1, GotoIs
  <2>3. Quiet(t)
    BY <1>1, <2>2 DEF Quiet
  <2>4. Stopped(t)' => Stopped(t)
    BY <2>1, <2>2 DEF Stopped, Launched
  <2> QED BY <2>1, <2>2, <2>3, <2>4, MovesOn DEF Launched, Ending
<1>4. CASE NewThread(t) \/ NewEvent(t) \/ (AwaitStarted(t) /\ ~Raise(t)) \/ TellAlive(t)
  <2>1. \/ call[t].at = "thread" /\ Goto(t, "event")
        \/ call[t].at = "event" /\ Goto(t, "await")
        \/ call[t].at = "await" /\ Goto(t, "hear")
        \/ call[t].at = "shut" /\ Goto(t, "shuts")
    BY <1>4 DEF NewThread, NewEvent, AwaitStarted, TellAlive, At
  <2> QED BY <1>3, <1>s, <2>1 DEF Launched
<1> QED BY <1>2, <1>4 DEF DryRun, Started

-----------------------------------------------------------------------------
(* The other steps of Stop.                                                *)

\* The folder of the moment is of the run whose captures are to be read, or it is
\* opened too late for them.
LEMMA GetArgumentsStep == ASSUME TypeOK, IInv, NEW t \in Thread, GetArguments(t) PROVE IInv'
<1>0. CallIs(t) /\ Counted
  BY DEF IInv, CallInv
<1>1. /\ call[t].at = "args"
      /\ UNCHANGED <<sut, process, crossed, metrics, done, records, serving>>
  BY DEF GetArguments, At, sutVars, agentVars
<1>2. /\ \A u \in Thread : u # t => call'[u] = call[u]
      /\ call'[t].at = "set" /\ call'[t].op = call[t].op /\ call'[t].sut = call[t].sut
      /\ call'[t].met = call[t].met
      /\ call'[t].args = (IF done THEN 0 ELSE folder')
      /\ folder' = IF done THEN folder ELSE Opened
  BY GetArgumentsIs
<1>3. Quiet(t)
  BY <1>1, <1>2 DEF Quiet
<1>4. ~call[t].sut
  BY <1>0, <1>1 DEF CallIs, Shape
<1>5. Shape(t)'
  BY <1>0, <1>1, <1>2, <1>4, IdleIs DEF CallIs, Shape, Launched
<1>6. Holds(t)'
  BY <1>2, <1>4 DEF Holds, Stopped, Ending, Launched
<1>7. Reads(t)'
  BY <1>0, <1>1, <1>2 DEF Reads, Counted, Opened
<1>8. Folder(t)'
  BY <1>2, <1>4 DEF Folder, Launched
<1> QED BY <1>1, <1>2, <1>3, <1>5, <1>6, <1>7, <1>8, Moves DEF CallIs

\* The process that has ended is forgotten, and no other one runs.
LEMMA ForgetStep == ASSUME TypeOK, IInv, NEW t \in Thread, Forget(t) PROVE IInv'
<1> USE DEF IInv
<1>0. CallIs(t)
  BY DEF CallInv
<1>1. /\ call[t].at = "forget" /\ process' = 0 /\ GotoWith(t, "close", 0)
      /\ UNCHANGED <<sut, crossed, folder, metrics, done, records, serving>>
  BY DEF Forget, At, metricVars, agentVars
<1>2. /\ \A u \in Thread : u # t => call'[u] = call[u]
      /\ call'[t].at = "close" /\ call'[t].op = call[t].op /\ call'[t].sut = call[t].sut
      /\ call'[t].met = call[t].met /\ call'[t].args = call[t].args
  <2>1. "close" \in Step /\ 0 \in 0 .. MaxStarts
    BY AgentAssumption DEF Step
  <2> QED BY <1>1, <2>1, GotoWithIs
<1>3. \A r \in Uncrossed : ~Running(r)
  BY <1>0, <1>1 DEF CallIs, Holds, Stopped
<1>4. Created' = Created /\ Uncrossed' = Uncrossed /\ \A r \in Run : Running(r)' <=> Running(r)
  BY <1>1 DEF Created, Uncrossed, Running
<1>5. CallIs(t)'
  <2>1. Shape(t)'
    BY <1>0, <1>1, <1>2, IdleIs DEF CallIs, Shape, Launched
  <2>2. Holds(t)'
    BY <1>2, <1>3, <1>4 DEF Holds, Ending, Launched, Uncrossed
  <2>3. Reads(t)'
    BY <1>0, <1>1, <1>2 DEF CallIs, Reads
  <2>4. Folder(t)'
    BY <1>0, <1>1, <1>2, <1>4 DEF CallIs, Folder, Launched
  <2> QED BY <2>1, <2>2, <2>3, <2>4 DEF CallIs
<1>6. CallInv' /\ Alone'
  BY <1>1, <1>2, <1>4, <1>5, CallsKeep
<1>7. Processes'
  BY <1>1, <1>3, <1>4, SameCreated DEF Processes, Uncrossed
<1>8. Counted'
  BY <1>1 DEF Counted
<1>9. Served'
  BY <1>1, <1>2, <1>3, <1>4 DEF Served, Uncrossed
<1> QED BY <1>6, <1>7, <1>8, <1>9

\* The report folder is closed.
LEMMA CloseFolderStep == ASSUME TypeOK, IInv, NEW t \in Thread, CloseFolder(t) PROVE IInv'
<1> USE DEF IInv
<1>0. CallIs(t)
  BY DEF CallInv
<1>1. /\ call[t].at = "fold" /\ folder' = 0 /\ Goto(t, "extract")
      /\ UNCHANGED <<sut, process, crossed, metrics, done, records, serving>>
  BY DEF CloseFolder, At, sutVars, agentVars
<1>2. /\ \A u \in Thread : u # t => call'[u] = call[u]
      /\ call'[t].at = "extract" /\ call'[t].op = call[t].op /\ call'[t].sut = call[t].sut
      /\ call'[t].met = call[t].met /\ call'[t].args = call[t].args
  <2>1. "extract" \in Step
    BY DEF Step
  <2> QED BY <1>1, <2>1, GotoIs
<1>3. /\ Created' = Created /\ Uncrossed' = Uncrossed /\ \A r \in Run : Running(r)' <=> Running(r)
      /\ ~call[t].sut
  BY <1>0, <1>1 DEF Created, Uncrossed, Running, CallIs, Shape
<1>4. CallIs(t)'
  <2>1. Shape(t)'
    BY <1>0, <1>1, <1>2, <1>3, IdleIs DEF CallIs, Shape, Launched
  <2>2. Holds(t)'
    BY <1>0, <1>1, <1>2, <1>3 DEF CallIs, Holds, Stopped, Ending, Launched, Uncrossed
  <2>3. Reads(t)'
    BY <1>0, <1>1, <1>2 DEF CallIs, Reads
  <2>4. Folder(t)'
    BY <1>1, <1>2, <1>3 DEF Folder, Launched
  <2> QED BY <2>1, <2>2, <2>3, <2>4 DEF CallIs
<1>5. CallInv' /\ Alone'
  BY <1>1, <1>2, <1>3, <1>4, CallsKeep
<1>6. Processes' /\ Counted' /\ Served'
  <2>1. Processes'
    BY <1>1, <1>3, SameCreated DEF Processes, Uncrossed
  <2>2. Counted'
    BY <1>1 DEF Counted
  <2>3. Served'
    BY <1>1, <1>2, <1>3 DEF Served, Uncrossed
  <2> QED BY <2>1, <2>2, <2>3
<1> QED BY <1>5, <1>6

\* What a call has heard and read is of the run that is counted.
LEMMA MergeStep == ASSUME TypeOK, IInv, NEW t \in Thread, Merge(t) PROVE IInv'
<1> USE DEF IInv
<1>0. CallIs(t)
  BY DEF CallInv
<1>1. /\ call[t].at = "merge" /\ done' = TRUE /\ Goto(t, Returned(t))
      /\ metrics' = Append(metrics, <<records, call[t].args>>)
      /\ UNCHANGED <<sut, process, crossed, folder, records, serving>>
  BY DEF Merge, At, sutVars, agentVars
<1>2. records \in crossed \/ call[t].args \in {records, EmptyFolder}
  BY <1>0, <1>1 DEF CallIs, Shape, Reads
<1>3. /\ Created' = Created /\ Uncrossed' = Uncrossed /\ \A r \in Run : Running(r)' <=> Running(r)
      /\ ~call[t].sut /\ Stopped(t)
  BY <1>0, <1>1 DEF Created, Uncrossed, Running, CallIs, Shape, Stopped
<1>4. /\ \A u \in Thread : u # t => call'[u] = call[u]
      /\ \/ call'[t] = Idle
         \/ /\ call'[t].at \in {"render", "shut"} /\ call'[t].op = call[t].op /\ call'[t].sut = call[t].sut
            /\ call'[t].met = call[t].met /\ call'[t].args = call[t].args
            /\ call'[t].at = "render" => call[t].op = "Start"
            /\ call'[t].at = "shut" => call[t].op = "Close"
  <2>1. {"idle", "render", "shut"} \subseteq Step
    BY DEF Step
  <2>2. CASE Returned(t) = "idle"
    BY <1>1, <2>1, <2>2, GotoIs
  <2>3. CASE Returned(t) \in {"render", "shut"}
    <3>1. /\ Returned(t) = "render" => call[t].op = "Start"
          /\ Returned(t) = "shut" => call[t].op = "Close"
      BY DEF Returned
    <3> QED BY <1>1, <2>1, <2>3, <3>1, GotoIs
  <2> QED BY <2>2, <2>3 DEF Returned
<1>5. CallIs(t)'
  <2>0. CASE call'[t] = Idle
    BY <2>0, IdleIsFine
  <2>n. CASE call'[t] # Idle
    <3>1. Shape(t)'
      BY <1>0, <1>1, <1>3, <1>4, <2>n, IdleIs DEF CallIs, Shape, Launched
    <3>2. Holds(t)'
      BY <1>0, <1>3, <1>4, <2>n DEF CallIs, Holds, Ending, Launched, Uncrossed
    <3>3. Reads(t)'
      BY <1>0, <1>1, <1>4, <2>n DEF CallIs, Reads
    <3>4. Folder(t)'
      BY <1>0, <1>1, <1>3, <1>4, <2>n DEF CallIs, Folder, Launched
    <3> QED BY <3>1, <3>2, <3>3, <3>4 DEF CallIs
  <2> QED BY <2>0, <2>n
<1>6. CallInv' /\ Alone'
  BY <1>1, <1>3, <1>4, <1>5, CallsKeep
<1>7. Processes' /\ Served'
  <2>1. Processes'
    BY <1>1, <1>3, SameCreated DEF Processes, Uncrossed
  <2>2. \A u \in Thread : call'[u].op = "Start" => call[u].op = "Start" /\ call'[u].met = call[u].met
    BY <1>4, IdleIs
  <2>3. Served'
    BY <1>1, <1>3, <2>2 DEF Served, Uncrossed
  <2> QED BY <2>1, <2>3
<1>8. Counted'
  <2>1. DOMAIN metrics' = 1 .. (Len(metrics) + 1) /\ DOMAIN metrics = 1 .. Len(metrics) /\ Len(metrics) \in Nat
    BY <1>1 DEF TypeOK
  <2>2. /\ metrics'[Len(metrics) + 1] = <<records, call[t].args>>
        /\ \A i \in 1 .. Len(metrics) : metrics'[i] = metrics[i]
    BY <1>1 DEF TypeOK
  <2>3. ASSUME NEW i \in DOMAIN metrics'
        PROVE  metrics'[i][1] = records /\ (records \notin crossed => metrics'[i][2] \in {records, EmptyFolder})
    <3>1. CASE i = Len(metrics) + 1
      BY <1>2, <2>2, <3>1
    <3>2. CASE i \in 1 .. Len(metrics)
      BY <2>1, <2>2, <3>2 DEF Counted
    <3> QED BY <2>1, <2>3, <3>1, <3>2
  <2> QED BY <1>1, <2>3 DEF Counted
<1> QED BY <1>6, <1>7, <1>8

-----------------------------------------------------------------------------
(* The other steps of Start, and the end of close().                       *)

\* The captures of the run before have been read, or are not counted any more,
\* when the folder of the next one is opened.
LEMMA RenderStep == ASSUME TypeOK, IInv, NEW t \in Thread, Render(t) PROVE IInv'
<1> USE DEF IInv
<1>0. CallIs(t)
  BY DEF CallInv
<1>1. /\ call[t].at = "render"
      /\ folder' = IF folder = 0 /\ Created < MaxStarts THEN Created + 1 ELSE folder
      /\ UNCHANGED <<sut, process, crossed, metrics, done, records, serving>>
  BY DEF Render, At, sutVars, agentVars
<1>2. /\ \A u \in Thread : u # t => call'[u] = call[u]
      /\ call'[t].at = "set" /\ call'[t].op = call[t].op /\ call'[t].sut = TRUE
      /\ call'[t].met = call[t].met /\ call'[t].args = 0
  BY RenderIs
<1>3. /\ Created' = Created /\ Uncrossed' = Uncrossed /\ \A r \in Run : Running(r)' <=> Running(r)
      /\ call[t].op = "Start" /\ Stopped(t)
  BY <1>0, <1>1 DEF Created, Uncrossed, Running, CallIs, Shape, Stopped
<1>4. CallIs(t)'
  <2>1. Shape(t)'
    BY <1>2, <1>3, IdleIs DEF Shape, Launched
  <2>2. Holds(t)'
    BY <1>0, <1>2, <1>3 DEF CallIs, Holds, Ending, Launched, Uncrossed
  <2>3. Reads(t)'
    BY <1>2 DEF Reads
  <2>4. Folder(t)'
    BY <1>0, <1>1, <1>2, <1>3 DEF CallIs, Folder, Launched
  <2> QED BY <2>1, <2>2, <2>3, <2>4 DEF CallIs
<1>5. CallInv' /\ Alone'
  BY <1>1, <1>2, <1>3, <1>4, CallsKeep
<1>6. Processes' /\ Served'
  BY <1>1, <1>2, <1>3, SameCreated DEF Processes, Served, Uncrossed
<1>7. Counted'
  BY <1>0, <1>1 DEF CallIs, Reads, Counted
<1> QED BY <1>5, <1>6, <1>7

\* The next process has the next number.
LEMMA NewRunIs ==
  ASSUME TypeOK, Processes, Created < MaxStarts, sut' = [sut EXCEPT ![NewRun] = "up"]
  PROVE  /\ NewRun \in Run /\ Created' = NewRun /\ sut[NewRun] = "none"
         /\ {r \in Run : sut'[r] # "none"} = 1 .. Created'
         /\ sut'[NewRun] = "up" /\ \A r \in Run \ {NewRun} : sut'[r] = sut[r]
<1>1. Created \in Nat /\ NewRun \in Run /\ NewRun = Created + 1
  BY CreatedIs DEF NewRun
<1>2. sut'[NewRun] = "up" /\ \A r \in Run \ {NewRun} : sut'[r] = sut[r]
  BY <1>1 DEF TypeOK
<1>3. sut[NewRun] = "none"
  <2>1. NewRun \notin 1 .. Created
    BY <1>1
  <2> QED BY <1>1, <2>1 DEF Processes
<1>4. {r \in Run : sut'[r] # "none"} = 1 .. NewRun
  <2>1. \A r \in Run : sut'[r] # "none" <=> (r = NewRun \/ r \in 1 .. Created)
    BY <1>1, <1>2 DEF Processes
  <2>2. \A r : (r = NewRun \/ r \in 1 .. Created) <=> r \in 1 .. NewRun
    BY <1>1
  <2>3. 1 .. NewRun \subseteq Run
    BY <1>1, AgentAssumption DEF Run
  <2> HIDE DEF NewRun
  <2> QED BY <2>1, <2>2, <2>3
<1>5. Created' = NewRun
  <2>1. Created' = Cardinality(1 .. NewRun)
    BY <1>4 DEF Created
  <2>2. NewRun \in Nat
    BY <1>1
  <2>3. \A n \in Nat : Cardinality(1 .. n) = n
    BY FS_Interval
  <2> QED BY <2>1, <2>2, <2>3
<1> QED BY <1>1, <1>2, <1>3, <1>4, <1>5

\* A process is created when none that is not crossed runs; it is crossed itself
\* if its Start has met another handler.
LEMMA CreateStep == ASSUME TypeOK, IInv, NEW t \in Thread, Create(t) PROVE IInv'
<1> USE DEF IInv
<1>0. CallIs(t)
  BY DEF CallInv
<1>1. /\ call[t].at = "create" /\ Created < MaxStarts
      /\ UNCHANGED <<folder, metrics, done, records>>
  BY DEF Create, At, metricVars
<1>2. CASE Raise(t) /\ UNCHANGED <<process, sut>>
  <2>1. /\ call'[t] = Idle /\ \A u \in Thread : call'[u] \in {Idle, call[u]}
        /\ UNCHANGED <<crossed, serving>>
    BY <1>2, RaiseIs
  <2>2. Quiet(t)
    BY <1>1, <1>2, <2>1 DEF Quiet
  <2> QED BY <1>1, <2>1, <2>2, IdleIsFine, Moves
<1>3. CASE ~(Raise(t) /\ UNCHANGED <<process, sut>>)
  <2>1. /\ process' = NewRun /\ sut' = [sut EXCEPT ![NewRun] = "up"] /\ serving' = serving
        /\ GotoWith(t, "thread", NewRun)
        /\ crossed' = IF call[t].met THEN crossed \cup {NewRun} ELSE crossed
    BY <1>3 DEF Create
  <2>2. /\ NewRun \in Run /\ Created' = NewRun /\ NewRun = Created + 1 /\ sut[NewRun] = "none"
        /\ {r \in Run : sut'[r] # "none"} = 1 .. Created'
        /\ sut'[NewRun] = "up" /\ \A r \in Run \ {NewRun} : sut'[r] = sut[r]
    BY <1>1, <2>1, NewRunIs DEF NewRun
  <2>3. /\ \A u \in Thread : u # t => call'[u] = call[u]
        /\ call'[t].at = "thread" /\ call'[t].op = call[t].op /\ call'[t].sut = call[t].sut
        /\ call'[t].met = call[t].met /\ call'[t].args = call[t].args /\ call'[t].victim = NewRun
    <3>1. "thread" \in Step /\ NewRun \in 0 .. MaxStarts
      BY <2>2 DEF Step, Run
    <3> QED BY <2>1, <3>1, GotoWithIs
  <2> HIDE DEF NewRun
  <2>4. call[t].op = "Start" /\ call[t].sut /\ call[t].args = 0 /\ \A r \in Uncrossed : ~Running(r)
    BY <1>0, <1>1 DEF CallIs, Shape, Holds, Stopped
  <2>5. \A r \in Run \ crossed' : Running(r)' => r = NewRun /\ ~call[t].met
    <3>1. \A r \in Run \ {NewRun} : r \notin crossed => ~Running(r)'
      BY <2>2, <2>4 DEF Running, Uncrossed
    <3>2. crossed \subseteq crossed' /\ (call[t].met => NewRun \in crossed')
      BY <2>1
    <3> QED BY <3>1, <3>2
  <2>6. CallIs(t)'
    <3>1. Shape(t)'
      BY <2>3, <2>4, IdleIs DEF Shape, Launched
    <3>2. Holds(t)'
      BY <2>1, <2>2, <2>3 DEF Holds, Stopped, Ending, Launched
    <3>3. Reads(t)'
      BY <2>3, <2>4 DEF Reads
    <3>4. Folder(t)'
      BY <1>0, <1>1, <2>2, <2>3, <2>4 DEF CallIs, Folder, Launched
    <3> QED BY <3>1, <3>2, <3>3, <3>4 DEF CallIs
  <2>7. CallInv' /\ Alone'
    <3>1. CASE ~call[t].met
      <4>1. \A u \in Thread \ {t} : call[u] = Idle
        BY <2>4, <3>1 DEF Alone
      <4> QED BY <1>1, <2>3, <2>6, <4>1, CallsKeep
    <3>2. CASE call[t].met
      <4>1. crossed \subseteq crossed' /\ \A r \in Run : sut[r] # "none" => sut'[r] # "none"
        BY <2>1, <2>2
      <4> QED BY <1>1, <2>3, <2>5, <2>6, <3>2, <4>1, CallsKeep
    <3> QED BY <3>1, <3>2
  <2>8. Processes'
    BY <2>1, <2>2, <2>5 DEF Processes, Uncrossed
  <2>9. Counted'
    BY <1>1, <2>1 DEF Counted
  <2>10. Served'
    <3>1. ~serving => call[t].met
      BY <2>4 DEF Served
    <3> QED BY <2>1, <2>3, <2>5, <3>1 DEF Served, Uncrossed
  <2> QED BY <2>7, <2>8, <2>9, <2>10
<1> QED BY <1>2, <1>3

\* The metrics of the run before are thrown away, and a listener starts.
LEMMA StartListeningStep == ASSUME TypeOK, IInv, NEW t \in Thread, StartListening(t) PROVE IInv'
<1> USE DEF IInv
<1>0. CallIs(t)
  BY DEF CallInv
<1> DEFINE r0 == call[t].victim
<1>1. /\ call[t].at = "hear" /\ metrics' = << >> /\ done' = FALSE /\ records' = r0
      /\ Goto(t, "heard") /\ UNCHANGED <<sut, process, crossed, folder, serving>>
  BY DEF StartListening, NewMetrics, At, sutVars, agentVars
<1>2. /\ call[t].op = "Start" /\ call[t].sut /\ call[t].args = 0
      /\ r0 \in Run /\ (call[t].met => r0 \in crossed)
      /\ ~call[t].met => folder \in {r0, EmptyFolder}
  BY <1>0, <1>1 DEF CallIs, Shape, Holds, Folder, Launched
<1>3. /\ \A u \in Thread : u # t => call'[u] = call[u]
      /\ call'[t].at = "heard" /\ call'[t].op = call[t].op /\ call'[t].sut = call[t].sut
      /\ call'[t].met = call[t].met /\ call'[t].args = call[t].args /\ call'[t].victim = r0
  <2>1. "heard" \in Step
    BY DEF Step
  <2> QED BY <1>1, <2>1, GotoIs
<1>4. Created' = Created /\ Uncrossed' = Uncrossed /\ \A r \in Run : Running(r)' <=> Running(r)
  BY <1>1 DEF Created, Uncrossed, Running
<1> HIDE DEF r0
<1>5. CallIs(t)'
  <2>1. Shape(t)'
    BY <1>2, <1>3, IdleIs DEF Shape, Launched
  <2>2. Holds(t)'
    BY <1>1, <1>2, <1>3 DEF Holds, Stopped, Ending, Launched
  <2>3. Reads(t)'
    BY <1>2, <1>3 DEF Reads
  <2>4. Folder(t)'
    BY <1>1, <1>2, <1>3 DEF Folder, Launched
  <2> QED BY <2>1, <2>2, <2>3, <2>4 DEF CallIs
<1>6. CallInv' /\ Alone'
  <2>1. CASE ~call[t].met
    <3>1. \A u \in Thread \ {t} : call[u] = Idle
      BY <1>2, <2>1 DEF Alone
    <3> QED BY <1>1, <1>3, <1>5, <3>1, CallsKeep
  <2>2. CASE call[t].met
    BY <1>1, <1>2, <1>3, <1>4, <1>5, <2>2, CallsKeep
  <2> QED BY <2>1, <2>2
<1>7. Processes' /\ Served'
  BY <1>1, <1>3, <1>4, SameCreated DEF Processes, Served, Uncrossed
<1>8. Counted'
  BY <1>1, <1>2 DEF Counted
<1> QED BY <1>6, <1>7, <1>8

\* close() has stopped the SUT before it stops the server.
LEMMA StopServerStep == ASSUME TypeOK, IInv, NEW t \in Thread, StopServer(t) PROVE IInv'
<1> USE DEF IInv
<1>0. CallIs(t)
  BY DEF CallInv
<1>1. /\ call[t].at = "shuts" /\ Goto(t, "idle")
      /\ UNCHANGED <<sut, process, crossed, folder, metrics, done, records>>
  BY DEF StopServer, At, sutVars, metricVars
<1>2. call'[t] = Idle /\ \A u \in Thread : u # t => call'[u] = call[u]
  <2>1. "idle" \in Step
    BY DEF Step
  <2> QED BY <1>1, <2>1, GotoIs
<1>3. /\ Uncrossed' = Uncrossed /\ \A r \in Run : Running(r)' <=> Running(r)
      /\ \A r \in Uncrossed : ~Running(r)
  BY <1>0, <1>1 DEF CallIs, Holds, Stopped, Uncrossed, Running
<1>4. CallInv' /\ Alone'
  BY <1>1, <1>2, <1>3, IdleIsFine, CallsKeep
<1>5. Processes' /\ Counted'
  BY <1>1, <1>3, SameCreated DEF Processes, Counted, Uncrossed
<1>6. Served'
  <2>1. \A u \in Thread : call'[u].op = "Start" => call'[u].met
    BY <1>1, <1>2, OthersHaveMet, IdleIs
  <2> QED BY <1>3, <2>1 DEF Served, Uncrossed
<1> QED BY <1>4, <1>5, <1>6

-----------------------------------------------------------------------------
(* The calls that begin, and the other threads.                            *)

\* A call begins: every Start in progress has met it, and their SUTs are crossed.
LEMMA CallsStep ==
  ASSUME TypeOK, IInv, NEW t \in Thread,
         Calls(t) \/ \E sender \in Sender : HandleSignal(t, sender)
  PROVE  IInv'
<1> USE DEF IInv
<1>1. PICK what \in {"Start", "Stop", "Close"} : Begin(t, what) /\ (what = "Start" => serving)
  BY DEF Calls, CallStart, CallStop, CallShutdown, ServeCall, HandleSignal
<1>2. /\ call[t] = Idle
      /\ \A u \in Thread \ {t} :
            /\ call'[u].at = call[u].at /\ call'[u].op = call[u].op /\ call'[u].sut = call[u].sut
            /\ call'[u].args = call[u].args /\ call'[u].victim = call[u].victim
            /\ call'[u].met = (call[u].met \/ call[u].op = "Start")
            /\ call[u].op # "Start" => call'[u] = call[u]
      /\ call'[t].at = "args" /\ call'[t].op = what /\ call'[t].sut = FALSE
      /\ call'[t].args = 0
      /\ call'[t].met = (what = "Start" /\ Others(t))
  BY <1>1, BeginIs
<1>3. /\ UNCHANGED <<sut, process, folder, metrics, done, records, serving>>
      /\ crossed' = crossed \cup {call[u].victim : u \in {w \in Thread : Launching(w)}}
  BY <1>1 DEF Begin, sutVars, metricVars
<1>4. /\ crossed \subseteq crossed'
      /\ \A u \in Thread : call[u].at \in Launched => call[u].victim \in crossed'
  BY <1>3 DEF Launching, Launched
<1>5. Uncrossed' \subseteq Uncrossed /\ \A r \in Run : Running(r)' <=> Running(r)
  BY <1>3, <1>4 DEF Uncrossed, Running
<1>6. CallIs(t)'
  <2>1. Shape(t)'
    BY <1>2, IdleIs DEF Shape, Launched
  <2>2. Holds(t)' /\ Reads(t)' /\ Folder(t)'
    BY <1>2 DEF Holds, Reads, Folder, Stopped, Ending, Launched
  <2> QED BY <2>1, <2>2 DEF CallIs
<1>7. ASSUME NEW u \in Thread \ {t} PROVE CallIs(u)'
  <2>0. CallIs(u)
    BY DEF CallInv
  <2>1. Shape(u)'
    BY <1>2, <2>0, IdleIs DEF CallIs, Shape
  <2>2. Holds(u)'
    <3>1. call'[u].at \in Ending => /\ call'[u].victim \in Run /\ sut'[call'[u].victim] # "none"
                                    /\ \A r \in Uncrossed' : Running(r)' => r = call'[u].victim
      BY <1>2, <1>3, <1>5, <2>0 DEF CallIs, Holds, Uncrossed
    <3>2. Stopped(u)' => \A r \in Uncrossed' : ~Running(r)'
      BY <1>2, <1>5, <2>0 DEF CallIs, Holds, Stopped, Uncrossed
    <3>3. call'[u].at \in Launched => call'[u].victim \in Run /\ call'[u].victim \in crossed'
      BY <1>2, <1>4, <2>0 DEF CallIs, Holds
    <3> QED BY <3>1, <3>2, <3>3 DEF Holds, Ending, Launched
  <2>3. Reads(u)'
    BY <1>2, <1>3, <1>4, <2>0 DEF CallIs, Reads
  <2>4. Folder(u)'
    BY <1>2 DEF Folder
  <2> QED BY <2>1, <2>2, <2>3, <2>4 DEF CallIs
<1>8. CallInv'
  BY <1>6, <1>7 DEF CallInv
<1>9. Alone'
  <2> SUFFICES ASSUME NEW v \in Thread, NEW u \in Thread, call'[v].op = "Start", ~call'[v].met, u # v
               PROVE  call'[u] = Idle
    BY DEF Alone
  <2>1. v = t
    BY <1>2
  <2>2. call[u] = Idle
    BY <1>2, <2>1 DEF Others, Busy
  <2> QED BY <1>2, <2>1, <2>2, IdleIs
<1>10. Processes'
  BY <1>3, <1>5, SameCreated DEF Processes, Uncrossed
<1>11. Counted'
  BY <1>3, <1>4 DEF Counted
<1>12. Served'
  BY <1>1, <1>2, <1>3, <1>5 DEF Served, Uncrossed
<1> QED BY <1>8, <1>9, <1>10, <1>11, <1>12

\* A SUT process ends or a folder is opened, and nothing changes but the threads
\* that watch and listen, the keep-alive thread and the main thread.
LEMMA OthersStep ==
  ASSUME TypeOK, IInv,
         UNCHANGED <<call, process, crossed, metrics, done, records, serving>>,
         folder' \in {folder, Opened},
         \A r \in Run : sut'[r] = sut[r] \/ (sut[r] # "none" /\ sut'[r] = "dead")
  PROVE  IInv'
<1> USE DEF IInv
<1>1. /\ \A r \in Run : (sut'[r] = "none" <=> sut[r] = "none") /\ (Running(r)' => Running(r))
      /\ Uncrossed' = Uncrossed
  BY DEF Running, Uncrossed
<1>2. Created' = Created
  BY <1>1, SameCreated
<1>3. ASSUME NEW t \in Thread PROVE CallIs(t)'
  <2>0. CallIs(t)
    BY DEF CallInv
  <2>1. Shape(t)' /\ Reads(t)'
    BY <2>0 DEF CallIs, Shape, Reads
  <2>2. Holds(t)'
    BY <1>1, <2>0 DEF CallIs, Holds, Stopped, Uncrossed
  <2>3. Folder(t)'
    <3>1. folder \in {0, EmptyFolder} => folder' \in {0, EmptyFolder}
      BY DEF Opened
    <3>2. folder # 0 => folder' = folder
      BY DEF Opened
    <3>3. Created + 1 # 0 /\ (call[t].at \in Launched => call[t].victim # 0) /\ EmptyFolder # 0
      BY <2>0, CreatedIs, AgentAssumption DEF CallIs, Holds, Run, EmptyFolder
    <3> QED BY <1>2, <2>0, <3>1, <3>2, <3>3 DEF CallIs, Folder
  <2> QED BY <2>1, <2>2, <2>3 DEF CallIs
<1>4. CallInv'
  BY <1>3 DEF CallInv
<1>5. Alone'
  BY DEF Alone
<1>6. Processes'
  <2>1. process # 0 => process \in Run
    BY DEF TypeOK, Run
  <2> QED BY <1>1, <2>1, SameCreated DEF Processes, Uncrossed
<1>7. Counted'
  BY DEF Counted, Opened
<1>8. Served'
  BY <1>1 DEF Served, Uncrossed
<1> QED BY <1>4, <1>5, <1>6, <1>7, <1>8

\* The threads without a call, the SUT processes and the main thread.
LEMMA NobodysStep ==
  ASSUME TypeOK, IInv,
         \/ \E r \in Run : Watches(r) \/ ListenerQuits(r) \/ ListenerCloses(r) \/ SutEnds(r)
         \/ KeepAliveExpires \/ KeepAliveEnds \/ MainLeaves \/ MainEnds
         \/ UNCHANGED vars
  PROVE  IInv'
<1> USE DEF sutVars, watchVars, metricVars, listenVars, agentVars
<1>1. CASE \E r \in Run : Look(r) \/ Flush(r)
  <2>1. folder' \in {folder, Opened}
    BY <1>1 DEF Look, LooksAtProcess, Flush
  <2> QED BY <1>1, <2>1, OthersStep DEF Look, Flush
<1>2. CASE \E r \in Run : ListenerQuits(r) \/ ListenerCloses(r)
  BY <1>2, OthersStep DEF ListenerQuits, ListenerCloses, ListenerEnds
<1>3. CASE \E r \in Run : SutEnds(r)
  <2>1. PICK r \in Run : Running(r) /\ sut' = [sut EXCEPT ![r] = "dead"]
    BY <1>3 DEF SutEnds
  <2>2. \A q \in Run : sut'[q] = sut[q] \/ (sut[q] # "none" /\ sut'[q] = "dead")
    BY <2>1 DEF TypeOK, Running
  <2> QED BY <1>3, <2>2, OthersStep DEF SutEnds
<1>4. CASE KeepAliveExpires \/ KeepAliveEnds \/ MainLeaves \/ MainEnds
  BY <1>4, OthersStep DEF KeepAliveExpires, KeepAliveEnds, MainLeaves, MainEnds
<1>5. CASE UNCHANGED vars
  BY <1>5, OthersStep DEF vars
<1> QED BY <1>1, <1>2, <1>3, <1>4, <1>5 DEF Watches

-----------------------------------------------------------------------------
(* The theorems.                                                           *)

\* The invariant holds at the beginning.
LEMMA Initially == ASSUME Init PROVE IInv
<1>1. \A t \in Thread : call[t] = Idle
  BY DEF Init
<1>2. CallInv /\ Alone
  BY <1>1, IdleIs DEF Init, CallInv, CallIs, Shape, Holds, Reads, Folder, Stopped, Ending, Launched, Alone
<1>3. Processes /\ Served
  <2>1. {r \in Run : sut[r] # "none"} = {}
    BY DEF Init
  <2>2. Created = 0
    BY <2>1, FS_EmptySet DEF Created
  <2>3. \A r \in Run : ~Running(r)
    BY DEF Init, Running
  <2> QED BY <2>1, <2>2, <2>3 DEF Init, Processes, Served, Uncrossed
<1>4. Counted
  BY DEF Init, Counted
<1> QED BY <1>2, <1>3, <1>4 DEF IInv

\* Every step of a thread in a call keeps the invariant.
LEMMA ProceedStep == ASSUME TypeOK, IInv, NEW t \in Thread, Proceed(t) PROVE IInv'
  BY QuietStop, TerminateStep, EndedStep, CloseLogStep, ExtractStep, QuietStart, GetArgumentsStep,
     ForgetStep, CloseFolderStep, MergeStep, RenderStep, CreateStep, StartListeningStep,
     StopServerStep, Zenon
  DEF Proceed

\* The inductive invariant holds in every reachable state: what each call knows of
\* the processes, captures and folder while others run next to it.
THEOREM Invariance == Spec => [](TypeOK /\ IInv)
<1>1. Init => IInv
  BY Initially
<1>2. TypeOK /\ IInv /\ [Next]_vars => IInv'
  <2> SUFFICES ASSUME TypeOK, IInv, [Next]_vars PROVE IInv'
    OBVIOUS
  <2>1. CASE \E t \in Thread : Calls(t) \/ \E sender \in Sender : HandleSignal(t, sender)
    BY <2>1, CallsStep
  <2>2. CASE \E t \in Thread : Proceed(t)
    BY <2>2, ProceedStep
  <2>3. CASE ~(\E t \in Thread : Calls(t) \/ Proceed(t) \/ \E sender \in Sender : HandleSignal(t, sender))
    <3>1. \A t \in Main : t \in Thread
      BY DEF Thread
    <3> QED BY <2>3, <3>1, NobodysStep, Zenon DEF Next
  <2> QED BY <2>1, <2>2, <2>3
<1> QED BY <1>1, <1>2, TypeCorrect, PTL DEF Spec

\* The only SUT that runs is the one _process names, but for those whose Start met
\* another handler: for any number of threads, Starts that fail, handlers that
\* overlap and signals.
THEOREM NothingStrays == Spec => []NoStray
<1>1. IInv => NoStray
  BY DEF IInv, Processes, NoStray, Uncrossed
<1> QED BY <1>1, Invariance, PTL

\* Once the server has been stopped no SUT runs, but for those whose Start met
\* another handler.
THEOREM NoneRunsAfterClose == Spec => []ClosedMeansStopped
<1>1. IInv => ClosedMeansStopped
  BY DEF IInv, Served, ClosedMeansStopped, Uncrossed
<1> QED BY <1>1, Invariance, PTL

\* GetMetrics never mixes two runs of the SUT, unless the Start of the run that is
\* counted met another handler.
THEOREM MetricsOfOneRun == Spec => []OneRun
<1>1. IInv => OneRun
  BY DEF IInv, Counted, OneRun
<1> QED BY <1>1, Invariance, PTL
=============================================================================
