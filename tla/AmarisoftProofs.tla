---------------------------- MODULE AmarisoftProofs ----------------------------
(***************************************************************************)
(* Proofs about the programs of Amarisoft in MCDrivers.                    *)
(*                                                                         *)
(* AmarisoftWs, one connection to a program: a message goes to the caller  *)
(* it answers, and no event is lost while the connection lasts             *)
(* (MessagesAreRouted), for any number of threads, commands and events.    *)
(*                                                                         *)
(* UeDriver, the driver of the UEs: a UE stays on until its own Stop       *)
(* (StartedIsOn), and only an attach that had its answer before the        *)
(* connection ended writes after the end of the metrics (FileStaysJson),   *)
(* for any number of clients, processes and timeouts.                      *)
(* Both rest on one invariant, because both depend on where the clients    *)
(* are: a process is launched and ended, and its file is opened and closed, *)
(* only while no UE is started, and a session does not begin before every  *)
(* trace of the one before has gone (SomebodyLeft).                        *)
(***************************************************************************)
EXTENDS MCDrivers, FiniteSetTheorems, SequenceTheorems, FunctionTheorems, TLAPS

-----------------------------------------------------------------------------
\* The kind of a behaviour stays, and its steps are those of its module.
LEMMA StepOfWs ==
    ASSUME MCNext, kind' = "ws"
    PROVE  kind = "ws" /\ W!Next
<1> USE KindsAssumption DEF Drivers
<1>1. CASE kind \in Kinds /\ Next /\ UNCHANGED cut /\ Others
  BY <1>1 DEF Next
<1>2. CASE kind \in CaptureKinds /\ C!Next /\ Others
  <2>1. kind' = kind
    BY <1>2 DEF C!Next, C!Packet, C!TSharkFails
  <2> QED
    BY <1>2, <2>1
<1>3. CASE kind \in LogKinds /\ R!Next /\ UNCHANGED cut /\ Others
  BY <1>3 DEF R!Next
<1>4. ASSUME kind \in Drivers, Others PROVE kind' = kind
  BY <1>4 DEF Others, reportVars
<1> QED
  BY <1>1, <1>2, <1>3, <1>4, Zenon DEF MCNext

-----------------------------------------------------------------------------
(* The connection to a program: its types.                                 *)

\* What a thread is doing, and for which call.
WsStep == {"free", "number", "queue", "send", "wait", "close", "join"}
WsOp == {"none", "command", "register", "quit"}
WsState == [step : WsStep, id : Nat, turn : Nat, op : WsOp]
\* A command is known by its sender and its turn.
Command == Thread \X Nat
\* What the program sends.
AnswerMessage == [kind : {"answer"}, id : Nat, to : Command]
EventMessage == [kind : {"event"}, id : EventIds, to : {<<>>}]
Message == AnswerMessage \cup EventMessage

\* The types.
WsTypes ==
    /\ wsAt \in [Thread -> WsState]
    /\ counter \in Nat /\ counts \in Nat /\ events \in Nat
    /\ handler \in BOOLEAN /\ connected \in BOOLEAN /\ wsTold \in BOOLEAN
    /\ DOMAIN queues \subseteq Nat /\ \A n \in DOMAIN queues : queues[n] \in Seq(AnswerMessage)
    /\ wire \in Seq(Message) /\ wsReader \in Message \cup {W!None}
    /\ asked \subseteq [id : Nat, by : Command, op : WsOp]
    /\ DOMAIN got = Thread

\* An event comes only after a command of a thread that had added the handler.
Handled ==
    /\ wsTold \/ (\E r \in asked : r.op = "register") \/ (\E t \in Thread : wsAt[t].op = "register") => handler
    /\ (\E i \in DOMAIN wire : wire[i].kind = "event") \/ wsReader.kind = "event" => handler

\* A thread that has a number has it alone, and its queue when it sends.
InFlight(t) == wsAt[t].step \in {"queue", "send", "wait"}
Numbered ==
    /\ \A t \in Thread : /\ InFlight(t) => wsAt[t].id <= counter
                         /\ wsAt[t].step \in {"send", "wait"} => wsAt[t].id \in DOMAIN queues
    /\ \A t, u \in Thread : InFlight(t) /\ InFlight(u) /\ t # u => wsAt[t].id # wsAt[u].id

\* An answer with a number is to the thread that has the number, if one has: every
\* answer that is still to come, on its way, read or in a queue.
Mine(n, c) == n <= counter /\ \A t \in Thread : InFlight(t) /\ wsAt[t].id = n => c = <<t, wsAt[t].turn>>
Owned ==
    /\ \A r \in asked : Mine(r.id, r.by)
    /\ \A i \in DOMAIN wire : wire[i].kind = "answer" => Mine(wire[i].id, wire[i].to)
    /\ wsReader.kind = "answer" => Mine(wsReader.id, wsReader.to)
    /\ \A n \in DOMAIN queues : \A i \in DOMAIN queues[n] :
          queues[n][i].id = n /\ Mine(n, queues[n][i].to)

\* The events on the way.
EventsIn(s) == {i \in DOMAIN s : s[i].kind = "event"}
Counted ==
    connected => counts + Cardinality(EventsIn(wire)) + (IF wsReader.kind = "event" THEN 1 ELSE 0) = events

\* The invariant of the connection.
WsInv == WsTypes /\ Handled /\ Numbered /\ Owned /\ W!AnswersAreOwn /\ Counted

\* A message that was never read is none of the messages.
LEMMA NoMessageIs == W!None.kind = "none" /\ W!None \notin Message
<1>1. W!None.kind = "none"
  BY DEF W!None
<1>2. \A m \in Message : m.kind \in {"answer", "event"}
  BY DEF Message, AnswerMessage, EventMessage
<1> QED
  BY <1>1, <1>2

\* What is known of a message.
LEMMA MessageIs ==
    ASSUME NEW m \in Message
    PROVE  /\ m.kind \in {"answer", "event"}
           /\ m.kind = "answer" => m \in AnswerMessage /\ m = W!Answer(m.id, m.to) /\ m.id \in Nat
           /\ m.kind = "event" <=> m \notin AnswerMessage
  BY DEF Message, AnswerMessage, EventMessage, W!Answer

\* What is known of a thread that is free.
LEMMA FreeIs == /\ W!Free \in WsState /\ W!Free.step = "free" /\ W!Free.op = "none"
                /\ \A n \in Nat : /\ [W!Free EXCEPT !.turn = n] \in WsState
                                  /\ [W!Free EXCEPT !.turn = n].step = "free"
                                  /\ [W!Free EXCEPT !.turn = n].op = "none"
                                  /\ [W!Free EXCEPT !.turn = n].turn = n
  BY DEF W!Free, WsState, WsStep, WsOp

\* Goto moves one thread.
LEMMA WsGoto ==
    ASSUME wsAt \in [Thread -> WsState], NEW t \in Thread, NEW s \in WsStep, W!Goto(t, s)
    PROVE  /\ wsAt' \in [Thread -> WsState]
           /\ \A u \in Thread : /\ wsAt'[u].id = wsAt[u].id /\ wsAt'[u].turn = wsAt[u].turn
                                /\ wsAt'[u].op = wsAt[u].op
                                /\ wsAt'[u].step = IF u = t THEN s ELSE wsAt[u].step
<1>1. /\ [wsAt[t] EXCEPT !.step = s] \in WsState
      /\ [wsAt[t] EXCEPT !.step = s].step = s
      /\ [wsAt[t] EXCEPT !.step = s].id = wsAt[t].id
      /\ [wsAt[t] EXCEPT !.step = s].turn = wsAt[t].turn
      /\ [wsAt[t] EXCEPT !.step = s].op = wsAt[t].op
  BY DEF WsState
<1> QED
  BY <1>1 DEF W!Goto

\* Return ends the call of one thread.
LEMMA WsReturn ==
    ASSUME wsAt \in [Thread -> WsState], NEW t \in Thread, W!Return(t)
    PROVE  /\ wsAt' \in [Thread -> WsState]
           /\ \A u \in Thread : /\ wsAt'[u].turn = wsAt[u].turn
                                /\ u # t => wsAt'[u] = wsAt[u]
           /\ wsAt'[t].step = "free" /\ wsAt'[t].op = "none"
<1>1. wsAt[t].turn \in Nat
  BY DEF WsState
<1> QED
  BY <1>1, FreeIs DEF W!Return

\* Call begins one, and has no number yet.
LEMMA WsCall ==
    ASSUME wsAt \in [Thread -> WsState], NEW t \in Thread, NEW op \in {"command", "register", "quit"}, W!Call(t, op)
    PROVE  /\ wsAt' \in [Thread -> WsState]
           /\ \A u \in Thread : u # t => wsAt'[u] = wsAt[u]
           /\ wsAt'[t].step \in {"number", "free"} /\ wsAt'[t].op \in {op, "none"}
<1> DEFINE r == [step |-> IF connected THEN "number" ELSE "free", id |-> 0,
                 turn |-> wsAt[t].turn + 1, op |-> IF connected THEN op ELSE "none"]
<1>1. wsAt' = [wsAt EXCEPT ![t] = r]
  BY DEF W!Call
<1>2. wsAt[t].turn + 1 \in Nat
  BY DEF WsState
<1>3. r \in WsState /\ r.step \in {"number", "free"} /\ r.op \in {op, "none"}
  BY <1>2 DEF WsState, WsStep, WsOp
<1> HIDE DEF r
<1> QED
  BY <1>1, <1>3

\* TakeNumber gives a thread a number that none has had.
LEMMA WsTake ==
    ASSUME wsAt \in [Thread -> WsState], counter \in Nat, NEW t \in Thread, W!TakeNumber(t)
    PROVE  /\ wsAt' \in [Thread -> WsState]
           /\ \A u \in Thread : /\ wsAt'[u].turn = wsAt[u].turn /\ wsAt'[u].op = wsAt[u].op
                                /\ u # t => wsAt'[u] = wsAt[u]
           /\ wsAt'[t].step = "queue" /\ wsAt'[t].id = counter + 1 /\ counter' = counter + 1
<1>0. counter + 1 \in Nat
  OBVIOUS
<1> DEFINE n == counter + 1
           r == [[wsAt[t] EXCEPT !.step = "queue"] EXCEPT !.id = n]
<1> HIDE DEF n
<1>1. wsAt' = [[wsAt EXCEPT ![t].step = "queue"] EXCEPT ![t].id = n] /\ counter' = n
  BY DEF W!TakeNumber, W!NextNumber, n
<1>2. n \in Nat
  BY <1>0 DEF n
<1>3. [wsAt EXCEPT ![t].step = "queue"] = [wsAt EXCEPT ![t] = [wsAt[t] EXCEPT !.step = "queue"]]
  OBVIOUS
<1>4. wsAt' = [wsAt EXCEPT ![t] = r]
  BY <1>1, <1>3
<1>5. r \in WsState /\ r.step = "queue" /\ r.id = n /\ r.turn = wsAt[t].turn /\ r.op = wsAt[t].op
  BY <1>2 DEF WsState, WsStep
<1> HIDE DEF r
<1> QED
  BY <1>1, <1>4, <1>5 DEF n

\* The steps of a thread, and of the others.
ThreadSteps(t) ==
    \/ \E op \in {"command", "register", "quit"} : W!Call(t, op)
    \/ W!TakeNumber(t) \/ W!MakeQueue(t) \/ W!Send(t) \/ W!Receive(t)
    \/ W!TimesOut(t) \/ W!Close(t) \/ W!Closed(t)
ReaderSteps == W!Read \/ W!Route
ProgramSteps == (\E r \in asked : W!Reply(r)) \/ (\E n \in EventIds : W!Happens(n)) \/ W!Dies

\* There are no other steps.
LEMMA WsStepsAre == W!Next => (\E t \in Thread : ThreadSteps(t)) \/ ReaderSteps \/ ProgramSteps
  BY Zenon DEF W!Next, ThreadSteps, ReaderSteps, ProgramSteps

\* A thread that has a number after a step had it before, or it is a new one.
FlightKept ==
    /\ counter' \in Nat /\ counter <= counter'
    /\ \A t \in Thread : InFlight(t)' =>
          \/ InFlight(t) /\ wsAt'[t].id = wsAt[t].id /\ wsAt'[t].turn = wsAt[t].turn
          \/ wsAt'[t].id = counter + 1 /\ counter' = counter + 1 /\ \A u \in Thread \ {t} : wsAt'[u] = wsAt[u]

\* No step gives a thread a number that another has.
LEMMA FlightIsKept ==
    ASSUME WsTypes, (\E t \in Thread : ThreadSteps(t)) \/ ReaderSteps \/ ProgramSteps
    PROVE  /\ FlightKept /\ wsAt' \in [Thread -> WsState]
           /\ \A t \in Thread : wsAt'[t].op \in {wsAt[t].op, "none"} \/ W!Call(t, wsAt'[t].op)
<1>1. ASSUME NEW t \in Thread, ThreadSteps(t)
      PROVE  /\ FlightKept /\ wsAt' \in [Thread -> WsState]
             /\ \A u \in Thread : wsAt'[u].op \in {wsAt[u].op, "none"} \/ W!Call(u, wsAt'[u].op)
  <2>0. wsAt \in [Thread -> WsState] /\ counter \in Nat
    BY DEF WsTypes
  <2>1. ASSUME NEW op \in {"command", "register", "quit"}, W!Call(t, op)
        PROVE  /\ FlightKept /\ wsAt' \in [Thread -> WsState]
               /\ \A u \in Thread : wsAt'[u].op \in {wsAt[u].op, "none"} \/ W!Call(u, wsAt'[u].op)
    <3>1. counter' = counter
      BY <2>1 DEF W!Call
    <3>2. /\ wsAt' \in [Thread -> WsState]
          /\ \A u \in Thread : u # t => wsAt'[u] = wsAt[u]
          /\ wsAt'[t].step \in {"number", "free"} /\ wsAt'[t].op \in {op, "none"}
      BY <2>0, <2>1, WsCall
    <3>3. FlightKept
      BY <2>0, <3>1, <3>2 DEF FlightKept, InFlight
    <3>4. wsAt'[t].op \in {wsAt[t].op, "none"} \/ W!Call(t, wsAt'[t].op)
      BY <2>1, <3>2
    <3> QED
      BY <3>2, <3>3, <3>4
  <2>2. CASE W!TakeNumber(t)
    BY <2>0, <2>2, WsTake DEF FlightKept, InFlight
  <2>3. ASSUME NEW s \in WsStep, W!Goto(t, s), counter' = counter, s \in {"queue", "send", "wait"} => InFlight(t)
        PROVE  /\ FlightKept /\ wsAt' \in [Thread -> WsState]
               /\ \A u \in Thread : wsAt'[u].op \in {wsAt[u].op, "none"}
    BY <2>0, <2>3, WsGoto DEF FlightKept, InFlight
  <2>4. ASSUME W!Return(t), counter' = counter
        PROVE  /\ FlightKept /\ wsAt' \in [Thread -> WsState]
               /\ \A u \in Thread : wsAt'[u].op \in {wsAt[u].op, "none"}
    BY <2>0, <2>4, WsReturn DEF FlightKept, InFlight
  <2>5. CASE W!MakeQueue(t)
    <3>1. W!Goto(t, "send") /\ counter' = counter /\ InFlight(t)
      BY <2>5 DEF W!MakeQueue, InFlight
    <3> QED
      BY <2>3, <3>1 DEF WsStep
  <2>6. CASE W!Send(t)
    <3>1. W!Goto(t, "wait") \/ W!Return(t)
      BY <2>6 DEF W!Send
    <3>2. counter' = counter /\ InFlight(t)
      BY <2>6 DEF W!Send, InFlight
    <3> QED
      BY <2>3, <2>4, <3>1, <3>2 DEF WsStep
  <2>7. CASE W!Receive(t)
    <3>1. W!Goto(t, "close") \/ W!Return(t)
      BY <2>7 DEF W!Receive
    <3>2. counter' = counter
      BY <2>7 DEF W!Receive
    <3> QED
      BY <2>3, <2>4, <3>1, <3>2 DEF WsStep
  <2>8. CASE W!Close(t)
    <3>1. W!Goto(t, "join") /\ counter' = counter
      BY <2>8 DEF W!Close
    <3> QED
      BY <2>3, <3>1 DEF WsStep
  <2>9. CASE W!TimesOut(t) \/ W!Closed(t)
    <3>1. W!Return(t) /\ counter' = counter
      BY <2>9 DEF W!TimesOut, W!Closed
    <3> QED
      BY <2>4, <3>1
  <2> QED
    BY <1>1, <2>1, <2>2, <2>5, <2>6, <2>7, <2>8, <2>9 DEF ThreadSteps
<1>2. ASSUME wsAt' = wsAt, counter' = counter
      PROVE  /\ FlightKept /\ wsAt' \in [Thread -> WsState]
             /\ \A t \in Thread : wsAt'[t].op \in {wsAt[t].op, "none"}
  BY <1>2 DEF FlightKept, InFlight, WsTypes
<1>3. ReaderSteps \/ ProgramSteps => wsAt' = wsAt /\ counter' = counter
  BY DEF ReaderSteps, ProgramSteps, W!Read, W!Route, W!Reply, W!Happens, W!Dies
<1> QED
  BY <1>1, <1>2, <1>3

\* Mine after a step.
MineThen(n, c) == n <= counter' /\ \A t \in Thread : InFlight(t)' /\ wsAt'[t].id = n => c = <<t, wsAt'[t].turn>>
\* Whose an answer is does not change.
LEMMA MineStays ==
    ASSUME WsTypes, FlightKept, NEW n \in Nat, NEW c, Mine(n, c)
    PROVE  MineThen(n, c)
<1>1. n <= counter' /\ n # counter + 1
  BY DEF Mine, FlightKept, WsTypes
<1> QED
  BY <1>1 DEF Mine, MineThen, FlightKept

\* Numbers stay apart.
LEMMA NumberedStays ==
    ASSUME WsTypes, WsTypes', Numbered, FlightKept, (\E t \in Thread : ThreadSteps(t)) \/ ReaderSteps \/ ProgramSteps
    PROVE  Numbered'
<1>1. \A t \in Thread : InFlight(t)' => wsAt'[t].id <= counter'
  <2>1. \A t \in Thread : wsAt[t].id \in Nat /\ wsAt'[t].id \in Nat
    BY DEF WsTypes, WsState
  <2>2. counter \in Nat /\ counter' \in Nat /\ counter <= counter'
    BY DEF FlightKept, WsTypes
  <2> TAKE t \in Thread
  <2> HAVE InFlight(t)'
  <2>3. CASE InFlight(t) /\ wsAt'[t].id = wsAt[t].id
    BY <2>1, <2>2, <2>3 DEF Numbered
  <2>4. CASE wsAt'[t].id = counter + 1 /\ counter' = counter + 1
    BY <2>2, <2>4
  <2> QED
    BY <2>3, <2>4 DEF FlightKept
<1>2. ASSUME NEW t \in Thread, NEW u \in Thread, InFlight(t)', InFlight(u)', t # u
      PROVE  wsAt'[t].id # wsAt'[u].id
  <2>1. \A v \in Thread : InFlight(v) => wsAt[v].id # counter + 1
    BY DEF Numbered, WsTypes, WsState
  <2>2. CASE InFlight(t) /\ InFlight(u) /\ wsAt'[t].id = wsAt[t].id /\ wsAt'[u].id = wsAt[u].id
    BY <1>2, <2>2 DEF Numbered
  <2>3. CASE wsAt'[t].id = counter + 1 /\ \A v \in Thread \ {t} : wsAt'[v] = wsAt[v]
    <3>1. InFlight(u) /\ wsAt'[u] = wsAt[u]
      BY <1>2, <2>3 DEF InFlight
    <3> QED
      BY <2>1, <2>3, <3>1
  <2>4. CASE wsAt'[u].id = counter + 1 /\ \A v \in Thread \ {u} : wsAt'[v] = wsAt[v]
    <3>1. InFlight(t) /\ wsAt'[t] = wsAt[t]
      BY <1>2, <2>4 DEF InFlight
    <3> QED
      BY <2>1, <2>4, <3>1
  <2> QED
    BY <1>2, <2>2, <2>3, <2>4 DEF FlightKept
<1>3. \A t \in Thread : wsAt'[t].step \in {"send", "wait"} => wsAt'[t].id \in DOMAIN queues'
  <2>1. DOMAIN queues \subseteq DOMAIN queues'
    BY DEF ThreadSteps, ReaderSteps, ProgramSteps, W!Call, W!TakeNumber, W!MakeQueue, W!Send, W!Receive, W!TimesOut,
       W!Close, W!Closed, W!Read, W!Route, W!Reply, W!Happens, W!Dies, W!Number
  <2>2. ASSUME wsAt' = wsAt PROVE \A t \in Thread : wsAt'[t].step \in {"send", "wait"} => wsAt'[t].id \in DOMAIN queues'
    BY <2>1, <2>2 DEF Numbered
  <2>3. ASSUME NEW t \in Thread, ThreadSteps(t)
        PROVE  \A u \in Thread : wsAt'[u].step \in {"send", "wait"} => wsAt'[u].id \in DOMAIN queues'
    <3>0. wsAt \in [Thread -> WsState] /\ counter \in Nat
      BY DEF WsTypes
    <3>1. ASSUME \A u \in Thread : u # t => wsAt'[u] = wsAt[u], wsAt'[t].step \notin {"send", "wait"}
          PROVE  \A u \in Thread : wsAt'[u].step \in {"send", "wait"} => wsAt'[u].id \in DOMAIN queues'
      BY <2>1, <3>1 DEF Numbered
    <3>2. ASSUME NEW s \in WsStep, W!Goto(t, s), s \in {"send", "wait"} => wsAt[t].id \in DOMAIN queues'
          PROVE  \A u \in Thread : wsAt'[u].step \in {"send", "wait"} => wsAt'[u].id \in DOMAIN queues'
      BY <2>1, <3>0, <3>2, WsGoto DEF Numbered
    <3>3. CASE \E op \in {"command", "register", "quit"} : W!Call(t, op)
      BY <3>0, <3>1, <3>3, WsCall
    <3>4. CASE W!TakeNumber(t)
      BY <3>0, <3>1, <3>4, WsTake
    <3>5. CASE W!Return(t)
      BY <3>0, <3>1, <3>5, WsReturn
    <3>6. CASE W!MakeQueue(t)
      <4>1. W!Goto(t, "send") /\ wsAt[t].id \in DOMAIN queues'
        BY <3>6 DEF W!MakeQueue
      <4> QED
        BY <3>2, <4>1 DEF WsStep
    <3>7. CASE W!Send(t)
      <4>1. wsAt[t].id \in DOMAIN queues'
        BY <2>1, <3>7 DEF W!Send, Numbered
      <4>2. W!Goto(t, "wait") \/ W!Return(t)
        BY <3>7 DEF W!Send
      <4> QED
        BY <3>2, <3>5, <4>1, <4>2 DEF WsStep
    <3>8. CASE W!Receive(t)
      <4>1. W!Goto(t, "close") \/ W!Return(t)
        BY <3>8 DEF W!Receive
      <4> QED
        BY <3>2, <3>5, <4>1 DEF WsStep
    <3>9. CASE W!Close(t)
      <4>1. W!Goto(t, "join")
        BY <3>9 DEF W!Close
      <4> QED
        BY <3>2, <4>1 DEF WsStep
    <3>10. CASE W!TimesOut(t) \/ W!Closed(t)
      BY <3>5, <3>10 DEF W!TimesOut, W!Closed
    <3> QED
      BY <2>3, <3>3, <3>4, <3>6, <3>7, <3>8, <3>9, <3>10 DEF ThreadSteps
  <2>4. ReaderSteps \/ ProgramSteps => wsAt' = wsAt
    BY DEF ReaderSteps, ProgramSteps, W!Read, W!Route, W!Reply, W!Happens, W!Dies
  <2> QED
    BY <2>2, <2>3, <2>4
<1> QED
  BY <1>1, <1>2, <1>3 DEF Numbered

\* Every step keeps the types.
LEMMA WsTypesNext ==
    ASSUME WsTypes, Handled, Numbered, (\E t \in Thread : ThreadSteps(t)) \/ ReaderSteps \/ ProgramSteps
    PROVE  WsTypes'
<1>0. FlightKept /\ wsAt' \in [Thread -> WsState] /\ counter' \in Nat
  BY FlightIsKept DEF FlightKept
<1>1. ASSUME UNCHANGED <<queues, wire, wsReader, asked, counts, events>>, DOMAIN got' = DOMAIN got,
             handler' \in BOOLEAN, connected' \in BOOLEAN, wsTold' \in BOOLEAN
      PROVE  WsTypes'
  BY <1>0, <1>1 DEF WsTypes
<1>2. ASSUME NEW t \in Thread, ThreadSteps(t) PROVE WsTypes'
  <2>0. wsAt[t] \in WsState
    BY DEF WsTypes
  <2>1. CASE \E op \in {"command", "register", "quit"} : W!Call(t, op)
    BY <1>1, <2>1 DEF W!Call, WsTypes
  <2>2. CASE W!TakeNumber(t) \/ W!TimesOut(t) \/ W!Closed(t)
    BY <1>1, <2>2 DEF W!TakeNumber, W!TimesOut, W!Closed, WsTypes
  <2>3. CASE W!MakeQueue(t)
    <3>1. /\ DOMAIN queues' = DOMAIN queues \cup {wsAt[t].id}
          /\ \A n \in DOMAIN queues' : queues'[n] = IF n \in DOMAIN queues THEN queues[n] ELSE <<>>
      BY <2>3 DEF W!MakeQueue, W!Number
    <3>2. wsAt[t].id \in Nat /\ <<>> \in Seq(AnswerMessage)
      BY <2>0 DEF WsState
    <3>3. DOMAIN queues' \subseteq Nat /\ \A n \in DOMAIN queues' : queues'[n] \in Seq(AnswerMessage)
      BY <3>1, <3>2 DEF WsTypes
    <3>4. UNCHANGED <<wire, wsReader, asked, counts, events, got, handler, connected, wsTold>>
      BY <2>3 DEF W!MakeQueue
    <3> QED
      BY <1>0, <3>3, <3>4 DEF WsTypes
  <2>4. CASE W!Send(t)
    <3>1. asked' = asked \/ asked' = asked \cup {[id |-> wsAt[t].id, by |-> <<t, wsAt[t].turn>>, op |-> wsAt[t].op]}
      BY <2>4 DEF W!Send, W!This
    <3>2. [id |-> wsAt[t].id, by |-> <<t, wsAt[t].turn>>, op |-> wsAt[t].op] \in [id : Nat, by : Command, op : WsOp]
      BY <2>0 DEF WsState, Command
    <3>3. UNCHANGED <<queues, wire, wsReader, counts, events, got, handler, connected, wsTold>>
      BY <2>4 DEF W!Send
    <3> QED
      BY <1>0, <3>1, <3>2, <3>3 DEF WsTypes
  <2>5. CASE W!Receive(t)
    <3>1. wsAt[t].id \in DOMAIN queues /\ queues[wsAt[t].id] # <<>> /\ queues[wsAt[t].id] \in Seq(AnswerMessage)
      BY <2>5 DEF W!Receive, Numbered, WsTypes
    <3>2. Tail(queues[wsAt[t].id]) \in Seq(AnswerMessage)
      BY <3>1, HeadTailProperties
    <3>3. queues' = [queues EXCEPT ![wsAt[t].id] = Tail(queues[wsAt[t].id])] /\ DOMAIN got' = DOMAIN got
      BY <2>5 DEF W!Receive
    <3>4. DOMAIN queues' = DOMAIN queues /\ \A n \in DOMAIN queues' : queues'[n] \in Seq(AnswerMessage)
      BY <3>1, <3>2, <3>3 DEF WsTypes
    <3>5. UNCHANGED <<wire, wsReader, asked, counts, events, handler, connected, wsTold>>
      BY <2>5 DEF W!Receive
    <3> QED
      BY <1>0, <3>3, <3>4, <3>5 DEF WsTypes
  <2>6. CASE W!Close(t)
    <3>1. UNCHANGED <<queues, wsReader, counts, events, got, handler, wsTold>>
          /\ wire' = <<>> /\ asked' = {} /\ connected' = FALSE
      BY <2>6 DEF W!Close
    <3>2. wire' \in Seq(Message)
      BY <3>1, EmptySeq
    <3> QED
      BY <1>0, <3>1, <3>2 DEF WsTypes
  <2> QED
    BY <1>2, <2>1, <2>2, <2>3, <2>4, <2>5, <2>6 DEF ThreadSteps
<1>3. CASE W!Read
  <2>1. wire \in Seq(Message) /\ wire # <<>> /\ wsReader' = Head(wire) /\ wire' = Tail(wire)
        /\ UNCHANGED <<queues, asked, counts, events, got, handler, connected, wsTold>>
    BY <1>3 DEF W!Read, WsTypes
  <2>2. Head(wire) \in Message /\ Tail(wire) \in Seq(Message)
    BY <2>1, HeadTailProperties
  <2> QED
    BY <1>0, <2>1, <2>2 DEF WsTypes
<1>4. CASE W!Route
  <2>1. /\ wsReader \in Message /\ wsReader' = W!None /\ DOMAIN queues' = DOMAIN queues
        /\ counts' \in {counts, counts + 1}
        /\ UNCHANGED <<wire, asked, events, got, handler, connected, wsTold>>
    BY <1>4 DEF W!Route, WsTypes, W!Number
  <2>2. ~W!IsEvent(wsReader) => wsReader \in AnswerMessage
    <3>1. wsReader.kind = "event" => handler
      BY DEF Handled
    <3> QED
      BY <2>1, <3>1, MessageIs DEF W!IsEvent
  <2>3. \A n \in DOMAIN queues : queues'[n] = IF ~W!IsEvent(wsReader) /\ n = wsReader.id
                                            THEN Append(queues[n], wsReader) ELSE queues[n]
    BY <1>4 DEF W!Route, W!Number
  <2>4. \A n \in DOMAIN queues' : queues'[n] \in Seq(AnswerMessage)
    <3> TAKE n \in DOMAIN queues'
    <3>1. queues[n] \in Seq(AnswerMessage)
      BY <2>1 DEF WsTypes
    <3>2. wsReader \in AnswerMessage => Append(queues[n], wsReader) \in Seq(AnswerMessage)
      BY <3>1, AppendProperties
    <3> QED
      BY <2>1, <2>2, <2>3, <3>1, <3>2
  <2>5. counts' \in Nat
    BY <2>1 DEF WsTypes
  <2> QED
    BY <1>0, <2>1, <2>4, <2>5 DEF WsTypes
<1>5. ASSUME NEW r \in asked, W!Reply(r) PROVE WsTypes'
  <2>1. r \in [id : Nat, by : Command, op : WsOp]
    BY DEF WsTypes
  <2>2. W!Answer(r.id, r.by) \in Message
    BY <2>1 DEF W!Answer, Message, AnswerMessage
  <2>3. wire' = Append(wire, W!Answer(r.id, r.by)) /\ wire \in Seq(Message)
    BY <1>5 DEF W!Reply, WsTypes
  <2>4. wire' \in Seq(Message)
    BY <2>2, <2>3, AppendProperties
  <2>5. /\ asked' \subseteq asked /\ wsTold' \in BOOLEAN
        /\ UNCHANGED <<queues, wsReader, counts, events, got, handler, connected>>
    BY <1>5 DEF W!Reply, WsTypes
  <2> QED
    BY <1>0, <2>4, <2>5 DEF WsTypes
<1>6. ASSUME NEW n \in EventIds, W!Happens(n) PROVE WsTypes'
  <2>1. W!Event(n) \in Message
    BY DEF W!Event, Message, EventMessage
  <2>2. wire' = Append(wire, W!Event(n)) /\ wire \in Seq(Message)
    BY <1>6 DEF W!Happens, WsTypes
  <2>3. wire' \in Seq(Message)
    BY <2>1, <2>2, AppendProperties
  <2>4. events' \in Nat /\ UNCHANGED <<queues, wsReader, asked, counts, got, handler, connected, wsTold>>
    BY <1>6 DEF W!Happens, WsTypes
  <2> QED
    BY <1>0, <2>3, <2>4 DEF WsTypes
<1>7. CASE W!Dies
  <2>1. UNCHANGED <<queues, wsReader, counts, events, got, handler, wsTold>>
        /\ wire' = <<>> /\ asked' = {} /\ connected' = FALSE
    BY <1>7 DEF W!Dies
  <2>2. wire' \in Seq(Message)
    BY <2>1, EmptySeq
  <2> QED
    BY <1>0, <2>1, <2>2 DEF WsTypes
<1> QED
  BY <1>2, <1>3, <1>4, <1>5, <1>6, <1>7 DEF ReaderSteps, ProgramSteps

\* No event before the handler.
LEMMA HandledNext ==
    ASSUME WsTypes, Handled, (\E t \in Thread : ThreadSteps(t)) \/ ReaderSteps \/ ProgramSteps
    PROVE  Handled'
<1>1. handler => handler'
  BY DEF ThreadSteps, ReaderSteps, ProgramSteps, W!Call, W!TakeNumber, W!MakeQueue, W!Send, W!Receive, W!TimesOut,
     W!Close, W!Closed, W!Read, W!Route, W!Reply, W!Happens, W!Dies
<1>2. (\E t \in Thread : wsAt'[t].op = "register") => handler'
  <2> SUFFICES ASSUME NEW t \in Thread, wsAt'[t].op = "register" PROVE handler'
    OBVIOUS
  <2>1. wsAt'[t].op \in {wsAt[t].op, "none"} \/ W!Call(t, "register")
    BY FlightIsKept
  <2>2. CASE W!Call(t, "register")
    BY <2>2 DEF W!Call
  <2>3. CASE wsAt[t].op = "register"
    BY <1>1, <2>3 DEF Handled
  <2> QED
    BY <2>1, <2>2, <2>3
<1>3. wsTold' \/ (\E r \in asked' : r.op = "register") => handler'
  <2>1. CASE \E t \in Thread : W!Send(t)
    <3>1. PICK t \in Thread : W!Send(t)
      BY <2>1
    <3>2. wsTold' = wsTold /\ asked' \subseteq asked \cup {[id |-> wsAt[t].id, by |-> <<t, wsAt[t].turn>>, op |-> wsAt[t].op]}
      BY <3>1 DEF W!Send, W!This
    <3>3. wsAt[t].op = "register" => handler
      BY DEF Handled
    <3> QED
      BY <1>1, <3>2, <3>3 DEF Handled
  <2>2. CASE \E r \in asked : W!Reply(r)
    BY <1>1, <2>2 DEF W!Reply, Handled
  <2>3. CASE wsTold' = wsTold /\ asked' \subseteq asked
    BY <1>1, <2>3 DEF Handled
  <2>4. \/ \E t \in Thread : W!Send(t)
        \/ \E r \in asked : W!Reply(r)
        \/ wsTold' = wsTold /\ asked' \subseteq asked
    BY DEF ThreadSteps, ReaderSteps, ProgramSteps, W!Call, W!TakeNumber, W!MakeQueue, W!Receive, W!TimesOut,
       W!Close, W!Closed, W!Read, W!Route, W!Happens, W!Dies
  <2> QED
    BY <2>1, <2>2, <2>3, <2>4
<1>4. (\E i \in DOMAIN wire' : wire'[i].kind = "event") \/ wsReader'.kind = "event" => handler'
  <2>1. CASE W!Read
    <3>1. wire \in Seq(Message) /\ wire # <<>> /\ wsReader' = Head(wire) /\ wire' = Tail(wire) /\ handler' = handler
      BY <2>1 DEF W!Read, WsTypes
    <3>2. /\ Len(wire) \in Nat /\ Len(wire) >= 1 /\ DOMAIN wire = 1 .. Len(wire) /\ Head(wire) = wire[1]
          /\ DOMAIN Tail(wire) = 1 .. Len(wire) - 1
          /\ \A i \in 1 .. Len(wire) - 1 : Tail(wire)[i] = wire[i + 1]
      BY <3>1, HeadTailProperties, LenProperties, EmptySeq
    <3>3. ASSUME NEW i \in DOMAIN wire', wire'[i].kind = "event" PROVE \E j \in DOMAIN wire : wire[j].kind = "event"
      <4>1. i + 1 \in DOMAIN wire /\ wire'[i] = wire[i + 1]
        BY <3>1, <3>2
      <4> QED
        BY <3>3, <4>1
    <3>4. 1 \in DOMAIN wire
      BY <3>2
    <3> QED
      BY <3>1, <3>2, <3>3, <3>4 DEF Handled
  <2>2. CASE W!Route
    BY <1>1, <2>2, NoMessageIs DEF W!Route, Handled
  <2>3. ASSUME NEW m \in Message, wire' = Append(wire, m), wsReader' = wsReader, m.kind = "event" => wsTold
        PROVE  (\E i \in DOMAIN wire' : wire'[i].kind = "event") \/ wsReader'.kind = "event" => handler'
    <3>1. /\ DOMAIN wire = 1 .. Len(wire) /\ Len(wire) \in Nat /\ DOMAIN wire' = 1 .. Len(wire) + 1
          /\ \A i \in DOMAIN wire : wire'[i] = wire[i]
          /\ wire'[Len(wire) + 1] = m
      BY <2>3, AppendProperties, LenProperties DEF WsTypes
    <3>2. \A i \in DOMAIN wire' : i \in DOMAIN wire \/ wire'[i] = m
      BY <3>1
    <3> QED
      BY <1>1, <2>3, <3>1, <3>2 DEF Handled
  <2>4. CASE \E r \in asked : W!Reply(r)
    <3>1. PICK r \in asked : W!Reply(r)
      BY <2>4
    <3>2. W!Answer(r.id, r.by) \in Message /\ W!Answer(r.id, r.by).kind # "event"
      BY DEF W!Answer, Message, AnswerMessage, WsTypes
    <3> QED
      BY <2>3, <3>1, <3>2 DEF W!Reply
  <2>5. CASE \E n \in EventIds : W!Happens(n)
    <3>1. PICK n \in EventIds : W!Happens(n)
      BY <2>5
    <3>2. W!Event(n) \in Message
      BY DEF W!Event, Message, EventMessage
    <3> QED
      BY <2>3, <3>1, <3>2 DEF W!Happens
  <2>6. CASE wire' \in {wire, <<>>} /\ wsReader' = wsReader
    BY <1>1, <2>6 DEF Handled
  <2>7. (\E t \in Thread : ThreadSteps(t)) \/ W!Dies => wire' \in {wire, <<>>} /\ wsReader' = wsReader
    BY DEF ThreadSteps, W!Call, W!TakeNumber, W!MakeQueue, W!Send, W!Receive, W!TimesOut, W!Close, W!Closed, W!Dies
  <2> QED
    BY <2>1, <2>2, <2>4, <2>5, <2>6, <2>7 DEF ReaderSteps, ProgramSteps
<1> QED
  BY <1>2, <1>3, <1>4 DEF Handled

\* Answers stay with those who asked for them.
LEMMA OwnedNext ==
    ASSUME WsTypes, Handled, Numbered, Owned, (\E t \in Thread : ThreadSteps(t)) \/ ReaderSteps \/ ProgramSteps
    PROVE  Owned'
<1>0. FlightKept
  BY FlightIsKept
<1>1. \A r \in asked : MineThen(r.id, r.by)
  <2> TAKE r \in asked
  <2>1. r.id \in Nat
    BY DEF WsTypes
  <2> QED
    BY <1>0, <2>1, MineStays DEF Owned
<1>2. \A i \in DOMAIN wire : wire[i] \in Message /\ (wire[i].kind = "answer" => MineThen(wire[i].id, wire[i].to))
  <2> TAKE i \in DOMAIN wire
  <2>1. wire[i] \in Message
    BY ElementOfSeq, LenProperties DEF WsTypes
  <2> QED
    BY <1>0, <2>1, MineStays, MessageIs DEF Owned
<1>3. wsReader.kind = "answer" => wsReader \in AnswerMessage /\ wsReader.id \in Nat /\ MineThen(wsReader.id, wsReader.to)
  <2>1. wsReader.kind = "answer" => wsReader \in Message
    BY NoMessageIs DEF WsTypes
  <2> QED
    BY <1>0, <2>1, MineStays, MessageIs DEF Owned
<1>4. \A n \in DOMAIN queues : \A i \in DOMAIN queues[n] : queues[n][i].id = n /\ MineThen(n, queues[n][i].to)
  <2> TAKE n \in DOMAIN queues
  <2>1. n \in Nat
    BY DEF WsTypes
  <2> TAKE i \in DOMAIN queues[n]
  <2> QED
    BY <1>0, <2>1, MineStays DEF Owned
<1>5. \A r \in asked' : MineThen(r.id, r.by)
  <2>1. CASE asked' \subseteq asked
    BY <1>1, <2>1
  <2>2. CASE \E t \in Thread : W!Send(t) /\ asked' # asked
    <3>1. PICK t \in Thread : W!Send(t) /\ asked' # asked
      BY <2>2
    <3>2. /\ asked' = asked \cup {[id |-> wsAt[t].id, by |-> <<t, wsAt[t].turn>>, op |-> wsAt[t].op]}
          /\ InFlight(t)
      BY <3>1 DEF W!Send, W!This, InFlight
    <3>3. Mine(wsAt[t].id, <<t, wsAt[t].turn>>)
      BY <3>2 DEF Mine, Numbered
    <3>4. wsAt[t].id \in Nat
      BY DEF WsTypes, WsState
    <3>5. MineThen(wsAt[t].id, <<t, wsAt[t].turn>>)
      BY <1>0, <3>3, <3>4, MineStays
    <3>6. \A r \in asked' : r \in asked \/ (r.id = wsAt[t].id /\ r.by = <<t, wsAt[t].turn>>)
      BY <3>2
    <3> QED
      BY <1>1, <3>5, <3>6
  <2>3. asked' \subseteq asked \/ \E t \in Thread : W!Send(t) /\ asked' # asked
    BY DEF ThreadSteps, ReaderSteps, ProgramSteps, W!Call, W!TakeNumber, W!MakeQueue, W!Receive, W!TimesOut,
       W!Close, W!Closed, W!Read, W!Route, W!Reply, W!Happens, W!Dies
  <2> QED
    BY <2>1, <2>2, <2>3
<1>6. \A i \in DOMAIN wire' : wire'[i].kind = "answer" => MineThen(wire'[i].id, wire'[i].to)
  <2>1. CASE W!Read
    <3>1. wire \in Seq(Message) /\ wire # <<>> /\ wire' = Tail(wire)
      BY <2>1 DEF W!Read, WsTypes
    <3>2. /\ Len(wire) \in Nat /\ DOMAIN wire = 1 .. Len(wire) /\ DOMAIN Tail(wire) = 1 .. Len(wire) - 1
          /\ \A i \in 1 .. Len(wire) - 1 : Tail(wire)[i] = wire[i + 1]
      BY <3>1, HeadTailProperties, LenProperties
    <3>3. \A i \in DOMAIN wire' : \E j \in DOMAIN wire : wire'[i] = wire[j]
      <4> TAKE i \in DOMAIN wire'
      <4>1. i + 1 \in DOMAIN wire /\ wire'[i] = wire[i + 1]
        BY <3>1, <3>2
      <4> QED
        BY <4>1
    <3> QED
      BY <1>2, <3>3
  <2>2. ASSUME NEW m \in Message, wire' = Append(wire, m), m.kind = "answer" => MineThen(m.id, m.to)
        PROVE  \A i \in DOMAIN wire' : wire'[i].kind = "answer" => MineThen(wire'[i].id, wire'[i].to)
    <3>1. /\ DOMAIN wire = 1 .. Len(wire) /\ Len(wire) \in Nat /\ DOMAIN wire' = 1 .. Len(wire) + 1
          /\ \A i \in DOMAIN wire : wire'[i] = wire[i]
          /\ wire'[Len(wire) + 1] = m
      BY <2>2, AppendProperties, LenProperties DEF WsTypes
    <3>2. \A i \in DOMAIN wire' : (i \in DOMAIN wire /\ wire'[i] = wire[i]) \/ wire'[i] = m
      BY <3>1
    <3> QED
      BY <1>2, <2>2, <3>2
  <2>3. CASE \E r \in asked : W!Reply(r)
    <3>1. PICK r \in asked : W!Reply(r)
      BY <2>3
    <3>2. /\ W!Answer(r.id, r.by) \in Message
          /\ W!Answer(r.id, r.by).id = r.id /\ W!Answer(r.id, r.by).to = r.by
      BY DEF W!Answer, Message, AnswerMessage, WsTypes
    <3>3. wire' = Append(wire, W!Answer(r.id, r.by))
      BY <3>1 DEF W!Reply
    <3>4. MineThen(W!Answer(r.id, r.by).id, W!Answer(r.id, r.by).to)
      BY <1>1, <3>2
    <3> QED
      BY <2>2, <3>2, <3>3, <3>4
  <2>4. CASE \E n \in EventIds : W!Happens(n)
    <3>1. PICK n \in EventIds : W!Happens(n)
      BY <2>4
    <3>2. W!Event(n) \in Message /\ W!Event(n).kind # "answer"
      BY DEF W!Event, Message, EventMessage
    <3> QED
      BY <2>2, <3>1, <3>2 DEF W!Happens
  <2>5. CASE wire' \in {wire, <<>>}
    BY <1>2, <2>5
  <2>6. (\E t \in Thread : ThreadSteps(t)) \/ W!Dies \/ W!Route => wire' \in {wire, <<>>}
    BY DEF ThreadSteps, W!Call, W!TakeNumber, W!MakeQueue, W!Send, W!Receive, W!TimesOut, W!Close, W!Closed, W!Dies,
       W!Route
  <2> QED
    BY <2>1, <2>3, <2>4, <2>5, <2>6 DEF ReaderSteps, ProgramSteps
<1>7. wsReader'.kind = "answer" => MineThen(wsReader'.id, wsReader'.to)
  <2>1. CASE W!Read
    <3>1. wire \in Seq(Message) /\ wire # <<>> /\ wsReader' = Head(wire)
      BY <2>1 DEF W!Read, WsTypes
    <3>2. 1 \in DOMAIN wire /\ Head(wire) = wire[1]
      BY <3>1, LenProperties, EmptySeq
    <3> QED
      BY <1>2, <3>1, <3>2
  <2>2. CASE W!Route
    BY <2>2, NoMessageIs DEF W!Route
  <2>3. CASE wsReader' = wsReader
    BY <1>3, <2>3
  <2>4. W!Read \/ W!Route \/ wsReader' = wsReader
    BY DEF ThreadSteps, ReaderSteps, ProgramSteps, W!Call, W!TakeNumber, W!MakeQueue, W!Send, W!Receive, W!TimesOut,
       W!Close, W!Closed, W!Reply, W!Happens, W!Dies
  <2> QED
    BY <2>1, <2>2, <2>3, <2>4
<1>8. \A n \in DOMAIN queues' : \A i \in DOMAIN queues'[n] : queues'[n][i].id = n /\ MineThen(n, queues'[n][i].to)
  <2>1. CASE queues' = queues
    BY <1>4, <2>1
  <2>2. CASE \E t \in Thread : W!MakeQueue(t)
    <3>1. \A n \in DOMAIN queues' : queues'[n] = (IF n \in DOMAIN queues THEN queues[n] ELSE <<>>)
      BY <2>2 DEF W!MakeQueue, W!Number
    <3> QED
      BY <1>4, <3>1
  <2>3. CASE \E t \in Thread : W!Receive(t)
    <3>1. PICK t \in Thread : W!Receive(t)
      BY <2>3
    <3> DEFINE k == wsAt[t].id
    <3>2. k \in DOMAIN queues /\ queues[k] # <<>> /\ queues[k] \in Seq(AnswerMessage)
      BY <3>1 DEF W!Receive, Numbered, WsTypes
    <3>3. queues' = [queues EXCEPT ![k] = Tail(queues[k])]
      BY <3>1 DEF W!Receive
    <3>4. /\ Len(queues[k]) \in Nat /\ DOMAIN queues[k] = 1 .. Len(queues[k])
          /\ DOMAIN Tail(queues[k]) = 1 .. Len(queues[k]) - 1
          /\ \A i \in 1 .. Len(queues[k]) - 1 : Tail(queues[k])[i] = queues[k][i + 1]
      BY <3>2, HeadTailProperties, LenProperties
    <3> HIDE DEF k
    <3>5. \A i \in DOMAIN Tail(queues[k]) : \E j \in DOMAIN queues[k] : Tail(queues[k])[i] = queues[k][j]
      <4> TAKE i \in DOMAIN Tail(queues[k])
      <4>1. i + 1 \in DOMAIN queues[k] /\ Tail(queues[k])[i] = queues[k][i + 1]
        BY <3>4
      <4> QED
        BY <4>1
    <3>6. \A n \in DOMAIN queues' : n \in DOMAIN queues /\ queues'[n] = IF n = k THEN Tail(queues[k]) ELSE queues[n]
      BY <3>2, <3>3
    <3> QED
      BY <1>4, <3>2, <3>5, <3>6
  <2>4. CASE W!Route
    <3>1. \A n \in DOMAIN queues' : n \in DOMAIN queues /\
             queues'[n] = IF ~W!IsEvent(wsReader) /\ n = wsReader.id THEN Append(queues[n], wsReader) ELSE queues[n]
      BY <2>4 DEF W!Route, W!Number
    <3>2. ~W!IsEvent(wsReader) => wsReader.kind = "answer"
      <4>1. wsReader \in Message /\ (wsReader.kind = "event" => handler)
        BY <2>4 DEF W!Route, WsTypes, Handled
      <4> QED
        BY <4>1, MessageIs DEF W!IsEvent
    <3> SUFFICES ASSUME NEW n \in DOMAIN queues', NEW i \in DOMAIN queues'[n]
                 PROVE  queues'[n][i].id = n /\ MineThen(n, queues'[n][i].to)
      OBVIOUS
    <3>3. CASE queues'[n] = queues[n]
      BY <1>4, <3>1, <3>3
    <3>4. CASE ~W!IsEvent(wsReader) /\ n = wsReader.id
      <4>1. queues[n] \in Seq(AnswerMessage) /\ wsReader \in AnswerMessage /\ queues'[n] = Append(queues[n], wsReader)
        BY <1>3, <3>1, <3>2, <3>4 DEF WsTypes
      <4>2. /\ DOMAIN queues[n] = 1 .. Len(queues[n]) /\ Len(queues[n]) \in Nat
            /\ DOMAIN queues'[n] = 1 .. Len(queues[n]) + 1
            /\ \A j \in 1 .. Len(queues[n]) : queues'[n][j] = queues[n][j]
            /\ queues'[n][Len(queues[n]) + 1] = wsReader
        BY <4>1, AppendProperties, LenProperties
      <4>3. (i \in DOMAIN queues[n] /\ queues'[n][i] = queues[n][i]) \/ queues'[n][i] = wsReader
        BY <4>2
      <4> QED
        BY <1>3, <1>4, <3>1, <3>2, <3>4, <4>3
    <3> QED
      BY <3>1, <3>3, <3>4
  <2>5. \/ queues' = queues \/ (\E t \in Thread : W!MakeQueue(t)) \/ (\E t \in Thread : W!Receive(t)) \/ W!Route
    BY DEF ThreadSteps, ReaderSteps, ProgramSteps, W!Call, W!TakeNumber, W!Send, W!TimesOut,
       W!Close, W!Closed, W!Read, W!Reply, W!Happens, W!Dies
  <2> QED
    BY <2>1, <2>2, <2>3, <2>4, <2>5
<1> QED
  BY <1>5, <1>6, <1>7, <1>8 DEF Owned, Mine, MineThen

\* An answer that a call returns is its own.
LEMMA AnswersNext ==
    ASSUME WsTypes, Numbered, Owned, W!AnswersAreOwn, (\E t \in Thread : ThreadSteps(t)) \/ ReaderSteps \/ ProgramSteps
    PROVE  W!AnswersAreOwn'
<1>0. wsAt \in [Thread -> WsState] /\ DOMAIN got = Thread
  BY DEF WsTypes
<1>1. ASSUME got' = got, \A t \in Thread : wsAt'[t].turn = wsAt[t].turn
      PROVE  W!AnswersAreOwn'
  BY <1>1 DEF W!AnswersAreOwn, W!This
<1>2. ReaderSteps \/ ProgramSteps => got' = got /\ wsAt' = wsAt
  BY DEF ReaderSteps, ProgramSteps, W!Read, W!Route, W!Reply, W!Happens, W!Dies
<1>3. ASSUME NEW t \in Thread, ThreadSteps(t) PROVE W!AnswersAreOwn'
  <2>1. CASE \E op \in {"command", "register", "quit"} : W!Call(t, op)
    <3>1. \A u \in Thread : u # t => wsAt'[u] = wsAt[u]
      BY <1>0, <2>1, WsCall
    <3>2. got' = [got EXCEPT ![t] = W!None]
      BY <2>1 DEF W!Call
    <3> QED
      BY <1>0, <3>1, <3>2 DEF W!AnswersAreOwn, W!This
  <2>2. CASE W!Receive(t)
    <3> DEFINE k == wsAt[t].id
               m == Head(queues[k])
    <3>1. k \in DOMAIN queues /\ queues[k] # <<>> /\ queues[k] \in Seq(AnswerMessage) /\ InFlight(t)
      BY <2>2 DEF W!Receive, Numbered, WsTypes, InFlight
    <3>2. m \in AnswerMessage /\ 1 \in DOMAIN queues[k] /\ m = queues[k][1]
      BY <3>1, HeadTailProperties, LenProperties, EmptySeq
    <3>3. m.id = k /\ Mine(k, m.to)
      BY <3>1, <3>2 DEF Owned
    <3>4. m.to = <<t, wsAt[t].turn>> /\ m = W!Answer(m.id, m.to)
      <4>1. m.to = <<t, wsAt[t].turn>>
        BY <3>1, <3>3 DEF Mine
      <4>2. m = W!Answer(m.id, m.to)
        BY <3>2, MessageIs DEF Message, AnswerMessage
      <4> QED
        BY <4>1, <4>2
    <3>5. got' = [got EXCEPT ![t] = m]
      BY <2>2 DEF W!Receive
    <3>6. \A u \in Thread : wsAt'[u].turn = wsAt[u].turn
      <4>1. W!Goto(t, "close") \/ W!Return(t)
        BY <2>2 DEF W!Receive
      <4> QED
        BY <1>0, <4>1, WsGoto, WsReturn DEF WsStep
    <3> HIDE DEF k, m
    <3>7. \A u \in Thread : got'[u] = IF u = t THEN m ELSE got[u]
      BY <1>0, <3>5
    <3> SUFFICES ASSUME NEW u \in Thread
                 PROVE  got'[u] = W!None \/ got'[u] = W!Answer(got'[u].id, <<u, wsAt'[u].turn>>)
      BY DEF W!AnswersAreOwn, W!This
    <3>8. CASE u = t
      BY <3>4, <3>6, <3>7, <3>8
    <3>9. CASE u # t
      BY <3>6, <3>7, <3>9 DEF W!AnswersAreOwn, W!This
    <3> QED
      BY <3>8, <3>9
  <2>3. CASE W!TakeNumber(t)
    BY <1>0, <1>1, <2>3, WsTake DEF W!TakeNumber, WsTypes
  <2>4. CASE W!MakeQueue(t) \/ W!Close(t)
    <3>1. (W!Goto(t, "send") \/ W!Goto(t, "join")) /\ got' = got
      BY <2>4 DEF W!MakeQueue, W!Close
    <3> QED
      BY <1>0, <1>1, <3>1, WsGoto DEF WsStep
  <2>5. CASE W!Send(t)
    <3>1. (W!Goto(t, "wait") \/ W!Return(t)) /\ got' = got
      BY <2>5 DEF W!Send
    <3> QED
      BY <1>0, <1>1, <3>1, WsGoto, WsReturn DEF WsStep
  <2>6. CASE W!TimesOut(t) \/ W!Closed(t)
    <3>1. W!Return(t) /\ got' = got
      BY <2>6 DEF W!TimesOut, W!Closed
    <3> QED
      BY <1>0, <1>1, <3>1, WsReturn
  <2> QED
    BY <1>3, <2>1, <2>2, <2>3, <2>4, <2>5, <2>6 DEF ThreadSteps
<1> QED
  BY <1>1, <1>2, <1>3

\* A channel holds finitely many events.
LEMMA EventsAreFinite ==
    ASSUME NEW s \in Seq(Message)
    PROVE  IsFiniteSet(EventsIn(s)) /\ Cardinality(EventsIn(s)) \in Nat
<1>1. IsFiniteSet(1 .. Len(s))
  BY FS_Interval, LenProperties
<1>2. EventsIn(s) \subseteq 1 .. Len(s)
  BY LenProperties DEF EventsIn
<1> QED
  BY <1>1, <1>2, FS_Subset, FS_CardinalityType

\* One event more on the way when one happens.
LEMMA EventsAppended ==
    ASSUME NEW s \in Seq(Message), NEW m \in Message
    PROVE  Cardinality(EventsIn(Append(s, m))) = Cardinality(EventsIn(s)) + (IF m.kind = "event" THEN 1 ELSE 0)
<1>1. /\ DOMAIN s = 1 .. Len(s) /\ Len(s) \in Nat /\ DOMAIN Append(s, m) = 1 .. Len(s) + 1
      /\ \A i \in 1 .. Len(s) : Append(s, m)[i] = s[i]
      /\ Append(s, m)[Len(s) + 1] = m
  BY AppendProperties, LenProperties
<1>2. EventsIn(Append(s, m)) = IF m.kind = "event" THEN EventsIn(s) \cup {Len(s) + 1} ELSE EventsIn(s)
  BY <1>1 DEF EventsIn
<1>3. Len(s) + 1 \notin EventsIn(s)
  BY <1>1 DEF EventsIn
<1>4. IsFiniteSet(EventsIn(s)) /\ Cardinality(EventsIn(s)) \in Nat
  BY EventsAreFinite
<1>5. Cardinality(EventsIn(s) \cup {Len(s) + 1}) = Cardinality(EventsIn(s)) + 1
  BY <1>3, <1>4, FS_AddElement
<1> QED
  BY <1>2, <1>4, <1>5

\* One less when one is read.
LEMMA EventsRead ==
    ASSUME NEW s \in Seq(Message), s # <<>>
    PROVE  Cardinality(EventsIn(s)) = Cardinality(EventsIn(Tail(s))) + (IF Head(s).kind = "event" THEN 1 ELSE 0)
<1> DEFINE rest == EventsIn(s) \ {1}
           f == [i \in EventsIn(Tail(s)) |-> i + 1]
<1>1. /\ Len(s) \in Nat /\ Len(s) >= 1 /\ DOMAIN s = 1 .. Len(s) /\ Head(s) = s[1]
      /\ Tail(s) \in Seq(Message) /\ DOMAIN Tail(s) = 1 .. Len(s) - 1
      /\ \A i \in 1 .. Len(s) - 1 : Tail(s)[i] = s[i + 1]
  BY HeadTailProperties, LenProperties, EmptySeq
<1>2. f \in Bijection(EventsIn(Tail(s)), rest)
  <2>1. \A i \in EventsIn(Tail(s)) : i \in Nat /\ i + 1 \in rest
    BY <1>1 DEF EventsIn
  <2>2. \A i, j \in EventsIn(Tail(s)) : i # j => f[i] # f[j]
    BY <2>1
  <2>3. \A k \in rest : \E i \in EventsIn(Tail(s)) : f[i] = k
    <3> TAKE k \in rest
    <3>1. k \in 2 .. Len(s) /\ s[k].kind = "event"
      BY <1>1 DEF EventsIn
    <3>2. k - 1 \in 1 .. Len(s) - 1 /\ Tail(s)[k - 1] = s[k - 1 + 1] /\ k - 1 + 1 = k
      BY <1>1, <3>1
    <3>3. k - 1 \in EventsIn(Tail(s)) /\ f[k - 1] = k
      BY <1>1, <3>1, <3>2 DEF EventsIn
    <3> QED
      BY <3>3
  <2>4. f \in [EventsIn(Tail(s)) -> rest]
    BY <2>1
  <2> HIDE DEF f, rest
  <2> QED
    BY <2>2, <2>3, <2>4, Fun_IsBij
<1>3. Cardinality(rest) = Cardinality(EventsIn(Tail(s)))
  <2>1. ExistsBijection(EventsIn(Tail(s)), rest)
    BY <1>2 DEF ExistsBijection
  <2>2. IsFiniteSet(EventsIn(Tail(s)))
    BY <1>1, EventsAreFinite
  <2> HIDE DEF rest
  <2> QED
    BY <2>1, <2>2, FS_Bijection
<1>4. IsFiniteSet(EventsIn(s)) /\ Cardinality(EventsIn(s)) \in Nat /\ Cardinality(EventsIn(Tail(s))) \in Nat
  BY <1>1, EventsAreFinite
<1>5. 1 \in EventsIn(s) <=> Head(s).kind = "event"
  BY <1>1 DEF EventsIn
<1>6. Cardinality(rest) = IF 1 \in EventsIn(s) THEN Cardinality(EventsIn(s)) - 1 ELSE Cardinality(EventsIn(s))
  BY <1>4, FS_RemoveElement
<1> QED
  BY <1>3, <1>4, <1>5, <1>6

\* Every step keeps the count.
LEMMA CountedNext ==
    ASSUME WsTypes, Handled, Counted, (\E t \in Thread : ThreadSteps(t)) \/ ReaderSteps \/ ProgramSteps
    PROVE  Counted'
<1> DEFINE onWay == Cardinality(EventsIn(wire))
<1>0. /\ wire \in Seq(Message) /\ onWay \in Nat /\ counts \in Nat /\ events \in Nat
      /\ wsReader \in Message \cup {W!None}
  BY EventsAreFinite DEF WsTypes
<1>1. CASE UNCHANGED <<wire, wsReader, counts, events, connected>>
  BY <1>1 DEF Counted
<1>2. CASE connected' = FALSE
  BY <1>2 DEF Counted
<1>3. CASE W!Read
  <2>1. wire # <<>> /\ wsReader = W!None /\ wsReader' = Head(wire) /\ wire' = Tail(wire)
        /\ UNCHANGED <<counts, connected, events>>
    BY <1>3 DEF W!Read
  <2>2. /\ onWay = Cardinality(EventsIn(Tail(wire))) + (IF Head(wire).kind = "event" THEN 1 ELSE 0)
        /\ Cardinality(EventsIn(Tail(wire))) \in Nat
    BY <1>0, <2>1, EventsRead, EventsAreFinite, HeadTailProperties
  <2>3. connected => counts + onWay = events
    BY <1>0, <2>1, NoMessageIs DEF Counted
  <2> QED
    BY <1>0, <2>1, <2>2, <2>3 DEF Counted
<1>4. CASE W!Route
  <2>1. /\ wsReader' = W!None /\ counts' = IF W!IsEvent(wsReader) THEN counts + 1 ELSE counts
        /\ UNCHANGED <<wire, connected, events>>
    BY <1>4 DEF W!Route
  <2>2. W!IsEvent(wsReader) <=> wsReader.kind = "event"
    BY DEF W!IsEvent, Handled
  <2> QED
    BY <1>0, <2>1, <2>2, NoMessageIs DEF Counted
<1>5. ASSUME NEW r \in asked, W!Reply(r) PROVE Counted'
  <2>1. W!Answer(r.id, r.by) \in Message /\ W!Answer(r.id, r.by).kind # "event"
    BY DEF W!Answer, Message, AnswerMessage, WsTypes
  <2>2. wire' = Append(wire, W!Answer(r.id, r.by)) /\ UNCHANGED <<wsReader, counts, connected, events>>
    BY <1>5 DEF W!Reply
  <2>3. Cardinality(EventsIn(wire')) = onWay
    BY <1>0, <2>1, <2>2, EventsAppended
  <2> QED
    BY <2>2, <2>3 DEF Counted
<1>6. ASSUME NEW n \in EventIds, W!Happens(n) PROVE Counted'
  <2>1. W!Event(n) \in Message /\ W!Event(n).kind = "event"
    BY DEF W!Event, Message, EventMessage
  <2>2. wire' = Append(wire, W!Event(n)) /\ events' = events + 1 /\ UNCHANGED <<wsReader, counts, connected>>
    BY <1>6 DEF W!Happens
  <2>3. Cardinality(EventsIn(wire')) = onWay + 1
    BY <1>0, <2>1, <2>2, EventsAppended
  <2> DEFINE hand == IF wsReader.kind = "event" THEN 1 ELSE 0
  <2>4. hand \in Nat /\ (connected => counts + onWay + hand = events)
    BY DEF Counted
  <2>5. Counted' <=> (connected => counts + Cardinality(EventsIn(wire')) + hand = events + 1)
    BY <2>2 DEF Counted
  <2> HIDE DEF hand, onWay
  <2> QED
    BY <1>0, <2>3, <2>4, <2>5
<1>7. \/ UNCHANGED <<wire, wsReader, counts, events, connected>> \/ connected' = FALSE
      \/ W!Read \/ W!Route \/ (\E r \in asked : W!Reply(r)) \/ \E n \in EventIds : W!Happens(n)
  BY DEF ThreadSteps, ReaderSteps, ProgramSteps, W!Call, W!TakeNumber, W!MakeQueue, W!Send, W!Receive, W!TimesOut,
     W!Close, W!Closed, W!Dies
<1> QED
  BY <1>1, <1>2, <1>3, <1>4, <1>5, <1>6, <1>7

\* The invariant holds initially.
LEMMA WsInvInit == W!Init => WsInv
<1> SUFFICES ASSUME W!Init PROVE WsInv
  OBVIOUS
<1>1. /\ wsAt = [t \in Thread |-> W!Free] /\ counter = 0 /\ queues = <<>> /\ handler = FALSE /\ counts = 0
      /\ connected = TRUE /\ wsReader = W!None /\ asked = {} /\ wsTold = FALSE /\ wire = <<>> /\ events = 0
      /\ got = [t \in Thread |-> W!None]
  BY DEF W!Init
<1>2. wsAt \in [Thread -> WsState] /\ \A t \in Thread : wsAt[t].step = "free" /\ wsAt[t].op = "none"
  BY <1>1, FreeIs
<1>3. wire \in Seq(Message) /\ DOMAIN wire = {} /\ DOMAIN queues = {}
  BY <1>1, EmptySeq
<1>4. WsTypes
  BY <1>1, <1>2, <1>3 DEF WsTypes
<1>5. Handled /\ Numbered /\ Owned
  BY <1>1, <1>2, <1>3, NoMessageIs DEF Handled, Numbered, Owned, InFlight
<1>6. W!AnswersAreOwn
  BY <1>1 DEF W!AnswersAreOwn
<1>7. Counted
  <2>1. EventsIn(wire) = {}
    BY <1>3 DEF EventsIn
  <2>2. Cardinality(EventsIn(wire)) = 0
    BY <2>1, FS_EmptySet
  <2> QED
    BY <1>1, <2>2, NoMessageIs DEF Counted
<1> QED
  BY <1>4, <1>5, <1>6, <1>7 DEF WsInv

\* Every step of the connection keeps the invariant.
LEMMA WsInvNext ==
    ASSUME WsInv, W!Next \/ UNCHANGED wsVars
    PROVE  WsInv'
<1>1. CASE W!Next
  <2>1. (\E t \in Thread : ThreadSteps(t)) \/ ReaderSteps \/ ProgramSteps
    BY <1>1, WsStepsAre
  <2>2. WsTypes /\ Handled /\ Numbered /\ Owned /\ W!AnswersAreOwn /\ Counted
    BY DEF WsInv
  <2>3. WsTypes' /\ FlightKept
    BY <2>1, <2>2, WsTypesNext, FlightIsKept
  <2>4. Handled' /\ Numbered' /\ Owned'
    BY <2>1, <2>2, <2>3, HandledNext, NumberedStays, OwnedNext
  <2>5. W!AnswersAreOwn' /\ Counted'
    BY <2>1, <2>2, AnswersNext, CountedNext
  <2> QED
    BY <2>3, <2>4, <2>5 DEF WsInv
<1>2. CASE UNCHANGED wsVars
  BY <1>2 DEF wsVars, WsInv, WsTypes, Handled, Numbered, InFlight, Owned, Mine, W!AnswersAreOwn, W!This, Counted,
     EventsIn
<1> QED
  BY <1>1, <1>2

\* The connection counts as this module does.
LEMMA SameEvents == \A S : W!Cardinality(S) = Cardinality(S)
  BY DEF Cardinality, W!Cardinality

\* The invariant holds in every state of the connection.
LEMMA WsInvariance == MCSpec => [](kind = "ws" => WsInv)
<1>1. MCInit => (kind = "ws" => WsInv)
  BY WsInvInit DEF MCInit
<1>2. (kind = "ws" => WsInv)
        /\ [MCNext]_<<reportVars, ueVars, wsVars, coreVars, execVars, attachVars, viaviVars, reportsVars>>
      => (kind = "ws" => WsInv)'
  <2> SUFFICES ASSUME kind = "ws" => WsInv, kind' = "ws",
                      [MCNext]_<<reportVars, ueVars, wsVars, coreVars, execVars, attachVars, viaviVars,
                                 reportsVars>>
               PROVE  WsInv'
    OBVIOUS
  <2>1. CASE MCNext
    BY <2>1, StepOfWs, WsInvNext
  <2>2. CASE UNCHANGED <<reportVars, ueVars, wsVars, coreVars, execVars, attachVars, viaviVars, reportsVars>>
    <3>1. kind' = kind /\ UNCHANGED wsVars
      BY <2>2 DEF reportVars
    <3> QED
      BY <3>1, WsInvNext
  <2> QED
    BY <2>1, <2>2
<1> QED
  BY <1>1, <1>2, PTL DEF MCSpec

\* Every answer goes to the call that asked for it, and while the connection lasts
\* every event is on the wire, in the hands of the reader or counted: for any number
\* of threads, commands and events on one connection, in whatever order they come.
THEOREM MessagesGoHome == MCSpec => []MessagesAreRouted
<1>1. (kind = "ws" => WsInv) => MessagesAreRouted
  <2> SUFFICES ASSUME WsInv PROVE W!AnswersAreOwn /\ W!EventsAreCounted
    BY DEF MessagesAreRouted, W!MessagesAreRouted
  <2>1. W!EventsAreCounted
    BY SameEvents DEF WsInv, Counted, EventsIn, W!EventsAreCounted
  <2> QED
    BY <2>1 DEF WsInv
<1> QED
  BY <1>1, WsInvariance, PTL

-----------------------------------------------------------------------------
\* The kind of a behaviour stays, and its steps are those of its module.
LEMMA StepOfUe ==
    ASSUME MCNext, kind' = "ue"
    PROVE  kind = "ue" /\ U!Next
<1> USE KindsAssumption DEF Drivers
<1>1. CASE kind \in Kinds /\ Next /\ UNCHANGED cut /\ Others
  BY <1>1 DEF Next
<1>2. CASE kind \in CaptureKinds /\ C!Next /\ Others
  <2>1. kind' = kind
    BY <1>2 DEF C!Next, C!Packet, C!TSharkFails
  <2> QED
    BY <1>2, <2>1
<1>3. CASE kind \in LogKinds /\ R!Next /\ UNCHANGED cut /\ Others
  BY <1>3 DEF R!Next
<1>4. ASSUME kind \in Drivers, Others PROVE kind' = kind
  BY <1>4 DEF Others, reportVars
<1> QED
  BY <1>1, <1>2, <1>3, <1>4, Zenon DEF MCNext

-----------------------------------------------------------------------------
(* The UEs: the invariant.                                                 *)

\* The steps that end a process, those of a Start that launches one, those of a Stop
\* that powers a UE off, and those that hold the lock.
StopSteps == {"poll", "join", "quit", "close", "stopped"}
LaunchSteps == StopSteps \cup {"tweak", "launch", "license", "connect", "cells"}
OffSteps == {"off", "force", "off done"}
HeldSteps == LaunchSteps \cup OffSteps \cup {"power", "alive"}
UeStep == HeldSteps \cup {"idle", "known", "new", "start", "stop"}
UeOp == {"none", "GetDefinition", "Start", "Stop"}
StepsOf(op) ==
    CASE op = "none" -> {"idle"}
      [] op = "GetDefinition" -> {"known", "new"}
      [] op = "Start" -> LaunchSteps \cup {"start", "power", "alive"}
      [] op = "Stop" -> StopSteps \cup OffSteps \cup {"stop"}

\* The types of the calls, and of the rest.
UeCall == [step : UeStep, op : UeOp, whose : U!Caller \cup {U!Nobody}]
CallTypes ==
    /\ at \in [U!Caller -> UeCall]
    /\ \A c \in U!Caller : at[c].step \in StepsOf(at[c].op)
    /\ at[U!Agent].op \in {"none", "Stop"}
UeTypes ==
    /\ client \in [Client -> {"out", "told", "on", "ending", "gone"}]
    /\ DOMAIN dict \subseteq Client
    /\ dict \in [DOMAIN dict -> [id : Nat, started : BOOLEAN]]
    /\ sut \in {"none", "up", "dead"} /\ ues \in Nat /\ socket \in {"none", "open", "closed"}
    /\ poll \in {"none", "waits", "has"} /\ closed \in BOOLEAN

\* Who is in a step with the lock holds it.
OneHolds == \A c \in U!Caller : at[c].step \in HeldSteps => holder = c

\* A session: definitions, then one Start at a time, then the Stops of the clients,
\* each of its own UE; and a simulator has one client.
Sessions ==
    /\ \A c \in Client : at[c].op = "Start" =>
          /\ client[c] = "told"
          /\ \A d \in Client : U!Takes(d) => client[d] \in {"told", "on"}
          /\ \A d \in Client \ {c} : at[d].op # "Start"
          /\ \A d \in U!Caller : at[d].op # "Stop"
    /\ \A c \in Client : at[c].op = "Stop" => client[c] \in {"on", "ending"} /\ at[c].whose = c
    /\ (\E c \in U!Caller : at[c].op = "Stop") => \A c \in Client : client[c] # "told"
    /\ \A c \in Client : at[c].op = "GetDefinition" =>
          /\ mode # "simulator" /\ client[c] \in {"out", "told", "on"}
          /\ (client[c] = "out" => \A d \in Client : client[d] \in {"out", "told"})
    /\ \A c \in Client : ~U!Takes(c) => client[c] \in {"out", "gone"} /\ at[c].op = "none"
    /\ at[U!Agent].op = "Stop" \/ (\E c \in Client : client[c] = "gone") =>
          \A c \in Client : client[c] = "gone" /\ at[c].op = "none"

\* The subscribers have numbers of their own.
Numbers ==
    /\ count \in Nat /\ IsFiniteSet(DOMAIN dict) /\ count = Cardinality(DOMAIN dict)
    /\ \A c \in DOMAIN dict : dict[c].id \in 1 .. count
    /\ \A c, d \in DOMAIN dict : c # d => dict[c].id # dict[d].id

\* Who was told is known, and who is on has started; a process begins and ends
\* without a UE, and what a Stop powers off has started.
Started(c) == c \in DOMAIN dict /\ dict[c].started
NoneStarted == \A c \in Client : ~Started(c)
Subscribers ==
    /\ mode = "simulator" => DOMAIN dict = {}
    /\ \A c \in Client : at[c].step = "new" => client[c] = "out" /\ c \notin DOMAIN dict
    /\ \A c \in Client : mode # "simulator" =>
          /\ client[c] = "told" => c \in DOMAIN dict
          /\ client[c] = "on" /\ at[c].op # "Stop" => Started(c)
    /\ \A c \in Client : Started(c) => client[c] \in {"on", "ending", "gone"} \/ at[c].step = "alive"
    /\ \A c \in Client : client[c] \in {"told", "on", "ending"} /\ c \notin DOMAIN dict => NoneStarted
    /\ \A c \in U!Caller :
          /\ at[c].step \in LaunchSteps => NoneStarted
          /\ at[c].step \in OffSteps => Started(at[c].whose)

\* What is left of a session has a client that has not stopped yet.
BusyWith(c) == client[c] \in {"on", "ending", "gone"} \/ (at[c].op = "Start" /\ at[c].step # "start")
LeftOver == sut # "none" \/ file \in {"closed", "broken"} \/ poll # "none"
SomebodyLeft == LeftOver => \E c \in Client : BusyWith(c)

\* The process has a UE for every subscriber, and who has just been started is on.
UesRun ==
    /\ socket = "open" => sut = "up"
    /\ sut # "none" => \A c \in DOMAIN dict : dict[c].id <= ues
    /\ mode # "simulator" => \A c \in Client : at[c].step = "alive" =>
          Started(c) /\ (sut = "up" => dict[c].id \in on)
    /\ U!StartedIsOn

\* The file is closed when only an attach can still write: a Start begins with an empty one,
\* the thread that polls has ended, and there is no connection.
FileClosed ==
    /\ \A c \in U!Caller :
          /\ at[c].step \in {"quit", "close", "stopped"} => poll = "none"
          /\ at[c].step = "close" => socket # "open"
          /\ at[c].op = "Start" /\ at[c].step \in LaunchSteps =>
                file \notin {"closed", "broken"} /\ poll = "none" /\ (at[c].step # "cells" => socket # "open")
    /\ file \in {"empty", "open", "closed", "broken"}
    /\ file \in {"closed", "broken"} =>
          /\ closed /\ poll = "none" /\ socket # "open" /\ NoneStarted
          /\ \/ \E c \in Client : at[c].op = "Stop" /\ at[c].step = "stopped"
             \/ \A c \in Client : client[c] = "gone"

\* The end is written once for each process: until then there are one and a connection,
\* and neither a Start that launches the next process nor the return of a Stop finds
\* the metrics without it.
EndedOnce ==
    /\ ~closed => sut # "none" /\ socket # "none"
    /\ \A c \in U!Caller :
          /\ at[c].step = "stopped" => closed
          /\ at[c].op = "Start" /\ at[c].step \in LaunchSteps \ {"cells"} => closed

\* The invariant of the UEs.
UeInv ==
    /\ CallTypes /\ UeTypes /\ OneHolds /\ Sessions /\ Numbers /\ Subscribers
    /\ SomebodyLeft /\ UesRun /\ FileClosed

\* The callers are the clients and the agent.
LEMMA CallerIs == Client \subseteq U!Caller /\ U!Agent \in U!Caller /\ U!Agent \notin Client /\ U!Nobody \notin U!Caller
  BY ClientAssumption DEF U!Caller, U!Agent, U!Nobody

\* The driver counts as this module does.
LEMMA UeCardinality == \A S : U!Cardinality(S) = Cardinality(S)
  BY DEF Cardinality, U!Cardinality

\* The steps of the calls.
LEMMA StepsAre ==
    /\ StepsOf("none") = {"idle"}
    /\ StepsOf("GetDefinition") = {"known", "new"}
    /\ StepsOf("Start") = LaunchSteps \cup {"start", "power", "alive"}
    /\ StepsOf("Stop") = StopSteps \cup OffSteps \cup {"stop"}
    /\ \A op \in UeOp : StepsOf(op) \subseteq UeStep
<1>1. /\ StepsOf("none") = {"idle"}
      /\ StepsOf("GetDefinition") = {"known", "new"}
      /\ StepsOf("Start") = LaunchSteps \cup {"start", "power", "alive"}
      /\ StepsOf("Stop") = StopSteps \cup OffSteps \cup {"stop"}
  BY DEF StepsOf
<1> QED
  BY <1>1 DEF UeOp, UeStep, HeldSteps, LaunchSteps, StopSteps

\* What is known of a call from its step.
LEMMA UeStepIs ==
    ASSUME CallTypes, NEW c \in U!Caller
    PROVE  /\ at[c] \in UeCall /\ at[c].op \in UeOp /\ at[c].step \in UeStep
           /\ at[c].op = "none" <=> at[c].step = "idle"
           /\ at[c].step \in {"known", "new"} <=> at[c].op = "GetDefinition"
           /\ at[c].step \in {"start", "tweak", "launch", "license", "connect", "cells", "power", "alive"}
                => at[c].op = "Start"
           /\ at[c].step \in OffSteps \cup {"stop"} => at[c].op = "Stop"
           /\ at[c].step \in StopSteps => at[c].op \in {"Start", "Stop"}
           /\ at[c].step \in LaunchSteps => at[c].op \in {"Start", "Stop"}
           /\ at[c].op = "Start" /\ at[c].step # "start" => at[c].step \in HeldSteps
           /\ at[c].op \in {"GetDefinition", "Start"} => c \in Client
<1>1. at[c] \in UeCall /\ at[c].op \in UeOp /\ at[c].step \in UeStep /\ at[c].step \in StepsOf(at[c].op)
  BY DEF CallTypes, UeCall
<1>2. at[c].op \in {"GetDefinition", "Start"} => c \in Client
  BY DEF CallTypes, U!Caller
<1>3. CASE at[c].op = "none"
  BY <1>1, <1>2, <1>3 DEF StepsOf, StopSteps, LaunchSteps, OffSteps, HeldSteps
<1>4. CASE at[c].op = "GetDefinition"
  BY <1>1, <1>2, <1>4 DEF StepsOf, StopSteps, LaunchSteps, OffSteps, HeldSteps
<1>5. CASE at[c].op = "Start"
  BY <1>1, <1>2, <1>5 DEF StepsOf, StopSteps, LaunchSteps, OffSteps, HeldSteps
<1>6. CASE at[c].op = "Stop"
  BY <1>1, <1>2, <1>6 DEF StepsOf, StopSteps, LaunchSteps, OffSteps, HeldSteps
<1> QED
  BY <1>1, <1>3, <1>4, <1>5, <1>6 DEF UeOp

\* Goto moves one call.
LEMMA UeGoto ==
    ASSUME CallTypes, NEW c \in U!Caller, NEW s \in StepsOf(at[c].op), U!Goto(c, s)
    PROVE  /\ CallTypes'
           /\ at'[c].step = s
           /\ \A d \in U!Caller : /\ at'[d].op = at[d].op /\ at'[d].whose = at[d].whose
                                  /\ d # c => at'[d] = at[d]
<1>1. at \in [U!Caller -> UeCall] /\ at[c] \in UeCall /\ at[c].op \in UeOp /\ s \in UeStep
  BY StepsAre DEF CallTypes, UeCall
<1>2. /\ [at[c] EXCEPT !.step = s] \in UeCall
      /\ [at[c] EXCEPT !.step = s].step = s
      /\ [at[c] EXCEPT !.step = s].op = at[c].op
      /\ [at[c] EXCEPT !.step = s].whose = at[c].whose
  BY <1>1 DEF UeCall
<1>3. /\ at' \in [U!Caller -> UeCall] /\ at'[c].step = s
      /\ \A d \in U!Caller : /\ at'[d].op = at[d].op /\ at'[d].whose = at[d].whose
                             /\ d # c => at'[d] = at[d]
  BY <1>1, <1>2 DEF U!Goto
<1> QED
  BY <1>3, CallerIs DEF CallTypes

\* Enter begins a call.
LEMMA UeEnter ==
    ASSUME CallTypes, NEW c \in U!Caller, NEW op \in UeOp, NEW s \in StepsOf(op), U!Enter(c, s, op),
           c = U!Agent => op = "Stop"
    PROVE  /\ CallTypes'
           /\ at'[c].step = s /\ at'[c].op = op /\ at'[c].whose = c
           /\ \A d \in U!Caller : d # c => at'[d] = at[d]
<1>1. at \in [U!Caller -> UeCall] /\ s \in UeStep
  BY StepsAre DEF CallTypes
<1>2. [step |-> s, op |-> op, whose |-> c] \in UeCall
  BY <1>1 DEF UeCall
<1>3. /\ at' \in [U!Caller -> UeCall]
      /\ at'[c].step = s /\ at'[c].op = op /\ at'[c].whose = c
      /\ \A d \in U!Caller : d # c => at'[d] = at[d]
  BY <1>1, <1>2 DEF U!Enter
<1> QED
  BY <1>3, CallerIs DEF CallTypes

\* Leave ends it, and lets go of the lock.
LEMMA UeLeave ==
    ASSUME CallTypes, NEW c \in U!Caller, U!Leave(c)
    PROVE  /\ CallTypes'
           /\ at'[c].step = "idle" /\ at'[c].op = "none"
           /\ \A d \in U!Caller : d # c => at'[d] = at[d]
           /\ \A d \in U!Caller : d # c /\ holder = d => holder' = d
<1>1. at \in [U!Caller -> UeCall]
  BY DEF CallTypes
<1>2. U!Idle \in UeCall /\ U!Idle.step = "idle" /\ U!Idle.op = "none"
  BY DEF UeCall, U!Idle, UeStep, UeOp
<1>3. /\ at' \in [U!Caller -> UeCall] /\ at'[c].step = "idle" /\ at'[c].op = "none"
      /\ \A d \in U!Caller : d # c => at'[d] = at[d]
      /\ \A d \in U!Caller : d # c /\ holder = d => holder' = d
  BY <1>1, <1>2 DEF U!Leave
<1>4. at'[c].step \in StepsOf(at'[c].op)
  BY <1>3, StepsAre
<1> QED
  BY <1>3, <1>4, CallerIs DEF CallTypes

\* Reach changes what one client has reached, and nothing for the agent.
LEMMA UeReach ==
    ASSUME UeTypes, NEW c \in U!Caller, NEW what \in {"out", "told", "on", "ending", "gone"}, U!Reach(c, what)
    PROVE  /\ client' \in [Client -> {"out", "told", "on", "ending", "gone"}]
           /\ c \in Client => client'[c] = what
           /\ \A d \in Client : d # c => client'[d] = client[d]
  BY DEF UeTypes, U!Reach

\* A step that does not touch the calls keeps what is known of them.
LEMMA CallsKept ==
    ASSUME CallTypes, Sessions, OneHolds, UNCHANGED <<mode, at, client, holder>>
    PROVE  CallTypes' /\ Sessions' /\ OneHolds'
  BY DEF CallTypes, Sessions, OneHolds, U!Takes

\* A call that goes on keeps the session.
SameOp == \A c \in U!Caller : at'[c].op = at[c].op /\ at'[c].whose = at[c].whose
LEMMA SessionsKept ==
    ASSUME Sessions, SameOp, UNCHANGED <<mode, client>>
    PROVE  Sessions'
  BY CallerIs DEF SameOp, Sessions, U!Takes

\* ... and what is known of the subscribers, if it does what is right at its step.
LEMMA SubscribersKept ==
    ASSUME Subscribers, SameOp, UNCHANGED <<mode, client, dict>>, NEW c \in U!Caller,
           \A d \in U!Caller : d # c => at'[d] = at[d],
           at'[c].step # "new", at[c].step # "alive",
           at'[c].step \in LaunchSteps => NoneStarted,
           at'[c].step \in OffSteps => Started(at[c].whose)
    PROVE  Subscribers'
<1>2. \A d \in Client : /\ at'[d].step = "new" => at[d].step = "new"
                        /\ at[d].step = "alive" => at'[d].step = "alive"
  BY CallerIs
<1>3. \A d \in U!Caller : at'[d].step \in OffSteps => Started(at'[d].whose)
  BY DEF Subscribers, SameOp
<1>4. \A d \in U!Caller : at'[d].step \in LaunchSteps => NoneStarted
  BY DEF Subscribers
<1>5. \A d \in Client : mode # "simulator" =>
          /\ client[d] = "told" => d \in DOMAIN dict
          /\ client[d] = "on" /\ at'[d].op # "Stop" => Started(d)
  BY CallerIs DEF Subscribers, SameOp
<1>6. \A d \in Client : Started(d) => client[d] \in {"on", "ending", "gone"} \/ at'[d].step = "alive"
  BY <1>2 DEF Subscribers
<1>7. \A d \in Client : at'[d].step = "new" => client[d] = "out" /\ d \notin DOMAIN dict
  BY <1>2 DEF Subscribers
<1>8. /\ mode = "simulator" => DOMAIN dict = {}
      /\ \A d \in Client : client[d] \in {"told", "on", "ending"} /\ d \notin DOMAIN dict => NoneStarted
  BY DEF Subscribers
<1> QED
  BY <1>3, <1>4, <1>5, <1>6, <1>7, <1>8 DEF Subscribers, NoneStarted, Started

\* The invariant says nothing of the other variables.
LEMMA UeFrame ==
    ASSUME UeInv, UNCHANGED <<mode, at, client, holder, dict, count, sut, ues, on, socket, file, closed, poll>>
    PROVE  UeInv'
<1>1. CallTypes' /\ Sessions' /\ OneHolds'
  BY CallsKept DEF UeInv
<1>2. UeTypes' /\ Numbers'
  BY DEF UeInv, UeTypes, Numbers
<1>3. Subscribers' /\ SomebodyLeft'
  BY DEF UeInv, Subscribers, NoneStarted, Started, SomebodyLeft, LeftOver, BusyWith
<1>4. UesRun' /\ FileClosed'
  BY DEF UeInv, UesRun, FileClosed, U!StartedIsOn, U!Known, NoneStarted, Started
<1> QED
  BY <1>1, <1>2, <1>3, <1>4 DEF UeInv

-----------------------------------------------------------------------------
(* The UEs: GetDefinition and Start.                                       *)

\* One simulator at most takes a client.
LEMMA TakesOne == \A c, d \in Client : mode = "simulator" /\ U!Takes(c) /\ U!Takes(d) => c = d
  BY DEF U!Takes

\* Nothing is left of a session when a client is to start the first UE.
LEMMA NothingLeftOver ==
    ASSUME UeInv, NEW c \in Client, at[c].op = "Start", at[c].step = "start", NoneStarted
    PROVE  ~LeftOver
<1>1. ASSUME NEW d \in Client, BusyWith(d) PROVE FALSE
  <2>1. at[d].op # "Start" \/ d = c
    BY DEF UeInv, Sessions
  <2>2. client[d] \in {"on", "ending", "gone"}
    BY <1>1, <2>1 DEF BusyWith
  <2>3. d # c /\ U!Takes(c) /\ U!Takes(d) /\ client[d] = "on"
    BY <2>2 DEF UeInv, Sessions
  <2>4. mode # "simulator"
    BY <2>3, TakesOne
  <2>5. Started(d)
    BY <2>3, <2>4, CallerIs DEF UeInv, Subscribers, Sessions
  <2> QED
    BY <2>5 DEF NoneStarted
<1> QED
  BY <1>1 DEF UeInv, SomebodyLeft

\* StartLocked.
LEMMA StartLockedKeeps ==
    ASSUME UeInv, NEW c \in Client, U!StartLocked(c)
    PROVE  UeInv'
<1> DEFINE s == IF U!AnyStarted THEN "power" ELSE IF mode = "remote" THEN "tweak" ELSE "poll"
<1> USE CallerIs
<1>1. /\ at[c].op = "Start" /\ at[c].step = "start" /\ holder = U!Nobody /\ holder' = c
      /\ U!Goto(c, s)
      /\ UNCHANGED <<client, dict, count, sut, ues, on, socket, file, closed, poll, told, mode>>
  BY UeStepIs DEF UeInv, U!StartLocked, U!sutVars, U!fileVars, U!bounds
<1>2. U!AnyStarted <=> ~NoneStarted
  BY DEF UeInv, UeTypes, U!AnyStarted, U!Known, NoneStarted, Started
<1>3. s \in {"power", "tweak", "poll"} /\ (s # "power" => NoneStarted) /\ s \in StepsOf(at[c].op)
  BY <1>1, <1>2, StepsAre DEF LaunchSteps, StopSteps
<1> HIDE DEF s
<1>4. CallTypes' /\ at'[c].step = s /\ SameOp /\ \A d \in U!Caller : d # c => at'[d] = at[d]
  BY <1>1, <1>3, UeGoto DEF UeInv, SameOp
<1>5. UeTypes'
  BY <1>1 DEF UeInv, UeTypes
<1>6. OneHolds'
  BY <1>1, <1>4 DEF UeInv, OneHolds
<1>7. Sessions'
  BY <1>1, <1>4, SessionsKept DEF UeInv
<1>8. Numbers'
  BY <1>1 DEF UeInv, Numbers
<1>9. Subscribers'
  BY <1>1, <1>3, <1>4, SubscribersKept DEF UeInv, OffSteps, LaunchSteps, StopSteps
<1>10. SomebodyLeft'
  BY <1>1, <1>4 DEF UeInv, SomebodyLeft, LeftOver, BusyWith, SameOp
<1>11. UesRun'
  BY <1>1, <1>3, <1>4 DEF UeInv, UesRun, U!StartedIsOn, Started, U!Known, SameOp
<1>12. FileClosed'
  <2>1. s # "power" => ~LeftOver
    BY <1>1, <1>3, NothingLeftOver
  <2>2. NoneStarted' = NoneStarted
    BY <1>1 DEF NoneStarted, Started
  <2>3. s # "power" => file \notin {"closed", "broken"} /\ poll = "none" /\ socket # "open"
    BY <2>1 DEF LeftOver, UeInv, UesRun
  <2>4. \A d \in U!Caller :
          /\ at'[d].step \in {"quit", "close", "stopped"} => poll = "none"
          /\ at'[d].step = "close" => socket # "open"
          /\ at'[d].op = "Start" /\ at'[d].step \in LaunchSteps =>
                file \notin {"closed", "broken"} /\ poll = "none" /\ (at'[d].step # "cells" => socket # "open")
    BY <1>3, <1>4, <2>3 DEF UeInv, FileClosed, SameOp, LaunchSteps, StopSteps
  <2>5. \A d \in Client : at[d].op = "Stop" /\ at[d].step = "stopped" => at'[d] = at[d]
    BY <1>1, <1>4
  <2> QED
    BY <1>1, <2>2, <2>4, <2>5 DEF UeInv, FileClosed
<1> QED
  BY <1>4, <1>5, <1>6, <1>7, <1>8, <1>9, <1>10, <1>11, <1>12 DEF UeInv

\* A call that has the lock and goes on, without a change of the subscribers.
LEMMA HolderGoesOn ==
    ASSUME UeInv, NEW c \in U!Caller, NEW s \in StepsOf(at[c].op), U!Goto(c, s),
           at[c].step \in HeldSteps, at[c].step # "alive", UNCHANGED <<mode, client, holder, dict, count>>,
           s # "start", s \in LaunchSteps => NoneStarted, s \in OffSteps => Started(at[c].whose)
    PROVE  /\ CallTypes' /\ OneHolds' /\ Sessions' /\ Numbers' /\ Subscribers' /\ SameOp
           /\ at'[c].step = s /\ \A d \in U!Caller : d # c => at'[d] = at[d]
           /\ NoneStarted' = NoneStarted
           /\ \A d \in Client : BusyWith(d) => BusyWith(d)'
           /\ \A d \in U!Caller : d # c => at'[d].step \notin HeldSteps
<1>1. CallTypes' /\ at'[c].step = s /\ SameOp /\ \A d \in U!Caller : d # c => at'[d] = at[d]
  BY UeGoto DEF UeInv, SameOp
<1>2. OneHolds'
  BY <1>1 DEF UeInv, OneHolds
<1>3. Sessions'
  BY <1>1, SessionsKept DEF UeInv
<1>4. Numbers'
  BY DEF UeInv, Numbers
<1>5. s # "new" /\ (s = "alive" => c \in Client)
  <2>1. at[c].op \in {"Start", "Stop"}
    BY UeStepIs DEF UeInv, HeldSteps
  <2>2. s \in LaunchSteps \cup OffSteps \cup {"start", "stop", "power", "alive"} /\ (s = "alive" => at[c].op = "Start")
    BY <2>1, StepsAre DEF LaunchSteps, StopSteps, OffSteps
  <2> QED
    BY <2>2, UeStepIs DEF UeInv, LaunchSteps, StopSteps, OffSteps
<1>6. Subscribers'
  BY <1>1, <1>5, SubscribersKept DEF UeInv
<1>7. \A d \in Client : BusyWith(d) => BusyWith(d)'
  BY <1>1, <1>5, CallerIs DEF BusyWith, SameOp
<1>8. \A d \in U!Caller : d # c => at'[d].step \notin HeldSteps
  BY <1>1 DEF UeInv, OneHolds
<1>9. NoneStarted' = NoneStarted
  BY DEF NoneStarted, Started
<1> QED
  BY <1>1, <1>2, <1>3, <1>4, <1>6, <1>7, <1>8, <1>9

\* What is to be shown of the file after a step of the call that has the lock.
LEMMA FileIs ==
    ASSUME NEW c \in U!Caller, \A d \in U!Caller : d # c => at'[d].step \notin HeldSteps,
           at'[c].step \in {"quit", "close", "stopped"} => poll' = "none",
           at'[c].step = "close" => socket' # "open",
           at'[c].op = "Start" /\ at'[c].step \in LaunchSteps =>
              file' \notin {"closed", "broken"} /\ poll' = "none" /\ (at'[c].step # "cells" => socket' # "open"),
           file' \in {"empty", "open", "closed", "broken"},
           file' \in {"closed", "broken"} =>
              /\ closed' /\ poll' = "none" /\ socket' # "open" /\ NoneStarted'
              /\ \/ c \in Client /\ at'[c].op = "Stop" /\ at'[c].step = "stopped"
                 \/ \A d \in Client : client'[d] = "gone"
    PROVE  FileClosed'
<1>1. \A d \in U!Caller : d # c =>
        at'[d].step \notin {"quit", "close", "stopped"} /\ at'[d].step \notin LaunchSteps
  BY DEF HeldSteps, LaunchSteps, StopSteps
<1> QED
  BY <1>1 DEF FileClosed

\* The file is closed before a call with the lock only at the end of a Stop, or when
\* the clients have gone.
LEMMA FileWas ==
    ASSUME UeInv, NEW c \in U!Caller, at[c].step \in HeldSteps, file \in {"closed", "broken"}
    PROVE  /\ closed /\ poll = "none" /\ socket # "open" /\ NoneStarted
           /\ (c \in Client /\ at[c].op = "Stop" /\ at[c].step = "stopped") \/ \A d \in Client : client[d] = "gone"
<1>1. \A d \in U!Caller : d # c => at[d].step \notin HeldSteps
  BY DEF UeInv, OneHolds
<1>2. \A d \in Client : at[d].step = "stopped" => d = c
  BY <1>1, CallerIs DEF HeldSteps, LaunchSteps, StopSteps
<1> QED
  BY <1>2 DEF UeInv, FileClosed

\* A Start is of a client that is told, and the file is not closed during it.
LEMMA StartIs ==
    ASSUME UeInv, NEW c \in Client, at[c].op = "Start"
    PROVE  /\ client[c] = "told" /\ file \notin {"closed", "broken"}
           /\ \A d \in U!Caller : at[d].op # "Stop"
           /\ \A d \in Client : client[d] # "gone" /\ (at[d].op = "GetDefinition" => client[d] # "out")
<1>1. /\ client[c] = "told" /\ \A d \in U!Caller : at[d].op # "Stop"
      /\ \A d \in Client : client[d] # "gone"
  BY DEF UeInv, Sessions
<1>2. file \notin {"closed", "broken"}
  BY <1>1, CallerIs DEF UeInv, FileClosed
<1>3. \A d \in Client : at[d].op = "GetDefinition" => client[d] # "out"
  BY <1>1 DEF UeInv, Sessions
<1> QED
  BY <1>1, <1>2, <1>3

\* A Start that goes on before it powers the UE on.
LEMMA LaunchGoesOn ==
    ASSUME UeInv, NEW c \in Client, NEW s \in LaunchSteps, U!Goto(c, s),
           at[c].op = "Start", at[c].step \in LaunchSteps,
           UNCHANGED <<mode, client, holder, dict, count, file, poll>>,
           closed' \in BOOLEAN, sut' \in {"none", "up", "dead"}, ues' \in Nat,
           socket' \in {"none", "open", "closed"}, socket' = "open" => s = "cells" /\ sut' = "up",
           sut' # "none" => \A d \in DOMAIN dict : dict[d].id <= ues'
    PROVE  UeInv'
<1> USE CallerIs
<1>1. NoneStarted /\ s \in StepsOf(at[c].op) /\ s # "start"
  BY StepsAre DEF UeInv, Subscribers, LaunchSteps, StopSteps
<1>2. at[c].step \in HeldSteps /\ at[c].step # "alive" /\ s \notin OffSteps
  BY DEF HeldSteps, LaunchSteps, StopSteps, OffSteps
<1>3. /\ CallTypes' /\ OneHolds' /\ Sessions' /\ Numbers' /\ Subscribers' /\ SameOp
      /\ at'[c].step = s /\ NoneStarted' = NoneStarted
      /\ \A d \in U!Caller : d # c => at'[d].step \notin HeldSteps
  BY <1>1, <1>2, HolderGoesOn
<1>4. UeTypes'
  BY DEF UeInv, UeTypes
<1>5. SomebodyLeft'
  BY <1>1, <1>3 DEF SomebodyLeft, BusyWith, SameOp
<1>6. UesRun'
  <2>1. \A d \in Client : at'[d].step # "alive"
    BY <1>3 DEF HeldSteps, LaunchSteps, StopSteps
  <2>2. \A d \in Client : mode # "simulator" => client[d] # "on" \/ at[d].op = "Stop"
    BY <1>1 DEF UeInv, Subscribers, NoneStarted
  <2>3. U!StartedIsOn'
    BY <1>3, <2>2 DEF U!StartedIsOn, SameOp
  <2> QED
    BY <2>1, <2>3 DEF UesRun
<1>7. FileClosed'
  <2>1. file \notin {"closed", "broken"} /\ file \in {"empty", "open", "closed", "broken"} /\ poll = "none"
    BY DEF UeInv, FileClosed
  <2> QED
    BY <1>3, <2>1, FileIs
<1> QED
  BY <1>3, <1>4, <1>5, <1>6, <1>7 DEF UeInv

\* A Start that fails: its client has to stop.
LEMMA StartFails ==
    ASSUME UeInv, NEW c \in Client, at[c].op = "Start", at[c].step \in HeldSteps, U!Raise(c),
           UNCHANGED <<mode, dict, count, sut, ues, socket, file, closed, poll>>, on \subseteq on'
    PROVE  UeInv'
<1> USE CallerIs
<1>1. U!Leave(c) /\ U!Reach(c, "ending")
  BY DEF U!Raise
<1>2. /\ CallTypes' /\ at'[c].step = "idle" /\ at'[c].op = "none"
      /\ \A d \in U!Caller : d # c => at'[d] = at[d]
      /\ \A d \in U!Caller : d # c /\ holder = d => holder' = d
  BY <1>1, UeLeave DEF UeInv
<1>3. /\ client' \in [Client -> {"out", "told", "on", "ending", "gone"}]
      /\ client'[c] = "ending" /\ \A d \in Client : d # c => client'[d] = client[d]
  BY <1>1, UeReach DEF UeInv
<1>4. /\ client[c] = "told" /\ file \notin {"closed", "broken"}
      /\ \A d \in U!Caller : at[d].op # "Stop"
      /\ \A d \in Client : client[d] # "gone" /\ (at[d].op = "GetDefinition" => client[d] # "out")
  BY StartIs
<1>5. UeTypes'
  BY <1>3 DEF UeInv, UeTypes
<1>6. OneHolds'
  BY <1>2 DEF UeInv, OneHolds, HeldSteps, LaunchSteps, StopSteps, OffSteps
<1>7. Sessions'
  BY <1>2, <1>3, <1>4 DEF UeInv, Sessions, U!Takes
<1>8. Numbers'
  BY DEF UeInv, Numbers
<1>9. NoneStarted' = NoneStarted
  BY DEF NoneStarted, Started
<1>10. Subscribers'
  <2>1. c \notin DOMAIN dict => NoneStarted
    BY <1>4 DEF UeInv, Subscribers, NoneStarted, Started
  <2>2. \A d \in Client : client'[d] \in {"told", "on", "ending"} /\ d \notin DOMAIN dict => NoneStarted
    BY <1>3, <2>1 DEF UeInv, Subscribers
  <2>3. \A d \in Client : Started(d) => client'[d] \in {"on", "ending", "gone"} \/ at'[d].step = "alive"
    BY <1>2, <1>3 DEF UeInv, Subscribers
  <2>4. \A d \in U!Caller : /\ at'[d].step \in LaunchSteps => NoneStarted
                            /\ at'[d].step \in OffSteps => Started(at'[d].whose)
    BY <1>2 DEF UeInv, Subscribers, OffSteps, LaunchSteps, StopSteps
  <2>5. \A d \in Client : mode # "simulator" =>
          /\ client'[d] = "told" => d \in DOMAIN dict
          /\ client'[d] = "on" /\ at'[d].op # "Stop" => Started(d)
    BY <1>2, <1>3 DEF UeInv, Subscribers
  <2>6. \A d \in Client : at'[d].step = "new" => client'[d] = "out" /\ d \notin DOMAIN dict
    BY <1>2, <1>3 DEF UeInv, Subscribers
  <2> QED
    BY <1>9, <2>2, <2>3, <2>4, <2>5, <2>6 DEF UeInv, Subscribers, Started
<1>11. SomebodyLeft'
  BY <1>3 DEF SomebodyLeft, BusyWith
<1>12. UesRun'
  BY <1>2, <1>3 DEF UeInv, UesRun, U!StartedIsOn, U!Known, Started
<1>13. FileClosed'
  <2>1. \A d \in U!Caller : d # c => at'[d].step \notin HeldSteps
    BY <1>2 DEF UeInv, OneHolds
  <2> QED
    BY <1>2, <1>4, <2>1, FileIs DEF UeInv, FileClosed, LaunchSteps, StopSteps
<1> QED
  BY <1>2, <1>5, <1>6, <1>7, <1>8, <1>10, <1>11, <1>12, <1>13 DEF UeInv

\* Tweak.
LEMMA TweakKeeps ==
    ASSUME UeInv, NEW c \in Client, U!Tweak(c)
    PROVE  UeInv'
<1>1. at[c].op = "Start" /\ at[c].step = "tweak" /\ U!Goto(c, "poll")
  BY UeStepIs, CallerIs DEF UeInv, U!Tweak
<1>2. UNCHANGED <<mode, client, holder, dict, count, sut, ues, on, socket, file, closed, poll>>
  BY DEF U!Tweak, U!sutVars, U!fileVars, U!bounds
<1>3. socket # "open"
  BY <1>1, CallerIs DEF UeInv, FileClosed, LaunchSteps
<1> QED
  BY <1>1, <1>2, <1>3, LaunchGoesOn DEF UeInv, UeTypes, UesRun, LaunchSteps, StopSteps

\* Launch.
LEMMA LaunchKeeps ==
    ASSUME UeInv, NEW c \in Client, U!Launch(c)
    PROVE  UeInv'
<1>1. at[c].op = "Start" /\ at[c].step = "launch" /\ UNCHANGED <<dict, count, file, closed, poll>>
  BY UeStepIs, CallerIs DEF UeInv, U!Launch, U!fileVars
<1>2. CASE U!Raise(c) /\ UNCHANGED <<U!sutVars, U!bounds>>
  BY <1>1, <1>2, StartFails DEF U!sutVars, U!bounds, HeldSteps, LaunchSteps
<1>3. CASE /\ sut' = "up" /\ ues' = U!Cardinality(U!Known) /\ on' = {}
           /\ socket' = (IF socket = "open" THEN "closed" ELSE socket)
           /\ U!Goto(c, "license") /\ UNCHANGED <<client, holder, mode>>
  <2>1. ues' \in Nat /\ \A d \in DOMAIN dict : dict[d].id <= ues'
    BY <1>3, UeCardinality DEF UeInv, Numbers, U!Known
  <2>2. socket' \in {"none", "open", "closed"} /\ socket' # "open"
    BY <1>3 DEF UeInv, UeTypes
  <2> QED
    BY <1>1, <1>3, <2>1, <2>2, LaunchGoesOn DEF UeInv, UeTypes, LaunchSteps
<1> QED
  BY <1>2, <1>3 DEF U!Launch

\* License.
LEMMA LicenseKeeps ==
    ASSUME UeInv, NEW c \in Client, U!License(c)
    PROVE  UeInv'
<1>1. /\ at[c].op = "Start" /\ at[c].step = "license"
      /\ UNCHANGED <<mode, dict, count, sut, ues, on, socket, file, closed, poll>>
  BY UeStepIs, CallerIs
     DEF UeInv, U!License, U!sutVars, U!fileVars, U!bounds, U!NoTimeout, U!Timeout
<1>2. socket # "open"
  BY <1>1, CallerIs DEF UeInv, FileClosed, LaunchSteps
<1>3. CASE U!Raise(c)
  BY <1>1, <1>3, StartFails DEF HeldSteps, LaunchSteps
<1>4. CASE (\E s \in {"connect", "tweak", "poll"} : U!Goto(c, s)) /\ UNCHANGED <<client, holder>>
  BY <1>1, <1>2, <1>4, LaunchGoesOn DEF UeInv, UeTypes, UesRun, LaunchSteps, StopSteps
<1> QED
  BY <1>3, <1>4 DEF U!License

\* Connect.
LEMMA ConnectKeeps ==
    ASSUME UeInv, NEW c \in Client, U!Connect(c)
    PROVE  UeInv'
<1>1. /\ at[c].op = "Start" /\ at[c].step = "connect"
      /\ UNCHANGED <<mode, dict, count, sut, ues, on, file, poll>>
  BY UeStepIs, CallerIs DEF UeInv, U!Connect, U!bounds
<1>2. CASE U!Raise(c) /\ UNCHANGED <<socket, closed>>
  BY <1>1, <1>2, StartFails DEF HeldSteps, LaunchSteps
<1>3. CASE sut = "up" /\ socket' = "open" /\ closed' = FALSE /\ U!Goto(c, "cells") /\ UNCHANGED <<client, holder>>
  BY <1>1, <1>3, LaunchGoesOn DEF UeInv, UeTypes, UesRun, LaunchSteps
<1> QED
  BY <1>2, <1>3 DEF U!Connect

\* CellsReady.
LEMMA CellsReadyKeeps ==
    ASSUME UeInv, NEW c \in Client, U!CellsReady(c)
    PROVE  UeInv'
<1> USE CallerIs
<1>1. /\ at[c].op = "Start" /\ at[c].step = "cells"
      /\ UNCHANGED <<mode, dict, count, sut, ues, on, socket, file, closed>>
  BY UeStepIs DEF UeInv, U!CellsReady, U!sutVars, U!bounds, U!NoTimeout, U!Timeout
<1>2. CASE U!Raise(c) /\ UNCHANGED poll
  BY <1>1, <1>2, StartFails DEF HeldSteps, LaunchSteps
<1>3. CASE U!Goto(c, "power") /\ poll' \in {"waits", poll} /\ UNCHANGED <<client, holder>>
  <2>1. /\ CallTypes' /\ OneHolds' /\ Sessions' /\ Numbers' /\ Subscribers' /\ SameOp
        /\ at'[c].step = "power" /\ NoneStarted' = NoneStarted
        /\ \A d \in U!Caller : d # c => at'[d] = at[d] /\ at'[d].step \notin HeldSteps
    BY <1>1, <1>3, HolderGoesOn, StepsAre DEF UeInv, HeldSteps, LaunchSteps, StopSteps, OffSteps
  <2>2. UeTypes'
    BY <1>1, <1>3 DEF UeInv, UeTypes
  <2>3. SomebodyLeft'
    BY <1>1, <2>1 DEF SomebodyLeft, BusyWith, SameOp
  <2>4. UesRun'
    BY <1>1, <1>3, <2>1 DEF UeInv, UesRun, U!StartedIsOn, U!Known, Started, SameOp
  <2>5. FileClosed'
    <3>1. file \notin {"closed", "broken"} /\ file \in {"empty", "open", "closed", "broken"}
      BY <1>1 DEF UeInv, FileClosed, LaunchSteps
    <3> QED
      BY <1>1, <2>1, <3>1, FileIs DEF LaunchSteps, StopSteps
  <2> QED
    BY <2>1, <2>2, <2>3, <2>4, <2>5 DEF UeInv
<1> QED
  BY <1>2, <1>3 DEF U!CellsReady

\* The numbers stay while the subscribers do.
LEMMA NumbersKept ==
    ASSUME Numbers, DOMAIN dict' = DOMAIN dict, \A d \in DOMAIN dict : dict'[d].id = dict[d].id, count' = count
    PROVE  Numbers'
  BY DEF Numbers

\* A subscriber that is started, or stopped.
LEMMA DictChanged ==
    ASSUME UeTypes, NEW c \in DOMAIN dict, NEW b \in BOOLEAN, dict' = [dict EXCEPT ![c].started = b]
    PROVE  /\ DOMAIN dict' = DOMAIN dict /\ dict' \in [DOMAIN dict -> [id : Nat, started : BOOLEAN]]
           /\ \A d \in DOMAIN dict : dict'[d].id = dict[d].id /\ (d # c => dict'[d] = dict[d])
           /\ dict'[c].started = b
<1>1. dict \in [DOMAIN dict -> [id : Nat, started : BOOLEAN]] /\ dict[c] \in [id : Nat, started : BOOLEAN]
  BY DEF UeTypes
<1>2. /\ [dict[c] EXCEPT !.started = b] \in [id : Nat, started : BOOLEAN]
      /\ [dict[c] EXCEPT !.started = b].started = b
      /\ [dict[c] EXCEPT !.started = b].id = dict[c].id
  BY <1>1
<1> QED
  BY <1>1, <1>2

\* PowerOn.
LEMMA PowerOnKeeps ==
    ASSUME UeInv, NEW c \in Client, U!PowerOn(c)
    PROVE  UeInv'
<1> USE CallerIs
<1>1. /\ at[c].op = "Start" /\ at[c].step = "power"
      /\ UNCHANGED <<mode, count, sut, ues, socket, file, closed, poll>>
  BY UeStepIs DEF UeInv, U!PowerOn, U!fileVars, U!bounds, U!NoTimeout, U!Timeout
<1>2. CASE U!Raise(c) /\ UNCHANGED dict /\ on \subseteq on'
  BY <1>1, <1>2, StartFails DEF HeldSteps
<1>3. /\ client[c] = "told" /\ file \notin {"closed", "broken"}
      /\ \A d \in Client : client[d] # "gone"
  BY <1>1, StartIs
<1>4. CASE DOMAIN dict = {} /\ U!Goto(c, "alive") /\ UNCHANGED <<client, holder, dict, on>>
  <2>1. /\ CallTypes' /\ OneHolds' /\ Sessions' /\ Numbers' /\ Subscribers' /\ SameOp
        /\ at'[c].step = "alive"
        /\ \A d \in U!Caller : d # c => at'[d].step \notin HeldSteps
    BY <1>1, <1>4, HolderGoesOn, StepsAre DEF UeInv, HeldSteps, LaunchSteps, StopSteps, OffSteps
  <2>2. mode = "simulator"
    BY <1>3, <1>4 DEF UeInv, Subscribers
  <2>3. UeTypes'
    BY <1>1, <1>4 DEF UeInv, UeTypes
  <2>4. SomebodyLeft'
    BY <1>1, <2>1 DEF SomebodyLeft, BusyWith, SameOp
  <2>5. UesRun'
    BY <1>1, <1>4, <2>2 DEF UeInv, UesRun, U!StartedIsOn
  <2>6. FileClosed'
    BY <1>1, <1>3, <2>1, FileIs DEF UeInv, FileClosed, LaunchSteps, StopSteps
  <2> QED
    BY <2>1, <2>3, <2>4, <2>5, <2>6 DEF UeInv
<1>5. CASE /\ socket = "open" /\ c \in DOMAIN dict /\ on' = on \cup ({dict[c].id} \cap (1 .. ues))
           /\ dict' = [dict EXCEPT ![c].started = TRUE]
           /\ U!Goto(c, "alive") /\ UNCHANGED <<client, holder>>
  <2>1. /\ DOMAIN dict' = DOMAIN dict /\ dict' \in [DOMAIN dict -> [id : Nat, started : BOOLEAN]]
        /\ \A d \in DOMAIN dict : dict'[d].id = dict[d].id /\ (d # c => dict'[d] = dict[d])
        /\ dict'[c].started
    BY <1>5, DictChanged DEF UeInv
  <2>2. CallTypes' /\ at'[c].step = "alive" /\ SameOp /\ \A d \in U!Caller : d # c => at'[d] = at[d]
    BY <1>1, <1>5, UeGoto, StepsAre DEF UeInv, SameOp
  <2>3. \A d \in U!Caller : d # c => at'[d].step \notin HeldSteps
    BY <1>1, <2>2 DEF UeInv, OneHolds, HeldSteps
  <2>4. OneHolds'
    BY <1>1, <1>5, <2>2 DEF UeInv, OneHolds, HeldSteps
  <2>5. Sessions'
    BY <1>1, <1>5, <2>2, SessionsKept DEF UeInv
  <2>6. Numbers'
    BY <1>1, <2>1, NumbersKept DEF UeInv
  <2>7. UeTypes'
    BY <1>1, <1>5, <2>1 DEF UeInv, UeTypes
  <2>8. \A d \in Client : dict[d].id = dict'[d].id \/ d \notin DOMAIN dict
    BY <2>1
  <2>9. Subscribers'
    <3>1. \A d \in Client : d # c => (Started(d)' <=> Started(d))
      BY <2>1 DEF Started
    <3>2. Started(c)' /\ mode # "simulator"
      BY <1>5, <2>1 DEF Started, UeInv, Subscribers
    <3>3. \A d \in U!Caller : at'[d].step \notin LaunchSteps /\ at'[d].step \notin OffSteps
      BY <2>2, <2>3 DEF HeldSteps, LaunchSteps, StopSteps, OffSteps
    <3>4. \A d \in Client : at'[d].step = "new" => client[d] = "out" /\ d \notin DOMAIN dict'
      BY <2>1, <2>2 DEF UeInv, Subscribers
    <3>5. \A d \in Client : client[d] \in {"told", "on", "ending"} => d \in DOMAIN dict'
      <4>1. \A d \in Client : client[d] \in {"told", "on"} /\ at[d].op # "Stop"
        BY <1>1, <3>2 DEF UeInv, Sessions, U!Takes
      <4> QED
        BY <2>1, <3>2, <4>1 DEF UeInv, Subscribers, Started
    <3>6. \A d \in Client : client[d] = "on" /\ at'[d].op # "Stop" => Started(d)'
      BY <2>2, <3>1, <3>2 DEF UeInv, Subscribers, SameOp
    <3>7. \A d \in Client : Started(d)' => client[d] \in {"on", "ending", "gone"} \/ at'[d].step = "alive"
      BY <2>2, <3>1 DEF UeInv, Subscribers
    <3> QED
      BY <1>1, <1>5, <3>2, <3>3, <3>4, <3>5, <3>6, <3>7 DEF Subscribers
  <2>10. SomebodyLeft'
    BY <1>1, <2>2 DEF SomebodyLeft, BusyWith, SameOp
  <2>11. UesRun'
    <3>1. sut = "up" /\ dict[c].id \in 1 .. ues
      BY <1>5 DEF UeInv, UesRun, Numbers, UeTypes
    <3>2. dict'[c].id \in on' /\ on \subseteq on'
      BY <1>5, <2>1, <3>1
    <3>3. \A d \in Client : at'[d].step = "alive" => d = c
      BY <2>3 DEF HeldSteps
    <3>4. U!StartedIsOn'
      BY <1>1, <1>5, <2>1, <2>2, <3>2 DEF UeInv, UesRun, U!StartedIsOn, U!Known, SameOp
    <3>5. sut' # "none" => \A d \in DOMAIN dict' : dict'[d].id <= ues'
      BY <1>1, <2>1 DEF UeInv, UesRun
    <3> QED
      BY <1>1, <1>5, <2>1, <3>2, <3>3, <3>4, <3>5 DEF UeInv, UesRun, Started
  <2>12. FileClosed'
    BY <1>1, <1>3, <2>2, <2>3, FileIs DEF UeInv, FileClosed, LaunchSteps, StopSteps
  <2> QED
    BY <2>2, <2>4, <2>5, <2>6, <2>7, <2>9, <2>10, <2>11, <2>12 DEF UeInv
<1> QED
  BY <1>2, <1>4, <1>5 DEF U!PowerOn, U!NothingToPower, U!Known

\* CheckAlive.
LEMMA CheckAliveKeeps ==
    ASSUME UeInv, NEW c \in Client, U!CheckAlive(c)
    PROVE  UeInv'
<1> USE CallerIs
<1>1. /\ at[c].op = "Start" /\ at[c].step = "alive"
      /\ UNCHANGED <<mode, dict, count, sut, ues, on, socket, file, closed, poll>>
  BY UeStepIs DEF UeInv, U!CheckAlive, U!sutVars, U!fileVars, U!bounds
<1>2. CASE U!Raise(c)
  BY <1>1, <1>2, StartFails DEF HeldSteps
<1>3. CASE U!Leave(c) /\ U!Reach(c, "on")
  <2>1. /\ CallTypes' /\ at'[c].step = "idle" /\ at'[c].op = "none"
        /\ \A d \in U!Caller : d # c => at'[d] = at[d]
        /\ \A d \in U!Caller : d # c /\ holder = d => holder' = d
    BY <1>3, UeLeave DEF UeInv
  <2>2. /\ client' \in [Client -> {"out", "told", "on", "ending", "gone"}]
        /\ client'[c] = "on" /\ \A d \in Client : d # c => client'[d] = client[d]
    BY <1>3, UeReach DEF UeInv
  <2>3. /\ client[c] = "told" /\ file \notin {"closed", "broken"}
        /\ \A d \in U!Caller : at[d].op # "Stop"
        /\ \A d \in Client : client[d] # "gone" /\ (at[d].op = "GetDefinition" => client[d] # "out")
    BY <1>1, StartIs
  <2>4. UeTypes'
    BY <1>1, <2>2 DEF UeInv, UeTypes
  <2>5. OneHolds'
    BY <2>1 DEF UeInv, OneHolds, HeldSteps, LaunchSteps, StopSteps, OffSteps
  <2>6. Sessions'
    BY <1>1, <2>1, <2>2, <2>3 DEF UeInv, Sessions, U!Takes
  <2>7. Numbers'
    BY <1>1 DEF UeInv, Numbers
  <2>8. Subscribers'
    <3>1. \A d \in Client : client'[d] \in {"told", "on", "ending"} /\ d \notin DOMAIN dict => NoneStarted
      BY <2>2, <2>3 DEF UeInv, Subscribers
    <3>2. \A d \in Client : Started(d) => client'[d] \in {"on", "ending", "gone"} \/ at'[d].step = "alive"
      BY <2>1, <2>2 DEF UeInv, Subscribers
    <3>3. \A d \in U!Caller : /\ at'[d].step \in LaunchSteps => NoneStarted
                              /\ at'[d].step \in OffSteps => Started(at'[d].whose)
      BY <2>1 DEF UeInv, Subscribers, OffSteps, LaunchSteps, StopSteps
    <3>4. \A d \in Client : mode # "simulator" =>
            /\ client'[d] = "told" => d \in DOMAIN dict
            /\ client'[d] = "on" /\ at'[d].op # "Stop" => Started(d)
      BY <1>1, <2>1, <2>2 DEF UeInv, Subscribers, UesRun
    <3>5. \A d \in Client : at'[d].step = "new" => client'[d] = "out" /\ d \notin DOMAIN dict
      BY <2>1, <2>2 DEF UeInv, Subscribers
    <3>6. NoneStarted' = NoneStarted
      BY <1>1 DEF NoneStarted, Started
    <3> QED
      BY <1>1, <3>1, <3>2, <3>3, <3>4, <3>5, <3>6 DEF UeInv, Subscribers, Started
  <2>9. SomebodyLeft'
    BY <2>2 DEF SomebodyLeft, BusyWith
  <2>10. UesRun'
    BY <1>1, <2>1, <2>2 DEF UeInv, UesRun, U!StartedIsOn, U!Known, Started
  <2>11. FileClosed'
    <3>1. \A d \in U!Caller : d # c => at'[d].step \notin HeldSteps
      BY <1>1, <2>1 DEF UeInv, OneHolds, HeldSteps
    <3> QED
      BY <1>1, <2>1, <2>3, <3>1, FileIs DEF UeInv, FileClosed, LaunchSteps, StopSteps
  <2> QED
    BY <2>1, <2>4, <2>5, <2>6, <2>7, <2>8, <2>9, <2>10, <2>11 DEF UeInv
<1> QED
  BY <1>2, <1>3 DEF U!CheckAlive

\* A step of a client without the lock that changes only where its call is.
LEMMA OutsideLock ==
    ASSUME UeInv, NEW c \in Client, CallTypes', Sessions', \A d \in U!Caller : d # c => at'[d] = at[d],
           at[c].step \notin HeldSteps, at'[c].step \notin HeldSteps, at[c].op # "Stop", at'[c].op # "Stop",
           at'[c].step = "new" => client[c] = "out" /\ c \notin DOMAIN dict,
           \A d \in U!Caller : d # c /\ holder = d => holder' = d,
           UNCHANGED <<mode, client, dict, count, sut, ues, on, socket, file, closed, poll>>
    PROVE  UeInv'
<1> USE CallerIs
<1>1. UeTypes'
  BY DEF UeInv, UeTypes
<1>2. OneHolds'
  BY DEF UeInv, OneHolds
<1>3. Numbers'
  BY DEF UeInv, Numbers
<1>4. NoneStarted' = NoneStarted
  BY DEF NoneStarted, Started
<1>5. at'[c].step \notin LaunchSteps /\ at'[c].step \notin OffSteps /\ at[c].step # "alive" /\ at'[c].step # "alive"
  BY DEF HeldSteps
<1>6. Subscribers'
  <2>1. \A d \in Client : mode # "simulator" =>
          /\ client[d] = "told" => d \in DOMAIN dict
          /\ client[d] = "on" /\ at'[d].op # "Stop" => Started(d)
    BY DEF UeInv, Subscribers
  <2>2. \A d \in Client : Started(d) => client[d] \in {"on", "ending", "gone"} \/ at'[d].step = "alive"
    BY <1>5 DEF UeInv, Subscribers
  <2>3. \A d \in U!Caller : /\ at'[d].step \in LaunchSteps => NoneStarted
                            /\ at'[d].step \in OffSteps => Started(at'[d].whose)
    BY <1>5 DEF UeInv, Subscribers
  <2>4. \A d \in Client : at'[d].step = "new" => client[d] = "out" /\ d \notin DOMAIN dict
    BY DEF UeInv, Subscribers
  <2> QED
    BY <1>4, <2>1, <2>2, <2>3, <2>4 DEF UeInv, Subscribers, Started
<1>7. SomebodyLeft'
  <2>1. at[c].op = "Start" => at[c].step = "start"
    BY UeStepIs DEF UeInv
  <2>2. \A d \in Client : BusyWith(d) => BusyWith(d)'
    BY <2>1 DEF BusyWith
  <2> QED
    BY <2>2 DEF UeInv, SomebodyLeft, LeftOver
<1>8. UesRun'
  BY <1>5 DEF UeInv, UesRun, U!StartedIsOn, U!Known, Started
<1>9. FileClosed'
  <2>1. at'[c].step \notin {"quit", "close", "stopped"} /\ at[c].step # "stopped"
    BY DEF HeldSteps, LaunchSteps, StopSteps
  <2> QED
    BY <1>4, <1>5, <2>1 DEF UeInv, FileClosed
<1> QED
  BY <1>1, <1>2, <1>3, <1>6, <1>7, <1>8, <1>9 DEF UeInv

\* A call without the lock returns.
LEMMA ReturnsOutside ==
    ASSUME UeInv, NEW c \in Client, at[c].op = "GetDefinition", U!Leave(c),
           UNCHANGED <<mode, client, dict, count, sut, ues, on, socket, file, closed, poll>>
    PROVE  UeInv'
<1> USE CallerIs
<1>1. /\ CallTypes' /\ at'[c].step = "idle" /\ at'[c].op = "none"
      /\ \A d \in U!Caller : d # c => at'[d] = at[d]
      /\ \A d \in U!Caller : d # c /\ holder = d => holder' = d
  BY UeLeave DEF UeInv
<1>2. Sessions'
  BY <1>1 DEF UeInv, Sessions, U!Takes
<1>3. at[c].step \in {"known", "new"}
  BY UeStepIs DEF UeInv
<1> QED
  BY <1>1, <1>2, <1>3, OutsideLock DEF HeldSteps, LaunchSteps, StopSteps, OffSteps

\* A call of a client that is idle begins.
LEMMA BeginsOutside ==
    ASSUME UeInv, NEW c \in Client, at[c].op = "none", NEW op \in {"GetDefinition", "Start"},
           NEW s \in {"known", "new", "start"}, s \in StepsOf(op), U!Enter(c, s, op), Sessions',
           s = "new" => client[c] = "out" /\ c \notin DOMAIN dict,
           UNCHANGED <<mode, client, holder, dict, count, sut, ues, on, socket, file, closed, poll>>
    PROVE  UeInv'
<1> USE CallerIs
<1>1. /\ CallTypes' /\ at'[c].step = s /\ at'[c].op = op
      /\ \A d \in U!Caller : d # c => at'[d] = at[d]
  BY UeEnter DEF UeInv, UeOp
<1>2. at[c].step = "idle"
  BY UeStepIs DEF UeInv
<1> QED
  BY <1>1, <1>2, OutsideLock DEF HeldSteps, LaunchSteps, StopSteps, OffSteps

\* CallGetDefinition.
LEMMA CallGetDefinitionKeeps ==
    ASSUME UeInv, NEW c \in Client, U!CallGetDefinition(c)
    PROVE  UeInv'
<1> USE CallerIs
<1>1. /\ at[c].op = "none" /\ at[c].step = "idle" /\ U!Takes(c)
      /\ (client[c] = "out" /\ \A d \in Client : client[d] \in {"out", "told"}) \/ client[c] \in {"told", "on"}
      /\ UNCHANGED <<mode, holder, dict, count, sut, ues, on, socket, file, closed, poll>>
  BY DEF U!CallGetDefinition, U!Idle, U!sutVars, U!fileVars, U!bounds
<1>2. ASSUME NEW d \in Client, at[d].op = "Start" \/ client[d] = "gone" PROVE client[c] # "out"
  BY <1>1, <1>2 DEF UeInv, Sessions
<1>3. CASE mode # "simulator"
  <2> DEFINE s == IF c \in DOMAIN dict THEN "known" ELSE "new"
  <2>1. U!Enter(c, s, "GetDefinition") /\ UNCHANGED client /\ s \in StepsOf("GetDefinition")
    BY <1>3, StepsAre DEF U!CallGetDefinition, U!Known
  <2>2. s = "new" => client[c] = "out"
    BY <1>1, <1>3 DEF UeInv, Subscribers, Started
  <2>3. Sessions'
    <3>1. at'[c].op = "GetDefinition" /\ \A d \in U!Caller : d # c => at'[d] = at[d]
      BY <2>1, UeEnter DEF UeInv, UeOp
    <3>2. at[U!Agent].op # "Stop" /\ \A d \in Client : client[d] # "gone"
      BY <1>1 DEF UeInv, Sessions
    <3> QED
      BY <1>1, <1>3, <2>1, <3>1, <3>2 DEF UeInv, Sessions, U!Takes
  <2> QED
    BY <1>1, <2>1, <2>2, <2>3, BeginsOutside
<1>4. CASE mode = "simulator"
  <2>1. UNCHANGED at /\ U!Reach(c, IF client[c] = "out" THEN "told" ELSE client[c])
    BY <1>4 DEF U!CallGetDefinition
  <2>2. CASE client[c] # "out"
    <3>1. client' = client
      BY <2>1, <2>2 DEF U!Reach, UeInv, UeTypes
    <3> QED
      BY <1>1, <2>1, <3>1, UeFrame DEF UeInv
  <2>3. CASE client[c] = "out"
    <3>1. /\ client' \in [Client -> {"out", "told", "on", "ending", "gone"}]
          /\ client'[c] = "told" /\ \A d \in Client : d # c => client'[d] = client[d]
      BY <2>1, <2>3, UeReach DEF UeInv
    <3>2. DOMAIN dict = {}
      BY <1>4 DEF UeInv, Subscribers
    <3>3. \A d \in U!Caller : at[d].op # "Stop"
      BY <1>1, <2>3 DEF UeInv, Sessions, U!Caller
    <3>4. CallTypes' /\ UeTypes'
      BY <1>1, <2>1, <3>1 DEF UeInv, UeTypes, CallTypes
    <3>5. OneHolds' /\ Numbers'
      BY <1>1, <2>1 DEF UeInv, OneHolds, Numbers
    <3>6. Sessions'
      BY <1>1, <1>2, <2>1, <2>3, <3>1, <3>3 DEF UeInv, Sessions, U!Takes
    <3>7. Subscribers'
      BY <1>1, <1>4, <2>1, <3>1, <3>2, UeStepIs DEF UeInv, Subscribers, Started, NoneStarted, Sessions
    <3>8. SomebodyLeft'
      BY <1>1, <2>1, <2>3, <3>1 DEF UeInv, SomebodyLeft, LeftOver, BusyWith
    <3>9. UesRun'
      BY <1>1, <1>4, <2>1 DEF UeInv, UesRun, U!StartedIsOn
    <3>10. FileClosed'
      BY <1>1, <2>1, <2>3, <3>1 DEF UeInv, FileClosed, NoneStarted, Started
    <3> QED
      BY <3>4, <3>5, <3>6, <3>7, <3>8, <3>9, <3>10 DEF UeInv
  <2> QED
    BY <2>2, <2>3
<1> QED
  BY <1>3, <1>4

\* NewSubscriber.
LEMMA NewSubscriberKeeps ==
    ASSUME UeInv, NEW c \in Client, U!NewSubscriber(c)
    PROVE  UeInv'
<1> USE CallerIs
<1>1. /\ at[c].op = "GetDefinition" /\ at[c].step = "new" /\ U!Leave(c) /\ U!Reach(c, "told")
      /\ count' = count + 1
      /\ dict' = [d \in DOMAIN dict \cup {c} |-> IF d = c THEN [id |-> count', started |-> FALSE] ELSE dict[d]]
      /\ UNCHANGED <<mode, sut, ues, on, socket, file, closed, poll>>
  BY UeStepIs DEF UeInv, U!NewSubscriber, U!Known, U!sutVars, U!fileVars, U!bounds
<1>2. /\ CallTypes' /\ at'[c].step = "idle" /\ at'[c].op = "none"
      /\ \A d \in U!Caller : d # c => at'[d] = at[d]
      /\ \A d \in U!Caller : d # c /\ holder = d => holder' = d
  BY <1>1, UeLeave DEF UeInv
<1>3. /\ client' \in [Client -> {"out", "told", "on", "ending", "gone"}]
      /\ client'[c] = "told" /\ \A d \in Client : d # c => client'[d] = client[d]
  BY <1>1, UeReach DEF UeInv
<1>4. /\ client[c] = "out" /\ c \notin DOMAIN dict /\ mode # "simulator"
      /\ \A d \in Client : client[d] \in {"out", "told"}
  BY <1>1 DEF UeInv, Subscribers, Sessions
<1>5. \A d \in U!Caller : at[d].op # "Start" /\ at[d].op # "Stop"
  BY <1>4, UeStepIs DEF UeInv, Sessions, U!Caller, U!Takes
<1>6. /\ DOMAIN dict' = DOMAIN dict \cup {c} /\ \A d \in DOMAIN dict : dict'[d] = dict[d]
      /\ dict'[c] = [id |-> count', started |-> FALSE] /\ count' \in Nat
  BY <1>1, <1>4 DEF UeInv, Numbers
<1>7. ~LeftOver
  BY <1>4, <1>5 DEF UeInv, SomebodyLeft, BusyWith
<1>8. UeTypes'
  <2>1. dict' \in [DOMAIN dict' -> [id : Nat, started : BOOLEAN]]
    BY <1>1, <1>6 DEF UeInv, UeTypes
  <2> QED
    BY <1>1, <1>3, <1>6, <2>1 DEF UeInv, UeTypes
<1>9. OneHolds'
  BY <1>2 DEF UeInv, OneHolds, HeldSteps, LaunchSteps, StopSteps, OffSteps
<1>10. Sessions'
  BY <1>1, <1>2, <1>3, <1>4, <1>5 DEF UeInv, Sessions, U!Takes
<1>11. Numbers'
  <2>1. IsFiniteSet(DOMAIN dict') /\ Cardinality(DOMAIN dict') = count'
    BY <1>1, <1>4, <1>6, FS_AddElement DEF UeInv, Numbers
  <2>2. \A d \in DOMAIN dict' : dict'[d].id \in 1 .. count' /\ (d # c => dict'[d].id # count')
    BY <1>1, <1>6 DEF UeInv, Numbers
  <2> QED
    BY <1>6, <2>1, <2>2 DEF UeInv, Numbers
<1>12. \A d \in Client : ~Started(d) /\ ~Started(d)'
  BY <1>4, <1>5, <1>6, UeStepIs DEF UeInv, Subscribers, Started
<1>13. Subscribers'
  <2>1. \A d \in U!Caller : at'[d].step \notin OffSteps
    BY <1>2, <1>5, UeStepIs DEF UeInv, OffSteps
  <2>2. \A d \in Client : /\ at'[d].step = "new" => client'[d] = "out" /\ d \notin DOMAIN dict'
                          /\ client'[d] = "told" => d \in DOMAIN dict'
                          /\ client'[d] # "on"
    BY <1>2, <1>3, <1>4, <1>6 DEF UeInv, Subscribers
  <2> QED
    BY <1>1, <1>4, <1>12, <2>1, <2>2 DEF Subscribers, NoneStarted
<1>14. SomebodyLeft' /\ UesRun'
  <2>1. \A d \in Client : at'[d].step # "alive" /\ client'[d] # "on"
    BY <1>2, <1>3, <1>4, <1>5, UeStepIs DEF UeInv
  <2> QED
    BY <1>1, <1>7, <2>1 DEF UeInv, SomebodyLeft, LeftOver, UesRun, U!StartedIsOn
<1>15. FileClosed'
  <2>1. \A d \in U!Caller : at'[d].step \notin {"quit", "close", "stopped"} /\ at'[d].op # "Start"
    BY <1>2, <1>5, UeStepIs DEF UeInv, StopSteps
  <2> QED
    BY <1>1, <1>7, <2>1 DEF LeftOver, UeInv, FileClosed
<1> QED
  BY <1>2, <1>8, <1>9, <1>10, <1>11, <1>13, <1>14, <1>15 DEF UeInv

\* SameSubscriber.
LEMMA SameSubscriberKeeps ==
    ASSUME UeInv, NEW c \in Client, U!SameSubscriber(c)
    PROVE  UeInv'
<1> USE CallerIs
<1>1. /\ at[c].op = "GetDefinition" /\ U!Leave(c)
      /\ U!Reach(c, IF c \in DOMAIN dict /\ client[c] = "out" THEN "told" ELSE client[c])
      /\ UNCHANGED <<mode, dict, count, sut, ues, on, socket, file, closed, poll>>
  BY UeStepIs DEF UeInv, U!SameSubscriber, U!Known, U!sutVars, U!fileVars, U!bounds
<1>2. CASE ~(c \in DOMAIN dict /\ client[c] = "out")
  <2>1. client' = client
    BY <1>1, <1>2 DEF U!Reach, UeInv, UeTypes
  <2> QED
    BY <1>1, <2>1, ReturnsOutside
<1>3. CASE c \in DOMAIN dict /\ client[c] = "out"
  <2>1. /\ CallTypes' /\ at'[c].step = "idle" /\ at'[c].op = "none"
        /\ \A d \in U!Caller : d # c => at'[d] = at[d]
        /\ \A d \in U!Caller : d # c /\ holder = d => holder' = d
    BY <1>1, UeLeave DEF UeInv
  <2>2. /\ client' \in [Client -> {"out", "told", "on", "ending", "gone"}]
        /\ client'[c] = "told" /\ \A d \in Client : d # c => client'[d] = client[d]
    BY <1>1, <1>3, UeReach DEF UeInv
  <2>3. mode # "simulator" /\ \A d \in Client : client[d] \in {"out", "told"}
    BY <1>1, <1>3 DEF UeInv, Sessions
  <2>4. \A d \in U!Caller : at[d].op # "Start" /\ at[d].op # "Stop"
    BY <1>3, <2>3, UeStepIs DEF UeInv, Sessions, U!Caller, U!Takes
  <2>5. ~LeftOver
    BY <2>3, <2>4 DEF UeInv, SomebodyLeft, BusyWith
  <2>6. UeTypes'
    BY <1>1, <2>2 DEF UeInv, UeTypes
  <2>7. OneHolds'
    BY <2>1 DEF UeInv, OneHolds, HeldSteps, LaunchSteps, StopSteps, OffSteps
  <2>8. Sessions'
    BY <1>1, <1>3, <2>1, <2>2, <2>3, <2>4 DEF UeInv, Sessions, U!Takes
  <2>9. Numbers'
    BY <1>1 DEF UeInv, Numbers
  <2>10. \A d \in Client : ~Started(d) /\ ~Started(d)'
    BY <1>1, <2>3, <2>4, UeStepIs DEF UeInv, Subscribers, Started
  <2>11. Subscribers'
    <3>1. \A d \in U!Caller : at'[d].step \notin OffSteps
      BY <2>1, <2>4, UeStepIs DEF UeInv, OffSteps
    <3>2. \A d \in Client : /\ at'[d].step = "new" => client'[d] = "out" /\ d \notin DOMAIN dict
                            /\ client'[d] = "told" => d \in DOMAIN dict
                            /\ client'[d] # "on"
      BY <1>3, <2>1, <2>2, <2>3 DEF UeInv, Subscribers
    <3> QED
      BY <1>1, <2>3, <2>10, <3>1, <3>2 DEF Subscribers, NoneStarted
  <2>12. SomebodyLeft' /\ UesRun'
    <3>1. \A d \in Client : at'[d].step # "alive" /\ client'[d] # "on"
      BY <2>1, <2>2, <2>3, <2>4, UeStepIs DEF UeInv
    <3> QED
      BY <1>1, <2>5, <3>1 DEF UeInv, SomebodyLeft, LeftOver, UesRun, U!StartedIsOn
  <2>13. FileClosed'
    <3>1. \A d \in U!Caller : at'[d].step \notin {"quit", "close", "stopped"} /\ at'[d].op # "Start"
      BY <2>1, <2>4, UeStepIs DEF UeInv, StopSteps
    <3> QED
      BY <1>1, <2>5, <3>1 DEF LeftOver, UeInv, FileClosed
  <2> QED
    BY <2>1, <2>6, <2>7, <2>8, <2>9, <2>11, <2>12, <2>13 DEF UeInv
<1> QED
  BY <1>2, <1>3

\* CallStart.
LEMMA CallStartKeeps ==
    ASSUME UeInv, NEW c \in Client, U!CallStart(c)
    PROVE  UeInv'
<1> USE CallerIs
<1>1. /\ at[c].op = "none" /\ U!Takes(c) /\ client[c] = "told" /\ U!Enter(c, "start", "Start")
      /\ \A d \in Client : U!Takes(d) => client[d] \in {"told", "on"} /\ at[d].op \notin {"Start", "Stop"}
      /\ UNCHANGED <<mode, client, holder, dict, count, sut, ues, on, socket, file, closed, poll>>
  BY DEF U!CallStart, U!Idle, U!sutVars, U!fileVars, U!bounds
<1>2. at'[c].op = "Start" /\ \A d \in U!Caller : d # c => at'[d] = at[d]
  BY <1>1, UeEnter, StepsAre DEF UeInv, UeOp
<1>3. \A d \in U!Caller : at[d].op # "Start" /\ at[d].op # "Stop"
  BY <1>1, UeStepIs DEF UeInv, Sessions, U!Caller
<1>4. Sessions'
  BY <1>1, <1>2, <1>3 DEF UeInv, Sessions, U!Takes
<1> QED
  BY <1>1, <1>4, StepsAre, BeginsOutside

-----------------------------------------------------------------------------
(* The UEs: WaitUntilAttached, the thread that polls and the process.      *)

\* A writer that does not hold the lock, while nobody ends or begins a process.
LEMMA Written ==
    ASSUME UeInv, file \notin {"closed", "broken"}, file' = U!Appended, \E c \in Client : BusyWith(c),
           \A c \in U!Caller : at[c].op = "Start" => at[c].step \notin LaunchSteps,
           UNCHANGED <<mode, at, client, holder, dict, count, sut, ues, on, socket, closed>>,
           poll' \in {"none", "waits", "has"}, poll = "none" => poll' = "none"
    PROVE  UeInv'
<1>1. file' = "open"
  BY DEF U!Appended, UeInv, FileClosed
<1>2. CallTypes' /\ Sessions' /\ OneHolds'
  BY CallsKept DEF UeInv
<1>3. UeTypes' /\ Numbers'
  BY DEF UeInv, UeTypes, Numbers
<1>4. Subscribers' /\ SomebodyLeft'
  BY DEF UeInv, Subscribers, NoneStarted, Started, SomebodyLeft, BusyWith
<1>5. UesRun'
  BY DEF UeInv, UesRun, U!StartedIsOn, U!Known, Started
<1>6. FileClosed'
  BY <1>1 DEF UeInv, FileClosed
<1> QED
  BY <1>2, <1>3, <1>4, <1>5, <1>6 DEF UeInv

\* CallWait and Ask.
LEMMA AskKeeps ==
    ASSUME UeInv, NEW c \in Client, U!CallWait(c) \/ U!Ask(c)
    PROVE  UeInv'
  BY UeFrame DEF U!CallWait, U!Ask, U!callVars, U!sutVars, U!fileVars, U!bounds

\* Save, which may come after the end of the metrics, and is no part of what is left.
LEMMA SaveKeeps ==
    ASSUME UeInv, NEW c \in Client, U!Save(c)
    PROVE  UeInv'
<1>1. /\ file' = U!Appended
      /\ UNCHANGED <<mode, at, client, holder, dict, count, sut, ues, on, socket, closed, poll>>
  BY DEF U!Save, U!callVars, U!sutVars, U!bounds
<1>2. /\ file' \in {"open", "broken"}
      /\ file \in {"closed", "broken"} <=> file' \in {"closed", "broken"}
  BY <1>1 DEF U!Appended, UeInv, FileClosed
<1>3. CallTypes' /\ Sessions' /\ OneHolds'
  BY <1>1, CallsKept DEF UeInv
<1>4. UeTypes' /\ Numbers'
  BY <1>1 DEF UeInv, UeTypes, Numbers
<1>5. NoneStarted' = NoneStarted
  BY <1>1 DEF NoneStarted, Started
<1>6. Subscribers' /\ SomebodyLeft'
  BY <1>1, <1>2, <1>5 DEF UeInv, Subscribers, Started, SomebodyLeft, LeftOver, BusyWith
<1>7. UesRun'
  BY <1>1 DEF UeInv, UesRun, U!StartedIsOn, U!Known, Started
<1>8. FileClosed'
  BY <1>1, <1>2, <1>5 DEF UeInv, FileClosed
<1> QED
  BY <1>3, <1>4, <1>6, <1>7, <1>8 DEF UeInv

\* PollAsks, PollSaves and PollEnds.
LEMMA PollKeeps ==
    ASSUME UeInv, U!PollAsks \/ U!PollSaves \/ U!PollEnds
    PROVE  UeInv'
<1>1. UNCHANGED <<mode, at, client, holder, dict, count, sut, ues, on, socket, closed>>
  BY DEF U!PollAsks, U!PollSaves, U!PollEnds, U!callVars, U!sutVars, U!bounds
<1>2. poll # "none" /\ poll' \in {"none", "waits", "has"} /\ (file' = file \/ file' = U!Appended)
  BY DEF U!PollAsks, U!PollSaves, U!PollEnds
<1>3. CASE file' = U!Appended
  <2>1. file \notin {"closed", "broken"} /\ \E c \in Client : BusyWith(c)
    BY <1>2 DEF UeInv, FileClosed, SomebodyLeft, LeftOver
  <2>2. \A c \in U!Caller : at[c].op = "Start" => at[c].step \notin LaunchSteps
    BY <1>2 DEF UeInv, FileClosed
  <2> QED
    BY <1>1, <1>2, <1>3, <2>1, <2>2, Written
<1>4. CASE file' = file
  <2>1. CallTypes' /\ Sessions' /\ OneHolds'
    BY <1>1, CallsKept DEF UeInv
  <2>2. UeTypes' /\ Numbers'
    BY <1>1, <1>2 DEF UeInv, UeTypes, Numbers
  <2>3. Subscribers' /\ SomebodyLeft'
    BY <1>1, <1>2, <1>4 DEF UeInv, Subscribers, NoneStarted, Started, SomebodyLeft, LeftOver, BusyWith
  <2>4. UesRun'
    BY <1>1 DEF UeInv, UesRun, U!StartedIsOn, U!Known, Started
  <2>5. FileClosed'
    BY <1>1, <1>2, <1>4 DEF UeInv, FileClosed, NoneStarted, Started
  <2> QED
    BY <2>1, <2>2, <2>3, <2>4, <2>5 DEF UeInv
<1> QED
  BY <1>2, <1>3, <1>4

\* SutDies.
LEMMA SutDiesKeeps ==
    ASSUME UeInv, U!SutDies
    PROVE  UeInv'
<1>1. /\ UNCHANGED <<mode, at, client, holder, dict, count, ues, on, file, closed, poll>>
      /\ sut = "up" /\ sut' = "dead" /\ socket' = (IF socket = "open" THEN "closed" ELSE socket)
  BY DEF U!SutDies, U!callVars, U!fileVars, U!bounds
<1>2. socket' \in {"none", "open", "closed"} /\ socket' # "open"
  BY <1>1 DEF UeInv, UeTypes
<1>3. CallTypes' /\ Sessions' /\ OneHolds'
  BY <1>1, CallsKept DEF UeInv
<1>4. UeTypes' /\ Numbers'
  BY <1>1, <1>2 DEF UeInv, UeTypes, Numbers
<1>5. Subscribers' /\ SomebodyLeft'
  BY <1>1 DEF UeInv, Subscribers, NoneStarted, Started, SomebodyLeft, LeftOver, BusyWith
<1>6. UesRun'
  BY <1>1, <1>2 DEF UeInv, UesRun, U!StartedIsOn, Started
<1>7. FileClosed'
  BY <1>1, <1>2 DEF UeInv, FileClosed, NoneStarted, Started
<1> QED
  BY <1>3, <1>4, <1>5, <1>6, <1>7 DEF UeInv

-----------------------------------------------------------------------------
(* The UEs: Stop.                                                          *)

\* A Stop is of a client that has started or failed to, or of the agent when they
\* have gone.
LEMMA StopIs ==
    ASSUME UeInv, NEW c \in U!Caller, at[c].op = "Stop"
    PROVE  /\ \A d \in U!Caller : at[d].op # "Start"
           /\ \A d \in Client : client[d] # "told" /\ at[d].step # "alive"
           /\ c \in Client => client[c] \in {"on", "ending"} /\ at[c].whose = c
           /\ c \notin Client => /\ c = U!Agent
                                 /\ \A d \in Client : client[d] = "gone" /\ at[d].op = "none"
<1> USE CallerIs
<1>1. \A d \in U!Caller : at[d].op # "Start"
  BY UeStepIs DEF UeInv, Sessions
<1>2. \A d \in Client : at[d].step # "alive"
  BY <1>1, UeStepIs DEF UeInv
<1> QED
  BY <1>1, <1>2 DEF UeInv, Sessions, U!Caller

\* CallStop.
LEMMA CallStopKeeps ==
    ASSUME UeInv, NEW c \in U!Caller, U!CallStop(c)
    PROVE  UeInv'
<1> USE CallerIs
<1>1. /\ c \in Client /\ at[c].op = "none" /\ client[c] \in {"told", "on", "ending"} /\ U!Enter(c, "stop", "Stop")
      /\ \A d \in Client : at[d].op \notin {"Start", "GetDefinition"}
      /\ client' = [d \in Client |-> IF client[d] = "told" THEN "ending" ELSE client[d]]
      /\ UNCHANGED <<mode, holder, dict, count, sut, ues, on, socket, file, closed, poll>>
  BY DEF U!CallStop, U!Idle, U!sutVars, U!fileVars, U!bounds
<1>2. /\ CallTypes' /\ at'[c].step = "stop" /\ at'[c].op = "Stop" /\ at'[c].whose = c
      /\ \A d \in U!Caller : d # c => at'[d] = at[d]
  BY <1>1, UeEnter, StepsAre DEF UeInv, UeOp
<1>3. /\ client' \in [Client -> {"out", "told", "on", "ending", "gone"}]
      /\ \A d \in Client : client'[d] = IF client[d] = "told" THEN "ending" ELSE client[d]
  BY <1>1 DEF UeInv, UeTypes
<1>4. at[c].step = "idle" /\ \A d \in Client : at[d].step \notin {"new", "alive"}
  BY <1>1, UeStepIs DEF UeInv
<1>5. UeTypes' /\ Numbers'
  BY <1>1, <1>3 DEF UeInv, UeTypes, Numbers
<1>6. OneHolds'
  BY <1>1, <1>2 DEF UeInv, OneHolds, HeldSteps, LaunchSteps, StopSteps, OffSteps
<1>7. Sessions'
  BY <1>1, <1>2, <1>3 DEF UeInv, Sessions, U!Takes
<1>8. NoneStarted' = NoneStarted
  BY <1>1 DEF NoneStarted, Started
<1>9. Subscribers'
  <2>1. \A d \in Client : client'[d] \in {"told", "on", "ending"} /\ d \notin DOMAIN dict => NoneStarted
    BY <1>3 DEF UeInv, Subscribers, NoneStarted, Started
  <2>2. \A d \in Client : Started(d) => client'[d] \in {"on", "ending", "gone"}
    BY <1>3, <1>4 DEF UeInv, Subscribers
  <2>3. \A d \in U!Caller : /\ at'[d].step \in LaunchSteps => NoneStarted
                            /\ at'[d].step \in OffSteps => Started(at'[d].whose)
    BY <1>2 DEF UeInv, Subscribers, OffSteps, LaunchSteps, StopSteps
  <2>4. \A d \in Client : mode # "simulator" /\ client'[d] = "on" /\ at'[d].op # "Stop" => Started(d)
    BY <1>2, <1>3 DEF UeInv, Subscribers
  <2>5. \A d \in Client : at'[d].step # "new" /\ client'[d] # "told"
    BY <1>2, <1>3, <1>4
  <2> QED
    BY <1>1, <1>8, <2>1, <2>2, <2>3, <2>4, <2>5 DEF UeInv, Subscribers, Started
<1>10. SomebodyLeft'
  <2>1. \A d \in Client : BusyWith(d) => BusyWith(d)'
    BY <1>1, <1>3 DEF BusyWith
  <2> QED
    BY <1>1, <2>1 DEF UeInv, SomebodyLeft, LeftOver
<1>11. UesRun'
  BY <1>1, <1>2, <1>3, <1>4 DEF UeInv, UesRun, U!StartedIsOn, U!Known
<1>12. FileClosed'
  BY <1>1, <1>2, <1>3, <1>4, <1>8 DEF UeInv, FileClosed, LaunchSteps, StopSteps
<1> QED
  BY <1>2, <1>5, <1>6, <1>7, <1>9, <1>10, <1>11, <1>12 DEF UeInv

\* CallLastStop.
LEMMA CallLastStopKeeps ==
    ASSUME UeInv, U!CallLastStop
    PROVE  UeInv'
<1> USE CallerIs
<1>1. /\ at[U!Agent].op = "none" /\ U!Enter(U!Agent, "stop", "Stop") /\ sut # "none"
      /\ \A d \in Client : at[d].op = "none"
      /\ client' = [d \in Client |-> "gone"]
      /\ UNCHANGED <<mode, holder, dict, count, sut, ues, on, socket, file, closed, poll>>
  BY DEF U!CallLastStop, U!Idle, U!sutVars, U!fileVars, U!bounds
<1>2. /\ CallTypes' /\ at'[U!Agent].step = "stop" /\ at'[U!Agent].op = "Stop"
      /\ \A d \in Client : at'[d] = at[d]
  BY <1>1, UeEnter, StepsAre DEF UeInv, UeOp
<1>3. \A d \in Client : at'[d].step = "idle" /\ at'[d].op = "none" /\ client'[d] = "gone"
  BY <1>1, <1>2, UeStepIs DEF UeInv
<1>4. \A d \in U!Caller : at'[d].step \in {"idle", "stop"} /\ at'[d].op \in {"none", "Stop"}
  BY <1>2, <1>3 DEF U!Caller
<1>5. UeTypes' /\ Numbers'
  BY <1>1 DEF UeInv, UeTypes, Numbers
<1>6. OneHolds'
  BY <1>4 DEF OneHolds, HeldSteps, LaunchSteps, StopSteps, OffSteps
<1>7. Sessions'
  BY <1>2, <1>3 DEF Sessions, U!Caller
<1>8. Subscribers'
  BY <1>1, <1>3, <1>4 DEF UeInv, Subscribers, OffSteps, LaunchSteps, StopSteps
<1>9. SomebodyLeft'
  BY <1>1, <1>3 DEF UeInv, SomebodyLeft, LeftOver, BusyWith
<1>10. UesRun'
  BY <1>1, <1>3 DEF UeInv, UesRun, U!StartedIsOn
<1>11. FileClosed'
  BY <1>1, <1>3, <1>4 DEF UeInv, FileClosed, NoneStarted, Started, LaunchSteps, StopSteps
<1> QED
  BY <1>2, <1>5, <1>6, <1>7, <1>8, <1>9, <1>10, <1>11 DEF UeInv


\* A Stop that returns or fails.
LEMMA StopLeaves ==
    ASSUME UeInv, NEW c \in U!Caller, at[c].op = "Stop", U!Leave(c),
           NEW w \in {"out", "ending"}, U!Reach(c, w), UNCHANGED mode
    PROVE  /\ CallTypes' /\ OneHolds' /\ Sessions'
           /\ at'[c].step = "idle" /\ at'[c].op = "none" /\ \A d \in U!Caller : d # c => at'[d] = at[d]
           /\ client' \in [Client -> {"out", "told", "on", "ending", "gone"}]
           /\ c \in Client => client'[c] = w
           /\ \A d \in Client : d # c => client'[d] = client[d]
<1> USE CallerIs
<1>1. /\ CallTypes' /\ at'[c].step = "idle" /\ at'[c].op = "none"
      /\ \A d \in U!Caller : d # c => at'[d] = at[d]
      /\ \A d \in U!Caller : d # c /\ holder = d => holder' = d
  BY UeLeave DEF UeInv
<1>2. /\ client' \in [Client -> {"out", "told", "on", "ending", "gone"}]
      /\ c \in Client => client'[c] = w
      /\ \A d \in Client : d # c => client'[d] = client[d]
  BY UeReach DEF UeInv
<1>3. OneHolds'
  BY <1>1 DEF UeInv, OneHolds, HeldSteps, LaunchSteps, StopSteps, OffSteps
<1>4. /\ \A d \in U!Caller : at[d].op # "Start"
      /\ c \in Client => client[c] \in {"on", "ending"} /\ U!Takes(c) /\ \A d \in Client : client[d] # "gone"
      /\ c \notin Client => \A d \in Client : client'[d] = "gone" /\ at'[d].op = "none"
  BY <1>1, <1>2, StopIs DEF UeInv, Sessions
<1>5. Sessions'
  <2>1. CASE c \in Client
    <3>1. \A d \in Client : at'[d].op = "GetDefinition" /\ client'[d] = "out" => FALSE
      BY <1>1, <1>2, <1>4, <2>1 DEF UeInv, Sessions
    <3>2. \A d \in Client : client'[d] \notin {"told", "gone"}
      BY <1>2, <1>4, <2>1 DEF UeInv, Sessions
    <3>3. \A d \in U!Caller : at'[d].op # "Start"
      BY <1>1, <1>4
    <3>4. at'[U!Agent].op # "Stop"
      BY <1>1, <1>4, <2>1 DEF UeInv, Sessions
    <3> QED
      BY <1>1, <1>2, <1>4, <2>1, <3>1, <3>2, <3>3, <3>4 DEF UeInv, Sessions, U!Takes
  <2>2. CASE c \notin Client
    BY <1>4, <2>2 DEF Sessions
  <2> QED
    BY <2>1, <2>2
<1> QED
  BY <1>1, <1>2, <1>3, <1>5

\* ... while the subscribers stay as they are.
LEMMA StopLeavesThem ==
    ASSUME UeInv, NEW c \in U!Caller, at[c].op = "Stop", U!Leave(c), NEW w \in {"out", "ending"}, U!Reach(c, w),
           w = "out" => ~Started(c), UNCHANGED <<mode, dict, count>>
    PROVE  Subscribers' /\ Numbers' /\ NoneStarted' = NoneStarted
<1> USE CallerIs
<1>1. /\ at'[c].step = "idle" /\ at'[c].op = "none" /\ \A d \in U!Caller : d # c => at'[d] = at[d]
      /\ c \in Client => client'[c] = w
      /\ \A d \in Client : d # c => client'[d] = client[d]
  BY StopLeaves
<1>2. /\ \A d \in Client : client[d] # "told" /\ at[d].step # "alive"
      /\ c \in Client => client[c] \in {"on", "ending"}
  BY StopIs
<1>3. \A d \in Client : client'[d] \in {"told", "on", "ending"} /\ d \notin DOMAIN dict => NoneStarted
  BY <1>1, <1>2 DEF UeInv, Subscribers
<1>4. \A d \in Client : Started(d) => client'[d] \in {"on", "ending", "gone"}
  BY <1>1, <1>2 DEF UeInv, Subscribers
<1>5. \A d \in U!Caller : /\ at'[d].step \in LaunchSteps => NoneStarted
                          /\ at'[d].step \in OffSteps => Started(at'[d].whose)
  BY <1>1 DEF UeInv, Subscribers, OffSteps, LaunchSteps, StopSteps
<1>6. \A d \in Client : mode # "simulator" /\ client'[d] = "on" /\ at'[d].op # "Stop" => Started(d)
  BY <1>1 DEF UeInv, Subscribers
<1>7. \A d \in Client : client'[d] # "told" /\ (at'[d].step = "new" => client'[d] = "out" /\ d \notin DOMAIN dict)
  BY <1>1, <1>2 DEF UeInv, Subscribers
<1>8. NoneStarted' = NoneStarted
  BY DEF NoneStarted, Started
<1>9. Subscribers'
  BY <1>3, <1>4, <1>5, <1>6, <1>7, <1>8 DEF UeInv, Subscribers, Started
<1> QED
  BY <1>8, <1>9 DEF UeInv, Numbers

\* A Stop that fails, with the lock.
LEMMA StopFails ==
    ASSUME UeInv, NEW c \in U!Caller, at[c].op = "Stop", at[c].step \in HeldSteps, U!Raise(c),
           at[c].step = "stopped" => c \notin Client,
           UNCHANGED <<mode, dict, count, sut, ues, socket, file, closed, poll>>,
           on' = on \/ (at[c].step \in OffSteps /\ on' = on \ {dict[at[c].whose].id})
    PROVE  UeInv'
<1> USE CallerIs
<1>1. U!Leave(c) /\ U!Reach(c, "ending")
  BY DEF U!Raise
<1>2. /\ CallTypes' /\ OneHolds' /\ Sessions'
      /\ at'[c].step = "idle" /\ at'[c].op = "none" /\ \A d \in U!Caller : d # c => at'[d] = at[d]
      /\ client' \in [Client -> {"out", "told", "on", "ending", "gone"}]
      /\ c \in Client => client'[c] = "ending"
      /\ \A d \in Client : d # c => client'[d] = client[d]
  BY <1>1, StopLeaves
<1>3. Subscribers' /\ Numbers' /\ NoneStarted' = NoneStarted
  BY <1>1, StopLeavesThem
<1>4. /\ \A d \in Client : client[d] # "told" /\ at[d].step # "alive" /\ at[d].op # "Start"
      /\ c \in Client => at[c].whose = c /\ client[c] \in {"on", "ending"}
      /\ c \notin Client => \A d \in Client : client[d] = "gone"
  BY StopIs
<1>5. UeTypes'
  BY <1>2 DEF UeInv, UeTypes
<1>6. SomebodyLeft'
  <2>1. \A d \in Client : BusyWith(d) => BusyWith(d)'
    BY <1>2, <1>4 DEF BusyWith
  <2> QED
    BY <2>1 DEF UeInv, SomebodyLeft, LeftOver
<1>7. UesRun'
  <2>1. U!StartedIsOn'
    <3>1. ASSUME NEW d \in Client, mode # "simulator", client'[d] = "on", at'[d].op # "Stop", sut = "up"
          PROVE  d \in DOMAIN dict /\ dict[d].id \in on'
      <4>1. d # c /\ c \in Client /\ client[d] = "on" /\ at[d].op # "Stop"
        BY <1>2, <1>4, <3>1
      <4>2. Started(d) /\ dict[d].id \in on
        BY <3>1, <4>1 DEF UeInv, UesRun, U!StartedIsOn, Subscribers
      <4>3. at[c].step \in OffSteps => dict[d].id # dict[c].id
        BY <1>4, <4>1, <4>2 DEF UeInv, Subscribers, Numbers, Started
      <4> QED
        BY <1>4, <4>1, <4>2, <4>3 DEF Started
    <3> QED
      BY <3>1 DEF U!StartedIsOn, U!Known
  <2> QED
    BY <1>2, <1>4, <2>1 DEF UeInv, UesRun
<1>8. FileClosed'
  <2>1. \A d \in U!Caller : d # c => at'[d].step \notin HeldSteps
    BY <1>2 DEF UeInv, OneHolds
  <2>2. file \in {"closed", "broken"} => /\ closed /\ poll = "none" /\ socket # "open" /\ NoneStarted
                           /\ \A d \in Client : client'[d] = "gone"
    BY <1>2, <1>4, FileWas
  <2> QED
    BY <1>2, <1>3, <2>1, <2>2, FileIs DEF UeInv, FileClosed, LaunchSteps, StopSteps
<1> QED
  BY <1>2, <1>3, <1>5, <1>6, <1>7, <1>8 DEF UeInv

\* StopLocked.
LEMMA StopLockedKeeps ==
    ASSUME UeInv, NEW c \in U!Caller, U!StopLocked(c)
    PROVE  UeInv'
<1> USE CallerIs
<1>1. /\ at[c].op = "Stop" /\ at[c].step = "stop" /\ holder = U!Nobody
      /\ UNCHANGED <<mode, dict, count, sut, ues, on, socket, file, closed, poll>>
  BY UeStepIs DEF UeInv, U!StopLocked, U!sutVars, U!fileVars, U!bounds
<1>2. U!AnyStarted <=> ~NoneStarted
  BY DEF UeInv, UeTypes, U!AnyStarted, U!Known, NoneStarted, Started
<1>3. \A d \in U!Caller : at[d].step \notin HeldSteps
  BY <1>1 DEF UeInv, OneHolds
<1>4. /\ \A d \in Client : client[d] # "told" /\ at[d].step # "alive" /\ at[d].op # "Start"
      /\ c \in Client => at[c].whose = c /\ client[c] \in {"on", "ending"}
      /\ c \notin Client => \A d \in Client : client[d] = "gone"
  BY <1>1, StopIs
<1>5. CASE U!AnyStarted /\ c \in DOMAIN dict /\ ~dict[c].started
  <2>1. U!Leave(c) /\ U!Reach(c, "out") /\ ~Started(c) /\ c \in Client
    BY <1>5 DEF U!StopLocked, U!Known, Started, UeInv, UeTypes
  <2>2. /\ CallTypes' /\ OneHolds' /\ Sessions'
        /\ at'[c].step = "idle" /\ at'[c].op = "none" /\ \A d \in U!Caller : d # c => at'[d] = at[d]
        /\ client' \in [Client -> {"out", "told", "on", "ending", "gone"}]
        /\ client'[c] = "out"
        /\ \A d \in Client : d # c => client'[d] = client[d]
    BY <1>1, <2>1, StopLeaves
  <2>3. Subscribers' /\ Numbers' /\ NoneStarted' = NoneStarted
    BY <1>1, <2>1, StopLeavesThem
  <2>4. UeTypes'
    BY <1>1, <2>2 DEF UeInv, UeTypes
  <2>5. SomebodyLeft'
    <3>1. PICK d \in Client : Started(d)
      BY <1>2, <1>5 DEF NoneStarted
    <3>2. client'[d] \in {"on", "ending", "gone"}
      BY <1>4, <2>1, <2>2, <3>1 DEF UeInv, Subscribers
    <3> QED
      BY <3>2 DEF SomebodyLeft, BusyWith
  <2>6. UesRun'
    BY <1>1, <1>4, <2>2 DEF UeInv, UesRun, U!StartedIsOn, U!Known
  <2>7. FileClosed'
    <3>1. \A d \in U!Caller : at'[d].step \notin HeldSteps
      BY <1>3, <2>2 DEF HeldSteps, LaunchSteps, StopSteps, OffSteps
    <3>2. file \notin {"closed", "broken"} /\ file' = file
      BY <1>1, <1>2, <1>5 DEF UeInv, FileClosed
    <3> QED
      BY <3>1, <3>2 DEF UeInv, FileClosed, HeldSteps, LaunchSteps, StopSteps
  <2> QED
    BY <2>2, <2>3, <2>4, <2>5, <2>6, <2>7 DEF UeInv
<1>6. CASE ~(U!AnyStarted /\ c \in DOMAIN dict /\ ~dict[c].started)
  <2>1. /\ holder' = c /\ UNCHANGED client
        /\ \E d \in IF U!AnyStarted THEN U!ToStop(c) ELSE {c} :
              at' = [at EXCEPT ![c].step = IF U!AnyStarted THEN "off" ELSE "poll", ![c].whose = d]
    BY <1>6 DEF U!StopLocked, U!Known
  <2>2. PICK d \in IF U!AnyStarted THEN U!ToStop(c) ELSE {c} :
              at' = [at EXCEPT ![c].step = IF U!AnyStarted THEN "off" ELSE "poll", ![c].whose = d]
    BY <2>1
  <2>3. d \in U!Caller /\ (c \in Client => d = c) /\ (U!AnyStarted => Started(d))
    <3>1. CASE ~U!AnyStarted
      BY <2>2, <3>1
    <3>2. CASE U!AnyStarted /\ c \in DOMAIN dict
      BY <1>6, <2>2, <3>2 DEF U!ToStop, U!Known, Started
    <3>3. CASE U!AnyStarted /\ c \notin DOMAIN dict
      <4>1. c \notin Client
        BY <1>2, <1>4, <3>3 DEF UeInv, Subscribers
      <4> QED
        BY <2>2, <3>3, <4>1 DEF U!ToStop, U!Known, Started, UeInv, UeTypes
    <3> QED
      BY <3>1, <3>2, <3>3
  <2> DEFINE s == IF U!AnyStarted THEN "off" ELSE "poll"
  <2>4. /\ [at[c] EXCEPT !.step = s, !.whose = d] \in UeCall
        /\ [at[c] EXCEPT !.step = s, !.whose = d].step = s
        /\ [at[c] EXCEPT !.step = s, !.whose = d].op = "Stop"
        /\ [at[c] EXCEPT !.step = s, !.whose = d].whose = d
    BY <1>1, <2>3 DEF UeInv, CallTypes, UeCall, UeStep, HeldSteps, LaunchSteps, StopSteps, OffSteps
  <2>5. s \in StepsOf("Stop") /\ s \in {"off", "poll"} /\ (s = "poll" => NoneStarted) /\ (s = "off" => Started(d))
    BY <1>2, <2>3, StepsAre DEF StopSteps, OffSteps
  <2>6. at' = [at EXCEPT ![c] = [at[c] EXCEPT !.step = s, !.whose = d]]
    BY <2>2
  <2> HIDE DEF s
  <2>7. /\ at' \in [U!Caller -> UeCall] /\ at'[c].step = s /\ at'[c].op = "Stop" /\ at'[c].whose = d
        /\ \A e \in U!Caller : e # c => at'[e] = at[e]
    BY <2>4, <2>6 DEF UeInv, CallTypes
  <2>8. CallTypes'
    BY <2>5, <2>7 DEF UeInv, CallTypes
  <2>9. UeTypes' /\ Numbers'
    BY <1>1, <2>1 DEF UeInv, UeTypes, Numbers
  <2>10. OneHolds'
    BY <1>3, <2>1, <2>7 DEF OneHolds
  <2>11. \A e \in U!Caller : at'[e].op = at[e].op
    BY <1>1, <2>7
  <2>12. Sessions'
    BY <1>1, <2>1, <2>3, <2>7, <2>11 DEF UeInv, Sessions, U!Takes
  <2>13. NoneStarted' = NoneStarted /\ \A e \in U!Caller : e # c => at'[e].step \notin HeldSteps
    BY <1>1, <1>3, <2>7 DEF NoneStarted, Started
  <2>14. Subscribers'
    <3>1. \A e \in U!Caller : /\ at'[e].step \in LaunchSteps => NoneStarted
                              /\ at'[e].step \in OffSteps => Started(at'[e].whose)
      BY <2>5, <2>7, <2>13 DEF HeldSteps, LaunchSteps, StopSteps, OffSteps
    <3>2. \A e \in Client : Started(e) => client[e] \in {"on", "ending", "gone"}
      BY <1>4 DEF UeInv, Subscribers
    <3>3. \A e \in Client : mode # "simulator" /\ client[e] = "on" /\ at'[e].op # "Stop" => Started(e)
      BY <2>11 DEF UeInv, Subscribers
    <3>4. \A e \in Client : client[e] # "told" /\ (at'[e].step = "new" => client[e] = "out" /\ e \notin DOMAIN dict)
      BY <1>4, <2>5, <2>7 DEF UeInv, Subscribers
    <3> QED
      BY <1>1, <2>1, <2>13, <3>1, <3>2, <3>3, <3>4 DEF UeInv, Subscribers, Started
  <2>15. SomebodyLeft'
    BY <1>1, <1>4, <2>1, <2>11 DEF UeInv, SomebodyLeft, LeftOver, BusyWith
  <2>16. UesRun'
    <3>1. \A e \in Client : at'[e].step # "alive"
      BY <2>5, <2>7, <2>13 DEF HeldSteps
    <3> QED
      BY <1>1, <2>1, <2>11, <3>1 DEF UeInv, UesRun, U!StartedIsOn, U!Known
  <2>17. FileClosed'
    <3>1. file \in {"closed", "broken"} => /\ closed /\ poll = "none" /\ socket # "open" /\ NoneStarted
                             /\ \A e \in Client : client[e] = "gone"
      BY <1>3 DEF UeInv, FileClosed, HeldSteps, LaunchSteps, StopSteps
    <3> QED
      BY <1>1, <2>1, <2>5, <2>7, <2>13, <3>1, FileIs DEF UeInv, FileClosed
  <2> QED
    BY <2>8, <2>9, <2>10, <2>12, <2>14, <2>15, <2>16, <2>17 DEF UeInv
<1> QED
  BY <1>5, <1>6

\* A Stop that goes on while it powers a UE off, or ends the process.
LEMMA StopGoesOn ==
    ASSUME UeInv, NEW c \in U!Caller, NEW s \in StopSteps \cup OffSteps, U!Goto(c, s),
           at[c].op = "Stop", at[c].step \in StopSteps \cup OffSteps,
           s \in StopSteps => NoneStarted, s \in OffSteps => Started(at[c].whose),
           UNCHANGED <<mode, client, holder, dict, count, ues, poll>>,
           on' = on \/ (at[c].step \in OffSteps /\ on' = on \ {dict[at[c].whose].id}),
           UeTypes', LeftOver' => LeftOver, socket' = "open" => sut' = "up",
           sut' # "none" => sut # "none", sut' = "up" => sut = "up",
           s \in {"quit", "close", "stopped"} => poll = "none", s = "close" => socket' # "open",
           file' \in {"empty", "open", "closed", "broken"},
           file' \in {"closed", "broken"} =>
              /\ closed' /\ poll = "none" /\ socket' # "open" /\ NoneStarted
              /\ (c \in Client /\ s = "stopped") \/ \A d \in Client : client[d] = "gone"
    PROVE  UeInv'
<1> USE CallerIs
<1>1. at[c].step \in HeldSteps /\ at[c].step # "alive" /\ s \in StepsOf(at[c].op) /\ s # "start"
  BY StepsAre DEF HeldSteps, LaunchSteps, StopSteps, OffSteps
<1>2. s \in LaunchSteps => s \in StopSteps
  BY DEF LaunchSteps, OffSteps
<1>3. /\ CallTypes' /\ OneHolds' /\ Sessions' /\ Numbers' /\ Subscribers' /\ SameOp
      /\ at'[c].step = s /\ NoneStarted' = NoneStarted
      /\ \A d \in Client : BusyWith(d) => BusyWith(d)'
      /\ \A d \in U!Caller : d # c => at'[d] = at[d] /\ at'[d].step \notin HeldSteps
  BY <1>1, <1>2, HolderGoesOn
<1>4. SomebodyLeft'
  BY <1>3 DEF UeInv, SomebodyLeft
<1>5. UesRun'
  <2>1. /\ \A d \in Client : at'[d].step # "alive"
        /\ c \in Client => at[c].whose = c
        /\ c \notin Client => \A d \in Client : client[d] = "gone"
    BY <1>3, StopIs DEF HeldSteps, StopSteps, OffSteps
  <2>2. ASSUME NEW d \in Client, mode # "simulator", client[d] = "on", at'[d].op # "Stop", sut' = "up"
        PROVE  d \in DOMAIN dict /\ dict[d].id \in on'
    <3>1. d # c /\ c \in Client /\ at[d].op # "Stop"
      BY <1>3, <2>1, <2>2 DEF SameOp
    <3>2. Started(d) /\ dict[d].id \in on
      BY <2>2, <3>1 DEF UeInv, UesRun, U!StartedIsOn, Subscribers
    <3>3. at[c].step \in OffSteps => dict[d].id # dict[c].id
      BY <2>1, <3>1, <3>2 DEF UeInv, Subscribers, Numbers, Started
    <3> QED
      BY <2>1, <3>1, <3>2, <3>3 DEF Started
  <2>3. U!StartedIsOn'
    BY <2>2 DEF U!StartedIsOn, U!Known
  <2> QED
    BY <2>1, <2>3 DEF UeInv, UesRun
<1>6. FileClosed'
  BY <1>3, FileIs DEF SameOp
<1> QED
  BY <1>3, <1>4, <1>5, <1>6 DEF UeInv

\* PowerOff.
LEMMA PowerOffKeeps ==
    ASSUME UeInv, NEW c \in U!Caller, U!PowerOff(c)
    PROVE  UeInv'
<1> USE CallerIs
<1>1. /\ at[c].op = "Stop" /\ at[c].step = "off" /\ at[c].step \in OffSteps /\ at[c].step \in HeldSteps
      /\ UNCHANGED <<mode, client, holder, dict, count, sut, ues, socket, closed, poll>>
  BY UeStepIs DEF UeInv, U!PowerOff, U!NoTimeout, U!Timeout, U!bounds, OffSteps, HeldSteps
<1>2. Started(at[c].whose) /\ ~NoneStarted /\ file \notin {"closed", "broken"}
  BY <1>1 DEF UeInv, UeTypes, Subscribers, FileClosed, NoneStarted, Started
<1>3. PICK s \in {"off done", "force"} : U!Goto(c, s)
  BY DEF U!PowerOff
<1>4. \/ UNCHANGED <<on, file>>
      \/ on' = on \ {dict[at[c].whose].id} /\ file' = U!Appended /\ socket = "open"
  BY DEF U!PowerOff
<1>5. file' \in {"empty", "open"} /\ (LeftOver' => LeftOver)
  BY <1>1, <1>2, <1>4 DEF UeInv, FileClosed, U!Appended, LeftOver, UesRun
<1>6. UeTypes'
  BY <1>1 DEF UeInv, UeTypes
<1>7. s \in OffSteps /\ s \notin StopSteps
  BY DEF OffSteps, StopSteps
<1> QED
  BY <1>1, <1>2, <1>3, <1>4, <1>5, <1>6, <1>7, StopGoesOn DEF UeInv, UesRun, StopSteps

\* ForceOff.
LEMMA ForceOffKeeps ==
    ASSUME UeInv, NEW c \in U!Caller, U!ForceOff(c)
    PROVE  UeInv'
<1> USE CallerIs
<1>1. /\ at[c].op = "Stop" /\ at[c].step = "force" /\ at[c].step \in OffSteps /\ at[c].step \in HeldSteps
      /\ UNCHANGED <<mode, dict, count, sut, ues, socket, closed, poll>>
  BY UeStepIs DEF UeInv, U!ForceOff, U!NoTimeout, U!Timeout, U!bounds, OffSteps, HeldSteps
<1>2. Started(at[c].whose) /\ ~NoneStarted /\ file \notin {"closed", "broken"}
  BY <1>1 DEF UeInv, UeTypes, Subscribers, FileClosed, NoneStarted, Started
<1>3. CASE U!Raise(c) /\ on' \in {on, on \ {dict[at[c].whose].id}} /\ UNCHANGED file
  BY <1>1, <1>3, StopFails
<1>4. CASE /\ socket = "open" /\ on' = on \ {dict[at[c].whose].id} /\ file' = U!Appended
           /\ U!Goto(c, "off done") /\ UNCHANGED <<client, holder>>
  <2>1. file' = "open" /\ LeftOver
    BY <1>2, <1>4 DEF UeInv, FileClosed, U!Appended, LeftOver, UesRun
  <2>2. UeTypes'
    BY <1>1, <1>4 DEF UeInv, UeTypes
  <2>3. "off done" \in OffSteps /\ "off done" \notin StopSteps
    BY DEF OffSteps, StopSteps
  <2> QED
    BY <1>1, <1>2, <1>4, <2>1, <2>2, <2>3, StopGoesOn DEF UeInv, UesRun, StopSteps
<1> QED
  BY <1>3, <1>4 DEF U!ForceOff

\* StopPoll.
LEMMA StopPollKeeps ==
    ASSUME UeInv, NEW c \in U!Caller, U!StopPoll(c)
    PROVE  UeInv'
<1> USE CallerIs
<1>1. /\ at[c].step = "poll" /\ at[c].step \in StopSteps /\ at[c].op \in {"Start", "Stop"} /\ U!Goto(c, "join")
      /\ UNCHANGED <<mode, client, holder, dict, count, sut, ues, on, socket, file, closed, poll>>
  BY UeStepIs DEF UeInv, U!StopPoll, U!TellPoll, U!sutVars, U!bounds, StopSteps
<1>2. NoneStarted /\ at[c].step \in LaunchSteps /\ at[c].step \in HeldSteps
  BY <1>1 DEF UeInv, Subscribers, LaunchSteps, HeldSteps
<1>3. UeTypes'
  BY <1>1 DEF UeInv, UeTypes
<1>4. CASE at[c].op = "Start"
  <2>1. socket # "open" /\ c \in Client
    BY <1>1, <1>2, <1>4, UeStepIs DEF UeInv, FileClosed
  <2> QED
    BY <1>1, <1>2, <1>4, <2>1, LaunchGoesOn DEF UeInv, UeTypes, UesRun, LaunchSteps, StopSteps
<1>5. CASE at[c].op = "Stop"
  <2>1. file \in {"closed", "broken"} => closed /\ poll = "none" /\ socket # "open" /\ \A d \in Client : client[d] = "gone"
    BY <1>1, <1>2, FileWas
  <2>2. "join" \in StopSteps /\ "join" \notin OffSteps
    BY DEF OffSteps, StopSteps
  <2> QED
    BY <1>1, <1>2, <1>3, <1>5, <2>1, <2>2, StopGoesOn DEF UeInv, UesRun, LeftOver, FileClosed
<1> QED
  BY <1>1, <1>4, <1>5

\* PollStopped.
LEMMA PollStoppedKeeps ==
    ASSUME UeInv, NEW c \in U!Caller, U!PollStopped(c)
    PROVE  UeInv'
<1> USE CallerIs
<1>1. /\ at[c].step = "join" /\ at[c].step \in StopSteps /\ at[c].op \in {"Start", "Stop"} /\ poll = "none"
      /\ UNCHANGED <<mode, client, holder, dict, count, sut, ues, on, socket, file, closed, poll>>
  BY UeStepIs DEF UeInv, U!PollStopped, U!Joined, U!sutVars, U!fileVars, U!bounds, StopSteps
<1>2. NoneStarted /\ at[c].step \in LaunchSteps /\ at[c].step \in HeldSteps
  BY <1>1 DEF UeInv, Subscribers, LaunchSteps, HeldSteps
<1>3. UeTypes'
  BY <1>1 DEF UeInv, UeTypes
<1>4. PICK s \in {"quit", "stopped"} : U!Goto(c, s)
  BY DEF U!PollStopped
<1>5. CASE at[c].op = "Start"
  <2>1. socket # "open" /\ c \in Client
    BY <1>1, <1>2, <1>5, UeStepIs DEF UeInv, FileClosed
  <2> QED
    BY <1>1, <1>2, <1>4, <1>5, <2>1, LaunchGoesOn DEF UeInv, UeTypes, UesRun, LaunchSteps, StopSteps
<1>6. CASE at[c].op = "Stop"
  <2>1. file \in {"closed", "broken"} => closed /\ poll = "none" /\ socket # "open" /\ \A d \in Client : client[d] = "gone"
    BY <1>1, <1>2, FileWas
  <2>2. s \in StopSteps /\ s \notin OffSteps
    BY DEF OffSteps, StopSteps
  <2> QED
    BY <1>1, <1>2, <1>3, <1>4, <1>6, <2>1, <2>2, StopGoesOn DEF UeInv, UesRun, LeftOver, FileClosed
<1> QED
  BY <1>1, <1>5, <1>6

\* Quit.
LEMMA QuitKeeps ==
    ASSUME UeInv, NEW c \in U!Caller, U!Quit(c)
    PROVE  UeInv'
<1> USE CallerIs
<1>1. /\ at[c].step = "quit" /\ at[c].step \in StopSteps /\ at[c].op \in {"Start", "Stop"}
      /\ UNCHANGED <<mode, dict, count, ues, on, closed, poll>>
  BY UeStepIs DEF UeInv, U!Quit, U!NoTimeout, U!Timeout, U!bounds, StopSteps
<1>2. /\ NoneStarted /\ poll = "none"
      /\ at[c].step \in LaunchSteps /\ at[c].step \in HeldSteps
  BY <1>1 DEF UeInv, Subscribers, FileClosed, LaunchSteps, HeldSteps
<1>3. file \in {"closed", "broken"} => closed /\ socket # "open" /\ \A d \in Client : client[d] = "gone"
  BY <1>1, <1>2, FileWas
<1>4. CASE U!Raise(c) /\ socket = "open" /\ UNCHANGED <<file, socket, sut>>
  <2>1. at[c].op = "Stop"
    BY <1>1, <1>2, <1>4 DEF UeInv, FileClosed
  <2> QED
    BY <1>1, <1>2, <1>4, <2>1, StopFails
<1>5. CASE /\ socket # "open" /\ U!Goto(c, "close") /\ UNCHANGED <<client, holder, file, socket, sut>>
  <2>1. UeTypes'
    BY <1>1, <1>5 DEF UeInv, UeTypes
  <2>2. CASE at[c].op = "Start"
    <3>1. c \in Client
      BY <2>2, UeStepIs DEF UeInv
    <3> QED
      BY <1>1, <1>2, <1>5, <2>2, <3>1, LaunchGoesOn DEF UeInv, UeTypes, UesRun, LaunchSteps, StopSteps
  <2>3. CASE at[c].op = "Stop"
    <3>1. "close" \in StopSteps /\ "close" \notin OffSteps
      BY DEF OffSteps, StopSteps
    <3> QED
      BY <1>1, <1>2, <1>3, <1>5, <2>1, <2>3, <3>1, StopGoesOn DEF UeInv, UesRun, LeftOver, FileClosed
  <2> QED
    BY <1>1, <2>2, <2>3
<1>6. CASE /\ socket = "open" /\ file' = U!Appended /\ socket' = "closed" /\ sut' = "dead"
           /\ U!Goto(c, "close") /\ UNCHANGED <<client, holder>>
  <2>1. at[c].op = "Stop"
    BY <1>1, <1>2, <1>6 DEF UeInv, FileClosed
  <2>2. file' = "open" /\ sut # "none" /\ LeftOver
    BY <1>3, <1>6 DEF UeInv, FileClosed, U!Appended, UesRun, LeftOver
  <2>3. UeTypes'
    BY <1>1, <1>6 DEF UeInv, UeTypes
  <2>4. "close" \in StopSteps /\ "close" \notin OffSteps
    BY DEF OffSteps, StopSteps
  <2> QED
    BY <1>1, <1>2, <1>6, <2>1, <2>2, <2>3, <2>4, StopGoesOn
<1> QED
  BY <1>4, <1>5, <1>6 DEF U!Quit

\* CloseFile.
LEMMA CloseFileKeeps ==
    ASSUME UeInv, EndedOnce, NEW c \in U!Caller, U!CloseFile(c)
    PROVE  UeInv'
<1> USE CallerIs
<1>1. /\ at[c].step = "close" /\ at[c].step \in StopSteps /\ at[c].op \in {"Start", "Stop"}
      /\ U!Goto(c, "stopped") /\ closed' = TRUE
      /\ file' = IF closed \/ file = "empty" THEN file ELSE IF file = "open" THEN "closed" ELSE "broken"
      /\ UNCHANGED <<mode, client, holder, dict, count, sut, ues, on, socket, poll>>
  BY UeStepIs DEF UeInv, U!CloseFile, U!sutVars, U!bounds, StopSteps
<1>2. /\ NoneStarted /\ poll = "none" /\ socket # "open"
      /\ at[c].step \in LaunchSteps /\ at[c].step \in HeldSteps
  BY <1>1 DEF UeInv, Subscribers, FileClosed, LaunchSteps, HeldSteps
<1>3. file \in {"closed", "broken"} => closed /\ \A d \in Client : client[d] = "gone"
  BY <1>1, <1>2, FileWas
<1>4. file' \in {"empty", "open", "closed", "broken"} /\ (file = "empty" <=> file' = "empty")
  BY <1>1, <1>3 DEF UeInv, FileClosed
<1>5. UeTypes'
  BY <1>1 DEF UeInv, UeTypes
<1>6. CASE at[c].op = "Start"
  <2>1. c \in Client /\ file' = file
    BY <1>1, <1>2, <1>6, UeStepIs DEF UeInv, EndedOnce
  <2> QED
    BY <1>1, <1>2, <1>6, <2>1, LaunchGoesOn DEF UeInv, UeTypes, UesRun, LaunchSteps, StopSteps
<1>7. CASE at[c].op = "Stop"
  <2>1. "stopped" \in StopSteps /\ "stopped" \notin OffSteps
    BY DEF OffSteps, StopSteps
  <2>2. c \notin Client => \A d \in Client : client[d] = "gone"
    BY <1>7, StopIs
  <2>3. LeftOver' => LeftOver
    BY <1>1 DEF EndedOnce, LeftOver
  <2> QED
    BY <1>1, <1>2, <1>4, <1>5, <1>7, <2>1, <2>2, <2>3, StopGoesOn DEF UeInv, UesRun
<1> QED
  BY <1>1, <1>6, <1>7

\* Stopped.
LEMMA StoppedKeeps ==
    ASSUME UeInv, NEW c \in U!Caller, U!Stopped(c)
    PROVE  UeInv'
<1> USE CallerIs
<1>1. /\ at[c].step = "stopped" /\ at[c].step \in StopSteps /\ at[c].op \in {"Start", "Stop"}
      /\ UNCHANGED <<mode, dict, count, ues, closed, poll>>
  BY UeStepIs DEF UeInv, U!Stopped, U!bounds, StopSteps
<1>2. NoneStarted /\ poll = "none" /\ at[c].step \in LaunchSteps /\ at[c].step \in HeldSteps
  BY <1>1 DEF UeInv, Subscribers, FileClosed, LaunchSteps, HeldSteps
<1>3. CASE at[c].op = "Start"
  <2>1. U!Goto(c, "launch") /\ UNCHANGED <<client, holder, sut, on, socket, file>>
    BY <1>3 DEF U!Stopped
  <2>2. socket # "open" /\ c \in Client
    BY <1>1, <1>2, <1>3, UeStepIs DEF UeInv, FileClosed
  <2> QED
    BY <1>1, <1>2, <1>3, <2>1, <2>2, LaunchGoesOn DEF UeInv, UeTypes, UesRun, LaunchSteps
<1>4. CASE at[c].op = "Stop" /\ at[c].whose # c
  <2>1. U!Raise(c) /\ UNCHANGED <<sut, on, socket, file>>
    BY <1>4 DEF U!Stopped
  <2>2. c \notin Client
    BY <1>4, StopIs
  <2> QED
    BY <1>1, <1>2, <1>4, <2>1, <2>2, StopFails
<1>5. CASE at[c].op = "Stop" /\ at[c].whose = c
  <2>1. /\ U!Leave(c) /\ U!Reach(c, "out")
        /\ sut' = "none" /\ on' = {} /\ file' = "empty"
        /\ socket' = IF socket = "open" THEN "closed" ELSE socket
    BY <1>5 DEF U!Stopped
  <2>2. ~Started(c)
    BY <1>2 DEF NoneStarted, Started, UeInv, UeTypes
  <2>3. /\ CallTypes' /\ OneHolds' /\ Sessions'
        /\ at'[c].step = "idle" /\ at'[c].op = "none" /\ \A d \in U!Caller : d # c => at'[d] = at[d]
        /\ client' \in [Client -> {"out", "told", "on", "ending", "gone"}]
    BY <1>1, <1>5, <2>1, StopLeaves
  <2>4. Subscribers' /\ Numbers' /\ NoneStarted' = NoneStarted
    BY <1>1, <1>5, <2>1, <2>2, StopLeavesThem
  <2>5. socket' \in {"none", "open", "closed"} /\ socket' # "open"
    BY <2>1 DEF UeInv, UeTypes
  <2>6. UeTypes'
    BY <1>1, <2>1, <2>3, <2>5 DEF UeInv, UeTypes
  <2>7. SomebodyLeft'
    BY <1>1, <1>2, <2>1 DEF SomebodyLeft, LeftOver
  <2>8. \A d \in U!Caller : d # c => at'[d].step \notin HeldSteps
    BY <1>2, <2>3 DEF UeInv, OneHolds
  <2>9. UesRun'
    <3>1. \A d \in Client : at'[d].step # "alive"
      BY <2>3, <2>8 DEF HeldSteps
    <3> QED
      BY <2>1, <2>5, <3>1 DEF UesRun, U!StartedIsOn
  <2>10. FileClosed'
    BY <2>1, <2>3, <2>8, FileIs DEF LaunchSteps, StopSteps
  <2> QED
    BY <2>3, <2>4, <2>6, <2>7, <2>9, <2>10 DEF UeInv
<1> QED
  BY <1>1, <1>3, <1>4, <1>5

\* PoweredOff.
LEMMA PoweredOffKeeps ==
    ASSUME UeInv, NEW c \in U!Caller, U!PoweredOff(c)
    PROVE  UeInv'
<1> USE CallerIs
<1> DEFINE d == at[c].whose
           left == U!StillOn(d)
<1>1. /\ at[c].op = "Stop" /\ at[c].step = "off done" /\ at[c].step \in OffSteps /\ at[c].step \in HeldSteps
      /\ UNCHANGED <<mode, sut, ues, on, socket, file, closed, poll>>
  BY UeStepIs DEF UeInv, U!PoweredOff, U!sutVars, U!fileVars, U!bounds, OffSteps, HeldSteps
<1>2. d \in DOMAIN dict /\ d \in Client /\ Started(d) /\ file \notin {"closed", "broken"}
  BY <1>1 DEF UeInv, UeTypes, Subscribers, FileClosed, NoneStarted, Started
<1>3. /\ \A e \in Client : client[e] # "told" /\ at[e].step # "alive" /\ at[e].op # "Start"
      /\ c \in Client => d = c /\ client[c] \in {"on", "ending"}
      /\ c \notin Client => \A e \in Client : client[e] = "gone" /\ at[e].op = "none"
  BY <1>1, StopIs
<1>4. \A e \in Client : e \in left <=> Started(e) /\ e # d
  BY DEF U!StillOn, U!Known, Started
<1>5. left \subseteq Client
  BY DEF U!StillOn, U!Known, UeInv, UeTypes
<1>6. \A e \in U!Caller : e # c => at[e].step \notin HeldSteps
  BY <1>1 DEF UeInv, OneHolds
<1>7. (IF left = {} THEN dict' = <<>> /\ count' = 0 ELSE dict' = [dict EXCEPT ![d].started = FALSE] /\ UNCHANGED count)
  BY DEF U!PoweredOff
<1>8. \/ left = {} /\ U!Goto(c, "poll") /\ UNCHANGED <<client, holder>>
      \/ left # {} /\ c = d /\ U!Leave(c) /\ U!Reach(c, "out")
      \/ left # {} /\ c # d /\ (\E e \in left : at' = [at EXCEPT ![c].step = "off", ![c].whose = e])
         /\ UNCHANGED <<client, holder>>
  BY DEF U!PoweredOff
<1> HIDE DEF left
<1>9. CASE left = {}
  <2>1. dict' = <<>> /\ count' = 0 /\ U!Goto(c, "poll") /\ UNCHANGED <<client, holder>>
    BY <1>7, <1>8, <1>9
  <2>2. DOMAIN dict' = {} /\ dict' \in [DOMAIN dict' -> [id : Nat, started : BOOLEAN]]
    BY <2>1
  <2>3. CallTypes' /\ at'[c].step = "poll" /\ SameOp /\ \A e \in U!Caller : e # c => at'[e] = at[e]
    <3>1. "poll" \in StepsOf(at[c].op)
      BY <1>1, StepsAre DEF StopSteps
    <3> QED
      BY <2>1, <3>1, UeGoto DEF UeInv, SameOp
  <2>4. NoneStarted' /\ \A e \in U!Caller : e # c => at'[e].step \notin HeldSteps
    BY <1>6, <2>2, <2>3 DEF NoneStarted, Started
  <2>5. UeTypes'
    BY <1>1, <2>1, <2>2 DEF UeInv, UeTypes
  <2>6. OneHolds'
    BY <1>1, <2>1, <2>3 DEF UeInv, OneHolds
  <2>7. Sessions'
    BY <1>1, <2>1, <2>3, SessionsKept DEF UeInv
  <2>8. Numbers'
    BY <2>1, <2>2, FS_EmptySet DEF Numbers
  <2>9. \A e \in Client : mode # "simulator" => client[e] # "on" \/ at[e].op = "Stop"
    <3>1. ASSUME NEW e \in Client, mode # "simulator", client[e] = "on", at[e].op # "Stop" PROVE FALSE
      <4>1. Started(e) /\ e # d
        BY <1>1, <1>3, <3>1 DEF UeInv, Subscribers
      <4> QED
        BY <1>4, <1>9, <4>1
    <3> QED
      BY <3>1
  <2>10. Subscribers'
    <3>1. \A e \in U!Caller : at'[e].step \notin OffSteps
      BY <2>3, <2>4 DEF HeldSteps, OffSteps
    <3>2. \A e \in Client : at'[e].step = "new" => client[e] = "out"
      BY <2>3 DEF UeInv, Subscribers
    <3>3. \A e \in Client : ~Started(e)'
      BY <2>2 DEF Started
    <3> QED
      BY <1>1, <1>3, <2>1, <2>2, <2>3, <2>4, <2>9, <3>1, <3>2, <3>3 DEF Subscribers, SameOp
  <2>11. SomebodyLeft'
    BY <1>1, <1>3, <2>1, <2>3 DEF UeInv, SomebodyLeft, LeftOver, BusyWith, SameOp
  <2>12. UesRun'
    <3>1. \A e \in Client : at'[e].step # "alive"
      BY <2>3, <2>4 DEF HeldSteps
    <3> QED
      BY <1>1, <2>1, <2>2, <2>3, <2>9, <3>1 DEF UeInv, UesRun, U!StartedIsOn, SameOp
  <2>13. FileClosed'
    BY <1>1, <1>2, <2>3, <2>4, FileIs DEF UeInv, FileClosed, SameOp
  <2> QED
    BY <2>3, <2>5, <2>6, <2>7, <2>8, <2>10, <2>11, <2>12, <2>13 DEF UeInv
<1>10. CASE left # {}
  <2>1. /\ DOMAIN dict' = DOMAIN dict /\ dict' \in [DOMAIN dict -> [id : Nat, started : BOOLEAN]]
        /\ \A e \in DOMAIN dict : dict'[e].id = dict[e].id /\ (e # d => dict'[e] = dict[e])
        /\ ~dict'[d].started
    BY <1>2, <1>7, <1>10, DictChanged DEF UeInv
  <2>2. Numbers'
    BY <1>7, <1>10, <2>1, NumbersKept DEF UeInv
  <2>3. \A e \in Client : /\ Started(e)' <=> e \in left
                          /\ Started(e)' => Started(e)
    BY <1>2, <1>4, <2>1 DEF Started
  <2>4. PICK e \in left : TRUE
    BY <1>10
  <2>5. e \in Client /\ Started(e) /\ Started(e)' /\ e # d
    BY <1>4, <1>5, <2>3
  <2>6. client[e] \in {"on", "ending", "gone"}
    BY <1>3, <2>5 DEF UeInv, Subscribers
  <2>7. \A f \in Client : client[f] \in {"told", "on", "ending"} => f \in DOMAIN dict
    BY <2>5 DEF UeInv, Subscribers, NoneStarted
  <2>8. CASE c = d
    <3>1. U!Leave(c) /\ U!Reach(c, "out") /\ c \in Client
      BY <1>2, <1>8, <1>10, <2>8
    <3>2. /\ CallTypes' /\ OneHolds' /\ Sessions'
          /\ at'[c].step = "idle" /\ at'[c].op = "none" /\ \A f \in U!Caller : f # c => at'[f] = at[f]
          /\ client' \in [Client -> {"out", "told", "on", "ending", "gone"}]
          /\ client'[c] = "out"
          /\ \A f \in Client : f # c => client'[f] = client[f]
      BY <1>1, <3>1, StopLeaves
    <3>3. UeTypes'
      BY <1>1, <2>1, <3>2 DEF UeInv, UeTypes
    <3>4. \A f \in U!Caller : at'[f].step \notin HeldSteps
      BY <1>6, <3>2 DEF HeldSteps, LaunchSteps, StopSteps, OffSteps
    <3>5. Subscribers'
      <4>1. \A f \in U!Caller : at'[f].step \notin LaunchSteps /\ at'[f].step \notin OffSteps
        BY <3>4 DEF HeldSteps
      <4>2. \A f \in Client : Started(f)' => client'[f] \in {"on", "ending", "gone"}
        BY <1>3, <1>4, <2>3, <2>8, <3>2 DEF UeInv, Subscribers
      <4>3. \A f \in Client : mode # "simulator" /\ client'[f] = "on" /\ at'[f].op # "Stop" => Started(f)'
        BY <1>4, <2>3, <2>8, <3>2 DEF UeInv, Subscribers
      <4>4. \A f \in Client : /\ client'[f] # "told" /\ (client'[f] \in {"on", "ending"} => f \in DOMAIN dict)
                              /\ at'[f].step = "new" => client'[f] = "out" /\ f \notin DOMAIN dict
        BY <1>3, <2>7, <3>2 DEF UeInv, Subscribers
      <4> QED
        BY <1>1, <2>1, <4>1, <4>2, <4>3, <4>4 DEF UeInv, Subscribers
    <3>6. SomebodyLeft'
      BY <2>5, <2>6, <2>8, <3>2 DEF SomebodyLeft, BusyWith
    <3>7. UesRun'
      BY <1>1, <2>1, <3>2, <3>4 DEF UeInv, UesRun, U!StartedIsOn, U!Known, HeldSteps
    <3>8. FileClosed'
      BY <1>1, <1>2, <3>4, FileIs DEF UeInv, FileClosed, HeldSteps, LaunchSteps, StopSteps
    <3> QED
      BY <2>2, <3>2, <3>3, <3>5, <3>6, <3>7, <3>8 DEF UeInv
  <2>9. CASE c # d
    <3>1. c \notin Client /\ \A f \in Client : client[f] = "gone" /\ at[f].op = "none"
      BY <1>3, <2>9
    <3>2. PICK f \in left : at' = [at EXCEPT ![c].step = "off", ![c].whose = f]
      BY <1>8, <1>10, <2>9
    <3>3. UNCHANGED <<client, holder>> /\ f \in Client /\ Started(f)'
      BY <1>5, <1>8, <1>10, <2>3, <2>9
    <3>4. /\ [at[c] EXCEPT !.step = "off", !.whose = f] \in UeCall
          /\ [at[c] EXCEPT !.step = "off", !.whose = f].step = "off"
          /\ [at[c] EXCEPT !.step = "off", !.whose = f].op = "Stop"
          /\ [at[c] EXCEPT !.step = "off", !.whose = f].whose = f
      BY <1>1, <3>3 DEF UeInv, CallTypes, UeCall, UeStep, HeldSteps, OffSteps
    <3>5. /\ at' \in [U!Caller -> UeCall] /\ at'[c].step = "off" /\ at'[c].op = "Stop" /\ at'[c].whose = f
          /\ \A g \in U!Caller : g # c => at'[g] = at[g]
      BY <3>2, <3>4 DEF UeInv, CallTypes
    <3>6. CallTypes'
      BY <3>1, <3>5, StepsAre DEF UeInv, CallTypes, OffSteps
    <3>7. UeTypes'
      BY <1>1, <2>1, <3>3 DEF UeInv, UeTypes
    <3>8. OneHolds'
      BY <1>1, <3>3, <3>5 DEF UeInv, OneHolds
    <3>9. Sessions'
      BY <3>1, <3>3, <3>5 DEF Sessions
    <3>10. \A g \in U!Caller : g # c => at'[g].step \notin HeldSteps
      BY <1>6, <3>5
    <3>11. \A g \in Client : at'[g].step = "idle" /\ at'[g].op = "none"
      BY <3>1, <3>5, UeStepIs DEF UeInv
    <3>12. Subscribers'
      <4>1. \A g \in U!Caller : /\ at'[g].step \notin LaunchSteps
                                /\ at'[g].step \in OffSteps => g = c
        BY <3>5, <3>10 DEF HeldSteps, LaunchSteps, StopSteps, OffSteps
      <4>2. f \in DOMAIN dict' /\ dict'[f].started
        BY <3>3 DEF Started
      <4> QED
        BY <1>1, <2>1, <3>1, <3>3, <3>5, <3>11, <4>1, <4>2 DEF UeInv, Subscribers, Started
    <3>13. SomebodyLeft'
      BY <2>5, <2>6, <3>3 DEF SomebodyLeft, BusyWith
    <3>14. UesRun'
      BY <1>1, <2>1, <3>1, <3>3, <3>11 DEF UeInv, UesRun, U!StartedIsOn
    <3>15. FileClosed'
      BY <1>1, <1>2, <3>5, <3>10, FileIs DEF UeInv, FileClosed, LaunchSteps, StopSteps
    <3> QED
      BY <2>2, <3>6, <3>7, <3>8, <3>9, <3>12, <3>13, <3>14, <3>15 DEF UeInv
  <2> QED
    BY <2>8, <2>9
<1> QED
  BY <1>9, <1>10

-----------------------------------------------------------------------------
(* The UEs: the theorems.                                                  *)

\* The invariant holds initially.
LEMMA UeInvInit == U!Init => UeInv
<1> SUFFICES ASSUME U!Init PROVE UeInv
  OBVIOUS
<1> USE CallerIs
<1>1. /\ at = [c \in U!Caller |-> U!Idle] /\ client = [c \in Client |-> "out"] /\ holder = U!Nobody
      /\ dict = <<>> /\ count = 0 /\ sut = "none" /\ ues = 0 /\ on = {} /\ socket = "none"
      /\ file = "empty" /\ closed = TRUE /\ poll = "none"
  BY DEF U!Init
<1>2. U!Idle \in UeCall /\ U!Idle.step = "idle" /\ U!Idle.op = "none"
  BY DEF U!Idle, UeCall, UeStep, UeOp
<1>3. \A c \in U!Caller : at[c].step = "idle" /\ at[c].op = "none"
  BY <1>1, <1>2
<1>4. CallTypes
  BY <1>1, <1>2, <1>3, StepsAre DEF CallTypes
<1>5. DOMAIN dict = {} /\ dict \in [DOMAIN dict -> [id : Nat, started : BOOLEAN]]
  BY <1>1
<1>6. UeTypes
  BY <1>1, <1>5 DEF UeTypes
<1>7. OneHolds
  BY <1>3 DEF OneHolds, HeldSteps, LaunchSteps, StopSteps, OffSteps
<1>8. Sessions
  BY <1>1, <1>3 DEF Sessions
<1>9. Numbers
  BY <1>1, <1>5, FS_EmptySet DEF Numbers
<1>10. Subscribers
  BY <1>1, <1>3, <1>5 DEF Subscribers, NoneStarted, Started, LaunchSteps, StopSteps, OffSteps
<1>11. SomebodyLeft /\ UesRun
  BY <1>1, <1>3, <1>5 DEF SomebodyLeft, LeftOver, UesRun, U!StartedIsOn
<1>12. FileClosed
  BY <1>1, <1>3 DEF FileClosed
<1> QED
  BY <1>4, <1>6, <1>7, <1>8, <1>9, <1>10, <1>11, <1>12 DEF UeInv

\* Every step of a call keeps it ...
LEMMA UeCallsKeep ==
    ASSUME UeInv, NEW c \in Client,
           \/ U!CallGetDefinition(c) \/ U!NewSubscriber(c) \/ U!SameSubscriber(c)
           \/ U!Starts(c) \/ U!Attaches(c)
    PROVE  UeInv'
<1>1. CASE U!Starts(c)
  BY <1>1, CallStartKeeps, StartLockedKeeps, TweakKeeps, LaunchKeeps, LicenseKeeps, ConnectKeeps,
     CellsReadyKeeps, PowerOnKeeps, CheckAliveKeeps, Zenon DEF U!Starts
<1> QED
  BY <1>1, CallGetDefinitionKeeps, NewSubscriberKeeps, SameSubscriberKeeps, AskKeeps, SaveKeeps, Zenon
     DEF U!Attaches

\* ... and every step of a Stop.
LEMMA UeStopsKeep ==
    ASSUME UeInv, EndedOnce, NEW c \in U!Caller, U!Stops(c)
    PROVE  UeInv'
  BY CallStopKeeps, StopLockedKeeps, PowerOffKeeps, ForceOffKeeps, PoweredOffKeeps, StopPollKeeps,
     PollStoppedKeeps, QuitKeeps, CloseFileKeeps, StoppedKeeps, Zenon DEF U!Stops

\* What is to be shown of the end after a step of one call that writes none.
LEMMA EndKept ==
    ASSUME EndedOnce, NEW c \in U!Caller, \A d \in U!Caller : d # c => at'[d] = at[d],
           closed' = closed, sut # "none" => sut' # "none", socket # "none" => socket' # "none",
           at'[c].step = "stopped" => closed,
           at'[c].op = "Start" /\ at'[c].step \in LaunchSteps \ {"cells"} => closed
    PROVE  EndedOnce'
  BY DEF EndedOnce

\* A call that goes on does so at s, and one that ends or begins is at none of the
\* steps that matter.
LEMMA EndOfMove ==
    ASSUME UeInv, EndedOnce, NEW c \in U!Caller, NEW s \in StepsOf(at[c].op), U!Goto(c, s),
           closed' = closed, sut # "none" => sut' # "none", socket # "none" => socket' # "none",
           s = "stopped" => closed,
           at[c].op = "Start" /\ s \in LaunchSteps \ {"cells"} => closed
    PROVE  EndedOnce'
  BY UeGoto, EndKept DEF UeInv

LEMMA EndOfReturn ==
    ASSUME UeInv, EndedOnce, NEW c \in U!Caller, U!Leave(c),
           closed' = closed, sut # "none" => sut' # "none", socket # "none" => socket' # "none"
    PROVE  EndedOnce'
  BY UeLeave, EndKept DEF UeInv, LaunchSteps, StopSteps

LEMMA EndOfEntry ==
    ASSUME UeInv, EndedOnce, NEW c \in U!Caller, NEW op \in UeOp, NEW s \in StepsOf(op), U!Enter(c, s, op),
           c = U!Agent => op = "Stop", s \in {"known", "new", "start", "stop"},
           UNCHANGED <<sut, socket, closed>>
    PROVE  EndedOnce'
  BY UeEnter, EndKept DEF UeInv, LaunchSteps, StopSteps

\* GetDefinition.
LEMMA EndOfDefinition ==
    ASSUME UeInv, EndedOnce, NEW c \in Client,
           U!CallGetDefinition(c) \/ U!NewSubscriber(c) \/ U!SameSubscriber(c)
    PROVE  EndedOnce'
<1> USE CallerIs
<1>1. UNCHANGED <<sut, socket, closed>>
  BY DEF U!CallGetDefinition, U!NewSubscriber, U!SameSubscriber, U!sutVars, U!fileVars
<1>2. CASE UNCHANGED at
  BY <1>1, <1>2 DEF EndedOnce
<1>3. CASE \E s \in {"known", "new"} : U!Enter(c, s, "GetDefinition")
  BY <1>1, <1>3, EndOfEntry, StepsAre DEF UeOp
<1>4. CASE U!Leave(c)
  BY <1>1, <1>4, EndOfReturn
<1> QED
  BY <1>2, <1>3, <1>4 DEF U!CallGetDefinition, U!NewSubscriber, U!SameSubscriber

\* Start.
LEMMA EndOfStart ==
    ASSUME UeInv, EndedOnce, NEW c \in Client, U!Starts(c)
    PROVE  EndedOnce'
<1> USE CallerIs
<1>1. CASE U!CallStart(c)
  <2>1. U!Enter(c, "start", "Start") /\ UNCHANGED <<sut, socket, closed>>
    BY <1>1 DEF U!CallStart, U!sutVars, U!fileVars
  <2> QED
    BY <2>1, EndOfEntry, StepsAre DEF UeOp
<1>2. CASE U!StartLocked(c)
  <2> DEFINE s == IF U!AnyStarted THEN "power" ELSE IF mode = "remote" THEN "tweak" ELSE "poll"
  <2>1. at[c].op = "Start" /\ at[c].step = "start" /\ U!Goto(c, s) /\ UNCHANGED <<sut, socket, closed>>
    BY <1>2, UeStepIs DEF UeInv, U!StartLocked, U!sutVars, U!fileVars
  <2>2. U!AnyStarted <=> ~NoneStarted
    BY DEF UeInv, UeTypes, U!AnyStarted, U!Known, NoneStarted, Started
  <2>3. s \in {"power", "tweak", "poll"} /\ s \in StepsOf(at[c].op)
    BY <2>1, StepsAre DEF LaunchSteps, StopSteps
  <2>4. s # "power" => closed
    BY <2>1, <2>2, NothingLeftOver DEF LeftOver, EndedOnce
  <2> HIDE DEF s
  <2> QED
    BY <2>1, <2>3, <2>4, EndOfMove DEF LaunchSteps, StopSteps
<1>3. CASE U!Tweak(c)
  <2>1. at[c].op = "Start" /\ at[c].step = "tweak" /\ U!Goto(c, "poll") /\ UNCHANGED <<sut, socket, closed>>
    BY <1>3, UeStepIs DEF UeInv, U!Tweak, U!sutVars, U!fileVars
  <2>2. closed /\ "poll" \in StepsOf(at[c].op)
    BY <2>1, StepsAre DEF EndedOnce, LaunchSteps, StopSteps
  <2> QED
    BY <2>1, <2>2, EndOfMove
<1>4. CASE U!Launch(c)
  <2>1. at[c].op = "Start" /\ at[c].step = "launch" /\ closed' = closed
    BY <1>4, UeStepIs DEF UeInv, U!Launch, U!fileVars
  <2>2. closed /\ "license" \in StepsOf(at[c].op)
    BY <2>1, StepsAre DEF EndedOnce, LaunchSteps, StopSteps
  <2>3. CASE U!Raise(c) /\ UNCHANGED <<sut, socket>>
    BY <2>1, <2>3, EndOfReturn DEF U!Raise
  <2>4. CASE /\ U!Goto(c, "license") /\ sut' = "up"
             /\ socket' = IF socket = "open" THEN "closed" ELSE socket
    BY <2>1, <2>2, <2>4, EndOfMove
  <2> QED
    BY <1>4, <2>3, <2>4 DEF U!Launch, U!sutVars
<1>5. CASE U!License(c)
  <2>1. at[c].op = "Start" /\ at[c].step = "license" /\ UNCHANGED <<sut, socket, closed>>
    BY <1>5, UeStepIs DEF UeInv, U!License, U!sutVars, U!fileVars
  <2>2. closed /\ {"connect", "tweak", "poll"} \subseteq StepsOf(at[c].op)
    BY <2>1, StepsAre DEF EndedOnce, LaunchSteps, StopSteps
  <2>3. CASE U!Raise(c)
    BY <2>1, <2>3, EndOfReturn DEF U!Raise
  <2>4. CASE \E s \in {"connect", "tweak", "poll"} : U!Goto(c, s)
    BY <2>1, <2>2, <2>4, EndOfMove
  <2> QED
    BY <1>5, <2>3, <2>4 DEF U!License
<1>6. CASE U!Connect(c)
  <2>1. at[c].op = "Start" /\ at[c].step = "connect" /\ at[c].step \in HeldSteps /\ sut' = sut
    BY <1>6, UeStepIs DEF UeInv, U!Connect, HeldSteps, LaunchSteps
  <2>2. CASE U!Raise(c) /\ UNCHANGED <<socket, closed>>
    BY <2>1, <2>2, EndOfReturn DEF U!Raise
  <2>3. CASE sut = "up" /\ socket' = "open" /\ U!Goto(c, "cells")
    <3>1. "cells" \in StepsOf(at[c].op)
      BY <2>1, StepsAre DEF LaunchSteps
    <3>2. at'[c].step = "cells" /\ \A d \in U!Caller : d # c => at'[d] = at[d]
      BY <2>3, <3>1, UeGoto DEF UeInv
    <3>3. \A d \in U!Caller : d # c => at[d].step \notin HeldSteps
      BY <2>1 DEF UeInv, OneHolds
    <3> QED
      BY <2>1, <2>3, <3>2, <3>3 DEF EndedOnce, HeldSteps, LaunchSteps, StopSteps
  <2> QED
    BY <1>6, <2>2, <2>3 DEF U!Connect
<1>7. CASE U!CellsReady(c) \/ U!PowerOn(c) \/ U!CheckAlive(c)
  <2>1. at[c].op = "Start" /\ UNCHANGED <<sut, socket, closed>>
    BY <1>7, UeStepIs DEF UeInv, U!CellsReady, U!PowerOn, U!CheckAlive, U!sutVars, U!fileVars
  <2>2. {"power", "alive"} \subseteq StepsOf(at[c].op)
    BY <2>1, StepsAre
  <2>3. CASE U!Leave(c)
    BY <2>1, <2>3, EndOfReturn
  <2>4. CASE \E s \in {"power", "alive"} : U!Goto(c, s)
    BY <2>1, <2>2, <2>4, EndOfMove DEF LaunchSteps, StopSteps
  <2> QED
    BY <1>7, <2>3, <2>4 DEF U!CellsReady, U!PowerOn, U!CheckAlive, U!Raise
<1> QED
  BY <1>1, <1>2, <1>3, <1>4, <1>5, <1>6, <1>7 DEF U!Starts

\* Stop.
LEMMA EndOfStop ==
    ASSUME UeInv, EndedOnce, NEW c \in U!Caller, U!Stops(c)
    PROVE  EndedOnce'
<1> USE CallerIs
<1>1. CASE U!CallStop(c)
  <2>1. U!Enter(c, "stop", "Stop") /\ UNCHANGED <<sut, socket, closed>>
    BY <1>1 DEF U!CallStop, U!sutVars, U!fileVars
  <2> QED
    BY <2>1, EndOfEntry, StepsAre DEF UeOp
<1>2. CASE U!StopLocked(c) \/ U!PoweredOff(c)
  <2>1. at[c].op = "Stop" /\ UNCHANGED <<sut, socket, closed>>
    BY <1>2, UeStepIs DEF UeInv, U!StopLocked, U!PoweredOff, U!sutVars, U!fileVars, OffSteps
  <2>2. CASE U!Leave(c)
    BY <2>1, <2>2, EndOfReturn
  <2>3. CASE U!Goto(c, "poll")
    <3>1. "poll" \in StepsOf(at[c].op)
      BY <2>1, StepsAre DEF StopSteps
    <3> QED
      BY <2>1, <2>3, <3>1, EndOfMove
  <2>4. CASE \E d : \E s \in {"off", "poll"} : at' = [at EXCEPT ![c].step = s, ![c].whose = d]
    <3>1. at \in [U!Caller -> UeCall] /\ at[c] \in UeCall
      BY DEF UeInv, CallTypes
    <3>2. /\ \A d \in U!Caller : d # c => at'[d] = at[d]
          /\ at'[c].op = "Stop" /\ at'[c].step \in {"off", "poll"}
      BY <2>1, <2>4, <3>1 DEF UeCall
    <3> QED
      BY <2>1, <3>2, EndKept
  <2> QED
    BY <1>2, <2>2, <2>3, <2>4 DEF U!StopLocked, U!PoweredOff
<1>3. CASE U!PowerOff(c) \/ U!ForceOff(c)
  <2>1. at[c].op = "Stop" /\ UNCHANGED <<sut, socket, closed>>
    BY <1>3, UeStepIs DEF UeInv, U!PowerOff, U!ForceOff, OffSteps
  <2>2. {"force", "off done"} \subseteq StepsOf(at[c].op)
    BY <2>1, StepsAre DEF OffSteps
  <2>3. CASE U!Leave(c)
    BY <2>1, <2>3, EndOfReturn
  <2>4. CASE \E s \in {"force", "off done"} : U!Goto(c, s)
    BY <2>1, <2>2, <2>4, EndOfMove
  <2> QED
    BY <1>3, <2>3, <2>4 DEF U!PowerOff, U!ForceOff, U!Raise
<1>4. CASE U!StopPoll(c)
  <2>1. at[c].step = "poll" /\ U!Goto(c, "join") /\ UNCHANGED <<sut, socket, closed>>
    BY <1>4 DEF U!StopPoll, U!TellPoll, U!sutVars
  <2>2. at[c].op \in {"Start", "Stop"} /\ "join" \in StepsOf(at[c].op)
    BY <2>1, UeStepIs, StepsAre DEF UeInv, LaunchSteps, StopSteps
  <2>3. at[c].op = "Start" => closed
    BY <2>1 DEF EndedOnce, LaunchSteps, StopSteps
  <2> QED
    BY <2>1, <2>2, <2>3, EndOfMove
<1>5. CASE U!PollStopped(c)
  <2> DEFINE s == IF sut # "none" /\ socket # "none" THEN "quit" ELSE "stopped"
  <2>1. at[c].step = "join" /\ U!Goto(c, s) /\ UNCHANGED <<sut, socket, closed>>
    BY <1>5 DEF U!PollStopped, U!Joined, U!sutVars, U!fileVars
  <2>2. at[c].op \in {"Start", "Stop"} /\ s \in StepsOf(at[c].op)
    BY <2>1, UeStepIs, StepsAre DEF UeInv, LaunchSteps, StopSteps
  <2>3. (at[c].op = "Start" => closed) /\ (s = "stopped" => closed)
    BY <2>1 DEF EndedOnce, LaunchSteps, StopSteps
  <2> HIDE DEF s
  <2> QED
    BY <2>1, <2>2, <2>3, EndOfMove
<1>6. CASE U!Quit(c)
  <2>1. at[c].step = "quit" /\ closed' = closed
    BY <1>6 DEF U!Quit
  <2>2. at[c].op \in {"Start", "Stop"} /\ "close" \in StepsOf(at[c].op)
    BY <2>1, UeStepIs, StepsAre DEF UeInv, LaunchSteps, StopSteps
  <2>3. at[c].op = "Start" => closed
    BY <2>1 DEF EndedOnce, LaunchSteps, StopSteps
  <2>4. (sut' = sut \/ sut' = "dead") /\ (socket' = socket \/ socket' = "closed")
    BY <1>6 DEF U!Quit
  <2>5. CASE U!Leave(c)
    BY <2>1, <2>4, <2>5, EndOfReturn
  <2>6. CASE U!Goto(c, "close")
    BY <2>1, <2>2, <2>3, <2>4, <2>6, EndOfMove
  <2> QED
    BY <1>6, <2>5, <2>6 DEF U!Quit, U!Raise
<1>7. CASE U!CloseFile(c)
  BY <1>7 DEF U!CloseFile, EndedOnce
<1>8. CASE U!Stopped(c)
  <2>1. at[c].step = "stopped" /\ closed' = closed /\ closed
    BY <1>8 DEF U!Stopped, EndedOnce
  <2>2. at[c].op \in {"Start", "Stop"} /\ (at[c].op = "Start" => "launch" \in StepsOf(at[c].op))
    BY <2>1, UeStepIs, StepsAre DEF UeInv, LaunchSteps, StopSteps
  <2> QED
    BY <2>1 DEF EndedOnce
<1> QED
  BY <1>1, <1>2, <1>3, <1>4, <1>5, <1>6, <1>7, <1>8 DEF U!Stops

\* Every step keeps the end.
LEMMA EndedOnceNext == UeInv /\ EndedOnce /\ [U!Next]_ueVars => EndedOnce'
<1> SUFFICES ASSUME UeInv, EndedOnce, [U!Next]_ueVars PROVE EndedOnce'
  OBVIOUS
<1> USE CallerIs
<1>1. CASE UNCHANGED ueVars
  BY <1>1 DEF ueVars, EndedOnce
<1>2. CASE U!CallLastStop
  <2>1. U!Enter(U!Agent, "stop", "Stop") /\ UNCHANGED <<sut, socket, closed>>
    BY <1>2 DEF U!CallLastStop, U!sutVars, U!fileVars
  <2> QED
    BY <2>1, EndOfEntry, StepsAre DEF UeOp
<1>3. CASE U!PollAsks \/ U!PollSaves \/ U!PollEnds \/ \E c \in Client : U!Attaches(c)
  BY <1>3 DEF U!PollAsks, U!PollSaves, U!PollEnds, U!Attaches, U!CallWait, U!Ask, U!Save, U!callVars,
              U!sutVars, U!fileVars, EndedOnce
<1>4. CASE U!SutDies
  BY <1>4 DEF U!SutDies, U!callVars, U!fileVars, EndedOnce
<1> QED
  BY <1>1, <1>2, <1>3, <1>4, EndOfDefinition, EndOfStart, EndOfStop DEF U!Next

\* Every step of the driver keeps the invariant.
LEMMA UeInvNext == UeInv /\ EndedOnce /\ [U!Next]_ueVars => UeInv' /\ EndedOnce'
<1> SUFFICES ASSUME UeInv, EndedOnce, [U!Next]_ueVars PROVE UeInv'
  BY EndedOnceNext
<1>1. CASE UNCHANGED ueVars
  BY <1>1, UeFrame DEF ueVars
<1>2. CASE U!Next
  BY <1>2, UeCallsKeep, UeStopsKeep, CallLastStopKeeps, PollKeeps, SutDiesKeeps, Zenon DEF U!Next
<1> QED
  BY <1>1, <1>2

\* A client waits, or has an answer, in one call at a time.
Waits == pending \in [Client -> {"none", "asks", "has"}]
LEMMA WaitsNext == Waits /\ [U!Next]_ueVars => Waits'
<1> SUFFICES ASSUME Waits, [U!Next]_ueVars PROVE Waits'
  OBVIOUS
<1>1. CASE UNCHANGED pending
  BY <1>1 DEF Waits
<1>2. CASE \E c \in Client : U!Attaches(c)
  <2>1. PICK c \in Client : \E next \in {"none", "asks", "has"} : pending' = [pending EXCEPT ![c] = next]
    BY <1>2 DEF U!Attaches, U!CallWait, U!Ask, U!Save
  <2> QED
    BY <2>1 DEF Waits
<1> QED
  BY <1>1, <1>2 DEF U!Next, ueVars

\* The invariant holds in every state of the driver.
UeSafe == kind = "ue" => UeInv /\ EndedOnce /\ Waits
LEMMA UeInvariance == MCSpec => []UeSafe
<1>1. MCInit => UeSafe
  <2>1. U!Init => EndedOnce /\ Waits
    BY DEF U!Init, EndedOnce, U!Idle, Waits
  <2> QED
    BY <2>1, UeInvInit DEF MCInit, UeSafe
<1>2. UeSafe /\ [MCNext]_<<reportVars, ueVars, wsVars, coreVars, execVars, attachVars, viaviVars, reportsVars>>
      => UeSafe'
  <2> SUFFICES ASSUME UeSafe, kind' = "ue",
                      [MCNext]_<<reportVars, ueVars, wsVars, coreVars, execVars, attachVars, viaviVars,
                                 reportsVars>>
               PROVE  UeInv' /\ EndedOnce' /\ Waits'
    BY DEF UeSafe
  <2>1. CASE MCNext
    BY <2>1, StepOfUe, UeInvNext, WaitsNext DEF UeSafe
  <2>2. CASE UNCHANGED <<reportVars, ueVars, wsVars, coreVars, execVars, attachVars, viaviVars, reportsVars>>
    <3>1. kind' = kind /\ UNCHANGED ueVars
      BY <2>2 DEF reportVars
    <3> QED
      BY <3>1, UeInvNext, WaitsNext DEF UeSafe
  <2> QED
    BY <2>1, <2>2
<1> QED
  BY <1>1, <1>2, PTL DEF MCSpec

\* The UE of a client whose Start has returned is on until its own Stop or the death of
\* the process, for any number of clients, processes and timeouts.
THEOREM UesStayOn == MCSpec => []StartedIsOn
<1>1. UeSafe => StartedIsOn
  BY DEF UeSafe, StartedIsOn, UeInv, UesRun
<1> QED
  BY <1>1, UeInvariance, PTL

\* Who writes the metrics other than a wait finds no end of them: a connection or the
\* thread that polls is there, and the end is written where there was none.
LEMMA EndIsKept ==
    ASSUME UeInv, EndedOnce, U!Next, file # "broken", file' = "broken"
    PROVE  \E c \in Client : U!Save(c)
<1>1. CASE \E c \in U!Caller : U!PowerOff(c) \/ U!ForceOff(c) \/ U!Quit(c)
  <2>1. socket = "open" /\ file' = U!Appended
    BY <1>1 DEF U!PowerOff, U!ForceOff, U!Quit
  <2> QED
    BY <2>1 DEF U!Appended, UeInv, FileClosed
<1>2. CASE \E c \in U!Caller : U!CloseFile(c)
  <2>1. file' = IF closed \/ file = "empty" THEN file ELSE IF file = "open" THEN "closed" ELSE "broken"
    BY <1>2 DEF U!CloseFile
  <2> QED
    BY <2>1 DEF UeInv, FileClosed
<1>3. CASE \E c \in U!Caller : U!Stopped(c)
  BY <1>3 DEF U!Stopped
<1>4. CASE U!PollSaves
  <2>1. poll # "none" /\ file' = U!Appended
    BY <1>4 DEF U!PollSaves
  <2> QED
    BY <2>1 DEF U!Appended, UeInv, FileClosed
<1>5. CASE \E c \in Client : U!Attaches(c)
  BY <1>5 DEF U!Attaches, U!CallWait, U!Ask, U!fileVars
<1>6. CASE \/ U!CallLastStop \/ U!PollAsks \/ U!PollEnds \/ U!SutDies
           \/ \E c \in Client : U!CallGetDefinition(c) \/ U!NewSubscriber(c) \/ U!SameSubscriber(c) \/ U!Starts(c)
  <2>1. file' = file
    BY <1>6 DEF U!CallLastStop, U!PollAsks, U!PollEnds, U!SutDies, U!CallGetDefinition, U!NewSubscriber,
                U!SameSubscriber, U!Starts, U!CallStart, U!StartLocked, U!Tweak, U!Launch, U!License,
                U!Connect, U!CellsReady, U!PowerOn, U!CheckAlive, U!fileVars
  <2> QED
    BY <2>1
<1>7. CASE \E c \in U!Caller : U!CallStop(c) \/ U!StopLocked(c) \/ U!PoweredOff(c) \/ U!StopPoll(c) \/ U!PollStopped(c)
  <2>1. file' = file
    BY <1>7 DEF U!CallStop, U!StopLocked, U!PoweredOff, U!StopPoll, U!PollStopped, U!fileVars
  <2> QED
    BY <2>1
<1> QED
  BY <1>1, <1>2, <1>3, <1>4, <1>5, <1>6, <1>7, Zenon DEF U!Next, U!Stops

\* After the end of the metrics nothing is written by the thread that polls, nor by the
\* Start or Stop of anybody, and no second end: only an attach that had its answer before
\* the connection ended writes.  For any number of clients, processes and timeouts.
THEOREM MetricsStayJson == MCSpec => FileStaysJson
<1>1. UeSafe /\ [MCNext]_<<reportVars, ueVars, wsVars, coreVars, execVars, attachVars, viaviVars, reportsVars>>
      => [kind = "ue" => U!EndsOnce]_ueVars
  <2> SUFFICES ASSUME UeInv, EndedOnce, Waits, MCNext, kind = "ue", file # "broken", file' = "broken"
               PROVE  \E c \in Client : U!Spoils(c)
    BY DEF UeSafe, U!EndsOnce
  <2>1. kind' = kind /\ U!Next
    BY KindsAssumption DEF MCNext, Others, reportVars, Drivers
  <2>2. PICK c \in Client : U!Save(c)
    BY <2>1, EndIsKept
  <2>3. pending[c] = "has" /\ file' = U!Appended
    BY <2>2 DEF U!Save
  <2>4. \E n \in {"none", "asks"} : pending' = [pending EXCEPT ![c] = n]
    BY <2>2 DEF U!Save
  <2>5. pending'[c] # "has"
    BY <2>3, <2>4 DEF Waits
  <2>6. socket # "open"
    BY <2>3 DEF U!Appended, UeInv, FileClosed
  <2> QED
    BY <2>3, <2>5, <2>6 DEF U!Spoils
<1> QED
  BY <1>1, UeInvariance, PTL DEF MCSpec, FileStaysJson
==============================================================================
