------------------------------ MODULE AmarisoftWs ------------------------------
(***************************************************************************)
(* The connection to a program of Amarisoft (AmarisoftWebSocket of         *)
(* agent/drivers/amarisoft_ws.py), shared by the threads of a driver.      *)
(*                                                                         *)
(* A command carries a number of its own, and its answer repeats it: a     *)
(* thread that reads the socket puts the answer in the queue of that       *)
(* number, where the caller waits.  Events come on the same socket; they   *)
(* carry a number too, which is a value of the radio and means nothing     *)
(* here.                                                                   *)
(***************************************************************************)
EXTENDS Naturals, FiniteSets, Sequences

CONSTANTS
    Thread,       \* the threads that send commands
    EventIds,     \* numbers that events carry
    MaxTurns,     \* bound: calls of each thread
    MaxCommands,  \* bound: commands sent
    MaxEvents     \* bound: events sent

VARIABLES
    at,           \* what each thread is doing, and its number
    counter,      \* _msg_id_counter
    queues,       \* _queue_dict
    handler,      \* whether the event is in _event_handlers
    counts,       \* _event_counts
    connected,    \* _ws.connected
    reader,       \* _read_thread, and the message it has read
    asked,        \* the commands the program has not answered yet
    told,         \* the program sends events
    wire,         \* its messages on the way
    events,       \* sent so far
    got           \* the last answer that each thread was given

wsVars == <<at, counter, queues, handler, counts, connected, reader, asked, told, wire, events, got>>

\* A message of the program: the answer to a command, which is known by its
\* sender and its turn, or an event.
Answer(n, command) == [kind |-> "answer", id |-> n, to |-> command]
Event(n) == [kind |-> "event", id |-> n, to |-> <<>>]
None == [kind |-> "none", id |-> 0, to |-> <<>>]

Free == [step |-> "free", id |-> 0, turn |-> 0, op |-> "none"]

Init ==
    /\ at = [t \in Thread |-> Free]
    /\ counter = 0 /\ queues = <<>>
    /\ handler = FALSE /\ counts = 0
    /\ connected = TRUE /\ reader = None
    /\ asked = {} /\ told = FALSE /\ wire = <<>> /\ events = 0
    /\ got = [t \in Thread |-> None]

Number == DOMAIN queues
This(t) == <<t, at[t].turn>>

Goto(t, step) == at' = [at EXCEPT ![t].step = step]
Return(t) == at' = [at EXCEPT ![t] = [Free EXCEPT !.turn = at[t].turn]]

-----------------------------------------------------------------------------
(* send_command_and_wait_response.                                         *)

\* A closed socket answers {}.  register_event adds the handler, then sends its
\* command.
Call(t, op) ==
    /\ at[t].step = "free" /\ at[t].turn < MaxTurns
    /\ op = "register" => ~told /\ \A u \in Thread : at[u].op # "register"
    /\ handler' = (handler \/ op = "register")
    /\ got' = [got EXCEPT ![t] = None]
    /\ at' = [at EXCEPT ![t] = [step |-> IF connected THEN "number" ELSE "free", id |-> 0,
                                turn |-> @.turn + 1, op |-> IF connected THEN op ELSE "none"]]
    /\ UNCHANGED <<counter, queues, counts, connected, reader, asked, told, wire, events>>

\* _send_command, with the lock of the socket.
NextNumber(t) == counter + 1

TakeNumber(t) ==
    /\ at[t].step = "number" /\ counter < MaxCommands
    /\ counter' = counter + 1
    /\ at' = [at EXCEPT ![t].step = "queue", ![t].id = NextNumber(t)]
    /\ UNCHANGED <<queues, handler, counts, connected, reader, asked, told, wire, events, got>>

MakeQueue(t) ==
    /\ at[t].step = "queue"
    /\ queues' = [n \in Number \cup {at[t].id} |-> IF n \in Number THEN queues[n] ELSE <<>>]
    /\ Goto(t, "send")
    /\ UNCHANGED <<counter, handler, counts, connected, reader, asked, told, wire, events, got>>

\* A socket that has been closed meanwhile raises.
Send(t) ==
    /\ at[t].step = "send"
    /\ IF connected
       THEN asked' = asked \cup {[id |-> at[t].id, by |-> This(t), op |-> at[t].op]} /\ Goto(t, "wait")
       ELSE Return(t) /\ UNCHANGED asked
    /\ UNCHANGED <<counter, queues, handler, counts, connected, reader, told, wire, events, got>>

\* _wait_response_with_id: the answer, or after the time TimeoutError.  quit
\* closes the socket when it has been answered.
Receive(t) ==
    /\ at[t].step = "wait" /\ queues[at[t].id] # <<>>
    /\ got' = [got EXCEPT ![t] = Head(queues[at[t].id])]
    /\ queues' = [queues EXCEPT ![at[t].id] = Tail(@)]
    /\ IF at[t].op = "quit" THEN Goto(t, "close") ELSE Return(t)
    /\ UNCHANGED <<counter, handler, counts, connected, reader, asked, told, wire, events>>

TimesOut(t) ==
    /\ at[t].step = "wait"
    /\ Return(t)
    /\ UNCHANGED <<counter, queues, handler, counts, connected, reader, asked, told, wire, events, got>>

\* close joins the thread that reads.
Close(t) ==
    /\ at[t].step = "close"
    /\ connected' = FALSE /\ wire' = <<>> /\ asked' = {}
    /\ Goto(t, "join")
    /\ UNCHANGED <<counter, queues, handler, counts, reader, told, events, got>>

Closed(t) ==
    /\ at[t].step = "join" /\ reader = None
    /\ Return(t)
    /\ UNCHANGED <<counter, queues, handler, counts, connected, reader, asked, told, wire, events, got>>

-----------------------------------------------------------------------------
(* _read.                                                                  *)

Read ==
    /\ connected /\ reader = None /\ wire # <<>>
    /\ reader' = Head(wire) /\ wire' = Tail(wire)
    /\ UNCHANGED <<at, counter, queues, handler, counts, connected, asked, told, events, got>>

\* Variant for the mutation runs: a message is an event when nobody waits for
\* its number.
NotAnAnswer(m) == handler /\ m.kind = "event" /\ m.id \notin Number

\* _count_if_event, with its lock.
IsEvent(m) == handler /\ m.kind = "event"

\* An event is counted; anything else goes to the queue of its number, if there
\* is one.
Route ==
    /\ reader # None
    /\ counts' = IF IsEvent(reader) THEN counts + 1 ELSE counts
    /\ queues' = [n \in Number |-> IF ~IsEvent(reader) /\ n = reader.id THEN Append(queues[n], reader) ELSE queues[n]]
    /\ reader' = None
    /\ UNCHANGED <<at, counter, handler, connected, asked, told, wire, events, got>>

-----------------------------------------------------------------------------
(* The program at the other end: it answers in any order, or too late, sends *)
(* events when it has been asked to, and may die.                          *)

Reply(r) ==
    /\ asked' = asked \ {r}
    /\ told' = (told \/ r.op = "register")
    /\ wire' = Append(wire, Answer(r.id, r.by))
    /\ UNCHANGED <<at, counter, queues, handler, counts, connected, reader, events, got>>

Happens(n) ==
    /\ told /\ connected /\ events < MaxEvents
    /\ events' = events + 1
    /\ wire' = Append(wire, Event(n))
    /\ UNCHANGED <<at, counter, queues, handler, counts, connected, reader, asked, told, got>>

Dies ==
    /\ connected
    /\ connected' = FALSE /\ wire' = <<>> /\ asked' = {}
    /\ UNCHANGED <<at, counter, queues, handler, counts, reader, told, events, got>>

Next ==
    \/ \E t \in Thread : \/ \E op \in {"command", "register", "quit"} : Call(t, op)
                         \/ TakeNumber(t) \/ MakeQueue(t) \/ Send(t) \/ Receive(t)
                         \/ TimesOut(t) \/ Close(t) \/ Closed(t)
    \/ Read \/ Route
    \/ \E r \in asked : Reply(r)
    \/ \E n \in EventIds : Happens(n)
    \/ Dies

Spec == Init /\ [][Next]_wsVars

-----------------------------------------------------------------------------
(* Properties.                                                             *)

\* Whatever the order of answers and events, after a timeout too, a call returns
\* the answer to the command it sent.
AnswersAreOwn == \A t \in Thread : got[t] = None \/ got[t] = Answer(got[t].id, This(t))

\* No event is lost while the connection lasts: it is on its way or counted.
EventsAreCounted ==
    connected => counts + Cardinality({i \in DOMAIN wire : wire[i].kind = "event"})
                        + (IF reader.kind = "event" THEN 1 ELSE 0) = events

\* An event "must never be routed through the message_id-keyed reply queues"
\* (amarisoft_ws.py): each message of the program goes to the one who waits for
\* it, and to nobody else.
MessagesAreRouted == AnswersAreOwn /\ EventsAreCounted
=============================================================================
