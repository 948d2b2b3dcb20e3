------------------------------- MODULE UeDriver -------------------------------
(***************************************************************************)
(* The driver of the Amarisoft UEs (agent/drivers/amarisoft_ue.py).  One   *)
(* lteue process serves every client: the first Start launches it with one *)
(* UE for each client that asked for a definition, each client powers its  *)
(* own UE on and off, and the Stop of the last one ends the process.       *)
(*                                                                         *)
(* Start and Stop hold _amarisoft_lock; the check of GetDefinition, the    *)
(* polling of WaitUntilAttached and the thread that polls the statistics   *)
(* do not.  A command that is not answered in time is a fault.             *)
(*                                                                         *)
(* The clients come in sessions, as in the tests: each asks for its        *)
(* definition, then one starts after the other, and in the end they stop.  *)
(* A WaitUntilAttached is a call of its own beside them: a test that fails *)
(* at the first attach stops every UE while the others are still waiting.  *)
(***************************************************************************)
EXTENDS Naturals, FiniteSets

CONSTANTS
    Client,       \* the clients, by context.peer()
    Modes,        \* subset of {"local", "remote", "simulator"}
    MaxLaunches,  \* bound: processes launched
    MaxTimeouts   \* bound: commands that are not answered, licences in use

\* The agent itself calls Stop, without a context.
Agent == "unknown"
Caller == Client \cup {Agent}
Nobody == "nobody"

VARIABLES
    mode,
    at, client,      \* where a call is, and what each client has reached
    pending,         \* the WaitUntilAttached of each client, in a thread of its own
    holder,          \* of _amarisoft_lock
    dict, count,     \* _subscriber_client_dict, _subscriber_count
    sut, ues, on,    \* lteue, the UEs of its configuration, those that are on
    socket,          \* _websocket
    file, closed,    \* the metrics of the report folder, _metrics_file_closed
    poll, told,      \* _stats_poll_thread, and _stats_poll_event
    launches, timeouts

callVars == <<at, client, holder>>
sutVars  == <<sut, ues, on, socket>>
fileVars == <<file, closed, poll, told>>
bounds   == <<mode, launches, timeouts>>
vars == <<callVars, pending, dict, count, sutVars, fileVars, bounds>>

\* SubscriberWithStatus, with the number the client was given and the client
\* whose UE the handler is stopping.
Idle == [step |-> "idle", op |-> "none", whose |-> Nobody]

Init ==
    /\ mode \in Modes
    /\ at = [c \in Caller |-> Idle] /\ client = [c \in Client |-> "out"] /\ holder = Nobody
    /\ pending = [c \in Client |-> "none"]
    /\ dict = <<>> /\ count = 0
    /\ sut = "none" /\ ues = 0 /\ on = {} /\ socket = "none"
    /\ file = "empty" /\ closed = TRUE /\ poll = "none" /\ told = FALSE
    /\ launches = 0 /\ timeouts = 0

Known == DOMAIN dict
AnyStarted == \E c \in Known : dict[c].started

Goto(c, step) == at' = [at EXCEPT ![c].step = step]
Enter(c, step, op) == at' = [at EXCEPT ![c] = [step |-> step, op |-> op, whose |-> c]]
Leave(c) == at' = [at EXCEPT ![c] = Idle] /\ holder' = IF holder = c THEN Nobody ELSE holder
Reach(c, what) == client' = IF c \in Client THEN [client EXCEPT ![c] = what] ELSE client

\* The call ends with an exception, which a client sees.  A Stop that failed
\* can be called again.
Raise(c) == Leave(c) /\ Reach(c, "ending")

Timeout == timeouts < MaxTimeouts /\ timeouts' = timeouts + 1 /\ UNCHANGED <<mode, launches>>
NoTimeout == UNCHANGED bounds

\* _save_metrics_unlock.
Appended == IF file \in {"closed", "broken"} THEN "broken" ELSE "open"

-----------------------------------------------------------------------------
(* GetDefinition.                                                          *)

\* A simulator runs UEs of its own, for one client.
Takes(c) == mode = "simulator" => c = CHOOSE d \in Client : TRUE

CallGetDefinition(c) ==
    /\ at[c] = Idle /\ Takes(c)
    /\ \/ client[c] = "out" /\ \A d \in Client : client[d] \in {"out", "told"}
       \/ client[c] \in {"told", "on"}
    /\ IF mode = "simulator"
       THEN Reach(c, IF client[c] = "out" THEN "told" ELSE client[c]) /\ UNCHANGED at
       ELSE Enter(c, IF c \in Known THEN "known" ELSE "new", "GetDefinition") /\ UNCHANGED client
    /\ UNCHANGED <<holder, dict, count, sutVars, fileVars, bounds>>

NewSubscriber(c) ==
    /\ at[c].step = "new" /\ holder = Nobody
    /\ count' = count + 1
    /\ dict' = [d \in Known \cup {c} |-> IF d = c THEN [id |-> count', started |-> FALSE] ELSE dict[d]]
    /\ Reach(c, "told") /\ Leave(c)
    /\ UNCHANGED <<sutVars, fileVars, bounds>>

\* The entry may be gone since the check: KeyError.
SameSubscriber(c) ==
    /\ at[c].step = "known"
    /\ Leave(c)
    /\ Reach(c, IF c \in Known /\ client[c] = "out" THEN "told" ELSE client[c])
    /\ UNCHANGED <<dict, count, sutVars, fileVars, bounds>>

-----------------------------------------------------------------------------
(* Start.                                                                  *)

CallStart(c) ==
    /\ at[c] = Idle /\ Takes(c) /\ client[c] = "told"
    /\ \A d \in Client : Takes(d) => client[d] \in {"told", "on"} /\ at[d].op \notin {"Start", "Stop"}
    /\ Enter(c, "start", "Start")
    /\ UNCHANGED <<client, holder, dict, count, sutVars, fileVars, bounds>>

\* The process is there already, or it is launched; remotely the definition is
\* asked for first.
StartLocked(c) ==
    /\ at[c].step = "start" /\ holder = Nobody
    /\ holder' = c
    /\ Goto(c, IF AnyStarted THEN "power" ELSE IF mode = "remote" THEN "tweak" ELSE "poll")
    /\ UNCHANGED <<client, dict, count, sutVars, fileVars, bounds>>

\* self.GetDefinition for a client that is not known waits for the lock this
\* Start is holding.
Tweak(c) ==
    /\ at[c].step = "tweak"
    /\ c \notin Known => holder = Nobody
    /\ Goto(c, "poll")
    /\ UNCHANGED <<client, holder, dict, count, sutVars, fileVars, bounds>>

\* start_sut ends the process that is there and launches lteue with the UEs that
\* are known; or the parameters do not fit the testbed: ValueError.
Launch(c) ==
    /\ at[c].step = "launch"
    /\ \/ /\ launches < MaxLaunches
          /\ launches' = launches + 1 /\ UNCHANGED <<mode, timeouts>>
          /\ sut' = "up" /\ ues' = Cardinality(Known) /\ on' = {}
          /\ socket' = IF socket = "open" THEN "closed" ELSE socket
          /\ Goto(c, "license") /\ UNCHANGED <<client, holder>>
       \/ Raise(c) /\ UNCHANGED <<sutVars, bounds>>
    /\ UNCHANGED <<dict, count, fileVars>>

\* _is_license_available: a licence in use makes _start_unlock begin again, until
\* the time is up.
License(c) ==
    /\ at[c].step = "license"
    /\ \/ Goto(c, "connect") /\ NoTimeout /\ UNCHANGED <<client, holder>>
       \/ Timeout /\ Goto(c, IF mode = "remote" THEN "tweak" ELSE "poll") /\ UNCHANGED <<client, holder>>
       \/ Timeout /\ Raise(c)
    /\ UNCHANGED <<dict, count, sutVars, fileVars>>

\* A process that is dead refuses the connection.
Connect(c) ==
    /\ at[c].step = "connect"
    /\ IF sut = "up"
       THEN /\ socket' = "open" /\ closed' = FALSE
            /\ Goto(c, "cells") /\ UNCHANGED <<client, holder>>
       ELSE Raise(c) /\ UNCHANGED <<socket, closed>>
    /\ UNCHANGED <<dict, count, sut, ues, on, file, poll, told, bounds>>

\* config_get until every cell has its PCI, then _start_stats_poll.
CellsReady(c) ==
    /\ at[c].step = "cells"
    /\ \/ /\ socket = "open"
          /\ IF mode = "simulator" THEN poll' = "waits" /\ told' = FALSE ELSE UNCHANGED <<poll, told>>
          /\ Goto(c, "power") /\ NoTimeout /\ UNCHANGED <<client, holder>>
       \/ Timeout /\ Raise(c) /\ UNCHANGED <<poll, told>>
       \/ /\ socket # "open" /\ Raise(c) /\ NoTimeout /\ UNCHANGED <<poll, told>>
    /\ UNCHANGED <<dict, count, sutVars, file, closed>>

\* "Test Simulation Mode".
NothingToPower == Known = {}

\* power_on: lteue has no other UEs than those of its configuration, and its
\* answer is not looked at.
PowerOn(c) ==
    /\ at[c].step = "power"
    /\ \/ /\ socket = "open" /\ NothingToPower
          /\ Goto(c, "alive") /\ NoTimeout
          /\ UNCHANGED <<client, holder, dict, on>>
       \/ /\ socket = "open" /\ ~NothingToPower /\ c \in Known
          /\ on' = on \cup ({dict[c].id} \cap (1 .. ues))
          /\ dict' = [dict EXCEPT ![c].started = TRUE]
          /\ Goto(c, "alive") /\ NoTimeout /\ UNCHANGED <<client, holder>>
       \/ /\ socket = "open" /\ ~NothingToPower /\ c \in Known
          /\ Timeout /\ Raise(c)
          /\ on' = on \cup ({dict[c].id} \cap (1 .. ues))
          /\ UNCHANGED dict
       \/ /\ socket # "open" \/ (~NothingToPower /\ c \notin Known)
          /\ Raise(c) /\ NoTimeout
          /\ UNCHANGED <<dict, on>>
    /\ UNCHANGED <<count, sut, ues, socket, fileVars>>

\* Start ends with a look at the thread that watches lteue, which may not have
\* noticed yet; a UE of a Start that fails here counts as started.
CheckAlive(c) ==
    /\ at[c].step = "alive"
    /\ \/ Leave(c) /\ Reach(c, "on")
       \/ sut = "dead" /\ Raise(c)
    /\ UNCHANGED <<dict, count, sutVars, fileVars, bounds>>

-----------------------------------------------------------------------------
(* Stop.                                                                   *)

CallStop(c) ==
    /\ c \in Client /\ at[c] = Idle /\ client[c] \in {"told", "on", "ending"}
    /\ \A d \in Client : at[d].op \notin {"Start", "GetDefinition"}
    /\ client' = [d \in Client |-> IF client[d] = "told" THEN "ending" ELSE client[d]]
    /\ Enter(c, "stop", "Stop")
    /\ UNCHANGED <<holder, dict, count, sutVars, fileVars, bounds>>

\* The last Stop of the agent, when its clients have gone; what they were waiting
\* for may still come.
CallLastStop ==
    /\ at[Agent] = Idle /\ sut # "none"
    /\ \A c \in Client : at[c] = Idle
    /\ client' = [c \in Client |-> "gone"]
    /\ Enter(Agent, "stop", "Stop")
    /\ UNCHANGED <<holder, dict, count, sutVars, fileVars, bounds>>

\* The UEs a Stop has to power off: the own one, or those of every client.
ToStop(c) == IF c \in Known THEN {c} ELSE {d \in Known : dict[d].started}

StopLocked(c) ==
    /\ at[c].step = "stop" /\ holder = Nobody
    /\ IF AnyStarted /\ c \in Known /\ ~dict[c].started
       THEN Leave(c) /\ Reach(c, "out")
       ELSE /\ holder' = c
            /\ \E d \in IF AnyStarted THEN ToStop(c) ELSE {c} :
                  at' = [at EXCEPT ![c].step = IF AnyStarted THEN "off" ELSE "poll", ![c].whose = d]
            /\ UNCHANGED client
    /\ UNCHANGED <<dict, count, sutVars, fileVars, bounds>>

\* deregister and power_off, each until ue_get shows its effect; without a
\* connection the UE is off already.
PowerOff(c) ==
    /\ at[c].step = "off"
    /\ \/ /\ socket = "open"
          /\ on' = on \ {dict[at[c].whose].id} /\ file' = Appended
          /\ Goto(c, "off done") /\ NoTimeout
       \/ socket = "open" /\ Timeout /\ Goto(c, "force") /\ UNCHANGED <<on, file>>
       \/ socket # "open" /\ Goto(c, "off done") /\ NoTimeout /\ UNCHANGED <<on, file>>
    /\ UNCHANGED <<client, holder, dict, count, sut, ues, socket, closed, poll, told>>

\* A last power_off and a last ue_get; a TimeoutError of theirs is raised to the
\* caller, and so it is when the connection has been lost meanwhile.
ForceOff(c) ==
    /\ at[c].step = "force"
    /\ \/ /\ socket = "open"
          /\ on' = on \ {dict[at[c].whose].id} /\ file' = Appended
          /\ Goto(c, "off done") /\ NoTimeout /\ UNCHANGED <<client, holder>>
       \/ /\ socket = "open" /\ Timeout /\ Raise(c)
          /\ on' \in {on, on \ {dict[at[c].whose].id}} /\ UNCHANGED file
       \/ socket # "open" /\ Raise(c) /\ NoTimeout /\ UNCHANGED <<on, file>>
    /\ UNCHANGED <<dict, count, sut, ues, socket, closed, poll, told>>

\* Variant for the mutation runs: the first Stop ends the process.
NobodyLeft(d) == {}

StillOn(d) == {e \in Known \ {d} : dict[e].started}

\* The process stays while another UE is on; the last one clears the clients.
\* The loop over every client goes on with the next one.
PoweredOff(c) ==
    /\ at[c].step = "off done"
    /\ LET d == at[c].whose
           left == StillOn(d)
       IN  /\ IF left = {} THEN dict' = <<>> /\ count' = 0
              ELSE dict' = [dict EXCEPT ![d].started = FALSE] /\ UNCHANGED count
           /\ \/ left = {} /\ Goto(c, "poll") /\ UNCHANGED <<client, holder>>
              \/ left # {} /\ c = d /\ Leave(c) /\ Reach(c, "out")
              \/ /\ left # {} /\ c # d
                 /\ \E e \in left : at' = [at EXCEPT ![c].step = "off", ![c].whose = e]
                 /\ UNCHANGED <<client, holder>>
    /\ UNCHANGED <<sutVars, fileVars, bounds>>

\* Variant for the mutation runs: the file is closed without waiting for it.
NotJoined(c) == at[c].step = "join"

\* _stop_stats_poll sets the event, then joins the thread.
TellPoll(c) == at[c].step = "poll" /\ Goto(c, "join") /\ told' = TRUE
Joined(c) == at[c].step = "join" /\ poll = "none"

StopPoll(c) ==
    /\ TellPoll(c)
    /\ UNCHANGED <<client, holder, dict, count, sutVars, file, closed, poll, bounds>>

PollStopped(c) ==
    /\ Joined(c)
    /\ Goto(c, IF sut # "none" /\ socket # "none" THEN "quit" ELSE "stopped")
    /\ UNCHANGED <<client, holder, dict, count, sutVars, fileVars, bounds>>

\* The statistics, then quit, when there is a connection.
Quit(c) ==
    /\ at[c].step = "quit"
    /\ \/ /\ socket = "open"
          /\ file' = Appended /\ socket' = "closed" /\ sut' = "dead"
          /\ Goto(c, "close") /\ NoTimeout /\ UNCHANGED <<client, holder>>
       \/ socket = "open" /\ Timeout /\ Raise(c) /\ UNCHANGED <<file, socket, sut>>
       \/ /\ socket # "open" /\ Goto(c, "close") /\ NoTimeout
          /\ UNCHANGED <<client, holder, file, socket, sut>>
    /\ UNCHANGED <<dict, count, ues, on, closed, poll, told>>

\* Only once for each process, and only when something has been written.
CloseFile(c) ==
    /\ at[c].step = "close"
    /\ Goto(c, "stopped")
    /\ closed' = TRUE
    /\ file' = IF closed \/ file = "empty" THEN file ELSE IF file = "open" THEN "closed" ELSE "broken"
    /\ UNCHANGED <<client, holder, dict, count, sutVars, poll, told, bounds>>

\* _stop_unlock returns: to Start, or to Stop, which ends the process and closes
\* the report folder.  The loop over every client was left by the RuntimeError of
\* a dictionary that changed while it was iterated.
Stopped(c) ==
    /\ at[c].step = "stopped"
    /\ CASE at[c].op = "Start" -> Goto(c, "launch") /\ UNCHANGED <<client, holder, sut, on, socket, file>>
         [] at[c].op = "Stop" /\ at[c].whose # c -> Raise(c) /\ UNCHANGED <<sut, on, socket, file>>
         [] OTHER -> /\ Leave(c) /\ Reach(c, "out")
                     /\ sut' = "none" /\ on' = {} /\ file' = "empty"
                     /\ socket' = IF socket = "open" THEN "closed" ELSE socket
    /\ UNCHANGED <<dict, count, ues, closed, poll, told, bounds>>

-----------------------------------------------------------------------------
(* WaitUntilAttached, and the thread that polls.                           *)

\* ... of a client whose UE has started; its Stop does not wait for it.
CallWait(c) ==
    /\ at[c] = Idle /\ client[c] = "on" /\ c \in Known /\ pending[c] = "none"
    /\ pending' = [pending EXCEPT ![c] = "asks"]
    /\ UNCHANGED <<callVars, dict, count, sutVars, fileVars, bounds>>

\* ue_get: it is answered; or the time is up, or the connection has been closed,
\* which answers {}: nothing is saved, and a client that is not known any more
\* gets a KeyError.
Ask(c) ==
    /\ pending[c] = "asks"
    /\ \/ socket = "open" /\ pending' = [pending EXCEPT ![c] = "has"]
       \/ pending' = [pending EXCEPT ![c] = "none"]
    /\ UNCHANGED <<callVars, dict, count, sutVars, fileVars, bounds>>

\* The answer is saved, whatever has been stopped since it came; attached, or
\* once more while the client is known.
Save(c) ==
    /\ pending[c] = "has"
    /\ file' = Appended
    /\ \E next \in {"none"} \cup (IF c \in Known THEN {"asks"} ELSE {}) :
          pending' = [pending EXCEPT ![c] = next]
    /\ UNCHANGED <<callVars, dict, count, sutVars, closed, poll, told, bounds>>

\* _poll_stats.
PollAsks ==
    /\ poll = "waits" /\ ~told
    /\ poll' = IF socket = "open" THEN "has" ELSE "none"
    /\ UNCHANGED <<callVars, dict, count, sutVars, file, closed, told, bounds>>

PollSaves ==
    /\ poll = "has"
    /\ file' = Appended /\ poll' = "waits"
    /\ UNCHANGED <<callVars, dict, count, sutVars, closed, told, bounds>>

PollEnds ==
    /\ poll = "waits" /\ told
    /\ poll' = "none"
    /\ UNCHANGED <<callVars, dict, count, sutVars, file, closed, told, bounds>>

\* lteue crashes; a simulator quits by itself.
SutDies ==
    /\ sut = "up"
    /\ sut' = "dead" /\ socket' = IF socket = "open" THEN "closed" ELSE socket
    /\ UNCHANGED <<callVars, dict, count, ues, on, fileVars, bounds>>

-----------------------------------------------------------------------------
Starts(c) == \/ CallStart(c) \/ StartLocked(c) \/ Tweak(c) \/ Launch(c) \/ License(c)
             \/ Connect(c) \/ CellsReady(c) \/ PowerOn(c) \/ CheckAlive(c)
Stops(c) == \/ CallStop(c) \/ StopLocked(c) \/ PowerOff(c) \/ ForceOff(c) \/ PoweredOff(c)
            \/ StopPoll(c) \/ PollStopped(c) \/ Quit(c) \/ CloseFile(c) \/ Stopped(c)

Attaches(c) == CallWait(c) \/ Ask(c) \/ Save(c)

Next ==
    \/ /\ \/ \E c \in Client : \/ CallGetDefinition(c) \/ NewSubscriber(c) \/ SameSubscriber(c)
                               \/ Starts(c)
          \/ \E c \in Caller : Stops(c)
          \/ CallLastStop \/ PollAsks \/ PollSaves \/ PollEnds \/ SutDies
       /\ UNCHANGED pending
    \/ \E c \in Client : Attaches(c)

Spec == Init /\ [][Next]_vars

-----------------------------------------------------------------------------
(* Properties.                                                             *)

\* "Start the UE. Raise an error if can't be started." (ue.proto): the UE of a
\* client whose Start has returned is on, whatever the other clients start and
\* stop, until it calls Stop or lteue dies.
StartedIsOn ==
    \A c \in Client :
        mode # "simulator" /\ client[c] = "on" /\ at[c].op # "Stop" /\ sut = "up"
            => c \in Known /\ dict[c].id \in on

\* Once the metrics of a run are closed with "]", neither the thread that polls
\* (amarisoft_ue.py: "It must not write to the metrics file after the file is
\* closed") nor a Start or Stop of anybody writes to them or closes them again:
\* only a WaitUntilAttached that had its answer before the connection ended can.
Spoils(c) == pending[c] = "has" /\ pending'[c] # "has" /\ socket # "open"
EndsOnce == file # "broken" /\ file' = "broken" => \E c \in Client : Spoils(c)
FileStaysJson == [][EndsOnce]_vars
=============================================================================
