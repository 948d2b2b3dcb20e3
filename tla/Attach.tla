-------------------------------- MODULE Attach --------------------------------
(***************************************************************************)
(* How a UE is attached and who is told: the drivers of the Android phone  *)
(* (android.py) and of srsUE (srs_ue.py).  A thread of the gRPC server     *)
(* starts and stops the UE while others wait in WaitUntilAttached.         *)
(*                                                                         *)
(* The threads of the Android driver share one flag and one deadline, and  *)
(* see the phone through adb, one command at a time; those of srsUE share  *)
(* the attach info, which a thread of the driver finds in the log.  An     *)
(* address is the number of the run of the core that gave it; the cores    *)
(* give addresses of one network, so _has_ip takes those of any run.  The  *)
(* phone is taken to have left the cell when Stop has slept.               *)
(***************************************************************************)
EXTENDS Naturals, FiniteSets

CONSTANTS
    Phones,      \* the drivers: "android", "srsue"
    Waiter,      \* threads that wait
    MaxCalls,    \* calls of Start and Stop
    MaxMishaps   \* adb commands that fail, or launches

VARIABLES
    phone,     \* the driver
    radio,     \* the UE: [net, addr], net: "off", "search", "cell", "ip", "route"
    attach,    \* the driver's fields: [flag, late, info, watch]
    starter,   \* the thread of Start and Stop
    waits      \* the threads that wait

attachVars == <<phone, radio, attach, starter, waits>>

NoRadio == [net |-> "off", addr |-> 0]

\* flag   _waiting_for_attach          late   _wait_timeout has passed since _wait_start_time
\* info   _attach_info (0: None)       watch  the attach thread is alive
\* n      runs begun                   calls  calls of Start and Stop so far
\* ok     the last call was a Start that succeeded
\* since  the call a wait is about (0: the UE was not started when it began)
\* alone  no other wait was under way with it
Init ==
    /\ phone \in Phones
    /\ radio = NoRadio
    /\ attach = [flag |-> FALSE, late |-> FALSE, info |-> 0, watch |-> FALSE]
    /\ starter = [at |-> "idle", start |-> FALSE, n |-> 0, calls |-> 0, ok |-> FALSE, mishaps |-> 0]
    /\ waits = [w \in Waiter |-> [at |-> "idle", ip |-> 0, since |-> 0, alone |-> FALSE]]

Android == phone = "android"
SrsUe == phone = "srsue"

-----------------------------------------------------------------------------
(* The UE.                                                                 *)

Steps(net) == CASE net = "search" -> {IF Android THEN "cell" ELSE "ip"}
                [] net = "cell" -> {"ip"}
                [] net = "ip" /\ Android -> {"route"}
                [] OTHER -> {}

\* It finds the cell, gets its address from the core of this run, and the route.  The line of
\* srsUE is seen by the attach thread when that thread is there to see it.
Advance ==
    /\ \E net \in Steps(radio.net) : radio' = [net |-> net, addr |-> IF net = "cell" THEN 0 ELSE starter.n]
    /\ attach' = IF SrsUe /\ attach.watch THEN [attach EXCEPT !.info = starter.n, !.watch = FALSE]
                 ELSE attach
    /\ UNCHANGED <<phone, starter, waits>>

\* The timeout of a wait passes, or the 30 s of the attach thread.
TimePasses ==
    /\ attach' \in {[attach EXCEPT !.late = TRUE], [attach EXCEPT !.watch = FALSE]}
    /\ UNCHANGED <<phone, radio, starter, waits>>

-----------------------------------------------------------------------------
(* Start, which begins with Stop, and Stop.                                *)

Idle == starter.at = "idle"
Fails == starter.mishaps < MaxMishaps /\ starter' = [starter EXCEPT !.at = "idle", !.mishaps = @ + 1]
StopOrder == IF Android THEN "radio" ELSE "stop"

\* _stop_wait of Android; _find_device raises KeyError before it.
BeginCall(start) ==
    /\ Idle /\ starter.calls < MaxCalls
    /\ \/ /\ starter' = [starter EXCEPT !.at = StopOrder, !.start = start, !.calls = @ + 1, !.ok = FALSE]
          /\ attach' = IF Android THEN [attach EXCEPT !.flag = FALSE] ELSE attach
       \/ /\ Android /\ start /\ starter.mishaps < MaxMishaps
          /\ starter' = [starter EXCEPT !.calls = @ + 1, !.ok = FALSE, !.mishaps = @ + 1]
          /\ UNCHANGED attach
    /\ UNCHANGED <<phone, radio, waits>>

Stopped == IF starter.start THEN "core" ELSE "idle"

\* Airplane mode and half a second.
RadioOff ==
    /\ starter.at = "radio"
    /\ \/ radio' = NoRadio /\ starter' = [starter EXCEPT !.at = Stopped]
       \/ Fails /\ UNCHANGED radio
    /\ UNCHANGED <<phone, attach, waits>>

\* Stop of srsUE: the attach thread is killed and joined, and the SUT is stopped.
StopSut ==
    /\ starter.at = "stop"
    /\ attach' = [attach EXCEPT !.watch = FALSE]
    /\ radio' = NoRadio
    /\ starter' = [starter EXCEPT !.at = Stopped]
    /\ UNCHANGED <<phone, waits>>

\* Airplane mode off, then wifi off; the phone searches even if the second fails.
AirplaneOff ==
    /\ starter.at = "core" /\ Android
    /\ \/ /\ radio' = [net |-> "search", addr |-> 0]
          /\ starter' = [starter EXCEPT !.at = "idle", !.n = @ + 1, !.ok = TRUE]
       \/ Fails /\ radio' \in {radio, [net |-> "search", addr |-> 0]}
    /\ UNCHANGED <<phone, attach, waits>>

\* The configuration and start_sut of srsUE.
StartSut ==
    /\ starter.at = "core" /\ SrsUe
    /\ \/ /\ radio' = [net |-> "search", addr |-> 0]
          /\ starter' = [starter EXCEPT !.at = "reset", !.n = @ + 1]
       \/ Fails /\ UNCHANGED radio
    /\ UNCHANGED <<phone, attach, waits>>

\* Variant for the mutation runs: the attach info is kept.
KeepInfo ==
    /\ starter.at = "reset"
    /\ starter' = [starter EXCEPT !.at = "watch"]
    /\ UNCHANGED <<phone, radio, attach, waits>>

\* srsUE is running: the attach info is forgotten,
ResetInfo ==
    /\ starter.at = "reset"
    /\ attach' = [attach EXCEPT !.info = 0]
    /\ starter' = [starter EXCEPT !.at = "watch"]
    /\ UNCHANGED <<phone, radio, waits>>

\* and the attach thread starts, which reads the lines the log does not have yet.
StartWatch ==
    /\ starter.at = "watch"
    /\ attach' = [attach EXCEPT !.watch = TRUE]
    /\ starter' = [starter EXCEPT !.at = "idle", !.ok = TRUE]
    /\ UNCHANGED <<phone, radio, waits>>

-----------------------------------------------------------------------------
(* WaitUntilAttached.                                                      *)

Waiting(w) == waits[w].at \in {"cell", "ip", "read", "route", "poll"}
Company(w) == {v \in Waiter \ {w} : Waiting(v)}

\* _start_wait: the flag and the deadline are those of every wait.
BeginWait(w) ==
    /\ waits[w].at \notin {"cell", "ip", "read", "route", "poll"}
    /\ waits' = [v \in Waiter |->
            IF v = w THEN [at |-> IF Android THEN "cell" ELSE "poll", ip |-> 0,
                           since |-> IF Idle /\ starter.ok THEN starter.calls ELSE 0,
                           alone |-> Company(w) = {}]
            ELSE IF Waiting(v) THEN [waits[v] EXCEPT !.alone = FALSE] ELSE waits[v]]
    /\ attach' = IF Android THEN [attach EXCEPT !.flag = TRUE, !.late = FALSE] ELSE attach
    /\ UNCHANGED <<phone, radio, starter>>

To(w, p) == waits' = [waits EXCEPT ![w].at = p]

\* _continue_wait: interrupted, out of time (which ends the wait for all), or not.
Interrupted(w) == ~attach.flag /\ To(w, "interrupted") /\ UNCHANGED attach
Expired(w) == attach.flag /\ attach.late /\ To(w, "expired") /\ attach' = [attach EXCEPT !.flag = FALSE]
Continues(w, p) == attach.flag /\ ~attach.late /\ To(w, p) /\ UNCHANGED attach
GoesOn(w, p) == Interrupted(w) \/ Expired(w) \/ Continues(w, p)

AwaitCell(w) ==
    /\ waits[w].at = "cell"
    /\ IF radio.net \in {"cell", "ip", "route"} THEN To(w, "ip") /\ UNCHANGED attach ELSE GoesOn(w, "cell")
    /\ UNCHANGED <<phone, radio, starter>>

AwaitIp(w) == waits[w].at = "ip" /\ GoesOn(w, "read") /\ UNCHANGED <<phone, radio, starter>>

ReadIp(w) ==
    /\ waits[w].at = "read"
    /\ waits' = IF radio.addr # 0 THEN [waits EXCEPT ![w].at = "route", ![w].ip = radio.addr]
                ELSE [waits EXCEPT ![w].at = "ip"]
    /\ UNCHANGED <<phone, radio, attach, starter>>

\* The answer ends the wait for all.
AwaitRoute(w) ==
    /\ waits[w].at = "route"
    /\ IF radio.net = "route" THEN To(w, "answered") /\ attach' = [attach EXCEPT !.flag = FALSE]
       ELSE GoesOn(w, "route")
    /\ UNCHANGED <<phone, radio, starter>>

\* srsUE: the info is there, or the wait has its own deadline.
AwaitInfo(w) ==
    /\ waits[w].at = "poll"
    /\ \/ attach.info # 0 /\ waits' = [waits EXCEPT ![w].at = "answered", ![w].ip = attach.info]
       \/ To(w, "expired")
    /\ UNCHANGED <<phone, radio, attach, starter>>

Next ==
    \/ Advance \/ TimePasses
    \/ \E start \in BOOLEAN : BeginCall(start)
    \/ RadioOff \/ AirplaneOff \/ StopSut \/ StartSut \/ ResetInfo \/ StartWatch
    \/ \E w \in Waiter : BeginWait(w) \/ AwaitCell(w) \/ AwaitIp(w) \/ ReadIp(w) \/ AwaitRoute(w) \/ AwaitInfo(w)

Spec == Init /\ [][Next]_attachVars

-----------------------------------------------------------------------------
(* Properties.                                                             *)

\* No call of Start or Stop has begun since the wait did, with the UE started.
Undisturbed(w) == waits[w].since # 0 /\ waits[w].since = starter.calls

\* The address a wait answers is one of the run that was started before it, whatever runs, stops
\* and waits came earlier and are still under way.
AddressIsOfRun == \A w \in Waiter : waits[w].at = "answered" /\ Undisturbed(w) => waits[w].ip = starter.n

\* The flag and the deadline have one owner: a wait that no Stop and no other wait overlaps is
\* not interrupted.
InterruptedByAnother == \A w \in Waiter : waits[w].at = "interrupted" => ~(Undisturbed(w) /\ waits[w].alone)

\* A wait is about the run it was made for.
AttachIsOwn == AddressIsOfRun /\ InterruptedByAnother
=============================================================================
