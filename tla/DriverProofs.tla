----------------------------- MODULE DriverProofs -----------------------------
(***************************************************************************)
(* Proofs about the drivers that MCDrivers puts into one specification: a   *)
(* program that runs to its end (Executor), the attach of a phone or srsUE  *)
(* (Attach), the core network (CoreDriver), and the captures of the drivers *)
(* that are made of others (Reports).                                      *)
(***************************************************************************)
EXTENDS MCDrivers, FiniteSetTheorems, TLAPS

-----------------------------------------------------------------------------
(* A behaviour is about one module.                                        *)

\* The kind of a behaviour stays, and its steps are those of the module.
LEMMA StepOfKind ==
    ASSUME MCNext
    PROVE  /\ kind' \in Drivers => kind' = kind
           /\ kind = "exec" => X!Next
           /\ kind = "attach" => A!Next
           /\ kind = "core" => D!Next
           /\ kind = "reports" => P!Next
<1> USE KindsAssumption DEF Drivers
<1>1. CASE kind \in Kinds /\ Next /\ UNCHANGED cut /\ Others
  BY <1>1 DEF Next
<1>2. CASE kind \in CaptureKinds /\ C!Next /\ Others
  <2>1. kind' = kind
    BY <1>2 DEF C!Next, C!Packet, C!TSharkFails
  <2> QED
    BY <1>2, <2>1
<1>3. CASE kind \in LogKinds /\ R!Next /\ UNCHANGED cut /\ Others
  BY <1>3 DEF R!Next
<1>4. CASE kind = "ue" /\ U!Next /\ Others
  BY <1>4 DEF Others, reportVars
<1>5. CASE kind = "ws" /\ W!Next /\ Others
  BY <1>5 DEF Others, reportVars
<1>6. CASE kind = "core" /\ D!Next /\ Others
  BY <1>6 DEF Others, reportVars
<1>7. CASE kind = "exec" /\ X!Next /\ Others
  BY <1>7 DEF Others, reportVars
<1>8. CASE kind = "attach" /\ A!Next /\ Others
  BY <1>8 DEF Others, reportVars
<1>9. CASE kind = "viavi" /\ V!Next /\ Others
  BY <1>9 DEF Others, reportVars
<1>10. CASE kind = "reports" /\ P!Next /\ Others
  BY <1>10 DEF Others, reportVars
<1> QED
  BY <1>1, <1>2, <1>3, <1>4, <1>5, <1>6, <1>7, <1>8, <1>9, <1>10, Zenon DEF MCNext

-----------------------------------------------------------------------------
(* A program that runs to its end.                                         *)

\* Every line that was printed is in the pipe, in the queue or handed out; the
\* thread that reads has ended after the program, with nothing left in the pipe.
LinesKept ==
    /\ printed \in Nat /\ pipe \in Nat /\ queue \in Nat /\ read \in Nat
    /\ printed = pipe + queue + read
    /\ ~reader => pipe = 0 /\ proc = "exited"
    /\ step = "last" => ~reader
    /\ outcome = "ended" => ~reader /\ queue = 0

\* A call ends with the program, or after it was killed.
EndsWithProgram ==
    /\ step = "reap" /\ pid = "own" => killed
    /\ X!NothingOutlives

\* The invariant of a program.
ExecInv == LinesKept /\ EndsWithProgram

\* It holds initially.
LEMMA ExecInit == X!Init => ExecInv
  BY DEF X!Init, ExecInv, LinesKept, EndsWithProgram, X!NothingOutlives

\* Every step keeps the lines.
LEMMA LinesKeptStep ==
    ASSUME LinesKept, X!Next
    PROVE  LinesKept'
<1> USE DEF LinesKept, X!procVars, X!lineVars, X!endVars, X!processVars, X!Goto, X!End, X!Over
<1>1. CASE X!Prints
  BY <1>1 DEF X!Prints
<1>2. CASE X!Exits
  BY <1>2 DEF X!Exits
<1>3. CASE X!Dies
  BY <1>3 DEF X!Dies
<1>4. CASE X!Enqueue
  BY <1>4 DEF X!Enqueue
<1>5. CASE X!ReaderEnds
  BY <1>5 DEF X!ReaderEnds
<1>6. CASE X!Check
  BY <1>6 DEF X!Check, X!MayHaveMore
<1>7. CASE X!LastCheck
  BY <1>7 DEF X!LastCheck
<1>8. CASE X!Get
  BY <1>8 DEF X!Get
<1>9. CASE X!Wait
  BY <1>9 DEF X!Wait, X!WaitOr
<1>10. CASE X!Signal
  BY <1>10 DEF X!Signal
<1>11. CASE X!Await
  BY <1>11 DEF X!Await, X!WaitOr
<1>12. CASE X!Gdb
  BY <1>12 DEF X!Gdb
<1>13. CASE X!AwaitAgain
  BY <1>13 DEF X!AwaitAgain, X!WaitOr
<1>14. CASE X!Kill
  BY <1>14 DEF X!Kill
<1>15. CASE X!Reap
  BY <1>15 DEF X!Reap
<1>16. CASE X!Return
  BY <1>16 DEF X!Return
<1>17. CASE X!Retry
  BY <1>17 DEF X!Retry
<1> QED
  BY <1>1, <1>2, <1>3, <1>4, <1>5, <1>6, <1>7, <1>8, <1>9, <1>10, <1>11, <1>12, <1>13, <1>14, <1>15,
     <1>16, <1>17, Zenon DEF X!Next

\* Every step keeps the end of a call with the program.
LEMMA EndsWithProgramStep ==
    ASSUME EndsWithProgram, X!Next
    PROVE  EndsWithProgram'
<1> USE DEF EndsWithProgram, X!NothingOutlives, X!procVars, X!lineVars, X!endVars, X!processVars,
            X!Goto, X!End, X!Over
<1>1. CASE X!Prints
  BY <1>1 DEF X!Prints
<1>2. CASE X!Exits
  BY <1>2 DEF X!Exits
<1>3. CASE X!Dies
  BY <1>3 DEF X!Dies
<1>4. CASE X!Enqueue
  BY <1>4 DEF X!Enqueue
<1>5. CASE X!ReaderEnds
  BY <1>5 DEF X!ReaderEnds
<1>6. CASE X!Check
  BY <1>6 DEF X!Check
<1>7. CASE X!LastCheck
  BY <1>7 DEF X!LastCheck
<1>8. CASE X!Get
  BY <1>8 DEF X!Get
<1>9. CASE X!Wait
  BY <1>9 DEF X!Wait, X!WaitOr
<1>10. CASE X!Signal
  BY <1>10 DEF X!Signal
<1>11. CASE X!Await
  BY <1>11 DEF X!Await, X!WaitOr
<1>12. CASE X!Gdb
  BY <1>12 DEF X!Gdb
<1>13. CASE X!AwaitAgain
  BY <1>13 DEF X!AwaitAgain, X!WaitOr
<1>14. CASE X!Kill
  BY <1>14 DEF X!Kill, X!SendKill
<1>15. CASE X!Reap
  BY <1>15 DEF X!Reap
<1>16. CASE X!Return
  BY <1>16 DEF X!Return
<1>17. CASE X!Retry
  BY <1>17 DEF X!Retry
<1> QED
  BY <1>1, <1>2, <1>3, <1>4, <1>5, <1>6, <1>7, <1>8, <1>9, <1>10, <1>11, <1>12, <1>13, <1>14, <1>15,
     <1>16, <1>17, Zenon DEF X!Next

\* The invariant of the programs.
LEMMA ExecInvariance == MCSpec => [](kind = "exec" => ExecInv)
<1>1. MCInit => (kind = "exec" => ExecInv)
  BY ExecInit DEF MCInit
<1>2. (kind = "exec" => ExecInv)
        /\ [MCNext]_<<reportVars, ueVars, wsVars, coreVars, execVars, attachVars, viaviVars, reportsVars>>
      => (kind = "exec" => ExecInv)'
  <2> SUFFICES ASSUME kind = "exec" => ExecInv, kind' = "exec",
                      [MCNext]_<<reportVars, ueVars, wsVars, coreVars, execVars, attachVars, viaviVars,
                                 reportsVars>>
               PROVE  ExecInv'
    OBVIOUS
  <2>1. CASE MCNext
    BY <2>1, StepOfKind, LinesKeptStep, EndsWithProgramStep DEF ExecInv, Drivers
  <2>2. CASE UNCHANGED <<reportVars, ueVars, wsVars, coreVars, execVars, attachVars, viaviVars, reportsVars>>
    BY <2>2 DEF reportVars, execVars, ExecInv, LinesKept, EndsWithProgram, X!NothingOutlives
  <2> QED
    BY <2>1, <2>2
<1> QED
  BY <1>1, <1>2, PTL DEF MCSpec

\* A caller that read to the end has every line that the program printed, for any
\* number of lines, wherever the reader, the program and the caller are interrupted.
THEOREM OutputIsRead == MCSpec => []AllOutputRead
<1>1. (kind = "exec" => ExecInv) => AllOutputRead
  BY DEF ExecInv, LinesKept, AllOutputRead, X!AllOutputRead
<1> QED
  BY <1>1, ExecInvariance, PTL

\* No program outlives its call, however it reacts to signals and how often it
\* is run again.
THEOREM ProgramsEnd == MCSpec => []NothingOutlives
<1>1. (kind = "exec" => ExecInv) => NothingOutlives
  BY DEF ExecInv, EndsWithProgram, NothingOutlives
<1> QED
  BY <1>1, ExecInvariance, PTL

-----------------------------------------------------------------------------
(* How a UE is attached.                                                   *)

\* Where a wait can be.
WaitPlaces == {"idle", "cell", "ip", "read", "route", "poll", "interrupted", "expired", "answered"}

\* The fields of the thread of Start and Stop.
StarterType == [at : {"idle", "radio", "stop", "core", "reset", "watch"}, start : BOOLEAN, n : Nat,
                calls : Nat, ok : BOOLEAN, mishaps : Nat]

\* The types.
AttachTypes ==
    /\ radio \in [net : {"off", "search", "cell", "ip", "route"}, addr : Nat]
    /\ attach \in [flag : BOOLEAN, late : BOOLEAN, info : Nat, watch : BOOLEAN]
    /\ starter \in StarterType
    /\ waits \in [Waiter -> [at : WaitPlaces, ip : Nat, since : Nat, alone : BOOLEAN]]

\* A wait that no call has disturbed finds the UE as it was when it began: started,
\* and nobody starting or stopping it.
NoneBegun ==
    /\ starter.at # "idle" => ~starter.ok
    /\ \A w \in Waiter : waits[w].since <= starter.calls
    /\ \A w \in Waiter : A!Undisturbed(w) => starter.at = "idle" /\ starter.ok

\* The address is of the last run; so is what srsUE has said since its log was
\* opened, because no thread reads the log while a run is made.
RunOfAddress ==
    /\ radio.addr \in {0, starter.n}
    /\ ~A!Android => starter.at # "radio"
    /\ ~A!Android /\ starter.at \in {"core", "reset", "watch"} => ~attach.watch
    /\ ~A!Android /\ (starter.at = "watch" \/ starter.ok) => attach.info \in {0, starter.n}

\* Each driver has its own way to wait, and what it has read is of the run.
RunOfWait ==
    \A w \in Waiter :
        /\ A!Android => waits[w].at # "poll"
        /\ ~A!Android => waits[w].at \in {"idle", "poll", "expired", "answered"}
        /\ waits[w].at \in {"route", "answered"} /\ A!Undisturbed(w) => waits[w].ip = starter.n

\* A wait that is alone owns the flag, until a call begins.
OwnsFlag ==
    \A w \in Waiter : waits[w].alone =>
        /\ A!Waiting(w) => \A v \in Waiter \ {w} : ~A!Waiting(v)
        /\ A!Android /\ A!Waiting(w) /\ A!Undisturbed(w) => attach.flag
        /\ waits[w].at = "interrupted" => ~A!Undisturbed(w)

\* The invariant of the attach.
AttachInv == AttachTypes /\ NoneBegun /\ RunOfAddress /\ RunOfWait /\ OwnsFlag

\* It holds initially.
LEMMA AttachInit == A!Init => AttachInv
<1> SUFFICES ASSUME A!Init PROVE AttachInv
  OBVIOUS
<1>1. /\ radio = [net |-> "off", addr |-> 0]
      /\ attach = [flag |-> FALSE, late |-> FALSE, info |-> 0, watch |-> FALSE]
      /\ starter = [at |-> "idle", start |-> FALSE, n |-> 0, calls |-> 0, ok |-> FALSE, mishaps |-> 0]
      /\ waits = [w \in Waiter |-> [at |-> "idle", ip |-> 0, since |-> 0, alone |-> FALSE]]
  BY DEF A!Init, A!NoRadio
<1>2. AttachTypes
  BY <1>1 DEF AttachTypes, StarterType, WaitPlaces
<1>3. \A w \in Waiter : waits[w].at = "idle" /\ waits[w].since = 0 /\ ~waits[w].alone
  BY <1>1
<1>4. starter.at = "idle" /\ starter.calls = 0 /\ starter.n = 0 /\ ~starter.ok /\ radio.addr = 0
  BY <1>1
<1> QED
  BY <1>2, <1>3, <1>4 DEF AttachInv, NoneBegun, RunOfAddress, RunOfWait, OwnsFlag, A!Undisturbed

\* The steps of a wait, but for its first: it goes on, or ends; when it ends it
\* may take the flag down.
WaitGoes(w, p, x) ==
    /\ \A v \in Waiter \ {w} : waits'[v] = waits[v]
    /\ waits'[w].at = p /\ waits'[w].ip = x
    /\ waits'[w].since = waits[w].since /\ waits'[w].alone = waits[w].alone
    /\ phone' = phone /\ radio' = radio /\ starter' = starter
    /\ attach'.late = attach.late /\ attach'.info = attach.info /\ attach'.watch = attach.watch
    /\ attach'.flag = attach.flag \/ p \in {"expired", "answered"}
    /\ A!Waiting(w) /\ p # "poll" /\ (waits[w].at = "poll" => p \in {"expired", "answered"})
    /\ p = "interrupted" => ~attach.flag
    /\ p = "route" => (waits[w].at = "route" /\ x = waits[w].ip) \/ (x = radio.addr /\ x # 0)
    /\ p = "answered" => (waits[w].at = "route" /\ x = waits[w].ip)
                          \/ (waits[w].at = "poll" /\ x = attach.info /\ x # 0)

\* The steps of a wait.
WaitSteps(w) == A!AwaitCell(w) \/ A!AwaitIp(w) \/ A!ReadIp(w) \/ A!AwaitRoute(w) \/ A!AwaitInfo(w)

\* A wait has a new place and a new address.
LEMMA WaitHas ==
    ASSUME AttachTypes, NEW w \in Waiter, NEW p \in WaitPlaces, NEW x \in Nat,
           waits' = [waits EXCEPT ![w].at = p, ![w].ip = x]
    PROVE  /\ \A v \in Waiter \ {w} : waits'[v] = waits[v]
           /\ waits'[w].at = p /\ waits'[w].ip = x
           /\ waits'[w].since = waits[w].since /\ waits'[w].alone = waits[w].alone
           /\ waits' \in [Waiter -> [at : WaitPlaces, ip : Nat, since : Nat, alone : BOOLEAN]]
<1> DEFINE first == [waits EXCEPT ![w].at = p]
<1>1. first \in [Waiter -> [at : WaitPlaces, ip : Nat, since : Nat, alone : BOOLEAN]]
  BY DEF AttachTypes
<1>2. first[w].at = p /\ first[w].since = waits[w].since /\ first[w].alone = waits[w].alone
      /\ \A v \in Waiter \ {w} : first[v] = waits[v]
  BY DEF AttachTypes
<1>3. waits' = [first EXCEPT ![w] = [first[w] EXCEPT !.ip = x]]
  OBVIOUS
<1> HIDE DEF first
<1> DEFINE one == [first[w] EXCEPT !.ip = x]
<1>4. /\ one \in [at : WaitPlaces, ip : Nat, since : Nat, alone : BOOLEAN]
      /\ one.at = first[w].at /\ one.ip = x /\ one.since = first[w].since /\ one.alone = first[w].alone
  BY <1>1
<1>5. waits' = [first EXCEPT ![w] = one]
  BY <1>3
<1> HIDE DEF one
<1> QED
  BY <1>1, <1>2, <1>4, <1>5

\* Such a step is one of those.
LEMMA WaitStepIs ==
    ASSUME AttachTypes, NEW w \in Waiter, WaitSteps(w)
    PROVE  /\ \E p \in WaitPlaces, x \in Nat : WaitGoes(w, p, x)
           /\ waits' \in [Waiter -> [at : WaitPlaces, ip : Nat, since : Nat, alone : BOOLEAN]]
           /\ attach' \in [flag : BOOLEAN, late : BOOLEAN, info : Nat, watch : BOOLEAN]
<1> DEFINE moved(p) == [waits EXCEPT ![w].at = p]
<1> USE DEF AttachTypes, WaitPlaces
<1>1. \A p \in WaitPlaces : A!To(w, p) =>
         /\ \A v \in Waiter \ {w} : waits'[v] = waits[v]
         /\ waits'[w].at = p /\ waits'[w].ip = waits[w].ip
         /\ waits'[w].since = waits[w].since /\ waits'[w].alone = waits[w].alone
         /\ waits' \in [Waiter -> [at : WaitPlaces, ip : Nat, since : Nat, alone : BOOLEAN]]
  BY DEF A!To
<1>2. attach' = [attach EXCEPT !.flag = FALSE] =>
         /\ attach'.late = attach.late /\ attach'.info = attach.info /\ attach'.watch = attach.watch
         /\ attach' \in [flag : BOOLEAN, late : BOOLEAN, info : Nat, watch : BOOLEAN]
  OBVIOUS
<1>3. waits[w].ip \in Nat /\ radio.addr \in Nat /\ attach.info \in Nat
  OBVIOUS
<1>4. CASE A!AwaitCell(w)
  <2>1. (A!To(w, "ip") /\ attach' = attach) \/ A!GoesOn(w, "cell")
    BY <1>4 DEF A!AwaitCell
  <2>2. CASE A!To(w, "ip") /\ attach' = attach
    BY <1>1, <1>3, <1>4, <2>2 DEF A!AwaitCell, WaitGoes, A!Waiting
  <2>3. CASE A!Interrupted(w)
    BY <1>1, <1>3, <1>4, <2>3 DEF A!AwaitCell, WaitGoes, A!Waiting, A!Interrupted
  <2>4. CASE A!Expired(w)
    BY <1>1, <1>2, <1>3, <1>4, <2>4 DEF A!AwaitCell, WaitGoes, A!Waiting, A!Expired
  <2>5. CASE A!Continues(w, "cell")
    BY <1>1, <1>3, <1>4, <2>5 DEF A!AwaitCell, WaitGoes, A!Waiting, A!Continues
  <2> QED
    BY <2>1, <2>2, <2>3, <2>4, <2>5 DEF A!GoesOn
<1>5. CASE A!AwaitIp(w)
  <2>1. A!GoesOn(w, "read")
    BY <1>5 DEF A!AwaitIp
  <2>3. CASE A!Interrupted(w)
    BY <1>1, <1>3, <1>5, <2>3 DEF A!AwaitIp, WaitGoes, A!Waiting, A!Interrupted
  <2>4. CASE A!Expired(w)
    BY <1>1, <1>2, <1>3, <1>5, <2>4 DEF A!AwaitIp, WaitGoes, A!Waiting, A!Expired
  <2>5. CASE A!Continues(w, "read")
    BY <1>1, <1>3, <1>5, <2>5 DEF A!AwaitIp, WaitGoes, A!Waiting, A!Continues
  <2> QED
    BY <2>1, <2>3, <2>4, <2>5 DEF A!GoesOn
<1>6. CASE A!ReadIp(w)
  <2>1. CASE radio.addr # 0
    <3>1. /\ \A v \in Waiter \ {w} : waits'[v] = waits[v]
          /\ waits'[w].at = "route" /\ waits'[w].ip = radio.addr
          /\ waits'[w].since = waits[w].since /\ waits'[w].alone = waits[w].alone
          /\ waits' \in [Waiter -> [at : WaitPlaces, ip : Nat, since : Nat, alone : BOOLEAN]]
      BY <1>3, <1>6, <2>1, WaitHas DEF A!ReadIp
    <3> QED
      BY <1>3, <1>6, <2>1, <3>1 DEF A!ReadIp, WaitGoes, A!Waiting
  <2>2. CASE radio.addr = 0
    <3>1. A!To(w, "ip")
      BY <1>6, <2>2 DEF A!ReadIp, A!To
    <3> QED
      BY <1>1, <1>3, <1>6, <3>1 DEF A!ReadIp, WaitGoes, A!Waiting
  <2> QED
    BY <2>1, <2>2
<1>7. CASE A!AwaitRoute(w)
  <2>1. (A!To(w, "answered") /\ attach' = [attach EXCEPT !.flag = FALSE]) \/ A!GoesOn(w, "route")
    BY <1>7 DEF A!AwaitRoute
  <2>2. CASE A!To(w, "answered") /\ attach' = [attach EXCEPT !.flag = FALSE]
    BY <1>1, <1>2, <1>3, <1>7, <2>2 DEF A!AwaitRoute, WaitGoes, A!Waiting
  <2>3. CASE A!Interrupted(w)
    BY <1>1, <1>3, <1>7, <2>3 DEF A!AwaitRoute, WaitGoes, A!Waiting, A!Interrupted
  <2>4. CASE A!Expired(w)
    BY <1>1, <1>2, <1>3, <1>7, <2>4 DEF A!AwaitRoute, WaitGoes, A!Waiting, A!Expired
  <2>5. CASE A!Continues(w, "route")
    BY <1>1, <1>3, <1>7, <2>5 DEF A!AwaitRoute, WaitGoes, A!Waiting, A!Continues
  <2> QED
    BY <2>1, <2>2, <2>3, <2>4, <2>5 DEF A!GoesOn
<1>8. CASE A!AwaitInfo(w)
  <2>1. CASE A!To(w, "expired")
    BY <1>1, <1>3, <1>8, <2>1 DEF A!AwaitInfo, WaitGoes, A!Waiting
  <2>2. CASE attach.info # 0 /\ waits' = [waits EXCEPT ![w].at = "answered", ![w].ip = attach.info]
    <3>1. /\ \A v \in Waiter \ {w} : waits'[v] = waits[v]
          /\ waits'[w].at = "answered" /\ waits'[w].ip = attach.info
          /\ waits'[w].since = waits[w].since /\ waits'[w].alone = waits[w].alone
          /\ waits' \in [Waiter -> [at : WaitPlaces, ip : Nat, since : Nat, alone : BOOLEAN]]
      BY <1>3, <2>2, WaitHas
    <3> QED
      BY <1>3, <1>8, <2>2, <3>1 DEF A!AwaitInfo, WaitGoes, A!Waiting
  <2> QED
    BY <1>8, <2>1, <2>2 DEF A!AwaitInfo
<1> QED
  BY <1>4, <1>5, <1>6, <1>7, <1>8, Zenon DEF WaitSteps

\* A wait that goes on or ends keeps the invariant.
LEMMA WaitGoesKeeps ==
    ASSUME AttachInv, NEW w \in Waiter, NEW p \in WaitPlaces, NEW x \in Nat, WaitGoes(w, p, x), AttachTypes'
    PROVE  AttachInv'
<1> USE DEF AttachInv, WaitGoes
<1>1. \A v \in Waiter : A!Undisturbed(v)' <=> A!Undisturbed(v)
  BY DEF A!Undisturbed
<1>2. \A v \in Waiter : v # w => (A!Waiting(v)' <=> A!Waiting(v))
  BY DEF A!Waiting
<1>3. A!Android' <=> A!Android
  BY DEF A!Android
<1>4. ~A!Android => p \in {"expired", "answered"} /\ waits[w].at = "poll"
  BY DEF RunOfWait, A!Waiting
<1>5. NoneBegun'
  BY <1>1 DEF NoneBegun
<1>6. RunOfAddress'
  BY <1>3 DEF RunOfAddress
<1>7. RunOfWait'
  <2> SUFFICES ASSUME NEW v \in Waiter
               PROVE  /\ A!Android => waits'[v].at # "poll"
                      /\ ~A!Android => waits'[v].at \in {"idle", "poll", "expired", "answered"}
                      /\ waits'[v].at \in {"route", "answered"} /\ A!Undisturbed(v) => waits'[v].ip = starter.n
    BY <1>1, <1>3 DEF RunOfWait
  <2>1. CASE v # w
    BY <2>1 DEF RunOfWait
  <2>2. CASE v = w /\ ~A!Android
    BY <1>4, <2>2 DEF RunOfWait, RunOfAddress, NoneBegun
  <2>3. CASE v = w /\ A!Android
    BY <2>3 DEF RunOfWait, RunOfAddress
  <2> QED
    BY <2>1, <2>2, <2>3
<1>8. OwnsFlag'
  <2> SUFFICES ASSUME NEW v \in Waiter, waits[v].alone
               PROVE  /\ A!Waiting(v)' => \A u \in Waiter \ {v} : ~A!Waiting(u)'
                      /\ A!Android /\ A!Waiting(v)' /\ A!Undisturbed(v) => attach'.flag
                      /\ waits'[v].at = "interrupted" => ~A!Undisturbed(v)
    BY <1>1, <1>3 DEF OwnsFlag
  <2>1. CASE v # w
    BY <1>2, <2>1 DEF OwnsFlag
  <2>2. CASE v = w
    <3>1. \A u \in Waiter \ {v} : ~A!Waiting(u)'
      BY <1>2, <2>2 DEF OwnsFlag
    <3>2. A!Android /\ A!Undisturbed(v) => attach.flag
      BY <2>2 DEF OwnsFlag
    <3>3. A!Waiting(v)' => attach'.flag = attach.flag
      BY <2>2 DEF A!Waiting
    <3>4. p = "interrupted" => A!Android /\ ~attach.flag
      BY <1>4
    <3> QED
      BY <2>2, <3>1, <3>2, <3>3, <3>4
  <2> QED
    BY <2>1, <2>2
<1> QED
  BY <1>5, <1>6, <1>7, <1>8

\* So does a wait that begins.
LEMMA BeginWaitKeeps ==
    ASSUME AttachInv, NEW w \in Waiter, A!BeginWait(w)
    PROVE  AttachInv'
<1> USE DEF AttachInv
<1> DEFINE new == [at |-> IF A!Android THEN "cell" ELSE "poll", ip |-> 0,
                   since |-> IF starter.at = "idle" /\ starter.ok THEN starter.calls ELSE 0,
                   alone |-> A!Company(w) = {}]
           one(v) == IF v = w THEN new ELSE IF A!Waiting(v) THEN [waits[v] EXCEPT !.alone = FALSE] ELSE waits[v]
<1>1. /\ waits' = [v \in Waiter |-> one(v)] /\ ~A!Waiting(w)
      /\ phone' = phone /\ radio' = radio /\ starter' = starter
      /\ attach' = IF A!Android THEN [attach EXCEPT !.flag = TRUE, !.late = FALSE] ELSE attach
  BY DEF A!BeginWait, A!Waiting, A!Idle
<1>2. /\ new.at = (IF A!Android THEN "cell" ELSE "poll") /\ new.ip = 0
      /\ new.since = (IF starter.at = "idle" /\ starter.ok THEN starter.calls ELSE 0)
      /\ new.alone <=> A!Company(w) = {}
      /\ new \in [at : WaitPlaces, ip : Nat, since : Nat, alone : BOOLEAN]
  BY DEF AttachTypes, StarterType, WaitPlaces
<1> HIDE DEF new
<1>3. \A v \in Waiter \ {w} :
         /\ one(v) \in [at : WaitPlaces, ip : Nat, since : Nat, alone : BOOLEAN]
         /\ one(v).at = waits[v].at /\ one(v).ip = waits[v].ip /\ one(v).since = waits[v].since
         /\ one(v).alone => waits[v].alone /\ ~A!Waiting(v)
  BY DEF AttachTypes
<1>4. one(w) = new
  OBVIOUS
<1> HIDE DEF one
<1>5. /\ waits'[w] = new
      /\ \A v \in Waiter \ {w} : /\ waits'[v].at = waits[v].at /\ waits'[v].ip = waits[v].ip
                                 /\ waits'[v].since = waits[v].since
                                 /\ waits'[v].alone => waits[v].alone /\ ~A!Waiting(v)
      /\ waits' \in [Waiter -> [at : WaitPlaces, ip : Nat, since : Nat, alone : BOOLEAN]]
  BY <1>1, <1>2, <1>3, <1>4
<1>6. /\ attach' \in [flag : BOOLEAN, late : BOOLEAN, info : Nat, watch : BOOLEAN]
      /\ attach'.info = attach.info /\ attach'.watch = attach.watch
      /\ A!Android => attach'.flag
  BY <1>1 DEF AttachTypes
<1>7. AttachTypes'
  BY <1>1, <1>5, <1>6 DEF AttachTypes
<1>8. A!Android' <=> A!Android
  BY <1>1 DEF A!Android
<1>9. \A v \in Waiter \ {w} : (A!Undisturbed(v)' <=> A!Undisturbed(v)) /\ (A!Waiting(v)' <=> A!Waiting(v))
  BY <1>1, <1>5 DEF A!Undisturbed, A!Waiting
<1>10. NoneBegun'
  <2>1. A!Undisturbed(w)' => starter.at = "idle" /\ starter.ok
    BY <1>1, <1>2, <1>5 DEF A!Undisturbed, AttachTypes, StarterType
  <2>2. waits'[w].since <= starter.calls
    BY <1>2, <1>5 DEF AttachTypes, StarterType
  <2> QED
    BY <1>1, <1>5, <1>9, <2>1, <2>2 DEF NoneBegun
<1>11. RunOfAddress'
  BY <1>1, <1>6, <1>8 DEF RunOfAddress
<1>12. RunOfWait'
  <2>1. /\ A!Android => waits'[w].at # "poll"
        /\ ~A!Android => waits'[w].at = "poll"
        /\ waits'[w].at \notin {"route", "answered"}
    BY <1>2, <1>5
  <2> QED
    BY <1>1, <1>5, <1>8, <1>9, <2>1 DEF RunOfWait
<1>13. OwnsFlag'
  <2>1. waits'[w].alone => \A v \in Waiter \ {w} : ~A!Waiting(v)'
    BY <1>2, <1>5, <1>9 DEF A!Company
  <2>2. waits'[w].at # "interrupted"
    BY <1>2, <1>5
  <2>3. \A v \in Waiter \ {w} : waits'[v].alone =>
           ~A!Waiting(v)' /\ (waits'[v].at = "interrupted" => ~A!Undisturbed(v)')
    BY <1>5, <1>9 DEF OwnsFlag
  <2> QED
    BY <1>6, <1>8, <2>1, <2>2, <2>3 DEF OwnsFlag
<1> QED
  BY <1>7, <1>10, <1>11, <1>12, <1>13

\* The steps of Start and Stop.
StarterSteps ==
    A!RadioOff \/ A!AirplaneOff \/ A!StopSut \/ A!StartSut \/ A!ResetInfo \/ A!StartWatch

\* Where Start and Stop come from and where they go.
StarterGoes ==
    /\ starter.at # "idle" /\ waits' = waits /\ phone' = phone
    /\ starter'.calls = starter.calls
    /\ starter'.at = "idle" \/ ~starter'.ok
    /\ starter'.at # "radio"
    /\ attach'.flag = attach.flag
    /\ radio'.addr = 0 \/ (radio'.addr = radio.addr /\ starter'.n = starter.n)
    /\ ~A!Android =>
          \/ /\ starter'.at = "idle" /\ ~starter'.ok
          \/ /\ starter'.at \in {"core", "reset"} /\ ~starter'.ok
             /\ ~attach'.watch
          \/ /\ starter'.at = "watch" /\ ~starter'.ok
             /\ ~attach'.watch /\ attach'.info = 0
          \/ /\ starter.at = "watch" /\ starter'.at = "idle" /\ starter'.n = starter.n
             /\ attach'.info = attach.info

\* Every such step is one of those.
LEMMA StarterStepIs ==
    ASSUME AttachInv, StarterSteps
    PROVE  StarterGoes /\ AttachTypes'
<1> USE DEF AttachInv, AttachTypes
<1>1. /\ ~starter.ok \/ starter.at = "idle"
      /\ ~A!Android => starter.at # "radio"
      /\ ~A!Android /\ starter.at \in {"core", "reset", "watch"} => ~attach.watch
  BY DEF NoneBegun, RunOfAddress
<1>2. A!NoRadio \in [net : {"off", "search", "cell", "ip", "route"}, addr : Nat] /\ A!NoRadio.addr = 0
  BY DEF A!NoRadio
<1>3. A!Stopped \in {"core", "idle"}
  BY DEF A!Stopped
<1>4. A!Fails => /\ starter' \in StarterType
                 /\ starter'.at = "idle" /\ starter'.n = starter.n /\ starter'.calls = starter.calls
                 /\ starter'.ok = starter.ok
  <2>1. starter.mishaps + 1 \in Nat
    BY DEF StarterType
  <2> QED
    BY <2>1 DEF A!Fails, StarterType
<1>11. \A place \in {"core", "idle", "reset", "watch"} :
         starter' = [starter EXCEPT !.at = place] =>
            /\ starter' \in StarterType
            /\ starter'.at = place /\ starter'.n = starter.n /\ starter'.calls = starter.calls
            /\ starter'.ok = starter.ok
  BY DEF StarterType
<1>12. \A b \in BOOLEAN : attach' = [attach EXCEPT !.watch = b] =>
         /\ attach' \in [flag : BOOLEAN, late : BOOLEAN, info : Nat, watch : BOOLEAN]
         /\ attach'.flag = attach.flag /\ attach'.info = attach.info /\ attach'.watch = b
  OBVIOUS
<1>13. starter' = [starter EXCEPT !.at = "idle", !.n = @ + 1, !.ok = TRUE]
       \/ starter' = [starter EXCEPT !.at = "reset", !.n = @ + 1] =>
         /\ starter' \in StarterType /\ starter'.calls = starter.calls
         /\ starter'.at = "idle" \/ (starter'.at = "reset" /\ starter'.ok = starter.ok)
  <2>1. starter.n + 1 \in Nat
    BY DEF StarterType
  <2> QED
    BY <2>1 DEF StarterType
<1>14. \A r : r = [net |-> "search", addr |-> 0] =>
         r \in [net : {"off", "search", "cell", "ip", "route"}, addr : Nat] /\ r.addr = 0
  OBVIOUS
<1>5. CASE A!RadioOff
  <2>0. starter.at = "radio" /\ UNCHANGED <<phone, attach, waits>>
    BY <1>5 DEF A!RadioOff
  <2>1. CASE A!Fails /\ UNCHANGED radio
    BY <1>1, <1>4, <2>0, <2>1 DEF StarterGoes
  <2>2. CASE radio' = A!NoRadio /\ starter' = [starter EXCEPT !.at = A!Stopped]
    <3>1. /\ starter' \in StarterType /\ starter'.at \in {"core", "idle"}
          /\ starter'.calls = starter.calls /\ starter'.ok = starter.ok
      BY <1>3, <1>11, <2>2
    <3> QED
      BY <1>1, <1>2, <2>0, <2>2, <3>1 DEF StarterGoes
  <2> QED
    BY <1>5, <2>1, <2>2 DEF A!RadioOff
<1>6. CASE A!AirplaneOff
  <2>0. starter.at = "core" /\ A!Android /\ UNCHANGED <<phone, attach, waits>>
    BY <1>6 DEF A!AirplaneOff
  <2>1. CASE A!Fails /\ radio' \in {radio, [net |-> "search", addr |-> 0]}
    BY <1>1, <1>4, <1>14, <2>0, <2>1 DEF StarterGoes
  <2>2. CASE /\ radio' = [net |-> "search", addr |-> 0]
             /\ starter' = [starter EXCEPT !.at = "idle", !.n = @ + 1, !.ok = TRUE]
    <3>1. starter' \in StarterType /\ starter'.calls = starter.calls /\ starter'.at = "idle"
      BY <1>13, <2>2
    <3> QED
      BY <1>1, <1>14, <2>0, <2>2, <3>1 DEF StarterGoes
  <2> QED
    BY <1>6, <2>1, <2>2 DEF A!AirplaneOff
<1>7. CASE A!StopSut
  <2>1. /\ starter.at = "stop" /\ UNCHANGED <<phone, waits>> /\ radio' = A!NoRadio
        /\ attach' = [attach EXCEPT !.watch = FALSE] /\ starter' = [starter EXCEPT !.at = A!Stopped]
    BY <1>7 DEF A!StopSut
  <2>2. /\ starter' \in StarterType /\ starter'.at \in {"core", "idle"}
        /\ starter'.calls = starter.calls /\ starter'.ok = starter.ok
    BY <1>3, <1>11, <2>1
  <2> QED
    BY <1>1, <1>2, <1>12, <2>1, <2>2 DEF StarterGoes
<1>8. CASE A!StartSut
  <2>0. starter.at = "core" /\ UNCHANGED <<phone, attach, waits>>
    BY <1>8 DEF A!StartSut
  <2>1. CASE A!Fails /\ UNCHANGED radio
    BY <1>1, <1>4, <2>0, <2>1 DEF StarterGoes
  <2>2. CASE /\ radio' = [net |-> "search", addr |-> 0]
             /\ starter' = [starter EXCEPT !.at = "reset", !.n = @ + 1]
    <3>1. starter' \in StarterType /\ starter'.calls = starter.calls
      BY <1>13, <2>2
    <3>2. starter'.at = "reset" /\ starter'.ok = starter.ok
      BY <2>2 DEF StarterType
    <3> QED
      BY <1>1, <1>14, <2>0, <2>2, <3>1, <3>2 DEF StarterGoes
  <2> QED
    BY <1>8, <2>1, <2>2 DEF A!StartSut
<1>9. CASE A!ResetInfo
  <2>1. /\ starter.at = "reset" /\ UNCHANGED <<phone, radio, waits>>
        /\ attach' = [attach EXCEPT !.info = 0] /\ starter' = [starter EXCEPT !.at = "watch"]
    BY <1>9 DEF A!ResetInfo
  <2>2. /\ attach' \in [flag : BOOLEAN, late : BOOLEAN, info : Nat, watch : BOOLEAN]
        /\ attach'.flag = attach.flag /\ attach'.info = 0 /\ attach'.watch = attach.watch
    BY <2>1
  <2>3. /\ starter' \in StarterType /\ starter'.at = "watch" /\ starter'.n = starter.n
        /\ starter'.calls = starter.calls /\ starter'.ok = starter.ok
    BY <1>11, <2>1
  <2> QED
    BY <1>1, <2>1, <2>2, <2>3 DEF StarterGoes
<1>10. CASE A!StartWatch
  <2>1. /\ starter.at = "watch" /\ UNCHANGED <<phone, radio, waits>>
        /\ attach' = [attach EXCEPT !.watch = TRUE]
        /\ starter' = [starter EXCEPT !.at = "idle", !.ok = TRUE]
    BY <1>10 DEF A!StartWatch
  <2>2. /\ starter' \in StarterType /\ starter'.at = "idle" /\ starter'.n = starter.n
        /\ starter'.calls = starter.calls
    BY <2>1 DEF StarterType
  <2> QED
    BY <1>1, <1>12, <2>1, <2>2 DEF StarterGoes
<1> QED
  BY <1>5, <1>6, <1>7, <1>8, <1>9, <1>10, Zenon DEF StarterSteps

\* And keeps the invariant: no wait is undisturbed.
LEMMA StarterKeeps ==
    ASSUME AttachInv, StarterSteps
    PROVE  AttachInv'
<1>1. StarterGoes /\ AttachTypes'
  BY StarterStepIs
<1> USE DEF AttachInv, StarterGoes
<1>2. \A w \in Waiter : ~A!Undisturbed(w)'
  BY <1>1 DEF NoneBegun, A!Undisturbed
<1>3. A!Android' <=> A!Android
  BY <1>1 DEF A!Android
<1>4. NoneBegun'
  BY <1>1, <1>2 DEF NoneBegun
<1>5. RunOfAddress'
  BY <1>1, <1>3 DEF RunOfAddress, AttachTypes
<1>6. RunOfWait'
  BY <1>1, <1>2, <1>3 DEF RunOfWait
<1>7. OwnsFlag'
  <2>1. \A w \in Waiter : A!Waiting(w)' <=> A!Waiting(w)
    BY <1>1 DEF A!Waiting
  <2> QED
    BY <1>1, <1>2, <2>1 DEF OwnsFlag
<1> QED
  BY <1>1, <1>4, <1>5, <1>6, <1>7

\* So does a call of Start or Stop, which disturbs every wait.
LEMMA BeginCallKeeps ==
    ASSUME AttachInv, NEW start \in BOOLEAN, A!BeginCall(start)
    PROVE  AttachInv'
<1> USE DEF AttachInv
<1>1. /\ starter.at = "idle" /\ phone' = phone /\ radio' = radio /\ waits' = waits
      /\ starter'.calls = starter.calls + 1 /\ ~starter'.ok /\ starter'.n = starter.n
      /\ starter'.at \in {"idle", "radio", "stop"} /\ (starter'.at = "radio" => A!Android)
      /\ attach'.info = attach.info /\ attach'.watch = attach.watch
      /\ AttachTypes'
  <2>0. starter.mishaps + 1 \in Nat /\ starter.calls + 1 \in Nat
    BY DEF AttachTypes, StarterType
  <2>1. /\ starter.at = "idle" /\ UNCHANGED <<phone, radio, waits>>
        /\ A!StopOrder \in {"radio", "stop"} /\ (A!StopOrder = "radio" => A!Android)
    BY DEF A!BeginCall, A!Idle, A!StopOrder
  <2>2. /\ attach'.info = attach.info /\ attach'.watch = attach.watch
        /\ attach' \in [flag : BOOLEAN, late : BOOLEAN, info : Nat, watch : BOOLEAN]
    BY DEF A!BeginCall, AttachTypes
  <2>3. /\ starter'.calls = starter.calls + 1 /\ ~starter'.ok /\ starter'.n = starter.n
        /\ starter'.at \in {"idle", A!StopOrder} /\ starter' \in StarterType
    <3>1. CASE starter' = [starter EXCEPT !.at = A!StopOrder, !.start = start, !.calls = @ + 1, !.ok = FALSE]
      BY <2>0, <2>1, <3>1 DEF AttachTypes, StarterType
    <3>2. CASE starter' = [starter EXCEPT !.calls = @ + 1, !.ok = FALSE, !.mishaps = @ + 1]
      BY <2>0, <2>1, <3>2 DEF AttachTypes, StarterType
    <3> QED
      BY <3>1, <3>2 DEF A!BeginCall
  <2> QED
    BY <2>1, <2>2, <2>3 DEF AttachTypes
<1>2. \A w \in Waiter : ~A!Undisturbed(w)'
  BY <1>1 DEF NoneBegun, A!Undisturbed, AttachTypes, StarterType
<1>3. A!Android' <=> A!Android
  BY <1>1 DEF A!Android
<1>4. NoneBegun'
  BY <1>1, <1>2 DEF NoneBegun, AttachTypes, StarterType
<1>5. RunOfAddress'
  BY <1>1, <1>3 DEF RunOfAddress
<1>6. RunOfWait'
  BY <1>1, <1>2, <1>3 DEF RunOfWait
<1>7. OwnsFlag'
  <2>1. \A w \in Waiter : A!Waiting(w)' <=> A!Waiting(w)
    BY <1>1 DEF A!Waiting
  <2> QED
    BY <1>1, <1>2, <2>1 DEF OwnsFlag
<1> QED
  BY <1>1, <1>4, <1>5, <1>6, <1>7

\* So do the UE, whose address is always that of the last run, and the clock.
LEMMA UeKeeps ==
    ASSUME AttachInv, A!Advance \/ A!TimePasses
    PROVE  AttachInv'
<1> USE DEF AttachInv
<1>1. phone' = phone /\ starter' = starter /\ waits' = waits
  BY DEF A!Advance, A!TimePasses
<1>2. /\ AttachTypes'
      /\ attach'.flag = attach.flag /\ (attach'.watch => attach.watch)
      /\ radio'.addr \in {radio.addr, 0, starter.n}
      /\ attach'.info = attach.info \/ (attach.watch /\ attach'.info = starter.n)
  <2>1. CASE A!Advance
    <3>1. \A net : A!Steps(net) \subseteq {"cell", "ip", "route"}
      BY DEF A!Steps
    <3>2. PICK net \in {"cell", "ip", "route"} :
             radio' = [net |-> net, addr |-> IF net = "cell" THEN 0 ELSE starter.n]
      BY <2>1, <3>1 DEF A!Advance
    <3>3. radio' \in [net : {"off", "search", "cell", "ip", "route"}, addr : Nat]
          /\ radio'.addr \in {0, starter.n}
      BY <3>2 DEF AttachTypes, StarterType
    <3>4. /\ attach' \in [flag : BOOLEAN, late : BOOLEAN, info : Nat, watch : BOOLEAN]
          /\ attach'.flag = attach.flag /\ (attach'.watch => attach.watch)
          /\ attach'.info = attach.info \/ (attach.watch /\ attach'.info = starter.n)
      BY <2>1 DEF A!Advance, AttachTypes, StarterType
    <3> QED
      BY <1>1, <3>3, <3>4 DEF AttachTypes
  <2>2. CASE A!TimePasses
    BY <1>1, <2>2 DEF A!TimePasses, AttachTypes
  <2> QED
    BY <2>1, <2>2
<1>3. A!Android' <=> A!Android
  BY <1>1 DEF A!Android
<1>4. \A w \in Waiter : (A!Waiting(w)' <=> A!Waiting(w)) /\ (A!Undisturbed(w)' <=> A!Undisturbed(w))
  BY <1>1 DEF A!Waiting, A!Undisturbed
<1>5. NoneBegun'
  BY <1>1, <1>4 DEF NoneBegun
<1>6. RunOfAddress'
  BY <1>1, <1>2, <1>3 DEF RunOfAddress
<1>7. RunOfWait'
  BY <1>1, <1>3, <1>4 DEF RunOfWait
<1>8. OwnsFlag'
  BY <1>1, <1>2, <1>3, <1>4 DEF OwnsFlag
<1> QED
  BY <1>2, <1>5, <1>6, <1>7, <1>8

\* The invariant of the attach.
LEMMA AttachInvariance == MCSpec => [](kind = "attach" => AttachInv)
<1>1. MCInit => (kind = "attach" => AttachInv)
  BY AttachInit DEF MCInit
<1>2. AttachInv /\ A!Next => AttachInv'
  <2> SUFFICES ASSUME AttachInv, A!Next PROVE AttachInv'
    OBVIOUS
  <2>1. CASE A!Advance \/ A!TimePasses
    BY <2>1, UeKeeps
  <2>2. CASE \E start \in BOOLEAN : A!BeginCall(start)
    BY <2>2, BeginCallKeeps
  <2>3. CASE StarterSteps
    BY <2>3, StarterKeeps
  <2>4. CASE \E w \in Waiter : A!BeginWait(w)
    BY <2>4, BeginWaitKeeps
  <2>5. ASSUME NEW w \in Waiter, WaitSteps(w) PROVE AttachInv'
    <3>1. phone' = phone /\ radio' = radio /\ starter' = starter
      BY <2>5, WaitStepIs DEF AttachInv, WaitGoes
    <3>2. AttachTypes'
      BY <2>5, <3>1, WaitStepIs DEF AttachInv, AttachTypes
    <3> QED
      BY <2>5, <3>2, WaitStepIs, WaitGoesKeeps DEF AttachInv
  <2> QED
    BY <2>1, <2>2, <2>3, <2>4, <2>5, Zenon DEF A!Next, StarterSteps, WaitSteps
<1>3. (kind = "attach" => AttachInv)
        /\ [MCNext]_<<reportVars, ueVars, wsVars, coreVars, execVars, attachVars, viaviVars, reportsVars>>
      => (kind = "attach" => AttachInv)'
  <2> SUFFICES ASSUME kind = "attach" => AttachInv, kind' = "attach",
                      [MCNext]_<<reportVars, ueVars, wsVars, coreVars, execVars, attachVars, viaviVars,
                                 reportsVars>>
               PROVE  AttachInv'
    OBVIOUS
  <2>1. CASE MCNext
    BY <1>2, <2>1, StepOfKind DEF Drivers
  <2>2. CASE UNCHANGED <<reportVars, ueVars, wsVars, coreVars, execVars, attachVars, viaviVars, reportsVars>>
    BY <2>2 DEF reportVars, attachVars, AttachInv, AttachTypes, NoneBegun, RunOfAddress, RunOfWait,
       OwnsFlag, A!Waiting, A!Undisturbed, A!Android
  <2> QED
    BY <2>1, <2>2
<1> QED
  BY <1>1, <1>3, PTL DEF MCSpec

\* A wait answers the address of the run it was made for, and none but a Stop, a
\* Start or another wait interrupts it, for any number of threads that wait, calls
\* and mishaps.
THEOREM WaitsAreOwn == MCSpec => []AttachIsOwn
<1>1. (kind = "attach" => AttachInv) => AttachIsOwn
  BY DEF AttachInv, RunOfWait, OwnsFlag, AttachIsOwn, A!AttachIsOwn, A!AddressIsOfRun, A!InterruptedByAnother
<1> QED
  BY <1>1, AttachInvariance, PTL

-----------------------------------------------------------------------------
(* The core: its types.                                                    *)

\* The programs, what is known of one, and the call of Start or Stop.
CorePrograms == {"mme", "ims", "open5gs"}
Program == [up : BOOLEAN, port : Nat, ws : CorePrograms \cup {"none"}]
CoreCall == [op : {"Start", "Stop"}, step : {"services", "stop", "launch", "udr", "license", "connect"},
             at : CorePrograms]

\* Start is called while the test is set up, Stop afterwards, and each goes through
\* the programs of the core.
CoreTypes ==
    /\ core \in CorePrograms /\ phase \in {"setup", "running", "ending", "failed"}
    /\ api \in Nat \ {0} /\ offset \in Nat /\ clean \in BOOLEAN
    /\ prog \in [CorePrograms -> Program] /\ DOMAIN metrics = CorePrograms
    /\ call = D!NoCall \/ call \in CoreCall
    /\ call \in CoreCall =>
          /\ call.op = "Start" <=> phase = "setup"
          /\ call.at \in D!Programs
          /\ call.step \in (IF core = "open5gs" THEN {"services", "stop", "launch", "udr"}
                            ELSE {"stop", "launch", "license", "connect"})
          /\ call.op = "Stop" => call.step \in {"services", "stop"}

\* No call is none of the calls.
LEMMA NoCallIs == D!NoCall.op = "none" /\ D!NoCall.step = "none" /\ D!NoCall \notin CoreCall
<1>1. D!NoCall.op = "none" /\ D!NoCall.step = "none"
  BY DEF D!NoCall
<1>2. \A c \in CoreCall : c.op # "none"
  BY DEF CoreCall
<1> QED
  BY <1>1, <1>2

\* The programs of each core.
LEMMA ProgramsAre ==
    ASSUME core \in CorePrograms
    PROVE  /\ core = "mme" => D!Programs = {"mme"}
           /\ core = "ims" => D!Programs = {"mme", "ims"}
           /\ core = "open5gs" => D!Programs = {"open5gs"}
           /\ D!Programs \subseteq CorePrograms
  BY DEF D!Programs, CorePrograms

\* A call that goes on keeps its name.
LEMMA AtIs ==
    ASSUME call \in CoreCall, NEW p \in CorePrograms,
           NEW next \in {"services", "stop", "launch", "udr", "license", "connect"}, D!At(next, p)
    PROVE  call' \in CoreCall /\ call'.op = call.op /\ call'.step = next /\ call'.at = p
  BY DEF CoreCall, D!At

\* A program that is off, and one that has been launched.
LEMMA OffIs == D!Off \in Program /\ ~D!Off.up /\ D!Off.port = 0 /\ D!Off.ws = "none"
  BY DEF D!Off, Program

\* Programs with the same fields are the same.
LEMMA SameProgram ==
    ASSUME NEW r \in Program, NEW s \in Program, r.up <=> s.up, r.port = s.port, r.ws = s.ws
    PROVE  r = s
  BY DEF Program

\* A call is at a program and a step.
LEMMA CallIs ==
    ASSUME CoreTypes, call # D!NoCall \/ call.step # "none"
    PROVE  /\ call \in CoreCall /\ call.op \in {"Start", "Stop"} /\ call.at \in CorePrograms
           /\ call.step \in {"services", "stop", "launch", "udr", "license", "connect"}
           /\ call.op = "Start" <=> phase = "setup"
           /\ call.op = "Stop" => call.step \in {"services", "stop"}
           /\ core = "open5gs" => call.at = "open5gs" /\ call.step \in {"services", "stop", "launch", "udr"}
           /\ core = "mme" => call.at = "mme" /\ call.step \in {"stop", "launch", "license", "connect"}
           /\ core = "ims" => call.at \in {"mme", "ims"} /\ call.step \in {"stop", "launch", "license", "connect"}
<1>1. call \in CoreCall
  BY NoCallIs DEF CoreTypes
<1>2. /\ call.op \in {"Start", "Stop"} /\ call.at \in CorePrograms
      /\ call.step \in {"services", "stop", "launch", "udr", "license", "connect"}
  BY <1>1 DEF CoreCall
<1> QED
  BY <1>1, <1>2, ProgramsAre DEF CoreTypes

\* What StopProgram does to the programs.
AfterStop(p) ==
    [q \in DOMAIN prog |-> IF q = p THEN D!Off
                           ELSE IF q = D!Answers(p) THEN [prog[q] EXCEPT !.up = FALSE, !.port = 0]
                           ELSE prog[q]]

\* The program that was stopped is off, and those that were off stay off.
LEMMA AfterStopIs ==
    ASSUME prog \in [CorePrograms -> Program], NEW p \in CorePrograms
    PROVE  /\ AfterStop(p) \in [CorePrograms -> Program]
           /\ AfterStop(p)[p] = D!Off
           /\ \A q \in CorePrograms : /\ prog[q] = D!Off => AfterStop(p)[q] = D!Off
                                      /\ q # p => AfterStop(p)[q].ws = prog[q].ws
<1>1. \A q \in CorePrograms :
         /\ [prog[q] EXCEPT !.up = FALSE, !.port = 0] \in Program
         /\ [prog[q] EXCEPT !.up = FALSE, !.port = 0].ws = prog[q].ws
  BY DEF Program
<1>2. [D!Off EXCEPT !.up = FALSE, !.port = 0] = D!Off
  <2> DEFINE off == [D!Off EXCEPT !.up = FALSE, !.port = 0]
  <2>1. off \in Program /\ ~off.up /\ off.port = 0 /\ off.ws = "none"
    BY OffIs DEF Program
  <2> HIDE DEF off
  <2>2. off = D!Off
    BY <2>1, SameProgram, OffIs
  <2> QED
    BY <2>2 DEF off
<1> QED
  BY <1>1, <1>2, OffIs DEF AfterStop

\* What Dies does to the programs.
AfterDeath(p) ==
    [q \in DOMAIN prog |-> IF q = p THEN [prog[q] EXCEPT !.up = FALSE, !.port = 0, !.ws = "none"]
                           ELSE IF prog[q].ws = p THEN [prog[q] EXCEPT !.ws = "none"] ELSE prog[q]]

\* A death connects nobody, and what was off stays off.
LEMMA AfterDeathIs ==
    ASSUME prog \in [CorePrograms -> Program], NEW p \in CorePrograms
    PROVE  /\ AfterDeath(p) \in [CorePrograms -> Program]
           /\ \A q \in CorePrograms :
                 /\ prog[q] = D!Off => AfterDeath(p)[q] = D!Off
                 /\ AfterDeath(p)[q].ws \in {prog[q].ws, "none"}
                 /\ AfterDeath(p)[q].port \in {prog[q].port, 0}
                 /\ (prog[q].up <=> prog[q].port # 0) => (AfterDeath(p)[q].up <=> AfterDeath(p)[q].port # 0)
<1>0. \A q \in CorePrograms : [prog[q] EXCEPT !.up = FALSE, !.port = 0, !.ws = "none"] = D!Off
  <2> TAKE q \in CorePrograms
  <2> DEFINE off == [prog[q] EXCEPT !.up = FALSE, !.port = 0, !.ws = "none"]
  <2>1. off \in Program /\ ~off.up /\ off.port = 0 /\ off.ws = "none"
    BY DEF Program
  <2> HIDE DEF off
  <2>2. off = D!Off
    BY <2>1, SameProgram, OffIs
  <2> QED
    BY <2>2 DEF off
<1>1. \A q \in CorePrograms :
         /\ [prog[q] EXCEPT !.ws = "none"] \in Program
         /\ [prog[q] EXCEPT !.ws = "none"].ws = "none"
         /\ [prog[q] EXCEPT !.ws = "none"].port = prog[q].port
         /\ [prog[q] EXCEPT !.ws = "none"].up = prog[q].up
  BY DEF Program
<1>2. \A q \in CorePrograms : prog[q] = D!Off => [prog[q] EXCEPT !.ws = "none"] = D!Off
  BY DEF D!Off
<1> QED
  BY <1>0, <1>1, <1>2, OffIs DEF AfterDeath

\* The steps of a call.
CallSteps == D!StopServices \/ D!StopProgram \/ D!Launch \/ D!AwaitUdr \/ D!License \/ D!Connect

\* The threads of the traffic, which leave the core and the call alone.
TrafficSteps ==
    \/ \E t \in Traffic : D!FreePort(t) \/ D!Clean(t) \/ D!Create(t) \/ D!Put(t) \/ D!StopIPerf(t) \/ D!GiveUp(t)
    \/ \E i \in DOMAIN servers : D!Serve(i)

\* What the traffic leaves alone.
LEMMA TrafficFrame ==
    ASSUME TrafficSteps
    PROVE  UNCHANGED <<core, round, phase, call, api, prog, metrics, added, address, offset, found, clean>>
  BY DEF TrafficSteps, D!FreePort, D!Clean, D!Create, D!Put, D!StopIPerf, D!GiveUp, D!Serve,
     D!othersOfTraffic, D!ueVars

\* Where a step of a call goes: on, or to the end of the call.
CallGoes ==
    \/ call' \in CoreCall /\ call'.op = call.op /\ phase' = phase
    \/ call' = D!NoCall /\ call.op = "Start" /\ phase' \in {"running", "ending"}
    \/ call' = D!NoCall /\ call.op = "Stop" /\ phase' \in {"setup", "failed"}

\* The ways of StopProgram.
LEMMA StopProgramIs ==
    ASSUME D!StopProgram
    PROVE  /\ UNCHANGED <<core, api, address, offset, services, servers, iperf, found>>
           /\ \/ /\ prog' = AfterStop(call.at) /\ clean' = clean
                 /\ metrics' = IF D!Answers(call.at) = "none" THEN metrics
                               ELSE [metrics EXCEPT ![call.at] = <<D!Answers(call.at), round>>]
                 /\ \/ /\ call.op = "Start" /\ D!At("launch", call.at) /\ UNCHANGED <<phase, added, round>>
                    \/ /\ call.op # "Start" /\ call.at = "ims" /\ D!At("stop", "mme")
                       /\ UNCHANGED <<phase, added, round>>
                    \/ /\ call.op # "Start" /\ call.at # "ims" /\ call' = D!NoCall /\ phase' = "setup"
                       /\ added' = {} /\ round' = round + 1
              \/ prog[call.at].ws # "none" /\ D!Raise /\ UNCHANGED <<metrics, prog, added, round>>
  BY DEF D!StopProgram, AfterStop, D!Done, D!trafficVars

\* The ways of Connect.
LEMMA ConnectIs ==
    ASSUME D!Connect, prog \in [CorePrograms -> Program]
    PROVE  /\ UNCHANGED <<core, round, metrics, added, address, offset, services, servers, iperf, found>>
           /\ \/ /\ \A q \in CorePrograms : prog[q].port # api
                 /\ D!Raise /\ UNCHANGED <<api, prog>>
              \/ \E q \in CorePrograms :
                    /\ prog[q].port = api /\ prog' = [prog EXCEPT ![call.at].ws = q]
                    /\ \/ ~prog[call.at].up /\ D!Raise /\ UNCHANGED api
                       \/ /\ prog[call.at].up /\ core = "ims" /\ call.at = "mme" /\ D!At("stop", "ims")
                          /\ api' = api + 1 /\ UNCHANGED <<phase, clean>>
                       \/ /\ prog[call.at].up /\ ~(core = "ims" /\ call.at = "mme")
                          /\ call' = D!NoCall /\ phase' = "running" /\ UNCHANGED <<api, clean>>
<1> DEFINE listeners == {q \in DOMAIN prog : prog[q].port = api}
<1>1. UNCHANGED <<core, round, metrics, added, address, offset, services, servers, iperf, found>>
  BY DEF D!Connect, D!ueVars, D!trafficVars
<1>2. CASE listeners = {}
  <2>1. D!Raise /\ UNCHANGED <<api, prog>>
    BY <1>2 DEF D!Connect
  <2> QED
    BY <1>1, <1>2, <2>1
<1>3. CASE listeners # {}
  <2>1. /\ prog' = [prog EXCEPT ![call.at].ws = CHOOSE q \in listeners : TRUE]
        /\ IF ~prog[call.at].up THEN D!Raise /\ UNCHANGED api
           ELSE IF core = "ims" /\ call.at = "mme"
                THEN D!At("stop", "ims") /\ api' = D!NextPort /\ UNCHANGED <<phase, clean>>
                ELSE D!Done("running") /\ UNCHANGED <<api, clean>>
    BY <1>3 DEF D!Connect
  <2>2. PICK q \in listeners : prog' = [prog EXCEPT ![call.at].ws = q]
    BY <1>3, <2>1
  <2>3. q \in CorePrograms /\ prog[q].port = api
    BY <2>2
  <2> HIDE DEF listeners
  <2> QED
    BY <1>1, <2>1, <2>2, <2>3 DEF D!NextPort, D!Done
<1> QED
  BY <1>2, <1>3

\* What ends a call with an exception.
LEMMA RaiseIs ==
    ASSUME CoreTypes, call \in CoreCall, D!Raise
    PROVE  /\ call' = D!NoCall /\ clean' \in BOOLEAN /\ (clean' => clean /\ call.op = "Stop")
           /\ \/ call.op = "Start" /\ phase' = "ending"
              \/ call.op = "Stop" /\ phase' = "failed"
  BY CallIs DEF D!Raise, D!Done, CoreTypes

\* Every step keeps the types.
LEMMA CoreTypesCall ==
    ASSUME CoreTypes, CallSteps
    PROVE  CoreTypes' /\ CallGoes /\ call \in CoreCall
<1>0. call \in CoreCall
  BY CallIs DEF CallSteps, D!StopServices, D!StopProgram, D!Launch, D!AwaitUdr, D!License, D!Connect
<1>1. /\ core' = core
      /\ api' \in Nat \ {0} /\ offset' \in Nat /\ clean' \in BOOLEAN
      /\ DOMAIN metrics' = CorePrograms
  <2>1. CASE D!StopServices
    BY <2>1 DEF D!StopServices, CoreTypes, D!Raise, D!ueVars
  <2>2. CASE D!StopProgram
    BY <2>2 DEF D!StopProgram, CoreTypes, D!Raise
  <2>3. CASE D!Launch
    BY <2>3 DEF D!Launch, CoreTypes
  <2>4. CASE D!AwaitUdr
    BY <2>4 DEF D!AwaitUdr, CoreTypes, D!Raise, D!ueVars
  <2>5. CASE D!License
    BY <2>5 DEF D!License, CoreTypes, D!Raise, D!ueVars
  <2>6. CASE D!Connect
    <3>1. api \in Nat /\ api + 1 \in Nat \ {0} /\ prog \in [CorePrograms -> Program] /\ clean \in BOOLEAN
      BY DEF CoreTypes
    <3>2. core' = core /\ offset' = offset /\ metrics' = metrics
      BY <2>6, <3>1, ConnectIs
    <3>3. api' \in {api, api + 1} /\ (D!Raise \/ clean' = clean)
      BY <2>6, <3>1, ConnectIs
    <3>4. clean' \in BOOLEAN
      BY <1>0, <3>1, <3>3, RaiseIs
    <3> QED
      BY <3>1, <3>2, <3>3, <3>4 DEF CoreTypes
  <2> QED
    BY <2>1, <2>2, <2>3, <2>4, <2>5, <2>6, Zenon DEF CallSteps
<1>2. prog' \in [CorePrograms -> Program]
  <2>1. CASE D!StopProgram
    <3>1. call.at \in CorePrograms /\ prog \in [CorePrograms -> Program]
      BY <1>0, CallIs, NoCallIs DEF CoreTypes
    <3>2. AfterStop(call.at) \in [CorePrograms -> Program]
      BY <3>1, AfterStopIs
    <3>3. prog' = AfterStop(call.at) \/ prog' = prog
      BY <2>1, StopProgramIs
    <3> QED
      BY <3>1, <3>2, <3>3
  <2>2. CASE D!Launch
    <3>1. \A n \in Nat : [up |-> TRUE, port |-> n, ws |-> "none"] \in Program
      BY DEF Program
    <3>2. PICK n \in Nat : prog' = [prog EXCEPT ![call.at] = [up |-> TRUE, port |-> n, ws |-> "none"]]
      BY <2>2 DEF D!Launch, CoreTypes
    <3> QED
      BY <3>1, <3>2 DEF CoreTypes
  <2>3. CASE D!Connect
    <3>1. CASE prog' = prog
      BY <3>1 DEF CoreTypes
    <3>2. CASE \E q \in CorePrograms : prog' = [prog EXCEPT ![call.at].ws = q]
      <4>1. PICK q \in CorePrograms : prog' = [prog EXCEPT ![call.at].ws = q]
        BY <3>2
      <4>2. call.at \in CorePrograms /\ prog \in [CorePrograms -> Program]
        BY <1>0, CallIs, NoCallIs DEF CoreTypes
      <4>3. [prog[call.at] EXCEPT !.ws = q] \in Program
        BY <4>2 DEF Program
      <4> QED
        BY <4>1, <4>2, <4>3
    <3> QED
      BY <2>3, <3>1, <3>2, ConnectIs DEF CoreTypes
  <2>4. CASE prog' = prog
    BY <2>4 DEF CoreTypes
  <2> QED
    BY <2>1, <2>2, <2>3, <2>4 DEF CallSteps, D!StopServices, D!AwaitUdr, D!License
<1>3. /\ CallGoes
      /\ call' \in CoreCall =>
            /\ call'.at \in D!Programs
            /\ call'.step \in (IF core = "open5gs" THEN {"services", "stop", "launch", "udr"}
                               ELSE {"stop", "launch", "license", "connect"})
            /\ call.op = "Stop" => call'.step \in {"services", "stop"}
  <2>0. /\ call.at \in CorePrograms /\ call.at \in D!Programs /\ call.op \in {"Start", "Stop"}
        /\ call.step \in (IF core = "open5gs" THEN {"services", "stop", "launch", "udr"}
                           ELSE {"stop", "launch", "license", "connect"})
        /\ call.op = "Stop" => call.step \in {"services", "stop"}
        /\ core = "open5gs" <=> call.at = "open5gs"
        /\ call.at = "ims" => core = "ims"
        /\ core = "ims" => "mme" \in D!Programs /\ "ims" \in D!Programs
        /\ "mme" \in CorePrograms /\ "ims" \in CorePrograms
    BY <1>0, CallIs, NoCallIs, ProgramsAre DEF CoreTypes, CorePrograms
  <2>1. CASE D!Raise
    BY <1>0, <2>1, RaiseIs, NoCallIs DEF CallGoes
  <2>2. CASE D!StopServices
    <3>1. CASE D!At("stop", core) /\ phase' = phase
      BY <1>0, <2>0, <2>2, <3>1, AtIs DEF CallGoes, D!StopServices, CoreTypes
    <3>2. CASE call' = call /\ phase' = phase
      BY <1>0, <2>0, <3>2 DEF CallGoes
    <3> QED
      BY <2>1, <2>2, <3>1, <3>2 DEF D!StopServices
  <2>3. CASE D!StopProgram
    <3>1. CASE call.op = "Start" /\ D!At("launch", call.at) /\ phase' = phase
      BY <1>0, <2>0, <3>1, AtIs DEF CallGoes
    <3>2. CASE call.at = "ims" /\ D!At("stop", "mme") /\ phase' = phase
      BY <1>0, <2>0, <3>2, AtIs DEF CallGoes
    <3>3. CASE call.op # "Start" /\ call' = D!NoCall /\ phase' = "setup"
      BY <1>0, <2>0, <3>3, NoCallIs DEF CallGoes
    <3> QED
      BY <2>1, <2>3, <3>1, <3>2, <3>3, StopProgramIs
  <2>4. CASE D!Launch
    <3>1. call.op = "Start" /\ phase' = phase
      BY <2>0, <2>4 DEF D!Launch
    <3>2. CASE call.at = "open5gs"
      <4>1. D!At("udr", call.at)
        BY <2>4, <3>2 DEF D!Launch
      <4> QED
        BY <1>0, <2>0, <3>1, <3>2, <4>1, AtIs DEF CallGoes
    <3>3. CASE call.at # "open5gs"
      <4>1. D!At("license", call.at)
        BY <2>4, <3>3 DEF D!Launch
      <4> QED
        BY <1>0, <2>0, <3>1, <3>3, <4>1, AtIs DEF CallGoes
    <3> QED
      BY <3>2, <3>3
  <2>5. CASE D!AwaitUdr
    <3>1. CASE D!Done("running")
      <4>1. call.op = "Start"
        BY <2>5, <1>0, <2>0 DEF D!AwaitUdr
      <4> QED
        BY <1>0, <3>1, <4>1, NoCallIs DEF CallGoes, D!Done
    <3> QED
      BY <2>1, <2>5, <3>1 DEF D!AwaitUdr
  <2>6. CASE D!License
    BY <1>0, <2>0, <2>1, <2>6, AtIs DEF CallGoes, D!License
  <2>7. CASE D!Connect
    <3>1. CASE core = "ims" /\ D!At("stop", "ims") /\ phase' = phase
      BY <1>0, <2>0, <3>1, AtIs DEF CallGoes
    <3>2. CASE call' = D!NoCall /\ phase' = "running"
      <4>1. call.op = "Start"
        BY <2>7, <1>0, <2>0 DEF D!Connect
      <4> QED
        BY <1>0, <3>2, <4>1, NoCallIs DEF CallGoes
    <3> QED
      BY <2>1, <2>7, <3>1, <3>2, ConnectIs DEF CoreTypes
  <2> QED
    BY <2>2, <2>3, <2>4, <2>5, <2>6, <2>7, Zenon DEF CallSteps
<1>4. D!Programs' = D!Programs
  BY <1>1 DEF D!Programs
<1> QED
  BY <1>0, <1>1, <1>2, <1>3, <1>4, NoCallIs, CallIs DEF CoreTypes, CallGoes

\* The steps of the core.
CoreSteps ==
    \/ \E u \in Ue : D!AddUESubscriber(u)
    \/ D!CallStart \/ D!CallStop \/ CallSteps
    \/ \E p \in D!Programs : D!Dies(p)
    \/ TrafficSteps

\* They are its next-state relation.
LEMMA CoreStepsAre == D!Next => CoreSteps
  BY Zenon DEF D!Next, CoreSteps, CallSteps, TrafficSteps

\* The types hold initially.
LEMMA CoreTypesInit == CoreKinds \subseteq CorePrograms /\ D!Init => CoreTypes
<1> SUFFICES ASSUME CoreKinds \subseteq CorePrograms, D!Init PROVE CoreTypes
  OBVIOUS
<1>1. /\ core \in CorePrograms /\ phase = "setup" /\ call = D!NoCall /\ api = 1 /\ offset = 0 /\ clean = FALSE
      /\ prog = [p \in CorePrograms |-> D!Off] /\ DOMAIN metrics = CorePrograms
  BY DEF D!Init, CorePrograms
<1>2. prog \in [CorePrograms -> Program]
  BY <1>1, OffIs
<1>3. call \notin CoreCall /\ api \in Nat \ {0} /\ offset \in Nat
  BY <1>1, NoCallIs
<1> QED
  BY <1>1, <1>2, <1>3 DEF CoreTypes

\* Every step of the core keeps the types.
LEMMA CoreTypesNext ==
    ASSUME CoreTypes, CoreSteps \/ UNCHANGED coreVars
    PROVE  CoreTypes'
<1>0. D!Programs' = D!Programs \/ core' # core
  BY DEF D!Programs
<1>1. CASE \E u \in Ue : D!AddUESubscriber(u)
  <2>1. PICK u \in Ue : D!AddUESubscriber(u)
    BY <1>1
  <2>2. UNCHANGED <<core, phase, call, api, prog, metrics, clean>>
    BY <2>1 DEF D!AddUESubscriber
  <2>3. offset' \in Nat
    <3>1. offset + 1 \in Nat
      BY DEF CoreTypes
    <3> QED
      BY <2>1, <3>1 DEF D!AddUESubscriber, D!NextOffset, CoreTypes
  <2> QED
    BY <1>0, <2>2, <2>3 DEF CoreTypes
<1>2. CASE D!CallStart \/ D!CallStop
  <2>1. UNCHANGED <<core, phase, api, prog, metrics, offset>> /\ clean' \in BOOLEAN
    BY <1>2 DEF D!CallStart, D!CallStop, D!ueVars, CoreTypes
  <2>2. CASE D!CallStart
    <3> DEFINE where == IF core = "open5gs" THEN core ELSE "mme"
               first == IF core = "open5gs" THEN "services" ELSE "stop"
    <3>1. call' = [op |-> "Start", step |-> first, at |-> where] /\ phase = "setup"
      BY <2>2 DEF D!CallStart
    <3>2. where \in D!Programs /\ where \in CorePrograms
      BY ProgramsAre DEF CoreTypes, CorePrograms
    <3>3. /\ first \in {"services", "stop", "launch", "udr", "license", "connect"}
          /\ first \in (IF core = "open5gs" THEN {"services", "stop", "launch", "udr"}
                        ELSE {"stop", "launch", "license", "connect"})
          /\ first \in {"services", "stop"}
      OBVIOUS
    <3> HIDE DEF where, first
    <3>4. call' \in CoreCall /\ call'.op = "Start" /\ call'.step = first /\ call'.at = where
      BY <3>1, <3>2, <3>3 DEF CoreCall
    <3> QED
      BY <1>0, <2>1, <3>1, <3>2, <3>3, <3>4 DEF CoreTypes
  <2>3. CASE D!CallStop
    <3> DEFINE where == CASE core = "ims" -> "ims" [] OTHER -> core
               first == IF core = "open5gs" THEN "services" ELSE "stop"
    <3>1. call' = [op |-> "Stop", step |-> first, at |-> where] /\ phase # "setup"
      BY <2>3 DEF D!CallStop
    <3>2. where \in D!Programs /\ where \in CorePrograms
      BY ProgramsAre DEF CoreTypes, CorePrograms
    <3>3. /\ first \in {"services", "stop", "launch", "udr", "license", "connect"}
          /\ first \in (IF core = "open5gs" THEN {"services", "stop", "launch", "udr"}
                        ELSE {"stop", "launch", "license", "connect"})
          /\ first \in {"services", "stop"}
      OBVIOUS
    <3> HIDE DEF where, first
    <3>4. call' \in CoreCall /\ call'.op = "Stop" /\ call'.step = first /\ call'.at = where
      BY <3>1, <3>2, <3>3 DEF CoreCall
    <3> QED
      BY <1>0, <2>1, <3>1, <3>2, <3>3, <3>4 DEF CoreTypes
  <2> QED
    BY <1>2, <2>2, <2>3
<1>3. CASE CallSteps
  BY <1>3, CoreTypesCall
<1>4. CASE \E p \in D!Programs : D!Dies(p)
  <2>1. PICK p \in D!Programs : D!Dies(p)
    BY <1>4
  <2>2. /\ UNCHANGED <<core, phase, call, api, metrics, offset>> /\ clean' \in BOOLEAN
        /\ prog' = AfterDeath(p)
    BY <2>1 DEF D!Dies, D!ueVars, AfterDeath
  <2>3. p \in CorePrograms
    BY <2>1, ProgramsAre DEF CoreTypes
  <2>4. prog' \in [CorePrograms -> Program]
    BY <2>2, <2>3, AfterDeathIs DEF CoreTypes
  <2> QED
    BY <1>0, <2>2, <2>4 DEF CoreTypes
<1>5. CASE TrafficSteps
  BY <1>0, <1>5, TrafficFrame DEF CoreTypes
<1>6. CASE UNCHANGED coreVars
  BY <1>0, <1>6 DEF coreVars, CoreTypes
<1> QED
  BY <1>1, <1>2, <1>3, <1>4, <1>5, <1>6, Zenon DEF CoreSteps

\* What the properties of the core rest on: the traffic runs between a Start and a
\* Stop; Open5gs has no websocket; a subscriber of this test has an address below
\* the next one until the core starts; a Stop only takes services away.
TrafficRuns == ~(phase = "running" /\ call = D!NoCall) => D!Calm
NoSocket == core = "open5gs" => prog["open5gs"].ws = "none"
AddressesBelow ==
    core = "open5gs" =>
        /\ \A u \in added : u \in DOMAIN address /\ address[u] \in Nat
        /\ \A u, v \in added : u # v => address[u] # address[v]
        /\ phase = "setup" /\ call = D!NoCall => \A u \in added : address[u] < offset
ServicesShrink ==
    /\ IsFiniteSet(DOMAIN services) /\ found \in Nat
    /\ call.op = "Stop" => Cardinality(DOMAIN services) <= found
    /\ D!FailedStopShrinks

\* The invariant of the core.
CoreInv == CoreTypes /\ TrafficRuns /\ NoSocket /\ AddressesBelow /\ ServicesShrink

\* It holds initially.
LEMMA CoreInit == CoreKinds \subseteq CorePrograms /\ D!Init => CoreInv
<1> SUFFICES ASSUME CoreKinds \subseteq CorePrograms, D!Init PROVE CoreInv
  OBVIOUS
<1>1. /\ phase = "setup" /\ call = D!NoCall /\ added = {} /\ services = <<>> /\ found = 0
      /\ prog = [p \in CorePrograms |-> D!Off]
      /\ \A t \in Traffic : iperf[t].step = "idle"
  BY DEF D!Init, CorePrograms, D!Waits
<1>2. prog["open5gs"].ws = "none"
  BY <1>1, OffIs DEF CorePrograms
<1>3. IsFiniteSet(DOMAIN services)
  <2>1. DOMAIN services = {}
    BY <1>1
  <2> QED
    BY <2>1, FS_EmptySet
<1> QED
  BY <1>1, <1>2, <1>3, CoreTypesInit, NoCallIs
  DEF CoreInv, TrafficRuns, NoSocket, AddressesBelow, ServicesShrink, D!FailedStopShrinks, D!Calm

\* What a step of a call does to the subscribers and to the services: only a Stop
\* that is through forgets the subscribers and comes back to the set-up, and a Stop
\* of Open5gs fails only with the service that it has taken out.
CallEffects ==
    /\ UNCHANGED <<core, iperf, found, address>>
    /\ added' \in {added, {}}
    /\ call' = D!NoCall /\ phase' = "setup" => added' = {}
    /\ \/ services' = services
       \/ \E n \in DOMAIN services : services' = D!Without({n})
    /\ core = "open5gs" /\ call' = D!NoCall /\ phase' = "failed" =>
          \E n \in DOMAIN services : services' = D!Without({n})

\* These are its effects.
LEMMA CallEffectsAre ==
    ASSUME CoreTypes, NoSocket, CallSteps
    PROVE  CallEffects
<1>0. /\ call \in CoreCall /\ call # D!NoCall /\ CallGoes
      /\ call.op = "Stop" => call.step \in {"services", "stop"}
      /\ call.op \in {"Start", "Stop"}
      /\ call.op = "Start" <=> phase = "setup"
      /\ core = "open5gs" => call.at = "open5gs" /\ call.step \in {"services", "stop", "launch", "udr"}
  BY CoreTypesCall, CallIs, NoCallIs
<1>00. call' \in CoreCall => call' # D!NoCall
  BY NoCallIs
<1>1. CASE D!StopServices
  <2>1. /\ UNCHANGED <<core, iperf, found, address, added>>
    BY <1>1 DEF D!StopServices, D!ueVars
  <2>2. CASE services = <<>> /\ D!At("stop", core) /\ UNCHANGED <<phase, services>>
    <3>1. core \in CorePrograms /\ call' \in CoreCall
      BY <1>0, <2>2, AtIs DEF CoreTypes
    <3> QED
      BY <1>00, <2>1, <2>2, <3>1 DEF CallEffects
  <2>3. CASE \E n \in DOMAIN services : services' = D!Without(D!Popped(n))
    <3>1. PICK n \in DOMAIN services : services' = D!Without(D!Popped(n))
      BY <2>3
    <3>2. services' = D!Without({n})
      BY <3>1 DEF D!Popped
    <3>3. ~(call' = D!NoCall /\ phase' = "setup")
      <4>1. (call' = call) \/ D!Raise
        BY <1>1, <3>1, <2>3 DEF D!StopServices
      <4> QED
        BY <1>0, <4>1, RaiseIs
    <3> QED
      BY <2>1, <3>1, <3>2, <3>3 DEF CallEffects
  <2> QED
    BY <1>1, <2>2, <2>3 DEF D!StopServices
<1>2. CASE D!StopProgram
  <2>1. UNCHANGED <<core, iperf, found, address, services>> /\ added' \in {added, {}}
    BY <1>2 DEF D!StopProgram, D!trafficVars
  <2>2. ~(core = "open5gs" /\ phase' = "failed" /\ call' = D!NoCall)
    <3>1. core = "open5gs" => prog[call.at].ws = "none"
      BY <1>0 DEF NoSocket
    <3> QED
      BY <1>0, <1>00, <1>2, <3>1, StopProgramIs, RaiseIs, AtIs, CallIs
  <2>3. call' = D!NoCall /\ phase' = "setup" => added' = {}
    BY <1>0, <1>00, <1>2, StopProgramIs, RaiseIs, AtIs, CallIs
  <2> QED
    BY <2>1, <2>2, <2>3 DEF CallEffects
<1>3. CASE D!Launch \/ D!AwaitUdr \/ D!License \/ D!Connect
  <2>1. UNCHANGED <<core, iperf, found, address, services, added>>
    BY <1>3 DEF D!Launch, D!AwaitUdr, D!License, D!Connect, D!trafficVars, D!ueVars
  <2>2. call.op = "Start"
    BY <1>0, <1>3 DEF D!Launch, D!AwaitUdr, D!License, D!Connect
  <2>3. call' = D!NoCall => phase' \in {"running", "ending"}
    BY <1>0, <1>00, <2>2 DEF CallGoes
  <2> QED
    BY <2>1, <2>3 DEF CallEffects
<1> QED
  BY <1>1, <1>2, <1>3 DEF CallSteps

\* The core counts as this module does.
LEMMA SameCardinality == \A S : D!Cardinality(S) = Cardinality(S)
  BY DEF Cardinality, D!Cardinality

\* What is left of the services when one is taken out.
LEMMA WithoutOne ==
    ASSUME IsFiniteSet(DOMAIN services), NEW n \in DOMAIN services, services' = D!Without({n})
    PROVE  /\ IsFiniteSet(DOMAIN services')
           /\ Cardinality(DOMAIN services') \in Nat /\ Cardinality(DOMAIN services') < Cardinality(DOMAIN services)
<1>1. DOMAIN services' = DOMAIN services \ {n}
  BY DEF D!Without
<1>2. /\ IsFiniteSet(DOMAIN services \ {n})
      /\ Cardinality(DOMAIN services \ {n}) = Cardinality(DOMAIN services) - 1
  BY FS_RemoveElement
<1>3. Cardinality(DOMAIN services) \in Nat /\ Cardinality(DOMAIN services \ {n}) \in Nat
  BY <1>2, FS_CardinalityType
<1> QED
  BY <1>1, <1>2, <1>3

\* The traffic changes the services, and starts, only while it may run.
LEMMA TrafficEffects ==
    ASSUME CoreTypes, TrafficRuns, IsFiniteSet(DOMAIN services), TrafficSteps
    PROVE  /\ IsFiniteSet(DOMAIN services')
           /\ (services' = services /\ iperf' = iperf) \/ (phase = "running" /\ call = D!NoCall)
<1>1. CASE \E i \in DOMAIN servers : D!Serve(i)
  BY <1>1 DEF D!Serve
<1>2. CASE \E t \in Traffic : D!FreePort(t) \/ D!Clean(t) \/ D!Create(t) \/ D!Put(t) \/ D!StopIPerf(t) \/ D!GiveUp(t)
  <2>1. PICK t \in Traffic : D!FreePort(t) \/ D!Clean(t) \/ D!Create(t) \/ D!Put(t) \/ D!StopIPerf(t) \/ D!GiveUp(t)
    BY <1>2
  <2>2. phase = "running" /\ call = D!NoCall
    <3>1. CASE iperf[t].step # "idle"
      BY <3>1 DEF TrafficRuns, D!Calm
    <3>2. CASE D!FreePort(t)
      BY <3>2 DEF D!FreePort
    <3> QED
      BY <2>1, <3>1, <3>2 DEF D!Clean, D!Create, D!Put, D!StopIPerf, D!GiveUp
  <2>3. \/ services' = services
        \/ \E n \in DOMAIN services : services' = D!Without({n})
        \/ \E n : DOMAIN services' = DOMAIN services \cup {n}
    <3>1. CASE D!FreePort(t) \/ D!Create(t) \/ D!GiveUp(t)
      BY <3>1 DEF D!FreePort, D!Create, D!GiveUp
    <3>2. CASE D!Clean(t)
      BY <3>2 DEF D!Clean
    <3>3. CASE D!StopIPerf(t)
      BY <3>3 DEF D!StopIPerf
    <3>4. CASE D!Put(t)
      <4>1. DOMAIN services' = DOMAIN services \cup {iperf[t].port}
        BY <3>4 DEF D!Put
      <4> QED
        BY <4>1
    <3> QED
      BY <2>1, <3>1, <3>2, <3>3, <3>4, Zenon
  <2>4. ASSUME NEW n, DOMAIN services' = DOMAIN services \cup {n}
        PROVE  IsFiniteSet(DOMAIN services')
    <3>1. IsFiniteSet(DOMAIN services \cup {n})
      BY FS_AddElement
    <3> QED
      BY <2>4, <3>1
  <2> QED
    BY <2>2, <2>3, <2>4, WithoutOne
<1> QED
  BY <1>1, <1>2 DEF TrafficSteps

\* A subscriber more, with an address above the others.
LEMMA AddressesGrow ==
    ASSUME CoreTypes, AddressesBelow, NEW u \in Ue, D!AddUESubscriber(u)
    PROVE  AddressesBelow'
<1>1. core' = core /\ phase = "setup" /\ call = D!NoCall /\ added' = added \cup {u} /\ u \notin added
  BY DEF D!AddUESubscriber
<1>2. CASE core # "open5gs"
  BY <1>1, <1>2 DEF AddressesBelow
<1>3. CASE core = "open5gs"
  <2>1. /\ address' = [v \in DOMAIN address \cup {u} |-> IF v = u THEN offset ELSE address[v]]
        /\ offset' = offset + 1 /\ offset \in Nat
    BY <1>3 DEF D!AddUESubscriber, D!NextOffset, CoreTypes
  <2>2. \A v \in added : v \in DOMAIN address /\ address[v] \in Nat /\ address[v] < offset /\ v # u
    BY <1>1, <1>3 DEF AddressesBelow
  <2>3. \A v, w \in added : v # w => address[v] # address[w]
    BY <1>3 DEF AddressesBelow
  <2>4. DOMAIN address' = DOMAIN address \cup {u} /\ address'[u] = offset
    BY <2>1
  <2>5. \A v \in added : address'[v] = address[v]
    BY <2>1, <2>2
  <2>6. \A v \in added' : v \in DOMAIN address' /\ address'[v] \in Nat /\ address'[v] < offset'
    BY <1>1, <2>1, <2>2, <2>4, <2>5
  <2>7. \A v, w \in added' : v # w => address'[v] # address'[w]
    <3> SUFFICES ASSUME NEW v \in added', NEW w \in added', v # w PROVE address'[v] # address'[w]
      OBVIOUS
    <3>1. CASE v \in added /\ w \in added
      BY <2>3, <2>5, <3>1
    <3>2. CASE v = u /\ w \in added
      BY <2>1, <2>2, <2>4, <2>5, <3>2
    <3>3. CASE v \in added /\ w = u
      BY <2>1, <2>2, <2>4, <2>5, <3>3
    <3> QED
      BY <1>1, <3>1, <3>2, <3>3
  <2> QED
    BY <2>6, <2>7 DEF AddressesBelow
<1> QED
  BY <1>2, <1>3

\* It is kept by every step.
LEMMA CoreNext ==
    ASSUME CoreInv, CoreSteps \/ UNCHANGED coreVars
    PROVE  CoreInv'
<1> USE DEF CoreInv
<1>0. CoreTypes'
  BY CoreTypesNext
<1>00. D!NoCall.op = "none" /\ (call' \in CoreCall => call'.op # "none" /\ call' # D!NoCall)
  BY NoCallIs DEF CoreCall
<1>1. CASE \E u \in Ue : D!AddUESubscriber(u)
  <2>1. PICK u \in Ue : D!AddUESubscriber(u)
    BY <1>1
  <2>2. UNCHANGED <<core, phase, call, prog, services, iperf, found>>
    BY <2>1 DEF D!AddUESubscriber, D!trafficVars
  <2>3. AddressesBelow'
    BY <2>1, AddressesGrow
  <2>4. TrafficRuns' /\ NoSocket' /\ ServicesShrink'
    BY <2>2 DEF TrafficRuns, D!Calm, NoSocket, ServicesShrink, D!FailedStopShrinks
  <2> QED
    BY <1>0, <2>3, <2>4
<1>2. CASE D!CallStart
  <2>1. /\ UNCHANGED <<core, phase, prog, services, iperf, found, added, address, offset>>
        /\ phase = "setup" /\ call' # D!NoCall /\ call'.op = "Start" /\ call = D!NoCall
    BY <1>2 DEF D!CallStart, D!trafficVars, D!ueVars, D!NoCall
  <2>2. TrafficRuns' /\ NoSocket' /\ AddressesBelow' /\ ServicesShrink'
    BY <2>1 DEF TrafficRuns, D!Calm, NoSocket, AddressesBelow, ServicesShrink, D!FailedStopShrinks
  <2> QED
    BY <1>0, <2>2
<1>3. CASE D!CallStop
  <2>1. /\ UNCHANGED <<core, phase, prog, services, iperf, added, address, offset>>
        /\ phase # "setup" /\ D!Calm /\ found' = Cardinality(DOMAIN services)
    BY <1>3, SameCardinality DEF D!CallStop, D!trafficVars, D!ueVars
  <2>4. call'.op = "Stop"
    BY <1>3 DEF D!CallStop
  <2>5. call' # D!NoCall
    BY <1>00, <2>4
  <2>2. Cardinality(DOMAIN services) \in Nat
    BY FS_CardinalityType DEF ServicesShrink
  <2>3. TrafficRuns' /\ NoSocket' /\ AddressesBelow' /\ ServicesShrink'
    BY <2>1, <2>2, <2>5 DEF TrafficRuns, D!Calm, NoSocket, AddressesBelow, ServicesShrink, D!FailedStopShrinks
  <2> QED
    BY <1>0, <2>3
<1>4. CASE CallSteps
  <2>1. CallEffects /\ CallGoes /\ call \in CoreCall /\ call # D!NoCall
    BY <1>4, CallEffectsAre, CoreTypesCall, NoCallIs
  <2>2. TrafficRuns'
    BY <2>1 DEF CallEffects, TrafficRuns, D!Calm
  <2>3. NoSocket'
    <3> SUFFICES ASSUME core = "open5gs" PROVE prog'["open5gs"].ws = "none"
      BY <2>1 DEF CallEffects, NoSocket
    <3>0. /\ call.at = "open5gs" /\ call.step \in {"services", "stop", "launch", "udr"}
          /\ prog \in [CorePrograms -> Program] /\ "open5gs" \in CorePrograms /\ prog["open5gs"].ws = "none"
      BY <2>1, CallIs, NoCallIs DEF CoreTypes, CorePrograms, NoSocket
    <3>1. CASE D!StopProgram
      BY <3>0, <3>1, StopProgramIs, AfterStopIs, OffIs
    <3>2. CASE D!Launch
      <4>1. PICK n : prog' = [prog EXCEPT ![call.at] = [up |-> TRUE, port |-> n, ws |-> "none"]]
        BY <3>2 DEF D!Launch
      <4> QED
        BY <3>0, <4>1
    <3>3. CASE D!StopServices \/ D!AwaitUdr \/ D!License
      BY <3>0, <3>3 DEF D!StopServices, D!AwaitUdr, D!License
    <3>4. ~D!Connect
      BY <3>0 DEF D!Connect
    <3> QED
      BY <1>4, <3>1, <3>2, <3>3, <3>4 DEF CallSteps
  <2>4. AddressesBelow'
    <3>1. CASE added' = {}
      BY <3>1 DEF AddressesBelow
    <3>2. CASE added' = added /\ ~(call' = D!NoCall /\ phase' = "setup")
      BY <2>1, <3>2 DEF CallEffects, AddressesBelow
    <3> QED
      BY <2>1, <3>1, <3>2 DEF CallEffects
  <2>5. ServicesShrink'
    <3>1. /\ IsFiniteSet(DOMAIN services)
          /\ Cardinality(DOMAIN services) \in Nat
          /\ call.op = "Stop" => Cardinality(DOMAIN services) <= found
      BY FS_CardinalityType DEF ServicesShrink
    <3>2. /\ call'.op = "Stop" => call.op = "Stop"
          /\ call' = D!NoCall /\ phase' = "failed" => call.op = "Stop"
      BY <1>00, <2>1 DEF CallGoes
    <3>3. CASE services' = services
      <4>1. ~(core = "open5gs" /\ call' = D!NoCall /\ phase' = "failed")
        <5>1. ASSUME NEW n \in DOMAIN services, services' = D!Without({n}) PROVE FALSE
          BY <3>1, <3>3, <5>1, WithoutOne
        <5> QED
          BY <2>1, <5>1 DEF CallEffects
      <4> QED
        BY <2>1, <3>1, <3>2, <3>3, <4>1 DEF ServicesShrink, D!FailedStopShrinks, CallEffects
    <3>4. ASSUME NEW n \in DOMAIN services, services' = D!Without({n})
          PROVE  ServicesShrink'
      <4>1. /\ IsFiniteSet(DOMAIN services')
            /\ Cardinality(DOMAIN services') \in Nat /\ Cardinality(DOMAIN services') < Cardinality(DOMAIN services)
        BY <3>1, <3>4, WithoutOne
      <4>2. found' = found /\ core' = core
        BY <2>1 DEF CallEffects
      <4>3. found \in Nat
        BY DEF ServicesShrink
      <4> QED
        BY <4>3, SameCardinality, <3>1, <3>2, <4>1, <4>2 DEF ServicesShrink, D!FailedStopShrinks
    <3> QED
      BY <2>1, <3>3, <3>4 DEF CallEffects
  <2> QED
    BY <1>0, <2>2, <2>3, <2>4, <2>5
<1>5. CASE \E p \in D!Programs : D!Dies(p)
  <2>1. PICK p \in D!Programs : D!Dies(p)
    BY <1>5
  <2>2. /\ UNCHANGED <<core, phase, call, services, iperf, found, added, address, offset>>
        /\ prog' = AfterDeath(p)
    BY <2>1 DEF D!Dies, D!ueVars, D!trafficVars, AfterDeath
  <2>3. p \in CorePrograms /\ "open5gs" \in CorePrograms /\ prog \in [CorePrograms -> Program]
    BY <2>1, ProgramsAre DEF CoreTypes, CorePrograms
  <2>4. NoSocket'
    BY <2>2, <2>3, AfterDeathIs DEF NoSocket
  <2>5. TrafficRuns' /\ AddressesBelow' /\ ServicesShrink'
    BY <2>2 DEF TrafficRuns, D!Calm, AddressesBelow, ServicesShrink, D!FailedStopShrinks
  <2> QED
    BY <1>0, <2>4, <2>5
<1>6. CASE TrafficSteps
  <2>1. UNCHANGED <<core, phase, call, prog, added, address, offset, found>>
    BY <1>6, TrafficFrame
  <2>2. /\ IsFiniteSet(DOMAIN services')
        /\ (services' = services /\ iperf' = iperf) \/ (phase = "running" /\ call = D!NoCall)
    BY <1>6, TrafficEffects DEF ServicesShrink
  <2>3. NoSocket' /\ AddressesBelow'
    BY <2>1 DEF NoSocket, AddressesBelow
  <2>4. TrafficRuns' /\ ServicesShrink'
    BY <1>00, <2>1, <2>2 DEF TrafficRuns, D!Calm, ServicesShrink, D!FailedStopShrinks
  <2> QED
    BY <1>0, <2>3, <2>4
<1>7. CASE UNCHANGED coreVars
  BY <1>0, <1>7 DEF coreVars, TrafficRuns, D!Calm, NoSocket, AddressesBelow, ServicesShrink, D!FailedStopShrinks
<1> QED
  BY <1>1, <1>2, <1>3, <1>4, <1>5, <1>6, <1>7, Zenon DEF CoreSteps

\* It holds in every state of the core.
LEMMA CoreInvariance == MCSpec => [](kind = "core" => CoreInv)
<1>1. MCInit => (kind = "core" => CoreInv)
  BY CoreInit, CoreAssumption DEF MCInit, CorePrograms
<1>2. (kind = "core" => CoreInv)
        /\ [MCNext]_<<reportVars, ueVars, wsVars, coreVars, execVars, attachVars, viaviVars, reportsVars>>
      => (kind = "core" => CoreInv)'
  <2> SUFFICES ASSUME kind = "core" => CoreInv, kind' = "core",
                      [MCNext]_<<reportVars, ueVars, wsVars, coreVars, execVars, attachVars, viaviVars,
                                 reportsVars>>
               PROVE  CoreInv'
    OBVIOUS
  <2>1. CASE MCNext
    BY <2>1, StepOfKind, CoreStepsAre, CoreNext DEF Drivers
  <2>2. CASE UNCHANGED <<reportVars, ueVars, wsVars, coreVars, execVars, attachVars, viaviVars, reportsVars>>
    <3>1. kind' = kind /\ UNCHANGED coreVars
      BY <2>2 DEF reportVars
    <3> QED
      BY <3>1, CoreNext
  <2> QED
    BY <2>1, <2>2
<1> QED
  BY <1>1, <1>2, PTL DEF MCSpec

\* The subscribers of a test never share an address, for any number of UEs and
\* starts, whatever fails in between.
THEOREM AddressesApart == MCSpec => []AddressesAreOwn
<1>1. (kind = "core" => CoreInv) => AddressesAreOwn
  BY DEF CoreInv, AddressesBelow, AddressesAreOwn, D!AddressesAreOwn
<1> QED
  BY <1>1, CoreInvariance, PTL

\* A Stop of Open5gs that fails leaves fewer services than it found, for any
\* number of threads and servers.
THEOREM FailedStopsShrink == MCSpec => []FailedStopShrinks
<1>1. (kind = "core" => CoreInv) => FailedStopShrinks
  BY DEF CoreInv, ServicesShrink, FailedStopShrinks
<1> QED
  BY <1>1, CoreInvariance, PTL

-----------------------------------------------------------------------------
(* The core: whose metrics a test reads.                                   *)

\* A program that is not of the core is off; between the calls of a set-up all are, and
\* the IMS is while Start or Stop is at the MME.
OffOutsideCalls ==
    /\ \A q \in CorePrograms \ D!Programs : prog[q] = D!Off
    /\ phase = "setup" /\ call = D!NoCall => \A q \in CorePrograms : prog[q] = D!Off
    /\ core = "ims" /\ call # D!NoCall /\ call.at = "mme" => prog["ims"] = D!Off

\* The program that Start is at is not connected, and the ports of the others are below
\* the one it takes; as long as nothing crashes it has that port.
Launching ==
    call.op = "Start" =>
        /\ prog[call.at].ws = "none"
        /\ call.step = "launch" => prog[call.at] = D!Off
        /\ \A q \in CorePrograms \ {call.at} : prog[q].port < api
        /\ clean /\ call.step \in {"license", "connect"} => prog[call.at].up /\ prog[call.at].port = api
        /\ clean /\ call.at = "ims" => prog["mme"].ws = "mme"
PortsBelow == \A q \in CorePrograms : prog[q].port <= api

\* From the end of a Start that nothing disturbed to the end of its Stop each program
\* is connected to itself, or has been stopped with its own statistics of the round.
Counted ==
    /\ clean => phase # "ending"
    /\ clean /\ phase \in {"running", "failed"} =>
           \A p \in D!Programs : prog[p].ws = p \/ (prog[p] = D!Off /\ metrics[p] = <<p, round>>)

\* The invariant of the metrics.
OwnInv ==
    core # "open5gs" => OffOutsideCalls /\ Launching /\ PortsBelow /\ Counted /\ D!MetricsAreOwn /\ round \in Nat

\* It holds initially.
LEMMA OwnInit ==
    ASSUME CoreKinds \subseteq CorePrograms, D!Init
    PROVE  OwnInv
<1>1. /\ phase = "setup" /\ call = D!NoCall /\ api = 1 /\ ~clean /\ round = 1
      /\ \A q \in CorePrograms : prog[q] = D!Off
  BY DEF D!Init, CorePrograms
<1>2. D!Programs \subseteq CorePrograms
  BY CoreTypesInit, ProgramsAre DEF CoreTypes
<1> QED
  BY <1>1, <1>2, OffIs, NoCallIs
  DEF OwnInv, OffOutsideCalls, Launching, PortsBelow, Counted, D!MetricsAreOwn

\* An exception keeps it.
LEMMA OwnRaise ==
    ASSUME CoreTypes, OwnInv, core # "open5gs", call \in CoreCall, D!Raise,
           UNCHANGED <<core, metrics, round>>, api' = api, prog' = prog \/ call.op = "Start",
           PortsBelow', \A q \in CorePrograms \ D!Programs : prog'[q] = D!Off
    PROVE  OwnInv'
<1>1. call' = D!NoCall /\ (clean' => clean /\ call.op = "Stop") /\ phase' \in {"ending", "failed"}
      /\ (call.op = "Stop" => phase' = "failed" /\ phase # "setup") /\ (call.op = "Start" => phase' = "ending")
  BY RaiseIs, CallIs, NoCallIs DEF CoreCall
<1>2. D!Programs' = D!Programs
  BY DEF D!Programs
<1>3. phase \in {"setup", "running", "ending", "failed"} /\ call.op \in {"Start", "Stop"}
  BY DEF CoreTypes, CoreCall
<1>4. Counted'
  BY <1>1, <1>2, <1>3 DEF OwnInv, Counted
<1>5. OffOutsideCalls' /\ Launching' /\ D!MetricsAreOwn' /\ round' \in Nat
  BY <1>1, <1>2, NoCallIs DEF OwnInv, OffOutsideCalls, Launching, D!MetricsAreOwn
<1> QED
  BY <1>4, <1>5 DEF OwnInv

\* Connect.
LEMMA OwnConnect ==
    ASSUME CoreTypes, OwnInv, core # "open5gs", D!Connect
    PROVE  OwnInv'
<1>0. /\ call \in CoreCall /\ call.step = "connect" /\ call.op = "Start" /\ call.at \in D!Programs
      /\ call.at \in CorePrograms /\ call # D!NoCall /\ phase = "setup"
      /\ core = "mme" => call.at = "mme"
      /\ core = "ims" => call.at \in {"mme", "ims"}
  BY CallIs, NoCallIs DEF D!Connect, CoreTypes
<1>1. /\ UNCHANGED <<core, round, metrics>> /\ D!Programs' = D!Programs
  BY ConnectIs DEF CoreTypes, D!Programs
<1>2. /\ prog \in [CorePrograms -> Program] /\ api \in Nat \ {0} /\ D!Programs \subseteq CorePrograms
      /\ core = "mme" \/ core = "ims"
      /\ core = "mme" => D!Programs = {"mme"}
      /\ core = "ims" => D!Programs = {"mme", "ims"}
      /\ "mme" \in CorePrograms /\ "ims" \in CorePrograms
  BY ProgramsAre DEF CoreTypes, CorePrograms
<1>3. CASE D!Raise /\ UNCHANGED <<api, prog>>
  BY <1>0, <1>1, <1>3, OwnRaise DEF OwnInv, PortsBelow, OffOutsideCalls
<1>4. ASSUME NEW q \in CorePrograms, prog[q].port = api, prog' = [prog EXCEPT ![call.at].ws = q]
      PROVE  /\ prog' \in [CorePrograms -> Program] /\ prog'[call.at].ws = q
             /\ \A p \in CorePrograms : p # call.at => prog'[p] = prog[p]
             /\ \A p \in CorePrograms : prog'[p].port = prog[p].port
             /\ q = call.at
  <2>1. [prog[call.at] EXCEPT !.ws = q] \in Program /\ [prog[call.at] EXCEPT !.ws = q].ws = q
        /\ [prog[call.at] EXCEPT !.ws = q].port = prog[call.at].port
    BY <1>0, <1>2 DEF Program
  <2>2. q = call.at
    BY <1>0, <1>2, <1>4 DEF OwnInv, Launching, Program
  <2> QED
    BY <1>0, <1>2, <1>4, <2>1, <2>2
<1>5. ASSUME NEW q \in CorePrograms, prog[q].port = api, prog' = [prog EXCEPT ![call.at].ws = q],
             D!Raise, UNCHANGED api
      PROVE  OwnInv'
  <2>1. PortsBelow' /\ \A r \in CorePrograms \ D!Programs : prog'[r] = D!Off
    BY <1>0, <1>2, <1>4, <1>5 DEF OwnInv, PortsBelow, OffOutsideCalls
  <2> QED
    BY <1>0, <1>1, <1>5, <2>1, OwnRaise
<1>6. ASSUME NEW q \in CorePrograms, prog[q].port = api, prog' = [prog EXCEPT ![call.at].ws = q],
             core = "ims", call.at = "mme", D!At("stop", "ims"), api' = api + 1, UNCHANGED <<phase, clean>>
      PROVE  OwnInv'
  <2>1. call' \in CoreCall /\ call'.op = "Start" /\ call'.step = "stop" /\ call'.at = "ims" /\ call' # D!NoCall
    BY <1>0, <1>2, <1>6, AtIs, NoCallIs
  <2>2. prog["ims"] = D!Off /\ prog'["ims"] = D!Off /\ prog'["mme"].ws = "mme"
    BY <1>0, <1>2, <1>4, <1>6 DEF OwnInv, OffOutsideCalls
  <2>3. \A p \in CorePrograms : prog'[p].port < api' /\ prog'[p].port <= api'
    BY <1>2, <1>4, <1>6 DEF OwnInv, PortsBelow, Program
  <2>4. OffOutsideCalls'
    BY <1>0, <1>1, <1>2, <1>4, <1>6, <2>1, <2>2 DEF OwnInv, OffOutsideCalls
  <2>5. Launching' /\ PortsBelow'
    BY <2>1, <2>2, <2>3, OffIs DEF Launching, PortsBelow
  <2>6. Counted' /\ D!MetricsAreOwn'
    BY <1>0, <1>6, <2>1 DEF Counted, D!MetricsAreOwn
  <2> QED
    BY <1>1, <2>4, <2>5, <2>6 DEF OwnInv
<1>7. ASSUME NEW q \in CorePrograms, prog[q].port = api, prog' = [prog EXCEPT ![call.at].ws = q],
             ~(core = "ims" /\ call.at = "mme"), call' = D!NoCall, phase' = "running", UNCHANGED <<api, clean>>
      PROVE  OwnInv'
  <2>1. PortsBelow' /\ \A r \in CorePrograms \ D!Programs : prog'[r] = D!Off
    BY <1>0, <1>2, <1>4, <1>7 DEF OwnInv, PortsBelow, OffOutsideCalls
  <2>2. clean => \A p \in D!Programs : prog'[p].ws = p
    BY <1>0, <1>2, <1>4, <1>7 DEF OwnInv, Launching
  <2>3. OffOutsideCalls' /\ Launching' /\ D!MetricsAreOwn'
    BY <1>1, <1>7, <2>1, NoCallIs DEF OffOutsideCalls, Launching, D!MetricsAreOwn
  <2>4. Counted'
    BY <1>1, <1>7, <2>2 DEF Counted
  <2> QED
    BY <1>1, <2>1, <2>3, <2>4 DEF OwnInv
<1> QED
  BY <1>2, <1>3, <1>5, <1>6, <1>7, ConnectIs

\* StopProgram.
LEMMA OwnStop ==
    ASSUME CoreTypes, OwnInv, core # "open5gs", D!StopProgram
    PROVE  OwnInv'
<1>0. /\ call \in CoreCall /\ call.step = "stop" /\ call.op \in {"Start", "Stop"} /\ call.at \in D!Programs
      /\ call.at \in CorePrograms /\ call # D!NoCall
      /\ call.op = "Start" <=> phase = "setup"
      /\ core = "mme" => call.at = "mme"
      /\ core = "ims" => call.at \in {"mme", "ims"}
  BY CallIs, NoCallIs DEF D!StopProgram, CoreTypes
<1>1. /\ UNCHANGED <<core, api>> /\ D!Programs' = D!Programs /\ phase \in {"setup", "running", "ending", "failed"}
  BY StopProgramIs DEF CoreTypes, D!Programs
<1>2. /\ prog \in [CorePrograms -> Program] /\ api \in Nat \ {0} /\ D!Programs \subseteq CorePrograms
      /\ DOMAIN metrics = CorePrograms
      /\ core = "mme" \/ core = "ims"
      /\ core = "mme" => D!Programs = {"mme"}
      /\ core = "ims" => D!Programs = {"mme", "ims"}
      /\ "mme" \in CorePrograms /\ "ims" \in CorePrograms
  BY ProgramsAre DEF CoreTypes, CorePrograms
<1>3. CASE D!Raise /\ UNCHANGED <<metrics, prog, added, round>>
  BY <1>0, <1>1, <1>3, OwnRaise DEF OwnInv, PortsBelow, OffOutsideCalls
<1>4. CASE /\ prog' = AfterStop(call.at) /\ clean' = clean
           /\ metrics' = IF D!Answers(call.at) = "none" THEN metrics
                         ELSE [metrics EXCEPT ![call.at] = <<D!Answers(call.at), round>>]
  <2> DEFINE p == call.at
  <2>1. /\ prog'[p] = D!Off
        /\ \A q \in CorePrograms : /\ prog[q] = D!Off => prog'[q] = D!Off
                                   /\ q # p => prog'[q].ws = prog[q].ws
                                   /\ prog'[q].port \in {0, prog[q].port}
                                   /\ prog[q].port \in Nat
                                   /\ q # p /\ q # prog[p].ws => prog'[q] = prog[q]
    <3>1. \A q \in CorePrograms : [prog[q] EXCEPT !.up = FALSE, !.port = 0].port = 0 /\ prog[q].port \in Nat
      BY <1>2 DEF Program
    <3>2. \A q \in CorePrograms : /\ prog'[q].port \in {0, prog[q].port}
                                  /\ q # p /\ q # prog[p].ws => prog'[q] = prog[q]
      BY <1>0, <1>2, <1>4, <3>1, OffIs DEF AfterStop, D!Answers
    <3> QED
      BY <1>0, <1>2, <1>4, <3>1, <3>2, AfterStopIs
  <2>2. PortsBelow' /\ \A q \in CorePrograms \ D!Programs : prog'[q] = D!Off
    BY <1>1, <1>2, <2>1 DEF OwnInv, PortsBelow, OffOutsideCalls
  <2>3. \A q \in CorePrograms : /\ q # p => metrics'[q] = metrics[q]
                                /\ q = p /\ prog[p].ws = p => metrics'[p] = <<p, round>>
                                /\ q = p /\ prog[p] = D!Off => metrics'[p] = metrics[p]
    <3>1. prog[p] = D!Off => prog[p].ws = "none"
      BY OffIs
    <3>2. p # "none"
      BY <1>0 DEF CorePrograms
    <3> QED
      BY <1>0, <1>2, <1>4, <3>1, <3>2 DEF D!Answers
  <2>4. CASE call.op = "Start" /\ D!At("launch", p) /\ UNCHANGED <<phase, added, round>>
    <3>1. call' \in CoreCall /\ call'.op = "Start" /\ call'.step = "launch" /\ call'.at = p /\ call' # D!NoCall
      BY <1>0, <2>4, AtIs, NoCallIs
    <3>2. OffOutsideCalls'
      BY <1>0, <1>1, <1>2, <2>1, <2>2, <3>1 DEF OwnInv, OffOutsideCalls
    <3>3. Launching'
      BY <1>0, <1>1, <1>2, <1>4, <2>1, <2>4, <3>1, OffIs DEF OwnInv, Launching
    <3>4. Counted' /\ D!MetricsAreOwn' /\ round' \in Nat
      BY <1>0, <1>1, <2>4, <3>1 DEF OwnInv, Counted, D!MetricsAreOwn
    <3> QED
      BY <2>2, <3>2, <3>3, <3>4 DEF OwnInv
  <2>5. CASE call.op # "Start"
    <3>1. clean /\ phase \in {"running", "failed"} =>
             \A q \in D!Programs : \/ prog'[q].ws = q \/ (prog'[q] = D!Off /\ metrics'[q] = <<q, round>>)
      <4> SUFFICES ASSUME clean, phase \in {"running", "failed"}, NEW q \in D!Programs
                   PROVE  prog'[q].ws = q \/ (prog'[q] = D!Off /\ metrics'[q] = <<q, round>>)
        OBVIOUS
      <4>1. prog[q].ws = q \/ (prog[q] = D!Off /\ metrics[q] = <<q, round>>)
        BY DEF OwnInv, Counted
      <4>2. CASE q = p
        BY <1>0, <1>2, <2>1, <2>3, <4>1, <4>2
      <4>3. CASE q # p
        BY <1>2, <2>1, <2>3, <4>1, <4>3
      <4> QED
        BY <4>2, <4>3
    <3>2. CASE p = "ims" /\ D!At("stop", "mme") /\ UNCHANGED <<phase, added, round>>
      <4>1. call' \in CoreCall /\ call'.op # "Start" /\ call'.at = "mme" /\ call' # D!NoCall
        BY <1>0, <1>2, <2>5, <3>2, AtIs, NoCallIs
      <4>2. OffOutsideCalls'
        BY <1>0, <1>1, <1>2, <2>1, <2>2, <2>5, <3>2, <4>1 DEF OffOutsideCalls
      <4>3. Launching' /\ Counted' /\ D!MetricsAreOwn' /\ round' \in Nat
        BY <1>0, <1>1, <1>4, <2>5, <3>1, <3>2, <4>1 DEF OwnInv, Counted, D!MetricsAreOwn, Launching
      <4> QED
        BY <2>2, <4>2, <4>3 DEF OwnInv
    <3>3. CASE p # "ims" /\ call' = D!NoCall /\ phase' = "setup" /\ round' = round + 1
      <4>1. p = "mme" /\ \A q \in D!Programs : q = "mme" \/ (q = "ims" /\ core = "ims")
        BY <1>0, <1>2, <3>3
      <4>2. \A q \in CorePrograms : prog'[q] = D!Off
        BY <1>0, <1>2, <2>1, <2>2, <4>1 DEF OwnInv, OffOutsideCalls
      <4>3. clean => \A q \in D!Programs : metrics'[q] = <<q, round>>
        <5> SUFFICES ASSUME clean, NEW q \in D!Programs PROVE metrics'[q] = <<q, round>>
          OBVIOUS
        <5>1. phase \in {"running", "failed"}
          BY <1>0, <1>1, <2>5 DEF OwnInv, Counted
        <5>2. q # "none" /\ q \in CorePrograms
          BY <1>2 DEF CorePrograms
        <5> QED
          BY <3>1, <4>2, <5>1, <5>2, OffIs
      <4>4. round' - 1 = round /\ round' \in Nat
        BY <3>3 DEF OwnInv
      <4>5. D!MetricsAreOwn'
        BY <1>1, <1>4, <4>3, <4>4 DEF D!MetricsAreOwn
      <4>6. OffOutsideCalls' /\ Launching' /\ Counted'
        BY <1>1, <3>3, <4>2, NoCallIs DEF OffOutsideCalls, Launching, Counted
      <4> QED
        BY <2>2, <4>4, <4>5, <4>6 DEF OwnInv
    <3> QED
      BY <1>0, <1>3, <2>5, <3>2, <3>3, StopProgramIs
  <2> QED
    BY <1>0, <1>3, <2>4, <2>5, StopProgramIs
<1> QED
  BY <1>3, <1>4, StopProgramIs

\* Launch.
LEMMA OwnLaunch ==
    ASSUME CoreTypes, OwnInv, core # "open5gs", D!Launch
    PROVE  OwnInv'
<1>0. /\ call \in CoreCall /\ call.step = "launch" /\ call.op = "Start" /\ call.at \in D!Programs
      /\ call.at \in CorePrograms /\ call # D!NoCall /\ phase = "setup" /\ call.at # "open5gs"
  <2>1. core = "mme" \/ core = "ims"
    BY DEF CoreTypes, CorePrograms
  <2>2. call.step = "launch" /\ call.step # "none"
    BY DEF D!Launch
  <2> QED
    BY <2>1, <2>2, CallIs, NoCallIs DEF CoreTypes
<1>1. /\ prog \in [CorePrograms -> Program] /\ api \in Nat \ {0} /\ D!Programs \subseteq CorePrograms
      /\ "mme" \in CorePrograms /\ "ims" \in CorePrograms
      /\ D!Programs = {"mme"} \/ D!Programs = {"mme", "ims"}
      /\ \A q \in CorePrograms : prog[q].port \in Nat
  BY ProgramsAre DEF CoreTypes, CorePrograms, Program
<1>2. ~D!Bound(api)
  <2>1. prog[call.at].port = 0 /\ \A q \in CorePrograms : prog[q].port < api
    BY <1>0, <1>1, OffIs DEF OwnInv, Launching
  <2> QED
    BY <1>1, <2>1 DEF D!Bound
<1>3. /\ UNCHANGED <<core, round, phase, api, metrics, clean>> /\ D!Programs' = D!Programs
      /\ prog' = [prog EXCEPT ![call.at] = [up |-> TRUE, port |-> api, ws |-> "none"]]
      /\ D!At("license", call.at)
  BY <1>0, <1>2 DEF D!Launch, D!Programs
<1>4. call' \in CoreCall /\ call'.op = "Start" /\ call'.step = "license" /\ call'.at = call.at /\ call' # D!NoCall
  BY <1>0, <1>3, AtIs, NoCallIs
<1>5. /\ prog'[call.at].up /\ prog'[call.at].port = api /\ prog'[call.at].ws = "none"
      /\ \A q \in CorePrograms : q # call.at => prog'[q] = prog[q]
  BY <1>0, <1>1, <1>3
<1>6. OffOutsideCalls'
  BY <1>0, <1>1, <1>3, <1>4, <1>5 DEF OwnInv, OffOutsideCalls
<1>7. Launching' /\ PortsBelow'
  BY <1>0, <1>1, <1>3, <1>4, <1>5 DEF OwnInv, Launching, PortsBelow
<1>8. Counted' /\ D!MetricsAreOwn'
  BY <1>0, <1>3, <1>4 DEF Counted, D!MetricsAreOwn
<1> QED
  BY <1>3, <1>6, <1>7, <1>8 DEF OwnInv

\* Every step keeps it.
LEMMA OwnNext ==
    ASSUME CoreTypes, OwnInv, CoreSteps \/ UNCHANGED coreVars
    PROVE  OwnInv'
<1>0. core' = core \/ OwnInv'
  BY CoreTypesCall, TrafficFrame
  DEF CoreSteps, D!AddUESubscriber, D!CallStart, D!CallStop, D!Dies, coreVars, CallSteps, D!StopServices,
      D!StopProgram, D!Launch, D!AwaitUdr, D!License, D!Connect
<1> SUFFICES ASSUME core # "open5gs", core' = core PROVE OwnInv'
  BY <1>0 DEF OwnInv
<1>00. D!Programs' = D!Programs
  BY DEF D!Programs
<1>01. \A q \in CorePrograms : D!Off.port = 0 /\ D!Off.ws = "none" /\ api \in Nat \ {0}
  BY OffIs DEF CoreTypes
<1>1. CASE UNCHANGED <<phase, call, api, prog, metrics, round, clean>>
  BY <1>00, <1>1 DEF OwnInv, OffOutsideCalls, Launching, PortsBelow, Counted, D!MetricsAreOwn
<1>2. CASE D!CallStart
  <2> DEFINE where == "mme"
  <2>1. /\ UNCHANGED <<phase, api, prog, metrics, round>> /\ phase = "setup" /\ call = D!NoCall
        /\ call' = [op |-> "Start", step |-> "stop", at |-> "mme"]
    BY <1>2 DEF D!CallStart
  <2>2. call'.op = "Start" /\ call'.step = "stop" /\ call'.at = "mme" /\ call' # D!NoCall
    BY <2>1, NoCallIs
  <2>3. \A q \in CorePrograms : prog[q] = D!Off
    BY <2>1 DEF OwnInv, OffOutsideCalls
  <2>4. "mme" \in CorePrograms /\ "ims" \in CorePrograms
    BY DEF CorePrograms
  <2>5. OffOutsideCalls' /\ Launching' /\ PortsBelow' /\ Counted' /\ D!MetricsAreOwn'
    BY <1>00, <1>01, <2>1, <2>2, <2>3, <2>4
    DEF OwnInv, OffOutsideCalls, Launching, PortsBelow, Counted, D!MetricsAreOwn
  <2> QED
    BY <2>1, <2>5 DEF OwnInv
<1>3. CASE D!CallStop
  <2>1. /\ UNCHANGED <<phase, api, prog, metrics, round, clean>> /\ phase # "setup" /\ call = D!NoCall
        /\ call'.op = "Stop" /\ call'.at = (CASE core = "ims" -> "ims" [] OTHER -> core)
    BY <1>3 DEF D!CallStop
  <2>2. core = "ims" => call'.at = "ims"
    BY <2>1
  <2>3. OffOutsideCalls' /\ Launching' /\ PortsBelow' /\ Counted' /\ D!MetricsAreOwn'
    BY <1>00, <2>1, <2>2 DEF OwnInv, OffOutsideCalls, Launching, PortsBelow, Counted, D!MetricsAreOwn
  <2> QED
    BY <2>1, <2>3 DEF OwnInv
<1>4. CASE D!License
  <2>0. /\ call \in CoreCall /\ call.step = "license" /\ call.op = "Start" /\ call.at \in CorePrograms
        /\ call # D!NoCall /\ phase = "setup"
    BY <1>4, CallIs, NoCallIs DEF D!License
  <2>1. UNCHANGED <<api, prog, metrics, round>>
    BY <1>4 DEF D!License
  <2>2. CASE D!Raise
    BY <2>0, <2>1, <2>2, OwnRaise DEF OwnInv, PortsBelow, OffOutsideCalls
  <2>3. ASSUME NEW next \in {"connect", "stop"}, D!At(next, call.at), UNCHANGED <<phase, clean>> PROVE OwnInv'
    <3>1. call' \in CoreCall /\ call'.op = "Start" /\ call'.step = next /\ call'.at = call.at /\ call' # D!NoCall
      BY <2>0, <2>3, AtIs, NoCallIs
    <3> QED
      BY <1>00, <2>0, <2>1, <2>3, <3>1
      DEF OwnInv, OffOutsideCalls, Launching, PortsBelow, Counted, D!MetricsAreOwn
  <2> QED
    BY <1>4, <2>2, <2>3 DEF D!License
<1>5. ~D!AwaitUdr /\ ~D!StopServices
  BY CallIs DEF D!AwaitUdr, D!StopServices, CoreTypes, CorePrograms
<1>6. CASE \E p \in D!Programs : D!Dies(p)
  <2>1. PICK p \in D!Programs : D!Dies(p)
    BY <1>6
  <2>2. /\ UNCHANGED <<phase, call, api, metrics, round>> /\ ~clean' /\ prog' = AfterDeath(p)
    BY <2>1 DEF D!Dies, AfterDeath
  <2>3. p \in CorePrograms /\ prog \in [CorePrograms -> Program] /\ \A q \in CorePrograms : prog[q].port \in Nat
    BY <2>1, ProgramsAre DEF CoreTypes, Program
  <2>4. \A q \in CorePrograms : /\ prog[q] = D!Off => prog'[q] = D!Off
                                /\ prog'[q].ws \in {prog[q].ws, "none"}
                                /\ prog'[q].port \in {prog[q].port, 0}
    BY <2>2, <2>3, AfterDeathIs
  <2>5. call.op = "Start" => call.at \in CorePrograms
    BY CallIs, NoCallIs
  <2>6. "ims" \in CorePrograms
    BY DEF CorePrograms
  <2>7. OffOutsideCalls'
    BY <1>00, <2>2, <2>4, <2>6 DEF OwnInv, OffOutsideCalls
  <2>8. Launching'
    BY <1>01, <2>2, <2>3, <2>4, <2>5 DEF OwnInv, Launching
  <2>9. PortsBelow' /\ Counted' /\ D!MetricsAreOwn' /\ round' \in Nat
    BY <1>01, <2>2, <2>3, <2>4 DEF OwnInv, PortsBelow, Counted, D!MetricsAreOwn
  <2> QED
    BY <2>7, <2>8, <2>9 DEF OwnInv
<1>7. CASE (\E u \in Ue : D!AddUESubscriber(u)) \/ TrafficSteps \/ UNCHANGED coreVars
  BY <1>1, <1>7, TrafficFrame DEF D!AddUESubscriber, coreVars
<1> QED
  BY <1>2, <1>3, <1>4, <1>5, <1>6, <1>7, OwnConnect, OwnStop, OwnLaunch DEF CoreSteps, CallSteps

\* It holds in every state of the core.
LEMMA OwnInvariance == MCSpec => [](kind = "core" => CoreTypes /\ OwnInv)
<1>1. MCInit => (kind = "core" => OwnInv)
  BY OwnInit, CoreAssumption DEF MCInit, CorePrograms
<1>2. (kind = "core" => CoreInv) /\ (kind = "core" => OwnInv)
        /\ [MCNext]_<<reportVars, ueVars, wsVars, coreVars, execVars, attachVars, viaviVars, reportsVars>>
      => (kind = "core" => OwnInv)'
  <2> SUFFICES ASSUME kind = "core" => CoreInv, kind = "core" => OwnInv, kind' = "core",
                      [MCNext]_<<reportVars, ueVars, wsVars, coreVars, execVars, attachVars, viaviVars,
                                 reportsVars>>
               PROVE  OwnInv'
    OBVIOUS
  <2>1. CASE MCNext
    <3>1. kind = "core" /\ D!Next
      BY <2>1, StepOfKind DEF Drivers
    <3> QED
      BY <3>1, CoreStepsAre, OwnNext DEF CoreInv
  <2>2. CASE UNCHANGED <<reportVars, ueVars, wsVars, coreVars, execVars, attachVars, viaviVars, reportsVars>>
    <3>1. kind' = kind /\ UNCHANGED coreVars
      BY <2>2 DEF reportVars
    <3> QED
      BY <3>1, OwnNext DEF CoreInv
  <2> QED
    BY <2>1, <2>2
<1>3. (kind = "core" => CoreInv) /\ (kind = "core" => OwnInv) => (kind = "core" => CoreTypes /\ OwnInv)
  BY DEF CoreInv
<1> QED
  BY <1>1, <1>2, <1>3, CoreInvariance, PTL DEF MCSpec

-----------------------------------------------------------------------------
(* The captures of the drivers made of others.                             *)

\* The calls of a driver made of others: its state, and the parts whose captures it reads.
ReportSteps == {"idle", "args", "sut", "extract", "reset", "create", "await"}
Todo == {<<>>, <<"cu">>, <<"du", "cu">>}
Report == [at : ReportSteps, op : {"none", "Start", "Stop"}, todo : Todo,
           args : [P!Parts -> Int], folder : Int, running : BOOLEAN, done : [P!Parts -> BOOLEAN],
           metrics : [P!Parts -> Seq(Int)], hears : BOOLEAN, json : Int, plotted : SUBSET Int,
           runs : Nat, raised : Nat, good : Nat, stopped : BOOLEAN]
ReportTypes == driver \in {"cucp", "cu", "cuup", "gnb"} /\ report \in Report

\* A step that raises leaves all but the place of the call.
LEMMA RaisedIs ==
    ASSUME NEW r \in Report, P!Raised(r)
    PROVE  /\ driver' = driver /\ report' \in Report
           /\ report'.at = "idle" /\ report'.op = r.op /\ report'.folder = r.folder /\ report'.done = r.done
           /\ report'.metrics = r.metrics /\ report'.hears = r.hears /\ report'.plotted = r.plotted
           /\ report'.runs = r.runs /\ report'.good = r.good /\ report'.stopped = r.stopped
<1> DEFINE raises == r.raised + 1
<1>1. report' = [r EXCEPT !.at = "idle", !.raised = raises] /\ driver' = driver
  BY DEF P!Raised, P!Do, Report
<1>2. raises \in Nat
  BY DEF Report
<1> HIDE DEF raises
<1> QED
  BY <1>1, <1>2 DEF Report, ReportSteps

\* The call begins.
LEMMA CallBegins ==
    ASSUME ReportTypes, NEW op \in {"Start", "Stop"}, P!Call(op)
    PROVE  /\ driver' = driver /\ report' \in Report /\ report.at = "idle"
           /\ report'.at = "args" /\ report'.op = op
           /\ report'.folder = report.folder /\ report'.done = report.done /\ report'.metrics = report.metrics
           /\ report'.hears = report.hears /\ report'.plotted = report.plotted /\ report'.runs = report.runs
           /\ report'.good = (IF op = "Start" THEN 0 ELSE report.good)
           /\ report'.stopped = (IF op = "Start" THEN FALSE ELSE report.stopped)
<1> DEFINE good == IF op = "Start" THEN 0 ELSE report.good
           stopped == IF op = "Start" THEN FALSE ELSE report.stopped
<1>1. good \in Nat /\ stopped \in BOOLEAN
  BY DEF ReportTypes, Report
<1>2. /\ report' = [report EXCEPT !.at = "args", !.op = op, !.good = good, !.stopped = stopped]
      /\ driver' = driver /\ report.at = "idle"
  BY DEF P!Call, P!Do, P!At
<1> HIDE DEF good, stopped
<1>3. /\ driver' = driver /\ report' \in Report /\ report.at = "idle"
      /\ report'.at = "args" /\ report'.op = op
      /\ report'.folder = report.folder /\ report'.done = report.done /\ report'.metrics = report.metrics
      /\ report'.hears = report.hears /\ report'.plotted = report.plotted /\ report'.runs = report.runs
      /\ report'.good = good /\ report'.stopped = stopped
  BY <1>1, <1>2 DEF ReportTypes, Report, ReportSteps
<1> QED
  BY <1>3 DEF good, stopped

\* The arguments of the parts that have not been read are the folder that is open.
LEMMA GetArgumentsIs ==
    ASSUME ReportTypes, P!GetArguments
    PROVE  /\ driver' = driver /\ report' \in Report /\ report.at = "args"
           /\ report'.at = "sut" /\ report'.op = report.op /\ report'.done = report.done
           /\ report'.metrics = report.metrics /\ report'.hears = report.hears
           /\ report'.plotted = report.plotted /\ report'.runs = report.runs
           /\ report'.good = report.good /\ report'.stopped = report.stopped
           /\ report.folder # 0 => /\ report'.folder = report.folder
                                   /\ \A p \in P!Parts : ~report.done[p] => report'.args[p] = report.folder
<1>1. PICK folder : /\ folder = report.folder \/ folder = P!Opened(report.folder)
                    /\ P!Do([report EXCEPT !.at = "sut", !.folder = folder,
                             !.args = [p \in P!Parts |-> IF report.done[p] THEN P!NoFolder ELSE folder]])
  BY DEF P!GetArguments
<1>2. folder \in Int /\ (report.folder # 0 => folder = report.folder)
  BY <1>1 DEF P!Opened, P!NoFolder, P!EmptyFolder, Report, ReportTypes
<1> DEFINE args == [p \in P!Parts |-> IF report.done[p] THEN P!NoFolder ELSE folder]
<1>3. args \in [P!Parts -> Int] /\ \A p \in P!Parts : ~report.done[p] => args[p] = folder
  BY <1>2 DEF P!NoFolder
<1>4. /\ report' = [report EXCEPT !.at = "sut", !.folder = folder, !.args = args] /\ driver' = driver
      /\ report.at = "args"
  BY <1>1 DEF P!Do, P!GetArguments, P!At
<1> HIDE DEF args
<1> QED
  BY <1>2, <1>3, <1>4 DEF ReportTypes, Report, ReportSteps

\* A DU that hears the end of the program leaves its records in the folder.
LEMMA StopListeningIs ==
    ASSUME NEW r \in Report
    PROVE  LET s == P!StopListening(r)
           IN  /\ s \in Report /\ s.at = r.at /\ s.op = r.op /\ s.todo = r.todo /\ s.args = r.args
               /\ s.folder = r.folder /\ s.done = r.done /\ s.metrics = r.metrics
               /\ s.json = (IF r.hears THEN r.folder ELSE 0) /\ s.plotted = r.plotted /\ s.runs = r.runs
               /\ s.good = r.good /\ s.stopped = r.stopped
<1> DEFINE json == IF r.hears THEN r.folder ELSE 0
<1>1. json \in Int
  BY DEF Report
<1>2. P!StopListening(r) = [r EXCEPT !.hears = FALSE, !.json = json]
  BY DEF P!StopListening, P!NoFolder
<1> HIDE DEF json
<1>3. LET s == P!StopListening(r)
      IN  /\ s \in Report /\ s.at = r.at /\ s.op = r.op /\ s.todo = r.todo /\ s.args = r.args
          /\ s.folder = r.folder /\ s.done = r.done /\ s.metrics = r.metrics
          /\ s.json = json /\ s.plotted = r.plotted /\ s.runs = r.runs
          /\ s.good = r.good /\ s.stopped = r.stopped
  BY <1>1, <1>2 DEF Report
<1> QED
  BY <1>3 DEF json

\* stop_sut raises, or the parts are to be read, with the folder closed.
LEMMA StopSutIs ==
    ASSUME ReportTypes, P!StopSut
    PROVE  /\ driver' = driver /\ report' \in Report /\ report.at = "sut"
           /\ report'.op = report.op /\ report'.done = report.done
           /\ report'.metrics = report.metrics /\ report'.plotted = report.plotted
           /\ report'.runs = report.runs /\ report'.good = report.good /\ report'.stopped = report.stopped
           /\ \/ report'.at = "idle" /\ report'.folder = report.folder /\ report'.hears = report.hears
              \/ /\ report'.at = "extract" /\ report'.todo = P!PartsOf(driver) /\ report'.args = report.args
                 /\ report.hears => report'.json = report.folder
<1> DEFINE s == [report EXCEPT !.running = FALSE]
<1>1. /\ s \in Report /\ s.at = report.at /\ s.op = report.op /\ s.args = report.args
      /\ s.folder = report.folder /\ s.done = report.done /\ s.metrics = report.metrics
      /\ s.hears = report.hears /\ s.plotted = report.plotted /\ s.runs = report.runs
      /\ s.good = report.good /\ s.stopped = report.stopped
  BY DEF ReportTypes, Report
<1>2. report.at = "sut"
  BY DEF P!StopSut, P!At
<1>3. \/ P!Raised(s)
      \/ P!Do([P!StopListening(s) EXCEPT !.at = "extract", !.folder = P!NoFolder, !.todo = P!PartsOf(driver)])
  BY DEF P!StopSut
<1> HIDE DEF s
<1>4. CASE P!Raised(s)
  BY <1>1, <1>2, <1>4, RaisedIs
<1>5. CASE P!Do([P!StopListening(s) EXCEPT !.at = "extract", !.folder = P!NoFolder, !.todo = P!PartsOf(driver)])
  <2> DEFINE t == P!StopListening(s)
             parts == P!PartsOf(driver)
  <2>1. /\ t \in Report /\ t.op = s.op /\ t.args = s.args /\ t.done = s.done /\ t.metrics = s.metrics
        /\ t.json = (IF s.hears THEN s.folder ELSE 0) /\ t.plotted = s.plotted /\ t.runs = s.runs
        /\ t.good = s.good /\ t.stopped = s.stopped
    BY <1>1, StopListeningIs
  <2>2. parts \in Todo
    BY DEF P!PartsOf, Todo
  <2>3. report' = [t EXCEPT !.at = "extract", !.folder = 0, !.todo = parts] /\ driver' = driver
    BY <1>5 DEF P!Do, P!NoFolder
  <2> HIDE DEF t, parts
  <2>4. report' \in Report /\ report'.at = "extract" /\ report'.todo = parts
    <3> DEFINE nowhere == 0
    <3>1. nowhere \in Int /\ report' = [t EXCEPT !.at = "extract", !.folder = nowhere, !.todo = parts]
      BY <2>3
    <3>2. t \in Report /\ parts \in Todo
      BY <2>1, <2>2
    <3> HIDE DEF nowhere
    <3> QED
      BY <3>1, <3>2 DEF Report, ReportSteps
  <2>5. /\ report'.op = t.op
        /\ report'.args = t.args /\ report'.done = t.done /\ report'.metrics = t.metrics
        /\ report'.json = t.json /\ report'.plotted = t.plotted /\ report'.runs = t.runs
        /\ report'.good = t.good /\ report'.stopped = t.stopped
    BY <2>1, <2>2, <2>3 DEF Report, ReportSteps
  <2> QED
    BY <1>1, <1>2, <2>1, <2>3, <2>4, <2>5 DEF parts
<1> QED
  BY <1>3, <1>4, <1>5

\* A part is read, unless it has been, or raises and its run is lost.
LEMMA ExtractIs ==
    ASSUME ReportTypes, P!Extract
    PROVE  /\ driver' = driver /\ report' \in Report /\ report.at = "extract" /\ report.todo # <<>>
           /\ report'.op = report.op /\ report'.runs = report.runs /\ report'.stopped = report.stopped
           /\ \/ report'.at = "idle" /\ report'.good = 0
              \/ /\ report'.at = "extract" /\ report'.todo = Tail(report.todo) /\ report'.good = report.good
                 /\ report'.args = report.args /\ report'.json = report.json /\ report'.plotted = report.plotted
                 /\ \/ /\ report.done[Head(report.todo)]
                       /\ report'.done = report.done /\ report'.metrics = report.metrics
                    \/ /\ ~report.done[Head(report.todo)]
                       /\ report'.done = [report.done EXCEPT ![Head(report.todo)] = TRUE]
                       /\ report'.metrics =
                            [report.metrics EXCEPT ![Head(report.todo)] =
                                IF report.args[Head(report.todo)] > 0 THEN Append(@, report.args[Head(report.todo)])
                                ELSE @]
<1> DEFINE p == Head(report.todo)
           rest == Tail(report.todo)
           now == IF report.args[p] > 0 THEN Append(report.metrics[p], report.args[p]) ELSE report.metrics[p]
           done == [report.done EXCEPT ![p] = TRUE]
           metrics2 == [report.metrics EXCEPT ![p] = now]
           lost == [report EXCEPT !.good = 0]
<1>0. report.at = "extract" /\ report.todo # <<>> /\ report.todo \in Todo
  BY DEF P!Extract, P!At, ReportTypes, Report
<1>1. p \in P!Parts /\ rest \in Todo
  <2>1. CASE report.todo = <<"cu">>
    <3>1. p = "cu" /\ rest = <<>>
      BY <2>1
    <3> QED
      BY <3>1 DEF Todo, P!Parts
  <2>2. CASE report.todo = <<"du", "cu">>
    <3>1. p = "du" /\ rest = <<"cu">>
      BY <2>2
    <3> QED
      BY <3>1 DEF Todo, P!Parts
  <2> QED
    BY <1>0, <2>1, <2>2 DEF Todo
<1>2. now \in Seq(Int) /\ done \in [P!Parts -> BOOLEAN] /\ metrics2 \in [P!Parts -> Seq(Int)]
  <2>1. report.metrics \in [P!Parts -> Seq(Int)] /\ report.args \in [P!Parts -> Int]
        /\ report.done \in [P!Parts -> BOOLEAN]
    BY DEF ReportTypes, Report
  <2> HIDE DEF p
  <2>2. report.metrics[p] \in Seq(Int) /\ report.args[p] \in Int
    BY <1>1, <2>1
  <2>3. now \in Seq(Int)
    BY <2>2
  <2> HIDE DEF now
  <2> QED
    BY <1>1, <2>1, <2>3
<1>3. lost \in Report /\ lost.op = report.op /\ lost.runs = report.runs /\ lost.stopped = report.stopped
      /\ lost.good = 0
  BY DEF ReportTypes, Report
<1>4. \/ report.done[p] /\ P!Do([report EXCEPT !.todo = rest])
      \/ ~report.done[p] /\ P!Do([report EXCEPT !.todo = rest, !.done = done, !.metrics = metrics2])
      \/ P!Raised(lost)
  BY DEF P!Extract, ReportTypes, Report
<1>5. metrics2 = [report.metrics EXCEPT ![p] = IF report.args[p] > 0 THEN Append(@, report.args[p]) ELSE @]
  OBVIOUS
<1> HIDE DEF p, rest, now, done, metrics2, lost
<1>6. CASE report.done[p] /\ P!Do([report EXCEPT !.todo = rest])
  <2>1. report' = [report EXCEPT !.todo = rest] /\ driver' = driver
    BY <1>6 DEF P!Do
  <2>2. /\ report' \in Report /\ report'.at = report.at /\ report'.todo = rest /\ report'.good = report.good
        /\ report'.op = report.op /\ report'.runs = report.runs /\ report'.stopped = report.stopped
        /\ report'.args = report.args /\ report'.json = report.json /\ report'.plotted = report.plotted
        /\ report'.done = report.done /\ report'.metrics = report.metrics
    BY <1>1, <2>1 DEF ReportTypes, Report
  <2> QED
    BY <1>0, <1>6, <2>1, <2>2 DEF p, rest
<1>7. CASE ~report.done[p] /\ P!Do([report EXCEPT !.todo = rest, !.done = done, !.metrics = metrics2])
  <2>1. report' = [report EXCEPT !.todo = rest, !.done = done, !.metrics = metrics2] /\ driver' = driver
    BY <1>7 DEF P!Do
  <2>2. /\ report' \in Report /\ report'.at = report.at /\ report'.todo = rest /\ report'.good = report.good
        /\ report'.op = report.op /\ report'.runs = report.runs /\ report'.stopped = report.stopped
        /\ report'.args = report.args /\ report'.json = report.json /\ report'.plotted = report.plotted
        /\ report'.done = done /\ report'.metrics = metrics2
    BY <1>1, <1>2, <2>1 DEF ReportTypes, Report
  <2> QED
    BY <1>0, <1>5, <1>7, <2>1, <2>2 DEF p, rest, done
<1>8. CASE P!Raised(lost)
  BY <1>0, <1>3, <1>8, RaisedIs
<1> QED
  BY <1>4, <1>6, <1>7, <1>8

\* The end of Stop: the test has it, or Start goes on.
LEMMA EndStopIs ==
    ASSUME ReportTypes, P!EndStop
    PROVE  /\ driver' = driver /\ report' \in Report /\ report.at = "extract" /\ report.todo = <<>>
           /\ report'.at = (IF report.op = "Stop" THEN "idle" ELSE "reset")
           /\ report'.stopped = (report.op = "Stop")
           /\ report'.op = report.op /\ report'.done = report.done /\ report'.metrics = report.metrics
           /\ report'.runs = report.runs /\ report'.good = report.good
           /\ report.json > 0 => report.json \in report'.plotted
           /\ report.plotted \subseteq report'.plotted
<1> DEFINE next == IF report.op = "Stop" THEN "idle" ELSE "reset"
           ends == report.op = "Stop"
           plots == IF report.json > 0 THEN report.plotted \cup {report.json} ELSE report.plotted
<1>1. /\ next \in ReportSteps /\ ends \in BOOLEAN /\ plots \in SUBSET Int
      /\ report.json > 0 => report.json \in plots
      /\ report.plotted \subseteq plots
  BY DEF ReportSteps, ReportTypes, Report
<1>2. /\ report' = [report EXCEPT !.at = next, !.stopped = ends, !.plotted = plots] /\ driver' = driver
      /\ report.at = "extract" /\ report.todo = <<>>
  BY DEF P!EndStop, P!Do, P!At, ReportTypes, Report
<1> HIDE DEF next, ends, plots
<1>3. /\ report' \in Report
  BY <1>1, <1>2 DEF ReportTypes, Report
<1>4. /\ report'.at = next /\ report'.stopped = ends /\ report'.plotted = plots
      /\ report'.op = report.op /\ report'.done = report.done /\ report'.metrics = report.metrics
      /\ report'.runs = report.runs /\ report'.good = report.good
  BY <1>2 DEF ReportTypes, Report
<1> QED
  BY <1>1, <1>2, <1>3, <1>4 DEF next, ends

\* What a reset leaves.
LEMMA ForgottenIs ==
    ASSUME NEW r \in Report
    PROVE  LET s == P!Forgotten(r)
           IN  /\ s \in Report /\ s.at = r.at /\ s.op = r.op /\ s.todo = r.todo /\ s.args = r.args
               /\ s.folder = r.folder /\ s.hears = r.hears /\ s.plotted = r.plotted /\ s.runs = r.runs
               /\ s.good = r.good /\ s.stopped = r.stopped
               /\ \A p \in P!Parts : ~s.done[p] /\ s.metrics[p] = <<>>
<1> DEFINE done == [p \in P!Parts |-> FALSE]
           none == [p \in P!Parts |-> <<>>]
<1>1. done \in [P!Parts -> BOOLEAN] /\ none \in [P!Parts -> Seq(Int)]
  OBVIOUS
<1>2. P!Forgotten(r) = [r EXCEPT !.done = done, !.metrics = none]
  BY DEF P!Forgotten
<1>3. \A p \in P!Parts : ~done[p] /\ none[p] = <<>>
  OBVIOUS
<1> HIDE DEF done, none
<1>4. LET s == P!Forgotten(r)
      IN  /\ s \in Report /\ s.at = r.at /\ s.op = r.op /\ s.todo = r.todo /\ s.args = r.args
          /\ s.folder = r.folder /\ s.hears = r.hears /\ s.plotted = r.plotted /\ s.runs = r.runs
          /\ s.good = r.good /\ s.stopped = r.stopped /\ s.done = done /\ s.metrics = none
  BY <1>1, <1>2 DEF Report
<1> QED
  BY <1>3, <1>4

\* The CU-CP and the CU have reset when the program is created.
LEMMA PrepareIs ==
    ASSUME ReportTypes, P!Prepare
    PROVE  /\ driver' = driver /\ report' \in Report /\ report.at = "reset"
           /\ report'.at \in {"idle", "create"} /\ report'.op = report.op
           /\ report'.runs = report.runs /\ report'.good = report.good /\ report'.stopped = report.stopped
           /\ driver \in {"cucp", "cu"} => \A p \in P!Parts : ~report'.done[p] /\ report'.metrics[p] = <<>>
<1> DEFINE r == IF driver \in {"cucp", "cu"} THEN P!Forgotten(report) ELSE report
           folder == P!Opened(r.folder)
<1>1. /\ r \in Report /\ r.op = report.op /\ r.runs = report.runs /\ r.good = report.good
      /\ r.stopped = report.stopped
      /\ driver \in {"cucp", "cu"} => \A p \in P!Parts : ~r.done[p] /\ r.metrics[p] = <<>>
  BY ForgottenIs DEF ReportTypes
<1>2. folder \in Int
  <2> HIDE DEF r
  <2> QED
    BY <1>1 DEF P!Opened, P!EmptyFolder, P!NoFolder, Report
<1>3. /\ report.at = "reset"
      /\ P!Raised(r) \/ P!Do([r EXCEPT !.at = "create", !.folder = folder])
  <2>1. /\ report.at = "reset"
        /\ P!Raised(r) \/ P!Do([r EXCEPT !.at = "create", !.folder = P!Opened(@)])
    BY DEF P!Prepare, P!At
  <2> HIDE DEF r
  <2> QED
    BY <1>1, <2>1 DEF Report
<1> HIDE DEF r, folder
<1>4. CASE P!Raised(r)
  BY <1>1, <1>3, <1>4, RaisedIs
<1>5. CASE P!Do([r EXCEPT !.at = "create", !.folder = folder])
  <2>1. report' = [r EXCEPT !.at = "create", !.folder = folder] /\ driver' = driver
    BY <1>5 DEF P!Do
  <2>2. /\ report' \in Report /\ report'.at = "create" /\ report'.op = r.op
        /\ report'.runs = r.runs /\ report'.good = r.good /\ report'.stopped = r.stopped
        /\ report'.done = r.done /\ report'.metrics = r.metrics
    BY <1>1, <1>2, <2>1 DEF Report, ReportSteps
  <2> QED
    BY <1>1, <1>3, <2>1, <2>2
<1> QED
  BY <1>3, <1>4, <1>5

\* The program runs, and its captures are in the folder of its run, or the call ends.
LEMMA StartSutIs ==
    ASSUME ReportTypes, P!StartSut
    PROVE  /\ driver' = driver /\ report' \in Report /\ report.at = "create"
           /\ report'.at \in {"idle", "await"} /\ report'.op = report.op
           /\ report'.done = report.done /\ report'.metrics = report.metrics
           /\ report'.good = report.good /\ report'.stopped = report.stopped
           /\ report'.at = "await" => report'.folder = report'.runs /\ report'.runs > 0
<1> DEFINE s == P!StopListening(report)
           next == s.runs + 1
           clear == [s EXCEPT !.runs = next]
           quit == [clear EXCEPT !.at = "idle"]
           run == [clear EXCEPT !.at = "await", !.running = TRUE, !.folder = clear.runs]
<1>1. /\ s \in Report /\ s.op = report.op /\ s.done = report.done /\ s.metrics = report.metrics
      /\ s.good = report.good /\ s.stopped = report.stopped /\ s.runs = report.runs
  BY StopListeningIs DEF ReportTypes
<1>2. next \in Nat /\ next > 0
  BY <1>1 DEF Report
<1>3. /\ report.at = "create"
      /\ P!Raised(clear) \/ P!Do(quit) \/ P!Do(run)
  <2>1. [s EXCEPT !.runs = @ + 1] = clear
    BY <1>1 DEF Report
  <2> QED
    BY <2>1 DEF P!StartSut, P!At
<1> HIDE DEF s, next
<1>4. /\ clear \in Report /\ clear.op = report.op /\ clear.done = report.done /\ clear.metrics = report.metrics
      /\ clear.good = report.good /\ clear.stopped = report.stopped /\ clear.runs = next
  BY <1>1, <1>2 DEF Report
<1> HIDE DEF clear
<1>5. CASE P!Raised(clear)
  BY <1>3, <1>4, <1>5, RaisedIs
<1>6. CASE P!Do(quit)
  <2>1. report' = [clear EXCEPT !.at = "idle"] /\ driver' = driver
    BY <1>6 DEF P!Do
  <2>2. /\ report' \in Report /\ report'.at = "idle" /\ report'.op = clear.op
        /\ report'.good = clear.good /\ report'.stopped = clear.stopped
        /\ report'.done = clear.done /\ report'.metrics = clear.metrics
    BY <1>4, <2>1 DEF Report, ReportSteps
  <2> QED
    BY <1>3, <1>4, <2>1, <2>2
<1>7. CASE P!Do(run)
  <2>1. report' = [clear EXCEPT !.at = "await", !.running = TRUE, !.folder = next] /\ driver' = driver
    BY <1>4, <1>7 DEF P!Do
  <2>2. next \in Int
    BY <1>2
  <2>3. /\ report' \in Report /\ report'.at = "await" /\ report'.op = clear.op /\ report'.folder = next
    BY <1>4, <2>1, <2>2 DEF Report, ReportSteps
  <2>4. /\ report'.good = clear.good /\ report'.stopped = clear.stopped /\ report'.runs = clear.runs
        /\ report'.done = clear.done /\ report'.metrics = clear.metrics
    BY <1>4, <2>1 DEF Report
  <2> QED
    BY <1>2, <1>3, <1>4, <2>1, <2>3, <2>4
<1> HIDE DEF quit, run
<1> QED
  BY <1>3, <1>5, <1>6, <1>7

\* The run has started, and the gNB has reset, or the call ends.
LEMMA AwaitStartedIs ==
    ASSUME ReportTypes, P!AwaitStarted
    PROVE  /\ driver' = driver /\ report' \in Report /\ report.at = "await"
           /\ report'.at = "idle" /\ report'.stopped = report.stopped
           /\ \/ report'.good = report.good
              \/ /\ report'.good = report.runs /\ report'.folder = report.folder
                 /\ IF driver = "gnb"
                    THEN report'.hears /\ \A p \in P!Parts : ~report'.done[p] /\ report'.metrics[p] = <<>>
                    ELSE report'.done = report.done /\ report'.metrics = report.metrics
<1> DEFINE s == [report EXCEPT !.at = "idle", !.good = report.runs]
           f == P!Forgotten(s)
<1>1. /\ s \in Report /\ s.at = "idle" /\ s.good = report.runs /\ s.folder = report.folder
      /\ s.stopped = report.stopped /\ s.done = report.done /\ s.metrics = report.metrics
  BY DEF ReportTypes, Report, ReportSteps
<1>2. /\ report.at = "await"
      /\ \/ P!Raised(report)
         \/ P!Do(IF driver = "gnb" THEN [f EXCEPT !.hears = TRUE] ELSE s)
  BY DEF P!AwaitStarted, P!At
<1> HIDE DEF s
<1>3. CASE P!Raised(report)
  BY <1>2, <1>3, RaisedIs DEF ReportTypes
<1>4. CASE P!Do(IF driver = "gnb" THEN [f EXCEPT !.hears = TRUE] ELSE s) /\ driver = "gnb"
  <2>1. report' = [f EXCEPT !.hears = TRUE] /\ driver' = driver
    BY <1>4 DEF P!Do
  <2>2. /\ f \in Report /\ f.at = "idle" /\ f.good = report.runs /\ f.folder = report.folder
        /\ f.stopped = report.stopped
        /\ \A p \in P!Parts : ~f.done[p] /\ f.metrics[p] = <<>>
    BY <1>1, ForgottenIs
  <2> HIDE DEF f
  <2>3. /\ report' \in Report /\ report'.at = f.at /\ report'.good = f.good /\ report'.folder = f.folder
        /\ report'.stopped = f.stopped /\ report'.hears /\ report'.done = f.done
        /\ report'.metrics = f.metrics
    BY <2>1, <2>2 DEF Report
  <2> QED
    BY <1>2, <1>4, <2>1, <2>2, <2>3
<1>5. CASE P!Do(IF driver = "gnb" THEN [f EXCEPT !.hears = TRUE] ELSE s) /\ driver # "gnb"
  BY <1>1, <1>2, <1>5 DEF P!Do
<1> QED
  BY <1>2, <1>3, <1>4, <1>5

\* The parts of a driver, and those that are left to read.
Own == CASE driver = "gnb" -> {"du", "cu"} [] driver = "cuup" -> {} [] OTHER -> {"cu"}
Members(todo) == CASE todo = <<"du", "cu">> -> {"du", "cu"} [] todo = <<"cu">> -> {"cu"} [] OTHER -> {}
Left == Members(report.todo)

\* The captures of a part have not been read, or are the metrics of the run that has started.
Unread(p) == ~report.done[p] /\ report.metrics[p] = <<>>
Has(p) == report.done[p] /\ report.metrics[p] = <<report.good>>

\* No run has started while Start is under way; the program is created with nothing read
\* of the drivers that reset first, and writes to the folder of its run.
Starts ==
    /\ report.at # "idle" /\ report.op = "Start" => report.good = 0 /\ ~report.stopped
    /\ report.at # "idle" => report.op \in {"Start", "Stop"}
    /\ report.at \in {"reset", "create", "await"} => report.op = "Start"
    /\ report.at \in {"create", "await"} /\ driver \in {"cucp", "cu"} => Unread("cu")
    /\ report.at = "await" => report.folder = report.runs /\ report.runs > 0

\* While Stop reads: each part has been read once, or will be, from the folder of the run.
Reads ==
    report.at = "extract" =>
        /\ \A p \in Own : Has(p) \/ (p \in Left /\ Unread(p) /\ report.args[p] = report.good)
        /\ driver = "gnb" => report.good \in {report.json} \cup report.plotted

\* Before that: nothing has been read, and the folder of the run is the one that is open.
FreshRun ==
    /\ ~report.stopped /\ report.folder = report.good
    /\ \A p \in Own : Unread(p) /\ (report.at = "sut" => report.args[p] = report.good)
    /\ driver = "gnb" => report.hears

\* After that: everything has been read once.
KeptRun ==
    /\ report.stopped
    /\ \A p \in Own : Has(p)
    /\ driver = "gnb" => report.good \in report.plotted

\* The invariant of the drivers made of others.
ReportInv ==
    /\ ReportTypes /\ Starts
    /\ report.good # 0 => Reads /\ (report.at \in {"idle", "args", "sut"} => FreshRun \/ KeptRun)

\* The parts of each driver.
LEMMA OwnIs ==
    ASSUME ReportTypes
    PROVE  /\ Own \subseteq P!Parts
           /\ driver = "gnb" => Own = {"du", "cu"}
           /\ driver = "cuup" => Own = {}
           /\ driver \in {"cucp", "cu"} => Own = {"cu"}
           /\ \A i \in DOMAIN P!PartsOf(driver) : P!PartsOf(driver)[i] \in Own
  BY DEF ReportTypes, Own, P!Parts, P!PartsOf

\* What is left of the parts that Stop goes through.
LEMMA MembersAre ==
    Members(<<>>) = {} /\ Members(<<"cu">>) = {"cu"} /\ Members(<<"du", "cu">>) = {"du", "cu"}
<1>1. Len(<<>>) = 0 /\ Len(<<"cu">>) = 1 /\ Len(<<"du", "cu">>) = 2
  OBVIOUS
<1>2. <<"cu">> # <<"du", "cu">> /\ <<>> # <<"cu">> /\ <<>> # <<"du", "cu">>
  BY <1>1
<1> QED
  BY <1>2 DEF Members

\* It holds initially.
LEMMA ReportInit ==
    ASSUME DriverKinds \subseteq {"cucp", "cu", "cuup", "gnb"}, P!Init
    PROVE  ReportInv
<1> DEFINE args == [p \in P!Parts |-> 0]
           done == [p \in P!Parts |-> TRUE]
           none == [p \in P!Parts |-> <<>>]
<1>1. args \in [P!Parts -> Int] /\ done \in [P!Parts -> BOOLEAN] /\ none \in [P!Parts -> Seq(Int)]
  OBVIOUS
<1>2. /\ driver \in DriverKinds
      /\ report = [at |-> "idle", op |-> "none", todo |-> <<>>, args |-> args, folder |-> 0,
                   running |-> FALSE, done |-> done, metrics |-> none, hears |-> FALSE, json |-> 0,
                   plotted |-> {}, runs |-> 0, raised |-> 0, good |-> 0, stopped |-> FALSE]
  BY DEF P!Init, P!NoFolder
<1> HIDE DEF args, done, none
<1>3. report \in Report
  BY <1>1, <1>2 DEF Report, ReportSteps, Todo
<1> QED
  BY <1>2, <1>3 DEF ReportInv, ReportTypes, Starts

\* Every step keeps it.
LEMMA ReportNext ==
    ASSUME ReportInv, P!Next
    PROVE  ReportInv'
<1>0. /\ ReportTypes /\ Starts /\ report.good \in Nat /\ report.at \in ReportSteps
      /\ report.op \in {"none", "Start", "Stop"}
      /\ report.good # 0 => Reads /\ (report.at \in {"idle", "args", "sut"} => FreshRun \/ KeptRun)
      /\ "cu" \in P!Parts /\ Own \subseteq P!Parts
  BY OwnIs DEF ReportInv, ReportTypes, Report, P!Parts
<1>00. driver' = driver => Own' = Own
  BY DEF Own
<1>1. ASSUME NEW op \in {"Start", "Stop"}, P!Call(op) PROVE ReportInv'
  <2>1. ReportTypes' /\ Starts'
    BY <1>0, <1>1, CallBegins DEF ReportTypes, Starts, Unread
  <2>2. ASSUME report'.good # 0 PROVE Reads' /\ (FreshRun' \/ KeptRun')
    BY <1>0, <1>00, <1>1, <2>2, CallBegins DEF Reads, FreshRun, KeptRun, Unread, Has
  <2> QED
    BY <2>1, <2>2 DEF ReportInv
<1>2. CASE P!GetArguments
  <2>1. ReportTypes' /\ Starts'
    BY <1>0, <1>2, GetArgumentsIs DEF ReportTypes, Starts, Unread
  <2>2. ASSUME report'.good # 0 PROVE Reads' /\ (FreshRun' \/ KeptRun')
    BY <1>0, <1>00, <1>2, <2>2, GetArgumentsIs DEF Reads, FreshRun, KeptRun, Unread, Has
  <2> QED
    BY <2>1, <2>2 DEF ReportInv
<1>3. CASE P!StopSut
  <2>1. ReportTypes' /\ Starts'
    BY <1>0, <1>3, StopSutIs DEF ReportTypes, Starts, Unread
  <2>2. ASSUME report'.good # 0, report'.at = "idle" PROVE Reads' /\ (FreshRun' \/ KeptRun')
    BY <1>0, <1>00, <1>3, <2>2, StopSutIs DEF Reads, FreshRun, KeptRun, Unread, Has
  <2>3. ASSUME report'.good # 0, report'.at = "extract" PROVE Reads'
    <3>1. Left' = Own
      <4>1. driver' = driver /\ report'.todo = P!PartsOf(driver)
        BY <1>0, <1>3, <2>3, StopSutIs
      <4>2. /\ driver = "gnb" => P!PartsOf(driver) = <<"du", "cu">>
            /\ driver = "cuup" => P!PartsOf(driver) = <<>>
            /\ driver \in {"cucp", "cu"} => P!PartsOf(driver) = <<"cu">>
        BY DEF P!PartsOf
      <4> QED
        BY <1>0, <4>1, <4>2, OwnIs, MembersAre DEF Left, ReportTypes
    <3> QED
      BY <1>0, <1>00, <1>3, <2>3, <3>1, StopSutIs DEF Reads, FreshRun, KeptRun, Unread, Has
  <2> QED
    BY <1>3, <2>1, <2>2, <2>3, StopSutIs DEF ReportInv
<1>4. CASE P!Extract
  <2>0. /\ report.todo \in Todo /\ report.todo # <<>> /\ Head(report.todo) \in P!Parts
        /\ report.done \in [P!Parts -> BOOLEAN] /\ report.metrics \in [P!Parts -> Seq(Int)]
    BY <1>0, <1>4, ExtractIs DEF ReportTypes, Report, Todo, P!Parts
  <2>1. ReportTypes' /\ Starts'
    BY <1>0, <1>4, ExtractIs DEF ReportTypes, Starts, Unread
  <2>2. ASSUME report'.good # 0 PROVE Reads' /\ report'.at = "extract"
    <3> DEFINE p == Head(report.todo)
    <3>1. Left \subseteq Left' \cup {p}
      <4>1. report'.todo = Tail(report.todo)
        BY <1>0, <1>4, <2>2, ExtractIs
      <4>2. CASE report.todo = <<"cu">>
        <5>1. p = "cu" /\ Left = {"cu"}
          BY <4>2, MembersAre DEF Left
        <5> QED
          BY <5>1
      <4>3. CASE report.todo = <<"du", "cu">>
        <5>1. p = "du" /\ report'.todo = <<"cu">> /\ Left = {"du", "cu"}
          BY <4>1, <4>3, MembersAre DEF Left
        <5>2. Left' = {"cu"}
          BY <5>1, MembersAre DEF Left
        <5> QED
          BY <5>1, <5>2
      <4> QED
        BY <2>0, <4>2, <4>3 DEF Todo
    <3>2. /\ driver' = driver /\ report'.good = report.good /\ report.good > 0 /\ report.at = "extract"
          /\ report'.args = report.args /\ report'.json = report.json /\ report'.plotted = report.plotted
          /\ report'.at = "extract"
          /\ \/ report.done[p] /\ report'.done = report.done /\ report'.metrics = report.metrics
             \/ /\ ~report.done[p] /\ report'.done = [report.done EXCEPT ![p] = TRUE]
                /\ report'.metrics = [report.metrics EXCEPT ![p] =
                                        IF report.args[p] > 0 THEN Append(@, report.args[p]) ELSE @]
      BY <1>0, <1>4, <2>2, ExtractIs
    <3> HIDE DEF p
    <3>3. p \in P!Parts
      BY <2>0 DEF p
    <3>4. ASSUME NEW q \in Own
          PROVE  Has(q)' \/ (q \in Left' /\ Unread(q)' /\ report'.args[q] = report'.good)
      <4>1. q \in P!Parts /\ (Has(q) \/ (q \in Left /\ Unread(q) /\ report.args[q] = report.good))
        BY <1>0, <2>2, <3>2, <3>4 DEF Reads
      <4>2. CASE q # p
        BY <2>0, <3>1, <3>2, <3>3, <4>1, <4>2 DEF Has, Unread
      <4>3. CASE q = p /\ report.done[p]
        BY <3>2, <4>1, <4>3 DEF Has, Unread
      <4>4. CASE q = p /\ ~report.done[p]
        <5>1. report.metrics[p] = <<>> /\ report.args[p] = report.good
          BY <4>1, <4>4 DEF Has, Unread
        <5>2. report'.done[p] /\ report'.metrics[p] = Append(<<>>, report.good)
          BY <2>0, <3>2, <3>3, <4>4, <5>1
        <5> QED
          BY <3>2, <4>4, <5>2 DEF Has
      <4> QED
        BY <4>2, <4>3, <4>4
    <3> QED
      BY <1>0, <1>00, <2>2, <3>2, <3>4 DEF Reads
  <2> QED
    BY <2>1, <2>2 DEF ReportInv
<1>5. CASE P!EndStop
  <2>1. ReportTypes' /\ Starts'
    BY <1>0, <1>5, EndStopIs DEF ReportTypes, Starts, Unread
  <2>2. ASSUME report'.good # 0 PROVE Reads' /\ KeptRun'
    <3>1. Left = {} /\ report.op = "Stop" /\ report.good > 0
      BY <1>0, <1>5, <2>2, EndStopIs, MembersAre DEF Left, Starts
    <3> QED
      BY <1>0, <1>00, <1>5, <2>2, <3>1, EndStopIs DEF Reads, KeptRun, Has
  <2> QED
    BY <2>1, <2>2 DEF ReportInv
<1>6. CASE P!Prepare
  BY <1>0, <1>6, PrepareIs DEF ReportInv, ReportTypes, Starts, Unread
<1>7. CASE P!StartSut
  BY <1>0, <1>7, StartSutIs DEF ReportInv, ReportTypes, Starts, Unread
<1>8. CASE P!AwaitStarted
  <2>1. report.good = 0 /\ ~report.stopped
    BY <1>0, <1>8, AwaitStartedIs DEF Starts
  <2>2. ReportTypes' /\ Starts'
    BY <1>0, <1>8, AwaitStartedIs DEF ReportTypes, Starts
  <2>3. ASSUME report'.good # 0 PROVE Reads' /\ FreshRun'
    <3>1. /\ driver' = driver /\ report'.at = "idle" /\ ~report'.stopped /\ report'.folder = report'.good
          /\ driver = "gnb" => report'.hears /\ \A p \in P!Parts : ~report'.done[p] /\ report'.metrics[p] = <<>>
          /\ driver # "gnb" => report'.done = report.done /\ report'.metrics = report.metrics
      BY <1>0, <1>8, <2>1, <2>3, AwaitStartedIs DEF Starts
    <3>2. driver \in {"cucp", "cu"} => Unread("cu")
      BY <1>0, <1>8, AwaitStartedIs DEF Starts
    <3>3. driver \in {"cucp", "cu", "cuup", "gnb"}
      BY <1>0 DEF ReportTypes
    <3> QED
      BY <1>0, <1>00, <3>1, <3>2, <3>3, OwnIs DEF Reads, FreshRun, Unread
  <2> QED
    BY <2>2, <2>3 DEF ReportInv
<1> QED
  BY <1>1, <1>2, <1>3, <1>4, <1>5, <1>6, <1>7, <1>8 DEF P!Next

\* It holds in every state of those drivers.
LEMMA ReportInvariance == MCSpec => [](kind = "reports" => ReportInv)
<1>1. MCInit => (kind = "reports" => ReportInv)
  BY ReportInit, DriverAssumption DEF MCInit
<1>2. (kind = "reports" => ReportInv)
        /\ [MCNext]_<<reportVars, ueVars, wsVars, coreVars, execVars, attachVars, viaviVars, reportsVars>>
      => (kind = "reports" => ReportInv)'
  <2> SUFFICES ASSUME kind = "reports" => ReportInv, kind' = "reports",
                      [MCNext]_<<reportVars, ueVars, wsVars, coreVars, execVars, attachVars, viaviVars,
                                 reportsVars>>
               PROVE  ReportInv'
    OBVIOUS
  <2>1. CASE MCNext
    BY <2>1, StepOfKind, ReportNext DEF Drivers
  <2>2. CASE UNCHANGED <<reportVars, ueVars, wsVars, coreVars, execVars, attachVars, viaviVars, reportsVars>>
    <3>1. kind' = kind /\ UNCHANGED <<driver, report>>
      BY <2>2 DEF reportVars, reportsVars
    <3> QED
      BY <3>1 DEF ReportInv, ReportTypes, Starts, Reads, FreshRun, KeptRun, Own, Left, Unread, Has
  <2> QED
    BY <2>1, <2>2
<1> QED
  BY <1>1, <1>2, PTL DEF MCSpec

-----------------------------------------------------------------------------
\* The metrics that a test reads are of its own run: of the core, each program's own
\* in the round that ends, and of a CU-CP, CU or gNB the captures of the run that has
\* started, read once.  For any number of starts, faults, UEs and threads.
THEOREM MetricsAreOfTheRun == MCSpec => []MetricsAreOwn
<1>1. (kind = "core" => CoreTypes /\ OwnInv) => (kind = "core" => D!MetricsAreOwn)
  <2> SUFFICES ASSUME CoreTypes, OwnInv PROVE D!MetricsAreOwn
    OBVIOUS
  <2>1. CASE core = "open5gs"
    <3>1. D!Programs = {"open5gs"}
      BY <2>1, ProgramsAre DEF CoreTypes
    <3> QED
      BY <3>1 DEF D!MetricsAreOwn
  <2> QED
    BY <2>1 DEF OwnInv
<1>2. (kind = "reports" => ReportInv) => (kind = "reports" => P!ReportIsOfRun)
  <2> SUFFICES ASSUME ReportInv, report.at = "idle", report.good # 0
               PROVE  /\ \A i \in DOMAIN P!PartsOf(driver) :
                           report.metrics[P!PartsOf(driver)[i]] = IF report.stopped THEN <<report.good>> ELSE <<>>
                      /\ driver = "gnb" /\ report.stopped => report.good \in report.plotted
    BY DEF P!ReportIsOfRun, P!At
  <2>1. FreshRun \/ KeptRun
    BY DEF ReportInv
  <2> QED
    BY <2>1, OwnIs DEF ReportInv, FreshRun, KeptRun, Unread, Has
<1>3. (kind = "core" => D!MetricsAreOwn) /\ (kind = "reports" => P!ReportIsOfRun) => MetricsAreOwn
  BY DEF MetricsAreOwn
<1> QED
  BY <1>1, <1>2, <1>3, OwnInvariance, ReportInvariance, PTL
=============================================================================
