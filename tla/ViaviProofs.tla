----------------------------- MODULE ViaviProofs -----------------------------
(***************************************************************************)
(* Proofs about the campaigns of the Viavi emulator in MCDrivers: that the *)
(* verdict of a test is about its own campaign (Viavi), and that what is   *)
(* reported of a log is what the log says (ViaviReport), for any number of *)
(* tests, errors and lines.                                                *)
(*                                                                         *)
(* What a log says is read from all of it, and the parser takes one line   *)
(* at a time: the lemmas about the first and the last number of a set say  *)
(* how the one moves with a line more, so that it can be compared with     *)
(* what the parser remembers.                                              *)
(***************************************************************************)
EXTENDS MCDrivers, WellFoundedInduction, TLAPS

-----------------------------------------------------------------------------
\* The kind of a behaviour stays, and its steps are those of the module.
LEMMA StepOfViavi ==
    ASSUME MCNext
    PROVE  /\ kind = "viavi" => V!Next
           /\ kind' = kind
           /\ kind \in LogKinds => R!Next
<1> USE KindsAssumption DEF Drivers
<1>1. CASE kind \in Kinds /\ Next /\ UNCHANGED cut /\ Others
  BY <1>1 DEF Next
<1>2. CASE kind \in CaptureKinds /\ C!Next /\ Others
  <2>1. kind' = kind
    BY <1>2 DEF C!Next, C!Packet, C!TSharkFails
  <2> QED
    BY <1>2, <2>1
<1>3. CASE kind \in LogKinds /\ R!Next /\ UNCHANGED cut /\ Others
  BY <1>3 DEF R!Next
<1>4. CASE kind = "ue" /\ U!Next /\ Others
  BY <1>4 DEF Others, reportVars
<1>5. CASE kind = "ws" /\ W!Next /\ Others
  BY <1>5 DEF Others, reportVars
<1>6. CASE kind = "core" /\ D!Next /\ Others
  BY <1>6 DEF Others, reportVars
<1>7. CASE kind = "exec" /\ X!Next /\ Others
  BY <1>7 DEF Others, reportVars
<1>8. CASE kind = "attach" /\ A!Next /\ Others
  BY <1>8 DEF Others, reportVars
<1>9. CASE kind = "viavi" /\ V!Next /\ Others
  BY <1>9 DEF Others, reportVars
<1>10. CASE kind = "reports" /\ P!Next /\ Others
  BY <1>10 DEF Others, reportVars
<1> QED
  BY <1>1, <1>2, <1>3, <1>4, <1>5, <1>6, <1>7, <1>8, <1>9, <1>10, Zenon DEF MCNext

-----------------------------------------------------------------------------
(* A session with the Viavi emulator.                                      *)

\* Before the campaign runs, while it does, when it was stopped, and after the verdict.
Setup == {"create", "get", "gnb", "schedule", "run"}
Running == {"confirm", "teardown", "stop", "finish"}
Stopping == {"abort", "abortwait"}
Reporting == {"report", "again"}
Leaving == {"exit", "exitwait", "status", "delete", "idle"}

Statuses == {"nothing", "waiting", "running", "tested", "odd", "pass", "fail", "stopping"}
Progresses == Levels \cup {0, 100}
Raised == {"none", "http", "timeout", "other", "runtime", "fail"}

Sessions == [at : Setup \cup Running \cup Stopping \cup Reporting \cup Leaving, nth : Nat,
             info : [status : Statuses, progress : Progresses, of : Nat],
             held : Nat, last : Progresses, raised : Raised, gnb : {"on", "off"}, clean : BOOLEAN,
             aborted : BOOLEAN, verdict : {"none", "passed", "failed"}, kpis : Nat,
             core : {"up", "down"}]
Emulators == [up : BOOLEAN, status : Statuses, progress : Progresses, of : Nat]

\* What the emulator answers from the launch of a campaign to its end is about the campaign of this test.
OwnCampaign == session.at \in Running => emulator.of = session.nth

\* What a passing verdict is founded on.
Earned == session.aborted
    \/ (session.clean /\ session.info.status = "pass" /\ session.info.of = session.nth)

\* Before the verdict there is none; a test that waits for the end of its campaign without an exception has a
\* clean gNB, and one that goes on to its report has earned its verdict.
VerdictInv ==
    /\ session.at \notin Leaving => session.verdict = "none"
    /\ session.at = "finish" /\ session.raised = "none" => session.clean
    /\ session.at \in Reporting /\ session.raised = "none" => Earned
    /\ session.verdict = "passed" => Earned
    /\ session.kpis \in {0, session.nth}

ViaviInv ==
    /\ session \in Sessions /\ emulator \in Emulators
    /\ OwnCampaign
    /\ VerdictInv

\* No emulator and no session, initially.
LEMMA ViaviInit == V!Init => ViaviInv
  BY DEF V!Init, ViaviInv, OwnCampaign, VerdictInv, Sessions, Emulators, V!NoTma, V!At, Setup,
     Running, Stopping, Reporting, Leaving, Statuses, Progresses, Raised, Earned

\* The places of the test process.
Places == Setup \cup Running \cup Stopping \cup Reporting \cup Leaving

\* What a step leaves alone that does not judge.
Keeps == /\ session' \in Sessions
         /\ session'.nth = session.nth /\ session'.verdict = session.verdict /\ session'.kpis = session.kpis
         /\ session'.info = session.info /\ session'.clean = session.clean
         /\ session'.aborted = session.aborted

\* A step to another place, and one that raises, keep the types.
LEMMA GotoKeeps ==
    ASSUME session \in Sessions, NEW p \in Places, V!Goto(p)
    PROVE  /\ Keeps /\ session'.at = p /\ session'.raised = session.raised
  BY DEF Sessions, V!Goto, Keeps, Places

LEMMA RaiseKeeps ==
    ASSUME session \in Sessions, NEW p \in Places, NEW e \in Raised, V!Raise(e, p)
    PROVE  /\ Keeps /\ session'.at = p /\ session'.raised = e
  BY DEF Sessions, V!Raise, Keeps, Places

\* A step that does not begin a test keeps the invariant if what it leads to is founded.
LEMMA Moves ==
    ASSUME ViaviInv, session' \in Sessions, emulator' \in Emulators,
           session'.nth = session.nth, session'.verdict = session.verdict, session'.kpis = session.kpis,
           session.at \in Leaving => /\ session'.at \in Leaving /\ session'.info = session.info
                                     /\ session'.clean = session.clean /\ session'.aborted = session.aborted,
           session'.at \in Running => emulator'.of = session.nth,
           session'.at = "finish" /\ session'.raised = "none" => session'.clean,
           session'.at \in Reporting /\ session'.raised = "none" => Earned'
    PROVE  ViaviInv'
  BY DEF ViaviInv, OwnCampaign, VerdictInv, V!At, Earned

\* A call of the REST API fails with one of three exceptions.
LEMMA FailuresAre ==
    \A e : V!CallFails(e) => e \in {"http", "timeout", "other"} /\ V!PostError(e) \in Raised \ {"none"}
  BY DEF V!CallFails, V!PostError, Raised

\* The emulator goes on with the campaign that it was given.
LEMMA EmulatorMoves ==
    ASSUME emulator \in Emulators, V!CampaignMoves
    PROVE  /\ emulator' \in Emulators /\ emulator'.of = emulator.of /\ emulator'.up /\ emulator.up
           /\ session' = session
<1>1. PICK f \in V!Follows(emulator) : emulator' = [emulator EXCEPT !.status = f[1], !.progress = f[2]]
  BY DEF V!CampaignMoves
<1>2. f[1] \in Statuses /\ f[2] \in Progresses
  BY <1>1 DEF V!Follows, Statuses, Progresses, Emulators
<1>3. emulator.up /\ session' = session
  BY DEF V!CampaignMoves
<1> QED
  BY <1>1, <1>2, <1>3 DEF Emulators

\* What get_running_campaign_info returns is of the campaign that the emulator runs.
LEMMA InfoIs ==
    ASSUME emulator \in Emulators
    PROVE  /\ V!InfoOf(emulator) \in [status : Statuses, progress : Progresses, of : Nat]
           /\ V!InfoOf(emulator).of = emulator.of
  BY DEF V!InfoOf, Emulators, Statuses, Progresses

\* Before the campaign runs.
LEMMA ViaviSetup ==
    ASSUME ViaviInv,
           \/ V!BeginFixture \/ V!CreateTma \/ V!GetTma \/ V!StartGnb
           \/ V!ScheduleCampaign \/ V!RunCampaign \/ V!ConfirmCampaign
    PROVE  ViaviInv'
<1>0. session \in Sessions /\ emulator \in Emulators /\ V!NoTma \in Emulators /\ ~V!NoTma.up
  BY DEF ViaviInv, V!NoTma, Emulators, Statuses, Progresses
<1>1. CASE V!BeginFixture
  <2>1. session' = [session EXCEPT !.at = "create", !.nth = @ + 1, !.raised = "none", !.gnb = "off",
                                  !.clean = FALSE, !.aborted = FALSE, !.verdict = "none", !.kpis = 0,
                                  !.held = 0, !.last = 0]
    BY <1>1 DEF V!BeginFixture
  <2>2. session.nth + 1 \in Nat /\ 0 \in Progresses /\ "create" \in Places /\ "none" \in Raised
    BY <1>0 DEF Sessions, Setup, Raised, Progresses, Places
  <2>4. session' \in Sessions
    BY <1>0, <2>1, <2>2 DEF Sessions, Places
  <2>5. session'.at = "create" /\ session'.verdict = "none" /\ session'.kpis = 0
    BY <1>0, <2>1 DEF Sessions
  <2>3. emulator' \in Emulators
    BY <1>0, <1>1 DEF V!BeginFixture, V!DeleteTma
  <2> QED
    BY <2>3, <2>4, <2>5 DEF ViaviInv, OwnCampaign, VerdictInv, V!At, Running, Reporting, Leaving
<1>2. CASE V!CreateTma
  <2>0. session.at = "create"
    BY <1>2 DEF V!CreateTma, V!At
  <2>1. emulator' \in Emulators
    BY <1>0, <1>2 DEF V!CreateTma, Emulators
  <2>2. PICK c \in {"up", "down"} :
           \/ session' = [session EXCEPT !.at = "get", !.core = c]
           \/ \E e \in {"http", "timeout", "other"} :
                 session' = [session EXCEPT !.at = "exit", !.core = c, !.raised = e]
    <3>1. V!CoreAfterRestart \subseteq {"up", "down"}
      BY <1>0 DEF V!CoreAfterRestart, Sessions
    <3> QED
      BY <1>2, <3>1 DEF V!CreateTma
  <2>3. Keeps /\ session'.at \in {"get", "exit"}
    <3>1. CASE session' = [session EXCEPT !.at = "get", !.core = c]
      BY <1>0, <3>1 DEF Keeps, Sessions, Setup
    <3>2. ASSUME NEW e \in {"http", "timeout", "other"},
                 session' = [session EXCEPT !.at = "exit", !.core = c, !.raised = e]
          PROVE  Keeps /\ session'.at = "exit"
      BY <1>0, <3>2 DEF Keeps, Sessions, Leaving, Raised
    <3> QED
      BY <2>2, <3>1, <3>2
  <2> QED
    BY <2>0, <2>1, <2>3, Moves DEF Keeps, Running, Reporting, Leaving
<1>3. CASE V!GetTma
  <2>0. session.at = "get" /\ emulator' = emulator
    BY <1>3 DEF V!GetTma, V!At
  <2>1. V!Goto("gnb") \/ \E e \in {"http", "timeout", "other"} : V!Raise(e, "exit")
    BY <1>3 DEF V!GetTma
  <2>2. Keeps /\ session'.at \in {"gnb", "exit"}
    BY <1>0, <2>1, GotoKeeps, RaiseKeeps DEF Places, Setup, Leaving, Raised
  <2> QED
    BY <1>0, <2>0, <2>2, Moves DEF Keeps, Running, Reporting, Leaving
<1>4. CASE V!StartGnb
  <2>0. session.at = "gnb" /\ emulator' = emulator
    BY <1>4 DEF V!StartGnb, V!At
  <2>1. session' = [session EXCEPT !.at = "schedule", !.gnb = "on"] \/ V!Raise("fail", "exit")
    BY <1>4 DEF V!StartGnb
  <2>2. Keeps /\ session'.at \in {"schedule", "exit"}
    <3>1. CASE session' = [session EXCEPT !.at = "schedule", !.gnb = "on"]
      BY <1>0, <3>1 DEF Keeps, Sessions, Setup
    <3>2. CASE V!Raise("fail", "exit")
      BY <1>0, <3>2, RaiseKeeps DEF Places, Leaving, Raised
    <3> QED
      BY <2>1, <3>1, <3>2
  <2> QED
    BY <1>0, <2>0, <2>2, Moves DEF Keeps, Running, Reporting, Leaving
<1>5. CASE V!ScheduleCampaign
  <2>0. session.at = "schedule" /\ emulator' = emulator
    BY <1>5 DEF V!ScheduleCampaign, V!At
  <2>1. V!Goto("run") \/ \E e \in Raised : V!Raise(e, "exit")
    BY <1>5, FailuresAre DEF V!ScheduleCampaign
  <2>2. Keeps /\ session'.at \in {"run", "exit"}
    BY <1>0, <2>1, GotoKeeps, RaiseKeeps DEF Places, Setup, Leaving
  <2> QED
    BY <1>0, <2>0, <2>2, Moves DEF Keeps, Running, Reporting, Leaving
<1>6. CASE V!RunCampaign
  <2>0. session.at = "run"
    BY <1>6 DEF V!RunCampaign, V!At
  <2>1. V!Launched \in Emulators /\ V!Launched.of = session.nth
    BY <1>0 DEF V!Launched, Emulators, Sessions, Statuses, Progresses
  <2>2. \/ emulator' = V!Launched /\ V!Goto("confirm")
        \/ emulator' \in {emulator, V!Launched} /\ \E e \in Raised : V!Raise(e, "exit")
    BY <1>6, FailuresAre DEF V!RunCampaign
  <2>3. CASE emulator' = V!Launched /\ V!Goto("confirm")
    <3>1. Keeps /\ session'.at = "confirm"
      BY <1>0, <2>3, GotoKeeps DEF Places, Running
    <3> QED
      BY <1>0, <2>0, <2>1, <2>3, <3>1, Moves DEF Keeps, Setup, Reporting, Leaving
  <2>4. CASE emulator' \in {emulator, V!Launched} /\ \E e \in Raised : V!Raise(e, "exit")
    <3>1. Keeps /\ session'.at = "exit"
      BY <1>0, <2>4, RaiseKeeps DEF Places, Leaving
    <3> QED
      BY <1>0, <2>0, <2>1, <2>4, <3>1, Moves DEF Keeps, Running, Reporting, Leaving
  <2> QED
    BY <2>2, <2>3, <2>4
<1>7. CASE V!ConfirmCampaign
  <2>0. session.at = "confirm" /\ emulator' = emulator /\ emulator.of = session.nth
    BY <1>7 DEF V!ConfirmCampaign, V!At, ViaviInv, OwnCampaign, Running
  <2>1. V!Goto("teardown") \/ session' = session \/ \E e \in Raised : V!Raise(e, "exit")
    BY <1>7, FailuresAre DEF V!ConfirmCampaign, Raised
  <2>2. Keeps /\ session'.at \in {"confirm", "teardown", "exit"}
    <3>1. CASE V!Goto("teardown")
      BY <1>0, <3>1, GotoKeeps DEF Places, Running
    <3>2. CASE session' = session
      BY <1>0, <2>0, <3>2 DEF Keeps
    <3>3. CASE \E e \in Raised : V!Raise(e, "exit")
      BY <1>0, <3>3, RaiseKeeps DEF Places, Leaving
    <3> QED
      BY <2>1, <3>1, <3>2, <3>3
  <2> QED
    BY <1>0, <2>0, <2>2, Moves DEF Keeps, Reporting, Leaving
<1> QED
  BY <1>1, <1>2, <1>3, <1>4, <1>5, <1>6, <1>7

\* The except clause of the test: what it leads to is not over, or not without an exception.
LEMMA CaughtKeeps ==
    ASSUME session \in Sessions, NEW e \in Raised \ {"none"}, V!Caught(e)
    PROVE  Keeps /\ (session'.at = "abort" \/ (session'.at = "report" /\ session'.raised # "none"))
<1>1. CASE e = "timeout"
  <2>1. session' = [session EXCEPT !.at = "abort", !.raised = "none"]
    BY <1>1 DEF V!Caught
  <2> QED
    BY <2>1 DEF Keeps, Sessions, Stopping, Raised
<1>2. CASE e # "timeout"
  BY <1>2, RaiseKeeps DEF V!Caught, Places, Reporting
<1> QED
  BY <1>1, <1>2

\* While it runs, is stopped and is judged.
LEMMA ViaviRunning ==
    ASSUME ViaviInv, V!AwaitTeardown \/ V!StopGnb \/ V!AwaitFinish \/ V!AbortCampaign \/ V!AwaitAbort
                     \/ V!GenerateReport \/ V!StopAgainAndJudge
    PROVE  ViaviInv'
<1>0. /\ session \in Sessions /\ emulator \in Emulators /\ V!InfoOf(emulator).of = emulator.of
      /\ V!InfoOf(emulator) \in [status : Statuses, progress : Progresses, of : Nat]
  BY InfoIs DEF ViaviInv
<1> DEFINE info == V!InfoOf(emulator)
<1> HIDE DEF info
<1>1. CASE V!AwaitTeardown
  <2>0. session.at = "teardown" /\ emulator' = emulator /\ emulator.of = session.nth
    BY <1>1 DEF V!AwaitTeardown, V!Poll, V!At, ViaviInv, OwnCampaign, Running
  <2>1. V!TeardownRead(info) \/ \E e \in Raised \ {"none"} : V!Caught(e)
    BY <1>1, FailuresAre DEF V!AwaitTeardown, V!Poll, Raised, info
  <2>2. CASE V!TeardownRead(info)
    <3>1. PICK held \in Nat, p \in {"stop", "teardown"} :
             session' = [session EXCEPT !.info = info, !.last = info.progress, !.held = held, !.at = p]
      <4> DEFINE late == info.status = "running" /\ info.progress >= Threshold
                 h == CASE late /\ info.progress = session.last ->
                              IF session.held > Patience THEN session.held ELSE session.held + 1
                        [] late /\ info.progress > session.last -> 0
                        [] OTHER -> session.held
                 near == late /\ info.progress > session.last /\ session.held > Patience
                 q == IF near \/ V!Over(info) THEN "stop" ELSE "teardown"
      <4>1. session' = [session EXCEPT !.info = info, !.last = info.progress, !.held = h, !.at = q]
        BY <2>2 DEF V!TeardownRead
      <4>2. session.held \in Nat /\ session.held + 1 \in Nat
        BY <1>0 DEF Sessions
      <4>3. h \in Nat /\ q \in {"stop", "teardown"}
        BY <4>2
      <4> QED
        BY <4>1, <4>3
    <3>2. /\ session' \in Sessions /\ session'.at \in {"stop", "teardown"}
          /\ session'.nth = session.nth /\ session'.verdict = session.verdict /\ session'.kpis = session.kpis
      BY <1>0, <3>1 DEF Sessions, Running, info
    <3> QED
      BY <1>0, <2>0, <3>2, Moves DEF Reporting, Leaving
  <2>3. ASSUME NEW e \in Raised \ {"none"}, V!Caught(e) PROVE ViaviInv'
    <3>1. Keeps /\ (session'.at = "abort" \/ (session'.at = "report" /\ session'.raised # "none"))
      BY <1>0, <2>3, CaughtKeeps
    <3> QED
      BY <1>0, <2>0, <3>1, Moves DEF Keeps, Running, Reporting, Leaving
  <2> QED
    BY <2>1, <2>2, <2>3
<1>2. CASE V!StopGnb
  <2>0. session.at = "stop" /\ emulator' = emulator /\ emulator.of = session.nth
    BY <1>2 DEF V!StopGnb, V!At, ViaviInv, OwnCampaign, Running
  <2>1. PICK clear \in BOOLEAN : session' = [session EXCEPT !.at = "finish", !.gnb = "off", !.clean = clear,
                                                            !.raised = IF clear THEN "none" ELSE "fail"]
    BY <1>2 DEF V!StopGnb
  <2>2. /\ session' \in Sessions /\ session'.at = "finish" /\ (session'.raised = "none" => session'.clean)
        /\ session'.nth = session.nth /\ session'.verdict = session.verdict /\ session'.kpis = session.kpis
    BY <1>0, <2>1 DEF Sessions, Running, Raised
  <2> QED
    BY <1>0, <2>0, <2>2, Moves DEF Reporting, Leaving
<1>3. CASE V!AwaitFinish
  <2>0. /\ session.at = "finish" /\ emulator' = emulator /\ emulator.of = session.nth
        /\ session.raised = "none" => session.clean
    BY <1>3 DEF V!AwaitFinish, V!Poll, V!At, ViaviInv, OwnCampaign, VerdictInv, Running
  <2>1. V!FinishRead(info) \/ \E e \in Raised \ {"none"} : V!Caught(e)
    BY <1>3, FailuresAre DEF V!AwaitFinish, V!Poll, Raised, info
  <2>2. CASE V!FinishRead(info) /\ V!Over(info)
    <3>1. session' = [session EXCEPT !.at = "report", !.info = info, !.raised = V!Judged(info)]
      BY <2>2 DEF V!FinishRead
    <3>2. /\ V!Judged(info) \in Raised
          /\ V!Judged(info) = "none" => session.raised = "none" /\ info.status = "pass"
      BY <1>0 DEF V!Judged, Raised, Sessions
    <3>3. /\ session' \in Sessions /\ session'.at = "report" /\ session'.raised = V!Judged(info)
          /\ session'.info = info /\ session'.clean = session.clean
          /\ session'.nth = session.nth /\ session'.verdict = session.verdict /\ session'.kpis = session.kpis
      BY <1>0, <3>1, <3>2 DEF Sessions, Reporting, info
    <3>4. session'.raised = "none" => Earned'
      BY <1>0, <2>0, <3>2, <3>3 DEF Earned, info
    <3> QED
      BY <1>0, <2>0, <3>3, <3>4, Moves DEF Running, Leaving
  <2>3. CASE V!FinishRead(info) /\ ~V!Over(info)
    <3>1. session' = [session EXCEPT !.info = info]
      BY <2>3 DEF V!FinishRead
    <3>2. /\ session' \in Sessions /\ session'.at = "finish" /\ session'.raised = session.raised
          /\ session'.clean = session.clean
          /\ session'.nth = session.nth /\ session'.verdict = session.verdict /\ session'.kpis = session.kpis
      BY <1>0, <2>0, <3>1 DEF Sessions, info
    <3> QED
      BY <1>0, <2>0, <3>2, Moves DEF Reporting, Leaving
  <2>4. ASSUME NEW e \in Raised \ {"none"}, V!Caught(e) PROVE ViaviInv'
    <3>1. Keeps /\ (session'.at = "abort" \/ (session'.at = "report" /\ session'.raised # "none"))
      BY <1>0, <2>4, CaughtKeeps
    <3> QED
      BY <1>0, <2>0, <3>1, Moves DEF Keeps, Running, Reporting, Leaving
  <2> QED
    BY <2>1, <2>2, <2>3, <2>4
<1>4. CASE V!AbortCampaign
  <2>0. session.at = "abort"
    BY <1>4 DEF V!AbortCampaign, V!At
  <2>1. /\ emulator' \in Emulators
        /\ V!Goto("abortwait") \/ \E e \in Raised \ {"none"} : V!Raise(e, "report")
    <3>1. \/ V!Goto("abortwait") /\ emulator' \in {emulator, [emulator EXCEPT !.status = "stopping"]}
          \/ emulator' = emulator /\ \E e \in Raised \ {"none"} : V!Raise(e, "report")
      BY <1>4, FailuresAre DEF V!AbortCampaign, V!PostStop, V!Escapes
    <3>2. [emulator EXCEPT !.status = "stopping"] \in Emulators
      BY <1>0 DEF Emulators, Statuses
    <3> QED
      BY <1>0, <3>1, <3>2
  <2>2. Keeps /\ (session'.at = "abortwait" \/ (session'.at = "report" /\ session'.raised # "none"))
    BY <1>0, <2>1, GotoKeeps, RaiseKeeps DEF Places, Stopping, Reporting
  <2> QED
    BY <2>0, <2>1, <2>2, Moves DEF Keeps, Running, Reporting, Leaving
<1>5. CASE V!AwaitAbort
  <2>0. session.at = "abortwait" /\ emulator' = emulator
    BY <1>5 DEF V!AwaitAbort, V!Poll, V!At
  <2>1. \/ session' = [session EXCEPT !.at = "report", !.aborted = TRUE]
        \/ session' = session
        \/ \E e \in Raised \ {"none"} : V!Raise(e, "report")
    BY <1>5, FailuresAre DEF V!AwaitAbort, V!Poll, V!AbortRead, V!Escapes, Raised
  <2>2. CASE session' = [session EXCEPT !.at = "report", !.aborted = TRUE]
    <3>1. /\ session' \in Sessions /\ session'.at = "report" /\ session'.aborted
          /\ session'.nth = session.nth /\ session'.verdict = session.verdict /\ session'.kpis = session.kpis
      BY <1>0, <2>2 DEF Sessions, Reporting
    <3>2. Earned'
      BY <3>1 DEF Earned
    <3> QED
      BY <1>0, <2>0, <3>1, <3>2, Moves DEF Running, Leaving
  <2>3. CASE session' = session
    BY <1>0, <2>0, <2>3, Moves DEF Running, Reporting, Leaving
  <2>4. ASSUME NEW e \in Raised \ {"none"}, V!Raise(e, "report") PROVE ViaviInv'
    <3>1. Keeps /\ session'.at = "report" /\ session'.raised # "none"
      BY <1>0, <2>4, RaiseKeeps DEF Places, Reporting
    <3> QED
      BY <1>0, <2>0, <3>1, Moves DEF Keeps, Running, Reporting, Leaving
  <2> QED
    BY <2>1, <2>2, <2>3, <2>4
<1>6. CASE V!GenerateReport
  <2>0. /\ session.at = "report" /\ emulator' = emulator /\ session.nth \in Nat
        /\ session.raised = "none" => Earned
        /\ session.verdict = "none" /\ session.kpis \in {0, session.nth}
    BY <1>6 DEF V!GenerateReport, V!At, ViaviInv, VerdictInv, Reporting, Leaving, Sessions
  <2>1. \/ \E k \in {0, session.nth} : session' = [session EXCEPT !.at = "again", !.kpis = k]
        \/ \E e \in Raised \ {"none"} : V!Raise(e, "again")
    BY <1>6, FailuresAre DEF V!GenerateReport, Raised
  <2>2. ASSUME NEW k \in {0, session.nth}, session' = [session EXCEPT !.at = "again", !.kpis = k] PROVE ViaviInv'
    <3>1. k \in Nat /\ "again" \in Places
      BY <2>0, <2>2 DEF Places, Reporting
    <3>2. session' \in Sessions
      BY <1>0, <2>2, <3>1 DEF Sessions, Places
    <3>3. /\ session'.at = "again" /\ session'.kpis = k /\ session'.raised = session.raised
          /\ session'.nth = session.nth /\ session'.verdict = session.verdict
      BY <1>0, <2>2 DEF Sessions
    <3>4. /\ session'.info = session.info /\ session'.clean = session.clean
          /\ session'.aborted = session.aborted
      BY <1>0, <2>2 DEF Sessions
    <3>5. Earned' <=> Earned
      BY <3>3, <3>4 DEF Earned
    <3> QED
      BY <1>0, <2>0, <2>2, <3>2, <3>3, <3>5
         DEF ViaviInv, OwnCampaign, VerdictInv, V!At, Running, Reporting, Leaving
  <2>3. ASSUME NEW e \in Raised \ {"none"}, V!Raise(e, "again") PROVE ViaviInv'
    <3>1. Keeps /\ session'.at = "again" /\ session'.raised # "none"
      BY <1>0, <2>3, RaiseKeeps DEF Places, Reporting
    <3> QED
      BY <1>0, <2>0, <3>1, Moves DEF Keeps, Running, Reporting, Leaving
  <2> QED
    BY <2>1, <2>2, <2>3
<1>7. CASE V!StopAgainAndJudge
  <2>0. /\ session.at = "again" /\ emulator' = emulator
        /\ session.raised = "none" => Earned
        /\ session.kpis \in {0, session.nth}
    BY <1>7 DEF V!StopAgainAndJudge, V!At, ViaviInv, VerdictInv, Reporting
  <2>1. PICK r \in {session.raised, "fail"}, v \in {"passed", "failed"} :
           /\ session' = [session EXCEPT !.at = "exit", !.gnb = "off", !.raised = r, !.verdict = v]
           /\ v = "passed" => r = "none"
    <3>1. PICK r \in {session.raised, "fail"} :
             session' = [session EXCEPT !.at = "exit", !.gnb = "off", !.raised = r,
                                        !.verdict = IF r = "none" THEN "passed" ELSE "failed"]
      BY <1>7 DEF V!StopAgainAndJudge
    <3>2. CASE r = "none"
      BY <3>1, <3>2
    <3>3. CASE r # "none"
      BY <3>1, <3>3
    <3> QED
      BY <3>2, <3>3
  <2>2. r \in Raised /\ "exit" \in Places
    BY <1>0, <2>1 DEF Sessions, Raised, Places, Leaving
  <2>3. session' \in Sessions
    BY <1>0, <2>1, <2>2 DEF Sessions, Places
  <2>4. session'.at = "exit" /\ session'.verdict = v
    BY <1>0, <2>1 DEF Sessions
  <2>5. /\ session'.nth = session.nth /\ session'.kpis = session.kpis /\ session'.info = session.info
        /\ session'.clean = session.clean /\ session'.aborted = session.aborted
    BY <1>0, <2>1 DEF Sessions
  <2>6. session'.verdict = "passed" => session.raised = "none"
    BY <2>1, <2>4
  <2>7. Earned' <=> Earned
    BY <2>5 DEF Earned
  <2> QED
    BY <1>0, <2>0, <2>3, <2>4, <2>5, <2>6, <2>7
       DEF ViaviInv, OwnCampaign, VerdictInv, V!At, Running, Reporting, Leaving
<1> QED
  BY <1>1, <1>2, <1>3, <1>4, <1>5, <1>6, <1>7

\* What the finally of the fixture does with an exception.
LEMMA SuppressedKeeps ==
    ASSUME session \in Sessions, NEW e, V!Suppressed(e)
    PROVE  Keeps /\ session'.at \in {"delete", "idle"}
<1>1. CASE e = "http"
  BY <1>1, GotoKeeps DEF V!Suppressed, Places, Leaving
<1>2. CASE e # "http"
  BY <1>2, GotoKeeps DEF V!Suppressed, Places, Leaving
<1> QED
  BY <1>1, <1>2

\* The end of the fixture.
LEMMA ViaviLeaving ==
    ASSUME ViaviInv, V!StopRunning \/ V!AwaitStopped \/ V!ReadStatus \/ V!EndFixture
    PROVE  ViaviInv'
<1>0. /\ session \in Sessions /\ emulator \in Emulators
      /\ V!NoTma \in Emulators /\ ~V!NoTma.up /\ [emulator EXCEPT !.status = "stopping"] \in Emulators
  BY DEF ViaviInv, V!NoTma, Emulators, Statuses, Progresses
\* What keeps the verdict.
<1>1. ASSUME Keeps, emulator' \in Emulators, session.at \in Leaving, session'.at \in Leaving
      PROVE  ViaviInv'
  <2>1. /\ session'.at \in Leaving /\ session'.at \notin Running
        /\ session'.at \notin Reporting /\ session'.at # "finish"
    BY <1>1 DEF Leaving, Running, Reporting
  <2> QED
    BY <1>1, <2>1, Moves DEF Keeps
<1>2. CASE V!StopRunning
  <2>1. session.at = "exit"
    BY <1>2 DEF V!StopRunning, V!At
  <2>2. /\ V!Goto("exitwait") \/ \E e \in Raised : V!Suppressed(e)
        /\ emulator' \in {emulator, [emulator EXCEPT !.status = "stopping"]}
    BY <1>2, FailuresAre DEF V!StopRunning, V!PostStop
  <2>3. Keeps /\ session'.at \in {"exitwait", "delete", "idle"}
    BY <1>0, <2>2, GotoKeeps, SuppressedKeeps DEF Places, Leaving
  <2> QED
    BY <1>0, <1>1, <2>1, <2>2, <2>3 DEF Leaving
<1>3. CASE V!AwaitStopped
  <2>1. session.at = "exitwait" /\ emulator' = emulator
    BY <1>3 DEF V!AwaitStopped, V!Poll, V!At
  <2>2. V!Goto("status") \/ session' = session \/ \E e \in Raised : V!Suppressed(e)
    BY <1>3, FailuresAre DEF V!AwaitStopped, V!Poll, V!StopRead, Raised
  <2>3. Keeps /\ session'.at \in {"status", "exitwait", "delete", "idle"}
    <3>1. CASE V!Goto("status")
      BY <1>0, <3>1, GotoKeeps DEF Places, Leaving
    <3>2. CASE session' = session
      BY <1>0, <2>1, <3>2 DEF Keeps
    <3>3. CASE \E e \in Raised : V!Suppressed(e)
      BY <1>0, <3>3, SuppressedKeeps
    <3> QED
      BY <2>2, <3>1, <3>2, <3>3
  <2> QED
    BY <1>0, <1>1, <2>1, <2>3 DEF Leaving
<1>4. CASE V!ReadStatus
  <2>1. session.at = "status" /\ emulator' = emulator
    BY <1>4 DEF V!ReadStatus, V!At
  <2>2. V!Goto("delete") \/ \E e \in Raised : V!Suppressed(e)
    BY <1>4 DEF V!ReadStatus, Raised
  <2>3. Keeps /\ session'.at \in {"delete", "idle"}
    BY <1>0, <2>2, GotoKeeps, SuppressedKeeps DEF Places, Leaving
  <2> QED
    BY <1>0, <1>1, <2>1, <2>3 DEF Leaving
<1>5. CASE V!EndFixture
  <2>1. session.at = "delete" /\ emulator' \in {emulator, V!NoTma}
    BY <1>5 DEF V!EndFixture, V!DeleteTma, V!At
  <2>2. Keeps /\ session'.at = "idle"
    BY <1>0, <1>5, GotoKeeps DEF V!EndFixture, Places, Leaving
  <2> QED
    BY <1>0, <1>1, <2>1, <2>2 DEF Leaving
<1> QED
  BY <1>2, <1>3, <1>4, <1>5

\* Every step of a session keeps the invariant.
LEMMA ViaviNext == ASSUME ViaviInv, [V!Next]_viaviVars PROVE ViaviInv'
<1>1. CASE V!CampaignMoves
  <2>1. session \in Sessions /\ emulator \in Emulators
    BY DEF ViaviInv
  <2>2. emulator' \in Emulators /\ emulator'.of = emulator.of /\ emulator'.up /\ emulator.up /\ session' = session
    BY <1>1, <2>1, EmulatorMoves
  <2> QED
    BY <2>2 DEF ViaviInv, OwnCampaign, VerdictInv, Earned, V!At
<1>2. CASE UNCHANGED viaviVars
  BY <1>2 DEF viaviVars, ViaviInv, OwnCampaign, VerdictInv, Earned, V!At
<1> QED
  BY <1>1, <1>2, ViaviSetup, ViaviRunning, ViaviLeaving, Zenon DEF V!Next

\* It is what a session promises.
LEMMA ViaviEnds == ViaviInv => V!VerdictIsEarned
  BY DEF ViaviInv, VerdictInv, V!VerdictIsEarned, Earned
-----------------------------------------------------------------------------
(* The log of a campaign.                                                  *)

\* The first number of a set up to n, past n if it is empty, and the last.
Lowest(S, n) == IF S = {} THEN n + 1 ELSE CHOOSE i \in S : \A j \in S : i <= j
Highest(S) == IF S = {} THEN 0 ELSE CHOOSE i \in S : \A j \in S : j <= i

Below == {ss \in Nat \X Nat : ss[1] < ss[2]}

\* A set of numbers has a least one.
LEMMA HasLeast == ASSUME NEW S, S \subseteq Nat, S # {} PROVE \E i \in S : \A j \in S : i <= j
<1>1. IsWellFoundedOn(Below, Nat)
  BY NatLessThanWellFounded DEF OpToRel, Below
<1>2. PICK i \in S : \A j \in S : ~(<<j, i>> \in Below)
  BY <1>1, WFMin
<1>3. i \in Nat /\ \A j \in S : j \in Nat /\ ~(j < i)
  BY <1>2 DEF Below
<1>4. \A j \in S : i <= j
  BY <1>3
<1> QED
  BY <1>2, <1>4

\* What the first number of a set is, and the last.
LEMMA LowestIs ==
    ASSUME NEW n \in Nat, NEW S, S \subseteq 1 .. n
    PROVE  /\ Lowest(S, n) \in 1 .. n + 1
           /\ Lowest(S, n) = n + 1 <=> S = {}
           /\ S # {} => Lowest(S, n) \in S /\ \A j \in S : Lowest(S, n) <= j
<1>1. CASE S = {}
  BY <1>1 DEF Lowest
<1>2. CASE S # {}
  <2>1. \E i \in S : \A j \in S : i <= j
    <3>1. S \subseteq Nat
      OBVIOUS
    <3> QED
      BY <1>2, <3>1, HasLeast
  <2>2. Lowest(S, n) \in S /\ \A j \in S : Lowest(S, n) <= j
    BY <1>2, <2>1, Zenon DEF Lowest
  <2>3. Lowest(S, n) \in 1 .. n
    BY <2>2
  <2> QED
    BY <1>2, <2>2, <2>3
<1> QED
  BY <1>1, <1>2

LEMMA HighestIs ==
    ASSUME NEW n \in Nat, NEW S, S \subseteq 1 .. n
    PROVE  /\ Highest(S) \in 0 .. n
           /\ Highest(S) = 0 <=> S = {}
           /\ S # {} => Highest(S) \in S /\ \A j \in S : j <= Highest(S)
<1>1. CASE S = {}
  BY <1>1 DEF Highest
<1>2. CASE S # {}
  <2>1. \E i \in S : \A j \in S : j <= i
    <3> DEFINE T == {n - i : i \in S}
    <3>0. \A i \in S : i \in 1 .. n /\ n - i \in Nat
      OBVIOUS
    <3>1. T \subseteq Nat /\ T # {} /\ \A i \in S : n - i \in T
      BY <1>2, <3>0
    <3> HIDE DEF T
    <3>2. PICK t \in T : \A u \in T : t <= u
      BY <3>1, HasLeast
    <3>3. PICK i \in S : t = n - i
      BY <3>2 DEF T
    <3>4. \A j \in S : i \in Nat /\ j \in Nat /\ n - i <= n - j
      BY <3>0, <3>1, <3>2, <3>3
    <3>5. \A j \in S : j <= i
      BY <3>4
    <3> QED
      BY <3>3, <3>5
  <2>2. Highest(S) \in S /\ \A j \in S : j <= Highest(S)
    BY <1>2, <2>1, Zenon DEF Highest
  <2>3. Highest(S) \in 1 .. n
    BY <2>2
  <2> QED
    BY <1>2, <2>2, <2>3
<1> QED
  BY <1>1, <1>2

\* A set that grows by the next number keeps its first one, if it has one.
LEMMA LowestGrows ==
    ASSUME NEW n \in Nat, NEW S, S \subseteq 1 .. n, NEW T, T = S \/ T = S \cup {n + 1}
    PROVE  /\ Lowest(S, n) <= n => Lowest(T, n + 1) = Lowest(S, n)
           /\ Lowest(S, n) > n => Lowest(T, n + 1) = IF T = S THEN n + 2 ELSE n + 1
<1>0. n + 1 \in Nat /\ n + 1 \notin S /\ \A i \in S : i \in 1 .. n + 1
  OBVIOUS
<1>1. T \subseteq 1 .. n + 1 /\ n + 1 \in Nat /\ n + 1 \notin S /\ \A i \in T : i \in S \/ i = n + 1
  <2>1. n + 1 \in 1 .. n + 1
    OBVIOUS
  <2>2. \A i \in T : i \in S \/ i = n + 1
    OBVIOUS
  <2>3. T \subseteq 1 .. n + 1
    BY <1>0, <2>1, <2>2
  <2> QED
    BY <1>0, <2>2, <2>3
<1>2. /\ Lowest(T, n + 1) \in 1 .. n + 2
      /\ Lowest(T, n + 1) = n + 2 <=> T = {}
      /\ T # {} => Lowest(T, n + 1) \in T /\ \A j \in T : Lowest(T, n + 1) <= j
  <2> DEFINE m == n + 1
  <2>1. m \in Nat /\ T \subseteq 1 .. m /\ m + 1 = n + 2
    BY <1>1
  <2> HIDE DEF m
  <2>2. /\ Lowest(T, m) \in 1 .. m + 1
        /\ Lowest(T, m) = m + 1 <=> T = {}
        /\ T # {} => Lowest(T, m) \in T /\ \A j \in T : Lowest(T, m) <= j
    BY <2>1, LowestIs
  <2> QED
    BY <2>1, <2>2 DEF m
<1>3. /\ Lowest(S, n) \in 1 .. n + 1
      /\ Lowest(S, n) = n + 1 <=> S = {}
      /\ S # {} => Lowest(S, n) \in S /\ \A j \in S : Lowest(S, n) <= j
  BY LowestIs
<1>4. CASE S = {}
  BY <1>1, <1>2, <1>3, <1>4
<1>5. CASE S # {}
  <2>1. Lowest(S, n) \in T /\ Lowest(T, n + 1) \in T /\ Lowest(S, n) <= n /\ T # {}
    BY <1>1, <1>2, <1>3, <1>5
  <2>2. Lowest(T, n + 1) <= Lowest(S, n)
    BY <1>2, <2>1
  <2>3. Lowest(T, n + 1) \in S
    BY <1>1, <1>3, <2>1, <2>2
  <2>4. Lowest(S, n) <= Lowest(T, n + 1)
    BY <1>3, <2>3
  <2> QED
    BY <1>2, <1>3, <2>1, <2>2, <2>4
<1> QED
  BY <1>4, <1>5

Heads(k, from) == {i \in DOMAIN seen : i > from /\ seen[i].header = R!Tables[k].header}
Lasts(k, from) == {i \in DOMAIN seen : i > from /\ seen[i].name = R!Tables[k].last}

\* A table opens with the first header of its kind after the end of the one before.
LEMMA OpensIs == \A k \in 1 .. 3 : R!Opens(k) = Lowest(Heads(k, R!Ends[k - 1]), Len(seen))
  BY DEF R!Opens, R!FirstAfter, Lowest, Heads

Milestones ==
    /\ R!Ends[0] = 0
    /\ \A k \in 1 .. 3 : /\ R!Opens(k) = Lowest(Heads(k, R!Ends[k - 1]), Len(seen))
                         /\ R!Ends[k] = Lowest(Lasts(k, R!Opens(k)), Len(seen))

\* The recursive function of the ends, table by table.
LEMMA MilestonesAre == Milestones
<1> DEFINE O(k, from) == Lowest(Heads(k, from), Len(seen))
           Cl(k, from) == Lowest(Lasts(k, O(k, from)), Len(seen))
           one == Cl(1, 0)
           two == Cl(2, one)
           f == [k \in 0 .. 3 |-> IF k = 0 THEN 0 ELSE IF k = 1 THEN one ELSE IF k = 2 THEN two ELSE Cl(3, two)]
           Is(g) == g = [k \in 0 .. 3 |-> IF k = 0 THEN 0 ELSE Cl(k, g[k - 1])]
<1>1. R!Ends = CHOOSE g : Is(g)
  BY DEF R!Ends, R!FirstAfter, R!Tables, Lowest, Heads, Lasts
<1>2. Is(f)
  OBVIOUS
<1>3. Is(R!Ends)
  BY <1>1, <1>2
<1> QED
  BY <1>3, OpensIs DEF Milestones

Names == {"text", "handover", "sms", "transport", "setup"}
TableLine == [header : {"timed", "retried", "no"}, name : Names, value : Int]
Rows == UNION {[names -> Int] : names \in SUBSET Names}
TableState == [table : 1 .. 4, reading : BOOLEAN, rows : Rows, result : Seq(Rows)]

\* The rows are those of the lines after one and up to another, each as it was printed last.
RowsOf(log, rows, from, to) ==
    /\ DOMAIN rows = {log[i].name : i \in from + 1 .. to}
    /\ \A i \in from + 1 .. to :
          (\A j \in from + 1 .. to : log[j].name = log[i].name => j <= i) => rows[log[i].name] = log[i].value

\* The lines of the headers and of the last rows, past the log if there is none.
Opened == [k \in 1 .. 3 |-> R!Opens(k)]
Ended == [k \in 0 .. 3 |-> R!Ends[k]]

\* The tables before the one that is looked for have ended and were read; that one has not.
TablesAre(log, s, o, e) ==
    /\ log \in Seq(TableLine) /\ s \in TableState
    /\ Len(s.result) = s.table - 1
    /\ \A k \in 1 .. s.table - 1 : e[k] <= Len(log) /\ RowsOf(log, s.result[k], o[k], e[k])
    /\ s.table <= 3 =>
          /\ e[s.table] > Len(log)
          /\ s.reading <=> o[s.table] <= Len(log)
          /\ s.reading => RowsOf(log, s.rows, o[s.table], Len(log))

TablesInv == TablesAre(seen, state, Opened, Ended)

\* Each table opens after the end of the one before it and ends after it has opened.
Growing ==
    seen \in Seq(TableLine) => \A k \in 1 .. 3 :
        /\ R!Ends[k - 1] \in 0 .. Len(seen) + 1
        /\ R!Opens(k) \in 1 .. Len(seen) + 1
        /\ R!Ends[k] \in 1 .. Len(seen) + 1
        /\ R!Ends[k - 1] <= R!Opens(k) /\ R!Opens(k) <= R!Ends[k]
        /\ R!Opens(k) <= Len(seen) => R!Ends[k - 1] < R!Opens(k)
        /\ R!Ends[k] <= Len(seen) => R!Opens(k) < R!Ends[k]

\* The lines of the tables are in the order of the tables.
LEMMA EndsGrow == Growing
<1> SUFFICES ASSUME seen \in Seq(TableLine), NEW k \in 1 .. 3
             PROVE  /\ R!Ends[k - 1] \in 0 .. Len(seen) + 1
                    /\ R!Opens(k) \in 1 .. Len(seen) + 1
                    /\ R!Ends[k] \in 1 .. Len(seen) + 1
                    /\ R!Ends[k - 1] <= R!Opens(k) /\ R!Opens(k) <= R!Ends[k]
                    /\ R!Opens(k) <= Len(seen) => R!Ends[k - 1] < R!Opens(k)
                    /\ R!Ends[k] <= Len(seen) => R!Opens(k) < R!Ends[k]
  BY DEF Growing
<1> DEFINE n == Len(seen)
<1>0. n \in Nat /\ DOMAIN seen = 1 .. n
  OBVIOUS
<1> HIDE DEF n
<1>1. ASSUME NEW i, NEW j PROVE Heads(i, j) \subseteq 1 .. n /\ Lasts(i, j) \subseteq 1 .. n
  BY <1>0 DEF Heads, Lasts
<1>2. \A i \in 1 .. 3 : /\ R!Opens(i) = Lowest(Heads(i, R!Ends[i - 1]), n)
                        /\ R!Ends[i] = Lowest(Lasts(i, R!Opens(i)), n)
  BY MilestonesAre DEF Milestones, n
<1>3. \A i \in 1 .. 3 :
         /\ R!Opens(i) \in 1 .. n + 1
         /\ R!Ends[i] \in 1 .. n + 1
         /\ R!Opens(i) = n + 1 <=> Heads(i, R!Ends[i - 1]) = {}
         /\ R!Ends[i] = n + 1 <=> Lasts(i, R!Opens(i)) = {}
         /\ R!Opens(i) # n + 1 => R!Opens(i) \in Heads(i, R!Ends[i - 1])
         /\ R!Ends[i] # n + 1 => R!Ends[i] \in Lasts(i, R!Opens(i))
  <2> SUFFICES ASSUME NEW i \in 1 .. 3
               PROVE  /\ R!Opens(i) \in 1 .. n + 1
                      /\ R!Ends[i] \in 1 .. n + 1
                      /\ R!Opens(i) = n + 1 <=> Heads(i, R!Ends[i - 1]) = {}
                      /\ R!Ends[i] = n + 1 <=> Lasts(i, R!Opens(i)) = {}
                      /\ R!Opens(i) # n + 1 => R!Opens(i) \in Heads(i, R!Ends[i - 1])
                      /\ R!Ends[i] # n + 1 => R!Ends[i] \in Lasts(i, R!Opens(i))
    OBVIOUS
  <2> DEFINE heads == Heads(i, R!Ends[i - 1])
             lasts == Lasts(i, R!Opens(i))
  <2>1. heads \subseteq 1 .. n /\ lasts \subseteq 1 .. n
    BY <1>1
  <2>2. R!Opens(i) = Lowest(heads, n) /\ R!Ends[i] = Lowest(lasts, n)
    BY <1>2
  <2> HIDE DEF heads, lasts
  <2>3. /\ Lowest(heads, n) \in 1 .. n + 1 /\ (Lowest(heads, n) = n + 1 <=> heads = {})
        /\ heads # {} => Lowest(heads, n) \in heads
    BY <1>0, <2>1, LowestIs
  <2>4. /\ Lowest(lasts, n) \in 1 .. n + 1 /\ (Lowest(lasts, n) = n + 1 <=> lasts = {})
        /\ lasts # {} => Lowest(lasts, n) \in lasts
    BY <1>0, <2>1, LowestIs
  <2> QED
    BY <2>2, <2>3, <2>4 DEF heads, lasts
<1>4. R!Ends[k - 1] \in 0 .. n + 1
  <2>1. k = 1 \/ k - 1 \in 1 .. 3
    OBVIOUS
  <2> QED
    BY <1>0, <1>3, <2>1, MilestonesAre DEF Milestones
<1>5. R!Ends[k - 1] <= R!Opens(k) /\ (R!Opens(k) <= n => R!Ends[k - 1] < R!Opens(k))
  BY <1>0, <1>3, <1>4 DEF Heads
<1>6. R!Opens(k) <= R!Ends[k] /\ (R!Ends[k] <= n => R!Opens(k) < R!Ends[k])
  BY <1>0, <1>3 DEF Lasts
<1> QED
  BY <1>0, <1>3, <1>4, <1>5, <1>6 DEF n

\* A line more leaves the tables alone that have ended, and opens or ends the next one if it fits.
LEMMA EndsNext ==
    ASSUME seen \in Seq(TableLine), NEW line \in TableLine, seen' = Append(seen, line), NEW k \in 1 .. 3,
           R!Ends[k - 1]' = R!Ends[k - 1]
    PROVE  /\ R!Opens(k) <= Len(seen) => R!Opens(k)' = R!Opens(k)
           /\ R!Ends[k] <= Len(seen) => R!Ends[k]' = R!Ends[k]
           /\ R!Opens(k) > Len(seen) /\ R!Ends[k - 1] <= Len(seen) =>
                 R!Opens(k)' = Len(seen) + (IF line.header = R!Tables[k].header THEN 1 ELSE 2)
           /\ R!Opens(k) <= Len(seen) /\ R!Ends[k] > Len(seen) =>
                 R!Ends[k]' = Len(seen) + (IF line.name = R!Tables[k].last THEN 1 ELSE 2)
<1> DEFINE n == Len(seen)
           e == R!Ends[k - 1]
           o == R!Opens(k)
<1>0. /\ n \in Nat /\ DOMAIN seen = 1 .. n /\ DOMAIN seen' = 1 .. n + 1 /\ Len(seen') = n + 1
      /\ \A i \in 1 .. n : seen'[i] = seen[i]
      /\ seen'[n + 1] = line /\ seen' \in Seq(TableLine)
  OBVIOUS
<1> HIDE DEF n
<1>1. /\ R!Opens(k) = Lowest(Heads(k, e), n) /\ R!Ends[k] = Lowest(Lasts(k, o), n)
      /\ e \in 0 .. n + 1 /\ o \in 1 .. n + 1 /\ R!Ends[k] \in 1 .. n + 1 /\ o <= R!Ends[k]
  BY MilestonesAre, EndsGrow DEF Milestones, Growing, n
<1>2. /\ R!Opens(k)' = Lowest(Heads(k, R!Ends[k - 1])', n + 1)
      /\ R!Ends[k]' = Lowest(Lasts(k, R!Opens(k))', n + 1)
  <2>1. Milestones'
    BY MilestonesAre, PTL
  <2> QED
    BY <1>0, <2>1 DEF Milestones
<1> DEFINE heads == Heads(k, e)
           heads2 == Heads(k, R!Ends[k - 1])'
           lasts == Lasts(k, o)
           lasts2 == Lasts(k, R!Opens(k))'
<1>3. heads \subseteq 1 .. n /\ lasts \subseteq 1 .. n
  BY <1>0 DEF Heads, Lasts
<1>4. /\ e < n + 1 => heads2 = heads \cup (IF line.header = R!Tables[k].header THEN {n + 1} ELSE {})
      /\ e <= n => (heads2 = heads <=> line.header # R!Tables[k].header)
      /\ heads2 = heads \/ heads2 = heads \cup {n + 1}
  <2>1. heads2 = {i \in 1 .. n + 1 : i > e /\ seen'[i].header = R!Tables[k].header}
    BY <1>0 DEF Heads
  <2>2. heads = {i \in 1 .. n : i > e /\ seen[i].header = R!Tables[k].header}
    BY <1>0 DEF Heads
  <2> QED
    BY <1>0, <1>1, <2>1, <2>2
<1>5. /\ Lowest(heads, n) <= n => Lowest(heads2, n + 1) = Lowest(heads, n)
      /\ Lowest(heads, n) > n => Lowest(heads2, n + 1) = IF heads2 = heads THEN n + 2 ELSE n + 1
  <2> HIDE DEF heads, heads2
  <2> QED
    BY <1>0, <1>3, <1>4, LowestGrows
<1>6. /\ o <= n => R!Opens(k)' = o
      /\ o > n /\ e <= n => R!Opens(k)' = n + (IF line.header = R!Tables[k].header THEN 1 ELSE 2)
  BY <1>0, <1>1, <1>2, <1>4, <1>5
<1>7. ASSUME o <= n
      PROVE  /\ R!Ends[k] <= n => R!Ends[k]' = R!Ends[k]
             /\ R!Ends[k] > n => R!Ends[k]' = n + (IF line.name = R!Tables[k].last THEN 1 ELSE 2)
  <2>1. lasts2 = {i \in 1 .. n + 1 : i > o /\ seen'[i].name = R!Tables[k].last}
    BY <1>0, <1>6, <1>7 DEF Lasts
  <2>2. lasts = {i \in 1 .. n : i > o /\ seen[i].name = R!Tables[k].last}
    BY <1>0 DEF Lasts
  <2>3. /\ lasts2 = lasts <=> line.name # R!Tables[k].last
        /\ lasts2 = lasts \/ lasts2 = lasts \cup {n + 1}
    BY <1>0, <1>1, <1>7, <2>1, <2>2
  <2>4. /\ Lowest(lasts, n) <= n => Lowest(lasts2, n + 1) = Lowest(lasts, n)
        /\ Lowest(lasts, n) > n => Lowest(lasts2, n + 1) = IF lasts2 = lasts THEN n + 2 ELSE n + 1
    <3> HIDE DEF lasts, lasts2
    <3> QED
      BY <1>0, <1>3, <2>3, LowestGrows
  <2> QED
    BY <1>0, <1>1, <1>2, <2>3, <2>4
<1> QED
  BY <1>0, <1>1, <1>6, <1>7 DEF n

\* What was read between two lines of the log is what a longer log has there.
LEMMA RowsStay ==
    ASSUME NEW log \in Seq(TableLine), NEW line \in TableLine, NEW rows, NEW from \in Nat, NEW to \in Nat,
           to <= Len(log), RowsOf(log, rows, from, to)
    PROVE  RowsOf(Append(log, line), rows, from, to)
<1> DEFINE more == Append(log, line)
<1>1. \A i \in from + 1 .. to : more[i] = log[i]
  OBVIOUS
<1> HIDE DEF more
<1>2. RowsOf(more, rows, from, to)
  BY <1>1 DEF RowsOf
<1> QED
  BY <1>2 DEF more

\* A row more.
LEMMA RowsGrow ==
    ASSUME NEW log \in Seq(TableLine), NEW line \in TableLine, NEW rows \in Rows, NEW from \in Nat,
           from <= Len(log), RowsOf(log, rows, from, Len(log))
    PROVE  R!Put(rows, line) \in Rows /\ RowsOf(Append(log, line), R!Put(rows, line), from, Len(log) + 1)
<1> DEFINE n == Len(log)
           more == Append(log, line)
           put == R!Put(rows, line)
<1>0. /\ n \in Nat /\ Len(more) = n + 1 /\ more[n + 1] = line
      /\ \A i \in from + 1 .. n : more[i] = log[i] /\ log[i] \in TableLine
  OBVIOUS
<1>1. /\ DOMAIN put = DOMAIN rows \cup {line.name}
      /\ \A m \in DOMAIN put : put[m] = IF m = line.name THEN line.value ELSE rows[m]
  BY DEF R!Put
<1>2. put \in Rows
  <2>1. PICK names \in SUBSET Names : rows \in [names -> Int]
    BY DEF Rows
  <2>2. names \cup {line.name} \in SUBSET Names /\ put \in [names \cup {line.name} -> Int]
    BY <2>1 DEF TableLine, R!Put
  <2> QED
    BY <2>2 DEF Rows
<1>3. /\ \A i \in from + 1 .. n + 1 : i \in from + 1 .. n \/ i = n + 1
      /\ \A i \in from + 1 .. n : i \in from + 1 .. n + 1
      /\ n + 1 \in from + 1 .. n + 1
  BY <1>0
<1> HIDE DEF n, more, put
<1>4. DOMAIN put = {more[i].name : i \in from + 1 .. n + 1}
  <2>1. DOMAIN rows = {log[i].name : i \in from + 1 .. n}
    BY DEF RowsOf, n
  <2> QED
    BY <1>0, <1>1, <1>3, <2>1
<1>5. ASSUME NEW i \in from + 1 .. n + 1,
             \A j \in from + 1 .. n + 1 : more[j].name = more[i].name => j <= i
      PROVE  put[more[i].name] = more[i].value
  <2>1. more[i].name \in DOMAIN put
    BY <1>4
  <2>2. CASE i = n + 1
    BY <1>0, <1>1, <2>1, <2>2
  <2>3. CASE i # n + 1
    <3>1. i \in from + 1 .. n /\ more[i] = log[i]
      BY <1>0, <1>3, <2>3
    <3>2. log[i].name # line.name
      BY <1>0, <1>3, <1>5, <3>1
    <3>3. \A j \in from + 1 .. n : log[j].name = log[i].name => j <= i
      BY <1>0, <1>3, <1>5, <3>1
    <3>4. rows[log[i].name] = log[i].value
      BY <3>1, <3>3 DEF RowsOf, n
    <3> QED
      BY <1>1, <2>1, <3>1, <3>2, <3>4
  <2> QED
    BY <2>2, <2>3
<1>6. RowsOf(more, put, from, n + 1)
  BY <1>4, <1>5 DEF RowsOf
<1> QED
  BY <1>2, <1>6 DEF n, put, more

\* A table that has just opened is without rows.
LEMMA NoRows == <<>> \in Rows /\ DOMAIN <<>> = {}
  BY DEF Rows

\* A line opens the first table that has not opened and ends the first that has not ended.
Ordered(n, o, e) ==
    /\ o \in [1 .. 3 -> 1 .. n + 1] /\ e \in [0 .. 3 -> 0 .. n + 1] /\ e[0] = 0
    /\ \A k \in 1 .. 3 : /\ e[k - 1] <= o[k] /\ o[k] <= e[k]
                         /\ o[k] <= n => e[k - 1] < o[k]
                         /\ e[k] <= n => o[k] < e[k]

Extended(n, line, o, e, o2, e2) ==
    \A k \in 1 .. 3 : e2[k - 1] = e[k - 1] =>
        /\ o[k] <= n => o2[k] = o[k]
        /\ e[k] <= n => e2[k] = e[k]
        /\ o[k] > n /\ e[k - 1] <= n => o2[k] = n + (IF line.header = R!Tables[k].header THEN 1 ELSE 2)
        /\ o[k] <= n /\ e[k] > n => e2[k] = n + (IF line.name = R!Tables[k].last THEN 1 ELSE 2)

\* A line more of any log.
LEMMA TableStep ==
    ASSUME NEW log \in Seq(TableLine), NEW s \in TableState, NEW line \in TableLine,
           NEW n \in Nat, n = Len(log), NEW o, NEW e, NEW o2, NEW e2,
           Ordered(n, o, e), Ordered(n + 1, o2, e2), Extended(n, line, o, e, o2, e2), TablesAre(log, s, o, e)
    PROVE  TablesAre(Append(log, line), R!ReadTableLine(s, line), o2, e2)
<1> DEFINE log2 == Append(log, line)
           s2 == R!ReadTableLine(s, line)
<1> SUFFICES TablesAre(log2, s2, o2, e2)
  OBVIOUS
<1>1. log2 \in Seq(TableLine) /\ Len(log2) = n + 1
  OBVIOUS
<1>2. PICK t \in 1 .. 4 : t = s.table
  BY DEF TableState
<1>3. /\ s.reading \in BOOLEAN /\ s.rows \in Rows /\ s.result \in Seq(Rows) /\ Len(s.result) = t - 1
      /\ \A k \in 1 .. t - 1 : e[k] <= n /\ RowsOf(log, s.result[k], o[k], e[k])
      /\ t <= 3 => e[t] > n /\ (s.reading <=> o[t] <= n) /\ (s.reading => RowsOf(log, s.rows, o[t], n))
  BY <1>2 DEF TablesAre, TableState
<1>4. /\ \A k \in 1 .. 3 : o[k] \in 1 .. n + 1 /\ e[k - 1] \in 0 .. n + 1 /\ e[k] \in 0 .. n + 1
      /\ e[0] = 0
      /\ \A k \in 1 .. 3 : e[k - 1] <= o[k] /\ o[k] <= e[k] /\ (e[k] <= n => o[k] < e[k])
  BY DEF Ordered
<1>5. /\ \A k \in 1 .. 3 : o2[k] \in 1 .. n + 2 /\ e2[k - 1] \in 0 .. n + 2 /\ e2[k] \in 0 .. n + 2
      /\ e2[0] = 0
      /\ \A k \in 1 .. 3 : /\ e2[k - 1] <= o2[k] /\ o2[k] <= e2[k]
                           /\ o2[k] <= n + 1 => e2[k - 1] < o2[k]
                           /\ e2[k] <= n + 1 => o2[k] < e2[k]
  BY DEF Ordered
<1>6. \A k \in 0 .. t - 1 : e2[k] = e[k] /\ e[k] <= n
  <2>0. t = 1 \/ t = 2 \/ t = 3 \/ t = 4
    BY <1>2
  <2>1. \A k \in 1 .. t - 1 : e[k] <= n /\ (e2[k - 1] = e[k - 1] => e2[k] = e[k])
    BY <1>2, <1>3 DEF Extended
  <2>2. e2[0] = e[0] /\ e[0] <= n
    BY <1>4, <1>5
  <2>3. t > 1 => e2[1] = e[1] /\ e[1] <= n
    BY <1>2, <2>1, <2>2
  <2>4. t > 2 => e2[2] = e[2] /\ e[2] <= n
    BY <1>2, <2>1, <2>3
  <2>5. t > 3 => e2[3] = e[3] /\ e[3] <= n
    BY <1>2, <2>1, <2>4
  <2> QED
    BY <2>0, <2>2, <2>3, <2>4, <2>5
<1>7. \A k \in 1 .. t - 1 : o2[k] = o[k]
  <2> SUFFICES ASSUME NEW k \in 1 .. t - 1 PROVE o2[k] = o[k]
    OBVIOUS
  <2>1. k \in 1 .. 3 /\ k - 1 \in 0 .. t - 1 /\ e[k] <= n
    BY <1>2, <1>3
  <2>2. o[k] <= n
    BY <1>4, <2>1
  <2> QED
    BY <1>6, <2>1, <2>2 DEF Extended
<1>8. \A k \in 1 .. t - 1 : e2[k] <= n + 1 /\ RowsOf(log2, s.result[k], o2[k], e2[k])
  <2> SUFFICES ASSUME NEW k \in 1 .. t - 1
               PROVE  e2[k] <= n + 1 /\ RowsOf(log2, s.result[k], o2[k], e2[k])
    OBVIOUS
  <2>1. k \in 1 .. 3 /\ k \in 0 .. t - 1 /\ e[k] <= n /\ RowsOf(log, s.result[k], o[k], e[k])
    BY <1>2, <1>3
  <2>2. o[k] \in Nat /\ e[k] \in Nat
    BY <1>4, <2>1
  <2>3. RowsOf(log2, s.result[k], o[k], e[k])
    BY <2>1, <2>2, RowsStay
  <2> QED
    BY <1>6, <1>7, <2>1, <2>2, <2>3
<1>9. Len(R!Tables) = 3
  BY DEF R!Tables
<1>10. t \in 1 .. 3 =>
         /\ o[t] > n => o2[t] = n + (IF line.header = R!Tables[t].header THEN 1 ELSE 2)
         /\ o[t] <= n => o2[t] = o[t] /\ e2[t] = n + (IF line.name = R!Tables[t].last THEN 1 ELSE 2)
  <2> SUFFICES ASSUME t \in 1 .. 3
               PROVE  /\ o[t] > n => o2[t] = n + (IF line.header = R!Tables[t].header THEN 1 ELSE 2)
                      /\ o[t] <= n => /\ o2[t] = o[t]
                                      /\ e2[t] = n + (IF line.name = R!Tables[t].last THEN 1 ELSE 2)
    OBVIOUS
  <2>1. t - 1 \in 0 .. t - 1
    OBVIOUS
  <2>2. e2[t - 1] = e[t - 1] /\ e[t - 1] <= n
    BY <1>6, <2>1
  <2> QED
    BY <1>3, <2>2 DEF Extended
<1> HIDE DEF log2, s2
<1>11. CASE t = 4
  <2>1. s2 = s
    BY <1>2, <1>9, <1>11 DEF R!ReadTableLine, s2
  <2> QED
    <3>1. s2 \in TableState /\ Len(s2.result) = s2.table - 1 /\ ~(s2.table <= 3)
      <4>1. s.table = 4 /\ ~(4 <= 3)
        BY <1>2, <1>11
      <4>2. Len(s.result) = s.table - 1
        BY <1>2, <1>3
      <4> QED
        BY <2>1, <4>1, <4>2, Zenon
    <3>2. \A k \in 1 .. s2.table - 1 : e2[k] <= Len(log2) /\ RowsOf(log2, s2.result[k], o2[k], e2[k])
      BY <1>1, <1>2, <1>8, <2>1
    <3> QED
      BY <1>1, <3>1, <3>2 DEF TablesAre
<1>12. CASE t \in 1 .. 3 /\ ~s.reading
  <2>1. o2[t] = n + (IF line.header = R!Tables[t].header THEN 1 ELSE 2)
    <3>1. o[t] > n
      BY <1>3, <1>4, <1>12
    <3> QED
      BY <1>10, <1>12, <3>1
  <2>2. e2[t] > n + 1
    BY <1>5, <1>12, <2>1
  <2>3. CASE line.header = R!Tables[t].header
    <3>1. s2 = [s EXCEPT !.reading = TRUE, !.rows = <<>>]
      BY <1>2, <1>9, <1>12, <2>3 DEF R!ReadTableLine, R!NewRows, s2
    <3>2. s2 \in TableState /\ s2.table = t /\ s2.reading /\ s2.rows = <<>> /\ s2.result = s.result
      BY <1>2, <3>1, NoRows DEF TableState
    <3>3. o2[t] = n + 1
      BY <2>1, <2>3
    <3>4. RowsOf(log2, <<>>, n + 1, n + 1)
      <4>1. n + 1 + 1 .. n + 1 = {}
        OBVIOUS
      <4> QED
        BY <4>1, NoRows DEF RowsOf
    <3> QED
      BY <1>1, <1>2, <1>3, <1>8, <1>12, <2>2, <3>2, <3>3, <3>4 DEF TablesAre
  <2>4. CASE line.header # R!Tables[t].header
    <3>1. s2 = s
      BY <1>2, <1>9, <1>12, <2>4 DEF R!ReadTableLine, s2
    <3>2. o2[t] = n + 2
      BY <2>1, <2>4
    <3> QED
      BY <1>1, <1>2, <1>3, <1>8, <1>12, <2>2, <3>1, <3>2 DEF TablesAre
  <2> QED
    BY <2>3, <2>4
<1>13. CASE t \in 1 .. 3 /\ s.reading
  <2>1. o[t] <= n /\ o[t] \in Nat /\ RowsOf(log, s.rows, o[t], n)
    BY <1>3, <1>4, <1>13
  <2>2. o2[t] = o[t] /\ e2[t] = n + (IF line.name = R!Tables[t].last THEN 1 ELSE 2)
    BY <1>10, <1>13, <2>1
  <2>3. PICK rows \in Rows : rows = R!Put(s.rows, line) /\ RowsOf(log2, rows, o[t], n + 1)
    BY <1>3, <2>1, RowsGrow DEF log2
  <2>4. CASE line.name = R!Tables[t].last
    <3>1. s2 = [table |-> t + 1, reading |-> FALSE, rows |-> rows, result |-> Append(s.result, rows)]
      BY <1>2, <1>9, <1>13, <2>3, <2>4 DEF R!ReadTableLine, s2
    <3>2. t + 1 \in 1 .. 4 /\ Append(s.result, rows) \in Seq(Rows)
      BY <1>3, <1>13
    <3>3. /\ s2 \in TableState /\ s2.table = t + 1 /\ ~s2.reading /\ s2.result = Append(s.result, rows)
      BY <3>1, <3>2 DEF TableState
    <3>4. /\ Len(s2.result) = t /\ s2.result[t] = rows
          /\ \A k \in 1 .. t - 1 : s2.result[k] = s.result[k]
      BY <1>3, <1>13, <3>3
    <3>5. e2[t] = n + 1
      BY <2>2, <2>4
    <3>6. \A k \in 1 .. t : e2[k] <= n + 1 /\ RowsOf(log2, s2.result[k], o2[k], e2[k])
      <4> SUFFICES ASSUME NEW k \in 1 .. t
                   PROVE  e2[k] <= n + 1 /\ RowsOf(log2, s2.result[k], o2[k], e2[k])
        OBVIOUS
      <4>1. CASE k = t
        BY <2>2, <2>3, <3>4, <3>5, <4>1
      <4>2. CASE k # t
        <5>1. k \in 1 .. t - 1
          BY <4>2
        <5> QED
          BY <1>8, <3>4, <5>1
      <4> QED
        BY <4>1, <4>2
    <3>7. t + 1 <= 3 => o2[t + 1] > n + 1 /\ e2[t + 1] > n + 1
      <4> SUFFICES ASSUME t + 1 <= 3 PROVE o2[t + 1] > n + 1 /\ e2[t + 1] > n + 1
        OBVIOUS
      <4>1. t + 1 \in 1 .. 3 /\ t + 1 - 1 = t
        BY <1>13
      <4>2. /\ o2[t + 1] <= n + 1 => e2[t] < o2[t + 1]
            /\ o2[t + 1] <= e2[t + 1] /\ o2[t + 1] \in 1 .. n + 2 /\ e2[t + 1] \in 0 .. n + 2
        BY <1>5, <4>1
      <4> QED
        BY <3>5, <4>2
    <3> QED
      <4>1. s2.table - 1 = t /\ Len(s2.result) = s2.table - 1
        BY <3>3, <3>4
      <4>2. \A k \in 1 .. s2.table - 1 : e2[k] <= Len(log2) /\ RowsOf(log2, s2.result[k], o2[k], e2[k])
        BY <1>1, <3>6, <4>1
      <4>3. s2.table <= 3 => e2[s2.table] > Len(log2) /\ ~(o2[s2.table] <= Len(log2))
        <5> SUFFICES ASSUME t + 1 <= 3 PROVE e2[t + 1] > Len(log2) /\ ~(o2[t + 1] <= Len(log2))
          BY <3>3
        <5>1. o2[t + 1] \in 1 .. n + 2
          BY <1>5, <1>13
        <5> QED
          BY <1>1, <3>7, <5>1
      <4> QED
        BY <1>1, <3>3, <4>1, <4>2, <4>3 DEF TablesAre
  <2>5. CASE line.name # R!Tables[t].last
    <3>1. s2 = [s EXCEPT !.rows = rows]
      BY <1>2, <1>9, <1>13, <2>3, <2>5 DEF R!ReadTableLine, s2
    <3>2. s2 \in TableState /\ s2.table = t /\ s2.reading /\ s2.rows = rows /\ s2.result = s.result
      BY <1>2, <1>13, <3>1 DEF TableState
    <3>3. e2[t] = n + 2
      BY <2>2, <2>5
    <3> QED
      BY <1>1, <1>3, <1>8, <1>13, <2>1, <2>2, <2>3, <3>2, <3>3 DEF TablesAre
  <2> QED
    BY <2>4, <2>5
<1> QED
  BY <1>2, <1>11, <1>12, <1>13

\* So are the lines of the log that is read.
LEMMA OrderedIs == seen \in Seq(TableLine) => Ordered(Len(seen), Opened, Ended)
<1> SUFFICES ASSUME seen \in Seq(TableLine) PROVE Ordered(Len(seen), Opened, Ended)
  OBVIOUS
<1>1. PICK n \in Nat : n = Len(seen)
  OBVIOUS
<1>2. \A k \in 1 .. 3 :
        /\ R!Ends[k - 1] \in 0 .. n + 1 /\ R!Opens(k) \in 1 .. n + 1 /\ R!Ends[k] \in 1 .. n + 1
        /\ R!Ends[k - 1] <= R!Opens(k) /\ R!Opens(k) <= R!Ends[k]
        /\ R!Opens(k) <= n => R!Ends[k - 1] < R!Opens(k)
        /\ R!Ends[k] <= n => R!Opens(k) < R!Ends[k]
  BY <1>1, EndsGrow DEF Growing
<1>3. R!Ends[0] = 0
  BY MilestonesAre DEF Milestones
<1>4. /\ \A k \in 1 .. 3 : Opened[k] = R!Opens(k) /\ Ended[k - 1] = R!Ends[k - 1] /\ Ended[k] = R!Ends[k]
      /\ Ended[0] = 0
  BY <1>3 DEF Opened, Ended
<1>5. Opened \in [1 .. 3 -> 1 .. n + 1]
  BY <1>2 DEF Opened
<1>6. Ended \in [0 .. 3 -> 0 .. n + 1]
  <2>1. \A k \in 0 .. 3 : R!Ends[k] \in 0 .. n + 1
    BY <1>2, <1>3
  <2> QED
    BY <2>1 DEF Ended
<1> HIDE DEF Opened, Ended
<1>7. \A k \in 1 .. 3 : /\ Ended[k - 1] <= Opened[k] /\ Opened[k] <= Ended[k]
                        /\ Opened[k] <= n => Ended[k - 1] < Opened[k]
                        /\ Ended[k] <= n => Opened[k] < Ended[k]
  BY <1>2, <1>4
<1> QED
  BY <1>1, <1>4, <1>5, <1>6, <1>7 DEF Ordered

OrderedOnes == seen \in Seq(TableLine) => Ordered(Len(seen), Opened, Ended)

\* A line more of the log that is read.
LEMMA TablesNext ==
    ASSUME TablesInv, NEW line \in TableLine, seen' = Append(seen, line), state' = R!ReadTableLine(state, line)
    PROVE  TablesInv'
<1>1. seen \in Seq(TableLine) /\ state \in TableState /\ TablesAre(seen, state, Opened, Ended)
  BY DEF TablesInv, TablesAre
<1>2. PICK n \in Nat : n = Len(seen)
  BY <1>1
<1>3. seen' \in Seq(TableLine) /\ Len(seen') = n + 1
  BY <1>1, <1>2
<1>4. OrderedOnes /\ OrderedOnes'
  <2>1. OrderedOnes
    BY OrderedIs DEF OrderedOnes
  <2> QED
    BY <2>1, OrderedIs, PTL DEF OrderedOnes
<1>5. Ordered(n, Opened, Ended) /\ Ordered(n + 1, Opened', Ended')
  BY <1>1, <1>2, <1>3, <1>4 DEF OrderedOnes
<1>6. Extended(n, line, Opened, Ended, Opened', Ended')
  <2> SUFFICES ASSUME NEW k \in 1 .. 3, R!Ends[k - 1]' = R!Ends[k - 1]
               PROVE  /\ R!Opens(k) <= n => R!Opens(k)' = R!Opens(k)
                      /\ R!Ends[k] <= n => R!Ends[k]' = R!Ends[k]
                      /\ R!Opens(k) > n /\ R!Ends[k - 1] <= n =>
                            R!Opens(k)' = n + (IF line.header = R!Tables[k].header THEN 1 ELSE 2)
                      /\ R!Opens(k) <= n /\ R!Ends[k] > n =>
                            R!Ends[k]' = n + (IF line.name = R!Tables[k].last THEN 1 ELSE 2)
    BY DEF Extended, Opened, Ended
  <2> QED
    BY <1>1, <1>2, EndsNext
<1>7. TablesAre(Append(seen, line), R!ReadTableLine(state, line), Opened', Ended')
  BY <1>1, <1>2, <1>5, <1>6, TableStep
<1> QED
  BY <1>7 DEF TablesInv

\* A log without lines.
LEMMA TablesInit == ASSUME seen = <<>>, state = R!TablesStart PROVE TablesInv
<1>1. seen \in Seq(TableLine) /\ Len(seen) = 0
  OBVIOUS
<1>2. Ordered(0, Opened, Ended)
  BY <1>1, OrderedIs
<1>3. Opened[1] = 1 /\ Ended[1] = 1
  <2>1. Opened[1] \in 1 .. 1 /\ Ended[1] \in 0 .. 1 /\ Opened[1] <= Ended[1]
    BY <1>2 DEF Ordered
  <2> QED
    BY <2>1
<1>4. state \in TableState /\ state.table = 1 /\ ~state.reading /\ state.result = <<>>
  BY NoRows DEF R!TablesStart, TableState
<1> QED
  BY <1>1, <1>3, <1>4 DEF TablesInv, TablesAre

\* What is reported of the tables.
LEMMA TablesRead ==
    ASSUME TablesInv
    PROVE  /\ \A k \in DOMAIN R!Tables : k \in DOMAIN state.result <=> R!Ends[k] <= Len(seen)
           /\ \A k \in DOMAIN state.result :
                LET lines == {i \in DOMAIN seen : R!Opens(k) < i /\ i <= R!Ends[k]}
                IN  /\ DOMAIN state.result[k] = {seen[i].name : i \in lines}
                    /\ \A i \in lines : (\A j \in lines : seen[j].name = seen[i].name => j <= i)
                                        => state.result[k][seen[i].name] = seen[i].value
<1>1. PICK n \in Nat, t \in 1 .. 4 : n = Len(seen) /\ t = state.table /\ DOMAIN seen = 1 .. n
  BY DEF TablesInv, TablesAre, TableState
<1>2. DOMAIN state.result = 1 .. t - 1 /\ DOMAIN R!Tables = 1 .. 3 /\ seen \in Seq(TableLine)
  BY <1>1 DEF TablesInv, TablesAre, TableState, R!Tables
<1>3. /\ \A k \in 1 .. 3 : /\ R!Opens(k) \in 1 .. n + 1 /\ R!Ends[k] \in 1 .. n + 1
                           /\ R!Ends[k - 1] <= R!Opens(k) /\ R!Opens(k) <= R!Ends[k]
  BY <1>1, <1>2, EndsGrow DEF Growing
<1>4. /\ \A k \in 1 .. 3 : Opened[k] = R!Opens(k) /\ Ended[k] = R!Ends[k]
      /\ \A k \in 1 .. t - 1 : k \in 1 .. 3
  BY DEF Opened, Ended
<1>5. \A k \in 1 .. t - 1 : R!Ends[k] <= n /\ RowsOf(seen, state.result[k], R!Opens(k), R!Ends[k])
  BY <1>1, <1>4 DEF TablesInv, TablesAre
<1>6. t <= 3 => R!Ends[t] > n
  BY <1>1, <1>4 DEF TablesInv, TablesAre
<1>7. \A k \in 1 .. 3 : k \in 1 .. t - 1 <=> R!Ends[k] <= n
  <2>1. R!Ends[1] <= R!Ends[2] /\ R!Ends[2] <= R!Ends[3]
    <3>1. R!Ends[2 - 1] <= R!Opens(2) /\ R!Opens(2) <= R!Ends[2] /\ R!Ends[3 - 1] <= R!Opens(3)
          /\ R!Opens(3) <= R!Ends[3] /\ \A k \in 1 .. 3 : R!Ends[k] \in Int /\ R!Opens(k) \in Int
      BY <1>3
    <3>2. R!Ends[2 - 1] = R!Ends[1] /\ R!Ends[3 - 1] = R!Ends[2]
      OBVIOUS
    <3> QED
      BY <3>1, <3>2
  <2>2. t = 1 \/ t = 2 \/ t = 3 \/ t = 4
    OBVIOUS
  <2> QED
    BY <1>3, <1>5, <1>6, <2>1, <2>2
<1>8. ASSUME NEW k \in 1 .. t - 1
      PROVE  LET lines == {i \in DOMAIN seen : R!Opens(k) < i /\ i <= R!Ends[k]}
             IN  /\ DOMAIN state.result[k] = {seen[i].name : i \in lines}
                 /\ \A i \in lines : (\A j \in lines : seen[j].name = seen[i].name => j <= i)
                                     => state.result[k][seen[i].name] = seen[i].value
  <2>1. PICK o \in 1 .. n + 1, e \in 1 .. n : o = R!Opens(k) /\ e = R!Ends[k]
    BY <1>3, <1>4, <1>5
  <2>2. {i \in DOMAIN seen : o < i /\ i <= e} = o + 1 .. e
    <3>1. \A i \in o + 1 .. e : i \in 1 .. n
      OBVIOUS
    <3> QED
      BY <1>1, <3>1
  <2>3. RowsOf(seen, state.result[k], o, e)
    BY <1>5, <2>1
  <2> QED
    BY <2>1, <2>2, <2>3 DEF RowsOf
<1> QED
  BY <1>1, <1>2, <1>7, <1>8
LinkLine == {l \in [names : R!Directions \cup {"none"}, bracketed : BOOLEAN, value : Int] :
                l.names \in R!Directions => ~l.bracketed}
LinkState == [current : R!Directions \cup {"none"}, block : [R!Directions -> Seq(LinkLine)]]

\* The last line of a log that names a direction, and the next one that names any, past the log if there is none.
Naming(log, d) == {i \in DOMAIN log : i < Len(log) + 1 /\ log[i].names = d}
BlockFrom(log, d) == Highest(Naming(log, d))
NamingAny(log, d) == {i \in DOMAIN log : i > BlockFrom(log, d) /\ log[i].names \in R!Directions}
BlockTo(log, d) == Lowest(NamingAny(log, d), Len(log))

\* Where the block of a direction begins, and where it ends.
LEMMA FromIs ==
    ASSUME NEW log \in Seq(LinkLine), NEW d
    PROVE  /\ BlockFrom(log, d) \in 0 .. Len(log) /\ (BlockFrom(log, d) = 0 <=> Naming(log, d) = {})
           /\ BlockFrom(log, d) > 0 => log[BlockFrom(log, d)].names = d
           /\ \A i \in 1 .. Len(log) : log[i].names = d => i <= BlockFrom(log, d)
<1>1. PICK n \in Nat : n = Len(log) /\ DOMAIN log = 1 .. n
  OBVIOUS
<1> DEFINE S == Naming(log, d)
<1>2. S \subseteq 1 .. n /\ \A i \in 1 .. n : i \in S <=> log[i].names = d
  BY <1>1 DEF Naming
<1> HIDE DEF S
<1>3. /\ Highest(S) \in 0 .. n /\ (Highest(S) = 0 <=> S = {})
      /\ S # {} => Highest(S) \in S /\ \A j \in S : j <= Highest(S)
  BY <1>2, HighestIs
<1>4. BlockFrom(log, d) = Highest(S)
  BY DEF BlockFrom, S
<1> QED
  BY <1>1, <1>2, <1>3, <1>4 DEF S

LEMMA ToIs ==
    ASSUME NEW log \in Seq(LinkLine), NEW d
    PROVE  /\ BlockTo(log, d) \in 1 .. Len(log) + 1 /\ BlockFrom(log, d) < BlockTo(log, d)
           /\ BlockTo(log, d) <= Len(log) => log[BlockTo(log, d)].names \in R!Directions
           /\ \A i \in 1 .. Len(log) :
                 i > BlockFrom(log, d) /\ log[i].names \in R!Directions => BlockTo(log, d) <= i
<1>1. PICK n \in Nat : n = Len(log) /\ DOMAIN log = 1 .. n
  OBVIOUS
<1>2. PICK b \in 0 .. n : b = BlockFrom(log, d)
  BY <1>1, FromIs
<1> DEFINE S == NamingAny(log, d)
<1>3. S \subseteq 1 .. n /\ \A i \in 1 .. n : i \in S <=> i > b /\ log[i].names \in R!Directions
  BY <1>1, <1>2 DEF NamingAny
<1> HIDE DEF S
<1>4. /\ Lowest(S, n) \in 1 .. n + 1 /\ (Lowest(S, n) = n + 1 <=> S = {})
      /\ S # {} => Lowest(S, n) \in S /\ \A j \in S : Lowest(S, n) <= j
  BY <1>3, LowestIs
<1>5. BlockTo(log, d) = Lowest(S, n)
  BY <1>1 DEF BlockTo, S
<1>6. PICK e \in 1 .. n + 1 : e = BlockTo(log, d)
  BY <1>4, <1>5
<1>7. /\ e <= n => e \in S
      /\ e > n => S = {}
      /\ \A j \in S : e <= j
  BY <1>4, <1>5, <1>6
<1> QED
  BY <1>1, <1>2, <1>3, <1>6, <1>7

\* How the two lines move with a line more.
LEMMA FromGrows ==
    ASSUME NEW log \in Seq(LinkLine), NEW line \in LinkLine, NEW d
    PROVE  BlockFrom(Append(log, line), d) = IF line.names = d THEN Len(log) + 1 ELSE BlockFrom(log, d)
<1>1. PICK n \in Nat : n = Len(log) /\ DOMAIN log = 1 .. n
  OBVIOUS
<1>2. PICK log2 \in Seq(LinkLine) : log2 = Append(log, line)
  <2>1. Append(log, line) \in Seq(LinkLine)
    OBVIOUS
  <2> QED
    BY <2>1, Zenon
<1>3. /\ Len(log2) = n + 1 /\ log2[n + 1] = line /\ \A i \in 1 .. n : log2[i] = log[i]
  BY <1>1, <1>2
<1>4. PICK b \in 0 .. n : /\ b = BlockFrom(log, d) /\ (b > 0 => log[b].names = d)
                          /\ \A i \in 1 .. n : log[i].names = d => i <= b
  BY <1>1, FromIs
<1>5. PICK c \in 0 .. n + 1 : /\ c = BlockFrom(log2, d) /\ (c > 0 => log2[c].names = d)
                              /\ \A i \in 1 .. n + 1 : log2[i].names = d => i <= c
  BY <1>3, FromIs
<1>6. CASE line.names = d
  <2>1. n + 1 <= c
    BY <1>3, <1>5, <1>6
  <2> QED
    BY <1>1, <1>2, <1>5, <1>6, <2>1
<1>7. CASE line.names # d
  <2>1. c # n + 1
    BY <1>3, <1>5, <1>7
  <2>2. c <= b
    BY <1>3, <1>4, <1>5, <2>1
  <2>3. b <= c
    BY <1>3, <1>4, <1>5
  <2> QED
    BY <1>2, <1>4, <1>5, <1>7, <2>2, <2>3
<1> QED
  BY <1>6, <1>7

\* The end of a block is met once, and again when the block begins anew.
LEMMA ToGrows ==
    ASSUME NEW log \in Seq(LinkLine), NEW line \in LinkLine, NEW d \in R!Directions
    PROVE  BlockTo(Append(log, line), d) =
              IF line.names # d /\ BlockTo(log, d) <= Len(log) THEN BlockTo(log, d)
              ELSE IF line.names \in R!Directions \ {d} THEN Len(log) + 1 ELSE Len(log) + 2
<1>1. PICK n \in Nat : n = Len(log) /\ DOMAIN log = 1 .. n
  OBVIOUS
<1>2. PICK log2 \in Seq(LinkLine) : log2 = Append(log, line)
  <2>1. Append(log, line) \in Seq(LinkLine)
    OBVIOUS
  <2> QED
    BY <2>1, Zenon
<1>3. /\ Len(log2) = n + 1 /\ log2[n + 1] = line /\ \A i \in 1 .. n : log2[i] = log[i]
  BY <1>1, <1>2
<1>4. PICK b \in 0 .. n, e \in 1 .. n + 1 :
        /\ b = BlockFrom(log, d) /\ e = BlockTo(log, d) /\ b < e
        /\ e <= n => log[e].names \in R!Directions
        /\ \A i \in 1 .. n : i > b /\ log[i].names \in R!Directions => e <= i
  BY <1>1, FromIs, ToIs
<1>5. PICK c \in 0 .. n + 1, g \in 1 .. n + 2 :
        /\ c = BlockFrom(log2, d) /\ g = BlockTo(log2, d) /\ c < g
        /\ g <= n + 1 => log2[g].names \in R!Directions
        /\ \A i \in 1 .. n + 1 : i > c /\ log2[i].names \in R!Directions => g <= i
  <2>1. BlockFrom(log2, d) \in 0 .. n + 1 /\ BlockTo(log2, d) \in 1 .. n + 2
    BY <1>3, FromIs, ToIs
  <2> QED
    BY <1>3, <2>1, ToIs
<1>6. c = IF line.names = d THEN n + 1 ELSE b
  BY <1>1, <1>2, <1>4, <1>5, FromGrows
<1>7. CASE line.names = d
  BY <1>1, <1>2, <1>5, <1>6, <1>7
<1>8. CASE line.names # d /\ e <= n
  <2>1. g <= e
    BY <1>3, <1>4, <1>5, <1>6, <1>8
  <2>2. g \in 1 .. n /\ log[g].names \in R!Directions /\ g > b
    BY <1>3, <1>5, <1>6, <1>8, <2>1
  <2>3. e <= g
    BY <1>4, <2>2
  <2> QED
    BY <1>1, <1>2, <1>4, <1>5, <1>8, <2>1, <2>3
<1>9. CASE line.names # d /\ e > n
  <2>1. g > n
    <3> SUFFICES ASSUME g <= n PROVE FALSE
      BY <1>5
    <3>1. g \in 1 .. n /\ log[g].names \in R!Directions /\ g > b
      BY <1>3, <1>5, <1>6, <1>9
    <3> QED
      BY <1>4, <1>9, <3>1
  <2>2. line.names \in R!Directions => g <= n + 1
    BY <1>3, <1>4, <1>5, <1>6, <1>9
  <2>3. line.names \notin R!Directions => g = n + 2
    BY <1>3, <1>5, <2>1
  <2> QED
    BY <1>1, <1>2, <1>4, <1>5, <1>9, <2>1, <2>2, <2>3
<1> QED
  BY <1>4, <1>7, <1>8, <1>9

\* The block of a direction is what the log has from its last line to the next one of either direction.
LinksAre(log, s) ==
    /\ log \in Seq(LinkLine) /\ s \in LinkState
    /\ \A d \in R!Directions :
          /\ BlockFrom(log, d) = 0 => s.block[d] = <<>>
          /\ BlockFrom(log, d) > 0 =>
                /\ Len(s.block[d]) = BlockTo(log, d) - BlockFrom(log, d)
                /\ \A i \in 1 .. BlockTo(log, d) - BlockFrom(log, d) :
                      s.block[d][i] = log[BlockFrom(log, d) + i - 1]
          /\ s.current = d <=> BlockFrom(log, d) > 0 /\ BlockTo(log, d) = Len(log) + 1

\* A line more of any log.
LEMMA LinkStep ==
    ASSUME NEW log, NEW s, NEW line \in LinkLine, LinksAre(log, s)
    PROVE  LinksAre(Append(log, line), R!ReadLinkLine(s, line))
<1>1. log \in Seq(LinkLine) /\ s \in LinkState
  BY DEF LinksAre
<1>2. PICK n \in Nat : n = Len(log) /\ DOMAIN log = 1 .. n
  BY <1>1
<1>3. PICK log2 \in Seq(LinkLine) : log2 = Append(log, line)
  <2>1. Append(log, line) \in Seq(LinkLine)
    BY <1>1
  <2> QED
    BY <2>1, Zenon
<1>4. /\ Len(log2) = n + 1 /\ log2[n + 1] = line /\ \A i \in 1 .. n : log2[i] = log[i]
  BY <1>1, <1>2, <1>3
<1>5. PICK s2 : s2 = R!ReadLinkLine(s, line)
  OBVIOUS
<1>6. PICK now : now = IF line.names \in R!Directions THEN line.names ELSE s.current
  OBVIOUS
<1>7. now \in R!Directions \cup {"none"} /\ line.names \in R!Directions \cup {"none"}
  BY <1>1, <1>6 DEF LinkState, LinkLine
<1>8. PICK kept \in [R!Directions -> Seq(LinkLine)] :
        \A d \in R!Directions : kept[d] = IF line.names = d THEN <<>> ELSE s.block[d]
  <2>1. s.block \in [R!Directions -> Seq(LinkLine)]
    BY <1>1 DEF LinkState
  <2> DEFINE f == [d \in R!Directions |-> IF line.names = d THEN <<>> ELSE s.block[d]]
  <2>2. \A d \in R!Directions : (IF line.names = d THEN <<>> ELSE s.block[d]) \in Seq(LinkLine)
    BY <2>1
  <2>3. /\ f \in [R!Directions -> Seq(LinkLine)]
        /\ \A d \in R!Directions : f[d] = IF line.names = d THEN <<>> ELSE s.block[d]
    BY <2>2, Zenon
  <2> HIDE DEF f
  <2> QED
    BY <2>3, Zenon
<1>9. /\ s2.current = now
      /\ s2.block = IF now \in R!Directions THEN [kept EXCEPT ![now] = Append(@, line)] ELSE kept
  <2>1. s.block \in [R!Directions -> Seq(LinkLine)]
    BY <1>1 DEF LinkState
  <2>2. kept = IF line.names \in R!Directions THEN [s.block EXCEPT ![now] = <<>>] ELSE s.block
    <3>1. CASE line.names \in R!Directions
      BY <1>6, <1>8, <2>1, <3>1
    <3>2. CASE line.names \notin R!Directions
      BY <1>8, <2>1, <3>2
    <3> QED
      BY <3>1, <3>2
  <2>3. s2 = [current |-> now, block |-> IF now \in R!Directions THEN [kept EXCEPT ![now] = Append(@, line)]
                                         ELSE kept]
    BY <1>5, <1>6, <2>2 DEF R!ReadLinkLine
  <2> QED
    BY <2>3
<1>10. /\ s2 \in LinkState
       /\ \A d \in R!Directions : s2.block[d] = IF now = d THEN Append(kept[d], line) ELSE kept[d]
  <2>1. s2.block \in [R!Directions -> Seq(LinkLine)]
    BY <1>8, <1>9
  <2>2. s2 = [current |-> s2.current, block |-> s2.block]
    BY <1>5 DEF R!ReadLinkLine
  <2>3. s2 \in LinkState
    BY <1>7, <1>9, <2>1, <2>2 DEF LinkState
  <2>4. \A d \in R!Directions : s2.block[d] = IF now = d THEN Append(kept[d], line) ELSE kept[d]
    BY <1>8, <1>9
  <2> QED
    BY <2>3, <2>4
<1>11. ASSUME NEW d \in R!Directions
       PROVE  /\ BlockFrom(log2, d) = 0 => s2.block[d] = <<>>
              /\ BlockFrom(log2, d) > 0 =>
                    /\ Len(s2.block[d]) = BlockTo(log2, d) - BlockFrom(log2, d)
                    /\ \A i \in 1 .. BlockTo(log2, d) - BlockFrom(log2, d) :
                          s2.block[d][i] = log2[BlockFrom(log2, d) + i - 1]
              /\ s2.current = d <=> BlockFrom(log2, d) > 0 /\ BlockTo(log2, d) = Len(log2) + 1
  <2>1. PICK b \in 0 .. n, e \in 1 .. n + 1 : b = BlockFrom(log, d) /\ e = BlockTo(log, d) /\ b < e
    BY <1>1, <1>2, FromIs, ToIs
  <2>0. n \in Int /\ b \in Int /\ e \in Int /\ 0 <= b /\ b <= n /\ b < e /\ e <= n + 1
    BY <2>1
  <2>2. PICK old \in Seq(LinkLine) : old = s.block[d]
    BY <1>1 DEF LinkState
  <2>3. /\ b = 0 => old = <<>>
        /\ b > 0 => Len(old) = e - b /\ \A i \in 1 .. e - b : old[i] = log[b + i - 1]
        /\ s.current = d <=> b > 0 /\ e = n + 1
    BY <1>2, <2>1, <2>2 DEF LinksAre
  <2>4. /\ BlockFrom(log2, d) = IF line.names = d THEN n + 1 ELSE b
        /\ BlockTo(log2, d) = IF line.names # d /\ e <= n THEN e
                           ELSE IF line.names \in R!Directions \ {d} THEN n + 1 ELSE n + 2
    BY <1>1, <1>2, <1>3, <2>1, FromGrows, ToGrows
  <2>5. PICK new \in Seq(LinkLine) : new = s2.block[d]
    BY <1>10 DEF LinkState
  <2>6. CASE line.names = d
    <3>0. now = d /\ kept[d] = <<>>
      BY <1>6, <1>8, <2>6
    <3>1. now = d /\ new = Append(<<>>, line)
      BY <1>10, <2>5, <3>0
    <3>2. Len(new) = 1 /\ new[1] = line
      <4>1. <<>> \in Seq(LinkLine) /\ Len(<<>>) = 0
        OBVIOUS
      <4> QED
        BY <3>1, <4>1
    <3>3. BlockFrom(log2, d) = n + 1 /\ BlockTo(log2, d) = n + 2 /\ n + 2 - (n + 1) = 1
      BY <2>4, <2>6
    <3>4. \A i \in 1 .. 1 : new[i] = log2[n + 1 + i - 1]
      <4>1. \A i \in 1 .. 1 : i = 1 /\ n + 1 + i - 1 = n + 1
        OBVIOUS
      <4> QED
        BY <1>4, <3>2, <4>1
    <3> QED
      BY <1>4, <1>9, <2>5, <3>1, <3>2, <3>3, <3>4
  <2>7. CASE line.names # d /\ now = d
    <3>1. line.names \notin R!Directions /\ s.current = d /\ b > 0 /\ e = n + 1
      BY <1>6, <2>3, <2>7
    <3>2. new = Append(old, line) /\ Len(old) = n + 1 - b /\ \A i \in 1 .. n + 1 - b : old[i] = log[b + i - 1]
      <4>1. kept[d] = old
        BY <1>8, <2>2, <2>7
      <4>2. new = Append(old, line)
        BY <1>10, <2>5, <2>7, <4>1
      <4>3. Len(old) = e - b /\ \A i \in 1 .. e - b : old[i] = log[b + i - 1]
        BY <2>3, <3>1
      <4> QED
        BY <3>1, <4>2, <4>3
    <3>3. BlockFrom(log2, d) = b /\ BlockTo(log2, d) = n + 2
      BY <2>4, <2>7, <3>1
    <3>4. Len(new) = n + 2 - b
      <4>1. Len(new) = Len(old) + 1
        <5>1. \A q \in Seq(LinkLine) : Len(Append(q, line)) = Len(q) + 1
          OBVIOUS
        <5> QED
          BY <3>2, <5>1, Zenon
      <4> QED
        BY <2>0, <3>2, <4>1
    <3>5. \A i \in 1 .. n + 2 - b : new[i] = log2[b + i - 1]
      <4> SUFFICES ASSUME NEW i \in 1 .. n + 2 - b PROVE new[i] = log2[b + i - 1]
        OBVIOUS
      <4>1. CASE i = n + 2 - b
        <5>1. b + i - 1 = n + 1 /\ i = Len(old) + 1
          BY <3>2, <4>1
        <5> QED
          BY <1>4, <3>2, <5>1
      <4>2. CASE i # n + 2 - b
        <5>1. i \in 1 .. n + 1 - b /\ b + i - 1 \in 1 .. n
          BY <3>1, <4>2
        <5> QED
          BY <1>4, <3>2, <5>1
      <4> QED
        BY <4>1, <4>2
    <3> QED
      BY <1>4, <1>9, <2>5, <2>7, <3>1, <3>3, <3>4, <3>5
  <2>8. CASE line.names # d /\ now # d
    <3>1. new = old
      BY <1>8, <1>10, <2>2, <2>5, <2>8
    <3>2. BlockFrom(log2, d) = b
      BY <2>4, <2>8
    <3>3. b > 0 => BlockTo(log2, d) = e /\ e <= n + 1
      <4>1. CASE line.names \in R!Directions
        <5>1. line.names \in R!Directions \ {d}
          BY <2>8, <4>1
        <5>2. BlockTo(log2, d) = IF e <= n THEN e ELSE n + 1
          BY <2>4, <2>8, <5>1, Zenon
        <5>3. e <= n \/ e = n + 1
          BY <2>0
        <5> QED
          BY <2>0, <5>2, <5>3, Zenon
      <4>2. CASE line.names \notin R!Directions
        <5>1. s.current # d
          BY <1>6, <2>8, <4>2
        <5> QED
          <6>1. b > 0 => e <= n
            <7>1. e <= n \/ e = n + 1
              BY <2>0
            <7> QED
              BY <2>3, <5>1, <7>1, Zenon
          <6>2. e <= n => BlockTo(log2, d) = e
            BY <2>4, <2>8, Zenon
          <6> QED
            BY <2>0, <6>1, <6>2, Zenon
      <4> QED
        BY <4>1, <4>2
    <3>4. ASSUME b > 0 PROVE \A i \in 1 .. e - b : new[i] = log2[b + i - 1]
      <4>1. \A i \in 1 .. e - b : b + i - 1 \in 1 .. n
        BY <2>1, <3>4
      <4> QED
        BY <1>4, <2>3, <3>1, <3>4, <4>1
    <3> QED
      BY <1>4, <1>9, <2>1, <2>3, <2>5, <2>8, <3>1, <3>2, <3>3, <3>4
  <2> QED
    BY <2>6, <2>7, <2>8
<1> QED
  BY <1>3, <1>5, <1>10, <1>11 DEF LinksAre

\* A log without lines.
LEMMA LinksInit == LinksAre(<<>>, R!LinksStart)
<1>1. <<>> \in Seq(LinkLine) /\ Len(<<>>) = 0
  OBVIOUS
<1>2. \A d \in R!Directions : BlockFrom(<<>>, d) = 0
  <2> SUFFICES ASSUME NEW d PROVE BlockFrom(<<>>, d) = 0
    OBVIOUS
  <2>1. BlockFrom(<<>>, d) \in 0 .. Len(<<>>)
    BY <1>1, FromIs
  <2> QED
    BY <1>1, <2>1
<1>3. R!LinksStart \in LinkState /\ R!LinksStart.current = "none"
      /\ \A d \in R!Directions : R!LinksStart.block[d] = <<>>
  BY DEF R!LinksStart, LinkState
<1>4. "none" \notin R!Directions
  BY DEF R!Directions
<1> QED
  BY <1>1, <1>2, <1>3, <1>4 DEF LinksAre
\* The line of a block, counted in the log.
LEMMA BlockStart ==
    /\ \A x, y, z \in Int : y <= x + z - 1 /\ z <= y - x + 1 => y = x + z - 1
    /\ \A x, y, z, w \in Int : y = x + z - 1 /\ z = w - x => ~(y + 1 < w)
  OBVIOUS

\* What the report says of a block is what the log says of it.
LEMMA NofKoIs ==
    ASSUME NEW log, NEW s, LinksAre(log, s), NEW d \in R!Directions, NEW b, b = BlockFrom(log, d),
           NEW e, e = BlockTo(log, d), NEW h, h = Lowest({i \in DOMAIN log : i > b /\ log[i].bracketed}, Len(log))
    PROVE  R!NofKo(s.block[d]) = IF b > 0 /\ h + 1 < e /\ log[h + 1].value # R!None THEN log[h + 1].value ELSE 0
<1>1. log \in Seq(LinkLine) /\ s \in LinkState
  BY DEF LinksAre
<1>2. PICK n \in Nat : n = Len(log) /\ DOMAIN log = 1 .. n
  BY <1>1
<1>3. b \in 0 .. n /\ e \in 1 .. n + 1 /\ b < e /\ (b > 0 => log[b].names = d)
  BY <1>1, <1>2, FromIs, ToIs
<1>4. PICK block \in Seq(LinkLine) : block = s.block[d]
  BY <1>1 DEF LinkState
<1>5. /\ b = 0 => block = <<>>
      /\ b > 0 => Len(block) = e - b /\ \A i \in 1 .. e - b : block[i] = log[b + i - 1]
  BY <1>4 DEF LinksAre
<1> DEFINE H == {i \in DOMAIN block : block[i].bracketed}
           K == {i \in DOMAIN log : i > b /\ log[i].bracketed}
           first == CHOOSE i \in H : \A j \in H : i <= j
<1>6. R!NofKo(block) = IF H = {} \/ first = Len(block) \/ block[first + 1].value = R!None THEN 0
                       ELSE block[first + 1].value
  BY DEF R!NofKo
<1>7. CASE b = 0
  <2>1. H = {}
    BY <1>5, <1>7
  <2> QED
    <3>1. ~(b > 0)
      BY <1>7
    <3> QED
      BY <1>4, <1>6, <2>1, <3>1, Zenon
<1>8. CASE b > 0
  <2>1. Len(block) = e - b /\ DOMAIN block = 1 .. e - b /\ \A i \in 1 .. e - b : block[i] = log[b + i - 1]
    BY <1>5, <1>8
  <2>2. b \in 1 .. n /\ ~log[b].bracketed
    <3>1. b \in 1 .. n /\ log[b] \in LinkLine
      BY <1>1, <1>2, <1>3, <1>8
    <3> QED
      BY <1>3, <1>8, <3>1 DEF LinkLine
  <2>3. \A i \in H : i \in 2 .. e - b /\ b + i - 1 \in K
    <3> SUFFICES ASSUME NEW i \in H PROVE i \in 2 .. e - b /\ b + i - 1 \in K
      OBVIOUS
    <3>1. i \in 1 .. e - b /\ log[b + i - 1].bracketed
      BY <2>1
    <3>2. i # 1
      <4>1. i = 1 => b + i - 1 = b
        BY <1>3
      <4> QED
        BY <2>2, <3>1, <4>1
    <3>3. b + i - 1 \in 1 .. n /\ b + i - 1 > b
      BY <1>3, <3>1, <3>2
    <3> QED
      BY <1>2, <1>3, <3>1, <3>2, <3>3
  <2>4. \A j \in K : j \in 1 .. n /\ j > b /\ (j < e => j - b + 1 \in H)
    <3> SUFFICES ASSUME NEW j \in K PROVE j \in 1 .. n /\ j > b /\ (j < e => j - b + 1 \in H)
      OBVIOUS
    <3>1. j \in 1 .. n /\ j > b /\ log[j].bracketed
      BY <1>2
    <3>2. ASSUME j < e PROVE j - b + 1 \in H
      <4>1. j - b + 1 \in 1 .. e - b /\ b + (j - b + 1) - 1 = j
        BY <1>3, <3>1, <3>2
      <4>2. block[j - b + 1] = log[j]
        BY <2>1, <4>1
      <4> QED
        BY <2>1, <3>1, <4>1, <4>2
    <3> QED
      BY <3>1, <3>2
  <2> HIDE DEF H, K, first
  <2>5. /\ h \in 1 .. n + 1 /\ (h = n + 1 <=> K = {})
        /\ K # {} => h \in K /\ \A j \in K : h <= j
    <3>1. K \subseteq 1 .. n
      BY <2>4
    <3>2. h = Lowest(K, n)
      BY <1>2 DEF K
    <3>3. /\ Lowest(K, n) \in 1 .. n + 1 /\ (Lowest(K, n) = n + 1 <=> K = {})
          /\ K # {} => Lowest(K, n) \in K /\ \A j \in K : Lowest(K, n) <= j
      BY <3>1, LowestIs
    <3> QED
      BY <3>2, <3>3, Zenon
  <2>6. CASE H = {}
    <3>1. ~(h + 1 < e)
      <4>1. CASE K = {}
        BY <1>3, <2>5, <4>1
      <4>2. CASE K # {}
        <5>1. h \in K /\ ~(h < e)
          BY <2>4, <2>5, <2>6, <4>2
        <5> QED
          BY <1>3, <2>5, <5>1
      <4> QED
        BY <4>1, <4>2
    <3> QED
      BY <1>4, <1>6, <2>6, <3>1, Zenon
  <2>7. CASE H # {}
    <3>1. first \in H /\ \A j \in H : first <= j
      <4>1. H \subseteq Nat
        BY <2>3
      <4>2. \E i \in H : \A j \in H : i <= j
        BY <2>7, <4>1, HasLeast
      <4> QED
        BY <4>2, Zenon DEF first
    <3>2. PICK f \in 2 .. e - b : f = first /\ b + f - 1 \in K
      BY <2>3, <3>1
    <3>3. h \in K /\ h <= b + f - 1
      BY <2>5, <3>2
    <3>4. h - b + 1 \in H
      BY <1>3, <2>4, <2>5, <3>2, <3>3
    <3>0. f \in Int /\ h \in Int /\ b \in Int /\ e \in Int
      BY <1>3, <2>5
    <3>5. h = b + f - 1
      <4>1. f <= h - b + 1
        BY <3>1, <3>2, <3>4, Zenon
      <4> QED
        BY <3>0, <3>3, <4>1, BlockStart, Zenon
    <3>6. CASE f = e - b
      <4>1. R!NofKo(block) = 0
        BY <1>6, <2>1, <3>2, <3>6, Zenon
      <4>2. ~(h + 1 < e)
        BY <3>0, <3>5, <3>6, BlockStart, Zenon
      <4> QED
        BY <1>4, <4>1, <4>2, Zenon
    <3>7. CASE f # e - b
      <4>1. f + 1 \in 1 .. e - b /\ b + (f + 1) - 1 = h + 1 /\ h + 1 < e
        BY <1>3, <3>2, <3>5, <3>7
      <4>2. block[f + 1] = log[h + 1]
        BY <2>1, <4>1
      <4>3. R!NofKo(block) = IF log[h + 1].value = R!None THEN 0 ELSE log[h + 1].value
        BY <1>6, <2>1, <2>7, <3>2, <3>7, <4>2, Zenon
      <4> QED
        BY <1>4, <1>8, <4>1, <4>3, Zenon
    <3> QED
      BY <3>6, <3>7
  <2> QED
    BY <2>6, <2>7
<1> QED
  BY <1>3, <1>7, <1>8

\* What is reported of the links.
LEMMA LinksRead ==
    ASSUME LinksAre(seen, state), NEW d \in R!Directions
    PROVE  LET start == R!LastBefore(Len(seen) + 1, LAMBDA l : l.names = d)
               end == R!FirstAfter(start, LAMBDA l : l.names \in R!Directions)
               headers == R!FirstAfter(start, LAMBDA l : l.bracketed)
               values == headers + 1
           IN  R!NofKo(state.block[d]) = IF start > 0 /\ values < end /\ seen[values].value # R!None
                                         THEN seen[values].value ELSE 0
<1> DEFINE b == BlockFrom(seen, d)
           e == BlockTo(seen, d)
           h == Lowest({i \in DOMAIN seen : i > b /\ seen[i].bracketed}, Len(seen))
<1>1. R!LastBefore(Len(seen) + 1, LAMBDA l : l.names = d) = b
  BY DEF R!LastBefore, BlockFrom, Highest, Naming
<1>2. R!FirstAfter(b, LAMBDA l : l.names \in R!Directions) = e
  BY DEF R!FirstAfter, BlockTo, Lowest, NamingAny
<1>3. R!FirstAfter(b, LAMBDA l : l.bracketed) = h
  BY DEF R!FirstAfter, Lowest
<1> HIDE DEF b, e, h
<1>4. R!NofKo(state.block[d]) = IF b > 0 /\ h + 1 < e /\ seen[h + 1].value # R!None THEN seen[h + 1].value ELSE 0
  BY NofKoIs DEF b, e, h
<1> QED
  BY <1>1, <1>2, <1>3, <1>4
-----------------------------------------------------------------------------
(* Campaigns and their logs, as behaviours.                                *)

\* It holds in every state of a session.
LEMMA ViaviInvariance == MCSpec => [](kind = "viavi" => ViaviInv)
<1>1. MCInit => (kind = "viavi" => ViaviInv)
  BY ViaviInit DEF MCInit
<1>2. (kind = "viavi" => ViaviInv)
        /\ [MCNext]_<<reportVars, ueVars, wsVars, coreVars, execVars, attachVars, viaviVars, reportsVars>>
      => (kind = "viavi" => ViaviInv)'
  <2> SUFFICES ASSUME kind = "viavi" => ViaviInv, kind' = "viavi",
                      [MCNext]_<<reportVars, ueVars, wsVars, coreVars, execVars, attachVars, viaviVars,
                                 reportsVars>>
               PROVE  ViaviInv'
    OBVIOUS
  <2>1. CASE MCNext
    BY <2>1, StepOfViavi, ViaviNext DEF Drivers
  <2>2. CASE UNCHANGED <<reportVars, ueVars, wsVars, coreVars, execVars, attachVars, viaviVars, reportsVars>>
    <3>1. kind' = kind /\ UNCHANGED viaviVars
      BY <2>2 DEF reportVars
    <3> QED
      BY <3>1, ViaviNext
  <2> QED
    BY <2>1, <2>2
<1> QED
  BY <1>1, <1>2, PTL DEF MCSpec

\* The invariant of a log.
LogInv == (kind = "tables" => TablesInv) /\ (kind = "links" => LinksAre(seen, state))

\* It holds before a line was read.
LEMMA LogInit == R!Init => LogInv
<1> SUFFICES ASSUME R!Init PROVE LogInv
  OBVIOUS
<1>1. CASE kind = "tables"
  <2>1. seen = <<>> /\ state = R!TablesStart
    BY <1>1 DEF R!Init
  <2> QED
    BY <1>1, <2>1, TablesInit DEF LogInv
<1>2. CASE kind = "links"
  <2>1. seen = <<>> /\ state = R!LinksStart
    BY <1>2 DEF R!Init
  <2> QED
    BY <1>2, <2>1, LinksInit DEF LogInv
<1> QED
  BY <1>1, <1>2 DEF LogInv

\* The lines of either log.
LEMMA LinesAre ==
    /\ kind = "tables" => R!Lines \subseteq TableLine
    /\ kind = "links" => R!Lines \subseteq LinkLine
<1>1. ASSUME kind = "tables" PROVE R!Lines \subseteq TableLine
  BY <1>1 DEF R!Lines, R!Row, R!None, TableLine, Names
<1>2. ASSUME kind = "links" PROVE R!Lines \subseteq LinkLine
  <2> SUFFICES ASSUME NEW line \in R!Lines PROVE line \in LinkLine
    OBVIOUS
  <2>1. "none" \notin R!Directions
    BY DEF R!Directions
  <2>2. ASSUME NEW d \in R!Directions \cup {"none"}, NEW b \in BOOLEAN, NEW v \in Int, d \in R!Directions => ~b
        PROVE  R!Text(d, b, v) \in LinkLine
    BY <2>2 DEF R!Text, LinkLine
  <2>3. \/ \E d \in R!Directions : line = R!Text(d, FALSE, R!None)
        \/ \E v \in {R!None, 3, 5} : line = R!Text("none", FALSE, v)
        \/ line = R!Text("none", TRUE, R!None)
    BY <1>2 DEF R!Lines
  <2>4. R!None \in Int
    BY DEF R!None
  <2>5. CASE \E d \in R!Directions : line = R!Text(d, FALSE, R!None)
    BY <2>2, <2>4, <2>5
  <2>6. CASE \E v \in {R!None, 3, 5} : line = R!Text("none", FALSE, v)
    <3>0. {R!None, 3, 5} \subseteq Int
      BY <2>4
    <3>1. PICK v \in Int : line = R!Text("none", FALSE, v)
      BY <2>6, <3>0, Zenon
    <3>2. R!Text("none", FALSE, v) \in LinkLine
      BY <2>1, <2>2
    <3> QED
      BY <3>1, <3>2
  <2>7. CASE line = R!Text("none", TRUE, R!None)
    BY <2>1, <2>2, <2>4, <2>7
  <2> QED
    BY <2>3, <2>5, <2>6, <2>7
<1> QED
  BY <1>1, <1>2

\* A line more keeps it.
LEMMA LogNext == ASSUME LogInv, R!Next PROVE LogInv'
<1>1. kind' = kind
  BY DEF R!Next
<1>2. CASE kind = "tables"
  <2>1. PICK line \in R!Lines : seen' = Append(seen, line) /\ state' = R!ReadTableLine(state, line)
    BY <1>2 DEF R!Next
  <2> QED
    BY <1>1, <1>2, <2>1, LinesAre, TablesNext DEF LogInv
<1>3. CASE kind = "links"
  <2>1. PICK line \in R!Lines : seen' = Append(seen, line) /\ state' = R!ReadLinkLine(state, line)
    BY <1>3 DEF R!Next
  <2>2. LinksAre(seen, state) /\ line \in LinkLine
    BY <1>3, <2>1, LinesAre DEF LogInv
  <2>3. LinksAre(seen', state')
    BY <2>1, <2>2, LinkStep
  <2> QED
    BY <1>1, <1>3, <2>3 DEF LogInv
<1> QED
  BY <1>1, <1>2, <1>3 DEF LogInv

\* It holds in every state of a log.
LEMMA LogInvariance == MCSpec => [](kind \in LogKinds => LogInv)
<1>1. MCInit => (kind \in LogKinds => LogInv)
  BY LogInit, KindsAssumption DEF MCInit, Init, C!Init
<1>2. (kind \in LogKinds => LogInv)
        /\ [MCNext]_<<reportVars, ueVars, wsVars, coreVars, execVars, attachVars, viaviVars, reportsVars>>
      => (kind \in LogKinds => LogInv)'
  <2> SUFFICES ASSUME kind \in LogKinds => LogInv, kind' \in LogKinds,
                      [MCNext]_<<reportVars, ueVars, wsVars, coreVars, execVars, attachVars, viaviVars,
                                 reportsVars>>
               PROVE  LogInv'
    OBVIOUS
  <2>1. CASE MCNext
    BY <2>1, StepOfViavi, LogNext
  <2>2. CASE UNCHANGED <<reportVars, ueVars, wsVars, coreVars, execVars, attachVars, viaviVars, reportsVars>>
    <3>1. kind' = kind /\ seen' = seen /\ state' = state
      BY <2>2 DEF reportVars
    <3>2. Opened' = Opened /\ Ended' = Ended
      BY <3>1 DEF Opened, Ended, R!Opens, R!Ends, R!FirstAfter
    <3> QED
      BY <3>1, <3>2 DEF LogInv, TablesInv
  <2> QED
    BY <2>1, <2>2
<1> QED
  BY <1>1, <1>2, PTL DEF MCSpec

-----------------------------------------------------------------------------
\* A test that passes has seen its own campaign pass and its gNB stop, unless it has run out of
\* time; and what is reported of a log is what its tables and its last blocks say.  For any number
\* of tests, errors and lines.
THEOREM CampaignsAreJudged == MCSpec => []CampaignsEnd
<1>1. (kind = "viavi" => ViaviInv) => (kind = "viavi" => V!VerdictIsEarned)
  BY ViaviEnds
<1>2. (kind \in LogKinds => LogInv) => (kind \in LogKinds => R!LogIsRead)
  <2> SUFFICES ASSUME LogInv PROVE R!LogIsRead
    OBVIOUS
  <2>1. ASSUME kind = "tables"
        PROVE  /\ \A k \in DOMAIN R!Tables : k \in DOMAIN state.result <=> R!Ends[k] <= Len(seen)
               /\ \A k \in DOMAIN state.result :
                    LET lines == {i \in DOMAIN seen : R!Opens(k) < i /\ i <= R!Ends[k]}
                    IN  /\ DOMAIN state.result[k] = {seen[i].name : i \in lines}
                        /\ \A i \in lines : (\A j \in lines : seen[j].name = seen[i].name => j <= i)
                                            => state.result[k][seen[i].name] = seen[i].value
    <3>1. TablesInv
      BY <2>1 DEF LogInv
    <3> QED
      BY <3>1, TablesRead
  <2>2. ASSUME kind = "links", NEW d \in R!Directions
        PROVE  LET start == R!LastBefore(Len(seen) + 1, LAMBDA l : l.names = d)
                   end == R!FirstAfter(start, LAMBDA l : l.names \in R!Directions)
                   headers == R!FirstAfter(start, LAMBDA l : l.bracketed)
                   values == headers + 1
               IN  R!NofKo(state.block[d]) = IF start > 0 /\ values < end /\ seen[values].value # R!None
                                             THEN seen[values].value ELSE 0
    <3>1. LinksAre(seen, state)
      BY <2>2 DEF LogInv
    <3> QED
      BY <3>1, LinksRead
  <2> QED
    BY <2>1, <2>2, Zenon DEF R!LogIsRead
<1>3. (kind = "viavi" => V!VerdictIsEarned) /\ (kind \in LogKinds => R!LogIsRead) => CampaignsEnd
  BY DEF CampaignsEnd
<1> QED
  BY <1>1, <1>2, <1>3, ViaviInvariance, LogInvariance, PTL
=============================================================================
