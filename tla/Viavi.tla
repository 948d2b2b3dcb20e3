-------------------------------- MODULE Viavi --------------------------------
(***************************************************************************)
(* A session of tests against the Viavi emulator: the fixture viavi of the *)
(* launcher (public.py), the test that runs a campaign (e2e/tests/viavi.py) *)
(* and the client of the emulator's REST API (viavi/client.py).            *)
(*                                                                         *)
(* The emulator runs a TMA process, which runs campaigns; the client calls *)
(* it, polls it, and every call may be answered with an HTTP error, not in *)
(* time, or not at all.  An exception travels as in Python: a finally that *)
(* raises replaces it.  Time is an action: any wait with a deadline may    *)
(* end with it.                                                            *)
(***************************************************************************)
EXTENDS Naturals

CONSTANTS
    Levels,      \* the progress, in percent, a running test is polled at
    Threshold,   \* a progress that may be of the teardown (80)
    Patience,    \* polls at one progress that tell the teardown is near (60)
    MaxTests,    \* tests of the session
    MaxErrors    \* calls that fail

VARIABLES
    emulator,    \* the TMA: [up, status, progress, of], of: the test whose campaign it is
    session,     \* the test process: see Init
    errors

viaviVars == <<emulator, session, errors>>

NoTma == [up |-> FALSE, status |-> "nothing", progress |-> 0, of |-> 0]

\* at      the next call of the process          nth      the test it is in
\* info    the last CampaignInfo                 held     running_time
\* last    last_campaign.progress                raised   the exception on its way
\* gnb     the gNB of the test                   clean    it has stopped without an error
\* aborted the test has run out of time          verdict  what pytest reported
\* kpis    the test whose report they are of     core     the core of the emulator
Init ==
    /\ emulator = NoTma
    /\ session = [at |-> "idle", nth |-> 0, info |-> [status |-> "nothing", progress |-> 0, of |-> 0],
                  held |-> 0, last |-> 0, raised |-> "none", gnb |-> "off", clean |-> FALSE,
                  aborted |-> FALSE, verdict |-> "none", kpis |-> 0, core |-> "up"]
    /\ errors = 0

At(p) == session.at = p
Goto(p) == session' = [session EXCEPT !.at = p]
Raise(e, p) == session' = [session EXCEPT !.at = p, !.raised = e]

-----------------------------------------------------------------------------
(* The emulator.                                                           *)

\* What get_running_campaign_info makes of the answer: an answer none of its expressions matches
\* is read as no campaign, and a test that is over as a campaign at 100%.
InfoOf(e) ==
    [status |-> CASE e.status \in {"tested", "stopping"} -> "running"
                  [] e.status = "odd" -> "nothing"
                  [] OTHER -> e.status,
     progress |-> IF e.status \in {"tested", "pass", "fail"} THEN 100 ELSE e.progress,
     of |-> e.of]

\* What the emulator may say next of a campaign: its tests run one after the other, then it is over.
Follows(e) ==
    CASE e.status \in {"waiting", "odd"} -> {<<"running", 0>>}
      [] e.status = "running" -> {<<"running", p>> : p \in {l \in Levels : l > e.progress}}
                                     \cup {<<"tested", 0>>, <<"odd", 0>>, <<"fail", 0>>}
      [] e.status = "tested" -> {<<"running", 0>>, <<"pass", 0>>, <<"fail", 0>>}
      [] e.status = "stopping" -> {<<"fail", 0>>, <<"nothing", 0>>}
      [] OTHER -> {}

CampaignMoves ==
    /\ emulator.up
    /\ \E f \in Follows(emulator) : emulator' = [emulator EXCEPT !.status = f[1], !.progress = f[2]]
    /\ UNCHANGED <<session, errors>>

\* How a call ends: answered, with an HTTPError, with a TimeoutError (ReadTimeout), or with
\* another error of requests or of SSH, which nothing in this code catches by name.
Answered == emulator.up /\ UNCHANGED errors
CallFails(e) ==
    \/ e = "http" /\ ~emulator.up /\ UNCHANGED errors
    \/ e \in {"http", "timeout", "other"} /\ errors < MaxErrors /\ errors' = errors + 1

\* delete_tma: the DELETE, whose failure is ignored, then the kill over SSH, whose failure is logged.
DeleteTma ==
    \E refused \in BOOLEAN, unkilled \in BOOLEAN :
        /\ errors + (IF refused THEN 1 ELSE 0) + (IF unkilled THEN 1 ELSE 0) <= MaxErrors
        /\ errors' = errors + (IF refused THEN 1 ELSE 0) + (IF unkilled THEN 1 ELSE 0)
        /\ emulator' = IF refused /\ unkilled THEN emulator ELSE NoTma

\* restart_core: three hops of SSH, a stop and a start; whatever fails is logged only.
CoreAfterRestart == {"up"} \cup (IF errors < MaxErrors THEN {session.core, "down"} ELSE {})

-----------------------------------------------------------------------------
(* The fixture, up to its yield.                                           *)

BeginFixture ==
    /\ At("idle") /\ session.nth < MaxTests
    /\ DeleteTma
    /\ session' = [session EXCEPT !.at = "create", !.nth = @ + 1, !.raised = "none", !.gnb = "off",
                                  !.clean = FALSE, !.aborted = FALSE, !.verdict = "none", !.kpis = 0,
                                  !.held = 0, !.last = 0]

CreateTma ==
    /\ At("create")
    /\ \E c \in CoreAfterRestart :
        \/ /\ ~emulator.up
           /\ emulator' = [NoTma EXCEPT !.up = TRUE]
           /\ session' = [session EXCEPT !.at = "get", !.core = c]
           /\ UNCHANGED errors
        \/ /\ emulator.up
           /\ session' = [session EXCEPT !.at = "exit", !.core = c, !.raised = "http"]
           /\ UNCHANGED <<emulator, errors>>
        \/ /\ errors < MaxErrors /\ errors' = errors + 1
           /\ \E e \in {"http", "timeout", "other"} :
                session' = [session EXCEPT !.at = "exit", !.core = c, !.raised = e]
           /\ emulator' \in {emulator, [emulator EXCEPT !.up = TRUE]}

GetTma ==
    /\ At("get")
    /\ \/ Answered /\ Goto("gnb")
       \/ \E e \in {"http", "timeout", "other"} : CallFails(e) /\ Raise(e, "exit")
    /\ UNCHANGED emulator

-----------------------------------------------------------------------------
(* The test.                                                               *)

\* A gNB that does not start (its AMF is in the core of the emulator) fails the test.
StartGnb ==
    /\ At("gnb")
    /\ \/ session.core = "up" /\ session' = [session EXCEPT !.at = "schedule", !.gnb = "on"]
       \/ Raise("fail", "exit")
    /\ UNCHANGED <<emulator, errors>>

\* A POST that is not answered in time raises RuntimeError.
PostError(e) == IF e = "timeout" THEN "runtime" ELSE e

ScheduleCampaign ==
    /\ At("schedule")
    /\ \/ Answered /\ Goto("run")
       \/ \E e \in {"http", "timeout", "other"} : CallFails(e) /\ Raise(PostError(e), "exit")
    /\ UNCHANGED emulator

Launched == [emulator EXCEPT !.status = "waiting", !.progress = 0, !.of = session.nth]

RunCampaign ==
    /\ At("run")
    /\ \/ Answered /\ emulator' = Launched /\ Goto("confirm")
       \/ \E e \in {"http", "timeout", "other"} :
            /\ CallFails(e)
            /\ emulator' \in {emulator} \cup (IF e # "http" THEN {Launched} ELSE {})
            /\ Raise(PostError(e), "exit")

\* The loop of run_campaign: until the emulator answers, with whatever status.
ConfirmCampaign ==
    /\ At("confirm")
    /\ \/ Answered /\ Goto("teardown")
       \/ CallFails("http") /\ UNCHANGED session
       \/ \E e \in {"timeout", "other"} : CallFails(e) /\ Raise(e, "exit")
       \/ UNCHANGED errors /\ Raise("timeout", "exit")
    /\ UNCHANGED emulator

Over(info) == info.status \in {"nothing", "pass", "fail"}

\* One turn of a wait that polls until the campaign is over, or its deadline: Read(info) is what it
\* does with an answer, Broken(e) with an exception, its own TimeoutError included.
Poll(Read(_), Broken(_)) ==
    /\ UNCHANGED emulator
    /\ \/ Answered /\ Read(InfoOf(emulator))
       \/ \E e \in {"http", "timeout", "other"} : CallFails(e) /\ Broken(e)
       \/ UNCHANGED errors /\ Broken("timeout")

\* wait_until_running_campaign_teardown: a progress over the threshold that stays, then grows.
TeardownRead(info) ==
    LET late == info.status = "running" /\ info.progress >= Threshold
        near == late /\ info.progress > session.last /\ session.held > Patience
        held == CASE late /\ info.progress = session.last ->
                        IF session.held > Patience THEN session.held ELSE session.held + 1
                  [] late /\ info.progress > session.last -> 0
                  [] OTHER -> session.held
    IN session' = [session EXCEPT !.info = info, !.last = info.progress, !.held = held,
                                  !.at = IF near \/ Over(info) THEN "stop" ELSE "teardown"]

\* The except clause of the test takes a TimeoutError only: it stops the campaign and goes on.
Caught(e) == IF e = "timeout" THEN session' = [session EXCEPT !.at = "abort", !.raised = "none"]
             ELSE Raise(e, "report")

AwaitTeardown == At("teardown") /\ Poll(TeardownRead, Caught)

\* stop(): an error of the gNB fails the test, after the finally has waited for the campaign.
StopGnb ==
    /\ At("stop")
    /\ \E clean \in BOOLEAN :
        session' = [session EXCEPT !.at = "finish", !.gnb = "off", !.clean = clean,
                                   !.raised = IF clean THEN "none" ELSE "fail"]
    /\ UNCHANGED <<emulator, errors>>

\* Variant for the mutation runs: a campaign that is over is good.
JudgedLeniently(info) == IF info.status = "fail" THEN "fail" ELSE session.raised

Judged(info) == IF info.status = "pass" THEN session.raised ELSE "fail"

FinishRead(info) ==
    session' = IF Over(info)
               THEN [session EXCEPT !.at = "report", !.info = info, !.raised = Judged(info)]
               ELSE [session EXCEPT !.info = info]

AwaitFinish == At("finish") /\ Poll(FinishRead, Caught)

\* The POST of stop_running_campaign.  Failed(e) is what its caller does with an exception.
PostStop(next, Failed(_)) ==
    \/ /\ Answered /\ Goto(next)
       /\ emulator' = IF Over(InfoOf(emulator)) /\ emulator.status # "odd" THEN emulator
                      ELSE [emulator EXCEPT !.status = "stopping"]
    \/ \E e \in {"http", "timeout", "other"} : CallFails(e) /\ Failed(PostError(e)) /\ UNCHANGED emulator

\* A wait of stop_running_campaign that goes on until the campaign is over.
StopRead(next, info) == IF Over(info) THEN Goto(next) ELSE UNCHANGED session

Escapes(e) == Raise(e, "report")
AbortRead(info) ==
    IF Over(info) THEN session' = [session EXCEPT !.at = "report", !.aborted = TRUE] ELSE UNCHANGED session

AbortCampaign == At("abort") /\ PostStop("abortwait", Escapes)
AwaitAbort == At("abortwait") /\ Poll(AbortRead, Escapes)

\* generate_report: both loops repeat on an HTTPError, up to the deadline; then the folder is
\* fetched, and the KPIs are those of its log, or the default ones when no log has a table.
GenerateReport ==
    /\ At("report")
    /\ \/ Answered /\ \E k \in {0, session.nth} : session' = [session EXCEPT !.at = "again", !.kpis = k]
       \/ \E e \in {"timeout", "other"} : CallFails(e) /\ Raise(e, "again")
       \/ UNCHANGED errors /\ Raise("timeout", "again")
    /\ UNCHANGED emulator

\* _stop_stub, whose answer nobody reads, and criteria.validate.
StopAgainAndJudge ==
    /\ At("again")
    /\ \E good \in BOOLEAN :
        LET raised == IF good THEN session.raised ELSE "fail"
        IN session' = [session EXCEPT !.at = "exit", !.gnb = "off", !.raised = raised,
                                      !.verdict = IF raised = "none" THEN "passed" ELSE "failed"]
    /\ UNCHANGED <<emulator, errors>>

-----------------------------------------------------------------------------
(* The finally of the fixture: stop the campaign, ask how it ended, delete. *)

\* Only an HTTPError is suppressed; another one leaves the fixture, past the deletion of the TMA.
Suppressed(e) == Goto(IF e = "http" THEN "delete" ELSE "idle")

StopRunning == At("exit") /\ PostStop("exitwait", LAMBDA e : Suppressed(e))
AwaitStopped == At("exitwait") /\ Poll(LAMBDA i : StopRead("status", i), LAMBDA e : Suppressed(e))

\* A campaign that failed has the artifacts downloaded.
ReadStatus ==
    /\ At("status")
    /\ \/ Answered /\ Goto("delete")
       \/ \E e \in {"http", "timeout", "other"} : CallFails(e) /\ Suppressed(e)
    /\ UNCHANGED emulator

EndFixture == At("delete") /\ DeleteTma /\ Goto("idle")

Next ==
    \/ CampaignMoves
    \/ BeginFixture \/ CreateTma \/ GetTma
    \/ StartGnb \/ ScheduleCampaign \/ RunCampaign \/ ConfirmCampaign \/ AwaitTeardown \/ StopGnb
    \/ AwaitFinish \/ AbortCampaign \/ AwaitAbort \/ GenerateReport \/ StopAgainAndJudge
    \/ StopRunning \/ AwaitStopped \/ ReadStatus \/ EndFixture

Spec == Init /\ [][Next]_viaviVars

-----------------------------------------------------------------------------
(* Properties.                                                             *)

\* A test that passes has seen its gNB stop without an error and its own campaign pass, with KPIs
\* of its own or the default ones; or it has run out of time, which only warns (e2e/tests/viavi.py).
VerdictIsEarned ==
    session.verdict = "passed" =>
        /\ ~session.aborted =>
            session.clean /\ session.info.status = "pass" /\ session.info.of = session.nth
        /\ session.kpis \in {0, session.nth}
=============================================================================
