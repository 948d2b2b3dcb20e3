----------------------------- MODULE MCTestRun -----------------------------
(***************************************************************************)
(* TestRun and PortService for TLC: a behaviour is one of the two.         *)
(***************************************************************************)
EXTENDS PortService, Integers, Sequences

CONSTANT Templates

VARIABLES template, up, sut, client, made, thread, stage, todo, exc, messages, download,
          failures, logged, kept, faults

T == INSTANCE TestRun

FixturesOf(t) == T!ToSet(t.fixtures)

\* What a test is: fixtures of the kinds that the launcher has, criteria of its
\* components, and bearers, counted from the captures, that only a DU reports (the
\* test asks for them where it has one).
ASSUME TemplatesAssumption ==
    \A t \in Templates :
        /\ t.test \in {"ping", "paging", "ue_simulator", "mocn", "iperf", "test_mode"}
        /\ t.fixtures \in Seq([kind : STRING, agents : Seq(STRING), late : BOOLEAN])
        /\ \A f \in FixturesOf(t) : f.kind \in DOMAIN T!LayersOf
        /\ t.criteria \in Seq([layer : STRING, name : STRING, value : Int, bearers : Seq([id : Nat, value : Nat])])
        /\ t.attaches \in Nat
        /\ \A b \in DOMAIN t.seen : t.seen[b] \in Nat
        /\ \A i \in DOMAIN t.criteria :
            t.criteria[i].bearers # <<>> =>
                /\ t.criteria[i].layer = "du"
                /\ t.criteria[i].name \in {"drb_dl_bitrate_gt", "drb_ul_bitrate_gt"}
                /\ \E f \in FixturesOf(t) : f.kind \in {"gnb", "du"} /\ f.agents # <<>>

One(kind, a) == [kind |-> kind, agents |-> <<a>>, late |-> FALSE]
Two(kind, a, b) == [kind |-> kind, agents |-> <<a, b>>, late |-> TRUE]
Named(test, fixtures, ims, attaches, criteria, bound) ==
    [test |-> test, fixtures |-> fixtures, ims |-> ims, attaches |-> attaches, criteria |-> criteria,
     seen |-> <<>>, faults |-> bound]
Criterion(layer, name, value) == [layer |-> layer, name |-> name, value |-> value, bearers |-> <<>>]

\* Two bearers, the second with a minimum; the captures may show one or none.
Bearers ==
    [Criterion("du", "drb_dl_bitrate_gt", 0) EXCEPT !.bearers = <<[id |-> 1, value |-> 0], [id |-> 2, value |-> 1]>>]
Seen == UNION {[ids -> 0..2] : ids \in SUBSET {1, 2}}

Ue == One("ue", "ue1")
Gnb == One("gnb", "gnb1")
Core == One("fivegc", "core1")

MCTemplates == {
    Named("ping", <<Ue, Gnb, Core>>, "", 2, <<Criterion("all", "errors_le", 1)>>, 1),
    Named("ping", <<Ue, Gnb, Core>>, "enabled", 1, <<Criterion("gnb", "errors_le", 0)>>, 1),
    Named("ping", <<Ue, Gnb, Core>>, "disabled", 1, <<>>, 1),
    Named("paging", <<Ue, Gnb, Core>>, "", 1, <<Criterion("du", "nof_ko_dl_le", 0)>>, 1),
    Named("iperf", <<Ue, Gnb, Core, One("ric", "ric1")>>, "", 1, <<Criterion("all", "warnings_le", 0)>>, 1),
    Named("mocn", <<Ue, Gnb, Two("fivegc", "core1", "core2")>>, "", 1, <<Criterion("core", "errors_le", 0)>>, 1),
    Named("test_mode", <<Gnb, Core>>, "", 1, <<>>, 3),
    Named("ue_simulator", <<Ue, One("cu", "cu1"), Two("du", "du1", "du2"), Core>>, "", 1,
          <<Criterion("cu", "warnings_le", 0), Criterion("all", "errors_le", 1)>>, 1),
    Named("ue_simulator", <<Ue, One("cu_cp", "cucp1"), One("cu_up", "cuup1"), One("du", "du1"), Core>>, "", 1,
          <<Criterion("all", "errors_le", 0)>>, 1)}
    \cup {[Named("test_mode", <<Gnb>>, "", 1, <<Bearers>>, 0) EXCEPT !.seen = seen] : seen \in Seen}

testVars == <<template, up, sut, client, made, thread, stage, todo, exc, messages, download,
              failures, logged, kept, faults>>

NoTest ==
    /\ template = Named("none", <<>>, "", 0, <<>>, 0)
    /\ up = {} /\ sut = <<>> /\ client = <<>> /\ made = {} /\ thread = <<>>
    /\ stage = "done" /\ todo = <<>> /\ exc = "none" /\ messages = FALSE /\ download = FALSE
    /\ failures = {} /\ logged = FALSE /\ kept = {} /\ faults = 0

NoPortService ==
    /\ config = "nodePort" /\ deploys = MaxDeploys
    /\ service = "nodePort" /\ doomed = FALSE
    /\ pc = [o \in Orch |-> "up"] /\ wanted = [o \in Orch |-> service] /\ address = wanted
    /\ expired = [o \in Orch |-> FALSE]

MCInit == (Init /\ NoTest) \/ (T!Init /\ NoPortService)
MCNext == (template.test = "none" /\ Next /\ UNCHANGED testVars) \/ (template.test # "none" /\ T!Next /\ UNCHANGED vars)
MCSpec == MCInit /\ [][MCNext]_<<vars, testVars>> /\ Fairness /\ T!Fairness

\* PassedMeansStopped of the test.
PassedMeansStopped == T!PassedMeansStopped
\* JudgedOnce of the test.
JudgedOnce == T!JudgedOnce
\* BearersAreJudged of the test.
BearersAreJudged == T!BearersAreJudged
\* QuietTestsPass of the test.
QuietTestsPass == T!QuietTestsPass
\* TestEnds of the test.
TestEnds == T!TestEnds
=============================================================================
