---------------------------- MODULE MCReservation ----------------------------
(***************************************************************************)
(* Booking and Matching for TLC: a behaviour is one of the two.            *)
(***************************************************************************)
EXTENDS Booking, Matching, TLC

C == INSTANCE MCClusters

MCInfos == C!MCInfos
MCPools == C!MCPools

Test(user, name, node) == [kind |-> "test", user |-> user, names |-> <<name>>, node |-> node]
Reserve(user, list) == [kind |-> "reserve", user |-> user, names |-> list]
Release(user, list) == [kind |-> "release", user |-> user, names |-> list]
Demolish(of) == [kind |-> "demolish", user |-> "admin", names |-> <<>>, of |-> of]

MCJobs == {Test("ann", "sdr1", "n1"), Reserve("ann", <<"sdr1", "n1">>), Reserve("bob", <<"sdr1">>), Reserve("bob", <<"n1">>),
           Release("ann", <<"sdr1", "n1">>), Demolish("ann"), Demolish("everyone")}

\* A user asks for the lock of the own test, and for two nodes.
ByHand == {Test("ann", "sdr1", "n1"), Reserve("ann", <<"sdr1">>), Reserve("bob", <<"n1", "n2">>)}

NoBooking ==
    /\ job = <<>> /\ pc = <<>> /\ at = <<>> /\ alive = <<>> /\ doomed = <<>> /\ current = <<>> /\ listed = <<>>
    /\ configMaps = {} /\ deployments = {} /\ pods = {} /\ claims = {} /\ quiet = {} /\ crashes = 0

NoMatching ==
    /\ info = <<>> /\ pool = <<>> /\ dict = <<>> /\ others = {} /\ locks = {} /\ given = <<>> /\ specs = <<>>
    /\ place = Failed /\ changes = 0

\* One command that frees, against the others.
OneFrees == \A p, q \in Process : {job[p].kind, job[q].kind} \subseteq {"release", "demolish"} => p = q

MCInit == (MatchingInit /\ NoBooking) \/ (Init /\ NoMatching /\ OneFrees)
MCNext == (job = <<>> /\ MatchingNext /\ UNCHANGED vars) \/ (job # <<>> /\ Next /\ UNCHANGED matchingVars)
MCSpec == MCInit /\ [][MCNext]_<<vars, matchingVars>>

Symmetric == Permutations(Process)
=============================================================================
