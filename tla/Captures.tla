------------------------------- MODULE Captures -------------------------------
(***************************************************************************)
(* run_analyzers (src/retina/agent, features/pcap/analyzer.py) on the      *)
(* captures of a driver: the packets reach the analyzers whose display     *)
(* filter they pass, one after the other; tshark may fail on a filter      *)
(* half-way, and then its analyzers report what they have.  The analyzers  *)
(* do not depend on each other, so each behaviour is about the few of one  *)
(* kind.  The DU reads a MAC and an RLC capture with some of the same      *)
(* analyzers and merges the reports.                                       *)
(***************************************************************************)
EXTENDS PcapAnalyzers, FiniteSetsExt

CONSTANTS
    Kinds,        \* which of the kinds of capture are explored
    MaxPackets    \* bound: packets in the captures; fewer where there are many to choose from

VARIABLES
    kind,      \* which analyzers run
    seen,      \* the packets so far: <<file, packet>>
    state,     \* <<file, analyzer>> -> what it remembers
    cut        \* <<file, analyzer>> -> packets after which tshark failed, -1: it has not

vars == <<kind, seen, state, cut>>

Elements(S) == {[e \in T |-> TRUE] : T \in SUBSET S}
Maybe(field, V) == {[f \in {field} |-> v] : v \in V} \cup {<<>>}
Join(p, q) == [f \in DOMAIN p \cup DOMAIN q |-> IF f \in DOMAIN p THEN p[f] ELSE q[f]]
Product(P, Q) == {Join(p, q) : p \in P, q \in Q}
Field(field, V) == {[f \in {field} |-> v] : v \in V}

\* The counters of all the modules, and the two of rrc.py that are alone.
Counters == [n \in DOMAIN E1apCounters \cup DOMAIN XnapCounters \cup DOMAIN NrppaCounters
                   \cup DOMAIN TrpCounters \cup DOMAIN NgapCounters
                   \cup DOMAIN SuspendResumeCounters \cup {"Handover", "Paging"} |->
    CASE n \in DOMAIN E1apCounters -> E1apCounters[n]
      [] n \in DOMAIN XnapCounters -> XnapCounters[n]
      [] n \in DOMAIN NrppaCounters -> NrppaCounters[n]
      [] n \in DOMAIN TrpCounters -> TrpCounters[n]
      [] n \in DOMAIN NgapCounters -> NgapCounters[n]
      [] n \in DOMAIN SuspendResumeCounters -> SuspendResumeCounters[n]
      [] n = "Handover" -> Handover
      [] n = "Paging" -> Paging]

\* The captures of each kind, and the analyzers that read them.
DuAnalyzers == {"T312", "SrsFreqDomain", "DrxLongCycle"}
Runs(k) ==
    CASE k = "du"      -> ({"mac"} \X (DuAnalyzers \cup {"PrachConfigIndex"})) \cup ({"rlc"} \X DuAnalyzers)
      [] k = "ngap"    -> {"ngap"} \X {"ServiceAcceptPerAmf", "DuplicateRanUeNgapId"}
      [] k = "amf"     -> {"ngap"} \X {"RegistrationAcceptPerAmf", "ECidMeasurementResultWithAoa"}
      [] k = "koffset" -> {"mac"} \X {"DifferentialKoffset"}
      [] k = "drb"     -> {"rlc"} \X {"DrbTraffic"}
      [] k = "csrnti"  -> {"mac"} \X {"CsRnti"}
      [] k = "rrc"     -> {"f1ap"} \X {"Reestablishment", "MeasGap", "ConfiguredGrant"}
      [] k = "sib"     -> {"mac"} \X {"Sib", "RlmConfig"}
      [] k = "counters" -> {"cucp"} \X (DOMAIN Counters \cup DOMAIN Flags)

\* The packets that tell the analyzers of the kind apart.
Packets(k) ==
    CASE k = "du" ->
            Field("t312", {0, 1}) \cup Product(Field("t312", {1}), Field("duration", {0, 3}))
            \cup Field("c_SRS", {5}) \cup Field("b_SRS", {2})
            \cup Product(Field("c_SRS", {0}), Field("b_SRS", {0}))
            \cup Field("drx", {0, 2}) \cup Field("prach", {0, 4})
      [] k = "ngap" ->
            Product(Field("ranUeId", {1, 2}),
                    Field("initial", {TRUE}) \cup Field("serviceAccept", {TRUE}) \cup Field("release", {TRUE})
                    \cup Product(Field("serviceRequest", {TRUE}), Field("amfPointer", {7})))
            \cup Product(Product(Field("ranUeId", {1}), Field("serviceRequest", {TRUE})), Maybe("amfPointer", {8}))
            \cup Field("serviceAccept", {TRUE})
      [] k = "amf"     -> Product(Maybe("registrationAccept", {TRUE}), Maybe("amfPointer", {7, 8}))
                          \cup Elements({"ecidResponse", "ecidReport", "aoa"})
      [] k = "koffset" -> Field("koffset", {0, 1, 2})
      [] k = "drb"     -> Product({[bearer |-> 1, direction |-> 0], [bearer |-> 1, direction |-> 1],
                                   [bearer |-> 2, direction |-> 0]}, Field("length", {0, 3}))
      [] k = "csrnti"  -> Product(Field("csRnti", [{1} -> {0, 1}] \cup [{1, 3} -> {0, 1}]),
                                  Field("setup", UNION {[S -> {9, 65520}] : S \in {{}, {0}, {2}, {0, 2}, {0, 3}}}))
      [] k = "rrc"     -> Elements({"reestRequest", "reestComplete"}) \cup Field("gapUE", {0, 1, 2})
                          \cup Product(Field("cg", {TRUE}), Elements({"rrcGrant"}))
      [] k = "sib"     -> Field("sibs", {{1}, {2, 19}, {}})
                          \cup Field("detection", {<<"ssb">>, <<"csi", "ssb", "csi">>, <<"other">>})
      [] k = "counters" -> {[e \in Counters[n] |-> TRUE] : n \in DOMAIN Counters}
                          \cup {[e \in Flags[n] |-> TRUE] : n \in DOMAIN Flags}

\* The display filters.
Passes(n, p) ==
    CASE n \in DOMAIN Counters -> Counters[n] \subseteq DOMAIN p
      [] n \in DOMAIN Flags -> Flags[n] \subseteq DOMAIN p
      [] n = "ServiceAcceptPerAmf" -> {"serviceRequest", "serviceAccept", "release"} \cap DOMAIN p # {}
      [] n = "DuplicateRanUeNgapId" -> {"initial", "release"} \cap DOMAIN p # {}
      [] n = "RegistrationAcceptPerAmf" -> Has(p, "registrationAccept")
      [] n = "ECidMeasurementResultWithAoa" -> AoaResult(p)
      [] n = "PrachConfigIndex" -> Has(p, "prach")
      [] n = "DrxLongCycle" -> Has(p, "drx")
      [] n = "SrsFreqDomain" -> {"c_SRS", "b_SRS"} \cap DOMAIN p # {}
      [] n = "T312" -> Has(p, "t312")
      [] n = "DifferentialKoffset" -> Has(p, "koffset")
      [] n = "DrbTraffic" -> Has(p, "bearer")
      [] n = "CsRnti" -> \E i \in DOMAIN p["csRnti"] : p["csRnti"][i] = 1
      [] n = "Reestablishment" -> {"reestRequest", "reestComplete"} \cap DOMAIN p # {}
      [] n = "MeasGap" -> Has(p, "gapUE")
      [] n = "ConfiguredGrant" -> Has(p, "cg")
      [] n = "Sib" -> Has(p, "sibs") /\ p["sibs"] # {}
      [] n = "RlmConfig" -> Has(p, "detection")

\* __init__.
Start(n) ==
    CASE n \in DOMAIN Counters \cup {"ECidMeasurementResultWithAoa", "CsRnti"} -> 0
      [] n \in DOMAIN Flags -> FALSE
      [] n = "ServiceAcceptPerAmf" -> [pending |-> <<>>, accepted |-> <<>>]
      [] n = "DuplicateRanUeNgapId" -> [active |-> {}, count |-> 0]
      [] n = "PrachConfigIndex" -> -1
      [] n = "T312" -> -1
      [] n = "DrxLongCycle" -> {}
      [] n = "SrsFreqDomain" -> [c |-> -1, b |-> -1]
      [] n \in {"DifferentialKoffset", "DrbTraffic", "RegistrationAcceptPerAmf"} -> <<>>
      [] n = "Reestablishment" -> ReestablishmentNone
      [] n = "MeasGap" -> [setups |-> 0, releases |-> 0]
      [] n = "ConfiguredGrant" -> [type1 |-> 0, type2 |-> 0]
      [] n = "Sib" -> [i \in Sibs |-> 0]
      [] n = "RlmConfig" -> [ssb |-> 0, csi |-> 0]

\* process.
Process(n, s, p) ==
    CASE n \in DOMAIN Counters \cup {"ECidMeasurementResultWithAoa"} -> s + 1
      [] n \in DOMAIN Flags -> TRUE
      [] n = "ServiceAcceptPerAmf" -> ServiceAcceptPerAmf(s, p)
      [] n = "DuplicateRanUeNgapId" -> DuplicateRanUeNgapId(s, p)
      [] n = "RegistrationAcceptPerAmf" -> RegistrationAcceptPerAmf(s, p)
      [] n = "PrachConfigIndex" -> PrachConfigIndex(s, p)
      [] n = "DrxLongCycle" -> DrxLongCycle(s, p)
      [] n = "SrsFreqDomain" -> SrsFreqDomain(s, p)
      [] n = "T312" -> T312(s, p)
      [] n = "DifferentialKoffset" -> DifferentialKoffset(s, p)
      [] n = "DrbTraffic" -> DrbTraffic(s, p)
      [] n = "CsRnti" -> CsRnti(s, p)
      [] n = "Reestablishment" -> Reestablishment(s, p)
      [] n = "MeasGap" -> MeasGap(s, p)
      [] n = "ConfiguredGrant" -> ConfiguredGrant(s, p)
      [] n = "Sib" -> Sib(s, p)
      [] n = "RlmConfig" -> RlmConfig(s, p)

Init ==
    /\ kind \in Kinds
    /\ seen = <<>>
    /\ state = [r \in Runs(kind) |-> Start(r[2])]
    /\ cut = [r \in Runs(kind) |-> -1]

Longest ==
    CASE kind \in {"csrnti", "counters"} -> MaxPackets - 2
      [] kind \in {"du", "amf", "rrc", "sib", "drb"} -> MaxPackets - 1
      [] OTHER -> MaxPackets

\* The packets of a capture are in the order of their time stamps.
Stamped(p) == IF kind = "drb" THEN {Join(p, [time |-> t]) : t \in {Len(seen), 2 * Len(seen)}} ELSE {p}

Packet(file, p) ==
    /\ Len(seen) < Longest
    /\ seen' = Append(seen, <<file, p>>)
    /\ state' = [r \in DOMAIN state |->
                    IF r[1] = file /\ cut[r] < 0 /\ Passes(r[2], p) THEN Process(r[2], state[r], p)
                                                                  ELSE state[r]]
    /\ UNCHANGED <<kind, cut>>

\* tshark ends with an error: the analyzers of that filter keep what they have.
\* Bound: at most once, after the first packets, and for the DU in the RLC capture.
TSharkFails(r) ==
    /\ \A q \in DOMAIN cut : cut[q] < 0
    /\ kind \notin {"counters", "csrnti"} /\ (kind = "du" => r[1] = "rlc") /\ Len(seen) = Longest - 2
    /\ cut' = [cut EXCEPT ![r] = Len(seen)]
    /\ UNCHANGED <<kind, seen, state>>

Next ==
    \/ \E r \in DOMAIN state, p \in Packets(kind) : \E q \in Stamped(p) : Packet(r[1], q)
    \/ \E r \in DOMAIN cut : TSharkFails(r)

Spec == Init /\ [][Next]_vars

-----------------------------------------------------------------------------
(* report, and the merge of the reports of the two captures of the DU.     *)

\* protobuf's MergeFrom: a field that is not its default replaces what was there.
Overlay(old, new) == IF new = Unset THEN old ELSE new

Drx(r) == IF state[r] = {} THEN 0 ELSE CHOOSE v \in state[r] : TRUE

DuReport ==
    [prach |-> state[<<"mac", "PrachConfigIndex">>],
     t312  |-> Overlay(state[<<"mac", "T312">>], state[<<"rlc", "T312">>]),
     c_SRS |-> Overlay(state[<<"mac", "SrsFreqDomain">>].c, state[<<"rlc", "SrsFreqDomain">>].c),
     b_SRS |-> Overlay(state[<<"mac", "SrsFreqDomain">>].b, state[<<"rlc", "SrsFreqDomain">>].b),
     drx   |-> Overlay(Drx(<<"mac", "DrxLongCycle">>), Drx(<<"rlc", "DrxLongCycle">>))]

-----------------------------------------------------------------------------
(* What the reports should be, from all the packets that were read.        *)

\* The positions of the packets the analyzer was given.
Read(r) == {i \in 1 .. (IF cut[r] < 0 THEN Len(seen) ELSE cut[r]) :
                seen[i][1] = r[1] /\ Passes(r[2], seen[i][2])}
At(i) == seen[i][2]
SameUe(i, j) == "ranUeId" \in DOMAIN At(i) /\ "ranUeId" \in DOMAIN At(j) /\ At(i)["ranUeId"] = At(j)["ranUeId"]
Between(r, i, j) == {k \in Read(r) : i < k /\ k < j /\ SameUe(i, k)}
Count(counts, key) == IF key \in DOMAIN counts THEN counts[key] ELSE 0

\* ServiceAcceptPerAmfAnalyzer, DuplicateRanUeNgapIdAnalyzer: a Service Accept is
\* credited to the AMF of the last Service Request of its UE, unless the context was
\* released or the request was accepted before; an InitialUEMessage is a duplicate
\* when an earlier one of its UE was not followed by a release.
NgapFollowsTheUe ==
    kind = "ngap" =>
    LET acc == <<"ngap", "ServiceAcceptPerAmf">>
        dup == <<"ngap", "DuplicateRanUeNgapId">>
        IsRequest(i) == Has(At(i), "serviceRequest") /\ Has(At(i), "amfPointer")
        Credited(i, a) ==
            /\ Has(At(i), "serviceAccept")
            /\ \E j \in Read(acc) :
                /\ j < i /\ SameUe(j, i) /\ IsRequest(j) /\ At(j)["amfPointer"] = a
                /\ \A k \in Between(acc, j, i) : Has(At(k), "serviceRequest") /\ ~IsRequest(k)
        Duplicate(i) ==
            /\ ~Has(At(i), "release")
            /\ \E j \in Read(dup) :
                /\ j < i /\ SameUe(j, i) /\ ~Has(At(j), "release")
                /\ \A k \in Between(dup, j, i) : ~Has(At(k), "release")
    IN  /\ \A a \in {7, 8} :
            Count(state[acc].accepted, a) = Cardinality({i \in Read(acc) : Credited(i, a)})
        /\ state[dup].count = Cardinality({i \in Read(dup) : Duplicate(i)})

\* The merged report of the DU (PrachConfigIndex, T312, SrsFreqDomain, DrxLongCycle):
\* the first value in the capture that was merged last and is not 0; a capture without
\* one counts as -1 for T312 and the SRS, and so hides what the other capture found,
\* and as nothing for DRX.
FirstOf(r, field, Counts(_)) ==
    LET found == {i \in Read(r) : Has(At(i), field) /\ Counts(At(i))}
    IN  IF found = {} THEN {} ELSE {At(Smallest(found))[field]}
DuReportIsFirstFound ==
    kind = "du" =>
    LET Any(p) == TRUE
        IsSetup(p) == p["t312"] = 1
        Merged(n, field, Counts(_), none) ==
            LET mac == FirstOf(<<"mac", n>>, field, Counts)
                rlc == FirstOf(<<"rlc", n>>, field, Counts)
                last == IF rlc = {} THEN {none} ELSE rlc
            IN  IF last = {0} THEN (IF mac = {} THEN {none} ELSE mac) ELSE last
    IN  /\ {DuReport.t312} = Merged("T312", "duration", IsSetup, -1)
        /\ {DuReport.c_SRS} = Merged("SrsFreqDomain", "c_SRS", Any, -1)
        /\ {DuReport.b_SRS} = Merged("SrsFreqDomain", "b_SRS", Any, -1)
        /\ {DuReport.drx} = Merged("DrxLongCycle", "drx", Any, 0)
        /\ LET first == FirstOf(<<"mac", "PrachConfigIndex">>, "prach", Any)
            IN  {DuReport.prach} = IF first = {} THEN {-1} ELSE first

\* DrbTrafficAnalyzer: the bytes of a bearer and direction are those of its packets, and
\* they were carried from the first packet with bytes to the last packet.
\* DifferentialKoffsetAnalyzer: what is recorded are the values at which the capture
\* changes, in order.
TrafficAddsUp ==
    /\ kind = "drb" =>
        LET r == <<"rlc", "DrbTraffic">> IN
        \A bearer \in {1, 2}, direction \in {0, 1} :
            LET mine  == {i \in Read(r) : At(i)["bearer"] = bearer /\ At(i)["direction"] = direction}
                full  == {i \in mine : At(i)["length"] > 0}
                Bytes(i) == At(i)["length"]
                first == IF full = {} THEN Largest(mine) ELSE Smallest(full)
            IN  IF mine = {} THEN <<bearer, direction>> \notin DOMAIN state[r]
                ELSE state[r][<<bearer, direction>>] =
                        [bytes |-> MapThenSumSet(Bytes, mine), from |-> At(first)["time"],
                         to |-> At(Largest(mine))["time"]]
    /\ kind = "koffset" =>
        LET r == <<"mac", "DifferentialKoffset">>
            changes == {i \in Read(r) : i = 1 \/ At(i)["koffset"] # At(i - 1)["koffset"]}
            order == InOrder(changes)
        IN  state[r] = [n \in DOMAIN order |-> At(order[n])["koffset"]]

\* The counters and flags of every module count the packets with their elements, and
\* those that look into a packet count what it says: a cs_RNTI setup counts when the
\* setup field that follows it, with none between, is an RNTI.
CountersCount ==
    LET Number(r, Test(_)) == Cardinality({i \in Read(r) : Test(At(i))}) IN
    \A r \in DOMAIN state :
    CASE r[2] \in DOMAIN Counters ->
            state[r] = Cardinality({i \in Read(r) : Counters[r[2]] \subseteq DOMAIN At(i)})
      [] r[2] \in DOMAIN Flags -> state[r] = (Read(r) # {})
      [] r[2] = "ECidMeasurementResultWithAoa" ->
            state[r] = Number(r, LAMBDA p : Has(p, "aoa"))
      [] r[2] = "RegistrationAcceptPerAmf" ->
            \A a \in {7, 8} : Count(state[r], a) =
                Number(r, LAMBDA p : Has(p, "amfPointer") /\ p["amfPointer"] = a)
      [] r[2] = "CsRnti" ->
            LET Valid(p, f) == /\ p["csRnti"][f] = 1
                               /\ \E q \in DOMAIN p["setup"] :
                                    /\ q >= f /\ p["setup"][q] \in 1 .. 65519
                                    /\ DOMAIN p["setup"] \cap (f .. (q - 1)) = {}
            IN  state[r] = MapThenSumSet(LAMBDA i :
                    Cardinality({f \in DOMAIN At(i)["csRnti"] : Valid(At(i), f)}), Read(r))
      [] r[2] = "Reestablishment" ->
            state[r] = [requests |-> Number(r, LAMBDA p : Has(p, "reestRequest")),
                        completes |-> Number(r, LAMBDA p : Has(p, "reestComplete"))]
      [] r[2] = "MeasGap" ->
            state[r] = [setups |-> Number(r, LAMBDA p : p["gapUE"] = 1),
                        releases |-> Number(r, LAMBDA p : p["gapUE"] = 0)]
      [] r[2] = "ConfiguredGrant" ->
            /\ state[r].type1 + state[r].type2 = Cardinality(Read(r))
            /\ state[r].type1 = Number(r, LAMBDA p : Has(p, "rrcGrant"))
      [] r[2] = "Sib" ->
            \A n \in Sibs : state[r][n] = Number(r, LAMBDA p : n \in p["sibs"])
      [] r[2] = "RlmConfig" ->
            state[r].csi = 2 * Number(r, LAMBDA p : p["detection"] = <<"csi", "ssb", "csi">>)
      [] OTHER -> TRUE

\* What DrbTrafficAnalyzer, DifferentialKoffsetAnalyzer and the counters of every
\* module report is what the packets they read add up to, and the DU report what they say first.
CapturesAddUp == TrafficAddsUp /\ CountersCount /\ DuReportIsFirstFound
=============================================================================
