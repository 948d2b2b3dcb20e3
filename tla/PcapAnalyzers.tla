---------------------------- MODULE PcapAnalyzers ----------------------------
(***************************************************************************)
(* The analyzers of the captures of a gNB (src/retina/agent, features/pcap):*)
(* for each of them which packets reach it, what it remembers of one, and  *)
(* beside it what its report should be, as a function of all the packets.  *)
(*                                                                         *)
(* A packet is a function from the fields and elements the dissector found *)
(* in it to their values; an element has the value TRUE.                   *)
(***************************************************************************)
EXTENDS Integers, Sequences, FiniteSets

Has(p, field) == field \in DOMAIN p
Largest(S) == CHOOSE x \in S : \A y \in S : y <= x
Smallest(S) == CHOOSE x \in S : \A y \in S : x <= y
InOrder(S) == CHOOSE s \in [1 .. Cardinality(S) -> S] : \A i, j \in DOMAIN s : i < j => s[i] < s[j]

\* protobuf: an unset number is 0.
Unset == 0

-----------------------------------------------------------------------------
(* Counters: name -> the elements a packet must have to be counted.        *)

E1apCounters ==
    [RohcProfile1 |-> {"rohc1"}, RohcProfile2 |-> {"rohc2"}, Fiveqi1Drb |-> {"5qi1"},
     Fiveqi2Drb |-> {"5qi2"}, Fiveqi5Drb |-> {"5qi5"}]

XnapCounters ==
    [HandoverRequestAcknowledge |-> {"hoAck"}, RetrieveUEContextRequest |-> {"retrieve"},
     RetrieveUEContextResponse |-> {"retrieved"}, SNStatusTransfer |-> {"snStatus"}]

NrppaCounters ==
    [ECidMeasurementInitiationRequest |-> {"ecidRequest"},
     ECidMeasurementInitiationResponse |-> {"ecidResponse"},
     ECidMeasurementReport |-> {"ecidReport"}]

\* A result with an angle of arrival is a response or a report.
AoaResult(p) == (Has(p, "ecidResponse") \/ Has(p, "ecidReport")) /\ Has(p, "aoa")

TrpCounters ==
    [TrpInformationRequest |-> {"trpRequest"}, TrpInformationResponse |-> {"trpResponse"},
     NrDlTdoaMeasurement |-> {"tdoa"}, WriteReplaceWarningRequest |-> {"pwsRequest"},
     WriteReplaceWarningResponse |-> {"pwsResponse"}]

NgapCounters ==
    [ServiceReject |-> {"serviceReject"}, NgReset |-> {"ngReset"},
     ErrorIndication |-> {"errorIndication"}]

Handover == {"reconfiguration", "sync"}
Paging == {"paging"}
SuspendResumeCounters == [SuspendConfig |-> {"suspend"}, ResumeComplete |-> {"resumed"}]

\* Flags: set by the first packet that passes the filter.
Flags == [RachPrioritizationSlice |-> {"prioritizationSlice"}, TransformPrecoder |-> {"precoder0"}]

-----------------------------------------------------------------------------
(* Analyzers that look into the packet.                                    *)

Sibs == {1, 2, 3, 4, 5, 6, 7, 8, 16, 19}
Sib(counts, p) == [n \in Sibs |-> counts[n] + IF n \in p["sibs"] THEN 1 ELSE 0]

ReestablishmentNone == [requests |-> 0, completes |-> 0]

\* One packet can be a request or a completion; _ueid is None, so no completion
\* is taken for a retransmission.
Reestablishment(s, p) ==
    [requests  |-> s.requests + IF Has(p, "reestRequest") THEN 1 ELSE 0,
     completes |-> s.completes + IF Has(p, "reestComplete") THEN 1 ELSE 0]

MeasGap(s, p) ==
    CASE p["gapUE"] = 1 -> [s EXCEPT !.setups = @ + 1]
      [] p["gapUE"] = 0 -> [s EXCEPT !.releases = @ + 1]
      [] OTHER -> s

\* Reaches the analyzer when configuredGrantConfig is a setup.
ConfiguredGrant(s, p) ==
    IF Has(p, "rrcGrant") THEN [s EXCEPT !.type1 = @ + 1] ELSE [s EXCEPT !.type2 = @ + 1]

\* The detection resources of a packet, in the order they are in it.
RlmConfig(s, p) ==
    LET OfKind(kind) == Cardinality({i \in DOMAIN p["detection"] : p["detection"][i] = kind}) IN
    [ssb |-> s.ssb + OfKind("ssb"), csi |-> s.csi + OfKind("csi")]

\* The fields cs_RNTI and setup occur several times, each at a byte position.
\* The value of a cs_RNTI setup is the setup field at or after it that is
\* nearest, and is counted when it is an RNTI.
CsRntiRange == 1 .. 65519
SetupsFrom(setup, i) == {q \in DOMAIN setup : q >= i}
CsRnti(count, p) ==
    LET Valid(i) == LET from == SetupsFrom(p["setup"], i) IN
                    /\ p["csRnti"][i] = 1 /\ from # {}
                    /\ p["setup"][Smallest(from)] \in CsRntiRange
    IN  count + Cardinality({i \in DOMAIN p["csRnti"] : Valid(i)})

\* The first value found stays; -1 (for DRX None, reported as 0) until then.
PrachConfigIndex(value, p) == IF value < 0 THEN p["prach"] ELSE value
DrxLongCycle(value, p) == IF value = {} THEN {p["drx"]} ELSE value

SrsFreqDomain(s, p) ==
    [c |-> IF s.c < 0 /\ Has(p, "c_SRS") THEN p["c_SRS"] ELSE s.c,
     b |-> IF s.b < 0 /\ Has(p, "b_SRS") THEN p["b_SRS"] ELSE s.b]

\* t312_r16 is 0 for a release and 1 for a setup with a duration.
T312(value, p) == IF value < 0 /\ p["t312"] = 1 /\ Has(p, "duration") THEN p["duration"] ELSE value

\* A value is recorded when it is not the one in force.
DifferentialKoffset(values, p) ==
    IF values = <<>> \/ values[Len(values)] # p["koffset"]
    THEN Append(values, p["koffset"]) ELSE values

\* What one direction of one bearer carried, from when to when.
FlowTotals == [bytes |-> 0, from |-> 0, to |-> 0]
AddFromFirst(f, bytes, time) ==
    [bytes |-> f.bytes + bytes, from |-> IF f = FlowTotals THEN time ELSE f.from, to |-> time]
AddToFlow(f, bytes, time) ==
    [bytes |-> f.bytes + bytes, from |-> IF f.bytes = 0 THEN time ELSE f.from, to |-> time]

\* Key <<bearer, direction>>; a bearer is reported when one direction was seen.
DrbTraffic(flows, p) ==
    LET key == <<p["bearer"], p["direction"]>>
        old == IF key \in DOMAIN flows THEN flows[key] ELSE FlowTotals
    IN  [k \in DOMAIN flows \cup {key} |->
            IF k = key THEN AddToFlow(old, p["length"], p["time"]) ELSE flows[k]]

-----------------------------------------------------------------------------
(* NGAP.                                                                   *)

CountFor(counts, key) ==
    [k \in DOMAIN counts \cup {key} |->
        (IF k \in DOMAIN counts THEN counts[k] ELSE 0) + IF k = key THEN 1 ELSE 0]

\* Reaches the analyzer with a Registration Accept; one without a 5G-GUTI has no
\* AMF Pointer.
RegistrationAcceptPerAmf(counts, p) ==
    IF Has(p, "amfPointer") THEN CountFor(counts, p["amfPointer"]) ELSE counts

Remembered(pending, id) == pending
Forget(pending, id) == [k \in DOMAIN pending \ {id} |-> pending[k]]

\* The Service Request of a UE is remembered until its accept or the release of
\* its context.
ServiceAcceptPerAmf(s, p) ==
    IF ~Has(p, "ranUeId") THEN s ELSE
    LET id == p["ranUeId"]
        without == Forget(s.pending, id)
    IN  CASE Has(p, "release") -> [s EXCEPT !.pending = without]
          [] ~Has(p, "release") /\ Has(p, "serviceRequest") ->
                IF ~Has(p, "amfPointer") THEN s
                ELSE [s EXCEPT !.pending =
                        [k \in DOMAIN @ \cup {id} |-> IF k = id THEN p["amfPointer"] ELSE @[k]]]
          [] ~Has(p, "release") /\ ~Has(p, "serviceRequest") /\ Has(p, "serviceAccept") ->
                [pending  |-> without,
                 accepted |-> IF id \in DOMAIN s.pending THEN CountFor(s.accepted, s.pending[id])
                                                         ELSE s.accepted]
          [] OTHER -> s

\* A UE that begins with the id of one whose context is not released.
DuplicateRanUeNgapId(s, p) ==
    IF ~Has(p, "ranUeId") THEN s
    ELSE IF Has(p, "release") THEN [s EXCEPT !.active = @ \ {p["ranUeId"]}]
    ELSE [active |-> s.active \cup {p["ranUeId"]},
          count  |-> s.count + IF p["ranUeId"] \in s.active THEN 1 ELSE 0]
=============================================================================
