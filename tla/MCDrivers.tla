------------------------------ MODULE MCDrivers ------------------------------
(***************************************************************************)
(* The drivers of the agent, and the client of the Viavi emulator, for     *)
(* TLC.  Their modules share nothing, so a                                 *)
(* behaviour is about one of them: the records of the metrics (JsonMetrics), *)
(* the packets of the captures (Captures), the UEs (UeDriver), the          *)
(* connection to a program (AmarisoftWs), the core (CoreDriver), a program  *)
(* that runs to its end (Executor), the attach of a phone or srsUE (Attach), *)
(* the captures of composed drivers (Reports), a session with the Viavi     *)
(* emulator (Viavi), or the log of a campaign (ViaviReport).                *)
(***************************************************************************)
EXTENDS JsonMetrics

CONSTANTS
    CaptureKinds, MaxPackets,
    Client, Modes, MaxLaunches, MaxTimeouts,
    Thread, EventIds, MaxTurns, MaxCommands, MaxEvents,
    CoreKinds, Ue, Traffic, MaxRounds, MaxServers, MaxFaults,
    Machines, MaxLines, MaxTries,
    Phones, Waiter, MaxCalls, MaxMishaps,
    Levels, Threshold, Patience, MaxTests, MaxErrors,
    LogKinds, MaxLogLines,
    DriverKinds, MaxRuns, MaxRaised

VARIABLES
    cut,
    mode, at, client, pending, holder, dict, count, sut, ues, on, socket, file, closed, poll, told, launches, timeouts,
    wsAt, counter, queues, handler, counts, connected, wsReader, asked, wsTold, wire, events, got,
    core, round, phase, call, api, prog, metrics, added, address, offset, services, servers, iperf,
    found, faults, clean,
    machine, caller, pid, proc, code, stubborn, killed, printed, pipe, queue, read, reader,
    step, outcome, result, tries,
    phone, radio, attach, starter, waits,
    emulator, session, errors,
    driver, report

C == INSTANCE Captures WITH Kinds <- CaptureKinds
U == INSTANCE UeDriver
W == INSTANCE AmarisoftWs WITH at <- wsAt, reader <- wsReader, told <- wsTold
D == INSTANCE CoreDriver
X == INSTANCE Executor
A == INSTANCE Attach
V == INSTANCE Viavi
P == INSTANCE Reports
R == INSTANCE ViaviReport WITH Kinds <- LogKinds

reportVars == <<kind, seen, state, cut>>
ueVars == <<mode, at, client, pending, holder, dict, count, sut, ues, on, socket, file, closed, poll,
            told, launches, timeouts>>
wsVars == <<wsAt, counter, queues, handler, counts, connected, wsReader, asked, wsTold, wire, events, got>>
coreVars == <<core, round, phase, call, api, prog, metrics, added, address, offset, services, servers,
              iperf, found, faults, clean>>
execVars == <<machine, caller, pid, proc, code, stubborn, killed, printed, pipe, queue, read,
              reader, step, outcome, result, tries>>
attachVars == <<phone, radio, attach, starter, waits>>
viaviVars == <<emulator, session, errors>>
reportsVars == <<driver, report>>

NoUe ==
    /\ mode = 0 /\ at = 0 /\ client = 0 /\ pending = 0 /\ holder = 0 /\ dict = 0 /\ count = 0 /\ sut = 0 /\ ues = 0
    /\ on = 0 /\ socket = 0 /\ file = 0 /\ closed = 0 /\ poll = 0 /\ told = 0 /\ launches = 0 /\ timeouts = 0
NoWs ==
    /\ wsAt = 0 /\ counter = 0 /\ queues = 0 /\ handler = 0 /\ counts = 0 /\ connected = 0
    /\ wsReader = 0 /\ asked = 0 /\ wsTold = 0 /\ wire = 0 /\ events = 0 /\ got = 0
NoCore ==
    /\ core = 0 /\ round = 0 /\ phase = 0 /\ call = 0 /\ api = 0 /\ prog = 0 /\ metrics = 0 /\ added = 0
    /\ address = 0 /\ offset = 0 /\ services = 0 /\ servers = 0 /\ iperf = 0 /\ found = 0 /\ faults = 0
    /\ clean = 0
NoExec ==
    /\ machine = 0 /\ caller = 0 /\ pid = 0 /\ proc = 0 /\ code = 0 /\ stubborn = 0 /\ killed = 0
    /\ printed = 0 /\ pipe = 0 /\ queue = 0 /\ read = 0 /\ reader = 0 /\ step = 0 /\ outcome = 0
    /\ result = 0 /\ tries = 0
NoAttach == phone = 0 /\ radio = 0 /\ attach = 0 /\ starter = 0 /\ waits = 0
NoViavi == emulator = 0 /\ session = 0 /\ errors = 0
NoReports == driver = 0 /\ report = 0

Drivers == {"ue", "ws", "core", "exec", "attach", "viavi", "reports"}

\* The kinds of records, captures and logs are other names than those, and those of logs than the rest.
ASSUME KindsAssumption ==
    /\ Drivers \cap (Kinds \cup CaptureKinds \cup LogKinds) = {}
    /\ LogKinds \cap (Kinds \cup CaptureKinds) = {}

\* The cores that CoreDriver is about.
ASSUME CoreAssumption == CoreKinds \subseteq {"mme", "ims", "open5gs"}

\* The drivers that are made of others.
ASSUME DriverAssumption == DriverKinds \subseteq {"cucp", "cu", "cuup", "gnb"}

\* A client is known by its address, which is no name that the driver uses itself.
ASSUME ClientAssumption == {U!Agent, U!Nobody} \cap Client = {}

MCInit ==
    /\ \/ Init /\ cut = <<>>
       \/ C!Init
       \/ R!Init /\ cut = <<>>
       \/ kind \in Drivers /\ seen = <<>> /\ state = <<>> /\ cut = <<>>
    /\ IF kind = "ue" THEN U!Init ELSE NoUe
    /\ IF kind = "ws" THEN W!Init ELSE NoWs
    /\ IF kind = "core" THEN D!Init ELSE NoCore
    /\ IF kind = "exec" THEN X!Init ELSE NoExec
    /\ IF kind = "attach" THEN A!Init ELSE NoAttach
    /\ IF kind = "viavi" THEN V!Init ELSE NoViavi
    /\ IF kind = "reports" THEN P!Init ELSE NoReports

\* What the behaviours of a kind leave alone.
Others ==
    /\ kind \in Drivers => UNCHANGED reportVars
    /\ kind # "ue" => UNCHANGED ueVars
    /\ kind # "ws" => UNCHANGED wsVars
    /\ kind # "core" => UNCHANGED coreVars
    /\ kind # "exec" => UNCHANGED execVars
    /\ kind # "attach" => UNCHANGED attachVars
    /\ kind # "viavi" => UNCHANGED viaviVars
    /\ kind # "reports" => UNCHANGED reportsVars

MCNext ==
    \/ kind \in Kinds /\ Next /\ UNCHANGED cut /\ Others
    \/ kind \in CaptureKinds /\ C!Next /\ Others
    \/ kind \in LogKinds /\ R!Next /\ UNCHANGED cut /\ Others
    \/ kind = "ue" /\ U!Next /\ Others
    \/ kind = "ws" /\ W!Next /\ Others
    \/ kind = "core" /\ D!Next /\ Others
    \/ kind = "exec" /\ X!Next /\ Others
    \/ kind = "attach" /\ A!Next /\ Others
    \/ kind = "viavi" /\ V!Next /\ Others
    \/ kind = "reports" /\ P!Next /\ Others

MCSpec == MCInit /\ [][MCNext]_<<reportVars, ueVars, wsVars, coreVars, execVars, attachVars, viaviVars,
                               reportsVars>>

\* NgapFollowsTheUe of the captures.
NgapFollowsTheUe == C!NgapFollowsTheUe
\* CapturesAddUp of the captures.
CapturesAddUp == kind \in CaptureKinds => C!CapturesAddUp
\* StartedIsOn of the UEs.
StartedIsOn == kind = "ue" => U!StartedIsOn
\* FileStaysJson of the UEs.
FileStaysJson == [][kind = "ue" => U!EndsOnce]_ueVars
\* MessagesAreRouted of the connection to a program.
MessagesAreRouted == kind = "ws" => W!MessagesAreRouted
\* MetricsAreOwn of the core, and ReportIsOfRun of the drivers made of others.
MetricsAreOwn == (kind = "core" => D!MetricsAreOwn) /\ (kind = "reports" => P!ReportIsOfRun)
\* AddressesAreOwn of the core.
AddressesAreOwn == kind = "core" => D!AddressesAreOwn
\* FailedStopShrinks of the core.
FailedStopShrinks == kind = "core" => D!FailedStopShrinks
\* AllOutputRead of a program.
AllOutputRead == kind = "exec" => X!AllOutputRead
\* NothingOutlives of a program.
NothingOutlives == kind = "exec" => X!NothingOutlives
\* AttachIsOwn of a phone or srsUE.
AttachIsOwn == kind = "attach" => A!AttachIsOwn
\* VerdictIsEarned of the tests with the Viavi emulator, and LogIsRead of the log of a campaign.
CampaignsEnd == (kind = "viavi" => V!VerdictIsEarned) /\ (kind \in LogKinds => R!LogIsRead)
=============================================================================
