CONSTANTS
    Kinds = {"rates", "pucch", "window", "cell", "cucp", "amarisoft", "plot", "csv"}
    MaxRecords = 4
    QueueLength = 3
    Windows = {1, 2}
    Middle = 1
    Fraction = 10
    CaptureKinds = {"du", "ngap", "amf", "koffset", "drb", "csrnti", "rrc", "sib", "counters"}
    MaxPackets = 4
    Client = {"a", "b"}
    Modes = {"local", "remote", "simulator"}
    MaxLaunches = 2
    MaxTimeouts = 2
    Thread = {"driver", "stats"}
    EventIds = {1}
    MaxTurns = 2
    MaxCommands = 3
    MaxEvents = 1
    CoreKinds = {"mme", "ims", "open5gs"}
    Ue = {"u", "v"}
    Traffic = {"t1", "t2"}
    MaxRounds = 2
    MaxServers = 2
    MaxFaults = 1
    Machines = {"local", "remote"}
    MaxLines = 2
    MaxTries = 2
    Phones = {"android", "srsue"}
    Waiter = {"w1", "w2"}
    MaxCalls = 2
    MaxMishaps = 1
    Levels = {0, 80, 90}
    Threshold = 80
    Patience = 1
    MaxTests = 2
    MaxErrors = 2
    LogKinds = {"tables", "links"}
    MaxLogLines = 6
    DriverKinds = {"cucp", "cu", "cuup", "gnb"}
    MaxRuns = 3
    MaxRaised = 2
SPECIFICATION MCSpec
INVARIANTS
    RatesAreTimeWeighted ReportsAddUp NgapFollowsTheUe CapturesAddUp
    StartedIsOn MessagesAreRouted
    MetricsAreOwn AddressesAreOwn FailedStopShrinks
    AllOutputRead NothingOutlives AttachIsOwn CampaignsEnd
PROPERTIES FileStaysJson
CHECK_DEADLOCK FALSE
