SPECIFICATION Spec

CONSTANTS
    Oui = {"o1", "o2"}
    Caller = {c1, c2}
    StaticOui = {}
    LocalOui = {}
    ListedOui = {"o2"}
    Boilerplate <- MCBoilerplate
    Unknown = Unknown
    NoName = NoName
    NoOui = NoOui
    Partial = Partial
    MaxQueue = 1
    MaxList = 1

    Host = {"a", "b"}
    Layer = {"mdns", "llmnr", "rdns", "ssdp"}
    NameServer = "ns"
    Nobody = "nobody"
    PoolSize = 1

    Gateway = {"g", "h"}
    Hotspot = {"h"}
    Random = {"g"}
    Listed = {"g"}
    Model <- MCModel
    NoGateway = "none"
    MaxEvents = 2
    MaxAsked = 1

    Ports = 5

    Target = {"d1", "d2", "d3"}
    MaxThreads = 2
    MaxBacklog = 3
    RouterIp = "d1"
    NoReport = "none"

    Domain = {"d", "e"}
    Address = {"i"}
    Empty = "-"
    MaxLookups = 1
    MaxReplies = 1
    MaxSignals = 2

    Device = {"s", "a"}
    IP = {"x", "y", "z"}
    None = None
    Uses <- MCUses
    MaxBytes <- MCMaxBytes
    MaxUpdates = 1
    MaxTotal = 2

    Minute = 2
    Hour = 4
    Day = 8
    MinuteAge = 1
    HourAge = 2
    DayAge = 4
    RawKept = 2
    MinutesKept = 3
    HoursKept = 4
    Interval = 1
    MaxClock = 6
    MaxRx = 1

    Width = 3
    MaxAudit = 4
    MaxCount = 4
    NoAddress = NoAddress
    InputLists <- MCInputLists

INVARIANTS
    NeverAsksTwice
    NoWorkerOutlivesCall
    AuditNeverStalls
    CompleteMeansAll
    LastTargetIsShown
    NoPhantomTraffic
    NoSampleLost
    

PROPERTIES
    EvidenceIsKept
    HistoryIsKept
