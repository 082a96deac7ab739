\* Two impatient clients on a lossy segment and a pool of two addresses, with a call
\* of the operator or a restart at any moment.
CONSTANTS
    a = a
    b = b
    MAC = {a, b}
    OwnMAC = {}
    IP = {5, 6}
    ServerIP = 13
    RouterIP = 8
    OtherServer = 15
    Pinnable = {6}
    RangeStart = 5
    RangeEnd = 6
    Base = 4
    LeaseTime = 2
    PendingTime = 1
    PoisonTime = 1
    StaticTime = 2
    Authoritative = TRUE
    Packet <- NetPacket
    Buffer = 1
    Lossy = TRUE
    Suspect = {}
    Touchable = {a, b}
    MaxCalls = 1
    Patient = FALSE
SPECIFICATION NetSpec
INVARIANTS
    NoAddressConflict
    RecordOutlivesUse
SYMMETRY Symmetry
VIEW View
