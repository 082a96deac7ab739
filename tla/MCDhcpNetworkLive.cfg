\* Two patient clients on a pool of one address; one may be blocked, pinned, expired
\* and kicked, and the server may restart.
CONSTANTS
    a = a
    b = b
    MAC = {a, b}
    OwnMAC = {}
    IP = {5}
    ServerIP = 13
    RouterIP = 0
    OtherServer = 15
    Pinnable = {5}
    RangeStart = 5
    RangeEnd = 5
    Base = 4
    LeaseTime = 1
    PendingTime = 1
    PoisonTime = 1
    StaticTime = 2
    Authoritative = TRUE
    Packet <- NetPacket
    Buffer = 1
    Lossy = TRUE
    Suspect = {a}
    Touchable = {a}
    MaxCalls = 1
    Patient = TRUE
SPECIFICATION LiveSpec
PROPERTIES EventuallyBound
