\* Two impatient clients on a lossy segment, for the address in an ACK.
CONSTANTS
    a = a
    b = b
    MAC = {a, b}
    OwnMAC = {}
    IP = {5, 6}
    ServerIP = 13
    RouterIP = 8
    OtherServer = 15
    Pinnable = {}
    RangeStart = 5
    RangeEnd = 6
    Base = 4
    LeaseTime = 2
    PendingTime = 1
    PoisonTime = 1
    StaticTime = 2
    Authoritative = TRUE
    Packet <- NetPacket
    Buffer = 2
    Lossy = TRUE
    Suspect = {}
    Touchable = {}
    MaxCalls = 0
    Patient = FALSE
SPECIFICATION NetSpec
PROPERTIES
    AckMatchesOffer
