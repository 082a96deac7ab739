\* Three clients on a pool of two addresses: the pool runs out.
CONSTANTS
    a = a
    b = b
    c = c
    MAC = {a, b, c}
    OwnMAC = {}
    IP <- MCIP
    ServerIP = 13
    RouterIP = 8
    OtherServer = 15
    Pinnable = {6}
    RangeStart = 5
    RangeEnd = 6
    Base = 4
    LeaseTime = 1
    PendingTime = 1
    PoisonTime = 1
    StaticTime = 1
    Authoritative = TRUE
    Packet <- PacketsABC
SPECIFICATION Spec
INVARIANTS TypeOK NoDuplicateLease
PROPERTIES ReplyNamesRecordedAddress BlockedGetsPoison LiveLeaseIsKept
    ImplementsLeaseBook
SYMMETRY SymmetryABC
