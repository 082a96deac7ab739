\* One client, for the ARP frames sent to it once it is blocked.
CONSTANTS
    a = a
    b = b
    c = c
    MAC = {a}
    OwnMAC = {}
    IP <- MCIP
    ServerIP = 13
    RouterIP = 8
    OtherServer = 15
    Pinnable = {}
    RangeStart = 5
    RangeEnd = 6
    Base = 4
    LeaseTime = 2
    PendingTime = 1
    PoisonTime = 1
    StaticTime = 2
    Authoritative = TRUE
    Packet <- PacketsA
SPECIFICATION Spec
PROPERTIES
    ArpClaimsGateway
