\* This machine, the gateway and two devices on two more addresses.
CONSTANTS
    h = h
    g = g
    a = a
    b = b
    own = own
    n = n
    hostIP = hostIP
    gwIP = gwIP
    x = x
    y = y
    IP = {hostIP, gwIP, x, y}
    HostIP = hostIP
    GatewayIP = gwIP
    NoIP = NoIP
    MAC = {h, g, a, b}
    HostMAC = h
    NoMAC = NoMAC
    Checking = Checking
    Name = {n}
    HostName = own
    Unknown = Unknown
    Trusted = {b}
    Sighting <- MCSighting
    NameOf <- MCNameOf
    Label <- MCLabel
    LeaseName <- MCLeaseName
    Suspect = {a}
    Stale = 1
SPECIFICATION FairSpec
INVARIANTS
    OneEntryPerDevice
    RouterNeverBlocked
PROPERTIES
    GatewayStaysKnown
    NamesAreKept
    DefaultDeny
    SilentGoesOffline
