\* This host and two devices, two networks and the unknown one.
CONSTANTS
    h = h
    a = a
    b = b
    g1 = g1
    g2 = g2
    MAC = {h, a, b}
    Host = h
    NoMAC = NoMAC
    Known = {a}
    Gateway = {g1, g2}
    NoGateway = NoGateway
    MaxListed = 2
SPECIFICATION Spec
INVARIANTS
    TypeOK
    NoLostBlock
    BlacklistEnforced
    OffMeansOpen
    UnblockHolds
    HostNeverBlocked
SYMMETRY NetworkSymmetry
