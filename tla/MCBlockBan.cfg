\* A device that is banned before the server is started.
CONSTANTS
    h = h
    a = a
    b = b
    g1 = g1
    g2 = g2
    MAC = {h, a}
    Host = h
    NoMAC = NoMAC
    Known = {a}
    Gateway = {g1}
    NoGateway = NoGateway
    MaxListed = 1
SPECIFICATION Spec
INVARIANTS
    BanIsPermanent
