SPECIFICATION FairSpec
CONSTANTS
    Conns = {c1, c2, c3}
    Addresses = {a1, a2}
    Allowed = {a1}
    MaxPerIp = 2
    MaxPreAuth = 1
    MaxBadJson = 2
    BanOnBadJson = TRUE
INVARIANTS
    TypeOK
    IpCountExact
    MinersExact
PROPERTIES
    UnauthorizedLeaves
    SilentLeaves
