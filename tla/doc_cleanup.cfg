SPECIFICATION Spec
CONSTANTS
    c1 = c1
    c2 = c2
    c3 = c3
    b1 = b1
    b2 = b2
    a1 = a1
    a2 = a2
    Conn = {c1}
    Bus = {b1, b2}
    Addr = {a1}
    Fd = {f1, f2}
    MaxClients = 1
    BusOf <- EverybodyEverywhere
    Documented = {}
    MaxPolls = 0
    NoConn = NoConn
    Lost = Lost
    NoBus = NoBus
    NoFd = NoFd
    NoAddr = NoAddr
INVARIANT CleanUpReleases
