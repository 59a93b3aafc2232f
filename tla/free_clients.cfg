SPECIFICATION Spec
CONSTANTS
    c1 = c1
    c2 = c2
    c3 = c3
    b1 = b1
    b2 = b2
    a1 = a1
    a2 = a2
    Conn = {c1, c2, c3}
    Bus = {b1}
    Addr = {a1, a2}
    Fd = {f1}
    MaxClients = 2
    BusOf <- EverybodyOnB1
    Documented = {}
    MaxPolls = 0
    NoConn = NoConn
    Lost = Lost
    NoBus = NoBus
    NoFd = NoFd
    NoAddr = NoAddr
SYMMETRY Symmetry
INVARIANTS
    TypeOK
    IndInv
    BusExclusive
    OwnReply
    ReplyTellsLock
    NoLostMutex
    SlotAccounting
PROPERTY Arbiter
