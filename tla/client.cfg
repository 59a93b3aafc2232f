SPECIFICATION MCSpec
CONSTANTS
    t1 = t1
    t2 = t2
    t3 = t3
    b1 = b1
    Nobody = Nobody
    Thread = {t1, t2, t3}
    Bus = {b1}
    BusOf <- AllOnB1
    Device <- OneOfEach
    Typed = {t1, t2}
    Documented = {t1, t2}
    DaemonBus = b1
    MaxFrame = 8
    Word = 32
    Frames = {1}
    Sizes = {0, 8, 31}
    MaxPolls = 2
    Tidy = {t2}
    IgnoresPipe = {t1, t3}
    Lens <- TwoLengths
    Serials = 2
INVARIANTS
    TypeOK
    OwnAnswer
    NoBusWithoutConnection
    ExecutedOnce
    BuffersInBounds
PROPERTY LastStopUnlocks
