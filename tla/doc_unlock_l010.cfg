SPECIFICATION Spec
CONSTANTS
    t1 = t1
    t2 = t2
    t3 = t3
    b1 = b1
    Nobody = Nobody
    Thread = {t1}
    Bus = {b1}
    BusOf <- AllOnB1
    Device <- AllL010
    Typed = {}
    Documented = {t1}
    DaemonBus = b1
    MaxFrame = 8
    Word = 32
    Frames = {1}
    Sizes = {}
    MaxPolls = 1
    Tidy = {}
    IgnoresPipe = {t1}
    Lens <- OneLength
    Serials = 1
PROPERTIES
    LastStopUnlocks
