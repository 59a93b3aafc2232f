SPECIFICATION FairSpec
CONSTANTS
    t1 = t1
    t2 = t2
    t3 = t3
    b1 = b1
    Nobody = Nobody
    Thread = {t1, t2}
    Bus = {b1}
    BusOf <- AllOnB1
    Device <- OneOfEach
    Typed = {t1, t2}
    Documented = {t1, t2}
    DaemonBus = b1
    MaxFrame = 8
    Word = 32
    Frames = {1}
    Sizes = {}
    MaxPolls = 2
    Tidy = {t2}
    IgnoresPipe = {t1}
    Lens <- OneLength
    Serials = 1
PROPERTIES
    HeldBusComesBack
    HangsOnlyForBus
