SPECIFICATION MCSpec
CONSTANTS
    Lengths <- MCHkdfLengths
    cmac <- MCCmac
    crc <- MCCrc
    timeout <- MCTimeout
    demo <- MCDemo
    formatLengths <- MCFormatLengths
    Unused = Unused
INVARIANTS
    TypesOK
    TagOfWhatWasAsked
    OutputIsRfc5869
    AnswerIsCrcOfFrame
    ElapsedWhenDue
    SameNumbers
    MemoryIsSound
    ShowsTheVerdict
PROPERTY ButtonComesBack
CHECK_DEADLOCK FALSE
