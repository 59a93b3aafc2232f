SPECIFICATION Spec
CONSTANTS
    context <- ThreeDevices
    shared <- OneDevice
    a120 <- ManyParams
    careful <- TwoContexts
    careless <- ThreeContexts
    l010Keys <- KeysOnly
    l010Verify <- VerifyOnly
    l010Free <- OneKey
    Unset = Unset
    Unused = Unused
    Bad = Bad
    NoKey = NoKey
INVARIANTS
    TypesOK
    ExportComesBack
    PrivateHalfInItsPlace
    SignsWhatWasAsked
    EachObjectOwnedOnce
PROPERTIES
    UseOnItsDevice
    SharedDeviceOpenedOnce
    GeneratedAsAsked
