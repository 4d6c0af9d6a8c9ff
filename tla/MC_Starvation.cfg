\* Method calls racing the poller for device_lock, every thread weakly fair.
CONSTANTS
    DataAttrs <- HallAttrs
    Callables <- HallMethods
    Private <- HallPrivate
    Exclude = {}
    ReadOnly = {"connected"}
    NoSig = {}
    Arity <- HallArity
    Values <- MC_Values
    InitDev <- HallInit
    MethodEffect <- HallEffect
    DirLast = "reset"
    HasOptionAttr = TRUE
    HasPollerMethod = TRUE
    JoinMayTimeout = FALSE
    PollerSlots <- MC_PollerSlots
    NoThread = NoThread
    NoVal = NoVal
SPECIFICATION FairSpec
PROPERTY CallServed
