\* stop_server whose join of the poller may time out.
CONSTANTS
    DataAttrs <- HallAttrs
    Callables <- HallMethods
    Private <- HallPrivate
    Exclude = {}
    ReadOnly = {"connected"}
    NoSig = {}
    Arity <- HallArity
    Values <- MC_Values
    InitDev <- HallInit
    MethodEffect <- HallEffect
    DirLast = "reset"
    HasOptionAttr = TRUE
    HasPollerMethod = TRUE
    JoinMayTimeout = TRUE
    PollerSlots <- MC_PollerSlots
    NoThread = NoThread
    NoVal = NoVal
SPECIFICATION Spec
INVARIANT SinglePoller
