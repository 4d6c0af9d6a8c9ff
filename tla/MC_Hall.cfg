\* The adapter over the Hall probe device, with the join always completing.
CONSTANTS
    DataAttrs <- HallAttrs
    Callables <- HallMethods
    Private <- HallPrivate
    Exclude = {}
    ReadOnly = {"connected"}
    NoSig = {}
    Arity <- HallArity
    Values <- MC_Values
    InitDev <- HallInit
    MethodEffect <- HallEffect
    DirLast = "reset"
    HasOptionAttr = TRUE
    HasPollerMethod = TRUE
    JoinMayTimeout = FALSE
    PollerSlots <- MC_PollerSlots
    NoThread = NoThread
    NoVal = NoVal
SPECIFICATION FairSpec
INVARIANTS TypeOK SinglePoller RunningHasPoller StopLeavesNothing CacheMatchesNode LockHolder
PROPERTIES
    StopReturns
    ImplementsBridge
    ScanSeesStableDevice
