\* Method nodes of the example device.
CONSTANTS
    DataAttrs <- ExampleAttrs
    Callables <- ExampleMethods
    Private = {}
    Exclude = {}
    ReadOnly = {}
    NoSig = {}
    Arity <- ExampleArity
    Values <- MC_Values
    InitDev <- ExampleInit
    MethodEffect <- ExampleEffect
    DirLast = "temperature"
    HasOptionAttr = TRUE
    HasPollerMethod = TRUE
    JoinMayTimeout = FALSE
    PollerSlots <- MC_PollerSlots
    NoThread = NoThread
    NoVal = NoVal
SPECIFICATION Spec
INVARIANT CallReachesNamedMethod
