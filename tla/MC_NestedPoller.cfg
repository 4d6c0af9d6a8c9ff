\* _option repaired; _update_variables is still nested in stop_server.
CONSTANTS
    DataAttrs <- ExampleAttrs
    Callables <- ExampleMethods
    Private = {}
    Exclude = {}
    ReadOnly = {}
    NoSig = {}
    Arity <- ExampleArity
    Values <- MC_Values
    InitDev <- ExampleInit
    MethodEffect <- ExampleEffect
    DirLast = "temperature"
    HasOptionAttr = TRUE
    HasPollerMethod = FALSE
    JoinMayTimeout = FALSE
    PollerSlots <- MC_PollerSlots
    NoThread = NoThread
    NoVal = NoVal
SPECIFICATION Spec
INVARIANT RunningHasPoller
