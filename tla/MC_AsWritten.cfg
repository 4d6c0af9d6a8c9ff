\* The adapter as written: self._option does not resolve.
CONSTANTS
    DataAttrs <- ExampleAttrs
    Callables <- ExampleMethods
    Private = {}
    Exclude = {}
    ReadOnly = {}
    NoSig = {}
    Arity <- ExampleArity
    Values <- MC_Values
    InitDev <- ExampleInit
    MethodEffect <- ExampleEffect
    DirLast = "temperature"
    HasOptionAttr = FALSE
    HasPollerMethod = FALSE
    JoinMayTimeout = FALSE
    PollerSlots <- MC_PollerSlots
    NoThread = NoThread
    NoVal = NoVal
SPECIFICATION Spec
INVARIANT StartNeverRaises
