----------------------------- MODULE OPCUABridge -----------------------------
(***************************************************************************)
(* What the protocol bridge promises (spec sections 3 and 4), with no      *)
(* threads, locks or stop events: a lifecycle Stopped / Running; start    *)
(* builds the whole address space from the current device, stop clears it *)
(* whole; while running, a property node changes only by a push of the     *)
(* current device value, which updates node and cache together, or by a    *)
(* client write to a writeable node; the device changes at any time.      *)
(***************************************************************************)
CONSTANTS
    DataAttrs,    \* the data attributes of the device
    Values,       \* the values an attribute can hold
    NoVal,        \* no cache entry
    PropNodes,    \* the attributes that get a variable node
    WriteNodes,   \* the variable nodes that are writeable
    MethodSet     \* the callables that get a method node

VARIABLES
    status,       \* "Stopped" or "Running"
    props,        \* the property node map
    methods,      \* the method nodes
    served,       \* the value each variable node serves
    cache,        \* the last-known value of each property (NoVal: none)
    device        \* the device's attributes

vars == <<status, props, methods, served, cache, device>>

Empty == [a \in DataAttrs |-> NoVal]

Init ==
    /\ status = "Stopped"
    /\ props = {}
    /\ methods = {}
    /\ served \in [DataAttrs -> Values]
    /\ cache = Empty
    /\ device \in [DataAttrs -> Values]

\* start(): the node maps and the cache are rebuilt from the device.
Start ==
    /\ status = "Stopped"
    /\ status' = "Running"
    /\ props' = PropNodes
    /\ methods' = MethodSet
    /\ served' = [a \in DataAttrs |-> IF a \in PropNodes THEN device[a] ELSE served[a]]
    /\ cache' = [a \in DataAttrs |-> IF a \in PropNodes THEN device[a] ELSE NoVal]
    /\ UNCHANGED device

\* stop(): the node maps and the cache are cleared.
Stop ==
    /\ status = "Running"
    /\ status' = "Stopped"
    /\ props' = {}
    /\ methods' = {}
    /\ cache' = Empty
    /\ UNCHANGED <<served, device>>

\* A poll finds p changed and pushes it: node and cache take the value.
Push(p) ==
    /\ status = "Running"
    /\ p \in props
    /\ cache[p] # device[p]
    /\ served' = [served EXCEPT ![p] = device[p]]
    /\ cache' = [cache EXCEPT ![p] = device[p]]
    /\ UNCHANGED <<status, props, methods, device>>

\* A client writes v to a writeable node.
Write(p, v) ==
    /\ status = "Running"
    /\ p \in props \cap WriteNodes
    /\ served' = [served EXCEPT ![p] = v]
    /\ UNCHANGED <<status, props, methods, cache, device>>

\* A method call or a simulation step changes the device.
DeviceStep ==
    /\ device' \in [DataAttrs -> Values]
    /\ UNCHANGED <<status, props, methods, served, cache>>

Next ==
    \/ Start
    \/ Stop
    \/ \E p \in DataAttrs : Push(p)
    \/ \E p \in DataAttrs, v \in Values : Write(p, v)
    \/ DeviceStep

Spec == Init /\ [][Next]_vars

=============================================================================
