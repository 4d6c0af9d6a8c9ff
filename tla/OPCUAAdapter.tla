---------------------------- MODULE OPCUAAdapter ----------------------------
(***************************************************************************)
(* The OPC UA adapter of lewis (src/lewis/adapters/opcua.py): the bridge   *)
(* that exposes the data attributes of a device interface as variable      *)
(* nodes and its callables as method nodes, and keeps the nodes in step    *)
(* with the device through a background poller thread.                     *)
(*                                                                         *)
(* Actors: the owner of the adapter (start_server / stop_server), the      *)
(* poller threads (_update_variables), one transport thread serving        *)
(* protocol writes and method calls, and the simulation, which mutates the *)
(* device under the shared device_lock.  The protocol engine (asyncua) is  *)
(* abstracted to the values its nodes serve.                               *)
(***************************************************************************)
EXTENDS Naturals

CONSTANTS
    DataAttrs,      \* non-callable public names of dir(interface)
    Callables,      \* callable names of dir(interface)
    Private,        \* names starting with '_'
    Exclude,        \* option exclude_properties
    ReadOnly,       \* option read_only_properties
    NoSig,          \* callables whose inspect.signature raises
    Arity,          \* number of parameters of each callable (self excluded)
    Values,         \* the values a device attribute can hold
    InitDev,        \* the device attributes when the adapter is created
    MethodEffect(_, _, _), \* device after calling m(*args) on device d
    DirLast,        \* the last name of dir(interface)
    HasOptionAttr,  \* does self._option (lines 109, 121) resolve?
    HasPollerMethod,\* does self._update_variables (line 140) resolve?
    JoinMayTimeout, \* may a device call outlast join(timeout=2.0)?
    PollerSlots,    \* thread identities for poller threads (a bound)
    NoThread,       \* _update_thread = None
    NoVal           \* no entry in _property_values

Names == DataAttrs \cup Callables

ASSUME AdapterAssumption ==
    /\ DataAttrs \cap Callables = {}
    /\ Private \cup Exclude \cup ReadOnly \subseteq Names
    /\ NoSig \subseteq Callables
    /\ Arity \in [Callables -> Nat]
    /\ DirLast \in Names
    /\ InitDev \in [DataAttrs -> Values]
    /\ \A m \in Callables : \A a \in [1 .. Arity[m] -> Values] :
          \A d \in [DataAttrs -> Values] :
             MethodEffect(m, a, d) \in [DataAttrs -> Values]
    /\ HasOptionAttr \in BOOLEAN
    /\ HasPollerMethod \in BOOLEAN
    /\ JoinMayTimeout \in BOOLEAN
    /\ PollerSlots # {}
    /\ NoThread \notin PollerSlots
    /\ NoVal \notin Values
    /\ PollerSlots \cap {"free", "call"} = {}

-----------------------------------------------------------------------------
(* The address space the builder creates (lines 156-161 and 209-213).      *)

\* _add_properties: skip excluded, '_'-prefixed and callable names.
Exposed == {a \in DataAttrs : a \notin Exclude /\ a \notin Private}

\* writeable = property not in read_only_properties (line 167).
Writeable == Exposed \ ReadOnly

\* _add_methods: callable, not '_'-prefixed, signature introspectable.
MethodNames == {m \in Callables : m \notin Private /\ m \notin NoSig}

\* The arguments a client may pass to the method node of m.
ArgsOf(m) == [1 .. Arity[m] -> Values]

NoCall == [node |-> "none", target |-> "none", ok |-> FALSE]

PollerStates == {"off", "top", "acquire", "scan", "wait"}

VARIABLES
    running,      \* self._running
    server,       \* self._server: "none", "created" or "serving"
    nodes,        \* DOMAIN self._nodes
    nodeVal,      \* value served by each variable node
    cache,        \* self._property_values (NoVal: no entry)
    methodNodes,  \* method nodes added under the Device object
    stopEvent,    \* self._stop_event is set
    thread,       \* self._update_thread
    ppc,          \* program counter of each poller thread
    pscan,        \* properties a poller has still to visit this cycle
    dev,          \* the device attributes
    lock,         \* holder of device_lock: "free", "call" or a poller
    mainPc,       \* owner thread: "idle" or "joining" inside stop_server
    callPc,       \* transport thread: "idle", "waiting" for device_lock
                  \* in method_wrapper, or "busy" in the device method
    callNode,     \* the method node whose call is in progress
    lastCall,     \* the last method node call: node, callee, success
    lastStart     \* outcome of the last start_server: "none", "ok", "raised"

vars == <<running, server, nodes, nodeVal, cache, methodNodes, stopEvent,
          thread, ppc, pscan, dev, lock, mainPc, callPc, callNode, lastCall,
          lastStart>>

pollVars == <<ppc, pscan>>

Live(t) == ppc[t] # "off"

TypeOK ==
    /\ running \in BOOLEAN
    /\ server \in {"none", "created", "serving"}
    /\ nodes \subseteq Exposed
    /\ nodeVal \in [DataAttrs -> Values]
    /\ cache \in [DataAttrs -> Values \cup {NoVal}]
    /\ methodNodes \subseteq MethodNames
    /\ stopEvent \in BOOLEAN
    /\ thread \in PollerSlots \cup {NoThread}
    /\ ppc \in [PollerSlots -> PollerStates]
    /\ pscan \in [PollerSlots -> SUBSET Exposed]
    /\ dev \in [DataAttrs -> Values]
    /\ lock \in {"free", "call"} \cup PollerSlots
    /\ mainPc \in {"idle", "joining"}
    /\ callPc \in {"idle", "waiting", "busy"}
    /\ callNode \in Callables \cup {"none"}
    /\ lastCall \in [node : Callables \cup {"none"},
                     target : Names \cup {"none"}, ok : BOOLEAN]
    /\ lastStart \in {"none", "ok", "raised"}

Init ==
    /\ running = FALSE
    /\ server = "none"
    /\ nodes = {}
    /\ nodeVal = InitDev
    /\ cache = [a \in DataAttrs |-> NoVal]
    /\ methodNodes = {}
    /\ stopEvent = FALSE
    /\ thread = NoThread
    /\ ppc = [t \in PollerSlots |-> "off"]
    /\ pscan = [t \in PollerSlots |-> {}]
    /\ dev = InitDev
    /\ lock = "free"
    /\ mainPc = "idle"
    /\ callPc = "idle"
    /\ callNode = "none"
    /\ lastCall = NoCall
    /\ lastStart = "none"

-----------------------------------------------------------------------------
(* start_server (lines 97-145), with the address space builder.            *)

\* _add_properties: one node per exposed attribute, initialised with the
\* current value, which is also cached.
add_properties ==
    /\ nodes' = Exposed
    /\ nodeVal' = [a \in DataAttrs |-> IF a \in Exposed THEN dev[a] ELSE nodeVal[a]]
    /\ cache' = [a \in DataAttrs |-> IF a \in Exposed THEN dev[a] ELSE NoVal]

\* Mutant: the startswith('_') test of line 212 dropped.
add_methods_any == methodNodes' = {m \in Callables : m \notin NoSig}

\* _add_methods: a method node per callable whose signature is readable;
\* the others are logged and skipped.
add_methods == methodNodes' = MethodNames

\* Mutant: no early return when already running.
already_running_never == FALSE

\* if self._running: return (lines 97-98).
already_running == running

\* Mutant: the stop event is left as stop_server set it.
clear_stop_event_missing == UNCHANGED stopEvent

\* self._stop_event.clear() before the thread is spawned (line 138).
clear_stop_event == stopEvent' = FALSE

\* The Thread(target=self._update_variables) spawn of lines 139-143.
spawn_poller ==
    \E t \in PollerSlots :
        /\ ~Live(t)
        /\ ppc' = [ppc EXCEPT ![t] = "top"]
        /\ thread' = t
        /\ UNCHANGED pscan

start_server ==
    /\ mainPc = "idle"
    /\ ~already_running
    /\ IF ~HasOptionAttr
       THEN \* AttributeError on self._option after Server() is created
            /\ server' = "created"
            /\ lastStart' = "raised"
            /\ UNCHANGED <<running, nodes, nodeVal, cache, methodNodes,
                           stopEvent, thread, pollVars>>
       ELSE /\ add_properties
            /\ add_methods
            /\ server' = "serving"
            /\ running' = TRUE
            /\ clear_stop_event
            /\ IF HasPollerMethod
               THEN spawn_poller /\ lastStart' = "ok"
               ELSE \* AttributeError on self._update_variables
                    /\ lastStart' = "raised"
                    /\ UNCHANGED <<thread, pollVars>>
    /\ UNCHANGED <<dev, lock, mainPc, callPc, callNode, lastCall>>

-----------------------------------------------------------------------------
(* stop_server (lines 301-317): set the stop event, then join the poller   *)
(* with a timeout and tear everything down.                                *)

stop_server ==
    /\ mainPc = "idle"
    /\ running
    /\ stopEvent' = TRUE
    /\ mainPc' = "joining"
    /\ UNCHANGED <<running, server, nodes, nodeVal, cache, methodNodes,
                   thread, pollVars, dev, lock, callPc, callNode, lastCall, lastStart>>

\* Mutant: join returns at once.
Joined_never_waits == TRUE

\* join returns when the thread has ended.
Joined == thread # NoThread => ~Live(thread)

\* join gives up after 2 s: the poller is still blocked on device_lock,
\* held by a device method that runs longer than that.
JoinTimedOut ==
    /\ JoinMayTimeout
    /\ thread # NoThread
    /\ ppc[thread] = "acquire"
    /\ lock = "call"

\* Mutant: the server is not stopped (lines 311-313 missing); it keeps
\* serving its method nodes.
stop_server_join_server_kept ==
    /\ mainPc = "joining"
    /\ Joined \/ JoinTimedOut
    /\ thread' = NoThread
    /\ running' = FALSE
    /\ nodes' = {}
    /\ cache' = [a \in DataAttrs |-> NoVal]
    /\ mainPc' = "idle"
    /\ UNCHANGED <<server, methodNodes, nodeVal, stopEvent, ppc, pscan, dev, lock,
                   callPc, callNode, lastCall, lastStart>>

stop_server_join ==
    /\ mainPc = "joining"
    /\ Joined \/ JoinTimedOut
    /\ thread' = NoThread
    /\ server' = "none"
    /\ running' = FALSE
    /\ nodes' = {}
    /\ cache' = [a \in DataAttrs |-> NoVal]
    /\ methodNodes' = {}
    /\ mainPc' = "idle"
    /\ UNCHANGED <<nodeVal, stopEvent, ppc, pscan, dev, lock, callPc, callNode,
                   lastCall, lastStart>>

-----------------------------------------------------------------------------
(* _update_variables (lines 353-368), one action per step of its loop.     *)

\* Mutant: the loop condition does not test the stop event.
poll_loop_test_ignores_stop(t) ==
    /\ ppc[t] = "top"
    /\ ppc' = [ppc EXCEPT ![t] = IF running THEN "acquire" ELSE "off"]
    /\ UNCHANGED <<running, server, nodes, nodeVal, cache, methodNodes,
                   stopEvent, thread, pscan, dev, lock, mainPc,
                   callPc, callNode, lastCall, lastStart>>

\* while not self._stop_event.is_set() and self._running and self.interface
poll_loop_test(t) ==
    /\ ppc[t] = "top"
    /\ ppc' = [ppc EXCEPT ![t] = IF ~stopEvent /\ running THEN "acquire" ELSE "off"]
    /\ UNCHANGED <<running, server, nodes, nodeVal, cache, methodNodes,
                   stopEvent, thread, pscan, dev, lock, mainPc,
                   callPc, callNode, lastCall, lastStart>>

\* with self.device_lock: for property, node in self._nodes.items()
poll_acquire(t) ==
    /\ ppc[t] = "acquire"
    /\ lock = "free"
    /\ lock' = t
    /\ pscan' = [pscan EXCEPT ![t] = nodes]
    /\ ppc' = [ppc EXCEPT ![t] = "scan"]
    /\ UNCHANGED <<running, server, nodes, nodeVal, cache, methodNodes,
                   stopEvent, thread, dev, mainPc, callPc, callNode, lastCall,
                   lastStart>>

\* node.set_value(current_value) succeeds (line 363).
pushed(p) ==
    nodeVal' = [nodeVal EXCEPT ![p] = dev[p]]

\* Mutant: the cache is updated whether or not set_value succeeded.
poll_push_cache_first(t, p) ==
    /\ cache' = [cache EXCEPT ![p] = dev[p]]
    /\ pushed(p) \/ UNCHANGED nodeVal

\* try: node.set_value(current_value); cache it / except: log (362-366).
poll_push(t, p) ==
    \/ pushed(p) /\ cache' = [cache EXCEPT ![p] = dev[p]]
    \/ UNCHANGED <<nodeVal, cache>>

\* One property: push it if it differs from the cache (lines 357-366).
poll_property(t) ==
    /\ ppc[t] = "scan"
    /\ \E p \in pscan[t] :
        /\ pscan' = [pscan EXCEPT ![t] = @ \ {p}]
        /\ IF cache[p] = dev[p]
           THEN UNCHANGED <<nodeVal, cache>>
           ELSE poll_push(t, p)
    /\ UNCHANGED <<running, server, nodes, methodNodes, stopEvent, thread,
                   ppc, dev, lock, mainPc, callPc, callNode, lastCall, lastStart>>

\* self._stop_event.wait(update_interval), still inside the with block.
poll_wait(t) ==
    /\ ppc[t] = "scan"
    /\ pscan[t] = {}
    /\ ppc' = [ppc EXCEPT ![t] = "wait"]
    /\ UNCHANGED <<running, server, nodes, nodeVal, cache, methodNodes,
                   stopEvent, thread, pscan, dev, lock, mainPc,
                   callPc, callNode, lastCall, lastStart>>

\* The wait returns (stop event or timeout) and the with block releases.
poll_release(t) ==
    /\ ppc[t] = "wait"
    /\ lock' = "free"
    /\ ppc' = [ppc EXCEPT ![t] = "top"]
    /\ UNCHANGED <<running, server, nodes, nodeVal, cache, methodNodes,
                   stopEvent, thread, pscan, dev, mainPc, callPc, callNode,
                   lastCall, lastStart>>

-----------------------------------------------------------------------------
(* The transport thread: protocol writes and method calls.                 *)

\* A client writes a writeable node.  Line 198 only stores write_callback
\* in an attribute of the node, so the server never calls it: the node
\* takes the value and the device does not.
write_node(p, v) ==
    /\ server = "serving"
    /\ p \in nodes \cap Writeable
    /\ nodeVal' = [nodeVal EXCEPT ![p] = v]
    /\ UNCHANGED <<running, server, nodes, cache, methodNodes, stopEvent,
                   thread, pollVars, dev, lock, mainPc, callPc, callNode, lastCall,
                   lastStart>>

\* A client calls the method node of m: the transport thread enters
\* method_wrapper and blocks on `with self.device_lock` (line 249).
method_request(m) ==
    /\ server = "serving"
    /\ m \in methodNodes
    /\ callPc = "idle"
    /\ callPc' = "waiting"
    /\ callNode' = m
    /\ UNCHANGED <<running, server, nodes, nodeVal, cache, methodNodes,
                   stopEvent, thread, pollVars, dev, lock, mainPc, lastCall,
                   lastStart>>

\* Mutant: the lock taken by hand and not released when the call raises.
method_wrapper_leaks_lock(m, args) ==
    /\ callPc = "waiting"
    /\ callNode = m
    /\ lock = "free"
    /\ lock' = "call"
    /\ IF DirLast \in Callables /\ Arity[m] = Arity[DirLast]
       THEN /\ dev' = MethodEffect(DirLast, args, dev)
            /\ callPc' = "busy"
            /\ lastCall' = [node |-> m, target |-> DirLast, ok |-> TRUE]
       ELSE /\ lastCall' = [node |-> m, target |-> DirLast, ok |-> FALSE]
            /\ callPc' = "idle"
            /\ UNCHANGED dev
    /\ UNCHANGED <<running, server, nodes, nodeVal, cache, methodNodes,
                   stopEvent, thread, pollVars, mainPc, callNode, lastStart>>

\* method_wrapper gets device_lock and looks up method_name, which by
\* then the loop of _add_methods has left at the last name of
\* dir(interface) (line 250).  Calling a non-callable, or with the wrong
\* number of arguments (args has Arity[m] of them), raises TypeError
\* inside the with block, which releases the lock at once.
method_wrapper(m, args) ==
    /\ callPc = "waiting"
    /\ callNode = m
    /\ lock = "free"
    /\ IF DirLast \in Callables /\ Arity[m] = Arity[DirLast]
       THEN /\ lock' = "call"
            /\ dev' = MethodEffect(DirLast, args, dev)
            /\ callPc' = "busy"
            /\ lastCall' = [node |-> m, target |-> DirLast, ok |-> TRUE]
       ELSE /\ lastCall' = [node |-> m, target |-> DirLast, ok |-> FALSE]
            /\ callPc' = "idle"
            /\ UNCHANGED <<lock, dev>>
    /\ UNCHANGED <<running, server, nodes, nodeVal, cache, methodNodes,
                   stopEvent, thread, pollVars, mainPc, callNode, lastStart>>

\* The device method returns and the with block releases the lock.
method_return ==
    /\ callPc = "busy"
    /\ lock' = "free"
    /\ callPc' = "idle"
    /\ UNCHANGED <<running, server, nodes, nodeVal, cache, methodNodes,
                   stopEvent, thread, pollVars, dev, mainPc, callNode,
                   lastCall, lastStart>>

\* Mutant: the simulation changes the device without taking device_lock.
simulate_unlocked(a, v) ==
    /\ dev' = [dev EXCEPT ![a] = v]
    /\ UNCHANGED <<running, server, nodes, nodeVal, cache, methodNodes,
                   stopEvent, thread, pollVars, lock, mainPc, callPc, callNode,
                   lastCall, lastStart>>

\* The simulation advances the device while holding device_lock.
simulate(a, v) ==
    /\ lock = "free"
    /\ dev' = [dev EXCEPT ![a] = v]
    /\ UNCHANGED <<running, server, nodes, nodeVal, cache, methodNodes,
                   stopEvent, thread, pollVars, lock, mainPc, callPc, callNode,
                   lastCall, lastStart>>

-----------------------------------------------------------------------------
\* One step of the poller thread t.
poller(t) ==
    \/ poll_loop_test(t)
    \/ poll_acquire(t)
    \/ poll_property(t)
    \/ poll_wait(t)
    \/ poll_release(t)

Next ==
    \/ start_server
    \/ stop_server
    \/ stop_server_join
    \/ \E t \in PollerSlots : poller(t)
    \/ \E p \in DataAttrs, v \in Values : write_node(p, v)
    \/ \E m \in Callables : method_request(m)
    \/ \E m \in Callables : \E args \in ArgsOf(m) : method_wrapper(m, args)
    \/ method_return
    \/ \E a \in DataAttrs, v \in Values : simulate(a, v)

Spec == Init /\ [][Next]_vars

\* The threads are scheduled: a poller step, the transport thread getting
\* a free device_lock, the device method returning and the owner's join
\* returning each happen if they stay possible.  Clients, the simulation
\* and the owner's decisions to start or stop are not fair.  Lock is not a
\* fair lock, so a thread waiting for it has weak fairness only.
FairSpec ==
    /\ Spec
    /\ \A t \in PollerSlots : WF_vars(poller(t))
    /\ WF_vars(\E m \in Callables : \E args \in ArgsOf(m) : method_wrapper(m, args))
    /\ WF_vars(method_return)
    /\ WF_vars(stop_server_join)

-----------------------------------------------------------------------------
(* The bridge the specification describes (module OPCUABridge), seen in    *)
(* the adapter: it is running while _running holds; its property nodes,    *)
(* method nodes, served values and cache are _nodes, the method nodes, the *)
(* node values and _property_values.  The stop event, the threads and the  *)
(* lock are the adapter's own and have no counterpart.                     *)

Bridge == INSTANCE OPCUABridge
    WITH status <- IF running THEN "Running" ELSE "Stopped",
         props <- nodes, methods <- methodNodes, served <- nodeVal,
         cache <- cache, device <- dev,
         PropNodes <- Exposed, WriteNodes <- Writeable, MethodSet <- MethodNames

-----------------------------------------------------------------------------
(* Properties.                                                             *)

\* At most one _update_variables thread runs at a time: start_server's
\* early return and stop_server's join must keep a second poller from
\* being spawned while an earlier one still loops.
SinglePoller == \A t, u \in PollerSlots : Live(t) /\ Live(u) => t = u

\* While the adapter is running and not being stopped, a poller is alive:
\* start_server clears the stop event before it spawns the thread, and the
\* thread only leaves its loop on the stop event or on _running = False.
RunningHasPoller ==
    running /\ mainPc = "idle" => thread # NoThread /\ Live(thread)

\* Once stop_server has returned, no poller is left and the node map and
\* the value cache are empty: nothing survives into the next start.
StopLeavesNothing ==
    ~running /\ mainPc = "idle" =>
        /\ \A t \in PollerSlots : ~Live(t)
        /\ nodes = {}
        /\ \A a \in DataAttrs : cache[a] = NoVal

\* device_lock is held by exactly the thread inside its with block: the
\* transport thread while the device method runs, a poller from taking its
\* node list until its wait returns.  `with` releases the lock on every
\* path out of the block, the TypeError of a bad call included.
LockHolder ==
    /\ (lock = "call") = (callPc = "busy")
    /\ \A t \in PollerSlots : (lock = t) = (ppc[t] \in {"scan", "wait"})

\* While a poller compares the device with the cache and pushes, nothing
\* changes the device: every mutation waits for device_lock (spec section
\* 3), so a poll pass sees one state of the device.
ScanSeesStableDevice ==
    [][\A t \in PollerSlots : ppc[t] = "scan" => dev' = dev]_vars

\* For a read-only node, the cached value is the one the node serves: the
\* poller updates the cache only after set_value succeeded, so a node whose
\* push failed is retried on the next cycle instead of staying stale.
CacheMatchesNode ==
    \A p \in nodes \ Writeable : cache[p] = nodeVal[p]

\* start_server does not raise (spec: only transport failures propagate).
StartNeverRaises == lastStart # "raised"

\* A call of the method node of m invokes m.
CallReachesNamedMethod ==
    lastCall = NoCall \/ (lastCall.ok /\ lastCall.target = lastCall.node)

\* After a protocol write of v to a property, the device attribute is v.
WriteReachesDevice ==
    [][\A p \in DataAttrs, v \in Values : write_node(p, v) => dev'[p] = v]_vars


\* A method call waiting for device_lock eventually gets it (the spec: no
\* bridge operation blocks indefinitely).  The poller waits the update
\* interval inside `with self.device_lock` (line 368) and takes the lock
\* again straight after releasing it.
CallServed == callPc = "waiting" ~> callPc # "waiting"

\* From some point on no method call is in progress.
ClientsQuiesce == <>[](callPc = "idle")

\* Once clients stop calling methods, a stop_server that has set the stop
\* event returns: the poller sees the event at its next loop test, leaves
\* the loop, and the join (line 307) ends.
StopReturns == ClientsQuiesce => (mainPc = "joining" ~> mainPc = "idle")

\* The adapter implements the bridge of the specification: start_server
\* builds the whole address space and its cache from the device at once,
\* stop_server clears all of it only after the poller has ended, and the
\* poller changes a node and its cache entry only together, only for a
\* node of the running adapter whose device value differs from the cache.
ImplementsBridge == Bridge!Spec

=============================================================================
