------------------------ MODULE OPCUABridgeRefinement ------------------------
(***************************************************************************)
(* The adapter implements the bridge of the specification (OPCUABridge)    *)
(* under the mapping Bridge of OPCUAAdapter, for every device, whenever    *)
(* the join of the poller cannot time out.                                 *)
(***************************************************************************)
EXTENDS OPCUAAdapterProofs

\* A stop_server waiting in its join is stopping a running adapter.
JoiningRunning == mainPc = "joining" => running

\* A live poller visits only nodes of the current address space: it took
\* its list from _nodes under the lock, and _nodes is rebuilt or cleared
\* only while no poller is alive.
ScanInNodes == \A t \in PollerSlots : Live(t) => pscan[t] \subseteq nodes

RefInv == IInv /\ JoiningRunning /\ ScanInNodes

LEMMA RefInvInit == Init => RefInv
BY IInvInit DEF Init, RefInv, JoiningRunning, ScanInNodes, Live

\* The two conjuncts added to IInv are kept by every step.
LEMMA RefInvStep ==
    ASSUME ~JoinMayTimeout
    PROVE  RefInv /\ [Next]_vars => RefInv'
<1> SUFFICES ASSUME RefInv, [Next]_vars PROVE RefInv'
  OBVIOUS
<1>0. IInv' /\ TypeOK /\ TypeOK'
  BY IInvStep DEF RefInv, IInv
<1> USE <1>0
<1>a. ASSUME NEW t \in PollerSlots, Live(t) PROVE t = thread /\ running
  BY <1>a, SlotsDistinct DEF RefInv, IInv, LiveIsThread, ThreadRunning
<1>1. CASE start_server
  <2>1. \A t \in PollerSlots : ~Live(t)
    BY <1>1, <1>a DEF start_server, already_running
  <2>2. CASE ~HasOptionAttr
    BY <1>1, <2>1, <2>2 DEF start_server, pollVars, RefInv, JoiningRunning,
       ScanInNodes, Live
  <2>3. CASE HasOptionAttr
    <3>1. nodes' = Exposed /\ mainPc' = mainPc /\ running'
      BY <1>1, <2>3 DEF start_server, add_properties
    <3>2. \A t \in PollerSlots : pscan'[t] \subseteq Exposed
      BY DEF TypeOK
    <3>3. QED
      BY <3>1, <3>2 DEF RefInv, JoiningRunning, ScanInNodes
  <2>4. QED
    BY <2>2, <2>3
<1>2. CASE stop_server
  BY <1>2 DEF stop_server, pollVars, RefInv, JoiningRunning, ScanInNodes, Live
<1>3. CASE stop_server_join
  <2>1. \A t \in PollerSlots : ~Live(t)
    BY <1>3, <1>a, SlotsDistinct DEF stop_server_join, Joined, JoinTimedOut
  <2>2. ppc' = ppc /\ mainPc' = "idle"
    BY <1>3 DEF stop_server_join
  <2>3. QED
    BY <2>1, <2>2 DEF RefInv, JoiningRunning, ScanInNodes, Live
<1>4. ASSUME NEW t \in PollerSlots, poller(t) PROVE RefInv'
  <2>1. UNCHANGED <<nodes, running, mainPc>>
    BY <1>4 DEF poller, poll_loop_test, poll_acquire, poll_property, poll_wait,
       poll_release
  <2>2. \A u \in PollerSlots : u # t => pscan'[u] = pscan[u] /\ ppc'[u] = ppc[u]
    BY <1>4 DEF poller, poll_loop_test, poll_acquire, poll_property, poll_wait,
       poll_release, TypeOK
  <2>3. Live(t)' => pscan'[t] \subseteq nodes'
    <3>1. CASE poll_acquire(t)
      BY <3>1, <2>1 DEF poll_acquire, TypeOK
    <3>2. CASE poll_property(t)
      BY <3>2, <2>1, <1>4 DEF poll_property, RefInv, ScanInNodes, Live
    <3>3. CASE poll_loop_test(t) \/ poll_wait(t) \/ poll_release(t)
      BY <3>3, <2>1 DEF poll_loop_test, poll_wait, poll_release, RefInv,
         ScanInNodes, Live
    <3>4. QED
      BY <1>4, <3>1, <3>2, <3>3 DEF poller
  <2>4. QED
    BY <2>1, <2>2, <2>3 DEF RefInv, JoiningRunning, ScanInNodes, Live
<1>5. CASE \/ \E p \in DataAttrs, v \in Values : write_node(p, v)
           \/ \E m \in Callables : method_request(m)
           \/ \E m \in Callables : \E args \in ArgsOf(m) : method_wrapper(m, args)
           \/ method_return
           \/ \E a \in DataAttrs, v \in Values : simulate(a, v)
           \/ UNCHANGED vars
  <2>1. UNCHANGED <<nodes, running, mainPc, ppc, pscan>>
    BY <1>5 DEF write_node, method_request, method_wrapper, method_return,
       simulate, pollVars, vars
  <2>2. QED
    BY <2>1 DEF RefInv, JoiningRunning, ScanInNodes, Live
<1>6. QED
  BY <1>1, <1>2, <1>3, <1>4, <1>5 DEF Next

-----------------------------------------------------------------------------
(* Each step of the adapter is a step of the bridge, or leaves the bridge  *)
(* unchanged.                                                              *)

LEMMA BridgeInit == Init => Bridge!Init
BY InitDevType DEF Init, Bridge!Init, Bridge!Empty

LEMMA BridgeStep ==
    ASSUME ~JoinMayTimeout
    PROVE  RefInv /\ [Next]_vars => [Bridge!Next]_Bridge!vars
<1> SUFFICES ASSUME RefInv, [Next]_vars PROVE [Bridge!Next]_Bridge!vars
  OBVIOUS
<1>0. TypeOK /\ TypeOK'
  BY TypeStep DEF RefInv, IInv
<1> USE <1>0
<1>1. CASE start_server
  <2>1. CASE ~HasOptionAttr
    BY <1>1, <2>1 DEF start_server, Bridge!vars
  <2>2. CASE HasOptionAttr
    <3>1. Bridge!Start
      BY <1>1, <2>2 DEF start_server, already_running, add_properties,
         add_methods, Bridge!Start
    <3>2. QED
      BY <3>1 DEF Bridge!Next
  <2>3. QED
    BY <2>1, <2>2
<1>2. CASE stop_server
  BY <1>2 DEF stop_server, Bridge!vars
<1>3. CASE stop_server_join
  <2>1. running
    BY <1>3 DEF stop_server_join, RefInv, JoiningRunning
  <2>2. Bridge!Stop
    BY <1>3, <2>1 DEF stop_server_join, Bridge!Stop, Bridge!Empty
  <2>3. QED
    BY <2>2 DEF Bridge!Next
<1>4. ASSUME NEW t \in PollerSlots, poller(t) PROVE [Bridge!Next]_Bridge!vars
  <2>1. CASE poll_property(t)
    <3>1. PICK p \in pscan[t] :
            /\ IF cache[p] = dev[p]
               THEN UNCHANGED <<nodeVal, cache>>
               ELSE poll_push(t, p)
      BY <2>1 DEF poll_property
    <3>2. UNCHANGED <<running, nodes, methodNodes, dev>>
      BY <2>1 DEF poll_property
    <3>3. running /\ p \in nodes /\ p \in DataAttrs
      <4>1. Live(t)
        BY <2>1 DEF poll_property, Live
      <4>2. QED
        BY <4>1, SlotsDistinct DEF RefInv, IInv, LiveIsThread, ThreadRunning,
           ScanInNodes, TypeOK, Exposed
    <3>4. CASE cache[p] # dev[p] /\ pushed(p) /\ cache' = [cache EXCEPT ![p] = dev[p]]
      <4>1. Bridge!Push(p)
        BY <3>2, <3>3, <3>4 DEF pushed, Bridge!Push
      <4>2. QED
        BY <3>3, <4>1 DEF Bridge!Next
    <3>5. CASE ~(cache[p] # dev[p] /\ pushed(p) /\ cache' = [cache EXCEPT ![p] = dev[p]])
      BY <3>1, <3>2, <3>5 DEF poll_push, Bridge!vars
    <3>6. QED
      BY <3>4, <3>5
  <2>2. CASE ~poll_property(t)
    BY <1>4, <2>2 DEF poller, poll_loop_test, poll_acquire, poll_wait,
       poll_release, Bridge!vars
  <2>3. QED
    BY <2>1, <2>2
<1>5. ASSUME NEW p \in DataAttrs, NEW v \in Values, write_node(p, v)
      PROVE  [Bridge!Next]_Bridge!vars
  <2>1. running
    BY <1>5 DEF write_node, RefInv, IInv, StoppedEmpty
  <2>2. Bridge!Write(p, v)
    BY <1>5, <2>1 DEF write_node, Bridge!Write
  <2>3. QED
    BY <2>2 DEF Bridge!Next
<1>6. CASE \/ \E m \in Callables : \E args \in ArgsOf(m) : method_wrapper(m, args)
           \/ \E a \in DataAttrs, v \in Values : simulate(a, v)
  <2>1. UNCHANGED <<running, nodes, methodNodes, nodeVal, cache>>
    BY <1>6 DEF method_wrapper, simulate
  <2>2. Bridge!DeviceStep \/ UNCHANGED Bridge!vars
    BY <2>1 DEF Bridge!DeviceStep, Bridge!vars, TypeOK
  <2>3. QED
    BY <2>2 DEF Bridge!Next
<1>7. CASE \/ \E m \in Callables : method_request(m)
           \/ method_return
           \/ UNCHANGED vars
  BY <1>7 DEF method_request, method_return, vars, Bridge!vars
<1>8. QED
  BY <1>1, <1>2, <1>3, <1>4, <1>5, <1>6, <1>7 DEF Next

\* When no device call outlasts the join timeout, the adapter implements
\* the bridge the specification describes: start_server builds the whole
\* address space at once, stop_server clears it only once the poller has
\* ended, and the poller pushes a node only with its cache entry, only for
\* a changed value of a node of the running adapter.
THEOREM ImplementsBridgeThm ==
    ASSUME ~JoinMayTimeout
    PROVE  Spec => ImplementsBridge
<1>1. Spec => []RefInv
  BY RefInvInit, RefInvStep, PTL DEF Spec
<1>2. QED
  BY <1>1, BridgeInit, BridgeStep, PTL DEF Spec, ImplementsBridge, Bridge!Spec

=============================================================================
