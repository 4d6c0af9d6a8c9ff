------------------------- MODULE OPCUAAdapterProofs -------------------------
(***************************************************************************)
(* Proofs about OPCUAAdapter that hold for every value of its constants:   *)
(* the type invariant, and, whenever the poller can always be joined,      *)
(* that at most one poller thread runs and that stop_server leaves no      *)
(* poller, node or cached value behind.                                    *)
(***************************************************************************)
EXTENDS OPCUAAdapter, TLAPS

-----------------------------------------------------------------------------
(* The parts of AdapterAssumption the proofs use, one fact each.           *)

LEMMA InitDevType == InitDev \in [DataAttrs -> Values]
  BY AdapterAssumption

LEMMA EffectType ==
    \A m \in Callables : \A a \in [1 .. Arity[m] -> Values] :
       \A d \in [DataAttrs -> Values] :
          MethodEffect(m, a, d) \in [DataAttrs -> Values]
  BY AdapterAssumption

LEMMA DirLastName == DirLast \in Names
  BY AdapterAssumption

LEMMA SlotsDistinct ==
    /\ NoThread \notin PollerSlots
    /\ PollerSlots \cap {"free", "call"} = {}
  BY AdapterAssumption

-----------------------------------------------------------------------------
(* Type correctness.                                                       *)

\* Every step of the adapter keeps each variable in its type.
LEMMA TypeStep == TypeOK /\ [Next]_vars => TypeOK'
<1> SUFFICES ASSUME TypeOK, [Next]_vars PROVE TypeOK'
  OBVIOUS
<1>1. CASE start_server
  <2>1. CASE ~HasOptionAttr
    BY <1>1, <2>1 DEF start_server, already_running, pollVars, TypeOK
  <2>2. CASE HasOptionAttr
    <3>1. /\ nodes' = Exposed
          /\ nodeVal' = [x \in DataAttrs |->
                            IF x \in Exposed THEN dev[x] ELSE nodeVal[x]]
          /\ cache' = [x \in DataAttrs |-> IF x \in Exposed THEN dev[x] ELSE NoVal]
          /\ methodNodes' = MethodNames
          /\ server' = "serving"
          /\ running' = TRUE
          /\ stopEvent' = FALSE
          /\ UNCHANGED <<dev, lock, mainPc, callPc, callNode, lastCall>>
      BY <1>1, <2>2 DEF start_server, add_properties, add_methods,
         clear_stop_event
    <3>2. /\ nodeVal' \in [DataAttrs -> Values]
          /\ cache' \in [DataAttrs -> Values \cup {NoVal}]
      BY <3>1 DEF TypeOK
    <3>3. /\ lastStart' \in {"none", "ok", "raised"}
          /\ thread' \in PollerSlots \cup {NoThread}
          /\ ppc' \in [PollerSlots -> PollerStates]
          /\ pscan' \in [PollerSlots -> SUBSET Exposed]
      <4>1. CASE HasPollerMethod
        BY <1>1, <2>2, <4>1 DEF start_server, spawn_poller, TypeOK, PollerStates
      <4>2. CASE ~HasPollerMethod
        BY <1>1, <2>2, <4>2 DEF start_server, pollVars, TypeOK
      <4>3. QED
        BY <4>1, <4>2
    <3>4. QED
      BY <3>1, <3>2, <3>3, Zenon DEF TypeOK
  <2>3. QED
    BY <2>1, <2>2
<1>2. CASE stop_server
  BY <1>2 DEF stop_server, pollVars, TypeOK
<1>3. CASE stop_server_join
  BY <1>3 DEF stop_server_join, TypeOK, Live
<1>4. ASSUME NEW t \in PollerSlots, poll_loop_test(t) PROVE TypeOK'
  BY <1>4 DEF poll_loop_test, TypeOK, PollerStates
<1>5. ASSUME NEW t \in PollerSlots, poll_acquire(t) PROVE TypeOK'
  BY <1>5 DEF poll_acquire, TypeOK, PollerStates
<1>6. ASSUME NEW t \in PollerSlots, poll_property(t) PROVE TypeOK'
  <2>1. PICK p \in pscan[t] :
          /\ pscan' = [pscan EXCEPT ![t] = @ \ {p}]
          /\ IF cache[p] = dev[p]
             THEN UNCHANGED <<nodeVal, cache>>
             ELSE poll_push(t, p)
    BY <1>6 DEF poll_property
  <2>2. p \in DataAttrs
    BY <2>1 DEF TypeOK, Exposed
  <2>3. /\ nodeVal' \in [DataAttrs -> Values]
        /\ cache' \in [DataAttrs -> Values \cup {NoVal}]
    BY <2>1, <2>2 DEF poll_push, pushed, TypeOK
  <2>4. pscan' \in [PollerSlots -> SUBSET Exposed]
    BY <2>1 DEF TypeOK
  <2>5. QED
    BY <1>6, <2>3, <2>4 DEF poll_property, TypeOK
<1>7. ASSUME NEW t \in PollerSlots, poll_wait(t) PROVE TypeOK'
  BY <1>7 DEF poll_wait, TypeOK, PollerStates
<1>8. ASSUME NEW t \in PollerSlots, poll_release(t) PROVE TypeOK'
  BY <1>8 DEF poll_release, TypeOK, PollerStates
<1>9. ASSUME NEW p \in DataAttrs, NEW v \in Values, write_node(p, v)
      PROVE TypeOK'
  BY <1>9 DEF write_node, pollVars, TypeOK
<1>15. ASSUME NEW m \in Callables, method_request(m) PROVE TypeOK'
  BY <1>15 DEF method_request, pollVars, TypeOK
<1>10. ASSUME NEW m \in Callables, NEW args \in ArgsOf(m),
              method_wrapper(m, args)
       PROVE TypeOK'
  <2>1. lastCall' \in [node : Callables \cup {"none"},
                      target : Names \cup {"none"}, ok : BOOLEAN]
    <3>1. \E ok \in BOOLEAN : lastCall' = [node |-> m, target |-> DirLast, ok |-> ok]
      BY <1>10 DEF method_wrapper
    <3>2. QED
      BY <3>1, DirLastName DEF Names
  <2>2. CASE DirLast \in Callables /\ Arity[m] = Arity[DirLast]
    <3>1. args \in [1 .. Arity[DirLast] -> Values]
      BY <2>2 DEF ArgsOf
    <3>2. MethodEffect(DirLast, args, dev) \in [DataAttrs -> Values]
      BY <2>2, <3>1, EffectType DEF TypeOK
    <3>3. /\ lock' = "call"
          /\ dev' = MethodEffect(DirLast, args, dev)
          /\ callPc' = "busy"
          /\ UNCHANGED <<running, server, nodes, nodeVal, cache, methodNodes,
                         stopEvent, thread, ppc, pscan, mainPc, callNode,
                         lastStart>>
      BY <1>10, <2>2 DEF method_wrapper, pollVars
    <3>4. QED
      BY <2>1, <3>2, <3>3, Zenon DEF TypeOK
  <2>3. CASE ~(DirLast \in Callables /\ Arity[m] = Arity[DirLast])
    <3>1. /\ callPc' = "idle"
          /\ UNCHANGED <<running, server, nodes, nodeVal, cache, methodNodes,
                         stopEvent, thread, ppc, pscan, mainPc, callNode,
                         lastStart, lock, dev>>
      BY <1>10, <2>3 DEF method_wrapper, pollVars
    <3>2. QED
      BY <2>1, <3>1, Zenon DEF TypeOK
  <2>4. QED
    BY <2>2, <2>3
<1>11. CASE method_return
  BY <1>11 DEF method_return, pollVars, TypeOK
<1>12. ASSUME NEW a \in DataAttrs, NEW v \in Values, simulate(a, v)
       PROVE TypeOK'
  BY <1>12 DEF simulate, pollVars, TypeOK
<1>13. CASE UNCHANGED vars
  BY <1>13 DEF vars, TypeOK
<1>14. QED
  BY <1>1, <1>2, <1>3, <1>4, <1>5, <1>6, <1>7, <1>8, <1>9, <1>10, <1>11,
     <1>12, <1>13, <1>15 DEF Next, poller

\* The initial state is well typed.
LEMMA TypeInit == Init => TypeOK
<1> SUFFICES ASSUME Init PROVE TypeOK
  OBVIOUS
<1>1. nodeVal \in [DataAttrs -> Values] /\ dev \in [DataAttrs -> Values]
  BY InitDevType DEF Init
<1>2. cache \in [DataAttrs -> Values \cup {NoVal}]
  BY DEF Init
<1>3. /\ ppc \in [PollerSlots -> PollerStates]
      /\ pscan \in [PollerSlots -> SUBSET Exposed]
  BY DEF Init, PollerStates
<1>4. lastCall \in [node : Callables \cup {"none"},
                    target : Names \cup {"none"}, ok : BOOLEAN]
  BY DEF Init, NoCall
<1>5. QED
  BY <1>1, <1>2, <1>3, <1>4, Zenon DEF Init, TypeOK

\* The type invariant TypeOK holds in every reachable state of the adapter.
THEOREM TypeCorrect == Spec => []TypeOK
  BY TypeInit, TypeStep, PTL DEF Spec

-----------------------------------------------------------------------------
(* One poller, and nothing left after stop_server, when the join of the    *)
(* poller never times out.  Neither property is inductive alone: a second  *)
(* spawn is excluded only because a live poller is always the thread       *)
(* _update_thread names, and that thread is set only while _running holds, *)
(* so the early return of start_server sees it.                            *)

\* Every live poller is the thread stored in _update_thread.
LiveIsThread == \A t \in PollerSlots : Live(t) => t = thread

\* _update_thread is set only while the adapter is running.
ThreadRunning == thread # NoThread => running

\* While stopped, the node map and the value cache are empty.
StoppedEmpty == ~running => nodes = {} /\ \A a \in DataAttrs : cache[a] = NoVal

IInv == TypeOK /\ LiveIsThread /\ ThreadRunning /\ StoppedEmpty

LEMMA IInvInit == Init => IInv
<1> SUFFICES ASSUME Init PROVE IInv
  OBVIOUS
<1>1. TypeOK
  BY TypeInit
<1>2. QED
  BY <1>1 DEF Init, IInv, LiveIsThread, ThreadRunning, StoppedEmpty, Live

\* Every step keeps IInv, provided the join of the poller cannot time out.
LEMMA IInvStep ==
    ASSUME ~JoinMayTimeout
    PROVE  IInv /\ [Next]_vars => IInv'
<1> SUFFICES ASSUME IInv, [Next]_vars PROVE IInv'
  OBVIOUS
<1>0. /\ TypeOK
      /\ TypeOK'
      /\ NoThread \notin PollerSlots
  BY TypeStep, SlotsDistinct DEF IInv
<1> USE <1>0
\* A thread that is live is the running adapter's poller.
<1>a. ASSUME NEW t \in PollerSlots, Live(t) PROVE t = thread /\ running
  BY <1>a DEF IInv, LiveIsThread, ThreadRunning
<1>1. CASE start_server
  <2>1. thread = NoThread /\ \A t \in PollerSlots : ~Live(t)
    BY <1>1, <1>a DEF start_server, already_running, IInv, ThreadRunning
  <2>2. CASE ~HasOptionAttr
    <3>1. UNCHANGED <<running, nodes, cache, thread, ppc>>
      BY <1>1, <2>2 DEF start_server, pollVars
    <3>2. QED
      BY <3>1 DEF IInv, LiveIsThread, ThreadRunning, StoppedEmpty, Live
  <2>3. CASE HasOptionAttr /\ HasPollerMethod
    <3>1. PICK t \in PollerSlots :
            /\ ppc' = [ppc EXCEPT ![t] = "top"]
            /\ thread' = t
      BY <1>1, <2>3 DEF start_server, spawn_poller
    <3>2. LiveIsThread'
      BY <2>1, <3>1 DEF LiveIsThread, Live, TypeOK
    <3>3. running'
      BY <1>1, <2>3 DEF start_server
    <3>4. QED
      BY <3>2, <3>3 DEF IInv, ThreadRunning, StoppedEmpty
  <2>4. CASE HasOptionAttr /\ ~HasPollerMethod
    <3>1. UNCHANGED <<thread, ppc>> /\ running'
      BY <1>1, <2>4 DEF start_server, pollVars
    <3>2. QED
      BY <2>1, <3>1 DEF IInv, LiveIsThread, ThreadRunning, StoppedEmpty, Live
  <2>5. QED
    BY <2>2, <2>3, <2>4
<1>2. CASE stop_server
  BY <1>2 DEF stop_server, pollVars, IInv, LiveIsThread, ThreadRunning,
     StoppedEmpty, Live
<1>3. CASE stop_server_join
  <2>1. \A t \in PollerSlots : ~Live(t)
    BY <1>3, <1>a DEF stop_server_join, Joined, JoinTimedOut
  <2>2. /\ thread' = NoThread
        /\ running' = FALSE
        /\ nodes' = {}
        /\ cache' = [a \in DataAttrs |-> NoVal]
        /\ ppc' = ppc
    BY <1>3 DEF stop_server_join
  <2>3. QED
    BY <2>1, <2>2 DEF IInv, LiveIsThread, ThreadRunning, StoppedEmpty, Live
\* A poller step changes only its own program counter (to a live one, or
\* to "off"), and, while scanning, the cache of a running adapter.
<1>4. ASSUME NEW t \in PollerSlots, poller(t) PROVE IInv'
  <2>1. Live(t)
    BY <1>4 DEF poller, poll_loop_test, poll_acquire, poll_wait, poll_release,
       poll_property, Live
  <2>2. /\ UNCHANGED <<thread, running, nodes>>
        /\ \A u \in PollerSlots : u # t => ppc'[u] = ppc[u]
    BY <1>4 DEF poller, poll_loop_test, poll_acquire, poll_wait, poll_release,
       poll_property, TypeOK
  <2>3. LiveIsThread'
    BY <2>1, <2>2, <1>a DEF LiveIsThread, Live
  <2>4. QED
    BY <2>1, <2>2, <2>3, <1>a DEF IInv, ThreadRunning, StoppedEmpty
<1>5. ASSUME NEW p \in DataAttrs, NEW v \in Values, write_node(p, v)
      PROVE  IInv'
  BY <1>5 DEF write_node, pollVars, IInv, LiveIsThread, ThreadRunning,
     StoppedEmpty, Live
<1>6. ASSUME NEW m \in Callables, NEW args \in ArgsOf(m),
             method_wrapper(m, args)
      PROVE  IInv'
  BY <1>6 DEF method_wrapper, pollVars, IInv, LiveIsThread, ThreadRunning,
     StoppedEmpty, Live
<1>11. ASSUME NEW m \in Callables, method_request(m) PROVE IInv'
  BY <1>11 DEF method_request, pollVars, IInv, LiveIsThread, ThreadRunning,
     StoppedEmpty, Live
<1>7. CASE method_return
  BY <1>7 DEF method_return, pollVars, IInv, LiveIsThread, ThreadRunning,
     StoppedEmpty, Live
<1>8. ASSUME NEW a \in DataAttrs, NEW v \in Values, simulate(a, v)
      PROVE  IInv'
  BY <1>8 DEF simulate, pollVars, IInv, LiveIsThread, ThreadRunning,
     StoppedEmpty, Live
<1>9. CASE UNCHANGED vars
  BY <1>9 DEF vars, IInv, LiveIsThread, ThreadRunning, StoppedEmpty, Live
<1>10. QED
  BY <1>1, <1>2, <1>3, <1>4, <1>5, <1>6, <1>7, <1>8, <1>9, <1>11 DEF Next

\* When no device call outlasts the join timeout of stop_server, at most
\* one _update_variables thread is ever alive (start_server twice, or a
\* restart, never leaves two pollers running).
THEOREM SinglePollerThm ==
    ASSUME ~JoinMayTimeout
    PROVE  Spec => []SinglePoller
<1>1. IInv => SinglePoller
  BY DEF IInv, LiveIsThread, SinglePoller
<1>2. QED
  BY <1>1, IInvInit, IInvStep, PTL DEF Spec

\* Under the same condition, once stop_server has returned no poller is
\* left and the node map and value cache are empty.
THEOREM StopLeavesNothingThm ==
    ASSUME ~JoinMayTimeout
    PROVE  Spec => []StopLeavesNothing
<1>1. IInv => StopLeavesNothing
  BY SlotsDistinct DEF IInv, LiveIsThread, ThreadRunning, StoppedEmpty,
     StopLeavesNothing
<1>2. QED
  BY <1>1, IInvInit, IInvStep, PTL DEF Spec

-----------------------------------------------------------------------------
(* A read-only node and its cache entry agree.  The inductive form only    *)
(* adds the type invariant: add_properties fills both from the device,     *)
(* poll_push sets both or neither, write_node touches writeable nodes      *)
(* only, and stop_server empties the node map.                             *)

CInv == TypeOK /\ CacheMatchesNode

LEMMA CInvStep == CInv /\ [Next]_vars => CInv'
<1> SUFFICES ASSUME CInv, [Next]_vars PROVE CInv'
  OBVIOUS
<1>0. TypeOK /\ TypeOK'
  BY TypeStep DEF CInv
<1> USE <1>0
<1>1. CASE start_server
  <2>1. CASE ~HasOptionAttr
    BY <1>1, <2>1 DEF start_server, CInv, CacheMatchesNode
  <2>2. CASE HasOptionAttr
    <3>1. /\ nodes' = Exposed
          /\ nodeVal' = [x \in DataAttrs |->
                            IF x \in Exposed THEN dev[x] ELSE nodeVal[x]]
          /\ cache' = [x \in DataAttrs |-> IF x \in Exposed THEN dev[x] ELSE NoVal]
      BY <1>1, <2>2 DEF start_server, add_properties
    <3>2. QED
      BY <3>1 DEF CInv, CacheMatchesNode, Exposed
  <2>3. QED
    BY <2>1, <2>2
<1>2. ASSUME NEW t \in PollerSlots, poll_property(t) PROVE CInv'
  <2>1. PICK p \in pscan[t] :
          /\ IF cache[p] = dev[p]
             THEN UNCHANGED <<nodeVal, cache>>
             ELSE poll_push(t, p)
          /\ UNCHANGED nodes
    BY <1>2 DEF poll_property
  <2>2. p \in DataAttrs
    BY <2>1 DEF TypeOK, Exposed
  <2>3. \/ UNCHANGED <<nodeVal, cache>>
        \/ /\ nodeVal' = [nodeVal EXCEPT ![p] = dev[p]]
           /\ cache' = [cache EXCEPT ![p] = dev[p]]
    BY <2>1 DEF poll_push, pushed
  <2>4. CASE UNCHANGED <<nodeVal, cache>>
    BY <2>1, <2>4 DEF CInv, CacheMatchesNode
  <2>5. CASE /\ nodeVal' = [nodeVal EXCEPT ![p] = dev[p]]
             /\ cache' = [cache EXCEPT ![p] = dev[p]]
    <3>1. ASSUME NEW q \in nodes \ Writeable PROVE cache'[q] = nodeVal'[q]
      <4>1. q \in DataAttrs
        BY DEF TypeOK, Exposed
      <4>2. CASE q = p
        BY <2>2, <2>5, <4>2 DEF TypeOK
      <4>3. CASE q # p
        BY <2>5, <4>1, <4>3 DEF CInv, CacheMatchesNode, TypeOK
      <4>4. QED
        BY <4>2, <4>3
    <3>2. QED
      BY <3>1, <2>1 DEF CInv, CacheMatchesNode
  <2>6. QED
    BY <2>3, <2>4, <2>5
<1>3. ASSUME NEW p \in DataAttrs, NEW v \in Values, write_node(p, v)
      PROVE  CInv'
  BY <1>3 DEF write_node, CInv, CacheMatchesNode, TypeOK
<1>4. CASE stop_server_join
  BY <1>4 DEF stop_server_join, CInv, CacheMatchesNode
<1>5. CASE UNCHANGED <<nodes, nodeVal, cache>>
  BY <1>5 DEF CInv, CacheMatchesNode
<1>6. QED
  <2>1. ASSUME NEW t \in PollerSlots, poller(t), ~poll_property(t)
        PROVE  UNCHANGED <<nodes, nodeVal, cache>>
    BY <2>1 DEF poller, poll_loop_test, poll_acquire, poll_wait, poll_release
  <2>2. CASE \/ stop_server
             \/ method_return
             \/ \E m \in Callables : method_request(m)
             \/ \E m \in Callables : \E args \in ArgsOf(m) : method_wrapper(m, args)
             \/ \E a \in DataAttrs, v \in Values : simulate(a, v)
             \/ UNCHANGED vars
    BY <2>2, <1>5 DEF stop_server, method_return, method_request,
       method_wrapper, simulate, vars
  <2>3. ASSUME NEW t \in PollerSlots, poller(t) PROVE CInv'
    <3>1. CASE poll_property(t)
      BY <3>1, <1>2
    <3>2. CASE ~poll_property(t)
      BY <2>3, <3>2, <2>1, <1>5
    <3>3. QED
      BY <3>1, <3>2
  <2>4. QED
    BY <1>1, <1>3, <1>4, <2>2, <2>3 DEF Next

\* For every device and configuration, the value cached for a read-only
\* node is the value the node serves: _update_variables (lines 362-366)
\* updates _property_values only after node.set_value succeeded.
THEOREM CacheMatchesNodeThm == Spec => []CacheMatchesNode
<1>1. Init => CInv
  BY TypeInit DEF Init, CInv, CacheMatchesNode
<1>2. CInv => CacheMatchesNode
  BY DEF CInv
<1>3. QED
  BY <1>1, <1>2, CInvStep, PTL DEF Spec

-----------------------------------------------------------------------------
(* A running adapter has a live poller, whether or not joins time out.     *)
(* Inductive form: while running and not stopping, the stop event is       *)
(* clear, so the loop test of _update_thread keeps it in the loop.         *)

\* Running and not inside stop_server: clear stop event, live poller.
PollerKept ==
    running /\ mainPc = "idle" =>
        /\ ~stopEvent
        /\ thread \in PollerSlots
        /\ Live(thread)

RInv == TypeOK /\ PollerKept

LEMMA RInvStep ==
    ASSUME HasPollerMethod
    PROVE  RInv /\ [Next]_vars => RInv'
<1> SUFFICES ASSUME RInv, [Next]_vars PROVE RInv'
  OBVIOUS
<1>0. TypeOK /\ TypeOK'
  BY TypeStep DEF RInv
<1> USE <1>0
<1>1. CASE start_server
  <2>1. CASE ~HasOptionAttr
    BY <1>1, <2>1 DEF start_server, already_running, RInv, PollerKept
  <2>2. CASE HasOptionAttr
    <3>1. PICK t \in PollerSlots :
            /\ ppc' = [ppc EXCEPT ![t] = "top"]
            /\ thread' = t
      BY <1>1, <2>2 DEF start_server, spawn_poller
    <3>2. stopEvent' = FALSE
      BY <1>1, <2>2 DEF start_server, clear_stop_event
    <3>3. QED
      BY <3>1, <3>2 DEF RInv, PollerKept, Live, TypeOK
  <2>3. QED
    BY <2>1, <2>2
<1>2. CASE stop_server
  BY <1>2 DEF stop_server, RInv, PollerKept
<1>3. CASE stop_server_join
  BY <1>3 DEF stop_server_join, RInv, PollerKept
<1>4. ASSUME NEW t \in PollerSlots, poller(t) PROVE RInv'
  <2>1. UNCHANGED <<running, mainPc, stopEvent, thread>>
    BY <1>4 DEF poller, poll_loop_test, poll_acquire, poll_property,
       poll_wait, poll_release
  <2>2. ASSUME running, mainPc = "idle", ppc[t] # "off", ppc'[t] = "off"
        PROVE  FALSE
    <3>1. poll_loop_test(t)
      BY <1>4, <2>2 DEF poller, poll_acquire, poll_property, poll_wait,
         poll_release, TypeOK
    <3>2. ~stopEvent
      BY <2>2 DEF RInv, PollerKept
    <3>3. QED
      BY <3>1, <3>2, <2>2 DEF poll_loop_test, TypeOK
  <2>3. \A u \in PollerSlots : u # t => ppc'[u] = ppc[u]
    BY <1>4 DEF poller, poll_loop_test, poll_acquire, poll_property,
       poll_wait, poll_release, TypeOK
  <2>4. QED
    BY <2>1, <2>2, <2>3 DEF RInv, PollerKept, Live
<1>5. CASE \/ \E p \in DataAttrs, v \in Values : write_node(p, v)
           \/ \E m \in Callables : method_request(m)
           \/ \E m \in Callables : \E args \in ArgsOf(m) : method_wrapper(m, args)
           \/ method_return
           \/ \E a \in DataAttrs, v \in Values : simulate(a, v)
           \/ UNCHANGED vars
  BY <1>5 DEF write_node, method_request, method_wrapper, method_return,
     simulate, vars, pollVars, RInv, PollerKept, Live
<1>6. QED
  BY <1>1, <1>2, <1>3, <1>4, <1>5 DEF Next

\* When _update_variables is a method of the adapter (so that line 140
\* resolves), a running adapter that is not being stopped always has a
\* live poller thread, for every device and whether or not joins time out.
THEOREM RunningHasPollerThm ==
    ASSUME HasPollerMethod
    PROVE  Spec => []RunningHasPoller
<1>1. Init => RInv
  BY TypeInit DEF Init, RInv, PollerKept
<1>2. RInv => RunningHasPoller
  BY SlotsDistinct DEF RInv, PollerKept, RunningHasPoller
<1>3. QED
  BY <1>1, <1>2, RInvStep, PTL DEF Spec

=============================================================================
