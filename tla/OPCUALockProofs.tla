--------------------------- MODULE OPCUALockProofs ---------------------------
(***************************************************************************)
(* device_lock, for every value of the constants (join timeouts included): *)
(* it is held by exactly the thread inside its with block, so no device    *)
(* mutation happens while a poller compares the device with the cache.    *)
(***************************************************************************)
EXTENDS OPCUAAdapterProofs

LInv == TypeOK /\ LockHolder

LEMMA LInvInit == Init => LInv
BY TypeInit, SlotsDistinct DEF Init, LInv, LockHolder

LEMMA LInvStep == LInv /\ [Next]_vars => LInv'
<1> SUFFICES ASSUME LInv, [Next]_vars PROVE LInv'
  OBVIOUS
<1>0. /\ TypeOK /\ TypeOK'
      /\ NoThread \notin PollerSlots
      /\ PollerSlots \cap {"free", "call"} = {}
  BY TypeStep, SlotsDistinct DEF LInv
<1> USE <1>0 DEF LInv, LockHolder
<1>1. CASE start_server
  <2>1. UNCHANGED <<lock, callPc>>
    BY <1>1 DEF start_server
  <2>2. CASE HasOptionAttr /\ HasPollerMethod
    <3>1. PICK t \in PollerSlots : ~Live(t) /\ ppc' = [ppc EXCEPT ![t] = "top"]
      BY <1>1, <2>2 DEF start_server, spawn_poller
    <3>2. lock # t
      BY <3>1 DEF Live
    <3>3. QED
      BY <2>1, <3>1, <3>2 DEF TypeOK
  <2>3. CASE ~(HasOptionAttr /\ HasPollerMethod)
    BY <1>1, <2>1, <2>3 DEF start_server, pollVars
  <2>4. QED
    BY <2>2, <2>3
<1>2. ASSUME NEW t \in PollerSlots, poll_loop_test(t) PROVE LInv'
  BY <1>2 DEF poll_loop_test, TypeOK
<1>3. ASSUME NEW t \in PollerSlots, poll_acquire(t) PROVE LInv'
  BY <1>3 DEF poll_acquire, TypeOK
<1>4. ASSUME NEW t \in PollerSlots, poll_property(t) PROVE LInv'
  BY <1>4 DEF poll_property
<1>5. ASSUME NEW t \in PollerSlots, poll_wait(t) PROVE LInv'
  BY <1>5 DEF poll_wait, TypeOK
<1>6. ASSUME NEW t \in PollerSlots, poll_release(t) PROVE LInv'
  BY <1>6 DEF poll_release, TypeOK
<1>7. ASSUME NEW m \in Callables, NEW args \in ArgsOf(m), method_wrapper(m, args)
      PROVE  LInv'
  BY <1>7 DEF method_wrapper, pollVars
<1>8. CASE method_return
  BY <1>8 DEF method_return, pollVars
<1>9. CASE \/ stop_server \/ stop_server_join
           \/ \E p \in DataAttrs, v \in Values : write_node(p, v)
           \/ \E m \in Callables : method_request(m)
           \/ \E a \in DataAttrs, v \in Values : simulate(a, v)
           \/ UNCHANGED vars
  BY <1>9 DEF stop_server, stop_server_join, write_node, method_request,
     simulate, pollVars, vars
<1>10. QED
  BY <1>1, <1>2, <1>3, <1>4, <1>5, <1>6, <1>7, <1>8, <1>9 DEF Next, poller

\* For every device and every timing of the join, device_lock is held by
\* exactly the thread inside its with block.
THEOREM LockHolderThm == Spec => []LockHolder
<1>1. Spec => []LInv
  BY LInvInit, LInvStep, PTL DEF Spec
<1>2. QED
  BY <1>1, PTL DEF LInv

\* No step changes the device while a poller is comparing it with the
\* cache: the two steps that change it wait for a free device_lock, which
\* the scanning poller holds.
THEOREM ScanSeesStableDeviceThm == Spec => ScanSeesStableDevice
<1>1. LInv /\ [Next]_vars => [\A t \in PollerSlots : ppc[t] = "scan" => dev' = dev]_vars
  <2> SUFFICES ASSUME LInv, [Next]_vars, NEW t \in PollerSlots, ppc[t] = "scan"
               PROVE  dev' = dev
    BY DEF vars
  <2>1. lock # "free"
    BY SlotsDistinct DEF LInv, LockHolder
  <2>2. QED
    BY <2>1 DEF Next, start_server, stop_server, stop_server_join, poller,
       poll_loop_test, poll_acquire, poll_property, poll_wait, poll_release,
       write_node, method_request, method_wrapper, method_return, simulate, vars
<1>2. QED
  BY <1>1, LInvInit, LInvStep, PTL DEF Spec, ScanSeesStableDevice
=============================================================================
