# TLA+ models of the lewis OPC UA adapter

This directory holds the formal models of the OPC UA adapter of lewis
(`src/lewis/adapters/opcua.py`) and of the two devices it is exercised with.
It has the TLC configurations that check them on small instances and the
TLAPS proofs of their main invariants.

## The system

`OPCUAAdapter` exposes a lewis device over OPC UA. Its parts and how they
interact:

* **Lifecycle.** `start_server` (lines 89-145) returns early if it is
  already running. Otherwise it:
  * creates the `Server`;
  * builds the address space;
  * sets `_running`;
  * clears `_stop_event`;
  * starts the `_update_variables` thread.

  `stop_server` (294-317) sets the stop event and joins that thread with
  `timeout=2.0`. It then forgets the thread, stops the server and rebinds
  `_nodes` and `_property_values` to empty dicts.
* **Builder.** `_add_properties` (148-199) makes one variable node for
  each attribute of `dir(interface)` that is not excluded, private or
  callable. It records the node's initial value in the cache
  `_property_values`, and its writeability comes from
  `read_only_properties`. `_add_methods` (201-261) makes a method node for
  each public callable whose signature can be read.
* **Poller.** `_update_variables` (345-368) loops while the stop event is
  clear and `_running` is set. Each pass of the loop:
  1. takes `device_lock`;
  2. compares every node's device attribute with the cache using `!=`;
  3. pushes each changed value with `set_value`, updating the cache only
     if the push succeeds;
  4. waits `update_interval` **while still holding the lock**.
* **Transport callbacks.**
  * Client writes are meant to reach the device through a write callback
    (187-198).
  * Method calls run `method_wrapper` (247-251) under `device_lock`.
* **Classifier.** `_get_ua_data_type` (263-291) gives each variable node
  its OPC UA type from the property's initial value, by an `isinstance`
  chain (bool before int, since a bool is an int in Python).
* **Devices.**
  * `ExampleOPCUADevice` has `temperature`, `power`, `set_temperature` and
    `reset`.
  * `SimulatedGroup3HallProbe` has `connected` and `probes`. `reset`
    builds a new `probes` dict. The backdoor setters mutate a `Probe` in
    place.
* **The Hall probe's other clients.** Its serial stream interface
  (`group3hallprobe/interfaces/stream_interface.py`) answers
  `initialize`, `get_field`, `get_temperature` and `set_range` requests
  under `if_connected`; an exception goes to `handle_error`, which only
  logs. The command-line client `src/control.py` calls a device member
  over JSON-RPC: each word goes through `convert_type` (int, else float,
  else the word), a callable member is called with the values, and a data
  member is set with `setattr`.

## Modules

| Module | Models |
|---|---|
| `OPCUAAdapter` | the adapter: lifecycle, builder, poller, transport callbacks |
| `HallProbeDevice` | the Hall probe as the adapter sees it (names, arities, initial values, effect of each method) |
| `ExampleDevice` | the example device, likewise |
| `MC_OPCUAAdapter` | the TLC instance: two poller thread slots, values {0,1} |
| `OPCUAAdapterProofs` | the TLAPS proofs about the adapter |
| `UADataType` | `_get_ua_data_type`, and the builder applying it to one property value after another |
| `MC_UADataType` | its TLC instance: lists of up to 3 elements |
| `UADataTypeProofs` | the TLAPS proof that it classifies as the spec says, mixed lists aside |
| `HallProbeStream` | the Hall probe's state with its stream interface handlers and the `control.py` calls that reach it |
| `MC_HallStream` | its TLC instance |
| `HallProbeStreamProofs` | the TLAPS proofs about it |
| `OPCUABridge` | the abstract bridge the spec (sections 3 and 4) promises, with no threads, locks or stop events |
| `OPCUABridgeRefinement` | the TLAPS proof that `OPCUAAdapter` implements `OPCUABridge` |
| `OPCUALockProofs` | the TLAPS proofs about `device_lock` |

`OPCUAAdapter` is parameterised by the device. It takes these constants:

* `DataAttrs` and `Callables`, the names `dir(interface)` returns;
* `Private`, `Exclude`, `ReadOnly` and `NoSig`;
* `Arity`, `InitDev` and `MethodEffect`;
* `DirLast`, the last name of `dir()`.

Two BOOLEAN constants say whether the code's structural defects are
repaired:

* `HasOptionAttr`: `self._option` resolves.
* `HasPollerMethod`: `_update_variables` is a method of the class rather
  than a function nested in `stop_server`.

`JoinMayTimeout` says whether the 2 s join may return with the poller
still alive. It can only do so while the poller waits at `device_lock`
behind a method call. `JoinMayTimeout = FALSE` therefore assumes that the
join never times out. That is a little stronger than "no device call
outlasts 2 s": the lock is not fair, so even short calls could in
principle hold the poller off past the timeout. The runs and theorems
that assume it (`SinglePoller`, `StopLeavesNothing`, `ImplementsBridge`)
say nothing about a timed-out join. The `join_timeout` run is the one
that explores it.

The model's state corresponds to the code as follows.

| Variable | Code |
|---|---|
| `running` | `_running` |
| `server` | `_server` |
| `nodes`, `nodeVal` | `_nodes`, and the values the nodes serve |
| `cache` | `_property_values` |
| `methodNodes` | the method nodes |
| `stopEvent` | `_stop_event` |
| `thread` | `_update_thread` |
| `ppc`, `pscan` | the program counter of each poller thread and the properties left in its pass |
| `dev` | the device's attributes |
| `lock` | the holder of `device_lock` |
| `mainPc` | `stop_server` between its stop event and the end of the join |
| `callPc`, `callNode`, `lastCall` | a method call: idle, waiting for `device_lock` or running; the node it was made on; its outcome |
| `lastStart` | whether `start_server` raised |

The actions correspond to the code as follows:

* `start_server` is the whole method, builder included. Its error paths
  leave the state the exception leaves.
* `stop_server` and `stop_server_join` split the method at the join, which
  is where another thread runs.
* The poller's loop is one action per step: `poll_loop_test`,
  `poll_acquire`, `poll_property` (one property per step), `poll_wait` and
  `poll_release`. A failing `set_value` is a disjunct of `poll_push`.
* `write_node` models a client write. A method call is three actions:
  `method_request` (the server thread enters `method_wrapper` and waits at
  `with self.device_lock`), `method_wrapper` (it gets the lock and calls
  the device) and `method_return`.
* A poller that outlives a timed-out join is blocked at `device_lock`;
  when it gets the lock it iterates the `_nodes` that `self._nodes`
  names then, so the model gives it no copy of its own.
* The model assumes a synchronous server API: the code calls
  `Server.start` and `register_namespace` without `await`, which the
  model takes as completing at once (asyncua is not in this repository).
* `simulate` models a simulation step of lewis's core, which takes
  `device_lock`. It is modelled from the framework's description: that
  code is not in this repository.

**The abstract bridge.** `OPCUABridge` states what the adapter promises
as five actions: `Start` builds the property and method nodes from the
current device, and fills the cache; `Stop` clears them; `Push(p)` copies
a changed device value into node and cache together; `Write(p, v)` is a
client write to a writeable node; `DeviceStep` changes the device.
`OPCUAAdapter` maps onto it by `Bridge == INSTANCE OPCUABridge WITH ...`:
`running` gives the status, `nodes` the property nodes, `methodNodes` the
method nodes, `nodeVal` the served values, `cache` and `dev` themselves.
The poller's loop test, taking and releasing the lock, a failed
`set_value`, a push that finds nothing changed, `stop_server` before its
join and a method call that raises are stutters of the bridge.

Data is abstracted to model values:

* a value is 0 or 1;
* a probe dict is its object identity (`reset` makes a new one, which
  `!=` sees).

### HallProbeStream

| Variable | Code |
|---|---|
| `connected` | `device.connected`, as a Python value (class and value) |
| `probes` | `device.probes`: per probe `field`, `sensor_range` and `initialized` |
| `reply` | the last serial request and the kind of its reply: a reading, `uninitialized_bad_data`, `OVER RANGE`, an acknowledgement, or nothing |
| `meant` | history variable: for each probe, whether its initialized flag is meant to be true: set by `initialize` and `reset`, and by `backdoor_set_initialized` to the value the word names (True/False) or that `convert_type` gives it |

Each handler is one action covering all of it: `if_connected`, the
`KeyError` of an unknown probe id, the `ValueError` of `Ranges()`, the
`TypeError` of `abs()` on a string, and `assert_never` in
`range_to_max_gauss`. The control-client actions are `reset`,
`backdoor_set_field`, `backdoor_set_initialized` and `set_connected`
(`setattr` with one word). Each takes its words through `convert_type`.
A call that raises (wrong number of words, a probe id that is not a key)
changes nothing and is a stutter. Probe temperatures are left out: no
reply kind depends on them, so `backdoor_set_temperature` only stutters.

## Runs

| Run | cfg | Expect | Shows |
|---|---|---|---|
| hall_repaired | `MC_Hall.cfg` | pass | With both defects repaired and joins that complete: `TypeOK`; `SinglePoller` (never two poller threads alive); `RunningHasPoller` (a running adapter has a live poller); `StopLeavesNothing` (after stop: no poller, no nodes, empty cache); `CacheMatchesNode` (a cached value is the value its read-only node serves, so a failed push is retried); `StopReturns` (under `FairSpec`, once clients stop calling, `stop_server` returns) |
| hall_repaired (cont.) | `MC_Hall.cfg` | pass | `LockHolder` (`device_lock` is held by the method call exactly while it runs, and by a poller exactly while it scans or waits); `ScanSeesStableDevice` (no step changes the device while a poller compares it with the cache); `ImplementsBridge` (every behaviour is one of the abstract bridge) |
| as_written | `MC_AsWritten.cfg` | violation | `start_server` always raises on `self._option` (line 109) |
| nested_poller | `MC_NestedPoller.cfg` | violation | with `_option` fixed, the nested `_update_variables` leaves a running adapter with no poller (line 140) |
| join_timeout | `MC_JoinTimeout.cfg` | violation | a device call longer than the join timeout lets the old poller survive `stop_server`. A restart runs two pollers (line 307) |
| late_binding | `MC_LateBinding.cfg` | violation | every method node calls the last name of `dir()` (line 250) |
| write_callback | `MC_WriteCallback.cfg` | violation | a client write never reaches the device: the callback is not registered (line 198) |
| starvation | `MC_Starvation.cfg` | violation | `CallServed`: under `FairSpec` a method call can wait for ever, because the poller gives up `device_lock` and takes it again, pass after pass (line 368) |
| classifier | `MC_UADataType.cfg` | pass | `TypeAsSpecified`: every value, with lists of up to 3 elements, gets the spec's node type, mixed int/float lists aside |
| mixed_list | `MC_MixedList.cfg` | violation | `MixedListIsDouble`: `[1, 2.5]` becomes Variant, not the Double the spec recommends (line 285) |
| hall_stream | `MC_HallStream.cfg` | pass | `TypeOK` (every `sensor_range` is a `Ranges` member) and `GetFieldAnswers`: whatever requests and control calls came before, a connected device answers `get_field` for a probe whose field is a number |
| operator_flag | `MC_OperatorFlag.cfg` | violation | `UninitializedByOperator`, an action property: a `get_field` made after `control.py device backdoor_set_initialized 0 False` must reply that the probe is uninitialized. TLC finds the command followed by a `get_field` that replies with a reading: `convert_type` passes `"False"` on as a truthy string (control.py line 45). The ghost `meant` records the flag the operator asked for. With `convert_type` giving bools for True/False, the property holds. |

**Bounds.** Two poller slots are the fewest in which two pollers can be
alive at once, which is what the join timeout causes. Values {0,1} are the
fewest in which an attribute can change. The Hall probe has one writeable
and one read-only attribute, one public method of arity 0 and public
methods of arity 2, and private names. The private-name, callable and
read-only filters of the builder are therefore taken, and both branches of
`method_wrapper`. `Exclude` and `NoSig` are empty in every run: neither
device of this repository sets an exclusion list or has a method whose
signature cannot be read. Those two filters are not exercised.

The classifier runs enumerate every value whose list has at most 3
elements. That covers lists of each class alone, the pairs that mix
classes, and the empty list. `MC_HallStream` sends requests for probe 0
and for the unknown id 3, and ranges 0 and the invalid 4. The operator
words are `0` (an int key and a falsy value), `4000` (over the R0 range,
under R3, and not a key), and `True` / `False`. A single probe is enough:
the handlers touch one probe each, and the three probes are alike.

Every run checks deadlock. The system never stops: a stopped adapter can
always be started again, and a simulation step is always possible once
`device_lock` is released.

**Mutants.** Each property of the passing run is broken by a plausible
bug in the code it depends on:

* dropping the `startswith('_')` test of line 212, which lists private
  methods, breaks `TypeOK`;
* dropping the `_running` early return breaks `SinglePoller`;
* not clearing the stop event breaks `RunningHasPoller`;
* not waiting in the join breaks `StopLeavesNothing`;
* caching before `set_value` succeeds breaks `CacheMatchesNode`.
* a loop test that ignores the stop event breaks `StopReturns`;
* testing int before bool breaks `TypeAsSpecified`;
* storing a range id without `Ranges()` breaks the Hall stream's `TypeOK`;
* a `match` missing its `Ranges.R3` case breaks `GetFieldAnswers`;
* a `stop_server` that keeps `_server` and the method nodes breaks
  `ImplementsBridge`;
* a `method_wrapper` that keeps `device_lock` after the call breaks
  `LockHolder`;
* a simulation step that does not take `device_lock` breaks
  `ScanSeesStableDevice`.

## Fairness

`FairSpec` is assumed only by the liveness properties. It gives weak
fairness to each thread the code runs: each poller slot's steps, the
server thread taking a free `device_lock` for a waiting call, the device
method returning, and the join in `stop_server` returning. Each is a
thread of the process that runs whenever it can. Only weak fairness is
justified for taking the lock, because `threading.Lock` is not a fair
lock. Clients, the simulation and the decisions to start or stop are
not fair: nothing obliges anyone to call or to stop.

`StopReturns` needs `ClientsQuiesce` (eventually no call is made any
more) as a hypothesis. Without it a stream of calls can keep the poller
off the lock, which is the `starvation` run seen from the poller's side.

## Proofs

`OPCUAAdapterProofs` proves five theorems for every value of the
constants allowed by `AdapterAssumption`. The assumption says the name
sets are disjoint, the arities are naturals, `MethodEffect` is typed, and
there is at least one poller slot, distinct from `NoThread` and from the
lock's other values.

* `TypeCorrect`: `Spec => []TypeOK`. Its step lemma `TypeStep` has one
  step per action.
* `SinglePollerThm` and `StopLeavesNothingThm` hold under the hypothesis
  `~JoinMayTimeout`. Neither property is inductive by itself. They follow
  from the inductive invariant
  `IInv == TypeOK /\ LiveIsThread /\ ThreadRunning /\ StoppedEmpty`:
  * every live poller is `_update_thread`;
  * `_update_thread` is set only while running;
  * a stopped adapter has no nodes and an empty cache.

  `start_server` may spawn a thread only because, by `ThreadRunning`, a
  stopped adapter has none alive. `stop_server_join` may clear `thread`
  only because, by `~JoinMayTimeout`, the thread is dead.
* `CacheMatchesNodeThm`: `Spec => []CacheMatchesNode`, from
  `CInv == TypeOK /\ CacheMatchesNode`. The type invariant is needed
  because a push writes `nodeVal` at one property only, and the other
  properties' cache entries must be shown untouched.
* `RunningHasPollerThm`, under `HasPollerMethod`. Its inductive
  invariant is `RInv == TypeOK /\ PollerKept`: a running adapter
  outside `stop_server` has a clear stop event and a live poller in
  `_update_thread`. The clear stop event is what keeps that poller from
  leaving its loop. `RunningHasPoller` alone says nothing about the
  stop event.

`UADataTypeProofs` proves `TypeAsSpecifiedThm`, for every list length
(`MaxLenAssumption`). Its lemma `ClassifierAgrees` shows the code's
classifier and the spec's agree on every value, mixed lists aside. The
invariant then holds in every state of the builder.

`HallProbeStreamProofs` proves `TypeCorrect` and `GetFieldAnswersThm`
for any request ids, range ids and words (`HallStreamAssumption`).
`TypeOK` is inductive as it stands. `set_range` keeps `sensor_range` in
`Ranges` only because its guard checks the range before it touches the
probe. `convert_type` yields a well-formed value for every word (lemma
`ConvertType`). `GetFieldAnswers` follows from `TypeOK` alone: a range in
`Ranges` is in the domain of `MaxGauss`, so `get_field` never reaches
`assert_never`.

`OPCUABridgeRefinement` proves `ImplementsBridgeThm`:
`Spec => Bridge!Spec`, under `~JoinMayTimeout`. With a join that times
out, a surviving poller pushes into the cache of a stopped adapter, which
the bridge forbids; the `join_timeout` run shows that. The proof follows
the usual pattern. The inductive invariant is
`RefInv == IInv /\ JoiningRunning /\ ScanInNodes`:
* `JoiningRunning`: `stop_server` is in its join only while running, so
  the join is a `Stop` of the bridge;
* `ScanInNodes`: the properties left in a live poller's pass are nodes,
  so a push is at a property of the bridge.

`BridgeInit` maps the initial state to the bridge's. `BridgeStep` maps
every step to a bridge step or a stutter, with one case per action:
* `start_server` is `Start` when `_option` resolves, else a stutter;
* `stop_server_join` is `Stop`;
* a push that succeeds is `Push(p)`;
* `write_node` is `Write`;
* `method_wrapper` and `simulate` are `DeviceStep`.

`OPCUALockProofs` proves `LockHolderThm` and `ScanSeesStableDeviceThm`
for every value of the constants, join timeouts included. The inductive
invariant is `TypeOK /\ LockHolder`. The type invariant supplies that
`"free"` and `"call"` are not poller slots. Every step that takes the lock
finds it free, so no one else claims it. Every step that frees it is
taken by its holder. `ScanSeesStableDevice` follows because the only
steps that change the device wait for a free lock, and a scanning poller
holds it.

Each inductive invariant was first checked with TLC as an invariant of
the passing run of its module.

The following are only model-checked:

* the liveness properties `StopReturns` and `CallServed`, since TLAPS
  does not prove liveness under fairness;
* the violation runs.

## Not modelled

* The contents of a Hall probe as the OPC UA adapter sees them. The
  adapter would make `probes` a Variant node, which cannot encode a dict
  of `Probe` objects. So the `!=` check missing an in-place mutation
  (line 361) has no node value to observe. `HallProbeStream` models the
  contents as the stream interface sees them.
* The Julabo. Its stream interface is a declarative table of `Var` and
  `Cmd` entries over a device class that is not in this repository. Its
  only state calls `approaches.linear` from `lewis.core`, and the spec
  puts device physics out of scope.
* `control.py`'s argument parsing, `list_objects` and `show_api`, which
  only print, and the JSON-RPC transport, which is not in this
  repository.
* The line-protocol matching engine (`CmdBuilder`) and the
  `conditional_reply` decorator, both from lewis itself. The model takes
  requests as already parsed, and `if_connected` as "no reply unless
  `connected` is true".
