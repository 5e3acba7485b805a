# TLA+ models of ros2_control's controller manager

This directory holds TLA+ models of the parts of ros2_control (sources under
`src/`) where threads, callbacks and failing user code interact. TLC checks
them. The reference for expected behaviour is `spec.md` at the repository root.

## The system

ros2_control runs controllers against hardware interfaces. Its parts:

| Part | Source | What it does |
|---|---|---|
| Interface handles | `hardware_interface/include/hardware_interface/handle.hpp` | A named double value guarded by a shared mutex. Readers and writers use try-locks. |
| Loaned interfaces | `hardware_interface/include/hardware_interface/loaned_*_interface.hpp` | A controller's view of a handle. `get_optional` retries a contended handle. |
| Resource Manager | not under `src/` | Owns the handles. Tracks which command interface is claimed. Prepares and performs hardware mode switches. |
| Hardware components | `hardware_interface/src/sensor.cpp` and others | Lifecycle wrappers around hardware plugins. |
| Controller lifecycle | rclcpp_lifecycle, `controller_interface_base` | UNCONFIGURED → INACTIVE → ACTIVE → FINALIZED, with SUCCESS/FAILURE/ERROR answers (spec §4.4). |
| Controller Manager | `controller_manager/src/controller_manager.cpp` | The realtime `update()` loop. The service callbacks (load, unload, configure, switch). The roster double buffer `RTControllerListWrapper`. Fallback controllers. Chaining. |

Two threads interact in the controller manager.

- **Realtime thread.** It loops over `read()`, `update()` and `write()`. In
  `update()` it:
  1. takes the current roster through `update_and_get_used_by_rt_list`;
  2. updates every active controller;
  3. on an update ERROR, deactivates the failed controllers, activates their
     fallbacks and calls `publish_activity()`;
  4. calls `manage_switch()` when `do_switch` is set.
- **Service thread.** `services_lock_` serialises the service requests. Each
  request takes `controllers_lock_`. Every change to the roster follows one
  writer protocol:
  1. `get_unused_list` waits until the realtime thread is not using the other
     list;
  2. the writer copies the roster into that list and changes the copy;
  3. `switch_updated_list` flips the index and waits until the realtime thread
     has left the former list;
  4. the writer clears the former list.
- **Switch hand-off.** `switch_controller_cb` validates a request and writes
  `activate_request_` and `deactivate_request_`. It then sets `do_switch` and
  waits up to a timeout for the realtime thread to apply the request in
  `manage_switch()`.

## Modules

### `ControllerLifecycle.tla`

This module holds the lifecycle transition table as operators.
`AfterTransition(t, s, outcome, errExit)` gives the state after transition `t`
is asked in state `s`:

- SUCCESS reaches the goal state.
- FAILURE keeps the state, except that shutdown finalizes either way.
- ERROR leaves the state the error hook chooses (UNCONFIGURED or FINALIZED).
- A transition that is not defined in `s` leaves `s` unchanged.

The implementation is outside `src/`, so these operators are written from spec
§4.4. The map marks them `spec_modelled`.

### `ControllerManager.tla`

The state variables and what they stand for in the code:

| Variable | Code |
|---|---|
| `lc[c]`, `loans[c]` | the controller's lifecycle state (or `NONE` when not loaded) and the command interfaces it has claimed |
| `slots`, `updated`, `used` | `controllers_lists_[2]`, `updated_controllers_index_`, `used_by_realtime_controllers_index_` |
| `rtReg`, `rtPc` | the index the realtime thread has read but not yet stored; where the realtime thread is in `update()` |
| `svc` | the running service request: operation, step, argument, result and reason |
| `writing`, `holdsLock` | the list the writer is filling or clearing; whether the service thread holds `controllers_lock_` |
| `actReq`, `deactReq`, `doSwitch` | `activate_request_`, `deactivate_request_`, `switch_params_.do_switch` |

**Realtime actions.** One action per step of `update()`:

- `RTAcquire` reads the index and `RTStore` stores it. These are the two
  statements of `update_and_get_used_by_rt_list`.
- `RTUpdateControllers` is a cycle with no update error.
- `RTUpdateFailure` is a cycle in which update errors deactivate controllers and
  activate fallbacks.
- `RTPublishActivity` takes `controllers_lock_`.
- `RTManageSwitch` applies the switch request. It is one step made of
  `update()`'s unlocked read of `do_switch` and `manage_switch`'s
  `try_lock` (line 2712). A switch whose request changes between the two is
  not represented.
- `RTEndCycle` ends the cycle.

**Service calls.** These actions start a request:

- `CallLoad` (`load_controller` and `add_controller_impl`);
- `CallUnload`;
- `CallConfigure`, followed by `CfgCleanup` and `CfgConfigure`;
- `CallSwitch` (`switch_controller_cb`). It works through the name resolution
  `ListControllers`, the checks `CanActivate`, `CanDeactivate` and
  `FallbacksReady`, and the prepare veto in `SwitchRequested`.

**Writer steps.** `LoadWrite`, `UnloadWrite`, `ConfigureWrite` and
`SwitchWrite` do the wait-and-copy step. `Flip`, `FlipWait` and `ClearSlot` do
the rest of the writer protocol. `SwitchWaitDone` and `SwitchTimeout` are the
two ends of the `wait_for`.

Lifecycle calls answer with any member of `CallbackResults` and
`ErrorHookResults`. A controller's update may return ERROR when
`UpdateMayFail` is true.

**Abstractions.**

- All hardware interfaces exist and are available.
- `prepare_command_mode_switch` may refuse a switch, when `PrepareMayReject` is
  set.
- There are no chainable controllers.
- Every active controller is due every cycle, so rate gating is left out.
- `read()` and `write()` do not fail.
- Claims are modelled per command interface.
- The roster order is the constant `RosterOrder`.

### `MC_ControllerManager.tla`

This module instantiates the model for TLC:

- two controllers, `pid` and `safe`, both claiming `joint1/position`;
- `safe` is `pid`'s fallback;
- four switch requests. They cover STRICT and BEST_EFFORT, and activate,
  deactivate and mixed requests.

With these bounds every interesting case happens:

- two controllers contend for one interface;
- a fallback is activated while a switch is being validated;
- a switch times out while the realtime thread is about to apply it;
- a load fails, a duplicate load is refused, and an unload happens during a
  switch.

Symmetry is not used, because the two controllers play different roles.

### `ChainOrder.tla` and `MC_ChainOrder.tla`

This module covers the chain topology in `controller_manager.cpp`.

| Variable | Code |
|---|---|
| `lc[c]` | the controller's lifecycle state, or `NONE` |
| `chainSpec[c]` | `controller_chain_spec_[c]`: the sequences `following` and `preceding` |
| `roster` | the order of the roster list that is published to the realtime thread |

The actions:

- `Load` resets the chain entry (line 1949) and appends the controller to the
  roster.
- `Unload` runs `controller_chain_spec_cleanup` (lines 150-176) and removes the
  controller from the roster.
- `Configure` cleans up first when the controller is INACTIVE, then configures
  and exports. A chainable controller's export may fail. On success it adds
  an edge for each interface prefix that names a loaded controller
  (`AddCmdEdge` and `AddStateEdge`, lines 1222-1248). It then rebuilds
  `ordered_controllers_names_`.

`UpdateList` and `UpdateEach` are a RECURSIVE transcription of
`update_list_with_controller_chain`. The names come from an `unordered_map`, so
the top-level loop may visit them in any permutation; `Configure` picks one
with `\E keys \in SetToSeqs(Loaded)`.

The roster's double buffer is left out here; `ControllerManager` models it.

`MC_ChainOrder` uses a diamond:

- `traj` writes the references of `left` and `right`;
- `left` and `right` both write the reference of `base`;
- `base` reads a state that `traj` exports.

This is the smallest chain with two paths between the same pair of controllers
and with both kinds of edge.

### `RateGate.tla`

This module covers the per-controller gate in `update()` (lines 2796-2871).
Time counts units, `Second` of them per second.

- Manager cycle k starts at `k * Period` plus a wake-up latency from
  `Latencies`.
- The state is the number of cycles since the controller's last update and the
  latency of that update's cycle. Only time differences enter the gate.
- `Passed` is the comparison `actual_period * rate >= 0.99`, done in integers.
  At exact equality the double's rounding may go either way.
- A window of `CmRate` cycles counts the runs in one second.
- The `time == 0` clause of `controller_go` (line 2826) is left out. Cycle
  times are read from a running clock and are never zero here.

### `HardwareLifecycle.tla` and `Sensor.tla`

`HardwareLifecycle` is the abstract lifecycle of a hardware component, written
from spec §4.4. From UNKNOWN, init leads to UNCONFIGURED or FINALIZED. After
that, each step follows a transition of the table or goes through the error
hook. FINALIZED is final.

`Sensor` models `sensor.cpp` and has one action per method:

- `Initialize`, `Configure`, `Cleanup`, `Shutdown`, `Activate`, `Deactivate`;
- `error()` as `ErrorFrom`;
- `Read`.

Each action includes the method's `enable_introspection` calls and its reset of
`last_read_cycle_time_`. `Read` advances a cycle clock up to `MaxTime`. On a
successful trigger with the clock set, `Read` takes a periodicity sample.

`activatedAt` and `sampleFrom` are history variables, used only to state
`PeriodicitySinceActivation`.

`Sensor` instantiates `HardwareLifecycle` with `state <- hw`. The refinement
`ImplementsLifecycle` is checked as a PROPERTY.

The transitions hold `sensors_mutex_`. `read()` takes no lock of its own. The
resource manager, which is outside `src/`, is assumed to hold `get_mutex()`
around `read()`, so every method is one step.

### `Handle.tla`

This module models one state interface.

- **Writer.** `set_value` is an exclusive try-lock (`SetValueLock`) followed by
  the store and unlock (`SetValueUnlock`). A failed try changes nothing.
- **Readers.** Controller threads run `LoanedStateInterface::get_optional`,
  which is a do-while loop of shared try-locks. Each pass through the loop is
  `TryLockOk` or `TryLockFail`, and each updates `total_counter`,
  `failed_counter` and `timeout_counter`.
- **Introspection.** The lambda registered by `registerIntrospection` reads
  the value without the lock (`IntrospectionRead`). The history flag `racy`
  records such a read made while the writer holds the lock.

The value itself is abstracted away; the module tracks only who holds the lock
when the value is accessed.

No property is stated about the readers. Their retry bound and counters are
the do-while's own condition, and the only way the unsigned counters go
wrong, a wrap after 2^32 tries, is beyond any bound TLC reaches.

### `HandleValue.tla`

This module models what a `Handle` object holds and how construction, copy,
move, assignment and destruction change it. Locking is left to `Handle.tla`,
so here every call holds the lock.

- **State.** Handle objects live in `Slots`. For each slot the module keeps:
  - `data_type_` (`dtype`);
  - the alternative that `value_` holds (`kind`);
  - the bytes of `value_`'s storage (`raw`);
  - `value_ptr_` (`ptr`): null, the owner's double (`ext`, for the deprecated
    pointer constructor), a slot, or indeterminate.
- **Actions.**
  - `ConstructDouble`, `ConstructBool` and `ConstructLegacy` are the three
    constructors.
  - `CopyConstruct` and `CopyAssign` are `copy()`.
  - `MoveConstruct` and `MoveAssign` are `swap()`.
  - `Destroy` releases the slot's storage.
  - `SetDouble` and `SetBool` are `set_value<double>` and `set_value<bool>`.
- **Reading.** `GetDouble(s)` is the set of outcomes of
  `get_optional<double>()`. Reading released storage or an indeterminate
  pointer is undefined behaviour; the model lets it yield any double or a
  crash.
- **Reference.** Beside the code's state the module keeps each handle's
  declared type and the value last stored through it (`decl`, `expect`).
  `GetOptionalReturnsValue` compares reads against them.

With double handles only and no moves, TLC checks 6,589 states with no
violation: construction, copies, assignments, the deprecated pointer and the
typed setters agree with the reference. Both moves and bool handles break it:

- a copied bool handle loses its type;
- a moved handle points into the object it was moved from.

### `ChainedSwitch.tla` and `MC_ChainedSwitch.tla`

This module models the chained-mode part of a switch: the steps of
`switch_controller_cb` and `manage_switch` that change chained mode, the four
request lists and the availability of the interfaces a controller exports.

- **Chaining.** `Itfs[c]` lists c's chained interfaces in configuration
  order, command interfaces first. Each entry is the following controller whose
  name prefixes the interface, and its kind (`cmd` writes a reference interface,
  `state` reads an exported state interface). `Following`, `CmdUsers` and
  `Preceding` are `is_interface_a_chained_interface` and the caches that
  `configure_controller` fills.
- **Validation.** `SwitchController(a, d, strictness, rejected)` is one call,
  from its lists to `prepare_command_mode_switch`. It is built from pure
  operators over a record of the lists and the availability, in the code's
  order: `Propagate` (`propagate_deactivation_of_chained_mode`, with its
  `break`), `CheckActivations` (with the recursive `CheckFollowing`),
  `CheckDeactivations` (`PrecedingBlocks`), `Restarts` (the loop that restarts
  controllers whose chained mode flips and drops conflicts) and
  `InterfacesAvailable`. Every early return is a case of the action: a failed
  STRICT check clears the requests, a STRICT conflict empties the lists but
  keeps the availability, and empty lists return OK. `rejected` is the set of
  controllers whose fallback check fails in this call.
- **Switch.** `PrepareAccepted` and `PrepareRejected` are the answer of
  `prepare_command_mode_switch`. The code calls it only when the command
  interface requests are not empty (lines 1829-1840), so `PrepareRejected`
  needs a listed controller with a command interface (`HasCommandItfs`: a
  chained `cmd` interface, or membership of `HwCommanders`). `ManageSwitch` is the realtime thread's
  deactivation (with `deactivate()` succeeding; its FAILURE path at line
  1991 is in `ControllerManager`), `switch_chained_mode` (to, then from) and activation, with
  `activate()` answering FAILURE for the controllers in `ActivateFails`.
  `SwitchTimeout` and `SwitchReturn` end the call with `clear_requests`
  (`Cleared`), which also makes the interfaces of every controller in the
  'to chained mode' request unavailable.

Interface claims are taken as the code writes them: `activate_controllers`
checks only `command_interface_is_claimed`, so a claim of a reference
interface succeeds whether or not it is available. The Resource Manager is
outside `src/`. Unknown names, the interleaving with the realtime loop and the
claims of hardware interfaces are in `ControllerManager`, and hardware
interfaces are always available here.

`MC_ChainedSwitch.tla` defines two topologies. `Linear` has p → f → g (p writes
f's references and reads g's state, f writes g's references), q → h, and u,
which names p although p is not chainable. `Pair` has p → f and an unrelated u.
In both, `Order` puts each preceding controller before its followings, the
order `update_list_with_controller_chain` gives the updated list. The leaf
controllers g and h (f in `Pair`) also claim hardware command interfaces.

## Runs

| Run | cfg | Expect | Checks |
|---|---|---|---|
| `cm_safety` | `MC_ControllerManager_safety.cfg` | pass | `TypeOK`, `NoTornAccess`, `SwitchRequestOwnedByCaller` under every callback answer, with update errors and prepare vetoes. The realtime thread has stored its index once (`UsedInit = 0`). |
| `cm_liveness` | `MC_ControllerManager_liveness.cfg` | pass | `SvcCallsReturn`: every service request returns, when no controller update fails. |
| `cm_deadlock` | `MC_ControllerManager_deadlock.cfg` | violation | `RTLoopProgress`: an update error during a roster flip deadlocks the two threads. |
| `cm_loans` | `MC_ControllerManager_loans.cfg` | violation | `LoansMatchLifecycle`: a failed `activate()` keeps loans, and a failed `deactivate()` drops them while the controller is ACTIVE. |
| `chain_order` | `MC_ChainOrder.cfg` | pass | `ChainSpecSymmetric`, `PrecedingUpdatedFirst`. It covers every sequence of load, configure (with FAILURE answers and failed exports) and unload on the diamond, and every map iteration order. |
| `rate_latency` | `MC_RateGate_latency.cfg` | violation | `RateKept` for 50 Hz on 100 Hz, with cycles on time or 1 ms late (units of 10 µs): the controller runs 48 times in a second. |
| `sensor` | `MC_Sensor.cfg` | pass | `IntrospectionOnlyWhenActive`, `PeriodicitySinceActivation` and the refinement `ImplementsLifecycle`, under every callback answer, over six read cycles. |
| `handle_introspection` | `MC_Handle.cfg` | violation | `IntrospectionLocked`: the writer takes the lock and the introspection lambda reads the value it is storing. |
| `chain_mode` | `MC_ChainedSwitch.cfg` | pass | `TypeOK`, `FollowersActive`, `RequestsClearedWhenIdle` under STRICT on `Linear`, with requests of up to three names, failing fallback checks of f and p, prepare rejections and timeouts. |
| `chain_break` | `MC_ChainedSwitch_break.cfg` | violation | `ChainedModeMatchesUsers` under BEST_EFFORT on `Pair`: after activating [f, p], deactivating [u, p] stops `propagate_deactivation_of_chained_mode` at u, and f stays in chained mode with no active user. |
| `chain_refs` | `MC_ChainedSwitch_refs.cfg` | violation | `ChainedRefsAvailable`: after activating [g, f], g is active and in chained mode, but `clear_requests` has made its reference interfaces unavailable. |
| `handle_value` | `MC_HandleValue.cfg` | violation | `GetOptionalReturnsValue` with three slots and both declared types: a copy of a bool handle throws on `get_optional<double>()`. |

`cm_safety` sets `CHECK_DEADLOCK FALSE`. With update errors enabled, the
deadlock described under `cm_deadlock` is reachable, and that run covers it.
`cm_liveness` checks deadlock.

The violation runs are the findings listed in `PROJECT.json`:

- `controller_manager.cpp:3579`, the blocking lock in `publish_activity`,
  against the writer's spin at line 3070. This also breaks spec §5, under which
  the realtime thread never blocks;
- line 2187, where activate keeps its loans;
- line 3160: `propagate_deactivation_of_chained_mode` breaks out of its whole
  loop at the first deactivated controller that is not active, so the
  followings of later ones are never taken out of chained mode;
- line 1884: `clear_requests` after a successful switch makes the reference
  interfaces of the controllers just put in chained mode unavailable. The
  comment at line 1303 says this is meant for controllers that are not active.
  A second preceding controller can then not be activated onto them;
- line 2827: the 0.99 factor does not absorb the jitter of the comment's
  own example (a cycle at 0.019 s gives 0.95), and a 50 Hz controller skips
  beats;
- `handle.hpp:380`: the introspection lambda reads the value without
  `handle_mutex_`, against spec §4.1;
- `handle.hpp:327`: `Handle::copy` does not copy `data_type_`. A copy of a
  bool handle says DOUBLE, and `get_optional<double>()` throws at the null
  `value_ptr_` instead of returning the cast bool. `Sensor::export_state_interfaces`
  (`sensor.cpp:271`) makes such copies.

Some divergences are listed as hazards in `PROJECT.json` but are not kept as
runs. TLC found each of them while the models were built, with the
configuration the hazard's note names:

- Under BEST_EFFORT an unknown name fails the whole call when no earlier name
  of the same list was found (line 1451), against spec §4.5.
- Before the realtime thread's first index store (`UsedInit = NoSlot`) the
  writers do not wait, and the non-atomic store at line 3029 lets the realtime
  thread iterate a list being written.
- The move constructor and move assignment leave `value_ptr_` pointing into
  the moved-from object (`handle.hpp:153`). With `DeclTypes = {"double"}`,
  `GetOptionalReturnsValue` fails after construct, move and destroy.
- Chained mode goes wrong in four more ways: a BEST_EFFORT deactivation that
  is refused still takes its followings out of chained mode (line 1621); a
  following controller with two preceding controllers leaves chained mode when
  one of them is deactivated (line 3185); a request to enter chained mode
  survives a failed BEST_EFFORT activation (line 3313); and a preceding
  controller whose `activate()` fails leaves its followings in chained mode.

- The code puts a preceding controller before the controller it feeds. Spec
  §4.3 and §8.4 say following controllers come first.
- `configure_controller` accepts a chain cycle, which spec §8.3 says is
  rejected. With a cycle, `PrecedingUpdatedFirst` fails.
- A rate that does not divide the manager's rate is rounded down to the next
  divisor: 30 Hz on 100 Hz gives 25 runs a second, because
  `last_update_cycle_time` drops the remainder of the period.

Each property of a passing run has a mutant in `PROJECT.json`. A mutant is a
plausible bug that TLC catches:

- `get_other_list` without the modulo;
- a flip without the wait;
- a timeout that does not clear the requests;
- a flip that waits on the wrong index;
- `update_list_with_controller_chain` without the `+ 1` for append;
- a chain cleanup that clears only one end of an edge;
- a `deactivate()` that leaves introspection on;
- an `activate()` that does not reset `last_read_cycle_time_`;
- a `shutdown()` that does not exclude FINALIZED;
- a following check that accepts a controller that is not chainable;
- a preceding check that ignores active preceding controllers;
- a `clear_requests` that keeps the 'from chained mode' request.

## Fairness

`Fairness` puts weak fairness on every realtime step. The realtime loop is a
dedicated thread that always runs.

It also puts weak fairness on every internal step of a service request. The
executor thread runs a callback to completion unless it blocks.
`SwitchTimeout` is weakly fair because `wait_for` returns by the clock.

The calls themselves have no fairness, because clients need not call.

`ChainOrder`, `ChainedSwitch`, `RateGate`, `Sensor`, `Handle` and
`HandleValue` check only safety properties and a refinement, so they assume no
fairness. `ImplementsLifecycle` is a safety refinement: the abstract
specification has no fairness.

Symmetry is not used. In each instance the controllers play different roles,
and the two `Handle` readers are bound to fixed names in the cfg.

## Bounds

- **`MC_ChainOrder`.** Four controllers and both kinds of edge. With
  CallbackResults `{SUCCESS, FAILURE}` the run reaches about 6,500 states in
  1.5 minutes. ERROR answers of configure and cleanup are checked in
  `ControllerManager`.
- **`MC_RateGate_latency`.** One full second of cycles (100), each on time
  or 1 ms late: the 19 ms actual period of the comment above `controller_go`.
  Any jitter above 0.2 ms (1% of 20 ms) gives the same result.
- **`MC_Sensor`.** Six read cycles are enough for: activate, read, error,
  configure, re-activate and read again.
- **`MC_ChainedSwitch`.** Six controllers in two chains, with chains two deep,
  both kinds of chained interface and a name that is not chainable. Requests
  of up to three distinct names cover activating a whole chain at once. About
  2,300 states in 40 seconds. The run is STRICT only. It does not check
  `ChainedModeMatchesUsers`: under BEST_EFFORT, with a failing `activate()`,
  or with two preceding controllers of one chainable controller (line 3185)
  the hazards above make it fail, and `chain_break` shows one of them.
- **`MC_HandleValue`.** Three slots, so that a source, its copy or move
  target, and a reused slot can all exist at once. One stored value besides
  NaN is enough to tell a stale read from a fresh one.
- **`MC_Handle`.** Two readers with two tries each, three calls each. The
  race needs only the writer and the introspection publisher.

## Not modelled, and the plan

- **`activate_asap` and the async controllers' wait in
  `prepare_for_deactivation`.** The switch is modelled as if every
  controller were synchronous.
- **Command-interface limiter.** `set_limited_value` writes
  `is_command_limited_` before its try-lock (`handle.hpp:439`). The flag is
  read only by introspection, and no property of a command's value depends on
  it.
- **Handle copy and swap against concurrent readers.** These run under
  `scoped_lock` while the resource manager builds its maps, before any thread
  reads the handle. Their effect on the handle's value is in `HandleValue`.
- **Sensor `read()` against transitions without the resource manager's lock.**
  This is excluded by assumption; see `Sensor.tla`.
- **Hardware `read()` and `write()` error paths in `update()`.** Not modelled.
- **Other service callbacks.** `reload_controller_libraries`, shutdown and
  `set_hardware_component_state`.
- **`controller_interface_base.hpp`.** The header declares the controller
  interface (pure virtual `is_chainable`, `set_chained_mode`,
  `is_in_chained_mode`, `update`) whose bodies are in controller plugins or
  outside `src/`. Its chained-mode contract is what `ChainedModeMatchesUsers`
  states; the lifecycle it drives is `ControllerLifecycle`.
- **Parts left out on purpose.** The Resource Manager internals and hardware
  mode state are outside `src/`. Diagnostics, introspection, parameter and
  plugin loading, and URDF parsing do formatting and I/O only.
- **Data race below the model's grain.** `update()` reads `do_switch` and
  `deactivate_request_` without a lock (line 2779). The model reads them
  atomically, so a torn read is not represented.
