# TLA+ models of the SPB accelerometer sensor driver

This directory holds TLA+ models of the UMDF sensor driver in
`src/spb/SpbAccelerometerV2`: an ADXL345 accelerometer on an SPB (I2C) bus,
exposed through the Windows sensor class extension. The models are checked
with TLC. `PROJECT.json` lists the components, runs, mutants, findings and
hazards in machine-readable form.

## 1. The system

| Part | Source | State | Operations |
|---|---|---|---|
| Client registry and arbitration | `ClientManager.cpp/.h` (`CClientManager`) | `m_pClientList` (IWDFFile* → `CLIENT_ENTRY{fSubscribed, desired sensitivities, desiredReportInterval}`), `m_ClientCount`, `m_SubscriberCount`, `m_minReportInterval`, `m_minReportIntervalExplicitlySet`, `m_spMinSensitivityValues` | Connect, Disconnect, Subscribe, Unsubscribe, SetDesiredProperty (→ SetDesiredReportInterval / SetDesiredChangeSensitivity), GetArbitratedProperty, GetDataUpdateMode, RecalculateProperties |
| Sensor device | `SensorDevice.cpp` (`CSensorDevice`) | `m_DataUpdateMode`, the property cache (`SENSOR_PROPERTY_STATE`), `m_fStateChanged`, the data-field cache | ClientConnect/Disconnect/Subscribe/Unsubscribe, SetProperties, ApplyUpdatedProperties, SetDataUpdateMode, PollForData, SetState, HasStateChanged, DataAvailable, RaiseDataEvent, ReportIntervalExpired, Start, Stop, GetDataFields/GetProperties |
| ADXL345 register layer | `AccelerometerDevice.cpp/.h` (`CAccelerometerDevice`, derived from `CSensorDevice`) | the part's registers (POWER_CTL, INT_ENABLE, INT_SOURCE, BW_RATE, THRESH_ACT), the shadow `m_InterruptsEnabled`, the device lock `m_CriticalSection` | SetDeviceStateStandby/Polling/Eventing, SetReportInterval, SetChangeSensitivity, RequestNewData/RequestData, OnInterruptIsr, OnInterruptWorkItem, ConfigureHardware, Get/SetTestProperty |
| Report manager | `ReportManager.h` only | `m_fDataEventingThreadActive`, `m_ReportInterval`, `m_LastReportTickCount`, the data event, the eventing thread, `m_ThreadCS` | Initialize, Uninitialize, SetReportInterval, NewDataAvailable, the thread procedure that throttles events |
| Class-extension callbacks | `SensorDdi.cpp` | none of its own | thin forwards to CSensorDevice (client requests, Start from D0Entry, Stop from D0Exit); PostDataEvent, PostStateChange |
| Queue, device, driver | `Queue.cpp`, `Device.h`, `Driver.h` | | the default queue dispatches IOCTLs **in parallel** (`WdfIoQueueDispatchParallel`) and is **power-managed** |

How they interact. Every client request arrives on a thread of the parallel
queue, reaches `CSensorDdi`, and is forwarded to `CSensorDevice`. The handler:

1. updates the client manager, which runs each public method entirely under
   `m_ClientListCS` and recomputes the arbitrated settings inside it;
2. calls `ApplyUpdatedProperties`, which reads the arbitrated interval and
   programs the part, tells the report manager, reads the arbitrated
   sensitivity and programs the part, then compares the arbitrated mode with
   `m_DataUpdateMode` and switches the mode if they differ;
3. for the first connect or the last disconnect, runs a tail that forces
   Polling (followed by a poll) or Off.

Each register sequence holds the device lock. The mode commit
`m_DataUpdateMode = Mode` and the reads in between hold no lock.

The data path runs beside the requests:
- The part latches an activity event in INT_SOURCE.
- The ISR reads INT_SOURCE, masks it with `m_InterruptsEnabled`, and queues a
  work item.
- The work item reads the data, calls `SetState(READY)`, and signals the
  report manager if anyone is subscribed.
- A GetDataFields request reads the state and, in Polling or before the
  first sample, polls (PollForData) before it reads the requested keys one
  `GetDataField` at a time. Both writers store the time stamp and the values
  under separate acquisitions of the cache lock, in opposite orders.
- The report manager's eventing thread wakes on that signal or on the end of
  the report interval, and when data is pending and the interval has passed
  it calls `ReportIntervalExpired`. That posts a state change if
  `HasStateChanged` says so, then a data event.

Power transitions: D0Entry calls `Start` (ConfigureHardware, then for
connected clients ApplyUpdatedProperties and PollForData), and D0Exit calls
`Stop` (`SetState(NO_DATA)`, then mode Off). The report manager runs from
device initialization to release, across D0 transitions.

Hard behaviours of the code:
- Interleaving of parallel requests around unlocked reads and writes: the
  count snapshot, the mode compare-and-commit, and the arbitrated-value reads.
- Partial failure of multi-register sequences, which are never rolled back.
- A register shadow (`m_InterruptsEnabled`) that drifts from the part.
- Numeric edges in arbitration: ULONG_MAX and NaN.
- The check-then-act `SetState`.
- The report manager thread racing Stop and interval changes.

## 2. Modules and correspondence to the code

### `ClientManager.tla` — `CClientManager`

Variables map one-to-one onto the members named above. `clientList` is a
function from the connected clients to entries.

Each public method is **one action**, because the code holds `m_ClientListCS`
for the whole method and `RecalculateProperties` runs inside it.
- `Connect`, `Disconnect`, `Subscribe`, `Unsubscribe`,
  `SetDesiredReportInterval` and `SetDesiredChangeSensitivity` each have a
  guard `...Ok` made of the method's early returns.
- A refused call changes nothing, so it is a stuttering step.

`RecalculateProperties(list, order)` translates the loop:
- The walk is a `FoldLeft` over the clients in `order`.
- `std::map` orders clients by `IWDFFile*` pointer value, which the driver
  does not control, so the action takes every order (`MapOrders`).
- `IntervalStep` keeps the strict `<` against a minimum that starts at
  `ULONG_MAX`.
- `SensitivityStep` applies the `min` macro `(a < b) ? a : b` with IEEE
  comparisons, so every comparison with `NaN` is false.
- Then defaults fill the untouched fields, and `ULONG_MAX` becomes the default
  interval.

Data abstraction:
- A VT_R8 sensitivity is an integer count of
  `ACCELEROMETER_CHANGE_SENSITIVITY_RESOLUTION` steps, or the model value
  `NaN`.
- VT_NULL and "key absent" are both `NoValue`, which every step treats alike.
- Intervals are compared only with `<` and `=`. The MC therefore gives
  `ULONG_MAX` a small value above every other interval, and the result is
  exact.

### `SensorDevice.tla` — `CSensorDevice` + `CAccelerometerDevice`

This module EXTENDS `ClientManager`, so the registry is shared state.

Request threads (`Threads`) each run one request. `pc[t]` follows the
handler, and `loc[t]` holds its locals:
- `count`: the client count snapshot;
- `val`: the interval or threshold that was read;
- `mode`: the new mode;
- `caller`: apply or tail.

A step ends wherever another thread can interleave:

| Step | Code |
|---|---|
| `RequestStep` | the client-manager call of ClientConnect / ClientDisconnect / ClientSubscribeToEvents / ClientUnsubscribeFromEvents / SetProperties, with the count snapshot taken under `m_ClientCriticalSection` |
| `ReadInterval`, `ReadSensitivity` | `GetArbitratedProperty` in ApplyUpdatedProperties |
| `HwSetReportInterval`, `HwSetChangeSensitivity` | the register sequences of SetReportInterval / SetChangeSensitivity (`ReprogramSequence`) |
| `RmSetReportInterval` | `m_pReportManager->SetReportInterval` |
| `ReadMode` | `GetDataUpdateMode()` compared with `m_DataUpdateMode` |
| `HwSetDeviceState` | SetDataUpdateMode's dispatch to `StandbySequence` / `PollingSequence` / `EventingSequence` |
| `CommitMode` | `m_DataUpdateMode = Mode` (no lock), then return to ApplyUpdatedProperties' caller or to the tail (`AfterApply`) |
| `PollRequest`, `ThreadStateRead`, `ThreadStateWrite` | PollForData: RequestNewData, then the two halves of SetState |
| `Activity` | the part latching an activity event (configured by `g_ConfigurationSettings`) |
| `OnInterruptIsr` | read-and-clear INT_SOURCE, mask with `m_InterruptsEnabled`, QueueWorkItemForIsr |
| `WorkItemRequestData`, `WorkItemStateRead`, `WorkItemStateWrite`, `RaiseDataEvent` | OnInterruptWorkItem → RequestData → DataAvailable → SetState → RaiseDataEvent |

Register sequences return the registers they leave and their HRESULT.
- When `RegisterAccessMayFail` holds, any **one** access of a sequence may
  fail (`FailurePoints`).
- The code's own control flow decides what still runs after the failure.
  For example, Standby's POWER_CTL write runs anyway and its result
  overwrites the earlier one.
- The data values, the time stamp and the data-field cache are left out
  here; `SensorDataCache.tla` models them.
- The threshold written to THRESH_ACT is `(BYTE)(minChangeSensitivity /
  RESOLUTION)` over the VT_R8 values (`VtR8Values`, `ThresholdsOf`).
  Sensitivities are in resolution steps. Past 255 steps the conversion is
  undefined behaviour: both the x86/x64 build (cvttsd2si) and the ARM64
  build (fcvtzu) keep the low byte, and the DBL_MAX left when no value is a
  number becomes 0 on x86/x64 and 255 on ARM64. The model takes either.

Request environment (`Issuable`):
- A client's requests come only between its connect and disconnect.
- No other request of a client starts while its connect callback is still
  running.
- Requests of different clients, and the non-connect requests of one client,
  may run in parallel, as the queue allows.

### `ReportManager.tla` — `CReportManager` (spec_modelled)

`ReportManager.cpp` is not in the repository, so this module follows spec
4.3 over the members the header declares. Time is the number of ticks since
`m_LastReportTickCount` (`rmElapsed`), saturated at `MaxElapsed`; the thread's
current wait is a countdown (`rmTimeout`).

| Action | Behaviour |
|---|---|
| `Initialize(v)` | set `m_ReportInterval`, activate and start the thread |
| `UninitializeSignal`, `UninitializeJoin` | under `m_ThreadCS` clear the active flag and signal; then wait for the thread to end |
| `SetReportInterval(v)`, `NewDataAvailable` | store the interval; mark data pending and signal the thread if active |
| `Tick` | a tick of `GetTickCount64()`, which also runs the wait down |
| `ThreadWake` | the wait ends on the (auto-reset) data event or the timeout |
| `ThreadExit`, `ThreadDue`, `ThreadNotDue` | the checks under `m_ThreadCS`: exit if deactivated; report if data is pending and the interval has passed; otherwise wait for the rest of the interval (`RemainingFor`) |
| `ThreadReport` | the report, outside the lock, then the next wait |

### `ReportThrottle.tla` — what the report manager promises

An abstract throttle with atomic Start/Stop: `Emit` happens only when the
throttle is active, data is pending and the interval has passed, and it
restarts the interval. Weak fairness of `Emit` says due data is reported.
`ReportManager.tla` instantiates it with the refinement mapping
`active <- rmActive \/ rmCaller = "joining"`: the throttle counts as active
until Uninitialize returns.

### `SensorDataCache.tla` — the property and data cache

A component of its own, so that the cache's races are checked without the
mode and register machinery. A sample is the number of the register read
that produced it (`hwSample`, at most `MaxSamples` reads). `cacheStamp` and
`cacheValues` are the reads whose time stamp and values the cache holds.
`sensorState`, `stateChanged` and `cxState` are as in SensorEventing. Each
action is one acquisition of `m_CacheCriticalSection`:

| Step | Code |
|---|---|
| `WorkItemRequestData`, `SetTimeStamp`, `StoreValues`, `SetStateRead`, `SetStateWrite`, `WorkItemRaise` | OnInterruptWorkItem → RequestData → DataAvailable (time stamp first, then the values) → SetState → RaiseDataEvent; only in Eventing |
| `GetDataFieldsStart` | GetDataFields: GetProperty(STATE); poll in Polling or when not READY |
| `RequestNewData`, `StoreValues`, `SetTimeStamp`, `SetStateRead`, `SetStateWrite` | PollForData: the values first, then the time stamp |
| `GetDataField`, `GetDataFieldsReturn` | one key per call, in the client's order, then return |
| `ReportDue` | the report manager's due check, then GetAllDataFields (the whole cache under one lock) |
| `RptHasStateChanged`, `RptPostStateChange`, `RptPostDataEvent` | the rest of ReportIntervalExpired |
| `ReportManagerCall` | the device's Initialize, Uninitialize and SetReportInterval calls into the report manager, and time |

The report manager is composed as `RM == INSTANCE ReportManager`, so
`cache_pass` also checks its refinement of `ReportThrottle`. The mode is
fixed per behaviour (`dataUpdateMode`), and a failed register read is left
out: it ends the call with the cache unchanged.

### `SampleConversion.tla` — from data registers to acceleration fields

This module holds pure operators, with no state, for RequestData's
conversion (AccelerometerDevice.cpp:2441-2490) and AddDataFieldValue's
range check (2143-2190):
- `ToShort` is `(SHORT)((buf[1] << 8) | buf[0])`, taken to 16 bits as two's
  complement.
- The scale 1/256 is a power of two, so the double is exact. Values are
  therefore kept exactly, in units of 1/256 g.
- `AddDataFieldValueOk` is the range check.
- `AddFrom` adds X, Y and Z in order and stops at the first value it
  refuses. The axes it already added stay in `pValues`, but the call fails.

The reference is `RegisterBytes`: the bytes the part writes for a count in
full resolution, right-justified, ±16 g (`g_ConfigurationSettings`), which
is 13 bits sign-extended, low byte first. `MCSensorDataCache` instantiates
the module as `SC`. It takes ±16 g for `ACCELEROMETER_MIN/MAX_ACCELERATION_G`,
whose header is not in the repository. `cache_pass` checks
`ReadingsDelivered` once the part has been read. TLC evaluates the
conversion check only once, because it is a constant definition.

### `SensorEventing.tla` — the event path and D0 transitions

This module EXTENDS `SensorDevice`, which itself instantiates
`ReportManager` (`RM`) for its interval and pending data. It adds:
- `d0`, `D0Entry(t)` and `D0Exit(t)`. They run `Start` and `Stop` on a queue
  thread's program counter, as PnP requests (`PnPRequests`). `Start` is
  `ConfigureHardware(k)` with a failure at any access `k`, then an apply and
  a poll when clients are connected. `Stop` is the two-step `SetState`
  followed by the mode sequence for Off (`StateTarget`, `AfterSetState`).
- The eventing thread: the report manager's wake-up and checks, and
  `ReportIntervalExpired` as `RptHasStateChanged` (test and clear
  `m_fStateChanged`), `RptPostStateChange` and `RptPostDataEvent`.
  `cxState` is the state the class extension was last told.

Framework assumptions. These are not in the repository and are chosen
conservatively:
- The queue is power-managed (`Queue.cpp:103`). It delivers requests only
  in D0, and the requests in progress finish before D0Exit (`Drained`).
- Interrupts are connected only in D0 (`IsrStep`).
- A queued work item is flushed before D0Exit.

## 3. Runs

| Run | Module / cfg | Expect | What it shows |
|---|---|---|---|
| `cm_pass` | MCClientManager / cm_pass.cfg | pass | The counters match the map. The arbitrated interval and sensitivity are the minimum of the explicit client values, or the defaults. Covers every call sequence of three clients (1,330 states with symmetry). |
| `cm_nan_order` | cm_nan_order.cfg | violation | A NaN sensitivity makes arbitration depend on the pointer order of the client map. |
| `device_pass` | MCSensorDevice / device_pass.cfg | pass | One thread, reliable registers, ISR and work item running meanwhile. At quiescence: the mode matches arbitration, the programmed rate/threshold and the report manager's interval are current, and Eventing has the interrupt armed. Outside Eventing, no activity queues the work item (`NoWorkOutsideEventing`, an action property; ≈59k states). |
| `device_failures` | device_failures.cfg | pass | Any single register failure per sequence: a committed Polling/Eventing mode always has the part measuring (≈3.1M states, under 2 min). |
| `device_race` | device_race.cfg | violation | Two threads: Subscribe and Unsubscribe in parallel leave Eventing committed with no subscriber. |
| `device_stale_apply` | device_stale_apply.cfg | violation | Two threads: an older arbitrated value is programmed after a newer one. |
| `device_standby_mask` | device_standby_mask.cfg | violation | SetDeviceStateStandby reports success after a failed INT_ENABLE write, and Off is committed with the interrupt on. |
| `cache_pass` | MCSensorDataCache / cache_pass.cfg | pass | With the work item, a polling GetDataFields and the eventing thread on the cache: the report manager refines `ReportThrottle` (liveness included), no report runs after Uninitialize has returned, and no state change is lost between SetState and HasStateChanged (`StateChangeNotLost`; 249k states, about 12 s). Every count the configured part can produce (all 8,192) decodes back exactly through the `(SHORT)` cast and passes the range check, so no read is refused (`ReadingsDelivered`). |
| `cache_torn_sample` | cache_torn_sample.cfg | violation | A GetDataFields before the first sample polls while the work item's DataAvailable runs, and returns the time stamp of one read with the values of the other (spec 3: a sample is replaced under one lock). |
| `cache_dup_state` | cache_dup_state.cfg | violation | The poll's SetState and the work item's both read NO_DATA. The eventing thread posts READY between their writes, and the second write raises `m_fStateChanged` again, so READY is posted twice (spec 4.3: once per transition). |
| `events_pass` | MCSensorEventing / events_pass.cfg | pass | Under the fairness below, activity latched in Eventing mode with a subscriber reaches a data event, unless the subscriber, the mode or D0 goes first (`ActivityReported`). No state change is lost across D0 transitions: READY from Start's poll or the work item, and NO_DATA from Stop, leave `m_fStateChanged` set until the eventing thread takes it (`StateChangeKept`). ≈530k states, about 70 s. |
| `events_stale_report` | events_stale_report.cfg | violation | Stop does not clear the report manager's pending data. In TLC's shortest trace, data is pending when D0Exit begins. The eventing thread reports it with the device leaving D0 (`d0` false): it posts READY and then a data event. The pending data also survives a completed Stop, into D3 or past the next D0Entry. |

Two further properties are stated, but no run checks them:
- `ExplicitFlagTracksClients` (ClientManager) fails only for a client
  interval of exactly ULONG_MAX;
- `PollingDisarmsInterrupts` (SensorDevice) fails because the reprogramming
  always re-enables INT_ENABLE. The ISR's `m_InterruptsEnabled` filter
  hides this. `device_pass` checks the effect that matters instead:
  `NoWorkOutsideEventing`.

Both disagreements are recorded as hazards in `PROJECT.json`.

Two violations found earlier are no longer separate runs, to keep the run
list to one run per question within its budget:
- a Polling commit landing after a concurrent standby
  (`SamplingModeMeasures`, SensorDevice.cpp:523), which needs two threads;
- a failure inside SetReportInterval/SetChangeSensitivity leaving Eventing
  with the interrupt off (`EventingArmsInterrupts`,
  AccelerometerDevice.cpp:1728), which `device_failures` shows if
  `EventingArmsInterrupts` is added to its invariants.

The threshold wrap is reproduced by `device_pass` with
`SensitivityInputs <- MCLargeSensitivityInputs`: 256 steps (16 g) is
programmed as 0, the most sensitive setting, and `AppliedSettingsCurrent`
fails.

Every property of a passing run has a mutant in `PROJECT.json`. Each mutant
is a plausible slip in the code it replaces, and TLC finds the property
violated under the mutant:
- an Unsubscribe that does not check the subscription;
- a Disconnect that keeps the subscriber count;
- a recalculation that counts interval 0;
- "last client wins" for sensitivities;
- a mode that ignores the explicit interval;
- a skipped report-manager update;
- a reprogramming without the re-enable;
- an Eventing transition that goes on after a failed POWER_CTL write;
- a wait computed without clamping at an interval already passed;
- an Uninitialize that does not wait for the thread;
- a due check that ignores the interval;
- a DataAvailable that raises the data event only on a state change;
- a SetState that stores READY without raising `m_fStateChanged`;
- a Polling transition that leaves `m_InterruptsEnabled` set;
- a SetState on a queue thread (Start's poll, Stop) that does not raise
  `m_fStateChanged`;
- a `(USHORT)` cast in place of `(SHORT)`.

### Bounds and why they are enough

- **ClientManager:** three clients and one data field.
  - Intervals {0, 5, 10, 50}: "use default", below the minimum supported 10,
    the minimum itself, and a value below the default 100.
  - Sensitivities {cleared, 0, 2, −1} against a default of 1: cleared, zero,
    above the default, and refused.
  - Three clients give every relative order of two overrides and a
    bystander. The fields are independent in the code (one loop per key), so
    one field loses nothing.
- **SensorDevice:** two clients and one field; one thread for the pass runs,
  two threads for the races.
  - Two threads are the smallest number that shows each race.
  - Two clients let a connect and a subscribe of different clients overlap.
  - The activity latch and the work-item queue are booleans, as in the part
    and in WDF (a queued item is not queued twice).
- `ULONG_MAX = 1000` stands for 2^32−1. Only its order with the other
  intervals matters.
- **ReportManager:** intervals {1, 3} with `MaxElapsed = 3`. This gives an
  interval that is due after one tick, one that needs several ticks, a change
  between them mid-wait, and saturation.
- **SensorDataCache:** one queue thread and the work item, the
  ReportManager intervals, and two register reads for the pass run. Two
  reads are enough for the two writers to store different samples.
  `cache_dup_state` uses three, because the second post needs a data
  arrival after both writers' SetState.
- **SensorEventing:** one client, one thread, one field, and reliable
  registers.
  - Intervals are in ticks: the default is 1, the client may set 1 (which
    selects Eventing), and `ULONG_MAX = 2`.
  - Liveness checking dominates the cost, so the bounds are the smallest
    that keep every step of the event path, D0 exit/entry with the client
    connected, and subscribe/unsubscribe at any point.

### Fairness

`RMSpec` assumes weak fairness of:
- the eventing thread's steps;
- the return of a caller blocked on the ended thread;
- the tick.

`DCSpec` assumes the same for the report manager, with the whole of
ReportIntervalExpired as the eventing thread's steps. The writers need no
fairness for the properties checked.

`SESpec` assumes:
- weak fairness of a request in progress, of the work item, of the eventing
  thread and of the tick. A started handler runs to its end, WDF runs a
  queued work item, and time advances.
- **strong** fairness of the ISR. Every reprogramming clears INT_ENABLE for a
  moment, so the interrupt is enabled only intermittently while requests
  keep arriving. A line that is asserted again and again is serviced.

There is no fairness for clients, D0 transitions or the part's activity.
They are the environment, and the code owes them nothing.

## 4. Not modelled, and why

- **Report manager internals beyond spec 4.3.** Its `.cpp` is not in the
  repository. The model follows the spec over the header's members.
- **Device Initialize/Uninitialize** (SensorDevice.cpp:130-380). This is
  one-time setup and release, outside the phase in which the queue runs. The
  ReportManager module's join is what Uninitialize relies on. Its failure
  paths look wrong:
  - the check after `Make<CReportManager>` tests `m_pClientManager`;
  - a failed QueryInterface after `m_pReportManager->Initialize` returns
    with the eventing thread running.

  Each would be a violation run of its own, and the caller (`Device.cpp`) is
  not in the repository, so the project leaves them to review.
- **Failed posts to the class extension.** ReportIntervalExpired clears
  `m_fStateChanged` before PostStateChange. A failed post therefore loses
  the state change, and it skips the data event too
  (SensorDevice.cpp:2313-2357). Adding the failure as a disjunct makes
  `StateChangeNotLost` fail at once. This is recorded as a hazard. It is not
  a run, because the project keeps to twelve runs.
- **GetProperties** (a read of the cache). The cache model abstracts a
  sample's values to the read that produced them. Their conversion is
  checked separately, in `SampleConversion`.
- **D0Entry failures in the event run.** `events_pass` keeps registers
  reliable for state-space reasons. `ConfigureHardware`'s failure points are
  modelled, but no pass run explores them.
- **Test properties** (Get/SetTestProperty). These are debug hooks that can
  write any register.
- **ACPI `_DSM` parsing, resource parsing, SPB request plumbing, unique-ID persistence, the
  supported-property lists.** These are I/O and formatting, not concurrency.
  The GetSupportedEvents loop (`count++` instead of `i++`, SensorDevice.cpp:651)
  is a plain sequential bug that a first call exposes.

## 5. Plan

1. **Done:**
   - ClientManager;
   - the request, ISR and register core of SensorDevice;
   - ReportManager with its refinement of ReportThrottle;
   - the event path with D0 transitions and its liveness property;
   - the threshold conversion as undefined behaviour;
   - the data cache, with its writers and readers, composed with the
     report manager;
   - the sample conversion and range check;
   - the ISR filter outside Eventing.
2. **Next:**
   - Stop's `SetState(NO_DATA)` racing a late poll in the cache model;
   - a failed Eventing transition leaving the part measuring in Off;
   - D0Entry failures, and a two-thread event run if the state space allows.
