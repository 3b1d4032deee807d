# Network Telemetry Framework in TLA+

Specifications of the telemetry pipeline under `src/Code`: a collector polls
devices, computes bandwidths from their counters and sends batches of readings
over gRPC to a backend, which stores them and raises and resolves alerts. The
modules are translated from the Python source; TLC checks them on small
instances and TLAPS proves the main results for all values of the constants.

Paths below are relative to `src/Code`.

## 1. Inventory

| Part | State | Operations | Talks to |
|---|---|---|---|
| Alert engine `backend/alerts/engine.py` | the `alerts` table | `evaluate_record`: look for an ACTIVE alert, raise, resolve, keep | called by the ingestion service, one transaction per record |
| Ingestion service `backend/services/ingestion_service.py` | the tables `telemetry_metrics`, `devices`, `interfaces` | `ingest_records`: one transaction for the batch, then the engine record by record | called by the servicer; calls the engine |
| gRPC servicer and server `backend/grpc_server/` | the calls in progress (event loop) | `SendTelemetryBatch`: convert, ingest, answer accepted or rejected | called by clients |
| REST API, query service `backend/api/`, `backend/services/query_service.py` | none (reads the tables) | list devices, alerts, metrics; paged CSV export | reads between the commits of the ingestion |
| Backend process `backend/main.py`, `backend/database/` | the database; the process itself | start (creates missing tables), stop, restart by docker | hosts all of the above |
| gRPC client `collector/grpc_client/client.py` | attempt of the current send | `send_batch`: attempt, deadline, backoff, retry, give up | the backend, over one HTTP/2 channel |
| Batch builder `collector/grpc_client/telemetry_builder.py` | none | `build_batch` | pure |
| Poll loop `collector/main.py` | `_previous_samples`, the place in the round | `poll_once`, `_poll_device`, `run_forever` | source, latency source, client |
| Bandwidth calculation `collector/metrics/` | none | `calculate_bandwidth`, `calculate_utilization`, `calculate_device_metrics` | pure |
| SNMP source `collector/snmp/` | none across polls | one GET, one walk, eight GETs per interface | the device, which changes meanwhile |
| ICMP source `collector/ping/` | the child process of the measurement | run `ping`, wait, kill after the overall timeout, parse its output | a subprocess |
| Simulator `collector/simulator/` | scenario per device, counters, last poll time | `set_scenario`, `poll_device`, `measure` | demo script and poll loop |
| Demo script `scripts/demo_scenario.py` | an application of its own | sets a scenario, runs rounds beside the real collector | the same backend |
| Generated code `common/`, dashboards, configuration | - | - | - |

What is hard in this code:

* **Several commits per call.** `ingest_records` commits the batch and then one
  transaction per record. A failure or crash in between leaves readings without
  evaluation, and nothing ever evaluates them later.
* **At-least-once delivery.** After a deadline the client sends the batch again
  without knowing what became of the first attempt.
* **Counters.** A counter that goes back was reset or wrapped around; a reboot
  may also hand an `if_index` to another interface.
* **One loop for all devices.** Whatever one device, or the ping of one, does must
  not stop the rest, nor leave a process behind.
* **Two collectors.** The demo script reports the same devices as the main process,
  under another scenario, and each starts without a previous sample.
* **Reads in the middle.** REST readers see the tables between two commits; the
  CSV export reads page by page while rows are inserted.

What makes the parts correct: one ACTIVE alert per condition, open exactly when
the last evaluated reading breaches (engine); tables that agree with one another
and a reply that tells the truth (ingestion); no false or duplicate alert from
repeated or late batches (delivery); reported bandwidths that are the traffic
that passed, each octet once (collector); a loss that is what ping saw (ICMP
source); rates that are those of the scenario (simulator), and alerts that are as
the scenario they were last heard of under has them (pipeline); every device
polled, every call and every send ended (liveness).

## 2. Modules

| Module | Models | EXTENDS |
|---|---|---|
| `AlertContract` | what the engine promises: a condition is open or not, episodes are counted | - |
| `AlertEngine` | `engine.py` over the rows of the `alerts` table; instance of `AlertContract` under a refinement mapping | - |
| `AlertHistory` | the engine and, of each condition, whether its last two readings breached; what the alerts say of that | `AlertEngine` |
| `Backend` | servicer, ingestion service, crash and restart | `AlertEngine` |
| `Delivery` | collectors' `send_batch`, the network, and the backend | `Backend` |
| `Bandwidth` | `bandwidth.py`, `interface_metrics.py`: pure operators | - |
| `Ports` | the interfaces of a device as its agent shows them | `Bandwidth` |
| `Collector` | poll loop, batch builder, devices, wall clock | `Ports` |
| `SnmpSource` | one poll, request by request, of a device that changes meanwhile | `Ports` |
| `IcmpSource` | `measure` with its child process, in the loop of `Collector`, which it implements | `Collector` |
| `Simulator` | scenario controller and simulated sources, with the samples the collector remembers of them | `Bandwidth` |
| `Pipeline` | collectors in SIMULATION mode (main and demo script), batches on their way, engine | `Simulator`, `AlertEngine` |
| `Export` | CSV export and filtered queries beside a writer | - |
| `MC...` | instances for TLC and their bounds | the module checked |
| `AlertEngineProofs`, `BackendProofs`, `DeliveryProofs`, `PortsProofs` (lemmas only), `CollectorProofs` (with `IcmpSource`), `SnmpSourceProofs`, `ExportProofs`, `PipelineProofs` (with `Simulator`) | theorems and proofs | the module, the proof modules below it, TLAPS |

A definition whose comment begins with "Slip" is a plausible mistake in the
definition after it; no specification uses it. It shows that the property that
guards the code would notice the mistake.

### AlertEngine

`alerts` is the table, a row's position its primary key. `EvaluateRecord(r)` is
one call of `evaluate_record` with its transaction: `Raise` (breach, nothing
ACTIVE), `Resolve` (in range, something ACTIVE), `Keep` (nothing to do), or no
step for a metric that is not `Relevant` (no alert type, or no threshold
loaded). `FindActive` is the set of rows that the query in `_find_active`
selects; as the query has no ORDER BY, `Resolve` takes any of them. Values
and timestamps are integers; the engine only compares a value with a bound and
copies a timestamp. `TelemetryRecord` is what a well-formed record looks like, `Record`
the records that may come in. `AlertHistory` adds `history`, which the program does not
keep: of each condition, whether its last two readings breached, the latest first
(`Latest` cuts off the older ones; no property looks further back). `HSpec` is
`EngineSpec` with it.

### Backend

The tables, and the calls of `SendTelemetryBatch` with the state of the one
handler that runs. `Ingest` is the conversion and the transaction of the batch,
`Evaluate` one turn of the loop over `valid_records`, `Reply` the answer.
`IngestFails` and `EvaluateFails` are exceptions, with `applied` telling whether
the commit that raised took effect. The handler is a coroutine without an await:
`queue` is the event loop's order and only the head starts. `Cancel` is a call
given up before its handler started (external: grpc.aio). `Crash` keeps the
tables and loses the calls; `Restart` is docker's `restart: unless-stopped`.
`evaluated` and `stored` are history variables.

### Delivery

`client[x]` is the local state of `send_batch`; each attempt is a call of its
own in `Call`. `Fail` is an `AioRpcError` (deadline or lost connection), at any
time while waiting, whatever the backend has done or will do with the call. Calls of
one collector are delivered in order, because the client keeps one channel, one
HTTP/2 connection; any of them may be lost. `Polled[x]` is the device file of collector
`x`; its n-th batch (`BatchOf`) is about devices of that file and carries the time
`n`, as the batches of a collector carry growing timestamps (the time of the poll).

### Bandwidth, Ports and Collector

A rate is the pair of octets and elapsed time; comparisons of quotients are
multiplied out, so rounding of floats is not modelled. The counter width is a
constant. In `Collector`, `net` is the devices themselves: an interface slot has
its counters, of `Width` values, and the history fields `life` and `passed`,
which the code cannot see. `Poll` stores the sample and keeps the previous one
for the calculation (`main.py:104-108`); `PollRaises` is an exception caught by
`poll_once`; `Send` builds the batch and returns whatever the client answers. The
history variables `carried` and `reported` are bags of octets, each octet of a counter
`<<if_index, life, direction>>`: what passed it, and what was reported of it.
Traffic, reboots, renumbering, the clock (which may be set back) and a restart of
the collector may happen between any two steps. A poll is one step, a snapshot;
`SnmpSource` takes it apart and shows what is left of a snapshot.

### SnmpSource

`poll_device` over one device: `Start` (with the safety gate: `Permitted` is what
the version, the community and the authorization of the device allow), `GetUptime`, `Walk` (a GETNEXT per step), `Receive` and
`Refused` (one column of one interface), `Complete`. `rows` are the rows of the
walk still to be read, `values` the columns of the first of them, `found` the
interfaces. A request is answered, times out (`SnmpTimeoutError`), is answered
with an error status (`SnmpError`) or with `noSuchInstance`, which is a value until
`int()` is applied to it after the last column. Each exit goes through `End`, the
`finally`. Interfaces change, octets pass and time goes by between any two
requests. `previous` and `sample` are the two samples the poll loop would compare;
each counter carries when it was read, in which life and at what real count.

A sample is stamped with `clock`, the wall clock (`datetime.now`): `Tick` is time that
passes, `SetClock` sets the clock forward or back. The history variable `ahead` is how far
it has been set in all, so `Now`, which is `clock - ahead`, is the time that has really
passed. Reads (`at`) and the beginning of a poll (`began`) are recorded in that time, and
a sample records how far the clock was ahead of it. So `SkewIsBounded` can say of the
elapsed time which part is the clock's (`set`, the difference of two `ahead`) and that the
rest is off by no more than the polls took. The code corrects for neither; an elapsed
time of zero or less gives no rate (`Comparable`).

### IcmpSource

`step` is where `measure` awaits: `communicate`, or `reap` for `proc.wait()`.
`Spawn` and `SpawnFails` are `create_subprocess_exec`, `Communicated` and
`TimesOut` the two ends of `wait_for`, `Reaped` the end of the wait after the kill.
`TimesOut` has three outcomes: the process is killed; it has just ended and is
waited for; it has ended and `kill` raises `ProcessLookupError`, which only the
`except Exception` of the poll loop catches. The child process (external) sends its
probes (`Probe`, which takes up to `ProbeTime`), loses time (`Stall`), gives up
(`Fail`) or ends. Time is counted in half seconds, so that `timeout_seconds` may be
a fraction. The actions of the loop around `measure` are those of `Collector`.

### Simulator and Pipeline

`ScenarioOf` is `get_scenario`; `Poll` is `poll_device` and the sample that
`_poll_device` puts in its place; `Advance` the octets that pass, with its guard
against an interval of zero or less. Between `poll_device` and the end of `measure`
nothing suspends on simulated sources, so both see one scenario and the poll is one
step. Octets, time and rates have units in which the figures of `scenarios.py` are
integers; an interval is a whole number of seconds.

`Pipeline` gives each collector (`App`) a simulator. `PollDevice` is `_poll_device`:
`Records` is what `build_batch` puts into the batch, in its order, and the batch
goes into `transit` as often as it may arrive; `AddIfValid` is `_add_if_valid`, one
record or none, and `InterfaceName` the names in the order of the if_indexes, which is
that of the records. How copies of a batch come about is the
subject of `Delivery`. `Take` and `EvaluateNext` are the handler and one turn of its
loop, `EvaluateRecord` that of `AlertEngine`; `BreakOff` is an evaluation that
raises or a backend that stops. `RestartApp` is a collector that starts: the demo
script is `RestartApp`, `Control` and a few polls. `ups`, `heard` and `told`
are history variables. `Rounding` is what a rounded quotient may be above the exact
one; it matters only at a threshold.

### Export

`stream_metrics_csv` page by page: `Start`, `Page` (a query, the rows written, the
next offset), `CutOff` at `max_rows`, `Abandon`. Rows are inserted between two
pages, newer or older than those there. `Newest(rows, k)` are the sets that the first
`k` rows may be, and `PagesOf` the differences of two of them, one in the other, so all
pages that orders of the rows by timestamp, newest first, may give: the query names no
order for rows of one timestamp, and all rows of a poll have one timestamp. The order
within a page is left out. `emitted` is `rows_emitted`, in which a row written twice
counts twice; `output` is the set of the rows written. `Answers` are the results of
the bandwidth and latency queries, which read `limit * 4` rows and filter them
then.

## 3. What TLC checks

| Run | Instance | Shows |
|---|---|---|
| `engine` | 1 device, 1 interface, all alert types, values at and above the bound, 3 rows | deduplication, open iff the last reading breaches, history kept, refinement of `AlertContract` |
| `engine_docs_breaches` | same | violated: "2 consecutive breaches" of `thresholds.yaml` is not implemented |
| `backend` | 3 calls, 4 contradicting batches (one with a malformed record) | the tables agree through failures, cancellation, crash and restart; accepted means complete; every call ends |
| `backend_docs_rejected` | 2 calls | violated: `records_stored=0` after the records were stored |
| `delivery` | 1 collector, 2 batches, 1 retry each | accepted is stored; late and repeated attempts neither duplicate nor overturn an alert; `last_seen` advances; `send_batch` returns |
| `delivery_docs_dropped` | same | violated: a rejected batch is dropped without a retry |
| `collector` | 1 device, counters of 4 values, 6 octets, 2 changes of its interfaces, 2 names | what is reported is what passed, once; no spike |
| `collector_rounds` | 2 devices, each measured by a ping of 2 probes that may fail, hang or stall; restarts | both are polled again and again; a measurement is one step of the loop whatever ping does (refinement of `Collector`), says what ping saw and leaves no process behind |
| `snmp` | 2 if_indexes, 2 columns, counters of 2 values; 2 events: a change of the interfaces, time, a clock set back | a steady interface is sampled whole; what is measured is what passed between the reads; how far the elapsed time may be off; polls end and close their transport |
| `snmp_docs_vanished` | same | violated: an interface that vanished is skipped |
| `pipeline` | main collector and demo script, 1 device, 1 interface, 3 scenarios set besides NORMAL; 4 polls, 4 changes, 1 fault | the rate shown is that of the scenario; alerts are as last heard; two polls suffice for all of them |
| `export` | pages of 2, 4 rows at most, a table of 5 rows | no untied row is lost, none repeated without cause; filtered queries have no gap |

Bounds and why they are enough. Alerts of different conditions do not interact,
so one device with one interface, but with both directions and the reachability
alert, has every interaction of the engine; three rows hold an episode after a
resolved one. Three calls allow one to wait while another runs and a third is
cut off by a crash. Two batches of two attempts are the least in which a late
attempt of one batch meets the next. Counters of 4 values with 6 octets lap more
than once between polls, and two changes make a reboot after a renumbering.
In `snmp` one change of the interfaces, at any point of two polls, is
the least that tears a poll, and two indexes let the walk go on past a row that is
gone. That change, a step of time and the clock being set back make two events at most
(`MaxEvents`), any two, each at any point of any poll: the least in which a slow poll
meets a clock set back after it, an elapsed time is negative, or time passes in
both of two polls. In `collector_rounds` two probes are the least of which one may be
lost, and
`TimeoutHalves` is 1, a `timeout_seconds` of 0.5, where ping takes longer for a probe
than the code allows it and only the 5 seconds on top of it help; traffic, reboots
and renumbering are off (`MaxCarried`, `MaxLives`), as ping has no part in them.
`pipeline` has at most 7 events: polls, then changes of scenario, restarts and ticks
of the clock, then a lost, doubled or broken-off batch (`Budget`); that is enough for
an alert raised by one collector, a change, two polls of the other and a fault in
between. It stops when the budget is spent, so deadlock is not checked there. One
interface stands for the two of the simulator, which are equal; the main collector
stays at NORMAL, as nothing in its process sets a scenario. HIGH_LATENCY differs
from PACKET_LOSS, and RECOVERY from NORMAL, only in the figures.
In `export` five rows are a page more than `max_rows`, and a third row
inserted between two pages moves rows over the edge of a page.
Every bound is a constant of the MC module or a definition in it: `MaxAlerts`,
`MaxCarried`, `MaxLives`, `MaxClock`, `MaxPassed`, `MaxEvents`, `MaxTable`, `MaxTransit`,
`Controlled` and `Budget` of `MCPipeline`; and `MaxCopies` in `Pipeline`, `MaxBatches` and
`MaxRetries` in `Delivery`, where the last is also the code's `max_retries`.

Fairness. `Backend!FairSpec`: the event loop goes on with a ready handler and
docker restarts the container; arrivals are not fair. `Delivery!DSpec`: deadline
and backoff are timers of the collector's own loop; network and backend get no
fairness. `Collector!CSpec`: each await of the loop has a timeout (SNMP timeout and
retries, the overall timeout of ping, `send_batch` by `SendReturns`).
`SnmpSource!SSpec`: each request returns or times out. `IcmpSource!ISpec`: a ping
that does not stall goes on, one that stalls at least lets time pass, so that
`wait_for` ends, and a killed process ends: `await proc.wait()` has no timeout of its
own. Under it the measurement is shown to end, which `CSpec` takes for granted.
`EveryDevicePolled` excepts a collector that is restarted for ever.

Limits of the guarantees, as assumptions one can break in the field:
`ResolvedAfterStarted`, `LastSeenAdvances`, `NoDuplicateEpisode` and
`AlertsMatchLastAccepted` hold where no device is in the files of two collectors, as none
is in both `config/devices.yaml` and `config/devices-gns3.yaml`, and where clocks
move forward. The demo script reports the devices of the main collector, so there they
do not hold; they are properties of the deployment, not of the backend alone. What is left
with shared devices is that no older word of a collector counts (`DeliveryLastHeard`, a
theorem) and `AlertsTellLastHeard`, in which the last to be heard wins; what
`Backend` promises, and `AcceptedIsStored`, hold in any deployment. With two collectors
`Delivery` is beyond an exhaustive run at the bounds of `delivery`, and the theorems
are about any number of them.

## 4. What is proved

All proofs are by induction over the steps, for any constants that satisfy the
named assumptions, which say that constants have their types and that sentinel values
differ from real ones, and which TLC evaluates in every run. Those that say more:
`SizeAssumption` (a page size divides `max_rows`, as 500 does 50000),
`PatienceAssumption` (ping is through with its probes within the overall timeout unless
it stalls), `ColumnsAssumption` (the columns of an interface are distinct and have the
counters of both directions among them) and `DirectionAssumption`.

* **Engine.** `EngineInvariant` (types and one ACTIVE alert per condition,
  inductive together), `EngineHistory` (a step appends an ACTIVE row or resolves
  one), `EngineImplementsContract` (initial states map to initial states; a step
  is `Open(k)`, `Close(k)` or a stutter of the contract), and, over `AlertHistory`,
  `EngineOpenIffLastBreaches`: an alert is open exactly if the last reading of its
  condition breached, however many readings of other conditions came since. `EvaluateDecides`, what one
  evaluation makes of every condition, is the lemma that the proofs of the backend and
  of the pipeline share.
* **Backend.** `AlertsMatchReadings` is not inductive: it says nothing of a
  condition whose last reading is pending, so it does not survive the evaluation
  of that reading. `IndInv` instead has `AgreeInv` (each alert agrees with the last
  *evaluated* reading of its condition) and `LoopInv` (what is evaluated precedes
  what is to do), from which it follows. `DevicesInv` ties the
  reachability flag to the last reachability row; with `AgreeInv` it gives
  `ReachableMatchesAlert`. `CallInv` is about the calls: those that wait in the event
  loop are distinct and have stored nothing (`QueueInv`), and the one that runs, like
  each that was accepted, has its whole batch in the table (`CallRowsInv`), whatever
  other calls, failures and crashes do meanwhile. `RowsInv` is the other direction: each
  row of the table was written for a call and is a record of its batch, whatever became
  of the call (`BackendRows`). Theorems: `BackendTypes`,
  `BackendDeduplicates`, `BackendAlertsMatch`, `BackendReachable`,
  `BackendAlertsJustified`, `BackendAcceptedComplete`; and `BackendImplementsEngine`: a
  step of the backend is one evaluation of a stored record or leaves the table of alerts
  alone, so what is proved of the engine holds of it (`BackendHistory`,
  `BackendImplementsContract`).
* **Delivery.** `DeliveryImplementsBackend`: the backend under retrying collectors and a
  lossy network is that of `Backend!Spec`, so its promises hold of the system
  (`DeliveryKeepsPromises`, `DeliveryHistory`, `DeliveryImplementsContract`). `DInv` adds
  to the invariants of the backend where a collector is with its attempts (`ClientInv`)
  and what is on the wire (`WireInv`); from it come `DeliveryTypes` and
  `DeliveryAcceptedStored`. `OrderInv`: the rows that the calls of a collector stored, its
  calls that wait and its calls on the wire are in the order of its batches; a retry
  repeats a batch but never goes back before one (`DeliveryOrder`). From it comes
  `DeliveryLastHeard`: once all that ever reported a condition have their last batch
  accepted, with a reading of it, the alert is open as one of these last readings says.
  All of this is for any collectors, whatever devices they share.
  The rest supposes `OwnDevices`, as two collectors have no common order: no device is in
  the files of two, so that `OrderInv` orders the rows of a device (`DeliveryRowsOrdered`).
  From that: an alert is not resolved by an older reading (`DeliveryResolvedAfterStarted`),
  the alerts are those of the last accepted batch (`DeliveryAlertsMatch`), a repeated
  batch opens no second episode (`DeliveryNoDuplicateEpisode`, with `EpisodeInv`: of two
  episodes of a condition, the earlier ended no later than the other started), and
  `last_seen` advances (`DeliveryLastSeenAdvances`, with `LastSeenInv`: it is the time of a
  stored row of the device). The three about alerts suppose `BatchesAgree` too: no batch says of
  one condition that it breaches and that it does not. `build_batch` makes one record per
  interface and metric, so only two interfaces of one name could; `PipelineBatchesAgree`
  shows that no simulated batch does.
* **Collector.** The idea is `Follows(p, s)`: a counter never says more than what
  passed and, within one life, differs from it by whole laps. `CInv` states it
  between each remembered sample and the device *now* (so that it is
  inductive under traffic, reboots and renumbering) and between the two
  samples of the job. `HistoryInv` is the account behind `ReportedOnce`: what was
  reported of a counter, with what passed since the sample that is remembered, is never
  more than what passed (`AccountInv`), and what was reported before the job at hand had
  passed at its first sample (`JobInv`). Theorems: `CollectorTypes`, `CollectorMeasures`, `CollectorNoSpike`,
  `CollectorReportsOnce`.
* **Ping.** `LossIsHonest` says nothing of a running ping. `IInv` adds where `measure`
  is while the process is in which state (`Phases`) and that a ping that has not
  stalled is within the time its probes take (`Punctual`), from which, with
  `PatienceAssumption`, only a stalled one meets the overall timeout. Theorems:
  `IcmpLossIsHonest`, `IcmpReapsPing`, `IcmpTypes`; and `IcmpImplementsLoop`, that every
  step of the loop with ping in it is a step of `Collector` or a stutter, so that the
  theorems about bandwidths hold with ping in the loop (`IcmpKeepsMeasures`).
* **SNMP polls.** `PollInv` says of a running poll that its transport is open and that
  it has lost columns only, and of an ended one what it reports; `TimesInv`, that all
  that was read was read since the poll began, in the time that really passed, and that a
  timestamp is as far ahead of that time as the clock was; nothing is assumed of
  how the clock is set. Neither speaks of the table of the
  device. `TableInv` and `ResultInv` do: rows, values and found interfaces have the
  types and names of the device's. `SteadyInv` says how far the poll has got with
  each interface that has stayed in place: the walk has it or is still to reach it, the
  requests have its columns or are still to ask for them. `ChainInv` orders everything
  that is known of a counter by the time of its read (the previous sample, the columns
  found, the device now), so that any two of them differ by what passed in between.
  Theorems: `SnmpFailsForCause`, `SnmpClosesTransport`, `SnmpSkewIsBounded`, `SnmpTypes`,
  `SnmpSamplesSteady`, `SnmpMeasuresBetweenReads`.
* **Export.** `Ahead(rows, r)` counts the rows that come before `r` in every order. The
  lemma `AlonePlace` says that a row with a timestamp of its own is among the first `k`
  exactly if fewer than `k` are ahead of it, so its page is known although the order is
  not. `XInv`: the offset and the rows written agree (`PagingInv`); a row that was
  there at the start and is not written is still ahead of the export or beyond
  `max_rows` (`SkipInv`), for an insert only moves rows back; and as many rows
  as were inserted may be met again (`RepeatInv`). Theorems: `ExportTypes`,
  `ExportSkipsNothing`, `ExportRepeatsAreBounded`, `ExportReturnsNewest`.
* **Simulator.** `InStep`: the sample that a collector remembers of a device that was up
  has the counters and the time of the simulator's own last poll, so both sides of the
  quotient cover one interval. Theorem: `SimulatorRates`, over `Pipeline!PSpec`.
* **Pipeline.** `WayInv`: every batch on its way, or at hand, consists of records whose
  values are those of its scenario (by `RateIsOfScenario`, and `FlattenOf`, which says
  what the flattened lists of records contain; the induction in it is over a set of
  naturals, `AllNaturals`). With `EvaluateDecides` that gives
  `PipelineAlertsTellLastHeard`. `NoContradiction`: two records of one metric in a batch
  have one value, whatever their interfaces are called (`PipelineBatchesAgree`). As in the
  backend, each step is one evaluation or leaves the alerts alone
  (`PipelineHistory`, `PipelineImplementsContract`). For `PipelineTwoPolls`, `WholeInv` says that the batch
  of a second poll in a row has a record of every condition of its device, and
  `ToldInv` that a condition of the batch at hand was heard under its scenario or still
  has a record to come. The theorem assumes `[]CountersFit`, that no counter of 64 bits runs
  full: the simulator's do not wrap around, and `calculate_bandwidth` refuses what does
  not fit, after which no utilization is sent. At the rates of the scenarios that
  takes some thousand years.

Only model-checked: every liveness property (`EveryCallEnds`, `SendReturns`,
`EveryDevicePolled`, `PollEnds`), as liveness under fairness is out of the prover's
reach, and for the same reason the fairness in `MeasureImplementsCollector`. Every safety
invariant and every action property of the runs that pass is proved.

## 5. Disagreements of the code with its documents

1. `backend/alerts/engine.py:102` raises at the first breach;
   `config/thresholds.yaml:11-13` promises two consecutive ones
   (`engine_docs_breaches`).
2. `backend/grpc_server/servicer.py:49` answers `records_stored=0` after the
   records were committed (`backend_docs_rejected`).
3. `collector/main.py:118` gives up a rejected batch after one attempt;
   `README.md:455-456` says only after the retries (`delivery_docs_dropped`).
4. `collector/snmp/snmp_source.py:130` skips an interface only when a request times
   out; the comment in it wants a vanished interface skipped, but an error status
   loses the device and a missing value raises (`snmp_docs_vanished`).

Not refuted by a run, but worth knowing:

* `backend/alerts/engine.py:6-7` gives a deduplication key without the metric type
  that the query uses; `README.md:304-316` has it right.
* Nothing orders rows of one timestamp (`backend/api/repository.py:65`), so two pages
  of an export may disagree on them; `NothingSkipped` and `RepeatsAreBounded` speak
  of rows with a timestamp of their own for that reason.
* `collector/ping/icmp_source.py:55` allows 5 seconds on top of all probes. Linux
  ping waits a whole second for each, so with a `timeout_seconds` of 0.5 and ten
  probes or more it cuts off a ping that works; `PatienceAssumption` names
  the condition.
* `collector/ping/base.py:38-43` says that `measure` "Must NOT raise on unreachable devices;
  return IcmpResult with reachable=False and packet_loss_percent=100.0 instead".
  `collector/ping/icmp_source.py:61` can: when ping has stalled without a reply and ends
  just as the overall timeout strikes, `kill` may raise `ProcessLookupError`, which
  `measure` does not catch (`TimesOut`; so does `SpawnFails` for an `OSError` other than
  the two caught). The loop logs it (`collector/main.py:113-114`) and the batch says
  nothing of loss, where it should say 100 %. `MeasureImplementsCollector` is about
  what the loop relies on, and has such a measurement as one without a result.
* A `ping` that is missing, or may not be run, is reported as a loss of 100 %
  (`icmp_source.py:68-81`) and so raises PACKET_LOSS for every device.
* Windows ping counts a router's "host unreachable" as received. The result is then
  not reachable with a loss of 0 % (`icmp_source.py:116-120`); `UnreachableIsReply`
  has both conventions.
* Outbound traffic of HIGH_BANDWIDTH is exactly 80 % of the line
  (`collector/simulator/scenarios.py:33`) and does not breach a threshold of 80 but by
  the rounding of floats, as it now and then does. `README.md:249` says "crosses";
  `tests/integration/test_end_to_end.py:106-116` counts on its not doing so.
* A demo run of one round sends no utilization and so never resolves HIGH_BANDWIDTH;
  beside a running main collector, whose scenario is NORMAL, its alerts are raised and
  resolved in turn with each round.
* A poll that raises (no community, a version that is not supported) sends no batch:
  the alerts of the device stay as last heard.
* With `mode: SNMP` and any latency mode but ICMP, real devices are reported
  with simulated latencies (`collector/main.py:58-66`).

## 6. Not modelled

The exporter set-up, the generated protobuf code, the configuration loaders, the
choice of the database and the dashboards keep no state that the properties are
about. The routers pass parameters on to the query service. The text of ping's output is
abstracted to what it says; so are the width of timestamps and, except at a
threshold, the rounding of floats. Two simulated polls less than a millisecond apart,
where the interval is rounded up, do not occur in whole seconds. The closing of the
connections in `shutdown`, with which the process ends, is not a step of its own.

## 7. Plan

All safety properties are proved. What could come next:

* the answers of the client in `Collector`, joined with `Delivery`, so that the poll loop,
  the network and the backend are one specification (they share no state but the batch);
* the demo script ending between two rounds, as a run of `Pipeline` under fairness: does
  the alert it leaves behind ever end;
* the queries behind the REST readers while a batch is half evaluated, in `Backend`.
