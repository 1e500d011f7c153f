# KD Brain: a TLA+ model of its control pipelines

KD Brain (`src/custom_components/kd_brain`) is a Home Assistant integration that
reads day-ahead electricity prices and home telemetry, decides what a battery, an
EV charger and a heat pump should do, passes each decision through a safety
layer, and in active mode writes a setpoint to the device. Paths below are
relative to `src/custom_components/kd_brain/`.

This project models the part of it that moves hardware: the three coordinators
that judge, write and record, their safety layers, the debouncer between them and
their inputs, failing and late writes, and reloads; for the battery, the strategies
that decide and the loop they close through the grid meter; the prices with the entry
around them (fetches, failures, retries, saved options, reloads) and what the price
entities show of them; and the way from the state of an entity through the telemetry
snapshot to a decision, with the forms and the panel that change which entities those
are. TLC checks it on small instances; TLAPS proves its safety properties for all values of the
constants.

## 1. Inventory

| Component | Source | State it keeps | Operations |
|---|---|---|---|
| Battery actuation | `coordinator.py` 279-356 | `ControlState`, last result, debouncer | evaluate the newest decision, write, record |
| Safety gate | `safety/gate.py`, `safety/config.py` | none | `evaluate` |
| Control state | `safety/state.py` | last write, direction and their times | `record` |
| EV control | `coordinator.py` 359-440, `ev/` | `ControlState`, last result, debouncer | plan a current, clamp, write, record |
| Heat pump control | `coordinator.py` 443-524, `heatpump/` | `ControlState`, last result, debouncer | plan an offset, clamp, write, record |
| Actuators | `actuators/`, `heatpump/actuator.py` | entity id | blocking `number.set_value` |
| Entry lifecycle | `__init__.py`, `services.py` | the coordinators | set up, unload, reload when options change, recalculate on request |
| Optimisation | `coordinator.py` 177-276, `engine/`, `strategies/` | last decision, last forecast | decide from prices and telemetry |
| Exact optimiser | `engine/milp.py` | none | linear program over the price horizon |
| Prices | `coordinator.py` 76-131, `data/sources/`, `economics.py`, `data/models.py` | price series, repair issue | poll, parse, apply the tariff |
| Telemetry | `coordinator.py` 134-174, `entity_adapter.py`, `data/models.py` | last snapshot | read source entities when one changes |
| Forecast | `engine/forecaster.py` | none | read forecast entities |
| Options | `config_flow.py`, `websocket_api.py` | entry options, open forms | first configuration, reconfiguration, options flow, partial updates from the panel |
| Provider table | `data/providers.py` | none | tariffs that prefill a form |
| Presentation | `sensor.py`, `binary_sensor.py`, `entity.py`, `diagnostics.py`, `panel.py`, `frontend/` | the states the entities wrote last | show state, forward calls |

How they interact. Everything runs on one event loop. Prices (polled) and
telemetry (pushed) notify listeners; the optimiser, the EV and the heat pump
coordinator listen to both, the battery coordinator listens to the optimiser
only. Every notification is a *request* to a Home Assistant debouncer, which runs
it, queues it behind its cooldown or drops it. Passes are atomic up to their
single `await`, the write. Saving options reloads the entry, which builds new
coordinators with a fresh control state.

What is hard:

- a pass reads its inputs and the time *before* it awaits the write and records
  *after*, with the time of before (`coordinator.py` 320-327);
- a request that meets an outstanding write is dropped by the debouncer, one that
  meets a cooldown is queued, one during setup is heard by nobody;
- a write can fail before or after the device took it; nothing is recorded then;
- a reload forgets the control state but not the device, and does not cancel a
  write already on its way;
- dwell and throttle postpone a write, and nobody schedules the retry: it happens
  with the next request, if one comes;
- "idle" is exempt from the dwell but not, in the heat pump, from the throttle;
- a fetch reads the tariff *before* it awaits the answer; a poll, a requested fetch
  and one of an instance unloaded since can be under way together;
- the update listener is registered at the very end of the setup, so options saved
  during it are read by some coordinators and not by others, and nobody reloads;
- the price source fails in more ways than the one exception that is expected;
- telemetry is read only when a tracked entity changes, and forecasts only in a round,
  so a list of entities that misses one, or a request that is lost, leaves a decision
  stale for good;
- a form is filled in when it is opened and merged when it is submitted, and the panel
  may save in between;
- an entity writes its state when its coordinator refreshed, not when a slot ends.

What makes each component correct:

- *gate and clamps*: never more power than configured, no charging or discharging
  past an SOC limit, a charge current that is off or within its limits, an offset
  within its limit, whatever the planner asks;
- *pipelines*: the device ends up where the last verdict wanted it, through
  skipped, rejected, late and repeated writes; spacing of writes and of changes of
  direction *as the device sees it*; no write started in observe-only mode; what is
  reported as written is on the device; requests are evaluated in the end;
- *optimiser*: no proposal against the battery's feasibility, priorities respected,
  one snapshot per round, a usable answer without the optional solver;
- *prices*: a running entry always has prices, a failure keeps the last series and
  raises a repair issue that a success clears, and the polling never ends; what is shown
  is the series in use, with a bounded age;
- *telemetry and forecast*: the snapshot is what the entities say now, every update
  reaches a decision, and aggregates are about the values that are known;
- *options and lifecycle*: every saved change takes effect, nothing of an unloaded
  instance goes on steering or serving; a form changes what it shows and nothing else.

The hazards this list comes from are in `PROJECT.json`, each at its line.

## 2. Modules

                              Optimizer ------------------.
                              /                            ClosedLoop
    SafetyState ----- SafetyGate -------------.            /
         |                                     BatteryActuation ---.
    WriteCycle ------------------------------'                      PacedSetpoint
         |   \------- EvControl ----------------------------------/   (abstract:
    Debouncer  \----- HeatPumpControl ---------------------------'   INSTANCE ... WITH)

    Sums ----- PriceSeries ----- PriceFeed ----- PriceDisplay
       \
        Telemetry ----- OptionsFlow ----- TelemetryFeed
        Debouncer -----------------------------'

| Module | Models | Correspondence |
|---|---|---|
| `SafetyState` | `safety/state.py` | `ControlState` is the record, `Record` the method, `Direction` the function; one record type for watts, amperes and tenths of a degree, as in the code |
| `SafetyGate` | `safety/gate.py`, `safety/config.py` | `Evaluate` = `evaluate`, with its five steps as `SocBlocks`, `SignedPower`, `DwellHolds`, `ThrottleHolds`, `Unchanged`; the constants are the fields of `SafetyConfig` |
| `Debouncer` | Home Assistant's request debouncer (external) | what `async_request_refresh` does with a request |
| `WriteCycle` | what the three coordinators share: the second half of `_async_update_data`, setup, unload, options | see below |
| `BatteryActuation` | `KDBrainActuationCoordinator` | `Pass` is `_async_update_data` up to its `await`; `NewDecision` the listener; `TimerFires` the end of a cooldown |
| `PacedSetpoint` | abstract promise about the setpoint of each of the three devices | moves to a setpoint of `Setpoints`, with pauses between writes, before stops and between changes of direction, unless trust was lost; the values of the pauses are each device's own (a heat pump's stops are throttled, a charger has no throttle) |
| `EvControl` | `KDBrainEvCoordinator`, `ev/planner.py`, `ev/safety.py` | `Plan` = `plan_ev`, `Clamp`/`DwellHolds`/`Verdict` = `ev_safety`; `Notified` = `_handle_upstream`, called by `TelemetryUpdates`, `PricesArrive` and `PricesFail`; `ReadingChanges` is what nobody is told of |
| `HeatPumpControl` | `KDBrainHeatPumpCoordinator`, `heatpump/` | `Plan` = `plan_heatpump`, `Approved` and `Verdict` = `hp_safety` |
| `Optimizer` | `engine/optimizer.py`, `engine/config.py`, `strategies/` | `Optimize` = `optimize`; one operator per strategy's `propose`, with its score; `Considered` the feasibility test, `Best` one step of `max` |
| `ClosedLoop` | `KDBrainOptimizationCoordinator` between the house's meter and the battery coordinator | `Round` is `_async_update_data`; `OptimizerNotified` the listener; `Start` the first refreshes of the setup; `TelemetryChanges` and `PricesUpdate` the upstream coordinators |
| `Sums` | Python's `sum` in `data/models.py` | `SumOf` adds the values of a function; `Telemetry` and `PriceSeries` use it |
| `PriceSeries` | `data/sources/epexprijzen.py`, `economics.py`, `data/models.py`, the choice of the slot in `engine/milp.py` | `ConsumptionPrice` and `FeedInPrice` = the methods of `TariffConfig`; `Points` = `async_fetch` after its request; `SlotAt` = `point_at`; `ToHourly`, `LocalDay`, `Lowest`, `Highest`, `Average`, `NextPrice` the views of `PriceSeries` |
| `PriceFeed` | `KDBrainPriceCoordinator`, `async_setup_entry`, `async_unload_entry`, `_async_update_listener`, `services.py`, the saving of options, the optimiser's `_decide` | see below |
| `PriceDisplay` | the price sensors of `sensor.py`, the low-price sensor of `binary_sensor.py`, `entity.py` | `PriceFeed` with `shown`, what the entities wrote last; `View` are the sensors' value functions, `EntitiesFollow` what a step of the feed makes the entities write, `next_poll` when the next poll is due |
| `Telemetry` | `data/adapters/entity_adapter.py`, the aggregates of `data/models.py`, `engine/forecaster.py` | `Read` = `EntityAdapter.read`, `Tracked` = `entity_ids`, `PowerW`, `Bool`, `ImbalancePrice`, `Batteries` its helpers; `Predict` and `ForecastIds` the forecasters; `SocAverage` = `battery_soc_average` |
| `OptionsFlow` | `config_flow.py`, `ws_config_update` | `form` is the open form with what it was filled in with; one action per step that shows a form, `Submit` the merge into the options, `PanelUpdates` the websocket command |
| `TelemetryFeed` | `KDBrainTelemetryCoordinator`, the listeners and rounds of `KDBrainOptimizationCoordinator` | `EntityChanges` is a state change with all it triggers on the loop; `round` records what the newest decision was made from |
| `MC*` | instances for TLC | readings and decisions that occur |
| `*_proofs` | proofs: one module per component; `ClosedLoop_proofs` holds those about the optimiser too | section 5 |

`WriteCycle` in detail. `flight` is the pass that awaits its write: setpoint, time
stamp and result are fixed, the device may have taken the setpoint (`landed`) or
not. `Judged` starts it or ends the pass at once; `WriteSucceeds` is the return of
the call followed by `record`; `WriteFails` is an exception, which the coordinator
turns into `last_update_success = False` with the old data kept. `Unload` drops the
instance, and a write on its way becomes an `orphan`, which may still land.
`NewInstance` is `async_setup_entry`: one refresh, then the listeners (`phase`
"setup" while that refresh writes). `mode` changes at any time, as the options are
read live before the reload. `configured` is fixed at setup, as the actuator is
built in `__init__`. `device` is the physical setpoint with the times it last moved
and last changed direction. `pending` (what became of the newest request) and
`faults` (what may separate device and control state) are history variables: "reload" (the
control state is a new one), "unrecorded" (a write took effect and then raised), "orphan" (a
write of an unloaded instance took effect) and "untimed" (moves of the device the control
state has no time of). The next write of the instance that takes effect ends "unrecorded"
and "orphan"; until then the device is not `InStep`, and properties that compare it with a
verdict or a report say nothing. "untimed" and "reload" stay, since the times stay unknown.

`EvControl` in detail. `reading` is what a pass would read now. The price coordinator's
listeners are told of every successful refresh and of the first failure in a row; during an
outage its polls change nothing here, so `prices_up` is all that is kept of it.

`PriceFeed` in detail. `phase` is the entry's: "setup" awaits the first prices, "platforms"
the rest of `async_setup_entry`, "retry" waits after a failed setup. `fetches` holds, per
kind of fetch, the tariff it has read; a fetch ends by `FirstFetchSucceeds`, `FetchSucceeds`
(the source's points become the data), `FetchFails` (a `PriceSourceError`, with its issue)
or `FetchBreaks` (any other exception, which the base class catches). `Reload` turns a
requested fetch into an "orphan", whose instance is gone and which can only touch the repair
issue; a poll is cancelled. `reloads` counts reload tasks that wait for the entry's lock.
`built` are the options that adapter, actuators and forecaster were built from. `Round` is a
round of the optimiser, reduced to which optimiser decided (`by`) and how far from the
present slot the one is that its action is meant for (`ahead`). `missed` is history: a form
was submitted while nobody listened.

`OptionsFlow` in detail. The keys of the options are grouped as the forms group them: a
submitted form replaces its section as a whole, since the voluptuous schema fills in the
required keys and the code stores `None` for the cleared ones. The tariff section is
`preset` (markup, feed-in cost and fee, the fields of a provider) and `rest`. `options`
is `None` until the first configuration has been completed.

Abstractions, all of them:

- The battery's inputs are the chosen action and the average SOC; the EV's and the
  heat pump's are a record `reading`. Prices enter the EV only as below / not below
  average. Messages, reasons, events and logging are left out.
- Times are clock units. The debouncer's cooldown (10 s) is below the unit, so its
  timer fires at any moment. A set_value call lasts at most `MaxLatency`.
- Heat pump offsets are computed exactly; the code uses floats, which can decide a
  tie of `round()` differently.
- `PriceFeed.built` are the options of one moment, although the EV and the heat pump
  coordinator are built after the battery's first pass has been awaited. It makes a
  difference only if options are saved in between, which is the case `missed` excludes.
- At most one orphan is followed at a time: `Unload` waits for it (a bound).
- Tasks of the event loop start eagerly, so a request and the pass it runs are one
  step. In `ClosedLoop`, `due` is set between a notification of the optimiser and its
  round; as nothing is awaited from there to the battery's pass, nothing else happens
  while it is set.
- Of a price series the strategies read three numbers (`Market`): the price now, the
  average, the highest price to come. Watts and SOC are whole numbers, prices
  thousandths of a euro per kWh, and scores are exact fractions, so that scores which
  floats could not tell apart are told apart here.
- A grid meter is the house's load plus the battery's setpoint; the battery obeys its
  setpoint at once. Telemetry reads that, or nothing when the meter is unavailable,
  and is out of date in between.
- Of the exact optimiser only its preconditions (`solved`) and the slot it takes its
  action from are modelled, and its fallback; the linear program is a library's.
- A price series is a set, as its order is that of the start times. An answer of the
  source is a pair of sets of items; a missing or unparsable date or price is `None`.
  Prices are whole thousandths of a euro, VAT is a percentage.
- Home Assistant, external, as `PriceFeed` uses it: setup and reload of an entry
  exclude each other; a first refresh that fails is retried as a new setup, any time
  later; a change of options is told to the listeners registered at that moment; a
  poll is scheduled when a refresh ends and is cancelled with its instance, a requested
  refresh is not; repair issues that are not persistent are gone after a restart. The
  debouncer of the recalculate service is reduced to one request at a time.
  Unloading the platforms is one step and succeeds.
- In `PriceDisplay` a due poll and an answer (10 s at most) take less than a quarter of
  an hour (`InTime`). The display interval and the threshold are constants. Prices of a
  view are counted in twelfths, so that the mean of up to four quarters is exact; the
  code rounds for display. The local day is the day of the series' clock.
- A state is a number, a flag, or nothing that can be read, with one of the units the
  code knows; NaN and infinity, which `float()` would accept, are excluded. Powers are
  whole watts, an imbalance price whole thousandths.
- At most one form is open at a time: for what a form writes, a second one submitted
  meanwhile is the same as a save by the panel. The panel saves one section at a time; a
  command with keys of several is several saves. Ranges and types of the fields are left
  out (`Choices` are what a user may enter).
- In `TelemetryFeed` unloading is one step, and the price fetch of the next setup, failed
  attempts included, is the time in `phase` "down". The telemetry coordinator calls its
  listeners in the step in which it reads.

## 3. Runs

| Run | Shows | Bounds |
|---|---|---|
| `battery_steady` | the SOC limit is passed only while a reversal is held, writes and reversals are spaced at the battery | 4 clock units, throttle 2, dwell 3, latency 1, no faults: enough for a write, a reversal held and released, and a third change |
| `battery_faults` | the battery follows the verdict through failures and reloads, and again from its next write on if one took effect unrecorded or late; what is reported as written is true; observe-only mode starts no write, and only writes that were under way before it move the battery; the abstract setpoint is implemented; a stop is obeyed for good, a queued decision is evaluated | one failure, one reload, one orphan; fairness below |
| `battery_floor` | violation: the battery may keep discharging below the minimum SOC while the dwell holds its reversal | |
| `battery_dropped` | violation: a new decision may never be evaluated | |
| `ev_passes` | the charger is off or within its limits, even with minimum above maximum; off at the target; the abstract setpoint is implemented, so that turning on is spaced; nothing sent twice; charging stops for good when there is no more reason to charge, if the price source works again and again | 2 units, dwell 2, latency 1, one failure; fairness below |
| `heatpump_offsets` | the offset follows the price, never more than half a step beyond its limit; stops are throttled like any write; the abstract setpoint is implemented, so that reversals are spaced | 4 units, throttle 2, dwell 3, one reload; a limit that is no multiple of the step |
| `closed_loop` | the gate alters a decision only if the SOC changed since; below the reserve the battery discharges for an import peak only; an import peak is answered whatever the other strategies want; every decision is one `BatteryActuation` is specified for | all five strategies, loads of -1000 and 3000 W, SOC at the reserve's wrong side and at the maximum, no pauses |
| `loop_surplus` | violation: a surplus the battery has taken up is exported again | self-consumption alone |
| `prices` | a running entry has prices, uses and shows them at the saved tariff once no reload waits; what is shown is no older than the update interval and gone after a failed refresh; an hour with a gap is shown at a price within the quarters there are of it; in the exact mode the repair issue is exact; the feed settles when the source no longer fails | two quarters, which are an hour and a day here, hourly display, two tariffs and both optimisers, two saves, one failure, one recalculation, one restart, one orphan: enough for a save during a fetch, a second one during the reload of the first, and a failure in between; fairness below; 372,344 states |
| `exact_slot` | violation: the exact optimiser's action is meant for a slot that is over | two quarters |
| `telemetry` | the snapshot is what the entities say; a decision made from other inputs is about to be replaced, and is in the end; an average SOC lies between the known ones; a form changes its own section only | four entities, two choices of devices (one where an entity is both tracked and a forecast), one supplier, two tariffs, two saves; fairness below |
| `options_manual` | violation: the form for the stored tariff shows the supplier's preset | one save |

The bounds are chosen so that every interesting order occurs: dwell longer than throttle,
both longer than the latency, and time for two complete dwell periods to overlap a write.
Decisions are the actions around the clamp (a power below, a power above the maximum), an
idle, and none; the SOC moves between both limits (`battery_steady`), between the lower one
and the middle (`battery_floor`), or over those and unknown (`battery_dropped`). Since
section 5 proves the safety properties for every constant, the runs need not be large; they
guard against a wrong statement. The answers of the price source are one with a gap (an item
without a price, in the second hour, which the clock reaches) and one that is valid JSON
without a single price. An hour that is missing altogether does not occur in the run; the
theorem includes it. An hour and a day of two quarters make a display interval span several
slots and a midnight pass within the run; an update interval of one quarter lets polls be
due before and after it. The entities of `telemetry` are a meter in kilowatts, a battery
that becomes unavailable, a second battery and a forecast that vanishes: every conversion
and every way of missing occurs. Two saves let the panel save between the opening of a form
and its submission, a reload follow, and the other choice of devices be read. The
closed-loop runs set throttle, dwell and latency to 0, as none of their properties mentions
a pause: every pass that is not skipped writes, which is the fastest the loop can turn, and
the pauses themselves are the battery runs' subject. Their one market (dear now, cheaper
later) makes the price strategies want to discharge against the reserve and along with the
peak; arbitrage proposes idle in it. That the properties hold for every market, arbitrage
that charges and no prices at all included, is proved.

`CHECK_DEADLOCK FALSE` is not used: the system can always change its options, or
be told of a decision.

Every checked property has a mutant in `PROJECT.json`: a plausible mistake in the
code (a dropped clamp, an off-by-one in the SOC test, recording a failed write...)
with which TLC finds it violated.

## 4. Fairness

Four runs use fairness: `battery_faults`, `ev_passes`, `prices` and `telemetry`.

Pipelines: `WF(TimerFires)`: the loop runs a due timer. `WF(WriteLands)` and
`WF(WriteSucceeds)`: a `blocking=True` service call comes to an end. EV only:
`WF(prices_up /\ PricesArrive(reading))`: the price coordinator polls for ever
(`update_interval`), and while the source is up each poll notifies its listeners. Home
Assistant's coordinator notifies nobody when a failed refresh follows a failed one, so
nothing is assumed while the source is down, nor that it ever recovers: `ChargingStops`
states as its premise that it is up again and again (`[]<>prices_up`), next to the premise
that stopping is wanted from some point on. TLC refutes it without the first: a telemetry
update dropped during a write, followed by an outage, leaves the charger on. The battery
gets no such assumption: it listens to the optimiser alone, and `StopIsObeyed` therefore
assumes that the stop has been evaluated. No fairness is assumed of `Tick`, decisions,
failures or reloads.

Prices: `WF(SetupStarts)` and `WF(Reload)`: Home Assistant retries a setup and lets a
waiting task have the entry's lock. `WF(Poll)`: the loop runs a due timer. `WF` of the
success of each kind of fetch: an answer comes within `REQUEST_TIMEOUT` or the fetch fails,
and the failures are finitely many (`MaxFailures`): `SettlesWithPrices` speaks of a source
that works again. None of saves, recalculations, restarts, rounds or `Tick`. That time does
not pass during a fetch restricts `Tick` only, of which nothing is assumed.

Telemetry: `WF(OptimizerTimerFires)`, a due timer again. None of changes of entities,
polls, forms or reloads: `DecisionCatchesUp` holds though entities never stop changing.

## 5. Proofs

`WriteCycle_proofs` holds the argument shared by the three coordinators. Comparing
the device with the control state is not inductive: between the landing of a write
and its recording they differ. The invariant compares the device with `Effective`,
the control state as it will be once a landed write is recorded:

- `SetpointInv`: while the device is in step, it holds what the effective state says was
  written last, and `FaultInv`: whatever put it out of step has left it untimed, too;
- `HistoryInv`: without faults the directions agree and the device's times are at
  most `MaxLatency` later than the recorded ones;
- `RequestInv`, `FlightInv`, `OriginInv`, `RecordInv`, `ReportInv`: the debouncer is
  quiet during a write, a write is in time and carries its own verdict, and so on.

`CycleInvStep` proves it for every step that is a `CycleStep`; each coordinator
proves that its steps are (`BatterySteps`, `EvSteps`).

`BatteryActuation_proofs` adds `GateInv`: a write on its way was admitted by the
gate in the control state still in force, and a result that was not held is what the
control state was left with. From both follow, for all constants: type correctness,
`DeviceFollowsVerdict`, `LimitPassedOnlyWhileReversalHeld`,
`ReportedWriteIsOnDevice`, the action properties
`DirectionChangesSpaced`, `SetpointsSpaced`, `ObserveOnlyNeverWrites`, and the
refinement `RefinesPacedSetpoint`. `PowerClamped` and `SocLimitsBlock` are about
`evaluate` itself, for any intended action.

That the three pipelines implement `PacedSetpoint` is proved step by step: a landing
write is `Steer` while no fault has occurred and `Stray` afterwards, a fault is
`LoseTrack`, a tick `Advance`, everything else stutters. `Steer` needs that the pass behind
the write was let through by a gate which saw the times of the control state, and that
those are at most `MaxLatency` behind the device's (`HistoryInv`); hence the pauses are the
code's less `MaxLatency`: the code takes its time *before* the await, so that a write may
land late and the next one early. Two small parts of the invariant close the gaps:
`OriginInv` (before the first setup nothing has moved or failed, and without an instance
there is no result) and `ClockInv` (the device did not move in the future).

`EvControl_proofs` adds `EvInv` and proves type correctness, `ChargerWithinLimits`,
`NoChargePastTarget`, `ReportedWriteIsOnDevice`, `ObserveOnlyNeverWrites`,
`NoRedundantWrite` and `RefinesPacedSetpoint`, where only switching on has to wait. Its
core is `ClampedPlanLegal`: planner and clamp together yield a legal current even if the
options contradict each other; the clamp alone does not. `SurplusUndoesItself` is about
two passes: a surplus of `k` amperes is planned for exactly, and once the charger takes
it the next plan is to stop.

`HeatPumpControl_proofs` has the same shape. Its core are two lemmas on `round()`:
rounding to even changes a number by half a unit at most and never its sign. From them
`ApprovedNearLimit` and `ApprovedFollowsPrice` follow for every limit, price and
average, and with `HpInv` all properties the run checks, `ObserveOnlyNeverWrites` and
`ReportedWriteIsOnDevice`. `NegativeAverageReverses` says what happens where
`OffsetFollowsPrice` ends: with a negative average every offset has the wrong sign.

`ClosedLoop_proofs` begins with one round of the optimiser, for every snapshot and all
options: `ChoiceFitsGate` (the choice is one the gate lets through unaltered at the same
SOC: strategies never exceed the configured powers, and the feasibility test matches the
gate's), `PeaksFirst` and `ReserveHeld` (the ranking the strategies' comments promise:
peak shaving scores 130 or more, the reserve 110, arbitrage at most 120 but only for
charging, the others at most 100), and `HighestScoreWins`: `max` by score, of equal ones
the first. Scores are fractions, so the last rests on cross multiplication being a strict
order that respects equality (`HigherThrough`, `HigherOneWay`), which takes positive
denominators. `SurplusReleased` gives the general reason behind `loop_surplus`.
The second part carries the first to the battery. The linking parts of the invariant are
`LoopInv`, the newest decision is the optimiser's choice for the recorded snapshot, and
`EvaluatedInv`, a pass over it ended with, or is writing, the gate's verdict for that
decision; the rest is the battery's invariant, since `LoopImplements` shows the closed
loop to be a behaviour of `BatteryActuation`. With `PacedImplemented` that makes the
battery of the loop a paced setpoint (`LoopPaced`): two refinements in a row.

`Sums_proofs` is about `SumOf`, the community modules' fold over a finite set. The lemmas
are proved by the least counterexample: if some set had no sum, or one out of bounds, there
would be a smallest such set (`LeastNat`), and taking one element away contradicts it.
`FoldExists` shows that the recursive function behind the fold exists on every finite set,
whatever the order its `CHOOSE` takes the elements in; `SumBetween`, that the sum of `n`
values lies between `n` times the least and `n` times the greatest of them.

`PriceFeed_proofs` proves type correctness, `RunningHasPrices` and `ChangesTakeEffect`
for every tariff, every answer and every number of failures, saves, recalculations and
restarts. That a loaded entry shows what was saved is not inductive: a fetch on its way
may bring a series at another tariff. `CurrentInv` therefore says of every fetch of the
running instance what the property says of its data, and `FirstInv` that the first fetch
is under way exactly during the setup. `PointsPriced` is the lemma about `async_fetch`.
That a decision is about a slot needs that a series has a first one (`FirstSlotTyped`, by
the well-foundedness of `<` on the naturals). `FeedInNotAbove` is about the tariff alone.
`MilpIssueExact` needs `IssueInv`: an exact round of the present instance has left the
issue as it is, and every loaded instance has had a round.

For the entities, `DisplayIsFeed` carries all of that to `PriceDisplay`. `ShownIsView` and
`ShownRecent` then need that nothing the entities show changes between two refreshes
(`ShownInv`), that a timer runs whenever entities are available and no poll is on its way
(`DueInv`), and that the poll is due no later than an interval after the refresh that was
shown (`NextPollInv`). These never expand the view. What it computes is the subject of two
more theorems, for every finite series of quarters (`Quarterly`, which every answer of the
source yields, gaps included: `PointsQuarterly`). `HourlyPrice`: the hourly display has one
price at a moment, the mean of the quarters there are of that hour. `ViewConsistent`: a
quarter with a price has one in the display, and the current price and the day's average
lie between the day's lowest and highest, if a day is a whole number of hours
(`PerDay % PerHour = 0`, as 96 quarters are). Without that the hour of the present moment
could begin on the day before. `GapsKept` carries the first to what the entities show
(`HourShownFromItsQuarters`): the data in use always stem from an answer (`DataInv`), an
answer is finite, and the mean of an hour's quarters lies between them.

`TelemetryFeed_proofs` rests on two lemmas about the adapter: what is read depends on the
tracked entities only (`ReadDependsOnTracked`), a forecast on the followed ones
(`PredictDependsOnForecastIds`). With them a change of any other entity changes no input,
and a change of one of these asks for a round, which either runs at once or is queued with
a timer: that is `NoUpdateLost`, for every set of entities, sources and units. Type
correctness includes that every merge of a form yields complete options.
`AverageWithinKnown` is proved for every number of batteries, with `SumBetween`.

Assumptions: options are natural numbers (`GateAssumption`, `EvAssumption`,
`HeatPumpAssumption`, `OptimizerAssumption`), those of the tariff whole numbers
(`FeedAssumption`), answers of the source are finite (`AnswerAssumption`), states of
entities and choices of the forms are what `TelemetryAssumption` and `OptionsAssumption`
say, bounds are natural numbers (`CycleAssumption`), `None` is neither a number nor a tariff
nor a write nor a proposal. The closed-loop theorems assume `Decisions = Intended`:
`BatteryActuation` is proved for any set of decisions, and the optimiser's are bounded by
the options only.

Only model-checked: liveness (`StopIsObeyed`, `QueuedDecisionEvaluated`,
`ChargingStops`, `SettlesWithPrices`, `DecisionCatchesUp`), which rests on fairness and
ENABLED, out of the prover's reach. Every other property of a passing run is also a
theorem. The library's induction theorems take an operator as a parameter, which the
installed provers cannot instantiate; where a proof needs induction over data (sums, the
first slot of a series) it goes by the least counterexample instead.

## 6. Findings

- `battery_floor`: the changelog calls the SOC limits a "hard block" and
  `backup_reserve.py` relies on a "hard discharge floor". The gate turns the blocked
  action into idle, which stops the battery at once. But if at that moment the
  decision asks for charging, the minimum dwell holds the reversal and writes
  nothing: the battery goes on discharging below the floor until the dwell ends *and*
  another decision arrives.
- `battery_dropped`: "Re-evaluate whenever a new decision is produced" does not hold
  for a decision that arrives while a write is awaited.
- `loop_surplus`: self-consumption is to "keep PV energy local". It compares the
  *metered* export with the surplus, and the meter contains the battery's own charging.
  Once the surplus is taken up there is no export, the strategy proposes to idle, and
  unless another strategy happens to charge the battery is stopped and the surplus is
  exported, to be taken up again one telemetry update later. `SurplusReleased` proves it
  for every surplus the battery can take up.
- `options_manual`: the "manual" path of the options flow is to edit "the stored values
  directly". For a supplier of the table it shows the supplier's markup, feed-in cost and
  fee instead of the stored ones, so that whoever opens it to change the tax undoes earlier
  adjustments by confirming it.
- `exact_slot`: the exact optimiser plans "over the whole remaining price horizon" and
  "takes the action for *now*". The source returns all of today, nothing cuts the past
  off, and the action is that of the first slot: midnight's.

Noticed without a run of their own:

- While the price source is down, nothing makes up for what the EV coordinator was not
  told: a telemetry update dropped during a write, options saved, the next price slot.
  The charger goes on at its last current until telemetry changes or the source recovers.
- A write that took effect and then raised is not recorded. If the next verdict equals the
  setpoint recorded before, nothing is written ("unchanged"), and the device keeps the
  other one until the verdict changes. A late write of an unloaded instance has the same
  effect on the new instance.
- A device whose optimisation is switched off stays at its last setpoint
  (`coordinator.py` 484): a heat pump that heats more than normal goes on doing so.
- `hp_safety` rounds after clamping, so with a limit that is not a multiple of 0.5 degrees
  (possible through `kd_brain/config/update`, which checks keys and not values) the offset
  written exceeds the configured limit; `OffsetNearLimit` states what remains true.
- Peak shaving reads the meter in the same way as self-consumption: a shaved peak is no
  longer visible and returns. `PeakAnswered` states what remains true.
- An answer of the source that is no JSON, or an item in it that is no object, ends in an
  exception nobody translates: setup and polls are retried, but no issue is raised
  (`FetchBreaks`).
- The repair issue for the missing solver is not deleted when the user switches back to
  the heuristic, as `strings.json` advises (`coordinator.py` 235 returns first).
- Malformed items are skipped "rather than" raised, against `base.py` 31-32.
- An options form submitted while the entry is being set up is not followed by a reload
  (`missed` in `ChangesTakeEffect` and `SnapshotCurrent`; `SettlesWithPrices` shows that the
  next poll at least makes up for the tariff).
- Between two polls the "current" price and the low-price sensor may be those of a slot
  that is over (the default interval is 30 minutes, a slot takes 15).
- `next_point` starts strictly after the moment, its docstring says "at or after".
- Units are compared in lower case, so a power in mW counts as MW; an energy forecast in
  MWh counts as kWh.
- The average SOC of several batteries hides one that is below its floor, and a missing PV
  reading counts as no production in the derived load.

## 7. Not modelled

- The linear program of the exact optimiser: a library's work; its preconditions, fallback
  and the slot of its action are modelled.
- The entities other than the price ones, `diagnostics.py`, `panel.py`, the frontend and
  the reading websocket commands: each copies coordinator data when asked and keeps no
  state, so a property could only repeat the formatting.
- The entries of the provider table: data; the proofs hold for every table (`Preset`).
- The widgets, ranges and translations of the forms, the explanation and expected saving
  of a decision, events and logs.
- An unload that a platform refuses, as none of the integration's platforms does.

The parts are checked separately where they meet in one value only: the pipelines take
prices and telemetry as inputs that change at any time, to any value (whole numbers, as said
above), whatever `PriceFeed` and `TelemetryFeed` deliver when, so composing them would only
restrict what the safety properties have been proved for. Liveness from an entity to a
device is not composed: the debouncers of the three device coordinators drop requests during
a write, as `battery_dropped` shows.
