----------------------------- MODULE EvControl -----------------------------
(***************************************************************************)
(* KDBrainEvCoordinator (coordinator.py 359-440) with its planner          *)
(* (ev/planner.py) and its safety clamps (ev/safety.py): a charge current  *)
(* in amperes, planned from price, solar surplus and target SOC, written   *)
(* by WriteCycle.                                                          *)
(*                                                                         *)
(* A pass is requested by every update of telemetry and by every poll of   *)
(* the prices that succeeds or is the first to fail: while the source is   *)
(* down, the price coordinator tells nobody.  The price at hand also       *)
(* changes silently, when the clock enters another slot of the series, and *)
(* so do the options, when they are saved.                                 *)
(***************************************************************************)
EXTENDS WriteCycle

CONSTANTS
  MinDwell,          \* min_dwell_s
  WattsPerAmpere     \* EV_GRID_VOLTAGE * phases

\* What a pass reads.  enabled, min_a, max_a, target_soc: the options.  price:
\* "none" without a series, "low" if the slot at hand lies below the average,
\* else "high".  The rest is telemetry: power is watts, grid import positive.
Reading ==
  [enabled : BOOLEAN, min_a : Nat, max_a : Nat, target_soc : Nat,
   price : {"none", "low", "high"},
   connected : BOOLEAN \cup {None}, soc : Nat \cup {None},
   grid_w : Int \cup {None}, ev_w : Int \cup {None}]

ASSUME EvAssumption ==
  /\ Readings \subseteq Reading
  /\ MinDwell \in Nat /\ WattsPerAmpere \in Nat \ {0}

VARIABLES
  reading,     \* what a pass would read now
  prices_up    \* last_update_success of the price coordinator

inputs == <<reading, prices_up>>
vars   == <<now, mode, phase, configured, state, debouncer, flight, orphan, data,
            last_update_success, device, pending, faults, reloads, failures,
            reading, prices_up>>

TypeOK == CycleTypeOK /\ reading \in Readings /\ prices_up \in BOOLEAN

-----------------------------------------------------------------------------
\* Nothing to charge: unplugged, or at the target SOC.  Unknown is neither.
NoDemand(r) == r.connected = FALSE \/ (r.soc # None /\ r.soc >= r.target_soc)

\* The exported power plus what the charger draws, in whole amperes.  Python's
\* int() truncates towards zero; no export is no surplus.
SolarA(r) ==
  LET surplus_w == (IF r.ev_w = None THEN 0 ELSE r.ev_w) - r.grid_w
  IN  IF r.grid_w = None \/ r.grid_w >= 0 \/ surplus_w < 0 THEN 0
      ELSE surplus_w \div WattsPerAmpere

\* plan_ev with the demand test dropped.
PlanWithoutDemand(r) ==
  IF r.price = "low" THEN r.max_a
  ELSE IF SolarA(r) >= r.min_a THEN Lesser(SolarA(r), r.max_a)
  ELSE 0

\* plan_ev: the desired charge current.
Plan(r) ==
  IF NoDemand(r) THEN 0
  ELSE IF r.price = "low" THEN r.max_a
  ELSE IF SolarA(r) >= r.min_a THEN Lesser(SolarA(r), r.max_a)
  ELSE 0

\* ev_safety without its IEC 61851 step.
ClampOnly(a, r) == Lesser(a, r.max_a)

\* The clamps of ev_safety, in their order: IEC 61851, then the maximum.
Clamp(a, r) ==
  IF 0 < a /\ a < r.min_a THEN 0 ELSE Lesser(a, r.max_a)

\* Anti-oscillation that also holds turning off.
DwellHoldsAnything(a, s, t) ==
  Direction(a) # s.last_direction /\ Recent(s.last_change_ts, t, MinDwell)

\* No anti-oscillation.
DwellHoldsNothing(a, s, t) == FALSE

\* Anti-oscillation: turning on only.  Turning off is never held.
DwellHolds(a, s, t) == ReversesTooSoon(a, s, t, MinDwell)

\* Writes whatever it approves.
VerdictAlwaysWrites(r, s, t) ==
  LET a == Clamp(Plan(r), r)
  IN  [signed_w |-> a, held |-> DwellHolds(a, s, t), write |-> ~DwellHolds(a, s, t)]

\* plan_ev and ev_safety together.
Verdict(r, s, t) ==
  LET a == Clamp(Plan(r), r)
  IN  [signed_w |-> a,
       held     |-> DwellHolds(a, s, t),
       write    |-> ~DwellHolds(a, s, t) /\ a # s.last_written_w]

-----------------------------------------------------------------------------
Init == CycleInit /\ reading \in Readings /\ prices_up = TRUE

\* _async_update_data up to its await.
Pass(r, s, after) ==
  IF ~r.enabled \/ r.price = "none" THEN Skipped(after)
                                    ELSE Judged(Verdict(r, s, now), r, after)

\* async_setup_entry comes this far only if its first fetch of the prices succeeds.
Setup(r, control_entity) ==
  /\ reading' = r /\ prices_up' = TRUE
  /\ configured' = control_entity
  /\ Pass(r, FreshControlState, Quiet)
  /\ NewInstance

Options(r)   == <<r.enabled, r.min_a, r.max_a, r.target_soc>>
Telemetry(r) == <<r.connected, r.soc, r.grid_w, r.ev_w>>

\* _handle_upstream, called by a coordinator that has reading r to offer.
Notified(r) ==
  /\ reading' = r
  /\ IF PassRequested THEN UNCHANGED configured /\ Pass(r, state, CoolingDown)
                      ELSE RequestNotRun
  /\ InstanceKept

\* The telemetry coordinator tells of every change it reads, and of the same again.
TelemetryUpdates(r) ==
  /\ Options(r) = Options(reading) /\ r.price = reading.price
  /\ Notified(r) /\ UNCHANGED prices_up

\* A refresh of the prices succeeds: the listeners are told, new series or not.
PricesArrive(r) ==
  /\ Options(r) = Options(reading) /\ Telemetry(r) = Telemetry(reading)
  /\ Notified(r) /\ prices_up' = TRUE

\* A refresh of the prices fails and the old series stays.  The listeners are told
\* of the first failure in a row; those that follow change nothing here.
PricesFail ==
  /\ prices_up /\ prices_up' = FALSE
  /\ Notified(reading)

TimerFires ==
  /\ IF PassQueued THEN UNCHANGED configured /\ Pass(reading, state, CoolingDown)
                   ELSE CooldownEnds
  /\ InstanceKept /\ UNCHANGED inputs

\* The clock enters another price slot, or options are saved: nobody is told.
ReadingChanges(r) ==
  /\ r # reading /\ Telemetry(r) = Telemetry(reading)
  /\ reading' = r
  /\ UNCHANGED <<cycleVars, prices_up>>

Next ==
  \/ \E r \in Readings, c \in BOOLEAN : Setup(r, c)
  \/ \E r \in Readings : TelemetryUpdates(r)
  \/ \E r \in Readings : PricesArrive(r)
  \/ PricesFail
  \/ TimerFires
  \/ \E r \in Readings : ReadingChanges(r)
  \/ CycleNext /\ UNCHANGED inputs

Spec == Init /\ [][Next]_vars

\* The event loop runs a due timer, every set_value call comes to an end, and the
\* price coordinator polls for ever (update_interval), which it tells its listeners
\* as long as the source is up.
Fairness ==
  /\ WF_vars(TimerFires)
  /\ WF_vars(WriteLands /\ UNCHANGED inputs)
  /\ WF_vars(WriteSucceeds /\ UNCHANGED inputs)
  /\ WF_vars(prices_up /\ PricesArrive(reading))

FairSpec == Spec /\ Fairness

-----------------------------------------------------------------------------
\* IEC 61851 as the charger sees it: after any pass, a held one included, it is
\* off or within the minimum and maximum that pass was configured with.
ChargerWithinLimits ==
  (Steering /\ InStep /\ device.w # 0)
    => data.seen.min_a <= device.w /\ device.w <= data.seen.max_a

\* A pass that sees the car unplugged or at its target leaves the charger off:
\* unlike the battery's reversal, turning off is never postponed.
NoChargePastTarget ==
  (Steering /\ InStep /\ NoDemand(data.seen)) => device.w = 0

\* "Unchanged" works across skipped, held and dropped passes: while nothing
\* separated it from the control state, the charger is never sent the current it
\* already has, but for the first write of all.
NoRedundantWrite ==
  [][(WriteLands /\ faults = {} /\ device.write_ts # None)
     => flight.w # device.w]_vars

\* A pass is wanted that switches the charger off.
StopWanted ==
  /\ phase = "up" /\ mode = "active" /\ configured /\ InStep
  /\ reading.enabled /\ reading.price # "none"
  /\ Clamp(Plan(reading), reading) = 0

\* When, from some point on, there is no more reason to charge, the charger is
\* off for good, if the price source works again and again: polling then makes up
\* for requests dropped while a write was under way, and no dwell outlasts turning
\* off.  While the source stays down nothing makes up for them.
ChargingStops == ([]<>prices_up /\ <>[]StopWanted) => <>[](device.w = 0)

\* Off, or a current within the limits of some options.
Amperes == {0} \cup UNION {r.min_a .. r.max_a : r \in Readings}

\* The abstract promise about the charger: there is no throttle, and switching on
\* alone changes the direction from off.
Paced == INSTANCE PacedSetpoint
           WITH clock <- now, setpoint <- device, trusted <- (faults = {}),
                Setpoints <- Amperes, WritePause <- 0, StopPause <- 0,
                ChangePause <- MinDwell - MaxLatency

\* The coordinator, its debouncer, failing writes and reloads together implement a
\* setpoint that is always legal, and switched on no sooner than the minimum dwell
\* after it was switched off, short of the latency of a write.
RefinesPacedSetpoint == Paced!Spec

=============================================================================
