-------------------------- MODULE HeatPumpControl --------------------------
(***************************************************************************)
(* KDBrainHeatPumpCoordinator (coordinator.py 443-524) with its planner    *)
(* (heatpump/planner.py) and its safety clamps (heatpump/safety.py): an    *)
(* offset of the heating curve, derived from the price at hand and the     *)
(* average of the series, written by WriteCycle.                           *)
(*                                                                         *)
(* Offsets are tenths of a degree, as in the shared ControlState; the      *)
(* float arithmetic of the planner is carried out exactly.  Unlike the     *)
(* battery and the charger, a stop (offset 0) is throttled too, and a      *)
(* reversal is held only by a pass that the throttle lets through.         *)
(***************************************************************************)
EXTENDS WriteCycle

CONSTANTS
  MinDwell,          \* min_dwell_s
  WriteThrottle      \* write_throttle_s

Step == 5            \* HEATPUMP_OFFSET_STEP, in tenths of a degree
Gain == 5            \* HEATPUMP_GAIN

\* What a pass reads: the options enabled and max_offset (in tenths; nothing
\* makes it a multiple of the step), the price now, None when no slot of the
\* series holds the present, and the average, None without a series.
Reading == [enabled : BOOLEAN, max_offset : Nat,
            price : Int \cup {None}, average : Int \cup {None}]

ASSUME HeatPumpAssumption ==
  /\ Readings \subseteq Reading
  /\ MinDwell \in Nat /\ WriteThrottle \in Nat

VARIABLE reading     \* what a pass would read now

vars == <<now, mode, phase, configured, state, debouncer, flight, orphan, data,
          last_update_success, device, pending, faults, reloads, failures,
          reading>>

TypeOK == CycleTypeOK /\ reading \in Readings

-----------------------------------------------------------------------------
Abs(n) == IF n < 0 THEN -n ELSE n

\* Python's round() of n / d, for d > 0: ties go to the even neighbour.
RoundHalfEven(n, d) ==
  LET floor == n \div d
      twice == 2 * (n % d)
  IN  IF twice > d \/ (twice = d /\ floor % 2 = 1) THEN floor + 1 ELSE floor

\* A clamp that forgets the lower bound.
WithinAbove(n, bound) == IF n > bound THEN bound ELSE n

Within(n, bound) == IF n > bound THEN bound ELSE IF n < -bound THEN -bound ELSE n

\* plan_heatpump with the sign of its ratio reversed.
PlanReversed(r) ==
  IF r.price = None \/ r.average = 0 THEN 0
  ELSE Step * RoundHalfEven(Within((r.price - r.average) * Gain * r.max_offset,
                                   Abs(r.average) * r.max_offset),
                            Abs(r.average) * Step)

\* plan_heatpump: the desired offset.  ratio = (average - price) / average, times
\* gain and limit, clamped and rounded to the step; both sides of the quotient
\* are multiplied by the sign of the average to keep the divisor positive.
Plan(r) ==
  IF r.price = None \/ r.average = 0 THEN 0
  ELSE LET toward == IF r.average < 0 THEN r.price - r.average
                                      ELSE r.average - r.price
       IN  Step * RoundHalfEven(Within(toward * Gain * r.max_offset,
                                       Abs(r.average) * r.max_offset),
                                Abs(r.average) * Step)

\* hp_safety: clamped to the limit and then rounded to the step.
Approved(offset, r) == Step * RoundHalfEven(Within(offset, r.max_offset), Step)

\* A throttle that lets stops pass, like the battery's.
ThrottleSparesStops(offset, s, t) ==
  offset # 0 /\ Recent(s.last_write_ts, t, WriteThrottle)

\* Write throttle, stops included.
ThrottleHolds(offset, s, t) == Recent(s.last_write_ts, t, WriteThrottle)

\* Anti short-cycling.
DwellHolds(offset, s, t) == ReversesTooSoon(offset, s, t, MinDwell)

\* plan_heatpump and hp_safety together.
Verdict(r, s, t) ==
  LET offset == Approved(Plan(r), r)
      held   == ThrottleHolds(offset, s, t) \/ DwellHolds(offset, s, t)
  IN  [signed_w |-> offset,
       held     |-> held,
       write    |-> ~held /\ offset # s.last_written_w]

-----------------------------------------------------------------------------
Init == CycleInit /\ reading \in Readings

\* _async_update_data up to its await.
Pass(r, s, after) ==
  IF ~r.enabled \/ r.average = None THEN Skipped(after)
                                    ELSE Judged(Verdict(r, s, now), r, after)

Setup(r, control_entity) ==
  /\ reading' = r
  /\ configured' = control_entity
  /\ Pass(r, FreshControlState, Quiet)
  /\ NewInstance

Options(r) == <<r.enabled, r.max_offset>>

\* _handle_upstream: the price or the telemetry coordinator has new data.
Upstream(r) ==
  /\ Options(r) = Options(reading)
  /\ reading' = r
  /\ IF PassRequested THEN UNCHANGED configured /\ Pass(r, state, CoolingDown)
                      ELSE RequestNotRun
  /\ InstanceKept

TimerFires ==
  /\ IF PassQueued THEN UNCHANGED configured /\ Pass(reading, state, CoolingDown)
                   ELSE CooldownEnds
  /\ InstanceKept /\ UNCHANGED reading

\* The clock enters another price slot, or options are saved: nobody is told.
ReadingChanges(r) ==
  /\ r # reading /\ r.average = reading.average
  /\ reading' = r
  /\ UNCHANGED cycleVars

Next ==
  \/ \E r \in Readings, c \in BOOLEAN : Setup(r, c)
  \/ \E r \in Readings : Upstream(r)
  \/ TimerFires
  \/ \E r \in Readings : ReadingChanges(r)
  \/ CycleNext /\ UNCHANGED reading

Spec == Init /\ [][Next]_vars

-----------------------------------------------------------------------------
\* A pass that was not held leaves the heat pump at its verdict.
Obeyed == Steering /\ InStep /\ ~data.outcome.held

\* "The offset is clamped to the configured limit", as far as the code keeps it, at
\* the device: as it rounds after clamping, the heat pump may be up to half a step
\* beyond the limit, never more.
OffsetNearLimit == Obeyed => 2 * Abs(device.w) <= 2 * data.seen.max_offset + Step

\* "A negative ratio (price above average) yields a negative offset", at the
\* device: it is never raised above an average, positive, price nor lowered below
\* one, held passes, reloads and rejected writes included.
OffsetFollowsPrice ==
  (Obeyed /\ data.seen.price # None /\ data.seen.average > 0)
    => /\ device.w > 0 => data.seen.price < data.seen.average
       /\ device.w < 0 => data.seen.price > data.seen.average

\* Write throttle as the heat pump sees it, stops included.
OffsetsSpaced ==
  [][(WriteLands /\ faults = {} /\ device.write_ts # None)
     => now - device.write_ts >= WriteThrottle - MaxLatency]_vars

\* Multiples of the step that exceed the limit of some options by half a step at
\* most.
Offsets ==
  UNION {{o \in -(r.max_offset + Step) .. (r.max_offset + Step) :
            /\ o % Step = 0
            /\ 2 * Abs(o) <= 2 * r.max_offset + Step} : r \in Readings}

\* The abstract promise about the heat pump, stops throttled like any offset.
Paced == INSTANCE PacedSetpoint
           WITH clock <- now, setpoint <- device, trusted <- (faults = {}),
                Setpoints <- Offsets,
                WritePause <- WriteThrottle - MaxLatency,
                StopPause <- WriteThrottle - MaxLatency,
                ChangePause <- MinDwell - MaxLatency

\* The coordinator, its debouncer, failing writes and reloads together implement an
\* offset on the grid of the step that is throttled and, against short-cycling, not
\* reversed within the minimum dwell, short of the latency of a write.
RefinesPacedSetpoint == Paced!Spec

=============================================================================
