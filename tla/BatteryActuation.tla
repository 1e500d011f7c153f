-------------------------- MODULE BatteryActuation --------------------------
(***************************************************************************)
(* KDBrainActuationCoordinator (coordinator.py 279-356): every decision of *)
(* the optimiser goes through the safety gate and, in active mode, to the  *)
(* battery's power setpoint.                                               *)
(*                                                                         *)
(* A pass is requested by a new decision only: a change of the SOC by      *)
(* itself, or the end of a dwell, requests nothing.  The write that        *)
(* follows a verdict is WriteCycle's.                                      *)
(***************************************************************************)
EXTENDS SafetyGate, WriteCycle

CONSTANT Decisions     \* the actions the optimiser may choose

\* A pass reads telemetry's average SOC, None when unknown.
ASSUME ActuationAssumption ==
  /\ Decisions \subseteq Intended
  /\ Readings \subseteq Int \cup {None}

VARIABLES
  decision,      \* optimization.data
  soc            \* telemetry.data.battery_soc_average()

inputs == <<decision, soc>>
vars   == <<now, mode, phase, configured, state, debouncer, flight, orphan, data,
            last_update_success, device, pending, faults, reloads, failures,
            decision, soc>>

TypeOK ==
  /\ CycleTypeOK
  /\ decision \in Decisions \cup {None}
  /\ soc \in Readings

-----------------------------------------------------------------------------
Init ==
  /\ CycleInit
  /\ decision = None /\ soc \in Readings

\* _async_update_data up to its await, for decision d and control state s.
Pass(d, s, after) ==
  IF d = None THEN Skipped(after)
              ELSE Judged(Evaluate(d, soc, s, now), soc, after)

\* async_setup_entry: the optimiser's own first refresh left decision d.
Setup(d, control_entity) ==
  /\ decision' = d /\ UNCHANGED soc
  /\ configured' = control_entity
  /\ Pass(d, FreshControlState, Quiet)
  /\ NewInstance

\* The optimisation coordinator notifies its listeners: a new decision, the
\* same one again (also after a failed refresh), or None without prices.
NewDecision(d) ==
  /\ decision' = d /\ UNCHANGED soc
  /\ IF PassRequested THEN UNCHANGED configured /\ Pass(d, state, CoolingDown)
                      ELSE RequestNotRun
  /\ InstanceKept

\* The end of the cooldown, with the queued call forgotten.
TimerForgets ==
  /\ CooldownEnds
  /\ InstanceKept /\ UNCHANGED inputs

\* The end of the cooldown: the queued call evaluates the newest decision.
TimerFires ==
  /\ IF PassQueued THEN UNCHANGED configured /\ Pass(decision, state, CoolingDown)
                   ELSE CooldownEnds
  /\ InstanceKept /\ UNCHANGED inputs

TelemetryUpdate(s) ==
  /\ soc' = s /\ s # soc
  /\ UNCHANGED <<cycleVars, decision>>

Next ==
  \/ \E d \in Decisions \cup {None}, c \in BOOLEAN : Setup(d, c)
  \/ \E d \in Decisions \cup {None} : NewDecision(d)
  \/ TimerFires
  \/ \E s \in Readings : TelemetryUpdate(s)
  \/ CycleNext /\ UNCHANGED inputs

Spec == Init /\ [][Next]_vars

\* The event loop runs a due timer, and every set_value call comes to an end.
Fairness ==
  /\ WF_vars(TimerFires)
  /\ WF_vars(WriteLands /\ UNCHANGED inputs)
  /\ WF_vars(WriteSucceeds /\ UNCHANGED inputs)

FairSpec == Spec /\ Fairness

-----------------------------------------------------------------------------
\* After a pass that was not held, the battery follows the gate's verdict: the
\* same direction, within the hysteresis.  A skipped "unchanged" write, a write
\* still landing, a reload or a rejected write must never leave it elsewhere; a
\* write that took effect and raised, or an unloaded instance's late one, leaves
\* it elsewhere until the next write has landed, and no longer.
DeviceFollowsVerdict ==
  (Steering /\ InStep /\ ~data.outcome.held)
    => /\ Direction(device.w) = Direction(data.outcome.signed_w)
       /\ AbsW(device.w - data.outcome.signed_w) <= HysteresisW

\* When telemetry showed a pass a SOC at or beyond a limit, the battery may
\* still be moving past that limit only because the pass asked for the opposite
\* direction and the minimum dwell postponed the reversal.
LimitPassedOnlyWhileReversalHeld ==
  (Steering /\ InStep /\ data.seen # None)
    => /\ data.seen <= MinSoc /\ device.w < 0
            => data.outcome.held /\ data.outcome.signed_w > 0
       /\ data.seen >= MaxSoc /\ device.w > 0
            => data.outcome.held /\ data.outcome.signed_w < 0

\* "Hard block" as documented: once a pass saw the SOC at the minimum, the
\* battery no longer discharges.
SocFloorEnforced ==
  (Steering /\ faults = {} /\ data.seen # None /\ data.seen <= MinSoc)
    => device.w >= 0

\* Anti-oscillation as the battery sees it: it enters charging or discharging no
\* sooner than the minimum dwell after its previous change of direction, short
\* of the time a write may take to land.
DirectionChangesSpaced ==
  [][(/\ WriteLands /\ faults = {}
      /\ Direction(flight.w) \notin {"idle", Direction(device.w)}
      /\ device.change_ts # None)
     => now - device.change_ts >= MinDwell - MaxLatency]_vars

\* Write throttle as the battery sees it: a setpoint other than a stop lands no
\* sooner than the throttle after the previous one, short of the latency.
SetpointsSpaced ==
  [][(WriteLands /\ faults = {} /\ flight.w # 0 /\ device.write_ts # None)
     => now - device.write_ts >= WriteThrottle - MaxLatency]_vars

\* "Re-evaluate whenever a new decision is produced", as documented: no decision
\* a listening coordinator is told of is dropped.
EveryDecisionReevaluated == pending # "dropped"

\* If, from some point on, the newest decision is a stop that an active instance
\* in step has evaluated, the battery comes to rest for good: no throttle,
\* dwell or hysteresis outlasts a stop.
StopIsObeyed ==
  <>[](/\ phase = "up" /\ mode = "active" /\ configured /\ InStep
       /\ pending = "evaluated" /\ decision # None
       /\ decision.action = "idle"
       /\ flight = None
            => data # None /\ data.mode = "active" /\ last_update_success)
    => <>[](device.w = 0)

\* A queued decision is evaluated, or its instance is unloaded.
QueuedDecisionEvaluated == pending = "queued" ~> pending = "evaluated"

\* The abstract promise about the battery, and the mapping onto it.
Paced == INSTANCE PacedSetpoint
           WITH clock <- now, setpoint <- device, trusted <- (faults = {}),
                Setpoints <- -MaxDischargeW .. MaxChargeW,
                WritePause <- WriteThrottle - MaxLatency, StopPause <- 0,
                ChangePause <- MinDwell - MaxLatency

\* The coordinator, its debouncer, failing writes and reloads together implement
\* a paced setpoint within the configured powers.
RefinesPacedSetpoint == Paced!Spec

=============================================================================
