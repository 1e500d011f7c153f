----------------------- MODULE BatteryActuation_proofs -----------------------
(***************************************************************************)
(* BatteryActuation keeps its properties for every set of decisions and    *)
(* SOC levels, every limit, latency, and number of reloads and failures.   *)
(*                                                                         *)
(* WriteCycle_proofs says how the battery and the control state stay in    *)
(* step.  What is added here is the safety gate: an outstanding write was  *)
(* admissible in the control state that is still in force when it lands    *)
(* (GateInv), and the last result says what that control state is.         *)
(***************************************************************************)
EXTENDS BatteryActuation, WriteCycle_proofs

\* The approved power is a whole number of watts.
LEMMA SignedPowerType ==
  ASSUME NEW intended \in Intended, NEW reading
  PROVE  SignedPower(intended, reading) \in Int
  BY GateAssumption DEF SignedPower, Lesser, Intended, Actions

\* Step 2 of evaluate: whatever a strategy asks for, the approved power never
\* exceeds the configured charge and discharge power.
THEOREM PowerClamped ==
  ASSUME NEW intended \in Intended, NEW reading
  PROVE  /\ SignedPower(intended, reading) <= MaxChargeW
         /\ -MaxDischargeW <= SignedPower(intended, reading)
  BY GateAssumption DEF SignedPower, Lesser, Intended, Actions

\* Step 1 of evaluate: at or beyond an SOC limit no power is approved in the
\* blocked direction.
THEOREM SocLimitsBlock ==
  ASSUME NEW intended \in Intended, NEW reading \in Int
  PROVE  /\ reading <= MinSoc => SignedPower(intended, reading) >= 0
         /\ reading >= MaxSoc => SignedPower(intended, reading) <= 0
<1>1. reading # None
  BY StateAssumption
<1>. QED
  BY <1>1, GateAssumption
     DEF SignedPower, SocBlocks, Lesser, Intended, Actions

\* A verdict is well typed, and only a setpoint other than a stop is ever held:
\* "idle/stop is always allowed through immediately".
LEMMA EvaluateFacts ==
  ASSUME NEW intended \in Intended, NEW reading, NEW s \in ControlState,
         NEW t \in Int
  PROVE  LET outcome == Evaluate(intended, reading, s, t)
         IN  /\ outcome \in Outcome
             /\ outcome.signed_w = SignedPower(intended, reading)
             /\ outcome.held => outcome.signed_w # 0
             /\ outcome.write => ~outcome.held
             /\ outcome.write => /\ ~DwellHolds(outcome.signed_w, s, t)
                                 /\ ~ThrottleHolds(outcome.signed_w, s, t)
             /\ ~outcome.held /\ ~outcome.write
                  => Unchanged(outcome.signed_w, s)
<1> DEFINE w == SignedPower(intended, reading)
<1>1. w \in Int
  BY SignedPowerType
<1>2. DwellHolds(w, s, t) => w # 0
  BY <1>1, DirectionSign DEF DwellHolds, ReversesTooSoon
<1>3. ThrottleHolds(w, s, t) => w # 0
  BY DEF ThrottleHolds
<1>4. /\ DwellHolds(w, s, t) \in BOOLEAN
      /\ ThrottleHolds(w, s, t) \in BOOLEAN
      /\ Unchanged(w, s) \in BOOLEAN
  BY DEF DwellHolds, ReversesTooSoon, ThrottleHolds, Unchanged
<1>. HIDE DEF w
<1>. QED
  BY <1>1, <1>2, <1>3, <1>4 DEF Evaluate, Outcome, w

-----------------------------------------------------------------------------
\* A verdict respects the SOC it was made with.
VerdictInv(result) ==
  /\ result.outcome.held => result.outcome.signed_w # 0
  /\ result.seen # None
       => /\ result.seen <= MinSoc => result.outcome.signed_w >= 0
          /\ result.seen >= MaxSoc => result.outcome.signed_w <= 0

\* A write the gate admitted in control state s at time t.
Admitted(write, s, t) ==
  /\ ~write.result.outcome.held
  /\ ~DwellHolds(write.w, s, t)
  /\ ~ThrottleHolds(write.w, s, t)
  /\ VerdictInv(write.result)

InPower(write) == write.w \in -MaxDischargeW .. MaxChargeW

\* An active result that was not held is what control state s was left with.
LeftUnchanged(result, s, steers) ==
  (result.mode = "active" /\ steers /\ ~result.outcome.held)
    => Unchanged(result.outcome.signed_w, s)

GateInv ==
  /\ decision \in Decisions \cup {None} /\ soc \in Readings
  /\ flight # None => Admitted(flight, state, flight.ts) /\ InPower(flight)
  /\ orphan # None => InPower(orphan)
  /\ data # None => VerdictInv(data)
  /\ (data # None /\ flight = None /\ last_update_success)
       => LeftUnchanged(data, state, configured)

IInv == CycleInv /\ GateInv

-----------------------------------------------------------------------------
\* What a pass in control state s leaves behind.
JudgedIn(s) ==
  /\ flight' # None => Admitted(flight', s, now) /\ InPower(flight')
  /\ (flight' = None /\ data' # None)
       => VerdictInv(data') /\ LeftUnchanged(data', s, configured')

LEMMA PassCases ==
  ASSUME CycleTypeOK, soc \in Readings, NEW d \in Decisions \cup {None},
         NEW s \in ControlState, NEW after, configured' \in BOOLEAN,
         Pass(d, s, after)
  PROVE  /\ pending' = "evaluated"
         /\ WriteStarted \/ PassEnded(after)
         /\ JudgedIn(s)
<1>1. CASE d = None
  BY <1>1, SkippedCases DEF Pass, PassEnded, JudgedIn
<1>2. CASE d # None
  <2> DEFINE outcome == Evaluate(d, soc, s, now)
  <2>1. d \in Intended /\ now \in Int /\ (soc # None => soc \in Int)
    BY <1>2, ActuationAssumption DEF CycleTypeOK
  <2>2. /\ outcome \in Outcome
        /\ outcome.signed_w = SignedPower(d, soc)
        /\ outcome.held => outcome.signed_w # 0
        /\ outcome.write => ~outcome.held
        /\ outcome.write => /\ ~DwellHolds(outcome.signed_w, s, now)
                            /\ ~ThrottleHolds(outcome.signed_w, s, now)
        /\ ~outcome.held /\ ~outcome.write => Unchanged(outcome.signed_w, s)
    BY <2>1, EvaluateFacts
  <2>3. outcome.signed_w \in -MaxDischargeW .. MaxChargeW
    BY <2>1, <2>2, SignedPowerType, PowerClamped, GateAssumption
  <2>4. soc # None
          => /\ soc <= MinSoc => outcome.signed_w >= 0
             /\ soc >= MaxSoc => outcome.signed_w <= 0
    BY <2>1, <2>2, SocLimitsBlock
  <2>5. Judged(outcome, soc, after)
    BY <1>2 DEF Pass
  <2>6. MayWrite(outcome) = (mode = "active" /\ configured' /\ outcome.write)
    BY DEF MayWrite
  <2>. HIDE DEF outcome
  <2>7. /\ pending' = "evaluated"
        /\ \/ /\ WriteStarted
              /\ MayWrite(outcome)
              /\ flight'.result.outcome = outcome
              /\ flight'.result.seen = soc
           \/ /\ PassEnded(after)
              /\ ~MayWrite(outcome)
              /\ data' # None => /\ data'.outcome = outcome
                                 /\ data'.mode = mode
                                 /\ data'.seen = soc
    BY <2>2, <2>5, JudgedCases
  <2>8. CASE WriteStarted
    <3>1. /\ MayWrite(outcome) /\ flight'.result.outcome = outcome
          /\ flight'.result.seen = soc /\ flight' # None
          /\ flight'.w = outcome.signed_w
      BY <2>7, <2>8, NoneAssumption DEF WriteStarted, PassEnded
    <3>. QED
      BY <2>2, <2>3, <2>4, <2>6, <2>7, <2>8, <3>1
         DEF Admitted, InPower, VerdictInv, JudgedIn
  <2>9. CASE PassEnded(after)
    <3>1. /\ flight' = None /\ ~MayWrite(outcome)
          /\ data' # None => /\ data'.outcome = outcome
                             /\ data'.mode = mode
                             /\ data'.seen = soc
      BY <2>7, <2>9, NoneAssumption DEF WriteStarted, PassEnded
    <3>2. outcome.write \in BOOLEAN
      BY <2>2 DEF Outcome
    <3>. QED
      BY <2>2, <2>4, <2>6, <2>7, <2>9, <3>1, <3>2
         DEF VerdictInv, LeftUnchanged, JudgedIn
  <2>. QED
    BY <2>7, <2>8, <2>9
<1>. QED
  BY <1>1, <1>2

\* Every step of BatteryActuation is a step of the cycle, and its passes are
\* judged in the control state they leave in force.
LEMMA BatterySteps ==
  ASSUME CycleTypeOK, RequestInv, GateInv, [Next]_vars
  PROVE  /\ decision' \in Decisions \cup {None} /\ soc' \in Readings
         /\ \/ FirstRefresh /\ JudgedIn(FreshControlState)
            \/ Refresh /\ JudgedIn(state)
            \/ Request
            \/ UNCHANGED cycleVars
            \/ CycleNext
<1>. USE DEF GateInv
<1>1. ASSUME NEW d \in Decisions \cup {None}, NEW c \in BOOLEAN, Setup(d, c)
      PROVE  FirstRefresh /\ JudgedIn(FreshControlState)
  <2>1. configured' \in BOOLEAN /\ Pass(d, FreshControlState, Quiet)
    BY <1>1 DEF Setup
  <2>2. /\ pending' = "evaluated" /\ JudgedIn(FreshControlState)
        /\ WriteStarted \/ PassEnded(Quiet)
    BY <2>1, FreshControlStateType, PassCases
  <2>. QED
    BY <1>1, <2>1, <2>2 DEF Setup, FirstRefresh
<1>2. ASSUME NEW d \in Decisions \cup {None}, NewDecision(d)
      PROVE  (Refresh /\ JudgedIn(state)) \/ Request
  <2>1. CASE PassRequested
    <3>1. /\ configured' = configured /\ Pass(d, state, CoolingDown)
          /\ configured' \in BOOLEAN /\ state \in ControlState
          /\ phase = "up" /\ flight = None
      BY <1>2, <2>1 DEF NewDecision, CycleTypeOK, PassRequested, RunsNow
    <3>2. /\ pending' = "evaluated" /\ JudgedIn(state)
          /\ WriteStarted \/ PassEnded(CoolingDown)
      BY <3>1, PassCases
    <3>. QED
      BY <1>2, <3>1, <3>2 DEF NewDecision, Refresh
  <2>2. CASE ~PassRequested
    BY <1>2, <2>2 DEF NewDecision, Request
  <2>. QED
    BY <2>1, <2>2
<1>3. ASSUME TimerFires
      PROVE  (Refresh /\ JudgedIn(state)) \/ Request
  <2>1. CASE PassQueued
    <3>1. /\ configured' = configured /\ Pass(decision, state, CoolingDown)
          /\ configured' \in BOOLEAN /\ state \in ControlState
          /\ phase = "up" /\ flight = None
      BY <1>3, <2>1 DEF TimerFires, CycleTypeOK, PassQueued, RequestInv
    <3>2. /\ pending' = "evaluated" /\ JudgedIn(state)
          /\ WriteStarted \/ PassEnded(CoolingDown)
      BY <3>1, PassCases
    <3>. QED
      BY <1>3, <3>1, <3>2 DEF TimerFires, Refresh
  <2>2. CASE ~PassQueued
    BY <1>3, <2>2 DEF TimerFires, Request
  <2>. QED
    BY <2>1, <2>2
<1>4. ASSUME NEW s \in Readings, TelemetryUpdate(s)
      PROVE  UNCHANGED cycleVars
  BY <1>4 DEF TelemetryUpdate
<1>5. CASE UNCHANGED vars
  BY <1>5 DEF vars, cycleVars
<1>6. decision' \in Decisions \cup {None} /\ soc' \in Readings
  BY DEF Next, Setup, NewDecision, TimerFires, TelemetryUpdate, inputs, vars
<1>. QED
  BY <1>1, <1>2, <1>3, <1>4, <1>5, <1>6 DEF Next

-----------------------------------------------------------------------------
\* A recorded write is unchanged with respect to its own record.
LEMMA RecordedIsUnchanged ==
  ASSUME NEW s \in ControlState, NEW w \in Int, NEW ts
  PROVE  Unchanged(w, Record(s, w, ts))
  BY StateAssumption, GateAssumption DEF Unchanged, Record, AbsW

LEMMA GateStep ==
  ASSUME CycleInv, GateInv, [Next]_vars
  PROVE  GateInv'
<1>. USE NoneAssumption DEF GateInv
<1>0. CycleTypeOK /\ RequestInv /\ FlightInv /\ OriginInv
  BY DEF CycleInv
<1>1. CASE FirstRefresh /\ JudgedIn(FreshControlState)
  <2>1. /\ orphan' = orphan /\ state' = FreshControlState /\ phase' # "down"
        /\ phase = "down" /\ data = None
    BY <1>0, <1>1 DEF FirstRefresh, NewInstance, OriginInv
  <2>2. CASE WriteStarted
    BY <1>1, <2>1, <2>2, BatterySteps, <1>0
       DEF WriteStarted, JudgedIn, Admitted, VerdictInv, InPower
  <2>3. CASE PassEnded(Quiet)
    BY <1>1, <2>1, <2>3, BatterySteps, <1>0
       DEF PassEnded, JudgedIn, VerdictInv, InPower, LeftUnchanged
  <2>. QED
    BY <1>1, <2>2, <2>3 DEF FirstRefresh
<1>2. CASE Refresh /\ JudgedIn(state)
  <2>1. /\ orphan' = orphan /\ state' = state /\ phase' = phase /\ phase = "up"
    BY <1>2 DEF Refresh, InstanceKept
  <2>2. CASE WriteStarted
    BY <1>2, <2>1, <2>2, BatterySteps, <1>0
       DEF WriteStarted, JudgedIn, Admitted, VerdictInv, InPower
  <2>3. CASE PassEnded(CoolingDown)
    BY <1>2, <2>1, <2>3, BatterySteps, <1>0
       DEF PassEnded, JudgedIn, VerdictInv, InPower, LeftUnchanged
  <2>. QED
    BY <1>2, <2>2, <2>3 DEF Refresh
<1>3. CASE Request
  BY <1>0, <1>3, BatterySteps
     DEF Request, RequestNotRun, CooldownEnds, InstanceKept, Admitted, VerdictInv,
         InPower, LeftUnchanged, counters
<1>4. CASE Surroundings
  BY <1>0, <1>4, BatterySteps
     DEF Surroundings, Admitted, VerdictInv, InPower, LeftUnchanged
<1>5. CASE WriteLands
  <2>1. /\ flight # None /\ flight \in Flight
        /\ flight' = [flight EXCEPT !.landed = TRUE]
        /\ UNCHANGED <<phase, configured, state, data, orphan, reloads,
                       last_update_success>>
    BY <1>0, <1>5 DEF WriteLands, CycleTypeOK, counters
  <2>2. /\ flight'.w = flight.w /\ flight'.ts = flight.ts
        /\ flight'.result = flight.result /\ flight' # None
    BY <2>1 DEF Flight
  <2>. QED
    BY <1>0, <2>1, <2>2, BatterySteps DEF Admitted, VerdictInv, InPower
<1>6. CASE WriteSucceeds
  <2>1. flight \in Flight /\ flight # None /\ state \in ControlState
    BY <1>0, <1>6 DEF WriteSucceeds, CycleTypeOK
  <2>2. flight.w \in Int /\ flight.w = flight.result.outcome.signed_w
    BY <1>0, <2>1 DEF Flight, FlightInv
  <2>3. Unchanged(flight.w, state')
    BY <1>6, <2>1, <2>2, RecordedIsUnchanged DEF WriteSucceeds
  <2>4. VerdictInv(flight.result)
    BY <2>1 DEF Admitted
  <2>5. /\ flight' = None /\ data' = flight.result /\ phase' = "up"
        /\ orphan' = orphan
    BY <1>6 DEF WriteSucceeds, RefreshEnds
  <2>. QED
    BY <1>0, <2>2, <2>3, <2>4, <2>5, BatterySteps
       DEF VerdictInv, InPower, LeftUnchanged
<1>7. CASE WriteFails
  BY <1>0, <1>7, BatterySteps
     DEF WriteFails, RefreshEnds, VerdictInv, InPower, LeftUnchanged
<1>8. CASE Unload
  <2>1. orphan' # None => InPower(orphan')
    BY <1>8 DEF Unload, InPower
  <2>2. reloads' # 0 /\ flight' = None /\ data' = None
    BY <1>0, <1>8 DEF Unload, CycleTypeOK
  <2>. QED
    BY <1>0, <2>1, <2>2, BatterySteps
<1>9. CASE OrphanLands
  <2>1. orphan \in Orphan /\ orphan # None /\ reloads # 0
    BY <1>0, <1>9 DEF OrphanLands, CycleTypeOK, OriginInv
  <2>2. orphan'.w = orphan.w
    BY <1>9, <2>1 DEF OrphanLands, Orphan
  <2>. QED
    BY <1>0, <1>9, <2>1, <2>2, BatterySteps
       DEF OrphanLands, Admitted, VerdictInv, InPower, LeftUnchanged, counters
<1>. QED
  BY <1>0, <1>1, <1>2, <1>3, <1>4, <1>5, <1>6, <1>7, <1>8, <1>9, BatterySteps,
     CycleNextCases

\* The inductive invariant holds in every reachable state.
THEOREM Inductive == Spec => []IInv
<1>1. Init => IInv
  BY CycleInvInit DEF Init, IInv, GateInv, CycleInit
<1>2. IInv /\ [Next]_vars => IInv'
  <2> SUFFICES ASSUME IInv, [Next]_vars PROVE IInv'
    OBVIOUS
  <2>1. CycleStep
    BY BatterySteps DEF IInv, CycleInv, CycleStep
  <2>. QED
    BY <2>1, CycleInvStep, GateStep DEF IInv
<1>. QED
  BY <1>1, <1>2, PTL DEF Spec

-----------------------------------------------------------------------------
\* Every variable of the actuation coordinator, its debouncer and the battery
\* keeps its type.
THEOREM TypeCorrect == Spec => []TypeOK
<1>1. IInv => TypeOK
  BY DEF IInv, CycleInv, GateInv, TypeOK
<1>. QED
  BY <1>1, Inductive, PTL

\* Between refreshes the effective control state is the recorded one.
LEMMA SettledSetpoint ==
  ASSUME IInv, Settled
  PROVE  Effective = state /\ phase = "up" /\ flight = None /\ data \in Result
  BY DEF IInv, CycleInv, CycleTypeOK, Settled, Effective

\* The inductive invariant is strong enough for the verdict.
LEMMA VerdictFromInv == IInv => DeviceFollowsVerdict
<1> SUFFICES ASSUME IInv, Steering, InStep,
                    ~data.outcome.held
             PROVE  /\ Direction(device.w) = Direction(data.outcome.signed_w)
                    /\ AbsW(device.w - data.outcome.signed_w) <= HysteresisW
  BY DEF DeviceFollowsVerdict
<1>1. /\ Effective = state /\ phase = "up" /\ flight = None /\ data \in Result
      /\ data.mode = "active" /\ configured /\ last_update_success /\ data # None
  BY SettledSetpoint DEF Steering, Settled
<1>2. Unchanged(data.outcome.signed_w, state)
  BY <1>1 DEF IInv, GateInv, LeftUnchanged
<1>3. state.last_written_w # None /\ device.w = state.last_written_w
  BY <1>1, <1>2 DEF IInv, CycleInv, SetpointInv, Unchanged
<1>4. device.w \in Int /\ data.outcome.signed_w \in Int
  BY <1>1 DEF IInv, CycleInv, CycleTypeOK, Device, Result, Outcome
<1>5. AbsW(device.w - data.outcome.signed_w) <= HysteresisW
  BY <1>2, <1>3, <1>4 DEF Unchanged, AbsW
<1>6. Direction(device.w) = state.last_direction
  BY <1>3 DEF IInv, CycleInv, RecordInv
<1>. QED
  BY <1>2, <1>5, <1>6 DEF Unchanged

\* After a pass that was not held, the battery follows the gate's verdict,
\* through rejected writes and reloads.
THEOREM VerdictFollowed == Spec => []DeviceFollowsVerdict
  BY VerdictFromInv, Inductive, PTL

\* Past an SOC limit that a pass has seen, the battery keeps moving only while
\* the minimum dwell postpones a reversal.
THEOREM LimitGuarded == Spec => []LimitPassedOnlyWhileReversalHeld
<1>1. IInv => DeviceFollowsVerdict /\ LimitPassedOnlyWhileReversalHeld
  <2> SUFFICES ASSUME IInv, Steering, InStep,
                      data.seen # None, DeviceFollowsVerdict
               PROVE  LimitPassedOnlyWhileReversalHeld
    BY VerdictFromInv DEF LimitPassedOnlyWhileReversalHeld
  <2>1. data \in Result /\ data # None /\ device.w \in Int
    BY SettledSetpoint DEF Steering, Settled, IInv, CycleInv, CycleTypeOK, Device
  <2>2. VerdictInv(data) /\ data.outcome.signed_w \in Int
        /\ data.outcome.held \in BOOLEAN
    BY <2>1 DEF IInv, GateInv, Result, Outcome
  <2>3. CASE data.outcome.held
    BY <2>2, <2>3 DEF VerdictInv, LimitPassedOnlyWhileReversalHeld
  <2>4. CASE ~data.outcome.held
    <3>1. Direction(device.w) = Direction(data.outcome.signed_w)
      BY <2>4 DEF DeviceFollowsVerdict
    <3>2. /\ device.w < 0 <=> data.outcome.signed_w < 0
          /\ device.w > 0 <=> data.outcome.signed_w > 0
      BY <2>1, <2>2, <3>1, DirectionSign
    <3>. QED
      BY <2>1, <2>2, <2>4, <3>2 DEF VerdictInv, LimitPassedOnlyWhileReversalHeld
  <2>. QED
    BY <2>3, <2>4
<1>. QED
  BY <1>1, Inductive, PTL

\* What the user sees reported as written is the setpoint on the battery,
\* failures and reloads included.
THEOREM ReportTruthful == Spec => []ReportedWriteIsOnDevice
<1>1. IInv => ReportedWriteIsOnDevice
  BY DEF IInv, CycleInv, ReportInv, ReportedWriteIsOnDevice, Settled
<1>. QED
  BY <1>1, Inductive, PTL

\* The landing of a write, seen from the control state it was admitted in.
LEMMA LandingFacts ==
  ASSUME IInv, WriteLands, faults = {}
  PROVE  /\ flight.ts \in Int /\ flight.w \in Int /\ now \in Int
         /\ flight.ts <= now
         /\ ~DwellHolds(flight.w, state, flight.ts)
         /\ ~ThrottleHolds(flight.w, state, flight.ts)
         /\ Direction(device.w) = state.last_direction
         /\ Follows(device.write_ts, state.last_write_ts)
         /\ Follows(device.change_ts, state.last_change_ts)
         /\ state.last_write_ts \in Int \cup {None}
         /\ state.last_change_ts \in Int \cup {None}
<1>1. flight \in Flight /\ flight # None /\ ~flight.landed /\ state \in ControlState
  BY DEF IInv, CycleInv, CycleTypeOK, WriteLands
<1>2. Effective = state
  BY <1>1 DEF Effective
<1>3. phase # "down"
  BY <1>1 DEF IInv, CycleInv, FlightInv
<1>. QED
  BY <1>1, <1>2, <1>3
     DEF IInv, CycleInv, CycleTypeOK, FlightInv, HistoryInv, Flight, GateInv,
         Admitted, ControlState, Timestamp

\* What the gate required of the control state when it admitted the write holds
\* of the battery when the write lands, short of the latency.
LEMMA LandingPauses ==
  ASSUME IInv, WriteLands, faults = {}
  PROVE  /\ (/\ Direction(flight.w) \notin {"idle", Direction(device.w)}
             /\ device.change_ts # None)
              => now - device.change_ts >= MinDwell - MaxLatency
         /\ (flight.w # 0 /\ device.write_ts # None)
              => now - device.write_ts >= WriteThrottle - MaxLatency
<1>. USE StateAssumption, GateAssumption, CycleAssumption
<1>1. ASSUME Direction(flight.w) \notin {"idle", Direction(device.w)},
             device.change_ts # None
      PROVE  now - device.change_ts >= MinDwell - MaxLatency
  <2>1. /\ state.last_change_ts \in Int /\ device.change_ts \in Int
        /\ device.change_ts <= state.last_change_ts + MaxLatency
    BY <1>1, LandingFacts DEF Follows
  <2>2. flight.ts - state.last_change_ts >= MinDwell
    BY <1>1, <2>1, LandingFacts DEF DwellHolds, ReversesTooSoon, Recent
  <2>. QED
    BY <2>1, <2>2, LandingFacts
<1>2. ASSUME flight.w # 0, device.write_ts # None
      PROVE  now - device.write_ts >= WriteThrottle - MaxLatency
  <2>1. /\ state.last_write_ts \in Int /\ device.write_ts \in Int
        /\ device.write_ts <= state.last_write_ts + MaxLatency
    BY <1>2, LandingFacts DEF Follows
  <2>2. flight.ts - state.last_write_ts >= WriteThrottle
    BY <1>2, <2>1, LandingFacts DEF ThrottleHolds, Recent
  <2>. QED
    BY <2>1, <2>2, LandingFacts
<1>. QED
  BY <1>1, <1>2

\* Anti-oscillation reaches the battery: short of the latency of a write, no
\* direction is entered within the minimum dwell of the previous change.
THEOREM DirectionsSpaced == Spec => DirectionChangesSpaced
<1>1. IInv /\ [Next]_vars =>
        [(/\ WriteLands /\ faults = {}
          /\ Direction(flight.w) \notin {"idle", Direction(device.w)}
          /\ device.change_ts # None)
         => now - device.change_ts >= MinDwell - MaxLatency]_vars
  BY LandingPauses
<1>. QED
  BY <1>1, Inductive, PTL DEF Spec, DirectionChangesSpaced

\* The write throttle reaches the battery in the same sense.
THEOREM WritesSpaced == Spec => SetpointsSpaced
<1>1. IInv /\ [Next]_vars =>
        [(WriteLands /\ faults = {} /\ flight.w # 0 /\ device.write_ts # None)
         => now - device.write_ts >= WriteThrottle - MaxLatency]_vars
  BY LandingPauses
<1>. QED
  BY <1>1, Inductive, PTL DEF Spec, SetpointsSpaced

\* In observe-only mode no decision, notification, timer or reload starts a write;
\* the battery moves only for one that was under way before.
THEOREM ObserveOnly == Spec => ObserveOnlyNeverWrites
<1> DEFINE A == mode = "observe_only"
                  => /\ flight' # None => flight # None
                     /\ device' # device
                          => \E write \in {flight, orphan} :
                               write # None /\ ~write.landed /\ device'.w = write.w
<1>1. IInv /\ [Next]_vars => [A]_cycleVars
  <2> SUFFICES ASSUME IInv, [Next]_vars PROVE A
    OBVIOUS
  <2>1. CycleStep
    BY BatterySteps DEF IInv, CycleInv, CycleStep
  <2>. QED
    BY <2>1, ObserveOnlyStep
<1>. QED
  BY <1>1, Inductive, PTL DEF Spec, ObserveOnlyNeverWrites, A

-----------------------------------------------------------------------------
\* The mapping onto PacedSetpoint, step by step.
LEMMA SameSide ==
  ASSUME NEW v \in Int, NEW w \in Int
  PROVE  /\ (Paced!Side(v) = Paced!Side(w)) <=> (Direction(v) = Direction(w))
         /\ (Paced!Side(w) = 0) <=> (Direction(w) = "idle")
         /\ (Direction(w) = "idle") <=> (w = 0)
  BY DEF Paced!Side, Direction

\* A move of the battery is a Move of the abstract setpoint.
LEMMA MovesAlike ==
  ASSUME device \in Device, NEW w \in Int, MoveDevice(w)
  PROVE  Paced!Move(w)
<1>1. device.w \in Int
  BY DEF Device
<1>. QED
  BY <1>1, SameSide DEF MoveDevice, Paced!Move

\* A landing respects both pauses: the gate's dwell and throttle held in the
\* control state the battery follows.
LEMMA LandingIsPaced ==
  ASSUME IInv, WriteLands, faults = {}
  PROVE  Paced!Steer(flight.w)
<1>1. /\ flight.w \in Int /\ device \in Device /\ device.w \in Int
      /\ MoveDevice(flight.w) /\ now' = now /\ faults' = faults
  BY LandingFacts DEF WriteLands, Repaired, IInv, CycleInv, CycleTypeOK, Device
<1>2. Paced!Paused(device.write_ts,
                   IF flight.w = 0 THEN 0 ELSE WriteThrottle - MaxLatency)
  <2>1. CASE flight.w = 0
    BY <2>1, <1>1 DEF Paced!Paused, IInv, CycleInv, CycleTypeOK, ClockInv, Device,
                      Timestamp
  <2>2. CASE flight.w # 0
    BY <2>2, LandingPauses DEF Paced!Paused
  <2>. QED
    BY <2>1, <2>2
<1>3. Paced!Side(flight.w) \notin {0, Paced!Side(device.w)}
        => Paced!Paused(device.change_ts, MinDwell - MaxLatency)
  <2>. SUFFICES ASSUME Paced!Side(flight.w) \notin {0, Paced!Side(device.w)}
                PROVE  Paced!Paused(device.change_ts, MinDwell - MaxLatency)
    OBVIOUS
  <2>1. Direction(flight.w) \notin {"idle", Direction(device.w)}
    BY <1>1, SameSide
  <2>. QED
    BY <2>1, LandingPauses DEF Paced!Paused
<1>. QED
  BY <1>1, <1>2, <1>3, MovesAlike DEF Paced!Steer

\* Every step maps to a step of PacedSetpoint or leaves it alone; trust, once
\* lost, is not regained.
LEMMA PacedStep ==
  ASSUME IInv, [Next]_vars
  PROVE  [Paced!Next]_(Paced!pacedVars)
<1>. USE DEF Paced!pacedVars
<1>1. CASE FirstRefresh
  BY <1>1 DEF FirstRefresh, NewInstance, IInv, CycleInv, OriginInv,
                  Paced!Next, Paced!LoseTrack
<1>2. CASE Refresh \/ Request
  BY <1>2 DEF Refresh, Request, InstanceKept
<1>3. CASE Surroundings
  BY <1>3 DEF Surroundings, Paced!Next, Paced!Advance
<1>4. CASE WriteLands
  <2>1. /\ InPower(flight) /\ flight.w \in Int /\ device \in Device
        /\ MoveDevice(flight.w) /\ now' = now /\ faults' = Repaired
    BY <1>4 DEF WriteLands, IInv, CycleInv, CycleTypeOK, Flight, GateInv
  <2>2. CASE faults = {}
    BY <1>4, <2>1, <2>2, LandingIsPaced DEF Paced!Next, InPower
  <2>3. CASE faults # {}
    <3>1. faults' # {}
      BY <2>1, <2>3 DEF Repaired, InStep, IInv, CycleInv, FaultInv
    <3>. QED
      BY <2>1, <2>3, <3>1, MovesAlike DEF Paced!Next, Paced!Stray, InPower
  <2>. QED
    BY <2>2, <2>3
<1>5. CASE WriteSucceeds
  BY <1>5 DEF WriteSucceeds, RefreshEnds
<1>6. CASE WriteFails
  BY <1>6 DEF WriteFails, RefreshEnds, Paced!Next, Paced!LoseTrack
<1>7. CASE Unload
  BY <1>7 DEF Unload
<1>8. CASE OrphanLands
  <2>1. /\ InPower(orphan) /\ orphan.w \in Int /\ device \in Device
        /\ MoveDevice(orphan.w) /\ now' = now /\ faults' # {}
    BY <1>8 DEF OrphanLands, IInv, CycleInv, CycleTypeOK, Orphan, GateInv
  <2>. QED
    BY <2>1, MovesAlike DEF Paced!Next, Paced!Stray, InPower
<1>. QED
  BY <1>1, <1>2, <1>3, <1>4, <1>5, <1>6, <1>7, <1>8, BatterySteps, CycleNextCases
     DEF IInv, CycleInv

\* The actuation coordinator, through late, failing and repeated writes and
\* through reloads, implements a paced setpoint within the configured powers.
THEOREM PacedImplemented == Spec => RefinesPacedSetpoint
<1>1. Init => Paced!Init
  BY DEF Init, CycleInit, Paced!Init
<1>2. IInv /\ [Next]_vars => [Paced!Next]_(Paced!pacedVars)
  BY PacedStep
<1>. QED
  BY <1>1, <1>2, Inductive, PTL DEF Spec, RefinesPacedSetpoint, Paced!Spec

=============================================================================
