-------------------------- MODULE EvControl_proofs --------------------------
(***************************************************************************)
(* EvControl keeps its safety properties for every pair of current limits, *)
(* every price and telemetry, every latency and every number of reloads    *)
(* and failures.                                                           *)
(*                                                                         *)
(* WriteCycle_proofs says how the charger and the control state stay in    *)
(* step.  What is added here: whatever is planned, the clamps leave a      *)
(* legal current (ClampedPlanLegal), and a pass that is over has left the  *)
(* control state either at its verdict or, when it was held, off (EvInv).  *)
(***************************************************************************)
EXTENDS EvControl, WriteCycle_proofs

\* The surplus is a whole, non-negative number of amperes.
LEMMA SolarAType ==
  ASSUME NEW r \in Readings
  PROVE  SolarA(r) \in Nat
<1>1. r \in Reading /\ WattsPerAmpere \in Nat /\ WattsPerAmpere > 0
  BY EvAssumption
<1>2. r.grid_w \in Int \cup {None} /\ r.ev_w \in Int \cup {None}
  BY <1>1 DEF Reading
<1> DEFINE surplus_w == (IF r.ev_w = None THEN 0 ELSE r.ev_w) - r.grid_w
<1>3. CASE r.grid_w = None \/ r.grid_w >= 0 \/ surplus_w < 0
  BY <1>3 DEF SolarA
<1>4. CASE ~(r.grid_w = None \/ r.grid_w >= 0 \/ surplus_w < 0)
  <2>1. surplus_w \in Nat
    BY <1>2, <1>4
  <2>2. SolarA(r) = surplus_w \div WattsPerAmpere
    BY <1>4 DEF SolarA
  <2>. HIDE DEF surplus_w
  <2>. QED
    BY <1>1, <2>1, <2>2
<1>. QED
  BY <1>3, <1>4

LEMMA PlanType ==
  ASSUME NEW r \in Readings
  PROVE  /\ r.min_a \in Nat /\ r.max_a \in Nat
         /\ Plan(r) \in Nat
         /\ Clamp(Plan(r), r) \in Nat
<1>1. r.min_a \in Nat /\ r.max_a \in Nat
  BY EvAssumption DEF Reading
<1>2. Plan(r) \in Nat
  BY <1>1, SolarAType DEF Plan, Lesser
<1>. QED
  BY <1>1, <1>2 DEF Clamp, Lesser

\* plan_ev and the clamps of ev_safety together: the approved current is off or
\* within the configured limits, even if the minimum exceeds the maximum, and it
\* is off when there is nothing to charge.
THEOREM ClampedPlanLegal ==
  ASSUME NEW r \in Readings
  PROVE  /\ Clamp(Plan(r), r) # 0
              => /\ r.min_a <= Clamp(Plan(r), r)
                 /\ Clamp(Plan(r), r) <= r.max_a
         /\ NoDemand(r) => Clamp(Plan(r), r) = 0
<1>1. r.min_a \in Nat /\ r.max_a \in Nat /\ SolarA(r) \in Nat
  BY PlanType, SolarAType
<1>2. Plan(r) \in {0, r.max_a}
        \/ (SolarA(r) >= r.min_a /\ Plan(r) = Lesser(SolarA(r), r.max_a))
  BY DEF Plan
<1>3. NoDemand(r) => Plan(r) = 0
  BY DEF Plan
<1>. QED
  BY <1>1, <1>2, <1>3 DEF Clamp, Lesser

LEMMA WholeAmperes ==
  ASSUME NEW k \in Nat, NEW d \in Nat, d > 0
  PROVE  k * d \in Nat /\ (k * d) \div d = k
  OBVIOUS

\* plan_ev on solar surplus alone: charging with a surplus of k amperes that is not
\* more than the maximum uses it up, and the pass that reads this switches off again.
THEOREM SurplusUndoesItself ==
  ASSUME NEW r \in Reading, r.price = "high", ~NoDemand(r),
         NEW k \in Nat, k > 0, r.min_a <= k, k <= r.max_a,
         r.ev_w = 0, r.grid_w = -(k * WattsPerAmpere)
  PROVE  /\ Plan(r) = k
         /\ Plan([r EXCEPT !.ev_w = k * WattsPerAmpere, !.grid_w = 0]) = 0
<1> DEFINE after == [r EXCEPT !.ev_w = k * WattsPerAmpere, !.grid_w = 0]
<1>1. /\ k * WattsPerAmpere \in Nat /\ (k * WattsPerAmpere) \div WattsPerAmpere = k
      /\ k * WattsPerAmpere > 0
  BY WholeAmperes, EvAssumption
<1>. USE DEF Reading
<1>2. SolarA(r) = k
  BY <1>1, StateAssumption, EvAssumption DEF SolarA
<1>3. Plan(r) = k
  BY <1>2 DEF Plan, Lesser
<1>4. after.grid_w = 0 /\ after.price = r.price /\ after.min_a = r.min_a
  OBVIOUS
<1>5. SolarA(after) = 0
  BY <1>4, StateAssumption DEF SolarA
<1>6. Plan(after) = 0
  BY <1>4, <1>5 DEF Plan, Lesser
<1>. QED
  BY <1>3, <1>6

-----------------------------------------------------------------------------
\* A verdict respects the limits and the demand it was made with.
VerdictInv(result) ==
  /\ result.outcome.signed_w >= 0
  /\ result.outcome.signed_w # 0
       => /\ result.seen.min_a <= result.outcome.signed_w
          /\ result.outcome.signed_w <= result.seen.max_a
  /\ NoDemand(result.seen) => result.outcome.signed_w = 0

\* Written at least once, and what was written last, was a legal setpoint.
Recorded(s) ==
  /\ (s.last_change_ts # None \/ s.last_write_ts # None)
       => s.last_written_w # None
  /\ s.last_written_w # None
       => /\ s.last_written_w >= 0
          /\ s.last_direction = Direction(s.last_written_w)

\* A write ev_safety admitted in control state s at time t.
Admitted(write, s, t) ==
  /\ ~write.result.outcome.held
  /\ ~DwellHolds(write.w, s, t)
  /\ write.w # s.last_written_w
  /\ VerdictInv(write.result)

\* An active result left the control state at its setpoint, or held turning on
\* and left it off.
Left(result, s, steers) ==
  (result.mode = "active" /\ steers)
    => s.last_written_w = IF result.outcome.held THEN 0
                                                 ELSE result.outcome.signed_w

EvInv ==
  /\ reading \in Readings /\ prices_up \in BOOLEAN
  /\ Recorded(state)
  /\ flight # None => Admitted(flight, state, flight.ts)
  /\ data # None => VerdictInv(data)
  /\ (data # None /\ flight = None /\ last_update_success)
       => Left(data, state, configured)
  /\ orphan # None => orphan.w \in Amperes

IInv == CycleInv /\ EvInv

LEMMA FreshIsRecorded == Recorded(FreshControlState)
  BY DEF Recorded, FreshControlState

LEMMA RecordedIsRecorded ==
  ASSUME NEW s, NEW w \in Int, w >= 0, NEW ts
  PROVE  Recorded(Record(s, w, ts))
  BY StateAssumption DEF Recorded, Record

\* What a pass decides, in any control state.
LEMMA VerdictFacts ==
  ASSUME NEW r \in Readings, NEW s \in ControlState, Recorded(s), NEW t \in Int
  PROVE  LET outcome == Verdict(r, s, t)
         IN  /\ outcome \in Outcome
             /\ outcome.signed_w = Clamp(Plan(r), r)
             /\ outcome.write => /\ ~outcome.held
                                 /\ ~DwellHolds(outcome.signed_w, s, t)
                                 /\ outcome.signed_w # s.last_written_w
             /\ ~outcome.write
                  => s.last_written_w = IF outcome.held THEN 0
                                                        ELSE outcome.signed_w
<1> DEFINE a == Clamp(Plan(r), r)
<1>1. a \in Nat
  BY PlanType
<1>2. DwellHolds(a, s, t) \in BOOLEAN
  BY DEF DwellHolds, ReversesTooSoon
<1>3. DwellHolds(a, s, t) => s.last_written_w = 0
  <2>. SUFFICES ASSUME DwellHolds(a, s, t) PROVE s.last_written_w = 0
    OBVIOUS
  <2>1. /\ Direction(a) = "charge" /\ s.last_direction # "charge"
        /\ s.last_change_ts # None
    BY <1>1, DirectionSign DEF DwellHolds, ReversesTooSoon, Recent, Directions
  <2>2. /\ s.last_written_w \in Int /\ s.last_written_w >= 0
        /\ Direction(s.last_written_w) # "charge"
    BY <2>1 DEF Recorded, ControlState
  <2>. QED
    BY <2>2, DirectionSign
<1> DEFINE outcome == Verdict(r, s, t)
<1>4. /\ outcome.signed_w = a
      /\ outcome.held = DwellHolds(a, s, t)
      /\ outcome.write = (~DwellHolds(a, s, t) /\ a # s.last_written_w)
      /\ outcome = [signed_w |-> a,
                    held     |-> DwellHolds(a, s, t),
                    write    |-> ~DwellHolds(a, s, t) /\ a # s.last_written_w]
  BY DEF Verdict
<1>. HIDE DEF a, outcome
<1>5. outcome \in Outcome
  BY <1>1, <1>2, <1>4 DEF Outcome
<1>6. ~outcome.write
        => s.last_written_w = IF outcome.held THEN 0 ELSE outcome.signed_w
  <2>1. CASE DwellHolds(a, s, t)
    BY <1>2, <1>3, <1>4, <2>1
  <2>2. CASE ~DwellHolds(a, s, t)
    BY <1>2, <1>4, <2>2
  <2>. QED
    BY <2>1, <2>2
<1>. QED
  BY <1>2, <1>4, <1>5, <1>6 DEF a, outcome

-----------------------------------------------------------------------------
\* What a pass in control state s leaves behind.
JudgedIn(s) ==
  /\ flight' # None => Admitted(flight', s, now)
  /\ (flight' = None /\ data' # None)
       => VerdictInv(data') /\ Left(data', s, configured')

LEMMA PassCases ==
  ASSUME CycleTypeOK, NEW r \in Readings, NEW s \in ControlState, Recorded(s),
         NEW after, configured' \in BOOLEAN, Pass(r, s, after)
  PROVE  /\ pending' = "evaluated"
         /\ WriteStarted \/ PassEnded(after)
         /\ JudgedIn(s)
<1>1. CASE Skipped(after)
  BY <1>1, SkippedCases DEF PassEnded, JudgedIn
<1>2. CASE Judged(Verdict(r, s, now), r, after)
  <2> DEFINE outcome == Verdict(r, s, now)
  <2>1. now \in Int
    BY DEF CycleTypeOK
  <2>2. /\ outcome \in Outcome
        /\ outcome.signed_w = Clamp(Plan(r), r)
        /\ outcome.write => /\ ~outcome.held
                            /\ ~DwellHolds(outcome.signed_w, s, now)
                            /\ outcome.signed_w # s.last_written_w
        /\ ~outcome.write
             => s.last_written_w = IF outcome.held THEN 0 ELSE outcome.signed_w
    BY <2>1, VerdictFacts
  <2>3. /\ outcome.signed_w >= 0
        /\ outcome.signed_w # 0 => /\ r.min_a <= outcome.signed_w
                                   /\ outcome.signed_w <= r.max_a
        /\ NoDemand(r) => outcome.signed_w = 0
    BY <2>2, PlanType, ClampedPlanLegal
  <2>4. Judged(outcome, r, after)
    BY <1>2
  <2>5. MayWrite(outcome) = (mode = "active" /\ configured' /\ outcome.write)
    BY DEF MayWrite
  <2>. HIDE DEF outcome
  <2>6. /\ pending' = "evaluated"
        /\ \/ /\ WriteStarted
              /\ MayWrite(outcome)
              /\ flight'.result.outcome = outcome
              /\ flight'.result.seen = r
           \/ /\ PassEnded(after)
              /\ ~MayWrite(outcome)
              /\ data' # None => /\ data'.outcome = outcome
                                 /\ data'.mode = mode
                                 /\ data'.seen = r
    BY <2>2, <2>4, JudgedCases
  <2>7. CASE WriteStarted
    <3>1. /\ MayWrite(outcome) /\ flight'.result.outcome = outcome
          /\ flight'.result.seen = r /\ flight' # None
          /\ flight'.w = outcome.signed_w
      BY <2>6, <2>7, NoneAssumption DEF WriteStarted, PassEnded
    <3>. QED
      BY <2>2, <2>3, <2>5, <2>6, <2>7, <3>1 DEF Admitted, VerdictInv, JudgedIn
  <2>8. CASE PassEnded(after)
    <3>1. /\ flight' = None /\ ~MayWrite(outcome)
          /\ data' # None => /\ data'.outcome = outcome
                             /\ data'.mode = mode
                             /\ data'.seen = r
      BY <2>6, <2>8, NoneAssumption DEF WriteStarted, PassEnded
    <3>2. outcome.write \in BOOLEAN
      BY <2>2 DEF Outcome
    <3>. QED
      BY <2>2, <2>3, <2>5, <2>6, <2>8, <3>1, <3>2 DEF VerdictInv, Left, JudgedIn
  <2>. QED
    BY <2>6, <2>7, <2>8
<1>. QED
  BY <1>1, <1>2 DEF Pass

\* Every step of EvControl is a step of the cycle, and its passes are judged in
\* the control state they leave in force.
LEMMA EvSteps ==
  ASSUME CycleTypeOK, RequestInv, EvInv, [Next]_vars
  PROVE  /\ reading' \in Readings /\ prices_up' \in BOOLEAN
         /\ \/ FirstRefresh /\ JudgedIn(FreshControlState)
            \/ Refresh /\ JudgedIn(state)
            \/ Request
            \/ UNCHANGED cycleVars
            \/ CycleNext
<1>. USE DEF EvInv
<1>1. ASSUME NEW r \in Readings, NEW c \in BOOLEAN, Setup(r, c)
      PROVE  FirstRefresh /\ JudgedIn(FreshControlState)
  <2>1. configured' \in BOOLEAN /\ Pass(r, FreshControlState, Quiet)
    BY <1>1 DEF Setup
  <2>2. /\ pending' = "evaluated" /\ JudgedIn(FreshControlState)
        /\ WriteStarted \/ PassEnded(Quiet)
    BY <2>1, FreshControlStateType, FreshIsRecorded, PassCases
  <2>. QED
    BY <1>1, <2>1, <2>2 DEF Setup, FirstRefresh
<1>2. ASSUME NEW r \in Readings, Notified(r)
      PROVE  (Refresh /\ JudgedIn(state)) \/ Request
  <2>1. CASE PassRequested
    <3>1. /\ configured' = configured /\ Pass(r, state, CoolingDown)
          /\ configured' \in BOOLEAN /\ state \in ControlState
          /\ phase = "up" /\ flight = None
      BY <1>2, <2>1 DEF Notified, CycleTypeOK, PassRequested, RunsNow
    <3>2. /\ pending' = "evaluated" /\ JudgedIn(state)
          /\ WriteStarted \/ PassEnded(CoolingDown)
      BY <3>1, PassCases
    <3>. QED
      BY <1>2, <3>1, <3>2 DEF Notified, Refresh
  <2>2. CASE ~PassRequested
    BY <1>2, <2>2 DEF Notified, Request
  <2>. QED
    BY <2>1, <2>2
<1>3. ASSUME TimerFires
      PROVE  (Refresh /\ JudgedIn(state)) \/ Request
  <2>1. CASE PassQueued
    <3>1. /\ configured' = configured /\ Pass(reading, state, CoolingDown)
          /\ configured' \in BOOLEAN /\ state \in ControlState
          /\ phase = "up" /\ flight = None
      BY <1>3, <2>1 DEF TimerFires, CycleTypeOK, PassQueued, RequestInv
    <3>2. /\ pending' = "evaluated" /\ JudgedIn(state)
          /\ WriteStarted \/ PassEnded(CoolingDown)
      BY <3>1, PassCases
    <3>. QED
      BY <1>3, <3>1, <3>2 DEF TimerFires, Refresh
  <2>2. CASE ~PassQueued
    BY <1>3, <2>2 DEF TimerFires, Request
  <2>. QED
    BY <2>1, <2>2
<1>4. ASSUME NEW r \in Readings, ReadingChanges(r)
      PROVE  UNCHANGED cycleVars
  BY <1>4 DEF ReadingChanges
<1>5. CASE UNCHANGED vars
  BY <1>5 DEF vars, cycleVars
<1>6. ASSUME PricesFail \/ \E r \in Readings : TelemetryUpdates(r) \/ PricesArrive(r)
      PROVE  (Refresh /\ JudgedIn(state)) \/ Request
  <2>1. \E r \in Readings : Notified(r)
    <3>1. CASE PricesFail
      BY <3>1 DEF PricesFail
    <3>2. CASE \E r \in Readings : TelemetryUpdates(r) \/ PricesArrive(r)
      BY <3>2 DEF TelemetryUpdates, PricesArrive
    <3>. QED
      BY <1>6, <3>1, <3>2
  <2>. QED
    BY <2>1, <1>2
<1>7. reading' \in Readings /\ prices_up' \in BOOLEAN
  BY DEF Next, Setup, TelemetryUpdates, PricesArrive, PricesFail, Notified, TimerFires,
         ReadingChanges, inputs, vars
<1>. QED
  BY <1>1, <1>3, <1>4, <1>5, <1>6, <1>7 DEF Next

-----------------------------------------------------------------------------
\* A write under way carries a current the charger may be told.
LEMMA FlightLegal ==
  ASSUME CycleInv, EvInv, flight # None
  PROVE  flight.w \in Amperes
<1>1. /\ flight.result.seen \in Readings /\ flight.w \in Int
      /\ flight.w = flight.result.outcome.signed_w
  BY DEF CycleInv, CycleTypeOK, FlightInv, Flight, Result
<1>2. /\ flight.result.seen.min_a \in Nat /\ flight.result.seen.max_a \in Nat
      /\ flight.w # 0 => flight.w \in flight.result.seen.min_a .. flight.result.seen.max_a
  BY <1>1, PlanType DEF EvInv, Admitted, VerdictInv
<1>. QED
  BY <1>1, <1>2 DEF Amperes

LEMMA EvInvStep ==
  ASSUME CycleInv, EvInv, [Next]_vars
  PROVE  EvInv'
<1>. USE NoneAssumption DEF EvInv
<1>0. CycleTypeOK /\ RequestInv /\ FlightInv /\ OriginInv
  BY DEF CycleInv
<1>1. CASE FirstRefresh /\ JudgedIn(FreshControlState)
  <2>1. state' = FreshControlState /\ data = None /\ orphan' = orphan
    BY <1>0, <1>1 DEF FirstRefresh, NewInstance, OriginInv
  <2>2. CASE WriteStarted
    BY <1>1, <2>1, <2>2, FreshIsRecorded, EvSteps, <1>0
       DEF WriteStarted, JudgedIn, Admitted, VerdictInv
  <2>3. CASE PassEnded(Quiet)
    BY <1>1, <2>1, <2>3, FreshIsRecorded, EvSteps, <1>0
       DEF PassEnded, JudgedIn, VerdictInv, Left
  <2>. QED
    BY <1>1, <2>2, <2>3 DEF FirstRefresh
<1>2. CASE Refresh /\ JudgedIn(state)
  <2>1. state' = state /\ orphan' = orphan
    BY <1>2 DEF Refresh, InstanceKept
  <2>2. CASE WriteStarted
    BY <1>2, <2>1, <2>2, EvSteps, <1>0
       DEF WriteStarted, JudgedIn, Admitted, VerdictInv
  <2>3. CASE PassEnded(CoolingDown)
    BY <1>2, <2>1, <2>3, EvSteps, <1>0
       DEF PassEnded, JudgedIn, VerdictInv, Left
  <2>. QED
    BY <1>2, <2>2, <2>3 DEF Refresh
<1>3. CASE Request
  BY <1>0, <1>3, EvSteps
     DEF Request, RequestNotRun, CooldownEnds, InstanceKept, Admitted, VerdictInv,
         Left, counters
<1>4. CASE Surroundings
  BY <1>0, <1>4, EvSteps DEF Surroundings, Admitted, VerdictInv, Left
<1>5. CASE WriteLands
  <2>1. /\ flight # None /\ flight \in Flight
        /\ flight' = [flight EXCEPT !.landed = TRUE]
        /\ UNCHANGED <<configured, state, data, last_update_success, orphan>>
    BY <1>0, <1>5 DEF WriteLands, CycleTypeOK
  <2>2. /\ flight'.w = flight.w /\ flight'.ts = flight.ts
        /\ flight'.result = flight.result /\ flight' # None
    BY <2>1 DEF Flight
  <2>. QED
    BY <1>0, <2>1, <2>2, EvSteps DEF Admitted, VerdictInv
<1>6. CASE WriteSucceeds
  <2>1. flight \in Flight /\ flight # None /\ Admitted(flight, state, flight.ts)
    BY <1>0, <1>6 DEF WriteSucceeds, CycleTypeOK
  <2>2. /\ flight.w \in Int /\ flight.w = flight.result.outcome.signed_w
        /\ VerdictInv(flight.result) /\ ~flight.result.outcome.held
    BY <1>0, <2>1 DEF Flight, FlightInv, Admitted
  <2>3. flight.w >= 0
    BY <2>2 DEF VerdictInv
  <2>4. /\ state' = Record(state, flight.w, flight.ts)
        /\ flight' = None /\ data' = flight.result /\ orphan' = orphan
    BY <1>6 DEF WriteSucceeds, RefreshEnds
  <2>5. Recorded(state') /\ state'.last_written_w = flight.w
    BY <2>2, <2>3, <2>4, RecordedIsRecorded DEF Record
  <2>. QED
    BY <1>0, <2>2, <2>4, <2>5, EvSteps DEF VerdictInv, Left
<1>7. CASE WriteFails
  BY <1>0, <1>7, EvSteps DEF WriteFails, RefreshEnds, VerdictInv, Left
<1>8. CASE Unload
  BY <1>0, <1>8, FreshIsRecorded, EvSteps, FlightLegal DEF Unload
<1>9. CASE OrphanLands
  BY <1>0, <1>9, EvSteps
     DEF OrphanLands, Admitted, VerdictInv, Left, counters
<1>. QED
  BY <1>0, <1>1, <1>2, <1>3, <1>4, <1>5, <1>6, <1>7, <1>8, <1>9, EvSteps,
     CycleNextCases

\* The inductive invariant holds in every reachable state.
THEOREM Inductive == Spec => []IInv
<1>1. Init => IInv
  BY CycleInvInit, FreshIsRecorded DEF Init, IInv, EvInv, CycleInit
<1>2. IInv /\ [Next]_vars => IInv'
  <2> SUFFICES ASSUME IInv, [Next]_vars PROVE IInv'
    OBVIOUS
  <2>1. CycleStep
    BY EvSteps DEF IInv, CycleInv, CycleStep
  <2>. QED
    BY <2>1, CycleInvStep, EvInvStep DEF IInv
<1>. QED
  BY <1>1, <1>2, PTL DEF Spec

-----------------------------------------------------------------------------
\* Every variable of the EV coordinator, its debouncer and the charger keeps its
\* type.
THEOREM TypeCorrect == Spec => []TypeOK
<1>1. IInv => TypeOK
  BY DEF IInv, CycleInv, EvInv, TypeOK
<1>. QED
  BY <1>1, Inductive, PTL

\* After a pass the charger is at the verdict, or off if that was held.
LEMMA ChargerAfterPass ==
  ASSUME IInv, Steering, InStep
  PROVE  /\ VerdictInv(data)
         /\ device.w # 0 => device.w = data.outcome.signed_w
<1>1. /\ phase = "up" /\ flight = None /\ data # None /\ last_update_success
      /\ data.mode = "active" /\ configured
  BY DEF Steering, Settled
<1>2. Effective = state
  BY <1>1 DEF Effective
<1>3. /\ VerdictInv(data)
      /\ state.last_written_w = IF data.outcome.held THEN 0
                                                     ELSE data.outcome.signed_w
  BY <1>1 DEF IInv, EvInv, Left
<1>4. data.outcome.signed_w \in Int
  BY <1>1 DEF IInv, CycleInv, CycleTypeOK, Result, Outcome
<1>5. device.w = state.last_written_w
  BY <1>1, <1>2, <1>3, <1>4, StateAssumption DEF IInv, CycleInv, SetpointInv
<1>. QED
  BY <1>3, <1>5

\* IEC 61851 at the charger, for every pair of limits: off, or within the
\* minimum and maximum the last pass was configured with.
THEOREM LimitsKept == Spec => []ChargerWithinLimits
<1>1. IInv => ChargerWithinLimits
  BY ChargerAfterPass DEF ChargerWithinLimits, VerdictInv
<1>. QED
  BY <1>1, Inductive, PTL

\* A pass that sees nothing to charge leaves the charger off.
THEOREM DemandRespected == Spec => []NoChargePastTarget
<1>1. IInv => NoChargePastTarget
  BY ChargerAfterPass DEF NoChargePastTarget, VerdictInv
<1>. QED
  BY <1>1, Inductive, PTL

\* What the user sees reported as written is the current the charger was sent.
THEOREM ReportTruthful == Spec => []ReportedWriteIsOnDevice
<1>1. IInv => ReportedWriteIsOnDevice
  BY DEF IInv, CycleInv, ReportInv, ReportedWriteIsOnDevice, Settled
<1>. QED
  BY <1>1, Inductive, PTL

\* The landing of a write, seen from the control state it was admitted in.
LEMMA LandingFacts ==
  ASSUME IInv, WriteLands, faults = {}
  PROVE  /\ flight.ts \in Int /\ flight.w \in Int /\ now \in Int
         /\ flight.ts <= now /\ flight.w >= 0
         /\ ~DwellHolds(flight.w, state, flight.ts)
         /\ flight.w # state.last_written_w
         /\ Recorded(state)
         /\ Direction(device.w) = state.last_direction
         /\ state.last_written_w # None => device.w = state.last_written_w
         /\ Follows(device.write_ts, state.last_write_ts)
         /\ Follows(device.change_ts, state.last_change_ts)
         /\ state.last_change_ts \in Int \cup {None}
<1>1. flight \in Flight /\ flight # None /\ ~flight.landed /\ state \in ControlState
  BY DEF IInv, CycleInv, CycleTypeOK, WriteLands
<1>2. Effective = state
  BY <1>1 DEF Effective
<1>3. phase # "down" /\ flight.w = flight.result.outcome.signed_w
  BY <1>1 DEF IInv, CycleInv, FlightInv
<1>. QED
  BY <1>1, <1>2, <1>3
     DEF IInv, CycleInv, CycleTypeOK, FlightInv, SetpointInv, HistoryInv, Flight,
         EvInv, Admitted, VerdictInv, ControlState, Timestamp, InStep, Repaired

\* But for the very first write, the charger is never sent what it already has.
THEOREM WritesNews == Spec => NoRedundantWrite
<1>1. ASSUME IInv, WriteLands, faults = {}, device.write_ts # None
      PROVE  flight.w # device.w
  <2>1. state.last_write_ts # None
    BY <1>1, LandingFacts DEF Follows
  <2>. QED
    BY <1>1, <2>1, LandingFacts DEF Recorded
<1>2. IInv /\ [Next]_vars =>
        [(WriteLands /\ faults = {} /\ device.write_ts # None)
         => flight.w # device.w]_vars
  BY <1>1
<1>. QED
  BY <1>2, Inductive, PTL DEF Spec, NoRedundantWrite

-----------------------------------------------------------------------------
\* The mapping onto PacedSetpoint, step by step.
LEMMA SameSide ==
  ASSUME NEW v \in Int, NEW w \in Int
  PROVE  /\ (Paced!Side(v) = Paced!Side(w)) <=> (Direction(v) = Direction(w))
         /\ (Paced!Side(w) = 0) <=> (Direction(w) = "idle")
         /\ (Direction(w) = "idle") <=> (w = 0)
  BY DEF Paced!Side, Direction

\* A move of the charger is a Move of the abstract setpoint.
LEMMA MovesAlike ==
  ASSUME device \in Device, NEW w \in Int, MoveDevice(w)
  PROVE  Paced!Move(w)
<1>1. device.w \in Int
  BY DEF Device
<1>. QED
  BY <1>1, SameSide DEF MoveDevice, Paced!Move

\* Turning on is spaced at the charger: the dwell held in the control state the
\* charger follows.  Any other landing turns it off or keeps it on.
LEMMA LandingIsPaced ==
  ASSUME IInv, WriteLands, faults = {}
  PROVE  Paced!Steer(flight.w)
<1>1. /\ flight.w \in Int /\ device \in Device /\ device.w \in Int
      /\ MoveDevice(flight.w) /\ now' = now /\ faults' = faults
  BY LandingFacts DEF WriteLands, Repaired, IInv, CycleInv, CycleTypeOK, Device
<1>2. Paced!Paused(device.write_ts, IF flight.w = 0 THEN 0 ELSE 0)
  BY <1>1 DEF Paced!Paused, IInv, CycleInv, CycleTypeOK, ClockInv, Device, Timestamp
<1>3. Paced!Side(flight.w) \notin {0, Paced!Side(device.w)}
        => Paced!Paused(device.change_ts, MinDwell - MaxLatency)
  <2>. SUFFICES ASSUME Paced!Side(flight.w) \notin {0, Paced!Side(device.w)},
                       device.change_ts # None
                PROVE  now - device.change_ts >= MinDwell - MaxLatency
    BY DEF Paced!Paused
  <2>1. Direction(flight.w) = "charge" /\ Direction(device.w) # "charge"
    BY <1>1, SameSide, LandingFacts, DirectionSign DEF Directions
  <2>2. /\ state.last_change_ts \in Int /\ device.change_ts \in Int
        /\ device.change_ts <= state.last_change_ts + MaxLatency
    BY LandingFacts DEF Follows
  <2>3. flight.ts - state.last_change_ts >= MinDwell
    BY <2>1, <2>2, LandingFacts, StateAssumption, EvAssumption
       DEF DwellHolds, ReversesTooSoon, Recent
  <2>. QED
    BY <2>2, <2>3, LandingFacts, EvAssumption, CycleAssumption
<1>. QED
  BY <1>1, <1>2, <1>3, MovesAlike DEF Paced!Steer

\* Every step maps to a step of PacedSetpoint or leaves it alone; trust, once
\* lost, is not regained.
LEMMA PacedStep ==
  ASSUME IInv, [Next]_vars
  PROVE  [Paced!Next]_(Paced!pacedVars)
<1>. USE DEF Paced!pacedVars
<1>1. CASE FirstRefresh
  BY <1>1 DEF FirstRefresh, NewInstance, IInv, CycleInv, OriginInv, Paced!Next,
              Paced!LoseTrack
<1>2. CASE Refresh \/ Request
  BY <1>2 DEF Refresh, Request, InstanceKept
<1>3. CASE Surroundings
  BY <1>3 DEF Surroundings, Paced!Next, Paced!Advance
<1>4. CASE WriteLands
  <2>1. /\ flight.w \in Amperes /\ flight.w \in Int /\ device \in Device
        /\ MoveDevice(flight.w) /\ now' = now /\ faults' = Repaired
    BY <1>4, FlightLegal DEF WriteLands, IInv, CycleInv, CycleTypeOK, Flight
  <2>2. CASE faults = {}
    BY <1>4, <2>1, <2>2, LandingIsPaced DEF Paced!Next
  <2>3. CASE faults # {}
    <3>1. faults' # {}
      BY <2>1, <2>3 DEF Repaired, InStep, IInv, CycleInv, FaultInv
    <3>. QED
      BY <2>1, <2>3, <3>1, MovesAlike DEF Paced!Next, Paced!Stray
  <2>. QED
    BY <2>2, <2>3
<1>5. CASE WriteSucceeds
  BY <1>5 DEF WriteSucceeds, RefreshEnds
<1>6. CASE WriteFails
  BY <1>6 DEF WriteFails, RefreshEnds, Paced!Next, Paced!LoseTrack
<1>7. CASE Unload
  BY <1>7 DEF Unload
<1>8. CASE OrphanLands
  <2>1. /\ orphan.w \in Amperes /\ orphan.w \in Int /\ device \in Device
        /\ MoveDevice(orphan.w) /\ now' = now /\ faults' # {}
    BY <1>8 DEF OrphanLands, IInv, CycleInv, CycleTypeOK, Orphan, EvInv
  <2>. QED
    BY <2>1, MovesAlike DEF Paced!Next, Paced!Stray
<1>. QED
  BY <1>1, <1>2, <1>3, <1>4, <1>5, <1>6, <1>7, <1>8, EvSteps, CycleNextCases
     DEF IInv, CycleInv

\* The EV coordinator, through late, failing and repeated writes and through
\* reloads, implements a legal setpoint that is not switched on again too soon.
THEOREM PacedImplemented == Spec => RefinesPacedSetpoint
<1>1. Init => Paced!Init
  BY DEF Init, CycleInit, Paced!Init
<1>2. IInv /\ [Next]_vars => [Paced!Next]_(Paced!pacedVars)
  BY PacedStep
<1>. QED
  BY <1>1, <1>2, Inductive, PTL DEF Spec, RefinesPacedSetpoint, Paced!Spec

-----------------------------------------------------------------------------
\* In observe-only mode no decision, notification, timer or reload starts a write;
\* the charger moves only for one that was under way before.
THEOREM ObserveOnly == Spec => ObserveOnlyNeverWrites
<1> DEFINE A == mode = "observe_only"
                  => /\ flight' # None => flight # None
                     /\ device' # device
                          => \E write \in {flight, orphan} :
                               write # None /\ ~write.landed /\ device'.w = write.w
<1>1. IInv /\ [Next]_vars => [A]_cycleVars
  <2> SUFFICES ASSUME IInv, [Next]_vars, cycleVars' # cycleVars PROVE A
    OBVIOUS
  <2>1. CycleStep
    BY EvSteps DEF IInv, CycleInv, CycleStep
  <2>. QED
    BY <2>1, ObserveOnlyStep
<1>. QED
  BY <1>1, Inductive, PTL DEF Spec, ObserveOnlyNeverWrites, A

=============================================================================
