----------------------- MODULE HeatPumpControl_proofs -----------------------
(***************************************************************************)
(* HeatPumpControl keeps its safety properties for every limit, multiple   *)
(* of the step or not, every price and average, every latency and every    *)
(* number of reloads and failures.                                         *)
(*                                                                         *)
(* WriteCycle_proofs says how the heat pump and the control state stay in  *)
(* step.  What is added here: rounding to even changes an offset by half a *)
(* step at most and never its sign (RoundingNear, RoundingSign), so that a *)
(* verdict is near its limit and follows the price (ApprovedNearLimit,     *)
(* ApprovedFollowsPrice), and a pass that is over and was not held has     *)
(* left the control state at its verdict (HpInv).                          *)
(***************************************************************************)
EXTENDS HeatPumpControl, WriteCycle_proofs

\* The quotient and the remainder RoundHalfEven is made of.
LEMMA Division ==
  ASSUME NEW n \in Int, NEW d \in Nat, d > 0
  PROVE  /\ n \div d \in Int /\ n % d \in Int
         /\ n = d * (n \div d) + (n % d)
         /\ 0 <= n % d /\ n % d < d
  OBVIOUS

\* The sign of a product.
LEMMA ProductSign ==
  ASSUME NEW a \in Int, NEW b \in Int, b >= 0
  PROVE  /\ a * b \in Int
         /\ a <= 0 => a * b <= 0
         /\ a >= 0 => a * b >= 0
  OBVIOUS

LEMMA RoundingType ==
  ASSUME NEW n \in Int, NEW d \in Nat, d > 0
  PROVE  RoundHalfEven(n, d) \in Int
  BY Division DEF RoundHalfEven

\* Rounding keeps the sign: what is not positive is not rounded to a positive
\* number, what is not negative not to a negative one.
LEMMA RoundingSign ==
  ASSUME NEW n \in Int, NEW d \in Nat, d > 0
  PROVE  /\ n <= 0 => RoundHalfEven(n, d) <= 0
         /\ n >= 0 => RoundHalfEven(n, d) >= 0
<1> DEFINE floor == n \div d
           rest  == n % d
<1>1. /\ floor \in Int /\ rest \in Int /\ n = d * floor + rest
      /\ 0 <= rest /\ rest < d
  BY Division
<1>2. RoundHalfEven(n, d) \in {floor, floor + 1}
  BY DEF RoundHalfEven
<1>3. rest = 0 => RoundHalfEven(n, d) = floor
  BY <1>1 DEF RoundHalfEven
<1>. HIDE DEF floor, rest
<1>4. floor >= 0 => d * floor >= 0
  BY <1>1, ProductSign
<1>5. floor < 0 => d * floor <= -d
  <2>. SUFFICES ASSUME floor < 0 PROVE d * floor <= -d
    OBVIOUS
  <2>1. floor + 1 <= 0 /\ floor + 1 \in Int
    BY <1>1
  <2>2. (floor + 1) * d <= 0
    BY <2>1, ProductSign
  <2>3. (floor + 1) * d = d * floor + d
    BY <1>1
  <2>4. d * floor \in Int
    BY <1>1
  <2>. QED
    BY <2>2, <2>3, <2>4
<1>6. floor > 0 => n > 0
  <2>. SUFFICES ASSUME floor > 0 PROVE n > 0
    OBVIOUS
  <2>1. floor - 1 >= 0 /\ floor - 1 \in Int
    BY <1>1
  <2>2. (floor - 1) * d >= 0
    BY <2>1, ProductSign
  <2>3. (floor - 1) * d = d * floor - d /\ d * floor \in Int
    BY <1>1
  <2>. QED
    BY <1>1, <2>2, <2>3
<1>7. n <= 0 => RoundHalfEven(n, d) <= 0
  <2>1. CASE floor < 0
    BY <1>1, <1>2, <2>1
  <2>2. CASE floor = 0
    BY <1>1, <1>3, <1>4, <2>2
  <2>. QED
    BY <1>1, <1>6, <2>1, <2>2
<1>8. n >= 0 => RoundHalfEven(n, d) >= 0
  <2>. SUFFICES ASSUME n >= 0 PROVE floor >= 0
    BY <1>1, <1>2
  <2>1. d * floor \in Int
    BY <1>1
  <2>. QED
    BY <1>1, <1>5, <2>1
<1>. QED
  BY <1>7, <1>8

\* Rounding to the step moves an offset by half a step at most.
LEMMA RoundingNear ==
  ASSUME NEW n \in Int
  PROVE  /\ 2 * (Step * RoundHalfEven(n, Step)) <= 2 * n + Step
         /\ 2 * n <= 2 * (Step * RoundHalfEven(n, Step)) + Step
<1>1. /\ n \div Step \in Int /\ n % Step \in Int
      /\ n = Step * (n \div Step) + (n % Step)
      /\ 0 <= n % Step /\ n % Step < Step
  BY Division DEF Step
<1> DEFINE floor == n \div Step
           rest  == n % Step
<1>2. /\ RoundHalfEven(n, Step) \in {floor, floor + 1}
      /\ RoundHalfEven(n, Step) = floor => 2 * rest <= Step
      /\ RoundHalfEven(n, Step) = floor + 1 => 2 * rest >= Step
  BY <1>1 DEF RoundHalfEven, Step
<1>. HIDE DEF floor, rest
<1>. QED
  BY <1>1, <1>2 DEF Step, floor, rest

-----------------------------------------------------------------------------
\* What a pass judges: the limit is no less than zero and there is an average.
Judgeable(r) == r \in Readings /\ r.average # None

LEMMA ReadingTypes ==
  ASSUME NEW r, Judgeable(r)
  PROVE  r.max_offset \in Nat /\ r.average \in Int /\ r.price \in Int \cup {None}
  BY HeatPumpAssumption DEF Judgeable, Reading

\* A clamp keeps the sign and the bound.
LEMMA WithinFacts ==
  ASSUME NEW n \in Int, NEW bound \in Nat
  PROVE  /\ Within(n, bound) \in Int
         /\ -bound <= Within(n, bound) /\ Within(n, bound) <= bound
         /\ n <= 0 => Within(n, bound) <= 0
         /\ n >= 0 => Within(n, bound) >= 0
  BY DEF Within

\* The planner's offset lies on the side of zero the price calls for.
LEMMA PlanFacts ==
  ASSUME NEW r, Judgeable(r)
  PROVE  /\ Plan(r) \in Int
         /\ (r.price # None /\ r.average > 0)
              => /\ r.price >= r.average => Plan(r) <= 0
                 /\ r.price <= r.average => Plan(r) >= 0
         /\ (r.price # None /\ r.average < 0)
              => /\ r.price <= r.average => Plan(r) <= 0
                 /\ r.price >= r.average => Plan(r) >= 0
<1>1. r.max_offset \in Nat /\ r.average \in Int /\ r.price \in Int \cup {None}
  BY ReadingTypes
<1>2. CASE r.price = None \/ r.average = 0
  BY <1>1, <1>2 DEF Plan
<1>3. CASE r.price # None /\ r.average # 0
  <2> DEFINE toward  == IF r.average < 0 THEN r.price - r.average
                                         ELSE r.average - r.price
             wish    == toward * Gain * r.max_offset
             bound   == Abs(r.average) * r.max_offset
             divisor == Abs(r.average) * Step
             steps   == RoundHalfEven(Within(wish, bound), divisor)
  <2>1. Plan(r) = Step * steps
    BY <1>3 DEF Plan
  <2>2. /\ toward \in Int /\ Abs(r.average) \in Nat /\ Abs(r.average) > 0
        /\ r.average > 0 => toward = r.average - r.price
        /\ r.average < 0 => toward = r.price - r.average
    BY <1>1, <1>3 DEF Abs
  <2>. HIDE DEF toward
  <2>3. /\ wish \in Int
        /\ toward <= 0 => wish <= 0
        /\ toward >= 0 => wish >= 0
    <3>1. /\ toward * Gain \in Int
          /\ toward <= 0 => toward * Gain <= 0
          /\ toward >= 0 => toward * Gain >= 0
      BY <2>2 DEF Gain
    <3>. QED
      BY <1>1, <3>1, ProductSign
  <2>4. bound \in Nat
    BY <1>1, <2>2, ProductSign
  <2>5. divisor \in Nat /\ divisor > 0
    BY <2>2 DEF Step
  <2>. HIDE DEF wish, bound, divisor
  <2>6. /\ steps \in Int
        /\ wish <= 0 => steps <= 0
        /\ wish >= 0 => steps >= 0
    BY <2>3, <2>4, <2>5, WithinFacts, RoundingType, RoundingSign
  <2>. HIDE DEF steps
  <2>7. /\ Plan(r) \in Int
        /\ steps <= 0 => Plan(r) <= 0
        /\ steps >= 0 => Plan(r) >= 0
    BY <2>1, <2>6 DEF Step
  <2>. QED
    BY <1>1, <1>3, <2>2, <2>3, <2>6, <2>7
<1>. QED
  BY <1>2, <1>3

\* hp_safety: whatever is planned, the approved offset is on the grid of the step and
\* exceeds the configured limit by half a step at most.
THEOREM ApprovedNearLimit ==
  ASSUME NEW r, Judgeable(r), NEW offset \in Int
  PROVE  /\ Approved(offset, r) \in Int /\ Approved(offset, r) % Step = 0
         /\ 2 * Abs(Approved(offset, r)) <= 2 * r.max_offset + Step
<1> DEFINE clamped == Within(offset, r.max_offset)
<1>1. r.max_offset \in Nat
  BY ReadingTypes
<1>2. clamped \in Int /\ -r.max_offset <= clamped /\ clamped <= r.max_offset
  BY <1>1, WithinFacts
<1>. HIDE DEF clamped
<1>3. /\ RoundHalfEven(clamped, Step) \in Int
      /\ 2 * (Step * RoundHalfEven(clamped, Step)) <= 2 * clamped + Step
      /\ 2 * clamped <= 2 * (Step * RoundHalfEven(clamped, Step)) + Step
  <2>1. Step \in Nat /\ Step > 0
    BY DEF Step
  <2>. QED
    BY <1>2, <2>1, RoundingType, RoundingNear
<1>4. Approved(offset, r) = Step * RoundHalfEven(clamped, Step)
  BY DEF Approved, clamped
<1>. QED
  BY <1>1, <1>2, <1>3, <1>4 DEF Step, Abs

\* Clamping and rounding in hp_safety keep the side of zero the planner chose.
LEMMA ApprovedSign ==
  ASSUME NEW r, Judgeable(r), NEW offset \in Int
  PROVE  /\ Approved(offset, r) > 0 => offset > 0
         /\ Approved(offset, r) < 0 => offset < 0
<1> DEFINE clamped == Within(offset, r.max_offset)
<1>1. r.max_offset \in Nat
  BY ReadingTypes
<1>2. /\ clamped \in Int
      /\ offset <= 0 => clamped <= 0
      /\ offset >= 0 => clamped >= 0
  BY <1>1, WithinFacts
<1>. HIDE DEF clamped
<1>3. /\ RoundHalfEven(clamped, Step) \in Int
      /\ clamped <= 0 => RoundHalfEven(clamped, Step) <= 0
      /\ clamped >= 0 => RoundHalfEven(clamped, Step) >= 0
  <2>1. Step \in Nat /\ Step > 0
    BY DEF Step
  <2>. QED
    BY <1>2, <2>1, RoundingType, RoundingSign
<1>4. Approved(offset, r) = Step * RoundHalfEven(clamped, Step)
  BY DEF Approved, clamped
<1>. QED
  BY <1>2, <1>3, <1>4 DEF Step

\* plan_heatpump and hp_safety together: with a positive average the approved
\* offset is positive only below it and negative only above it.
THEOREM ApprovedFollowsPrice ==
  ASSUME NEW r, Judgeable(r), r.price # None, r.average > 0
  PROVE  /\ Approved(Plan(r), r) > 0 => r.price < r.average
         /\ Approved(Plan(r), r) < 0 => r.price > r.average
  BY PlanFacts, ApprovedSign, ReadingTypes

\* "A negative ratio (price above average)" holds for a positive average only: over a
\* series with a negative one the heat pump is raised above the average price and
\* lowered below it.
THEOREM NegativeAverageReverses ==
  ASSUME NEW r, Judgeable(r), r.price # None, r.average < 0
  PROVE  /\ Approved(Plan(r), r) > 0 => r.price > r.average
         /\ Approved(Plan(r), r) < 0 => r.price < r.average
  BY PlanFacts, ApprovedSign, ReadingTypes

-----------------------------------------------------------------------------
\* A verdict is near the limit and follows the price it was made with.
VerdictInv(result) ==
  /\ result.outcome.signed_w % Step = 0
  /\ 2 * Abs(result.outcome.signed_w) <= 2 * result.seen.max_offset + Step
  /\ (result.seen.price # None /\ result.seen.average > 0)
       => /\ result.outcome.signed_w > 0
               => result.seen.price < result.seen.average
          /\ result.outcome.signed_w < 0
               => result.seen.price > result.seen.average

\* A write hp_safety admitted in control state s at time t.
Admitted(write, s, t) ==
  /\ ~write.result.outcome.held
  /\ ~ThrottleHolds(write.w, s, t)
  /\ ~DwellHolds(write.w, s, t)
  /\ VerdictInv(write.result)

\* An active result that was not held left the control state at its offset.
Left(result, s, steers) ==
  (result.mode = "active" /\ steers /\ ~result.outcome.held)
    => s.last_written_w = result.outcome.signed_w

HpInv ==
  /\ reading \in Readings
  /\ flight # None => Admitted(flight, state, flight.ts)
  /\ data # None => VerdictInv(data)
  /\ (data # None /\ flight = None /\ last_update_success)
       => Left(data, state, configured)
  /\ orphan # None => orphan.w \in Offsets

IInv == CycleInv /\ HpInv

\* What a pass decides, in any control state.
LEMMA VerdictFacts ==
  ASSUME NEW r, Judgeable(r), NEW s \in ControlState, NEW t \in Int
  PROVE  LET outcome == Verdict(r, s, t)
         IN  /\ outcome \in Outcome
             /\ outcome.signed_w = Approved(Plan(r), r)
             /\ outcome.write => /\ ~outcome.held
                                 /\ ~ThrottleHolds(outcome.signed_w, s, t)
                                 /\ ~DwellHolds(outcome.signed_w, s, t)
             /\ (~outcome.write /\ ~outcome.held)
                  => s.last_written_w = outcome.signed_w
<1> DEFINE offset == Approved(Plan(r), r)
           throttled == ThrottleHolds(offset, s, t)
           dwells == DwellHolds(offset, s, t)
<1>1. offset \in Int
  BY PlanFacts, ApprovedNearLimit
<1>2. throttled \in BOOLEAN /\ dwells \in BOOLEAN
  BY DEF ThrottleHolds, DwellHolds, ReversesTooSoon, Recent
<1> DEFINE outcome == Verdict(r, s, t)
<1>3. outcome = [signed_w |-> offset,
                 held     |-> throttled \/ dwells,
                 write    |-> ~(throttled \/ dwells) /\ offset # s.last_written_w]
  BY DEF Verdict
<1>. HIDE DEF offset, throttled, dwells, outcome
<1>4. /\ outcome.signed_w = offset
      /\ outcome.held = (throttled \/ dwells)
      /\ outcome.write = (~(throttled \/ dwells) /\ offset # s.last_written_w)
  BY <1>3
<1>5. outcome \in Outcome
  BY <1>1, <1>2, <1>3 DEF Outcome
<1>6. /\ outcome.write => ~throttled /\ ~dwells /\ ~outcome.held
      /\ (~outcome.write /\ ~outcome.held) => s.last_written_w = offset
  BY <1>2, <1>4
<1>. QED
  BY <1>4, <1>5, <1>6 DEF outcome, offset, throttled, dwells

-----------------------------------------------------------------------------
\* What a pass in control state s leaves behind.
JudgedIn(s) ==
  /\ flight' # None => Admitted(flight', s, now)
  /\ (flight' = None /\ data' # None)
       => VerdictInv(data') /\ Left(data', s, configured')

LEMMA PassCases ==
  ASSUME CycleTypeOK, NEW r \in Readings, NEW s \in ControlState,
         NEW after, configured' \in BOOLEAN, Pass(r, s, after)
  PROVE  /\ pending' = "evaluated"
         /\ WriteStarted \/ PassEnded(after)
         /\ JudgedIn(s)
<1>1. CASE Skipped(after)
  BY <1>1, SkippedCases DEF PassEnded, JudgedIn
<1>2. CASE r.enabled /\ r.average # None /\ Judged(Verdict(r, s, now), r, after)
  <2> DEFINE outcome == Verdict(r, s, now)
  <2>1. now \in Int /\ Judgeable(r)
    BY <1>2 DEF CycleTypeOK, Judgeable
  <2>2. /\ outcome \in Outcome
        /\ outcome.signed_w = Approved(Plan(r), r)
        /\ outcome.write => /\ ~outcome.held
                            /\ ~ThrottleHolds(outcome.signed_w, s, now)
                            /\ ~DwellHolds(outcome.signed_w, s, now)
        /\ (~outcome.write /\ ~outcome.held)
             => s.last_written_w = outcome.signed_w
    BY <2>1, VerdictFacts
  <2>3. /\ outcome.signed_w % Step = 0
        /\ 2 * Abs(outcome.signed_w) <= 2 * r.max_offset + Step
        /\ (r.price # None /\ r.average > 0)
             => /\ outcome.signed_w > 0 => r.price < r.average
                /\ outcome.signed_w < 0 => r.price > r.average
    BY <2>1, <2>2, PlanFacts, ApprovedNearLimit, ApprovedFollowsPrice
  <2>4. Judged(outcome, r, after)
    BY <1>2
  <2>5. MayWrite(outcome) = (mode = "active" /\ configured' /\ outcome.write)
    BY DEF MayWrite
  <2>. HIDE DEF outcome
  <2>6. /\ pending' = "evaluated"
        /\ \/ /\ WriteStarted
              /\ MayWrite(outcome)
              /\ flight'.result.outcome = outcome
              /\ flight'.result.seen = r
           \/ /\ PassEnded(after)
              /\ ~MayWrite(outcome)
              /\ data' # None => /\ data'.outcome = outcome
                                 /\ data'.mode = mode
                                 /\ data'.seen = r
    BY <2>2, <2>4, JudgedCases
  <2>7. CASE WriteStarted
    <3>1. /\ MayWrite(outcome) /\ flight'.result.outcome = outcome
          /\ flight'.result.seen = r /\ flight' # None
          /\ flight'.w = outcome.signed_w
      BY <2>6, <2>7, NoneAssumption DEF WriteStarted, PassEnded
    <3>. QED
      BY <2>2, <2>3, <2>5, <2>6, <2>7, <3>1 DEF Admitted, VerdictInv, JudgedIn
  <2>8. CASE PassEnded(after)
    <3>1. /\ flight' = None /\ ~MayWrite(outcome)
          /\ data' # None => /\ data'.outcome = outcome
                             /\ data'.mode = mode
                             /\ data'.seen = r
      BY <2>6, <2>8, NoneAssumption DEF WriteStarted, PassEnded
    <3>2. outcome.write \in BOOLEAN
      BY <2>2 DEF Outcome
    <3>. QED
      BY <2>2, <2>3, <2>5, <2>6, <2>8, <3>1, <3>2 DEF VerdictInv, Left, JudgedIn
  <2>. QED
    BY <2>6, <2>7, <2>8
<1>. QED
  BY <1>1, <1>2 DEF Pass

\* Every step of HeatPumpControl is a step of the cycle, and its passes are judged in
\* the control state they leave in force.
LEMMA HpSteps ==
  ASSUME CycleTypeOK, RequestInv, HpInv, [Next]_vars
  PROVE  /\ reading' \in Readings
         /\ \/ FirstRefresh /\ JudgedIn(FreshControlState)
            \/ Refresh /\ JudgedIn(state)
            \/ Request
            \/ UNCHANGED cycleVars
            \/ CycleNext
<1>. USE DEF HpInv
<1>1. ASSUME NEW r \in Readings, NEW c \in BOOLEAN, Setup(r, c)
      PROVE  FirstRefresh /\ JudgedIn(FreshControlState)
  <2>1. configured' \in BOOLEAN /\ Pass(r, FreshControlState, Quiet)
    BY <1>1 DEF Setup
  <2>2. /\ pending' = "evaluated" /\ JudgedIn(FreshControlState)
        /\ WriteStarted \/ PassEnded(Quiet)
    BY <2>1, FreshControlStateType, PassCases
  <2>. QED
    BY <1>1, <2>1, <2>2 DEF Setup, FirstRefresh
<1>2. ASSUME NEW r \in Readings, Upstream(r)
      PROVE  (Refresh /\ JudgedIn(state)) \/ Request
  <2>1. CASE PassRequested
    <3>1. /\ configured' = configured /\ Pass(r, state, CoolingDown)
          /\ configured' \in BOOLEAN /\ state \in ControlState
          /\ phase = "up" /\ flight = None
      BY <1>2, <2>1 DEF Upstream, CycleTypeOK, PassRequested, RunsNow
    <3>2. /\ pending' = "evaluated" /\ JudgedIn(state)
          /\ WriteStarted \/ PassEnded(CoolingDown)
      BY <3>1, PassCases
    <3>. QED
      BY <1>2, <3>1, <3>2 DEF Upstream, Refresh
  <2>2. CASE ~PassRequested
    BY <1>2, <2>2 DEF Upstream, Request
  <2>. QED
    BY <2>1, <2>2
<1>3. ASSUME TimerFires
      PROVE  (Refresh /\ JudgedIn(state)) \/ Request
  <2>1. CASE PassQueued
    <3>1. /\ configured' = configured /\ Pass(reading, state, CoolingDown)
          /\ configured' \in BOOLEAN /\ state \in ControlState
          /\ phase = "up" /\ flight = None
      BY <1>3, <2>1 DEF TimerFires, CycleTypeOK, PassQueued, RequestInv
    <3>2. /\ pending' = "evaluated" /\ JudgedIn(state)
          /\ WriteStarted \/ PassEnded(CoolingDown)
      BY <3>1, PassCases
    <3>. QED
      BY <1>3, <3>1, <3>2 DEF TimerFires, Refresh
  <2>2. CASE ~PassQueued
    BY <1>3, <2>2 DEF TimerFires, Request
  <2>. QED
    BY <2>1, <2>2
<1>4. ASSUME NEW r \in Readings, ReadingChanges(r)
      PROVE  UNCHANGED cycleVars
  BY <1>4 DEF ReadingChanges
<1>5. CASE UNCHANGED vars
  BY <1>5 DEF vars, cycleVars
<1>6. reading' \in Readings
  BY DEF Next, Setup, Upstream, TimerFires, ReadingChanges, vars
<1>. QED
  BY <1>1, <1>2, <1>3, <1>4, <1>5, <1>6 DEF Next

-----------------------------------------------------------------------------
\* A write under way carries an offset the heat pump may be told.
LEMMA FlightLegal ==
  ASSUME CycleInv, HpInv, flight # None
  PROVE  flight.w \in Offsets
<1> DEFINE r == flight.result.seen
<1>1. /\ r \in Readings /\ flight.w \in Int
      /\ flight.w = flight.result.outcome.signed_w
  BY DEF CycleInv, CycleTypeOK, FlightInv, Flight, Result
<1>2. r.max_offset \in Nat
  BY <1>1, HeatPumpAssumption DEF Reading
<1>3. flight.w % Step = 0 /\ 2 * Abs(flight.w) <= 2 * r.max_offset + Step
  BY <1>1 DEF HpInv, Admitted, VerdictInv
<1>. HIDE DEF r
<1>4. flight.w \in -(r.max_offset + Step) .. (r.max_offset + Step)
  BY <1>1, <1>2, <1>3 DEF Abs, Step
<1>. QED
  BY <1>1, <1>3, <1>4 DEF Offsets

LEMMA HpInvStep ==
  ASSUME CycleInv, HpInv, [Next]_vars
  PROVE  HpInv'
<1>. USE NoneAssumption DEF HpInv
<1>0. CycleTypeOK /\ RequestInv /\ FlightInv /\ OriginInv
  BY DEF CycleInv
<1>1. CASE FirstRefresh /\ JudgedIn(FreshControlState)
  <2>1. state' = FreshControlState /\ data = None /\ orphan' = orphan
    BY <1>0, <1>1 DEF FirstRefresh, NewInstance, OriginInv
  <2>2. CASE WriteStarted
    BY <1>1, <2>1, <2>2, HpSteps, <1>0
       DEF WriteStarted, JudgedIn, Admitted, VerdictInv
  <2>3. CASE PassEnded(Quiet)
    BY <1>1, <2>1, <2>3, HpSteps, <1>0
       DEF PassEnded, JudgedIn, VerdictInv, Left
  <2>. QED
    BY <1>1, <2>2, <2>3 DEF FirstRefresh
<1>2. CASE Refresh /\ JudgedIn(state)
  <2>1. state' = state /\ orphan' = orphan
    BY <1>2 DEF Refresh, InstanceKept
  <2>2. CASE WriteStarted
    BY <1>2, <2>1, <2>2, HpSteps, <1>0
       DEF WriteStarted, JudgedIn, Admitted, VerdictInv
  <2>3. CASE PassEnded(CoolingDown)
    BY <1>2, <2>1, <2>3, HpSteps, <1>0
       DEF PassEnded, JudgedIn, VerdictInv, Left
  <2>. QED
    BY <1>2, <2>2, <2>3 DEF Refresh
<1>3. CASE Request
  BY <1>0, <1>3, HpSteps
     DEF Request, RequestNotRun, CooldownEnds, InstanceKept, Admitted, VerdictInv,
         Left, counters
<1>4. CASE Surroundings
  BY <1>0, <1>4, HpSteps DEF Surroundings, Admitted, VerdictInv, Left
<1>5. CASE WriteLands
  <2>1. /\ flight # None /\ flight \in Flight
        /\ flight' = [flight EXCEPT !.landed = TRUE]
        /\ UNCHANGED <<configured, state, data, last_update_success, orphan>>
    BY <1>0, <1>5 DEF WriteLands, CycleTypeOK
  <2>2. /\ flight'.w = flight.w /\ flight'.ts = flight.ts
        /\ flight'.result = flight.result /\ flight' # None
    BY <2>1 DEF Flight
  <2>. QED
    BY <1>0, <2>1, <2>2, HpSteps DEF Admitted, VerdictInv
<1>6. CASE WriteSucceeds
  <2>1. flight \in Flight /\ flight # None /\ Admitted(flight, state, flight.ts)
    BY <1>0, <1>6 DEF WriteSucceeds, CycleTypeOK
  <2>2. flight.w = flight.result.outcome.signed_w /\ VerdictInv(flight.result)
    BY <1>0, <2>1 DEF FlightInv, Admitted
  <2>3. /\ state' = Record(state, flight.w, flight.ts)
        /\ flight' = None /\ data' = flight.result /\ orphan' = orphan
    BY <1>6 DEF WriteSucceeds, RefreshEnds
  <2>4. state'.last_written_w = flight.w
    BY <2>3 DEF Record
  <2>. QED
    BY <1>0, <2>2, <2>3, <2>4, HpSteps DEF VerdictInv, Left
<1>7. CASE WriteFails
  BY <1>0, <1>7, HpSteps DEF WriteFails, RefreshEnds, VerdictInv, Left
<1>8. CASE Unload
  BY <1>0, <1>8, HpSteps, FlightLegal DEF Unload
<1>9. CASE OrphanLands
  BY <1>0, <1>9, HpSteps
     DEF OrphanLands, Admitted, VerdictInv, Left, counters
<1>. QED
  BY <1>0, <1>1, <1>2, <1>3, <1>4, <1>5, <1>6, <1>7, <1>8, <1>9, HpSteps,
     CycleNextCases

\* The inductive invariant holds in every reachable state.
THEOREM Inductive == Spec => []IInv
<1>1. Init => IInv
  BY CycleInvInit DEF Init, IInv, HpInv, CycleInit
<1>2. IInv /\ [Next]_vars => IInv'
  <2> SUFFICES ASSUME IInv, [Next]_vars PROVE IInv'
    OBVIOUS
  <2>1. CycleStep
    BY HpSteps DEF IInv, CycleInv, CycleStep
  <2>. QED
    BY <2>1, CycleInvStep, HpInvStep DEF IInv
<1>. QED
  BY <1>1, <1>2, PTL DEF Spec

-----------------------------------------------------------------------------
\* Every variable of the heat pump coordinator, its debouncer and the heat pump
\* keeps its type.
THEOREM TypeCorrect == Spec => []TypeOK
<1>1. IInv => TypeOK
  BY DEF IInv, CycleInv, HpInv, TypeOK
<1>. QED
  BY <1>1, Inductive, PTL


\* After a pass that was not held the heat pump is at its verdict.
LEMMA OffsetAfterPass ==
  ASSUME IInv, Obeyed
  PROVE  VerdictInv(data) /\ device.w = data.outcome.signed_w
<1>1. /\ phase = "up" /\ flight = None /\ data # None /\ last_update_success
      /\ data.mode = "active" /\ configured /\ ~data.outcome.held
      /\ InStep
  BY DEF Obeyed, Steering, Settled
<1>2. Effective = state
  BY <1>1 DEF Effective
<1>3. VerdictInv(data) /\ state.last_written_w = data.outcome.signed_w
  BY <1>1 DEF IInv, HpInv, Left
<1>4. data.outcome.signed_w \in Int
  BY <1>1 DEF IInv, CycleInv, CycleTypeOK, Result, Outcome
<1>5. device.w = state.last_written_w
  BY <1>1, <1>2, <1>3, <1>4, StateAssumption DEF IInv, CycleInv, SetpointInv
<1>. QED
  BY <1>3, <1>5

\* At the heat pump the configured limit is exceeded by half a step at most,
\* for every limit.
THEOREM LimitNearlyKept == Spec => []OffsetNearLimit
<1>1. IInv => OffsetNearLimit
  BY OffsetAfterPass DEF OffsetNearLimit, VerdictInv
<1>. QED
  BY <1>1, Inductive, PTL

\* The offset at the heat pump has the sign the price calls for.
THEOREM PriceFollowed == Spec => []OffsetFollowsPrice
<1>1. IInv => OffsetFollowsPrice
  BY OffsetAfterPass DEF OffsetFollowsPrice, VerdictInv
<1>. QED
  BY <1>1, Inductive, PTL

\* What the user sees reported as written is the offset the heat pump was sent.
THEOREM ReportTruthful == Spec => []ReportedWriteIsOnDevice
<1>1. IInv => ReportedWriteIsOnDevice
  BY DEF IInv, CycleInv, ReportInv, ReportedWriteIsOnDevice, Settled
<1>. QED
  BY <1>1, Inductive, PTL

\* The landing of a write, seen from the control state it was admitted in.
LEMMA LandingFacts ==
  ASSUME IInv, WriteLands, faults = {}
  PROVE  /\ flight.ts \in Int /\ flight.w \in Int /\ now \in Int
         /\ flight.ts <= now
         /\ ~DwellHolds(flight.w, state, flight.ts)
         /\ ~ThrottleHolds(flight.w, state, flight.ts)
         /\ Direction(device.w) = state.last_direction
         /\ Follows(device.write_ts, state.last_write_ts)
         /\ Follows(device.change_ts, state.last_change_ts)
         /\ state.last_write_ts \in Int \cup {None}
         /\ state.last_change_ts \in Int \cup {None}
<1>1. flight \in Flight /\ flight # None /\ ~flight.landed /\ state \in ControlState
  BY DEF IInv, CycleInv, CycleTypeOK, WriteLands
<1>2. Effective = state
  BY <1>1 DEF Effective
<1>3. phase # "down"
  BY <1>1 DEF IInv, CycleInv, FlightInv
<1>. QED
  BY <1>1, <1>2, <1>3
     DEF IInv, CycleInv, CycleTypeOK, FlightInv, HistoryInv, Flight, HpInv, Admitted,
         ControlState, Timestamp

\* The throttle holds at the heat pump, stops included, short of the latency of
\* a write.
LEMMA LandingPause ==
  ASSUME IInv, WriteLands, faults = {}, device.write_ts # None
  PROVE  now - device.write_ts >= WriteThrottle - MaxLatency
<1>1. /\ state.last_write_ts \in Int /\ device.write_ts \in Int
      /\ device.write_ts <= state.last_write_ts + MaxLatency
  BY LandingFacts, StateAssumption DEF Follows
<1>2. flight.ts - state.last_write_ts >= WriteThrottle
  BY <1>1, LandingFacts, StateAssumption, HeatPumpAssumption DEF ThrottleHolds, Recent
<1>. QED
  BY <1>1, <1>2, LandingFacts, HeatPumpAssumption, CycleAssumption

\* The same, as the heat pump sees its steps.
THEOREM WritesSpaced == Spec => OffsetsSpaced
<1>1. IInv /\ [Next]_vars =>
        [(WriteLands /\ faults = {} /\ device.write_ts # None)
         => now - device.write_ts >= WriteThrottle - MaxLatency]_vars
  BY LandingPause
<1>. QED
  BY <1>1, Inductive, PTL DEF Spec, OffsetsSpaced

-----------------------------------------------------------------------------
\* The mapping onto PacedSetpoint, step by step.
LEMMA SameSide ==
  ASSUME NEW v \in Int, NEW w \in Int
  PROVE  /\ (Paced!Side(v) = Paced!Side(w)) <=> (Direction(v) = Direction(w))
         /\ (Paced!Side(w) = 0) <=> (Direction(w) = "idle")
         /\ (Direction(w) = "idle") <=> (w = 0)
  BY DEF Paced!Side, Direction

\* A move of the heat pump is a Move of the abstract setpoint.
LEMMA MovesAlike ==
  ASSUME device \in Device, NEW w \in Int, MoveDevice(w)
  PROVE  Paced!Move(w)
<1>1. device.w \in Int
  BY DEF Device
<1>. QED
  BY <1>1, SameSide DEF MoveDevice, Paced!Move

\* A landing respects both pauses: throttle, stops included, and dwell held in the
\* control state the heat pump follows.
LEMMA LandingIsPaced ==
  ASSUME IInv, WriteLands, faults = {}
  PROVE  Paced!Steer(flight.w)
<1>. USE StateAssumption, HeatPumpAssumption, CycleAssumption
<1>1. /\ flight.w \in Int /\ device \in Device /\ device.w \in Int
      /\ MoveDevice(flight.w) /\ now' = now /\ faults' = faults
  BY LandingFacts DEF WriteLands, Repaired, IInv, CycleInv, CycleTypeOK, Device
<1>2. Paced!Paused(device.write_ts, WriteThrottle - MaxLatency)
  BY LandingPause DEF Paced!Paused
<1>3. Paced!Side(flight.w) \notin {0, Paced!Side(device.w)}
        => Paced!Paused(device.change_ts, MinDwell - MaxLatency)
  <2>. SUFFICES ASSUME Paced!Side(flight.w) \notin {0, Paced!Side(device.w)},
                       device.change_ts # None
                PROVE  now - device.change_ts >= MinDwell - MaxLatency
    BY DEF Paced!Paused
  <2>1. Direction(flight.w) \notin {"idle", Direction(device.w)}
    BY <1>1, SameSide
  <2>2. /\ state.last_change_ts \in Int /\ device.change_ts \in Int
        /\ device.change_ts <= state.last_change_ts + MaxLatency
    BY LandingFacts DEF Follows
  <2>3. flight.ts - state.last_change_ts >= MinDwell
    BY <2>1, <2>2, LandingFacts DEF DwellHolds, ReversesTooSoon, Recent
  <2>. QED
    BY <2>2, <2>3, LandingFacts
<1>. QED
  BY <1>1, <1>2, <1>3, MovesAlike DEF Paced!Steer

\* Every step maps to a step of PacedSetpoint or leaves it alone; trust, once
\* lost, is not regained.
LEMMA PacedStep ==
  ASSUME IInv, [Next]_vars
  PROVE  [Paced!Next]_(Paced!pacedVars)
<1>. USE DEF Paced!pacedVars
<1>1. CASE FirstRefresh
  BY <1>1 DEF FirstRefresh, NewInstance, IInv, CycleInv, OriginInv, Paced!Next,
              Paced!LoseTrack
<1>2. CASE Refresh \/ Request
  BY <1>2 DEF Refresh, Request, InstanceKept
<1>3. CASE Surroundings
  BY <1>3 DEF Surroundings, Paced!Next, Paced!Advance
<1>4. CASE WriteLands
  <2>1. /\ flight.w \in Offsets /\ flight.w \in Int /\ device \in Device
        /\ MoveDevice(flight.w) /\ now' = now /\ faults' = Repaired
    BY <1>4, FlightLegal DEF WriteLands, IInv, CycleInv, CycleTypeOK, Flight
  <2>2. CASE faults = {}
    BY <1>4, <2>1, <2>2, LandingIsPaced DEF Paced!Next
  <2>3. CASE faults # {}
    <3>1. faults' # {}
      BY <2>1, <2>3 DEF Repaired, InStep, IInv, CycleInv, FaultInv
    <3>. QED
      BY <2>1, <2>3, <3>1, MovesAlike DEF Paced!Next, Paced!Stray
  <2>. QED
    BY <2>2, <2>3
<1>5. CASE WriteSucceeds
  BY <1>5 DEF WriteSucceeds, RefreshEnds
<1>6. CASE WriteFails
  BY <1>6 DEF WriteFails, RefreshEnds, Paced!Next, Paced!LoseTrack
<1>7. CASE Unload
  BY <1>7 DEF Unload
<1>8. CASE OrphanLands
  <2>1. /\ orphan.w \in Offsets /\ orphan.w \in Int /\ device \in Device
        /\ MoveDevice(orphan.w) /\ now' = now /\ faults' # {}
    BY <1>8 DEF OrphanLands, IInv, CycleInv, CycleTypeOK, Orphan, HpInv
  <2>. QED
    BY <2>1, MovesAlike DEF Paced!Next, Paced!Stray
<1>. QED
  BY <1>1, <1>2, <1>3, <1>4, <1>5, <1>6, <1>7, <1>8, HpSteps, CycleNextCases
     DEF IInv, CycleInv

\* The heat pump coordinator, through late, failing and repeated writes and through
\* reloads, implements a throttled offset near its limit that is not reversed too
\* soon.
THEOREM PacedImplemented == Spec => RefinesPacedSetpoint
<1>1. Init => Paced!Init
  BY DEF Init, CycleInit, Paced!Init
<1>2. IInv /\ [Next]_vars => [Paced!Next]_(Paced!pacedVars)
  BY PacedStep
<1>. QED
  BY <1>1, <1>2, Inductive, PTL DEF Spec, RefinesPacedSetpoint, Paced!Spec

-----------------------------------------------------------------------------
\* In observe-only mode no decision, notification, timer or reload starts a write;
\* the heat pump moves only for one that was under way before.
THEOREM ObserveOnly == Spec => ObserveOnlyNeverWrites
<1> DEFINE A == mode = "observe_only"
                  => /\ flight' # None => flight # None
                     /\ device' # device
                          => \E write \in {flight, orphan} :
                               write # None /\ ~write.landed /\ device'.w = write.w
<1>1. IInv /\ [Next]_vars => [A]_cycleVars
  <2> SUFFICES ASSUME IInv, [Next]_vars, cycleVars' # cycleVars PROVE A
    OBVIOUS
  <2>1. CycleStep
    BY HpSteps DEF IInv, CycleInv, CycleStep
  <2>. QED
    BY <2>1, ObserveOnlyStep
<1>. QED
  BY <1>1, Inductive, PTL DEF Spec, ObserveOnlyNeverWrites, A

=============================================================================
