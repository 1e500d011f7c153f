----------------------------- MODULE SafetyGate -----------------------------
(***************************************************************************)
(* The battery safety gate: safety/gate.py (evaluate) with the parameters  *)
(* of safety/config.py.                                                    *)
(* Pure operators; BatteryActuation calls them once per actuation pass.    *)
(* Powers are watts (+ charge, - discharge), times are clock units.        *)
(***************************************************************************)
EXTENDS SafetyState

CONSTANTS
  MinSoc, MaxSoc,    \* battery_min_soc, battery_max_soc
  MaxChargeW, MaxDischargeW,
  WriteThrottle,     \* write_throttle_s
  MinDwell,          \* min_dwell_s
  HysteresisW        \* hysteresis_w

\* The option forms keep every number non-negative; nothing in the code
\* relates the two SOC limits, or the throttle to the dwell.
ASSUME GateAssumption ==
  /\ MinSoc \in Nat /\ MaxSoc \in Nat
  /\ MaxChargeW \in Nat /\ MaxDischargeW \in Nat
  /\ WriteThrottle \in Nat /\ MinDwell \in Nat /\ HysteresisW \in Nat

Actions    == {"idle", "charge", "discharge"}
Intended   == [action : Actions, power_w : Nat]

-----------------------------------------------------------------------------
AbsW(w) == IF w < 0 THEN -w ELSE w

\* An off-by-one of step 1: the limit itself is no longer blocked.
SocBlocksPastLimit(intended, soc) ==
  /\ soc # None
  /\ \/ intended.action = "charge" /\ soc > MaxSoc
     \/ intended.action = "discharge" /\ soc < MinSoc

\* Step 1: state-of-charge limits.  An unknown SOC blocks nothing.
SocBlocks(intended, soc) ==
  /\ soc # None
  /\ \/ intended.action = "charge" /\ soc >= MaxSoc
     \/ intended.action = "discharge" /\ soc <= MinSoc

\* Step 2 without its clamp on charging.
SignedPowerUnclamped(intended, soc) ==
  IF SocBlocks(intended, soc) THEN 0
  ELSE CASE intended.action = "charge"    -> intended.power_w
         [] intended.action = "discharge" -> -Lesser(intended.power_w, MaxDischargeW)
         [] OTHER                         -> 0

\* Step 2: power clamp, applied to what step 1 left of the action.
SignedPower(intended, soc) ==
  IF SocBlocks(intended, soc) THEN 0
  ELSE CASE intended.action = "charge"    -> Lesser(intended.power_w, MaxChargeW)
         [] intended.action = "discharge" -> -Lesser(intended.power_w, MaxDischargeW)
         [] OTHER                         -> 0

\* Step 3: anti-oscillation.  Going to idle is never held.
DwellHolds(signed_w, state, now) ==
  ReversesTooSoon(signed_w, state, now, MinDwell)

\* Step 4 without its exception for a stop.
ThrottleHoldsAnything(signed_w, state, now) ==
  Recent(state.last_write_ts, now, WriteThrottle)

\* Step 4: write throttle.  A stop is never throttled.
ThrottleHolds(signed_w, state, now) ==
  signed_w # 0 /\ Recent(state.last_write_ts, now, WriteThrottle)

\* Step 5: no write if unchanged within the hysteresis.
Unchanged(signed_w, state) ==
  /\ state.last_written_w # None
  /\ Direction(signed_w) = state.last_direction
  /\ AbsW(signed_w - state.last_written_w) <= HysteresisW

\* SafetyOutcome.  `held' stands for the reasons steps 3 and 4 append: the
\* gate wanted another setpoint and postponed it.
Evaluate(intended, soc, state, now) ==
  LET signed_w == SignedPower(intended, soc)
      held     == \/ DwellHolds(signed_w, state, now)
                  \/ ThrottleHolds(signed_w, state, now)
  IN  [signed_w |-> signed_w,
       held     |-> held,
       write    |-> ~held /\ ~Unchanged(signed_w, state)]

=============================================================================
