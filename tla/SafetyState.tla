---------------------------- MODULE SafetyState ----------------------------
(***************************************************************************)
(* safety/state.py: the ControlState that the battery, EV and heat pump    *)
(* coordinators each keep between two writes, and how a write is recorded. *)
(* One record type serves all three: `last_written_w' holds watts for the  *)
(* battery, amperes for the charger and tenths of a degree for the heat    *)
(* pump.  Times are clock units.                                           *)
(***************************************************************************)
EXTENDS Integers

CONSTANT None   \* Python's None

ASSUME StateAssumption == None \notin Int

Lesser(a, b) == IF a <= b THEN a ELSE b

Directions == {"idle", "charge", "discharge"}
Timestamp  == Int \cup {None}

\* Every state record() can leave a ControlState in.
ControlState ==
  [last_written_w : Int \cup {None},
   last_write_ts  : Timestamp,
   last_direction : Directions,
   last_change_ts : Timestamp]

FreshControlState ==
  [last_written_w |-> None,
   last_write_ts  |-> None,
   last_direction |-> "idle",
   last_change_ts |-> None]

\* The time stamp lies less than `period' before `now'; never set, never recent.
Recent(ts, now, period) == ts # None /\ now - ts < period

Direction(signed_w) ==
  CASE signed_w > 0 -> "charge"
    [] signed_w < 0 -> "discharge"
    [] OTHER        -> "idle"

\* A change of direction within `dwell' of the previous one.  Going to idle is
\* no such change.
ReversesTooSoon(signed_w, state, now, dwell) ==
  /\ Direction(signed_w) \notin {"idle", state.last_direction}
  /\ Recent(state.last_change_ts, now, dwell)

-----------------------------------------------------------------------------
\* Three ways to get ControlState.record wrong.
RecordFirstChangeOnly(state, signed_w, now) ==
  [last_written_w |-> signed_w,
   last_write_ts  |-> now,
   last_direction |-> Direction(signed_w),
   last_change_ts |-> IF state.last_change_ts = None THEN now
                                                     ELSE state.last_change_ts]

RecordNonIdleTime(state, signed_w, now) ==
  [last_written_w |-> signed_w,
   last_write_ts  |-> IF signed_w = 0 THEN state.last_write_ts ELSE now,
   last_direction |-> Direction(signed_w),
   last_change_ts |-> IF Direction(signed_w) = state.last_direction
                      THEN state.last_change_ts ELSE now]

RecordOnOff(state, signed_w, now) ==
  [last_written_w |-> signed_w,
   last_write_ts  |-> now,
   last_direction |-> IF signed_w = 0 THEN "off" ELSE "on",
   last_change_ts |-> IF (signed_w = 0) = (state.last_direction = "off")
                      THEN state.last_change_ts ELSE now]

\* ControlState.record: the change time moves only when the direction does.
Record(state, signed_w, now) ==
  [last_written_w |-> signed_w,
   last_write_ts  |-> now,
   last_direction |-> Direction(signed_w),
   last_change_ts |-> IF Direction(signed_w) = state.last_direction
                      THEN state.last_change_ts ELSE now]

=============================================================================
