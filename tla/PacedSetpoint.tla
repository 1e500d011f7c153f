---------------------------- MODULE PacedSetpoint ----------------------------
(***************************************************************************)
(* What the three coordinators that write setpoints promise, seen from the *)
(* device alone: setpoints it is configured for, and, as long as nothing   *)
(* made the controller lose track of it, a pause before every new setpoint *)
(* (that may be another one for a stop) and a pause before every change of *)
(* direction.                                                              *)
(*                                                                         *)
(* BatteryActuation, EvControl and HeatPumpControl implement this          *)
(* specification (RefinesPacedSetpoint there), with their throttle and     *)
(* dwell, less the latency of one write, for the pauses.                   *)
(***************************************************************************)
EXTENDS Integers

CONSTANTS None,
          Setpoints,     \* those the device is configured for
          WritePause,    \* before a setpoint other than a stop
          StopPause,     \* before a stop
          ChangePause    \* between two changes of direction, stops excepted

VARIABLES clock, setpoint, trusted

pacedVars == <<clock, setpoint, trusted>>

\* For a battery: charging, at rest or discharging.
Side(w) == IF w > 0 THEN 1 ELSE IF w < 0 THEN -1 ELSE 0

Init ==
  /\ clock = 0 /\ trusted = TRUE
  /\ setpoint = [w |-> 0, write_ts |-> None, change_ts |-> None]

Move(w) ==
  setpoint' = [w |-> w, write_ts |-> clock,
               change_ts |-> IF Side(w) = Side(setpoint.w)
                             THEN setpoint.change_ts ELSE clock]

Paused(since, pause) == since # None => clock - since >= pause

\* The controller moves the device on purpose.
Steer(w) ==
  /\ trusted
  /\ Paused(setpoint.write_ts, IF w = 0 THEN StopPause ELSE WritePause)
  /\ Side(w) \notin {0, Side(setpoint.w)} => Paused(setpoint.change_ts, ChangePause)
  /\ Move(w)
  /\ UNCHANGED <<clock, trusted>>

\* Without trust the pauses are gone; the configuration is still respected.
Stray(w) ==
  /\ ~trusted'
  /\ Move(w)
  /\ UNCHANGED clock

LoseTrack == trusted' = FALSE /\ UNCHANGED <<clock, setpoint>>

Advance == clock' = clock + 1 /\ UNCHANGED <<setpoint, trusted>>

Next ==
  \/ \E w \in Setpoints : Steer(w) \/ Stray(w)
  \/ LoseTrack
  \/ Advance

Spec == Init /\ [][Next]_pacedVars

=============================================================================
