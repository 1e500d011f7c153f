----------------------------- MODULE WriteCycle -----------------------------
(***************************************************************************)
(* What the battery, EV and heat pump coordinators of coordinator.py have  *)
(* in common (279-356, mirrored line by line in 359-440 and 443-524): a    *)
(* pass reads its inputs, asks its safety layer for a verdict and, in      *)
(* active mode, writes the setpoint with a blocking number.set_value call, *)
(* which it records when the call has returned.                            *)
(*                                                                         *)
(* The event loop is single-threaded, so a pass is atomic up to its only   *)
(* await, the write.  While the write is outstanding (`flight') time       *)
(* passes, inputs change, and the config entry may be unloaded and set up  *)
(* again, which builds a new coordinator with a fresh ControlState while   *)
(* the old write is still on its way (`orphan').                           *)
(*                                                                         *)
(* The device is external: it takes a setpoint at some moment between the  *)
(* start and the end of the call that carries it, or never if it fails.    *)
(*                                                                         *)
(* BatteryActuation, EvControl and HeatPumpControl extend this module with *)
(* their inputs, their verdicts and the events that request a pass.        *)
(***************************************************************************)
EXTENDS SafetyState, Debouncer

CONSTANTS
  Readings,      \* what the inputs of a pass may read
  MaxLatency,    \* the longest a set_value call stays outstanding
  MaxTime,       \* bound on the clock
  MaxReloads,    \* bound on unload + setup cycles
  MaxFailures    \* bound on failing set_value calls

ASSUME CycleAssumption ==
  /\ MaxLatency \in Nat /\ MaxTime \in Nat
  /\ MaxReloads \in Nat /\ MaxFailures \in Nat

VARIABLES
  now,           \* dt_util.utcnow()
  mode,          \* the control_mode option, read live from the entry
  phase,         \* "down" -> "setup" (first refresh writing) -> "up" (listening)
  configured,    \* whether the coordinator has an actuator with an entity
  state,         \* self._control_state
  debouncer,     \* the coordinator's request debouncer
  flight,        \* this instance's outstanding write, or None
  orphan,        \* an outstanding write of the previous instance, or None
  data,          \* self.data: the last result, or None
  last_update_success,
  device,        \* external: the device's setpoint and when it last moved
  \* History, for the properties only:
  pending,       \* what became of the newest request for a pass
  faults,        \* what may separate device and state, in this instance
  reloads, failures

counters == <<reloads, failures>>
cycleVars == <<now, mode, phase, configured, state, debouncer, flight, orphan,
               data, last_update_success, device, pending, faults, reloads,
               failures>>

Modes  == {"observe_only", "active"}
Phases == {"down", "setup", "up"}
Faults == {"reload",      \* the device's history predates this instance
           "untimed",     \* ... or has moves that the control state does not know
           "unrecorded",  \* a write took effect and then reported an error
           "orphan"}      \* a write of the previous instance took effect

\* A verdict: the approved setpoint; whether a dwell or throttle postponed it;
\* whether it is to be written.
Outcome == [signed_w : Int, held : BOOLEAN, write : BOOLEAN]
Result  == [outcome : Outcome, mode : Modes, written : BOOLEAN, seen : Readings]
Flight  == [w : Int, ts : Int, landed : BOOLEAN, result : Result]
Orphan  == [w : Int, ts : Int, landed : BOOLEAN]
Device  == [w : Int, write_ts : Timestamp, change_ts : Timestamp]

\* Python's None is no record of a write.
ASSUME NoneAssumption == None \notin Flight

CycleTypeOK ==
  /\ now \in Nat
  /\ mode \in Modes /\ phase \in Phases /\ configured \in BOOLEAN
  /\ state \in ControlState
  /\ debouncer \in DebouncerState
  /\ flight \in Flight \cup {None}
  /\ orphan \in Orphan \cup {None}
  /\ data \in Result \cup {None}
  /\ last_update_success \in BOOLEAN
  /\ device \in Device
  /\ pending \in {"evaluated", "queued", "dropped", "unheard"}
  /\ faults \subseteq Faults
  /\ reloads \in Nat /\ failures \in Nat

\* The first setup: nothing written yet and the setpoint at rest.
CycleInit ==
  /\ now = 0
  /\ mode \in Modes /\ phase = "down" /\ configured = FALSE
  /\ state = FreshControlState /\ debouncer = Quiet
  /\ flight = None /\ orphan = None
  /\ data = None /\ last_update_success = TRUE
  /\ device = [w |-> 0, write_ts |-> None, change_ts |-> None]
  /\ pending = "evaluated" /\ faults = {}
  /\ reloads = 0 /\ failures = 0

-----------------------------------------------------------------------------
\* Without the test on the control mode.
MayWriteInAnyMode(outcome) == configured' /\ outcome.write

MayWrite(outcome) == mode = "active" /\ configured' /\ outcome.write

\* _async_update_data from its verdict up to its await.  Verdict and time stamp
\* are fixed here, before the write.  `after' is the debouncer once the refresh
\* has ended, when it ends in this step.
Judged(outcome, reading, after) ==
  LET result == [outcome |-> outcome, mode |-> mode,
                 written |-> MayWrite(outcome), seen |-> reading]
  IN  /\ pending' = "evaluated"
      /\ IF MayWrite(outcome)
         THEN /\ flight' = [w |-> outcome.signed_w, ts |-> now,
                            landed |-> FALSE, result |-> result]
              /\ debouncer' = Quiet
              /\ UNCHANGED <<data, last_update_success>>
         ELSE /\ data' = result /\ last_update_success' = TRUE
              /\ flight' = None /\ debouncer' = after

\* _async_update_data when it has nothing to judge and returns None.
Skipped(after) ==
  /\ pending' = "evaluated"
  /\ data' = None /\ last_update_success' = TRUE
  /\ flight' = None /\ debouncer' = after

\* async_setup_entry, around the new coordinator's first pass: one refresh
\* outside the debouncer, and only then does the coordinator listen.  A write of
\* that refresh keeps it in phase "setup".
NewInstance ==
  /\ phase = "down"
  /\ phase' = IF flight' = None THEN "up" ELSE "setup"
  /\ state' = FreshControlState
  /\ faults' = IF reloads = 0 THEN {} ELSE {"reload"}
  /\ UNCHANGED <<now, mode, orphan, device, counters>>

\* An upstream coordinator notifies its listeners, and the debouncer runs the
\* requested pass at once ...
PassRequested == phase = "up" /\ RunsNow(debouncer, flight # None)

\* ... or only takes note of it.
RequestNotRun ==
  /\ phase # "down"
  /\ debouncer' = IF phase = "up" THEN Requested(debouncer) ELSE debouncer
  /\ pending' = IF phase = "setup" THEN "unheard"
                ELSE IF debouncer'.again THEN "queued" ELSE "dropped"
  /\ UNCHANGED <<configured, data, last_update_success, flight>>

\* The end of the cooldown runs the queued call, unless a call is active.
PassQueued == debouncer.timer /\ debouncer.again /\ flight = None

CooldownEnds ==
  /\ debouncer.timer
  /\ debouncer' = Quiet
  /\ UNCHANGED <<configured, data, last_update_success, flight, pending>>

\* What no request and no timer touches.
InstanceKept == UNCHANGED <<now, mode, phase, state, orphan, device, faults, counters>>

-----------------------------------------------------------------------------
\* What is left after the next write of this instance has taken effect: the
\* device is at its setpoint again, the times stay unknown.
Repaired == faults \ {"unrecorded", "orphan"}

\* No write that nobody recorded was the last to take effect.
InStep == faults = Repaired

\* The device takes setpoint w.
MoveDevice(w) ==
  device' = [w |-> w, write_ts |-> now,
             change_ts |-> IF Direction(w) = Direction(device.w)
                           THEN device.change_ts ELSE now]

WriteLands ==
  /\ flight # None /\ ~flight.landed
  /\ MoveDevice(flight.w)
  /\ flight' = [flight EXCEPT !.landed = TRUE]
  /\ faults' = Repaired
  /\ UNCHANGED <<now, mode, phase, configured, state, debouncer, orphan, data,
                 last_update_success, pending, counters>>

\* The refresh ends: a debounced one starts the cooldown, and the one of the
\* setup lets the coordinator listen.
RefreshEnds ==
  /\ flight' = None
  /\ phase' = "up"
  /\ debouncer' = IF phase = "up" THEN CoolingDown ELSE Quiet
  /\ UNCHANGED <<now, mode, configured, orphan, device, pending, reloads>>

\* The call returns: the write is recorded at the time the pass started.
WriteSucceeds ==
  /\ flight # None /\ flight.landed
  /\ state' = Record(state, flight.w, flight.ts)
  /\ data' = flight.result /\ last_update_success' = TRUE
  /\ RefreshEnds
  /\ UNCHANGED <<faults, failures>>

\* The call raises, and the pass goes on as if it had returned.
WriteFailsUnnoticed ==
  /\ flight # None
  /\ failures < MaxFailures
  /\ failures' = failures + 1
  /\ state' = Record(state, flight.w, flight.ts)
  /\ data' = flight.result /\ last_update_success' = TRUE
  /\ RefreshEnds
  /\ UNCHANGED faults

\* The call raises, before or after the device took the setpoint: nothing is
\* recorded, the previous result stays and the coordinator counts as failed.
WriteFails ==
  /\ flight # None
  /\ failures < MaxFailures
  /\ failures' = failures + 1
  /\ last_update_success' = FALSE
  /\ faults' = IF flight.landed THEN faults \cup {"unrecorded", "untimed"}
                                ELSE faults
  /\ RefreshEnds
  /\ UNCHANGED <<state, data>>

-----------------------------------------------------------------------------
\* async_unload_entry (a reload, a restart): the coordinator and its control
\* state are gone, nothing is written, an outstanding write is not cancelled.
\* Bound: at most one write of an earlier instance is followed.
Unload ==
  /\ phase = "up"
  /\ reloads < MaxReloads /\ orphan = None
  /\ reloads' = reloads + 1
  /\ phase' = "down" /\ configured' = FALSE
  /\ state' = FreshControlState /\ debouncer' = Quiet
  /\ data' = None /\ last_update_success' = TRUE
  /\ orphan' = IF flight = None THEN None
               ELSE [w |-> flight.w, ts |-> flight.ts, landed |-> flight.landed]
  /\ flight' = None
  /\ pending' = "evaluated"
  /\ UNCHANGED <<now, mode, device, faults, failures>>

OrphanLands ==
  /\ orphan # None /\ ~orphan.landed
  /\ MoveDevice(orphan.w)
  /\ orphan' = [orphan EXCEPT !.landed = TRUE]
  /\ faults' = faults \cup {"orphan", "untimed"}
  /\ UNCHANGED <<now, mode, phase, configured, state, debouncer, flight, data,
                 last_update_success, pending, counters>>

\* It returned, or failed, or died with the old process: nobody records it.
OrphanEnds ==
  /\ orphan # None
  /\ orphan' = None
  /\ UNCHANGED <<now, mode, phase, configured, state, debouncer, flight, data,
                 last_update_success, device, pending, faults, counters>>

\* The options are saved: passes read the mode live, before any reload.
ChangeMode(m) ==
  /\ mode' = m /\ m # mode
  /\ UNCHANGED <<now, phase, configured, state, debouncer, flight, orphan, data,
                 last_update_success, device, pending, faults, counters>>

InTime(write) == write # None => now < write.ts + MaxLatency

Tick ==
  /\ now < MaxTime
  /\ InTime(flight) /\ InTime(orphan)
  /\ now' = now + 1
  /\ UNCHANGED <<mode, phase, configured, state, debouncer, flight, orphan, data,
                 last_update_success, device, pending, faults, counters>>

\* Everything that happens without a request for a pass.
CycleNext ==
  \/ WriteLands
  \/ WriteSucceeds
  \/ WriteFails
  \/ Unload
  \/ OrphanLands
  \/ OrphanEnds
  \/ \E m \in Modes : ChangeMode(m)
  \/ Tick

-----------------------------------------------------------------------------
\* The last refresh finished and its result is the coordinator's data.
Settled == phase = "up" /\ flight = None /\ data # None /\ last_update_success

\* ... and it was one that steers the device.
Steering == Settled /\ data.mode = "active" /\ configured

\* The "last actuation" a user sees as written is the setpoint the device
\* holds, failures and reloads included, unless an older instance's late write
\* took effect since; the next write of this instance ends that, too.
ReportedWriteIsOnDevice ==
  (Settled /\ data.written /\ "orphan" \notin faults)
    => device.w = data.outcome.signed_w

\* In observe-only mode no sequence of reloads, requests and timers starts a
\* write.  What still moves the device was on its way before, even if it is an
\* unloaded instance's, and moves it to the setpoint it carried then.
ObserveOnlyNeverWrites ==
  [][mode = "observe_only"
     => /\ flight' # None => flight # None
        /\ device' # device
             => \E write \in {flight, orphan} :
                  write # None /\ ~write.landed /\ device'.w = write.w]_cycleVars

=============================================================================
