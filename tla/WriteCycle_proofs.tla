-------------------------- MODULE WriteCycle_proofs --------------------------
(***************************************************************************)
(* What the cycle of passes, writes, failures and reloads guarantees for   *)
(* every safety layer, every latency and every number of reloads and       *)
(* failures.  The proofs about the three coordinators show that each of    *)
(* their steps is a CycleStep and cite CycleInvStep.                       *)
(*                                                                         *)
(* The argument: compare the device not with the control state but with    *)
(* `Effective', the control state once a write that has already landed     *)
(* will be recorded.  While no fault has separated them, the device and    *)
(* the effective control state agree on the setpoint, on its direction     *)
(* and, up to MaxLatency, on the times of the last write and change.       *)
(***************************************************************************)
EXTENDS WriteCycle, TLAPS

\* Direction labels every setpoint, and tells the sign of it.
LEMMA DirectionSign ==
  ASSUME NEW w \in Int
  PROVE  /\ Direction(w) \in Directions
         /\ Direction(w) = "charge" <=> w > 0
         /\ Direction(w) = "discharge" <=> w < 0
         /\ Direction(w) = "idle" <=> w = 0
  BY DEF Direction, Directions

\* record() keeps the control state well formed.
LEMMA RecordType ==
  ASSUME NEW s \in ControlState, NEW w \in Int, NEW ts \in Int
  PROVE  Record(s, w, ts) \in ControlState
<1>1. Direction(w) \in Directions
  BY DirectionSign
<1>. QED
  BY <1>1 DEF Record, ControlState, Timestamp

LEMMA FreshControlStateType == FreshControlState \in ControlState
  BY DEF FreshControlState, ControlState, Timestamp, Directions

LEMMA DebouncerTypes ==
  /\ Quiet \in DebouncerState
  /\ CoolingDown \in DebouncerState
  /\ \A b \in DebouncerState : Requested(b) \in DebouncerState
  BY DEF Quiet, CoolingDown, Requested, DebouncerState

-----------------------------------------------------------------------------
\* A pass ends in one of two ways: it starts a write ...
WriteStarted ==
  /\ mode = "active"
  /\ flight' \in Flight
  /\ ~flight'.landed /\ flight'.ts = now
  /\ flight'.w = flight'.result.outcome.signed_w
  /\ debouncer' = Quiet
  /\ UNCHANGED <<data, last_update_success>>

\* ... or it is over in the same step, without one.
PassEnded(after) ==
  /\ flight' = None /\ debouncer' = after /\ last_update_success' = TRUE
  /\ data' \in Result \cup {None}
  /\ data' # None => ~data'.written

LEMMA JudgedCases ==
  ASSUME CycleTypeOK, NEW outcome \in Outcome, NEW reading \in Readings,
         NEW after, configured' \in BOOLEAN, Judged(outcome, reading, after)
  PROVE  /\ pending' = "evaluated"
         /\ \/ /\ WriteStarted
               /\ MayWrite(outcome)
               /\ flight'.result.outcome = outcome
               /\ flight'.result.seen = reading
            \/ /\ PassEnded(after)
               /\ ~MayWrite(outcome)
               /\ data' # None => /\ data'.outcome = outcome
                                  /\ data'.mode = mode
                                  /\ data'.seen = reading
<1> DEFINE result == [outcome |-> outcome, mode |-> mode,
                      written |-> MayWrite(outcome), seen |-> reading]
<1>1. mode \in Modes /\ now \in Int
  BY DEF CycleTypeOK
<1>2. MayWrite(outcome) \in BOOLEAN
  BY DEF MayWrite
<1>3. result \in Result
  BY <1>1, <1>2 DEF Result
<1>4. CASE MayWrite(outcome)
  <2>1. /\ flight' = [w |-> outcome.signed_w, ts |-> now, landed |-> FALSE,
                      result |-> result]
        /\ debouncer' = Quiet /\ UNCHANGED <<data, last_update_success>>
        /\ pending' = "evaluated"
    BY <1>4 DEF Judged
  <2>2. outcome.signed_w \in Int
    BY DEF Outcome
  <2>3. flight' \in Flight
    BY <1>1, <1>3, <2>1, <2>2 DEF Flight
  <2>. QED
    BY <1>4, <2>1, <2>3 DEF WriteStarted, MayWrite
<1>5. CASE ~MayWrite(outcome)
  <2>1. /\ flight' = None /\ debouncer' = after /\ last_update_success' = TRUE
        /\ data' = result /\ pending' = "evaluated"
    BY <1>5 DEF Judged
  <2>. QED
    BY <1>3, <1>5, <2>1 DEF PassEnded
<1>. QED
  BY <1>4, <1>5

LEMMA SkippedCases ==
  ASSUME NEW after, Skipped(after)
  PROVE  pending' = "evaluated" /\ PassEnded(after) /\ data' = None
  BY DEF Skipped, PassEnded

-----------------------------------------------------------------------------
\* Steps sorted by what they do to the instance: its first refresh ...
FirstRefresh ==
  /\ NewInstance /\ configured' \in BOOLEAN /\ pending' = "evaluated"
  /\ WriteStarted \/ PassEnded(Quiet)

\* ... a later refresh, at a request or at the end of a cooldown ...
Refresh ==
  /\ phase = "up" /\ flight = None /\ pending' = "evaluated"
  /\ InstanceKept /\ configured' = configured
  /\ WriteStarted \/ PassEnded(CoolingDown)

\* ... a request that is not run at once, or a cooldown with nothing queued ...
Request ==
  /\ InstanceKept
  /\ \/ RequestNotRun /\ ~PassRequested
     \/ CooldownEnds /\ ~PassQueued

\* ... a change of the inputs alone, and the steps of CycleNext.
CycleStep ==
  FirstRefresh \/ Refresh \/ Request \/ UNCHANGED cycleVars \/ CycleNext

\* What happens around the instance.
Surroundings ==
  /\ UNCHANGED <<phase, configured, state, debouncer, flight, data,
                 last_update_success, device, pending, faults, reloads, failures>>
  /\ orphan' \in {orphan, None}
  /\ mode' \in {mode} \cup Modes
  /\ \/ now' = now
     \/ now' = now + 1 /\ InTime(flight)

LEMMA CycleNextCases ==
  ASSUME UNCHANGED cycleVars \/ CycleNext
  PROVE  \/ Surroundings \/ WriteLands \/ WriteSucceeds \/ WriteFails
         \/ Unload \/ OrphanLands
<1>1. CASE UNCHANGED cycleVars
  BY <1>1 DEF cycleVars, Surroundings
<1>2. CASE OrphanEnds
  BY <1>2 DEF OrphanEnds, Surroundings, counters
<1>3. ASSUME NEW m \in Modes, ChangeMode(m)
      PROVE  Surroundings
  BY <1>3 DEF ChangeMode, Surroundings, counters
<1>4. CASE Tick
  BY <1>4 DEF Tick, Surroundings, counters
<1>. QED
  BY <1>1, <1>2, <1>3, <1>4 DEF CycleNext

LEMMA StepCases ==
  ASSUME CycleStep
  PROVE  \/ FirstRefresh \/ Refresh \/ Request \/ Surroundings
         \/ WriteLands \/ WriteSucceeds \/ WriteFails \/ Unload \/ OrphanLands
  BY CycleNextCases DEF CycleStep

-----------------------------------------------------------------------------
Effective ==
  IF flight # None /\ flight.landed THEN Record(state, flight.w, flight.ts)
                                    ELSE state

\* A time the device moved is at most MaxLatency later than the recorded one.
Follows(moved, recorded) ==
  IF recorded = None THEN moved = None
  ELSE moved \in Int /\ moved <= recorded + MaxLatency

\* Requests: the debouncer is quiet while a write is outstanding, and a queued
\* request has its timer.
RequestInv ==
  /\ debouncer.timer => phase = "up"
  /\ debouncer.again => debouncer.timer
  /\ flight # None => debouncer = Quiet
  /\ pending = "queued" => debouncer.timer /\ debouncer.again

\* An outstanding write is in time and carries its own verdict.
FlightInv ==
  flight # None =>
    /\ phase # "down"
    /\ flight.ts <= now /\ now <= flight.ts + MaxLatency
    /\ flight.w = flight.result.outcome.signed_w

\* Without an instance there is no result.  Before the first setup nothing has
\* moved or gone wrong, and only an unload leaves an orphan.
OriginInv ==
  /\ phase = "down" => data = None
  /\ reloads = 0 =>
       /\ orphan = None
       /\ phase = "down" =>
            /\ device = [w |-> 0, write_ts |-> None, change_ts |-> None]
            /\ faults = {}

\* The device moved in the past.
ClockInv == device.write_ts # None => device.write_ts <= now

SetpointInv ==
  (phase # "down" /\ InStep
     /\ Effective.last_written_w # None)
    => device.w = Effective.last_written_w

\* A write that was not recorded leaves the times unknown, also when the next one
\* has brought the device back in step.
FaultInv == ~InStep => "untimed" \in faults

HistoryInv ==
  (phase # "down" /\ faults = {}) =>
    /\ Direction(device.w) = Effective.last_direction
    /\ Follows(device.write_ts, Effective.last_write_ts)
    /\ Follows(device.change_ts, Effective.last_change_ts)

\* The recorded direction is the direction of the recorded setpoint.
RecordInv ==
  state.last_written_w # None
    => state.last_direction = Direction(state.last_written_w)

\* What a pass reported as written, or is about to, is on the device.
ReportInv ==
  (phase # "down" /\ "orphan" \notin faults) =>
    /\ (flight # None /\ flight.landed) => device.w = flight.w
    /\ (flight = None /\ data # None /\ last_update_success /\ data.written)
         => device.w = data.outcome.signed_w

CycleInv ==
  /\ CycleTypeOK
  /\ RequestInv
  /\ FlightInv
  /\ OriginInv
  /\ ClockInv
  /\ SetpointInv
  /\ FaultInv
  /\ HistoryInv
  /\ RecordInv
  /\ ReportInv

LEMMA CycleInvInit == CycleInit => CycleInv
<1> SUFFICES ASSUME CycleInit PROVE CycleInv
  OBVIOUS
<1>1. device \in Device /\ state \in ControlState /\ debouncer \in DebouncerState
  BY DebouncerTypes, FreshControlStateType DEF CycleInit, Device, Timestamp
<1>2. CycleTypeOK
  BY <1>1 DEF CycleInit, CycleTypeOK, Phases
<1>. QED
  BY <1>2 DEF CycleInit, CycleInv, RequestInv, FlightInv, OriginInv, ClockInv,
              SetpointInv, FaultInv, HistoryInv, RecordInv, ReportInv, Quiet,
              FreshControlState, InStep, Repaired

-----------------------------------------------------------------------------
\* The device's record stays well formed.
LEMMA MoveDeviceType ==
  ASSUME CycleTypeOK, NEW w \in Int, MoveDevice(w)
  PROVE  device' \in Device
  BY DEF MoveDevice, CycleTypeOK, Device, Timestamp

\* Every step keeps the types.
LEMMA CycleTypeStep ==
  ASSUME CycleTypeOK, CycleStep
  PROVE  CycleTypeOK'
<1>1. CASE FirstRefresh
  <2>1. CASE WriteStarted
    BY <1>1, <2>1, DebouncerTypes, FreshControlStateType
       DEF FirstRefresh, NewInstance, WriteStarted, CycleTypeOK, Phases, Faults,
           counters
  <2>2. CASE PassEnded(Quiet)
    BY <1>1, <2>2, DebouncerTypes, FreshControlStateType
       DEF FirstRefresh, NewInstance, PassEnded, CycleTypeOK, Phases, Faults,
           counters
  <2>. QED
    BY <1>1, <2>1, <2>2 DEF FirstRefresh
<1>2. CASE Refresh
  <2>1. CASE WriteStarted
    BY <1>2, <2>1, DebouncerTypes
       DEF Refresh, InstanceKept, WriteStarted, CycleTypeOK, counters
  <2>2. CASE PassEnded(CoolingDown)
    BY <1>2, <2>2, DebouncerTypes
       DEF Refresh, InstanceKept, PassEnded, CycleTypeOK, counters
  <2>. QED
    BY <1>2, <2>1, <2>2 DEF Refresh
<1>3. CASE Request
  BY <1>3, DebouncerTypes
     DEF Request, RequestNotRun, CooldownEnds, InstanceKept, CycleTypeOK, counters
<1>4. CASE Surroundings
  BY <1>4 DEF Surroundings, CycleTypeOK
<1>5. CASE WriteLands
  <2>1. flight \in Flight
    BY <1>5 DEF WriteLands, CycleTypeOK
  <2>2. flight.w \in Int /\ flight' \in Flight
    BY <1>5, <2>1 DEF WriteLands, Flight
  <2>3. device' \in Device
    BY <1>5, <2>2, MoveDeviceType DEF WriteLands
  <2>. QED
    BY <1>5, <2>2, <2>3 DEF WriteLands, Repaired, CycleTypeOK, counters
<1>6. CASE WriteSucceeds
  <2>1. flight \in Flight
    BY <1>6 DEF WriteSucceeds, CycleTypeOK
  <2>2. flight.w \in Int /\ flight.ts \in Int /\ flight.result \in Result
    BY <2>1 DEF Flight
  <2>3. state' \in ControlState
    BY <1>6, <2>2, RecordType DEF WriteSucceeds, CycleTypeOK
  <2>. QED
    BY <1>6, <2>2, <2>3, DebouncerTypes
       DEF WriteSucceeds, RefreshEnds, CycleTypeOK, Phases
<1>7. CASE WriteFails
  <2>1. faults' \subseteq Faults /\ failures' \in Nat
    BY <1>7 DEF WriteFails, CycleTypeOK, Faults
  <2>2. debouncer' \in DebouncerState /\ phase' \in Phases /\ flight' = None
    BY <1>7, DebouncerTypes DEF WriteFails, RefreshEnds, Phases
  <2>. QED
    BY <1>7, <2>1, <2>2 DEF WriteFails, RefreshEnds, CycleTypeOK
<1>8. CASE Unload
  <2>1. flight # None =>
          [w |-> flight.w, ts |-> flight.ts, landed |-> flight.landed] \in Orphan
    BY DEF CycleTypeOK, Flight, Orphan
  <2>2. orphan' \in Orphan \cup {None}
    BY <1>8, <2>1 DEF Unload
  <2>3. /\ state' \in ControlState /\ debouncer' \in DebouncerState
        /\ phase' \in Phases /\ reloads' \in Nat
    BY <1>8, DebouncerTypes, FreshControlStateType DEF Unload, CycleTypeOK, Phases
  <2>. QED
    BY <1>8, <2>2, <2>3 DEF Unload, CycleTypeOK
<1>9. CASE OrphanLands
  <2>1. orphan \in Orphan
    BY <1>9 DEF OrphanLands, CycleTypeOK
  <2>2. orphan.w \in Int /\ orphan' \in Orphan
    BY <1>9, <2>1 DEF OrphanLands, Orphan
  <2>3. device' \in Device
    BY <1>9, <2>2, MoveDeviceType DEF OrphanLands
  <2>. QED
    BY <1>9, <2>2, <2>3 DEF OrphanLands, CycleTypeOK, Faults, counters
<1>. QED
  BY <1>1, <1>2, <1>3, <1>4, <1>5, <1>6, <1>7, <1>8, <1>9, StepCases

-----------------------------------------------------------------------------
\* The debouncer after each kind of request and refresh.
LEMMA DebouncerSteps ==
  /\ Quiet.timer = FALSE /\ Quiet.again = FALSE
  /\ CoolingDown.timer = TRUE /\ CoolingDown.again = FALSE
  /\ \A b \in DebouncerState :
        /\ b.timer => Requested(b).timer /\ Requested(b).again
        /\ ~b.timer => Requested(b) = b
  BY DEF Quiet, CoolingDown, Requested, DebouncerState

LEMMA RequestStep ==
  ASSUME CycleTypeOK, RequestInv, CycleStep
  PROVE  RequestInv'
<1>. USE NoneAssumption DEF RequestInv
<1>0. debouncer \in DebouncerState /\ debouncer.timer \in BOOLEAN
      /\ debouncer.again \in BOOLEAN
  BY DEF CycleTypeOK, DebouncerState
<1>1. CASE FirstRefresh
  BY <1>1, DebouncerSteps DEF FirstRefresh, NewInstance, WriteStarted, PassEnded
<1>2. CASE Refresh
  BY <1>2, DebouncerSteps DEF Refresh, InstanceKept, WriteStarted, PassEnded
<1>3. CASE Request
  <2>1. CASE RequestNotRun /\ phase = "up" /\ ~PassRequested
    BY <1>0, <1>3, <2>1, DebouncerSteps
       DEF Request, RequestNotRun, InstanceKept, PassRequested, RunsNow
  <2>2. CASE RequestNotRun /\ phase = "setup"
    BY <1>0, <1>3, <2>2 DEF Request, RequestNotRun, InstanceKept
  <2>3. CASE CooldownEnds /\ ~PassQueued
    BY <1>0, <1>3, <2>3, DebouncerSteps
       DEF Request, CooldownEnds, InstanceKept, PassQueued
  <2>. QED
    BY <1>3, <2>1, <2>2, <2>3 DEF Request, RequestNotRun, CycleTypeOK, Phases
<1>4. CASE Surroundings
  BY <1>4 DEF Surroundings
<1>5. CASE WriteLands
  BY <1>5 DEF WriteLands
<1>6. CASE WriteSucceeds
  BY <1>6, DebouncerSteps DEF WriteSucceeds, RefreshEnds
<1>7. CASE WriteFails
  BY <1>7, DebouncerSteps DEF WriteFails, RefreshEnds
<1>8. CASE Unload
  BY <1>8, DebouncerSteps DEF Unload
<1>9. CASE OrphanLands
  BY <1>9 DEF OrphanLands
<1>. QED
  BY <1>1, <1>2, <1>3, <1>4, <1>5, <1>6, <1>7, <1>8, <1>9, StepCases

\* A write keeps what made it admissible until it is over.
LEMMA FlightStep ==
  ASSUME CycleTypeOK, RequestInv, FlightInv, CycleStep
  PROVE  FlightInv'
<1>. USE NoneAssumption, CycleAssumption DEF FlightInv
<1>0. now \in Int /\ MaxLatency \in Nat
  BY DEF CycleTypeOK
<1>1. CASE FirstRefresh
  BY <1>0, <1>1 DEF FirstRefresh, NewInstance, WriteStarted, PassEnded
<1>2. CASE Refresh
  BY <1>0, <1>2 DEF Refresh, InstanceKept, WriteStarted, PassEnded
<1>3. CASE Request
  BY <1>3 DEF Request, RequestNotRun, CooldownEnds, InstanceKept
<1>4. CASE Surroundings
  <2>1. flight # None => flight.ts \in Int
    BY DEF CycleTypeOK, Flight
  <2>2. flight # None => phase' # "down" /\ flight.ts <= now'
                         /\ now' <= flight.ts + MaxLatency
    BY <1>0, <1>4, <2>1 DEF Surroundings, InTime
  <2>. QED
    BY <1>4, <2>2 DEF Surroundings
<1>5. CASE WriteLands
  <2>1. /\ flight # None /\ flight \in Flight
        /\ flight' = [flight EXCEPT !.landed = TRUE]
        /\ UNCHANGED <<now, phase, state>>
    BY <1>5 DEF WriteLands, CycleTypeOK
  <2>2. /\ flight'.w = flight.w /\ flight'.ts = flight.ts
        /\ flight'.result = flight.result
    BY <2>1 DEF Flight
  <2>. QED
    BY <2>1, <2>2
<1>6. CASE WriteSucceeds
  BY <1>6 DEF WriteSucceeds, RefreshEnds
<1>7. CASE WriteFails
  BY <1>7 DEF WriteFails, RefreshEnds
<1>8. CASE Unload
  BY <1>8 DEF Unload
<1>9. CASE OrphanLands
  BY <1>9 DEF OrphanLands
<1>. QED
  BY <1>1, <1>2, <1>3, <1>4, <1>5, <1>6, <1>7, <1>8, <1>9, StepCases

LEMMA OriginStep ==
  ASSUME CycleTypeOK, RequestInv, FlightInv, OriginInv, CycleStep
  PROVE  OriginInv'
<1>. USE DEF OriginInv
<1>1. CASE FirstRefresh
  BY <1>1 DEF FirstRefresh, NewInstance, counters
<1>2. CASE Refresh
  BY <1>2 DEF Refresh, InstanceKept, counters
<1>3. CASE Request
  BY <1>3 DEF Request, RequestNotRun, CooldownEnds, InstanceKept, counters
<1>4. CASE Surroundings
  BY <1>4 DEF Surroundings
<1>5. CASE WriteLands
  BY <1>5 DEF WriteLands, FlightInv, counters
<1>6. CASE WriteSucceeds
  BY <1>6 DEF WriteSucceeds, RefreshEnds
<1>7. CASE WriteFails
  BY <1>7 DEF WriteFails, RefreshEnds
<1>8. CASE Unload
  BY <1>8 DEF Unload, CycleTypeOK
<1>9. CASE OrphanLands
  BY <1>9 DEF OrphanLands, counters
<1>. QED
  BY <1>1, <1>2, <1>3, <1>4, <1>5, <1>6, <1>7, <1>8, <1>9, StepCases

LEMMA ClockStep ==
  ASSUME CycleTypeOK, ClockInv, CycleStep
  PROVE  ClockInv'
<1>1. CASE UNCHANGED device
  <2>1. now' \in {now, now + 1}
    BY StepCases
       DEF FirstRefresh, NewInstance, Refresh, Request, InstanceKept, Surroundings,
           WriteLands, WriteSucceeds, WriteFails, RefreshEnds, Unload, OrphanLands
  <2>. QED
    BY <1>1, <2>1 DEF ClockInv, CycleTypeOK, Device, Timestamp
<1>2. CASE (WriteLands \/ OrphanLands)
  BY <1>2 DEF WriteLands, OrphanLands, MoveDevice, ClockInv, CycleTypeOK
<1>3. CASE ~(WriteLands \/ OrphanLands)
  <2>1. UNCHANGED device
    BY <1>3, StepCases
       DEF FirstRefresh, NewInstance, Refresh, Request, InstanceKept, Surroundings,
           WriteSucceeds, WriteFails, RefreshEnds, Unload
  <2>. QED
    BY <1>1, <2>1
<1>. QED
  BY <1>2, <1>3

-----------------------------------------------------------------------------
LEMMA EffectiveSteps ==
  ASSUME CycleTypeOK, RequestInv, CycleStep
  PROVE  /\ FirstRefresh => Effective' = FreshControlState
         /\ Refresh \/ Request \/ Surroundings \/ OrphanLands
              => Effective' = Effective
         /\ WriteLands => /\ Effective = state
                          /\ Effective' = Record(state, flight.w, flight.ts)
         /\ WriteSucceeds => Effective' = Effective
         /\ WriteFails => Effective' = state
<1>. USE NoneAssumption DEF Effective
<1>1. FirstRefresh => Effective' = FreshControlState
  BY DEF FirstRefresh, NewInstance, WriteStarted, PassEnded
<1>2. Refresh => Effective' = Effective
  BY DEF Refresh, InstanceKept, WriteStarted, PassEnded
<1>3. Request => Effective' = Effective
  BY DEF Request, RequestNotRun, CooldownEnds, InstanceKept
<1>4. Surroundings => Effective' = Effective
  BY DEF Surroundings
<1>5. OrphanLands => Effective' = Effective
  BY DEF OrphanLands
<1>6. WriteLands => /\ Effective = state
                    /\ Effective' = Record(state, flight.w, flight.ts)
  <2> SUFFICES ASSUME WriteLands
               PROVE  /\ Effective = state
                      /\ Effective' = Record(state, flight.w, flight.ts)
    OBVIOUS
  <2>1. /\ flight # None /\ ~flight.landed /\ flight \in Flight
        /\ flight' = [flight EXCEPT !.landed = TRUE] /\ state' = state
    BY DEF WriteLands, CycleTypeOK
  <2>2. /\ flight'.w = flight.w /\ flight'.ts = flight.ts /\ flight'.landed
        /\ flight' \in Flight
    BY <2>1 DEF Flight
  <2>. QED
    BY <2>1, <2>2
<1>7. WriteSucceeds => Effective' = Effective
  BY DEF WriteSucceeds, RefreshEnds
<1>8. WriteFails => Effective' = state
  BY DEF WriteFails, RefreshEnds
<1>. QED
  BY <1>1, <1>2, <1>3, <1>4, <1>5, <1>6, <1>7, <1>8

LEMMA FaultStep ==
  ASSUME CycleTypeOK, FaultInv, CycleStep
  PROVE  FaultInv'
<1>. USE DEF FaultInv, InStep, Repaired
<1>1. CASE FirstRefresh
  BY <1>1 DEF FirstRefresh, NewInstance
<1>2. CASE Refresh \/ Request
  BY <1>2 DEF Refresh, Request, InstanceKept
<1>3. CASE Surroundings \/ Unload \/ WriteSucceeds
  BY <1>3 DEF Surroundings, Unload, WriteSucceeds
<1>4. CASE WriteLands
  BY <1>4 DEF WriteLands
<1>5. CASE WriteFails
  BY <1>5 DEF WriteFails
<1>6. CASE OrphanLands
  BY <1>6 DEF OrphanLands
<1>. QED
  BY <1>1, <1>2, <1>3, <1>4, <1>5, <1>6, StepCases

LEMMA SetpointStep ==
  ASSUME CycleTypeOK, RequestInv, FlightInv, SetpointInv, CycleStep
  PROVE  SetpointInv'
<1>. USE EffectiveSteps DEF SetpointInv, InStep, Repaired
<1>1. CASE FirstRefresh
  BY <1>1 DEF FirstRefresh, NewInstance, FreshControlState
<1>2. CASE Refresh
  BY <1>2 DEF Refresh, InstanceKept
<1>3. CASE Request
  BY <1>3 DEF Request, RequestNotRun, CooldownEnds, InstanceKept
<1>4. CASE Surroundings
  BY <1>4 DEF Surroundings
<1>5. CASE WriteLands
  BY <1>5 DEF WriteLands, MoveDevice, Record
<1>6. CASE WriteSucceeds
  BY <1>6 DEF WriteSucceeds, RefreshEnds, FlightInv
<1>7. CASE WriteFails
  <2>1. CASE flight.landed
    BY <1>7, <2>1 DEF WriteFails, RefreshEnds
  <2>2. CASE ~flight.landed
    BY <1>7, <2>2 DEF WriteFails, RefreshEnds, FlightInv, Effective
  <2>. QED
    BY <2>1, <2>2
<1>8. CASE Unload
  BY <1>8 DEF Unload
<1>9. CASE OrphanLands
  BY <1>9 DEF OrphanLands
<1>. QED
  BY <1>1, <1>2, <1>3, <1>4, <1>5, <1>6, <1>7, <1>8, <1>9, StepCases

\* Recording a write in the control state and moving the battery keep them in
\* step: directions equal, recorded times at most MaxLatency behind.
LEMMA HistoryStep ==
  ASSUME CycleTypeOK, RequestInv, FlightInv, OriginInv, FaultInv, HistoryInv,
         CycleStep
  PROVE  HistoryInv'
<1>. USE EffectiveSteps DEF HistoryInv
<1>1. CASE FirstRefresh
  BY <1>1, DirectionSign
     DEF FirstRefresh, NewInstance, FreshControlState, OriginInv, Follows
<1>2. CASE Refresh
  BY <1>2 DEF Refresh, InstanceKept
<1>3. CASE Request
  BY <1>3 DEF Request, RequestNotRun, CooldownEnds, InstanceKept
<1>4. CASE Surroundings
  BY <1>4 DEF Surroundings
<1>5. CASE WriteLands
  <2>1. /\ flight \in Flight /\ flight # None /\ now \in Int
        /\ state \in ControlState /\ device \in Device
    BY <1>5 DEF WriteLands, CycleTypeOK
  <2>2. flight.ts \in Int /\ now <= flight.ts + MaxLatency /\ phase # "down"
    BY <2>1 DEF FlightInv, Flight
  <2>3. flight.ts # None
    BY <2>2, StateAssumption
  <2>4. SUFFICES ASSUME faults' = {}
                 PROVE  HistoryInv'
    OBVIOUS
  <2>5. faults = {}
    BY <1>5, <2>4 DEF WriteLands, FaultInv, InStep, Repaired
  <2>6. /\ Direction(device.w) = state.last_direction
        /\ Follows(device.change_ts, state.last_change_ts)
    BY <1>5, <2>2, <2>5
  <2>7. /\ device'.w = flight.w /\ device'.write_ts = now
        /\ device'.change_ts = IF Direction(flight.w) = Direction(device.w)
                               THEN device.change_ts ELSE now
    BY <1>5 DEF WriteLands, MoveDevice
  <2>8. /\ Effective'.last_direction = Direction(flight.w)
        /\ Effective'.last_write_ts = flight.ts
        /\ Effective'.last_change_ts =
             IF Direction(flight.w) = state.last_direction
             THEN state.last_change_ts ELSE flight.ts
    BY <1>5 DEF Record
  <2>9. Follows(device'.write_ts, Effective'.last_write_ts)
    BY <2>1, <2>2, <2>3, <2>7, <2>8 DEF Follows
  <2>10. Follows(device'.change_ts, Effective'.last_change_ts)
    BY <2>1, <2>2, <2>3, <2>6, <2>7, <2>8 DEF Follows
  <2>. QED
    BY <2>7, <2>8, <2>9, <2>10
<1>6. CASE WriteSucceeds
  BY <1>6 DEF WriteSucceeds, RefreshEnds, FlightInv
<1>7. CASE WriteFails
  <2>1. CASE flight.landed
    BY <1>7, <2>1 DEF WriteFails, RefreshEnds
  <2>2. CASE ~flight.landed
    BY <1>7, <2>2 DEF WriteFails, RefreshEnds, FlightInv, Effective
  <2>. QED
    BY <2>1, <2>2
<1>8. CASE Unload
  BY <1>8 DEF Unload
<1>9. CASE OrphanLands
  BY <1>9 DEF OrphanLands
<1>. QED
  BY <1>1, <1>2, <1>3, <1>4, <1>5, <1>6, <1>7, <1>8, <1>9, StepCases

LEMMA RecordStep ==
  ASSUME CycleTypeOK, RequestInv, RecordInv, CycleStep
  PROVE  RecordInv'
<1>. USE DEF RecordInv
<1>1. CASE FirstRefresh
  BY <1>1 DEF FirstRefresh, NewInstance, FreshControlState
<1>2. CASE WriteSucceeds
  BY <1>2 DEF WriteSucceeds, RefreshEnds, Record
<1>3. CASE Unload
  BY <1>3 DEF Unload, FreshControlState
<1>4. ASSUME \/ Refresh \/ Request \/ Surroundings
             \/ WriteLands \/ WriteFails \/ OrphanLands
      PROVE  RecordInv'
  BY <1>4 DEF Refresh, Request, RequestNotRun, CooldownEnds, InstanceKept, Surroundings,
         WriteLands, WriteFails, OrphanLands
<1>. QED
  BY <1>1, <1>2, <1>3, <1>4, StepCases

LEMMA ReportStep ==
  ASSUME CycleTypeOK, RequestInv, FlightInv, OriginInv, ReportInv, CycleStep
  PROVE  ReportInv'
<1>. USE NoneAssumption DEF ReportInv
<1>1. CASE FirstRefresh
  BY <1>1 DEF FirstRefresh, NewInstance, WriteStarted, PassEnded
<1>2. CASE Refresh
  BY <1>2 DEF Refresh, InstanceKept, WriteStarted, PassEnded
<1>3. CASE Request
  BY <1>3 DEF Request, RequestNotRun, CooldownEnds, InstanceKept
<1>4. CASE Surroundings
  BY <1>4 DEF Surroundings
<1>5. CASE WriteLands
  <2>1. /\ flight' = [flight EXCEPT !.landed = TRUE] /\ flight \in Flight
        /\ device'.w = flight.w
    BY <1>5 DEF WriteLands, MoveDevice, CycleTypeOK
  <2>2. flight'.w = flight.w /\ flight' \in Flight
    BY <2>1 DEF Flight
  <2>. QED
    BY <1>5, <2>1, <2>2
<1>6. CASE WriteSucceeds
  BY <1>6 DEF WriteSucceeds, RefreshEnds, FlightInv
<1>7. CASE WriteFails
  BY <1>7 DEF WriteFails, RefreshEnds
<1>8. CASE Unload
  BY <1>8 DEF Unload
<1>9. CASE OrphanLands
  BY <1>9 DEF OrphanLands
<1>. QED
  BY <1>1, <1>2, <1>3, <1>4, <1>5, <1>6, <1>7, <1>8, <1>9, StepCases

LEMMA CycleInvStep ==
  ASSUME CycleInv, CycleStep
  PROVE  CycleInv'
  BY CycleTypeStep, RequestStep, FlightStep, OriginStep, ClockStep,
     SetpointStep, FaultStep, HistoryStep, RecordStep, ReportStep DEF CycleInv

\* In observe-only mode no write starts, and the device moves to the setpoint of
\* one that was under way.
LEMMA ObserveOnlyStep ==
  ASSUME CycleStep, mode = "observe_only"
  PROVE  /\ flight' # None => flight # None
         /\ device' # device
              => \E write \in {flight, orphan} :
                   write # None /\ ~write.landed /\ device'.w = write.w
<1>1. CASE FirstRefresh
  BY <1>1 DEF FirstRefresh, NewInstance, WriteStarted, PassEnded
<1>2. CASE Refresh
  BY <1>2 DEF Refresh, InstanceKept, WriteStarted, PassEnded
<1>3. CASE Request
  BY <1>3 DEF Request, RequestNotRun, CooldownEnds, InstanceKept
<1>4. CASE Surroundings
  BY <1>4 DEF Surroundings
<1>5. CASE WriteLands
  BY <1>5 DEF WriteLands, MoveDevice
<1>6. CASE WriteSucceeds \/ WriteFails
  BY <1>6 DEF WriteSucceeds, WriteFails, RefreshEnds
<1>7. CASE OrphanLands
  BY <1>7 DEF OrphanLands, MoveDevice
<1>8. CASE Unload
  BY <1>8 DEF Unload
<1>. QED
  BY <1>1, <1>2, <1>3, <1>4, <1>5, <1>6, <1>7, <1>8, StepCases

=============================================================================
