----------------------------- MODULE ClosedLoop -----------------------------
(***************************************************************************)
(* KDBrainOptimizationCoordinator (coordinator.py 177-276) between the     *)
(* house and the battery coordinator of BatteryActuation: the optimiser    *)
(* reads the grid meter, which measures the house *and* the battery that   *)
(* its own earlier decisions move.                                         *)
(*                                                                         *)
(* The telemetry coordinator reads all its entities again when one changes *)
(* and the price coordinator polls; both notify the optimiser, which       *)
(* evaluates one snapshot at once or when its debouncer's cooldown ends,   *)
(* and notifies the battery coordinator.  Nothing is awaited on this way:  *)
(* from the notification (`due') to the battery's pass, one thing follows  *)
(* the other.                                                              *)
(***************************************************************************)
EXTENDS BatteryActuation, Optimizer

CONSTANTS
  Loads,          \* what the house may take from the grid without a battery
  Markets         \* what a price series may show, None for no prices

ASSUME LoopAssumption ==
  /\ Loads \subseteq Int
  /\ Markets \subseteq Market \cup {None}

VARIABLES
  load,           \* external: consumption less solar production
  grid,           \* telemetry.data.grid.power_w
  market,         \* what a round would read of price.data now
  optimizer,      \* the optimisation coordinator's request debouncer
  due,            \* whether its listener was just notified
  snapshot        \* history: the SystemState of `decision' and the load then

loopVars == <<load, grid, market, optimizer, due, snapshot>>
allVars  == <<vars, load, grid, market, optimizer, due, snapshot>>

Snapshot ==
  [grid : Int \cup {None}, soc : Readings, market : Markets,
   load : Loads, fresh : BOOLEAN]

LoopTypeOK ==
  /\ TypeOK
  /\ load \in Loads /\ market \in Markets
  /\ grid \in Int \cup {None}
  /\ optimizer \in DebouncerState
  /\ due \in BOOLEAN
  /\ snapshot \in Snapshot \cup {None}

LoopInit ==
  /\ Init
  /\ load \in Loads /\ market \in Markets
  /\ grid \in {load, None}
  /\ optimizer = Quiet /\ due = FALSE
  /\ snapshot = None

-----------------------------------------------------------------------------
\* What the meter at the grid connection shows.
MeterReading == load + device.w

\* build_system_state; `load' and `fresh' are history.
Now == [grid |-> grid, soc |-> soc, market |-> market,
        load |-> load, fresh |-> (grid = MeterReading)]

\* _async_update_data: no decision without prices.
Decide(s) == IF s.market = None THEN None ELSE Optimize(s)

\* One round: it replaces the decision and notifies the battery coordinator.
Round(after) ==
  /\ snapshot' = Now
  /\ optimizer' = after
  /\ NewDecision(Decide(Now))

\* The first refreshes of async_setup_entry, the optimiser's and the battery's.
Start(control_entity) ==
  /\ ~due
  /\ snapshot' = Now
  /\ optimizer' = Quiet
  /\ Setup(Decide(Now), control_entity)
  /\ UNCHANGED <<load, grid, market, due>>

\* _handle_source_change: the meter or the battery reports, and all entities are
\* read again.  An unavailable meter reads as None.  Without an instance this
\* only changes what the next one will read first.
TelemetryChanges(g, s) ==
  /\ ~due
  /\ grid' = g /\ soc' = s
  /\ due' = (phase # "down")
  /\ UNCHANGED <<cycleVars, decision, load, market, optimizer, snapshot>>

\* The price coordinator polled, or was asked to recalculate.
PricesUpdate(m) ==
  /\ ~due
  /\ market' = m
  /\ due' = (phase # "down")
  /\ UNCHANGED <<vars, load, grid, optimizer, snapshot>>

\* The optimiser's listener requests a round.
OptimizerNotified ==
  /\ due /\ due' = FALSE
  /\ IF RunsNow(optimizer, FALSE)
     THEN Round(CoolingDown)
     ELSE /\ optimizer' = Requested(optimizer)
          /\ UNCHANGED <<vars, snapshot>>
  /\ UNCHANGED <<load, grid, market>>

\* The end of the optimiser's cooldown; a queued round reads the present.
OptimizerTimerFires ==
  /\ ~due /\ phase # "down" /\ optimizer.timer
  /\ IF optimizer.again
     THEN Round(CoolingDown)
     ELSE optimizer' = Quiet /\ UNCHANGED <<vars, snapshot>>
  /\ UNCHANGED <<load, grid, market, due>>

\* The house switches something on or off: the meter will tell.
LoadChanges(l) ==
  /\ ~due
  /\ l # load /\ load' = l
  /\ UNCHANGED <<vars, grid, market, optimizer, due, snapshot>>

\* The battery coordinator, its write and its timer.
BatteryStep ==
  /\ ~due
  /\ TimerFires \/ (CycleNext /\ UNCHANGED inputs)
  /\ UNCHANGED loopVars

LoopNext ==
  \/ \E c \in BOOLEAN : Start(c)
  \/ \E s \in Readings : \E g \in {MeterReading, None} : TelemetryChanges(g, s)
  \/ \E m \in Markets : PricesUpdate(m)
  \/ OptimizerNotified
  \/ OptimizerTimerFires
  \/ \E l \in Loads : LoadChanges(l)
  \/ BatteryStep

LoopSpec == LoopInit /\ [][LoopNext]_allVars

-----------------------------------------------------------------------------
\* The optimiser and its inputs are an environment that BatteryActuation allows:
\* every decision it produces is one the gate is specified for, and all that is
\* proved of the battery coordinator holds in the closed loop.
LoopImplementsActuation == Spec

\* Optimiser and gate judge SOC and power by the same options, one round apart:
\* the gate alters a decision only if the SOC changed after it was taken.
GateAltersStaleDecisionsOnly ==
  (decision # None /\ soc = snapshot.soc)
    => SignedPower(decision, soc) = AskedPower(decision)

\* A pass over the newest decision that was not held has been carried out.
CarriedOut ==
  Steering /\ InStep /\ pending = "evaluated" /\ ~data.outcome.held

\* "The reserve is protected, but below peak shaving", at the battery: below the
\* reserve it discharges only if the meter showed an import peak.
ReserveProtected ==
  (/\ CarriedOut /\ "backup_reserve" \in Enabled
   /\ snapshot.soc # None /\ snapshot.soc < ReserveSoc /\ snapshot.soc < MaxSoc
   /\ device.w < 0)
    => /\ "peak_shaving" \in Enabled
       /\ snapshot.grid # None /\ snapshot.grid > PeakImportW

\* "Avoiding a peak outweighs price optimisation", at the battery: an import peak
\* the meter showed is met with the power it takes, as far as the battery's power
\* and the hysteresis permit, whatever the other strategies want.
PeakAnswered ==
  (/\ CarriedOut /\ "peak_shaving" \in Enabled
   /\ snapshot.market # None
   /\ snapshot.grid # None /\ snapshot.grid > PeakImportW
   /\ snapshot.soc # None => snapshot.soc > MinSoc
   /\ data.seen # None => data.seen > MinSoc)
    => device.w <= HysteresisW - Lesser(snapshot.grid - PeakImportW, MaxDischargeW)

\* "Keep PV energy local", as documented: after a round that read an up-to-date
\* meter, a house whose solar surplus the battery can take, and whose load has not
\* changed since, exports no more than the deadband and the hysteresis.
SurplusKeptLocal ==
  (/\ CarriedOut /\ "self_consumption" \in Enabled
   /\ decision # None /\ snapshot.fresh /\ snapshot.load = load
   /\ snapshot.soc # None /\ snapshot.soc < MaxSoc
   /\ -load <= MaxChargeW)
    => -(load + device.w) <= Deadband + HysteresisW

=============================================================================
