---------------------------- MODULE TelemetryFeed ----------------------------
(***************************************************************************)
(* KDBrainTelemetryCoordinator (coordinator.py 134-174) and the rounds of  *)
(* KDBrainOptimizationCoordinator (252-276) as far as they depend on what  *)
(* has been read: the path from the state of an entity to the decision.    *)
(*                                                                         *)
(* The telemetry coordinator does not poll.  It reads all its entities     *)
(* when one of those it tracks changes, and notifies the optimiser, which  *)
(* asks its debouncer for a round; the optimiser tracks the entities of    *)
(* the forecast itself, but reads them in its rounds only.  A round awaits *)
(* nothing.  Both are built from the options at setup, which OptionsFlow   *)
(* changes at any time; the prices are there (PriceFeed).                  *)
(***************************************************************************)
EXTENDS OptionsFlow, Debouncer

CONSTANTS
  EntityStates,   \* per entity the states it may have
  MaxSaves        \* bound on saved changes of the options

ASSUME FeedAssumption ==
  /\ \A e \in Entities : EntityStates[e] \subseteq EntityState \cup {None}
  /\ MaxSaves \in Nat

VARIABLES
  states,      \* hass.states
  phase,       \* of the entry, see below
  built,       \* the sources adapter and forecaster were built from
  telemetry,   \* telemetry_coordinator.data
  optimizer,   \* the optimisation coordinator's request debouncer
  round,       \* history: what the newest decision was made from
  reload,      \* whether a reload waits
  missed,      \* history: whether options were saved while nobody listened
  saves        \* history, for the bound only

instanceVars == <<phase, built, telemetry, optimizer, round>>
vars == <<options, form, states, instanceVars, reload, missed, saves>>

\* In "starting" the coordinators run, while async_setup_entry awaits first writes
\* and platforms; the update listener is registered in "up".
Phases == {"down", "starting", "up"}

Running == phase # "down"

\* What a round reads now: telemetry.data, and the entities of the forecast.
Inputs == [telemetry |-> telemetry, forecast |-> Predict(built, states)]

TypeOK ==
  /\ OptionsTypeOK
  /\ states \in [Entities -> UNION {EntityStates[e] : e \in Entities}]
  /\ \A e \in Entities : states[e] \in EntityStates[e]
  /\ phase \in Phases
  /\ built \in Choices["devices"] \cup {None}
  /\ Running => options # None /\ built # None
  /\ optimizer \in DebouncerState
  /\ reload \in BOOLEAN /\ missed \in BOOLEAN
  /\ saves \in Nat

NoInstance ==
  /\ phase' = "down" /\ built' = None /\ telemetry' = None
  /\ optimizer' = Quiet /\ round' = None

Init ==
  /\ OptionsInit
  /\ states \in {f \in [Entities -> UNION {EntityStates[e] : e \in Entities}] :
                   \A e \in Entities : f[e] \in EntityStates[e]}
  /\ phase = "down" /\ built = None /\ telemetry = None
  /\ optimizer = Quiet /\ round = None
  /\ reload = FALSE /\ missed = FALSE
  /\ saves = 0

-----------------------------------------------------------------------------
\* async_setup_entry once the prices are there: both coordinators are built and
\* refreshed, and their listeners registered.
Setup ==
  /\ phase = "down" /\ options # None
  /\ phase' = "starting"
  /\ built' = options.set["devices"]
  /\ telemetry' = Read(built', states)
  /\ round' = [telemetry |-> telemetry', forecast |-> Predict(built', states)]
  /\ optimizer' = Quiet
  /\ reload' = FALSE
  /\ missed' = FALSE
  /\ UNCHANGED <<options, form, states, saves>>

\* The rest of the setup: first writes, platforms, the update listener.
SetupEnds ==
  /\ phase = "starting" /\ phase' = "up"
  /\ UNCHANGED <<options, form, states, built, telemetry, optimizer, round,
                 reload, missed, saves>>

\* _async_update_listener, once it has the entry's lock: the entry is unloaded,
\* and set up again by the next Setup.
Reload ==
  /\ reload /\ phase = "up"
  /\ NoInstance
  /\ reload' = FALSE
  /\ UNCHANGED <<options, form, states, missed, saves>>

\* One request to the optimiser's debouncer: a round at once if no cooldown runs,
\* a queued one otherwise.
Request(inputs) ==
  IF RunsNow(optimizer, FALSE)
  THEN round' = inputs /\ optimizer' = CoolingDown
  ELSE UNCHANGED round /\ optimizer' = Requested(optimizer)

\* A second request right after the first finds the cooldown running.
RequestTwice(inputs) ==
  /\ round' = IF RunsNow(optimizer, FALSE) THEN inputs ELSE round
  /\ optimizer' = Requested(CoolingDown)

\* An entity changes: the telemetry coordinator reads and notifies, then the
\* optimiser is told of its forecast.
EntityChanges(e, s) ==
  /\ s # states[e] /\ s \in EntityStates[e]
  /\ states' = [states EXCEPT ![e] = s]
  /\ LET tracked    == Running /\ e \in Tracked(built)
         forecasted == Running /\ e \in ForecastIds(built)
         inputs     == [telemetry |-> telemetry', forecast |-> Predict(built, states')]
     IN  /\ telemetry' = IF tracked THEN Read(built, states') ELSE telemetry
         /\ CASE tracked /\ forecasted -> RequestTwice(inputs)
              [] tracked # forecasted  -> Request(inputs)
              [] OTHER                 -> UNCHANGED <<round, optimizer>>
  /\ UNCHANGED <<options, form, phase, built, reload, missed, saves>>

\* The price coordinator polled.
PricesPolled ==
  /\ Running
  /\ Request(Inputs)
  /\ UNCHANGED <<options, form, states, phase, built, telemetry, reload, missed,
                 saves>>

\* The cooldown ends, and a queued request with it is forgotten.
TimerForgets ==
  /\ Running /\ optimizer.timer
  /\ optimizer' = Quiet /\ UNCHANGED round
  /\ UNCHANGED <<options, form, states, phase, built, telemetry, reload, missed,
                 saves>>

\* The cooldown ends; a queued round reads the present.
OptimizerTimerFires ==
  /\ Running /\ optimizer.timer
  /\ IF optimizer.again
     THEN round' = Inputs /\ optimizer' = CoolingDown
     ELSE optimizer' = Quiet /\ UNCHANGED round
  /\ UNCHANGED <<options, form, states, phase, built, telemetry, reload, missed,
                 saves>>

-----------------------------------------------------------------------------
\* Saved options are told to the listeners registered now, if they differ.
Saved(byReconfigure) ==
  /\ saves < MaxSaves /\ saves' = saves + 1
  /\ reload' = (reload \/ byReconfigure \/ (phase = "up" /\ options' # options))
  /\ missed' = (missed \/ phase = "starting")
  /\ UNCHANGED <<states, instanceVars>>

FormSteps == FormStep /\ UNCHANGED <<states, instanceVars, reload, missed, saves>>

FirstSaved ==
  \E i \in AnyChoice :
    CreateEntry(i) /\ UNCHANGED <<states, instanceVars, reload, missed, saves>>

\* The reconfigure flow schedules a reload itself.
FormSaved == \E i \in AnyChoice : Submit(i) /\ Saved(form.flow = "reconfigure")

PanelSaved ==
  /\ phase = "up"
  /\ \/ \E s \in Sections, i \in AnyChoice : PanelUpdates(s, i)
     \/ \E s \in Suppliers \cup {Manual} : PanelPicks(s)
  /\ Saved(FALSE)

Next ==
  \/ Setup
  \/ SetupEnds
  \/ Reload
  \/ \E e \in Entities : \E s \in EntityStates[e] : EntityChanges(e, s)
  \/ PricesPolled
  \/ OptimizerTimerFires
  \/ FormSteps
  \/ FirstSaved
  \/ FormSaved
  \/ PanelSaved

Spec == Init /\ [][Next]_vars

\* The loop runs a due timer.
FairSpec == Spec /\ WF_vars(OptimizerTimerFires)

-----------------------------------------------------------------------------
\* A running instance holds what its entities say now, whatever changed, became
\* unavailable or was saved on the way; and unless a reload waits, or a form was
\* submitted while nobody listened, its entities are those of the saved options.
SnapshotCurrent ==
  /\ Running => telemetry = Read(built, states)
  /\ (phase = "up" /\ ~reload /\ ~missed) => built = options.set["devices"]

\* "Recompute whenever prices, telemetry or forecast entities update": a decision
\* made from other inputs than the present ones is about to be replaced.
NoUpdateLost ==
  (Running /\ round # Inputs) => optimizer.timer /\ optimizer.again

\* The decision catches up with its inputs, however often they change.
DecisionCatchesUp == (Running /\ round # Inputs) ~> (~Running \/ round = Inputs)

\* The average state of charge lies between those of the batteries that are known,
\* also while others are unavailable.
AverageWithinKnown ==
  Running =>
    LET batteries == telemetry.batteries
        average   == SocAverage(telemetry)
    IN  average # None =>
          /\ \E i \in DOMAIN batteries :
               /\ batteries[i].soc # None
               /\ batteries[i].soc * average.count <= average.total
          /\ \E i \in DOMAIN batteries :
               /\ batteries[i].soc # None
               /\ average.total <= batteries[i].soc * average.count

=============================================================================
