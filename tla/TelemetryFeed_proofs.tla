------------------------ MODULE TelemetryFeed_proofs ------------------------
(***************************************************************************)
(* TelemetryFeed keeps its safety properties for all entities, states,     *)
(* choices of devices and numbers of saved changes.                        *)
(*                                                                         *)
(* The telemetry coordinator reads everything it reads only when one of    *)
(* the entities it tracks changes.  What makes this enough is that a       *)
(* reading depends on the tracked entities alone (ReadDependsOnTracked),   *)
(* and a forecast on its own (PredictDependsOnForecastIds).                *)
(***************************************************************************)
EXTENDS TelemetryFeed, Sums_proofs

\* Also while the setup awaits first writes and platforms.
BuiltInv == (Running /\ ~reload /\ ~missed) => built = options.set["devices"]

HeldInv == Running => telemetry = Read(built, states)

IInv == TypeOK /\ BuiltInv /\ HeldInv /\ NoUpdateLost

-----------------------------------------------------------------------------
\* What is read of a device is a matter of the entities that are tracked for it.
THEOREM ReadDependsOnTracked ==
  ASSUME NEW src \in Sources, NEW s1, NEW s2,
         \A e \in Tracked(src) : s1[e] = s2[e]
  PROVE  Read(src, s1) = Read(src, s2)
<1>1. \A e : (e = None \/ e \in Tracked(src)) =>
        /\ Numeric(s1, e) = Numeric(s2, e)
        /\ Bool(s1, e) = Bool(s2, e)
        /\ PowerW(s1, e) = PowerW(s2, e)
  BY DEF Numeric, Bool, PowerW, Known
<1>2. \A e \in {src.grid, src.pv, src.load, src.imbalance, src.ev_connected,
                src.ev_power, src.ev_soc, src.heatpump} :
        e = None \/ e \in Tracked(src)
  BY DEF Tracked
<1>3. src.soc \in Seq(Entities) /\ src.power \in Seq(Entities)
  BY DEF Sources
<1>4. \A i \in Nat \ {0} : /\ At(src.soc, i) = None \/ At(src.soc, i) \in Tracked(src)
                           /\ At(src.power, i) = None \/ At(src.power, i) \in Tracked(src)
  <2>. SUFFICES ASSUME NEW i \in Nat \ {0}
                PROVE  /\ At(src.soc, i) = None \/ At(src.soc, i) \in Tracked(src)
                       /\ At(src.power, i) = None \/ At(src.power, i) \in Tracked(src)
    OBVIOUS
  <2>1. i <= Len(src.soc) => i \in DOMAIN src.soc /\ src.soc[i] \in Entities
    BY <1>3
  <2>2. i <= Len(src.power) => i \in DOMAIN src.power /\ src.power[i] \in Entities
    BY <1>3
  <2>. QED
    BY <2>1, <2>2, TelemetryAssumption DEF At, Tracked
<1>5. Batteries(s1, src) = Batteries(s2, src)
  <2> DEFINE count == IF Len(src.soc) > Len(src.power) THEN Len(src.soc)
                                                       ELSE Len(src.power)
  <2>1. count \in Nat
    BY <1>3
  <2>2. \A i \in 1..count : /\ Numeric(s1, At(src.soc, i)) = Numeric(s2, At(src.soc, i))
                            /\ PowerW(s1, At(src.power, i)) = PowerW(s2, At(src.power, i))
    BY <1>1, <1>4, <2>1
  <2>. QED
    BY <2>2 DEF Batteries
<1>6. ImbalancePrice(s1, src) = ImbalancePrice(s2, src)
  BY <1>1, <1>2 DEF ImbalancePrice
<1>. QED
  BY <1>1, <1>2, <1>5, <1>6 DEF Read

\* A forecast is a matter of the entities that are tracked for it.
THEOREM PredictDependsOnForecastIds ==
  ASSUME NEW src, NEW s1, NEW s2, \A e \in ForecastIds(src) : s1[e] = s2[e]
  PROVE  Predict(src, s1) = Predict(src, s2)
<1>1. \A e : (e = None \/ e \in ForecastIds(src)) =>
        /\ Numeric(s1, e) = Numeric(s2, e)
        /\ PowerW(s1, e) = PowerW(s2, e)
        /\ Numeric(s1, e) # None => s1[e] = s2[e]
  BY DEF Numeric, PowerW, Known
<1>2. \A e \in {src.pv_next_hour, src.pv_today} : e = None \/ e \in ForecastIds(src)
  BY DEF ForecastIds
<1>. QED
  BY <1>1, <1>2 DEF Predict

\* Only entities are tracked.
LEMMA TrackedTyped ==
  ASSUME NEW src \in Sources
  PROVE  Tracked(src) \subseteq Entities /\ ForecastIds(src) \subseteq Entities
<1>1. src.soc \in Seq(Entities) /\ src.power \in Seq(Entities)
  BY DEF Sources
<1>2. /\ {src.soc[i] : i \in DOMAIN src.soc} \subseteq Entities
      /\ {src.power[i] : i \in DOMAIN src.power} \subseteq Entities
  BY <1>1
<1>. QED
  BY <1>2 DEF Tracked, ForecastIds, Sources, Optional

-----------------------------------------------------------------------------
\* The average of a field lies between its values, whatever batteries report it.
LEMMA TotalBetween ==
  ASSUME NEW batteries, NEW field, IsFiniteSet(DOMAIN batteries),
         \A i \in DOMAIN batteries : batteries[i][field] \in Int \cup {None},
         Reporting(batteries, field) # {}
  PROVE  LET known == Reporting(batteries, field)
             total == Total(batteries, field)
         IN  /\ \E i \in known : batteries[i][field] * Cardinality(known) <= total
             /\ \E i \in known : total <= batteries[i][field] * Cardinality(known)
<1> DEFINE S == Reporting(batteries, field)
           f == [i \in S |-> batteries[i][field]]
<1>1. IsFiniteSet(S) /\ \A i \in S : f[i] \in Int
  <2>1. S \subseteq DOMAIN batteries
    BY DEF Reporting
  <2>. QED
    BY <2>1, FS_Subset DEF Reporting
<1>2. DOMAIN f = S /\ \A i \in S : f[i] = batteries[i][field]
  OBVIOUS
<1>3. Total(batteries, field) = SumOf(f)
  BY DEF Total
<1>. HIDE DEF f
<1>4. /\ \E i \in S : f[i] * Cardinality(S) <= SumOf(f)
      /\ \E i \in S : SumOf(f) <= f[i] * Cardinality(S)
  BY <1>1, <1>2, SumBetween
<1>. QED
  BY <1>2, <1>3, <1>4

\* What is read of a battery is a number or unknown.
LEMMA BatteriesTyped ==
  ASSUME TypeOK, NEW src \in Sources
  PROVE  LET batteries == Batteries(states, src)
         IN  /\ IsFiniteSet(DOMAIN batteries)
             /\ \A i \in DOMAIN batteries : batteries[i]["soc"] \in Int \cup {None}
<1> DEFINE count == IF Len(src.soc) > Len(src.power) THEN Len(src.soc) ELSE Len(src.power)
<1>1. src.soc \in Seq(Entities) /\ count \in Nat
  BY DEF Sources
<1>2. IsFiniteSet(1..count)
  BY <1>1, FS_Interval
<1>3. ASSUME NEW e PROVE (e \in Entities \/ e = None) => Numeric(states, e) \in Int \cup {None}
  <2>. SUFFICES ASSUME e \in Entities, states[e] # None
                PROVE  states[e].value \in Int \cup {None}
    BY DEF Numeric, Known
  <2>1. states[e] \in EntityState
    BY FeedAssumption DEF TypeOK
  <2>. QED
    BY <2>1 DEF EntityState
<1>4. ASSUME NEW i \in 1..count
      PROVE  At(src.soc, i) \in Entities \/ At(src.soc, i) = None
  BY <1>1 DEF At
<1>. QED
  BY <1>2, <1>3, <1>4 DEF Batteries

-----------------------------------------------------------------------------
LEMMA SectionsTyped ==
  ASSUME NEW set \in Settings, NEW s \in Sections, NEW input \in Choices[s]
  PROVE  [set EXCEPT ![s] = input] \in Settings
  BY OptionsAssumption DEF Settings, AnyChoice

LEMMA PresetTyped ==
  ASSUME NEW set \in Settings, NEW supplier
  PROVE  ApplyProvider(set, supplier) \in Settings
<1>1. set["values"] \in Choices["values"]
  BY DEF Settings, Sections
<1>2. supplier \in Suppliers =>
        [set["values"] EXCEPT !.preset = Preset[supplier]] \in Choices["values"]
  BY <1>1, OptionsAssumption
<1>3. "values" \in Sections
  BY DEF Sections
<1>. QED
  BY <1>2, <1>3, SectionsTyped DEF ApplyProvider

LEMMA DevicesTyped ==
  ASSUME OptionsTypeOK, options # None
  PROVE  options.set["devices"] \in Choices["devices"]
  BY DEF OptionsTypeOK, EntryOptions, Settings, Sections

\* Steps of a form change no options and keep the types.
LEMMA FormStepTyped ==
  ASSUME OptionsTypeOK, FormStep
  PROVE  OptionsTypeOK' /\ options' = options
<1>0. Defaults \in Settings
  BY OptionsAssumption DEF Settings
<1>1. CASE OpenConfig
  BY <1>0, <1>1 DEF OpenConfig, OptionsTypeOK, Form
<1>2. CASE \E f \in {"reconfigure", "options"} : OpenSupplier(f)
  BY <1>2 DEF OpenSupplier, OptionsTypeOK, Form, EntryOptions
<1>3. CASE \E s \in Suppliers \cup {Manual} : PickSupplier(s)
  <2>. PICK s \in Suppliers \cup {Manual} : PickSupplier(s)
    BY <1>3
  <2> DEFINE base == IF form.flow = "config" THEN Defaults ELSE options.set
  <2>1. base \in Settings
    BY <1>0 DEF OptionsTypeOK, EntryOptions, PickSupplier
  <2>. QED
    BY <2>1, PresetTyped DEF PickSupplier, OptionsTypeOK, Form, Sections, EntryOptions
<1>4. CASE OpenManual
  BY <1>4, PresetTyped DEF OpenManual, OptionsTypeOK, Form, EntryOptions, Sections
<1>5. CASE \E s \in Sections : OpenSection(s)
  BY <1>5 DEF OpenSection, OptionsTypeOK, Form, EntryOptions
<1>6. CASE \E i \in AnyChoice : SubmitFirst(i)
  <2>. PICK i \in AnyChoice : SubmitFirst(i)
    BY <1>6
  <2>1. form \in Form /\ form.step \in {"values", "devices"} /\ i \in Choices[form.step]
    BY DEF SubmitFirst, OptionsTypeOK
  <2>2. [form.set EXCEPT ![form.step] = i] \in Settings
    BY <2>1, SectionsTyped DEF Form, Sections
  <2>3. FollowingStep[form.step] \in Sections
    BY <2>1 DEF FollowingStep, Sections
  <2>4. form' = [form EXCEPT !.step = FollowingStep[form.step],
                             !.set = [form.set EXCEPT ![form.step] = i]]
    BY <2>1 DEF SubmitFirst, Form
  <2>. QED
    BY <2>1, <2>2, <2>3, <2>4 DEF SubmitFirst, OptionsTypeOK, Form
<1>7. CASE Abort
  BY <1>7 DEF Abort, OptionsTypeOK
<1>. QED
  BY <1>1, <1>2, <1>3, <1>4, <1>5, <1>6, <1>7 DEF FormStep

LEMMA CreateTyped ==
  ASSUME OptionsTypeOK, NEW i \in AnyChoice, CreateEntry(i)
  PROVE  OptionsTypeOK' /\ options = None
<1>1. form \in Form /\ options = None /\ i \in Choices["control"]
  BY DEF CreateEntry, OptionsTypeOK
<1>2. [form.set EXCEPT !["control"] = i] \in Settings
  BY <1>1, SectionsTyped DEF Form, Sections
<1>. QED
  BY <1>1, <1>2 DEF CreateEntry, OptionsTypeOK, EntryOptions, Form

LEMMA SubmitTyped ==
  ASSUME OptionsTypeOK, NEW i \in AnyChoice, Submit(i)
  PROVE  OptionsTypeOK' /\ options # None /\ options' # None
<1>1. /\ form \in Form /\ options \in EntryOptions /\ options # None
      /\ form.step \in Sections /\ i \in Choices[form.step]
  BY DEF Submit, OptionsTypeOK, Form
<1>2. [options.set EXCEPT ![form.step] = i] \in Settings
  BY <1>1, SectionsTyped DEF EntryOptions
<1>3. options' \in EntryOptions
  BY <1>1, <1>2 DEF Submit, Current, EntryOptions, Form
<1>. QED
  BY <1>1, <1>3, NoOptionsAssumption DEF Submit, OptionsTypeOK

LEMMA PanelTyped ==
  ASSUME OptionsTypeOK,
         \/ \E s \in Sections, i \in AnyChoice : PanelUpdates(s, i)
         \/ \E s \in Suppliers \cup {Manual} : PanelPicks(s)
  PROVE  OptionsTypeOK' /\ options # None /\ options' # None
<1>1. CASE \E s \in Sections, i \in AnyChoice : PanelUpdates(s, i)
  <2>. PICK s \in Sections, i \in AnyChoice : PanelUpdates(s, i)
    BY <1>1
  <2>1. options \in EntryOptions /\ i \in Choices[s]
    BY DEF PanelUpdates, OptionsTypeOK
  <2>2. options' = [options EXCEPT !.set = [options.set EXCEPT ![s] = i]]
    BY <2>1 DEF PanelUpdates, EntryOptions
  <2>3. [options.set EXCEPT ![s] = i] \in Settings
    BY <2>1, SectionsTyped DEF EntryOptions
  <2>. QED
    BY <2>1, <2>2, <2>3, NoOptionsAssumption DEF PanelUpdates, OptionsTypeOK, EntryOptions
<1>2. CASE \E s \in Suppliers \cup {Manual} : PanelPicks(s)
  BY <1>2, NoOptionsAssumption DEF PanelPicks, OptionsTypeOK, EntryOptions
<1>. QED
  BY <1>1, <1>2

-----------------------------------------------------------------------------
LEMMA DebouncerTyped ==
  ASSUME optimizer \in DebouncerState
  PROVE  /\ CoolingDown \in DebouncerState /\ Quiet \in DebouncerState
         /\ Requested(optimizer) \in DebouncerState
         /\ Requested(CoolingDown) = [timer |-> TRUE, again |-> TRUE]
         /\ ~RunsNow(optimizer, FALSE)
              => Requested(optimizer) = [timer |-> TRUE, again |-> TRUE]
  BY DEF DebouncerState, CoolingDown, Quiet, Requested, RunsNow

\* A request leaves a debouncer that will run, or has just run.
LEMMA RequestServes ==
  ASSUME optimizer \in DebouncerState, NEW inputs, Request(inputs)
  PROVE  /\ optimizer' \in DebouncerState
         /\ round' = inputs \/ optimizer' = [timer |-> TRUE, again |-> TRUE]
  BY DebouncerTyped DEF Request

LEMMA StatesTyped ==
  ASSUME TypeOK, NEW e \in Entities, NEW s \in EntityStates[e]
  PROVE  LET after == [states EXCEPT ![e] = s]
         IN  /\ after \in [Entities -> UNION {EntityStates[d] : d \in Entities}]
             /\ \A d \in Entities : after[d] \in EntityStates[d]
  BY DEF TypeOK

LEMMA InitInv == Init => IInv
<1>. SUFFICES ASSUME Init PROVE IInv
  OBVIOUS
<1>1. OptionsTypeOK
  BY DEF Init, OptionsInit, OptionsTypeOK
<1>. QED
  BY <1>1 DEF Init, IInv, TypeOK, BuiltInv, HeldInv, NoUpdateLost, Running, Phases,
              Quiet, DebouncerState

\* A step that saves options touches no instance.
LEMMA SavedInv ==
  ASSUME IInv, NEW r \in BOOLEAN, Saved(r), OptionsTypeOK', options # None,
         options' # None, phase # "up" => (phase = "down" \/ missed')
  PROVE  IInv'
<1>1. TypeOK'
  <2>1. saves' \in Nat
    BY DEF Saved, IInv, TypeOK
  <2>. QED
    BY <2>1 DEF Saved, IInv, TypeOK, instanceVars, Running, Phases
<1>2. BuiltInv'
  BY DEF Saved, IInv, TypeOK, instanceVars, BuiltInv, Running, Phases
<1>3. HeldInv'
  BY DEF Saved, IInv, instanceVars, HeldInv, Running
<1>4. NoUpdateLost'
  BY DEF Saved, IInv, instanceVars, NoUpdateLost, Inputs, Running
<1>. QED
  BY <1>1, <1>2, <1>3, <1>4 DEF IInv

\* An entity changes: it is either tracked, and then read, or makes no difference.
LEMMA ChangeInv ==
  ASSUME IInv, NEW e \in Entities, NEW s \in EntityStates[e], EntityChanges(e, s)
  PROVE  IInv'
<1> DEFINE tracked    == Running /\ e \in Tracked(built)
           forecasted == Running /\ e \in ForecastIds(built)
           inputs     == [telemetry |-> telemetry', forecast |-> Predict(built, states')]
<1>1. states' = [states EXCEPT ![e] = s] /\ \A d \in Entities \ {e} : states'[d] = states[d]
  <2>1. states \in [Entities -> UNION {EntityStates[d] : d \in Entities}]
    BY DEF IInv, TypeOK
  <2>. QED
    BY <2>1 DEF EntityChanges
<1>2. UNCHANGED <<options, form, phase, built, reload, missed, saves>>
  BY DEF EntityChanges
<1>3. Running => built \in Sources
  BY OptionsAssumption DEF IInv, TypeOK
<1>4. HeldInv'
  <2>. SUFFICES ASSUME Running PROVE telemetry' = Read(built, states')
    BY <1>2 DEF HeldInv, Running
  <2>1. CASE e \in Tracked(built)
    BY <2>1 DEF EntityChanges
  <2>2. CASE e \notin Tracked(built)
    <3>1. \A d \in Tracked(built) : states[d] = states'[d]
      BY <1>1, <1>3, <2>2, TrackedTyped
    <3>2. Read(built, states) = Read(built, states')
      BY <3>1, <1>3, ReadDependsOnTracked
    <3>. QED
      BY <3>2, <2>2 DEF EntityChanges, IInv, HeldInv
  <2>. QED
    BY <2>1, <2>2
<1>5. optimizer' \in DebouncerState /\ NoUpdateLost'
  <2>0. optimizer \in DebouncerState
    BY DEF IInv, TypeOK
  <2>1. Inputs' = inputs
    BY <1>2 DEF Inputs
  <2>2. CASE tracked /\ forecasted
    <3>1. RequestTwice(inputs)
      BY <2>2 DEF EntityChanges
    <3>2. optimizer' = [timer |-> TRUE, again |-> TRUE]
      BY <3>1, <2>0, DebouncerTyped DEF RequestTwice
    <3>. QED
      BY <3>2 DEF NoUpdateLost, DebouncerState
  <2>3. CASE tracked # forecasted
    <3>1. Request(inputs)
      BY <2>3 DEF EntityChanges
    <3>. QED
      BY <3>1, <2>0, <2>1, RequestServes DEF NoUpdateLost
  <2>4. CASE ~tracked /\ ~forecasted
    <3>1. UNCHANGED <<round, optimizer, telemetry>>
      BY <2>4 DEF EntityChanges
    <3>2. Running => Predict(built, states) = Predict(built, states')
      BY <1>1, <1>3, <2>4, TrackedTyped, PredictDependsOnForecastIds
    <3>. QED
      BY <3>1, <3>2, <1>2, <2>0 DEF IInv, NoUpdateLost, Inputs, Running
  <2>. QED
    BY <2>2, <2>3, <2>4
<1>6. TypeOK'
  BY <1>1, <1>2, <1>5, StatesTyped DEF IInv, TypeOK, OptionsTypeOK, Running
<1>7. BuiltInv'
  BY <1>2 DEF IInv, BuiltInv, Running
<1>. QED
  BY <1>4, <1>5, <1>6, <1>7 DEF IInv

THEOREM Inductive == IInv /\ [Next]_vars => IInv'
<1>. SUFFICES ASSUME IInv, [Next]_vars PROVE IInv'
  OBVIOUS
<1>0. TypeOK /\ OptionsTypeOK /\ optimizer \in DebouncerState
  BY DEF IInv, TypeOK
<1>1. CASE Setup
  <2>1. /\ built' \in Choices["devices"] /\ built' \in AnyChoice
        /\ built' = options.set["devices"]
    BY <1>0, <1>1, DevicesTyped DEF Setup, AnyChoice, Sections
  <2>2. TypeOK'
    BY <1>0, <1>1, <2>1, DebouncerTyped, NoOptionsAssumption
       DEF Setup, TypeOK, OptionsTypeOK, Running, Phases
  <2>3. BuiltInv' /\ HeldInv' /\ NoUpdateLost'
    BY <1>1, <2>1 DEF Setup, BuiltInv, HeldInv, NoUpdateLost, Inputs
  <2>. QED
    BY <2>2, <2>3 DEF IInv
<1>2. CASE SetupEnds
  BY <1>2 DEF SetupEnds, IInv, TypeOK, OptionsTypeOK, BuiltInv, HeldInv, NoUpdateLost,
              Inputs, Running, Phases
<1>3. CASE Reload
  BY <1>3, DebouncerTyped DEF Reload, NoInstance, IInv, TypeOK, OptionsTypeOK, BuiltInv,
              HeldInv, NoUpdateLost, Running, Phases
<1>4. CASE \E e \in Entities : \E s \in EntityStates[e] : EntityChanges(e, s)
  BY <1>4, ChangeInv
<1>5. CASE PricesPolled
  <2>1. optimizer' \in DebouncerState /\ NoUpdateLost'
    <3>1. Request(Inputs) /\ Inputs' = Inputs
      BY <1>5 DEF PricesPolled, Inputs
    <3>. QED
      BY <3>1, <1>0, RequestServes DEF NoUpdateLost
  <2>. QED
    BY <1>5, <2>1 DEF PricesPolled, IInv, TypeOK, OptionsTypeOK, BuiltInv, HeldInv, Running
<1>6. CASE OptimizerTimerFires
  <2>1. optimizer' \in DebouncerState /\ NoUpdateLost'
    <3>1. Inputs' = Inputs
      BY <1>6 DEF OptimizerTimerFires, Inputs
    <3>. QED
      BY <3>1, <1>0, <1>6, DebouncerTyped DEF OptimizerTimerFires, NoUpdateLost, IInv, Running
  <2>. QED
    BY <1>6, <2>1 DEF OptimizerTimerFires, IInv, TypeOK, OptionsTypeOK, BuiltInv, HeldInv,
                      Running
<1>7. CASE FormSteps
  <2>1. OptionsTypeOK' /\ options' = options
    BY <1>0, <1>7, FormStepTyped DEF FormSteps
  <2>. QED
    BY <2>1, <1>7 DEF FormSteps, instanceVars, IInv, TypeOK, BuiltInv, HeldInv,
                      NoUpdateLost, Inputs, Running
<1>8. CASE FirstSaved
  <2>1. OptionsTypeOK' /\ options = None
    BY <1>0, <1>8, CreateTyped DEF FirstSaved
  <2>2. ~Running
    BY <1>0, <2>1 DEF TypeOK
  <2>. QED
    BY <2>1, <2>2, <1>8 DEF FirstSaved, instanceVars, IInv, TypeOK, BuiltInv, HeldInv,
                            NoUpdateLost, Running
<1>9. CASE FormSaved
  <2>. PICK i \in AnyChoice : Submit(i) /\ Saved(form.flow = "reconfigure")
    BY <1>9 DEF FormSaved
  <2>1. OptionsTypeOK' /\ options # None /\ options' # None
    BY <1>0, SubmitTyped
  <2>2. phase # "up" => (phase = "down" \/ missed')
    BY <1>0 DEF Saved, TypeOK, Phases
  <2>. QED
    BY <2>1, <2>2, SavedInv
<1>10. CASE PanelSaved
  <2>1. OptionsTypeOK' /\ options # None /\ options' # None
    BY <1>0, <1>10, PanelTyped DEF PanelSaved
  <2>. QED
    BY <2>1, <1>10, SavedInv DEF PanelSaved
<1>11. CASE UNCHANGED vars
  BY <1>11 DEF vars, instanceVars, IInv, TypeOK, OptionsTypeOK, BuiltInv, HeldInv,
               NoUpdateLost, Inputs, Running
<1>. QED
  BY <1>1, <1>2, <1>3, <1>4, <1>5, <1>6, <1>7, <1>8, <1>9, <1>10, <1>11 DEF Next

LEMMA Invariance == Spec => []IInv
  BY InitInv, Inductive, PTL DEF Spec

\* The variables keep their types; no instance runs without options.
THEOREM TypeCorrect == Spec => []TypeOK
<1>1. IInv => TypeOK
  BY DEF IInv
<1>. QED
  BY <1>1, Invariance, PTL

\* What a running instance holds of its devices is what their entities say now.
THEOREM SnapshotHolds == Spec => []SnapshotCurrent
<1>1. IInv => SnapshotCurrent
  BY DEF IInv, BuiltInv, HeldInv, SnapshotCurrent, Running
<1>. QED
  BY <1>1, Invariance, PTL

\* A decision made from other inputs than the present ones is about to be replaced.
THEOREM UpdatesKept == Spec => []NoUpdateLost
<1>1. IInv => NoUpdateLost
  BY DEF IInv
<1>. QED
  BY <1>1, Invariance, PTL

\* The average state of charge lies between those of the batteries that are known,
\* however many batteries there are and whichever of them are available.
THEOREM AverageKept == Spec => []AverageWithinKnown
<1>1. IInv => AverageWithinKnown
  <2> DEFINE batteries == telemetry.batteries
  <2>. SUFFICES ASSUME IInv, Running, SocAverage(telemetry) # None
                PROVE  /\ \E i \in DOMAIN batteries :
                            /\ batteries[i].soc # None
                            /\ batteries[i].soc * SocAverage(telemetry).count
                                 <= SocAverage(telemetry).total
                       /\ \E i \in DOMAIN batteries :
                            /\ batteries[i].soc # None
                            /\ SocAverage(telemetry).total
                                 <= batteries[i].soc * SocAverage(telemetry).count
    BY DEF AverageWithinKnown
  <2>1. TypeOK /\ built \in Sources /\ batteries = Batteries(states, built)
    BY OptionsAssumption DEF IInv, TypeOK, HeldInv, Read
  <2> DEFINE known == Reporting(batteries, "soc")
             total == Total(batteries, "soc")
  <2>2. /\ known # {}
        /\ SocAverage(telemetry) = [total |-> total, count |-> Cardinality(known)]
    BY DEF SocAverage
  <2>3. /\ \E i \in known : batteries[i]["soc"] * Cardinality(known) <= total
        /\ \E i \in known : total <= batteries[i]["soc"] * Cardinality(known)
    <3>. HIDE DEF batteries
    <3>1. /\ IsFiniteSet(DOMAIN batteries)
          /\ \A i \in DOMAIN batteries : batteries[i]["soc"] \in Int \cup {None}
      BY <2>1, BatteriesTyped
    <3>. QED
      BY <2>2, <3>1, TotalBetween
  <2>4. \A i \in known : i \in DOMAIN batteries /\ batteries[i]["soc"] # None
    BY DEF Reporting
  <2>. HIDE DEF total, known
  <2>. QED
    BY <2>2, <2>3, <2>4
<1>. QED
  BY <1>1, Invariance, PTL

\* A form changes nothing but its own section, whatever was saved since it was opened.
THEOREM SectionsKept == Spec => OtherSectionsKept
<1> DEFINE Kept ==
      \A i \in AnyChoice : Submit(i) =>
        /\ \A s \in Sections \ {form.step} : options'.set[s] = options.set[s]
        /\ form.step # "values" => options'.supplier = options.supplier
<1>1. TypeOK => Kept
  <2>. SUFFICES ASSUME TypeOK, NEW i \in AnyChoice, Submit(i)
                PROVE  /\ \A s \in Sections \ {form.step} : options'.set[s] = options.set[s]
                       /\ form.step # "values" => options'.supplier = options.supplier
    OBVIOUS
  <2>1. options \in EntryOptions
    BY DEF TypeOK, OptionsTypeOK, Submit
  <2>. QED
    BY <2>1 DEF Submit, Current, EntryOptions, Settings
<1>2. TypeOK /\ [Next]_vars => [Kept]_optionVars
  BY <1>1
<1>. QED
  BY <1>2, TypeCorrect, PTL DEF Spec, OtherSectionsKept

=============================================================================
