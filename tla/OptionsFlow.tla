----------------------------- MODULE OptionsFlow -----------------------------
(***************************************************************************)
(* The options of the config entry and who writes them (config_flow.py,    *)
(* websocket_api.py): the first configuration, the reconfigure flow, the   *)
(* options flow and the panel.                                             *)
(*                                                                         *)
(* The keys of the options are grouped as the forms group them.  A form is *)
(* filled in when it is opened and merged into the options when it is      *)
(* submitted; the panel may save others in between.  At most one form is   *)
(* open at a time (a bound): for what a form writes, a second form that is *)
(* submitted meanwhile is the same as a save by the panel.                 *)
(***************************************************************************)
EXTENDS Telemetry

CONSTANTS
  Suppliers,    \* the suppliers of the provider table
  Manual,       \* the choice "enter manually"
  Preset,       \* per supplier of the table its markup, feed-in cost and fee
  Choices,      \* per section the settings a user may choose
  Defaults      \* per section its default

\* "values" is the tariff form.
Sections == {"values", "devices", "strategy", "control", "ev", "heatpump"}

\* What some section may hold.
AnyChoice == UNION {Choices[s] : s \in Sections}

ASSUME OptionsAssumption ==
  /\ Choices \in [Sections -> SUBSET AnyChoice]
  /\ Defaults \in [Sections -> AnyChoice]
  /\ \A s \in Sections : Defaults[s] \in Choices[s]
  /\ Choices["devices"] \subseteq Sources
  \* A tariff is what a preset determines, and the rest.
  /\ \A v \in Choices["values"] : v = [preset |-> v.preset, rest |-> v.rest]
  /\ \A v \in Choices["values"], s \in Suppliers :
       [v EXCEPT !.preset = Preset[s]] \in Choices["values"]
  /\ Manual \notin Suppliers

Settings == {c \in [Sections -> AnyChoice] : \A s \in Sections : c[s] \in Choices[s]}

EntryOptions == [supplier : Suppliers \cup {Manual}, set : Settings]

\* An open form.  `step' is "supplier" or the section it edits, `supplier' and
\* `set' what it was opened with: of `set' it shows its section (and the first
\* configuration carries what earlier forms have entered).
Form ==
  [flow : {"config", "reconfigure", "options"},
   step : Sections \cup {"supplier"},
   supplier : Suppliers \cup {Manual},
   set : Settings]

\* Python's None is none of these.
ASSUME NoOptionsAssumption ==
  None \notin EntryOptions /\ None \notin Form /\ None \notin AnyChoice

VARIABLES
  options,      \* entry.options; None before the entry is created
  form          \* the open form, or None

optionVars == <<options, form>>

OptionsTypeOK ==
  /\ options \in EntryOptions \cup {None}
  /\ form \in Form \cup {None}
  \* The first configuration is the one without options.
  /\ form # None => (form.flow = "config" <=> options = None)

OptionsInit == options = None /\ form = None

-----------------------------------------------------------------------------
\* A preset that replaces the whole tariff.
ApplyPresetOnly(set, supplier) ==
  IF supplier \in Suppliers
  THEN [set EXCEPT !["values"] = [preset |-> Preset[supplier]]]
  ELSE set

\* _apply_provider: a supplier of the table fills in its part of the tariff.
ApplyProvider(set, supplier) ==
  IF supplier \in Suppliers
  THEN [set EXCEPT !["values"] = [@ EXCEPT !.preset = Preset[supplier]]]
  ELSE set

\* async_step_user of the first configuration; there is a single entry.
OpenConfig ==
  /\ options = None /\ form = None
  /\ form' = [flow |-> "config", step |-> "supplier", supplier |-> Manual,
              set |-> Defaults]
  /\ UNCHANGED options

\* async_step_reconfigure, and the supplier step of the options flow
OpenSupplier(flow) ==
  /\ options # None /\ form = None
  /\ form' = [flow |-> flow, step |-> "supplier", supplier |-> options.supplier,
              set |-> options.set]
  /\ UNCHANGED options

\* Submitting the supplier step opens the tariff form.
PickSupplier(supplier) ==
  /\ form # None /\ form.step = "supplier"
  /\ LET base == IF form.flow = "config" THEN Defaults ELSE options.set
     IN  form' = [form EXCEPT !.step = "values", !.supplier = supplier,
                              !.set = ApplyProvider(base, supplier)]
  /\ UNCHANGED options

\* async_step_manual of the options flow, which shows the form of async_step_values.
OpenManual ==
  /\ options # None /\ form = None
  /\ form' = [flow |-> "options", step |-> "values", supplier |-> options.supplier,
              set |-> ApplyProvider(options.set, options.supplier)]
  /\ UNCHANGED options

\* The other steps of the options flow.
OpenSection(section) ==
  /\ options # None /\ form = None
  /\ section # "values"
  /\ form' = [flow |-> "options", step |-> section, supplier |-> options.supplier,
              set |-> options.set]
  /\ UNCHANGED options

\* The first configuration goes from the tariff to the devices to control.
FollowingStep == [values |-> "devices", devices |-> "control"]

SubmitFirst(input) ==
  /\ form # None /\ form.flow = "config" /\ form.step \in {"values", "devices"}
  /\ input \in Choices[form.step]
  /\ form' = [form EXCEPT !.step = FollowingStep[form.step], !.set[form.step] = input]
  /\ UNCHANGED options

\* async_create_entry at the end of the first configuration.
CreateEntry(input) ==
  /\ form # None /\ form.flow = "config" /\ form.step = "control"
  /\ input \in Choices["control"]
  /\ options' = [supplier |-> form.supplier, set |-> [form.set EXCEPT !["control"] = input]]
  /\ form' = None

\* The options a form is merged into, were they those of its opening.
AsOpened == [supplier |-> options.supplier, set |-> form.set]

\* The options a form is merged into: the entry's, at this moment.
Current == options

\* A form of the options or the reconfigure flow is submitted.  Its section is
\* replaced as a whole: what was left empty is not kept.
Submit(input) ==
  /\ form # None /\ form.flow # "config" /\ form.step # "supplier"
  /\ input \in Choices[form.step]
  /\ options' = [supplier |-> IF form.step = "values" THEN form.supplier
                                                      ELSE Current.supplier,
                 set      |-> [Current.set EXCEPT ![form.step] = input]]
  /\ form' = None

\* A form is closed without being submitted.
Abort ==
  /\ form # None /\ form' = None
  /\ UNCHANGED options

\* ws_config_update: the panel saves any keys of a loaded entry.
PanelUpdates(section, input) ==
  /\ options # None
  /\ input \in Choices[section]
  /\ options' = [options EXCEPT !.set[section] = input]
  /\ UNCHANGED form

PanelPicks(supplier) ==
  /\ options # None
  /\ options' = [options EXCEPT !.supplier = supplier]
  /\ UNCHANGED form

\* What a form step does without writing the options.
FormStep ==
  \/ OpenConfig
  \/ \E f \in {"reconfigure", "options"} : OpenSupplier(f)
  \/ \E s \in Suppliers \cup {Manual} : PickSupplier(s)
  \/ OpenManual
  \/ \E s \in Sections : OpenSection(s)
  \/ \E i \in AnyChoice : SubmitFirst(i)
  \/ Abort

OptionsNext ==
  \/ FormStep
  \/ \E i \in AnyChoice : CreateEntry(i)
  \/ \E i \in AnyChoice : Submit(i)
  \/ \E s \in Sections, i \in AnyChoice : PanelUpdates(s, i)
  \/ \E s \in Suppliers \cup {Manual} : PanelPicks(s)

OptionsSpec == OptionsInit /\ [][OptionsNext]_optionVars

-----------------------------------------------------------------------------
\* A form changes nothing but its own section (and the tariff form the supplier),
\* whatever the panel or another form saved between its opening and its submission.
OtherSectionsKept ==
  [][\A i \in AnyChoice : Submit(i) =>
       /\ \A s \in Sections \ {form.step} : options'.set[s] = options.set[s]
       /\ form.step # "values" => options'.supplier = options.supplier]_optionVars

\* "Manual options path edits the stored values directly", as documented: it shows
\* them.
ManualShowsStored ==
  [][OpenManual => form'.set["values"] = options.set["values"]]_optionVars

=============================================================================
