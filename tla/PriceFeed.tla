------------------------------ MODULE PriceFeed ------------------------------
(***************************************************************************)
(* KDBrainPriceCoordinator (coordinator.py 76-131) and the config entry    *)
(* around it (__init__.py): setup, its retries and reloads, the options    *)
(* and who may save them, the repair issues, and the rounds of the         *)
(* optimiser as far as they depend on the prices and the options.          *)
(*                                                                         *)
(* A fetch is an HTTP request of up to REQUEST_TIMEOUT.  It reads the      *)
(* tariff before it awaits the answer.  Several fetches can be under way:  *)
(* the setup's, the poll's, one requested through the recalculate service, *)
(* and one requested of an instance that has been unloaded since, which    *)
(* nobody cancels (`orphan').                                              *)
(*                                                                         *)
(* Home Assistant is external: setup and reload exclude each other, a      *)
(* failed setup is retried, a change of options is told to the listeners   *)
(* registered at that moment.                                              *)
(***************************************************************************)
EXTENDS PriceSeries

CONSTANTS
  Tariffs,           \* the tariffs a user may save
  Payloads,          \* the answers of the source
  SolverInstalled,   \* whether highspy can be imported
  MaxTime,           \* bound on the clock
  MaxFailures,       \* bound on failing fetches
  MaxSaves,          \* bound on saved changes of the options
  MaxRecalls,        \* bound on calls of the recalculate service
  MaxRestarts        \* bound on restarts of Home Assistant

ASSUME FeedAssumption ==
  /\ Tariffs \subseteq Tariff
  /\ Payloads \subseteq Payload
  /\ SolverInstalled \in BOOLEAN
  /\ MaxTime \in Nat /\ MaxFailures \in Nat /\ MaxSaves \in Nat
  /\ MaxRecalls \in Nat /\ MaxRestarts \in Nat

\* An answer is a finite text.
ASSUME AnswerAssumption == \A p \in Payloads : IsFiniteSet(Raw(p))

VARIABLES
  now,           \* the current quarter
  phase,         \* of the entry: "down", "setup", "retry", "platforms", "up"
  options,       \* entry.options
  built,         \* the options adapter, actuators and forecaster were built from
  reloads,       \* reload tasks waiting for the entry's lock
  fetches,       \* per kind of fetch the tariff it has read, or None
  timer,         \* whether the poll timer is running
  data,          \* price_coordinator.data; {} for None, as every reader does
  last_update_success,
  issue,         \* repair issue price_source_unavailable
  milp_issue,    \* repair issue milp_unavailable
  decision,      \* optimization_coordinator.data
  \* History, for the properties and bounds only:
  missed,        \* whether options were saved behind the running setup's back
  failures, saves, recalls, restarts

vars == <<now, phase, options, built, reloads, fetches, timer, data,
          last_update_success, issue, milp_issue, decision, missed, failures,
          saves, recalls, restarts>>

counters == <<failures, saves, recalls, restarts>>

\* "setup" awaits the first prices, "platforms" the rest of async_setup_entry;
\* only in "up" is the update listener registered and the entry loaded.
Phases == {"down", "setup", "retry", "platforms", "up"}
Kinds  == {"first", "poll", "request", "orphan"}
Options == [tariff : Tariffs, mode : {"heuristic", "milp"}]

\* A round: which optimiser, and how long after the round the slot starts that
\* its action is meant for (None without a price for it).
Decision == [by : {"heuristic", "milp"}, ahead : Int \cup {None}]

NoFetch == [k \in Kinds |-> None]
InFlight(k) == fetches[k] # None

TypeOK ==
  /\ now \in Nat
  /\ phase \in Phases
  /\ options \in Options /\ built \in Options \cup {None}
  /\ reloads \in Nat
  /\ fetches \in [Kinds -> Tariffs \cup {None}]
  /\ timer \in BOOLEAN
  /\ data \subseteq PricePoint
  /\ last_update_success \in BOOLEAN
  /\ issue \in BOOLEAN /\ milp_issue \in BOOLEAN
  /\ decision \in Decision \cup {None}
  /\ missed \in BOOLEAN
  /\ failures \in Nat /\ saves \in Nat /\ recalls \in Nat /\ restarts \in Nat

Init ==
  /\ now = 0
  /\ phase = "down"
  /\ options \in Options /\ built = None
  /\ reloads = 0
  /\ fetches = NoFetch /\ timer = FALSE
  /\ data = {} /\ last_update_success = TRUE
  /\ issue = FALSE /\ milp_issue = FALSE
  /\ decision = None
  /\ missed = FALSE
  /\ failures = 0 /\ saves = 0 /\ recalls = 0 /\ restarts = 0

-----------------------------------------------------------------------------
\* _decide: the exact optimiser, when it is selected, installed and able to
\* solve (`solved'; a battery of known capacity, an SOC range, an optimum), and
\* the heuristic otherwise.
Decide(series, solved) ==
  IF options.mode = "milp" /\ SolverInstalled /\ solved
  THEN [by |-> "milp", ahead |-> FirstSlot(series) - now]
  ELSE [by |-> "heuristic", ahead |-> IF SlotAt(series, now) = None THEN None
                                      ELSE SlotAt(series, now) - now]

\* A round that falls back on the heuristic without a word.
RoundSilent(series) ==
  /\ \E solved \in BOOLEAN : decision' = Decide(series, solved)
  /\ UNCHANGED milp_issue

\* One round of the optimiser over a series.  The issue is raised and cleared
\* only in MILP mode.
Round(series) ==
  /\ \E solved \in BOOLEAN : decision' = Decide(series, solved)
  /\ milp_issue' = IF options.mode = "milp" THEN ~SolverInstalled ELSE milp_issue

\* Prices, telemetry or a forecast changed: any of them requests a round.
Recompute ==
  /\ phase \in {"platforms", "up"}
  /\ Round(data)
  /\ UNCHANGED <<now, phase, options, built, reloads, fetches, timer, data,
                 last_update_success, issue, missed, counters>>

-----------------------------------------------------------------------------
\* A refresh starts: the poll timer is cancelled, the tariff is read.
Fetch(kind) ==
  /\ fetches' = [fetches EXCEPT ![kind] = options.tariff]
  /\ timer' = FALSE

\* async_setup_entry, also after a failed one: a new coordinator and its
\* first refresh.
SetupStarts ==
  /\ phase \in {"down", "retry"}
  /\ phase' = "setup"
  /\ Fetch("first")
  /\ UNCHANGED <<now, options, built, reloads, data, last_update_success, issue,
                 milp_issue, decision, missed, counters>>

\* The update interval is longer than REQUEST_TIMEOUT: a poll meets no fetch of
\* its own instance.
Poll ==
  /\ timer /\ ~InFlight("poll") /\ ~InFlight("request")
  /\ Fetch("poll")
  /\ UNCHANGED <<now, phase, options, built, reloads, data, last_update_success,
                 issue, milp_issue, decision, missed, counters>>

\* The recalculate service refreshes loaded entries through the debouncer.  A
\* call during the cooldown is run at its end, which here is a call of its own;
\* a call during a requested fetch is dropped.
Recalculate ==
  /\ phase = "up" /\ recalls < MaxRecalls
  /\ ~InFlight("request")
  /\ recalls' = recalls + 1
  /\ Fetch("request")
  /\ UNCHANGED <<now, phase, options, built, reloads, data, last_update_success,
                 issue, milp_issue, decision, missed, failures, saves, restarts>>

\* A refresh ends and does not schedule the next poll.
FetchDoneUnscheduled(kind) ==
  /\ InFlight(kind)
  /\ fetches' = [fetches EXCEPT ![kind] = None]
  /\ UNCHANGED timer

\* A refresh ends, with or without success, and schedules the next poll.
FetchDone(kind) ==
  /\ InFlight(kind)
  /\ fetches' = [fetches EXCEPT ![kind] = None]
  /\ timer' = IF kind \in {"poll", "request"} THEN TRUE ELSE timer

\* _async_update_data of the first refresh succeeds: async_setup_entry goes on,
\* builds the other coordinators from the options of this moment and runs the
\* first round; the optimiser's listener starts the polling.
FirstFetchSucceeds(payload) ==
  /\ phase = "setup" /\ InFlight("first")
  /\ LET series == Points(payload, fetches["first"])
     IN  /\ series # {}
         /\ data' = series
         /\ Round(series)
  /\ fetches' = [fetches EXCEPT !["first"] = None]
  /\ phase' = "platforms"
  /\ built' = options
  /\ timer' = TRUE
  /\ last_update_success' = TRUE /\ issue' = FALSE
  /\ UNCHANGED <<now, options, reloads, missed, counters>>

\* A later refresh that also accepts an answer without a single price.
FetchSucceedsUnchecked(kind, payload) ==
  /\ kind \in {"poll", "request"} /\ FetchDone(kind)
  /\ data' = Points(payload, fetches[kind])
  /\ last_update_success' = TRUE /\ issue' = FALSE
  /\ UNCHANGED <<now, phase, options, built, reloads, milp_issue, decision, missed,
                 counters>>

\* A later refresh succeeds and replaces the series.
FetchSucceeds(kind, payload) ==
  /\ kind \in {"poll", "request"} /\ FetchDone(kind)
  /\ Points(payload, fetches[kind]) # {}
  /\ data' = Points(payload, fetches[kind])
  /\ last_update_success' = TRUE /\ issue' = FALSE
  /\ UNCHANGED <<now, phase, options, built, reloads, milp_issue, decision, missed,
                 counters>>

\* PriceSourceError: no answer in time, an HTTP error, no object, or no valid
\* price in it.
Rejected(answer, tariff) == answer # None => Points(answer, tariff) = {}

\* A refresh fails.  The old series stays; in the setup there is none, and Home
\* Assistant will retry.
RefreshFails(kind) ==
  /\ FetchDone(kind)
  /\ failures < MaxFailures /\ failures' = failures + 1
  /\ phase' = IF kind = "first" THEN "retry" ELSE phase
  /\ missed' = IF kind = "first" THEN FALSE ELSE missed
  /\ last_update_success' = IF kind \in {"poll", "request"} THEN FALSE
                                                            ELSE last_update_success
  /\ UNCHANGED <<now, options, built, reloads, data, milp_issue, decision, saves,
                 recalls, restarts>>

\* The source fails in a way async_fetch knows: the repair issue is raised.
FetchFails(kind, answer) ==
  /\ RefreshFails(kind)
  /\ Rejected(answer, fetches[kind])
  /\ issue' = TRUE

\* The answer is no JSON, or an item is no object: the exception is none that
\* _async_request or _async_update_data catches.
FetchBreaks(kind) ==
  /\ RefreshFails(kind)
  /\ UNCHANGED issue

\* A fetch of an unloaded instance ends: all that is left of it is the issue.
OrphanSucceeds(payload) ==
  /\ FetchDone("orphan")
  /\ Points(payload, fetches["orphan"]) # {}
  /\ issue' = FALSE
  /\ UNCHANGED <<now, phase, options, built, reloads, data, last_update_success,
                 milp_issue, decision, missed, counters>>

-----------------------------------------------------------------------------
\* The rest of async_setup_entry: first writes, platforms, the update listener.
SetupEnds ==
  /\ phase = "platforms"
  /\ phase' = "up"
  /\ UNCHANGED <<now, options, built, reloads, fetches, timer, data,
                 last_update_success, issue, milp_issue, decision, missed, counters>>

\* The instance is gone.
InstanceDropped ==
  /\ phase' = "down"
  /\ built' = None
  /\ timer' = FALSE
  /\ data' = {} /\ last_update_success' = TRUE
  /\ decision' = None
  /\ missed' = FALSE

\* A reload nobody asked for.
ReloadUnasked ==
  /\ phase \in {"up", "retry"}
  /\ reloads' = reloads - 1
  /\ InFlight("request") => ~InFlight("orphan")
  /\ fetches' = [NoFetch EXCEPT !["orphan"] = IF InFlight("request")
                                              THEN fetches["request"]
                                              ELSE fetches["orphan"]]
  /\ InstanceDropped
  /\ UNCHANGED <<now, options, issue, milp_issue, counters>>

\* async_reload: unload and set up again under the entry's lock; the setup is
\* the next SetupStarts.  A poll is cancelled, a requested fetch goes on.
\* Bound: at most one orphan is followed.
Reload ==
  /\ reloads > 0 /\ phase \in {"up", "retry"}
  /\ reloads' = reloads - 1
  /\ InFlight("request") => ~InFlight("orphan")
  /\ fetches' = [NoFetch EXCEPT !["orphan"] = IF InFlight("request")
                                              THEN fetches["request"]
                                              ELSE fetches["orphan"]]
  /\ InstanceDropped
  /\ UNCHANGED <<now, options, issue, milp_issue, counters>>

\* Home Assistant stops and starts: the issues are not persistent.
Restart ==
  /\ restarts < MaxRestarts /\ restarts' = restarts + 1
  /\ fetches' = NoFetch /\ reloads' = 0
  /\ InstanceDropped
  /\ issue' = FALSE /\ milp_issue' = FALSE
  /\ UNCHANGED <<now, options, failures, saves, recalls>>

\* A listener that has not been registered.
NeverListening == FALSE

\* Whether a saved change is told to _async_update_listener.
Listening == phase = "up"

Saved(o) ==
  /\ saves < MaxSaves /\ saves' = saves + 1
  /\ o # options /\ options' = o
  /\ UNCHANGED <<now, phase, built, fetches, timer, data, last_update_success,
                 issue, milp_issue, decision, failures, recalls, restarts>>

Told == IF Listening THEN 1 ELSE 0

\* kd_brain/config/update merges changes into the options of a loaded entry.
UpdateConfig(o) ==
  /\ phase = "up"
  /\ Saved(o)
  /\ reloads' = reloads + Told
  /\ UNCHANGED missed

\* A form of the options flow, opened earlier, is submitted: this is possible at
\* any time, also while the entry is being set up.
SubmitOptions(o) ==
  /\ Saved(o)
  /\ reloads' = reloads + Told
  /\ missed' = (missed \/ phase \in {"setup", "platforms"})

\* The reconfigure flow changes the tariff, and schedules a reload itself.
Reconfigure(t) ==
  /\ Saved([options EXCEPT !.tariff = t])
  /\ reloads' = reloads + Told + 1
  /\ UNCHANGED missed

Tick ==
  /\ now < MaxTime /\ now' = now + 1
  /\ UNCHANGED <<phase, options, built, reloads, fetches, timer, data,
                 last_update_success, issue, milp_issue, decision, missed, counters>>

Next ==
  \/ Recompute
  \/ SetupStarts
  \/ Poll
  \/ Recalculate
  \/ \E p \in Payloads : FirstFetchSucceeds(p)
  \/ \E k \in Kinds, p \in Payloads : FetchSucceeds(k, p)
  \/ \E k \in Kinds, a \in Payloads \cup {None} : FetchFails(k, a)
  \/ \E k \in Kinds : FetchBreaks(k)
  \/ \E p \in Payloads : OrphanSucceeds(p)
  \/ SetupEnds
  \/ Reload
  \/ Restart
  \/ \E o \in Options : UpdateConfig(o)
  \/ \E o \in Options : SubmitOptions(o)
  \/ \E t \in Tariffs : Reconfigure(t)
  \/ Tick

Spec == Init /\ [][Next]_vars

\* Timers fire, waiting tasks get the lock, and a fetch that does not fail is
\* answered within REQUEST_TIMEOUT.
Fairness ==
  /\ WF_vars(SetupStarts)
  /\ WF_vars(SetupEnds)
  /\ WF_vars(Poll)
  /\ WF_vars(Reload)
  /\ WF_vars(\E p \in Payloads : FirstFetchSucceeds(p))
  /\ \A k \in Kinds : WF_vars(\E p \in Payloads : FetchSucceeds(k, p))
  /\ WF_vars(\E p \in Payloads : OrphanSucceeds(p))

FairSpec == Spec /\ Fairness

-----------------------------------------------------------------------------
\* Once set up, the entry serves prices: the first refresh gates the setup, and no
\* sequence of failing polls, recalculations or reloads leaves a running instance
\* without a series, or keeps anything of it running when it is gone.
RunningHasPrices ==
  IF phase \in {"platforms", "up"}
  THEN data # {}
  ELSE data = {} /\ ~timer /\ ~InFlight("poll") /\ ~InFlight("request")

\* Both prices of every point are those of the tariff.
PricedAt(series, t) ==
  \A p \in series : /\ p.all_in = ConsumptionPrice(p.market, t)
                    /\ p.feed_in = FeedInPrice(p.market, t)

\* "Reload the entry when its options change": when no reload is waiting, a loaded
\* entry was built from the saved options and shows prices at the saved tariff,
\* whatever was under way when they were saved -- unless an options form was
\* submitted during the setup, when nobody listens.
ChangesTakeEffect ==
  (phase = "up" /\ reloads = 0 /\ ~missed)
    => /\ built = options
       /\ PricedAt(data, options.tariff)

\* "It will keep retrying automatically": when the source no longer fails, the
\* entry ends up loaded for good, with a successful last update, no repair issue
\* for the source and prices at the saved tariff, whatever failed, was saved or
\* was reloaded before; a form submitted during the setup is made up for by the
\* next poll as far as the tariff goes.
SettlesWithPrices ==
  <>[](/\ phase = "up" /\ last_update_success /\ ~issue
       /\ PricedAt(data, options.tariff))

\* The exact optimiser "takes the action for now", as documented.
ExactDecisionIsForNow ==
  (decision # None /\ decision.by = "milp") => decision.ahead = 0

=============================================================================
