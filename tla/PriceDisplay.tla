---------------------------- MODULE PriceDisplay ----------------------------
(***************************************************************************)
(* What the price entities show (sensor.py, binary_sensor.py, entity.py):  *)
(* PriceFeed with the states its coordinator's entities have written.      *)
(*                                                                         *)
(* An entity writes its state when it is added and whenever its            *)
(* coordinator has refreshed; nothing writes it when a slot ends.  The     *)
(* update interval is counted from the end of a refresh.  Display interval *)
(* and threshold are options that change like the tariff; here they are    *)
(* fixed.                                                                  *)
(***************************************************************************)
EXTENDS PriceFeed

CONSTANTS
  UpdateInterval,   \* the longest time to the next poll, in quarters
  Interval,         \* the display interval
  Threshold         \* at or below it a price is low

ASSUME DisplayAssumption ==
  /\ UpdateInterval \in Nat \ {0}
  /\ Interval \in {"hourly", "quarterly"}
  /\ Threshold \in Int

VARIABLES
  shown,        \* whether there are entities that are available, and what they show
  next_poll     \* the time of the next poll, while the timer runs

displayVars == <<vars, shown, next_poll>>

Nothing == [available |-> FALSE, view |-> None]

DisplayInit == Init /\ shown = Nothing /\ next_poll = 0

-----------------------------------------------------------------------------
\* _display_series
DisplaySeries(series) ==
  IF Interval = "hourly" THEN ToHourly(Scaled(series)) ELSE Scaled(series)

\* The binary sensor compares the quarter's price, whatever the display interval.
PriceLow(series, moment) ==
  LET price == PriceAt(series, moment)
  IN  IF price = None THEN None ELSE price <= Threshold

\* _current_all_in and the other value functions of the price sensors.
View(series, moment) ==
  LET display == DisplaySeries(series)
      today   == LocalDay(display, moment \div PerDay)
  IN  [at      |-> moment,
       current |-> PriceAt(display, moment),
       next    |-> NextPrice(display, moment),
       min     |-> Lowest(today),
       max     |-> Highest(today),
       average |-> Average(today),
       low     |-> PriceLow(series, moment)]

\* Entities that write whatever became of the refresh.
WrittenRegardless(success, series) == [available |-> TRUE, view |-> View(series, now)]

\* async_write_ha_state: an entity is available after a successful refresh only.
Written(success, series) ==
  IF success THEN [available |-> TRUE, view |-> View(series, now)] ELSE Nothing

\* The coordinator tells its listeners that a refresh has ended.
Refreshed == \E k \in {"poll", "request"} : InFlight(k) /\ fetches'[k] = None

Scheduled == timer' /\ (~timer \/ Refreshed)

\* What a step of the price feed means for its entities.  The platforms add them
\* at the end of the setup and remove them with the instance.
EntitiesFollow ==
  /\ shown' = CASE phase' # "up" -> Nothing
                [] phase' = "up" /\ (phase # "up" \/ Refreshed)
                     -> Written(last_update_success', data')
                [] OTHER -> shown
  /\ next_poll' = IF Scheduled THEN now + UpdateInterval ELSE next_poll

\* A due poll and an answer (REQUEST_TIMEOUT) take less than a quarter of an hour.
InTime ==
  /\ timer => now < next_poll
  /\ \A k \in Kinds : ~InFlight(k)

DisplayNext ==
  /\ Next
  /\ now' # now => InTime
  /\ EntitiesFollow

DisplaySpec == DisplayInit /\ [][DisplayNext]_displayVars /\ Fairness

-----------------------------------------------------------------------------
\* The series at another tariff.
Repriced(series, t) ==
  {[p EXCEPT !.all_in = ConsumptionPrice(p.market, t),
             !.feed_in = FeedInPrice(p.market, t)] : p \in series}

\* Once no reload waits, what the entities show is the present series at the saved
\* tariff, as of the time they were written; after a failed refresh, and only then,
\* they are unavailable, although the series is still there and used.
ShownIsView ==
  /\ shown.available = (phase = "up" /\ last_update_success)
  /\ (shown.available /\ reloads = 0 /\ ~missed)
       => shown.view = View(Repriced(data, options.tariff), shown.view.at)

\* Malformed items of an answer leave gaps in a series that its class calls
\* "contiguous".  An hour that is there in part is shown at a price between the
\* cheapest and the dearest quarter there is of it, one that is missing altogether
\* at none: no gap makes an hour cheaper, or lends it another hour's price.
HourShownFromItsQuarters ==
  (Interval = "hourly" /\ shown.available)
    => LET quarters == {p \in data : p.start \div PerHour = shown.view.at \div PerHour}
           price    == shown.view.current
       IN  IF quarters = {} THEN price = None
           ELSE /\ price # None
                /\ \E p \in quarters : p.all_in * Scale <= price
                /\ \E p \in quarters : price <= p.all_in * Scale

\* What is shown is no older than the update interval, whatever fails, is requested
\* or is reloaded: within it the current price may be that of a slot that is over.
ShownRecent ==
  shown.available => shown.view.at <= now /\ now - shown.view.at <= UpdateInterval

\* In the exact mode, the repair issue says whether the solver is missing, whatever
\* mode, reload or restart came before.
MilpIssueExact ==
  (phase = "up" /\ reloads = 0 /\ ~missed /\ options.mode = "milp")
    => milp_issue = ~SolverInstalled

=============================================================================
