------------------------------ MODULE Telemetry ------------------------------
(***************************************************************************)
(* From the states of Home Assistant's entities to what the coordinators   *)
(* read: data/adapters/entity_adapter.py, the aggregates of                *)
(* data/models.py and engine/forecaster.py.  Pure operators, used by       *)
(* TelemetryFeed.                                                          *)
(*                                                                         *)
(* Powers are watts, energies watt-hours and imbalance prices thousandths  *)
(* of a euro per kWh, so that every conversion is exact.                   *)
(***************************************************************************)
EXTENDS Sequences, Sums

CONSTANTS
  None,        \* Python's None; a state that does not exist
  Entities     \* the entity ids a user may configure

ASSUME TelemetryAssumption == None \notin Int /\ None \notin Entities

\* What hass.states.get returns: the state as _numeric and as _bool understand
\* it (None for unavailable, unknown and everything else), and the unit.
EntityState ==
  [value : Int \cup {None}, flag : BOOLEAN \cup {None},
   unit : {"w", "kw", "mw", "wh", "none"}]

Optional == Entities \cup {None}

\* The options the adapter and the forecaster are built from.
Sources ==
  [grid : Optional, pv : Optional, load : Optional, imbalance : Optional,
   per_mwh : BOOLEAN, ev_connected : Optional, ev_power : Optional,
   ev_soc : Optional, heatpump : Optional,
   soc : Seq(Entities), power : Seq(Entities), capacity : Nat,
   pv_next_hour : Optional, pv_today : Optional]

-----------------------------------------------------------------------------
Known(states, e) == e # None /\ states[e] # None

\* _numeric and _bool
Numeric(states, e) == IF Known(states, e) THEN states[e].value ELSE None
Bool(states, e)    == IF Known(states, e) THEN states[e].flag ELSE None

\* _POWER_TO_WATT; a unit that is not in it counts as watts.
Watts(value, unit) ==
  CASE unit = "kw" -> value * 1000
    [] unit = "mw" -> value * 1000000
    [] OTHER       -> value

\* _power_w, and the forecaster's reading of a power
PowerW(states, e) ==
  IF Numeric(states, e) = None THEN None
  ELSE Watts(states[e].value, states[e].unit)

\* _imbalance_price, from a price per MWh if so configured
ImbalancePrice(states, src) ==
  LET value == Numeric(states, src.imbalance)
  IN  IF value = None \/ src.per_mwh THEN value ELSE value * 1000

At(s, i) == IF i <= Len(s) THEN s[i] ELSE None

\* _batteries: SOC and power entities belong together by their position.
Batteries(states, src) ==
  LET count == IF Len(src.soc) > Len(src.power) THEN Len(src.soc) ELSE Len(src.power)
  IN  [i \in 1..count |-> [soc         |-> Numeric(states, At(src.soc, i)),
                           power_w     |-> PowerW(states, At(src.power, i)),
                           capacity_wh |-> src.capacity]]

\* EntityAdapter.read
Read(src, states) ==
  [grid       |-> PowerW(states, src.grid),
   pv         |-> PowerW(states, src.pv),
   batteries  |-> Batteries(states, src),
   load       |-> PowerW(states, src.load),
   connected  |-> Bool(states, src.ev_connected),
   ev_power   |-> PowerW(states, src.ev_power),
   ev_soc     |-> Numeric(states, src.ev_soc),
   heat_pump  |-> PowerW(states, src.heatpump),
   imbalance  |-> ImbalancePrice(states, src)]

\* A list of entities that misses the powers of the batteries.
TrackedWithoutPowers(src) ==
  ({src.grid, src.pv, src.load, src.imbalance, src.ev_connected, src.ev_power,
    src.ev_soc, src.heatpump} \cup {src.soc[i] : i \in DOMAIN src.soc}) \ {None}

\* entity_ids: the entities whose changes the telemetry coordinator tracks.
Tracked(src) ==
  ({src.grid, src.pv, src.load, src.imbalance, src.ev_connected, src.ev_power,
    src.ev_soc, src.heatpump}
     \cup {src.soc[i] : i \in DOMAIN src.soc}
     \cup {src.power[i] : i \in DOMAIN src.power}) \ {None}

\* EntityForecaster.predict; the naive forecaster is the case of no entities.
Predict(src, states) ==
  LET energy == Numeric(states, src.pv_today)
  IN  [next_hour |-> PowerW(states, src.pv_next_hour),
       today     |-> IF energy = None \/ states[src.pv_today].unit = "wh"
                     THEN energy ELSE energy * 1000]

\* A list that misses the forecast of the power.
ForecastIdsTodayOnly(src) == {src.pv_today} \ {None}

\* EntityForecaster.entity_ids
ForecastIds(src) == {src.pv_next_hour, src.pv_today} \ {None}

-----------------------------------------------------------------------------
\* The batteries a field of which is known, and the sum of the field over them.
Reporting(batteries, field) == {i \in DOMAIN batteries : batteries[i][field] # None}

Total(batteries, field) ==
  SumOf([i \in Reporting(batteries, field) |-> batteries[i][field]])

\* An average over all batteries, whether they are known or not.
SocAverageOverAll(tel) ==
  IF Reporting(tel.batteries, "soc") = {} THEN None
  ELSE [total |-> Total(tel.batteries, "soc"), count |-> Len(tel.batteries)]

\* battery_soc_average, as the fraction total / count
SocAverage(tel) ==
  LET known == Reporting(tel.batteries, "soc")
  IN  IF known = {} THEN None
      ELSE [total |-> Total(tel.batteries, "soc"), count |-> Cardinality(known)]

\* battery_power_total; battery_capacity_total likewise
PowerTotal(tel) ==
  IF Reporting(tel.batteries, "power_w") = {} THEN None
  ELSE Total(tel.batteries, "power_w")

OrZero(value) == IF value = None THEN 0 ELSE value

\* effective_load_w: measured, or else derived from the power balance.
EffectiveLoad(tel) ==
  CASE tel.load # None -> tel.load
    [] tel.load = None /\ tel.grid = None -> None
    [] OTHER -> tel.grid + OrZero(tel.pv) - OrZero(PowerTotal(tel))

=============================================================================
