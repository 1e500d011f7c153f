----------------------------- MODULE PriceSeries -----------------------------
(***************************************************************************)
(* From an answer of the price source to a series of price points:         *)
(* data/sources/epexprijzen.py, economics.py, data/models.py and, for the  *)
(* choice of the slot a decision is about, engine/milp.py.  Pure           *)
(* operators, used by PriceFeed.                                           *)
(*                                                                         *)
(* The views of a series that the sensors show are here as well.           *)
(*                                                                         *)
(* Times are counted in quarters of an hour, the source's resolution.      *)
(* Market prices and tariff components are thousandths of a euro per kWh,  *)
(* VAT is a percentage, so that priced points are exact multiples of 10^-5 *)
(* euro.  A series is sorted by start time in the code; here it is a set.  *)
(***************************************************************************)
EXTENDS Sums
Ext == INSTANCE FiniteSetsExt

CONSTANTS
  None,        \* Python's None; also JSON of the wrong type
  PerHour,     \* quarters of an hour in an hour
  PerDay       \* and in a day

ASSUME ClockAssumption == PerHour \in 1..4 /\ PerDay \in Nat \ {0}

Resolution == 1    \* NATIVE_RESOLUTION

\* TariffConfig.  The monthly fee enters no price.
Tariff ==
  [energy_tax : Int, supplier_markup : Int, feed_in_markup : Int, vat : Nat,
   saldering : BOOLEAN]

PricePoint ==
  [start : Nat, end : Nat, market : Int, all_in : Int, feed_in : Int]

\* One element of the answer's arrays; None for a date or a price that is
\* missing or cannot be parsed.
Item == [date : Nat \cup {None}, price : Int \cup {None}]

\* The decoded answer; None for a member that is no list.
Payload ==
  [today : (SUBSET Item) \cup {None}, tomorrow : (SUBSET Item) \cup {None}]

ASSUME NoneAssumption == None \notin Int /\ None \notin Tariff

-----------------------------------------------------------------------------
ConsumptionPrice(market, t) ==
  (market + t.energy_tax + t.supplier_markup) * (100 + t.vat)

\* Under net metering an exported kWh is worth what a consumed one costs.
FeedInPrice(market, t) ==
  IF t.saldering THEN ConsumptionPrice(market, t)
                 ELSE (market - t.feed_in_markup) * (100 + t.vat)

PriceOf(item, t) ==
  [start   |-> item.date,
   end     |-> item.date + Resolution,
   market  |-> item.price,
   all_in  |-> ConsumptionPrice(item.price, t),
   feed_in |-> FeedInPrice(item.price, t)]

Listed(member) == IF member = None THEN {} ELSE member

Raw(payload) == Listed(payload.today) \cup Listed(payload.tomorrow)

\* _parse_points: items without a date or a price are skipped.
ParsePoints(raw, t) ==
  {PriceOf(item, t) : item \in {i \in raw : i.date # None /\ i.price # None}}

\* The points async_fetch returns; it raises PriceSourceError when there are none.
Points(payload, t) == ParsePoints(Raw(payload), t)

\* PricePoint.contains
Contains(p, moment) == p.start <= moment /\ moment < p.end

\* The start of the slot that PriceSeries.point_at finds, None outside the series.
SlotAt(series, moment) ==
  IF \E p \in series : Contains(p, moment)
  THEN (CHOOSE p \in series : Contains(p, moment)).start
  ELSE None

\* The start of points[0].
FirstSlot(series) ==
  (CHOOSE p \in series : \A q \in series : p.start <= q.start).start

-----------------------------------------------------------------------------
\* The views.  Their prices are counted in twelfths of the unit of the series, so
\* that the mean of up to four quarters is exact.
Scale == 12
Scaled(series) ==
  {[start |-> p.start, end |-> p.end, market |-> p.market * Scale,
    all_in |-> p.all_in * Scale, feed_in |-> p.feed_in * Scale] : p \in series}

\* PriceSeries.next_point, which despite its docstring starts after the moment.
NextPrice(series, moment) ==
  LET later == {p \in series : p.start > moment}
  IN  IF later = {} THEN None
      ELSE (CHOOSE p \in later : \A q \in later : p.start <= q.start).all_in

\* The all-in price of point_at, None outside the series.
PriceAt(series, moment) ==
  IF \E p \in series : Contains(p, moment)
  THEN (CHOOSE p \in series : Contains(p, moment)).all_in
  ELSE None

\* PriceSeries.slice_local_day
LocalDay(series, day) == {p \in series : p.start \div PerDay = day}

\* PriceSeries.min_point, max_point and average_all_in, as total / count
Lowest(series)  == IF series = {} THEN None ELSE Ext!Min({p.all_in : p \in series})
Highest(series) == IF series = {} THEN None ELSE Ext!Max({p.all_in : p \in series})
Average(series) ==
  IF series = {} THEN None
  ELSE [total |-> SumOf([p \in series |-> p.all_in]), count |-> Cardinality(series)]

\* PriceSeries.to_hourly: an hour costs the mean of the quarters there are of it.
HourStart(p) == p.start - (p.start % PerHour)

Hour(series, h) == {p \in series : HourStart(p) = h}

\* The mean, as if an hour always had all of its quarters.
MeanOfFullHour(points, field) == SumOf([p \in points |-> p[field]]) \div PerHour

Mean(points, field) == SumOf([p \in points |-> p[field]]) \div Cardinality(points)

ToHourly(series) ==
  {[start   |-> h, end |-> h + PerHour,
    market  |-> Mean(Hour(series, h), "market"),
    all_in  |-> Mean(Hour(series, h), "all_in"),
    feed_in |-> Mean(Hour(series, h), "feed_in")] : h \in {HourStart(p) : p \in series}}

=============================================================================
