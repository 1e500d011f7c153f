-------------------------- MODULE PriceFeed_proofs --------------------------
(***************************************************************************)
(* PriceFeed keeps its safety properties for every tariff, every answer of *)
(* the source and every number of failures, saved changes, recalculations  *)
(* and restarts.                                                           *)
(*                                                                         *)
(* That a loaded entry shows what was saved is not inductive by itself: a  *)
(* fetch on its way may bring a series at another tariff.  The invariant   *)
(* therefore says of every fetch of the running instance what the property *)
(* says of its data (CurrentInv), and that the first fetch is under way    *)
(* exactly during the setup (FirstInv).                                    *)
(***************************************************************************)
EXTENDS PriceDisplay, Sums_proofs

FirstInv == InFlight("first") <=> phase = "setup"

CurrentInv ==
  (reloads = 0 /\ ~missed)
    => /\ phase = "setup" => fetches["first"] = options.tariff
       /\ phase \in {"platforms", "up"}
            => /\ built = options
               /\ PricedAt(data, options.tariff)
               /\ \A k \in {"poll", "request"} :
                    InFlight(k) => fetches[k] = options.tariff

IInv == TypeOK /\ RunningHasPrices /\ FirstInv /\ CurrentInv

-----------------------------------------------------------------------------
LEMMA ConsumptionTyped ==
  ASSUME NEW m \in Int, NEW t \in Tariff
  PROVE  ConsumptionPrice(m, t) \in Int /\ FeedInPrice(m, t) \in Int
  BY DEF ConsumptionPrice, FeedInPrice, Tariff

\* What async_fetch returns: points, each priced with the tariff it was given.
LEMMA PointsPriced ==
  ASSUME NEW payload \in Payload, NEW t \in Tariff
  PROVE  /\ Points(payload, t) \subseteq PricePoint
         /\ PricedAt(Points(payload, t), t)
<1>1. Raw(payload) \subseteq Item
  BY DEF Raw, Listed, Payload
<1>. SUFFICES ASSUME NEW p \in Points(payload, t)
              PROVE  /\ p \in PricePoint
                     /\ p.all_in = ConsumptionPrice(p.market, t)
                     /\ p.feed_in = FeedInPrice(p.market, t)
  BY DEF PricedAt
<1>2. PICK item \in Raw(payload) :
        item.date # None /\ item.price # None /\ p = PriceOf(item, t)
  BY DEF Points, ParsePoints
<1>3. item.date \in Nat /\ item.price \in Int
  BY <1>1, <1>2 DEF Item
<1>4. /\ ConsumptionPrice(item.price, t) \in Int
      /\ FeedInPrice(item.price, t) \in Int
  BY <1>3, ConsumptionTyped
<1>. QED
  BY <1>2, <1>3, <1>4 DEF PriceOf, PricePoint, Resolution

\* A series has a first slot.
LEMMA FirstSlotTyped ==
  ASSUME NEW series \in SUBSET PricePoint, series # {}
  PROVE  FirstSlot(series) \in Nat
<1> DEFINE starts == {p.start : p \in series}
<1>1. starts \subseteq Nat /\ starts # {}
  BY DEF PricePoint
<1>2. PICK s \in starts : \A r \in starts : s <= r
  <2>. HIDE DEF starts
  <2>. QED
    BY <1>1, LeastNat
<1>3. \E p \in series : \A q \in series : p.start <= q.start
  BY <1>2
<1>. QED
  BY <1>3 DEF FirstSlot, PricePoint

LEMMA SlotTyped ==
  ASSUME NEW series \in SUBSET PricePoint, NEW moment \in Nat
  PROVE  SlotAt(series, moment) \in Nat \cup {None}
  BY DEF SlotAt, PricePoint

\* Whatever optimiser decides, a round yields a decision.
LEMMA RoundTyped ==
  ASSUME TypeOK, NEW series \in SUBSET PricePoint, series # {}, Round(series)
  PROVE  decision' \in Decision /\ milp_issue' \in BOOLEAN
<1>1. FirstSlot(series) \in Nat /\ SlotAt(series, now) \in Nat \cup {None}
  BY FirstSlotTyped, SlotTyped DEF TypeOK
<1>2. PICK solved \in BOOLEAN : decision' = Decide(series, solved)
  BY DEF Round
<1>3. decision' \in Decision
  BY <1>1, <1>2, NoneAssumption DEF Decide, Decision, TypeOK
<1>. QED
  BY <1>3, FeedAssumption DEF Round, TypeOK

\* Without net metering an exported kWh is never worth more than a consumed one
\* costs, as long as taxes and markups add up to something that is not negative;
\* with it, exactly as much.
THEOREM FeedInNotAbove ==
  ASSUME NEW market \in Int, NEW t \in Tariff,
         t.energy_tax + t.supplier_markup + t.feed_in_markup >= 0
  PROVE  /\ FeedInPrice(market, t) <= ConsumptionPrice(market, t)
         /\ t.saldering => FeedInPrice(market, t) = ConsumptionPrice(market, t)
<1> DEFINE net   == market - t.feed_in_markup
           gross == market + t.energy_tax + t.supplier_markup
           rate  == 100 + t.vat
<1>1. /\ net \in Int /\ gross \in Int /\ rate \in Nat /\ net <= gross
  BY DEF Tariff
<1>2. net * rate <= gross * rate
  <2>. HIDE DEF net, gross, rate
  <2>1. (gross - net) * rate >= 0 /\ gross - net \in Nat
    BY <1>1
  <2>2. (gross - net) * rate = gross * rate - net * rate
    BY <1>1
  <2>. QED
    BY <2>1, <2>2, <1>1
<1>3. ConsumptionPrice(market, t) = gross * rate
  BY DEF ConsumptionPrice
<1>4. ~t.saldering => FeedInPrice(market, t) = net * rate
  BY DEF FeedInPrice
<1>5. t.saldering => FeedInPrice(market, t) = ConsumptionPrice(market, t)
  BY DEF FeedInPrice
<1>6. ConsumptionPrice(market, t) \in Int
  BY ConsumptionTyped
<1>. HIDE DEF net, gross, rate
<1>. QED
  BY <1>2, <1>3, <1>4, <1>5, <1>6

-----------------------------------------------------------------------------
\* The views of a series.  A series of quarters, as the source publishes it.
Quarterly(series) ==
  series \subseteq PricePoint /\ \A p \in series : p.end = p.start + Resolution

Fields == {"market", "all_in", "feed_in"}

\* The first moment of an hour.
HourOf(moment) == moment - (moment % PerHour)

\* Whatever the source answers, and in whatever unit, the series is one.
LEMMA PointsQuarterly ==
  ASSUME NEW payload \in Payload, NEW t \in Tariff
  PROVE  Quarterly(Points(payload, t)) /\ Quarterly(Scaled(Points(payload, t)))
<1> DEFINE series == Points(payload, t)
<1>1. series \subseteq PricePoint
  BY PointsPriced
<1>2. \A p \in series : p.end = p.start + Resolution
  BY DEF Points, ParsePoints, PriceOf
<1>. HIDE DEF series
<1>3. ASSUME NEW p \in series
      PROVE  /\ p.start \in Nat /\ p.end \in Nat /\ p.end = p.start + Resolution
             /\ p.market * Scale \in Int /\ p.all_in * Scale \in Int
             /\ p.feed_in * Scale \in Int
  BY <1>1, <1>2 DEF PricePoint, Scale
<1>4. Quarterly(Scaled(series))
  BY <1>3 DEF Quarterly, Scaled, PricePoint
<1>. QED
  BY <1>1, <1>2, <1>4 DEF Quarterly, series

\* The mean of some prices lies between them.
LEMMA MeanBetween ==
  ASSUME NEW points \in SUBSET PricePoint, IsFiniteSet(points), points # {},
         NEW field \in Fields
  PROVE  /\ Mean(points, field) \in Int
         /\ \E p \in points : p[field] <= Mean(points, field)
         /\ \E p \in points : Mean(points, field) <= p[field]
<1> DEFINE f == [p \in points |-> p[field]]
           total == SumOf(f)
           n == Cardinality(points)
<1>1. DOMAIN f = points /\ \A p \in points : f[p] \in Int /\ f[p] = p[field]
  BY DEF PricePoint, Fields
<1>2. Mean(points, field) = total \div n
  BY DEF Mean
<1>3. n \in Nat \ {0}
  BY FS_CardinalityType, FS_EmptySet
<1>. HIDE DEF f
<1>4. /\ total \in Int
      /\ \E p \in points : f[p] * n <= total
      /\ \E p \in points : total <= f[p] * n
  BY <1>1, SumBetween
<1>. HIDE DEF total, n
<1> DEFINE q == total \div n
           r == total % n
<1>5. /\ q \in Int /\ r \in Int /\ total = n * q + r /\ 0 <= r /\ r < n
  BY <1>3, <1>4
<1>. HIDE DEF q, r
<1>6. ASSUME NEW a \in Int, a * n <= total PROVE a <= q
  <2>. SUFFICES ASSUME q + 1 <= a PROVE FALSE
    BY <1>5
  <2>1. (q + 1) * n <= a * n
    BY <1>3, <1>5
  <2>2. (q + 1) * n = n * q + n
    BY <1>3, <1>5
  <2>. QED
    BY <1>3, <1>4, <1>5, <1>6, <2>1, <2>2
<1>7. ASSUME NEW b \in Int, total <= b * n PROVE q <= b
  <2>. SUFFICES ASSUME b + 1 <= q PROVE FALSE
    BY <1>5
  <2>1. (b + 1) * n <= q * n
    BY <1>3, <1>5
  <2>2. (b + 1) * n = b * n + n /\ q * n = n * q /\ b * n \in Int
    BY <1>3, <1>5
  <2>. QED
    BY <1>3, <1>4, <1>5, <1>7, <2>1, <2>2
<1>8. \E p \in points : p[field] <= q
  <2>1. PICK p \in points : f[p] * n <= total
    BY <1>4
  <2>. QED
    BY <1>1, <1>6, <2>1
<1>9. \E p \in points : q <= p[field]
  <2>1. PICK p \in points : total <= f[p] * n
    BY <1>4
  <2>. QED
    BY <1>1, <1>7, <2>1
<1>. QED
  BY <1>2, <1>5, <1>8, <1>9 DEF q

\* The hour of a quarter begins no later than it, ends after it, and is that of
\* every quarter in between.
LEMMA HourFacts ==
  ASSUME NEW n \in Nat
  PROVE  /\ HourOf(n) \in Nat /\ HourOf(n) <= n /\ n < HourOf(n) + PerHour
         /\ \A m \in Nat : (HourOf(n) <= m /\ m < HourOf(n) + PerHour)
                            <=> HourOf(m) = HourOf(n)
<1>1. PerHour = 1 \/ PerHour = 2 \/ PerHour = 3 \/ PerHour = 4
  BY ClockAssumption
<1>2. CASE PerHour = 1
  BY <1>2 DEF HourOf
<1>3. CASE PerHour = 2
  BY <1>3 DEF HourOf
<1>4. CASE PerHour = 3
  BY <1>4 DEF HourOf
<1>5. CASE PerHour = 4
  BY <1>5 DEF HourOf
<1>. QED
  BY <1>1, <1>2, <1>3, <1>4, <1>5

LEMMA HourTyped ==
  ASSUME NEW series, Quarterly(series), NEW h
  PROVE  /\ Hour(series, h) \in SUBSET PricePoint
         /\ IsFiniteSet(series) => IsFiniteSet(Hour(series, h))
         /\ \A p \in Hour(series, h) : p.start \in Nat /\ h = HourOf(p.start)
  BY FS_Subset DEF Hour, HourStart, HourOf, Quarterly, PricePoint

\* An hour of the view begins where its quarters' hour does, and costs their mean.
LEMMA HourlyPoint ==
  ASSUME NEW series, Quarterly(series), NEW q \in ToHourly(series)
  PROVE  /\ Hour(series, q.start) # {}
         /\ q.start \in Nat /\ HourOf(q.start) = q.start /\ q.end = q.start + PerHour
         /\ \A field \in Fields : q[field] = Mean(Hour(series, q.start), field)
<1>1. PICK p \in series :
        q = [start   |-> HourStart(p), end |-> HourStart(p) + PerHour,
             market  |-> Mean(Hour(series, HourStart(p)), "market"),
             all_in  |-> Mean(Hour(series, HourStart(p)), "all_in"),
             feed_in |-> Mean(Hour(series, HourStart(p)), "feed_in")]
  BY DEF ToHourly
<1>2. p \in Hour(series, HourStart(p)) /\ p.start \in Nat /\ HourStart(p) = HourOf(p.start)
  BY DEF Hour, HourStart, HourOf, Quarterly, PricePoint
<1>3. HourOf(p.start) \in Nat /\ HourOf(HourOf(p.start)) = HourOf(p.start)
  <2>1. HourOf(p.start) \in Nat
    BY <1>2, HourFacts
  <2>2. HourOf(p.start) < HourOf(p.start) + PerHour
    BY <2>1, ClockAssumption
  <2>. QED
    BY <1>2, <2>1, <2>2, HourFacts
<1>. QED
  BY <1>1, <1>2, <1>3 DEF Fields

\* At any moment the hourly view shows one price: the mean of the quarters there are
\* of the hour the moment is in, and none if there are none.
THEOREM HourlyPrice ==
  ASSUME NEW series, Quarterly(series), NEW moment \in Nat
  PROVE  PriceAt(ToHourly(series), moment)
           = IF Hour(series, HourOf(moment)) = {} THEN None
             ELSE Mean(Hour(series, HourOf(moment)), "all_in")
<1> DEFINE h == HourOf(moment)
<1>1. ASSUME NEW q \in ToHourly(series)
      PROVE  Contains(q, moment) <=> q.start = h
  <2>1. q.start \in Nat /\ HourOf(q.start) = q.start /\ q.end = q.start + PerHour
    BY HourlyPoint
  <2>2. /\ q.start <= moment /\ moment < q.start + PerHour
             <=> HourOf(moment) = HourOf(q.start)
    BY <2>1, HourFacts
  <2>. QED
    BY <2>1, <2>2 DEF Contains
<1>2. ASSUME NEW q \in ToHourly(series), Contains(q, moment)
      PROVE  Hour(series, h) # {} /\ q.all_in = Mean(Hour(series, h), "all_in")
  <2>1. q.start = h /\ "all_in" \in Fields
    BY <1>1, <1>2 DEF Fields
  <2>2. Hour(series, q.start) # {} /\ q["all_in"] = Mean(Hour(series, q.start), "all_in")
    BY <2>1, HourlyPoint
  <2>. QED
    BY <2>1, <2>2
<1>3. ASSUME Hour(series, h) # {}
      PROVE  \E q \in ToHourly(series) : Contains(q, moment)
  <2>1. PICK p \in series : HourStart(p) = h
    BY <1>3 DEF Hour
  <2> DEFINE q == [start   |-> HourStart(p), end |-> HourStart(p) + PerHour,
                   market  |-> Mean(Hour(series, HourStart(p)), "market"),
                   all_in  |-> Mean(Hour(series, HourStart(p)), "all_in"),
                   feed_in |-> Mean(Hour(series, HourStart(p)), "feed_in")]
  <2>2. q \in ToHourly(series) /\ q.start = h
    BY <2>1 DEF ToHourly
  <2>. QED
    BY <2>2, <1>1
<1>. HIDE DEF h
<1>4. CASE Hour(series, h) = {}
  BY <1>2, <1>4 DEF PriceAt, h
<1>5. CASE Hour(series, h) # {}
  <2>1. PriceAt(ToHourly(series), moment)
          = (CHOOSE q \in ToHourly(series) : Contains(q, moment)).all_in
    BY <1>3, <1>5 DEF PriceAt
  <2>. QED
    BY <1>2, <1>3, <1>5, <2>1 DEF h
<1>. QED
  BY <1>4, <1>5

\* A series that is shown consists of finitely many points.
LEMMA DisplayTyped ==
  ASSUME NEW series, Quarterly(series), IsFiniteSet(series)
  PROVE  /\ Quarterly(Scaled(series)) /\ IsFiniteSet(Scaled(series))
         /\ ToHourly(series) \subseteq PricePoint /\ IsFiniteSet(ToHourly(series))
<1>1. \A p \in series : /\ p.start \in Nat /\ p.end \in Nat /\ p.end = p.start + Resolution
                        /\ p.market * Scale \in Int /\ p.all_in * Scale \in Int
                        /\ p.feed_in * Scale \in Int
  BY DEF Quarterly, PricePoint, Scale
<1>2. Quarterly(Scaled(series))
  BY <1>1 DEF Quarterly, Scaled, PricePoint
<1>3. IsFiniteSet(Scaled(series))
  <2> DEFINE T == Scaled(series)
             f == [p \in series |->
                     [start |-> p.start, end |-> p.end, market |-> p.market * Scale,
                      all_in |-> p.all_in * Scale, feed_in |-> p.feed_in * Scale]]
  <2>1. f \in [series -> T] /\ \A q \in T : \E p \in series : f[p] = q
    BY DEF Scaled
  <2>. HIDE DEF f, T
  <2>2. IsFiniteSet(T)
    BY <2>1, ImageFinite
  <2>. QED
    BY <2>2 DEF T
<1>4. ASSUME NEW q \in ToHourly(series)
      PROVE  q \in PricePoint
  <2> DEFINE points == Hour(series, q.start)
  <2>1. points \in SUBSET PricePoint /\ IsFiniteSet(points) /\ points # {}
    BY HourTyped, HourlyPoint
  <2>2. \A field \in Fields : q[field] = Mean(points, field)
    BY HourlyPoint
  <2>. HIDE DEF points
  <2>3. \A field \in Fields : Mean(points, field) \in Int
    BY <2>1, MeanBetween
  <2>4. q["market"] \in Int /\ q["all_in"] \in Int /\ q["feed_in"] \in Int
    BY <2>2, <2>3 DEF Fields
  <2>5. q.start \in Nat /\ q.end \in Nat
    BY HourlyPoint, ClockAssumption
  <2>6. PICK h, a, b, c : q = [start |-> h, end |-> h + PerHour, market |-> a,
                               all_in |-> b, feed_in |-> c]
    BY DEF ToHourly
  <2>. QED
    BY <2>4, <2>5, <2>6 DEF PricePoint
<1>5. IsFiniteSet(ToHourly(series))
  <2> DEFINE T == ToHourly(series)
             f == [p \in series |->
                     [start   |-> HourStart(p), end |-> HourStart(p) + PerHour,
                      market  |-> Mean(Hour(series, HourStart(p)), "market"),
                      all_in  |-> Mean(Hour(series, HourStart(p)), "all_in"),
                      feed_in |-> Mean(Hour(series, HourStart(p)), "feed_in")]]
  <2>1. f \in [series -> T] /\ \A q \in T : \E p \in series : f[p] = q
    BY DEF ToHourly
  <2>. HIDE DEF f, T
  <2>2. IsFiniteSet(T)
    BY <2>1, ImageFinite
  <2>. QED
    BY <2>2 DEF T
<1>. QED
  BY <1>2, <1>3, <1>4, <1>5

\* The cheapest and the dearest point of a series bound its prices and its average.
LEMMA LowestHighest ==
  ASSUME NEW series \in SUBSET PricePoint, IsFiniteSet(series), series # {}
  PROVE  /\ Lowest(series) \in Int /\ Highest(series) \in Int
         /\ \A p \in series : Lowest(series) <= p.all_in /\ p.all_in <= Highest(series)
         /\ Average(series).count \in Nat \ {0}
         /\ Lowest(series) * Average(series).count <= Average(series).total
         /\ Average(series).total <= Highest(series) * Average(series).count
<1> DEFINE prices == {p.all_in : p \in series}
           f == [p \in series |-> p.all_in]
           n == Cardinality(series)
<1>1. prices \in SUBSET Int /\ prices # {}
  BY DEF PricePoint
<1>2. IsFiniteSet(prices)
  <2>1. f \in [series -> prices] /\ \A x \in prices : \E p \in series : f[p] = x
    OBVIOUS
  <2>. HIDE DEF f, prices
  <2>. QED
    BY <2>1, ImageFinite
<1>3. Lowest(series) = Ext!Min(prices) /\ Highest(series) = Ext!Max(prices)
  BY DEF Lowest, Highest
<1>4. /\ Lowest(series) \in prices /\ \A y \in prices : Lowest(series) <= y
      /\ Highest(series) \in prices /\ \A y \in prices : y <= Highest(series)
  <2>. HIDE DEF prices
  <2>1. /\ \E x \in prices : \A y \in prices : x <= y
        /\ \E x \in prices : \A y \in prices : y <= x
    BY <1>1, <1>2, LeastAndGreatest
  <2>2. \A x, y \in prices : x >= y <=> y <= x
    BY <1>1
  <2>. QED
    BY <1>3, <2>1, <2>2 DEF Ext!Min, Ext!Max
<1>5. Average(series) = [total |-> SumOf(f), count |-> n]
  BY DEF Average
<1>6. n \in Nat \ {0}
  BY FS_CardinalityType, FS_EmptySet
<1>7. DOMAIN f = series /\ \A p \in series : f[p] \in Int /\ f[p] \in prices
  BY DEF PricePoint
<1>. HIDE DEF f
<1>8. /\ SumOf(f) \in Int
      /\ \E p \in series : f[p] * n <= SumOf(f)
      /\ \E p \in series : SumOf(f) <= f[p] * n
  BY <1>7, SumBetween
<1>9. \A p \in series : Lowest(series) <= p.all_in /\ p.all_in <= Highest(series)
  BY <1>4
<1>. HIDE DEF n, prices
<1>10. \A a, b \in Int : a <= b => a * n <= b * n /\ a * n \in Int /\ b * n \in Int
  BY <1>6
<1>11. Lowest(series) \in Int /\ Highest(series) \in Int
  BY <1>1, <1>4
<1>12. Lowest(series) * n <= SumOf(f)
  <2>1. PICK p \in series : f[p] * n <= SumOf(f)
    BY <1>8
  <2>2. Lowest(series) <= f[p] /\ f[p] \in Int
    BY <1>4, <1>7
  <2>. QED
    BY <1>8, <1>10, <1>11, <2>1, <2>2
<1>13. SumOf(f) <= Highest(series) * n
  <2>1. PICK p \in series : SumOf(f) <= f[p] * n
    BY <1>8
  <2>2. f[p] <= Highest(series) /\ f[p] \in Int
    BY <1>4, <1>7
  <2>. QED
    BY <1>8, <1>10, <1>11, <2>1, <2>2
<1>. QED
  BY <1>5, <1>6, <1>9, <1>11, <1>12, <1>13

\* A day of whole hours begins with an hour, so that a moment and its hour are on
\* the same day.
LEMMA SameDay ==
  ASSUME NEW moment \in Nat, PerDay % PerHour = 0
  PROVE  HourOf(moment) \div PerDay = moment \div PerDay
<1> DEFINE d == moment \div PerDay
           r == moment % PerDay
           midnight == PerDay * d
           h == HourOf(moment)
<1>1. /\ d \in Nat /\ r \in Nat /\ moment = midnight + r /\ r < PerDay
      /\ midnight \in Nat /\ PerDay \in Nat \ {0}
  BY ClockAssumption
<1>2. h \in Nat /\ h <= moment /\ moment < h + PerHour
  BY HourFacts
<1>3. HourOf(midnight) = midnight
  <2> DEFINE k == PerDay \div PerHour
  <2>1. PerDay = PerHour * k /\ k \in Nat
    <3>1. PerHour = 1 \/ PerHour = 2 \/ PerHour = 3 \/ PerHour = 4
      BY ClockAssumption
    <3>. QED
      BY <1>1, <3>1
  <2>. HIDE DEF k, d
  <2>2. midnight = PerHour * (k * d) /\ k * d \in Nat
    BY <1>1, <2>1, ClockAssumption
  <2>. HIDE DEF midnight
  <2> DEFINE m == k * d
  <2>3. midnight = PerHour * m /\ m \in Nat
    BY <2>2
  <2>. HIDE DEF m
  <2>4. PerHour = 1 \/ PerHour = 2 \/ PerHour = 3 \/ PerHour = 4
    BY ClockAssumption
  <2>5. (PerHour * m) % PerHour = 0
    BY <2>3, <2>4
  <2>. QED
    BY <1>1, <2>3, <2>5 DEF HourOf
<1>. HIDE DEF d, r, h
<1>4. midnight <= h
  <2>. SUFFICES ASSUME h < midnight PROVE FALSE
    BY <1>1, <1>2
  <2>1. h <= midnight /\ midnight < h + PerHour
    BY <1>1, <1>2, ClockAssumption
  <2>2. HourOf(midnight) = HourOf(moment)
    BY <1>1, <2>1, HourFacts DEF h
  <2>. QED
    BY <1>1, <1>2, <1>3, <2>2 DEF h
<1>5. midnight <= h /\ h < midnight + PerDay
  BY <1>1, <1>2, <1>4
<1> DEFINE q == h \div PerDay
           s == h % PerDay
<1>6. q \in Int /\ s \in Int /\ h = PerDay * q + s /\ 0 <= s /\ s < PerDay
  BY <1>1, <1>2
<1>. HIDE DEF q, s
<1>7. ~(q + 1 <= d)
  <2>. SUFFICES ASSUME q + 1 <= d PROVE FALSE
    OBVIOUS
  <2>1. PerDay * (q + 1) <= PerDay * d /\ PerDay * (q + 1) = PerDay * q + PerDay
    BY <1>1, <1>6
  <2>. QED
    BY <1>1, <1>2, <1>5, <1>6, <2>1
<1>8. ~(d + 1 <= q)
  <2>. SUFFICES ASSUME d + 1 <= q PROVE FALSE
    OBVIOUS
  <2>1. PerDay * (d + 1) <= PerDay * q /\ PerDay * (d + 1) = PerDay * d + PerDay
    BY <1>1, <1>6
  <2>. QED
    BY <1>1, <1>2, <1>5, <1>6, <2>1
<1>9. q = d
  BY <1>1, <1>6, <1>7, <1>8
<1>. QED
  BY <1>9 DEF q, d, h

\* What the price sensors show fits together, for every series, moment and display
\* interval: a price of the quarter is a price of the hour, the current price and the
\* day's average lie between the day's lowest and highest price.
THEOREM ViewConsistent ==
  ASSUME NEW series, Quarterly(series), IsFiniteSet(series), NEW moment \in Nat,
         PerDay % PerHour = 0
  PROVE  LET v == View(series, moment)
         IN  /\ PriceAt(series, moment) # None => v.current # None
             /\ v.current # None => v.min <= v.current /\ v.current <= v.max
             /\ v.average # None
                  => /\ v.min * v.average.count <= v.average.total
                     /\ v.average.total <= v.max * v.average.count
<1> DEFINE points == Scaled(series)
           display == DisplaySeries(series)
           today == LocalDay(display, moment \div PerDay)
<1>1. Quarterly(points) /\ IsFiniteSet(points)
  BY DisplayTyped
<1>2. display \in SUBSET PricePoint /\ IsFiniteSet(display)
  <2>1. ToHourly(points) \subseteq PricePoint /\ IsFiniteSet(ToHourly(points))
    BY <1>1, DisplayTyped
  <2>. QED
    BY <1>1, <2>1 DEF DisplaySeries, Quarterly
<1>3. today \in SUBSET PricePoint /\ IsFiniteSet(today)
  BY <1>2, FS_Subset DEF LocalDay
<1>4. ASSUME NEW q \in display, Contains(q, moment) PROVE q \in today
  <2>1. CASE Interval = "hourly"
    <3>1. q \in ToHourly(points)
      BY <1>4, <2>1 DEF DisplaySeries
    <3>2. q.start \in Nat /\ HourOf(q.start) = q.start /\ q.end = q.start + PerHour
      BY <1>1, <3>1, HourlyPoint
    <3>3. q.start = HourOf(moment)
      BY <1>4, <3>2, HourFacts DEF Contains
    <3>. QED
      BY <3>3, SameDay DEF LocalDay
  <2>2. CASE Interval # "hourly"
    <3>1. q \in PricePoint /\ q.end = q.start + Resolution
      BY <1>1, <1>4, <2>2 DEF DisplaySeries, Quarterly
    <3>2. q.start = moment
      BY <1>4, <3>1 DEF Contains, PricePoint, Resolution
    <3>. QED
      BY <3>2 DEF LocalDay
  <2>. QED
    BY <2>1, <2>2
<1>5. PriceAt(display, moment) # None
        => \E q \in today : PriceAt(display, moment) = q.all_in
  <2>. SUFFICES ASSUME PriceAt(display, moment) # None
                PROVE  \E q \in today : PriceAt(display, moment) = q.all_in
    OBVIOUS
  <2>. HIDE DEF display, today
  <2>1. \E q \in display : Contains(q, moment)
    BY DEF PriceAt
  <2>2. PICK q \in display :
          Contains(q, moment) /\ PriceAt(display, moment) = q.all_in
    BY <2>1 DEF PriceAt
  <2>. QED
    BY <1>4, <2>2
<1>6. today # {}
        => /\ Lowest(today) \in Int /\ Highest(today) \in Int
           /\ \A p \in today : Lowest(today) <= p.all_in /\ p.all_in <= Highest(today)
           /\ Lowest(today) * Average(today).count <= Average(today).total
           /\ Average(today).total <= Highest(today) * Average(today).count
  <2>. HIDE DEF today
  <2>. QED
    BY <1>3, LowestHighest
<1>7. PriceAt(series, moment) # None => PriceAt(display, moment) # None
  <2>. SUFFICES ASSUME PriceAt(series, moment) # None
                PROVE  PriceAt(display, moment) # None
    OBVIOUS
  <2>1. PICK p \in series : Contains(p, moment)
    BY DEF PriceAt
  <2>2. \E q \in points : Contains(q, moment) /\ q.start = moment
    <3> DEFINE q == [start |-> p.start, end |-> p.end, market |-> p.market * Scale,
                     all_in |-> p.all_in * Scale, feed_in |-> p.feed_in * Scale]
    <3>1. q \in points /\ q.start = p.start /\ q.end = p.end
      BY DEF Scaled
    <3>2. p.start = moment
      BY <2>1 DEF Contains, Quarterly, PricePoint, Resolution
    <3>. QED
      BY <2>1, <3>1, <3>2 DEF Contains
  <2>3. CASE Interval = "hourly"
    <3>1. PICK q \in points : q.start = moment
      BY <2>2
    <3>2. q \in Hour(points, HourOf(moment))
      BY <3>1 DEF Hour, HourStart, HourOf
    <3>3. Mean(Hour(points, HourOf(moment)), "all_in") \in Int
      BY <1>1, <3>2, HourTyped, MeanBetween DEF Fields
    <3>4. PriceAt(ToHourly(points), moment) = Mean(Hour(points, HourOf(moment)), "all_in")
      BY <1>1, <3>2, HourlyPrice
    <3>. QED
      BY <2>3, <3>3, <3>4, NoneAssumption DEF DisplaySeries
  <2>4. CASE Interval # "hourly"
    <3>1. \E q \in display : Contains(q, moment)
      BY <2>2, <2>4 DEF DisplaySeries
    <3>2. \A q \in display : q.all_in \in Int
      BY <1>2 DEF PricePoint
    <3>. QED
      BY <3>1, <3>2, NoneAssumption DEF PriceAt
  <2>. QED
    BY <2>3, <2>4
<1>8. /\ View(series, moment).current = PriceAt(display, moment)
      /\ View(series, moment).min = Lowest(today)
      /\ View(series, moment).max = Highest(today)
      /\ View(series, moment).average = Average(today)
  BY DEF View
<1>9. Average(today) # None => today # {}
  BY DEF Average
<1>. HIDE DEF today, display
<1>. QED
  BY <1>5, <1>6, <1>7, <1>8, <1>9

-----------------------------------------------------------------------------
LEMMA InitInv == Init => IInv
<1>. SUFFICES ASSUME Init PROVE IInv
  OBVIOUS
<1>1. fetches \in [Kinds -> Tariffs \cup {None}] /\ \A k \in Kinds : ~InFlight(k)
  BY DEF Init, NoFetch, InFlight
<1>2. TypeOK
  BY <1>1 DEF Init, TypeOK, Phases
<1>3. RunningHasPrices /\ FirstInv
  BY <1>1 DEF Init, RunningHasPrices, FirstInv, Kinds
<1>4. CurrentInv
  BY DEF Init, CurrentInv
<1>. QED
  BY <1>2, <1>3, <1>4 DEF IInv

\* The options are those of a tariff some user may save.
LEMMA TariffSaved ==
  ASSUME TypeOK
  PROVE  options.tariff \in Tariffs /\ options.tariff \in Tariff
         /\ options.tariff # None
  BY FeedAssumption, NoneAssumption DEF TypeOK, Options

LEMMA FetchTyped ==
  ASSUME TypeOK, NEW k \in Kinds, InFlight(k)
  PROVE  fetches[k] \in Tariff
  BY FeedAssumption DEF TypeOK, InFlight

LEMMA RecomputeInv == IInv /\ Recompute => IInv'
<1>. SUFFICES ASSUME IInv, Recompute PROVE IInv'
  OBVIOUS
<1>1. data \in SUBSET PricePoint /\ data # {}
  BY DEF IInv, TypeOK, RunningHasPrices, Recompute
<1>2. decision' \in Decision /\ milp_issue' \in BOOLEAN
  BY <1>1, RoundTyped DEF IInv, Recompute
<1>. QED
  BY <1>2 DEF IInv, TypeOK, RunningHasPrices, FirstInv, CurrentInv, InFlight,
              Recompute, counters

LEMMA SetupStartsInv == IInv /\ SetupStarts => IInv'
  BY TariffSaved
     DEF IInv, TypeOK, RunningHasPrices, FirstInv, CurrentInv, InFlight, SetupStarts,
         Fetch, Kinds, Phases, counters

LEMMA PollInv == IInv /\ Poll => IInv'
<1>. SUFFICES ASSUME IInv, Poll PROVE IInv'
  OBVIOUS
<1>1. phase \in {"platforms", "up"} /\ options.tariff \in Tariffs
  BY TariffSaved DEF IInv, RunningHasPrices, Poll
<1>2. fetches' = [fetches EXCEPT !["poll"] = options.tariff] /\ timer' = FALSE
  BY DEF Poll, Fetch
<1>3. TypeOK'
  BY <1>1, <1>2 DEF IInv, TypeOK, Poll, Kinds, counters
<1>4. RunningHasPrices' /\ FirstInv'
  BY <1>1, <1>2
     DEF IInv, TypeOK, RunningHasPrices, FirstInv, InFlight, Poll, Kinds
<1>5. CurrentInv'
  BY <1>1, <1>2 DEF IInv, TypeOK, CurrentInv, InFlight, Poll, Kinds
<1>. QED
  BY <1>3, <1>4, <1>5 DEF IInv

LEMMA RecalculateInv == IInv /\ Recalculate => IInv'
<1>. SUFFICES ASSUME IInv, Recalculate PROVE IInv'
  OBVIOUS
<1>1. phase \in {"platforms", "up"} /\ options.tariff \in Tariffs
  BY TariffSaved DEF IInv, RunningHasPrices, Recalculate
<1>2. fetches' = [fetches EXCEPT !["request"] = options.tariff] /\ timer' = FALSE
  BY DEF Recalculate, Fetch
<1>3. TypeOK'
  <2>1. fetches' \in [Kinds -> Tariffs \cup {None}] /\ timer' \in BOOLEAN
    BY <1>1, <1>2 DEF IInv, TypeOK
  <2>2. recalls' \in Nat
    BY DEF IInv, TypeOK, Recalculate
  <2>. QED
    BY <2>1, <2>2 DEF IInv, TypeOK, Recalculate
<1>4. RunningHasPrices' /\ FirstInv'
  BY <1>1, <1>2
     DEF IInv, TypeOK, RunningHasPrices, FirstInv, InFlight, Recalculate, Kinds
<1>5. CurrentInv'
  BY <1>1, <1>2 DEF IInv, TypeOK, CurrentInv, InFlight, Recalculate, Kinds
<1>. QED
  BY <1>3, <1>4, <1>5 DEF IInv

LEMMA FirstFetchInv ==
  ASSUME NEW payload \in Payloads, IInv, FirstFetchSucceeds(payload)
  PROVE  IInv'
<1> DEFINE series == Points(payload, fetches["first"])
<1>1. fetches["first"] \in Tariff
  BY FetchTyped DEF IInv, Kinds, FirstFetchSucceeds
<1>2. /\ series \in SUBSET PricePoint
      /\ PricedAt(series, fetches["first"])
  BY <1>1, PointsPriced, FeedAssumption
<1>3. series # {} /\ data' = series /\ Round(series)
  BY DEF FirstFetchSucceeds
<1>4. decision' \in Decision /\ milp_issue' \in BOOLEAN
  BY <1>2, <1>3, RoundTyped DEF IInv
<1>. HIDE DEF series
<1>5. TypeOK'
  BY <1>2, <1>3, <1>4
     DEF IInv, TypeOK, FirstFetchSucceeds, Kinds, Phases, counters
<1>6. RunningHasPrices' /\ FirstInv'
  BY <1>3, NoneAssumption
     DEF IInv, TypeOK, RunningHasPrices, FirstInv, InFlight, FirstFetchSucceeds, Kinds
<1>7. CurrentInv'
  BY <1>2, <1>3
     DEF IInv, TypeOK, RunningHasPrices, FirstInv, CurrentInv, InFlight,
         FirstFetchSucceeds, Kinds
<1>. QED
  BY <1>5, <1>6, <1>7 DEF IInv

LEMMA FetchSucceedsInv ==
  ASSUME NEW k \in Kinds, NEW payload \in Payloads, IInv, FetchSucceeds(k, payload)
  PROVE  IInv'
<1> DEFINE series == Points(payload, fetches[k])
<1>1. fetches[k] \in Tariff
  BY FetchTyped DEF IInv, FetchSucceeds, FetchDone
<1>2. /\ series \in SUBSET PricePoint
      /\ PricedAt(series, fetches[k])
  BY <1>1, PointsPriced, FeedAssumption
<1>3. /\ series # {} /\ data' = series /\ k \in {"poll", "request"}
      /\ phase \in {"platforms", "up"}
  BY DEF FetchSucceeds, FetchDone, IInv, RunningHasPrices
<1>. HIDE DEF series
<1>4. TypeOK'
  BY <1>2, <1>3
     DEF IInv, TypeOK, FetchSucceeds, FetchDone, Kinds, counters
<1>5. RunningHasPrices' /\ FirstInv'
  BY <1>3
     DEF IInv, TypeOK, RunningHasPrices, FirstInv, InFlight, FetchSucceeds, FetchDone,
         Kinds
<1>6. CurrentInv'
  BY <1>2, <1>3
     DEF IInv, TypeOK, CurrentInv, InFlight, FetchSucceeds, FetchDone, Kinds
<1>. QED
  BY <1>4, <1>5, <1>6 DEF IInv

LEMMA RefreshFailsInv ==
  ASSUME NEW k \in Kinds, IInv, RefreshFails(k), issue' \in BOOLEAN
  PROVE  IInv'
<1>1. TypeOK'
  <2>1. fetches' \in [Kinds -> Tariffs \cup {None}]
    BY DEF IInv, TypeOK, RefreshFails, FetchDone
  <2>2. timer' \in BOOLEAN /\ missed' \in BOOLEAN /\ last_update_success' \in BOOLEAN
    BY ZenonT(30) DEF IInv, TypeOK, RefreshFails, FetchDone
  <2>3. phase' \in Phases /\ failures' \in Nat
    BY DEF IInv, TypeOK, RefreshFails, Phases
  <2>. QED
    BY <2>1, <2>2, <2>3 DEF IInv, TypeOK, RefreshFails
<1>2. RunningHasPrices' /\ FirstInv'
  BY DEF IInv, TypeOK, RunningHasPrices, FirstInv, InFlight, RefreshFails, FetchDone,
         Kinds
<1>3. CurrentInv'
  BY DEF IInv, TypeOK, RunningHasPrices, FirstInv, CurrentInv, InFlight, RefreshFails,
         FetchDone, Kinds
<1>. QED
  BY <1>1, <1>2, <1>3 DEF IInv

LEMMA OrphanInv ==
  ASSUME NEW payload \in Payloads, IInv, OrphanSucceeds(payload)
  PROVE  IInv'
  BY DEF IInv, TypeOK, RunningHasPrices, FirstInv, CurrentInv, InFlight, OrphanSucceeds,
         FetchDone, Kinds, counters

LEMMA SetupEndsInv == IInv /\ SetupEnds => IInv'
  BY DEF IInv, TypeOK, RunningHasPrices, FirstInv, CurrentInv, InFlight, SetupEnds,
         Phases, counters

LEMMA ReloadInv == IInv /\ Reload => IInv'
<1>. SUFFICES ASSUME IInv, Reload PROVE IInv'
  OBVIOUS
<1>1. /\ fetches' \in [Kinds -> Tariffs \cup {None}]
      /\ \A k \in Kinds \ {"orphan"} : fetches'[k] = None
  BY DEF IInv, TypeOK, Reload, NoFetch, Kinds
<1>2. TypeOK'
  <2>1. phase' \in Phases /\ reloads' \in Nat /\ data' \subseteq PricePoint
    BY DEF IInv, TypeOK, Reload, InstanceDropped, Phases
  <2>2. /\ built' = None /\ decision' = None
        /\ timer' \in BOOLEAN /\ missed' \in BOOLEAN
        /\ last_update_success' \in BOOLEAN
    BY DEF Reload, InstanceDropped
  <2>3. /\ failures' \in Nat /\ saves' \in Nat /\ recalls' \in Nat
        /\ restarts' \in Nat /\ now' \in Nat
    BY DEF IInv, TypeOK, Reload, counters
  <2>. QED
    BY <1>1, <2>1, <2>2, <2>3 DEF IInv, TypeOK, Reload
<1>3. RunningHasPrices' /\ FirstInv'
  BY <1>1 DEF RunningHasPrices, FirstInv, InFlight, Reload, InstanceDropped, Kinds
<1>4. CurrentInv'
  BY DEF CurrentInv, Reload, InstanceDropped
<1>. QED
  BY <1>2, <1>3, <1>4 DEF IInv

LEMMA RestartInv == IInv /\ Restart => IInv'
<1>. SUFFICES ASSUME IInv, Restart PROVE IInv'
  OBVIOUS
<1>1. /\ fetches' \in [Kinds -> Tariffs \cup {None}]
      /\ \A k \in Kinds \ {"orphan"} : fetches'[k] = None
  BY DEF IInv, TypeOK, Restart, NoFetch, Kinds
<1>2. TypeOK'
  <2>1. phase' \in Phases /\ reloads' \in Nat /\ data' \subseteq PricePoint
    BY DEF IInv, TypeOK, Restart, InstanceDropped, Phases
  <2>2. /\ built' = None /\ decision' = None
        /\ timer' \in BOOLEAN /\ missed' \in BOOLEAN
        /\ last_update_success' \in BOOLEAN
    BY DEF Restart, InstanceDropped
  <2>3. /\ failures' \in Nat /\ saves' \in Nat /\ recalls' \in Nat
        /\ restarts' \in Nat /\ now' \in Nat
    BY DEF IInv, TypeOK, Restart
  <2>. QED
    BY <1>1, <2>1, <2>2, <2>3 DEF IInv, TypeOK, Restart
<1>3. RunningHasPrices' /\ FirstInv'
  BY <1>1 DEF RunningHasPrices, FirstInv, InFlight, Restart, InstanceDropped, Kinds
<1>4. CurrentInv'
  BY DEF CurrentInv, Restart, InstanceDropped
<1>. QED
  BY <1>2, <1>3, <1>4 DEF IInv

\* A change is saved: either nobody runs on the old options, or a reload waits, or
\* the change was missed.
LEMMA SavedInv ==
  ASSUME NEW o \in Options, IInv, Saved(o),
         reloads' \in Nat, missed' \in BOOLEAN,
         phase \in {"setup", "platforms", "up"} => reloads' > 0 \/ missed'
  PROVE  IInv'
  BY DEF IInv, TypeOK, RunningHasPrices, FirstInv, CurrentInv, InFlight, Saved

LEMMA SavesInv ==
  ASSUME IInv,
         \/ \E o \in Options : UpdateConfig(o) \/ SubmitOptions(o)
         \/ \E t \in Tariffs : Reconfigure(t)
  PROVE  IInv'
<1>0. reloads \in Nat /\ missed \in BOOLEAN /\ options \in Options /\ phase \in Phases
  BY DEF IInv, TypeOK
<1>1. ASSUME NEW o \in Options, UpdateConfig(o) PROVE IInv'
  <2>1. reloads' \in Nat /\ reloads' > 0 /\ missed' \in BOOLEAN
    BY <1>0, <1>1 DEF UpdateConfig, Told, Listening
  <2>. QED
    BY <1>1, <2>1, SavedInv DEF UpdateConfig
<1>2. ASSUME NEW o \in Options, SubmitOptions(o) PROVE IInv'
  <2>1. reloads' \in Nat
    BY <1>0, <1>2 DEF SubmitOptions, Told
  <2>2. missed' \in BOOLEAN
    BY <1>2, Zenon DEF SubmitOptions
  <2>3. phase = "up" => reloads' > 0
    BY <1>0, <1>2 DEF SubmitOptions, Told, Listening
  <2>4. phase \in {"setup", "platforms"} => missed'
    BY <1>2 DEF SubmitOptions
  <2>. QED
    BY <1>2, <2>1, <2>2, <2>3, <2>4, SavedInv DEF SubmitOptions
<1>3. ASSUME NEW t \in Tariffs, Reconfigure(t) PROVE IInv'
  <2>1. reloads' \in Nat /\ reloads' > 0 /\ missed' \in BOOLEAN
    BY <1>0, <1>3 DEF Reconfigure, Told, Listening
  <2>2. [options EXCEPT !.tariff = t] \in Options
    BY <1>0 DEF Options
  <2>. QED
    BY <1>3, <2>1, <2>2, SavedInv DEF Reconfigure
<1>. QED
  BY <1>1, <1>2, <1>3

LEMMA TickInv == IInv /\ Tick => IInv'
  BY DEF IInv, TypeOK, RunningHasPrices, FirstInv, CurrentInv, InFlight, Tick, counters

LEMMA StutterInv == IInv /\ UNCHANGED vars => IInv'
  BY DEF IInv, TypeOK, RunningHasPrices, FirstInv, CurrentInv, InFlight, vars

LEMMA NextInv == IInv /\ [Next]_vars => IInv'
<1>. SUFFICES ASSUME IInv, [Next]_vars PROVE IInv'
  OBVIOUS
<1>1. CASE Recompute
  BY <1>1, RecomputeInv
<1>2. CASE SetupStarts
  BY <1>2, SetupStartsInv
<1>3. CASE Poll
  BY <1>3, PollInv
<1>4. CASE Recalculate
  BY <1>4, RecalculateInv
<1>5. CASE \E p \in Payloads : FirstFetchSucceeds(p)
  BY <1>5, FirstFetchInv
<1>6. CASE \E k \in Kinds, p \in Payloads : FetchSucceeds(k, p)
  BY <1>6, FetchSucceedsInv
<1>7. CASE \E k \in Kinds, a \in Payloads \cup {None} : FetchFails(k, a)
  BY <1>7, RefreshFailsInv DEF FetchFails
<1>8. CASE \E k \in Kinds : FetchBreaks(k)
  BY <1>8, RefreshFailsInv DEF FetchBreaks, IInv, TypeOK
<1>9. CASE \E p \in Payloads : OrphanSucceeds(p)
  BY <1>9, OrphanInv
<1>10. CASE SetupEnds
  BY <1>10, SetupEndsInv
<1>11. CASE Reload
  BY <1>11, ReloadInv
<1>12. CASE Restart
  BY <1>12, RestartInv
<1>13. CASE \/ \E o \in Options : UpdateConfig(o) \/ SubmitOptions(o)
            \/ \E t \in Tariffs : Reconfigure(t)
  BY <1>13, SavesInv
<1>14. CASE Tick
  BY <1>14, TickInv
<1>15. CASE UNCHANGED vars
  BY <1>15, StutterInv
<1>. QED
  BY <1>1, <1>2, <1>3, <1>4, <1>5, <1>6, <1>7, <1>8, <1>9, <1>10, <1>11, <1>12, <1>13,
     <1>14, <1>15 DEF Next

-----------------------------------------------------------------------------
\* The inductive invariant: during a setup the first fetch is under way, without
\* an instance nothing of it is, and what runs or is being fetched corresponds to
\* the saved options unless a reload waits or a form was missed.
THEOREM Inductive == Spec => []IInv
  BY InitInv, NextInv, PTL DEF Spec

\* The variables of the price feed keep their types; a decision is about a slot.
THEOREM TypeCorrect == Spec => []TypeOK
  BY Inductive, PTL DEF IInv

\* A running entry has prices, and an entry that is not running has neither prices
\* nor a poll timer nor a fetch that could still deliver any.
THEOREM PricesServed == Spec => []RunningHasPrices
  BY Inductive, PTL DEF IInv

\* A loaded entry without a waiting reload runs on the saved options and shows
\* prices at the saved tariff, unless a form was submitted during its setup.
THEOREM ChangesApplied == Spec => []ChangesTakeEffect
<1>1. IInv => ChangesTakeEffect
  BY DEF IInv, CurrentInv, ChangesTakeEffect
<1>. QED
  BY <1>1, Inductive, PTL

-----------------------------------------------------------------------------
\* In the exact mode every round says whether the solver is there, and an instance
\* starts with a round.
IssueInv ==
  (phase \in {"platforms", "up"} /\ reloads = 0 /\ ~missed /\ options.mode = "milp")
    => milp_issue = ~SolverInstalled

LEMMA IssueNext == IInv /\ IssueInv /\ [Next]_vars => IssueInv'
<1>. SUFFICES ASSUME IInv, IssueInv, [Next]_vars PROVE IssueInv'
  OBVIOUS
<1>0. reloads \in Nat
  BY DEF IInv, TypeOK
<1>1. CASE Recompute
  BY <1>1 DEF IssueInv, Recompute, Round
<1>2. CASE SetupStarts
  BY <1>2 DEF IssueInv, SetupStarts
<1>3. CASE Poll \/ Recalculate
  BY <1>3 DEF IssueInv, Poll, Recalculate
<1>4. CASE \E p \in Payloads : FirstFetchSucceeds(p)
  BY <1>4 DEF IssueInv, FirstFetchSucceeds, Round
<1>5. CASE \E k \in Kinds, p \in Payloads : FetchSucceeds(k, p)
  BY <1>5 DEF IssueInv, FetchSucceeds
<1>6. CASE \E k \in Kinds : RefreshFails(k)
  BY <1>6 DEF IssueInv, RefreshFails
<1>7. CASE \E p \in Payloads : OrphanSucceeds(p)
  BY <1>7 DEF IssueInv, OrphanSucceeds
<1>8. CASE SetupEnds
  BY <1>8 DEF IssueInv, SetupEnds
<1>9. CASE Reload \/ Restart
  BY <1>9 DEF IssueInv, Reload, Restart, InstanceDropped
<1>10. CASE \E o \in Options : UpdateConfig(o)
  BY <1>0, <1>10 DEF IssueInv, UpdateConfig, Saved, Told, Listening
<1>11. CASE \E o \in Options : SubmitOptions(o)
  <2>. PICK o \in Options : SubmitOptions(o)
    BY <1>11
  <2>1. phase' = phase /\ (phase = "platforms" => missed')
    BY DEF SubmitOptions, Saved
  <2>2. phase = "up" => reloads' # 0
    BY <1>0 DEF SubmitOptions, Told, Listening
  <2>. QED
    BY <2>1, <2>2 DEF IssueInv
<1>12. CASE \E t \in Tariffs : Reconfigure(t)
  BY <1>0, <1>12 DEF IssueInv, Reconfigure, Saved, Told, Listening
<1>13. CASE Tick \/ UNCHANGED vars
  BY <1>13 DEF IssueInv, Tick, vars
<1>. QED
  BY <1>1, <1>2, <1>3, <1>4, <1>5, <1>6, <1>7, <1>8, <1>9, <1>10, <1>11, <1>12, <1>13
     DEF Next, FetchFails, FetchBreaks

\* What Home Assistant reports about the solver is true of an entry in the exact
\* mode, whatever modes, reloads and restarts came before.
THEOREM IssueCorrect == Spec => []MilpIssueExact
<1>1. Init => IssueInv
  BY DEF Init, IssueInv
<1>2. IssueInv => MilpIssueExact
  BY DEF IssueInv, MilpIssueExact
<1>. QED
  BY <1>1, <1>2, IssueNext, Inductive, PTL DEF Spec

-----------------------------------------------------------------------------
\* The price feed with its entities is a price feed: what is proved of the one
\* holds of the other.
THEOREM DisplayIsFeed == DisplaySpec => Spec
<1>1. DisplayInit => Init
  BY DEF DisplayInit
<1>2. [DisplayNext]_displayVars => [Next]_vars
  BY DEF DisplayNext, displayVars
<1>. QED
  BY <1>1, <1>2, PTL DEF DisplaySpec, Spec

\* Somebody will bring the next prices: the timer, or a refresh that is under way.
DueInv ==
  phase \in {"platforms", "up"} => timer \/ InFlight("poll") \/ InFlight("request")

NextPollInv == timer => now <= next_poll /\ next_poll <= now + UpdateInterval

ShownInv ==
  /\ shown.available = (phase = "up" /\ last_update_success)
  /\ shown.available
       => /\ shown.view = View(data, shown.view.at)
          /\ shown.view.at \in Nat
          /\ shown.view.at <= now /\ now <= shown.view.at + UpdateInterval
          /\ timer => next_poll <= shown.view.at + UpdateInterval

DisplayInv == IInv /\ DueInv /\ next_poll \in Int /\ NextPollInv /\ ShownInv

LEMMA DueNext == IInv /\ DueInv /\ [Next]_vars => DueInv'
<1>. SUFFICES ASSUME IInv, DueInv, [Next]_vars PROVE DueInv'
  OBVIOUS
<1>0. fetches \in [Kinds -> Tariffs \cup {None}]
  BY DEF IInv, TypeOK
<1>1. CASE Recompute \/ Tick \/ SetupStarts \/ UNCHANGED vars
  BY <1>1 DEF DueInv, InFlight, Recompute, Tick, SetupStarts, vars
<1>2. CASE Poll \/ Recalculate
  <2>1. options.tariff # None
    BY TariffSaved DEF IInv
  <2>. QED
    BY <1>0, <1>2, <2>1 DEF DueInv, InFlight, Poll, Recalculate, Fetch, Kinds
<1>3. CASE \E p \in Payloads : FirstFetchSucceeds(p)
  BY <1>3 DEF DueInv, FirstFetchSucceeds
<1>4. CASE \E k \in Kinds, p \in Payloads : FetchSucceeds(k, p)
  BY <1>4 DEF DueInv, FetchSucceeds, FetchDone
<1>5. CASE \E k \in Kinds : RefreshFails(k)
  <2>. PICK k \in Kinds : RefreshFails(k)
    BY <1>5
  <2>1. CASE k \in {"poll", "request"}
    BY <2>1 DEF DueInv, RefreshFails, FetchDone
  <2>2. CASE k = "first"
    BY <2>2 DEF DueInv, RefreshFails
  <2>3. CASE k = "orphan"
    BY <1>0, <2>3 DEF DueInv, InFlight, RefreshFails, FetchDone, Kinds
  <2>. QED
    BY <2>1, <2>2, <2>3 DEF Kinds
<1>6. CASE \E p \in Payloads : OrphanSucceeds(p)
  BY <1>0, <1>6 DEF DueInv, InFlight, OrphanSucceeds, FetchDone, Kinds
<1>7. CASE SetupEnds
  BY <1>7 DEF DueInv, InFlight, SetupEnds
<1>8. CASE Reload \/ Restart
  BY <1>8 DEF DueInv, Reload, Restart, InstanceDropped
<1>9. CASE \/ \E o \in Options : UpdateConfig(o) \/ SubmitOptions(o)
           \/ \E t \in Tariffs : Reconfigure(t)
  BY <1>9 DEF DueInv, InFlight, UpdateConfig, SubmitOptions, Reconfigure, Saved
<1>. QED
  BY <1>1, <1>2, <1>3, <1>4, <1>5, <1>6, <1>7, <1>8, <1>9
     DEF Next, FetchFails, FetchBreaks

\* Unless a refresh ends, a loaded entry's prices and their state stay, and no timer
\* starts.
LEMMA QuietStep ==
  ASSUME IInv, [Next]_vars, phase = "up", phase' = "up", ~Refreshed
  PROVE  /\ data' = data /\ last_update_success' = last_update_success
         /\ timer' => timer
<1>0. fetches \in [Kinds -> Tariffs \cup {None}]
  BY DEF IInv, TypeOK
<1>1. CASE Recompute \/ Tick \/ UNCHANGED vars
  BY <1>1 DEF Recompute, Tick, vars
<1>2. CASE Poll \/ Recalculate
  BY <1>2 DEF Poll, Recalculate, Fetch
<1>3. CASE \E k \in Kinds, p \in Payloads : FetchSucceeds(k, p)
  BY <1>0, <1>3 DEF Refreshed, FetchSucceeds, FetchDone, Kinds
<1>4. CASE \E k \in Kinds : RefreshFails(k)
  BY <1>0, <1>4 DEF Refreshed, RefreshFails, FetchDone, Kinds
<1>5. CASE \E p \in Payloads : OrphanSucceeds(p)
  BY <1>5 DEF OrphanSucceeds, FetchDone
<1>6. CASE \/ \E o \in Options : UpdateConfig(o) \/ SubmitOptions(o)
           \/ \E t \in Tariffs : Reconfigure(t)
  BY <1>6 DEF UpdateConfig, SubmitOptions, Reconfigure, Saved
<1>7. CASE \/ SetupStarts \/ \E p \in Payloads : FirstFetchSucceeds(p)
           \/ SetupEnds \/ Reload \/ Restart
  BY <1>7 DEF SetupStarts, FirstFetchSucceeds, SetupEnds, Reload, Restart,
              InstanceDropped
<1>. QED
  BY <1>1, <1>2, <1>3, <1>4, <1>5, <1>6, <1>7 DEF Next, FetchFails, FetchBreaks

\* Time passes by itself.
LEMMA TimeStep ==
  ASSUME [Next]_vars
  PROVE  \/ now' = now
         \/ Tick
  BY DEF Next, vars, Recompute, SetupStarts, Poll, Recalculate, FirstFetchSucceeds,
         FetchSucceeds, FetchFails, FetchBreaks, RefreshFails, OrphanSucceeds, SetupEnds,
         Reload, Restart, UpdateConfig, SubmitOptions, Reconfigure, Saved

LEMMA ViewAt ==
  ASSUME NEW series, NEW moment
  PROVE  View(series, moment).at = moment
  BY DEF View

LEMMA DisplayStep == DisplayInv /\ [DisplayNext]_displayVars => DisplayInv'
<1>. SUFFICES ASSUME DisplayInv, [DisplayNext]_displayVars PROVE DisplayInv'
  OBVIOUS
<1>. USE DisplayAssumption
<1>1. IInv /\ DueInv /\ ShownInv /\ NextPollInv /\ next_poll \in Int /\ now \in Nat
  BY DEF DisplayInv, IInv, TypeOK
<1>2. [Next]_vars
  BY DEF DisplayNext, displayVars
<1>3. IInv' /\ DueInv'
  BY <1>1, <1>2, NextInv, DueNext
<1>4. CASE UNCHANGED displayVars
  BY <1>1, <1>3, <1>4 DEF displayVars, vars, DisplayInv, NextPollInv, ShownInv
<1>5. CASE DisplayNext /\ now' # now
  <2>1. Tick /\ now' = now + 1
    BY <1>2, <1>5, TimeStep DEF Tick
  <2>2. ~InFlight("poll") /\ ~InFlight("request") /\ (timer => now < next_poll)
    BY <1>5 DEF DisplayNext, InTime, Kinds
  <2>3. /\ phase' = phase /\ timer' = timer /\ data' = data
        /\ last_update_success' = last_update_success /\ ~Refreshed
    BY <2>1, <2>2 DEF Tick, Refreshed
  <2>4. next_poll' = next_poll
    BY <1>5, <2>3 DEF DisplayNext, EntitiesFollow, Scheduled
  <2>5. phase = "up" => shown' = shown
    BY <1>5, <2>3 DEF DisplayNext, EntitiesFollow
  <2>6. phase # "up" => ~shown'.available
    BY <1>5, <2>3 DEF DisplayNext, EntitiesFollow, Nothing
  <2>7. NextPollInv'
    BY <1>1, <2>1, <2>2, <2>3, <2>4 DEF NextPollInv
  <2>8. phase = "up" => timer
    BY <1>1, <2>2 DEF DueInv
  <2>9. ShownInv'
    <3>1. CASE phase = "up"
      BY <1>1, <2>1, <2>2, <2>3, <2>4, <2>5, <2>8, <3>1 DEF ShownInv
    <3>2. CASE phase # "up"
      BY <2>3, <2>6, <3>2, <1>5 DEF ShownInv, DisplayNext, EntitiesFollow, Nothing
    <3>. QED
      BY <3>1, <3>2
  <2>. QED
    BY <1>1, <1>3, <2>4, <2>7, <2>9 DEF DisplayInv
<1>6. CASE DisplayNext /\ now' = now
  <2>1. EntitiesFollow
    BY <1>6 DEF DisplayNext
  <2>2. next_poll' \in Int /\ NextPollInv'
    BY <1>1, <1>6, <2>1 DEF EntitiesFollow, Scheduled, NextPollInv
  <2>3. CASE phase' # "up"
    <3>1. shown' = Nothing
      BY <2>1, <2>3 DEF EntitiesFollow
    <3>2. ShownInv'
      BY <2>3, <3>1 DEF ShownInv, Nothing
    <3>. QED
      BY <1>3, <2>2, <3>2 DEF DisplayInv
  <2>4. CASE phase' = "up" /\ (phase # "up" \/ Refreshed)
    <3>1. shown' = Written(last_update_success', data')
      BY <2>1, <2>4 DEF EntitiesFollow
    <3>2. last_update_success' \in BOOLEAN
      BY <1>3 DEF IInv, TypeOK
    <3>3. CASE last_update_success'
      <4>1. shown'.available /\ shown'.view = View(data', now)
        BY <3>1, <3>3 DEF Written
      <4>2. shown'.view.at = now
        BY <4>1, ViewAt
      <4>3. timer' => next_poll' <= now + UpdateInterval
        BY <1>6, <2>2 DEF NextPollInv
      <4>4. shown'.available = (phase' = "up" /\ last_update_success')
        <5>1. shown'.available = TRUE
          BY <3>1, <3>3 DEF Written
        <5>. QED
          BY <2>4, <3>3, <5>1
      <4>5. now <= now + UpdateInterval
        BY <1>1
      <4>6. ShownInv'
        <5>1. shown'.view = View(data', shown'.view.at)
          BY <4>1, <4>2
        <5>2. /\ shown'.view.at \in Nat /\ shown'.view.at <= now'
              /\ now' <= shown'.view.at + UpdateInterval
              /\ timer' => next_poll' <= shown'.view.at + UpdateInterval
          BY <1>1, <1>6, <4>2, <4>3, <4>5
        <5>. QED
          BY <4>4, <5>1, <5>2 DEF ShownInv
      <4>. QED
        BY <1>3, <2>2, <4>6 DEF DisplayInv
    <3>4. CASE ~last_update_success'
      <4>1. shown' = Nothing
        BY <3>1, <3>4 DEF Written
      <4>2. ShownInv'
        BY <2>4, <3>4, <4>1 DEF ShownInv, Nothing
      <4>. QED
        BY <1>3, <2>2, <4>2 DEF DisplayInv
    <3>. QED
      BY <3>2, <3>3, <3>4
  <2>5. CASE phase' = "up" /\ phase = "up" /\ ~Refreshed
    <3>1. /\ data' = data /\ last_update_success' = last_update_success
          /\ timer' => timer
      BY <1>1, <1>2, <2>5, QuietStep
    <3>2. shown' = shown /\ next_poll' = next_poll
      BY <1>3, <2>1, <2>5, <3>1 DEF EntitiesFollow, Scheduled, IInv, TypeOK
    <3>3. ShownInv'
      BY <1>1, <1>6, <2>5, <3>1, <3>2 DEF ShownInv
    <3>. QED
      BY <1>3, <2>2, <3>3 DEF DisplayInv
  <2>. QED
    BY <2>3, <2>4, <2>5
<1>. QED
  BY <1>4, <1>5, <1>6

\* Between two refreshes nothing the entities show changes, and the time they show it
\* for lies within the update interval, as the next poll does.
THEOREM DisplayInductive == DisplaySpec => []DisplayInv
<1>1. DisplayInit => DisplayInv
  <2>. SUFFICES ASSUME DisplayInit PROVE DisplayInv
    OBVIOUS
  <2>1. IInv
    BY InitInv DEF DisplayInit
  <2>2. DueInv /\ NextPollInv /\ next_poll \in Int
    BY DEF DisplayInit, Init, DueInv, NextPollInv
  <2>3. ~shown.available /\ shown.available \in BOOLEAN /\ phase # "up"
    BY DEF DisplayInit, Init, Nothing
  <2>4. ShownInv
    BY <2>3 DEF ShownInv
  <2>. QED
    BY <2>1, <2>2, <2>4 DEF DisplayInv
<1>. QED
  BY <1>1, DisplayStep, PTL DEF DisplaySpec

\* A series priced at a tariff is itself when it is priced again.
LEMMA RepricedSame ==
  ASSUME NEW series \in SUBSET PricePoint, NEW t, PricedAt(series, t)
  PROVE  Repriced(series, t) = series
<1>1. ASSUME NEW p \in series
      PROVE  [p EXCEPT !.all_in = ConsumptionPrice(p.market, t),
                       !.feed_in = FeedInPrice(p.market, t)] = p
  BY <1>1 DEF PricedAt, PricePoint
<1>. QED
  BY <1>1 DEF Repriced

\* The entities show the present series at the saved tariff, as of the time they
\* were written, and are unavailable after a failed refresh only.
THEOREM ShownCorrect == DisplaySpec => []ShownIsView
<1>1. DisplayInv => ShownIsView
  <2>. SUFFICES ASSUME DisplayInv PROVE ShownIsView
    OBVIOUS
  <2>1. ASSUME shown.available, reloads = 0, ~missed
        PROVE  shown.view = View(Repriced(data, options.tariff), shown.view.at)
    <3>1. PricedAt(data, options.tariff) /\ data \in SUBSET PricePoint
      BY <2>1 DEF DisplayInv, ShownInv, IInv, TypeOK, CurrentInv
    <3>2. Repriced(data, options.tariff) = data
      BY <3>1, RepricedSame
    <3>. QED
      BY <2>1, <3>2 DEF DisplayInv, ShownInv
  <2>. QED
    BY <2>1 DEF DisplayInv, ShownInv, ShownIsView
<1>. QED
  BY <1>1, DisplayInductive, PTL

\* Whatever fails, is requested or is reloaded, what the entities show is never older
\* than the update interval.
THEOREM ShownTimely == DisplaySpec => []ShownRecent
<1>1. DisplayInv => ShownRecent
  BY DisplayAssumption DEF DisplayInv, ShownInv, ShownRecent, IInv, TypeOK
<1>. QED
  BY <1>1, DisplayInductive, PTL

-----------------------------------------------------------------------------
\* What a running instance serves is what some answer of the source became.
DataInv == Quarterly(data) /\ IsFiniteSet(data)

\* An answer yields finitely many quarters.
LEMMA PointsFinite ==
  ASSUME NEW payload \in Payloads, NEW t \in Tariff
  PROVE  Quarterly(Points(payload, t)) /\ IsFiniteSet(Points(payload, t))
<1> DEFINE items == {i \in Raw(payload) : i.date # None /\ i.price # None}
           T == Points(payload, t)
           f == [i \in items |-> PriceOf(i, t)]
<1>1. Quarterly(T)
  BY PointsQuarterly, FeedAssumption
<1>2. IsFiniteSet(items)
  BY AnswerAssumption, FS_Subset
<1>3. f \in [items -> T] /\ \A q \in T : \E i \in items : f[i] = q
  BY DEF Points, ParsePoints
<1>. HIDE DEF f, items, T
<1>4. IsFiniteSet(T)
  BY <1>2, <1>3, ImageFinite
<1>. QED
  BY <1>1, <1>4 DEF T

LEMMA DataNext == IInv /\ DataInv /\ [Next]_vars => DataInv'
<1>. SUFFICES ASSUME IInv, DataInv, [Next]_vars PROVE DataInv'
  OBVIOUS
<1>1. CASE \E p \in Payloads : FirstFetchSucceeds(p)
  <2>. PICK p \in Payloads : FirstFetchSucceeds(p)
    BY <1>1
  <2>1. fetches["first"] \in Tariff /\ data' = Points(p, fetches["first"])
    BY FeedAssumption DEF FirstFetchSucceeds, InFlight, IInv, TypeOK, Kinds
  <2>. QED
    BY <2>1, PointsFinite DEF DataInv
<1>2. CASE \E k \in Kinds, p \in Payloads : FetchSucceeds(k, p)
  <2>. PICK k \in Kinds, p \in Payloads : FetchSucceeds(k, p)
    BY <1>2
  <2>1. fetches[k] \in Tariff /\ data' = Points(p, fetches[k])
    BY FeedAssumption DEF FetchSucceeds, FetchDone, InFlight, IInv, TypeOK
  <2>. QED
    BY <2>1, PointsFinite DEF DataInv
<1>3. CASE Reload \/ Restart
  <2>1. data' = {}
    BY <1>3 DEF Reload, Restart, InstanceDropped
  <2>. QED
    BY <2>1, FS_EmptySet DEF DataInv, Quarterly
<1>4. CASE \/ Recompute \/ SetupStarts \/ Poll \/ Recalculate \/ SetupEnds \/ Tick
           \/ \E k \in Kinds : RefreshFails(k)
           \/ \E p \in Payloads : OrphanSucceeds(p)
           \/ \E o \in Options : UpdateConfig(o) \/ SubmitOptions(o)
           \/ \E t \in Tariffs : Reconfigure(t)
           \/ UNCHANGED vars
  <2>1. data' = data
    BY <1>4 DEF Recompute, SetupStarts, Poll, Recalculate, SetupEnds, Tick, RefreshFails,
                OrphanSucceeds, UpdateConfig, SubmitOptions, Reconfigure, Saved, vars
  <2>. QED
    BY <2>1 DEF DataInv
<1>. QED
  BY <1>1, <1>2, <1>3, <1>4 DEF Next, FetchFails, FetchBreaks

\* The hours of the view are the hours of the clock.
LEMMA SameHour ==
  ASSUME NEW m \in Nat, NEW n \in Nat
  PROVE  m \div PerHour = n \div PerHour <=> HourOf(m) = HourOf(n)
<1>1. PerHour = 1 \/ PerHour = 2 \/ PerHour = 3 \/ PerHour = 4
  BY ClockAssumption
<1>2. CASE PerHour = 1
  BY <1>2 DEF HourOf
<1>3. CASE PerHour = 2
  BY <1>3 DEF HourOf
<1>4. CASE PerHour = 3
  BY <1>4 DEF HourOf
<1>5. CASE PerHour = 4
  BY <1>5 DEF HourOf
<1>. QED
  BY <1>1, <1>2, <1>3, <1>4, <1>5

\* An hour of the display costs no less than the cheapest and no more than the
\* dearest of the quarters there are of it, and nothing is shown if there are none,
\* whatever an answer has left out.
THEOREM GapsKept == DisplaySpec => []HourShownFromItsQuarters
<1>1. DisplayInv /\ DataInv => HourShownFromItsQuarters
  <2>. SUFFICES ASSUME DisplayInv, DataInv, Interval = "hourly", shown.available
                PROVE  HourShownFromItsQuarters
    BY DEF HourShownFromItsQuarters
  <2> DEFINE at == shown.view.at
             quarters == {p \in data : p.start \div PerHour = at \div PerHour}
             scaled == Hour(Scaled(data), HourOf(at))
             price == shown.view.current
  <2>1. at \in Nat /\ shown.view = View(data, at)
    BY DEF DisplayInv, ShownInv
  <2>2. price = PriceAt(ToHourly(Scaled(data)), at)
    BY <2>1 DEF View, DisplaySeries
  <2>3. Quarterly(Scaled(data)) /\ IsFiniteSet(Scaled(data))
    BY DisplayTyped DEF DataInv
  <2>4. price = IF scaled = {} THEN None ELSE Mean(scaled, "all_in")
    BY <2>1, <2>2, <2>3, HourlyPrice
  <2>5. scaled \in SUBSET PricePoint /\ IsFiniteSet(scaled)
    BY <2>3, HourTyped
  <2>6. \A p \in data : /\ p.start \in Nat
                        /\ p.start \div PerHour = at \div PerHour
                             <=> HourOf(p.start) = HourOf(at)
    <3>1. \A p \in data : p.start \in Nat
      BY DEF DataInv, Quarterly, PricePoint
    <3>. QED
      BY <2>1, <3>1, SameHour
  <2>7. \A q \in scaled : \E p \in quarters : q.all_in = p.all_in * Scale
    BY <2>6 DEF Hour, HourStart, HourOf, Scaled
  <2>8. quarters # {} => scaled # {}
    <3>. SUFFICES ASSUME NEW p \in quarters PROVE scaled # {}
      OBVIOUS
    <3> DEFINE q == [start |-> p.start, end |-> p.end, market |-> p.market * Scale,
                     all_in |-> p.all_in * Scale, feed_in |-> p.feed_in * Scale]
    <3>1. q \in Scaled(data)
      BY DEF Scaled
    <3>2. HourStart(q) = HourOf(at)
      <4>1. HourOf(p.start) = HourOf(at)
        BY <2>6
      <4>2. q.start = p.start
        OBVIOUS
      <4>. HIDE DEF q
      <4>. QED
        BY <4>1, <4>2 DEF HourStart, HourOf
    <3>. QED
      BY <3>1, <3>2 DEF Hour
  <2>. HIDE DEF at, scaled, price, quarters
  <2>9. CASE quarters = {}
    <3>1. scaled = {}
      BY <2>7, <2>9
    <3>. QED
      BY <2>4, <2>9, <3>1 DEF HourShownFromItsQuarters, quarters, price, at
  <2>10. CASE quarters # {}
    <3>1. "all_in" \in Fields
      BY DEF Fields
    <3>2. /\ Mean(scaled, "all_in") \in Int
          /\ \E q \in scaled : q["all_in"] <= Mean(scaled, "all_in")
          /\ \E q \in scaled : Mean(scaled, "all_in") <= q["all_in"]
      BY <2>5, <2>8, <2>10, <3>1, MeanBetween
    <3>3. price = Mean(scaled, "all_in")
      BY <2>4, <2>8, <2>10
    <3>4. price # None
      BY <3>2, <3>3, NoneAssumption
    <3>5. \E p \in quarters : p.all_in * Scale <= price
      BY <2>7, <3>2, <3>3
    <3>6. \E p \in quarters : price <= p.all_in * Scale
      BY <2>7, <3>2, <3>3
    <3>. QED
      BY <2>10, <3>4, <3>5, <3>6 DEF HourShownFromItsQuarters, quarters, price, at
  <2>. QED
    BY <2>9, <2>10
<1>2. DisplayInit => DataInv
  BY FS_EmptySet DEF DisplayInit, Init, DataInv, Quarterly
<1>3. DisplayInv /\ DataInv /\ [DisplayNext]_displayVars => DataInv'
  BY DataNext DEF DisplayInv, DisplayNext, displayVars
<1>. QED
  BY <1>1, <1>2, <1>3, DisplayInductive, PTL DEF DisplaySpec

=============================================================================
