----------------------------- MODULE Optimizer -----------------------------
(***************************************************************************)
(* The heuristic optimiser: engine/optimizer.py (optimize) with the five   *)
(* strategies of strategies/ and the parameters of engine/config.py.       *)
(* Pure operators; ClosedLoop calls them once per optimisation round.      *)
(*                                                                         *)
(* Powers are watts, prices thousandths of a euro per kWh.  Scores are     *)
(* fractions, compared exactly where the code compares floats.  The SOC    *)
(* limits and the maximal powers are SafetyGate's: both configurations     *)
(* read the same options.                                                  *)
(***************************************************************************)
EXTENDS SafetyGate

CONSTANTS
  Enabled,                     \* the strategies switched on
  PeakImportW, PeakExportW,    \* peak_import_w, peak_export_w
  ReserveSoc,                  \* backup_reserve_soc
  Efficiency,                  \* roundtrip_efficiency, in percent
  CycleCost                    \* degradation_cost + safety_margin

Strategies ==
  {"peak_shaving", "backup_reserve", "self_consumption", "dynamic_pricing",
   "arbitrage"}

\* PeakImportW, PeakExportW, Efficiency and CycleCost are what the option forms
\* admit; an efficiency of zero is what the config/update command also admits.
ASSUME OptimizerAssumption ==
  /\ Enabled \subseteq Strategies
  /\ PeakImportW \in Nat /\ PeakExportW \in Nat /\ ReserveSoc \in Nat
  /\ Efficiency \in Nat /\ CycleCost \in Nat

\* What the strategies read of a price series: the price now, None outside the
\* series, the average, and the highest price to come, None after the last slot.
Market == [price : Int \cup {None}, average : Int, best : Int \cup {None}]

\* SystemState: one snapshot per round.
SystemState ==
  [grid : Int \cup {None}, soc : Int \cup {None}, market : Market]

Fraction == [num : Int, den : Nat \ {0}]
Over(n, d) == [num |-> n, den |-> d]
Higher(a, b) == a.num * b.den > b.num * a.den

\* clamp_score
ClampScore(score) ==
  IF score.num < 0 THEN Over(0, 1)
  ELSE IF score.num > 100 * score.den THEN Over(100, 1) ELSE score

Proposal ==
  [strategy : Strategies, action : Intended, score : Fraction]

\* Python's None is no proposal.
ASSUME NoProposalAssumption == None \notin Proposal

Propose(strategy, action, power_w, score) ==
  [strategy |-> strategy, action |-> [action |-> action, power_w |-> power_w],
   score |-> score]

-----------------------------------------------------------------------------
\* Peak shaving scored like the other strategies.
PeakScoreLow(excess) == Over(30 * 50 + Lesser(excess, 2500), 50)

\* 130 + min(excess / 50, 50)
PeakScore(excess) == Over(130 * 50 + Lesser(excess, 2500), 50)

\* Peak shaving that tests for import instead of import beyond the threshold.
PeakShavingAnyImport(s) ==
  IF s.grid = None \/ s.grid <= 0 THEN None
  ELSE Propose("peak_shaving", "discharge",
               Lesser(s.grid - PeakImportW, MaxDischargeW),
               PeakScore(s.grid - PeakImportW))

PeakShaving(s) ==
  IF s.grid = None THEN None
  ELSE IF s.grid > PeakImportW
  THEN Propose("peak_shaving", "discharge",
               Lesser(s.grid - PeakImportW, MaxDischargeW),
               PeakScore(s.grid - PeakImportW))
  ELSE IF s.grid < -PeakExportW
  THEN Propose("peak_shaving", "charge",
               Lesser(-s.grid - PeakExportW, MaxChargeW),
               PeakScore(-s.grid - PeakExportW))
  ELSE None

\* A reserve that yields to every strategy with a good score.
BackupReserveWeak(s) ==
  IF s.soc = None \/ s.soc >= ReserveSoc THEN None
  ELSE Propose("backup_reserve", "charge", MaxChargeW, Over(60, 1))

BackupReserve(s) ==
  IF s.soc = None \/ s.soc >= ReserveSoc THEN None
  ELSE Propose("backup_reserve", "charge", MaxChargeW, Over(110, 1))

Deadband == 50       \* _DEADBAND_W

\* 30 + 70 * w / max(limit, 1), clamped
ShareScore(w, limit) ==
  LET l == IF limit = 0 THEN 1 ELSE limit
  IN  ClampScore(Over(30 * l + 70 * w, l))

SelfConsumption(s) ==
  IF s.grid = None THEN None
  ELSE IF s.grid < -Deadband
  THEN Propose("self_consumption", "charge", Lesser(-s.grid, MaxChargeW),
               ShareScore(-s.grid, MaxChargeW))
  ELSE IF s.grid > Deadband
  THEN Propose("self_consumption", "discharge", Lesser(s.grid, MaxDischargeW),
               ShareScore(s.grid, MaxDischargeW))
  ELSE Propose("self_consumption", "idle", 0, Over(20, 1))

\* Within 5% of the average a price counts as normal.
DynamicPricing(s) ==
  LET price   == s.market.price
      average == s.market.average
  IN  IF price = None \/ average <= 0 THEN None
      ELSE IF 100 * price < 95 * average
      THEN Propose("dynamic_pricing", "charge", MaxChargeW,
                   ClampScore(Over(300 * (average - price), average)))
      ELSE IF 100 * price > 105 * average
      THEN Propose("dynamic_pricing", "discharge", MaxDischargeW,
                   ClampScore(Over(300 * (price - average), average)))
      ELSE Propose("dynamic_pricing", "idle", 0, Over(15, 1))

\* arbitrage_profit: sell - buy / efficiency - degradation - margin, in
\* thousandths; a loss of a euro without an efficiency.
Profit(buy, sell) ==
  IF Efficiency = 0 THEN Over(-1000, 1)
  ELSE Over((sell - CycleCost) * Efficiency - 100 * buy, Efficiency)

\* A profitable spread scores up to 100, times _PRIORITY.
Arbitrage(s) ==
  IF s.market.price = None \/ s.market.best = None THEN None
  ELSE LET profit == Profit(s.market.price, s.market.best)
           clamped == ClampScore(profit)
       IN  IF profit.num > 0
           THEN Propose("arbitrage", "charge", MaxChargeW,
                        Over(6 * clamped.num, 5 * clamped.den))
           ELSE Propose("arbitrage", "idle", 0, Over(5, 1))

-----------------------------------------------------------------------------
\* can_charge and can_discharge with the limits themselves allowed.
FeasibleAtLimit(action, soc) ==
  \/ soc = None
  \/ /\ action = "charge" => soc <= MaxSoc
     /\ action = "discharge" => soc >= MinSoc

\* can_charge and can_discharge.
Feasible(action, soc) ==
  \/ soc = None
  \/ /\ action = "charge" => soc < MaxSoc
     /\ action = "discharge" => soc > MinSoc

\* A proposal of an enabled strategy that enters `considered', or None.
Considered(strategy, proposal, soc) ==
  IF strategy \in Enabled /\ proposal # None
       /\ Feasible(proposal.action.action, soc)
  THEN proposal ELSE None

\* max() by score keeps the first of equal proposals; None is no proposal.
Best(p, q) ==
  IF p = None THEN q
  ELSE IF q # None /\ Higher(q.score, p.score) THEN q ELSE p

\* The highest score in the order of the registry, or None.
Winner(s) ==
  LET peak    == Considered("peak_shaving", PeakShaving(s), s.soc)
      reserve == Considered("backup_reserve", BackupReserve(s), s.soc)
      self    == Considered("self_consumption", SelfConsumption(s), s.soc)
      dynamic == Considered("dynamic_pricing", DynamicPricing(s), s.soc)
      spread  == Considered("arbitrage", Arbitrage(s), s.soc)
  IN  Best(Best(Best(Best(peak, reserve), self), dynamic), spread)

\* optimize: the chosen action, idle when no strategy could propose one.
Optimize(s) ==
  IF Winner(s) = None THEN [action |-> "idle", power_w |-> 0]
                      ELSE Winner(s).action

\* The power an action asks for, before the gate.
AskedPower(action) ==
  CASE action.action = "charge"    -> action.power_w
    [] action.action = "discharge" -> -action.power_w
    [] OTHER                       -> 0

=============================================================================
