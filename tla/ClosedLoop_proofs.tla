-------------------------- MODULE ClosedLoop_proofs --------------------------
(***************************************************************************)
(* The optimiser and the closed loop around it.                            *)
(*                                                                         *)
(* What optimize guarantees for every snapshot and every option: the best  *)
(* proposal wins, the choice is one the gate would not alter, import peaks *)
(* come first, and a battery below its reserve is discharged for them      *)
(* only.  The ranking rests on bounds: price and self-consumption          *)
(* proposals score at most 100, a spread at most 120, the reserve 110,     *)
(* peaks 130 or more.                                                      *)
(*                                                                         *)
(* The loop of optimiser, gate and battery is an instance of               *)
(* BatteryActuation (LoopSteps), so that everything proved there holds     *)
(* here, and what is said of a single choice reaches the battery, through  *)
(* snapshots, debouncers and late writes.  The link is EvaluatedInv: once  *)
(* the newest decision has been evaluated, the write on its way, or the    *)
(* last result, is the gate's verdict on it.                               *)
(***************************************************************************)
EXTENDS ClosedLoop, BatteryActuation_proofs

\* A fraction is at most, or at least, the whole number n.
AtMost(score, n)  == score.num <= n * score.den
AtLeast(score, n) == score.num >= n * score.den

\* A score of at most n is not higher than one of at least n.
LEMMA NotHigher ==
  ASSUME NEW p \in Fraction, NEW q \in Fraction, NEW n \in Nat,
         AtLeast(p, n), AtMost(q, n)
  PROVE  ~Higher(q, p)
<1> DEFINE a == p.num  b == p.den  c == q.num  d == q.den
<1>1. /\ a \in Int /\ b \in Nat /\ b > 0 /\ c \in Int /\ d \in Nat /\ d > 0
      /\ a >= n * b /\ c <= n * d
  BY DEF Fraction, AtLeast, AtMost
<1>2. Higher(q, p) <=> c * b > a * d
  BY DEF Higher
<1>. HIDE DEF a, b, c, d
<1>3. c * b <= (n * d) * b
  BY <1>1
<1>4. (n * b) * d <= a * d
  BY <1>1
<1>5. (n * d) * b = (n * b) * d
  BY <1>1
<1>6. /\ c * b \in Int /\ a * d \in Int
      /\ (n * d) * b \in Int /\ (n * b) * d \in Int
  BY <1>1
<1>7. ~(c * b > a * d)
  BY <1>3, <1>4, <1>5, <1>6
<1>. QED
  BY <1>2, <1>7

\* clamp_score yields a score from 0 to 100.
LEMMA ClampScoreBounds ==
  ASSUME NEW score \in Fraction
  PROVE  /\ ClampScore(score) \in Fraction
         /\ ClampScore(score).num >= 0
         /\ AtMost(ClampScore(score), 100)
  BY DEF ClampScore, Over, Fraction, AtMost

\* What a strategy hands to the optimiser: nothing, or a proposal of its own
\* within the configured powers.
Offers(proposal, strategy) ==
  proposal # None
    => /\ proposal \in Proposal /\ proposal.strategy = strategy
       /\ proposal.action.action = "charge" => proposal.action.power_w <= MaxChargeW
       /\ proposal.action.action = "discharge"
            => proposal.action.power_w <= MaxDischargeW

LEMMA ProposeType ==
  ASSUME NEW strategy \in Strategies, NEW action \in Actions,
         NEW power_w \in Nat, NEW score \in Fraction,
         action = "charge" => power_w <= MaxChargeW,
         action = "discharge" => power_w <= MaxDischargeW
  PROVE  LET proposal == Propose(strategy, action, power_w, score)
         IN  /\ proposal # None
             /\ Offers(proposal, strategy)
             /\ proposal.action.action = action
             /\ proposal.action.power_w = power_w
             /\ proposal.score = score
<1>1. Propose(strategy, action, power_w, score) \in Proposal
  BY DEF Propose, Proposal, Intended
<1>. QED
  BY <1>1, NoProposalAssumption DEF Propose, Offers

-----------------------------------------------------------------------------
\* An import peak is proposed to be shaved with a score of at least 130.
LEMMA ImportPeak ==
  ASSUME NEW s, s.grid \in Int, s.grid > PeakImportW
  PROVE  /\ PeakShaving(s) # None /\ Offers(PeakShaving(s), "peak_shaving")
         /\ PeakShaving(s).action
              = [action |-> "discharge",
                 power_w |-> Lesser(s.grid - PeakImportW, MaxDischargeW)]
         /\ AtLeast(PeakShaving(s).score, 130)
<1> DEFINE excess == s.grid - PeakImportW
           score  == PeakScore(excess)
<1>1. excess \in Nat /\ s.grid # None
  BY OptimizerAssumption, StateAssumption
<1>2. Lesser(excess, MaxDischargeW) \in Nat
        /\ Lesser(excess, MaxDischargeW) <= MaxDischargeW
  BY <1>1, GateAssumption DEF Lesser
<1>3. score \in Fraction /\ AtLeast(score, 130)
  BY <1>1 DEF PeakScore, Over, Lesser, Fraction, AtLeast
<1>4. PeakShaving(s) = Propose("peak_shaving", "discharge",
                               Lesser(excess, MaxDischargeW), score)
  BY <1>1 DEF PeakShaving
<1>5. PeakShaving(s).action = [action |-> "discharge",
                               power_w |-> Lesser(excess, MaxDischargeW)]
  BY <1>4 DEF Propose
<1>. HIDE DEF excess, score
<1>6. "peak_shaving" \in Strategies /\ "discharge" \in Actions
  BY DEF Strategies, Actions
<1>7. /\ PeakShaving(s) # None /\ Offers(PeakShaving(s), "peak_shaving")
      /\ PeakShaving(s).score = score
  BY <1>2, <1>3, <1>4, <1>6, ProposeType
<1>. QED
  BY <1>3, <1>5, <1>7 DEF excess

\* So is an export peak, by charging; within the thresholds nothing is proposed.
LEMMA NoImportPeak ==
  ASSUME NEW s, s.grid \in Int \cup {None},
         s.grid # None => s.grid <= PeakImportW, PeakShaving(s) # None
  PROVE  /\ Offers(PeakShaving(s), "peak_shaving")
         /\ PeakShaving(s).action.action = "charge"
         /\ AtLeast(PeakShaving(s).score, 130)
<1> DEFINE excess == -s.grid - PeakExportW
           score  == PeakScore(excess)
<1>1. s.grid \in Int /\ s.grid # None /\ s.grid < -PeakExportW
  BY OptimizerAssumption DEF PeakShaving
<1>2. excess \in Nat
  BY <1>1, OptimizerAssumption
<1>3. Lesser(excess, MaxChargeW) \in Nat /\ Lesser(excess, MaxChargeW) <= MaxChargeW
  BY <1>2, GateAssumption DEF Lesser
<1>4. score \in Fraction /\ AtLeast(score, 130)
  BY <1>2 DEF PeakScore, Over, Lesser, Fraction, AtLeast
<1>5. PeakShaving(s) = Propose("peak_shaving", "charge",
                               Lesser(excess, MaxChargeW), score)
  BY <1>1, OptimizerAssumption DEF PeakShaving
<1>. HIDE DEF excess, score
<1>6. "peak_shaving" \in Strategies /\ "charge" \in Actions
  BY DEF Strategies, Actions
<1>. QED
  BY <1>3, <1>4, <1>5, <1>6, ProposeType

\* The reserve asks for a charge with a score of 110.
LEMMA ReserveFacts ==
  ASSUME NEW s, BackupReserve(s) # None
  PROVE  /\ Offers(BackupReserve(s), "backup_reserve")
         /\ BackupReserve(s).action.action = "charge"
         /\ BackupReserve(s).score = Over(110, 1)
<1>1. BackupReserve(s)
        = Propose("backup_reserve", "charge", MaxChargeW, Over(110, 1))
  BY DEF BackupReserve
<1>2. /\ "backup_reserve" \in Strategies /\ "charge" \in Actions
      /\ Over(110, 1) \in Fraction /\ MaxChargeW \in Nat
  BY GateAssumption DEF Strategies, Actions, Over, Fraction
<1>. QED
  BY <1>1, <1>2, ProposeType

\* Self-consumption scores at most 100.
LEMMA SelfFacts ==
  ASSUME NEW s, s.grid \in Int \cup {None}, SelfConsumption(s) # None
  PROVE  /\ Offers(SelfConsumption(s), "self_consumption")
         /\ AtMost(SelfConsumption(s).score, 100)
<1>1. /\ "self_consumption" \in Strategies
      /\ "charge" \in Actions /\ "discharge" \in Actions /\ "idle" \in Actions
      /\ MaxChargeW \in Nat /\ MaxDischargeW \in Nat
  BY GateAssumption DEF Strategies, Actions
<1>2. ASSUME NEW w \in Nat, NEW limit \in Nat
      PROVE  /\ ShareScore(w, limit) \in Fraction
             /\ AtMost(ShareScore(w, limit), 100)
             /\ Lesser(w, limit) \in Nat /\ Lesser(w, limit) <= limit
  <2> DEFINE l == IF limit = 0 THEN 1 ELSE limit
  <2>1. l \in Nat \ {0} /\ 30 * l + 70 * w \in Int
    BY <1>2
  <2>2. Over(30 * l + 70 * w, l) \in Fraction
    BY <2>1 DEF Over, Fraction
  <2>3. ShareScore(w, limit) = ClampScore(Over(30 * l + 70 * w, l))
    BY DEF ShareScore
  <2>. HIDE DEF l
  <2>. QED
    BY <1>2, <2>2, <2>3, ClampScoreBounds DEF Lesser
<1>3. s.grid \in Int
  BY DEF SelfConsumption
<1>4. CASE s.grid < -Deadband
  <2>1. -s.grid \in Nat
    BY <1>3, <1>4 DEF Deadband
  <2>2. SelfConsumption(s)
          = Propose("self_consumption", "charge", Lesser(-s.grid, MaxChargeW),
                    ShareScore(-s.grid, MaxChargeW))
    BY <1>3, <1>4, StateAssumption DEF SelfConsumption
  <2>3. /\ ShareScore(-s.grid, MaxChargeW) \in Fraction
        /\ AtMost(ShareScore(-s.grid, MaxChargeW), 100)
        /\ Lesser(-s.grid, MaxChargeW) \in Nat
        /\ Lesser(-s.grid, MaxChargeW) <= MaxChargeW
    BY <1>1, <1>2, <2>1
  <2>4. /\ Offers(SelfConsumption(s), "self_consumption")
        /\ SelfConsumption(s).score = ShareScore(-s.grid, MaxChargeW)
    BY <1>1, <2>2, <2>3, ProposeType
  <2>. QED
    BY <2>3, <2>4
<1>5. CASE s.grid > Deadband
  <2>1. s.grid \in Nat /\ ~(s.grid < -Deadband)
    BY <1>3, <1>5 DEF Deadband
  <2>2. SelfConsumption(s)
          = Propose("self_consumption", "discharge",
                    Lesser(s.grid, MaxDischargeW),
                    ShareScore(s.grid, MaxDischargeW))
    BY <1>3, <1>5, <2>1, StateAssumption DEF SelfConsumption
  <2>3. /\ ShareScore(s.grid, MaxDischargeW) \in Fraction
        /\ AtMost(ShareScore(s.grid, MaxDischargeW), 100)
        /\ Lesser(s.grid, MaxDischargeW) \in Nat
        /\ Lesser(s.grid, MaxDischargeW) <= MaxDischargeW
    BY <1>1, <1>2, <2>1
  <2>4. /\ Offers(SelfConsumption(s), "self_consumption")
        /\ SelfConsumption(s).score = ShareScore(s.grid, MaxDischargeW)
    BY <1>1, <2>2, <2>3, ProposeType
  <2>. QED
    BY <2>3, <2>4
<1>6. CASE ~(s.grid < -Deadband) /\ ~(s.grid > Deadband)
  <2>1. SelfConsumption(s) = Propose("self_consumption", "idle", 0, Over(20, 1))
    BY <1>3, <1>6, StateAssumption DEF SelfConsumption
  <2>2. Over(20, 1) \in Fraction /\ AtMost(Over(20, 1), 100)
    BY DEF Over, Fraction, AtMost
  <2>. QED
    BY <1>1, <2>1, <2>2, ProposeType
<1>. QED
  BY <1>4, <1>5, <1>6

\* So does dynamic pricing ...
LEMMA DynamicFacts ==
  ASSUME NEW s, s.market \in Market, DynamicPricing(s) # None
  PROVE  /\ Offers(DynamicPricing(s), "dynamic_pricing")
         /\ AtMost(DynamicPricing(s).score, 100)
<1> DEFINE price == s.market.price  average == s.market.average
           low   == ClampScore(Over(300 * (average - price), average))
           high  == ClampScore(Over(300 * (price - average), average))
<1>1. /\ "dynamic_pricing" \in Strategies
      /\ "charge" \in Actions /\ "discharge" \in Actions /\ "idle" \in Actions
      /\ MaxChargeW \in Nat /\ MaxDischargeW \in Nat
  BY GateAssumption DEF Strategies, Actions
<1>2. price \in Int /\ average \in Int /\ average > 0 /\ price # None
  BY DEF DynamicPricing, Market
<1>3. /\ Over(300 * (average - price), average) \in Fraction
      /\ Over(300 * (price - average), average) \in Fraction
  BY <1>2 DEF Over, Fraction
<1>4. /\ low \in Fraction /\ AtMost(low, 100)
      /\ high \in Fraction /\ AtMost(high, 100)
  BY <1>3, ClampScoreBounds
<1>5. Over(15, 1) \in Fraction /\ AtMost(Over(15, 1), 100)
  BY DEF Over, Fraction, AtMost
<1>6. \/ DynamicPricing(s) = Propose("dynamic_pricing", "charge", MaxChargeW, low)
      \/ DynamicPricing(s)
           = Propose("dynamic_pricing", "discharge", MaxDischargeW, high)
      \/ DynamicPricing(s) = Propose("dynamic_pricing", "idle", 0, Over(15, 1))
  BY DEF DynamicPricing
<1>. HIDE DEF low, high, price, average
<1>7. CASE DynamicPricing(s)
             = Propose("dynamic_pricing", "charge", MaxChargeW, low)
  BY <1>1, <1>4, <1>7, ProposeType, SMTT(60)
<1>8. CASE DynamicPricing(s)
             = Propose("dynamic_pricing", "discharge", MaxDischargeW, high)
  BY <1>1, <1>4, <1>8, ProposeType
<1>9. CASE DynamicPricing(s)
             = Propose("dynamic_pricing", "idle", 0, Over(15, 1))
  BY <1>1, <1>5, <1>9, ProposeType
<1>. QED
  BY <1>6, <1>7, <1>8, <1>9

\* ... while arbitrage charges with a score of at most 120, or idles with 5.
LEMMA ArbitrageFacts ==
  ASSUME NEW s, s.market \in Market, Arbitrage(s) # None
  PROVE  /\ Offers(Arbitrage(s), "arbitrage")
         /\ \/ /\ Arbitrage(s).action.action = "charge"
               /\ AtMost(Arbitrage(s).score, 120)
            \/ AtMost(Arbitrage(s).score, 5)
         /\ AtMost(Arbitrage(s).score, 120)
<1> DEFINE profit  == Profit(s.market.price, s.market.best)
           clamped == ClampScore(profit)
           score   == Over(6 * clamped.num, 5 * clamped.den)
<1>1. /\ "arbitrage" \in Strategies /\ "charge" \in Actions
      /\ "idle" \in Actions /\ MaxChargeW \in Nat
  BY GateAssumption DEF Strategies, Actions
<1>2. s.market.price \in Int /\ s.market.best \in Int
  BY DEF Arbitrage, Market
<1>3. profit \in Fraction
  BY <1>2, OptimizerAssumption DEF Profit, Over, Fraction
<1>4. clamped \in Fraction /\ clamped.num <= 100 * clamped.den
  BY <1>3, ClampScoreBounds DEF AtMost
<1>5. \/ Arbitrage(s) = Propose("arbitrage", "charge", MaxChargeW, score)
      \/ Arbitrage(s) = Propose("arbitrage", "idle", 0, Over(5, 1))
  BY DEF Arbitrage
<1>. HIDE DEF clamped, profit
<1>6. score \in Fraction /\ AtMost(score, 120)
  BY <1>4 DEF Over, Fraction, AtMost
<1>7. /\ Over(5, 1) \in Fraction /\ AtMost(Over(5, 1), 5)
      /\ AtMost(Over(5, 1), 120)
  BY DEF Over, Fraction, AtMost
<1>. HIDE DEF score
<1>8. CASE Arbitrage(s) = Propose("arbitrage", "charge", MaxChargeW, score)
  BY <1>1, <1>6, <1>8, ProposeType
<1>9. CASE Arbitrage(s) = Propose("arbitrage", "idle", 0, Over(5, 1))
  BY <1>1, <1>7, <1>9, ProposeType
<1>. QED
  BY <1>5, <1>8, <1>9

-----------------------------------------------------------------------------
\* A snapshot the strategies can read.
Readable(s) ==
  s.grid \in Int \cup {None} /\ s.soc \in Int \cup {None} /\ s.market \in Market

\* What enters `considered': a feasible offer of an enabled strategy.
Candidate(p, strategy, level) ==
  p # None => /\ strategy \in Enabled /\ Offers(p, strategy)
              /\ Feasible(p.action.action, level)

LEMMA ConsideredIsCandidate ==
  ASSUME NEW strategy, NEW p, NEW level, p # None => Offers(p, strategy)
  PROVE  /\ Candidate(Considered(strategy, p, level), strategy, level)
         /\ Considered(strategy, p, level) \in {p, None}
  BY DEF Considered, Candidate

LEMMA PeakCandidate ==
  ASSUME NEW s, Readable(s), PeakShaving(s) # None
  PROVE  /\ Offers(PeakShaving(s), "peak_shaving")
         /\ AtLeast(PeakShaving(s).score, 130)
         /\ PeakShaving(s).action.action = "discharge"
              => s.grid # None /\ s.grid > PeakImportW
<1>1. CASE s.grid # None /\ s.grid > PeakImportW
  BY <1>1, ImportPeak DEF Readable
<1>2. CASE ~(s.grid # None /\ s.grid > PeakImportW)
  <2>1. s.grid # None => s.grid <= PeakImportW
    BY <1>2, OptimizerAssumption DEF Readable
  <2>. QED
    BY <2>1, NoImportPeak DEF Readable
<1>. QED
  BY <1>1, <1>2

\* The five candidates by name, as Winner ranks them.
Peak(s)    == Considered("peak_shaving", PeakShaving(s), s.soc)
Reserve(s) == Considered("backup_reserve", BackupReserve(s), s.soc)
Self(s)    == Considered("self_consumption", SelfConsumption(s), s.soc)
Dynamic(s) == Considered("dynamic_pricing", DynamicPricing(s), s.soc)
Spread(s)  == Considered("arbitrage", Arbitrage(s), s.soc)

LEMMA WinnerRanks ==
  ASSUME NEW s
  PROVE  Winner(s)
           = Best(Best(Best(Best(Peak(s), Reserve(s)), Self(s)), Dynamic(s)),
                  Spread(s))
  BY DEF Winner, Peak, Reserve, Self, Dynamic, Spread

LEMMA Candidates ==
  ASSUME NEW s, Readable(s)
  PROVE  /\ Candidate(Peak(s), "peak_shaving", s.soc)
         /\ Candidate(Reserve(s), "backup_reserve", s.soc)
         /\ Candidate(Self(s), "self_consumption", s.soc)
         /\ Candidate(Dynamic(s), "dynamic_pricing", s.soc)
         /\ Candidate(Spread(s), "arbitrage", s.soc)
         /\ Peak(s) # None
              => /\ AtLeast(Peak(s).score, 130)
                 /\ Peak(s).action.action = "discharge"
                      => s.grid # None /\ s.grid > PeakImportW
         /\ Reserve(s) # None
              => /\ Reserve(s).action.action = "charge"
                 /\ Reserve(s).score = Over(110, 1)
         /\ Self(s) # None => AtMost(Self(s).score, 100)
         /\ Dynamic(s) # None => AtMost(Dynamic(s).score, 100)
         /\ Spread(s) # None
              => /\ \/ Spread(s).action.action = "charge"
                    \/ AtMost(Spread(s).score, 5)
                 /\ AtMost(Spread(s).score, 120)
<1>1. /\ Candidate(Peak(s), "peak_shaving", s.soc)
      /\ Peak(s) \in {PeakShaving(s), None}
  BY PeakCandidate, ConsideredIsCandidate DEF Peak
<1>2. /\ Candidate(Reserve(s), "backup_reserve", s.soc)
      /\ Reserve(s) \in {BackupReserve(s), None}
  BY ReserveFacts, ConsideredIsCandidate DEF Reserve
<1>3. /\ Candidate(Self(s), "self_consumption", s.soc)
      /\ Self(s) \in {SelfConsumption(s), None}
  BY SelfFacts, ConsideredIsCandidate DEF Self, Readable
<1>4. /\ Candidate(Dynamic(s), "dynamic_pricing", s.soc)
      /\ Dynamic(s) \in {DynamicPricing(s), None}
  BY DynamicFacts, ConsideredIsCandidate DEF Dynamic, Readable
<1>5. /\ Candidate(Spread(s), "arbitrage", s.soc)
      /\ Spread(s) \in {Arbitrage(s), None}
  BY ArbitrageFacts, ConsideredIsCandidate DEF Spread, Readable
<1>6. Peak(s) # None
        => /\ AtLeast(Peak(s).score, 130)
           /\ Peak(s).action.action = "discharge"
                => s.grid # None /\ s.grid > PeakImportW
  BY <1>1, PeakCandidate
<1>7. Reserve(s) # None
        => /\ Reserve(s).action.action = "charge"
           /\ Reserve(s).score = Over(110, 1)
  BY <1>2, ReserveFacts
<1>8. Self(s) # None => AtMost(Self(s).score, 100)
  BY <1>3, SelfFacts DEF Readable
<1>9. Dynamic(s) # None => AtMost(Dynamic(s).score, 100)
  BY <1>4, DynamicFacts DEF Readable
<1>10. Spread(s) # None
         => /\ \/ Spread(s).action.action = "charge"
               \/ AtMost(Spread(s).score, 5)
            /\ AtMost(Spread(s).score, 120)
  BY <1>5, ArbitrageFacts DEF Readable
<1>. QED
  BY <1>1, <1>2, <1>3, <1>4, <1>5, <1>6, <1>7, <1>8, <1>9, <1>10

LEMMA CandidateScore ==
  ASSUME NEW p, NEW strategy, NEW level, Candidate(p, strategy, level), p # None
  PROVE  p.score \in Fraction
  BY DEF Candidate, Offers, Proposal

\* A score of at least n does not yield to one of at most n, ties included.
LEMMA BestStays ==
  ASSUME NEW p, NEW q, NEW n \in Nat, p # None, p.score \in Fraction,
         AtLeast(p.score, n),
         q # None => q.score \in Fraction /\ AtMost(q.score, n)
  PROVE  Best(p, q) = p
  BY NotHigher DEF Best

\* The winner is one of the candidates.
LEMMA WinnerIsCandidate ==
  ASSUME NEW s, Winner(s) # None
  PROVE  Winner(s) \in {Peak(s), Reserve(s), Self(s), Dynamic(s), Spread(s)}
  BY WinnerRanks DEF Best

-----------------------------------------------------------------------------
\* Optimiser and gate agree: what optimize chooses is an action within the
\* configured powers that is feasible at the SOC it was taken at, so that
\* evaluate, asked with the same SOC, does not alter it.
THEOREM ChoiceFitsGate ==
  ASSUME NEW s, Readable(s)
  PROVE  /\ Optimize(s) \in Intended
         /\ SignedPower(Optimize(s), s.soc) = AskedPower(Optimize(s))
<1> DEFINE choice == Optimize(s)
<1>1. CASE Winner(s) = None
  <2>1. choice = [action |-> "idle", power_w |-> 0]
    BY <1>1 DEF Optimize
  <2>. QED
    BY <2>1 DEF SignedPower, AskedPower, SocBlocks, Intended, Actions
<1>2. CASE Winner(s) # None
  <2>1. PICK strategy \in Strategies : Candidate(Winner(s), strategy, s.soc)
    BY <1>2, WinnerIsCandidate, Candidates DEF Strategies
  <2>2. /\ choice = Winner(s).action
        /\ Winner(s) \in Proposal /\ Feasible(choice.action, s.soc)
        /\ choice.action = "charge" => choice.power_w <= MaxChargeW
        /\ choice.action = "discharge" => choice.power_w <= MaxDischargeW
    BY <1>2, <2>1 DEF Optimize, Candidate, Offers
  <2>3. choice \in Intended
    BY <2>2 DEF Proposal
  <2>. HIDE DEF choice
  <2>4. ~SocBlocks(choice, s.soc)
    BY <2>2, GateAssumption, StateAssumption DEF SocBlocks, Feasible, Readable
  <2>. QED
    BY <2>2, <2>3, <2>4, GateAssumption
       DEF SignedPower, AskedPower, Lesser, Intended, Actions, choice
<1>. QED
  BY <1>1, <1>2

\* "Peak shaving outranks the others": an import peak that the battery's charge
\* allows to be shaved decides the choice, whatever the other strategies propose.
THEOREM PeaksFirst ==
  ASSUME NEW s, Readable(s), "peak_shaving" \in Enabled,
         s.grid # None, s.grid > PeakImportW, Feasible("discharge", s.soc)
  PROVE  Optimize(s)
           = [action |-> "discharge",
              power_w |-> Lesser(s.grid - PeakImportW, MaxDischargeW)]
<1>1. /\ PeakShaving(s) # None
      /\ PeakShaving(s).action
           = [action |-> "discharge",
              power_w |-> Lesser(s.grid - PeakImportW, MaxDischargeW)]
      /\ AtLeast(PeakShaving(s).score, 130)
  BY ImportPeak DEF Readable
<1>2. Peak(s) = PeakShaving(s)
  BY <1>1 DEF Peak, Considered
<1>3. Peak(s).score \in Fraction
  BY <1>1, <1>2, Candidates, CandidateScore
<1>4. Reserve(s) # None
        => Reserve(s).score \in Fraction /\ AtMost(Reserve(s).score, 130)
  BY Candidates DEF Over, Fraction, AtMost
<1>5. Self(s) # None
        => Self(s).score \in Fraction /\ AtMost(Self(s).score, 130)
  <2>1. Self(s) # None
          => Self(s).score \in Fraction /\ AtMost(Self(s).score, 100)
    BY Candidates, CandidateScore
  <2>. QED
    BY <2>1 DEF Fraction, AtMost
<1>6. Dynamic(s) # None
        => Dynamic(s).score \in Fraction /\ AtMost(Dynamic(s).score, 130)
  <2>1. Dynamic(s) # None
          => Dynamic(s).score \in Fraction /\ AtMost(Dynamic(s).score, 100)
    BY Candidates, CandidateScore
  <2>. QED
    BY <2>1 DEF Fraction, AtMost
<1>7. Spread(s) # None
        => Spread(s).score \in Fraction /\ AtMost(Spread(s).score, 130)
  <2>1. Spread(s) # None
          => Spread(s).score \in Fraction /\ AtMost(Spread(s).score, 120)
    BY Candidates, CandidateScore
  <2>. QED
    BY <2>1 DEF Fraction, AtMost
<1>8. Winner(s) = Peak(s)
  BY <1>1, <1>2, <1>3, <1>4, <1>5, <1>6, <1>7, WinnerRanks, BestStays
<1>. QED
  BY <1>1, <1>2, <1>8 DEF Optimize

\* "The reserve is protected, but below peak shaving": below it, unless the
\* battery may not be charged at all, only an import peak makes optimize
\* discharge.
THEOREM ReserveHeld ==
  ASSUME NEW s, Readable(s), "backup_reserve" \in Enabled,
         s.soc # None, s.soc < ReserveSoc, s.soc < MaxSoc,
         Optimize(s).action = "discharge"
  PROVE  /\ "peak_shaving" \in Enabled
         /\ s.grid # None /\ s.grid > PeakImportW
<1>1. BackupReserve(s)
        = Propose("backup_reserve", "charge", MaxChargeW, Over(110, 1))
  BY GateAssumption, OptimizerAssumption DEF BackupReserve, Readable
<1>2. BackupReserve(s) # None /\ BackupReserve(s).action.action = "charge"
  <2>1. /\ "backup_reserve" \in Strategies /\ "charge" \in Actions
        /\ Over(110, 1) \in Fraction /\ MaxChargeW \in Nat
    BY GateAssumption DEF Strategies, Actions, Over, Fraction
  <2>. QED
    BY <1>1, <2>1, ProposeType
<1>3. Reserve(s) = BackupReserve(s) /\ Reserve(s) # None
  BY <1>2 DEF Reserve, Considered, Feasible
<1> DEFINE first == Best(Peak(s), Reserve(s))
<1>4. /\ first # None /\ first.score \in Fraction /\ AtLeast(first.score, 110)
      /\ first \in {Peak(s), Reserve(s)}
  <2>1. /\ Reserve(s).score \in Fraction /\ AtLeast(Reserve(s).score, 110)
    BY <1>3, Candidates DEF Over, Fraction, AtLeast
  <2>2. Peak(s) # None
          => Peak(s).score \in Fraction /\ AtLeast(Peak(s).score, 110)
    <3>1. Peak(s) # None
            => Peak(s).score \in Fraction /\ AtLeast(Peak(s).score, 130)
      BY Candidates, CandidateScore
    <3>. QED
      BY <3>1 DEF Fraction, AtLeast
  <2>. QED
    BY <1>3, <2>1, <2>2 DEF Best
<1>. HIDE DEF first
<1>5. Best(first, Self(s)) = first
  <2>1. Self(s) # None
          => Self(s).score \in Fraction /\ AtMost(Self(s).score, 100)
    BY Candidates, CandidateScore
  <2>2. Self(s) # None => AtMost(Self(s).score, 110)
    BY <2>1 DEF Fraction, AtMost
  <2>. QED
    BY <1>4, <2>1, <2>2, BestStays
<1>6. Best(first, Dynamic(s)) = first
  <2>1. Dynamic(s) # None
          => Dynamic(s).score \in Fraction /\ AtMost(Dynamic(s).score, 100)
    BY Candidates, CandidateScore
  <2>2. Dynamic(s) # None => AtMost(Dynamic(s).score, 110)
    BY <2>1 DEF Fraction, AtMost
  <2>. QED
    BY <1>4, <2>1, <2>2, BestStays
<1>7. Winner(s) = Best(first, Spread(s))
  BY <1>5, <1>6, WinnerRanks DEF first
<1>8. CASE Winner(s) = first
  <2>1. Optimize(s) = first.action
    BY <1>4, <1>8 DEF Optimize
  <2>2. first = Peak(s) /\ Peak(s) # None
    BY <1>2, <1>3, <1>4, <2>1
  <2>. QED
    BY <2>1, <2>2, Candidates DEF Candidate
<1>9. CASE Winner(s) # first
  <2>1. Winner(s) = Spread(s) /\ Spread(s) # None
    BY <1>4, <1>7, <1>9 DEF Best
  <2>2. ~AtMost(Spread(s).score, 5)
    <3>1. SUFFICES ASSUME AtMost(Spread(s).score, 5) PROVE FALSE
      OBVIOUS
    <3>2. Spread(s).score \in Fraction
      BY <2>1, Candidates, CandidateScore
    <3>3. AtMost(Spread(s).score, 110)
      BY <3>1, <3>2 DEF Fraction, AtMost
    <3>. QED
      BY <1>4, <1>7, <1>9, <3>2, <3>3, BestStays
  <2>3. Spread(s).action.action = "charge"
    BY <2>1, <2>2, Candidates
  <2>. QED
    BY <2>1, <2>3 DEF Optimize
<1>. QED
  BY <1>8, <1>9

-----------------------------------------------------------------------------
\* Scores are ordered: one higher than a score that a third does not exceed is
\* higher than the third.
LEMMA HigherThrough ==
  ASSUME NEW p \in Fraction, NEW q \in Fraction, NEW r \in Fraction,
         ~Higher(p, q), Higher(r, q)
  PROVE  Higher(r, p)
<1> DEFINE a == p.num  b == p.den  c == q.num  d == q.den  e == r.num  f == r.den
<1>1. /\ a \in Int /\ b \in Nat /\ b > 0 /\ c \in Int /\ d \in Nat /\ d > 0
      /\ e \in Int /\ f \in Nat /\ f > 0
  BY DEF Fraction
<1>2. a * d <= c * b /\ e * d > c * f
  BY <1>1 DEF Higher
<1>3. Higher(r, p) <=> e * b > a * f
  BY DEF Higher
<1>. HIDE DEF a, b, c, d, e, f
<1>4. (a * d) * f <= (c * b) * f /\ (e * d) * b > (c * f) * b
  BY <1>1, <1>2
<1>5. /\ (a * d) * f = (a * f) * d /\ (e * d) * b = (e * b) * d
      /\ (c * b) * f = (c * f) * b
  BY <1>1
<1>6. a * f \in Int /\ e * b \in Int /\ (c * f) * b \in Int
  BY <1>1
<1> DEFINE x == a * f  y == e * b
<1>7. x * d < y * d /\ x \in Int /\ y \in Int
  BY <1>1, <1>4, <1>5, <1>6
<1>. HIDE DEF x, y
<1>8. ~(x >= y)
  <2>. SUFFICES ASSUME x >= y PROVE FALSE
    OBVIOUS
  <2>1. x * d >= y * d /\ x * d \in Int /\ y * d \in Int
    BY <1>1, <1>7
  <2>. QED
    BY <1>7, <2>1
<1>9. y > x
  BY <1>7, <1>8
<1>. QED
  BY <1>3, <1>9 DEF x, y

\* No score is higher than one that is higher than it, nor than itself.
LEMMA HigherOneWay ==
  ASSUME NEW p \in Fraction, NEW q \in Fraction, Higher(p, q)
  PROVE  ~Higher(q, p)
<1>1. /\ p.num * q.den \in Int /\ q.num * p.den \in Int
  BY DEF Fraction
<1>. QED
  BY <1>1 DEF Higher

\* The candidates in the order of the registry.
Ranked(s) == <<Peak(s), Reserve(s), Self(s), Dynamic(s), Spread(s)>>

\* w is what max() makes of the first n candidates: the first of those with the
\* highest score, or None where nobody proposed.
FirstHighest(w, n, s) ==
  \/ w = None /\ \A j \in 1..n : Ranked(s)[j] = None
  \/ \E i \in 1..n :
       /\ w = Ranked(s)[i] /\ w # None
       /\ \A j \in 1..n :
            Ranked(s)[j] # None => /\ ~Higher(Ranked(s)[j].score, w.score)
                                   /\ j < i => Higher(w.score, Ranked(s)[j].score)

LEMMA RankedScore ==
  ASSUME NEW s, Readable(s), NEW i \in 1..5, Ranked(s)[i] # None
  PROVE  Ranked(s)[i].score \in Fraction
<1>1. \/ i = 1 /\ Ranked(s)[i] = Peak(s)
      \/ i = 2 /\ Ranked(s)[i] = Reserve(s)
      \/ i = 3 /\ Ranked(s)[i] = Self(s)
      \/ i = 4 /\ Ranked(s)[i] = Dynamic(s)
      \/ i = 5 /\ Ranked(s)[i] = Spread(s)
  BY DEF Ranked
<1>. QED
  BY <1>1, Candidates, CandidateScore

\* One more candidate.
LEMMA BestOfMore ==
  ASSUME NEW s, Readable(s), NEW n \in 1..4, NEW w, FirstHighest(w, n, s)
  PROVE  FirstHighest(Best(w, Ranked(s)[n + 1]), n + 1, s)
<1> DEFINE c == Ranked(s)  q == c[n + 1]
<1>0. n + 1 \in 1..5 /\ \A j \in 1..(n + 1) : j \in 1..n \/ j = n + 1
  OBVIOUS
<1>1. CASE w = None
  <2>1. \A j \in 1..n : c[j] = None
    BY <1>1 DEF FirstHighest
  <2>2. Best(w, q) = q
    BY <1>1 DEF Best
  <2>3. CASE q = None
    BY <1>0, <2>1, <2>2, <2>3 DEF FirstHighest
  <2>4. CASE q # None
    <3>1. q.score \in Fraction
      BY <1>0, <2>4, RankedScore
    <3>2. ~Higher(q.score, q.score)
      BY <3>1, HigherOneWay
    <3>3. \A j \in 1..(n + 1) :
            c[j] # None => /\ ~Higher(c[j].score, q.score)
                           /\ j < n + 1 => Higher(q.score, c[j].score)
      BY <1>0, <2>1, <3>2
    <3>. QED
      BY <1>0, <2>2, <2>4, <3>3 DEF FirstHighest
  <2>. QED
    BY <2>3, <2>4
<1>2. CASE w # None
  <2>1. PICK i \in 1..n :
          /\ w = c[i]
          /\ \A j \in 1..n :
               c[j] # None => /\ ~Higher(c[j].score, w.score)
                              /\ j < i => Higher(w.score, c[j].score)
    BY <1>2 DEF FirstHighest
  <2>2. w.score \in Fraction
    BY <1>2, <2>1, RankedScore
  <2>3. CASE q # None /\ Higher(q.score, w.score)
    <3>1. Best(w, q) = q
      BY <1>2, <2>3 DEF Best
    <3>2. q.score \in Fraction
      BY <1>0, <2>3, RankedScore
    <3>3. ASSUME NEW j \in 1..n, c[j] # None
          PROVE  Higher(q.score, c[j].score) /\ ~Higher(c[j].score, q.score)
      <4>1. c[j].score \in Fraction /\ ~Higher(c[j].score, w.score)
        BY <2>1, <3>3, RankedScore
      <4>. QED
        BY <2>2, <2>3, <3>2, <4>1, HigherThrough, HigherOneWay
    <3>4. ~Higher(q.score, q.score)
      BY <3>2, HigherOneWay
    <3>5. \A j \in 1..(n + 1) :
            c[j] # None => /\ ~Higher(c[j].score, q.score)
                           /\ j < n + 1 => Higher(q.score, c[j].score)
      BY <1>0, <3>3, <3>4
    <3>. QED
      BY <1>0, <2>3, <3>1, <3>5 DEF FirstHighest
  <2>4. CASE ~(q # None /\ Higher(q.score, w.score))
    <3>1. Best(w, q) = w
      BY <1>2, <2>4 DEF Best
    <3>2. \A j \in 1..(n + 1) :
            c[j] # None => /\ ~Higher(c[j].score, w.score)
                           /\ j < i => Higher(w.score, c[j].score)
      BY <1>0, <2>1, <2>4
    <3>3. i \in 1..(n + 1)
      OBVIOUS
    <3>. QED
      BY <1>2, <2>1, <3>1, <3>2, <3>3 DEF FirstHighest
  <2>. QED
    BY <2>3, <2>4
<1>. QED
  BY <1>1, <1>2

\* "Selects the highest-scoring feasible proposal": whatever the strategies read,
\* none of those considered scores higher than the winner, of equal ones it is
\* the first in the registry, and nobody wins only if nobody was considered.
THEOREM HighestScoreWins ==
  ASSUME NEW s, Readable(s)
  PROVE  FirstHighest(Winner(s), 5, s)
<1> DEFINE two   == Best(Peak(s), Reserve(s))
           three == Best(two, Self(s))
           four  == Best(three, Dynamic(s))
<1>0. /\ Ranked(s)[1] = Peak(s) /\ Ranked(s)[2] = Reserve(s)
      /\ Ranked(s)[3] = Self(s) /\ Ranked(s)[4] = Dynamic(s)
      /\ Ranked(s)[5] = Spread(s)
  BY DEF Ranked
<1>1. FirstHighest(Peak(s), 1, s)
  <2>1. CASE Peak(s) = None
    BY <1>0, <2>1 DEF FirstHighest
  <2>2. CASE Peak(s) # None
    <3>1. ~Higher(Peak(s).score, Peak(s).score)
      BY <2>2, Candidates, CandidateScore, HigherOneWay
    <3>. QED
      BY <1>0, <2>2, <3>1 DEF FirstHighest
  <2>. QED
    BY <2>1, <2>2
<1>2. FirstHighest(two, 1 + 1, s)
  BY <1>0, <1>1, BestOfMore
<1>. HIDE DEF two
<1>3. FirstHighest(three, 2 + 1, s)
  BY <1>0, <1>2, BestOfMore
<1>. HIDE DEF three
<1>4. FirstHighest(four, 3 + 1, s)
  BY <1>0, <1>3, BestOfMore
<1>. HIDE DEF four
<1>5. FirstHighest(Best(four, Spread(s)), 4 + 1, s)
  BY <1>0, <1>4, BestOfMore
<1>. QED
  BY <1>5, WinnerRanks DEF two, three, four

-----------------------------------------------------------------------------
\* With self-consumption alone its proposal is chosen, if it is feasible.
LEMMA SelfAlone ==
  ASSUME NEW s, Enabled = {"self_consumption"},
         NEW action \in Actions, NEW power_w, NEW score,
         SelfConsumption(s) = Propose("self_consumption", action, power_w, score),
         SelfConsumption(s) # None, Feasible(action, s.soc)
  PROVE  Optimize(s) = [action |-> action, power_w |-> power_w]
<1>1. SelfConsumption(s).action = [action |-> action, power_w |-> power_w]
  BY DEF Propose
<1>2. Considered("self_consumption", SelfConsumption(s), s.soc)
        = SelfConsumption(s)
  BY <1>1 DEF Considered
<1>3. /\ Considered("peak_shaving", PeakShaving(s), s.soc) = None
      /\ Considered("backup_reserve", BackupReserve(s), s.soc) = None
      /\ Considered("dynamic_pricing", DynamicPricing(s), s.soc) = None
      /\ Considered("arbitrage", Arbitrage(s), s.soc) = None
  BY DEF Considered
<1>4. Winner(s) = SelfConsumption(s)
  BY <1>2, <1>3 DEF Winner, Best
<1>. QED
  BY <1>1, <1>4 DEF Optimize

\* A surplus the battery takes up is released by the next round: the meter no
\* longer shows it once the battery charges with it, so the strategy, which reads
\* nothing but the meter, asks the battery to idle.  "Keep PV energy local" fails
\* this way for every surplus beyond the deadband, not at the edge of a bound.
THEOREM SurplusReleased ==
  ASSUME Enabled = {"self_consumption"},
         NEW s, s.grid \in Int, s.grid < -Deadband, -s.grid <= MaxChargeW,
         Feasible("charge", s.soc),
         NEW after, after.grid = s.grid + AskedPower(Optimize(s))
  PROVE  /\ Optimize(s) = [action |-> "charge", power_w |-> -s.grid]
         /\ Optimize(after) = [action |-> "idle", power_w |-> 0]
<1>1. s.grid \in Int /\ -s.grid \in Nat
  BY DEF Deadband
<1>2. /\ "self_consumption" \in Strategies
      /\ "charge" \in Actions /\ "idle" \in Actions
  BY DEF Strategies, Actions
<1>3. Optimize(s) = [action |-> "charge", power_w |-> -s.grid]
  <2>1. SelfConsumption(s)
          = Propose("self_consumption", "charge", -s.grid,
                    ShareScore(-s.grid, MaxChargeW))
    BY <1>1, GateAssumption, StateAssumption DEF SelfConsumption, Lesser
  <2>2. Over(30 * MaxChargeW + 70 * (-s.grid), MaxChargeW) \in Fraction
    BY <1>1, GateAssumption DEF Over, Fraction, Deadband
  <2>3. ShareScore(-s.grid, MaxChargeW) \in Fraction
    BY <1>1, <2>2, ClampScoreBounds, GateAssumption DEF ShareScore, Deadband
  <2>4. SelfConsumption(s) # None
    BY <1>1, <1>2, <2>1, <2>3, ProposeType
  <2>. QED
    BY <1>2, <2>1, <2>4, SelfAlone
<1>4. after.grid = 0
  BY <1>1, <1>3 DEF AskedPower
<1>5. SelfConsumption(after)
        = Propose("self_consumption", "idle", 0, Over(20, 1))
  BY <1>4, StateAssumption DEF SelfConsumption, Deadband
<1>6. SelfConsumption(after) # None
  BY <1>2, <1>5, ProposeType DEF Over, Fraction
<1>7. Feasible("idle", after.soc)
  BY DEF Feasible
<1>. QED
  BY <1>2, <1>3, <1>5, <1>6, <1>7, SelfAlone

-----------------------------------------------------------------------------
\* The decision in force is the choice for the snapshot it was taken from.
LoopInv ==
  /\ load \in Loads /\ market \in Markets
  /\ grid \in Int \cup {None}
  /\ optimizer \in DebouncerState
  /\ due \in BOOLEAN
  /\ snapshot \in Snapshot \cup {None}
  /\ decision # None
       => /\ snapshot \in Snapshot /\ snapshot.market # None
          /\ decision = Optimize(snapshot)

\* A result is the gate's verdict on the decision in force.
Judges(result) ==
  /\ decision # None
  /\ result.outcome.signed_w = SignedPower(decision, result.seen)

EvaluatedInv ==
  pending = "evaluated"
    => /\ flight # None => Judges(flight.result)
       /\ (flight = None /\ data # None /\ last_update_success) => Judges(data)

LoopIInv == IInv /\ LoopInv /\ EvaluatedInv

\* A snapshot with prices can be read by every strategy.
LEMMA SnapshotReadable ==
  ASSUME NEW s \in Snapshot, s.market # None
  PROVE  Readable(s)
  BY LoopAssumption, ActuationAssumption DEF Snapshot, Readable

LEMMA NowFacts ==
  ASSUME LoopInv, soc \in Readings
  PROVE  /\ Now \in Snapshot
         /\ Decide(Now) # None
              => Now.market # None /\ Decide(Now) = Optimize(Now)
         /\ Decide(Now) \in Intended \cup {None}
<1>1. Now \in Snapshot
  BY DEF LoopInv, Now, Snapshot
<1>2. Decide(Now) \in Intended \cup {None}
  BY <1>1, SnapshotReadable, ChoiceFitsGate DEF Decide
<1>. QED
  BY <1>1, <1>2 DEF Decide

-----------------------------------------------------------------------------
\* Every step of the loop is one of BatteryActuation, or leaves its variables
\* alone, and keeps the decision and its snapshot together.
LEMMA LoopSteps ==
  ASSUME Decisions = Intended, CycleTypeOK, soc \in Readings, LoopInv,
         [LoopNext]_allVars
  PROVE  [Next]_vars /\ LoopInv'
<1>. USE LoopAssumption
<1>1. MeterReading \in Int
  BY DEF LoopInv, MeterReading, CycleTypeOK, Device
<1>2. ASSUME NEW c \in BOOLEAN, Start(c)
      PROVE  [Next]_vars /\ LoopInv'
  <2>1. Next
    BY <1>2, NowFacts DEF Start, Next
  <2>2. /\ decision' = Decide(Now) /\ snapshot' = Now /\ optimizer' = Quiet
        /\ UNCHANGED <<load, grid, market, due>>
    BY <1>2 DEF Start, Setup
  <2>3. LoopInv'
    BY <2>2, NowFacts DEF LoopInv, Quiet, DebouncerState
  <2>. QED
    BY <2>1, <2>3
<1>3. ASSUME Round(CoolingDown), UNCHANGED <<load, grid, market>>, due' \in BOOLEAN
      PROVE  [Next]_vars /\ LoopInv'
  <2>1. Next
    BY <1>3, NowFacts DEF Round, Next
  <2>2. /\ decision' = Decide(Now) /\ snapshot' = Now
        /\ optimizer' = CoolingDown
    BY <1>3 DEF Round, NewDecision
  <2>3. LoopInv'
    BY <1>3, <2>2, NowFacts DEF LoopInv, CoolingDown, DebouncerState
  <2>. QED
    BY <2>1, <2>3
<1>4. ASSUME NEW s \in Readings, NEW g \in {MeterReading, None},
             TelemetryChanges(g, s)
      PROVE  [Next]_vars /\ LoopInv'
  <2>1. CASE s = soc
    <3>1. UNCHANGED vars
      BY <1>4, <2>1 DEF TelemetryChanges, vars, cycleVars
    <3>. QED
      BY <1>1, <1>4, <3>1 DEF TelemetryChanges, LoopInv
  <2>2. CASE s # soc
    <3>1. TelemetryUpdate(s)
      BY <1>4, <2>2 DEF TelemetryChanges, TelemetryUpdate
    <3>. QED
      BY <1>1, <1>4, <3>1 DEF TelemetryChanges, LoopInv, Next
  <2>. QED
    BY <2>1, <2>2
<1>5. ASSUME NEW m \in Markets, PricesUpdate(m)
      PROVE  [Next]_vars /\ LoopInv'
  BY <1>5 DEF PricesUpdate, LoopInv, vars
<1>6. ASSUME OptimizerNotified
      PROVE  [Next]_vars /\ LoopInv'
  <2>1. CASE RunsNow(optimizer, FALSE)
    BY <1>3, <1>6, <2>1 DEF OptimizerNotified
  <2>2. CASE ~RunsNow(optimizer, FALSE)
    <3>1. optimizer' \in DebouncerState
      BY <1>6, <2>2, DebouncerTypes DEF OptimizerNotified, LoopInv
    <3>. QED
      BY <1>6, <2>2, <3>1 DEF OptimizerNotified, LoopInv, vars
  <2>. QED
    BY <2>1, <2>2
<1>7. ASSUME OptimizerTimerFires
      PROVE  [Next]_vars /\ LoopInv'
  <2>1. CASE optimizer.again
    BY <1>3, <1>7, <2>1 DEF OptimizerTimerFires, LoopInv
  <2>2. CASE ~optimizer.again
    <3>1. /\ optimizer' = Quiet
          /\ UNCHANGED <<vars, snapshot, load, grid, market, due>>
      BY <1>7, <2>2 DEF OptimizerTimerFires
    <3>2. Quiet \in DebouncerState
      BY DebouncerTypes
    <3>. QED
      BY <3>1, <3>2 DEF LoopInv, vars
  <2>. QED
    BY <2>1, <2>2
<1>8. ASSUME NEW l \in Loads, LoadChanges(l)
      PROVE  [Next]_vars /\ LoopInv'
  BY <1>8 DEF LoadChanges, LoopInv, vars
<1>9. ASSUME BatteryStep
      PROVE  [Next]_vars /\ LoopInv'
  <2>1. Next
    BY <1>9 DEF BatteryStep, Next
  <2>2. decision' = decision
    BY <1>9 DEF BatteryStep, TimerFires, inputs
  <2>. QED
    BY <1>9, <2>1, <2>2 DEF BatteryStep, loopVars, LoopInv
<1>10. CASE UNCHANGED allVars
  BY <1>10 DEF allVars, LoopInv, vars
<1>. QED
  BY <1>2, <1>4, <1>5, <1>6, <1>7, <1>8, <1>9, <1>10 DEF LoopNext

-----------------------------------------------------------------------------
\* A pass leaves its verdict on the decision it was about.
LEMMA PassJudges ==
  ASSUME CycleTypeOK, soc \in Readings, NEW d \in Decisions \cup {None},
         NEW s \in ControlState, NEW after, configured' \in BOOLEAN,
         Pass(d, s, after), decision' = d
  PROVE  EvaluatedInv'
<1>1. CASE d = None
  BY <1>1, SkippedCases DEF Pass, PassEnded, EvaluatedInv
<1>2. CASE d # None
  <2> DEFINE outcome == Evaluate(d, soc, s, now)
  <2>1. d \in Intended /\ now \in Int
    BY <1>2, ActuationAssumption DEF CycleTypeOK
  <2>2. outcome \in Outcome /\ outcome.signed_w = SignedPower(d, soc)
    BY <2>1, EvaluateFacts
  <2>3. Judged(outcome, soc, after)
    BY <1>2 DEF Pass
  <2>. HIDE DEF outcome
  <2>4. \/ /\ WriteStarted
           /\ flight'.result.outcome = outcome /\ flight'.result.seen = soc
        \/ /\ PassEnded(after)
           /\ data' # None => data'.outcome = outcome /\ data'.seen = soc
    BY <2>2, <2>3, JudgedCases
  <2>5. flight' # None => flight'.result.outcome = outcome /\ flight'.result.seen = soc
    BY <2>4 DEF PassEnded
  <2>6. (flight' = None /\ data' # None) => data'.outcome = outcome /\ data'.seen = soc
    BY <2>4, NoneAssumption DEF WriteStarted
  <2>. QED
    BY <1>2, <2>2, <2>5, <2>6 DEF EvaluatedInv, Judges
<1>. QED
  BY <1>1, <1>2

LEMMA EvaluatedStep ==
  ASSUME IInv, EvaluatedInv, [Next]_vars
  PROVE  EvaluatedInv'
<1>0. /\ CycleTypeOK /\ RequestInv /\ OriginInv
      /\ decision \in Decisions \cup {None} /\ soc \in Readings
  BY DEF IInv, CycleInv, GateInv
<1>1. ASSUME NEW d \in Decisions \cup {None}, NEW c \in BOOLEAN, Setup(d, c)
      PROVE  EvaluatedInv'
  BY <1>0, <1>1, FreshControlStateType, PassJudges DEF Setup
<1>2. ASSUME NEW d \in Decisions \cup {None}, NewDecision(d)
      PROVE  EvaluatedInv'
  <2>1. CASE PassRequested
    BY <1>0, <1>2, <2>1, PassJudges DEF NewDecision, CycleTypeOK
  <2>2. CASE ~PassRequested
    <3>1. pending' \in {"unheard", "queued", "dropped"}
      BY <1>2, <2>2 DEF NewDecision, RequestNotRun
    <3>. QED
      BY <3>1 DEF EvaluatedInv
  <2>. QED
    BY <2>1, <2>2
<1>3. CASE TimerFires
  <2>1. CASE PassQueued
    BY <1>0, <1>3, <2>1, PassJudges DEF TimerFires, CycleTypeOK, inputs
  <2>2. CASE ~PassQueued
    BY <1>3, <2>2
       DEF TimerFires, CooldownEnds, inputs, EvaluatedInv, Judges
  <2>. QED
    BY <2>1, <2>2
<1>4. ASSUME NEW s \in Readings, TelemetryUpdate(s)
      PROVE  EvaluatedInv'
  BY <1>4 DEF TelemetryUpdate, cycleVars, EvaluatedInv, Judges
<1>5. CASE UNCHANGED vars
  BY <1>5 DEF vars, EvaluatedInv, Judges
<1>6. CASE CycleNext /\ UNCHANGED inputs
  <2>0. decision' = decision
    BY <1>6 DEF inputs
  <2>1. CASE Surroundings
    BY <2>0, <2>1 DEF Surroundings, EvaluatedInv, Judges
  <2>2. CASE WriteLands
    <3>1. /\ flight \in Flight /\ flight # None
          /\ flight' = [flight EXCEPT !.landed = TRUE] /\ pending' = pending
      BY <1>0, <2>2 DEF WriteLands, CycleTypeOK
    <3>2. flight'.result = flight.result /\ flight' # None
      BY <3>1, NoneAssumption DEF Flight
    <3>. QED
      BY <2>0, <3>1, <3>2 DEF EvaluatedInv, Judges
  <2>3. CASE WriteSucceeds
    BY <2>0, <2>3 DEF WriteSucceeds, RefreshEnds, EvaluatedInv, Judges
  <2>4. CASE WriteFails
    BY <2>0, <2>4 DEF WriteFails, RefreshEnds, EvaluatedInv, Judges
  <2>5. CASE Unload
    BY <2>5 DEF Unload, EvaluatedInv
  <2>6. CASE OrphanLands
    BY <2>0, <2>6 DEF OrphanLands, EvaluatedInv, Judges
  <2>. QED
    BY <1>6, <2>1, <2>2, <2>3, <2>4, <2>5, <2>6, CycleNextCases
<1>. QED
  BY <1>1, <1>2, <1>3, <1>4, <1>5, <1>6 DEF Next

LEMMA IInvStep ==
  ASSUME IInv, [Next]_vars
  PROVE  IInv'
<1>1. CycleStep
  BY BatterySteps DEF IInv, CycleInv, CycleStep
<1>. QED
  BY <1>1, CycleInvStep, GateStep DEF IInv

LEMMA LoopInit_IInv == LoopInit => LoopIInv
<1> SUFFICES ASSUME LoopInit PROVE LoopIInv
  OBVIOUS
<1>1. IInv
  BY CycleInvInit DEF LoopInit, Init, IInv, GateInv, CycleInit
<1>2. LoopInv
  BY LoopAssumption
     DEF LoopInit, Init, LoopInv, Quiet, DebouncerState
<1>3. EvaluatedInv
  BY DEF LoopInit, Init, CycleInit, EvaluatedInv
<1>. QED
  BY <1>1, <1>2, <1>3 DEF LoopIInv

LEMMA LoopStep ==
  ASSUME Decisions = Intended, LoopIInv, [LoopNext]_allVars
  PROVE  LoopIInv' /\ [Next]_vars
<1>1. [Next]_vars /\ LoopInv'
  BY LoopSteps DEF LoopIInv, IInv, CycleInv, GateInv
<1>. QED
  BY <1>1, IInvStep, EvaluatedStep DEF LoopIInv

\* The invariant of the loop holds for every load, price and meter.
THEOREM LoopInductive == Decisions = Intended => (LoopSpec => []LoopIInv)
<1> SUFFICES ASSUME Decisions = Intended PROVE LoopSpec => []LoopIInv
  OBVIOUS
<1>1. LoopIInv /\ [LoopNext]_allVars => LoopIInv'
  BY LoopStep
<1>. QED
  BY <1>1, LoopInit_IInv, PTL DEF LoopSpec

\* The closed loop implements BatteryActuation for every house, meter and price
\* series, if the latter is told to expect every action: the optimiser never
\* hands the gate anything it is not specified for.
THEOREM LoopImplements ==
  Decisions = Intended => (LoopSpec => LoopImplementsActuation)
<1> SUFFICES ASSUME Decisions = Intended PROVE LoopSpec => Spec
  BY DEF LoopImplementsActuation
<1>1. LoopInit => Init
  BY DEF LoopInit
<1>2. LoopIInv /\ [LoopNext]_allVars => [Next]_vars
  BY LoopStep
<1>3. LoopSpec => []LoopIInv
  BY LoopInductive
<1>. QED
  BY <1>1, <1>2, <1>3, PTL DEF LoopSpec, Spec

\* So the battery of the loop is a paced setpoint: however the load, the meter
\* and the prices drive the optimiser, which reads back what the battery does,
\* the battery sees writes and reversals no closer than PacedSetpoint permits.
THEOREM LoopPaced ==
  Decisions = Intended => (LoopSpec => RefinesPacedSetpoint)
<1>1. Decisions = Intended => (LoopSpec => Spec)
  BY LoopImplements DEF LoopImplementsActuation
<1>2. Spec => RefinesPacedSetpoint
  BY PacedImplemented
<1>. QED
  BY <1>1, <1>2

\* Every variable of the loop keeps its type.
THEOREM LoopTypeCorrect == Decisions = Intended => (LoopSpec => []LoopTypeOK)
<1> SUFFICES ASSUME Decisions = Intended PROVE LoopSpec => []LoopTypeOK
  OBVIOUS
<1>1. LoopIInv => LoopTypeOK
  BY DEF LoopIInv, IInv, LoopInv, CycleInv, GateInv, LoopTypeOK, TypeOK
<1>. QED
  BY <1>1, LoopInductive, PTL

-----------------------------------------------------------------------------
\* The gate alters a decision only if the SOC changed after it was taken.
THEOREM StaleOnly ==
  Decisions = Intended => (LoopSpec => []GateAltersStaleDecisionsOnly)
<1> SUFFICES ASSUME Decisions = Intended
             PROVE  LoopSpec => []GateAltersStaleDecisionsOnly
  OBVIOUS
<1>1. LoopIInv => GateAltersStaleDecisionsOnly
  BY SnapshotReadable, ChoiceFitsGate
     DEF LoopIInv, LoopInv, GateAltersStaleDecisionsOnly
<1>. QED
  BY <1>1, LoopInductive, PTL

\* What a decision that was carried out left at the battery.
LEMMA CarriedOutFacts ==
  ASSUME LoopIInv, CarriedOut
  PROVE  /\ decision = Optimize(snapshot) /\ decision \in Intended
         /\ Readable(snapshot)
         /\ SignedPower(decision, data.seen) \in Int
         /\ device.w \in Int
         /\ Direction(device.w) = Direction(SignedPower(decision, data.seen))
         /\ AbsW(device.w - SignedPower(decision, data.seen)) <= HysteresisW
<1>1. decision # None /\ data.outcome.signed_w = SignedPower(decision, data.seen)
  BY DEF LoopIInv, EvaluatedInv, CarriedOut, Steering, Settled, Judges
<1>2. /\ decision = Optimize(snapshot) /\ snapshot \in Snapshot
      /\ snapshot.market # None
  BY <1>1 DEF LoopIInv, LoopInv
<1>3. Readable(snapshot)
  BY <1>2, SnapshotReadable
<1>4. decision \in Intended
  BY <1>2, <1>3, ChoiceFitsGate
<1>5. SignedPower(decision, data.seen) \in Int
  BY <1>4, SignedPowerType
<1>6. DeviceFollowsVerdict
  BY VerdictFromInv DEF LoopIInv
<1>7. device.w \in Int
  BY DEF LoopIInv, IInv, CycleInv, CycleTypeOK, Device
<1>. QED
  BY <1>1, <1>2, <1>3, <1>4, <1>5, <1>6, <1>7
     DEF DeviceFollowsVerdict, CarriedOut

\* Below its reserve the battery discharges for import peaks only.
THEOREM ReserveSafe ==
  Decisions = Intended => (LoopSpec => []ReserveProtected)
<1> SUFFICES ASSUME Decisions = Intended PROVE LoopSpec => []ReserveProtected
  OBVIOUS
<1>1. ASSUME LoopIInv, CarriedOut, "backup_reserve" \in Enabled,
             snapshot.soc # None, snapshot.soc < ReserveSoc,
             snapshot.soc < MaxSoc, device.w < 0
      PROVE  /\ "peak_shaving" \in Enabled
             /\ snapshot.grid # None /\ snapshot.grid > PeakImportW
  <2>1. /\ decision = Optimize(snapshot) /\ Readable(snapshot)
        /\ decision \in Intended
        /\ SignedPower(decision, data.seen) \in Int /\ device.w \in Int
        /\ Direction(device.w) = Direction(SignedPower(decision, data.seen))
    BY <1>1, CarriedOutFacts
  <2>2. SignedPower(decision, data.seen) < 0
    BY <1>1, <2>1, DirectionSign
  <2>3. decision.action = "discharge"
    BY <2>1, <2>2, GateAssumption DEF SignedPower, Lesser, Intended, Actions
  <2>. QED
    BY <1>1, <2>1, <2>3, ReserveHeld
<1>2. LoopIInv => ReserveProtected
  BY <1>1 DEF ReserveProtected
<1>. QED
  BY <1>2, LoopInductive, PTL

\* An import peak is answered with the power it takes.
THEOREM PeakServed == Decisions = Intended => (LoopSpec => []PeakAnswered)
<1> SUFFICES ASSUME Decisions = Intended PROVE LoopSpec => []PeakAnswered
  OBVIOUS
<1>1. ASSUME LoopIInv, CarriedOut, "peak_shaving" \in Enabled,
             snapshot.grid # None, snapshot.grid > PeakImportW,
             snapshot.soc # None => snapshot.soc > MinSoc,
             data.seen # None => data.seen > MinSoc
      PROVE  device.w <= HysteresisW - Lesser(snapshot.grid - PeakImportW,
                                              MaxDischargeW)
  <2> DEFINE power == Lesser(snapshot.grid - PeakImportW, MaxDischargeW)
  <2>1. /\ decision = Optimize(snapshot) /\ Readable(snapshot)
        /\ SignedPower(decision, data.seen) \in Int /\ device.w \in Int
        /\ AbsW(device.w - SignedPower(decision, data.seen)) <= HysteresisW
    BY <1>1, CarriedOutFacts
  <2>2. Feasible("discharge", snapshot.soc)
    BY <1>1 DEF Feasible
  <2>3. decision = [action |-> "discharge", power_w |-> power]
    BY <1>1, <2>1, <2>2, PeaksFirst
  <2>4. power \in Int /\ power <= MaxDischargeW
    BY <1>1, <2>1, GateAssumption, OptimizerAssumption DEF Readable, Lesser
  <2>. HIDE DEF power
  <2>5. data.seen \in Int \cup {None}
    BY <1>1, ActuationAssumption
       DEF CarriedOut, Steering, Settled, LoopIInv, IInv, CycleInv, CycleTypeOK,
           Result
  <2>6. ~SocBlocks(decision, data.seen)
    BY <1>1, <2>3, <2>5, GateAssumption DEF SocBlocks
  <2>7. SignedPower(decision, data.seen) = -power
    BY <2>3, <2>4, <2>6, GateAssumption DEF SignedPower, Lesser
  <2>8. device.w - SignedPower(decision, data.seen) <= HysteresisW
    BY <2>1, GateAssumption DEF AbsW
  <2>9. device.w <= HysteresisW - power
    BY <2>1, <2>4, <2>7, <2>8, GateAssumption
  <2>. QED
    BY <2>9 DEF power
<1>2. LoopIInv => PeakAnswered
  BY <1>1 DEF PeakAnswered
<1>. QED
  BY <1>2, LoopInductive, PTL

=============================================================================
