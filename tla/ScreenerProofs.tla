---------------------------- MODULE ScreenerProofs ----------------------------
(***************************************************************************)
(* Proofs about Screener, for every set of symbols, readings, filter       *)
(* configurations and runs: the results of a configuration are its own,    *)
(* nothing passes on data that is missing, scores are percentages, and     *)
(* what the sector cap has left of a run's evaluation is the best of it.   *)
(***************************************************************************)
EXTENDS Screener, FiniteTheorems

Ids == 1 .. MaxId

-----------------------------------------------------------------------------
(* A required filter that has passed had its data *)

\* Each filter is ineligible when a column it cannot do without is missing.
LEMMA FiltersNeedData ==
    ASSUME NEW r, NEW t, NEW p, NEW f \in DOMAIN Inputs(r, t),
           Results(r, t, p)[f].eligible
    PROVE  Null \notin Inputs(r, t)[f]
  <1>1. Ineligible.eligible = FALSE
    BY DEF Ineligible
  <1>2. CASE f = "near_200ema"
    BY <1>1, <1>2 DEF Inputs, Results, NearEMA
  <1>3. CASE f = "near_50ema"
    BY <1>1, <1>3 DEF Inputs, Results, NearEMA
  <1>4. CASE f = "weekly_above_200ema"
    BY <1>1, <1>4 DEF Inputs, Results, WeeklyAbove200EMA
  <1>5. CASE f = "rsi_oversold"
    BY <1>1, <1>5 DEF Inputs, Results, RsiOversold
  <1>6. CASE f = "bb_lower_touch"
    BY <1>1, <1>6 DEF Inputs, Results, BollingerLowerTouch
  <1>7. CASE f = "iv_rank_high"
    BY <1>1, <1>7 DEF Inputs, Results, HighEnough
  <1>8. CASE f = "iv_percentile_high"
    BY <1>1, <1>8 DEF Inputs, Results, HighEnough
  <1>9. CASE f = "iv_above_hv"
    BY <1>1, <1>9 DEF Inputs, Results, IvAboveHv
  <1>10. CASE f = "option_spread_pct"
    <2>1. Quoted({}) = {}
      BY DEF Quoted, Puts
    <2>2. r.chain # {}
      BY <1>1, <1>10, <2>1 DEF Results, OptionSpread
    <2>3. QED
      BY <1>10, <2>2 DEF Inputs
  <1>11. CASE f = "premium_economics"
    <2>1. Window({}, p.premium_economics) = {}
      BY DEF Window, Puts
    <2>2. r.chain # {}
      BY <1>1, <1>11, <2>1 DEF Results, PremiumEconomics
    <2>3. QED
      BY <1>11, <2>2 DEF Inputs
  <1>12. CASE f = "min_market_cap"
    BY <1>1, <1>12 DEF Inputs, Results, MinMarketCap
  <1>13. CASE f = "tier_allowed"
    BY <1>1, <1>13 DEF Inputs, Results, TierAllowed
  <1>14. QED
    BY <1>2, <1>3, <1>4, <1>5, <1>6, <1>7, <1>8, <1>9, <1>10, <1>11, <1>12, <1>13
    DEF Inputs

LEMMA EvaluatedOnData ==
    ASSUME NEW i \in DOMAIN Readings, NEW s \in Symbols, NEW b \in DOMAIN Bodies,
           Evaluation[i][s][b].passed
    PROVE  Complete[i][s][b]
  <1> DEFINE r == Readings[i]
             t == Profile[s]
             results1 == Results(r, t, Params(Bodies[b]))
             inputs == Inputs(r, t)
  <1>1. Evaluation[i][s][b] = Evaluate(r, t, Bodies[b])
    BY DEF Evaluation
  <1>2. \A f \in Bodies[b].required : results1[f].eligible
    BY <1>1 DEF Evaluate
  <1>3. \A f \in Bodies[b].required \cap DOMAIN inputs : Null \notin inputs[f]
    BY <1>2, FiltersNeedData
  <1>4. QED
    BY <1>3 DEF Complete

-----------------------------------------------------------------------------
(* A score is a percentage *)

Percents == 0 .. 100

LEMMA Quotients ==
    ASSUME NEW a \in Nat, NEW b \in Nat \ {0}
    PROVE  a \div b \in Nat /\ b * (a \div b) <= a
  OBVIOUS

LEMMA AtMostIs ==
    ASSUME NEW a \in Nat
    PROVE  AtMost(a, 100) \in Percents /\ 100 - AtMost(a, 100) \in Percents
  BY DEF AtMost, Percents

LEMMA ProximityRange ==
    ASSUME NEW d \in Nat, NEW t \in Nat
    PROVE  Proximity(d, t) \in Percents
  <1>1. CASE t = 0
    BY <1>1 DEF Proximity, Percents
  <1>2. CASE t # 0
    <2>1. (100 * d) \div t \in Nat
      BY <1>2, Quotients
    <2>2. QED
      BY <1>2, <2>1, AtMostIs DEF Proximity
  <1>3. QED
    BY <1>1, <1>2

\* What a filter may say: no score, or a percentage.
MayScore(result) == result.score \in Percents \cup {Null}

LEMMA IneligibleScores == MayScore(Ineligible)
  BY DEF MayScore, Ineligible

LEMMA ScoredScores == ASSUME NEW passed, NEW n \in Percents PROVE MayScore(Scored(passed, n))
  BY DEF MayScore, Scored

LEMMA NearEMAScores ==
    ASSUME NEW close \in Columns, NEW ema \in Columns, NEW max_pct \in Nat
    PROVE  MayScore(NearEMA(close, ema, max_pct))
  <1>1. CASE Null \in {close, ema} \/ ema = 0
    BY <1>1, IneligibleScores DEF NearEMA
  <1>2. CASE ~(Null \in {close, ema} \/ ema = 0)
    <2> DEFINE d == Distance(close, ema)
    <2>1. close \in Nat /\ ema \in Nat \ {0}
      BY <1>2 DEF Columns
    <2>2. d \in Nat
      BY <2>1 DEF Distance
    <2> HIDE DEF d
    <2>3. (100 * d) \div ema \in Nat
      BY <2>1, <2>2, Quotients
    <2>4. Proximity((100 * d) \div ema, max_pct) \in Percents /\ 0 \in Percents
      <3>1. 0 \in Percents
        BY DEF Percents
      <3>2. QED
        BY <2>3, <3>1, ProximityRange, Zenon
    <2>5. QED
      BY <1>2, <2>4, ScoredScores DEF NearEMA, d
  <1>3. QED
    BY <1>1, <1>2

LEMMA RsiScores ==
    ASSUME NEW rsi \in Columns, NEW max_rsi \in Nat
    PROVE  MayScore(RsiOversold(rsi, max_rsi))
  <1>1. CASE rsi = Null
    BY <1>1, IneligibleScores DEF RsiOversold
  <1>2. CASE rsi # Null
    <2>1. rsi \in Nat
      BY <1>2 DEF Columns
    <2>2. CASE rsi < max_rsi
      <3> DEFINE q == (100 * rsi) \div max_rsi
      <3>1. q \in Nat /\ max_rsi * q <= 100 * rsi
        BY <2>1, <2>2, Quotients
      <3> HIDE DEF q
      <3>2. q <= 100
        <4>1. SUFFICES ASSUME q >= 101 PROVE FALSE
          BY <3>1
        <4>2. max_rsi * q >= max_rsi * 101
          BY <3>1, <4>1
        <4>3. QED
          BY <2>1, <2>2, <3>1, <4>2
      <3>3. 100 - q \in Percents
        BY <3>1, <3>2 DEF Percents
      <3>4. QED
        BY <1>2, <2>2, <3>3, ScoredScores DEF RsiOversold, q
    <2>3. CASE ~(rsi < max_rsi)
      BY <1>2, <2>3, ScoredScores DEF RsiOversold, Percents
    <2>4. QED
      BY <2>2, <2>3
  <1>3. QED
    BY <1>1, <1>2

LEMMA HighEnoughScores ==
    ASSUME NEW value \in Int \cup {Null}, NEW min \in Nat
    PROVE  MayScore(HighEnough(value, min))
  <1>1. CASE value = Null
    BY <1>1, IneligibleScores DEF HighEnough
  <1>2. CASE value # Null /\ value >= min
    <2>1. value \in Nat
      BY <1>2
    <2>2. QED
      BY <1>2, <2>1, AtMostIs, ScoredScores DEF HighEnough
  <1>3. CASE value # Null /\ ~(value >= min)
    BY <1>3, ScoredScores DEF HighEnough, Percents
  <1>4. QED
    BY <1>1, <1>2, <1>3

\* Among the puts of the window there is one whose delta is nearest to the target.
LEMMA StrikeIsInWindow ==
    ASSUME NEW i \in DOMAIN Readings, NEW p, p.delta_target \in Int,
           Window(Readings[i].chain, p) # {}
    PROVE  SelectStrike(Readings[i].chain, p) \in Window(Readings[i].chain, p)
  <1> DEFINE W == Window(Readings[i].chain, p)
             Far(o) == Distance(o.delta, p.delta_target)
             R == {e \in W \X W : Far(e[1]) < Far(e[2])}
  <1>1. IsFiniteSet(W) /\ \A o \in W : o.delta \in Int
    <2>1. IsFiniteSet(Readings[i].chain) /\ W \subseteq Readings[i].chain
      BY ReadingsAssumption DEF Window, Puts
    <2>2. \A o \in W : o.delta \in Int
      BY <2>1, ReadingsAssumption DEF Window
    <2>3. QED
      BY <2>1, <2>2, FS_Subset
  <1>2. \A o \in W : Far(o) \in Int
    BY <1>1 DEF Distance
  <1>3. W # {}
    OBVIOUS
  <1> HIDE DEF W, Far
  <1>4. /\ \A x \in W : <<x, x>> \notin R
        /\ \A x, y, z \in W : <<x, y>> \in R /\ <<y, z>> \in R => <<x, z>> \in R
    BY <1>2
  <1>5. PICK o \in W : Minimal(W, R, o)
    <2> HIDE DEF R
    <2>1. QED
      BY <1>1, <1>3, <1>4, HasMinimal
  <1>6. ASSUME NEW q \in W PROVE Far(o) <= Far(q)
    <2>1. <<q, o>> \notin R
      BY <1>5 DEF Minimal
    <2>2. ~(Far(q) < Far(o))
      BY <2>1
    <2>3. QED
      BY <1>2, <2>2
  <1>7. QED
    BY <1>6, Zenon DEF SelectStrike, W, Far

LEMMA EconomicsScores ==
    ASSUME NEW i \in DOMAIN Readings, NEW p,
           p.min_dte \in Nat \ {0}, p.max_dte \in Nat, p.delta_target \in Int,
           p.min_annualized_return \in Nat
    PROVE  MayScore(PremiumEconomics(Readings[i].chain, p))
  <1> DEFINE chain == Readings[i].chain
             o == SelectStrike(chain, p)
             annual == (100 * 365 * (o.bid + o.ask)) \div (2 * o.strike * o.dte)
             min == p.min_annualized_return
  <1>1. CASE Window(chain, p) = {} \/ Null \in {o.bid, o.ask} \/ o.bid <= 0 \/ o.ask <= 0
    BY <1>1, IneligibleScores DEF PremiumEconomics
  <1>2. CASE ~(Window(chain, p) = {} \/ Null \in {o.bid, o.ask} \/ o.bid <= 0 \/ o.ask <= 0)
    <2>1. o \in chain /\ o.dte \in p.min_dte .. p.max_dte
      BY <1>2, StrikeIsInWindow DEF Window, Puts
    <2>2. /\ o.strike \in Nat \ {0} /\ o.dte \in Nat \ {0}
          /\ o.bid \in Nat /\ o.ask \in Nat
      BY <1>2, <2>1, ReadingsAssumption
    <2>3. 2 * o.strike * o.dte \in Nat \ {0} /\ 100 * 365 * (o.bid + o.ask) \in Nat
      BY <2>2
    <2>4. annual \in Nat
      BY <2>3, Quotients
    <2> HIDE DEF annual, o
    <2>5. (IF min > 0 THEN AtMost((50 * annual) \div min, 100) ELSE 0) \in Percents
      <3>1. ASSUME min > 0 PROVE AtMost((50 * annual) \div min, 100) \in Percents
        <4>1. 50 * annual \in Nat /\ min \in Nat \ {0}
          BY <2>4, <3>1
        <4> HIDE DEF min
        <4>2. QED
          BY <4>1, Quotients, AtMostIs
      <3>2. 0 \in Percents
        BY DEF Percents
      <3>3. QED
        BY <3>1, <3>2
    <2>6. PremiumEconomics(chain, p) =
             Scored(annual >= min, IF min > 0 THEN AtMost((50 * annual) \div min, 100) ELSE 0)
      BY <1>2 DEF PremiumEconomics, annual, o
    <2>7. QED
      BY <2>5, <2>6, ScoredScores
  <1>3. QED
    BY <1>1, <1>2

LEMMA ParamOf ==
    ASSUME NEW b \in DOMAIN Bodies, Accepted(b), NEW f \in FilterIds, f \in DOMAIN Bounds,
           Defaults[f] \in Bounds[f]
    PROVE  Params(Bodies[b])[f] \in Bounds[f]
  BY DEF Params, Accepted

\* What an accepted configuration, or the defaults, give the filters with a score.
LEMMA ScoredParams ==
    ASSUME NEW b \in DOMAIN Bodies, Accepted(b)
    PROVE  LET p == Params(Bodies[b])
           IN  /\ p.near_200ema \in Nat /\ p.near_50ema \in Nat /\ p.rsi_oversold \in Nat
               /\ p.iv_rank_high \in Nat /\ p.iv_percentile_high \in Nat
               /\ p.premium_economics.min_dte \in Nat \ {0} /\ p.premium_economics.max_dte \in Nat
               /\ p.premium_economics.delta_target \in Int
               /\ p.premium_economics.min_annualized_return \in Nat
  <1> DEFINE p == Params(Bodies[b])
  <1>1. \A f \in ScoredIds : f \in FilterIds /\ f \in DOMAIN Bounds
    BY DEF ScoredIds, FilterIds, Defaults, Bounds
  <1>2. /\ Bounds.near_200ema = 0 .. 50 /\ Bounds.near_50ema = 0 .. 50 /\ Bounds.rsi_oversold = 0 .. 100
        /\ Bounds.iv_rank_high = 0 .. 100 /\ Bounds.iv_percentile_high = 0 .. 100
        /\ Bounds.premium_economics = [min_dte : 1 .. 90, max_dte : 1 .. 180, delta_target : 5 .. 70,
                                       min_annualized_return : 0 .. 200]
    BY DEF Bounds
  <1>3. \A f \in ScoredIds : Defaults[f] \in Bounds[f]
    <2>1. /\ Defaults.near_200ema = 3 /\ Defaults.near_50ema = 2 /\ Defaults.rsi_oversold = 35
          /\ Defaults.iv_rank_high = 50 /\ Defaults.iv_percentile_high = 50
          /\ Defaults.premium_economics = [min_dte |-> 30, max_dte |-> 45, delta_target |-> 30,
                                           min_annualized_return |-> 10]
      BY DEF Defaults
    <2>2. Defaults.premium_economics \in Bounds.premium_economics
      <3>1. 30 \in 1 .. 90 /\ 45 \in 1 .. 180 /\ 30 \in 5 .. 70 /\ 10 \in 0 .. 200
        OBVIOUS
      <3>2. QED
        BY <1>2, <2>1, <3>1
    <2>3. /\ Defaults.near_200ema \in Bounds.near_200ema /\ Defaults.near_50ema \in Bounds.near_50ema
          /\ Defaults.rsi_oversold \in Bounds.rsi_oversold
          /\ Defaults.iv_rank_high \in Bounds.iv_rank_high
          /\ Defaults.iv_percentile_high \in Bounds.iv_percentile_high
      <3>1. 3 \in 0 .. 50 /\ 2 \in 0 .. 50 /\ 35 \in 0 .. 100 /\ 50 \in 0 .. 100
        OBVIOUS
      <3>2. QED
        BY <1>2, <2>1, <3>1, ZenonT(60)
    <2>4. QED
      BY <2>2, <2>3, Zenon DEF ScoredIds
  <1>4. \A f \in ScoredIds : p[f] \in Bounds[f]
    BY <1>1, <1>3, ParamOf
  <1> HIDE DEF p
  <1>5. /\ p.near_200ema \in 0 .. 50 /\ p.near_50ema \in 0 .. 50 /\ p.rsi_oversold \in 0 .. 100
        /\ p.iv_rank_high \in 0 .. 100 /\ p.iv_percentile_high \in 0 .. 100
        /\ p.premium_economics \in [min_dte : 1 .. 90, max_dte : 1 .. 180, delta_target : 5 .. 70,
                                    min_annualized_return : 0 .. 200]
    <2>1. /\ p.near_200ema \in Bounds.near_200ema /\ p.near_50ema \in Bounds.near_50ema
          /\ p.rsi_oversold \in Bounds.rsi_oversold /\ p.iv_rank_high \in Bounds.iv_rank_high
          /\ p.iv_percentile_high \in Bounds.iv_percentile_high
          /\ p.premium_economics \in Bounds.premium_economics
      BY <1>4 DEF ScoredIds
    <2>2. QED
      BY <1>2, <2>1
  <1>6. QED
    BY <1>5 DEF p

LEMMA FiltersScore ==
    ASSUME NEW i \in DOMAIN Readings, NEW t, NEW b \in DOMAIN Bodies, Accepted(b), NEW f \in ScoredIds
    PROVE  MayScore(Results(Readings[i], t, Params(Bodies[b]))[f])
  <1> DEFINE r == Readings[i]
             p == Params(Bodies[b])
  <1>1. /\ latest_close(r) \in Columns /\ r.ema_200 \in Columns /\ r.ema_50 \in Columns
        /\ r.rsi_14 \in Columns /\ r.iv_rank \in Int \cup {Null} /\ r.iv_percentile \in Int \cup {Null}
    <2>1. /\ r.closes \in Seq(Nat) /\ {r.ema_200, r.ema_50, r.rsi_14} \subseteq Columns
          /\ {r.iv_rank, r.iv_percentile} \subseteq Int \cup {Null}
      BY ReadingsAssumption
    <2>2. latest_close(r) \in Columns
      BY <2>1 DEF latest_close, Columns
    <2>3. QED
      BY <2>1, <2>2
  <1>2. /\ p.near_200ema \in Nat /\ p.near_50ema \in Nat /\ p.rsi_oversold \in Nat
        /\ p.iv_rank_high \in Nat /\ p.iv_percentile_high \in Nat
        /\ p.premium_economics.min_dte \in Nat \ {0} /\ p.premium_economics.max_dte \in Nat
        /\ p.premium_economics.delta_target \in Int
        /\ p.premium_economics.min_annualized_return \in Nat
    BY ScoredParams
  <1> DEFINE R == Results(r, t, p)
  <1> HIDE DEF p
  <1>3. CASE f = "near_200ema"
    <2>1. R.near_200ema = NearEMA(latest_close(r), r.ema_200, p.near_200ema)
      BY DEF Results
    <2>2. QED
      BY <1>1, <1>2, <1>3, <2>1, NearEMAScores DEF p
  <1>4. CASE f = "near_50ema"
    <2>1. R.near_50ema = NearEMA(latest_close(r), r.ema_50, p.near_50ema)
      BY DEF Results
    <2>2. QED
      BY <1>1, <1>2, <1>4, <2>1, NearEMAScores DEF p
  <1>5. CASE f = "rsi_oversold"
    <2>1. R.rsi_oversold = RsiOversold(r.rsi_14, p.rsi_oversold)
      BY DEF Results
    <2>2. QED
      BY <1>1, <1>2, <1>5, <2>1, RsiScores DEF p
  <1>6. CASE f = "iv_rank_high"
    <2>1. R.iv_rank_high = HighEnough(r.iv_rank, p.iv_rank_high)
      BY DEF Results
    <2>2. QED
      BY <1>1, <1>2, <1>6, <2>1, HighEnoughScores DEF p
  <1>7. CASE f = "iv_percentile_high"
    <2>1. R.iv_percentile_high = HighEnough(r.iv_percentile, p.iv_percentile_high)
      BY DEF Results
    <2>2. QED
      BY <1>1, <1>2, <1>7, <2>1, HighEnoughScores DEF p
  <1>8. CASE f = "premium_economics"
    <2>1. R.premium_economics = PremiumEconomics(r.chain, p.premium_economics)
      BY DEF Results
    <2>2. MayScore(PremiumEconomics(r.chain, p.premium_economics))
      BY <1>2, EconomicsScores
    <2>3. QED
      BY <1>8, <2>1, <2>2 DEF p
  <1>9. QED
    BY <1>3, <1>4, <1>5, <1>6, <1>7, <1>8 DEF ScoredIds

\* The weighted mean of percentages is one, for every configuration that is accepted.
LEMMA ScoreIsPercent ==
    ASSUME NEW i \in DOMAIN Readings, NEW t, NEW b \in DOMAIN Bodies, Accepted(b)
    PROVE  Score(Results(Readings[i], t, Params(Bodies[b])), Bodies[b]) \in Percents \cup {Null}
  <1> DEFINE R == Results(Readings[i], t, Params(Bodies[b]))
             w == Bodies[b].weights
             counted == {f \in DOMAIN w \cap Bodies[b].filters : R[f].eligible /\ R[f].score # Null}
             F == [f \in counted |-> w[f]]
             G == [f \in counted |-> w[f] * R[f].score]
             total == SumFunction(F)
  <1>1. DOMAIN w \subseteq ScoredIds /\ \A f \in DOMAIN w : w[f] \in Nat
    BY ScreenerAssumption DEF Accepted
  <1>2. \A f \in counted : R[f].score \in Percents /\ w[f] \in Nat
    BY <1>1, FiltersScore DEF MayScore
  <1>3. IsFiniteSet(counted)
    <2>1. IsFiniteSet(ScoredIds)
      <3>1. ScoredIds = {"near_200ema"} \cup {"near_50ema"} \cup {"rsi_oversold"} \cup {"iv_rank_high"}
                          \cup {"iv_percentile_high"} \cup {"premium_economics"}
        BY DEF ScoredIds
      <3>2. QED
        BY <3>1, FS_Singleton, FS_Union
    <2>2. counted \subseteq ScoredIds
      BY <1>1
    <2>3. QED
      BY <2>1, <2>2, FS_Subset
  <1>4. \A f \in counted : F[f] \in Int /\ G[f] \in Int /\ 0 <= G[f] /\ G[f] <= 100 * F[f] /\ 0 <= F[f]
    <2>1. \A m \in Nat, n \in 0 .. 100 : m * n \in Int /\ 0 <= m * n /\ m * n <= 100 * m
      OBVIOUS
    <2>2. \A f \in counted : F[f] = w[f] /\ G[f] = w[f] * R[f].score
      OBVIOUS
    <2> HIDE DEF w, R, counted, F, G
    <2>3. ASSUME NEW f \in counted
          PROVE  F[f] \in Int /\ G[f] \in Int /\ 0 <= G[f] /\ G[f] <= 100 * F[f] /\ 0 <= F[f]
      <3>1. w[f] \in Nat /\ R[f].score \in 0 .. 100
        BY <1>2 DEF Percents
      <3>2. QED
        BY <2>1, <2>2, <3>1
    <2>4. QED
      BY <2>3
  <1>5. DOMAIN F = counted /\ DOMAIN G = counted
    OBVIOUS
  <1> HIDE DEF F, G, counted
  <1>6. 0 <= SumFunction(G) /\ SumFunction(G) <= 100 * total
    BY <1>3, <1>4, <1>5, SumFunctionAtMost
  <1>7. total \in Int /\ SumFunction(G) \in Int
    BY <1>3, <1>4, <1>5, SumFunctionInt
  <1> DEFINE q == SumFunction(G) \div total
  <1>8. CASE total = 0
    BY <1>8 DEF Score, F, counted
  <1>9. CASE total # 0
    <2> HIDE DEF total
    <2>1. total \in Nat \ {0} /\ SumFunction(G) \in Nat
      BY <1>6, <1>7, <1>9
    <2>2. q \in Nat /\ total * q <= SumFunction(G)
      BY <2>1, Quotients
    <2> HIDE DEF q
    <2>3. q <= 100
      <3>1. SUFFICES ASSUME q >= 101 PROVE FALSE
        BY <2>2
      <3>2. total * q >= total * 101
        BY <2>1, <2>2, <3>1
      <3>3. QED
        BY <1>6, <2>1, <2>2, <3>2
    <2>4. Score(R, Bodies[b]) = q
      BY <1>9 DEF Score, F, G, counted, total, q
    <2>5. QED
      BY <2>2, <2>3, <2>4 DEF Percents
  <1>10. QED
    BY <1>8, <1>9

\* What an evaluation may come to: only what passes has a score.
Graded(e) == e.score \in Percents \cup {Null} /\ (~e.passed => e.score = Null)

LEMMA EvaluationGraded ==
    ASSUME NEW i \in DOMAIN Readings, NEW s \in Symbols, NEW b \in DOMAIN Bodies, Accepted(b)
    PROVE  Graded(Evaluation[i][s][b]) /\ Evaluation[i][s][b].passed \in BOOLEAN
  <1> DEFINE R == Results(Readings[i], Profile[s], Params(Bodies[b]))
             passed == \A f \in Bodies[b].required : R[f].eligible /\ R[f].passed
  <1>1. Evaluation[i][s][b] = [passed |-> passed, score |-> IF passed THEN Score(R, Bodies[b]) ELSE Null]
    BY DEF Evaluation, Evaluate
  <1>2. Score(R, Bodies[b]) \in Percents \cup {Null}
    BY ScoreIsPercent
  <1>3. passed \in BOOLEAN
    BY Zenon
  <1> HIDE DEF passed, R
  <1>4. QED
    BY <1>1, <1>2, <1>3 DEF Graded

-----------------------------------------------------------------------------
(* The inductive invariant *)

\* What a symbol's score may be.
Scores ==
    {Null} \cup
    {Evaluation[i][s][b].score : i \in DOMAIN Readings, s \in Symbols, b \in DOMAIN Bodies}

LEMMA ScoreAmong ==
    \A i \in DOMAIN Readings, s \in Symbols, b \in DOMAIN Bodies :
       Evaluation[i][s][b].score \in Scores
  BY DEF Scores

ConfigRow == [body : DOMAIN Bodies, active : BOOLEAN, born : Nat]
EvaluationRow == [passed : BOOLEAN, score : Scores, on : DOMAIN Readings]
ResultRow ==
    [passed : BOOLEAN, score : Scores, on : DOMAIN Readings, body : DOMAIN Bodies,
     born : Nat, by : Nat]

\* Tables whose keys are in K and whose rows are in R.
Tables(K, R) == UNION {[S -> R] : S \in SUBSET K}

RunType ==
    [pc : {"idle", "configs", "tickers", "evaluate", "persist", "finish"},
     by : Nat, scan : BOOLEAN, configs : Tables(Ids, ConfigRow), symbols : SUBSET Symbols,
     evaluations : Tables(Symbols, EvaluationRow), rows : Tables(Symbols \X Ids, ResultRow)]

Typed ==
    /\ data \in [Symbols -> DOMAIN Readings]
    /\ hidden \subseteq Symbols
    /\ config \in Tables(Ids, ConfigRow)
    /\ results \in Tables(Symbols \X Ids, ResultRow)
    /\ lock \in Runs \cup {Free}
    /\ run \in [Runs -> RunType]
    /\ edits \in Nat /\ started \in Nat

\* A row that is to be found under the key k.
OnData(k, row) == row.passed => Complete[row.on][k[1]][row.body]
Committed(R) == \A k \in DOMAIN R : OnData(k, R[k])

\* The memory of a run.
LooksAhead(rec) == rec.pc \in {"tickers", "evaluate", "persist"} => DOMAIN rec.configs # {}
Evaluated(rec) ==
    rec.pc = "persist" =>
        \A s \in DOMAIN rec.evaluations :
            LET e == rec.evaluations[s]
            IN  e.passed => Complete[e.on][s][rec.configs[Min(DOMAIN rec.configs)].body]
Fit(l, r, rec) ==
    /\ LooksAhead(rec) /\ Evaluated(rec) /\ Committed(rec.rows)
    /\ DOMAIN rec.rows # {} => l = r

IInv ==
    /\ Typed
    /\ Committed(results)
    /\ \A r \in Runs : Fit(lock, r, run[r])

-----------------------------------------------------------------------------
(* Tables *)

LEMMA TableFacts ==
    ASSUME NEW K, NEW R, NEW f \in Tables(K, R)
    PROVE  DOMAIN f \subseteq K /\ f = [x \in DOMAIN f |-> f[x]] /\ \A x \in DOMAIN f : f[x] \in R
  <1>1. PICK S \in SUBSET K : f \in [S -> R]
    BY DEF Tables
  <1>2. QED
    BY <1>1

LEMMA TableOf ==
    ASSUME NEW K, NEW R, NEW S \in SUBSET K, NEW f \in [S -> R]
    PROVE  f \in Tables(K, R)
  BY DEF Tables

LEMMA EmptyTable ==
    ASSUME NEW K, NEW R
    PROVE  Empty \in Tables(K, R) /\ DOMAIN Empty = {}
  <1>1. Empty \in [{} -> R] /\ DOMAIN Empty = {}
    BY DEF Empty
  <1>2. QED
    BY <1>1, TableOf

\* Rows taken out of a table.
LEMMA TableRestricted ==
    ASSUME NEW K, NEW R, NEW f \in Tables(K, R), NEW S \in SUBSET (DOMAIN f)
    PROVE  /\ Restricted(f, S) \in Tables(K, R)
           /\ DOMAIN Restricted(f, S) = S
           /\ \A x \in S : Restricted(f, S)[x] = f[x]
  <1>1. S \in SUBSET K /\ \A x \in S : f[x] \in R
    BY TableFacts
  <1>2. Restricted(f, S) \in [S -> R]
    BY <1>1 DEF Restricted
  <1>3. QED
    BY <1>1, <1>2, TableOf DEF Restricted

\* One table laid over another.
LEMMA UpsertRows ==
    ASSUME NEW f, NEW g
    PROVE  /\ DOMAIN Upsert(f, g) = DOMAIN f \cup DOMAIN g
           /\ \A x \in DOMAIN g : Upsert(f, g)[x] = g[x]
           /\ \A x \in DOMAIN f \ DOMAIN g : Upsert(f, g)[x] = f[x]
  BY DEF Upsert

LEMMA TableOver ==
    ASSUME NEW K, NEW R, NEW f \in Tables(K, R), NEW g \in Tables(K, R)
    PROVE  Upsert(f, g) \in Tables(K, R)
  <1>1. /\ DOMAIN f \subseteq K /\ \A x \in DOMAIN f : f[x] \in R
        /\ DOMAIN g \subseteq K /\ \A x \in DOMAIN g : g[x] \in R
    BY TableFacts
  <1> DEFINE S == DOMAIN f \cup DOMAIN g
  <1>2. Upsert(f, g) \in [S -> R] /\ S \in SUBSET K
    BY <1>1 DEF Upsert
  <1>3. QED
    BY <1>2, TableOf

-----------------------------------------------------------------------------
(* The start and the requests *)

LEMMA IdleRests ==
    /\ Idle \in RunType
    /\ \A l, r : Fit(l, r, Idle)
  <1>1. Idle \in RunType
    <2>1. /\ Empty \in Tables(Ids, ConfigRow) /\ Empty \in Tables(Symbols, EvaluationRow)
          /\ Empty \in Tables(Symbols \X Ids, ResultRow)
      BY EmptyTable
    <2>2. QED
      BY <2>1 DEF Idle, RunType
  <1>2. DOMAIN Idle.configs = {} /\ DOMAIN Idle.rows = {} /\ Idle.pc = "idle"
    BY EmptyTable DEF Idle
  <1>3. QED
    BY <1>1, <1>2 DEF Fit, LooksAhead, Evaluated, Committed

LEMMA InitInv == Init => IInv
  <1> SUFFICES ASSUME Init PROVE IInv
    OBVIOUS
  <1>1. config \in Tables(Ids, ConfigRow)
    <2>1. config \in [{1} -> ConfigRow]
      BY ScreenerAssumption DEF Init, ConfigRow
    <2>2. {1} \in SUBSET Ids
      BY ScreenerAssumption DEF Ids
    <2>3. QED
      BY <2>1, <2>2, TableOf
  <1>2. results \in Tables(Symbols \X Ids, ResultRow) /\ DOMAIN results = {}
    BY EmptyTable DEF Init
  <1>3. Typed
    BY <1>1, <1>2, IdleRests, ScreenerAssumption DEF Typed, Init
  <1>4. \A r \in Runs : Fit(lock, r, run[r])
    BY IdleRests DEF Init
  <1>5. QED
    BY <1>2, <1>3, <1>4 DEF IInv, Committed

\* The highest id plus one is free.
LEMMA NextIdFree ==
    ASSUME Typed
    PROVE  NextId \in Nat \ {0} /\ NextId \notin DOMAIN config
  <1>1. DOMAIN config \in SUBSET Ids
    BY TableFacts DEF Typed
  <1>2. DOMAIN config \in SUBSET Nat /\ IsFiniteSet(DOMAIN config)
        /\ \A c \in DOMAIN config : c >= 1
    <2>1. IsFiniteSet(Ids)
      BY ScreenerAssumption, FS_Interval DEF Ids
    <2>2. IsFiniteSet(DOMAIN config)
      BY <1>1, <2>1, FS_Subset
    <2>3. QED
      BY <1>1, <2>2 DEF Ids
  <1>3. CASE DOMAIN config = {}
    BY <1>3 DEF NextId
  <1>4. CASE DOMAIN config # {}
    <2>1. /\ Max(DOMAIN config) \in DOMAIN config
          /\ \A c \in DOMAIN config : Max(DOMAIN config) >= c
      BY <1>2, <1>4, Greatest
    <2>2. NextId = Max(DOMAIN config) + 1
      BY <1>4 DEF NextId
    <2>3. QED
      BY <1>2, <2>1, <2>2
  <1>5. QED
    BY <1>3, <1>4

\* The requests and the market leave the runs alone and write no results.
LEMMA EditInv ==
    ASSUME IInv, UNCHANGED <<run, lock, started>>,
           data' \in [Symbols -> DOMAIN Readings], hidden' \subseteq Symbols,
           config' \in Tables(Ids, ConfigRow), edits' \in Nat,
           results' \in Tables(Symbols \X Ids, ResultRow), Committed(results')
    PROVE  IInv'
  <1>1. \A r \in Runs : Fit(lock', r, run'[r])
    BY DEF IInv
  <1>2. Typed'
    BY DEF IInv, Typed
  <1>3. QED
    BY <1>1, <1>2 DEF IInv

LEMMA CreateConfigInv ==
    ASSUME IInv, NEW b \in DOMAIN Bodies, NEW active \in BOOLEAN, CreateConfig(b, active)
    PROVE  IInv'
  <1>1. Typed /\ edits' = edits + 1 /\ edits' \in Nat
    BY DEF IInv, Typed, CreateConfig, Edit
  <1>2. NextId \in Ids /\ NextId \notin DOMAIN config
    BY <1>1, NextIdFree, ScreenerAssumption DEF CreateConfig, Ids
  <1>3. PICK new \in Tables(Ids, ConfigRow) :
           DOMAIN new = {NextId} /\ config' = Upsert(config, new)
    <2> DEFINE row == [body |-> b, active |-> active, born |-> edits']
               new == [c \in {NextId} |-> row]
    <2>1. row \in ConfigRow
      BY <1>1 DEF ConfigRow
    <2>2. new \in [{NextId} -> ConfigRow] /\ {NextId} \in SUBSET Ids
      BY <1>2, <2>1
    <2>3. config' = Upsert(config, new)
      BY DEF CreateConfig
    <2> HIDE DEF new
    <2>4. new \in Tables(Ids, ConfigRow) /\ DOMAIN new = {NextId}
      BY <2>2, TableOf
    <2>5. QED
      BY <2>3, <2>4
  <1>5. /\ config' \in Tables(Ids, ConfigRow)
        /\ \A c \in DOMAIN config : c \in DOMAIN config' /\ config'[c] = config[c]
    <2>1. config \in Tables(Ids, ConfigRow)
      BY <1>1 DEF Typed
    <2>a. Upsert(config, new) \in Tables(Ids, ConfigRow)
      BY <2>1, TableOver
    <2>b. DOMAIN Upsert(config, new) = DOMAIN config \cup DOMAIN new
      BY UpsertRows
    <2>2. \A c \in DOMAIN config \ DOMAIN new : Upsert(config, new)[c] = config[c]
      BY UpsertRows
    <2>3. QED
      BY <1>2, <1>3, <2>a, <2>b, <2>2
  <1>6. UNCHANGED <<data, hidden, results, lock, run, started, strays>>
    BY DEF CreateConfig
  <1>7. QED
    BY <1>1, <1>5, <1>6, EditInv DEF IInv, Typed

LEMMA ReplaceConfigInv ==
    ASSUME IInv, NEW c \in DOMAIN config, NEW b \in DOMAIN Bodies, NEW active \in BOOLEAN,
           ReplaceConfig(c, b, active)
    PROVE  IInv'
  <1>1. Typed /\ edits' \in Nat
    BY DEF IInv, Typed, ReplaceConfig, Edit
  <1>2. /\ DOMAIN config \in SUBSET Ids /\ config \in [DOMAIN config -> ConfigRow]
    BY <1>1, TableFacts DEF Typed
  <1>3. config' = [config EXCEPT ![c] = [@ EXCEPT !.body = b, !.active = active]]
    BY <1>2 DEF ReplaceConfig, ConfigRow
  <1>4. [config[c] EXCEPT !.body = b, !.active = active] \in ConfigRow
        /\ [config[c] EXCEPT !.body = b, !.active = active].born = config[c].born
    BY <1>2 DEF ConfigRow
  <1>5. config' \in [DOMAIN config -> ConfigRow]
        /\ \A d \in DOMAIN config : config'[d].born = config[d].born
    BY <1>2, <1>3, <1>4
  <1>6. config' \in Tables(Ids, ConfigRow) /\ DOMAIN config' = DOMAIN config
    BY <1>2, <1>5, TableOf
  <1>7. UNCHANGED <<data, hidden, results, lock, run, started, strays>>
    BY DEF ReplaceConfig
  <1>8. QED
    BY <1>1, <1>6, <1>7, EditInv DEF IInv, Typed

LEMMA MarketInv ==
    ASSUME IInv, NEW s \in Symbols, PatchTicker(s) \/ \E i \in DOMAIN Readings : Ingest(s, i)
    PROVE  IInv'
  <1>1. Typed /\ edits' \in Nat
    BY DEF IInv, Typed, PatchTicker, Ingest, Edit
  <1>2. UNCHANGED <<config, results, lock, run, started, strays>>
    BY DEF PatchTicker, Ingest
  <1>3. data' \in [Symbols -> DOMAIN Readings] /\ hidden' \subseteq Symbols
    BY <1>1 DEF Typed, PatchTicker, Ingest
  <1>4. QED
    BY <1>1, <1>2, <1>3, EditInv DEF IInv, Typed

LEMMA CheckDeleteInv ==
    ASSUME IInv, NEW d \in Clients, NEW c \in DOMAIN config, NEW cascade \in BOOLEAN,
           CheckDelete(d, c, cascade)
    PROVE  IInv'
  <1>1. UNCHANGED <<data, hidden, config, results, run, lock, started>> /\ edits' = edits + 1
    BY DEF CheckDelete, db
  <1>2. QED
    BY <1>1, EditInv DEF IInv, Typed

\* What a deletion leaves of the tables.
LEMMA Deleted ==
    ASSUME NEW d \in Clients, DeleteConfig(d)
    PROVE  LET c == request[d].id
           IN  /\ config' = Restricted(config, DOMAIN config \ {c})
               /\ \/ results' = Restricted(results, DOMAIN results \ ResultsOf(c))
                  \/ ~request[d].refers /\ results' = results
               /\ UNCHANGED <<data, hidden, lock, run, edits, started>>
  BY DEF DeleteConfig

LEMMA RestrictedRows ==
    ASSUME NEW f, NEW S
    PROVE  /\ DOMAIN Restricted(f, S) = S
           /\ \A x \in S : Restricted(f, S)[x] = f[x]
  BY DEF Restricted

LEMMA DeleteConfigInv ==
    ASSUME IInv, NEW d \in Clients, DeleteConfig(d)
    PROVE  IInv'
  <1> DEFINE c == request[d].id
             left == DOMAIN config \ {c}
             kept == DOMAIN results \ ResultsOf(c)
  <1>1. Typed /\ Committed(results)
    BY DEF IInv
  <1>2. config' \in Tables(Ids, ConfigRow)
    <2>1. left \in SUBSET (DOMAIN config) /\ config \in Tables(Ids, ConfigRow)
      BY <1>1 DEF Typed
    <2>2. config' = Restricted(config, left)
      BY Deleted
    <2> HIDE DEF left
    <2>3. QED
      BY <2>1, <2>2, TableRestricted
  <1>3. results' \in Tables(Symbols \X Ids, ResultRow) /\ Committed(results')
    <2>1. kept \in SUBSET (DOMAIN results) /\ results \in Tables(Symbols \X Ids, ResultRow)
      BY <1>1 DEF Typed
    <2>2. results' = Restricted(results, kept) \/ results' = results
      BY Deleted
    <2> HIDE DEF kept
    <2>3. CASE results' = results
      BY <1>1, <2>1, <2>3
    <2>4. CASE results' = Restricted(results, kept)
      BY <1>1, <2>1, <2>4, TableRestricted DEF Committed
    <2>5. QED
      BY <2>2, <2>3, <2>4
  <1>4. UNCHANGED <<data, hidden, run, lock, edits, started>>
    BY Deleted
  <1>5. QED
    BY <1>1, <1>2, <1>3, <1>4, EditInv DEF Typed

-----------------------------------------------------------------------------
(* The steps of a run *)

\* Only run r writes, or comes to hold or gives up the lock.
LockMoves(r) == lock' = lock \/ (lock \in {Free, r} /\ lock' \in {Free, r})

\* A step of one run keeps the invariant as soon as it keeps it for that one.
LEMMA RunMoves ==
    ASSUME IInv, NEW r \in Runs, NEW rec \in RunType, Goes(r, rec), LockMoves(r),
           UNCHANGED <<data, hidden, config, edits, strays>>, started' \in Nat,
           results' \in Tables(Symbols \X Ids, ResultRow),
           Committed(results'),
           Fit(lock', r, rec)
    PROVE  IInv'
  <1>1. run' \in [Runs -> RunType] /\ run'[r] = rec /\ \A q \in Runs \ {r} : run'[q] = run[q]
    BY DEF IInv, Typed, Goes
  <1>2. lock' \in Runs \cup {Free}
    BY DEF IInv, Typed, LockMoves
  <1>3. Typed'
    BY <1>1, <1>2 DEF IInv, Typed
  <1>4. ASSUME NEW q \in Runs \ {r} PROVE Fit(lock', q, run[q])
    <2>1. Fit(lock, q, run[q])
      BY DEF IInv
    <2>2. lock = q => lock' = q
      BY FreeAssumption DEF LockMoves
    <2>3. QED
      BY <2>1, <2>2 DEF Fit
  <1>5. \A q \in Runs : Fit(lock', q, run'[q])
    BY <1>1, <1>4
  <1>6. Committed(results') /\ \A q \in Runs : Fit(lock', q, run'[q])
    BY <1>5
  <1>7. QED
    BY <1>3, <1>6 DEF IInv

\* What the memory of a run looks like before its step.
LEMMA Mine ==
    ASSUME IInv, NEW r \in Runs
    PROVE  /\ run[r] \in RunType /\ Fit(lock, r, run[r])
           /\ results \in Tables(Symbols \X Ids, ResultRow)
           /\ Committed(results) /\ started \in Nat
           /\ data \in [Symbols -> DOMAIN Readings]
           /\ config \in Tables(Ids, ConfigRow)
  BY DEF IInv, Typed

\* A step that neither writes nor commits.
LEMMA RunReads ==
    ASSUME IInv, NEW r \in Runs, NEW rec \in RunType, Goes(r, rec),
           UNCHANGED <<db, lock, history>>,
           rec.rows = run[r].rows,
           LooksAhead(rec), Evaluated(rec)
    PROVE  IInv'
  <1>1. Fit(lock, r, rec)
    BY Mine DEF Fit
  <1>2. UNCHANGED <<data, hidden, config, edits, strays>> /\ lock' = lock
        /\ results' = results /\ started' = started
    BY DEF db, history
  <1>3. /\ results' \in Tables(Symbols \X Ids, ResultRow) /\ started' \in Nat
        /\ Committed(results') /\ Fit(lock', r, rec)
    BY <1>1, <1>2, Mine
  <1>4. LockMoves(r)
    BY <1>2 DEF LockMoves
  <1>5. QED
    BY <1>2, <1>3, <1>4, RunMoves

LEMMA StartInv ==
    ASSUME IInv, NEW r \in Runs, NEW scan \in BOOLEAN, Start(r, scan)
    PROVE  IInv'
  <1> DEFINE rec == [Idle EXCEPT !.pc = "configs", !.by = started + 1, !.scan = scan]
  <1>1. /\ rec \in RunType /\ rec.pc = "configs" /\ rec.configs = Idle.configs
        /\ rec.rows = Idle.rows
    <2>1. Idle \in RunType /\ started + 1 \in Nat
      BY IdleRests, Mine
    <2>2. QED
      BY <2>1 DEF RunType
  <1>2. Fit(lock, r, rec)
    <2>1. DOMAIN rec.configs = {} /\ DOMAIN rec.rows = {}
      BY <1>1, EmptyTable DEF Idle
    <2> HIDE DEF rec
    <2>2. QED
      BY <1>1, <2>1 DEF Fit, LooksAhead, Evaluated, Committed
  <1>3. Goes(r, rec)
    BY DEF Start
  <1>4. UNCHANGED <<data, hidden, config, edits, strays>> /\ lock' = lock
        /\ results' = results /\ started' \in Nat
    BY Mine DEF Start, db
  <1>5. /\ results' \in Tables(Symbols \X Ids, ResultRow)
        /\ Committed(results') /\ Fit(lock', r, rec)
    BY <1>2, <1>4, Mine
  <1>6. LockMoves(r)
    BY <1>4 DEF LockMoves
  <1> HIDE DEF rec
  <1>7. QED
    BY <1>1, <1>3, <1>4, <1>5, <1>6, RunMoves

LEMMA LoadConfigsInv ==
    ASSUME IInv, NEW r \in Runs, LoadConfigs(r)
    PROVE  IInv'
  <1> DEFINE active == {c \in DOMAIN config : config[c].active}
             some == Restricted(config, active)
  <1>1. /\ some \in Tables(Ids, ConfigRow) /\ DOMAIN some = active
        /\ \A c \in active : some[c] = config[c]
    <2>1. active \in SUBSET (DOMAIN config) /\ config \in Tables(Ids, ConfigRow)
      BY Mine
    <2> HIDE DEF active
    <2>2. QED
      BY <2>1, TableRestricted
  <1>2. UNCHANGED <<db, lock, history>>
    BY DEF LoadConfigs
  <1>3. run[r] \in RunType
    BY Mine
  <1>4. CASE active = {}
    <2> DEFINE rec == [run[r] EXCEPT !.pc = "finish"]
    <2>1. /\ rec \in RunType /\ rec.pc = "finish" /\ rec.configs = run[r].configs
          /\ rec.rows = run[r].rows
      BY <1>3 DEF RunType
    <2>2. Goes(r, rec)
      BY <1>4 DEF LoadConfigs
    <2> HIDE DEF rec
    <2>3. LooksAhead(rec) /\ Evaluated(rec)
      BY <1>3, <2>1 DEF LooksAhead, Evaluated
    <2>4. QED
      BY <1>2, <2>1, <2>2, <2>3, RunReads
  <1>5. CASE active # {}
    <2> DEFINE rec == [run[r] EXCEPT !.pc = "tickers", !.configs = some]
    <2> HIDE DEF some
    <2>1. /\ rec \in RunType /\ rec.pc = "tickers" /\ rec.configs = some
          /\ rec.rows = run[r].rows
      BY <1>1, <1>3 DEF RunType
    <2>2. Goes(r, rec)
      BY <1>5 DEF LoadConfigs, some
    <2> HIDE DEF rec
    <2>3. LooksAhead(rec) /\ Evaluated(rec)
      BY <1>1, <1>5, <2>1 DEF LooksAhead, Evaluated
    <2>4. QED
      BY <1>2, <2>1, <2>2, <2>3, RunReads
  <1>6. QED
    BY <1>4, <1>5

LEMMA LoadTickersInv ==
    ASSUME IInv, NEW r \in Runs, LoadTickers(r)
    PROVE  IInv'
  <1>1. UNCHANGED <<db, lock, history>> /\ run[r].pc = "tickers"
    BY DEF LoadTickers
  <1>2. /\ run[r] \in RunType
        /\ LooksAhead(run[r])
    BY Mine DEF Fit
  <1>3. PICK pc \in {"finish", "evaluate"}, symbols \in SUBSET Symbols :
           Goes(r, [run[r] EXCEPT !.pc = pc, !.symbols = symbols])
    <2> DEFINE symbols == IF run[r].scan THEN Universe ELSE Symbols \ hidden
               pc == IF symbols = {} THEN "finish" ELSE "evaluate"
    <2>1. symbols \in SUBSET Symbols /\ pc \in {"finish", "evaluate"}
      BY ScreenerAssumption
    <2>2. Goes(r, [run[r] EXCEPT !.pc = pc, !.symbols = symbols])
      BY DEF LoadTickers
    <2> HIDE DEF pc, symbols
    <2>3. QED
      BY <2>1, <2>2
  <1> DEFINE rec == [run[r] EXCEPT !.pc = pc, !.symbols = symbols]
  <1>4. /\ rec \in RunType /\ rec.pc \in {"finish", "evaluate"}
        /\ rec.configs = run[r].configs /\ rec.rows = run[r].rows
    BY <1>2 DEF RunType
  <1>5. Goes(r, rec)
    BY <1>3
  <1> HIDE DEF rec
  <1>6. LooksAhead(rec) /\ Evaluated(rec)
    BY <1>1, <1>2, <1>4 DEF LooksAhead, Evaluated
  <1>7. QED
    BY <1>1, <1>4, <1>5, <1>6, RunReads

\* The configuration that a run is at.
LEMMA HereIsConfig ==
    ASSUME IInv, NEW r \in Runs, run[r].pc \in {"evaluate", "persist"}
    PROVE  /\ ConfigHere(r) \in DOMAIN run[r].configs /\ ConfigHere(r) \in Ids
           /\ run[r].configs[ConfigHere(r)] \in ConfigRow
  <1>1. /\ run[r].configs \in Tables(Ids, ConfigRow) /\ DOMAIN run[r].configs # {}
    BY Mine DEF RunType, Fit, LooksAhead
  <1>2. /\ DOMAIN run[r].configs \in SUBSET Ids
        /\ \A c \in DOMAIN run[r].configs : run[r].configs[c] \in ConfigRow
    BY <1>1, TableFacts
  <1>3. IsFiniteSet(DOMAIN run[r].configs) /\ DOMAIN run[r].configs \in SUBSET Int
    <2>1. IsFiniteSet(Ids) /\ Ids \in SUBSET Int
      BY ScreenerAssumption, FS_Interval DEF Ids
    <2>2. QED
      BY <1>2, <2>1, FS_Subset
  <1>4. ConfigHere(r) \in DOMAIN run[r].configs
    BY <1>1, <1>3, Least DEF ConfigHere
  <1>5. QED
    BY <1>1, <1>2, <1>4

LEMMA EvaluateConfigInv ==
    ASSUME IInv, NEW r \in Runs, EvaluateConfig(r)
    PROVE  IInv'
  <1>1. UNCHANGED <<db, lock, history>> /\ run[r].pc = "evaluate"
    BY DEF EvaluateConfig
  <1>2. /\ run[r] \in RunType /\ run[r].symbols \in SUBSET Symbols
        /\ LooksAhead(run[r])
        /\ data \in [Symbols -> DOMAIN Readings]
    BY Mine DEF Fit, RunType
  <1> DEFINE b == run[r].configs[ConfigHere(r)].body
             e == [s \in run[r].symbols |-> Evaluation[data[s]][s][b]]
             dropped == Dropped(e, Bodies[b].sector_max)
             Row1(s) == [passed |-> e[s].passed /\ s \notin dropped,
                         score |-> IF s \in dropped THEN Null ELSE e[s].score,
                         on |-> data[s]]
             found == [s \in run[r].symbols |-> Row1(s)]
             rec == [run[r] EXCEPT !.pc = "persist", !.evaluations = found]
  <1>3. b \in DOMAIN Bodies
    BY <1>1, HereIsConfig DEF ConfigRow
  <1>4. Goes(r, rec)
    BY DEF EvaluateConfig
  <1> HIDE DEF b, dropped
  <1>5. ASSUME NEW s \in run[r].symbols
        PROVE  /\ Row1(s) \in EvaluationRow
               /\ Row1(s).passed => Complete[Row1(s).on][s][b]
    <2>1. s \in Symbols /\ data[s] \in DOMAIN Readings /\ e[s] = Evaluation[data[s]][s][b]
      BY <1>2
    <2>2. e[s].score \in Scores
      <3>1. Evaluation[data[s]][s][b].score \in Scores
        BY <1>3, <2>1, ScoreAmong, Zenon
      <3>2. QED
        BY <2>1, <3>1
    <2>3. Null \in Scores
      BY DEF Scores
    <2>4. (e[s].passed /\ s \notin dropped) \in BOOLEAN
      BY Zenon
    <2>5. e[s].passed => Complete[data[s]][s][b]
      BY <1>3, <2>1, EvaluatedOnData
    <2> HIDE DEF e
    <2>6. QED
      BY <2>1, <2>2, <2>3, <2>4, <2>5 DEF EvaluationRow
  <1> HIDE DEF e, Row1
  <1>6. found \in Tables(Symbols, EvaluationRow) /\ DOMAIN found = run[r].symbols
    <2>1. found \in [run[r].symbols -> EvaluationRow]
      BY <1>5
    <2>2. QED
      BY <1>2, <2>1, TableOf
  <1>7. \A s \in DOMAIN found : found[s].passed => Complete[found[s].on][s][b]
    BY <1>5
  <1> HIDE DEF found
  <1>8. /\ rec \in RunType /\ rec.pc = "persist" /\ rec.evaluations = found
        /\ rec.configs = run[r].configs /\ rec.rows = run[r].rows
    BY <1>2, <1>6 DEF RunType
  <1> HIDE DEF rec
  <1>9. LooksAhead(rec)
    BY <1>1, <1>2, <1>8 DEF LooksAhead
  <1>10. Evaluated(rec)
    BY <1>7, <1>8 DEF Evaluated, b, ConfigHere
  <1>11. QED
    BY <1>1, <1>4, <1>8, <1>9, <1>10, RunReads

\* What Persist lays over the rows of its run.
NewRows(r) ==
    LET c == ConfigHere(r)
        e == run[r].evaluations
    IN  [k \in (DOMAIN e) \X {c} |->
            [passed |-> e[k[1]].passed, score |-> e[k[1]].score,
             on |-> e[k[1]].on, body |-> run[r].configs[c].body,
             born |-> run[r].configs[c].born, by |-> run[r].by]]

LEMMA PersistedRows ==
    ASSUME IInv, NEW r \in Runs, run[r].pc = "persist"
    PROVE  /\ NewRows(r) \in Tables(Symbols \X Ids, ResultRow)
           /\ Committed(NewRows(r))
  <1> DEFINE c == ConfigHere(r)
             e == run[r].evaluations
             K == (DOMAIN e) \X {c}
             rows == NewRows(r)
  <1>1. /\ run[r] \in RunType /\ e \in Tables(Symbols, EvaluationRow) /\ run[r].by \in Nat
        /\ Evaluated(run[r])
    BY Mine DEF Fit, RunType
  <1>2. c \in Ids /\ run[r].configs[c] \in ConfigRow
    BY HereIsConfig
  <1>3. DOMAIN e \subseteq Symbols /\ \A s \in DOMAIN e : e[s] \in EvaluationRow
    BY <1>1, TableFacts
  <1>4. /\ DOMAIN rows = K /\ K \in SUBSET (Symbols \X Ids)
        /\ rows = [k \in K |-> rows[k]]
    BY <1>2, <1>3 DEF NewRows
  <1>5. ASSUME NEW k \in K
        PROVE  rows[k] \in ResultRow /\ OnData(k, rows[k])
    <2>1. k[1] \in DOMAIN e /\ k[2] = c
      OBVIOUS
    <2>2. rows[k] = [passed |-> e[k[1]].passed, score |-> e[k[1]].score, on |-> e[k[1]].on,
                     body |-> run[r].configs[c].body, born |-> run[r].configs[c].born,
                     by |-> run[r].by]
      BY DEF NewRows
    <2>3. e[k[1]] \in EvaluationRow
      BY <1>3, <2>1
    <2>4. e[k[1]].passed => Complete[e[k[1]].on][k[1]][run[r].configs[c].body]
      BY <1>1, <2>1 DEF Evaluated, ConfigHere
    <2> DEFINE d == run[r].configs[c]
               ek == e[k[1]]
               row == rows[k]
    <2>5. d \in ConfigRow /\ run[r].by \in Nat
      BY <1>1, <1>2
    <2>6. row = [passed |-> ek.passed, score |-> ek.score, on |-> ek.on, body |-> d.body,
                 born |-> d.born, by |-> run[r].by]
      BY <2>2
    <2>7. ek \in EvaluationRow
      BY <2>3
    <2>8. ek.passed => Complete[ek.on][k[1]][d.body]
      BY <2>4
    <2> HIDE DEF c, e, d, ek, row, rows, K
    <2>9. /\ ek.passed \in BOOLEAN /\ ek.score \in Scores /\ ek.on \in DOMAIN Readings
          /\ d.body \in DOMAIN Bodies /\ d.born \in Nat
      BY <2>5, <2>7 DEF EvaluationRow, ConfigRow
    <2>10. row \in ResultRow
      BY <2>5, <2>6, <2>9 DEF ResultRow
    <2>11. /\ row.passed = ek.passed /\ row.on = ek.on /\ row.body = d.body /\ row.born = d.born
      BY <2>6
    <2>12. OnData(k, row)
      BY <2>8, <2>11 DEF OnData
    <2>13. QED
      BY <2>10, <2>12 DEF row
  <1> HIDE DEF rows, K
  <1>6. rows \in [K -> ResultRow]
    BY <1>4, <1>5
  <1>7. rows \in Tables(Symbols \X Ids, ResultRow)
    BY <1>4, <1>6, TableOf
  <1>8. QED
    BY <1>4, <1>5, <1>7 DEF rows, Committed

LEMMA CommittedOver ==
    ASSUME NEW f, NEW g, Committed(f), Committed(g)
    PROVE  Committed(Upsert(f, g))
  <1>1. DOMAIN Upsert(f, g) = DOMAIN f \cup DOMAIN g
    BY UpsertRows
  <1>2. \A k \in DOMAIN g : Upsert(f, g)[k] = g[k]
    BY UpsertRows
  <1>3. \A k \in DOMAIN f \ DOMAIN g : Upsert(f, g)[k] = f[k]
    BY UpsertRows
  <1>4. QED
    BY <1>1, <1>2, <1>3 DEF Committed

LEMMA PersistInv ==
    ASSUME IInv, NEW r \in Runs, Persist(r)
    PROVE  IInv'
  <1> DEFINE c == ConfigHere(r)
             rows == NewRows(r)
             rest == Restricted(run[r].configs, DOMAIN run[r].configs \ {c})
             pc == IF DOMAIN rest = {} THEN "finish" ELSE "evaluate"
             laid == Upsert(run[r].rows, rows)
             rec == [run[r] EXCEPT !.pc = pc, !.configs = rest, !.evaluations = Empty,
                                   !.rows = laid]
  <1>1. /\ run[r].pc = "persist" /\ CanWrite(r) /\ lock' = r
        /\ UNCHANGED <<data, hidden, config, edits, strays>> /\ results' = results
        /\ started' = started
    BY DEF Persist, db, history
  <1>2. Goes(r, rec)
    BY DEF Persist, NewRows
  <1>3. /\ rows \in Tables(Symbols \X Ids, ResultRow) /\ Committed(rows)
    BY <1>1, PersistedRows
  <1>4. /\ run[r] \in RunType /\ run[r].rows \in Tables(Symbols \X Ids, ResultRow)
        /\ run[r].configs \in Tables(Ids, ConfigRow)
        /\ Committed(run[r].rows)
    BY Mine DEF Fit, RunType
  <1> HIDE DEF rows
  <1>5. laid \in Tables(Symbols \X Ids, ResultRow) /\ Committed(laid)
    BY <1>3, <1>4, TableOver, CommittedOver
  <1> HIDE DEF laid
  <1>6. /\ rest \in Tables(Ids, ConfigRow) /\ DOMAIN rest \subseteq DOMAIN run[r].configs
        /\ \A d \in DOMAIN rest : rest[d] = run[r].configs[d]
    <2>1. DOMAIN run[r].configs \ {c} \in SUBSET (DOMAIN run[r].configs)
      OBVIOUS
    <2>2. QED
      BY <1>4, <2>1, TableRestricted
  <1> HIDE DEF rest
  <1>7. /\ rec \in RunType /\ rec.pc = pc /\ rec.configs = rest /\ rec.rows = laid
    <2>1. pc \in {"finish", "evaluate"} /\ Empty \in Tables(Symbols, EvaluationRow)
      BY EmptyTable
    <2> HIDE DEF pc
    <2>2. QED
      BY <1>4, <1>5, <1>6, <2>1 DEF RunType
  <1> HIDE DEF rec
  <1>8. Fit(lock', r, rec)
    <2>1. LooksAhead(rec) /\ Evaluated(rec)
      BY <1>7 DEF LooksAhead, Evaluated
    <2>2. QED
      BY <1>1, <1>5, <1>7, <2>1 DEF Fit
  <1>9. LockMoves(r)
    BY <1>1 DEF LockMoves, CanWrite
  <1>10. /\ results' \in Tables(Symbols \X Ids, ResultRow) /\ started' \in Nat
         /\ Committed(results')
    BY <1>1, Mine
  <1>11. QED
    BY <1>1, <1>2, <1>7, <1>8, <1>9, <1>10, RunMoves

\* A commit puts a run's rows into the table and ends it.
LEMMA CommitInv ==
    ASSUME IInv, NEW r \in Runs, Commit(r), UNCHANGED <<data, hidden, config, edits, started, strays>>
    PROVE  IInv'
  <1>1. /\ run[r].rows \in Tables(Symbols \X Ids, ResultRow)
        /\ results \in Tables(Symbols \X Ids, ResultRow)
        /\ Committed(run[r].rows) /\ Committed(results)
        /\ started \in Nat
    BY Mine DEF Fit, RunType
  <1>2. results' = Upsert(results, run[r].rows) /\ Goes(r, Idle)
    BY DEF Commit
  <1>3. /\ results' \in Tables(Symbols \X Ids, ResultRow)
        /\ Committed(results')
    <2>1. /\ Upsert(results, run[r].rows) \in Tables(Symbols \X Ids, ResultRow)
          /\ Committed(Upsert(results, run[r].rows))
      BY <1>1, TableOver, CommittedOver
    <2>2. QED
      BY <1>2, <2>1
  <1>4. LockMoves(r)
    BY DEF Commit, LockMoves
  <1>5. Idle \in RunType /\ Fit(lock', r, Idle)
    BY IdleRests
  <1>6. QED
    BY <1>1, <1>2, <1>3, <1>4, <1>5, RunMoves

LEMMA CrashInv ==
    ASSUME IInv, Crash
    PROVE  IInv'
  <1>1. /\ UNCHANGED <<data, hidden, config, results, edits, started, strays>>
        /\ run' = [r \in Runs |-> Idle] /\ lock' = Free
    BY DEF Crash, db
  <1>2. Typed'
    BY <1>1, IdleRests DEF IInv, Typed
  <1>3. Committed(results')
    BY <1>1 DEF IInv
  <1>4. \A r \in Runs : Fit(lock', r, run'[r])
    BY <1>1, IdleRests
  <1>5. QED
    BY <1>2, <1>3, <1>4 DEF IInv

-----------------------------------------------------------------------------
(* The theorems *)

LEMMA NextInv == IInv /\ [Next]_vars => IInv'
  <1> SUFFICES ASSUME IInv, [Next]_vars PROVE IInv'
    OBVIOUS
  <1>1. CASE \E b \in DOMAIN Bodies : \E active \in BOOLEAN :
               CreateConfig(b, active) \/ \E c \in DOMAIN config : ReplaceConfig(c, b, active)
    BY <1>1, CreateConfigInv, ReplaceConfigInv
  <1>2. ASSUME NEW d \in Clients,
               \/ \E c \in DOMAIN config, cascade \in BOOLEAN : CheckDelete(d, c, cascade)
               \/ DeleteConfig(d) \/ DeleteFails(d)
        PROVE  IInv'
    <2>1. CASE DeleteFails(d)
      BY <2>1, EditInv DEF DeleteFails, IInv, Typed, db, history
    <2>2. QED
      BY <1>2, <2>1, CheckDeleteInv, DeleteConfigInv
  <1>3. CASE \E s \in Symbols : PatchTicker(s) \/ \E i \in DOMAIN Readings : Ingest(s, i)
    BY <1>3, MarketInv
  <1>4. ASSUME NEW r \in Runs, StartScreener(r) \/ StartScan(r) PROVE IInv'
    BY <1>4, StartInv DEF StartScreener, StartScan
  <1>5. ASSUME NEW r \in Runs, LoadConfigs(r) PROVE IInv'
    BY <1>5, LoadConfigsInv
  <1>6. ASSUME NEW r \in Runs, LoadTickers(r) PROVE IInv'
    BY <1>6, LoadTickersInv
  <1>7. ASSUME NEW r \in Runs, EvaluateConfig(r) PROVE IInv'
    BY <1>7, EvaluateConfigInv
  <1>8. ASSUME NEW r \in Runs, Persist(r) PROVE IInv'
    BY <1>8, PersistInv
  <1>9. ASSUME NEW r \in Runs, Finish(r) \/ Fail(r) PROVE IInv'
    <2>1. Commit(r) /\ UNCHANGED <<data, hidden, config, edits, started, strays>>
      BY <1>9 DEF Finish, Fail, history
    <2>2. QED
      BY <2>1, CommitInv
  <1>10. CASE Crash
    BY <1>10, CrashInv
  <1>11. CASE UNCHANGED vars
    <2>1. UNCHANGED <<data, hidden, config, results, lock, run, edits, started, strays>>
      BY <1>11 DEF vars, db, history
    <2>2. QED
      BY <2>1 DEF IInv, Typed
  <1>12. QED
    BY <1>1, <1>2, <1>3, <1>4, <1>5, <1>6, <1>7, <1>8, <1>9, <1>10, <1>11 DEF Next

LEMMA IInvAlways == Spec => []IInv
  BY InitInv, NextInv, PTL DEF Spec

\* Whatever the readings, the configurations and the order in which requests,
\* ingestions and runs come: a row that passes had every column that a required
\* filter of its configuration cannot do without.
THEOREM PassesOnlyOnData == Spec => []PassedOnData
  <1>1. IInv => PassedOnData
    BY DEF IInv, Committed, OnData, PassedOnData
  <1>2. QED
    BY <1>1, IInvAlways, PTL

-----------------------------------------------------------------------------
(* The cap on an evaluation *)

\* Those of a sector that an evaluation ranks before s.
Before(e, s) ==
    {t \in DOMAIN e : e[t].passed /\ Bucket(t) = Bucket(s) /\ Ahead(e, t, s)}

\* An evaluation that can be ranked.
Rankable(e) ==
    /\ DOMAIN e \in SUBSET Int /\ IsFiniteSet(DOMAIN e)
    /\ \A s \in DOMAIN e : e[s].score \in Int \cup {Null}

\* Before orders the symbols: what the cap drops is the end of a row.
LEMMA AheadOrder ==
    ASSUME NEW e, Rankable(e)
    PROVE  /\ \A s \in DOMAIN e : ~Ahead(e, s, s)
           /\ \A s, t, u \in DOMAIN e : Ahead(e, s, t) /\ Ahead(e, t, u) => Ahead(e, s, u)
           /\ \A s, t \in DOMAIN e : s = t \/ Ahead(e, s, t) \/ Ahead(e, t, s)
  <1>1. \A s \in DOMAIN e : s \in Int /\ (e[s].score \in Int \/ e[s].score = Null)
    BY DEF Rankable
  <1>2. \A s \in DOMAIN e : ~Ahead(e, s, s)
    BY <1>1, NullAssumption DEF Ahead
  <1>3. ASSUME NEW s \in DOMAIN e, NEW t \in DOMAIN e, NEW u \in DOMAIN e,
               Ahead(e, s, t), Ahead(e, t, u)
        PROVE  Ahead(e, s, u)
    BY <1>1, <1>3, NullAssumption DEF Ahead
  <1>4. ASSUME NEW s \in DOMAIN e, NEW t \in DOMAIN e
        PROVE  s = t \/ Ahead(e, s, t) \/ Ahead(e, t, s)
    BY <1>1, NullAssumption DEF Ahead
  <1>5. QED
    BY <1>2, <1>3, <1>4

\* The passers of a sector that the cap leaves.
Kept(e, bucket, cap) ==
    {s \in DOMAIN e : e[s].passed /\ Bucket(s) = bucket /\ ~(Cardinality(Before(e, s)) >= cap)}

LEMMA KeptAtMost ==
    ASSUME NEW e, Rankable(e), NEW bucket, NEW cap \in Nat
    PROVE  IsFiniteSet(Kept(e, bucket, cap)) /\ Cardinality(Kept(e, bucket, cap)) <= cap
  <1> DEFINE K == Kept(e, bucket, cap)
             R == {p \in K \X K : Ahead(e, p[2], p[1])}
  <1>1. K \in SUBSET (DOMAIN e) /\ IsFiniteSet(DOMAIN e)
    BY DEF Kept, Rankable
  <1>2. IsFiniteSet(K)
    BY <1>1, FS_Subset
  <1>3. CASE K = {}
    BY <1>2, <1>3, FS_EmptySet
  <1>4. CASE K # {}
    <2>1. \A x, y \in K : <<x, y>> \in R <=> Ahead(e, y, x)
      OBVIOUS
    <2>2. /\ \A x \in K : <<x, x>> \notin R
          /\ \A x, y, z \in K : <<x, y>> \in R /\ <<y, z>> \in R => <<x, z>> \in R
      <3> HIDE DEF R, K
      <3>1. QED
        BY <1>1, <2>1, AheadOrder
    <2> HIDE DEF R, K
    <2>3. PICK x \in K : Minimal(K, R, x)
      BY <1>2, <1>4, <2>2, HasMinimal
    <2>4. \A y \in K : ~Ahead(e, x, y)
      BY <2>1, <2>3 DEF Minimal
    <2>5. K \ {x} \in SUBSET Before(e, x)
      <3>1. ASSUME NEW y \in K \ {x} PROVE y \in Before(e, x)
        <4>1. Ahead(e, y, x)
          BY <1>1, <2>4, AheadOrder
        <4>2. QED
          BY <4>1 DEF Before, K, Kept
      <3>2. QED
        BY <3>1
    <2>6. Before(e, x) \in SUBSET (DOMAIN e)
      BY DEF Before
    <2>7. IsFiniteSet(Before(e, x))
      BY <1>1, <2>6, FS_Subset
    <2>8. Cardinality(K \ {x}) <= Cardinality(Before(e, x)) /\ Cardinality(Before(e, x)) \in Nat
      BY <2>5, <2>7, FS_Subset, FS_CardinalityType
    <2>9. Cardinality(K \ {x}) = Cardinality(K) - 1 /\ Cardinality(K) \in Nat
      BY <1>2, FS_RemoveElement, FS_CardinalityType
    <2>10. ~(Cardinality(Before(e, x)) >= cap)
      BY DEF K, Kept
    <2>11. Cardinality(K) <= cap
      BY <2>8, <2>9, <2>10
    <2>12. QED
      BY <1>2, <2>11 DEF K
  <1>5. QED
    BY <1>3, <1>4

\* Whatever the cap drops scored no higher than what it leaves.
LEMMA KeptBest ==
    ASSUME NEW e, Rankable(e), NEW cap \in Nat,
           NEW s \in DOMAIN e, NEW t \in DOMAIN e, Bucket(s) = Bucket(t), e[t].passed,
           ~(Cardinality(Before(e, s)) >= cap), Cardinality(Before(e, t)) >= cap
    PROVE  e[t].score # Null => e[s].score # Null /\ e[s].score >= e[t].score
  <1>1. SUFFICES ASSUME e[t].score # Null, ~(e[s].score # Null /\ e[s].score >= e[t].score)
                 PROVE  FALSE
    OBVIOUS
  <1>2. \A u \in {s, t} : e[u].score \in Int \/ e[u].score = Null
    BY DEF Rankable
  <1>3. Ahead(e, t, s)
    BY <1>1, <1>2, NullAssumption DEF Ahead
  <1>4. Before(e, t) \in SUBSET Before(e, s)
    BY <1>3, AheadOrder DEF Before
  <1>5. Before(e, s) \in SUBSET (DOMAIN e)
    BY DEF Before
  <1>6. IsFiniteSet(Before(e, s))
    BY <1>5, FS_Subset DEF Rankable
  <1>7. /\ Cardinality(Before(e, t)) <= Cardinality(Before(e, s))
        /\ Cardinality(Before(e, s)) \in Nat /\ Cardinality(Before(e, t)) \in Nat
    <2>1. IsFiniteSet(Before(e, t)) /\ Cardinality(Before(e, t)) <= Cardinality(Before(e, s))
      BY <1>4, <1>6, FS_Subset
    <2>2. QED
      BY <1>6, <2>1, FS_CardinalityType
  <1>8. QED
    BY <1>7

-----------------------------------------------------------------------------
(* The best of a sector *)

\* The evaluations of a configuration, by the reading that each symbol was found with.
Firsts(on, b) == [s \in DOMAIN on |-> Evaluation[on[s]][s][b]]

\* Row k of a configuration b is what the cap has left of an evaluation.
LeftBy(on, b, s, row) ==
    /\ s \in DOMAIN on /\ row.on = on[s]
    /\ row.passed = (Firsts(on, b)[s].passed /\ s \notin Dropped(Firsts(on, b), Bodies[b].sector_max))

\* The rows of a table that run n has left of configuration c.
Group(T, c, n) == {k \in DOMAIN T : k[2] = c /\ T[k].by = n}

\* They come from one evaluation, of which some rows may have been overwritten.
Ranked(T, c, n) ==
    \E on \in Tables(Symbols, DOMAIN Readings) : \E b \in DOMAIN Bodies :
        Accepted(b) /\ \A k \in Group(T, c, n) : T[k].body = b /\ LeftBy(on, b, k[1], T[k])

AllRanked(T) == \A k \in DOMAIN T : Graded(T[k]) /\ Ranked(T, k[2], T[k].by)

\* The memory of a run: accepted configurations, what the cap has left of the one
\* it is at, and rows of its own of those it has done with.
Chosen(rec) == \A c \in DOMAIN rec.configs : Accepted(rec.configs[c].body)
Judged(rec) ==
    rec.pc = "persist" =>
        \E on \in Tables(Symbols, DOMAIN Readings) :
            \A s \in DOMAIN rec.evaluations :
                /\ Graded(rec.evaluations[s])
                /\ LeftBy(on, rec.configs[Min(DOMAIN rec.configs)].body, s, rec.evaluations[s])
Done(rec) ==
    /\ rec.pc = "configs" => DOMAIN rec.rows = {}
    /\ \A k \in DOMAIN rec.rows : rec.rows[k].by = rec.by /\ k[2] \notin DOMAIN rec.configs
    /\ AllRanked(rec.rows)
Orderly(rec) == Chosen(rec) /\ Judged(rec) /\ Done(rec)

\* A run that is under way has a number of its own.
Numbered(r, n, T) ==
    Active(r) =>
        /\ run[r].by <= n
        /\ \A k \in DOMAIN T : T[k].by # run[r].by
        /\ \A q \in Runs : Active(q) /\ run[q].by = run[r].by => q = r

RankInv ==
    /\ \A c \in DOMAIN config : Accepted(config[c].body)
    /\ \A k \in DOMAIN results : results[k].by <= started
    /\ AllRanked(results)
    /\ \A r \in Runs : Orderly(run[r]) /\ Numbered(r, started, results)

-----------------------------------------------------------------------------
(* Tables of ranked rows *)

\* A run's group of rows stays ranked while rows are only taken out of it.
LEMMA RankedFewer ==
    ASSUME NEW T, NEW U, NEW c, NEW n, Ranked(T, c, n),
           \A k \in Group(U, c, n) : k \in Group(T, c, n) /\ U[k] = T[k]
    PROVE  Ranked(U, c, n)
  <1>1. PICK on \in Tables(Symbols, DOMAIN Readings), b \in DOMAIN Bodies :
           Accepted(b) /\ \A k \in Group(T, c, n) : T[k].body = b /\ LeftBy(on, b, k[1], T[k])
    BY DEF Ranked
  <1>2. \A k \in Group(U, c, n) : U[k].body = b /\ LeftBy(on, b, k[1], U[k])
    BY <1>1
  <1>3. QED
    BY <1>1, <1>2 DEF Ranked

LEMMA AllRankedFewer ==
    ASSUME NEW T, NEW U, AllRanked(T), \A k \in DOMAIN U : k \in DOMAIN T /\ U[k] = T[k]
    PROVE  AllRanked(U)
  <1>1. ASSUME NEW k \in DOMAIN U PROVE Graded(U[k]) /\ Ranked(U, k[2], U[k].by)
    <2>1. Graded(T[k]) /\ Ranked(T, k[2], T[k].by) /\ U[k] = T[k]
      BY DEF AllRanked
    <2>2. \A l \in Group(U, k[2], U[k].by) : l \in Group(T, k[2], U[k].by) /\ U[l] = T[l]
      BY DEF Group
    <2>3. QED
      BY <2>1, <2>2, RankedFewer
  <1>2. QED
    BY <1>1 DEF AllRanked

\* Rows laid over those of other runs, or of other configurations.
LEMMA AllRankedOver ==
    ASSUME NEW f, NEW g, AllRanked(f), AllRanked(g),
           \A k \in DOMAIN f, l \in DOMAIN g : ~(k[2] = l[2] /\ f[k].by = g[l].by)
    PROVE  AllRanked(Upsert(f, g))
  <1> DEFINE U == Upsert(f, g)
  <1>1. /\ DOMAIN U = DOMAIN f \cup DOMAIN g
        /\ \A x \in DOMAIN g : U[x] = g[x]
        /\ \A x \in DOMAIN f \ DOMAIN g : U[x] = f[x]
    BY UpsertRows
  <1> HIDE DEF U
  <1>2. ASSUME NEW k \in DOMAIN g PROVE Graded(U[k]) /\ Ranked(U, k[2], U[k].by)
    <2>1. Graded(g[k]) /\ Ranked(g, k[2], g[k].by) /\ U[k] = g[k]
      BY <1>1 DEF AllRanked
    <2>2. ASSUME NEW l \in Group(U, k[2], g[k].by)
          PROVE  l \in Group(g, k[2], g[k].by) /\ U[l] = g[l]
      <3>1. l \in DOMAIN U /\ l[2] = k[2] /\ U[l].by = g[k].by
        BY DEF Group
      <3>2. l \in DOMAIN g
        BY <1>1, <3>1
      <3>3. QED
        BY <1>1, <3>1, <3>2 DEF Group
    <2>3. QED
      BY <2>1, <2>2, RankedFewer
  <1>3. ASSUME NEW k \in DOMAIN f \ DOMAIN g PROVE Graded(U[k]) /\ Ranked(U, k[2], U[k].by)
    <2>1. Graded(f[k]) /\ Ranked(f, k[2], f[k].by) /\ U[k] = f[k]
      BY <1>1 DEF AllRanked
    <2>2. ASSUME NEW l \in Group(U, k[2], f[k].by)
          PROVE  l \in Group(f, k[2], f[k].by) /\ U[l] = f[l]
      <3>1. l \in DOMAIN U /\ l[2] = k[2] /\ U[l].by = f[k].by
        BY DEF Group
      <3>2. l \in DOMAIN f \ DOMAIN g
        BY <1>1, <3>1
      <3>3. QED
        BY <1>1, <3>1, <3>2 DEF Group
    <2>3. QED
      BY <2>1, <2>2, RankedFewer
  <1>4. QED
    BY <1>1, <1>2, <1>3 DEF AllRanked, U

-----------------------------------------------------------------------------
(* Every step keeps the rows ranked *)

\* A run that is over remembers nothing.
LEMMA IdleOrderly == Orderly(Idle) /\ Idle.pc = "idle"
  <1>1. /\ DOMAIN Idle.configs = {} /\ DOMAIN Idle.rows = {} /\ Idle.pc = "idle"
    BY EmptyTable DEF Idle
  <1>2. QED
    BY <1>1 DEF Orderly, Chosen, Judged, Done, AllRanked

LEMMA InitRank == Init => RankInv
  <1> SUFFICES ASSUME Init PROVE RankInv
    OBVIOUS
  <1>1. DOMAIN results = {}
    BY EmptyTable DEF Init
  <1>2. \A c \in DOMAIN config : Accepted(config[c].body)
    BY SeedAssumption DEF Init
  <1>3. \A r \in Runs : Orderly(run[r]) /\ Numbered(r, started, results)
    BY IdleOrderly DEF Init, Numbered, Active
  <1>4. QED
    BY <1>1, <1>2, <1>3 DEF RankInv, AllRanked

\* The requests and the market leave the runs alone and write no results.
LEMMA RankEdit ==
    ASSUME RankInv, UNCHANGED <<run, started>>,
           \A c \in DOMAIN config' : Accepted(config'[c].body),
           \A k \in DOMAIN results' : k \in DOMAIN results /\ results'[k] = results[k]
    PROVE  RankInv'
  <1>1. AllRanked(results')
    BY AllRankedFewer DEF RankInv
  <1>2. \A k \in DOMAIN results' : results'[k].by <= started
    BY DEF RankInv
  <1>3. ASSUME NEW r \in Runs PROVE Orderly(run'[r]) /\ Numbered(r, started, results)'
    <2>1. Orderly(run[r]) /\ Numbered(r, started, results)
      BY DEF RankInv
    <2>2. QED
      BY <2>1 DEF Numbered, Active
  <1>4. QED
    BY <1>1, <1>2, <1>3 DEF RankInv

LEMMA CreateConfigRank ==
    ASSUME RankInv, NEW b \in DOMAIN Bodies, NEW active \in BOOLEAN, CreateConfig(b, active)
    PROVE  RankInv'
  <1>1. UNCHANGED <<run, started>> /\ results' = results /\ Accepted(b)
    BY DEF CreateConfig
  <1> DEFINE row == [body |-> b, active |-> active, born |-> edits']
             new == [c \in {NextId} |-> row]
  <1>2. config' = Upsert(config, new)
    BY DEF CreateConfig
  <1>3. ASSUME NEW c \in DOMAIN config' PROVE Accepted(config'[c].body)
    <2>1. /\ DOMAIN config' = DOMAIN config \cup {NextId}
          /\ config'[c] = IF c = NextId THEN row ELSE config[c]
      BY <1>2 DEF Upsert
    <2>2. CASE c = NextId
      BY <1>1, <2>1, <2>2
    <2>3. CASE c # NextId
      BY <2>1, <2>3 DEF RankInv
    <2>4. QED
      BY <2>2, <2>3
  <1>4. QED
    BY <1>1, <1>3, RankEdit

LEMMA ReplaceConfigRank ==
    ASSUME IInv, RankInv, NEW c \in DOMAIN config, NEW b \in DOMAIN Bodies,
           NEW active \in BOOLEAN, ReplaceConfig(c, b, active)
    PROVE  RankInv'
  <1>1. UNCHANGED <<run, started>> /\ results' = results /\ Accepted(b)
        /\ config' = [config EXCEPT ![c].body = b, ![c].active = active]
    BY DEF ReplaceConfig
  <1>2. config \in [DOMAIN config -> ConfigRow]
    BY TableFacts DEF IInv, Typed
  <1>3. config[c] \in ConfigRow /\ config' = [config EXCEPT ![c] = [@ EXCEPT !.body = b, !.active = active]]
    BY <1>1, <1>2 DEF ConfigRow
  <1>4. /\ DOMAIN config' = DOMAIN config /\ config'[c].body = b
        /\ \A d \in DOMAIN config \ {c} : config'[d] = config[d]
    BY <1>2, <1>3 DEF ConfigRow
  <1>5. \A d \in DOMAIN config' : Accepted(config'[d].body)
    BY <1>1, <1>4 DEF RankInv
  <1>6. QED
    BY <1>1, <1>5, RankEdit

LEMMA DeleteConfigRank ==
    ASSUME RankInv, NEW d \in Clients, DeleteConfig(d)
    PROVE  RankInv'
  <1> DEFINE left == DOMAIN config \ {request[d].id}
             kept == DOMAIN results \ ResultsOf(request[d].id)
  <1>0. /\ config' = Restricted(config, left)
        /\ results' = Restricted(results, kept) \/ results' = results
    BY Deleted
  <1>1. \A c \in DOMAIN config' : c \in DOMAIN config /\ config'[c] = config[c]
    BY <1>0, RestrictedRows
  <1>2. \A k \in DOMAIN results' : k \in DOMAIN results /\ results'[k] = results[k]
    BY <1>0, RestrictedRows
  <1>3. \A c \in DOMAIN config' : Accepted(config'[c].body)
    BY <1>1 DEF RankInv
  <1>4. UNCHANGED <<run, started>>
    BY Deleted
  <1>5. QED
    BY <1>2, <1>3, <1>4, RankEdit

LEMMA MarketRank ==
    ASSUME RankInv, NEW s \in Symbols, PatchTicker(s) \/ \E i \in DOMAIN Readings : Ingest(s, i)
    PROVE  RankInv'
  <1>1. UNCHANGED <<config, results, run, started>>
    BY DEF PatchTicker, Ingest
  <1>2. \A c \in DOMAIN config' : Accepted(config'[c].body)
    BY <1>1 DEF RankInv
  <1>3. QED
    BY <1>1, <1>2, RankEdit

\* A run that goes on and commits nothing.
LEMMA RankGoes ==
    ASSUME IInv, RankInv, NEW r \in Runs, Active(r), NEW rec, Goes(r, rec),
           UNCHANGED <<config, results, started>>,
           rec.by = run[r].by, Orderly(rec)
    PROVE  RankInv'
  <1>1. run'[r] = rec /\ \A q \in Runs \ {r} : run'[q] = run[q]
    BY DEF IInv, Typed, Goes
  <1>2. ASSUME NEW q \in Runs PROVE Orderly(run'[q]) /\ Numbered(q, started, results)'
    <2>1. Orderly(run'[q])
      BY <1>1 DEF RankInv
    <2>2. /\ Active(q)' => Active(q)
          /\ run'[q].by = run[q].by
          /\ Numbered(q, started, results)
      BY <1>1 DEF RankInv, Active
    <2>3. \A p \in Runs : run'[p].by = run[p].by /\ (Active(p)' => Active(p))
      BY <1>1 DEF Active
    <2>4. Numbered(q, started, results)'
      BY <2>2, <2>3 DEF Numbered
    <2>5. QED
      BY <2>1, <2>4
  <1>3. QED
    BY <1>2 DEF RankInv

\* A run starts with a number of its own.
LEMMA StartRank ==
    ASSUME IInv, RankInv, NEW r \in Runs, NEW scan \in BOOLEAN, Start(r, scan)
    PROVE  RankInv'
  <1> DEFINE rec == [Idle EXCEPT !.pc = "configs", !.by = started + 1, !.scan = scan]
  <1>1. /\ rec.pc = "configs" /\ rec.by = started + 1 /\ rec.configs = Empty /\ rec.rows = Empty
    BY DEF Idle
  <1>2. /\ run' = [run EXCEPT ![r] = rec] /\ started' = started + 1 /\ started \in Nat
        /\ config' = config /\ results' = results /\ run \in [Runs -> RunType]
    BY DEF IInv, Typed, Start, Goes, db
  <1> HIDE DEF rec
  <1>3. run'[r] = rec /\ \A q \in Runs \ {r} : run'[q] = run[q]
    BY <1>2
  <1>4. Orderly(rec)
    <2>1. DOMAIN rec.configs = {} /\ DOMAIN rec.rows = {}
      BY <1>1, EmptyTable
    <2>2. QED
      BY <1>1, <2>1 DEF Orderly, Chosen, Judged, Done, AllRanked
  <1>5. results \in Tables(Symbols \X Ids, ResultRow) /\ \A k \in DOMAIN results : results[k].by \in Nat
    <2>1. results \in Tables(Symbols \X Ids, ResultRow)
      BY DEF IInv, Typed
    <2>2. \A k \in DOMAIN results : results[k] \in ResultRow
      BY <2>1, TableFacts
    <2>3. QED
      BY <2>1, <2>2 DEF ResultRow
  <1>6. \A k \in DOMAIN results : results[k].by <= started
    BY DEF RankInv
  <1>7. ASSUME NEW q \in Runs, Active(q) PROVE run[q].by \in Nat /\ run[q].by <= started
    <2>1. run[q] \in RunType /\ Numbered(q, started, results)
      BY <1>2 DEF RankInv
    <2>2. QED
      BY <1>7, <2>1 DEF RunType, Numbered
  <1>8. ASSUME NEW q \in Runs PROVE Orderly(run'[q]) /\ Numbered(q, started, results)'
    <2>1. Orderly(run'[q])
      BY <1>3, <1>4 DEF RankInv
    <2>2. CASE q = r
      <3>1. \A k \in DOMAIN results' : results'[k].by # run'[q].by
        BY <1>1, <1>2, <1>3, <1>5, <1>6, <2>2
      <3>2. ASSUME NEW p \in Runs, Active(p)', run'[p].by = run'[q].by PROVE p = q
        <4>1. SUFFICES ASSUME p # r PROVE FALSE
          BY <2>2
        <4>2. Active(p) /\ run[p].by = started + 1
          BY <1>1, <1>3, <2>2, <3>2, <4>1 DEF Active
        <4>3. QED
          BY <1>2, <1>7, <4>2
      <3>3. run'[q].by <= started'
        BY <1>1, <1>2, <1>3, <2>2
      <3>4. QED
        BY <2>1, <3>1, <3>2, <3>3 DEF Numbered
    <2>3. CASE q # r
      <3>1. SUFFICES ASSUME Active(q)' PROVE Numbered(q, started, results)'
        BY <2>1 DEF Numbered
      <3>2. Active(q) /\ run'[q].by = run[q].by /\ Numbered(q, started, results)
        BY <1>3, <2>3, <3>1 DEF Active, RankInv
      <3>3. run'[q].by <= started' /\ run'[q].by # started + 1
        BY <1>2, <1>7, <3>2
      <3>4. \A k \in DOMAIN results' : results'[k].by # run'[q].by
        BY <1>2, <3>2 DEF Numbered
      <3>5. ASSUME NEW p \in Runs, Active(p)', run'[p].by = run'[q].by PROVE p = q
        <4>1. p # r
          BY <1>1, <1>3, <3>3, <3>5
        <4>2. Active(p) /\ run[p].by = run[q].by
          BY <1>3, <3>2, <3>5, <4>1 DEF Active
        <4>3. QED
          BY <3>2, <4>2 DEF Numbered
      <3>6. QED
        BY <3>3, <3>4, <3>5 DEF Numbered
    <2>4. QED
      BY <2>1, <2>2, <2>3
  <1>9. \A k \in DOMAIN results' : results'[k].by <= started'
    BY <1>2, <1>5, <1>6
  <1>10. QED
    BY <1>2, <1>8, <1>9 DEF RankInv

LEMMA LoadConfigsRank ==
    ASSUME IInv, RankInv, NEW r \in Runs, LoadConfigs(r)
    PROVE  RankInv'
  <1> DEFINE active == {c \in DOMAIN config : config[c].active}
             some == Restricted(config, active)
             stay == [run[r] EXCEPT !.pc = "finish"]
             go == [run[r] EXCEPT !.pc = "tickers", !.configs = some]
  <1>1. /\ Active(r) /\ run[r].pc = "configs" /\ UNCHANGED <<config, results, started>>
        /\ Goes(r, stay) \/ Goes(r, go)
    BY DEF LoadConfigs, Active, db, history
  <1>2. run[r] \in RunType /\ Orderly(run[r])
    BY Mine DEF RankInv
  <1>3. DOMAIN run[r].rows = {}
    BY <1>1, <1>2 DEF Orderly, Done
  <1>4. \A c \in DOMAIN some : Accepted(some[c].body)
    BY DEF RankInv, Restricted
  <1> HIDE DEF some
  <1>5. /\ stay.pc = "finish" /\ stay.by = run[r].by /\ stay.configs = run[r].configs
        /\ stay.rows = run[r].rows
        /\ go.pc = "tickers" /\ go.by = run[r].by /\ go.configs = some
        /\ go.rows = run[r].rows
    BY <1>2 DEF RunType
  <1> HIDE DEF stay, go
  <1>6. Orderly(stay)
    BY <1>2, <1>3, <1>5 DEF Orderly, Chosen, Judged, Done
  <1>7. Orderly(go)
    BY <1>2, <1>3, <1>4, <1>5 DEF Orderly, Chosen, Judged, Done
  <1>8. QED
    BY <1>1, <1>5, <1>6, <1>7, RankGoes

LEMMA LoadTickersRank ==
    ASSUME IInv, RankInv, NEW r \in Runs, LoadTickers(r)
    PROVE  RankInv'
  <1> DEFINE symbols == IF run[r].scan THEN Universe ELSE Symbols \ hidden
             pc == IF symbols = {} THEN "finish" ELSE "evaluate"
             rec == [run[r] EXCEPT !.pc = pc, !.symbols = symbols]
  <1>1. /\ Active(r) /\ UNCHANGED <<config, results, started>> /\ Goes(r, rec)
    BY DEF LoadTickers, Active, db, history
  <1>2. run[r] \in RunType /\ Orderly(run[r]) /\ pc \in {"finish", "evaluate"}
    BY Mine DEF RankInv
  <1> HIDE DEF pc, symbols
  <1>3. /\ rec.pc = pc /\ rec.by = run[r].by /\ rec.configs = run[r].configs
        /\ rec.rows = run[r].rows
    BY <1>2 DEF RunType
  <1> HIDE DEF rec
  <1>4. Orderly(rec)
    BY <1>2, <1>3 DEF Orderly, Chosen, Judged, Done
  <1>5. QED
    BY <1>1, <1>3, <1>4, RankGoes

\* The cap takes from an evaluation all the rows that it takes at once.
LEMMA EvaluateConfigRank ==
    ASSUME IInv, RankInv, NEW r \in Runs, EvaluateConfig(r)
    PROVE  RankInv'
  <1> DEFINE b == run[r].configs[ConfigHere(r)].body
             e == [s \in run[r].symbols |-> Evaluation[data[s]][s][b]]
             dropped == Dropped(e, Bodies[b].sector_max)
             Row1(s) == [passed |-> e[s].passed /\ s \notin dropped,
                         score |-> IF s \in dropped THEN Null ELSE e[s].score,
                         on |-> data[s]]
             found == [s \in run[r].symbols |-> Row1(s)]
             rec == [run[r] EXCEPT !.pc = "persist", !.evaluations = found]
             on == [s \in run[r].symbols |-> data[s]]
  <1>1. /\ Active(r) /\ run[r].pc = "evaluate" /\ UNCHANGED <<config, results, started>>
        /\ Goes(r, rec)
    BY DEF EvaluateConfig, Active, db, history
  <1>2. /\ run[r] \in RunType /\ Orderly(run[r]) /\ run[r].symbols \in SUBSET Symbols
        /\ data \in [Symbols -> DOMAIN Readings]
    BY Mine DEF RankInv, RunType
  <1>3. b \in DOMAIN Bodies /\ Accepted(b)
    <2>1. ConfigHere(r) \in DOMAIN run[r].configs /\ run[r].configs[ConfigHere(r)] \in ConfigRow
      BY <1>1, HereIsConfig
    <2>2. QED
      BY <1>2, <2>1 DEF ConfigRow, Orderly, Chosen
  <1>4. on \in Tables(Symbols, DOMAIN Readings)
    <2>1. on \in [run[r].symbols -> DOMAIN Readings]
      BY <1>2
    <2> HIDE DEF on
    <2>2. QED
      BY <1>2, <2>1, TableOf
  <1>5. Firsts(on, b) = e
    BY DEF Firsts
  <1>6. /\ rec.pc = "persist" /\ rec.by = run[r].by /\ rec.configs = run[r].configs
        /\ rec.rows = run[r].rows /\ rec.evaluations = found
    <2> HIDE DEF found
    <2>1. QED
      BY <1>2 DEF RunType
  <1>7. ASSUME NEW s \in run[r].symbols
        PROVE  Graded(Row1(s)) /\ LeftBy(on, b, s, Row1(s))
    <2>1. Graded(e[s])
      <3>1. Graded(Evaluation[data[s]][s][b])
        <4>1. s \in Symbols /\ data[s] \in DOMAIN Readings
          BY <1>2
        <4> HIDE DEF b
        <4>2. QED
          BY <1>3, <4>1, EvaluationGraded
      <3>2. QED
        BY <3>1
    <2>2. s \in DOMAIN on /\ on[s] = data[s]
      OBVIOUS
    <2> HIDE DEF e, on, b
    <2>3. Graded(Row1(s))
      BY <2>1 DEF Graded
    <2>4. LeftBy(on, b, s, Row1(s))
      BY <1>5, <2>2 DEF LeftBy
    <2>5. QED
      BY <2>3, <2>4
  <1>8. DOMAIN found = run[r].symbols /\ \A s \in DOMAIN found : found[s] = Row1(s)
    OBVIOUS
  <1> HIDE DEF found, rec, on, e, dropped, Row1
  <1>9. Judged(rec)
    <2>1. \A s \in DOMAIN rec.evaluations :
             Graded(rec.evaluations[s]) /\ LeftBy(on, b, s, rec.evaluations[s])
      BY <1>6, <1>7, <1>8
    <2>2. b = rec.configs[Min(DOMAIN rec.configs)].body
      BY <1>6 DEF ConfigHere
    <2> HIDE DEF b
    <2>3. QED
      BY <1>4, <2>1, <2>2 DEF Judged
  <1>10. Orderly(rec)
    BY <1>1, <1>2, <1>6, <1>9 DEF Orderly, Chosen, Done
  <1>11. QED
    BY <1>1, <1>6, <1>10, RankGoes

\* The rows that a configuration adds to those of its run are one group.
LEMMA NewRowsRanked ==
    ASSUME IInv, RankInv, NEW r \in Runs, run[r].pc = "persist"
    PROVE  /\ AllRanked(NewRows(r))
           /\ \A k \in DOMAIN NewRows(r) :
                 k[2] = ConfigHere(r) /\ NewRows(r)[k].by = run[r].by
  <1> DEFINE c == ConfigHere(r)
             b == run[r].configs[c].body
             e == run[r].evaluations
             rows == NewRows(r)
  <1>1. b \in DOMAIN Bodies /\ Accepted(b)
    <2>1. c \in DOMAIN run[r].configs /\ run[r].configs[c] \in ConfigRow
      BY HereIsConfig
    <2>2. Orderly(run[r])
      BY DEF RankInv
    <2>3. QED
      BY <2>1, <2>2 DEF ConfigRow, Orderly, Chosen
  <1>2. PICK on \in Tables(Symbols, DOMAIN Readings) :
           \A s \in DOMAIN e : Graded(e[s]) /\ LeftBy(on, b, s, e[s])
    BY DEF RankInv, Orderly, Judged, ConfigHere
  <1>3. ASSUME NEW k \in DOMAIN rows
        PROVE  /\ k[2] = c /\ k[1] \in DOMAIN e /\ rows[k].by = run[r].by /\ rows[k].body = b
               /\ rows[k].passed = e[k[1]].passed /\ rows[k].score = e[k[1]].score
               /\ rows[k].on = e[k[1]].on
    <2>1. k \in (DOMAIN e) \X {c}
      BY DEF NewRows
    <2>2. rows[k] = [passed |-> e[k[1]].passed, score |-> e[k[1]].score, on |-> e[k[1]].on,
                     body |-> b, born |-> run[r].configs[c].born, by |-> run[r].by]
      BY <2>1 DEF NewRows
    <2>3. QED
      BY <2>1, <2>2
  <1> HIDE DEF rows, b, e, c
  <1>4. ASSUME NEW k \in DOMAIN rows
        PROVE  Graded(rows[k]) /\ rows[k].body = b /\ LeftBy(on, b, k[1], rows[k])
    <2>1. Graded(e[k[1]]) /\ LeftBy(on, b, k[1], e[k[1]])
      BY <1>2, <1>3
    <2>2. QED
      BY <1>3, <2>1 DEF Graded, LeftBy
  <1>5. ASSUME NEW k \in DOMAIN rows PROVE Ranked(rows, k[2], rows[k].by)
    <2>1. \A l \in Group(rows, k[2], rows[k].by) :
             rows[l].body = b /\ LeftBy(on, b, l[1], rows[l])
      BY <1>4 DEF Group
    <2>2. QED
      BY <1>1, <1>2, <2>1 DEF Ranked
  <1>6. AllRanked(rows)
    BY <1>4, <1>5 DEF AllRanked
  <1>7. QED
    BY <1>3, <1>6 DEF rows, c

LEMMA PersistRank ==
    ASSUME IInv, RankInv, NEW r \in Runs, Persist(r)
    PROVE  RankInv'
  <1> DEFINE c == ConfigHere(r)
             rows == NewRows(r)
             rest == Restricted(run[r].configs, DOMAIN run[r].configs \ {c})
             pc == IF DOMAIN rest = {} THEN "finish" ELSE "evaluate"
             laid == Upsert(run[r].rows, rows)
             rec == [run[r] EXCEPT !.pc = pc, !.configs = rest, !.evaluations = Empty,
                                   !.rows = laid]
  <1>1. /\ run[r].pc = "persist" /\ Active(r) /\ UNCHANGED <<config, results, started>>
    BY DEF Persist, Active, db, history
  <1>2. Goes(r, rec)
    BY DEF Persist, NewRows
  <1>3. /\ AllRanked(rows) /\ \A k \in DOMAIN rows : k[2] = c /\ rows[k].by = run[r].by
    BY <1>1, NewRowsRanked
  <1>4. /\ run[r] \in RunType /\ Orderly(run[r]) /\ c \in DOMAIN run[r].configs
    BY <1>1, Mine, HereIsConfig DEF RankInv
  <1>5. /\ DOMAIN rest = DOMAIN run[r].configs \ {c}
        /\ \A d \in DOMAIN rest : rest[d] = run[r].configs[d]
    BY DEF Restricted
  <1>6. /\ DOMAIN laid = DOMAIN run[r].rows \cup DOMAIN rows
        /\ \A k \in DOMAIN rows : laid[k] = rows[k]
        /\ \A k \in DOMAIN run[r].rows \ DOMAIN rows : laid[k] = run[r].rows[k]
    BY UpsertRows
  <1>7. /\ AllRanked(run[r].rows)
        /\ \A k \in DOMAIN run[r].rows :
              run[r].rows[k].by = run[r].by /\ k[2] \notin DOMAIN run[r].configs
        /\ \A d \in DOMAIN run[r].configs : Accepted(run[r].configs[d].body)
    BY <1>4 DEF Orderly, Done, Chosen
  <1> HIDE DEF rows, rest, c
  <1>8. AllRanked(laid)
    <2>1. \A k \in DOMAIN run[r].rows, l \in DOMAIN rows :
             ~(k[2] = l[2] /\ run[r].rows[k].by = rows[l].by)
      BY <1>3, <1>4, <1>7
    <2>2. QED
      BY <1>3, <1>7, <2>1, AllRankedOver
  <1> HIDE DEF laid
  <1>9. /\ rec.pc = pc /\ rec.by = run[r].by /\ rec.configs = rest /\ rec.rows = laid
        /\ pc \in {"finish", "evaluate"}
    <2>1. pc \in {"finish", "evaluate"}
      OBVIOUS
    <2> HIDE DEF pc
    <2>2. QED
      BY <1>4, <2>1 DEF RunType
  <1> HIDE DEF rec, pc
  <1>10. Chosen(rec)
    BY <1>5, <1>7, <1>9 DEF Chosen
  <1>11. ASSUME NEW k \in DOMAIN rec.rows
         PROVE  rec.rows[k].by = rec.by /\ k[2] \notin DOMAIN rec.configs
    <2>1. CASE k \in DOMAIN rows
      BY <1>3, <1>5, <1>6, <1>9, <2>1
    <2>2. CASE k \in DOMAIN run[r].rows \ DOMAIN rows
      BY <1>5, <1>6, <1>7, <1>9, <2>2
    <2>3. QED
      BY <1>6, <1>9, <2>1, <2>2
  <1>12. Done(rec) /\ Judged(rec)
    BY <1>8, <1>9, <1>11 DEF Done, Judged
  <1>13. QED
    BY <1>1, <1>2, <1>9, <1>10, <1>12, RankGoes DEF Orderly

\* A run's number is its own, so its rows join no other run's group.
LEMMA CommitRank ==
    ASSUME IInv, RankInv, NEW r \in Runs, Active(r), Commit(r),
           UNCHANGED <<config, started>>
    PROVE  RankInv'
  <1>1. /\ results' = Upsert(results, run[r].rows) /\ run'[r] = Idle
        /\ \A q \in Runs \ {r} : run'[q] = run[q]
    BY DEF IInv, Typed, Commit, Goes
  <1>2. /\ AllRanked(results) /\ AllRanked(run[r].rows)
        /\ \A k \in DOMAIN run[r].rows : run[r].rows[k].by = run[r].by
        /\ run[r].by <= started
        /\ \A k \in DOMAIN results : results[k].by # run[r].by /\ results[k].by <= started
        /\ \A q \in Runs : Active(q) /\ run[q].by = run[r].by => q = r
    BY DEF RankInv, Orderly, Done, Numbered
  <1>3. AllRanked(results')
    <2>1. \A k \in DOMAIN results, l \in DOMAIN run[r].rows :
             ~(k[2] = l[2] /\ results[k].by = run[r].rows[l].by)
      BY <1>2
    <2>2. QED
      BY <1>1, <1>2, <2>1, AllRankedOver
  <1>4. \A k \in DOMAIN results' :
           \/ results'[k].by = run[r].by
           \/ k \in DOMAIN results /\ results'[k] = results[k]
    <2> DEFINE U == Upsert(results, run[r].rows)
    <2>1. /\ DOMAIN U = DOMAIN results \cup DOMAIN run[r].rows
          /\ \A k \in DOMAIN run[r].rows : U[k] = run[r].rows[k]
          /\ \A k \in DOMAIN results \ DOMAIN run[r].rows : U[k] = results[k]
      BY UpsertRows
    <2>2. results' = U
      BY <1>1
    <2> HIDE DEF U
    <2>3. QED
      BY <1>2, <2>1, <2>2
  <1>5. \A k \in DOMAIN results' : results'[k].by <= started
    BY <1>2, <1>4
  <1>6. ASSUME NEW q \in Runs PROVE Orderly(run'[q]) /\ Numbered(q, started, results)'
    <2>1. CASE q = r
      BY <1>1, <2>1, IdleOrderly DEF Numbered, Active
    <2>2. CASE q # r
      <3>1. Orderly(run'[q]) /\ run'[q] = run[q] /\ Numbered(q, started, results)
        BY <1>1, <2>2 DEF RankInv
      <3>2. SUFFICES ASSUME Active(q)' PROVE Numbered(q, started, results)'
        BY <3>1 DEF Numbered
      <3>3. /\ run[q].by <= started /\ run[q].by # run[r].by
            /\ \A k \in DOMAIN results : results[k].by # run[q].by
            /\ \A p \in Runs : Active(p) /\ run[p].by = run[q].by => p = q
        BY <1>2, <2>2, <3>1, <3>2 DEF Active, Numbered
      <3>4. \A k \in DOMAIN results' : results'[k].by # run[q].by
        BY <1>4, <3>3
      <3>5. \A p \in Runs : Active(p)' /\ run'[p].by = run[q].by => p = q
        BY <1>1, <3>3, IdleOrderly DEF Active
      <3>6. QED
        BY <3>1, <3>3, <3>4, <3>5 DEF Numbered
    <2>3. QED
      BY <2>1, <2>2
  <1>7. QED
    BY <1>3, <1>5, <1>6 DEF RankInv

LEMMA CrashRank ==
    ASSUME RankInv, Crash
    PROVE  RankInv'
  <1>1. UNCHANGED <<config, results, started>> /\ run' = [r \in Runs |-> Idle]
    BY DEF Crash, db
  <1>2. \A r \in Runs : Orderly(run'[r]) /\ Numbered(r, started, results)'
    BY <1>1, IdleOrderly DEF Numbered, Active
  <1>3. QED
    BY <1>1, <1>2 DEF RankInv

LEMMA NextRank == IInv /\ RankInv /\ [Next]_vars => RankInv'
  <1> SUFFICES ASSUME IInv, RankInv, [Next]_vars PROVE RankInv'
    OBVIOUS
  <1>1. CASE \E b \in DOMAIN Bodies : \E active \in BOOLEAN :
               CreateConfig(b, active) \/ \E c \in DOMAIN config : ReplaceConfig(c, b, active)
    BY <1>1, CreateConfigRank, ReplaceConfigRank
  <1>2. ASSUME NEW d \in Clients,
               \/ \E c \in DOMAIN config, cascade \in BOOLEAN : CheckDelete(d, c, cascade)
               \/ DeleteConfig(d) \/ DeleteFails(d)
        PROVE  RankInv'
    <2>1. CASE UNCHANGED <<config, results, run, started>>
      BY <2>1, RankEdit DEF RankInv
    <2>2. QED
      BY <1>2, <2>1, DeleteConfigRank DEF CheckDelete, DeleteFails, db, history
  <1>3. CASE \E s \in Symbols : PatchTicker(s) \/ \E i \in DOMAIN Readings : Ingest(s, i)
    BY <1>3, MarketRank
  <1>4. ASSUME NEW r \in Runs, StartScreener(r) \/ StartScan(r) PROVE RankInv'
    BY <1>4, StartRank DEF StartScreener, StartScan
  <1>5. ASSUME NEW r \in Runs, LoadConfigs(r) PROVE RankInv'
    BY <1>5, LoadConfigsRank
  <1>6. ASSUME NEW r \in Runs, LoadTickers(r) PROVE RankInv'
    BY <1>6, LoadTickersRank
  <1>7. ASSUME NEW r \in Runs, EvaluateConfig(r) PROVE RankInv'
    BY <1>7, EvaluateConfigRank
  <1>8. ASSUME NEW r \in Runs, Persist(r) PROVE RankInv'
    BY <1>8, PersistRank
  <1>9. ASSUME NEW r \in Runs, Finish(r) \/ Fail(r) PROVE RankInv'
    <2>1. Active(r) /\ Commit(r) /\ UNCHANGED <<config, started>>
      BY <1>9 DEF Finish, Fail, history, Active
    <2>2. QED
      BY <2>1, CommitRank
  <1>10. CASE Crash
    BY <1>10, CrashRank
  <1>11. CASE UNCHANGED vars
    <2>1. UNCHANGED <<config, results, run, started>>
      BY <1>11 DEF vars, db, history
    <2>2. QED
      BY <2>1 DEF RankInv, Numbered, Active
  <1>12. QED
    BY <1>1, <1>2, <1>3, <1>4, <1>5, <1>6, <1>7, <1>8, <1>9, <1>10, <1>11 DEF Next

LEMMA RankAlways == Spec => [](IInv /\ RankInv)
  <1>1. Init => IInv /\ RankInv
    BY InitInv, InitRank
  <1>2. IInv /\ RankInv /\ [Next]_vars => (IInv /\ RankInv)'
    BY NextInv, NextRank
  <1>3. QED
    BY <1>1, <1>2, PTL DEF Spec

\* A row says which side of the cap its symbol came to lie on.
LEMMA RowTellsCap ==
    ASSUME NEW on, NEW b, NEW s, NEW row, LeftBy(on, b, s, row), Bodies[b].sector_max # Null
    PROVE  /\ s \in DOMAIN Firsts(on, b)
           /\ Firsts(on, b)[s] = Evaluation[row.on][s][b]
           /\ row.passed =>
                 /\ Firsts(on, b)[s].passed
                 /\ ~(Cardinality(Before(Firsts(on, b), s)) >= Bodies[b].sector_max)
           /\ ~row.passed /\ Firsts(on, b)[s].passed =>
                 Cardinality(Before(Firsts(on, b), s)) >= Bodies[b].sector_max
  <1>1. s \in DOMAIN Firsts(on, b) /\ Firsts(on, b)[s] = Evaluation[row.on][s][b]
    BY DEF LeftBy, Firsts
  <1> DEFINE e == Firsts(on, b)
             cap == Bodies[b].sector_max
  <1>2. row.passed = (e[s].passed /\ s \notin Dropped(e, cap))
    BY DEF LeftBy
  <1> HIDE DEF e
  <1>3. s \in Dropped(e, cap) <=> s \in DOMAIN e /\ e[s].passed /\ Cardinality(Before(e, s)) >= cap
    BY DEF Dropped, Before
  <1>4. QED
    BY <1>1, <1>2, <1>3 DEF e

LEMMA FirstsRankable ==
    ASSUME NEW on \in Tables(Symbols, DOMAIN Readings), NEW b \in DOMAIN Bodies, Accepted(b)
    PROVE  Rankable(Firsts(on, b))
  <1>1. DOMAIN on \in SUBSET Symbols /\ \A s \in DOMAIN on : on[s] \in DOMAIN Readings
    BY TableFacts
  <1>2. IsFiniteSet(DOMAIN on)
    BY <1>1, ScreenerAssumption, FS_Subset
  <1>3. DOMAIN Firsts(on, b) = DOMAIN on
    BY DEF Firsts
  <1>4. ASSUME NEW s \in DOMAIN on PROVE Firsts(on, b)[s].score \in Int \cup {Null}
    <2>1. Graded(Evaluation[on[s]][s][b])
      BY <1>1, EvaluationGraded
    <2>2. Firsts(on, b)[s] = Evaluation[on[s]][s][b]
      BY DEF Firsts
    <2>3. QED
      BY <2>1, <2>2 DEF Graded, Percents
  <1>5. QED
    BY <1>1, <1>2, <1>3, <1>4, ScreenerAssumption DEF Rankable

\* What is left of a group keeps to the cap, and to the order it cuts.
LEMMA GroupKeepsBest ==
    ASSUME IInv, RankInv, NEW k \in DOMAIN results, NEW cap,
           cap = Bodies[results[k].body].sector_max, cap # Null,
           NEW peers,
           peers = {s \in Symbols :
                      /\ <<s, k[2]>> \in DOMAIN results /\ results[<<s, k[2]>>].by = results[k].by
                      /\ Bucket(s) = Bucket(k[1]) /\ First(<<s, k[2]>>).passed},
           NEW kept, kept = {s \in peers : results[<<s, k[2]>>].passed}
    PROVE  /\ Cardinality(kept) <= cap
           /\ \A s \in kept, t \in peers \ kept :
                 First(<<t, k[2]>>).score # Null =>
                    First(<<s, k[2]>>).score # Null /\ First(<<s, k[2]>>).score >= First(<<t, k[2]>>).score
  <1> DEFINE c == k[2]
             n == results[k].by
             G == Group(results, c, n)
  <1>1. PICK on \in Tables(Symbols, DOMAIN Readings), b \in DOMAIN Bodies :
           Accepted(b) /\ \A l \in G : results[l].body = b /\ LeftBy(on, b, l[1], results[l])
    BY DEF RankInv, AllRanked, Ranked
  <1>2. results[k].body = b /\ cap = Bodies[b].sector_max
    BY <1>1 DEF Group
  <1>3. cap \in Nat
    BY <1>1, <1>2, ScreenerAssumption DEF Accepted
  <1> DEFINE e == Firsts(on, b)
  <1>4. Rankable(e)
    BY <1>1, FirstsRankable
  <1>5. ASSUME NEW s \in peers
        PROVE  /\ s \in DOMAIN e /\ First(<<s, c>>) = e[s] /\ e[s].passed /\ Bucket(s) = Bucket(k[1])
               /\ results[<<s, c>>].passed => ~(Cardinality(Before(e, s)) >= cap)
               /\ ~results[<<s, c>>].passed => Cardinality(Before(e, s)) >= cap
    <2> DEFINE l == <<s, c>>
    <2>1. l \in G /\ l[1] = s /\ First(l).passed /\ Bucket(s) = Bucket(k[1])
      BY DEF Group
    <2>2. results[l].body = b /\ LeftBy(on, b, s, results[l])
      BY <1>1, <2>1
    <2>3. First(l) = Evaluation[results[l].on][s][b]
      BY <2>1, <2>2 DEF First
    <2> HIDE DEF l
    <2>4. /\ s \in DOMAIN e /\ e[s] = Evaluation[results[l].on][s][b]
          /\ results[l].passed => ~(Cardinality(Before(e, s)) >= Bodies[b].sector_max)
          /\ ~results[l].passed /\ e[s].passed => Cardinality(Before(e, s)) >= Bodies[b].sector_max
      BY <1>2, <2>2, RowTellsCap
    <2>5. First(l) = e[s] /\ e[s].passed
      BY <2>1, <2>3, <2>4
    <2>6. QED
      BY <1>2, <2>1, <2>4, <2>5 DEF l
  <1> HIDE DEF e, G, n, c
  <1>6. kept \in SUBSET Kept(e, Bucket(k[1]), cap)
    BY <1>5 DEF Kept, c
  <1>7. /\ IsFiniteSet(Kept(e, Bucket(k[1]), cap))
        /\ Cardinality(Kept(e, Bucket(k[1]), cap)) <= cap
    BY <1>3, <1>4, KeptAtMost
  <1>8. IsFiniteSet(kept) /\ Cardinality(kept) <= Cardinality(Kept(e, Bucket(k[1]), cap))
    BY <1>6, <1>7, FS_Subset
  <1>9. Cardinality(kept) <= cap
    <2>1. Cardinality(kept) \in Nat /\ Cardinality(Kept(e, Bucket(k[1]), cap)) \in Nat
      BY <1>7, <1>8, FS_CardinalityType
    <2>2. QED
      BY <1>3, <1>7, <1>8, <2>1
  <1>10. ASSUME NEW s \in kept, NEW t \in peers \ kept
         PROVE  First(<<t, c>>).score # Null =>
                   First(<<s, c>>).score # Null /\ First(<<s, c>>).score >= First(<<t, c>>).score
    <2>1. s \in peers /\ results[<<s, c>>].passed /\ t \in peers /\ ~results[<<t, c>>].passed
      BY DEF c
    <2>2. /\ s \in DOMAIN e /\ t \in DOMAIN e /\ e[t].passed /\ Bucket(s) = Bucket(t)
          /\ ~(Cardinality(Before(e, s)) >= cap) /\ Cardinality(Before(e, t)) >= cap
          /\ First(<<s, c>>) = e[s] /\ First(<<t, c>>) = e[t]
      BY <1>5, <2>1
    <2>3. e[t].score # Null => e[s].score # Null /\ e[s].score >= e[t].score
      BY <1>3, <1>4, <2>2, KeptBest
    <2>4. QED
      BY <2>2, <2>3
  <1>11. QED
    BY <1>9, <1>10 DEF c

\* Whatever runs overlap, overwrite each other's rows, fail and are cut off: what a run
\* has left of a configuration keeps to the cap of every sector, and the cap drops none
\* for one that scored lower.
THEOREM SectorKeepsBest == Spec => []BestOfSector
  <1>1. IInv /\ RankInv => BestOfSector
    <2> SUFFICES ASSUME IInv, RankInv PROVE BestOfSector
      OBVIOUS
    <2>1. ASSUME NEW k \in DOMAIN results
          PROVE
            LET cap == Bodies[results[k].body].sector_max
                peers == {s \in Symbols :
                            /\ <<s, k[2]>> \in DOMAIN results /\ results[<<s, k[2]>>].by = results[k].by
                            /\ Bucket(s) = Bucket(k[1]) /\ First(<<s, k[2]>>).passed}
                firsts == [s \in peers |-> First(<<s, k[2]>>)]
                kept == {s \in peers : results[<<s, k[2]>>].passed}
            IN  cap # Null =>
                  /\ Cardinality(kept) <= cap
                  /\ \A s \in kept, t \in peers \ kept :
                        firsts[t].score # Null => firsts[s].score # Null /\ firsts[s].score >= firsts[t].score
      <3> DEFINE cap == Bodies[results[k].body].sector_max
                 peers == {s \in Symbols :
                             /\ <<s, k[2]>> \in DOMAIN results /\ results[<<s, k[2]>>].by = results[k].by
                             /\ Bucket(s) = Bucket(k[1]) /\ First(<<s, k[2]>>).passed}
                 firsts == [s \in peers |-> First(<<s, k[2]>>)]
                 kept == {s \in peers : results[<<s, k[2]>>].passed}
      <3>a. SUFFICES ASSUME cap # Null PROVE Cardinality(kept) <= cap /\ \A s \in kept, t \in peers \ kept :
                firsts[t].score # Null => firsts[s].score # Null /\ firsts[s].score >= firsts[t].score
        OBVIOUS
      <3>e. /\ peers = {s \in Symbols :
                            /\ <<s, k[2]>> \in DOMAIN results /\ results[<<s, k[2]>>].by = results[k].by
                            /\ Bucket(s) = Bucket(k[1]) /\ First(<<s, k[2]>>).passed}
            /\ kept = {s \in peers : results[<<s, k[2]>>].passed}
            /\ cap = Bodies[results[k].body].sector_max
        OBVIOUS
      <3>2. kept \in SUBSET peers
        OBVIOUS
      <3> HIDE DEF peers, kept, cap
      <3>1. /\ Cardinality(kept) <= cap
            /\ \A s \in kept, t \in peers \ kept :
                  First(<<t, k[2]>>).score # Null =>
                     First(<<s, k[2]>>).score # Null /\ First(<<s, k[2]>>).score >= First(<<t, k[2]>>).score
        BY <3>a, <3>e, GroupKeepsBest
      <3>3. ASSUME NEW s \in kept, NEW t \in peers \ kept
            PROVE  firsts[t].score # Null => firsts[s].score # Null /\ firsts[s].score >= firsts[t].score
        <4>1. s \in peers /\ t \in peers
          BY <3>2
        <4>2. firsts[s] = First(<<s, k[2]>>) /\ firsts[t] = First(<<t, k[2]>>)
          BY <4>1
        <4> HIDE DEF firsts
        <4>3. QED
          BY <3>1, <4>2
      <3> HIDE DEF firsts
      <3>4. QED
        BY <3>1, <3>3 DEF peers, kept, firsts, cap
    <2>2. QED
      BY <2>1, Zenon DEF BestOfSector
  <1>2. QED
    BY <1>1, RankAlways, PTL

-----------------------------------------------------------------------------
(* Rows and their configurations *)

\* The configuration born b may have the id c still, or the run n knows better.
Known(C, X, c, b, n) == <<b, n>> \in X \/ (c \in DOMAIN C /\ C[c].born = b)
Sound(C, X, T) == \A k \in DOMAIN T : Known(C, X, k[2], T[k].born, T[k].by)
Remembered(C, X, rec) ==
    /\ \A c \in DOMAIN rec.configs : Known(C, X, c, rec.configs[c].born, rec.by)
    /\ Sound(C, X, rec.rows)

RequestRow == [id : 0 .. MaxId, refers : BOOLEAN, runs : SUBSET Nat, since : Nat]

\* The runs q has met by the time n runs have been started; a request that has
\* counted no results has met whoever has written some since.
MetBy(q, n) == q.runs \cup (q.since + 1 .. n)
Watches(q, n, T) ==
    /\ q.runs \subseteq 1 .. n /\ q.since <= n
    /\ \A r \in Runs : Active(r) => run[r].by \in MetBy(q, n)
    /\ ~q.refers => \A k \in DOMAIN T : k[2] = q.id => T[k].by \in MetBy(q, n)

StrayInv ==
    /\ request \in [Clients -> RequestRow]
    /\ Sound(config, strays, results)
    /\ \A r \in Runs : Remembered(config, strays, run[r])
    /\ \A r \in Runs : run[r] = Idle \/ (Active(r) /\ run[r].by >= 1)
    /\ \A d \in Clients : Watches(request[d], started, results)

\* What a run knows of a configuration that stays where it is, it goes on knowing.
LEMMA KnownOn ==
    ASSUME NEW C, NEW X, NEW D, NEW Y, X \subseteq Y,
           \A c \in DOMAIN C : c \in DOMAIN D /\ D[c].born = C[c].born
    PROVE  /\ \A T : Sound(C, X, T) => Sound(D, Y, T)
           /\ \A rec : Remembered(C, X, rec) => Remembered(D, Y, rec)
  <1>1. \A c, b, n : Known(C, X, c, b, n) => Known(D, Y, c, b, n)
    BY DEF Known
  <1>2. ASSUME NEW T, Sound(C, X, T) PROVE Sound(D, Y, T)
    BY <1>1, <1>2 DEF Sound
  <1>3. ASSUME NEW rec, Remembered(C, X, rec) PROVE Remembered(D, Y, rec)
    BY <1>1, <1>2, <1>3 DEF Remembered
  <1>4. QED
    BY <1>2, <1>3

LEMMA SoundOver ==
    ASSUME NEW C, NEW X, NEW f, NEW g, Sound(C, X, f), Sound(C, X, g)
    PROVE  Sound(C, X, Upsert(f, g))
  <1>1. DOMAIN Upsert(f, g) = DOMAIN f \cup DOMAIN g
    BY UpsertRows
  <1>2. \A k \in DOMAIN g : Upsert(f, g)[k] = g[k]
    BY UpsertRows
  <1>3. \A k \in DOMAIN f \ DOMAIN g : Upsert(f, g)[k] = f[k]
    BY UpsertRows
  <1>4. QED
    BY <1>1, <1>2, <1>3 DEF Sound

LEMMA IdleRemembers == \A C, X : Remembered(C, X, Idle)
  <1>1. DOMAIN Idle.configs = {} /\ DOMAIN Idle.rows = {}
    BY EmptyTable DEF Idle
  <1>2. QED
    BY <1>1 DEF Remembered, Sound

\* Who does not wait with a DELETE has met every run.
LEMMA NoRequestWatches ==
    ASSUME NEW n \in Nat, NEW T \in Tables(Symbols \X Ids, ResultRow),
           \A r \in Runs : Active(r) => run[r].by \in 1 .. n
    PROVE  NoRequest \in RequestRow /\ Watches(NoRequest, n, T)
  <1>1. NoRequest \in RequestRow
    BY ScreenerAssumption DEF NoRequest, RequestRow
  <1>2. MetBy(NoRequest, n) = 1 .. n /\ NoRequest.runs \subseteq 1 .. n /\ NoRequest.since <= n
    BY DEF NoRequest, MetBy
  <1>3. \A k \in DOMAIN T : k[2] # NoRequest.id
    <2>1. DOMAIN T \subseteq Symbols \X Ids
      BY TableFacts
    <2>2. NoRequest.id = 0 /\ 0 \notin Ids
      BY DEF NoRequest, Ids
    <2>3. QED
      BY <2>1, <2>2
  <1>4. QED
    BY <1>1, <1>2, <1>3 DEF Watches

LEMMA ActiveNumbers ==
    ASSUME IInv, RankInv, StrayInv, NEW r \in Runs, Active(r)
    PROVE  run[r].by \in 1 .. started
  <1>1. run[r].by \in Nat /\ started \in Nat
    BY Mine DEF RunType
  <1>2. run[r].by >= 1 /\ run[r].by <= started
    BY IdleOrderly DEF StrayInv, RankInv, Numbered, Active
  <1>3. QED
    BY <1>1, <1>2

LEMMA InitStray == Init => StrayInv
  <1> SUFFICES ASSUME Init PROVE StrayInv
    OBVIOUS
  <1>1. Typed /\ results = Empty /\ started = 0 /\ \A r \in Runs : run[r] = Idle
    BY InitInv DEF Init, IInv
  <1>2. DOMAIN results = {} /\ \A r \in Runs : ~Active(r)
    BY <1>1, EmptyTable, IdleOrderly DEF Active
  <1>3. NoRequest \in RequestRow /\ Watches(NoRequest, started, results)
    BY <1>1, <1>2, NoRequestWatches DEF Typed
  <1>4. /\ request \in [Clients -> RequestRow]
        /\ \A d \in Clients : request[d] = NoRequest
    BY <1>3 DEF Init
  <1>5. QED
    BY <1>1, <1>2, <1>3, <1>4, IdleRemembers DEF StrayInv, Sound

\* The other endpoints and the market leave results and requests alone.
LEMMA StrayEdit ==
    ASSUME StrayInv, UNCHANGED <<results, run, started, request, strays>>,
           \A c \in DOMAIN config : c \in DOMAIN config' /\ config'[c].born = config[c].born
    PROVE  StrayInv'
  <1>1. Sound(config', strays', results) /\ \A r \in Runs : Remembered(config', strays', run[r])
    BY KnownOn DEF StrayInv
  <1>2. \A d \in Clients : Watches(request[d], started, results)'
    <2>1. \A r \in Runs : Active(r)' = Active(r) /\ run'[r] = run[r]
      BY DEF Active
    <2>2. QED
      BY <2>1 DEF StrayInv, Watches
  <1>3. QED
    BY <1>1, <1>2 DEF StrayInv, Active

LEMMA CreateConfigStray ==
    ASSUME IInv, StrayInv, NEW b \in DOMAIN Bodies, NEW active \in BOOLEAN, CreateConfig(b, active)
    PROVE  StrayInv'
  <1>1. UNCHANGED <<results, run, started, request, strays>>
    BY DEF CreateConfig
  <1> DEFINE new == [c \in {NextId} |-> [body |-> b, active |-> active, born |-> edits']]
  <1>2. config' = Upsert(config, new) /\ NextId \notin DOMAIN config
    BY NextIdFree, ScreenerAssumption DEF CreateConfig, IInv, Typed, Ids
  <1>3. DOMAIN new = {NextId}
    OBVIOUS
  <1> HIDE DEF new
  <1>4. \A c \in DOMAIN config : c \in DOMAIN config' /\ config'[c] = config[c]
    <2>1. DOMAIN Upsert(config, new) = DOMAIN config \cup DOMAIN new
      BY UpsertRows
    <2>2. \A c \in DOMAIN config \ DOMAIN new : Upsert(config, new)[c] = config[c]
      BY UpsertRows
    <2>3. QED
      BY <1>2, <1>3, <2>1, <2>2
  <1>5. QED
    BY <1>1, <1>4, StrayEdit

LEMMA ReplaceConfigStray ==
    ASSUME IInv, StrayInv, NEW c \in DOMAIN config, NEW b \in DOMAIN Bodies,
           NEW active \in BOOLEAN, ReplaceConfig(c, b, active)
    PROVE  StrayInv'
  <1>1. UNCHANGED <<results, run, started, request, strays>>
        /\ config' = [config EXCEPT ![c].body = b, ![c].active = active]
    BY DEF ReplaceConfig
  <1>2. config \in [DOMAIN config -> ConfigRow]
    BY TableFacts DEF IInv, Typed
  <1>3. config' = [config EXCEPT ![c] = [@ EXCEPT !.body = b, !.active = active]]
    BY <1>1, <1>2 DEF ConfigRow
  <1>4. DOMAIN config' = DOMAIN config /\ \A d \in DOMAIN config : config'[d].born = config[d].born
    BY <1>2, <1>3 DEF ConfigRow
  <1>5. QED
    BY <1>1, <1>4, StrayEdit

LEMMA MarketStray ==
    ASSUME StrayInv, NEW s \in Symbols, PatchTicker(s) \/ \E i \in DOMAIN Readings : Ingest(s, i)
    PROVE  StrayInv'
  <1>1. UNCHANGED <<config, results, run, started, request, strays>>
    BY DEF PatchTicker, Ingest
  <1>2. QED
    BY <1>1, StrayEdit

\* A client that comes to wait, or no longer waits.
LEMMA RequestMoves ==
    ASSUME StrayInv, NEW d \in Clients, NEW q \in RequestRow, Watches(q, started, results),
           request' = [request EXCEPT ![d] = q],
           UNCHANGED <<config, results, run, started, strays>>
    PROVE  StrayInv'
  <1>1. request' \in [Clients -> RequestRow] /\ request'[d] = q
        /\ \A e \in Clients \ {d} : request'[e] = request[e]
    BY DEF StrayInv
  <1>2. \A e \in Clients : Watches(request'[e], started, results)
    BY <1>1 DEF StrayInv
  <1>3. \A r \in Runs : Active(r)' = Active(r)
    BY DEF Active
  <1>4. \A e \in Clients : Watches(request[e], started, results)'
    BY <1>2, <1>3 DEF Watches
  <1>5. QED
    BY <1>1, <1>3, <1>4 DEF StrayInv

LEMMA CheckDeleteStray ==
    ASSUME IInv, RankInv, StrayInv, NEW d \in Clients, NEW c \in DOMAIN config,
           NEW cascade \in BOOLEAN, CheckDelete(d, c, cascade)
    PROVE  StrayInv'
  <1> DEFINE underway == {run[r].by : r \in {p \in Runs : Active(p)}}
             q == [id |-> c, refers |-> ResultsOf(c) # {}, runs |-> underway, since |-> started]
  <1>1. request' = [request EXCEPT ![d] = q] /\ UNCHANGED <<config, results, run, started, strays>>
    BY DEF CheckDelete, db
  <1>2. underway \subseteq 1 .. started
    BY ActiveNumbers
  <1>3. c \in Ids /\ started \in Nat
    BY TableFacts DEF IInv, Typed
  <1>4. \A r \in Runs : Active(r) => run[r].by \in underway
    OBVIOUS
  <1>5. ~q.refers => \A k \in DOMAIN results : k[2] # q.id
    BY DEF ResultsOf
  <1>6. q.id = c /\ q.runs = underway /\ q.since = started
    OBVIOUS
  <1>7. q \in RequestRow
    BY <1>2, <1>3 DEF RequestRow, Ids
  <1> HIDE DEF q, underway
  <1>8. Watches(q, started, results)
    BY <1>2, <1>3, <1>4, <1>5, <1>6 DEF Watches, MetBy
  <1>9. QED
    BY <1>1, <1>7, <1>8, RequestMoves

LEMMA DeleteFailsStray ==
    ASSUME IInv, RankInv, StrayInv, NEW d \in Clients, DeleteFails(d)
    PROVE  StrayInv'
  <1>1. request' = [request EXCEPT ![d] = NoRequest] /\ UNCHANGED <<config, results, run, started, strays>>
    BY DEF DeleteFails, Answered, db, history
  <1>2. NoRequest \in RequestRow /\ Watches(NoRequest, started, results)
    BY ActiveNumbers, NoRequestWatches DEF IInv, Typed
  <1>3. QED
    BY <1>1, <1>2, RequestMoves

\* The runs under way remember a deleted configuration, but the request has met
\* them; and if it leaves results behind, it has met the runs that wrote them.
LEMMA DeleteConfigStray ==
    ASSUME IInv, RankInv, StrayInv, NEW d \in Clients, DeleteConfig(d)
    PROVE  StrayInv'
  <1> DEFINE c == request[d].id
             met == MetBy(request[d], started)
             left == DOMAIN config \ {c}
             kept == DOMAIN results \ ResultsOf(c)
             gone == {<<config[x].born, n>> : x \in DOMAIN config \cap {c}, n \in met}
  <1>1. /\ config' = Restricted(config, left) /\ strays' = strays \cup gone
        /\ request' = [request EXCEPT ![d] = NoRequest] /\ UNCHANGED <<run, started>>
        /\ \/ results' = Restricted(results, kept)
           \/ ~request[d].refers /\ results' = results
    BY DEF DeleteConfig, Answered, Met, MetBy
  <1>2. /\ Sound(config, strays, results) /\ Watches(request[d], started, results)
        /\ \A r \in Runs : Remembered(config, strays, run[r])
        /\ request \in [Clients -> RequestRow]
    BY DEF StrayInv
  <1>3. DOMAIN config' = left /\ \A x \in left : config'[x] = config[x]
    BY <1>1, RestrictedRows
  <1>4. ASSUME NEW x, NEW b, NEW n, Known(config, strays, x, b, n), x # c \/ n \in met
        PROVE  Known(config', strays', x, b, n)
    <2>1. CASE <<b, n>> \in strays
      BY <1>1, <2>1 DEF Known
    <2>2. CASE x \in DOMAIN config /\ config[x].born = b /\ x # c
      BY <1>3, <2>2 DEF Known
    <2>3. CASE x \in DOMAIN config /\ config[x].born = b /\ x = c
      <3>1. n \in met /\ x \in DOMAIN config \cap {c}
        BY <1>4, <2>3
      <3>2. <<b, n>> \in gone
        BY <2>3, <3>1
      <3>3. QED
        BY <1>1, <3>2 DEF Known
    <2>4. QED
      BY <1>4, <2>1, <2>2, <2>3 DEF Known
  <1>5. \A k \in DOMAIN results' :
           /\ k \in DOMAIN results /\ results'[k] = results[k]
           /\ k[2] # c \/ results[k].by \in met
    <2>1. CASE results' = Restricted(results, kept)
      <3>1. DOMAIN results' = kept /\ \A k \in kept : results'[k] = results[k]
        BY <2>1, RestrictedRows
      <3>2. QED
        BY <3>1 DEF ResultsOf
    <2>2. CASE ~request[d].refers /\ results' = results
      BY <1>2, <2>2 DEF Watches
    <2>3. QED
      BY <1>1, <2>1, <2>2
  <1> HIDE DEF c, gone, left, kept
  <1>6. Sound(config', strays', results')
    BY <1>2, <1>4, <1>5 DEF Sound
  <1>7. ASSUME NEW r \in Runs PROVE Remembered(config', strays', run'[r])
    <2>1. CASE ~Active(r)
      <3>1. run'[r] = Idle
        BY <1>1, <2>1 DEF StrayInv
      <3>2. QED
        BY <3>1, IdleRemembers
    <2>2. CASE Active(r)
      <3>1. run[r].by \in met
        BY <1>2, <2>2 DEF Watches
      <3>2. \A k \in DOMAIN run[r].rows : run[r].rows[k].by = run[r].by
        BY DEF RankInv, Orderly, Done
      <3>3. QED
        BY <1>1, <1>2, <1>4, <3>1, <3>2 DEF Remembered, Sound
    <2>3. QED
      BY <2>1, <2>2
  <1>8. request' \in [Clients -> RequestRow]
        /\ \A e \in Clients : request'[e] \in {request[e], NoRequest}
    <2>1. NoRequest \in RequestRow
      BY ActiveNumbers, NoRequestWatches DEF IInv, Typed
    <2>2. QED
      BY <1>1, <1>2, <2>1
  <1>9. ASSUME NEW e \in Clients PROVE Watches(request[e], started, results)'
    <2>1. Watches(request[e], started, results) /\ Watches(NoRequest, started, results)
      BY ActiveNumbers, NoRequestWatches DEF IInv, Typed, StrayInv
    <2>2. Watches(request'[e], started, results)
      BY <1>8, <2>1
    <2>3. QED
      BY <1>1, <1>5, <2>2 DEF Watches, Active
  <1>10. QED
    BY <1>1, <1>6, <1>7, <1>8, <1>9 DEF StrayInv, Active

\* A run that goes on and commits nothing.
LEMMA StrayGoes ==
    ASSUME IInv, StrayInv, NEW r \in Runs, Active(r), NEW rec, Goes(r, rec),
           UNCHANGED <<config, results, started, request, strays>>,
           rec.by = run[r].by, rec.pc # "idle", Remembered(config, strays, rec)
    PROVE  StrayInv'
  <1>1. run'[r] = rec /\ \A q \in Runs \ {r} : run'[q] = run[q]
    BY DEF IInv, Typed, Goes
  <1>2. run[r].by >= 1
    BY IdleOrderly DEF StrayInv, Active
  <1>3. \A q \in Runs : run'[q] = Idle \/ (Active(q)' /\ run'[q].by >= 1)
    BY <1>1, <1>2 DEF StrayInv, Active
  <1>4. \A q \in Runs : Active(q)' => Active(q) /\ run'[q].by = run[q].by
    BY <1>1 DEF Active
  <1>5. \A d \in Clients : Watches(request[d], started, results)'
    BY <1>4 DEF StrayInv, Watches
  <1>6. request' \in [Clients -> RequestRow] /\ Sound(config', strays', results')
        /\ config' = config /\ strays' = strays
    BY DEF StrayInv
  <1>7. ASSUME NEW q \in Runs PROVE Remembered(config', strays', run'[q])
    BY <1>1, <1>6 DEF StrayInv
  <1>8. QED
    BY <1>3, <1>5, <1>6, <1>7 DEF StrayInv

\* Whoever waits has met a run that starts.
LEMMA StartStray ==
    ASSUME IInv, StrayInv, NEW r \in Runs, NEW scan \in BOOLEAN, Start(r, scan)
    PROVE  StrayInv'
  <1> DEFINE rec == [Idle EXCEPT !.pc = "configs", !.by = started + 1, !.scan = scan]
  <1>1. /\ rec.pc = "configs" /\ rec.by = started + 1
        /\ rec.configs = Idle.configs /\ rec.rows = Idle.rows
    BY DEF Idle
  <1>2. /\ run' = [run EXCEPT ![r] = rec] /\ started' = started + 1 /\ started \in Nat
        /\ UNCHANGED <<config, results, request, strays>> /\ run \in [Runs -> RunType]
    BY DEF IInv, Typed, Start, Goes, db
  <1> HIDE DEF rec
  <1>3. run'[r] = rec /\ \A q \in Runs \ {r} : run'[q] = run[q]
    BY <1>2
  <1>4. Remembered(config, strays, rec)
    <2>1. DOMAIN rec.configs = {} /\ DOMAIN rec.rows = {}
      BY <1>1, EmptyTable DEF Idle
    <2>2. QED
      BY <2>1 DEF Remembered, Sound
  <1>5. \A q \in Runs : run'[q] = Idle \/ (Active(q)' /\ run'[q].by >= 1)
    BY <1>1, <1>2, <1>3 DEF StrayInv, Active
  <1>6. ASSUME NEW d \in Clients PROVE Watches(request[d], started, results)'
    <2> DEFINE w == request[d]
    <2>1. Watches(w, started, results) /\ w.since \in Nat
      BY DEF StrayInv, RequestRow
    <2>2. w.runs \subseteq 1 .. started' /\ w.since <= started'
      BY <1>2, <2>1 DEF Watches
    <2>3. MetBy(w, started) \subseteq MetBy(w, started') /\ started + 1 \in MetBy(w, started')
      BY <1>2, <2>1 DEF Watches, MetBy
    <2>4. \A q \in Runs : Active(q)' => run'[q].by \in MetBy(w, started')
      BY <1>1, <1>3, <2>1, <2>3 DEF Watches, Active
    <2>5. ~w.refers => \A k \in DOMAIN results : k[2] = w.id => results[k].by \in MetBy(w, started')
      BY <2>1, <2>3 DEF Watches
    <2>6. QED
      BY <1>2, <2>2, <2>4, <2>5 DEF Watches
  <1>7. request' \in [Clients -> RequestRow] /\ Sound(config', strays', results')
        /\ config' = config /\ strays' = strays
    BY <1>2 DEF StrayInv
  <1>8. ASSUME NEW q \in Runs PROVE Remembered(config', strays', run'[q])
    BY <1>3, <1>4, <1>7 DEF StrayInv
  <1>9. QED
    BY <1>5, <1>6, <1>7, <1>8 DEF StrayInv

LEMMA LoadConfigsStray ==
    ASSUME IInv, StrayInv, NEW r \in Runs, LoadConfigs(r)
    PROVE  StrayInv'
  <1> DEFINE active == {c \in DOMAIN config : config[c].active}
             some == Restricted(config, active)
             stay == [run[r] EXCEPT !.pc = "finish"]
             go == [run[r] EXCEPT !.pc = "tickers", !.configs = some]
  <1>1. /\ Active(r) /\ UNCHANGED <<config, results, started, request, strays>>
        /\ Goes(r, stay) \/ Goes(r, go)
    BY DEF LoadConfigs, Active, db, history
  <1>2. run[r] \in RunType /\ Remembered(config, strays, run[r])
    BY Mine DEF StrayInv
  <1>3. \A c \in DOMAIN some : c \in DOMAIN config /\ some[c] = config[c]
    BY RestrictedRows
  <1> HIDE DEF some
  <1>4. /\ stay.pc # "idle" /\ stay.by = run[r].by
        /\ stay.configs = run[r].configs /\ stay.rows = run[r].rows
        /\ go.pc # "idle" /\ go.by = run[r].by /\ go.configs = some /\ go.rows = run[r].rows
    BY <1>2 DEF RunType
  <1> HIDE DEF stay, go
  <1>5. Remembered(config, strays, stay) /\ Remembered(config, strays, go)
    BY <1>2, <1>3, <1>4 DEF Remembered, Known
  <1>6. QED
    BY <1>1, <1>4, <1>5, StrayGoes

LEMMA LoadTickersStray ==
    ASSUME IInv, StrayInv, NEW r \in Runs, LoadTickers(r)
    PROVE  StrayInv'
  <1> DEFINE symbols == IF run[r].scan THEN Universe ELSE Symbols \ hidden
             pc == IF symbols = {} THEN "finish" ELSE "evaluate"
             rec == [run[r] EXCEPT !.pc = pc, !.symbols = symbols]
  <1>1. /\ Active(r) /\ UNCHANGED <<config, results, started, request, strays>> /\ Goes(r, rec)
    BY DEF LoadTickers, Active, db, history
  <1>2. run[r] \in RunType /\ Remembered(config, strays, run[r])
    BY Mine DEF StrayInv
  <1>3. pc # "idle"
    OBVIOUS
  <1> HIDE DEF pc, symbols
  <1>4. /\ rec.pc # "idle" /\ rec.by = run[r].by
        /\ rec.configs = run[r].configs /\ rec.rows = run[r].rows
    BY <1>2, <1>3 DEF RunType
  <1> HIDE DEF rec
  <1>5. Remembered(config, strays, rec)
    BY <1>2, <1>4 DEF Remembered
  <1>6. QED
    BY <1>1, <1>4, <1>5, StrayGoes

LEMMA EvaluateConfigStray ==
    ASSUME IInv, StrayInv, NEW r \in Runs, EvaluateConfig(r)
    PROVE  StrayInv'
  <1>1. PICK evaluations :
           Goes(r, [run[r] EXCEPT !.pc = "persist", !.evaluations = evaluations])
    BY DEF EvaluateConfig
  <1> DEFINE rec == [run[r] EXCEPT !.pc = "persist", !.evaluations = evaluations]
  <1>2. Active(r) /\ UNCHANGED <<config, results, started, request, strays>>
    BY DEF EvaluateConfig, Active, db, history
  <1>3. run[r] \in RunType /\ Remembered(config, strays, run[r])
    BY Mine DEF StrayInv
  <1>4. /\ rec.pc # "idle" /\ rec.by = run[r].by
        /\ rec.configs = run[r].configs /\ rec.rows = run[r].rows
    BY <1>3 DEF RunType
  <1>5. Goes(r, rec)
    BY <1>1
  <1> HIDE DEF rec
  <1>6. Remembered(config, strays, rec)
    BY <1>3, <1>4 DEF Remembered
  <1>7. QED
    BY <1>2, <1>4, <1>5, <1>6, StrayGoes

LEMMA PersistStray ==
    ASSUME IInv, StrayInv, NEW r \in Runs, Persist(r)
    PROVE  StrayInv'
  <1> DEFINE c == ConfigHere(r)
             rows == NewRows(r)
             rest == Restricted(run[r].configs, DOMAIN run[r].configs \ {c})
             pc == IF DOMAIN rest = {} THEN "finish" ELSE "evaluate"
             laid == Upsert(run[r].rows, rows)
             rec == [run[r] EXCEPT !.pc = pc, !.configs = rest, !.evaluations = Empty,
                                   !.rows = laid]
  <1>1. /\ run[r].pc = "persist" /\ Active(r)
        /\ UNCHANGED <<config, results, started, request, strays>>
    BY DEF Persist, Active, db, history
  <1>2. Goes(r, rec)
    BY DEF Persist, NewRows
  <1>3. run[r] \in RunType /\ Remembered(config, strays, run[r]) /\ c \in DOMAIN run[r].configs
    BY <1>1, Mine, HereIsConfig DEF StrayInv
  <1>4. Sound(config, strays, rows)
    <2>1. \A k \in DOMAIN rows :
             /\ k[2] = c
             /\ rows[k].born = run[r].configs[c].born /\ rows[k].by = run[r].by
      BY DEF NewRows
    <2>2. QED
      BY <1>3, <2>1 DEF Remembered, Sound
  <1>5. /\ DOMAIN rest = DOMAIN run[r].configs \ {c}
        /\ \A d \in DOMAIN rest : rest[d] = run[r].configs[d]
    BY RestrictedRows
  <1> HIDE DEF rows, rest, c
  <1>6. Sound(config, strays, laid)
    BY <1>3, <1>4, SoundOver DEF Remembered
  <1> HIDE DEF laid
  <1>7. pc # "idle"
    OBVIOUS
  <1> HIDE DEF pc
  <1>8. rec.pc # "idle" /\ rec.by = run[r].by /\ rec.configs = rest /\ rec.rows = laid
    BY <1>3, <1>7 DEF RunType
  <1> HIDE DEF rec
  <1>9. Remembered(config, strays, rec)
    BY <1>3, <1>5, <1>6, <1>8 DEF Remembered
  <1>10. QED
    BY <1>1, <1>2, <1>8, <1>9, StrayGoes

\* The rows of a commit are known to the run, and every request has met it.
LEMMA CommitStray ==
    ASSUME IInv, RankInv, StrayInv, NEW r \in Runs, Active(r), Commit(r),
           UNCHANGED <<config, started, request, strays>>
    PROVE  StrayInv'
  <1>1. /\ results' = Upsert(results, run[r].rows) /\ run'[r] = Idle
        /\ \A q \in Runs \ {r} : run'[q] = run[q]
    BY DEF IInv, Typed, Commit, Goes
  <1>2. \A k \in DOMAIN run[r].rows : run[r].rows[k].by = run[r].by
    BY DEF RankInv, Orderly, Done
  <1>3. Sound(config, strays, results) /\ Remembered(config, strays, run[r])
    BY DEF StrayInv
  <1>4. Sound(config', strays', results')
    BY <1>1, <1>3, SoundOver DEF Remembered
  <1>5. \A q \in Runs : run'[q] = Idle \/ (Active(q)' /\ run'[q].by >= 1)
    BY <1>1 DEF StrayInv, Active
  <1>6. ASSUME NEW k \in DOMAIN results'
        PROVE  \/ results'[k].by = run[r].by
               \/ k \in DOMAIN results /\ results'[k] = results[k]
    <2> DEFINE U == Upsert(results, run[r].rows)
    <2>1. /\ DOMAIN U = DOMAIN results \cup DOMAIN run[r].rows
          /\ \A l \in DOMAIN run[r].rows : U[l] = run[r].rows[l]
          /\ \A l \in DOMAIN results \ DOMAIN run[r].rows : U[l] = results[l]
      BY UpsertRows
    <2>2. results' = U
      BY <1>1
    <2> HIDE DEF U
    <2>3. QED
      BY <1>2, <2>1, <2>2
  <1>7. ASSUME NEW d \in Clients PROVE Watches(request[d], started, results)'
    <2>1. Watches(request[d], started, results)
      BY DEF StrayInv
    <2>2. \A q \in Runs : Active(q)' => Active(q) /\ run'[q].by = run[q].by
      BY <1>1, IdleOrderly DEF Active
    <2>3. run[r].by \in MetBy(request[d], started)
      BY <2>1 DEF Watches
    <2>4. QED
      BY <1>6, <2>1, <2>2, <2>3 DEF Watches
  <1>8. request' \in [Clients -> RequestRow]
    BY DEF StrayInv
  <1>9. ASSUME NEW q \in Runs PROVE Remembered(config', strays', run'[q])
    BY <1>1, IdleRemembers DEF StrayInv
  <1>10. QED
    BY <1>4, <1>5, <1>7, <1>8, <1>9 DEF StrayInv

LEMMA CrashStray ==
    ASSUME IInv, StrayInv, Crash
    PROVE  StrayInv'
  <1>1. /\ UNCHANGED <<config, results, started, strays>>
        /\ run' = [r \in Runs |-> Idle] /\ request' = [d \in Clients |-> NoRequest]
    BY DEF Crash, db
  <1>2. \A r \in Runs : ~Active(r)'
    BY <1>1, IdleOrderly DEF Active
  <1>3. NoRequest \in RequestRow /\ \A n \in Nat : NoRequest.since <= n /\ MetBy(NoRequest, n) = 1 .. n
    BY ScreenerAssumption DEF NoRequest, RequestRow, MetBy
  <1>4. \A k \in DOMAIN results : k[2] # NoRequest.id
    <2>1. DOMAIN results \subseteq Symbols \X Ids
      BY TableFacts DEF IInv, Typed
    <2>2. NoRequest.id = 0 /\ 0 \notin Ids
      BY DEF NoRequest, Ids
    <2>3. QED
      BY <2>1, <2>2
  <1>5. ASSUME NEW d \in Clients PROVE Watches(request[d], started, results)'
    <2>1. request'[d] = NoRequest /\ started \in Nat /\ NoRequest.runs = {}
      BY <1>1 DEF IInv, Typed, NoRequest
    <2>2. QED
      BY <1>1, <1>2, <1>3, <1>4, <2>1 DEF Watches
  <1>6. request' \in [Clients -> RequestRow]
    BY <1>1, <1>3
  <1>7. QED
    BY <1>1, <1>5, <1>6, IdleRemembers DEF StrayInv

LEMMA NextStray == IInv /\ RankInv /\ StrayInv /\ [Next]_vars => StrayInv'
  <1> SUFFICES ASSUME IInv, RankInv, StrayInv, [Next]_vars PROVE StrayInv'
    OBVIOUS
  <1>1. CASE \E b \in DOMAIN Bodies : \E active \in BOOLEAN :
               CreateConfig(b, active) \/ \E c \in DOMAIN config : ReplaceConfig(c, b, active)
    BY <1>1, CreateConfigStray, ReplaceConfigStray
  <1>2. ASSUME NEW d \in Clients,
               \/ \E c \in DOMAIN config, cascade \in BOOLEAN : CheckDelete(d, c, cascade)
               \/ DeleteConfig(d) \/ DeleteFails(d)
        PROVE  StrayInv'
    BY <1>2, CheckDeleteStray, DeleteConfigStray, DeleteFailsStray
  <1>3. CASE \E s \in Symbols : PatchTicker(s) \/ \E i \in DOMAIN Readings : Ingest(s, i)
    BY <1>3, MarketStray
  <1>4. ASSUME NEW r \in Runs, StartScreener(r) \/ StartScan(r) PROVE StrayInv'
    BY <1>4, StartStray DEF StartScreener, StartScan
  <1>5. ASSUME NEW r \in Runs, LoadConfigs(r) \/ LoadTickers(r) \/ EvaluateConfig(r) \/ Persist(r)
        PROVE  StrayInv'
    BY <1>5, LoadConfigsStray, LoadTickersStray, EvaluateConfigStray, PersistStray
  <1>6. ASSUME NEW r \in Runs, Finish(r) \/ Fail(r) PROVE StrayInv'
    <2>1. Active(r) /\ Commit(r) /\ UNCHANGED <<config, started, request, strays>>
      BY <1>6 DEF Finish, Fail, history, Active
    <2>2. QED
      BY <2>1, CommitStray
  <1>7. CASE Crash
    BY <1>7, CrashStray
  <1>8. CASE UNCHANGED vars
    <2>1. UNCHANGED <<config, results, run, started, request, strays>>
      BY <1>8 DEF vars, db, history
    <2>2. QED
      BY <2>1, StrayEdit
  <1>9. QED
    BY <1>1, <1>2, <1>3, <1>4, <1>5, <1>6, <1>7, <1>8 DEF Next

LEMMA StrayAlways == Spec => [](IInv /\ RankInv /\ StrayInv)
  <1>1. Init => StrayInv
    BY InitStray
  <1>2. IInv /\ RankInv /\ StrayInv /\ [Next]_vars => StrayInv'
    BY NextStray
  <1>3. QED
    BY <1>1, <1>2, RankAlways, PTL DEF Spec

\* However many requests and runs there are, and in whatever order they read, wait
\* and commit: a row of the day is under the configuration it was evaluated for,
\* unless its run was under way at some time of the request that deleted that one.
THEOREM ResultsBelong == Spec => []NoStrayResults
  <1>1. StrayInv => NoStrayResults
    BY DEF StrayInv, Sound, Known, NoStrayResults
  <1>2. QED
    BY <1>1, StrayAlways, PTL

\* A score is a percentage, and only a passing row has one; rows are under ids that
\* were handed out; and a run that has written holds the lock.
THEOREM TypeCorrect == Spec => []TypeOK
  <1>1. IInv /\ RankInv /\ StrayInv => TypeOK
    <2> SUFFICES ASSUME IInv, RankInv, StrayInv PROVE TypeOK
      OBVIOUS
    <2>1. /\ data \in [Symbols -> DOMAIN Readings] /\ hidden \subseteq Symbols
          /\ config \in Tables(Ids, ConfigRow)
          /\ results \in Tables(Symbols \X Ids, ResultRow)
          /\ lock \in Runs \cup {Free} /\ run \in [Runs -> RunType]
      BY DEF IInv, Typed
    <2>2. DOMAIN config \subseteq 1 .. MaxId
      BY <2>1, TableFacts DEF Ids
    <2>3. /\ DOMAIN results \subseteq Symbols \X (1 .. MaxId)
          /\ \A k \in DOMAIN results : results[k] \in ResultRow
      <3>1. /\ DOMAIN results \subseteq Symbols \X Ids
            /\ \A k \in DOMAIN results : results[k] \in ResultRow
        BY <2>1, TableFacts
      <3>2. QED
        BY <3>1 DEF Ids
    <2>4. ASSUME NEW k \in DOMAIN results
          PROVE  /\ [passed |-> results[k].passed, score |-> results[k].score] \in Row
                 /\ ~results[k].passed => results[k].score = Null
      <3>1. results[k].passed \in BOOLEAN
        BY <2>3 DEF ResultRow
      <3>2. /\ results[k].score \in 0 .. 100 \cup {Null}
            /\ ~results[k].passed => results[k].score = Null
        BY DEF RankInv, AllRanked, Graded, Percents
      <3>3. QED
        BY <3>1, <3>2 DEF Row
    <2>5. ASSUME NEW r \in Runs, run[r].rows # Empty PROVE lock = r
      <3>1. run[r].rows \in Tables(Symbols \X Ids, ResultRow)
        BY <2>1 DEF RunType
      <3>2. run[r].rows = [x \in DOMAIN run[r].rows |-> run[r].rows[x]]
        BY <3>1, TableFacts
      <3>3. DOMAIN run[r].rows # {}
        BY <2>5, <3>2 DEF Empty
      <3>4. QED
        BY <3>3 DEF IInv, Fit
    <2>6. ASSUME NEW d \in Clients
          PROVE  request[d].id \in 0 .. MaxId /\ Met(d) \subseteq 1 .. started
      <3>1. /\ request[d].id \in 0 .. MaxId /\ request[d].since \in Nat
            /\ Watches(request[d], started, results) /\ started \in Nat
        BY DEF StrayInv, RequestRow, IInv, Typed
      <3>2. QED
        BY <3>1 DEF Watches, Met
    <2>7. QED
      BY <2>1, <2>2, <2>3, <2>4, <2>5, <2>6 DEF TypeOK
  <1>2. QED
    BY <1>1, StrayAlways, PTL

=============================================================================
