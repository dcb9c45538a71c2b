--------------------------- MODULE ScreenerFilters ---------------------------
(***************************************************************************)
(* The filter registry of the screener, and the evaluation of one symbol   *)
(* under one filter configuration.                                         *)
(*                                                                         *)
(* A reading holds what build_context gathers of the market for a symbol   *)
(* on a day, with Null for a column that is NULL; a profile is its tickers *)
(* row.  Prices and volatilities are integers, ratios and scores are       *)
(* percentages rounded down, an expiration is its distance in days.        *)
(***************************************************************************)
EXTENDS Integers, Sequences, FiniteSets, FiniteSetsExt, Functions

CONSTANT Null   \* None
ASSUME NullAssumption == Null \notin Int

\* Mutant: a filter without its data lets the symbol through.
IneligiblePasses == [eligible |-> TRUE, passed |-> TRUE, score |-> Null]

Ineligible == [eligible |-> FALSE, passed |-> FALSE, score |-> Null]
Gate(passed) == [eligible |-> TRUE, passed |-> passed, score |-> Null]
Scored(passed, score) == [eligible |-> TRUE, passed |-> passed, score |-> score]

AtMost(n, bound) == IF n > bound THEN bound ELSE n
Distance(a, b) == IF a > b THEN a - b ELSE b - a

-----------------------------------------------------------------------------
(* Trend and mean reversion *)

latest_close(r) == IF r.closes = <<>> THEN Null ELSE r.closes[Len(r.closes)]

\* Distance 0 .. threshold to score 100 .. 0.
Proximity(distance, threshold) ==
    IF threshold <= 0 THEN (IF distance <= 0 THEN 100 ELSE 0)
                      ELSE 100 - AtMost((100 * distance) \div threshold, 100)

NearEMA(close, ema, max_pct) ==
    IF Null \in {close, ema} \/ ema = 0 THEN Ineligible
    ELSE LET passed == 100 * Distance(close, ema) <= max_pct * ema
         IN  Scored(passed, IF passed THEN Proximity((100 * Distance(close, ema)) \div ema, max_pct) ELSE 0)

WeeklyAbove200EMA(close, ema) == IF Null \in {close, ema} THEN Ineligible ELSE Gate(close > ema)

RsiOversold(rsi, max_rsi) ==
    IF rsi = Null THEN Ineligible
    ELSE Scored(rsi < max_rsi, IF rsi < max_rsi THEN 100 - (100 * rsi) \div max_rsi ELSE 0)

BollingerLowerTouch(close, lower) == IF Null \in {close, lower} THEN Ineligible ELSE Gate(close <= lower)

NotFreefall(closes, min_return) ==
    LET prior == closes[Len(closes) - 5]
    IN  IF Len(closes) < 6 \/ prior = 0 THEN Ineligible
        ELSE Gate(100 * (closes[Len(closes)] - prior) > min_return * prior)

-----------------------------------------------------------------------------
(* Volatility *)

\* iv_rank_high and iv_percentile_high differ in the column only.
HighEnough(value, min) ==
    IF value = Null THEN Ineligible
    ELSE Scored(value >= min, IF value >= min THEN AtMost(value, 100) ELSE 0)

IvAboveHv(iv, hv, min_ratio) ==
    IF Null \in {iv, hv} \/ hv = 0 THEN Ineligible ELSE Gate(100 * iv >= min_ratio * hv)

-----------------------------------------------------------------------------
(* Liquidity: a chain without rows is no chain *)

Puts(chain) == {o \in chain : o.type = "put"}
Quoted(chain) == {o \in Puts(chain) : Null \notin {o.bid, o.ask} /\ o.bid + o.ask > 0}
Spread(o) == (200 * (o.ask - o.bid)) \div (o.bid + o.ask)

\* The upper median of the spreads.
IsMedian(o, quoted) ==
    LET half == Cardinality(quoted) \div 2
    IN  /\ Cardinality({p \in quoted : Spread(p) < Spread(o)}) <= half
        /\ Cardinality({p \in quoted : Spread(p) <= Spread(o)}) > half

OptionSpread(chain, max) ==
    IF Quoted(chain) = {} THEN Ineligible
    ELSE Gate(\E o \in Quoted(chain) : IsMedian(o, Quoted(chain)) /\ Spread(o) <= max)

Liquid(values, min) == IF values = {} THEN Ineligible ELSE Gate(\E v \in values : v >= min)
OptionOpenInterest(chain, min) == Liquid({o.open_interest : o \in Puts(chain)} \ {Null}, min)
OptionVolume(chain, min) == Liquid({o.volume : o \in Puts(chain)} \ {Null}, min)

-----------------------------------------------------------------------------
(* Event and risk *)

NoEarningsInWindow(earnings, days) == Gate(\A d \in earnings : d > days)
MinMarketCap(cap, min) == IF cap = Null THEN Ineligible ELSE Gate(cap >= min)
TierAllowed(tier, tiers) == IF tier = Null THEN Ineligible ELSE Gate(tier \in tiers)
SectorAllowed(sector, sectors) ==
    IF sectors = {} THEN Gate(TRUE)
    ELSE IF sector = Null THEN Ineligible ELSE Gate(sector \in sectors)

-----------------------------------------------------------------------------
(* Premium economics *)

Window(chain, p) ==
    {o \in Puts(chain) : o.delta # Null /\ o.dte \in p.min_dte .. p.max_dte}

\* Of two puts equally near to the target the chain's order decides; any will do here.
SelectStrike(chain, p) ==
    CHOOSE o \in Window(chain, p) :
        \A q \in Window(chain, p) :
            Distance(o.delta, p.delta_target) <= Distance(q.delta, p.delta_target)

PremiumEconomics(chain, p) ==
    IF Window(chain, p) = {} THEN Ineligible
    ELSE LET o == SelectStrike(chain, p)
             annual == (100 * 365 * (o.bid + o.ask)) \div (2 * o.strike * o.dte)
             min == p.min_annualized_return
         IN  IF Null \in {o.bid, o.ask} \/ o.bid <= 0 \/ o.ask <= 0 THEN Ineligible
             ELSE Scored(annual >= min, IF min > 0 THEN AtMost((50 * annual) \div min, 100) ELSE 0)

-----------------------------------------------------------------------------
(* The registry *)

Defaults ==
    [near_200ema |-> 3, near_50ema |-> 2, weekly_above_200ema |-> 0, rsi_oversold |-> 35,
     bb_lower_touch |-> 0, not_freefall |-> -10, iv_rank_high |-> 50, iv_percentile_high |-> 50,
     iv_above_hv |-> 120, option_spread_pct |-> 10, option_oi_min |-> 500, option_volume_min |-> 100,
     no_earnings_in_window |-> 45, min_market_cap |-> 5, tier_allowed |-> {1, 2}, sector_allowed |-> {},
     premium_economics |-> [min_dte |-> 30, max_dte |-> 45, delta_target |-> 30, min_annualized_return |-> 10]]

FilterIds == DOMAIN Defaults
ScoredIds == {"near_200ema", "near_50ema", "rsi_oversold", "iv_rank_high", "iv_percentile_high", "premium_economics"}

\* What the parameter schemas allow; two filters take no parameter.
Bounds ==
    [near_200ema |-> 0 .. 50, near_50ema |-> 0 .. 50, rsi_oversold |-> 0 .. 100, not_freefall |-> -100 .. 0,
     iv_rank_high |-> 0 .. 100, iv_percentile_high |-> 0 .. 100, iv_above_hv |-> Nat,
     option_spread_pct |-> 0 .. 100, option_oi_min |-> Nat, option_volume_min |-> Nat,
     no_earnings_in_window |-> 0 .. 365, min_market_cap |-> Nat, tier_allowed |-> SUBSET (1 .. 4),
     sector_allowed |-> SUBSET STRING,
     premium_economics |-> [min_dte : 1 .. 90, max_dte : 1 .. 180, delta_target : 5 .. 70,
                            min_annualized_return : 0 .. 200]]

\* A parameter the configuration leaves out has its default.
Params(body) == [f \in FilterIds |-> IF f \in DOMAIN body.params THEN body.params[f] ELSE Defaults[f]]

\* What every filter says of a reading r and a profile t.
Results(r, t, p) ==
    LET close == latest_close(r)
    IN  [near_200ema |-> NearEMA(close, r.ema_200, p.near_200ema),
         near_50ema |-> NearEMA(close, r.ema_50, p.near_50ema),
         weekly_above_200ema |-> WeeklyAbove200EMA(close, r.ema_200_weekly),
         rsi_oversold |-> RsiOversold(r.rsi_14, p.rsi_oversold),
         bb_lower_touch |-> BollingerLowerTouch(close, r.bb_lower),
         not_freefall |-> NotFreefall(r.closes, p.not_freefall),
         iv_rank_high |-> HighEnough(r.iv_rank, p.iv_rank_high),
         iv_percentile_high |-> HighEnough(r.iv_percentile, p.iv_percentile_high),
         iv_above_hv |-> IvAboveHv(r.iv_atm, r.hv_20, p.iv_above_hv),
         option_spread_pct |-> OptionSpread(r.chain, p.option_spread_pct),
         option_oi_min |-> OptionOpenInterest(r.chain, p.option_oi_min),
         option_volume_min |-> OptionVolume(r.chain, p.option_volume_min),
         no_earnings_in_window |-> NoEarningsInWindow(r.earnings, p.no_earnings_in_window),
         min_market_cap |-> MinMarketCap(t.market_cap, p.min_market_cap),
         tier_allowed |-> TierAllowed(t.tier, p.tier_allowed),
         sector_allowed |-> SectorAllowed(t.sector, p.sector_allowed),
         premium_economics |-> PremiumEconomics(r.chain, p.premium_economics)]

-----------------------------------------------------------------------------
(* One symbol under one configuration *)

\* The weighted mean over the filters that could be evaluated.
Score(results, body) ==
    LET counted == {f \in DOMAIN body.weights \cap body.filters :
                        results[f].eligible /\ results[f].score # Null}
        total == SumFunction([f \in counted |-> body.weights[f]])
    IN  IF total = 0 THEN Null
        ELSE SumFunction([f \in counted |-> body.weights[f] * results[f].score]) \div total

\* Mutant: a symbol that has failed keeps its score.
EvaluateScoresAll(r, t, body) ==
    LET results == Results(r, t, Params(body))
        passed == \A f \in body.required : results[f].eligible /\ results[f].passed
    IN  [passed |-> passed, score |-> Score(results, body)]

\* Every required filter must have data and pass.
Evaluate(r, t, body) ==
    LET results == Results(r, t, Params(body))
        passed == \A f \in body.required : results[f].eligible /\ results[f].passed
    IN  [passed |-> passed, score |-> IF passed THEN Score(results, body) ELSE Null]

=============================================================================
