------------------------------ MODULE MCScreener ------------------------------
EXTENDS Screener, TLC

Put(delta, bid, ask) ==
    [type |-> "put", delta |-> delta, dte |-> 35, strike |-> 90, bid |-> bid, ask |-> ask,
     open_interest |-> Null, volume |-> Null]

\* Nothing tells the clients apart.
ClientSymmetry == Permutations(Clients)

\* A full reading, and one that is oversold while its options are not known.
Plain == [closes |-> <<104, 103, 102, 103, 102, 101>>, ema_200 |-> 100, ema_50 |-> 100, ema_200_weekly |-> 90,
          rsi_14 |-> 34, bb_lower |-> 101, iv_rank |-> 60, iv_percentile |-> 60, iv_atm |-> 30, hv_20 |-> 20,
          earnings |-> {60}, chain |-> {Put(30, 2, 2), Put(45, 3, 4)}]
MCReadings == <<Plain, [Plain EXCEPT !.rsi_14 = 7, !.iv_rank = Null, !.chain = {}]>>

MCProfile == [s \in Symbols |-> [sector |-> Null, tier |-> 1, market_cap |-> 10]]

Body(name, required, optional, weights, params, sector_max) ==
    [name |-> name, filters |-> required \cup optional, required |-> required, weights |-> weights,
     params |-> params, sector_max |-> sector_max]
MCBodies ==
    <<Body("default", {"near_200ema", "bb_lower_touch", "not_freefall", "tier_allowed", "sector_allowed"},
           {"rsi_oversold", "iv_rank_high", "premium_economics"},
           [f \in {"rsi_oversold", "iv_rank_high", "premium_economics"} |-> 1], <<>>, 1),
      Body("premium", {"iv_rank_high", "option_spread_pct", "min_market_cap", "no_earnings_in_window", "iv_above_hv"},
           {"iv_percentile_high"}, [iv_percentile_high |-> 1], [option_spread_pct |-> 30], Null),
      \* Refused: an unscored filter has a weight, and a threshold is out of bounds.
      Body("wrong", {"rsi_oversold", "weekly_above_200ema"}, {}, [weekly_above_200ema |-> 1],
           [rsi_oversold |-> 101], Null)>>
===============================================================================
