----------------------------- MODULE MCDailyCycle -----------------------------
EXTENDS DailyCycle

\* The default times: 8:00, 17:30, 18:00, 18:30 and 19:00 in Los Angeles, which
\* put the morning digest between two pulses of the trading day.
MCSchedule ==
    <<"intraday_pulse", "morning_digest", "intraday_pulse",
      "evening_pipeline", "screener_pipeline", "evening_digest", "options_history">>
================================================================================
