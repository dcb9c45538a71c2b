------------------------------ MODULE DailyCycle ------------------------------
(***************************************************************************)
(* The scheduled day: the cron table, the calendar gates of its jobs and   *)
(* what one job leaves for the next, over a few days with a weekend.       *)
(*                                                                         *)
(* Job times are fixed: nothing makes a job wait for the one before it,    *)
(* and a manual trigger adds a second thread without looking whether the   *)
(* job is running.  The cron table and the market's hours are constants,   *)
(* in the order of a day.  The time zone of the deployment decides from    *)
(* which time of the evening on the UTC date is tomorrow's.                *)
(***************************************************************************)
EXTENDS Integers, Sequences, FiniteSetsExt, Functions

CONSTANTS
    LastDay,     \* calendar days are 1 .. LastDay; day 0 was a session
    Weekdays,    \* mon-fri
    Sessions,    \* days the exchange opens
    Schedule,    \* the jobs of a day, in the order of their times
    Rth,         \* positions of Schedule within regular trading hours
    Closed,      \* positions of Schedule after the close
    UtcTomorrow, \* positions of Schedule at which the UTC date is tomorrow's
    Symbols,     \* the active watchlist
    MaxAgeDays,  \* check_bar_freshness's max_age_days
    Threads,     \* threads that may run a job
    MaxManual,   \* bound on what people do: manual triggers and switches of the preferences
    MaxFaults    \* bound on the failures, crashes and missed times

Jobs == {"morning_digest", "evening_digest", "intraday_pulse", "evening_pipeline",
         "screener_pipeline", "options_history"}

ASSUME CalendarAssumption ==
    /\ LastDay \in Nat \ {0}
    /\ Weekdays \subseteq Nat \ {0} /\ Sessions \subseteq Weekdays
    /\ Schedule \in Seq(Jobs)
    /\ Rth \cup Closed \cup UtcTomorrow \subseteq DOMAIN Schedule
    /\ {MaxAgeDays, MaxManual, MaxFaults} \subseteq Nat

VARIABLES
    day, slot,  \* the date in market time; the last position of Schedule that is due
    run,        \* run[r]: [job, pc, manual, todo]
    bars,       \* dates in bars_daily
    screened,   \* screened[d]: [bars, passed], the screener_results of d
    historical, \* dates in options_historical
    sent,       \* sent[<<type, subject, as_of>>]: rows in alerts, of this day or later
    listed,     \* listed[day]: screener_hits of the morning digest of the day
    muted,      \* the alert types are disabled
    manuals, faults, \* history: bounded events so far
    overlapped, \* history: jobs of which two runs were under way together today
    raced,      \* history: a morning digest and a pulse were under way together today
    ingested    \* history: an evening pipeline has committed today

tables == <<bars, screened, historical, sent, listed>>
history == <<manuals, faults, overlapped, raced, ingested>>
day_vars == <<day, slot, run, tables, muted, history>>

IdleThread == [job |-> "none", pc |-> "idle", manual |-> FALSE, todo |-> {}]
Nothing == [k \in {} |-> 0]

DayInit ==
    /\ day = 1 /\ slot = 0
    /\ run = [r \in Threads |-> IdleThread]
    /\ bars = {0}
    /\ \E S \in SUBSET Symbols : screened = [d \in {0} |-> [bars |-> 0, passed |-> S]]
    /\ historical = {}
    /\ sent = Nothing /\ listed = Nothing
    /\ muted = FALSE
    /\ manuals = 0 /\ faults = 0
    /\ overlapped = {} /\ raced = FALSE /\ ingested = FALSE

Trading(d) == d \in Sessions \cup {0}
UtcDate == IF slot \in UtcTomorrow THEN day + 1 ELSE day
Put(f, k, v) == [x \in DOMAIN f \cup {k} |-> IF x = k THEN v ELSE f[x]]

Running(r) == run[r].pc # "idle"
Fault == faults < MaxFaults /\ faults' = faults + 1

-----------------------------------------------------------------------------
(* The scheduler *)

Begin(job, manual) ==
    LET others == {q \in Threads : Running(q)}
        at == {run[q].job : q \in others} \cup {job}
    IN  \E r \in Threads \ others :
          /\ r = CHOOSE q \in Threads : ~Running(q)
          /\ run' = [run EXCEPT ![r] = [IdleThread EXCEPT !.job = job, !.pc = "begin",
                                                          !.manual = manual]]
          /\ overlapped' = overlapped \cup {j \in {job} : \E q \in others : run[q].job = j}
          /\ raced' = (raced \/ {"morning_digest", "intraday_pulse"} \subseteq at)

\* A cron trigger names the weekdays, the pulse's interval trigger does not;
\* max_instances keeps the scheduler from a second run of its own.
Fires(job) ==
    /\ job = "intraday_pulse" \/ day \in Weekdays
    /\ ~\E q \in Threads : run[q].job = job /\ Running(q) /\ ~run[q].manual

\* The next time of the day comes; a time that passes while the application is
\* down is gone.
Tick ==
    /\ slot < Len(Schedule)
    /\ slot' = slot + 1
    /\ \/ Fires(Schedule[slot']) /\ Begin(Schedule[slot'], FALSE) /\ UNCHANGED faults
       \/ ~Fires(Schedule[slot']) /\ UNCHANGED <<run, faults, overlapped, raced>>
       \/ Fires(Schedule[slot']) /\ Fault /\ UNCHANGED <<run, overlapped, raced>>
    /\ UNCHANGED <<day, tables, muted, manuals, ingested>>

\* POST /api/system/jobs/{name}/run
TriggerJob(job) ==
    /\ manuals < MaxManual
    /\ manuals' = manuals + 1
    /\ Begin(job, TRUE)
    /\ UNCHANGED <<day, slot, tables, muted, faults, ingested>>

\* A run lasts minutes; none is under way at midnight.  Rows of alerts with an
\* earlier as_of are not looked up again, so the model forgets them.
NextDay ==
    /\ slot = Len(Schedule) /\ day < LastDay
    /\ \A r \in Threads : ~Running(r)
    /\ day' = day + 1 /\ slot' = 0
    /\ sent' = Restrict(sent, {k \in DOMAIN sent : k[3] > day})
    /\ listed' = Nothing
    /\ overlapped' = {} /\ raced' = FALSE /\ ingested' = FALSE
    /\ UNCHANGED <<run, bars, screened, historical, muted, manuals, faults>>

\* The alert types are disabled or enabled on the preferences page.
Mute ==
    /\ manuals < MaxManual
    /\ manuals' = manuals + 1
    /\ muted' = ~muted
    /\ UNCHANGED <<day, slot, run, tables, faults, overlapped, raced, ingested>>

-----------------------------------------------------------------------------
(* Steps of the jobs *)

At(r, job, pc) == run[r].job = job /\ run[r].pc = pc
GoesOn(r, pc) == run' = [run EXCEPT ![r].pc = pc]
EndsRun(r) == run' = [run EXCEPT ![r] = IdleThread]

Count(k) == IF k \in DOMAIN sent THEN sent[k] ELSE 0
\* The dispatcher writes the row unless the type is muted.
Dispatch(k) == sent' = IF muted THEN sent ELSE Put(sent, k, Count(k) + 1)

Fresh == bars # {} /\ day - Max(bars) <= MaxAgeDays

\* Mutant: the second look at the alerts table is left out.
SkipsIfClosed(job) == ~Trading(day) \/ ~Fresh

\* Calendar, duplicate and freshness gates of a digest.
Skips(job) == ~Trading(day) \/ Count(<<job, "all", day>>) > 0 \/ ~Fresh

CheckDigest(r) ==
    /\ \E job \in {"morning_digest", "evening_digest"} :
          At(r, job, "begin") /\ IF Skips(job) THEN EndsRun(r) ELSE GoesOn(r, "send")
    /\ UNCHANGED <<day, slot, tables, muted, history>>

\* The latest day that has a passing row.
Hits ==
    LET days == {d \in DOMAIN screened : d <= day /\ screened[d].passed # {}}
    IN  IF days = {} THEN {} ELSE screened[Max(days)].passed

MAX_HITS == 20

\* _screener_hits: the first rows, of which a symbol has one per configuration.
Listings == {S \in SUBSET Hits : Cardinality(S) <= MAX_HITS /\ (S = {} => Hits = {})}

SendDigest(r) ==
    /\ \E job \in {"morning_digest", "evening_digest"} :
          /\ At(r, job, "send")
          /\ Dispatch(<<job, "all", day>>)
          /\ \E S \in Listings :
                listed' = IF job = "morning_digest" /\ ~muted THEN Put(listed, day, S) ELSE listed
    /\ EndsRun(r)
    /\ UNCHANGED <<day, slot, bars, screened, historical, muted, history>>

\* Calendar, hours and quotes; any of the symbols may pass a configuration.
BeginPulse(r) ==
    /\ At(r, "intraday_pulse", "begin")
    /\ IF ~Trading(day) \/ slot \notin Rth THEN EndsRun(r)
       ELSE \E S \in SUBSET Symbols :
              IF S = {} THEN EndsRun(r) ELSE run' = [run EXCEPT ![r].pc = "check", ![r].todo = S]
    /\ UNCHANGED <<day, slot, tables, muted, history>>

\* On to the next symbol that passes, or to the end.
NextSymbol(r, s) ==
    IF run[r].todo = {s} THEN EndsRun(r)
    ELSE run' = [run EXCEPT ![r].pc = "check", ![r].todo = @ \ {s}]

Here(r) == CHOOSE s \in run[r].todo : TRUE

\* Mutant: the digest of the day is not looked up.
SuppressedByAlertOnly(s) == Count(<<"setup_triggered", s, day>>) > 0

Suppressed(s) ==
    \/ day \in DOMAIN listed /\ s \in listed[day]
    \/ Count(<<"setup_triggered", s, day>>) > 0

\* With two digests of the day, symbol_in_morning_digest raises instead.
CheckSetup(r) ==
    /\ At(r, "intraday_pulse", "check")
    /\ Count(<<"morning_digest", "all", day>>) <= 1
    /\ IF Suppressed(Here(r)) THEN NextSymbol(r, Here(r)) ELSE GoesOn(r, "send")
    /\ UNCHANGED <<day, slot, tables, muted, history>>

SendSetup(r) ==
    /\ At(r, "intraday_pulse", "send")
    /\ Dispatch(<<"setup_triggered", Here(r), day>>)
    /\ NextSymbol(r, Here(r))
    /\ UNCHANGED <<day, slot, bars, screened, historical, listed, muted, history>>

\* The pipeline asks the calendar about utcnow().date().
BeginEvening(r) ==
    /\ At(r, "evening_pipeline", "begin")
    /\ IF Trading(UtcDate) THEN GoesOn(r, "ingest") ELSE EndsRun(r)
    /\ UNCHANGED <<day, slot, tables, muted, history>>

\* Mutant: the session of the day is never over.
ClosedSessionsBefore == {d \in 0 .. day - 1 : Trading(d)}

\* Sessions whose close has elapsed.
ClosedSessions == {d \in 0 .. day : Trading(d) /\ (d = day => slot \in Closed)}

IngestBars(r) ==
    /\ At(r, "evening_pipeline", "ingest")
    /\ bars' = bars \cup ClosedSessions
    /\ ingested' = (ingested \/ slot \in Closed)
    /\ EndsRun(r)
    /\ UNCHANGED <<day, slot, screened, historical, sent, listed, muted, manuals, faults,
                   overlapped, raced>>

BeginScreener(r) ==
    /\ At(r, "screener_pipeline", "begin")
    /\ IF Trading(day) THEN GoesOn(r, "screen") ELSE EndsRun(r)
    /\ UNCHANGED <<day, slot, tables, muted, history>>

\* The latest bars there are, under the date of the day.
Screen(r) ==
    /\ At(r, "screener_pipeline", "screen")
    /\ \E S \in SUBSET Symbols :
          screened' = Put(screened, day, [bars |-> Max(bars), passed |-> S])
    /\ EndsRun(r)
    /\ UNCHANGED <<day, slot, bars, historical, sent, listed, muted, history>>

BeginHistory(r) ==
    /\ At(r, "options_history", "begin")
    /\ IF Trading(day - 1) THEN GoesOn(r, "fetch") ELSE EndsRun(r)
    /\ UNCHANGED <<day, slot, tables, muted, history>>

\* Mutant: the rows are kept without a close to place their strikes by.
FetchHistoryUnpriced(r) ==
    /\ At(r, "options_history", "fetch")
    /\ historical' = historical \cup {day - 1}
    /\ EndsRun(r)
    /\ UNCHANGED <<day, slot, bars, screened, sent, listed, muted, history>>

\* A day without a stored close has no strike window, so none of its rows is kept.
FetchHistory(r) ==
    /\ At(r, "options_history", "fetch")
    /\ historical' = historical \cup ({day - 1} \cap bars)
    /\ EndsRun(r)
    /\ UNCHANGED <<day, slot, bars, screened, sent, listed, muted, history>>

\* job_run records the failure and reports it once per job and UTC date.
Failure(r) ==
    LET k == <<"job_failed", run[r].job, UtcDate>>
    IN  /\ EndsRun(r)
        /\ IF Count(k) > 0 THEN UNCHANGED sent ELSE Dispatch(k)
        /\ UNCHANGED <<day, slot, bars, screened, historical, listed, muted, manuals,
                       overlapped, raced, ingested>>

Fail(r) ==
    /\ Running(r)
    /\ Fault
    /\ Failure(r)

\* MultipleResultsFound
PulseRaises(r) ==
    /\ At(r, "intraday_pulse", "check")
    /\ Count(<<"morning_digest", "all", day>>) > 1
    /\ Failure(r)
    /\ UNCHANGED faults

ProcessDies ==
    /\ \E r \in Threads : Running(r)
    /\ Fault
    /\ run' = [r \in Threads |-> IdleThread]
    /\ UNCHANGED <<day, slot, tables, muted, manuals, overlapped, raced, ingested>>

DayNext ==
    \/ Tick \/ NextDay \/ Mute \/ ProcessDies
    \/ \E job \in Jobs : TriggerJob(job)
    \/ \E r \in Threads :
          \/ CheckDigest(r) \/ SendDigest(r) \/ BeginPulse(r) \/ CheckSetup(r) \/ SendSetup(r)
          \/ BeginEvening(r) \/ IngestBars(r) \/ BeginScreener(r) \/ Screen(r)
          \/ BeginHistory(r) \/ FetchHistory(r) \/ Fail(r) \/ PulseRaises(r)

DaySpec == DayInit /\ [][DayNext]_day_vars

-----------------------------------------------------------------------------
(* Properties *)

\* Type correctness.
DayTypeOK ==
    /\ day \in 1 .. LastDay /\ slot \in 0 .. Len(Schedule)
    /\ bars \subseteq 0 .. day /\ \A d \in bars : Trading(d)
    /\ historical \subseteq bars \cap (0 .. day - 1)
    /\ DOMAIN screened \subseteq 0 .. day
    /\ \A d \in DOMAIN screened : screened[d].bars \in bars /\ screened[d].bars <= d
    /\ \A d \in DOMAIN listed : Count(<<"morning_digest", "all", d>>) > 0 /\ listed[d] \subseteq Symbols

\* The job whose runs write a row.
JobOf(k) == CASE k[1] = "setup_triggered" -> "intraday_pulse"
              [] k[1] = "job_failed"      -> k[2]
              [] OTHER                    -> k[1]

\* A digest goes out once a day and a setup once a symbol and day, through
\* triggers by hand, crashes, failures and mutings between the look at the alerts
\* table and the row, as long as no two runs of the job overlap; and what the
\* morning digest has listed no later pulse repeats.
AlertOnce ==
    [][\A k \in DOMAIN sent' :
          /\ 1 < sent'[k] => JobOf(k) \in overlapped'
          /\ k[1] = "setup_triggered" /\ sent'[k] > Count(k) /\ day \in DOMAIN listed =>
                k[2] \notin listed[day] \/ raced]_day_vars

\* When the day's pipeline has committed before it, the screener works on the
\* day's bars: a failure, a late run or a skipped evening is the only way to
\* results of today from yesterday's prices.
ScreenedOnClose ==
    [][\A r \in Threads : Screen(r) /\ ingested => screened'[day].bars = day]_day_vars

\* "Scheduled 30 min after evening_pipeline so bars/indicators/options are in place
\* before filters run" (scheduler/jobs/screener.py): a scheduled screener of a day
\* without failures finds the day's bars, if the pipeline is not still running.
BarsInPlace ==
    [][\A r \in Threads :
          /\ Screen(r) /\ faults = 0 /\ manuals = 0
          /\ \A q \in Threads : run[q].job # "evening_pipeline"
          => screened'[day].bars = day]_day_vars

\* "so the backtest's RealChainPricer keeps rolling forward without manual cron"
\* (scheduler/jobs/options_history.py): after the job of a weekday, every earlier
\* session with bars has its chains, if nothing has failed.
HistoryRollsForward ==
    [][\A r \in Threads :
          /\ At(r, "options_history", "begin") /\ run'[r].pc = "idle"
          /\ faults' = 0 /\ manuals = 0 /\ ~run[r].manual
          => \A d \in 1 .. day - 1 : Trading(d) /\ d \in bars => d \in historical]_day_vars

=============================================================================
