# Formal model of Penny Pincher Pro

Penny Pincher Pro keeps the books of option-wheel positions, screens tickers for
candidates, alerts about both and backtests the strategy. It is one FastAPI process:
request threads, an APScheduler thread pool and an optional Telegram polling thread,
all over one SQLite file; a React front end talks to the API. Paths below are relative
to `src/backend/`.

## 1. Inventory

| Component | State | Operations | Hard behaviour |
|---|---|---|---|
| Position book (`positions/state_machine.py`, `api/positions.py`) | `positions`, `position_legs` | three openings, eight transitions, edit of a leg, deletion | long sequences of legal calls; rowids reused after a deletion; no foreign-key enforcement; requests on threads that read first and commit later |
| Attribution (`positions/attribution.py`) | none | realised P&L, premium, cost basis of a cycle | fees and premiums booked in several places |
| Management job (`scheduler/jobs/positions.py`, `positions/snapshot.py`, `positions/management.py`) | `position_snapshots`, `job_runs` | snapshot, evaluate, fire | a session held open while another session writes; overlapping manual and scheduled runs; crashes |
| Alert dispatcher (`alerts/dispatcher.py`, `alerts/triggers/_dedup.py`) | `alerts`, `alert_preferences`, `bot_state` | preference and snooze gate, insert, send, record | check-then-act deduplication, partial failure |
| Backtest simulator (`backtest/simulator.py`, `backtest/portfolio.py`) | cash, option legs, share lots, trade buffer | settle, manage, write calls, sell puts, mark | conservation of money over many days; lots split and removed by equality |
| Backtest runs (`api/backtest.py`, `backtest/filter_backtest.py`) | `backtest_runs` and its children | create, background run, delete, read | background thread beside requests; write lock held for a whole run; failure while recording a failure |
| Telegram inbound bot (`alerts/channels/telegram_inbound.py`) | `bot_state.offset`, `alerts.user_acked`, `alert_preferences` | poll, handle, acknowledge, snooze, give up | at-least-once updates, restart between effect and offset, two pollers after a restart |
| Preference and acknowledgement endpoints (`api/preferences.py`, `api/alerts.py`) | the same rows | upsert, set and clear | they write what the bot and the dispatcher use |
| Ingestion (`ingestion/pipeline.py`, `persistence.py`, `bars.py`, `options.py`, `iv_backfill.py`) | `bars_daily`, `indicators_daily`, `options_snapshot` | evening run, one-ticker backfill, IV backfill | one commit per chunk and symbol; sources that fail for some symbols; each run resumes where the tables end |
| Universe and tickers (`ingestion/universe.py`, `ingestion/ticker_backfill.py`, `api/tickers.py`) | `tickers` | create with a backfill thread, promote, hide, delete, sync | a ticker deleted under its backfill |
| Screener (`screener/*`, `api/screener.py`, `scheduler/jobs/screener.py`, `universe_scan.py`) | `filter_configs`, `screener_results` | edit configurations, evaluate, cap sectors, upsert a day's results | two jobs over the same rows; a configuration edited or deleted while a run holds it or is about to commit its results; columns that are NULL |
| Scheduler (`scheduler/app.py`, `scheduler/context.py`, `api/system.py`) | registered jobs, running threads, `job_runs` | fire by the clock, trigger by hand, record failures, shut down | jobs follow each other by time only; manual and scheduled runs share nothing; dates taken from two clocks |
| Digest jobs, intraday pulse (`scheduler/jobs/digest.py`, `intraday.py`) | `alerts`, an in-memory throttle | gate on calendar and freshness, look for an earlier alert, send | check-then-act, two sources of suppression, overlapping runs |
| Options history (`scheduler/jobs/options_history.py`, `ingestion/options_history.py`) | `options_historical` | fetch the day before | its target and its weekdays together decide which sessions are ever fetched |
| Portfolios (`api/portfolios.py`) | `portfolios`, `positions.portfolio_id` | create, delete, move a position | references that nothing enforces |
| Backup (`scheduler/jobs/backup.py`) | files | copy, prune, upload | one step of several failing |

What makes each correct, in a phrase: the book never loses track of an open leg and moves
only along the wheel; a cycle's P&L is its cash; an alert goes out once and leaves a row;
a backtest conserves money and stores all of its result or none; the bot passes over no
command; bars have no holes and indicators see all of them; the screener keeps the best of
a sector and passes nothing on missing data; a day's jobs work on that day's data.

The components meet in the database: the book is read by the management job and the
digests, the alerts table is both history and deduplication key, the bars that ingestion
commits are what screener, pulse and management evaluate, and SQLite admits one writer at a
time. `PROJECT.json` lists the main hazards at their lines.

## 2. Modules

| Module | Models |
|---|---|
| `WheelPositions` | the two tables of the book; one action per opening, transition, edit and deletion, each a committed session |
| `WheelCycle` | what a cycle promises: open lots that move along the wheel |
| `WheelLedger` | attribution against the cash that the trades moved |
| `WheelPositionsProofs` | theorems about the book and its ledger |
| `PositionRequests` | the endpoints as threads: read the position, read each leg, commit by primary key |
| `PositionAlerts` | the management job, dispatcher, deduplication, write lock, crashes |
| `WheelBacktest` | the simulator's day loop over its in-memory portfolio: settle, manage, write calls, sell puts |
| `BacktestRuns` | the life of a `backtest_runs` row across the background task that computes it |
| `TelegramInbound` | the inbound bot: chat, offset, poller threads, restarts, and the rows it shares with two endpoints and the dispatcher |
| `Ingestion` | pipeline runs and backfills commit by commit, beside the ticker endpoints and the universe sync |
| `ScreenerFilters` | the seventeen filters, their bounds and the weighted score, as operators |
| `Screener` | the two screener jobs over the filter configurations, beside the endpoints that edit them |
| `DailyCycle` | the cron table over a few days: the gates of six jobs and what each leaves for the next |
| `PositionAlertsProofs`, `WheelBacktestProofs`, `TelegramInboundProofs`, `IngestionProofs`, `ScreenerProofs` | theorems about the module of that name |
| `ThreadProofs` | theorems about `BacktestRuns`, `PositionRequests` and `DailyCycle` |
| `FiniteTheorems` | lemmas about finite sets: minimal elements, least and greatest integers, finite sums |

`MC*` modules only supply constants for TLC.

`WheelLedger` extends `WheelPositions` and `WheelPositionsProofs` both of them, so that no proof
is in a module that TLC reads; likewise each other `*Proofs` module extends its own.
`ThreadProofs` extends three modules at once, which is why `PositionRequests` and `DailyCycle` name
their specifications `RequestsSpec` and `DaySpec` and their types likewise. The
proofs about the book, the simulator, ingestion, the screener and the threads share `FiniteTheorems`.
`WheelPositions` and `PositionRequests` each instantiate `WheelCycle` under a refinement mapping;
`Screener` extends `ScreenerFilters`.
`DailyCycle` composes ingestion, screener, digests, pulse and history, each reduced to what
the others see of it; the modules of their own open them up. The remaining modules stand beside
each other: each looks at the database from the side that its own hazards are on, and
names in its header what it leaves to another.

### Conventions

- An action is one SQL transaction, or one statement where another session can come in
  between. A request that is refused (404, 409, 422) rolls back and is a stuttering step.
- `SELECT`s are the guards; the rows they return are quantified over.
- SQLite is modelled as the code configures it: one writer at a time; a busy timeout of
  5 s after which the statement raises; no `PRAGMA foreign_keys`, hence no cascade; rowids
  without `AUTOINCREMENT`, hence reused after the last row is deleted (`NextRowid`).
- Variables marked `history` record what happened and are read by properties only, or by
  the guards that bound a run.
- An operator whose comment begins with `Mutant:` is a plausible bug of the operator next
  to it. `Next` uses none of them; they exist to show that a property can fail.

### WheelPositions

`state[p]` is the `state` column of row `p` of `positions`, `leg[i]` row `i` of
`position_legs`. The three openings flush the position before its legs. Each transition
of `state_machine.py` is one action: the check of the state, the look-up of exactly one
open leg per type (`_require_open_leg`), the settlement of the legs with their P&L and
fees, the leg that is opened and the new state. `PatchLeg` overwrites any column of a leg
of a closed position, `DeletePosition` removes legs and position. The variable `cash`
adds up what the trades of the cycle have paid, independently of what is booked on the
legs; `WheelLedger` compares the two. Dates survive only as the check that an expiration
may not precede the opening; notes, symbols and exit prices are read by no transition.

### PositionRequests

The same transitions, taken apart at the points where a thread can be overtaken:
`LoadPosition` (the SELECT of the position and the check of its state), one `FindLeg` per
leg, `Commit`. A leg that is looked up only because it has to be there (the shares under a covered
call) gets no UPDATE and is not kept in `found`. The UPDATEs of the commit name primary keys, so `Commit` writes to the rows
that carry those keys by then, and fails only if one is gone. `LoadClosed` and `Delete` are
the two halves of `delete_position`. A table `Transitions` gives each function of
`state_machine.py` its required state, look-ups, outcome, opened leg and final state; money
is left out. `Held` is what the open legs of a position come to, under which the module implements
`WheelCycle` (`FollowsWheel`). `overlap`, chosen at the start, says whether two requests about one position
may be under way together. Editing a leg of a closed position is not in this module.

### PositionAlerts

A pass of `position_management` goes through `snapshot` (rows flushed: from here the pass
holds the write lock if any open position has a close), `evaluate` (which rules hold is
up to the market), `fire` (deduplicate each trigger against the `alerts` table by rowid
and rule), `dispatch` (muted, or insert on a connection of its own), `send` and `record`
(`channels_sent` in a third transaction). Trade requests, changes of the preferences and
a crash can come between any two steps. `cycle` distinguishes the wheel cycles that one
rowid serves in turn; the code cannot see it.

### WheelBacktest

Variables have the names of `Portfolio` and `_SimState`. A day goes through the phases
`settle`, `manage`, `calls`, `puts`; `NextDay` goes to the next traded day and draws the
closes. Closes, quotes, listed expirations and the candidates are free choices within
bounds; a quote never exceeds the strike of a put or the spot of a call. `TakenFrom`
is `_take_lots` as a formula: lots are consumed first in, first out. Trade rows are reduced
to the pairs (cycle, leg type) from which completed cycles are counted.

### BacktestRuns

`POST /api/backtest/runs` commits the row as `running` and starts a task. `Load` stands for
everything before the first day, `FlushDay` for the flush of a day's equity row by the next
day's first query, `FlushTrades` for the trade buffer, `Finish` for the commit of status and
results. An exception while the days run leads through a rollback to `MarkFailed`; the final
commit is outside that `try`, so `FinishFails` records nothing. The variables `equity` and
`trades` show what other sessions can see, that is, committed rows; what a task has
flushed but not committed is in `task[t]`. `Windows` are periods asked for; an empty one
fails a strategy run and completes a filter run without rows. Reading endpoints change
nothing and are left out.

### TelegramInbound

`chat` is what people have sent, in order, an `update_id` being an index; `confirmed` is what
`getUpdates` was last asked from, below which Telegram forgets. `LoadOffset`, `GetUpdates`,
one `Handle` or `HandleFails` per update and `SaveOffset` are a poll; `PollFails` counts
towards `telegram_inbound_max_failures`, after which the thread ends (`gaveUp`). The stop
event is looked at between polls only, and `StopBot` forgets the thread after two seconds,
so that `StartBot` can add a second one. `snooze` names the update that set `snooze_until`:
a moment that lies in the future until `SnoozeExpires`. `SetAck`, `UpsertPreference` and
`Dispatch` are the endpoints and the dispatcher on the same rows.

### Ingestion

A run (`run[r]`) has the targets and the first day of each (`StartOf`: the day after the newest
bar, or the fallback), and goes through `FetchChunk` per request for bars, `BarsDone`, and for
each symbol `LoadBars`, `WriteIndicators`, `FetchChain`, `RefreshIv`, each with a commit
of its own; earnings, macro and metadata are part of `Finish`. `tech[s][d]` is the first bar
that the technicals of a row were computed from, 0 for a row that the IV pass inserted
without any. A source that has nothing for some symbols of a chunk or fails is a fault, as is
the death of a run. `CreateTicker` adds a backfill thread; `PromoteTicker`, `DeleteTicker`
and `SyncUniverse` change who is listed while runs are under way.

### ScreenerFilters and Screener

A filter is an operator over a reading (the columns it is given, `Null` where a column is), a
ticker's profile and the parameters, with floats as integers. `Screener` evaluates whole
configurations: `LoadConfigs` and `LoadTickers` once per run, `EvaluateConfig` with the score and
the sector cap in the order `_apply_sector_concentration` sorts, `Persist` for the upserts and the write lock
they take, `Finish` for the commit. `Accepted` is the validation of a submitted configuration; a
refused one is a stuttering step. A DELETE has two steps, because its SELECTs neither wait for the
write lock nor see what its holder has not committed: `CheckDelete` looks for the configuration and
counts its results, and later `DeleteConfig`, with the lock free, deletes by id what it finds, the results
only if it has counted some; or the busy timeout ends it (`DeleteFails`). `request[d]` is a DELETE in
between. `CreateConfig` and `ReplaceConfig` are one step each: what they check (the name, the row) is
enforced again where they write, by a unique index and by SQLAlchemy's count of the rows updated. A row of `results` also records the run, the
reading and the configuration (`by`, `on`, `body`, `born`) it came from, for the properties,
and `strays` the pairs of a configuration and a run that was under way at some time of the request
that has deleted it: only such a run can leave rows behind.

### DailyCycle

`day` and `slot` are the clock of the market; `Schedule` is the cron table in the order of its
times. `Tick` starts what is due unless that job still runs (`max_instances`), `TriggerJob` starts
another thread without looking. Each job is its gates (`Skips`, `SkipsIfClosed`), what it reads
and what it leaves: `sent` (rows of `alerts` by type, subject and date), `bars`, `screened`,
`historical`. A digest looks for an earlier one (`CheckDigest`) and dispatches later
(`SendDigest`), as does the pulse for each symbol. `UtcTomorrow` are the times
of the schedule, from the evening pipeline's on, at which `utcnow().date()` is the market's tomorrow (`UtcDate`).
A digest lists at most `MAX_HITS` of the screener's hits, any of them (`Listings`).

## 3. Runs and what they show

`tlc -config <cfg> <module>`; each takes less than four minutes.

| Run | Bounds | Shows |
|---|---|---|
| `wheel_positions` | 2 positions, 4 legs, contract counts 0..2, 2 days | an open cycle always has the legs its next transition looks up, no leg outlives its position, settled legs stay, and the book implements `WheelCycle`, in which calls are always covered |
| `wheel_ledger` | 1 position, 4 legs, distinct prices and share counts, a fee | the P&L and cost basis reported are the cash that moved |
| `alerts` | 2 positions, 2 threads, 3 passes, 1 crash | without overlapping passes a condition of a cycle alerts at most once; a delivered message has a row, `channels_sent` never overstates; each pass ends, and none is left holding the lock |
| `requests` | 2 threads, 2 positions, 4 legs, 3 openings | when no two requests about one position overlap, load-then-commit is safe beside other positions, deletions and reused rowids, and every commit is a move of `WheelCycle` |
| `backtest_wheel` | 3 symbols for 2 places, 4 traded days of 5 | money is conserved; a symbol runs one cycle; calls are struck at or above cost; both counts of completed cycles agree |
| `backtest_runs` | 3 tasks on 2 rowids, 2 days, 1 crash | results are stored whole or not at all, agree with the status where an id was given out once, every task ends |
| `telegram_inbound` | 2 pollers, 2 updates, 1 alert, give-up after 2 failures, 2 faults, 1 restart | no command is passed over, the last snooze command is the one in force, every update is handled unless the poller gave up |
| `ingestion` | 2 symbols in requests of 1, 3 sessions, 2 runs, 1 fault, 2 edits | bars have no holes, technicals go as deep as the bars, every listed symbol catches up |
| `screener` | 2 symbols, 2 readings, 3 configurations on 2 ids, 2 runs, 2 edits, 2 clients that delete, 1 fault | the cap keeps the best of a sector, results belong to their configuration unless their run met its DELETE, nothing passes on missing data |
| `daily_cycle` | Thursday to Saturday, 7 times a day, 2 threads, 1 manual step, 1 fault | an alert goes out once unless runs of its job overlap; the screener uses the day's bars if they were committed |
| `friday_bars`, `friday_chains` | one session before a closed day; a weekend between sessions | a counterexample each, see section 5 |

Why the bounds are enough. Two rowids are what a reuse needs: the last id is deleted and
handed out while another cycle runs beside it. A cycle of the book with put, assignment,
call and delivery has three legs, and a fourth one lets a second call follow the first.
Contract counts 0, 1 and 2 straddle the guard on positive counts and, with 150 shares, the
guard on covered calls. The ledger's prices are pairwise distinct, so that an amount booked
at the wrong price or on the wrong leg shows in the sum. Two threads are the smallest number
that interleave; a third pass starts after a lost alert or a restart. In `alerts` one of the
two symbols has a close and one has not, so that passes run both with and without the lock.
The simulator's strikes and closes are chosen so that a put can be assigned and a call both
expire and be delivered; three symbols compete for two places, the skipped day is one on
which options expire. Three tasks on two rowids let two of them contend for the lock while an
id comes back; windows of two days can fail in the middle. Two updates make a batch whose second half
can be lost or repeated, two faults are what the poller needs to give up, and one restart is
enough for a second thread beside one that is still in its long poll. With requests of one
symbol, two symbols make two chunks, of which one can fail; three sessions let a month of
fallback (no days before today) be followed by a backfill of all days. The two readings
of the screener are complete and missing options; its first configuration caps a
sector at one of two symbols, the third is refused. The clients are interchangeable (`ClientSymmetry`).
Two edits let two DELETEs race, or one follow a creation; two that race with a creation in
between, on the same id, take more edits than the run allows and are covered by the proof. Three days hold a session that follows a
session and one before a closed day; the second thread is there for the manual trigger.

`CHECK_DEADLOCK FALSE` appears in every configuration. The systems may really stop: all
cycles closed and ids used up, the last day simulated, or no further pass or task within the
bounds.

The type invariant of each module with a system in it is checked by its passing run.

## 4. Fairness

Four modules state liveness. In `PositionAlerts` each pass, in `BacktestRuns` each task,
is weakly fair: a started thread keeps running, and the operating system schedules it. The
busy timeout makes this enough: a statement that finds the lock taken can always give
up, so some step of the thread stays enabled and no fairness of the lock is needed. That a
pass starts, that a trade is made, that a crash happens or does not, is never assumed.
In `TelegramInbound` the start of the application is weakly fair, because
`docker-compose.prod.yml:15` has the container restarted always, and so is each poller.
Updates, alerts and requests need not come. In `Ingestion`, `Fairness` says that evenings keep
coming (the cron trigger of `scheduler/app.py`) and that some run goes on: faults and edits are
bounded, so `CatchesUp` speaks of what happens after the last of them.
`PassEnds` and `TaskEnds` hold under crashes because a crash ends the thread.

## 5. Disagreements found

Two runs end in a counterexample of the property named; the quotations are in `PROJECT.json`.

1. `BarsInPlace`. The evening pipeline asks the calendar about `utcnow().date()`; at 17:30 in
   Los Angeles that is tomorrow. On a Friday, and before a holiday, it records a holiday and
   stores nothing. The screener half an hour later asks about the market's date, and
   evaluates the session on the bars of the one before
   (`scheduler/jobs/evening.py:49`, `scheduler/jobs/screener.py:7`).
2. `HistoryRollsForward`. The history job fetches yesterday, from Monday to Friday. Friday's
   chains would be due on Saturday, and Monday's target is Sunday: they are never fetched
   (`scheduler/jobs/options_history.py:47`).

Further places where the code does other than what is written about it. The models have
these behaviours, and the passing properties are stated so that they hold beside them:

- The management job's session holds the write lock from the first flushed snapshot, so the
  dispatcher's insert on its own connection times out: no alert row, although
  `alerts/dispatcher.py:8` promises it (`PositionAlerts`).
- Alerts stay when a position is deleted, its rowid comes back, and the old alert suppresses
  the new cycle's (`alerts/triggers/_dedup.py:54` relies on fresh ids).
- A manual run beside the scheduled one checks before either has inserted: the same alert twice
  (`docs/planning/03-alert-engine.md:22`); hence `OnceUnlessOverlapped` and, in `DailyCycle`,
  `overlapped`.
- Two overlapping transitions of one position both pass their checks and leave open legs that the
  state does not call for (`positions/state_machine.py:23`). A later request can then
  settle a leg of another position that has been given the rowid, which is why `requests` states
  its guarantees for runs without any such overlap.
- Recording the failure of a backtest needs the lock that another may hold for its whole
  duration; the timeout is swallowed and the row stays `running`
  (`docs/planning/06-backtesting.md:24`).
- Equity and trades of a deleted run stay, and meet the next run with its id
  (`db/models/backtest.py:74` declares a cascade that SQLite does not run).
- The bot saves its offset after the handlers, so a restart in between repeats a batch, while
  `telegram_inbound.py:12` says that a restart does not replay commands. Acknowledgements and
  snoozes are idempotent but for the moment that a snooze counts from; `LastCommandWins` shows
  that nothing else is lost.
- A row that the IV pass inserts first has NULL technicals and counts as done; the pass that
  would fill it (`ingestion/persistence.py:96`) skips the date.
- `delete_config` counts the results before it waits for the write lock, so that the rows of a screener
  run that has not committed yet count as 0. The DELETE then waits for that commit and goes through, with
  `cascade` as without, and the rows stay under an id that is handed out again, although no run is under
  way any more (`api/screener.py:209`; lines 201 to 203 promise a 409, or the deletion of the results).
  `NoStrayResults` says how far this can go: it takes a run that was under way during the request.
- The cap on a sector is applied per run, so the watchlist job and the universe scan can together
  pass twice as many (`docs/planning/02-screener-filters.md` asks for N a day); `BestOfSector` is
  stated per run.
- A job row stays `running` when the flush has failed whose session the failure handler commits
  (`scheduler/context.py:67`), and the days to expiration of the management job are counted from
  the UTC date (`scheduler/jobs/positions.py:33`), which at its time in Los Angeles is tomorrow's.

`PROJECT.json` notes more among the hazards that no property covers: cash of a backtest below
zero when losing legs are bought back, backtests left `running` by a restart, two morning digests
after which every pulse of the day fails.

## 6. Proofs

Every theorem holds for all values of the constants: any number of rows, threads, symbols, days,
restarts. What is assumed of the constants is named in an `ASSUME` of the module that declares them,
and TLC evaluates it in the module's run. Each proof rests on an inductive invariant and has one
lemma per action, in it one step per conjunct that the action can disturb.

| Component | Theorem | Statement `Spec => ...` |
|---|---|---|
| Book | `TypeCorrect` | `[]TypeOK` |
| | `LegsAlwaysMatch` | `[]LegsMatchState` |
| | `NoLegOrphaned` | `[]NoOrphanLegs` |
| | `CallsAlwaysCovered` | `[]CallsCovered` |
| | `SettledLegsStayFrozen` | `SettledLegsFrozen` |
| | `BookImplementsWheel` | `ImplementsCycle` |
| Ledger | `LedgerAlwaysBalances` | `[]LedgerBalances` |
| | `AttributedIsCash` | `[]AttributionIsCash` |
| | `CostBasisIsWhatWasPaid` | `[]CostBasisIsCashPaid` |
| Alerts | `TypeCorrect` | `[]TypeOK` |
| | `RowBeforeMessage` | `[]PaperworkFirst` |
| | `SerialPassesAlertOnce` | `[]OnceUnlessOverlapped` |
| Simulator | `TypeCorrect` | `[]TypeOK` |
| | `CashIsBooked` | `[]MoneyConserved` |
| | `OneCycle` | `[]OneCyclePerSymbol` |
| | `NoCallBelowCost` | `[]CallsAboveBasis` |
| | `CountMirrored` | `[]CyclesMirrored` |
| Requests | `RequestsTyped` | `[]RequestsTypeOK` |
| | `RequestsInTurn` | `[]LegsMatchInTurn` |
| | `RequestsSettleOnce` | `SettledOnce` |
| | `RequestsFollowWheel` | `FollowsWheel` |
| Backtest runs | `TypeCorrect` | `[]TypeOK` |
| | `ResultsAreWhole` | `[]AllOrNothing` |
| | `StatusTellsResults` | `[]ResultsMatchStatus` |
| Telegram bot | `TypeCorrect` | `[]TypeOK` |
| | `NoCommandSkipped` | `[]NoneSkipped` |
| | `LastCommandIsInForce` | `[]LastCommandWins` |
| Ingestion | `TypeCorrect` | `[]TypeOK` |
| | `BarsHaveNoGaps` | `[]NoBarGaps` |
| | `TechnicalsAreDeep` | `[]DeepTechnicals` |
| Screener | `TypeCorrect` | `[]TypeOK` |
| | `ResultsBelong` | `[]NoStrayResults` |
| | `PassesOnlyOnData` | `[]PassedOnData` |
| | `SectorKeepsBest` | `[]BestOfSector` |
| Daily cycle | `DayTyped` | `[]DayTypeOK` |
| | `AlertsOnce` | `[]AlertOnce` |
| | `ScreenerSeesClose` | `[]ScreenedOnClose` |

### The book and its ledger (`WheelPositionsProofs`)

Assumed: rowids are positive
naturals; prices and fees are naturals, counts and days integers, the multiplier positive;
an edited row is a row of the table; `Null` is neither an integer nor an outcome. Nothing
is assumed about the size of any set.

The inductive invariant is `IInv == TypeOK /\ NoOrphanLegs /\ \A p \in PosId : PosInv(p)`, with
`PosInv(p) == LegsMatch(p) /\ Covered(p) /\ Sound(p) /\ KnownTypes(p)`. `LegsMatchState` alone is
not inductive, for three reasons. A new position must start without legs, which is
`NoOrphanLegs`: a leg left behind would join it. An assignment opens as many shares as the
put had contracts, and arithmetic on them needs `Sound`: the counts on open legs of a running
cycle are counts that passed a guard, not what an edit may have written. And an edit can leave
an open leg of an unknown type on a closed position; `KnownTypes` says that none ever belongs
to a running cycle, which the refinement needs because it counts all open legs.

`Frame` says that rows of other positions are untouched, and `OnlyActor` reduces the invariant
to the position that moves. `SettledLegsStayFrozen` follows from `NextKeeps`: an action writes only the
open legs it has looked up, free rows, or rows of a closed position. For
`BookImplementsWheel`, `Shapes` derives from the invariant the exact set of open lots in each
state, `OpeningMoves` and `TransitionMoves` show that each action is the corresponding `Move` of
`WheelCycle` or leaves the holdings alone, and `CorrectionStutters` that edits and
deletions do not show. `CallsAlwaysCovered` is proved from `IInv` directly; the run needs no property for it, since a
call on too few shares is no `Move` either.

The ledger needs more than that the sum of the legs' P&L is the cash that moved, because what an
exit pays depends on which legs it finds. `LedgerInv` adds to `IInv`, for each position that no edit
has touched, `Kept`: its legs are finitely many and their amounts integers (`Whole`), the cash of the
cycle is the sum booked on them, and `Course`, which legs a cycle in each state has seen. It starts with a put or
with one lot of shares; the put, once there are shares, is settled; and shares that a put was
assigned into cost no fees. The last is what makes the cost basis the cash paid: `positions/attribution.py` takes it from the lot's
price and the put's P&L, and would miss a fee on the shares.

### Alerts (`PositionAlertsProofs`)

`IInv` says beside the types that a rowid in use serves some cycle (`Lived`), that where a pass is
tells what is stored of its trigger (`Staged`: a pass that sends has inserted, one that records has sent),
that the lock belongs to a pass that is past its snapshots (`LockHeld`, by itself the theorem
`LockNeverLeaks`), and `Alone`: while no two passes have overlapped, only one is under way
and what it has looked up in `alerts` is still true when it inserts. That the look-up is what carries the
proof, and that it is worth nothing as soon as a second pass runs, is the check-then-act
that `OnceUnlessOverlapped` is conditional on. Nothing is assumed of the lock:
whether an insert gets through or times out, the message never comes before the row.

### Simulator (`WheelBacktestProofs`)

`Books` describes legs, lots and trade rows together. `Paired`: a symbol has at most one leg and one lot,
a put stands alone, and a call has a lot of its cycle, of just its size and not above its strike. `Live`:
different legs or lots are of different cycles, all begun, and each cycle's trade rows are
among those that its leg or lot allows, so that no cycle under way counts as completed.
`cycles_completed` is then the number of cycles that the rows call completed. None of the facts about legs stands alone: a call is struck above its
lot only if the lot is the one it was written on, and a delivery takes the whole lot only because lots come in
whole contracts. For `MoneyConserved` the cash is equated with a sum over legs and lots, to which
each action adds or from which it removes one element. Assumed: quotes, terms and parameters are naturals, prices,
contract sizes and the minimal days to expiration positive.

### Requests (`ThreadProofs`)

The theorems say that what a request has checked is still true when it commits, although others
commit in between. The inductive invariant is `RequestInv == Tabled /\ (~overlap => InTurn)`.
`Tabled` is the types and holds with any overlap; `InTurn` is for runs without:

- `Apart`: no two requests under way are about one position;
- `Matches`: the open legs of a position are those its state calls for, one of each type;
- `Current`: the state that a request has read is still the position's, and what it has looked up so
  far in order to settle it are exactly the open legs of those types that the position has.

`Matches` alone is not inductive, because a commit writes to legs found some steps ago. `Current` is kept
from the other requests by `Elsewhere`: a step about one position (`About`) changes no
state and no leg of another, and by `Apart` no other request is about that one. Where overlap is
allowed it is `Current` that breaks first, as section 5 describes. The transitions are data
here, so all the proof needs of them is one lemma, `TableFacts`: each looks up legs that its state
calls for, and what it settles and opens leaves those that the next state calls for.

`RequestsSettleOnce` follows from `Current`: no settled leg is among those a request has looked up. For
`RequestsFollowWheel`, `HeldInTurn` derives from `Matches` the exact set of open lots in each state, `HeldMoves` finds
each row of the table to be a `Move` of `WheelCycle`, and whatever leaves the open legs alone stutters
(`StandsStillHeld`), as does the deletion of a closed position. Assumed: rowids are positive naturals.

### Daily cycle (`ThreadProofs`)

`JobInv` says beside the types that two runs of one job are under way only if the job is `overlapped`, and a
morning digest beside a pulse only if they have `raced` (`Together`); that what a run has looked at still holds
where it goes on (`Fits`): a digest about to be sent, or a symbol about to be alerted, has no row yet for the
day, and the symbol is on no digest of the day, with the same two exceptions; that a key has more than one row only if its
job is `overlapped` (`AlertRows`); and that a day whose pipeline has committed is among `bars` (`Kept`).
As in `PositionAlerts` it is the look-up that carries the proof, and the code does nothing to make it
last: only that no second run of the job is there does. A failure of a job alerts once a day for another
reason, being looked up and written in one step. `ScreenerSeesClose` needs besides that a run past its gate is on a
trading day, and that no bar is later than today. Assumed: the calendar has at least one day.

### Backtest runs (`ThreadProofs`)

`IInv` ties the shared tables to the tasks. A row belongs to the task it was created for
(`Owned`), results are those of tasks that are done, written under their own id, and hold either
none or all of the days (`Stored`), and the status of a row that shares its id with no
other tells which (`Told`). `Blank` says that tasks not yet started are blank; `LockHeld`, that only
a task between its first write and its commit has the lock (by itself the theorem `LockNeverLeaks`). `Stored` speaks of the task and not of the id,
which is how it survives that ids come back while results of a deleted run remain.

### Telegram bot (`TelegramInboundProofs`)

`NoneSkipped` speaks of the saved offset only. The inductive invariant carries
the same fact to every place an offset can be on its way to `bot_state`: to what Telegram has
confirmed, to the offset a thread has read, to the head of its batch while it handles (updates of a
batch being successive) and to one past its last element before the save. Since handled and dropped
updates only grow, what holds for one thread survives the steps of another (`SoundKeeps`), which is
why a second poller can repeat commands but not skip any.

`LastCommandWins` needs a point of its own (`SnoozeInv`). After a restart in the middle of a batch the snooze
is that of an update which the saved offset does not yet cover, and the next poll sets back an older one before
it comes to that one again. So there is a point k, nowhere before the saved offset, such that the snooze reflects
the commands below k, and the one thread alive reads, handles or saves between the offset and k
(`Within`): what it undoes on the way is ahead of it. With two threads there is no such k, and
the property makes that exception.

### Ingestion (`IngestionProofs`)

`NoBarGaps`: the bars of a
symbol form a run of days, and the days a run has planned to fetch begin no later than the day
after the newest bar, whatever another run has stored or an edit has deleted since the plan was
made; as no run is under way at a close, every plan ends on the current day (`Extend`). The
loops over symbols need that one is left at each step (`HereIsSymbol`), and so that a finite set of
integers has a least element (`Least`).

`TypeInv` adds what a run has in mind: it writes only days it has loaded, and none later than today. For `DeepTechnicals`,
`DeepInv` holds while no runs have overlapped: a run that is under way is by itself (`Alone`), what it has loaded is still
what is stored (`Ready`), and technicals are as deep as the bars but for symbols still to be redone by
a full run (`HasDepth`). Assumed beside the types: the month of fallback is shorter than the history there is
at the start, so that what an incremental run fetches begins no earlier than what a backfill does.

### Screener (`ScreenerProofs`)

`IInv` gives `PassedOnData`: of the results, and of the rows a run remembers (`Fit`), those that passed were complete. That a
filter cannot be eligible without its columns is `FiltersNeedData`, filter by filter.

`NoStrayResults` follows from `StrayInv`. What stands in the tables, and what a run has read or written, is `Known`: its
configuration is still there, or was deleted by a request that the run met. For a deletion to keep that,
each waiting request must have met whoever can still have something of its configuration to write or to leave
(`Watches`): every run under way, and, if it counted no results, every run that has put some under its id
since; if it counted some, it deletes all that stand there by then. That ids return does not matter,
since `born` tells the configurations apart and the deletion adds the one it finds.

`BestOfSector` compares rows of one run that may by now be mixed with rows of another. `RankInv` says that
the rows that a run has left of a configuration are what the cap left of one evaluation
(`Ranked`), some of which may be overwritten since, and that runs have numbers of their own
(`Numbered`). About one evaluation, the order by score and symbol is strict (`AheadOrder`), so that the cap cuts the
end of a row (`KeptBest`) and leaves no more than it says (`KeptAtMost`). That scores are percentages, hence the
types, follows for a weighted mean from its terms (`SumFunctionAtMost`). Assumed: finitely many symbols and quotes, prices and
averages of prices not negative, strikes positive, integer weights, and a first configuration
that the validation accepts (the seed script's).

### Sums and orders (`FiniteTheorems`)

The provers have no induction over data here, and the sums of the community modules are folds. Each
lemma is proved by a smallest counterexample instead: a claim about all subsets of a finite set that
fails for some subset fails for one of least cardinality, and removing an element from that
contradicts it. What follows is all that the ledgers use: a sum over nothing is 0, a sum of integers is
one, and it changes by the value of the element that is added, removed or replaced.

### What the proofs changed

The exceptions of `DeepTechnicals` did not cover a symbol that is deleted while a run writes it and listed
again before the run ends, which the bounds of the run do not reach: such a symbol is now `broken`
too (`Writing`).
A calendar may not be empty: with `LastDay = 0` the day on which `DailyCycle` starts would be none of
the calendar's, and types would fail at once. `CalendarAssumption` now says so.
Two definitions said more than they meant, though not in a state that TLC reached: a `CASE` of
`Redoing` with overlapping guards, and the thread that `StartBot` chooses when none is idle.

### Model-checked only

Liveness (`PassEnds`, `TaskEnds`, `Drained`, `CatchesUp`): the prover does not treat `ENABLED`, which fairness
is made of. Every invariant and every action property that a passing run checks is a theorem. The
two properties of section 5 are false, and TLC finds where.

## 7. Not modelled

Every component is listed with its status in `PROJECT.json`. Not modelled yet: portfolios and
the backup job. Not meant to be modelled: option pricing and the indicators (floating point),
templates and external clients (formatting and I/O), schema and configuration, the web interface.

Within the modelled parts, left out are: money as floats (amounts are integers; rounding
and tolerance are not checked), the calendar and the market behind each rule (free choices),
edits of legs under concurrency, the metrics derived from an equity curve, the IV-spike pass
of the pulse (its shape is the setup pass, with a throttle in memory), the report sections of a
digest other than screener hits, the REST backfill of options history, the contents of earnings
and macro tables, and IV ranks. `ScreenerFilters` computes over integers and rounds down where the
code divides floats, so that nothing is said of a value within one unit of its threshold.

## 8. Plan

1. `PositionRequests` with money, and an account of how it implements the atomic transitions of
   `WheelPositions`, where it now implements their common abstraction `WheelCycle`.
2. `Portfolios` over the book: deletion, reassignment and positions that name a portfolio
   that is gone; `Backup`: copy, prune and upload, with one step failing; the IV-spike pass.
