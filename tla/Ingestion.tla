------------------------------- MODULE Ingestion -------------------------------
(***************************************************************************)
(* The evening pipeline and the one-ticker backfill over bars_daily,       *)
(* indicators_daily and options_snapshot, next to the ticker endpoints,    *)
(* the universe sync and the IV backfill.                                  *)
(*                                                                         *)
(* A run of the pipeline commits once per chunk of bars and once per       *)
(* symbol afterwards, so it can fail, die or be overtaken by another run   *)
(* between any two of its commits.  A value is reduced to what it was      *)
(* computed from: technicals to the first bar of the history they saw.     *)
(***************************************************************************)
EXTENDS Integers, FiniteSetsExt

CONSTANTS
    Symbols,       \* a finite set of integers, in the order of the alphabet
    Universe,      \* the symbols of the bundled lists
    LastDay,       \* sessions are 1 .. LastDay; "five years" reach back to 1
    FirstDay,      \* the latest closed session at the start
    FallbackDays,  \* fetch_incremental's fallback_days: a month, less than the five years
    BatchSize,     \* symbols in one request for bars
    Runs,          \* threads that may run a pipeline
    MaxFaults,     \* bound on sources that fail or have nothing yet, and crashes
    MaxEdits       \* bound on the requests and commands beside the pipeline

ASSUME IngestionAssumption ==
    /\ Symbols \subseteq Int /\ IsFiniteSet(Symbols) /\ Universe \subseteq Symbols
    /\ LastDay \in Nat /\ FirstDay \in 1 .. LastDay
    /\ FallbackDays \in Nat /\ FallbackDays < FirstDay /\ BatchSize \in Nat \ {0}
    /\ MaxFaults \in Nat /\ MaxEdits \in Nat

Days == 1 .. LastDay

VARIABLES
    today,   \* the latest session whose close has elapsed
    ticker,  \* ticker[s]: its ticker_source, or "none" without a row
    bars,    \* bars[s]: days stored in bars_daily
    tech,    \* tech[s][d]: first bar the technicals of (s, d) were computed from; 0 when they are NULL
    chain,   \* symbols with rows in options_snapshot
    run,     \* run[r]: a pipeline run
    faults, edits, \* history: bounded events so far
    overlapped, \* history: two runs were under way at the same time
    broken   \* history: symbols whose last backfill ended early, or that were deleted
             \* between a run's reading of their bars and its writing of their technicals

db == <<ticker, bars, tech, chain>>
history == <<faults, edits, overlapped, broken>>
vars == <<today, db, run, history>>

NoRun == [pc |-> "idle", full |-> FALSE, end |-> 0, start |-> <<>>, left |-> {},
          loaded |-> {}, only |-> {}, affected |-> {}]

NoRow == [d \in {} |-> 0]
Rows(s) == DOMAIN tech[s]

Init ==
    /\ today = FirstDay
    /\ ticker = [s \in Symbols |-> "none"]
    /\ bars = [s \in Symbols |-> {}]
    /\ tech = [s \in Symbols |-> NoRow]
    /\ chain = {}
    /\ run = [r \in Runs |-> NoRun]
    /\ faults = 0 /\ edits = 0
    /\ overlapped = FALSE /\ broken = {}

Active(r) == run[r].pc # "idle"
Stored == {s \in Symbols : bars[s] # {}}

\* f with g laid over it (INSERT ... ON CONFLICT DO UPDATE).
Upsert(f, g) == [d \in DOMAIN f \cup DOMAIN g |-> IF d \in DOMAIN g THEN g[d] ELSE f[d]]

-----------------------------------------------------------------------------
(* Starting a run *)

Begin(r, record) ==
    /\ ~Active(r)
    /\ r = CHOOSE q \in Runs : ~Active(q)
    /\ run' = [run EXCEPT ![r] = record]
    /\ overlapped' = (overlapped \/ \E q \in Runs : Active(q))

\* Mutant: one start for everybody, from the newest bar of any symbol.
StartFromNewest(s) ==
    IF Stored = {} THEN today - FallbackDays
                   ELSE Max(UNION {bars[t] : t \in Stored}) + 1

\* _last_stored_dates and _group_by_start: a symbol without bars gets a month.
StartOf(s) ==
    IF bars[s] = {} THEN today - FallbackDays ELSE Max(bars[s]) + 1

Full(targets, pinned) ==
    [NoRun EXCEPT !.pc = "bars", !.full = TRUE, !.end = today,
                  !.start = [s \in targets |-> 1], !.affected = pinned]

Listed == {s \in Symbols : ticker[s] # "none"}

Incremental(targets) ==
    [NoRun EXCEPT !.pc = "bars", !.end = today,
                  !.start = [s \in {t \in targets : StartOf(t) <= today} |-> StartOf(s)]]

\* The evening job, by its trigger or by hand: every active ticker.
StartEvening(r) ==
    /\ Begin(r, Incremental(Listed))
    /\ UNCHANGED <<today, db, faults, edits, broken>>

Edit == edits < MaxEdits /\ edits' = edits + 1

\* python -m ingestion.pipeline --full
StartFull(r) ==
    /\ Edit
    /\ Begin(r, Full(Listed, {}))
    /\ UNCHANGED <<today, db, faults, broken>>

\* POST /api/tickers: a new symbol gets its backfill thread at once.
CreateTicker(s, r) ==
    /\ Edit
    /\ ticker[s] = "none"
    /\ ticker' = [ticker EXCEPT ![s] = "watchlist"]
    /\ Begin(r, Full({s}, {s}))
    /\ UNCHANGED <<today, bars, tech, chain, faults, broken>>

\* A universe ticker is only promoted.
PromoteTicker(s) ==
    /\ Edit
    /\ ticker[s] = "universe"
    /\ ticker' = [ticker EXCEPT ![s] = "watchlist"]
    /\ UNCHANGED <<today, bars, tech, chain, run, faults, overlapped, broken>>

Here(r) == Min(run[r].left)
Writing(s) == \E r \in Runs : run[r].pc = "write" /\ Here(r) = s

\* DELETE /api/tickers/{symbol}, in one transaction.
DeleteTicker(s) ==
    /\ Edit
    /\ ticker[s] # "none"
    /\ ticker' = [ticker EXCEPT ![s] = "none"]
    /\ bars' = [bars EXCEPT ![s] = {}]
    /\ tech' = [tech EXCEPT ![s] = NoRow]
    /\ chain' = chain \ {s}
    /\ broken' = IF Writing(s) THEN broken \cup {s} ELSE broken \ {s}
    /\ UNCHANGED <<today, run, faults, overlapped>>

\* sync_universe_tickers leaves rows that exist alone.
SyncUniverse ==
    /\ Edit
    /\ ticker' = [s \in Symbols |-> IF s \in Universe /\ ticker[s] = "none" THEN "universe" ELSE ticker[s]]
    /\ UNCHANGED <<today, bars, tech, chain, run, faults, overlapped, broken>>

-----------------------------------------------------------------------------
(* The steps of a run, one per commit *)

Goes(r, record) == run' = [run EXCEPT ![r] = record]

\* The groups go by start date, the symbols of a group in chunks.
Group(r) == LET start == run[r].start
            IN  {s \in DOMAIN start : \A t \in DOMAIN start : start[s] <= start[t]}
Chunk(r) == {s \in Group(r) : Cardinality({t \in Group(r) : t < s}) < BatchSize}

Fault == faults < MaxFaults /\ faults' = faults + 1

\* One request and one commit; a symbol the source knows nothing of is skipped.
FetchChunk(r) ==
    /\ run[r].pc = "bars"
    /\ DOMAIN run[r].start # {}
    /\ \E missing \in SUBSET Chunk(r) :
          /\ IF missing = {} THEN UNCHANGED faults ELSE Fault
          /\ bars' = [s \in Symbols |->
                        IF s \in Chunk(r) \ missing THEN bars[s] \cup run[r].start[s] .. run[r].end
                                                    ELSE bars[s]]
    /\ Goes(r, [run[r] EXCEPT !.start = [s \in DOMAIN run[r].start \ Chunk(r) |-> run[r].start[s]]])
    /\ UNCHANGED <<today, ticker, tech, chain, edits, overlapped, broken>>

\* A pinned symbol list, or every symbol with bars.
BarsDone(r) ==
    /\ run[r].pc = "bars"
    /\ DOMAIN run[r].start = {}
    /\ LET all == IF run[r].affected # {} THEN run[r].affected ELSE Stored
       IN  Goes(r, IF all = {} THEN [run[r] EXCEPT !.pc = "rest"]
                   ELSE [run[r] EXCEPT !.pc = "load", !.affected = all, !.left = all])
    /\ UNCHANGED <<today, db, history>>

\* Mutant: a backfill, too, writes only the dates without a row.
NewDatesAlways(r, s) == bars[s] \ Rows(s)

\* Mutant: the last date is the only one that can be new.
LastDateOnly(r, s) ==
    IF run[r].full THEN bars[s] ELSE {d \in bars[s] \ Rows(s) : d = Max(bars[s])}

\* _new_indicator_dates: a row of any kind counts.
DatesToWrite(r, s) == IF run[r].full THEN bars[s] ELSE bars[s] \ Rows(s)

\* The loop over the affected symbols is at its end, and the next one begins.
NextSymbol(r, here, next) ==
    IF run[r].left = {Here(r)}
      THEN [run[r] EXCEPT !.pc = next, !.left = run[r].affected, !.loaded = {}, !.only = {}]
      ELSE [run[r] EXCEPT !.pc = here, !.left = @ \ {Here(r)}, !.loaded = {}, !.only = {}]

\* load_bars and the look-up of the dates that have rows.
LoadBars(r) ==
    LET s == Here(r)
    IN  /\ run[r].pc = "load"
        /\ Goes(r, IF bars[s] = {} THEN NextSymbol(r, "load", "chains")
                   ELSE [run[r] EXCEPT !.pc = "write", !.loaded = bars[s], !.only = DatesToWrite(r, s)])
        /\ UNCHANGED <<today, db, history>>

\* Mutant: bars in no order.
SeenUnordered(r) == Max(run[r].loaded)

\* load_bars orders by date, so the indicators run from the first bar on.
Seen(r) == Min(run[r].loaded)

\* upsert_indicators writes the technical columns and leaves the others.
WriteIndicators(r) ==
    LET s == Here(r)
    IN  /\ run[r].pc = "write"
        /\ tech' = [tech EXCEPT ![s] = Upsert(@, [d \in run[r].only |-> Seen(r)])]
        /\ Goes(r, NextSymbol(r, "load", "chains"))
        /\ broken' = IF run[r].full /\ bars[s] # {} THEN broken \ {s} ELSE broken
        /\ UNCHANGED <<today, ticker, bars, chain, faults, edits, overlapped>>

\* An empty chain leaves the previous snapshot in place.
FetchChain(r) ==
    /\ run[r].pc = "chains"
    /\ \/ bars[Here(r)] # {} /\ chain' = chain \cup {Here(r)}
       \/ UNCHANGED chain
    /\ Goes(r, NextSymbol(r, "chains", "iv"))
    /\ UNCHANGED <<today, ticker, bars, tech, history>>

\* upsert_iv_indicators: a row that is there keeps its technicals, a new one has none.
WriteIv(s, dates) == tech' = [tech EXCEPT ![s] = Upsert([d \in dates |-> 0], @)]

\* _refresh_iv: the stored chain against the latest bar.
RefreshIv(r) ==
    LET s == Here(r)
    IN  /\ run[r].pc = "iv"
        /\ IF s \in chain /\ bars[s] # {} THEN WriteIv(s, {Max(bars[s])})
                                          ELSE UNCHANGED tech
        /\ Goes(r, NextSymbol(r, "iv", "rest"))
        /\ UNCHANGED <<today, ticker, bars, chain, faults, edits, overlapped, broken>>

\* Earnings and macro, or earnings and metadata: tables nothing here reads.
Finish(r) ==
    /\ run[r].pc = "rest"
    /\ Goes(r, NoRun)
    /\ UNCHANGED <<today, db, history>>

\* Symbols whose bars a full run may have stored without redoing their technicals.
Redoing(r) ==
    CASE run[r].full /\ run[r].pc = "bars" ->
            IF run[r].affected # {} THEN run[r].affected ELSE Symbols
      [] run[r].full /\ run[r].pc \in {"load", "write"} -> run[r].left
      [] OTHER -> {}

\* Any step may raise (source, lock); job_run records it, and what is
\* committed stays.
Fail(r) ==
    /\ Active(r)
    /\ Fault
    /\ broken' = broken \cup Redoing(r)
    /\ Goes(r, NoRun)
    /\ UNCHANGED <<today, db, edits, overlapped>>

Crash ==
    /\ \E r \in Runs : Active(r)
    /\ Fault
    /\ broken' = broken \cup UNION {Redoing(r) : r \in Runs}
    /\ run' = [r \in Runs |-> NoRun]
    /\ UNCHANGED <<today, db, edits, overlapped>>

\* The iv_backfill command: days with a bar and a stored historical chain.
BackfillIv(s) ==
    /\ Edit
    /\ ticker[s] # "none"
    /\ \E dates \in (SUBSET bars[s]) \ {{}} : WriteIv(s, dates)
    /\ UNCHANGED <<today, ticker, bars, chain, run, faults, overlapped, broken>>

\* A run lasts minutes; none is under way at the next close.
NextDay ==
    /\ today < LastDay
    /\ \A r \in Runs : ~Active(r)
    /\ today' = today + 1
    /\ UNCHANGED <<db, run, history>>

Step(r) ==
    \/ FetchChunk(r) \/ BarsDone(r) \/ LoadBars(r) \/ WriteIndicators(r)
    \/ FetchChain(r) \/ RefreshIv(r) \/ Finish(r)

Next ==
    \/ \E r \in Runs : StartEvening(r) \/ StartFull(r) \/ Step(r) \/ Fail(r)
    \/ \E s \in Symbols : \E r \in Runs : CreateTicker(s, r)
    \/ \E s \in Symbols : PromoteTicker(s) \/ DeleteTicker(s) \/ BackfillIv(s)
    \/ SyncUniverse \/ NextDay \/ Crash

\* There is an evening after every evening, and some thread runs on.
Fairness == WF_vars(\E r \in Runs : StartEvening(r) \/ Step(r))

Spec == Init /\ [][Next]_vars /\ Fairness

-----------------------------------------------------------------------------
(* Properties *)

\* Type correctness.
TypeOK ==
    /\ today \in Days
    /\ ticker \in [Symbols -> {"none", "watchlist", "universe"}]
    /\ bars \in [Symbols -> SUBSET (1 .. today)]
    /\ chain \subseteq Symbols
    /\ \A s \in Symbols :
          /\ Rows(s) \subseteq Days
          /\ \A d \in Rows(s) : tech[s][d] \in 0 .. d
    /\ \A r \in Runs : run[r].left \subseteq run[r].affected /\ run[r].only \subseteq run[r].loaded

\* The stored bars of a symbol have no hole, whatever chunk failed, came late or
\* was overtaken by a deletion: the next fetch starts after the newest bar, so a
\* hole would never be filled.
NoBarGaps == \A s \in Stored : bars[s] = Min(bars[s]) .. Max(bars[s])

\* No row keeps technicals of a shorter history than the bars now go back: a
\* month of fallback bars gives way to the backfill's years as soon as
\* it has redone the symbol (unless it broke off before, another run overlapped, or
\* the symbol was deleted under a run that went on to write what it had computed).
DeepTechnicals ==
    ~overlapped =>
        \A s \in Stored \ (broken \cup UNION {Redoing(r) : r \in Runs}) :
            \A d \in Rows(s) : tech[s][d] <= Min(bars[s])

\* Evenings that fail, crash or overlap are made up for: when sources have
\* recovered and edits have ceased, every listed symbol gets the latest bar, and
\* every stored bar its row of indicators.
CatchesUp ==
    <>[] \A s \in Symbols :
            /\ ticker[s] # "none" => today \in bars[s]
            /\ bars[s] \subseteq Rows(s)

=============================================================================
