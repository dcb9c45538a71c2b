------------------------------- MODULE Screener -------------------------------
(***************************************************************************)
(* The screener of one market day: the watchlist job and the universe scan *)
(* (or either of them by hand) over the active filter configurations, next *)
(* to the configuration endpoints, the tickers they select and the market  *)
(* data an ingestion may still be writing.                                 *)
(*                                                                         *)
(* A run reads the configurations and the tickers once, then evaluates and *)
(* upserts configuration after configuration.  Its first upsert takes the  *)
(* database's write lock, which it keeps to its one commit at the end.     *)
(***************************************************************************)
EXTENDS ScreenerFilters

CONSTANTS
    Symbols,   \* a finite set of integers, in the order of the alphabet
    Profile,   \* Profile[s]: sector, tier and market_cap of the tickers row
    Universe,  \* the symbols whose ticker_source is universe
    Readings,  \* a sequence of readings the market data may hold
    Bodies,    \* a sequence of filter configurations that people submit
    MaxId,     \* bound on filter_configs' ids
    Runs,      \* threads that may run the screener
    Clients,   \* threads that may serve a DELETE of a configuration
    MaxEdits,  \* bound on the requests and on the changes of market data
    MaxRuns,   \* bound on the runs started
    MaxFaults  \* bound on the exceptions and crashes

ASSUME ScreenerAssumption ==
    /\ Symbols \subseteq Int /\ IsFiniteSet(Symbols) /\ Universe \subseteq Symbols
    /\ {MaxId, MaxEdits, MaxRuns, MaxFaults} \subseteq Nat
    /\ MaxId >= 1 /\ 1 \in DOMAIN Bodies
    /\ \A i \in DOMAIN Bodies :
          /\ Bodies[i].required \subseteq Bodies[i].filters
          /\ \A f \in DOMAIN Bodies[i].weights : Bodies[i].weights[f] \in Int
          /\ Bodies[i].sector_max \in Int \cup {Null}

\* Prices and averages of prices are not negative, nor is an RSI; a strike is positive.
Columns == Nat \cup {Null}
ASSUME ReadingsAssumption ==
    \A i \in DOMAIN Readings :
        LET r == Readings[i]
        IN  /\ r.closes \in Seq(Nat)
            /\ {r.ema_200, r.ema_50, r.rsi_14} \subseteq Columns
            /\ {r.iv_rank, r.iv_percentile} \subseteq Int \cup {Null}
            /\ IsFiniteSet(r.chain)
            /\ \A o \in r.chain :
                  /\ o.dte \in Int /\ o.strike \in Nat \ {0}
                  /\ o.delta \in Int \cup {Null} /\ {o.bid, o.ask} \subseteq Int \cup {Null}

VARIABLES
    data,    \* data[s]: the reading the tables give for s
    hidden,  \* tickers with is_hidden
    config,  \* config[c]: [body, active, born], the rows of filter_configs
    results, \* results[<<s, c>>]: the day's rows of screener_results
    lock,    \* the run that holds the write lock
    run,     \* run[r]
    request, \* request[d]: a DELETE between its look at the results and its statements
    edits, faults, started, \* history: bounded events so far
    strays   \* history: <<born, by>>, a configuration and a run that was under way
             \* at some time of the request that has deleted it

db == <<data, hidden, config, results>>
history == <<edits, faults, started, strays>>
vars == <<db, lock, run, request, history>>

Free == "free"
ASSUME FreeAssumption == Free \notin Runs
Empty == [k \in {} |-> Null]
Idle == [pc |-> "idle", by |-> 0, scan |-> FALSE, configs |-> Empty, symbols |-> {},
         evaluations |-> Empty, rows |-> Empty]
\* runs, since: history, the runs under way at the look and the runs begun before it.
NoRequest == [id |-> 0, refers |-> FALSE, runs |-> {}, since |-> 0]

\* The seed script's configuration; the sync inserts the universe hidden, and some
\* of it may have been shown since.
Init ==
    /\ data \in [Symbols -> DOMAIN Readings]
    /\ hidden \in SUBSET Universe
    /\ config = [c \in {1} |-> [body |-> 1, active |-> TRUE, born |-> 0]]
    /\ results = Empty
    /\ lock = Free
    /\ run = [r \in Runs |-> Idle]
    /\ request = [d \in Clients |-> NoRequest]
    /\ edits = 0 /\ faults = 0 /\ started = 0 /\ strays = {}

\* f with g laid over it.
Upsert(f, g) == [x \in DOMAIN f \cup DOMAIN g |-> IF x \in DOMAIN g THEN g[x] ELSE f[x]]

Active(r) == run[r].pc # "idle"
CanWrite(r) == lock \in {Free, r}
Goes(r, record) == run' = [run EXCEPT ![r] = record]

-----------------------------------------------------------------------------
(* The configuration endpoints *)

\* A request that writes waits for the lock, or fails without a trace.
Edit ==
    /\ lock = Free
    /\ edits < MaxEdits
    /\ edits' = edits + 1

NameTaken(b, except) ==
    \E c \in DOMAIN config \ except : Bodies[config[c].body].name = Bodies[b].name

\* SQLite hands out the highest id plus one, so the id of a deleted row again.
NextId == IF DOMAIN config = {} THEN 1 ELSE Max(DOMAIN config) + 1

\* _validate_write_body refuses what _parse_config could not read.
Accepted(b) ==
    LET body == Bodies[b]
    IN  /\ body.filters \subseteq FilterIds
        /\ DOMAIN body.params \subseteq body.filters \cap DOMAIN Bounds
        /\ \A f \in DOMAIN body.params : body.params[f] \in Bounds[f]
        /\ body.sector_max # Null => body.sector_max >= 1
        /\ DOMAIN body.weights \subseteq body.filters \cap ScoredIds
        /\ \A f \in DOMAIN body.weights : body.weights[f] >= 0

\* The seed script's configuration would be accepted too.
ASSUME SeedAssumption == Accepted(1)

\* The primary key and the unique name hold at the write whatever was read before
\* it (IntegrityError, StaleDataError), so that check and write are one step.
CreateConfig(b, active) ==
    /\ Edit
    /\ Accepted(b)
    /\ ~NameTaken(b, {})
    /\ NextId <= MaxId
    /\ config' = Upsert(config, [c \in {NextId} |-> [body |-> b, active |-> active, born |-> edits']])
    /\ UNCHANGED <<data, hidden, results, lock, run, request, faults, started, strays>>

\* PUT, and PATCH /active for the same body; the day's results stay.
ReplaceConfig(c, b, active) ==
    /\ Edit
    /\ Accepted(b)
    /\ ~NameTaken(b, {c})
    /\ config' = [config EXCEPT ![c].body = b, ![c].active = active]
    /\ UNCHANGED <<data, hidden, results, lock, run, request, faults, started, strays>>

ResultsOf(c) == {k \in DOMAIN results : k[2] = c}
Restricted(f, S) == [k \in S |-> f[k]]

\* 404, or 409 while results refer to it, unless they are to go as well.  SELECTs
\* do not wait for the write lock, nor see what its holder has not committed.
CheckDelete(d, c, cascade) ==
    /\ edits < MaxEdits
    /\ edits' = edits + 1
    /\ request[d] = NoRequest
    /\ ResultsOf(c) = {} \/ cascade
    /\ request' = [request EXCEPT ![d] =
                      [id |-> c, refers |-> ResultsOf(c) # {},
                       runs |-> {run[r].by : r \in {q \in Runs : Active(q)}}, since |-> started]]
    /\ UNCHANGED <<db, lock, run, faults, started, strays>>

Pending(d) == request[d] # NoRequest

\* The runs that were under way at some time of the request.
Met(d) == request[d].runs \cup (request[d].since + 1 .. started)

Answered(d) == request' = [request EXCEPT ![d] = NoRequest]

\* Mutant: the configuration goes, its results stay.
DeleteConfigOnly(d) ==
    /\ Pending(d)
    /\ lock = Free
    /\ LET c == request[d].id
       IN  /\ config' = Restricted(config, DOMAIN config \ {c})
           /\ strays' = strays \cup {<<config[x].born, n>> : x \in DOMAIN config \cap {c}, n \in Met(d)}
    /\ Answered(d)
    /\ UNCHANGED <<data, hidden, results, lock, run, edits, faults, started>>

\* The statements name the id, whatever has it by now; the results are deleted only
\* if there were any when they were counted.
DeleteConfig(d) ==
    /\ Pending(d)
    /\ lock = Free
    /\ LET c == request[d].id
       IN  /\ config' = Restricted(config, DOMAIN config \ {c})
           /\ results' = IF request[d].refers THEN Restricted(results, DOMAIN results \ ResultsOf(c))
                         ELSE results
           /\ strays' = strays \cup {<<config[x].born, n>> : x \in DOMAIN config \cap {c}, n \in Met(d)}
    /\ Answered(d)
    /\ UNCHANGED <<data, hidden, lock, run, edits, faults, started>>

\* The busy timeout: the session is rolled back.
DeleteFails(d) ==
    /\ Pending(d)
    /\ lock # Free
    /\ Answered(d)
    /\ UNCHANGED <<db, lock, run, history>>

\* PATCH /api/tickers/{symbol}
PatchTicker(s) ==
    /\ Edit
    /\ hidden' = IF s \in hidden THEN hidden \ {s} ELSE hidden \cup {s}
    /\ UNCHANGED <<data, config, results, lock, run, request, faults, started, strays>>

\* An ingestion commits another reading.
Ingest(s, i) ==
    /\ Edit
    /\ data[s] # i
    /\ data' = [data EXCEPT ![s] = i]
    /\ UNCHANGED <<hidden, config, results, lock, run, request, faults, started, strays>>

-----------------------------------------------------------------------------
(* A run *)

\* job_run commits its row.
Start(r, scan) ==
    /\ ~Active(r) /\ r = CHOOSE q \in Runs : ~Active(q)
    /\ lock = Free
    /\ started < MaxRuns
    /\ started' = started + 1
    /\ Goes(r, [Idle EXCEPT !.pc = "configs", !.by = started + 1, !.scan = scan])
    /\ UNCHANGED <<db, lock, request, edits, faults, strays>>

StartScreener(r) == Start(r, FALSE)

\* The scan finds the universe synced already, as it syncs itself before every run.
StartScan(r) == Start(r, TRUE)

LoadConfigs(r) ==
    LET active == {c \in DOMAIN config : config[c].active}
    IN  /\ run[r].pc = "configs"
        /\ Goes(r, IF active = {} THEN [run[r] EXCEPT !.pc = "finish"]
                   ELSE [run[r] EXCEPT !.pc = "tickers", !.configs = Restricted(config, active)])
        /\ UNCHANGED <<db, lock, request, history>>

\* Explicit symbols are taken hidden or not.
LoadTickers(r) ==
    LET symbols == IF run[r].scan THEN Universe ELSE Symbols \ hidden
    IN  /\ run[r].pc = "tickers"
        /\ Goes(r, [run[r] EXCEPT !.pc = IF symbols = {} THEN "finish" ELSE "evaluate", !.symbols = symbols])
        /\ UNCHANGED <<db, lock, request, history>>

\* Mutant: the unscored first, the others by rising score.
AheadReversed(e, s, t) ==
    LET u == e[s].score  v == e[t].score
    IN  IF Null \in {u, v} THEN (u = Null /\ v # Null) \/ (u = v /\ s < t)
        ELSE u < v \/ (u = v /\ s < t)

\* Highest score first, the unscored last, then by symbol.
Ahead(e, s, t) ==
    LET u == e[s].score  v == e[t].score
    IN  IF Null \in {u, v} THEN (u # Null /\ v = Null) \/ (u = v /\ s < t)
        ELSE u > v \/ (u = v /\ s < t)

Bucket(s) == IF Profile[s].sector = Null THEN "_unknown" ELSE Profile[s].sector

\* _apply_sector_concentration: the passers beyond sector_max of their bucket.
Dropped(e, sector_max) ==
    {s \in DOMAIN e :
        /\ sector_max # Null /\ e[s].passed
        /\ Cardinality({t \in DOMAIN e : e[t].passed /\ Bucket(t) = Bucket(s) /\ Ahead(e, t, s)}) >= sector_max}

ConfigHere(r) == Min(DOMAIN run[r].configs)

\* What a symbol's evaluation comes to, by reading and configuration.
Evaluation ==
    [i \in DOMAIN Readings |-> [s \in Symbols |-> [b \in DOMAIN Bodies |->
        Evaluate(Readings[i], Profile[s], Bodies[b])]]]

\* The symbols are read one after the other, each from its own rows, so reading
\* them at once loses nothing.
EvaluateConfig(r) ==
    LET b == run[r].configs[ConfigHere(r)].body
        e == [s \in run[r].symbols |-> Evaluation[data[s]][s][b]]
        dropped == Dropped(e, Bodies[b].sector_max)
    IN  /\ run[r].pc = "evaluate"
        /\ Goes(r, [run[r] EXCEPT !.pc = "persist",
                    !.evaluations = [s \in DOMAIN e |->
                        [passed |-> e[s].passed /\ s \notin dropped,
                         score |-> IF s \in dropped THEN Null ELSE e[s].score,
                         on |-> data[s]]]])
        /\ UNCHANGED <<db, lock, request, history>>

\* _persist_evaluations: one statement for the whole configuration.
Persist(r) ==
    LET c == ConfigHere(r)
        e == run[r].evaluations
        rows == [k \in (DOMAIN e) \X {c} |->
                    [passed |-> e[k[1]].passed, score |-> e[k[1]].score,
                     on |-> e[k[1]].on, body |-> run[r].configs[c].body,
                     born |-> run[r].configs[c].born, by |-> run[r].by]]
        rest == Restricted(run[r].configs, DOMAIN run[r].configs \ {c})
    IN  /\ run[r].pc = "persist"
        /\ CanWrite(r)
        /\ lock' = r
        /\ Goes(r, [run[r] EXCEPT !.pc = IF DOMAIN rest = {} THEN "finish" ELSE "evaluate",
                                  !.configs = rest, !.evaluations = Empty, !.rows = Upsert(@, rows)])
        /\ UNCHANGED <<db, request, history>>

Commit(r) ==
    /\ results' = Upsert(results, run[r].rows)
    /\ lock' = IF lock = r THEN Free ELSE lock
    /\ Goes(r, Idle)

Finish(r) ==
    /\ run[r].pc = "finish"
    /\ CanWrite(r)
    /\ Commit(r)
    /\ UNCHANGED <<data, hidden, config, request, history>>

Fault == faults < MaxFaults /\ faults' = faults + 1

\* An exception (a lock timeout at the first upsert, say): recording the failure
\* commits what the configurations before it have written.
Fail(r) ==
    /\ Active(r)
    /\ Fault
    /\ Commit(r)
    /\ UNCHANGED <<data, hidden, config, request, edits, started, strays>>

Crash ==
    /\ \E r \in Runs : Active(r)
    /\ Fault
    /\ run' = [r \in Runs |-> Idle]
    /\ request' = [d \in Clients |-> NoRequest]
    /\ lock' = Free
    /\ UNCHANGED <<db, edits, started, strays>>

Next ==
    \/ \E b \in DOMAIN Bodies : \E active \in BOOLEAN :
          CreateConfig(b, active) \/ \E c \in DOMAIN config : ReplaceConfig(c, b, active)
    \/ \E d \in Clients :
          \/ \E c \in DOMAIN config, cascade \in BOOLEAN : CheckDelete(d, c, cascade)
          \/ DeleteConfig(d) \/ DeleteFails(d)
    \/ \E s \in Symbols : PatchTicker(s) \/ \E i \in DOMAIN Readings : Ingest(s, i)
    \/ \E r \in Runs :
          \/ StartScreener(r) \/ StartScan(r)
          \/ LoadConfigs(r) \/ LoadTickers(r) \/ EvaluateConfig(r) \/ Persist(r)
          \/ Finish(r) \/ Fail(r)
    \/ Crash

Spec == Init /\ [][Next]_vars

-----------------------------------------------------------------------------
(* Properties *)

Row == [passed : BOOLEAN, score : 0 .. 100 \cup {Null}]

\* Type correctness; a score is a percentage, and only a passing row has one.
TypeOK ==
    /\ data \in [Symbols -> DOMAIN Readings] /\ hidden \subseteq Symbols
    /\ DOMAIN config \subseteq 1 .. MaxId
    /\ (DOMAIN results) \subseteq Symbols \X (1 .. MaxId)
    /\ \A k \in DOMAIN results :
          /\ [passed |-> results[k].passed, score |-> results[k].score] \in Row
          /\ ~results[k].passed => results[k].score = Null
    /\ lock \in Runs \cup {Free}
    /\ \A r \in Runs : run[r].rows # Empty => lock = r
    /\ \A d \in Clients : request[d].id \in 0 .. MaxId /\ Met(d) \subseteq 1 .. started

\* The evaluation of a row before the sector cap.
First(k) == Evaluation[results[k].on][k[1]][results[k].body]

\* However runs overlap, overwrite each other's rows or break off between two
\* configurations: what one run left of a configuration never holds more passing
\* symbols of a sector than the cap, nor a dropped one that scored higher than a passing one.
BestOfSector ==
    \A k \in DOMAIN results :
        LET cap == Bodies[results[k].body].sector_max
            peers == {s \in Symbols :
                        /\ <<s, k[2]>> \in DOMAIN results /\ results[<<s, k[2]>>].by = results[k].by
                        /\ Bucket(s) = Bucket(k[1]) /\ First(<<s, k[2]>>).passed}
            firsts == [s \in peers |-> First(<<s, k[2]>>)]
            kept == {s \in peers : results[<<s, k[2]>>].passed}
        IN  cap # Null =>
              /\ Cardinality(kept) <= cap
              /\ \A s \in kept, t \in peers \ kept :
                    firsts[t].score # Null => firsts[s].score # Null /\ firsts[s].score >= firsts[t].score

\* No row is found under a configuration other than the one it was evaluated for,
\* although ids are handed out again and no foreign key is enforced: only the run
\* itself can have left such a row, and only if it was under way at some time of
\* the request that has deleted the configuration.
NoStrayResults ==
    \A k \in DOMAIN results :
        \/ <<results[k].born, results[k].by>> \in strays
        \/ k[2] \in DOMAIN config /\ config[k[2]].born = results[k].born

\* The columns each filter cannot do without.
Inputs(r, t) ==
    [near_200ema |-> {latest_close(r), r.ema_200}, near_50ema |-> {latest_close(r), r.ema_50},
     weekly_above_200ema |-> {latest_close(r), r.ema_200_weekly}, rsi_oversold |-> {r.rsi_14},
     bb_lower_touch |-> {latest_close(r), r.bb_lower}, iv_rank_high |-> {r.iv_rank},
     iv_percentile_high |-> {r.iv_percentile}, iv_above_hv |-> {r.iv_atm, r.hv_20},
     option_spread_pct |-> IF r.chain = {} THEN {Null} ELSE {},
     premium_economics |-> IF r.chain = {} THEN {Null} ELSE {},
     min_market_cap |-> {t.market_cap}, tier_allowed |-> {t.tier}]

Complete ==
    [i \in DOMAIN Readings |-> [s \in Symbols |-> [b \in DOMAIN Bodies |->
        LET inputs == Inputs(Readings[i], Profile[s])
        IN  \A f \in Bodies[b].required \cap DOMAIN inputs : Null \notin inputs[f]]]]

\* Missing data never lets a symbol through: every column that a required filter
\* of the row's configuration needs was there when the row was evaluated.
PassedOnData ==
    \A k \in DOMAIN results :
        results[k].passed => Complete[results[k].on][k[1]][results[k].body]

=============================================================================
