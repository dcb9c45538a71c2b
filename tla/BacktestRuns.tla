----------------------------- MODULE BacktestRuns -----------------------------
(***************************************************************************)
(* The life of a row of backtest_runs: POST /api/backtest/runs commits it  *)
(* as running and hands the work to a background task, which computes on a *)
(* session of its own and commits the results with the final status.       *)
(*                                                                         *)
(* The first row that a task flushes takes SQLite's write lock until the   *)
(* task commits or rolls back.  A statement that finds the lock taken      *)
(* waits 5 s and raises.  SQLite runs no cascade and hands rowids out      *)
(* again.  What a run computes is WheelBacktest's subject.                 *)
(***************************************************************************)
EXTENDS Integers, FiniteSets, FiniteSetsExt

CONSTANTS
    RunId,        \* rowids of backtest_runs
    Tasks,        \* background tasks that are ever started, in their order
    Days,         \* trading days
    Windows,      \* trading days of the periods that may be asked for
    MaxCrashes,   \* bound on the restarts of the process
    None

ASSUME IdsAssumption == RunId \cup Tasks \subseteq Nat \ {0} /\ Days \subseteq Nat
ASSUME WindowsAssumption == Windows \subseteq SUBSET Days
ASSUME NoneAssumption == None \notin Tasks /\ MaxCrashes \in Nat

Modes == {"filter", "strategy"}
Statuses == {"running", "completed", "failed"}
Steps == {"new", "queued", "days", "finish", "failing", "done", "lost"}

VARIABLES
    status,    \* status[i]: the status column, or "none"
    equity,    \* rows of backtest_equity; .task is history
    trades,    \* which tasks have rows in backtest_trades, under which run_id
    task,      \* the background tasks
    writer,    \* the task whose session holds the write lock, or None
    owner,     \* history: the task that the row was created for
    crashes    \* history: restarts of the process

vars == <<status, equity, trades, task, writer, owner, crashes>>

Equity == [run_id : RunId, date : Days, task : Tasks]
Trades == [run_id : RunId, task : Tasks]

NewTask == [pc |-> "new", run_id |-> 0, mode |-> "filter", window |-> {},
            pending |-> {}, traded |-> FALSE]

Init ==
    /\ status = [i \in RunId |-> "none"]
    /\ equity = {}
    /\ trades = {}
    /\ task = [t \in Tasks |-> NewTask]
    /\ writer = None
    /\ owner = [i \in RunId |-> None]
    /\ crashes = 0

Rows == {i \in RunId : status[i] # "none"}

RowOf(t) == task[t].run_id

\* Days that get an equity row.
EquityDays(t) == IF task[t].mode = "strategy" THEN task[t].window ELSE {}

-----------------------------------------------------------------------------
(* Requests *)

\* create_run: the largest rowid plus one, so a deleted last id comes back.
CreateRun(t, i, mode, window) ==
    /\ writer = None
    /\ task[t] = NewTask /\ \A u \in Tasks : u < t => task[u] # NewTask
    /\ \A j \in Rows : j < i
    /\ i = 1 \/ i - 1 \in Rows
    /\ status' = [status EXCEPT ![i] = "running"]
    /\ owner' = [owner EXCEPT ![i] = t]
    /\ task' = [task EXCEPT ![t] =
           [@ EXCEPT !.pc = "queued", !.run_id = i, !.mode = mode, !.window = window]]
    /\ UNCHANGED <<equity, trades, writer, crashes>>

\* delete_run, whatever the status; the results stay behind.
DeleteRun(i) ==
    /\ writer = None
    /\ i \in Rows
    /\ status' = [status EXCEPT ![i] = "none"]
    /\ owner' = [owner EXCEPT ![i] = None]
    /\ UNCHANGED <<equity, trades, task, writer, crashes>>

-----------------------------------------------------------------------------
(* The background task *)

Goes(t, pc) == task' = [task EXCEPT ![t].pc = pc]

\* The session is closed, with whatever it had not flushed.
Ends(t) == task' = [task EXCEPT ![t].pc = "done", ![t].pending = {}, ![t].traded = FALSE]

CanWrite(t) == writer \in {None, t}

\* Commit and rollback end the transaction and give the lock back.
Release(t) == writer' = IF writer = t THEN None ELSE writer

\* The row of a deleted run raises outside the runner's try.  A configuration
\* that is gone by now, an empty universe and, in a strategy run, a window
\* without trading days fail the run.
Load(t) ==
    /\ task[t].pc = "queued"
    /\ \/ RowOf(t) \notin Rows /\ Ends(t)
       \/ Goes(t, "failing")
       \/ /\ RowOf(t) \in Rows
          /\ task[t].mode = "strategy" => task[t].window # {}
          /\ task' = [task EXCEPT ![t].pc = "days", ![t].pending = EquityDays(t)]
    /\ UNCHANGED <<status, equity, trades, writer, owner, crashes>>

\* Primary key (run_id, date).
Free(t, days) == \A e \in equity : ~(e.run_id = RowOf(t) /\ e.date \in days)

\* _step_day: the next day's first query flushes the day's equity row.
FlushDay(t) ==
    LET day == Min(task[t].pending)
    IN  /\ task[t].pc = "days"
        /\ Cardinality(task[t].pending) > 1
        /\ CanWrite(t)
        /\ Free(t, {day})
        /\ writer' = t
        /\ task' = [task EXCEPT ![t].pending = @ \ {day}]
        /\ UNCHANGED <<status, equity, trades, owner, crashes>>

\* _flush_trades, with the last day's row; in a filter run the first _write_trade.
FlushTrades(t) ==
    /\ task[t].pc = "days"
    /\ ~task[t].traded
    /\ Cardinality(task[t].pending) <= 1
    /\ task[t].window # {}
    /\ CanWrite(t)
    /\ Free(t, task[t].pending)
    /\ writer' = t
    /\ task' = [task EXCEPT ![t].pending = {}, ![t].traded = TRUE]
    /\ UNCHANGED <<status, equity, trades, owner, crashes>>

\* Without trades the last day's row is still to be flushed when the try ends.
DaysEnd(t) ==
    /\ task[t].pc = "days"
    /\ Cardinality(task[t].pending) <= 1
    /\ Goes(t, "finish")
    /\ UNCHANGED <<status, equity, trades, writer, owner, crashes>>

\* Mutant: what was flushed before the exception is kept.
RaiseKeepsRows(t) ==
    /\ task[t].pc = "days"
    /\ Goes(t, "failing")
    /\ Release(t)
    /\ equity' = equity \cup
          {[run_id |-> RowOf(t), date |-> d, task |-> t] :
              d \in EquityDays(t) \ task[t].pending}
    /\ UNCHANGED <<status, trades, owner, crashes>>

\* Whatever the days raise (a lock not given, a day that is already there, a
\* price) leads to _mark_failed, which begins by rolling back.
Raise(t) ==
    /\ task[t].pc = "days"
    /\ task' = [task EXCEPT ![t].pc = "failing", ![t].pending = {}, ![t].traded = FALSE]
    /\ Release(t)
    /\ UNCHANGED <<status, equity, trades, owner, crashes>>

\* Mutant: a status that the table does not know.
MarkFailedAsError(t) ==
    /\ task[t].pc = "failing"
    /\ \/ /\ RowOf(t) \in Rows /\ writer = None
          /\ status' = [status EXCEPT ![RowOf(t)] = "error"]
       \/ /\ RowOf(t) \notin Rows \/ writer # None
          /\ UNCHANGED status
    /\ Ends(t)
    /\ UNCHANGED <<equity, trades, writer, owner, crashes>>

\* The rest of _mark_failed.  The background task swallows the timeout of its
\* UPDATE, and the row keeps its status.
MarkFailed(t) ==
    /\ task[t].pc = "failing"
    /\ \/ /\ RowOf(t) \in Rows /\ writer = None
          /\ status' = [status EXCEPT ![RowOf(t)] = "failed"]
       \/ /\ RowOf(t) \notin Rows \/ writer # None
          /\ UNCHANGED status
    /\ Ends(t)
    /\ UNCHANGED <<equity, trades, writer, owner, crashes>>

\* An UPDATE of a row that is gone raises (StaleDataError).
CanFinish(t) ==
    /\ CanWrite(t)
    /\ Free(t, task[t].pending)
    /\ RowOf(t) \in Rows

\* Mutant: the last day's row is not flushed when there are no trades.
FinishWithoutTail(t) ==
    /\ task[t].pc = "finish"
    /\ CanFinish(t)
    /\ status' = [status EXCEPT ![RowOf(t)] = "completed"]
    /\ equity' = equity \cup
          {[run_id |-> RowOf(t), date |-> d, task |-> t] :
              d \in EquityDays(t) \ task[t].pending}
    /\ trades' = trades \cup IF task[t].traded THEN {[run_id |-> RowOf(t), task |-> t]} ELSE {}
    /\ Release(t)
    /\ Ends(t)
    /\ UNCHANGED <<owner, crashes>>

\* The final status and the results are one commit.
Finish(t) ==
    /\ task[t].pc = "finish"
    /\ CanFinish(t)
    /\ status' = [status EXCEPT ![RowOf(t)] = "completed"]
    /\ equity' = equity \cup
          {[run_id |-> RowOf(t), date |-> d, task |-> t] :
              d \in EquityDays(t)}
    /\ trades' = trades \cup IF task[t].traded THEN {[run_id |-> RowOf(t), task |-> t]} ELSE {}
    /\ Release(t)
    /\ Ends(t)
    /\ UNCHANGED <<owner, crashes>>

\* Mutant: a final commit that fails is tried again.
FinishRetries(t) ==
    /\ task[t].pc = "finish"
    /\ ~CanFinish(t)
    /\ Release(t)
    /\ Goes(t, "days")
    /\ UNCHANGED <<status, equity, trades, owner, crashes>>

\* Outside the try nothing records the failure.
FinishFails(t) ==
    /\ task[t].pc = "finish"
    /\ ~CanFinish(t)
    /\ Release(t)
    /\ Ends(t)
    /\ UNCHANGED <<status, equity, trades, owner, crashes>>

\* The process dies: transactions are rolled back, tasks are not resumed.
Crash ==
    /\ crashes < MaxCrashes
    /\ crashes' = crashes + 1
    /\ writer' = None
    /\ task' = [t \in Tasks |->
           IF task[t].pc \in {"new", "done"} THEN task[t]
           ELSE [task[t] EXCEPT !.pc = "lost", !.pending = {}, !.traded = FALSE]]
    /\ UNCHANGED <<status, equity, trades, owner>>

Step(t) ==
    \/ Load(t) \/ FlushDay(t) \/ FlushTrades(t) \/ DaysEnd(t) \/ Raise(t)
    \/ MarkFailed(t) \/ Finish(t) \/ FinishFails(t)

Next ==
    \/ \E t \in Tasks, i \in RunId, mode \in Modes, window \in Windows :
          CreateRun(t, i, mode, window)
    \/ \E i \in RunId : DeleteRun(i)
    \/ \E t \in Tasks : Step(t)
    \/ Crash

\* A background task runs on until it is over; nothing else has to happen.
Fairness == \A t \in Tasks : WF_vars(Step(t))

Spec == Init /\ [][Next]_vars /\ Fairness

-----------------------------------------------------------------------------
(* Properties *)

\* Type correctness.
TypeOK ==
    /\ status \in [RunId -> Statuses \cup {"none"}]
    /\ equity \subseteq Equity /\ trades \subseteq Trades
    /\ task \in [Tasks -> [pc : Steps, run_id : RunId \cup {0}, mode : Modes,
                           window : SUBSET Days, pending : SUBSET Days, traded : BOOLEAN]]
    /\ writer \in Tasks \cup {None}
    /\ owner \in [RunId -> Tasks \cup {None}]
    /\ crashes \in 0 .. MaxCrashes

DaysStored(i) == {e.date : e \in {f \in equity : f.run_id = i}}

\* Ids that have been given out once: the tasks of an id that comes back write
\* into each other's rows.
Unshared == {i \in RunId : Cardinality({t \in Tasks : RowOf(t) = i}) = 1}

\* A run's results come and go as a whole: a strategy run has an equity row for
\* every day of its window or none, whichever of its steps failed, was locked out
\* by another run or died with the process.
AllOrNothing ==
    \A t \in Tasks :
        {e.date : e \in {f \in equity : f.task = t}} \in {{}, task[t].window}

\* "Rolls back any pending writes from the failed run before updating the row, so
\* the row reflects the error rather than partial mid-run state" (_mark_failed):
\* what the status says of a run and what its tables hold agree in every state
\* that another session can see.
ResultsMatchStatus ==
    \A i \in Unshared \cap Rows :
        LET t == owner[i]
        IN  IF status[i] = "completed"
            THEN DaysStored(i) = EquityDays(t)
            ELSE DaysStored(i) = {} /\ \A r \in trades : r.run_id # i

\* Every task comes to an end, however many of them wait for one lock.
TaskEnds == \A t \in Tasks : task[t].pc = "queued" ~> task[t].pc \in {"done", "lost"}

=============================================================================
