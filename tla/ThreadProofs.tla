----------------------------- MODULE ThreadProofs -----------------------------
(***************************************************************************)
(* Proofs about threads that look at the database first and write to it    *)
(* later, beside each other: the background tasks of BacktestRuns, the     *)
(* requests of PositionRequests and the jobs of DailyCycle.  The three do  *)
(* not interact here, and each part has an inductive invariant of its own; *)
(* what they share is its core, that what a thread has seen still holds    *)
(* when it writes.                                                         *)
(*                                                                         *)
(* Background tasks, for every number of runs, tasks, days and restarts:   *)
(* results are stored whole or not at all, a run's status agrees with      *)
(* them, and the write lock is never left behind.                          *)
(*                                                                         *)
(* Requests, for every number of clients, positions and legs: as long as   *)
(* no two about one position overlap, legs match states, a leg is settled  *)
(* once, and every position moves along the wheel.                         *)
(*                                                                         *)
(* Jobs, for every calendar, schedule, watchlist and number of threads: an *)
(* alert goes out once as long as the runs of its job do not overlap, and  *)
(* the screener works on the day's bars once they have been committed.     *)
(***************************************************************************)
EXTENDS BacktestRuns, PositionRequests, DailyCycle, FiniteTheorems

(***************************************************************************)
(* Background tasks                                                        *)
(***************************************************************************)

TaskRecords == [pc : Steps, run_id : RunId \cup {0}, mode : Modes,
                window : SUBSET Days, pending : SUBSET Days, traded : BOOLEAN]

\* Finitely many tasks have been started, and those that have not are blank.
Started == {t \in Tasks : task[t].pc # "new"}
Blank ==
    /\ IsFiniteSet(Started)
    /\ \A t \in Tasks : IF task[t].pc = "new" THEN task[t] = NewTask ELSE RowOf(t) \in RunId

\* A row in use was created for a task, which writes to that row.
Owned ==
    \A i \in RunId :
        /\ owner[i] = None <=> status[i] = "none"
        /\ owner[i] # None => RowOf(owner[i]) = i

\* Rows of results are written by tasks that are done, under their own run_id.
DaysOf(t) == {e.date : e \in {f \in equity : f.task = t}}
Stored ==
    /\ \A e \in equity : task[e.task].pc = "done" /\ e.run_id = RowOf(e.task)
    /\ \A r \in trades : task[r.task].pc = "done" /\ r.run_id = RowOf(r.task)
    /\ \A t \in Tasks : DaysOf(t) \in {{}, EquityDays(t)}

\* What the status says of a run that shares its id with no other.
Sole(i) == \A u \in Tasks : RowOf(u) = i => u = owner[i]
Told ==
    \A i \in Rows :
        Sole(i) => LET t == owner[i]
                   IN  IF status[i] = "completed"
                       THEN task[t].pc = "done" /\ DaysOf(t) = EquityDays(t)
                       ELSE /\ \A e \in equity : e.task # t
                            /\ \A r \in trades : r.task # t

\* The lock belongs to a task that is between its first write and its commit.
LockHeld == writer # None => task[writer].pc \in {"days", "finish"}

\* The inductive invariant.
IInv == TypeOK /\ Blank /\ Owned /\ Stored /\ Told /\ LockHeld

-----------------------------------------------------------------------------

LEMMA InitIInv == Init => IInv
  <1> SUFFICES ASSUME Init PROVE IInv
    OBVIOUS
  <1> USE DEF Init
  <1>1. NewTask \in TaskRecords
    <2>1. NewTask.traded \in BOOLEAN
      BY Zenon DEF NewTask
    <2>2. QED
      BY <2>1 DEF NewTask, TaskRecords, Steps, Modes
  <1>2. TypeOK
    BY <1>1, NoneAssumption DEF TypeOK, TaskRecords, Statuses
  <1>3. Blank
    <2>1. Started = {}
      BY DEF Started, NewTask
    <2>2. QED
      BY <2>1, FS_EmptySet DEF Blank, NewTask
  <1>4. Stored
    BY DEF Stored, DaysOf
  <1>5. Owned /\ Told /\ LockHeld
    BY DEF Owned, Told, Rows, LockHeld
  <1>6. QED
    BY <1>2, <1>3, <1>4, <1>5 DEF IInv

\* The days a task has stored, and the days it should, are its own affair.
LEMMA DaysOfKeeps ==
    ASSUME NEW t \in Tasks, UNCHANGED equity PROVE DaysOf(t)' = DaysOf(t)
  BY DEF DaysOf

LEMMA EquityDaysKeeps ==
    ASSUME NEW t \in Tasks, task'[t].mode = task[t].mode, task'[t].window = task[t].window
    PROVE  EquityDays(t)' = EquityDays(t)
  BY DEF EquityDays

\* One task goes on, storing nothing; at most it records its failure.
LEMMA QuietStep ==
    ASSUME IInv, NEW t \in Tasks,
           task' \in [Tasks -> TaskRecords],
           \A u \in Tasks \ {t} : task'[u] = task[u],
           task'[t].run_id = task[t].run_id,
           task'[t].mode = task[t].mode,
           task'[t].window = task[t].window,
           task[t].pc \notin {"new", "done"}, task'[t].pc # "new",
           UNCHANGED <<equity, trades, owner, crashes>>,
           \/ status' = status
           \/ (RowOf(t) \in Rows /\ status' = [status EXCEPT ![RowOf(t)] = "failed"]),
           writer' \in Tasks \cup {None}, LockHeld'
    PROVE  IInv'
  <1> USE DEF IInv
  <1>1. status' \in [RunId -> Statuses \cup {"none"}] /\ Rows' = Rows
    BY DEF TypeOK, Statuses, Rows
  <1>2. TypeOK'
    BY <1>1 DEF TypeOK, TaskRecords
  <1>3. \A u \in Tasks : RowOf(u)' = RowOf(u) /\ EquityDays(u)' = EquityDays(u)
    BY DEF RowOf, EquityDays
  <1>4. Started' = Started
    BY DEF Started
  <1>5. Blank'
    BY <1>3, <1>4 DEF Blank
  <1>6. Owned'
    BY <1>1, <1>3 DEF TypeOK, Owned, Rows
  <1>7. \A u \in Tasks : DaysOf(u)' = DaysOf(u)
    BY DaysOfKeeps
  <1>8. \A u \in Tasks : task[u].pc = "done" => task'[u].pc = "done"
    OBVIOUS
  <1>9. equity \subseteq Equity /\ trades \subseteq Trades
    BY DEF TypeOK
  <1>10. Stored'
    BY <1>3, <1>7, <1>8, <1>9 DEF Stored, Equity, Trades
  <1>11. Told'
    <2> SUFFICES ASSUME NEW i \in Rows, Sole(i)'
                 PROVE  LET u == owner[i]
                        IN  IF status'[i] = "completed"
                            THEN task'[u].pc = "done" /\ DaysOf(u)' = EquityDays(u)'
                            ELSE /\ \A e \in equity : e.task # u
                                 /\ \A r \in trades : r.task # u
      BY <1>1 DEF Told
    <2>1. Sole(i)
      BY <1>3 DEF Sole
    <2>2. owner[i] \in Tasks
      BY DEF TypeOK, Owned, Rows
    <2>3. CASE status'[i] = status[i]
      BY <1>3, <1>7, <1>8, <2>1, <2>2, <2>3 DEF Told
    <2>4. CASE status'[i] # status[i]
      <3>1. RowOf(t) = i /\ status'[i] = "failed"
        BY <2>4 DEF TypeOK, Rows
      <3>2. owner[i] = t
        BY <3>1, <2>1 DEF Sole
      <3>3. \A e \in equity : e.task # t
        BY DEF Stored
      <3>4. \A r \in trades : r.task # t
        BY DEF Stored
      <3>5. QED
        BY <3>1, <3>2, <3>3, <3>4
    <2>5. QED
      BY <2>3, <2>4
  <1>12. QED
    BY <1>2, <1>5, <1>6, <1>10, <1>11

\* A task whose session is closed keeps what it was asked for.
LEMMA Closes ==
    ASSUME task \in [Tasks -> TaskRecords], NEW t \in Tasks, NEW pc \in Steps,
           task' = [task EXCEPT ![t].pc = pc, ![t].pending = {}, ![t].traded = FALSE]
    PROVE  /\ task' \in [Tasks -> TaskRecords]
           /\ \A u \in Tasks \ {t} : task'[u] = task[u]
           /\ task'[t].run_id = task[t].run_id
           /\ task'[t].mode = task[t].mode
           /\ task'[t].window = task[t].window
           /\ task'[t].pc = pc
  <1> DEFINE q == [task[t] EXCEPT !.pc = pc, !.pending = {}, !.traded = FALSE]
  <1>1. FALSE \in BOOLEAN
    BY Zenon
  <1>2. q \in TaskRecords
    BY <1>1 DEF TaskRecords
  <1>3. task' = [task EXCEPT ![t] = q]
    OBVIOUS
  <1>4. /\ q.run_id = task[t].run_id
        /\ q.mode = task[t].mode
        /\ q.window = task[t].window
        /\ q.pc = pc
    BY DEF TaskRecords
  <1> HIDE DEF q
  <1>5. QED
    BY <1>2, <1>3, <1>4, ZenonT(60)

\* Every step of a task but the one that stores its results.
LEMMA TaskStep ==
    ASSUME IInv, NEW t \in Tasks,
           \/ Load(t) \/ FlushDay(t) \/ FlushTrades(t) \/ DaysEnd(t) \/ Raise(t)
           \/ MarkFailed(t) \/ FinishFails(t)
    PROVE  IInv'
  <1> USE DEF Goes, Ends, Release
  <1>1. /\ task \in [Tasks -> TaskRecords]
        /\ writer \in Tasks \cup {None}
        /\ writer # None => task[writer].pc \in {"days", "finish"}
    BY DEF IInv, TypeOK, TaskRecords, LockHeld
  <1>2. /\ task[t].window \subseteq Days
        /\ task[t].pending \subseteq Days
    BY <1>1 DEF TaskRecords
  <1>3. EquityDays(t) \subseteq Days
    BY <1>2 DEF EquityDays
  <1>4. TRUE \in BOOLEAN /\ FALSE \in BOOLEAN
    BY Zenon
  <1>5. CASE Load(t)
    <2> USE <1>5 DEF Load
    <2>1. task' \in [Tasks -> TaskRecords]
      BY <1>1, <1>3, <1>4 DEF TaskRecords, Steps
    <2>2. /\ \A u \in Tasks \ {t} : task'[u] = task[u]
          /\ task'[t].run_id = task[t].run_id
          /\ task'[t].mode = task[t].mode
          /\ task'[t].window = task[t].window
          /\ task'[t].pc \in {"done", "failing", "days"}
      BY <1>1 DEF TaskRecords
    <2>3. LockHeld'
      BY <1>1, <2>2 DEF LockHeld
    <2>4. QED
      BY <1>1, <2>1, <2>2, <2>3, QuietStep
  <1>6. CASE FlushDay(t)
    <2> USE <1>6 DEF FlushDay
    <2>1. task' \in [Tasks -> TaskRecords]
      BY <1>1, <1>2 DEF TaskRecords, Steps
    <2>2. QED
      BY <1>1, <2>1, QuietStep DEF LockHeld
  <1>7. CASE FlushTrades(t)
    <2> USE <1>7 DEF FlushTrades
    <2>1. task' \in [Tasks -> TaskRecords]
      BY <1>1, <1>4 DEF TaskRecords, Steps
    <2>2. QED
      BY <1>1, <2>1, QuietStep DEF LockHeld
  <1>8. CASE DaysEnd(t)
    <2> USE <1>8 DEF DaysEnd
    <2>1. task' \in [Tasks -> TaskRecords]
      BY <1>1 DEF TaskRecords, Steps
    <2>2. QED
      BY <1>1, <2>1, QuietStep DEF LockHeld
  <1>9. CASE Raise(t) \/ MarkFailed(t) \/ FinishFails(t)
    <2>1. \E pc \in {"failing", "done"} :
              task' = [task EXCEPT ![t].pc = pc, ![t].pending = {}, ![t].traded = FALSE]
      BY <1>9 DEF Raise, MarkFailed, FinishFails
    <2>2. /\ task' \in [Tasks -> TaskRecords]
          /\ \A u \in Tasks \ {t} : task'[u] = task[u]
          /\ task'[t].run_id = task[t].run_id
          /\ task'[t].mode = task[t].mode
          /\ task'[t].window = task[t].window
          /\ task'[t].pc \in {"failing", "done"}
      BY <1>1, <2>1, Closes, ZenonT(60) DEF Steps
    <2>3. /\ task[t].pc \in {"days", "failing", "finish"}
          /\ UNCHANGED <<equity, trades, owner, crashes>>
          /\ \/ status' = status
             \/ (RowOf(t) \in Rows /\ status' = [status EXCEPT ![RowOf(t)] = "failed"])
      BY <1>9 DEF Raise, MarkFailed, FinishFails
    <2>4. /\ writer' \in {writer, None}
          /\ writer = t => (writer' = None \/ task[t].pc = "failing")
      BY <1>9 DEF Raise, MarkFailed, FinishFails
    <2>5. LockHeld'
      BY <1>1, <2>2, <2>4 DEF LockHeld
    <2> HIDE DEF Goes, Ends, Release
    <2>6. QED
      BY <1>1, <2>2, <2>3, <2>4, <2>5, QuietStep
  <1>10. QED
    BY <1>5, <1>6, <1>7, <1>8, <1>9

\* The one step that stores results stores all of them, with the status.
LEMMA FinishStep ==
    ASSUME IInv, NEW t \in Tasks, Finish(t)
    PROVE  IInv'
  <1> USE DEF IInv, Finish, CanFinish
  <1> DEFINE i == RowOf(t)
  <1>1. i \in RunId /\ status[i] # "none" /\ owner[i] \in Tasks
    BY DEF Rows, TypeOK, Owned
  <1>2. task \in [Tasks -> TaskRecords] /\ task[t].pc = "finish"
    BY DEF TypeOK, TaskRecords
  <1>3. /\ task' \in [Tasks -> TaskRecords]
        /\ \A u \in Tasks \ {t} : task'[u] = task[u]
        /\ task'[t].run_id = task[t].run_id
        /\ task'[t].mode = task[t].mode
        /\ task'[t].window = task[t].window
        /\ task'[t].pc = "done"
    BY <1>2, Closes DEF Ends, Steps
  <1>4. \A u \in Tasks : RowOf(u)' = RowOf(u) /\ EquityDays(u)' = EquityDays(u)
    BY <1>3 DEF RowOf, EquityDays
  <1>5. EquityDays(t) \subseteq Days
    BY <1>2 DEF EquityDays, TaskRecords
  <1>6. Rows' = Rows
    BY <1>1 DEF Rows, TypeOK
  <1> DEFINE new == {[run_id |-> i, date |-> d, task |-> t] : d \in EquityDays(t)}
  <1>7. equity' = equity \cup new /\ new \subseteq Equity
    BY <1>1, <1>5 DEF Equity
  <1>8. /\ \A e \in new : e.task = t /\ e.run_id = i
        /\ {e.date : e \in new} = EquityDays(t)
    <2>1. \A e \in new : e.task = t /\ e.run_id = i /\ e.date \in EquityDays(t)
      OBVIOUS
    <2>2. ASSUME NEW d \in EquityDays(t) PROVE \E e \in new : e.date = d
      <3> DEFINE e == [run_id |-> i, date |-> d, task |-> t]
      <3>1. e \in new /\ e.date = d
        OBVIOUS
      <3> HIDE DEF e, new
      <3>2. QED
        BY <3>1
    <2> HIDE DEF new
    <2>3. QED
      BY <2>1, <2>2
  <1>9. /\ \A r \in trades' : r \in trades \/ (r.task = t /\ r.run_id = i)
        /\ trades \subseteq trades' /\ trades' \subseteq Trades
    <2> DEFINE row == [run_id |-> i, task |-> t]
    <2>1. row \in Trades /\ row.task = t /\ row.run_id = i
      BY <1>1 DEF Trades
    <2>2. trades' = trades \cup IF task[t].traded THEN {row} ELSE {}
      OBVIOUS
    <2> HIDE DEF row, i
    <2>3. QED
      BY <2>1, <2>2 DEF TypeOK
  <1> HIDE DEF i, new
  <1>10. TypeOK'
    <2>1. status' \in [RunId -> Statuses \cup {"none"}]
      BY DEF TypeOK, Statuses
    <2>2. writer' \in Tasks \cup {None}
      BY DEF TypeOK, Release
    <2>3. QED
      BY <1>3, <1>7, <1>9, <2>1, <2>2 DEF TypeOK, TaskRecords
  <1>11. Blank'
    <2>1. Started' = Started
      BY <1>2, <1>3 DEF Started
    <2>2. QED
      BY <1>2, <1>3, <1>4, <2>1 DEF Blank
  <1>12. Owned'
    BY <1>1, <1>4 DEF Owned, TypeOK, i
  <1>13. (\A e \in equity : e.task # t) /\ (\A r \in trades : r.task # t)
    BY <1>2 DEF Stored
  <1>14. DaysOf(t)' = EquityDays(t)
    BY <1>7, <1>8, <1>13 DEF DaysOf
  <1>15. \A u \in Tasks \ {t} : DaysOf(u)' = DaysOf(u)
    BY <1>7, <1>8 DEF DaysOf
  <1>16. Stored'
    <2>1. \A e \in equity' : task'[e.task].pc = "done" /\ e.run_id = RowOf(e.task)'
      <3>1. \A e \in equity : e.task \in Tasks
        BY DEF TypeOK, Equity
      <3>2. QED
        BY <1>3, <1>4, <1>7, <1>8, <3>1 DEF Stored, i
    <2>2. \A r \in trades' : task'[r.task].pc = "done" /\ r.run_id = RowOf(r.task)'
      <3>1. \A r \in trades : r.task \in Tasks
        BY DEF TypeOK, Trades
      <3>2. QED
        BY <1>3, <1>4, <1>9, <3>1 DEF Stored, i
    <2>3. \A u \in Tasks : DaysOf(u)' \in {{}, EquityDays(u)'}
      BY <1>4, <1>14, <1>15 DEF Stored
    <2>4. QED
      BY <2>1, <2>2, <2>3 DEF Stored
  <1>17. Told'
    <2> SUFFICES ASSUME NEW j \in Rows, Sole(j)'
                 PROVE  LET u == owner[j]
                        IN  IF status'[j] = "completed"
                            THEN task'[u].pc = "done" /\ DaysOf(u)' = EquityDays(u)'
                            ELSE /\ \A e \in equity' : e.task # u
                                 /\ \A r \in trades' : r.task # u
      BY <1>6 DEF Told
    <2>1. Sole(j)
      BY <1>4 DEF Sole
    <2>2. owner[j] \in Tasks /\ RowOf(owner[j]) = j
      BY DEF TypeOK, Owned, Rows
    <2>3. CASE j = i
      <3>1. owner[j] = t /\ status'[j] = "completed"
        BY <1>1, <2>1, <2>3 DEF Sole, TypeOK, i
      <3>2. QED
        BY <1>3, <1>4, <1>14, <3>1
    <2>4. CASE j # i
      <3>1. owner[j] # t /\ status'[j] = status[j]
        BY <2>2, <2>4 DEF TypeOK, Rows, i
      <3>2. QED
        BY <1>3, <1>4, <1>7, <1>8, <1>9, <1>15, <2>1, <2>2, <3>1 DEF Told
    <2>5. QED
      BY <2>3, <2>4
  <1>18. LockHeld'
    BY <1>3 DEF LockHeld, Release, TypeOK
  <1>19. QED
    BY <1>10, <1>11, <1>12, <1>16, <1>17, <1>18

\* A row that is created again shares its id with the task it had before; one
\* that is new has no results yet.
LEMMA CreateStep ==
    ASSUME IInv, NEW t \in Tasks, NEW i \in RunId, NEW mode \in Modes, NEW window \in Windows,
           CreateRun(t, i, mode, window)
    PROVE  IInv'
  <1> USE DEF IInv, CreateRun
  <1> DEFINE q == [task[t] EXCEPT !.pc = "queued", !.run_id = i, !.mode = mode,
                                  !.window = window]
  <1>1. /\ task \in [Tasks -> TaskRecords] /\ task[t].pc = "new"
        /\ status[i] = "none" /\ owner[i] = None
    <2>1. i \notin Rows
      BY IdsAssumption DEF Rows
    <2>2. QED
      BY <2>1 DEF TypeOK, TaskRecords, NewTask, Rows, Owned
  <1>2. task' = [task EXCEPT ![t] = q]
    BY <1>1
  <1>3. /\ q \in TaskRecords
        /\ q.pc = "queued" /\ q.run_id = i
    <2>1. window \in SUBSET Days /\ i \in RunId \cup {0} /\ "queued" \in Steps
      BY WindowsAssumption DEF Steps
    <2>2. task[t] \in TaskRecords
      BY <1>1
    <2> HIDE DEF IInv, CreateRun
    <2>3. QED
      BY <2>1, <2>2 DEF TaskRecords
  <1> HIDE DEF q
  <1>4. /\ task' \in [Tasks -> TaskRecords]
        /\ task'[t].pc = "queued" /\ task'[t].run_id = i
        /\ \A u \in Tasks \ {t} : task'[u] = task[u]
    BY <1>1, <1>2, <1>3
  <1>5. \A u \in Tasks \ {t} : RowOf(u)' = RowOf(u) /\ EquityDays(u)' = EquityDays(u)
    BY <1>4 DEF RowOf, EquityDays
  <1>6. (\A e \in equity : e.task # t) /\ (\A r \in trades : r.task # t)
    BY <1>1 DEF Stored
  <1>7. \A u \in Tasks : DaysOf(u)' = DaysOf(u)
    BY DaysOfKeeps
  <1>8. TypeOK'
    BY <1>4 DEF TypeOK, TaskRecords, Statuses
  <1>9. Blank'
    <2>1. Started' = Started \cup {t}
      BY <1>4 DEF Started
    <2>2. IsFiniteSet(Started')
      BY <2>1, FS_AddElement DEF Blank
    <2>3. QED
      BY <1>4, <1>5, <2>2 DEF Blank, RowOf
  <1>10. Owned'
    <2>1. \A j \in RunId : owner[j] # t
      BY <1>1, IdsAssumption, NoneAssumption DEF Owned, NewTask, RowOf
    <2>2. t # None
      BY NoneAssumption
    <2>3. QED
      BY <1>1, <1>4, <2>1, <2>2 DEF Owned, TypeOK, RowOf
  <1>11. Stored'
    <2>1. \A e \in equity : e.task \in Tasks
      BY DEF TypeOK, Equity
    <2>2. \A r \in trades : r.task \in Tasks
      BY DEF TypeOK, Trades
    <2>3. DaysOf(t) = {}
      BY <1>6 DEF DaysOf
    <2>4. QED
      BY <1>4, <1>5, <1>6, <1>7, <2>1, <2>2, <2>3 DEF Stored
  <1>12. Told'
    <2>1. ASSUME NEW j \in Rows', Sole(j)', NEW u, u = owner'[j]
          PROVE  IF status'[j] = "completed"
                 THEN task'[u].pc = "done" /\ DaysOf(u)' = EquityDays(u)'
                 ELSE /\ \A e \in equity : e.task # u
                      /\ \A r \in trades : r.task # u
      <3>1. CASE j = i
        BY <1>6, <2>1, <3>1 DEF TypeOK
      <3>2. CASE j # i
        <4>1. j \in Rows /\ status'[j] = status[j] /\ owner[j] = u
          BY <2>1, <3>2 DEF Rows, TypeOK
        <4>2. u \in Tasks \ {t}
          BY <1>1, <4>1, IdsAssumption DEF Owned, NewTask, RowOf, Rows, TypeOK
        <4>3. Sole(j)
          BY <1>1, <1>5, IdsAssumption, <2>1, <4>1, <3>2 DEF Sole, Rows, NewTask, RowOf
        <4>4. /\ task'[u] = task[u]
              /\ DaysOf(u)' = DaysOf(u)
              /\ EquityDays(u)' = EquityDays(u)
          BY <1>4, <1>5, <1>7, <4>2
        <4>5. QED
          BY <4>1, <4>3, <4>4 DEF Told
      <3>3. QED
        BY <3>1, <3>2
    <2>2. UNCHANGED <<equity, trades>>
      OBVIOUS
    <2> HIDE DEF CreateRun, IInv
    <2>3. QED
      BY <2>1, <2>2 DEF Told
  <1>13. LockHeld'
    BY DEF LockHeld
  <1>14. QED
    BY <1>8, <1>9, <1>10, <1>11, <1>12, <1>13

LEMMA DeleteStep ==
    ASSUME IInv, NEW i \in RunId, DeleteRun(i)
    PROVE  IInv'
  <1> USE DEF IInv, DeleteRun
  <1>1. TypeOK'
    BY DEF TypeOK
  <1>2. Blank' /\ LockHeld'
    BY DEF Blank, Started, RowOf, LockHeld
  <1>3. Owned'
    BY DEF Owned, TypeOK, RowOf
  <1>4. \A t \in Tasks : DaysOf(t)' = DaysOf(t) /\ EquityDays(t)' = EquityDays(t)
    BY DEF DaysOf, EquityDays
  <1>5. Stored'
    BY <1>4 DEF Stored, RowOf
  <1>6. Told'
    <2>1. Rows' = Rows \ {i}
      BY DEF Rows, TypeOK
    <2>2. \A j \in Rows' : /\ status'[j] = status[j] /\ owner'[j] = owner[j]
                           /\ Sole(j)' <=> Sole(j)
                           /\ owner[j] \in Tasks
      BY <2>1 DEF Rows, TypeOK, Sole, RowOf, Owned
    <2>3. QED
      BY <1>4, <2>1, <2>2 DEF Told
  <1>7. QED
    BY <1>1, <1>2, <1>3, <1>5, <1>6

LEMMA CrashStep ==
    ASSUME IInv, Crash
    PROVE  IInv'
  <1> USE DEF IInv, Crash
  <1>1. task \in [Tasks -> TaskRecords]
    BY DEF TypeOK, TaskRecords
  <1>2. ASSUME NEW t \in Tasks
        PROVE  /\ task'[t] \in TaskRecords
               /\ task'[t].run_id = task[t].run_id
               /\ task'[t].mode = task[t].mode
               /\ task'[t].window = task[t].window
               /\ task[t].pc \in {"new", "done"} => task'[t] = task[t]
               /\ task'[t].pc = "new" <=> task[t].pc = "new"
    <2>1. FALSE \in BOOLEAN
      BY Zenon
    <2> DEFINE q == [task[t] EXCEPT !.pc = "lost", !.pending = {}, !.traded = FALSE]
    <2>2. /\ q \in TaskRecords
          /\ q.pc = "lost"
          /\ q.run_id = task[t].run_id
          /\ q.mode = task[t].mode
          /\ q.window = task[t].window
      BY <1>1, <2>1 DEF TaskRecords, Steps
    <2>3. task'[t] = IF task[t].pc \in {"new", "done"} THEN task[t] ELSE q
      OBVIOUS
    <2> HIDE DEF q
    <2>4. QED
      BY <1>1, <2>2, <2>3
  <1>frame. /\ UNCHANGED <<status, equity, trades, owner>>
        /\ writer' = None
        /\ crashes < MaxCrashes /\ crashes' = crashes + 1
    OBVIOUS
  <1>type. task' \in [Tasks -> TaskRecords]
    BY <1>2
  <1> HIDE DEF Crash
  <1>3. \A t \in Tasks : RowOf(t)' = RowOf(t) /\ EquityDays(t)' = EquityDays(t)
    BY <1>2 DEF RowOf, EquityDays
  <1>4. \A t \in Tasks : DaysOf(t)' = DaysOf(t)
    BY <1>frame, DaysOfKeeps
  <1>5. TypeOK'
    <2>1. crashes' \in 0 .. MaxCrashes
      BY <1>frame, NoneAssumption DEF TypeOK
    <2>2. QED
      BY <1>frame, <1>type, <2>1 DEF TypeOK, TaskRecords
  <1>6. Blank'
    <2>1. Started' = Started
      BY <1>2 DEF Started
    <2>2. QED
      BY <1>2, <1>3, <2>1 DEF Blank
  <1>7. Owned'
    BY <1>3, <1>frame DEF Owned, TypeOK
  <1>8. Stored'
    <2>1. \A e \in equity : e.task \in Tasks
      BY DEF TypeOK, Equity
    <2>2. \A r \in trades : r.task \in Tasks
      BY DEF TypeOK, Trades
    <2>3. QED
      BY <1>2, <1>3, <1>4, <1>frame, <2>1, <2>2 DEF Stored
  <1>9. Told'
    <2>1. \A j \in Rows' : j \in Rows /\ owner[j] \in Tasks /\ (Sole(j)' <=> Sole(j))
      BY <1>3, <1>frame DEF Rows, TypeOK, Sole, Owned
    <2>2. QED
      BY <1>2, <1>3, <1>4, <1>frame, <2>1 DEF Told
  <1>10. LockHeld'
    BY <1>frame DEF LockHeld
  <1>11. QED
    BY <1>5, <1>6, <1>7, <1>8, <1>9, <1>10

LEMMA StutterStep ==
    ASSUME IInv, UNCHANGED vars
    PROVE  IInv'
  <1> USE DEF vars
  <1>1. TypeOK' /\ Blank' /\ Owned' /\ LockHeld'
    BY DEF IInv, TypeOK, Blank, Started, RowOf, Owned, LockHeld
  <1>2. Stored'
    BY DEF IInv, Stored, DaysOf, EquityDays, RowOf
  <1>3. Told'
    BY DEF IInv, Told, Rows, Sole, DaysOf, EquityDays, RowOf
  <1>4. QED
    BY <1>1, <1>2, <1>3 DEF IInv

LEMMA Inductive == Spec => []IInv
  <1>1. ASSUME IInv, [Next]_vars PROVE IInv'
    <2>1. CASE Next
      BY <1>1, <2>1, CreateStep, DeleteStep, TaskStep, FinishStep, CrashStep DEF Next, Step
    <2>2. CASE UNCHANGED vars
      BY <1>1, <2>2, StutterStep
    <2>3. QED
      BY <1>1, <2>1, <2>2
  <1>2. QED
    BY InitIInv, <1>1, PTL DEF Spec

\* An id that one task only has been given: that task is the owner of its row.
LEMMA UnsharedIsSole ==
    ASSUME IInv, NEW i \in Unshared \cap Rows
    PROVE  Sole(i) /\ owner[i] \in Tasks /\ RowOf(owner[i]) = i
  <1> DEFINE S == {t \in Tasks : RowOf(t) = i}
  <1>1. owner[i] \in S
    BY DEF IInv, Owned, Rows, TypeOK
  <1>2. S \subseteq Started
    BY IdsAssumption DEF IInv, Blank, Started, NewTask, RowOf, Rows
  <1>3. IsFiniteSet(S)
    BY <1>2, FS_Subset DEF IInv, Blank
  <1>4. Cardinality(S) = 1
    BY DEF Unshared
  <1>5. PICK x : S = {x}
    BY <1>3, <1>4, FS_Singleton
  <1>6. QED
    BY <1>1, <1>5 DEF Sole

-----------------------------------------------------------------------------

\* Type correctness.
THEOREM TypeCorrect == Spec => []TypeOK
  <1>1. IInv => TypeOK
    BY DEF IInv
  <1>2. QED
    BY <1>1, Inductive, PTL

\* Results come and go as a whole, whichever step of a run fails, is locked out
\* or dies with the process, for any number of runs side by side.
THEOREM ResultsAreWhole == Spec => []AllOrNothing
  <1>1. IInv => AllOrNothing
    BY DEF IInv, Stored, DaysOf, EquityDays, AllOrNothing
  <1>2. QED
    BY <1>1, Inductive, PTL

\* What the status says of a run and what its tables hold agree, as long as no
\* other run has been given the same rowid.
THEOREM StatusTellsResults == Spec => []ResultsMatchStatus
  <1>1. ASSUME IInv PROVE ResultsMatchStatus
    <2> SUFFICES ASSUME NEW i \in Unshared \cap Rows
                 PROVE  IF status[i] = "completed"
                        THEN DaysStored(i) = EquityDays(owner[i])
                        ELSE DaysStored(i) = {} /\ \A r \in trades : r.run_id # i
      BY DEF ResultsMatchStatus
    <2>1. Sole(i) /\ owner[i] \in Tasks /\ RowOf(owner[i]) = i
      BY <1>1, UnsharedIsSole
    <2>2. \A e \in equity : e.run_id = i <=> e.task = owner[i]
      BY <1>1, <2>1 DEF IInv, Stored, Sole, TypeOK, Equity
    <2>3. \A r \in trades : r.run_id = i <=> r.task = owner[i]
      BY <1>1, <2>1 DEF IInv, Stored, Sole, TypeOK, Trades
    <2>4. DaysStored(i) = DaysOf(owner[i])
      BY <2>2 DEF DaysStored, DaysOf
    <2>5. CASE status[i] = "completed"
      BY <1>1, <2>1, <2>4, <2>5 DEF IInv, Told
    <2>6. CASE status[i] # "completed"
      <3>1. /\ \A e \in equity : e.task # owner[i]
            /\ \A r \in trades : r.task # owner[i]
        BY <1>1, <2>1, <2>6 DEF IInv, Told
      <3>2. QED
        BY <2>2, <2>3, <2>6, <3>1 DEF DaysStored
    <2>7. QED
      BY <2>5, <2>6
  <1>2. QED
    BY <1>1, Inductive, PTL

\* The write lock that a run takes with its first flush is given back when the
\* run is over, however it ends: no lock is held by a task that does not run.
THEOREM LockNeverLeaks == Spec => []LockHeld
  <1>1. IInv => LockHeld
    BY DEF IInv
  <1>2. QED
    BY <1>1, Inductive, PTL


(***************************************************************************)
(* Requests                                                                *)
(***************************************************************************)

\* The types in a list of look-ups, and the lists there are.
Types(s) == {s[k] : k \in DOMAIN s}
Finds == {<<>>, <<"short_put">>, <<"shares">>, <<"covered_call">>, <<"covered_call", "shares">>}

LegRow == [pos : PosId, leg_type : LegTypes, outcome : Outcomes]
RequestRow == [name : Names \cup {"delete_position", "none"}, pos : PosId \cup {0},
               find : Finds, found : SUBSET LegId]

Tabled ==
    /\ state \in [PosId -> States] /\ overlap \in Overlaps
    /\ leg \in [LegId -> LegRow \cup {NoLeg}]
    /\ req \in [Clients -> RequestRow]
    /\ \A c \in Clients : req[c].name = "none" <=> req[c].pos = 0
    /\ \A c \in Clients : req[c].name \notin Names => req[c].find = <<>> /\ req[c].found = {}

\* The open legs that a state calls for.
Wants ==
    [short_put |-> {"short_put"}, long_shares |-> {"shares"},
     covered_call |-> {"shares", "covered_call"}, closed |-> {}, none |-> {}]
Matches(p) ==
    \A t \in LegTypes :
        IF t \in Wants[state[p]] THEN \E i \in LegId : OpenLegs(p, t) = {i}
        ELSE OpenLegs(p, t) = {}

\* What a request has looked up in order to settle it is still what its position has.
Seen(r) == Transitions[r.name].settles \ Types(r.find)
Current(r) ==
    /\ r.name = "delete_position" => state[r.pos] = "closed"
    /\ r.name \in Names =>
          /\ state[r.pos] = Transitions[r.name].from
          /\ Types(r.find) \subseteq Types(Transitions[r.name].finds)
          /\ \A i \in LegId :
                i \in r.found <=>
                    leg[i].pos = r.pos /\ leg[i].outcome = "open" /\ leg[i].leg_type \in Seen(r)

\* No two requests are about one position.
Apart == \A c, d \in Clients : req[c].pos # 0 /\ req[c].pos = req[d].pos => c = d

InTurn ==
    /\ Apart
    /\ \A p \in PosId : Matches(p)
    /\ \A c \in Clients : Current(req[c])

\* The inductive invariant.
RequestInv == Tabled /\ (~overlap => InTurn)

-----------------------------------------------------------------------------
(* The table of transitions *)

LEMMA TypesOf ==
    /\ Types(<<>>) = {}
    /\ \A t : Types(<<t>>) = {t}
    /\ Types(<<"covered_call", "shares">>) = {"covered_call", "shares"}
  BY DEF Types

LEMMA FindsMove ==
    ASSUME NEW s \in Finds, s # <<>>
    PROVE  /\ Tail(s) \in Finds /\ Head(s) \in LegTypes
           /\ Types(s) = Types(Tail(s)) \cup {Head(s)} /\ Head(s) \notin Types(Tail(s))
  <1>1. ASSUME NEW t \in LegTypes, s = <<t>>
        PROVE  Head(s) = t /\ Tail(s) = <<>>
    BY <1>1
  <1>2. CASE s = <<"covered_call", "shares">>
    <2>1. Head(s) = "covered_call" /\ Tail(s) = <<"shares">>
      BY <1>2
    <2>2. QED
      BY <1>2, <2>1, TypesOf DEF Finds, LegTypes
  <1>3. CASE s # <<"covered_call", "shares">>
    <2>1. PICK t \in LegTypes : s = <<t>>
      BY <1>3 DEF Finds, LegTypes
    <2>2. QED
      BY <1>1, <2>1, TypesOf DEF Finds, LegTypes
  <1>4. QED
    BY <1>2, <1>3

\* A transition opens and settles the legs by which its two states differ.
LEMMA TableFacts ==
    ASSUME NEW name \in Names
    PROVE  LET f == Transitions[name]
           IN  /\ f.from \in {"short_put", "long_shares", "covered_call"}
               /\ f.to \in States \ {"none"}
               /\ f.finds \in Finds
               /\ f.outcome \in Outcomes /\ (f.settles # {} => f.outcome # "open")
               /\ f.opens \subseteq LegTypes /\ \A t, u \in f.opens : t = u
               /\ f.settles \subseteq Types(f.finds) /\ Types(f.finds) \subseteq Wants[f.from]
               /\ Wants[f.to] = (Wants[f.from] \ f.settles) \cup f.opens
               /\ f.opens \cap Wants[f.from] = {}
  <1> USE TypesOf DEF Transitions, Function, Finds, Outcomes, LegTypes, States, Wants
  <1>1. CASE name = "close_short_put"
    BY <1>1
  <1>2. CASE name = "expire_short_put"
    BY <1>2
  <1>3. CASE name = "assign_short_put"
    BY <1>3
  <1>4. CASE name = "open_covered_call"
    BY <1>4
  <1>5. CASE name = "close_covered_call"
    BY <1>5
  <1>6. CASE name = "expire_covered_call"
    BY <1>6
  <1>7. CASE name = "called_away"
    BY <1>7
  <1>8. CASE name = "close_shares_manual"
    BY <1>8
  <1>9. QED
    BY <1>1, <1>2, <1>3, <1>4, <1>5, <1>6, <1>7, <1>8 DEF Names

LEMMA NamesAreOthers == "delete_position" \notin Names /\ "none" \notin Names
  BY DEF Names, Transitions

-----------------------------------------------------------------------------
(* Rows *)

\* The next rowid is a free row, and so is the one after it.
LEMMA RowsAfter ==
    ASSUME NEW i \in LegId, NextRowid(Legs, i)
    PROVE  leg[i] = NoLeg /\ (i + 1 \in LegId => leg[i + 1] = NoLeg)
  BY RowidsAssumption DEF NextRowid, Legs

LEMMA NextPosition ==
    ASSUME NEW p \in PosId, NextRowid(Positions, p)
    PROVE  state[p] = "none"
  BY RowidsAssumption DEF NextRowid, Positions

LEMMA OpenLegIsRow ==
    ASSUME NEW p \in PosId, NEW t \in LegTypes
    PROVE  OpenLeg(p, t) \in LegRow
  BY DEF OpenLeg, LegRow, Outcomes

LEMMA OpenLegIs ==
    ASSUME NEW p \in PosId, NEW t \in LegTypes, NEW r \in LegRow \cup {NoLeg}
    PROVE  r = OpenLeg(p, t) <=> r.pos = p /\ r.outcome = "open" /\ r.leg_type = t
  BY RowidsAssumption DEF LegRow, NoLeg, OpenLeg

LEMMA OpenLegsAre ==
    ASSUME Tabled, NEW p \in PosId, NEW t \in LegTypes
    PROVE  OpenLegs(p, t) =
               {i \in LegId : leg[i].pos = p /\ leg[i].outcome = "open" /\ leg[i].leg_type = t}
  BY OpenLegIs DEF Tabled, OpenLegs, OpenLeg

\* A step about position p writes to its row, its legs and free rows only.
About(p) ==
    /\ \A q \in PosId \ {p} : state'[q] = state[q]
    /\ \A i \in LegId : leg'[i] = leg[i] \/ {leg[i].pos, leg'[i].pos} \subseteq {0, p}

\* A step about position p, of at most one request, leaves the others in turn.
LEMMA Elsewhere ==
    ASSUME Tabled, InTurn, NEW p \in PosId, Matches(p)',
           \A d \in Clients :
               \/ req'[d] = req[d] /\ req[d].pos # p
               \/ req'[d] = NoRequest
               \/ /\ req'[d].pos = p /\ Current(req[d])'
                  /\ \A e \in Clients \ {d} : req'[e].pos # p,
           About(p)
    PROVE  InTurn'
  <1>1. Apart'
    BY DEF InTurn, Apart, NoRequest
  <1>2. ASSUME NEW q \in PosId \ {p} PROVE Matches(q)'
    <2>1. \A t \in LegTypes : OpenLegs(q, t)' = OpenLegs(q, t)
      <3>1. ASSUME NEW t \in LegTypes, NEW i \in LegId
            PROVE  leg'[i] = OpenLeg(q, t) <=> leg[i] = OpenLeg(q, t)
        <4>1. OpenLeg(q, t).pos = q /\ q \notin {0, p}
          BY RowidsAssumption DEF OpenLeg
        <4>2. QED
          BY <4>1 DEF About
      <3>2. QED
        BY <3>1 DEF OpenLegs, OpenLeg
    <2>2. state'[q] = state[q] /\ Matches(q)
      BY DEF About, InTurn
    <2>3. QED
      BY <2>1, <2>2 DEF Matches
  <1>3. ASSUME NEW d \in Clients PROVE Current(req[d])'
    <2>1. CASE req'[d] = NoRequest
      BY <2>1, NamesAreOthers DEF Current, NoRequest
    <2>2. CASE req'[d] = req[d] /\ req[d].pos # p /\ req[d].name # "none"
      <3>1. req[d].pos \in PosId \ {p} /\ Current(req[d])
        BY <2>2 DEF Tabled, RequestRow, InTurn
      <3>2. state'[req[d].pos] = state[req[d].pos]
        BY <3>1 DEF About
      <3>3. ASSUME NEW i \in LegId
            PROVE  leg'[i] = leg[i] \/ (leg'[i].pos # req[d].pos /\ leg[i].pos # req[d].pos)
        BY <3>1, RowidsAssumption DEF About
      <3>4. QED
        BY <2>2, <3>1, <3>2, <3>3 DEF Current, Seen
    <2>3. CASE req'[d] = req[d] /\ req[d].name = "none"
      BY <2>3, NamesAreOthers DEF Current
    <2>4. QED
      BY <2>1, <2>2, <2>3
  <1>4. QED
    BY <1>1, <1>2, <1>3 DEF InTurn

-----------------------------------------------------------------------------
(* Steps *)

LEMMA OpenPositionStep ==
    ASSUME RequestInv, NEW p \in PosId, OpenPosition(p)
    PROVE  RequestInv'
  <1> USE DEF OpenPosition
  <1>1. state[p] = "none" /\ Tabled
    BY NextPosition DEF RequestInv
  <1>2. PICK i \in LegId :
            /\ NextRowid(Legs, i)
            /\ \/ /\ state' = [state EXCEPT ![p] = "short_put"]
                  /\ leg' = [leg EXCEPT ![i] = OpenLeg(p, "short_put")]
               \/ /\ state' = [state EXCEPT ![p] = "long_shares"]
                  /\ leg' = [leg EXCEPT ![i] = OpenLeg(p, "shares")]
               \/ /\ i + 1 \in LegId
                  /\ state' = [state EXCEPT ![p] = "covered_call"]
                  /\ leg' = [leg EXCEPT ![i] = OpenLeg(p, "shares"),
                                        ![i + 1] = OpenLeg(p, "covered_call")]
    BY DEF OpenPosition
  <1>3. leg[i] = NoLeg /\ (i + 1 \in LegId => leg[i + 1] = NoLeg) /\ i # i + 1
    BY <1>2, RowsAfter, RowidsAssumption
  <1>4. \A t \in LegTypes : OpenLeg(p, t) \in LegRow
    BY OpenLegIsRow
  <1>5. Tabled'
    BY <1>1, <1>2, <1>4 DEF Tabled, States, LegTypes
  <1>6. ASSUME ~overlap PROVE InTurn'
    <2>1. InTurn /\ \A t \in LegTypes : OpenLegs(p, t) = {}
      BY <1>1, <1>6 DEF RequestInv, InTurn, Matches, Wants
    <2>2. About(p)
      BY <1>1, <1>2, <1>3 DEF About, Tabled, OpenLeg, NoLeg
    <2>3. Matches(p)'
      <3> USE DEF Matches, Wants, OpenLegs, OpenLeg, LegTypes, Tabled
      <3>1. CASE /\ state' = [state EXCEPT ![p] = "short_put"]
                 /\ leg' = [leg EXCEPT ![i] = OpenLeg(p, "short_put")]
        BY <1>1, <2>1, <3>1
      <3>2. CASE /\ state' = [state EXCEPT ![p] = "long_shares"]
                 /\ leg' = [leg EXCEPT ![i] = OpenLeg(p, "shares")]
        BY <1>1, <2>1, <3>2
      <3>3. CASE /\ i + 1 \in LegId
                 /\ state' = [state EXCEPT ![p] = "covered_call"]
                 /\ leg' = [leg EXCEPT ![i] = OpenLeg(p, "shares"),
                                       ![i + 1] = OpenLeg(p, "covered_call")]
        BY <1>1, <1>3, <2>1, <3>3
      <3>4. QED
        BY <1>2, <3>1, <3>2, <3>3
    <2>4. \A d \in Clients : req'[d] = req[d] /\ req[d].pos # p
      <3>1. ASSUME NEW d \in Clients PROVE req[d].pos # p
        <4>1. CASE req[d].name \in Names
          BY <1>1, <2>1, <4>1, TableFacts DEF InTurn, Current
        <4>2. CASE req[d].name = "delete_position"
          BY <1>1, <2>1, <4>2 DEF InTurn, Current
        <4>3. CASE req[d].name = "none"
          BY <1>1, <4>3, RowidsAssumption DEF Tabled
        <4>4. QED
          BY <1>1, <4>1, <4>2, <4>3 DEF Tabled, RequestRow
      <3>2. QED
        BY <3>1
    <2>5. QED
      BY <1>1, <2>1, <2>2, <2>3, <2>4, Elsewhere
  <1>7. QED
    BY <1>5, <1>6 DEF RequestInv

\* A request about p that has just begun, or that goes on, is the only one about p.
LEMMA RequestGoesOn ==
    ASSUME Tabled, NEW c \in Clients, NEW r \in RequestRow, r.name # "none", r.pos # 0,
           r.name \notin Names => r.find = <<>> /\ r.found = {},
           Serves(c, r), UNCHANGED <<state, leg, overlap>>,
           ~overlap => /\ InTurn /\ Current(r)
                       /\ \A d \in Clients \ {c} : req[d].pos # r.pos
    PROVE  RequestInv'
  <1>1. req' = [req EXCEPT ![c] = r] /\ req'[c] = r
    BY DEF Serves, Tabled
  <1>2. Tabled'
    BY <1>1 DEF Tabled
  <1>3. ASSUME ~overlap PROVE InTurn'
    <2>1. r.pos \in PosId
      BY DEF RequestRow
    <2>2. Matches(r.pos)' /\ About(r.pos)
      BY <1>3, <2>1 DEF InTurn, Matches, OpenLegs, About
    <2>3. Current(req[c])'
      BY <1>1, <1>3 DEF Current, Seen
    <2>4. \A d \in Clients \ {c} : req'[d] = req[d] /\ req[d].pos # r.pos
      BY <1>1, <1>3
    <2>5. QED
      BY <1>1, <1>3, <2>1, <2>2, <2>3, <2>4, Elsewhere
  <1>4. QED
    BY <1>2, <1>3 DEF RequestInv

LEMMA LoadPositionStep ==
    ASSUME RequestInv, NEW c \in Clients, NEW p \in PosId, NEW name \in Names,
           LoadPosition(c, name, p)
    PROVE  RequestInv'
  <1> DEFINE r == [name |-> name, pos |-> p, find |-> Transitions[name].finds, found |-> {}]
  <1>1. p # 0 /\ name # "none" /\ r \in RequestRow /\ Transitions[name].finds \in Finds
    BY RowidsAssumption, NamesAreOthers, TableFacts DEF RequestRow
  <1>2. ASSUME ~overlap
        PROVE  /\ InTurn /\ Current(r)
               /\ \A d \in Clients \ {c} : req[d].pos # p
    <2>1. Transitions[name].settles \subseteq Types(Transitions[name].finds)
      BY TableFacts
    <2>2. r.name = name /\ r.pos = p /\ Seen(r) = {} /\ r.found = {}
      BY <2>1 DEF Seen
    <2>3. Current(r)
      BY <2>2, NamesAreOthers DEF LoadPosition, Current
    <2>4. QED
      BY <1>2, <2>3 DEF RequestInv, LoadPosition, MayServe, InTurn
  <1>3. Serves(c, r) /\ UNCHANGED <<state, leg, overlap>> /\ Tabled
    BY DEF LoadPosition, RequestInv
  <1>4. r.name = name /\ r.pos = p
    OBVIOUS
  <1> HIDE DEF r
  <1>5. QED
    BY <1>1, <1>2, <1>3, <1>4, RequestGoesOn

LEMMA LoadClosedStep ==
    ASSUME RequestInv, NEW c \in Clients, NEW p \in PosId, LoadClosed(c, p)
    PROVE  RequestInv'
  <1> DEFINE r == [name |-> "delete_position", pos |-> p, find |-> <<>>, found |-> {}]
  <1>1. p # 0 /\ r \in RequestRow
    BY RowidsAssumption DEF RequestRow, Finds
  <1>2. ASSUME ~overlap
        PROVE  /\ InTurn /\ Current(r)
               /\ \A d \in Clients \ {c} : req[d].pos # p
    BY <1>2, NamesAreOthers DEF RequestInv, LoadClosed, MayServe, Current
  <1>3. Serves(c, r) /\ UNCHANGED <<state, leg, overlap>> /\ Tabled
    BY DEF LoadClosed, RequestInv
  <1>4. r.name = "delete_position" /\ r.pos = p /\ r.find = <<>> /\ r.found = {}
    OBVIOUS
  <1> HIDE DEF r
  <1>5. QED
    BY <1>1, <1>2, <1>3, <1>4, RequestGoesOn

LEMMA FindLegStep ==
    ASSUME RequestInv, NEW c \in Clients, FindLeg(c)
    PROVE  RequestInv'
  <1> DEFINE s == req[c].find
             h == Head(s)
  <1>1. PICK i \in LegId :
            /\ OpenLegs(req[c].pos, h) = {i}
            /\ Serves(c, [req[c] EXCEPT
                    !.find = Tail(@),
                    !.found = IF h \in Transitions[req[c].name].settles THEN @ \cup {i} ELSE @])
    BY DEF FindLeg
  <1> DEFINE settles == Transitions[req[c].name].settles
             found == IF h \in settles THEN req[c].found \cup {i} ELSE req[c].found
             r == [req[c] EXCEPT !.find = Tail(@), !.found = found]
  <1>2. Tabled /\ s # <<>> /\ UNCHANGED <<state, leg, overlap>>
    BY DEF FindLeg, RequestInv
  <1>3. req[c] \in RequestRow /\ s \in Finds
    BY <1>2 DEF Tabled, RequestRow
  <1>4. /\ Tail(s) \in Finds /\ h \in LegTypes
        /\ Types(s) = Types(Tail(s)) \cup {h} /\ h \notin Types(Tail(s))
    BY <1>2, <1>3, FindsMove
  <1>a. found \in SUBSET LegId
    BY <1>3 DEF RequestRow
  <1>b. /\ h \in settles => found = req[c].found \cup {i}
        /\ h \notin settles => found = req[c].found
    OBVIOUS
  <1>8. Serves(c, r)
    BY <1>1
  <1> HIDE DEF found
  <1>5. /\ r.name = req[c].name /\ r.pos = req[c].pos /\ r.find = Tail(s)
        /\ r.found = found /\ r \in RequestRow
    BY <1>3, <1>4, <1>a DEF RequestRow
  <1>6. r.name \in Names /\ r.name # "none" /\ r.pos # 0
    BY <1>2, <1>5, NamesAreOthers DEF Tabled
  <1> HIDE DEF r
  <1>7. ASSUME ~overlap
        PROVE  /\ InTurn /\ Current(r)
               /\ \A d \in Clients \ {c} : req[d].pos # r.pos
    <2>1. InTurn /\ Current(req[c])
      BY <1>7 DEF RequestInv, InTurn
    <2>2. Seen(r) = Seen(req[c]) \cup ({h} \cap settles)
      BY <1>4, <1>5, <1>6 DEF Seen
    <2>3. \A j \in LegId :
              j = i <=> leg[j].pos = r.pos /\ leg[j].outcome = "open" /\ leg[j].leg_type = h
      <3>1. r.pos \in PosId
        BY <1>5, <1>6 DEF RequestRow
      <3>2. OpenLegs(r.pos, h) = {i}
        BY <1>1, <1>5
      <3> HIDE DEF h
      <3>3. QED
        BY <1>2, <1>4, <3>1, <3>2, OpenLegsAre
    <2>4. Current(r)
      BY <1>4, <1>5, <1>6, <1>b, <2>1, <2>2, <2>3, NamesAreOthers DEF Current
    <2>5. QED
      BY <1>5, <1>6, <2>1, <2>4 DEF InTurn, Apart
  <1>9. QED
    BY <1>2, <1>5, <1>6, <1>7, <1>8, RequestGoesOn

\* A request that gives up leaves everything as it was.
LEMMA GivesUp ==
    ASSUME RequestInv, NEW c \in Clients, Serves(c, NoRequest), UNCHANGED <<state, leg, overlap>>
    PROVE  RequestInv'
  <1>1. Tabled /\ req' = [req EXCEPT ![c] = NoRequest]
    BY DEF RequestInv, Serves
  <1>2. NoRequest \in RequestRow
    BY DEF NoRequest, RequestRow, Finds
  <1>3. Tabled'
    BY <1>1, <1>2, NamesAreOthers DEF Tabled, NoRequest
  <1>4. ASSUME ~overlap PROVE InTurn'
    <2>1. InTurn
      BY <1>4 DEF RequestInv
    <2>2. Apart'
      BY <1>1, <2>1 DEF Tabled, InTurn, Apart, NoRequest
    <2>3. \A p \in PosId : Matches(p)'
      BY <2>1 DEF InTurn, Matches, OpenLegs
    <2>4. ASSUME NEW d \in Clients PROVE Current(req[d])'
      <3>1. CASE d = c
        BY <1>1, <3>1, NamesAreOthers DEF Tabled, Current, NoRequest
      <3>2. CASE d # c
        <4>1. req'[d] = req[d] /\ Current(req[d])
          BY <1>1, <2>1, <3>2 DEF Tabled, InTurn
        <4>2. QED
          BY <4>1 DEF Current, Seen
      <3>3. QED
        BY <3>1, <3>2
    <2>5. QED
      BY <2>2, <2>3, <2>4 DEF InTurn
  <1>5. QED
    BY <1>3, <1>4 DEF RequestInv

\* A request that commits is followed by none about its position.
LEMMA CommitsApart ==
    ASSUME Tabled, InTurn, NEW c \in Clients, NEW p \in PosId, req[c].pos = p,
           Serves(c, NoRequest), Matches(p)', About(p)
    PROVE  InTurn'
  <1>1. \A d \in Clients :
            req'[d] = NoRequest \/ (req'[d] = req[d] /\ req[d].pos # p)
    BY RowidsAssumption DEF Tabled, Serves, InTurn, Apart
  <1>2. QED
    BY <1>1, Elsewhere

LEMMA CommitStep ==
    ASSUME RequestInv, NEW c \in Clients, Commit(c)
    PROVE  RequestInv'
  <1>pos. PICK p \in PosId : p = req[c].pos
    BY NamesAreOthers DEF RequestInv, Commit, Ready, Tabled, RequestRow
  <1> DEFINE name == req[c].name
             f == Transitions[name]
             settled == [i \in LegId |->
                            IF i \in req[c].found
                            THEN [leg[i] EXCEPT !.outcome = f.outcome] ELSE leg[i]]
  <1>1. /\ Tabled /\ name \in Names /\ req[c].pos = p /\ req[c].find = <<>>
        /\ req[c].found \subseteq Legs /\ state[p] # "none"
    <2>1. Tabled /\ Ready(c) /\ RowsThere(c)
      BY DEF RequestInv, Commit
    <2>2. QED
      BY <1>pos, <2>1 DEF Ready, RowsThere
  <1>2. /\ state' = [state EXCEPT ![p] = f.to] /\ Serves(c, NoRequest) /\ overlap' = overlap
        /\ \/ f.opens = {} /\ leg' = settled
           \/ \E i \in LegId, t \in f.opens :
                 NextRowid(Legs, i) /\ leg' = [settled EXCEPT ![i] = OpenLeg(p, t)]
    BY <1>pos DEF Commit
  <1>3. /\ f.from \in {"short_put", "long_shares", "covered_call"}
        /\ f.to \in States \ {"none"}
        /\ f.outcome \in Outcomes /\ (f.settles # {} => f.outcome # "open")
        /\ f.opens \subseteq LegTypes /\ \A t, u \in f.opens : t = u
        /\ f.settles \subseteq Types(f.finds) /\ Types(f.finds) \subseteq Wants[f.from]
        /\ Wants[f.to] = (Wants[f.from] \ f.settles) \cup f.opens
        /\ f.opens \cap Wants[f.from] = {}
    BY <1>1, TableFacts
  <1> HIDE DEF f
  <1>4. ASSUME NEW i \in LegId
        PROVE  settled[i] \in LegRow \cup {NoLeg}
    <2>1. CASE i \in req[c].found
      <3>1. leg[i] \in LegRow
        BY <1>1, <2>1 DEF Tabled, Legs
      <3>2. [leg[i] EXCEPT !.outcome = f.outcome] \in LegRow
        BY <1>3, <3>1 DEF LegRow
      <3>3. QED
        BY <2>1, <3>2
    <2>2. CASE i \notin req[c].found
      BY <1>1, <2>2 DEF Tabled
    <2>3. QED
      BY <2>1, <2>2
  <1>5. \A t \in LegTypes : OpenLeg(p, t) \in LegRow
    BY <1>1, OpenLegIsRow
  <1>6. Tabled'
    <2>1. state' \in [PosId -> States]
      BY <1>1, <1>2, <1>3 DEF Tabled
    <2>2. leg' \in [LegId -> LegRow \cup {NoLeg}]
      <3>1. settled \in [LegId -> LegRow \cup {NoLeg}]
        BY <1>4
      <3> HIDE DEF settled
      <3>2. QED
        BY <1>2, <1>3, <1>5, <3>1
    <2>3. req' = [req EXCEPT ![c] = NoRequest] /\ NoRequest \in RequestRow
      BY <1>2 DEF Serves, NoRequest, RequestRow, Finds
    <2>4. QED
      BY <1>1, <1>2, <2>1, <2>2, <2>3, NamesAreOthers DEF Tabled, NoRequest
  <1>7. ASSUME ~overlap PROVE InTurn'
    <2>1. InTurn /\ Matches(p) /\ state[p] = f.from
      BY <1>1, <1>7 DEF RequestInv, InTurn, Current, f
    \* The legs it has found are the open ones of the types it settles.
    <2>2. \A i \in LegId :
              i \in req[c].found <=>
                  leg[i].pos = p /\ leg[i].outcome = "open" /\ leg[i].leg_type \in f.settles
      BY <1>1, <2>1, TypesOf DEF InTurn, Current, Seen, f
    \* Settling them closes the open legs of those types and no others.
    <2>3. ASSUME NEW i \in LegId
          PROVE  /\ settled[i].pos = leg[i].pos /\ settled[i].leg_type = leg[i].leg_type
                 /\ settled[i] = leg[i] \/ leg[i].pos = p
                 /\ settled[i].pos = p =>
                        (settled[i].outcome = "open" <=>
                             leg[i].outcome = "open" /\ leg[i].leg_type \notin f.settles)
      <3>1. CASE i \in req[c].found
        <4>1. leg[i] \in LegRow
          BY <1>1, <3>1 DEF Tabled, Legs
        <4>2. settled[i] = [leg[i] EXCEPT !.outcome = f.outcome]
          BY <3>1
        <4> HIDE DEF settled
        <4>3. QED
          BY <1>3, <2>2, <3>1, <4>1, <4>2 DEF LegRow
      <3>2. CASE i \notin req[c].found
        <4>1. settled[i] = leg[i]
          BY <3>2
        <4> HIDE DEF settled
        <4>2. QED
          BY <1>3, <2>2, <3>2, <4>1
      <3>3. QED
        BY <3>1, <3>2
    <2>4. DOMAIN settled = LegId
      OBVIOUS
    <2> HIDE DEF settled
    <2>5. About(p)
      BY <1>1, <1>2, <2>3, <2>4, RowsAfter DEF About, Tabled, OpenLeg, NoLeg
    <2>6. Matches(p)'
      <3>1. ASSUME NEW t \in LegTypes
            PROVE  /\ t \in f.settles => OpenLegs(p, t)' = {}
                   /\ t \in f.opens => \E i \in LegId : OpenLegs(p, t)' = {i}
                   /\ t \notin f.settles \cup f.opens => OpenLegs(p, t)' = OpenLegs(p, t)
        <4>1. /\ OpenLegs(p, t) =
                     {i \in LegId :
                         leg[i].pos = p /\ leg[i].outcome = "open" /\ leg[i].leg_type = t}
              /\ {i \in LegId : leg'[i] = OpenLeg(p, t)} =
                     {i \in LegId :
                         leg'[i].pos = p /\ leg'[i].outcome = "open" /\ leg'[i].leg_type = t}
          BY <1>1, <1>6, OpenLegsAre, OpenLegIs DEF Tabled
        <4>2. CASE f.opens = {} /\ leg' = settled
          BY <2>3, <4>1, <4>2 DEF OpenLegs, OpenLeg
        <4>3. ASSUME NEW n \in LegId, NEW u \in f.opens, NextRowid(Legs, n),
                     leg' = [settled EXCEPT ![n] = OpenLeg(p, u)]
              PROVE  /\ t \in f.settles => OpenLegs(p, t)' = {}
                     /\ t \in f.opens => OpenLegs(p, t)' = {n}
                     /\ t \notin f.settles \cup f.opens => OpenLegs(p, t)' = OpenLegs(p, t)
          <5>1. /\ leg'[n].pos = p /\ leg'[n].outcome = "open" /\ leg'[n].leg_type = u
                /\ leg[n].pos # p
            BY <1>1, <2>4, <4>3, RowsAfter, RowidsAssumption DEF OpenLeg, NoLeg
          <5>2. \A i \in LegId \ {n} : leg'[i] = settled[i]
            BY <2>4, <4>3
          <5>3. CASE t \in f.settles
            BY <1>3, <2>3, <4>1, <5>1, <5>2, <5>3 DEF OpenLegs, OpenLeg
          <5>4. CASE t \in f.opens
            <6>1. t = u /\ t \notin f.settles /\ OpenLegs(p, t) = {}
              BY <1>3, <2>1, <5>4 DEF Matches
            <6>2. QED
              BY <2>3, <4>1, <5>1, <5>2, <6>1 DEF OpenLegs, OpenLeg
          <5>5. CASE t \notin f.settles \cup f.opens
            BY <2>3, <4>1, <5>1, <5>2, <5>5 DEF OpenLegs, OpenLeg
          <5>6. QED
            BY <1>3, <5>3, <5>4, <5>5
        <4>4. QED
          BY <1>2, <4>2, <4>3
      <3>2. state'[p] = f.to
        BY <1>1, <1>2 DEF Tabled
      <3>3. QED
        BY <1>3, <2>1, <3>1, <3>2 DEF Matches
    <2>7. QED
      BY <1>1, <1>2, <2>1, <2>5, <2>6, RowidsAssumption, CommitsApart
  <1>8. QED
    BY <1>2, <1>6, <1>7 DEF RequestInv

LEMMA DeletePositionStep ==
    ASSUME RequestInv, NEW c \in Clients, Delete(c)
    PROVE  RequestInv'
  <1>pos. PICK p \in PosId : p = req[c].pos
    BY DEF RequestInv, Delete, Tabled, RequestRow
  <1>1. /\ Tabled /\ req[c].name = "delete_position" /\ req[c].pos = p
        /\ Serves(c, NoRequest) /\ overlap' = overlap
        /\ state' = [state EXCEPT ![p] = "none"]
        /\ leg' = [i \in LegId |-> IF leg[i].pos = p THEN NoLeg ELSE leg[i]]
    BY <1>pos DEF RequestInv, Delete
  <1>2. Tabled'
    <2>1. state' \in [PosId -> States] /\ leg' \in [LegId -> LegRow \cup {NoLeg}]
      BY <1>1 DEF Tabled, States
    <2>2. req' = [req EXCEPT ![c] = NoRequest] /\ NoRequest \in RequestRow
      BY <1>1 DEF Serves, NoRequest, RequestRow, Finds
    <2>3. QED
      BY <1>1, <2>1, <2>2, NamesAreOthers DEF Tabled, NoRequest
  <1>3. ASSUME ~overlap PROVE InTurn'
    <2>1. InTurn
      BY <1>3 DEF RequestInv
    <2>2. About(p)
      BY <1>1 DEF About, Tabled, NoLeg
    <2>3. Matches(p)'
      <3>1. state'[p] = "none"
        BY <1>1 DEF Tabled
      <3>2. ASSUME NEW t \in LegTypes, NEW i \in LegId
            PROVE  leg'[i] # OpenLeg(p, t)
        BY <1>1, RowidsAssumption DEF OpenLeg, NoLeg
      <3>3. QED
        BY <3>1, <3>2 DEF Matches, Wants, OpenLegs, OpenLeg
    <2>4. QED
      BY <1>1, <2>1, <2>2, <2>3, RowidsAssumption, CommitsApart
  <1>4. QED
    BY <1>1, <1>2, <1>3 DEF RequestInv

-----------------------------------------------------------------------------

LEMMA RequestInvInit == RequestsInit => RequestInv
  <1> SUFFICES ASSUME RequestsInit PROVE RequestInv
    OBVIOUS
  <1>1. NoRequest \in RequestRow
    BY DEF NoRequest, RequestRow, Finds
  <1>2. Tabled
    BY <1>1, NamesAreOthers DEF RequestsInit, Tabled, States, NoRequest
  <1>3. Apart /\ \A c \in Clients : Current(req[c])
    BY NamesAreOthers DEF RequestsInit, Apart, Current, NoRequest
  <1>4. \A p \in PosId : Matches(p)
    BY RowidsAssumption DEF RequestsInit, Matches, Wants, OpenLegs, NoLeg
  <1>5. QED
    BY <1>2, <1>3, <1>4 DEF RequestInv, InTurn

LEMMA RequestInvStep == RequestInv /\ [RequestsNext]_request_vars => RequestInv'
  <1> SUFFICES ASSUME RequestInv, [RequestsNext]_request_vars PROVE RequestInv'
    OBVIOUS
  <1>1. CASE UNCHANGED request_vars
    <2>1. state' = state /\ leg' = leg /\ req' = req /\ overlap' = overlap
      BY <1>1 DEF request_vars
    <2>2. Tabled'
      BY <2>1 DEF RequestInv, Tabled
    <2>3. ASSUME ~overlap PROVE InTurn'
      <3>1. Apart' /\ \A p \in PosId : Matches(p)'
        BY <2>1, <2>3 DEF RequestInv, InTurn, Apart, Matches, OpenLegs
      <3>2. ASSUME NEW d \in Clients PROVE Current(req[d])'
        BY <2>1, <2>3 DEF RequestInv, InTurn, Current, Seen
      <3>3. QED
        BY <3>1, <3>2 DEF InTurn
    <2>4. QED
      BY <2>1, <2>2, <2>3 DEF RequestInv
  <1>2. ASSUME NEW p \in PosId, OpenPosition(p) PROVE RequestInv'
    BY <1>2, OpenPositionStep
  <1>3. ASSUME NEW c \in Clients, NEW p \in PosId, LoadClosed(c, p) PROVE RequestInv'
    BY <1>3, LoadClosedStep
  <1>4. ASSUME NEW c \in Clients, NEW p \in PosId, NEW name \in Names, LoadPosition(c, name, p)
        PROVE  RequestInv'
    BY <1>4, LoadPositionStep
  <1>5. ASSUME NEW c \in Clients, FindLeg(c) PROVE RequestInv'
    BY <1>5, FindLegStep
  <1>6. ASSUME NEW c \in Clients, FindFails(c) \/ CommitFails(c) PROVE RequestInv'
    BY <1>6, GivesUp DEF FindFails, CommitFails
  <1>7. ASSUME NEW c \in Clients, Commit(c) PROVE RequestInv'
    BY <1>7, CommitStep
  <1>8. ASSUME NEW c \in Clients, Delete(c) PROVE RequestInv'
    BY <1>8, DeletePositionStep
  <1>9. QED
    BY <1>1, <1>2, <1>3, <1>4, <1>5, <1>6, <1>7, <1>8 DEF RequestsNext

LEMMA RequestsInductive == RequestsSpec => []RequestInv
  BY RequestInvInit, RequestInvStep, PTL DEF RequestsSpec

\* Type correctness.
THEOREM RequestsTyped == RequestsSpec => []RequestsTypeOK
  <1>1. RequestInv => RequestsTypeOK
    BY DEF RequestInv, Tabled, RequestsTypeOK, LegRow, RequestRow
  <1>2. QED
    BY <1>1, RequestsInductive, PTL

\* Whatever requests are under way, read and commit apart and fail in between, the
\* open legs of a position are those its state calls for, as long as no two
\* requests about one position overlap.
THEOREM RequestsInTurn == RequestsSpec => []LegsMatchInTurn
  <1>1. RequestInv => LegsMatchInTurn
    <2> SUFFICES ASSUME RequestInv, ~overlap, NEW p \in Positions PROVE
            CASE state[p] = "short_put" -> Counts(p, 1, 0, 0)
              [] state[p] = "long_shares" -> Counts(p, 0, 1, 0)
              [] state[p] = "covered_call" -> Counts(p, 0, 1, 1)
              [] state[p] = "closed" -> Counts(p, 0, 0, 0)
      BY DEF LegsMatchInTurn, LegsMatchState
    <2>1. Matches(p) /\ state[p] \in States \ {"none"}
      BY DEF RequestInv, InTurn, Tabled, Positions
    <2>2. ASSUME NEW t \in LegTypes
          PROVE  Cardinality(OpenLegs(p, t)) = IF t \in Wants[state[p]] THEN 1 ELSE 0
      BY <2>1, FS_Singleton, FS_EmptySet DEF Matches
    <2>3. /\ Cardinality(OpenLegs(p, "short_put")) =
                 IF "short_put" \in Wants[state[p]] THEN 1 ELSE 0
          /\ Cardinality(OpenLegs(p, "shares")) = IF "shares" \in Wants[state[p]] THEN 1 ELSE 0
          /\ Cardinality(OpenLegs(p, "covered_call")) =
                 IF "covered_call" \in Wants[state[p]] THEN 1 ELSE 0
      BY <2>2 DEF LegTypes
    <2>4. CASE state[p] = "short_put"
      BY <2>3, <2>4 DEF Counts, Wants
    <2>5. CASE state[p] = "long_shares"
      BY <2>3, <2>5 DEF Counts, Wants
    <2>6. CASE state[p] = "covered_call"
      BY <2>3, <2>6 DEF Counts, Wants
    <2>7. CASE state[p] = "closed"
      BY <2>3, <2>7 DEF Counts, Wants
    <2>8. QED
      BY <2>1, <2>4, <2>5, <2>6, <2>7 DEF States
  <1>2. QED
    BY <1>1, RequestsInductive, PTL

\* In turn, no request overwrites the outcome that another has booked.
THEOREM RequestsSettleOnce == RequestsSpec => SettledOnce
  <1> DEFINE Settles ==
          \A i \in Legs : leg[i].outcome # "open" /\ ~overlap => leg'[i] \in {leg[i], NoLeg}
  <1>1. RequestInv /\ [RequestsNext]_request_vars => Settles
    <2> SUFFICES ASSUME RequestInv, [RequestsNext]_request_vars, NEW i \in Legs,
                        leg[i].outcome # "open", ~overlap
                 PROVE  leg'[i] \in {leg[i], NoLeg}
      OBVIOUS
    <2>1. Tabled /\ InTurn /\ i \in LegId /\ leg[i] # NoLeg
      BY DEF RequestInv, Legs
    <2>2. ASSUME NEW p \in PosId, OpenPosition(p) PROVE leg'[i] = leg[i]
      BY <2>1, <2>2, RowsAfter DEF OpenPosition, Tabled
    <2>3. ASSUME NEW c \in Clients, Commit(c) PROVE leg'[i] = leg[i]
      <3>1. i \notin req[c].found
        BY <2>1, <2>3 DEF InTurn, Current, Commit, Ready
      <3>2. QED
        BY <2>1, <2>3, <3>1, RowsAfter DEF Commit, Tabled
    <2>4. ASSUME NEW c \in Clients, Delete(c) PROVE leg'[i] \in {leg[i], NoLeg}
      BY <2>1, <2>4 DEF Delete
    <2>5. CASE UNCHANGED leg
      BY <2>5
    <2>6. QED
      BY <2>2, <2>3, <2>4, <2>5
         DEF RequestsNext, request_vars, LoadClosed, LoadPosition, FindLeg, FindFails, CommitFails
  <1>2. QED
    BY <1>1, RequestsInductive, PTL DEF RequestsSpec, SettledOnce

-----------------------------------------------------------------------------
(* The wheel *)

\* The lots that a state stands for.
Lots(s) == {[kind |-> t, qty |-> 1] : t \in Wants[s]}

LEMMA HeldIs ==
    ASSUME Tabled, NEW p \in PosId, Matches(p)
    PROVE  Held[p] = Lots(state[p])
  <1> DEFINE mine == {j \in LegId : leg[j].pos = p /\ leg[j].outcome = "open"}
  <1>1. state[p] \in States /\ Wants[state[p]] \subseteq LegTypes
    BY DEF Tabled, States, Wants, LegTypes
  <1>2. \A i \in mine : leg[i].leg_type \in LegTypes
    BY RowidsAssumption DEF Tabled, LegRow, NoLeg
  <1>3. ASSUME NEW t \in LegTypes
        PROVE  t \in Wants[state[p]] <=> \E i \in mine : leg[i].leg_type = t
    <2>1. OpenLegs(p, t) = {i \in mine : leg[i].leg_type = t}
      BY OpenLegsAre
    <2>2. t \in Wants[state[p]] <=> OpenLegs(p, t) # {}
      BY DEF Matches
    <2>3. QED
      BY <2>1, <2>2
  <1>4. Held[p] = {[kind |-> leg[i].leg_type, qty |-> 1] : i \in mine}
    BY DEF Held
  <1> HIDE DEF mine
  <1>5. QED
    BY <1>1, <1>2, <1>3, <1>4 DEF Lots

LEMMA HeldInTurn == Tabled /\ InTurn => \A p \in PosId : Held[p] = Lots(state[p])
  BY HeldIs DEF InTurn

LEMMA HeldInTurnNext == (Tabled /\ InTurn => \A p \in PosId : Held[p] = Lots(state[p]))'
  BY HeldInTurn, PTL

LEMMA LotsAre ==
    /\ Lots("none") = {} /\ Lots("closed") = {}
    /\ Lots("short_put") = {Cycle!Puts(1)}
    /\ Lots("long_shares") = {Cycle!Shares(1)}
    /\ Lots("covered_call") = {Cycle!Shares(1), Cycle!Calls(1)}
  BY DEF Lots, Wants, Cycle!Puts, Cycle!Shares, Cycle!Calls

\* Between two moments in turn, what is held changes as the states do.
LEMMA HeldMoves ==
    ASSUME Tabled, Tabled', InTurn, InTurn', NEW p \in PosId, NEW s,
           state' = [state EXCEPT ![p] = s]
    PROVE  Cycle!Move(p, Lots(state[p]), Lots(s))
  <1>1. \A q \in PosId : Held[q] = Lots(state[q])
    BY HeldInTurn
  <1>2. \A q \in PosId : Held'[q] = Lots(state'[q])
    BY HeldInTurnNext
  <1>3. DOMAIN Held = PosId /\ DOMAIN Held' = PosId
    BY DEF Held
  <1>4. Held = [q \in PosId |-> Held[q]] /\ Held' = [q \in PosId |-> Held'[q]]
    BY DEF Held
  <1>5. Held' = [Held EXCEPT ![p] = Lots(s)]
    BY <1>1, <1>2, <1>3, <1>4 DEF Tabled
  <1>6. QED
    BY <1>1, <1>5 DEF Cycle!Move

LEMMA StandsStillHeld == UNCHANGED leg => UNCHANGED Held
  BY DEF Held

\* In turn, the endpoints implement WheelCycle: each commit is one of its moves, and
\* every other step moves nothing.
THEOREM RequestsFollowWheel == RequestsSpec => FollowsWheel
  <1>1. RequestInv /\ RequestInv' /\ [RequestsNext]_request_vars => [~overlap => Cycle!Next]_Held
    <2> SUFFICES ASSUME RequestInv, RequestInv', [RequestsNext]_request_vars, ~overlap
                 PROVE  Cycle!Next \/ UNCHANGED Held
      OBVIOUS
    <2>1. Tabled /\ Tabled' /\ InTurn /\ (~overlap' => InTurn')
      BY DEF RequestInv
    <2>2. ASSUME NEW p \in PosId, OpenPosition(p) PROVE Cycle!Next
      <3>1. /\ state[p] = "none" /\ overlap' = overlap
            /\ \E s \in {"short_put", "long_shares", "covered_call"} :
                  state' = [state EXCEPT ![p] = s]
        BY <2>2, NextPosition DEF OpenPosition
      <3>2. PICK s \in {"short_put", "long_shares", "covered_call"} :
                state' = [state EXCEPT ![p] = s]
        BY <3>1
      <3> DEFINE from == Lots(state[p])
      <3>3. Cycle!Move(p, {}, Lots(s))
        <4>1. InTurn'
          BY <2>1, <3>1
        <4>2. Cycle!Move(p, from, Lots(s))
          BY <2>1, <3>2, <4>1, HeldMoves
        <4>3. from = {}
          BY <3>1, LotsAre
        <4> HIDE DEF from
        <4>4. QED
          BY <4>2, <4>3
      <3>4. CASE s = "short_put"
        <4>1. Cycle!Move(p, {}, {Cycle!Puts(1)})
          BY <3>3, <3>4, LotsAre
        <4>2. QED
          BY <4>1 DEF Cycle!Next, Cycle!SellPuts
      <3>5. CASE s = "long_shares"
        <4>1. Cycle!Move(p, {}, {Cycle!Shares(1)})
          BY <3>3, <3>5, LotsAre
        <4>2. QED
          BY <4>1 DEF Cycle!Next, Cycle!AcquireShares
      <3>6. CASE s = "covered_call"
        <4>1. 1 * 1 <= 1 /\ Cycle!Move(p, {}, {Cycle!Shares(1), Cycle!Calls(1)})
          BY <3>3, <3>6, LotsAre
        <4>2. QED
          BY <4>1 DEF Cycle!Next, Cycle!AcquireCovered
      <3>7. QED
        BY <3>2, <3>4, <3>5, <3>6
    <2>3. ASSUME NEW c \in Clients, Commit(c) PROVE Cycle!Next
      <3>1. PICK p \in PosId : p = req[c].pos
        BY <2>1, <2>3, NamesAreOthers DEF Commit, Ready, Tabled, RequestRow
      <3>2. PICK name \in Names : name = req[c].name
        BY <2>3 DEF Commit, Ready
      <3>3. /\ state[p] = Transitions[name].from /\ overlap' = overlap
            /\ state' = [state EXCEPT ![p] = Transitions[name].to]
        BY <2>1, <2>3, <3>1, <3>2 DEF Commit, InTurn, Current
      <3>4. Cycle!Move(p, Lots(Transitions[name].from), Lots(Transitions[name].to))
        BY <2>1, <3>3, HeldMoves
      <3> DEFINE Edge(from, to) ==
              Transitions[name].from = from /\ Transitions[name].to = to
      <3>5. \/ Edge("short_put", "closed") \/ Edge("short_put", "long_shares")
            \/ Edge("long_shares", "covered_call") \/ Edge("covered_call", "long_shares")
            \/ Edge("covered_call", "closed") \/ Edge("long_shares", "closed")
        BY DEF Names, Transitions, Function
      <3>6. CASE Edge("short_put", "closed")
        <4>1. Cycle!Move(p, {Cycle!Puts(1)}, {})
          BY <3>4, <3>6, LotsAre
        <4>2. QED
          BY <4>1 DEF Cycle!Next, Cycle!PutsEnd
      <3>7. CASE Edge("short_put", "long_shares")
        <4>1. Cycle!Move(p, {Cycle!Puts(1)}, {Cycle!Shares(1 * 1)})
          BY <3>4, <3>7, LotsAre
        <4>2. QED
          BY <4>1 DEF Cycle!Next, Cycle!PutsAssigned
      <3>8. CASE Edge("long_shares", "covered_call")
        <4>1. 1 * 1 <= 1 /\ Cycle!Move(p, {Cycle!Shares(1)}, {Cycle!Shares(1), Cycle!Calls(1)})
          BY <3>4, <3>8, LotsAre
        <4>2. QED
          BY <4>1 DEF Cycle!Next, Cycle!WriteCalls
      <3>9. CASE Edge("covered_call", "long_shares")
        <4>1. Cycle!Move(p, {Cycle!Shares(1), Cycle!Calls(1)}, {Cycle!Shares(1)})
          BY <3>4, <3>9, LotsAre
        <4>2. QED
          BY <4>1 DEF Cycle!Next, Cycle!CallsEnd
      <3>10. CASE Edge("covered_call", "closed")
        <4>1. Cycle!Move(p, {Cycle!Shares(1), Cycle!Calls(1)}, {})
          BY <3>4, <3>10, LotsAre
        <4>2. QED
          BY <4>1 DEF Cycle!Next, Cycle!CalledAway
      <3>11. CASE Edge("long_shares", "closed")
        <4>1. Cycle!Move(p, {Cycle!Shares(1)}, {})
          BY <3>4, <3>11, LotsAre
        <4>2. QED
          BY <4>1 DEF Cycle!Next, Cycle!SellShares
      <3>12. QED
        BY <3>5, <3>6, <3>7, <3>8, <3>9, <3>10, <3>11
    <2>4. ASSUME NEW c \in Clients, Delete(c) PROVE UNCHANGED Held
      <3>1. PICK p \in PosId : p = req[c].pos
        BY <2>1, <2>4 DEF Delete, Tabled, RequestRow
      <3>2. state[p] = "closed" /\ overlap' = overlap /\ state' = [state EXCEPT ![p] = "none"]
        BY <2>1, <2>4, <3>1 DEF Delete, InTurn, Current
      <3>3. Cycle!Move(p, {}, {})
        BY <2>1, <3>2, HeldMoves, LotsAre
      <3>4. QED
        BY <3>3 DEF Cycle!Move, Held
    <2>5. CASE UNCHANGED leg
      BY <2>5, StandsStillHeld
    <2>6. QED
      BY <2>2, <2>3, <2>4, <2>5
         DEF RequestsNext, request_vars, LoadClosed, LoadPosition, FindLeg, FindFails, CommitFails
  <1>2. QED
    BY <1>1, RequestsInductive, PTL DEF RequestsSpec, FollowsWheel


(***************************************************************************)
(* Jobs                                                                    *)
(***************************************************************************)

Digests == {"morning_digest", "evening_digest"}
RunRecord == [job : Jobs \cup {"none"}, manual : BOOLEAN, todo : SUBSET Symbols,
              pc : {"idle", "begin", "send", "check", "ingest", "screen", "fetch"}]

\* Two runs of a job, or a morning digest and a pulse, are known to be together.
Together ==
    \A q, r \in Threads :
        q # r /\ Running(q) /\ Running(r) =>
            /\ run[q].job = run[r].job => run[q].job \in overlapped
            /\ run[q].job = "morning_digest" /\ run[r].job = "intraday_pulse" => raced

Runs ==
    /\ run \in [Threads -> RunRecord]
    /\ \A r \in Threads : run[r].pc = "idle" => run[r] = IdleThread
    /\ \A r \in Threads : Running(r) => run[r].job \in Jobs
    /\ Together

\* What a run has looked at still holds where it goes on.
First(S) == CHOOSE s \in S : TRUE
Fits(x) ==
    /\ x.job = "screener_pipeline" /\ x.pc = "screen" => Trading(day)
    /\ x.job \in Digests /\ x.pc = "send" /\ x.job \notin overlapped =>
           Count(<<x.job, "all", day>>) = 0
    /\ x.job = "intraday_pulse" /\ x.pc \in {"check", "send"} => x.todo # {}
    /\ x.job = "intraday_pulse" /\ x.pc = "send" =>
           /\ x.job \notin overlapped => Count(<<"setup_triggered", First(x.todo), day>>) = 0
           /\ day \in DOMAIN listed => First(x.todo) \notin listed[day] \/ raced

\* The rows of alerts that can still be looked up, and which of them can be double.
Keys == (Digests \X {"all"} \X Nat) \cup ({"setup_triggered"} \X Symbols \X Nat)
            \cup ({"job_failed"} \X Jobs \X Nat)
AlertRows ==
    /\ DOMAIN sent \subseteq Keys /\ sent \in [DOMAIN sent -> Nat \ {0}]
    /\ \A k \in DOMAIN sent :
          IF k[1] = "job_failed" THEN sent[k] = 1
          ELSE k[3] <= day /\ (sent[k] > 1 => JobOf(k) \in overlapped)

Kept ==
    /\ 0 \in bars /\ (ingested /\ Trading(day) => day \in bars)
    /\ \A d \in DOMAIN screened : screened[d].passed \subseteq Symbols

\* The inductive invariant.
JobInv == Runs /\ (\A r \in Threads : Fits(run[r])) /\ AlertRows /\ Kept /\ DayTypeOK

-----------------------------------------------------------------------------
(* Threads *)

LEMMA HereIs == ASSUME NEW r PROVE Here(r) = First(run[r].todo)
  BY DEF Here, First

LEMMA FirstIn == ASSUME NEW S, S # {} PROVE First(S) \in S
  BY DEF First

LEMMA IdleIs ==
    /\ IdleThread.job = "none" /\ IdleThread.pc = "idle" /\ IdleThread \in RunRecord
    /\ Fits(IdleThread)
  BY DEF IdleThread, RunRecord, Fits, Digests, Jobs

\* A run goes on to x or ends, and the others stay where they are.
LEMMA RunMoves ==
    ASSUME Runs, NEW r \in Threads, Running(r), NEW x \in RunRecord,
           run' = [run EXCEPT ![r] = x], x = IdleThread \/ (x.pc # "idle" /\ x.job = run[r].job),
           UNCHANGED <<overlapped, raced>>
    PROVE  Runs' /\ run'[r] = x /\ \A q \in Threads \ {r} : run'[q] = run[q]
  <1>1. /\ run' \in [Threads -> RunRecord] /\ run'[r] = x
        /\ \A q \in Threads \ {r} : run'[q] = run[q]
    BY DEF Runs
  <1>2. \A q \in Threads : Running(q)' => Running(q) /\ run'[q].job = run[q].job
    BY <1>1, IdleIs DEF Running
  <1>3. Together'
    BY <1>2 DEF Runs, Together
  <1>4. QED
    BY <1>1, <1>2, <1>3, IdleIs DEF Runs, Running

\* Nothing a run has looked at is changed.
LEMMA StillFits ==
    ASSUME NEW x, Fits(x), UNCHANGED <<day, sent, listed, overlapped, raced>>
    PROVE  Fits(x)'
  BY DEF Fits, Count

\* A step that only moves a run.
LEMMA MovesOnly ==
    ASSUME JobInv, NEW r \in Threads, Running(r), NEW x \in RunRecord, Fits(x),
           run' = [run EXCEPT ![r] = x], x = IdleThread \/ (x.pc # "idle" /\ x.job = run[r].job),
           UNCHANGED <<day, slot, tables, overlapped, raced, ingested>>
    PROVE  JobInv'
  <1>1. Runs' /\ run'[r] = x /\ \A q \in Threads \ {r} : run'[q] = run[q]
    BY RunMoves DEF JobInv
  <1>2. ASSUME NEW q \in Threads PROVE Fits(run[q])'
    <2>1. PICK y : y = run'[q] /\ Fits(y)
      BY <1>1 DEF JobInv
    <2>2. Fits(y)'
      BY <2>1, StillFits DEF tables
    <2>3. QED
      BY <2>1, <2>2 DEF Fits
  <1>3. AlertRows'
    BY DEF JobInv, AlertRows, tables, JobOf
  <1>4. Kept' /\ DayTypeOK'
    BY DEF JobInv, Kept, DayTypeOK, Trading, Count, tables
  <1>5. QED
    BY <1>1, <1>2, <1>3, <1>4 DEF JobInv

\* A step that ends a run or takes it on in the same record.
LEMMA GoesOrEnds ==
    ASSUME JobInv, NEW r \in Threads, Running(r),
           \/ EndsRun(r)
           \/ \E pc \in {"begin", "send", "check", "ingest", "screen", "fetch"} :
                 GoesOn(r, pc) /\ Fits([run[r] EXCEPT !.pc = pc]),
           UNCHANGED <<day, slot, tables, overlapped, raced, ingested>>
    PROVE  JobInv'
  <1>1. CASE EndsRun(r)
    BY <1>1, IdleIs, MovesOnly DEF EndsRun
  <1>2. ASSUME NEW pc \in {"begin", "send", "check", "ingest", "screen", "fetch"},
               GoesOn(r, pc), Fits([run[r] EXCEPT !.pc = pc])
        PROVE  JobInv'
    <2>1. PICK x : x = [run[r] EXCEPT !.pc = pc]
      OBVIOUS
    <2>2. x \in RunRecord /\ x.pc # "idle" /\ x.job = run[r].job
      BY <2>1 DEF JobInv, Runs, RunRecord
    <2>3. run' = [run EXCEPT ![r] = x] /\ Fits(x)
      BY <1>2, <2>1 DEF GoesOn
    <2>4. QED
      BY <2>2, <2>3, MovesOnly
  <1>3. QED
    BY <1>1, <1>2

-----------------------------------------------------------------------------
(* Steps of the jobs that only look *)

LEMMA AtRuns == ASSUME NEW r, NEW job, NEW pc, At(r, job, pc), pc # "idle" PROVE Running(r)
  BY DEF At, Running

LEMMA CheckDigestStep ==
    ASSUME JobInv, NEW r \in Threads, CheckDigest(r)
    PROVE  JobInv'
  <1>1. PICK job \in Digests :
            At(r, job, "begin") /\ IF Skips(job) THEN EndsRun(r) ELSE GoesOn(r, "send")
    BY DEF CheckDigest, Digests
  <1>2. Running(r) /\ run[r] \in RunRecord /\ run[r].job = job
    BY <1>1 DEF At, Running, JobInv, Runs
  <1>3. UNCHANGED <<day, slot, tables, overlapped, raced, ingested>>
    BY DEF CheckDigest, history
  <1>4. ASSUME ~Skips(job) PROVE Fits([run[r] EXCEPT !.pc = "send"])
    <2>1. ~(Count(<<job, "all", day>>) > 0)
      BY <1>4 DEF Skips
    <2>2. Count(<<job, "all", day>>) = 0
      BY <2>1 DEF JobInv, AlertRows, Count
    <2>3. QED
      BY <1>2, <2>2 DEF Fits, RunRecord, Digests
  <1>5. QED
    BY <1>1, <1>2, <1>3, <1>4, GoesOrEnds

LEMMA BeginPulseStep ==
    ASSUME JobInv, NEW r \in Threads, BeginPulse(r)
    PROVE  JobInv'
  <1>1. /\ Running(r) /\ run[r] \in RunRecord /\ run[r].job = "intraday_pulse"
        /\ UNCHANGED <<day, slot, tables, overlapped, raced, ingested>>
    BY DEF BeginPulse, At, Running, JobInv, Runs, history
  <1>2. CASE EndsRun(r)
    BY <1>1, <1>2, GoesOrEnds
  <1>3. ASSUME NEW S \in SUBSET Symbols, S # {},
               run' = [run EXCEPT ![r].pc = "check", ![r].todo = S]
        PROVE  JobInv'
    <2>1. PICK x : x = [run[r] EXCEPT !.pc = "check", !.todo = S]
      OBVIOUS
    <2>2. x \in RunRecord /\ x.pc # "idle" /\ x.job = run[r].job /\ Fits(x)
      BY <1>1, <1>3, <2>1 DEF RunRecord, Fits, Digests
    <2>3. run' = [run EXCEPT ![r] = x]
      BY <1>3, <2>1
    <2>4. QED
      BY <1>1, <2>2, <2>3, MovesOnly
  <1>4. QED
    BY <1>2, <1>3 DEF BeginPulse

\* A pulse goes on to its next symbol with what it has left.
LEMMA NextSymbolIs ==
    ASSUME Runs, NEW r \in Threads, run[r].job = "intraday_pulse", run[r].todo # {},
           NextSymbol(r, Here(r))
    PROVE  \E x \in RunRecord :
               /\ run' = [run EXCEPT ![r] = x]
               /\ x = IdleThread \/ (x.job = "intraday_pulse" /\ x.pc = "check" /\ x.todo # {})
  <1> DEFINE s == Here(r)
  <1>1. s \in run[r].todo /\ run[r] \in RunRecord
    BY HereIs, FirstIn DEF Runs
  <1>2. CASE run[r].todo = {s}
    BY <1>2, IdleIs DEF NextSymbol, EndsRun
  <1>3. CASE run[r].todo # {s}
    <2> DEFINE x == [run[r] EXCEPT !.pc = "check", !.todo = @ \ {s}]
    <2>1. x \in RunRecord /\ x.job = "intraday_pulse" /\ x.pc = "check" /\ x.todo # {}
      BY <1>1, <1>3 DEF RunRecord
    <2>2. run' = [run EXCEPT ![r] = x]
      BY <1>3 DEF NextSymbol
    <2>3. QED
      BY <2>1, <2>2
  <1>4. QED
    BY <1>2, <1>3

LEMMA CheckSetupStep ==
    ASSUME JobInv, NEW r \in Threads, CheckSetup(r)
    PROVE  JobInv'
  <1>1. /\ Running(r) /\ run[r] \in RunRecord /\ run[r].job = "intraday_pulse" /\ run[r].todo # {}
        /\ UNCHANGED <<day, slot, tables, overlapped, raced, ingested>>
    BY DEF CheckSetup, At, Running, JobInv, Runs, Fits, history
  <1>2. CASE Suppressed(Here(r))
    <2>1. NextSymbol(r, Here(r))
      BY <1>2 DEF CheckSetup
    <2>2. PICK x \in RunRecord :
              /\ run' = [run EXCEPT ![r] = x]
              /\ x = IdleThread \/ (x.job = "intraday_pulse" /\ x.pc = "check" /\ x.todo # {})
      BY <1>1, <2>1, NextSymbolIs DEF JobInv
    <2>3. Fits(x) /\ (x = IdleThread \/ (x.pc # "idle" /\ x.job = run[r].job))
      BY <1>1, <2>2, IdleIs DEF Fits, Digests
    <2>4. QED
      BY <1>1, <2>2, <2>3, MovesOnly
  <1>3. CASE ~Suppressed(Here(r))
    <2>1. GoesOn(r, "send")
      BY <1>3 DEF CheckSetup
    <2>2. /\ ~(Count(<<"setup_triggered", First(run[r].todo), day>>) > 0)
          /\ day \in DOMAIN listed => First(run[r].todo) \notin listed[day]
      BY <1>3, HereIs DEF Suppressed
    <2>3. Count(<<"setup_triggered", First(run[r].todo), day>>) = 0
      BY <2>2 DEF JobInv, AlertRows, Count
    <2>4. Fits([run[r] EXCEPT !.pc = "send"])
      BY <1>1, <2>2, <2>3 DEF Fits, RunRecord, Digests
    <2>5. QED
      BY <1>1, <2>1, <2>4, GoesOrEnds
  <1>4. QED
    BY <1>2, <1>3

\* The pipelines and the history begin with a look at the calendar.
LEMMA CalendarStep ==
    ASSUME JobInv, NEW r \in Threads, BeginEvening(r) \/ BeginScreener(r) \/ BeginHistory(r)
    PROVE  JobInv'
  <1>1. /\ Running(r) /\ run[r] \in RunRecord
        /\ run[r].job \in {"evening_pipeline", "screener_pipeline", "options_history"}
        /\ UNCHANGED <<day, slot, tables, overlapped, raced, ingested>>
    BY DEF BeginEvening, BeginScreener, BeginHistory, At, Running, JobInv, Runs, history
  <1>2. ASSUME NEW pc \in {"ingest", "fetch"} PROVE Fits([run[r] EXCEPT !.pc = pc])
    BY <1>1 DEF Fits, RunRecord, Digests
  <1>3. ASSUME Trading(day) PROVE Fits([run[r] EXCEPT !.pc = "screen"])
    BY <1>1, <1>3 DEF Fits, RunRecord, Digests
  <1>4. CASE EndsRun(r)
    BY <1>1, <1>4, GoesOrEnds
  <1>5. CASE GoesOn(r, "ingest") \/ GoesOn(r, "fetch")
    BY <1>1, <1>2, <1>5, GoesOrEnds
  <1>6. CASE Trading(day) /\ GoesOn(r, "screen")
    BY <1>1, <1>3, <1>6, GoesOrEnds
  <1>7. QED
    BY <1>4, <1>5, <1>6 DEF BeginEvening, BeginScreener, BeginHistory

-----------------------------------------------------------------------------
(* Steps of the jobs that write to alerts *)

\* What a dispatch does to the counts.
LEMMA Dispatched ==
    ASSUME AlertRows, NEW k \in Keys, Dispatch(k)
    PROVE  /\ DOMAIN sent' \subseteq DOMAIN sent \cup {k} /\ DOMAIN sent \subseteq DOMAIN sent'
           /\ sent' \in [DOMAIN sent' -> Nat \ {0}]
           /\ \A j : j # k => Count(j)' = Count(j)
           /\ \A j \in DOMAIN sent : j # k => sent'[j] = sent[j]
           /\ k \in DOMAIN sent' => sent'[k] = Count(k) \/ sent'[k] = Count(k) + 1
           /\ ~muted => k \in DOMAIN sent' /\ sent'[k] = Count(k) + 1
           /\ Count(k) \in Nat
  <1>1. Count(k) \in Nat /\ (k \in DOMAIN sent => Count(k) = sent[k] /\ Count(k) # 0)
    BY DEF AlertRows, Count
  <1>2. CASE muted
    <2>1. sent' = sent
      BY <1>2 DEF Dispatch
    <2>2. QED
      BY <1>1, <1>2, <2>1 DEF AlertRows, Count
  <1>3. CASE ~muted
    <2>1. sent' = Put(sent, k, Count(k) + 1)
      BY <1>3 DEF Dispatch
    <2>2. /\ DOMAIN sent' = DOMAIN sent \cup {k} /\ sent'[k] = Count(k) + 1
          /\ \A j \in DOMAIN sent \ {k} : sent'[j] = sent[j]
      BY <2>1 DEF Put
    <2>3. sent' = [j \in DOMAIN sent' |-> sent'[j]]
      BY <2>1 DEF Put
    <2>4. sent' \in [DOMAIN sent' -> Nat \ {0}]
      BY <1>1, <2>2, <2>3 DEF AlertRows
    <2>5. QED
      BY <1>1, <1>3, <2>2, <2>4 DEF Count
  <1>4. QED
    BY <1>2, <1>3

\* A row of a run that does not overlap with another of its job is the first.
LEMMA DispatchKeeps ==
    ASSUME AlertRows, NEW k \in Keys, Dispatch(k), UNCHANGED <<day, overlapped>>,
           k[1] = "job_failed" => Count(k) = 0,
           k[1] # "job_failed" => k[3] <= day /\ (Count(k) # 0 => JobOf(k) \in overlapped)
    PROVE  AlertRows'
  <1>1. DOMAIN sent' \subseteq Keys /\ sent' \in [DOMAIN sent' -> Nat \ {0}]
    BY Dispatched DEF AlertRows
  <1>2. ASSUME NEW j \in DOMAIN sent'
        PROVE  IF j[1] = "job_failed" THEN sent'[j] = 1
               ELSE j[3] <= day /\ (sent'[j] > 1 => JobOf(j) \in overlapped)
    <2>1. CASE j # k
      <3>1. j \in DOMAIN sent /\ sent'[j] = sent[j]
        BY <1>2, <2>1, Dispatched
      <3>2. QED
        BY <3>1 DEF AlertRows
    <2>2. CASE j = k
      <3>1. sent'[k] \in {Count(k), Count(k) + 1} /\ sent'[k] # 0 /\ Count(k) \in Nat
        BY <1>1, <1>2, <2>2, Dispatched
      <3>2. QED
        BY <2>2, <3>1
    <2>3. QED
      BY <2>1, <2>2
  <1>3. QED
    BY <1>1, <1>2 DEF AlertRows, JobOf

LEMMA CountsRows ==
    ASSUME AlertRows, NEW k PROVE Count(k) \in Nat /\ (Count(k) > 0 <=> k \in DOMAIN sent)
  BY DEF AlertRows, Count

LEMMA SendDigestStep ==
    ASSUME JobInv, NEW r \in Threads, SendDigest(r)
    PROVE  JobInv'
  <1>1. PICK job \in Digests :
            /\ At(r, job, "send") /\ Dispatch(<<job, "all", day>>)
            /\ \E S \in Listings :
                  listed' = IF job = "morning_digest" /\ ~muted THEN Put(listed, day, S) ELSE listed
    BY DEF SendDigest, Digests
  <1>hits. PICK S \in SUBSET Hits :
            listed' = IF job = "morning_digest" /\ ~muted THEN Put(listed, day, S) ELSE listed
    BY <1>1 DEF Listings
  <1>key. PICK k \in Keys : k = <<job, "all", day>>
    <2>1. <<job, "all", day>> \in Keys
      BY DEF JobInv, DayTypeOK, Keys
    <2>2. QED
      BY <2>1
  <1>2. /\ Running(r) /\ run[r].job = job /\ run[r].pc = "send"
        /\ run' = [run EXCEPT ![r] = IdleThread]
        /\ UNCHANGED <<day, slot, bars, screened, historical, overlapped, raced, ingested>>
    BY <1>1 DEF At, Running, SendDigest, EndsRun, history
  <1>3. Runs' /\ run'[r] = IdleThread /\ \A q \in Threads \ {r} : run'[q] = run[q]
    BY <1>2, IdleIs, RunMoves DEF JobInv
  <1>4. /\ k[1] = job /\ k[3] = day /\ job # "job_failed" /\ JobOf(k) = job
        /\ job # "setup_triggered" /\ day \in Nat
    BY <1>key DEF Digests, JobOf, JobInv, DayTypeOK
  <1>5. job \notin overlapped => Count(k) = 0
    BY <1>2, <1>key DEF JobInv, Fits
  <1>6. AlertRows /\ Dispatch(k)
    BY <1>1, <1>key DEF JobInv
  <1>7. AlertRows'
    BY <1>2, <1>4, <1>5, <1>6, DispatchKeeps
  <1>8. \A j : j # k => Count(j)' = Count(j)
    BY <1>6, Dispatched
  <1>9. ASSUME NEW q \in Threads PROVE Fits(run[q])'
    <2>1. CASE q = r
      BY <1>3, <2>1, IdleIs DEF Fits, Digests
    <2>2. CASE q # r
      <3>1. run'[q] = run[q] /\ Fits(run[q]) /\ run[q] \in RunRecord
        BY <1>3, <2>2 DEF JobInv, Runs
      <3>2. run[q].job = job /\ run[q].pc = "send" => job \in overlapped
        BY <1>2, <2>2 DEF JobInv, Runs, Together, Running
      <3>3. run[q].job = "intraday_pulse" /\ run[q].pc = "send" =>
                (raced \/ listed' = listed)
        BY <1>hits, <1>2, <2>2 DEF JobInv, Runs, Together, Running
      <3>4. /\ \A d \in Digests \ {job} : Count(<<d, "all", day>>)' = Count(<<d, "all", day>>)
            /\ \A s \in Symbols :
                  Count(<<"setup_triggered", s, day>>)' = Count(<<"setup_triggered", s, day>>)
        <4>1. \A d \in Digests \ {job} : <<d, "all", day>> # k
          BY <1>key
        <4>2. \A s \in Symbols : <<"setup_triggered", s, day>> # k
          BY <1>4
        <4>3. QED
          BY <1>2, <1>8, <4>1, <4>2 DEF Count
      <3>5. run[q].todo # {} => First(run[q].todo) \in Symbols
        BY <3>1, FirstIn DEF RunRecord
      <3>6. QED
        BY <1>2, <3>1, <3>2, <3>3, <3>4, <3>5 DEF Fits
    <2>3. QED
      BY <2>1, <2>2
  <1>10. Kept'
    BY <1>2 DEF JobInv, Kept, Trading
  <1>11. \A d \in DOMAIN listed' :
             Count(<<"morning_digest", "all", d>>)' > 0 /\ listed'[d] \subseteq Symbols
    <2>1. ASSUME NEW d \in DOMAIN listed PROVE Count(<<"morning_digest", "all", d>>)' > 0
      <3>1. <<"morning_digest", "all", d>> \in DOMAIN sent
        BY <1>6, CountsRows DEF JobInv, DayTypeOK
      <3>2. <<"morning_digest", "all", d>> \in DOMAIN sent' /\ sent' \in [DOMAIN sent' -> Nat \ {0}]
        BY <1>6, <3>1, Dispatched
      <3>3. QED
        BY <3>2 DEF Count
    <2>2. CASE listed' = listed
      BY <2>1, <2>2 DEF JobInv, DayTypeOK
    <2>3. CASE job = "morning_digest" /\ ~muted
      <3>1. DOMAIN listed' = DOMAIN listed \cup {day} /\ listed'[day] \subseteq Hits
            /\ \A d \in DOMAIN listed \ {day} : listed'[d] = listed[d]
        BY <1>hits, <2>3 DEF Put
      <3>2. Count(<<"morning_digest", "all", day>>)' > 0
        <4>1. k \in DOMAIN sent' /\ sent'[k] = Count(k) + 1 /\ Count(k) \in Nat
          BY <1>6, <2>3, Dispatched
        <4>2. QED
          BY <1>2, <1>key, <2>3, <4>1 DEF Count
      <3>3. Hits \subseteq Symbols
        <4> DEFINE days == {d \in DOMAIN screened : d <= day /\ screened[d].passed # {}}
        <4>1. CASE days # {}
          <5>1. days \in SUBSET Int /\ IsFiniteSet(days)
            <6>1. days \subseteq 0 .. day /\ IsFiniteSet(0 .. day)
              BY <1>4, FS_Interval DEF JobInv, DayTypeOK
            <6>2. QED
              BY <1>4, <6>1, FS_Subset
          <5>2. Max(days) \in days
            <6> HIDE DEF days
            <6>1. QED
              BY <4>1, <5>1, Greatest
          <5>3. QED
            BY <4>1, <5>2 DEF Hits, JobInv, Kept
        <4>2. CASE days = {}
          BY <4>2 DEF Hits
        <4>3. QED
          BY <4>1, <4>2
      <3>4. ASSUME NEW d \in DOMAIN listed, d # day
            PROVE  Count(<<"morning_digest", "all", d>>)' > 0 /\ listed'[d] \subseteq Symbols
        BY <2>1, <3>1, <3>4 DEF JobInv, DayTypeOK
      <3>5. QED
        BY <1>2, <3>1, <3>2, <3>3, <3>4
    <2>4. QED
      BY <1>hits, <2>2, <2>3
  <1>12. DayTypeOK'
    BY <1>2, <1>11 DEF JobInv, DayTypeOK, Trading
  <1>13. QED
    BY <1>3, <1>7, <1>9, <1>10, <1>12 DEF JobInv

\* Any dispatch of something that is not a digest leaves the digests' rows alone.
LEMMA TypesKept ==
    ASSUME JobInv, NEW k \in Keys, k[1] \notin Digests, Dispatch(k),
           UNCHANGED <<day, slot, bars, screened, historical, listed, ingested>>
    PROVE  Kept' /\ DayTypeOK'
  <1>1. \A d : <<"morning_digest", "all", d>> # k
    BY DEF Digests
  <1>2. \A d : Count(<<"morning_digest", "all", d>>)' = Count(<<"morning_digest", "all", d>>)
    BY <1>1, Dispatched DEF JobInv
  <1>3. QED
    BY <1>2 DEF JobInv, Kept, DayTypeOK, Trading

LEMMA SendSetupStep ==
    ASSUME JobInv, NEW r \in Threads, SendSetup(r)
    PROVE  JobInv'
  <1>1. /\ Running(r) /\ run[r].job = "intraday_pulse" /\ run[r].pc = "send" /\ run[r].todo # {}
        /\ UNCHANGED <<day, slot, bars, screened, historical, listed, overlapped, raced, ingested>>
    BY DEF SendSetup, At, Running, JobInv, Fits, history
  <1>2. PICK s \in Symbols : s = Here(r) /\ s = First(run[r].todo)
    BY <1>1, HereIs, FirstIn DEF JobInv, Runs, RunRecord
  <1>3. PICK k \in Keys : k = <<"setup_triggered", s, day>>
    <2>1. <<"setup_triggered", s, day>> \in Keys
      BY DEF JobInv, DayTypeOK, Keys
    <2>2. QED
      BY <2>1
  <1>4. AlertRows /\ Dispatch(k) /\ NextSymbol(r, Here(r))
    BY <1>2, <1>3 DEF SendSetup, JobInv
  <1>5. PICK x \in RunRecord :
            /\ run' = [run EXCEPT ![r] = x]
            /\ x = IdleThread \/ (x.job = "intraday_pulse" /\ x.pc = "check" /\ x.todo # {})
    BY <1>1, <1>4, NextSymbolIs DEF JobInv
  <1>6. Runs' /\ run'[r] = x /\ \A q \in Threads \ {r} : run'[q] = run[q]
    BY <1>1, <1>5, RunMoves DEF JobInv
  <1>7. /\ k[1] = "setup_triggered" /\ k[3] = day /\ JobOf(k) = "intraday_pulse" /\ day \in Nat
        /\ k[1] \notin Digests /\ k[1] # "job_failed"
    BY <1>3 DEF JobOf, Digests, JobInv, DayTypeOK
  <1>8. "intraday_pulse" \notin overlapped => Count(k) = 0
    BY <1>1, <1>2, <1>3 DEF JobInv, Fits
  <1>9. AlertRows'
    BY <1>1, <1>4, <1>7, <1>8, DispatchKeeps
  <1>10. ASSUME NEW q \in Threads PROVE Fits(run[q])'
    <2>1. CASE q = r
      BY <1>5, <1>6, <2>1, IdleIs DEF Fits, Digests
    <2>2. CASE q # r
      <3>1. run'[q] = run[q] /\ Fits(run[q])
        BY <1>6, <2>2 DEF JobInv
      <3>2. run[q].job = "intraday_pulse" /\ run[q].pc = "send" => "intraday_pulse" \in overlapped
        BY <1>1, <2>2 DEF JobInv, Runs, Together, Running
      <3>3. \A d \in Digests : Count(<<d, "all", day>>)' = Count(<<d, "all", day>>)
        <4>1. \A d \in Digests : <<d, "all", day>> # k
          BY <1>7
        <4>2. QED
          BY <1>1, <1>4, <4>1, Dispatched DEF Count
      <3>4. QED
        BY <1>1, <3>1, <3>2, <3>3 DEF Fits
    <2>3. QED
      BY <2>1, <2>2
  <1>11. QED
    BY <1>1, <1>4, <1>6, <1>7, <1>9, <1>10, TypesKept DEF JobInv

\* A failure ends its run and reports it, once a day.
LEMMA FailureStep ==
    ASSUME JobInv, NEW r \in Threads, Running(r), Failure(r)
    PROVE  JobInv'
  <1>1. UNCHANGED <<day, slot, bars, screened, historical, listed, overlapped, raced, ingested>>
        /\ EndsRun(r)
    BY DEF Failure
  <1>2. PICK k \in Keys :
            /\ k = <<"job_failed", run[r].job, UtcDate>>
    <2>1. PICK d \in Nat : d = UtcDate
      BY DEF UtcDate, JobInv, DayTypeOK
    <2>2. <<"job_failed", run[r].job, d>> \in Keys
      BY DEF JobInv, Runs, Keys
    <2>3. QED
      BY <2>1, <2>2
  <1>3. CASE Count(k) > 0
    <2>1. UNCHANGED <<day, slot, tables, overlapped, raced, ingested>>
      BY <1>1, <1>2, <1>3 DEF Failure, tables
    <2>2. QED
      BY <1>1, <2>1, GoesOrEnds
  <1>4. CASE ~(Count(k) > 0)
    <2>1. Dispatch(k) /\ Count(k) = 0 /\ AlertRows
      BY <1>2, <1>4, CountsRows DEF Failure, JobInv
    <2>2. k[1] = "job_failed" /\ k[1] \notin Digests
      BY <1>2 DEF Digests
    <2>3. AlertRows'
      BY <1>1, <2>1, <2>2, DispatchKeeps
    <2>4. Runs' /\ run'[r] = IdleThread /\ \A q \in Threads \ {r} : run'[q] = run[q]
      BY <1>1, IdleIs, RunMoves DEF JobInv, EndsRun
    <2>5. ASSUME NEW q \in Threads PROVE Fits(run[q])'
      <3>1. CASE q = r
        BY <2>4, <3>1, IdleIs DEF Fits, Digests
      <3>2. CASE q # r
        <4>1. run'[q] = run[q] /\ Fits(run[q])
          BY <2>4, <3>2 DEF JobInv
        <4>2. /\ \A d \in Digests : Count(<<d, "all", day>>)' = Count(<<d, "all", day>>)
              /\ \A s : Count(<<"setup_triggered", s, day>>)' = Count(<<"setup_triggered", s, day>>)
          <5>1. /\ \A d \in Digests : <<d, "all", day>> # k
                /\ \A s : <<"setup_triggered", s, day>> # k
            BY <2>2
          <5>2. QED
            BY <1>1, <2>1, <5>1, Dispatched DEF Count
        <4>3. QED
          BY <1>1, <4>1, <4>2 DEF Fits
      <3>3. QED
        BY <3>1, <3>2
    <2>6. QED
      BY <1>1, <2>1, <2>2, <2>3, <2>4, <2>5, TypesKept DEF JobInv
  <1>5. QED
    BY <1>3, <1>4

-----------------------------------------------------------------------------
(* Steps of the jobs that write to the data *)

\* The bars there are have a latest date, which has come.
LEMMA LatestBar ==
    ASSUME JobInv
    PROVE  Max(bars) \in bars /\ Max(bars) \in 0 .. day /\ \A d \in bars : d <= Max(bars)
  <1>1. day \in Nat /\ bars \subseteq 0 .. day /\ bars # {}
    BY DEF JobInv, DayTypeOK, Kept
  <1>2. bars \in SUBSET Int /\ IsFiniteSet(bars)
    <2>1. IsFiniteSet(0 .. day)
      BY <1>1, FS_Interval
    <2>2. IsFiniteSet(bars)
      BY <1>1, <2>1, FS_Subset
    <2>3. QED
      BY <1>1, <2>2
  <1>3. Max(bars) \in bars /\ \A d \in bars : Max(bars) >= d
    BY <1>1, <1>2, Greatest
  <1>4. \A d \in bars : d \in Int /\ d \in 0 .. day
    BY <1>1
  <1>5. QED
    BY <1>3, <1>4

\* A run that ends leaves the others and the alerts as they are.
LEMMA EndsBeside ==
    ASSUME JobInv, NEW r \in Threads, Running(r), EndsRun(r),
           UNCHANGED <<day, sent, listed, overlapped, raced>>
    PROVE  Runs' /\ (\A q \in Threads : Fits(run[q])') /\ AlertRows'
  <1>1. Runs' /\ run'[r] = IdleThread /\ \A q \in Threads \ {r} : run'[q] = run[q]
    BY IdleIs, RunMoves DEF JobInv, EndsRun
  <1>2. ASSUME NEW q \in Threads PROVE Fits(run[q])'
    <2>1. PICK y : y = run'[q] /\ Fits(y)
      BY <1>1, IdleIs DEF JobInv
    <2>2. Fits(y)'
      BY <2>1, StillFits
    <2>3. QED
      BY <2>1, <2>2 DEF Fits
  <1>3. AlertRows'
    BY DEF JobInv, AlertRows, JobOf
  <1>4. QED
    BY <1>1, <1>2, <1>3

LEMMA IngestBarsStep ==
    ASSUME JobInv, NEW r \in Threads, IngestBars(r)
    PROVE  JobInv'
  <1>1. /\ Running(r) /\ EndsRun(r) /\ bars' = bars \cup ClosedSessions
        /\ ingested' = (ingested \/ slot \in Closed)
        /\ UNCHANGED <<day, slot, screened, historical, sent, listed, overlapped, raced>>
    BY DEF IngestBars, At, Running
  <1>2. Runs' /\ (\A q \in Threads : Fits(run[q])') /\ AlertRows'
    BY <1>1, EndsBeside
  <1>3. /\ ClosedSessions \subseteq 0 .. day /\ \A d \in ClosedSessions : Trading(d)
        /\ slot \in Closed /\ Trading(day) => day \in ClosedSessions
    BY DEF ClosedSessions, JobInv, DayTypeOK
  <1>4. Kept'
    BY <1>1, <1>3 DEF JobInv, Kept, Trading
  <1>5. DayTypeOK'
    BY <1>1, <1>3 DEF JobInv, DayTypeOK, Trading, Count
  <1>6. QED
    BY <1>2, <1>4, <1>5 DEF JobInv

LEMMA ScreenStep ==
    ASSUME JobInv, NEW r \in Threads, Screen(r)
    PROVE  JobInv'
  <1>1. /\ Running(r) /\ EndsRun(r)
        /\ UNCHANGED <<day, slot, bars, historical, sent, listed, overlapped, raced, ingested>>
    BY DEF Screen, At, Running, history
  <1>2. PICK S \in SUBSET Symbols :
            screened' = Put(screened, day, [bars |-> Max(bars), passed |-> S])
    BY DEF Screen
  <1>3. Runs' /\ (\A q \in Threads : Fits(run[q])') /\ AlertRows'
    BY <1>1, EndsBeside
  <1>4. /\ DOMAIN screened' = DOMAIN screened \cup {day}
        /\ screened'[day].bars = Max(bars) /\ screened'[day].passed = S
        /\ \A d \in DOMAIN screened \ {day} : screened'[d] = screened[d]
    BY <1>2 DEF Put
  <1>5. Max(bars) \in bars /\ Max(bars) \in 0 .. day
    BY LatestBar
  <1>6. Kept'
    BY <1>1, <1>4 DEF JobInv, Kept, Trading
  <1>7. DayTypeOK'
    BY <1>1, <1>4, <1>5 DEF JobInv, DayTypeOK, Trading, Count
  <1>8. QED
    BY <1>3, <1>6, <1>7 DEF JobInv

LEMMA FetchHistoryStep ==
    ASSUME JobInv, NEW r \in Threads, FetchHistory(r)
    PROVE  JobInv'
  <1>1. /\ Running(r) /\ EndsRun(r) /\ historical' = historical \cup ({day - 1} \cap bars)
        /\ UNCHANGED <<day, slot, bars, screened, sent, listed, overlapped, raced, ingested>>
    BY DEF FetchHistory, At, Running, history
  <1>2. Runs' /\ (\A q \in Threads : Fits(run[q])') /\ AlertRows'
    BY <1>1, EndsBeside
  <1>3. Kept' /\ DayTypeOK'
    BY <1>1 DEF JobInv, Kept, DayTypeOK, Trading, Count
  <1>4. QED
    BY <1>2, <1>3 DEF JobInv

-----------------------------------------------------------------------------
(* The scheduler, people and the process *)

\* Overlaps that come to be known take nothing from what a run has seen.
LEMMA FitsMore ==
    ASSUME NEW x, Fits(x), UNCHANGED <<day, sent, listed>>,
           overlapped \subseteq overlapped', raced => raced'
    PROVE  Fits(x)'
  BY DEF Fits, Count

LEMMA BeginStep ==
    ASSUME JobInv, NEW job \in Jobs, NEW manual \in BOOLEAN, Begin(job, manual),
           slot' \in 0 .. Len(Schedule), UNCHANGED <<day, tables, ingested>>
    PROVE  JobInv'
  <1> DEFINE others == {q \in Threads : Running(q)}
  <1>1. PICK r \in Threads :
            /\ ~Running(r)
            /\ run' = [run EXCEPT ![r] = [IdleThread EXCEPT !.job = job, !.pc = "begin",
                                                            !.manual = manual]]
            /\ overlapped' = overlapped \cup {j \in {job} : \E q \in others : run[q].job = j}
            /\ raced' = (raced \/ {"morning_digest", "intraday_pulse"}
                                     \subseteq {run[q].job : q \in others} \cup {job})
    BY DEF Begin
  <1>2. PICK x \in RunRecord :
            /\ x = [IdleThread EXCEPT !.job = job, !.pc = "begin", !.manual = manual]
            /\ x.job = job /\ x.pc = "begin"
    <2> DEFINE y == [IdleThread EXCEPT !.job = job, !.pc = "begin", !.manual = manual]
    <2>1. y \in RunRecord /\ y.job = job /\ y.pc = "begin"
      BY DEF IdleThread, RunRecord
    <2>2. QED
      BY <2>1
  <1>3. /\ run' \in [Threads -> RunRecord] /\ run'[r] = x
        /\ \A q \in Threads \ {r} : run'[q] = run[q]
    BY <1>1, <1>2 DEF JobInv, Runs
  <1>4. overlapped \subseteq overlapped' /\ (raced => raced')
    BY <1>1
  <1>5. Together'
    <2> SUFFICES ASSUME NEW p \in Threads, NEW q \in Threads, p # q, Running(p)', Running(q)'
                 PROVE  /\ run'[p].job = run'[q].job => run'[p].job \in overlapped'
                        /\ run'[p].job = "morning_digest" /\ run'[q].job = "intraday_pulse" =>
                              raced'
      BY DEF Together
    <2>1. CASE p # r /\ q # r
      BY <1>3, <1>4, <2>1 DEF JobInv, Runs, Together, Running
    <2>2. CASE p = r
      <3>1. q \in others /\ run'[q] = run[q] /\ run'[p].job = job
        BY <1>2, <1>3, <2>2 DEF Running
      <3>2. run[q].job = job => job \in overlapped'
        BY <1>1, <3>1
      <3>3. {run[q].job, job} = {"morning_digest", "intraday_pulse"} => raced'
        BY <1>1, <3>1
      <3>4. QED
        BY <3>1, <3>2, <3>3
    <2>3. CASE q = r
      <3>1. p \in others /\ run'[p] = run[p] /\ run'[q].job = job
        BY <1>2, <1>3, <2>3 DEF Running
      <3>2. run[p].job = job => job \in overlapped'
        BY <1>1, <3>1
      <3>3. {run[p].job, job} = {"morning_digest", "intraday_pulse"} => raced'
        BY <1>1, <3>1
      <3>4. QED
        BY <3>1, <3>2, <3>3
    <2>4. QED
      BY <2>1, <2>2, <2>3
  <1>6. Runs'
    BY <1>2, <1>3, <1>5 DEF JobInv, Runs, Running
  <1>7. Fits(x)
    BY <1>2 DEF Fits
  <1>8. ASSUME NEW q \in Threads PROVE Fits(run[q])'
    <2>1. PICK y : y = run'[q] /\ Fits(y)
      BY <1>3, <1>7 DEF JobInv
    <2>2. Fits(y)'
      BY <1>4, <2>1, FitsMore DEF tables
    <2>3. QED
      BY <2>1, <2>2 DEF Fits
  <1>9. AlertRows'
    BY <1>4 DEF JobInv, AlertRows, JobOf, tables
  <1>10. Kept' /\ DayTypeOK'
    BY DEF JobInv, Kept, DayTypeOK, Trading, Count, tables
  <1>11. QED
    BY <1>6, <1>8, <1>9, <1>10 DEF JobInv

\* Time passes, or a preference changes, and no run moves.
LEMMA StandsStill ==
    ASSUME JobInv, slot' \in 0 .. Len(Schedule),
           UNCHANGED <<day, run, tables, overlapped, raced, ingested>>
    PROVE  JobInv'
  <1>1. Runs' /\ AlertRows' /\ Kept' /\ DayTypeOK'
    BY DEF JobInv, Runs, Together, Running, AlertRows, JobOf, Kept, DayTypeOK, Trading, Count,
           tables
  <1>2. \A q \in Threads : Fits(run[q])'
    BY DEF JobInv, Fits, Count, tables
  <1>3. QED
    BY <1>1, <1>2 DEF JobInv

LEMMA TickStep ==
    ASSUME JobInv, Tick
    PROVE  JobInv'
  <1>1. /\ Schedule \in Seq(Jobs) /\ slot \in 0 .. Len(Schedule)
        /\ slot < Len(Schedule) /\ slot' = slot + 1
    BY CalendarAssumption DEF JobInv, DayTypeOK, Tick
  <1>2. slot' \in 1 .. Len(Schedule) /\ slot' \in 0 .. Len(Schedule) /\ Schedule[slot'] \in Jobs
    BY <1>1
  <1>3. UNCHANGED <<day, tables, ingested>>
    BY DEF Tick
  <1>4. CASE Begin(Schedule[slot'], FALSE)
    <2>1. PICK job \in Jobs : job = Schedule[slot']
      BY <1>2
    <2>2. Begin(job, FALSE)
      BY <1>4, <2>1
    <2>3. QED
      BY <1>2, <1>3, <2>2, BeginStep
  <1>5. CASE UNCHANGED <<run, overlapped, raced>>
    BY <1>2, <1>3, <1>5, StandsStill
  <1>6. QED
    BY <1>4, <1>5 DEF Tick

LEMMA AllIdle ==
    ASSUME run' \in [Threads -> RunRecord], \A r \in Threads : run'[r] = IdleThread
    PROVE  Runs' /\ \A r \in Threads : Fits(run[r])'
  <1>1. Runs'
    BY IdleIs DEF Runs, Together, Running
  <1>2. \A r \in Threads : Fits(run[r])'
    BY IdleIs DEF Fits, Digests
  <1>3. QED
    BY <1>1, <1>2

LEMMA NextDayStep ==
    ASSUME JobInv, NextDay
    PROVE  JobInv'
  <1>1. /\ slot' = 0 /\ day < LastDay /\ day' = day + 1 /\ day \in Nat /\ LastDay \in Nat
        /\ UNCHANGED <<run, bars, screened, historical>> /\ listed' = Nothing
        /\ ingested' = FALSE /\ \A r \in Threads : ~Running(r)
        /\ sent' = Restrict(sent, {k \in DOMAIN sent : k[3] > day})
    BY CalendarAssumption DEF NextDay, JobInv, DayTypeOK
  <1>2. Runs' /\ \A r \in Threads : Fits(run[r])'
    <2>1. run' \in [Threads -> RunRecord] /\ \A r \in Threads : run'[r] = IdleThread
      BY <1>1 DEF JobInv, Runs, Running
    <2>2. QED
      BY <2>1, AllIdle
  <1>3. AlertRows'
    <2>1. /\ DOMAIN sent' = {k \in DOMAIN sent : k[3] > day}
          /\ \A k \in DOMAIN sent' : sent'[k] = sent[k] /\ k \in DOMAIN sent
          /\ sent' = [k \in DOMAIN sent' |-> sent'[k]]
      BY <1>1 DEF Restrict
    <2>2. ASSUME NEW k \in DOMAIN sent'
          PROVE  k[1] = "job_failed" /\ sent'[k] = 1
      <3>1. k \in DOMAIN sent /\ k \in Keys /\ k[3] > day /\ sent'[k] = sent[k]
        BY <2>1, <2>2 DEF JobInv, AlertRows
      <3>2. k[3] \in Nat
        BY <3>1 DEF Keys
      <3>3. QED
        BY <1>1, <3>1, <3>2 DEF JobInv, AlertRows
    <2>3. QED
      BY <2>1, <2>2 DEF JobInv, AlertRows
  <1>4. Kept'
    BY <1>1 DEF JobInv, Kept
  <1>5. DayTypeOK'
    <2>1. day' \in 1 .. LastDay /\ slot' \in 0 .. Len(Schedule)
      BY <1>1, CalendarAssumption
    <2>2. DOMAIN listed' = {}
      BY <1>1 DEF Nothing
    <2>3. QED
      BY <1>1, <2>1, <2>2 DEF JobInv, DayTypeOK, Trading
  <1>6. QED
    BY <1>2, <1>3, <1>4, <1>5 DEF JobInv

LEMMA ProcessDiesStep ==
    ASSUME JobInv, ProcessDies
    PROVE  JobInv'
  <1>1. /\ run' = [r \in Threads |-> IdleThread]
        /\ UNCHANGED <<day, slot, tables, overlapped, raced, ingested>>
    BY DEF ProcessDies
  <1>2. Runs' /\ \A r \in Threads : Fits(run[r])'
    BY <1>1, IdleIs, AllIdle
  <1>3. AlertRows' /\ Kept' /\ DayTypeOK'
    BY <1>1 DEF JobInv, AlertRows, JobOf, Kept, DayTypeOK, Trading, Count, tables
  <1>4. QED
    BY <1>2, <1>3 DEF JobInv

-----------------------------------------------------------------------------

LEMMA JobInvInit == DayInit => JobInv
  <1> SUFFICES ASSUME DayInit PROVE JobInv
    OBVIOUS
  <1>1. Runs /\ \A r \in Threads : Fits(run[r])
    BY IdleIs DEF DayInit, Runs, Together, Running
  <1>2. AlertRows
    BY DEF DayInit, AlertRows, Nothing
  <1>3. Kept /\ DayTypeOK
    BY CalendarAssumption DEF DayInit, Kept, DayTypeOK, Nothing, Trading
  <1>4. QED
    BY <1>1, <1>2, <1>3 DEF JobInv

\* The steps of one run.
LEMMA RunStep ==
    ASSUME JobInv, NEW r \in Threads,
           \/ CheckDigest(r) \/ SendDigest(r) \/ BeginPulse(r) \/ CheckSetup(r) \/ SendSetup(r)
           \/ BeginEvening(r) \/ IngestBars(r) \/ BeginScreener(r) \/ Screen(r)
           \/ BeginHistory(r) \/ FetchHistory(r) \/ Fail(r) \/ PulseRaises(r)
    PROVE  JobInv'
  <1>1. CASE CheckDigest(r) \/ BeginPulse(r) \/ CheckSetup(r)
    BY <1>1, CheckDigestStep, BeginPulseStep, CheckSetupStep
  <1>2. CASE SendDigest(r) \/ SendSetup(r)
    BY <1>2, SendDigestStep, SendSetupStep
  <1>3. CASE BeginEvening(r) \/ BeginScreener(r) \/ BeginHistory(r)
    BY <1>3, CalendarStep
  <1>4. CASE IngestBars(r) \/ Screen(r) \/ FetchHistory(r)
    BY <1>4, IngestBarsStep, ScreenStep, FetchHistoryStep
  <1>5. CASE Fail(r) \/ PulseRaises(r)
    <2>1. Running(r) /\ Failure(r)
      BY <1>5 DEF Fail, PulseRaises, At, Running
    <2>2. QED
      BY <2>1, FailureStep
  <1>6. QED
    BY <1>1, <1>2, <1>3, <1>4, <1>5

LEMMA JobInvStep == JobInv /\ [DayNext]_day_vars => JobInv'
  <1> SUFFICES ASSUME JobInv, [DayNext]_day_vars PROVE JobInv'
    OBVIOUS
  <1>slot. slot \in 0 .. Len(Schedule)
    BY DEF JobInv, DayTypeOK
  <1>1. CASE UNCHANGED day_vars
    BY <1>slot, <1>1, StandsStill DEF day_vars, history
  <1>2. CASE Tick
    BY <1>2, TickStep
  <1>3. CASE NextDay
    BY <1>3, NextDayStep
  <1>4. CASE Mute
    BY <1>slot, <1>4, StandsStill DEF Mute
  <1>5. CASE ProcessDies
    BY <1>5, ProcessDiesStep
  <1>6. ASSUME NEW job \in Jobs, TriggerJob(job) PROVE JobInv'
    <2>1. Begin(job, TRUE) /\ UNCHANGED <<day, slot, tables, ingested>>
      BY <1>6 DEF TriggerJob
    <2>2. QED
      BY <1>slot, <2>1, BeginStep
  <1>7. ASSUME NEW r \in Threads,
               \/ CheckDigest(r) \/ SendDigest(r) \/ BeginPulse(r) \/ CheckSetup(r) \/ SendSetup(r)
               \/ BeginEvening(r) \/ IngestBars(r) \/ BeginScreener(r) \/ Screen(r)
               \/ BeginHistory(r) \/ FetchHistory(r) \/ Fail(r) \/ PulseRaises(r)
        PROVE  JobInv'
    BY <1>7, RunStep
  <1>8. QED
    BY <1>1, <1>2, <1>3, <1>4, <1>5, <1>6, <1>7 DEF DayNext

LEMMA JobsInductive == DaySpec => []JobInv
  BY JobInvInit, JobInvStep, PTL DEF DaySpec

\* Type correctness.  The stored chains are of days with bars, the screener's
\* results of bars there are, and a listed digest has its row.
THEOREM DayTyped == DaySpec => []DayTypeOK
  <1>1. JobInv => DayTypeOK
    BY DEF JobInv
  <1>2. QED
    BY <1>1, JobsInductive, PTL

\* A digest goes out once a day and a setup once a symbol and day, through every
\* order of triggers, crashes, failures and mutings, unless two runs of the job
\* overlap; and no pulse repeats what the morning digest has listed, unless the two
\* were under way together.
THEOREM AlertsOnce == DaySpec => AlertOnce
  <1> DEFINE Once ==
          \A k \in DOMAIN sent' :
             /\ 1 < sent'[k] => JobOf(k) \in overlapped'
             /\ k[1] = "setup_triggered" /\ sent'[k] > Count(k) /\ day \in DOMAIN listed =>
                   k[2] \notin listed[day] \/ raced
  <1>1. JobInv /\ JobInv' /\ [DayNext]_day_vars => Once
    <2> SUFFICES ASSUME JobInv, JobInv', [DayNext]_day_vars, NEW k \in DOMAIN sent'
                 PROVE  /\ 1 < sent'[k] => JobOf(k) \in overlapped'
                        /\ k[1] = "setup_triggered" /\ sent'[k] > Count(k)
                           /\ day \in DOMAIN listed =>
                              k[2] \notin listed[day] \/ raced
      OBVIOUS
    <2>1. 1 < sent'[k] => JobOf(k) \in overlapped'
      BY DEF JobInv, AlertRows, JobOf
    <2>2. ASSUME k[1] = "setup_triggered", sent'[k] > Count(k), day \in DOMAIN listed
          PROVE  k[2] \notin listed[day] \/ raced
      <3>1. AlertRows /\ Count(k) \in Nat
        BY CountsRows DEF JobInv
      <3>2. ASSUME NEW r \in Threads, SendSetup(r)
            PROVE  k[2] \notin listed[day] \/ raced
        <4>1. PICK s \in Symbols : s = Here(r) /\ s = First(run[r].todo)
          BY <3>2, HereIs, FirstIn DEF SendSetup, At, JobInv, Runs, RunRecord, Fits
        <4>2. PICK j \in Keys : j = <<"setup_triggered", s, day>>
          <5>1. <<"setup_triggered", s, day>> \in Keys
            BY DEF JobInv, DayTypeOK, Keys
          <5>2. QED
            BY <5>1
        <4>3. Dispatch(j)
          BY <3>2, <4>1, <4>2 DEF SendSetup
        <4>4. k = j
          <5>1. k # j => k \notin DOMAIN sent' \/ Count(k)' = Count(k)
            BY <3>1, <4>3, Dispatched
          <5>2. Count(k)' = sent'[k]
            BY DEF Count
          <5>3. QED
            BY <2>2, <3>1, <5>1, <5>2
        <4>5. QED
          BY <2>2, <3>2, <4>1, <4>2, <4>4 DEF SendSetup, At, JobInv, Fits
      \* Every other step adds no row about a setup.
      <3>3. ASSUME NEW j \in Keys, j[1] # "setup_triggered", Dispatch(j)
            PROVE  FALSE
        <4>1. k # j
          BY <2>2, <3>3
        <4>2. Count(k)' = Count(k) /\ Count(k)' = sent'[k]
          BY <3>1, <3>3, <4>1, Dispatched DEF Count
        <4>3. QED
          BY <2>2, <3>1, <4>2
      <3>4. CASE UNCHANGED sent
        BY <2>2, <3>1, <3>4 DEF Count, AlertRows
      <3>5. ASSUME NEW r \in Threads, SendDigest(r) PROVE FALSE
        <4>1. PICK job \in Digests : Dispatch(<<job, "all", day>>)
          BY <3>5 DEF SendDigest, Digests
        <4>2. <<job, "all", day>> \in Keys /\ <<job, "all", day>>[1] # "setup_triggered"
          BY DEF JobInv, DayTypeOK, Keys, Digests
        <4>3. QED
          BY <3>3, <4>1, <4>2
      <3>6. ASSUME NEW r \in Threads, Running(r), Failure(r), ~UNCHANGED sent PROVE FALSE
        <4>1. PICK d \in Nat : d = UtcDate
          BY DEF UtcDate, JobInv, DayTypeOK
        <4>2. /\ <<"job_failed", run[r].job, d>> \in Keys
              /\ <<"job_failed", run[r].job, d>>[1] # "setup_triggered"
          BY <3>6 DEF JobInv, Runs, Keys
        <4>3. Dispatch(<<"job_failed", run[r].job, d>>)
          BY <3>6, <4>1 DEF Failure
        <4>4. QED
          BY <3>3, <4>2, <4>3
      <3>7. CASE NextDay
        <4>1. k \in DOMAIN sent /\ sent'[k] = sent[k]
          BY <3>7 DEF NextDay, Restrict
        <4>2. QED
          BY <2>2, <3>1, <4>1 DEF Count, AlertRows
      <3>8. ASSUME NEW r \in Threads, Fail(r) \/ PulseRaises(r)
            PROVE  Running(r) /\ Failure(r)
        BY <3>8 DEF Fail, PulseRaises, At, Running
      <3>9. CASE ~UNCHANGED sent
        BY <3>2, <3>5, <3>6, <3>7, <3>8, <3>9
           DEF DayNext, day_vars, tables, Tick, Mute, ProcessDies, TriggerJob, CheckDigest,
               BeginPulse, CheckSetup, BeginEvening, IngestBars, BeginScreener, Screen,
               BeginHistory, FetchHistory
      <3>10. QED
        BY <3>4, <3>9
    <2>3. QED
      BY <2>1, <2>2
  <1>2. QED
    BY <1>1, JobsInductive, PTL DEF DaySpec, AlertOnce

\* Once a pipeline of the day has committed, the screener works on the bars of the
\* day, for every calendar and schedule.
THEOREM ScreenerSeesClose == DaySpec => ScreenedOnClose
  <1> DEFINE OnClose == \A r \in Threads : Screen(r) /\ ingested => screened'[day].bars = day
  <1>1. JobInv => OnClose
    <2> SUFFICES ASSUME JobInv, NEW r \in Threads, Screen(r), ingested
                 PROVE  screened'[day].bars = day
      OBVIOUS
    <2>1. day \in bars
      BY DEF Screen, At, JobInv, Fits, Kept
    <2>2. Max(bars) = day
      <3>1. day \in Nat
        BY DEF JobInv, DayTypeOK
      <3>2. Max(bars) \in 0 .. day /\ day <= Max(bars)
        BY <2>1, LatestBar
      <3>3. QED
        BY <3>1, <3>2
    <2>3. screened'[day].bars = Max(bars)
      BY DEF Screen, Put
    <2>4. QED
      BY <2>2, <2>3
  <1>2. QED
    BY <1>1, JobsInductive, PTL DEF ScreenedOnClose

===============================================================================
