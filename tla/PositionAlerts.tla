--------------------------- MODULE PositionAlerts ---------------------------
(***************************************************************************)
(* The nightly position_management job and the alerts it writes: passes    *)
(* started by the scheduler and by POST /api/system/jobs/{name}/run in one *)
(* process, the trade requests between their steps, the alerts table that  *)
(* deduplicates them, and SQLite's single write lock.                      *)
(*                                                                         *)
(* Every SQL transaction of a request or of the dispatcher is one step; a  *)
(* pass holds its own session open from the first snapshot it inserts to   *)
(* the commit of job_run.  A statement that needs the lock waits 5 s and   *)
(* then raises: while the lock is taken, giving up is always possible and  *)
(* going on is not.                                                        *)
(***************************************************************************)
EXTENDS Integers, FiniteSets

CONSTANTS
    PosId,        \* rowids of the positions table
    Rules,        \* management rules
    Passes,       \* who may run the job: the scheduler's thread, manual threads
    Quoted,       \* positions whose symbol has a close in bars_daily
    MaxCycles,    \* bound on the cycles one rowid serves
    MaxRuns,      \* bound on the passes started
    MaxCrashes,   \* bound on the restarts of the process
    None

ASSUME IdsAssumption == PosId \subseteq Nat \ {0} /\ Quoted \subseteq PosId
ASSUME BoundsAssumption == {MaxCycles, MaxRuns, MaxCrashes} \subseteq Nat
ASSUME NoneAssumption == None \notin Passes

\* cycle is history: it tells apart the cycles that one rowid serves in turn.
Triggers == [position_id : PosId, rule : Rules, cycle : 1 .. MaxCycles]

PassStates == {"idle", "snapshot", "evaluate", "fire", "dispatch", "send", "record"}
JobStatuses == {"none", "running", "success"}

VARIABLES
    state,      \* state[p]: "option" is short_put or covered_call, "shares", "closed", "none"
    cycle,      \* history: how many cycles rowid p has served
    muted,      \* the type is disabled, in quiet hours or snoozed
    rows,       \* rows[t]: position_management rows of the alerts table for t
    delivered,  \* triggers some channel has delivered
    channels,   \* triggers whose row has channels_sent filled in
    writer,     \* the pass whose session holds the write lock, or None
    pc,         \* where each pass is
    todo,       \* triggers a pass has evaluated and not handled yet
    current,    \* the trigger a pass is dispatching
    job,        \* status of the last job_runs row of a pass
    counts      \* history: passes started, crashes, and whether two passes ever overlapped

book == <<state, cycle>>
table == <<rows, delivered, channels>>
run == <<pc, todo, current, job>>
vars == <<book, muted, table, writer, run, counts>>

NoTrigger == [position_id |-> 0, rule |-> "none", cycle |-> 0]

Init ==
    /\ state = [p \in PosId |-> "none"]
    /\ cycle = [p \in PosId |-> 0]
    /\ muted = FALSE
    /\ rows = [t \in Triggers |-> 0]
    /\ delivered = {}
    /\ channels = {}
    /\ writer = None
    /\ pc = [r \in Passes |-> "idle"]
    /\ todo = [r \in Passes |-> {}]
    /\ current = [r \in Passes |-> NoTrigger]
    /\ job = [r \in Passes |-> "none"]
    /\ counts = [runs |-> 0, crashes |-> 0, overlap |-> FALSE]

-----------------------------------------------------------------------------
(* Trade requests: each is one short write transaction *)

Rows == {p \in PosId : state[p] # "none"}

Trade(p, s) ==
    /\ writer = None
    /\ state' = [state EXCEPT ![p] = s]
    /\ UNCHANGED <<muted, table, writer, run, counts>>

\* The next rowid is the largest plus one, so a deleted last id comes back.
OpenCycle(p) ==
    /\ \A q \in Rows : q < p
    /\ p = 1 \/ p - 1 \in Rows
    /\ cycle[p] < MaxCycles
    /\ cycle' = [cycle EXCEPT ![p] = @ + 1]
    /\ \E s \in {"option", "shares"} : Trade(p, s)

Transition(p) ==
    /\ UNCHANGED cycle
    /\ \/ state[p] = "option" /\ \E s \in {"shares", "closed"} : Trade(p, s)
       \/ state[p] = "shares" /\ \E s \in {"option", "closed"} : Trade(p, s)

\* The legs and the snapshots go with the position; its alerts stay.
DeletePosition(p) ==
    /\ state[p] = "closed"
    /\ UNCHANGED cycle
    /\ Trade(p, "none")

\* The user edits a preference or snoozes, or the quiet hours begin or end.
ToggleMute ==
    /\ muted' = ~muted
    /\ UNCHANGED <<book, table, writer, run, counts>>

-----------------------------------------------------------------------------
(* One pass of the job *)

Goes(r, s) == pc' = [pc EXCEPT ![r] = s]

\* job_run commits a row with status running before the body starts.
Start(r) ==
    /\ pc[r] = "idle"
    /\ counts.runs < MaxRuns
    /\ writer = None
    /\ Goes(r, "snapshot")
    /\ job' = [job EXCEPT ![r] = "running"]
    /\ counts' = [counts EXCEPT !.runs = @ + 1,
                                !.overlap = @ \/ \E q \in Passes \ {r} : pc[q] # "idle"]
    /\ UNCHANGED <<book, muted, table, writer, todo, current>>

Open == {p \in PosId : state[p] \in {"option", "shares"}}

\* run_snapshot_pass flushes a row per open position with a close: from the
\* first of them the session holds the write lock.
Snapshot(r) ==
    /\ pc[r] = "snapshot"
    /\ IF Open \cap Quoted = {} THEN UNCHANGED writer
                                ELSE writer = None /\ writer' = r
    /\ Goes(r, "evaluate")
    /\ UNCHANGED <<book, muted, table, todo, current, job, counts>>

\* run_management_pass: which rules hold is up to the market and the calendar.
\* Only positions with an option leg are looked at.
Evaluate(r) ==
    /\ pc[r] = "evaluate"
    /\ \E held \in SUBSET ({p \in PosId : state[p] = "option"} \X Rules) :
          todo' = [todo EXCEPT ![r] =
              {[position_id |-> h[1], rule |-> h[2], cycle |-> cycle[h[1]]] : h \in held}]
    /\ Goes(r, "fire")
    /\ UNCHANGED <<book, muted, table, writer, current, job, counts>>

\* Mutant: only alerts that reached a channel count.
AlreadyDelivered(t) ==
    \E u \in channels : u.position_id = t.position_id /\ u.rule = t.rule

\* already_dispatched_for_position_rule knows the rowid, not the cycle.
AlreadyDispatched(t) ==
    \E u \in Triggers :
        u.position_id = t.position_id /\ u.rule = t.rule /\ rows[u] > 0

Takes(r, t) == todo' = [todo EXCEPT ![r] = @ \ {t}]

Suppress(r, t) ==
    /\ pc[r] = "fire"
    /\ AlreadyDispatched(t)
    /\ Takes(r, t)
    /\ UNCHANGED <<book, muted, table, writer, pc, current, job, counts>>

Pass(r, t) ==
    /\ pc[r] = "fire"
    /\ ~AlreadyDispatched(t)
    /\ Takes(r, t)
    /\ current' = [current EXCEPT ![r] = t]
    /\ Goes(r, "dispatch")
    /\ UNCHANGED <<book, muted, table, writer, job, counts>>

\* fire_triggers goes on to its next trigger.
NextTrigger(r) ==
    /\ Goes(r, "fire")
    /\ current' = [current EXCEPT ![r] = NoTrigger]
    /\ UNCHANGED <<book, muted, writer, todo, job, counts>>

\* dispatch returns early and writes nothing.
Mute(r) ==
    /\ pc[r] = "dispatch"
    /\ muted
    /\ NextTrigger(r)
    /\ UNCHANGED table

\* _persist_alert inserts on a connection of its own, so it needs the lock that
\* this very pass may hold.
Persist(r) ==
    /\ pc[r] = "dispatch"
    /\ ~muted
    /\ writer = None
    /\ rows' = [rows EXCEPT ![current[r]] = @ + 1]
    /\ Goes(r, "send")
    /\ UNCHANGED <<book, muted, delivered, channels, writer, todo, current, job, counts>>

\* Mutant: no busy timeout against the pass's own session.
PersistWaitsForItself(r) ==
    /\ pc[r] = "dispatch"
    /\ ~muted
    /\ writer \notin {None, r}
    /\ NextTrigger(r)
    /\ UNCHANGED table

\* The insert raises after 5 s; fire_triggers logs it and goes on.
PersistLockedOut(r) ==
    /\ pc[r] = "dispatch"
    /\ ~muted
    /\ writer # None
    /\ NextTrigger(r)
    /\ UNCHANGED table

\* Mutant: the channels attempted are recorded, not the channels that delivered.
SendRecordsAttempt(r) ==
    /\ pc[r] = "send"
    /\ \/ delivered' = delivered \cup {current[r]}
       \/ UNCHANGED delivered
    /\ Goes(r, "record")
    /\ UNCHANGED <<book, muted, rows, channels, writer, todo, current, job, counts>>

\* The channels are tried in turn.  When none delivers, channels_sent is
\* overwritten by the NULL it already holds.
Send(r) ==
    /\ pc[r] = "send"
    /\ \/ /\ delivered' = delivered \cup {current[r]}
          /\ Goes(r, "record")
          /\ UNCHANGED <<book, muted, rows, channels, writer, todo, current, job, counts>>
       \/ NextTrigger(r) /\ UNCHANGED table

\* _update_channels_sent: a second transaction, after the message has gone out.
Record(r) ==
    /\ pc[r] = "record"
    /\ writer = None
    /\ channels' = channels \cup {current[r]}
    /\ NextTrigger(r)
    /\ UNCHANGED <<rows, delivered>>

RecordLockedOut(r) ==
    /\ pc[r] = "record"
    /\ writer # None
    /\ NextTrigger(r)
    /\ UNCHANGED table

\* Mutant: a status the table does not know.
FinishWithNewStatus(r) ==
    /\ pc[r] = "fire"
    /\ todo[r] = {}
    /\ writer \in {None, r}
    /\ writer' = None
    /\ job' = [job EXCEPT ![r] = "done"]
    /\ Goes(r, "idle")
    /\ UNCHANGED <<book, muted, table, todo, current, counts>>

\* The body is done: job_run commits the session.
Finish(r) ==
    /\ pc[r] = "fire"
    /\ todo[r] = {}
    /\ writer \in {None, r}
    /\ writer' = None
    /\ job' = [job EXCEPT ![r] = "success"]
    /\ Goes(r, "idle")
    /\ UNCHANGED <<book, muted, table, todo, current, counts>>

\* A flush or commit of the pass's own session gives up.  After a failed flush
\* the session refuses the commit that would have recorded the failure, so the
\* row keeps the status it had.
PassLockedOut(r) ==
    /\ \/ pc[r] = "snapshot" /\ Open \cap Quoted # {}
       \/ pc[r] = "fire" /\ todo[r] = {}
    /\ writer \notin {None, r}
    /\ Goes(r, "idle")
    /\ UNCHANGED <<book, muted, table, writer, todo, current, job, counts>>

\* The process dies and is started again: open transactions are rolled back.
Crash ==
    /\ counts.crashes < MaxCrashes
    /\ counts' = [counts EXCEPT !.crashes = @ + 1]
    /\ writer' = None
    /\ pc' = [r \in Passes |-> "idle"]
    /\ todo' = [r \in Passes |-> {}]
    /\ current' = [r \in Passes |-> NoTrigger]
    /\ UNCHANGED <<book, muted, table, job>>

Step(r) ==
    \/ Snapshot(r) \/ Evaluate(r)
    \/ \E t \in todo[r] : Suppress(r, t) \/ Pass(r, t)
    \/ Mute(r) \/ Persist(r) \/ PersistLockedOut(r)
    \/ Send(r) \/ Record(r) \/ RecordLockedOut(r)
    \/ Finish(r) \/ PassLockedOut(r)

Next ==
    \/ \E p \in PosId : OpenCycle(p) \/ Transition(p) \/ DeletePosition(p)
    \/ ToggleMute
    \/ \E r \in Passes : Start(r) \/ Step(r)
    \/ Crash

\* A started thread keeps running until its pass is over; nothing else has to
\* happen.
Fairness == \A r \in Passes : WF_vars(Step(r))

Spec == Init /\ [][Next]_vars /\ Fairness

-----------------------------------------------------------------------------
(* Properties *)

\* Type correctness.
TypeOK ==
    /\ state \in [PosId -> {"option", "shares", "closed", "none"}]
    /\ cycle \in [PosId -> 0 .. MaxCycles]
    /\ muted \in BOOLEAN
    /\ rows \in [Triggers -> Nat]
    /\ delivered \subseteq Triggers /\ channels \subseteq Triggers
    /\ writer \in Passes \cup {None}
    /\ pc \in [Passes -> PassStates]
    /\ todo \in [Passes -> SUBSET Triggers]
    /\ current \in [Passes -> Triggers \cup {NoTrigger}]
    /\ job \in [Passes -> JobStatuses]
    /\ counts \in [runs : 0 .. MaxRuns, crashes : 0 .. MaxCrashes, overlap : BOOLEAN]

\* fire_triggers' promise, "max 1 per condition per position lifecycle": however
\* often the job runs, and whatever restarts in between, a condition of a cycle
\* produces at most one alert.
OncePerCycle == \A t \in Triggers : rows[t] <= 1

\* Passes that follow each other keep the promise: by hand or by schedule, with
\* alerts lost to the lock and restarts in between.
OnceUnlessOverlapped == ~counts.overlap => OncePerCycle

\* The dispatcher persists before it sends and records after it has sent: a
\* message that reached a channel has a row to acknowledge, and channels_sent
\* never claims a delivery that did not happen, wherever the process dies.
PaperworkFirst ==
    /\ \A t \in delivered : rows[t] > 0
    /\ channels \subseteq delivered

\* Every pass that starts comes to an end, although each alert it dispatches
\* waits for a lock that the pass itself may hold.
PassEnds == \A r \in Passes : pc[r] # "idle" ~> pc[r] = "idle"

=============================================================================
