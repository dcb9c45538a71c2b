------------------------ MODULE PositionAlertsProofs ------------------------
(***************************************************************************)
(* Proofs about PositionAlerts, for every number of positions, rules,      *)
(* passes, runs and restarts: its types, that an alert's row comes before  *)
(* its message, that passes which do not overlap alert once, and that the  *)
(* write lock is never left behind.                                        *)
(***************************************************************************)
EXTENDS PositionAlerts, TLAPS

\* A rowid that is in use serves some cycle, so its triggers are well formed.
Lived == \A p \in PosId : state[p] # "none" => cycle[p] >= 1

\* Where a pass is tells what is already stored of the trigger it dispatches.
Staged(r) ==
    /\ pc[r] \in {"dispatch", "send", "record"} => current[r] \in Triggers
    /\ pc[r] \in {"send", "record"} => rows[current[r]] > 0
    /\ pc[r] = "record" => current[r] \in delivered

\* The lock belongs to a pass that is past its snapshots and not over.
LockHeld == writer # None => pc[writer] \notin {"idle", "snapshot"}

\* As long as no two passes have overlapped, what the pass that runs has looked
\* up in the alerts table is still true when it inserts.
Alone ==
    ~counts.overlap =>
        /\ \A q, r \in Passes : (pc[q] # "idle" /\ pc[r] # "idle") => q = r
        /\ \A r \in Passes : pc[r] = "dispatch" => ~AlreadyDispatched(current[r])
        /\ OncePerCycle

\* The inductive invariant.
IInv ==
    /\ TypeOK
    /\ Lived
    /\ PaperworkFirst
    /\ \A r \in Passes : Staged(r)
    /\ LockHeld
    /\ Alone

-----------------------------------------------------------------------------

LEMMA Numbers == MaxCycles \in Nat /\ MaxRuns \in Nat /\ MaxCrashes \in Nat
  BY Zenon, BoundsAssumption

LEMMA NoTriggerIsNone == NoTrigger \notin Triggers
  BY IdsAssumption DEF NoTrigger, Triggers

LEMMA InitIInv == Init => IInv
  <1> SUFFICES ASSUME Init PROVE IInv
    OBVIOUS
  <1> USE DEF Init
  <1>1. TypeOK
    <2>1. counts \in [runs : 0 .. MaxRuns, crashes : 0 .. MaxCrashes, overlap : BOOLEAN]
      BY Numbers
    <2>2. cycle \in [PosId -> 0 .. MaxCycles]
      BY Numbers
    <2>3. muted \in BOOLEAN
      BY Zenon
    <2>4. QED
      BY <2>1, <2>2, <2>3 DEF TypeOK, PassStates, JobStatuses
  <1>2. Lived /\ LockHeld
    BY DEF Lived, LockHeld
  <1>3. PaperworkFirst /\ Alone /\ \A r \in Passes : Staged(r)
    BY DEF PaperworkFirst, Alone, Staged, OncePerCycle
  <1>4. QED
    BY <1>1, <1>2, <1>3 DEF IInv

\* The requests touch neither the alerts table nor the passes.
LEMMA RequestKeeps ==
    ASSUME IInv, UNCHANGED <<table, writer, run, counts>>
    PROVE  PaperworkFirst' /\ (\A r \in Passes : Staged(r)') /\ LockHeld' /\ Alone'
  BY DEF IInv, table, run, PaperworkFirst, Staged, LockHeld, Alone, OncePerCycle, AlreadyDispatched

LEMMA RequestStep ==
    ASSUME IInv,
           ToggleMute \/ \E p \in PosId : OpenCycle(p) \/ Transition(p) \/ DeletePosition(p)
    PROVE  IInv'
  <1>1. UNCHANGED <<table, writer, run, counts>>
    BY DEF ToggleMute, OpenCycle, Transition, DeletePosition, Trade, book
  <1>2. PaperworkFirst' /\ (\A r \in Passes : Staged(r)') /\ LockHeld' /\ Alone'
    BY <1>1, RequestKeeps
  <1>3. TypeOK' /\ Lived'
    <2> USE Numbers DEF IInv, TypeOK, Lived, table, run
    <2>1. CASE ToggleMute
      BY <2>1 DEF ToggleMute, book
    <2>2. ASSUME NEW p \in PosId, OpenCycle(p) PROVE TypeOK' /\ Lived'
      BY <2>2 DEF OpenCycle, Trade
    <2>3. ASSUME NEW p \in PosId, Transition(p) PROVE TypeOK' /\ Lived'
      BY <2>3 DEF Transition, Trade
    <2>4. ASSUME NEW p \in PosId, DeletePosition(p) PROVE TypeOK' /\ Lived'
      BY <2>4 DEF DeletePosition, Trade
    <2>5. QED
      BY <2>1, <2>2, <2>3, <2>4
  <1>4. QED
    BY <1>2, <1>3 DEF IInv

\* A pass moves without writing an alert: it only has to be at a place where
\* nothing is said about its trigger, or where what is said stays true.
LEMMA QuietStep ==
    ASSUME IInv, NEW r \in Passes,
           UNCHANGED <<book, muted, table>>, TypeOK', LockHeld', Staged(r)',
           \A q \in Passes \ {r} : pc'[q] = pc[q] /\ current'[q] = current[q],
           pc[r] # "idle", counts'.overlap = counts.overlap,
           pc'[r] = "dispatch" => ~AlreadyDispatched(current'[r])
    PROVE  IInv'
  <1>1. Lived' /\ PaperworkFirst' /\ \A q \in Passes : Staged(q)'
    BY DEF IInv, Lived, PaperworkFirst, Staged, book, table
  <1>2. Alone'
    <2> SUFFICES ASSUME ~counts.overlap PROVE Alone'
      BY DEF Alone
    <2>1. \A q \in Passes : pc'[q] # "idle" => q = r
      BY DEF IInv, Alone
    <2>2. OncePerCycle'
      BY DEF IInv, Alone, OncePerCycle, table
    <2>3. \A q \in Passes : pc'[q] = "dispatch" => ~AlreadyDispatched(current[q])'
      BY <2>1 DEF AlreadyDispatched, table
    <2>4. QED
      BY <2>1, <2>2, <2>3 DEF Alone
  <1>3. QED
    BY <1>1, <1>2 DEF IInv

LEMMA StartStep ==
    ASSUME IInv, NEW r \in Passes, Start(r)
    PROVE  IInv'
  <1> USE Numbers DEF Start, Goes, IInv
  <1>1. TypeOK'
    <2>1. counts'.runs \in 0 .. MaxRuns /\ counts'.crashes = counts.crashes
      BY DEF TypeOK
    <2>2. counts'.overlap \in BOOLEAN
      BY Zenon DEF TypeOK
    <2>3. counts' \in [runs : 0 .. MaxRuns, crashes : 0 .. MaxCrashes, overlap : BOOLEAN]
      BY <2>1, <2>2 DEF TypeOK
    <2>4. QED
      BY <2>3 DEF TypeOK, PassStates, JobStatuses, book, table
  <1>2. Lived' /\ PaperworkFirst' /\ (\A q \in Passes : Staged(q)') /\ LockHeld'
    BY DEF TypeOK, Lived, PaperworkFirst, Staged, LockHeld, book, table
  <1>3. Alone'
    <2> SUFFICES ASSUME ~counts'.overlap PROVE Alone'
      BY DEF Alone
    <2>1. ~counts.overlap /\ \A q \in Passes \ {r} : pc[q] = "idle"
      BY DEF TypeOK
    <2>2. QED
      BY <2>1 DEF TypeOK, Alone, OncePerCycle, AlreadyDispatched, table
  <1>4. QED
    BY <1>1, <1>2, <1>3

\* The steps of a pass that leave the alerts table alone.
LEMMA ReadStep ==
    ASSUME IInv, NEW r \in Passes,
           \/ Snapshot(r) \/ Evaluate(r) \/ Mute(r) \/ PersistLockedOut(r)
           \/ RecordLockedOut(r) \/ Finish(r) \/ PassLockedOut(r)
           \/ \E t \in todo[r] : Suppress(r, t) \/ Pass(r, t)
    PROVE  IInv'
  <1> USE DEF Goes
  <1>1. CASE Snapshot(r)
    <2>1. TypeOK' /\ LockHeld' /\ Staged(r)'
      BY <1>1 DEF IInv, TypeOK, LockHeld, Staged, Snapshot, PassStates, book, table
    <2>2. QED
      BY <1>1, <2>1, QuietStep DEF IInv, TypeOK, Snapshot
  <1>2. CASE Evaluate(r)
    <2>1. \A h \in {p \in PosId : state[p] = "option"} \X Rules :
              [position_id |-> h[1], rule |-> h[2], cycle |-> cycle[h[1]]] \in Triggers
      BY Numbers DEF IInv, TypeOK, Lived, Triggers
    <2>2. TypeOK'
      BY <1>2, <2>1 DEF IInv, TypeOK, Evaluate, PassStates, book, table
    <2>3. LockHeld' /\ Staged(r)'
      BY <1>2 DEF IInv, TypeOK, LockHeld, Staged, Evaluate
    <2>4. QED
      BY <1>2, <2>2, <2>3, QuietStep DEF IInv, TypeOK, Evaluate
  <1>3. CASE Mute(r) \/ PersistLockedOut(r) \/ RecordLockedOut(r)
    <2> USE DEF Mute, PersistLockedOut, RecordLockedOut, NextTrigger
    <2>1. TypeOK' /\ LockHeld' /\ Staged(r)'
      BY <1>3 DEF IInv, TypeOK, LockHeld, Staged, PassStates, book, table
    <2>2. QED
      BY <1>3, <2>1, QuietStep DEF IInv, TypeOK
  <1>4. CASE Finish(r)
    <2>1. TypeOK' /\ LockHeld' /\ Staged(r)'
      BY <1>4 DEF IInv, TypeOK, LockHeld, Staged, Finish, PassStates, JobStatuses, book, table
    <2>2. QED
      BY <1>4, <2>1, QuietStep DEF IInv, TypeOK, Finish
  <1>5. CASE PassLockedOut(r)
    <2>1. TypeOK' /\ LockHeld' /\ Staged(r)'
      BY <1>5 DEF IInv, TypeOK, LockHeld, Staged, PassLockedOut, PassStates, book, table
    <2>2. QED
      BY <1>5, <2>1, QuietStep DEF IInv, TypeOK, PassLockedOut
  <1>6. ASSUME NEW t \in todo[r], Suppress(r, t) PROVE IInv'
    <2>1. TypeOK' /\ LockHeld' /\ Staged(r)'
      BY <1>6 DEF IInv, TypeOK, LockHeld, Staged, Suppress, Takes, book, table
    <2>2. QED
      BY <1>6, <2>1, QuietStep DEF IInv, TypeOK, Suppress
  <1>7. ASSUME NEW t \in todo[r], Pass(r, t) PROVE IInv'
    <2>1. t \in Triggers
      BY DEF IInv, TypeOK
    <2>2. TypeOK' /\ LockHeld' /\ Staged(r)'
      BY <1>7, <2>1 DEF IInv, TypeOK, LockHeld, Staged, Pass, Takes, PassStates, book, table
    <2>3. QED
      BY <1>7, <2>2, QuietStep DEF IInv, TypeOK, Pass
  <1>8. QED
    BY <1>1, <1>2, <1>3, <1>4, <1>5, <1>6, <1>7

\* The insert of the row.  A pass alone looked for the row before and nobody has
\* written one since.
LEMMA PersistStep ==
    ASSUME IInv, NEW r \in Passes, Persist(r)
    PROVE  IInv'
  <1> USE DEF Persist, Goes
  <1>1. current[r] \in Triggers /\ rows \in [Triggers -> Nat]
    BY DEF IInv, TypeOK, Staged
  <1>2. /\ rows' \in [Triggers -> Nat]
        /\ rows'[current[r]] = rows[current[r]] + 1
        /\ \A t \in Triggers \ {current[r]} : rows'[t] = rows[t]
    BY <1>1
  <1>3. \A t \in Triggers : rows[t] > 0 => rows'[t] > 0
    BY <1>1, <1>2
  <1>4. TypeOK'
    BY <1>2 DEF IInv, TypeOK, PassStates, book
  <1>5. Lived' /\ LockHeld' /\ PaperworkFirst'
    BY <1>3 DEF IInv, TypeOK, Lived, LockHeld, PaperworkFirst, book
  <1>6. \A q \in Passes : Staged(q)'
    BY <1>1, <1>2, <1>3 DEF IInv, TypeOK, Staged
  <1>7. Alone'
    <2> SUFFICES ASSUME ~counts.overlap PROVE Alone'
      BY DEF Alone
    <2>1. rows[current[r]] = 0
      BY <1>1 DEF IInv, Alone, AlreadyDispatched
    <2>2. OncePerCycle'
      BY <1>2, <2>1 DEF IInv, Alone, OncePerCycle
    <2>3. \A q \in Passes : pc'[q] # "idle" => q = r
      BY DEF IInv, TypeOK, Alone
    <2>4. pc'[r] = "send"
      BY DEF IInv, TypeOK
    <2>5. QED
      BY <2>2, <2>3, <2>4 DEF Alone
  <1>8. QED
    BY <1>4, <1>5, <1>6, <1>7 DEF IInv

LEMMA SendStep ==
    ASSUME IInv, NEW r \in Passes, Send(r) \/ Record(r)
    PROVE  IInv'
  <1> USE DEF Send, Record, NextTrigger, Goes, IInv
  <1>1. current[r] \in Triggers /\ rows[current[r]] > 0
    BY DEF Staged
  <1>2. TypeOK'
    BY <1>1 DEF TypeOK, PassStates, book, table
  <1>3. Lived' /\ LockHeld' /\ PaperworkFirst'
    BY <1>1 DEF TypeOK, Lived, LockHeld, PaperworkFirst, Staged, book, table
  <1>4. \A q \in Passes : Staged(q)'
    BY <1>1 DEF TypeOK, Staged, table
  <1>5. Alone'
    <2> SUFFICES ASSUME ~counts.overlap PROVE Alone'
      BY DEF Alone
    <2>1. OncePerCycle'
      BY DEF Alone, OncePerCycle, table
    <2>2. \A q \in Passes : pc'[q] # "idle" => q = r
      BY DEF TypeOK, Alone
    <2>3. pc'[r] # "dispatch"
      BY DEF TypeOK
    <2>4. QED
      BY <2>1, <2>2, <2>3 DEF Alone
  <1>6. QED
    BY <1>2, <1>3, <1>4, <1>5

LEMMA CrashStep ==
    ASSUME IInv, Crash
    PROVE  IInv'
  <1> USE Numbers DEF Crash, IInv
  <1>1. TypeOK'
    BY DEF TypeOK, PassStates, book, table
  <1>2. Lived' /\ LockHeld' /\ PaperworkFirst' /\ \A q \in Passes : Staged(q)'
    BY DEF Lived, LockHeld, PaperworkFirst, Staged, book, table
  <1>3. Alone'
    BY DEF TypeOK, Alone, OncePerCycle, table
  <1>4. QED
    BY <1>1, <1>2, <1>3

LEMMA StutterStep ==
    ASSUME IInv, UNCHANGED vars
    PROVE  IInv'
  BY DEF IInv, vars, book, table, run, TypeOK, Lived, PaperworkFirst, Staged, LockHeld, Alone,
         OncePerCycle, AlreadyDispatched

LEMMA Inductive == Spec => []IInv
  <1>1. ASSUME IInv, [Next]_vars PROVE IInv'
    <2>1. CASE Next
      BY <1>1, <2>1, RequestStep, StartStep, ReadStep, PersistStep, SendStep, CrashStep
         DEF Next, Step
    <2>2. CASE UNCHANGED vars
      BY <1>1, <2>2, StutterStep
    <2>3. QED
      BY <1>1, <2>1, <2>2
  <1>2. QED
    BY InitIInv, <1>1, PTL DEF Spec

-----------------------------------------------------------------------------

\* Type correctness.
THEOREM TypeCorrect == Spec => []TypeOK
  <1>1. IInv => TypeOK
    BY DEF IInv
  <1>2. QED
    BY <1>1, Inductive, PTL

\* A message that went out has a row, and channels_sent claims no delivery that
\* did not happen, in every interleaving and wherever the process dies.
THEOREM RowBeforeMessage == Spec => []PaperworkFirst
  <1>1. IInv => PaperworkFirst
    BY DEF IInv
  <1>2. QED
    BY <1>1, Inductive, PTL

\* Passes that never overlap alert at most once per condition and cycle, however
\* many there are and whichever of them the lock or a restart cuts short.
THEOREM SerialPassesAlertOnce == Spec => []OnceUnlessOverlapped
  <1>1. IInv => OnceUnlessOverlapped
    BY DEF IInv, Alone, OnceUnlessOverlapped
  <1>2. QED
    BY <1>1, Inductive, PTL

\* The write lock that a pass takes with its first snapshot is given back when
\* the pass is over: no lock is held by a pass that does not run.
THEOREM LockNeverLeaks == Spec => []LockHeld
  <1>1. IInv => LockHeld
    BY DEF IInv
  <1>2. QED
    BY <1>1, Inductive, PTL

=============================================================================
