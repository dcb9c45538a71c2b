---------------------------- MODULE IngestionProofs ----------------------------
(***************************************************************************)
(* Proofs about Ingestion, for every number of symbols, sessions, runs,    *)
(* failures and edits: types, bars without a hole, and technicals as deep  *)
(* as the bars.                                                            *)
(***************************************************************************)
EXTENDS Ingestion, FiniteTheorems

\* S is a run of days that ends between the first session and day n.
Spans(S, n) == \E a \in Int : \E b \in 1 .. n : a <= b /\ S = a .. b

\* What begins on day d leaves no hole behind S.
Joins(S, d) == S = {} \/ \E a \in Int : \E b \in Nat : a <= b /\ S = a .. b /\ d <= b + 1

Starts == {<<>>} \cup UNION {[S -> Int] : S \in SUBSET Symbols}
Phases == {"idle", "bars", "load", "write", "chains", "iv", "rest"}
RunType == [pc : Phases, full : BOOLEAN, end : Int, start : Starts, left : SUBSET Symbols,
            loaded : SUBSET Int, only : SUBSET Int, affected : SUBSET Symbols]

\* A run q that is fetching bars on day n asks for days that join the bars B, and
\* one that goes through symbols has some left.
Planned(q, n, B) ==
    /\ q.pc = "bars" =>
          /\ q.end = n
          /\ DOMAIN q.start \subseteq Symbols
          /\ \A s \in DOMAIN q.start :
                q.start[s] \in Int /\ q.start[s] <= n /\ Joins(B[s], q.start[s])
    /\ q.pc \in {"load", "write", "chains", "iv"} => q.left # {} /\ q.affected # {}

Stores ==
    /\ today \in Nat \ {0}
    /\ bars \in [Symbols -> SUBSET Int]
    /\ \A s \in Symbols : bars[s] = {} \/ Spans(bars[s], today)
Pipelines ==
    /\ run \in [Runs -> RunType]
    /\ \A r \in Runs : Planned(run[r], today, bars)

\* The inductive invariant.
IInv == Stores /\ Pipelines

-----------------------------------------------------------------------------

LEMMA Numbers == LastDay \in Nat /\ FirstDay \in Nat \ {0} /\ FallbackDays \in Nat
  BY IngestionAssumption

\* The ends of a span are its least and greatest day.
LEMMA SpanEnds ==
    ASSUME NEW a \in Int, NEW b \in Int, a <= b
    PROVE  Min(a .. b) = a /\ Max(a .. b) = b
  <1>1. a \in a .. b /\ b \in a .. b /\ \A y \in a .. b : a <= y /\ b >= y
    OBVIOUS
  <1>2. \A x \in a .. b : (\A y \in a .. b : x <= y) => x = a
    BY <1>1
  <1>3. \A x \in a .. b : (\A y \in a .. b : x >= y) => x = b
    BY <1>1
  <1>4. Min(a .. b) = a
    BY <1>1, <1>2, Zenon DEF Min
  <1>5. Max(a .. b) = b
    BY <1>1, <1>3, Zenon DEF Max
  <1>6. QED
    BY <1>4, <1>5

\* Days that join a span and reach to today make a span that ends today.
LEMMA Extend ==
    ASSUME NEW n \in Nat \ {0}, NEW S, NEW d \in Int, d <= n,
           S = {} \/ Spans(S, n), Joins(S, d)
    PROVE  \E a \in Int : a <= n /\ S \cup d .. n = a .. n
  <1>1. CASE S = {}
    BY <1>1
  <1>2. CASE S # {}
    <2>1. PICK a \in Int, b \in 1 .. n : a <= b /\ S = a .. b
      BY <1>2 DEF Spans
    <2>2. PICK e \in Int, f \in Nat : e <= f /\ S = e .. f /\ d <= f + 1
      BY <1>2 DEF Joins
    <2>3. f = b
      <3>1. f \in a .. b /\ b \in e .. f
        BY <2>1, <2>2
      <3>2. QED
        BY <3>1
    <2>4. CASE a <= d
      <3>1. a .. b \cup d .. n = a .. n
        BY <2>1, <2>2, <2>3, <2>4
      <3>2. QED
        BY <2>1, <3>1
    <2>5. CASE d < a
      <3>1. a .. b \cup d .. n = d .. n
        BY <2>1, <2>5
      <3>2. QED
        BY <2>1, <3>1
    <2>6. QED
      BY <2>4, <2>5, <2>1
  <1>3. QED
    BY <1>1, <1>2

\* Days up to today join a span that ends today.
LEMMA JoinsToday ==
    ASSUME NEW n \in Nat \ {0}, NEW a \in Int, a <= n, NEW d \in Int, d <= n
    PROVE  Spans(a .. n, n) /\ Joins(a .. n, d)
  <1>1. n \in 1 .. n /\ d <= n + 1
    OBVIOUS
  <1>2. QED
    BY <1>1 DEF Spans, Joins

LEMMA NoRunRests == NoRun \in RunType /\ NoRun.pc = "idle"
  <1>1. <<>> \in Starts
    BY DEF Starts
  <1>2. {} \in SUBSET Symbols /\ {} \in SUBSET Int /\ FALSE \in BOOLEAN /\ "idle" \in Phases /\ 0 \in Int
    BY DEF Phases
  <1>3. NoRun \in RunType
    BY <1>1, <1>2, Zenon DEF NoRun, RunType
  <1>4. QED
    BY <1>3 DEF NoRun

LEMMA InitInv == Init => IInv
  <1> SUFFICES ASSUME Init PROVE IInv
    OBVIOUS
  <1>1. Stores
    BY Numbers DEF Init, Stores
  <1>2. Pipelines
    BY NoRunRests DEF Init, Pipelines, Planned
  <1>3. QED
    BY <1>1, <1>2 DEF IInv

-----------------------------------------------------------------------------

\* One run moves; the bars stay.
LEMMA OneMoves ==
    ASSUME IInv, NEW r, NEW q \in RunType, Planned(q, today, bars),
           run' = [run EXCEPT ![r] = q], UNCHANGED <<today, bars>>
    PROVE  IInv'
  <1>1. Stores'
    BY DEF IInv, Stores
  <1>2. run' \in [Runs -> RunType]
    BY DEF IInv, Pipelines
  <1>3. ASSUME NEW p \in Runs PROVE Planned(run'[p], today', bars')
    <2>1. run'[p] = q \/ run'[p] = run[p]
      BY DEF IInv, Pipelines
    <2>2. QED
      BY <2>1 DEF IInv, Pipelines
  <1>4. QED
    BY <1>1, <1>2, <1>3 DEF IInv, Pipelines

\* No run moves; the bars stay.
LEMMA NoneMoves ==
    ASSUME IInv, UNCHANGED <<today, bars, run>>
    PROVE  IInv'
  BY DEF IInv, Stores, Pipelines

LEMMA StartOfJoins ==
    ASSUME IInv, NEW s \in Symbols
    PROVE  StartOf(s) \in Int /\ Joins(bars[s], StartOf(s))
  <1>1. CASE bars[s] = {}
    BY <1>1, Numbers DEF IInv, Stores, StartOf, Joins
  <1>2. CASE bars[s] # {}
    <2>1. PICK a \in Int, b \in 1 .. today : a <= b /\ bars[s] = a .. b
      BY <1>2 DEF IInv, Stores, Spans
    <2>2. b \in Nat
      BY <2>1 DEF IInv, Stores
    <2>3. StartOf(s) = b + 1
      BY <1>2, <2>1, <2>2, SpanEnds DEF StartOf
    <2>4. QED
      BY <2>1, <2>2, <2>3 DEF Joins
  <1>3. QED
    BY <1>1, <1>2

LEMMA DayOneJoins ==
    ASSUME IInv, NEW s \in Symbols
    PROVE  Joins(bars[s], 1) /\ 1 <= today
  <1>1. today \in Nat \ {0}
    BY DEF IInv, Stores
  <1>2. CASE bars[s] = {}
    BY <1>1, <1>2 DEF Joins
  <1>3. CASE bars[s] # {}
    <2>1. PICK a \in Int, b \in 1 .. today : a <= b /\ bars[s] = a .. b
      BY <1>3 DEF IInv, Stores, Spans
    <2>2. b \in Nat /\ 1 <= b + 1
      BY <1>1, <2>1
    <2>3. QED
      BY <1>1, <2>1, <2>2 DEF Joins
  <1>4. QED
    BY <1>2, <1>3

\* The plans of a backfill and of an evening.
LEMMA FullOK ==
    ASSUME IInv, NEW targets \in SUBSET Symbols, NEW pinned \in SUBSET Symbols
    PROVE  Full(targets, pinned) \in RunType /\ Planned(Full(targets, pinned), today, bars)
  <1> DEFINE start == [s \in targets |-> 1]
             q == [NoRun EXCEPT !.pc = "bars", !.full = TRUE, !.end = today, !.start = start,
                                !.affected = pinned]
  <1>1. start \in [targets -> Int] /\ \A s \in targets : start[s] = 1
    OBVIOUS
  <1>2. start \in Starts /\ today \in Int /\ NoRun \in RunType
    BY <1>1, NoRunRests DEF Starts, IInv, Stores
  <1>3. Full(targets, pinned) = q
    BY DEF Full
  <1> HIDE DEF start
  <1>4. q \in RunType /\ q.pc = "bars" /\ q.end = today /\ q.start = start
    BY <1>2 DEF RunType, Phases
  <1> HIDE DEF q
  <1>5. Planned(q, today, bars)
    BY <1>1, <1>4, DayOneJoins DEF Planned
  <1>6. QED
    BY <1>3, <1>4, <1>5

LEMMA IncrementalOK ==
    ASSUME IInv, NEW targets \in SUBSET Symbols
    PROVE  Incremental(targets) \in RunType /\ Planned(Incremental(targets), today, bars)
  <1> DEFINE due == {t \in targets : StartOf(t) <= today}
             start == [s \in due |-> StartOf(s)]
             q == [NoRun EXCEPT !.pc = "bars", !.end = today, !.start = start]
  <1>1. /\ due \in SUBSET Symbols /\ start \in [due -> Int]
        /\ \A s \in due : start[s] \in Int /\ start[s] <= today /\ Joins(bars[s], start[s])
    BY StartOfJoins
  <1>2. Incremental(targets) = q
    BY DEF Incremental
  <1>3. DOMAIN start = due
    OBVIOUS
  <1> HIDE DEF start, due
  <1>4. start \in Starts /\ today \in Int /\ NoRun \in RunType
    BY <1>1, NoRunRests DEF Starts, IInv, Stores
  <1>5. q \in RunType /\ q.pc = "bars" /\ q.end = today /\ q.start = start
    BY <1>4 DEF RunType, Phases
  <1> HIDE DEF q
  <1>6. Planned(q, today, bars)
    BY <1>1, <1>3, <1>5 DEF Planned
  <1>7. QED
    BY <1>2, <1>5, <1>6

LEMMA StartInv ==
    ASSUME IInv, NEW r \in Runs,
           \/ StartEvening(r) \/ StartFull(r) \/ \E s \in Symbols : CreateTicker(s, r)
    PROVE  IInv'
  <1>1. Listed \in SUBSET Symbols /\ {} \in SUBSET Symbols
    BY DEF Listed
  <1>2. CASE StartEvening(r)
    <2>1. run' = [run EXCEPT ![r] = Incremental(Listed)] /\ UNCHANGED <<today, bars>>
      BY <1>2 DEF StartEvening, Begin, db
    <2>2. QED
      BY <1>1, <2>1, IncrementalOK, OneMoves
  <1>3. CASE StartFull(r)
    <2>1. run' = [run EXCEPT ![r] = Full(Listed, {})] /\ UNCHANGED <<today, bars>>
      BY <1>3 DEF StartFull, Begin, db
    <2>2. QED
      BY <1>1, <2>1, FullOK, OneMoves
  <1>4. ASSUME NEW s \in Symbols, CreateTicker(s, r) PROVE IInv'
    <2>1. run' = [run EXCEPT ![r] = Full({s}, {s})] /\ UNCHANGED <<today, bars>>
      BY <1>4 DEF CreateTicker, Begin
    <2>2. {s} \in SUBSET Symbols
      OBVIOUS
    <2>3. QED
      BY <2>1, <2>2, FullOK, OneMoves
  <1>5. QED
    BY <1>2, <1>3, <1>4

-----------------------------------------------------------------------------
(* Requests and commands beside the pipeline *)

LEMMA DeleteTickerInv ==
    ASSUME IInv, NEW s \in Symbols, DeleteTicker(s)
    PROVE  IInv'
  <1>1. bars' = [bars EXCEPT ![s] = {}] /\ UNCHANGED <<today, run>>
    BY DEF DeleteTicker
  <1>2. \A t \in Symbols : bars'[t] = {} \/ bars'[t] = bars[t]
    BY <1>1 DEF IInv, Stores
  <1>3. Stores'
    BY <1>1, <1>2 DEF IInv, Stores
  <1>4. ASSUME NEW r \in Runs PROVE Planned(run[r], today, bars')
    <2>1. Planned(run[r], today, bars)
      BY DEF IInv, Pipelines
    <2>2. QED
      BY <1>2, <2>1 DEF Planned, Joins
  <1>5. QED
    BY <1>1, <1>3, <1>4 DEF IInv, Pipelines

LEMMA AsideInv ==
    ASSUME IInv,
           \/ SyncUniverse
           \/ \E s \in Symbols : PromoteTicker(s) \/ BackfillIv(s)
    PROVE  IInv'
  BY NoneMoves DEF SyncUniverse, PromoteTicker, BackfillIv

LEMMA NextDayInv ==
    ASSUME IInv, NextDay
    PROVE  IInv'
  <1>1. today' = today + 1 /\ UNCHANGED <<bars, run>> /\ \A r \in Runs : run[r].pc = "idle"
    BY DEF NextDay, db, Active
  <1>2. Stores'
    <2>1. today \in Nat \ {0}
      BY DEF IInv, Stores
    <2>2. 1 .. today \subseteq 1 .. today + 1
      BY <2>1
    <2>3. QED
      BY <1>1, <2>1, <2>2 DEF IInv, Stores, Spans
  <1>3. Pipelines'
    BY <1>1 DEF IInv, Pipelines, Planned
  <1>4. QED
    BY <1>2, <1>3 DEF IInv

LEMMA CrashInv ==
    ASSUME IInv, Crash
    PROVE  IInv'
  <1>1. run' = [r \in Runs |-> NoRun] /\ UNCHANGED <<today, bars>>
    BY DEF Crash, db
  <1>2. Stores'
    BY <1>1 DEF IInv, Stores
  <1>3. Pipelines'
    BY <1>1, NoRunRests DEF Pipelines, Planned
  <1>4. QED
    BY <1>2, <1>3 DEF IInv

-----------------------------------------------------------------------------
(* The steps of a run *)

LEMMA RunTyped ==
    ASSUME IInv, NEW r \in Runs
    PROVE  run[r] \in RunType /\ Planned(run[r], today, bars)
  BY DEF IInv, Pipelines

\* A chunk that has been stored ends today, whichever symbols were missing.
LEMMA FetchChunkInv ==
    ASSUME IInv, NEW r \in Runs, FetchChunk(r)
    PROVE  IInv'
  <1> DEFINE start == run[r].start
             rest == [s \in DOMAIN start \ Chunk(r) |-> start[s]]
             q == [run[r] EXCEPT !.start = rest]
  <1>1. /\ run[r] \in RunType /\ run[r].pc = "bars" /\ run[r].end = today
        /\ DOMAIN start \subseteq Symbols
        /\ \A s \in DOMAIN start : start[s] \in Int /\ start[s] <= today /\ Joins(bars[s], start[s])
    BY RunTyped DEF FetchChunk, Planned
  <1>2. /\ today \in Nat \ {0} /\ bars \in [Symbols -> SUBSET Int]
        /\ \A s \in Symbols : bars[s] = {} \/ Spans(bars[s], today)
    BY DEF IInv, Stores
  <1>3. PICK missing \in SUBSET Chunk(r) :
            bars' = [s \in Symbols |->
                        IF s \in Chunk(r) \ missing THEN bars[s] \cup start[s] .. run[r].end
                                                    ELSE bars[s]]
    BY DEF FetchChunk
  <1>4. run' = [run EXCEPT ![r] = q] /\ today' = today
    BY DEF FetchChunk, Goes
  <1>5. Chunk(r) \subseteq DOMAIN start
    BY DEF Chunk, Group
  <1>6. \A s \in Symbols : bars'[s] = bars[s] \/ \E a \in Int : a <= today /\ bars'[s] = a .. today
    <2>1. SUFFICES ASSUME NEW s \in Symbols, s \in Chunk(r) \ missing
                   PROVE  \E a \in Int : a <= today /\ bars'[s] = a .. today
      BY <1>3
    <2>2. bars'[s] = bars[s] \cup start[s] .. today
      BY <1>1, <1>3, <2>1
    <2>3. start[s] \in Int /\ start[s] <= today /\ Joins(bars[s], start[s])
      BY <1>1, <1>5, <2>1
    <2> HIDE DEF start
    <2>4. \E a \in Int : a <= today /\ bars[s] \cup start[s] .. today = a .. today
      BY <1>2, <2>3, Extend
    <2>5. QED
      BY <2>2, <2>4
  <1>7. Stores'
    <2>1. \A s \in Symbols : bars'[s] \in SUBSET Int
      BY <1>2, <1>6
    <2>2. ASSUME NEW s \in Symbols PROVE bars'[s] = {} \/ Spans(bars'[s], today)
      BY <1>2, <1>6, JoinsToday
    <2>3. bars' \in [Symbols -> SUBSET Int]
      BY <1>3, <2>1
    <2>4. QED
      BY <1>2, <1>4, <2>2, <2>3 DEF Stores
  <1>8. q \in RunType /\ q.pc = "bars" /\ q.end = today /\ q.start = rest
    <2>1. rest \in Starts
      <3>1. DOMAIN start \ Chunk(r) \in SUBSET Symbols
        BY <1>1
      <3>2. rest \in [DOMAIN start \ Chunk(r) -> Int]
        BY <1>1
      <3> HIDE DEF rest, start
      <3>3. QED
        BY <3>1, <3>2 DEF Starts
    <2> HIDE DEF rest
    <2>2. QED
      BY <1>1, <2>1 DEF RunType
  <1>9. \A s \in DOMAIN rest : s \in DOMAIN start /\ rest[s] = start[s]
    OBVIOUS
  <1>10. ASSUME NEW s \in Symbols, NEW d \in Int, d <= today, Joins(bars[s], d)
         PROVE  Joins(bars'[s], d)
    BY <1>2, <1>6, <1>10, JoinsToday
  <1> HIDE DEF q, rest, start
  <1>11. Planned(q, today, bars')
    BY <1>1, <1>8, <1>9, <1>10 DEF Planned
  <1>12. ASSUME NEW p \in Runs PROVE run'[p] \in RunType /\ Planned(run'[p], today', bars')
    <2>1. CASE p = r
      BY <1>4, <1>8, <1>11, <2>1 DEF IInv, Pipelines
    <2>2. CASE p # r
      <3>1. run'[p] = run[p] /\ run[p] \in RunType /\ Planned(run[p], today, bars)
        BY <1>4, <2>2 DEF IInv, Pipelines
      <3>2. QED
        BY <1>4, <1>10, <3>1 DEF Planned
    <2>3. QED
      BY <2>1, <2>2
  <1>13. run' \in [Runs -> RunType]
    BY <1>4, <1>12 DEF IInv, Pipelines
  <1>14. QED
    BY <1>7, <1>12, <1>13 DEF IInv, Pipelines

\* A run that has its bars asks for none.
LEMMA Fetched ==
    ASSUME NEW q \in RunType, q.pc # "bars", q.pc \in {"idle", "rest"} \/ (q.left # {} /\ q.affected # {}),
           NEW n, NEW B
    PROVE  Planned(q, n, B)
  BY DEF Planned

LEMMA HereIsSymbol ==
    ASSUME IInv, NEW r \in Runs, run[r].pc \in {"load", "write", "chains", "iv"}
    PROVE  Here(r) \in run[r].left /\ Here(r) \in Symbols
  <1>1. run[r].left \in SUBSET Symbols /\ run[r].left # {}
    BY RunTyped DEF RunType, Planned
  <1>2. run[r].left \in SUBSET Int /\ IsFiniteSet(run[r].left)
    BY <1>1, FS_Subset, IngestionAssumption
  <1>3. QED
    BY <1>1, <1>2, Least DEF Here

LEMMA NextSymbolOK ==
    ASSUME IInv, NEW r \in Runs, run[r].pc \in {"load", "write", "chains", "iv"},
           NEW here \in Phases, NEW next \in Phases, here # "bars", next # "bars",
           NEW n, NEW B
    PROVE  NextSymbol(r, here, next) \in RunType /\ Planned(NextSymbol(r, here, next), n, B)
  <1>1. run[r] \in RunType /\ run[r].affected # {}
    BY RunTyped DEF Planned
  <1>2. run[r].left \ {Here(r)} \in SUBSET Symbols /\ run[r].affected \in SUBSET Symbols
    BY <1>1 DEF RunType
  <1>3. Here(r) \in run[r].left
    BY HereIsSymbol
  <1>4. CASE run[r].left = {Here(r)}
    <2>1. NextSymbol(r, here, next) =
            [run[r] EXCEPT !.pc = next, !.left = run[r].affected, !.loaded = {}, !.only = {}]
      BY <1>4 DEF NextSymbol
    <2>2. /\ NextSymbol(r, here, next) \in RunType /\ NextSymbol(r, here, next).pc = next
          /\ NextSymbol(r, here, next).left # {} /\ NextSymbol(r, here, next).affected # {}
      BY <1>1, <1>2, <2>1 DEF RunType
    <2>3. QED
      BY <2>2, Fetched
  <1>5. CASE run[r].left # {Here(r)}
    <2>1. NextSymbol(r, here, next) =
            [run[r] EXCEPT !.pc = here, !.left = run[r].left \ {Here(r)}, !.loaded = {}, !.only = {}]
      BY <1>5 DEF NextSymbol
    <2>2. run[r].left \ {Here(r)} # {}
      BY <1>3, <1>5
    <2>3. /\ NextSymbol(r, here, next) \in RunType /\ NextSymbol(r, here, next).pc = here
          /\ NextSymbol(r, here, next).left # {} /\ NextSymbol(r, here, next).affected # {}
      BY <1>1, <1>2, <2>1, <2>2 DEF RunType
    <2>4. QED
      BY <2>3, Fetched
  <1>6. QED
    BY <1>4, <1>5

LEMMA PhaseFacts == {"load", "write", "chains", "iv", "rest"} \subseteq Phases \ {"bars"}
  BY DEF Phases

LEMMA BarsDoneInv ==
    ASSUME IInv, NEW r \in Runs, BarsDone(r)
    PROVE  IInv'
  <1> DEFINE all == IF run[r].affected # {} THEN run[r].affected ELSE Stored
             q == IF all = {} THEN [run[r] EXCEPT !.pc = "rest"]
                  ELSE [run[r] EXCEPT !.pc = "load", !.affected = all, !.left = all]
  <1>1. run' = [run EXCEPT ![r] = q] /\ UNCHANGED <<today, bars>>
    BY DEF BarsDone, Goes, db
  <1>2. run[r] \in RunType
    BY RunTyped
  <1>3. all \in SUBSET Symbols
    BY <1>2 DEF Stored, RunType
  <1> HIDE DEF all
  <1>4. q \in RunType /\ q.pc # "bars" /\ (q.pc = "rest" \/ (q.left # {} /\ q.affected # {}))
    <2>1. CASE all = {}
      <3>1. q = [run[r] EXCEPT !.pc = "rest"]
        BY <2>1
      <3> HIDE DEF q
      <3>2. q \in RunType /\ q.pc = "rest"
        BY <1>2, <3>1 DEF RunType, Phases
      <3>3. QED
        BY <3>2
    <2>2. CASE all # {}
      <3>1. q = [run[r] EXCEPT !.pc = "load", !.affected = all, !.left = all]
        BY <2>2
      <3> HIDE DEF q
      <3>2. q \in RunType /\ q.pc = "load"
        BY <1>2, <1>3, <3>1 DEF RunType, Phases
      <3>3. q.left # {} /\ q.affected # {}
        BY <1>2, <2>2, <3>1 DEF RunType
      <3>4. QED
        BY <3>2, <3>3
    <2>3. QED
      BY <2>1, <2>2
  <1> HIDE DEF q
  <1>5. QED
    BY <1>1, <1>4, Fetched, OneMoves

LEMMA LoadBarsInv ==
    ASSUME IInv, NEW r \in Runs, LoadBars(r)
    PROVE  IInv'
  <1> DEFINE s == Here(r)
  <1>1. UNCHANGED <<today, bars>> /\ run[r].pc = "load"
    BY DEF LoadBars, db
  <1>2. CASE bars[s] = {}
    <2>1. run' = [run EXCEPT ![r] = NextSymbol(r, "load", "chains")]
      BY <1>2 DEF LoadBars, Goes
    <2>2. QED
      BY <1>1, <2>1, NextSymbolOK, PhaseFacts, OneMoves
  <1>3. CASE bars[s] # {}
    <2> DEFINE loaded == bars[s]
               only == DatesToWrite(r, s)
               q == [run[r] EXCEPT !.pc = "write", !.loaded = loaded, !.only = only]
    <2>1. run' = [run EXCEPT ![r] = q] /\ run[r] \in RunType
      BY <1>3, RunTyped DEF LoadBars, Goes
    <2>2. loaded \in SUBSET Int /\ only \in SUBSET Int
      BY <1>1, HereIsSymbol DEF IInv, Stores, DatesToWrite
    <2>3. run[r].left # {} /\ run[r].affected # {}
      BY <1>1, RunTyped DEF Planned
    <2> HIDE DEF s, loaded, only
    <2>4. q \in RunType /\ q.pc = "write" /\ q.left # {} /\ q.affected # {}
      BY <2>1, <2>2, <2>3 DEF RunType, Phases
    <2> HIDE DEF q
    <2>5. QED
      BY <1>1, <2>1, <2>4, Fetched, OneMoves
  <1>4. QED
    BY <1>2, <1>3

LEMMA WriteIndicatorsInv ==
    ASSUME IInv, NEW r \in Runs, WriteIndicators(r)
    PROVE  IInv'
  <1>1. /\ run' = [run EXCEPT ![r] = NextSymbol(r, "load", "chains")] /\ UNCHANGED <<today, bars>>
        /\ run[r].pc = "write"
    BY DEF WriteIndicators, Goes
  <1>2. QED
    BY <1>1, NextSymbolOK, PhaseFacts, OneMoves

LEMMA FetchChainInv ==
    ASSUME IInv, NEW r \in Runs, FetchChain(r)
    PROVE  IInv'
  <1>1. /\ run' = [run EXCEPT ![r] = NextSymbol(r, "chains", "iv")] /\ UNCHANGED <<today, bars>>
        /\ run[r].pc = "chains"
    BY DEF FetchChain, Goes
  <1>2. QED
    BY <1>1, NextSymbolOK, PhaseFacts, OneMoves

LEMMA RefreshIvInv ==
    ASSUME IInv, NEW r \in Runs, RefreshIv(r)
    PROVE  IInv'
  <1>1. /\ run' = [run EXCEPT ![r] = NextSymbol(r, "iv", "rest")] /\ UNCHANGED <<today, bars>>
        /\ run[r].pc = "iv"
    BY DEF RefreshIv, Goes
  <1>2. QED
    BY <1>1, NextSymbolOK, PhaseFacts, OneMoves

LEMMA EndsInv ==
    ASSUME IInv, NEW r \in Runs, Finish(r) \/ Fail(r)
    PROVE  IInv'
  <1>1. run' = [run EXCEPT ![r] = NoRun] /\ UNCHANGED <<today, bars>>
    BY DEF Finish, Fail, Goes, db
  <1>2. Planned(NoRun, today, bars)
    BY NoRunRests DEF Planned
  <1>3. QED
    BY <1>1, <1>2, NoRunRests, OneMoves

-----------------------------------------------------------------------------
(* The theorem *)

LEMMA NextInv == IInv /\ [Next]_vars => IInv'
  <1> SUFFICES ASSUME IInv, [Next]_vars PROVE IInv'
    OBVIOUS
  <1>1. ASSUME NEW r \in Runs, StartEvening(r) \/ StartFull(r) \/ \E s \in Symbols : CreateTicker(s, r)
        PROVE  IInv'
    BY <1>1, StartInv
  <1>2. ASSUME NEW r \in Runs, Step(r) \/ Fail(r) PROVE IInv'
    BY <1>2, FetchChunkInv, BarsDoneInv, LoadBarsInv, WriteIndicatorsInv, FetchChainInv,
       RefreshIvInv, EndsInv DEF Step
  <1>3. ASSUME NEW s \in Symbols, DeleteTicker(s) PROVE IInv'
    BY <1>3, DeleteTickerInv
  <1>4. CASE SyncUniverse \/ \E s \in Symbols : PromoteTicker(s) \/ BackfillIv(s)
    BY <1>4, AsideInv
  <1>5. CASE NextDay \/ Crash
    BY <1>5, NextDayInv, CrashInv
  <1>6. CASE UNCHANGED vars
    BY <1>6, NoneMoves DEF vars, db
  <1>7. QED
    BY <1>1, <1>2, <1>3, <1>4, <1>5, <1>6 DEF Next

LEMMA IInvAlways == Spec => []IInv
  BY InitInv, NextInv, PTL DEF Spec

\* The stored bars of a symbol have no hole, whatever chunk failed, came late or
\* was overtaken by another run or a deletion.
THEOREM BarsHaveNoGaps == Spec => []NoBarGaps
  <1>1. IInv => NoBarGaps
    <2>1. SUFFICES ASSUME IInv, NEW s \in Symbols, bars[s] # {}
                   PROVE  bars[s] = Min(bars[s]) .. Max(bars[s])
      BY DEF NoBarGaps, Stored
    <2>2. PICK a \in Int, b \in 1 .. today : a <= b /\ bars[s] = a .. b
      BY <2>1 DEF IInv, Stores, Spans
    <2>3. b \in Int
      BY <2>1, <2>2 DEF IInv, Stores
    <2>4. QED
      BY <2>2, <2>3, SpanEnds
  <1>2. QED
    BY <1>1, IInvAlways, PTL

-----------------------------------------------------------------------------
(* Types *)

\* A symbol's technicals come from no later bar than their own.
IsTech(t, n) == DOMAIN t \subseteq 1 .. n /\ \A d \in DOMAIN t : t[d] \in 0 .. d

Data ==
    /\ today \in Days /\ FirstDay <= today
    /\ ticker \in [Symbols -> {"none", "watchlist", "universe"}]
    /\ bars \in [Symbols -> SUBSET (1 .. today)]
    /\ tech = [s \in Symbols |-> tech[s]] /\ \A s \in Symbols : IsTech(tech[s], today)
    /\ chain \subseteq Symbols

\* What a run has in mind exists.
Fits(q, n) ==
    /\ q.left \subseteq q.affected
    /\ q.only \subseteq q.loaded /\ q.loaded \subseteq 1 .. n
    /\ q.pc = "write" => q.loaded # {}
    /\ q.pc = "bars" => \A s \in DOMAIN q.start : q.start[s] >= 1
Threads == \A r \in Runs : Fits(run[r], today)

TypeInv == Data /\ Threads

LEMMA NoRunFits == ASSUME NEW n PROVE Fits(NoRun, n)
  BY DEF NoRun, Fits

LEMMA TypeInit == Init => TypeInv
  <1> SUFFICES ASSUME Init PROVE TypeInv
    OBVIOUS
  <1>1. \A s \in Symbols : IsTech(NoRow, today)
    BY DEF IsTech, NoRow
  <1>2. Data
    BY <1>1, IngestionAssumption DEF Init, Data, Days
  <1>3. Threads
    BY NoRunFits DEF Init, Threads
  <1>4. QED
    BY <1>2, <1>3 DEF TypeInv

LEMMA OneThread ==
    ASSUME IInv, TypeInv, NEW r, NEW q, Fits(q, today), run' = [run EXCEPT ![r] = q], today' = today
    PROVE  Threads'
  <1>1. \A p \in Runs : run'[p] = q \/ run'[p] = run[p]
    BY DEF IInv, Pipelines
  <1>2. QED
    BY <1>1 DEF TypeInv, Threads

LEMMA UpsertTech ==
    ASSUME NEW f, NEW g, NEW n, IsTech(f, n), IsTech(g, n)
    PROVE  IsTech(Upsert(f, g), n)
  BY DEF IsTech, Upsert

LEMMA TechWritten ==
    ASSUME Data, NEW s \in Symbols, NEW t, IsTech(t, today), tech' = [tech EXCEPT ![s] = t]
    PROVE  tech' = [x \in Symbols |-> tech'[x]] /\ \A x \in Symbols : IsTech(tech'[x], today)
  <1>1. DOMAIN tech = Symbols
    BY DEF Data
  <1>2. \A x \in Symbols : tech'[x] = t \/ tech'[x] = tech[x]
    BY <1>1
  <1>3. QED
    BY <1>1, <1>2 DEF Data

LEMMA StartOfPositive ==
    ASSUME IInv, TypeInv, NEW s \in Symbols
    PROVE  StartOf(s) >= 1 /\ \A b \in bars[s] : b < StartOf(s)
  <1>1. today \in Nat /\ today >= FirstDay /\ FallbackDays < FirstDay
    BY Numbers, IngestionAssumption DEF TypeInv, Data, Days
  <1>2. CASE bars[s] = {}
    BY <1>1, <1>2, Numbers DEF StartOf
  <1>3. CASE bars[s] # {}
    <2>1. bars[s] \in SUBSET (1 .. today)
      BY DEF TypeInv, Data
    <2>2. IsFiniteSet(1 .. today)
      BY <1>1, FS_Interval
    <2>3. IsFiniteSet(bars[s])
      BY <2>1, <2>2, FS_Subset
    <2>4. bars[s] \in SUBSET Int
      BY <1>1, <2>1
    <2>5. Max(bars[s]) \in bars[s] /\ \A b \in bars[s] : Max(bars[s]) >= b
      BY <1>3, <2>3, <2>4, Greatest
    <2>6. StartOf(s) = Max(bars[s]) + 1
      BY <1>3 DEF StartOf
    <2>7. QED
      BY <1>1, <2>1, <2>5, <2>6
  <1>4. QED
    BY <1>2, <1>3

LEMMA FullFits ==
    ASSUME NEW targets \in SUBSET Symbols, NEW pinned, NEW n
    PROVE  Fits(Full(targets, pinned), n)
  BY NoRunFits DEF Full, Fits, NoRun

LEMMA IncrementalFits ==
    ASSUME IInv, TypeInv, NEW targets \in SUBSET Symbols
    PROVE  Fits(Incremental(targets), today)
  BY StartOfPositive DEF Incremental, Fits, NoRun

LEMMA StartTyped ==
    ASSUME IInv, TypeInv, NEW r \in Runs,
           \/ StartEvening(r) \/ StartFull(r) \/ \E s \in Symbols : CreateTicker(s, r)
    PROVE  TypeInv'
  <1>1. Listed \in SUBSET Symbols /\ \A s \in Symbols : {s} \in SUBSET Symbols
    BY DEF Listed
  <1>2. PICK q : Fits(q, today) /\ run' = [run EXCEPT ![r] = q]
    BY <1>1, FullFits, IncrementalFits DEF StartEvening, StartFull, CreateTicker, Begin
  <1>3. UNCHANGED <<today, bars, tech, chain>>
    BY DEF StartEvening, StartFull, CreateTicker, db
  <1>4. ticker' \in [Symbols -> {"none", "watchlist", "universe"}]
    BY DEF StartEvening, StartFull, CreateTicker, db, TypeInv, Data
  <1>5. Data'
    BY <1>3, <1>4 DEF TypeInv, Data
  <1>6. Threads'
    BY <1>2, <1>3, OneThread
  <1>7. QED
    BY <1>5, <1>6 DEF TypeInv

LEMMA WriteIvTyped ==
    ASSUME Data, NEW s \in Symbols, NEW dates \in SUBSET (1 .. today), WriteIv(s, dates)
    PROVE  tech' = [x \in Symbols |-> tech'[x]] /\ \A x \in Symbols : IsTech(tech'[x], today)
  <1> DEFINE t == Upsert([d \in dates |-> 0], tech[s])
  <1>1. IsTech([d \in dates |-> 0], today)
    BY DEF IsTech
  <1>2. IsTech(t, today)
    BY <1>1, UpsertTech DEF Data
  <1>3. tech' = [tech EXCEPT ![s] = t]
    BY DEF WriteIv, Data
  <1> HIDE DEF t
  <1>4. QED
    BY <1>2, <1>3, TechWritten

LEMMA AsideTyped ==
    ASSUME IInv, TypeInv,
           \/ SyncUniverse
           \/ \E s \in Symbols : PromoteTicker(s) \/ DeleteTicker(s) \/ BackfillIv(s)
    PROVE  TypeInv'
  <1>1. UNCHANGED <<today, run>>
    BY DEF SyncUniverse, PromoteTicker, DeleteTicker, BackfillIv
  <1>2. Threads'
    BY <1>1 DEF TypeInv, Threads
  <1>3. CASE SyncUniverse \/ \E s \in Symbols : PromoteTicker(s)
    BY <1>2, <1>3 DEF TypeInv, Data, SyncUniverse, PromoteTicker
  <1>4. ASSUME NEW s \in Symbols, DeleteTicker(s) PROVE TypeInv'
    <2>1. IsTech(NoRow, today)
      BY DEF IsTech, NoRow
    <2>2. tech' = [tech EXCEPT ![s] = NoRow]
      BY <1>4 DEF DeleteTicker
    <2>3. tech' = [x \in Symbols |-> tech'[x]] /\ \A x \in Symbols : IsTech(tech'[x], today)
      BY <2>1, <2>2, TechWritten DEF TypeInv
    <2>4. /\ ticker' \in [Symbols -> {"none", "watchlist", "universe"}]
          /\ bars' \in [Symbols -> SUBSET (1 .. today)] /\ chain' \subseteq Symbols
      BY <1>4 DEF DeleteTicker, TypeInv, Data
    <2>5. QED
      BY <1>1, <1>2, <2>3, <2>4 DEF TypeInv, Data
  <1>5. ASSUME NEW s \in Symbols, BackfillIv(s) PROVE TypeInv'
    <2>1. PICK dates \in SUBSET bars[s] : WriteIv(s, dates)
      BY <1>5 DEF BackfillIv
    <2>2. dates \in SUBSET (1 .. today) /\ Data
      BY DEF TypeInv, Data
    <2>3. tech' = [x \in Symbols |-> tech'[x]] /\ \A x \in Symbols : IsTech(tech'[x], today)
      BY <2>1, <2>2, WriteIvTyped
    <2>4. UNCHANGED <<ticker, bars, chain>>
      BY <1>5 DEF BackfillIv
    <2>5. QED
      BY <1>1, <1>2, <2>2, <2>3, <2>4 DEF TypeInv, Data
  <1>6. QED
    BY <1>3, <1>4, <1>5

LEMMA NextDayTyped ==
    ASSUME IInv, TypeInv, NextDay
    PROVE  TypeInv'
  <1>1. today' = today + 1 /\ today < LastDay /\ UNCHANGED <<ticker, bars, tech, chain, run>>
    BY DEF NextDay, db
  <1>2. today \in Nat \ {0} /\ LastDay \in Nat /\ FirstDay \in Nat
    BY Numbers DEF IInv, Stores
  <1>3. 1 .. today \subseteq 1 .. today + 1
    BY <1>2
  <1>4. today' \in Days /\ FirstDay <= today'
    BY <1>1, <1>2 DEF TypeInv, Data, Days
  <1>5. Data'
    BY <1>1, <1>3, <1>4 DEF TypeInv, Data, IsTech
  <1>6. Threads'
    BY <1>1, <1>3 DEF TypeInv, Threads, Fits
  <1>7. QED
    BY <1>5, <1>6 DEF TypeInv

LEMMA NextSymbolFits ==
    ASSUME IInv, TypeInv, NEW r \in Runs, NEW here, NEW next, here \notin {"write", "bars"},
           next \notin {"write", "bars"}
    PROVE  Fits(NextSymbol(r, here, next), today)
  <1>1. run[r] \in RunType /\ run[r].left \subseteq run[r].affected
    BY RunTyped DEF TypeInv, Threads, Fits
  <1>2. CASE run[r].left = {Here(r)}
    BY <1>1, <1>2 DEF NextSymbol, Fits, RunType
  <1>3. CASE run[r].left # {Here(r)}
    BY <1>1, <1>3 DEF NextSymbol, Fits, RunType
  <1>4. QED
    BY <1>2, <1>3

LEMMA FetchChunkTyped ==
    ASSUME IInv, TypeInv, NEW r \in Runs, FetchChunk(r)
    PROVE  TypeInv'
  <1> DEFINE start == run[r].start
             rest == [s \in DOMAIN start \ Chunk(r) |-> start[s]]
             q == [run[r] EXCEPT !.start = rest]
  <1>1. /\ run[r] \in RunType /\ run[r].pc = "bars" /\ run[r].end = today
        /\ \A s \in DOMAIN start : start[s] \in Int /\ start[s] >= 1
        /\ Fits(run[r], today)
    BY RunTyped DEF FetchChunk, Planned, TypeInv, Threads, Fits
  <1>2. PICK missing \in SUBSET Chunk(r) :
            bars' = [s \in Symbols |->
                        IF s \in Chunk(r) \ missing THEN bars[s] \cup start[s] .. run[r].end
                                                    ELSE bars[s]]
    BY DEF FetchChunk
  <1>3. run' = [run EXCEPT ![r] = q] /\ UNCHANGED <<today, ticker, tech, chain>>
    BY DEF FetchChunk, Goes
  <1>4. Chunk(r) \subseteq DOMAIN start
    BY DEF Chunk, Group
  <1>5. bars' \in [Symbols -> SUBSET (1 .. today)]
    <2>1. today \in Nat /\ \A s \in Symbols : bars[s] \in SUBSET (1 .. today)
      BY DEF TypeInv, Data, IInv, Stores
    <2>2. \A s \in Chunk(r) : start[s] .. today \in SUBSET (1 .. today)
      BY <1>1, <1>4, <2>1
    <2>3. QED
      BY <1>1, <1>2, <2>1, <2>2
  <1>6. Data'
    BY <1>3, <1>5 DEF TypeInv, Data
  <1>7. \A s \in DOMAIN rest : rest[s] >= 1
    BY <1>1
  <1> HIDE DEF rest
  <1>8. q.start = rest /\ q.left = run[r].left /\ q.affected = run[r].affected
        /\ q.only = run[r].only /\ q.loaded = run[r].loaded /\ q.pc = "bars"
    BY <1>1 DEF RunType
  <1> HIDE DEF q
  <1>9. Fits(q, today)
    BY <1>1, <1>7, <1>8 DEF Fits
  <1>10. Threads'
    BY <1>3, <1>9, OneThread
  <1>11. QED
    BY <1>6, <1>10 DEF TypeInv

LEMMA BarsDoneFits ==
    ASSUME IInv, TypeInv, NEW r \in Runs, BarsDone(r)
    PROVE  \E q : Fits(q, today) /\ run' = [run EXCEPT ![r] = q]
  <1> DEFINE all == IF run[r].affected # {} THEN run[r].affected ELSE Stored
  <1>1. run[r] \in RunType /\ Fits(run[r], today)
    BY RunTyped DEF TypeInv, Threads
  <1>2. CASE all = {}
    <2>1. run' = [run EXCEPT ![r] = [run[r] EXCEPT !.pc = "rest"]]
      BY <1>2 DEF BarsDone, Goes
    <2>2. Fits([run[r] EXCEPT !.pc = "rest"], today)
      BY <1>1 DEF Fits, RunType
    <2>3. QED
      BY <2>1, <2>2
  <1>3. CASE all # {}
    <2> DEFINE q == [run[r] EXCEPT !.pc = "load", !.affected = all, !.left = all]
    <2>1. run' = [run EXCEPT ![r] = q]
      BY <1>3 DEF BarsDone, Goes
    <2> HIDE DEF all
    <2>2. Fits(q, today)
      BY <1>1 DEF Fits, RunType
    <2>3. QED
      BY <2>1, <2>2
  <1>4. QED
    BY <1>2, <1>3

LEMMA LoadBarsFits ==
    ASSUME IInv, TypeInv, NEW r \in Runs, LoadBars(r)
    PROVE  \E q : Fits(q, today) /\ run' = [run EXCEPT ![r] = q]
  <1> DEFINE s == Here(r)
  <1>1. run[r] \in RunType /\ Fits(run[r], today) /\ run[r].pc = "load"
    BY RunTyped DEF TypeInv, Threads, LoadBars
  <1>2. s \in Symbols
    BY <1>1, HereIsSymbol
  <1>3. CASE bars[s] = {}
    <2>1. run' = [run EXCEPT ![r] = NextSymbol(r, "load", "chains")]
      BY <1>3 DEF LoadBars, Goes
    <2>2. QED
      BY <2>1, NextSymbolFits
  <1>4. CASE bars[s] # {}
    <2> DEFINE loaded == bars[s]
               only == DatesToWrite(r, s)
               q == [run[r] EXCEPT !.pc = "write", !.loaded = loaded, !.only = only]
    <2>1. run' = [run EXCEPT ![r] = q]
      BY <1>4 DEF LoadBars, Goes
    <2>2. only \subseteq loaded /\ loaded \subseteq 1 .. today /\ loaded # {}
      BY <1>2, <1>4 DEF DatesToWrite, TypeInv, Data
    <2> HIDE DEF loaded, only
    <2>3. Fits(q, today)
      BY <1>1, <2>2 DEF Fits, RunType
    <2>4. QED
      BY <2>1, <2>3
  <1>5. QED
    BY <1>3, <1>4

\* What a run has loaded begins with its least day.
LEMMA SeenFirst ==
    ASSUME IInv, TypeInv, NEW r \in Runs, run[r].pc = "write"
    PROVE  Seen(r) \in Nat /\ \A d \in run[r].loaded : d \in Nat /\ Seen(r) <= d
  <1>1. run[r].loaded \subseteq 1 .. today /\ run[r].loaded # {}
    BY DEF TypeInv, Threads, Fits
  <1>2. today \in Nat
    BY DEF IInv, Stores
  <1>3. IsFiniteSet(1 .. today)
    BY <1>2, FS_Interval
  <1>4. IsFiniteSet(run[r].loaded)
    BY <1>1, <1>3, FS_Subset
  <1>5. run[r].loaded \in SUBSET Int
    BY <1>1, <1>2
  <1>6. Seen(r) \in run[r].loaded /\ \A d \in run[r].loaded : Seen(r) <= d
    BY <1>1, <1>4, <1>5, Least DEF Seen
  <1>7. QED
    BY <1>1, <1>2, <1>6

LEMMA WriteIndicatorsTyped ==
    ASSUME IInv, TypeInv, NEW r \in Runs, WriteIndicators(r)
    PROVE  TypeInv'
  <1> DEFINE s == Here(r)
             g == [d \in run[r].only |-> Seen(r)]
             t == Upsert(tech[s], g)
  <1>1. run[r].pc = "write" /\ UNCHANGED <<today, ticker, bars, chain>> /\ tech' = [tech EXCEPT ![s] = t]
        /\ run' = [run EXCEPT ![r] = NextSymbol(r, "load", "chains")]
    BY DEF WriteIndicators, Goes, TypeInv, Data
  <1>2. s \in Symbols
    BY <1>1, HereIsSymbol
  <1>3. run[r].only \subseteq run[r].loaded /\ run[r].loaded \subseteq 1 .. today
    BY DEF TypeInv, Threads, Fits
  <1>4. IsTech(g, today)
    BY <1>1, <1>3, SeenFirst DEF IsTech
  <1> HIDE DEF s, g
  <1>5. IsTech(t, today)
    BY <1>2, <1>4, UpsertTech DEF TypeInv, Data
  <1> HIDE DEF t
  <1>6. tech' = [x \in Symbols |-> tech'[x]] /\ \A x \in Symbols : IsTech(tech'[x], today)
    BY <1>1, <1>2, <1>5, TechWritten DEF TypeInv
  <1>7. Data'
    BY <1>1, <1>6 DEF TypeInv, Data
  <1>8. Threads'
    BY <1>1, NextSymbolFits, OneThread
  <1>9. QED
    BY <1>7, <1>8 DEF TypeInv

LEMMA FetchChainTyped ==
    ASSUME IInv, TypeInv, NEW r \in Runs, FetchChain(r)
    PROVE  TypeInv'
  <1>1. run[r].pc = "chains" /\ UNCHANGED <<today, ticker, bars, tech>>
        /\ run' = [run EXCEPT ![r] = NextSymbol(r, "chains", "iv")]
    BY DEF FetchChain, Goes
  <1>2. Here(r) \in Symbols
    BY <1>1, HereIsSymbol
  <1>3. chain' \subseteq Symbols
    BY <1>2 DEF FetchChain, TypeInv, Data
  <1>4. Data'
    BY <1>1, <1>3 DEF TypeInv, Data
  <1>5. Threads'
    BY <1>1, NextSymbolFits, OneThread
  <1>6. QED
    BY <1>4, <1>5 DEF TypeInv

LEMMA NewestBar ==
    ASSUME IInv, TypeInv, NEW s \in Symbols, bars[s] # {}
    PROVE  Max(bars[s]) \in bars[s]
  <1>1. bars[s] \in SUBSET (1 .. today) /\ today \in Nat
    BY DEF TypeInv, Data, IInv, Stores
  <1>2. IsFiniteSet(1 .. today)
    BY <1>1, FS_Interval
  <1>3. IsFiniteSet(bars[s])
    BY <1>1, <1>2, FS_Subset
  <1>4. bars[s] \in SUBSET Int
    BY <1>1
  <1>5. QED
    BY <1>3, <1>4, Greatest

\* The IV pass writes nothing, or a row for the newest bar.
LEMMA RefreshIvWrites ==
    ASSUME IInv, TypeInv, NEW r \in Runs, RefreshIv(r)
    PROVE  Here(r) \in Symbols /\ (tech' = tech \/ \E dates \in SUBSET bars[Here(r)] : dates # {} /\ WriteIv(Here(r), dates))
  <1>1. Here(r) \in Symbols
    BY HereIsSymbol DEF RefreshIv
  <1>2. CASE Here(r) \in chain /\ bars[Here(r)] # {}
    <2>1. WriteIv(Here(r), {Max(bars[Here(r)])})
      BY <1>2 DEF RefreshIv
    <2>2. {Max(bars[Here(r)])} \in SUBSET bars[Here(r)]
      BY <1>1, <1>2, NewestBar
    <2>3. QED
      BY <1>1, <2>1, <2>2
  <1>3. CASE ~(Here(r) \in chain /\ bars[Here(r)] # {})
    BY <1>1, <1>3 DEF RefreshIv
  <1>4. QED
    BY <1>2, <1>3

LEMMA RefreshIvTyped ==
    ASSUME IInv, TypeInv, NEW r \in Runs, RefreshIv(r)
    PROVE  TypeInv'
  <1>1. run[r].pc = "iv" /\ UNCHANGED <<today, ticker, bars, chain>>
        /\ run' = [run EXCEPT ![r] = NextSymbol(r, "iv", "rest")]
    BY DEF RefreshIv, Goes
  <1>2. tech' = [x \in Symbols |-> tech'[x]] /\ \A x \in Symbols : IsTech(tech'[x], today)
    <2>1. CASE tech' = tech
      BY <2>1 DEF TypeInv, Data
    <2>2. ASSUME NEW dates \in SUBSET bars[Here(r)], WriteIv(Here(r), dates)
          PROVE  tech' = [x \in Symbols |-> tech'[x]] /\ \A x \in Symbols : IsTech(tech'[x], today)
      <3>1. Here(r) \in Symbols /\ Data
        BY RefreshIvWrites DEF TypeInv
      <3>2. dates \in SUBSET (1 .. today)
        BY <3>1 DEF Data
      <3>3. QED
        BY <2>2, <3>1, <3>2, WriteIvTyped
    <2>3. QED
      BY <2>1, <2>2, RefreshIvWrites
  <1>3. Data'
    BY <1>1, <1>2 DEF TypeInv, Data
  <1>4. Threads'
    BY <1>1, NextSymbolFits, OneThread
  <1>5. QED
    BY <1>3, <1>4 DEF TypeInv

\* The steps of a run that touch no table.
LEMMA QuietTyped ==
    ASSUME IInv, TypeInv, NEW r \in Runs, BarsDone(r) \/ LoadBars(r) \/ Finish(r) \/ Fail(r)
    PROVE  TypeInv'
  <1>1. UNCHANGED <<today, ticker, bars, tech, chain>>
    BY DEF BarsDone, LoadBars, Finish, Fail, db
  <1>2. PICK q : Fits(q, today) /\ run' = [run EXCEPT ![r] = q]
    BY BarsDoneFits, LoadBarsFits, NoRunFits DEF Finish, Fail, Goes
  <1>3. Data'
    BY <1>1 DEF TypeInv, Data
  <1>4. Threads'
    BY <1>1, <1>2, OneThread
  <1>5. QED
    BY <1>3, <1>4 DEF TypeInv

LEMMA CrashTyped ==
    ASSUME IInv, TypeInv, Crash
    PROVE  TypeInv'
  <1>1. run' = [r \in Runs |-> NoRun] /\ UNCHANGED <<today, ticker, bars, tech, chain>>
    BY DEF Crash, db
  <1>2. QED
    BY <1>1, NoRunFits DEF TypeInv, Data, Threads

LEMMA TypeNext == IInv /\ TypeInv /\ [Next]_vars => TypeInv'
  <1> SUFFICES ASSUME IInv, TypeInv, [Next]_vars PROVE TypeInv'
    OBVIOUS
  <1>1. ASSUME NEW r \in Runs, StartEvening(r) \/ StartFull(r) \/ \E s \in Symbols : CreateTicker(s, r)
        PROVE  TypeInv'
    BY <1>1, StartTyped
  <1>2. ASSUME NEW r \in Runs, Step(r) \/ Fail(r) PROVE TypeInv'
    BY <1>2, FetchChunkTyped, QuietTyped, WriteIndicatorsTyped, FetchChainTyped, RefreshIvTyped DEF Step
  <1>3. CASE SyncUniverse \/ \E s \in Symbols : PromoteTicker(s) \/ DeleteTicker(s) \/ BackfillIv(s)
    BY <1>3, AsideTyped
  <1>4. CASE NextDay \/ Crash
    BY <1>4, NextDayTyped, CrashTyped
  <1>5. CASE UNCHANGED vars
    BY <1>5 DEF vars, db, TypeInv, Data, Threads
  <1>6. QED
    BY <1>1, <1>2, <1>3, <1>4, <1>5 DEF Next

LEMMA TypeInvAlways == Spec => []TypeInv
  BY IInvAlways, TypeInit, TypeNext, PTL DEF Spec

\* Type correctness: bars and technicals lie between the first session and today, and
\* technicals never come from a bar later than their own row.
THEOREM TypeCorrect == Spec => []TypeOK
  <1>1. TypeInv => TypeOK
    <2>1. SUFFICES ASSUME TypeInv PROVE TypeOK
      OBVIOUS
    <2>2. today \in Days /\ today \in Int /\ 1 .. today \subseteq Days
      BY <2>1, Numbers DEF TypeInv, Data, Days
    <2>3. \A s \in Symbols : Rows(s) \subseteq Days /\ \A d \in Rows(s) : tech[s][d] \in 0 .. d
      BY <2>1, <2>2 DEF TypeInv, Data, IsTech, Rows
    <2>4. \A r \in Runs : run[r].left \subseteq run[r].affected /\ run[r].only \subseteq run[r].loaded
      BY <2>1 DEF TypeInv, Threads, Fits
    <2>5. QED
      BY <2>1, <2>2, <2>3, <2>4 DEF TypeInv, Data, TypeOK
  <1>2. QED
    BY <1>1, TypeInvAlways, PTL

-----------------------------------------------------------------------------
(* Depth *)

\* Redoing, of a run's record.
Redone(q) ==
    CASE q.full /\ q.pc = "bars" -> IF q.affected # {} THEN q.affected ELSE Symbols
      [] q.full /\ q.pc \in {"load", "write"} -> q.left
      [] OTHER -> {}
Redo == UNION {Redoing(r) : r \in Runs}

\* Of a symbol s with technicals t and bars B, where X are the broken symbols and Y
\* the ones under way: without bars it has no technicals, none are later than its
\* bars, and none come from a later bar than the first.
HasDepth(s, t, B, X, Y) ==
    /\ B = {} /\ s \notin X => DOMAIN t = {}
    /\ B # {} => \A d \in DOMAIN t : \E b \in B : d <= b
    /\ s \notin X \cup Y => \A d \in DOMAIN t, b \in B : t[d] <= b

\* A run that is by itself fetches what is later than the bars, or redoes what it
\* fetches; what it has loaded is what is stored, unless it was deleted since.
Ready(q, B, X) ==
    /\ q.pc = "bars" /\ ~q.full => \A s \in DOMAIN q.start : \A b \in B[s] : b < q.start[s]
    /\ q.pc = "bars" /\ q.full /\ q.affected # {} => DOMAIN q.start \subseteq q.affected
    /\ q.pc = "write" => \/ B[Min(q.left)] = q.loaded
                         \/ B[Min(q.left)] = {} /\ Min(q.left) \in X
    /\ q.pc = "write" /\ q.full => q.only = q.loaded

Alone(r) == \A p \in Runs \ {r} : run[p].pc = "idle"

DeepInv ==
    ~overlapped =>
        /\ \A r \in Runs : Active(r) => Alone(r)
        /\ \A s \in Symbols : HasDepth(s, tech[s], bars[s], broken, Redo)
        /\ \A r \in Runs : Ready(run[r], bars, broken)

LEMMA RedoingIs == ASSUME NEW r PROVE Redoing(r) = Redone(run[r])
  BY DEF Redoing, Redone

LEMMA RestRedoesNothing ==
    ASSUME NEW q, q.pc \in {"idle", "chains", "iv", "rest"}
    PROVE  Redone(q) = {} /\ \A B, X : Ready(q, B, X)
  BY DEF Redone, Ready

LEMMA AloneRedo ==
    ASSUME NEW r \in Runs, Alone(r)
    PROVE  Redo = Redone(run[r])
  <1>1. \A p \in Runs \ {r} : Redoing(p) = {}
    BY RedoingIs, RestRedoesNothing DEF Alone
  <1>2. Redo = Redoing(r)
    BY <1>1 DEF Redo
  <1>3. QED
    BY <1>2, RedoingIs

LEMMA DepthGrows ==
    ASSUME NEW s, NEW t, NEW B, NEW X, NEW Y, NEW X2, NEW Y2, HasDepth(s, t, B, X, Y),
           X \subseteq X2, s \in X \cup Y => s \in X2 \cup Y2 \/ B = {}
    PROVE  HasDepth(s, t, B, X2, Y2)
  BY DEF HasDepth

\* A run that is by itself makes a step.
LEMMA AloneMoves ==
    ASSUME IInv, NEW r \in Runs, Alone(r), NEW q, run' = [run EXCEPT ![r] = q],
           Ready(q, bars', broken'),
           \A s \in Symbols : HasDepth(s, tech'[s], bars'[s], broken', Redone(q))
    PROVE  DeepInv'
  <1>1. run'[r] = q /\ \A p \in Runs \ {r} : run'[p] = run[p] /\ run'[p].pc = "idle"
    BY DEF IInv, Pipelines, Alone
  <1>2. Alone(r)'
    BY <1>1 DEF Alone
  <1>3. Redo' = Redone(run'[r])
    <2>1. \A p \in Runs \ {r} : Redoing(p)' = {}
      <3>1. ASSUME NEW p \in Runs \ {r} PROVE Redone(run'[p]) = {}
        BY <1>1, RestRedoesNothing
      <3>2. \A p \in Runs : Redoing(p)' = Redone(run'[p])
        BY DEF Redoing, Redone
      <3>3. QED
        BY <3>1, <3>2
    <2>2. Redo' = Redoing(r)'
      BY <2>1 DEF Redo
    <2>3. QED
      BY <2>2 DEF Redoing, Redone
  <1>4. \A p \in Runs : Active(p)' => Alone(p)'
    BY <1>1, <1>2 DEF Active, Alone
  <1>5. ASSUME NEW p \in Runs PROVE Ready(run'[p], bars', broken')
    BY <1>1, RestRedoesNothing
  <1>6. QED
    BY <1>1, <1>3, <1>4, <1>5 DEF DeepInv

LEMMA Lonely ==
    ASSUME DeepInv, ~overlapped, NEW r \in Runs
    PROVE  /\ Active(r) => Alone(r)
           /\ Ready(run[r], bars, broken)
           /\ Alone(r) => \A s \in Symbols : HasDepth(s, tech[s], bars[s], broken, Redone(run[r]))
  BY AloneRedo DEF DeepInv

\* A step that leaves the tables alone.
LEMMA QuietDeep ==
    ASSUME IInv, DeepInv, ~overlapped, NEW r \in Runs, Alone(r),
           NEW q, run' = [run EXCEPT ![r] = q], UNCHANGED <<bars, tech, broken>>,
           Ready(q, bars, broken),
           \A s \in Symbols : s \in Redone(run[r]) => s \in Redone(q) \/ bars[s] = {}
    PROVE  DeepInv'
  <1>1. ASSUME NEW s \in Symbols PROVE HasDepth(s, tech[s], bars[s], broken, Redone(q))
    <2>1. HasDepth(s, tech[s], bars[s], broken, Redone(run[r]))
      BY Lonely
    <2>2. QED
      BY <2>1, DepthGrows
  <1>2. Ready(q, bars', broken') /\ \A s \in Symbols : HasDepth(s, tech'[s], bars'[s], broken', Redone(q))
    BY <1>1
  <1>3. QED
    BY <1>2, AloneMoves

\* A step that no run makes.
LEMMA AsideDeep ==
    ASSUME UNCHANGED <<run, overlapped>>,
           DeepInv,
           ~overlapped =>
              /\ \A r \in Runs : Ready(run[r], bars', broken')
              /\ \A s \in Symbols : HasDepth(s, tech'[s], bars'[s], broken', Redo)
    PROVE  DeepInv'
  BY DEF DeepInv, Active, Alone, Redo, Redoing

LEMMA DeepInit == Init => DeepInv
  <1> SUFFICES ASSUME Init PROVE DeepInv
    OBVIOUS
  <1>1. \A r \in Runs : run[r].pc = "idle"
    BY NoRunRests DEF Init
  <1>2. \A s \in Symbols : DOMAIN tech[s] = {} /\ bars[s] = {}
    BY DEF Init, NoRow
  <1>3. QED
    BY <1>1, <1>2, RestRedoesNothing DEF DeepInv, Active, HasDepth

LEMMA StartReady ==
    ASSUME IInv, TypeInv, NEW r \in Runs, NEW X,
           \/ StartEvening(r) \/ StartFull(r) \/ \E s \in Symbols : CreateTicker(s, r)
    PROVE  \E q : Ready(q, bars, X) /\ run' = [run EXCEPT ![r] = q]
  <1>1. Listed \in SUBSET Symbols
    BY DEF Listed
  <1>2. Ready(Incremental(Listed), bars, X)
    BY <1>1, StartOfPositive DEF Incremental, Ready, NoRun
  <1>3. Ready(Full(Listed, {}), bars, X) /\ \A s \in Symbols : Ready(Full({s}, {s}), bars, X)
    BY DEF Full, Ready, NoRun
  <1>4. QED
    BY <1>2, <1>3 DEF StartEvening, StartFull, CreateTicker, Begin

LEMMA StartDeep ==
    ASSUME IInv, TypeInv, DeepInv, NEW r \in Runs,
           \/ StartEvening(r) \/ StartFull(r) \/ \E s \in Symbols : CreateTicker(s, r)
    PROVE  DeepInv'
  <1>1. /\ UNCHANGED <<bars, tech, broken>> /\ run[r].pc = "idle"
        /\ overlapped' = (overlapped \/ \E p \in Runs : Active(p))
    BY DEF StartEvening, StartFull, CreateTicker, Begin, db, Active
  <1>2. CASE overlapped'
    BY <1>2 DEF DeepInv
  <1>3. CASE ~overlapped'
    <2>1. ~overlapped /\ Alone(r)
      BY <1>1, <1>3 DEF Active, Alone
    <2>2. PICK q : Ready(q, bars, broken) /\ run' = [run EXCEPT ![r] = q]
      BY StartReady
    <2>3. Redone(run[r]) = {}
      BY <1>1, RestRedoesNothing
    <2>4. QED
      BY <1>1, <2>1, <2>2, <2>3, QuietDeep
  <1>4. QED
    BY <1>2, <1>3

LEMMA NextSymbolDeep ==
    ASSUME IInv, NEW r \in Runs, run[r].pc \in {"load", "write", "chains", "iv"},
           NEW here \in {"load", "chains", "iv"}, NEW next \in {"chains", "iv", "rest"},
           run[r].pc \in {"load", "write"} => here = "load"
    PROVE  /\ \A B, X : Ready(NextSymbol(r, here, next), B, X)
           /\ \A s \in Redone(run[r]) : s = Here(r) \/ s \in Redone(NextSymbol(r, here, next))
  <1> DEFINE q == NextSymbol(r, here, next)
  <1>1. run[r] \in RunType
    BY RunTyped
  <1>2. CASE run[r].left = {Here(r)}
    <2>1. q = [run[r] EXCEPT !.pc = next, !.left = run[r].affected, !.loaded = {}, !.only = {}]
      BY <1>2 DEF NextSymbol
    <2>2. q.pc = next
      BY <1>1, <2>1 DEF RunType
    <2> HIDE DEF q
    <2>3. Redone(run[r]) \subseteq {Here(r)}
      BY <1>2 DEF Redone
    <2>4. QED
      BY <2>2, <2>3, RestRedoesNothing DEF q
  <1>3. CASE run[r].left # {Here(r)}
    <2>1. q = [run[r] EXCEPT !.pc = here, !.left = run[r].left \ {Here(r)}, !.loaded = {}, !.only = {}]
      BY <1>3 DEF NextSymbol
    <2>2. q.pc = here /\ q.left = run[r].left \ {Here(r)} /\ q.full = run[r].full
      BY <1>1, <2>1 DEF RunType
    <2> HIDE DEF q
    <2>3. \A B, X : Ready(q, B, X)
      BY <2>2 DEF Ready
    <2>4. \A s \in Redone(run[r]) : s = Here(r) \/ s \in Redone(q)
      BY <2>2 DEF Redone
    <2>5. QED
      BY <2>3, <2>4 DEF q
  <1>4. QED
    BY <1>2, <1>3

LEMMA Overlapping ==
    ASSUME overlapped, overlapped' = overlapped
    PROVE  DeepInv'
  BY DEF DeepInv

LEMMA BarsDoneDeep ==
    ASSUME IInv, TypeInv, DeepInv, ~overlapped, NEW r \in Runs, BarsDone(r)
    PROVE  DeepInv'
  <1> DEFINE all == IF run[r].affected # {} THEN run[r].affected ELSE Stored
  <1>1. /\ UNCHANGED <<bars, tech, broken>> /\ run[r].pc = "bars" /\ run[r] \in RunType
        /\ Alone(r)
    BY RunTyped, Lonely DEF BarsDone, db, history, Active
  <1>2. \A s \in Symbols : s \in Redone(run[r]) => s \in all \/ bars[s] = {}
    BY <1>1 DEF Redone, Stored
  <1>3. ~run[r].full => Redone(run[r]) = {}
    BY DEF Redone
  <1>4. CASE all = {}
    <2> DEFINE q == [run[r] EXCEPT !.pc = "rest"]
    <2>1. run' = [run EXCEPT ![r] = q] /\ q.pc = "rest"
      BY <1>1, <1>4 DEF BarsDone, Goes, RunType
    <2> HIDE DEF q, all
    <2>2. Ready(q, bars, broken)
      BY <2>1, RestRedoesNothing
    <2>3. \A s \in Symbols : s \in Redone(run[r]) => bars[s] = {}
      BY <1>2, <1>4
    <2>4. QED
      BY <1>1, <2>1, <2>2, <2>3, QuietDeep
  <1>5. CASE all # {}
    <2> DEFINE q == [run[r] EXCEPT !.pc = "load", !.affected = all, !.left = all]
    <2>1. run' = [run EXCEPT ![r] = q]
      BY <1>5 DEF BarsDone, Goes
    <2> HIDE DEF all
    <2>2. q.pc = "load" /\ q.left = all /\ q.full = run[r].full
      BY <1>1 DEF RunType
    <2> HIDE DEF q
    <2>3. Ready(q, bars, broken)
      BY <2>2 DEF Ready
    <2>4. \A s \in Symbols : s \in Redone(run[r]) => s \in Redone(q) \/ bars[s] = {}
      BY <1>2, <1>3, <2>2 DEF Redone
    <2>5. QED
      BY <1>1, <2>1, <2>3, <2>4, QuietDeep
  <1>6. QED
    BY <1>4, <1>5

LEMMA LoadBarsDeep ==
    ASSUME IInv, TypeInv, DeepInv, ~overlapped, NEW r \in Runs, LoadBars(r)
    PROVE  DeepInv'
  <1> DEFINE s == Here(r)
  <1>1. /\ UNCHANGED <<bars, tech, broken>> /\ run[r].pc = "load" /\ run[r] \in RunType
        /\ Alone(r)
    BY RunTyped, Lonely DEF LoadBars, db, history, Active
  <1>2. CASE bars[s] = {}
    <2>1. run' = [run EXCEPT ![r] = NextSymbol(r, "load", "chains")]
      BY <1>2 DEF LoadBars, Goes
    <2>2. PICK q : q = NextSymbol(r, "load", "chains")
      OBVIOUS
    <2>3. Ready(q, bars, broken) /\ \A x \in Redone(run[r]) : x = s \/ x \in Redone(q)
      BY <1>1, <2>2, NextSymbolDeep
    <2>4. \A x \in Symbols : x \in Redone(run[r]) => x \in Redone(q) \/ bars[x] = {}
      BY <1>2, <2>3
    <2>5. run' = [run EXCEPT ![r] = q]
      BY <2>1, <2>2
    <2>6. QED
      BY <1>1, <2>3, <2>4, <2>5, QuietDeep
  <1>3. CASE bars[s] # {}
    <2> DEFINE loaded == bars[s]
               only == DatesToWrite(r, s)
               q == [run[r] EXCEPT !.pc = "write", !.loaded = loaded, !.only = only]
    <2>1. run' = [run EXCEPT ![r] = q]
      BY <1>3 DEF LoadBars, Goes
    <2>2. run[r].full => only = loaded
      BY DEF DatesToWrite
    <2> HIDE DEF loaded, only
    <2>3. /\ q.pc = "write" /\ q.loaded = loaded /\ q.only = only
          /\ q.full = run[r].full /\ q.left = run[r].left
      BY <1>1 DEF RunType
    <2> HIDE DEF q
    <2>4. Ready(q, bars, broken)
      BY <2>2, <2>3 DEF Ready, loaded, Here
    <2>5. \A x \in Symbols : x \in Redone(run[r]) => x \in Redone(q)
      BY <1>1, <2>3 DEF Redone
    <2>6. QED
      BY <1>1, <2>1, <2>4, <2>5, QuietDeep
  <1>4. QED
    BY <1>2, <1>3

LEMMA FetchChainDeep ==
    ASSUME IInv, TypeInv, DeepInv, ~overlapped, NEW r \in Runs, FetchChain(r) \/ Finish(r)
    PROVE  DeepInv'
  <1>1. /\ UNCHANGED <<bars, tech, broken>> /\ run[r].pc \in {"chains", "rest"} /\ Alone(r)
    BY Lonely DEF FetchChain, Finish, db, history, Active
  <1>2. Redone(run[r]) = {}
    BY <1>1, RestRedoesNothing
  <1>3. PICK q : Ready(q, bars, broken) /\ run' = [run EXCEPT ![r] = q]
    <2>1. CASE FetchChain(r)
      <3>1. Ready(NextSymbol(r, "chains", "iv"), bars, broken)
        BY <2>1, NextSymbolDeep DEF FetchChain
      <3>2. QED
        BY <2>1, <3>1 DEF FetchChain, Goes
    <2>2. CASE Finish(r)
      <3>1. Ready(NoRun, bars, broken)
        BY NoRunRests, RestRedoesNothing
      <3>2. QED
        BY <2>2, <3>1 DEF Finish, Goes
    <2>3. QED
      BY <2>1, <2>2
  <1>4. QED
    BY <1>1, <1>2, <1>3, QuietDeep

\* A row without technicals, at a bar.
LEMMA WriteIvDepth ==
    ASSUME NEW s, NEW t, NEW B \in SUBSET Nat, NEW X, NEW Y, HasDepth(s, t, B, X, Y),
           NEW dates \in SUBSET B, dates # {}
    PROVE  HasDepth(s, Upsert([d \in dates |-> 0], t), B, X, Y)
  <1> DEFINE u == Upsert([d \in dates |-> 0], t)
  <1>1. DOMAIN u = DOMAIN t \cup dates
    BY DEF Upsert
  <1>2. \A d \in DOMAIN t : u[d] = t[d]
    BY DEF Upsert
  <1>3. \A d \in dates \ DOMAIN t : u[d] = 0
    BY DEF Upsert
  <1>4. \A d \in dates : d <= d /\ d \in B
    OBVIOUS
  <1> HIDE DEF u
  <1>5. B # {}
    OBVIOUS
  <1>6. \A d \in DOMAIN u : \E b \in B : d <= b
    BY <1>1, <1>4, <1>5 DEF HasDepth
  <1>7. s \notin X \cup Y => \A d \in DOMAIN u, b \in B : u[d] <= b
    BY <1>1, <1>2, <1>3 DEF HasDepth
  <1>8. HasDepth(s, u, B, X, Y)
    BY <1>5, <1>6, <1>7 DEF HasDepth
  <1>9. QED
    BY <1>8 DEF u

LEMMA WriteIvDeep ==
    ASSUME TypeInv, IInv, NEW s \in Symbols, NEW dates \in SUBSET bars[s], dates # {}, WriteIv(s, dates),
           NEW Y, \A x \in Symbols : HasDepth(x, tech[x], bars[x], broken, Y)
    PROVE  \A x \in Symbols : HasDepth(x, tech'[x], bars[x], broken, Y)
  <1>1. bars[s] \in SUBSET Nat
    <2>1. bars[s] \in SUBSET (1 .. today) /\ today \in Nat
      BY DEF TypeInv, Data, IInv, Stores
    <2>2. QED
      BY <2>1
  <1>2. HasDepth(s, Upsert([d \in dates |-> 0], tech[s]), bars[s], broken, Y)
    BY <1>1, WriteIvDepth
  <1>3. DOMAIN tech = Symbols
    BY DEF TypeInv, Data
  <1>4. tech'[s] = Upsert([d \in dates |-> 0], tech[s]) /\ \A x \in Symbols \ {s} : tech'[x] = tech[x]
    BY <1>3 DEF WriteIv
  <1>5. QED
    BY <1>2, <1>4

LEMMA RefreshIvDeep ==
    ASSUME IInv, TypeInv, DeepInv, ~overlapped, NEW r \in Runs, RefreshIv(r)
    PROVE  DeepInv'
  <1>1. /\ UNCHANGED <<bars, broken>> /\ run[r].pc = "iv" /\ Alone(r)
        /\ run' = [run EXCEPT ![r] = NextSymbol(r, "iv", "rest")]
    BY Lonely DEF RefreshIv, Active, Goes
  <1>2. Redone(run[r]) = {}
    BY <1>1, RestRedoesNothing
  <1>3. \A s \in Symbols : HasDepth(s, tech[s], bars[s], broken, {})
    BY <1>1, <1>2, Lonely
  <1>4. \A s \in Symbols : HasDepth(s, tech'[s], bars[s], broken, {})
    <2>1. CASE tech' = tech
      BY <1>3, <2>1
    <2>2. ASSUME NEW dates \in SUBSET bars[Here(r)], dates # {}, WriteIv(Here(r), dates)
          PROVE  \A s \in Symbols : HasDepth(s, tech'[s], bars[s], broken, {})
      BY <1>3, <2>2, RefreshIvWrites, WriteIvDeep
    <2>3. QED
      BY <2>1, <2>2, RefreshIvWrites
  <1>5. PICK q : q = NextSymbol(r, "iv", "rest")
    OBVIOUS
  <1>6. Ready(q, bars', broken')
    BY <1>1, <1>5, NextSymbolDeep
  <1>7. \A s \in Symbols : HasDepth(s, tech'[s], bars'[s], broken', Redone(q))
    BY <1>1, <1>4, DepthGrows
  <1>8. run' = [run EXCEPT ![r] = q]
    BY <1>1, <1>5
  <1>9. QED
    BY <1>1, <1>6, <1>7, <1>8, AloneMoves

\* A bar that is fetched is later than the others, or the symbol is being redone.
LEMMA FetchedDepth ==
    ASSUME NEW s, NEW t, NEW n \in Nat, NEW B \in SUBSET (1 .. n), NEW X, NEW Y, HasDepth(s, t, B, X, Y),
           IsTech(t, n), NEW a \in Int, a <= n, s \in Y \/ \A b \in B : b < a
    PROVE  HasDepth(s, t, B \cup a .. n, X, Y)
  <1> DEFINE C == B \cup a .. n
  <1>1. n \in C /\ C # {}
    OBVIOUS
  <1>2. \A d \in DOMAIN t : d \in 1 .. n /\ d <= n /\ t[d] \in 0 .. d
    BY DEF IsTech
  <1>3. ASSUME s \notin X \cup Y, NEW d \in DOMAIN t, NEW b \in C PROVE t[d] <= b
    <2>1. B # {} /\ \A c \in B : c < a /\ c \in Int /\ t[d] <= c
      BY <1>2, <1>3 DEF HasDepth
    <2>2. t[d] \in Int /\ b \in Int
      BY <1>2
    <2>3. CASE b \in B
      BY <2>1, <2>3
    <2>4. CASE b \in a .. n
      <3>1. PICK c \in B : TRUE
        BY <2>1
      <3>2. t[d] <= c /\ c < a /\ a <= b /\ c \in Int
        BY <2>1, <2>4
      <3>3. QED
        BY <2>2, <3>2
    <2>5. QED
      BY <2>3, <2>4
  <1>4. HasDepth(s, t, C, X, Y)
    BY <1>1, <1>2, <1>3 DEF HasDepth
  <1>5. QED
    BY <1>4

LEMMA FetchChunkDeep ==
    ASSUME IInv, TypeInv, DeepInv, ~overlapped, NEW r \in Runs, FetchChunk(r)
    PROVE  DeepInv'
  <1> DEFINE start == run[r].start
             rest == [s \in DOMAIN start \ Chunk(r) |-> start[s]]
             q == [run[r] EXCEPT !.start = rest]
             Y == Redone(run[r])
  <1>1. /\ run[r] \in RunType /\ run[r].pc = "bars" /\ run[r].end = today
        /\ DOMAIN start \subseteq Symbols
        /\ \A s \in DOMAIN start : start[s] \in Int /\ start[s] <= today
    BY RunTyped DEF FetchChunk, Planned
  <1>2. PICK missing \in SUBSET Chunk(r) :
            bars' = [s \in Symbols |->
                        IF s \in Chunk(r) \ missing THEN bars[s] \cup start[s] .. run[r].end
                                                    ELSE bars[s]]
    BY DEF FetchChunk
  <1>3. run' = [run EXCEPT ![r] = q] /\ UNCHANGED <<tech, broken>>
    BY DEF FetchChunk, Goes
  <1>4. Chunk(r) \subseteq DOMAIN start
    BY DEF Chunk, Group
  <1>5. Alone(r) /\ Ready(run[r], bars, broken)
    BY <1>1, Lonely DEF Active
  <1>6. \A s \in Symbols : HasDepth(s, tech[s], bars[s], broken, Y)
    BY <1>5, Lonely
  <1>7. \A s \in DOMAIN start : s \in Y \/ \A b \in bars[s] : b < start[s]
    BY <1>1, <1>5 DEF Ready, Redone
  <1> HIDE DEF Y
  <1>8. ASSUME NEW s \in Symbols PROVE HasDepth(s, tech'[s], bars'[s], broken', Y)
    <2>1. CASE s \in Chunk(r) \ missing
      <3>1. bars'[s] = bars[s] \cup start[s] .. today
        BY <1>1, <1>2, <2>1
      <3>2. s \in DOMAIN start
        BY <1>4, <2>1
      <3>3. start[s] \in Int /\ start[s] <= today /\ (s \in Y \/ \A b \in bars[s] : b < start[s])
        BY <1>1, <1>7, <3>2
      <3>4. today \in Nat /\ bars[s] \in SUBSET (1 .. today) /\ IsTech(tech[s], today)
        BY DEF IInv, Stores, TypeInv, Data
      <3> HIDE DEF start
      <3>5. HasDepth(s, tech[s], bars[s] \cup start[s] .. today, broken, Y)
        BY <1>6, <3>3, <3>4, FetchedDepth
      <3>6. QED
        BY <1>3, <3>1, <3>5
    <2>2. CASE s \notin Chunk(r) \ missing
      BY <1>2, <1>3, <1>6, <2>2
    <2>3. QED
      BY <2>1, <2>2
  <1>9. DOMAIN rest = DOMAIN start \ Chunk(r) /\ \A s \in DOMAIN rest : rest[s] = start[s]
    OBVIOUS
  <1>10. \A s \in DOMAIN rest : bars'[s] = bars[s]
    BY <1>1, <1>2, <1>9
  <1> HIDE DEF rest
  <1>11. /\ q.pc = "bars" /\ q.full = run[r].full /\ q.start = rest /\ q.affected = run[r].affected
         /\ q.left = run[r].left
    BY <1>1 DEF RunType
  <1> HIDE DEF q
  <1>12. Ready(q, bars', broken')
    BY <1>1, <1>5, <1>9, <1>10, <1>11 DEF Ready
  <1>13. Redone(q) = Y
    BY <1>1, <1>11 DEF Redone, Y
  <1>14. \A s \in Symbols : HasDepth(s, tech'[s], bars'[s], broken', Redone(q))
    BY <1>8, <1>13
  <1>15. QED
    BY <1>3, <1>5, <1>12, <1>14, AloneMoves

\* What a run writes goes as deep as the bars, which it has loaded.
LEMMA WrittenDepth ==
    ASSUME NEW s, NEW t, NEW n \in Nat, NEW B \in SUBSET (1 .. n), B # {}, NEW X, NEW Y, NEW X2, NEW Y2,
           HasDepth(s, t, B, X, Y), IsTech(t, n), Spans(B, n),
           NEW g, DOMAIN g \subseteq B, \A d \in DOMAIN g, b \in B : g[d] <= b,
           s \notin X2 \cup Y2 => DOMAIN g = B \/ s \notin X \cup Y
    PROVE  HasDepth(s, Upsert(t, g), B, X2, Y2)
  <1> DEFINE u == Upsert(t, g)
             only == DOMAIN g
  <1>1. DOMAIN u = DOMAIN t \cup only
    BY DEF Upsert
  <1>2. \A d \in only : u[d] = g[d]
    BY DEF Upsert
  <1>3. \A d \in DOMAIN t \ only : u[d] = t[d]
    BY DEF Upsert
  <1> HIDE DEF u
  <1>4. \A d \in DOMAIN u : \E b \in B : d <= b
    BY <1>1 DEF HasDepth
  <1>5. ASSUME s \notin X2 \cup Y2, NEW d \in DOMAIN u, NEW b \in B PROVE u[d] <= b
    <2>1. CASE d \in only
      BY <1>2, <2>1
    <2>2. CASE d \notin only /\ s \notin X \cup Y
      BY <1>1, <1>3, <2>2 DEF HasDepth
    <2>3. CASE d \notin B
      <3>1. PICK a \in Int, z \in 1 .. n : a <= z /\ B = a .. z
        BY DEF Spans
      <3>2. d \in DOMAIN t /\ d \in 1 .. n /\ t[d] \in 0 .. d /\ u[d] = t[d]
        BY <1>1, <1>3, <2>3 DEF IsTech
      <3>3. PICK c \in B : d <= c
        BY <1>4
      <3>4. d \in Int /\ c \in Int /\ z \in Int /\ c <= z /\ b \in Int /\ a <= b
        BY <3>1, <3>2
      <3>5. d < a
        BY <2>3, <3>1, <3>3, <3>4
      <3>6. t[d] \in Int /\ t[d] <= d
        BY <3>2, <3>4
      <3>7. t[d] <= b
        BY <3>4, <3>5, <3>6
      <3>8. QED
        BY <3>2, <3>7
    <2>4. QED
      BY <1>5, <2>1, <2>2, <2>3
  <1>6. HasDepth(s, u, B, X2, Y2)
    BY <1>4, <1>5 DEF HasDepth
  <1>7. QED
    BY <1>6 DEF u

LEMMA WriteIndicatorsDeep ==
    ASSUME IInv, TypeInv, DeepInv, ~overlapped, NEW r \in Runs, WriteIndicators(r)
    PROVE  DeepInv'
  <1> DEFINE s == Here(r)
             only == run[r].only
             g == [d \in only |-> Seen(r)]
             u == Upsert(tech[s], g)
             Y == Redone(run[r])
  <1>1. /\ run[r].pc = "write" /\ UNCHANGED bars /\ tech' = [tech EXCEPT ![s] = u]
        /\ run' = [run EXCEPT ![r] = NextSymbol(r, "load", "chains")]
        /\ broken' = IF run[r].full /\ bars[s] # {} THEN broken \ {s} ELSE broken
    BY DEF WriteIndicators, Goes, TypeInv, Data
  <1>2. /\ s \in Symbols /\ run[r] \in RunType /\ DOMAIN tech = Symbols
        /\ today \in Nat /\ bars[s] \in SUBSET (1 .. today) /\ IsTech(tech[s], today)
        /\ bars[s] = {} \/ Spans(bars[s], today)
    <2>1. s \in Symbols
      BY <1>1, HereIsSymbol
    <2>2. run[r] \in RunType
      BY RunTyped
    <2>3. QED
      BY <2>1, <2>2 DEF IInv, Stores, TypeInv, Data
  <1>3. Alone(r) /\ Ready(run[r], bars, broken)
    BY <1>1, Lonely DEF Active
  <1>4. \A x \in Symbols : HasDepth(x, tech[x], bars[x], broken, Y)
    BY <1>3, Lonely
  <1>5. /\ bars[s] = run[r].loaded \/ (bars[s] = {} /\ s \in broken)
        /\ run[r].full => only = run[r].loaded
        /\ only \subseteq run[r].loaded /\ run[r].loaded # {}
    BY <1>1, <1>3 DEF Ready, Here, TypeInv, Threads, Fits
  <1>6. PICK q : q = NextSymbol(r, "load", "chains")
    OBVIOUS
  <1>7. (\A B, X : Ready(q, B, X)) /\ \A x \in Y : x = s \/ x \in Redone(q)
    BY <1>1, <1>6, NextSymbolDeep
  <1>8. tech'[s] = u /\ \A x \in Symbols \ {s} : tech'[x] = tech[x]
    BY <1>1, <1>2
  <1>9. ASSUME NEW x \in Symbols, x # s PROVE HasDepth(x, tech'[x], bars'[x], broken', Redone(q))
    <2>1. (x \in broken \cup Y => x \in broken' \cup Redone(q)) /\ (x \in broken => x \in broken')
      BY <1>1, <1>7, <1>9
    <2>2. (x \in broken' <=> x \in broken) /\ HasDepth(x, tech[x], bars[x], broken, Y)
      BY <1>1, <1>4, <1>9
    <2> HIDE DEF Y
    <2>3. HasDepth(x, tech[x], bars[x], broken', Redone(q))
      BY <2>1, <2>2 DEF HasDepth
    <2>4. QED
      BY <1>1, <1>8, <1>9, <2>3
  <1>10. CASE bars[s] = {}
    <2>1. broken' = broken /\ s \in broken
      BY <1>1, <1>5, <1>10
    <2>2. HasDepth(s, tech'[s], bars'[s], broken', Redone(q))
      BY <1>1, <1>10, <2>1 DEF HasDepth
    <2>3. QED
      BY <1>1, <1>3, <1>6, <1>7, <1>9, <2>2, AloneMoves
  <1>11. CASE bars[s] # {}
    <2>1. bars[s] = run[r].loaded /\ only \in SUBSET bars[s]
      BY <1>5, <1>11
    <2>2. Seen(r) \in Nat /\ \A b \in bars[s] : Seen(r) <= b
      BY <1>1, <2>1, SeenFirst
    <2>3. s \notin broken' \cup Redone(q) => only = bars[s] \/ s \notin broken \cup Y
      <3>1. CASE run[r].full
        BY <1>5, <2>1, <3>1
      <3>2. CASE ~run[r].full
        BY <1>1, <3>2 DEF Redone
      <3>3. QED
        BY <3>1, <3>2
    <2>a. DOMAIN g = only /\ \A d \in DOMAIN g, b \in bars[s] : g[d] <= b
      BY <2>2
    <2> HIDE DEF s, only, g, Y
    <2>b. /\ DOMAIN g \subseteq bars[s]
          /\ s \notin broken' \cup Redone(q) => DOMAIN g = bars[s] \/ s \notin broken \cup Y
      BY <2>1, <2>3, <2>a
    <2>c. HasDepth(s, tech[s], bars[s], broken, Y) /\ Spans(bars[s], today)
      BY <1>2, <1>4, <1>11
    <2>4. HasDepth(s, u, bars[s], broken', Redone(q))
      BY <1>2, <1>11, <2>a, <2>b, <2>c, WrittenDepth
    <2>5. HasDepth(s, tech'[s], bars'[s], broken', Redone(q))
      BY <1>1, <1>8, <2>4
    <2>6. QED
      BY <1>1, <1>3, <1>6, <1>7, <1>9, <2>5, AloneMoves
  <1>12. QED
    BY <1>10, <1>11

LEMMA FailDeep ==
    ASSUME IInv, TypeInv, DeepInv, ~overlapped, NEW r \in Runs, Fail(r)
    PROVE  DeepInv'
  <1>1. /\ UNCHANGED <<bars, tech>> /\ run' = [run EXCEPT ![r] = NoRun]
        /\ broken' = broken \cup Redone(run[r]) /\ Alone(r)
    BY RedoingIs, Lonely DEF Fail, Goes, db
  <1>2. Ready(NoRun, bars', broken') /\ Redone(NoRun) = {}
    BY NoRunRests, RestRedoesNothing
  <1>3. ASSUME NEW s \in Symbols PROVE HasDepth(s, tech'[s], bars'[s], broken', Redone(NoRun))
    <2>1. HasDepth(s, tech[s], bars[s], broken, Redone(run[r]))
      BY <1>1, Lonely
    <2>2. broken \subseteq broken' /\ (s \in broken \cup Redone(run[r]) => s \in broken' \cup {})
      BY <1>1
    <2>3. HasDepth(s, tech[s], bars[s], broken', {})
      BY <2>1, <2>2, DepthGrows
    <2>4. QED
      BY <1>1, <1>2, <2>3
  <1>4. QED
    BY <1>1, <1>2, <1>3, AloneMoves

LEMMA CrashDeep ==
    ASSUME IInv, TypeInv, DeepInv, Crash
    PROVE  DeepInv'
  <1>1. /\ UNCHANGED <<bars, tech, overlapped>> /\ run' = [r \in Runs |-> NoRun]
        /\ broken' = broken \cup Redo
    BY DEF Crash, db, Redo
  <1>2. \A r \in Runs : run'[r].pc = "idle" /\ Ready(run'[r], bars', broken')
    BY <1>1, NoRunRests, RestRedoesNothing
  <1>3. ASSUME ~overlapped, NEW s \in Symbols PROVE HasDepth(s, tech'[s], bars'[s], broken', Redo')
    <2>1. HasDepth(s, tech[s], bars[s], broken, Redo)
      BY <1>3 DEF DeepInv
    <2>2. broken \subseteq broken' /\ (s \in broken \cup Redo => s \in broken' \cup Redo')
      BY <1>1
    <2>3. HasDepth(s, tech[s], bars[s], broken', Redo')
      BY <2>1, <2>2, DepthGrows
    <2>4. QED
      BY <1>1, <2>3
  <1>4. QED
    BY <1>1, <1>2, <1>3 DEF DeepInv, Active

LEMMA DeleteTickerDeep ==
    ASSUME IInv, TypeInv, DeepInv, NEW s \in Symbols, DeleteTicker(s)
    PROVE  DeepInv'
  <1>1. /\ bars' = [bars EXCEPT ![s] = {}] /\ tech' = [tech EXCEPT ![s] = NoRow]
        /\ broken' = IF Writing(s) THEN broken \cup {s} ELSE broken \ {s}
        /\ UNCHANGED <<run, overlapped>>
    BY DEF DeleteTicker
  <1>2. /\ bars'[s] = {} /\ \A x \in Symbols \ {s} : bars'[x] = bars[x]
        /\ DOMAIN tech'[s] = {} /\ \A x \in Symbols \ {s} : tech'[x] = tech[x]
    BY <1>1 DEF TypeInv, Data, NoRow
  <1>3. \A x \in Symbols \ {s} : x \in broken' <=> x \in broken
    BY <1>1
  <1>4. ASSUME ~overlapped, NEW x \in Symbols PROVE HasDepth(x, tech'[x], bars'[x], broken', Redo)
    <2>1. HasDepth(x, tech[x], bars[x], broken, Redo)
      BY <1>4 DEF DeepInv
    <2>2. CASE x = s
      BY <1>2, <2>2 DEF HasDepth
    <2>3. CASE x # s
      BY <1>2, <1>3, <2>1, <2>3 DEF HasDepth
    <2>4. QED
      BY <2>2, <2>3
  <1>5. ASSUME ~overlapped, NEW r \in Runs PROVE Ready(run[r], bars', broken')
    <2>1. Ready(run[r], bars, broken) /\ run[r] \in RunType
      BY <1>5, RunTyped DEF DeepInv
    <2>2. run[r].pc = "bars" => DOMAIN run[r].start \subseteq Symbols
      BY RunTyped DEF Planned
    <2>3. run[r].pc = "bars" /\ ~run[r].full =>
             \A x \in DOMAIN run[r].start : \A b \in bars'[x] : b < run[r].start[x]
      <3>1. \A x \in Symbols : bars'[x] \subseteq bars[x]
        BY <1>2
      <3>2. QED
        BY <2>1, <2>2, <3>1 DEF Ready
    <2>4. run[r].pc = "write" => \/ bars'[Min(run[r].left)] = run[r].loaded
                                 \/ bars'[Min(run[r].left)] = {} /\ Min(run[r].left) \in broken'
      <3>1. SUFFICES ASSUME run[r].pc = "write"
                     PROVE  \/ bars'[Here(r)] = run[r].loaded
                            \/ bars'[Here(r)] = {} /\ Here(r) \in broken'
        BY DEF Here
      <3>2. Here(r) \in Symbols
        BY <3>1, HereIsSymbol
      <3>3. bars[Here(r)] = run[r].loaded \/ (bars[Here(r)] = {} /\ Here(r) \in broken)
        BY <2>1, <3>1 DEF Ready, Here
      <3>4. CASE Here(r) = s
        BY <1>1, <1>2, <3>1, <3>4 DEF Writing
      <3>5. CASE Here(r) # s
        BY <1>2, <1>3, <3>2, <3>3, <3>5
      <3>6. QED
        BY <3>4, <3>5
    <2>5. QED
      BY <2>1, <2>3, <2>4 DEF Ready
  <1>6. QED
    BY <1>1, <1>4, <1>5, AsideDeep

LEMMA BackfillIvDeep ==
    ASSUME IInv, TypeInv, DeepInv, NEW s \in Symbols, BackfillIv(s)
    PROVE  DeepInv'
  <1>1. UNCHANGED <<bars, broken, run, overlapped>>
    BY DEF BackfillIv
  <1>2. PICK dates \in SUBSET bars[s] : dates # {} /\ WriteIv(s, dates)
    BY DEF BackfillIv
  <1>3. ~overlapped => \A x \in Symbols : HasDepth(x, tech[x], bars[x], broken, Redo)
    BY DEF DeepInv
  <1>4. ~overlapped => \A x \in Symbols : HasDepth(x, tech'[x], bars[x], broken, Redo)
    BY <1>2, <1>3, WriteIvDeep
  <1>5. ~overlapped => \A r \in Runs : Ready(run[r], bars', broken')
    BY <1>1 DEF DeepInv
  <1>6. ~overlapped => \A x \in Symbols : HasDepth(x, tech'[x], bars'[x], broken', Redo)
    BY <1>1, <1>4
  <1>7. QED
    BY <1>1, <1>5, <1>6, AsideDeep

LEMMA DeepNext == IInv /\ TypeInv /\ DeepInv /\ [Next]_vars => DeepInv'
  <1> SUFFICES ASSUME IInv, TypeInv, DeepInv, [Next]_vars PROVE DeepInv'
    OBVIOUS
  <1>1. ASSUME NEW r \in Runs, StartEvening(r) \/ StartFull(r) \/ \E s \in Symbols : CreateTicker(s, r)
        PROVE  DeepInv'
    BY <1>1, StartDeep
  <1>2. ASSUME NEW r \in Runs, Step(r) \/ Fail(r) PROVE DeepInv'
    <2>1. overlapped' = overlapped
      BY <1>2 DEF Step, FetchChunk, BarsDone, LoadBars, WriteIndicators, FetchChain, RefreshIv,
         Finish, Fail, history
    <2>2. CASE overlapped
      BY <2>1, <2>2, Overlapping
    <2>3. CASE ~overlapped
      BY <1>2, <2>3, FetchChunkDeep, BarsDoneDeep, LoadBarsDeep, WriteIndicatorsDeep,
         FetchChainDeep, RefreshIvDeep, FailDeep DEF Step
    <2>4. QED
      BY <2>2, <2>3
  <1>3. ASSUME NEW s \in Symbols, DeleteTicker(s) \/ BackfillIv(s) PROVE DeepInv'
    BY <1>3, DeleteTickerDeep, BackfillIvDeep
  <1>4. CASE SyncUniverse \/ NextDay \/ UNCHANGED vars \/ \E s \in Symbols : PromoteTicker(s)
    <2>1. UNCHANGED <<bars, tech, broken, run, overlapped>>
      BY <1>4 DEF SyncUniverse, NextDay, PromoteTicker, vars, db, history
    <2>2. ~overlapped => /\ \A r \in Runs : Ready(run[r], bars', broken')
                         /\ \A s \in Symbols : HasDepth(s, tech'[s], bars'[s], broken', Redo)
      BY <2>1 DEF DeepInv
    <2>3. QED
      BY <2>1, <2>2, AsideDeep
  <1>5. CASE Crash
    BY <1>5, CrashDeep
  <1>6. QED
    BY <1>1, <1>2, <1>3, <1>4, <1>5 DEF Next

\* However evenings, backfills, deletions and commands follow on each other, fail or
\* are cut off, as long as no two runs overlap: no row keeps technicals of a shorter
\* history than the bars go back to, once what redoes the symbol has passed it.
THEOREM TechnicalsAreDeep == Spec => []DeepTechnicals
  <1>1. TypeInv /\ IInv /\ DeepInv => DeepTechnicals
    <2>1. SUFFICES ASSUME TypeInv, IInv, DeepInv, ~overlapped,
                          NEW s \in Symbols, bars[s] # {}, s \notin broken, s \notin Redo,
                          NEW d \in Rows(s)
                   PROVE  tech[s][d] <= Min(bars[s])
      BY DEF DeepTechnicals, Stored, Redo
    <2>2. \A b \in bars[s] : tech[s][d] <= b
      BY <2>1 DEF DeepInv, HasDepth, Rows
    <2>3. today \in Nat /\ bars[s] \in SUBSET (1 .. today)
      BY <2>1 DEF IInv, Stores, TypeInv, Data
    <2>4. IsFiniteSet(1 .. today) /\ bars[s] \in SUBSET Int
      BY <2>3, FS_Interval
    <2>5. IsFiniteSet(bars[s])
      BY <2>3, <2>4, FS_Subset
    <2>6. Min(bars[s]) \in bars[s]
      BY <2>1, <2>4, <2>5, Least
    <2>7. QED
      BY <2>2, <2>6
  <1>2. QED
    BY <1>1, IInvAlways, TypeInvAlways, DeepInit, DeepNext, PTL DEF Spec

=============================================================================
