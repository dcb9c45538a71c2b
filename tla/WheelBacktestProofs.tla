------------------------- MODULE WheelBacktestProofs -------------------------
(***************************************************************************)
(* Proofs about WheelBacktest, for every universe, market, calendar and    *)
(* parameter of a run: its types, that a symbol runs one cycle at a time,  *)
(* that a call never sells shares below their cost, that cash is the sum   *)
(* of what is booked, and that the trade rows tell how many cycles ended.  *)
(***************************************************************************)
EXTENDS WheelBacktest, FiniteTheorems

\* One leg and one lot per symbol, and a call covers its lot.
Paired(O, L) ==
    /\ \A o, q \in O : o.symbol = q.symbol => o = q
    /\ \A l, m \in L : l.symbol = m.symbol => l = m
    /\ \A o \in O :
          IF o.leg_type = "short_put" THEN \A l \in L : l.symbol # o.symbol
          ELSE \E l \in L : /\ l.symbol = o.symbol /\ l.cycle_id = o.cycle_id
                            /\ l.shares = Covered(o) /\ o.strike >= l.cost_basis

\* Shares come in whole contracts, so a call written on a lot covers all of it.
Lot(l) == \E n \in 1 .. l.shares : l.shares = n * CONTRACTS_MULTIPLIER

\* The cash that the books account for.
Booked == starting_capital + realized_pnl
             + SumFunction([o \in options |-> Premium(o)])
             - SumFunction([l \in shares |-> Value(l)])

\* What the trade rows of a cycle may hold while its put, or its lot, is there.
PutRows == {"csp_open"}
LotRows == {"csp_open", "csp_assigned", "cc_open", "cc_close", "cc_expired"}
RowsOf(c, T) == {t \in LegTypes : <<c, t>> \in T}

\* Live legs and lots of different symbols belong to different cycles, all of
\* them begun and none of them completed.
Live(O, L, T, n) ==
    /\ \A o \in O : o.cycle_id < n
    /\ \A l \in L : l.cycle_id < n /\ RowsOf(l.cycle_id, T) \subseteq LotRows
    /\ \A o \in O : o.leg_type = "short_put" => RowsOf(o.cycle_id, T) \subseteq PutRows
    /\ \A o, q \in O : o.cycle_id = q.cycle_id => o = q
    /\ \A l, m \in L : l.cycle_id = m.cycle_id => l = m
    /\ \A o \in O, l \in L : o.cycle_id = l.cycle_id => o.symbol = l.symbol
    /\ \A r \in T : r[1] < n

\* The cycles that the trade rows call completed.
Ends == {"csp_expired", "cc_assigned"}
CallRows == {"cc_open", "cc_close", "cc_assigned", "cc_expired"}
Ended(c, T) ==
    \/ \E t \in Ends : <<c, t>> \in T
    \/ <<c, "csp_close">> \in T /\ \A t \in CallRows : <<c, t>> \notin T
Completed(T, n) == {c \in 1 .. n : Ended(c, T)}

\* Everything the books say, of given legs, lots, trade rows and counters.
Books(O, L, T, n, k) ==
    /\ O \subseteq OptionPosition /\ IsFiniteSet(O) /\ \A o \in O : o.contracts > 0
    /\ L \subseteq ShareLot /\ IsFiniteSet(L) /\ \A l \in L : Lot(l)
    /\ T \subseteq Cycles \X LegTypes /\ n \in Cycles
    /\ Paired(O, L)
    /\ Live(O, L, T, n)
    /\ k = Cardinality(Completed(T, n))

\* The inductive invariant.
IInv ==
    /\ TypeOK
    /\ phase # "manage" => todo = {}
    /\ Books(options, shares, trades, next_cycle_id, cycles_completed)
    /\ MoneyConserved

-----------------------------------------------------------------------------
(* Sums over legs and lots *)

Prem(O) == SumFunction([o \in O |-> Premium(o)])
Worth(L) == SumFunction([l \in L |-> Value(l)])

LEMMA Numbers ==
    /\ starting_capital \in Nat /\ max_concurrent_positions \in Nat
    /\ profit_take_percent \in Nat /\ manage_dte \in Nat
    /\ fee_per_contract \in Nat /\ slippage_per_share \in Nat
    /\ contracts_per_position \in Nat /\ contracts_per_position > 0
    /\ CONTRACTS_MULTIPLIER \in Nat /\ CONTRACTS_MULTIPLIER > 0
  <1>1. /\ starting_capital \in Nat /\ max_concurrent_positions \in Nat
        /\ profit_take_percent \in Nat /\ manage_dte \in Nat
        /\ fee_per_contract \in Nat /\ slippage_per_share \in Nat
    BY Zenon, ParamsAssumption
  <1>2. /\ contracts_per_position \in Nat /\ contracts_per_position > 0
        /\ CONTRACTS_MULTIPLIER \in Nat /\ CONTRACTS_MULTIPLIER > 0
    BY ParamsAssumption
  <1>3. QED
    BY <1>1, <1>2

LEMMA ProductNat == \A m, n \in Nat : m * n \in Nat
  OBVIOUS

LEMMA LegTyped ==
    ASSUME NEW o \in OptionPosition
    PROVE  Covered(o) \in Nat /\ Premium(o) \in Int
  <1>1. o.contracts \in Nat /\ o.entry_premium \in Nat /\ o.fees_open \in Nat
    BY DEF OptionPosition
  <1>2. Covered(o) \in Nat
    BY <1>1, Numbers, ProductNat DEF Covered
  <1>3. o.entry_premium * Covered(o) \in Nat
    BY <1>1, <1>2, ProductNat
  <1>4. QED
    BY <1>1, <1>2, <1>3 DEF Premium

LEMMA LotTyped ==
    ASSUME NEW l \in ShareLot
    PROVE  Value(l) \in Nat
  BY ProductNat DEF ShareLot, Value

LEMMA PremSum ==
    ASSUME NEW O \in SUBSET OptionPosition, IsFiniteSet(O)
    PROVE  /\ Prem(O) \in Int
           /\ \A o \in O : Prem(O \ {o}) = Prem(O) - Premium(o)
           /\ \A o \in OptionPosition \ O : Prem(O \cup {o}) = Prem(O) + Premium(o)
  <1> DEFINE f == [o \in O |-> Premium(o)]
  <1>1. DOMAIN f = O /\ \A o \in O : f[o] = Premium(o) /\ f[o] \in Int
    BY LegTyped
  <1>2. Prem(O) = SumFunction(f)
    BY DEF Prem
  <1>3. ASSUME NEW o \in O PROVE Prem(O \ {o}) = Prem(O) - Premium(o)
    <2> DEFINE g == [q \in O \ {o} |-> Premium(q)]
    <2>1. DOMAIN g = O \ {o} /\ \A q \in O \ {o} : g[q] = f[q]
      OBVIOUS
    <2>2. Prem(O \ {o}) = SumFunction(g)
      BY DEF Prem
    <2> HIDE DEF f, g
    <2>3. SumFunction(g) = SumFunction(f) - f[o]
      BY <1>1, <2>1, SumFunctionRemove
    <2>4. QED
      BY <1>1, <1>2, <2>2, <2>3
  <1>4. ASSUME NEW o \in OptionPosition \ O PROVE Prem(O \cup {o}) = Prem(O) + Premium(o)
    <2> DEFINE g == [q \in O \cup {o} |-> Premium(q)]
    <2>1. /\ DOMAIN g = O \cup {o} /\ \A q \in O : g[q] = f[q]
          /\ g[o] = Premium(o) /\ g[o] \in Int
      BY LegTyped
    <2>2. Prem(O \cup {o}) = SumFunction(g)
      BY DEF Prem
    <2> HIDE DEF f, g
    <2>3. SumFunction(g) = SumFunction(f) + g[o]
      BY <1>1, <2>1, SumFunctionAdd
    <2>4. QED
      BY <1>2, <2>1, <2>2, <2>3
  <1> HIDE DEF f
  <1>5. Prem(O) \in Int
    BY <1>1, <1>2, SumFunctionInt
  <1>6. QED
    BY <1>3, <1>4, <1>5

LEMMA WorthSum ==
    ASSUME NEW L \in SUBSET ShareLot, IsFiniteSet(L)
    PROVE  /\ Worth(L) \in Int
           /\ \A l \in L : Worth(L \ {l}) = Worth(L) - Value(l)
           /\ \A l \in ShareLot \ L : Worth(L \cup {l}) = Worth(L) + Value(l)
  <1> DEFINE f == [l \in L |-> Value(l)]
  <1>1. DOMAIN f = L /\ \A l \in L : f[l] = Value(l) /\ f[l] \in Int
    BY LotTyped
  <1>2. Worth(L) = SumFunction(f)
    BY DEF Worth
  <1>3. ASSUME NEW l \in L PROVE Worth(L \ {l}) = Worth(L) - Value(l)
    <2> DEFINE g == [m \in L \ {l} |-> Value(m)]
    <2>1. DOMAIN g = L \ {l} /\ \A m \in L \ {l} : g[m] = f[m]
      OBVIOUS
    <2>2. Worth(L \ {l}) = SumFunction(g)
      BY DEF Worth
    <2> HIDE DEF f, g
    <2>3. SumFunction(g) = SumFunction(f) - f[l]
      BY <1>1, <2>1, SumFunctionRemove
    <2>4. QED
      BY <1>1, <1>2, <2>2, <2>3
  <1>4. ASSUME NEW l \in ShareLot \ L PROVE Worth(L \cup {l}) = Worth(L) + Value(l)
    <2> DEFINE g == [m \in L \cup {l} |-> Value(m)]
    <2>1. /\ DOMAIN g = L \cup {l} /\ \A m \in L : g[m] = f[m]
          /\ g[l] = Value(l) /\ g[l] \in Int
      BY LotTyped
    <2>2. Worth(L \cup {l}) = SumFunction(g)
      BY DEF Worth
    <2> HIDE DEF f, g
    <2>3. SumFunction(g) = SumFunction(f) + g[l]
      BY <1>1, <2>1, SumFunctionAdd
    <2>4. QED
      BY <1>2, <2>1, <2>2, <2>3
  <1> HIDE DEF f
  <1>5. Worth(L) \in Int
    BY <1>1, <1>2, SumFunctionInt
  <1>6. QED
    BY <1>3, <1>4, <1>5

\* A symbol has no shares or one lot, and its sums are that lot's.
LEMMA NoLots ==
    ASSUME NEW s, LotsFor(s) = {}
    PROVE  SharesForSymbol(s) = 0
  BY SumFunctionEmpty DEF SharesForSymbol

LEMMA OneLot ==
    ASSUME IInv, NEW l \in shares
    PROVE  /\ LotsFor(l.symbol) = {l}
           /\ SharesForSymbol(l.symbol) = l.shares
           /\ BasisFor(l.symbol) = Value(l)
  <1>1. LotsFor(l.symbol) = {l}
    BY DEF IInv, Books, Paired, LotsFor
  <1>2. l \in ShareLot /\ l.shares \in Int /\ Value(l) \in Int
    BY LotTyped DEF IInv, TypeOK, ShareLot
  <1>3. SharesForSymbol(l.symbol) = l.shares
    <2> DEFINE f == [m \in {l} |-> m.shares]
    <2>1. DOMAIN f = {l} /\ f[l] = l.shares
      OBVIOUS
    <2>2. SharesForSymbol(l.symbol) = SumFunction(f)
      BY <1>1 DEF SharesForSymbol
    <2> HIDE DEF f
    <2>3. QED
      BY <1>2, <2>1, <2>2, SumFunctionOne
  <1>4. BasisFor(l.symbol) = Value(l)
    <2> DEFINE f == [m \in {l} |-> Value(m)]
    <2>1. DOMAIN f = {l} /\ f[l] = Value(l)
      OBVIOUS
    <2>2. BasisFor(l.symbol) = SumFunction(f)
      BY <1>1 DEF BasisFor
    <2> HIDE DEF f
    <2>3. QED
      BY <1>2, <2>1, <2>2, SumFunctionOne
  <1>5. QED
    BY <1>1, <1>3, <1>4

\* A call that delivers takes the whole lot it was written on, and nothing else.
LEMMA WholeLotTaken ==
    ASSUME IInv, NEW l \in shares
    PROVE  /\ LotsWithout(l.symbol, l.shares) = shares \ {l}
           /\ SharesTaken(l.symbol, l.shares) = l.shares
           /\ BasisTaken(l.symbol, l.shares) = Value(l)
  <1>1. LotsFor(l.symbol) = {l}
    BY OneLot
  <1>2. l \in ShareLot /\ l.shares \in Nat /\ l.acquired_date \in Nat /\ l.shares > 0
    <2>1. l \in ShareLot /\ l.shares \in Nat /\ l.acquired_date \in Nat
      BY MarketAssumption DEF IInv, TypeOK, ShareLot
    <2>2. \A n \in Nat \ {0} : n * CONTRACTS_MULTIPLIER > 0
      BY Numbers
    <2>3. QED
      BY <2>1, <2>2 DEF IInv, Books, Lot
  <1>3. TakenFrom(l, l.shares) = l.shares
    <2> DEFINE before == {m \in LotsFor(l.symbol) : m.acquired_date < l.acquired_date}
               f == [m \in before |-> m.shares]
    <2>1. before = {}
      BY <1>1, <1>2
    <2>2. DOMAIN f = {}
      BY <2>1
    <2>3. SumFunction(f) = 0
      <3> HIDE DEF f
      <3>1. QED
        BY <2>2, SumFunctionEmpty
    <2>4. TakenFrom(l, l.shares) =
            LET left == l.shares - SumFunction(f)
            IN  IF left <= 0 THEN 0 ELSE IF left < l.shares THEN left ELSE l.shares
      BY DEF TakenFrom
    <2> HIDE DEF f
    <2>5. QED
      BY <1>2, <2>3, <2>4
  <1>4. LotsWithout(l.symbol, l.shares) = shares \ {l}
    <2>1. {m \in LotsFor(l.symbol) : TakenFrom(m, l.shares) < m.shares} = {}
      BY <1>1, <1>2, <1>3
    <2>2. QED
      BY <1>1, <2>1 DEF LotsWithout
  <1>5. SharesTaken(l.symbol, l.shares) = l.shares
    <2> DEFINE f == [m \in {l} |-> TakenFrom(m, l.shares)]
    <2>1. DOMAIN f = {l} /\ f[l] = l.shares
      BY <1>3
    <2>2. SharesTaken(l.symbol, l.shares) = SumFunction(f)
      BY <1>1 DEF SharesTaken
    <2> HIDE DEF f
    <2>3. QED
      BY <1>2, <2>1, <2>2, SumFunctionOne
  <1>6. BasisTaken(l.symbol, l.shares) = Value(l)
    <2> DEFINE f == [m \in {l} |-> TakenFrom(m, l.shares) * m.cost_basis]
    <2>1. DOMAIN f = {l} /\ f[l] = Value(l) /\ Value(l) \in Int
      BY <1>2, <1>3, LotTyped DEF Value
    <2>2. BasisTaken(l.symbol, l.shares) = SumFunction(f)
      BY <1>1 DEF BasisTaken
    <2> HIDE DEF f
    <2>3. QED
      BY <2>1, <2>2, SumFunctionOne
  <1>7. QED
    BY <1>4, <1>5, <1>6

-----------------------------------------------------------------------------
(* What one booking does to the books *)

Added(T, c, R) == T \cup ({c} \X R)

LEMMA RowsAdded ==
    ASSUME NEW T, NEW c, NEW R \in SUBSET LegTypes
    PROVE  /\ RowsOf(c, Added(T, c, R)) = RowsOf(c, T) \cup R
           /\ \A d : d # c => /\ RowsOf(d, Added(T, c, R)) = RowsOf(d, T)
                              /\ Ended(d, Added(T, c, R)) = Ended(d, T)
  <1>1. \A d, t : <<d, t>> \in Added(T, c, R) <=> (<<d, t>> \in T \/ (d = c /\ t \in R))
    BY DEF Added
  <1>2. RowsOf(c, Added(T, c, R)) = RowsOf(c, T) \cup R
    BY <1>1 DEF RowsOf
  <1>3. ASSUME NEW d, d # c
        PROVE  /\ RowsOf(d, Added(T, c, R)) = RowsOf(d, T)
               /\ Ended(d, Added(T, c, R)) = Ended(d, T)
    <2>1. \A t : <<d, t>> \in Added(T, c, R) <=> <<d, t>> \in T
      BY <1>1, <1>3
    <2>2. RowsOf(d, Added(T, c, R)) = RowsOf(d, T)
      BY <2>1 DEF RowsOf
    <2>3. Ended(d, Added(T, c, R)) = Ended(d, T)
      BY <2>1 DEF Ended
    <2>4. QED
      BY <2>2, <2>3
  <1>4. QED
    BY <1>2, <1>3

LEMMA EndedByRows ==
    ASSUME NEW T, NEW c
    PROVE  Ended(c, T) <=> \/ \E t \in Ends : t \in RowsOf(c, T)
                           \/ "csp_close" \in RowsOf(c, T) /\ \A t \in CallRows : t \notin RowsOf(c, T)
  BY DEF Ended, RowsOf, Ends, CallRows, LegTypes

\* Rows that leave their cycle unended leave the count alone.
LEMMA CountStays ==
    ASSUME NEW n \in Cycles, NEW T, NEW c \in 1 .. n, NEW R \in SUBSET LegTypes,
           ~Ended(c, T), ~Ended(c, Added(T, c, R))
    PROVE  Completed(Added(T, c, R), n) = Completed(T, n)
  BY RowsAdded DEF Completed

\* Rows that end their cycle add one.
LEMMA CountGrows ==
    ASSUME NEW n \in Cycles, NEW T, NEW c \in 1 .. n, NEW R \in SUBSET LegTypes,
           ~Ended(c, T), Ended(c, Added(T, c, R))
    PROVE  Cardinality(Completed(Added(T, c, R), n)) = Cardinality(Completed(T, n)) + 1
  <1>1. Completed(Added(T, c, R), n) = Completed(T, n) \cup {c} /\ c \notin Completed(T, n)
    BY RowsAdded DEF Completed
  <1>2. IsFiniteSet(Completed(T, n))
    <2>1. IsFiniteSet(1 .. n) /\ Completed(T, n) \subseteq 1 .. n
      BY FS_Interval DEF Completed, Cycles
    <2>2. QED
      BY <2>1, FS_Subset
  <1>3. QED
    BY <1>1, <1>2, FS_AddElement

\* What an option leg's cycle has in its rows.
LEMMA LegRows ==
    ASSUME NEW O, NEW L, NEW T, NEW n, NEW k, Books(O, L, T, n, k), NEW o \in O
    PROVE  /\ o \in OptionPosition
           /\ o.cycle_id \in 1 .. n - 1 /\ o.cycle_id \in 1 .. n
           /\ o.leg_type = "short_put" =>
                 /\ RowsOf(o.cycle_id, T) \subseteq PutRows
                 /\ \A l \in L : l.cycle_id # o.cycle_id
           /\ o.leg_type # "short_put" =>
                 \E l \in L : /\ l.symbol = o.symbol /\ l.cycle_id = o.cycle_id
                              /\ l.shares = Covered(o) /\ o.strike >= l.cost_basis
                              /\ RowsOf(o.cycle_id, T) \subseteq LotRows
  <1>1. o \in OptionPosition /\ o.cycle_id \in Cycles /\ n \in Cycles /\ o.cycle_id < n
    BY DEF Books, Live, OptionPosition
  <1>2. o.cycle_id \in 1 .. n - 1 /\ o.cycle_id \in 1 .. n
    BY <1>1 DEF Cycles
  <1>3. CASE o.leg_type = "short_put"
    BY <1>1, <1>2, <1>3 DEF Books, Paired, Live
  <1>4. CASE o.leg_type # "short_put"
    BY <1>1, <1>2, <1>4 DEF Books, Paired, Live
  <1>5. QED
    BY <1>3, <1>4

\* A put that expires, or is bought back, ends its cycle.
LEMMA PutGoes ==
    ASSUME NEW O, NEW L, NEW T, NEW n, NEW k, Books(O, L, T, n, k), k \in Nat, NEW o \in O,
           o.leg_type = "short_put", NEW t \in {"csp_expired", "csp_close"}
    PROVE  Books(O \ {o}, L, Added(T, o.cycle_id, {t}), n, k + 1)
  <1> DEFINE c == o.cycle_id
             U == Added(T, c, {t})
  <1>1. /\ c \in 1 .. n - 1 /\ c \in 1 .. n /\ n \in Cycles /\ o \in OptionPosition
        /\ RowsOf(c, T) \subseteq PutRows
        /\ \A l \in L : l.cycle_id # c
    BY LegRows DEF Books
  <1>2. {t} \in SUBSET LegTypes
    BY DEF LegTypes
  <1>3. RowsOf(c, U) = RowsOf(c, T) \cup {t}
    BY <1>2, RowsAdded
  <1>4. ~Ended(c, T) /\ Ended(c, U)
    BY <1>1, <1>3, EndedByRows DEF PutRows, Ends, CallRows
  <1>5. k + 1 = Cardinality(Completed(U, n))
    <2>1. k = Cardinality(Completed(T, n))
      BY DEF Books
    <2> HIDE DEF U, c
    <2>2. QED
      BY <1>1, <1>2, <1>4, <2>1, CountGrows DEF U
  <1>6. IsFiniteSet(O \ {o}) /\ Paired(O \ {o}, L)
    BY FS_Subset DEF Books, Paired
  <1>7. U \subseteq Cycles \X LegTypes
    BY <1>1, <1>2 DEF Books, Added, OptionPosition
  <1>8. Live(O \ {o}, L, U, n)
    <2>1. \A q \in O \ {o} : q.cycle_id # c
      BY DEF Books, Live
    <2>2. \A d : d # c => RowsOf(d, U) = RowsOf(d, T)
      BY <1>2, RowsAdded
    <2>3. \A r \in U : r[1] < n
      BY <1>1 DEF Books, Live, Added, Cycles
    <2> HIDE DEF U, c
    <2>4. QED
      BY <1>1, <2>1, <2>2, <2>3 DEF Books, Live
  <1> HIDE DEF U, c
  <1>9. QED
    BY <1>5, <1>6, <1>7, <1>8 DEF Books, U, c

\* A call that expires, or is bought back, leaves its lot and its cycle as they are.
LEMMA CallGoes ==
    ASSUME NEW O, NEW L, NEW T, NEW n, NEW k, Books(O, L, T, n, k), NEW o \in O,
           o.leg_type # "short_put", NEW t \in {"cc_expired", "cc_close"}
    PROVE  Books(O \ {o}, L, Added(T, o.cycle_id, {t}), n, k)
  <1> DEFINE c == o.cycle_id
             U == Added(T, c, {t})
  <1>1. /\ c \in 1 .. n - 1 /\ c \in 1 .. n /\ n \in Cycles /\ o \in OptionPosition
        /\ RowsOf(c, T) \subseteq LotRows
    BY LegRows DEF Books
  <1>2. {t} \in SUBSET LegTypes
    BY DEF LegTypes
  <1>3. RowsOf(c, U) = RowsOf(c, T) \cup {t}
    BY <1>2, RowsAdded
  <1>4. ~Ended(c, T) /\ ~Ended(c, U)
    BY <1>1, <1>3, EndedByRows DEF LotRows, Ends, CallRows
  <1>5. k = Cardinality(Completed(U, n))
    <2>1. k = Cardinality(Completed(T, n))
      BY DEF Books
    <2> HIDE DEF U, c
    <2>2. QED
      BY <1>1, <1>2, <1>4, <2>1, CountStays DEF U
  <1>6. IsFiniteSet(O \ {o}) /\ Paired(O \ {o}, L)
    BY FS_Subset DEF Books, Paired
  <1>7. U \subseteq Cycles \X LegTypes
    BY <1>1, <1>2 DEF Books, Added, OptionPosition
  <1>8. Live(O \ {o}, L, U, n)
    <2>1. \A q \in O \ {o} : q.cycle_id # c
      BY DEF Books, Live
    <2>2. \A d : d # c => RowsOf(d, U) = RowsOf(d, T)
      BY <1>2, RowsAdded
    <2>3. \A r \in U : r[1] < n
      BY <1>1 DEF Books, Live, Added, Cycles
    <2>4. RowsOf(c, U) \subseteq LotRows
      BY <1>1, <1>3 DEF LotRows
    <2> HIDE DEF U, c
    <2>5. QED
      BY <1>1, <2>1, <2>2, <2>3, <2>4 DEF Books, Live
  <1> HIDE DEF U, c
  <1>9. QED
    BY <1>5, <1>6, <1>7, <1>8 DEF Books, U, c

\* An assigned put becomes a lot of its cycle.
LEMMA PutBecomesLot ==
    ASSUME NEW O, NEW L, NEW T, NEW n, NEW k, Books(O, L, T, n, k), NEW o \in O,
           o.leg_type = "short_put", NEW l \in ShareLot,
           l.cycle_id = o.cycle_id, l.symbol = o.symbol, Lot(l)
    PROVE  /\ Books(O \ {o}, L \cup {l}, Added(T, o.cycle_id, {"csp_assigned"}), n, k)
           /\ l \notin L
  <1> DEFINE c == o.cycle_id
             U == Added(T, c, {"csp_assigned"})
             M == L \cup {l}
  <1>1. /\ c \in 1 .. n - 1 /\ c \in 1 .. n /\ n \in Cycles /\ o \in OptionPosition
        /\ RowsOf(c, T) \subseteq PutRows
        /\ \A m \in L : m.cycle_id # c
        /\ \A m \in L : m.symbol # l.symbol
    <2>1. \A m \in L : m.symbol # l.symbol
      BY DEF Books, Paired
    <2>2. QED
      BY <2>1, LegRows DEF Books
  <1>2. {"csp_assigned"} \in SUBSET LegTypes
    BY DEF LegTypes
  <1>3. RowsOf(c, U) = RowsOf(c, T) \cup {"csp_assigned"}
    BY <1>2, RowsAdded
  <1>4. ~Ended(c, T) /\ ~Ended(c, U)
    BY <1>1, <1>3, EndedByRows DEF PutRows, Ends, CallRows
  <1>5. k = Cardinality(Completed(U, n))
    <2>1. k = Cardinality(Completed(T, n))
      BY DEF Books
    <2> HIDE DEF U, c
    <2>2. QED
      BY <1>1, <1>2, <1>4, <2>1, CountStays DEF U
  <1>6. IsFiniteSet(O \ {o}) /\ IsFiniteSet(M)
    BY FS_Subset, FS_AddElement DEF Books
  <1>7. Paired(O \ {o}, M)
    <2>1. \A q \in O \ {o} : q.symbol # l.symbol
      BY DEF Books, Paired
    <2>2. \A m, m2 \in M : m.symbol = m2.symbol => m = m2
      BY <1>1 DEF Books, Paired
    <2>3. ASSUME NEW q \in O \ {o}
          PROVE  IF q.leg_type = "short_put" THEN \A m \in M : m.symbol # q.symbol
                 ELSE \E m \in M : /\ m.symbol = q.symbol /\ m.cycle_id = q.cycle_id
                                   /\ m.shares = Covered(q) /\ q.strike >= m.cost_basis
      <3>1. CASE q.leg_type = "short_put"
        BY <2>1, <3>1 DEF Books, Paired
      <3>2. CASE q.leg_type # "short_put"
        BY <3>2 DEF Books, Paired
      <3>3. QED
        BY <3>1, <3>2
    <2>4. \A q, q2 \in O \ {o} : q.symbol = q2.symbol => q = q2
      BY DEF Books, Paired
    <2> HIDE DEF M
    <2>5. QED
      BY <2>2, <2>3, <2>4 DEF Paired
  <1>8. U \subseteq Cycles \X LegTypes
    BY <1>1, <1>2 DEF Books, Added, OptionPosition
  <1>9. Live(O \ {o}, M, U, n)
    <2>1. \A q \in O \ {o} : q.cycle_id # c
      BY DEF Books, Live
    <2>2. \A d : d # c => RowsOf(d, U) = RowsOf(d, T)
      BY <1>2, RowsAdded
    <2>3. \A r \in U : r[1] < n
      BY <1>1 DEF Books, Live, Added, Cycles
    <2>4. RowsOf(c, U) \subseteq LotRows /\ c < n
      BY <1>1, <1>3 DEF PutRows, LotRows, Cycles
    <2>5. \A m \in M : m \in L \/ (m = l /\ m.cycle_id = c)
      OBVIOUS
    <2> HIDE DEF U, c, M
    <2>6. \A m \in M : m.cycle_id < n /\ RowsOf(m.cycle_id, U) \subseteq LotRows
      BY <1>1, <2>2, <2>4, <2>5 DEF Books, Live
    <2>7. \A m, m2 \in M : m.cycle_id = m2.cycle_id => m = m2
      BY <1>1, <2>5 DEF Books, Live
    <2>8. \A q \in O \ {o}, m \in M : q.cycle_id = m.cycle_id => q.symbol = m.symbol
      BY <2>1, <2>5 DEF Books, Live
    <2>9. \A q \in O \ {o} : q.leg_type = "short_put" => RowsOf(q.cycle_id, U) \subseteq PutRows
      BY <2>1, <2>2 DEF Books, Live
    <2>10. QED
      BY <2>3, <2>6, <2>7, <2>8, <2>9 DEF Books, Live
  <1>10. M \subseteq ShareLot /\ \A m \in M : Lot(m)
    BY DEF Books
  <1>11. l \notin L
    BY <1>1
  <1> HIDE DEF U, c, M
  <1>12. QED
    BY <1>5, <1>6, <1>7, <1>8, <1>9, <1>10, <1>11 DEF Books, U, c, M

\* A delivered call ends its cycle, and the lot goes with it.
LEMMA CallDelivers ==
    ASSUME NEW O, NEW L, NEW T, NEW n, NEW k, Books(O, L, T, n, k), k \in Nat, NEW o \in O,
           o.leg_type # "short_put", NEW l \in L, l.symbol = o.symbol
    PROVE  Books(O \ {o}, L \ {l}, Added(T, o.cycle_id, {"cc_assigned", "share_sold"}), n, k + 1)
  <1> DEFINE c == o.cycle_id
             R == {"cc_assigned", "share_sold"}
             U == Added(T, c, R)
  <1>1. /\ c \in 1 .. n - 1 /\ c \in 1 .. n /\ n \in Cycles /\ o \in OptionPosition
        /\ RowsOf(c, T) \subseteq LotRows
        /\ l.cycle_id = c
    <2>1. \A m \in L : m.symbol = l.symbol => m = l
      BY DEF Books, Paired
    <2>2. QED
      BY <2>1, LegRows DEF Books
  <1>2. R \in SUBSET LegTypes
    BY DEF LegTypes
  <1>3. RowsOf(c, U) = RowsOf(c, T) \cup R
    BY <1>2, RowsAdded
  <1>4. ~Ended(c, T) /\ Ended(c, U)
    BY <1>1, <1>3, EndedByRows DEF LotRows, Ends, CallRows
  <1>5. k + 1 = Cardinality(Completed(U, n))
    <2>1. k = Cardinality(Completed(T, n))
      BY DEF Books
    <2> HIDE DEF U, c, R
    <2>2. QED
      BY <1>1, <1>2, <1>4, <2>1, CountGrows DEF U
  <1>6. IsFiniteSet(O \ {o}) /\ IsFiniteSet(L \ {l})
    BY FS_Subset DEF Books
  <1>7. Paired(O \ {o}, L \ {l})
    <2>1. \A q \in O \ {o} : q.symbol # l.symbol
      BY DEF Books, Paired
    <2>2. QED
      BY <2>1 DEF Books, Paired
  <1>8. U \subseteq Cycles \X LegTypes
    BY <1>1, <1>2 DEF Books, Added, OptionPosition
  <1>9. Live(O \ {o}, L \ {l}, U, n)
    <2>1. (\A q \in O \ {o} : q.cycle_id # c) /\ (\A m \in L \ {l} : m.cycle_id # c)
      BY <1>1 DEF Books, Live
    <2>2. \A d : d # c => RowsOf(d, U) = RowsOf(d, T)
      BY <1>2, RowsAdded
    <2>3. \A r \in U : r[1] < n
      BY <1>1 DEF Books, Live, Added, Cycles
    <2> HIDE DEF U, c
    <2>4. QED
      BY <1>1, <2>1, <2>2, <2>3 DEF Books, Live
  <1> HIDE DEF U, c, R
  <1>10. QED
    BY <1>5, <1>6, <1>7, <1>8, <1>9 DEF Books, U, c, R

\* A call is written on a lot without one, at or above its cost.
LEMMA CallWritten ==
    ASSUME NEW O, NEW L, NEW T, NEW n, NEW k, Books(O, L, T, n, k), NEW l \in L,
           NEW o \in OptionPosition, o.leg_type = "covered_call", o.contracts > 0,
           o.cycle_id = l.cycle_id, o.symbol = l.symbol,
           Covered(o) = l.shares, o.strike >= l.cost_basis,
           \A q \in O : q.leg_type # "short_put" => q.symbol # l.symbol
    PROVE  /\ Books(O \cup {o}, L, Added(T, l.cycle_id, {"cc_open"}), n, k)
           /\ o \notin O
  <1> DEFINE c == l.cycle_id
             U == Added(T, c, {"cc_open"})
             Q == O \cup {o}
  <1>1. c \in Cycles /\ n \in Cycles /\ c < n /\ RowsOf(c, T) \subseteq LotRows
    BY DEF Books, Live, ShareLot
  <1>2. c \in 1 .. n - 1 /\ c \in 1 .. n
    BY <1>1 DEF Cycles
  <1>3. \A q \in O : q.symbol # l.symbol
    BY DEF Books, Paired
  <1>4. \A q \in O : q.cycle_id # c
    BY <1>3 DEF Books, Live
  <1>5. {"cc_open"} \in SUBSET LegTypes
    BY DEF LegTypes
  <1>6. RowsOf(c, U) = RowsOf(c, T) \cup {"cc_open"}
    BY <1>5, RowsAdded
  <1>7. ~Ended(c, T) /\ ~Ended(c, U)
    BY <1>1, <1>6, EndedByRows DEF LotRows, Ends, CallRows
  <1>8. k = Cardinality(Completed(U, n))
    <2>1. k = Cardinality(Completed(T, n))
      BY DEF Books
    <2> HIDE DEF U, c
    <2>2. QED
      BY <1>1, <1>2, <1>5, <1>7, <2>1, CountStays DEF U
  <1>9. IsFiniteSet(Q) /\ Q \subseteq OptionPosition /\ \A q \in Q : q.contracts > 0
    BY FS_AddElement DEF Books
  <1>10. Paired(Q, L)
    <2>1. \A q, q2 \in Q : q.symbol = q2.symbol => q = q2
      BY <1>3 DEF Books, Paired
    <2>2. QED
      BY <2>1 DEF Books, Paired
  <1>11. U \subseteq Cycles \X LegTypes
    BY <1>1, <1>5 DEF Books, Added
  <1>12. Live(Q, L, U, n)
    <2>1. \A d : d # c => RowsOf(d, U) = RowsOf(d, T)
      BY <1>5, RowsAdded
    <2>2. \A r \in U : r[1] < n
      BY <1>1 DEF Books, Live, Added
    <2>3. RowsOf(c, U) \subseteq LotRows
      BY <1>1, <1>6 DEF LotRows
    <2>4. \A q \in Q : q \in O \/ (q = o /\ q.cycle_id = c)
      OBVIOUS
    <2> HIDE DEF U, c, Q
    <2>5. \A m \in L : RowsOf(m.cycle_id, U) \subseteq LotRows
      BY <2>1, <2>3 DEF Books, Live
    <2>6. \A q \in Q : q.leg_type = "short_put" => RowsOf(q.cycle_id, U) \subseteq PutRows
      BY <1>4, <2>1, <2>4 DEF Books, Live
    <2>7. \A q, q2 \in Q : q.cycle_id = q2.cycle_id => q = q2
      BY <1>4, <2>4 DEF Books, Live
    <2>8. \A q \in Q, m \in L : q.cycle_id = m.cycle_id => q.symbol = m.symbol
      BY <2>4 DEF Books, Live, c
    <2>9. QED
      BY <1>1, <2>2, <2>4, <2>5, <2>6, <2>7, <2>8 DEF Books, Live
  <1>13. o \notin O
    BY <1>3
  <1> HIDE DEF U, c, Q
  <1>14. QED
    BY <1>8, <1>9, <1>10, <1>11, <1>12, <1>13 DEF Books, U, c, Q

\* A put is sold on a symbol that holds nothing, as a cycle of its own.
LEMMA PutWritten ==
    ASSUME NEW O, NEW L, NEW T, NEW n, NEW k, Books(O, L, T, n, k),
           NEW o \in OptionPosition, o.leg_type = "short_put", o.contracts > 0,
           o.cycle_id = n,
           \A q \in O : q.symbol # o.symbol, \A l \in L : l.symbol # o.symbol
    PROVE  /\ Books(O \cup {o}, L, Added(T, n, {"csp_open"}), n + 1, k)
           /\ o \notin O
  <1> DEFINE U == Added(T, n, {"csp_open"})
             Q == O \cup {o}
  <1>1. n \in Cycles /\ n + 1 \in Cycles /\ n < n + 1
    BY DEF Books, Cycles
  <1>2. /\ \A q \in O : q.cycle_id \in Nat /\ q.cycle_id < n /\ q.cycle_id < n + 1 /\ q.cycle_id # n
        /\ \A l \in L : l.cycle_id \in Nat /\ l.cycle_id < n /\ l.cycle_id < n + 1 /\ l.cycle_id # n
        /\ \A r \in T : r[1] \in Nat /\ r[1] < n /\ r[1] < n + 1
    BY <1>1 DEF Books, Live, OptionPosition, ShareLot, Cycles
  <1>3. RowsOf(n, T) = {} /\ RowsOf(n + 1, T) = {}
    BY <1>1, <1>2 DEF RowsOf, Cycles
  <1>4. {"csp_open"} \in SUBSET LegTypes
    BY DEF LegTypes
  <1>5. RowsOf(n, U) = {"csp_open"} /\ RowsOf(n + 1, U) = {}
    BY <1>1, <1>3, <1>4, RowsAdded DEF Cycles
  <1>6. ~Ended(n, T) /\ ~Ended(n, U) /\ ~Ended(n + 1, U)
    <2>1. ~Ended(n, T)
      BY <1>3, EndedByRows
    <2>2. ~Ended(n + 1, U)
      BY <1>5, EndedByRows
    <2>3. ~Ended(n, U)
      <3> HIDE DEF U
      <3>1. QED
        BY <1>5, EndedByRows DEF Ends
    <2>4. QED
      BY <2>1, <2>2, <2>3
  <1>7. Completed(U, n + 1) = Completed(T, n)
    <2>1. Completed(U, n) = Completed(T, n)
      <3>1. n \in 1 .. n
        BY <1>1 DEF Cycles
      <3>2. QED
        BY <1>1, <1>4, <1>6, <3>1, CountStays
    <2>2. \A d : d \in 1 .. n + 1 <=> (d \in 1 .. n \/ d = n + 1)
      BY <1>1 DEF Cycles
    <2>3. Completed(U, n + 1) = Completed(U, n)
      <3> HIDE DEF U
      <3>1. QED
        BY <1>6, <2>2 DEF Completed
    <2>4. QED
      BY <2>1, <2>3
  <1>8. IsFiniteSet(Q) /\ Q \subseteq OptionPosition /\ \A q \in Q : q.contracts > 0
    BY FS_AddElement DEF Books
  <1>9. Paired(Q, L)
    BY DEF Books, Paired
  <1>10. U \subseteq Cycles \X LegTypes
    BY <1>1, <1>4 DEF Books, Added
  <1>11. Live(Q, L, U, n + 1)
    <2>1. \A d : d # n => RowsOf(d, U) = RowsOf(d, T)
      BY <1>4, RowsAdded
    <2>2. \A r \in U : r[1] < n + 1
      BY <1>1, <1>2 DEF Added, Cycles
    <2>3. \A q \in Q : q \in O \/ (q = o /\ q.cycle_id = n)
      OBVIOUS
    <2>4. \A q \in Q : q.cycle_id < n + 1
      BY <1>1, <1>2, <2>3 DEF Cycles
    <2> HIDE DEF U, Q
    <2>5. \A l \in L : RowsOf(l.cycle_id, U) \subseteq LotRows
      BY <1>2, <2>1 DEF Books, Live
    <2>6. \A q \in Q : q.leg_type = "short_put" => RowsOf(q.cycle_id, U) \subseteq PutRows
      BY <1>2, <1>5, <2>1, <2>3 DEF Books, Live, PutRows
    <2>7. \A q, q2 \in Q : q.cycle_id = q2.cycle_id => q = q2
      BY <1>2, <2>3 DEF Books, Live
    <2>8. \A q \in Q, l \in L : q.cycle_id = l.cycle_id => q.symbol = l.symbol
      BY <1>2, <2>3 DEF Books, Live
    <2>9. \A l, m \in L : l.cycle_id = m.cycle_id => l = m
      BY DEF Books, Live
    <2>10. QED
      BY <1>2, <2>2, <2>4, <2>5, <2>6, <2>7, <2>8, <2>9 DEF Live
  <1>12. o \notin O
    OBVIOUS
  <1> HIDE DEF U, Q
  <1>13. QED
    BY <1>1, <1>7, <1>8, <1>9, <1>10, <1>11, <1>12 DEF Books, U, Q

-----------------------------------------------------------------------------
(* The steps *)

LEMMA Distributes == \A a, b, c \in Int : (a - b) * c = a * c - b * c
  OBVIOUS

LEMMA AtLeast == \A n, m \in Nat \ {0} : n * m \in Nat \ {0} /\ n <= n * m
  <1> SUFFICES ASSUME NEW n \in Nat \ {0}, NEW m \in Nat \ {0}
               PROVE  n * m \in Nat \ {0} /\ n <= n * m
    OBVIOUS
  <1>1. n * m = n + n * (m - 1) /\ n * (m - 1) \in Nat
    <2>1. m - 1 \in Nat
      OBVIOUS
    <2>2. n * (m - 1) \in Nat
      BY <2>1, ProductNat
    <2>3. QED
      BY <2>2
  <1>2. QED
    BY <1>1

LEMMA DivExact == \A n, m \in Nat : m > 0 => (n * m) \div m = n
  OBVIOUS

LEMMA Cancels == \A a, b \in Nat, n \in Nat \ {0} : a * n >= n * b => a >= b
  <1> SUFFICES ASSUME NEW a \in Nat, NEW b \in Nat, NEW n \in Nat \ {0}, a < b
               PROVE  a * n < n * b
    OBVIOUS
  <1>1. PICK d \in Nat \ {0} : b = a + d
    <2>1. b - a \in Nat \ {0} /\ b = a + (b - a)
      OBVIOUS
    <2>2. QED
      BY <2>1
  <1>2. n * b = a * n + n * d
    BY <1>1
  <1>3. n * d \in Nat \ {0} /\ a * n \in Nat
    OBVIOUS
  <1>4. QED
    BY <1>2, <1>3

\* The cash that legs, lots and what was realized account for.
Account(pnl, O, L) == starting_capital + pnl + Prem(O) - Worth(L)

LEMMA MoneyIsAccount == MoneyConserved <=> cash = Account(realized_pnl, options, shares)
  BY DEF MoneyConserved, Account, Prem, Worth

LEMMA AccountStep ==
    ASSUME IInv, NEW o \in options
    PROVE  /\ cash \in Int /\ realized_pnl \in Int
           /\ Prem(options) \in Int /\ Worth(shares) \in Int
           /\ Premium(o) \in Int /\ Covered(o) \in Nat
           /\ o \in OptionPosition
           /\ Prem(options \ {o}) = Prem(options) - Premium(o)
           /\ cash = Account(realized_pnl, options, shares)
  <1>1. options \in SUBSET OptionPosition /\ IsFiniteSet(options)
    BY DEF IInv, Books
  <1>2. shares \in SUBSET ShareLot /\ IsFiniteSet(shares)
    BY DEF IInv, Books
  <1>3. QED
    BY <1>1, <1>2, PremSum, WorthSum, LegTyped, MoneyIsAccount DEF IInv, TypeOK

\* The parts of the invariant put together again.
LEMMA Assemble ==
    ASSUME day' \in TradingDays, phase' \in Phases, spot' \in [Symbols -> Spots \cup {Null}],
           cash' \in Int, realized_pnl' \in Int, cycles_completed' \in Nat,
           todo' \subseteq options', phase' # "manage" => todo' = {},
           Books(options', shares', trades', next_cycle_id', cycles_completed'),
           cash' = Account(realized_pnl', options', shares')
    PROVE  IInv'
  <1>1. TypeOK'
    BY DEF TypeOK, Books
  <1>2. MoneyConserved'
    BY DEF Account, Prem, Worth, MoneyConserved
  <1>3. QED
    BY <1>1, <1>2 DEF IInv

LEMMA PutExpiresStep ==
    ASSUME IInv, NEW o \in options, PutExpires(o)
    PROVE  IInv'
  <1> USE DEF PutExpires, Settles, Record
  <1>1. Books(options', shares', trades', next_cycle_id', cycles_completed')
    BY PutGoes DEF IInv, TypeOK, Added
  <1>2. cash' = Account(realized_pnl', options', shares') /\ realized_pnl' \in Int
    BY AccountStep, Numbers DEF Account
  <1>3. QED
    BY <1>1, <1>2, Assemble DEF IInv, TypeOK, market

LEMMA CallExpiresStep ==
    ASSUME IInv, NEW o \in options, CallExpires(o)
    PROVE  IInv'
  <1> USE DEF CallExpires, Settles, Record
  <1>1. Books(options', shares', trades', next_cycle_id', cycles_completed')
    BY CallGoes DEF IInv, TypeOK, Added
  <1>2. cash' = Account(realized_pnl', options', shares') /\ realized_pnl' \in Int
    BY AccountStep, Numbers DEF Account
  <1>3. QED
    BY <1>1, <1>2, Assemble DEF IInv, TypeOK, market

LEMMA PutAssignedStep ==
    ASSUME IInv, NEW o \in options, PutAssigned(o)
    PROVE  IInv'
  <1> USE DEF PutAssigned, Settles, Record
  <1> DEFINE l == [cycle_id |-> o.cycle_id, symbol |-> o.symbol, shares |-> Covered(o),
                   cost_basis |-> o.strike, acquired_date |-> day]
  <1>1. /\ l \in ShareLot /\ l.cycle_id = o.cycle_id /\ l.symbol = o.symbol
        /\ l.shares = Covered(o) /\ l.cost_basis = o.strike
    BY AccountStep DEF IInv, TypeOK, ShareLot, OptionPosition
  <1>2. Lot(l)
    <2>1. o.contracts \in Nat \ {0}
      BY DEF IInv, Books, OptionPosition
    <2>2. \A n, m \in Nat \ {0} : n * m \in Nat \ {0} /\ n <= n * m
      BY AtLeast
    <2>3. o.contracts \in 1 .. Covered(o) /\ Covered(o) \in Nat
      BY <2>1, <2>2, Numbers DEF Covered
    <2> HIDE DEF PutAssigned, l
    <2>4. QED
      BY <1>1, <2>3 DEF Lot, Covered
  <1>3. Value(l) = o.strike * Covered(o) /\ Value(l) \in Int
    <2>1. o.strike \in Nat /\ Covered(o) \in Nat
      BY AccountStep DEF OptionPosition
    <2> HIDE DEF l
    <2>2. QED
      BY <1>1, <2>1, LotTyped DEF Value
  <1>4. shares' = shares \cup {l}
    OBVIOUS
  <1> HIDE DEF l
  <1>5. o.leg_type = "short_put" /\ Books(options, shares, trades, next_cycle_id, cycles_completed)
    BY DEF IInv
  <1>6. /\ options' = options \ {o} /\ cash' = cash - o.strike * Covered(o)
        /\ realized_pnl' = realized_pnl + Premium(o)
        /\ trades' = Added(trades, o.cycle_id, {"csp_assigned"})
        /\ next_cycle_id' = next_cycle_id /\ cycles_completed' = cycles_completed
    BY DEF Added
  <1>7. /\ Books(options \ {o}, shares \cup {l}, Added(trades, o.cycle_id, {"csp_assigned"}),
                 next_cycle_id, cycles_completed)
        /\ l \notin shares
    <2> HIDE DEF PutAssigned
    <2>1. QED
      BY <1>1, <1>2, <1>5, PutBecomesLot
  <1>8. Books(options', shares', trades', next_cycle_id', cycles_completed')
    <2> HIDE DEF PutAssigned
    <2>1. QED
      BY <1>4, <1>6, <1>7
  <1>9. Worth(shares \cup {l}) = Worth(shares) + Value(l)
    BY <1>1, <1>7, WorthSum DEF IInv, Books
  <1>10. /\ cash' = Account(realized_pnl', options', shares')
         /\ cash' \in Int /\ realized_pnl' \in Int
    <2> DEFINE paid == o.strike * Covered(o)
    <2>1. paid \in Int /\ cash' = cash - paid /\ Worth(shares') = Worth(shares) + paid
      BY <1>3, <1>4, <1>6, <1>9
    <2> HIDE DEF PutAssigned, paid
    <2>2. QED
      BY <1>6, <2>1, AccountStep, Numbers DEF Account
  <1>11. QED
    BY <1>8, <1>10, Assemble DEF IInv, TypeOK, market

LEMMA CallAssignedStep ==
    ASSUME IInv, NEW o \in options, CallAssigned(o)
    PROVE  IInv'
  <1>1. o.leg_type # "short_put" /\ o \in OptionPosition
    BY DEF CallAssigned, IInv, TypeOK
  <1>2. PICK l \in shares : l.symbol = o.symbol /\ l.shares = Covered(o)
    BY <1>1 DEF IInv, Books, Paired
  <1>3. /\ shares' = shares \ {l}
        /\ realized_pnl' = realized_pnl + Premium(o) + o.strike * Covered(o) - Value(l)
    BY <1>2, WholeLotTaken DEF CallAssigned
  <1>4. Books(options \ {o}, shares \ {l}, Added(trades, o.cycle_id, {"cc_assigned", "share_sold"}),
              next_cycle_id, cycles_completed + 1)
    <2>1. /\ Books(options, shares, trades, next_cycle_id, cycles_completed)
          /\ cycles_completed \in Nat
      BY DEF IInv, TypeOK
    <2>2. QED
      BY <1>1, <1>2, <2>1, CallDelivers
  <1>5. Books(options', shares', trades', next_cycle_id', cycles_completed')
    BY <1>3, <1>4 DEF CallAssigned, Record, Added
  <1>6. Worth(shares \ {l}) = Worth(shares) - Value(l) /\ Value(l) \in Int
    <2>1. shares \in SUBSET ShareLot /\ IsFiniteSet(shares)
      BY DEF IInv, Books
    <2>2. Value(l) \in Int
      BY <2>1, LotTyped
    <2>3. QED
      BY <2>1, <2>2, WorthSum
  <1>7. o.strike * Covered(o) \in Int
    <2>1. o.strike \in Nat /\ Covered(o) \in Nat
      BY <1>1, LegTyped DEF OptionPosition
    <2>2. QED
      BY <2>1, ProductNat
  <1>8. options' = options \ {o} /\ cash' = cash + o.strike * Covered(o)
    BY DEF CallAssigned
  <1> DEFINE paid == o.strike * Covered(o)
             worth == Value(l)
  <1>9. /\ cash' = Account(realized_pnl', options', shares')
        /\ cash' \in Int /\ realized_pnl' \in Int
    <2>1. /\ paid \in Int /\ worth \in Int /\ cash' = cash + paid
          /\ realized_pnl' = realized_pnl + Premium(o) + paid - worth
          /\ Worth(shares') = Worth(shares) - worth
      BY <1>3, <1>6, <1>7, <1>8
    <2> HIDE DEF paid, worth
    <2>2. QED
      BY <1>8, <2>1, AccountStep, Numbers DEF Account
  <1>10. QED
    BY <1>5, <1>9, Assemble DEF IInv, TypeOK, market, CallAssigned, Settles

LEMMA CloseStep ==
    ASSUME IInv, NEW o \in todo, NEW q \in Quotes(o.leg_type, o.strike, o.symbol), Close(o, q)
    PROVE  IInv'
  <1>1. o \in options /\ o \in OptionPosition /\ q \in Nat
    <2>1. o \in options /\ o \in OptionPosition
      BY DEF IInv, TypeOK
    <2>2. q \in Nat
      BY MarketAssumption DEF Quotes
    <2>3. QED
      BY <2>1, <2>2
  <1> DEFINE price == CloseCost(q) * Covered(o)
             fee == fee_per_contract * o.contracts
  <1>2. /\ options' = options \ {o} /\ shares' = shares
        /\ next_cycle_id' = next_cycle_id /\ market' = market
        /\ phase = "manage" /\ phase' = phase /\ todo' = todo \ {o}
        /\ cash' = cash - price - fee
        /\ realized_pnl' = realized_pnl + ClosePnl(o, q)
    BY DEF Close, Managed
  <1>3. /\ Books(options', shares', trades', next_cycle_id', cycles_completed')
        /\ cycles_completed' \in Nat
    <2>1. /\ cycles_completed \in Nat
          /\ Books(options, shares, trades, next_cycle_id, cycles_completed)
      BY DEF IInv, TypeOK
    <2>2. CASE o.leg_type = "short_put"
      <3>1. LotsFor(o.symbol) = {}
        BY <1>1, <2>1, <2>2 DEF Books, Paired, LotsFor
      <3>2. cycles_completed' = cycles_completed + 1
        BY <2>2, <3>1, NoLots DEF Close
      <3>3. trades' = Added(trades, o.cycle_id, {"csp_close"})
        BY <2>2 DEF Added, Close, Record
      <3>4. Books(options \ {o}, shares, Added(trades, o.cycle_id, {"csp_close"}),
                  next_cycle_id, cycles_completed + 1)
        BY <1>1, <2>1, <2>2, PutGoes
      <3>5. QED
        BY <1>2, <2>1, <3>2, <3>3, <3>4
    <2>3. CASE o.leg_type # "short_put"
      <3>1. trades' = Added(trades, o.cycle_id, {"cc_close"}) /\ cycles_completed' = cycles_completed
        BY <2>3 DEF Added, Close, Record
      <3>2. Books(options \ {o}, shares, Added(trades, o.cycle_id, {"cc_close"}),
                  next_cycle_id, cycles_completed)
        BY <1>1, <2>1, <2>3, CallGoes
      <3>3. QED
        BY <1>2, <2>1, <3>1, <3>2
    <2>4. QED
      BY <2>2, <2>3
  <1>4. /\ o.entry_premium \in Int /\ o.fees_open \in Int /\ o.contracts \in Nat
        /\ CloseCost(q) \in Nat /\ Covered(o) \in Nat
    BY <1>1, Numbers, LegTyped DEF CloseCost, OptionPosition
  <1>5. price \in Int /\ fee \in Int
    BY <1>4, Numbers, ProductNat
  <1>6. ClosePnl(o, q) = Premium(o) - price - fee
    <2>1. (o.entry_premium - CloseCost(q)) * Covered(o) = o.entry_premium * Covered(o) - price
      BY <1>4, Distributes
    <2>2. o.entry_premium * Covered(o) \in Int
      BY <1>4
    <2>3. ClosePnl(o, q) = (o.entry_premium - CloseCost(q)) * Covered(o) - o.fees_open - fee
      BY DEF ClosePnl
    <2> HIDE DEF price, fee
    <2>4. QED
      BY <1>4, <1>5, <2>1, <2>2, <2>3 DEF Premium
  <1> HIDE DEF price, fee
  <1>7. /\ cash' = Account(realized_pnl', options', shares')
        /\ cash' \in Int /\ realized_pnl' \in Int
    BY <1>1, <1>2, <1>5, <1>6, AccountStep, Numbers DEF Account
  <1>8. todo' \subseteq options'
    BY <1>2 DEF IInv, TypeOK
  <1>9. QED
    BY <1>2, <1>3, <1>7, <1>8, Assemble DEF IInv, TypeOK, market

\* Selling a leg: its premium is what the cash and the books both gain.
LEMMA OpensAccount ==
    ASSUME IInv, NEW o \in OptionPosition \ options, Opens(o),
           UNCHANGED <<shares, realized_pnl>>
    PROVE  cash' = Account(realized_pnl', options', shares') /\ cash' \in Int
  <1>1. Prem(options \cup {o}) = Prem(options) + Premium(o) /\ Prem(options) \in Int
    BY PremSum DEF IInv, Books
  <1>2. Worth(shares) \in Int
    BY WorthSum DEF IInv, Books
  <1>3. Premium(o) \in Int
    BY LegTyped
  <1>4. cash = Account(realized_pnl, options, shares) /\ cash \in Int /\ realized_pnl \in Int
    BY MoneyIsAccount DEF IInv, TypeOK
  <1>5. QED
    BY <1>1, <1>2, <1>3, <1>4, Numbers DEF Account, Opens

\* Every leg that is sold is a row of the portfolio.
LEMMA LegIsTyped ==
    ASSUME IInv, NEW cycle \in Cycles, NEW s \in Symbols,
           NEW type \in {"short_put", "covered_call"}, NEW n \in Nat, NEW strike \in Strikes,
           NEW term \in Terms, NEW quote \in Mids, Credit(quote) > 0
    PROVE  /\ Leg(cycle, s, type, n, strike, term, quote) \in OptionPosition
           /\ Leg(cycle, s, type, n, strike, term, quote).cycle_id = cycle
           /\ Leg(cycle, s, type, n, strike, term, quote).symbol = s
           /\ Leg(cycle, s, type, n, strike, term, quote).leg_type = type
           /\ Leg(cycle, s, type, n, strike, term, quote).contracts = n
           /\ Leg(cycle, s, type, n, strike, term, quote).strike = strike
  <1>1. strike \in Nat /\ day + term \in Nat
    BY MarketAssumption DEF IInv, TypeOK
  <1>2. Credit(quote) \in Nat
    BY MarketAssumption, Numbers DEF Credit
  <1>3. fee_per_contract * n \in Nat
    BY Numbers, ProductNat
  <1>4. QED
    BY <1>1, <1>2, <1>3 DEF Leg, OptionPosition

LEMMA SellCallStep ==
    ASSUME IInv, NEW s \in Symbols, NEW strike \in Strikes, NEW term \in Terms,
           NEW quote \in Mids, SellCall(s, strike, term, quote)
    PROVE  IInv'
  <1> USE DEF SellCall, Record
  <1>1. PICK l \in LotsFor(s) : TRUE
    OBVIOUS
  <1>2. /\ l \in shares /\ l.symbol = s /\ LotsFor(s) = {l}
        /\ SharesForSymbol(s) = l.shares /\ BasisFor(s) = Value(l)
    BY <1>1, OneLot DEF LotsFor
  <1>3. PICK n \in Nat \ {0} : l.shares = n * CONTRACTS_MULTIPLIER
    BY <1>2 DEF IInv, Books, Lot
  <1>4. SharesForSymbol(s) \div CONTRACTS_MULTIPLIER = n
    BY <1>2, <1>3, DivExact, Numbers
  <1>5. (CHOOSE m \in LotsFor(s) : \A k \in LotsFor(s) : m.acquired_date <= k.acquired_date) = l
    <2>1. l.acquired_date \in Nat
      BY <1>2, MarketAssumption DEF IInv, TypeOK, ShareLot
    <2>2. QED
      BY <1>2, <2>1
  <1>6. l \in ShareLot /\ l.cycle_id \in Cycles /\ l.cost_basis \in Nat /\ l.shares \in Nat \ {0}
    <2>1. l \in ShareLot /\ l.cycle_id \in Cycles /\ l.cost_basis \in Nat /\ l.shares \in Nat
      BY <1>2 DEF IInv, TypeOK, ShareLot
    <2>2. n * CONTRACTS_MULTIPLIER # 0
      BY Numbers
    <2>3. QED
      BY <1>3, <2>1, <2>2
  <1>7. strike >= l.cost_basis
    <2>1. strike \in Nat
      BY MarketAssumption
    <2>2. strike * l.shares >= l.shares * l.cost_basis
      BY <1>2 DEF CallStrike, Value
    <2>3. QED
      BY <1>6, <2>1, <2>2, Cancels
  <1> DEFINE o == Leg(l.cycle_id, s, "covered_call", n, strike, term, quote)
  <1>8. /\ o \in OptionPosition /\ o.cycle_id = l.cycle_id /\ o.symbol = s
        /\ o.leg_type = "covered_call" /\ o.contracts = n /\ o.strike = strike
    BY <1>6, LegIsTyped
  <1>9. Opens(o) /\ trades' = Added(trades, l.cycle_id, {"cc_open"})
    BY <1>4, <1>5 DEF Added
  <1> HIDE DEF o
  <1>10. Covered(o) = l.shares /\ o.contracts > 0
    BY <1>3, <1>8 DEF Covered
  <1>11. \A q \in options : q.leg_type # "short_put" => q.symbol # s
    BY DEF Uncovered, Calls, IInv, TypeOK, OptionPosition
  <1>12. /\ Books(options', shares', trades', next_cycle_id', cycles_completed')
         /\ o \notin options
    <2>1. o.strike >= l.cost_basis
      BY <1>7, <1>8
    <2>2. /\ Books(options \cup {o}, shares, Added(trades, l.cycle_id, {"cc_open"}),
                   next_cycle_id, cycles_completed)
          /\ o \notin options
      <3> HIDE DEF SellCall
      <3>1. QED
        BY <1>2, <1>8, <1>10, <1>11, <2>1, CallWritten DEF IInv
    <2>3. QED
      BY <1>9, <2>2 DEF Opens
  <1>13. cash' = Account(realized_pnl', options', shares') /\ cash' \in Int
    BY <1>8, <1>9, <1>12, OpensAccount
  <1>14. todo' \subseteq options'
    BY <1>9 DEF Opens, IInv, TypeOK
  <1>15. QED
    BY <1>12, <1>13, <1>14, Assemble DEF IInv, TypeOK, market

LEMMA SellPutStep ==
    ASSUME IInv, NEW s \in Symbols, NEW strike \in Strikes, NEW term \in Terms,
           NEW quote \in Mids, SellPut(s, strike, term, quote)
    PROVE  IInv'
  <1> USE DEF SellPut, Record
  <1> DEFINE o == Leg(next_cycle_id, s, "short_put", contracts_per_position, strike, term, quote)
  <1>1. /\ o \in OptionPosition /\ o.cycle_id = next_cycle_id /\ o.symbol = s
        /\ o.leg_type = "short_put" /\ o.contracts = contracts_per_position
    BY LegIsTyped, Numbers DEF IInv, TypeOK
  <1>2. Opens(o) /\ trades' = Added(trades, next_cycle_id, {"csp_open"})
    BY DEF Added
  <1> HIDE DEF o
  <1>3. o.contracts > 0
    BY <1>1, Numbers
  <1>4. (\A q \in options : q.symbol # s) /\ (\A l \in shares : l.symbol # s)
    BY DEF OpenSymbols
  <1>5. /\ Books(options \cup {o}, shares, Added(trades, next_cycle_id, {"csp_open"}),
                 next_cycle_id + 1, cycles_completed)
        /\ o \notin options
    BY <1>1, <1>3, <1>4, PutWritten DEF IInv
  <1>6. cash' = Account(realized_pnl', options', shares') /\ cash' \in Int
    BY <1>1, <1>2, <1>5, OpensAccount
  <1>7. todo' \subseteq options'
    BY <1>2 DEF Opens, IInv, TypeOK
  <1>8. QED
    BY <1>2, <1>5, <1>6, <1>7, Assemble DEF IInv, TypeOK, market, Opens

\* The steps that only move the loop on.
LEMMA QuietStep ==
    ASSUME IInv, Settled \/ AllManaged \/ CallsWritten \/ NextDay \/ \E o \in todo : Leave(o)
    PROVE  IInv'
  <1>1. UNCHANGED <<portfolio, cycles_completed, trades>>
    BY DEF Settled, AllManaged, CallsWritten, NextDay, Leave
  <1>2. cash = Account(realized_pnl, options, shares)
    BY MoneyIsAccount DEF IInv
  <1>3. day' \in TradingDays /\ phase' \in Phases /\ spot' \in [Symbols -> Spots \cup {Null}]
    BY DEF IInv, TypeOK, Phases, Settled, AllManaged, CallsWritten, NextDay, Leave, market
  <1>4. todo' \subseteq options' /\ (phase' # "manage" => todo' = {})
    BY DEF IInv, TypeOK, Settled, AllManaged, CallsWritten, NextDay, Leave, Managed, portfolio
  <1>5. QED
    BY <1>1, <1>2, <1>3, <1>4, Assemble DEF IInv, TypeOK, portfolio

LEMMA InitIInv == Init => IInv
  <1> SUFFICES ASSUME Init PROVE IInv
    OBVIOUS
  <1> USE DEF Init
  <1>1. Completed({}, 1) = {}
    BY DEF Completed, Ended
  <1>2. Books({}, {}, {}, 1, 0)
    BY <1>1, FS_EmptySet DEF Books, Paired, Live, Cycles
  <1>3. TypeOK
    BY Numbers DEF TypeOK, Phases, Cycles
  <1>4. MoneyConserved
    <2>1. Prem({}) = 0
      BY SumFunctionEmpty DEF Prem
    <2>2. Worth({}) = 0
      BY SumFunctionEmpty DEF Worth
    <2>3. cash = Account(realized_pnl, options, shares)
      BY <2>1, <2>2, Numbers DEF Account
    <2>4. QED
      BY <2>3, MoneyIsAccount
  <1>5. QED
    BY <1>2, <1>3, <1>4 DEF IInv

LEMMA StutterStep ==
    ASSUME IInv, UNCHANGED vars
    PROVE  IInv'
  <1>1. cash = Account(realized_pnl, options, shares)
    BY MoneyIsAccount DEF IInv
  <1>2. QED
    BY <1>1, Assemble DEF IInv, TypeOK, vars, market, portfolio

LEMMA Inductive == Spec => []IInv
  <1>1. ASSUME IInv, [Next]_vars PROVE IInv'
    <2>1. CASE Settlement
      BY <1>1, <2>1, PutExpiresStep, PutAssignedStep, CallExpiresStep, CallAssignedStep, QuietStep
         DEF Settlement
    <2>2. CASE Management
      BY <1>1, <2>2, CloseStep, QuietStep DEF Management
    <2>3. CASE Openings
      BY <1>1, <2>3, SellCallStep, SellPutStep, QuietStep DEF Openings
    <2>4. CASE NextDay
      BY <1>1, <2>4, QuietStep
    <2>5. CASE UNCHANGED vars
      BY <1>1, <2>5, StutterStep
    <2>6. QED
      BY <1>1, <2>1, <2>2, <2>3, <2>4, <2>5 DEF Next
  <1>2. QED
    BY InitIInv, <1>1, PTL DEF Spec

-----------------------------------------------------------------------------

\* Types hold: in particular the books hold legs, lots and trade rows of known
\* kinds, and the management loop only looks at legs that are still open.
THEOREM TypeCorrect == Spec => []TypeOK
  <1>1. IInv => TypeOK
    BY DEF IInv
  <1>2. QED
    BY Inductive, <1>1, PTL

\* Cash is what was paid in, what was realized, the premiums of the open legs,
\* less what the shares cost, on every step of every run (_settle_expirations,
\* _apply_management_rules, _open_new_csps and the portfolio's cash).
THEOREM CashIsBooked == Spec => []MoneyConserved
  <1>1. IInv => MoneyConserved
    BY DEF IInv
  <1>2. QED
    BY Inductive, <1>1, PTL

\* A symbol runs one cycle: a put alone, or one lot that at most one call covers
\* exactly, which _take_lots and _write_covered_calls rely on.
THEOREM OneCycle == Spec => []OneCyclePerSymbol
  <1>1. ASSUME IInv, NEW s \in Symbols, NEW S,
               S = OptionsFor(s) \/ S = LotsFor(s)
        PROVE  Cardinality(S) <= 1
    <2>1. \A x, y \in S : x = y
      BY <1>1 DEF IInv, Books, Paired, OptionsFor, LotsFor
    <2>2. CASE S = {}
      BY <2>2, FS_EmptySet
    <2>3. CASE S # {}
      <3>1. PICK x \in S : TRUE
        BY <2>3
      <3>2. S = {x}
        BY <2>1, <3>1
      <3>3. QED
        BY <3>2, FS_Singleton
    <2>4. QED
      BY <2>2, <2>3
  <1>2. ASSUME IInv, NEW s \in Symbols, NEW o \in OptionsFor(s)
        PROVE  IF o.leg_type = "short_put" THEN LotsFor(s) = {}
               ELSE \E l \in LotsFor(s) : l.shares = Covered(o) /\ l.cycle_id = o.cycle_id
    BY <1>2 DEF IInv, Books, Paired, OptionsFor, LotsFor
  <1>3. IInv => OneCyclePerSymbol
    BY <1>1, <1>2 DEF OneCyclePerSymbol
  <1>4. QED
    BY Inductive, <1>3, PTL

\* No open call can take shares away below their cost basis: the floor that
\* select_call_strike puts under a strike still holds when the call delivers.
THEOREM NoCallBelowCost == Spec => []CallsAboveBasis
  <1>1. ASSUME IInv, NEW o \in Calls, NEW l \in LotsFor(o.symbol)
        PROVE  o.strike >= l.cost_basis
    BY <1>1 DEF IInv, Books, Paired, Calls, LotsFor
  <1>2. IInv => CallsAboveBasis
    BY <1>1 DEF CallsAboveBasis
  <1>3. QED
    BY Inductive, <1>2, PTL

\* The completed cycles that api/backtest.py and metrics.py count from the trade
\* rows are those that the simulator counted while it ran.
THEOREM CountMirrored == Spec => []CyclesMirrored
  <1>1. CountCompletedCycles = Cardinality(Completed(trades, next_cycle_id))
    <2> DEFINE With(types) == {c \in 1 .. next_cycle_id : \E t \in types : <<c, t>> \in trades}
               Derived == With({"csp_expired", "cc_assigned"}) \cup (With({"csp_close"}) \ With(CallRows))
    <2>1. Derived = Completed(trades, next_cycle_id)
      BY DEF Completed, Ended, Ends
    <2>2. CountCompletedCycles = Cardinality(Derived)
      BY DEF CountCompletedCycles, CallRows
    <2>3. QED
      BY <2>1, <2>2
  <1>2. IInv => CyclesMirrored
    BY <1>1 DEF IInv, Books, CyclesMirrored
  <1>3. QED
    BY Inductive, <1>2, PTL

=============================================================================
