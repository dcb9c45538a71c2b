---------------------------- MODULE WheelBacktest ----------------------------
(***************************************************************************)
(* The wheel simulator: the day loop of backtest/simulator.py over the     *)
(* portfolio of backtest/portfolio.py.  A day settles what has expired,    *)
(* applies the management rules, writes calls on uncovered shares, sells   *)
(* puts on the screener's candidates and records an equity row.            *)
(*                                                                         *)
(* What the market and the screener say is a free choice: each day's       *)
(* closes, each quote, the listed expirations and strikes, the candidates  *)
(* and their order.  Prices are integers; a call is never quoted above its *)
(* underlying nor a put above its strike.  The meta and dates of a trade   *)
(* row, and the equity row, are read by nobody in here and left out.       *)
(***************************************************************************)
EXTENDS Integers, FiniteSets, Functions

CONSTANTS
    Symbols,                  \* the universe
    Spots,                    \* closes
    Strikes,                  \* strikes that a chain or the grid may offer
    Mids,                     \* option quotes
    TradingDays,              \* the calendar days of the window that are traded
    Terms,                    \* days to expiration that may be selected
    starting_capital,
    max_concurrent_positions,
    profit_take_percent,
    manage_dte,
    fee_per_contract,
    slippage_per_share,
    contracts_per_position,
    min_dte_for_entry,
    hold_losers_to_expiry,
    CONTRACTS_MULTIPLIER,
    Null

ASSUME MarketAssumption ==
    /\ Spots \subseteq Nat \ {0}
    /\ Strikes \subseteq Nat \ {0}
    /\ Mids \subseteq Nat
    /\ Terms \subseteq Nat
    /\ TradingDays \subseteq Nat /\ TradingDays # {}
    /\ Null \notin Int
ASSUME ParamsAssumption ==
    /\ {starting_capital, max_concurrent_positions, profit_take_percent,
        manage_dte, fee_per_contract, slippage_per_share} \subseteq Nat
    /\ contracts_per_position \in Nat \ {0}
    /\ min_dte_for_entry \in Nat \ {0}
    /\ hold_losers_to_expiry \in BOOLEAN
    /\ CONTRACTS_MULTIPLIER \in Nat \ {0}

Phases == {"settle", "manage", "calls", "puts"}
Cycles == Nat \ {0}
LegTypes == {"csp_open", "csp_close", "csp_assigned", "csp_expired",
             "cc_open", "cc_close", "cc_assigned", "cc_expired", "share_sold"}

OptionPosition ==
    [cycle_id : Cycles, symbol : Symbols, leg_type : {"short_put", "covered_call"},
     contracts : Nat, strike : Nat, expiration : Nat, entry_premium : Nat, fees_open : Nat]

ShareLot ==
    [cycle_id : Cycles, symbol : Symbols, shares : Nat, cost_basis : Nat,
     acquired_date : TradingDays]

VARIABLES
    day, phase,        \* where the loop is
    todo,              \* open legs the management loop has not looked at yet
    spot,              \* latest close of each symbol, Null before its first bar
    cash,
    options,           \* open option legs
    shares,            \* share lots
    next_cycle_id,
    realized_pnl,
    cycles_completed,
    trades             \* leg types of the buffered trade rows, by cycle

market == <<day, spot>>
portfolio == <<cash, options, shares, next_cycle_id, realized_pnl>>
vars == <<market, phase, todo, portfolio, cycles_completed, trades>>

-----------------------------------------------------------------------------
(* Portfolio *)

Covered(o) == o.contracts * CONTRACTS_MULTIPLIER

Collateral(o) == IF o.leg_type = "short_put" THEN o.strike * Covered(o) ELSE 0

CollateralLocked == SumFunction([o \in options |-> Collateral(o)])

FreeCash == cash - CollateralLocked

Puts == {o \in options : o.leg_type = "short_put"}
Calls == {o \in options : o.leg_type = "covered_call"}
OptionsFor(s) == {o \in options : o.symbol = s}
LotsFor(s) == {l \in shares : l.symbol = s}

SharesForSymbol(s) == SumFunction([l \in LotsFor(s) |-> l.shares])

Value(l) == l.shares * l.cost_basis
BasisFor(s) == SumFunction([l \in LotsFor(s) |-> Value(l)])

OpenSymbols == {o.symbol : o \in options} \cup {l.symbol : l \in shares}

\* Each symbol with an open leg counts once, and so does one with shares only.
TotalOpenPositions == Cardinality(OpenSymbols)

\* _take_lots: whole lots first in, first out; the last one may be split.  (The
\* code then removes a lot it does not hold and raises; OneCyclePerSymbol says
\* that this is never reached.)
TakenFrom(l, needed) ==
    LET before == {m \in LotsFor(l.symbol) : m.acquired_date < l.acquired_date}
        left == needed - SumFunction([m \in before |-> m.shares])
    IN  IF left <= 0 THEN 0 ELSE IF left < l.shares THEN left ELSE l.shares

\* The lots that stay when needed shares of symbol s are taken.
LotsWithout(s, needed) ==
    (shares \ LotsFor(s)) \cup
    {[l EXCEPT !.shares = @ - TakenFrom(l, needed)] :
        l \in {m \in LotsFor(s) : TakenFrom(m, needed) < m.shares}}

\* What the taken shares cost.
BasisTaken(s, needed) ==
    SumFunction([l \in LotsFor(s) |-> TakenFrom(l, needed) * l.cost_basis])

SharesTaken(s, needed) ==
    SumFunction([l \in LotsFor(s) |-> TakenFrom(l, needed)])

Record(cycle, leg_types) == trades' = trades \cup ({cycle} \X leg_types)

Premium(o) == o.entry_premium * Covered(o) - o.fees_open

-----------------------------------------------------------------------------

Init ==
    /\ day \in TradingDays /\ \A d \in TradingDays : day <= d
    /\ phase = "settle"
    /\ todo = {}
    /\ spot \in [Symbols -> Spots \cup {Null}]
    /\ cash = starting_capital
    /\ options = {}
    /\ shares = {}
    /\ next_cycle_id = 1
    /\ realized_pnl = 0
    /\ cycles_completed = 0
    /\ trades = {}

\* _settle_expirations: a symbol that once had a close has a latest close for
\* ever, so the last known spot adds nothing to the day's.
Expired(o) == o.expiration <= day /\ spot[o.symbol] # Null

Settles(o) == phase = "settle" /\ o \in options /\ Expired(o)

PutExpires(o) ==
    /\ Settles(o)
    /\ o.leg_type = "short_put"
    /\ spot[o.symbol] >= o.strike
    /\ options' = options \ {o}
    /\ realized_pnl' = realized_pnl + Premium(o)
    /\ cycles_completed' = cycles_completed + 1
    /\ Record(o.cycle_id, {"csp_expired"})
    /\ UNCHANGED <<market, phase, todo, cash, shares, next_cycle_id>>

\* Mutant: assignment is taken for the end of the cycle.
PutAssignedEndsCycle(o) ==
    /\ Settles(o)
    /\ o.leg_type = "short_put"
    /\ spot[o.symbol] < o.strike
    /\ options' = options \ {o}
    /\ cash' = cash - o.strike * Covered(o)
    /\ shares' = shares \cup
          {[cycle_id |-> o.cycle_id, symbol |-> o.symbol, shares |-> Covered(o),
            cost_basis |-> o.strike, acquired_date |-> day]}
    /\ realized_pnl' = realized_pnl + Premium(o)
    /\ cycles_completed' = cycles_completed + 1
    /\ Record(o.cycle_id, {"csp_assigned"})
    /\ UNCHANGED <<market, phase, todo, next_cycle_id>>

PutAssigned(o) ==
    /\ Settles(o)
    /\ o.leg_type = "short_put"
    /\ spot[o.symbol] < o.strike
    /\ options' = options \ {o}
    /\ cash' = cash - o.strike * Covered(o)
    /\ shares' = shares \cup
          {[cycle_id |-> o.cycle_id, symbol |-> o.symbol, shares |-> Covered(o),
            cost_basis |-> o.strike, acquired_date |-> day]}
    /\ realized_pnl' = realized_pnl + Premium(o)
    /\ Record(o.cycle_id, {"csp_assigned"})
    /\ UNCHANGED <<market, phase, todo, next_cycle_id, cycles_completed>>

CallExpires(o) ==
    /\ Settles(o)
    /\ o.leg_type = "covered_call"
    /\ spot[o.symbol] <= o.strike
    /\ options' = options \ {o}
    /\ realized_pnl' = realized_pnl + Premium(o)
    /\ Record(o.cycle_id, {"cc_expired"})
    /\ UNCHANGED <<market, phase, todo, cash, shares, next_cycle_id, cycles_completed>>

\* The proceeds follow the call's contracts, the share P&L the lots found.
CallAssigned(o) ==
    /\ Settles(o)
    /\ o.leg_type = "covered_call"
    /\ spot[o.symbol] > o.strike
    /\ options' = options \ {o}
    /\ cash' = cash + o.strike * Covered(o)
    /\ shares' = LotsWithout(o.symbol, Covered(o))
    /\ realized_pnl' = realized_pnl + Premium(o)
          + o.strike * SharesTaken(o.symbol, Covered(o)) - BasisTaken(o.symbol, Covered(o))
    /\ cycles_completed' = cycles_completed + 1
    /\ Record(o.cycle_id, {"cc_assigned", "share_sold"})
    /\ UNCHANGED <<market, phase, todo, next_cycle_id>>

Settled ==
    /\ phase = "settle"
    /\ \A o \in options : ~Expired(o)
    /\ phase' = "manage"
    /\ todo' = options
    /\ UNCHANGED <<market, portfolio, cycles_completed, trades>>

-----------------------------------------------------------------------------
(* _apply_management_rules, one open leg after the other *)

Quotes(leg_type, strike, s) ==
    {q \in Mids : q <= IF leg_type = "short_put" THEN strike ELSE spot[s]}

CloseCost(quote) == quote + slippage_per_share

ClosePnl(o, quote) ==
    (o.entry_premium - CloseCost(quote)) * Covered(o)
       - o.fees_open - fee_per_contract * o.contracts

\* pct_profit >= profit_take_pct
TakesProfit(o, quote) ==
    o.entry_premium > 0 /\
    (o.entry_premium - CloseCost(quote)) * 100 >= profit_take_percent * o.entry_premium

Rule(o, quote) ==
    \/ TakesProfit(o, quote)
    \/ /\ o.expiration - day <= manage_dte
       /\ hold_losers_to_expiry => ClosePnl(o, quote) >= 0

Managed(o) == todo' = todo \ {o}

Leave(o) ==
    /\ phase = "manage"
    /\ o \in todo
    /\ spot[o.symbol] = Null \/ \E q \in Quotes(o.leg_type, o.strike, o.symbol) : ~Rule(o, q)
    /\ Managed(o)
    /\ UNCHANGED <<market, phase, portfolio, cycles_completed, trades>>

\* Mutant: the commission of the closing trade is booked but not paid.
CloseWithoutFee(o, quote) ==
    /\ phase = "manage"
    /\ o \in todo
    /\ spot[o.symbol] # Null
    /\ Rule(o, quote)
    /\ options' = options \ {o}
    /\ cash' = cash - CloseCost(quote) * Covered(o)
    /\ realized_pnl' = realized_pnl + ClosePnl(o, quote)
    /\ cycles_completed' =
          IF o.leg_type = "short_put" /\ SharesForSymbol(o.symbol) = 0
          THEN cycles_completed + 1 ELSE cycles_completed
    /\ Record(o.cycle_id, {IF o.leg_type = "short_put" THEN "csp_close" ELSE "cc_close"})
    /\ Managed(o)
    /\ UNCHANGED <<market, phase, shares, next_cycle_id>>

\* _close_option_for_credit
Close(o, quote) ==
    /\ phase = "manage"
    /\ o \in todo
    /\ spot[o.symbol] # Null
    /\ Rule(o, quote)
    /\ options' = options \ {o}
    /\ cash' = cash - CloseCost(quote) * Covered(o) - fee_per_contract * o.contracts
    /\ realized_pnl' = realized_pnl + ClosePnl(o, quote)
    /\ cycles_completed' =
          IF o.leg_type = "short_put" /\ SharesForSymbol(o.symbol) = 0
          THEN cycles_completed + 1 ELSE cycles_completed
    /\ Record(o.cycle_id, {IF o.leg_type = "short_put" THEN "csp_close" ELSE "cc_close"})
    /\ Managed(o)
    /\ UNCHANGED <<market, phase, shares, next_cycle_id>>

AllManaged ==
    /\ phase = "manage"
    /\ todo = {}
    /\ phase' = "calls"
    /\ UNCHANGED <<market, todo, portfolio, cycles_completed, trades>>

-----------------------------------------------------------------------------
(* Openings.  A candidate may be passed over at any time: no listed         *)
(* expiration is far enough away, or the quote leaves no credit.            *)

Credit(quote) == quote - slippage_per_share

Opens(o) ==
    /\ options' = options \cup {o}
    /\ cash' = cash + Premium(o)

Leg(cycle, s, leg_type, contracts, strike, term, quote) ==
    [cycle_id |-> cycle, symbol |-> s, leg_type |-> leg_type, contracts |-> contracts,
     strike |-> strike, expiration |-> day + term, entry_premium |-> Credit(quote),
     fees_open |-> fee_per_contract * contracts]

\* Mutant: calls are struck above the market, whatever the shares cost.
StrikeAboveSpot(s, strike) == strike >= spot[s]

\* select_call_strike: at or above the weighted cost basis and the market.
CallStrike(s, strike) ==
    /\ strike >= spot[s]
    /\ strike * SharesForSymbol(s) >= BasisFor(s)

\* Mutant: a symbol that has a call may get another.
UncoveredOrNot(s) == TRUE

Uncovered(s) == \A o \in Calls : o.symbol # s

SellCall(s, strike, term, quote) ==
    LET contracts == SharesForSymbol(s) \div CONTRACTS_MULTIPLIER
        first == CHOOSE l \in LotsFor(s) : \A m \in LotsFor(s) : l.acquired_date <= m.acquired_date
    IN  /\ phase = "calls"
        /\ LotsFor(s) # {}
        /\ Uncovered(s)
        /\ spot[s] # Null
        /\ contracts > 0
        /\ term >= min_dte_for_entry
        /\ CallStrike(s, strike)
        /\ quote \in Quotes("covered_call", strike, s)
        /\ Credit(quote) > 0
        /\ Opens(Leg(first.cycle_id, s, "covered_call", contracts, strike, term, quote))
        /\ Record(first.cycle_id, {"cc_open"})
        /\ UNCHANGED <<market, phase, todo, shares, next_cycle_id, realized_pnl, cycles_completed>>

CallsWritten ==
    /\ phase = "calls"
    /\ phase' = "puts"
    /\ UNCHANGED <<market, todo, portfolio, cycles_completed, trades>>

Room == TotalOpenPositions < max_concurrent_positions

SellPut(s, strike, term, quote) ==
    /\ phase = "puts"
    /\ Room
    /\ s \notin OpenSymbols
    /\ spot[s] # Null
    /\ term >= min_dte_for_entry
    /\ FreeCash >= strike * CONTRACTS_MULTIPLIER * contracts_per_position
    /\ quote \in Quotes("short_put", strike, s)
    /\ Credit(quote) > 0
    /\ Opens(Leg(next_cycle_id, s, "short_put", contracts_per_position, strike, term, quote))
    /\ next_cycle_id' = next_cycle_id + 1
    /\ Record(next_cycle_id, {"csp_open"})
    /\ UNCHANGED <<market, phase, todo, shares, realized_pnl, cycles_completed>>

\* Mutant: every calendar day is stepped through.
NextCalendarDay ==
    /\ phase = "puts"
    /\ \E d \in TradingDays : d > day
    /\ day' = day + 1
    /\ spot' \in [Symbols -> Spots \cup {Null}]
    /\ \A s \in Symbols : spot[s] # Null => spot'[s] # Null
    /\ phase' = "settle"
    /\ UNCHANGED <<todo, portfolio, cycles_completed, trades>>

\* The equity row is written, and the next trading day's closes are loaded.
NextDay ==
    /\ phase = "puts"
    /\ day' \in {d \in TradingDays : d > day}
    /\ \A d \in TradingDays : d > day => day' <= d
    /\ spot' \in [Symbols -> Spots \cup {Null}]
    /\ \A s \in Symbols : spot[s] # Null => spot'[s] # Null
    /\ phase' = "settle"
    /\ UNCHANGED <<todo, portfolio, cycles_completed, trades>>

Settlement ==
    \/ \E o \in options : PutExpires(o) \/ PutAssigned(o) \/ CallExpires(o) \/ CallAssigned(o)
    \/ Settled

Management ==
    \/ \E o \in todo :
          \/ Leave(o)
          \/ \E q \in Quotes(o.leg_type, o.strike, o.symbol) : Close(o, q)
    \/ AllManaged

Openings ==
    \/ \E s \in Symbols, strike \in Strikes, term \in Terms, q \in Mids :
          SellCall(s, strike, term, q) \/ SellPut(s, strike, term, q)
    \/ CallsWritten

Next == Settlement \/ Management \/ Openings \/ NextDay

Spec == Init /\ [][Next]_vars

-----------------------------------------------------------------------------
(* Properties *)

\* Type correctness.
TypeOK ==
    /\ day \in TradingDays /\ phase \in Phases
    /\ spot \in [Symbols -> Spots \cup {Null}]
    /\ cash \in Int /\ realized_pnl \in Int
    /\ options \subseteq OptionPosition /\ todo \subseteq options
    /\ shares \subseteq ShareLot
    /\ next_cycle_id \in Cycles /\ cycles_completed \in Nat
    /\ trades \subseteq Cycles \X LegTypes

\* Every unit of cash is accounted for on every step of every day: what was paid
\* in, what was realized, the premiums of the open legs, less what the shares
\* cost.  A call that delivers more shares than there are lots, a split lot or a
\* fee booked on one side only would break it.
MoneyConserved ==
    cash = starting_capital + realized_pnl
              + SumFunction([o \in options |-> Premium(o)])
              - SumFunction([l \in shares |-> Value(l)])

\* A symbol runs at most one cycle: a put and nothing else, or one lot of shares
\* that at most one call covers exactly.  _take_lots relies on it: a lot is never
\* split, and no call is written on shares that are already promised.
OneCyclePerSymbol ==
    \A s \in Symbols :
        /\ Cardinality(OptionsFor(s)) <= 1
        /\ Cardinality(LotsFor(s)) <= 1
        /\ \A o \in OptionsFor(s) :
              IF o.leg_type = "short_put" THEN LotsFor(s) = {}
              ELSE \E l \in LotsFor(s) : l.shares = Covered(o) /\ l.cycle_id = o.cycle_id

\* "strike ... floored at the share cost basis ... so the cycle still closes at
\* >= breakeven on the underlying" (simulator.py): no open call can take shares
\* away for less than they cost.
CallsAboveBasis ==
    \A o \in Calls : \A l \in LotsFor(o.symbol) : o.strike >= l.cost_basis

\* "Mirror the simulator's cycles-completed accounting from persisted trades"
\* (api/backtest.py and metrics.py): the count derived from the trade rows is the
\* count the simulator keeps while it runs.
CountCompletedCycles ==
    LET With(types) == {c \in 1 .. next_cycle_id : \E t \in types : <<c, t>> \in trades}
        cc == {"cc_open", "cc_close", "cc_assigned", "cc_expired"}
    IN  Cardinality(With({"csp_expired", "cc_assigned"})
                       \cup (With({"csp_close"}) \ With(cc)))

CyclesMirrored == cycles_completed = CountCompletedCycles

=============================================================================
