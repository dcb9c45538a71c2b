\* Two places for three symbols, and five days of which one is not traded:
\* enough for a put, its assignment, a call and its delivery beside another cycle.
CONSTANTS
    Symbols = {s1, s2, s3}
    Spots = {4, 9}
    Strikes = {5, 9}
    Mids = {1, 4}
    TradingDays = {1, 2, 4, 5}
    Terms = {1, 2}
    starting_capital = 30
    max_concurrent_positions = 2
    profit_take_percent = 25
    manage_dte = 1
    fee_per_contract = 1
    slippage_per_share = 1
    contracts_per_position = 1
    min_dte_for_entry = 1
    hold_losers_to_expiry = TRUE
    CONTRACTS_MULTIPLIER = 2
    Null = Null
SPECIFICATION Spec
SYMMETRY SymbolSymmetry
INVARIANTS
    TypeOK
    MoneyConserved
    OneCyclePerSymbol
    CallsAboveBasis
    CyclesMirrored
CHECK_DEADLOCK FALSE
