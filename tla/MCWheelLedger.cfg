\* One position with up to four legs and prices, fees and share counts that
\* differ, so that an amount booked on the wrong leg shows.
CONSTANTS
    PosId = {1}
    LegId = {1, 2, 3, 4}
    Prices = {0, 2, 5}
    Fees = {1}
    ContractCounts = {1}
    ShareCounts = {100, 150}
    Days = {1}
    PatchRows = {}
    CONTRACT_MULTIPLIER = 100
    Null = Null
SPECIFICATION Spec
INVARIANTS
    LedgerBalances
    AttributionIsCash
    CostBasisIsCashPaid
CHECK_DEADLOCK FALSE
