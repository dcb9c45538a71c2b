\* Two rowids, so that one cycle runs beside another and a deleted id is reused.
CONSTANTS
    PosId = {1, 2}
    LegId = {1, 2, 3, 4}
    Prices = {1}
    Fees = {0}
    ContractCounts = {0, 1, 2}
    ShareCounts = {150}
    Days = {1, 2}
    PatchRows <- EditedRows
    CONTRACT_MULTIPLIER = 100
    Null = Null
SPECIFICATION Spec
INVARIANTS
    TypeOK
    LegsMatchState
    NoOrphanLegs
PROPERTIES
    SettledLegsFrozen
    ImplementsCycle
CHECK_DEADLOCK FALSE
