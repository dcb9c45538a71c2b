--------------------------- MODULE WheelPositions ---------------------------
(***************************************************************************)
(* The wheel position book: the positions and position_legs tables, the    *)
(* transitions of positions/state_machine.py and the endpoints of          *)
(* api/positions.py that run them, each in one committed session.          *)
(*                                                                         *)
(* A refused request (409, 422, 404) rolls its session back and is a       *)
(* stuttering step.  Dates survive only as the guard that an expiration    *)
(* may not precede the opening; notes, symbols and exit_price are left out *)
(* because no transition reads them.                                       *)
(***************************************************************************)
EXTENDS Integers, FiniteSets

CONSTANTS
    PosId,                \* rowids the positions table may use
    LegId,                \* rowids the position_legs table may use
    Prices,               \* option premiums, share prices and strikes
    Fees,                 \* fees a request may carry
    ContractCounts,       \* contract counts a request may carry
    ShareCounts,          \* share counts a request may carry
    Days,                 \* calendar days an option request may name
    PatchRows,            \* leg rows an edit of a closed position may leave
    CONTRACT_MULTIPLIER,  \* shares per option contract
    Null                  \* SQL NULL

LegTypes == {"short_put", "covered_call", "shares"}
Outcomes == {"open", "closed", "expired", "assigned", "called_away"}
OpenStates == {"short_put", "long_shares", "covered_call"}
\* "none": the table has no row with this id.
States == OpenStates \cup {"closed", "none"}

\* "other": free text that only an edit of a closed position can leave behind.
LegRow ==
    [pos : PosId, leg_type : LegTypes \cup {"other"}, strike : Int \cup {Null},
     contracts : Int \cup {Null}, shares : Int \cup {Null},
     entry_price : Int \cup {Null}, outcome : Outcomes \cup {"other", Null},
     realized_pnl : Int \cup {Null}, fees : Int]

NoLeg ==
    [pos |-> 0, leg_type |-> "none", strike |-> Null, contracts |-> Null,
     shares |-> Null, entry_price |-> 0, outcome |-> Null,
     realized_pnl |-> Null, fees |-> 0]

ASSUME IdsAssumption == PosId \subseteq Nat \ {0} /\ LegId \subseteq Nat \ {0}
ASSUME AmountsAssumption ==
    /\ Prices \subseteq Nat
    /\ Fees \subseteq Nat
    /\ ContractCounts \subseteq Int
    /\ ShareCounts \subseteq Int
    /\ Days \subseteq Int
    /\ CONTRACT_MULTIPLIER \in Nat \ {0}
ASSUME PatchAssumption == PatchRows \subseteq LegRow
ASSUME NullAssumption == Null \notin Int /\ Null \notin Outcomes

VARIABLES
    state,   \* state[p]: the state column of position p, or "none"
    leg,     \* leg[i]: row i of position_legs, or NoLeg
    cash,    \* history: what the trades of position p have paid in so far
    edited   \* history: positions one of whose legs was edited by hand

vars == <<state, leg, cash, edited>>

-----------------------------------------------------------------------------
(* Rows and look-ups *)

Positions == {p \in PosId : state[p] # "none"}
Legs == {i \in LegId : leg[i].pos # 0}
LegsOf(p) == {i \in LegId : leg[i].pos = p}

\* _require_open_leg's SELECT: the open legs of one type.
OpenLegs(p, t) ==
    {i \in LegId : leg[i].pos = p /\ leg[i].leg_type = t /\ leg[i].outcome = "open"}

\* INTEGER PRIMARY KEY without AUTOINCREMENT: the next id is the largest plus one,
\* so the id of a deleted last row is handed out again.
NextRowid(ids, i) ==
    /\ \A j \in ids : j < i
    /\ i = 1 \/ i - 1 \in ids

OptionLeg(p, t, in, fees) ==
    [pos |-> p, leg_type |-> t, strike |-> in.strike, contracts |-> in.contracts,
     shares |-> Null, entry_price |-> in.credit, outcome |-> "open",
     realized_pnl |-> Null, fees |-> fees]

SharesLeg(p, shares, price, fees) ==
    [pos |-> p, leg_type |-> "shares", strike |-> Null, contracts |-> Null,
     shares |-> shares, entry_price |-> price, outcome |-> "open",
     realized_pnl |-> Null, fees |-> fees]

\* _option_credit_pnl
OptionCreditPnl(l, exit, fees) ==
    (l.entry_price - exit) * l.contracts * CONTRACT_MULTIPLIER - fees

\* Mutant: the fees paid at the opening are forgotten in the P&L.
SettledOptionForgetsEntryFees(l, outcome, exit, fees) ==
    [l EXCEPT !.outcome = outcome, !.fees = l.fees + fees,
              !.realized_pnl = OptionCreditPnl(l, exit, fees)]

\* A short option leg leaves the book at a debit of exit, with further fees.
SettledOption(l, outcome, exit, fees) ==
    [l EXCEPT !.outcome = outcome, !.fees = l.fees + fees,
              !.realized_pnl = OptionCreditPnl(l, exit, l.fees + fees)]

\* The shares leg is sold whole.
SoldShares(l, outcome, price, fees) ==
    [l EXCEPT !.outcome = outcome, !.fees = l.fees + fees,
              !.realized_pnl = (price - l.entry_price) * l.shares - (l.fees + fees)]

-----------------------------------------------------------------------------
(* Request bodies *)

OptionInput ==
    [strike : Prices, contracts : ContractCounts, credit : Prices,
     opened_on : Days, expiration : Days, fees : Fees]

SharesInput == [shares : ShareCounts, cost_basis : Prices, fees : Fees]

ValidOption(in) ==
    /\ in.contracts > 0
    /\ in.credit > 0
    /\ in.strike > 0
    /\ in.expiration >= in.opened_on

ValidShares(in) == in.shares > 0 /\ in.cost_basis > 0

Premium(in) == in.credit * in.contracts * CONTRACT_MULTIPLIER

-----------------------------------------------------------------------------
(* Opening a cycle *)

Init ==
    /\ state = [p \in PosId |-> "none"]
    /\ leg = [i \in LegId |-> NoLeg]
    /\ cash = [p \in PosId |-> 0]
    /\ edited = {}

\* A new positions row: flushed first, so that its legs can name its id.
NewPosition(p, s, paid) ==
    /\ NextRowid(Positions, p)
    /\ state' = [state EXCEPT ![p] = s]
    /\ cash' = [cash EXCEPT ![p] = paid]
    /\ UNCHANGED edited

OpenShortPut(p, in) ==
    /\ ValidOption(in)
    /\ NewPosition(p, "short_put", Premium(in) - in.fees)
    /\ \E i \in LegId :
          /\ NextRowid(Legs, i)
          /\ leg' = [leg EXCEPT ![i] = OptionLeg(p, "short_put", in, in.fees)]

OpenLongShares(p, in) ==
    /\ ValidShares(in)
    /\ NewPosition(p, "long_shares", -(in.cost_basis * in.shares) - in.fees)
    /\ \E i \in LegId :
          /\ NextRowid(Legs, i)
          /\ leg' = [leg EXCEPT ![i] =
                        SharesLeg(p, in.shares, in.cost_basis, in.fees)]

\* One fees field for both legs: it is booked on the shares, the call gets 0.
OpenCoveredCallFresh(p, in, call) ==
    /\ ValidShares(in)
    /\ ValidOption(call)
    /\ call.contracts * CONTRACT_MULTIPLIER <= in.shares
    /\ NewPosition(p, "covered_call",
                   Premium(call) - (in.cost_basis * in.shares) - in.fees)
    /\ \E i \in LegId :
          /\ NextRowid(Legs, i)
          /\ i + 1 \in LegId
          /\ leg' = [leg EXCEPT
                        ![i] = SharesLeg(p, in.shares, in.cost_basis, in.fees),
                        ![i + 1] = OptionLeg(p, "covered_call", call, 0)]

-----------------------------------------------------------------------------
(* Transitions of an open cycle.  scalar_one_or_none raises on two matching *)
(* legs and _require_open_leg on none, so each look-up must find exactly    *)
(* one.                                                                     *)

Pays(p, amount) == cash' = [cash EXCEPT ![p] = @ + amount]

Becomes(p, s) == state' = [state EXCEPT ![p] = s] /\ UNCHANGED edited

CloseShortPut(p, debit, fees) ==
    /\ state[p] = "short_put"
    /\ \E i \in LegId :
          /\ OpenLegs(p, "short_put") = {i}
          /\ leg' = [leg EXCEPT ![i] = SettledOption(@, "closed", debit, fees)]
          /\ Pays(p, -(debit * leg[i].contracts * CONTRACT_MULTIPLIER) - fees)
    /\ Becomes(p, "closed")

\* Mutant: the leg's outcome is written into the state column.
ExpireShortPutAsState(p) ==
    /\ state[p] = "short_put"
    /\ \E i \in LegId :
          /\ OpenLegs(p, "short_put") = {i}
          /\ leg' = [leg EXCEPT ![i] = SettledOption(@, "expired", 0, 0)]
    /\ Becomes(p, "expired")
    /\ UNCHANGED cash

ExpireShortPut(p) ==
    /\ state[p] = "short_put"
    /\ \E i \in LegId :
          /\ OpenLegs(p, "short_put") = {i}
          /\ leg' = [leg EXCEPT ![i] = SettledOption(@, "expired", 0, 0)]
    /\ Becomes(p, "closed")
    /\ UNCHANGED cash

\* Mutant: the put stays open beside the shares it was assigned into.
AssignShortPutLeavesPut(p) ==
    /\ state[p] = "short_put"
    /\ \E i, j \in LegId :
          /\ OpenLegs(p, "short_put") = {i}
          /\ NextRowid(Legs, j)
          /\ LET shares == leg[i].contracts * CONTRACT_MULTIPLIER
             IN  /\ leg' = [leg EXCEPT ![j] = SharesLeg(p, shares, leg[i].strike, 0)]
                 /\ Pays(p, -(leg[i].strike * shares))
    /\ Becomes(p, "long_shares")

\* Mutant: one share per contract is delivered.
AssignShortPutWithoutMultiplier(p) ==
    /\ state[p] = "short_put"
    /\ \E i, j \in LegId :
          /\ OpenLegs(p, "short_put") = {i}
          /\ NextRowid(Legs, j)
          /\ leg' = [leg EXCEPT
                        ![i] = SettledOption(@, "assigned", 0, 0),
                        ![j] = SharesLeg(p, leg[i].contracts, leg[i].strike, 0)]
          /\ Pays(p, -(leg[i].strike * leg[i].contracts))
    /\ Becomes(p, "long_shares")

AssignShortPut(p) ==
    /\ state[p] = "short_put"
    /\ \E i, j \in LegId :
          /\ OpenLegs(p, "short_put") = {i}
          /\ NextRowid(Legs, j)
          /\ LET shares == leg[i].contracts * CONTRACT_MULTIPLIER
             IN  /\ leg' = [leg EXCEPT
                        ![i] = SettledOption(@, "assigned", 0, 0),
                        ![j] = SharesLeg(p, shares, leg[i].strike, 0)]
                 /\ Pays(p, -(leg[i].strike * shares))
    /\ Becomes(p, "long_shares")

\* Mutant: the calls are not checked against the shares held.
OpenCoveredCallUnchecked(p, in) ==
    /\ state[p] = "long_shares"
    /\ ValidOption(in)
    /\ \E i, j \in LegId :
          /\ OpenLegs(p, "shares") = {i}
          /\ NextRowid(Legs, j)
          /\ leg' = [leg EXCEPT ![j] = OptionLeg(p, "covered_call", in, in.fees)]
    /\ Pays(p, Premium(in) - in.fees)
    /\ Becomes(p, "covered_call")

OpenCoveredCall(p, in) ==
    /\ state[p] = "long_shares"
    /\ ValidOption(in)
    /\ \E i, j \in LegId :
          /\ OpenLegs(p, "shares") = {i}
          /\ in.contracts * CONTRACT_MULTIPLIER <= leg[i].shares
          /\ NextRowid(Legs, j)
          /\ leg' = [leg EXCEPT ![j] = OptionLeg(p, "covered_call", in, in.fees)]
    /\ Pays(p, Premium(in) - in.fees)
    /\ Becomes(p, "covered_call")

\* Mutant: the look-up takes every call of the cycle, settled ones included.
CloseCoveredCallOfAnyOutcome(p, debit, fees) ==
    /\ state[p] = "covered_call"
    /\ \E i \in LegId :
          /\ OpenLegs(p, "covered_call") = {i}
          /\ leg' = [k \in LegId |->
                        IF leg[k].pos = p /\ leg[k].leg_type = "covered_call"
                        THEN SettledOption(leg[k], "closed", debit, fees)
                        ELSE leg[k]]
          /\ Pays(p, -(debit * leg[i].contracts * CONTRACT_MULTIPLIER) - fees)
    /\ Becomes(p, "long_shares")

CloseCoveredCall(p, debit, fees) ==
    /\ state[p] = "covered_call"
    /\ \E i \in LegId :
          /\ OpenLegs(p, "covered_call") = {i}
          /\ leg' = [leg EXCEPT ![i] = SettledOption(@, "closed", debit, fees)]
          /\ Pays(p, -(debit * leg[i].contracts * CONTRACT_MULTIPLIER) - fees)
    /\ Becomes(p, "long_shares")

ExpireCoveredCall(p) ==
    /\ state[p] = "covered_call"
    /\ \E i \in LegId :
          /\ OpenLegs(p, "covered_call") = {i}
          /\ leg' = [leg EXCEPT ![i] = SettledOption(@, "expired", 0, 0)]
    /\ Becomes(p, "long_shares")
    /\ UNCHANGED cash

\* The whole shares leg is sold at the call's strike, however few contracts
\* were written against it.
CalledAway(p) ==
    /\ state[p] = "covered_call"
    /\ \E i, j \in LegId :
          /\ OpenLegs(p, "covered_call") = {i}
          /\ OpenLegs(p, "shares") = {j}
          /\ leg' = [leg EXCEPT
                        ![i] = SettledOption(@, "called_away", 0, 0),
                        ![j] = SoldShares(@, "called_away", leg[i].strike, 0)]
          /\ Pays(p, leg[i].strike * leg[j].shares)
    /\ Becomes(p, "closed")

CloseSharesManual(p, price, fees) ==
    /\ state[p] = "long_shares"
    /\ \E i \in LegId :
          /\ OpenLegs(p, "shares") = {i}
          /\ leg' = [leg EXCEPT ![i] = SoldShares(@, "closed", price, fees)]
          /\ Pays(p, price * leg[i].shares - fees)
    /\ Becomes(p, "closed")

-----------------------------------------------------------------------------
(* Corrections of a closed cycle *)

\* Any column of a leg may be overwritten, its outcome and type included.
PatchLeg(p, i, row) ==
    /\ state[p] = "closed"
    /\ leg[i].pos = p
    /\ leg' = [leg EXCEPT ![i] = [row EXCEPT !.pos = p]]
    /\ edited' = edited \cup {p}
    /\ UNCHANGED <<state, cash>>

\* Mutant: the legs are left to a cascade that SQLite does not run.
DeletePositionOnly(p) ==
    /\ state[p] = "closed"
    /\ state' = [state EXCEPT ![p] = "none"]
    /\ cash' = [cash EXCEPT ![p] = 0]
    /\ edited' = edited \ {p}
    /\ UNCHANGED leg

DeletePosition(p) ==
    /\ state[p] = "closed"
    /\ leg' = [i \in LegId |-> IF leg[i].pos = p THEN NoLeg ELSE leg[i]]
    /\ state' = [state EXCEPT ![p] = "none"]
    /\ cash' = [cash EXCEPT ![p] = 0]
    /\ edited' = edited \ {p}

-----------------------------------------------------------------------------

Opening(p) ==
    \/ \E in \in OptionInput : OpenShortPut(p, in)
    \/ \E in \in SharesInput : OpenLongShares(p, in)
    \/ \E in \in SharesInput, call \in OptionInput : OpenCoveredCallFresh(p, in, call)

Transition(p) ==
    \/ \E debit \in Prices, fees \in Fees : CloseShortPut(p, debit, fees)
    \/ ExpireShortPut(p)
    \/ AssignShortPut(p)
    \/ \E in \in OptionInput : OpenCoveredCall(p, in)
    \/ \E debit \in Prices, fees \in Fees : CloseCoveredCall(p, debit, fees)
    \/ ExpireCoveredCall(p)
    \/ CalledAway(p)
    \/ \E price \in Prices, fees \in Fees : CloseSharesManual(p, price, fees)

Correction(p) ==
    \/ \E i \in LegId, row \in PatchRows : PatchLeg(p, i, row)
    \/ DeletePosition(p)

Next == \E p \in PosId : Opening(p) \/ Transition(p) \/ Correction(p)

Spec == Init /\ [][Next]_vars

-----------------------------------------------------------------------------
(* Properties *)

\* Type correctness of the two tables and of the history variables.
TypeOK ==
    /\ state \in [PosId -> States]
    /\ leg \in [LegId -> LegRow \cup {NoLeg}]
    /\ cash \in [PosId -> Int]
    /\ edited \subseteq PosId

\* An open cycle has exactly the open legs its state calls for, so every
\* transition of state_machine.py that its state allows finds the leg it
\* looks up: a short put has one open put and nothing else, long shares one
\* open shares leg, a covered call one shares leg and one call.  A closed cycle
\* has no open leg unless someone edited one of its legs.
OnlyOpen(p, t) == \E i \in LegId : OpenLegs(p, t) = {i}
NoneOpen(p, t) == OpenLegs(p, t) = {}

LegsMatch(p) ==
    /\ state[p] = "short_put" =>
          OnlyOpen(p, "short_put") /\ NoneOpen(p, "shares") /\ NoneOpen(p, "covered_call")
    /\ state[p] = "long_shares" =>
          NoneOpen(p, "short_put") /\ OnlyOpen(p, "shares") /\ NoneOpen(p, "covered_call")
    /\ state[p] = "covered_call" =>
          NoneOpen(p, "short_put") /\ OnlyOpen(p, "shares") /\ OnlyOpen(p, "covered_call")
    /\ state[p] = "closed" /\ p \notin edited =>
          \A t \in LegTypes : NoneOpen(p, t)

LegsMatchState == \A p \in PosId : LegsMatch(p)

\* No leg outlives its position: api/positions.py deletes legs by hand because
\* SQLite enforces no cascade, and an orphan would join the next position that
\* is given the same rowid.
NoOrphanLegs == \A i \in Legs : leg[i].pos \in Positions

\* Open calls never promise more shares than the cycle holds, whichever of the
\* three ways the shares were acquired.
Covered(p) ==
    state[p] = "covered_call" =>
        \A i \in OpenLegs(p, "covered_call"), j \in OpenLegs(p, "shares") :
            leg[i].contracts * CONTRACT_MULTIPLIER <= leg[j].shares

CallsCovered == \A p \in PosId : Covered(p)

\* A settled leg of a cycle that is still running is never touched again: the
\* P&L it booked stands while later legs open and close.
KeepsSettledLegs ==
    \A i \in Legs :
        leg[i].outcome # "open" /\ state[leg[i].pos] \in OpenStates => leg'[i] = leg[i]

SettledLegsFrozen == [][KeepsSettledLegs]_vars

-----------------------------------------------------------------------------
(* The abstract cycle this book implements *)

Lot(i) ==
    [kind |-> leg[i].leg_type,
     qty |-> IF leg[i].leg_type = "shares" THEN leg[i].shares ELSE leg[i].contracts]

OpenLegsOf(p) == {i \in LegId : leg[i].pos = p /\ leg[i].outcome = "open"}

\* The open lots of a running cycle; a closed position has none.
Holdings(p) == IF state[p] \in OpenStates THEN {Lot(i) : i \in OpenLegsOf(p)} ELSE {}

\* The counts that pass the guards of an opening, or that an assignment makes.
SoldContracts == {n \in ContractCounts : n > 0}
ShareLots ==
    {s \in ShareCounts : s > 0} \cup {n * CONTRACT_MULTIPLIER : n \in SoldContracts}

Cycle == INSTANCE WheelCycle
            WITH holdings <- [p \in PosId |-> Holdings(p)],
                 Contracts <- SoldContracts,
                 ShareLots <- ShareLots,
                 Multiplier <- CONTRACT_MULTIPLIER

\* Every request moves the open lots along one edge of the wheel or leaves them
\* alone; edits and deletions of closed cycles never show in any open exposure,
\* and a position that reuses a deleted rowid starts from nothing.
ImplementsCycle == Cycle!Spec

=============================================================================
