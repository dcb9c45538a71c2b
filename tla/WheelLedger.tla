----------------------------- MODULE WheelLedger -----------------------------
(***************************************************************************)
(* The money of the wheel: what positions/attribution.py reports about a   *)
(* cycle, checked against the cash its trades really moved.                *)
(***************************************************************************)
EXTENDS WheelPositions, FiniteSetsExt, Functions

\* _sum: NULL counts as nothing.
Pnl(i) == IF leg[i].realized_pnl = Null THEN 0 ELSE leg[i].realized_pnl

\* Mutant: the calls written against the shares are left out of the premium.
PutsAsOptions(p) == {i \in LegsOf(p) : leg[i].leg_type = "short_put"}

OptionLegsOf(p) == {i \in LegsOf(p) : leg[i].leg_type \in {"short_put", "covered_call"}}
SharesLegsOf(p) == {i \in LegsOf(p) : leg[i].leg_type = "shares"}
PutLegsOf(p) == {i \in LegsOf(p) : leg[i].leg_type = "short_put"}

TotalPremium(p) == SumFunction([i \in OptionLegsOf(p) |-> Pnl(i)])
SharesPnl(p) == SumFunction([i \in SharesLegsOf(p) |-> Pnl(i)])
RealizedPnl(p) == TotalPremium(p) + SharesPnl(p)

WasAssigned(p) == \E i \in PutLegsOf(p) : leg[i].outcome = "assigned"

\* Mutant: the gross credit is deducted, not the premium kept after fees.
CostBasisGross(p) ==
    LET first == Min(SharesLegsOf(p))
        Gross(i) == leg[i].entry_price * leg[i].contracts * CONTRACT_MULTIPLIER
    IN  leg[first].entry_price * leg[first].shares
           - SumFunction([i \in PutLegsOf(p) |-> Gross(i)])

\* cost_basis_per_share times the share count, which an assignment makes equal
\* to contracts * CONTRACT_MULTIPLIER: strike money less the put premium kept.
CostBasis(p) ==
    LET first == Min(SharesLegsOf(p))
    IN  leg[first].entry_price * leg[first].shares
           - SumFunction([i \in PutLegsOf(p) |-> Pnl(i)])

\* What leg i has contributed to the cycle's cash so far.
BookedValue(i) ==
    IF leg[i].outcome # "open" THEN Pnl(i)
    ELSE IF leg[i].leg_type = "shares"
         THEN -(leg[i].entry_price * leg[i].shares) - leg[i].fees
         ELSE leg[i].entry_price * leg[i].contracts * CONTRACT_MULTIPLIER - leg[i].fees

\* In every state of a cycle, the P&L booked on its settled legs plus the entry
\* flows of its open ones is exactly the money its trades moved: no fee or
\* premium is counted twice or lost between opening, assignment and sale.
LedgerBalances ==
    \A p \in Positions \ edited :
        cash[p] = SumFunction([i \in LegsOf(p) |-> BookedValue(i)])

\* The realized P&L that attribution.py reports for a closed cycle is the cash
\* the cycle made.
AttributionIsCash ==
    \A p \in Positions \ edited :
        state[p] = "closed" => RealizedPnl(p) = cash[p]

\* Right after an assignment, before any call is written, the reported cost
\* basis is what the shares have cost net of the put premium and its fees.
CostBasisIsCashPaid ==
    \A p \in Positions \ edited :
        (state[p] = "long_shares" /\ WasAssigned(p)
           /\ \A i \in OptionLegsOf(p) : leg[i].leg_type = "short_put")
        => CostBasis(p) = -cash[p]

=============================================================================
