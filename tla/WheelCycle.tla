----------------------------- MODULE WheelCycle -----------------------------
(***************************************************************************)
(* What a wheel position promises, without tables, states or legs: at any  *)
(* moment a cycle holds nothing, or has sold puts, or holds shares, or     *)
(* holds shares some of which calls are written against, and it moves      *)
(* between these exposures only along the edges of the wheel (the graph in *)
(* the header of positions/state_machine.py).                              *)
(***************************************************************************)
EXTENDS Integers

CONSTANTS
    PosId,       \* position identifiers
    Contracts,   \* contract counts a cycle may be short of
    ShareLots,   \* share counts a cycle may hold
    Multiplier   \* shares per contract

VARIABLE holdings   \* holdings[p]: the open lots of cycle p

Puts(n) == [kind |-> "short_put", qty |-> n]
Shares(n) == [kind |-> "shares", qty |-> n]
Calls(n) == [kind |-> "covered_call", qty |-> n]

Init == holdings = [p \in PosId |-> {}]

Move(p, from, to) ==
    /\ holdings[p] = from
    /\ holdings' = [holdings EXCEPT ![p] = to]

SellPuts(p) == \E n \in Contracts : Move(p, {}, {Puts(n)})

AcquireShares(p) == \E s \in ShareLots : Move(p, {}, {Shares(s)})

AcquireCovered(p) ==
    \E s \in ShareLots, n \in Contracts :
        n * Multiplier <= s /\ Move(p, {}, {Shares(s), Calls(n)})

PutsEnd(p) == \E n \in Contracts : Move(p, {Puts(n)}, {})

PutsAssigned(p) ==
    \E n \in Contracts : Move(p, {Puts(n)}, {Shares(n * Multiplier)})

WriteCalls(p) ==
    \E s \in ShareLots, n \in Contracts :
        n * Multiplier <= s /\ Move(p, {Shares(s)}, {Shares(s), Calls(n)})

CallsEnd(p) ==
    \E s \in ShareLots, n \in Contracts : Move(p, {Shares(s), Calls(n)}, {Shares(s)})

CalledAway(p) == \E s \in ShareLots, n \in Contracts : Move(p, {Shares(s), Calls(n)}, {})

SellShares(p) == \E s \in ShareLots : Move(p, {Shares(s)}, {})

Next ==
    \E p \in PosId :
        \/ SellPuts(p) \/ AcquireShares(p) \/ AcquireCovered(p)
        \/ PutsEnd(p) \/ PutsAssigned(p)
        \/ WriteCalls(p) \/ CallsEnd(p) \/ CalledAway(p) \/ SellShares(p)

Spec == Init /\ [][Next]_holdings

=============================================================================
