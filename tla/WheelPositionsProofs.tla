------------------------ MODULE WheelPositionsProofs ------------------------
(***************************************************************************)
(* Proofs about WheelPositions, for every set of rowids and every range of *)
(* amounts: its invariants, the frozen history of a running cycle, that it *)
(* implements WheelCycle, and that its ledger is the cash that moved.      *)
(***************************************************************************)
EXTENDS WheelLedger, FiniteTheorems

\* The counts on the open legs of a running cycle are ones a request could
\* carry: no correction ever reaches them.
SoundOption(l) ==
    l.contracts \in SoldContracts /\ l.strike \in Int /\ l.entry_price \in Int
SoundShares(l) == l.shares \in ShareLots /\ l.entry_price \in Int

Sound(p) ==
    state[p] \in OpenStates =>
        /\ \A i \in OpenLegs(p, "short_put") : SoundOption(leg[i])
        /\ \A i \in OpenLegs(p, "covered_call") : SoundOption(leg[i])
        /\ \A i \in OpenLegs(p, "shares") : SoundShares(leg[i])

\* A running cycle has no open leg that the look-ups would not see.
KnownTypes(p) ==
    state[p] \in OpenStates => \A i \in OpenLegsOf(p) : leg[i].leg_type \in LegTypes

PosInv(p) == LegsMatch(p) /\ Covered(p) /\ Sound(p) /\ KnownTypes(p)

\* The inductive invariant.
IInv == TypeOK /\ NoOrphanLegs /\ \A p \in PosId : PosInv(p)

-----------------------------------------------------------------------------
(* Facts about rows *)

\* The next rowid is a free row.
LEMMA FreshRow ==
    ASSUME NEW i \in LegId, NextRowid(Legs, i)
    PROVE  leg[i].pos = 0
  BY IdsAssumption DEF NextRowid, Legs

\* The counts a cycle may hold are integers, and an assigned put makes a share
\* lot.
LEMMA Amounts ==
    /\ SoldContracts \subseteq Int
    /\ ShareLots \subseteq Int
    /\ \A n \in SoldContracts : n \in Int /\ n * CONTRACT_MULTIPLIER \in ShareLots
<1>1. SoldContracts \subseteq Int
  BY AmountsAssumption DEF SoldContracts
<1>2. \A n \in SoldContracts : n * CONTRACT_MULTIPLIER \in Int
  BY <1>1, AmountsAssumption
<1>3. ShareLots \subseteq Int
  BY <1>2, AmountsAssumption DEF ShareLots
<1>4. \A n \in SoldContracts : n * CONTRACT_MULTIPLIER \in ShareLots
  BY Zenon DEF ShareLots
<1>5. QED
  BY <1>1, <1>3, <1>4

\* A new option leg is a row of the table.
LEMMA OptionLegType ==
    ASSUME NEW p \in PosId, NEW t \in {"short_put", "covered_call"},
           NEW in \in OptionInput, NEW fees \in Int
    PROVE  OptionLeg(p, t, in, fees) \in LegRow
<1>1. in.strike \in Int /\ in.contracts \in Int /\ in.credit \in Int
  <2>1. in.strike \in Prices /\ in.contracts \in ContractCounts /\ in.credit \in Prices
    BY DEF OptionInput
  <2>2. Prices \subseteq Int /\ ContractCounts \subseteq Int
    BY AmountsAssumption
  <2>3. QED
    BY <2>1, <2>2
<1>2. QED
  BY <1>1 DEF OptionLeg, LegRow, LegTypes, Outcomes

\* A new shares leg is a row of the table.
LEMMA SharesLegType ==
    ASSUME NEW p \in PosId, NEW shares \in Int, NEW price \in Int, NEW fees \in Int
    PROVE  SharesLeg(p, shares, price, fees) \in LegRow
  BY DEF SharesLeg, LegRow, LegTypes, Outcomes

\* Settling an option leg with a sound count gives a row of the same position.
LEMMA SettledOptionType ==
    ASSUME NEW l \in LegRow, SoundOption(l), NEW o \in Outcomes,
           NEW exit \in Int, NEW fees \in Int
    PROVE  /\ SettledOption(l, o, exit, fees) \in LegRow
           /\ SettledOption(l, o, exit, fees).pos = l.pos
           /\ SettledOption(l, o, exit, fees).outcome = o
<1>1. l.contracts \in Int /\ l.entry_price \in Int /\ l.fees \in Int
  BY Amounts DEF SoundOption, LegRow
<1>2. (l.entry_price - exit) * l.contracts * CONTRACT_MULTIPLIER \in Int
  BY <1>1, AmountsAssumption
<1>3. PICK pnl \in Int : pnl = OptionCreditPnl(l, exit, l.fees + fees)
  BY <1>1, <1>2 DEF OptionCreditPnl
<1>4. SettledOption(l, o, exit, fees) =
        [l EXCEPT !.outcome = o, !.fees = l.fees + fees, !.realized_pnl = pnl]
  BY <1>3, Zenon DEF SettledOption
<1>5. l.fees + fees \in Int
  BY <1>1
<1>6. QED
  BY <1>4, <1>5, ZenonT(60) DEF LegRow

\* Selling a shares leg with a sound count gives a row of the same position.
LEMMA SoldSharesType ==
    ASSUME NEW l \in LegRow, SoundShares(l), NEW o \in Outcomes,
           NEW price \in Int, NEW fees \in Int
    PROVE  /\ SoldShares(l, o, price, fees) \in LegRow
           /\ SoldShares(l, o, price, fees).pos = l.pos
           /\ SoldShares(l, o, price, fees).outcome = o
<1>1. l.shares \in Int /\ l.entry_price \in Int /\ l.fees \in Int
  BY Amounts DEF SoundShares, LegRow
<1>2. (price - l.entry_price) * l.shares \in Int
  BY <1>1
<1>3. PICK pnl \in Int :
        pnl = (price - l.entry_price) * l.shares - (l.fees + fees)
  BY <1>1, <1>2
<1>4. SoldShares(l, o, price, fees) =
        [l EXCEPT !.outcome = o, !.fees = l.fees + fees, !.realized_pnl = pnl]
  BY <1>3, Zenon DEF SoldShares
<1>5. l.fees + fees \in Int
  BY <1>1
<1>6. QED
  BY <1>4, <1>5, ZenonT(60) DEF LegRow


-----------------------------------------------------------------------------
(* A position none of whose rows a step touches keeps its invariant *)

\* A position none of whose rows changes keeps its part of the invariant.
LEMMA Frame ==
    ASSUME NEW q \in PosId, PosInv(q),
           \A i \in LegId : (leg[i].pos = q \/ leg'[i].pos = q) => leg'[i] = leg[i],
           state'[q] = state[q],
           q \in edited <=> q \in edited'
    PROVE  PosInv(q)'
<1>1. \A t : OpenLegs(q, t)' = OpenLegs(q, t)
  BY DEF OpenLegs
<1>2. \A t : \A i \in OpenLegs(q, t) : leg'[i] = leg[i]
  BY DEF OpenLegs
<1>3. LegsMatch(q)'
  BY <1>1 DEF PosInv, LegsMatch, OnlyOpen, NoneOpen
<1>4. Covered(q)'
  BY <1>1, <1>2 DEF PosInv, Covered
<1>5. Sound(q)'
  BY <1>1, <1>2 DEF PosInv, Sound
<1>6. KnownTypes(q)'
  BY DEF PosInv, KnownTypes, OpenLegsOf
<1>7. QED
  BY <1>3, <1>4, <1>5, <1>6 DEF PosInv

\* A step writes only rows of position p or free rows.
Touches(p) ==
    /\ \A i \in LegId : \/ leg'[i] = leg[i]
                        \/ leg[i].pos \in {0, p} /\ leg'[i].pos \in {0, p}
    /\ \A q \in PosId \ {p} : state'[q] = state[q]

\* Such a step keeps the invariant as soon as it keeps it for p.
LEMMA OnlyActor ==
    ASSUME IInv, NEW p \in PosId, TypeOK', PosInv(p)',
           \A i \in LegId : \/ leg'[i] = leg[i]
                            \/ leg[i].pos \in {0, p} /\ leg'[i].pos \in {0, p},
           \A q \in PosId \ {p} :
                state'[q] = state[q] /\ (q \in edited <=> q \in edited'),
           state'[p] # "none" \/ \A i \in LegId : leg'[i].pos # p
    PROVE  IInv' /\ Touches(p)
<1>1. ASSUME NEW q \in PosId PROVE PosInv(q)'
  <2>1. CASE q = p
    BY <2>1
  <2>2. CASE q # p
    <3>1. q # 0
      BY IdsAssumption
    <3>2. \A i \in LegId : (leg[i].pos = q \/ leg'[i].pos = q) => leg'[i] = leg[i]
      BY <2>2, <3>1
    <3>3. QED
      BY <2>2, <3>2, Frame DEF IInv
  <2>3. QED
    BY <2>1, <2>2
<1>2. NoOrphanLegs'
  <2>1. SUFFICES ASSUME NEW i \in LegId, leg'[i].pos # 0
                 PROVE  leg'[i].pos \in PosId /\ state'[leg'[i].pos] # "none"
    BY DEF NoOrphanLegs, Legs, Positions
  <2>2. CASE leg'[i] = leg[i]
    <3>1. leg[i].pos \in PosId /\ state[leg[i].pos] # "none"
      BY <2>1, <2>2 DEF IInv, NoOrphanLegs, Legs, Positions
    <3>2. QED
      BY <2>2, <3>1
  <2>3. CASE leg'[i].pos \in {0, p}
    BY <2>1, <2>3
  <2>4. QED
    BY <2>2, <2>3
<1>3. QED
  BY <1>1, <1>2 DEF IInv, Touches

-----------------------------------------------------------------------------
(* Opening a cycle *)

\* A new position starts with no legs: no orphan is waiting for its rowid.
LEMMA NoRowsYet ==
    ASSUME IInv, NEW p \in PosId, NextRowid(Positions, p)
    PROVE  state[p] = "none" /\ \A i \in LegId : leg[i].pos # p
<1>1. state[p] = "none"
  BY IdsAssumption DEF NextRowid, Positions
<1>2. \A i \in LegId : leg[i].pos # p
  BY <1>1, IdsAssumption DEF IInv, NoOrphanLegs, Legs, Positions
<1>3. QED
  BY <1>1, <1>2

\* What a request carries are integers.
LEMMA InputInts ==
    /\ Prices \subseteq Int
    /\ Fees \subseteq Int
    /\ ContractCounts \subseteq Int
    /\ ShareCounts \subseteq Int
    /\ CONTRACT_MULTIPLIER \in Int
  BY AmountsAssumption

\* The premium and the fees of an option request are integers.
LEMMA PremiumInt ==
    ASSUME NEW in \in OptionInput
    PROVE  Premium(in) \in Int /\ in.fees \in Int
<1>1. in.credit \in Int /\ in.contracts \in Int /\ in.fees \in Int
  BY InputInts DEF OptionInput
<1>2. QED
  BY <1>1, InputInts DEF Premium

\* The cost of a shares request is an integer.
LEMMA SharesCostInt ==
    ASSUME NEW in \in SharesInput
    PROVE  /\ in.cost_basis * in.shares \in Int
           /\ in.fees \in Int /\ in.cost_basis \in Int /\ in.shares \in Int
<1>1. in.cost_basis \in Int /\ in.shares \in Int /\ in.fees \in Int
  BY InputInts DEF SharesInput
<1>2. QED
  BY <1>1

\* A valid option request carries a count a cycle may be short of.
LEMMA ValidOptionCounts ==
    ASSUME NEW in \in OptionInput, ValidOption(in)
    PROVE  in.contracts \in SoldContracts /\ in.strike \in Int /\ in.credit \in Int
  BY InputInts DEF ValidOption, SoldContracts, OptionInput

\* A valid shares request carries a lot a cycle may hold.
LEMMA ValidSharesCount ==
    ASSUME NEW in \in SharesInput, ValidShares(in)
    PROVE  in.shares \in ShareLots /\ in.cost_basis \in Int
  BY InputInts DEF ValidShares, ShareLots, SharesInput

\* Selling a put opens a cycle with one open put.
LEMMA OpenShortPutInv ==
    ASSUME IInv, NEW p \in PosId, NEW in \in OptionInput, OpenShortPut(p, in)
    PROVE  IInv' /\ Touches(p)
<1>1. PICK i \in LegId :
        /\ NextRowid(Legs, i)
        /\ leg' = [leg EXCEPT ![i] = OptionLeg(p, "short_put", in, in.fees)]
  BY DEF OpenShortPut
<1>2. leg[i].pos = 0
  BY <1>1, FreshRow
<1>3. leg'[i] = OptionLeg(p, "short_put", in, in.fees)
      /\ \A k \in LegId \ {i} : leg'[k] = leg[k]
  BY <1>1 DEF IInv, TypeOK
<1>4. state[p] = "none" /\ \A k \in LegId : leg[k].pos # p
  BY NoRowsYet DEF OpenShortPut, NewPosition
<1>5. state' = [state EXCEPT ![p] = "short_put"] /\ edited' = edited
  BY DEF OpenShortPut, NewPosition
<1>6. state'[p] = "short_put" /\ \A q \in PosId \ {p} : state'[q] = state[q]
  BY <1>5 DEF IInv, TypeOK
<1>7. TypeOK'
  <2>1. leg'[i] \in LegRow
    BY <1>3, OptionLegType, PremiumInt
  <2>2. leg' \in [LegId -> LegRow \cup {NoLeg}]
    BY <1>1, <1>3, <2>1 DEF IInv, TypeOK
  <2>3. state' \in [PosId -> States]
    BY <1>5 DEF IInv, TypeOK, States, OpenStates
  <2>4. cash' \in [PosId -> Int]
    BY PremiumInt DEF IInv, TypeOK, OpenShortPut, NewPosition
  <2>5. QED
    BY <1>5, <2>2, <2>3, <2>4 DEF IInv, TypeOK
<1>8. /\ OpenLegs(p, "short_put")' = {i}
      /\ OpenLegs(p, "shares")' = {}
      /\ OpenLegs(p, "covered_call")' = {}
  BY <1>3, <1>4 DEF OpenLegs, OptionLeg
<1>9. PosInv(p)'
  <2>1. LegsMatch(p)'
    BY <1>6, <1>8 DEF LegsMatch, OnlyOpen, NoneOpen
  <2>2. Covered(p)'
    BY <1>6 DEF Covered
  <2>3. SoundOption(leg[i])'
    BY <1>3, ValidOptionCounts DEF SoundOption, OptionLeg, OpenShortPut
  <2>4. Sound(p)'
    BY <1>8, <2>3 DEF Sound
  <2>5. KnownTypes(p)'
    BY <1>3, <1>4 DEF KnownTypes, OpenLegsOf, LegTypes, OptionLeg
  <2>6. QED
    BY <2>1, <2>2, <2>4, <2>5 DEF PosInv
<1>10. QED
  BY <1>2, <1>3, <1>5, <1>6, <1>7, <1>9, OnlyActor DEF OptionLeg

\* Buying shares opens a cycle with one open shares leg.
LEMMA OpenLongSharesInv ==
    ASSUME IInv, NEW p \in PosId, NEW in \in SharesInput, OpenLongShares(p, in)
    PROVE  IInv' /\ Touches(p)
<1>1. PICK i \in LegId :
        /\ NextRowid(Legs, i)
        /\ leg' = [leg EXCEPT ![i] = SharesLeg(p, in.shares, in.cost_basis, in.fees)]
  BY DEF OpenLongShares
<1>2. leg[i].pos = 0
  BY <1>1, FreshRow
<1>3. leg'[i] = SharesLeg(p, in.shares, in.cost_basis, in.fees)
      /\ \A k \in LegId \ {i} : leg'[k] = leg[k]
  BY <1>1 DEF IInv, TypeOK
<1>4. state[p] = "none" /\ \A k \in LegId : leg[k].pos # p
  BY NoRowsYet DEF OpenLongShares, NewPosition
<1>5. state' = [state EXCEPT ![p] = "long_shares"] /\ edited' = edited
  BY DEF OpenLongShares, NewPosition
<1>6. state'[p] = "long_shares" /\ \A q \in PosId \ {p} : state'[q] = state[q]
  BY <1>5 DEF IInv, TypeOK
<1>7. TypeOK'
  <2>1. leg'[i] \in LegRow
    BY <1>3, SharesLegType, SharesCostInt
  <2>2. leg' \in [LegId -> LegRow \cup {NoLeg}]
    BY <1>1, <1>3, <2>1 DEF IInv, TypeOK
  <2>3. state' \in [PosId -> States]
    BY <1>5 DEF IInv, TypeOK, States, OpenStates
  <2>4. cash' \in [PosId -> Int]
    BY SharesCostInt DEF IInv, TypeOK, OpenLongShares, NewPosition
  <2>5. QED
    BY <1>5, <2>2, <2>3, <2>4 DEF IInv, TypeOK
<1>8. /\ OpenLegs(p, "short_put")' = {}
      /\ OpenLegs(p, "shares")' = {i}
      /\ OpenLegs(p, "covered_call")' = {}
  BY <1>3, <1>4 DEF OpenLegs, SharesLeg
<1>9. PosInv(p)'
  <2>1. LegsMatch(p)'
    BY <1>6, <1>8 DEF LegsMatch, OnlyOpen, NoneOpen
  <2>2. Covered(p)'
    BY <1>6 DEF Covered
  <2>3. SoundShares(leg[i])'
    BY <1>3, ValidSharesCount DEF SoundShares, SharesLeg, OpenLongShares
  <2>4. Sound(p)'
    BY <1>8, <2>3 DEF Sound
  <2>5. KnownTypes(p)'
    BY <1>3, <1>4 DEF KnownTypes, OpenLegsOf, LegTypes, SharesLeg
  <2>6. QED
    BY <2>1, <2>2, <2>4, <2>5 DEF PosInv
<1>10. QED
  BY <1>2, <1>3, <1>5, <1>6, <1>7, <1>9, OnlyActor DEF SharesLeg

\* Buying shares and writing a call at once opens a covered cycle.
LEMMA OpenCoveredCallFreshInv ==
    ASSUME IInv, NEW p \in PosId, NEW in \in SharesInput, NEW call \in OptionInput,
           OpenCoveredCallFresh(p, in, call)
    PROVE  IInv' /\ Touches(p)
<1>1. PICK i \in LegId :
        /\ NextRowid(Legs, i)
        /\ i + 1 \in LegId
        /\ leg' = [leg EXCEPT
                      ![i] = SharesLeg(p, in.shares, in.cost_basis, in.fees),
                      ![i + 1] = OptionLeg(p, "covered_call", call, 0)]
  BY DEF OpenCoveredCallFresh
<1> DEFINE j == i + 1
<1>2. j \in LegId /\ j # i /\ leg[i].pos = 0 /\ leg[j].pos = 0
  BY <1>1, IdsAssumption DEF NextRowid, Legs
<1>3. /\ leg'[i] = SharesLeg(p, in.shares, in.cost_basis, in.fees)
      /\ leg'[j] = OptionLeg(p, "covered_call", call, 0)
      /\ \A k \in LegId \ {i, j} : leg'[k] = leg[k]
  BY <1>1, <1>2 DEF IInv, TypeOK
<1> HIDE DEF j
<1>4. state[p] = "none" /\ \A k \in LegId : leg[k].pos # p
  BY NoRowsYet DEF OpenCoveredCallFresh, NewPosition
<1>5. state' = [state EXCEPT ![p] = "covered_call"] /\ edited' = edited
  BY DEF OpenCoveredCallFresh, NewPosition
<1>6. state'[p] = "covered_call" /\ \A q \in PosId \ {p} : state'[q] = state[q]
  BY <1>5 DEF IInv, TypeOK
<1>7. TypeOK'
  <2>1. leg'[i] \in LegRow /\ leg'[j] \in LegRow
    BY <1>3, SharesLegType, SharesCostInt, OptionLegType
  <2>2. leg' \in [LegId -> LegRow \cup {NoLeg}]
    BY <1>1, <1>2, <1>3, <2>1 DEF IInv, TypeOK, j
  <2>3. state' \in [PosId -> States]
    BY <1>5 DEF IInv, TypeOK, States, OpenStates
  <2>4. Premium(call) - (in.cost_basis * in.shares) - in.fees \in Int
    BY SharesCostInt, PremiumInt
  <2>5. cash' \in [PosId -> Int]
    BY <2>4 DEF IInv, TypeOK, OpenCoveredCallFresh, NewPosition
  <2>6. QED
    BY <1>5, <2>2, <2>3, <2>5 DEF IInv, TypeOK
<1>8. /\ OpenLegs(p, "short_put")' = {}
      /\ OpenLegs(p, "shares")' = {i}
      /\ OpenLegs(p, "covered_call")' = {j}
  BY <1>2, <1>3, <1>4 DEF OpenLegs, SharesLeg, OptionLeg
<1>9. PosInv(p)'
  <2>1. LegsMatch(p)'
    BY <1>2, <1>6, <1>8 DEF LegsMatch, OnlyOpen, NoneOpen
  <2>2. Covered(p)'
    BY <1>3, <1>8 DEF Covered, SharesLeg, OptionLeg, OpenCoveredCallFresh
  <2>3. SoundShares(leg[i])' /\ SoundOption(leg[j])'
    BY <1>3, ValidSharesCount, ValidOptionCounts
    DEF SoundShares, SoundOption, SharesLeg, OptionLeg, OpenCoveredCallFresh
  <2>4. Sound(p)'
    BY <1>8, <2>3 DEF Sound
  <2>5. KnownTypes(p)'
    BY <1>2, <1>3, <1>4 DEF KnownTypes, OpenLegsOf, LegTypes, SharesLeg, OptionLeg
  <2>6. QED
    BY <2>1, <2>2, <2>4, <2>5 DEF PosInv
<1>10. QED
  BY <1>2, <1>3, <1>5, <1>6, <1>7, <1>9, OnlyActor DEF SharesLeg, OptionLeg

-----------------------------------------------------------------------------
(* Transitions *)

\* What the look-up of a transition returns.
LEMMA FoundLeg ==
    ASSUME IInv, NEW p \in PosId, NEW t \in LegTypes, NEW i \in LegId,
           OpenLegs(p, t) = {i}
    PROVE  leg[i] \in LegRow /\ leg[i].pos = p /\ leg[i].leg_type = t /\ p # 0
<1>1. leg[i].pos = p /\ leg[i].leg_type = t /\ p # 0
  BY IdsAssumption DEF OpenLegs
<1>2. leg[i] # NoLeg
  BY <1>1 DEF NoLeg
<1>3. QED
  BY <1>1, <1>2 DEF IInv, TypeOK

\* Buying back or letting expire the one open option leg of a cycle.
LEMMA OptionEnds ==
    ASSUME IInv, NEW p \in PosId, NEW i \in LegId, NEW t \in {"short_put", "covered_call"},
           state[p] \in OpenStates, OpenLegs(p, t) = {i},
           NEW o \in Outcomes \ {"open"}, NEW exit \in Int, NEW fees \in Int,
           leg' = [leg EXCEPT ![i] = SettledOption(@, o, exit, fees)]
    PROVE  /\ leg' \in [LegId -> LegRow \cup {NoLeg}]
           /\ leg[i].pos = p /\ leg'[i].pos = p /\ leg'[i].outcome # "open"
           /\ \A k \in LegId \ {i} : leg'[k] = leg[k]
           /\ OpenLegs(p, t)' = {}
           /\ \A u \in LegTypes \ {t} : OpenLegs(p, u)' = OpenLegs(p, u)
<1>1. leg[i] \in LegRow /\ leg[i].pos = p /\ leg[i].leg_type = t
  BY FoundLeg DEF LegTypes
<1>2. SoundOption(leg[i])
  BY DEF IInv, PosInv, Sound
<1>3. leg'[i] = SettledOption(leg[i], o, exit, fees)
      /\ \A k \in LegId \ {i} : leg'[k] = leg[k]
  BY DEF IInv, TypeOK
<1>4. leg'[i] \in LegRow /\ leg'[i].pos = p /\ leg'[i].outcome = o
  BY <1>1, <1>2, <1>3, SettledOptionType
<1>5. leg'[i].leg_type = t
  BY <1>1, <1>3 DEF SettledOption, LegRow
<1>6. leg' \in [LegId -> LegRow \cup {NoLeg}]
  BY <1>4 DEF IInv, TypeOK
<1>7. OpenLegs(p, t)' = {}
  BY <1>3, <1>4 DEF OpenLegs
<1>8. \A u \in LegTypes \ {t} : OpenLegs(p, u)' = OpenLegs(p, u)
  BY <1>1, <1>3, <1>5 DEF OpenLegs
<1>9. QED
  BY <1>1, <1>3, <1>4, <1>6, <1>7, <1>8

\* The state column after a transition, and that nothing else was edited.
LEMMA StateAfter ==
    ASSUME IInv, NEW p \in PosId, NEW s \in States \ {"none"}, Becomes(p, s)
    PROVE  /\ state' \in [PosId -> States]
           /\ state'[p] = s
           /\ \A q \in PosId \ {p} : state'[q] = state[q]
           /\ edited' = edited
  BY DEF IInv, TypeOK, Becomes

\* The put of a cycle leaves the book: the cycle is closed with no open leg.
LEMMA PutGone ==
    ASSUME IInv, NEW p \in PosId, state[p] = "short_put",
           NEW i \in LegId, OpenLegs(p, "short_put") = {i},
           NEW o \in Outcomes \ {"open"}, NEW exit \in Int, NEW fees \in Int,
           leg' = [leg EXCEPT ![i] = SettledOption(@, o, exit, fees)],
           Becomes(p, "closed"),
           cash' \in [PosId -> Int]
    PROVE  IInv' /\ Touches(p)
<1>1. state[p] \in OpenStates
  BY DEF OpenStates
<1>2. /\ leg' \in [LegId -> LegRow \cup {NoLeg}]
      /\ leg[i].pos = p /\ leg'[i].pos = p
      /\ \A k \in LegId \ {i} : leg'[k] = leg[k]
      /\ OpenLegs(p, "short_put")' = {}
      /\ \A u \in LegTypes \ {"short_put"} : OpenLegs(p, u)' = OpenLegs(p, u)
  BY <1>1, OptionEnds
<1>3. /\ state' \in [PosId -> States]
      /\ state'[p] = "closed"
      /\ \A q \in PosId \ {p} : state'[q] = state[q]
      /\ edited' = edited
  BY StateAfter DEF States
<1>4. TypeOK'
  BY <1>2, <1>3 DEF IInv, TypeOK
<1>5. OpenLegs(p, "shares") = {} /\ OpenLegs(p, "covered_call") = {}
  BY DEF IInv, PosInv, LegsMatch, NoneOpen
<1>6. \A t \in LegTypes : OpenLegs(p, t)' = {}
  BY <1>2, <1>5 DEF LegTypes
<1>7. PosInv(p)'
  BY <1>3, <1>6 DEF PosInv, LegsMatch, Covered, Sound, KnownTypes, NoneOpen, OpenStates
<1>8. QED
  BY <1>2, <1>3, <1>4, <1>7, OnlyActor

\* The call of a cycle leaves the book: the cycle holds its shares again.
LEMMA CallGone ==
    ASSUME IInv, NEW p \in PosId, state[p] = "covered_call",
           NEW i \in LegId, OpenLegs(p, "covered_call") = {i},
           NEW o \in Outcomes \ {"open"}, NEW exit \in Int, NEW fees \in Int,
           leg' = [leg EXCEPT ![i] = SettledOption(@, o, exit, fees)],
           Becomes(p, "long_shares"),
           cash' \in [PosId -> Int]
    PROVE  IInv' /\ Touches(p)
<1>1. state[p] \in OpenStates
  BY DEF OpenStates
<1>2. /\ leg' \in [LegId -> LegRow \cup {NoLeg}]
      /\ leg[i].pos = p /\ leg'[i].pos = p /\ leg'[i].outcome # "open"
      /\ \A k \in LegId \ {i} : leg'[k] = leg[k]
      /\ OpenLegs(p, "covered_call")' = {}
      /\ \A u \in LegTypes \ {"covered_call"} : OpenLegs(p, u)' = OpenLegs(p, u)
  BY <1>1, OptionEnds
<1>3. /\ state' \in [PosId -> States]
      /\ state'[p] = "long_shares"
      /\ \A q \in PosId \ {p} : state'[q] = state[q]
      /\ edited' = edited
  BY StateAfter DEF States, OpenStates
<1>4. TypeOK'
  BY <1>2, <1>3 DEF IInv, TypeOK
<1>5. OpenLegs(p, "short_put") = {} /\ OnlyOpen(p, "shares")
  BY DEF IInv, PosInv, LegsMatch, NoneOpen
<1>6. PICK j \in LegId : OpenLegs(p, "shares") = {j}
  BY <1>5 DEF OnlyOpen
<1>7. OpenLegs(p, "short_put")' = {} /\ OpenLegs(p, "shares")' = {j}
  BY <1>2, <1>5, <1>6 DEF LegTypes
<1>8. leg'[j] = leg[j] /\ SoundShares(leg[j])
  <2>1. j # i
    BY <1>6 DEF OpenLegs
  <2>2. QED
    BY <1>1, <1>2, <1>6, <2>1 DEF IInv, PosInv, Sound
<1>9. LegsMatch(p)'
  BY <1>2, <1>3, <1>7 DEF LegsMatch, OnlyOpen, NoneOpen
<1>10. Covered(p)' /\ Sound(p)'
  BY <1>2, <1>3, <1>7, <1>8 DEF Covered, Sound, SoundShares
<1>11. PosInv(p)'
  <2>1. KnownTypes(p)'
    BY <1>1, <1>2 DEF KnownTypes, OpenLegsOf, IInv, PosInv
  <2>2. QED
    BY <1>9, <1>10, <2>1 DEF PosInv
<1>12. QED
  BY <1>2, <1>3, <1>4, <1>11, OnlyActor

\* What the legs a transition finds are worth is an integer.
LEMMA FoundOptionInt ==
    ASSUME IInv, NEW p \in PosId, state[p] \in OpenStates,
           NEW t \in {"short_put", "covered_call"}, NEW i \in LegId,
           OpenLegs(p, t) = {i}
    PROVE  /\ SoundOption(leg[i]) /\ leg[i].contracts \in SoldContracts
           /\ leg[i].contracts \in Int /\ leg[i].strike \in Int
           /\ leg[i].contracts * CONTRACT_MULTIPLIER \in ShareLots
           /\ \A price \in Int : price * leg[i].contracts * CONTRACT_MULTIPLIER \in Int
<1>1. SoundOption(leg[i])
  BY DEF IInv, PosInv, Sound
<1>2. leg[i].contracts \in Int
  BY <1>1, Amounts DEF SoundOption
<1>3. \A price \in Int : price * leg[i].contracts * CONTRACT_MULTIPLIER \in Int
  BY <1>2, InputInts
<1>4. QED
  BY <1>1, <1>2, <1>3, Amounts DEF SoundOption

\* Likewise for the shares leg.
LEMMA FoundSharesInt ==
    ASSUME IInv, NEW p \in PosId, state[p] \in OpenStates, NEW i \in LegId,
           OpenLegs(p, "shares") = {i}
    PROVE  /\ SoundShares(leg[i]) /\ leg[i].shares \in ShareLots /\ leg[i].shares \in Int
           /\ \A price \in Int : price * leg[i].shares \in Int
<1>1. SoundShares(leg[i])
  BY DEF IInv, PosInv, Sound
<1>2. leg[i].shares \in Int
  BY <1>1, Amounts DEF SoundShares
<1>3. QED
  BY <1>1, <1>2 DEF SoundShares

\* A trade of an integer amount keeps the cash ledger an integer one.
LEMMA PaysType ==
    ASSUME IInv, NEW p \in PosId, NEW amount \in Int, Pays(p, amount)
    PROVE  cash' \in [PosId -> Int]
  BY DEF IInv, TypeOK, Pays

\* Buying the put back keeps the invariant.
LEMMA CloseShortPutInv ==
    ASSUME IInv, NEW p \in PosId, NEW debit \in Prices, NEW fees \in Fees,
           CloseShortPut(p, debit, fees)
    PROVE  IInv' /\ Touches(p)
<1>1. PICK i \in LegId :
        /\ OpenLegs(p, "short_put") = {i}
        /\ leg' = [leg EXCEPT ![i] = SettledOption(@, "closed", debit, fees)]
        /\ Pays(p, -(debit * leg[i].contracts * CONTRACT_MULTIPLIER) - fees)
  BY DEF CloseShortPut
<1>2. state[p] = "short_put" /\ Becomes(p, "closed")
  BY DEF CloseShortPut
<1>3. debit \in Int /\ fees \in Int
  BY InputInts
<1>4. debit * leg[i].contracts * CONTRACT_MULTIPLIER \in Int
  BY <1>1, <1>2, <1>3, FoundOptionInt DEF OpenStates
<1>5. -(debit * leg[i].contracts * CONTRACT_MULTIPLIER) - fees \in Int
  BY <1>3, <1>4
<1>6. cash' \in [PosId -> Int]
  BY <1>1, <1>5, PaysType
<1>7. "closed" \in Outcomes \ {"open"}
  BY DEF Outcomes
<1>8. QED
  BY <1>1, <1>2, <1>3, <1>6, <1>7, PutGone

\* Letting the put expire keeps the invariant.
LEMMA ExpireShortPutInv ==
    ASSUME IInv, NEW p \in PosId, ExpireShortPut(p)
    PROVE  IInv' /\ Touches(p)
<1>1. PICK i \in LegId :
        /\ OpenLegs(p, "short_put") = {i}
        /\ leg' = [leg EXCEPT ![i] = SettledOption(@, "expired", 0, 0)]
  BY DEF ExpireShortPut
<1>2. cash' \in [PosId -> Int]
  BY DEF IInv, TypeOK, ExpireShortPut
<1>3. state[p] = "short_put" /\ Becomes(p, "closed")
  BY DEF ExpireShortPut
<1>4. "expired" \in Outcomes \ {"open"} /\ 0 \in Int
  BY DEF Outcomes
<1>5. QED
  BY <1>1, <1>2, <1>3, <1>4, PutGone

\* Buying the call back keeps the invariant.
LEMMA CloseCoveredCallInv ==
    ASSUME IInv, NEW p \in PosId, NEW debit \in Prices, NEW fees \in Fees,
           CloseCoveredCall(p, debit, fees)
    PROVE  IInv' /\ Touches(p)
<1>1. PICK i \in LegId :
        /\ OpenLegs(p, "covered_call") = {i}
        /\ leg' = [leg EXCEPT ![i] = SettledOption(@, "closed", debit, fees)]
        /\ Pays(p, -(debit * leg[i].contracts * CONTRACT_MULTIPLIER) - fees)
  BY DEF CloseCoveredCall
<1>2. state[p] = "covered_call" /\ Becomes(p, "long_shares")
  BY DEF CloseCoveredCall
<1>3. debit \in Int /\ fees \in Int
  BY InputInts
<1>4. debit * leg[i].contracts * CONTRACT_MULTIPLIER \in Int
  BY <1>1, <1>2, <1>3, FoundOptionInt DEF OpenStates
<1>5. -(debit * leg[i].contracts * CONTRACT_MULTIPLIER) - fees \in Int
  BY <1>3, <1>4
<1>6. cash' \in [PosId -> Int]
  BY <1>1, <1>5, PaysType
<1>7. "closed" \in Outcomes \ {"open"}
  BY DEF Outcomes
<1>8. QED
  BY <1>1, <1>2, <1>3, <1>6, <1>7, CallGone

\* Letting the call expire keeps the invariant.
LEMMA ExpireCoveredCallInv ==
    ASSUME IInv, NEW p \in PosId, ExpireCoveredCall(p)
    PROVE  IInv' /\ Touches(p)
<1>1. PICK i \in LegId :
        /\ OpenLegs(p, "covered_call") = {i}
        /\ leg' = [leg EXCEPT ![i] = SettledOption(@, "expired", 0, 0)]
  BY DEF ExpireCoveredCall
<1>2. cash' \in [PosId -> Int]
  BY DEF IInv, TypeOK, ExpireCoveredCall
<1>3. state[p] = "covered_call" /\ Becomes(p, "long_shares")
  BY DEF ExpireCoveredCall
<1>4. "expired" \in Outcomes \ {"open"} /\ 0 \in Int
  BY DEF Outcomes
<1>5. QED
  BY <1>1, <1>2, <1>3, <1>4, CallGone

\* Assignment turns the put into shares: the invariant survives.
LEMMA AssignShortPutInv ==
    ASSUME IInv, NEW p \in PosId, AssignShortPut(p)
    PROVE  IInv' /\ Touches(p)
<1> DEFINE Assigned(i) == leg[i].contracts * CONTRACT_MULTIPLIER
<1>1. PICK i \in LegId, j \in LegId :
        /\ OpenLegs(p, "short_put") = {i}
        /\ NextRowid(Legs, j)
        /\ leg' = [leg EXCEPT ![i] = SettledOption(@, "assigned", 0, 0),
                              ![j] = SharesLeg(p, Assigned(i), leg[i].strike, 0)]
        /\ Pays(p, -(leg[i].strike * Assigned(i)))
  BY DEF AssignShortPut
<1>2. state[p] = "short_put" /\ Becomes(p, "long_shares") /\ state[p] \in OpenStates
  BY DEF AssignShortPut, OpenStates
<1>3. leg[i] \in LegRow /\ leg[i].pos = p /\ leg[i].leg_type = "short_put" /\ p # 0
  BY <1>1, FoundLeg DEF LegTypes
<1>4. leg[j].pos = 0 /\ i # j
  BY <1>1, <1>3, FreshRow
<1>5. PICK lot \in ShareLots :
        lot = Assigned(i) /\ lot \in Int /\ SoundOption(leg[i]) /\ leg[i].strike \in Int
  BY <1>1, <1>2, FoundOptionInt, Amounts
<1>6. /\ leg'[i] = SettledOption(leg[i], "assigned", 0, 0)
      /\ leg'[j] = SharesLeg(p, lot, leg[i].strike, 0)
      /\ \A k \in LegId \ {i, j} : leg'[k] = leg[k]
  BY <1>1, <1>4, <1>5 DEF IInv, TypeOK
<1>7. /\ leg'[i] \in LegRow /\ leg'[i].pos = p /\ leg'[i].outcome = "assigned"
  <2>1. "assigned" \in Outcomes
    BY DEF Outcomes
  <2>2. QED
    BY <1>3, <1>5, <1>6, <2>1, SettledOptionType
<1>8. leg'[j] \in LegRow
  BY <1>5, <1>6, SharesLegType
<1>9. /\ state' \in [PosId -> States]
      /\ state'[p] = "long_shares"
      /\ \A q \in PosId \ {p} : state'[q] = state[q]
      /\ edited' = edited
  BY <1>2, StateAfter DEF States, OpenStates
<1>10. TypeOK'
  <2>1. leg' \in [LegId -> LegRow \cup {NoLeg}]
    BY <1>1, <1>6, <1>7, <1>8 DEF IInv, TypeOK
  <2>2. -(leg[i].strike * lot) \in Int
    BY <1>5
  <2>3. cash' \in [PosId -> Int]
    BY <1>1, <1>5, <2>2, PaysType
  <2>4. QED
    BY <1>9, <2>1, <2>3 DEF IInv, TypeOK
<1>11. OpenLegs(p, "shares") = {} /\ OpenLegs(p, "covered_call") = {}
  BY <1>2 DEF IInv, PosInv, LegsMatch, NoneOpen
<1>12. /\ OpenLegs(p, "short_put")' = {}
       /\ OpenLegs(p, "shares")' = {j}
       /\ OpenLegs(p, "covered_call")' = {}
  <2>1. /\ leg'[j].pos = p /\ leg'[j].leg_type = "shares" /\ leg'[j].outcome = "open"
    BY <1>6 DEF SharesLeg
  <2>2. OpenLegs(p, "short_put") = {i}
    BY <1>1
  <2>3. ASSUME NEW t \in LegTypes, NEW k \in LegId \ {i, j}
        PROVE  k \notin OpenLegs(p, t)'
    BY <1>6, <1>11, <2>2, <2>3 DEF OpenLegs, LegTypes
  <2>4. QED
    BY <1>7, <2>1, <2>3 DEF OpenLegs, LegTypes
<1>13. PosInv(p)'
  <2>1. LegsMatch(p)'
    BY <1>9, <1>12 DEF LegsMatch, OnlyOpen, NoneOpen
  <2>2. Covered(p)'
    BY <1>9 DEF Covered
  <2>3. SoundShares(leg[j])'
    BY <1>5, <1>6 DEF SoundShares, SharesLeg
  <2>4. Sound(p)'
    BY <1>12, <2>3 DEF Sound
  <2>5. KnownTypes(p)'
    BY <1>2, <1>6, <1>7 DEF KnownTypes, OpenLegsOf, LegTypes, SharesLeg, IInv, PosInv
  <2>6. QED
    BY <2>1, <2>2, <2>4, <2>5 DEF PosInv
<1>14. QED
  BY <1>3, <1>4, <1>6, <1>7, <1>9, <1>10, <1>13, OnlyActor DEF SharesLeg

\* A call written against the shares of a cycle keeps the invariant, coverage
\* included.
LEMMA OpenCoveredCallInv ==
    ASSUME IInv, NEW p \in PosId, NEW in \in OptionInput, OpenCoveredCall(p, in)
    PROVE  IInv' /\ Touches(p)
<1>1. PICK i \in LegId, j \in LegId :
        /\ OpenLegs(p, "shares") = {i}
        /\ in.contracts * CONTRACT_MULTIPLIER <= leg[i].shares
        /\ NextRowid(Legs, j)
        /\ leg' = [leg EXCEPT ![j] = OptionLeg(p, "covered_call", in, in.fees)]
  BY DEF OpenCoveredCall
<1>2. /\ state[p] = "long_shares" /\ Becomes(p, "covered_call")
      /\ state[p] \in OpenStates /\ ValidOption(in) /\ Pays(p, Premium(in) - in.fees)
  BY DEF OpenCoveredCall, OpenStates
<1>3. leg[i] \in LegRow /\ leg[i].pos = p /\ leg[i].leg_type = "shares" /\ p # 0
  BY <1>1, FoundLeg DEF LegTypes
<1>4. leg[j].pos = 0 /\ i # j
  BY <1>1, <1>3, FreshRow
<1>5. /\ leg'[j] = OptionLeg(p, "covered_call", in, in.fees)
      /\ \A k \in LegId \ {j} : leg'[k] = leg[k]
  BY <1>1 DEF IInv, TypeOK
<1>6. leg'[j] \in LegRow
  BY <1>5, OptionLegType, PremiumInt
<1>7. /\ state' \in [PosId -> States]
      /\ state'[p] = "covered_call"
      /\ \A q \in PosId \ {p} : state'[q] = state[q]
      /\ edited' = edited
  BY <1>2, StateAfter DEF States, OpenStates
<1>8. TypeOK'
  <2>1. leg' \in [LegId -> LegRow \cup {NoLeg}]
    BY <1>1, <1>5, <1>6 DEF IInv, TypeOK
  <2>2. Premium(in) - in.fees \in Int
    BY PremiumInt
  <2>3. cash' \in [PosId -> Int]
    BY <1>2, <2>2, PaysType
  <2>4. QED
    BY <1>7, <2>1, <2>3 DEF IInv, TypeOK
<1>9. OpenLegs(p, "short_put") = {} /\ OpenLegs(p, "covered_call") = {}
  BY <1>2 DEF IInv, PosInv, LegsMatch, NoneOpen
<1>10. /\ OpenLegs(p, "short_put")' = {}
       /\ OpenLegs(p, "shares")' = {i}
       /\ OpenLegs(p, "covered_call")' = {j}
  BY <1>1, <1>4, <1>5, <1>9 DEF OpenLegs, OptionLeg
<1>11. leg'[i] = leg[i] /\ SoundShares(leg[i])
  BY <1>1, <1>2, <1>4, <1>5 DEF IInv, PosInv, Sound
<1>12. PosInv(p)'
  <2>1. LegsMatch(p)'
    BY <1>7, <1>10 DEF LegsMatch, OnlyOpen, NoneOpen
  <2>2. Covered(p)'
    BY <1>1, <1>5, <1>10, <1>11 DEF Covered, OptionLeg
  <2>3. SoundOption(leg[j])' /\ SoundShares(leg[i])'
    BY <1>2, <1>5, <1>11, ValidOptionCounts DEF SoundOption, SoundShares, OptionLeg
  <2>4. Sound(p)'
    BY <1>10, <2>3 DEF Sound
  <2>5. KnownTypes(p)'
    BY <1>2, <1>5 DEF KnownTypes, OpenLegsOf, LegTypes, OptionLeg, IInv, PosInv
  <2>6. QED
    BY <2>1, <2>2, <2>4, <2>5 DEF PosInv
<1>13. QED
  BY <1>3, <1>4, <1>5, <1>7, <1>8, <1>12, OnlyActor DEF OptionLeg

\* The call takes the shares with it: the cycle is closed with no open leg.
LEMMA CalledAwayInv ==
    ASSUME IInv, NEW p \in PosId, CalledAway(p)
    PROVE  IInv' /\ Touches(p)
<1>1. PICK i \in LegId, j \in LegId :
        /\ OpenLegs(p, "covered_call") = {i}
        /\ OpenLegs(p, "shares") = {j}
        /\ leg' = [leg EXCEPT
                      ![i] = SettledOption(@, "called_away", 0, 0),
                      ![j] = SoldShares(@, "called_away", leg[i].strike, 0)]
        /\ Pays(p, leg[i].strike * leg[j].shares)
  BY DEF CalledAway
<1>2. state[p] = "covered_call" /\ Becomes(p, "closed") /\ state[p] \in OpenStates
  BY DEF CalledAway, OpenStates
<1>3. /\ leg[i] \in LegRow /\ leg[i].pos = p /\ leg[i].leg_type = "covered_call"
      /\ leg[j] \in LegRow /\ leg[j].pos = p /\ leg[j].leg_type = "shares"
      /\ p # 0 /\ i # j
  BY <1>1, FoundLeg DEF LegTypes
<1>4. /\ SoundOption(leg[i]) /\ SoundShares(leg[j])
      /\ leg[i].strike \in Int /\ leg[j].shares \in Int
  BY <1>1, <1>2, FoundOptionInt, FoundSharesInt
<1>5. /\ leg'[i] = SettledOption(leg[i], "called_away", 0, 0)
      /\ leg'[j] = SoldShares(leg[j], "called_away", leg[i].strike, 0)
      /\ \A k \in LegId \ {i, j} : leg'[k] = leg[k]
  BY <1>1, <1>3 DEF IInv, TypeOK
<1>6. leg'[i] \in LegRow /\ leg'[i].pos = p /\ leg'[i].outcome = "called_away"
  BY <1>3, <1>4, <1>5, SettledOptionType DEF Outcomes
<1>7. leg'[j] \in LegRow /\ leg'[j].pos = p /\ leg'[j].outcome = "called_away"
  BY <1>3, <1>4, <1>5, SoldSharesType DEF Outcomes
<1>8. /\ state' \in [PosId -> States]
      /\ state'[p] = "closed"
      /\ \A q \in PosId \ {p} : state'[q] = state[q]
      /\ edited' = edited
  BY <1>2, StateAfter DEF States
<1>9. TypeOK'
  <2>1. leg' \in [LegId -> LegRow \cup {NoLeg}]
    BY <1>1, <1>5, <1>6, <1>7 DEF IInv, TypeOK
  <2>2. leg[i].strike * leg[j].shares \in Int
    BY <1>4
  <2>3. cash' \in [PosId -> Int]
    BY <1>1, <2>2, PaysType
  <2>4. QED
    BY <1>8, <2>1, <2>3 DEF IInv, TypeOK
<1>10. OpenLegs(p, "short_put") = {}
  BY <1>2 DEF IInv, PosInv, LegsMatch, NoneOpen
<1>11. \A t \in LegTypes : OpenLegs(p, t)' = {}
  <2>1. OpenLegs(p, "covered_call") = {i} /\ OpenLegs(p, "shares") = {j}
    BY <1>1
  <2>2. ASSUME NEW t \in LegTypes, NEW k \in LegId \ {i, j}
        PROVE  k \notin OpenLegs(p, t)'
    BY <1>5, <1>10, <2>1, <2>2 DEF OpenLegs, LegTypes
  <2>3. QED
    BY <1>6, <1>7, <2>2 DEF OpenLegs
<1>12. PosInv(p)'
  BY <1>8, <1>11 DEF PosInv, LegsMatch, Covered, Sound, KnownTypes, NoneOpen, OpenStates
<1>13. QED
  BY <1>3, <1>5, <1>6, <1>7, <1>8, <1>9, <1>12, OnlyActor

\* Selling the shares by hand closes the cycle with no open leg.
LEMMA CloseSharesManualInv ==
    ASSUME IInv, NEW p \in PosId, NEW price \in Prices, NEW fees \in Fees,
           CloseSharesManual(p, price, fees)
    PROVE  IInv' /\ Touches(p)
<1>1. PICK i \in LegId :
        /\ OpenLegs(p, "shares") = {i}
        /\ leg' = [leg EXCEPT ![i] = SoldShares(@, "closed", price, fees)]
        /\ Pays(p, price * leg[i].shares - fees)
  BY DEF CloseSharesManual
<1>2. state[p] = "long_shares" /\ Becomes(p, "closed") /\ state[p] \in OpenStates
  BY DEF CloseSharesManual, OpenStates
<1>3. leg[i] \in LegRow /\ leg[i].pos = p /\ leg[i].leg_type = "shares" /\ p # 0
  BY <1>1, FoundLeg DEF LegTypes
<1>4. SoundShares(leg[i]) /\ leg[i].shares \in Int /\ price \in Int /\ fees \in Int
  BY <1>1, <1>2, FoundSharesInt, InputInts
<1>5. /\ leg'[i] = SoldShares(leg[i], "closed", price, fees)
      /\ \A k \in LegId \ {i} : leg'[k] = leg[k]
  BY <1>1 DEF IInv, TypeOK
<1>6. leg'[i] \in LegRow /\ leg'[i].pos = p /\ leg'[i].outcome = "closed"
  <2>1. "closed" \in Outcomes
    BY DEF Outcomes
  <2>2. /\ SoldShares(leg[i], "closed", price, fees) \in LegRow
        /\ SoldShares(leg[i], "closed", price, fees).pos = leg[i].pos
        /\ SoldShares(leg[i], "closed", price, fees).outcome = "closed"
    BY <1>3, <1>4, <2>1, SoldSharesType
  <2>3. QED
    BY <1>3, <1>5, <2>2
<1>7. /\ state' \in [PosId -> States]
      /\ state'[p] = "closed"
      /\ \A q \in PosId \ {p} : state'[q] = state[q]
      /\ edited' = edited
  BY <1>2, StateAfter DEF States
<1>8. TypeOK'
  <2>1. leg' \in [LegId -> LegRow \cup {NoLeg}]
    BY <1>1, <1>5, <1>6 DEF IInv, TypeOK
  <2>2. price * leg[i].shares \in Int
    BY <1>4
  <2>3. price * leg[i].shares - fees \in Int
    BY <1>4, <2>2
  <2>4. cash' \in [PosId -> Int]
    BY <1>1, <2>3, PaysType
  <2>5. QED
    BY <1>7, <2>1, <2>4 DEF IInv, TypeOK
<1>9. OpenLegs(p, "short_put") = {} /\ OpenLegs(p, "covered_call") = {}
  BY <1>2 DEF IInv, PosInv, LegsMatch, NoneOpen
<1>10. \A t \in LegTypes : OpenLegs(p, t)' = {}
  BY <1>1, <1>5, <1>6, <1>9 DEF OpenLegs, LegTypes
<1>11. PosInv(p)'
  BY <1>7, <1>10 DEF PosInv, LegsMatch, Covered, Sound, KnownTypes, NoneOpen, OpenStates
<1>12. QED
  BY <1>3, <1>5, <1>6, <1>7, <1>8, <1>11, OnlyActor

-----------------------------------------------------------------------------
(* Corrections of a closed cycle *)

\* An edited leg stays with its closed position, which is marked as edited.
LEMMA PatchLegInv ==
    ASSUME IInv, NEW p \in PosId, NEW i \in LegId, NEW row \in PatchRows,
           PatchLeg(p, i, row)
    PROVE  IInv' /\ Touches(p)
<1>1. /\ state[p] = "closed" /\ leg[i].pos = p
      /\ leg' = [leg EXCEPT ![i] = [row EXCEPT !.pos = p]]
      /\ edited' = edited \cup {p} /\ state' = state /\ cash' = cash
  BY DEF PatchLeg
<1>2. PICK new \in LegRow : new = [row EXCEPT !.pos = p] /\ new.pos = p
  <2>1. row \in LegRow
    BY PatchAssumption
  <2>2. [row EXCEPT !.pos = p] \in LegRow /\ [row EXCEPT !.pos = p].pos = p
    BY <2>1 DEF LegRow
  <2>3. QED
    BY <2>2
<1>3. leg'[i] = new /\ \A k \in LegId \ {i} : leg'[k] = leg[k]
  BY <1>1, <1>2 DEF IInv, TypeOK
<1>4. TypeOK'
  <2>1. leg' \in [LegId -> LegRow \cup {NoLeg}]
    BY <1>1, <1>2, <1>3 DEF IInv, TypeOK
  <2>2. QED
    BY <1>1, <2>1 DEF IInv, TypeOK
<1>5. PosInv(p)'
  BY <1>1 DEF PosInv, LegsMatch, Covered, Sound, KnownTypes, OpenStates
<1>6. QED
  BY <1>1, <1>2, <1>3, <1>4, <1>5, OnlyActor

\* A deleted position leaves no leg behind.
LEMMA DeletePositionInv ==
    ASSUME IInv, NEW p \in PosId, DeletePosition(p)
    PROVE  IInv' /\ Touches(p)
<1>1. /\ leg' = [i \in LegId |-> IF leg[i].pos = p THEN NoLeg ELSE leg[i]]
      /\ state' = [state EXCEPT ![p] = "none"]
      /\ cash' = [cash EXCEPT ![p] = 0]
      /\ edited' = edited \ {p}
  BY DEF DeletePosition
<1>2. \A i \in LegId :
        \/ leg'[i] = leg[i] /\ leg'[i].pos # p
        \/ leg[i].pos = p /\ leg'[i].pos = 0
  BY <1>1 DEF NoLeg
<1>3. state'[p] = "none" /\ \A q \in PosId \ {p} : state'[q] = state[q]
  BY <1>1 DEF IInv, TypeOK
<1>4. TypeOK'
  BY <1>1 DEF IInv, TypeOK, States
<1>5. PosInv(p)'
  BY <1>3 DEF PosInv, LegsMatch, Covered, Sound, KnownTypes, OpenStates
<1>6. \A i \in LegId : leg'[i].pos # p
  BY <1>2, IdsAssumption
<1>7. QED
  BY <1>1, <1>2, <1>3, <1>4, <1>5, <1>6, OnlyActor

-----------------------------------------------------------------------------
(* The inductive invariant *)

\* The empty database satisfies the invariant.
LEMMA InitInv == Init => IInv
<1> SUFFICES ASSUME Init PROVE IInv
  OBVIOUS
<1>1. TypeOK
  BY DEF Init, TypeOK, States
<1>2. \A i \in LegId : leg[i].pos = 0
  BY DEF Init, NoLeg
<1>3. NoOrphanLegs
  BY <1>2 DEF NoOrphanLegs, Legs
<1>4. ASSUME NEW p \in PosId PROVE PosInv(p)
  BY DEF Init, PosInv, LegsMatch, Covered, Sound, KnownTypes, OpenStates
<1>5. QED
  BY <1>1, <1>3, <1>4 DEF IInv

\* Every request keeps the invariant.
LEMMA NextInv == IInv /\ [Next]_vars => IInv'
<1> SUFFICES ASSUME IInv, [Next]_vars PROVE IInv'
  OBVIOUS
<1>1. ASSUME NEW p \in PosId, Opening(p) PROVE IInv'
  BY <1>1, OpenShortPutInv, OpenLongSharesInv, OpenCoveredCallFreshInv DEF Opening
<1>2. ASSUME NEW p \in PosId, Transition(p) PROVE IInv'
  BY <1>2, CloseShortPutInv, ExpireShortPutInv, AssignShortPutInv, OpenCoveredCallInv,
     CloseCoveredCallInv, ExpireCoveredCallInv, CalledAwayInv, CloseSharesManualInv
  DEF Transition
<1>3. ASSUME NEW p \in PosId, Correction(p) PROVE IInv'
  BY <1>3, PatchLegInv, DeletePositionInv DEF Correction
<1>4. CASE UNCHANGED vars
  BY <1>4 DEF vars, IInv, TypeOK, NoOrphanLegs, Legs, Positions, PosInv, LegsMatch,
              OnlyOpen, NoneOpen, Covered, Sound, SoundOption, SoundShares, OpenLegs,
              KnownTypes, OpenLegsOf
<1>5. QED
  BY <1>1, <1>2, <1>3, <1>4 DEF Next

\* The two tables stay well typed: no transition books a P&L that is not a
\* number, because the legs it settles carry counts and strikes.
THEOREM TypeCorrect == Spec => []TypeOK
<1>1. IInv => TypeOK
  BY DEF IInv
<1>2. QED
  BY InitInv, NextInv, <1>1, PTL DEF Spec

\* In every reachable state of the book the open legs of every position are the
\* ones its state column calls for, so a transition offered for that state finds
\* exactly the leg it looks up.
THEOREM LegsAlwaysMatch == Spec => []LegsMatchState
<1>1. IInv => LegsMatchState
  BY DEF IInv, PosInv, LegsMatchState
<1>2. QED
  BY InitInv, NextInv, <1>1, PTL DEF Spec

\* No leg ever outlives its position, so a rowid handed out again never inherits
\* rows from the position that had it before.
THEOREM NoLegOrphaned == Spec => []NoOrphanLegs
<1>1. IInv => NoOrphanLegs
  BY DEF IInv
<1>2. QED
  BY InitInv, NextInv, <1>1, PTL DEF Spec

\* The calls a position is short are always covered by its shares.
THEOREM CallsAlwaysCovered == Spec => []CallsCovered
<1>1. IInv => CallsCovered
  BY DEF IInv, PosInv, CallsCovered
<1>2. QED
  BY InitInv, NextInv, <1>1, PTL DEF Spec

-----------------------------------------------------------------------------
(* Settled legs of a running cycle *)

\* A step that writes only open legs, free rows and rows of closed positions
\* keeps every settled leg of a running cycle.
LEMMA WritesKeep ==
    ASSUME \A i \in LegId :
              \/ leg'[i] = leg[i]
              \/ leg[i].pos = 0
              \/ leg[i].outcome = "open"
              \/ state[leg[i].pos] \notin OpenStates
    PROVE  KeepsSettledLegs
  BY DEF KeepsSettledLegs, Legs

\* Every request writes only such rows.
LEMMA NextKeeps == IInv /\ [Next]_vars => [KeepsSettledLegs]_vars
<1> SUFFICES ASSUME IInv, [Next]_vars PROVE [KeepsSettledLegs]_vars
  OBVIOUS
<1> USE DEF IInv, TypeOK
<1>1. ASSUME NEW p \in PosId, Opening(p) PROVE KeepsSettledLegs
  <2>1. ASSUME NEW in \in OptionInput, OpenShortPut(p, in) PROVE KeepsSettledLegs
    BY <2>1, FreshRow, WritesKeep DEF OpenShortPut
  <2>2. ASSUME NEW in \in SharesInput, OpenLongShares(p, in) PROVE KeepsSettledLegs
    BY <2>2, FreshRow, WritesKeep DEF OpenLongShares
  <2>3. ASSUME NEW in \in SharesInput, NEW call \in OptionInput,
               OpenCoveredCallFresh(p, in, call)
        PROVE  KeepsSettledLegs
    <3>1. PICK i \in LegId :
            /\ NextRowid(Legs, i)
            /\ i + 1 \in LegId
            /\ \A k \in LegId \ {i, i + 1} : leg'[k] = leg[k]
      BY <2>3 DEF OpenCoveredCallFresh
    <3>2. leg[i].pos = 0 /\ leg[i + 1].pos = 0
      BY <3>1, IdsAssumption DEF NextRowid, Legs
    <3>3. QED
      BY <3>1, <3>2, WritesKeep
  <2>4. QED
    BY <1>1, <2>1, <2>2, <2>3 DEF Opening
<1>2. ASSUME NEW p \in PosId, Transition(p) PROVE KeepsSettledLegs
  <2>1. \A t \in LegTypes, i \in LegId : OpenLegs(p, t) = {i} => leg[i].outcome = "open"
    BY DEF OpenLegs
  <2>2. ASSUME NEW debit \in Prices, NEW fees \in Fees,
               CloseShortPut(p, debit, fees) \/ CloseCoveredCall(p, debit, fees)
        PROVE  KeepsSettledLegs
    BY <2>1, <2>2, WritesKeep DEF CloseShortPut, CloseCoveredCall, LegTypes
  <2>3. ASSUME ExpireShortPut(p) \/ ExpireCoveredCall(p) PROVE KeepsSettledLegs
    BY <2>1, <2>3, WritesKeep DEF ExpireShortPut, ExpireCoveredCall, LegTypes
  <2>4. ASSUME AssignShortPut(p) PROVE KeepsSettledLegs
    BY <2>1, <2>4, FreshRow, WritesKeep DEF AssignShortPut, LegTypes
  <2>5. ASSUME NEW in \in OptionInput, OpenCoveredCall(p, in) PROVE KeepsSettledLegs
    BY <2>5, FreshRow, WritesKeep DEF OpenCoveredCall
  <2>6. ASSUME CalledAway(p) PROVE KeepsSettledLegs
    BY <2>1, <2>6, WritesKeep DEF CalledAway, LegTypes
  <2>7. ASSUME NEW price \in Prices, NEW fees \in Fees, CloseSharesManual(p, price, fees)
        PROVE  KeepsSettledLegs
    BY <2>1, <2>7, WritesKeep DEF CloseSharesManual, LegTypes
  <2>8. QED
    BY <1>2, <2>2, <2>3, <2>4, <2>5, <2>6, <2>7 DEF Transition
<1>3. ASSUME NEW p \in PosId, Correction(p) PROVE KeepsSettledLegs
  <2>1. ASSUME NEW i \in LegId, NEW row \in PatchRows, PatchLeg(p, i, row)
        PROVE  KeepsSettledLegs
    BY <2>1, WritesKeep DEF PatchLeg, OpenStates
  <2>2. ASSUME DeletePosition(p) PROVE KeepsSettledLegs
    BY <2>2, WritesKeep DEF DeletePosition, OpenStates
  <2>3. QED
    BY <1>3, <2>1, <2>2 DEF Correction
<1>4. QED
  BY <1>1, <1>2, <1>3 DEF Next

\* What a running cycle has settled stays settled, amounts included.
THEOREM SettledLegsStayFrozen == Spec => SettledLegsFrozen
  BY InitInv, NextInv, NextKeeps, PTL DEF Spec, SettledLegsFrozen

-----------------------------------------------------------------------------
(* The book implements the abstract wheel *)

\* What a cycle holds, read off the legs its state calls for.
HoldingsShape(p) ==
    /\ state[p] \notin OpenStates => Holdings(p) = {}
    /\ \A i \in LegId :
          /\ state[p] = "short_put" /\ OpenLegs(p, "short_put") = {i}
                => Holdings(p) = {Cycle!Puts(leg[i].contracts)}
          /\ state[p] = "long_shares" /\ OpenLegs(p, "shares") = {i}
                => Holdings(p) = {Cycle!Shares(leg[i].shares)}
    /\ \A i, j \in LegId :
          state[p] = "covered_call" /\ OpenLegs(p, "shares") = {i}
             /\ OpenLegs(p, "covered_call") = {j}
                => Holdings(p) = {Cycle!Shares(leg[i].shares),
                                  Cycle!Calls(leg[j].contracts)}

AllShapes == \A p \in PosId : HoldingsShape(p)

\* An open leg is of one of the three types, so the lots of a cycle are those
\* of its put, its shares and its call.
LEMMA OpenRows ==
    ASSUME IInv, NEW p \in PosId, state[p] \in OpenStates
    PROVE  OpenLegsOf(p) = OpenLegs(p, "short_put") \cup OpenLegs(p, "shares")
                              \cup OpenLegs(p, "covered_call")
  BY DEF IInv, PosInv, KnownTypes, OpenLegs, OpenLegsOf, LegTypes

\* The invariant gives every position its shape.
LEMMA Shapes == IInv => AllShapes
<1> SUFFICES ASSUME IInv, NEW p \in PosId PROVE HoldingsShape(p)
  BY DEF AllShapes
<1>1. state[p] \notin OpenStates => Holdings(p) = {}
  BY DEF Holdings
<1>2. state[p] \in OpenStates => Holdings(p) = {Lot(i) : i \in OpenLegsOf(p)}
  BY DEF Holdings
<1>3. state[p] \in OpenStates =>
        OpenLegsOf(p) = OpenLegs(p, "short_put") \cup OpenLegs(p, "shares")
                        \cup OpenLegs(p, "covered_call")
  BY OpenRows
<1>4. /\ \A i \in OpenLegs(p, "short_put") : Lot(i) = Cycle!Puts(leg[i].contracts)
      /\ \A i \in OpenLegs(p, "shares") : Lot(i) = Cycle!Shares(leg[i].shares)
      /\ \A i \in OpenLegs(p, "covered_call") : Lot(i) = Cycle!Calls(leg[i].contracts)
  BY DEF OpenLegs, Lot, Cycle!Puts, Cycle!Shares, Cycle!Calls
<1>5. ASSUME NEW i \in LegId, state[p] = "short_put", OpenLegs(p, "short_put") = {i}
      PROVE  Holdings(p) = {Cycle!Puts(leg[i].contracts)}
  <2>1. OpenLegsOf(p) = {i}
    BY <1>3, <1>5 DEF IInv, PosInv, LegsMatch, NoneOpen, OpenStates
  <2>2. QED
    BY <1>2, <1>4, <1>5, <2>1 DEF OpenStates
<1>6. ASSUME NEW i \in LegId, state[p] = "long_shares", OpenLegs(p, "shares") = {i}
      PROVE  Holdings(p) = {Cycle!Shares(leg[i].shares)}
  <2>1. OpenLegsOf(p) = {i}
    BY <1>3, <1>6 DEF IInv, PosInv, LegsMatch, NoneOpen, OpenStates
  <2>2. QED
    BY <1>2, <1>4, <1>6, <2>1 DEF OpenStates
<1>7. ASSUME NEW i \in LegId, NEW j \in LegId, state[p] = "covered_call",
             OpenLegs(p, "shares") = {i}, OpenLegs(p, "covered_call") = {j}
      PROVE  Holdings(p) = {Cycle!Shares(leg[i].shares), Cycle!Calls(leg[j].contracts)}
  <2>1. OpenLegsOf(p) = {i, j}
    BY <1>3, <1>7 DEF IInv, PosInv, LegsMatch, NoneOpen, OpenStates
  <2>2. QED
    BY <1>2, <1>4, <1>7, <2>1 DEF OpenStates
<1>8. QED
  BY <1>1, <1>5, <1>6, <1>7 DEF HoldingsShape

\* The same after a step.
LEMMA ShapesNext == IInv' => AllShapes'
  BY Shapes, PTL

\* A step that touches only position p moves the abstract cycle p and no other.
LEMMA MoveStep ==
    ASSUME NEW p \in PosId, Touches(p),
           NEW from, NEW to, Holdings(p) = from, Holdings(p)' = to
    PROVE  Cycle!Move(p, from, to)
<1>1. ASSUME NEW q \in PosId \ {p} PROVE Holdings(q)' = Holdings(q)
  <2>1. q # 0
    BY IdsAssumption
  <2>2. \A i \in LegId : leg'[i].pos = q \/ leg[i].pos = q => leg'[i] = leg[i]
    BY <1>1, <2>1 DEF Touches
  <2>3. OpenLegsOf(q)' = OpenLegsOf(q)
    BY <2>2 DEF OpenLegsOf
  <2>4. \A i \in OpenLegsOf(q) : Lot(i)' = Lot(i)
    BY <2>2 DEF OpenLegsOf, Lot
  <2>5. state'[q] = state[q]
    BY <1>1 DEF Touches
  <2>6. QED
    BY <2>3, <2>4, <2>5 DEF Holdings
<1>2. QED
  BY <1>1 DEF Cycle!Move

\* The empty book holds nothing.
LEMMA CycleInit == Init => Cycle!Init
  BY DEF Init, Holdings, OpenStates, Cycle!Init

\* A new position acquires its lots from nothing.
LEMMA OpeningMoves ==
    ASSUME IInv, IInv', NEW p \in PosId, Opening(p)
    PROVE  Cycle!Next
<1>1. AllShapes /\ AllShapes'
  BY Shapes, ShapesNext
<1>2. HoldingsShape(p) /\ HoldingsShape(p)' /\ LegsMatch(p)'
  BY <1>1 DEF AllShapes, IInv, PosInv
<1>3. NextRowid(Positions, p) => Holdings(p) = {}
  BY <1>2, NoRowsYet DEF HoldingsShape, OpenStates
<1>4. ASSUME NEW in \in OptionInput, OpenShortPut(p, in) PROVE Cycle!Next
  <2>1. Touches(p) /\ Holdings(p) = {} /\ state'[p] = "short_put"
    BY <1>3, <1>4, OpenShortPutInv DEF OpenShortPut, NewPosition, IInv, TypeOK
  <2>2. PICK i \in LegId : leg'[i] = OptionLeg(p, "short_put", in, in.fees)
    BY <1>4 DEF OpenShortPut, IInv, TypeOK
  <2>3. OpenLegs(p, "short_put")' = {i}
    BY <1>2, <2>1, <2>2 DEF LegsMatch, OnlyOpen, OpenLegs, OptionLeg
  <2>4. Holdings(p)' = {Cycle!Puts(in.contracts)}
    BY <1>2, <2>1, <2>2, <2>3 DEF HoldingsShape, OptionLeg
  <2>5. in.contracts \in SoldContracts
    BY <1>4, ValidOptionCounts DEF OpenShortPut
  <2>6. Cycle!Move(p, {}, {Cycle!Puts(in.contracts)})
    BY <2>1, <2>4, MoveStep
  <2>7. QED
    BY <2>5, <2>6 DEF Cycle!Next, Cycle!SellPuts
<1>5. ASSUME NEW in \in SharesInput, OpenLongShares(p, in) PROVE Cycle!Next
  <2>1. Touches(p) /\ Holdings(p) = {} /\ state'[p] = "long_shares"
    BY <1>3, <1>5, OpenLongSharesInv DEF OpenLongShares, NewPosition, IInv, TypeOK
  <2>2. PICK i \in LegId : leg'[i] = SharesLeg(p, in.shares, in.cost_basis, in.fees)
    BY <1>5 DEF OpenLongShares, IInv, TypeOK
  <2>3. OpenLegs(p, "shares")' = {i}
    BY <1>2, <2>1, <2>2 DEF LegsMatch, OnlyOpen, OpenLegs, SharesLeg
  <2>4. Holdings(p)' = {Cycle!Shares(in.shares)}
    BY <1>2, <2>1, <2>2, <2>3 DEF HoldingsShape, SharesLeg
  <2>5. in.shares \in ShareLots
    BY <1>5, ValidSharesCount DEF OpenLongShares
  <2>6. Cycle!Move(p, {}, {Cycle!Shares(in.shares)})
    BY <2>1, <2>4, MoveStep
  <2>7. QED
    BY <2>5, <2>6 DEF Cycle!Next, Cycle!AcquireShares
<1>6. ASSUME NEW in \in SharesInput, NEW call \in OptionInput,
             OpenCoveredCallFresh(p, in, call)
      PROVE  Cycle!Next
  <2>1. Touches(p) /\ Holdings(p) = {} /\ state'[p] = "covered_call"
    BY <1>3, <1>6, OpenCoveredCallFreshInv
    DEF OpenCoveredCallFresh, NewPosition, IInv, TypeOK
  <2>2. PICK i \in LegId :
          /\ i + 1 \in LegId /\ i + 1 # i
          /\ leg'[i] = SharesLeg(p, in.shares, in.cost_basis, in.fees)
          /\ leg'[i + 1] = OptionLeg(p, "covered_call", call, 0)
    <3>1. PICK i \in LegId :
            /\ i + 1 \in LegId
            /\ leg' = [leg EXCEPT
                  ![i] = SharesLeg(p, in.shares, in.cost_basis, in.fees),
                  ![i + 1] = OptionLeg(p, "covered_call", call, 0)]
      BY <1>6 DEF OpenCoveredCallFresh
    <3>2. i + 1 # i
      BY IdsAssumption
    <3>3. QED
      BY <3>1, <3>2 DEF IInv, TypeOK
  <2>3. OpenLegs(p, "shares")' = {i} /\ OpenLegs(p, "covered_call")' = {i + 1}
    BY <1>2, <2>1, <2>2 DEF LegsMatch, OnlyOpen, OpenLegs, SharesLeg, OptionLeg
  <2>4. Holdings(p)' = {Cycle!Shares(in.shares), Cycle!Calls(call.contracts)}
    BY <1>2, <2>1, <2>2, <2>3 DEF HoldingsShape, SharesLeg, OptionLeg
  <2>5. /\ in.shares \in ShareLots /\ call.contracts \in SoldContracts
        /\ call.contracts * CONTRACT_MULTIPLIER <= in.shares
    BY <1>6, ValidSharesCount, ValidOptionCounts DEF OpenCoveredCallFresh
  <2>6. Cycle!Move(p, {}, {Cycle!Shares(in.shares), Cycle!Calls(call.contracts)})
    BY <2>1, <2>4, MoveStep
  <2>7. QED
    BY <2>5, <2>6 DEF Cycle!Next, Cycle!AcquireCovered
<1>7. QED
  BY <1>4, <1>5, <1>6 DEF Opening

\* A transition moves the lots of its cycle along one edge of the wheel.
LEMMA TransitionMoves ==
    ASSUME IInv, IInv', NEW p \in PosId, Transition(p)
    PROVE  Cycle!Next
<1>1. AllShapes /\ AllShapes'
  BY Shapes, ShapesNext
<1>2. HoldingsShape(p) /\ HoldingsShape(p)' /\ LegsMatch(p) /\ LegsMatch(p)'
  BY <1>1 DEF AllShapes, IInv, PosInv
<1>3. \A s : Becomes(p, s) => state'[p] = s
  BY DEF Becomes, IInv, TypeOK
<1>4. ASSUME NEW i \in LegId, state[p] = "short_put", OpenLegs(p, "short_put") = {i}
      PROVE  leg[i].contracts \in SoldContracts
             /\ Holdings(p) = {Cycle!Puts(leg[i].contracts)}
  BY <1>2, <1>4, FoundOptionInt DEF HoldingsShape, OpenStates
<1>5. ASSUME NEW i \in LegId, state[p] = "long_shares", OpenLegs(p, "shares") = {i}
      PROVE  leg[i].shares \in ShareLots
             /\ Holdings(p) = {Cycle!Shares(leg[i].shares)}
  BY <1>2, <1>5, FoundSharesInt DEF HoldingsShape, OpenStates
<1>6. ASSUME NEW i \in LegId, NEW j \in LegId, state[p] = "covered_call",
             OpenLegs(p, "shares") = {i}, OpenLegs(p, "covered_call") = {j}
      PROVE  /\ leg[i].shares \in ShareLots /\ leg[j].contracts \in SoldContracts
             /\ Holdings(p) = {Cycle!Shares(leg[i].shares), Cycle!Calls(leg[j].contracts)}
  BY <1>2, <1>6, FoundSharesInt, FoundOptionInt DEF HoldingsShape, OpenStates
<1>7. state'[p] = "closed" => Holdings(p)' = {}
  BY <1>2 DEF HoldingsShape, OpenStates
<1>8. ASSUME \/ \E debit \in Prices, fees \in Fees : CloseShortPut(p, debit, fees)
             \/ ExpireShortPut(p)
      PROVE  Cycle!Next
  <2>1. PICK i \in LegId : OpenLegs(p, "short_put") = {i}
    BY <1>8 DEF CloseShortPut, ExpireShortPut
  <2>2. state[p] = "short_put" /\ state'[p] = "closed"
    BY <1>3, <1>8 DEF CloseShortPut, ExpireShortPut
  <2>3. Touches(p)
    BY <1>8, CloseShortPutInv, ExpireShortPutInv
  <2>4. Cycle!Move(p, {Cycle!Puts(leg[i].contracts)}, {})
    BY <1>4, <1>7, <2>1, <2>2, <2>3, MoveStep
  <2>5. QED
    BY <1>4, <2>1, <2>2, <2>4 DEF Cycle!Next, Cycle!PutsEnd
<1>9. ASSUME AssignShortPut(p) PROVE Cycle!Next
  <2>1. PICK i \in LegId, j \in LegId :
          /\ OpenLegs(p, "short_put") = {i}
          /\ NextRowid(Legs, j)
          /\ leg' = [leg EXCEPT
                ![i] = SettledOption(@, "assigned", 0, 0),
                ![j] = SharesLeg(p, leg[i].contracts * CONTRACT_MULTIPLIER,
                                 leg[i].strike, 0)]
    BY <1>9 DEF AssignShortPut
  <2>2. state[p] = "short_put" /\ state'[p] = "long_shares"
    BY <1>3, <1>9 DEF AssignShortPut
  <2>3. PICK n \in SoldContracts : n = leg[i].contracts
    BY <1>4, <2>1, <2>2
  <2>4. leg'[j] = SharesLeg(p, n * CONTRACT_MULTIPLIER, leg[i].strike, 0)
    BY <2>1, <2>3 DEF IInv, TypeOK
  <2>5. OpenLegs(p, "shares")' = {j}
    BY <1>2, <2>2, <2>4 DEF LegsMatch, OnlyOpen, OpenLegs, SharesLeg
  <2>6. Holdings(p)' = {Cycle!Shares(n * CONTRACT_MULTIPLIER)}
    <3>1. leg'[j].shares = n * CONTRACT_MULTIPLIER
      BY <2>4 DEF SharesLeg
    <3>2. Holdings(p)' = {Cycle!Shares(leg'[j].shares)}
      BY <1>2, <2>2, <2>5 DEF HoldingsShape
    <3>3. QED
      BY <3>1, <3>2
  <2>7. Touches(p)
    BY <1>9, AssignShortPutInv
  <2>8. Holdings(p) = {Cycle!Puts(n)}
    BY <1>4, <2>1, <2>2, <2>3
  <2>9. Cycle!Move(p, {Cycle!Puts(n)}, {Cycle!Shares(n * CONTRACT_MULTIPLIER)})
    BY <2>6, <2>7, <2>8, MoveStep
  <2>10. QED
    BY <2>9 DEF Cycle!Next, Cycle!PutsAssigned
<1>10. ASSUME NEW in \in OptionInput, OpenCoveredCall(p, in) PROVE Cycle!Next
  <2>1. PICK i \in LegId, j \in LegId :
          /\ OpenLegs(p, "shares") = {i}
          /\ in.contracts * CONTRACT_MULTIPLIER <= leg[i].shares
          /\ NextRowid(Legs, j)
          /\ leg' = [leg EXCEPT ![j] = OptionLeg(p, "covered_call", in, in.fees)]
    BY <1>10 DEF OpenCoveredCall
  <2>2. state[p] = "long_shares" /\ state'[p] = "covered_call"
    BY <1>3, <1>10 DEF OpenCoveredCall
  <2>3. leg'[j] = OptionLeg(p, "covered_call", in, in.fees) /\ leg'[i] = leg[i]
    <3>1. i # j
      BY <2>1, FreshRow, IdsAssumption DEF OpenLegs
    <3>2. QED
      BY <2>1, <3>1 DEF IInv, TypeOK
  <2>4. OpenLegs(p, "covered_call")' = {j} /\ OpenLegs(p, "shares")' = {i}
    BY <1>2, <2>1, <2>2, <2>3 DEF LegsMatch, OnlyOpen, OpenLegs, OptionLeg
  <2>5. Holdings(p)' = {Cycle!Shares(leg[i].shares), Cycle!Calls(in.contracts)}
    BY <1>2, <2>2, <2>3, <2>4 DEF HoldingsShape, OptionLeg
  <2>6. in.contracts \in SoldContracts
    BY <1>10, ValidOptionCounts DEF OpenCoveredCall
  <2>7. Touches(p)
    BY <1>10, OpenCoveredCallInv
  <2>8. Cycle!Move(p, {Cycle!Shares(leg[i].shares)},
                   {Cycle!Shares(leg[i].shares), Cycle!Calls(in.contracts)})
    BY <1>5, <2>1, <2>2, <2>5, <2>7, MoveStep
  <2>9. QED
    BY <1>5, <2>1, <2>2, <2>6, <2>8 DEF Cycle!Next, Cycle!WriteCalls
<1>11. ASSUME \/ \E debit \in Prices, fees \in Fees : CloseCoveredCall(p, debit, fees)
              \/ ExpireCoveredCall(p)
       PROVE  Cycle!Next
  <2>1. PICK j \in LegId, o \in Outcomes :
          /\ OpenLegs(p, "covered_call") = {j}
          /\ \E exit, fees :
                leg' = [leg EXCEPT ![j] = SettledOption(@, o, exit, fees)]
    BY <1>11 DEF CloseCoveredCall, ExpireCoveredCall, Outcomes
  <2>2. state[p] = "covered_call" /\ state'[p] = "long_shares"
    BY <1>3, <1>11 DEF CloseCoveredCall, ExpireCoveredCall
  <2>3. PICK i \in LegId : OpenLegs(p, "shares") = {i}
    BY <1>2, <2>2 DEF LegsMatch, OnlyOpen
  <2>4. leg'[i] = leg[i]
    BY <2>1, <2>3 DEF IInv, TypeOK, OpenLegs
  <2>5. OpenLegs(p, "shares")' = {i}
    BY <1>2, <2>2, <2>3, <2>4 DEF LegsMatch, OnlyOpen, OpenLegs
  <2>6. Holdings(p)' = {Cycle!Shares(leg[i].shares)}
    BY <1>2, <2>2, <2>4, <2>5 DEF HoldingsShape
  <2>7. Touches(p)
    BY <1>11, CloseCoveredCallInv, ExpireCoveredCallInv
  <2>8. Cycle!Move(p, {Cycle!Shares(leg[i].shares), Cycle!Calls(leg[j].contracts)},
                   {Cycle!Shares(leg[i].shares)})
    BY <1>6, <2>1, <2>2, <2>3, <2>6, <2>7, MoveStep
  <2>9. QED
    BY <1>6, <2>1, <2>2, <2>3, <2>8 DEF Cycle!Next, Cycle!CallsEnd
<1>12. ASSUME CalledAway(p) PROVE Cycle!Next
  <2>1. PICK i \in LegId, j \in LegId :
          OpenLegs(p, "covered_call") = {j} /\ OpenLegs(p, "shares") = {i}
    BY <1>12 DEF CalledAway
  <2>2. state[p] = "covered_call" /\ state'[p] = "closed"
    BY <1>3, <1>12 DEF CalledAway
  <2>3. Touches(p)
    BY <1>12, CalledAwayInv
  <2>4. Cycle!Move(p, {Cycle!Shares(leg[i].shares), Cycle!Calls(leg[j].contracts)}, {})
    BY <1>6, <1>7, <2>1, <2>2, <2>3, MoveStep
  <2>5. QED
    BY <1>6, <2>1, <2>2, <2>4 DEF Cycle!Next, Cycle!CalledAway
<1>13. ASSUME NEW price \in Prices, NEW fees \in Fees, CloseSharesManual(p, price, fees)
       PROVE  Cycle!Next
  <2>1. PICK i \in LegId : OpenLegs(p, "shares") = {i}
    BY <1>13 DEF CloseSharesManual
  <2>2. state[p] = "long_shares" /\ state'[p] = "closed"
    BY <1>3, <1>13 DEF CloseSharesManual
  <2>3. Touches(p)
    BY <1>13, CloseSharesManualInv
  <2>4. Cycle!Move(p, {Cycle!Shares(leg[i].shares)}, {})
    BY <1>5, <1>7, <2>1, <2>2, <2>3, MoveStep
  <2>5. QED
    BY <1>5, <2>1, <2>2, <2>4 DEF Cycle!Next, Cycle!SellShares
<1>14. QED
  BY <1>8, <1>9, <1>10, <1>11, <1>12, <1>13 DEF Transition

\* Correcting or deleting a closed cycle leaves every lot where it is.
LEMMA CorrectionStutters ==
    ASSUME IInv, IInv', NEW p \in PosId, Correction(p)
    PROVE  \A q \in PosId : Holdings(q)' = Holdings(q)
<1>1. AllShapes /\ AllShapes'
  BY Shapes, ShapesNext
<1>2. Touches(p)
  BY PatchLegInv, DeletePositionInv DEF Correction
<1>3. state[p] \notin OpenStates /\ state'[p] \notin OpenStates
  BY DEF Correction, PatchLeg, DeletePosition, OpenStates, IInv, TypeOK
<1>4. Holdings(p) = {} /\ Holdings(p)' = {}
  BY <1>1, <1>3 DEF AllShapes, HoldingsShape
<1>5. ASSUME NEW q \in PosId \ {p} PROVE Holdings(q)' = Holdings(q)
  <2>1. Cycle!Move(p, {}, {})
    BY <1>2, <1>4, MoveStep
  <2>2. QED
    BY <2>1 DEF Cycle!Move
<1>6. QED
  BY <1>4, <1>5

\* Every request is a step of the abstract wheel or a stutter.
LEMMA CycleStep ==
    IInv /\ IInv' /\ [Next]_vars
        => [Cycle!Next]_([p \in PosId |-> Holdings(p)])
<1> SUFFICES ASSUME IInv, IInv', [Next]_vars
             PROVE  [Cycle!Next]_([p \in PosId |-> Holdings(p)])
  OBVIOUS
<1>1. CASE UNCHANGED vars
  BY <1>1 DEF vars, Holdings, Lot, OpenLegsOf
<1>2. ASSUME NEW p \in PosId, Opening(p) \/ Transition(p) PROVE Cycle!Next
  BY <1>2, OpeningMoves, TransitionMoves
<1>3. ASSUME NEW p \in PosId, Correction(p)
      PROVE  UNCHANGED [q \in PosId |-> Holdings(q)]
  BY <1>3, CorrectionStutters
<1>4. QED
  BY <1>1, <1>2, <1>3 DEF Next

\* The position book implements the wheel: whatever requests arrive, what a
\* cycle holds moves only along the edges of the state graph, with quantities
\* that match from one edge to the next.
THEOREM BookImplementsWheel == Spec => ImplementsCycle
<1>1. Spec => []IInv
  BY InitInv, NextInv, PTL DEF Spec
<1>2. QED
  BY <1>1, CycleInit, CycleStep, PTL DEF Spec, ImplementsCycle, Cycle!Spec

-----------------------------------------------------------------------------
(* The ledger: what attribution.py reports is the cash that the trades moved *)

Rows(L, p) == {i \in LegId : L[i].pos = p}

\* BookedValue of a row, whichever table of legs it stands in.
RowValue(l) ==
    IF l.outcome # "open" THEN IF l.realized_pnl = Null THEN 0 ELSE l.realized_pnl
    ELSE IF l.leg_type = "shares" THEN -(l.entry_price * l.shares) - l.fees
    ELSE l.entry_price * l.contracts * CONTRACT_MULTIPLIER - l.fees

RowWhole(l) == l.leg_type \in LegTypes /\ RowValue(l) \in Int

Booked(L, p) == SumFunction([i \in Rows(L, p) |-> RowValue(L[i])])

Whole(L, p) == IsFiniteSet(Rows(L, p)) /\ \A i \in Rows(L, p) : RowWhole(L[i])

\* The legs that a cycle in state s has seen: it starts with a put or with one
\* lot of shares, and shares that a put was assigned into cost no fees.
Course(L, p, s) ==
    /\ s = "closed" => \A i \in Rows(L, p) : L[i].outcome # "open"
    /\ s = "short_put" =>
          \A i \in Rows(L, p) : L[i].leg_type = "short_put" /\ L[i].outcome = "open"
    /\ s \in {"long_shares", "covered_call"} =>
          /\ \A i, j \in Rows(L, p) :
                L[i].leg_type = "shares" /\ L[j].leg_type = "shares" => i = j
          /\ \A i \in Rows(L, p) :
                /\ L[i].leg_type = "shares" => L[i].outcome = "open"
                /\ L[i].leg_type = "short_put" => L[i].outcome # "open"
          /\ \A i, j \in Rows(L, p) :
                L[i].leg_type = "short_put" /\ L[j].leg_type = "shares" => L[j].fees = 0
    /\ s = "long_shares" =>
          \A i \in Rows(L, p) : L[i].leg_type # "shares" => L[i].outcome # "open"

\* The money of a cycle in state s that has moved the cash c.
Kept(L, p, s, c) == Whole(L, p) /\ Course(L, p, s) /\ c = Booked(L, p)

\* The inductive invariant of the ledger.
LedgerInv == IInv /\ \A p \in Positions \ edited : Kept(leg, p, state[p], cash[p])

LEMMA BookedInt ==
    ASSUME NEW L, NEW p, Whole(L, p)
    PROVE  Booked(L, p) \in Int
  <1> DEFINE f == [i \in Rows(L, p) |-> RowValue(L[i])]
  <1>1. IsFiniteSet(DOMAIN f) /\ \A i \in DOMAIN f : f[i] \in Int
    BY DEF Whole, RowWhole
  <1> HIDE DEF f
  <1>2. SumFunction(f) \in Int
    BY <1>1, SumFunctionInt
  <1>3. QED
    BY <1>2 DEF Booked, f

\* M is L with a row i that joins a cycle.
Joins(L, M, p, i) ==
    /\ i \in LegId \ Rows(L, p) /\ M[i].pos = p /\ RowWhole(M[i])
    /\ \A k \in LegId \ {i} : M[k] = L[k]

\* A row that joins a cycle adds its value.
LEMMA RowJoins ==
    ASSUME NEW L, NEW M, NEW p, NEW i, Whole(L, p), Joins(L, M, p, i)
    PROVE  /\ Rows(M, p) = Rows(L, p) \cup {i}
           /\ \A k \in Rows(L, p) : M[k] = L[k]
           /\ Whole(M, p)
           /\ Booked(M, p) = Booked(L, p) + RowValue(M[i])
  <1> USE DEF Joins
  <1>1. Rows(M, p) = Rows(L, p) \cup {i} /\ \A k \in Rows(L, p) : k # i /\ M[k] = L[k]
    BY DEF Rows
  <1>2. Whole(M, p)
    BY <1>1, FS_AddElement DEF Whole
  <1> DEFINE f == [k \in Rows(L, p) |-> RowValue(L[k])]
             g == [k \in Rows(M, p) |-> RowValue(M[k])]
  <1>3. /\ IsFiniteSet(DOMAIN f) /\ i \notin DOMAIN f /\ DOMAIN g = DOMAIN f \cup {i}
        /\ \A k \in DOMAIN f : f[k] \in Int /\ g[k] = f[k]
        /\ g[i] = RowValue(M[i]) /\ g[i] \in Int
    BY <1>1 DEF Whole, RowWhole
  <1>4. Booked(L, p) = SumFunction(f) /\ Booked(M, p) = SumFunction(g)
    BY DEF Booked
  <1> HIDE DEF f, g
  <1>5. SumFunction(g) = SumFunction(f) + g[i]
    BY <1>3, SumFunctionAdd
  <1>6. QED
    BY <1>1, <1>2, <1>3, <1>4, <1>5

\* M is L with row i of a cycle rewritten.
Rewrites(L, M, p, i) ==
    /\ i \in Rows(L, p) /\ M[i].pos = p /\ RowWhole(M[i])
    /\ \A k \in LegId \ {i} : M[k] = L[k]

\* A row of a cycle that is rewritten changes the sum by what it changes.
LEMMA RowRewritten ==
    ASSUME NEW L, NEW M, NEW p, NEW i, Whole(L, p), Rewrites(L, M, p, i)
    PROVE  /\ Rows(M, p) = Rows(L, p)
           /\ Whole(M, p)
           /\ Booked(M, p) = Booked(L, p) - RowValue(L[i]) + RowValue(M[i])
  <1> USE DEF Rewrites
  <1>1. Rows(M, p) = Rows(L, p) /\ i \in LegId /\ L[i].pos = p
    BY DEF Rows
  <1>2. Whole(M, p)
    BY <1>1 DEF Whole, Rows
  <1> DEFINE f == [k \in Rows(L, p) |-> RowValue(L[k])]
             g == [k \in Rows(M, p) |-> RowValue(M[k])]
             h == [k \in Rows(L, p) \ {i} |-> RowValue(L[k])]
  <1>3. /\ IsFiniteSet(DOMAIN f) /\ i \in DOMAIN f /\ f[i] = RowValue(L[i])
        /\ \A k \in DOMAIN f : f[k] \in Int
        /\ DOMAIN h = DOMAIN f \ {i} /\ \A k \in DOMAIN h : h[k] = f[k]
    BY DEF Whole, RowWhole
  <1>4. /\ DOMAIN g = DOMAIN h \cup {i} /\ g[i] = RowValue(M[i]) /\ g[i] \in Int
        /\ \A k \in DOMAIN h : g[k] = h[k]
    BY <1>1 DEF RowWhole, Rows
  <1>5. Booked(L, p) = SumFunction(f) /\ Booked(M, p) = SumFunction(g)
    BY DEF Booked
  <1> HIDE DEF f, g, h
  <1>6. IsFiniteSet(DOMAIN h) /\ i \notin DOMAIN h
    BY <1>3, FS_Subset
  <1>7. SumFunction(h) = SumFunction(f) - f[i]
    BY <1>3, SumFunctionRemove
  <1>8. SumFunction(g) = SumFunction(h) + g[i]
    BY <1>3, <1>4, <1>6, SumFunctionAdd
  <1>9. QED
    BY <1>1, <1>2, <1>3, <1>4, <1>5, <1>7, <1>8

\* A cycle none of whose rows changes keeps its money.
LEMMA Undisturbed ==
    ASSUME NEW L, NEW M, NEW p, NEW s, NEW c, Kept(L, p, s, c),
           \A k \in LegId : (L[k].pos = p \/ M[k].pos = p) => M[k] = L[k]
    PROVE  Kept(M, p, s, c)
  <1>1. Rows(M, p) = Rows(L, p) /\ \A k \in Rows(L, p) : M[k] = L[k]
    BY DEF Rows
  <1>2. Whole(M, p) /\ Course(M, p, s)
    BY <1>1 DEF Kept, Whole, Course
  <1> DEFINE f == [k \in Rows(L, p) |-> RowValue(L[k])]
             g == [k \in Rows(M, p) |-> RowValue(M[k])]
  <1>3. f = g
    BY <1>1
  <1>4. QED
    BY <1>2, <1>3 DEF Kept, Booked

\* A step of one position keeps the ledger as soon as it keeps it for that one.
LEMMA OnlyActorPaid ==
    ASSUME LedgerInv, NEW p \in PosId, IInv' /\ Touches(p),
           \A q \in PosId \ {p} : cash'[q] = cash[q] /\ (q \in edited <=> q \in edited'),
           p \in Positions' \ edited' => Kept(leg', p, state'[p], cash'[p])
    PROVE  LedgerInv'
  <1>1. ASSUME NEW q \in PosId \ {p}, state'[q] # "none", q \notin edited'
        PROVE  Kept(leg', q, state'[q], cash'[q])
    <2>1. state'[q] = state[q] /\ q \in Positions \ edited /\ cash'[q] = cash[q]
      BY <1>1 DEF Touches, Positions
    <2>2. Kept(leg, q, state[q], cash[q])
      BY <2>1 DEF LedgerInv
    <2>3. \A k \in LegId : (leg[k].pos = q \/ leg'[k].pos = q) => leg'[k] = leg[k]
      BY IdsAssumption DEF Touches
    <2>4. QED
      BY <2>1, <2>2, <2>3, Undisturbed
  <1>2. \A q \in Positions' \ edited' : Kept(leg', q, state'[q], cash'[q])
    BY <1>1 DEF Positions
  <1>3. QED
    BY <1>2 DEF LedgerInv

\* What the rows that a request writes are worth.
LEMMA ProductsInt ==
    /\ \A a, b \in Int : a * b \in Int
    /\ \A a, b, c, d \in Int : (a - b) * c * d = a * c * d - b * c * d
    /\ \A a, b, c \in Int : (a - b) * c = a * c - b * c
  OBVIOUS

LEMMA OptionWorth ==
    ASSUME NEW p \in PosId, NEW t \in {"short_put", "covered_call"},
           NEW in \in OptionInput, NEW fees \in Int
    PROVE  /\ RowWhole(OptionLeg(p, t, in, fees))
           /\ RowValue(OptionLeg(p, t, in, fees)) = Premium(in) - fees
  <1> DEFINE l == OptionLeg(p, t, in, fees)
  <1>1. /\ l.outcome = "open" /\ l.leg_type = t /\ l.entry_price = in.credit
        /\ l.contracts = in.contracts /\ l.fees = fees
    BY DEF OptionLeg
  <1> HIDE DEF l
  <1>2. RowValue(l) = Premium(in) - fees
    BY <1>1 DEF RowValue, Premium
  <1>3. RowWhole(l)
    BY <1>1, <1>2, PremiumInt DEF RowWhole, LegTypes
  <1>4. QED
    BY <1>2, <1>3 DEF l

LEMMA SharesWorth ==
    ASSUME NEW p \in PosId, NEW shares \in Int, NEW price \in Int, NEW fees \in Int
    PROVE  /\ RowWhole(SharesLeg(p, shares, price, fees))
           /\ RowValue(SharesLeg(p, shares, price, fees)) = -(price * shares) - fees
  <1> DEFINE l == SharesLeg(p, shares, price, fees)
  <1>1. /\ l.outcome = "open" /\ l.leg_type = "shares" /\ l.entry_price = price
        /\ l.shares = shares /\ l.fees = fees
    BY DEF SharesLeg
  <1> HIDE DEF l
  <1>2. RowValue(l) = -(price * shares) - fees
    BY <1>1 DEF RowValue
  <1>3. -(price * shares) - fees \in Int
    BY ProductsInt
  <1>4. RowWhole(l)
    BY <1>1, <1>2, <1>3 DEF RowWhole, LegTypes
  <1>5. QED
    BY <1>2, <1>4 DEF l

\* Settling an option leg books what it cost to leave it, and its fees once.
LEMMA SettlementWorth ==
    ASSUME NEW l \in LegRow, SoundOption(l), l.outcome = "open",
           l.leg_type \in {"short_put", "covered_call"},
           NEW o \in Outcomes \ {"open"}, NEW exit \in Int, NEW fees \in Int
    PROVE  /\ RowWhole(SettledOption(l, o, exit, fees))
           /\ SettledOption(l, o, exit, fees).leg_type = l.leg_type
           /\ SettledOption(l, o, exit, fees).outcome # "open"
           /\ RowValue(SettledOption(l, o, exit, fees)) =
                 RowValue(l) - exit * l.contracts * CONTRACT_MULTIPLIER - fees
           /\ RowValue(l) \in Int
           /\ exit * l.contracts * CONTRACT_MULTIPLIER \in Int
  <1> DEFINE m == SettledOption(l, o, exit, fees)
             paid == exit * l.contracts * CONTRACT_MULTIPLIER
             got == l.entry_price * l.contracts * CONTRACT_MULTIPLIER
  <1>1. l.contracts \in Int /\ l.entry_price \in Int /\ l.fees \in Int
    BY Amounts DEF SoundOption, LegRow
  <1>2. /\ paid \in Int /\ got \in Int
        /\ (l.entry_price - exit) * l.contracts * CONTRACT_MULTIPLIER = got - paid
    BY <1>1, InputInts, ProductsInt
  <1>3. /\ m.leg_type = l.leg_type /\ m.outcome = o
        /\ m.realized_pnl = (l.entry_price - exit) * l.contracts * CONTRACT_MULTIPLIER
                               - (l.fees + fees)
    BY DEF SettledOption, OptionCreditPnl, LegRow
  <1>4. RowValue(l) = got - l.fees
    BY DEF RowValue
  <1> HIDE DEF m, paid, got
  <1>5. m.realized_pnl = got - l.fees - paid - fees /\ m.realized_pnl \in Int
    BY <1>1, <1>2, <1>3
  <1>6. RowValue(m) = m.realized_pnl
    BY <1>3, <1>5, NullAssumption DEF RowValue
  <1>7. RowWhole(m)
    BY <1>3, <1>5, <1>6 DEF RowWhole, LegTypes
  <1>8. RowValue(l) \in Int /\ RowValue(m) = RowValue(l) - paid - fees
    BY <1>1, <1>2, <1>4, <1>5, <1>6
  <1>9. QED
    BY <1>2, <1>3, <1>7, <1>8 DEF m, paid

\* Selling a shares leg books its proceeds, and its fees once.
LEMMA SaleWorth ==
    ASSUME NEW l \in LegRow, SoundShares(l), l.outcome = "open", l.leg_type = "shares",
           NEW o \in Outcomes \ {"open"}, NEW price \in Int, NEW fees \in Int
    PROVE  /\ RowWhole(SoldShares(l, o, price, fees))
           /\ SoldShares(l, o, price, fees).leg_type = "shares"
           /\ SoldShares(l, o, price, fees).outcome # "open"
           /\ RowValue(SoldShares(l, o, price, fees)) = RowValue(l) + price * l.shares - fees
           /\ RowValue(l) \in Int /\ price * l.shares \in Int
  <1> DEFINE m == SoldShares(l, o, price, fees)
             got == price * l.shares
             cost == l.entry_price * l.shares
  <1>1. l.shares \in Int /\ l.entry_price \in Int /\ l.fees \in Int
    BY Amounts DEF SoundShares, LegRow
  <1>2. got \in Int /\ cost \in Int /\ (price - l.entry_price) * l.shares = got - cost
    BY <1>1, ProductsInt
  <1>3. /\ m.leg_type = "shares" /\ m.outcome = o
        /\ m.realized_pnl = (price - l.entry_price) * l.shares - (l.fees + fees)
    BY DEF SoldShares, LegRow
  <1>4. RowValue(l) = -cost - l.fees
    BY DEF RowValue
  <1> HIDE DEF m, got, cost
  <1>5. m.realized_pnl = got - cost - l.fees - fees /\ m.realized_pnl \in Int
    BY <1>1, <1>2, <1>3
  <1>6. RowValue(m) = m.realized_pnl
    BY <1>3, <1>5, NullAssumption DEF RowValue
  <1>7. RowWhole(m)
    BY <1>3, <1>5, <1>6 DEF RowWhole, LegTypes
  <1>8. RowValue(l) \in Int /\ RowValue(m) = RowValue(l) + got - fees
    BY <1>1, <1>2, <1>4, <1>5, <1>6
  <1>9. QED
    BY <1>2, <1>3, <1>7, <1>8 DEF m, got

\* A new position starts with no rows and no money.
LEMMA NothingBooked ==
    ASSUME NEW L, NEW p, \A k \in LegId : L[k].pos # p
    PROVE  Rows(L, p) = {} /\ Whole(L, p) /\ Booked(L, p) = 0
  <1>1. Rows(L, p) = {}
    BY DEF Rows
  <1>2. Whole(L, p)
    BY <1>1, FS_EmptySet DEF Whole
  <1> DEFINE f == [i \in Rows(L, p) |-> RowValue(L[i])]
  <1>3. DOMAIN f = {}
    BY <1>1
  <1> HIDE DEF f
  <1>4. SumFunction(f) = 0
    BY <1>3, SumFunctionEmpty
  <1>5. QED
    BY <1>1, <1>2, <1>4 DEF Booked, f

LEMMA NewPositionPaid ==
    ASSUME IInv, NEW p \in PosId, NEW s, NEW paid, NewPosition(p, s, paid)
    PROVE  /\ state'[p] = s /\ cash'[p] = paid
           /\ \A q \in PosId \ {p} : cash'[q] = cash[q] /\ (q \in edited <=> q \in edited')
           /\ \A k \in LegId : leg[k].pos # p
  <1>1. \A k \in LegId : leg[k].pos # p
    BY NoRowsYet DEF NewPosition
  <1>2. QED
    BY <1>1 DEF NewPosition, IInv, TypeOK

\* A cycle that opens with one leg has moved the money of that leg.
LEMMA FirstLegKept ==
    ASSUME NEW L, NEW M, NEW p, NEW i \in LegId, \A k \in LegId : L[k].pos # p,
           \A k \in LegId \ {i} : M[k] = L[k],
           M[i].pos = p, RowWhole(M[i]), M[i].outcome = "open",
           NEW s, \/ s = "short_put" /\ M[i].leg_type = "short_put"
                  \/ s = "long_shares" /\ M[i].leg_type = "shares"
    PROVE  Kept(M, p, s, RowValue(M[i]))
  <1>1. Rows(L, p) = {} /\ Whole(L, p) /\ Booked(L, p) = 0
    BY NothingBooked
  <1>2. Joins(L, M, p, i)
    BY <1>1 DEF Joins
  <1>3. Rows(M, p) = {i} /\ Whole(M, p) /\ Booked(M, p) = 0 + RowValue(M[i])
    BY <1>1, <1>2, RowJoins
  <1>4. Course(M, p, s)
    BY <1>3 DEF Course
  <1>5. QED
    BY <1>3, <1>4 DEF Kept, RowWhole

LEMMA OpenShortPutPaid ==
    ASSUME LedgerInv, NEW p \in PosId, NEW in \in OptionInput, OpenShortPut(p, in)
    PROVE  LedgerInv'
  <1>1. IInv /\ IInv' /\ Touches(p)
    BY OpenShortPutInv DEF LedgerInv
  <1>2. PICK i \in LegId : leg' = [leg EXCEPT ![i] = OptionLeg(p, "short_put", in, in.fees)]
    BY DEF OpenShortPut
  <1>3. /\ leg'[i] = OptionLeg(p, "short_put", in, in.fees)
        /\ \A k \in LegId \ {i} : leg'[k] = leg[k]
    BY <1>1, <1>2 DEF IInv, TypeOK
  <1>4. /\ state'[p] = "short_put" /\ cash'[p] = Premium(in) - in.fees
        /\ \A q \in PosId \ {p} : cash'[q] = cash[q] /\ (q \in edited <=> q \in edited')
        /\ \A k \in LegId : leg[k].pos # p
    BY <1>1, NewPositionPaid DEF OpenShortPut
  <1>5. RowWhole(leg'[i]) /\ RowValue(leg'[i]) = Premium(in) - in.fees
    BY <1>3, OptionWorth, PremiumInt
  <1>6. leg'[i].pos = p /\ leg'[i].outcome = "open" /\ leg'[i].leg_type = "short_put"
    BY <1>3 DEF OptionLeg
  <1>7. Kept(leg', p, state'[p], cash'[p])
    <2>1. Kept(leg', p, "short_put", RowValue(leg'[i]))
      BY <1>3, <1>4, <1>5, <1>6, FirstLegKept
    <2>2. QED
      BY <1>4, <1>5, <2>1
  <1>8. QED
    BY <1>1, <1>4, <1>7, OnlyActorPaid

LEMMA OpenLongSharesPaid ==
    ASSUME LedgerInv, NEW p \in PosId, NEW in \in SharesInput, OpenLongShares(p, in)
    PROVE  LedgerInv'
  <1>1. IInv /\ IInv' /\ Touches(p)
    BY OpenLongSharesInv DEF LedgerInv
  <1>2. PICK i \in LegId : leg' = [leg EXCEPT ![i] = SharesLeg(p, in.shares, in.cost_basis, in.fees)]
    BY DEF OpenLongShares
  <1>3. /\ leg'[i] = SharesLeg(p, in.shares, in.cost_basis, in.fees)
        /\ \A k \in LegId \ {i} : leg'[k] = leg[k]
    BY <1>1, <1>2 DEF IInv, TypeOK
  <1>4. /\ state'[p] = "long_shares" /\ cash'[p] = -(in.cost_basis * in.shares) - in.fees
        /\ \A q \in PosId \ {p} : cash'[q] = cash[q] /\ (q \in edited <=> q \in edited')
        /\ \A k \in LegId : leg[k].pos # p
    BY <1>1, NewPositionPaid DEF OpenLongShares
  <1>5. RowWhole(leg'[i]) /\ RowValue(leg'[i]) = -(in.cost_basis * in.shares) - in.fees
    BY <1>3, SharesWorth, SharesCostInt
  <1>6. leg'[i].pos = p /\ leg'[i].outcome = "open" /\ leg'[i].leg_type = "shares"
    BY <1>3 DEF SharesLeg
  <1>7. Kept(leg', p, state'[p], cash'[p])
    <2>1. Kept(leg', p, "long_shares", RowValue(leg'[i]))
      BY <1>3, <1>4, <1>5, <1>6, FirstLegKept
    <2>2. QED
      BY <1>4, <1>5, <2>1
  <1>8. QED
    BY <1>1, <1>4, <1>7, OnlyActorPaid

LEMMA OpenCoveredCallFreshPaid ==
    ASSUME LedgerInv, NEW p \in PosId, NEW in \in SharesInput, NEW call \in OptionInput,
           OpenCoveredCallFresh(p, in, call)
    PROVE  LedgerInv'
  <1>1. IInv /\ IInv' /\ Touches(p)
    BY OpenCoveredCallFreshInv DEF LedgerInv
  <1>2. PICK i \in LegId : /\ i + 1 \in LegId
                           /\ leg' = [leg EXCEPT
                                ![i] = SharesLeg(p, in.shares, in.cost_basis, in.fees),
                                ![i + 1] = OptionLeg(p, "covered_call", call, 0)]
    BY DEF OpenCoveredCallFresh
  <1>3. PICK j \in LegId : j = i + 1 /\ j # i
    BY <1>2, IdsAssumption
  <1>4. /\ leg'[i] = SharesLeg(p, in.shares, in.cost_basis, in.fees)
        /\ leg'[j] = OptionLeg(p, "covered_call", call, 0)
        /\ \A k \in LegId \ {i, j} : leg'[k] = leg[k]
    BY <1>1, <1>2, <1>3 DEF IInv, TypeOK
  <1> DEFINE cost == in.cost_basis * in.shares
  <1>5. /\ state'[p] = "covered_call" /\ cash'[p] = Premium(call) - cost - in.fees
        /\ \A q \in PosId \ {p} : cash'[q] = cash[q] /\ (q \in edited <=> q \in edited')
        /\ \A k \in LegId : leg[k].pos # p
    BY <1>1, NewPositionPaid DEF OpenCoveredCallFresh
  <1>6. /\ RowWhole(leg'[i]) /\ RowValue(leg'[i]) = -cost - in.fees
        /\ RowWhole(leg'[j]) /\ RowValue(leg'[j]) = Premium(call) - 0
    BY <1>4, SharesWorth, SharesCostInt, OptionWorth
  <1>7. /\ leg'[i].pos = p /\ leg'[i].outcome = "open" /\ leg'[i].leg_type = "shares"
        /\ leg'[j].pos = p /\ leg'[j].outcome = "open" /\ leg'[j].leg_type = "covered_call"
    BY <1>4 DEF SharesLeg, OptionLeg
  <1>8. cost \in Int /\ in.fees \in Int /\ Premium(call) \in Int
    BY SharesCostInt, PremiumInt
  <1> HIDE DEF cost
  <1>9. PICK N : /\ N[i] = leg'[i] /\ \A k \in LegId \ {i} : N[k] = leg[k]
                 /\ \A k \in LegId \ {j} : leg'[k] = N[k]
    <2> DEFINE N == [k \in LegId |-> IF k = i THEN leg'[i] ELSE leg[k]]
    <2>1. /\ N[i] = leg'[i] /\ \A k \in LegId \ {i} : N[k] = leg[k]
          /\ \A k \in LegId \ {j} : leg'[k] = N[k]
      BY <1>3, <1>4
    <2> HIDE DEF N
    <2>2. QED
      BY <2>1
  <1>10. Rows(leg, p) = {} /\ Whole(leg, p) /\ Booked(leg, p) = 0
    BY <1>5, NothingBooked
  <1>11. Rows(N, p) = {i} /\ Whole(N, p) /\ Booked(N, p) = 0 + RowValue(leg'[i])
    <2>1. i \in LegId \ Rows(leg, p) /\ N[i].pos = p /\ RowWhole(N[i])
      BY <1>6, <1>7, <1>9, <1>10
    <2>2. Joins(leg, N, p, i)
      BY <1>9, <2>1 DEF Joins
    <2>3. /\ Rows(N, p) = Rows(leg, p) \cup {i} /\ Whole(N, p)
          /\ Booked(N, p) = Booked(leg, p) + RowValue(N[i])
      BY <1>10, <2>1, <2>2, RowJoins
    <2>4. QED
      BY <1>9, <1>10, <2>3
  <1>12. Joins(N, leg', p, j)
    BY <1>3, <1>6, <1>7, <1>9, <1>11 DEF Joins
  <1>13. /\ Rows(leg', p) = {i, j} /\ Whole(leg', p)
         /\ Booked(leg', p) = Booked(N, p) + RowValue(leg'[j])
    BY <1>11, <1>12, RowJoins
  <1>14. Course(leg', p, "covered_call")
    BY <1>3, <1>7, <1>13 DEF Course
  <1>15. cash'[p] = Booked(leg', p)
    BY <1>5, <1>6, <1>8, <1>11, <1>13
  <1>16. QED
    BY <1>1, <1>5, <1>13, <1>14, <1>15, OnlyActorPaid DEF Kept

\* N is the table of legs once option leg i has left the book at a debit of exit.
Leaves(N, i, o, exit, fees) ==
    /\ N[i] = SettledOption(leg[i], o, exit, fees)
    /\ \A k \in LegId \ {i} : N[k] = leg[k]

\* What buying option leg i back at a price of exit costs, fees aside.
Debit(i, exit) == exit * leg[i].contracts * CONTRACT_MULTIPLIER

Costs(p, a, fees) == cash' = [cash EXCEPT ![p] = @ - a - fees]

\* What that leg was, and that only its own row changes.
LEMMA LeavesRow ==
    ASSUME LedgerInv, NEW p \in PosId, state[p] \in OpenStates, p \notin edited,
           NEW t \in {"short_put", "covered_call"}, NEW i \in LegId, OpenLegs(p, t) = {i},
           NEW o \in Outcomes \ {"open"}, NEW exit \in Int, NEW fees \in Int,
           NEW N, Leaves(N, i, o, exit, fees)
    PROVE  /\ Whole(leg, p) /\ Course(leg, p, state[p]) /\ cash[p] = Booked(leg, p)
           /\ i \in Rows(leg, p) /\ leg[i].leg_type = t
           /\ Rewrites(leg, N, p, i)
           /\ N[i].leg_type = t /\ N[i].outcome # "open"
           /\ RowValue(N[i]) = RowValue(leg[i]) - Debit(i, exit) - fees
           /\ RowValue(leg[i]) \in Int
           /\ Debit(i, exit) \in Int
  <1>1. p \in Positions \ edited
    BY DEF Positions, OpenStates
  <1>2. Whole(leg, p) /\ Course(leg, p, state[p]) /\ cash[p] = Booked(leg, p)
    BY <1>1 DEF LedgerInv, Kept
  <1>3. /\ leg[i] \in LegRow /\ leg[i].pos = p /\ leg[i].leg_type = t
        /\ leg[i].outcome = "open" /\ i \in Rows(leg, p) /\ SoundOption(leg[i])
    <2>1. leg[i] \in LegRow /\ SoundOption(leg[i])
      BY FoundLeg, FoundOptionInt DEF LedgerInv, LegTypes
    <2>2. QED
      BY <2>1 DEF OpenLegs, Rows
  <1> DEFINE m == SettledOption(leg[i], o, exit, fees)
  <1>4. /\ RowWhole(m) /\ m.leg_type = t /\ m.outcome # "open"
        /\ RowValue(m) = RowValue(leg[i]) - Debit(i, exit) - fees
        /\ RowValue(leg[i]) \in Int /\ Debit(i, exit) \in Int
    <2>1. leg[i].leg_type \in {"short_put", "covered_call"}
      BY <1>3
    <2>2. /\ RowWhole(m) /\ m.leg_type = leg[i].leg_type /\ m.outcome # "open"
          /\ RowValue(m) =
                RowValue(leg[i]) - exit * leg[i].contracts * CONTRACT_MULTIPLIER - fees
          /\ RowValue(leg[i]) \in Int
          /\ exit * leg[i].contracts * CONTRACT_MULTIPLIER \in Int
      BY <1>3, <2>1, SettlementWorth
    <2>3. QED
      BY <1>3, <2>2 DEF Debit
  <1>5. m.pos = p
    BY <1>3 DEF SettledOption, LegRow
  <1>6. N[i] = m /\ \A k \in LegId \ {i} : N[k] = leg[k]
    BY DEF Leaves
  <1> HIDE DEF m
  <1>7. Rewrites(leg, N, p, i)
    BY <1>3, <1>4, <1>5, <1>6 DEF Rewrites
  <1>8. QED
    BY <1>2, <1>3, <1>4, <1>6, <1>7

\* What that does to the money of its cycle, the legs being N afterwards.
LeftBooked(N, p, t, i, exit, fees) ==
    /\ i \in Rows(leg, p) /\ leg[i].leg_type = t
    /\ Rows(N, p) = Rows(leg, p) /\ Whole(N, p)
    /\ Course(leg, p, state[p])
    /\ N[i].leg_type = t /\ N[i].outcome # "open"
    /\ Booked(N, p) = cash[p] - Debit(i, exit) - fees
    /\ cash[p] \in Int /\ Debit(i, exit) \in Int

LEMMA OptionLeaves ==
    ASSUME LedgerInv, NEW p \in PosId, state[p] \in OpenStates, p \notin edited,
           NEW t \in {"short_put", "covered_call"}, NEW i \in LegId, OpenLegs(p, t) = {i},
           NEW o \in Outcomes \ {"open"}, NEW exit \in Int, NEW fees \in Int,
           NEW N, Leaves(N, i, o, exit, fees)
    PROVE  LeftBooked(N, p, t, i, exit, fees)
  <1>1. /\ Whole(leg, p) /\ Course(leg, p, state[p]) /\ cash[p] = Booked(leg, p)
        /\ i \in Rows(leg, p) /\ leg[i].leg_type = t
        /\ Rewrites(leg, N, p, i)
        /\ N[i].leg_type = t /\ N[i].outcome # "open"
        /\ RowValue(N[i]) = RowValue(leg[i]) - Debit(i, exit) - fees
        /\ RowValue(leg[i]) \in Int /\ Debit(i, exit) \in Int
    BY LeavesRow
  <1>2. /\ Rows(N, p) = Rows(leg, p) /\ Whole(N, p)
        /\ Booked(N, p) = Booked(leg, p) - RowValue(leg[i]) + RowValue(N[i])
    BY <1>1, RowRewritten
  <1>3. Booked(leg, p) \in Int
    BY <1>1, BookedInt
  <1>4. Booked(N, p) = cash[p] - Debit(i, exit) - fees
    BY <1>1, <1>2, <1>3
  <1>5. QED
    BY <1>1, <1>2, <1>3, <1>4 DEF LeftBooked

\* The put is bought back or expires: its cycle has made what it cost to leave.
LEMMA PutGonePaid ==
    ASSUME LedgerInv, NEW p \in PosId, state[p] = "short_put",
           NEW i \in LegId, OpenLegs(p, "short_put") = {i},
           NEW o \in Outcomes \ {"open"}, NEW exit \in Int, NEW fees \in Int,
           Leaves(leg', i, o, exit, fees),
           Becomes(p, "closed"), IInv' /\ Touches(p),
           Costs(p, Debit(i, exit), fees)
    PROVE  LedgerInv'
  <1>1. /\ \A k \in LegId \ {i} : leg'[k] = leg[k]
        /\ \A q \in PosId \ {p} : cash'[q] = cash[q] /\ (q \in edited <=> q \in edited')
        /\ cash'[p] = cash[p] - Debit(i, exit) - fees
        /\ state'[p] = "closed" /\ edited' = edited
    BY DEF LedgerInv, IInv, TypeOK, Becomes, Leaves, Costs
  <1>2. ASSUME p \notin edited PROVE Kept(leg', p, state'[p], cash'[p])
    <2>1. /\ i \in Rows(leg, p) /\ Rows(leg', p) = Rows(leg, p) /\ Whole(leg', p)
          /\ Course(leg, p, state[p])
          /\ leg'[i].outcome # "open" /\ leg'[i].leg_type = "short_put"
          /\ leg[i].leg_type = "short_put"
          /\ Booked(leg', p) = cash[p] - Debit(i, exit) - fees
      <3>1. state[p] \in OpenStates /\ "short_put" \in {"short_put", "covered_call"}
        BY DEF OpenStates
      <3>2. LeftBooked(leg', p, "short_put", i, exit, fees)
        BY <1>2, <3>1, OptionLeaves
      <3>3. QED
        BY <3>2 DEF LeftBooked
    <2>2. Rows(leg, p) = {i}
      BY <2>1 DEF Course, OpenLegs, Rows
    <2>3. Course(leg', p, "closed")
      BY <2>1, <2>2 DEF Course
    <2>4. QED
      BY <1>1, <2>1, <2>3 DEF Kept
  <1>3. QED
    BY <1>1, <1>2, OnlyActorPaid

\* The call is bought back or expires: its cycle holds its shares again.
LEMMA CallGonePaid ==
    ASSUME LedgerInv, NEW p \in PosId, state[p] = "covered_call",
           NEW i \in LegId, OpenLegs(p, "covered_call") = {i},
           NEW o \in Outcomes \ {"open"}, NEW exit \in Int, NEW fees \in Int,
           Leaves(leg', i, o, exit, fees),
           Becomes(p, "long_shares"), IInv' /\ Touches(p),
           Costs(p, Debit(i, exit), fees)
    PROVE  LedgerInv'
  <1>1. /\ \A k \in LegId \ {i} : leg'[k] = leg[k]
        /\ \A q \in PosId \ {p} : cash'[q] = cash[q] /\ (q \in edited <=> q \in edited')
        /\ cash'[p] = cash[p] - Debit(i, exit) - fees
        /\ state'[p] = "long_shares" /\ edited' = edited
    BY DEF LedgerInv, IInv, TypeOK, Becomes, Leaves, Costs
  <1>2. ASSUME p \notin edited PROVE Kept(leg', p, state'[p], cash'[p])
    <2>1. /\ i \in Rows(leg, p) /\ Rows(leg', p) = Rows(leg, p) /\ Whole(leg', p)
          /\ Course(leg, p, state[p])
          /\ leg'[i].outcome # "open" /\ leg'[i].leg_type = "covered_call"
          /\ leg[i].leg_type = "covered_call"
          /\ Booked(leg', p) = cash[p] - Debit(i, exit) - fees
      <3>1. state[p] \in OpenStates /\ "covered_call" \in {"short_put", "covered_call"}
        BY DEF OpenStates
      <3>2. LeftBooked(leg', p, "covered_call", i, exit, fees)
        BY <1>2, <3>1, OptionLeaves
      <3>3. QED
        BY <3>2 DEF LeftBooked
    <2>2. \A k \in Rows(leg, p) \ {i} :
             /\ leg'[k] = leg[k]
             /\ leg[k].leg_type = "covered_call" => leg[k].outcome # "open"
      BY <1>1 DEF OpenLegs, Rows
    <2>c. Course(leg, p, "covered_call")
      BY <2>1
    <2>3. \A k \in Rows(leg', p) : leg'[k].leg_type # "shares" => leg'[k].outcome # "open"
      <3>1. \A k \in Rows(leg, p) : leg'[k].leg_type \in LegTypes
        BY <2>1 DEF Whole, RowWhole
      <3>2. \A k \in Rows(leg, p) : leg[k].leg_type = "short_put" => leg[k].outcome # "open"
        BY <2>c DEF Course
      <3>3. QED
        BY <2>1, <2>2, <3>1, <3>2 DEF LegTypes
    <2>4. Course(leg', p, "long_shares")
      BY <2>1, <2>2, <2>3, <2>c DEF Course
    <2>5. QED
      BY <1>1, <2>1, <2>4 DEF Kept
  <1>3. QED
    BY <1>1, <1>2, OnlyActorPaid

\* A debit and its fees, or an expiry that moves nothing, as the cash records it.
LEMMA Debited ==
    ASSUME IInv, NEW p \in PosId, NEW a \in Int, NEW fees \in Int, Pays(p, -a - fees)
    PROVE  Costs(p, a, fees)
  <1>1. cash[p] \in Int
    BY DEF IInv, TypeOK
  <1>2. cash[p] + (-a - fees) = cash[p] - a - fees
    BY <1>1
  <1>3. QED
    BY <1>2 DEF Pays, Costs, IInv, TypeOK

LEMMA NothingPaid ==
    ASSUME IInv, NEW p \in PosId, NEW i, leg[i].contracts \in Int, UNCHANGED cash
    PROVE  Costs(p, Debit(i, 0), 0)
  <1>1. cash \in [PosId -> Int] /\ cash[p] \in Int
    BY DEF IInv, TypeOK
  <1>2. Debit(i, 0) = 0
    BY InputInts DEF Debit
  <1>3. cash[p] - Debit(i, 0) - 0 = cash[p]
    BY <1>1, <1>2
  <1>4. QED
    BY <1>1, <1>3 DEF Costs

LEMMA CloseShortPutPaid ==
    ASSUME LedgerInv, NEW p \in PosId, NEW debit \in Prices, NEW fees \in Fees,
           CloseShortPut(p, debit, fees)
    PROVE  LedgerInv'
  <1>1. IInv /\ IInv' /\ Touches(p) /\ debit \in Int /\ fees \in Int
    BY CloseShortPutInv, InputInts DEF LedgerInv
  <1>2. /\ state[p] = "short_put" /\ state[p] \in OpenStates /\ Becomes(p, "closed")
        /\ "closed" \in Outcomes \ {"open"}
    BY DEF CloseShortPut, OpenStates, Outcomes
  <1>3. PICK i \in LegId :
          /\ OpenLegs(p, "short_put") = {i}
          /\ leg' = [leg EXCEPT ![i] = SettledOption(@, "closed", debit, fees)]
          /\ Pays(p, -(debit * leg[i].contracts * CONTRACT_MULTIPLIER) - fees)
    BY DEF CloseShortPut
  <1>leaves. Leaves(leg', i, "closed", debit, fees)
    BY <1>1, <1>3 DEF Leaves, IInv, TypeOK
  <1>4. debit * leg[i].contracts * CONTRACT_MULTIPLIER \in Int
    BY <1>1, <1>2, <1>3, FoundOptionInt
  <1>5. Costs(p, Debit(i, debit), fees)
    BY <1>1, <1>3, <1>4, Debited DEF Debit
  <1>6. QED
    <2>1. OpenLegs(p, "short_put") = {i} /\ 0 \in Int
      BY <1>3
    <2>2. QED
      BY <1>1, <1>2, <1>5, <1>leaves, <2>1, PutGonePaid

LEMMA ExpireShortPutPaid ==
    ASSUME LedgerInv, NEW p \in PosId, ExpireShortPut(p)
    PROVE  LedgerInv'
  <1>1. IInv /\ IInv' /\ Touches(p)
    BY ExpireShortPutInv DEF LedgerInv
  <1>2. /\ state[p] = "short_put" /\ state[p] \in OpenStates /\ Becomes(p, "closed")
        /\ "expired" \in Outcomes \ {"open"} /\ UNCHANGED cash
    BY DEF ExpireShortPut, OpenStates, Outcomes
  <1>3. PICK i \in LegId :
          /\ OpenLegs(p, "short_put") = {i}
          /\ leg' = [leg EXCEPT ![i] = SettledOption(@, "expired", 0, 0)]
    BY DEF ExpireShortPut
  <1>leaves. Leaves(leg', i, "expired", 0, 0)
    BY <1>1, <1>3 DEF Leaves, IInv, TypeOK
  <1>4. leg[i].contracts \in Int
    BY <1>1, <1>2, <1>3, FoundOptionInt
  <1>5. Costs(p, Debit(i, 0), 0)
    BY <1>1, <1>2, <1>4, NothingPaid
  <1>6. QED
    <2>1. OpenLegs(p, "short_put") = {i} /\ 0 \in Int
      BY <1>3
    <2>2. QED
      BY <1>1, <1>2, <1>5, <1>leaves, <2>1, PutGonePaid

LEMMA CloseCoveredCallPaid ==
    ASSUME LedgerInv, NEW p \in PosId, NEW debit \in Prices, NEW fees \in Fees,
           CloseCoveredCall(p, debit, fees)
    PROVE  LedgerInv'
  <1>1. IInv /\ IInv' /\ Touches(p) /\ debit \in Int /\ fees \in Int
    BY CloseCoveredCallInv, InputInts DEF LedgerInv
  <1>2. /\ state[p] = "covered_call" /\ state[p] \in OpenStates /\ Becomes(p, "long_shares")
        /\ "closed" \in Outcomes \ {"open"}
    BY DEF CloseCoveredCall, OpenStates, Outcomes
  <1>3. PICK i \in LegId :
          /\ OpenLegs(p, "covered_call") = {i}
          /\ leg' = [leg EXCEPT ![i] = SettledOption(@, "closed", debit, fees)]
          /\ Pays(p, -(debit * leg[i].contracts * CONTRACT_MULTIPLIER) - fees)
    BY DEF CloseCoveredCall
  <1>leaves. Leaves(leg', i, "closed", debit, fees)
    BY <1>1, <1>3 DEF Leaves, IInv, TypeOK
  <1>4. debit * leg[i].contracts * CONTRACT_MULTIPLIER \in Int
    BY <1>1, <1>2, <1>3, FoundOptionInt
  <1>5. Costs(p, Debit(i, debit), fees)
    BY <1>1, <1>3, <1>4, Debited DEF Debit
  <1>6. QED
    <2>1. OpenLegs(p, "covered_call") = {i} /\ 0 \in Int
      BY <1>3
    <2>2. QED
      BY <1>1, <1>2, <1>5, <1>leaves, <2>1, CallGonePaid

LEMMA ExpireCoveredCallPaid ==
    ASSUME LedgerInv, NEW p \in PosId, ExpireCoveredCall(p)
    PROVE  LedgerInv'
  <1>1. IInv /\ IInv' /\ Touches(p)
    BY ExpireCoveredCallInv DEF LedgerInv
  <1>2. /\ state[p] = "covered_call" /\ state[p] \in OpenStates /\ Becomes(p, "long_shares")
        /\ "expired" \in Outcomes \ {"open"} /\ UNCHANGED cash
    BY DEF ExpireCoveredCall, OpenStates, Outcomes
  <1>3. PICK i \in LegId :
          /\ OpenLegs(p, "covered_call") = {i}
          /\ leg' = [leg EXCEPT ![i] = SettledOption(@, "expired", 0, 0)]
    BY DEF ExpireCoveredCall
  <1>leaves. Leaves(leg', i, "expired", 0, 0)
    BY <1>1, <1>3 DEF Leaves, IInv, TypeOK
  <1>4. leg[i].contracts \in Int
    BY <1>1, <1>2, <1>3, FoundOptionInt
  <1>5. Costs(p, Debit(i, 0), 0)
    BY <1>1, <1>2, <1>4, NothingPaid
  <1>6. QED
    <2>1. OpenLegs(p, "covered_call") = {i} /\ 0 \in Int
      BY <1>3
    <2>2. QED
      BY <1>1, <1>2, <1>5, <1>leaves, <2>1, CallGonePaid

\* The put turns into shares, which cost the strike money and no fees.
LEMMA AssignShortPutPaid ==
    ASSUME LedgerInv, NEW p \in PosId, AssignShortPut(p)
    PROVE  LedgerInv'
  <1>1. IInv /\ IInv' /\ Touches(p) /\ 0 \in Int
    BY AssignShortPutInv DEF LedgerInv
  <1>2. /\ state[p] = "short_put" /\ state[p] \in OpenStates /\ Becomes(p, "long_shares")
        /\ "assigned" \in Outcomes \ {"open"}
    BY DEF AssignShortPut, OpenStates, Outcomes
  <1> DEFINE Lots(i) == leg[i].contracts * CONTRACT_MULTIPLIER
  <1>3. PICK i \in LegId, j \in LegId :
          /\ OpenLegs(p, "short_put") = {i} /\ NextRowid(Legs, j)
          /\ leg' = [leg EXCEPT ![i] = SettledOption(@, "assigned", 0, 0),
                                ![j] = SharesLeg(p, Lots(i), leg[i].strike, 0)]
          /\ Pays(p, -(leg[i].strike * Lots(i)))
    BY DEF AssignShortPut
  <1>4. /\ leg[i].pos = p /\ leg[j].pos = 0 /\ p # 0 /\ i # j
        /\ leg[i].contracts \in Int /\ leg[i].strike \in Int
    BY <1>1, <1>2, <1>3, FoundLeg, FreshRow, FoundOptionInt DEF LegTypes
  <1> DEFINE lot == Lots(i)
             cost == leg[i].strike * lot
  <1>5. lot \in Int /\ cost \in Int
    BY <1>4, InputInts, ProductsInt
  <1>6. /\ leg'[i] = SettledOption(leg[i], "assigned", 0, 0)
        /\ leg'[j] = SharesLeg(p, lot, leg[i].strike, 0)
        /\ \A k \in LegId \ {i, j} : leg'[k] = leg[k]
    BY <1>1, <1>3, <1>4 DEF IInv, TypeOK
  <1>7. RowWhole(leg'[j]) /\ RowValue(leg'[j]) = -cost - 0
    BY <1>4, <1>5, <1>6, SharesWorth
  <1>8. /\ leg'[j].pos = p /\ leg'[j].leg_type = "shares" /\ leg'[j].outcome = "open"
        /\ leg'[j].fees = 0
    BY <1>6 DEF SharesLeg
  <1>9. /\ \A q \in PosId \ {p} : cash'[q] = cash[q] /\ (q \in edited <=> q \in edited')
        /\ cash'[p] = cash[p] + -cost
        /\ state'[p] = "long_shares" /\ edited' = edited
    BY <1>1, <1>2, <1>3 DEF IInv, TypeOK, Becomes, Pays
  <1> HIDE DEF lot, cost
  <1>10. PICK N : Leaves(N, i, "assigned", 0, 0) /\ \A k \in LegId \ {j} : leg'[k] = N[k]
    <2> DEFINE N == [k \in LegId |-> IF k = i THEN leg'[i] ELSE leg[k]]
    <2>1. Leaves(N, i, "assigned", 0, 0) /\ \A k \in LegId \ {j} : leg'[k] = N[k]
      BY <1>4, <1>6 DEF Leaves
    <2> HIDE DEF N
    <2>2. QED
      BY <2>1
  <1>11. ASSUME p \notin edited PROVE Kept(leg', p, state'[p], cash'[p])
    <2>1. /\ i \in Rows(leg, p) /\ Rows(N, p) = Rows(leg, p) /\ Whole(N, p)
          /\ Course(leg, p, state[p])
          /\ N[i].outcome # "open" /\ N[i].leg_type = "short_put"
          /\ leg[i].leg_type = "short_put"
          /\ Booked(N, p) = cash[p] - Debit(i, 0) - 0 /\ cash[p] \in Int
      <3>1. OpenLegs(p, "short_put") = {i} /\ "short_put" \in {"short_put", "covered_call"}
        BY <1>3
      <3>2. LeftBooked(N, p, "short_put", i, 0, 0)
        BY <1>1, <1>2, <1>10, <1>11, <3>1, OptionLeaves
      <3>3. QED
        BY <3>2 DEF LeftBooked
    <2>2. Rows(leg, p) = {i}
      BY <1>2, <1>3, <2>1 DEF Course, OpenLegs, Rows
    <2>3. Joins(N, leg', p, j)
      BY <1>4, <1>7, <1>8, <1>10, <2>1, <2>2 DEF Joins
    <2>4. /\ Rows(leg', p) = {i, j} /\ Whole(leg', p)
          /\ Booked(leg', p) = Booked(N, p) + RowValue(leg'[j])
      BY <2>1, <2>2, <2>3, RowJoins
    <2>5. leg'[i] = N[i]
      BY <1>4, <1>10
    <2>6. Course(leg', p, "long_shares")
      BY <1>4, <1>8, <2>1, <2>4, <2>5 DEF Course
    <2>7. Debit(i, 0) = 0
      BY <1>4, InputInts DEF Debit
    <2>8. cash'[p] = Booked(leg', p)
      BY <1>5, <1>7, <1>9, <2>1, <2>4, <2>7
    <2>9. QED
      BY <1>9, <2>4, <2>6, <2>8 DEF Kept
  <1>12. QED
    BY <1>1, <1>9, <1>11, OnlyActorPaid

\* A call written against the shares brings its premium.
LEMMA OpenCoveredCallPaid ==
    ASSUME LedgerInv, NEW p \in PosId, NEW in \in OptionInput, OpenCoveredCall(p, in)
    PROVE  LedgerInv'
  <1>1. IInv /\ IInv' /\ Touches(p)
    BY OpenCoveredCallInv DEF LedgerInv
  <1>2. PICK j \in LegId :
          /\ NextRowid(Legs, j)
          /\ leg' = [leg EXCEPT ![j] = OptionLeg(p, "covered_call", in, in.fees)]
    BY DEF OpenCoveredCall
  <1>3. /\ leg'[j] = OptionLeg(p, "covered_call", in, in.fees)
        /\ \A k \in LegId \ {j} : leg'[k] = leg[k]
        /\ leg[j].pos = 0 /\ p # 0
    BY <1>1, <1>2, FreshRow, IdsAssumption DEF IInv, TypeOK
  <1>4. /\ state[p] = "long_shares" /\ state'[p] = "covered_call" /\ edited' = edited
        /\ \A q \in PosId \ {p} : cash'[q] = cash[q] /\ (q \in edited <=> q \in edited')
        /\ cash'[p] = cash[p] + (Premium(in) - in.fees) /\ cash[p] \in Int
    BY <1>1 DEF OpenCoveredCall, IInv, TypeOK, Becomes, Pays
  <1>5. /\ RowWhole(leg'[j]) /\ RowValue(leg'[j]) = Premium(in) - in.fees
        /\ Premium(in) \in Int /\ in.fees \in Int
    BY <1>3, OptionWorth, PremiumInt
  <1>6. leg'[j].pos = p /\ leg'[j].leg_type = "covered_call" /\ leg'[j].outcome = "open"
    BY <1>3 DEF OptionLeg
  <1>7. ASSUME p \notin edited PROVE Kept(leg', p, state'[p], cash'[p])
    <2>1. Whole(leg, p) /\ Course(leg, p, "long_shares") /\ cash[p] = Booked(leg, p)
      BY <1>4, <1>7 DEF LedgerInv, Kept, Positions
    <2>2. Joins(leg, leg', p, j)
      BY <1>3, <1>5, <1>6 DEF Joins, Rows
    <2>3. /\ Rows(leg', p) = Rows(leg, p) \cup {j} /\ Whole(leg', p)
          /\ \A k \in Rows(leg, p) : leg'[k] = leg[k]
          /\ Booked(leg', p) = Booked(leg, p) + RowValue(leg'[j])
      BY <2>1, <2>2, RowJoins
    <2>4. Course(leg', p, "covered_call")
      BY <1>6, <2>1, <2>3 DEF Course
    <2>5. QED
      BY <1>4, <1>5, <2>1, <2>3, <2>4 DEF Kept
  <1>8. QED
    BY <1>1, <1>4, <1>7, OnlyActorPaid

\* M is table N once shares leg j is sold.
Sells(N, M, j, o, price, fees) ==
    /\ M[j] = SoldShares(N[j], o, price, fees)
    /\ \A k \in LegId \ {j} : M[k] = N[k]

\* What the sale does to the money of its cycle.
LEMMA SharesLeave ==
    ASSUME NEW p \in PosId, NEW N, NEW M, Whole(N, p), NEW j \in Rows(N, p),
           N[j] \in LegRow, SoundShares(N[j]),
           N[j].outcome = "open", N[j].leg_type = "shares",
           NEW o \in Outcomes \ {"open"}, NEW price \in Int, NEW fees \in Int,
           Sells(N, M, j, o, price, fees)
    PROVE  /\ Rows(M, p) = Rows(N, p) /\ Whole(M, p)
           /\ M[j].outcome # "open"
           /\ Booked(M, p) = Booked(N, p) + price * N[j].shares - fees
           /\ Booked(N, p) \in Int /\ price * N[j].shares \in Int
  <1> DEFINE m == SoldShares(N[j], o, price, fees)
             got == price * N[j].shares
  <1>1. /\ RowWhole(m) /\ m.outcome # "open"
        /\ RowValue(m) = RowValue(N[j]) + got - fees
        /\ RowValue(N[j]) \in Int /\ got \in Int
    BY SaleWorth
  <1>2. m.pos = p
    BY DEF SoldShares, LegRow, Rows
  <1>3. M[j] = m /\ \A k \in LegId \ {j} : M[k] = N[k]
    BY DEF Sells
  <1> HIDE DEF m, got
  <1>4. Rewrites(N, M, p, j)
    BY <1>1, <1>2, <1>3 DEF Rewrites
  <1>5. /\ Rows(M, p) = Rows(N, p) /\ Whole(M, p)
        /\ Booked(M, p) = Booked(N, p) - RowValue(N[j]) + RowValue(M[j])
    BY <1>4, RowRewritten
  <1>6. Booked(N, p) \in Int
    BY BookedInt
  <1>7. Booked(M, p) = Booked(N, p) + got - fees
    BY <1>1, <1>3, <1>5, <1>6
  <1>8. QED
    BY <1>1, <1>3, <1>5, <1>6, <1>7 DEF got

\* The whole lot goes at the strike of the call, and every leg is settled.
LEMMA CalledAwayPaid ==
    ASSUME LedgerInv, NEW p \in PosId, CalledAway(p)
    PROVE  LedgerInv'
  <1>1. IInv /\ IInv' /\ Touches(p) /\ 0 \in Int
    BY CalledAwayInv DEF LedgerInv
  <1>2. /\ state[p] = "covered_call" /\ state[p] \in OpenStates /\ Becomes(p, "closed")
        /\ "called_away" \in Outcomes \ {"open"}
    BY DEF CalledAway, OpenStates, Outcomes
  <1>3. PICK i \in LegId, j \in LegId :
          /\ OpenLegs(p, "covered_call") = {i} /\ OpenLegs(p, "shares") = {j}
          /\ leg' = [leg EXCEPT ![i] = SettledOption(@, "called_away", 0, 0),
                                ![j] = SoldShares(@, "called_away", leg[i].strike, 0)]
          /\ Pays(p, leg[i].strike * leg[j].shares)
    BY DEF CalledAway
  <1>4. /\ leg[j] \in LegRow /\ SoundShares(leg[j]) /\ leg[j].pos = p
        /\ leg[j].leg_type = "shares" /\ leg[j].outcome = "open"
        /\ leg[i].strike \in Int /\ leg[i].contracts \in Int /\ i # j
    <2>1. leg[j] \in LegRow /\ SoundShares(leg[j]) /\ leg[i].strike \in Int
          /\ leg[i].contracts \in Int
      BY <1>1, <1>2, <1>3, FoundLeg, FoundOptionInt, FoundSharesInt DEF LegTypes
    <2>2. QED
      BY <1>3, <2>1 DEF OpenLegs
  <1>5. /\ leg'[i] = SettledOption(leg[i], "called_away", 0, 0)
        /\ leg'[j] = SoldShares(leg[j], "called_away", leg[i].strike, 0)
        /\ \A k \in LegId \ {i, j} : leg'[k] = leg[k]
    BY <1>1, <1>3, <1>4 DEF IInv, TypeOK
  <1>6. /\ \A q \in PosId \ {p} : cash'[q] = cash[q] /\ (q \in edited <=> q \in edited')
        /\ cash'[p] = cash[p] + leg[i].strike * leg[j].shares
        /\ state'[p] = "closed" /\ edited' = edited
    BY <1>1, <1>2, <1>3 DEF IInv, TypeOK, Becomes, Pays
  <1>7. PICK N : /\ Leaves(N, i, "called_away", 0, 0)
                 /\ Sells(N, leg', j, "called_away", leg[i].strike, 0)
                 /\ N[j] = leg[j] /\ leg'[i] = N[i]
    <2> DEFINE N == [k \in LegId |-> IF k = i THEN leg'[i] ELSE leg[k]]
    <2>1. Leaves(N, i, "called_away", 0, 0) /\ N[j] = leg[j] /\ leg'[i] = N[i]
      BY <1>4, <1>5 DEF Leaves
    <2>2. \A k \in LegId \ {j} : leg'[k] = N[k]
      BY <1>5
    <2>3. Sells(N, leg', j, "called_away", leg[i].strike, 0)
      BY <1>5, <2>1, <2>2 DEF Sells
    <2> HIDE DEF N
    <2>4. QED
      BY <2>1, <2>3
  <1>8. ASSUME p \notin edited PROVE Kept(leg', p, state'[p], cash'[p])
    <2>1. /\ i \in Rows(leg, p) /\ Rows(N, p) = Rows(leg, p) /\ Whole(N, p)
          /\ Course(leg, p, state[p])
          /\ N[i].outcome # "open"
          /\ Booked(N, p) = cash[p] - Debit(i, 0) - 0 /\ cash[p] \in Int
      <3>1. /\ OpenLegs(p, "covered_call") = {i}
            /\ "covered_call" \in {"short_put", "covered_call"}
        BY <1>3
      <3>2. LeftBooked(N, p, "covered_call", i, 0, 0)
        BY <1>1, <1>2, <1>7, <1>8, <3>1, OptionLeaves
      <3>3. QED
        BY <3>2 DEF LeftBooked
    <2>2. j \in Rows(N, p)
      BY <1>4, <2>1 DEF Rows
    <2>3. /\ Rows(leg', p) = Rows(N, p) /\ Whole(leg', p)
          /\ leg'[j].outcome # "open"
          /\ Booked(leg', p) = Booked(N, p) + leg[i].strike * N[j].shares - 0
          /\ leg[i].strike * N[j].shares \in Int
      <3>1. /\ N[j] \in LegRow /\ SoundShares(N[j]) /\ N[j].outcome = "open"
            /\ N[j].leg_type = "shares"
        BY <1>4, <1>7
      <3>2. QED
        BY <1>1, <1>2, <1>4, <1>7, <2>1, <2>2, <3>1, SharesLeave
    <2>4. ASSUME NEW k \in Rows(leg, p) \ {i, j} PROVE leg'[k].outcome # "open"
      <3>1. leg'[k] = leg[k] /\ k \in LegId /\ leg[k].pos = p
        BY <1>5, <2>4 DEF Rows
      <3>2. leg[k].leg_type \in LegTypes
        BY <2>1, <2>3, <3>1, <2>4 DEF Whole, RowWhole
      <3>3. leg[k].leg_type = "short_put" => leg[k].outcome # "open"
        BY <1>2, <2>1, <2>4 DEF Course
      <3>4. leg[k].leg_type \in {"covered_call", "shares"} => leg[k].outcome # "open"
        BY <1>3, <2>4, <3>1 DEF OpenLegs
      <3>5. QED
        BY <3>1, <3>2, <3>3, <3>4 DEF LegTypes
    <2>5. Course(leg', p, "closed")
      BY <1>7, <2>1, <2>3, <2>4 DEF Course
    <2>6. Debit(i, 0) = 0
      BY <1>4, InputInts DEF Debit
    <2>7. cash'[p] = Booked(leg', p)
      BY <1>6, <1>7, <2>1, <2>3, <2>6
    <2>8. QED
      BY <1>6, <2>3, <2>5, <2>7 DEF Kept
  <1>9. QED
    BY <1>1, <1>6, <1>8, OnlyActorPaid

\* The lot is sold for what the request says, less its fees.
LEMMA CloseSharesManualPaid ==
    ASSUME LedgerInv, NEW p \in PosId, NEW price \in Prices, NEW fees \in Fees,
           CloseSharesManual(p, price, fees)
    PROVE  LedgerInv'
  <1>1. IInv /\ IInv' /\ Touches(p) /\ price \in Int /\ fees \in Int
    BY CloseSharesManualInv, InputInts DEF LedgerInv
  <1>2. /\ state[p] = "long_shares" /\ state[p] \in OpenStates /\ Becomes(p, "closed")
        /\ "closed" \in Outcomes \ {"open"}
    BY DEF CloseSharesManual, OpenStates, Outcomes
  <1>3. PICK j \in LegId :
          /\ OpenLegs(p, "shares") = {j}
          /\ leg' = [leg EXCEPT ![j] = SoldShares(@, "closed", price, fees)]
          /\ Pays(p, price * leg[j].shares - fees)
    BY DEF CloseSharesManual
  <1>4. /\ leg[j] \in LegRow /\ SoundShares(leg[j]) /\ leg[j].pos = p
        /\ leg[j].leg_type = "shares" /\ leg[j].outcome = "open" /\ j \in Rows(leg, p)
    <2>1. leg[j] \in LegRow /\ SoundShares(leg[j])
      BY <1>1, <1>2, <1>3, FoundLeg, FoundSharesInt DEF LegTypes
    <2>2. QED
      BY <1>3, <2>1 DEF OpenLegs, Rows
  <1>5. Sells(leg, leg', j, "closed", price, fees)
    BY <1>1, <1>3 DEF Sells, IInv, TypeOK
  <1>6. /\ \A q \in PosId \ {p} : cash'[q] = cash[q] /\ (q \in edited <=> q \in edited')
        /\ cash'[p] = cash[p] + (price * leg[j].shares - fees)
        /\ state'[p] = "closed" /\ edited' = edited
    BY <1>1, <1>2, <1>3 DEF IInv, TypeOK, Becomes, Pays
  <1>7. ASSUME p \notin edited PROVE Kept(leg', p, state'[p], cash'[p])
    <2>1. Whole(leg, p) /\ Course(leg, p, "long_shares") /\ cash[p] = Booked(leg, p)
      BY <1>2, <1>7 DEF LedgerInv, Kept, Positions
    <2>2. /\ Rows(leg', p) = Rows(leg, p) /\ Whole(leg', p)
          /\ leg'[j].outcome # "open"
          /\ Booked(leg', p) = Booked(leg, p) + price * leg[j].shares - fees
          /\ Booked(leg, p) \in Int /\ price * leg[j].shares \in Int
      BY <1>1, <1>2, <1>4, <1>5, <2>1, SharesLeave
    <2>3. \A k \in Rows(leg, p) \ {j} : leg'[k] = leg[k] /\ leg[k].leg_type # "shares"
      BY <1>4, <1>5, <2>1 DEF Course, Sells, Rows
    <2>4. Course(leg', p, "closed")
      BY <2>1, <2>2, <2>3 DEF Course
    <2>5. cash'[p] = Booked(leg', p)
      BY <1>1, <1>6, <2>1, <2>2
    <2>6. QED
      BY <1>6, <2>2, <2>4, <2>5 DEF Kept
  <1>8. QED
    BY <1>1, <1>6, <1>7, OnlyActorPaid

\* A cycle edited by hand is out of the ledger, and a deleted one has no money.
LEMMA PatchLegPaid ==
    ASSUME LedgerInv, NEW p \in PosId, NEW i \in LegId, NEW row \in PatchRows,
           PatchLeg(p, i, row)
    PROVE  LedgerInv'
  <1>1. IInv' /\ Touches(p)
    BY PatchLegInv DEF LedgerInv
  <1>2. edited' = edited \cup {p} /\ cash' = cash
    BY DEF PatchLeg
  <1>3. /\ p \notin Positions' \ edited'
        /\ \A q \in PosId \ {p} : cash'[q] = cash[q] /\ (q \in edited <=> q \in edited')
    BY <1>2
  <1>4. QED
    BY <1>1, <1>3, OnlyActorPaid

LEMMA DeletePositionPaid ==
    ASSUME LedgerInv, NEW p \in PosId, DeletePosition(p)
    PROVE  LedgerInv'
  <1>1. IInv' /\ Touches(p)
    BY DeletePositionInv DEF LedgerInv
  <1>2. state' = [state EXCEPT ![p] = "none"] /\ cash' = [cash EXCEPT ![p] = 0]
        /\ edited' = edited \ {p}
    BY DEF DeletePosition
  <1>3. /\ p \notin Positions' \ edited'
        /\ \A q \in PosId \ {p} : cash'[q] = cash[q] /\ (q \in edited <=> q \in edited')
    BY <1>2 DEF LedgerInv, IInv, TypeOK, Positions
  <1>4. QED
    BY <1>1, <1>3, OnlyActorPaid

-----------------------------------------------------------------------------
(* The inductive invariant of the ledger *)

LEMMA LedgerInit == Init => LedgerInv
  <1>1. Init => Positions = {}
    BY DEF Init, Positions
  <1>2. QED
    BY <1>1, InitInv DEF LedgerInv

LEMMA LedgerNext == LedgerInv /\ [Next]_vars => LedgerInv'
  <1> SUFFICES ASSUME LedgerInv, [Next]_vars PROVE LedgerInv'
    OBVIOUS
  <1>1. ASSUME NEW p \in PosId, Opening(p) PROVE LedgerInv'
    BY <1>1, OpenShortPutPaid, OpenLongSharesPaid, OpenCoveredCallFreshPaid DEF Opening
  <1>2. ASSUME NEW p \in PosId, Transition(p) PROVE LedgerInv'
    BY <1>2, CloseShortPutPaid, ExpireShortPutPaid, AssignShortPutPaid,
       OpenCoveredCallPaid, CloseCoveredCallPaid, ExpireCoveredCallPaid,
       CalledAwayPaid, CloseSharesManualPaid
    DEF Transition
  <1>3. ASSUME NEW p \in PosId, Correction(p) PROVE LedgerInv'
    BY <1>3, PatchLegPaid, DeletePositionPaid DEF Correction
  <1>4. CASE UNCHANGED vars
    <2>1. IInv'
      BY NextInv DEF LedgerInv
    <2>2. ASSUME NEW p \in Positions' \ edited' PROVE Kept(leg', p, state'[p], cash'[p])
      <3>1. /\ leg' = leg /\ state' = state /\ cash' = cash /\ edited' = edited
            /\ p \in Positions \ edited
        BY <1>4 DEF vars, Positions
      <3>2. Kept(leg, p, state[p], cash[p])
        BY <3>1 DEF LedgerInv
      <3>3. QED
        BY <3>1, <3>2
    <2>3. QED
      BY <2>1, <2>2 DEF LedgerInv
  <1>5. QED
    BY <1>1, <1>2, <1>3, <1>4 DEF Next

LEMMA LedgerKept == Spec => []LedgerInv
  BY LedgerInit, LedgerNext, PTL DEF Spec

\* In every state of every cycle whose legs nobody edited, the P&L booked on the
\* settled legs plus the entry flows of the open ones is the money that its
\* trades moved.
THEOREM LedgerAlwaysBalances == Spec => []LedgerBalances
  <1>1. ASSUME LedgerInv, NEW p \in Positions \ edited
        PROVE  cash[p] = SumFunction([i \in LegsOf(p) |-> BookedValue(i)])
    <2>1. cash[p] = Booked(leg, p)
      BY <1>1 DEF LedgerInv, Kept
    <2>2. Rows(leg, p) = LegsOf(p) /\ \A i \in LegId : RowValue(leg[i]) = BookedValue(i)
      BY DEF Rows, LegsOf, RowValue, BookedValue, Pnl
    <2>3. [i \in Rows(leg, p) |-> RowValue(leg[i])] = [i \in LegsOf(p) |-> BookedValue(i)]
      BY <2>2 DEF Rows
    <2>4. QED
      BY <2>1, <2>3 DEF Booked
  <1>2. LedgerInv => LedgerBalances
    BY <1>1 DEF LedgerBalances
  <1>3. QED
    BY <1>2, LedgerKept, PTL

\* When every leg of a cycle is settled, its options and its shares between them
\* have booked the cycle's money.
LEMMA SettledWorth ==
    ASSUME NEW p, Whole(leg, p), \A i \in Rows(leg, p) : leg[i].outcome # "open"
    PROVE  RealizedPnl(p) = Booked(leg, p)
  <1> DEFINE f == [i \in Rows(leg, p) |-> RowValue(leg[i])]
             g == [i \in OptionLegsOf(p) |-> Pnl(i)]
             h == [i \in SharesLegsOf(p) |-> Pnl(i)]
  <1>1. IsFiniteSet(DOMAIN f) /\ \A i \in DOMAIN f : f[i] \in Int
    BY DEF Whole, RowWhole
  <1>2. \A i \in Rows(leg, p) :
           RowValue(leg[i]) = Pnl(i) /\ leg[i].leg_type \in LegTypes
    BY DEF RowValue, Pnl, Whole, RowWhole
  <1>3. DOMAIN f = DOMAIN g \cup DOMAIN h /\ DOMAIN g \cap DOMAIN h = {}
    BY <1>2 DEF OptionLegsOf, SharesLegsOf, LegsOf, Rows, LegTypes
  <1>4. (\A i \in DOMAIN g : g[i] = f[i]) /\ (\A i \in DOMAIN h : h[i] = f[i])
    BY <1>2, <1>3
  <1>5. Booked(leg, p) = SumFunction(f)
    BY DEF Booked
  <1>6. RealizedPnl(p) = SumFunction(g) + SumFunction(h)
    BY DEF RealizedPnl, TotalPremium, SharesPnl
  <1> HIDE DEF f, g, h
  <1>7. SumFunction(f) = SumFunction(g) + SumFunction(h)
    BY <1>1, <1>3, <1>4, SumFunctionUnion
  <1>8. QED
    BY <1>5, <1>6, <1>7

\* The realized P&L that attribution.py reports for a closed cycle whose legs
\* nobody edited is the cash the cycle made.
THEOREM AttributedIsCash == Spec => []AttributionIsCash
  <1>1. ASSUME LedgerInv, NEW p \in Positions \ edited, state[p] = "closed"
        PROVE  RealizedPnl(p) = cash[p]
    <2>1. Whole(leg, p) /\ Course(leg, p, state[p]) /\ cash[p] = Booked(leg, p)
      BY <1>1 DEF LedgerInv, Kept
    <2>2. \A i \in Rows(leg, p) : leg[i].outcome # "open"
      BY <1>1, <2>1 DEF Course
    <2>3. QED
      BY <2>1, <2>2, SettledWorth
  <1>2. LedgerInv => AttributionIsCash
    BY <1>1 DEF AttributionIsCash
  <1>3. QED
    BY <1>2, LedgerKept, PTL

\* Shares that no call was written against yet cost what they were bought for,
\* less what the puts before them kept.
LEMMA SharesCost ==
    ASSUME IInv, NEW p \in PosId, state[p] = "long_shares",
           Whole(leg, p), Course(leg, p, "long_shares"), WasAssigned(p),
           \A i \in OptionLegsOf(p) : leg[i].leg_type = "short_put"
    PROVE  CostBasis(p) = -Booked(leg, p)
  <1>1. PICK j \in LegId : OpenLegs(p, "shares") = {j}
    BY DEF IInv, PosInv, LegsMatch, OnlyOpen
  <1>2. /\ leg[j].leg_type = "shares" /\ leg[j].outcome = "open" /\ j \in Rows(leg, p)
        /\ leg[j] \in LegRow
    <2>1. leg[j].leg_type = "shares" /\ leg[j].outcome = "open" /\ j \in Rows(leg, p)
      BY <1>1 DEF OpenLegs, Rows
    <2>2. QED
      BY <1>1, <2>1, FoundLeg DEF LegTypes
  <1>3. \A i \in Rows(leg, p) : leg[i].leg_type = "shares" => i = j
    BY <1>2 DEF Course
  <1>4. SharesLegsOf(p) = {j}
    BY <1>2, <1>3 DEF SharesLegsOf, LegsOf, Rows
  <1>5. Min(SharesLegsOf(p)) = j
    BY <1>4, IdsAssumption DEF Min
  <1> DEFINE f == [i \in Rows(leg, p) |-> RowValue(leg[i])]
             g == [i \in PutLegsOf(p) |-> Pnl(i)]
             h == [i \in {j} |-> RowValue(leg[i])]
             cost == leg[j].entry_price * leg[j].shares
  <1>6. IsFiniteSet(DOMAIN f) /\ \A i \in DOMAIN f : f[i] \in Int
    BY DEF Whole, RowWhole
  <1>7. DOMAIN f = DOMAIN g \cup DOMAIN h /\ DOMAIN g \cap DOMAIN h = {}
    <2>1. \A i \in Rows(leg, p) : leg[i].leg_type \in LegTypes
      BY DEF Whole, RowWhole
    <2>2. \A i \in Rows(leg, p) : leg[i].leg_type = "short_put" \/ i = j
      BY <1>3, <2>1 DEF OptionLegsOf, LegsOf, Rows, LegTypes
    <2>3. QED
      BY <1>2, <2>2 DEF PutLegsOf, LegsOf, Rows
  <1>8. (\A i \in DOMAIN g : g[i] = f[i]) /\ (\A i \in DOMAIN h : h[i] = f[i])
    <2>1. \A i \in PutLegsOf(p) : i \in Rows(leg, p) /\ RowValue(leg[i]) = Pnl(i)
      BY DEF Course, PutLegsOf, LegsOf, Rows, RowValue, Pnl
    <2>2. QED
      BY <1>2, <2>1
  <1>9. leg[j].fees = 0
    BY <1>2 DEF Course, WasAssigned, PutLegsOf, LegsOf, Rows
  <1>10. leg[j].shares \in Int /\ leg[j].entry_price \in Int
    <2>1. state[p] \in OpenStates
      BY DEF OpenStates
    <2>2. SoundShares(leg[j])
      BY <1>1, <2>1 DEF IInv, PosInv, Sound
    <2>3. QED
      BY <2>2, Amounts DEF SoundShares
  <1>11. cost \in Int
    BY <1>10, ProductsInt
  <1>12. RowValue(leg[j]) = -cost - 0
    BY <1>2, <1>9 DEF RowValue
  <1>13. CostBasis(p) = cost - SumFunction(g)
    BY <1>5 DEF CostBasis
  <1>14. Booked(leg, p) = SumFunction(f)
    BY DEF Booked
  <1>15. /\ DOMAIN h = {j} /\ h[j] = RowValue(leg[j])
         /\ IsFiniteSet(DOMAIN g) /\ \A i \in DOMAIN g : g[i] \in Int
    <2>1. DOMAIN g \subseteq DOMAIN f
      BY <1>7
    <2>2. IsFiniteSet(DOMAIN g)
      BY <1>6, <2>1, FS_Subset
    <2>3. \A i \in DOMAIN g : g[i] \in Int
      BY <1>6, <1>8, <2>1
    <2>4. QED
      BY <2>2, <2>3
  <1> HIDE DEF f, g, h, cost
  <1>16. SumFunction(f) = SumFunction(g) + SumFunction(h)
    BY <1>6, <1>7, <1>8, SumFunctionUnion
  <1>17. SumFunction(h) = -cost /\ SumFunction(g) \in Int
    <2>1. h[j] \in Int /\ h[j] = -cost
      BY <1>11, <1>12, <1>15
    <2>2. SumFunction(h) = h[j]
      BY <1>15, <2>1, SumFunctionOne
    <2>3. QED
      BY <1>15, <2>1, <2>2, SumFunctionInt
  <1>18. QED
    BY <1>11, <1>13, <1>14, <1>16, <1>17

\* Right after an assignment, before any call is written, the cost basis that
\* attribution.py reports is what the shares have cost, net of the put premium
\* and its fees.
THEOREM CostBasisIsWhatWasPaid == Spec => []CostBasisIsCashPaid
  <1>1. ASSUME LedgerInv, NEW p \in Positions \ edited,
               state[p] = "long_shares", WasAssigned(p),
               \A i \in OptionLegsOf(p) : leg[i].leg_type = "short_put"
        PROVE  CostBasis(p) = -cash[p]
    <2>1. /\ Whole(leg, p) /\ Course(leg, p, "long_shares")
          /\ cash[p] = Booked(leg, p) /\ IInv /\ p \in PosId
      BY <1>1 DEF LedgerInv, Kept, Positions
    <2>2. CostBasis(p) = -Booked(leg, p)
      BY <1>1, <2>1, SharesCost
    <2>3. QED
      BY <2>1, <2>2
  <1>2. LedgerInv => CostBasisIsCashPaid
    BY <1>1 DEF CostBasisIsCashPaid
  <1>3. QED
    BY <1>2, LedgerKept, PTL

=============================================================================
