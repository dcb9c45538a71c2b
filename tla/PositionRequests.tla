-------------------------- MODULE PositionRequests --------------------------
(***************************************************************************)
(* The position endpoints as their threads run them.  FastAPI serves each  *)
(* request on a thread of its pool; a transition loads the position in one *)
(* SELECT, each leg it needs in another, and takes SQLite's write lock     *)
(* only when it flushes.  Nothing it has read is checked again: an UPDATE  *)
(* names the primary key and the columns that changed, and fails only when *)
(* the row is gone.                                                        *)
(*                                                                         *)
(* Money is WheelPositions' subject; here a leg is its type and outcome.   *)
(***************************************************************************)
EXTENDS Integers, FiniteSets, Sequences

CONSTANTS
    Clients,    \* threads serving requests
    PosId,      \* rowids of positions
    LegId,      \* rowids of position_legs
    Overlaps,   \* the values of overlap to consider
    MaxOpened   \* bound on the positions ever opened

ASSUME RowidsAssumption == PosId \subseteq Nat \ {0} /\ LegId \subseteq Nat \ {0}
ASSUME ModeAssumption == Overlaps \subseteq BOOLEAN /\ MaxOpened \in Nat

LegTypes == {"short_put", "covered_call", "shares"}
States == {"short_put", "long_shares", "covered_call", "closed", "none"}
Outcomes == {"open", "closed", "expired", "assigned", "called_away"}

\* A function of state_machine.py: the state it requires, the open legs it looks
\* up in order, the outcome of those it settles, the leg it opens and the state
\* it sets.
Function(from, finds, settles, outcome, opens, to) ==
    [from |-> from, finds |-> finds, settles |-> settles, outcome |-> outcome,
     opens |-> opens, to |-> to]

Transitions ==
    [close_short_put |->
        Function("short_put", <<"short_put">>, {"short_put"}, "closed", {}, "closed"),
     expire_short_put |->
        Function("short_put", <<"short_put">>, {"short_put"}, "expired", {}, "closed"),
     assign_short_put |->
        Function("short_put", <<"short_put">>, {"short_put"}, "assigned", {"shares"},
                 "long_shares"),
     open_covered_call |->
        Function("long_shares", <<"shares">>, {}, "open", {"covered_call"}, "covered_call"),
     close_covered_call |->
        Function("covered_call", <<"covered_call">>, {"covered_call"}, "closed", {},
                 "long_shares"),
     expire_covered_call |->
        Function("covered_call", <<"covered_call">>, {"covered_call"}, "expired", {},
                 "long_shares"),
     called_away |->
        Function("covered_call", <<"covered_call", "shares">>, {"covered_call", "shares"},
                 "called_away", {}, "closed"),
     close_shares_manual |->
        Function("long_shares", <<"shares">>, {"shares"}, "closed", {}, "closed")]

Names == DOMAIN Transitions

VARIABLES
    state,    \* state[p]: the state column, or "none"
    leg,      \* leg[i]: position_id, leg_type and outcome of a row, or NoLeg
    req,      \* req[c]: the request client c is serving, or NoRequest
    opened,   \* history: positions ever opened
    overlap   \* may two requests about one position be under way at once?

request_vars == <<state, leg, req, opened, overlap>>

NoLeg == [pos |-> 0, leg_type |-> "none", outcome |-> "none"]

\* find: types still to be looked up; found: the legs looked up that it will update.
NoRequest == [name |-> "none", pos |-> 0, find |-> <<>>, found |-> {}]

RequestsInit ==
    /\ state = [p \in PosId |-> "none"]
    /\ leg = [i \in LegId |-> NoLeg]
    /\ req = [c \in Clients |-> NoRequest]
    /\ opened = 0
    /\ overlap \in Overlaps

Positions == {p \in PosId : state[p] # "none"}
Legs == {i \in LegId : leg[i] # NoLeg}
OpenLegs(p, t) == {i \in LegId : leg[i] = [pos |-> p, leg_type |-> t, outcome |-> "open"]}

NextRowid(ids, i) ==
    /\ \A j \in ids : j < i
    /\ i = 1 \/ i - 1 \in ids

\* Mutant: a new leg waits for a confirmation that nothing gives.
PendingLeg(p, t) == [pos |-> p, leg_type |-> t, outcome |-> "pending"]

OpenLeg(p, t) == [pos |-> p, leg_type |-> t, outcome |-> "open"]

-----------------------------------------------------------------------------

\* The three opening endpoints read nothing they depend on.
OpenPosition(p) ==
    /\ opened < MaxOpened
    /\ NextRowid(Positions, p)
    /\ \E i \in LegId :
          /\ NextRowid(Legs, i)
          /\ \/ /\ state' = [state EXCEPT ![p] = "short_put"]
                /\ leg' = [leg EXCEPT ![i] = OpenLeg(p, "short_put")]
             \/ /\ state' = [state EXCEPT ![p] = "long_shares"]
                /\ leg' = [leg EXCEPT ![i] = OpenLeg(p, "shares")]
             \/ /\ i + 1 \in LegId
                /\ state' = [state EXCEPT ![p] = "covered_call"]
                /\ leg' = [leg EXCEPT ![i] = OpenLeg(p, "shares"),
                                      ![i + 1] = OpenLeg(p, "covered_call")]
    /\ opened' = opened + 1
    /\ UNCHANGED <<req, overlap>>

MayServe(c, p) ==
    /\ req[c] = NoRequest
    /\ overlap \/ \A d \in Clients : req[d].pos # p

Serves(c, r) == req' = [req EXCEPT ![c] = r]

\* Mutant: the state of the position is not checked.
LoadAnyPosition(c, name, p) ==
    /\ MayServe(c, p)
    /\ state[p] # "none"
    /\ Serves(c, [name |-> name, pos |-> p, find |-> Transitions[name].finds, found |-> {}])
    /\ UNCHANGED <<state, leg, opened, overlap>>

\* _require_position and the check of its state.
LoadPosition(c, name, p) ==
    /\ MayServe(c, p)
    /\ state[p] = Transitions[name].from
    /\ Serves(c, [name |-> name, pos |-> p, find |-> Transitions[name].finds, found |-> {}])
    /\ UNCHANGED <<state, leg, opened, overlap>>

\* _require_open_leg, one SELECT per type; the shares under a new call are only read.
FindLeg(c) ==
    LET t == Head(req[c].find)
    IN  /\ req[c].find # <<>>
        /\ \E i \in LegId :
              /\ OpenLegs(req[c].pos, t) = {i}
              /\ Serves(c, [req[c] EXCEPT
                    !.find = Tail(@),
                    !.found = IF t \in Transitions[req[c].name].settles THEN @ \cup {i} ELSE @])
    /\ UNCHANGED <<state, leg, opened, overlap>>

\* No such leg, or several (MultipleResultsFound): the session is rolled back.
FindFails(c) ==
    /\ req[c].find # <<>>
    /\ Cardinality(OpenLegs(req[c].pos, Head(req[c].find))) # 1
    /\ Serves(c, NoRequest)
    /\ UNCHANGED <<state, leg, opened, overlap>>

\* Mutant: the first leg found is enough.
ReadyAtOnce(c) == req[c].name \in Names /\ req[c].found # {}

Ready(c) == req[c].name \in Names /\ req[c].find = <<>>

\* Every row the request updates is still there.
RowsThere(c) == state[req[c].pos] # "none" /\ req[c].found \subseteq Legs

\* Mutant: the legs are updated by position and type, not by key.
CommitByType(c) ==
    /\ Ready(c)
    /\ RowsThere(c)
    /\ LET f == Transitions[req[c].name]
           p == req[c].pos
           settled == [i \in LegId |->
                          IF leg[i].pos = p /\ leg[i].leg_type \in f.settles
                          THEN [leg[i] EXCEPT !.outcome = f.outcome] ELSE leg[i]]
       IN  /\ state' = [state EXCEPT ![p] = f.to]
           /\ \/ f.opens = {} /\ leg' = settled
              \/ \E i \in LegId, t \in f.opens :
                    /\ NextRowid(Legs, i)
                    /\ leg' = [settled EXCEPT ![i] = OpenLeg(p, t)]
    /\ Serves(c, NoRequest)
    /\ UNCHANGED <<opened, overlap>>

\* The flush and the commit, on the rows as they are by now.
Commit(c) ==
    /\ Ready(c)
    /\ RowsThere(c)
    /\ LET f == Transitions[req[c].name]
           p == req[c].pos
           settled == [i \in LegId |->
                          IF i \in req[c].found
                          THEN [leg[i] EXCEPT !.outcome = f.outcome] ELSE leg[i]]
       IN  /\ state' = [state EXCEPT ![p] = f.to]
           /\ \/ f.opens = {} /\ leg' = settled
              \/ \E i \in LegId, t \in f.opens :
                    /\ NextRowid(Legs, i)
                    /\ leg' = [settled EXCEPT ![i] = OpenLeg(p, t)]
    /\ Serves(c, NoRequest)
    /\ UNCHANGED <<opened, overlap>>

\* An UPDATE that matches no row (StaleDataError) rolls the whole session back.
CommitFails(c) ==
    /\ Ready(c)
    /\ ~RowsThere(c)
    /\ Serves(c, NoRequest)
    /\ UNCHANGED <<state, leg, opened, overlap>>

\* delete_position: its check ...
LoadClosed(c, p) ==
    /\ MayServe(c, p)
    /\ state[p] = "closed"
    /\ Serves(c, [name |-> "delete_position", pos |-> p, find |-> <<>>, found |-> {}])
    /\ UNCHANGED <<state, leg, opened, overlap>>

\* ... and its deletes, of whatever has that position_id by then.
Delete(c) ==
    /\ req[c].name = "delete_position"
    /\ leg' = [i \in LegId |-> IF leg[i].pos = req[c].pos THEN NoLeg ELSE leg[i]]
    /\ state' = [state EXCEPT ![req[c].pos] = "none"]
    /\ Serves(c, NoRequest)
    /\ UNCHANGED <<opened, overlap>>

RequestsNext ==
    \/ \E p \in PosId : OpenPosition(p)
    \/ \E c \in Clients :
          \/ \E p \in PosId : LoadClosed(c, p)
          \/ \E p \in PosId, name \in Names : LoadPosition(c, name, p)
          \/ FindLeg(c) \/ FindFails(c) \/ Commit(c) \/ CommitFails(c) \/ Delete(c)

RequestsSpec == RequestsInit /\ [][RequestsNext]_request_vars

-----------------------------------------------------------------------------
(* Properties *)

\* Type correctness.
RequestsTypeOK ==
    /\ state \in [PosId -> States] /\ overlap \in Overlaps
    /\ leg \in [LegId -> [pos : PosId, leg_type : LegTypes, outcome : Outcomes] \cup {NoLeg}]
    /\ \A c \in Clients :
          /\ req[c].name \in Names \cup {"delete_position", "none"}
          /\ req[c].pos \in PosId \cup {0}
          /\ req[c].found \subseteq LegId

Counts(p, put, shares, call) ==
    /\ Cardinality(OpenLegs(p, "short_put")) = put
    /\ Cardinality(OpenLegs(p, "shares")) = shares
    /\ Cardinality(OpenLegs(p, "covered_call")) = call

\* "Each function validates the current state, the leg invariants"
\* (state_machine.py): whatever requests are under way, the open legs of a
\* position are the ones its state calls for.
LegsMatchState ==
    \A p \in Positions :
        CASE state[p] = "short_put" -> Counts(p, 1, 0, 0)
          [] state[p] = "long_shares" -> Counts(p, 0, 1, 0)
          [] state[p] = "covered_call" -> Counts(p, 0, 1, 1)
          [] state[p] = "closed" -> Counts(p, 0, 0, 0)

\* Reading and committing apart from each other is safe as long as no two requests
\* about one position overlap, whatever happens to the positions beside it.
LegsMatchInTurn == ~overlap => LegsMatchState

\* A leg is settled once: no request overwrites the outcome, and with it the
\* P&L, that another has booked, unless both were about one position.
SettledOnce ==
    [][\A i \in Legs :
          leg[i].outcome # "open" /\ ~overlap => leg'[i] \in {leg[i], NoLeg}]_request_vars

\* The open legs as WheelCycle sees them: every lot is one contract or its shares.
Held ==
    [p \in PosId |->
        {[kind |-> leg[i].leg_type, qty |-> 1] :
            i \in {j \in LegId : leg[j].pos = p /\ leg[j].outcome = "open"}}]

Cycle ==
    INSTANCE WheelCycle WITH Contracts <- {1}, ShareLots <- {1}, Multiplier <- 1, holdings <- Held

\* Requests that read first and commit later still move each position along the
\* edges of the wheel and no others (the graph in the header of
\* positions/state_machine.py), one edge at a time, as long as no two about one
\* position overlap.
FollowsWheel == [][~overlap => Cycle!Next]_Held

=============================================================================
