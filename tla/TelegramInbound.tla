--------------------------- MODULE TelegramInbound ---------------------------
(***************************************************************************)
(* The inbound Telegram bot: the chat it reads, the update offset it keeps *)
(* in bot_state, the thread that polls, and the two tables its commands    *)
(* write, alerts.user_acked and the __global__ row of alert_preferences,   *)
(* next to the endpoints and the dispatcher that use the same rows.        *)
(*                                                                         *)
(* A poll is four kinds of step: load the offset, getUpdates, handle one   *)
(* update (a transaction of its own), save the offset.  The thread can be  *)
(* stopped and another one started, which join(timeout=2.0) does not wait  *)
(* for, and the process can die between any two steps.                     *)
(***************************************************************************)
EXTENDS Integers, Sequences, FiniteSetsExt

CONSTANTS
    Bots,         \* poller threads, a bound on those alive at the same time
    MaxUpdates,   \* bound on the updates people send
    MaxAlerts,    \* bound on the alerts dispatched
    MaxFailures,  \* telegram_inbound_max_failures
    MaxFaults,    \* bound on the network errors and lock timeouts
    MaxRestarts   \* bound on the starts of the application

ASSUME BoundsAssumption ==
    /\ {MaxUpdates, MaxAlerts, MaxFaults, MaxRestarts} \subseteq Nat
    /\ MaxFailures \in Nat \ {0}

\* An update: an inline ack of an alert, /snooze with a duration, /snooze off,
\* or anything that leaves the database alone (the commands that only read, an
\* unknown command, an unauthorized chat, an alert id that does not exist).
Kinds == {"ack", "snooze", "off", "read"}
Updates == [kind : Kinds, alert : 0 .. MaxAlerts]

VARIABLES
    chat,      \* every update sent so far; its update_id is its index
    confirmed, \* Telegram forgets the updates below this offset
    offset,    \* bot_state's telegram_update_offset; 1 when there is no row
    alerts,    \* rows of the alerts table
    acked,     \* alerts with user_acked
    snooze,    \* the update that set the global snooze_until, 0 when it is null
    expired,   \* snooze_until is in the past
    enabled,   \* the alert type is enabled in alert_preferences
    bot,       \* bot[b]: [pc, from, batch, fails, stop]
    current,   \* the thread in _INBOUND_STATE
    up,        \* the application runs
    handled,   \* history: updates that have been handled
    dropped,   \* history: updates whose handler raised
    counts     \* history: faults, restarts, whether two threads ever polled, whether one gave up

tables == <<offset, alerts, acked, snooze, expired, enabled>>
world == <<chat, confirmed>>
history == <<handled, dropped, counts>>
vars == <<world, tables, bot, current, up, history>>

NoBot == "none"
Off == [pc |-> "off", from |-> 0, batch |-> <<>>, fails |-> 0, stop |-> FALSE]

Init ==
    /\ chat = <<>> /\ confirmed = 1
    /\ offset = 1
    /\ alerts = 0 /\ acked = {} /\ snooze = 0 /\ expired = FALSE /\ enabled = TRUE
    /\ bot = [b \in Bots |-> Off]
    /\ current = NoBot
    /\ up = FALSE
    /\ handled = {}
    /\ dropped = {}
    /\ counts = [faults |-> 0, restarts |-> 0, twins |-> FALSE, gaveUp |-> FALSE]

Alive(b) == bot[b].pc # "off"

-----------------------------------------------------------------------------
(* The people, the web interface and the dispatcher *)

Send(kind, a) ==
    /\ Len(chat) < MaxUpdates
    /\ kind = "ack" <=> a # 0
    /\ chat' = Append(chat, [kind |-> kind, alert |-> a])
    /\ UNCHANGED <<confirmed, tables, bot, current, up, history>>

\* Silenced, the dispatcher writes no row.
Dispatch ==
    /\ up /\ enabled /\ (snooze = 0 \/ expired)
    /\ alerts < MaxAlerts
    /\ alerts' = alerts + 1
    /\ UNCHANGED <<world, offset, acked, snooze, expired, enabled, bot, current, up, history>>

SetAck(a) ==
    /\ up
    /\ \/ acked' = acked \cup {a}
       \/ acked' = acked \ {a}
    /\ UNCHANGED <<world, offset, alerts, snooze, expired, enabled, bot, current, up, history>>

\* channels, enabled and the quiet hours are written, snooze_until is not.
UpsertPreference ==
    /\ up
    /\ enabled' = ~enabled
    /\ UNCHANGED <<world, offset, alerts, acked, snooze, expired, bot, current, up, history>>

\* Time passes snooze_until; the column keeps its value.
SnoozeExpires ==
    /\ snooze # 0
    /\ expired' = TRUE
    /\ UNCHANGED <<world, offset, alerts, acked, snooze, enabled, bot, current, up, history>>

-----------------------------------------------------------------------------
(* The application's lifespan *)

\* create_and_start: nothing to do while the registered thread is alive.
StartBot(b) ==
    /\ ~up
    /\ up' = TRUE
    /\ IF current # NoBot /\ Alive(current)
         THEN UNCHANGED <<bot, current, counts>>
         ELSE /\ ~Alive(b) /\ b = CHOOSE c \in Bots : ~Alive(c)
              /\ bot' = [bot EXCEPT ![b] = [Off EXCEPT !.pc = "load"]]
              /\ current' = b
              /\ counts' = [counts EXCEPT !.twins = @ \/ \E c \in Bots : Alive(c)]
    /\ UNCHANGED <<world, tables, handled, dropped>>

\* shutdown: ask the thread to stop, wait two seconds, forget it.
StopBot ==
    /\ up
    /\ counts.restarts < MaxRestarts
    /\ up' = FALSE
    /\ counts' = [counts EXCEPT !.restarts = @ + 1]
    /\ IF current = NoBot THEN UNCHANGED bot
                          ELSE bot' = [bot EXCEPT ![current].stop = TRUE]
    /\ current' = NoBot
    /\ UNCHANGED <<world, tables, handled, dropped>>

\* The process dies, or, after shutdown, exits and takes its daemon threads along.
Crash ==
    /\ up \/ \E b \in Bots : Alive(b)
    /\ up => counts.restarts < MaxRestarts
    /\ up' = FALSE
    /\ counts' = [counts EXCEPT !.restarts = IF up THEN @ + 1 ELSE @]
    /\ bot' = [b \in Bots |-> Off]
    /\ current' = NoBot
    /\ UNCHANGED <<world, tables, handled, dropped>>

-----------------------------------------------------------------------------
(* The poller *)

Becomes(b, r) == bot' = [bot EXCEPT ![b] = r]

\* run_forever looks at the stop event between two polls only.
LoadOffset(b) ==
    /\ bot[b].pc = "load"
    /\ IF bot[b].stop THEN Becomes(b, Off)
                      ELSE Becomes(b, [bot[b] EXCEPT !.pc = "get", !.from = offset])
    /\ UNCHANGED <<world, tables, current, up, history>>

\* getUpdates confirms what is below the offset and returns the rest.
GetUpdates(b) ==
    LET from == Max({bot[b].from, confirmed})
    IN  /\ bot[b].pc = "get"
        /\ confirmed' = from
        /\ IF from > Len(chat)
             THEN Becomes(b, [bot[b] EXCEPT !.pc = "load", !.from = 0, !.fails = 0])
             ELSE Becomes(b, [bot[b] EXCEPT !.pc = "handle", !.from = 0,
                                            !.batch = [i \in 1 .. Len(chat) - from + 1 |-> from + i - 1]])
        /\ UNCHANGED <<chat, tables, current, up, history>>

\* Mutant: the bot toggles, as the web interface does.
ApplyToggling(u) ==
    LET m == chat[u]
    IN  /\ acked' = acked \cup ({m.alert} \ {0})
        /\ snooze' = CASE m.kind = "snooze" -> (IF snooze = 0 THEN u ELSE 0)
                       [] m.kind = "off"    -> 0
                       [] OTHER             -> snooze
        /\ expired' = (m.kind \notin {"snooze", "off"} /\ expired)

\* _ack_alert and _apply_snooze; /snooze without an argument also clears, and a
\* duration counts from the moment the command is handled.
Apply(u) ==
    LET m == chat[u]
    IN  /\ acked' = acked \cup ({m.alert} \ {0})
        /\ snooze' = CASE m.kind = "snooze" -> u
                       [] m.kind = "off"    -> 0
                       [] OTHER             -> snooze
        /\ expired' = (m.kind \notin {"snooze", "off"} /\ expired)

\* Mutant: the first failure ends the batch, and the offset of what it reached is
\* not saved.
NextUpdateOrStop(b) ==
    LET r == bot[b]
    IN  Becomes(b, IF Len(r.batch) = 1 THEN [r EXCEPT !.pc = "save"]
                   ELSE [r EXCEPT !.pc = "load", !.batch = <<>>])

\* The batch is done when its last update has been handled, well or badly.
NextUpdate(b) ==
    LET r == bot[b]
    IN  Becomes(b, IF Len(r.batch) = 1 THEN [r EXCEPT !.pc = "save"]
                                       ELSE [r EXCEPT !.batch = Tail(@)])

Handle(b) ==
    LET u == Head(bot[b].batch)
    IN  /\ bot[b].pc = "handle"
        /\ Apply(u)
        /\ handled' = handled \cup {u}
        /\ NextUpdate(b)
        /\ UNCHANGED <<world, offset, alerts, enabled, current, up, dropped, counts>>

Fault ==
    /\ counts.faults < MaxFaults
    /\ counts' = [counts EXCEPT !.faults = @ + 1]

\* A handler that cannot get the write lock raises; poll_once logs it and goes on.
HandleFails(b) ==
    LET u == Head(bot[b].batch)
    IN  /\ bot[b].pc = "handle"
        /\ chat[u].kind # "read"
        /\ Fault
        /\ dropped' = dropped \cup {u}
        /\ NextUpdate(b)
        /\ UNCHANGED <<world, tables, current, up, handled>>

\* Mutant: the offset of what is in the chat by now.
SaveNewest(b) ==
    /\ bot[b].pc = "save"
    /\ offset' = Len(chat) + 1
    /\ Becomes(b, [bot[b] EXCEPT !.pc = "load", !.batch = <<>>, !.fails = 0])
    /\ UNCHANGED <<world, alerts, acked, snooze, expired, enabled, current, up, history>>

\* One write for the whole batch, after its last update.
SaveOffset(b) ==
    /\ bot[b].pc = "save"
    /\ offset' = Head(bot[b].batch) + 1
    /\ Becomes(b, [bot[b] EXCEPT !.pc = "load", !.batch = <<>>, !.fails = 0])
    /\ UNCHANGED <<world, alerts, acked, snooze, expired, enabled, current, up, history>>

\* Mutant: one poll too many.
GivesUpLate(fails) == fails > MaxFailures

GivesUp(fails) == fails >= MaxFailures

\* A poll that raises is counted; at the limit the loop ends, and nothing
\* starts it again before the next start of the application.
PollFails(b) ==
    LET fails == bot[b].fails + 1
    IN  /\ bot[b].pc \in {"get", "save"}
        /\ counts.faults < MaxFaults
        /\ counts' = [counts EXCEPT !.faults = @ + 1, !.gaveUp = @ \/ GivesUp(fails)]
        /\ Becomes(b, IF GivesUp(fails) THEN Off
                      ELSE [bot[b] EXCEPT !.pc = "load", !.from = 0, !.batch = <<>>, !.fails = fails])
        /\ UNCHANGED <<world, tables, current, up, handled, dropped>>

Step(b) ==
    LoadOffset(b) \/ GetUpdates(b) \/ Handle(b) \/ HandleFails(b) \/ SaveOffset(b) \/ PollFails(b)

Next ==
    \/ \E kind \in Kinds : \E a \in 0 .. alerts : Send(kind, a)
    \/ Dispatch \/ UpsertPreference \/ SnoozeExpires
    \/ \E a \in 1 .. alerts : SetAck(a)
    \/ \E b \in Bots : StartBot(b) \/ Step(b)
    \/ StopBot \/ Crash

\* The service manager starts the application again, and a thread keeps running.
Fairness ==
    /\ WF_vars(\E b \in Bots : StartBot(b))
    /\ \A b \in Bots : WF_vars(Step(b))

Spec == Init /\ [][Next]_vars /\ Fairness

-----------------------------------------------------------------------------
(* Properties *)

\* Type correctness.
TypeOK ==
    /\ chat \in Seq(Updates) /\ Len(chat) <= MaxUpdates
    /\ confirmed \in 1 .. MaxUpdates + 1 /\ offset \in 1 .. MaxUpdates + 1
    /\ alerts \in 0 .. MaxAlerts /\ acked \subseteq 1 .. alerts
    /\ snooze \in 0 .. Len(chat) /\ (expired => snooze # 0)
    /\ enabled \in BOOLEAN /\ up \in BOOLEAN
    /\ current \in Bots \cup {NoBot}
    /\ \A b \in Bots :
          /\ bot[b].pc \in {"off", "load", "get", "handle", "save"}
          /\ bot[b].batch \in Seq(1 .. Len(chat))
          /\ bot[b].pc \in {"handle", "save"} <=> bot[b].batch # <<>>
          /\ bot[b].fails \in 0 .. MaxFailures - 1

\* The saved offset never runs past an update that no handler has seen: polls
\* that fail, restarts between any two steps and a second thread cost
\* repetitions, never a command.
NoneSkipped == \A u \in 1 .. offset - 1 : u \in handled \cup dropped

SnoozeCommands == {u \in 1 .. Len(chat) : chat[u].kind \in {"snooze", "off"}}

\* When every update has been taken in, the snooze in force is the one the last
\* command asked for, however often a batch was repeated before its offset was
\* saved and whatever was edited in between (unless two threads polled, or the
\* command was dropped).
LastCommandWins ==
    /\ offset > Len(chat) /\ ~counts.twins
    /\ \A b \in Bots : bot[b].pc \in {"off", "load", "get"}
    /\ SnoozeCommands # {} /\ dropped = {}
    => LET u == Max(SnoozeCommands)
       IN  snooze = IF chat[u].kind = "snooze" THEN u ELSE 0

\* Every update reaches its handler in the end, also after restarts, failed
\* polls and with a second thread that moves the saved offset back, unless the
\* poller has given up.
Drained ==
    \A u \in 1 .. MaxUpdates :
        Len(chat) >= u ~> (u \in handled \cup dropped \/ counts.gaveUp)

=============================================================================
