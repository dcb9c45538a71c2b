------------------------- MODULE TelegramInboundProofs -------------------------
(***************************************************************************)
(* Proofs about TelegramInbound, for every number of threads, updates,     *)
(* failures and restarts: its types, that no command is passed over, and   *)
(* that the last snooze command is the one in force.                       *)
(***************************************************************************)
EXTENDS TelegramInbound, SequenceTheorems, TLAPS

Phases == {"off", "load", "get", "handle", "save"}
Threads == [pc : Phases, from : 0 .. MaxUpdates + 1, batch : Seq(Nat),
            fails : 0 .. MaxFailures - 1, stop : BOOLEAN]

Done == handled \cup dropped

\* Every update below n is in D.
Below(n, D) == \A u \in 1 .. n - 1 : u \in D

\* A batch holds successive updates of the n sent, and everything before what a
\* thread is about to ask for, to handle or to save is in D.
Sound(t, n, D) ==
    /\ t.pc \in {"handle", "save"} <=> t.batch # <<>>
    /\ \A i \in 1 .. Len(t.batch) : t.batch[i] \in 1 .. n /\ t.batch[i] = t.batch[1] + i - 1
    /\ t.pc = "get" => t.from >= 1 /\ Below(t.from, D)
    /\ t.pc = "handle" => Below(t.batch[1], D)
    /\ t.pc = "save" => Len(t.batch) = 1 /\ Below(t.batch[1] + 1, D)

Chat ==
    /\ chat \in Seq(Updates) /\ Len(chat) <= MaxUpdates
    /\ \A u \in 1 .. Len(chat) : chat[u].alert \in 0 .. alerts
Offsets ==
    /\ confirmed \in 1 .. MaxUpdates + 1 /\ Below(confirmed, Done)
    /\ offset \in 1 .. MaxUpdates + 1 /\ Below(offset, Done)
Rows ==
    /\ alerts \in 0 .. MaxAlerts /\ acked \subseteq 1 .. alerts
    /\ snooze \in 0 .. Len(chat) /\ expired \in BOOLEAN /\ (expired => snooze # 0)
    /\ enabled \in BOOLEAN
App == up \in BOOLEAN /\ current \in Bots \cup {NoBot}
Pollers == bot \in [Bots -> Threads] /\ \A b \in Bots : Sound(bot[b], Len(chat), Done)

\* The inductive invariant.
IInv == Chat /\ Offsets /\ Rows /\ App /\ Pollers

-----------------------------------------------------------------------------

LEMMA Numbers ==
    MaxUpdates \in Nat /\ MaxAlerts \in Nat /\ MaxFailures \in Nat /\ MaxFailures >= 1
  <1>1. MaxUpdates \in Nat /\ MaxAlerts \in Nat
    BY Zenon, BoundsAssumption
  <1>2. QED
    BY <1>1, BoundsAssumption

\* What is sound stays so when more has been sent and handled.
LEMMA SoundKeeps ==
    ASSUME NEW t \in Threads, NEW n \in Nat, NEW m \in Nat, NEW D, NEW E,
           n <= m, D \subseteq E, Sound(t, n, D)
    PROVE  Sound(t, m, E)
  BY DEF Sound, Below, Threads

\* One thread moves, the others are where they were.
LEMMA OneMoves ==
    ASSUME Chat, Pollers, NEW b \in Bots, NEW t \in Threads,
           bot' = [bot EXCEPT ![b] = t], chat' = chat, Done \subseteq Done',
           Sound(t, Len(chat), Done')
    PROVE  Pollers'
  <1>1. Len(chat) \in Nat
    BY DEF Chat
  <1>2. bot' \in [Bots -> Threads]
    BY DEF Pollers
  <1>3. ASSUME NEW c \in Bots PROVE Sound(bot'[c], Len(chat'), Done')
    <2>1. CASE c = b
      BY <2>1 DEF Pollers
    <2>2. CASE c # b
      <3>1. bot'[c] = bot[c] /\ bot[c] \in Threads /\ Sound(bot[c], Len(chat), Done)
        BY <2>2 DEF Pollers
      <3>2. QED
        BY <3>1, <1>1, SoundKeeps
    <2>3. QED
      BY <2>1, <2>2
  <1>4. QED
    BY <1>2, <1>3 DEF Pollers

\* No thread moves.
LEMMA NoneMoves ==
    ASSUME Pollers, chat \in Seq(Updates), chat' \in Seq(Updates), Len(chat) <= Len(chat'),
           UNCHANGED <<bot, handled, dropped>>
    PROVE  Pollers'
  <1>1. Len(chat) \in Nat /\ Len(chat') \in Nat /\ Done' = Done
    BY DEF Done
  <1>2. ASSUME NEW c \in Bots PROVE Sound(bot[c], Len(chat'), Done)
    BY <1>1, SoundKeeps DEF Pollers
  <1>3. QED
    BY <1>1, <1>2 DEF Pollers

\* A thread that holds no batch and asks for nothing is sound.
LEMMA Resting ==
    ASSUME NEW t \in Threads, NEW n, NEW D, t.pc \in {"off", "load"}, t.batch = <<>>
    PROVE  Sound(t, n, D)
  BY DEF Sound, Threads

LEMMA OffRests == Off \in Threads /\ [Off EXCEPT !.pc = "load"] \in Threads
  <1>1. <<>> \in Seq(Nat) /\ 0 \in 0 .. MaxUpdates + 1 /\ 0 \in 0 .. MaxFailures - 1
    BY Numbers
  <1>2. Off \in Threads
    BY <1>1 DEF Off, Threads, Phases
  <1>3. QED
    BY <1>2 DEF Threads, Phases

LEMMA InitInv == Init => IInv
  <1> SUFFICES ASSUME Init PROVE IInv
    OBVIOUS
  <1>1. Chat /\ Offsets /\ Rows /\ App
    <2>1. <<>> \in Seq(Updates) /\ Len(chat) = 0
      BY DEF Init
    <2>2. Chat
      BY <2>1, Numbers DEF Init, Chat
    <2>3. Offsets
      BY Numbers DEF Init, Offsets, Below
    <2>4. Rows
      <3>1. alerts \in 0 .. MaxAlerts /\ acked \subseteq 1 .. alerts /\ snooze \in 0 .. Len(chat)
        BY <2>1, Numbers DEF Init
      <3>2. expired \in BOOLEAN /\ ~expired /\ enabled \in BOOLEAN
        BY Zenon DEF Init
      <3>3. QED
        BY <3>1, <3>2 DEF Rows
    <2>5. QED
      BY <2>2, <2>3, <2>4 DEF Init, App
  <1>2. Off.pc = "off" /\ Off.batch = <<>>
    BY DEF Off
  <1>3. Pollers
    BY <1>2, OffRests, Resting DEF Init, Pollers
  <1>4. QED
    BY <1>1, <1>3 DEF IInv

-----------------------------------------------------------------------------
(* The world around the bot *)

LEMMA SendInv ==
    ASSUME IInv, NEW kind \in Kinds, NEW a \in 0 .. alerts, Send(kind, a)
    PROVE  IInv'
  <1> DEFINE m == [kind |-> kind, alert |-> a]
  <1>1. m \in Updates
    BY Numbers DEF IInv, Rows, Updates
  <1>2. chat' \in Seq(Updates) /\ Len(chat') = Len(chat) + 1 /\ Len(chat) \in Nat
    BY <1>1 DEF IInv, Chat, Send
  <1>3. Chat'
    <2>1. Len(chat') <= MaxUpdates
      BY <1>2, Numbers DEF Send
    <2>2. ASSUME NEW u \in 1 .. Len(chat') PROVE chat'[u].alert \in 0 .. alerts'
      BY <1>1, <1>2 DEF Send, tables, IInv, Chat, Rows
    <2>3. QED
      BY <1>2, <2>1, <2>2 DEF Chat
  <1>4. Offsets' /\ Rows' /\ App'
    BY <1>2 DEF IInv, Offsets, Rows, App, Send, tables, history, Done
  <1>5. Pollers'
    <2>1. UNCHANGED <<bot, handled, dropped>> /\ Len(chat) <= Len(chat')
      BY <1>2 DEF Send, history
    <2>2. QED
      BY <1>2, <2>1, NoneMoves DEF IInv, Chat
  <1>6. QED
    BY <1>3, <1>4, <1>5 DEF IInv

\* Steps that leave the chat, the offsets and the threads alone.
Aside == UNCHANGED <<world, offset, bot, handled, dropped>>

LEMMA AsideInv ==
    ASSUME IInv, Aside, alerts <= alerts', alerts' \in 0 .. MaxAlerts, Rows', App'
    PROVE  IInv'
  <1>1. Chat'
    BY Numbers DEF IInv, Chat, Rows, Aside, world
  <1>2. Offsets'
    BY DEF IInv, Offsets, Aside, world, Done
  <1>3. Pollers'
    <2>1. chat' = chat /\ UNCHANGED <<bot, handled, dropped>> /\ chat \in Seq(Updates)
      BY DEF IInv, Chat, Aside, world
    <2>2. Len(chat) <= Len(chat') /\ chat' \in Seq(Updates)
      BY <2>1
    <2>3. QED
      BY <2>1, <2>2, NoneMoves DEF IInv
  <1>4. QED
    BY <1>1, <1>2, <1>3 DEF IInv

LEMMA TablesInv ==
    ASSUME IInv, Dispatch \/ UpsertPreference \/ SnoozeExpires \/ \E a \in 1 .. alerts : SetAck(a)
    PROVE  IInv'
  <1>1. Aside /\ App'
    BY DEF IInv, App, Aside, Dispatch, UpsertPreference, SnoozeExpires, SetAck, history, world
  <1>2. alerts <= alerts' /\ alerts' \in 0 .. MaxAlerts
    BY Numbers DEF IInv, Rows, Dispatch, UpsertPreference, SnoozeExpires, SetAck
  <1>3. Rows'
    <2>1. CASE Dispatch
      BY <2>1, Numbers DEF IInv, Rows, Dispatch, world
    <2>2. CASE UpsertPreference
      BY <2>2 DEF IInv, Rows, UpsertPreference, world
    <2>3. CASE SnoozeExpires
      BY <2>3 DEF IInv, Rows, SnoozeExpires, world
    <2>4. CASE \E a \in 1 .. alerts : SetAck(a)
      <3>1. PICK a \in 1 .. alerts : SetAck(a)
        BY <2>4
      <3>2. acked' \subseteq 1 .. alerts /\ alerts' = alerts
        BY <3>1, Zenon DEF IInv, Rows, SetAck
      <3>3. UNCHANGED <<chat, snooze, expired, enabled>>
        BY <3>1 DEF SetAck, world
      <3>4. QED
        BY <3>2, <3>3 DEF IInv, Rows
    <2>5. QED
      BY <2>1, <2>2, <2>3, <2>4
  <1>4. QED
    BY <1>1, <1>2, <1>3, AsideInv

-----------------------------------------------------------------------------
(* Starts and stops *)

LEMMA LifespanFrame ==
    ASSUME IInv, UNCHANGED <<world, tables, handled, dropped>>
    PROVE  Chat' /\ Offsets' /\ Rows' /\ Done' = Done
  BY DEF IInv, Chat, Offsets, Rows, Done, world, tables

LEMMA StartBotInv ==
    ASSUME IInv, NEW b \in Bots, StartBot(b)
    PROVE  IInv'
  <1>1. Chat' /\ Offsets' /\ Rows' /\ Done' = Done
    BY LifespanFrame DEF StartBot
  <1>2. App'
    BY DEF IInv, App, StartBot
  <1>3. Pollers'
    <2>1. chat' = chat /\ chat \in Seq(Updates) /\ UNCHANGED <<handled, dropped>>
      BY DEF StartBot, world, IInv, Chat
    <2>2. CASE UNCHANGED bot
      BY <2>1, <2>2, <1>1 DEF IInv, Pollers
    <2>3. CASE bot' = [bot EXCEPT ![b] = [Off EXCEPT !.pc = "load"]]
      <3> DEFINE t == [Off EXCEPT !.pc = "load"]
      <3>1. t.pc = "load" /\ t.batch = <<>> /\ t \in Threads
        BY OffRests DEF Off
      <3> HIDE DEF t
      <3>2. Sound(t, Len(chat), Done')
        BY <3>1, Resting
      <3>3. bot' = [bot EXCEPT ![b] = t]
        BY <2>3 DEF t
      <3>4. QED
        BY <2>1, <3>3, <3>1, <3>2, <1>1, OneMoves DEF IInv
    <2>4. QED
      BY <2>2, <2>3 DEF StartBot
  <1>4. QED
    BY <1>1, <1>2, <1>3 DEF IInv

LEMMA StopBotInv ==
    ASSUME IInv, StopBot
    PROVE  IInv'
  <1>1. Chat' /\ Offsets' /\ Rows' /\ Done' = Done /\ chat' = chat
    BY LifespanFrame DEF StopBot, world
  <1>2. App'
    BY DEF App, StopBot
  <1>3. bot' \in [Bots -> Threads]
    BY ZenonT(60) DEF IInv, Pollers, StopBot, Threads
  <1>4. ASSUME NEW c \in Bots PROVE Sound(bot'[c], Len(chat'), Done')
    <2>1. bot[c] \in Threads /\ Sound(bot[c], Len(chat), Done)
      BY DEF IInv, Pollers
    <2>2. bot'[c] = bot[c] \/ bot'[c] = [bot[c] EXCEPT !.stop = TRUE]
      BY DEF IInv, Pollers, StopBot
    <2>3. bot'[c].pc = bot[c].pc /\ bot'[c].batch = bot[c].batch /\ bot'[c].from = bot[c].from
      BY <2>1, <2>2 DEF Threads
    <2>4. QED
      BY <2>1, <2>3, <1>1 DEF Sound
  <1>5. QED
    BY <1>1, <1>2, <1>3, <1>4 DEF IInv, Pollers

LEMMA CrashInv ==
    ASSUME IInv, Crash
    PROVE  IInv'
  <1>1. Chat' /\ Offsets' /\ Rows' /\ Done' = Done
    BY LifespanFrame DEF Crash
  <1>2. App'
    BY DEF App, Crash
  <1>3. Off.pc = "off" /\ Off.batch = <<>>
    BY DEF Off
  <1>4. Pollers'
    BY <1>3, OffRests, Resting DEF Pollers, Crash
  <1>5. QED
    BY <1>1, <1>2, <1>4 DEF IInv

-----------------------------------------------------------------------------
(* The poller *)

\* What holds of a thread at the start of its step.
LEMMA Mine ==
    ASSUME IInv, NEW b \in Bots
    PROVE  /\ bot[b] \in Threads /\ Sound(bot[b], Len(chat), Done)
           /\ chat \in Seq(Updates) /\ Len(chat) \in 0 .. MaxUpdates
  BY Numbers DEF IInv, Pollers, Chat

\* What a poll makes of a thread is a thread.
LEMMA Polled ==
    ASSUME NEW t \in Threads
    PROVE  /\ [t EXCEPT !.pc = "load", !.from = 0, !.fails = 0] \in Threads
           /\ [t EXCEPT !.pc = "load", !.batch = <<>>, !.fails = 0] \in Threads
           /\ \A batch \in Seq(Nat) : [t EXCEPT !.pc = "handle", !.from = 0, !.batch = batch] \in Threads
           /\ \A from \in 0 .. MaxUpdates + 1 : [t EXCEPT !.pc = "get", !.from = from] \in Threads
  <1>1. <<>> \in Seq(Nat) /\ 0 \in 0 .. MaxUpdates + 1 /\ 0 \in 0 .. MaxFailures - 1
    BY Numbers
  <1>2. QED
    BY <1>1 DEF Threads, Phases

LEMMA LoadOffsetInv ==
    ASSUME IInv, NEW b \in Bots, LoadOffset(b)
    PROVE  IInv'
  <1> DEFINE t == IF bot[b].stop THEN Off ELSE [bot[b] EXCEPT !.pc = "get", !.from = offset]
  <1>1. bot' = [bot EXCEPT ![b] = t] /\ UNCHANGED <<world, tables, current, up, history>>
    BY DEF LoadOffset, Becomes
  <1>2. Chat' /\ Offsets' /\ Rows' /\ Done' = Done /\ App'
    BY <1>1, LifespanFrame DEF history, IInv, App
  <1>3. t \in Threads /\ Sound(t, Len(chat), Done)
    <2>1. CASE bot[b].stop
      <3>1. t = Off /\ Off.pc = "off" /\ Off.batch = <<>>
        BY <2>1 DEF Off
      <3> HIDE DEF t
      <3>2. QED
        BY <3>1, OffRests, Resting
    <2>2. CASE ~bot[b].stop
      <3>1. t = [bot[b] EXCEPT !.pc = "get", !.from = offset]
        BY <2>2
      <3>2. offset \in 1 .. MaxUpdates + 1 /\ Below(offset, Done)
        BY DEF IInv, Offsets
      <3>3. bot[b].pc = "load" /\ bot[b].batch = <<>> /\ bot[b] \in Threads
        BY Mine DEF LoadOffset, Sound
      <3> HIDE DEF t
      <3>4. t \in Threads
        <4>1. offset \in 0 .. MaxUpdates + 1
          BY <3>2, Numbers
        <4>2. QED
          BY <3>1, <3>3, <4>1, Polled, Zenon
      <3>5. t.pc = "get" /\ t.from = offset /\ t.batch = <<>>
        BY <3>1, <3>3 DEF Threads
      <3>6. QED
        BY <3>2, <3>4, <3>5 DEF Sound
    <2>3. QED
      BY <2>1, <2>2
  <1> HIDE DEF t
  <1>4. Pollers'
    BY <1>1, <1>2, <1>3, OneMoves DEF IInv, world
  <1>5. QED
    BY <1>2, <1>4 DEF IInv

\* The larger of two numbers.
LEMMA Larger ==
    ASSUME NEW x \in Nat, NEW y \in Nat
    PROVE  Max({x, y}) = IF x >= y THEN x ELSE y
  <1> DEFINE m == IF x >= y THEN x ELSE y
  <1>1. m \in {x, y} /\ \A z \in {x, y} : m >= z
    OBVIOUS
  <1>2. \A n \in {x, y} : (\A z \in {x, y} : n >= z) => n = m
    OBVIOUS
  <1> HIDE DEF m
  <1>3. Max({x, y}) = m
    BY <1>1, <1>2, Zenon DEF Max
  <1>4. QED
    BY <1>3 DEF m

LEMMA GetUpdatesInv ==
    ASSUME IInv, NEW b \in Bots, GetUpdates(b)
    PROVE  IInv'
  <1> DEFINE from == Max({bot[b].from, confirmed})
             quiet == [bot[b] EXCEPT !.pc = "load", !.from = 0, !.fails = 0]
             batch == [i \in 1 .. Len(chat) - from + 1 |-> from + i - 1]
             busy == [bot[b] EXCEPT !.pc = "handle", !.from = 0, !.batch = batch]
             t == IF from > Len(chat) THEN quiet ELSE busy
  <1>1. /\ bot[b] \in Threads /\ bot[b].pc = "get" /\ bot[b].batch = <<>>
        /\ bot[b].from >= 1 /\ Below(bot[b].from, Done)
        /\ Len(chat) \in 0 .. MaxUpdates
    BY Mine DEF GetUpdates, Sound
  <1>2. from \in 1 .. MaxUpdates + 1 /\ Below(from, Done)
    <2>1. bot[b].from \in 1 .. MaxUpdates + 1
      BY <1>1 DEF Threads
    <2>2. confirmed \in 1 .. MaxUpdates + 1 /\ Below(confirmed, Done)
      BY DEF IInv, Offsets
    <2>3. from = bot[b].from \/ from = confirmed
      BY <2>1, <2>2, Numbers, Larger
    <2>4. QED
      BY <1>1, <2>1, <2>2, <2>3
  <1>3. /\ bot' = [bot EXCEPT ![b] = t] /\ confirmed' = from
        /\ UNCHANGED <<chat, tables, current, up, history>>
    BY DEF GetUpdates, Becomes
  <1>4. t \in Threads /\ Sound(t, Len(chat), Done)
    <2> HIDE DEF from
    <2>1. CASE from > Len(chat)
      <3>1. quiet.pc = "load" /\ quiet.batch = <<>>
        BY <1>1 DEF Threads
      <3>2. t = quiet /\ quiet \in Threads
        BY <1>1, <2>1, Polled
      <3> HIDE DEF t, quiet
      <3>3. QED
        BY <3>1, <3>2, Resting
    <2>2. CASE ~(from > Len(chat))
      <3>1. /\ batch \in Seq(Nat) /\ Len(batch) = Len(chat) - from + 1 /\ batch # <<>>
            /\ \A i \in 1 .. Len(batch) : batch[i] \in 1 .. Len(chat) /\ batch[i] = from + i - 1
        <4>1. Len(chat) - from + 1 \in Nat /\ Len(chat) - from + 1 >= 1
          BY <1>1, <1>2, <2>2, Numbers
        <4>2. \A i \in 1 .. Len(chat) - from + 1 : from + i - 1 \in Nat /\ from + i - 1 \in 1 .. Len(chat)
          BY <1>1, <1>2, Numbers
        <4>3. batch \in [1 .. Len(chat) - from + 1 -> Nat]
          BY <4>2
        <4>4. batch \in Seq(Nat) /\ Len(batch) = Len(chat) - from + 1
          BY <4>1, <4>3
        <4>5. \A i \in 1 .. Len(chat) - from + 1 : batch[i] = from + i - 1
          OBVIOUS
        <4> HIDE DEF batch
        <4>6. QED
          BY <4>1, <4>2, <4>4, <4>5
      <3> HIDE DEF batch
      <3>2. busy.pc = "handle" /\ busy.batch = batch
        BY <1>1 DEF Threads
      <3>3. t = busy /\ busy \in Threads
        BY <1>1, <2>2, <3>1, Polled
      <3>4. batch[1] = from
        BY <1>1, <1>2, <2>2, <3>1, Numbers
      <3> HIDE DEF t, busy
      <3>5. QED
        BY <1>2, <3>1, <3>2, <3>3, <3>4 DEF Sound
    <2>3. QED
      BY <2>1, <2>2
  <1> HIDE DEF t, from
  <1>5. Done' = Done
    BY <1>3 DEF Done, history
  <1>6. Chat' /\ Offsets' /\ Rows' /\ App'
    BY <1>2, <1>3, <1>5 DEF IInv, Chat, Offsets, Rows, App, tables
  <1>7. Pollers'
    BY <1>3, <1>4, <1>5, OneMoves DEF IInv
  <1>8. QED
    BY <1>6, <1>7 DEF IInv

\* What is left of a batch begins with the successor.
LEMMA RestOfBatch ==
    ASSUME NEW s \in Seq(Nat), NEW n \in Nat, s # <<>>, Len(s) # 1,
           \A i \in 1 .. Len(s) : s[i] \in 1 .. n /\ s[i] = s[1] + i - 1
    PROVE  /\ Tail(s) \in Seq(Nat) /\ Tail(s) # <<>> /\ Tail(s)[1] = s[1] + 1
           /\ \A i \in 1 .. Len(Tail(s)) : Tail(s)[i] \in 1 .. n /\ Tail(s)[i] = Tail(s)[1] + i - 1
  <1> DEFINE rest == Tail(s)
  <1>1. Len(s) \in Nat /\ Len(s) >= 2
    <2>1. Len(s) \in Nat \ {0}
      BY EmptySeq, Zenon
    <2>2. \A k \in Nat \ {0} : k # 1 => k >= 2 /\ k \in Nat
      OBVIOUS
    <2>3. QED
      BY <2>1, <2>2, Zenon
  <1>2. /\ rest \in Seq(Nat) /\ Len(rest) = Len(s) - 1
        /\ \A i \in 1 .. Len(rest) : rest[i] = s[i + 1]
    BY HeadTailProperties
  <1> HIDE DEF rest
  <1>3. ASSUME NEW i \in 1 .. Len(rest) PROVE rest[i] \in 1 .. n /\ rest[i] = s[1] + i
    <2>1. i + 1 \in 1 .. Len(s) /\ 1 \in 1 .. Len(s) /\ rest[i] = s[i + 1]
      BY <1>1, <1>2, SMTT(30)
    <2>2. /\ s[i + 1] \in 1 .. n /\ s[i + 1] = s[1] + (i + 1) - 1 /\ s[1] \in 1 .. n
      BY <2>1
    <2>3. QED
      BY <2>1, <2>2
  <1>4. rest # <<>> /\ rest[1] = s[1] + 1
    BY <1>1, <1>2, <1>3
  <1>5. s[1] \in 1 .. n
    BY <1>1
  <1>6. \A i \in 1 .. Len(rest) : rest[i] = rest[1] + i - 1
    BY <1>2, <1>3, <1>4, <1>5, SMTT(30)
  <1>7. QED
    BY <1>2, <1>3, <1>4, <1>6, Zenon DEF rest

\* After an update has been taken in, the rest of the batch begins where it ends.
LEMMA Advance ==
    ASSUME NEW t \in Threads, NEW n \in Nat, NEW D, NEW E, t.pc = "handle", Sound(t, n, D),
           D \subseteq E, Head(t.batch) \in E,
           NEW q, q = IF Len(t.batch) = 1 THEN [t EXCEPT !.pc = "save"]
                                          ELSE [t EXCEPT !.batch = Tail(@)]
    PROVE  q \in Threads /\ Sound(q, n, E)
  <1>1. /\ t.batch \in Seq(Nat) /\ t.batch # <<>> /\ Below(t.batch[1], D)
        /\ Len(t.batch) \in Nat /\ Len(t.batch) >= 1 /\ Head(t.batch) = t.batch[1]
        /\ t.batch[1] \in Nat
    BY DEF Sound, Threads
  <1>2. Below(t.batch[1] + 1, E)
    <2>1. ASSUME NEW u \in 1 .. t.batch[1] PROVE u \in E
      <3>1. u = t.batch[1] \/ u \in 1 .. t.batch[1] - 1
        BY <1>1
      <3>2. QED
        BY <1>1, <3>1 DEF Below
    <2>2. QED
      BY <1>1, <2>1 DEF Below
  <1>3. CASE Len(t.batch) = 1
    <2>1. q = [t EXCEPT !.pc = "save"]
      BY <1>3
    <2>2. q \in Threads /\ q.pc = "save" /\ q.batch = t.batch
      BY <2>1 DEF Threads, Phases
    <2>3. QED
      BY <1>1, <1>2, <1>3, <2>2 DEF Sound
  <1>4. CASE Len(t.batch) # 1
    <2> DEFINE rest == Tail(t.batch)
    <2>1. /\ rest \in Seq(Nat) /\ rest # <<>> /\ rest[1] = t.batch[1] + 1
          /\ \A i \in 1 .. Len(rest) : rest[i] \in 1 .. n /\ rest[i] = rest[1] + i - 1
      <3>1. \A i \in 1 .. Len(t.batch) : t.batch[i] \in 1 .. n /\ t.batch[i] = t.batch[1] + i - 1
        BY DEF Sound
      <3>2. QED
        BY <1>1, <1>4, <3>1, RestOfBatch
    <2>2. q = [t EXCEPT !.batch = rest]
      BY <1>4
    <2> HIDE DEF rest
    <2>3. q \in Threads /\ q.pc = "handle" /\ q.batch = rest
      BY <2>1, <2>2 DEF Threads
    <2>4. QED
      BY <1>2, <2>1, <2>3 DEF Sound
  <1>5. QED
    BY <1>3, <1>4

LEMMA HandleInv ==
    ASSUME IInv, NEW b \in Bots, Handle(b)
    PROVE  IInv'
  <1> DEFINE u == Head(bot[b].batch)
             m == chat[u]
             q == IF Len(bot[b].batch) = 1 THEN [bot[b] EXCEPT !.pc = "save"]
                                           ELSE [bot[b] EXCEPT !.batch = Tail(@)]
  <1>1. /\ bot[b] \in Threads /\ Sound(bot[b], Len(chat), Done) /\ bot[b].pc = "handle"
        /\ chat \in Seq(Updates) /\ Len(chat) \in Nat
    BY Mine DEF Handle
  <1>2. u \in 1 .. Len(chat)
    BY <1>1 DEF Sound, Threads
  <1>3. /\ Apply(u) /\ bot' = [bot EXCEPT ![b] = q] /\ Done' = Done \cup {u}
        /\ UNCHANGED <<world, offset, alerts, enabled, current, up, dropped, counts>>
    BY DEF Handle, NextUpdate, Becomes, Done
  <1>4. q \in Threads /\ Sound(q, Len(chat), Done')
    <2>1. Done \subseteq Done' /\ Head(bot[b].batch) \in Done'
      BY <1>3
    <2>2. QED
      BY <1>1, <2>1, Advance
  <1> HIDE DEF q
  <1>5. Pollers'
    BY <1>3, <1>4, OneMoves DEF IInv, world
  <1>6. Chat' /\ App'
    BY <1>3 DEF IInv, Chat, App, world
  <1>7. Offsets'
    BY <1>3 DEF IInv, Offsets, Below, world
  <1>8. Rows'
    <2>1. m.alert \in 0 .. alerts /\ alerts \in Nat
      BY <1>2, Numbers DEF IInv, Chat, Rows
    <2> HIDE DEF m
    <2>2. /\ acked' = acked \cup ({m.alert} \ {0})
          /\ snooze' = CASE m.kind = "snooze" -> u [] m.kind = "off" -> 0 [] OTHER -> snooze
          /\ expired' = (m.kind \notin {"snooze", "off"} /\ expired)
      BY <1>3 DEF Apply, m
    <2> HIDE DEF u
    <2>3. acked' \subseteq 1 .. alerts
      BY <2>1, <2>2 DEF IInv, Rows
    <2>4. snooze' \in 0 .. Len(chat)
      BY <1>1, <1>2, <2>2 DEF IInv, Rows
    <2>5. expired' \in BOOLEAN
      BY <2>2
    <2>6. expired' => snooze' # 0
      <3>1. CASE m.kind \in {"snooze", "off"}
        BY <2>2, <3>1
      <3>2. CASE m.kind \notin {"snooze", "off"}
        <4>1. snooze' = snooze
          BY <2>2, <3>2
        <4>2. expired' => expired
          BY <2>2
        <4>3. QED
          BY <4>1, <4>2 DEF IInv, Rows
      <3>3. QED
        BY <3>1, <3>2
    <2>7. QED
      BY <1>3, <2>3, <2>4, <2>5, <2>6 DEF IInv, Rows, world
  <1>9. QED
    BY <1>5, <1>6, <1>7, <1>8 DEF IInv

LEMMA HandleFailsInv ==
    ASSUME IInv, NEW b \in Bots, HandleFails(b)
    PROVE  IInv'
  <1> DEFINE u == Head(bot[b].batch)
             q == IF Len(bot[b].batch) = 1 THEN [bot[b] EXCEPT !.pc = "save"]
                                           ELSE [bot[b] EXCEPT !.batch = Tail(@)]
  <1>1. /\ bot[b] \in Threads /\ Sound(bot[b], Len(chat), Done) /\ bot[b].pc = "handle"
        /\ Len(chat) \in Nat
    BY Mine DEF HandleFails
  <1>2. /\ bot' = [bot EXCEPT ![b] = q] /\ Done' = Done \cup {u}
        /\ UNCHANGED <<world, tables, current, up>>
    BY DEF HandleFails, NextUpdate, Becomes, Done
  <1>3. q \in Threads /\ Sound(q, Len(chat), Done')
    <2>1. Done \subseteq Done' /\ Head(bot[b].batch) \in Done'
      BY <1>2
    <2>2. QED
      BY <1>1, <2>1, Advance
  <1> HIDE DEF q
  <1>4. Pollers'
    BY <1>2, <1>3, OneMoves DEF IInv, world
  <1>5. Chat' /\ Offsets' /\ Rows' /\ App'
    BY <1>2 DEF IInv, Chat, Offsets, Rows, App, Below, world, tables
  <1>6. QED
    BY <1>4, <1>5 DEF IInv

LEMMA SaveOffsetInv ==
    ASSUME IInv, NEW b \in Bots, SaveOffset(b)
    PROVE  IInv'
  <1> DEFINE t == [bot[b] EXCEPT !.pc = "load", !.batch = <<>>, !.fails = 0]
  <1>1. /\ bot[b] \in Threads /\ Sound(bot[b], Len(chat), Done) /\ bot[b].pc = "save"
        /\ Len(chat) \in 0 .. MaxUpdates
    BY Mine DEF SaveOffset
  <1>2. /\ bot' = [bot EXCEPT ![b] = t] /\ offset' = Head(bot[b].batch) + 1 /\ Done' = Done
        /\ UNCHANGED <<world, alerts, acked, snooze, expired, enabled, current, up>>
    BY DEF SaveOffset, Becomes, history, Done
  <1>3. offset' \in 1 .. MaxUpdates + 1 /\ Below(offset', Done)
    <2>1. /\ bot[b].batch \in Seq(Nat) /\ Len(bot[b].batch) = 1
          /\ bot[b].batch[1] \in 1 .. Len(chat) /\ Below(bot[b].batch[1] + 1, Done)
      BY <1>1 DEF Sound, Threads
    <2>2. Head(bot[b].batch) = bot[b].batch[1]
      BY <2>1
    <2>3. QED
      BY <1>1, <1>2, <2>1, <2>2, Numbers, SMTT(30)
  <1>4. t \in Threads /\ t.pc = "load" /\ t.batch = <<>>
    <2>1. t.pc = "load" /\ t.batch = <<>>
      BY <1>1 DEF Threads
    <2>2. t \in Threads
      BY <1>1, Polled
    <2>3. QED
      BY <2>1, <2>2
  <1> HIDE DEF t
  <1>5. Sound(t, Len(chat), Done')
    BY <1>4, Resting
  <1>6. Pollers'
    BY <1>2, <1>4, <1>5, OneMoves DEF IInv, world
  <1>7. Chat' /\ Offsets' /\ Rows' /\ App'
    BY <1>2, <1>3 DEF IInv, Chat, Offsets, Rows, App, world
  <1>8. QED
    BY <1>6, <1>7 DEF IInv

LEMMA PollFailsInv ==
    ASSUME IInv, NEW b \in Bots, PollFails(b)
    PROVE  IInv'
  <1> DEFINE fails == bot[b].fails + 1
             again == [bot[b] EXCEPT !.pc = "load", !.from = 0, !.batch = <<>>, !.fails = fails]
             t == IF GivesUp(fails) THEN Off ELSE again
  <1>1. bot[b] \in Threads
    BY Mine
  <1>2. bot' = [bot EXCEPT ![b] = t] /\ UNCHANGED <<world, tables, current, up, handled, dropped>>
    BY DEF PollFails, Becomes
  <1>3. Chat' /\ Offsets' /\ Rows' /\ Done' = Done /\ App'
    BY <1>2, LifespanFrame DEF IInv, App
  <1>4. t \in Threads /\ t.pc \in {"off", "load"} /\ t.batch = <<>>
    <2>1. CASE GivesUp(fails)
      <3>1. t = Off
        BY <2>1
      <3>2. Off.pc = "off" /\ Off.batch = <<>>
        BY DEF Off
      <3> HIDE DEF t
      <3>3. QED
        BY <3>1, <3>2, OffRests
    <2>2. CASE ~GivesUp(fails)
      <3>1. t = again
        BY <2>2
      <3>2. fails \in 0 .. MaxFailures - 1
        BY <1>1, <2>2, Numbers DEF GivesUp, Threads
      <3>3. <<>> \in Seq(Nat) /\ 0 \in 0 .. MaxUpdates + 1
        BY Numbers
      <3> HIDE DEF t, fails
      <3>4. again \in Threads /\ again.pc = "load" /\ again.batch = <<>>
        BY <1>1, <3>2, <3>3 DEF Threads, Phases
      <3>5. QED
        BY <3>1, <3>4
    <2>3. QED
      BY <2>1, <2>2
  <1> HIDE DEF t
  <1>5. Sound(t, Len(chat), Done')
    BY <1>4, Resting
  <1>6. Pollers'
    BY <1>2, <1>3, <1>4, <1>5, OneMoves DEF IInv, world
  <1>7. QED
    BY <1>3, <1>6 DEF IInv

-----------------------------------------------------------------------------
(* The theorems *)

LEMMA NextInv == IInv /\ [Next]_vars => IInv'
  <1> SUFFICES ASSUME IInv, [Next]_vars PROVE IInv'
    OBVIOUS
  <1>1. ASSUME NEW kind \in Kinds, NEW a \in 0 .. alerts, Send(kind, a) PROVE IInv'
    BY <1>1, SendInv
  <1>2. CASE Dispatch \/ UpsertPreference \/ SnoozeExpires \/ \E a \in 1 .. alerts : SetAck(a)
    BY <1>2, TablesInv
  <1>3. ASSUME NEW b \in Bots, StartBot(b) \/ Step(b) PROVE IInv'
    BY <1>3, StartBotInv, LoadOffsetInv, GetUpdatesInv, HandleInv, HandleFailsInv,
       SaveOffsetInv, PollFailsInv DEF Step
  <1>4. CASE StopBot \/ Crash
    BY <1>4, StopBotInv, CrashInv
  <1>5. CASE UNCHANGED vars
    BY <1>5 DEF vars, world, tables, history, IInv, Chat, Offsets, Rows, App, Pollers, Done
  <1>6. QED
    BY <1>1, <1>2, <1>3, <1>4, <1>5 DEF Next

LEMMA Invariant == Spec => []IInv
  BY InitInv, NextInv, PTL DEF Spec

\* The saved offset never runs past an update that no handler has seen, for
\* every number of pollers, restarts and failed polls.
THEOREM NoCommandSkipped == Spec => []NoneSkipped
  <1>1. IInv => NoneSkipped
    BY DEF IInv, Offsets, Below, Done, NoneSkipped
  <1>2. QED
    BY <1>1, Invariant, PTL

\* The variables keep their types.
THEOREM TypeCorrect == Spec => []TypeOK
  <1>1. ASSUME IInv PROVE TypeOK
    <2>1. ASSUME NEW b \in Bots
          PROVE  /\ bot[b].pc \in {"off", "load", "get", "handle", "save"}
                 /\ bot[b].batch \in Seq(1 .. Len(chat))
                 /\ bot[b].pc \in {"handle", "save"} <=> bot[b].batch # <<>>
                 /\ bot[b].fails \in 0 .. MaxFailures - 1
      <3>1. bot[b] \in Threads /\ Sound(bot[b], Len(chat), Done)
        BY <1>1, Mine
      <3>2. bot[b].batch \in Seq(1 .. Len(chat))
        <4>1. Len(bot[b].batch) \in Nat /\ bot[b].batch \in [1 .. Len(bot[b].batch) -> Nat]
          BY <3>1, LenProperties DEF Threads
        <4>2. bot[b].batch \in [1 .. Len(bot[b].batch) -> 1 .. Len(chat)]
          BY <3>1, <4>1 DEF Sound
        <4>3. QED
          BY <4>1, <4>2, SeqDef
      <3>3. QED
        BY <3>1, <3>2 DEF Sound, Threads, Phases
    <2>2. QED
      BY <1>1, <2>1 DEF IInv, Chat, Offsets, Rows, App, TypeOK
  <1>2. QED
    BY <1>1, Invariant, PTL

-----------------------------------------------------------------------------
(* The snooze in force *)

Commands(c) == {u \in 1 .. Len(c) : c[u].kind \in {"snooze", "off"}}

\* z is what the last command below update k has left.
Reflects(z, c, k) ==
    \/ z = 0 /\ \A u \in Commands(c) : u >= k
    \/ \E u \in Commands(c) :
          /\ u < k /\ \A v \in Commands(c) : v < k => v <= u
          /\ z = IF c[u].kind = "snooze" THEN u ELSE 0

\* What a thread is about to ask for or to handle comes after the saved offset, and
\* not after k, so that a repeated batch takes in what it may have undone.
Within(t, k, off, conf) ==
    /\ t.pc = "get" => t.from <= k /\ off <= t.from
    /\ t.pc = "handle" => t.batch[1] <= k /\ off <= t.batch[1] /\ conf <= t.batch[1]
    /\ t.pc = "save" => t.batch[1] < k

Settled(k) ==
    /\ Reflects(snooze, chat, k)
    /\ offset <= k /\ confirmed <= k
    /\ \A b \in Bots : Within(bot[b], k, offset, confirmed)

Lone == \A b \in Bots, c \in Bots : Alive(b) /\ Alive(c) => b = c

Counts == [faults : Nat, restarts : Nat, twins : BOOLEAN, gaveUp : BOOLEAN]

\* The snooze reflects the commands up to a point that is not before the saved
\* offset: after a restart it may be a point in the middle of a batch.
SnoozeInv ==
    /\ counts \in Counts
    /\ ~counts.twins =>
          /\ Lone
          /\ dropped = {} => \E k \in 1 .. Len(chat) + 1 : Settled(k)

LEMMA RestsWithin ==
    ASSUME NEW t, t.pc \in {"off", "load"}, NEW k, NEW off, NEW conf
    PROVE  Within(t, k, off, conf)
  BY DEF Within

\* The only thread alive makes a step.
LEMMA Settles ==
    ASSUME IInv, NEW b \in Bots, Lone, Alive(b), NEW q, bot' = [bot EXCEPT ![b] = q],
           NEW k \in 1 .. Len(chat') + 1, Reflects(snooze', chat', k), offset' <= k, confirmed' <= k,
           Within(q, k, offset', confirmed')
    PROVE  \E j \in 1 .. Len(chat') + 1 : Settled(j)'
  <1>1. ASSUME NEW c \in Bots PROVE Within(bot'[c], k, offset', confirmed')
    <2>1. CASE c = b
      BY <2>1 DEF IInv, Pollers
    <2>2. CASE c # b
      <3>1. bot'[c] = bot[c] /\ bot[c].pc = "off"
        BY <2>2 DEF IInv, Pollers, Lone, Alive
      <3>2. QED
        BY <3>1, RestsWithin
    <2>3. QED
      BY <2>1, <2>2
  <1>2. QED
    BY <1>1 DEF Settled

\* Below k, a longer chat is the same.
LEMMA SentLater ==
    ASSUME NEW c \in Seq(Updates), NEW m \in Updates, NEW k \in 1 .. Len(c) + 1, NEW z, Reflects(z, c, k)
    PROVE  Reflects(z, Append(c, m), k)
  <1> DEFINE d == Append(c, m)
  <1>1. /\ Len(d) = Len(c) + 1 /\ Len(c) \in Nat /\ \A u \in 1 .. Len(c) : d[u] = c[u]
    OBVIOUS
  <1> HIDE DEF d
  <1>2. \A u \in Commands(d) : u < k => u \in Commands(c) /\ d[u] = c[u]
    BY <1>1 DEF Commands
  <1>3. \A u \in Commands(c) : u \in Commands(d) /\ d[u] = c[u] /\ u \in Int
    BY <1>1 DEF Commands
  <1>4. \A u \in Commands(d) : u \in Int
    BY <1>1 DEF Commands
  <1>5. Reflects(z, d, k)
    <2>1. CASE z = 0 /\ \A u \in Commands(c) : u >= k
      <3>1. \A u \in Commands(d) : u >= k
        BY <1>1, <1>2, <1>4, <2>1
      <3>2. QED
        BY <2>1, <3>1 DEF Reflects
    <2>2. ASSUME NEW u \in Commands(c), u < k, \A v \in Commands(c) : v < k => v <= u,
                 z = IF c[u].kind = "snooze" THEN u ELSE 0
          PROVE  Reflects(z, d, k)
      <3>1. u \in Commands(d) /\ d[u] = c[u]
        BY <1>3
      <3>2. \A v \in Commands(d) : v < k => v <= u
        BY <1>2, <2>2
      <3>3. QED
        BY <2>2, <3>1, <3>2 DEF Reflects
    <2>3. QED
      BY <2>1, <2>2 DEF Reflects
  <1>6. QED
    BY <1>5 DEF d

\* One more update below k: a command, or something else.
LEMMA CommandTaken ==
    ASSUME NEW c \in Seq(Updates), NEW h \in Commands(c)
    PROVE  Reflects(IF c[h].kind = "snooze" THEN h ELSE 0, c, h + 1)
  <1>1. h \in Int /\ h < h + 1 /\ \A v \in Commands(c) : v \in Int
    BY DEF Commands
  <1>2. \A v \in Commands(c) : v < h + 1 => v <= h
    BY <1>1
  <1>3. QED
    BY <1>1, <1>2 DEF Reflects

LEMMA OtherTaken ==
    ASSUME NEW c \in Seq(Updates), NEW h \in 1 .. Len(c), h \notin Commands(c), NEW z, Reflects(z, c, h)
    PROVE  Reflects(z, c, h + 1)
  <1>1. \A v \in Commands(c) : v \in Int /\ v # h
    BY DEF Commands
  <1>2. \A v \in Commands(c) : (v < h + 1 <=> v < h) /\ (v >= h => v >= h + 1)
    BY <1>1
  <1>3. QED
    BY <1>2 DEF Reflects

LEMMA LoadOffsetSettles ==
    ASSUME IInv, NEW b \in Bots, Lone, LoadOffset(b), NEW k \in 1 .. Len(chat) + 1, Settled(k)
    PROVE  \E j \in 1 .. Len(chat') + 1 : Settled(j)'
  <1> DEFINE q == IF bot[b].stop THEN Off ELSE [bot[b] EXCEPT !.pc = "get", !.from = offset]
  <1>1. /\ bot' = [bot EXCEPT ![b] = q] /\ UNCHANGED <<snooze, chat, offset, confirmed>>
        /\ Alive(b) /\ bot[b] \in Threads
    BY Mine DEF LoadOffset, Becomes, world, tables, Alive
  <1>2. q.pc = "off" \/ (q.pc = "get" /\ q.from = offset)
    BY <1>1 DEF Off, Threads
  <1> HIDE DEF q
  <1>3. offset <= k /\ confirmed <= k /\ offset <= offset /\ Reflects(snooze, chat, k)
    BY DEF Settled, IInv, Offsets
  <1>4. Within(q, k, offset, confirmed)
    BY <1>2, <1>3 DEF Within
  <1>5. /\ k \in 1 .. Len(chat') + 1 /\ Reflects(snooze', chat', k) /\ offset' <= k /\ confirmed' <= k
        /\ Within(q, k, offset', confirmed')
    BY <1>1, <1>3, <1>4
  <1>6. QED
    BY <1>1, <1>5, Settles

LEMMA GetUpdatesSettles ==
    ASSUME IInv, NEW b \in Bots, Lone, GetUpdates(b), NEW k \in 1 .. Len(chat) + 1, Settled(k)
    PROVE  \E j \in 1 .. Len(chat') + 1 : Settled(j)'
  <1> DEFINE from == Max({bot[b].from, confirmed})
             batch == [i \in 1 .. Len(chat) - from + 1 |-> from + i - 1]
             q == IF from > Len(chat) THEN [bot[b] EXCEPT !.pc = "load", !.from = 0, !.fails = 0]
                  ELSE [bot[b] EXCEPT !.pc = "handle", !.from = 0, !.batch = batch]
  <1>1. /\ bot' = [bot EXCEPT ![b] = q] /\ UNCHANGED <<snooze, chat, offset>> /\ confirmed' = from
        /\ Alive(b) /\ bot[b].pc = "get" /\ bot[b] \in Threads /\ Len(chat) \in Nat
    BY Mine, Numbers DEF GetUpdates, Becomes, tables, Alive
  <1>2. /\ bot[b].from \in Nat /\ confirmed \in Nat /\ offset \in Nat
        /\ bot[b].from <= k /\ offset <= bot[b].from /\ offset <= k /\ confirmed <= k
        /\ Reflects(snooze, chat, k)
    BY <1>1, Numbers DEF Settled, Within, Threads, IInv, Offsets
  <1>3. from \in Nat /\ from <= k /\ offset <= from
    BY <1>2, Larger
  <1> HIDE DEF from
  <1>4. q.pc = "load" \/ (q.pc = "handle" /\ q.batch[1] = from)
    <2>1. CASE from > Len(chat)
      BY <1>1, <2>1 DEF Threads
    <2>2. CASE ~(from > Len(chat))
      <3>1. 1 \in 1 .. Len(chat) - from + 1 /\ from + 1 - 1 = from
        BY <1>1, <1>3, <2>2
      <3>2. batch[1] = from
        BY <3>1
      <3> HIDE DEF batch
      <3>3. QED
        BY <1>1, <2>2, <3>2 DEF Threads
    <2>3. QED
      BY <2>1, <2>2
  <1> HIDE DEF q
  <1>5. Within(q, k, offset, from)
    BY <1>3, <1>4 DEF Within
  <1>6. /\ k \in 1 .. Len(chat') + 1 /\ Reflects(snooze', chat', k) /\ offset' <= k /\ confirmed' <= k
        /\ Within(q, k, offset', confirmed')
    BY <1>1, <1>2, <1>3, <1>5
  <1>7. QED
    BY <1>1, <1>6, Settles

LEMMA HandleSettles ==
    ASSUME IInv, NEW b \in Bots, Lone, Handle(b), NEW k \in 1 .. Len(chat) + 1, Settled(k)
    PROVE  \E j \in 1 .. Len(chat') + 1 : Settled(j)'
  <1> DEFINE h == Head(bot[b].batch)
             q == IF Len(bot[b].batch) = 1 THEN [bot[b] EXCEPT !.pc = "save"]
                                           ELSE [bot[b] EXCEPT !.batch = Tail(@)]
  <1>1. /\ bot[b] \in Threads /\ Sound(bot[b], Len(chat), Done) /\ bot[b].pc = "handle"
        /\ chat \in Seq(Updates) /\ Len(chat) \in Nat /\ Alive(b)
    BY Mine DEF Handle, Alive
  <1>2. h \in 1 .. Len(chat) /\ h = bot[b].batch[1]
    BY <1>1 DEF Sound, Threads
  <1>3. /\ Apply(h) /\ bot' = [bot EXCEPT ![b] = q] /\ UNCHANGED <<chat, confirmed, offset>>
    BY DEF Handle, NextUpdate, Becomes, world
  <1>4. /\ h <= k /\ offset <= h /\ confirmed <= h /\ Reflects(snooze, chat, k)
    BY <1>1, <1>2 DEF Settled, Within
  <1>5. (q.pc = "save" /\ q.batch[1] = h) \/ (q.pc = "handle" /\ q.batch[1] = h + 1)
    <2>1. CASE Len(bot[b].batch) = 1
      BY <1>1, <1>2, <2>1 DEF Threads
    <2>2. CASE Len(bot[b].batch) # 1
      <3>1. Tail(bot[b].batch)[1] = bot[b].batch[1] + 1
        <4>1. /\ bot[b].batch \in Seq(Nat) /\ bot[b].batch # <<>>
              /\ \A i \in 1 .. Len(bot[b].batch) :
                    bot[b].batch[i] \in 1 .. Len(chat) /\ bot[b].batch[i] = bot[b].batch[1] + i - 1
          BY <1>1 DEF Sound, Threads
        <4>2. QED
          BY <1>1, <2>2, <4>1, RestOfBatch
      <3>2. q = [bot[b] EXCEPT !.batch = Tail(bot[b].batch)]
        BY <2>2
      <3>3. q.pc = "handle" /\ q.batch = Tail(bot[b].batch)
        BY <1>1, <3>2 DEF Threads
      <3>4. QED
        BY <1>2, <3>1, <3>3
    <2>3. QED
      BY <2>1, <2>2
  <1>6. snooze' = CASE chat[h].kind = "snooze" -> h [] chat[h].kind = "off" -> 0 [] OTHER -> snooze
    BY <1>3 DEF Apply
  <1> HIDE DEF q, h
  <1>7. PICK j \in 1 .. Len(chat) + 1 : h < j /\ Reflects(snooze', chat, j)
    <2>1. CASE h \in Commands(chat)
      <3>1. snooze' = IF chat[h].kind = "snooze" THEN h ELSE 0
        BY <1>6, <2>1 DEF Commands
      <3>2. Reflects(snooze', chat, h + 1)
        BY <1>1, <2>1, <3>1, CommandTaken
      <3>3. QED
        BY <1>1, <1>2, <3>2
    <2>2. CASE h \notin Commands(chat)
      <3>1. snooze' = snooze
        BY <1>2, <1>6, <2>2 DEF Commands
      <3>2. CASE h = k
        <4>1. Reflects(snooze', chat, h + 1)
          BY <1>1, <1>2, <1>4, <2>2, <3>1, <3>2, OtherTaken
        <4>2. QED
          BY <1>1, <1>2, <4>1
      <3>3. CASE h < k
        BY <1>4, <3>1, <3>3
      <3>4. QED
        BY <1>1, <1>2, <1>4, <3>2, <3>3
    <2>3. QED
      BY <2>1, <2>2
  <1>8. /\ h + 1 <= j /\ offset <= j /\ confirmed <= j /\ offset <= h + 1 /\ confirmed <= h + 1
    BY <1>1, <1>2, <1>4, <1>7 DEF IInv, Offsets
  <1>9. Within(q, j, offset, confirmed)
    BY <1>5, <1>7, <1>8 DEF Within
  <1>10. /\ j \in 1 .. Len(chat') + 1 /\ Reflects(snooze', chat', j) /\ offset' <= j /\ confirmed' <= j
         /\ Within(q, j, offset', confirmed')
    BY <1>3, <1>7, <1>8, <1>9
  <1>11. QED
    BY <1>1, <1>3, <1>10, Settles

LEMMA SaveOffsetSettles ==
    ASSUME IInv, NEW b \in Bots, Lone, SaveOffset(b), NEW k \in 1 .. Len(chat) + 1, Settled(k)
    PROVE  \E j \in 1 .. Len(chat') + 1 : Settled(j)'
  <1> DEFINE q == [bot[b] EXCEPT !.pc = "load", !.batch = <<>>, !.fails = 0]
  <1>1. /\ bot[b] \in Threads /\ Sound(bot[b], Len(chat), Done) /\ bot[b].pc = "save" /\ Alive(b)
    BY Mine DEF SaveOffset, Alive
  <1>2. /\ bot' = [bot EXCEPT ![b] = q] /\ offset' = Head(bot[b].batch) + 1
        /\ UNCHANGED <<chat, confirmed, snooze>>
    BY DEF SaveOffset, Becomes, world
  <1>3. Head(bot[b].batch) = bot[b].batch[1] /\ bot[b].batch[1] \in Nat
    BY <1>1 DEF Sound, Threads
  <1>4. bot[b].batch[1] < k /\ confirmed <= k /\ Reflects(snooze, chat, k)
    BY <1>1 DEF Settled, Within
  <1>5. q.pc = "load"
    BY <1>1 DEF Threads
  <1> HIDE DEF q
  <1>6. Within(q, k, offset', confirmed')
    BY <1>5, RestsWithin
  <1>7. /\ k \in 1 .. Len(chat') + 1 /\ Reflects(snooze', chat', k) /\ offset' <= k /\ confirmed' <= k
    <2>1. k \in Int
      BY Mine DEF IInv, Chat
    <2>2. QED
      BY <1>2, <1>3, <1>4, <2>1
  <1>8. QED
    BY <1>1, <1>2, <1>6, <1>7, Settles

LEMMA PollFailsSettles ==
    ASSUME IInv, NEW b \in Bots, Lone, PollFails(b), NEW k \in 1 .. Len(chat) + 1, Settled(k)
    PROVE  \E j \in 1 .. Len(chat') + 1 : Settled(j)'
  <1> DEFINE fails == bot[b].fails + 1
             q == IF GivesUp(fails) THEN Off
                  ELSE [bot[b] EXCEPT !.pc = "load", !.from = 0, !.batch = <<>>, !.fails = fails]
  <1>1. /\ bot' = [bot EXCEPT ![b] = q] /\ UNCHANGED <<snooze, chat, offset, confirmed>>
        /\ Alive(b) /\ bot[b] \in Threads
    BY Mine DEF PollFails, Becomes, world, tables, Alive
  <1> HIDE DEF fails
  <1>2. q.pc \in {"off", "load"}
    BY <1>1 DEF Off, Threads
  <1> HIDE DEF q
  <1>3. Within(q, k, offset', confirmed')
    BY <1>2, RestsWithin
  <1>4. /\ k \in 1 .. Len(chat') + 1 /\ Reflects(snooze', chat', k) /\ offset' <= k /\ confirmed' <= k
    BY <1>1 DEF Settled
  <1>5. QED
    BY <1>1, <1>3, <1>4, Settles

\* No thread moves, or they all come to rest, and the world is as it was.
LEMMA StaysSettled ==
    ASSUME NEW k \in 1 .. Len(chat) + 1, Settled(k), UNCHANGED <<snooze, chat, offset, confirmed>>,
           \A c \in Bots : \/ bot'[c].pc \in {"off", "load"}
                           \/ /\ bot'[c].pc = bot[c].pc /\ bot'[c].from = bot[c].from
                              /\ bot'[c].batch = bot[c].batch
    PROVE  \E j \in 1 .. Len(chat') + 1 : Settled(j)'
  <1>1. ASSUME NEW c \in Bots PROVE Within(bot'[c], k, offset, confirmed)
    <2>1. Within(bot[c], k, offset, confirmed)
      BY DEF Settled
    <2>2. QED
      BY <2>1 DEF Within
  <1>2. QED
    BY <1>1 DEF Settled

LEMMA InitSettles == Init => SnoozeInv
  <1> SUFFICES ASSUME Init PROVE SnoozeInv
    OBVIOUS
  <1>1. Len(chat) = 0 /\ 1 \in 1 .. Len(chat) + 1 /\ Commands(chat) = {}
    BY DEF Init, Commands
  <1>2. counts \in Counts
    <2>1. 0 \in Nat /\ FALSE \in BOOLEAN
      OBVIOUS
    <2>2. QED
      BY <2>1 DEF Init, Counts
  <1>3. \A b \in Bots : bot[b].pc = "off"
    BY DEF Init, Off
  <1>4. Lone
    BY <1>3 DEF Lone, Alive
  <1>5. Reflects(snooze, chat, 1)
    BY <1>1 DEF Init, Reflects
  <1>6. Settled(1)
    BY <1>3, <1>5, RestsWithin DEF Init, Settled
  <1>7. QED
    BY <1>1, <1>2, <1>4, <1>6 DEF SnoozeInv

LEMMA SendSettles ==
    ASSUME IInv, NEW kind \in Kinds, NEW a \in 0 .. alerts, Send(kind, a),
           NEW k \in 1 .. Len(chat) + 1, Settled(k)
    PROVE  \E j \in 1 .. Len(chat') + 1 : Settled(j)'
  <1> DEFINE m == [kind |-> kind, alert |-> a]
  <1>1. m \in Updates
    BY Numbers DEF IInv, Rows, Updates
  <1>2. chat' = Append(chat, m) /\ UNCHANGED <<snooze, offset, confirmed, bot>>
    BY DEF Send, tables
  <1>3. chat \in Seq(Updates) /\ Reflects(snooze, chat, k)
    BY DEF IInv, Chat, Settled
  <1> HIDE DEF m
  <1>4. Reflects(snooze, Append(chat, m), k)
    BY <1>1, <1>3, SentLater
  <1>5. k \in 1 .. Len(chat') + 1
    BY <1>1, <1>2, <1>3
  <1>6. Reflects(snooze', chat', k)
    BY <1>2, <1>4
  <1>7. QED
    BY <1>2, <1>5, <1>6 DEF Settled

\* The numbers and flags of counts keep their types.
LEMMA CountsKept ==
    ASSUME counts \in Counts, [Next]_vars
    PROVE  counts' \in Counts /\ (counts.twins => counts'.twins)
  <1>1. CASE UNCHANGED counts
    BY <1>1
  <1>2. ASSUME NEW b \in Bots, StartBot(b)
        PROVE  counts' \in Counts /\ (counts.twins => counts'.twins)
    <2>1. CASE counts' = [counts EXCEPT !.twins = @ \/ \E c \in Bots : Alive(c)]
      <3> DEFINE twins == counts.twins \/ \E c \in Bots : Alive(c)
      <3>1. counts' = [counts EXCEPT !.twins = twins]
        BY <2>1
      <3>2. twins \in BOOLEAN /\ (counts.twins => twins)
        BY Zenon
      <3> HIDE DEF twins
      <3>3. QED
        BY <3>1, <3>2 DEF Counts
    <2>2. QED
      BY <1>1, <1>2, <2>1 DEF StartBot
  <1>3. CASE StopBot \/ Crash
    BY <1>3 DEF StopBot, Crash, Counts
  <1>4. ASSUME NEW b \in Bots, HandleFails(b)
        PROVE  counts' \in Counts /\ (counts.twins => counts'.twins)
    BY <1>4 DEF HandleFails, Fault, Counts
  <1>5. ASSUME NEW b \in Bots, PollFails(b)
        PROVE  counts' \in Counts /\ (counts.twins => counts'.twins)
    <2> DEFINE gone == counts.gaveUp \/ GivesUp(bot[b].fails + 1)
    <2>1. counts' = [counts EXCEPT !.faults = counts.faults + 1, !.gaveUp = gone]
      BY <1>5 DEF PollFails
    <2>2. gone \in BOOLEAN
      BY Zenon
    <2>3. counts.faults + 1 \in Nat
      BY DEF Counts
    <2> HIDE DEF gone
    <2>4. QED
      BY <2>1, <2>2, <2>3 DEF Counts
  <1>6. QED
    BY <1>1, <1>2, <1>3, <1>4, <1>5
       DEF Next, Step, vars, history, Send, Dispatch, UpsertPreference, SnoozeExpires, SetAck,
           LoadOffset, GetUpdates, Handle, SaveOffset

LEMMA OneStays ==
    ASSUME IInv, Lone, NEW b \in Bots, Alive(b), NEW q, bot' = [bot EXCEPT ![b] = q]
    PROVE  Lone'
  <1>1. ASSUME NEW c \in Bots, c # b PROVE bot'[c].pc = "off"
    <2>1. bot'[c] = bot[c]
      BY <1>1 DEF IInv, Pollers
    <2>2. QED
      BY <1>1, <2>1 DEF Lone, Alive
  <1>2. QED
    BY <1>1 DEF Lone, Alive

\* A step is that of a thread alive.
LEMMA StepIsAlive ==
    ASSUME NEW b \in Bots, Step(b)
    PROVE  Alive(b) /\ \E q : bot' = [bot EXCEPT ![b] = q]
  <1>1. Alive(b)
    BY DEF Step, LoadOffset, GetUpdates, Handle, HandleFails, SaveOffset, PollFails, Alive
  <1>2. PICK r : Becomes(b, r)
    <2>1. CASE LoadOffset(b)
      BY <2>1, Zenon DEF LoadOffset
    <2>2. CASE GetUpdates(b)
      BY <2>2, Zenon DEF GetUpdates
    <2>3. CASE Handle(b) \/ HandleFails(b)
      BY <2>3, Zenon DEF Handle, HandleFails, NextUpdate
    <2>4. CASE SaveOffset(b) \/ PollFails(b)
      BY <2>4, Zenon DEF SaveOffset, PollFails
    <2>5. QED
      BY <2>1, <2>2, <2>3, <2>4 DEF Step
  <1>3. QED
    BY <1>1, <1>2, Zenon DEF Becomes

\* What a start makes of the threads when no two are to poll.
LEMMA StartsAlone ==
    ASSUME IInv, NEW b \in Bots, StartBot(b), counts \in Counts, ~counts'.twins
    PROVE  \/ bot' = bot
           \/ \A c \in Bots : bot[c].pc = "off" /\ bot'[c].pc = IF c = b THEN "load" ELSE "off"
  <1>1. CASE UNCHANGED <<bot, current, counts>>
    BY <1>1
  <1>2. CASE /\ bot' = [bot EXCEPT ![b] = [Off EXCEPT !.pc = "load"]]
             /\ counts' = [counts EXCEPT !.twins = @ \/ \E c \in Bots : Alive(c)]
    <2>1. counts'.twins = (counts.twins \/ \E c \in Bots : Alive(c))
      BY <1>2 DEF Counts
    <2>2. \A c \in Bots : bot[c].pc = "off"
      BY <2>1 DEF Alive
    <2>3. [Off EXCEPT !.pc = "load"].pc = "load"
      BY DEF Off
    <2>4. QED
      BY <1>2, <2>2, <2>3 DEF IInv, Pollers
  <1>3. QED
    BY <1>1, <1>2 DEF StartBot

\* A stop changes no more than the stop events.
LEMMA StopsOnly ==
    ASSUME IInv, StopBot, NEW c \in Bots
    PROVE  bot'[c].pc = bot[c].pc /\ bot'[c].batch = bot[c].batch /\ bot'[c].from = bot[c].from
  <1>1. bot[c] \in Threads
    BY DEF IInv, Pollers
  <1>2. bot'[c] = bot[c] \/ bot'[c] = [bot[c] EXCEPT !.stop = TRUE]
    BY DEF IInv, Pollers, StopBot
  <1>3. QED
    BY <1>1, <1>2 DEF Threads

Around ==
    \/ \E kind \in Kinds : \E a \in 0 .. alerts : Send(kind, a)
    \/ Dispatch \/ UpsertPreference \/ SnoozeExpires
    \/ \E a \in 1 .. alerts : SetAck(a)
    \/ UNCHANGED vars

LEMMA LoneKept ==
    ASSUME IInv, counts \in Counts, Lone, [Next]_vars, ~counts'.twins
    PROVE  Lone'
  <1>1. CASE Around
    <2>1. bot' = bot
      BY <1>1 DEF Around, Send, Dispatch, UpsertPreference, SnoozeExpires, SetAck, vars
    <2>2. QED
      BY <2>1 DEF Lone, Alive
  <1>2. ASSUME NEW b \in Bots, StartBot(b) PROVE Lone'
    BY <1>2, StartsAlone DEF Lone, Alive
  <1>3. ASSUME NEW b \in Bots, Step(b) PROVE Lone'
    BY <1>3, StepIsAlive, OneStays
  <1>4. CASE StopBot
    <2>1. \A c \in Bots : bot'[c].pc = bot[c].pc
      BY <1>4, StopsOnly
    <2>2. QED
      BY <2>1 DEF Lone, Alive
  <1>5. CASE Crash
    <2>1. \A c \in Bots : bot'[c].pc = "off"
      BY <1>5 DEF Crash, Off
    <2>2. QED
      BY <2>1 DEF Lone, Alive
  <1>6. QED
    BY <1>1, <1>2, <1>3, <1>4, <1>5 DEF Next, Around

LEMMA SettledKept ==
    ASSUME IInv, counts \in Counts, Lone, [Next]_vars, ~counts'.twins,
           NEW k \in 1 .. Len(chat) + 1, Settled(k), dropped' = {}
    PROVE  \E j \in 1 .. Len(chat') + 1 : Settled(j)'
  <1>1. ASSUME NEW kind \in Kinds, NEW a \in 0 .. alerts, Send(kind, a)
        PROVE  \E j \in 1 .. Len(chat') + 1 : Settled(j)'
    BY <1>1, SendSettles
  <1>2. CASE \/ Dispatch \/ UpsertPreference \/ SnoozeExpires
             \/ \E a \in 1 .. alerts : SetAck(a)
             \/ UNCHANGED vars
    <2>1. UNCHANGED <<snooze, chat, offset, confirmed>> /\ bot' = bot
      BY <1>2 DEF Dispatch, UpsertPreference, SnoozeExpires, SetAck, vars, world, tables
    <2>2. QED
      BY <2>1, StaysSettled
  <1>3. ASSUME NEW b \in Bots, StartBot(b)
        PROVE  \E j \in 1 .. Len(chat') + 1 : Settled(j)'
    <2>1. UNCHANGED <<snooze, chat, offset, confirmed>>
      BY <1>3 DEF StartBot, world, tables
    <2>2. \A c \in Bots : bot'[c] = bot[c] \/ bot'[c].pc \in {"off", "load"}
      BY <1>3, StartsAlone
    <2>3. QED
      BY <2>1, <2>2, StaysSettled
  <1>4. ASSUME NEW b \in Bots, Step(b)
        PROVE  \E j \in 1 .. Len(chat') + 1 : Settled(j)'
    <2>1. ~HandleFails(b)
      <3>1. ASSUME HandleFails(b) PROVE Head(bot[b].batch) \in dropped'
        BY <3>1 DEF HandleFails
      <3>2. QED
        BY <3>1
    <2>2. QED
      BY <1>4, <2>1, LoadOffsetSettles, GetUpdatesSettles, HandleSettles, SaveOffsetSettles,
         PollFailsSettles DEF Step
  <1>5. CASE StopBot
    <2>1. UNCHANGED <<snooze, chat, offset, confirmed>>
      BY <1>5 DEF StopBot, world, tables
    <2>2. QED
      BY <1>5, <2>1, StopsOnly, StaysSettled
  <1>6. CASE Crash
    <2>1. UNCHANGED <<snooze, chat, offset, confirmed>>
      BY <1>6 DEF Crash, world, tables
    <2>2. \A c \in Bots : bot'[c].pc = "off"
      BY <1>6 DEF Crash, Off
    <2>3. QED
      BY <2>1, <2>2, StaysSettled
  <1>7. QED
    BY <1>1, <1>2, <1>3, <1>4, <1>5, <1>6 DEF Next

LEMMA DroppedGrows ==
    ASSUME [Next]_vars
    PROVE  dropped \subseteq dropped'
  <1>1. CASE UNCHANGED dropped
    BY <1>1
  <1>2. ASSUME NEW b \in Bots, HandleFails(b) PROVE dropped \subseteq dropped'
    BY <1>2 DEF HandleFails
  <1>3. QED
    BY <1>1, <1>2
       DEF Next, Step, vars, history, Send, Dispatch, UpsertPreference, SnoozeExpires, SetAck,
           StartBot, StopBot, Crash, LoadOffset, GetUpdates, Handle, SaveOffset, PollFails

LEMMA NextSettles == IInv /\ SnoozeInv /\ [Next]_vars => SnoozeInv'
  <1> SUFFICES ASSUME IInv, SnoozeInv, [Next]_vars PROVE SnoozeInv'
    OBVIOUS
  <1>1. counts \in Counts /\ counts' \in Counts /\ (counts.twins => counts'.twins)
    BY CountsKept DEF SnoozeInv
  <1>2. ASSUME ~counts'.twins
        PROVE  Lone' /\ (dropped' = {} => \E j \in 1 .. Len(chat') + 1 : Settled(j)')
    <2>1. Lone /\ (dropped = {} => \E k \in 1 .. Len(chat) + 1 : Settled(k))
      BY <1>1, <1>2 DEF SnoozeInv
    <2>2. Lone'
      BY <1>1, <1>2, <2>1, LoneKept
    <2>3. ASSUME dropped' = {} PROVE \E j \in 1 .. Len(chat') + 1 : Settled(j)'
      <3>1. dropped = {}
        BY <2>3, DroppedGrows
      <3>2. PICK k \in 1 .. Len(chat) + 1 : Settled(k)
        BY <2>1, <3>1
      <3>3. QED
        BY <1>1, <1>2, <2>1, <2>3, <3>2, SettledKept
    <2>4. QED
      BY <2>2, <2>3
  <1>3. QED
    BY <1>1, <1>2 DEF SnoozeInv

\* When every update has been taken in, the snooze in force is the one the last
\* command asked for, however often a batch was repeated before its offset was
\* saved, unless two threads polled or a command was dropped.
THEOREM LastCommandIsInForce == Spec => []LastCommandWins
  <1>1. ASSUME IInv, SnoozeInv PROVE LastCommandWins
    <2> SUFFICES ASSUME offset > Len(chat), ~counts.twins, SnoozeCommands # {}, dropped = {}
                 PROVE  snooze = IF chat[Max(SnoozeCommands)].kind = "snooze"
                                   THEN Max(SnoozeCommands) ELSE 0
      BY DEF LastCommandWins
    <2>1. PICK k \in 1 .. Len(chat) + 1 : Settled(k)
      BY <1>1 DEF SnoozeInv
    <2>2. Len(chat) \in Nat /\ offset \in Nat /\ offset <= k /\ Reflects(snooze, chat, k)
      BY <1>1, <2>1, Numbers DEF Settled, IInv, Chat, Offsets
    <2>3. k = Len(chat) + 1
      BY <2>1, <2>2
    <2>4. Commands(chat) = SnoozeCommands /\ \A u \in SnoozeCommands : u \in Nat /\ u < k
      BY <2>2, <2>3 DEF Commands, SnoozeCommands
    <2>5. PICK u \in SnoozeCommands :
             /\ \A v \in SnoozeCommands : v <= u
             /\ snooze = IF chat[u].kind = "snooze" THEN u ELSE 0
      <3>1. PICK w \in SnoozeCommands : TRUE
        OBVIOUS
      <3>2. ~(\A v \in Commands(chat) : v >= k)
        BY <2>1, <2>4, <3>1
      <3>3. QED
        BY <2>2, <2>4, <3>2 DEF Reflects
    <2>6. Max(SnoozeCommands) = u
      <3>1. \A v \in SnoozeCommands : u >= v
        BY <2>4, <2>5
      <3>2. \A n \in SnoozeCommands : (\A v \in SnoozeCommands : n >= v) => n = u
        BY <2>4, <3>1
      <3>3. QED
        BY <3>1, <3>2, Zenon DEF Max
    <2>7. QED
      BY <2>5, <2>6
  <1>2. SnoozeInv /\ IInv => LastCommandWins
    BY <1>1
  <1>3. QED
    BY <1>2, InitSettles, NextSettles, Invariant, PTL DEF Spec

=============================================================================
