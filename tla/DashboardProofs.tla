-------------------------- MODULE DashboardProofs ---------------------------
(***************************************************************************)
(* The dashboard for every capacity of its channel and its feed and every  *)
(* interleaving with the two tasks: it only watches, a frame never lists a *)
(* lot it announces as closed, and its totals cover its list.              *)
(*                                                                         *)
(* The argument: a task closes a row before it announces it                *)
(* (AboutToAnnounce) and no row is opened again (NothingReopens), so what  *)
(* the channel and the feed hold stays true (Announcements).  A tick reads *)
(* the list after its feed is written and the totals after the list        *)
(* (Frame), and rows are never deleted.                                    *)
(***************************************************************************)
EXTENDS Dashboard, BoundsProofs

-----------------------------------------------------------------------------
(* The inductive invariant.                                                *)

Closed(r) == r \in DOMAIN rows /\ ~rows[r].open

\* A task that is about to announce an exit has closed the row.
AboutToAnnounce ==
  /\ engine.pc = "sell_forget" => Closed(engine.id)
  /\ tp_sl.pc = "exit_forget" => Closed(tp_sl.id)

\* What the channel and the feed hold announces closed rows, if any.
Truthful(e) == e = Other \/ Closed(e)
Announcements ==
  /\ \A i \in DOMAIN events : Truthful(events[i])
  /\ \A i \in DOMAIN feed : Truthful(feed[i])

\* What a tick has read so far: rows that were open after the feed was written,
\* and totals of rows that were there after the list was read.
Frame ==
  /\ view # "poll" /\ "positions" \in refreshed =>
       /\ positions \subseteq DOMAIN rows
       /\ \A i \in DOMAIN feed : feed[i] \notin positions
  /\ view = "pnl" => "pnl" \notin refreshed

DashboardInv ==
  /\ DTypeOK /\ LedgerInv /\ ProcessInv
  /\ AboutToAnnounce /\ Announcements /\ Frame /\ TotalsCoverList

-----------------------------------------------------------------------------
(* The engine and its tables.                                              *)

\* What a row is about never changes, and no row is opened again.
NothingReopens ==
  \A r \in DOMAIN rows :
    /\ r \in DOMAIN rows' /\ rows'[r].key = rows[r].key
    /\ ~rows[r].open => ~rows'[r].open

\* No step of the engine or of the TP/SL task opens a row that was closed, and
\* both close the row they are about to announce (engine.rs:359 and 452).
LEMMA RowsStep ==
  ASSUME LedgerInv, AboutToAnnounce, [Next]_vars
  PROVE  NothingReopens /\ AboutToAnnounce'
<1> USE DEF LedgerInv, TypeInv
<1>1. CASE BuyPersist
  <2>1. NothingReopens
    BY <1>1, AppendsRow DEF NothingReopens
  <2>2. engine'.pc = "buy_track" /\ tp_sl' = tp_sl
    BY <1>1 DEF BuyPersist, TypeOK, EngineTask
  <2> QED BY <2>1, <2>2 DEF AboutToAnnounce, NothingReopens, Closed
<1>2. CASE MirrorClose
  <2>1. /\ engine.pc = "sell_close" /\ ClosePosition(engine.id, engine.sig)
        /\ engine.id \in DOMAIN rows /\ engine.sig \in Nat
        /\ engine'.id = engine.id /\ tp_sl' = tp_sl
    BY <1>2 DEF MirrorClose, SaleInFlight, SellPC, TypeOK, EngineTask
  <2>2. /\ RowsKept /\ ~rows'[engine.id].open
        /\ \A i \in DOMAIN rows : i # engine.id => rows'[i] = rows[i]
    BY <2>1, CloseEffect
  <2>3. NothingReopens
    BY <2>2 DEF NothingReopens, RowsKept
  <2> QED BY <2>1, <2>2, <2>3 DEF AboutToAnnounce, NothingReopens, Closed
<1>3. CASE ExitClose
  <2>1. /\ tp_sl.pc = "exit_close" /\ ClosePosition(tp_sl.id, tp_sl.sig)
        /\ tp_sl.id \in DOMAIN rows /\ tp_sl.sig \in Nat
        /\ tp_sl'.id = tp_sl.id /\ engine' = engine
    BY <1>3 DEF ExitClose, ExitInFlight, TypeOK, TpSlTask
  <2>2. /\ RowsKept /\ ~rows'[tp_sl.id].open
        /\ \A i \in DOMAIN rows : i # tp_sl.id => rows'[i] = rows[i]
    BY <2>1, CloseEffect
  <2>3. NothingReopens
    BY <2>2 DEF NothingReopens, RowsKept
  <2> QED BY <2>1, <2>2, <2>3 DEF AboutToAnnounce, NothingReopens, Closed
<1>4. CASE ~BuyPersist /\ ~MirrorClose /\ ~ExitClose
  <2>1. UNCHANGED rows
    BY <1>4 DEF Next, ProcessStep, Start, Shutdown, Crash, CooldownElapses, OnTargetBuy,
       OnTargetSell, BuyStep, BuyAnswered, BuyUnanswered, BuyPersistFails, BuyTrack,
       MirrorStep, MirrorFindsRow, MirrorRowGone, MirrorReadFails, MirrorSend,
       MirrorNotSent, MirrorAnswered, MirrorUnanswered, MirrorCloseFails, MirrorForget,
       ExitStep, PassStart, PassEnd, ExitAnswered, ExitUnanswered, ExitCloseFails,
       ExitForget, PassSkip, PassSell, durable, vars
  <2>2. engine \in EngineTask /\ tp_sl \in TpSlTask
    BY DEF TypeOK
  <2>3. /\ engine'.pc = "sell_forget" => engine' = engine
        /\ tp_sl'.pc = "exit_forget" => tp_sl' = tp_sl
    <3> HIDE DEF LedgerInv, TypeInv
    <3>1. CASE ProcessStep \/ UNCHANGED vars \/ \E w \in Wallets : CooldownElapses(w)
      BY <3>1 DEF ProcessStep, Start, Shutdown, Crash, MemoryLost, CooldownElapses, vars,
         Idle, Wait
    <3>2. CASE BuyStep
      BY <1>4, <2>2, <3>2 DEF BuyStep, BuyAnswered, BuyUnanswered, BuyPersistFails,
         BuyTrack, Idle, EngineTask
    <3>3. CASE MirrorStep
      <4>1. MirrorFindsRow => engine'.pc = "sell_send" /\ tp_sl' = tp_sl
        BY <2>2 DEF MirrorFindsRow, EngineTask
      <4>2. MirrorSend => engine'.pc = "sell_sent" /\ tp_sl' = tp_sl
        BY <2>2 DEF MirrorSend, EngineTask
      <4>3. MirrorAnswered => engine'.pc = "sell_close" /\ tp_sl' = tp_sl
        BY <2>2 DEF MirrorAnswered, EngineTask
      <4>4. MirrorFindsRow \/ MirrorSend \/ MirrorAnswered
              \/ (engine' = Idle /\ tp_sl' = tp_sl)
        BY <1>4, <3>3 DEF MirrorStep, MirrorRowGone, MirrorReadFails, MirrorNotSent,
           MirrorUnanswered, MirrorCloseFails, MirrorForget
      <4> QED BY <4>1, <4>2, <4>3, <4>4 DEF Idle
    <3>4. CASE ExitStep
      <4>1. PassStart => tp_sl'.pc = "scan" /\ engine' = engine
        BY <2>2 DEF PassStart, TpSlTask
      <4>2. ExitAnswered => tp_sl'.pc = "exit_close" /\ engine' = engine
        BY <2>2 DEF ExitAnswered, TpSlTask
      <4>3. ExitUnanswered \/ ExitForget => tp_sl'.pc = "scan" /\ engine' = engine
        BY DEF ExitUnanswered, ExitForget, Wait
      <4>4. PassStart \/ ExitAnswered \/ ExitUnanswered \/ ExitForget
              \/ (tp_sl' = Wait /\ engine' = engine)
        BY <1>4, <3>4 DEF ExitStep, PassEnd, ExitCloseFails
      <4> QED BY <4>1, <4>2, <4>3, <4>4 DEF Wait
    <3>5. CASE \E w \in Wallets, m \in Mints : OnTargetBuy(w, m) \/ OnTargetSell(w, m)
      BY <3>5 DEF OnTargetBuy, OnTargetSell
    <3>6. CASE \E r \in DOMAIN rows : PassSkip(r) \/ PassSell(r)
      BY <2>2, <3>6 DEF PassSkip, PassSell, IsNext, TpSlTask
    <3> QED BY <3>1, <3>2, <3>3, <3>4, <3>5, <3>6 DEF Next
  <2> QED BY <2>1, <2>3 DEF AboutToAnnounce, NothingReopens, Closed
<1> QED BY <1>1, <1>2, <1>3, <1>4

-----------------------------------------------------------------------------
(* The channel, the feed and the totals.                                   *)

\* What was true of a row stays true.
LEMMA StaysTruthful ==
  ASSUME NothingReopens
  PROVE  \A e : Truthful(e) => Truthful(e)'
BY DEF NothingReopens, Truthful, Closed

\* The channel holds what it held and what was sent, as far as there is room.
LEMMA TrySendEffect ==
  ASSUME events \in Seq(Nat), NEW es \in Seq(Nat), TrySend(es)
  PROVE  /\ events' \in Seq(Nat) /\ Len(events') <= UiCapacity
         /\ \A i \in DOMAIN events' :
              \/ \E j \in DOMAIN events : events'[i] = events[j]
              \/ \E j \in DOMAIN es : events'[i] = es[j]
<1> DEFINE all == events \o es
           kept == IF Len(all) <= UiCapacity THEN Len(all) ELSE UiCapacity
<1>1. UiCapacity \in Nat
  BY DashboardAssumption
<1>2. /\ all \in Seq(Nat) /\ Len(all) = Len(events) + Len(es)
      /\ Len(events) \in Nat /\ Len(es) \in Nat
      /\ DOMAIN events = 1..Len(events) /\ DOMAIN es = 1..Len(es)
      /\ \A i \in 1..Len(events) + Len(es) :
           all[i] = IF i <= Len(events) THEN events[i] ELSE es[i - Len(events)]
  BY ConcatProperties, LenProperties
<1>3. CASE front = "shown"
  <2>1. kept \in Nat /\ kept <= Len(all) /\ kept <= UiCapacity
    BY <1>1, <1>2
  <2>2. events' = SubSeq(all, 1, kept)
    BY <1>3 DEF TrySend
  <2> HIDE DEF kept, all
  <2>3. /\ events' \in Seq(Nat) /\ Len(events') = kept
        /\ \A i \in 1..kept : events'[i] = all[i]
    <3>1. 1 \in 1..Len(all) + 1 /\ kept \in 0..Len(all)
      BY <1>2, <2>1
    <3> QED BY <1>2, <2>1, <2>2, <3>1
  <2>4. DOMAIN events' = 1..kept
    BY <2>3, LenProperties
  <2>5. ASSUME NEW i \in 1..kept
        PROVE  \/ \E j \in DOMAIN events : events'[i] = events[j]
               \/ \E j \in DOMAIN es : events'[i] = es[j]
    <3>1. i \in 1..Len(events) + Len(es) /\ events'[i] = all[i]
      BY <1>2, <2>1, <2>3
    <3>2. CASE i <= Len(events)
      <4>1. i \in DOMAIN events /\ all[i] = events[i]
        BY <1>2, <3>1, <3>2
      <4> QED BY <3>1, <4>1
    <3>3. CASE ~(i <= Len(events))
      <4>1. i - Len(events) \in DOMAIN es
        BY <1>2, <3>1, <3>3
      <4> QED BY <1>2, <3>1, <3>3, <4>1
    <3> QED BY <3>2, <3>3
  <2> QED BY <2>1, <2>3, <2>4, <2>5
<1>4. CASE front # "shown"
  <2>1. events' = <<>>
    BY <1>4 DEF TrySend
  <2>2. events' \in Seq(Nat) /\ Len(events') = 0 /\ DOMAIN events' = {}
    BY <2>1
  <2> QED BY <1>1, <2>2
<1> QED BY <1>3, <1>4

\* Every event that is sent is true.
Sound(es) == es \in Seq(Nat) /\ \A j \in DOMAIN es : Truthful(es[j])

\* So the channel stays true.
LEMMA ChannelStaysTrue ==
  ASSUME DTypeOK, Announcements, NothingReopens, NEW es \in Seq(Nat), Sound(es), TrySend(es)
  PROVE  /\ events' \in Seq(Nat) /\ Len(events') <= UiCapacity
         /\ \A i \in DOMAIN events' : Truthful(events[i])'
<1>1. /\ events' \in Seq(Nat) /\ Len(events') <= UiCapacity
      /\ \A i \in DOMAIN events' :
           \/ \E j \in DOMAIN events : events'[i] = events[j]
           \/ \E j \in DOMAIN es : events'[i] = es[j]
  BY TrySendEffect DEF DTypeOK
<1>2. \A i \in DOMAIN events' : Truthful(events'[i])
  BY <1>1 DEF Announcements, Sound
<1>3. ASSUME NEW i \in DOMAIN events' PROVE Truthful(events[i])'
  <2>1. PICK e : e = events'[i]
    OBVIOUS
  <2>2. Truthful(e)
    BY <1>2, <2>1
  <2>3. Truthful(e)'
    BY <2>2, StaysTruthful
  <2> QED BY <2>1, <2>3
<1> QED BY <1>1, <1>3

\* The events the tasks send: nothing of a row, or the row just closed.
LEMMA SentIsSound ==
  ASSUME TypeOK
  PROVE  /\ Sound(<<Other>>) /\ Sound(<<Other, Other>>)
         /\ Closed(engine.id) => Sound(<<Other, engine.id>>)
         /\ Closed(tp_sl.id) => Sound(<<tp_sl.id>>)
<1>1. engine.id \in Nat /\ tp_sl.id \in Nat /\ Other \in Nat
  BY DEF TypeOK, EngineTask, TpSlTask, Other
<1>2. Truthful(Other) /\ \A r : Closed(r) => Truthful(r)
  BY DEF Truthful
<1>3. \A e \in Nat : Truthful(e) => Sound(<<e>>)
  BY DEF Sound
<1>4. \A d, e \in Nat : Truthful(d) /\ Truthful(e) => Sound(<<d, e>>)
  BY DEF Sound
<1> QED BY <1>1, <1>2, <1>3, <1>4

-----------------------------------------------------------------------------
(* What the steps of the dashboard are.                                    *)

\* The tasks, the process and the cooldown, while the dashboard watches.
EngineMoves ==
  /\ UNCHANGED <<front, ui, key>>
  /\ events' = events \/ \E es \in Seq(Nat) : Sound(es) /\ TrySend(es)

\* The dashboard goes up or away with the process.
Resets == front' \in {"shown", "left"} /\ Reset

\* The event loop only reads.
Reads == UNCHANGED vars /\ (PressKey \/ EventLoop)

\* The trade of a target, a copy and a rejection are no news of a row
\* (engine.rs:113).
LEMMA SwapMoves ==
  ASSUME TypeOK, SwapTaken
  PROVE  [Next]_vars /\ EngineMoves
<1>1. <<Other>> \in Seq(Nat) /\ <<Other, Other>> \in Seq(Nat)
      /\ Sound(<<Other>>) /\ Sound(<<Other, Other>>)
  BY SentIsSound DEF Other
<1>2. [Next]_vars
  BY DEF SwapTaken, Next
<1>3. UNCHANGED <<front, ui, key>> /\ (TrySend(<<Other>>) \/ TrySend(<<Other, Other>>))
  BY DEF SwapTaken
<1> QED BY <1>1, <1>2, <1>3 DEF EngineMoves

\* What the engine announces after a mirrored sell was closed before
\* (engine.rs:359-370).
LEMMA EngineTurnMoves ==
  ASSUME TypeOK, AboutToAnnounce, EngineTurn
  PROVE  [Next]_vars /\ EngineMoves
<1>1. /\ <<Other>> \in Seq(Nat) /\ Sound(<<Other>>)
      /\ <<Other, engine.id>> \in Seq(Nat)
      /\ Closed(engine.id) => Sound(<<Other, engine.id>>)
  BY SentIsSound DEF Other, TypeOK, EngineTask
<1>2. UNCHANGED <<front, ui, key>> /\ EngineAnnounces
  BY DEF EngineTurn
<1>3. [Next]_vars
  BY <1>2 DEF EngineAnnounces, Next, BuyStep, MirrorStep
<1>4. CASE MirrorForget /\ TrySend(<<Other, engine.id>>)
  <2>1. Closed(engine.id)
    BY <1>4 DEF MirrorForget, AboutToAnnounce
  <2> QED BY <1>1, <1>2, <1>3, <1>4, <2>1 DEF EngineMoves
<1>5. CASE TrySend(<<Other>>)
  BY <1>1, <1>2, <1>3, <1>5 DEF EngineMoves
<1>6. CASE UNCHANGED events
  BY <1>2, <1>3, <1>6 DEF EngineMoves
<1> QED BY <1>2, <1>4, <1>5, <1>6 DEF EngineAnnounces

\* What the TP/SL task announces was closed before (engine.rs:452-461).
LEMMA TpSlTurnMoves ==
  ASSUME TypeOK, AboutToAnnounce, TpSlTurn
  PROVE  [Next]_vars /\ EngineMoves
<1>1. /\ <<tp_sl.id>> \in Seq(Nat)
      /\ Closed(tp_sl.id) => Sound(<<tp_sl.id>>)
  BY SentIsSound DEF TypeOK, TpSlTask
<1>2. UNCHANGED <<front, ui, key>> /\ TpSlAnnounces
  BY DEF TpSlTurn
<1>3. [Next]_vars
  BY <1>2 DEF TpSlAnnounces, Next, ExitStep
<1>4. CASE ExitForget /\ TrySend(<<tp_sl.id>>)
  <2>1. Closed(tp_sl.id)
    BY <1>4 DEF ExitForget, AboutToAnnounce
  <2> QED BY <1>1, <1>2, <1>3, <1>4, <2>1 DEF EngineMoves
<1>5. CASE UNCHANGED events
  BY <1>2, <1>3, <1>5 DEF EngineMoves
<1> QED BY <1>2, <1>4, <1>5 DEF TpSlAnnounces

\* Every step is a step of the copy engine or leaves it alone.
LEMMA DStepKinds ==
  ASSUME TypeOK, AboutToAnnounce, [DNext]_dvars
  PROVE  [Next]_vars /\ (EngineMoves \/ Resets \/ Reads)
<1>1. CASE ProcessStarts \/ ProcessDies
  BY <1>1 DEF ProcessStarts, ProcessDies, Next, ProcessStep, Resets
<1>2. CASE EngineStops \/ CooldownTurn
  BY <1>2 DEF EngineStops, CooldownTurn, Next, ProcessStep, EngineMoves
<1>3. CASE SwapTaken \/ EngineTurn \/ TpSlTurn
  BY <1>3, SwapMoves, EngineTurnMoves, TpSlTurnMoves
<1>4. CASE PressKey \/ EventLoop
  BY <1>4 DEF PressKey, EventLoop, PushEvent, ListPositions, TotalPnl, QueryFails, Draw,
     Reads
<1>5. CASE UNCHANGED dvars
  BY <1>5 DEF dvars, EngineMoves
<1> QED BY <1>1, <1>2, <1>3, <1>4, <1>5 DEF DNext

-----------------------------------------------------------------------------
(* The invariant is inductive.                                             *)

\* The rows of a wallet can be counted.
LEMMA RowsCountable ==
  ASSUME TypeOK, NEW S, S \subseteq DOMAIN rows
  PROVE  IsFiniteSet(S) /\ Cardinality(S) \in Nat
<1>1. IsFiniteSet(DOMAIN rows)
  BY LenProperties, FS_Interval DEF TypeOK
<1>2. IsFiniteSet(S)
  BY <1>1, FS_Subset
<1> QED BY <1>2, FS_CardinalityType

\* The parts that speak of what the dashboard has.
Shown == DTypeOK /\ Announcements /\ Frame /\ TotalsCoverList

\* The engine moves under a dashboard that stands still.
LEMMA EngineMovesKeeps ==
  ASSUME Shown, NothingReopens, EngineMoves
  PROVE  Shown'
<1> USE DEF Shown
<1>1. /\ front' = front /\ feed' = feed /\ positions' = positions /\ pnl' = pnl
      /\ view' = view /\ refreshed' = refreshed /\ key' = key
  BY DEF EngineMoves, ui
<1>2. /\ events' \in Seq(Nat) /\ Len(events') <= UiCapacity
      /\ \A i \in DOMAIN events' : Truthful(events[i])'
  <2>1. CASE events' = events
    BY <2>1, StaysTruthful DEF DTypeOK, Announcements
  <2>2. CASE \E es \in Seq(Nat) : Sound(es) /\ TrySend(es)
    BY <2>2, ChannelStaysTrue
  <2> QED BY <2>1, <2>2 DEF EngineMoves
<1>3. DTypeOK'
  BY <1>1, <1>2 DEF DTypeOK
<1>4. Announcements'
  BY <1>1, <1>2, StaysTruthful DEF Announcements
<1>5. Frame'
  BY <1>1 DEF Frame, NothingReopens
<1>6. TotalsCoverList'
  <2> SUFFICES ASSUME view = "draw", refreshed = {"positions", "pnl"}, NEW w \in Wallets
               PROVE  Cardinality({i \in positions : rows'[i].key[1] = w}) <= pnl[w].trades
    BY <1>1 DEF TotalsCoverList
  <2>1. positions \subseteq DOMAIN rows
    BY DEF Frame
  <2>2. {i \in positions : rows'[i].key[1] = w} = {i \in positions : rows[i].key[1] = w}
    BY <2>1 DEF NothingReopens
  <2> QED BY <2>2 DEF TotalsCoverList
<1> QED BY <1>3, <1>4, <1>5, <1>6

\* A new dashboard, or none.
LEMMA ResetsKeeps ==
  ASSUME Resets
  PROVE  Shown'
<1>1. /\ front' \in {"shown", "left"} /\ events' = <<>> /\ feed' = <<>> /\ positions' = {}
      /\ pnl' = NoRows /\ view' = "poll" /\ refreshed' = {} /\ key' = FALSE
  BY DEF Resets, Reset
<1>2. UiCapacity \in Nat /\ FeedCap \in Nat
  BY DashboardAssumption
<1>3. /\ <<>> \in Seq(Nat) /\ Len(<<>>) = 0 /\ DOMAIN <<>> = {}
      /\ 0 <= UiCapacity /\ 0 <= FeedCap
  BY <1>2
<1>4. NoRows \in [Wallets -> [trades: Nat, open: Nat]]
  BY DEF NoRows
<1>5. DTypeOK'
  BY <1>1, <1>3, <1>4 DEF DTypeOK
<1> QED BY <1>1, <1>3, <1>5 DEF Shown, Announcements, Frame, TotalsCoverList

\* An event moves to the feed, whose oldest line makes room (tui.rs:100 and 144).
LEMMA PushKeeps ==
  ASSUME Shown, NothingReopens, PushEvent
  PROVE  Shown'
<1> USE DEF Shown
<1>1. /\ events \in Seq(Nat) /\ feed \in Seq(Nat) /\ Len(feed) <= FeedCap /\ events # <<>>
      /\ Len(events) <= UiCapacity /\ FeedCap \in Nat \ {0} /\ UiCapacity \in Nat
  BY DashboardAssumption DEF DTypeOK, PushEvent
<1> DEFINE kept == IF Len(feed) >= FeedCap THEN Tail(feed) ELSE feed
<1>2. /\ view = "poll" /\ feed' = Append(kept, Head(events)) /\ events' = Tail(events)
      /\ UNCHANGED <<vars, front, positions, pnl, view, refreshed, key>>
  BY DEF PushEvent, Polls
<1>3. /\ Head(events) \in Nat /\ Head(events) = events[1] /\ 1 \in DOMAIN events
      /\ Tail(events) \in Seq(Nat) /\ Len(Tail(events)) = Len(events) - 1
      /\ Len(events) \in Nat
      /\ \A i \in DOMAIN Tail(events) :
           i + 1 \in DOMAIN events /\ Tail(events)[i] = events[i + 1]
  BY <1>1
<1>4. /\ kept \in Seq(Nat) /\ Len(kept) \in Nat /\ Len(kept) < FeedCap
      /\ \A i \in DOMAIN kept : \E j \in DOMAIN feed : kept[i] = feed[j]
  <2>1. CASE Len(feed) >= FeedCap
    <3>1. feed # <<>> /\ Len(feed) \in Nat
      BY <1>1, <2>1
    <3>2. /\ Tail(feed) \in Seq(Nat) /\ Len(Tail(feed)) = Len(feed) - 1
          /\ \A i \in DOMAIN Tail(feed) : i + 1 \in DOMAIN feed /\ Tail(feed)[i] = feed[i + 1]
      BY <1>1, <3>1
    <3> QED BY <1>1, <2>1, <3>1, <3>2
  <2>2. CASE ~(Len(feed) >= FeedCap)
    BY <1>1, <2>2
  <2> QED BY <2>1, <2>2
<1> HIDE DEF kept
<1>5. /\ feed' \in Seq(Nat) /\ Len(feed') = Len(kept) + 1
      /\ \A i \in DOMAIN feed' :
           feed'[i] = Head(events) \/ \E j \in DOMAIN kept : feed'[i] = kept[j]
  BY <1>2, <1>3, <1>4
<1>6. Len(feed') <= FeedCap /\ Len(events') <= UiCapacity
  BY <1>1, <1>2, <1>3, <1>4, <1>5
<1>7. DTypeOK'
  BY <1>2, <1>3, <1>5, <1>6 DEF DTypeOK
<1>8. \A e : Truthful(e) => Truthful(e)'
  BY StaysTruthful
<1>9. /\ \A i \in DOMAIN events' : \E j \in DOMAIN events : events'[i] = events[j]
      /\ \A i \in DOMAIN feed' : \/ \E j \in DOMAIN events : feed'[i] = events[j]
                                 \/ \E j \in DOMAIN feed : feed'[i] = feed[j]
  <2>1. \A i \in DOMAIN events' : \E j \in DOMAIN events : events'[i] = events[j]
    BY <1>2, <1>3
  <2>2. ASSUME NEW i \in DOMAIN feed'
        PROVE  \/ \E j \in DOMAIN events : feed'[i] = events[j]
               \/ \E j \in DOMAIN feed : feed'[i] = feed[j]
    <3>1. CASE feed'[i] = Head(events)
      BY <1>3, <3>1
    <3>2. CASE \E j \in DOMAIN kept : feed'[i] = kept[j]
      BY <1>4, <3>2
    <3> QED BY <1>5, <3>1, <3>2
  <2> QED BY <2>1, <2>2
<1>10. ASSUME NEW i \in DOMAIN events' PROVE Truthful(events[i])'
  <2>1. PICK j \in DOMAIN events : events'[i] = events[j]
    BY <1>9
  <2>2. PICK e : e = events[j]
    OBVIOUS
  <2>3. Truthful(e)'
    BY <1>8, <2>2 DEF Announcements
  <2> QED BY <2>1, <2>2, <2>3
<1>11. ASSUME NEW i \in DOMAIN feed' PROVE Truthful(feed[i])'
  <2>1. PICK e : e = feed'[i]
    OBVIOUS
  <2>2. Truthful(e)
    BY <1>9, <2>1 DEF Announcements
  <2>3. Truthful(e)'
    BY <1>8, <2>2
  <2> QED BY <2>1, <2>3
<1>12. Announcements'
  BY <1>10, <1>11 DEF Announcements
<1> QED BY <1>2, <1>7, <1>12 DEF Frame, TotalsCoverList

\* A tick reads the open rows after the feed was written (tui.rs:81-82).
LEMMA ListKeeps ==
  ASSUME TypeOK, Shown, NothingReopens, ListPositions
  PROVE  Shown'
<1> USE DEF Shown
<1>1. /\ positions' = OpenIds /\ refreshed' = {"positions"} /\ view' = "pnl"
      /\ UNCHANGED <<vars, front, events, feed, pnl, key>>
  BY DEF ListPositions
<1>2. OpenIds \subseteq DOMAIN rows /\ DOMAIN rows \subseteq Nat /\ Other \notin DOMAIN rows
  BY LenProperties DEF OpenIds, TypeOK, Other
<1>3. DTypeOK'
  BY <1>1, <1>2 DEF DTypeOK
<1>4. Announcements'
  BY <1>1, StaysTruthful DEF Announcements
<1>5. \A i \in DOMAIN feed : feed[i] \notin OpenIds
  BY <1>2 DEF Announcements, Truthful, Closed, OpenIds
<1>6. Frame'
  BY <1>1, <1>2, <1>5 DEF Frame, vars
<1> QED BY <1>1, <1>3, <1>4, <1>6 DEF TotalsCoverList

\* The totals are read after the list, of rows that are never deleted
\* (db.rs:172).
LEMMA TotalKeeps ==
  ASSUME TypeOK, Shown, NothingReopens, TotalPnl
  PROVE  Shown'
<1> USE DEF Shown
<1>1. /\ pnl' = WalletPnl /\ refreshed' = refreshed \union {"pnl"} /\ view' = "draw"
      /\ view = "pnl" /\ UNCHANGED <<vars, front, events, feed, positions, key>>
  BY DEF TotalPnl
<1> DEFINE ofWallet(w) == {i \in DOMAIN rows : rows[i].key[1] = w}
<1>2. \A w : /\ IsFiniteSet(ofWallet(w)) /\ Cardinality(ofWallet(w)) \in Nat
             /\ Cardinality(ofWallet(w) \intersect OpenIds) \in Nat
  <2> TAKE w
  <2>1. /\ ofWallet(w) \subseteq DOMAIN rows
        /\ ofWallet(w) \intersect OpenIds \subseteq DOMAIN rows
    OBVIOUS
  <2> HIDE DEF ofWallet
  <2> QED BY <2>1, RowsCountable
<1>3. pnl' = [w \in Wallets |-> [trades |-> Cardinality(ofWallet(w)),
                                 open |-> Cardinality(ofWallet(w) \intersect OpenIds)]]
  BY <1>1 DEF WalletPnl
<1>4. pnl' \in [Wallets -> [trades: Nat, open: Nat]]
  <2> HIDE DEF ofWallet
  <2> QED BY <1>2, <1>3
<1>5. DTypeOK'
  BY <1>1, <1>4 DEF DTypeOK
<1>6. Announcements'
  BY <1>1, StaysTruthful DEF Announcements
<1>7. Frame'
  BY <1>1 DEF Frame, vars
<1>8. TotalsCoverList'
  <2> SUFFICES ASSUME "positions" \in refreshed', NEW w \in Wallets
               PROVE  Cardinality({i \in positions : rows[i].key[1] = w}) <= pnl'[w].trades
    BY <1>1 DEF TotalsCoverList, vars
  <2>1. positions \subseteq DOMAIN rows
    BY <1>1 DEF Frame
  <2>2. {i \in positions : rows[i].key[1] = w} \subseteq ofWallet(w)
    BY <2>1
  <2>3. pnl'[w].trades = Cardinality(ofWallet(w))
    BY <1>3
  <2> HIDE DEF ofWallet
  <2> QED BY <1>2, <2>2, <2>3, FS_Subset
<1> QED BY <1>5, <1>6, <1>7, <1>8

\* A query that fails, a key, a frame: no row is read.
LEMMA OtherReadsKeep ==
  ASSUME Shown, NothingReopens, PressKey \/ QueryFails \/ Draw
  PROVE  Shown'
<1> USE DEF Shown
<1>1. UNCHANGED <<rows, feed, positions, pnl>>
  BY DEF PressKey, QueryFails, Draw, vars, ui
<1>2. events' = events \/ events' = <<>>
  BY DEF PressKey, QueryFails, Draw
<1>3. UiCapacity \in Nat
  BY DashboardAssumption
<1>4. <<>> \in Seq(Nat) /\ Len(<<>>) = 0 /\ DOMAIN <<>> = {} /\ 0 <= UiCapacity
  BY <1>3
<1>5. events' \in Seq(Nat) /\ Len(events') <= UiCapacity
  BY <1>2, <1>4 DEF DTypeOK
<1>6. /\ front' \in {"shown", "left"} /\ view' \in {"poll", "pnl", "draw"} /\ key' \in BOOLEAN
      /\ refreshed' \subseteq {"positions", "pnl"}
  BY DEF PressKey, QueryFails, Draw, DTypeOK, ui
<1>7. DTypeOK'
  BY <1>1, <1>5, <1>6 DEF DTypeOK
<1>8. Announcements'
  BY <1>1, <1>2, <1>4, StaysTruthful DEF Announcements
<1>9. CASE PressKey
  <2>1. view' = view /\ refreshed' = refreshed
    BY <1>9 DEF PressKey, ui
  <2> QED BY <1>1, <1>7, <1>8, <2>1 DEF Frame, TotalsCoverList
<1>10. CASE QueryFails
  <2>1. \/ view' = "pnl" /\ refreshed' = {}
        \/ view = "pnl" /\ view' = "draw" /\ refreshed' = refreshed
    BY <1>10 DEF QueryFails
  <2>2. Frame' /\ TotalsCoverList'
    BY <1>1, <2>1 DEF Frame, TotalsCoverList
  <2> QED BY <1>7, <1>8, <2>2
<1>11. CASE Draw
  BY <1>7, <1>8, <1>11 DEF Draw, Frame, TotalsCoverList
<1> QED BY <1>9, <1>10, <1>11

\* The invariant holds initially.
LEMMA DashboardInvInit == DInit => DashboardInv
<1> SUFFICES ASSUME DInit PROVE DashboardInv
  OBVIOUS
<1>1. Init /\ engine = Idle /\ tp_sl = Wait
  BY DEF DInit, Init
<1>2. LedgerInv /\ ProcessInv
  BY <1>1, LedgerInit, ProcessInvInit
<1>3. UiCapacity \in Nat /\ FeedCap \in Nat
  BY DashboardAssumption
<1>4. /\ <<>> \in Seq(Nat) /\ Len(<<>>) = 0 /\ DOMAIN <<>> = {}
      /\ 0 <= UiCapacity /\ 0 <= FeedCap
  BY <1>3
<1>5. NoRows \in [Wallets -> [trades: Nat, open: Nat]]
  BY DEF NoRows
<1>6. DTypeOK
  BY <1>4, <1>5 DEF DInit, DTypeOK
<1>7. AboutToAnnounce
  BY <1>1 DEF AboutToAnnounce, Idle, Wait
<1> QED BY <1>2, <1>4, <1>6, <1>7 DEF DashboardInv, DInit, Announcements, Frame,
     TotalsCoverList

\* And every step keeps it.
LEMMA DashboardInvStep == DashboardInv /\ [DNext]_dvars => DashboardInv'
<1> SUFFICES ASSUME DashboardInv, [DNext]_dvars PROVE DashboardInv'
  OBVIOUS
<1>1. TypeOK /\ LedgerInv /\ ProcessInv /\ AboutToAnnounce /\ Shown
  BY DEF DashboardInv, LedgerInv, TypeInv, Shown
<1>2. [Next]_vars /\ (EngineMoves \/ Resets \/ Reads)
  BY <1>1, DStepKinds
<1>3. LedgerInv' /\ ProcessInv'
  BY <1>1, <1>2, LedgerStep, ProcessInvStep
<1>4. NothingReopens /\ AboutToAnnounce'
  BY <1>1, <1>2, RowsStep
<1>5. ASSUME Reads PROVE Shown'
  BY <1>1, <1>4, <1>5, PushKeeps, ListKeeps, TotalKeeps, OtherReadsKeep DEF Reads, EventLoop
<1>6. Shown'
  BY <1>1, <1>2, <1>4, <1>5, EngineMovesKeeps, ResetsKeeps
<1> QED BY <1>3, <1>4, <1>6 DEF DashboardInv, Shown

\* In every reachable state.
LEMMA DashboardInvHolds == DSpec => []DashboardInv
<1>1. DInit => DashboardInv
  BY DashboardInvInit
<1>2. DashboardInv /\ [DNext]_dvars => DashboardInv'
  BY DashboardInvStep
<1> QED BY <1>1, <1>2, PTL DEF DSpec

-----------------------------------------------------------------------------
(* The theorems.                                                           *)

\* The channel and the feed stay within their capacities and hold what the
\* engine says, for every capacity (main.rs:67, tui.rs:29 and 144).
THEOREM DashboardTyped == DSpec => []DTypeOK
<1>1. DashboardInv => DTypeOK
  BY DEF DashboardInv
<1> QED BY <1>1, DashboardInvHolds, PTL

\* A frame never lists as open a lot whose exit it announces, for every
\* interleaving of the two tasks with the two queries of a tick.
THEOREM AnnouncedIsNotListed == DSpec => []ClosedIsNotListed
<1>1. DashboardInv => ClosedIsNotListed
  BY DEF DashboardInv, Frame, ClosedIsNotListed
<1> QED BY <1>1, DashboardInvHolds, PTL

\* The totals of a frame cover its list, for every interleaving of the engine's
\* writes with the two queries (tui.rs:81-82).
THEOREM TotalsCoverWhatIsListed == DSpec => []TotalsCoverList
<1>1. DashboardInv => TotalsCoverList
  BY DEF DashboardInv
<1> QED BY <1>1, DashboardInvHolds, PTL

\* The dashboard changes nothing in the copy engine: every behaviour with the
\* dashboard is one of the copy engine, so all that holds of the engine holds
\* with the dashboard up, its channel full or its queries failing.
THEOREM DashboardOnlyWatches == DSpec => Spec
<1>1. DInit => Init
  BY DEF DInit
<1>2. DashboardInv /\ [DNext]_dvars => [Next]_vars
  <2>1. DashboardInv => TypeOK /\ AboutToAnnounce
    BY DEF DashboardInv, LedgerInv, TypeInv
  <2> QED BY <2>1, DStepKinds
<1> QED BY <1>1, <1>2, DashboardInvHolds, PTL DEF DSpec, Spec

=============================================================================
