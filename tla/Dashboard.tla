----------------------------- MODULE Dashboard -----------------------------
(***************************************************************************)
(* The dashboard of copycat-trader (src/tui.rs) around the copy engine:    *)
(* the engine task and the TP/SL task announce what they do on a bounded   *)
(* channel and never wait for room; the dashboard moves the announcements  *)
(* into a feed of FeedCap lines, and on every tick reads the open rows and *)
(* the totals per wallet from the database, draws, and looks at the keys.  *)
(*                                                                         *)
(* A SIGINT stops the engine and leaves the dashboard up; a key press ends *)
(* the dashboard, and the engine hears of it afterwards.                   *)
(***************************************************************************)
EXTENDS CopyEngine

CONSTANTS
  UiCapacity,     \* 1024: capacity of the channel of UI events
  FeedCap         \* 200: FEED_CAP

ASSUME DashboardAssumption == {UiCapacity, FeedCap} \subseteq Nat \ {0}

VARIABLES
  front,       \* "shown", or "left" once the dashboard has returned
  events,      \* the channel of UI events
  feed,        \* Ui.feed
  positions,   \* Ui.positions: ids of the listed rows
  pnl,         \* Ui.pnl: rows and open rows of every wallet
  view,        \* where event_loop is: "poll", "pnl" or "draw"
  refreshed,   \* the queries of this tick that succeeded
  key          \* q or Esc is pressed

ui    == <<feed, positions, pnl, view, refreshed>>
dvars == <<vars, front, events, ui, key>>

\* An event is the row whose exit it announces (PositionClosed), or Other: a
\* trade of a target, a copy that was submitted, a copy that was rejected.
Other == 0

\* events.try_send, once for each of es: what finds no room is dropped, and
\* all of it once the dashboard has dropped the receiver.
TrySend(es) ==
  LET all == events \o es
      kept == IF Len(all) <= UiCapacity THEN Len(all) ELSE UiCapacity IN
  events' = IF front = "shown" THEN SubSeq(all, 1, kept) ELSE <<>>

NoRows == [w \in Wallets |-> [trades |-> 0, open |-> 0]]

DInit ==
  /\ Init
  /\ front = "left" /\ key = FALSE
  /\ events = <<>> /\ feed = <<>> /\ positions = {} /\ pnl = NoRows
  /\ view = "poll" /\ refreshed = {}

-----------------------------------------------------------------------------
(* The process.                                                            *)

Reset ==
  /\ events' = <<>> /\ feed' = <<>> /\ positions' = {} /\ pnl' = NoRows
  /\ view' = "poll" /\ refreshed' = {} /\ key' = FALSE

\* The dashboard is up as soon as the engine is.
ProcessStarts == front = "left" /\ Start /\ front' = "shown" /\ Reset

\* The engine heard the signal; the dashboard goes on.
EngineStops == Shutdown /\ UNCHANGED <<front, events, ui, key>>

\* A crash, or the terminal fails and `?` leaves main.
ProcessDies ==
  /\ front = "shown" \/ process = "up"
  /\ Crash \/ (process # "up" /\ UNCHANGED vars)
  /\ front' = "left" /\ Reset

-----------------------------------------------------------------------------
(* The two tasks and what they announce.                                   *)

\* handle_swap: the trade of the target is announced before anything else.  A
\* swap that leads to nothing may be rejected by a gate.
SwapTaken ==
  /\ process = "up" /\ engine.pc = "idle"
  /\ \/ /\ \E w \in Wallets, m \in Mints : OnTargetBuy(w, m) \/ OnTargetSell(w, m)
        /\ TrySend(<<Other>>)
     \/ /\ TrySend(<<Other>>) \/ TrySend(<<Other, Other>>)
        /\ UNCHANGED vars
  /\ UNCHANGED <<front, ui, key>>

EngineAnnounces ==
  \/ (BuyAnswered \/ BuyUnanswered \/ MirrorUnanswered \/ MirrorNotSent) /\ TrySend(<<Other>>)
  \/ MirrorForget /\ TrySend(<<Other, engine.id>>)
  \/ /\ \/ BuyPersist \/ BuyPersistFails \/ BuyTrack
        \/ MirrorFindsRow \/ MirrorRowGone \/ MirrorReadFails
        \/ MirrorSend \/ MirrorAnswered \/ MirrorClose \/ MirrorCloseFails
     /\ UNCHANGED events

\* Mutant: the exit is announced when the sale is answered.
TpSlAnnouncesSale ==
  \/ ExitAnswered /\ TrySend(<<tp_sl.id>>)
  \/ /\ \/ PassStart \/ PassEnd \/ ExitUnanswered \/ ExitClose \/ ExitCloseFails \/ ExitForget
        \/ \E r \in DOMAIN rows : PassSkip(r) \/ PassSell(r)
     /\ UNCHANGED events

TpSlAnnounces ==
  \/ ExitForget /\ TrySend(<<tp_sl.id>>)
  \/ /\ \/ PassStart \/ PassEnd \/ ExitAnswered \/ ExitUnanswered \/ ExitClose \/ ExitCloseFails
        \/ \E r \in DOMAIN rows : PassSkip(r) \/ PassSell(r)
     /\ UNCHANGED events

EngineTurn == EngineAnnounces /\ UNCHANGED <<front, ui, key>>
TpSlTurn   == TpSlAnnounces /\ UNCHANGED <<front, ui, key>>
CooldownTurn ==
  (\E w \in Wallets : CooldownElapses(w)) /\ UNCHANGED <<front, events, ui, key>>

-----------------------------------------------------------------------------
(* The event loop: one task, that polls between its awaits.                *)

Polls == front = "shown" /\ view = "poll"

PressKey ==
  /\ front = "shown" /\ ~key /\ key' = TRUE
  /\ UNCHANGED <<vars, front, events, ui>>

\* Mutant: the cap is never applied.
PushEventUncapped ==
  /\ Polls /\ events # <<>>
  /\ feed' = Append(feed, Head(events)) /\ events' = Tail(events)
  /\ UNCHANGED <<vars, front, positions, pnl, view, refreshed, key>>

\* push_event: the oldest line makes room.
PushEvent ==
  /\ Polls /\ events # <<>>
  /\ feed' = Append(IF Len(feed) >= FeedCap THEN Tail(feed) ELSE feed, Head(events))
  /\ events' = Tail(events)
  /\ UNCHANGED <<vars, front, positions, pnl, view, refreshed, key>>

\* wallet_pnl
WalletPnl ==
  [w \in Wallets |->
     LET ofWallet == {i \in DOMAIN rows : rows[i].key[1] = w} IN
     [trades |-> Cardinality(ofWallet), open |-> Cardinality(ofWallet \intersect OpenIds)]]

\* Mutant: the rows are only read again once no event waits.
ListUnlessBusy ==
  /\ Polls /\ view' = "pnl"
  /\ IF events = <<>>
     THEN positions' = OpenIds /\ refreshed' = {"positions"}
     ELSE positions' = positions /\ refreshed' = {}
  /\ UNCHANGED <<vars, front, events, feed, pnl, key>>

\* A tick: open_positions, then wallet_pnl.
ListPositions ==
  /\ Polls
  /\ positions' = OpenIds /\ refreshed' = {"positions"} /\ view' = "pnl"
  /\ UNCHANGED <<vars, front, events, feed, pnl, key>>

\* Mutant: only closed lots count as trades.
TotalPnlClosed ==
  /\ front = "shown" /\ view = "pnl"
  /\ pnl' = [w \in Wallets |->
       LET open == Cardinality({i \in OpenIds : rows[i].key[1] = w}) IN
       [trades |-> Cardinality({i \in DOMAIN rows : rows[i].key[1] = w}) - open, open |-> open]]
  /\ refreshed' = refreshed \union {"pnl"} /\ view' = "draw"
  /\ UNCHANGED <<vars, front, events, feed, positions, key>>

TotalPnl ==
  /\ front = "shown" /\ view = "pnl"
  /\ pnl' = WalletPnl /\ refreshed' = refreshed \union {"pnl"} /\ view' = "draw"
  /\ UNCHANGED <<vars, front, events, feed, positions, key>>

\* The database answers with an error: the view of the last tick stays.
QueryFails ==
  /\ front = "shown"
  /\ \/ view = "poll" /\ view' = "pnl" /\ refreshed' = {}
     \/ view = "pnl" /\ view' = "draw" /\ UNCHANGED refreshed
  /\ UNCHANGED <<vars, front, events, feed, positions, pnl, key>>

\* Mutant: a tick whose queries failed is given up before the keys are read.
DrawSkipsKeys ==
  /\ front = "shown" /\ view = "draw" /\ view' = "poll"
  /\ IF key /\ refreshed = {"positions", "pnl"}
     THEN front' = "left" /\ key' = FALSE /\ events' = <<>>
     ELSE UNCHANGED <<front, key, events>>
  /\ UNCHANGED <<vars, feed, positions, pnl, refreshed>>

\* The frame is drawn and the keys are read.
Draw ==
  /\ front = "shown" /\ view = "draw" /\ view' = "poll"
  /\ IF key
     THEN front' = "left" /\ key' = FALSE /\ events' = <<>>
     ELSE UNCHANGED <<front, key, events>>
  /\ UNCHANGED <<vars, feed, positions, pnl, refreshed>>

-----------------------------------------------------------------------------

EventLoop == PushEvent \/ ListPositions \/ TotalPnl \/ QueryFails \/ Draw

DNext ==
  \/ ProcessStarts \/ EngineStops \/ ProcessDies
  \/ SwapTaken \/ EngineTurn \/ TpSlTurn \/ CooldownTurn
  \/ PressKey \/ EventLoop

DSpec == DInit /\ [][DNext]_dvars

\* An event loop that keeps being polled, select! that takes the tick again and
\* again however many events wait, and a database that answers again and again.
Tick == ListPositions \/ (view = "poll" /\ QueryFails)
DFairness == WF_dvars(EventLoop) /\ SF_dvars(Tick) /\ SF_dvars(ListPositions)

DFairSpec == DSpec /\ DFairness

-----------------------------------------------------------------------------
(* Properties.                                                             *)

DTypeOK ==
  /\ front \in {"shown", "left"} /\ view \in {"poll", "pnl", "draw"} /\ key \in BOOLEAN
  /\ events \in Seq(Nat) /\ Len(events) <= UiCapacity
  /\ feed \in Seq(Nat) /\ Len(feed) <= FeedCap
  /\ positions \subseteq Nat /\ pnl \in [Wallets -> [trades: Nat, open: Nat]]
  /\ refreshed \subseteq {"positions", "pnl"}

\* A frame never lists as open a lot whose exit its feed announces, whichever
\* task closed it: the row is written before the event is sent (engine.rs:359
\* and 452) and the rows are read after the events.
ClosedIsNotListed ==
  view = "draw" /\ "positions" \in refreshed =>
    \A i \in DOMAIN feed : feed[i] \notin positions

\* In a frame both queries answered for, the totals count every listed lot,
\* although the engine may have written in between (tui.rs:81-82).
TotalsCoverList ==
  view = "draw" /\ refreshed = {"positions", "pnl"} =>
    \A w \in Wallets :
      Cardinality({i \in positions : rows[i].key[1] = w}) <= pnl[w].trades

\* A closed lot leaves the list, whatever queries failed and whether or not its
\* announcement found room in the channel (engine.rs:366 and 458).
ListCatchesUp ==
  \A r \in 1..MaxBuys :
    (front = "shown" /\ r \in DOMAIN rows \ OpenIds) ~> (front # "shown" \/ r \notin positions)

\* A key press ends the dashboard, whatever the database answers.
KeyLeaves == key ~> ~key

=============================================================================
