----------------------------- MODULE CopyEngine -----------------------------
(***************************************************************************)
(* The copy engine of copycat-trader (src/engine.rs) with the two tasks    *)
(* that share its state, the SQLite tables they write (src/db.rs) and the  *)
(* swaps the executor puts on the wire (src/executor.rs).                  *)
(*                                                                         *)
(*  - the ENGINE task takes one decoded swap at a time: a buy is copied    *)
(*    and recorded as a position row, a sell is mirrored onto the row the  *)
(*    in-memory map open_positions names;                                  *)
(*  - the TP/SL task scans a snapshot of the open rows every five seconds  *)
(*    and sells those whose take-profit or stop-loss fires.                *)
(*                                                                         *)
(* There is one step per await: both tasks run on a multi-threaded         *)
(* runtime, so between two awaits of one task any step of the other, a     *)
(* crash, or a shutdown may happen.  A handler that gives up before it     *)
(* changes anything (a rejected buy, a quote that fails) is a stuttering   *)
(* step.  Prices are not modelled here: whether a gate admits a buy and    *)
(* whether TP/SL fires is a choice (module PriceGates computes them).      *)
(***************************************************************************)
EXTENDS Naturals, Sequences, FiniteSets

CONSTANTS
  Wallets,      \* target wallet addresses
  Mints,        \* token mints that are not quote mints
  Configs,      \* the configurations the operator may start the process with
  None,         \* the absent key of an idle task
  MaxBuys,      \* bound: copy buys put on the wire
  MaxFaults,    \* bound: database errors and submissions that answer Err
  MaxRuns       \* bound: starts of the process

Strategy == {"mirror", "tp_sl", "mirror_then_tp_sl"}

\* take_profit and stop_loss say whether the percentage is positive.
WalletCfg ==
  [enabled: BOOLEAN, exit_strategy: Strategy, take_profit: BOOLEAN,
   stop_loss: BOOLEAN, blocked_tokens: SUBSET Mints]

Config ==
  [dry_run: BOOLEAN, wallets: [Wallets -> WalletCfg]]

ASSUME ConfigsAssumption == Configs \subseteq Config
ASSUME NoneAssumption == None \notin Wallets \X Mints
ASSUME BoundsAssumption == {MaxBuys, MaxFaults, MaxRuns} \subseteq Nat

Keys == Wallets \X Mints
NoRow == 0      \* SQLite ids start at 1: 0 is "no entry"

VARIABLES
  process,         \* "up", "stopped" (clean shutdown) or "crashed"
  cfg,             \* configuration and --dry-run flag of the current run
  runs, faults,    \* how often the process started; failures so far
  rows,            \* table positions, indexed by its AUTOINCREMENT id
  copy_log,        \* signatures of the "copy_buy" rows of table trades
  sent,            \* every swap put on the wire; the index is its signature
  open_positions,  \* EngineState: key -> row id
  last_copy,       \* EngineState: wallets still in their cooldown
  engine,          \* the engine task: where it awaits, and its locals
  tp_sl            \* the TP/SL task, likewise

durable == <<rows, copy_log, sent>>
memory  == <<open_positions, last_copy, engine, tp_sl>>
control == <<process, cfg, runs>>
vars    == <<process, cfg, runs, faults, rows, copy_log, sent,
             open_positions, last_copy, engine, tp_sl>>

-----------------------------------------------------------------------------
(* Types and helpers.                                                      *)

Submission ==
  [side: {"buy", "sell"}, key: Keys, row: Nat, ok: BOOLEAN]

\* priced: entry_price_usd * entry_output_amount is positive.
Position ==
  [key: Keys, entry_sig: Nat, priced: BOOLEAN, tp: BOOLEAN, sl: BOOLEAN,
   open: BOOLEAN, exit_sig: Nat]

BuyPC  == {"buy_sent", "buy_persist", "buy_track"}
SellPC == {"sell_read", "sell_send", "sell_sent", "sell_close", "sell_forget"}

EngineTask ==
  [pc: {"idle"} \union BuyPC \union SellPC, key: Keys \union {None},
   id: Nat, sig: Nat]
TpSlTask ==
  [pc: {"wait", "scan", "exit_sent", "exit_close", "exit_forget"},
   scan: SUBSET Nat, id: Nat, sig: Nat]

Idle == [pc |-> "idle", key |-> None, id |-> NoRow, sig |-> 0]
Wait == [pc |-> "wait", scan |-> {}, id |-> NoRow, sig |-> 0]
NoPositions == [k \in Keys |-> NoRow]

Wcfg(key) == cfg.wallets[key[1]]
Mirrors(w) == cfg.wallets[w].exit_strategy \in {"mirror", "mirror_then_tp_sl"}
HasTpSl(key) == Wcfg(key).exit_strategy \in {"tp_sl", "mirror_then_tp_sl"}

\* Mutant: the query forgets status = 'open'.
AllIds == DOMAIN rows

OpenIds == {i \in DOMAIN rows : rows[i].open}
OpenIdsForWallet(w) == {i \in OpenIds : rows[i].key[1] = w}
Buys    == {s \in DOMAIN sent : sent[s].side = "buy"}
Sales(i) == {s \in DOMAIN sent : sent[s].side = "sell" /\ sent[s].row = i}

\* execute_swap reaches the block engine or the RPC node with a signed swap.
Submit(side, key, id) ==
  sent' = Append(sent, [side |-> side, key |-> key, row |-> id, ok |-> FALSE])

\* execute_swap returns Ok(signature).
Acknowledge(sig) == sent' = [sent EXCEPT ![sig].ok = TRUE]

\* Mutant: the UPDATE names wallet and mint instead of the id.
ClosePositionsOfKey(id, sig) ==
  rows' = [i \in DOMAIN rows |->
             IF rows[i].key = rows[id].key
             THEN [rows[i] EXCEPT !.open = FALSE, !.exit_sig = sig] ELSE rows[i]]

\* UPDATE positions ... WHERE id = ?  (whether or not the row is still open)
ClosePosition(id, sig) ==
  rows' = [rows EXCEPT ![id].open = FALSE, ![id].exit_sig = sig]

Fault == faults < MaxFaults /\ faults' = faults + 1

Init ==
  /\ process = "stopped" /\ cfg \in Configs
  /\ runs = 0 /\ faults = 0
  /\ rows = <<>> /\ copy_log = {} /\ sent = <<>>
  /\ open_positions = NoPositions /\ last_copy = {}
  /\ engine = Idle /\ tp_sl = Wait

-----------------------------------------------------------------------------
(* The process.  The memory is lost when it ends; the tables and what was  *)
(* put on the wire remain, and the next run starts with an empty map.      *)

MemoryLost ==
  /\ open_positions' = NoPositions /\ last_copy' = {}
  /\ engine' = Idle /\ tp_sl' = Wait

\* Mutant: the map is filled from the open rows when the process starts.
StartRehydrated ==
  /\ process # "up" /\ runs < MaxRuns
  /\ process' = "up" /\ runs' = runs + 1 /\ cfg' \in Configs
  /\ open_positions' = [k \in Keys |->
       LET ids == {i \in OpenIds : rows[i].key = k} IN
       IF ids = {} THEN NoRow ELSE CHOOSE i \in ids : \A j \in ids : j <= i]
  /\ UNCHANGED <<durable, faults, last_copy, engine, tp_sl>>

Start ==
  /\ process # "up" /\ runs < MaxRuns
  /\ process' = "up" /\ runs' = runs + 1 /\ cfg' \in Configs
  /\ MemoryLost
  /\ UNCHANGED <<durable, faults>>

\* Mutant: the signal is selected against the handler as well.
ShutdownMidHandler ==
  /\ process = "up"
  /\ process' = "stopped" /\ MemoryLost
  /\ UNCHANGED <<durable, faults, cfg, runs>>

\* The shutdown signal is only looked at between two swaps, but it aborts
\* the TP/SL task at whatever await it is.
Shutdown ==
  /\ process = "up" /\ engine.pc = "idle"
  /\ process' = "stopped" /\ MemoryLost
  /\ UNCHANGED <<durable, faults, cfg, runs>>

Crash ==
  /\ process = "up"
  /\ process' = "crashed" /\ MemoryLost
  /\ UNCHANGED <<durable, faults, cfg, runs>>

\* in_cooldown(w) becomes false.
CooldownElapses(w) ==
  /\ w \in last_copy
  /\ last_copy' = last_copy \ {w}
  /\ UNCHANGED <<durable, control, faults, open_positions, engine, tp_sl>>

-----------------------------------------------------------------------------
(* The engine task: a copy buy.                                            *)

\* Every gate passed, copy_buy puts the swap on the wire.
OnTargetBuy(w, m) ==
  /\ process = "up" /\ engine.pc = "idle" /\ Cardinality(Buys) < MaxBuys
  /\ cfg.wallets[w].enabled
  /\ w \notin last_copy
  /\ m \notin cfg.wallets[w].blocked_tokens
  /\ ~cfg.dry_run
  /\ Submit("buy", <<w, m>>, NoRow)
  /\ engine' = [pc |-> "buy_sent", key |-> <<w, m>>, id |-> NoRow,
                sig |-> Len(sent) + 1]
  /\ UNCHANGED <<control, faults, rows, copy_log, open_positions, last_copy, tp_sl>>

\* Mutant: the cooldown is kept per wallet and mint.
BuyAnsweredMarksKey ==
  /\ engine.pc = "buy_sent"
  /\ Acknowledge(engine.sig)
  /\ last_copy' = last_copy \union {engine.key}
  /\ engine' = [engine EXCEPT !.pc = "buy_persist"]
  /\ UNCHANGED <<control, faults, rows, copy_log, open_positions, tp_sl>>

BuyAnswered ==
  /\ engine.pc = "buy_sent"
  /\ Acknowledge(engine.sig)
  /\ last_copy' = last_copy \union {engine.key[1]}
  /\ engine' = [engine EXCEPT !.pc = "buy_persist"]
  /\ UNCHANGED <<control, faults, rows, copy_log, open_positions, tp_sl>>

\* copy_buy answers Err although the swap is on the wire (a timeout, an
\* error answer): nothing is recorded.
BuyUnanswered ==
  /\ engine.pc = "buy_sent" /\ Fault
  /\ engine' = Idle
  /\ UNCHANGED <<durable, control, open_positions, last_copy, tp_sl>>

BuyPersist ==
  /\ engine.pc = "buy_persist"
  /\ \E priced \in BOOLEAN :
       rows' = Append(rows,
         [key |-> engine.key, entry_sig |-> engine.sig, priced |-> priced,
          tp |-> Wcfg(engine.key).take_profit, sl |-> Wcfg(engine.key).stop_loss,
          open |-> TRUE, exit_sig |-> 0])
  /\ engine' = [engine EXCEPT !.pc = "buy_track", !.id = Len(rows) + 1]
  /\ UNCHANGED <<control, faults, copy_log, sent, open_positions, last_copy, tp_sl>>

\* open_position fails and `?` leaves the handler.
BuyPersistFails ==
  /\ engine.pc = "buy_persist" /\ Fault
  /\ engine' = Idle
  /\ UNCHANGED <<durable, control, open_positions, last_copy, tp_sl>>

\* Mutant: entry(key).or_insert(id) instead of insert(key, id).
BuyTrackIfVacant ==
  /\ engine.pc = "buy_track"
  /\ open_positions' =
       [open_positions EXCEPT ![engine.key] = IF @ = NoRow THEN engine.id ELSE @]
  /\ copy_log' = copy_log \union {engine.sig}
  /\ engine' = Idle
  /\ UNCHANGED <<control, faults, rows, sent, last_copy, tp_sl>>

\* The map entry, then the trade row, whose failure is ignored.
BuyTrack ==
  /\ engine.pc = "buy_track"
  /\ open_positions' = [open_positions EXCEPT ![engine.key] = engine.id]
  /\ \/ copy_log' = copy_log \union {engine.sig} /\ UNCHANGED faults
     \/ Fault /\ UNCHANGED copy_log
  /\ engine' = Idle
  /\ UNCHANGED <<control, rows, sent, last_copy, tp_sl>>

-----------------------------------------------------------------------------
(* The engine task: a mirrored sell.  It never looks at dry_run.           *)

\* Mutant: the exit strategy is not asked.
OnTargetSellAlways(w, m) ==
  /\ process = "up" /\ engine.pc = "idle"
  /\ cfg.wallets[w].enabled
  /\ open_positions[<<w, m>>] # NoRow
  /\ engine' = [pc |-> "sell_read", key |-> <<w, m>>,
                id |-> open_positions[<<w, m>>], sig |-> 0]
  /\ UNCHANGED <<durable, control, faults, open_positions, last_copy, tp_sl>>

OnTargetSell(w, m) ==
  /\ process = "up" /\ engine.pc = "idle"
  /\ cfg.wallets[w].enabled /\ Mirrors(w)
  /\ open_positions[<<w, m>>] # NoRow
  /\ engine' = [pc |-> "sell_read", key |-> <<w, m>>,
                id |-> open_positions[<<w, m>>], sig |-> 0]
  /\ UNCHANGED <<durable, control, faults, open_positions, last_copy, tp_sl>>

MirrorFindsRow ==
  /\ engine.pc = "sell_read" /\ engine.id \in OpenIdsForWallet(engine.key[1])
  /\ engine' = [engine EXCEPT !.pc = "sell_send"]
  /\ UNCHANGED <<durable, control, faults, open_positions, last_copy, tp_sl>>

\* Mutant: the row is read again until it is open.
MirrorRowRetried ==
  /\ engine.pc = "sell_read" /\ engine.id \notin OpenIdsForWallet(engine.key[1])
  /\ UNCHANGED vars

\* The row is not among the open rows of the wallet: the map entry stays.
MirrorRowGone ==
  /\ engine.pc = "sell_read" /\ engine.id \notin OpenIdsForWallet(engine.key[1])
  /\ engine' = Idle
  /\ UNCHANGED <<durable, control, faults, open_positions, last_copy, tp_sl>>

MirrorReadFails ==
  /\ engine.pc = "sell_read" /\ Fault
  /\ engine' = Idle
  /\ UNCHANGED <<durable, control, open_positions, last_copy, tp_sl>>

MirrorSend ==
  /\ engine.pc = "sell_send"
  /\ Submit("sell", engine.key, engine.id)
  /\ engine' = [engine EXCEPT !.pc = "sell_sent", !.sig = Len(sent) + 1]
  /\ UNCHANGED <<control, faults, rows, copy_log, open_positions, last_copy, tp_sl>>

\* The quote or the swap request fails: nothing was put on the wire.
MirrorNotSent ==
  /\ engine.pc = "sell_send"
  /\ engine' = Idle
  /\ UNCHANGED <<durable, control, faults, open_positions, last_copy, tp_sl>>

MirrorAnswered ==
  /\ engine.pc = "sell_sent"
  /\ Acknowledge(engine.sig)
  /\ engine' = [engine EXCEPT !.pc = "sell_close"]
  /\ UNCHANGED <<control, faults, rows, copy_log, open_positions, last_copy, tp_sl>>

MirrorUnanswered ==
  /\ engine.pc = "sell_sent" /\ Fault
  /\ engine' = Idle
  /\ UNCHANGED <<durable, control, open_positions, last_copy, tp_sl>>

MirrorClose ==
  /\ engine.pc = "sell_close"
  /\ ClosePosition(engine.id, engine.sig)
  /\ engine' = [engine EXCEPT !.pc = "sell_forget"]
  /\ UNCHANGED <<control, faults, copy_log, sent, open_positions, last_copy, tp_sl>>

MirrorCloseFails ==
  /\ engine.pc = "sell_close" /\ Fault
  /\ engine' = Idle
  /\ UNCHANGED <<durable, control, open_positions, last_copy, tp_sl>>

MirrorForget ==
  /\ engine.pc = "sell_forget"
  /\ open_positions' = [open_positions EXCEPT ![engine.key] = NoRow]
  /\ engine' = Idle
  /\ UNCHANGED <<durable, control, faults, last_copy, tp_sl>>

-----------------------------------------------------------------------------
(* The TP/SL task.  The scan is a snapshot: the rows in it may be closed,  *)
(* and newer rows opened, while the pass runs.                             *)

PassStart ==
  /\ process = "up" /\ tp_sl.pc = "wait" /\ ~cfg.dry_run
  /\ tp_sl' = [tp_sl EXCEPT !.pc = "scan", !.scan = OpenIds]
  /\ UNCHANGED <<durable, control, faults, open_positions, last_copy, engine>>

\* ORDER BY opened_at DESC
IsNext(r) ==
  /\ tp_sl.pc = "scan" /\ r \in tp_sl.scan
  /\ \A s \in tp_sl.scan : s <= r

\* The row may be sold if the quote says so.
Eligible(r) ==
  /\ Wcfg(rows[r].key).enabled /\ HasTpSl(rows[r].key)
  /\ rows[r].tp \/ rows[r].sl
  /\ rows[r].priced

\* Not eligible, no quote, neither level reached, or the sale not sent.
PassSkip(r) ==
  /\ IsNext(r)
  /\ tp_sl' = [tp_sl EXCEPT !.scan = @ \ {r}]
  /\ UNCHANGED <<durable, control, faults, open_positions, last_copy, engine>>

PassSell(r) ==
  /\ IsNext(r) /\ Eligible(r)
  /\ Submit("sell", rows[r].key, r)
  /\ tp_sl' = [pc |-> "exit_sent", scan |-> tp_sl.scan \ {r}, id |-> r,
               sig |-> Len(sent) + 1]
  /\ UNCHANGED <<control, faults, rows, copy_log, open_positions, last_copy, engine>>

ExitAnswered ==
  /\ tp_sl.pc = "exit_sent"
  /\ Acknowledge(tp_sl.sig)
  /\ tp_sl' = [tp_sl EXCEPT !.pc = "exit_close"]
  /\ UNCHANGED <<control, faults, rows, copy_log, open_positions, last_copy, engine>>

ExitUnanswered ==
  /\ tp_sl.pc = "exit_sent" /\ Fault
  /\ tp_sl' = [Wait EXCEPT !.pc = "scan", !.scan = tp_sl.scan]
  /\ UNCHANGED <<durable, control, open_positions, last_copy, engine>>

\* Mutant: the row the map names is closed, not the row that was scanned.
ExitCloseTracked ==
  /\ tp_sl.pc = "exit_close"
  /\ LET id == open_positions[rows[tp_sl.id].key] IN
       IF id = NoRow THEN UNCHANGED rows ELSE ClosePosition(id, tp_sl.sig)
  /\ tp_sl' = [tp_sl EXCEPT !.pc = "exit_forget"]
  /\ UNCHANGED <<control, faults, copy_log, sent, open_positions, last_copy, engine>>

ExitClose ==
  /\ tp_sl.pc = "exit_close"
  /\ ClosePosition(tp_sl.id, tp_sl.sig)
  /\ tp_sl' = [tp_sl EXCEPT !.pc = "exit_forget"]
  /\ UNCHANGED <<control, faults, copy_log, sent, open_positions, last_copy, engine>>

\* Mutant: the error ends the ticker task.
ExitCloseEndsTask ==
  /\ tp_sl.pc = "exit_close" /\ Fault
  /\ tp_sl' = [Wait EXCEPT !.pc = "dead"]
  /\ UNCHANGED <<durable, control, open_positions, last_copy, engine>>

\* `?` ends the whole pass.
ExitCloseFails ==
  /\ tp_sl.pc = "exit_close" /\ Fault
  /\ tp_sl' = Wait
  /\ UNCHANGED <<durable, control, open_positions, last_copy, engine>>

\* The key is removed, whichever row it names by now.
ExitForget ==
  /\ tp_sl.pc = "exit_forget"
  /\ open_positions' = [open_positions EXCEPT ![rows[tp_sl.id].key] = NoRow]
  /\ tp_sl' = [Wait EXCEPT !.pc = "scan", !.scan = tp_sl.scan]
  /\ UNCHANGED <<durable, control, faults, last_copy, engine>>

PassEnd ==
  /\ tp_sl.pc = "scan" /\ tp_sl.scan = {}
  /\ tp_sl' = Wait
  /\ UNCHANGED <<durable, control, faults, open_positions, last_copy, engine>>

-----------------------------------------------------------------------------
(* The specification.                                                      *)

ProcessStep == Start \/ Shutdown \/ Crash

BuyStep == BuyAnswered \/ BuyUnanswered \/ BuyPersist \/ BuyPersistFails \/ BuyTrack

MirrorStep ==
  \/ MirrorFindsRow \/ MirrorRowGone \/ MirrorReadFails
  \/ MirrorSend \/ MirrorNotSent \/ MirrorAnswered \/ MirrorUnanswered
  \/ MirrorClose \/ MirrorCloseFails \/ MirrorForget

ExitStep ==
  \/ PassStart \/ PassEnd
  \/ ExitAnswered \/ ExitUnanswered \/ ExitClose \/ ExitCloseFails \/ ExitForget

Next ==
  \/ ProcessStep \/ BuyStep \/ MirrorStep \/ ExitStep
  \/ \E w \in Wallets : CooldownElapses(w)
  \/ \E w \in Wallets, m \in Mints : OnTargetBuy(w, m) \/ OnTargetSell(w, m)
  \/ \E r \in DOMAIN rows : PassSkip(r) \/ PassSell(r)

Spec == Init /\ [][Next]_vars

\* A runtime that keeps polling both tasks, requests that time out after ten
\* seconds, and a ticker that never stops: every task with a step to take
\* takes it.  The swaps of the targets, crashes and restarts are not fair.
Progress ==
  /\ WF_vars(BuyStep \/ MirrorStep)
  /\ WF_vars(ExitStep \/ \E r \in DOMAIN rows : PassSkip(r) \/ PassSell(r))

FairSpec == Spec /\ Progress

\* Prices that reach the level of an eligible row again and again while it is
\* scanned: the pass that keeps visiting it sells it at last.
PricesReachLevels == \A r \in 1..MaxBuys : SF_vars(r \in DOMAIN rows /\ PassSell(r))

ExitSpec == FairSpec /\ PricesReachLevels

-----------------------------------------------------------------------------
(* Properties.                                                             *)

\* Type correctness of every variable.
TypeOK ==
  /\ process \in {"up", "stopped", "crashed"} /\ cfg \in Configs
  /\ runs \in 0..MaxRuns /\ faults \in 0..MaxFaults
  /\ rows \in Seq(Position) /\ sent \in Seq(Submission)
  /\ copy_log \subseteq Nat
  /\ open_positions \in [Keys -> Nat] /\ last_copy \subseteq Wallets
  /\ engine \in EngineTask /\ tp_sl \in TpSlTask

\* A process started with --dry-run puts nothing on the wire, although the
\* mirrored sell never looks at the flag (engine.rs:307): with no buy there is
\* no entry in the map, and the map is never filled from the tables.
DryRunSubmitsNothing == [][cfg.dry_run => sent' = sent]_vars

\* Every position row is explained by what was put on the wire, whatever the
\* two tasks and the crashes do: one acknowledged buy of its key opened it
\* and opened no other row; it is closed exactly when it names an exit, and
\* that exit is an acknowledged sale of this very row.  No sale is of anything
\* but a recorded lot, and a copy_buy row of the trade log is the entry of a
\* position.
EntryJustified(i) ==
  /\ rows[i].entry_sig \in Buys
  /\ sent[rows[i].entry_sig].ok /\ sent[rows[i].entry_sig].key = rows[i].key
ExitJustified(i) ==
  /\ rows[i].open <=> rows[i].exit_sig = 0
  /\ ~rows[i].open => rows[i].exit_sig \in Sales(i) /\ sent[rows[i].exit_sig].ok
EntriesDistinct ==
  \A i, j \in DOMAIN rows : rows[i].entry_sig = rows[j].entry_sig => i = j
LedgerJustified ==
  /\ \A i \in DOMAIN rows : EntryJustified(i) /\ ExitJustified(i)
  /\ EntriesDistinct
  /\ \A s \in DOMAIN sent : sent[s].side = "sell" =>
       sent[s].row \in DOMAIN rows /\ sent[s].key = rows[sent[s].row].key
  /\ \A s \in copy_log : \E i \in DOMAIN rows : rows[i].entry_sig = s

\* The lot a mirrored sell would pick is the newest lot of that wallet and
\* mint, except for a lot whose row is written and not yet in the map.
NewestLotTracked ==
  \A k \in Keys : open_positions[k] # NoRow =>
    /\ rows[open_positions[k]].key = k
    /\ \A r \in DOMAIN rows :
         rows[r].key = k /\ r > open_positions[k] =>
           engine.pc = "buy_track" /\ engine.id = r

\* How often one lot can be sold: once per exit its strategy allows (a
\* mirrored sell and a TP/SL exit can overlap), once more for every failed
\* answer or database write, and once more for every restart.
Exits(w) ==
  IF \E c \in Configs : c.wallets[w].exit_strategy = "mirror_then_tp_sl" THEN 2 ELSE 1
OversellBounded ==
  \A i \in DOMAIN rows :
    Cardinality(Sales(i)) < Exits(rows[i].key[1]) + faults + runs

\* A buy that is on the wire and in no position row was lost to a failed
\* answer or write, or to a crash, or its handler is still running: a clean
\* shutdown never loses one.
Unrecorded == {s \in Buys : \A i \in DOMAIN rows : rows[i].entry_sig # s}
Unfinished == IF process = "crashed" \/ engine.pc \in {"buy_sent", "buy_persist"} THEN 1 ELSE 0
UnrecordedBuysBounded ==
  runs > 0 => Cardinality(Unrecorded) < runs + faults + Unfinished

\* Nothing rewrites the exit of a closed row of a wallet with one way out;
\* close_position itself would (db.rs:138 does not ask for an open row).
ClosedRowsAreFinal ==
  [][\A r \in DOMAIN rows :
       ~rows[r].open /\ ~(Mirrors(rows[r].key[1]) /\ HasTpSl(rows[r].key))
         => rows'[r] = rows[r]]_vars

\* The engine comes back to its channel from every handler.
HandlerReturns == engine.pc # "idle" ~> engine.pc = "idle"

\* A row whose level keeps being reached is closed while the process is up,
\* whatever a failed sale or write of an earlier pass did.
ExitsEventually ==
  \A r \in 1..MaxBuys :
    (process = "up" /\ ~cfg.dry_run /\ r \in OpenIds /\ Eligible(r))
      ~> (process # "up" \/ r \notin OpenIds)

\* The engine and the TP/SL task implement the ledger of PositionLedger: the
\* columns priced, tp and sl, the tasks and the process are forgotten.
Lots == [i \in DOMAIN rows |->
           [key |-> rows[i].key, entry |-> rows[i].entry_sig, exit |-> rows[i].exit_sig]]

Ledger == INSTANCE PositionLedger WITH wire <- sent, lots <- Lots

\* Every step of the two tasks (engine.rs:104-468) is a step of that ledger or
\* leaves it alone, over crashes, restarts, failed writes and both exits.
ImplementsLedger == Ledger!Spec

-----------------------------------------------------------------------------
(* What the documentation says and the code does not do.                   *)

\* README.md:154: after a clean shutdown the ledger knows every acknowledged
\* swap.
CleanShutdown ==
  process = "stopped" =>
    \A s \in DOMAIN sent : sent[s].ok =>
      \E i \in DOMAIN rows : s \in {rows[i].entry_sig, rows[i].exit_sig}

=============================================================================
