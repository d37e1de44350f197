# Specifications of copycat-trader

TLA+ models of the copy-trading daemon in `src/`, the TLC instances that check
them, and theorems checked by TLAPS. Line numbers are those of the Rust files
(`engine.rs:392` is `src/src/engine.rs`, line 392).

## 1. Inventory

One process, four kinds of task on a multi-threaded tokio runtime:

    Geyser task --mpsc(1024)--> engine task --+
      reconnects, decodes          |          +--> SQLite (positions, trades)
                                   |          +--> Jupiter / Jito / RPC
    TP/SL task (every 5 s) --------+----------+
    foreground (dashboard or headless loop) <--mpsc(1024)-- UI events
    ctrl_c task --broadcast--> Geyser, engine, headless loop

| component | state it keeps | operations | what makes it correct |
| --- | --- | --- | --- |
| engine task (`engine.rs`) | `last_copy`, `open_positions` (key -> row id), the swap in hand | `on_target_buy`, `on_target_sell` | every acknowledged buy becomes one row; a mirrored sell sells the right lot; cooldown; dry run |
| TP/SL task (`engine.rs:381`) | a snapshot of the open rows | one pass every 5 s | sells only recorded lots, at a real level, and gets there in the end |
| ledger (`db.rs`) | tables `positions`, `trades` | open, close, the open-rows queries, totals per wallet, log | rows tell the truth about what was put on the wire |
| executor (`executor.rs`) | `usd_cache` | quote, swap, SOL price | a price handed out is recent; `Err` may hide a swap that went through |
| risk (`risk.rs`) | none | authority check, honeypot probe, sizing | arithmetic at its edges; order of gates |
| lifecycle (`main.rs`) | task handles, broadcast channel | spawn, SIGINT, join | the process ends when told, and not with work half done |
| Geyser (`geyser.rs`) | connection, backoff, the swap being sent | stream, reconnect, back pressure | swaps reach the engine in order, once; shutdown is seen |
| decoder (`decoder/`) | none | cascade, seven program decoders, balance-delta inference | direction and amounts of a swap |
| dashboard (`tui.rs`) | feed of 200 lines, open rows, totals per wallet | receive an event, refresh, draw, key press | never shows a closed lot as open; ends on `q`; bounded feed |
| configuration (`config.rs`) | none after load | `expand_env`, `validate`, `wallet_by_address` | only valid configurations run; the stream and the lookup agree |

What is hard here: the engine and TP/SL tasks share the map and the table and
interleave at every `await`; the order "submit, then record" under crashes and
database errors; requests that time out although they took effect; prices read
in one step and used in a later one; a shutdown signal that some receivers may
not get; swaps nobody saw because the stream was down; events dropped from a
full channel; balance changes that are not the swap (fees, tips, wrapping,
deposits) and are read as if they were. `PROJECT.json` lists these hazards line
by line.

## 2. Modules

| module | models | extends / uses |
| --- | --- | --- |
| `PositionLedger` | the abstract promise: orders, confirmations, lots and their exits | |
| `CopyEngine` | engine task, TP/SL task, table `positions`, copy rows of `trades`, swaps on the wire, crash / shutdown / restart | `Ledger == INSTANCE PositionLedger WITH ...` |
| `MCCopyEngine` | its instances for TLC | `CopyEngine` |
| `CopyEngineProofs` | its theorems, and that it implements `PositionLedger` | `CopyEngine`, `TLAPS` |
| `Lifecycle` | spawning, SIGINT, Geyser reconnects, swap channel, join | |
| `LifecycleProofs` | its theorems | `Lifecycle`, `TLAPS` |
| `BoundsProofs` | how far the wire and the table may differ: the counting bounds, exits written once | `CopyEngineProofs` |
| `Trader` | the whole process, fed by what the targets do | `CopyEngine`, `Life == INSTANCE Lifecycle WITH ...` |
| `MCTrader` / `TraderProofs` | its instance / its refinement of `CopyEngine` and its invariants | `Trader`, `BoundsProofs` |
| `Dashboard` | event channel, feed, refresh, keys, around the two tasks | `CopyEngine` |
| `MCDashboard` / `DashboardProofs` | its instance / its theorems | `Dashboard`, `BoundsProofs` |
| `RiskMath` | honeypot loss, sizing, TP/SL rule: pure operators | |
| `PriceGates` | clock and market, shared price cache, gates of a buy, TP/SL decision | `R == INSTANCE RiskMath` |
| `MCPriceGates` / `PriceGatesProofs` | its instances / its theorems | `PriceGates` |
| `Decoder` | cascade, program decoders, inference: pure operators | |
| `TargetTx` | one transaction of a target on chain, its frame, `handle_tx` | `Decoder` |
| `ConfigLoad` | `expand_env`, `validate`, the lookup of a wallet: pure operators | |
| `DecoderProofs` | what the decoder answers for every frame, the invariant `TxInv` and the properties it implies | `TargetTx` |
| `MCPure` | instance of everything without shared state | `RiskMath`, `ConfigLoad`, `TargetTx` |
| `PureProofs` | that `TxInv` is invariant; the theorems of `MCPure`, `RiskMath` and `ConfigLoad` | `MCPure`, `DecoderProofs` |

### PositionLedger

`wire` is every order ever put on the wire, `lots` every lot with the order that
opened it and, once sold, the order that is its exit. The module has five
actions and no tasks, map or crash. `CopyEngine` implements it (property
`ImplementsLedger`) under the mapping `wire <- sent`, `lots <- Lots`, where
`Lots` reads key, entry and exit off the rows, exit 0 for an open one.

### CopyEngine

State and code: `rows` is table `positions` (the index is the AUTOINCREMENT id,
`open` is `closed_at IS NULL`), `copy_log` the `copy_buy` rows of `trades`,
`sent` every swap put on the wire (its index stands for the signature, `ok`
says whether `execute_swap` returned `Ok`), `open_positions` and `last_copy` the
`EngineState`, `engine` and `tp_sl` the two tasks with their locals. `process`
and `cfg` are the process and its configuration, read once per start: a restart
may bring another one. `runs` and `faults` count.

One step per `await` that changes or depends on shared state:

| code | actions |
| --- | --- |
| `on_target_buy` up to the submission (147-226) | `OnTargetBuy`; the rejections and failed quotes before it change nothing |
| 228-297 | `BuyAnswered`, `BuyUnanswered`, `BuyPersist`, `BuyPersistFails`, `BuyTrack` |
| `on_target_sell` (299-378) | `OnTargetSell`, `MirrorFindsRow`, `MirrorRowGone`, `MirrorReadFails`, `MirrorSend`, `MirrorNotSent`, `MirrorAnswered`, `MirrorUnanswered`, `MirrorClose`, `MirrorCloseFails`, `MirrorForget` |
| `tp_sl_pass` (381-468) | `PassStart`, `PassSkip`, `PassSell`, `ExitAnswered`, `ExitUnanswered`, `ExitClose`, `ExitCloseFails`, `ExitForget`, `PassEnd` |
| `run`, process (28-75) | `Start`, `Shutdown`, `Crash` |

Abstractions. Whether a gate admits a buy and whether a level is reached is a
choice here and computed in `PriceGates`. The gates before the submission are
one step with it: they read only `last_copy`, which nothing but this task adds
to, and constants. `BuyTrack` joins the map insert and the trade row, whose
failure is ignored. Rows of one wallet and mint are told apart by id;
`ORDER BY opened_at DESC` is taken as descending id. "Acknowledged" is the
answer of the block engine or the RPC node; whether a transaction lands on
chain is not modelled.

### Lifecycle

`main` is where `main()` stands; `subscribed` and `heard` are the broadcast
channel; `geyser`, `backoff`, `swap` the stream task; `queue` the swap channel
with capacity `Capacity`; `EnterFront` chooses between dashboard and headless
loop as configuration and command line do; `engine`, `tp_sl` the two workers.
`Executor::new` is assumed to succeed.

### Trader

The composition. A target's life is a script: swap `n` is `targets[n]`, and the
numbers `Lifecycle` moves through stream and channel are positions in it. The
module has the variables of both parts; where they use one name for two things
`Lifecycle`'s are called `task` and `ticker` (the engine task and the TP/SL task
as `main()` sees them). What the two parts share happens in one step:

| step | `Lifecycle` | `CopyEngine` |
| --- | --- | --- |
| the engine task starts | `SpawnEngine` | `Start` |
| a swap is taken from the channel | `TakeSwap` | `OnTargetBuy`, `OnTargetSell`, or nothing (a gate, no map entry) |
| the handler returns | `HandlerDone` | idle again |
| the task hears the signal between two swaps | `EngineStops` | `Shutdown` |
| the process is lost | `Dies` | `Crash` |

`Unseen` is a swap made while nobody streams, or one the decoder answers
`Ok(None)` for: `from_slot` is `None` (`geyser.rs:165`), so a reconnect does not
bring it back. `Restart` starts the program over the same database. `missed`,
`copied`, `gave_up` and `inherited` are history: they never guard a step.

### Dashboard

`events` is the UI channel (capacity `UiCapacity`); `TrySend` drops what finds no room,
and everything once the receiver is gone. An event is the id of the row whose
exit it announces, or `Other`. `feed`, `positions` and `pnl` are the fields of
`Ui`; a tick is `ListPositions`, `TotalPnl`, `Draw`, three steps with two awaits
between which the engine may write; `QueryFails` is the error branch of either
query, which leaves the old view. The engine's own actions are those of
`CopyEngine`, each with what it announces. The dashboard outlives the engine
after a SIGINT (`main.rs:96`).

### RiskMath and PriceGates

Amounts are whole units and prices whole dollars; the f64 arithmetic is exact
here. The `u16` cast is kept (`% 65536`). In `PriceGates` the market moves at
every tick; `estimate_input_usd` is `Asked`, then `CacheHit` or `Fetch`
followed by `FetchAnswered`, `FetchUnreadable` or `FetchFails`; both tasks may
fetch at once because no lock is held across the request. `asof` says when a
price was quoted: the code has no such field, it is there to state properties.
The cap (`GateCap`) and the answer of the submission (`CopyBuy`), which marks
the cooldown, are two steps with the time of the request between them.
`USDT` behaves as `USDC`. The two authority flags are one constant, and the
honeypot probe is always on (its default).

### Decoder and TargetTx

A frame is the record `FrameCtx` is: signer, native balances, token balances
before and after, instructions. A discriminator is a name (`op`), a list of
accounts a function from positions, and the key of a mint account is the mint.
`DecodeTransaction` is the cascade (`decoder/mod.rs:52-79`): the first top-level
instruction that does not answer `Ok(None)` settles it, errors included;
otherwise, if any known program takes part, `InferFromBalanceDeltas`.

What a transaction may do is the chain's business and external: `TargetTx`
builds one instruction by instruction (`PayTip`, `Wrap`, `Unwrap`, `Claim`,
`Supply`, pool, routed and bonding-curve swaps) on the balances of the wallet
and of the vaults, deposits for new token accounts included, and remembers in
`swaps` and `moved` what really happened. `outer` and `inner` are the top-level
instructions and those they call; `Context` makes the frame as `geyser.rs` does,
`outer` before `inner`, and `HandleTx` is the call of the decoder. A *form* says where an instruction really lists the
user's accounts, which is not always where the decoder looks (Raydium without
open orders, Orca's `swap_v2`, short lists).

### ConfigLoad

A text is a sequence of tokens; `OPEN` stands for `${`, `CLOSE` for `}`.
`ExpandEnv` is a recursive function that makes one `Turn` of the loop after the
other; its reference `Scanned` reads one token at a time and knows only whether
it is inside a name. `WalletByAddress` finds the first enabled entry;
`Subscribed` is the account list of `build_request`.

## 3. What the runs show

| run | properties | instance |
| --- | --- | --- |
| `ledger` | `TypeOK`; `LedgerJustified`: each row was opened by one acknowledged buy of its key and closed by an acknowledged sale of itself, nothing else is sold or logged; `OversellBounded`: a lot is sold at most once per way out, plus once per fault and per restart; `UnrecordedBuysBounded`: a clean shutdown loses no buy; `NewestLotTracked`: the map names the newest lot of the right key; `ClosedRowsAreFinal`: with one way out no exit is rewritten; `DryRunSubmitsNothing`; `ImplementsLedger` | two wallets, one with both ways out that a restart may turn off and one whose way out a restart changes, one mint, 2 buys, 1 fault, 2 runs, live and dry starts over one database (760 000 states) |
| `progress` | `HandlerReturns`, `ExitsEventually` | 1 buy, 1 fault, 2 runs, the second of which may block the mint, fair |
| `trader` | `CopiedOnce`: swaps are copied in the targets' order, each at most once; `StrandedExplained`: why a lot may stay open after its target sold; `ExitLosesNoBuy`; `ImplementsCopyEngine` | two scripts of three swaps, channel of 1, a mirror wallet, 2 runs (a million states) |
| `pure` | `LossFitsU16`, `BudgetKept`; `EnvExpandedOnce`, `SubscribedIsDispatched`; `TxTypeOK`, `LegsAreReal`: a token leg is the wallet's own change; `NeverInverted`: a buy is not read as a sell; `SolLegBounded`: the SOL leg is off by at most what moved beside the swap; `SolBuysSeen`; `PhantomsAreSmall`: the SOL leg of what is not a swap is within fees, deposits and the threshold | amounts to 24; texts to 5 tokens; two wallet entries; transactions of 3 instructions (a routed swap adds its inner one) and 2 swaps |
| `dashboard` | `DTypeOK`, `ClosedIsNotListed`, `TotalsCoverList`, `ListCatchesUp`, `KeyLeaves` | channel of 2, feed of 1, 1 buy, fair |
| `buy_gates` | `TypeOK`, `MinTradeHolds`, `CooldownSpacing` | 3 ticks, prices 1 and 3, 2 copies, both fixed sizing modes |
| `price_cache` | `PriceAgeBounded`, `CapHoldsWhenPriced`, `TakeProfitIsReal` | 4 ticks, one lot, one exit, `pct_of_target` |
| `lifecycle` | `TypeOK`, `HandledInOrder`, `ExitedMeansStopped`, `StopsFollowBroadcast`, `QuitExits` | channel of 2, 4 swaps, dashboard or headless |

Every property has a mutant in its module ("Mutant: ..."), a plausible wrong
version of one action or operator that the property's own run must reject.

Bounds. Two buys of one key are the least that make two lots share a map entry,
and a third lot meets only states the second one already makes. One fault
separates every partial failure. Two runs put a restart after every state. With
`Ttl = 2` and `Timeout = 1` a price can be fresh, expired, and stored after it
was already one tick old within three ticks; with a fourth the price of the
first estimate can be out of date when the cap is evaluated, and an answer of
`copy_buy` can come later than the gate that let it go. Prices 1 and 3
differ by more than either level. A channel of two is the shortest in which the
order of two swaps can be lost, and four swaps overfill it.

In `trader` a channel of one already blocks the stream with one swap in each of
handler, channel and `SendSwap`, and no script is longer than that. Faults are
not needed there: a mirrored sale may fail to be sent without one, and the
bounds with faults are checked in `ledger`. `CopiedOnce` rests on an assumption
about the stream, that it delivers a transaction at most once: `handle_tx`
passes on every update it gets, a new subscription asks for no older slot
(`from_slot` is `None`, `geyser.rs:165`), and nothing behind it looks for a
signature it has seen. A stream that repeats a transaction has it copied twice.
`StrandedExplained` lists the ways out a sell of the target can miss; that
another lot of the same key took the sell (or the map entry) is one of them, so
the property says where lots are left and does not exclude it. Each excuse of `StrandedExplained`
but the last ("the wallet does not mirror") is needed: without it TLC finds a
counterexample in this instance. In `dashboard` two events fill the channel,
which one handler of a swap can do alone, and a feed of one drops its oldest line at
the second event. In `pure` the fee is once below and once above the threshold,
three instructions are enough for wrap, swap, unwrap, two for a claim beside a
swap, and two swaps for a path over SOL; five tokens hold two references, or
one with a marker inside its name.

`CHECK_DEADLOCK FALSE` is set where it is: an idle process with no swaps left, a
stopped process with no starts left, a clock at its bound and a decoded
transaction are legitimate ends.

### Disagreements between code and documentation

Each is a run with one property, quoted in `PROJECT.json`:

| run | property | what happens |
| --- | --- | --- |
| `shutdown` | `CleanShutdown` | the TP/SL task is aborted between a sale and its UPDATE |
| `authority` | `AuthorityRejected` | the JSON field names do not match; authorities read as absent |
| `stop_loss` | `StopLossOnLivePrice` | an unknown price counts as 0 USD and fires the stop-loss |
| `jupiter` | `JupiterSwapsSeen` | a stablecoin/token swap by Jupiter with more than 5000 lamports of fees has two negative legs and is not decoded |

Relatives of these, seen in the same models:

- the map is empty after a restart (`engine.rs:37`): open rows of mirror wallets
  are never sold, which is the excuse `inherited` of `StrandedExplained`;
- a second buy of a token overwrites the map entry of the first lot, which no
  mirrored sell reaches any more;
- a row sold by TP/SL before its id is in the map leaves an entry that names a
  closed row (`engine.rs:268-272`), until the next buy of that token;
- an unknown price also passes `max_position_usd` (`engine.rs:199-206`), which
  is why `CapHoldsWhenPriced` asks for a known one;
- a SIGINT does not end the dashboard (`main.rs:96`; `README.md:154`), only the
  tasks behind it: `ProcessDies` or a key press does;
- a SIGINT before all receivers exist (`main.rs:57`) is lost for those that
  come later, and nothing listens for a second one;
- a wrapped-SOL input is the token account's loss alone when there is one
  (`raydium.rs`, `build_swap`): what the swap spent out of freshly wrapped SOL
  is missing, and a swap whose wrap is larger than the trade is overstated.
  `SolLegBounded` bounds the error by what was wrapped;
- a transaction that goes A to SOL to B over two pools is reported as a buy of B
  with the fees as its input: the wrapped SOL nets to zero;
- a claim or a one-sided supply of a known program with more than 5000 lamports
  of fees is inferred as a trade against SOL: `PhantomsAreSmall` bounds it, and
  `min_target_trade_usd` is the gate that turns it down.

Noted while reading, without a run: `config.toml:5` promises a hot reload that
does not exist; `blocked_programs` is read by nothing; a `sizing_value` of
`nan` passes `validate`; `README.md:130-131` puts the USD cap after the quote of
the conversion, the code has it before; TP/SL exits use the larger of the
wallet's and the default slippage (`engine.rs:446`) where `README.md:116` says
override; `db.rs:43` lists a side `copy_sell` that is never written;
`executor.rs:44` says the amount comes from the swap response, it comes from
`/quote`; `refresh_hz` above 1000 gives a tick of zero, for which
`tokio::time::interval` panics (`tui.rs:49`); the feed shows a copy whose row
could not be written (`engine.rs:232`, `268`) like any other.

## 4. Fairness

`FairSpec` of `CopyEngine`: weak fairness of each task as a whole. The runtime
polls every ready task, HTTP requests end after ten seconds
(`executor.rs:93`), and the ticker of the TP/SL task never stops. Starts,
crashes, shutdowns and the swaps of the targets are not fair. `ExitSpec` adds
strong fairness of `PassSell`: the level of an eligible row is reached again
and again while it is scanned. That is an assumption about the market, not
about the code, and only `ExitsEventually` uses it.

`FairSpec` of `Lifecycle`: weak fairness of the ctrl_c task, `main`, the engine
task, the sleep and the hand-over of a swap; strong fairness of `GeyserStops`,
because the signal is ready whenever the outer `select!` is entered and
`select!` picks fairly among ready branches. Key presses, signals, connections
and swaps are not fair.

`DFairSpec` of `Dashboard`: weak fairness of the event loop; strong fairness of
the tick, because `select!` picks among the ready branches at random and takes
it again and again however many events wait; strong fairness of `ListPositions`:
the database answers again and again, an assumption only `ListCatchesUp` uses.
`KeyLeaves` needs no answering database. The engine, the TP/SL task and key
presses are not fair there.

`Trader` states safety only and assumes no fairness.

## 5. Theorems

All are proved for every set of wallets, mints, configurations and scripts and
for every bound, from the named assumptions of the modules only.

| theorem | statement |
| --- | --- |
| `TypesCorrect` | `Spec => []TypeOK` |
| `LedgerCorrect` | `Spec => []LedgerJustified` |
| `MapNamesNewestLot` | `Spec => []NewestLotTracked` |
| `DryRunSafe` | `Spec => DryRunSubmitsNothing` |
| `EngineImplementsLedger` | `Spec => ImplementsLedger` |
| `LostBuysBounded`, `OversellIsBounded`, `ExitsAreFinal` | `Spec => []UnrecordedBuysBounded`, `[]OversellBounded`, `ClosedRowsAreFinal` |
| `TraderImplementsCopyEngine` | `TSpec => ImplementsCopyEngine` |
| `SwapsAreCopiedOnce`, `StrandedLotsExplained`, `ExitsLoseNoBuy` | `TSpec => []P` for `CopiedOnce`, `StrandedExplained`, `ExitLosesNoBuy` |
| `DashboardOnlyWatches` | `DSpec => Spec` (of `CopyEngine`) |
| `DashboardTyped`, `AnnouncedIsNotListed`, `TotalsCoverWhatIsListed` | `DSpec => []P` for `DTypeOK`, `ClosedIsNotListed`, `TotalsCoverList` |
| `LifecycleTypes`, `ExitIsClean`, `StopsAreTold`, `SwapsStayInOrder` | `Spec => []P` for `TypeOK`, `ExitedMeansStopped`, `StopsFollowBroadcast` and `HandledInOrder` of `Lifecycle` |
| `GatesTyped`, `PricesAreRecent`, `CopiesAreSpaced`, `CapHolds`, `NoDustCopied`, `ProfitIsReal` | `Spec => []P` for `TypeOK`, `PriceAgeBounded`, `CooldownSpacing`, `CapHoldsWhenPriced`, `MinTradeHolds`, `TakeProfitIsReal` of `PriceGates` |
| `LossFits`, `HoneypotNeverInverted`, `FixedUsdNeverOverspends` | properties of `RiskMath` for all inputs |
| `DispatchIsExact` | subscription and lookup agree for every list of wallets |
| `ExpansionIsOneScan` | `expand_env` is one scan from left to right for every text and every environment |
| `StepKeepsBooks` | `TxInv /\ [TxNext]_txvars => TxInv'`: the invariant of a transaction is inductive |
| `TxTypesHold`, `LegsAlwaysReal`, `AlwaysNeverInverted`, `SolLegAlwaysBounded`, `SolBuysAlwaysSeen`, `PhantomsAlwaysSmall` | `Spec => []P` for `TxTypeOK`, `LegsAreReal`, `NeverInverted`, `SolLegBounded`, `SolBuysSeen`, `PhantomsAreSmall` of `TargetTx` |
| `LossAlwaysFits`, `BudgetAlwaysKept`, `AlwaysDispatched`, `AlwaysExpandedOnce` | `Spec => []P` for `LossFitsU16`, `BudgetKept`, `SubscribedIsDispatched`, `EnvExpandedOnce` of `MCPure` |

With `TraderImplementsCopyEngine` and `DashboardOnlyWatches` everything in the
first six lines also holds of the whole process and beside the dashboard. Both
modules compose by conjunction, so most of these two theorems follows from the
shape of their steps. What is left to show is that a handler is only started
for a swap of a target (`Fed`, kept across the channel, reconnects and restarts),
that a stop cuts no handler (`StopStep`), and that the dashboard writes nothing.

The assumptions are those of the constants: configurations are records of the
shape `Config`, scripts are sequences of swaps no longer than `MaxSwaps`, the
channel holds at least one swap, bounds are natural numbers, and the value that
stands for `None` is neither a key nor a number. The values of the environment
are texts. For a transaction: amounts are
positive, a trade has two different mints, the fee is no more than the wallet
has, pool programs are the four supported ones, routers are no pool and not
Pump.fun, and there are finitely many mints. Nothing is assumed of where a form
lists its accounts: the theorems hold for every layout.

**The ledger.** `LedgerJustified` is not inductive: it says nothing of a buy
that is on the wire and not yet recorded, nor of a sale not yet written.
`LedgerInv` adds `BuyInFlight` (the signature in the engine's hand is a buy of
its key, not yet the entry of any row; acknowledged once the answer came),
`SaleInFlight` and `ExitInFlight` (the signatures the two tasks hold are sales
of the rows they will close) and `MapSound` (the map names existing rows of its
keys). `NewestLotTracked` is carried along because the map insert happens one
step after the row, in the window it mentions. `DryRunSafe` rests on
`DryRunQuiet`: in a dry run the map is empty and both tasks are at rest, which
is why the missing check in `on_target_sell` does no harm.
`EngineImplementsLedger` maps each step to an action of `PositionLedger` or a
stutter; the guards of `Open` and `Close` are guards of no handler, the step
lemmas take them from `LedgerInv`.

**The bounds.** What is counted is a set of signatures, and each step adds one
at most. `UnrecordedBuysBounded` is inductive once memory is known to be empty
while the process is down (`ProcessInv`): the handler that submits answers for
its buy with `Unfinished`, a failure takes over with `faults`, a crash with the
next start. `OversellBounded` is not inductive: it says nothing of the sales
the tasks are about to make. `SalePaid` adds to the sales of a lot one for
each task that may still sell it (`MirrorMay`, `ExitMay`) and says that this sum
stays below the bound; `Outlook` lists what a step of a task can do to the sum.
It needs `WaysOut`: a lot in a task's hand belongs to a wallet with that way
out, in this run's configuration. `ClosedRowsAreFinal` holds because with one
way out only one task is ever about to close a row, and that row is open.

**The whole process.** All steps but one are steps of `CopyEngine` by
definition; taking a swap starts a handler of `CopyEngine` only if the number in
the channel is a swap of the script, which is `Fed`. The other three theorems
follow a swap through the process. `InOrder`: swaps wait in order, behind the
one taken last. `TasksInv`: the copy engine is up exactly while the engine task
runs, and what ends by itself has joined it, which with the bound above is
`ExitLosesNoBuy`. `CopiesInv`: a handler that has not written its row copies the
swap taken last, later than all that was copied. `StreamInv`: every swap behind
one that waits, or behind the one being handled, was missed, waits, or the
stream has stopped; `FeedCases` lists what a step can do to the swaps on their
way. `TrackedInv`: the map names every open lot of this run that is the only one
of its key, because a key is only forgotten with a closed lot of it. `SalesSeen`
puts these together: each later sell of such a lot is missed, waits, or the
handler is at it. At rest only the first is left.

**The dashboard.** A row is closed before its exit is announced and never opened
again, so what the channel and the feed hold stays true; a tick reads the list
after it wrote the feed and the totals after the list, and rows are not deleted.

**Prices.** A price is followed from the request (`OnItsWay`: no older than the
timeout) to the cache (`Stored`: so quoted at most a timeout before it was
stored) to the lookup (`HandedOut`: so at most `Ttl + Timeout` old when it is
used), whichever task overwrites the other's answer. The buy in hand, the
copies and the sales keep the lookups that decided about them. `CooldownInv`
adds that the mark in `last_copy` is at least as late as every acknowledged copy,
and that a handler past the check began a cooldown after it.

**The process.** `LInv` of `LifecycleProofs` is the inductive invariant behind
its four theorems. `StopsFollowBroadcast` needs to know that a message is unread
only after it was sent, `ExitedMeansStopped` that the engine task takes the
TP/SL task with it (`Signals`). `HandledInOrder` speaks of a concatenation whose
parts move into each other; `Ordered` says it part by part, and that nothing is
ahead of `seen`.

**The decoder.** `Spec => []P` is proved for transactions of any length, with any
number of trades, forms and mints. The properties compare an answer with what
happened, so `TxInv` keeps books. `InstructionsInv`: every top-level instruction
is a plain call, the claim, or the call that made one of the trades, and every
trade was made by one (`MadeBy`). `BooksInv`: take from the native balance what
fees, deposits and wrapping explain, and from each account what wrapping
explains; what is left (`Off`, `Excess`) is nothing before a trade, exactly the
trade after one (`Native`, `Part`), and one side only after a claim or a supply.
None of this is in the frame the decoder sees, which is the point. On the
decoder's side the lemmas say what each program decoder can answer for an
instruction of any layout: the two mints of the trade in either order or nothing
(`PoolAnswers`), the curve's trade (`CurveAnswers`), or what the balances say
(`InferAnswers`); `Cascade` and `Answered` put them together. An answer in the
wrong order needs the amounts to have moved the other way, which the books
exclude (`PoolFindsTrade`, `DeltasFindTrade`); so the one trade is never turned
over. `BoughtLeg` and `SoldLeg` are the arithmetic of every way in which a SOL
leg can be read; `PhantomLeg` is the same without a trade, and the reason for
the threshold in `PhantomsAreSmall`: native SOL below it is not netted against
the wrapped SOL, so up to `Threshold` more may be reported.

The proofs have one step per action; lemmas about `Append`, `EXCEPT`, finite sets
and the scan come first. The inductive invariants were checked with TLC on the
instances of section 3 before they were proved.

**The configuration's text.** `expand_env` jumps from one reference to the next,
the reference reads token by token, and both are recursive functions. The
library's induction theorems take a predicate, which the provers cannot
instantiate; `Ascends` and `Descends` state induction over an interval for a
*set* of indices instead and follow from the least index outside it.
`ScanDefined` and `RestDefined` show with them that the two recursions are well
founded. `CopyRun` and `NameRun` say what the scan does up to the next `OPEN`
and up to the next `CLOSE`; `TurnAgrees` puts one turn together: where the scan
is outside a name, the rest of `expand_env` appends what the rest of the scan
appends, if the later turns do. Nothing is assumed of the values except that
they are texts; they may hold references of their own.

Model-checked only: liveness (`HandlerReturns`, `ExitsEventually`,
`ListCatchesUp`, `KeyLeaves`, `QuitExits`), which is out of the prover's reach.
Every other property of a passing run is a theorem.

## 6. Not modelled

- Slippage; building, signing and paying tips for a transaction; whether an
  acknowledged one lands on chain (the hazard at `executor.rs:285` has no
  property): the repository never asks the chain, so there is no code to model.
- Byte layouts of instructions (a discriminator is a name), base58, decimals.
- Parsing TOML and its defaults; logging, wording, layout of the screen.
- `target_*` rows of the trade log, which nothing reads back; the sum of
  realized USD; `recent_trades`, which only a test calls, and `parse_pubkey`,
  which nothing calls; the SQLite pool and its busy timeout other than as an
  error.
- `Executor::new` failing (an unreadable keypair): the engine task ends at once.
- `u64` to `i64` at `engine.rs:247`: amounts are whole numbers and small.
- The replay tests.

## 7. Plan

Done: `CopyEngine`, `RiskMath`, `PriceGates`, `Lifecycle` and the proofs of the
ledger; then `PositionLedger` and its refinement, `Decoder` and `TargetTx`,
`ConfigLoad`, `Trader` and its refinement, `Dashboard`, the proofs of `Lifecycle`;
then the bounds of `CopyEngine`, the invariants of `Trader`, `PriceGates` and
`Dashboard`; then the invariant of a transaction and the properties of the
decoder.

Next: `Lifecycle` with an engine task that ends at once.
