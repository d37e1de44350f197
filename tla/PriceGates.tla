----------------------------- MODULE PriceGates -----------------------------
(***************************************************************************)
(* Prices and time in copycat-trader: the SOL/USD cache both tasks share   *)
(* (src/executor.rs), the gates a copy buy passes (src/engine.rs,          *)
(* src/risk.rs) and the take-profit / stop-loss decision.                  *)
(*                                                                         *)
(* The market moves at every tick of the clock, requests take time, and    *)
(* the two estimates of one buy may read different prices.  A price that   *)
(* cannot be fetched is 0.0 (executor.rs:388, never an error).  What the   *)
(* two tasks do with positions is module CopyEngine.                       *)
(***************************************************************************)
EXTENDS Naturals, Sequences

CONSTANTS
  None,
  Ttl,           \* 60 s: how long a cached price is used
  Timeout,       \* 10 s: the request timeout of the HTTP client
  Prices,        \* what one SOL may cost, in USD
  Amounts,       \* what a target may pay for a token, in units of its mint
  Outs,          \* what selling a lot may bring, in units of the quote mint
  ProbeIn, ProbeOuts,    \* the honeypot probe, and what may come back
  Modes, SizingValue, MinTargetUsd, MaxPositionUsd, Cooldown,   \* WalletCfg
  TakeProfit, StopLoss,
  MaxRoundtripBps, RequireAuthorityNull,                        \* RiskCfg
  MaxTime,       \* bound: ticks of the clock
  MaxCopies,     \* bound: copy buys
  MaxExits       \* bound: TP/SL sales

R == INSTANCE RiskMath

ASSUME GatesAssumption ==
  /\ {Ttl, Timeout, SizingValue, MinTargetUsd, MaxPositionUsd, Cooldown,
      TakeProfit, StopLoss, MaxRoundtripBps, MaxTime, MaxCopies, MaxExits} \subseteq Nat
  /\ Prices \subseteq Nat \ {0} /\ Amounts \subseteq Nat /\ Outs \subseteq Nat
  /\ None \notin Nat
  /\ SizingValue > 0 /\ Modes \subseteq R!SizingMode /\ RequireAuthorityNull \in BOOLEAN

Tasks == {"engine", "tp_sl"}
QuoteMints == {"WSOL", "USDC"}

VARIABLES
  now,          \* the clock
  market,       \* the price of SOL at each tick so far, market[now + 1] the current
  cache,        \* usd_cache: None, or the price, when it was stored, when it was quoted
  lookup,       \* per task: its call of estimate_input_usd
  last_copy,    \* when the wallet was last marked, or None
  buy,          \* the engine's on_target_buy
  exit,         \* the TP/SL task's look at one lot
  copies,       \* copy buys put on the wire
  exits         \* TP/SL sales put on the wire

clock  == <<now, market>>
prices == <<cache, lookup>>
vars   == <<now, market, cache, lookup, last_copy, buy, exit, copies, exits>>

-----------------------------------------------------------------------------
(* Types.  A price carries the tick it was quoted at (asof): the code has  *)
(* no such field, it is there to say how old a price is.                   *)

NoLookup == [pc |-> "none", px |-> 0, asof |-> 0, at |-> 0]
Lookup == [pc: {"none", "asked", "fetching", "done"}, px: Nat, asof: Nat, at: Nat]

IdleBuy == [pc |-> "idle", mint |-> "WSOL", amount |-> 0, mode |-> "pct_of_target",
            authority |-> FALSE, target |-> NoLookup, size |-> 0, mark |-> NoLookup,
            started |-> 0]
BuyTask ==
  [pc: {"idle", "estimate", "check", "estimate_copy", "copy_buy"}, mint: QuoteMints,
   amount: Nat, mode: R!SizingMode, authority: BOOLEAN, target: Lookup, size: Nat,
   mark: Lookup, started: Nat]

IdleExit == [pc |-> "idle", lot |-> 0, out |-> 0]
ExitTask == [pc: {"idle", "estimate"}, lot: Nat, out: Nat]

\* entry_usd is what the position row says the lot cost.
Copy ==
  [mint: QuoteMints, amount: Nat, size: Nat, authority: BOOLEAN, target: Lookup,
   mark: Lookup, entry_usd: Nat, started: Nat, acked: Nat \union {None}, open: BOOLEAN]
Exit == [lot: Nat, out: Nat, mark: Lookup, reason: {"tp", "sl"}]

Px(t) == market[t + 1]
Usd(mint, amount, l) == IF mint = "USDC" THEN amount ELSE amount * l.px

InCooldown == last_copy # None /\ now - last_copy < Cooldown

Init ==
  /\ now = 0 /\ \E p \in Prices : market = <<p>>
  /\ cache = None /\ lookup = [t \in Tasks |-> NoLookup] /\ last_copy = None
  /\ buy = IdleBuy /\ exit = IdleExit /\ copies = <<>> /\ exits = <<>>

-----------------------------------------------------------------------------
(* The clock.  A request is answered or fails within its timeout.          *)

Tick ==
  /\ now < MaxTime
  /\ \A t \in Tasks : lookup[t].pc = "fetching" => now < lookup[t].asof + Timeout
  /\ now' = now + 1
  /\ \E p \in Prices : market' = Append(market, p)
  /\ UNCHANGED <<prices, last_copy, buy, exit, copies, exits>>

-----------------------------------------------------------------------------
(* estimate_input_usd and sol_usd.  The cache lock is not held while the   *)
(* quote is on its way: both tasks may fetch at once, and the answer that  *)
(* comes last is the one that stays.                                       *)

Asked(t, mint) ==
  lookup' = [lookup EXCEPT ![t] =
    IF mint = "USDC" THEN [NoLookup EXCEPT !.pc = "done", !.asof = now, !.at = now]
                     ELSE [NoLookup EXCEPT !.pc = "asked"]]

Fresh == cache # None /\ now - cache.when < Ttl

CacheHit(t) ==
  /\ lookup[t].pc = "asked" /\ Fresh
  /\ lookup' = [lookup EXCEPT ![t] =
       [pc |-> "done", px |-> cache.px, asof |-> cache.asof, at |-> now]]
  /\ UNCHANGED <<clock, cache, last_copy, buy, exit, copies, exits>>

\* Jupiter quotes the price when the request reaches it.
Fetch(t) ==
  /\ lookup[t].pc = "asked" /\ ~Fresh
  /\ lookup' = [lookup EXCEPT ![t] =
       [pc |-> "fetching", px |-> Px(now), asof |-> now, at |-> now]]
  /\ UNCHANGED <<clock, cache, last_copy, buy, exit, copies, exits>>

FetchAnswered(t) ==
  /\ lookup[t].pc = "fetching"
  /\ cache' = [px |-> lookup[t].px, when |-> now, asof |-> lookup[t].asof]
  /\ lookup' = [lookup EXCEPT ![t].pc = "done", ![t].at = now]
  /\ UNCHANGED <<clock, last_copy, buy, exit, copies, exits>>

\* Mutant: an unreadable price is stored as one that has expired already.
FetchUnreadableExpired(t) ==
  /\ lookup[t].pc = "fetching"
  /\ cache' = [px |-> 0, when |-> now - Ttl, asof |-> lookup[t].asof]
  /\ lookup' = [lookup EXCEPT ![t].pc = "done", ![t].px = 0, ![t].at = now]
  /\ UNCHANGED <<clock, last_copy, buy, exit, copies, exits>>

\* An outAmount that does not parse reads as 0 (executor.rs:72), and stays in
\* the cache like any other price.
FetchUnreadable(t) ==
  /\ lookup[t].pc = "fetching"
  /\ cache' = [px |-> 0, when |-> now, asof |-> lookup[t].asof]
  /\ lookup' = [lookup EXCEPT ![t].pc = "done", ![t].px = 0, ![t].at = now]
  /\ UNCHANGED <<clock, last_copy, buy, exit, copies, exits>>

\* Mutant: the last price known stands in for one that cannot be fetched.
FetchFailsToCache(t) ==
  /\ lookup[t].pc = "fetching"
  /\ lookup' = [lookup EXCEPT ![t] =
       IF cache = None THEN [@ EXCEPT !.pc = "done", !.px = 0, !.at = now]
       ELSE [pc |-> "done", px |-> cache.px, asof |-> cache.asof, at |-> now]]
  /\ UNCHANGED <<clock, cache, last_copy, buy, exit, copies, exits>>

\* unwrap_or(0.0): the caller is not told.
FetchFails(t) ==
  /\ lookup[t].pc = "fetching"
  /\ lookup' = [lookup EXCEPT ![t].pc = "done", ![t].px = 0, ![t].at = now]
  /\ UNCHANGED <<clock, cache, last_copy, buy, exit, copies, exits>>

-----------------------------------------------------------------------------
(* A copy buy.                                                             *)

\* The target pays amount of a quote mint for a token whose mint has, or has
\* not, an authority left.
OnTargetBuy(mint, amount, mode, authority) ==
  /\ buy.pc = "idle" /\ Len(copies) < MaxCopies
  /\ ~InCooldown
  /\ buy' = [IdleBuy EXCEPT !.pc = "estimate", !.mint = mint, !.amount = amount,
               !.mode = mode, !.authority = authority, !.started = now]
  /\ Asked("engine", mint)
  /\ UNCHANGED <<clock, cache, last_copy, exit, copies, exits>>

TargetUsd == Usd(buy.mint, buy.amount, buy.target)

\* Mutant: a trade of unknown value is let through.
GateMinTradeIfPriced ==
  /\ buy.pc = "estimate" /\ lookup["engine"].pc = "done"
  /\ LET usd == Usd(buy.mint, buy.amount, lookup["engine"]) IN
       buy' = IF usd > 0 /\ usd < MinTargetUsd THEN IdleBuy
              ELSE [buy EXCEPT !.pc = "check", !.target = lookup["engine"]]
  /\ lookup' = [lookup EXCEPT !["engine"] = NoLookup]
  /\ UNCHANGED <<clock, cache, last_copy, exit, copies, exits>>

\* min_target_trade_usd
GateMinTrade ==
  /\ buy.pc = "estimate" /\ lookup["engine"].pc = "done"
  /\ buy' = IF Usd(buy.mint, buy.amount, lookup["engine"]) < MinTargetUsd THEN IdleBuy
            ELSE [buy EXCEPT !.pc = "check", !.target = lookup["engine"]]
  /\ lookup' = [lookup EXCEPT !["engine"] = NoLookup]
  /\ UNCHANGED <<clock, cache, last_copy, exit, copies, exits>>

\* MintAccountInfo names its fields mint_authority and freeze_authority; the
\* answer of getAccountInfo(jsonParsed) says mintAuthority: serde reads a
\* missing Option as None.
DecodedAuthority(authority) == FALSE

\* pre_buy_check.  fetched: the mint account could be read (if not, allow).
\* A probe quote that fails rejects like one that brings nothing.
PreBuyCheck(fetched, buy_out, sell_out) ==
  /\ ~(RequireAuthorityNull /\ fetched /\ DecodedAuthority(buy.authority))
  /\ ~R!HoneypotRejects(buy_out, sell_out, MaxRoundtripBps)

\* The risk checks, then the size; a size of 0 is rejected.  From here on
\* buy.authority says what the mint account that was read said.
CheckAndSize(fetched, buy_out, sell_out) ==
  /\ buy.pc = "check"
  /\ buy_out = 0 => sell_out = 0
  /\ LET sol == IF buy.mint = "WSOL" THEN SizingValue ELSE SizingValue * Px(now)
         size == R!SizeCopy(buy.mode, SizingValue, buy.amount, TargetUsd, sol)
     IN IF PreBuyCheck(fetched, buy_out, sell_out) /\ size > 0
          THEN /\ buy' = [buy EXCEPT !.pc = "estimate_copy", !.size = size,
                                    !.authority = @ /\ fetched]
               /\ Asked("engine", buy.mint)
          ELSE buy' = IdleBuy /\ UNCHANGED lookup
  /\ UNCHANGED <<clock, cache, last_copy, exit, copies, exits>>

\* Mutant: the cap is compared with the price of the first estimate.
GateCapAtTargetPrice ==
  /\ buy.pc = "estimate_copy" /\ lookup["engine"].pc = "done"
  /\ buy' = IF Usd(buy.mint, buy.size, buy.target) > MaxPositionUsd THEN IdleBuy
            ELSE [buy EXCEPT !.pc = "copy_buy", !.mark = lookup["engine"]]
  /\ lookup' = [lookup EXCEPT !["engine"] = NoLookup]
  /\ UNCHANGED <<clock, cache, last_copy, exit, copies, exits>>

\* max_position_usd
GateCap ==
  /\ buy.pc = "estimate_copy" /\ lookup["engine"].pc = "done"
  /\ buy' = IF Usd(buy.mint, buy.size, lookup["engine"]) > MaxPositionUsd THEN IdleBuy
            ELSE [buy EXCEPT !.pc = "copy_buy", !.mark = lookup["engine"]]
  /\ lookup' = [lookup EXCEPT !["engine"] = NoLookup]
  /\ UNCHANGED <<clock, cache, last_copy, exit, copies, exits>>

Bought(answered) ==
  [mint |-> buy.mint, amount |-> buy.amount, size |-> buy.size, authority |-> buy.authority,
   target |-> buy.target, mark |-> buy.mark, entry_usd |-> Usd(buy.mint, buy.size, buy.mark),
   started |-> buy.started, acked |-> IF answered THEN now ELSE None, open |-> answered]

\* Mutant: the cooldown runs from the start of the handler.
CopyBuyMarksStart(answered) ==
  /\ buy.pc = "copy_buy"
  /\ copies' = Append(copies, Bought(answered))
  /\ last_copy' = IF answered THEN buy.started ELSE last_copy
  /\ buy' = IdleBuy
  /\ UNCHANGED <<clock, prices, exit, exits>>

\* copy_buy returns, some time after the gate.  answered: it returns Ok, and
\* only then is the wallet marked and the position recorded.
CopyBuy(answered) ==
  /\ buy.pc = "copy_buy"
  /\ copies' = Append(copies, Bought(answered))
  /\ last_copy' = IF answered THEN now ELSE last_copy
  /\ buy' = IdleBuy
  /\ UNCHANGED <<clock, prices, exit, exits>>

-----------------------------------------------------------------------------
(* A TP/SL look at one open lot.                                           *)

\* The quote of selling the whole lot.
Mark(lot, out) ==
  /\ exit.pc = "idle" /\ copies[lot].open /\ Len(exits) < MaxExits
  /\ TakeProfit > 0 \/ StopLoss > 0
  /\ exit' = [pc |-> "estimate", lot |-> lot, out |-> out]
  /\ Asked("tp_sl", copies[lot].mint)
  /\ UNCHANGED <<clock, cache, last_copy, buy, copies, exits>>

\* Mutant: the lot is marked with the price of its entry.
ExitUsdAtEntryPrice == Usd(copies[exit.lot].mint, exit.out, copies[exit.lot].mark)

ExitUsd == Usd(copies[exit.lot].mint, exit.out, lookup["tp_sl"])
EntryUsd == copies[exit.lot].entry_usd

ExitReasons ==
  {r \in {"tp", "sl"} : EntryUsd > 0 /\
     \/ r = "tp" /\ R!TakesProfit(TakeProfit, EntryUsd, ExitUsd)
     \/ r = "sl" /\ R!StopsLoss(StopLoss, EntryUsd, ExitUsd)}

\* Sell if a level is reached; if none is, or copy_sell fails, the lot is left
\* to the next pass.
Decide ==
  /\ exit.pc = "estimate" /\ lookup["tp_sl"].pc = "done"
  /\ \/ UNCHANGED <<copies, exits>>
     \/ /\ \E r \in ExitReasons :
             exits' = Append(exits, [lot |-> exit.lot, out |-> exit.out,
                                     mark |-> lookup["tp_sl"], reason |-> r])
        /\ copies' = [copies EXCEPT ![exit.lot].open = FALSE]
  /\ exit' = IdleExit
  /\ lookup' = [lookup EXCEPT !["tp_sl"] = NoLookup]
  /\ UNCHANGED <<clock, cache, last_copy, buy>>

-----------------------------------------------------------------------------

Next ==
  \/ Tick
  \/ \E t \in Tasks : CacheHit(t) \/ Fetch(t) \/ FetchAnswered(t)
                       \/ FetchUnreadable(t) \/ FetchFails(t)
  \/ \E mint \in QuoteMints, amount \in Amounts, mode \in Modes, authority \in BOOLEAN :
       OnTargetBuy(mint, amount, mode, authority)
  \/ GateMinTrade
  \/ \E fetched \in BOOLEAN, buy_out, sell_out \in ProbeOuts :
       CheckAndSize(fetched, buy_out, sell_out)
  \/ GateCap
  \/ \E answered \in BOOLEAN : CopyBuy(answered)
  \/ \E lot \in DOMAIN copies, out \in Outs : Mark(lot, out)
  \/ Decide

Spec == Init /\ [][Next]_vars

-----------------------------------------------------------------------------
(* Properties.                                                             *)

TypeOK ==
  /\ now \in 0..MaxTime /\ market \in Seq(Prices) /\ Len(market) = now + 1
  /\ cache \in [px: Prices \union {0}, when: Nat, asof: Nat] \union {None}
  /\ lookup \in [Tasks -> Lookup] /\ last_copy \in Nat \union {None}
  /\ buy \in BuyTask /\ exit \in ExitTask
  /\ copies \in Seq(Copy) /\ exits \in Seq(Exit)

\* A price that is handed out is one the market had within the lifetime of
\* the cache and one request timeout, even when the two tasks fetch at once
\* and overwrite each other's answer (executor.rs:404-416).
PriceAgeBounded ==
  \A t \in Tasks : lookup[t].pc = "done" /\ lookup[t].px > 0 =>
    lookup[t].px = Px(lookup[t].asof) /\ lookup[t].at <= lookup[t].asof + Ttl + Timeout

\* What an amount was worth within that time before a lookup ended.
Worth(mint, amount, l) ==
  IF mint = "USDC" THEN {amount}
    ELSE {amount * Px(t) : t \in {u \in 0..l.at : u + Ttl + Timeout >= l.at}}

\* A copy whose price was known cost, at a recent price, no more than the cap
\* of its wallet, however long the risk checks before it took.
CapHoldsWhenPriced ==
  \A i \in DOMAIN copies : copies[i].entry_usd > 0 =>
    \E v \in Worth(copies[i].mint, copies[i].size, copies[i].mark) : v <= MaxPositionUsd

\* No dust trade is copied: what the target paid was worth the minimum at a
\* recent price.  A missing price never lets a trade through this gate.
MinTradeHolds ==
  \A i \in DOMAIN copies :
    \E v \in Worth(copies[i].mint, copies[i].amount, copies[i].target) : v >= MinTargetUsd

\* The handling of a copied buy starts at least one cooldown after the last
\* acknowledged copy of the wallet.
CooldownSpacing ==
  \A i, j \in DOMAIN copies : i < j /\ copies[i].acked # None =>
    copies[j].started >= copies[i].acked + Cooldown

\* A lot that is sold for its profit brought that profit at a recent price:
\* neither a missing price nor an old one takes profit.
TakeProfitIsReal ==
  \A i \in DOMAIN exits : exits[i].reason = "tp" =>
    LET c == copies[exits[i].lot] IN
    \E v \in Worth(c.mint, exits[i].out, exits[i].mark) :
      R!TakesProfit(TakeProfit, c.entry_usd, v)

-----------------------------------------------------------------------------
(* What the documentation says and the code does not do.                   *)

\* README.md:126: a mint with an authority left is rejected.
AuthorityRejected ==
  \A i \in DOMAIN copies : RequireAuthorityNull => ~copies[i].authority

\* engine.rs:9: TP/SL fires on live price snapshots.
StopLossOnLivePrice ==
  \A i \in DOMAIN exits : exits[i].reason = "sl" =>
    LET c == copies[exits[i].lot] IN
    \E v \in Worth(c.mint, exits[i].out, exits[i].mark) :
      R!StopsLoss(StopLoss, c.entry_usd, v)

=============================================================================
