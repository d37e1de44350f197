------------------------- MODULE PriceGatesProofs --------------------------
(***************************************************************************)
(* Prices and gates for every market, every timing and every constant: the *)
(* prices the two tasks read through one cache are recent, and the gates   *)
(* of a copy buy and the take-profit decision hold at such a price.        *)
(*                                                                         *)
(* The argument: a price carries the tick it was quoted at.  A request on  *)
(* its way is no older than its timeout (OnItsWay), so what the cache      *)
(* stores was quoted at most a timeout before (Stored), so what a lookup   *)
(* returns was quoted at most Ttl + Timeout before (HandedOut).  The buy,  *)
(* the copies and the sales keep the lookups that decided about them.      *)
(***************************************************************************)
EXTENDS PriceGates, SequenceTheorems, TLAPS

-----------------------------------------------------------------------------
(* The inductive invariant.                                                *)

\* A price that was handed out is 0 or the price the market had at its tick,
\* and that tick is recent (executor.rs:384-416).
HandedOut(l) ==
  /\ l.at <= now
  /\ l.px > 0 => /\ l.px = Px(l.asof)
                 /\ l.asof <= l.at /\ l.at <= l.asof + Ttl + Timeout

\* A request on its way is no older than its timeout.
OnItsWay(l) ==
  l.px = Px(l.asof) /\ l.asof <= now /\ now <= l.asof + Timeout

\* Each task's call of estimate_input_usd.
SoundLookup(l) ==
  /\ l.pc = "fetching" => OnItsWay(l)
  /\ l.pc = "done" => HandedOut(l)
LookupInv == \A t \in Tasks : SoundLookup(lookup[t])

\* What usd_cache holds was quoted at most one timeout before it was stored.
Stored(c) ==
  /\ c.when <= now
  /\ c.px > 0 => /\ c.px = Px(c.asof)
                 /\ c.asof <= c.when /\ c.when <= c.asof + Timeout
CacheInv == cache # None => Stored(cache)

\* The target's trade, once it passed min_target_trade_usd, and the copy, once it
\* passed max_position_usd.
BigEnough(mint, amount, l) == HandedOut(l) /\ Usd(mint, amount, l) >= MinTargetUsd

SoundBuy(b) ==
  /\ b.pc \in {"check", "estimate_copy", "copy_buy"} => BigEnough(b.mint, b.amount, b.target)
  /\ b.pc = "copy_buy" => HandedOut(b.mark) /\ Usd(b.mint, b.size, b.mark) <= MaxPositionUsd
BuyInv == SoundBuy(buy)

\* What was known of a copy when it went on the wire.
CopyInv(c) ==
  /\ BigEnough(c.mint, c.amount, c.target)
  /\ HandedOut(c.mark)
  /\ c.entry_usd = Usd(c.mint, c.size, c.mark) /\ c.entry_usd <= MaxPositionUsd

\* What was known of a sale.
ExitInv(e) ==
  /\ e.lot \in DOMAIN copies /\ HandedOut(e.mark)
  /\ e.reason = "tp" =>
       /\ copies[e.lot].entry_usd > 0
       /\ R!TakesProfit(TakeProfit, copies[e.lot].entry_usd,
                        Usd(copies[e.lot].mint, e.out, e.mark))

\* A buy that is being handled started a cooldown or more after the last mark.
PacedBuy(b) == b.pc # "idle" /\ last_copy # None => b.started >= last_copy + Cooldown

\* The wallet's mark is its last acknowledged copy, or later.
CooldownInv ==
  /\ last_copy # None => last_copy <= now
  /\ \A i \in DOMAIN copies :
       copies[i].acked # None => last_copy # None /\ copies[i].acked <= last_copy
  /\ PacedBuy(buy)

\* The copies and sales on the wire, and the lot the TP/SL task looks at.
CopiesInv == \A i \in DOMAIN copies : CopyInv(copies[i])
ExitsInv ==
  /\ \A i \in DOMAIN exits : ExitInv(exits[i])
  /\ exit.pc # "idle" => exit.lot \in DOMAIN copies

PricesInv == TypeOK /\ LookupInv /\ CacheInv /\ BuyInv /\ CopiesInv /\ ExitsInv
GatesInv == PricesInv /\ CooldownInv /\ CooldownSpacing

-----------------------------------------------------------------------------
(* Facts about the operators.                                              *)

\* What an integer quotient is.
LEMMA QuotientIsNat ==
  ASSUME NEW a \in Nat, NEW b \in Nat \ {0}
  PROVE  a \div b \in Nat
BY Z3

\* The sizer answers with a whole amount (risk.rs:134-173).
LEMMA SizeIsNat ==
  ASSUME NEW mode \in R!SizingMode, NEW value \in Nat, NEW amount \in Nat,
         NEW usd \in Nat, NEW sol \in Nat
  PROVE  R!SizeCopy(mode, value, amount, usd, sol) \in Nat
<1> DEFINE va == value * amount
<1>1. va \in Nat
  OBVIOUS
<1> HIDE DEF va
<1>2. va \div 100 \in Nat
  BY <1>1, QuotientIsNat
<1>3. usd # 0 => va \div usd \in Nat
  BY <1>1, QuotientIsNat
<1> QED BY <1>2, <1>3 DEF R!SizeCopy, R!SizingMode, va

\* The fields of a lookup.
LEMMA LookupFields ==
  ASSUME NEW l \in Lookup
  PROVE  l.px \in Nat /\ l.asof \in Nat /\ l.at \in Nat
BY DEF Lookup

\* The constants are what GatesAssumption says they are.
LEMMA Bounds ==
  /\ Ttl \in Nat /\ Timeout \in Nat /\ Cooldown \in Nat /\ MinTargetUsd \in Nat
  /\ MaxPositionUsd \in Nat /\ SizingValue \in Nat /\ TakeProfit \in Nat
  /\ MaxTime \in Nat /\ None \notin Nat
BY GatesAssumption

\* An estimate is a whole number of dollars.
LEMMA UsdIsNat ==
  ASSUME NEW mint, NEW amount \in Nat, NEW l \in Lookup
  PROVE  Usd(mint, amount, l) \in Nat
BY LookupFields DEF Usd

\* The market had a price at every tick so far.
LEMMA PxIsPrice ==
  ASSUME TypeOK, NEW t \in Nat, t <= now
  PROVE  Px(t) \in Prices /\ Px(t) \in Nat /\ Px(t) > 0
<1>1. now \in Nat /\ market \in Seq(Prices) /\ Len(market) = now + 1
  BY Bounds DEF TypeOK
<1>2. t + 1 \in DOMAIN market
  BY <1>1
<1>3. market[t + 1] \in Prices
  BY <1>1, <1>2
<1>4. \A p \in Prices : p \in Nat /\ p > 0
  <2>1. Prices \subseteq Nat \ {0}
    BY GatesAssumption
  <2> QED BY <2>1
<1> QED BY <1>3, <1>4 DEF Px

-----------------------------------------------------------------------------
(* What a step does to the clock: nothing, or one tick.                    *)

Ticks == now' = now + 1 /\ \E p \in Prices : market' = Append(market, p)
ClockStep == UNCHANGED clock \/ Ticks

\* The prices of the past do not change.
LEMMA PxKept ==
  ASSUME TypeOK, ClockStep, NEW t \in Nat, t <= now
  PROVE  Px(t)' = Px(t)
<1>1. now \in Nat /\ market \in Seq(Prices) /\ Len(market) = now + 1
  BY Bounds DEF TypeOK
<1>2. CASE UNCHANGED clock
  BY <1>2 DEF clock, Px
<1>3. CASE Ticks
  <2>1. PICK p \in Prices : market' = Append(market, p)
    BY <1>3 DEF Ticks
  <2>2. t + 1 \in 1..Len(market)
    BY <1>1
  <2>3. market'[t + 1] = market[t + 1]
    BY <1>1, <2>1, <2>2
  <2> QED BY <2>3 DEF Px
<1> QED BY <1>2, <1>3 DEF ClockStep

\* A price that was handed out stays one.
LEMMA HandedOutKept ==
  ASSUME TypeOK, ClockStep, NEW l \in Lookup, HandedOut(l)
  PROVE  HandedOut(l)'
<1>1. now \in Nat /\ (now' = now \/ now' = now + 1)
  BY Bounds DEF TypeOK, ClockStep, Ticks, clock
<1>2. l.px \in Nat /\ l.asof \in Nat /\ l.at \in Nat
  BY LookupFields
<1>3. l.at <= now
  BY DEF HandedOut
<1>4. l.at <= now'
  BY <1>1, <1>2, <1>3
<1>5. SUFFICES ASSUME l.px > 0
               PROVE  l.px = Px(l.asof)' /\ l.asof <= l.at
                      /\ l.at <= l.asof + Ttl + Timeout
  BY <1>4 DEF HandedOut
<1>6. l.px = Px(l.asof) /\ l.asof <= l.at /\ l.at <= l.asof + Ttl + Timeout
  BY <1>5 DEF HandedOut
<1>7. l.asof <= now
  BY <1>1, <1>2, <1>3, <1>6
<1>8. Px(l.asof)' = Px(l.asof)
  BY <1>2, <1>7, PxKept
<1> QED BY <1>6, <1>8

\* So does a trade that was big enough.
LEMMA BigEnoughKept ==
  ASSUME TypeOK, ClockStep, NEW mint, NEW amount, NEW l \in Lookup,
         BigEnough(mint, amount, l)
  PROVE  BigEnough(mint, amount, l)'
<1>1. HandedOut(l)'
  BY HandedOutKept DEF BigEnough
<1> QED BY <1>1 DEF BigEnough, Usd

\* And a copy on the wire, whatever becomes of its lot.
LEMMA CopyInvKept ==
  ASSUME TypeOK, ClockStep, NEW c \in Copy, CopyInv(c)
  PROVE  CopyInv(c)'
<1>1. c.target \in Lookup /\ c.mark \in Lookup
  BY DEF Copy
<1>2. BigEnough(c.mint, c.amount, c.target)'
  BY <1>1, BigEnoughKept DEF CopyInv
<1>3. HandedOut(c.mark)'
  BY <1>1, HandedOutKept DEF CopyInv
<1> QED BY <1>2, <1>3 DEF CopyInv, Usd

-----------------------------------------------------------------------------
(* What a step does to the lookups and to the cache.                       *)

Quote == [px: Prices \union {0}, when: Nat, asof: Nat]

\* One lookup moves on, to one that is sound.
LookupStep ==
  \/ lookup' = lookup
  \/ \E t \in Tasks, v \in Lookup : SoundLookup(v) /\ lookup' = [lookup EXCEPT ![t] = v]

\* The cache keeps its price or gets a sound one.
CacheStep == cache' = cache \/ \E q \in Quote : Stored(q) /\ cache' = q

\* The shape of the state the prices live in.
LEMMA PriceTypes ==
  ASSUME TypeOK
  PROVE  /\ now \in Nat /\ lookup \in [Tasks -> Lookup]
         /\ cache # None => cache \in Quote
         /\ \A q \in Quote : q.px \in Nat /\ q.when \in Nat /\ q.asof \in Nat
<1>1. \A p \in Prices \union {0} : p \in Nat
  BY GatesAssumption
<1> QED BY <1>1, Bounds DEF TypeOK, Quote

\* A call of estimate_input_usd starts: USDC is worth a dollar, SOL is asked for.
LEMMA AskedSteps ==
  ASSUME TypeOK, NEW t \in Tasks, NEW mint, Asked(t, mint)
  PROVE  LookupStep
<1>1. now \in Nat
  BY PriceTypes
<1> DEFINE v == IF mint = "USDC"
                  THEN [NoLookup EXCEPT !.pc = "done", !.asof = now, !.at = now]
                  ELSE [NoLookup EXCEPT !.pc = "asked"]
<1>2. v \in Lookup /\ v.pc # "fetching" /\ v.px = 0 /\ v.at <= now
  <2>1. 0 <= now /\ now <= now
    BY <1>1
  <2>2. CASE mint = "USDC"
    <3>1. v = [pc |-> "done", px |-> 0, asof |-> now, at |-> now]
      BY <2>2 DEF NoLookup
    <3> HIDE DEF v
    <3> QED BY <1>1, <2>1, <3>1 DEF Lookup
  <2>3. CASE mint # "USDC"
    <3>1. v = [pc |-> "asked", px |-> 0, asof |-> 0, at |-> 0]
      BY <2>3 DEF NoLookup
    <3> HIDE DEF v
    <3> QED BY <1>1, <2>1, <3>1 DEF Lookup
  <2> QED BY <2>2, <2>3
<1>3. lookup' = [lookup EXCEPT ![t] = v]
  BY DEF Asked
<1> HIDE DEF v
<1>4. SoundLookup(v)
  BY <1>2 DEF SoundLookup, HandedOut
<1> QED BY <1>2, <1>3, <1>4 DEF LookupStep

\* A lookup is used up.
LEMMA LookupTaken ==
  ASSUME TypeOK, NEW t \in Tasks, lookup' = [lookup EXCEPT ![t] = NoLookup]
  PROVE  LookupStep
<1>1. NoLookup \in Lookup /\ SoundLookup(NoLookup)
  BY DEF NoLookup, Lookup, SoundLookup
<1> QED BY <1>1 DEF LookupStep

\* A fresh cached price is recent enough (executor.rs:405-409).
LEMMA CacheHitSteps ==
  ASSUME TypeOK, CacheInv, NEW t \in Tasks, CacheHit(t)
  PROVE  LookupStep /\ cache' = cache
<1> DEFINE v == [pc |-> "done", px |-> cache.px, asof |-> cache.asof, at |-> now]
<1>1. cache # None /\ now - cache.when < Ttl
  BY DEF CacheHit, Fresh
<1>2. /\ now \in Nat /\ cache.px \in Nat /\ cache.when \in Nat /\ cache.asof \in Nat
      /\ Stored(cache)
  BY <1>1, PriceTypes DEF CacheInv
<1>3. v \in Lookup /\ v.pc = "done"
  BY <1>2 DEF Lookup
<1>4. HandedOut(v)
  <2>1. now <= now
    BY <1>2
  <2>2. ASSUME cache.px > 0
        PROVE  cache.px = Px(cache.asof) /\ cache.asof <= now
               /\ now <= cache.asof + Ttl + Timeout
    <3>1. /\ cache.px = Px(cache.asof) /\ cache.when <= now
          /\ cache.asof <= cache.when /\ cache.when <= cache.asof + Timeout
      BY <1>2, <2>2 DEF Stored
    <3> QED BY <1>1, <1>2, <3>1, Bounds
  <2> QED BY <2>1, <2>2 DEF HandedOut
<1>5. lookup' = [lookup EXCEPT ![t] = v] /\ cache' = cache
  BY DEF CacheHit
<1> HIDE DEF v
<1>6. SoundLookup(v)
  BY <1>3, <1>4 DEF SoundLookup
<1> QED BY <1>3, <1>5, <1>6 DEF LookupStep

\* A quote is asked for at the price of its tick.
LEMMA FetchSteps ==
  ASSUME TypeOK, NEW t \in Tasks, Fetch(t)
  PROVE  LookupStep /\ cache' = cache
<1> DEFINE v == [pc |-> "fetching", px |-> Px(now), asof |-> now, at |-> now]
<1>1. now \in Nat
  BY PriceTypes
<1>2. Px(now) \in Nat /\ now <= now + Timeout /\ now <= now
  BY <1>1, PxIsPrice, Bounds
<1>3. v \in Lookup /\ v.pc = "fetching"
  BY <1>1, <1>2 DEF Lookup
<1>4. OnItsWay(v)
  BY <1>2 DEF OnItsWay
<1>5. lookup' = [lookup EXCEPT ![t] = v] /\ cache' = cache
  BY DEF Fetch
<1> HIDE DEF v
<1>6. SoundLookup(v)
  BY <1>3, <1>4 DEF SoundLookup
<1> QED BY <1>3, <1>5, <1>6 DEF LookupStep

\* The answer of a quote is handed out and stored as it came
\* (executor.rs:410-415).
LEMMA FetchAnsweredSteps ==
  ASSUME TypeOK, LookupInv, NEW t \in Tasks, FetchAnswered(t)
  PROVE  LookupStep /\ CacheStep
<1> DEFINE l == lookup[t]
           v == [l EXCEPT !.pc = "done", !.at = now]
           q == [px |-> l.px, when |-> now, asof |-> l.asof]
<1>1. now \in Nat /\ l \in Lookup /\ l.px \in Nat /\ l.asof \in Nat
  BY PriceTypes, LookupFields
<1>2. OnItsWay(l)
  BY DEF FetchAnswered, LookupInv, SoundLookup
<1>3. l.px = Px(l.asof) /\ l.asof <= now /\ now <= l.asof + Timeout
  BY <1>2 DEF OnItsWay
<1>4. now <= now /\ now <= l.asof + Ttl + Timeout
  BY <1>1, <1>3, Bounds
<1>5. v \in Lookup /\ v.pc = "done" /\ v.px = l.px /\ v.asof = l.asof /\ v.at = now
  BY <1>1 DEF Lookup
<1>6. lookup' = [lookup EXCEPT ![t] = v] /\ cache' = q
  BY PriceTypes DEF FetchAnswered, Lookup
<1>7. l.px \in Prices
  BY <1>1, <1>3, PxIsPrice
<1>8. q \in Quote /\ q.px = l.px /\ q.asof = l.asof /\ q.when = now
  BY <1>1, <1>7 DEF Quote
<1> HIDE DEF l, v, q
<1>9. SoundLookup(v)
  BY <1>3, <1>4, <1>5 DEF SoundLookup, HandedOut
<1>10. Stored(q)
  BY <1>3, <1>4, <1>8 DEF Stored
<1> QED BY <1>5, <1>6, <1>8, <1>9, <1>10 DEF LookupStep, CacheStep

\* An answer that cannot be read is a price of 0, which stays in the cache
\* (executor.rs:72).
LEMMA FetchUnreadableSteps ==
  ASSUME TypeOK, NEW t \in Tasks, FetchUnreadable(t)
  PROVE  LookupStep /\ CacheStep
<1> DEFINE l == lookup[t]
           v == [l EXCEPT !.pc = "done", !.px = 0, !.at = now]
           q == [px |-> 0, when |-> now, asof |-> l.asof]
<1>1. now \in Nat /\ l \in Lookup /\ l.asof \in Nat /\ now <= now
  BY PriceTypes, LookupFields
<1>2. v \in Lookup /\ v.pc = "done" /\ v.px = 0 /\ v.at = now
  BY <1>1 DEF Lookup
<1>3. lookup' = [lookup EXCEPT ![t] = v] /\ cache' = q
  BY PriceTypes DEF FetchUnreadable, Lookup
<1>4. q \in Quote /\ q.px = 0 /\ q.when = now
  BY <1>1 DEF Quote
<1> HIDE DEF l, v, q
<1>5. SoundLookup(v) /\ Stored(q)
  BY <1>1, <1>2, <1>4 DEF SoundLookup, HandedOut, Stored
<1> QED BY <1>2, <1>3, <1>4, <1>5 DEF LookupStep, CacheStep

\* A quote that fails is a price of 0 (executor.rs:388).
LEMMA FetchFailsSteps ==
  ASSUME TypeOK, NEW t \in Tasks, FetchFails(t)
  PROVE  LookupStep /\ cache' = cache
<1> DEFINE l == lookup[t]
           v == [l EXCEPT !.pc = "done", !.px = 0, !.at = now]
<1>1. now \in Nat /\ l \in Lookup /\ now <= now
  BY PriceTypes
<1>2. v \in Lookup /\ v.pc = "done" /\ v.px = 0 /\ v.at = now
  BY <1>1 DEF Lookup
<1>3. lookup' = [lookup EXCEPT ![t] = v] /\ cache' = cache
  BY PriceTypes DEF FetchFails, Lookup
<1> HIDE DEF l, v
<1>4. SoundLookup(v)
  BY <1>1, <1>2 DEF SoundLookup, HandedOut
<1> QED BY <1>2, <1>3, <1>4 DEF LookupStep

-----------------------------------------------------------------------------
(* The prices, step by step.                                               *)

\* The lookups are sound after any step that leaves the clock alone.
LEMMA LookupsStaySound ==
  ASSUME TypeOK, LookupInv, UNCHANGED clock, LookupStep
  PROVE  lookup' \in [Tasks -> Lookup] /\ LookupInv'
<1>1. /\ lookup \in [Tasks -> Lookup] /\ now' = now
      /\ \A l : SoundLookup(l)' <=> SoundLookup(l)
  BY PriceTypes DEF clock, SoundLookup, OnItsWay, HandedOut, Px
<1>2. CASE lookup' = lookup
  BY <1>1, <1>2 DEF LookupInv
<1>3. CASE \E t \in Tasks, v \in Lookup :
             SoundLookup(v) /\ lookup' = [lookup EXCEPT ![t] = v]
  <2>1. PICK t \in Tasks, v \in Lookup : SoundLookup(v) /\ lookup' = [lookup EXCEPT ![t] = v]
    BY <1>3
  <2>2. lookup' \in [Tasks -> Lookup]
    BY <1>1, <2>1
  <2>3. \A u \in Tasks : lookup'[u] = v \/ lookup'[u] = lookup[u]
    BY <1>1, <2>1
  <2>4. \A u \in Tasks : SoundLookup(lookup'[u])
    BY <2>1, <2>3 DEF LookupInv
  <2> QED BY <1>1, <2>2, <2>4 DEF LookupInv
<1> QED BY <1>2, <1>3 DEF LookupStep

\* So is the cache.
LEMMA CacheStaysSound ==
  ASSUME TypeOK, CacheInv, UNCHANGED clock, CacheStep
  PROVE  cache' \in Quote \union {None} /\ CacheInv'
<1>1. \A q : Stored(q)' <=> Stored(q)
  BY DEF clock, Stored, Px
<1>2. CASE cache' = cache
  <2>1. cache \in Quote \union {None}
    BY PriceTypes
  <2> QED BY <1>1, <1>2, <2>1 DEF CacheInv
<1>3. CASE \E q \in Quote : Stored(q) /\ cache' = q
  BY <1>1, <1>3 DEF CacheInv
<1> QED BY <1>2, <1>3 DEF CacheStep

\* A tick keeps every price that was handed out or stored; a request on its way
\* has an answer or an error before its timeout is over.
LEMMA TickSteps ==
  ASSUME TypeOK, LookupInv, CacheInv, Tick
  PROVE  /\ now' \in 0..MaxTime /\ market' \in Seq(Prices) /\ Len(market') = now' + 1
         /\ Ticks /\ LookupInv' /\ CacheInv'
<1>1. now \in Nat /\ market \in Seq(Prices) /\ Len(market) = now + 1 /\ MaxTime \in Nat
  BY Bounds DEF TypeOK
<1>2. now < MaxTime /\ now' = now + 1
  BY DEF Tick
<1>3. PICK p \in Prices : market' = Append(market, p)
  BY DEF Tick
<1>4. Ticks /\ ClockStep
  BY <1>2, <1>3 DEF Ticks, ClockStep
<1>5. now' \in 0..MaxTime /\ market' \in Seq(Prices) /\ Len(market') = now' + 1
  BY <1>1, <1>2, <1>3
<1>6. LookupInv'
  <2> SUFFICES ASSUME NEW t \in Tasks PROVE SoundLookup(lookup[t])'
    BY DEF LookupInv
  <2>1. PICK l \in Lookup : l = lookup[t]
    BY PriceTypes
  <2>2. l.asof \in Nat /\ l.px \in Nat
    BY LookupFields
  <2>3. SoundLookup(l) /\ lookup'[t] = l
    BY <2>1 DEF LookupInv, Tick, prices
  <2>4. ASSUME l.pc = "fetching" PROVE OnItsWay(l)'
    <3>1. l.px = Px(l.asof) /\ l.asof <= now
      BY <2>3, <2>4 DEF SoundLookup, OnItsWay
    <3>2. now < l.asof + Timeout
      BY <2>1, <2>4 DEF Tick
    <3>3. now + 1 <= l.asof + Timeout /\ l.asof <= now + 1
      BY <1>1, <2>2, <3>1, <3>2, Bounds
    <3>4. Px(l.asof)' = Px(l.asof)
      BY <1>4, <2>2, <3>1, PxKept
    <3> QED BY <1>2, <3>1, <3>3, <3>4 DEF OnItsWay
  <2>5. ASSUME l.pc = "done" PROVE HandedOut(l)'
    BY <1>4, <2>3, <2>5, HandedOutKept DEF SoundLookup
  <2> QED BY <2>3, <2>4, <2>5 DEF SoundLookup
<1>7. CacheInv'
  <2>1. cache' = cache
    BY DEF Tick, prices
  <2>2. SUFFICES ASSUME cache # None PROVE Stored(cache)'
    BY <2>1 DEF CacheInv
  <2>3. PICK q \in Quote : q = cache
    BY <2>2, PriceTypes
  <2>4. q.px \in Nat /\ q.when \in Nat /\ q.asof \in Nat /\ Stored(q)
    BY <2>2, <2>3, PriceTypes DEF CacheInv
  <2>5. q.when <= now + 1
    BY <1>1, <2>4 DEF Stored
  <2>6. ASSUME q.px > 0
        PROVE  q.px = Px(q.asof)' /\ q.asof <= q.when /\ q.when <= q.asof + Timeout
    <3>1. /\ q.px = Px(q.asof) /\ q.asof <= q.when /\ q.when <= q.asof + Timeout
          /\ q.when <= now
      BY <2>4, <2>6 DEF Stored
    <3>2. q.asof <= now
      BY <1>1, <2>4, <3>1
    <3>3. Px(q.asof)' = Px(q.asof)
      BY <1>4, <2>4, <3>2, PxKept
    <3> QED BY <3>1, <3>3
  <2>7. Stored(q)'
    BY <1>2, <2>5, <2>6 DEF Stored
  <2> QED BY <2>1, <2>3, <2>7
<1> QED BY <1>4, <1>5, <1>6, <1>7

-----------------------------------------------------------------------------
(* The copies and the sales on the wire.                                   *)

\* Every copy stays what it was, but for its lot being closed.
SameCopy(c, d) ==
  /\ d.mint = c.mint /\ d.amount = c.amount /\ d.size = c.size
  /\ d.target = c.target /\ d.mark = c.mark /\ d.entry_usd = c.entry_usd
  /\ d.started = c.started /\ d.acked = c.acked
CopiesKept == \A i \in DOMAIN copies : i \in DOMAIN copies' /\ SameCopy(copies[i], copies'[i])

\* The copies and sales of a state are typed sequences.
LEMMA WireTypes ==
  ASSUME TypeOK
  PROVE  /\ copies \in Seq(Copy) /\ exits \in Seq(Exit)
         /\ Len(copies) \in Nat /\ DOMAIN copies = 1..Len(copies)
         /\ Len(exits) \in Nat /\ DOMAIN exits = 1..Len(exits)
         /\ \A i \in DOMAIN copies : copies[i] \in Copy
         /\ \A i \in DOMAIN exits : exits[i] \in Exit
BY DEF TypeOK

\* A sale stays sound whatever is bought after it and whatever lot is closed.
LEMMA ExitInvKept ==
  ASSUME TypeOK, ClockStep, CopiesKept, NEW e \in Exit, ExitInv(e)
  PROVE  ExitInv(e)'
<1>1. e.mark \in Lookup
  BY DEF Exit
<1>2. HandedOut(e.mark)'
  BY <1>1, HandedOutKept DEF ExitInv
<1>3. /\ e.lot \in DOMAIN copies'
      /\ copies'[e.lot].mint = copies[e.lot].mint
      /\ copies'[e.lot].entry_usd = copies[e.lot].entry_usd
  BY DEF ExitInv, CopiesKept, SameCopy
<1>4. e.reason = "tp" =>
        /\ copies[e.lot].entry_usd > 0
        /\ R!TakesProfit(TakeProfit, copies[e.lot].entry_usd,
                         Usd(copies[e.lot].mint, e.out, e.mark))
  BY DEF ExitInv
<1>5. e.reason = "tp" =>
        /\ copies'[e.lot].entry_usd > 0
        /\ R!TakesProfit(TakeProfit, copies'[e.lot].entry_usd,
                         Usd(copies'[e.lot].mint, e.out, e.mark))
  BY <1>3, <1>4
<1> QED BY <1>2, <1>3, <1>5 DEF ExitInv, Usd, R!TakesProfit

\* A copy that is kept stays sound.
LEMMA SameCopySound ==
  ASSUME TypeOK, ClockStep, NEW c \in Copy, NEW d \in Copy, SameCopy(c, d), CopyInv(c)
  PROVE  CopyInv(d)'
<1>1. CopyInv(c)'
  BY CopyInvKept
<1> QED BY <1>1 DEF CopyInv, SameCopy

\* One more copy goes on the wire.
LEMMA CopyAppended ==
  ASSUME TypeOK, NEW c \in Copy, copies' = Append(copies, c)
  PROVE  /\ copies' \in Seq(Copy) /\ CopiesKept
         /\ DOMAIN copies' = DOMAIN copies \union {Len(copies) + 1}
         /\ \A i \in DOMAIN copies : copies'[i] = copies[i]
         /\ copies'[Len(copies) + 1] = c
<1>1. copies \in Seq(Copy) /\ Len(copies) \in Nat /\ DOMAIN copies = 1..Len(copies)
  BY WireTypes
<1>2. copies' \in Seq(Copy) /\ Len(copies') = Len(copies) + 1
  BY <1>1
<1>3. DOMAIN copies' = DOMAIN copies \union {Len(copies) + 1}
  BY <1>1, <1>2
<1>4. \A i \in DOMAIN copies : copies'[i] = copies[i]
  BY <1>1
<1>5. copies'[Len(copies) + 1] = c
  BY <1>1
<1>6. CopiesKept
  BY <1>3, <1>4 DEF CopiesKept, SameCopy
<1> QED BY <1>2, <1>3, <1>4, <1>5, <1>6

\* The lot of a copy is closed.
LEMMA CopyClosed ==
  ASSUME TypeOK, NEW lot \in DOMAIN copies, copies' = [copies EXCEPT ![lot].open = FALSE]
  PROVE  copies' \in Seq(Copy) /\ CopiesKept /\ DOMAIN copies' = DOMAIN copies
<1>1. /\ copies \in Seq(Copy) /\ Len(copies) \in Nat /\ DOMAIN copies = 1..Len(copies)
      /\ \A i \in DOMAIN copies : copies[i] \in Copy
  BY WireTypes
<1> DEFINE d == [copies[lot] EXCEPT !.open = FALSE]
<1>2. d \in Copy /\ SameCopy(copies[lot], d)
  BY <1>1 DEF Copy, SameCopy
<1>3. copies' = [copies EXCEPT ![lot] = d]
  OBVIOUS
<1> HIDE DEF d
<1>4. copies' \in Seq(Copy) /\ DOMAIN copies' = DOMAIN copies
  <2>1. lot \in 1..Len(copies)
    BY <1>1
  <2>2. copies' \in Seq(Copy) /\ Len(copies') = Len(copies)
    <3>1. /\ [copies EXCEPT ![lot] = d] \in Seq(Copy)
          /\ Len([copies EXCEPT ![lot] = d]) = Len(copies)
      BY <1>1, <1>2, <2>1, ExceptSeq
    <3> QED BY <1>3, <3>1
  <2> QED BY <1>1, <2>2
<1>5. \A i \in DOMAIN copies : (copies'[i] = d /\ i = lot) \/ copies'[i] = copies[i]
  BY <1>1, <1>3
<1>6. CopiesKept
  BY <1>2, <1>4, <1>5 DEF CopiesKept, SameCopy
<1> QED BY <1>4, <1>6

-----------------------------------------------------------------------------
(* What the handlers do.                                                   *)

\* The fields of a copy buy.
LEMMA BuyFields ==
  ASSUME NEW b \in BuyTask
  PROVE  /\ b.mint \in QuoteMints /\ b.amount \in Nat /\ b.mode \in R!SizingMode
         /\ b.authority \in BOOLEAN /\ b.target \in Lookup /\ b.size \in Nat
         /\ b.mark \in Lookup /\ b.started \in Nat
BY DEF BuyTask

\* An idle buy is sound whatever the prices and the wallet's mark.
LEMMA IdleBuySound ==
  IdleBuy \in BuyTask /\ SoundBuy(IdleBuy) /\ PacedBuy(IdleBuy)
BY DEF IdleBuy, BuyTask, NoLookup, Lookup, QuoteMints, R!SizingMode, SoundBuy, PacedBuy

\* The engine's buy moves on to one that is sound and paced.
BuyMoves == \E b \in BuyTask : buy' = b /\ SoundBuy(b) /\ PacedBuy(b)

\* A buy starts outside the cooldown (engine.rs:157-160).
LEMMA OnTargetBuySteps ==
  ASSUME TypeOK, NEW mint \in QuoteMints, NEW amount \in Amounts, NEW mode \in Modes,
         NEW authority \in BOOLEAN, OnTargetBuy(mint, amount, mode, authority)
  PROVE  LookupStep /\ BuyMoves
<1> DEFINE b == [IdleBuy EXCEPT !.pc = "estimate", !.mint = mint, !.amount = amount,
                   !.mode = mode, !.authority = authority, !.started = now]
<1>1. now \in Nat /\ amount \in Nat /\ mode \in R!SizingMode
  BY PriceTypes, GatesAssumption
<1>2. b \in BuyTask /\ b.pc = "estimate" /\ b.started = now
  BY <1>1, IdleBuySound DEF BuyTask, IdleBuy
<1>3. buy' = b /\ Asked("engine", mint) /\ ~InCooldown
  BY DEF OnTargetBuy
<1> HIDE DEF b
<1>4. ASSUME last_copy # None PROVE now >= last_copy + Cooldown
  <2>1. last_copy \in Nat
    BY <1>4 DEF TypeOK
  <2> QED BY <1>1, <1>3, <1>4, <2>1, Bounds DEF InCooldown
<1>5. SoundBuy(b) /\ PacedBuy(b)
  BY <1>2, <1>4 DEF SoundBuy, PacedBuy
<1>6. LookupStep
  BY <1>3, AskedSteps DEF Tasks
<1> QED BY <1>2, <1>3, <1>5, <1>6 DEF BuyMoves

\* min_target_trade_usd lets through what was worth the minimum
\* (engine.rs:167-176).
LEMMA GateMinTradeSteps ==
  ASSUME TypeOK, LookupInv, PacedBuy(buy), GateMinTrade
  PROVE  LookupStep /\ BuyMoves
<1> DEFINE l == lookup["engine"]
           b == [buy EXCEPT !.pc = "check", !.target = l]
<1>1. buy \in BuyTask /\ l \in Lookup
  BY DEF TypeOK, Tasks
<1>2. LookupStep
  BY LookupTaken DEF GateMinTrade, Tasks
<1>3. CASE buy' = IdleBuy
  BY <1>2, <1>3, IdleBuySound DEF BuyMoves
<1>4. CASE ~(Usd(buy.mint, buy.amount, l) < MinTargetUsd) /\ buy' = b
  <2>1. /\ b \in BuyTask /\ b.pc = "check" /\ b.mint = buy.mint /\ b.amount = buy.amount
        /\ b.target = l /\ b.started = buy.started
    BY <1>1 DEF BuyTask
  <2>2. buy.pc = "estimate" /\ l.pc = "done" /\ buy.amount \in Nat
    BY <1>1, BuyFields DEF GateMinTrade
  <2>3. Usd(buy.mint, buy.amount, l) \in Nat
    BY <1>1, <2>2, UsdIsNat
  <2>4. Usd(buy.mint, buy.amount, l) >= MinTargetUsd
    BY <1>4, <2>3, Bounds
  <2>5. HandedOut(l)
    BY <2>2 DEF LookupInv, SoundLookup, Tasks
  <2> HIDE DEF b, l
  <2>6. SoundBuy(b) /\ PacedBuy(b)
    BY <2>1, <2>2, <2>4, <2>5 DEF SoundBuy, PacedBuy, BigEnough
  <2> QED BY <1>2, <1>4, <2>1, <2>6 DEF BuyMoves
<1> QED BY <1>3, <1>4 DEF GateMinTrade

\* The risk checks and the sizer keep what the target's trade was worth
\* (engine.rs:179-196).
LEMMA CheckAndSizeSteps ==
  ASSUME TypeOK, BuyInv, PacedBuy(buy), NEW fetched \in BOOLEAN, NEW buy_out,
         NEW sell_out, CheckAndSize(fetched, buy_out, sell_out)
  PROVE  LookupStep /\ BuyMoves
<1> DEFINE sol  == IF buy.mint = "WSOL" THEN SizingValue ELSE SizingValue * Px(now)
           size == R!SizeCopy(buy.mode, SizingValue, buy.amount, TargetUsd, sol)
           b == [buy EXCEPT !.pc = "estimate_copy", !.size = size, !.authority = @ /\ fetched]
<1>1. /\ buy \in BuyTask /\ now \in Nat /\ buy.amount \in Nat /\ buy.mode \in R!SizingMode
      /\ buy.target \in Lookup /\ buy.authority \in BOOLEAN
  BY PriceTypes, BuyFields DEF TypeOK
<1>2. CASE buy' = IdleBuy /\ UNCHANGED lookup
  BY <1>2, IdleBuySound DEF BuyMoves, LookupStep
<1>3. CASE buy' = b /\ Asked("engine", buy.mint)
  <2>1. now <= now
    BY <1>1
  <2>2. Px(now) \in Nat
    BY <1>1, <2>1, PxIsPrice
  <2>3. sol \in Nat /\ SizingValue \in Nat
    BY <2>2, Bounds
  <2>4. TargetUsd \in Nat
    BY <1>1, UsdIsNat DEF TargetUsd
  <2> HIDE DEF sol
  <2>5. size \in Nat
    BY <1>1, <2>3, <2>4, SizeIsNat
  <2> HIDE DEF size
  <2>6. /\ b \in BuyTask /\ b.pc = "estimate_copy" /\ b.mint = buy.mint
        /\ b.amount = buy.amount /\ b.target = buy.target /\ b.started = buy.started
    BY <1>1, <2>5 DEF BuyTask
  <2>7. buy.pc = "check"
    BY DEF CheckAndSize
  <2> HIDE DEF b
  <2>8. SoundBuy(b) /\ PacedBuy(b)
    BY <2>6, <2>7 DEF BuyInv, SoundBuy, PacedBuy
  <2>9. LookupStep
    BY <1>3, AskedSteps DEF Tasks
  <2> QED BY <1>3, <2>6, <2>8, <2>9 DEF BuyMoves
<1>4. (buy' = b /\ Asked("engine", buy.mint)) \/ (buy' = IdleBuy /\ UNCHANGED lookup)
  BY DEF CheckAndSize
<1> QED BY <1>2, <1>3, <1>4

\* max_position_usd lets through what is worth no more than the cap
\* (engine.rs:199-206).
LEMMA GateCapSteps ==
  ASSUME TypeOK, LookupInv, BuyInv, PacedBuy(buy), GateCap
  PROVE  LookupStep /\ BuyMoves
<1> DEFINE l == lookup["engine"]
           b == [buy EXCEPT !.pc = "copy_buy", !.mark = l]
<1>1. buy \in BuyTask /\ l \in Lookup
  BY DEF TypeOK, Tasks
<1>2. LookupStep
  BY LookupTaken DEF GateCap, Tasks
<1>3. CASE buy' = IdleBuy
  BY <1>2, <1>3, IdleBuySound DEF BuyMoves
<1>4. CASE ~(Usd(buy.mint, buy.size, l) > MaxPositionUsd) /\ buy' = b
  <2>1. /\ b \in BuyTask /\ b.pc = "copy_buy" /\ b.mint = buy.mint /\ b.amount = buy.amount
        /\ b.target = buy.target /\ b.size = buy.size /\ b.mark = l /\ b.started = buy.started
    BY <1>1 DEF BuyTask
  <2>2. buy.pc = "estimate_copy" /\ l.pc = "done" /\ buy.size \in Nat
    BY <1>1, BuyFields DEF GateCap
  <2>3. Usd(buy.mint, buy.size, l) \in Nat
    BY <1>1, <2>2, UsdIsNat
  <2>4. Usd(buy.mint, buy.size, l) <= MaxPositionUsd
    BY <1>4, <2>3, Bounds
  <2>5. HandedOut(l) /\ BigEnough(buy.mint, buy.amount, buy.target)
    BY <2>2 DEF LookupInv, SoundLookup, Tasks, BuyInv, SoundBuy
  <2> HIDE DEF b, l
  <2>6. SoundBuy(b) /\ PacedBuy(b)
    BY <2>1, <2>2, <2>4, <2>5 DEF SoundBuy, PacedBuy
  <2> QED BY <1>2, <1>4, <2>1, <2>6 DEF BuyMoves
<1> QED BY <1>3, <1>4 DEF GateCap

\* What goes on the wire is one copy of what was checked, priced within the cap;
\* the wallet is marked if the copy is acknowledged (engine.rs:213-230).
Sends(c) ==
  /\ CopyInv(c) /\ copies' = Append(copies, c) /\ c.started = buy.started
  /\ \/ c.acked = now /\ last_copy' = now
     \/ c.acked = None /\ last_copy' = last_copy

\* The end of a buy.
LEMMA CopyBuySteps ==
  ASSUME TypeOK, BuyInv, NEW answered \in BOOLEAN, CopyBuy(answered)
  PROVE  \E c \in Copy : Sends(c)
<1> DEFINE usd == Usd(buy.mint, buy.size, buy.mark)
           c == Bought(answered)
<1>1. buy \in BuyTask /\ now \in Nat
  BY PriceTypes DEF TypeOK
<1>2. /\ buy.mint \in QuoteMints /\ buy.amount \in Nat /\ buy.authority \in BOOLEAN
      /\ buy.target \in Lookup /\ buy.size \in Nat /\ buy.mark \in Lookup
      /\ buy.started \in Nat
  BY <1>1, BuyFields
<1>3. usd \in Nat
  BY <1>2, UsdIsNat
<1>4. /\ BigEnough(buy.mint, buy.amount, buy.target) /\ HandedOut(buy.mark)
      /\ usd <= MaxPositionUsd
  BY DEF CopyBuy, BuyInv, SoundBuy
<1>5. /\ c.mint = buy.mint /\ c.amount = buy.amount /\ c.size = buy.size
      /\ c.target = buy.target /\ c.mark = buy.mark /\ c.entry_usd = usd
      /\ c.started = buy.started /\ c.acked = IF answered THEN now ELSE None
  BY DEF Bought
<1>6. copies' = Append(copies, c) /\ last_copy' = IF answered THEN now ELSE last_copy
  BY DEF CopyBuy
<1> HIDE DEF usd
<1>7. c \in Copy
  BY <1>1, <1>2, <1>3 DEF Bought, Copy, usd
<1> HIDE DEF c
<1>8. CopyInv(c)
  BY <1>4, <1>5 DEF CopyInv, usd
<1> QED BY <1>5, <1>6, <1>7, <1>8 DEF Sends

\* The TP/SL task looks at a lot (engine.rs:405-430).
LEMMA MarkSteps ==
  ASSUME TypeOK, NEW lot \in DOMAIN copies, NEW out \in Outs, Mark(lot, out)
  PROVE  LookupStep /\ exit' \in ExitTask /\ exit'.lot = lot
<1>1. out \in Nat /\ lot \in Nat
  BY WireTypes, GatesAssumption
<1>2. LookupStep
  BY AskedSteps DEF Mark, Tasks
<1> QED BY <1>1, <1>2 DEF Mark, ExitTask

\* It sells at a level that was reached at the price it was told
\* (engine.rs:431-465).
LEMMA DecideSteps ==
  ASSUME TypeOK, LookupInv, exit.lot \in DOMAIN copies, Decide
  PROVE  /\ LookupStep /\ exit' = IdleExit
         /\ \/ UNCHANGED <<copies, exits>>
            \/ /\ copies' = [copies EXCEPT ![exit.lot].open = FALSE]
               /\ \E e \in Exit : ExitInv(e) /\ exits' = Append(exits, e)
<1> DEFINE l == lookup["tp_sl"]
<1>1. l \in Lookup /\ exit \in ExitTask /\ exit.lot \in Nat /\ exit.out \in Nat
  BY DEF TypeOK, Tasks, ExitTask
<1>2. LookupStep /\ exit' = IdleExit
  BY LookupTaken DEF Decide, Tasks
<1>3. HandedOut(l)
  BY DEF Decide, LookupInv, SoundLookup, Tasks
<1>4. SUFFICES ASSUME NEW r \in ExitReasons,
                      exits' = Append(exits, [lot |-> exit.lot, out |-> exit.out,
                                              mark |-> l, reason |-> r])
               PROVE  \E e \in Exit : ExitInv(e) /\ exits' = Append(exits, e)
  BY <1>2 DEF Decide
<1> DEFINE e == [lot |-> exit.lot, out |-> exit.out, mark |-> l, reason |-> r]
<1>5. r \in {"tp", "sl"} /\ EntryUsd > 0
      /\ (r = "tp" => R!TakesProfit(TakeProfit, EntryUsd, ExitUsd))
  BY <1>4 DEF ExitReasons
<1>6. e \in Exit
  BY <1>1, <1>5 DEF Exit
<1>7. r = "tp" => R!TakesProfit(TakeProfit, copies[exit.lot].entry_usd,
                                Usd(copies[exit.lot].mint, exit.out, l))
  BY <1>5 DEF EntryUsd, ExitUsd
<1>8. /\ e.lot = exit.lot /\ e.out = exit.out /\ e.mark = l /\ e.reason = r
      /\ exits' = Append(exits, e)
  BY <1>4
<1> HIDE DEF e, l
<1>9. ExitInv(e)
  BY <1>3, <1>5, <1>7, <1>8 DEF ExitInv, EntryUsd
<1> QED BY <1>6, <1>8, <1>9

-----------------------------------------------------------------------------
(* The invariant is inductive.                                             *)

\* The copies stay sound when none is added.
LEMMA CopiesStaySound ==
  ASSUME TypeOK, ClockStep, CopiesInv, CopiesKept, copies' \in Seq(Copy),
         DOMAIN copies' = DOMAIN copies
  PROVE  CopiesInv'
<1> SUFFICES ASSUME NEW i \in DOMAIN copies PROVE CopyInv(copies[i])'
  BY DEF CopiesInv
<1>1. i \in 1..Len(copies') /\ copies[i] \in Copy
  BY WireTypes, LenProperties
<1>2. PICK c \in Copy : c = copies[i]
  BY <1>1
<1>3. PICK d \in Copy : d = copies'[i]
  BY <1>1, ElementOfSeq
<1>4. SameCopy(c, d) /\ CopyInv(c)
  BY <1>2, <1>3 DEF CopiesKept, CopiesInv
<1>5. CopyInv(d)'
  BY <1>4, SameCopySound
<1> QED BY <1>3, <1>5

\* And when one that is sound is.
LEMMA CopiesGrowSound ==
  ASSUME TypeOK, ClockStep, CopiesInv, NEW c \in Copy, CopyInv(c), copies' = Append(copies, c)
  PROVE  CopiesInv'
<1> SUFFICES ASSUME NEW i \in DOMAIN copies' PROVE CopyInv(copies[i])'
  BY DEF CopiesInv
<1>1. CopyInv(c)'
  BY CopyInvKept
<1>2. CASE i = Len(copies) + 1
  BY <1>1, <1>2, CopyAppended
<1>3. CASE i \in DOMAIN copies
  <2>1. PICK d \in Copy : d = copies[i]
    BY <1>3, WireTypes
  <2>2. CopyInv(d)'
    BY <1>3, <2>1, CopyInvKept DEF CopiesInv
  <2>3. copies'[i] = d
    BY <1>3, <2>1, CopyAppended
  <2> QED BY <2>2, <2>3
<1> QED BY <1>2, <1>3, CopyAppended

\* The sales stay sound when none is added.
LEMMA ExitsStaySound ==
  ASSUME TypeOK, ClockStep, CopiesKept, exits' = exits,
         \A i \in DOMAIN exits : ExitInv(exits[i])
  PROVE  \A i \in DOMAIN exits' : ExitInv(exits[i])'
<1> SUFFICES ASSUME NEW i \in DOMAIN exits PROVE ExitInv(exits[i])'
  OBVIOUS
<1>1. PICK e \in Exit : e = exits[i]
  BY WireTypes
<1>2. ExitInv(e)'
  BY <1>1, ExitInvKept
<1> QED BY <1>1, <1>2

\* And when one that is sound is.
LEMMA ExitsGrowSound ==
  ASSUME TypeOK, ClockStep, CopiesKept, NEW e \in Exit, ExitInv(e), exits' = Append(exits, e),
         \A i \in DOMAIN exits : ExitInv(exits[i])
  PROVE  exits' \in Seq(Exit) /\ \A i \in DOMAIN exits' : ExitInv(exits[i])'
<1>1. exits \in Seq(Exit) /\ Len(exits) \in Nat /\ DOMAIN exits = 1..Len(exits)
  BY WireTypes
<1>2. /\ exits' \in Seq(Exit) /\ DOMAIN exits' = DOMAIN exits \union {Len(exits) + 1}
      /\ \A i \in DOMAIN exits : exits'[i] = exits[i]
      /\ exits'[Len(exits) + 1] = e
  <2>1. exits' \in Seq(Exit) /\ Len(exits') = Len(exits) + 1
    BY <1>1
  <2> QED BY <1>1, <2>1
<1>3. ExitInv(e)'
  BY ExitInvKept
<1>4. SUFFICES ASSUME NEW i \in DOMAIN exits PROVE ExitInv(exits[i])'
  BY <1>2, <1>3
<1>5. PICK d \in Exit : d = exits[i]
  BY WireTypes
<1>6. ExitInv(d)'
  BY <1>5, ExitInvKept
<1> QED BY <1>2, <1>5, <1>6

\* Nothing is sold or bought.
Untouched == UNCHANGED <<copies, exits>>

\* What is on the wire stays sound when nothing is.
LEMMA WireUntouched ==
  ASSUME TypeOK, ClockStep, CopiesInv, ExitsInv, Untouched
  PROVE  /\ copies' \in Seq(Copy) /\ exits' \in Seq(Exit) /\ CopiesInv'
         /\ \A i \in DOMAIN exits' : ExitInv(exits[i])'
<1>1. copies' = copies /\ exits' = exits /\ copies \in Seq(Copy) /\ exits \in Seq(Exit)
  BY DEF Untouched, TypeOK
<1>2. CopiesKept
  BY <1>1 DEF CopiesKept, SameCopy
<1> QED BY <1>1, <1>2, CopiesStaySound, ExitsStaySound DEF ExitsInv

\* The kinds of steps the buys, the sales and the wallet's mark can take.
Rests == UNCHANGED <<last_copy, buy, exit>> /\ Untouched
Buys == BuyMoves /\ UNCHANGED <<last_copy, exit>> /\ Untouched
BuysSend == /\ buy.pc # "idle" /\ buy' = IdleBuy /\ UNCHANGED <<exit, exits>>
            /\ \E c \in Copy : Sends(c)
Looks == /\ exit' \in ExitTask /\ (exit'.pc # "idle" => exit'.lot \in DOMAIN copies)
         /\ UNCHANGED <<last_copy, buy>> /\ Untouched
Exits == /\ exit' = IdleExit /\ UNCHANGED <<last_copy, buy>>
         /\ exit.lot \in DOMAIN copies
         /\ copies' = [copies EXCEPT ![exit.lot].open = FALSE]
         /\ \E e \in Exit : ExitInv(e) /\ exits' = Append(exits, e)

\* Every step is a tick or one of these, with a sound lookup and a sound cache.
LEMMA StepKinds ==
  ASSUME GatesInv, Next
  PROVE  \/ Tick /\ Rests /\ UNCHANGED prices
         \/ /\ UNCHANGED clock /\ LookupStep /\ CacheStep
            /\ Rests \/ Buys \/ BuysSend \/ Looks \/ Exits
<1> USE DEF GatesInv, PricesInv, CooldownInv
<1>1. CASE Tick
  BY <1>1 DEF Tick, Rests, Untouched
<1>2. ASSUME NEW t \in Tasks, CacheHit(t) \/ Fetch(t) \/ FetchAnswered(t)
                               \/ FetchUnreadable(t) \/ FetchFails(t)
      PROVE  UNCHANGED clock /\ LookupStep /\ CacheStep /\ Rests
  <2>1. UNCHANGED clock /\ Rests
    BY <1>2 DEF CacheHit, Fetch, FetchAnswered, FetchUnreadable, FetchFails, Rests, Untouched
  <2>2. LookupStep /\ CacheStep
    BY <1>2, CacheHitSteps, FetchSteps, FetchAnsweredSteps, FetchUnreadableSteps,
       FetchFailsSteps DEF CacheStep
  <2> QED BY <2>1, <2>2
<1>3. ASSUME NEW mint \in QuoteMints, NEW amount \in Amounts, NEW mode \in Modes,
             NEW authority \in BOOLEAN, OnTargetBuy(mint, amount, mode, authority)
      PROVE  UNCHANGED clock /\ LookupStep /\ CacheStep /\ Buys
  <2>1. UNCHANGED <<clock, cache, last_copy, exit, copies, exits>>
    BY <1>3 DEF OnTargetBuy
  <2> QED BY <1>3, <2>1, OnTargetBuySteps DEF CacheStep, Buys, Untouched
<1>4. ASSUME GateMinTrade
      PROVE  UNCHANGED clock /\ LookupStep /\ CacheStep /\ Buys
  <2>1. UNCHANGED <<clock, cache, last_copy, exit, copies, exits>>
    BY <1>4 DEF GateMinTrade
  <2> QED BY <1>4, <2>1, GateMinTradeSteps DEF CacheStep, Buys, Untouched
<1>5. ASSUME NEW fetched \in BOOLEAN, NEW buy_out \in ProbeOuts, NEW sell_out \in ProbeOuts,
             CheckAndSize(fetched, buy_out, sell_out)
      PROVE  UNCHANGED clock /\ LookupStep /\ CacheStep /\ Buys
  <2>1. UNCHANGED <<clock, cache, last_copy, exit, copies, exits>>
    BY <1>5 DEF CheckAndSize
  <2> QED BY <1>5, <2>1, CheckAndSizeSteps DEF CacheStep, Buys, Untouched
<1>6. ASSUME GateCap
      PROVE  UNCHANGED clock /\ LookupStep /\ CacheStep /\ Buys
  <2>1. UNCHANGED <<clock, cache, last_copy, exit, copies, exits>>
    BY <1>6 DEF GateCap
  <2> QED BY <1>6, <2>1, GateCapSteps DEF CacheStep, Buys, Untouched
<1>7. ASSUME NEW answered \in BOOLEAN, CopyBuy(answered)
      PROVE  UNCHANGED clock /\ LookupStep /\ CacheStep /\ BuysSend
  <2>1. /\ UNCHANGED <<clock, cache, lookup, exit, exits>> /\ buy.pc # "idle"
        /\ buy' = IdleBuy
    BY <1>7 DEF CopyBuy, prices
  <2>2. \E c \in Copy : Sends(c)
    BY <1>7, CopyBuySteps
  <2> QED BY <2>1, <2>2 DEF LookupStep, CacheStep, BuysSend
<1>8. ASSUME NEW lot \in DOMAIN copies, NEW out \in Outs, Mark(lot, out)
      PROVE  UNCHANGED clock /\ LookupStep /\ CacheStep /\ Looks
  <2>1. UNCHANGED <<clock, cache, last_copy, buy, copies, exits>>
    BY <1>8 DEF Mark
  <2> QED BY <1>8, <2>1, MarkSteps DEF CacheStep, Looks, Untouched
<1>9. ASSUME Decide
      PROVE  UNCHANGED clock /\ LookupStep /\ CacheStep /\ (Looks \/ Exits)
  <2>1. UNCHANGED <<clock, cache, last_copy, buy>> /\ exit.pc = "estimate"
    BY <1>9 DEF Decide
  <2>2. exit.lot \in DOMAIN copies
    BY <2>1 DEF ExitsInv
  <2>3. /\ LookupStep /\ exit' = IdleExit
        /\ \/ UNCHANGED <<copies, exits>>
           \/ /\ copies' = [copies EXCEPT ![exit.lot].open = FALSE]
              /\ \E e \in Exit : ExitInv(e) /\ exits' = Append(exits, e)
    BY <1>9, <2>2, DecideSteps
  <2>4. IdleExit \in ExitTask /\ IdleExit.pc = "idle"
    BY DEF IdleExit, ExitTask
  <2> QED BY <2>1, <2>2, <2>3, <2>4 DEF CacheStep, Looks, Exits, Untouched
<1> QED BY <1>1, <1>2, <1>3, <1>4, <1>5, <1>6, <1>7, <1>8, <1>9 DEF Next

\* The wallet's mark is no earlier than its last acknowledged copy.
Marked ==
  /\ last_copy # None => last_copy <= now
  /\ \A i \in DOMAIN copies :
       copies[i].acked # None => last_copy # None /\ copies[i].acked <= last_copy

\* A buy stays sound when the clock ticks.
LEMMA BuyKept ==
  ASSUME TypeOK, ClockStep, NEW b \in BuyTask, SoundBuy(b)
  PROVE  SoundBuy(b)'
<1>1. b.target \in Lookup /\ b.mark \in Lookup
  BY BuyFields
<1>2. b.pc = "copy_buy" =>
        HandedOut(b.mark)' /\ Usd(b.mint, b.size, b.mark) <= MaxPositionUsd
  BY <1>1, HandedOutKept DEF SoundBuy
<1> QED BY <1>1, <1>2, BigEnoughKept DEF SoundBuy, Usd

\* The mark and the spacing of the copies are kept by every step that sends none.
LEMMA SpacingKept ==
  ASSUME TypeOK, ClockStep, Marked, CooldownSpacing, CopiesKept,
         DOMAIN copies' = DOMAIN copies, last_copy' = last_copy
  PROVE  Marked' /\ CooldownSpacing'
<1>1. now \in Nat /\ (now' = now \/ now' = now + 1) /\ last_copy \in Nat \union {None}
  BY PriceTypes DEF TypeOK, ClockStep, Ticks, clock
<1>2. ASSUME last_copy # None PROVE last_copy <= now'
  <2>1. last_copy \in Nat /\ last_copy <= now
    BY <1>1, <1>2 DEF Marked
  <2> QED BY <1>1, <2>1
<1>3. \A i \in DOMAIN copies :
        copies'[i].acked = copies[i].acked /\ copies'[i].started = copies[i].started
  BY DEF CopiesKept, SameCopy
<1>4. Marked'
  BY <1>2, <1>3 DEF Marked
<1>5. CooldownSpacing'
  BY <1>3 DEF CooldownSpacing
<1> QED BY <1>4, <1>5

\* A copy that is sent started a cooldown after every acknowledged one, and
\* becomes the mark if it is acknowledged.
LEMMA SpacingSent ==
  ASSUME TypeOK, UNCHANGED clock, Marked, PacedBuy(buy), CooldownSpacing,
         NEW c \in Copy, buy.pc # "idle", Sends(c)
  PROVE  Marked' /\ CooldownSpacing' /\ last_copy' \in Nat \union {None}
<1> DEFINE n == Len(copies) + 1
<1>1. /\ now \in Nat /\ now' = now /\ last_copy \in Nat \union {None} /\ None \notin Nat
      /\ c.started \in Nat /\ c.acked \in Nat \union {None} /\ c.started = buy.started
  BY PriceTypes, Bounds DEF TypeOK, clock, Copy, Sends
<1>2. /\ DOMAIN copies = 1..Len(copies) /\ Len(copies) \in Nat
      /\ \A i \in DOMAIN copies : copies[i].acked \in Nat \union {None}
  BY WireTypes DEF Copy
<1>3. /\ DOMAIN copies' = DOMAIN copies \union {n} /\ copies'[n] = c
      /\ \A i \in DOMAIN copies : copies'[i] = copies[i]
  BY CopyAppended DEF Sends
<1>4. last_copy' \in Nat \union {None}
  BY <1>1 DEF Sends
<1>5. Marked'
  <2>1. CASE c.acked = now /\ last_copy' = now
    <3>1. now <= now /\ now # None
      BY <1>1
    <3>2. ASSUME NEW i \in DOMAIN copies, copies[i].acked # None
          PROVE  copies[i].acked <= now
      <4>1. PICK a \in Nat : a = copies[i].acked
        BY <1>2, <3>2
      <4>2. PICK m \in Nat : m = last_copy /\ a <= m /\ m <= now
        BY <1>1, <3>2, <4>1 DEF Marked
      <4> QED BY <1>1, <4>1, <4>2
    <3> QED BY <1>1, <1>3, <2>1, <3>1, <3>2 DEF Marked
  <2>2. CASE c.acked = None /\ last_copy' = last_copy
    BY <1>1, <1>3, <2>2 DEF Marked
  <2> QED BY <2>1, <2>2 DEF Sends
<1>6. CooldownSpacing'
  <2> SUFFICES ASSUME NEW i \in DOMAIN copies', NEW j \in DOMAIN copies', i < j,
                      copies'[i].acked # None
               PROVE  copies'[j].started >= copies'[i].acked + Cooldown
    BY DEF CooldownSpacing
  <2>1. i \in DOMAIN copies
    BY <1>2, <1>3
  <2>2. CASE j \in DOMAIN copies
    BY <1>3, <2>1, <2>2 DEF CooldownSpacing
  <2>3. CASE j = n
    <3>1. PICK a \in Nat : a = copies[i].acked
      BY <1>2, <1>3, <2>1
    <3>2. PICK m \in Nat : m = last_copy /\ m # None /\ a <= m
      BY <1>1, <1>3, <2>1, <3>1 DEF Marked
    <3>3. PICK s \in Nat : s = c.started
      BY <1>1
    <3>4. s >= m + Cooldown
      BY <1>1, <3>2, <3>3 DEF PacedBuy
    <3>5. s >= a + Cooldown
      BY <3>2, <3>4, Bounds
    <3> QED BY <1>3, <2>1, <2>3, <3>1, <3>3, <3>5
  <2> QED BY <1>3, <2>2, <2>3
<1> QED BY <1>4, <1>5, <1>6

\* Everything but the clock, the lookups and the cache.
RestInv ==
  /\ last_copy \in Nat \union {None} /\ buy \in BuyTask /\ exit \in ExitTask
  /\ copies \in Seq(Copy) /\ exits \in Seq(Exit)
  /\ BuyInv /\ CopiesInv /\ ExitsInv /\ CooldownInv /\ CooldownSpacing

\* When nothing goes on the wire, only the tasks need a look.
LEMMA WireRests ==
  ASSUME GatesInv, ClockStep, Untouched, last_copy' = last_copy
  PROVE  /\ last_copy' \in Nat \union {None} /\ copies' \in Seq(Copy) /\ exits' \in Seq(Exit)
         /\ CopiesInv' /\ (\A i \in DOMAIN exits' : ExitInv(exits[i])')
         /\ Marked' /\ CooldownSpacing' /\ DOMAIN copies' = DOMAIN copies
         /\ \A b : PacedBuy(b)' <=> PacedBuy(b)
<1>1. TypeOK /\ CopiesInv /\ ExitsInv /\ Marked /\ CooldownSpacing
  BY DEF GatesInv, PricesInv, CooldownInv, Marked
<1>2. CopiesKept /\ DOMAIN copies' = DOMAIN copies
  BY DEF Untouched, CopiesKept, SameCopy
<1>3. last_copy' \in Nat \union {None}
  BY <1>1 DEF TypeOK
<1>4. \A b : PacedBuy(b)' <=> PacedBuy(b)
  BY DEF PacedBuy
<1> QED BY <1>1, <1>2, <1>3, <1>4, WireUntouched, SpacingKept

\* Only a price or the clock moves.
LEMMA RestsKeeps ==
  ASSUME GatesInv, ClockStep, Rests
  PROVE  RestInv'
<1>1. /\ TypeOK /\ BuyInv /\ ExitsInv /\ PacedBuy(buy)
      /\ last_copy' = last_copy /\ exit' = exit /\ Untouched
  BY DEF GatesInv, PricesInv, CooldownInv, Rests
<1>2. PICK b \in BuyTask : b = buy /\ buy' = b
  BY <1>1 DEF TypeOK, Rests
<1>3. SoundBuy(b)'
  BY <1>1, <1>2, BuyKept DEF BuyInv
<1>4. BuyInv' /\ PacedBuy(buy)'
  BY <1>1, <1>2, <1>3, WireRests DEF BuyInv
<1>5. exit' \in ExitTask /\ ExitsInv'
  BY <1>1, WireRests DEF TypeOK, ExitsInv
<1> QED BY <1>1, <1>2, <1>4, <1>5, WireRests DEF RestInv, CooldownInv, Marked

\* The engine's buy moves on.
LEMMA BuysKeeps ==
  ASSUME GatesInv, ClockStep, Buys
  PROVE  RestInv'
<1>1. TypeOK /\ ExitsInv /\ last_copy' = last_copy /\ exit' = exit /\ Untouched
  BY DEF GatesInv, PricesInv, Buys
<1>2. PICK b \in BuyTask : buy' = b /\ SoundBuy(b) /\ PacedBuy(b)
  BY DEF Buys, BuyMoves
<1>3. SoundBuy(b)'
  BY <1>1, <1>2, BuyKept
<1>4. BuyInv' /\ PacedBuy(buy)'
  BY <1>1, <1>2, <1>3, WireRests DEF BuyInv
<1>5. exit' \in ExitTask /\ ExitsInv'
  BY <1>1, WireRests DEF TypeOK, ExitsInv
<1> QED BY <1>1, <1>2, <1>4, <1>5, WireRests DEF RestInv, CooldownInv, Marked

\* The TP/SL task picks a lot, or lets it be.
LEMMA LooksKeeps ==
  ASSUME GatesInv, ClockStep, Looks
  PROVE  RestInv'
<1>1. TypeOK /\ BuyInv /\ PacedBuy(buy) /\ last_copy' = last_copy /\ Untouched
  BY DEF GatesInv, PricesInv, CooldownInv, Looks
<1>2. PICK b \in BuyTask : b = buy /\ buy' = b
  BY <1>1 DEF TypeOK, Looks
<1>3. SoundBuy(b)'
  BY <1>1, <1>2, BuyKept DEF BuyInv
<1>4. BuyInv' /\ PacedBuy(buy)'
  BY <1>1, <1>2, <1>3, WireRests DEF BuyInv
<1>5. exit' \in ExitTask /\ ExitsInv'
  BY <1>1, WireRests DEF ExitsInv, Looks
<1> QED BY <1>1, <1>2, <1>4, <1>5, WireRests DEF RestInv, CooldownInv, Marked

\* The copy goes on the wire.
LEMMA BuysSendKeeps ==
  ASSUME GatesInv, UNCHANGED clock, BuysSend
  PROVE  RestInv'
<1>1. /\ TypeOK /\ CopiesInv /\ ExitsInv /\ Marked /\ PacedBuy(buy) /\ CooldownSpacing
      /\ ClockStep /\ exit' = exit /\ exits' = exits /\ buy' = IdleBuy
      /\ buy.pc # "idle"
  BY DEF GatesInv, PricesInv, CooldownInv, Marked, BuysSend, ClockStep
<1>2. PICK c \in Copy : Sends(c)
  BY DEF BuysSend
<1>3. copies' = Append(copies, c) /\ CopyInv(c)
  BY <1>2 DEF Sends
<1>4. /\ copies' \in Seq(Copy) /\ CopiesKept
      /\ DOMAIN copies' = DOMAIN copies \union {Len(copies) + 1}
  BY <1>1, <1>3, CopyAppended
<1>5. CopiesInv'
  BY <1>1, <1>3, CopiesGrowSound
<1>6. exit' \in ExitTask /\ exits' \in Seq(Exit) /\ ExitsInv'
  BY <1>1, <1>4, ExitsStaySound DEF TypeOK, ExitsInv
<1>7. Marked' /\ CooldownSpacing' /\ last_copy' \in Nat \union {None}
  BY <1>1, <1>2, SpacingSent
<1>8. buy' \in BuyTask /\ BuyInv' /\ PacedBuy(buy)'
  BY <1>1, IdleBuySound DEF IdleBuy, BuyInv, SoundBuy, PacedBuy
<1> QED BY <1>4, <1>5, <1>6, <1>7, <1>8 DEF RestInv, CooldownInv, Marked

\* The TP/SL task sells.
LEMMA ExitsKeeps ==
  ASSUME GatesInv, ClockStep, Exits
  PROVE  RestInv'
<1>1. /\ TypeOK /\ BuyInv /\ CopiesInv /\ ExitsInv /\ Marked /\ PacedBuy(buy)
      /\ CooldownSpacing /\ last_copy' = last_copy /\ exit' = IdleExit
  BY DEF GatesInv, PricesInv, CooldownInv, Marked, Exits
<1>2. PICK lot \in DOMAIN copies : lot = exit.lot
  BY DEF Exits
<1>3. copies' \in Seq(Copy) /\ CopiesKept /\ DOMAIN copies' = DOMAIN copies
  BY <1>1, <1>2, CopyClosed DEF Exits
<1>4. CopiesInv'
  BY <1>1, <1>3, CopiesStaySound
<1>5. PICK e \in Exit : ExitInv(e) /\ exits' = Append(exits, e)
  BY DEF Exits
<1>6. exits' \in Seq(Exit) /\ \A i \in DOMAIN exits' : ExitInv(exits[i])'
  BY <1>1, <1>3, <1>5, ExitsGrowSound DEF ExitsInv
<1>7. exit' \in ExitTask /\ ExitsInv'
  BY <1>1, <1>6 DEF IdleExit, ExitTask, ExitsInv
<1>8. Marked' /\ CooldownSpacing' /\ last_copy' \in Nat \union {None}
  BY <1>1, <1>3, SpacingKept DEF TypeOK
<1>9. PICK b \in BuyTask : b = buy /\ buy' = b
  BY <1>1 DEF TypeOK, Exits
<1>10. SoundBuy(b)'
  BY <1>1, <1>9, BuyKept DEF BuyInv
<1>11. BuyInv' /\ PacedBuy(buy)'
  BY <1>1, <1>9, <1>10 DEF BuyInv, PacedBuy
<1> QED BY <1>3, <1>4, <1>6, <1>7, <1>8, <1>9, <1>11 DEF RestInv, CooldownInv, Marked

\* The invariant holds initially.
LEMMA GatesInvInit == Init => GatesInv
<1> SUFFICES ASSUME Init PROVE GatesInv
  OBVIOUS
<1>1. PICK p \in Prices : market = <<p>>
  BY DEF Init
<1>2. market \in Seq(Prices) /\ Len(market) = 1
  BY <1>1
<1>3. copies = <<>> /\ exits = <<>> /\ copies \in Seq(Copy) /\ exits \in Seq(Exit)
      /\ DOMAIN copies = {} /\ DOMAIN exits = {}
  BY DEF Init
<1>4. 0 \in 0..MaxTime
  BY Bounds
<1>5. buy = IdleBuy /\ exit = IdleExit /\ cache = None /\ last_copy = None /\ now = 0
      /\ lookup = [t \in Tasks |-> NoLookup]
  BY DEF Init
<1>6. NoLookup \in Lookup /\ SoundLookup(NoLookup) /\ IdleExit \in ExitTask
  BY DEF NoLookup, Lookup, SoundLookup, IdleExit, ExitTask
<1>7. TypeOK
  BY <1>2, <1>3, <1>4, <1>5, <1>6, IdleBuySound DEF TypeOK
<1>8. LookupInv /\ CacheInv /\ BuyInv /\ CopiesInv /\ ExitsInv
  BY <1>3, <1>5, <1>6, IdleBuySound DEF LookupInv, CacheInv, BuyInv, CopiesInv, ExitsInv,
     IdleExit
<1>9. CooldownInv /\ CooldownSpacing
  BY <1>3, <1>5, IdleBuySound DEF CooldownInv, CooldownSpacing
<1> QED BY <1>7, <1>8, <1>9 DEF GatesInv, PricesInv

\* And every step keeps it.
LEMMA GatesInvStep == GatesInv /\ [Next]_vars => GatesInv'
<1> SUFFICES ASSUME GatesInv, [Next]_vars PROVE GatesInv'
  OBVIOUS
<1>1. TypeOK /\ LookupInv /\ CacheInv
  BY DEF GatesInv, PricesInv
<1>2. ASSUME UNCHANGED clock, LookupStep, CacheStep, RestInv' PROVE GatesInv'
  <2>1. now' \in 0..MaxTime /\ market' \in Seq(Prices) /\ Len(market') = now' + 1
    BY <1>1, <1>2 DEF TypeOK, clock
  <2>2. lookup' \in [Tasks -> Lookup] /\ LookupInv'
    BY <1>1, <1>2, LookupsStaySound
  <2>3. cache' \in Quote \union {None} /\ CacheInv'
    BY <1>1, <1>2, CacheStaysSound
  <2> QED BY <1>2, <2>1, <2>2, <2>3 DEF GatesInv, PricesInv, RestInv, TypeOK, Quote
<1>3. CASE UNCHANGED vars
  <2>1. UNCHANGED clock /\ LookupStep /\ CacheStep /\ ClockStep /\ Rests
    BY <1>3 DEF vars, clock, LookupStep, CacheStep, ClockStep, Rests, Untouched
  <2> QED BY <1>2, <2>1, RestsKeeps
<1>4. CASE Tick /\ Rests /\ UNCHANGED prices
  <2>1. /\ now' \in 0..MaxTime /\ market' \in Seq(Prices) /\ Len(market') = now' + 1
        /\ Ticks /\ LookupInv' /\ CacheInv'
    BY <1>1, <1>4, TickSteps
  <2>2. RestInv'
    BY <1>4, <2>1, RestsKeeps DEF ClockStep
  <2>3. lookup' = lookup /\ cache' = cache
    BY <1>4 DEF prices
  <2>4. lookup' \in [Tasks -> Lookup]
        /\ cache' \in [px: Prices \union {0}, when: Nat, asof: Nat] \union {None}
    BY <1>1, <2>3 DEF TypeOK
  <2> QED BY <2>1, <2>2, <2>4 DEF GatesInv, PricesInv, RestInv, TypeOK
<1>5. ASSUME Next, UNCHANGED clock, LookupStep, CacheStep,
             Rests \/ Buys \/ BuysSend \/ Looks \/ Exits
      PROVE  GatesInv'
  <2>1. ClockStep
    BY <1>5 DEF ClockStep
  <2>2. RestInv'
    BY <1>5, <2>1, RestsKeeps, BuysKeeps, BuysSendKeeps, LooksKeeps, ExitsKeeps
  <2> QED BY <1>2, <1>5, <2>2
<1> QED BY <1>3, <1>4, <1>5, StepKinds

-----------------------------------------------------------------------------
(* What the invariant says of the properties.                              *)

\* In every reachable state.
LEMMA GatesInvHolds == Spec => []GatesInv
<1>1. Init => GatesInv
  BY GatesInvInit
<1>2. GatesInv /\ [Next]_vars => GatesInv'
  BY GatesInvStep
<1> QED BY <1>1, <1>2, PTL DEF Spec

\* What an amount was worth at a price that was handed out is among what it
\* was worth lately, unless the price is missing.
LEMMA PricedIsWorth ==
  ASSUME TypeOK, NEW mint \in QuoteMints, NEW amount \in Nat, NEW l \in Lookup,
         HandedOut(l), mint = "USDC" \/ l.px > 0
  PROVE  Usd(mint, amount, l) \in Worth(mint, amount, l)
<1>1. l.px \in Nat /\ l.asof \in Nat /\ l.at \in Nat
  BY LookupFields
<1>2. CASE mint = "USDC"
  BY <1>2 DEF Usd, Worth
<1>3. CASE mint # "USDC"
  <2>1. l.px = Px(l.asof) /\ l.asof <= l.at /\ l.at <= l.asof + Ttl + Timeout
    BY <1>3 DEF HandedOut
  <2>2. l.asof \in 0..l.at /\ l.asof + Ttl + Timeout >= l.at
    BY <1>1, <2>1, Bounds
  <2>3. amount * Px(l.asof) \in Worth(mint, amount, l)
    BY <1>3, <2>2 DEF Worth
  <2> QED BY <1>3, <2>1, <2>3 DEF Usd
<1> QED BY <1>2, <1>3

\* It was worth something, at the least.
LEMMA WorthSomething ==
  ASSUME TypeOK, NEW mint \in QuoteMints, NEW amount \in Nat, NEW l \in Lookup, HandedOut(l)
  PROVE  \E v \in Worth(mint, amount, l) : v \in Nat
<1>1. l.at \in Nat /\ l.at <= now
  BY LookupFields DEF HandedOut
<1>2. Px(l.at) \in Nat
  BY <1>1, PxIsPrice
<1>3. l.at \in 0..l.at /\ l.at + Ttl + Timeout >= l.at
  BY <1>1, Bounds
<1>4. CASE mint = "USDC"
  BY <1>4 DEF Worth
<1>5. CASE mint # "USDC"
  <2>1. amount * Px(l.at) \in Worth(mint, amount, l)
    BY <1>3, <1>5 DEF Worth
  <2>2. amount * Px(l.at) \in Nat
    BY <1>2
  <2> QED BY <2>1, <2>2
<1> QED BY <1>4, <1>5

\* The fields of a copy and of a sale.
LEMMA CopyFields ==
  ASSUME NEW c \in Copy
  PROVE  /\ c.mint \in QuoteMints /\ c.amount \in Nat /\ c.size \in Nat
         /\ c.target \in Lookup /\ c.mark \in Lookup /\ c.entry_usd \in Nat
BY DEF Copy

\* Prices, buys, copies and sales have their types whatever the market does.
THEOREM GatesTyped == Spec => []TypeOK
<1>1. GatesInv => TypeOK
  BY DEF GatesInv, PricesInv
<1> QED BY <1>1, GatesInvHolds, PTL

\* estimate_input_usd never hands out a price older than the lifetime of the
\* cache and one request timeout, for every Ttl and Timeout and any number of
\* overlapping fetches (executor.rs:384-416).
THEOREM PricesAreRecent == Spec => []PriceAgeBounded
<1>1. GatesInv => PriceAgeBounded
  BY DEF GatesInv, PricesInv, LookupInv, SoundLookup, HandedOut, PriceAgeBounded
<1> QED BY <1>1, GatesInvHolds, PTL

\* Copies of one wallet start at least a cooldown after the last acknowledged
\* one (engine.rs:157, engine.rs:230).
THEOREM CopiesAreSpaced == Spec => []CooldownSpacing
<1>1. GatesInv => CooldownSpacing
  BY DEF GatesInv
<1> QED BY <1>1, GatesInvHolds, PTL

\* max_position_usd bounds what a priced copy cost at a recent price, for every
\* cap, sizing mode and market (engine.rs:199-206).
THEOREM CapHolds == Spec => []CapHoldsWhenPriced
<1>1. ASSUME GatesInv PROVE CapHoldsWhenPriced
  <2> SUFFICES ASSUME NEW i \in DOMAIN copies, copies[i].entry_usd > 0
               PROVE  \E v \in Worth(copies[i].mint, copies[i].size, copies[i].mark) :
                        v <= MaxPositionUsd
    BY DEF CapHoldsWhenPriced
  <2>1. TypeOK /\ CopyInv(copies[i])
    BY <1>1 DEF GatesInv, PricesInv, CopiesInv
  <2>2. PICK c \in Copy : c = copies[i]
    BY <2>1, WireTypes
  <2>3. /\ HandedOut(c.mark) /\ c.entry_usd = Usd(c.mint, c.size, c.mark)
        /\ c.entry_usd <= MaxPositionUsd /\ c.entry_usd > 0
    BY <2>1, <2>2 DEF CopyInv
  <2>4. c.mint \in QuoteMints /\ c.size \in Nat /\ c.mark \in Lookup /\ c.mark.px \in Nat
    BY CopyFields, LookupFields
  <2>5. c.mint = "USDC" \/ c.mark.px > 0
    <3>1. SUFFICES ASSUME c.mint # "USDC", c.mark.px = 0 PROVE FALSE
      BY <2>4
    <3>2. c.entry_usd = c.size * 0
      BY <2>3, <3>1 DEF Usd
    <3> QED BY <2>3, <2>4, <3>2
  <2>6. Usd(c.mint, c.size, c.mark) \in Worth(c.mint, c.size, c.mark)
    BY <2>1, <2>3, <2>4, <2>5, PricedIsWorth
  <2> QED BY <2>2, <2>3, <2>6
<1> QED BY <1>1, GatesInvHolds, PTL

\* min_target_trade_usd stops dust whatever becomes of the price: a missing one
\* never lets a trade through (engine.rs:167-176).
THEOREM NoDustCopied == Spec => []MinTradeHolds
<1>1. ASSUME GatesInv PROVE MinTradeHolds
  <2> SUFFICES ASSUME NEW i \in DOMAIN copies
               PROVE  \E v \in Worth(copies[i].mint, copies[i].amount, copies[i].target) :
                        v >= MinTargetUsd
    BY DEF MinTradeHolds
  <2>1. TypeOK /\ CopyInv(copies[i])
    BY <1>1 DEF GatesInv, PricesInv, CopiesInv
  <2>2. PICK c \in Copy : c = copies[i]
    BY <2>1, WireTypes
  <2>3. HandedOut(c.target) /\ Usd(c.mint, c.amount, c.target) >= MinTargetUsd
    BY <2>1, <2>2 DEF CopyInv, BigEnough
  <2>4. /\ c.mint \in QuoteMints /\ c.amount \in Nat /\ c.target \in Lookup
        /\ c.target.px \in Nat
    BY CopyFields, LookupFields
  <2>5. CASE c.mint = "USDC" \/ c.target.px > 0
    <3>1. Usd(c.mint, c.amount, c.target) \in Worth(c.mint, c.amount, c.target)
      BY <2>1, <2>3, <2>4, <2>5, PricedIsWorth
    <3> QED BY <2>2, <2>3, <3>1
  <2>6. CASE c.mint # "USDC" /\ c.target.px = 0
    <3>1. c.amount * 0 >= MinTargetUsd
      BY <2>3, <2>6 DEF Usd
    <3>2. MinTargetUsd = 0
      BY <2>4, <3>1, Bounds
    <3>3. PICK v \in Worth(c.mint, c.amount, c.target) : v \in Nat
      BY <2>1, <2>3, <2>4, WorthSomething
    <3>4. v >= MinTargetUsd
      BY <3>2, <3>3
    <3> QED BY <2>2, <3>3, <3>4
  <2> QED BY <2>4, <2>5, <2>6
<1> QED BY <1>1, GatesInvHolds, PTL

\* A missing price never takes profit (engine.rs:431-440).
LEMMA NothingIsNoProfit ==
  ASSUME NEW tp \in Nat, NEW entry \in Nat, entry > 0
  PROVE  ~R!TakesProfit(tp, entry, 0)
<1>1. SUFFICES ASSUME tp > 0, 100 * (0 - entry) >= tp * entry PROVE FALSE
  BY DEF R!TakesProfit
<1>2. tp * entry \in Nat
  OBVIOUS
<1>3. tp * entry >= 0
  BY <1>2
<1>4. 100 * (0 - entry) < 0
  OBVIOUS
<1> QED BY <1>1, <1>3, <1>4, <1>2

\* A take-profit sale brought its profit at a recent price, however the two
\* tasks share the cache (engine.rs:426-465).
THEOREM ProfitIsReal == Spec => []TakeProfitIsReal
<1>1. ASSUME GatesInv PROVE TakeProfitIsReal
  <2> SUFFICES ASSUME NEW i \in DOMAIN exits, exits[i].reason = "tp"
               PROVE  LET c == copies[exits[i].lot] IN
                      \E v \in Worth(c.mint, exits[i].out, exits[i].mark) :
                        R!TakesProfit(TakeProfit, c.entry_usd, v)
    BY DEF TakeProfitIsReal
  <2>1. TypeOK /\ ExitInv(exits[i])
    BY <1>1 DEF GatesInv, PricesInv, ExitsInv
  <2>2. PICK e \in Exit : e = exits[i]
    BY <2>1, WireTypes
  <2>3. PICK c \in Copy : c = copies[e.lot]
    BY <2>1, <2>2, WireTypes DEF ExitInv
  <2>4. /\ HandedOut(e.mark) /\ c.entry_usd > 0
        /\ R!TakesProfit(TakeProfit, c.entry_usd, Usd(c.mint, e.out, e.mark))
    BY <2>1, <2>2, <2>3 DEF ExitInv
  <2>5. /\ c.mint \in QuoteMints /\ c.entry_usd \in Nat /\ e.out \in Nat
        /\ e.mark \in Lookup /\ e.mark.px \in Nat
    <3>1. e.out \in Nat /\ e.mark \in Lookup
      BY DEF Exit
    <3> QED BY <3>1, CopyFields, LookupFields
  <2>6. c.mint = "USDC" \/ e.mark.px > 0
    <3>1. SUFFICES ASSUME c.mint # "USDC", e.mark.px = 0 PROVE FALSE
      BY <2>5
    <3>2. Usd(c.mint, e.out, e.mark) = e.out * 0
      BY <3>1 DEF Usd
    <3>3. e.out * 0 = 0
      BY <2>5
    <3>4. R!TakesProfit(TakeProfit, c.entry_usd, 0)
      BY <2>4, <3>2, <3>3
    <3> QED BY <2>4, <2>5, <3>4, NothingIsNoProfit, Bounds
  <2>7. Usd(c.mint, e.out, e.mark) \in Worth(c.mint, e.out, e.mark)
    BY <2>1, <2>4, <2>5, <2>6, PricedIsWorth
  <2> QED BY <2>2, <2>3, <2>4, <2>7
<1> QED BY <1>1, GatesInvHolds, PTL

=============================================================================
