------------------------------ MODULE RiskMath ------------------------------
(***************************************************************************)
(* The arithmetic behind the gates of a copy buy and the TP/SL decision:   *)
(* the honeypot round trip and the sizer of src/risk.rs, the exit rule of  *)
(* src/engine.rs.  Amounts are whole units and prices whole dollars; what  *)
(* the code computes in f64 is computed exactly here.                      *)
(***************************************************************************)
EXTENDS Naturals, Integers

CONSTANT ProbeIn     \* honeypot probe: 0.1 SOL in lamports

ASSUME ProbeAssumption == ProbeIn \in Nat \ {0}

\* Mutant: a round trip that gains is not a case of its own.
LossBpsSigned(out) == ((ProbeIn - out) * 10000) \div ProbeIn

\* loss_bps of the round trip ProbeIn -> token -> out, before `as u16`.
LossBps(out) ==
  IF out >= ProbeIn THEN 0 ELSE ((ProbeIn - out) * 10000) \div ProbeIn

\* An out_amount of 0 is also what an unparsable outAmount reads as.
HoneypotRejects(buy_out, sell_out, max_bps) ==
  \/ buy_out = 0
  \/ sell_out = 0
  \/ LossBps(sell_out) % 65536 > max_bps

SizingMode == {"pct_of_target", "fixed_sol", "fixed_usd"}

\* Mutant: the fixed_usd size is rounded up.
SizeCopyRoundedUp(mode, value, amount, target_usd, sol) ==
  CASE mode = "pct_of_target" -> (value * amount) \div 100
    [] mode = "fixed_sol" -> sol
    [] mode = "fixed_usd" ->
         IF target_usd = 0 THEN 0 ELSE (value * amount + target_usd - 1) \div target_usd

\* size_copy.  sol is the amount of the input mint that value SOL buy: value
\* itself for wrapped SOL, a Jupiter quote for every other mint.
SizeCopy(mode, value, amount, target_usd, sol) ==
  CASE mode = "pct_of_target" -> (value * amount) \div 100
    [] mode = "fixed_sol" -> sol
    [] mode = "fixed_usd" ->
         IF target_usd = 0 THEN 0 ELSE (value * amount) \div target_usd

\* should_exit, with pnl_pct = 100 * (exit_usd - entry_usd) / entry_usd.
TakesProfit(tp, entry_usd, exit_usd) ==
  tp > 0 /\ 100 * (exit_usd - entry_usd) >= tp * entry_usd
StopsLoss(sl, entry_usd, exit_usd) ==
  sl > 0 /\ 100 * (entry_usd - exit_usd) >= sl * entry_usd

-----------------------------------------------------------------------------
(* Properties, for one input at a time.                                    *)

\* The loss fits u16: `loss_bps as u16` (risk.rs:122) never truncates, so a
\* total loss is never taken for a small one.
LossNeverTruncated(out) == LossBps(out) \in Nat /\ LossBps(out) <= 10000

\* A token whose probe brings back more is never rejected where one that
\* brings back less passes.
HoneypotMonotone(buy_out, out, more, max_bps) ==
  more >= out /\ ~HoneypotRejects(buy_out, out, max_bps)
    => ~HoneypotRejects(buy_out, more, max_bps)

\* A fixed_usd copy costs no more than sizing_value at the price the target's
\* trade was valued with.
FixedUsdWithinBudget(value, amount, px) ==
  SizeCopy("fixed_usd", value, amount, amount * px, 0) * px <= value

=============================================================================
