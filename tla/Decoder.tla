------------------------------ MODULE Decoder ------------------------------
(***************************************************************************)
(* The decoder of copycat-trader (src/decoder/): from what one transaction *)
(* did to the balances of its signer to a swap with a direction.           *)
(*                                                                         *)
(* A frame ctx is a record                                                 *)
(*   signer, pre_sol, post_sol   the fee payer and its lamports;           *)
(*   instructions                [program, op, accounts, a_to_b, is_inner];*)
(*   pre, post                   sets of [account, mint, owner, amount].   *)
(* op names the discriminator ("short" when the data is too short for      *)
(* one), accounts maps the positions of the layout to accounts, and the    *)
(* key of a mint account is the mint.  Key indices of a transaction that   *)
(* was executed are in range.                                              *)
(***************************************************************************)
EXTENDS Integers, Sequences, FiniteSetsExt

CONSTANTS
  Threshold,    \* 5_000 lamports: a smaller change of native SOL is dropped
  Dust,         \* 1: a leg has to be larger
  Tokens        \* mints that are not quote mints

ASSUME DecoderAssumption == Threshold \in Nat /\ Dust \in Nat

Quotes == {"WSOL", "USDC", "USDT"}
ASSUME TokensAssumption == Tokens \intersect Quotes = {} /\ IsFiniteSet(Tokens)

Mint == Quotes \union Tokens

Programs ==
  {"JUPITER_V6", "JUPITER_V4", "RAYDIUM_AMM_V4", "RAYDIUM_CLMM",
   "ORCA_WHIRLPOOL", "METEORA_DLMM", "PUMPFUN"}

\* What a decoder answers: Ok(None), Err, or Ok(Some(swap)).
NoSwap == [kind |-> "none"]
Failed == [kind |-> "err"]
Swap(dex, direction, in, in_amount, out, out_amount) ==
  [kind |-> "swap", dex |-> dex, direction |-> direction,
   input_mint |-> in, input_amount |-> in_amount,
   output_mint |-> out, output_amount |-> out_amount]

-----------------------------------------------------------------------------
(* Balances.                                                               *)

SolDelta(ctx) == ctx.post_sol - ctx.pre_sol

Amount(b) == b.amount

\* Mutant: what the signer had before is not subtracted.
SignerTokenBalance(ctx, mint) ==
  MapThenSumSet(Amount, {b \in ctx.post : b.owner = ctx.signer /\ b.mint = mint})

SignerTokenDelta(ctx, mint) ==
  LET Of(balances) == {b \in balances : b.owner = ctx.signer /\ b.mint = mint} IN
  MapThenSumSet(Amount, Of(ctx.post)) - MapThenSumSet(Amount, Of(ctx.pre))

\* balance_mint_for, mint_of: the mints `account` is listed with; empty for a
\* token account that did not exist before and does not exist afterwards.
MintsOf(ctx, account) ==
  {b.mint : b \in {b \in ctx.post \union ctx.pre : b.account = account}}

Abs(n) == IF n < 0 THEN -n ELSE n

\* Mutant: insert() in place of += for the native change.
NetDeltaReplaced(ctx, mint) ==
  IF mint = "WSOL" /\ Abs(SolDelta(ctx)) > Threshold THEN SolDelta(ctx)
  ELSE SignerTokenDelta(ctx, mint)

\* Token and native change of a mint; native SOL counts as wrapped SOL.
NetDelta(ctx, mint) ==
  SignerTokenDelta(ctx, mint)
    + IF mint = "WSOL" /\ Abs(SolDelta(ctx)) > Threshold THEN SolDelta(ctx) ELSE 0

\* Mutant: the quote side is taken for the token side.
ClassifyReversed(in, out) ==
  CASE in \in Quotes /\ out \notin Quotes -> "Sell"
    [] in \notin Quotes /\ out \in Quotes -> "Buy"
    [] OTHER -> "Unknown"

Classify(in, out) ==
  CASE in \in Quotes /\ out \notin Quotes -> "Buy"
    [] in \notin Quotes /\ out \in Quotes -> "Sell"
    [] OTHER -> "Unknown"

\* Exactly one mint went down and exactly one went up.
InferFromBalanceDeltas(ctx) ==
  LET negs == {m \in Mint : NetDelta(ctx, m) < -Dust}
      poss == {m \in Mint : NetDelta(ctx, m) > Dust}
  IN IF Cardinality(negs) # 1 \/ Cardinality(poss) # 1 THEN NoSwap
     ELSE LET in  == CHOOSE m \in negs : TRUE
              out == CHOOSE m \in poss : TRUE
          IN Swap("Unknown", Classify(in, out), in, -NetDelta(ctx, in),
                  out, NetDelta(ctx, out))

-----------------------------------------------------------------------------
(* Per-program decoders.                                                   *)

\* Mutant: a wrapped SOL input is always read off the native change.
BuildSwapNative(ctx, dex, in, out) ==
  LET in_amount  == IF in = "WSOL" THEN -SolDelta(ctx) ELSE -SignerTokenDelta(ctx, in)
      out_amount == SignerTokenDelta(ctx, out)
  IN IF in_amount <= 0 \/ out_amount <= 0 THEN NoSwap
     ELSE Swap(dex, Classify(in, out), in, in_amount, out, out_amount)

\* Mutant: any change of the output mint will do.
BuildSwapUnsigned(ctx, dex, in, out) ==
  LET in_delta   == SignerTokenDelta(ctx, in)
      in_amount  == IF in_delta >= 0 /\ in = "WSOL" THEN -SolDelta(ctx) ELSE -in_delta
      out_amount == SignerTokenDelta(ctx, out)
  IN IF in_amount <= 0 \/ out_amount = 0 THEN NoSwap
     ELSE Swap(dex, Classify(in, out), in, in_amount, out, out_amount)

\* build_swap: only the input leg falls back to the native change.
BuildSwap(ctx, dex, in, out) ==
  LET in_delta   == SignerTokenDelta(ctx, in)
      in_amount  == IF in_delta >= 0 /\ in = "WSOL" THEN -SolDelta(ctx) ELSE -in_delta
      out_amount == SignerTokenDelta(ctx, out)
  IN IF in_amount <= 0 \/ out_amount <= 0 THEN NoSwap
     ELSE Swap(dex, Classify(in, out), in, in_amount, out, out_amount)

\* The shape the pool decoders share: the user's two token accounts are read
\* at positions `from` and `to`, and their mints looked up in the balances.
FromAccounts(ctx, ix, dex, ops, from, to) ==
  IF ix.op \notin ops THEN NoSwap
  ELSE IF {from, to} \subseteq DOMAIN ix.accounts
  THEN LET in  == MintsOf(ctx, ix.accounts[from])
           out == MintsOf(ctx, ix.accounts[to])
       IN IF {} \in {in, out} THEN NoSwap
          ELSE BuildSwap(ctx, dex, CHOOSE m \in in : TRUE, CHOOSE m \in out : TRUE)
  ELSE Failed

DecodeAmm(ctx, ix) ==
  FromAccounts(ctx, ix, "RaydiumAmm", {"swap_base_in", "swap_base_out"}, 15, 16)

DecodeClmm(ctx, ix) ==
  FromAccounts(ctx, ix, "RaydiumClmm", {"swap", "swap_v2"}, 3, 4)

DecodeOrca(ctx, ix) ==
  LET a == IF ix.op = "swap" THEN 3 ELSE 4
      b == IF ix.op = "swap" THEN 5 ELSE 6
  IN FromAccounts(ctx, ix, "OrcaWhirlpool", {"swap", "swap_v2"},
                  IF ix.a_to_b THEN a ELSE b, IF ix.a_to_b THEN b ELSE a)

DecodeMeteora(ctx, ix) ==
  FromAccounts(ctx, ix, "MeteoraDlmm",
               {"swap", "swap_exact_out", "swap_with_price_impact"}, 4, 5)

\* The bonding curve trades native SOL; the mint is the account at position 2.
DecodePumpFun(ctx, ix) ==
  IF ix.op \notin {"buy", "sell"} THEN NoSwap
  ELSE IF 2 \notin DOMAIN ix.accounts THEN Failed
  ELSE LET mint == ix.accounts[2]
           tok  == SignerTokenDelta(ctx, mint)
           sol  == SolDelta(ctx)
       IN CASE ix.op = "buy" /\ sol < 0 /\ tok > 0 ->
                 Swap("PumpFun", "Buy", "WSOL", -sol, mint, tok)
            [] ix.op = "sell" /\ sol > 0 /\ tok < 0 ->
                 Swap("PumpFun", "Sell", mint, -tok, "WSOL", sol)
            [] OTHER -> NoSwap

\* Any instruction with a discriminator will do, known or not.
DecodeJupiter(ctx, ix) ==
  LET inferred == InferFromBalanceDeltas(ctx) IN
  IF ix.op = "short" \/ inferred = NoSwap THEN NoSwap
  ELSE [inferred EXCEPT !.dex = "Jupiter"]

-----------------------------------------------------------------------------
(* The cascade.                                                            *)

DecodeInstruction(ctx, ix) ==
  CASE ix.program \in {"JUPITER_V6", "JUPITER_V4"} -> DecodeJupiter(ctx, ix)
    [] ix.program = "RAYDIUM_AMM_V4" -> DecodeAmm(ctx, ix)
    [] ix.program = "RAYDIUM_CLMM"   -> DecodeClmm(ctx, ix)
    [] ix.program = "ORCA_WHIRLPOOL" -> DecodeOrca(ctx, ix)
    [] ix.program = "METEORA_DLMM"   -> DecodeMeteora(ctx, ix)
    [] ix.program = "PUMPFUN"        -> DecodePumpFun(ctx, ix)
    [] OTHER -> NoSwap

\* Mutant: nothing is inferred for a program the cascade passed over.
DecodeWithoutFallback(ctx) ==
  LET ixs == ctx.instructions
      settled == {i \in DOMAIN ixs :
                    ~ixs[i].is_inner /\ DecodeInstruction(ctx, ixs[i]) # NoSwap}
  IN IF settled # {} THEN DecodeInstruction(ctx, ixs[Min(settled)]) ELSE NoSwap

\* The first top-level instruction with an answer settles it, an Err included
\* (`?` leaves the function before the fallback).
DecodeTransaction(ctx) ==
  LET ixs == ctx.instructions
      settled == {i \in DOMAIN ixs :
                    ~ixs[i].is_inner /\ DecodeInstruction(ctx, ixs[i]) # NoSwap}
  IN IF settled # {} THEN DecodeInstruction(ctx, ixs[Min(settled)])
     ELSE IF \E i \in DOMAIN ixs : ixs[i].program \in Programs
          THEN InferFromBalanceDeltas(ctx) ELSE NoSwap

=============================================================================
