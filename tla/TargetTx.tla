------------------------------ MODULE TargetTx ------------------------------
(***************************************************************************)
(* One transaction of a target wallet: what its instructions do to the     *)
(* balances of the wallet on chain (fees, tips, rent, wrapping, swaps),    *)
(* the frame the stream makes of it, and what handle_tx (src/geyser.rs)    *)
(* hands to the engine.  The chain is outside of the repository and is     *)
(* modelled from what the frames carry.                                    *)
(*                                                                         *)
(* Each mint has one token account of the target and one vault, which      *)
(* holds what the target does not.                                         *)
(***************************************************************************)
EXTENDS Decoder

CONSTANTS
  Forms,        \* the swap instructions a pool program may be called with
  Routed,       \* those called by a router
  Routers,      \* Jupiter, and programs that are not known
  Trades,       \* <<input mint, amount, output mint, amount>> of a swap
  Wallets0,     \* the token accounts the wallet starts with
  Lamports0,    \* its lamports
  Fees,         \* network and priority fee of the transaction
  Tip,          \* a transfer to a block engine
  Yield,        \* what a claim pays out or a supply takes in
  Rent,         \* deposit for a token account
  Wraps,        \* amounts of SOL a wrap instruction takes
  MaxInstructions, MaxSwaps   \* bounds

Absent == -1        \* the token account does not exist
Pooled == 20        \* what the vaults hold to begin with

\* The programs with a pool of token accounts: neither a router nor a curve.
PoolPrograms == {"RAYDIUM_AMM_V4", "RAYDIUM_CLMM", "ORCA_WHIRLPOOL", "METEORA_DLMM"}

ASSUME TargetTxAssumption ==
  /\ {Lamports0, Tip, Yield, Rent, MaxInstructions, MaxSwaps} \subseteq Nat
  /\ Fees \subseteq 0..Lamports0 /\ Wraps \subseteq Nat /\ Yield > 0
  /\ Wallets0 \subseteq [Mint -> {Absent} \union Nat]

ASSUME TradesAssumption ==
  /\ Trades \subseteq Mint \X (Nat \ {0}) \X Mint \X (Nat \ {0})
  /\ \A t \in Trades : t[1] # t[3]

ASSUME ProgramsAssumption ==
  /\ \A form \in Forms \union Routed : form.program \in PoolPrograms
  /\ Routers \intersect (PoolPrograms \union {"PUMPFUN"}) = {}

\* What stands for an account that is not the wallet's, and for the vaults.
ASSUME AccountsAssumption == "KEY" \notin Tokens /\ "VAULT" \notin Tokens

VARIABLES
  phase,       \* "building", then "decoded"
  start,       \* the balances before the transaction
  lamports,    \* native balance of the wallet
  tokens,      \* mint -> balance of the wallet's account, or Absent
  vaults,      \* mint -> balance of the vaults
  outer,       \* the top-level instructions
  inner,       \* the instructions these called
  swaps,       \* the trades they made
  one_sided,   \* whether tokens moved one way only, without a trade
  moved,       \* SOL that moved beside the trades
  decoded      \* what decode_transaction answered

txvars == <<phase, start, lamports, tokens, vaults, outer, inner, swaps,
            one_sided, moved, decoded>>

Instruction(program, op, accounts, a_to_b, is_inner) ==
  [program |-> program, op |-> op, accounts |-> accounts, a_to_b |-> a_to_b,
   is_inner |-> is_inner]
Plain(program) == Instruction(program, "other", <<>>, FALSE, FALSE)

\* Jupiter takes part as a router whose instruction is not known.
Claimable == {"METEORA_DLMM", "JUPITER_V4"}
\* The sides of a pool that can be claimed or supplied alone.
Stakes == {"WSOL"} \union Tokens

\* The fee leaves the wallet first.
TxInit ==
  /\ phase = "building" /\ decoded = NoSwap
  /\ outer = <<>> /\ inner = <<>> /\ swaps = <<>>
  /\ one_sided = FALSE /\ tokens \in Wallets0
  /\ \E fee \in Fees :
       /\ lamports = Lamports0 - fee
       /\ moved = [fees |-> fee, deposits |-> 0, wrapped |-> 0, unwrapped |-> 0]
  /\ vaults = [m \in Mint |-> Pooled]
  /\ start = [lamports |-> Lamports0, tokens |-> tokens]

-----------------------------------------------------------------------------
(* Instructions.                                                           *)

Building == phase = "building" /\ Len(outer) + Len(inner) < MaxInstructions

PayTip ==
  /\ Building /\ lamports >= Tip
  /\ lamports' = lamports - Tip
  /\ moved' = [moved EXCEPT !.fees = @ + Tip]
  /\ outer' = Append(outer, Plain("SYSTEM"))
  /\ UNCHANGED <<phase, start, tokens, vaults, inner, swaps, one_sided, decoded>>

\* Deposit for the account of a mint the wallet has no account of.
Deposit(m) == IF tokens[m] = Absent THEN Rent ELSE 0
Held(m) == IF tokens[m] = Absent THEN 0 ELSE tokens[m]

Wrap(n) ==
  /\ Building /\ lamports >= n + Deposit("WSOL")
  /\ lamports' = lamports - n - Deposit("WSOL")
  /\ tokens' = [tokens EXCEPT !["WSOL"] = Held("WSOL") + n]
  /\ moved' = [moved EXCEPT !.wrapped = @ + n, !.deposits = @ + Deposit("WSOL")]
  /\ outer' = Append(outer, Plain("SYSTEM"))
  /\ UNCHANGED <<phase, start, vaults, inner, swaps, one_sided, decoded>>

\* Closing the account returns its wrapped SOL and its deposit.
Unwrap ==
  /\ Building /\ tokens["WSOL"] # Absent
  /\ lamports' = lamports + tokens["WSOL"] + Rent
  /\ tokens' = [tokens EXCEPT !["WSOL"] = Absent]
  /\ moved' = [moved EXCEPT !.unwrapped = @ + tokens["WSOL"], !.deposits = @ - Rent]
  /\ outer' = Append(outer, Plain("TOKEN"))
  /\ UNCHANGED <<phase, start, vaults, inner, swaps, one_sided, decoded>>

\* An instruction of a supported program that is no swap: fees or rewards of
\* a pool are claimed, or liquidity is added on one side.
Claim(m) ==
  /\ Building /\ ~one_sided /\ lamports >= Deposit(m) /\ vaults[m] >= Yield
  /\ one_sided' = TRUE
  /\ lamports' = lamports - Deposit(m)
  /\ tokens' = [tokens EXCEPT ![m] = Held(m) + Yield]
  /\ vaults' = [vaults EXCEPT ![m] = @ - Yield]
  /\ moved' = [moved EXCEPT !.deposits = @ + Deposit(m)]
  /\ \E program \in Claimable : outer' = Append(outer, Plain(program))
  /\ UNCHANGED <<phase, start, inner, swaps, decoded>>

Supply(m) ==
  /\ Building /\ ~one_sided /\ Held(m) >= Yield
  /\ one_sided' = TRUE
  /\ tokens' = [tokens EXCEPT ![m] = @ - Yield]
  /\ vaults' = [vaults EXCEPT ![m] = @ + Yield]
  /\ \E program \in Claimable : outer' = Append(outer, Plain(program))
  /\ UNCHANGED <<phase, start, lamports, inner, swaps, moved, decoded>>

\* The trade itself, from and to token accounts of the wallet.
Exchange(in, a, out, b) ==
  /\ Held(in) >= a /\ vaults[out] >= b /\ lamports >= Deposit(out)
  /\ lamports' = lamports - Deposit(out)
  /\ tokens' = [tokens EXCEPT ![in] = Held(in) - a, ![out] = Held(out) + b]
  /\ vaults' = [vaults EXCEPT ![in] = @ + a, ![out] = @ - b]
  /\ moved' = [moved EXCEPT !.deposits = @ + Deposit(out)]

Traded(in, a, out, b, via) ==
  /\ Len(swaps) < MaxSwaps
  /\ swaps' = Append(swaps, [in |-> in, spent |-> a, out |-> out, got |-> b, via |-> via])

\* The accounts a form lists.  The mint stands for the wallet's account of it,
\* KEY for everything that is not a token account.
FormInstruction(form, in, out, is_inner) ==
  Instruction(form.program, form.op,
              [p \in form.positions |->
                 CASE p = form.from -> in [] p = form.to -> out [] OTHER -> "KEY"],
              form.a_to_b, is_inner)

\* A pool is called at top level, by Jupiter, or by a program that is not
\* known; a Jupiter route is one of the known three or another one.
PoolSwap(form, in, a, out, b) ==
  /\ Building /\ Traded(in, a, out, b, form.program)
  /\ Exchange(in, a, out, b)
  /\ outer' = Append(outer, FormInstruction(form, in, out, FALSE))
  /\ UNCHANGED <<phase, start, inner, one_sided, decoded>>

RoutedSwap(router, form, in, a, out, b) ==
  /\ Building /\ Traded(in, a, out, b, router)
  /\ Exchange(in, a, out, b)
  /\ outer' = Append(outer, Plain(router))
  /\ inner' = Append(inner, FormInstruction(form, in, out, TRUE))
  /\ UNCHANGED <<phase, start, one_sided, decoded>>

\* Pump.fun trades native SOL against the mint at position 2.
CurveInstruction(op, mint) ==
  Instruction("PUMPFUN", op, [p \in 0..6 |-> IF p = 2 THEN mint ELSE "KEY"], FALSE, FALSE)

CurveBuy(a, mint, b) ==
  /\ Building /\ Traded("WSOL", a, mint, b, "PUMPFUN")
  /\ vaults[mint] >= b /\ lamports >= a + Deposit(mint)
  /\ lamports' = lamports - a - Deposit(mint)
  /\ tokens' = [tokens EXCEPT ![mint] = Held(mint) + b]
  /\ vaults' = [vaults EXCEPT !["WSOL"] = @ + a, ![mint] = @ - b]
  /\ moved' = [moved EXCEPT !.deposits = @ + Deposit(mint)]
  /\ outer' = Append(outer, CurveInstruction("buy", mint))
  /\ UNCHANGED <<phase, start, inner, one_sided, decoded>>

CurveSell(mint, a, b) ==
  /\ Building /\ Traded(mint, a, "WSOL", b, "PUMPFUN")
  /\ Held(mint) >= a /\ vaults["WSOL"] >= b
  /\ lamports' = lamports + b
  /\ tokens' = [tokens EXCEPT ![mint] = @ - a]
  /\ vaults' = [vaults EXCEPT !["WSOL"] = @ - b, ![mint] = @ + a]
  /\ outer' = Append(outer, CurveInstruction("sell", mint))
  /\ UNCHANGED <<phase, start, inner, one_sided, moved, decoded>>

-----------------------------------------------------------------------------
(* The frame.                                                              *)

Balances(wallet, pool) ==
  {[account |-> m, mint |-> m, owner |-> "target", amount |-> wallet[m]] :
     m \in {m \in Mint : wallet[m] # Absent}}
  \union {[account |-> "VAULT", mint |-> m, owner |-> "pool", amount |-> pool[m]] : m \in Mint}

\* Top-level instructions first, then the inner ones.
Context ==
  [signer |-> "target", pre_sol |-> start.lamports, post_sol |-> lamports,
   instructions |-> outer \o inner,
   pre |-> Balances(start.tokens, [m \in Mint |-> Pooled]),
   post |-> Balances(tokens, vaults)]

\* handle_tx of a transaction that succeeded and whose fee payer is an enabled
\* wallet.  An Err is logged and dropped.
HandleTx ==
  /\ phase = "building" /\ outer # <<>>
  /\ phase' = "decoded" /\ decoded' = DecodeTransaction(Context)
  /\ UNCHANGED <<start, lamports, tokens, vaults, outer, inner, swaps, one_sided, moved>>

\* The transaction failed, or its fee payer is no enabled wallet: its
\* instructions are not looked at (and not built here).
SkipTx ==
  /\ phase = "building" /\ outer = <<>>
  /\ phase' = "skipped"
  /\ UNCHANGED <<start, lamports, tokens, vaults, outer, inner, swaps, one_sided, moved,
                 decoded>>

-----------------------------------------------------------------------------

SwapStep ==
  \E t \in Trades :
    LET in == t[1]  a == t[2]  out == t[3]  b == t[4] IN
    \/ \E form \in Forms : PoolSwap(form, in, a, out, b)
    \/ \E router \in Routers, form \in Routed : RoutedSwap(router, form, in, a, out, b)
    \/ in = "WSOL" /\ out \in Tokens /\ CurveBuy(a, out, b)
    \/ out = "WSOL" /\ in \in Tokens /\ CurveSell(in, a, b)

TxNext ==
  \/ PayTip \/ Unwrap \/ SwapStep \/ HandleTx \/ SkipTx
  \/ \E n \in Wraps : Wrap(n)
  \/ \E m \in Stakes : Claim(m) \/ Supply(m)

-----------------------------------------------------------------------------
(* Properties.                                                             *)

\* The amounts of a swap are u64: no cast in the decoder sees a negative number.
IsSwap == decoded.kind = "swap"
TxTypeOK ==
  /\ phase \in {"building", "decoded", "skipped"}
  /\ lamports \in Nat /\ tokens \in [Mint -> {Absent} \union Nat]
  /\ vaults \in [Mint -> Nat] /\ Len(outer) + Len(inner) <= MaxInstructions + 1
  /\ Len(swaps) <= MaxSwaps /\ one_sided \in BOOLEAN
  /\ decoded.kind \in {"none", "err", "swap"}
  /\ IsSwap => {decoded.input_amount, decoded.output_amount} \subseteq Nat \ {0}

Change(m) == Held(m) - IF start.tokens[m] = Absent THEN 0 ELSE start.tokens[m]
Single == Len(swaps) = 1 /\ ~one_sided
Trade == swaps[1]
Sizable == Trade.spent > Dust /\ Trade.got > Dust

\* Whichever decoder answered, and whatever else the transaction did: a leg
\* in a token is what the wallet's own balance lost or gained.
LegsAreReal ==
  IsSwap =>
    /\ decoded.input_mint # "WSOL" => Change(decoded.input_mint) = -decoded.input_amount
    /\ decoded.output_mint # "WSOL" => Change(decoded.output_mint) = decoded.output_amount

\* The one trade of a transaction is never reported as another: a buy is not
\* taken for a sell, however SOL was wrapped and fees were paid around it.
NeverInverted ==
  IsSwap /\ Single /\ Sizable =>
    /\ decoded.input_mint = Trade.in /\ decoded.output_mint = Trade.out
    /\ decoded.direction = "Buy" <=> Trade.in \in Quotes /\ Trade.out \in Tokens
    /\ decoded.direction = "Sell" <=> Trade.in \in Tokens /\ Trade.out \in Quotes

\* The SOL leg of a trade is off by no more than the SOL the transaction moved
\* beside the trade: fees, deposits, wrapping and unwrapping.
Beside == moved.fees + Abs(moved.deposits) + moved.wrapped + moved.unwrapped
SolLegBounded ==
  IsSwap /\ Single /\ Sizable =>
    /\ decoded.input_mint = "WSOL" => Abs(decoded.input_amount - Trade.spent) <= Beside
    /\ decoded.output_mint = "WSOL" => Abs(decoded.output_amount - Trade.got) <= Beside

\* A buy with SOL that leaves the wallet with less SOL is seen, whatever
\* program made it, unless an instruction of a layout the decoder cannot read
\* comes first.
SolBuysSeen ==
  phase = "decoded" /\ Single /\ Sizable
    /\ Trade.in = "WSOL" /\ Trade.out \notin Quotes
    /\ NetDelta(Context, "WSOL") < -Dust /\ decoded # Failed
      => IsSwap /\ decoded.direction = "Buy"

\* A claim or a supply may be taken for a trade against the fees, but the SOL
\* leg of such a phantom is no more than fees and deposits, and what the
\* decoder's threshold for native SOL hides.
PhantomsAreSmall ==
  IsSwap /\ swaps = <<>> =>
    LET beside == moved.fees + Abs(moved.deposits) + Threshold IN
    /\ decoded.input_mint = "WSOL" => decoded.input_amount <= beside
    /\ decoded.output_mint = "WSOL" => decoded.output_amount <= beside

-----------------------------------------------------------------------------
(* What the documentation says and the code does not do.                   *)

\* jupiter.rs:16: "accept any Jupiter ix with a user-impacting balance delta
\* as a swap".
JupiterSwapsSeen ==
  phase = "decoded" /\ Single /\ Sizable /\ Trade.via = "JUPITER_V6" => IsSwap

=============================================================================
