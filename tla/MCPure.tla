------------------------------- MODULE MCPure -------------------------------
(***************************************************************************)
(* The parts of the program without shared state, evaluated by TLC:        *)
(* RiskMath and ConfigLoad on one input at a time, and the decoder on the  *)
(* transactions TargetTx builds.                                           *)
(***************************************************************************)
EXTENDS RiskMath, ConfigLoad, TargetTx, TLC

CONSTANTS
  Limit,        \* bound: the largest amount of RiskMath
  MaxText       \* bound: the longest text of ConfigLoad

ASSUME BoundsAssumption == Limit \in Nat /\ MaxText \in Nat

VARIABLE input  \* of RiskMath or ConfigLoad; a transaction is built without one

vars == <<input, txvars>>

Entry ==
  {[address |-> a, valid_address |-> a # "junk", enabled |-> e, sizing_value |-> v] :
     a \in {"w1", "w2", "junk"}, e \in BOOLEAN, v \in {0, 1, NotANumber}}

Inputs ==
  [part : {"risk"}, out : 0..Limit, more : 0..Limit,
   max_bps : {0, 1, 2000, 9999, 10000, 65535}]
  \union [part : {"env"}, text : UNION {[1..n -> {OPEN, CLOSE, "A", "B"}] : n \in 0..MaxText}]
  \union [part : {"wallets"}, wallets : UNION {[1..n -> Entry] : n \in 0..2}]
NoInput == [part |-> "none"]

Init == TxInit /\ input \in Inputs \union {NoInput}
Next == input = NoInput /\ TxNext /\ UNCHANGED input
Spec == Init /\ [][Next]_vars

-----------------------------------------------------------------------------
(* The instance.                                                           *)

\* A variable whose value looks like a reference, and one with an odd name.
MCEnvironment == (<<"A">> :> <<OPEN, "B", CLOSE>>) @@ (<<OPEN, "A">> :> <<"B">>)

Form(program, op, last, from, to, a_to_b) ==
  [program |-> program, op |-> op, positions |-> 0..last, from |-> from, to |-> to,
   a_to_b |-> a_to_b]

\* Each pool program; Raydium without the open-orders account and Whirlpool's
\* swap_v2 with the token programs in front list the user's accounts where
\* the decoder does not look, and the short CLMM list ends before it looks.
MCForms ==
  {Form("RAYDIUM_AMM_V4", "swap_base_in", 17, 15, 16, FALSE),
   Form("RAYDIUM_AMM_V4", "swap_base_out", 16, 14, 15, FALSE),
   Form("RAYDIUM_CLMM", "swap_v2", 12, 3, 4, FALSE),
   Form("RAYDIUM_CLMM", "swap", 3, 2, 3, FALSE),
   Form("ORCA_WHIRLPOOL", "swap", 10, 3, 5, TRUE),
   Form("ORCA_WHIRLPOOL", "swap", 10, 5, 3, FALSE),
   Form("ORCA_WHIRLPOOL", "swap_v2", 14, 9, 7, FALSE),
   Form("METEORA_DLMM", "swap_exact_out", 12, 4, 5, FALSE)}
MCRouted == {Form("METEORA_DLMM", "swap", 12, 4, 5, FALSE)}

MCTrades ==
  {<<"WSOL", 3, "A", 3>>, <<"WSOL", 3, "A", 1>>, <<"A", 3, "WSOL", 3>>,
   <<"USDC", 3, "A", 3>>, <<"A", 3, "USDC", 3>>, <<"A", 3, "B", 3>>,
   <<"WSOL", 3, "USDC", 3>>}

\* With and without wrapped SOL and tokens.
MCWallets ==
  {("WSOL" :> h[1]) @@ ("A" :> h[2]) @@ ("USDC" :> 3) @@ ("USDT" :> Absent) @@ ("B" :> Absent) :
     h \in {<<Absent, Absent>>, <<Absent, 3>>, <<3, 3>>}}

-----------------------------------------------------------------------------
(* Properties.                                                             *)

\* risk.rs:122: the round-trip loss fits the integer it is cast to.
LossFitsU16 == input.part = "risk" => LossNeverTruncated(input.out)

\* risk.rs:157-163: the fixed_usd size stays within its budget.
BudgetKept ==
  input.part = "risk" => \A value \in 1..6 : FixedUsdWithinBudget(value, input.out, input.more)

\* config.rs:170-188: the expansion is one scan from left to right.
EnvExpandedOnce == input.part = "env" => ExpandedLikeScan(input.text)

\* config.rs:164-167 and geyser.rs:127-138 agree on the wallets to follow.
SubscribedIsDispatched ==
  input.part = "wallets" => DispatchMatches(input.wallets, {"w1", "w2", "junk"})

=============================================================================
