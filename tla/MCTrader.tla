------------------------------ MODULE MCTrader ------------------------------
(***************************************************************************)
(* Instances of Trader for TLC.                                            *)
(***************************************************************************)
EXTENDS Trader

CONSTANTS w1, m1

One == {w1}
OneMint == {m1}

MCConfig(strategy) ==
  [dry_run |-> FALSE,
   wallets |-> [w \in One |->
     [enabled |-> TRUE, exit_strategy |-> strategy, take_profit |-> TRUE,
      stop_loss |-> TRUE, blocked_tokens |-> {}]]]

Mirror == {MCConfig("mirror")}

Did(sides) == [n \in DOMAIN sides |-> [key |-> <<w1, m1>>, side |-> sides[n]]]

\* Two lots and a sell; a round trip and one more buy.
MCScripts == {Did(<<"buy", "buy", "sell">>), Did(<<"buy", "sell", "buy">>)}

=============================================================================
