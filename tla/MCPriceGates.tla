---------------------------- MODULE MCPriceGates ----------------------------
(***************************************************************************)
(* Instances of PriceGates for TLC.  One tick stands for as long as it     *)
(* takes a cached price to expire halfway.                                 *)
(***************************************************************************)
EXTENDS PriceGates

MCPrices == {1, 3}
MCAmounts == {0, 2, 4}
BuyAmounts == {1, 4}
MCOuts == {0, 6}
MCProbeOuts == {0, 10}
PctOnly == {"pct_of_target"}
FixedModes == {"fixed_sol", "fixed_usd"}

=============================================================================
