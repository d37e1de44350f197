---------------------------- MODULE MCDashboard ----------------------------
(***************************************************************************)
(* An instance of Dashboard for TLC: one wallet with both ways out.        *)
(***************************************************************************)
EXTENDS Dashboard

CONSTANTS w1, m1

One == {w1}
OneMint == {m1}
BothExits ==
  {[dry_run |-> FALSE,
    wallets |-> [w \in One |->
      [enabled |-> TRUE, exit_strategy |-> "mirror_then_tp_sl", take_profit |-> TRUE,
       stop_loss |-> TRUE, blocked_tokens |-> {}]]]}

=============================================================================
