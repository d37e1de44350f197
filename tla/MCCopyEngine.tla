---------------------------- MODULE MCCopyEngine ----------------------------
(***************************************************************************)
(* Instances of CopyEngine for TLC: one or two target wallets, and the    *)
(* configurations a run may be started with.                               *)
(***************************************************************************)
EXTENDS CopyEngine, TLC

CONSTANTS w1, w2, m1

\* A wallet with both levels set.
MCWallet(strategy) ==
  [enabled |-> TRUE, exit_strategy |-> strategy, take_profit |-> TRUE,
   stop_loss |-> TRUE, blocked_tokens |-> {}]

MCConfig(dry, wallets) ==
  [dry_run |-> dry, wallets |-> wallets]

One == {w1}
Two == {w1, w2}
OneMint == {m1}

\* One wallet with both ways out; a restart may block the mint for it.
BothExits ==
  {MCConfig(FALSE, [w \in One |-> [MCWallet("mirror_then_tp_sl") EXCEPT !.blocked_tokens = b]]) :
     b \in {{}, OneMint}}

\* Two wallets with different ways out, live and --dry-run.  The second has no
\* stop-loss; a restart may change its way out and turn the first off.
TwoWallet(dry, enabled, strategy) ==
  MCConfig(dry, (w1 :> [MCWallet("mirror_then_tp_sl") EXCEPT !.enabled = enabled])
                  @@ (w2 :> [MCWallet(strategy) EXCEPT !.stop_loss = FALSE]))
TwoWallets ==
  {TwoWallet(FALSE, TRUE, "tp_sl"), TwoWallet(FALSE, FALSE, "mirror"),
   TwoWallet(TRUE, TRUE, "tp_sl")}

\* Only TP/SL exits.
TpSlOnly == {MCConfig(FALSE, [w \in One |-> MCWallet("tp_sl")])}

=============================================================================
