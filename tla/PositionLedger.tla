--------------------------- MODULE PositionLedger ---------------------------
(***************************************************************************)
(* What the copy engine promises of its ledger, without its tasks, its     *)
(* in-memory map, crashes or configuration: an order is placed, it may be  *)
(* confirmed, a confirmed buy may become one lot, and a confirmed sale of  *)
(* a lot may become its exit.  An order may stay unconfirmed and a         *)
(* confirmed one unrecorded, and a lot may be sold more than once: how     *)
(* often is what the invariants of CopyEngine bound.  Nothing else ever    *)
(* happens: no lot disappears, changes its entry or is opened again.       *)
(***************************************************************************)
EXTENDS Naturals, Sequences

CONSTANT Keys       \* what a lot is held in: target wallet and mint

VARIABLES
  wire,     \* the orders, [side, key, row, ok]: row is the lot of a sale
  lots      \* the lots, [key, entry, exit]: orders, exit 0 while it is held

lvars == <<wire, lots>>

Init == wire = <<>> /\ lots = <<>>

Buy(k) ==
  /\ wire' = Append(wire, [side |-> "buy", key |-> k, row |-> 0, ok |-> FALSE])
  /\ UNCHANGED lots

Sell(l) ==
  /\ l \in DOMAIN lots
  /\ wire' = Append(wire, [side |-> "sell", key |-> lots[l].key, row |-> l, ok |-> FALSE])
  /\ UNCHANGED lots

Confirm(s) ==
  /\ s \in DOMAIN wire
  /\ wire' = [wire EXCEPT ![s].ok = TRUE]
  /\ UNCHANGED lots

\* A confirmed buy opens one lot.
Open(s) ==
  /\ s \in DOMAIN wire /\ wire[s].side = "buy" /\ wire[s].ok
  /\ \A l \in DOMAIN lots : lots[l].entry # s
  /\ lots' = Append(lots, [key |-> wire[s].key, entry |-> s, exit |-> 0])
  /\ UNCHANGED wire

\* A confirmed sale of the lot becomes its exit.
Close(l, s) ==
  /\ l \in DOMAIN lots /\ s \in DOMAIN wire
  /\ wire[s].side = "sell" /\ wire[s].ok /\ wire[s].row = l
  /\ lots' = [lots EXCEPT ![l].exit = s]
  /\ UNCHANGED wire

Next ==
  \/ \E k \in Keys : Buy(k)
  \/ \E l \in DOMAIN lots : Sell(l)
  \/ \E s \in DOMAIN wire : Confirm(s) \/ Open(s) \/ \E l \in DOMAIN lots : Close(l, s)

Spec == Init /\ [][Next]_lvars

=============================================================================
