-------------------------- MODULE CopyEngineProofs --------------------------
(***************************************************************************)
(* Theorems about CopyEngine for every set of wallets, mints and           *)
(* configurations and every bound: the inductive invariant LedgerInv, what *)
(* it says of the tables and the wire, and that CopyEngine implements      *)
(* PositionLedger.                                                         *)
(***************************************************************************)
EXTENDS CopyEngine, SequenceTheorems, TLAPS

-----------------------------------------------------------------------------
(* Sequences: what Append and a field update keep.                         *)

\* Append extends a sequence by one element and keeps the others.
LEMMA AppendKeeps ==
  ASSUME NEW S, NEW q \in Seq(S), NEW e \in S
  PROVE  /\ Append(q, e) \in Seq(S)
         /\ Len(Append(q, e)) = Len(q) + 1 /\ Len(q) \in Nat
         /\ DOMAIN q = 1..Len(q) /\ DOMAIN Append(q, e) = 1..(Len(q) + 1)
         /\ \A i \in DOMAIN q : Append(q, e)[i] = q[i]
         /\ Append(q, e)[Len(q) + 1] = e
BY AppendProperties, LenProperties

\* An update of one element by a value of the element type stays a sequence
\* of the same length.
LEMMA ExceptKeeps ==
  ASSUME NEW S, NEW q \in Seq(S), NEW n, NEW v, n \in DOMAIN q => v \in S
  PROVE  /\ [q EXCEPT ![n] = v] \in Seq(S)
         /\ Len([q EXCEPT ![n] = v]) = Len(q)
         /\ DOMAIN [q EXCEPT ![n] = v] = DOMAIN q
<1>1. CASE n \in DOMAIN q
  BY <1>1, ExceptSeq
<1>2. CASE n \notin DOMAIN q
  <2>1. q = [i \in 1..Len(q) |-> q[i]] /\ DOMAIN q = 1..Len(q)
    BY LenProperties
  <2>2. [q EXCEPT ![n] = v] = q
    BY <1>2, <2>1
  <2> QED BY <2>2
<1> QED BY <1>1, <1>2

-----------------------------------------------------------------------------
(* Types.                                                                  *)

\* A busy engine works on a wallet and a mint.
BusyOnKey == engine.pc # "idle" => engine.key \in Keys

\* The fields of the configuration that the actions read.
LEMMA ConfigTypes ==
  ASSUME TypeOK, NEW k \in Keys
  PROVE  /\ k[1] \in Wallets /\ k[2] \in Mints
         /\ Wcfg(k) \in WalletCfg
<1>1. k[1] \in Wallets /\ k[2] \in Mints
  BY DEF Keys
<1>2. cfg \in Config
  BY ConfigsAssumption DEF TypeOK
<1>3. Wcfg(k) \in WalletCfg
  BY <1>1, <1>2 DEF Wcfg, Config
<1> QED BY <1>1, <1>3

\* What is put on the wire is a submission.
LEMMA SubmitTypes ==
  ASSUME sent \in Seq(Submission), NEW side \in {"buy", "sell"},
         NEW key \in Keys, NEW id \in Nat, Submit(side, key, id)
  PROVE  sent' \in Seq(Submission)
<1>1. [side |-> side, key |-> key, row |-> id, ok |-> FALSE]
        \in Submission
  BY DEF Submission
<1> QED BY <1>1, AppendKeeps DEF Submit

\* An acknowledgement keeps the sequence of submissions one.
LEMMA AcknowledgeTypes ==
  ASSUME sent \in Seq(Submission), NEW sig, Acknowledge(sig)
  PROVE  /\ sent' \in Seq(Submission) /\ Len(sent') = Len(sent)
         /\ DOMAIN sent' = DOMAIN sent
<1> DEFINE v == [sent[sig] EXCEPT !.ok = TRUE]
<1>1. sig \in DOMAIN sent => v \in Submission
  <2> SUFFICES ASSUME sig \in DOMAIN sent PROVE v \in Submission
    OBVIOUS
  <2>1. sent[sig] \in Submission
    BY ElementOfSeq, LenProperties
  <2> QED BY <2>1 DEF Submission
<1>2. sent' = [sent EXCEPT ![sig] = v]
  BY DEF Acknowledge
<1> QED BY <1>1, <1>2, ExceptKeeps

\* Closing keeps the rows rows.
LEMMA CloseTypes ==
  ASSUME rows \in Seq(Position), NEW id, NEW sig \in Nat, ClosePosition(id, sig)
  PROVE  /\ rows' \in Seq(Position) /\ Len(rows') = Len(rows)
         /\ DOMAIN rows' = DOMAIN rows
<1> DEFINE v == [rows[id] EXCEPT !.open = FALSE, !.exit_sig = sig]
<1>1. id \in DOMAIN rows => v \in Position
  <2> SUFFICES ASSUME id \in DOMAIN rows PROVE v \in Position
    OBVIOUS
  <2>1. rows[id] \in Position
    BY ElementOfSeq, LenProperties
  <2> QED BY <2>1 DEF Position
<1>2. rows' = [rows EXCEPT ![id] = v]
  BY DEF ClosePosition
<1> QED BY <1>1, <1>2, ExceptKeeps

TypeInv == TypeOK /\ BusyOnKey

\* The first state has the types.
LEMMA TypeInit == Init => TypeInv
<1> SUFFICES ASSUME Init PROVE TypeInv
  OBVIOUS
<1> USE DEF Init, TypeInv
<1>1. 0 \in 0..MaxRuns /\ 0 \in 0..MaxFaults
  BY BoundsAssumption
<1>2. rows \in Seq(Position) /\ sent \in Seq(Submission)
  BY EmptySeq
<1>3. engine \in EngineTask /\ tp_sl \in TpSlTask
  BY DEF Idle, Wait, EngineTask, TpSlTask, NoRow
<1>4. open_positions \in [Keys -> Nat]
  BY DEF NoPositions, NoRow
<1> QED BY <1>1, <1>2, <1>3, <1>4 DEF TypeOK, BusyOnKey, Idle

\* Every step keeps the types.
LEMMA TypeStep == TypeInv /\ [Next]_vars => TypeInv'
<1> SUFFICES ASSUME TypeOK, BusyOnKey, [Next]_vars PROVE TypeOK' /\ BusyOnKey'
  BY DEF TypeInv
<1> USE DEF TypeOK, BusyOnKey, control, durable
<1>a. Idle \in EngineTask /\ Wait \in TpSlTask /\ NoPositions \in [Keys -> Nat]
  BY DEF Idle, Wait, EngineTask, TpSlTask, NoPositions, NoRow
<1>b. Fault => faults' \in 0..MaxFaults
  BY BoundsAssumption DEF Fault
<1>c. Len(sent) \in Nat /\ Len(rows) \in Nat
  BY LenProperties
<1>d. \A r \in DOMAIN rows : rows[r] \in Position /\ r \in Nat
  BY ElementOfSeq, LenProperties
<1>e. ASSUME NEW side \in {"buy", "sell"}, NEW key \in Keys, NEW id \in Nat,
             Submit(side, key, id)
      PROVE  sent' \in Seq(Submission)
  BY <1>e, SubmitTypes
<1>f. ASSUME NEW sig, Acknowledge(sig) PROVE sent' \in Seq(Submission)
  BY <1>f, AcknowledgeTypes
<1>1. CASE Start
  BY <1>1, <1>a, BoundsAssumption DEF Start, MemoryLost, Idle
<1>2. CASE Shutdown
  BY <1>2, <1>a DEF Shutdown, MemoryLost, Idle
<1>3. CASE Crash
  BY <1>3, <1>a DEF Crash, MemoryLost, Idle
<1>4. ASSUME NEW w \in Wallets, CooldownElapses(w) PROVE TypeOK' /\ BusyOnKey'
  BY <1>4 DEF CooldownElapses
<1>5. ASSUME NEW w \in Wallets, NEW m \in Mints, OnTargetBuy(w, m)
      PROVE  TypeOK' /\ BusyOnKey'
  <2>1. <<w, m>> \in Keys
    BY DEF Keys
  <2>2. sent' \in Seq(Submission)
    BY <1>5, <1>e, <2>1, ConfigTypes DEF OnTargetBuy, NoRow
  <2>3. engine' \in EngineTask /\ engine'.key \in Keys
    BY <1>5, <1>c, <2>1 DEF OnTargetBuy, EngineTask, BuyPC, NoRow
  <2> QED BY <1>5, <2>2, <2>3 DEF OnTargetBuy
<1>6. CASE BuyAnswered
  <2>1. sent' \in Seq(Submission)
    BY <1>6, <1>f DEF BuyAnswered
  <2>2. last_copy' \subseteq Wallets
    BY <1>6, ConfigTypes DEF BuyAnswered
  <2> QED BY <1>6, <2>1, <2>2 DEF BuyAnswered, EngineTask, BuyPC
<1>7. CASE BuyUnanswered
  BY <1>7, <1>a, <1>b DEF BuyUnanswered, Idle
<1>8. CASE BuyPersist
  <2>1. engine.key \in Keys /\ engine.sig \in Nat
    BY <1>8 DEF BuyPersist, EngineTask
  <2>2. Wcfg(engine.key) \in WalletCfg
    BY <2>1, ConfigTypes
  <2>3. PICK priced \in BOOLEAN : rows' = Append(rows,
          [key |-> engine.key, entry_sig |-> engine.sig, priced |-> priced,
           tp |-> Wcfg(engine.key).take_profit, sl |-> Wcfg(engine.key).stop_loss,
           open |-> TRUE, exit_sig |-> 0])
    BY <1>8 DEF BuyPersist
  <2>4. rows' \in Seq(Position)
    BY <2>1, <2>2, <2>3, AppendKeeps DEF Position, WalletCfg
  <2>5. engine' = [pc |-> "buy_track", key |-> engine.key, id |-> Len(rows) + 1,
                   sig |-> engine.sig]
    BY <1>8 DEF BuyPersist, EngineTask
  <2>6. engine' \in EngineTask /\ engine'.key \in Keys
    BY <1>c, <2>1, <2>5 DEF EngineTask, BuyPC
  <2> QED BY <1>8, <2>4, <2>6 DEF BuyPersist
<1>9. CASE BuyPersistFails
  BY <1>9, <1>a, <1>b DEF BuyPersistFails, Idle
<1>10. CASE BuyTrack
  <2>1. open_positions' \in [Keys -> Nat] /\ copy_log' \subseteq Nat
    BY <1>10 DEF BuyTrack, EngineTask
  <2> QED BY <1>10, <1>a, <1>b, <2>1 DEF BuyTrack, Idle
<1>11. ASSUME NEW w \in Wallets, NEW m \in Mints, OnTargetSell(w, m)
       PROVE  TypeOK' /\ BusyOnKey'
  BY <1>11 DEF OnTargetSell, EngineTask, SellPC, Keys
<1>12. CASE MirrorFindsRow
  BY <1>12 DEF MirrorFindsRow, EngineTask, SellPC
<1>13. CASE MirrorRowGone
  BY <1>13, <1>a DEF MirrorRowGone, Idle
<1>14. CASE MirrorReadFails
  BY <1>14, <1>a, <1>b DEF MirrorReadFails, Idle
<1>15. CASE MirrorSend
  <2>1. sent' \in Seq(Submission)
    BY <1>15, <1>e, ConfigTypes DEF MirrorSend, EngineTask
  <2>2. engine' = [pc |-> "sell_sent", key |-> engine.key, id |-> engine.id,
                   sig |-> Len(sent) + 1]
    BY <1>15 DEF MirrorSend, EngineTask
  <2>3. engine' \in EngineTask /\ engine'.key \in Keys
    BY <1>15, <1>c, <2>2 DEF MirrorSend, EngineTask, SellPC
  <2> QED BY <1>15, <2>1, <2>3 DEF MirrorSend
<1>16. CASE MirrorNotSent
  BY <1>16, <1>a DEF MirrorNotSent, Idle
<1>17. CASE MirrorAnswered
  <2>1. sent' \in Seq(Submission)
    BY <1>17, <1>f DEF MirrorAnswered
  <2> QED BY <1>17, <2>1 DEF MirrorAnswered, EngineTask, SellPC
<1>18. CASE MirrorUnanswered
  BY <1>18, <1>a, <1>b DEF MirrorUnanswered, Idle
<1>19. CASE MirrorClose
  <2>1. rows' \in Seq(Position)
    BY <1>19, CloseTypes DEF MirrorClose, EngineTask
  <2> QED BY <1>19, <2>1 DEF MirrorClose, EngineTask, SellPC
<1>20. CASE MirrorCloseFails
  BY <1>20, <1>a, <1>b DEF MirrorCloseFails, Idle
<1>21. CASE MirrorForget
  BY <1>21, <1>a DEF MirrorForget, Idle, NoRow
<1>22. CASE PassStart
  <2>1. OpenIds \subseteq Nat
    BY <1>d DEF OpenIds
  <2> QED BY <1>22, <2>1 DEF PassStart, TpSlTask
<1>23. ASSUME NEW r \in DOMAIN rows, PassSkip(r) PROVE TypeOK' /\ BusyOnKey'
  BY <1>23 DEF PassSkip, TpSlTask
<1>24. ASSUME NEW r \in DOMAIN rows, PassSell(r) PROVE TypeOK' /\ BusyOnKey'
  <2>1. rows[r].key \in Keys /\ r \in Nat
    BY <1>d DEF Position
  <2>2. sent' \in Seq(Submission)
    BY <1>24, <1>e, <2>1, ConfigTypes DEF PassSell
  <2> QED BY <1>24, <1>c, <2>1, <2>2 DEF PassSell, TpSlTask
<1>25. CASE ExitAnswered
  <2>1. sent' \in Seq(Submission)
    BY <1>25, <1>f DEF ExitAnswered
  <2> QED BY <1>25, <2>1 DEF ExitAnswered, TpSlTask
<1>26. CASE ExitUnanswered
  BY <1>26, <1>b DEF ExitUnanswered, TpSlTask, Wait, NoRow
<1>27. CASE ExitClose
  <2>1. rows' \in Seq(Position)
    BY <1>27, CloseTypes DEF ExitClose, TpSlTask
  <2> QED BY <1>27, <2>1 DEF ExitClose, TpSlTask
<1>28. CASE ExitCloseFails
  BY <1>28, <1>a, <1>b DEF ExitCloseFails
<1>29. CASE ExitForget
  BY <1>29 DEF ExitForget, TpSlTask, Wait, NoRow
<1>30. CASE PassEnd
  BY <1>30, <1>a DEF PassEnd
<1>31. CASE UNCHANGED vars
  BY <1>31 DEF vars
<1> QED
  BY <1>1, <1>2, <1>3, <1>4, <1>5, <1>6, <1>7, <1>8, <1>9, <1>10, <1>11, <1>12,
     <1>13, <1>14, <1>15, <1>16, <1>17, <1>18, <1>19, <1>20, <1>21, <1>22, <1>23,
     <1>24, <1>25, <1>26, <1>27, <1>28, <1>29, <1>30, <1>31
  DEF Next, ProcessStep, BuyStep, MirrorStep, ExitStep

\* The types hold in every reachable state (the state of engine.rs and of the
\* tables of db.rs is always well formed).
THEOREM TypesCorrect == Spec => []TypeOK
<1>1. TypeInv => TypeOK
  BY DEF TypeInv
<1> QED BY <1>1, TypeInit, TypeStep, PTL DEF Spec

-----------------------------------------------------------------------------
(* A dry run.                                                              *)

\* What makes the property inductive: a dry run never leaves its idle states
\* and never gets a map entry, because only a live buy makes one.
DryRunQuiet ==
  cfg.dry_run =>
    engine.pc = "idle" /\ tp_sl.pc = "wait" /\ open_positions = NoPositions

\* At the start nothing is in flight, dry or not.
LEMMA DryRunQuietInit == Init => DryRunQuiet
BY DEF Init, DryRunQuiet, Idle, Wait

\* Every step keeps a dry run quiet, and a quiet dry run sends nothing.
LEMMA DryRunQuietStep ==
  DryRunQuiet /\ [Next]_vars => DryRunQuiet' /\ (cfg.dry_run => sent' = sent)
<1> SUFFICES ASSUME DryRunQuiet, [Next]_vars
             PROVE  DryRunQuiet' /\ (cfg.dry_run => sent' = sent)
  OBVIOUS
<1> USE DEF DryRunQuiet, control, durable
<1>1. CASE ProcessStep
  BY <1>1 DEF ProcessStep, Start, Shutdown, Crash, MemoryLost, Idle, Wait
<1>2. CASE BuyStep
  BY <1>2 DEF BuyStep, BuyAnswered, BuyUnanswered, BuyPersist, BuyPersistFails, BuyTrack
<1>3. CASE MirrorStep
  BY <1>3 DEF MirrorStep, MirrorFindsRow, MirrorRowGone, MirrorReadFails, MirrorSend,
     MirrorNotSent, MirrorAnswered, MirrorUnanswered, MirrorClose, MirrorCloseFails,
     MirrorForget
<1>4. CASE ExitStep
  BY <1>4 DEF ExitStep, PassStart, PassEnd, ExitAnswered, ExitUnanswered, ExitClose,
     ExitCloseFails, ExitForget
<1>5. ASSUME NEW w \in Wallets, CooldownElapses(w)
      PROVE  DryRunQuiet' /\ (cfg.dry_run => sent' = sent)
  BY <1>5 DEF CooldownElapses
<1>6. ASSUME NEW w \in Wallets, NEW m \in Mints, OnTargetBuy(w, m)
      PROVE  DryRunQuiet' /\ (cfg.dry_run => sent' = sent)
  BY <1>6 DEF OnTargetBuy
<1>7. ASSUME NEW w \in Wallets, NEW m \in Mints, OnTargetSell(w, m)
      PROVE  DryRunQuiet' /\ (cfg.dry_run => sent' = sent)
  BY <1>7 DEF OnTargetSell, NoPositions, Keys
<1>8. ASSUME NEW r \in DOMAIN rows, PassSkip(r) \/ PassSell(r)
      PROVE  DryRunQuiet' /\ (cfg.dry_run => sent' = sent)
  BY <1>8 DEF PassSkip, PassSell, IsNext
<1>9. CASE UNCHANGED vars
  BY <1>9 DEF vars
<1> QED BY <1>1, <1>2, <1>3, <1>4, <1>5, <1>6, <1>7, <1>8, <1>9 DEF Next

\* A process started with --dry-run never puts a swap on the wire, whatever
\* the tables hold from live runs before it (engine.rs:208, 307, 389).
THEOREM DryRunSafe == Spec => DryRunSubmitsNothing
<1>1. DryRunQuiet /\ [Next]_vars => DryRunQuiet'
  BY DryRunQuietStep
<1>2. DryRunQuiet /\ [Next]_vars => [cfg.dry_run => sent' = sent]_vars
  BY DryRunQuietStep
<1> QED BY <1>1, <1>2, DryRunQuietInit, PTL DEF Spec, DryRunSubmitsNothing

-----------------------------------------------------------------------------
(* The ledger.                                                             *)

\* A buy between its submission and its map entry: its swap is on the wire,
\* it has no row before BuyPersist and the newest row after it.
BuyInFlight ==
  /\ engine.pc \in BuyPC => engine.sig \in Buys /\ sent[engine.sig].key = engine.key
  /\ engine.pc \in {"buy_persist", "buy_track"} => sent[engine.sig].ok
  /\ engine.pc \in {"buy_sent", "buy_persist"} =>
       \A i \in DOMAIN rows : rows[i].entry_sig # engine.sig
  /\ engine.pc = "buy_track" =>
       engine.id \in DOMAIN rows /\ engine.id = Len(rows) /\ rows[engine.id].key = engine.key
         /\ rows[engine.id].entry_sig = engine.sig

\* A mirrored sell works on one row of its key.
SaleInFlight ==
  /\ engine.pc \in SellPC => engine.id \in DOMAIN rows /\ rows[engine.id].key = engine.key
  /\ engine.pc \in {"sell_sent", "sell_close"} => engine.sig \in Sales(engine.id)
  /\ engine.pc = "sell_close" => sent[engine.sig].ok

\* The TP/SL task works on rows that exist.
ExitInFlight ==
  /\ tp_sl.scan \subseteq DOMAIN rows
  /\ tp_sl.pc \in {"exit_sent", "exit_close"} =>
       tp_sl.id \in DOMAIN rows /\ tp_sl.sig \in Sales(tp_sl.id)
  /\ tp_sl.pc = "exit_close" => sent[tp_sl.sig].ok

\* The map names rows of its keys.
MapSound ==
  \A k \in Keys : open_positions[k] # NoRow =>
    open_positions[k] \in DOMAIN rows /\ rows[open_positions[k]].key = k

LedgerInv ==
  /\ TypeInv /\ LedgerJustified /\ BuyInFlight /\ SaleInFlight /\ ExitInFlight
  /\ MapSound /\ NewestLotTracked

-----------------------------------------------------------------------------
(* What a step may do to the wire and to the table, and what that keeps.   *)

WireKept ==
  /\ DOMAIN sent \subseteq DOMAIN sent'
  /\ \A s \in DOMAIN sent :
       /\ sent'[s].side = sent[s].side /\ sent'[s].key = sent[s].key
       /\ sent'[s].row = sent[s].row /\ (sent[s].ok => sent'[s].ok)

RowsKept ==
  /\ DOMAIN rows' = DOMAIN rows /\ Len(rows') = Len(rows)
  /\ \A i \in DOMAIN rows :
       rows'[i].key = rows[i].key /\ rows'[i].entry_sig = rows[i].entry_sig

\* A submission is appended; its signature is new to every row.
LEMMA SubmitEffect ==
  ASSUME TypeOK, LedgerJustified, NEW side, NEW key, NEW id,
         [side |-> side, key |-> key, row |-> id, ok |-> FALSE]
           \in Submission,
         Submit(side, key, id)
  PROVE  /\ WireKept
         /\ DOMAIN sent' = DOMAIN sent \union {Len(sent) + 1}
         /\ sent'[Len(sent) + 1].side = side /\ sent'[Len(sent) + 1].key = key
         /\ sent'[Len(sent) + 1].row = id
         /\ \A i \in DOMAIN rows : rows[i].entry_sig # Len(sent) + 1
<1> DEFINE e == [side |-> side, key |-> key, row |-> id, ok |-> FALSE]
<1>1. sent \in Seq(Submission) /\ sent' = Append(sent, e)
  BY DEF TypeOK, Submit
<1>2. /\ Len(sent) \in Nat /\ DOMAIN sent = 1..Len(sent)
      /\ DOMAIN sent' = 1..(Len(sent) + 1)
      /\ \A s \in DOMAIN sent : sent'[s] = sent[s]
      /\ sent'[Len(sent) + 1] = e
  BY <1>1, AppendKeeps
<1>3. DOMAIN sent' = DOMAIN sent \union {Len(sent) + 1}
  BY <1>2
<1>4. \A i \in DOMAIN rows : rows[i].entry_sig \in DOMAIN sent
  BY DEF LedgerJustified, EntryJustified, Buys
<1>5. Len(sent) + 1 \notin DOMAIN sent
  BY <1>2
<1> QED BY <1>2, <1>3, <1>4, <1>5 DEF WireKept

\* An acknowledgement changes nothing but the ok flag of its submission.
LEMMA AcknowledgeEffect ==
  ASSUME TypeOK, NEW sig \in DOMAIN sent, Acknowledge(sig)
  PROVE  /\ WireKept /\ DOMAIN sent' = DOMAIN sent /\ sent'[sig].ok
<1>1. DOMAIN sent' = DOMAIN sent
  BY AcknowledgeTypes DEF TypeOK
<1>2. \A s \in DOMAIN sent : sent[s] \in Submission
  BY ElementOfSeq, LenProperties DEF TypeOK
<1>3. sent' = [sent EXCEPT ![sig].ok = TRUE]
  BY DEF Acknowledge
<1>4. \A s \in DOMAIN sent : s # sig => sent'[s] = sent[s]
  BY <1>3
<1>5. sent'[sig] = [sent[sig] EXCEPT !.ok = TRUE]
  BY <1>3
<1>6. /\ sent'[sig].side = sent[sig].side /\ sent'[sig].key = sent[sig].key
      /\ sent'[sig].row = sent[sig].row /\ sent'[sig].ok
  BY <1>2, <1>5 DEF Submission
<1> QED BY <1>1, <1>4, <1>6 DEF WireKept

\* A row is appended.
LEMMA PersistEffect ==
  ASSUME TypeOK, NEW e \in Position, rows' = Append(rows, e)
  PROVE  /\ Len(rows) + 1 \notin DOMAIN rows
         /\ DOMAIN rows' = DOMAIN rows \union {Len(rows) + 1} /\ Len(rows') = Len(rows) + 1
         /\ \A i \in DOMAIN rows : rows'[i] = rows[i]
         /\ rows'[Len(rows) + 1] = e
<1>1. rows \in Seq(Position)
  BY DEF TypeOK
<1>2. /\ Len(rows) \in Nat /\ DOMAIN rows = 1..Len(rows)
      /\ DOMAIN rows' = 1..(Len(rows) + 1) /\ Len(rows') = Len(rows) + 1
      /\ \A i \in DOMAIN rows : rows'[i] = rows[i]
      /\ rows'[Len(rows) + 1] = e
  BY <1>1, AppendKeeps
<1> QED BY <1>2

\* A row is closed; nothing else of the table changes.
LEMMA CloseEffect ==
  ASSUME TypeOK, NEW id \in DOMAIN rows, NEW sig \in Nat, ClosePosition(id, sig)
  PROVE  /\ RowsKept
         /\ \A i \in DOMAIN rows : i # id => rows'[i] = rows[i]
         /\ ~rows'[id].open /\ rows'[id].exit_sig = sig
<1>1. DOMAIN rows' = DOMAIN rows /\ Len(rows') = Len(rows)
  BY CloseTypes DEF TypeOK
<1>2. rows[id] \in Position
  BY ElementOfSeq, LenProperties DEF TypeOK
<1>3. rows' = [rows EXCEPT ![id] = [rows[id] EXCEPT !.open = FALSE, !.exit_sig = sig]]
  BY DEF ClosePosition
<1>4. \A i \in DOMAIN rows : i # id => rows'[i] = rows[i]
  BY <1>3
<1>5. rows'[id] = [rows[id] EXCEPT !.open = FALSE, !.exit_sig = sig]
  BY <1>3
<1>6. rows'[id] = [key |-> rows[id].key, entry_sig |-> rows[id].entry_sig,
                   priced |-> rows[id].priced, tp |-> rows[id].tp, sl |-> rows[id].sl,
                   open |-> FALSE, exit_sig |-> sig]
  BY <1>2, <1>5 DEF Position
<1>7. /\ rows'[id].key = rows[id].key /\ rows'[id].entry_sig = rows[id].entry_sig
      /\ ~rows'[id].open /\ rows'[id].exit_sig = sig
  BY <1>6
<1> QED BY <1>1, <1>4, <1>7 DEF RowsKept

\* The ledger stays justified when the wire only grows and the table and the
\* log are not touched.
LEMMA JustifiedOnWire ==
  ASSUME LedgerJustified, WireKept, UNCHANGED <<rows, copy_log>>,
         \A s \in DOMAIN sent' \ DOMAIN sent : sent'[s].side = "sell" =>
           sent'[s].row \in DOMAIN rows /\ sent'[s].key = rows[sent'[s].row].key
  PROVE  LedgerJustified'
<1>1. ASSUME NEW i \in DOMAIN rows PROVE EntryJustified(i)' /\ ExitJustified(i)'
  <2>1. EntryJustified(i) /\ ExitJustified(i)
    BY DEF LedgerJustified
  <2> QED BY <2>1 DEF EntryJustified, ExitJustified, WireKept, Buys, Sales
<1>2. ASSUME NEW s \in DOMAIN sent', sent'[s].side = "sell"
      PROVE  sent'[s].row \in DOMAIN rows' /\ sent'[s].key = rows'[sent'[s].row].key
  BY <1>2 DEF LedgerJustified, WireKept
<1> QED BY <1>1, <1>2 DEF LedgerJustified, EntriesDistinct

\* The ledger stays justified when a row is closed by an acknowledged sale.
LEMMA JustifiedOnClose ==
  ASSUME TypeOK, LedgerJustified, NEW id \in DOMAIN rows, NEW sig \in Sales(id),
         sent[sig].ok, ClosePosition(id, sig), UNCHANGED <<sent, copy_log>>
  PROVE  LedgerJustified' /\ RowsKept
<1>1. sig \in Nat /\ sig # 0
  BY LenProperties DEF TypeOK, Sales
<1>2. /\ RowsKept
      /\ \A i \in DOMAIN rows : i # id => rows'[i] = rows[i]
      /\ ~rows'[id].open /\ rows'[id].exit_sig = sig
  BY <1>1, CloseEffect
<1>3. ASSUME NEW i \in DOMAIN rows PROVE EntryJustified(i)' /\ ExitJustified(i)'
  <2>1. EntryJustified(i) /\ ExitJustified(i)
    BY DEF LedgerJustified
  <2>2. CASE i = id
    BY <1>1, <1>2, <2>1, <2>2 DEF EntryJustified, ExitJustified, RowsKept, Buys, Sales
  <2>3. CASE i # id
    BY <1>2, <2>1, <2>3 DEF EntryJustified, ExitJustified, Buys, Sales
  <2> QED BY <2>2, <2>3
<1> QED BY <1>2, <1>3 DEF LedgerJustified, EntriesDistinct, RowsKept

\* The invariants of a task that does not move are kept by what the other
\* one does to the wire and to the table.
LEMMA EngineUndisturbed ==
  ASSUME BuyInFlight, SaleInFlight, WireKept, RowsKept, UNCHANGED engine
  PROVE  BuyInFlight' /\ SaleInFlight'
<1>1. BuyInFlight'
  BY DEF BuyInFlight, WireKept, RowsKept, BuyPC, Buys
<1>2. SaleInFlight'
  BY DEF SaleInFlight, WireKept, RowsKept, SellPC, Sales
<1> QED BY <1>1, <1>2

\* While the wire and the rows only grow, the exit in flight stays a sale of its row.
LEMMA ExitUndisturbed ==
  ASSUME ExitInFlight, WireKept, DOMAIN rows \subseteq DOMAIN rows', UNCHANGED tp_sl
  PROVE  ExitInFlight'
BY DEF ExitInFlight, WireKept, Sales

\* The map keeps naming the newest lots while no row is added.
LEMMA MapUndisturbed ==
  ASSUME MapSound, NewestLotTracked, RowsKept, UNCHANGED open_positions,
         engine.pc = "buy_track" => engine'.pc = "buy_track" /\ engine'.id = engine.id
  PROVE  MapSound' /\ NewestLotTracked'
BY DEF MapSound, NewestLotTracked, RowsKept

\* Forgetting a key keeps the map sound.
LEMMA MapForgets ==
  ASSUME TypeOK, MapSound, NewestLotTracked, UNCHANGED rows, NEW key,
         open_positions' = [open_positions EXCEPT ![key] = NoRow],
         engine.pc = "buy_track" => engine'.pc = "buy_track" /\ engine'.id = engine.id
  PROVE  MapSound' /\ NewestLotTracked'
<1>1. \A k \in Keys : open_positions'[k] # NoRow => open_positions'[k] = open_positions[k]
  BY DEF TypeOK
<1> QED BY <1>1 DEF MapSound, NewestLotTracked

\* A step that writes nothing keeps the ledger.
LEMMA NothingWritten ==
  ASSUME LedgerJustified, UNCHANGED <<rows, sent, copy_log>>
  PROVE  LedgerJustified' /\ WireKept /\ RowsKept
BY DEF LedgerJustified, EntryJustified, ExitJustified, EntriesDistinct, Buys, Sales,
   WireKept, RowsKept

\* An idle task has nothing in flight.
LEMMA NothingInFlight ==
  /\ engine' = Idle => BuyInFlight' /\ SaleInFlight'
  /\ tp_sl' = Wait => ExitInFlight'
BY DEF BuyInFlight, SaleInFlight, ExitInFlight, Idle, Wait, BuyPC, SellPC

LedgerParts ==
  /\ LedgerJustified /\ BuyInFlight /\ SaleInFlight /\ ExitInFlight
  /\ MapSound /\ NewestLotTracked

\* The empty ledger is correct.
LEMMA LedgerInit == Init => LedgerInv
<1> SUFFICES ASSUME Init PROVE LedgerParts
  BY TypeInit DEF LedgerInv, LedgerParts
<1>1. DOMAIN rows = {} /\ DOMAIN sent = {} /\ copy_log = {}
  BY DEF Init
<1>2. LedgerJustified
  BY <1>1 DEF LedgerJustified, EntriesDistinct
<1>3. BuyInFlight /\ SaleInFlight /\ ExitInFlight
  BY DEF Init, Idle, Wait, BuyInFlight, SaleInFlight, ExitInFlight, BuyPC, SellPC
<1>4. MapSound /\ NewestLotTracked
  BY DEF Init, NoPositions, MapSound, NewestLotTracked
<1> QED BY <1>2, <1>3, <1>4 DEF LedgerParts

\* The process starting or ending.
LEMMA LedgerProcess == LedgerInv /\ ProcessStep => LedgerParts'
<1> SUFFICES ASSUME LedgerInv, ProcessStep PROVE LedgerParts'
  OBVIOUS
<1>1. UNCHANGED <<rows, sent, copy_log>> /\ MemoryLost
  BY DEF ProcessStep, Start, Shutdown, Crash, durable
<1>2. LedgerJustified'
  BY <1>1, NothingWritten DEF LedgerInv
<1>3. BuyInFlight' /\ SaleInFlight' /\ ExitInFlight'
  BY <1>1, NothingInFlight DEF MemoryLost
<1>4. MapSound' /\ NewestLotTracked'
  BY <1>1 DEF MemoryLost, NoPositions, MapSound, NewestLotTracked
<1> QED BY <1>2, <1>3, <1>4 DEF LedgerParts

\* The steps of a copy buy.
LEMMA LedgerBuy ==
  ASSUME LedgerInv, BuyStep \/ \E w \in Wallets, m \in Mints : OnTargetBuy(w, m)
  PROVE  LedgerParts'
<1> USE DEF LedgerInv, TypeInv
<1>1. ASSUME NEW w \in Wallets, NEW m \in Mints, OnTargetBuy(w, m) PROVE LedgerParts'
  <2>1. [side |-> "buy", key |-> <<w, m>>, row |-> NoRow, ok |-> FALSE] \in Submission
    BY ConfigTypes DEF Submission, Keys, NoRow
  <2>2. Submit("buy", <<w, m>>, NoRow)
    BY <1>1 DEF OnTargetBuy
  <2>3. /\ WireKept
        /\ DOMAIN sent' = DOMAIN sent \union {Len(sent) + 1}
        /\ sent'[Len(sent) + 1].side = "buy" /\ sent'[Len(sent) + 1].key = <<w, m>>
        /\ \A i \in DOMAIN rows : rows[i].entry_sig # Len(sent) + 1
    BY <2>1, <2>2, SubmitEffect
  <2>4. UNCHANGED <<rows, copy_log, open_positions, tp_sl>> /\ engine.pc = "idle"
    BY <1>1 DEF OnTargetBuy
  <2>5. LedgerJustified'
    BY <2>3, <2>4, JustifiedOnWire
  <2>6. BuyInFlight' /\ SaleInFlight'
    BY <1>1, <2>3, <2>4 DEF OnTargetBuy, BuyInFlight, SaleInFlight, BuyPC, SellPC, Buys
  <2>7. ExitInFlight'
    BY <2>3, <2>4, ExitUndisturbed
  <2>8. MapSound' /\ NewestLotTracked'
    BY <2>4, MapUndisturbed DEF RowsKept
  <2> QED BY <2>5, <2>6, <2>7, <2>8 DEF LedgerParts
<1>2. CASE BuyAnswered
  <2>1. engine.sig \in DOMAIN sent /\ Acknowledge(engine.sig)
    BY <1>2 DEF BuyAnswered, BuyInFlight, BuyPC, Buys
  <2>2. WireKept /\ DOMAIN sent' = DOMAIN sent /\ sent'[engine.sig].ok
    BY <2>1, AcknowledgeEffect
  <2>3. UNCHANGED <<rows, copy_log, open_positions, tp_sl>> /\ engine.pc = "buy_sent"
    BY <1>2 DEF BuyAnswered
  <2>4. LedgerJustified'
    BY <2>2, <2>3, JustifiedOnWire
  <2>5. engine' = [engine EXCEPT !.pc = "buy_persist"] /\ engine \in EngineTask
    BY <1>2 DEF BuyAnswered, TypeOK
  <2>6. engine'.pc = "buy_persist" /\ engine'.sig = engine.sig /\ engine'.key = engine.key
    BY <2>5 DEF EngineTask
  <2>7. BuyInFlight' /\ SaleInFlight'
    BY <2>2, <2>3, <2>6 DEF BuyInFlight, SaleInFlight, WireKept, BuyPC, SellPC, Buys
  <2>8. ExitInFlight'
    BY <2>2, <2>3, ExitUndisturbed
  <2>9. MapSound' /\ NewestLotTracked'
    BY <2>3, MapUndisturbed DEF RowsKept
  <2> QED BY <2>4, <2>7, <2>8, <2>9 DEF LedgerParts
<1>3. CASE BuyUnanswered \/ BuyPersistFails
  <2>1. /\ UNCHANGED <<rows, sent, copy_log, open_positions, tp_sl>>
        /\ engine' = Idle /\ engine.pc # "buy_track"
    BY <1>3 DEF BuyUnanswered, BuyPersistFails, durable
  <2>2. LedgerJustified' /\ WireKept /\ RowsKept
    BY <2>1, NothingWritten
  <2>3. BuyInFlight' /\ SaleInFlight' /\ ExitInFlight'
    BY <2>1, <2>2, NothingInFlight, ExitUndisturbed
  <2> QED BY <2>1, <2>2, <2>3, MapUndisturbed DEF LedgerParts
<1>4. CASE BuyPersist
  <2> DEFINE n == Len(rows) + 1
  <2>1. /\ engine.pc = "buy_persist" /\ engine.sig \in Buys
        /\ sent[engine.sig].key = engine.key /\ sent[engine.sig].ok
        /\ \A i \in DOMAIN rows : rows[i].entry_sig # engine.sig
    BY <1>4 DEF BuyPersist, BuyInFlight, BuyPC
  <2>2. PICK priced \in BOOLEAN : rows' = Append(rows,
          [key |-> engine.key, entry_sig |-> engine.sig, priced |-> priced,
           tp |-> Wcfg(engine.key).take_profit, sl |-> Wcfg(engine.key).stop_loss,
           open |-> TRUE, exit_sig |-> 0])
    BY <1>4 DEF BuyPersist
  <2>3. [key |-> engine.key, entry_sig |-> engine.sig, priced |-> priced,
         tp |-> Wcfg(engine.key).take_profit, sl |-> Wcfg(engine.key).stop_loss,
         open |-> TRUE, exit_sig |-> 0] \in Position
    BY <2>1, ConfigTypes DEF TypeOK, BusyOnKey, EngineTask, Position, WalletCfg
  <2>4. /\ n \notin DOMAIN rows /\ DOMAIN rows' = DOMAIN rows \union {n} /\ Len(rows') = n
        /\ \A i \in DOMAIN rows : rows'[i] = rows[i]
        /\ rows'[n].key = engine.key /\ rows'[n].entry_sig = engine.sig
        /\ rows'[n].open /\ rows'[n].exit_sig = 0
    BY <2>2, <2>3, PersistEffect
  <2>5. UNCHANGED <<sent, copy_log, open_positions, tp_sl>>
    BY <1>4 DEF BuyPersist
  <2>6. engine' = [engine EXCEPT !.pc = "buy_track", !.id = n] /\ engine \in EngineTask
    BY <1>4 DEF BuyPersist, TypeOK
  <2>7. /\ engine'.pc = "buy_track" /\ engine'.id = n
        /\ engine'.sig = engine.sig /\ engine'.key = engine.key
    BY <2>6 DEF EngineTask
  <2>8. LedgerJustified'
    <3>1. ASSUME NEW i \in DOMAIN rows' PROVE EntryJustified(i)' /\ ExitJustified(i)'
      BY <2>1, <2>4, <2>5
      DEF LedgerJustified, EntryJustified, ExitJustified, Buys, Sales
    <3>2. EntriesDistinct'
      BY <2>1, <2>4 DEF LedgerJustified, EntriesDistinct
    <3>3. \A s \in DOMAIN sent' : sent'[s].side = "sell" =>
            sent'[s].row \in DOMAIN rows' /\ sent'[s].key = rows'[sent'[s].row].key
      BY <2>4, <2>5 DEF LedgerJustified
    <3>4. \A s \in copy_log' : \E i \in DOMAIN rows' : rows'[i].entry_sig = s
      BY <2>4, <2>5 DEF LedgerJustified
    <3> QED BY <3>1, <3>2, <3>3, <3>4 DEF LedgerJustified
  <2>9. BuyInFlight' /\ SaleInFlight'
    BY <2>1, <2>4, <2>5, <2>7 DEF BuyInFlight, SaleInFlight, BuyPC, SellPC, Buys
  <2>10. ExitInFlight'
    BY <2>4, <2>5, ExitUndisturbed DEF WireKept
  <2>11. MapSound' /\ NewestLotTracked'
    BY <2>1, <2>4, <2>5, <2>7 DEF MapSound, NewestLotTracked
  <2> QED BY <2>8, <2>9, <2>10, <2>11 DEF LedgerParts
<1>5. CASE BuyTrack
  <2>1. /\ engine.pc = "buy_track" /\ UNCHANGED <<rows, sent, tp_sl>> /\ engine' = Idle
        /\ copy_log' \subseteq copy_log \union {engine.sig}
        /\ open_positions' = [open_positions EXCEPT ![engine.key] = engine.id]
    BY <1>5 DEF BuyTrack
  <2>2. /\ engine.id \in DOMAIN rows /\ engine.id = Len(rows)
        /\ rows[engine.id].key = engine.key /\ rows[engine.id].entry_sig = engine.sig
    BY <2>1 DEF BuyInFlight
  <2>3. LedgerJustified'
    <3>1. \A s \in copy_log' : \E i \in DOMAIN rows' : rows'[i].entry_sig = s
      BY <2>1, <2>2 DEF LedgerJustified
    <3> QED BY <2>1, <3>1
      DEF LedgerJustified, EntryJustified, ExitJustified, EntriesDistinct, Buys, Sales
  <2>4. BuyInFlight' /\ SaleInFlight' /\ ExitInFlight'
    BY <2>1, NothingInFlight, ExitUndisturbed DEF WireKept
  <2>5. \A r \in DOMAIN rows : ~(r > engine.id)
    BY <2>2, LenProperties DEF TypeOK
  <2>6. \A k \in Keys : open_positions'[k] = IF k = engine.key THEN engine.id ELSE open_positions[k]
    BY <2>1 DEF TypeOK
  <2>7. MapSound' /\ NewestLotTracked'
    BY <2>1, <2>2, <2>5, <2>6 DEF MapSound, NewestLotTracked
  <2> QED BY <2>3, <2>4, <2>7 DEF LedgerParts
<1> QED BY <1>1, <1>2, <1>3, <1>4, <1>5 DEF BuyStep

\* The steps of a mirrored sell.
LEMMA LedgerMirror ==
  ASSUME LedgerInv, MirrorStep \/ \E w \in Wallets, m \in Mints : OnTargetSell(w, m)
  PROVE  LedgerParts'
<1> USE DEF LedgerInv, TypeInv
<1>1. ASSUME NEW w \in Wallets, NEW m \in Mints, OnTargetSell(w, m) PROVE LedgerParts'
  <2>1. /\ UNCHANGED <<rows, sent, copy_log, open_positions, tp_sl>>
        /\ engine.pc = "idle" /\ open_positions[<<w, m>>] # NoRow
        /\ engine' = [pc |-> "sell_read", key |-> <<w, m>>,
                      id |-> open_positions[<<w, m>>], sig |-> 0]
    BY <1>1 DEF OnTargetSell, durable
  <2>2. LedgerJustified' /\ WireKept /\ RowsKept
    BY <2>1, NothingWritten
  <2>3. BuyInFlight' /\ SaleInFlight'
    BY <2>1 DEF MapSound, BuyInFlight, SaleInFlight, BuyPC, SellPC, Keys
  <2> QED BY <2>1, <2>2, <2>3, ExitUndisturbed, MapUndisturbed DEF LedgerParts
<1>2. CASE MirrorFindsRow
  <2>1. /\ UNCHANGED <<rows, sent, copy_log, open_positions, tp_sl>>
        /\ engine.pc = "sell_read" /\ engine' = [engine EXCEPT !.pc = "sell_send"]
        /\ engine \in EngineTask
    BY <1>2 DEF MirrorFindsRow, durable, TypeOK
  <2>2. engine'.pc = "sell_send" /\ engine'.id = engine.id /\ engine'.key = engine.key
    BY <2>1 DEF EngineTask
  <2>3. LedgerJustified' /\ WireKept /\ RowsKept
    BY <2>1, NothingWritten
  <2>4. BuyInFlight' /\ SaleInFlight'
    BY <2>1, <2>2 DEF BuyInFlight, SaleInFlight, BuyPC, SellPC
  <2> QED BY <2>1, <2>3, <2>4, ExitUndisturbed, MapUndisturbed DEF LedgerParts
<1>3. CASE MirrorRowGone \/ MirrorReadFails \/ MirrorNotSent \/ MirrorUnanswered
             \/ MirrorCloseFails
  <2>1. /\ UNCHANGED <<rows, sent, copy_log, open_positions, tp_sl>>
        /\ engine' = Idle /\ engine.pc # "buy_track"
    BY <1>3 DEF MirrorRowGone, MirrorReadFails, MirrorNotSent, MirrorUnanswered,
       MirrorCloseFails, durable
  <2>2. LedgerJustified' /\ WireKept /\ RowsKept
    BY <2>1, NothingWritten
  <2> QED BY <2>1, <2>2, NothingInFlight, ExitUndisturbed, MapUndisturbed DEF LedgerParts
<1>4. CASE MirrorSend
  <2>1. /\ engine.pc = "sell_send" /\ engine \in EngineTask /\ engine.key \in Keys
        /\ engine.id \in DOMAIN rows /\ rows[engine.id].key = engine.key
    BY <1>4 DEF MirrorSend, SaleInFlight, SellPC, TypeOK, BusyOnKey
  <2>2. [side |-> "sell", key |-> engine.key, row |-> engine.id, ok |-> FALSE] \in Submission
    BY <2>1, ConfigTypes DEF Submission, EngineTask
  <2>3. Submit("sell", engine.key, engine.id)
    BY <1>4 DEF MirrorSend
  <2>4. /\ WireKept
        /\ DOMAIN sent' = DOMAIN sent \union {Len(sent) + 1}
        /\ sent'[Len(sent) + 1].side = "sell" /\ sent'[Len(sent) + 1].key = engine.key
        /\ sent'[Len(sent) + 1].row = engine.id
    BY <2>2, <2>3, SubmitEffect
  <2>5. /\ UNCHANGED <<rows, copy_log, open_positions, tp_sl>>
        /\ engine' = [engine EXCEPT !.pc = "sell_sent", !.sig = Len(sent) + 1]
    BY <1>4 DEF MirrorSend
  <2>6. /\ engine'.pc = "sell_sent" /\ engine'.sig = Len(sent) + 1
        /\ engine'.id = engine.id /\ engine'.key = engine.key
    BY <2>1, <2>5 DEF EngineTask
  <2>7. LedgerJustified'
    BY <2>1, <2>4, <2>5, JustifiedOnWire
  <2>8. BuyInFlight' /\ SaleInFlight'
    BY <2>1, <2>4, <2>5, <2>6 DEF BuyInFlight, SaleInFlight, BuyPC, SellPC, Sales
  <2> QED BY <2>1, <2>4, <2>5, <2>7, <2>8, ExitUndisturbed, MapUndisturbed
    DEF LedgerParts, RowsKept
<1>5. CASE MirrorAnswered
  <2>1. /\ engine.pc = "sell_sent" /\ engine \in EngineTask
        /\ engine.sig \in DOMAIN sent /\ Acknowledge(engine.sig)
    BY <1>5 DEF MirrorAnswered, SaleInFlight, Sales, TypeOK
  <2>2. WireKept /\ DOMAIN sent' = DOMAIN sent /\ sent'[engine.sig].ok
    BY <2>1, AcknowledgeEffect
  <2>3. /\ UNCHANGED <<rows, copy_log, open_positions, tp_sl>>
        /\ engine' = [engine EXCEPT !.pc = "sell_close"]
    BY <1>5 DEF MirrorAnswered
  <2>4. /\ engine'.pc = "sell_close" /\ engine'.sig = engine.sig
        /\ engine'.id = engine.id /\ engine'.key = engine.key
    BY <2>1, <2>3 DEF EngineTask
  <2>5. LedgerJustified'
    BY <2>2, <2>3, JustifiedOnWire
  <2>6. BuyInFlight' /\ SaleInFlight'
    BY <2>1, <2>2, <2>3, <2>4
    DEF BuyInFlight, SaleInFlight, WireKept, BuyPC, SellPC, Sales
  <2> QED BY <2>1, <2>2, <2>3, <2>5, <2>6, ExitUndisturbed, MapUndisturbed
    DEF LedgerParts, RowsKept
<1>6. CASE MirrorClose
  <2>1. /\ engine.pc = "sell_close" /\ engine \in EngineTask
        /\ engine.id \in DOMAIN rows /\ rows[engine.id].key = engine.key
        /\ engine.sig \in Sales(engine.id) /\ sent[engine.sig].ok
    BY <1>6 DEF MirrorClose, SaleInFlight, SellPC, TypeOK
  <2>2. /\ UNCHANGED <<sent, copy_log, open_positions, tp_sl>>
        /\ ClosePosition(engine.id, engine.sig)
        /\ engine' = [engine EXCEPT !.pc = "sell_forget"]
    BY <1>6 DEF MirrorClose
  <2>3. LedgerJustified' /\ RowsKept
    BY <2>1, <2>2, JustifiedOnClose
  <2>4. engine'.pc = "sell_forget" /\ engine'.id = engine.id /\ engine'.key = engine.key
    BY <2>1, <2>2 DEF EngineTask
  <2>5. BuyInFlight' /\ SaleInFlight'
    BY <2>1, <2>3, <2>4 DEF BuyInFlight, SaleInFlight, RowsKept, BuyPC, SellPC
  <2> QED BY <2>1, <2>2, <2>3, <2>5, ExitUndisturbed, MapUndisturbed
    DEF LedgerParts, RowsKept, WireKept
<1>7. CASE MirrorForget
  <2>1. /\ UNCHANGED <<rows, sent, copy_log, tp_sl>>
        /\ engine' = Idle /\ engine.pc # "buy_track"
        /\ open_positions' = [open_positions EXCEPT ![engine.key] = NoRow]
    BY <1>7 DEF MirrorForget, durable
  <2>2. LedgerJustified' /\ WireKept /\ RowsKept
    BY <2>1, NothingWritten
  <2>3. MapSound' /\ NewestLotTracked'
    BY <2>1, MapForgets
  <2> QED BY <2>1, <2>2, <2>3, NothingInFlight, ExitUndisturbed DEF LedgerParts
<1> QED BY <1>1, <1>2, <1>3, <1>4, <1>5, <1>6, <1>7 DEF MirrorStep

\* The steps of a TP/SL pass.
LEMMA LedgerExit ==
  ASSUME LedgerInv, ExitStep \/ \E r \in DOMAIN rows : PassSkip(r) \/ PassSell(r)
  PROVE  LedgerParts'
<1> USE DEF LedgerInv, TypeInv
<1>1. CASE PassStart \/ PassEnd \/ ExitUnanswered \/ ExitCloseFails
             \/ \E r \in DOMAIN rows : PassSkip(r)
  <2>1. /\ UNCHANGED <<rows, sent, copy_log, open_positions, engine>>
        /\ tp_sl'.scan \subseteq DOMAIN rows
        /\ tp_sl'.pc \in {"wait", "scan"}
    <3>1. tp_sl \in TpSlTask /\ tp_sl.scan \subseteq DOMAIN rows
      BY DEF TypeOK, ExitInFlight
    <3>2. CASE PassStart
      BY <3>1, <3>2 DEF PassStart, OpenIds, TpSlTask, durable
    <3>3. CASE PassEnd \/ ExitCloseFails
      BY <3>3 DEF PassEnd, ExitCloseFails, Wait, durable
    <3>4. CASE ExitUnanswered
      BY <3>1, <3>4 DEF ExitUnanswered, Wait, durable
    <3>5. ASSUME NEW r \in DOMAIN rows, PassSkip(r)
          PROVE  /\ UNCHANGED <<rows, sent, copy_log, open_positions, engine>>
                 /\ tp_sl'.scan \subseteq DOMAIN rows /\ tp_sl'.pc = "scan"
      BY <3>1, <3>5 DEF PassSkip, IsNext, TpSlTask, durable
    <3> QED BY <1>1, <3>2, <3>3, <3>4, <3>5
  <2>2. LedgerJustified' /\ WireKept /\ RowsKept
    BY <2>1, NothingWritten
  <2>3. ExitInFlight'
    BY <2>1 DEF ExitInFlight
  <2> QED BY <2>1, <2>2, <2>3, EngineUndisturbed, MapUndisturbed DEF LedgerParts
<1>2. ASSUME NEW r \in DOMAIN rows, PassSell(r) PROVE LedgerParts'
  <2>1. rows[r] \in Position /\ r \in Nat
    BY ElementOfSeq, LenProperties DEF TypeOK
  <2>2. [side |-> "sell", key |-> rows[r].key, row |-> r, ok |-> FALSE] \in Submission
    BY <2>1, ConfigTypes DEF Submission, Position
  <2>3. Submit("sell", rows[r].key, r)
    BY <1>2 DEF PassSell
  <2>4. /\ WireKept
        /\ DOMAIN sent' = DOMAIN sent \union {Len(sent) + 1}
        /\ sent'[Len(sent) + 1].side = "sell" /\ sent'[Len(sent) + 1].key = rows[r].key
        /\ sent'[Len(sent) + 1].row = r
    BY <2>2, <2>3, SubmitEffect
  <2>5. /\ UNCHANGED <<rows, copy_log, open_positions, engine>>
        /\ tp_sl' = [pc |-> "exit_sent", scan |-> tp_sl.scan \ {r}, id |-> r,
                     sig |-> Len(sent) + 1]
    BY <1>2 DEF PassSell
  <2>6. LedgerJustified'
    BY <2>4, <2>5, JustifiedOnWire
  <2>7. ExitInFlight'
    BY <2>4, <2>5 DEF ExitInFlight, Sales
  <2> QED BY <2>4, <2>5, <2>6, <2>7, EngineUndisturbed, MapUndisturbed
    DEF LedgerParts, RowsKept
<1>3. CASE ExitAnswered
  <2>1. /\ tp_sl.pc = "exit_sent" /\ tp_sl \in TpSlTask
        /\ tp_sl.sig \in DOMAIN sent /\ Acknowledge(tp_sl.sig)
    BY <1>3 DEF ExitAnswered, ExitInFlight, Sales, TypeOK
  <2>2. WireKept /\ DOMAIN sent' = DOMAIN sent /\ sent'[tp_sl.sig].ok
    BY <2>1, AcknowledgeEffect
  <2>3. /\ UNCHANGED <<rows, copy_log, open_positions, engine>>
        /\ tp_sl' = [tp_sl EXCEPT !.pc = "exit_close"]
    BY <1>3 DEF ExitAnswered
  <2>4. /\ tp_sl'.pc = "exit_close" /\ tp_sl'.sig = tp_sl.sig /\ tp_sl'.id = tp_sl.id
        /\ tp_sl'.scan = tp_sl.scan
    BY <2>1, <2>3 DEF TpSlTask
  <2>5. LedgerJustified'
    BY <2>2, <2>3, JustifiedOnWire
  <2>6. ExitInFlight'
    BY <2>1, <2>2, <2>3, <2>4 DEF ExitInFlight, WireKept, Sales
  <2> QED BY <2>2, <2>3, <2>5, <2>6, EngineUndisturbed, MapUndisturbed
    DEF LedgerParts, RowsKept
<1>4. CASE ExitClose
  <2>1. /\ tp_sl.pc = "exit_close" /\ tp_sl \in TpSlTask /\ tp_sl.id \in DOMAIN rows
        /\ tp_sl.sig \in Sales(tp_sl.id) /\ sent[tp_sl.sig].ok
    BY <1>4 DEF ExitClose, ExitInFlight, TypeOK
  <2>2. /\ UNCHANGED <<sent, copy_log, open_positions, engine>>
        /\ ClosePosition(tp_sl.id, tp_sl.sig)
        /\ tp_sl' = [tp_sl EXCEPT !.pc = "exit_forget"]
    BY <1>4 DEF ExitClose
  <2>3. LedgerJustified' /\ RowsKept
    BY <2>1, <2>2, JustifiedOnClose
  <2>4. tp_sl'.pc = "exit_forget" /\ tp_sl'.scan = tp_sl.scan
    BY <2>1, <2>2 DEF TpSlTask
  <2>5. ExitInFlight'
    BY <2>3, <2>4 DEF ExitInFlight, RowsKept
  <2> QED BY <2>2, <2>3, <2>5, EngineUndisturbed, MapUndisturbed DEF LedgerParts, WireKept
<1>5. CASE ExitForget
  <2>1. /\ UNCHANGED <<rows, sent, copy_log, engine>>
        /\ open_positions' = [open_positions EXCEPT ![rows[tp_sl.id].key] = NoRow]
        /\ tp_sl'.pc = "scan" /\ tp_sl'.scan = tp_sl.scan
    BY <1>5 DEF ExitForget, durable, Wait
  <2>2. LedgerJustified' /\ WireKept /\ RowsKept
    BY <2>1, NothingWritten
  <2>3. ExitInFlight'
    BY <2>1, <2>2 DEF ExitInFlight, RowsKept
  <2>4. MapSound' /\ NewestLotTracked'
    BY <2>1, MapForgets
  <2> QED BY <2>1, <2>2, <2>3, <2>4, EngineUndisturbed DEF LedgerParts
<1> QED BY <1>1, <1>2, <1>3, <1>4, <1>5 DEF ExitStep

\* Every step keeps the invariant.
LEMMA LedgerStep == LedgerInv /\ [Next]_vars => LedgerInv'
<1> SUFFICES ASSUME LedgerInv, [Next]_vars PROVE LedgerParts'
  BY TypeStep DEF LedgerInv, LedgerParts
<1>1. ASSUME NEW w \in Wallets, CooldownElapses(w) PROVE LedgerParts'
  <2>1. UNCHANGED <<rows, sent, copy_log, open_positions, engine, tp_sl>>
    BY <1>1 DEF CooldownElapses, durable
  <2>2. LedgerJustified' /\ WireKept /\ RowsKept
    BY <2>1, NothingWritten DEF LedgerInv
  <2> QED BY <2>1, <2>2, EngineUndisturbed, ExitUndisturbed, MapUndisturbed
    DEF LedgerInv, LedgerParts, RowsKept
<1>2. CASE UNCHANGED vars
  <2>1. UNCHANGED <<rows, sent, copy_log, open_positions, engine, tp_sl>>
    BY <1>2 DEF vars
  <2>2. LedgerJustified' /\ WireKept /\ RowsKept
    BY <2>1, NothingWritten DEF LedgerInv
  <2> QED BY <2>1, <2>2, EngineUndisturbed, ExitUndisturbed, MapUndisturbed
    DEF LedgerInv, LedgerParts, RowsKept
<1> QED BY <1>1, <1>2, LedgerProcess, LedgerBuy, LedgerMirror, LedgerExit DEF Next

\* What the tables say is what happened on the wire: every row has its own
\* acknowledged buy, every closed row its own acknowledged sale, and nothing
\* is sold that is not a recorded lot (engine.rs:147-468, db.rs:104-151).
THEOREM LedgerCorrect == Spec => []LedgerJustified
<1>1. LedgerInv => LedgerJustified
  BY DEF LedgerInv
<1> QED BY <1>1, LedgerInit, LedgerStep, PTL DEF Spec

\* The map of engine.rs:81 only ever leads a mirrored sell to the newest lot
\* of its wallet and mint.
THEOREM MapNamesNewestLot == Spec => []NewestLotTracked
<1>1. LedgerInv => NewestLotTracked
  BY DEF LedgerInv
<1> QED BY <1>1, LedgerInit, LedgerStep, PTL DEF Spec

-----------------------------------------------------------------------------
(***************************************************************************)
(* CopyEngine implements PositionLedger.  A step of the two tasks that     *)
(* neither sends a swap nor writes the table of positions stutters; each   *)
(* of the others is one action of the ledger.  The ledger's guards (only a *)
(* confirmed buy that opened nothing yet becomes a lot, only a confirmed   *)
(* sale of the lot becomes its exit) are not guards of the code: they are  *)
(* what the invariant LedgerInv knows of a handler in flight.              *)
(***************************************************************************)

-----------------------------------------------------------------------------
(* The lots of the table: what a write to the table is to them.            *)

\* Sequences with the same domain are equally long.
LEMMA SameBound ==
  ASSUME NEW m \in Nat, NEW n \in Nat, 1..m = 1..n
  PROVE  m = n
<1>1. CASE m < n
  <2>1. n \in 1..n /\ n \notin 1..m
    BY <1>1
  <2> QED BY <2>1
<1>2. CASE n < m
  <2>1. m \in 1..m /\ m \notin 1..n
    BY <1>2
  <2> QED BY <2>1
<1> QED BY <1>1, <1>2

LotSet == [key : Keys, entry : Nat, exit : Nat]

\* The lots are a sequence as long as the table.
LEMMA LotsType ==
  ASSUME rows \in Seq(Position)
  PROVE  /\ Lots \in Seq(LotSet) /\ Len(Lots) = Len(rows)
         /\ DOMAIN Lots = DOMAIN rows
<1>1. Len(rows) \in Nat /\ DOMAIN rows = 1..Len(rows)
  BY LenProperties
<1>2. \A i \in 1..Len(rows) : rows[i] \in Position
  BY <1>1, ElementOfSeq
<1>3. Lots \in [1..Len(rows) -> LotSet]
  BY <1>1, <1>2 DEF Lots, LotSet, Position
<1>4. Lots \in Seq(LotSet)
  BY <1>1, <1>3, SeqDef
<1>5. DOMAIN Lots = 1..Len(Lots) /\ Len(Lots) \in Nat
  BY <1>4, LenProperties
<1>6. DOMAIN Lots = 1..Len(rows)
  BY <1>3
<1>7. Len(Lots) = Len(rows)
  BY <1>1, <1>5, <1>6, SameBound
<1>8. DOMAIN Lots = DOMAIN rows
  BY <1>1, <1>6
<1> QED BY <1>4, <1>7, <1>8

\* A new row is one more lot.
LEMMA LotsAppended ==
  ASSUME rows \in Seq(Position), NEW r \in Position, rows' = Append(rows, r)
  PROVE  Lots' = Append(Lots, [key |-> r.key, entry |-> r.entry_sig, exit |-> r.exit_sig])
<1> DEFINE new == [key |-> r.key, entry |-> r.entry_sig, exit |-> r.exit_sig]
           n == Len(rows)
<1>1. /\ n \in Nat /\ DOMAIN rows = 1..n /\ DOMAIN rows' = 1..(n + 1)
      /\ \A i \in DOMAIN rows : rows'[i] = rows[i]
      /\ rows'[n + 1] = r /\ rows' \in Seq(Position)
      /\ Len(rows') = n + 1
  BY AppendKeeps
<1>2. new \in LotSet
  BY DEF LotSet, Position
<1>3. Lots \in Seq(LotSet) /\ Len(Lots) = n
  BY LotsType
<1>4. /\ Append(Lots, new) \in Seq(LotSet) /\ Len(Append(Lots, new)) = n + 1
      /\ \A i \in 1..n : Append(Lots, new)[i] = Lots[i]
      /\ Append(Lots, new)[n + 1] = new
  BY <1>1, <1>2, <1>3, AppendKeeps
<1>5. Lots' \in Seq(LotSet) /\ Len(Lots') = n + 1
  <2>1. \A i \in 1..(n + 1) : rows'[i] \in Position
    BY <1>1, ElementOfSeq
  <2>2. Lots' \in [1..(n + 1) -> LotSet]
    BY <1>1, <2>1 DEF Lots, LotSet, Position
  <2>3. Lots' \in Seq(LotSet)
    BY <1>1, <2>2, SeqDef
  <2>4. DOMAIN Lots' = 1..Len(Lots') /\ Len(Lots') \in Nat
    BY <2>3, LenProperties
  <2> QED BY <1>1, <2>2, <2>3, <2>4, SameBound
<1>6. ASSUME NEW i \in 1..(n + 1) PROVE Lots'[i] = Append(Lots, new)[i]
  <2>1. CASE i = n + 1
    BY <1>1, <1>4, <2>1 DEF Lots
  <2>2. CASE i \in 1..n
    BY <1>1, <1>4, <2>2 DEF Lots
  <2>3. n \in Nat
    BY <1>1
  <2>4. i = n + 1 \/ i \in 1..n
    BY <2>3
  <2> QED BY <2>1, <2>2, <2>4
<1> QED BY <1>4, <1>5, <1>6, SeqEqual

\* A closed row is a lot with that exit.
LEMMA LotsClosed ==
  ASSUME TypeOK, NEW id \in DOMAIN rows, NEW sig \in Nat, ClosePosition(id, sig)
  PROVE  Lots' = [Lots EXCEPT ![id].exit = sig]
<1>1. /\ DOMAIN rows' = DOMAIN rows
      /\ \A i \in DOMAIN rows : i # id => rows'[i] = rows[i]
      /\ rows'[id].key = rows[id].key /\ rows'[id].entry_sig = rows[id].entry_sig
      /\ rows'[id].exit_sig = sig
  BY CloseEffect DEF RowsKept
<1>2. [Lots EXCEPT ![id].exit = sig] =
        [i \in DOMAIN rows |-> IF i = id THEN [Lots[id] EXCEPT !.exit = sig] ELSE Lots[i]]
  BY DEF Lots
<1>3. Lots[id] = [key |-> rows[id].key, entry |-> rows[id].entry_sig, exit |-> rows[id].exit_sig]
  BY DEF Lots
<1>4. Lots'[id] = [Lots[id] EXCEPT !.exit = sig]
  BY <1>1, <1>3 DEF Lots
<1>5. \A i \in DOMAIN rows : i # id => Lots'[i] = Lots[i]
  BY <1>1 DEF Lots
<1>6. Lots' = [i \in DOMAIN rows |-> Lots'[i]]
  BY <1>1 DEF Lots
<1> QED BY <1>2, <1>4, <1>5, <1>6

-----------------------------------------------------------------------------
(* Every step is one of the ledger, or leaves it alone.                    *)

LedgerNext == [Ledger!Next]_(Ledger!lvars)

\* A step that sends nothing and writes no row stutters.
LEMMA Stutters == UNCHANGED <<rows, sent>> => LedgerNext
BY DEF LedgerNext, Ledger!lvars, Lots

\* A swap put on the wire: a buy of a key, or a sale of a lot that exists.
LEMMA SubmitMaps ==
  ASSUME TypeOK, UNCHANGED rows,
         \/ \E k \in Keys : Submit("buy", k, NoRow)
         \/ \E l \in DOMAIN rows : Submit("sell", rows[l].key, l)
  PROVE  LedgerNext
<1>1. Lots' = Lots
  BY DEF Lots
<1>2. ASSUME NEW k \in Keys, Submit("buy", k, NoRow) PROVE Ledger!Buy(k)
  BY <1>1, <1>2 DEF Submit, NoRow, Ledger!Buy
<1>3. ASSUME NEW l \in DOMAIN rows, Submit("sell", rows[l].key, l) PROVE Ledger!Sell(l)
  <2>1. l \in DOMAIN Lots /\ Lots[l].key = rows[l].key
    BY DEF Lots
  <2> QED BY <1>1, <1>3, <2>1 DEF Submit, Ledger!Sell
<1>4. DOMAIN Lots = DOMAIN rows
  BY DEF Lots
<1> QED BY <1>2, <1>3, <1>4 DEF LedgerNext, Ledger!Next

\* An acknowledgement confirms an order on the wire.
LEMMA AcknowledgeMaps ==
  ASSUME NEW s \in DOMAIN sent, Acknowledge(s), UNCHANGED rows
  PROVE  LedgerNext
<1>1. Lots' = Lots
  BY DEF Lots
<1>2. Ledger!Confirm(s)
  BY <1>1 DEF Acknowledge, Ledger!Confirm
<1> QED BY <1>2 DEF LedgerNext, Ledger!Next

\* A row is closed by an acknowledged sale of its lot.
LEMMA CloseMaps ==
  ASSUME TypeOK, NEW id \in DOMAIN rows, NEW sig \in Sales(id), sent[sig].ok,
         ClosePosition(id, sig), UNCHANGED sent
  PROVE  LedgerNext
<1>1. sig \in DOMAIN sent /\ sent[sig].side = "sell" /\ sent[sig].row = id
  BY DEF Sales
<1>2. sig \in Nat
  BY <1>1, LenProperties DEF TypeOK
<1>3. Lots' = [Lots EXCEPT ![id].exit = sig]
  BY <1>2, LotsClosed
<1>4. id \in DOMAIN Lots
  BY DEF Lots
<1>5. Ledger!Close(id, sig)
  BY <1>1, <1>3, <1>4 DEF Ledger!Close
<1> QED BY <1>1, <1>4, <1>5 DEF LedgerNext, Ledger!Next

\* The row of an acknowledged buy that has none is a new lot.
LEMMA PersistMaps ==
  ASSUME LedgerInv, BuyPersist
  PROVE  LedgerNext
<1> DEFINE s == engine.sig
<1>1. /\ s \in Buys /\ sent[s].key = engine.key /\ sent[s].ok
      /\ \A i \in DOMAIN rows : rows[i].entry_sig # s
  BY DEF BuyPersist, LedgerInv, BuyInFlight, BuyPC
<1>2. /\ rows \in Seq(Position) /\ engine.key \in Keys /\ engine.sig \in Nat
      /\ Wcfg(engine.key) \in WalletCfg
  BY ConfigTypes DEF LedgerInv, TypeInv, TypeOK, BusyOnKey, EngineTask, BuyPersist
<1>3. PICK priced \in BOOLEAN : rows' = Append(rows,
        [key |-> engine.key, entry_sig |-> engine.sig, priced |-> priced,
         tp |-> Wcfg(engine.key).take_profit, sl |-> Wcfg(engine.key).stop_loss,
         open |-> TRUE, exit_sig |-> 0])
  BY DEF BuyPersist
<1> DEFINE r == [key |-> engine.key, entry_sig |-> engine.sig, priced |-> priced,
                 tp |-> Wcfg(engine.key).take_profit, sl |-> Wcfg(engine.key).stop_loss,
                 open |-> TRUE, exit_sig |-> 0]
<1>4. r \in Position
  BY <1>2 DEF Position, WalletCfg
<1>5. Lots' = Append(Lots, [key |-> r.key, entry |-> r.entry_sig, exit |-> r.exit_sig])
  <2> HIDE DEF r
  <2> QED BY <1>2, <1>3, <1>4, LotsAppended DEF r
<1>6. Lots' = Append(Lots, [key |-> sent[s].key, entry |-> s, exit |-> 0])
  BY <1>1, <1>5
<1>7. \A l \in DOMAIN Lots : Lots[l].entry # s
  BY <1>1 DEF Lots
<1>8. sent' = sent /\ s \in DOMAIN sent /\ sent[s].side = "buy"
  BY <1>1 DEF Buys, BuyPersist
<1>9. Ledger!Open(s)
  BY <1>1, <1>6, <1>7, <1>8 DEF Ledger!Open
<1> QED BY <1>8, <1>9 DEF LedgerNext, Ledger!Next

\* Every step of the code is a step of the ledger.
LEMMA StepsAreLedgerSteps == LedgerInv /\ [Next]_vars => LedgerNext
<1> SUFFICES ASSUME LedgerInv, [Next]_vars PROVE LedgerNext
  OBVIOUS
<1> USE DEF control, durable
<1>1. CASE ProcessStep
  BY <1>1, Stutters DEF ProcessStep, Start, Shutdown, Crash
<1>2. ASSUME NEW w \in Wallets, CooldownElapses(w) PROVE LedgerNext
  BY <1>2, Stutters DEF CooldownElapses
<1>3. ASSUME NEW w \in Wallets, NEW m \in Mints, OnTargetBuy(w, m) PROVE LedgerNext
  <2>1. <<w, m>> \in Keys /\ Submit("buy", <<w, m>>, NoRow) /\ UNCHANGED rows
    BY <1>3 DEF OnTargetBuy, Keys
  <2> QED BY <2>1, SubmitMaps DEF LedgerInv, TypeInv
<1>4. CASE BuyStep
  <2>1. CASE BuyAnswered
    <3>1. engine.sig \in DOMAIN sent /\ Acknowledge(engine.sig) /\ UNCHANGED rows
      BY <2>1 DEF BuyAnswered, LedgerInv, BuyInFlight, BuyPC, Buys
    <3> QED BY <3>1, AcknowledgeMaps
  <2>2. CASE BuyPersist
    BY <2>2, PersistMaps
  <2>3. CASE BuyUnanswered \/ BuyPersistFails \/ BuyTrack
    BY <2>3, Stutters DEF BuyUnanswered, BuyPersistFails, BuyTrack
  <2> QED BY <1>4, <2>1, <2>2, <2>3 DEF BuyStep
<1>5. ASSUME NEW w \in Wallets, NEW m \in Mints, OnTargetSell(w, m) PROVE LedgerNext
  BY <1>5, Stutters DEF OnTargetSell
<1>6. CASE MirrorStep
  <2>1. CASE MirrorSend
    <3>1. engine.id \in DOMAIN rows /\ rows[engine.id].key = engine.key /\ UNCHANGED rows
      BY <2>1 DEF MirrorSend, LedgerInv, SaleInFlight, SellPC
    <3>2. Submit("sell", rows[engine.id].key, engine.id)
      BY <2>1, <3>1 DEF MirrorSend
    <3> QED BY <3>1, <3>2, SubmitMaps DEF LedgerInv, TypeInv
  <2>2. CASE MirrorAnswered
    <3>1. engine.sig \in DOMAIN sent /\ Acknowledge(engine.sig) /\ UNCHANGED rows
      BY <2>2 DEF MirrorAnswered, LedgerInv, SaleInFlight, Sales
    <3> QED BY <3>1, AcknowledgeMaps
  <2>3. CASE MirrorClose
    <3>1. /\ engine.id \in DOMAIN rows /\ engine.sig \in Sales(engine.id)
          /\ sent[engine.sig].ok /\ ClosePosition(engine.id, engine.sig) /\ UNCHANGED sent
      BY <2>3 DEF MirrorClose, LedgerInv, SaleInFlight, SellPC
    <3> QED BY <3>1, CloseMaps DEF LedgerInv, TypeInv
  <2>4. CASE \/ MirrorFindsRow \/ MirrorRowGone \/ MirrorReadFails \/ MirrorNotSent
             \/ MirrorUnanswered \/ MirrorCloseFails \/ MirrorForget
    BY <2>4, Stutters DEF MirrorFindsRow, MirrorRowGone, MirrorReadFails, MirrorNotSent,
       MirrorUnanswered, MirrorCloseFails, MirrorForget
  <2> QED BY <1>6, <2>1, <2>2, <2>3, <2>4 DEF MirrorStep
<1>7. ASSUME NEW r \in DOMAIN rows, PassSkip(r) PROVE LedgerNext
  BY <1>7, Stutters DEF PassSkip
<1>8. ASSUME NEW r \in DOMAIN rows, PassSell(r) PROVE LedgerNext
  BY <1>8, SubmitMaps DEF PassSell, LedgerInv, TypeInv
<1>9. CASE ExitStep
  <2>1. CASE ExitAnswered
    <3>1. tp_sl.sig \in DOMAIN sent /\ Acknowledge(tp_sl.sig) /\ UNCHANGED rows
      BY <2>1 DEF ExitAnswered, LedgerInv, ExitInFlight, Sales
    <3> QED BY <3>1, AcknowledgeMaps
  <2>2. CASE ExitClose
    <3>1. /\ tp_sl.id \in DOMAIN rows /\ tp_sl.sig \in Sales(tp_sl.id)
          /\ sent[tp_sl.sig].ok /\ ClosePosition(tp_sl.id, tp_sl.sig) /\ UNCHANGED sent
      BY <2>2 DEF ExitClose, LedgerInv, ExitInFlight
    <3> QED BY <3>1, CloseMaps DEF LedgerInv, TypeInv
  <2>3. CASE PassStart \/ PassEnd \/ ExitUnanswered \/ ExitCloseFails \/ ExitForget
    BY <2>3, Stutters DEF PassStart, PassEnd, ExitUnanswered, ExitCloseFails, ExitForget
  <2> QED BY <1>9, <2>1, <2>2, <2>3 DEF ExitStep
<1>10. CASE UNCHANGED vars
  BY <1>10, Stutters DEF vars
<1> QED BY <1>1, <1>2, <1>3, <1>4, <1>5, <1>6, <1>7, <1>8, <1>9, <1>10 DEF Next

\* The empty table and the empty wire are the empty ledger.
LEMMA InitMaps == Init => Ledger!Init
<1> SUFFICES ASSUME Init PROVE Ledger!Init
  OBVIOUS
<1>1. rows = <<>> /\ sent = <<>>
  BY DEF Init
<1>2. rows \in Seq(Position) /\ Len(rows) = 0
  BY <1>1, EmptySeq
<1>3. Lots \in Seq(LotSet) /\ Len(Lots) = 0
  BY <1>2, LotsType
<1>4. Lots = <<>>
  BY <1>3, EmptySeq
<1> QED BY <1>1, <1>4 DEF Ledger!Init

\* The two tasks of engine.rs, with crashes, restarts, failed writes and
\* overlapping exits, implement the ledger.
THEOREM EngineImplementsLedger == Spec => ImplementsLedger
<1>1. LedgerInv /\ [Next]_vars => LedgerNext
  BY StepsAreLedgerSteps
<1>2. Spec => []LedgerInv
  BY LedgerInit, LedgerStep, PTL DEF Spec
<1> QED BY <1>1, <1>2, InitMaps, PTL DEF Spec, ImplementsLedger, Ledger!Spec, LedgerNext

=============================================================================
