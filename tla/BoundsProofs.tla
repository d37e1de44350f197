---------------------------- MODULE BoundsProofs ----------------------------
(***************************************************************************)
(* How far crashes, failures and the two tasks can take the wire from the  *)
(* table of CopyEngine: how many buys no row records, how often one lot is *)
(* sold, and that an exit is written once.  For every set of wallets, mints*)
(* and configurations and every bound.                                     *)
(*                                                                         *)
(* The bounds are sums: what is on the wire is paid for by exits the       *)
(* strategy allows, failures and starts of the process, and what a handler *)
(* in flight may still put on it is paid for in advance.                   *)
(***************************************************************************)
EXTENDS CopyEngineProofs, FiniteSetTheorems

-----------------------------------------------------------------------------
(* The process and its tasks.                                              *)

\* Memory is empty while the process is down, and nothing is written before it
\* runs for the first time.
ProcessInv ==
  /\ process # "up" => engine = Idle /\ tp_sl = Wait /\ open_positions = NoPositions
  /\ process = "up" => runs > 0
  /\ runs = 0 => process = "stopped" /\ sent = <<>> /\ rows = <<>>

\* A step of one of the two tasks.
TaskStep ==
  \/ BuyStep \/ MirrorStep \/ ExitStep
  \/ \E w \in Wallets, m \in Mints : OnTargetBuy(w, m) \/ OnTargetSell(w, m)
  \/ \E r \in DOMAIN rows : PassSkip(r) \/ PassSell(r)

\* The tasks only move while the process runs, and failures only add up.
LEMMA TasksRun ==
  ASSUME ProcessInv, TaskStep
  PROVE  /\ process = "up" /\ UNCHANGED control
         /\ faults' = faults \/ faults' = faults + 1
<1> USE DEF ProcessInv, Idle, Wait, control, durable, Fault
<1>1. CASE BuyStep
  BY <1>1 DEF BuyStep, BuyAnswered, BuyUnanswered, BuyPersist, BuyPersistFails, BuyTrack
<1>2. CASE MirrorStep
  BY <1>2 DEF MirrorStep, MirrorFindsRow, MirrorRowGone, MirrorReadFails, MirrorSend,
     MirrorNotSent, MirrorAnswered, MirrorUnanswered, MirrorClose, MirrorCloseFails,
     MirrorForget
<1>3. CASE ExitStep
  BY <1>3 DEF ExitStep, PassStart, PassEnd, ExitAnswered, ExitUnanswered, ExitClose,
     ExitCloseFails, ExitForget
<1>4. ASSUME NEW w \in Wallets, NEW m \in Mints, OnTargetBuy(w, m) \/ OnTargetSell(w, m)
      PROVE  process = "up" /\ UNCHANGED <<control, faults>>
  BY <1>4 DEF OnTargetBuy, OnTargetSell
<1>5. ASSUME NEW r \in DOMAIN rows, PassSkip(r) \/ PassSell(r)
      PROVE  process = "up" /\ UNCHANGED <<control, faults>>
  BY <1>5 DEF PassSkip, PassSell, IsNext
<1> QED BY <1>1, <1>2, <1>3, <1>4, <1>5 DEF TaskStep

\* It holds before the first start.
LEMMA ProcessInvInit == Init => ProcessInv
BY DEF Init, ProcessInv

\* Every step keeps it.
LEMMA ProcessInvStep == TypeOK /\ ProcessInv /\ [Next]_vars => ProcessInv'
<1> SUFFICES ASSUME TypeOK, ProcessInv, [Next]_vars PROVE ProcessInv'
  OBVIOUS
<1>0. runs \in Nat
  BY BoundsAssumption DEF TypeOK
<1>1. CASE ProcessStep
  BY <1>0, <1>1 DEF ProcessStep, Start, Shutdown, Crash, MemoryLost, ProcessInv, durable
<1>2. ASSUME NEW w \in Wallets, CooldownElapses(w) PROVE ProcessInv'
  BY <1>2 DEF CooldownElapses, ProcessInv, durable, control
<1>3. CASE TaskStep
  BY <1>0, <1>3, TasksRun DEF ProcessInv, control
<1>4. CASE UNCHANGED vars
  BY <1>4 DEF vars, ProcessInv
<1> QED BY <1>1, <1>2, <1>3, <1>4 DEF Next, TaskStep

-----------------------------------------------------------------------------
(* The sets that are counted, and what a step does to them.                *)

\* They are sets of signatures.
LEMMA Countable ==
  ASSUME TypeOK
  PROVE  /\ IsFiniteSet(Unrecorded) /\ Cardinality(Unrecorded) \in Nat
         /\ \A i : IsFiniteSet(Sales(i)) /\ Cardinality(Sales(i)) \in Nat
<1>1. IsFiniteSet(DOMAIN sent)
  BY LenProperties, FS_Interval DEF TypeOK
<1>2. Unrecorded \in SUBSET DOMAIN sent /\ \A i : Sales(i) \in SUBSET DOMAIN sent
  BY DEF Unrecorded, Buys, Sales
<1>3. ASSUME NEW T \in SUBSET DOMAIN sent PROVE IsFiniteSet(T) /\ Cardinality(T) \in Nat
  <2>1. IsFiniteSet(T)
    BY <1>1, FS_Subset
  <2> QED BY <2>1, FS_CardinalityType
<1> QED BY <1>2, <1>3

\* An answer, a write to the table or nothing: no swap is added.
LEMMA NothingSent ==
  ASSUME WireKept, DOMAIN sent' = DOMAIN sent
  PROVE  /\ Buys' = Buys /\ \A i : Sales(i)' = Sales(i)
         /\ RowsKept => Unrecorded' = Unrecorded
<1>1. Buys' = Buys /\ \A i : Sales(i)' = Sales(i)
  BY DEF WireKept, Buys, Sales
<1> QED BY <1>1 DEF Unrecorded, RowsKept

\* One more sale of one row.
LEMMA SaleSent ==
  ASSUME TypeOK, WireKept, UNCHANGED rows, NEW id,
         DOMAIN sent' = DOMAIN sent \union {Len(sent) + 1},
         sent'[Len(sent) + 1].side = "sell", sent'[Len(sent) + 1].row = id
  PROVE  /\ Unrecorded' = Unrecorded
         /\ \A i : i # id => Sales(i)' = Sales(i)
         /\ Cardinality(Sales(id)') = Cardinality(Sales(id)) + 1
<1> DEFINE n == Len(sent) + 1
<1>1. n \notin DOMAIN sent
  BY LenProperties DEF TypeOK
<1>2. Buys' = Buys
  BY <1>1 DEF WireKept, Buys
<1>3. \A i : i # id => Sales(i)' = Sales(i)
  BY <1>1 DEF WireKept, Sales
<1>4. Sales(id)' = Sales(id) \union {n} /\ n \notin Sales(id)
  BY <1>1 DEF WireKept, Sales
<1>5. IsFiniteSet(Sales(id))
  BY Countable
<1>6. Cardinality(Sales(id) \union {n}) = Cardinality(Sales(id)) + 1
  BY <1>4, <1>5, FS_AddElement
<1>7. Cardinality(Sales(id)') = Cardinality(Sales(id)) + 1
  BY <1>4, <1>6
<1> QED BY <1>2, <1>3, <1>7 DEF Unrecorded

\* The row of a copy buy is appended, open, as one that explains its buy.
LEMMA AppendsRow ==
  ASSUME LedgerInv, BuyPersist
  PROVE  /\ Len(rows) + 1 \notin DOMAIN rows
         /\ DOMAIN rows' = DOMAIN rows \union {Len(rows) + 1} /\ Len(rows') = Len(rows) + 1
         /\ \A i \in DOMAIN rows : rows'[i] = rows[i]
         /\ rows'[Len(rows) + 1].entry_sig = engine.sig
         /\ rows'[Len(rows) + 1].key = engine.key
<1> USE DEF LedgerInv, TypeInv
<1>1. Wcfg(engine.key) \in WalletCfg /\ engine \in EngineTask /\ engine.key \in Keys
  BY ConfigTypes DEF TypeOK, BusyOnKey, BuyPersist
<1>2. PICK priced \in BOOLEAN : rows' = Append(rows,
        [key |-> engine.key, entry_sig |-> engine.sig, priced |-> priced,
         tp |-> Wcfg(engine.key).take_profit, sl |-> Wcfg(engine.key).stop_loss,
         open |-> TRUE, exit_sig |-> 0])
  BY DEF BuyPersist
<1>3. [key |-> engine.key, entry_sig |-> engine.sig, priced |-> priced,
       tp |-> Wcfg(engine.key).take_profit, sl |-> Wcfg(engine.key).stop_loss,
       open |-> TRUE, exit_sig |-> 0] \in Position
  BY <1>1 DEF EngineTask, Position, WalletCfg
<1> QED BY <1>2, <1>3, PersistEffect

\* Only a copy buy adds rows.
LEMMA RowsOnlyPersisted ==
  ASSUME LedgerInv, TaskStep, ~BuyPersist
  PROVE  DOMAIN rows' = DOMAIN rows
<1> USE DEF LedgerInv, TypeInv
<1>1. CASE MirrorClose
  BY <1>1, CloseTypes DEF MirrorClose, TypeOK, EngineTask
<1>2. CASE ExitClose
  BY <1>2, CloseTypes DEF ExitClose, TypeOK, TpSlTask
<1>3. CASE ~MirrorClose /\ ~ExitClose
  <2>1. UNCHANGED rows
    BY <1>3 DEF TaskStep, OnTargetBuy, OnTargetSell, BuyStep, BuyAnswered, BuyUnanswered,
       BuyPersistFails, BuyTrack, MirrorStep, MirrorFindsRow, MirrorRowGone,
       MirrorReadFails, MirrorSend, MirrorNotSent, MirrorAnswered, MirrorUnanswered,
       MirrorCloseFails, MirrorForget, ExitStep, PassStart, PassEnd, ExitAnswered,
       ExitUnanswered, ExitCloseFails, ExitForget, PassSkip, PassSell, durable
  <2> QED BY <2>1
<1> QED BY <1>1, <1>2, <1>3

-----------------------------------------------------------------------------
(* Buys that no row records.                                               *)

\* A step that leaves a buy in flight as it is, or ends in a failure.
Paid == (faults' = faults /\ Unfinished' = Unfinished) \/ faults' = faults + 1

\* The steps of the two tasks that neither send a buy nor record one: the
\* unrecorded buys stay the same, and a buy in flight is only given up for a
\* failure.
LEMMA UnrecordedKept ==
  ASSUME LedgerInv, ProcessInv, TaskStep, ~BuyPersist,
         \A w \in Wallets, m \in Mints : ~OnTargetBuy(w, m)
  PROVE  Unrecorded' = Unrecorded /\ Paid
<1> USE DEF LedgerInv, TypeInv
<1>0. /\ faults' = faults \/ faults' = faults + 1
      /\ process = "up" /\ process' = "up"
  BY TasksRun DEF control
<1>b. ASSUME UNCHANGED <<rows, sent>> PROVE Unrecorded' = Unrecorded
  BY <1>b DEF Unrecorded, Buys
<1>c. (engine.pc \in {"buy_sent", "buy_persist"} <=> engine'.pc \in {"buy_sent", "buy_persist"})
        => Paid
  BY <1>0 DEF Unfinished, Paid
<1>d. UNCHANGED engine => Paid
  BY <1>c
<1>1. CASE BuyStep
  <2>1. CASE BuyAnswered
    <3>1. engine.sig \in DOMAIN sent /\ Acknowledge(engine.sig) /\ UNCHANGED rows
      BY <2>1 DEF BuyAnswered, BuyInFlight, BuyPC, Buys
    <3>2. Unrecorded' = Unrecorded
      BY <3>1, AcknowledgeEffect, NothingSent DEF RowsKept
    <3>3. engine.pc = "buy_sent" /\ engine'.pc = "buy_persist"
      BY <2>1 DEF BuyAnswered, TypeOK, EngineTask
    <3> QED BY <1>c, <3>2, <3>3
  <2>2. CASE BuyUnanswered \/ BuyPersistFails
    <3>1. UNCHANGED <<rows, sent>> /\ faults' = faults + 1
      BY <2>2 DEF BuyUnanswered, BuyPersistFails, Fault, durable
    <3> QED BY <1>b, <3>1 DEF Paid
  <2>3. CASE BuyTrack
    <3>1. UNCHANGED <<rows, sent>> /\ engine.pc = "buy_track" /\ engine'.pc = "idle"
      BY <2>3 DEF BuyTrack, Idle
    <3> QED BY <1>b, <1>c, <3>1
  <2> QED BY <1>1, <2>1, <2>2, <2>3 DEF BuyStep
<1>2. CASE MirrorStep
  <2>1. engine.pc \in SellPC
    BY <1>2 DEF MirrorStep, MirrorFindsRow, MirrorRowGone, MirrorReadFails, MirrorSend,
       MirrorNotSent, MirrorAnswered, MirrorUnanswered, MirrorClose, MirrorCloseFails,
       MirrorForget, SellPC
  <2>2. engine'.pc \in SellPC \union {"idle"}
    <3>1. engine \in EngineTask
      BY DEF TypeOK
    <3>2. CASE MirrorFindsRow \/ MirrorSend \/ MirrorAnswered \/ MirrorClose
      BY <3>1, <3>2 DEF MirrorFindsRow, MirrorSend, MirrorAnswered, MirrorClose, SellPC,
         EngineTask
    <3>3. CASE \/ MirrorRowGone \/ MirrorReadFails \/ MirrorNotSent \/ MirrorUnanswered
               \/ MirrorCloseFails \/ MirrorForget
      <4>1. engine' = Idle
        BY <3>3 DEF MirrorRowGone, MirrorReadFails, MirrorNotSent, MirrorUnanswered,
           MirrorCloseFails, MirrorForget
      <4> QED BY <4>1 DEF Idle
    <3> QED BY <1>2, <3>2, <3>3 DEF MirrorStep
  <2>7. Paid
    BY <1>c, <2>1, <2>2 DEF SellPC
  <2>3. CASE MirrorSend
    <3>1. /\ engine.id \in DOMAIN rows /\ engine.key \in Keys /\ engine.id \in Nat
          /\ UNCHANGED rows /\ Submit("sell", engine.key, engine.id)
      BY <2>1, <2>3 DEF MirrorSend, SaleInFlight, TypeOK, BusyOnKey, EngineTask, SellPC
    <3>2. [side |-> "sell", key |-> engine.key, row |-> engine.id, ok |-> FALSE] \in Submission
      BY <3>1 DEF Submission
    <3> QED BY <2>7, <3>1, <3>2, SubmitEffect, SaleSent
  <2>4. CASE MirrorAnswered
    <3>1. engine.sig \in DOMAIN sent /\ Acknowledge(engine.sig) /\ UNCHANGED rows
      BY <2>4 DEF MirrorAnswered, SaleInFlight, Sales
    <3>2. Unrecorded' = Unrecorded
      BY <3>1, AcknowledgeEffect, NothingSent DEF RowsKept
    <3> QED BY <2>7, <3>2
  <2>5. CASE MirrorClose
    <3>1. engine.id \in DOMAIN rows /\ engine.sig \in Nat
          /\ ClosePosition(engine.id, engine.sig) /\ UNCHANGED sent
      BY <2>5 DEF MirrorClose, SaleInFlight, SellPC, TypeOK, EngineTask
    <3>2. Unrecorded' = Unrecorded
      BY <3>1, CloseEffect, NothingSent DEF WireKept
    <3> QED BY <2>7, <3>2
  <2>6. CASE \/ MirrorFindsRow \/ MirrorRowGone \/ MirrorReadFails \/ MirrorNotSent
             \/ MirrorUnanswered \/ MirrorCloseFails \/ MirrorForget
    <3>1. UNCHANGED <<rows, sent>>
      BY <2>6 DEF MirrorFindsRow, MirrorRowGone, MirrorReadFails, MirrorNotSent,
         MirrorUnanswered, MirrorCloseFails, MirrorForget, durable
    <3> QED BY <1>b, <2>7, <3>1
  <2> QED BY <1>2, <2>3, <2>4, <2>5, <2>6 DEF MirrorStep
<1>3. ASSUME NEW w \in Wallets, NEW m \in Mints, OnTargetSell(w, m)
      PROVE  Unrecorded' = Unrecorded /\ Paid
  <2>1. UNCHANGED <<rows, sent>> /\ engine.pc = "idle" /\ engine'.pc = "sell_read"
    BY <1>3 DEF OnTargetSell, durable
  <2> QED BY <1>b, <1>c, <2>1
<1>4. CASE ExitStep
  <2>1. UNCHANGED engine
    BY <1>4 DEF ExitStep, PassStart, PassEnd, ExitAnswered, ExitUnanswered, ExitClose,
       ExitCloseFails, ExitForget
  <2>2. CASE ExitAnswered
    <3>1. tp_sl.sig \in DOMAIN sent /\ Acknowledge(tp_sl.sig) /\ UNCHANGED rows
      BY <2>2 DEF ExitAnswered, ExitInFlight, Sales
    <3>2. Unrecorded' = Unrecorded
      BY <3>1, AcknowledgeEffect, NothingSent DEF RowsKept
    <3> QED BY <1>d, <2>1, <3>2
  <2>3. CASE ExitClose
    <3>1. tp_sl.id \in DOMAIN rows /\ tp_sl.sig \in Nat
          /\ ClosePosition(tp_sl.id, tp_sl.sig) /\ UNCHANGED sent
      BY <2>3 DEF ExitClose, ExitInFlight, TypeOK, TpSlTask
    <3>2. Unrecorded' = Unrecorded
      BY <3>1, CloseEffect, NothingSent DEF WireKept
    <3> QED BY <1>d, <2>1, <3>2
  <2>4. CASE PassStart \/ PassEnd \/ ExitUnanswered \/ ExitCloseFails \/ ExitForget
    <3>1. UNCHANGED <<rows, sent>>
      BY <2>4 DEF PassStart, PassEnd, ExitUnanswered, ExitCloseFails, ExitForget, durable
    <3> QED BY <1>b, <1>d, <2>1, <3>1
  <2> QED BY <1>4, <2>2, <2>3, <2>4 DEF ExitStep
<1>5. ASSUME NEW r \in DOMAIN rows, PassSkip(r)
      PROVE  Unrecorded' = Unrecorded /\ Paid
  <2>1. UNCHANGED <<rows, sent, engine>>
    BY <1>5 DEF PassSkip, durable
  <2> QED BY <1>b, <1>d, <2>1
<1>6. ASSUME NEW r \in DOMAIN rows, PassSell(r)
      PROVE  Unrecorded' = Unrecorded /\ Paid
  <2>1. rows[r] \in Position /\ r \in Nat
    BY ElementOfSeq, LenProperties DEF TypeOK
  <2>2. [side |-> "sell", key |-> rows[r].key, row |-> r, ok |-> FALSE] \in Submission
    BY <2>1 DEF Submission, Position
  <2>3. UNCHANGED <<rows, engine>> /\ Submit("sell", rows[r].key, r)
    BY <1>6 DEF PassSell
  <2> QED BY <1>d, <2>2, <2>3, SubmitEffect, SaleSent
<1> QED BY <1>1, <1>2, <1>3, <1>4, <1>5, <1>6 DEF TaskStep

\* Every step keeps the bound: a buy is put on the wire by a handler that
\* answers for it, a failure or a crash takes over, and a start after a crash
\* counts for the buy the crash may have cut off.
LEMMA UnrecordedStep ==
  LedgerInv /\ ProcessInv /\ UnrecordedBuysBounded /\ [Next]_vars => UnrecordedBuysBounded'
<1> SUFFICES ASSUME LedgerInv, ProcessInv, UnrecordedBuysBounded, [Next]_vars
             PROVE  UnrecordedBuysBounded'
  OBVIOUS
<1>a. TypeOK
  BY DEF LedgerInv, TypeInv
<1>b. /\ runs \in Nat /\ faults \in Nat
      /\ IsFiniteSet(Unrecorded) /\ Cardinality(Unrecorded) \in Nat
  BY <1>a, BoundsAssumption, Countable DEF TypeOK
<1>c. Unfinished \in Nat /\ Unfinished' \in Nat /\ Unfinished <= 1 /\ Unfinished' <= 1
  BY DEF Unfinished
<1>1. CASE ProcessStep
  <2>1. UNCHANGED <<rows, sent, faults>> /\ Unrecorded' = Unrecorded
    BY <1>1 DEF ProcessStep, Start, Shutdown, Crash, durable, Unrecorded, Buys
  <2>2. CASE Start /\ runs = 0
    <3>1. DOMAIN sent = {}
      BY <2>2 DEF ProcessInv
    <3>2. Unrecorded = {}
      BY <3>1 DEF Unrecorded, Buys
    <3>3. Cardinality(Unrecorded') = 0
      BY <2>1, <3>2, FS_EmptySet
    <3>4. runs' = 1 /\ Unfinished' = 0
      BY <2>2 DEF Start, Unfinished, MemoryLost, Idle
    <3> QED BY <1>b, <1>c, <2>1, <3>3, <3>4 DEF UnrecordedBuysBounded
  <2>3. CASE Start /\ runs # 0
    <3>1. runs' = runs + 1 /\ Unfinished' = 0
      BY <2>3 DEF Start, Unfinished, MemoryLost, Idle
    <3> QED BY <1>b, <1>c, <2>1, <2>3, <3>1 DEF UnrecordedBuysBounded
  <2>4. CASE Shutdown
    <3>1. Unfinished = 0 /\ Unfinished' = 0 /\ runs' = runs
      BY <2>4 DEF Shutdown, Unfinished, MemoryLost, Idle
    <3> QED BY <1>b, <1>c, <2>1, <3>1 DEF UnrecordedBuysBounded
  <2>5. CASE Crash
    <3>1. Unfinished' = 1 /\ runs' = runs
      BY <2>5 DEF Crash, Unfinished
    <3> QED BY <1>b, <1>c, <2>1, <3>1 DEF UnrecordedBuysBounded
  <2> QED BY <1>1, <2>2, <2>3, <2>4, <2>5 DEF ProcessStep
<1>2. ASSUME NEW w \in Wallets, CooldownElapses(w) PROVE UnrecordedBuysBounded'
  BY <1>2 DEF CooldownElapses, UnrecordedBuysBounded, Unrecorded, Unfinished, Buys, durable,
     control
<1>3. ASSUME NEW w \in Wallets, NEW m \in Mints, OnTargetBuy(w, m)
      PROVE  UnrecordedBuysBounded'
  <2> DEFINE n == Len(sent) + 1
  <2>1. [side |-> "buy", key |-> <<w, m>>, row |-> NoRow, ok |-> FALSE] \in Submission
    BY DEF Submission, Keys, NoRow
  <2>2. Submit("buy", <<w, m>>, NoRow) /\ UNCHANGED <<rows, runs, faults, process>>
    BY <1>3 DEF OnTargetBuy, control
  <2>3. /\ WireKept /\ DOMAIN sent' = DOMAIN sent \union {n}
        /\ sent'[n].side = "buy" /\ \A i \in DOMAIN rows : rows[i].entry_sig # n
    BY <1>a, <2>1, <2>2, SubmitEffect DEF LedgerInv
  <2>4. n \notin DOMAIN sent
    BY <1>a, LenProperties DEF TypeOK
  <2>5. Buys' = Buys \union {n}
    BY <2>3, <2>4 DEF WireKept, Buys
  <2>6. Unrecorded' = Unrecorded \union {n} /\ n \notin Unrecorded
    BY <2>2, <2>3, <2>4, <2>5 DEF Unrecorded, Buys
  <2>7. Cardinality(Unrecorded') = Cardinality(Unrecorded) + 1
    BY <1>b, <2>6, FS_AddElement
  <2>8. process = "up" /\ engine.pc = "idle" /\ engine'.pc = "buy_sent"
    BY <1>3 DEF OnTargetBuy
  <2>9. Unfinished = 0 /\ Unfinished' = 1
    BY <2>8 DEF Unfinished
  <2> QED BY <1>b, <2>2, <2>7, <2>9 DEF UnrecordedBuysBounded
<1>4. CASE BuyPersist
  <2>1. /\ engine.pc = "buy_persist" /\ engine.sig \in Buys
        /\ \A i \in DOMAIN rows : rows[i].entry_sig # engine.sig
        /\ UNCHANGED <<sent, runs, faults, process>>
    BY <1>4 DEF BuyPersist, LedgerInv, BuyInFlight, BuyPC, control
  <2>2. engine \in EngineTask
    BY <1>a DEF TypeOK
  <2>5. /\ Len(rows) + 1 \notin DOMAIN rows
        /\ DOMAIN rows' = DOMAIN rows \union {Len(rows) + 1}
        /\ \A i \in DOMAIN rows : rows'[i] = rows[i]
        /\ rows'[Len(rows) + 1].entry_sig = engine.sig
    BY <1>4, AppendsRow
  <2>6. Unrecorded' = Unrecorded \ {engine.sig} /\ engine.sig \in Unrecorded
    BY <2>1, <2>5 DEF Unrecorded, Buys
  <2>7. Cardinality(Unrecorded') = Cardinality(Unrecorded) - 1
    BY <1>b, <2>6, FS_RemoveElement
  <2>8. process = "up"
    BY <2>1 DEF ProcessInv, Idle
  <2>9. Unfinished = 1 /\ Unfinished' = 0
    <3>1. engine'.pc = "buy_track"
      BY <1>4, <2>2 DEF BuyPersist, EngineTask
    <3> QED BY <2>1, <2>8, <3>1 DEF Unfinished
  <2> QED BY <1>b, <1>c, <2>1, <2>7, <2>9 DEF UnrecordedBuysBounded
<1>5. CASE TaskStep /\ ~BuyPersist /\ \A w \in Wallets, m \in Mints : ~OnTargetBuy(w, m)
  <2>1. Unrecorded' = Unrecorded /\ Paid
    BY <1>5, UnrecordedKept
  <2>2. runs' = runs
    BY <1>5, TasksRun DEF control
  <2> QED BY <1>b, <1>c, <2>1, <2>2 DEF UnrecordedBuysBounded, Paid
<1>6. CASE UNCHANGED vars
  BY <1>6 DEF vars, UnrecordedBuysBounded, Unrecorded, Unfinished, Buys
<1> QED BY <1>1, <1>2, <1>3, <1>4, <1>5, <1>6 DEF Next, TaskStep

\* A copy buy that reached the wire is lost to the ledger only by a failed
\* answer or write, a crash, or because its handler still runs: at most one of
\* each (engine.rs:208-287, main.rs:150-165).
THEOREM LostBuysBounded == Spec => []UnrecordedBuysBounded
<1>1. Init => UnrecordedBuysBounded
  BY DEF Init, UnrecordedBuysBounded
<1>2. LedgerInv => TypeOK
  BY DEF LedgerInv, TypeInv
<1> QED BY <1>1, <1>2, LedgerInit, LedgerStep, ProcessInvInit, ProcessInvStep,
     UnrecordedStep, PTL DEF Spec

-----------------------------------------------------------------------------
(* The ways out of a lot.  A task that is about to close a row either finds *)
(* it open, or the strategy of the wallet has both ways out, and the other  *)
(* task closed it meanwhile.                                                *)

\* A mirrored sell that is past its read.
Selling == {"sell_send", "sell_sent", "sell_close"}

MirrorOfLot ==
  /\ engine.pc \in SellPC => Mirrors(engine.key[1])
  /\ engine.pc \in Selling => rows[engine.id].open \/ HasTpSl(engine.key)

\* The scan holds rows of every wallet; only those with a TP/SL exit matter.
ExitOfLot ==
  /\ tp_sl.pc \in {"exit_sent", "exit_close"} =>
       /\ tp_sl.id \notin tp_sl.scan /\ HasTpSl(rows[tp_sl.id].key)
       /\ rows[tp_sl.id].open \/ Mirrors(rows[tp_sl.id].key[1])
  /\ \A r \in tp_sl.scan :
       HasTpSl(rows[r].key) => rows[r].open \/ Mirrors(rows[r].key[1])

WaysOut == MirrorOfLot /\ ExitOfLot

\* The strategy is asked of the configuration of the run.
LEMMA StrategyKept ==
  ASSUME UNCHANGED cfg
  PROVE  /\ \A w : Mirrors(w)' <=> Mirrors(w)
         /\ \A k : HasTpSl(k)' <=> HasTpSl(k)
BY DEF Mirrors, HasTpSl, Wcfg

\* What the engine knows of its row survives a write of the TP/SL task.
LEMMA MirrorOfLotKept ==
  ASSUME MirrorOfLot, SaleInFlight, UNCHANGED <<cfg, engine>>,
         \A i \in DOMAIN rows : rows[i].open /\ ~rows'[i].open => HasTpSl(rows[i].key)
  PROVE  MirrorOfLot'
<1>1. /\ \A w : Mirrors(w)' <=> Mirrors(w)
      /\ \A k : HasTpSl(k)' <=> HasTpSl(k)
  BY StrategyKept
<1>2. engine.pc \in Selling =>
        engine.id \in DOMAIN rows /\ rows[engine.id].key = engine.key
  BY DEF SaleInFlight, Selling, SellPC
<1> QED BY <1>1, <1>2 DEF MirrorOfLot

\* What the TP/SL task knows of its rows survives a write of the engine.
LEMMA ExitOfLotKept ==
  ASSUME ExitOfLot, ExitInFlight, UNCHANGED <<cfg, tp_sl>>,
         \A i \in DOMAIN rows :
           /\ rows'[i].key = rows[i].key
           /\ rows[i].open /\ ~rows'[i].open => Mirrors(rows[i].key[1])
  PROVE  ExitOfLot'
<1>1. /\ \A w : Mirrors(w)' <=> Mirrors(w)
      /\ \A k : HasTpSl(k)' <=> HasTpSl(k)
  BY StrategyKept
<1>2. /\ tp_sl.scan \subseteq DOMAIN rows
      /\ tp_sl.pc \in {"exit_sent", "exit_close"} => tp_sl.id \in DOMAIN rows
  BY DEF ExitInFlight
<1> QED BY <1>1, <1>2 DEF ExitOfLot

\* Idle tasks close nothing.
LEMMA WaysOutInit == Init => WaysOut
BY DEF Init, WaysOut, MirrorOfLot, ExitOfLot, Idle, Wait, Selling, SellPC

\* The engine's own steps.
LEMMA WaysOutEngine ==
  ASSUME LedgerInv, ProcessInv, WaysOut,
         \/ BuyStep \/ MirrorStep
         \/ \E w \in Wallets, m \in Mints : OnTargetBuy(w, m) \/ OnTargetSell(w, m)
  PROVE  WaysOut'
<1> USE DEF LedgerInv, TypeInv
<1>a. UNCHANGED <<cfg, tp_sl>>
  <2>1. TaskStep
    BY DEF TaskStep
  <2>2. UNCHANGED cfg
    BY <2>1, TasksRun DEF control
  <2>3. UNCHANGED tp_sl
    BY DEF BuyStep, BuyAnswered, BuyUnanswered, BuyPersist, BuyPersistFails, BuyTrack,
       MirrorStep, MirrorFindsRow, MirrorRowGone, MirrorReadFails, MirrorSend,
       MirrorNotSent, MirrorAnswered, MirrorUnanswered, MirrorClose, MirrorCloseFails,
       MirrorForget, OnTargetBuy, OnTargetSell
  <2> QED BY <2>2, <2>3
<1>b. engine \in EngineTask
  BY DEF TypeOK
<1>c. engine'.pc \notin SellPC => MirrorOfLot'
  BY DEF MirrorOfLot, SellPC, Selling
<1>d. /\ \A w : Mirrors(w)' <=> Mirrors(w)
      /\ \A k : HasTpSl(k)' <=> HasTpSl(k)
  BY <1>a, StrategyKept
<1>e. UNCHANGED rows => ExitOfLot'
  BY <1>a, ExitOfLotKept DEF WaysOut
<1>f. engine.pc \in SellPC => engine.id \in DOMAIN rows /\ rows[engine.id].key = engine.key
  BY DEF SaleInFlight
<1>1. ASSUME NEW w \in Wallets, NEW m \in Mints, OnTargetBuy(w, m) PROVE WaysOut'
  <2>1. UNCHANGED rows /\ engine'.pc \notin SellPC
    BY <1>1 DEF OnTargetBuy, SellPC
  <2> QED BY <1>c, <1>e, <2>1 DEF WaysOut
<1>2. ASSUME NEW w \in Wallets, NEW m \in Mints, OnTargetSell(w, m) PROVE WaysOut'
  <2>1. UNCHANGED rows /\ engine'.pc = "sell_read" /\ engine'.key[1] = w /\ Mirrors(w)
    BY <1>2 DEF OnTargetSell, durable
  <2>2. MirrorOfLot'
    BY <1>d, <2>1 DEF MirrorOfLot, Selling
  <2> QED BY <1>e, <2>1, <2>2 DEF WaysOut
<1>3. CASE BuyAnswered \/ BuyUnanswered \/ BuyPersistFails \/ BuyTrack
  <2>1. UNCHANGED rows
    BY <1>3 DEF BuyAnswered, BuyUnanswered, BuyPersistFails, BuyTrack, durable
  <2>2. engine'.pc \notin SellPC
    BY <1>3, <1>b DEF BuyAnswered, BuyUnanswered, BuyPersistFails, BuyTrack, SellPC, Idle,
       EngineTask
  <2> QED BY <1>c, <1>e, <2>1, <2>2 DEF WaysOut
<1>4. CASE BuyPersist
  <2>1. engine'.pc = "buy_track"
    BY <1>4, <1>b DEF BuyPersist, EngineTask
  <2>2. \A i \in DOMAIN rows : rows'[i] = rows[i]
    BY <1>4, AppendsRow
  <2>3. ExitOfLot'
    BY <1>a, <2>2, ExitOfLotKept DEF WaysOut
  <2> QED BY <1>c, <2>1, <2>3 DEF WaysOut, SellPC
<1>5. CASE MirrorFindsRow
  <2>1. /\ UNCHANGED rows /\ engine.pc = "sell_read" /\ engine.id \in OpenIds
        /\ engine' = [engine EXCEPT !.pc = "sell_send"]
    BY <1>5 DEF MirrorFindsRow, OpenIdsForWallet, durable
  <2>2. engine'.pc = "sell_send" /\ engine'.id = engine.id /\ engine'.key = engine.key
    BY <1>b, <2>1 DEF EngineTask
  <2>3. rows[engine.id].open /\ Mirrors(engine.key[1])
    BY <2>1 DEF OpenIds, WaysOut, MirrorOfLot, SellPC
  <2>4. MirrorOfLot'
    BY <1>d, <2>1, <2>2, <2>3 DEF MirrorOfLot
  <2> QED BY <1>e, <2>1, <2>4 DEF WaysOut
<1>6. CASE MirrorSend \/ MirrorAnswered
  <2>1. UNCHANGED rows /\ engine.pc \in Selling
    BY <1>6 DEF MirrorSend, MirrorAnswered, Selling
  <2>2. engine'.pc \in Selling /\ engine'.id = engine.id /\ engine'.key = engine.key
    BY <1>6, <1>b DEF MirrorSend, MirrorAnswered, EngineTask, Selling
  <2>3. MirrorOfLot'
    BY <1>d, <2>1, <2>2 DEF MirrorOfLot, WaysOut, Selling, SellPC
  <2> QED BY <1>e, <2>1, <2>3 DEF WaysOut
<1>7. CASE MirrorClose
  <2>1. /\ engine.pc = "sell_close" /\ ClosePosition(engine.id, engine.sig)
        /\ engine' = [engine EXCEPT !.pc = "sell_forget"]
    BY <1>7 DEF MirrorClose
  <2>2. engine'.pc = "sell_forget" /\ engine'.key = engine.key /\ engine.sig \in Nat
    BY <1>b, <2>1 DEF EngineTask
  <2>3. Mirrors(engine.key[1]) /\ engine.id \in DOMAIN rows /\ rows[engine.id].key = engine.key
    BY <1>f, <2>1 DEF WaysOut, MirrorOfLot, SellPC
  <2>4. RowsKept /\ \A i \in DOMAIN rows : i # engine.id => rows'[i] = rows[i]
    BY <2>1, <2>2, <2>3, CloseEffect
  <2>5. ExitOfLot'
    BY <1>a, <2>3, <2>4, ExitOfLotKept DEF WaysOut, RowsKept
  <2>6. MirrorOfLot'
    BY <1>d, <2>2, <2>3 DEF MirrorOfLot, Selling
  <2> QED BY <2>5, <2>6 DEF WaysOut
<1>8. CASE \/ MirrorRowGone \/ MirrorReadFails \/ MirrorNotSent \/ MirrorUnanswered
           \/ MirrorCloseFails \/ MirrorForget
  <2>1. UNCHANGED rows /\ engine' = Idle
    BY <1>8 DEF MirrorRowGone, MirrorReadFails, MirrorNotSent, MirrorUnanswered,
       MirrorCloseFails, MirrorForget, durable
  <2> QED BY <1>c, <1>e, <2>1 DEF WaysOut, Idle, SellPC
<1> QED BY <1>1, <1>2, <1>3, <1>4, <1>5, <1>6, <1>7, <1>8 DEF BuyStep, MirrorStep

\* The steps of a TP/SL pass.
LEMMA WaysOutExit ==
  ASSUME LedgerInv, ProcessInv, WaysOut,
         ExitStep \/ \E r \in DOMAIN rows : PassSkip(r) \/ PassSell(r)
  PROVE  WaysOut'
<1> USE DEF LedgerInv, TypeInv
<1>a. UNCHANGED <<cfg, engine>>
  <2>1. TaskStep
    BY DEF TaskStep
  <2>2. UNCHANGED cfg
    BY <2>1, TasksRun DEF control
  <2>3. UNCHANGED engine
    BY DEF ExitStep, PassStart, PassEnd, ExitAnswered, ExitUnanswered, ExitClose,
       ExitCloseFails, ExitForget, PassSkip, PassSell
  <2> QED BY <2>2, <2>3
<1>b. tp_sl \in TpSlTask
  BY DEF TypeOK
<1>c. UNCHANGED rows => MirrorOfLot'
  BY <1>a, MirrorOfLotKept DEF WaysOut
<1>d. /\ \A w : Mirrors(w)' <=> Mirrors(w)
      /\ \A k : HasTpSl(k)' <=> HasTpSl(k)
  BY <1>a, StrategyKept
<1>1. CASE PassStart
  <2>1. UNCHANGED rows /\ tp_sl'.pc = "scan" /\ tp_sl'.scan = OpenIds
    BY <1>1, <1>b DEF PassStart, TpSlTask, durable
  <2>2. ExitOfLot'
    BY <2>1 DEF ExitOfLot, OpenIds
  <2> QED BY <1>c, <2>1, <2>2 DEF WaysOut
<1>2. CASE PassEnd \/ ExitCloseFails
  <2>1. UNCHANGED rows /\ tp_sl' = Wait
    BY <1>2 DEF PassEnd, ExitCloseFails, durable
  <2>2. ExitOfLot'
    BY <2>1 DEF ExitOfLot, Wait
  <2> QED BY <1>c, <2>1, <2>2 DEF WaysOut
<1>3. CASE ExitUnanswered \/ ExitForget
  <2>1. UNCHANGED rows /\ tp_sl'.pc = "scan" /\ tp_sl'.scan = tp_sl.scan
    BY <1>3 DEF ExitUnanswered, ExitForget, Wait, durable
  <2>2. ExitOfLot'
    BY <1>d, <2>1 DEF ExitOfLot, WaysOut
  <2> QED BY <1>c, <2>1, <2>2 DEF WaysOut
<1>4. CASE ExitAnswered
  <2>1. /\ UNCHANGED rows /\ tp_sl.pc = "exit_sent"
        /\ tp_sl'.pc = "exit_close" /\ tp_sl'.scan = tp_sl.scan /\ tp_sl'.id = tp_sl.id
    BY <1>4, <1>b DEF ExitAnswered, TpSlTask
  <2>2. ExitOfLot'
    BY <1>d, <2>1 DEF ExitOfLot, WaysOut
  <2> QED BY <1>c, <2>1, <2>2 DEF WaysOut
<1>5. CASE ExitClose
  <2>1. /\ tp_sl.pc = "exit_close" /\ tp_sl.sig \in Nat /\ tp_sl.id \in DOMAIN rows
        /\ ClosePosition(tp_sl.id, tp_sl.sig)
    BY <1>5, <1>b DEF ExitClose, ExitInFlight, TpSlTask
  <2>2. tp_sl'.pc = "exit_forget" /\ tp_sl'.scan = tp_sl.scan
    BY <1>5, <1>b DEF ExitClose, TpSlTask
  <2>3. RowsKept /\ \A i \in DOMAIN rows : i # tp_sl.id => rows'[i] = rows[i]
    BY <2>1, CloseEffect
  <2>4. tp_sl.id \notin tp_sl.scan /\ HasTpSl(rows[tp_sl.id].key)
    BY <2>1 DEF ExitOfLot, WaysOut
  <2>5. MirrorOfLot'
    BY <1>a, <2>3, <2>4, MirrorOfLotKept DEF WaysOut
  <2>6. \A r \in tp_sl.scan : rows'[r] = rows[r]
    BY <2>3, <2>4 DEF ExitInFlight
  <2>7. ExitOfLot'
    BY <1>d, <2>2, <2>6 DEF ExitOfLot, WaysOut
  <2> QED BY <2>5, <2>7 DEF WaysOut
<1>6. ASSUME NEW r \in DOMAIN rows, PassSkip(r) PROVE WaysOut'
  <2>1. /\ UNCHANGED rows /\ tp_sl.pc = "scan"
        /\ tp_sl'.pc = "scan" /\ tp_sl'.scan = tp_sl.scan \ {r}
    BY <1>6, <1>b DEF PassSkip, IsNext, TpSlTask, durable
  <2>2. ExitOfLot'
    BY <1>d, <2>1 DEF ExitOfLot, WaysOut
  <2> QED BY <1>c, <2>1, <2>2 DEF WaysOut
<1>7. ASSUME NEW r \in DOMAIN rows, PassSell(r) PROVE WaysOut'
  <2>1. /\ UNCHANGED rows /\ r \in tp_sl.scan /\ HasTpSl(rows[r].key)
        /\ tp_sl'.pc = "exit_sent" /\ tp_sl'.scan = tp_sl.scan \ {r} /\ tp_sl'.id = r
    BY <1>7 DEF PassSell, IsNext, Eligible
  <2>2. ExitOfLot'
    BY <1>d, <2>1 DEF ExitOfLot, WaysOut
  <2> QED BY <1>c, <2>1, <2>2 DEF WaysOut
<1> QED BY <1>1, <1>2, <1>3, <1>4, <1>5, <1>6, <1>7 DEF ExitStep

\* Every step keeps them.
LEMMA WaysOutStep == LedgerInv /\ ProcessInv /\ WaysOut /\ [Next]_vars => WaysOut'
<1> SUFFICES ASSUME LedgerInv, ProcessInv, WaysOut, [Next]_vars PROVE WaysOut'
  OBVIOUS
<1>1. CASE ProcessStep
  <2>1. engine' = Idle /\ tp_sl' = Wait
    BY <1>1 DEF ProcessStep, Start, Shutdown, Crash, MemoryLost
  <2> QED BY <2>1 DEF WaysOut, MirrorOfLot, ExitOfLot, Idle, Wait, Selling, SellPC
<1>2. CASE UNCHANGED vars \/ \E w \in Wallets : CooldownElapses(w)
  <2>1. UNCHANGED <<cfg, rows, engine, tp_sl>>
    BY <1>2 DEF vars, CooldownElapses, durable, control
  <2> QED BY <2>1, MirrorOfLotKept, ExitOfLotKept DEF WaysOut, LedgerInv
<1> QED BY <1>1, <1>2, WaysOutEngine, WaysOutExit DEF Next

\* No step writes a closed row of a wallet with one way out.
LEMMA OnlyClosesWrite ==
  LedgerInv /\ ProcessInv /\ WaysOut /\ [Next]_vars =>
    \A r \in DOMAIN rows :
      ~rows[r].open /\ ~(Mirrors(rows[r].key[1]) /\ HasTpSl(rows[r].key))
        => rows'[r] = rows[r]
<1> SUFFICES ASSUME LedgerInv, ProcessInv, WaysOut, [Next]_vars,
                    NEW r \in DOMAIN rows, ~rows[r].open,
                    ~(Mirrors(rows[r].key[1]) /\ HasTpSl(rows[r].key))
             PROVE  rows'[r] = rows[r]
  OBVIOUS
<1> USE DEF LedgerInv, TypeInv
<1>1. CASE BuyPersist
  BY <1>1, AppendsRow
<1>2. CASE MirrorClose
  <2>1. /\ engine.pc = "sell_close" /\ ClosePosition(engine.id, engine.sig)
        /\ engine.id \in DOMAIN rows /\ rows[engine.id].key = engine.key /\ engine.sig \in Nat
    BY <1>2 DEF MirrorClose, SaleInFlight, SellPC, TypeOK, EngineTask
  <2>2. engine.id # r
    BY <2>1 DEF WaysOut, MirrorOfLot, Selling, SellPC
  <2> QED BY <2>1, <2>2, CloseEffect
<1>3. CASE ExitClose
  <2>1. /\ tp_sl.pc = "exit_close" /\ ClosePosition(tp_sl.id, tp_sl.sig)
        /\ tp_sl.id \in DOMAIN rows /\ tp_sl.sig \in Nat
    BY <1>3 DEF ExitClose, ExitInFlight, TypeOK, TpSlTask
  <2>2. tp_sl.id # r
    BY <2>1 DEF WaysOut, ExitOfLot
  <2> QED BY <2>1, <2>2, CloseEffect
<1>4. CASE ~BuyPersist /\ ~MirrorClose /\ ~ExitClose
  <2>1. UNCHANGED rows
    BY <1>4 DEF Next, ProcessStep, Start, Shutdown, Crash, CooldownElapses, OnTargetBuy,
       OnTargetSell, BuyStep, BuyAnswered, BuyUnanswered, BuyPersistFails, BuyTrack,
       MirrorStep, MirrorFindsRow, MirrorRowGone, MirrorReadFails, MirrorSend,
       MirrorNotSent, MirrorAnswered, MirrorUnanswered, MirrorCloseFails, MirrorForget,
       ExitStep, PassStart, PassEnd, ExitAnswered, ExitUnanswered, ExitCloseFails,
       ExitForget, PassSkip, PassSell, durable, vars
  <2> QED BY <2>1
<1> QED BY <1>1, <1>2, <1>3, <1>4

\* The exit of a closed row is never rewritten for a wallet with one way out,
\* although close_position would rewrite it (db.rs:138): only a sale the other
\* task made meanwhile can find its row closed.
THEOREM ExitsAreFinal == Spec => ClosedRowsAreFinal
<1> DEFINE Final == \A r \in DOMAIN rows :
                      ~rows[r].open /\ ~(Mirrors(rows[r].key[1]) /\ HasTpSl(rows[r].key))
                        => rows'[r] = rows[r]
<1>1. LedgerInv /\ ProcessInv /\ WaysOut /\ [Next]_vars => [Final]_vars
  BY OnlyClosesWrite
<1>2. Spec => [](LedgerInv /\ ProcessInv /\ WaysOut)
  <2>1. LedgerInv => TypeOK
    BY DEF LedgerInv, TypeInv
  <2> QED BY <2>1, LedgerInit, LedgerStep, ProcessInvInit, ProcessInvStep, WaysOutInit,
       WaysOutStep, PTL DEF Spec
<1> QED BY <1>1, <1>2, PTL DEF Spec, ClosedRowsAreFinal

-----------------------------------------------------------------------------
(* How often one lot is sold.                                              *)

\* The engine may still put a sale of row i on the wire: it is about to, or
\* the map still leads to the open row.
MirrorMay(i) ==
  /\ process = "up" /\ Mirrors(rows[i].key[1])
  /\ \/ engine.pc = "sell_send" /\ engine.id = i
     \/ /\ rows[i].open
        /\ ~(engine.pc \in {"sell_sent", "sell_close"} /\ engine.id = i)
        /\ \/ open_positions[rows[i].key] = i
           \/ engine.pc \in {"sell_read", "buy_track"} /\ engine.id = i

\* The TP/SL task may still put a sale of row i on the wire, in this pass or in
\* a later one.
ExitMay(i) ==
  /\ process = "up" /\ HasTpSl(rows[i].key)
  /\ \/ i \in tp_sl.scan
     \/ rows[i].open /\ ~(tp_sl.pc \in {"exit_sent", "exit_close"} /\ tp_sl.id = i)

Count(b) == IF b THEN 1 ELSE 0

\* The sales made, and those the tasks may still make before something fails.
SalePaid(i) ==
  Cardinality(Sales(i)) + Count(MirrorMay(i)) + Count(ExitMay(i))
    < Exits(rows[i].key[1]) + faults + runs
SalesPaid == \A i \in DOMAIN rows : SalePaid(i)

\* What a task may do to the sales of row i: leave them and the outlook alone
\* or narrow it, use up one way out for one sale, or widen it by a failure.
Outlook(i) ==
  \/ /\ Cardinality(Sales(i)') = Cardinality(Sales(i))
     /\ MirrorMay(i)' => MirrorMay(i)
     /\ ExitMay(i)' => ExitMay(i)
  \/ /\ Cardinality(Sales(i)') = Cardinality(Sales(i)) + 1
     /\ \/ MirrorMay(i) /\ ~MirrorMay(i)' /\ (ExitMay(i)' => ExitMay(i))
        \/ ExitMay(i) /\ ~ExitMay(i)' /\ (MirrorMay(i)' => MirrorMay(i))
  \/ /\ Cardinality(Sales(i)') = Cardinality(Sales(i)) /\ faults' = faults + 1
     /\ (MirrorMay(i)' => MirrorMay(i)) \/ (ExitMay(i)' => ExitMay(i))

\* Whichever it does, the account of the row stays paid.
LEMMA OutlookPays ==
  ASSUME TypeOK, ProcessInv, TaskStep, NEW i \in DOMAIN rows, SalePaid(i), Outlook(i),
         rows'[i].key = rows[i].key
  PROVE  SalePaid(i)'
<1> DEFINE c == Cardinality(Sales(i))
           e == Exits(rows[i].key[1])
<1>1. faults \in Nat /\ runs \in Nat /\ c \in Nat /\ e \in Nat
  BY BoundsAssumption, Countable DEF TypeOK, Exits
<1>2. runs' = runs /\ (faults' = faults \/ faults' = faults + 1)
  BY TasksRun DEF control
<1>3. Exits(rows'[i].key[1]) = e
  OBVIOUS
<1>4. c + Count(MirrorMay(i)) + Count(ExitMay(i)) < e + faults + runs
  BY DEF SalePaid
<1>5. Cardinality(Sales(i)') + Count(MirrorMay(i)') + Count(ExitMay(i)')
        < e + faults' + runs'
  <2> HIDE DEF c, e
  <2>1. CASE /\ Cardinality(Sales(i)') = c
             /\ MirrorMay(i)' => MirrorMay(i)
             /\ ExitMay(i)' => ExitMay(i)
    BY <1>1, <1>2, <1>4, <2>1 DEF Count
  <2>2. CASE /\ Cardinality(Sales(i)') = c + 1
             /\ MirrorMay(i) /\ ~MirrorMay(i)' /\ (ExitMay(i)' => ExitMay(i))
    BY <1>1, <1>2, <1>4, <2>2 DEF Count
  <2>3. CASE /\ Cardinality(Sales(i)') = c + 1
             /\ ExitMay(i) /\ ~ExitMay(i)' /\ (MirrorMay(i)' => MirrorMay(i))
    BY <1>1, <1>2, <1>4, <2>3 DEF Count
  <2>4. CASE /\ Cardinality(Sales(i)') = c /\ faults' = faults + 1
             /\ (MirrorMay(i)' => MirrorMay(i)) \/ (ExitMay(i)' => ExitMay(i))
    BY <1>1, <1>2, <1>4, <2>4 DEF Count
  <2> QED BY <2>1, <2>2, <2>3, <2>4 DEF Outlook, c
<1> QED BY <1>3, <1>5 DEF SalePaid

\* The outlook of a task that does not move can only narrow.
LEMMA ExitMayKept ==
  ASSUME UNCHANGED <<process, cfg, tp_sl>>, NEW i, rows'[i].key = rows[i].key,
         rows'[i].open => rows[i].open
  PROVE  ExitMay(i)' => ExitMay(i)
<1>1. \A k : HasTpSl(k)' <=> HasTpSl(k)
  BY StrategyKept
<1> QED BY <1>1 DEF ExitMay

\* For the engine that also takes a map that leads to no more rows.
LEMMA MirrorMayKept ==
  ASSUME UNCHANGED <<process, cfg, engine>>, NEW i, rows'[i].key = rows[i].key,
         rows'[i].open => rows[i].open,
         open_positions'[rows[i].key] = i => open_positions[rows[i].key] = i
  PROVE  MirrorMay(i)' => MirrorMay(i)
<1>1. \A w : Mirrors(w)' <=> Mirrors(w)
  BY StrategyKept
<1> QED BY <1>1 DEF MirrorMay

\* A row id is no "no entry".
LEMMA RowIds == TypeOK => \A i \in DOMAIN rows : i # NoRow
BY LenProperties DEF TypeOK, NoRow

\* The engine's own steps.
LEMMA OutlookEngine ==
  ASSUME LedgerInv, ProcessInv, WaysOut, NEW i \in DOMAIN rows,
         \/ BuyStep \/ MirrorStep
         \/ \E w \in Wallets, m \in Mints : OnTargetBuy(w, m) \/ OnTargetSell(w, m)
  PROVE  Outlook(i) /\ rows'[i].key = rows[i].key
<1> USE DEF LedgerInv, TypeInv
<1>a. /\ process = "up" /\ UNCHANGED <<process, cfg, tp_sl>>
  <2>1. TaskStep
    BY DEF TaskStep
  <2>2. process = "up" /\ UNCHANGED <<process, cfg>>
    BY <2>1, TasksRun DEF control
  <2>3. UNCHANGED tp_sl
    BY DEF BuyStep, BuyAnswered, BuyUnanswered, BuyPersist, BuyPersistFails, BuyTrack,
       MirrorStep, MirrorFindsRow, MirrorRowGone, MirrorReadFails, MirrorSend,
       MirrorNotSent, MirrorAnswered, MirrorUnanswered, MirrorClose, MirrorCloseFails,
       MirrorForget, OnTargetBuy, OnTargetSell
  <2> QED BY <2>2, <2>3
<1>b. engine \in EngineTask /\ i # NoRow
  BY RowIds DEF TypeOK
<1>c. \A w : Mirrors(w)' <=> Mirrors(w)
  BY <1>a, StrategyKept
<1>d. ASSUME UNCHANGED rows PROVE ExitMay(i)' => ExitMay(i)
  BY <1>a, <1>d, ExitMayKept
<1>e. ASSUME UNCHANGED <<rows, sent>>, MirrorMay(i)' => MirrorMay(i)
      PROVE  Outlook(i) /\ rows'[i].key = rows[i].key
  <2>1. Sales(i)' = Sales(i)
    BY <1>e DEF Sales
  <2> QED BY <1>d, <1>e, <2>1 DEF Outlook
<1>f. ASSUME UNCHANGED <<rows, sent>>, faults' = faults + 1
      PROVE  Outlook(i) /\ rows'[i].key = rows[i].key
  <2>1. Sales(i)' = Sales(i)
    BY <1>f DEF Sales
  <2> QED BY <1>d, <1>f, <2>1 DEF Outlook
<1>g. engine.pc \in SellPC => /\ engine.id \in DOMAIN rows /\ rows[engine.id].key = engine.key
                              /\ Mirrors(engine.key[1])
  BY DEF SaleInFlight, WaysOut, MirrorOfLot
<1>1. ASSUME NEW w \in Wallets, NEW m \in Mints, OnTargetBuy(w, m)
      PROVE  Outlook(i) /\ rows'[i].key = rows[i].key
  <2>1. [side |-> "buy", key |-> <<w, m>>, row |-> NoRow, ok |-> FALSE] \in Submission
    BY DEF Submission, Keys, NoRow
  <2>2. /\ Submit("buy", <<w, m>>, NoRow) /\ UNCHANGED <<rows, open_positions>>
        /\ engine.pc = "idle" /\ engine'.pc = "buy_sent"
    BY <1>1 DEF OnTargetBuy
  <2>3. /\ WireKept /\ DOMAIN sent' = DOMAIN sent \union {Len(sent) + 1}
        /\ sent'[Len(sent) + 1].side = "buy"
    BY <2>1, <2>2, SubmitEffect
  <2>4. Sales(i)' = Sales(i)
    BY <2>3 DEF WireKept, Sales
  <2>5. MirrorMay(i)' => MirrorMay(i)
    BY <1>a, <1>c, <2>2 DEF MirrorMay
  <2> QED BY <1>d, <2>2, <2>4, <2>5 DEF Outlook
<1>2. ASSUME NEW w \in Wallets, NEW m \in Mints, OnTargetSell(w, m)
      PROVE  Outlook(i) /\ rows'[i].key = rows[i].key
  <2>1. /\ UNCHANGED <<rows, sent, process, open_positions>> /\ engine.pc = "idle"
        /\ open_positions[<<w, m>>] # NoRow /\ <<w, m>> \in Keys
        /\ engine'.pc = "sell_read" /\ engine'.id = open_positions[<<w, m>>]
    BY <1>2 DEF OnTargetSell, durable, control, Keys
  <2>2. engine'.id = i => open_positions[rows[i].key] = i
    BY <2>1 DEF MapSound
  <2>3. MirrorMay(i)' => MirrorMay(i)
    BY <1>a, <1>c, <2>1, <2>2 DEF MirrorMay
  <2> QED BY <1>e, <2>1, <2>3
<1>3. CASE BuyAnswered
  <2>1. /\ engine.sig \in DOMAIN sent /\ Acknowledge(engine.sig) /\ engine.pc = "buy_sent"
        /\ UNCHANGED <<rows, open_positions>>
    BY <1>3 DEF BuyAnswered, BuyInFlight, BuyPC, Buys
  <2>2. engine'.pc = "buy_persist"
    BY <1>3, <1>b DEF BuyAnswered, EngineTask
  <2>3. Sales(i)' = Sales(i)
    BY <2>1, AcknowledgeEffect, NothingSent
  <2>4. MirrorMay(i)' => MirrorMay(i)
    BY <1>a, <1>c, <2>1, <2>2 DEF MirrorMay
  <2> QED BY <1>d, <2>1, <2>3, <2>4 DEF Outlook
<1>4. CASE \/ BuyUnanswered \/ BuyPersistFails \/ MirrorReadFails \/ MirrorUnanswered
           \/ MirrorCloseFails
  <2>1. UNCHANGED <<rows, sent>> /\ faults' = faults + 1
    BY <1>4 DEF BuyUnanswered, BuyPersistFails, MirrorReadFails, MirrorUnanswered,
       MirrorCloseFails, Fault, durable
  <2> QED BY <1>f, <2>1
<1>5. CASE BuyPersist
  <2>1. /\ engine.pc = "buy_persist" /\ UNCHANGED <<sent, open_positions>>
    BY <1>5 DEF BuyPersist
  <2>2. engine'.pc = "buy_track" /\ engine'.id = Len(rows) + 1
    BY <1>5, <1>b DEF BuyPersist, EngineTask
  <2>3. rows'[i] = rows[i] /\ i # Len(rows) + 1
    BY <1>5, AppendsRow
  <2>4. Sales(i)' = Sales(i)
    BY <2>1 DEF Sales
  <2>5. ExitMay(i)' => ExitMay(i)
    BY <1>a, <2>3, ExitMayKept
  <2>6. MirrorMay(i)' => MirrorMay(i)
    BY <1>a, <1>c, <2>1, <2>2, <2>3 DEF MirrorMay
  <2> QED BY <2>3, <2>4, <2>5, <2>6 DEF Outlook
<1>6. CASE BuyTrack
  <2>1. /\ engine.pc = "buy_track" /\ UNCHANGED <<rows, sent>> /\ engine'.pc = "idle"
        /\ open_positions' = [open_positions EXCEPT ![engine.key] = engine.id]
    BY <1>6 DEF BuyTrack, Idle
  <2>2. open_positions'[rows[i].key] = i =>
          engine.id = i \/ open_positions[rows[i].key] = i
    <3>1. rows[i] \in Position
      BY ElementOfSeq, LenProperties DEF TypeOK
    <3>2. rows[i].key \in Keys
      BY <3>1 DEF Position
    <3> QED BY <2>1, <3>2 DEF TypeOK
  <2>3. MirrorMay(i)' => MirrorMay(i)
    BY <1>a, <1>c, <2>1, <2>2 DEF MirrorMay
  <2> QED BY <1>e, <2>1, <2>3
<1>7. CASE MirrorFindsRow
  <2>1. /\ UNCHANGED <<rows, sent, open_positions>> /\ engine.pc = "sell_read"
        /\ engine.id \in OpenIds
    BY <1>7 DEF MirrorFindsRow, OpenIdsForWallet, durable
  <2>2. engine'.pc = "sell_send" /\ engine'.id = engine.id
    BY <1>7, <1>b DEF MirrorFindsRow, EngineTask
  <2>3. MirrorMay(i)' => MirrorMay(i)
    BY <1>a, <1>c, <1>g, <2>1, <2>2 DEF MirrorMay, OpenIds, SellPC
  <2> QED BY <1>e, <2>1, <2>3
<1>8. CASE MirrorRowGone \/ MirrorNotSent
  <2>1. /\ UNCHANGED <<rows, sent, open_positions>> /\ engine'.pc = "idle"
        /\ engine.pc \notin {"sell_sent", "sell_close"}
    BY <1>8 DEF MirrorRowGone, MirrorNotSent, Idle, durable
  <2>2. MirrorMay(i)' => MirrorMay(i)
    BY <1>a, <1>c, <2>1 DEF MirrorMay
  <2> QED BY <1>e, <2>1, <2>2
<1>9. CASE MirrorSend
  <2>0. PICK id \in DOMAIN rows : id = engine.id
    BY <1>9, <1>g DEF MirrorSend, SellPC
  <2>1. /\ engine.pc = "sell_send" /\ engine.key \in Keys
        /\ id \in Nat /\ rows[id].key = engine.key /\ Mirrors(engine.key[1])
        /\ UNCHANGED <<rows, open_positions>> /\ Submit("sell", engine.key, id)
    BY <1>9, <1>g, <2>0 DEF MirrorSend, SellPC, TypeOK, BusyOnKey, EngineTask
  <2>2. engine'.pc = "sell_sent" /\ engine'.id = id
    BY <1>9, <1>b, <2>0 DEF MirrorSend, EngineTask
  <2>3. [side |-> "sell", key |-> engine.key, row |-> id, ok |-> FALSE] \in Submission
    BY <2>1 DEF Submission
  <2>4. /\ WireKept /\ DOMAIN sent' = DOMAIN sent \union {Len(sent) + 1}
        /\ sent'[Len(sent) + 1].side = "sell" /\ sent'[Len(sent) + 1].row = id
    BY <2>1, <2>3, SubmitEffect
  <2>5. /\ \A j : j # id => Sales(j)' = Sales(j)
        /\ Cardinality(Sales(id)') = Cardinality(Sales(id)) + 1
    BY <2>1, <2>4, SaleSent
  <2>6. CASE i = id
    <3>1. MirrorMay(i) /\ ~MirrorMay(i)'
      BY <1>a, <2>0, <2>1, <2>2, <2>6 DEF MirrorMay
    <3>2. Cardinality(Sales(i)') = Cardinality(Sales(i)) + 1
      BY <2>5, <2>6
    <3> QED BY <1>d, <2>1, <3>1, <3>2 DEF Outlook
  <2>7. CASE i # id
    <3>1. MirrorMay(i)' => MirrorMay(i)
      BY <1>a, <1>c, <2>0, <2>1, <2>2, <2>7 DEF MirrorMay
    <3> QED BY <1>d, <2>1, <2>5, <2>7, <3>1 DEF Outlook
  <2> QED BY <2>6, <2>7
<1>10. CASE MirrorAnswered
  <2>1. /\ engine.sig \in DOMAIN sent /\ Acknowledge(engine.sig) /\ engine.pc = "sell_sent"
        /\ UNCHANGED <<rows, open_positions>>
    BY <1>10 DEF MirrorAnswered, SaleInFlight, Sales
  <2>2. engine'.pc = "sell_close" /\ engine'.id = engine.id
    BY <1>10, <1>b DEF MirrorAnswered, EngineTask
  <2>3. Sales(i)' = Sales(i)
    BY <2>1, AcknowledgeEffect, NothingSent
  <2>4. MirrorMay(i)' => MirrorMay(i)
    BY <1>a, <1>c, <2>1, <2>2 DEF MirrorMay
  <2> QED BY <1>d, <2>1, <2>3, <2>4 DEF Outlook
<1>11. CASE MirrorClose
  <2>1. /\ engine.pc = "sell_close" /\ ClosePosition(engine.id, engine.sig)
        /\ engine.id \in DOMAIN rows /\ engine.sig \in Nat
        /\ UNCHANGED <<sent, open_positions>>
    BY <1>11, <1>b, <1>g DEF MirrorClose, SellPC, EngineTask
  <2>2. engine'.pc = "sell_forget"
    BY <1>11, <1>b DEF MirrorClose, EngineTask
  <2>3. /\ RowsKept /\ \A j \in DOMAIN rows : j # engine.id => rows'[j] = rows[j]
        /\ ~rows'[engine.id].open
    BY <2>1, CloseEffect
  <2>4. rows'[i].key = rows[i].key /\ (rows'[i].open => i # engine.id /\ rows[i].open)
    BY <2>3 DEF RowsKept
  <2>5. Sales(i)' = Sales(i)
    BY <2>1 DEF Sales
  <2>6. ExitMay(i)' => ExitMay(i)
    BY <1>a, <2>4, ExitMayKept
  <2>7. MirrorMay(i)' => MirrorMay(i)
    BY <1>a, <1>c, <2>1, <2>2, <2>4 DEF MirrorMay
  <2> QED BY <2>4, <2>5, <2>6, <2>7 DEF Outlook
<1>12. CASE MirrorForget
  <2>1. /\ UNCHANGED <<rows, sent>> /\ engine.pc = "sell_forget" /\ engine'.pc = "idle"
        /\ open_positions' = [open_positions EXCEPT ![engine.key] = NoRow]
    BY <1>12 DEF MirrorForget, Idle, durable
  <2>2. open_positions'[rows[i].key] = i => open_positions[rows[i].key] = i
    BY <1>b, <2>1 DEF TypeOK
  <2>3. MirrorMay(i)' => MirrorMay(i)
    BY <1>a, <1>c, <2>1, <2>2 DEF MirrorMay
  <2> QED BY <1>e, <2>1, <2>3
<1> QED
  BY <1>1, <1>2, <1>3, <1>4, <1>5, <1>6, <1>7, <1>8, <1>9, <1>10, <1>11, <1>12
  DEF BuyStep, MirrorStep

\* The steps of a TP/SL pass.
LEMMA OutlookExit ==
  ASSUME LedgerInv, ProcessInv, WaysOut, NEW i \in DOMAIN rows,
         ExitStep \/ \E r \in DOMAIN rows : PassSkip(r) \/ PassSell(r)
  PROVE  Outlook(i) /\ rows'[i].key = rows[i].key
<1> USE DEF LedgerInv, TypeInv
<1>a. process = "up" /\ UNCHANGED <<process, cfg, engine>>
  <2>1. TaskStep
    BY DEF TaskStep
  <2>2. process = "up" /\ UNCHANGED <<process, cfg>>
    BY <2>1, TasksRun DEF control
  <2>3. UNCHANGED engine
    BY DEF ExitStep, PassStart, PassEnd, ExitAnswered, ExitUnanswered, ExitClose,
       ExitCloseFails, ExitForget, PassSkip, PassSell
  <2> QED BY <2>2, <2>3
<1>b. tp_sl \in TpSlTask /\ i # NoRow
  BY RowIds DEF TypeOK
<1>c. \A k : HasTpSl(k)' <=> HasTpSl(k)
  BY <1>a, StrategyKept
<1>d. ASSUME UNCHANGED <<rows, open_positions>> PROVE MirrorMay(i)' => MirrorMay(i)
  BY <1>a, <1>d, MirrorMayKept
<1>e. UNCHANGED sent => Sales(i)' = Sales(i)
  BY DEF Sales
<1>1. CASE PassStart
  <2>1. /\ UNCHANGED <<rows, sent, open_positions>> /\ tp_sl.pc = "wait"
        /\ tp_sl'.pc = "scan" /\ tp_sl'.scan = OpenIds
    BY <1>1, <1>b DEF PassStart, TpSlTask, durable
  <2>2. ExitMay(i)' => ExitMay(i)
    BY <1>a, <1>c, <2>1 DEF ExitMay, OpenIds
  <2> QED BY <1>d, <1>e, <2>1, <2>2 DEF Outlook
<1>2. CASE PassEnd
  <2>1. /\ UNCHANGED <<rows, sent, open_positions>> /\ tp_sl.pc = "scan"
        /\ tp_sl'.pc = "wait" /\ tp_sl'.scan = {}
    BY <1>2 DEF PassEnd, Wait, durable
  <2>2. ExitMay(i)' => ExitMay(i)
    BY <1>a, <1>c, <2>1 DEF ExitMay
  <2> QED BY <1>d, <1>e, <2>1, <2>2 DEF Outlook
<1>3. CASE ExitUnanswered \/ ExitCloseFails
  <2>1. UNCHANGED <<rows, sent, open_positions>> /\ faults' = faults + 1
    BY <1>3 DEF ExitUnanswered, ExitCloseFails, Fault, durable
  <2> QED BY <1>d, <1>e, <2>1 DEF Outlook
<1>4. CASE ExitAnswered
  <2>1. /\ tp_sl.sig \in DOMAIN sent /\ Acknowledge(tp_sl.sig) /\ tp_sl.pc = "exit_sent"
        /\ UNCHANGED <<rows, open_positions>>
    BY <1>4 DEF ExitAnswered, ExitInFlight, Sales
  <2>2. tp_sl'.pc = "exit_close" /\ tp_sl'.id = tp_sl.id /\ tp_sl'.scan = tp_sl.scan
    BY <1>4, <1>b DEF ExitAnswered, TpSlTask
  <2>3. Sales(i)' = Sales(i)
    BY <2>1, AcknowledgeEffect, NothingSent
  <2>4. ExitMay(i)' => ExitMay(i)
    BY <1>a, <1>c, <2>1, <2>2 DEF ExitMay
  <2> QED BY <1>d, <2>1, <2>3, <2>4 DEF Outlook
<1>5. CASE ExitClose
  <2>1. /\ tp_sl.pc = "exit_close" /\ ClosePosition(tp_sl.id, tp_sl.sig)
        /\ tp_sl.id \in DOMAIN rows /\ tp_sl.sig \in Nat
        /\ UNCHANGED <<sent, open_positions>>
    BY <1>5, <1>b DEF ExitClose, ExitInFlight, TpSlTask
  <2>2. tp_sl'.pc = "exit_forget" /\ tp_sl'.scan = tp_sl.scan
    BY <1>5, <1>b DEF ExitClose, TpSlTask
  <2>3. /\ RowsKept /\ \A j \in DOMAIN rows : j # tp_sl.id => rows'[j] = rows[j]
        /\ ~rows'[tp_sl.id].open
    BY <2>1, CloseEffect
  <2>4. rows'[i].key = rows[i].key /\ (rows'[i].open => i # tp_sl.id /\ rows[i].open)
    BY <2>3 DEF RowsKept
  <2>5. ExitMay(i)' => ExitMay(i)
    BY <1>a, <1>c, <2>1, <2>2, <2>4 DEF ExitMay
  <2>6. MirrorMay(i)' => MirrorMay(i)
    BY <1>a, <2>1, <2>4, MirrorMayKept
  <2> QED BY <1>e, <2>1, <2>4, <2>5, <2>6 DEF Outlook
<1>6. CASE ExitForget
  <2>1. /\ UNCHANGED <<rows, sent>> /\ tp_sl.pc = "exit_forget"
        /\ open_positions' = [open_positions EXCEPT ![rows[tp_sl.id].key] = NoRow]
        /\ tp_sl'.pc = "scan" /\ tp_sl'.scan = tp_sl.scan
    BY <1>6 DEF ExitForget, Wait, durable
  <2>2. open_positions'[rows[i].key] = i => open_positions[rows[i].key] = i
    BY <1>b, <2>1 DEF TypeOK
  <2>3. MirrorMay(i)' => MirrorMay(i)
    BY <1>a, <2>1, <2>2, MirrorMayKept
  <2>4. ExitMay(i)' => ExitMay(i)
    BY <1>a, <1>c, <2>1 DEF ExitMay
  <2> QED BY <1>e, <2>1, <2>3, <2>4 DEF Outlook
<1>7. ASSUME NEW r \in DOMAIN rows, PassSkip(r)
      PROVE  Outlook(i) /\ rows'[i].key = rows[i].key
  <2>1. /\ UNCHANGED <<rows, sent, open_positions>> /\ tp_sl.pc = "scan"
        /\ tp_sl'.pc = "scan" /\ tp_sl'.scan = tp_sl.scan \ {r}
    BY <1>7, <1>b DEF PassSkip, IsNext, TpSlTask, durable
  <2>2. ExitMay(i)' => ExitMay(i)
    BY <1>a, <1>c, <2>1 DEF ExitMay
  <2> QED BY <1>d, <1>e, <2>1, <2>2 DEF Outlook
<1>8. ASSUME NEW r \in DOMAIN rows, PassSell(r)
      PROVE  Outlook(i) /\ rows'[i].key = rows[i].key
  <2>1. rows[r] \in Position /\ r \in Nat
    BY ElementOfSeq, LenProperties DEF TypeOK
  <2>2. [side |-> "sell", key |-> rows[r].key, row |-> r, ok |-> FALSE] \in Submission
    BY <2>1 DEF Submission, Position
  <2>3. /\ UNCHANGED <<rows, open_positions>> /\ Submit("sell", rows[r].key, r)
        /\ tp_sl.pc = "scan" /\ r \in tp_sl.scan /\ HasTpSl(rows[r].key)
        /\ tp_sl'.pc = "exit_sent" /\ tp_sl'.id = r /\ tp_sl'.scan = tp_sl.scan \ {r}
    BY <1>8 DEF PassSell, IsNext, Eligible
  <2>4. /\ WireKept /\ DOMAIN sent' = DOMAIN sent \union {Len(sent) + 1}
        /\ sent'[Len(sent) + 1].side = "sell" /\ sent'[Len(sent) + 1].row = r
    BY <2>2, <2>3, SubmitEffect
  <2>5. /\ \A j : j # r => Sales(j)' = Sales(j)
        /\ Cardinality(Sales(r)') = Cardinality(Sales(r)) + 1
    BY <2>3, <2>4, SaleSent
  <2>6. CASE i = r
    <3>1. ExitMay(i) /\ ~ExitMay(i)'
      BY <1>a, <2>3, <2>6 DEF ExitMay
    <3> QED BY <1>d, <2>3, <2>5, <2>6, <3>1 DEF Outlook
  <2>7. CASE i # r
    <3>1. ExitMay(i)' => ExitMay(i)
      BY <1>a, <1>c, <2>3, <2>7 DEF ExitMay
    <3> QED BY <1>d, <2>3, <2>5, <2>7, <3>1 DEF Outlook
  <2> QED BY <2>6, <2>7
<1> QED BY <1>1, <1>2, <1>3, <1>4, <1>5, <1>6, <1>7, <1>8 DEF ExitStep

\* A new row has not been sold, and its ways out are those its strategy allows.
LEMMA NewRowPaid ==
  ASSUME LedgerInv, ProcessInv, BuyPersist, NEW n, n = Len(rows) + 1
  PROVE  SalePaid(n)'
<1> USE DEF LedgerInv, TypeInv
<1>1. process = "up" /\ runs > 0 /\ runs \in Nat /\ faults \in Nat
  BY BoundsAssumption DEF BuyPersist, ProcessInv, Idle, TypeOK
<1>2. n \notin DOMAIN rows /\ rows'[n].key = engine.key
  BY AppendsRow
<1>3. Sales(n)' = {} /\ Cardinality(Sales(n)') = 0
  <2>1. Sales(n) = {}
    BY <1>2 DEF LedgerJustified, Sales
  <2>2. Sales(n)' = Sales(n)
    BY DEF BuyPersist, Sales
  <2> QED BY <2>1, <2>2, FS_EmptySet
<1>4. UNCHANGED <<cfg, runs, faults>> /\ cfg \in Configs
  BY DEF BuyPersist, control, TypeOK
<1>5. PICK w : w = engine.key[1]
  OBVIOUS
<1>6. /\ MirrorMay(n)' => Mirrors(w)
      /\ ExitMay(n)' => HasTpSl(engine.key)
  <2>1. /\ Mirrors(w)' <=> Mirrors(w)
        /\ \A k : HasTpSl(k)' <=> HasTpSl(k)
    BY <1>4, StrategyKept
  <2>2. rows'[n].key[1] = w
    BY <1>2, <1>5
  <2> QED BY <1>2, <2>1, <2>2 DEF MirrorMay, ExitMay
<1>7. Exits(w) \in Nat /\ Exits(w) >= 1
  BY DEF Exits
<1>8. Mirrors(w) /\ HasTpSl(engine.key) => Exits(w) = 2
  <2>1. Mirrors(w) /\ HasTpSl(engine.key) =>
          cfg.wallets[w].exit_strategy = "mirror_then_tp_sl"
    BY <1>5 DEF Mirrors, HasTpSl, Wcfg
  <2> QED BY <1>4, <2>1 DEF Exits
<1>9. Count(MirrorMay(n)') + Count(ExitMay(n)') <= Exits(w)
  BY <1>6, <1>7, <1>8 DEF Count
<1>10. 0 + Count(MirrorMay(n)') + Count(ExitMay(n)') < Exits(w) + faults + runs
  <2>1. Count(MirrorMay(n)') \in Nat /\ Count(ExitMay(n)') \in Nat
    BY DEF Count
  <2> QED BY <1>1, <1>7, <1>9, <2>1
<1> QED BY <1>2, <1>3, <1>4, <1>5, <1>10 DEF SalePaid

\* Every step keeps the account.
LEMMA SalesPaidStep ==
  LedgerInv /\ ProcessInv /\ WaysOut /\ SalesPaid /\ [Next]_vars => SalesPaid'
<1> SUFFICES ASSUME LedgerInv, ProcessInv, WaysOut, SalesPaid, [Next]_vars
             PROVE  SalesPaid'
  OBVIOUS
<1> USE DEF LedgerInv, TypeInv
<1>1. CASE TaskStep
  <2>1. ASSUME NEW i \in DOMAIN rows PROVE SalePaid(i)'
    <3>1. Outlook(i) /\ rows'[i].key = rows[i].key
      BY <1>1, OutlookEngine, OutlookExit DEF TaskStep
    <3> QED BY <1>1, <3>1, OutlookPays DEF SalesPaid
  <2>2. CASE BuyPersist
    <3>1. PICK n : n = Len(rows) + 1
      OBVIOUS
    <3>2. DOMAIN rows' = DOMAIN rows \union {n}
      BY <2>2, <3>1, AppendsRow
    <3>3. SalePaid(n)'
      BY <2>2, <3>1, NewRowPaid
    <3> QED BY <2>1, <3>2, <3>3 DEF SalesPaid
  <2>3. CASE ~BuyPersist
    <3>1. DOMAIN rows' = DOMAIN rows
      BY <1>1, <2>3, RowsOnlyPersisted
    <3> QED BY <2>1, <3>1 DEF SalesPaid
  <2> QED BY <2>2, <2>3
<1>2. CASE ProcessStep
  <2> SUFFICES ASSUME NEW i \in DOMAIN rows PROVE SalePaid(i)'
    BY <1>2 DEF SalesPaid, ProcessStep, Start, Shutdown, Crash, durable
  <2>1. UNCHANGED <<rows, sent, faults>> /\ MemoryLost /\ i # NoRow
    BY <1>2, RowIds DEF ProcessStep, Start, Shutdown, Crash, durable
  <2>2. Sales(i)' = Sales(i)
    BY <2>1 DEF Sales
  <2>3. ~MirrorMay(i)'
    <3>1. rows[i] \in Position
      BY ElementOfSeq, LenProperties DEF TypeOK
    <3>2. rows[i].key \in Keys
      BY <3>1 DEF Position
    <3> QED BY <2>1, <3>2 DEF MirrorMay, MemoryLost, Idle, NoPositions
  <2>4. SalePaid(i)
    BY DEF SalesPaid
  <2> DEFINE c == Cardinality(Sales(i))
             e == Exits(rows[i].key[1])
  <2>5. faults \in Nat /\ runs \in Nat /\ c \in Nat /\ e \in Nat
    BY BoundsAssumption, Countable DEF TypeOK, Exits
  <2>6. c + Count(MirrorMay(i)) + Count(ExitMay(i)) < e + faults + runs
    BY <2>4 DEF SalePaid
  <2>7. Count(MirrorMay(i)) \in Nat /\ Count(ExitMay(i)) \in Nat
    BY DEF Count
  <2>8. c + 0 + Count(ExitMay(i)') < e + faults + runs'
    <3> HIDE DEF c, e
    <3>1. CASE Start
      <4>1. runs' = runs + 1 /\ (Count(ExitMay(i)') = 0 \/ Count(ExitMay(i)') = 1)
        BY <3>1 DEF Start, Count
      <4> QED BY <2>5, <2>6, <2>7, <4>1
    <3>2. CASE Shutdown \/ Crash
      <4>1. runs' = runs /\ Count(ExitMay(i)') = 0
        BY <3>2 DEF Shutdown, Crash, Count, ExitMay
      <4> QED BY <2>5, <2>6, <2>7, <4>1
    <3> QED BY <1>2, <3>1, <3>2 DEF ProcessStep
  <2>9. Count(MirrorMay(i)') = 0
    BY <2>3 DEF Count
  <2> QED BY <2>1, <2>2, <2>8, <2>9 DEF SalePaid
<1>3. CASE UNCHANGED vars \/ \E w \in Wallets : CooldownElapses(w)
  <2>1. UNCHANGED <<process, cfg, runs, faults, rows, sent, open_positions, engine, tp_sl>>
    BY <1>3 DEF vars, CooldownElapses, durable, control
  <2> SUFFICES ASSUME NEW i \in DOMAIN rows PROVE SalePaid(i)'
    BY <2>1 DEF SalesPaid
  <2>2. Sales(i)' = Sales(i)
    BY <2>1 DEF Sales
  <2>3. (MirrorMay(i)' <=> MirrorMay(i)) /\ (ExitMay(i)' <=> ExitMay(i))
    BY <2>1, StrategyKept DEF MirrorMay, ExitMay
  <2>4. Count(MirrorMay(i)') = Count(MirrorMay(i)) /\ Count(ExitMay(i)') = Count(ExitMay(i))
    BY <2>3 DEF Count
  <2> QED BY <2>1, <2>2, <2>4 DEF SalesPaid, SalePaid
<1> QED BY <1>1, <1>2, <1>3 DEF Next, TaskStep

\* One lot is sold no more often than its strategy has exits, plus once for
\* every failed answer or write and once for every restart: the two tasks may
\* both sell it, but neither sells it twice without a failure (engine.rs:300-468).
THEOREM OversellIsBounded == Spec => []OversellBounded
<1>1. Init => SalesPaid
  BY DEF Init, SalesPaid
<1>2. TypeOK /\ SalesPaid => OversellBounded
  <2> SUFFICES ASSUME TypeOK, SalesPaid, NEW i \in DOMAIN rows
               PROVE  Cardinality(Sales(i)) < Exits(rows[i].key[1]) + faults + runs
    BY DEF OversellBounded
  <2>1. SalePaid(i)
    BY DEF SalesPaid
  <2>2. Cardinality(Sales(i)) \in Nat /\ Exits(rows[i].key[1]) \in Nat
    BY Countable DEF Exits
  <2>3. faults \in Nat /\ runs \in Nat
    BY BoundsAssumption DEF TypeOK
  <2>4. Count(MirrorMay(i)) \in Nat /\ Count(ExitMay(i)) \in Nat
    BY DEF Count
  <2> QED BY <2>1, <2>2, <2>3, <2>4 DEF SalePaid
<1>3. LedgerInv => TypeOK
  BY DEF LedgerInv, TypeInv
<1> QED BY <1>1, <1>2, <1>3, LedgerInit, LedgerStep, ProcessInvInit, ProcessInvStep,
     WaysOutInit, WaysOutStep, SalesPaidStep, PTL DEF Spec

=============================================================================
