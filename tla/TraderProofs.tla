---------------------------- MODULE TraderProofs ----------------------------
(***************************************************************************)
(* Proofs about Trader, for every set of wallets, mints and configurations,*)
(* every script of the targets and every bound: it implements CopyEngine,  *)
(* swaps are copied in order and once, an exit loses no buy, and a lot its *)
(* target sold is only open for a reason.                                  *)
(*                                                                         *)
(* The invariant says where a swap can be.  FeedInv: in the stream, in the *)
(* channel or taken, in the targets' order.  CopiesInv: a handler that has *)
(* not written its row copies the swap taken last.  StreamInv: all behind  *)
(* a swap that waits or is handled is missed or waits, unless the stream   *)
(* has stopped.  TrackedInv: the map names every open lot of this run that *)
(* is the only one of its key.  SalesSeen: so the sell of such a lot still *)
(* waits or the handler is at it.                                          *)
(***************************************************************************)
EXTENDS Trader, BoundsProofs

-----------------------------------------------------------------------------
(* What is on its way to the engine, and what it has taken.                *)

\* What the engine is handed are swaps of the targets.
Fed ==
  /\ targets \in Seq(Swap)
  /\ seen \in 0..Len(targets) /\ swap \in 0..Len(targets)
  /\ queue \in Seq(1..Len(targets)) /\ handled \in Seq(1..Len(targets))

\* The last swap the engine took.
Taken == IF handled = <<>> THEN 0 ELSE handled[Len(handled)]

Increasing(s) == \A i, j \in 1..Len(s) : i < j => s[i] < s[j]

\* Swaps wait in the order the targets made them, behind the one taken last.
InOrder ==
  /\ Increasing(queue)
  /\ \A i \in 1..Len(queue) : Taken < queue[i] /\ queue[i] <= seen
  /\ Taken <= seen /\ swap <= seen
  /\ swap # 0 => Taken < swap /\ \A i \in 1..Len(queue) : queue[i] < swap

FeedInv == Fed /\ InOrder

\* The lengths and the numbers of Fed.
LEMMA FedTypes ==
  ASSUME Fed
  PROVE  /\ Len(targets) \in Nat /\ Len(queue) \in Nat /\ Len(handled) \in Nat
         /\ seen \in Nat /\ swap \in Nat /\ Taken \in 0..Len(targets)
         /\ \A i \in 1..Len(queue) : queue[i] \in 1..Len(targets)
         /\ \A i \in 1..Len(handled) : handled[i] \in 1..Len(targets)
<1>1. Len(targets) \in Nat /\ Len(queue) \in Nat /\ Len(handled) \in Nat
  BY LenProperties DEF Fed
<1>2. /\ \A i \in 1..Len(queue) : queue[i] \in 1..Len(targets)
      /\ \A i \in 1..Len(handled) : handled[i] \in 1..Len(targets)
  BY ElementOfSeq DEF Fed
<1>3. handled # <<>> => Len(handled) \in 1..Len(handled)
  BY <1>1, EmptySeq DEF Fed
<1> QED BY <1>1, <1>2, <1>3 DEF Fed, Taken

\* Every script is a sequence of swaps, and nothing waits at first.
LEMMA FeedInit == TInit => FeedInv
<1> SUFFICES ASSUME TInit PROVE Fed /\ InOrder
  BY DEF FeedInv
<1>1. targets \in Seq(Swap) /\ seen = 0 /\ swap = 0 /\ queue = <<>> /\ handled = <<>>
  BY ScriptsAssumption DEF TInit, Life!Init
<1>2. Len(targets) \in Nat
  BY <1>1, LenProperties
<1>3. Fed
  BY <1>1, <1>2 DEF Fed
<1>4. Taken = 0
  BY <1>1 DEF Taken
<1> QED BY <1>1, <1>3, <1>4 DEF InOrder, Increasing

\* The swaps the stream decodes, the channel keeps and the engine takes are
\* those the targets made, in their order.
LEMMA FeedStep == FeedInv /\ [TNext]_tvars => FeedInv'
<1> SUFFICES ASSUME Fed, InOrder, [TNext]_tvars PROVE Fed' /\ InOrder'
  BY DEF FeedInv
<1> DEFINE feeding == <<targets, seen, swap, queue, handled>>
<1>0. targets' = targets
  BY DEF TNext, tvars
<1>1. CASE UNCHANGED feeding
  BY <1>1 DEF Fed, InOrder, Taken, Increasing
<1>2. CASE Dies \/ Restart \/ Life!GeyserStops \/ Life!EngineStops
  <2>1. /\ seen' = seen /\ handled' = handled
        /\ swap' = 0 \/ swap' = swap
        /\ queue' = <<>> \/ queue' = queue
    BY <1>2 DEF Dies, Restart, NoTasks, Life!GeyserStops, Life!EngineStops, Life!feed,
       Life!work
  <2>2. /\ 0 \in 0..Len(targets) /\ 0 <= seen
        /\ <<>> \in Seq(1..Len(targets)) /\ Len(<<>>) = 0
    BY FedTypes, EmptySeq
  <2>3. Fed'
    <3>1. swap' \in 0..Len(targets) /\ queue' \in Seq(1..Len(targets))
      BY <2>1, <2>2 DEF Fed
    <3> QED BY <1>0, <2>1, <3>1 DEF Fed
  <2>4. Taken' = Taken
    BY <2>1 DEF Taken
  <2>5. Increasing(queue') /\ \A i \in 1..Len(queue') : Taken < queue'[i] /\ queue'[i] <= seen
    BY <2>1, <2>2 DEF InOrder, Increasing
  <2>6. swap' # 0 => Taken < swap' /\ \A i \in 1..Len(queue') : queue'[i] < swap'
    BY <2>1, <2>2 DEF InOrder
  <2>7. Taken <= seen /\ swap' <= seen
    BY <2>1, <2>2 DEF InOrder
  <2> QED BY <2>1, <2>3, <2>4, <2>5, <2>6, <2>7 DEF InOrder
<1>3. CASE TargetStep
  <2>1. /\ seen < Len(targets) /\ seen' = seen + 1 /\ queue' = queue /\ handled' = handled
        /\ swap' = swap \/ swap' = seen + 1
    BY <1>3 DEF TargetStep, Unseen, Life!SwapDecoded, Life!work
  <2>2. Fed'
    <3>1. seen + 1 \in 0..Len(targets)
      BY <2>1, FedTypes
    <3> QED BY <1>0, <2>1, <3>1 DEF Fed
  <2>3. Taken' = Taken
    BY <2>1 DEF Taken
  <2>4. Increasing(queue')
    BY <2>1 DEF InOrder
  <2>5. /\ \A i \in 1..Len(queue) :
             Taken < queue[i] /\ queue[i] <= seen + 1 /\ queue[i] < seen + 1
        /\ Taken <= seen + 1 /\ swap <= seen + 1 /\ Taken < seen + 1
    BY FedTypes DEF InOrder
  <2>6. swap' # 0 => Taken < swap' /\ \A i \in 1..Len(queue) : queue[i] < swap'
    BY <2>1, <2>5 DEF InOrder
  <2>7. swap' <= seen'
    BY <2>1, <2>5, FedTypes
  <2> QED BY <2>1, <2>2, <2>3, <2>4, <2>5, <2>6, <2>7 DEF InOrder
<1>4. CASE Life!SendSwap
  <2>1. /\ swap # 0 /\ swap' = 0 /\ seen' = seen /\ handled' = handled
        /\ queue' = queue \/ queue' = Append(queue, swap)
    BY <1>4 DEF Life!SendSwap, Life!work
  <2>2. Taken' = Taken
    BY <2>1 DEF Taken
  <2>3. CASE queue' = queue
    BY <1>0, <2>1, <2>2, <2>3, FedTypes DEF Fed, InOrder, Increasing
  <2>4. CASE queue' = Append(queue, swap)
    <3>1. swap \in 1..Len(targets)
      BY <2>1 DEF Fed
    <3>2. /\ queue' \in Seq(1..Len(targets)) /\ Len(queue') = Len(queue) + 1
          /\ Len(queue) \in Nat
          /\ \A i \in 1..Len(queue) : queue'[i] = queue[i]
          /\ queue'[Len(queue) + 1] = swap
      BY <2>4, <3>1, AppendKeeps DEF Fed
    <3>3. Fed'
      BY <1>0, <2>1, <3>2, FedTypes DEF Fed
    <3>4. \A i \in 1..Len(queue') : i \in 1..Len(queue) \/ i = Len(queue) + 1
      BY <3>2
    <3>5. Increasing(queue')
      <4> SUFFICES ASSUME NEW i \in 1..Len(queue'), NEW j \in 1..Len(queue'), i < j
                   PROVE  queue'[i] < queue'[j]
        BY DEF Increasing
      <4>1. i \in 1..Len(queue)
        BY <3>2
      <4>2. CASE j \in 1..Len(queue)
        BY <3>2, <4>1, <4>2 DEF InOrder, Increasing
      <4>3. CASE j = Len(queue) + 1
        BY <2>1, <3>2, <4>1, <4>3 DEF InOrder
      <4> QED BY <3>4, <4>2, <4>3
    <3>6. \A i \in 1..Len(queue') : Taken < queue'[i] /\ queue'[i] <= seen
      BY <2>1, <3>2, <3>4 DEF InOrder
    <3>7. 0 <= seen
      BY FedTypes
    <3> QED BY <2>1, <2>2, <3>3, <3>5, <3>6, <3>7 DEF InOrder
  <2> QED BY <2>1, <2>3, <2>4
<1>5. CASE Life!TakeSwap
  <2>1. /\ queue # <<>> /\ queue' = Tail(queue) /\ handled' = Append(handled, Head(queue))
        /\ seen' = seen /\ swap' = swap
    BY <1>5 DEF Life!TakeSwap, Life!feed
  <2>2. /\ Tail(queue) \in Seq(1..Len(targets)) /\ Head(queue) = queue[1]
        /\ 1 \in 1..Len(queue)
        /\ Len(Tail(queue)) = Len(queue) - 1
        /\ \A j \in 1..Len(Tail(queue)) :
             Tail(queue)[j] = queue[j + 1] /\ j + 1 \in 1..Len(queue)
    <3>1. Head(queue) = queue[1] /\ Tail(queue) \in Seq(1..Len(targets)) /\ Len(queue) \in Nat
          /\ Len(Tail(queue)) = Len(queue) - 1
      BY <2>1, HeadTailProperties, LenProperties DEF Fed
    <3>2. 1 \in 1..Len(queue)
      BY <2>1, <3>1, EmptySeq DEF Fed
    <3>3. \A j \in 1..Len(Tail(queue)) : Tail(queue)[j] = queue[j + 1]
      BY <2>1, HeadTailProperties DEF Fed
    <3> QED BY <3>1, <3>2, <3>3
  <2>3. Head(queue) \in 1..Len(targets)
    BY <2>2, FedTypes
  <2>4. /\ handled' \in Seq(1..Len(targets)) /\ Len(handled') = Len(handled) + 1
        /\ handled'[Len(handled) + 1] = Head(queue) /\ handled' # <<>>
    <3>1. /\ handled' \in Seq(1..Len(targets)) /\ Len(handled') = Len(handled) + 1
          /\ handled'[Len(handled) + 1] = Head(queue) /\ Len(handled) \in Nat
      BY <2>1, <2>3, AppendKeeps DEF Fed
    <3> QED BY <3>1, EmptySeq
  <2>5. Fed'
    BY <1>0, <2>1, <2>2, <2>4 DEF Fed
  <2>6. Taken' = queue[1]
    BY <2>2, <2>4 DEF Taken
  <2> DEFINE t == Tail(queue)
  <2>7. /\ Len(queue) \in Nat /\ Len(t) = Len(queue) - 1
        /\ \A j \in 1..Len(t) : t[j] = queue[j + 1] /\ j + 1 \in 1..Len(queue)
    BY <2>2, FedTypes
  <2> HIDE DEF t
  <2>8. Increasing(t) /\ \A i \in 1..Len(t) : queue[1] < t[i] /\ t[i] <= seen
    <3>1. ASSUME NEW i \in 1..Len(t), NEW j \in 1..Len(t), i < j PROVE t[i] < t[j]
      <4>1. i + 1 < j + 1
        BY <3>1, <2>7
      <4> QED BY <2>7, <4>1 DEF InOrder, Increasing
    <3>2. ASSUME NEW i \in 1..Len(t) PROVE queue[1] < t[i] /\ t[i] <= seen
      <4>1. 1 < i + 1 /\ 1 \in 1..Len(queue)
        BY <2>2, <2>7
      <4> QED BY <2>7, <4>1 DEF InOrder, Increasing
    <3> QED BY <3>1, <3>2 DEF Increasing
  <2>9. swap # 0 => queue[1] < swap /\ \A i \in 1..Len(t) : t[i] < swap
    BY <2>2, <2>7 DEF InOrder
  <2>10. queue[1] <= seen /\ swap <= seen
    BY <2>2 DEF InOrder
  <2>11. queue' = t
    BY <2>1 DEF t
  <2> QED BY <2>1, <2>5, <2>6, <2>8, <2>9, <2>10, <2>11 DEF InOrder
<1>6. CASE MainStep \/ EngineSpawned \/ Life!HandlerDone
  BY <1>0, <1>1, <1>6 DEF MainStep, EngineSpawned, Life!SpawnEngine, Life!SpawnGeyser,
     Life!EnterFront, Life!FrontHears, Life!Joined, Life!Sigint, Life!ForwardSigint, Life!Quit,
     Life!HandlerDone, Life!feed, Life!work
<1>7. CASE Life!Connected \/ Life!StreamFails \/ Life!StreamEnds \/ Life!BackoffOver
  BY <1>0, <1>1, <1>7 DEF Life!Connected, Life!StreamFails, Life!StreamEnds,
     Life!BackoffOver, Life!work
<1>8. CASE UNCHANGED life_vars
  BY <1>0, <1>1, <1>8 DEF life_vars
<1>9. CASE UNCHANGED tvars
  BY <1>8, <1>9 DEF tvars
<1> QED BY <1>2, <1>3, <1>4, <1>5, <1>6, <1>7, <1>8, <1>9 DEF TNext, StreamStep, Handover,
     TakeStep, DoneStep, StopStep, CopyBuyStep, CopySellStep, TpSlStep, CooldownStep

-----------------------------------------------------------------------------
(* The copy engine takes only steps of CopyEngine.                         *)

\* What is taken is a swap of a wallet and a mint CopyEngine knows.
LEMMA TakenIsSwap ==
  ASSUME Fed, Life!TakeSwap
  PROVE  /\ Head(queue) = queue[1] /\ 1 \in 1..Len(queue)
         /\ targets[Head(queue)] \in Swap
<1>1. queue # <<>>
  BY DEF Life!TakeSwap
<1>2. Head(queue) = queue[1] /\ 1 \in 1..Len(queue)
  BY <1>1, HeadTailProperties, LenProperties, EmptySeq DEF Fed
<1>3. queue[1] \in 1..Len(targets)
  BY <1>2, FedTypes
<1> QED BY <1>2, <1>3, ElementOfSeq DEF Fed

\* A handler is started for a wallet and a mint CopyEngine knows.
LEMMA TakeMaps ==
  ASSUME Fed, TakeStep
  PROVE  [Next]_vars
<1> DEFINE s == targets[Head(queue)]
<1>1. s \in Swap /\ HandlerStarts(s)
  BY TakenIsSwap DEF TakeStep
<1>2. s.key[1] \in Wallets /\ s.key[2] \in Mints
  BY <1>1 DEF Swap, Keys
<1> HIDE DEF s
<1>3. OnTargetBuy(s.key[1], s.key[2]) \/ OnTargetSell(s.key[1], s.key[2]) \/ UNCHANGED vars
  BY <1>1 DEF HandlerStarts
<1> QED BY <1>2, <1>3 DEF Next

\* Every other step shares its half with a step of CopyEngine or leaves the
\* copy engine alone.
LEMMA StepMaps == Fed /\ [TNext]_tvars => [Next]_vars
<1> SUFFICES ASSUME Fed, [TNext]_tvars PROVE [Next]_vars
  OBVIOUS
<1>1. CASE UNCHANGED tvars
  BY <1>1 DEF tvars
<1>2. CASE EngineSpawned
  BY <1>2 DEF EngineSpawned, Next, ProcessStep
<1>3. CASE MainStep \/ Restart \/ TargetStep \/ StreamStep
  BY <1>3 DEF MainStep, Restart, TargetStep, StreamStep
<1>4. CASE Dies
  BY <1>4 DEF Dies, Next, ProcessStep
<1>5. CASE TakeStep
  BY <1>5, TakeMaps
<1>6. CASE DoneStep \/ StopStep
  BY <1>6 DEF DoneStep, StopStep, Next, ProcessStep
<1>7. CASE CopyBuyStep
  BY <1>7 DEF CopyBuyStep, Next
<1>8. CASE CopySellStep
  BY <1>8 DEF CopySellStep, Next, MirrorStep
<1>9. CASE TpSlStep \/ CooldownStep
  BY <1>9 DEF TpSlStep, CooldownStep, Next
<1> QED BY <1>1, <1>2, <1>3, <1>4, <1>5, <1>6, <1>7, <1>8, <1>9 DEF TNext, Handover

\* Whatever main, the stream, the channel, signals, crashes and restarts do,
\* the copy engine inside the program takes only steps of CopyEngine
\* (main.rs:34-116, engine.rs:57-75).
THEOREM TraderImplementsCopyEngine == TSpec => ImplementsCopyEngine
<1>1. TInit => Init
  BY DEF TInit
<1>2. FeedInv => Fed
  BY DEF FeedInv
<1> QED BY <1>1, <1>2, FeedInit, FeedStep, StepMaps, PTL
  DEF TSpec, ImplementsCopyEngine, Spec

-----------------------------------------------------------------------------
(* The tasks as main() sees them, and the process of the copy engine.      *)

\* The engine task runs while the copy engine is up, a process that exits has
\* waited for it, and handlers run inside it.
TasksInv ==
  /\ process = "up" <=> task \in {"idle", "handling"}
  /\ task = "stopped" => process = "stopped" /\ queue = <<>>
  /\ main = "exited" => task = "stopped"
  /\ main = "failed" => task = "none"
  /\ main = "boot" => geyser = "none" /\ task = "none"
  /\ engine.pc # "idle" => task = "handling"

\* Nothing runs at first.
LEMMA TasksInit == TInit => TasksInv
BY DEF TInit, Init, Life!Init, TasksInv, Idle

\* The process of the copy engine changes with its tasks.
LEMMA SpawnTasks == TasksInv /\ EngineSpawned => TasksInv'
BY DEF EngineSpawned, Life!SpawnEngine, Start, MemoryLost, Idle, TasksInv, Life!feed

\* Main, signals and the stream leave the copy engine alone.
LEMMA OutsideTasks ==
  ASSUME TasksInv, MainStep \/ TargetStep \/ StreamStep
  PROVE  TasksInv' /\ UNCHANGED vars
<1> USE DEF TasksInv, Life!feed, Life!work, vars
<1>1. CASE MainStep
  BY <1>1 DEF MainStep, Life!SpawnGeyser, Life!EnterFront, Life!FrontHears, Life!Joined,
     Life!Sigint, Life!ForwardSigint, Life!Quit
<1>2. CASE TargetStep
  BY <1>2 DEF TargetStep, Unseen, Life!SwapDecoded, Life!Running
<1>3. CASE StreamStep
  BY <1>3 DEF StreamStep, Life!GeyserStops, Life!Connected, Life!StreamFails,
     Life!StreamEnds, Life!BackoffOver, Life!SendSwap, Life!Running
<1> QED BY <1>1, <1>2, <1>3

\* The end of a process is the end of its copy engine.
LEMMA EndTasks == TasksInv /\ (Dies \/ Restart \/ StopStep) => TasksInv' /\ process' # "up"
BY DEF Dies, Restart, NoTasks, StopStep, Life!EngineStops, Life!Running, Crash, Shutdown,
   MemoryLost, Idle, TasksInv, Life!feed, vars

\* The two tasks of the copy engine.
CopyTaskStep == CopyBuyStep \/ CopySellStep \/ TpSlStep

\* Their steps are none of the process.
LEMMA TaskStepOfTrader ==
  ASSUME CopyTaskStep
  PROVE  TaskStep /\ UNCHANGED life_vars
BY DEF CopyTaskStep, CopyBuyStep, CopySellStep, TpSlStep, TaskStep, MirrorStep

\* The two tasks of the copy engine leave the process as it is.
LEMMA InsideTasks ==
  ASSUME TasksInv, ProcessInv, CopyTaskStep
  PROVE  TasksInv'
<1>1. process = "up" /\ process' = process
  BY TasksRun, TaskStepOfTrader DEF control
<1>2. UNCHANGED <<main, geyser, task, queue>>
  BY TaskStepOfTrader DEF life_vars
<1>3. engine.pc = "idle" => engine' = engine
  BY DEF CopyTaskStep, CopyBuyStep, CopySellStep, TpSlStep, BuyStep, BuyAnswered,
     BuyUnanswered, BuyPersist, BuyPersistFails, BuyTrack, MirrorReadFails, MirrorNotSent,
     MirrorUnanswered, MirrorCloseFails, MirrorFindsRow, MirrorRowGone, MirrorSend,
     MirrorAnswered, MirrorClose, MirrorForget, ExitStep, PassStart, PassEnd, ExitAnswered,
     ExitUnanswered, ExitClose, ExitCloseFails, ExitForget, PassSkip, PassSell
<1> QED BY <1>1, <1>2, <1>3 DEF TasksInv

\* Every step keeps it.
LEMMA TasksStep == TasksInv /\ ProcessInv /\ [TNext]_tvars => TasksInv'
<1> SUFFICES ASSUME TasksInv, ProcessInv, [TNext]_tvars PROVE TasksInv'
  OBVIOUS
<1>1. CASE TakeStep \/ DoneStep
  <2>1. /\ process' = process /\ main' = main /\ geyser' = geyser
        /\ engine.pc = "idle" /\ (task' = "idle" => engine'.pc = "idle")
        /\ task \in {"idle", "handling"} /\ task' \in {"idle", "handling"}
    BY <1>1 DEF TakeStep, DoneStep, Life!TakeSwap, Life!HandlerDone, HandlerStarts,
       OnTargetBuy, OnTargetSell, TasksInv, Life!feed, vars, control
  <2>2. main \notin {"exited", "failed", "boot"}
    BY <1>1 DEF TakeStep, DoneStep, Life!TakeSwap, Life!HandlerDone, Life!Running
  <2> QED BY <2>1, <2>2 DEF TasksInv
<1>2. CASE CooldownStep \/ UNCHANGED tvars
  BY <1>2 DEF CooldownStep, CooldownElapses, TasksInv, life_vars, tvars, vars, control
<1> QED BY <1>1, <1>2, SpawnTasks, OutsideTasks, EndTasks, InsideTasks
  DEF TNext, Handover, CopyTaskStep

-----------------------------------------------------------------------------
(* What is copied.                                                         *)

\* Rows are only closed.
RowsClose == RowsKept /\ \A i \in DOMAIN rows : rows'[i].open => rows[i].open

\* The tasks of the copy engine close rows, and a copy buy adds one.
LEMMA RowsOnlyClose ==
  ASSUME LedgerInv, TaskStep, ~BuyPersist
  PROVE  RowsClose
<1> USE DEF LedgerInv, TypeInv, RowsClose
<1>1. CASE MirrorClose
  <2>1. engine.id \in DOMAIN rows /\ engine.sig \in Nat /\ ClosePosition(engine.id, engine.sig)
    BY <1>1 DEF MirrorClose, SaleInFlight, SellPC, TypeOK, EngineTask
  <2> QED BY <2>1, CloseEffect
<1>2. CASE ExitClose
  <2>1. tp_sl.id \in DOMAIN rows /\ tp_sl.sig \in Nat /\ ClosePosition(tp_sl.id, tp_sl.sig)
    BY <1>2 DEF ExitClose, ExitInFlight, TypeOK, TpSlTask
  <2> QED BY <2>1, CloseEffect
<1>3. CASE ~MirrorClose /\ ~ExitClose
  <2>1. UNCHANGED rows
    BY <1>3 DEF TaskStep, OnTargetBuy, OnTargetSell, BuyStep, BuyAnswered, BuyUnanswered,
       BuyPersistFails, BuyTrack, MirrorStep, MirrorFindsRow, MirrorRowGone,
       MirrorReadFails, MirrorSend, MirrorNotSent, MirrorAnswered, MirrorUnanswered,
       MirrorCloseFails, MirrorForget, ExitStep, PassStart, PassEnd, ExitAnswered,
       ExitUnanswered, ExitCloseFails, ExitForget, PassSkip, PassSell, durable
  <2> QED BY <2>1 DEF RowsKept
<1> QED BY <1>1, <1>2, <1>3

\* Swap n is a buy of the wallet and the mint of k.
Copies(n, k) == targets[n] = [key |-> k, side |-> "buy"]

BeforeRow == {"buy_sent", "buy_persist"}

\* CopiedOnce, and why the next row keeps it: a handler that has not written
\* its row copies the swap taken last, which is later than all copied so far.
CopiesInv ==
  /\ copied \in Seq(1..Len(targets)) /\ Len(copied) = Len(rows)
  /\ Increasing(copied) /\ \A i \in 1..Len(copied) : copied[i] <= Taken
  /\ \A i \in 1..Len(copied) : Copies(copied[i], rows[i].key)
  /\ engine.pc \in BeforeRow =>
       /\ handled # <<>> /\ Copies(Taken, engine.key)
       /\ \A i \in 1..Len(copied) : copied[i] < Taken

\* Nothing is copied at first.
LEMMA CopiesInit == TInit => CopiesInv
<1> SUFFICES ASSUME TInit PROVE CopiesInv
  OBVIOUS
<1>1. copied = <<>> /\ rows = <<>> /\ engine.pc = "idle"
  BY DEF TInit, Init, Idle
<1>2. <<>> \in Seq(1..Len(targets)) /\ Len(<<>>) = 0
  BY EmptySeq
<1> QED BY <1>1, <1>2 DEF CopiesInv, Increasing, BeforeRow

\* Ids of rows and of what they copy.
LEMMA CopyIds ==
  ASSUME TypeOK, CopiesInv
  PROVE  /\ DOMAIN rows = 1..Len(rows) /\ DOMAIN copied = 1..Len(copied) /\ Len(copied) \in Nat
         /\ \A i \in 1..Len(copied) : copied[i] \in 1..Len(targets)
BY LenProperties, ElementOfSeq DEF TypeOK, CopiesInv

\* A step that writes no row and starts no copy buy.
LEMMA CopiesKept ==
  ASSUME TypeOK, CopiesInv, RowsKept, UNCHANGED <<copied, handled, targets>>,
         engine'.pc \in BeforeRow => engine.pc \in BeforeRow /\ engine'.key = engine.key
  PROVE  CopiesInv'
<1>1. Taken' = Taken
  BY DEF Taken
<1>2. \A i \in 1..Len(copied) : rows'[i].key = rows[i].key
  BY CopyIds DEF RowsKept, CopiesInv
<1> QED BY <1>1, <1>2 DEF CopiesInv, RowsKept, Copies

\* A swap is taken: it is later than every swap copied.
LEMMA CopiesTake ==
  ASSUME TypeOK, FeedInv, TasksInv, CopiesInv, TakeStep, UNCHANGED <<copied, targets>>
  PROVE  CopiesInv'
<1> DEFINE s == targets[Head(queue)]
<1>1. /\ Head(queue) = queue[1] /\ 1 \in 1..Len(queue) /\ s \in Swap /\ HandlerStarts(s)
      /\ handled' = Append(handled, Head(queue)) /\ task = "idle"
  BY TakenIsSwap DEF TakeStep, FeedInv, Life!TakeSwap
<1>2. handled' # <<>> /\ Taken' = Head(queue)
  <2>1. Head(queue) \in 1..Len(targets) /\ handled \in Seq(1..Len(targets))
    BY <1>1, FedTypes DEF FeedInv, Fed
  <2>2. /\ Len(handled) \in Nat /\ handled' \in Seq(1..Len(targets))
        /\ Len(handled') = Len(handled) + 1 /\ handled'[Len(handled) + 1] = Head(queue)
    BY <1>1, <2>1, AppendKeeps
  <2> QED BY <2>2, EmptySeq DEF Taken
<1>3. \A i \in 1..Len(copied) : copied[i] < Head(queue) /\ copied[i] <= Head(queue)
  <2>1. Taken < queue[1] /\ Taken \in 0..Len(targets) /\ queue[1] \in 1..Len(targets)
        /\ Len(targets) \in Nat
    BY <1>1, FedTypes DEF FeedInv, InOrder
  <2>2. \A i \in 1..Len(copied) : copied[i] <= Taken /\ copied[i] \in 1..Len(targets)
    BY CopyIds DEF CopiesInv
  <2> QED BY <1>1, <2>1, <2>2
<1>4. engine.pc = "idle" /\ rows' = rows
  BY <1>1 DEF HandlerStarts, OnTargetBuy, OnTargetSell, durable, vars, TasksInv
<1>5. ASSUME engine'.pc \in BeforeRow
      PROVE  targets[Head(queue)] = [key |-> engine'.key, side |-> "buy"]
  <2> HIDE DEF s
  <2>1. s.side = "buy" /\ engine'.key = <<s.key[1], s.key[2]>>
    BY <1>1, <1>4, <1>5 DEF HandlerStarts, OnTargetBuy, OnTargetSell, BeforeRow, vars
  <2>2. s.key = <<s.key[1], s.key[2]>> /\ s = [key |-> s.key, side |-> s.side]
    BY <1>1 DEF Swap, Keys
  <2>3. s = [key |-> engine'.key, side |-> "buy"]
    BY <2>1, <2>2
  <2> QED BY <2>3 DEF s
<1>6. \A i \in 1..Len(copied) : targets[copied[i]] = [key |-> rows'[i].key, side |-> "buy"]
  BY <1>4 DEF CopiesInv, Copies
<1>7. copied' = copied /\ targets' = targets
  OBVIOUS
<1> QED BY <1>2, <1>3, <1>4, <1>5, <1>6, <1>7 DEF CopiesInv, Copies

\* A row is written: it copies the swap taken last.
LEMMA CopiesPersist ==
  ASSUME LedgerInv, FeedInv, CopiesInv, CopyBuyStep, BuyPersist, UNCHANGED targets
  PROVE  CopiesInv'
<1>0. TypeOK
  BY DEF LedgerInv, TypeInv
<1>1. /\ Len(rows) \in Nat /\ Len(rows') = Len(rows) + 1
      /\ \A i \in 1..Len(rows) : rows'[i] = rows[i]
      /\ rows'[Len(rows) + 1].key = engine.key
  BY <1>0, AppendsRow, CopyIds DEF CopiesInv
<1>2. engine.pc \in BeforeRow /\ engine'.pc \notin BeforeRow
  BY DEF BuyPersist, BeforeRow, LedgerInv, TypeInv, TypeOK, EngineTask
<1>3. /\ handled # <<>> /\ Copies(Taken, engine.key)
      /\ \A i \in 1..Len(copied) : copied[i] < Taken
  BY <1>2 DEF CopiesInv
<1>4. Taken' = Taken /\ Taken \in 1..Len(targets)
  <2>1. handled' = handled
    BY DEF CopyBuyStep, life_vars
  <2>2. Len(handled) \in 1..Len(handled)
    BY <1>3, EmptySeq, LenProperties DEF FeedInv, Fed
  <2> QED BY <1>3, <2>1, <2>2, FedTypes DEF Taken, FeedInv
<1>5. copied' = Append(copied, Taken)
  BY <1>1, <1>3 DEF CopyBuyStep, Taken
<1>6. /\ copied' \in Seq(1..Len(targets)) /\ Len(copied') = Len(copied) + 1
      /\ Len(copied) \in Nat /\ Len(copied) = Len(rows)
      /\ \A i \in 1..Len(copied) : copied'[i] = copied[i]
      /\ copied'[Len(copied) + 1] = Taken
  BY <1>0, <1>4, <1>5, AppendKeeps, CopyIds DEF CopiesInv
<1>7. \A i \in 1..Len(copied') : i \in 1..Len(copied) \/ i = Len(copied) + 1
  BY <1>6
<1>8. Increasing(copied')
  <2> SUFFICES ASSUME NEW i \in 1..Len(copied'), NEW j \in 1..Len(copied'), i < j
               PROVE  copied'[i] < copied'[j]
    BY DEF Increasing
  <2>1. i \in 1..Len(copied)
    BY <1>6
  <2>2. CASE j \in 1..Len(copied)
    BY <1>6, <2>1, <2>2 DEF CopiesInv, Increasing
  <2>3. CASE j = Len(copied) + 1
    BY <1>3, <1>6, <2>1, <2>3
  <2> QED BY <1>7, <2>2, <2>3
<1>9. \A i \in 1..Len(copied') : copied'[i] <= Taken
  <2>1. Taken <= Taken
    BY <1>4, FedTypes DEF FeedInv
  <2> QED BY <1>6, <1>7, <2>1 DEF CopiesInv
<1>10. ASSUME NEW i \in 1..Len(copied')
       PROVE  targets[copied'[i]] = [key |-> rows'[i].key, side |-> "buy"]
  <2>1. CASE i \in 1..Len(copied)
    BY <1>1, <1>6, <2>1 DEF CopiesInv, Copies
  <2>2. CASE i = Len(copied) + 1
    BY <1>1, <1>3, <1>6, <2>2 DEF Copies
  <2> QED BY <1>7, <2>1, <2>2
<1> QED BY <1>1, <1>2, <1>4, <1>6, <1>8, <1>9, <1>10 DEF CopiesInv, Copies

\* The only step that writes a row is that of the handler.
LEMMA PersistIsCopied ==
  ASSUME LedgerInv, TasksInv, [TNext]_tvars, BuyPersist
  PROVE  CopyBuyStep
<1>1. /\ engine.pc = "buy_persist" /\ engine'.pc = "buy_track" /\ task = "handling"
  BY DEF BuyPersist, LedgerInv, TypeInv, TypeOK, EngineTask, TasksInv
<1>2. engine' # engine /\ engine' # Idle
  BY <1>1 DEF Idle
<1>3. ~MainStep /\ ~TargetStep /\ ~StreamStep
  BY <1>2, OutsideTasks DEF vars
<1>4. ~CopySellStep
  BY <1>1 DEF CopySellStep, MirrorReadFails, MirrorNotSent, MirrorUnanswered,
     MirrorCloseFails, MirrorFindsRow, MirrorRowGone, MirrorSend, MirrorAnswered,
     MirrorClose, MirrorForget
<1>5. ~TpSlStep
  BY <1>2 DEF TpSlStep, ExitStep, PassStart, PassEnd, ExitAnswered, ExitUnanswered,
     ExitClose, ExitCloseFails, ExitForget, PassSkip, PassSell
<1>6. ~EngineSpawned /\ ~Dies /\ ~Restart /\ ~DoneStep /\ ~StopStep /\ ~CooldownStep
  BY <1>2 DEF EngineSpawned, Start, Dies, Crash, Restart, DoneStep, StopStep, Shutdown,
     MemoryLost, CooldownStep, CooldownElapses, vars
<1>7. ~TakeStep
  BY <1>1 DEF TakeStep, Life!TakeSwap
<1> QED BY <1>2, <1>3, <1>4, <1>5, <1>6, <1>7 DEF TNext, Handover, tvars, vars

\* Every step keeps it.
LEMMA CopiesStep ==
  ASSUME LedgerInv, ProcessInv, FeedInv, TasksInv, CopiesInv, [TNext]_tvars
  PROVE  CopiesInv'
<1>0. TypeOK /\ (UNCHANGED rows => RowsKept) /\ Idle.pc \notin BeforeRow
  BY DEF LedgerInv, TypeInv, RowsKept, Idle, BeforeRow
<1>1. CASE /\ MainStep \/ Dies \/ Restart \/ StreamStep \/ DoneStep \/ StopStep
           /\ UNCHANGED history
  <2>1. UNCHANGED <<copied, handled, targets, rows>> /\ (engine' = engine \/ engine' = Idle)
    <3>1. CASE MainStep \/ StreamStep
      <4>1. UNCHANGED handled
        BY <3>1 DEF MainStep, Life!SpawnGeyser, Life!EnterFront, Life!FrontHears, Life!Joined,
           Life!Sigint, Life!ForwardSigint, Life!Quit, StreamStep, Life!GeyserStops,
           Life!Connected, Life!StreamFails, Life!StreamEnds, Life!BackoffOver, Life!SendSwap,
           Life!work
      <4> QED BY <1>1, <3>1, <4>1, OutsideTasks DEF history, vars, TNext, tvars
    <3>2. CASE Dies \/ Restart \/ DoneStep \/ StopStep
      BY <1>1, <3>2 DEF Dies, Restart, NoTasks, DoneStep, StopStep, Life!HandlerDone,
         Life!EngineStops, Life!feed, Crash, Shutdown, MemoryLost, durable, history, vars,
         TNext, tvars
    <3> QED BY <1>1, <3>1, <3>2
  <2> QED BY <1>0, <2>1, CopiesKept
<1>2. CASE EngineSpawned \/ TargetStep \/ CooldownStep \/ UNCHANGED tvars
  <2>1. UNCHANGED <<copied, handled, targets, rows>> /\ (engine' = engine \/ engine' = Idle)
    BY <1>2 DEF EngineSpawned, Life!SpawnEngine, Life!feed, Start, MemoryLost, durable,
       TargetStep, Unseen, Life!SwapDecoded, Life!work, CooldownStep, CooldownElapses,
       life_vars, history, vars, tvars, TNext
  <2> QED BY <1>0, <2>1, CopiesKept
<1>3. CASE TakeStep /\ UNCHANGED history
  BY <1>0, <1>3, CopiesTake DEF history, TNext, tvars
<1>4. CASE CopyTaskStep
  <2>1. TaskStep /\ UNCHANGED <<handled, targets>>
    BY <1>4, TaskStepOfTrader DEF life_vars, TNext, tvars
  <2>2. CASE CopyBuyStep /\ BuyPersist
    BY <2>1, <2>2, CopiesPersist
  <2>3. CASE ~BuyPersist
    <3>1. RowsKept
      BY <2>1, <2>3, RowsOnlyClose DEF RowsClose
    <3>2. copied' = copied
      <4>1. ~(Len(rows') > Len(rows))
        BY <1>0, <3>1, CopyIds DEF RowsKept, CopiesInv
      <4> QED BY <1>4, <4>1 DEF CopyTaskStep, CopyBuyStep, CopySellStep, TpSlStep, history
    <3>3. engine'.pc \in BeforeRow => engine.pc \in BeforeRow /\ engine'.key = engine.key
      BY <1>0, <1>4, <2>3 DEF BeforeRow, CopyTaskStep, CopyBuyStep, CopySellStep, TpSlStep,
         BuyStep, BuyAnswered, BuyUnanswered, BuyPersistFails, BuyTrack, MirrorReadFails,
         MirrorNotSent, MirrorUnanswered, MirrorCloseFails, MirrorFindsRow, MirrorRowGone,
         MirrorSend, MirrorAnswered, MirrorClose, MirrorForget, ExitStep, PassStart, PassEnd,
         ExitAnswered, ExitUnanswered, ExitClose, ExitCloseFails, ExitForget, PassSkip,
         PassSell, TypeOK, EngineTask, Idle
    <3> QED BY <1>0, <2>1, <3>1, <3>2, <3>3, CopiesKept
  <2>4. BuyPersist => CopyBuyStep
    BY PersistIsCopied
  <2> QED BY <2>2, <2>3, <2>4
<1> QED BY <1>1, <1>2, <1>3, <1>4 DEF TNext, Handover, CopyTaskStep

-----------------------------------------------------------------------------
(* No swap is lost between the stream and the engine while both run.       *)

Waiting == {queue[i] : i \in 1..Len(queue)} \union ({swap} \ {0})

\* Swap n was missed or waits, or the stream has stopped and dropped it.
Accounted(n) == n \in missed \/ n \in Waiting \/ geyser = "stopped"

\* All swaps behind one that waits, and behind the one being handled, are
\* accounted for.
StreamInv ==
  /\ \A q \in Waiting : \A n \in q..seen : Accounted(n)
  /\ task = "handling" => \A n \in Taken + 1 .. seen : Accounted(n)

\* What waits are numbers the stream has seen.
LEMMA WaitingTypes ==
  ASSUME FeedInv
  PROVE  \A q \in Waiting : q \in Nat /\ q <= seen /\ Taken < q
<1>1. /\ \A i \in 1..Len(queue) : queue[i] \in Nat
      /\ swap \in Nat
  BY FedTypes DEF FeedInv
<1> QED BY <1>1 DEF Waiting, FeedInv, InOrder

\* Nothing waits at first.
LEMMA StreamInit == TInit => StreamInv
<1> SUFFICES ASSUME TInit PROVE StreamInv
  OBVIOUS
<1>1. queue = <<>> /\ swap = 0 /\ task = "none"
  BY DEF TInit, Life!Init
<1>2. Waiting = {}
  BY <1>1, EmptySeq DEF Waiting
<1> QED BY <1>1, <1>2 DEF StreamInv

\* What a step may do to the swaps on their way.
Unfed ==
  /\ UNCHANGED <<missed, queue, swap, seen, handled>>
  /\ geyser = "stopped" => geyser' = "stopped"
  /\ task' = "handling" => task = "handling"
StreamCut ==
  geyser' = "stopped" /\ swap' = 0 /\ UNCHANGED <<missed, queue, seen, handled, task>>
Brought ==
  /\ seen' = seen + 1 /\ UNCHANGED <<queue, handled, geyser, task>>
  /\ \/ missed' = missed \union {seen + 1} /\ swap' = swap
     \/ missed' = missed /\ swap = 0 /\ swap' = seen + 1
HandedOver ==
  swap # 0 /\ swap' = 0 /\ queue' = Append(queue, swap)
    /\ UNCHANGED <<missed, seen, handled, geyser, task>>
HandedToNobody ==
  task = "stopped" /\ task' = "stopped" /\ queue' = <<>> /\ swap' = 0
EngineGone ==
  task' = "stopped" /\ queue' = <<>> /\ UNCHANGED <<missed, swap, seen, geyser, handled>>
AllGone == task' = "none" /\ queue' = <<>> /\ swap' = 0

\* There is nothing else a step does to them.
LEMMA FeedCases ==
  ASSUME TasksInv, [TNext]_tvars
  PROVE  \/ Unfed \/ StreamCut \/ Brought \/ HandedOver \/ HandedToNobody
         \/ EngineGone \/ AllGone
         \/ TakeStep /\ UNCHANGED <<missed, swap, seen, geyser>>
<1>1. CASE MainStep /\ UNCHANGED history
  BY <1>1 DEF MainStep, Life!SpawnGeyser, Life!EnterFront, Life!FrontHears, Life!Joined,
     Life!Sigint, Life!ForwardSigint, Life!Quit, Life!feed, Life!work, history, Unfed, TasksInv
<1>2. CASE (Dies \/ Restart) /\ UNCHANGED history
  BY <1>2 DEF Dies, Restart, NoTasks, AllGone
<1>3. CASE StreamStep /\ UNCHANGED history
  BY <1>3 DEF StreamStep, Life!GeyserStops, Life!Connected, Life!StreamFails, Life!StreamEnds,
     Life!BackoffOver, Life!SendSwap, Life!work, history, Unfed, StreamCut, HandedOver,
     HandedToNobody, TasksInv
<1>4. CASE Handover /\ UNCHANGED history
  BY <1>4 DEF Handover, TakeStep, DoneStep, StopStep, Life!TakeSwap, Life!HandlerDone,
     Life!EngineStops, Life!feed, history, Unfed, EngineGone
<1>5. CASE EngineSpawned \/ TargetStep
  BY <1>5 DEF EngineSpawned, Life!SpawnEngine, TargetStep, Unseen, Life!SwapDecoded, Life!feed,
     Life!work, Unfed, Brought
<1>6. CASE CopyBuyStep \/ CopySellStep \/ TpSlStep \/ CooldownStep \/ UNCHANGED tvars
  BY <1>6 DEF CopyBuyStep, CopySellStep, TpSlStep, CooldownStep, life_vars, history, tvars,
     Unfed
<1> QED BY <1>1, <1>2, <1>3, <1>4, <1>5, <1>6 DEF TNext

\* What is handed over goes on waiting.
LEMMA HandedOverWaits == Fed /\ HandedOver => Waiting' = Waiting
<1> SUFFICES ASSUME Fed, HandedOver PROVE Waiting' = Waiting
  OBVIOUS
<1>1. swap \in 1..Len(targets) /\ swap' = 0 /\ queue' = Append(queue, swap)
  BY DEF Fed, HandedOver
<1>2. /\ Len(queue') = Len(queue) + 1 /\ Len(queue) \in Nat
      /\ \A i \in 1..Len(queue) : queue'[i] = queue[i]
      /\ queue'[Len(queue) + 1] = swap
  BY <1>1, AppendKeeps DEF Fed
<1>3. 1..Len(queue') = 1..Len(queue) \union {Len(queue) + 1}
  BY <1>2
<1>4. {queue'[i] : i \in 1..Len(queue')} = {queue[i] : i \in 1..Len(queue)} \union {swap}
  BY <1>2, <1>3
<1> QED BY <1>1, <1>4 DEF Waiting

\* What is taken waits no more; all else does.
LEMMA TakenLeaves ==
  ASSUME FeedInv, Life!TakeSwap
  PROVE  /\ Taken' = Head(queue) /\ Head(queue) \in Waiting
         /\ Waiting' \subseteq Waiting /\ Waiting \subseteq Waiting' \union {Head(queue)}
<1>1. /\ queue # <<>> /\ queue' = Tail(queue) /\ handled' = Append(handled, Head(queue))
      /\ swap' = swap
  BY DEF Life!TakeSwap, Life!feed
<1>2. /\ Head(queue) = queue[1] /\ Len(queue) \in Nat /\ Len(queue') = Len(queue) - 1
      /\ \A j \in 1..Len(queue') : queue'[j] = queue[j + 1]
  BY <1>1, HeadTailProperties, LenProperties DEF FeedInv, Fed
<1>3. 1 \in 1..Len(queue)
  BY <1>1, <1>2, EmptySeq DEF FeedInv, Fed
<1>4. /\ \A j \in 1..Len(queue') : j + 1 \in 1..Len(queue)
      /\ \A i \in 1..Len(queue) : i = 1 \/ (i - 1 \in 1..Len(queue') /\ (i - 1) + 1 = i)
  BY <1>2
<1>5. \A j \in 1..Len(queue') : \E i \in 1..Len(queue) : queue'[j] = queue[i]
  BY <1>2, <1>4
<1>6. \A i \in 1..Len(queue) : i = 1 \/ \E j \in 1..Len(queue') : queue'[j] = queue[i]
  <2> SUFFICES ASSUME NEW i \in 1..Len(queue), i # 1
               PROVE  \E j \in 1..Len(queue') : queue'[j] = queue[i]
    OBVIOUS
  <2>1. i - 1 \in 1..Len(queue') /\ (i - 1) + 1 = i
    BY <1>4
  <2>2. queue'[i - 1] = queue[i]
    BY <1>2, <2>1
  <2> QED BY <2>1, <2>2
<1>7. Waiting' \subseteq Waiting /\ Waiting \subseteq Waiting' \union {Head(queue)}
  <2>1. {queue'[j] : j \in 1..Len(queue')} \subseteq {queue[i] : i \in 1..Len(queue)}
    BY <1>5
  <2>2. {queue[i] : i \in 1..Len(queue)}
          \subseteq {queue'[j] : j \in 1..Len(queue')} \union {queue[1]}
    BY <1>6
  <2> QED BY <1>1, <1>2, <2>1, <2>2 DEF Waiting
<1>8. Head(queue) \in Waiting
  BY <1>2, <1>3 DEF Waiting
<1>9. Taken' = Head(queue)
  <2>1. Head(queue) \in 1..Len(targets)
    BY <1>2, <1>3, FedTypes DEF FeedInv
  <2>2. /\ Len(handled) \in Nat /\ Len(handled') = Len(handled) + 1
        /\ handled'[Len(handled) + 1] = Head(queue) /\ handled' \in Seq(1..Len(targets))
    BY <1>1, <2>1, AppendKeeps DEF FeedInv, Fed
  <2> QED BY <2>2, EmptySeq DEF Taken
<1> QED BY <1>7, <1>8, <1>9

\* While the engine runs, nothing on its way is lost, but for the swap it takes.
LEMMA AccountKept ==
  ASSUME FeedInv, TasksInv', [TNext]_tvars, process' = "up",
         TasksInv, NEW n, Accounted(n)
  PROVE  \/ n \in missed' \/ n \in Waiting' \/ geyser' = "stopped"
         \/ TakeStep /\ n = Head(queue)
<1>1. task' \in {"idle", "handling"}
  BY DEF TasksInv
<1>2. ~HandedToNobody /\ ~EngineGone /\ ~AllGone
  BY <1>1 DEF HandedToNobody, EngineGone, AllGone
<1>3. CASE Unfed \/ StreamCut
  BY <1>3 DEF Unfed, StreamCut, Accounted, Waiting
<1>4. CASE Brought
  BY <1>4 DEF Brought, Accounted, Waiting
<1>5. CASE HandedOver
  BY <1>5, HandedOverWaits DEF HandedOver, Accounted, FeedInv
<1>6. CASE TakeStep /\ UNCHANGED <<missed, swap, seen, geyser>>
  BY <1>6, TakenLeaves DEF TakeStep, Accounted
<1> QED BY <1>2, <1>3, <1>4, <1>5, <1>6, FeedCases

\* Every step keeps it.
LEMMA StreamInvStep ==
  ASSUME FeedInv, FeedInv', TasksInv, StreamInv, [TNext]_tvars
  PROVE  StreamInv'
<1>1. CASE Unfed
  BY <1>1 DEF Unfed, StreamInv, Accounted, Waiting, Taken
<1>2. CASE StreamCut
  <2>1. Taken' = Taken
    BY <1>2 DEF StreamCut, Taken
  <2>2. \A n : Accounted(n)'
    BY <1>2 DEF StreamCut, Accounted
  <2> QED BY <2>1, <2>2 DEF StreamInv
<1>3. CASE Brought
  <2>1. Taken' = Taken /\ seen' = seen + 1 /\ seen \in Nat /\ task' = task
    BY <1>3, FedTypes DEF Brought, Taken, FeedInv
  <2>2. Waiting' = Waiting \/ (Waiting' = Waiting \union {seen + 1} /\ swap = 0)
    BY <1>3 DEF Brought, Waiting
  <2>3. ASSUME NEW n \in Nat, Accounted(n)
        PROVE  n \in missed' \/ n \in Waiting' \/ geyser' = "stopped"
    BY <1>3, <2>2, <2>3 DEF Brought, Accounted
  <2>4. seen + 1 \in missed' \union Waiting'
    BY <1>3, <2>1 DEF Brought, Waiting
  <2>5. ASSUME NEW q \in Waiting', NEW n \in q..seen'
        PROVE  n \in missed' \/ n \in Waiting' \/ geyser' = "stopped"
    <3>1. q \in Waiting \/ q = seen + 1
      BY <2>2
    <3>2. \A p \in Waiting : p \in Nat
      BY WaitingTypes
    <3>3. CASE n = seen + 1
      BY <2>4, <3>3
    <3>4. CASE n # seen + 1
      <4>1. q \in Waiting /\ n \in q..seen /\ n \in Nat
        BY <2>1, <2>5, <3>1, <3>2, <3>4
      <4> QED BY <2>3, <4>1 DEF StreamInv
    <3> QED BY <3>3, <3>4
  <2>6. ASSUME task' = "handling", NEW n \in Taken' + 1 .. seen'
        PROVE  n \in missed' \/ n \in Waiting' \/ geyser' = "stopped"
    <3>1. CASE n = seen + 1
      BY <2>4, <3>1
    <3>2. CASE n # seen + 1
      <4>1. Taken \in Nat
        BY FedTypes DEF FeedInv
      <4>2. n \in Taken + 1 .. seen /\ n \in Nat
        BY <2>1, <2>6, <3>2, <4>1
      <4> QED BY <2>1, <2>3, <2>6, <4>2 DEF StreamInv
    <3> QED BY <3>1, <3>2
  <2> QED BY <2>5, <2>6 DEF StreamInv, Accounted
<1>4. CASE HandedOver
  <2>1. Waiting' = Waiting /\ Taken' = Taken
    BY <1>4, HandedOverWaits DEF HandedOver, FeedInv, Taken
  <2> QED BY <1>4, <2>1 DEF HandedOver, StreamInv, Accounted
<1>5. CASE HandedToNobody \/ AllGone
  <2>1. Waiting' = {} /\ task' # "handling"
    BY <1>5, EmptySeq DEF HandedToNobody, AllGone, Waiting
  <2> QED BY <2>1 DEF StreamInv
<1>6. CASE EngineGone
  <2>1. task' # "handling" /\ UNCHANGED <<missed, swap, seen, geyser>>
    BY <1>6 DEF EngineGone
  <2>2. Waiting' = {swap} \ {0}
    BY <1>6, EmptySeq DEF EngineGone, Waiting
  <2>3. ASSUME NEW q \in Waiting', NEW n \in q..seen
        PROVE  n \in missed \/ n \in Waiting' \/ geyser = "stopped"
    <3>1. q = swap /\ swap # 0 /\ swap \in Waiting
      BY <2>2 DEF Waiting
    <3>2. Accounted(n)
      BY <3>1 DEF StreamInv
    <3>3. n \in Waiting => n = swap
      <4>1. swap \in Nat /\ \A i \in 1..Len(queue) : queue[i] \in Nat /\ queue[i] < swap
        BY <3>1, FedTypes DEF FeedInv, InOrder
      <4>2. n \in Nat /\ swap <= n
        BY <3>1, <4>1
      <4> QED BY <4>1, <4>2 DEF Waiting
    <3> QED BY <2>2, <3>1, <3>2, <3>3 DEF Accounted
  <2> QED BY <2>1, <2>3 DEF StreamInv, Accounted
<1>7. CASE TakeStep /\ UNCHANGED <<missed, swap, seen, geyser>>
  <2> DEFINE h == Head(queue)
  <2>1. /\ Taken' = h /\ h \in Waiting
        /\ Waiting' \subseteq Waiting /\ Waiting \subseteq Waiting' \union {h}
    BY <1>7, TakenLeaves DEF TakeStep
  <2>2. \A q \in Waiting' : q \in Nat /\ h < q
    <3>1. \A q \in Waiting' : Taken' < q
      BY DEF FeedInv, InOrder, Waiting
    <3> QED BY <2>1, <3>1, WaitingTypes
  <2>3. h \in Nat
    BY <2>1, WaitingTypes
  <2> HIDE DEF h
  <2>4. ASSUME NEW n, Accounted(n), n # h
        PROVE  n \in missed \/ n \in Waiting' \/ geyser = "stopped"
    BY <2>1, <2>4 DEF Accounted
  <2>5. ASSUME NEW q \in Waiting', NEW n \in q..seen
        PROVE  n \in missed \/ n \in Waiting' \/ geyser = "stopped"
    <3>1. Accounted(n)
      BY <2>1 DEF StreamInv
    <3>2. n # h
      BY <2>2, <2>3
    <3> QED BY <2>4, <3>1, <3>2
  <2>6. ASSUME NEW n \in h + 1 .. seen
        PROVE  n \in missed \/ n \in Waiting' \/ geyser = "stopped"
    <3>1. n \in h..seen /\ n # h
      BY <2>3
    <3>2. Accounted(n)
      BY <2>1, <3>1 DEF StreamInv
    <3> QED BY <2>4, <3>1, <3>2
  <2> QED BY <1>7, <2>1, <2>5, <2>6 DEF StreamInv, Accounted
<1> QED BY <1>1, <1>2, <1>3, <1>4, <1>5, <1>6, <1>7, FeedCases

-----------------------------------------------------------------------------
(* The lots of this run and the map.                                       *)

\* A run goes on: its configuration and its inheritance stay, and what
\* changes is the work of one of its tasks.
LEMMA RunGoesOn ==
  ASSUME TasksInv, Fed, ProcessInv, [TNext]_tvars, process' = "up", ~EngineSpawned
  PROVE  /\ process = "up" /\ UNCHANGED <<cfg, inherited, targets>>
         /\ UNCHANGED <<rows, open_positions, engine, tp_sl>> \/ TaskStep
<1>1. UNCHANGED <<inherited, targets>>
  BY DEF TNext, tvars, history, TargetStep, CopyBuyStep, CopySellStep, TpSlStep, CooldownStep
<1>2. CASE MainStep \/ TargetStep \/ StreamStep \/ CooldownStep \/ UNCHANGED tvars
  <2>1. CASE MainStep \/ TargetStep \/ StreamStep
    BY <1>1, <2>1, OutsideTasks DEF vars
  <2>2. CASE CooldownStep \/ UNCHANGED tvars
    BY <1>1, <2>2 DEF CooldownStep, CooldownElapses, control, durable, tvars, vars
  <2> QED BY <1>2, <2>1, <2>2
<1>3. ~(Dies \/ Restart \/ StopStep)
  BY EndTasks
<1>4. CASE DoneStep
  BY <1>1, <1>4 DEF DoneStep, vars
<1>5. CASE TakeStep
  <2> DEFINE s == targets[Head(queue)]
  <2>1. s \in Swap /\ HandlerStarts(s)
    BY <1>5, TakenIsSwap DEF TakeStep
  <2>2. s.key[1] \in Wallets /\ s.key[2] \in Mints
    BY <2>1 DEF Swap, Keys
  <2> HIDE DEF s
  <2>3. OnTargetBuy(s.key[1], s.key[2]) \/ OnTargetSell(s.key[1], s.key[2]) \/ UNCHANGED vars
    BY <2>1 DEF HandlerStarts
  <2>4. TaskStep \/ UNCHANGED vars
    BY <2>2, <2>3 DEF TaskStep
  <2> QED BY <1>1, <2>4, TasksRun DEF vars, control
<1>6. CASE CopyTaskStep
  BY <1>1, <1>6, TaskStepOfTrader, TasksRun DEF control
<1> QED BY <1>2, <1>3, <1>4, <1>5, <1>6 DEF TNext, Handover, CopyTaskStep

Single(i) == \A j \in DOMAIN rows \ {i} : rows[j].key # rows[i].key
OfThisRun(i) == i > inherited /\ process = "up"

\* The lots of this run are of wallets that are enabled, and the map names
\* every open one that is the only lot of its wallet and mint, or is about to:
\* a key is only forgotten when a lot of it was closed.
TrackedInv ==
  /\ \A i \in DOMAIN rows : OfThisRun(i) =>
       /\ cfg.wallets[rows[i].key[1]].enabled
       /\ rows[i].open /\ Single(i) =>
            open_positions[rows[i].key] = i \/ (engine.pc = "buy_track" /\ engine.id = i)
  /\ engine.pc \in BuyPC => cfg.wallets[engine.key[1]].enabled
  /\ engine.pc = "sell_forget" => ~rows[engine.id].open
  /\ tp_sl.pc = "exit_forget" => tp_sl.id \in DOMAIN rows /\ ~rows[tp_sl.id].open

\* No task runs at first.
LEMMA TrackedInit == TInit => TrackedInv
BY DEF TInit, Init, TrackedInv, OfThisRun, Idle, Wait, BuyPC

\* A row of a wallet and a mint.
LEMMA RowKeys ==
  ASSUME TypeOK
  PROVE  /\ \A i \in DOMAIN rows : rows[i] \in Position /\ rows[i].key \in Keys
         /\ open_positions \in [Keys -> Nat]
<1>1. \A i \in DOMAIN rows : rows[i] \in Position
  BY ElementOfSeq, LenProperties DEF TypeOK
<1> QED BY <1>1 DEF Position, TypeOK

\* A step that writes no row and leaves the map alone.
LEMMA TrackedKept ==
  ASSUME LedgerInv, TrackedInv, RowsClose, process = "up",
         UNCHANGED <<cfg, inherited, open_positions>>,
         engine.pc = "buy_track" => engine' = engine,
         engine'.pc \in BuyPC => engine.pc \in BuyPC /\ engine'.key = engine.key,
         engine'.pc = "sell_forget" => ~rows'[engine'.id].open,
         tp_sl'.pc = "exit_forget" => tp_sl'.id \in DOMAIN rows /\ ~rows'[tp_sl'.id].open
  PROVE  TrackedInv'
<1>1. DOMAIN rows' = DOMAIN rows
  BY DEF RowsClose, RowsKept
<1>2. ASSUME NEW i \in DOMAIN rows, i > inherited
      PROVE  cfg.wallets[rows'[i].key[1]].enabled
  BY <1>2 DEF RowsClose, RowsKept, TrackedInv, OfThisRun
<1>3. ASSUME NEW i \in DOMAIN rows, i > inherited, rows'[i].open,
             \A j \in DOMAIN rows \ {i} : rows'[j].key # rows'[i].key
      PROVE  open_positions[rows'[i].key] = i \/ (engine'.pc = "buy_track" /\ engine'.id = i)
  <2>1. rows[i].open /\ Single(i) /\ rows'[i].key = rows[i].key
    BY <1>3 DEF RowsClose, RowsKept, Single
  <2> QED BY <1>3, <2>1 DEF TrackedInv, OfThisRun
<1> QED BY <1>1, <1>2, <1>3 DEF TrackedInv, OfThisRun, Single

\* A key is forgotten with a closed lot of it.
LEMMA TrackedForgets ==
  ASSUME LedgerInv, TrackedInv, UNCHANGED <<rows, process, cfg, inherited>>, process = "up",
         NEW id \in DOMAIN rows, ~rows[id].open,
         open_positions' = [open_positions EXCEPT ![rows[id].key] = NoRow],
         engine' = engine \/ engine'.pc = "idle", engine.pc = "buy_track" => engine' = engine,
         tp_sl' = tp_sl \/ tp_sl'.pc = "scan"
  PROVE  TrackedInv'
<1>0. TypeOK
  BY DEF LedgerInv, TypeInv
<1>1. ASSUME NEW i \in DOMAIN rows, i > inherited, rows[i].open, Single(i)
      PROVE  open_positions'[rows[i].key] = i \/ (engine'.pc = "buy_track" /\ engine'.id = i)
  <2>1. rows[id].key # rows[i].key
    BY <1>1 DEF Single
  <2>2. open_positions'[rows[i].key] = open_positions[rows[i].key]
    BY <1>0, <2>1, RowKeys
  <2> QED BY <1>1, <2>2 DEF TrackedInv, OfThisRun
<1> QED BY <1>1 DEF TrackedInv, OfThisRun, Single, BuyPC

\* A row is written for an enabled wallet, and is about to be tracked.
LEMMA TrackedPersist ==
  ASSUME LedgerInv, TrackedInv, BuyPersist, process = "up", UNCHANGED inherited
  PROVE  TrackedInv'
<1>0. TypeOK /\ engine \in EngineTask
  BY DEF LedgerInv, TypeInv, TypeOK
<1> DEFINE n == Len(rows) + 1
<1>1. /\ n \notin DOMAIN rows /\ DOMAIN rows' = DOMAIN rows \union {n}
      /\ \A i \in DOMAIN rows : rows'[i] = rows[i]
      /\ rows'[n].key = engine.key
  BY AppendsRow
<1>2. /\ engine.pc = "buy_persist" /\ engine'.pc = "buy_track" /\ engine'.id = n
      /\ engine'.key = engine.key /\ UNCHANGED <<process, cfg, open_positions, tp_sl>>
  BY <1>0 DEF BuyPersist, EngineTask, control
<1> HIDE DEF n
<1>3. cfg.wallets[engine.key[1]].enabled
  BY <1>2 DEF TrackedInv, BuyPC
<1>4. ASSUME NEW i \in DOMAIN rows', i > inherited
      PROVE  cfg.wallets[rows'[i].key[1]].enabled
  BY <1>1, <1>3, <1>4 DEF TrackedInv, OfThisRun
<1>5. ASSUME NEW i \in DOMAIN rows, i > inherited, rows'[i].open,
             \A j \in DOMAIN rows' \ {i} : rows'[j].key # rows'[i].key
      PROVE  open_positions[rows'[i].key] = i
  <2>1. rows[i].open /\ Single(i) /\ rows'[i].key = rows[i].key
    BY <1>1, <1>5 DEF Single
  <2> QED BY <1>2, <1>5, <2>1 DEF TrackedInv, OfThisRun
<1>6. tp_sl'.pc = "exit_forget" => tp_sl'.id \in DOMAIN rows' /\ ~rows'[tp_sl'.id].open
  BY <1>1, <1>2 DEF TrackedInv
<1> QED BY <1>1, <1>2, <1>3, <1>4, <1>5, <1>6 DEF TrackedInv, OfThisRun, Single

\* The map entry of the newest lot is written.
LEMMA TrackedTrack ==
  ASSUME LedgerInv, TrackedInv, BuyTrack, process = "up", UNCHANGED inherited
  PROVE  TrackedInv'
<1>0. TypeOK
  BY DEF LedgerInv, TypeInv
<1>1. /\ engine.pc = "buy_track" /\ engine'.pc = "idle"
      /\ open_positions' = [open_positions EXCEPT ![engine.key] = engine.id]
      /\ UNCHANGED <<process, cfg, rows, tp_sl>>
  BY DEF BuyTrack, Idle, control
<1>2. engine.id \in DOMAIN rows /\ rows[engine.id].key = engine.key
  BY <1>1 DEF LedgerInv, BuyInFlight
<1>3. ASSUME NEW i \in DOMAIN rows, i > inherited, rows[i].open, Single(i)
      PROVE  open_positions'[rows[i].key] = i
  <2>1. CASE i = engine.id
    BY <1>0, <1>1, <1>2, <2>1, RowKeys
  <2>2. CASE i # engine.id
    <3>1. engine.key # rows[i].key
      BY <1>2, <1>3, <2>2 DEF Single
    <3>2. open_positions'[rows[i].key] = open_positions[rows[i].key]
      BY <1>0, <1>1, <3>1, RowKeys
    <3> QED BY <1>3, <2>2, <3>2 DEF TrackedInv, OfThisRun
  <2> QED BY <2>1, <2>2
<1> QED BY <1>1, <1>3 DEF TrackedInv, OfThisRun, Single, BuyPC

\* Every step of the two tasks keeps it.
LEMMA TrackedTask ==
  ASSUME LedgerInv, ProcessInv, TrackedInv, TaskStep, UNCHANGED inherited
  PROVE  TrackedInv'
<1>0. /\ TypeOK /\ engine \in EngineTask /\ tp_sl \in TpSlTask
      /\ process = "up" /\ UNCHANGED <<process, cfg>>
  BY TasksRun DEF LedgerInv, TypeInv, TypeOK, control
<1>1. CASE BuyPersist
  BY <1>0, <1>1, TrackedPersist
<1>2. CASE BuyTrack
  BY <1>0, <1>2, TrackedTrack
<1>3. CASE MirrorForget
  <2>1. engine.id \in DOMAIN rows /\ rows[engine.id].key = engine.key /\ ~rows[engine.id].open
    BY <1>3 DEF MirrorForget, LedgerInv, SaleInFlight, SellPC, TrackedInv
  <2>2. /\ UNCHANGED <<rows, tp_sl>> /\ engine.pc # "buy_track" /\ engine'.pc = "idle"
        /\ open_positions' = [open_positions EXCEPT ![rows[engine.id].key] = NoRow]
    BY <1>3, <2>1 DEF MirrorForget, durable, Idle
  <2> QED BY <1>0, <2>1, <2>2, TrackedForgets
<1>4. CASE ExitForget
  <2>1. tp_sl.id \in DOMAIN rows /\ ~rows[tp_sl.id].open
    BY <1>4 DEF ExitForget, TrackedInv
  <2>2. /\ UNCHANGED <<rows, engine>> /\ tp_sl'.pc = "scan"
        /\ open_positions' = [open_positions EXCEPT ![rows[tp_sl.id].key] = NoRow]
    BY <1>4 DEF ExitForget, durable, Wait
  <2> QED BY <1>0, <2>1, <2>2, TrackedForgets
<1>5. CASE ~BuyPersist /\ ~BuyTrack /\ ~MirrorForget /\ ~ExitForget
  <2>1. RowsClose
    BY <1>5, RowsOnlyClose
  <2>2. open_positions' = open_positions
    BY <1>5 DEF TaskStep, OnTargetBuy, OnTargetSell, BuyStep, BuyAnswered, BuyUnanswered,
       BuyPersistFails, MirrorStep, MirrorFindsRow, MirrorRowGone, MirrorReadFails, MirrorSend,
       MirrorNotSent, MirrorAnswered, MirrorUnanswered, MirrorClose, MirrorCloseFails,
       ExitStep,
       PassStart, PassEnd, ExitAnswered, ExitUnanswered, ExitClose, ExitCloseFails, PassSkip,
       PassSell
  <2>3. engine.pc = "sell_forget" => ~rows'[engine.id].open
    BY <2>1 DEF RowsClose, TrackedInv, LedgerInv, SaleInFlight, SellPC
  <2>4. tp_sl.pc = "exit_forget" => tp_sl.id \in DOMAIN rows /\ ~rows'[tp_sl.id].open
    BY <2>1 DEF RowsClose, TrackedInv
  <2> DEFINE engineOK ==
        /\ engine.pc = "buy_track" => engine' = engine
        /\ engine'.pc \in BuyPC => engine.pc \in BuyPC /\ engine'.key = engine.key
        /\ engine'.pc = "sell_forget" => ~rows'[engine'.id].open
      exitOK ==
        tp_sl'.pc = "exit_forget" => tp_sl'.id \in DOMAIN rows /\ ~rows'[tp_sl'.id].open
  <2>5. ASSUME NEW w \in Wallets, NEW m \in Mints, OnTargetBuy(w, m)
        PROVE  TrackedInv'
    <3>1. /\ UNCHANGED rows /\ cfg.wallets[w].enabled /\ tp_sl' = tp_sl /\ engine.pc = "idle"
          /\ engine'.pc = "buy_sent" /\ engine'.key[1] = w
      BY <2>5 DEF OnTargetBuy
    <3> QED BY <1>0, <2>2, <3>1 DEF TrackedInv, OfThisRun, Single, BuyPC
  <2>6. ASSUME engineOK, exitOK PROVE TrackedInv'
    BY <1>0, <2>1, <2>2, <2>6, TrackedKept
  <2>7. ASSUME NEW w \in Wallets, NEW m \in Mints, OnTargetSell(w, m)
        PROVE  engineOK /\ exitOK
    BY <2>4, <2>7 DEF OnTargetSell, BuyPC
  <2>8. CASE BuyStep \/ MirrorStep
    <3>1. tp_sl' = tp_sl
      BY <1>5, <2>8 DEF BuyStep, BuyAnswered, BuyUnanswered, BuyPersistFails, MirrorStep,
         MirrorFindsRow, MirrorRowGone, MirrorReadFails, MirrorSend, MirrorNotSent,
         MirrorAnswered, MirrorUnanswered, MirrorClose, MirrorCloseFails
    <3>2. CASE MirrorClose
      <4>1. /\ engine.id \in DOMAIN rows /\ engine.sig \in Nat
            /\ ClosePosition(engine.id, engine.sig)
        BY <1>0, <3>2 DEF MirrorClose, LedgerInv, SaleInFlight, SellPC, EngineTask
      <4>2. ~rows'[engine.id].open /\ engine'.id = engine.id /\ engine'.pc = "sell_forget"
        BY <1>0, <3>2, <4>1, CloseEffect DEF MirrorClose, EngineTask
      <4>3. engine.pc = "sell_close"
        BY <3>2 DEF MirrorClose
      <4> QED BY <2>4, <2>6, <3>1, <4>2, <4>3 DEF BuyPC
    <3>3. CASE ~MirrorClose
      <4>1. CASE engine' = Idle
        <5>1. engine.pc # "buy_track"
          BY <1>5, <2>8, <3>3 DEF BuyStep, BuyAnswered, BuyUnanswered, BuyPersistFails,
             MirrorStep, MirrorFindsRow, MirrorRowGone, MirrorReadFails, MirrorSend,
             MirrorNotSent, MirrorAnswered, MirrorUnanswered, MirrorCloseFails
        <5>2. engineOK
          BY <4>1, <5>1 DEF Idle, BuyPC
        <5> QED BY <2>4, <2>6, <3>1, <5>2
      <4>2. CASE BuyAnswered
        <5>1. engine.pc = "buy_sent" /\ engine'.pc = "buy_persist" /\ engine'.key = engine.key
          BY <1>0, <4>2 DEF BuyAnswered, EngineTask
        <5> QED BY <2>4, <2>6, <3>1, <5>1 DEF BuyPC
      <4>3. CASE MirrorFindsRow \/ MirrorSend \/ MirrorAnswered
        <5>1. /\ engine.pc # "buy_track"
              /\ engine'.pc \notin BuyPC /\ engine'.pc # "sell_forget"
          BY <1>0, <4>3 DEF MirrorFindsRow, MirrorSend, MirrorAnswered, EngineTask, BuyPC
        <5> QED BY <2>4, <2>6, <3>1, <5>1
      <4> QED BY <1>5, <2>8, <3>3, <4>1, <4>2, <4>3 DEF BuyStep, BuyUnanswered,
         BuyPersistFails,
        MirrorStep, MirrorRowGone, MirrorReadFails, MirrorNotSent, MirrorUnanswered,
        MirrorCloseFails
    <3> QED BY <3>2, <3>3
  <2>9. CASE ExitStep \/ \E r \in DOMAIN rows : PassSkip(r) \/ PassSell(r)
    <3>1. engine' = engine
      BY <1>5, <2>9 DEF ExitStep, PassStart, PassEnd, ExitAnswered, ExitUnanswered, ExitClose,
         ExitCloseFails, PassSkip, PassSell
    <3>2. engineOK
      BY <2>3, <3>1
    <3>3. CASE ExitClose
      <4>1. tp_sl.id \in DOMAIN rows /\ tp_sl.sig \in Nat /\ ClosePosition(tp_sl.id, tp_sl.sig)
        BY <1>0, <3>3 DEF ExitClose, LedgerInv, ExitInFlight, TpSlTask
      <4>2. ~rows'[tp_sl.id].open /\ tp_sl'.id = tp_sl.id
        BY <1>0, <3>3, <4>1, CloseEffect DEF ExitClose, TpSlTask
      <4> QED BY <2>6, <3>2, <4>1, <4>2
    <3>4. CASE ~ExitClose
      <4>1. tp_sl'.pc # "exit_forget"
        <5>1. CASE ExitAnswered \/ PassStart
          <6>1. CASE ExitAnswered
            BY <1>0, <6>1 DEF ExitAnswered, TpSlTask
          <6>2. CASE PassStart
            BY <1>0, <6>2 DEF PassStart, TpSlTask
          <6> QED BY <5>1, <6>1, <6>2
        <5>2. ASSUME NEW r \in DOMAIN rows, PassSkip(r) \/ PassSell(r)
              PROVE  tp_sl'.pc # "exit_forget"
          <6>1. CASE PassSkip(r)
            BY <1>0, <6>1 DEF PassSkip, IsNext, TpSlTask
          <6>2. CASE PassSell(r)
            BY <6>2 DEF PassSell
          <6> QED BY <5>2, <6>1, <6>2
        <5>3. CASE PassEnd \/ ExitUnanswered \/ ExitCloseFails
          <6>1. CASE ExitUnanswered
            BY <6>1 DEF ExitUnanswered, Wait
          <6>2. CASE PassEnd \/ ExitCloseFails
            BY <6>2 DEF PassEnd, ExitCloseFails, Wait
          <6> QED BY <5>3, <6>1, <6>2
        <5> QED BY <1>5, <2>9, <3>4, <5>1, <5>2, <5>3 DEF ExitStep
      <4> QED BY <2>6, <3>2, <4>1
    <3> QED BY <3>3, <3>4
  <2> QED BY <2>5, <2>6, <2>7, <2>8, <2>9 DEF TaskStep
<1> QED BY <1>1, <1>2, <1>3, <1>4, <1>5

\* Every step keeps it.
LEMMA TrackedStep ==
  ASSUME LedgerInv, ProcessInv, ProcessInv', Fed, TasksInv, TrackedInv, [TNext]_tvars
  PROVE  TrackedInv'
<1>1. CASE process' # "up"
  <2>1. engine' = Idle /\ tp_sl' = Wait
    BY <1>1 DEF ProcessInv
  <2> QED BY <1>1, <2>1 DEF TrackedInv, OfThisRun, Idle, Wait, BuyPC
<1>2. CASE EngineSpawned
  <2>1. engine' = Idle /\ tp_sl' = Wait /\ rows' = rows /\ inherited' = Len(rows)
    BY <1>2 DEF EngineSpawned, Start, MemoryLost, durable
  <2>2. \A i \in DOMAIN rows : ~(i > Len(rows))
    BY LenProperties DEF LedgerInv, TypeInv, TypeOK
  <2> QED BY <2>1, <2>2 DEF TrackedInv, OfThisRun, Idle, Wait, BuyPC
<1>3. CASE process' = "up" /\ ~EngineSpawned
  <2>1. CASE TaskStep
    BY <1>3, <2>1, RunGoesOn, TrackedTask
  <2>2. CASE UNCHANGED <<rows, open_positions, engine, tp_sl>>
    BY <1>3, <2>2, RunGoesOn DEF TrackedInv, OfThisRun, Single
  <2> QED BY <1>3, <2>1, <2>2, RunGoesOn
<1> QED BY <1>1, <1>2, <1>3

-----------------------------------------------------------------------------
(* The sells the engine has to mirror.                                     *)

BeingSold(i) == engine.pc \in SellPC /\ engine.id = i
Mirrored(i) ==
  /\ OfThisRun(i) /\ rows[i].open /\ Single(i)
  /\ i \notin gave_up /\ Mirrors(rows[i].key[1])

\* StrandedExplained at every moment: a sell of an open lot that the engine
\* has to mirror is accounted for, or the handler is at it.
SalesSeen ==
  \A i \in DOMAIN rows : Mirrored(i) =>
    \A n \in SoldSince(i) : Accounted(n) \/ BeingSold(i)

\* No lot is held at first.
LEMMA SalesSeenInit == TInit => SalesSeen
BY DEF TInit, Init, SalesSeen, Mirrored, OfThisRun

\* A swap that is a sell of a lot in the map is mirrored.
LEMMA SellIsMirrored ==
  ASSUME Fed, TasksInv, TrackedInv, TakeStep, NEW i \in DOMAIN rows, Mirrored(i),
         targets[Head(queue)] = [key |-> rows[i].key, side |-> "sell"], i # NoRow
  PROVE  BeingSold(i)'
<1> DEFINE k == rows[i].key
<1>1. k \in Keys
  <2>1. targets[Head(queue)] \in Swap
    BY TakenIsSwap DEF TakeStep
  <2> QED BY <2>1 DEF Swap
<1>2. k = <<k[1], k[2]>>
  BY <1>1 DEF Keys
<1>3. targets[Head(queue)].key = k /\ targets[Head(queue)].side = "sell"
  OBVIOUS
<1>4. engine.pc = "idle"
  BY DEF TakeStep, Life!TakeSwap, TasksInv
<1>5. cfg.wallets[k[1]].enabled /\ Mirrors(k[1]) /\ open_positions[k] = i
  BY <1>4 DEF Mirrored, TrackedInv
<1> HIDE DEF k
<1>6. OnTargetSell(k[1], k[2])
  BY <1>3, <1>5 DEF TakeStep, HandlerStarts, NoRow
<1> QED BY <1>2, <1>5, <1>6 DEF OnTargetSell, BeingSold, SellPC

\* A handler at a lot goes on with it, gives it up or closes it.
LEMMA SaleGoesOn ==
  ASSUME LedgerInv, TasksInv, ProcessInv, Fed, [TNext]_tvars, process' = "up", ~EngineSpawned,
         NEW i \in DOMAIN rows, BeingSold(i), ~TakeStep, rows'[i].open, rows[i].open,
         i \notin gave_up', engine.pc # "sell_forget"
  PROVE  BeingSold(i)'
<1>0. /\ engine \in EngineTask /\ engine.pc # "idle" /\ engine.pc \notin BuyPC
      /\ task = "handling"
  BY DEF LedgerInv, TypeInv, TypeOK, BeingSold, SellPC, BuyPC, TasksInv
<1>1. CASE UNCHANGED engine
  BY <1>1 DEF BeingSold
<1>2. CASE CopySellStep
  <2>1. engine.id = i /\ rows[i].key = engine.key
    BY DEF BeingSold, LedgerInv, SaleInFlight
  <2>2. \/ MirrorFindsRow \/ MirrorRowGone \/ MirrorSend
        \/ MirrorAnswered \/ MirrorClose \/ MirrorForget
    BY <1>2, <2>1 DEF CopySellStep
  <2>3. ~MirrorRowGone /\ ~MirrorForget
    BY <2>1 DEF MirrorRowGone, OpenIdsForWallet, OpenIds, MirrorForget
  <2>4. CASE MirrorFindsRow
    BY <1>0, <2>1, <2>4 DEF MirrorFindsRow, BeingSold, SellPC, EngineTask
  <2>5. CASE MirrorSend
    BY <1>0, <2>1, <2>5 DEF MirrorSend, BeingSold, SellPC, EngineTask
  <2>6. CASE MirrorAnswered
    BY <1>0, <2>1, <2>6 DEF MirrorAnswered, BeingSold, SellPC, EngineTask
  <2>7. CASE MirrorClose
    BY <1>0, <2>1, <2>7 DEF MirrorClose, BeingSold, SellPC, EngineTask
  <2> QED BY <1>2, <2>2, <2>3, <2>4, <2>5, <2>6, <2>7
<1>3. ~CopyBuyStep
  BY <1>0 DEF CopyBuyStep, BuyStep, BuyAnswered, BuyUnanswered, BuyPersist, BuyPersistFails,
     BuyTrack, BuyPC
<1>4. CASE TpSlStep
  <2>1. engine' = engine
    BY <1>4 DEF TpSlStep, ExitStep, PassStart, PassEnd, ExitAnswered, ExitUnanswered,
       ExitClose, ExitCloseFails, ExitForget, PassSkip, PassSell
  <2> QED BY <1>1, <2>1
<1>5. CASE MainStep \/ TargetStep \/ StreamStep
  BY <1>1, <1>5, OutsideTasks DEF vars
<1>6. CASE DoneStep \/ CooldownStep \/ UNCHANGED tvars
  BY <1>1, <1>6 DEF DoneStep, CooldownStep, CooldownElapses, tvars, vars
<1>7. ~(Dies \/ Restart \/ StopStep)
  BY EndTasks
<1> QED BY <1>2, <1>3, <1>4, <1>5, <1>6, <1>7 DEF TNext, Handover

\* A row that is written copies the swap taken last; all behind it are
\* accounted for.
LEMMA NewRowSeen ==
  ASSUME LedgerInv, FeedInv, TasksInv, CopiesInv, StreamInv, BuyPersist, CopyBuyStep,
         NEW n \in copied'[Len(rows) + 1] + 1 .. seen
  PROVE  Accounted(n)
<1>0. TypeOK
  BY DEF LedgerInv, TypeInv
<1>1. /\ Len(copied) \in Nat /\ Len(copied) = Len(rows) /\ Len(rows') = Len(rows) + 1
      /\ copied \in Seq(1..Len(targets))
  BY <1>0, AppendsRow, CopyIds DEF CopiesInv
<1>2. engine.pc = "buy_persist" /\ handled # <<>> /\ task = "handling"
  BY DEF BuyPersist, CopiesInv, BeforeRow, TasksInv
<1>3. Taken \in 1..Len(targets)
  <2>1. Len(handled) \in 1..Len(handled)
    BY <1>2, EmptySeq, LenProperties DEF FeedInv, Fed
  <2> QED BY <1>2, <2>1, FedTypes DEF Taken, FeedInv
<1>4. copied' = Append(copied, Taken)
  BY <1>1, <1>2 DEF CopyBuyStep, Taken
<1>5. copied'[Len(rows) + 1] = Taken
  BY <1>1, <1>3, <1>4, AppendKeeps
<1> QED BY <1>2, <1>5 DEF StreamInv

\* A swap that is sold is a swap seen, or the one the stream brings now.
LEMMA SeenBefore ==
  ASSUME FeedInv, TasksInv, TasksInv', [TNext]_tvars, process' = "up"
  PROVE  \A n \in Nat : n <= seen' => n <= seen \/ n \in missed' \/ n \in Waiting'
<1>1. CASE Brought
  <2>1. seen' = seen + 1 /\ seen \in Nat
    BY <1>1, FedTypes DEF Brought, FeedInv
  <2>2. seen + 1 \in missed' \/ seen + 1 \in Waiting'
    BY <1>1, <2>1 DEF Brought, Waiting
  <2>3. \A n \in Nat : n <= seen' => n <= seen \/ n = seen + 1
    BY <2>1
  <2> QED BY <2>2, <2>3
<1>2. CASE seen' = seen
  BY <1>2
<1>3. Brought \/ seen' = seen
  <2>1. ~HandedToNobody /\ ~AllGone
    BY DEF TasksInv, HandedToNobody, AllGone
  <2> QED BY <2>1, FeedCases DEF Unfed, StreamCut, HandedOver, EngineGone
<1> QED BY <1>1, <1>2, <1>3

\* A lot that is still to be mirrored was so before, or is new.
LEMMA MirroredBefore ==
  ASSUME LedgerInv, ProcessInv, Fed, TasksInv, CopiesInv, [TNext]_tvars, ~EngineSpawned,
         NEW i \in DOMAIN rows', Mirrored(i)'
  PROVE  \/ i = Len(rows) + 1 /\ BuyPersist /\ CopyBuyStep
         \/ /\ i \in DOMAIN rows /\ Mirrored(i) /\ rows'[i].key = rows[i].key
            /\ copied'[i] = copied[i]
<1>0. TypeOK
  BY DEF LedgerInv, TypeInv
<1>1. /\ i > inherited /\ rows'[i].open /\ i \notin gave_up' /\ process' = "up"
      /\ \A j \in DOMAIN rows' \ {i} : rows'[j].key # rows'[i].key
      /\ cfg'.wallets[rows'[i].key[1]].exit_strategy \in {"mirror", "mirror_then_tp_sl"}
  <2>1. inherited' = inherited
    BY RunGoesOn DEF Mirrored, OfThisRun
  <2> QED BY <2>1 DEF Mirrored, OfThisRun, Single, Mirrors
<1>2. process = "up" /\ cfg' = cfg /\ (TaskStep \/ UNCHANGED <<rows, engine>>)
  BY <1>1, RunGoesOn
<1>3. gave_up \subseteq gave_up'
  BY DEF TNext, tvars, history, EngineSpawned, TargetStep, CopyBuyStep, CopySellStep, TpSlStep,
     CooldownStep
<1>4. CASE BuyPersist
  <2>1. CopyBuyStep
    BY <1>4, PersistIsCopied
  <2>2. /\ DOMAIN rows' = DOMAIN rows \union {Len(rows) + 1} /\ Len(rows') = Len(rows) + 1
        /\ \A j \in DOMAIN rows : rows'[j] = rows[j]
        /\ Len(rows) + 1 \notin DOMAIN rows
    BY <1>4, AppendsRow
  <2>3. CASE i \in DOMAIN rows
    <3>1. Mirrored(i)
      BY <1>1, <1>2, <1>3, <2>2, <2>3 DEF Mirrored, OfThisRun, Single, Mirrors
    <3>2. copied'[i] = copied[i]
      <4>1. copied' = Append(copied, handled[Len(handled)]) /\ i \in 1..Len(copied)
        BY <1>0, <2>1, <2>2, <2>3, CopyIds DEF CopyBuyStep, CopiesInv
      <4> QED BY <4>1 DEF CopiesInv
    <3> QED BY <2>2, <2>3, <3>1, <3>2
  <2> QED BY <1>4, <2>1, <2>2, <2>3
<1>5. CASE ~BuyPersist
  <2>1. RowsClose
    BY <1>2, <1>5, RowsOnlyClose DEF RowsClose, RowsKept
  <2>2. /\ DOMAIN rows' = DOMAIN rows /\ Len(rows') = Len(rows)
        /\ \A j \in DOMAIN rows : rows'[j].key = rows[j].key
        /\ \A j \in DOMAIN rows : rows'[j].open => rows[j].open
    BY <2>1 DEF RowsClose, RowsKept
  <2>3. copied' = copied
    <3>1. ~(Len(rows') > Len(rows))
      BY <1>0, <2>2, CopyIds DEF CopiesInv
    <3> QED BY <3>1 DEF TNext, tvars, history, TargetStep, CopyBuyStep, CopySellStep, TpSlStep,
       CooldownStep
  <2>4. Mirrored(i)
    BY <1>1, <1>2, <1>3, <2>2 DEF Mirrored, OfThisRun, Single, Mirrors
  <2> QED BY <2>2, <2>3, <2>4
<1> QED BY <1>4, <1>5

\* Every step keeps it.
LEMMA SalesSeenStep ==
  ASSUME LedgerInv, ProcessInv, FeedInv, FeedInv', TasksInv, TasksInv', CopiesInv,
         StreamInv, TrackedInv, SalesSeen, [TNext]_tvars
  PROVE  SalesSeen'
<1>0. TypeOK /\ Fed
  BY DEF LedgerInv, TypeInv, FeedInv
<1>1. CASE EngineSpawned
  <2>1. rows' = rows /\ inherited' = Len(rows) /\ \A i \in DOMAIN rows : ~(i > Len(rows))
    BY <1>0, <1>1, LenProperties DEF EngineSpawned, Start, durable, TypeOK
  <2> QED BY <2>1 DEF SalesSeen, Mirrored, OfThisRun
<1>2. CASE ~EngineSpawned
  <2> SUFFICES ASSUME NEW i \in DOMAIN rows', Mirrored(i)', NEW n \in (SoldSince(i))'
               PROVE  Accounted(n)' \/ BeingSold(i)'
    BY DEF SalesSeen
  <2>1. process' = "up" /\ process = "up" /\ targets' = targets
    BY <1>0, <1>2, RunGoesOn DEF Mirrored, OfThisRun
  <2>2. n \in copied'[i] + 1 .. seen' /\ targets[n] = [key |-> rows'[i].key, side |-> "sell"]
    BY <2>1 DEF SoldSince
  <2>3. CASE i = Len(rows) + 1 /\ BuyPersist /\ CopyBuyStep
    <3>1. UNCHANGED <<seen, missed, queue, swap, geyser>>
      BY <2>3 DEF CopyBuyStep, life_vars
    <3>2. Accounted(n)
      BY <2>2, <2>3, <3>1, NewRowSeen
    <3> QED BY <3>1, <3>2 DEF Accounted, Waiting
  <2>4. CASE /\ i \in DOMAIN rows /\ Mirrored(i) /\ rows'[i].key = rows[i].key
             /\ copied'[i] = copied[i]
    <3>1. copied[i] \in Nat /\ i \in Nat /\ i # NoRow
      BY <1>0, <2>4, CopyIds DEF CopiesInv, NoRow
    <3>2. seen' \in Nat /\ seen \in Nat
      BY FedTypes DEF FeedInv, Fed
    <3>3. n \in Nat /\ copied[i] + 1 <= n /\ n <= seen'
      BY <2>2, <2>4, <3>1, <3>2
    <3>4. n \in missed' \/ n \in Waiting' \/ n \in SoldSince(i)
      <4>1. n <= seen => n \in copied[i] + 1 .. seen
        BY <3>1, <3>2, <3>3
      <4> QED BY <2>1, <2>2, <2>4, <3>3, <4>1, SeenBefore DEF SoldSince
    <3>5. CASE Accounted(n)
      <4>1. CASE TakeStep /\ n = Head(queue)
        BY <1>0, <2>2, <2>4, <3>1, <4>1, SellIsMirrored
      <4> QED BY <2>1, <3>5, <4>1, AccountKept DEF Accounted
    <3>6. CASE BeingSold(i)
      <4>1. ~TakeStep
        BY <3>6 DEF TakeStep, Life!TakeSwap, TasksInv, BeingSold, SellPC
      <4>2. engine.pc # "sell_forget"
        BY <2>4, <3>6 DEF TrackedInv, Mirrored, BeingSold
      <4> QED BY <1>0, <1>2, <2>1, <2>4, <3>6, <4>1, <4>2, SaleGoesOn DEF Mirrored
    <3> QED BY <2>4, <3>4, <3>5, <3>6 DEF SalesSeen, Accounted
  <2> QED BY <1>0, <1>2, <2>3, <2>4, MirroredBefore
<1> QED BY <1>1, <1>2

-----------------------------------------------------------------------------
(* The theorems.                                                           *)

\* Rows are inherited by their number.
LEMMA InheritedStep == TypeOK /\ inherited \in Nat /\ [TNext]_tvars => inherited' \in Nat
BY LenProperties DEF TypeOK, TNext, tvars, history, EngineSpawned, TargetStep, CopyBuyStep,
   CopySellStep, TpSlStep, CooldownStep

TraderInv ==
  /\ inherited \in Nat
  /\ LedgerInv /\ ProcessInv /\ UnrecordedBuysBounded
  /\ FeedInv /\ TasksInv /\ CopiesInv /\ StreamInv /\ TrackedInv /\ SalesSeen

\* It holds before the program is started.
LEMMA TraderInvInit == TInit => TraderInv
<1> SUFFICES ASSUME TInit PROVE TraderInv
  OBVIOUS
<1>1. Init /\ runs = 0 /\ inherited \in Nat
  BY DEF TInit, Init
<1>2. UnrecordedBuysBounded
  BY <1>1 DEF UnrecordedBuysBounded
<1> QED BY <1>1, <1>2, LedgerInit, ProcessInvInit, FeedInit, TasksInit, CopiesInit, StreamInit,
     TrackedInit, SalesSeenInit DEF TraderInv

\* Every step of the program keeps it.
LEMMA TraderInvStep == TraderInv /\ [TNext]_tvars => TraderInv'
<1> SUFFICES ASSUME TraderInv, [TNext]_tvars PROVE TraderInv'
  OBVIOUS
<1>1. /\ LedgerInv /\ ProcessInv /\ UnrecordedBuysBounded /\ FeedInv /\ TasksInv /\ CopiesInv
      /\ StreamInv /\ TrackedInv /\ SalesSeen /\ inherited \in Nat
  BY DEF TraderInv
<1>2. TypeOK /\ Fed
  BY <1>1 DEF LedgerInv, TypeInv, FeedInv
<1>3. [Next]_vars
  BY <1>2, StepMaps
<1>4. LedgerInv' /\ ProcessInv' /\ UnrecordedBuysBounded'
  BY <1>1, <1>2, <1>3, LedgerStep, ProcessInvStep, UnrecordedStep
<1>5. FeedInv' /\ TasksInv'
  BY <1>1, FeedStep, TasksStep
<1>6. CopiesInv'
  BY <1>1, CopiesStep
<1>7. StreamInv'
  BY <1>1, <1>5, StreamInvStep
<1>8. TrackedInv'
  BY <1>1, <1>2, <1>4, TrackedStep
<1>9. SalesSeen'
  BY <1>1, <1>5, SalesSeenStep
<1>10. inherited' \in Nat
  BY <1>1, <1>2, InheritedStep
<1> QED BY <1>4, <1>5, <1>6, <1>7, <1>8, <1>9, <1>10 DEF TraderInv

\* Swaps are copied in the order the targets made them, each at most once, and
\* only buys of the row's wallet and mint, whatever is reconnected, restarted
\* or waits in the channel (engine.rs:57-75, geyser.rs:150-185).
THEOREM SwapsAreCopiedOnce == TSpec => []CopiedOnce
<1>1. TraderInv => CopiedOnce
  <2> SUFFICES ASSUME TypeOK, CopiesInv PROVE CopiedOnce
    BY DEF TraderInv, LedgerInv, TypeInv
  <2>1. DOMAIN copied = 1..Len(rows) /\ DOMAIN rows = 1..Len(rows) /\ Len(copied) = Len(rows)
    BY CopyIds DEF CopiesInv
  <2> QED BY <2>1 DEF CopiesInv, Increasing, Copies, CopiedOnce
<1> QED BY <1>1, TraderInvInit, TraderInvStep, PTL DEF TSpec

\* An open lot its target sold is explained: whatever the stream brings of a
\* sell waits in the channel, is mirrored or is given up (geyser.rs:165,
\* engine.rs:272, engine.rs:371).
THEOREM StrandedLotsExplained == TSpec => []StrandedExplained
<1>1. TraderInv => StrandedExplained
  <2> SUFFICES ASSUME inherited \in Nat, TasksInv, SalesSeen, TypeOK, Settled,
                      NEW i \in OpenIds, i \notin gave_up, Single(i), ~(i <= inherited),
                      Mirrors(rows[i].key[1]),
                      NEW n \in SoldSince(i)
               PROVE  n \in missed
    BY DEF TraderInv, LedgerInv, TypeInv, StrandedExplained, Single
  <2>1. process = "up" /\ engine.pc = "idle" /\ geyser # "stopped"
    BY DEF Settled, TasksInv
  <2>2. Waiting = {}
    BY EmptySeq DEF Settled, Waiting
  <2>3. i \in DOMAIN rows /\ rows[i].open
    BY DEF OpenIds
  <2>4. i > inherited
    BY <2>3, LenProperties DEF TypeOK
  <2>5. Mirrored(i) /\ ~BeingSold(i)
    BY <2>1, <2>3, <2>4 DEF Mirrored, OfThisRun, BeingSold, SellPC
  <2>6. Accounted(n)
    BY <2>3, <2>5 DEF SalesSeen
  <2> QED BY <2>1, <2>2, <2>6 DEF Accounted
<1> QED BY <1>1, TraderInvInit, TraderInvStep, PTL DEF TSpec

\* A process that ends by itself after one run leaves at most one buy without
\* a row for every failed answer or write: main joins the engine task, which
\* only stops between two handlers (main.rs:95-116, engine.rs:57-75).
THEOREM ExitsLoseNoBuy == TSpec => []ExitLosesNoBuy
<1>1. TraderInv => ExitLosesNoBuy
  <2> SUFFICES ASSUME TypeOK, ProcessInv, TasksInv, UnrecordedBuysBounded,
                      main = "exited", runs = 1
               PROVE  Cardinality(Unrecorded) <= faults
    BY DEF TraderInv, LedgerInv, TypeInv, ExitLosesNoBuy
  <2>1. process = "stopped" /\ engine.pc = "idle"
    BY DEF TasksInv
  <2>2. Unfinished = 0
    BY <2>1 DEF Unfinished
  <2>3. Cardinality(Unrecorded) < 1 + faults + 0
    BY <2>2 DEF UnrecordedBuysBounded
  <2>4. Cardinality(Unrecorded) \in Nat /\ faults \in Nat
    BY Countable, BoundsAssumption DEF TypeOK
  <2> QED BY <2>3, <2>4
<1> QED BY <1>1, TraderInvInit, TraderInvStep, PTL DEF TSpec

=============================================================================
