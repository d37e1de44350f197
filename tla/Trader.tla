------------------------------- MODULE Trader -------------------------------
(***************************************************************************)
(* The whole program: the copy engine of CopyEngine inside the process of  *)
(* Lifecycle, fed with what the targets do.  The steps the two share are   *)
(* taken together: spawning the engine task starts a run of the copy       *)
(* engine, taking a swap from the channel starts its handler, the handler  *)
(* is done when the copy engine is idle again, stopping the task is its    *)
(* Shutdown, and a process that dies is its Crash.  A stopped or dead      *)
(* process may be started again; what the targets do meanwhile, and what   *)
(* the stream misses or the decoder does not recognise, is never seen.     *)
(***************************************************************************)
EXTENDS CopyEngine

CONSTANTS
  Reconnect, MaxBackoff, Capacity, MaxSwaps,   \* of Lifecycle
  Scripts       \* what the targets may do: sequences of at most MaxSwaps swaps

VARIABLES
  main, sigint, subscribed, heard, geyser, backoff, swap, seen, queue, handled,
  task,        \* the engine task, as main() sees it: engine of Lifecycle
  ticker,      \* the TP/SL task likewise: tp_sl of Lifecycle
  targets,     \* what the targets do: swap n is targets[n]
  missed,      \* swaps the stream did not bring
  copied,      \* the swap that position row i copies
  gave_up,     \* rows whose mirrored sale was begun and came to nothing
  inherited    \* rows 1..inherited are of earlier runs

Life == INSTANCE Lifecycle WITH engine <- task, tp_sl <- ticker

life_vars == <<main, sigint, subscribed, heard, geyser, backoff, swap, seen,
               queue, task, ticker, handled>>
history   == <<missed, copied, gave_up, inherited>>
tvars     == <<life_vars, targets, history, vars>>

Swap == [key : Keys, side : {"buy", "sell"}]

ASSUME ProcessAssumption ==
  /\ {Reconnect, MaxBackoff, MaxSwaps} \subseteq Nat
  /\ Capacity \in Nat \ {0}
ASSUME ScriptsAssumption ==
  \A t \in Scripts : t \in Seq(Swap) /\ Len(t) <= MaxSwaps

TInit ==
  /\ Life!Init /\ Init
  /\ targets \in Scripts /\ missed = {} /\ copied = <<>> /\ gave_up = {} /\ inherited = 0

-----------------------------------------------------------------------------
(* The process.                                                            *)

\* The map of the new engine is empty, whatever the table holds.
EngineSpawned ==
  /\ Life!SpawnEngine /\ Start
  /\ inherited' = Len(rows)
  /\ UNCHANGED <<missed, copied, gave_up>>

MainStep ==
  /\ Life!SpawnGeyser \/ Life!EnterFront \/ Life!FrontHears \/ Life!Joined
     \/ Life!Sigint \/ Life!ForwardSigint \/ Life!Quit
  /\ UNCHANGED vars

\* The tasks of the process and its channels are gone.
NoTasks ==
  /\ subscribed' = {} /\ heard' = {}
  /\ geyser' = "none" /\ backoff' = Reconnect /\ swap' = 0 /\ queue' = <<>>
  /\ task' = "none" /\ ticker' = "none"
  /\ UNCHANGED <<seen, handled>>

\* The terminal fails and `?` leaves main, or the process is killed: whatever
\* was awaited is lost.
Dies ==
  /\ Life!Running
  /\ main' = "failed" /\ NoTasks
  /\ IF process = "up" THEN Crash ELSE UNCHANGED vars
  /\ UNCHANGED sigint

\* The operator starts the program again.
Restart ==
  /\ main \in {"exited", "failed"} /\ runs < MaxRuns
  /\ main' = "boot" /\ sigint' = "none" /\ NoTasks
  /\ UNCHANGED vars

-----------------------------------------------------------------------------
(* The targets.                                                            *)

\* Nobody streams, or the decoder returns None.
Unseen ==
  /\ seen' = seen + 1 /\ missed' = missed \union {seen + 1}
  /\ UNCHANGED <<main, sigint, subscribed, heard, geyser, backoff, swap, queue,
                 task, ticker, handled>>

TargetStep ==
  /\ seen < Len(targets)
  /\ Unseen \/ (Life!SwapDecoded /\ UNCHANGED missed)
  /\ UNCHANGED <<copied, gave_up, inherited, vars>>

-----------------------------------------------------------------------------
(* The Geyser task feeds the engine task.                                *)

StreamStep ==
  /\ \/ Life!GeyserStops \/ Life!Connected \/ Life!StreamFails
     \/ Life!StreamEnds \/ Life!BackoffOver \/ Life!SendSwap
  /\ UNCHANGED vars

\* A buy may be turned down by a gate; a sell is mirrored if the wallet
\* mirrors and the map has an entry.
HandlerStarts(s) ==
  LET w == s.key[1]
      m == s.key[2] IN
  \/ s.side = "buy" /\ (OnTargetBuy(w, m) \/ UNCHANGED vars)
  \/ s.side = "sell" /\ OnTargetSell(w, m)
  \/ /\ s.side = "sell"
     /\ ~(cfg.wallets[w].enabled /\ Mirrors(w) /\ open_positions[s.key] # 0)
     /\ UNCHANGED vars

TakeStep == Life!TakeSwap /\ HandlerStarts(targets[Head(queue)])

DoneStep == Life!HandlerDone /\ engine.pc = "idle" /\ UNCHANGED vars

\* Mutant: the signal is selected against the running handler.
StopStepMidHandler ==
  /\ Life!Running /\ task \in {"idle", "handling"} /\ "engine" \in heard
  /\ task' = "stopped" /\ ticker' = "aborted" /\ heard' = heard \ {"engine"}
  /\ queue' = <<>>
  /\ process' = "stopped" /\ MemoryLost
  /\ UNCHANGED <<main, sigint, subscribed, geyser, backoff, swap, seen, handled,
                 cfg, runs, faults, rows, copy_log, sent>>

StopStep == Life!EngineStops /\ Shutdown

-----------------------------------------------------------------------------
(* The two tasks of the copy engine go on between those steps.           *)

\* The handler persists a row: it copies the swap it was started for.
CopyBuyStep ==
  /\ Life!Running /\ BuyStep
  /\ copied' = IF Len(rows') > Len(rows) THEN Append(copied, handled[Len(handled)]) ELSE copied
  /\ UNCHANGED <<life_vars, missed, gave_up, inherited>>

\* The sale is not sent, or what follows it fails: nobody tries it again.
CopySellStep ==
  /\ Life!Running
  /\ \/ /\ MirrorReadFails \/ MirrorNotSent
           \/ MirrorUnanswered \/ MirrorCloseFails
        /\ gave_up' = gave_up \union {engine.id}
     \/ /\ MirrorFindsRow \/ MirrorRowGone \/ MirrorSend
           \/ MirrorAnswered \/ MirrorClose \/ MirrorForget
        /\ UNCHANGED gave_up
  /\ UNCHANGED <<life_vars, missed, copied, inherited>>

TpSlStep ==
  /\ Life!Running
  /\ ExitStep \/ \E r \in DOMAIN rows : PassSkip(r) \/ PassSell(r)
  /\ UNCHANGED <<life_vars, history>>

CooldownStep ==
  /\ \E w \in Wallets : CooldownElapses(w)
  /\ UNCHANGED <<life_vars, history>>

-----------------------------------------------------------------------------

Handover == TakeStep \/ DoneStep \/ StopStep

TNext ==
  /\ \/ (MainStep \/ Dies \/ Restart \/ StreamStep \/ Handover) /\ UNCHANGED history
     \/ EngineSpawned \/ TargetStep
     \/ CopyBuyStep \/ CopySellStep \/ TpSlStep \/ CooldownStep
  /\ UNCHANGED targets

TSpec == TInit /\ [][TNext]_tvars

-----------------------------------------------------------------------------
(* Properties.                                                             *)

\* The composition never asks the copy engine for a step it does not take:
\* whatever CopyEngine satisfies, the whole program does.
ImplementsCopyEngine == Spec

\* Swaps are copied in the order the targets made them and each at most once,
\* over reconnects, back pressure and restarts, and what is copied is a buy
\* of the wallet and mint the row names.  The stream is assumed not to repeat a
\* transaction: handle_tx has no memory of what it passed on.
CopiedOnce ==
  /\ DOMAIN copied = DOMAIN rows
  /\ \A i, j \in DOMAIN rows : i < j => copied[i] < copied[j]
  /\ \A i \in DOMAIN rows : targets[copied[i]] = [key |-> rows[i].key, side |-> "buy"]

\* A lot whose target has sold is still open, although the engine has handled
\* all it was sent, only if the stream brought none of those sells
\* (geyser.rs:165), its mirrored sale came to nothing (engine.rs:371), another
\* lot of the wallet and mint had its place in the map (engine.rs:272), it is
\* of an earlier run (engine.rs:37), or the wallet does not mirror.
Settled ==
  Life!Running /\ geyser # "stopped" /\ task = "idle" /\ queue = <<>> /\ swap = 0
SoldSince(i) ==
  {n \in copied[i] + 1 .. seen : targets[n] = [key |-> rows[i].key, side |-> "sell"]}
StrandedExplained ==
  Settled => \A i \in OpenIds :
    \/ SoldSince(i) \subseteq missed
    \/ i \in gave_up
    \/ \E j \in DOMAIN rows \ {i} : rows[j].key = rows[i].key
    \/ i <= inherited
    \/ ~Mirrors(rows[i].key[1])

\* A process that ends by itself leaves no buy on the wire without a row,
\* except one whose answer or write failed: the join waits for the handler.
ExitLosesNoBuy ==
  main = "exited" /\ runs = 1 => Cardinality(Unrecorded) <= faults

=============================================================================
