----------------------------- MODULE Lifecycle -----------------------------
(***************************************************************************)
(* The process of copycat-trader (src/main.rs): the tasks it spawns, the   *)
(* Geyser task that reconnects and feeds swaps (src/geyser.rs), the engine *)
(* task that takes them from a bounded channel, the foreground (dashboard  *)
(* or headless loop), and how SIGINT or a key press ends all of it.        *)
(*                                                                         *)
(* The shutdown signal is a tokio broadcast: only receivers that exist     *)
(* when it is sent get it.  SIGINT is listened to once.  What the engine   *)
(* does with a swap is module CopyEngine, where Shutdown and Crash stand   *)
(* for the two ways a run ends here.                                       *)
(***************************************************************************)
EXTENDS Naturals, Sequences

CONSTANTS
  Reconnect,    \* reconnect_ms
  MaxBackoff,   \* 30_000 ms
  Capacity,     \* 1024: capacity of the channel of decoded swaps
  MaxSwaps      \* bound: swaps of the targets

ASSUME LifecycleAssumption ==
  /\ {Reconnect, MaxBackoff, MaxSwaps} \subseteq Nat
  /\ Capacity \in Nat \ {0}

Receivers == {"geyser", "engine", "front"}

VARIABLES
  main,        \* where main() is
  sigint,      \* "none", "raised", or "sent" once the ctrl_c task broadcast it
  subscribed,  \* broadcast receivers that exist
  heard,       \* those with an unread shutdown message
  geyser, backoff,
  swap,        \* the decoded swap out.send is waiting to hand over, or 0
  seen,        \* swaps the stream has brought so far
  queue,       \* channel of decoded swaps
  engine, tp_sl,
  handled      \* swaps the engine took, in order

feed  == <<geyser, backoff, swap, seen>>
work  == <<engine, tp_sl, handled>>
vars  == <<main, sigint, subscribed, heard, geyser, backoff, swap, seen,
           queue, engine, tp_sl, handled>>

Init ==
  /\ main = "boot" /\ sigint = "none" /\ subscribed = {} /\ heard = {}
  /\ geyser = "none" /\ backoff = Reconnect /\ swap = 0 /\ seen = 0
  /\ queue = <<>> /\ engine = "none" /\ tp_sl = "none" /\ handled = <<>>

Broadcast == heard' = heard \union subscribed

-----------------------------------------------------------------------------
(* SIGINT: the ctrl_c task is spawned before any receiver exists, forwards *)
(* one signal and ends; later signals find tokio's handler and no task.    *)

Sigint ==
  /\ sigint = "none" /\ main \notin {"exited", "failed"}
  /\ sigint' = "raised"
  /\ UNCHANGED <<main, subscribed, heard, feed, queue, work>>

ForwardSigint ==
  /\ sigint = "raised" /\ main \notin {"exited", "failed"}
  /\ sigint' = "sent" /\ Broadcast
  /\ UNCHANGED <<main, subscribed, feed, queue, work>>

-----------------------------------------------------------------------------
(* main().                                                                 *)

SpawnGeyser ==
  /\ main = "boot"
  /\ main' = "geyser_spawned" /\ subscribed' = subscribed \union {"geyser"}
  /\ geyser' = "connecting"
  /\ UNCHANGED <<sigint, heard, backoff, swap, seen, queue, work>>

SpawnEngine ==
  /\ main = "geyser_spawned"
  /\ main' = "spawned" /\ subscribed' = subscribed \union {"engine"}
  /\ engine' = "idle" /\ tp_sl' = "running"
  /\ UNCHANGED <<sigint, heard, feed, queue, handled>>

\* cfg.tui.enabled and --headless choose the foreground.  The dashboard does
\* not subscribe, the headless loop does.
EnterFront ==
  /\ main = "spawned"
  /\ \/ main' = "dashboard" /\ UNCHANGED subscribed
     \/ main' = "headless" /\ subscribed' = subscribed \union {"front"}
  /\ UNCHANGED <<sigint, heard, feed, queue, work>>

\* The user presses q, or Esc: the dashboard returns and main broadcasts.
Quit ==
  /\ main = "dashboard"
  /\ main' = "joining" /\ Broadcast
  /\ UNCHANGED <<sigint, subscribed, feed, queue, work>>

\* The terminal fails: `?` leaves main without a broadcast or a join, and the
\* runtime drops the tasks at whatever await they are.
TuiFails ==
  /\ main = "dashboard"
  /\ main' = "failed"
  /\ UNCHANGED <<sigint, subscribed, heard, feed, queue, work>>

FrontHears ==
  /\ main = "headless" /\ "front" \in heard
  /\ main' = "joining" /\ heard' = heard \ {"front"}
  /\ UNCHANGED <<sigint, subscribed, feed, queue, work>>

\* Mutant: only the Geyser task is awaited.
JoinedGeyser ==
  /\ main = "joining" /\ geyser = "stopped"
  /\ main' = "exited"
  /\ UNCHANGED <<sigint, subscribed, heard, feed, queue, work>>

Joined ==
  /\ main = "joining" /\ geyser = "stopped" /\ engine = "stopped"
  /\ main' = "exited"
  /\ UNCHANGED <<sigint, subscribed, heard, feed, queue, work>>

Running == main \notin {"boot", "exited", "failed"}

-----------------------------------------------------------------------------
(* The Geyser task.                                                        *)

\* Mutant: the signal is only selected against the stream.
GeyserStopsStreaming ==
  /\ Running /\ geyser = "streaming" /\ "geyser" \in heard
  /\ geyser' = "stopped" /\ heard' = heard \ {"geyser"} /\ swap' = 0
  /\ UNCHANGED <<main, sigint, subscribed, backoff, seen, queue, work>>

\* In `connecting` and `streaming`, also while out.send waits, the outer
\* select sees the signal; in the sleep after an error it does not.
GeyserStops ==
  /\ Running /\ geyser \in {"connecting", "streaming"} /\ "geyser" \in heard
  /\ geyser' = "stopped" /\ heard' = heard \ {"geyser"} /\ swap' = 0
  /\ UNCHANGED <<main, sigint, subscribed, backoff, seen, queue, work>>

Connected ==
  /\ Running /\ geyser = "connecting"
  /\ geyser' = "streaming"
  /\ UNCHANGED <<main, sigint, subscribed, heard, backoff, swap, seen, queue, work>>

\* The connection, the ping loop or the stream reports an error.
StreamFails ==
  /\ Running /\ geyser \in {"connecting", "streaming"} /\ swap = 0
  /\ geyser' = "sleeping"
  /\ UNCHANGED <<main, sigint, subscribed, heard, backoff, swap, seen, queue, work>>

\* The server ends the stream: reconnect at once.
StreamEnds ==
  /\ Running /\ geyser = "streaming" /\ swap = 0
  /\ geyser' = "connecting" /\ backoff' = Reconnect
  /\ UNCHANGED <<main, sigint, subscribed, heard, swap, seen, queue, work>>

\* Mutant: the backoff is not capped.
BackoffUncapped ==
  /\ Running /\ geyser = "sleeping"
  /\ geyser' = "connecting" /\ backoff' = 2 * backoff
  /\ UNCHANGED <<main, sigint, subscribed, heard, swap, seen, queue, work>>

\* The sleep of backoff_ms is over; the next one is twice as long.
BackoffOver ==
  /\ Running /\ geyser = "sleeping"
  /\ geyser' = "connecting"
  /\ backoff' = IF 2 * backoff < MaxBackoff THEN 2 * backoff ELSE MaxBackoff
  /\ UNCHANGED <<main, sigint, subscribed, heard, swap, seen, queue, work>>

\* A target swaps while the stream is up and decode_transaction returns it.
\* Swaps made while it is down are never seen (from_slot is None).
SwapDecoded ==
  /\ Running /\ geyser = "streaming" /\ swap = 0 /\ seen < MaxSwaps
  /\ seen' = seen + 1 /\ swap' = seen + 1
  /\ UNCHANGED <<main, sigint, subscribed, heard, geyser, backoff, queue, work>>

SwapMissed ==
  /\ Running /\ geyser \notin {"none", "streaming", "stopped"} /\ seen < MaxSwaps
  /\ seen' = seen + 1
  /\ UNCHANGED <<main, sigint, subscribed, heard, geyser, backoff, swap, queue, work>>

\* Mutant: try_send: a full channel loses the swap.
SendSwapOrDrop ==
  /\ Running /\ swap # 0
  /\ IF engine # "stopped" /\ Len(queue) < Capacity
     THEN queue' = Append(queue, swap) ELSE UNCHANGED queue
  /\ swap' = 0
  /\ UNCHANGED <<main, sigint, subscribed, heard, geyser, backoff, seen, work>>

\* Mutant: a swap that was handed over is sent again.
SendSwapAgain ==
  /\ Running /\ swap # 0
  /\ \/ engine = "stopped" /\ UNCHANGED queue
     \/ engine # "stopped" /\ Len(queue) < Capacity /\ queue' = Append(queue, swap)
  /\ swap' \in {0, swap}
  /\ UNCHANGED <<main, sigint, subscribed, heard, geyser, backoff, seen, work>>

\* out.send waits for room, and fails once the engine dropped the receiver.
SendSwap ==
  /\ Running /\ swap # 0
  /\ \/ engine = "stopped" /\ UNCHANGED queue
     \/ engine # "stopped" /\ Len(queue) < Capacity /\ queue' = Append(queue, swap)
  /\ swap' = 0
  /\ UNCHANGED <<main, sigint, subscribed, heard, geyser, backoff, seen, work>>

-----------------------------------------------------------------------------
(* The engine task.  Its select picks at random among what is ready: the   *)
(* signal and queued swaps.                                                *)

\* Mutant: the newest swap goes first.
TakeNewest ==
  /\ Running /\ engine = "idle" /\ queue # <<>>
  /\ engine' = "handling" /\ handled' = Append(handled, queue[Len(queue)])
  /\ queue' = SubSeq(queue, 1, Len(queue) - 1)
  /\ UNCHANGED <<main, sigint, subscribed, heard, feed, tp_sl>>

TakeSwap ==
  /\ Running /\ engine = "idle" /\ queue # <<>>
  /\ engine' = "handling" /\ handled' = Append(handled, Head(queue))
  /\ queue' = Tail(queue)
  /\ UNCHANGED <<main, sigint, subscribed, heard, feed, tp_sl>>

HandlerDone ==
  /\ Running /\ engine = "handling"
  /\ engine' = "idle"
  /\ UNCHANGED <<main, sigint, subscribed, heard, feed, queue, tp_sl, handled>>

\* Mutant: the handle of the TP/SL task is dropped, not aborted.
EngineLeavesTpSl ==
  /\ Running /\ engine = "idle"
  /\ "engine" \in heard \/ (geyser = "stopped" /\ queue = <<>>)
  /\ engine' = "stopped" /\ heard' = heard \ {"engine"} /\ queue' = <<>>
  /\ UNCHANGED <<main, sigint, subscribed, feed, tp_sl, handled>>

\* Mutant: an empty channel ends the task, whoever may still send.
EngineStopsWhenEmpty ==
  /\ Running /\ engine = "idle"
  /\ "engine" \in heard \/ queue = <<>>
  /\ engine' = "stopped" /\ tp_sl' = "aborted" /\ heard' = heard \ {"engine"}
  /\ queue' = <<>>
  /\ UNCHANGED <<main, sigint, subscribed, feed, handled>>

\* The signal, or an empty channel whose sender is gone.
EngineStops ==
  /\ Running /\ engine = "idle"
  /\ "engine" \in heard \/ (geyser = "stopped" /\ queue = <<>>)
  /\ engine' = "stopped" /\ tp_sl' = "aborted" /\ heard' = heard \ {"engine"}
  /\ queue' = <<>>
  /\ UNCHANGED <<main, sigint, subscribed, feed, handled>>

-----------------------------------------------------------------------------

MainNext == SpawnGeyser \/ SpawnEngine \/ EnterFront \/ FrontHears \/ Joined
GeyserNext == GeyserStops \/ Connected \/ StreamFails \/ StreamEnds \/ BackoffOver \/ SendSwap
EngineNext == TakeSwap \/ HandlerDone \/ EngineStops

Next ==
  \/ Sigint \/ ForwardSigint \/ Quit \/ TuiFails
  \/ MainNext \/ GeyserNext \/ SwapDecoded \/ SwapMissed \/ EngineNext

Spec == Init /\ [][Next]_vars

\* Every task that can go on does.  The select of the Geyser task picks among
\* what is ready with equal chance, so a signal that is ready again and again
\* is taken.  Nobody has to press a key or raise a signal.
Fairness ==
  /\ WF_vars(ForwardSigint) /\ WF_vars(MainNext) /\ WF_vars(EngineNext)
  /\ WF_vars(BackoffOver) /\ WF_vars(SendSwap) /\ SF_vars(GeyserStops)

FairSpec == Spec /\ Fairness

-----------------------------------------------------------------------------
(* Properties.                                                             *)

TypeOK ==
  /\ main \in {"boot", "geyser_spawned", "spawned", "dashboard", "headless",
            "joining", "exited", "failed"}
  /\ sigint \in {"none", "raised", "sent"}
  /\ subscribed \subseteq Receivers /\ heard \subseteq subscribed
  /\ geyser \in {"none", "connecting", "streaming", "sleeping", "stopped"}
  /\ backoff \in {Reconnect} \union 0..MaxBackoff /\ seen \in 0..MaxSwaps /\ swap \in 0..seen
  /\ queue \in Seq(1..MaxSwaps) /\ handled \in Seq(1..MaxSwaps)
  /\ engine \in {"none", "idle", "handling", "stopped"}
  /\ tp_sl \in {"none", "running", "aborted"}

\* Swaps are handled in the order the stream brought them and at most once,
\* across reconnects, back pressure and shutdown.
Pending == handled \o queue \o (IF swap = 0 THEN <<>> ELSE <<swap>>)
HandledInOrder ==
  \A i, j \in DOMAIN Pending : i < j => Pending[i] < Pending[j]

\* When the process has exited by itself no handler was cut short, and no
\* task is left to trade.
ExitedMeansStopped ==
  main = "exited" => geyser = "stopped" /\ engine = "stopped" /\ tp_sl = "aborted"

\* A worker stops only when it was told to: every stop follows a broadcast.
StopsFollowBroadcast ==
  geyser = "stopped" \/ engine = "stopped" =>
    sigint = "sent" \/ main \in {"joining", "exited", "failed"}

\* Once the foreground is left, by a key press or by a SIGINT a headless
\* process heard, the process ends, whatever the stream and the queue do and
\* wherever in its backoff the Geyser task is (main.rs:113).
QuitExits == main = "joining" ~> main = "exited"

=============================================================================
