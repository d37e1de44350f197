-------------------------- MODULE LifecycleProofs --------------------------
(***************************************************************************)
(* Theorems about Lifecycle, for every channel capacity, every backoff and *)
(* any number of swaps: the process ends only with its tasks stopped, a    *)
(* task stops only after a broadcast, and swaps stay in order.             *)
(***************************************************************************)
EXTENDS Lifecycle, TLAPS

\* Somebody has sent the shutdown signal.
Told == sigint = "sent" \/ main \in {"joining", "exited", "failed"}

\* What StopsFollowBroadcast and ExitedMeansStopped need of the other states: a
\* message can only be unread once it was sent, and the engine task takes the
\* TP/SL task with it.
Signals ==
  /\ heard # {} => Told
  /\ engine = "stopped" => tp_sl = "aborted"

Increasing(s) == \A i, j \in 1..Len(s) : i < j => s[i] < s[j]
Below(s, n)   == \A i \in 1..Len(s) : s[i] < n

\* HandledInOrder part by part, without the concatenation: what was handled,
\* what waits in the channel, what the stream holds, and all of it seen.
Ordered ==
  /\ Increasing(handled) /\ Increasing(queue)
  /\ \A j \in 1..Len(queue) : Below(handled, queue[j])
  /\ swap # 0 => Below(handled, swap) /\ Below(queue, swap)
  /\ Below(handled, seen + 1) /\ Below(queue, seen + 1)

LInv == TypeOK /\ StopsFollowBroadcast /\ ExitedMeansStopped /\ Signals /\ Ordered

-----------------------------------------------------------------------------
(* Lemmas: type correctness.                                               *)

\* The swaps on their way are numbers.
LEMMA SwapsAreNumbers ==
  ASSUME TypeOK
  PROVE  /\ handled \in Seq(Nat) /\ queue \in Seq(Nat) /\ swap \in Nat /\ seen \in Nat
         /\ Len(handled) \in Nat /\ Len(queue) \in Nat
         /\ \A i \in 1..Len(handled) : handled[i] \in Nat
         /\ \A i \in 1..Len(queue) : queue[i] \in Nat
<1>1. MaxSwaps \in Nat /\ seen \in Nat /\ swap \in Nat
  BY LifecycleAssumption DEF TypeOK
<1>2. handled \in Seq(1..MaxSwaps) /\ queue \in Seq(1..MaxSwaps)
  BY DEF TypeOK
<1>3. handled \in Seq(Nat) /\ queue \in Seq(Nat)
  BY <1>1, <1>2
<1> QED
  BY <1>1, <1>3

\* Every step keeps the types; a swap in the channel was brought by the stream.
LEMMA TypeStep == TypeOK /\ [Next]_vars => TypeOK'
<1> SUFFICES ASSUME TypeOK, [Next]_vars PROVE TypeOK'
  OBVIOUS
<1> USE LifecycleAssumption DEF TypeOK
<1>0. <<>> \in Seq(1..MaxSwaps)
  OBVIOUS
<1>1. CASE UNCHANGED vars
  BY <1>1 DEF vars
<1>2. CASE Sigint \/ ForwardSigint \/ Quit \/ TuiFails
  BY <1>2 DEF Sigint, ForwardSigint, Quit, TuiFails, Broadcast, feed, work
<1>3. CASE MainNext
  BY <1>3 DEF MainNext, SpawnGeyser, SpawnEngine, EnterFront, FrontHears, Joined,
              Receivers, feed, work
<1>4. CASE GeyserStops \/ Connected \/ StreamFails
  BY <1>4 DEF GeyserStops, Connected, StreamFails, work
<1>5. CASE StreamEnds \/ BackoffOver
  BY <1>5 DEF StreamEnds, BackoffOver, work
<1>6. CASE SendSwap
  <2>1. swap \in 1..MaxSwaps
    BY <1>6 DEF SendSwap
  <2>2. Append(queue, swap) \in Seq(1..MaxSwaps)
    BY <2>1
  <2>3. queue' \in Seq(1..MaxSwaps)
    BY <1>6, <2>2 DEF SendSwap
  <2> QED
    BY <1>6, <2>3 DEF SendSwap, work
<1>7. CASE SwapDecoded \/ SwapMissed
  BY <1>7 DEF SwapDecoded, SwapMissed, work
<1>8. CASE TakeSwap
  <2>1. /\ Head(queue) \in 1..MaxSwaps /\ Tail(queue) \in Seq(1..MaxSwaps)
        /\ Append(handled, Head(queue)) \in Seq(1..MaxSwaps)
    BY <1>8 DEF TakeSwap
  <2> QED
    BY <1>8, <2>1 DEF TakeSwap, feed
<1>9. CASE HandlerDone \/ EngineStops
  BY <1>0, <1>9 DEF HandlerDone, EngineStops, feed
<1> QED
  BY <1>1, <1>2, <1>3, <1>4, <1>5, <1>6, <1>7, <1>8, <1>9
     DEF Next, GeyserNext, EngineNext

-----------------------------------------------------------------------------
(* Lemmas: signals.                                                        *)

\* A worker that stops has a message or a predecessor that had one.
LEMMA SignalStep ==
  ASSUME TypeOK, StopsFollowBroadcast, ExitedMeansStopped, Signals, [Next]_vars
  PROVE  StopsFollowBroadcast' /\ ExitedMeansStopped' /\ Signals'
<1> USE DEF TypeOK, StopsFollowBroadcast, ExitedMeansStopped, Signals, Told
<1>1. CASE UNCHANGED vars
  BY <1>1 DEF vars
<1>2. CASE Sigint \/ ForwardSigint \/ Quit \/ TuiFails
  BY <1>2 DEF Sigint, ForwardSigint, Quit, TuiFails, Broadcast, feed, work
<1>3. CASE MainNext
  BY <1>3 DEF MainNext, SpawnGeyser, SpawnEngine, EnterFront, FrontHears, Joined,
              Receivers, feed, work
<1>4. CASE GeyserNext
  BY <1>4 DEF GeyserNext, GeyserStops, Connected, StreamFails, StreamEnds, BackoffOver,
              SendSwap, Running, work
<1>5. CASE SwapDecoded \/ SwapMissed
  BY <1>5 DEF SwapDecoded, SwapMissed, work
<1>6. CASE EngineNext
  BY <1>6 DEF EngineNext, TakeSwap, HandlerDone, EngineStops, Running, feed
<1> QED
  BY <1>1, <1>2, <1>3, <1>4, <1>5, <1>6 DEF Next

-----------------------------------------------------------------------------
(* Lemmas: order.                                                          *)

\* A larger number at the end keeps the order.
LEMMA AppendOrder ==
  ASSUME NEW s \in Seq(Nat), NEW n \in Nat, Below(s, n)
  PROVE  /\ Increasing(s) => Increasing(Append(s, n))
         /\ \A m \in Nat : n < m => Below(Append(s, n), m)
<1>1. /\ Len(s) \in Nat /\ Len(Append(s, n)) = Len(s) + 1
      /\ Append(s, n)[Len(s) + 1] = n
      /\ \A i \in 1..Len(s) : Append(s, n)[i] = s[i] /\ s[i] \in Nat
  OBVIOUS
<1> DEFINE t == Append(s, n)
<1> HIDE DEF t
<1>2. /\ Len(t) = Len(s) + 1 /\ t[Len(s) + 1] = n
      /\ \A i \in 1..Len(s) : t[i] = s[i] /\ s[i] \in Nat /\ s[i] < n
  BY <1>1 DEF t, Below
<1>3. ASSUME Increasing(s), NEW i \in 1..Len(t), NEW j \in 1..Len(t), i < j
      PROVE  t[i] < t[j]
  <2>1. i \in 1..Len(s)
    BY <1>1, <1>2, <1>3
  <2>2. CASE j = Len(s) + 1
    BY <1>2, <2>1, <2>2
  <2>3. CASE j \in 1..Len(s)
    BY <1>2, <1>3, <2>1, <2>3 DEF Increasing
  <2> QED
    BY <1>1, <1>2, <2>2, <2>3
<1>4. ASSUME NEW m \in Nat, n < m, NEW i \in 1..Len(t)
      PROVE  t[i] < m
  <2>1. i \in 1..Len(s) \/ i = Len(s) + 1
    BY <1>1, <1>2
  <2> QED
    BY <1>2, <1>4, <2>1
<1> QED
  BY <1>3, <1>4 DEF t, Increasing, Below

\* Taking the first element leaves the rest in order, above it.
LEMMA TailOrder ==
  ASSUME NEW s \in Seq(Nat), s # <<>>
  PROVE  /\ Tail(s) \in Seq(Nat) /\ Head(s) = s[1] /\ 1 \in 1..Len(s) /\ s[1] \in Nat
         /\ Len(Tail(s)) = Len(s) - 1
         /\ \A j \in 1..Len(Tail(s)) : j + 1 \in 1..Len(s) /\ Tail(s)[j] = s[j + 1]
         /\ Increasing(s) => Increasing(Tail(s))
         /\ \A n \in Nat : Below(s, n) => Below(Tail(s), n)
<1>1. /\ Tail(s) \in Seq(Nat) /\ Head(s) = s[1] /\ 1 \in 1..Len(s) /\ s[1] \in Nat
      /\ Len(s) \in Nat /\ Len(Tail(s)) = Len(s) - 1
      /\ \A j \in 1..Len(Tail(s)) : j + 1 \in 1..Len(s) /\ Tail(s)[j] = s[j + 1]
  OBVIOUS
<1> DEFINE t == Tail(s)
<1> HIDE DEF t
<1>2. /\ Len(s) \in Nat /\ Len(t) = Len(s) - 1
      /\ \A j \in 1..Len(t) : j + 1 \in 1..Len(s) /\ t[j] = s[j + 1]
  BY <1>1 DEF t
<1>3. ASSUME Increasing(s), NEW i \in 1..Len(t), NEW j \in 1..Len(t), i < j
      PROVE  t[i] < t[j]
  <2>1. i + 1 \in 1..Len(s) /\ j + 1 \in 1..Len(s) /\ i + 1 < j + 1
    BY <1>2, <1>3
  <2>2. s[i + 1] < s[j + 1]
    BY <1>3, <2>1 DEF Increasing
  <2> QED
    BY <1>2, <2>2
<1>4. \A n \in Nat : Below(s, n) => Below(t, n)
  BY <1>2 DEF Below
<1> QED
  BY <1>1, <1>3, <1>4 DEF t, Increasing

\* A swap enters at the end of the channel and leaves at its head.
LEMMA OrderStep ==
  ASSUME TypeOK, Ordered, [Next]_vars
  PROVE  Ordered'
<1>1. CASE UNCHANGED <<swap, seen, queue, handled>>
  BY <1>1 DEF Ordered, Increasing, Below
<1>2. CASE GeyserStops
  BY <1>2 DEF GeyserStops, Ordered, Increasing, Below, work
<1>3. CASE SendSwap
  <2>1. swap # 0 /\ swap' = 0 /\ seen' = seen /\ handled' = handled
    BY <1>3 DEF SendSwap, work
  <2>2. CASE queue' = queue
    BY <2>1, <2>2 DEF Ordered, Increasing, Below
  <2>3. CASE queue' = Append(queue, swap)
    <3>1. swap \in Nat /\ seen + 1 \in Nat /\ swap < seen + 1
      BY SwapsAreNumbers DEF TypeOK
    <3>2. Below(handled, swap) /\ Below(queue, swap) /\ Increasing(queue)
      BY <2>1 DEF Ordered
    <3>3. Increasing(Append(queue, swap)) /\ Below(Append(queue, swap), seen + 1)
      BY <3>1, <3>2, AppendOrder, SwapsAreNumbers
    <3>4. \A j \in 1..Len(queue') : queue'[j] = swap \/ \E i \in 1..Len(queue) : queue'[j] = queue[i]
      <4>1. Len(queue) \in Nat /\ queue \in Seq(Nat)
        BY SwapsAreNumbers
      <4> QED
        BY <2>3, <4>1
    <3>5. \A j \in 1..Len(queue') : Below(handled, queue'[j])
      BY <3>2, <3>4 DEF Ordered
    <3>6. Increasing(queue') /\ Below(queue', seen' + 1)
      BY <2>1, <2>3, <3>3
    <3> QED
      BY <2>1, <3>5, <3>6 DEF Ordered, Increasing, Below
  <2> QED
    BY <1>3, <2>2, <2>3 DEF SendSwap
<1>4. CASE SwapDecoded \/ SwapMissed
  <2>1. /\ seen' = seen + 1 /\ handled' = handled /\ queue' = queue
        /\ swap' = seen + 1 \/ swap' = swap
    BY <1>4 DEF SwapDecoded, SwapMissed, work
  <2>2. Below(handled, seen + 2) /\ Below(queue, seen + 2)
    BY SwapsAreNumbers DEF Ordered, Below
  <2>3. /\ Below(handled', seen' + 1) /\ Below(queue', seen' + 1)
        /\ swap' # 0 => Below(handled', swap') /\ Below(queue', swap')
    BY <2>1, <2>2, SwapsAreNumbers DEF Ordered
  <2> QED
    BY <2>1, <2>3 DEF Ordered, Increasing, Below
<1>5. CASE TakeSwap
  <2>1. /\ queue # <<>> /\ queue' = Tail(queue) /\ handled' = Append(handled, Head(queue))
        /\ seen' = seen /\ swap' = swap
    BY <1>5 DEF TakeSwap, feed
  <2>2. /\ handled \in Seq(Nat) /\ queue \in Seq(Nat) /\ swap \in Nat /\ seen + 1 \in Nat
    BY SwapsAreNumbers
  <2>3. /\ Head(queue) = queue[1] /\ 1 \in 1..Len(queue) /\ queue[1] \in Nat
        /\ \A j \in 1..Len(queue') : j + 1 \in 1..Len(queue) /\ queue'[j] = queue[j + 1]
        /\ Increasing(queue) => Increasing(queue')
        /\ \A n \in Nat : Below(queue, n) => Below(queue', n)
    BY <2>1, <2>2, TailOrder
  <2>4. Below(handled, queue[1])
    BY <2>3 DEF Ordered
  <2>5. /\ Increasing(handled) => Increasing(handled')
        /\ \A n \in Nat : queue[1] < n => Below(handled', n)
    BY <2>1, <2>2, <2>3, <2>4, AppendOrder
  <2>6. Increasing(handled') /\ Increasing(queue')
    BY <2>3, <2>5 DEF Ordered
  <2>7. \A n \in Nat : Below(queue, n) => Below(handled', n) /\ Below(queue', n)
    BY <2>3, <2>5 DEF Below
  <2>8. ASSUME NEW j \in 1..Len(queue') PROVE Below(handled', queue'[j])
    <3>1. Len(queue) \in Nat /\ \A i \in 1..Len(queue) : queue[i] \in Nat
      BY SwapsAreNumbers
    <3>2. j + 1 \in 1..Len(queue) /\ queue'[j] = queue[j + 1] /\ 1 < j + 1
      BY <2>3
    <3>3. queue[1] < queue[j + 1] /\ queue[j + 1] \in Nat
      BY <2>3, <3>1, <3>2 DEF Ordered, Increasing
    <3> QED
      BY <2>5, <3>2, <3>3
  <2>9. swap' # 0 => Below(handled', swap') /\ Below(queue', swap')
    BY <2>1, <2>2, <2>7 DEF Ordered
  <2>10. Below(handled', seen' + 1) /\ Below(queue', seen' + 1)
    BY <2>1, <2>2, <2>7 DEF Ordered
  <2> QED
    BY <2>6, <2>8, <2>9, <2>10 DEF Ordered, Increasing, Below
<1>6. CASE EngineStops
  <2>1. queue' = <<>> /\ seen' = seen /\ swap' = swap /\ handled' = handled
    BY <1>6 DEF EngineStops, feed
  <2> QED
    BY <2>1 DEF Ordered, Increasing, Below
<1>7. CASE Sigint \/ ForwardSigint \/ Quit \/ TuiFails \/ MainNext
  BY <1>1, <1>7 DEF Sigint, ForwardSigint, Quit, TuiFails, MainNext, SpawnGeyser,
                    SpawnEngine, EnterFront, FrontHears, Joined, feed, work
<1>8. CASE Connected \/ StreamFails \/ StreamEnds \/ BackoffOver \/ HandlerDone
  BY <1>1, <1>8 DEF Connected, StreamFails, StreamEnds, BackoffOver, HandlerDone, feed, work
<1> QED
  BY <1>1, <1>2, <1>3, <1>4, <1>5, <1>6, <1>7, <1>8
     DEF Next, GeyserNext, EngineNext, vars

\* The parts in order make the whole in order.
LEMMA OrderedPending == TypeOK /\ Ordered => HandledInOrder
<1> SUFFICES ASSUME TypeOK, Ordered, NEW i \in DOMAIN Pending, NEW j \in DOMAIN Pending, i < j
             PROVE  Pending[i] < Pending[j]
  BY DEF HandledInOrder
<1> DEFINE held == IF swap = 0 THEN <<>> ELSE <<swap>>
           h == Len(handled)
           q == Len(queue)
<1>1. /\ handled \in Seq(Nat) /\ queue \in Seq(Nat) /\ held \in Seq(Nat)
      /\ h \in Nat /\ q \in Nat /\ Len(held) = IF swap = 0 THEN 0 ELSE 1
  BY SwapsAreNumbers
<1>2. /\ Pending \in Seq(Nat) /\ Len(Pending) = h + q + Len(held)
  BY <1>1 DEF Pending
<1>3. \A n \in 1..Len(Pending) :
        Pending[n] = IF n <= h THEN handled[n]
                     ELSE IF n <= h + q THEN queue[n - h] ELSE held[n - h - q]
  BY <1>1 DEF Pending
<1>4. i \in 1..Len(Pending) /\ j \in 1..Len(Pending)
  BY <1>2
<1>5. CASE j <= h
  BY <1>1, <1>3, <1>4, <1>5 DEF Ordered, Increasing, Below
<1>6. CASE h < j /\ j <= h + q
  <2>1. Pending[j] = queue[j - h] /\ j - h \in 1..q
    BY <1>1, <1>3, <1>4, <1>6
  <2>2. CASE i <= h
    BY <1>1, <1>3, <1>4, <2>1, <2>2 DEF Ordered, Increasing, Below
  <2>3. CASE h < i
    <3>1. Pending[i] = queue[i - h] /\ i - h \in 1..q /\ i - h < j - h
      BY <1>1, <1>3, <1>4, <1>6, <2>3
    <3> QED
      BY <2>1, <3>1 DEF Ordered, Increasing, Below
  <2> QED
    BY <1>1, <1>4, <2>2, <2>3
<1>7. CASE h + q < j
  <2>1. swap # 0 /\ j = h + q + 1
    <3>1. h \in Nat /\ q \in Nat /\ j \in 1..Len(Pending)
      BY <1>1, <1>4
    <3>2. Len(Pending) = IF swap = 0 THEN h + q ELSE h + q + 1
      <4>1. /\ Len(Pending) = h + q + Len(held)
            /\ Len(held) = IF swap = 0 THEN 0 ELSE 1
        BY <1>1, <1>2
      <4> HIDE DEF h, q, held
      <4> QED
        BY <3>1, <4>1
    <3> HIDE DEF h, q, held
    <3> QED
      BY <1>7, <3>1, <3>2
  <2>2. Pending[j] = swap
    BY <1>1, <1>3, <1>4, <2>1
  <2>3. CASE i <= h
    BY <1>1, <1>3, <1>4, <2>1, <2>2, <2>3 DEF Ordered, Increasing, Below
  <2>4. CASE h < i
    <3>1. Pending[i] = queue[i - h] /\ i - h \in 1..q
      BY <1>1, <1>3, <1>4, <2>1, <2>4
    <3> QED
      BY <2>1, <2>2, <3>1 DEF Ordered, Increasing, Below
  <2> QED
    BY <1>1, <1>4, <2>3, <2>4
<1> QED
  BY <1>1, <1>4, <1>5, <1>6, <1>7

-----------------------------------------------------------------------------
(* The theorems.                                                           *)

\* The invariant holds in every reachable state.
LEMMA LInvHolds == Spec => []LInv
<1>1. Init => LInv
  BY LifecycleAssumption
     DEF Init, LInv, TypeOK, StopsFollowBroadcast, ExitedMeansStopped, Signals, Ordered,
         Increasing, Below
<1>2. LInv /\ [Next]_vars => LInv'
  BY TypeStep, SignalStep, OrderStep DEF LInv
<1> QED
  BY <1>1, <1>2, PTL DEF Spec

\* Every reachable state of the process is type correct.
THEOREM LifecycleTypes == Spec => []TypeOK
<1>1. LInv => TypeOK
  BY DEF LInv
<1> QED
  BY <1>1, LInvHolds, PTL

\* A process that has exited by itself left no handler cut short and no task
\* that trades (main.rs:113, engine.rs:57-62).
THEOREM ExitIsClean == Spec => []ExitedMeansStopped
<1>1. LInv => ExitedMeansStopped
  BY DEF LInv
<1> QED
  BY <1>1, LInvHolds, PTL

\* A task stops only after somebody broadcast the shutdown (main.rs:57, 97).
THEOREM StopsAreTold == Spec => []StopsFollowBroadcast
<1>1. LInv => StopsFollowBroadcast
  BY DEF LInv
<1> QED
  BY <1>1, LInvHolds, PTL

\* Swaps reach the engine in the order of the stream, each at most once, for
\* every capacity of the channel (geyser.rs:127-138, engine.rs:57-75).
THEOREM SwapsStayInOrder == Spec => []HandledInOrder
<1>1. LInv => HandledInOrder
  BY OrderedPending DEF LInv
<1> QED
  BY <1>1, LInvHolds, PTL

=============================================================================
