-------------------------- MODULE EventLoop_proofs --------------------------
(***************************************************************************)
(* Proofs about the subscriber's channel, the platform thread and its loop *)
(* for every set of waiters, posters and requesters, every capacity and    *)
(* any number of events: neither an event nor a post misses its wake,      *)
(* events are delivered in order, and no waiter of WhenReady misses its    *)
(* answer.                                                                 *)
(***************************************************************************)
EXTENDS EventLoop, SequenceTheorems, TLAPS

(***************************************************************************)
(* The channel by itself.  Whatever the pump does, it steps the channel by *)
(* EventChannel's actions.                                                 *)
(***************************************************************************)
Counters ==
    /\ epoch \in Nat /\ snapshot \in Nat
    /\ consumer \in {"idle", "start", "register", "snapshot", "check",
                     "check.stop", "wait", "asleep", "take"}
    /\ producer \in {"idle", "bump", "notify"}

(* An event that came after NextBatch looked at the ring moves the epoch   *)
(* past the snapshot, or is about to; and while the subscriber sleeps on   *)
(* an epoch that has moved, the notification is still to come.             *)
ChannelEpochTells ==
    /\ snapshot <= epoch
    /\ consumer \in {"check.stop", "wait", "asleep"} /\ ~Empty =>
         epoch # snapshot \/ producer = "bump"
    /\ consumer = "asleep" /\ epoch # snapshot => producer \in {"bump", "notify"}

WakeInv == Counters /\ ChannelEpochTells

LEMMA WakeStep == ASSUME WakeInv, [Next]_vars PROVE WakeInv'
<1> USE DEF WakeInv, Counters, ChannelEpochTells, Empty, Go, Leave, producerVars
<1>1. CASE TryPush             BY <1>1 DEF TryPush
<1>2. CASE BumpEpoch           BY <1>2 DEF BumpEpoch
<1>3. CASE NotifyOne           BY <1>3 DEF NotifyOne, Woken
<1>4. CASE TryPop              BY <1>4 DEF TryPop
<1>5. CASE Connect             BY <1>5 DEF Connect
<1>6. CASE StartNextBatch      BY <1>6 DEF StartNextBatch, Drain
<1>7. CASE RegisterStop        BY <1>7 DEF RegisterStop
<1>8. CASE LoadEpoch           BY <1>8 DEF LoadEpoch
<1>9. CASE CheckRing           BY <1>9 DEF CheckRing, Drain
<1>10. CASE CheckStop          BY <1>10 DEF CheckStop, Over
<1>11. CASE WaitEpoch          BY <1>11 DEF WaitEpoch
<1>12. CASE Take               BY <1>12 DEF Take, Over
<1>13. CASE RequestStop        BY <1>13 DEF RequestStop
<1>14. CASE NotifyEpochForStop BY <1>14 DEF NotifyEpochForStop, Woken
<1>15. CASE UNCHANGED vars     BY <1>15 DEF vars
<1> QED
  BY <1>1, <1>2, <1>3, <1>4, <1>5, <1>6, <1>7, <1>8, <1>9, <1>10, <1>11, <1>12,
     <1>13, <1>14, <1>15 DEF Next, PushStep, NextBatchStep

(* A subscriber asleep in NextBatch has nothing to take, unless a push is  *)
(* under way that will wake it (EventChannel.h, NextBatch).                *)
THEOREM NoWakeIsLost == Spec => []NoLostWake
<1>1. Init => WakeInv
  BY DEF Init, WakeInv, Counters, ChannelEpochTells, Empty
<1>2. WakeInv /\ [Next]_vars => WakeInv'
  BY WakeStep
<1>3. WakeInv => NoLostWake
  BY DEF WakeInv, Counters, ChannelEpochTells, NoLostWake, Empty
<1> QED
  BY <1>1, <1>2, <1>3, PTL DEF Spec
-----------------------------------------------------------------------------
Numbered(n) == [i \in 1 .. n |-> i]

OrderInv ==
    /\ pushed \in Nat /\ ring \in Seq(Nat) /\ delivered \in Seq(Nat)
    /\ taking \in 0 .. Len(ring)
    /\ delivered \o ring = Numbered(pushed)

LEMMA NumberedNext ==
    ASSUME NEW n \in Nat
    PROVE  Numbered(n) \in Seq(Nat) /\ Append(Numbered(n), n + 1) = Numbered(n + 1)
<1>1. Numbered(n) \in Seq(Nat) /\ Numbered(n + 1) \in Seq(Nat)
  BY DEF Numbered
<1>2. Len(Numbered(n)) = n /\ Len(Numbered(n + 1)) = n + 1
  BY <1>1, LenProperties DEF Numbered
<1>3. \A i \in 1 .. n + 1 : Append(Numbered(n), n + 1)[i] = Numbered(n + 1)[i]
  BY <1>1, <1>2, AppendProperties DEF Numbered
<1>4. Append(Numbered(n), n + 1) \in Seq(Nat) /\ Len(Append(Numbered(n), n + 1)) = n + 1
  BY <1>1, <1>2, AppendProperties
<1> QED
  BY <1>1, <1>2, <1>3, <1>4, SeqEqual

(* A push goes to the end of what was delivered and what is still to be.   *)
LEMMA OrderPush == ASSUME OrderInv, TryPush PROVE OrderInv'
<1>1. Append(ring, pushed + 1) \in Seq(Nat) /\ Len(ring) <= Len(Append(ring, pushed + 1))
  BY AppendProperties, LenProperties DEF OrderInv
<1>2. delivered \o Append(ring, pushed + 1) = Append(delivered \o ring, pushed + 1)
  BY AppendIsConcat, ConcatAssociative, ConcatProperties DEF OrderInv
<1> QED
  <2>1. /\ ring' = Append(ring, pushed + 1) /\ pushed' = pushed + 1
        /\ UNCHANGED <<taking, delivered>>
    BY DEF TryPush
  <2>2. delivered' \o ring' = Numbered(pushed')
    BY <1>2, <2>1, NumberedNext DEF OrderInv
  <2>3. taking' \in 0 .. Len(ring')
    BY <1>1, <2>1, LenProperties DEF OrderInv
  <2> QED
    BY <1>1, <2>1, <2>2, <2>3 DEF OrderInv

(* A drain moves the front of the ring to the end of what was delivered.   *)
LEMMA OrderTake == ASSUME OrderInv, Take PROVE OrderInv'
<1> DEFINE front == SubSeq(ring, 1, taking)
           rest == SubSeq(ring, taking + 1, Len(ring))
<1>1. front \in Seq(Nat) /\ rest \in Seq(Nat)
  BY SubSeqProperties, ElementOfSeq, LenProperties DEF OrderInv
<1>2. front \o rest = ring
  <2>1. /\ ring \in Seq(Nat) /\ 1 \in 1 .. Len(ring) + 1
        /\ taking \in 1 - 1 .. Len(ring) /\ Len(ring) \in taking .. Len(ring)
    BY LenProperties DEF OrderInv
  <2>2. front \o rest = SubSeq(ring, 1, Len(ring))
    BY <2>1, ConcatAdjacentSubSeq
  <2> QED
    BY <2>1, <2>2, SubSeqFull
<1> HIDE DEF front, rest
<1>3. (delivered \o front) \o rest = delivered \o ring
  <2>1. delivered \in Seq(Nat)
    BY DEF OrderInv
  <2>2. (delivered \o front) \o rest = delivered \o (front \o rest)
    BY <1>1, <2>1, ConcatAssociative
  <2> QED
    BY <1>2, <2>2
<1>4. delivered \o front \in Seq(Nat)
  BY <1>1, ConcatProperties DEF OrderInv
<1> QED
  <2>1. ring' = rest /\ delivered' = delivered \o front /\ taking' = 0 /\ pushed' = pushed
    BY DEF Take, front, rest, producerVars
  <2>2. delivered' \o ring' = Numbered(pushed')
    BY <1>3, <2>1 DEF OrderInv
  <2>3. taking' \in 0 .. Len(ring')
    BY <1>1, <2>1, LenProperties
  <2> QED
    BY <1>1, <1>4, <2>1, <2>2, <2>3 DEF OrderInv

LEMMA OrderStep == ASSUME OrderInv, [Next]_vars PROVE OrderInv'
<1> USE DEF OrderInv, Leave, producerVars
<1> Len(ring) \in Nat  BY LenProperties
<1>1. CASE TryPush             BY <1>1, OrderPush
<1>2. CASE Take                BY <1>2, OrderTake
<1>3. CASE TryPop              BY <1>3 DEF TryPop, Empty
<1>4. CASE Drain               BY <1>4 DEF Drain
<1>5. CASE UNCHANGED <<ring, pushed, taking, delivered>>
  BY <1>5
<1> QED
  BY <1>1, <1>2, <1>3, <1>4, <1>5
     DEF Next, PushStep, BumpEpoch, NotifyOne, Connect, NextBatchStep,
         StartNextBatch, CheckRing, RegisterStop, LoadEpoch, CheckStop, Over, WaitEpoch, RequestStop, NotifyEpochForStop, vars

(* What the subscriber got and what is still in the ring are, in order,    *)
(* all events that were pushed (EventChannel.h, DrainBatch).               *)
THEOREM DeliveredInOrder == Spec => []InOrder
<1>1. Init => OrderInv
  <2>1. << >> \o << >> = Numbered(0)
    BY ConcatEmptySeq, EmptySeq DEF Numbered
  <2> QED
    BY <2>1, EmptySeq DEF Init, OrderInv
<1>2. OrderInv /\ [Next]_vars => OrderInv'
  BY OrderStep
<1>3. OrderInv => InOrder
  BY DEF OrderInv, InOrder, Numbered
<1> QED
  BY <1>1, <1>2, <1>3, PTL DEF Spec
-----------------------------------------------------------------------------
(***************************************************************************)
(* The platform thread and its loop.                                       *)
(***************************************************************************)
WaiterStates ==
    [pc : {"idle", "register", "snapshot", "check", "check.stop", "wait",
           "asleep", "ready", "stopped"},
     moved : BOOLEAN, stop : BOOLEAN, registered : BOOLEAN]

ReadyTypes ==
    /\ notifying \in [Waiters \cup {"run"} -> {"no", "bump", "wake"}]
    /\ waiter \in [Waiters -> WaiterStates]

(* A thread notifies only where the code calls NotifyReadinessWaiters: Run *)
(* after it published or ended, a stop callback after its token fired.     *)
NotifiersPlaced ==
    /\ notifying["run"] # "no" => run \in {"ready", "stopped"}
    /\ \A w \in Waiters :
         /\ notifying[w] # "no" => waiter[w].stop
         /\ waiter[w].pc \in {"idle", "register", "ready", "stopped"} => notifying[w] = "no"
         /\ waiter[w].pc \in {"idle", "register", "ready", "stopped"} <=> ~waiter[w].registered

(* What came after a waiter's check has moved the epoch since, or is about *)
(* to; and whoever moved it under a sleeper is still to wake it.           *)
EpochTells ==
    \A w \in Waiters :
        /\ appChannel /\ waiter[w].pc \in {"check.stop", "wait", "asleep"} =>
             waiter[w].moved \/ notifying["run"] = "bump"
        /\ state = "Stopped" /\ waiter[w].pc \in {"wait", "asleep"} =>
             waiter[w].moved \/ notifying["run"] = "bump"
        /\ waiter[w].stop /\ waiter[w].pc \in {"wait", "asleep"} =>
             waiter[w].moved \/ notifying[w] = "bump"
        /\ waiter[w].pc = "asleep" /\ waiter[w].moved =>
             \E p \in Waiters \cup {"run"} : notifying[p] = "wake"

ReadyInv == ReadyTypes /\ NotifiersPlaced /\ EpochTells

(* Changing fields of a waiter leaves it one. *)
LEMMA WaiterFields ==
    ASSUME NEW x \in WaiterStates, NEW b \in BOOLEAN,
           NEW l \in {"snapshot", "check", "asleep"}
    PROVE  /\ [x EXCEPT !.pc = l, !.moved = b] \in WaiterStates
           /\ [x EXCEPT !.moved = b] \in WaiterStates
           /\ [x EXCEPT !.stop = b] \in WaiterStates
  BY DEF WaiterStates

LEMMA ReadyInit == ASSUME ThreadInit PROVE ReadyInv
  BY DEF ThreadInit, ReadyInv, ReadyTypes, WaiterStates, NotifiersPlaced, EpochTells

(* Run's own steps. *)
LEMMA ReadyRunStep ==
    ASSUME ReadyInv, BeginRun \/ RunAlone \/ EnterLoop \/ Unpublish PROVE ReadyInv'
<1> USE DEF ReadyInv, ReadyTypes, NotifiersPlaced, EpochTells, RunGoes,
            lifeVars, readyVars, stopVars_
<1>1. CASE BeginRun                BY <1>1 DEF BeginRun
<1>2. CASE InstallBridge           BY <1>2 DEF InstallBridge
<1>3. CASE StoreBridge             BY <1>3 DEF StoreBridge
<1>4. CASE LoadStopRequested       BY <1>4 DEF LoadStopRequested
<1>5. CASE ReplayAndAttach         BY <1>5 DEF ReplayAndAttach
<1>6. CASE Publish                 BY <1>6, LoopAssumption DEF Publish
<1>7. CASE Unexpose                BY <1>7 DEF Unexpose
<1>8. CASE DetachBridge            BY <1>8 DEF DetachBridge
<1>9. CASE SetStopped              BY <1>9, LoopAssumption DEF SetStopped
<1>10. CASE ReturnFromRun          BY <1>10 DEF ReturnFromRun
<1>11. CASE BumpReadiness("run")
  <2> \A u \in Waiters : Looping(u) \in BOOLEAN  BY DEF Looping
  <2>1. ReadyTypes'       BY <1>11, LoopAssumption, WaiterFields DEF BumpReadiness
  <2>2. NotifiersPlaced'  BY <1>11, LoopAssumption, <2>1 DEF WaiterStates, BumpReadiness, Looping
  <2>3. EpochTells'       BY <1>11, LoopAssumption, <2>1 DEF WaiterStates, BumpReadiness, Looping
  <2> QED                 BY <2>1, <2>2, <2>3
<1>12. CASE WakeWaiters("run")     BY <1>12, LoopAssumption DEF WakeWaiters, WaiterStates
<1>13. CASE EnterLoop              BY <1>13 DEF EnterLoop
<1>14. CASE Unpublish              BY <1>14 DEF Unpublish
<1> QED
  BY <1>1, <1>2, <1>3, <1>4, <1>5, <1>6, <1>7, <1>8, <1>9, <1>10, <1>11, <1>12,
     <1>13, <1>14 DEF RunAlone

(* The steps of WhenReady, and of the receivers' stop tokens. *)
LEMMA ReadyWaiterStep ==
    ASSUME ReadyInv, NEW w \in Waiters,
           StartWhenReady(w) \/ WaiterStep(w) \/ StopWaiter(w)
    PROVE  ReadyInv'
<1> USE LoopAssumption
    DEF ReadyInv, ReadyTypes, NotifiersPlaced, EpochTells, Waiting, WaiterOnly,
        Complete, lifeVars, stopVars_
<1>1. CASE StartWhenReady(w)     BY <1>1 DEF StartWhenReady, WaiterStates
<1>2. CASE RegisterOnStop(w)     BY <1>2 DEF RegisterOnStop, WaiterStates
<1>3. CASE SnapshotReadiness(w)
  <2>1. ReadyTypes'       BY <1>3, WaiterFields DEF SnapshotReadiness
  <2>2. NotifiersPlaced'  BY <1>3, <2>1 DEF WaiterStates, SnapshotReadiness
  <2>3. EpochTells'       BY <1>3, <2>1 DEF WaiterStates, SnapshotReadiness
  <2> QED                 BY <2>1, <2>2, <2>3
<1>4. CASE CheckChannel(w)       BY <1>4 DEF CheckChannel, WaiterStates
<1>5. CASE CheckStopped(w)       BY <1>5 DEF CheckStopped, WaiterStates
<1>6. CASE WaitReadiness(w)
  <2>1. ReadyTypes'       BY <1>6, WaiterFields DEF WaitReadiness
  <2>2. NotifiersPlaced'  BY <1>6, <2>1 DEF WaiterStates, WaitReadiness
  <2>3. EpochTells'       BY <1>6, <2>1 DEF WaiterStates, WaitReadiness
  <2> QED                 BY <2>1, <2>2, <2>3
<1>7. CASE BumpReadiness(w)
  <2> \A u \in Waiters : Looping(u) \in BOOLEAN  BY DEF Looping
  <2>1. ReadyTypes'       BY <1>7, WaiterFields DEF BumpReadiness
  <2>2. NotifiersPlaced'  BY <1>7, <2>1 DEF WaiterStates, BumpReadiness, Looping
  <2>3. EpochTells'       BY <1>7, <2>1 DEF WaiterStates, BumpReadiness, Looping
  <2> QED                 BY <2>1, <2>2, <2>3
<1>8. CASE WakeWaiters(w)        BY <1>8 DEF WakeWaiters, WaiterStates
<1>9. CASE StopWaiter(w)
  <2>1. ReadyTypes'       BY <1>9, WaiterFields DEF StopWaiter, Answered
  <2>2. NotifiersPlaced'  BY <1>9, <2>1 DEF WaiterStates, StopWaiter, Answered
  <2>3. EpochTells'       BY <1>9, <2>1 DEF WaiterStates, StopWaiter, Answered
  <2> QED                 BY <2>1, <2>2, <2>3
<1> QED
  BY <1>1, <1>2, <1>3, <1>4, <1>5, <1>6, <1>7, <1>8, <1>9 DEF WaiterStep

(* Whatever else the program does leaves the waiters alone. *)
LEMMA ReadyOtherStep ==
    ASSUME ReadyInv,
           \/ UNCHANGED threadVars
           \/ \E t \in Requesters : CallRequestStop(t) \/ RequestStep(t)
    PROVE  ReadyInv'
  BY DEF ReadyInv, ReadyTypes, NotifiersPlaced, EpochTells, threadVars, lifeVars,
         readyVars, CallRequestStop, RequestStep, StoreStopRequested, LoadBridge,
         BridgeRequest

LEMMA ReadyStep == ASSUME ReadyInv, [LoopNext]_loopVars PROVE ReadyInv'
<1>1. CASE BeginRun \/ RunProceeds
  BY <1>1, ReadyRunStep DEF RunProceeds, StartLoop, LeaveLoop
<1>2. CASE \E w \in Waiters : StartWhenReady(w) \/ WaiterStep(w) \/ StopWaiter(w)
  BY <1>2, ReadyWaiterStep
<1>3. CASE \/ UNCHANGED threadVars
           \/ \E t \in Requesters : CallRequestStop(t) \/ RequestStep(t)
  BY <1>3, ReadyOtherStep
<1> QED
  BY <1>1, <1>2, <1>3 DEF LoopNext, LoopProceeds, Posting, PosterProceeds, Pump,
     Channel, loopVars

(* Every waiter that sleeps has nothing to be told, or somebody is about   *)
(* to wake it: no answer of WhenReady is missed (PlatformThread.h).        *)
THEOREM WhenReadyNotMissed == LoopSpec => []ReadinessNotMissed
<1>1. LoopInit => ReadyInv
  BY ReadyInit DEF LoopInit
<1>2. ReadyInv /\ [LoopNext]_loopVars => ReadyInv'
  BY ReadyStep
<1>3. ReadyInv => ReadinessNotMissed
  BY DEF ReadyInv, ReadyTypes, EpochTells, ReadinessNotMissed
<1> QED
  BY <1>1, <1>2, <1>3, PTL DEF LoopSpec
-----------------------------------------------------------------------------
Cells == [by : Posters \cup {"pump"}, ready : BOOLEAN]

Busy == \E p \in Posters : poster[p] # "idle"

(* A cell is unpublished only while its poster is at it. *)
Owned(queue, posters) ==
    /\ queue \in Seq(Cells)
    /\ \A i \in 1 .. Len(queue) : ~queue[i].ready =>
         queue[i].by \in Posters /\ posters[queue[i].by] = "publish"

PosterTypes ==
    /\ poster \in [Posters -> {"idle", "publish", "wake"}]
    /\ signal \in BOOLEAN

(* What is queued will be seen: the loop is woken, or about to be, or has  *)
(* the drain still before it.                                              *)
PostsSeen ==
    /\ inbox # << >> => signal \/ Busy \/ pump \in {"clear", "native", "inbox"}
    /\ mailbox # << >> =>
         signal \/ Busy \/ pump \in {"clear", "native", "inbox", "mailbox", "resume"}

NotYetLooping == run \in {"idle", "install", "expose", "publish", "ready"} => pump = "off"

PostsInv ==
    /\ PosterTypes /\ PostsSeen /\ NotYetLooping
    /\ Owned(inbox, poster) /\ Owned(mailbox, poster)

(* How the queues change, and what a poster's own steps do to the others'  *)
(* cells.                                                                  *)
LEMMA OwnedTail ==
    ASSUME NEW posters, NEW queue, Owned(queue, posters), queue # << >>
    PROVE  Owned(Tail(queue), posters)
  BY HeadTailProperties DEF Owned

LEMMA OwnedAppend ==
    ASSUME NEW posters, NEW queue, Owned(queue, posters), NEW cell \in Cells,
           cell.ready \/ (cell.by \in Posters /\ posters[cell.by] = "publish")
    PROVE  Owned(Append(queue, cell), posters)
<1>1. Append(queue, cell) \in Seq(Cells) /\ Len(Append(queue, cell)) = Len(queue) + 1
  BY AppendProperties DEF Owned
<1>2. ASSUME NEW i \in 1 .. Len(queue) + 1
      PROVE  Append(queue, cell)[i] = IF i = Len(queue) + 1 THEN cell ELSE queue[i]
  BY AppendProperties DEF Owned
<1> QED
  BY <1>1, <1>2 DEF Owned

LEMMA OwnedFilled ==
    ASSUME NEW posters \in [Posters -> {"idle", "publish", "wake"}], NEW queue,
           Owned(queue, posters), NEW p \in Posters
    PROVE  Owned(Filled(queue, p), [posters EXCEPT ![p] = "wake"])
<1>1. DOMAIN queue = 1 .. Len(queue) /\ Len(queue) \in Nat
  BY LenProperties DEF Owned
<1>2. \A i \in DOMAIN queue : [queue[i] EXCEPT !.ready = TRUE] \in Cells
  <2>1. \A c \in Cells : [c EXCEPT !.ready = TRUE] \in Cells  BY DEF Cells
  <2>2. \A i \in DOMAIN queue : queue[i] \in Cells            BY <1>1, ElementOfSeq DEF Owned
  <2> QED  BY <2>1, <2>2
<1>3. Filled(queue, p) \in Seq(Cells) /\ Len(Filled(queue, p)) = Len(queue)
  BY <1>1, <1>2 DEF Filled, Owned
<1> QED
  BY <1>1, <1>3 DEF Filled, Owned, Cells

LEMMA OwnedByOthers ==
    ASSUME NEW posters \in [Posters -> {"idle", "publish", "wake"}], NEW queue,
           Owned(queue, posters), NEW p \in Posters, posters[p] # "publish",
           NEW label
    PROVE  Owned(queue, [posters EXCEPT ![p] = label])
  BY DEF Owned, Cells

LEMMA PostsPosterStep ==
    ASSUME PostsInv, NEW p \in Posters, UNCHANGED run,
           TryPostExternal(p) \/ SubmitResume(p) \/ PublishPost(p) \/ Wake(p)
    PROVE  PostsInv'
<1> USE DEF PostsInv, PosterTypes, PostsSeen, NotYetLooping, Busy, Step
<1> Claim(p) \in Cells /\ Claim(p).by = p
  BY DEF Cells, Claim
<1> DEFINE claimed == [poster EXCEPT ![p] = "publish"]
<1>0. ASSUME poster[p] = "idle"
      PROVE  \A queue \in {inbox, mailbox} :
               Owned(queue, claimed) /\ Owned(Append(queue, Claim(p)), claimed)
  <2>1. \A queue \in {inbox, mailbox} : Owned(queue, claimed)
    BY <1>0, OwnedByOthers
  <2> HIDE DEF PostsInv
  <2>2. claimed[p] = "publish"
    BY DEF PostsInv
  <2> QED
    BY <2>1, <2>2, OwnedAppend
<1> HIDE DEF claimed
<1>1. CASE TryPostExternal(p)
  <2>1. CASE Len(inbox) < InboxCapacity
    BY <1>1, <1>0, <2>1 DEF TryPostExternal, claimed
  <2>2. CASE ~(Len(inbox) < InboxCapacity)
    <3>1. poster[p] = "idle" /\ poster' = [poster EXCEPT ![p] = "wake"]
      BY <1>1, <2>2 DEF TryPostExternal
    <3>2. Owned(inbox, poster') /\ Owned(mailbox, poster')
      BY <3>1, OwnedByOthers
    <3> QED  BY <1>1, <2>2, <3>1, <3>2 DEF TryPostExternal
  <2> QED  BY <2>1, <2>2
<1>2. CASE SubmitResume(p)
  BY <1>2, <1>0 DEF SubmitResume, claimed
<1>3. CASE PublishPost(p)
  BY <1>3, OwnedFilled DEF PublishPost
<1>4. CASE Wake(p)
  BY <1>4, OwnedByOthers DEF Wake, queueVars
<1> QED  BY <1>1, <1>2, <1>3, <1>4

(* What the loop does.  A drain ends before an unpublished cell, whose     *)
(* poster is to wake the loop again.                                       *)
LEMMA PostsPumpStep ==
    ASSUME PostsInv, PumpStep(source), UNCHANGED run PROVE PostsInv'
<1> USE DEF PostsInv, PosterTypes, PostsSeen, NotYetLooping, Busy, Pumping, queueVars
<1> DEFINE HeadOwned(queue) == queue # << >> /\ ~Head(queue).ready => Busy
<1>1. HeadOwned(inbox) /\ HeadOwned(mailbox)
  BY DEF Owned
<1>2. CASE WaitForAnySource(source)    BY <1>2 DEF WaitForAnySource
<1>3. CASE ClearObservedSignal         BY <1>3 DEF ClearObservedSignal
<1>4. CASE DrainNative                 BY <1>4 DEF DrainNative
<1>5. CASE DrainExternal               BY <1>5, <1>1, OwnedTail DEF DrainExternal, Ready
<1>6. CASE DrainOwnerMailbox           BY <1>6, <1>1, OwnedTail DEF DrainOwnerMailbox, Ready
<1>7. CASE Resume
  <2>1. Owned(Append(mailbox, [by |-> "pump", ready |-> TRUE]), poster)
    <3> DEFINE cell == [by |-> "pump", ready |-> TRUE]
    <3> cell \in Cells /\ cell.ready  BY DEF Cells
    <3> HIDE DEF cell
    <3> Owned(Append(mailbox, cell), poster)  BY OwnedAppend
    <3> QED  BY DEF cell
  <2> QED  BY <1>7, <2>1 DEF Resume
<1>8. CASE CheckStopRequested(source)  BY <1>8 DEF CheckStopRequested
<1> QED
  BY <1>2, <1>3, <1>4, <1>5, <1>6, <1>7, <1>8 DEF PumpStep

LEMMA PostsStep == ASSUME PostsInv, [LoopNext]_loopVars PROVE PostsInv'
<1>1. CASE LoopProceeds
  BY <1>1, PostsPumpStep DEF LoopProceeds, Pump, threadVars, lifeVars
<1>2. CASE \E p \in Posters :
             \/ Posting /\ (TryPostExternal(p) \/ SubmitResume(p))
             \/ PosterProceeds(p)
  BY <1>2, PostsPosterStep DEF Posting, PosterProceeds, Pump, threadVars, lifeVars
<1>3. CASE Posting /\ NativeEvent
  BY <1>3 DEF Posting, Pump, threadVars, lifeVars, NativeEvent, PostsInv,
     PosterTypes, PostsSeen, NotYetLooping, Busy
<1>4. CASE StartLoop
  BY <1>4 DEF StartLoop, EnterLoop, RunGoes, queueVars, PostsInv, PosterTypes,
     PostsSeen, NotYetLooping, Busy
<1>5. CASE UNCHANGED pumpVars /\ (UNCHANGED run \/ BeginRun \/ RunAlone \/ LeaveLoop)
  <2>1. NotYetLooping'
    BY <1>5 DEF BeginRun, RunAlone, LeaveLoop, RunGoes, pumpVars, PostsInv, NotYetLooping,
       InstallBridge, StoreBridge, LoadStopRequested, ReplayAndAttach, Publish, Unpublish,
       Unexpose, DetachBridge, SetStopped, ReturnFromRun, BumpReadiness, WakeWaiters, lifeVars
  <2> QED
    BY <1>5, <2>1 DEF pumpVars, queueVars, PostsInv, PosterTypes, PostsSeen, Busy
<1>6. ASSUME
           \/ \E t \in Requesters : CallRequestStop(t) \/ RequestStep(t)
           \/ \E w \in Waiters : StartWhenReady(w) \/ WaiterStep(w) \/ StopWaiter(w)
           \/ UNCHANGED threadVars
      PROVE  UNCHANGED run
    BY <1>6 DEF threadVars, lifeVars, CallRequestStop, RequestStep,
       StoreStopRequested, LoadBridge, BridgeRequest, StartWhenReady, WaiterStep,
       StopWaiter, RegisterOnStop, SnapshotReadiness, CheckChannel, CheckStopped,
       WaitReadiness, BumpReadiness, WakeWaiters, WaiterOnly
<1> QED
  <2>1. [LoopNext]_loopVars =>
          \/ LoopProceeds \/ StartLoop \/ (Posting /\ NativeEvent)
          \/ \E p \in Posters :
               \/ Posting /\ (TryPostExternal(p) \/ SubmitResume(p))
               \/ PosterProceeds(p)
          \/ /\ UNCHANGED pumpVars
             /\ \/ BeginRun \/ RunAlone \/ LeaveLoop
                \/ \E t \in Requesters : CallRequestStop(t) \/ RequestStep(t)
                \/ \E w \in Waiters : StartWhenReady(w) \/ WaiterStep(w) \/ StopWaiter(w)
                \/ UNCHANGED threadVars
    BY DEF LoopNext, RunProceeds, Thread, Channel, loopVars, LeaveLoop
  <2> QED
    BY <1>1, <1>2, <1>3, <1>4, <1>5, <1>6, <2>1

(* The loop never goes to sleep on a post: when it waits with its event    *)
(* clear and no poster is on its way, both queues are empty (EventPump.h). *)
THEOREM PostsNeverLost == LoopSpec => []PostsWakeLoop
<1>1. LoopInit => PostsInv
  <2>1. Owned(<< >>, poster)
    BY EmptySeq DEF Owned
  <2> QED
    BY <2>1 DEF LoopInit, PumpInit, PostsInv, PosterTypes, PostsSeen, NotYetLooping
<1>2. PostsInv /\ [LoopNext]_loopVars => PostsInv'
  BY PostsStep
<1>3. PostsInv => PostsWakeLoop
  BY DEF PostsInv, PosterTypes, PostsSeen, Busy, PostsWakeLoop
<1> QED
  BY <1>1, <1>2, <1>3, PTL DEF LoopSpec
-----------------------------------------------------------------------------
(* Whatever the loop does, the channel sees one of its own steps or none.  *)
LEMMA LoopStepsChannel == ASSUME [LoopNext]_loopVars PROVE [Next]_vars
<1>1. CASE LoopProceeds
  BY <1>1 DEF LoopProceeds, PumpStep, WaitForAnySource, ClearObservedSignal, DrainNative,
     DrainExternal, DrainOwnerMailbox, Resume, CheckStopRequested, DispatchEvent,
     channelVars, Next
<1>2. CASE RunProceeds
  BY <1>2 DEF RunProceeds, StartLoop, LeaveLoop, Thread, channelVars
<1>3. CASE PushStep \/ (Subscribed /\ (TryPop \/ Take))
  BY <1>3 DEF Next, NextBatchStep
<1>4. CASE UNCHANGED channelVars
  BY <1>4 DEF channelVars
<1>5. CASE UNCHANGED loopVars
  BY <1>5, <1>4 DEF loopVars
<1> QED
  BY <1>1, <1>2, <1>3, <1>4, <1>5 DEF LoopNext, Thread, Posting, PosterProceeds

(* The platform loop implements the channel: posts, native events, stops   *)
(* and the start and end of Run reach it only through Broadcast's push and *)
(* the subscriber's own calls (EventPump.h, Drain*; EventChannel.h).       *)
THEOREM LoopImplementsChannel == LoopSpec => Spec
<1>1. LoopInit => Init
  BY DEF LoopInit
<1>2. [LoopNext]_loopVars => [Next]_vars
  BY LoopStepsChannel
<1> QED
  BY <1>1, <1>2, PTL DEF LoopSpec, Spec

(* So the application gets the events of the loop in the order in which    *)
(* the loop broadcast them, with none lost between the ring and it.        *)
THEOREM LoopDeliversInOrder == LoopSpec => []InOrder
  BY LoopImplementsChannel, DeliveredInOrder, PTL
=============================================================================
